---------------------------- MODULE Certificates ----------------------------
(***************************************************************************)
(* The certificates of the websites of a threebot: Website and Certbot of  *)
(* jumpscale/sals/nginx/nginx.py, and the daily job of                     *)
(* install/certbot/certbot_cronjob.py.  Certbot itself keeps the           *)
(* certificates it has obtained, and renews those in their last days.      *)
(***************************************************************************)
EXTENDS Naturals, FiniteSets

CONSTANTS Websites, \* with a domain
          Life,     \* days a certificate is good for
          Due       \* age from which certbot renews it

VARIABLES served,  \* what each website is served with
          managed, \* certificates that certbot has
          age,     \* of each, in days
          todo,    \* websites the job has yet to look at
          running, \* the job is
          found,   \* it has found a managed one: renew_command is set
          attempt, \* the website that certbot is asked for, and how often still
          smooth,  \* ghost: nothing has failed in this job
          renewed  \* ghost: a job in which nothing failed has ended today

vars == <<served, managed, age, todo, running, found, attempt, smooth, renewed>>

Nothing == [website |-> {}, tries |-> 0]
Retries == 6

CertificatesAssumption == Due \in Nat \ {0} /\ Life \in Nat /\ Due < Life

TypeOK ==
    /\ served \in [Websites -> {"none", "selfsigned", "own", "managed"}]
    /\ managed \subseteq Websites /\ age \in [Websites -> 0 .. Life]
    /\ todo \subseteq Websites
    /\ {running, found, smooth, renewed} \subseteq BOOLEAN
    /\ attempt.website \subseteq Websites /\ Cardinality(attempt.website) <= 1
    /\ attempt.tries \in 0 .. Retries

Init ==
    /\ served = [w \in Websites |-> "none"]
    /\ managed = {} /\ age = [w \in Websites |-> 0]
    /\ todo = {} /\ running = FALSE /\ found = FALSE
    /\ attempt = Nothing /\ smooth = TRUE /\ renewed = FALSE

Free == attempt = Nothing

-----------------------------------------------------------------------------
(* Website.configure with ssl: a self-signed certificate, and then the one *)
(* that the package brings, or one from certbot.                           *)
Configure(w, own) ==
    /\ Free
    /\ IF own
       THEN /\ served' = [served EXCEPT ![w] = "own"]
            /\ UNCHANGED attempt
       ELSE /\ served' = [served EXCEPT ![w] = "selfsigned"]
            /\ attempt' = [website |-> {w}, tries |-> Retries]
    /\ UNCHANGED <<managed, age, todo, running, found, smooth, renewed>>

(* obtain_and_install_certifcate tries six times; what it has found wrong  *)
(* it logs.  Asked again for a certificate it has, certbot keeps that one  *)
(* until it is due.                                                        *)
Obtain(w) ==
    /\ w \in attempt.website
    /\ managed' = managed \cup {w}
    /\ served' = [served EXCEPT ![w] = "managed"]
    /\ age' = IF w \in managed /\ age[w] < Due THEN age ELSE [age EXCEPT ![w] = 0]
    /\ attempt' = Nothing
    /\ UNCHANGED <<todo, running, found, smooth, renewed>>

ObtainFails ==
    /\ ~Free
    /\ attempt' = IF attempt.tries = 1 THEN Nothing ELSE [attempt EXCEPT !.tries = @ - 1]
    /\ smooth' = FALSE
    /\ UNCHANGED <<served, managed, age, todo, running, found, renewed>>

(* The job goes through the websites of all packages.                      *)
StartJob ==
    /\ Free /\ ~running
    /\ running' = TRUE /\ todo' = Websites
    /\ found' = FALSE /\ smooth' = TRUE
    /\ UNCHANGED <<served, managed, age, attempt, renewed>>

\* Mutant: what the last website was found to be decides.
Look_Last(w, checked) ==
    /\ running /\ Free /\ w \in todo
    /\ todo' = todo \ {w}
    /\ found' = (w \in managed /\ checked)
    /\ attempt' = IF found' THEN attempt ELSE [website |-> {w}, tries |-> Retries]
    /\ smooth' = (smooth /\ checked)
    /\ UNCHANGED <<served, managed, age, running, renewed>>

(* A check that fails counts as "not managed".                             *)
Look(w, checked) ==
    /\ running /\ Free /\ w \in todo
    /\ todo' = todo \ {w}
    /\ IF w \in managed /\ checked
       THEN /\ found' = TRUE
            /\ UNCHANGED attempt
       ELSE /\ attempt' = [website |-> {w}, tries |-> Retries]
            /\ UNCHANGED found
    /\ smooth' = (smooth /\ checked)
    /\ UNCHANGED <<served, managed, age, running, renewed>>

(* The command of a certbot that needs a key of its own (ZeroSSL) is made  *)
(* with a request, and one that fails ends the job.                        *)
JobFails ==
    /\ running /\ Free /\ todo # {}
    /\ running' = FALSE /\ todo' = {}
    /\ UNCHANGED <<served, managed, age, found, attempt, smooth, renewed>>

(* One renewal for all; there is no command for it when no website was     *)
(* found managed, and nothing is renewed.                                  *)
EndJob(ok) ==
    /\ running /\ Free /\ todo = {}
    /\ age' = IF ok THEN [w \in Websites |-> IF w \in managed /\ found /\ age[w] >= Due THEN 0 ELSE age[w]] ELSE age
    /\ running' = FALSE
    /\ renewed' = (ok /\ smooth)
    /\ UNCHANGED <<served, managed, todo, found, attempt, smooth>>

(* A day is over; the job runs once a day.                                 *)
NextDay ==
    /\ Free /\ ~running
    /\ age' = [w \in Websites |-> IF w \in managed /\ age[w] < Life THEN age[w] + 1 ELSE age[w]]
    /\ renewed' = FALSE
    /\ UNCHANGED <<served, managed, todo, running, found, attempt, smooth>>

Next ==
    \/ \E w \in Websites :
         \/ Obtain(w)
         \/ \E b \in BOOLEAN : Configure(w, b) \/ Look(w, b)
    \/ ObtainFails \/ StartJob \/ JobFails \/ NextDay
    \/ \E ok \in BOOLEAN : EndJob(ok)

Spec == Init /\ [][Next]_vars

-----------------------------------------------------------------------------
(* A job in which nothing failed leaves no certificate in its last days,   *)
(* whatever websites it meets first, with certificates of their own, with  *)
(* none, or with those it obtains itself.                                  *)
RenewedInTime == renewed => \A w \in managed : age[w] < Due
=============================================================================
