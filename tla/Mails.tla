------------------------------- MODULE Mails --------------------------------
(***************************************************************************)
(* The hourly report of alerts                                             *)
(* (jumpscale/packages/admin/services/alerts_notifier.py), the list of     *)
(* mails in redis, and the notifier service that sends them                *)
(* (packages/admin/services/notifier.py, clients/mail/mail.py).  A mail is *)
(* its place in the order they were queued.                                *)
(***************************************************************************)
EXTENDS Naturals, Sequences, SequencesExt

CONSTANTS Emails,    \* addresses
          Admins,    \* calls that change the addresses
          Notifiers, \* jobs of the notifier service
          MaxMails   \* bound: mails queued

MailsAssumption == MaxMails \in Nat

VARIABLES escalation, \* ESCALATION_EMAILS of the configuration
          copy,       \* what a call has read of it
          outbox,     \* MAIL_QUEUE, next one first
          mailed,     \* number of mails queued so far
          taken,      \* the mail each notifier has taken, 0 for none
          sent        \* how often each mail was sent

vars == <<escalation, copy, outbox, mailed, taken, sent>>

None == {"none"}

TypeOK ==
    /\ escalation \subseteq Emails
    /\ copy \in [Admins -> {None} \cup SUBSET Emails]
    /\ mailed \in 0 .. MaxMails /\ outbox \in Seq(1 .. mailed)
    /\ taken \in [Notifiers -> 0 .. mailed]
    /\ sent \in [1 .. MaxMails -> Nat]

Init ==
    /\ escalation = {}
    /\ copy = [a \in Admins |-> None]
    /\ outbox = <<>> /\ mailed = 0
    /\ taken = [n \in Notifiers |-> 0]
    /\ sent = [m \in 1 .. MaxMails |-> 0]

(* add_escalation_email and delete_escalation_email read the list, change  *)
(* it and write it back, which saves the configuration.                    *)
ReadEmails(a) ==
    /\ copy[a] = None
    /\ copy' = [copy EXCEPT ![a] = escalation]
    /\ UNCHANGED <<escalation, outbox, mailed, taken, sent>>

WriteEmails(a) ==
    /\ copy[a] # None
    /\ \E e \in Emails : escalation' \in {copy[a] \cup {e}, copy[a] \ {e}}
    /\ copy' = [copy EXCEPT ![a] = None]
    /\ UNCHANGED <<outbox, mailed, taken, sent>>

(* The report is queued when there is somebody to read it and an alert.    *)
Report ==
    /\ mailed < MaxMails /\ escalation # {}
    /\ mailed' = mailed + 1
    /\ outbox' = Append(outbox, mailed + 1)
    /\ UNCHANGED <<escalation, copy, taken, sent>>

\* Mutant: the notifier looks at the mail and leaves it in the list.
Take_Peek(n) ==
    /\ taken[n] = 0 /\ outbox # <<>>
    /\ taken' = [taken EXCEPT ![n] = Head(outbox)]
    /\ UNCHANGED <<escalation, copy, outbox, mailed, sent>>
Take(n) ==
    /\ taken[n] = 0 /\ outbox # <<>>
    /\ taken' = [taken EXCEPT ![n] = Head(outbox)]
    /\ outbox' = Tail(outbox)
    /\ UNCHANGED <<escalation, copy, mailed, sent>>

(* One that fails, or cannot be read, is logged and gone.                  *)
Send(n, ok) ==
    /\ taken[n] # 0
    /\ sent' = IF ok THEN [sent EXCEPT ![taken[n]] = @ + 1] ELSE sent
    /\ taken' = [taken EXCEPT ![n] = 0]
    /\ UNCHANGED <<escalation, copy, outbox, mailed>>

Kill ==
    /\ copy' = [a \in Admins |-> None]
    /\ taken' = [n \in Notifiers |-> 0]
    /\ UNCHANGED <<escalation, outbox, mailed, sent>>

Next ==
    \/ \E a \in Admins : ReadEmails(a) \/ WriteEmails(a)
    \/ Report \/ Kill
    \/ \E n \in Notifiers : Take(n) \/ (\E ok \in BOOLEAN : Send(n, ok))

Spec == Init /\ [][Next]_vars

-----------------------------------------------------------------------------
(* No mail is sent twice, whenever the process is killed and however many  *)
(* jobs of the notifier run at once: each mail is in the list, in one      *)
(* notifier's hands, sent once, or gone.                                   *)
MailedOnce ==
    \A m \in 1 .. mailed :
      LET holders == {n \in Notifiers : taken[n] = m}
      IN /\ sent[m] <= 1
         /\ (sent[m] = 1 => m \notin ToSet(outbox) /\ holders = {})
         /\ \A n \in holders : m \notin ToSet(outbox) /\ holders = {n}
=============================================================================
