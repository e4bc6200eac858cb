------------------------------- MODULE Polls --------------------------------
(***************************************************************************)
(* The polls chatflow (jumpscale/sals/chatflows/polls.py) and the polls    *)
(* made from it (packages/polls/chats): a voter pays a little from each    *)
(* wallet that is to count, with a code as memo, and the vote weighs what  *)
(* the wallets hold.  Each session has a copy of its own of the voter's    *)
(* record and saves all of it.  The hashes of the transactions, which      *)
(* nothing reads, and the texts are left out.                              *)
(***************************************************************************)
EXTENDS Naturals, FiniteSets, FiniteSetsExt

CONSTANTS Voters, Sessions, Wallets,
          Nothing,  \* no code, no wallet
          VoterOf,  \* the voter of each session
          Tokens    \* TFT and TFTA of each wallet, the locked ones too

PollsAssumption ==
    /\ VoterOf \in [Sessions -> Voters] /\ Tokens \in [Wallets -> Nat]
    /\ IsFiniteSet(Wallets) /\ Nothing \notin Sessions \cup Wallets

VARIABLES users,   \* the stored record of each voter
          talk,    \* what each session does, with its copy of the record
          payments \* <<memo, wallet>> of the payments to the poll's wallet

vars == <<users, talk, payments>>

(* A code is drawn by a session, and named by it.                          *)
Codes == Sessions \cup {Nothing}
Blank == [code |-> Nothing, wallets |-> {}, tokens |-> 0,
          voted |-> FALSE, weight |-> 0,
          unread |-> {}]   \* ghost: wallets whose balance was not added
Newcomer == [at |-> "none", copy |-> Blank, more |-> FALSE, wallet |-> Nothing]
Held(W) == FoldSet(LAMBDA w, n : Tokens[w] + n, 0, W)
Most == Held(Wallets)

Record == [code : Codes, wallets : SUBSET Wallets, tokens : 0 .. Most,
           voted : BOOLEAN, weight : 0 .. Most, unread : SUBSET Wallets]

TypeOK ==
    /\ users \in [Voters -> Record]
    /\ talk \in [Sessions ->
         [at : {"none", "welcome", "pay", "read", "more", "votes", "result",
                "error", "stopped", "end"},
          copy : Record,
          more : BOOLEAN,   \* the round has listed a new wallet
          wallet : Wallets \cup {Nothing}]]
    /\ payments \subseteq Sessions \X Wallets

Init ==
    /\ users = [u \in Voters |-> Blank]
    /\ talk = [s \in Sessions |-> Newcomer]
    /\ payments = {}

At(s, x) == talk[s].at = x
Goes(s, x) == talk' = [talk EXCEPT ![s].at = x]
Saves(s, r) == users' = [users EXCEPT ![VoterOf[s]] = r]

-----------------------------------------------------------------------------
(* initialize loads the record; who has voted may look at the result, and  *)
(* the steps go on all the same.                                           *)
Initialize(s) ==
    /\ At(s, "none")
    /\ talk' = [talk EXCEPT ![s].at = "welcome", ![s].copy = users[VoterOf[s]]]
    /\ UNCHANGED <<users, payments>>

(* The payment step draws a code when the record has none.  Who has        *)
(* wallets is asked for more, else has to pay.                             *)
Payment(s) ==
    LET r == talk[s].copy
    IN talk' = [talk EXCEPT ![s].at = IF r.wallets = {} THEN "pay" ELSE "more",
                            ![s].copy.code = IF r.code = Nothing THEN s ELSE r.code,
                            ![s].more = FALSE, ![s].wallet = Nothing]

EnterPayment(s) ==
    /\ At(s, "welcome")
    /\ Payment(s)
    /\ UNCHANGED <<users, payments>>

(* Whoever has a code pays with it.                                        *)
Pay(s, w) ==
    /\ \E t \in Sessions : talk[t].copy.code = s \/ users[VoterOf[s]].code = s
    /\ payments' = payments \cup {<<s, w>>}
    /\ UNCHANGED <<users, talk>>

(* A round of _check_payment looks at the transactions with the code, and  *)
(* is the last one when it has listed a new wallet.  The deadline is       *)
(* compared with a time that is read once, so else there is another round. *)
Paid(s, w) == <<talk[s].copy.code, w>> \in payments

Enough(s) ==
    /\ At(s, "pay") /\ talk[s].more
    /\ Goes(s, "more")
    /\ UNCHANGED <<users, payments>>

\* Mutant: a wallet counts each time it is seen.
Look_Again(s, w) ==
    /\ At(s, "pay") /\ Paid(s, w)
    /\ talk' = [talk EXCEPT ![s].at = "read", ![s].wallet = w, ![s].more = TRUE,
                            ![s].copy.wallets = @ \cup {w}]
    /\ UNCHANGED <<users, payments>>

(* A transaction of the list: a new wallet is listed and its balance asked *)
(* for, the record of a known one is saved.                                *)
Look(s, w) ==
    LET r == talk[s].copy
    IN /\ At(s, "pay") /\ Paid(s, w)
       /\ IF w \in r.wallets
          THEN Saves(s, r) /\ UNCHANGED talk
          ELSE /\ talk' = [talk EXCEPT ![s].at = "read", ![s].wallet = w,
                                       ![s].more = TRUE,
                                       ![s].copy = [r EXCEPT !.wallets = @ \cup {w},
                                                             !.unread = @ \cup {w}]]
               /\ UNCHANGED users
       /\ UNCHANGED payments

ReadBalance(s) ==
    LET t == talk[s]
        r == [t.copy EXCEPT !.tokens = @ + Tokens[t.wallet], !.unread = @ \ {t.wallet}]
    IN /\ At(s, "read")
       /\ talk' = [talk EXCEPT ![s].at = "pay", ![s].wallet = Nothing, ![s].copy = r]
       /\ Saves(s, r)
       /\ UNCHANGED payments

(* A call of the stellar client raises: the session shows the error, and   *)
(* can still be sent back.                                                 *)
StellarFails(s) ==
    /\ talk[s].at \in {"pay", "more", "read"}
    /\ Goes(s, "error")
    /\ UNCHANGED <<users, payments>>

More(s, yes) ==
    /\ At(s, "more")
    /\ talk' = [talk EXCEPT ![s].at = IF yes THEN "pay" ELSE "votes",
                            ![s].more = FALSE]
    /\ UNCHANGED <<users, payments>>

(* custom_votes ends in vote, which saves the record; a poll may stop      *)
(* there when an answer is not what it wants.                              *)
Vote(s) ==
    LET r == [talk[s].copy EXCEPT !.voted = TRUE, !.weight = talk[s].copy.tokens]
    IN /\ At(s, "votes")
       /\ talk' = [talk EXCEPT ![s].at = "result", ![s].copy = r]
       /\ Saves(s, r)
       /\ UNCHANGED payments

Disagree(s) ==
    /\ At(s, "votes")
    /\ Goes(s, "stopped")
    /\ UNCHANGED <<users, payments>>

(* The result divides by the sum of the weights, and raises when it is 0.  *)
Voted == {u \in Voters : users[u].voted}
Result(s) ==
    /\ At(s, "result")
    /\ Goes(s, IF Voted # {} /\ \A u \in Voted : users[u].weight = 0 THEN "stopped" ELSE "end")
    /\ UNCHANGED <<users, payments>>

(* go_back kills the greenlet and runs a step again, with the same copy.   *)
BackInPayment(s) ==
    /\ talk[s].at \in {"pay", "read", "more", "error"}
    /\ Payment(s)
    /\ UNCHANGED <<users, payments>>

BackToVotes(s) ==
    /\ talk[s].at \in {"result", "stopped"}
    /\ Goes(s, "votes")
    /\ UNCHANGED <<users, payments>>

(* The voter leaves, or the process ends: the copy is lost.                *)
Leave(s) ==
    /\ talk[s].at \notin {"none", "end"}
    /\ talk' = [talk EXCEPT ![s] = [Newcomer EXCEPT !.at = "end"]]
    /\ UNCHANGED <<users, payments>>

Next ==
    \E s \in Sessions :
      \/ Initialize(s) \/ EnterPayment(s) \/ Enough(s) \/ ReadBalance(s)
      \/ StellarFails(s) \/ Vote(s) \/ Disagree(s) \/ Result(s)
      \/ BackInPayment(s) \/ BackToVotes(s) \/ Leave(s)
      \/ \E yes \in BOOLEAN : More(s, yes)
      \/ \E w \in Wallets : Pay(s, w) \/ Look(s, w)

Spec == Init /\ [][Next]_vars

-----------------------------------------------------------------------------
(* A vote weighs what the wallets hold that have paid with a code of the   *)
(* voter, each counted once, however often transactions are looked at and  *)
(* whatever the sessions of one voter overwrite; less only by the wallets  *)
(* whose balance could not be read after they were listed.                 *)
Weighed(u, r) ==
    /\ r.tokens = Held(r.wallets \ r.unread)
    /\ r.weight <= r.tokens
    /\ \A w \in r.wallets : \E s \in Sessions : VoterOf[s] = u /\ <<s, w>> \in payments
VotesWeighed ==
    /\ \A u \in Voters : Weighed(u, users[u])
    /\ \A s \in Sessions : ~At(s, "none") => Weighed(VoterOf[s], talk[s].copy)
=============================================================================
