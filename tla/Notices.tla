------------------------------ MODULE Notices -------------------------------
(***************************************************************************)
(* The notifications of the admin dashboard                                *)
(* (jumpscale/tools/notificationsqueue/queue.py, get_notifications of      *)
(* packages/admin/actors/admin.py): two lists and a counter in redis.  A   *)
(* notice is its id.                                                       *)
(***************************************************************************)
EXTENDS Naturals, Sequences, SequencesExt

CONSTANTS Fetchers,    \* calls that fetch or clear
          SeenMax,     \* _seen_list_max_size (10)
          Page,        \* what get_notifications asks for (10)
          MaxNotices   \* bound: notices pushed

NoticesAssumption == /\ Page \in 1 .. SeenMax /\ SeenMax \in Nat
                     /\ MaxNotices \in Nat

VARIABLES queue,    \* queue:notifications, newest first
          old,      \* list:notifications:seen, newest first
          drawn,    \* last id drawn
          held,     \* notices whose push has its id and is not in the queue yet
          fetcher,  \* where each call stands
          shown,    \* ghost: notices some call has answered
          dropped,  \* ghost: notices cleared, cut short, moved for a lost answer
          reachable \* StellarService.stellar_state

vars == <<queue, old, drawn, held, fetcher, shown, dropped, reachable>>

Ids == 1 .. MaxNotices
Idle == [at |-> "idle", n |-> 0]

TypeOK ==
    /\ queue \in Seq(Ids) /\ old \in Seq(Ids)
    /\ drawn \in 0 .. MaxNotices /\ held \subseteq 1 .. drawn
    /\ fetcher \in [Fetchers -> [at : {"idle", "all", "move", "clear"},
                                 n : 0 .. MaxNotices + Page + 1]]
    /\ shown \subseteq Ids /\ dropped \subseteq Ids
    /\ reachable \in BOOLEAN

Init ==
    /\ queue = <<>> /\ old = <<>>
    /\ drawn = 0 /\ held = {}
    /\ fetcher = [f \in Fetchers |-> Idle]
    /\ shown = {} /\ dropped = {}
    /\ reachable = TRUE

-----------------------------------------------------------------------------
(* push: an id of the counter, then lpush, two calls of redis.             *)
Draw == /\ drawn < MaxNotices
        /\ drawn' = drawn + 1
        /\ held' = held \cup {drawn + 1}

Push ==
    /\ Draw
    /\ UNCHANGED <<queue, old, fetcher, shown, dropped, reachable>>

(* The stellar service pushes one when what it sees has changed; without   *)
(* redis push returns, and the change is not told any more.                *)
StellarJob(told) ==
    /\ reachable' = ~reachable
    /\ IF told THEN Draw ELSE UNCHANGED <<drawn, held>>
    /\ UNCHANGED <<queue, old, fetcher, shown, dropped>>

PushPut(i) ==
    /\ i \in held
    /\ held' = held \ {i}
    /\ queue' = <<i>> \o queue
    /\ UNCHANGED <<old, drawn, fetcher, shown, dropped, reachable>>

(* get_notifications: all the new ones when there is a page of them or     *)
(* more, else a page of new ones and old ones.                             *)
Ask(f) ==
    /\ fetcher[f] = Idle
    /\ fetcher' = [fetcher EXCEPT ![f] = IF Len(queue) >= Page
                                         THEN [at |-> "all", n |-> 0]
                                         ELSE [at |-> "move", n |-> Page]]
    /\ UNCHANGED <<queue, old, drawn, held, shown, dropped, reachable>>

(* fetch(n) of any other caller.                                           *)
Fetch(f, n) ==
    /\ fetcher[f] = Idle
    /\ fetcher' = [fetcher EXCEPT ![f] = [at |-> "move", n |-> n]]
    /\ UNCHANGED <<queue, old, drawn, held, shown, dropped, reachable>>

(* fetch(): counts the new ones first, and answers none when there are none *)
Count(f) ==
    /\ fetcher[f].at = "all"
    /\ fetcher' = [fetcher EXCEPT ![f] = IF queue = <<>> THEN Idle
                                         ELSE [at |-> "move", n |-> Len(queue)]]
    /\ UNCHANGED <<queue, old, drawn, held, shown, dropped, reachable>>

(* The transaction: n times rpoplpush, lrange, ltrim.  An lrange of 0 to   *)
(* -1 is the whole list.                                                   *)
Moved(n) == LET k == IF n < Len(queue) THEN n ELSE Len(queue)
            IN SubSeq(queue, Len(queue) - k + 1, Len(queue))
Top(s, n) == SubSeq(s, 1, IF n < Len(s) THEN n ELSE Len(s))
\* Mutant: the list is trimmed before it is read.
Answer_Trimmed(n) == Top(Top(Moved(n) \o old, SeenMax), n)
Answer(n) == LET s == Moved(n) \o old IN IF n = 0 THEN s ELSE Top(s, n)

Move(f, answered) ==
    LET n == fetcher[f].n
        s == Moved(n) \o old
    IN /\ fetcher[f].at = "move"
       /\ queue' = Top(queue, Len(queue) - Len(Moved(n)))
       /\ old' = Top(s, SeenMax)
       /\ IF answered
          THEN shown' = shown \cup ToSet(Answer(n)) /\ UNCHANGED dropped
          ELSE dropped' = dropped \cup ToSet(Moved(n)) /\ UNCHANGED shown
       /\ fetcher' = [fetcher EXCEPT ![f] = Idle]
       /\ UNCHANGED <<drawn, held, reachable>>

(* clear: the two lists one after the other.                               *)
Clear(f) ==
    /\ fetcher[f] = Idle
    /\ dropped' = dropped \cup ToSet(queue)
    /\ queue' = <<>>
    /\ fetcher' = [fetcher EXCEPT ![f].at = "clear"]
    /\ UNCHANGED <<old, drawn, held, shown, reachable>>

ClearOld(f) ==
    /\ fetcher[f].at = "clear"
    /\ dropped' = dropped \cup ToSet(old)
    /\ old' = <<>>
    /\ fetcher' = [fetcher EXCEPT ![f] = Idle]
    /\ UNCHANGED <<queue, drawn, held, shown, reachable>>

-----------------------------------------------------------------------------
(* The process is killed: redis keeps its lists.                           *)
Kill ==
    /\ held' = {} /\ reachable' = TRUE
    /\ fetcher' = [f \in Fetchers |-> Idle]
    /\ dropped' = dropped \cup held
    /\ UNCHANGED <<queue, old, drawn, shown>>

Next ==
    \/ Push \/ (\E told \in BOOLEAN : StellarJob(told)) \/ (\E i \in Ids : PushPut(i))
    \/ \E f \in Fetchers :
         \/ Ask(f) \/ Count(f) \/ Clear(f) \/ ClearOld(f)
         \/ \E n \in 0 .. Page + 1 : Fetch(f, n)
         \/ \E answered \in BOOLEAN : Move(f, answered)
    \/ Kill

Spec == Init /\ [][Next]_vars

-----------------------------------------------------------------------------
(* A notice that was pushed is still to be fetched, or in the list of old  *)
(* ones, or was answered by some fetch, whatever calls count, move and     *)
(* trim at the same time; only clear, a killed push or an answer that      *)
(* never arrived takes it away unseen.  None is in two places.             *)
NoticesKept ==
    /\ 1 .. drawn = held \cup ToSet(queue \o old) \cup shown \cup dropped
    /\ IsInjective(queue \o old)
=============================================================================
