-------------------------------- MODULE Stats --------------------------------
(***************************************************************************)
(* The statistics of a token                                               *)
(* (jumpscale/packages/stellar_stats/bottle/stats_service.py and the three *)
(* endpoints of stellar_stats.py): how much of it there is, and how much   *)
(* of it is in locked accounts, which are found by reading all that hold   *)
(* it page by page while the ledger goes on.  The accounts are numbered in *)
(* the order of the pages.  The ledger and the cache are external.         *)
(***************************************************************************)
EXTENDS Integers, FiniteSets, FiniteSetsExt

CONSTANTS Endpoints, Detailed, \* what can be asked for, and which asks for details
          MaxAccounts,
          Unknown,   \* escrows whose unlock transaction the service does not know
          PageSize,
          Supply     \* tokens there are, in the account 1 at first

Accounts == 1 .. MaxAccounts
StatsAssumption == /\ MaxAccounts \in Nat \ {0} /\ Unknown \subseteq Accounts
                   /\ PageSize \in Nat \ {0} /\ Supply \in Nat
                   /\ Detailed \in Endpoints

VARIABLES tokens, \* what each account has of the token
          held,   \* the accounts that hold it, perhaps nothing of it
          locked, \* those with a signer that is a transaction
          call,   \* the request, and what it has counted
          cached, \* the endpoints whose answer redis has
          steady, \* ghost: accounts locked since the request began, with what they have
          ever,   \* ghost: accounts that were locked since then
          moved   \* ghost: a token was moved since then

vars == <<tokens, held, locked, call, cached, steady, ever, moved>>

NoTokens == [a \in Accounts |-> 0]
Idle == [at |-> "idle", of |-> Detailed, total |-> 0, cursor |-> 0,
         counted |-> {}, amount |-> NoTokens]
Sum(amount, S) == FoldSet(LAMBDA a, sum : amount[a] + sum, 0, S)

TypeOK ==
    /\ tokens \in [Accounts -> 0 .. Supply] /\ Sum(tokens, held) = Supply
    /\ locked \subseteq held /\ held \subseteq Accounts
    /\ call \in [at : {"idle", "total", "page", "lookup", "answer"}, of : Endpoints,
                 total : 0 .. Supply, cursor : Accounts \cup {0},
                 counted : SUBSET Accounts, amount : [Accounts -> 0 .. Supply]]
    /\ cached \subseteq Endpoints
    /\ steady \subseteq locked /\ ever \subseteq Accounts /\ moved \in BOOLEAN

Init ==
    /\ tokens = [NoTokens EXCEPT ![1] = Supply] /\ held = {1} /\ locked = {}
    /\ call = Idle /\ cached = {}
    /\ steady = {} /\ ever = {} /\ moved = FALSE

-----------------------------------------------------------------------------
(* The ledger: an account begins or ceases to hold the token, is locked,   *)
(* or unlocked; and a token is paid by one that is not locked.             *)
Goes(S) == steady' = steady \ S /\ UNCHANGED <<call, cached>>

Hold(a, lock) ==
    /\ a \notin held
    /\ held' = held \cup {a}
    /\ locked' = IF lock THEN locked \cup {a} ELSE locked
    /\ ever' = ever \cup locked'
    /\ Goes({}) /\ UNCHANGED <<tokens, moved>>
Unlock(a) ==
    /\ a \in locked
    /\ locked' = locked \ {a}
    /\ Goes({a}) /\ UNCHANGED <<tokens, held, ever, moved>>
Close(a) ==
    /\ a \in held \ locked /\ tokens[a] = 0
    /\ held' = held \ {a}
    /\ Goes({}) /\ UNCHANGED <<tokens, locked, ever, moved>>
Move(a, b) ==
    /\ a \in held \ locked /\ tokens[a] > 0 /\ b \in held \ {a}
    /\ tokens' = [tokens EXCEPT ![a] = @ - 1, ![b] = @ + 1]
    /\ moved' = TRUE
    /\ Goes({a, b}) /\ UNCHANGED <<held, locked, ever>>

-----------------------------------------------------------------------------
Is(stage) == call.at = stage
Ledger == UNCHANGED <<tokens, held, locked>>
Ghosts == UNCHANGED <<steady, ever, moved>>

(* A request: what the cache has is the answer, for ten minutes.           *)
Ask(e) ==
    /\ Is("idle") /\ e \notin cached
    /\ call' = [Idle EXCEPT !.at = "total", !.of = e]
    /\ Ledger /\ Ghosts /\ UNCHANGED cached

Expire(e) ==
    /\ e \in cached
    /\ cached' = cached \ {e}
    /\ Ledger /\ Ghosts /\ UNCHANGED call

ReadTotal ==
    /\ Is("total")
    /\ call' = [call EXCEPT !.at = "page", !.total = Sum(tokens, held)]
    /\ steady' = locked /\ ever' = locked /\ moved' = FALSE
    /\ Ledger /\ UNCHANGED cached

(* get_accounts: a page ends where the next begins; the one that does not  *)
(* move the cursor is the last, and a first page without accounts has a    *)
(* link without a cursor.                                                  *)
Page(c) == LET rest == {a \in held : a > c}
           IN {a \in rest : Cardinality({b \in rest : b < a}) < PageSize}

\* Mutant: the next page begins after the account that follows.
Next_Skip(c, page) == IF page = {} \/ Max(page) = MaxAccounts THEN c ELSE Max(page) + 1
NextCursor(c, page) == IF page = {} THEN c ELSE Max(page)

ReadPage ==
    LET page == Page(call.cursor)
        next == NextCursor(call.cursor, page)
    IN /\ Is("page")
       /\ call' = IF next = 0 THEN Idle
                  ELSE [call EXCEPT
                         !.at = IF next # call.cursor THEN "page"
                                ELSE IF call.of = Detailed THEN "lookup" ELSE "answer",
                         !.cursor = next,
                         !.counted = @ \cup (page \cap locked),
                         !.amount = [a \in Accounts |-> IF a \in page \cap locked THEN tokens[a]
                                                        ELSE @[a]]]
       /\ Ledger /\ Ghosts /\ UNCHANGED cached

(* lookup_lock_time for each account; one without a time cannot be sorted  *)
(* or shown with the others, and the request raises.                       *)
LookUp ==
    /\ Is("lookup")
    /\ call' = IF call.counted \cap Unknown = {} THEN [call EXCEPT !.at = "answer"] ELSE Idle
    /\ Ledger /\ Ghosts /\ UNCHANGED cached

Answer ==
    /\ Is("answer")
    /\ cached' = cached \cup {call.of}
    /\ call' = Idle
    /\ Ledger /\ Ghosts

(* A call of the ledger or of the service fails, and the request raises.   *)
Fails ==
    /\ call.at \in {"total", "page", "lookup"}
    /\ call' = Idle
    /\ Ledger /\ Ghosts /\ UNCHANGED cached

Next ==
    \/ \E a \in Accounts : \/ \E lock \in BOOLEAN : Hold(a, lock)
                           \/ Unlock(a) \/ Close(a)
                           \/ \E b \in Accounts : Move(a, b)
    \/ \E e \in Endpoints : Ask(e) \/ Expire(e)
    \/ ReadTotal \/ ReadPage \/ LookUp \/ Answer \/ Fails

Spec == Init /\ [][Next]_vars

-----------------------------------------------------------------------------
(* However accounts come and go between two pages, an answer counts every  *)
(* account that was locked all the while, with what it has, and none that  *)
(* never was; and there is not more locked than there is, unless a token   *)
(* was moved meanwhile.                                                    *)
StatsAddUp ==
    Is("answer") =>
      /\ \A a \in steady : a \in call.counted /\ call.amount[a] = tokens[a]
      /\ call.counted \subseteq ever
      /\ moved \/ Sum(call.amount, call.counted) <= call.total
=============================================================================
