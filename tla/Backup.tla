------------------------------- MODULE Backup -------------------------------
(***************************************************************************)
(* A backup job (jumpscale/sals/backupjob/backupjob.py) that saves its     *)
(* paths in several restic repositories at once                            *)
(* (jumpscale/tools/restic/restic.py), the hourly service that runs it     *)
(* (packages/backup/services/system_backup.py), and cleaning its snapshots *)
(* meanwhile.  A snapshot is a number: the snapshots of other jobs have    *)
(* another tag, and no call here sees them.                                *)
(***************************************************************************)
EXTENDS Naturals, FiniteSets

CONSTANTS Repos,     \* names of restic clients of the job
          Callers,   \* greenlets: the service's and others that use the job
          Nobody,    \* before the first execute, and no repository
          MaxSnaps   \* bound: snapshots made

BackupAssumption == /\ Repos # {} /\ Nobody \notin Callers \cup Repos
                    /\ MaxSnaps \in Nat

VARIABLES job,       \* the job's instance exists
          snaps,     \* the job's snapshots in each repository
          made,      \* bound: snapshots made, each is numbered by it
          green,     \* the greenlets each caller's execute has spawned
          current,   \* whose greenlets self._greenlets holds
          user,      \* what each caller is doing
          since      \* ghost: snapshots made in each since a caller's call

vars == <<job, snaps, made, green, current, user, since>>

Snaps == 1 .. MaxSnaps
Resting == [at |-> "idle", repo |-> Nobody, ids |-> {}]

TypeOK ==
    /\ job \in BOOLEAN
    /\ snaps \in [Repos -> SUBSET Snaps]
    /\ made \in 0 .. MaxSnaps
    /\ green \in [Callers -> [Repos -> {"none", "running", "ok", "failed"}]]
    /\ current \in Callers \cup {Nobody}
    /\ user \in [Callers -> [at : {"idle", "join", "list", "forget"},
                             repo : Repos \cup {Nobody}, ids : SUBSET Snaps]]
    /\ since \in [Callers -> [Repos -> 0 .. MaxSnaps]]

Newest(k, S) == {s \in S : Cardinality({t \in S : t > s}) < k}

Init ==
    /\ job = FALSE
    /\ snaps = [r \in Repos |-> {}]
    /\ made = 0
    /\ green = [c \in Callers |-> [r \in Repos |-> "none"]]
    /\ current = Nobody
    /\ user = [c \in Callers |-> Resting]
    /\ since = [c \in Callers |-> [r \in Repos |-> 0]]

Free(c) == user[c].at = "idle"
Returns(c) == /\ user' = [user EXCEPT ![c] = Resting]
              /\ since' = [since EXCEPT ![c] = [r \in Repos |-> 0]]

(* The service makes the job when all its clients exist.                   *)
CreateJob ==
    /\ ~job
    /\ job' = TRUE
    /\ UNCHANGED <<snaps, made, green, current, user, since>>

\* Mutant: the list is not a new one when there is one already.
Execute_Keeps(c, block) ==
    /\ job /\ Free(c)
    /\ \A r \in Repos : green[c][r] # "running"
    /\ green' = [green EXCEPT ![c] = [r \in Repos |-> "running"]]
    /\ current' = IF current = Nobody THEN c ELSE current
    /\ user' = [user EXCEPT ![c].at = IF block THEN "join" ELSE "idle"]
    /\ UNCHANGED <<job, snaps, made, since>>

(* execute: one greenlet for each client, in a list that the job object    *)
(* keeps, then joinall.  The job object is one and the same for everybody. *)
(* Without block the list is looked at before any greenlet has run.        *)
Execute(c, block) ==
    /\ job /\ Free(c)
    /\ \A r \in Repos : green[c][r] # "running"
    /\ green' = [d \in Callers |-> [r \in Repos |->
                   IF d = c THEN "running"
                   ELSE IF green[d][r] = "running" THEN "running" ELSE "none"]]
    /\ current' = c
    /\ user' = [user EXCEPT ![c].at = IF block THEN "join" ELSE "idle"]
    /\ UNCHANGED <<job, snaps, made, since>>

(* How a greenlet ended is looked at in the job's list only.               *)
Ends(c, r, how) ==
    green' = [green EXCEPT ![c][r] = IF c = current THEN how ELSE "none"]

BackupEnds(c, r) ==
    /\ green[c][r] = "running"
    /\ made < MaxSnaps
    /\ made' = made + 1
    /\ snaps' = [snaps EXCEPT ![r] = @ \cup {made + 1}]
    /\ since' = [d \in Callers |-> IF Free(d) THEN since[d]
                               ELSE [since[d] EXCEPT ![r] = @ + 1]]
    /\ Ends(c, r, "ok")
    /\ UNCHANGED <<job, current, user>>

(* The client was deleted, or restic fails.                                *)
BackupFails(c, r) ==
    /\ green[c][r] = "running"
    /\ Ends(c, r, "failed")
    /\ UNCHANGED <<job, snaps, made, current, user, since>>

(* joinall has its own list; what is judged is the list the job has now.   *)
Verdict == \A r \in Repos : green[current][r] = "ok"

ExecuteReturns(c) ==
    /\ user[c].at = "join"
    /\ \A r \in Repos : green[c][r] # "running"
    /\ Returns(c)
    /\ UNCHANGED <<job, snaps, made, green, current>>

-----------------------------------------------------------------------------
(* clean_snapshots.  restic keeps no less than one when it is asked to     *)
(* keep the last ones, so for none there are two more steps: list the last *)
(* one, forget it by its id.  A forget takes the repository for itself.    *)
Forget(r, lost) == snaps' = [snaps EXCEPT ![r] = @ \ lost]

Clean(c, r, keep) ==
    /\ job /\ Free(c)
    /\ Forget(r, snaps[r] \ Newest(IF keep = 0 THEN 1 ELSE keep, snaps[r]))
    /\ IF keep = 0
       THEN user' = [user EXCEPT ![c].at = "list", ![c].repo = r]
       ELSE UNCHANGED user
    /\ UNCHANGED <<job, made, green, current, since>>

ListLast(c) ==
    /\ user[c].at = "list"
    /\ user' = [user EXCEPT ![c].at = "forget", ![c].ids = Newest(1, snaps[user[c].repo])]
    /\ UNCHANGED <<job, snaps, made, green, current, since>>

ForgetLast(c) ==
    /\ user[c].at = "forget"
    /\ Forget(user[c].repo, user[c].ids)
    /\ Returns(c)
    /\ UNCHANGED <<job, made, green, current>>

Next ==
    \/ CreateJob
    \/ \E c \in Callers :
         \/ \E block \in BOOLEAN : Execute(c, block)
         \/ ExecuteReturns(c)
         \/ ListLast(c) \/ ForgetLast(c)
         \/ \E r \in Repos :
              \/ BackupEnds(c, r) \/ BackupFails(c, r)
              \/ \E keep \in 0 .. 2 : Clean(c, r, keep)

Spec == Init /\ [][Next]_vars

-----------------------------------------------------------------------------
(* When execute(block=True) says True, every repository has got a snapshot *)
(* of the job since the call, although the list of greenlets it judges may *)
(* be another caller's by then (system_backup.py reports it as success).   *)
SavedMeansSaved ==
    [][\A c \in Callers : ExecuteReturns(c) /\ Verdict
         => \A r \in Repos : since[c][r] > 0]_vars

(* clean_snapshots(keep_last=0) leaves no more snapshots than were made    *)
(* while it ran, although the last of its three calls forgets what an      *)
(* earlier one has listed.  They need not be the ones made meanwhile.      *)
CleanLeavesNone ==
    [][\A c \in Callers : ForgetLast(c) =>
         LET r == user[c].repo IN Cardinality(snaps'[r]) <= since[c][r]]_vars
=============================================================================
