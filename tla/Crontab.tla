------------------------------ MODULE Crontab ------------------------------
(***************************************************************************)
(* The scheduled backups: the minio actor                                  *)
(* (jumpscale/packages/backup/actors/minio.py) keeps one restic client and *)
(* schedules its backups, and the client's watchdog, in the user's crontab *)
(* (jumpscale/tools/restic/restic.py).  The crontab is read whole, changed *)
(* and written whole, and a schedule and a watchdog of one path have one   *)
(* script.  crontab(1) is external.                                        *)
(***************************************************************************)
EXTENDS Naturals, FiniteSets

CONSTANTS Callers,  \* greenlets and shells that use the client
          Paths,    \* the paths that are backed up
          Within,   \* <<p, q>>: the name of p's script is part of that of q's
          MaxLines  \* bound: lines of the crontab

CrontabAssumption == /\ Paths # {} /\ IsFiniteSet(Paths) /\ Within \subseteq Paths \X Paths
                     /\ MaxLines \in Nat

VARIABLES config,   \* the client is there
          crontab,  \* how often each line is in it
          scripts,  \* what the script of each path does
          calls,    \* what each caller is doing
          wanted,   \* ghost: paths whose backup was enabled and not disabled
          stale,    \* ghost: callers that go on with what others have changed since
          spoiled   \* ghost: paths whose lines or script such a caller has written

vars == <<config, crontab, scripts, calls, wanted, stale, spoiled>>

Kinds == {"backup", "watchdog"}
Lines == [kind : Kinds, path : Paths]
Empty == [line \in Lines |-> 0]
Idle == [at |-> "idle", op |-> "none", path |-> CHOOSE p \in Paths : TRUE, lines |-> Empty]

TypeOK ==
    /\ config \in BOOLEAN
    /\ crontab \in [Lines -> 0 .. MaxLines]
    /\ scripts \in [Paths -> Kinds \cup {"none"}]
    /\ calls \in [Callers -> [at : {"idle", "repo", "check", "script", "write"},
                              op : Kinds \cup {"none", "init", "disable"},
                              path : Paths, lines : [Lines -> 0 .. MaxLines]]]
    /\ wanted \subseteq Paths
    /\ stale \subseteq Callers /\ spoiled \subseteq Paths

Init ==
    /\ config = FALSE
    /\ crontab = Empty
    /\ scripts = [p \in Paths |-> "none"]
    /\ calls = [c \in Callers |-> Idle]
    /\ wanted = {} /\ stale = {} /\ spoiled = {}

At(c, stage) == calls[c].at = stage
Goes(c, stage) == calls' = [calls EXCEPT ![c].at = stage]
Returns(c) == calls' = [calls EXCEPT ![c] = Idle]
(* Bound: when every path is spoiled, the calls that begin are those that  *)
(* mend one.                                                               *)
Begins(c, stage, op, p, lines) ==
    /\ At(c, "idle")
    /\ spoiled = Paths => op = "disable"
    /\ calls' = [calls EXCEPT ![c] = [at |-> stage, op |-> op, path |-> p, lines |-> lines]]
    /\ UNCHANGED <<stale, spoiled>>

(* Whether the text of a line has the name of p's script.                  *)
Names(line, p) == line.path = p \/ <<p, line.path>> \in Within

-----------------------------------------------------------------------------
(* init: the client has its new data before the repository is made, and is *)
(* deleted, with what it had before, when that fails.                      *)
InitClient(c) ==
    /\ Begins(c, "repo", "init", Idle.path, Empty)
    /\ config' = TRUE
    /\ UNCHANGED <<crontab, scripts, wanted>>

InitRepo(c, ok) ==
    /\ At(c, "repo")
    /\ config' = (config /\ ok)
    /\ Returns(c)
    /\ UNCHANGED <<crontab, scripts, wanted, stale, spoiled>>

-----------------------------------------------------------------------------
(* auto_backup, start_watch_backup and disable_auto_backup, of a client    *)
(* that is configured, read the lines (_get_crons_jobs).                   *)
Schedule(c, op, p) ==
    /\ config
    /\ Begins(c, IF op = "disable" THEN "write" ELSE "check", op, p, crontab)
    /\ UNCHANGED <<config, crontab, scripts, wanted>>

(* auto_backup_running and backup_watchdog_running read the lines again:   *)
(* with one that names the script there is nothing to do.                  *)
\* Mutant: any line of the crontab stands for the schedule.
Running_Any(p) == crontab # Empty
Running(p) == \E line \in Lines : crontab[line] > 0 /\ Names(line, p)

(* The lines it may take for the backup of p: a watchdog's, or another     *)
(* path's whose script has the name of p's in its own                      *)
Misled(p) == \E line \in Lines :
                crontab[line] > 0 /\ Names(line, p) /\ line # [kind |-> "backup", path |-> p]

Check(c) ==
    LET call == calls[c]
    IN /\ At(c, "check")
       /\ IF Running(call.path)
          THEN /\ Returns(c)
               /\ stale' = stale \ {c}
               /\ wanted' = IF call.op = "backup" /\ ~Misled(call.path)
                            THEN wanted \cup {call.path} ELSE wanted
          ELSE Goes(c, "script") /\ UNCHANGED <<stale, wanted>>
       /\ UNCHANGED <<config, crontab, scripts, spoiled>>

WriteScript(c) ==
    /\ At(c, "script")
    /\ scripts' = [scripts EXCEPT ![calls[c].path] = calls[c].op]
    /\ Goes(c, "write")
    /\ stale' = stale \cup {d \in Callers \ {c} : At(d, "write") /\ calls[d].path = calls[c].path}
    /\ spoiled' = IF c \in stale THEN spoiled \cup {calls[c].path} ELSE spoiled
    /\ UNCHANGED <<config, crontab, wanted>>

(* The lines it read first, with the one it adds or without those that     *)
(* name the script, are the whole new crontab.                             *)
Written(call) ==
    IF call.op = "disable"
    THEN [line \in Lines |-> IF Names(line, call.path) THEN 0 ELSE call.lines[line]]
    ELSE [call.lines EXCEPT ![[kind |-> call.op, path |-> call.path]] = @ + 1]
Length(lines) == Cardinality({e \in Lines \X (1 .. MaxLines + 1) : e[2] <= lines[e[1]]})

(* The paths that disabling p disables                                     *)
Stopped(p) == {q \in Paths : p = q \/ <<p, q>> \in Within}

WriteLines(c) ==
    LET call == calls[c]
    IN /\ At(c, "write")
       /\ Length(Written(call)) <= MaxLines
       /\ crontab' = Written(call)
       /\ wanted' = CASE call.op = "backup" -> wanted \cup {call.path}
                      [] call.op = "disable" -> wanted \ Stopped(call.path)
                      [] OTHER -> wanted
       /\ stale' = {d \in Callers \ {c} : calls[d].at \in {"check", "script", "write"}}
       /\ spoiled' = IF c \in stale THEN Paths
                     ELSE IF call.op = "disable" THEN spoiled \ Stopped(call.path)
                     ELSE spoiled
       /\ Returns(c)
       /\ UNCHANGED <<config, scripts>>

(* crontab - fails, and the call raises: the script is written all the     *)
(* same.                                                                   *)
WriteFails(c) ==
    /\ At(c, "write")
    /\ stale' = stale \ {c}
    /\ Returns(c)
    /\ UNCHANGED <<config, crontab, scripts, wanted, spoiled>>

Next ==
    \E c \in Callers :
      \/ InitClient(c)
      \/ \E ok \in BOOLEAN : InitRepo(c, ok)
      \/ \E op \in Kinds \cup {"disable"}, p \in Paths : Schedule(c, op, p)
      \/ Check(c) \/ WriteScript(c) \/ WriteLines(c) \/ WriteFails(c)

Spec == Init /\ [][Next]_vars

-----------------------------------------------------------------------------
(* Whatever calls fail or overlap: where no caller who had seen an older   *)
(* crontab has written, a backup that a call has enabled, or found to be   *)
(* enabled with no other line that misleads it, stays in the crontab until *)
(* it is disabled, by its name or by one that is part of it; a path has no *)
(* second line; and its script does what the line is there for.            *)
BackupsStayScheduled ==
    \A p \in Paths \ spoiled :
      LET lines == {line \in Lines : line.path = p /\ crontab[line] > 0}
      IN /\ p \in wanted => [kind |-> "backup", path |-> p] \in lines
         /\ \A line \in lines :
              crontab[line] = 1 /\ lines = {line} /\ scripts[p] = line.kind
=============================================================================
