------------------------- MODULE ServiceManagerProofs -------------------------
(***************************************************************************)
(* What ServiceManager keeps true for every set of services and callers,   *)
(* every pool size and every number of forgotten timers: a service never   *)
(* overlaps itself and never loses its timer, and a stop is final for a    *)
(* name that is added with care.                                           *)
(*                                                                         *)
(* NoOverlap is not inductive: RunJob starts a job when _running has no    *)
(* entry.  So an entry must outlive the job and the callback of its job    *)
(* (JobsHaveEntry), which in turn needs that a callback is only due for an *)
(* entry that stop_service has not unlinked.                               *)
(***************************************************************************)
EXTENDS ServiceManager, FiniteSetTheorems, TLAPS

\* The jobs and callbacks of a name are at most one, and have an entry.
JobsHaveEntry ==
    \A n \in Name :
        /\ queued[n] + working[n] + ended[n] <= 1
        /\ running[n] = "none" => queued[n] + working[n] + ended[n] = 0
        /\ ended[n] > 0 => running[n] = "linked"

\* A caller joins or kills one job at a time.
StopsOne == \A c \in Caller : \A a, b \in caller[c].joins \cup caller[c].kills : a = b

\* A timer of a name added with care is the one in _scheduled, and the name is
\* managed and not being stopped.
CarefulTimers ==
    \A n \in Careful :
        /\ orphans[n] = 0
        /\ n \in armed => n \in services /\ ~Stopping(n)

IInv == Types /\ JobsHaveEntry /\ StopsOne /\ StaysScheduled /\ CarefulTimers

\* The initial states.
LEMMA InitIInv == Init => IInv
  BY ManagerAssumption
  DEF Init, IInv, Types, JobsHaveEntry, StopsOne, StaysScheduled, CarefulTimers, Idle,
      Stopping

\* Arm, when it re-arms no careful name, leaves types right.
LEMMA ArmIInv ==
  ASSUME IInv, NEW S \in SUBSET Name, Arm(S), S \cap armed \cap Careful = {}
  PROVE  /\ armed' = armed \cup S
         /\ orphans' \in [Name -> 0..MaxOrphans]
         /\ \A n \in Careful : orphans'[n] = 0
<1>1. orphans' \in [Name -> 0..MaxOrphans]
  BY ManagerAssumption DEF IInv, Types, Arm
<1>2. \A n \in Careful : orphans'[n] = 0
  BY ManagerAssumption DEF IInv, CarefulTimers, Arm
<1> QED
  BY <1>1, <1>2 DEF Arm

\* add_service.
LEMMA AddIInv ==
  ASSUME IInv, NEW c \in Caller, NEW n \in Name, Add(c, n)
  PROVE  IInv'
<1>1. {n} \cap armed \cap Careful = {}
  BY DEF Add, IInv, CarefulTimers
<1>2. /\ armed' = armed \cup {n}
      /\ orphans' \in [Name -> 0..MaxOrphans]
      /\ \A m \in Careful : orphans'[m] = 0
  BY <1>1, ArmIInv DEF Add
<1>3. Types' /\ JobsHaveEntry' /\ StopsOne'
  BY <1>2 DEF Add, IInv, Types, JobsHaveEntry, StopsOne, jobs
<1>4. StaysScheduled'
  BY <1>2 DEF Add, IInv, StaysScheduled, Stopping
<1>5. CarefulTimers'
  BY <1>2 DEF Add, IInv, CarefulTimers, Stopping
<1> QED
  BY <1>3, <1>4, <1>5 DEF IInv

\* start.
LEMMA StartIInv ==
  ASSUME IInv, NEW c \in Caller, Start(c)
  PROVE  IInv'
<1>1. services \in SUBSET Name /\ services \cap armed \cap Careful = {}
  BY DEF Start, IInv, Types
<1>2. /\ armed' = armed \cup services
      /\ orphans' \in [Name -> 0..MaxOrphans]
      /\ \A m \in Careful : orphans'[m] = 0
  BY <1>1, ArmIInv DEF Start
<1>3. Types' /\ JobsHaveEntry' /\ StopsOne'
  BY <1>2 DEF Start, IInv, Types, JobsHaveEntry, StopsOne, jobs
<1>4. StaysScheduled'
  BY <1>2 DEF Start, IInv, StaysScheduled, Stopping
<1>5. CarefulTimers'
  BY <1>2 DEF Start, IInv, CarefulTimers, Stopping
<1> QED
  BY <1>3, <1>4, <1>5 DEF IInv

\* Running a job keeps at most one, with its entry.
LEMMA RunJobJobs ==
  ASSUME IInv, NEW n \in Name, RunJob(n)
  PROVE  /\ running' \in [Name -> {"none", "linked", "unlinked"}]
         /\ queued' \in [Name -> Nat] /\ working' \in [Name -> Nat]
         /\ ended' \in [Name -> Nat]
         /\ JobsHaveEntry'
<1>1. CASE running[n] = "none"
  <2>1. queued[n] = 0 /\ working[n] = 0 /\ ended[n] = 0
    BY <1>1 DEF IInv, Types, JobsHaveEntry
  <2>2. running' = [running EXCEPT ![n] = "linked"] /\ ended' = ended
    BY <1>1 DEF RunJob
  <2>3. \/ queued' = [queued EXCEPT ![n] = 1] /\ working' = working
        \/ working' = [working EXCEPT ![n] = 1] /\ queued' = queued
    BY <1>1, <2>1 DEF RunJob, IInv, Types
  <2>4. /\ running' \in [Name -> {"none", "linked", "unlinked"}]
        /\ queued' \in [Name -> Nat] /\ working' \in [Name -> Nat]
        /\ ended' \in [Name -> Nat]
    BY <2>2, <2>3 DEF IInv, Types
  <2>5. JobsHaveEntry'
    <3>1. CASE queued' = [queued EXCEPT ![n] = 1] /\ working' = working
      BY <2>1, <2>2, <3>1 DEF IInv, Types, JobsHaveEntry
    <3>2. CASE working' = [working EXCEPT ![n] = 1] /\ queued' = queued
      BY <2>1, <2>2, <3>2 DEF IInv, Types, JobsHaveEntry
    <3> QED
      BY <2>3, <3>1, <3>2
  <2> QED
    BY <2>4, <2>5
<1>2. CASE running[n] # "none"
  BY <1>2 DEF RunJob, IInv, Types, JobsHaveEntry, jobs
<1> QED
  BY <1>1, <1>2

\* What a job does: timers fire, jobs enter the pool and end, callbacks run.
LEMMA JobStepIInv ==
  ASSUME IInv, NEW n \in Name, JobStep(n)
  PROVE  IInv'
<1>1. CASE Fire(n)
  <2>1. Types' /\ JobsHaveEntry'
    BY <1>1, RunJobJobs DEF Fire, IInv, Types, timers
  <2>2. StopsOne' /\ StaysScheduled' /\ CarefulTimers'
    BY <1>1 DEF Fire, IInv, StopsOne, StaysScheduled, CarefulTimers, Stopping, timers
  <2> QED
    BY <2>1, <2>2 DEF IInv
<1>2. CASE FireOrphan(n)
  <2>1. orphans' \in [Name -> 0..MaxOrphans] /\ n \notin Careful
    BY <1>2, ManagerAssumption DEF FireOrphan, IInv, Types, CarefulTimers
  <2>2. Types' /\ JobsHaveEntry'
    BY <1>2, <2>1, RunJobJobs DEF FireOrphan, IInv, Types
  <2>3. StopsOne' /\ StaysScheduled'
    BY <1>2 DEF FireOrphan, IInv, StopsOne, StaysScheduled, Stopping
  <2>4. CarefulTimers'
    BY <1>2, <2>1, ManagerAssumption DEF FireOrphan, IInv, Types, CarefulTimers, Stopping
  <2> QED
    BY <2>2, <2>3, <2>4 DEF IInv
<1>3. CASE EnterPool(n)
  <2>1. Types' /\ JobsHaveEntry'
    BY <1>3 DEF EnterPool, IInv, Types, JobsHaveEntry, timers
  <2>2. StopsOne' /\ StaysScheduled' /\ CarefulTimers'
    BY <1>3 DEF EnterPool, IInv, StopsOne, StaysScheduled, CarefulTimers, Stopping, timers
  <2> QED
    BY <2>1, <2>2 DEF IInv
<1>4. CASE JobEnds(n)
  <2>1. Types' /\ JobsHaveEntry'
    <3>1. CASE running[n] = "linked"
      BY <1>4, <3>1 DEF JobEnds, IInv, Types, JobsHaveEntry, timers
    <3>2. CASE running[n] # "linked"
      BY <1>4, <3>2 DEF JobEnds, IInv, Types, JobsHaveEntry, timers
    <3> QED
      BY <3>1, <3>2
  <2>2. StopsOne' /\ StaysScheduled' /\ CarefulTimers'
    BY <1>4 DEF JobEnds, IInv, StopsOne, StaysScheduled, CarefulTimers, Stopping, timers
  <2> QED
    BY <2>1, <2>2 DEF IInv
<1>5. CASE Callback(n)
  <2>1. Types' /\ JobsHaveEntry'
    <3>1. queued[n] = 0 /\ working[n] = 0 /\ ended[n] = 1
      <4>1. /\ queued[n] \in Nat /\ working[n] \in Nat /\ ended[n] \in Nat
            /\ queued[n] + working[n] + ended[n] <= 1
        BY DEF IInv, Types, JobsHaveEntry
      <4>2. ended[n] > 0
        BY <1>5 DEF Callback
      <4> QED
        BY <4>1, <4>2
    <3>2. /\ ended' = [ended EXCEPT ![n] = 0] /\ running' = [running EXCEPT ![n] = "none"]
          /\ UNCHANGED <<services, timers, queued, working, caller>>
      BY <1>5, <3>1 DEF Callback, IInv, Types
    <3>3. Types'
      BY <3>2 DEF IInv, Types, timers
    <3> QED
      BY <3>1, <3>2, <3>3 DEF IInv, Types, JobsHaveEntry
  <2>2. StopsOne' /\ StaysScheduled' /\ CarefulTimers'
    BY <1>5 DEF Callback, IInv, StopsOne, StaysScheduled, CarefulTimers, Stopping, timers
  <2> QED
    BY <2>1, <2>2 DEF IInv
<1> QED
  BY <1>1, <1>2, <1>3, <1>4, <1>5 DEF JobStep

\* Unlinking the callbacks of names whose jobs it leaves as they are.
LEMMA UnlinkJobs ==
  ASSUME IInv, NEW S \in SUBSET Name, Unlink(S), UNCHANGED <<queued, working>>
  PROVE  /\ running' \in [Name -> {"none", "linked", "unlinked"}]
         /\ ended' \in [Name -> Nat]
         /\ JobsHaveEntry'
<1>1. /\ running' \in [Name -> {"none", "linked", "unlinked"}]
      /\ ended' \in [Name -> Nat]
  BY DEF Unlink, IInv, Types
<1>2. ASSUME NEW n \in Name
      PROVE  /\ queued[n] + working[n] + ended'[n] <= 1
             /\ running'[n] = "none" => queued[n] + working[n] + ended'[n] = 0
             /\ ended'[n] > 0 => running'[n] = "linked"
  <2>1. CASE n \in S
    BY <2>1 DEF Unlink, IInv, Types, JobsHaveEntry
  <2>2. CASE n \notin S
    BY <2>2 DEF Unlink, IInv, Types, JobsHaveEntry
  <2> QED
    BY <2>1, <2>2
<1> QED
  BY <1>1, <1>2 DEF JobsHaveEntry

\* Stopping a list of services, when the manager holds those of held: all of
\* them, or all but the one whose join has just returned.
LEMMA StopAllIInv ==
  ASSUME IInv, NEW c \in Caller, NEW todo \in SUBSET Name, NEW held \in SUBSET services,
         \A n \in services \ held : n \in caller[c].joins,
         \A n \in caller[c].joins \cup caller[c].kills : n \notin held,
         StopAll(c, todo, held)
  PROVE  IInv'
<1>1. PICK done \in SUBSET {n \in todo \cap held : Over(n)} :
         /\ services' = held \ done
         /\ UNCHANGED <<queued, working>>
         /\ \/ /\ done = todo \/ ~(todo \ done \subseteq held)
               /\ Unschedule(done) /\ Unlink(done)
               /\ caller' = [caller EXCEPT ![c] = Idle]
            \/ \E n \in (todo \cap held) \ done :
                 /\ ~Over(n)
                 /\ Unschedule(done \cup {n}) /\ Unlink(done \cup {n})
                 /\ caller' = [caller EXCEPT ![c] =
                                  [Idle EXCEPT !.joins = {n}, !.todo = todo \ (done \cup {n})]]
  BY DEF StopAll
<1>2. done \in SUBSET Name /\ services \in SUBSET Name
  BY DEF IInv, Types
<1>3. CASE /\ done = todo \/ ~(todo \ done \subseteq held)
           /\ Unschedule(done) /\ Unlink(done)
           /\ caller' = [caller EXCEPT ![c] = Idle]
  <2>1. Types' /\ JobsHaveEntry'
    BY <1>1, <1>2, <1>3, UnlinkJobs DEF Unschedule, IInv, Types, Idle
  <2>2. /\ caller'[c].joins = {} /\ caller'[c].kills = {}
        /\ \A d \in Caller \ {c} : caller'[d] = caller[d]
    BY <1>3 DEF IInv, Types, Idle
  <2>3. StopsOne'
    BY <2>2 DEF IInv, StopsOne
  <2>4. StaysScheduled'
    BY <1>1, <1>3, <2>2 DEF Unschedule, IInv, StaysScheduled, Stopping
  <2>5. CarefulTimers'
    <3>1. \A m \in Name : ~Stopping(m) => ~(\E d \in Caller : m \in caller'[d].joins \cup caller'[d].kills)
      BY <2>2 DEF Stopping
    <3>2. \A m \in services : ~Stopping(m) => m \in held
      BY DEF Stopping
    <3> QED
      BY <1>1, <1>3, <3>1, <3>2, ManagerAssumption
      DEF Unschedule, IInv, CarefulTimers, Stopping
  <2> QED
    BY <2>1, <2>3, <2>4, <2>5 DEF IInv
<1>4. ASSUME NEW n \in (todo \cap held) \ done,
             Unschedule(done \cup {n}), Unlink(done \cup {n}),
             caller' = [caller EXCEPT ![c] =
                           [Idle EXCEPT !.joins = {n}, !.todo = todo \ (done \cup {n})]]
      PROVE  IInv'
  <2>0. n \in Name /\ done \cup {n} \in SUBSET Name
    BY <1>2
  <2>1. Types' /\ JobsHaveEntry'
    <3>1. caller' \in [Caller -> [joins : SUBSET Name, kills : SUBSET Name, todo : SUBSET Name]]
      BY <1>4, <2>0 DEF IInv, Types, Idle
    <3> QED
      BY <1>1, <1>2, <1>4, <2>0, <3>1, UnlinkJobs DEF Unschedule, IInv, Types
  <2>2. /\ caller'[c].joins = {n} /\ caller'[c].kills = {}
        /\ \A d \in Caller \ {c} : caller'[d] = caller[d]
    BY <1>4 DEF IInv, Types, Idle
  <2>3. StopsOne'
    BY <2>2 DEF IInv, StopsOne
  <2>4. StaysScheduled'
    BY <1>1, <1>4, <2>2 DEF Unschedule, IInv, StaysScheduled, Stopping
  <2>5. CarefulTimers'
    BY <1>1, <1>4, <2>2 DEF Unschedule, IInv, CarefulTimers, Stopping
  <2> QED
    BY <2>1, <2>3, <2>4, <2>5 DEF IInv
<1> QED
  BY <1>1, <1>3, <1>4

\* stop_service and stop.
LEMMA StopIInv ==
  ASSUME IInv, NEW c \in Caller, Stop(c)
  PROVE  IInv'
<1>1. PICK todo \in {{n} : n \in Name} \cup {services} : StopAll(c, todo, services)
  BY DEF Stop
<1>2. todo \in SUBSET Name /\ caller[c].joins = {} /\ caller[c].kills = {}
  BY <1>1 DEF Stop, IInv, Types, Idle
<1> QED
  BY <1>1, <1>2, StopAllIInv

\* stop_service with block=False, up to the kill.
LEMMA StopKillIInv ==
  ASSUME IInv, NEW c \in Caller, NEW n \in Name, StopKill(c, n)
  PROVE  IInv'
<1>1. Types' /\ JobsHaveEntry'
  BY UnlinkJobs DEF StopKill, Unschedule, Idle, IInv, Types
<1>2. /\ caller[c].joins = {} /\ caller[c].kills = {}
      /\ caller'[c].joins = {} /\ caller'[c].kills = {n}
      /\ \A d \in Caller \ {c} : caller'[d] = caller[d]
  BY DEF StopKill, Idle, IInv, Types
<1>3. StopsOne'
  BY <1>2 DEF IInv, StopsOne
<1>4. StaysScheduled' /\ CarefulTimers'
  BY <1>2 DEF StopKill, Unschedule, IInv, StaysScheduled, CarefulTimers, Stopping
<1> QED
  BY <1>1, <1>3, <1>4 DEF IInv

\* A kill that is done.
LEMMA StopKilledIInv ==
  ASSUME IInv, NEW c \in Caller, NEW n \in Name, StopKilled(c, n)
  PROVE  IInv'
<1>1. PICK left \in {0, working[n]} : working' = [working EXCEPT ![n] = left]
  BY DEF StopKilled
<1>2. Types'
  BY <1>1 DEF StopKilled, Idle, timers, IInv, Types
<1>3. JobsHaveEntry'
  <2>1. /\ queued' = [queued EXCEPT ![n] = 0]
        /\ UNCHANGED <<running, ended>>
    BY DEF StopKilled
  <2>2. ASSUME NEW m \in Name
        PROVE  /\ queued'[m] \in Nat /\ queued'[m] <= queued[m]
               /\ working'[m] \in Nat /\ working'[m] <= working[m]
    BY <1>1, <2>1 DEF IInv, Types
  <2>3. ASSUME NEW m \in Name
        PROVE  /\ queued'[m] + working'[m] + ended[m] <= 1
               /\ running[m] = "none" => queued'[m] + working'[m] + ended[m] = 0
               /\ ended[m] > 0 => running[m] = "linked"
    <3>1. /\ queued[m] \in Nat /\ working[m] \in Nat /\ ended[m] \in Nat
          /\ queued[m] + working[m] + ended[m] <= 1
          /\ running[m] = "none" => queued[m] + working[m] + ended[m] = 0
          /\ ended[m] > 0 => running[m] = "linked"
      BY DEF IInv, Types, JobsHaveEntry
    <3>2. /\ queued'[m] \in Nat /\ queued'[m] <= queued[m]
          /\ working'[m] \in Nat /\ working'[m] <= working[m]
      BY <2>2
    <3>3. queued'[m] + working'[m] + ended[m] <= queued[m] + working[m] + ended[m]
      BY <3>1, <3>2
    <3>4. queued'[m] + working'[m] + ended[m] \in Nat
      BY <3>1, <3>2
    <3> QED
      BY <3>1, <3>3, <3>4
  <2> QED
    BY <2>1, <2>3 DEF JobsHaveEntry
<1>4. n \in caller[c].kills /\ \A m \in caller[c].joins \cup caller[c].kills : m = n
  BY DEF StopKilled, IInv, StopsOne
<1>5. /\ caller'[c].joins = {} /\ caller'[c].kills = {}
      /\ \A d \in Caller \ {c} : caller'[d] = caller[d]
  BY DEF StopKilled, Idle, IInv, Types
<1>6. StopsOne'
  BY <1>5 DEF IInv, StopsOne
<1>7. StaysScheduled' /\ CarefulTimers'
  BY <1>4, <1>5 DEF StopKilled, timers, IInv, StaysScheduled, CarefulTimers, Stopping
<1> QED
  BY <1>2, <1>3, <1>6, <1>7 DEF IInv

\* A join that returns.
LEMMA StopJoinedIInv ==
  ASSUME IInv, NEW c \in Caller, NEW n \in Name, StopJoined(c, n)
  PROVE  IInv'
<1>1. n \in caller[c].joins /\ \A m \in caller[c].joins \cup caller[c].kills : m = n
  BY DEF StopJoined, IInv, StopsOne
<1>2. caller[c].todo \in SUBSET Name
  BY DEF IInv, Types
<1>3. CASE n \in services
  <2>1. StopAll(c, caller[c].todo, services \ {n})
    BY <1>3 DEF StopJoined
  <2> QED
    BY <1>1, <1>2, <2>1, StopAllIInv
<1>4. CASE n \notin services
  <2>1. /\ caller' = [caller EXCEPT ![c] = Idle]
        /\ UNCHANGED <<services, timers, running, jobs>>
    BY <1>4 DEF StopJoined
  <2>2. /\ caller'[c].joins = {} /\ caller'[c].kills = {}
        /\ \A d \in Caller \ {c} : caller'[d] = caller[d]
    BY <2>1 DEF IInv, Types, Idle
  <2>3. Types' /\ JobsHaveEntry'
    BY <2>1 DEF IInv, Types, JobsHaveEntry, Idle, timers, jobs
  <2>4. StopsOne'
    BY <2>2 DEF IInv, StopsOne
  <2>5. StaysScheduled' /\ CarefulTimers'
    BY <1>1, <1>4, <2>1, <2>2
    DEF IInv, StaysScheduled, CarefulTimers, Stopping, timers
  <2> QED
    BY <2>3, <2>4, <2>5 DEF IInv
<1> QED
  BY <1>3, <1>4

\* Every step keeps the invariant.
LEMMA NextIInv ==
  ASSUME IInv, [Next]_vars
  PROVE  IInv'
<1>1. CASE UNCHANGED vars
  BY <1>1
  DEF vars, timers, jobs, IInv, Types, JobsHaveEntry, StopsOne, StaysScheduled,
      CarefulTimers, Stopping
<1>2. CASE \E n \in Name : JobStep(n)
  BY <1>2, JobStepIInv
<1>3. CASE \E c \in Caller : Start(c) \/ Stop(c)
  BY <1>3, StartIInv, StopIInv
<1>4. CASE \E c \in Caller, n \in Name : \/ Add(c, n) \/ StopKill(c, n)
                                          \/ StopKilled(c, n) \/ StopJoined(c, n)
  BY <1>4, AddIInv, StopKillIInv, StopKilledIInv, StopJoinedIInv
<1> QED
  BY <1>1, <1>2, <1>3, <1>4 DEF Next

\* The inductive invariant holds in every state.
THEOREM Invariance == Spec => []IInv
  BY InitIInv, NextIInv, PTL DEF Spec

\* What a step does to the jobs in the pool: none is new, or one is, of a pool with
\* a place left.
LEMMA PoolStep ==
  ASSUME IInv, [Next]_vars
  PROVE  \/ \A m \in Name : working'[m] <= working[m]
         \/ \E n \in Name : working' = [working EXCEPT ![n] = @ + 1] /\ InPool < PoolSize
<1>0. working \in [Name -> Nat]
  BY DEF IInv, Types
<1>1. ASSUME NEW n \in Name, RunJob(n)
      PROVE  UNCHANGED working \/ (working' = [working EXCEPT ![n] = @ + 1] /\ InPool < PoolSize)
  BY <1>1 DEF RunJob, jobs
<1>2. ASSUME UNCHANGED working PROVE \A m \in Name : working'[m] <= working[m]
  BY <1>0, <1>2
<1>3. CASE \E n \in Name : Fire(n) \/ FireOrphan(n)
  <2>1. PICK n \in Name : RunJob(n)
    BY <1>3 DEF Fire, FireOrphan
  <2> QED
    BY <1>1, <1>2, <2>1
<1>4. CASE \E n \in Name : EnterPool(n)
  BY <1>4 DEF EnterPool
<1>5. CASE \E n \in Name : JobEnds(n)
  <2>1. PICK n \in Name : working' = [working EXCEPT ![n] = @ - 1]
    BY <1>5 DEF JobEnds
  <2> QED
    BY <1>0, <2>1
<1>6. CASE \E c \in Caller, n \in Name : StopKilled(c, n)
  <2>1. PICK n \in Name : \E left \in {0, working[n]} : working' = [working EXCEPT ![n] = left]
    BY <1>6 DEF StopKilled
  <2> QED
    BY <1>0, <2>1
<1>7. CASE \E n \in Name : Callback(n)
  BY <1>2, <1>7 DEF Callback
<1>8. CASE \E c \in Caller : Start(c) \/ Stop(c)
  BY <1>2, <1>8 DEF Start, Stop, StopAll, jobs
<1>9. CASE \E c \in Caller, n \in Name : Add(c, n) \/ StopKill(c, n) \/ StopJoined(c, n)
  <2>1. UNCHANGED working
    BY <1>9 DEF Add, StopKill, StopJoined, StopAll, jobs
  <2> QED
    BY <1>2, <2>1
<1>10. CASE UNCHANGED vars
  BY <1>2, <1>10 DEF vars, jobs
<1> QED
  BY <1>3, <1>4, <1>5, <1>6, <1>7, <1>8, <1>9, <1>10 DEF Next, JobStep

\* The jobs in the pool are finitely many, and not more than it has places.
LEMMA PoolKept ==
  ASSUME IInv, InPool <= PoolSize, [Next]_vars
  PROVE  (InPool <= PoolSize)'
<1>1. /\ IsFiniteSet(PoolJobs) /\ InPool \in Nat
      /\ working \in [Name -> Nat] /\ PoolSize \in Nat
  <2>1. IsFiniteSet(Name) /\ IsFiniteSet(1 .. PoolSize + 1) /\ PoolSize \in Nat
    BY ManagerAssumption, FS_Interval
  <2>2. IsFiniteSet(Name \X (1 .. PoolSize + 1))
    BY <2>1, FS_Product
  <2>3. PoolJobs \in SUBSET (Name \X (1 .. PoolSize + 1))
    BY DEF PoolJobs
  <2>4. IsFiniteSet(PoolJobs)
    BY <2>2, <2>3, FS_Subset
  <2> QED
    BY <2>1, <2>4, FS_CardinalityType DEF InPool, IInv, Types
<1>2. CASE \A m \in Name : working'[m] <= working[m]
  <2>1. working' \in [Name -> Nat]
    BY NextIInv DEF IInv, Types
  <2>2. PoolJobs' \in SUBSET PoolJobs
    <3>1. ASSUME NEW job \in Name \X (1 .. PoolSize + 1), job[2] <= working'[job[1]]
          PROVE  job[2] <= working[job[1]]
      <4>1. job[1] \in Name /\ job[2] \in Nat
        OBVIOUS
      <4>2. working'[job[1]] \in Nat /\ working[job[1]] \in Nat /\ working'[job[1]] <= working[job[1]]
        BY <1>1, <1>2, <2>1, <4>1
      <4> QED
        BY <3>1, <4>1, <4>2
    <3> QED
      BY <3>1 DEF PoolJobs
  <2>3. Cardinality(PoolJobs') <= Cardinality(PoolJobs) /\ Cardinality(PoolJobs') \in Nat
    BY <1>1, <2>2, FS_Subset, FS_CardinalityType
  <2> QED
    BY <1>1, <2>3 DEF InPool
<1>3. ASSUME NEW n \in Name, working' = [working EXCEPT ![n] = @ + 1], InPool < PoolSize
      PROVE  (InPool <= PoolSize)'
  <2> DEFINE more == <<n, working[n] + 1>>
  <2>1. PoolJobs' \in SUBSET (PoolJobs \cup {more})
    <3>1. ASSUME NEW job \in Name \X (1 .. PoolSize + 1), job[2] <= working'[job[1]]
          PROVE  job[2] <= working[job[1]] \/ job = more
      <4>1. PICK m \in Name, k \in 1 .. PoolSize + 1 : job = <<m, k>>
        OBVIOUS
      <4>2. CASE m # n
        BY <1>1, <1>3, <3>1, <4>1, <4>2
      <4>3. CASE m = n
        <5>1. k \in Nat /\ working[n] \in Nat /\ k <= working[n] + 1
          BY <1>1, <1>3, <3>1, <4>1, <4>3
        <5>2. k <= working[n] \/ k = working[n] + 1
          BY <5>1
        <5> QED
          BY <4>1, <4>3, <5>2
      <4> QED
        BY <4>2, <4>3
    <3> QED
      BY <3>1 DEF PoolJobs
  <2> HIDE DEF more
  <2>2. /\ IsFiniteSet(PoolJobs \cup {more})
        /\ Cardinality(PoolJobs \cup {more}) <= Cardinality(PoolJobs) + 1
    BY <1>1, FS_AddElement DEF InPool
  <2>3. Cardinality(PoolJobs') <= Cardinality(PoolJobs \cup {more}) /\ Cardinality(PoolJobs') \in Nat
        /\ Cardinality(PoolJobs \cup {more}) \in Nat
    BY <2>1, <2>2, FS_Subset, FS_CardinalityType
  <2> QED
    BY <1>1, <1>3, <2>2, <2>3 DEF InPool
<1> QED
  BY <1>2, <1>3, PoolStep

\* Every variable keeps its type, and the pool has never more jobs than places.
THEOREM TypeCorrect == Spec => []TypeOK
<1>1. Init => InPool <= PoolSize
  <2> SUFFICES ASSUME Init PROVE InPool <= PoolSize
    OBVIOUS
  <2>1. PoolJobs = {}
    BY DEF Init, PoolJobs
  <2> QED
    BY <2>1, FS_EmptySet, ManagerAssumption DEF InPool
<1>2. IInv /\ InPool <= PoolSize => TypeOK
  BY DEF IInv, TypeOK
<1>3. IInv /\ IInv' /\ InPool <= PoolSize /\ [Next]_vars => (InPool <= PoolSize)'
  BY PoolKept
<1> QED
  BY <1>1, <1>2, <1>3, Invariance, PTL DEF Spec

\* A service never runs twice at the same time, whoever adds, starts and stops it
\* and however many of its timers are pending.
THEOREM RunsAlone == Spec => []NoOverlap
<1>1. IInv => NoOverlap
  BY DEF IInv, Types, JobsHaveEntry, NoOverlap, Alive
<1> QED
  BY <1>1, Invariance, PTL

\* The manager never loses the timer of a service it holds.
THEOREM NeverForgotten == Spec => []StaysScheduled
<1>1. IInv => StaysScheduled
  BY DEF IInv
<1> QED
  BY <1>1, Invariance, PTL

\* No job of a name that is added with care starts after its stop.
THEOREM StopsForGood == Spec => StopIsFinal
<1>1. ASSUME IInv, [Next]_vars, NEW n \in Careful
      PROVE  StartsManaged(n)
  <2>0. n \in Name
    BY ManagerAssumption
  <2>1. SUFFICES ASSUME queued'[n] + working'[n] > queued[n] + working[n]
                 PROVE  n \in services
    BY DEF StartsManaged, Alive
  <2>2. CASE \E m \in Name : Fire(m) \/ FireOrphan(m)
    <3>1. PICK m \in Name : Fire(m) \/ FireOrphan(m)
      BY <2>2
    <3>2. RunJob(m)
      BY <3>1 DEF Fire, FireOrphan
    <3>3. CASE m = n
      BY <1>1, <3>1, <3>3 DEF Fire, FireOrphan, IInv, CarefulTimers
    <3>4. CASE m # n
      BY <1>1, <2>0, <2>1, <3>2, <3>4 DEF RunJob, jobs, IInv, Types
    <3> QED
      BY <3>3, <3>4
  <2>3. CASE \E m \in Name : EnterPool(m)
    BY <1>1, <2>0, <2>1, <2>3 DEF EnterPool, IInv, Types
  <2>4. CASE \E m \in Name : JobEnds(m)
    BY <1>1, <2>0, <2>1, <2>4 DEF JobEnds, IInv, Types
  <2>5. CASE \E m \in Name : Callback(m)
    BY <1>1, <2>0, <2>1, <2>5 DEF IInv, Types, Callback
  <2>6. CASE \E c \in Caller : Start(c) \/ Stop(c)
    <3>1. UNCHANGED <<queued, working>>
      BY <2>6 DEF Start, Stop, StopAll, jobs
    <3> QED
      BY <1>1, <2>0, <2>1, <3>1 DEF IInv, Types
  <2>7. CASE \E c \in Caller, m \in Name : Add(c, m) \/ StopJoined(c, m)
    <3>1. UNCHANGED <<queued, working>>
      BY <2>7 DEF Add, StopJoined, StopAll, jobs
    <3> QED
      BY <1>1, <2>0, <2>1, <3>1 DEF IInv, Types
  <2>8. CASE \E c \in Caller, m \in Name : StopKill(c, m) \/ StopKilled(c, m)
    <3>1. CASE \E c \in Caller, m \in Name : StopKill(c, m)
      <4>1. UNCHANGED <<queued, working>>
        BY <3>1 DEF StopKill
      <4> QED
        BY <1>1, <2>0, <2>1, <4>1 DEF IInv, Types
    <3>2. CASE \E c \in Caller, m \in Name : StopKilled(c, m)
      <4>1. PICK m \in Name :
               /\ queued' = [queued EXCEPT ![m] = 0]
               /\ \E left \in {0, working[m]} : working' = [working EXCEPT ![m] = left]
        BY <3>2 DEF StopKilled
      <4> QED
        BY <1>1, <2>0, <2>1, <4>1 DEF IInv, Types
    <3> QED
      BY <2>8, <3>1, <3>2
  <2>9. CASE UNCHANGED vars
    BY <1>1, <2>0, <2>1, <2>9 DEF IInv, Types, vars, jobs
  <2> QED
    BY <1>1, <2>2, <2>3, <2>4, <2>5, <2>6, <2>7, <2>8, <2>9 DEF Next, JobStep
<1>2. IInv /\ [Next]_vars => [\A n \in Careful : StartsManaged(n)]_vars
  BY <1>1
<1> QED
  BY <1>2, Invariance, PTL DEF Spec, StopIsFinal
==============================================================================
