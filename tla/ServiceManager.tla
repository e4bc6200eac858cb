---------------------------- MODULE ServiceManager ----------------------------
(***************************************************************************)
(* tools/servicemanager/servicemanager.py: background services whose jobs  *)
(* are run again and again by gevent timers, in a pool of greenlets.       *)
(*                                                                         *)
(* gevent switches greenlets only where one waits.  _schedule_service and  *)
(* add_service never wait; stop_service waits once, for a running job to   *)
(* end or to be killed, and the links of a greenlet that ended run later.  *)
(* The callers are the greenlets of the Gedis server (PackageManager.add,  *)
(* reload and delete, one per request) and the shell.                      *)
(***************************************************************************)
EXTENDS Integers, FiniteSets

CONSTANTS
    Name,        \* names of services
    Caller,      \* greenlets that call the manager
    PoolSize,    \* cpu_count()
    Careful,     \* names whose callers add them only when they are neither
                 \* managed nor being stopped, and start the manager before
    MaxOrphans   \* bound: timers of one name that _scheduled has forgotten

ASSUME ManagerAssumption ==
    /\ IsFiniteSet(Name)
    /\ PoolSize \in Nat \ {0} /\ MaxOrphans \in Nat /\ Careful \subseteq Name

VARIABLES
    services,   \* names in self.services
    armed,      \* names in self._scheduled: their timer is pending
    orphans,    \* per name, pending timers that _scheduled no longer holds
    running,    \* self._running: no entry, an entry whose greenlet will call
                \* back, or an entry whose callback stop_service has unlinked
    queued,     \* per name, jobs waiting for a place in the pool
    working,    \* per name, jobs in the pool
    ended,      \* per name, jobs that ended and whose callback is still to run
    caller      \* each caller in stop_service: the job it joins or kills, and what it
                \* has to stop after that

vars == <<services, armed, orphans, running, queued, working, ended, caller>>
jobs == <<queued, working, ended>>
timers == <<armed, orphans>>

Idle == [joins |-> {}, kills |-> {}, todo |-> {}]

\* A job of n that has not ended.
Alive(n) == queued[n] + working[n]

\* The jobs in the pool, each a name and a number; one too many of a name is enough.
PoolJobs == {job \in Name \X (1 .. PoolSize + 1) : job[2] <= working[job[1]]}
InPool == Cardinality(PoolJobs)

Init ==
    /\ services = {} /\ armed = {}
    /\ orphans = [n \in Name |-> 0]
    /\ running = [n \in Name |-> "none"]
    /\ queued = [n \in Name |-> 0] /\ working = [n \in Name |-> 0]
    /\ ended = [n \in Name |-> 0]
    /\ caller = [c \in Caller |-> Idle]

------------------------------------------------------------------------------
(* Timers. *)

\* self._scheduled[name] = spawn_later(...) for the names in S: a timer that
\* was there stays pending, and nobody can kill it any more.
Arm(S) ==
    /\ armed' = armed \cup S
    /\ orphans' = [n \in Name |-> IF n \in S \cap armed THEN orphans[n] + 1
                                  ELSE orphans[n]]
    /\ \A n \in Name : orphans'[n] <= MaxOrphans

\* A call of stop_service is under way for n.
Stopping(n) == \E c \in Caller : n \in caller[c].joins \cup caller[c].kills

\* add_service.  The service object is loaded afresh each time, so the test
\* "service in self.services.values()" never finds the one before it.
Add(c, n) ==
    /\ caller[c] = Idle
    /\ n \in Careful => n \notin services /\ ~Stopping(n)
    /\ Arm({n})
    /\ services' = services \cup {n}
    /\ UNCHANGED <<running, jobs, caller>>

\* start: a timer for every service, whether or not it has one.
Start(c) ==
    /\ caller[c] = Idle
    /\ Careful \cap services = {}
    /\ Arm(services)
    /\ UNCHANGED <<services, running, jobs, caller>>

------------------------------------------------------------------------------
(* Jobs. *)

\* Mutants: a job is started whether or not one is running; the next run is
\* arranged only when this one takes place.
RunJob_Always(n) ==
    /\ running' = [running EXCEPT ![n] = "linked"]
    /\ IF InPool < PoolSize
       THEN working' = [working EXCEPT ![n] = @ + 1] /\ UNCHANGED queued
       ELSE queued' = [queued EXCEPT ![n] = @ + 1] /\ UNCHANGED working
    /\ UNCHANGED ended

\* The first half of _schedule_service: start a job if _running has no entry.
\* apply_async puts it in the pool, or in line for it when the pool is full.
RunJob(n) ==
    IF running[n] = "none"
    THEN /\ running' = [running EXCEPT ![n] = "linked"]
         /\ IF InPool < PoolSize
            THEN working' = [working EXCEPT ![n] = @ + 1] /\ UNCHANGED queued
            ELSE queued' = [queued EXCEPT ![n] = @ + 1] /\ UNCHANGED working
         /\ UNCHANGED ended
    ELSE UNCHANGED <<running, jobs>>

Fire_OnlyIfRun(n) ==
    /\ n \in armed
    /\ RunJob(n)
    /\ armed' = IF running[n] = "none" THEN armed ELSE armed \ {n}
    /\ UNCHANGED <<services, orphans, caller>>

\* The timer of n fires: _schedule_service runs the job and arms the next one.
Fire(n) ==
    /\ n \in armed
    /\ RunJob(n)
    /\ UNCHANGED <<services, timers, caller>>

\* So does a forgotten timer; the one it arms takes the place in _scheduled of
\* the timer that is there, which is forgotten in turn.
FireOrphan(n) ==
    /\ orphans[n] > 0
    /\ RunJob(n)
    /\ armed' = armed \cup {n}
    /\ orphans' = IF n \in armed THEN orphans ELSE [orphans EXCEPT ![n] = @ - 1]
    /\ UNCHANGED <<services, caller>>

\* Mutant: a job enters the pool when it is full.
EnterPool_Full(n) ==
    /\ queued[n] > 0
    /\ queued' = [queued EXCEPT ![n] = @ - 1]
    /\ working' = [working EXCEPT ![n] = @ + 1]
    /\ UNCHANGED <<services, timers, running, ended, caller>>

\* A job that was in line enters the pool.
EnterPool(n) ==
    /\ queued[n] > 0 /\ InPool < PoolSize
    /\ queued' = [queued EXCEPT ![n] = @ - 1]
    /\ working' = [working EXCEPT ![n] = @ + 1]
    /\ UNCHANGED <<services, timers, running, ended, caller>>

\* Mutant: the callback is linked to jobs that return, not to those that raise.
JobEnds_Raised(n) ==
    /\ working[n] > 0
    /\ working' = [working EXCEPT ![n] = @ - 1]
    /\ \E raised \in BOOLEAN :
          ended' = IF running[n] = "linked" /\ ~raised
                   THEN [ended EXCEPT ![n] = @ + 1] ELSE ended
    /\ UNCHANGED <<services, timers, running, queued, caller>>

\* A job returns or raises (__on_exception only reports that); the callback
\* that is linked to it is due.
JobEnds(n) ==
    /\ working[n] > 0
    /\ working' = [working EXCEPT ![n] = @ - 1]
    /\ ended' = IF running[n] = "linked" THEN [ended EXCEPT ![n] = @ + 1] ELSE ended
    /\ UNCHANGED <<services, timers, running, queued, caller>>

\* __callback
Callback(n) ==
    /\ ended[n] > 0
    /\ ended' = [ended EXCEPT ![n] = @ - 1]
    /\ running' = [running EXCEPT ![n] = "none"]
    /\ UNCHANGED <<services, timers, queued, working, caller>>

------------------------------------------------------------------------------
(* Stopping. *)

\* Mutants: the timer is left alone; the caller waits for the entry of
\* _running to go.
Unschedule_Not(S) == UNCHANGED timers
Over_EntryGone(n) == running[n] = "none"

\* Kill the timers in _scheduled.
Unschedule(S) == armed' = armed \ S /\ UNCHANGED orphans

\* A join of the job in _running would return at once.
Over(n) == Alive(n) = 0

\* The callbacks of the jobs in _running are unlinked, also of one that has
\* ended and whose callback is due.  The entries stay.
Unlink(S) ==
    /\ running' = [n \in Name |-> IF n \in S /\ running[n] # "none" THEN "unlinked"
                                  ELSE running[n]]
    /\ ended' = [n \in Name |-> IF n \in S THEN 0 ELSE ended[n]]

\* stop_service for the names of todo, one after the other, when the manager
\* holds the services of held: up to the first whose job it must wait for, or
\* that is not managed, which raises; to the end if there is none.
StopAll(c, todo, held) ==
    \E done \in SUBSET {n \in todo \cap held : Over(n)} :
        /\ services' = held \ done
        /\ UNCHANGED <<queued, working>>
        /\ \/ /\ done = todo \/ ~(todo \ done \subseteq held)
              /\ Unschedule(done) /\ Unlink(done)
              /\ caller' = [caller EXCEPT ![c] = Idle]
           \/ \E n \in (todo \cap held) \ done :
                 /\ ~Over(n)
                 /\ Unschedule(done \cup {n}) /\ Unlink(done \cup {n})
                 /\ caller' = [caller EXCEPT ![c] =
                                  [Idle EXCEPT !.joins = {n}, !.todo = todo \ (done \cup {n})]]

\* stop_service of one name, and stop, of all that there are.
Stop(c) ==
    /\ caller[c] = Idle
    /\ \E todo \in {{n} : n \in Name} \cup {services} : StopAll(c, todo, services)

\* stop_service(n, block=False) with a job in _running: it asks for the job to be
\* killed, and waits until it is.
StopKill(c, n) ==
    /\ caller[c] = Idle
    /\ n \in services /\ running[n] # "none"
    /\ Unschedule({n}) /\ Unlink({n})
    /\ caller' = [caller EXCEPT ![c] = [Idle EXCEPT !.kills = {n}]]
    /\ UNCHANGED <<services, queued, working>>

\* The kill is done.  It drops a job that waits for the pool.  One that had to
\* wait, and runs, it does not reach: that one runs in a greenlet of its own.
\* (Which jobs had to is not kept.)
StopKilled(c, n) ==
    /\ n \in caller[c].kills
    /\ services' = services \ {n}
    /\ queued' = [queued EXCEPT ![n] = 0]
    /\ \E left \in {0, working[n]} : working' = [working EXCEPT ![n] = left]
    /\ caller' = [caller EXCEPT ![c] = Idle]
    /\ UNCHANGED <<timers, running, ended>>

\* The join returns.  services.pop raises if another stop was faster.
StopJoined(c, n) ==
    /\ n \in caller[c].joins /\ Over(n)
    /\ IF n \in services
       THEN StopAll(c, caller[c].todo, services \ {n})
       ELSE /\ caller' = [caller EXCEPT ![c] = Idle]
            /\ UNCHANGED <<services, timers, running, jobs>>

------------------------------------------------------------------------------
JobStep(n) == Fire(n) \/ FireOrphan(n) \/ EnterPool(n) \/ JobEnds(n) \/ Callback(n)

Next ==
    \/ \E n \in Name : JobStep(n)
    \/ \E c \in Caller : Start(c) \/ Stop(c)
    \/ \E c \in Caller, n \in Name : \/ Add(c, n)
                                \/ StopKill(c, n) \/ StopKilled(c, n) \/ StopJoined(c, n)

Spec == Init /\ [][Next]_vars

\* Timers fire, links run and callers go on; a job comes to an end, and one in
\* line for the pool enters it at last.
FairSpec ==
    /\ Spec
    /\ \A n \in Name : /\ WF_vars(Fire(n)) /\ WF_vars(FireOrphan(n))
                       /\ WF_vars(JobEnds(n)) /\ WF_vars(Callback(n))
                       /\ SF_vars(EnterPool(n))
    /\ \A c \in Caller : WF_vars(\E n \in Name : StopKilled(c, n) \/ StopJoined(c, n))

------------------------------------------------------------------------------
(* Properties. *)

\* The values the variables take.
Types ==
    /\ services \subseteq Name /\ armed \subseteq Name
    /\ orphans \in [Name -> 0..MaxOrphans]
    /\ running \in [Name -> {"none", "linked", "unlinked"}]
    /\ queued \in [Name -> Nat] /\ working \in [Name -> Nat] /\ ended \in [Name -> Nat]
    /\ caller \in [Caller -> [joins : SUBSET Name, kills : SUBSET Name, todo : SUBSET Name]]

\* Every variable has its type, and the pool is never overbooked.
TypeOK == Types /\ InPool <= PoolSize

\* A service never runs twice at the same time, however it is added, started,
\* stopped and added again, and however many timers it has.  Billing and the
\* other jobs are written for it.
NoOverlap == \A n \in Name : Alive(n) <= 1

\* The manager never loses track of a service: it has a timer pending unless it
\* is being stopped.
StaysScheduled == \A n \in services : n \in armed \/ Stopping(n)

\* stop_service "unschedule[s] it if it's scheduled to run again": a job of a
\* name that the manager does not hold never starts.
StartsManaged(n) == queued'[n] + working'[n] > Alive(n) => n \in services

StopIsFinal == [][\A n \in Careful : StartsManaged(n)]_vars

\* The same of every name, whoever adds it and when.
EveryStopIsFinal == [][\A n \in Name : StartsManaged(n)]_vars

\* A managed service runs again, and does so after a job that raised too, if no
\* stop ever met a job of it.
KeepsRunning ==
    \A n \in Name :
        n \in services /\ running[n] # "unlinked" ~>
            working[n] > 0 \/ n \notin services \/ running[n] = "unlinked"

\* Each service the manager holds runs again.
RunsAgain == \A n \in Name : n \in services ~> working[n] > 0 \/ n \notin services

\* A call of stop_service or stop returns.
StopReturns == \A c \in Caller : caller[c] # Idle ~> caller[c] = Idle
==============================================================================
