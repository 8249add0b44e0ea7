--------------------------- MODULE ServiceManager ---------------------------
(***************************************************************************)
(* The service manager (src/src/core/service_manager.py): start and stop   *)
(* of services, and the restart of a service that raised.                  *)
(*                                                                         *)
(* Every coroutine that may be suspended is a job: a start_service, a      *)
(* stop_service, or a handle_service_error in its restart delay.  start    *)
(* and stop functions of services are awaits with an outcome of the        *)
(* environment's choice.  The restart history of a service is the set of   *)
(* its records with their ages.                                            *)
(* register is called before the manager starts; unregister, the task      *)
(* field (never set), the failure callback and the getters are left out.   *)
(***************************************************************************)
EXTENDS Integers, FiniteSets

CONSTANTS
    Services,
    Jobs,           \* bound: coroutines alive at a time
    MaxRestarts,    \* _max_restart_attempts
    RestartWindow,         \* _restart_window_seconds, in ticks
    Delay,          \* _restart_delay_seconds, in ticks
    CanStop,        \* stop_all and stop_service may be called
    CanFail,        \* a start function may raise
    MaxErrors       \* bound: errors reported per tick

ASSUME ServiceManagerAssumption ==
    /\ {MaxRestarts, RestartWindow, Delay, MaxErrors} \subseteq Nat
    /\ {CanStop, CanFail} \subseteq BOOLEAN

VARIABLES
    running,        \* _running
    status,         \* status[s]
    restarts,       \* restarts[s]: restart_history; nth tells those of one age apart
    job,            \* job[j]: what coroutine j is doing
    all,            \* services start_all or stop_all still has to visit
    sweep,          \* "none", "start_all" or "stop_all"
    alive,          \* alive[s]: the service itself is up
    errors          \* errors reported in this tick

serviceVars == <<running, status, restarts, job, all, sweep, alive, errors>>

Statuses == {"stopped", "starting", "running", "restarting", "failed"}
IdleJob == [kind |-> "idle", service |-> "none", left |-> 0]
Kinds == {"idle", "start", "stop", "delay", "restart"}

ServiceTypeOK ==
    /\ running \in BOOLEAN
    /\ status \in [Services -> Statuses]
    /\ restarts \in [Services -> SUBSET [age : 0..RestartWindow, nth : Nat]]
    /\ \A j \in Jobs : /\ job[j].kind \in Kinds /\ job[j].left \in 0..Delay
                       /\ job[j].service \in Services \cup {"none"}
    /\ all \subseteq Services
    /\ sweep \in {"none", "start_all", "stop_all"}
    /\ alive \in [Services -> BOOLEAN]
    /\ errors \in 0..MaxErrors

ServiceInit ==
    /\ running = FALSE
    /\ status = [s \in Services |-> "stopped"]
    /\ restarts = [s \in Services |-> {}]
    /\ job = [j \in Jobs |-> IdleJob]
    /\ all = {} /\ sweep = "none"
    /\ alive = [s \in Services |-> FALSE]
    /\ errors = 0

Do(j, kind, s, left) ==
    job' = [job EXCEPT ![j] = [kind |-> kind, service |-> s, left |-> left]]
Ends(j) == job' = [job EXCEPT ![j] = IdleJob]

\* start_all and stop_all walk the services one by one; the sweep waits for
\* the job it started.
SweepIdle == \A j \in Jobs : job[j].kind \notin {"start", "stop"}

-----------------------------------------------------------------------------
(* start_service, stop_service                                             *)

\* start_service up to the await of start_fn.
BeginStart(j, kind, s) ==
    /\ status' = [status EXCEPT ![s] = "starting"]
    /\ Do(j, kind, s, 0)

\* start_fn returned or raised.
StartReturns(j) ==
    LET s == job[j].service
    IN  /\ job[j].kind \in {"start", "restart"}
        /\ \/ /\ status' = [status EXCEPT ![s] = "running"]
              /\ alive' = [alive EXCEPT ![s] = TRUE]
           \/ /\ CanFail
              /\ status' = [status EXCEPT ![s] = "failed"]
              /\ UNCHANGED alive
        /\ Ends(j)
        /\ UNCHANGED <<running, restarts, all, sweep, errors>>

\* stop_fn returned; an exception it raises is logged and ignored.
StopReturns(j) ==
    LET s == job[j].service
    IN  /\ job[j].kind = "stop"
        /\ status' = [status EXCEPT ![s] = "stopped"]
        /\ alive' = [alive EXCEPT ![s] = FALSE]
        /\ Ends(j)
        /\ UNCHANGED <<running, restarts, all, sweep, errors>>

StartAll ==
    /\ sweep = "none" /\ ~running
    /\ running' = TRUE
    /\ sweep' = "start_all" /\ all' = Services
    /\ UNCHANGED <<status, restarts, job, alive, errors>>

StopAll ==
    /\ CanStop /\ sweep = "none" /\ running
    /\ running' = FALSE
    /\ sweep' = "stop_all" /\ all' = Services
    /\ UNCHANGED <<status, restarts, job, alive, errors>>

\* The next service of start_all or stop_all.
Visit(s, j) ==
    /\ s \in all /\ job[j] = IdleJob /\ SweepIdle
    /\ all' = all \ {s}
    /\ \/ sweep = "start_all" /\ BeginStart(j, "start", s)
       \/ /\ sweep = "stop_all" /\ status[s] \in {"running", "restarting"}
          /\ Do(j, "stop", s, 0) /\ UNCHANGED status
       \/ /\ sweep = "stop_all" /\ status[s] \notin {"running", "restarting"}
          /\ UNCHANGED <<status, job>>
    /\ UNCHANGED <<running, restarts, sweep, alive, errors>>

SweepReturns ==
    /\ sweep # "none" /\ all = {} /\ SweepIdle
    /\ sweep' = "none"
    /\ UNCHANGED <<running, status, restarts, job, all, alive, errors>>

-----------------------------------------------------------------------------
(* handle_service_error                                                    *)

RecentRestarts(s) == Cardinality(restarts[s])

\* The history of s with one more record.
Restarted(s) ==
    restarts[s] \cup {[age |-> 0, nth |-> Cardinality({r \in restarts[s] : r.age = 0})]}

\* Mutant: the service is restarted once more than allowed.
RestartOnceMore(s, j) ==
    IF RecentRestarts(s) > MaxRestarts
    THEN /\ status' = [status EXCEPT ![s] = "failed"]
         /\ UNCHANGED <<restarts, job>>
    ELSE /\ status' = [status EXCEPT ![s] = "restarting"]
         /\ restarts' = [restarts EXCEPT ![s] = Restarted(s)]
         /\ Do(j, "delay", s, Delay)

\* The restart policy, up to the sleep.
RestartPolicy(s, j) ==
    IF RecentRestarts(s) >= MaxRestarts
    THEN /\ status' = [status EXCEPT ![s] = "failed"]
         /\ UNCHANGED <<restarts, job>>
    ELSE /\ status' = [status EXCEPT ![s] = "restarting"]
         /\ restarts' = [restarts EXCEPT ![s] = Restarted(s)]
         /\ Do(j, "delay", s, Delay)

\* A service that is up raises and is down.
ServiceError(s, j) ==
    /\ alive[s] /\ job[j] = IdleJob
    /\ errors < MaxErrors /\ errors' = errors + 1
    /\ alive' = [alive EXCEPT ![s] = FALSE]
    /\ RestartPolicy(s, j)
    /\ UNCHANGED <<running, all, sweep>>

\* Mutant: only a service that still counts as running is restarted.
DelayEndsRunning(j) ==
    /\ job[j].kind = "delay" /\ job[j].left = 0
    /\ IF running /\ status[job[j].service] = "running"
         THEN BeginStart(j, "restart", job[j].service)
         ELSE Ends(j) /\ UNCHANGED status
    /\ UNCHANGED <<running, restarts, all, sweep, alive, errors>>

\* The restart delay is over.
DelayEnds(j) ==
    /\ job[j].kind = "delay" /\ job[j].left = 0
    /\ IF running THEN BeginStart(j, "restart", job[j].service)
                  ELSE Ends(j) /\ UNCHANGED status
    /\ UNCHANGED <<running, restarts, all, sweep, alive, errors>>

ServiceTick ==
    /\ job' = [j \in Jobs |-> [job[j] EXCEPT !.left = IF @ > 0 THEN @ - 1 ELSE 0]]
    /\ restarts' = [s \in Services |->
                      {[r EXCEPT !.age = @ + 1] :
                         r \in {q \in restarts[s] : q.age < RestartWindow}}]
    /\ errors' = 0
    /\ UNCHANGED <<running, status, all, sweep, alive>>

ServiceNext ==
    \/ StartAll \/ StopAll \/ SweepReturns \/ ServiceTick
    \/ \E j \in Jobs :
         \/ StartReturns(j) \/ StopReturns(j) \/ DelayEnds(j)
         \/ \E s \in Services : Visit(s, j) \/ ServiceError(s, j)

ServiceSpec == ServiceInit /\ [][ServiceNext]_serviceVars

\* Time passes and the event loop runs what is ready; start and stop
\* functions are assumed to return.  A sweep is not held up for ever by the
\* bound on coroutines, which the program does not have: hence SF for Visit.
ServiceFairSpec ==
    /\ ServiceSpec
    /\ WF_serviceVars(ServiceTick) /\ WF_serviceVars(SweepReturns)
    /\ \A j \in Jobs : WF_serviceVars(StartReturns(j) \/ StopReturns(j) \/ DelayEnds(j))
    /\ \A s \in Services : SF_serviceVars(\E j \in Jobs : Visit(s, j))

-----------------------------------------------------------------------------
\* "Maximum 3 attempts within a 5-minute window": however errors, manual stops
\* and restarts interleave, no window holds more restarts of one service.
RestartBudget == \A s \in Services : Cardinality(restarts[s]) <= MaxRestarts

\* A service waiting for its restart does not wait for ever, unless the
\* manager is stopped meanwhile.
RestartingResolves ==
    \A s \in Services :
        status[s] = "restarting" ~> (status[s] # "restarting" \/ ~running)

(* What the documentation says and the code does not do.                   *)

\* "Service marked as failed after exhausting restart attempts"
\* (service_manager.py:6): a service being restarted is not given up before.
FailedMeansExhausted ==
    [][\A s \in Services : status[s] # "failed" /\ status'[s] = "failed" =>
            Cardinality(restarts[s]) \notin 1..MaxRestarts - 1]_serviceVars

\* stop_all, "Stop all running services": once it has returned no service
\* comes up again until start_all.
StoppedStaysDown ==
    [][~running /\ sweep = "none" =>
            \A s \in Services : alive'[s] => alive[s]]_serviceVars
=============================================================================
