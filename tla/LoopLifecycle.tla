---------------------------- MODULE LoopLifecycle ----------------------------
(***************************************************************************)
(* Starting and stopping the autonomous trading loop: the lifespan of the  *)
(* application (main.py), the start and stop routes (api/routes/           *)
(* trading.py) and AutonomousTradingLoop.start, stop, _run_loop,           *)
(* _snapshot_loop and _connect_to_ig (trading/trading_loop.py).            *)
(*                                                                         *)
(* A start is one step (it only creates a task); a stop is suspended while *)
(* it waits for the poller, the loop and the broker's client, and the      *)
(* tasks it waits for are those it read when it began.  What a cycle does  *)
(* is left to module TradingLoop: here it takes a while, finds the client  *)
(* connected or not, and may be the one whose error ends the loop.         *)
(***************************************************************************)
EXTENDS Naturals, FiniteSets

CONSTANTS Stoppers,  \* concurrent requests to the stop route
          MaxLoops   \* bound: times the loop is started

ASSUME LifecycleAssumption == MaxLoops \in Nat /\ "lifespan" \notin Stoppers

VARIABLES app,            \* the application: "starting", "serving", "stopping", "down"
          schema_ready,   \* app.state.database_schema_ready
          constructed,    \* app.state.trading_loop is not None
          running,        \* _state.running
          task,           \* _task: the loop it names, 0 for None
          snapshot_task,  \* _snapshot_task: the loop whose poller it names, 0 for None
          loops,          \* where each loop is
          pollers,        \* where the poller of each loop is
          cancelled,      \* the loops and pollers with a cancellation to deliver
          client,         \* _ig_client: the loop that made it and its state
          astray,         \* observer: a live client nobody refers to
          stops,          \* the calls of stop() under way
          overlapped      \* observer: a start came during a stop, and its loop may still live

lifecycleVars == <<app, schema_ready, constructed, running, task, snapshot_task, loops, pollers,
                   cancelled, client, astray, stops, overlapped>>

appVars == <<app, schema_ready, constructed>>
taskVars == <<task, snapshot_task>>

Runs == 1..MaxLoops
StopCallers == Stoppers \cup {"lifespan"}
NotStopping == [at |-> "idle", poller |-> 0, loop |-> 0]
NoClient == [of |-> 0, is |-> "none"]

LoopAlive(l) == l \in Runs /\ loops[l] \in {"starting", "connecting", "cycle", "sleep", "reconnecting"}
PollerAlive(l) == l \in Runs /\ pollers[l] = "polling"
Started == Cardinality({l \in Runs : loops[l] # "none"})
Quiet == \A l \in Runs : ~LoopAlive(l) /\ ~PollerAlive(l)

LifecycleTypeOK ==
  /\ app \in {"starting", "serving", "stopping", "down"}
  /\ {schema_ready, constructed, running, astray, overlapped} \subseteq BOOLEAN
  /\ task \in 0..MaxLoops /\ snapshot_task \in 0..MaxLoops
  /\ loops \in [Runs -> {"none", "starting", "connecting", "cycle", "sleep", "reconnecting", "ended"}]
  /\ pollers \in [Runs -> {"none", "polling", "ended"}]
  /\ cancelled \subseteq {"loop", "poller"} \X Runs
  /\ client \in [of : 0..MaxLoops, is : {"none", "starting", "up", "dead", "stopping"}]
  /\ stops \in [StopCallers -> [at : {"idle", "poller", "loop", "client"},
                                poller : 0..MaxLoops, loop : 0..MaxLoops]]

LifecycleInit ==
  /\ app = "starting" /\ schema_ready = FALSE /\ constructed = FALSE
  /\ running = FALSE /\ task = 0 /\ snapshot_task = 0
  /\ loops = [l \in Runs |-> "none"] /\ pollers = [l \in Runs |-> "none"]
  /\ cancelled = {} /\ client = NoClient /\ astray = FALSE
  /\ stops = [c \in StopCallers |-> NotStopping] /\ overlapped = FALSE

-----------------------------------------------------------------------------
(* start(): a new state that runs, and a new task.                         *)

StartLoop ==
  /\ Started < MaxLoops
  /\ running' = TRUE
  /\ task' = Started + 1
  /\ loops' = [loops EXCEPT ![Started + 1] = "starting"]
  /\ overlapped' = ((overlapped /\ ~Quiet) \/ \E c \in StopCallers : stops[c] # NotStopping)
  /\ UNCHANGED <<snapshot_task, pollers, cancelled, client, astray, stops>>

\* _ensure_database_schema: whatever the migration did, the tables are there, or they are once
\* the models' schema has been created, or they are not (a failure of the verification
\* included).
EnsureDatabaseSchema ==
  \E found, created \in BOOLEAN : schema_ready' = (found \/ created)

\* _start_services: the loop is started only on a database that has its tables.
Startup ==
  /\ app = "starting" /\ app' = "serving"
  /\ EnsureDatabaseSchema
  /\ constructed' = schema_ready'
  /\ IF schema_ready' THEN StartLoop
     ELSE UNCHANGED <<running, task, snapshot_task, loops, pollers, cancelled, client, astray,
                      stops, overlapped>>

\* POST /loop/start: makes the loop if there is none, whatever the startup found.
StartRoute ==
  /\ app = "serving" /\ ~running
  /\ constructed' = TRUE
  /\ StartLoop
  /\ UNCHANGED <<app, schema_ready>>

-----------------------------------------------------------------------------
(* stop().                                                                 *)

\* stop() waits for the poller, or for the loop, once it has cancelled it.
AwaitPoller(c, p, l) ==
  /\ stops' = [stops EXCEPT ![c] = [at |-> "poller", poller |-> p, loop |-> l]]
  /\ cancelled' = cancelled \cup {<<"poller", p>>}
  /\ UNCHANGED <<taskVars, client>>

AwaitLoop(c, l) ==
  /\ stops' = [stops EXCEPT ![c] = [at |-> "loop", poller |-> 0, loop |-> l]]
  /\ cancelled' = cancelled \cup {<<"loop", l>>}
  /\ UNCHANGED <<taskVars, client>>

\* Both tasks have ended: they are forgotten, and the client that is there now is stopped.
AwaitClient(c) ==
  /\ task' = 0 /\ snapshot_task' = 0
  /\ stops' = [stops EXCEPT ![c] =
       IF client.is = "none" THEN NotStopping ELSE [at |-> "client", poller |-> 0, loop |-> 0]]
  /\ client' = IF client.is = "none" THEN client ELSE [client EXCEPT !.is = "stopping"]
  /\ UNCHANGED cancelled

\* The flag falls, and stop() waits for what is alive: both tasks are read now.
BeginStop(c) ==
  /\ stops[c] = NotStopping
  /\ running' = FALSE
  /\ \/ PollerAlive(snapshot_task) /\ AwaitPoller(c, snapshot_task, task)
     \/ ~PollerAlive(snapshot_task) /\ LoopAlive(task) /\ AwaitLoop(c, task)
     \/ ~PollerAlive(snapshot_task) /\ ~LoopAlive(task) /\ AwaitClient(c)
  /\ UNCHANGED <<loops, pollers, astray, overlapped>>

\* POST /loop/stop does nothing when the loop is not running.
StopRoute(c) ==
  /\ app = "serving" /\ constructed /\ running
  /\ BeginStop(c)
  /\ UNCHANGED appVars

\* The poller has ended (wait_for gives it two seconds, cancels it again and waits): it is the
\* loop's turn.
PollerStopped(c) ==
  /\ stops[c].at = "poller" /\ ~PollerAlive(stops[c].poller)
  /\ \/ LoopAlive(stops[c].loop) /\ AwaitLoop(c, stops[c].loop)
     \/ ~LoopAlive(stops[c].loop) /\ AwaitClient(c)
  /\ UNCHANGED <<appVars, running, loops, pollers, astray, overlapped>>

\* Mutant: the loop is cancelled but not awaited.
AwaitedNot(c) == TRUE

\* The loop that stop() awaits has ended.
Awaited(c) == ~LoopAlive(stops[c].loop)

LoopStopped(c) ==
  /\ stops[c].at = "loop" /\ Awaited(c)
  /\ AwaitClient(c)
  /\ UNCHANGED <<appVars, running, loops, pollers, astray, overlapped>>

\* The client is stopped, failed to stop or took too long: whichever is there now is dropped.
ClientStopped(c) ==
  /\ stops[c].at = "client"
  /\ client' = NoClient
  /\ astray' = (astray \/ client.is = "up")
  /\ stops' = [stops EXCEPT ![c] = NotStopping]
  /\ UNCHANGED <<appVars, running, taskVars, loops, pollers, cancelled, overlapped>>

\* _stop_services: the requests are over and stop() is called on any loop that was constructed,
\* running or not.
BeginShutdown ==
  /\ app = "serving" /\ \A c \in Stoppers : stops[c] = NotStopping
  /\ app' = "stopping"
  /\ IF constructed THEN BeginStop("lifespan")
     ELSE UNCHANGED <<running, taskVars, loops, pollers, cancelled, client, astray, stops, overlapped>>
  /\ UNCHANGED <<schema_ready, constructed>>

\* stop() has returned, or was cut short while it waited for the client: the four seconds of
\* the shutdown cancel it, and only its waits for the tasks survive a cancellation.
Shutdown ==
  /\ app = "stopping" /\ stops["lifespan"].at \in {"idle", "client"}
  /\ app' = "down" /\ constructed' = FALSE
  /\ stops' = [stops EXCEPT !["lifespan"] = NotStopping]
  /\ UNCHANGED <<schema_ready, running, taskVars, loops, pollers, cancelled, client, astray, overlapped>>

-----------------------------------------------------------------------------
(* The tasks.                                                              *)

Proceeds(l) == LoopAlive(l) /\ <<"loop", l>> \notin cancelled
loopFrame == <<appVars, stops, overlapped>>

\* _connect_to_ig makes a new client, which replaces the one there was.
Connect(l) ==
  /\ Proceeds(l)
  /\ \/ /\ loops[l] = "starting"
        /\ loops' = [loops EXCEPT ![l] = "connecting"]
     \/ /\ loops[l] = "cycle" /\ client.is # "up"
        /\ loops' = [loops EXCEPT ![l] = "reconnecting"]
  /\ client' = [of |-> l, is |-> "starting"]
  /\ astray' = (astray \/ client.is = "up")
  /\ UNCHANGED <<loopFrame, running, taskVars, pollers, cancelled>>

OwnClient(l) == client = [of |-> l, is |-> "starting"]

\* The client is authenticated: the first time the loop creates its poller and enters its while,
\* which ends at once when the flag has fallen.
Connected(l) ==
  /\ Proceeds(l)
  /\ client' = IF OwnClient(l) THEN [client EXCEPT !.is = "up"] ELSE client
  /\ astray' = (astray \/ client.of # l)
  /\ \/ /\ loops[l] = "connecting"
        /\ pollers' = [pollers EXCEPT ![l] = "polling"]
        /\ snapshot_task' = l
        /\ loops' = [loops EXCEPT ![l] = IF running THEN "cycle" ELSE "ended"]
     \/ /\ loops[l] = "reconnecting"
        /\ loops' = [loops EXCEPT ![l] = "sleep"]
        /\ UNCHANGED <<pollers, snapshot_task>>
  /\ UNCHANGED <<loopFrame, running, task, cancelled>>

\* Not configured, refused or failed: at the start the loop ends, later it tries at its next cycle.
NotConnected(l) ==
  /\ Proceeds(l)
  /\ client' = IF OwnClient(l) THEN [client EXCEPT !.is = "dead"] ELSE client
  /\ \/ /\ loops[l] = "connecting"
        /\ loops' = [loops EXCEPT ![l] = "ended"]
        /\ running' = FALSE
     \/ /\ loops[l] = "reconnecting"
        /\ loops' = [loops EXCEPT ![l] = "sleep"]
        /\ UNCHANGED running
  /\ UNCHANGED <<loopFrame, taskVars, pollers, cancelled, astray>>

\* A trading cycle ends; after more than 50 errors so does the loop.
CycleEnds(l) ==
  /\ Proceeds(l) /\ loops[l] = "cycle"
  /\ \/ /\ loops' = [loops EXCEPT ![l] = "sleep"]
        /\ UNCHANGED running
     \/ /\ loops' = [loops EXCEPT ![l] = "ended"]
        /\ running' = FALSE
  /\ UNCHANGED <<loopFrame, taskVars, pollers, cancelled, client, astray>>

\* The interval is over: the while reads the flag again.
Wake(l) ==
  /\ Proceeds(l) /\ loops[l] = "sleep"
  /\ loops' = [loops EXCEPT ![l] = IF running THEN "cycle" ELSE "ended"]
  /\ UNCHANGED <<loopFrame, running, taskVars, pollers, cancelled, client, astray>>

\* The cancellation reaches the loop where it is suspended; its finally lowers the flag, which
\* by now may be that of a later start.
LoopCancelled(l) ==
  /\ LoopAlive(l) /\ <<"loop", l>> \in cancelled
  /\ loops' = [loops EXCEPT ![l] = "ended"]
  /\ running' = FALSE
  /\ client' = IF OwnClient(l) THEN [client EXCEPT !.is = "dead"] ELSE client
  /\ cancelled' = cancelled \ {<<"loop", l>>}
  /\ UNCHANGED <<loopFrame, taskVars, pollers, astray>>

\* Mutant: the poller runs until it is cancelled.
ReadsNothing == FALSE

\* The poller reads the flag before each instrument and each round.
ReadsFlag == ~running

PollerEnds(l) ==
  /\ PollerAlive(l)
  /\ <<"poller", l>> \in cancelled \/ ReadsFlag
  /\ pollers' = [pollers EXCEPT ![l] = "ended"]
  /\ cancelled' = cancelled \ {<<"poller", l>>}
  /\ UNCHANGED <<loopFrame, running, taskVars, loops, client, astray>>

\* The heartbeat of the client has given up reconnecting.
ClientDies ==
  /\ client.is = "up"
  /\ client' = [client EXCEPT !.is = "dead"]
  /\ UNCHANGED <<loopFrame, running, taskVars, loops, pollers, cancelled, astray>>

StopStep(c) == PollerStopped(c) \/ LoopStopped(c) \/ ClientStopped(c)

LoopStep(l) ==
  \/ Connect(l)
  \/ Connected(l)
  \/ NotConnected(l)
  \/ CycleEnds(l)
  \/ Wake(l)
  \/ LoopCancelled(l)

LifecycleNext ==
  \/ Startup
  \/ StartRoute
  \/ \E c \in Stoppers : StopRoute(c)
  \/ \E c \in StopCallers : StopStep(c)
  \/ BeginShutdown
  \/ Shutdown
  \/ \E l \in Runs : LoopStep(l) \/ PollerEnds(l)
  \/ ClientDies

\* Every wait of the tasks ends: requests and sleeps have their own timeouts.
LifecycleFairness ==
  /\ \A l \in Runs : WF_lifecycleVars(LoopStep(l)) /\ WF_lifecycleVars(PollerEnds(l))
  /\ \A c \in StopCallers : WF_lifecycleVars(StopStep(c))

LifecycleSpec == LifecycleInit /\ [][LifecycleNext]_lifecycleVars /\ LifecycleFairness

-----------------------------------------------------------------------------
\* When stop() is through with the loop and no start came during a stop, no loop is left: a
\* cycle suspended in a broker call does not outlive the two seconds it is given (stop).
StopLeavesNoLoop ==
  [][\A c \in StopCallers :
       /\ stops[c].at \in {"poller", "loop"} /\ stops'[c].at \in {"client", "idle"}
       /\ ~overlapped
       => \A l \in Runs : ~LoopAlive(l)]_lifecycleVars

\* Once the flag has fallen every loop and every poller ends, those no stop() knows included,
\* unless the loop is started again (_run_loop, _snapshot_loop).
FlagStopsAll == ~running ~> (Quiet \/ running)

\* stop() ends what was started, at once what it knows of and in the end all that runs.
StopEndsAll == StopLeavesNoLoop /\ FlagStopsAll

\* Not so in the code: one loop trades at a time.  A start during a stop raises the flag before
\* the loop being stopped has been cancelled.
OneLoopTrades == Cardinality({l \in Runs : Proceeds(l)}) <= 1

\* Not so in the code: one poller feeds the candles.  A loop that ended by its errors leaves its
\* poller asleep, and the next start raises the flag the poller reads.
OnePollerFeeds == Cardinality({l \in Runs : PollerAlive(l) /\ <<"poller", l>> \notin cancelled}) <= 1

\* Not so in the code: the loop holds the one live client.  The stop route does nothing on a
\* loop that ended by its errors, and the next start replaces the client without stopping it.
ClientIsHeld == ~astray

\* Not so in the code: the loop trades only with the tables it persists to; the start route does
\* not ask.
TradesNeedTables == \A l \in Runs : LoopAlive(l) => schema_ready
=============================================================================
