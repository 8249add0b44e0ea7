----------------------------- MODULE ReutersFeed -----------------------------
(***************************************************************************)
(* The Reuters source (src/src/news/sources/reuters.py, base.py): a        *)
(* listener task, a reconnection task that replaces it, and connect() and  *)
(* disconnect() called by the news engine when it starts and stops.        *)
(*                                                                         *)
(* The socket itself is a placeholder in the code: establishing it,        *)
(* receiving from it and losing it are the environment's choice.           *)
(***************************************************************************)
EXTENDS Integers, FiniteSets

CONSTANTS
    MaxReconnectAttempts,   \* max_reconnect_attempts
    StaleAfter,             \* NEWS_SOURCE_UNAVAILABLE_THRESHOLD_SECONDS, in ticks
    MaxTasks,               \* bound: listener tasks ever created
    MaxAge                  \* bound: age of the last message, in ticks

ASSUME ReutersAssumption ==
    {MaxReconnectAttempts, StaleAfter, MaxTasks, MaxAge} \subseteq Nat

VARIABLES
    engine,         \* what the news engine does with the source
    connected,      \* _connected
    shutting_down,  \* _shutting_down
    ws,             \* _ws_connection is not None
    listeners,      \* listener tasks that have not ended
    listener_task,  \* _listener_task, 0 for None
    reconnect,      \* reconnection tasks: how many sleep, at which attempt
    reconnect_task, \* _reconnect_task is not None
    last_message,   \* age of _last_message_time, or NoMessageYet
    created         \* listener tasks created so far

reutersVars == <<engine, connected, shutting_down, ws, listeners, listener_task,
                 reconnect, reconnect_task, last_message, created>>

NoMessageYet == -1
NoReconnection == 0

ReutersInit ==
    /\ engine = "stopped" /\ connected = FALSE /\ shutting_down = FALSE /\ ws = FALSE
    /\ listeners = {} /\ listener_task = 0
    /\ reconnect = NoReconnection /\ reconnect_task = FALSE
    /\ last_message = NoMessageYet /\ created = 0

\* create_task(_listen_stream())
StartListener ==
    /\ created < MaxTasks
    /\ created' = created + 1
    /\ listeners' = listeners \cup {created + 1}
    /\ listener_task' = created + 1

-----------------------------------------------------------------------------
\* connect(): nothing is awaited before the task exists.
Connect ==
    /\ engine = "stopped"
    /\ engine' = "running"
    /\ shutting_down' = FALSE
    /\ \/ StartListener /\ ws' = TRUE /\ connected' = TRUE
       \/ /\ connected' = FALSE       \* ConnectionError
          /\ UNCHANGED <<ws, listeners, listener_task, created>>
    /\ UNCHANGED <<reconnect, reconnect_task, last_message>>

\* disconnect() awaits the end of the reconnection task, then of the listener.
BeginDisconnect ==
    /\ engine = "running"
    /\ engine' = "cancelling"
    /\ shutting_down' = TRUE
    /\ UNCHANGED <<connected, ws, listeners, listener_task, reconnect, reconnect_task,
                   last_message, created>>

\* Mutant: only the reference is dropped, the task sleeps on.
ForgetReconnection ==
    /\ engine = "cancelling"
    /\ engine' = "closing"
    /\ reconnect_task' = FALSE
    /\ UNCHANGED <<connected, shutting_down, ws, listeners, listener_task, reconnect,
                   last_message, created>>

CancelReconnection ==
    /\ engine = "cancelling"
    /\ engine' = "closing"
    /\ reconnect' = IF reconnect_task THEN NoReconnection ELSE reconnect
    /\ reconnect_task' = FALSE
    /\ UNCHANGED <<connected, shutting_down, ws, listeners, listener_task, last_message,
                   created>>

CloseFeed ==
    /\ engine = "closing"
    /\ engine' = "stopped"
    /\ listeners' = listeners \ {listener_task}
    /\ listener_task' = 0
    /\ ws' = FALSE /\ connected' = FALSE
    /\ UNCHANGED <<shutting_down, reconnect, reconnect_task, last_message, created>>

-----------------------------------------------------------------------------
\* _listen_stream, one pass of its loop; every pass awaits the socket.

\* An article, or a message _parse_message makes nothing of; either way the
\* feed has been heard. Callbacks that raise change nothing.
Receive(t) ==
    /\ t \in listeners /\ ~shutting_down /\ ws
    /\ last_message' = 0
    /\ UNCHANGED <<engine, connected, shutting_down, ws, listeners, listener_task,
                   reconnect, reconnect_task, created>>

\* The socket is lost: the listener hands over to a reconnection task and ends;
\* when the source is shutting down it loops to its end without one.
ConnectionLost(t) ==
    /\ t \in listeners
    /\ listeners' = listeners \ {t}
    /\ IF shutting_down THEN UNCHANGED <<connected, reconnect, reconnect_task>>
       ELSE /\ connected' = FALSE
            /\ reconnect_task' = TRUE
            /\ reconnect' = IF MaxReconnectAttempts = 0 THEN NoReconnection ELSE 1
    /\ UNCHANGED <<engine, shutting_down, ws, listener_task, last_message, created>>

\* The loop's condition, seen after the await.
ListenerEnds(t) ==
    /\ t \in listeners /\ shutting_down
    /\ listeners' = listeners \ {t}
    /\ UNCHANGED <<engine, connected, shutting_down, ws, listener_task, reconnect,
                   reconnect_task, last_message, created>>

\* _reconnect_with_backoff wakes from the delay of attempt number `reconnect`.
Reconnected ==
    /\ reconnect # NoReconnection /\ ~shutting_down
    /\ ws' = TRUE /\ connected' = TRUE
    /\ StartListener
    /\ reconnect' = NoReconnection
    /\ UNCHANGED <<engine, shutting_down, reconnect_task, last_message>>

AttemptFails ==
    /\ reconnect # NoReconnection /\ ~shutting_down
    /\ IF reconnect < MaxReconnectAttempts
       THEN reconnect' = reconnect + 1 /\ UNCHANGED connected
       ELSE reconnect' = NoReconnection /\ connected' = FALSE
    /\ UNCHANGED <<engine, shutting_down, ws, listeners, listener_task, reconnect_task,
                   last_message, created>>

ReconnectionEnds ==
    /\ reconnect # NoReconnection /\ shutting_down
    /\ reconnect' = NoReconnection
    /\ UNCHANGED <<engine, connected, shutting_down, ws, listeners, listener_task,
                   reconnect_task, last_message, created>>

Ages ==
    /\ last_message # NoMessageYet /\ last_message < MaxAge
    /\ last_message' = last_message + 1
    /\ UNCHANGED <<engine, connected, shutting_down, ws, listeners, listener_task,
                   reconnect, reconnect_task, created>>

\* health_check()
Healthy == connected /\ (last_message = NoMessageYet \/ last_message < StaleAfter)

ReutersNext ==
    \/ Connect \/ BeginDisconnect \/ CancelReconnection \/ CloseFeed
    \/ \E t \in 1..MaxTasks : Receive(t) \/ ConnectionLost(t) \/ ListenerEnds(t)
    \/ Reconnected \/ AttemptFails \/ ReconnectionEnds \/ Ages

ReutersSpec == ReutersInit /\ [][ReutersNext]_reutersVars

-----------------------------------------------------------------------------
\* However starts, stops, losses and reconnections interleave, one task reads
\* the feed: an article is never delivered twice by two listeners.
OneListener == Cardinality(listeners) <= 1

\* A connected source is being read, and a lost one is being reconnected, until
\* the attempts are used up or the engine stops it.
ConnectedIsRead == connected /\ ~shutting_down => listeners # {}

\* Documented, and not so: a source that has just been connected is healthy.
\* The time of the last message survives a reconnection and a restart.
FreshIsHealthy ==
    [][connected' /\ ~connected => Healthy']_reutersVars
=============================================================================
