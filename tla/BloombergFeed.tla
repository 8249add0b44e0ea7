---------------------------- MODULE BloombergFeed ----------------------------
(***************************************************************************)
(* The Bloomberg source (src/src/news/sources/bloomberg.py): a listener, a *)
(* heartbeat task that tears the feed down when a ping fails, a            *)
(* reconnection task that builds it up again, and connect() and            *)
(* disconnect() called by the news engine.                                 *)
(*                                                                         *)
(* The ping and the authentication are simulated in the code; whether they *)
(* succeed is the environment's choice.                                    *)
(***************************************************************************)
EXTENDS Integers, FiniteSets

CONSTANTS
    Topics,                 \* what callers may subscribe to
    DefaultTopics,          \* _subscribe_default_topics
    BloombergAttempts,      \* MAX_RECONNECT_ATTEMPTS
    MaxFeeds                \* bound: times the tasks of the feed are created

ASSUME BloombergAssumption ==
    DefaultTopics \subseteq Topics /\ BloombergAttempts \in Nat /\ MaxFeeds \in Nat

VARIABLES
    state,          \* _state
    linked,         \* _connected
    authenticated,  \* _authenticated
    topics,         \* _bpipe_topics
    caller,         \* where the engine's connect() or disconnect() is suspended
    listener,       \* listener tasks that have not ended
    heartbeat,      \* heartbeat tasks that have not ended, and where they are
    tracked,        \* the number of the tasks _listener_task and _heartbeat_task
                    \* refer to, 0 for None
    backoff,        \* reconnection task: "none", "sleep", "authenticate"
    attempts,       \* _reconnect_attempts
    feeds,          \* pairs of tasks created so far
    wanted,         \* history: topics asked for since the last disconnect
    left_behind     \* history: a disconnect() met a teardown, whose reconnection
                    \* outlived it

bloombergVars == <<state, linked, authenticated, topics, caller, listener, heartbeat,
                   tracked, backoff, attempts, feeds, wanted, left_behind>>

NoTask == 0

BloombergInit ==
    /\ state = "DISCONNECTED" /\ linked = FALSE /\ authenticated = FALSE
    /\ topics = {} /\ caller = "idle" /\ wanted = {}
    /\ listener = {} /\ heartbeat = << >> /\ tracked = [listener |-> NoTask, heartbeat |-> NoTask]
    /\ backoff = "none" /\ attempts = 0 /\ feeds = 0
    /\ left_behind = FALSE

\* The heartbeat and the listener task of a feed that is up.
StartTasks ==
    /\ feeds < MaxFeeds
    /\ feeds' = feeds + 1
    /\ listener' = listener \cup {feeds + 1}
    /\ heartbeat' = [h \in DOMAIN heartbeat \cup {feeds + 1} |->
                        IF h = feeds + 1 THEN "sleep" ELSE heartbeat[h]]
    /\ tracked' = [listener |-> feeds + 1, heartbeat |-> feeds + 1]

Ended(h) == [k \in DOMAIN heartbeat \ {h} |-> heartbeat[k]]

-----------------------------------------------------------------------------
\* connect() of a source that is not connected; it awaits the authentication.
BeginConnect ==
    /\ caller = "idle" /\ ~linked
    /\ caller' = "authenticating" /\ state' = "AUTHENTICATING"
    /\ UNCHANGED <<linked, authenticated, topics, listener, heartbeat, tracked, backoff,
                   attempts, feeds, wanted, left_behind>>

\* A source that is connected already is left as it is.
SkipConnect ==
    /\ caller = "idle" /\ linked
    /\ caller' = "running"
    /\ wanted' = wanted \cup DefaultTopics
    /\ UNCHANGED <<state, linked, authenticated, topics, listener, heartbeat, tracked,
                   backoff, attempts, feeds, left_behind>>

Authenticated ==
    /\ caller = "authenticating"
    /\ caller' = "running" /\ state' = "STREAMING"
    /\ linked' = TRUE /\ authenticated' = TRUE /\ attempts' = 0
    /\ topics' = topics \cup DefaultTopics
    /\ wanted' = wanted \cup DefaultTopics
    /\ StartTasks
    /\ UNCHANGED <<backoff, left_behind>>

AuthenticationFails ==
    /\ caller = "authenticating"
    /\ caller' = "running" /\ state' = "ERROR"
    /\ linked' = FALSE /\ authenticated' = FALSE
    /\ UNCHANGED <<topics, listener, heartbeat, tracked, backoff, attempts,
                   feeds, wanted, left_behind>>

Subscribe(t) ==
    /\ caller = "running" /\ linked /\ t \notin topics
    /\ topics' = topics \cup {t}
    /\ wanted' = wanted \cup {t}
    /\ UNCHANGED <<state, linked, authenticated, caller, listener, heartbeat, tracked,
                   backoff, attempts, feeds, left_behind>>

UnsubscribeTopic(t) ==
    /\ caller = "running" /\ t \in topics
    /\ topics' = topics \ {t}
    /\ wanted' = wanted \ {t}
    /\ UNCHANGED <<state, linked, authenticated, caller, listener, heartbeat, tracked,
                   backoff, attempts, feeds, left_behind>>

-----------------------------------------------------------------------------
\* disconnect() cancels and awaits the reconnection if there is one, then the
\* heartbeat, then the listener.
CancelBackoff ==
    /\ caller = "running" /\ backoff # "none"
    /\ caller' = "heartbeat"
    /\ backoff' = "none"
    /\ UNCHANGED <<state, linked, authenticated, topics, listener, heartbeat, tracked,
                   attempts, feeds, wanted, left_behind>>

\* Cancelled in its sleep, the heartbeat ends. Cancelled while it tears the
\* feed down it swallows the cancellation, and starts the reconnection.
CancelHeartbeat ==
    LET h == tracked.heartbeat
        teardown == h \in DOMAIN heartbeat /\ heartbeat[h] = "teardown"
    IN /\ caller = "heartbeat" \/ (caller = "running" /\ backoff = "none")
       /\ caller' = "listener"
       /\ heartbeat' = Ended(h)
       /\ tracked' = [tracked EXCEPT !.heartbeat = NoTask,
                                     !.listener = IF teardown THEN NoTask ELSE @]
       /\ listener' = IF teardown THEN listener \ {tracked.listener} ELSE listener
       /\ backoff' = IF teardown THEN "sleep" ELSE backoff
       /\ left_behind' = (left_behind \/ teardown)
       /\ UNCHANGED <<state, linked, authenticated, topics, attempts, feeds, wanted>>

CloseBloomberg ==
    /\ caller = "listener"
    /\ caller' = "idle"
    /\ listener' = listener \ {tracked.listener}
    /\ tracked' = [tracked EXCEPT !.listener = NoTask]
    /\ state' = "DISCONNECTED" /\ linked' = FALSE /\ authenticated' = FALSE
    /\ topics' = {} /\ wanted' = {} /\ attempts' = 0
    /\ UNCHANGED <<heartbeat, backoff, feeds, left_behind>>

-----------------------------------------------------------------------------
\* _heartbeat_loop of task h, after its sleep: it ends when the feed is down
\* or being reconnected.
HeartbeatStops(h) ==
    /\ h \in DOMAIN heartbeat /\ heartbeat[h] = "sleep"
    /\ ~linked \/ state = "RECONNECTING"
    /\ heartbeat' = Ended(h)
    /\ UNCHANGED <<state, linked, authenticated, topics, caller, listener, tracked,
                   backoff, attempts, feeds, wanted, left_behind>>

\* No answer: _initiate_reconnection cancels the listener and awaits its end.
HeartbeatFails(h) ==
    /\ h \in DOMAIN heartbeat /\ heartbeat[h] = "sleep" /\ linked
    /\ state # "RECONNECTING"
    /\ state' = "RECONNECTING" /\ linked' = FALSE
    /\ heartbeat' = [heartbeat EXCEPT ![h] = "teardown"]
    /\ UNCHANGED <<authenticated, topics, caller, listener, tracked, backoff,
                   attempts, feeds, wanted, left_behind>>

\* The listener has ended; the task cancels and awaits itself, which is
\* swallowed as well, starts the reconnection and leaves its loop.
TearDown(h) ==
    /\ h \in DOMAIN heartbeat /\ heartbeat[h] = "teardown"
    /\ listener' = listener \ {tracked.listener}
    /\ heartbeat' = [k \in DOMAIN heartbeat \ {h, tracked.heartbeat} |-> heartbeat[k]]
    /\ tracked' = [listener |-> NoTask, heartbeat |-> NoTask]
    /\ backoff' = "sleep"
    /\ UNCHANGED <<state, linked, authenticated, topics, caller, attempts, feeds, wanted,
                   left_behind>>

\* _stream_listener leaves its loop once the feed is down.
ListenerStops(t) ==
    /\ t \in listener /\ ~linked
    /\ listener' = listener \ {t}
    /\ UNCHANGED <<state, linked, authenticated, topics, caller, heartbeat, tracked,
                   backoff, attempts, feeds, wanted, left_behind>>

-----------------------------------------------------------------------------
\* _reconnect_loop: the next attempt, and after the last one the end.
BeginAttempt ==
    /\ backoff = "sleep"
    /\ IF attempts < BloombergAttempts
       THEN /\ attempts' = attempts + 1 /\ backoff' = "authenticate"
            /\ UNCHANGED <<state, authenticated>>
       ELSE /\ backoff' = "none" /\ state' = "ERROR" /\ authenticated' = FALSE
            /\ UNCHANGED attempts
    /\ UNCHANGED <<linked, topics, caller, listener, heartbeat, tracked,
                   feeds, wanted, left_behind>>

\* Mutant: the topics are cleared before they are saved.
ResumeWithoutTopics ==
    /\ backoff = "authenticate"
    /\ backoff' = "none" /\ attempts' = 0
    /\ linked' = TRUE /\ authenticated' = TRUE /\ state' = "STREAMING"
    /\ topics' = {}
    /\ StartTasks
    /\ UNCHANGED <<caller, wanted, left_behind>>

\* The topics that were subscribed are subscribed again.
Resume ==
    /\ backoff = "authenticate"
    /\ backoff' = "none" /\ attempts' = 0
    /\ linked' = TRUE /\ authenticated' = TRUE /\ state' = "STREAMING"
    /\ StartTasks
    /\ UNCHANGED <<topics, caller, wanted, left_behind>>

ResumeFails ==
    /\ backoff = "authenticate"
    /\ backoff' = "sleep"
    /\ UNCHANGED <<state, linked, authenticated, topics, caller, listener, heartbeat,
                   tracked, attempts, feeds, wanted, left_behind>>

\* health_check(), with a heartbeat that is recent as long as the task runs
BloombergHealthy ==
    linked /\ authenticated /\ state \in {"CONNECTED", "STREAMING"}

BloombergNext ==
    \/ BeginConnect \/ SkipConnect \/ Authenticated \/ AuthenticationFails
    \/ \E t \in Topics : Subscribe(t) \/ UnsubscribeTopic(t)
    \/ CancelBackoff \/ CancelHeartbeat \/ CloseBloomberg
    \/ \E h \in 1..MaxFeeds : HeartbeatStops(h) \/ HeartbeatFails(h) \/ TearDown(h)
                              \/ ListenerStops(h)
    \/ BeginAttempt \/ Resume \/ ResumeFails

BloombergSpec == BloombergInit /\ [][BloombergNext]_bloombergVars

-----------------------------------------------------------------------------
\* A feed that reports healthy between the engine's calls is read by a listener,
\* watched by a heartbeat that notices its loss, and subscribed to every topic
\* that was asked for, before and after reconnections.
HealthyIsWhole ==
    BloombergHealthy /\ caller = "running" /\ ~left_behind =>
        listener # {} /\ DOMAIN heartbeat # {} /\ topics = wanted

\* Documented, and not so: after disconnect() no task brings the feed up again.
\* A disconnect that meets the teardown leaves the reconnection behind.
DisconnectIsFinal ==
    caller = "idle" => ~linked /\ backoff = "none" /\ listener = {}

\* Documented, and not so for the same reason: a feed that is up is subscribed
\* to what was asked for.
TopicsSurvive == linked /\ caller = "running" => topics = wanted
=============================================================================
