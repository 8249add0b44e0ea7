------------------------------ MODULE NewsHealth ------------------------------
(***************************************************************************)
(* The life cycle and the health monitoring of the news engine             *)
(* (src/src/news/news_engine.py): connecting the sources, polling them,    *)
(* failover, and the degraded mode that raises the confidence threshold    *)
(* while no source is healthy.                                             *)
(*                                                                         *)
(* A source is either reachable or not when it is asked; what asking does  *)
(* inside each source is in ReutersFeed, BloombergFeed and TwitterFeed.    *)
(***************************************************************************)
EXTENDS Integers, FiniteSets, SequencesExt

CONSTANTS
    NewsSources,        \* names, in the order of _sources
    FailoverAfter,      \* NEWS_SOURCE_UNAVAILABLE_THRESHOLD_SECONDS, in polls
    MaxSwings,          \* bound: times a source becomes reachable or unreachable
    MaxLives            \* bound: starts of the engine

ASSUME HealthAssumption ==
    /\ NewsSources \in Seq(STRING) /\ NewsSources # << >>
    /\ {FailoverAfter, MaxSwings, MaxLives} \subseteq Nat

VARIABLES
    probing,        \* _running
    engine_at,      \* where start() or the health loop is suspended: at a source,
                    \* at the publication of an event, or asleep between polls
    reachable,      \* sources whose service answers now
    attached,       \* sources that connected and have not given up since
    healthy,        \* sources whose status is_healthy
    failed_for,     \* polls since failed_since, or Up
    failover,       \* sources whose failover was logged
    callbacks,      \* callbacks each source holds
    news_degraded,       \* _degraded_mode
    consumers,      \* the mode the last event that went out announced
    swings, lives

healthVars == <<probing, engine_at, reachable, attached, healthy, failed_for, failover, callbacks,
                news_degraded, consumers, swings, lives>>

Up == -1
Names == ToSet(NewsSources)
Off == [step |-> "off", i |-> 0]

HealthInit ==
    /\ probing = FALSE /\ engine_at = Off
    /\ reachable \in SUBSET Names /\ attached = {}
    /\ healthy = {} /\ failed_for = [s \in Names |-> Up] /\ failover = {}
    /\ callbacks = [s \in Names |-> 0]
    /\ news_degraded = FALSE /\ consumers = "normal" /\ swings = 0 /\ lives = 0

\* mark_healthy, and mark_unhealthy with the failover warning
MarkHealthy(s) ==
    /\ healthy' = healthy \cup {s}
    /\ failed_for' = [failed_for EXCEPT ![s] = Up]
    /\ failover' = failover \ {s}

MarkUnhealthy(s) ==
    /\ healthy' = healthy \ {s}
    /\ failed_for' = [failed_for EXCEPT ![s] = IF @ = Up THEN 0 ELSE @]

\* Where the engine goes on: a health loop created after a stop() ends at once.
Rest == IF probing THEN [step |-> "asleep", i |-> 0] ELSE Off

\* _evaluate_degraded_mode, with the sources found healthy: the flag changes
\* before the event is published, by start() or by the loop.
EvaluateDegradedMode(up, publication) ==
    IF (up = {}) = news_degraded
    THEN engine_at' = Rest /\ UNCHANGED news_degraded
    ELSE /\ engine_at' = [step |-> publication, i |-> 0]
         /\ news_degraded' = (up = {})

-----------------------------------------------------------------------------
\* start(); it is not called again before it returned.
Start ==
    /\ ~probing /\ engine_at = Off /\ lives < MaxLives
    /\ probing' = TRUE /\ lives' = lives + 1
    /\ engine_at' = [step |-> "connect", i |-> 1]
    /\ UNCHANGED <<reachable, attached, healthy, failed_for, failover, callbacks, news_degraded,
                   consumers, swings>>

\* The next source connects, or does not; after the last one the health loop
\* is created and the mode evaluated. A source that did not connect never gets
\* its callback.
ConnectSource ==
    LET s == NewsSources[engine_at.i]
        up == IF s \in reachable THEN healthy \cup {s} ELSE healthy \ {s}
    IN /\ engine_at.step = "connect"
       /\ IF s \in reachable
          THEN /\ MarkHealthy(s) /\ attached' = attached \cup {s}
               /\ callbacks' = [callbacks EXCEPT ![s] = @ + 1]
          ELSE MarkUnhealthy(s) /\ UNCHANGED <<attached, failover, callbacks>>
       /\ IF engine_at.i < Len(NewsSources)
          THEN engine_at' = [engine_at EXCEPT !.i = @ + 1] /\ UNCHANGED news_degraded
          ELSE EvaluateDegradedMode(up, "announce")
       /\ UNCHANGED <<probing, reachable, consumers, swings, lives>>

\* The loop wakes up; time has passed for the sources that are down.
Poll ==
    /\ engine_at.step = "asleep"
    /\ engine_at' = [step |-> "check", i |-> 1]
    /\ failed_for' = [s \in Names |->
          IF failed_for[s] \in 0..(FailoverAfter - 1) THEN failed_for[s] + 1 ELSE failed_for[s]]
    /\ UNCHANGED <<probing, reachable, attached, healthy, failover, callbacks, news_degraded, consumers,
                   swings, lives>>

\* Mutant: an exception of a source ends the loop.
CheckSourceOrDie ==
    /\ engine_at.step = "check"
    /\ engine_at' = [step |-> "dead", i |-> 0]
    /\ UNCHANGED <<probing, reachable, attached, healthy, failed_for, failover, callbacks, news_degraded,
                   consumers, swings, lives>>

\* health_check() of the next source: true, or false or an exception.
CheckSource ==
    LET s == NewsSources[engine_at.i]
        up == IF s \in reachable \cap attached THEN healthy \cup {s} ELSE healthy \ {s}
    IN /\ engine_at.step = "check"
       /\ IF s \in reachable \cap attached THEN MarkHealthy(s)
          ELSE /\ MarkUnhealthy(s)
               /\ failover' = IF failed_for[s] >= FailoverAfter THEN failover \cup {s}
                              ELSE failover
       /\ IF engine_at.i < Len(NewsSources)
          THEN engine_at' = [engine_at EXCEPT !.i = @ + 1] /\ UNCHANGED news_degraded
          ELSE EvaluateDegradedMode(up, "publish")
       /\ UNCHANGED <<probing, reachable, attached, callbacks, consumers, swings, lives>>

\* The event goes out, or the failure is logged.
PublishMode(works) ==
    /\ engine_at.step \in {"announce", "publish"}
    /\ consumers' = IF ~works THEN consumers ELSE IF news_degraded THEN "down" ELSE "normal"
    /\ engine_at' = Rest
    /\ UNCHANGED <<probing, reachable, attached, healthy, failed_for, failover, callbacks, news_degraded,
                   swings, lives>>

\* stop(): the health loop is cancelled wherever it is; the mode is not reset. A
\* start() that is still connecting, or publishing, goes on.
Stop ==
    /\ probing /\ probing' = FALSE
    /\ engine_at' = IF engine_at.step \in {"connect", "announce"} THEN engine_at ELSE Off
    /\ healthy' = {} /\ attached' = {}
    /\ UNCHANGED <<reachable, failed_for, failover, callbacks, news_degraded, consumers, swings,
                   lives>>

Swing(s) ==
    /\ swings < MaxSwings
    /\ swings' = swings + 1
    /\ reachable' = IF s \in reachable THEN reachable \ {s} ELSE reachable \cup {s}
    /\ UNCHANGED <<probing, engine_at, attached, healthy, failed_for, failover, callbacks, news_degraded,
                   consumers, lives>>

\* A source that lost its service uses up its attempts to reconnect.
GiveUp(s) ==
    /\ s \in attached \ reachable
    /\ attached' = attached \ {s}
    /\ UNCHANGED <<probing, engine_at, reachable, healthy, failed_for, failover, callbacks,
                   news_degraded, consumers, swings, lives>>

ProbeStep == ConnectSource \/ Poll \/ CheckSource \/ \E works \in BOOLEAN : PublishMode(works)

HealthNext == Start \/ Stop \/ ProbeStep \/ \E s \in Names : Swing(s) \/ GiveUp(s)

\* The loop sleeps a minute and every call it makes returns or raises.
HealthFairness == WF_healthVars(ProbeStep)

HealthSpec == HealthInit /\ [][HealthNext]_healthVars /\ HealthFairness

-----------------------------------------------------------------------------
\* The mode follows the sources: an engine that keeps probing with a source that
\* answers leaves the degraded mode for good, one with none enters it.
ModeFollowsSources ==
    /\ <>[](probing /\ reachable \cap attached # {}) => <>[](~news_degraded)
    /\ <>[](probing /\ reachable \cap attached = {}) => <>[]news_degraded

\* Documented, and not so: the mode is left when a source can be reached again.
\* The engine connects its sources only when it starts.
ModeFollowsServices == <>[](probing /\ reachable # {}) => <>[](~news_degraded)

\* Documented, and not so: the consumers of the events know the mode. An event
\* whose publication fails or is cancelled by stop() is not sent again.
ConsumersAgree ==
    engine_at.step = "asleep" => (consumers = "down" <=> news_degraded)

\* Documented, and not so: each article of a healthy source is handed over once.
\* Every start of the engine registers its callback again.
OneCallback == \A s \in Names : callbacks[s] <= 1
=============================================================================
