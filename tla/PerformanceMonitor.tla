------------------------- MODULE PerformanceMonitor -------------------------
(***************************************************************************)
(* The strategy performance monitor                                        *)
(* (src/src/strategy/performance_monitor.py): strategies are disabled after*)
(* two bad evaluations, their positions closed or liquidated, re-enabled   *)
(* by a weekly backtest and suspended when that did not last.              *)
(*                                                                         *)
(* Three coroutines share the states of the strategies: the daily          *)
(* evaluation, the weekly one, and callers of                              *)
(* disable_strategy_with_suspension_check().  Each awaits the callbacks    *)
(* (notify, close positions, liquidate, backtest), any of which may raise. *)
(***************************************************************************)
EXTENDS Integers, SequencesExt

CONSTANTS
    AllStrategies,    \* names that may be registered
    SuspensionDays,   \* suspension_days
    MaxEvaluations,   \* bound: evaluations of any strategy
    MaxDay            \* bound: time, in days

ASSUME PerformanceMonitorAssumption ==
    SuspensionDays \in Nat /\ MaxEvaluations \in Nat /\ MaxDay \in Nat

VARIABLES
    strategies,     \* _strategies, in the order of registration
    state,          \* StrategyState by name
    flow,           \* where each coroutine is suspended, and for whom
    evaluations,
    day,
    held,           \* strategies with open positions
    unanswered      \* history: disabled strategies whose positions were neither
                    \* closed nor given to the liquidation, by an exception

monVars == <<strategies, state, flow, evaluations, day, held, unanswered>>

Flows == {"daily", "weekly", "manual"}
NotYet == -1
AtRest == [at |-> "idle", who |-> "", left |-> << >>, size |-> 0]
Fresh == [status |-> "active", low |-> 0, disabled_at |-> NotYet,
          re_enabled_at |-> NotYet]

MonInit ==
    /\ strategies = << >>
    /\ state = [s \in AllStrategies |-> Fresh]
    /\ flow = [f \in Flows |-> AtRest]
    /\ evaluations = 0 /\ day = 0 /\ held = {} /\ unanswered = {}

-----------------------------------------------------------------------------
RegisterStrategy(s) ==
    /\ s \notin ToSet(strategies)
    /\ strategies' = Append(strategies, s)
    /\ UNCHANGED <<state, flow, evaluations, day, held, unanswered>>

\* An active strategy trades.
OpenPosition(s) ==
    /\ s \in ToSet(strategies) /\ state[s].status = "active" /\ s \notin held
    /\ held' = held \cup {s}
    /\ UNCHANGED <<strategies, state, flow, evaluations, day, unanswered>>

-----------------------------------------------------------------------------
\* _disable_strategy, up to its first await
Disabled(s) == [state[s] EXCEPT !.status = "disabled", !.disabled_at = day, !.low = 0]

\* The daily flow iterates over a copy of the names.
BeginDaily ==
    /\ flow["daily"] = AtRest /\ strategies # << >>
    /\ flow' = [flow EXCEPT !["daily"] =
                  [at |-> "evaluate", who |-> "", left |-> strategies, size |-> 0]]
    /\ UNCHANGED <<strategies, state, evaluations, day, held, unanswered>>

\* evaluate_strategy with the metrics of the last thirty days: none without a
\* trade, a Sharpe ratio below the threshold, or a good one.
Evaluate(metrics) ==
    LET f == flow["daily"]
        s == Head(f.left)
        counted == state[s].status = "active" /\ metrics # "none"
        low == IF metrics = "low" THEN state[s].low + 1 ELSE 0
        disables == counted /\ low >= 2
    IN /\ f.at = "evaluate" /\ f.left # << >> /\ evaluations < MaxEvaluations
       /\ evaluations' = evaluations + 1
       /\ state' = [state EXCEPT ![s] =
             IF disables THEN Disabled(s)
             ELSE IF counted THEN [state[s] EXCEPT !.low = low] ELSE state[s]]
       /\ flow' = [flow EXCEPT !["daily"].left = Tail(f.left),
                               !["daily"].at = IF disables THEN "notify" ELSE "evaluate",
                               !["daily"].who = IF disables THEN s ELSE ""]
       /\ UNCHANGED <<strategies, day, held, unanswered>>

EndDaily ==
    /\ flow["daily"].at = "evaluate" /\ flow["daily"].left = << >>
    /\ flow' = [flow EXCEPT !["daily"] = AtRest]
    /\ UNCHANGED <<strategies, state, evaluations, day, held, unanswered>>

\* disable_strategy_with_suspension_check, whatever the status was
ManualDisable(s) ==
    /\ flow["manual"] = AtRest /\ s \in ToSet(strategies)
    /\ state' = [state EXCEPT ![s] = Disabled(s)]
    /\ flow' = [flow EXCEPT !["manual"] = [AtRest EXCEPT !.at = "notify", !.who = s]]
    /\ UNCHANGED <<strategies, evaluations, day, held, unanswered>>

-----------------------------------------------------------------------------
\* Closing the positions, in the daily and in the manual flow

\* What the flow does after the last await of _disable_strategy.
AfterDisable(f) ==
    IF f = "daily" THEN [flow EXCEPT ![f].at = "evaluate", ![f].who = ""]
                   ELSE [flow EXCEPT ![f].at = "suspension"]

\* The notification is delivered; closing starts.
Notified(f) ==
    /\ flow[f].at = "notify"
    /\ flow' = [flow EXCEPT ![f].at = "closing"]
    /\ UNCHANGED <<strategies, state, evaluations, day, held, unanswered>>

\* The callback reports that it closed them.
PositionsClosed(f) ==
    /\ flow[f].at = "closing"
    /\ held' = held \ {flow[f].who}
    /\ flow' = AfterDisable(f)
    /\ UNCHANGED <<strategies, state, evaluations, day, unanswered>>

\* Mutant: a time-out is only logged.
CloseAbandoned(f) ==
    /\ flow[f].at = "closing"
    /\ flow' = AfterDisable(f)
    /\ UNCHANGED <<strategies, state, evaluations, day, held, unanswered>>

\* It reports that it could not, or sixty seconds pass.
CloseFails(f) ==
    /\ flow[f].at = "closing"
    /\ flow' = [flow EXCEPT ![f].at = "liquidate"]
    /\ UNCHANGED <<strategies, state, evaluations, day, held, unanswered>>

\* The liquidation returns; its notification follows.
Liquidated(f) ==
    /\ flow[f].at = "liquidate"
    /\ held' = held \ {flow[f].who}
    /\ flow' = [flow EXCEPT ![f].at = "report"]
    /\ UNCHANGED <<strategies, state, evaluations, day, unanswered>>

Reported(f) ==
    /\ flow[f].at = "report"
    /\ flow' = AfterDisable(f)
    /\ UNCHANGED <<strategies, state, evaluations, day, held, unanswered>>

\* Any of these callbacks raises something other than the time-out: the
\* coroutine ends there, with the rest of its strategies.
CallbackRaises(f) ==
    /\ flow[f].at \in {"notify", "closing", "liquidate", "report"}
    /\ unanswered' = IF flow[f].at = "report" THEN unanswered
                     ELSE unanswered \cup {flow[f].who}
    /\ flow' = [flow EXCEPT ![f] = AtRest]
    /\ UNCHANGED <<strategies, state, evaluations, day, held>>

\* check_suspension, for a strategy that was re-enabled before
CheckSuspension ==
    LET s == flow["manual"].who
        r == state[s].re_enabled_at
    IN /\ flow["manual"].at = "suspension"
       /\ state' = IF r # NotYet /\ state[s].disabled_at - r <= SuspensionDays
                   THEN [state EXCEPT ![s].status = "suspended"] ELSE state
       /\ flow' = [flow EXCEPT !["manual"] = AtRest]
       /\ UNCHANGED <<strategies, evaluations, day, held, unanswered>>

-----------------------------------------------------------------------------
\* weekly_re_evaluate iterates over the dictionary itself, with awaits inside.

BeginWeekly ==
    /\ flow["weekly"] = AtRest /\ strategies # << >>
    /\ flow' = [flow EXCEPT !["weekly"] =
          [at |-> "next", who |-> "", left |-> strategies, size |-> Len(strategies)]]
    /\ UNCHANGED <<strategies, state, evaluations, day, held, unanswered>>

\* The next entry; a dictionary that has grown raises, and the pass is over.
NextDisabled ==
    LET f == flow["weekly"] IN
    /\ f.at = "next"
    /\ flow' = [flow EXCEPT !["weekly"] =
         IF f.left = << >> \/ f.size # Len(strategies) THEN AtRest
         ELSE IF state[Head(f.left)].status = "disabled"
              THEN [f EXCEPT !.at = "backtest", !.who = Head(f.left), !.left = Tail(@)]
              ELSE [f EXCEPT !.left = Tail(@)]]
    /\ UNCHANGED <<strategies, state, evaluations, day, held, unanswered>>

\* The backtest returns; the status is not looked at again.
BacktestDone(good) ==
    LET f == flow["weekly"] IN
    /\ f.at = "backtest"
    /\ state' = IF good
                THEN [state EXCEPT ![f.who].status = "active", ![f.who].low = 0,
                                   ![f.who].re_enabled_at = day]
                ELSE state
    /\ flow' = [flow EXCEPT !["weekly"].at = "next", !["weekly"].who = ""]
    /\ UNCHANGED <<strategies, evaluations, day, held, unanswered>>

BacktestRaises ==
    /\ flow["weekly"].at = "backtest"
    /\ flow' = [flow EXCEPT !["weekly"] = AtRest]
    /\ UNCHANGED <<strategies, state, evaluations, day, held, unanswered>>

NextDay ==
    /\ day < MaxDay
    /\ day' = day + 1
    /\ UNCHANGED <<strategies, state, flow, evaluations, held, unanswered>>

-----------------------------------------------------------------------------
\* A flow that has disabled a strategy goes on to its end: every callback
\* returns or raises, and closing has its time-out.
DisableStep(f) ==
    \/ Notified(f) \/ PositionsClosed(f) \/ CloseFails(f) \/ Liquidated(f)
    \/ Reported(f) \/ CallbackRaises(f)

MonNext ==
    \/ \E s \in AllStrategies : RegisterStrategy(s) \/ OpenPosition(s) \/ ManualDisable(s)
    \/ BeginDaily \/ \E metrics \in {"none", "low", "good"} : Evaluate(metrics)
    \/ EndDaily
    \/ \E f \in {"daily", "manual"} : DisableStep(f)
    \/ CheckSuspension
    \/ BeginWeekly \/ NextDisabled \/ \E good \in BOOLEAN : BacktestDone(good)
    \/ BacktestRaises \/ NextDay

MonFairness == \A f \in {"daily", "manual"} : WF_monVars(DisableStep(f))

MonSpec == MonInit /\ [][MonNext]_monVars /\ MonFairness

-----------------------------------------------------------------------------
\* Positions of a disabled strategy do not stay open: they are closed or
\* liquidated, unless a callback raised or the weekly pass made the strategy
\* active again in the meantime.
DisabledIsFlattened ==
    \A s \in AllStrategies :
        state[s].status = "disabled" /\ s \in held
            ~> s \notin held \/ s \in unanswered \/ state[s].status = "active"

\* Documented, and not so: a suspended strategy is not re-enabled by the weekly
\* pass, which may have seen it disabled before it was suspended.
SuspendedStays ==
    [][\A s \in AllStrategies :
         state[s].status = "suspended" => state'[s].status = "suspended"]_monVars

\* Documented, and not so: a strategy disabled again within SuspensionDays of
\* its re-enabling is suspended.  The daily evaluation never checks it.
RelapseIsSuspended ==
    \A s \in AllStrategies :
        flow["daily"] = AtRest /\ state[s].status = "disabled"
            /\ state[s].re_enabled_at # NotYet
            => state[s].disabled_at - state[s].re_enabled_at > SuspensionDays
=============================================================================
