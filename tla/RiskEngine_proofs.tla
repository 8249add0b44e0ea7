-------------------------- MODULE RiskEngine_proofs --------------------------
(***************************************************************************)
(* The engine uses the kill switch as its module allows, so the theorems   *)
(* about the switch hold of the composition; and an approved signal is     *)
(* within the limits of the drawdown monitor, for every instrument, signal,*)
(* equity, threshold and length of the day.                                *)
(***************************************************************************)
EXTENDS RiskEngine, KillSwitch_proofs

\* Every step of the composition is a step of the switch, or leaves it alone:
\* a trip is the activate() call of a drawdown reading past its threshold.
LEMMA SwitchStep == [RiskNext]_allVars => [Next]_vars
<1> SUFFICES ASSUME [RiskNext]_allVars PROVE [Next]_vars
  OBVIOUS
<1>1. ASSUME NEW t \in Tasks, SignalTrips(t) PROVE Next
  <2>1. PICK r \in Readings["drawdown"] : Breaches("drawdown", r)
    BY RiskEngineAssumption
  <2>2. "drawdown" \in Sources
    BY DEF Sources
  <2> QED
    BY <1>1, <2>1, <2>2 DEF SignalTrips, Next, Evaluate
<1>2. CASE SwitchSteps
  BY <1>2 DEF SwitchSteps, Next
<1>3. CASE ClockTick
  BY <1>3 DEF ClockTick, Next
<1>4. ASSUME NEW s \in Signals, SignalApproved(s) \/ SignalRejected(s)
      PROVE  UNCHANGED vars
  BY <1>4 DEF SignalApproved, SignalRejected
<1>5. ASSUME NEW e, NEW p, OrderReturns(e) \/ TradeCloses(e, p)
      PROVE  UNCHANGED vars
  BY <1>5 DEF OrderReturns, TradeCloses
<1>6. ASSUME RefreshPositions \/ RefreshEquity \/ ResetDaily
             \/ \E r \in Regions : UpdateGeoRisk(r)
      PROVE  UNCHANGED vars
  BY <1>6 DEF RefreshPositions, RefreshEquity, ResetDaily, UpdateGeoRisk
<1>7. CASE UNCHANGED allVars
  BY <1>7 DEF allVars
<1> QED
  BY <1>1, <1>2, <1>3, <1>4, <1>5, <1>6, <1>7 DEF RiskNext

\* The composition implements the kill switch's specification.
THEOREM RiskEngineUsesSwitch == RiskSpec => Spec
<1>1. RiskInit => Init
  BY DEF RiskInit
<1> QED
  BY <1>1, SwitchStep, PTL DEF RiskSpec, Spec

\* However validate_signal(), the triggers, slow publications and the operator
\* interleave, an active switch is not ended before its minimum duration, one
\* activation is processed per episode, and subscribers see them in order.
THEOREM SwitchGuaranteesHold ==
    RiskSpec => MinActiveHeld /\ []TrailAgrees
BY RiskEngineUsesSwitch, DeactivationWaits, TrailAgreesAlways, PTL

-----------------------------------------------------------------------------
(* The drawdown monitor.                                                   *)

RiskTypes ==
    /\ equity \in Int /\ peak_equity \in Int /\ top \in Int
    /\ daily_loss \in Nat /\ lost \in Nat /\ current_day \in Int
    /\ daily_start \in Int /\ now \in Nat

\* The monitor's peak is the highest equity it was shown, and its day, which
\* starts lazily, has missed no loss: while the monitor is still in an earlier
\* day, nothing has been lost today.
MonitorInv ==
    /\ RiskTypes
    /\ peak_equity = top /\ top > 0
    /\ current_day <= Day(now)
    /\ current_day = Day(now) => daily_loss = lost
    /\ current_day < Day(now) => lost = 0

\* A day does not start before the last one ended.
LEMMA DayTypes ==
    ASSUME NEW t \in Nat
    PROVE  Day(t) \in Int /\ Day(t + 1) \in Int /\ Day(t) <= Day(t + 1)
<1>1. DayLength \in Nat \ {0}
  BY RiskEngineAssumption
<1> QED
  BY <1>1 DEF Day

\* The larger of two equities.
LEMMA MaxOfTwo ==
    ASSUME NEW a \in Int, NEW b \in Int
    PROVE  Max({a, b}) = IF b > a THEN b ELSE a
<1>1. \E x \in {a, b} : \A y \in {a, b} : x >= y
  OBVIOUS
<1>2. Max({a, b}) \in {a, b} /\ \A y \in {a, b} : Max({a, b}) >= y
  BY <1>1 DEF Max
<1> QED
  BY <1>2

\* Asking the monitor starts its day if needed and records the equity.
LEMMA AskedKeepsInv ==
    ASSUME MonitorInv, MonitorAsked, UNCHANGED <<now, equity, lost>>
    PROVE  MonitorInv'
<1>1. top' = IF equity > top THEN equity ELSE top
  BY MaxOfTwo DEF MonitorInv, RiskTypes, MonitorAsked
<1>2. Day(now) \in Int /\ Day(now)' = Day(now)
  BY DayTypes DEF MonitorInv, RiskTypes, Day
<1>3. peak_equity' = top' /\ top' > 0 /\ top' \in Int
  BY <1>1 DEF MonitorInv, RiskTypes, MonitorAsked, NewPeak
<1>4. CASE Day(now) > current_day
  BY <1>2, <1>3, <1>4
     DEF MonitorInv, RiskTypes, MonitorAsked, ResetDailyIfNeeded
<1>5. CASE ~(Day(now) > current_day)
  BY <1>2, <1>3, <1>5
     DEF MonitorInv, RiskTypes, MonitorAsked, ResetDailyIfNeeded
<1> QED
  BY <1>4, <1>5

\* A closed trade is counted in the day it closes in.
LEMMA CloseKeepsInv ==
    ASSUME MonitorInv, NEW e \in Instruments, NEW p \in Pnls, TradeCloses(e, p)
    PROVE  MonitorInv'
<1>1. p \in Int
  BY RiskEngineAssumption
<1>2. Day(now) \in Int /\ Day(now)' = Day(now) /\ now' = now
  BY DayTypes DEF MonitorInv, RiskTypes, TradeCloses, vars, Day
<1>3. CASE Day(now) > current_day
  BY <1>1, <1>2, <1>3 DEF MonitorInv, RiskTypes, TradeCloses, ResetDailyIfNeeded
<1>4. CASE ~(Day(now) > current_day)
  BY <1>1, <1>2, <1>4 DEF MonitorInv, RiskTypes, TradeCloses, ResetDailyIfNeeded
<1> QED
  BY <1>3, <1>4

\* The switch's own steps leave the clock alone.
LEMMA SwitchKeepsClock == SwitchSteps => now' = now
BY DEF SwitchSteps, Evaluate, Activate, Acquire, PublishReturns, Deactivate

\* Every step of the engine and of the switch keeps the invariant of the monitors.
LEMMA MonitorStep == MonitorInv /\ [RiskNext]_allVars => MonitorInv'
<1> SUFFICES ASSUME MonitorInv, [RiskNext]_allVars PROVE MonitorInv'
  OBVIOUS
<1>1. ASSUME NEW t \in Tasks, SignalTrips(t) PROVE MonitorInv'
  BY <1>1, AskedKeepsInv DEF SignalTrips, Activate, desk
<1>2. ASSUME NEW s \in Signals, SignalApproved(s) \/ SignalRejected(s)
      PROVE  MonitorInv'
  BY <1>2, AskedKeepsInv DEF SignalApproved, SignalRejected, desk, vars
<1>3. ASSUME NEW e \in Instruments, NEW p \in Pnls, TradeCloses(e, p)
      PROVE  MonitorInv'
  BY <1>3, CloseKeepsInv
<1>4. ASSUME ClockTick PROVE MonitorInv'
  <2>1. /\ Day(now) \in Int /\ Day(now + 1) \in Int
        /\ Day(now) <= Day(now + 1) /\ Day(now)' = Day(now + 1)
        /\ now' = now + 1
    BY <1>4, DayTypes DEF ClockTick, Tick, MonitorInv, RiskTypes, Day
  <2> QED
    BY <1>4, <2>1 DEF ClockTick, monitor, desk, MonitorInv, RiskTypes
<1>5. ASSUME ResetDaily PROVE MonitorInv'
  <2>1. Day(now) \in Int /\ Day(now)' = Day(now) /\ now' = now
    BY <1>5, DayTypes DEF ResetDaily, vars, MonitorInv, RiskTypes, Day
  <2> QED
    BY <1>5, <2>1 DEF ResetDaily, desk, MonitorInv, RiskTypes
<1>6. ASSUME UNCHANGED <<monitor, top, lost, now>>, equity' \in Int
      PROVE  MonitorInv'
  BY <1>6 DEF monitor, MonitorInv, RiskTypes, Day
<1>7. ASSUME SwitchSteps PROVE MonitorInv'
  BY <1>6, <1>7, SwitchKeepsClock
     DEF SwitchSteps, riskVars, desk, MonitorInv, RiskTypes
<1>8. ASSUME NEW e, OrderReturns(e) PROVE MonitorInv'
  BY <1>6, <1>8 DEF OrderReturns, vars, MonitorInv, RiskTypes
<1>9. ASSUME RefreshPositions \/ \E r \in Regions : UpdateGeoRisk(r)
      PROVE  MonitorInv'
  BY <1>6, <1>9 DEF RefreshPositions, UpdateGeoRisk, vars, MonitorInv, RiskTypes
<1>10. ASSUME RefreshEquity PROVE MonitorInv'
  BY <1>6, <1>10, RiskEngineAssumption DEF RefreshEquity, vars
<1>11. CASE UNCHANGED allVars
  BY <1>6, <1>11 DEF allVars, vars, riskVars, desk, MonitorInv, RiskTypes
<1> QED
  BY <1>1, <1>2, <1>3, <1>4, <1>5, <1>7, <1>8, <1>9, <1>10, <1>11 DEF RiskNext

\* The step that approves a signal, seen from the history.
LEMMA ApprovalStep ==
    ASSUME MonitorInv, NEW s \in Signals, SignalApproved(s)
    PROVE  /\ ~is_active
           /\ top' > equity => 100 * (top' - equity) < KillAt * top'
           /\ 100 * lost < DailyMaxLoss * daily_start
<1>1. top' = NewPeak /\ top' \in Int /\ top' > 0
  <2>1. top' = IF equity > top THEN equity ELSE top
    BY MaxOfTwo DEF MonitorInv, RiskTypes, SignalApproved, MonitorAsked
  <2> QED
    BY <2>1 DEF MonitorInv, RiskTypes, NewPeak
<1>2. /\ ~DrawnDown(NewPeak, KillAt)
      /\ ~LimitReached(ResetDailyIfNeeded.loss)
  BY DEF SignalApproved, SignalAllowed, CheckTradeAllowed
<1>3. ResetDailyIfNeeded.loss = lost
  <2>1. Day(now) \in Int
    BY DayTypes DEF MonitorInv, RiskTypes
  <2>2. CASE Day(now) > current_day
    BY <2>1, <2>2 DEF MonitorInv, RiskTypes, ResetDailyIfNeeded
  <2>3. CASE Day(now) = current_day
    BY <2>1, <2>3 DEF MonitorInv, RiskTypes, ResetDailyIfNeeded
  <2> QED
    BY <2>1, <2>2, <2>3 DEF MonitorInv, RiskTypes
<1>4. KillAt \in Nat /\ DailyMaxLoss \in Nat /\ equity \in Int
      /\ daily_start \in Int /\ lost \in Nat
  BY RiskEngineAssumption DEF MonitorInv, RiskTypes
<1>5. top' > equity => 100 * (top' - equity) < KillAt * top'
  BY <1>1, <1>2, <1>4 DEF DrawnDown
<1>6. 100 * lost < DailyMaxLoss * daily_start
  BY <1>2, <1>3, <1>4 DEF LimitReached
<1> QED
  BY <1>5, <1>6 DEF SignalApproved

\* For every account and every threshold: no signal is approved with the kill
\* switch on, past the kill drawdown of the highest equity the monitor saw, or
\* after the losses of the day have reached their limit.
THEOREM ApprovalsRespectLimits == RiskSpec => ApprovedWithinLimits
<1>1. RiskInit => MonitorInv
  BY RiskEngineAssumption DEF RiskInit, Init, MonitorInv, RiskTypes, Day
<1>2. MonitorInv /\ [RiskNext]_allVars =>
        [approved' \subseteq approved \/
           /\ ~is_active
           /\ top' > equity => 100 * (top' - equity) < KillAt * top'
           /\ 100 * lost < DailyMaxLoss * daily_start]_allVars
  <2> SUFFICES ASSUME MonitorInv, RiskNext, ~(approved' \subseteq approved)
               PROVE  /\ ~is_active
                      /\ top' > equity => 100 * (top' - equity) < KillAt * top'
                      /\ 100 * lost < DailyMaxLoss * daily_start
    OBVIOUS
  <2>1. PICK s \in Signals : SignalApproved(s)
    BY DEF RiskNext, SwitchSteps, ClockTick, SignalTrips, SignalRejected,
           OrderReturns, TradeCloses, RefreshPositions, RefreshEquity,
           ResetDaily, UpdateGeoRisk, riskVars, desk
  <2> QED
    BY <2>1, ApprovalStep
<1> QED
  BY <1>1, <1>2, MonitorStep, PTL DEF RiskSpec, ApprovedWithinLimits
=============================================================================
