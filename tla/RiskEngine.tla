----------------------------- MODULE RiskEngine -----------------------------
(***************************************************************************)
(* The risk engine (src/src/risk/risk_engine.py) with the drawdown monitor,*)
(* the exposure manager, the position sizer and the stop manager it asks,  *)
(* composed with the kill switch.                                          *)
(*                                                                         *)
(* validate_signal() has no await between its first test and its verdict   *)
(* except the publication of an event and KillSwitch.activate(), which come*)
(* last: every verdict is one step.  Money is counted in whole units and   *)
(* compared in percent; sizes are counted in hundredths of a lot.          *)
(***************************************************************************)
EXTENDS KillSwitch, FiniteSetsExt

CONSTANTS
    Signals,        \* TradeSignal: see Signal below
    Notional,       \* Notional[e]: notional value of a position on instrument e
    AssetClass,     \* AssetClass[e]
    Region,         \* Region[e]
    Atr,            \* Atr[e]: volatility of instrument e in the crisis payload
    Equities,       \* equities the broker may report
    Pnls,           \* results a closed trade may have
    AssumedEquity,  \* initial_equity of the monitor, before the broker is asked
    DailyMaxLoss,   \* daily_max_loss_pct
    ReduceAt,       \* drawdown_reduction_pct
    KillAt,         \* kill_switch_pct
    MaxPerClass,    \* max_per_class, in percent
    MaxTotal,       \* max_total, in percent
    DayLength,      \* ticks of the clock in a UTC day
    MaxTrades       \* bound: closed trades explored

Instruments == DOMAIN Notional
Regions == {Region[e] : e \in Instruments}

\* What the verdict depends on: the distances of stop and target, the ATR the
\* size is computed from, whether its z-score is above 2.0, and risk_pct, with
\* 0 for none given.
Signal == [instrument : Instruments, risk : Nat, reward : Nat, atr : Nat,
           spike : BOOLEAN, risk_pct : Nat]

ASSUME RiskEngineAssumption ==
    /\ Signals \subseteq Signal
    /\ Notional \in [Instruments -> Nat]
    /\ Atr \in [Instruments -> Nat]
    /\ Equities \subseteq Int /\ Pnls \subseteq Int
    /\ AssumedEquity \in Nat \ {0}
    /\ DailyMaxLoss \in Nat /\ ReduceAt \in Nat /\ KillAt \in Nat
    /\ MaxPerClass \in Nat /\ MaxTotal \in Nat /\ MaxTrades \in Nat
    /\ DayLength \in Nat \ {0}
    /\ \E r \in Readings["drawdown"] : Breaches("drawdown", r)

VARIABLES
    equity,         \* _account_equity of the caller
    peak_equity,    \* DrawdownMonitor.peak_equity
    daily_loss,     \* DrawdownMonitor._daily_realized_loss
    daily_start,    \* DrawdownMonitor._daily_start_equity
    current_day,    \* DrawdownMonitor._current_day
    limit_hit,      \* DrawdownMonitor._daily_loss_limit_hit
    geo_high,       \* regions whose geopolitical risk score is above 70
    book,           \* instruments with an open position
    seen,           \* current_positions: the book as the caller last read it
    approved,       \* instruments with an approved signal not yet placed
    trades,         \* bound: trades closed
    top,            \* history: the highest equity the monitor was shown
    lost            \* history: losses of the trades closed on the current day

monitor == <<peak_equity, daily_loss, daily_start, current_day, limit_hit>>
desk == <<equity, geo_high, book, seen, approved, trades>>
riskVars == <<monitor, desk, top, lost>>
allVars == <<vars, riskVars>>

Day(t) == t \div DayLength

RiskInit ==
    /\ Init
    /\ equity = AssumedEquity /\ peak_equity = AssumedEquity
    /\ daily_loss = 0 /\ daily_start = AssumedEquity
    /\ current_day = 0 /\ limit_hit = FALSE
    /\ geo_high = {} /\ book = {} /\ seen = {} /\ approved = {}
    /\ trades = 0
    /\ top = AssumedEquity /\ lost = 0

-----------------------------------------------------------------------------
\* DrawdownMonitor

\* Mutant: every call starts a new day.
ResetOnEveryCall ==
    [loss |-> 0, hit |-> FALSE, day |-> Day(now)]

\* _reset_daily_if_needed: the day's losses as of now.  The equity the limit
\* is a percentage of is not touched.
ResetDailyIfNeeded ==
    IF Day(now) > current_day
      THEN [loss |-> 0, hit |-> FALSE, day |-> Day(now)]
      ELSE [loss |-> daily_loss, hit |-> limit_hit, day |-> current_day]

\* daily loss >= daily_max_loss_pct of daily_start
LimitReached(loss) == 100 * loss >= DailyMaxLoss * daily_start

\* get_drawdown(equity) >= pct, for a given peak.
DrawnDown(peak, pct) ==
    IF peak <= 0 \/ equity >= peak THEN pct = 0
    ELSE 100 * (peak - equity) >= pct * peak

\* update_equity
NewPeak == IF equity > peak_equity THEN equity ELSE peak_equity

\* check_trade_allowed: the decision on the state after reset and update.
CheckTradeAllowed ==
    LET d == ResetDailyIfNeeded
    IN  CASE DrawnDown(NewPeak, KillAt)       -> "KILL_SWITCH"
          [] ~DrawnDown(NewPeak, KillAt)
               /\ (d.hit \/ LimitReached(d.loss)) -> "REJECT"
          [] ~DrawnDown(NewPeak, KillAt) /\ ~d.hit /\ ~LimitReached(d.loss)
               /\ DrawnDown(NewPeak, ReduceAt) -> "REDUCE_SIZE"
          [] OTHER -> "ALLOW"

\* The state check_trade_allowed leaves, whatever it decides.
MonitorAsked ==
    LET d == ResetDailyIfNeeded
    IN  /\ peak_equity' = NewPeak
        /\ daily_loss' = d.loss /\ limit_hit' = d.hit /\ current_day' = d.day
        /\ top' = Max({top, equity})
        /\ UNCHANGED daily_start

\* update_on_trade_close: the broker closes a position, the loss is counted.
TradeCloses(e, pnl) ==
    /\ e \in book /\ trades < MaxTrades
    /\ trades' = trades + 1
    /\ book' = book \ {e}
    /\ LET d == ResetDailyIfNeeded
           loss == d.loss + (IF pnl < 0 THEN -pnl ELSE 0)
       IN  /\ daily_loss' = loss /\ current_day' = d.day
           /\ limit_hit' = (d.hit \/ LimitReached(loss))
    /\ lost' = lost + (IF pnl < 0 THEN -pnl ELSE 0)
    /\ UNCHANGED <<vars, equity, peak_equity, daily_start, geo_high, seen,
                   approved, top>>

\* reset_daily(start_of_day_equity): an explicit start of the trading day.
ResetDaily ==
    /\ daily_loss' = 0 /\ limit_hit' = FALSE
    /\ daily_start' = equity /\ current_day' = Day(now)
    /\ lost' = 0
    /\ UNCHANGED <<vars, desk, peak_equity, top>>

-----------------------------------------------------------------------------
\* ExposureManager and PositionSizer

Exposure(S) == MapThenSumSet(LAMBDA e : Notional[e], S)

\* _get_effective_class_limit: halved in a region of elevated risk.
ClassLimit2(e) == IF Region[e] \in geo_high THEN MaxPerClass ELSE 2 * MaxPerClass

\* check_exposure on the positions the caller read.
CheckExposure(e) ==
    /\ equity > 0
    /\ 200 * (Exposure({p \in seen : AssetClass[p] = AssetClass[e]}) + Notional[e])
         <= ClassLimit2(e) * equity
    /\ 100 * (Exposure(seen) + Notional[e]) <= MaxTotal * equity

\* validate_risk_reward: the ratio is at least 1.5.
ValidateRiskReward(s) == s.risk > 0 /\ 2 * s.reward >= 3 * s.risk

\* risk_pct of the signal, or the default of 1 percent (None and 0 alike).
RiskPct(s) == IF s.risk_pct = 0 THEN 1 ELSE s.risk_pct

\* calculate_size with ATR multiplier 1.5, halved above the z-score threshold
\* and quartered by the drawdown reduction, rounded down.
CalculateSize(s, reduced) ==
    (2 * equity * RiskPct(s))
      \div (3 * s.atr * (IF s.spike THEN 2 ELSE 1) * (IF reduced THEN 4 ELSE 1))

SizeAccepted(s, reduced) ==
    /\ equity > 0
    /\ RiskPct(s) <= 5
    /\ s.atr > 0
    /\ CalculateSize(s, reduced) \in 1..(5 * equity)

-----------------------------------------------------------------------------
\* RiskEngine

\* validate_signal: the drawdown monitor demands the kill switch.
SignalTrips(t) ==
    /\ ~is_active /\ approved = {}
    /\ CheckTradeAllowed = "KILL_SWITCH"
    /\ MonitorAsked
    /\ Activate(t, "drawdown")
    /\ UNCHANGED <<desk, lost>>

\* With the switch active validate_signal returns before it asks the monitor:
\* nothing changes.

\* validate_signal: the checks in order, from the monitor to the size.
SignalAllowed(s) ==
    /\ CheckTradeAllowed \in {"ALLOW", "REDUCE_SIZE"}
    /\ CheckExposure(s.instrument)
    /\ ValidateRiskReward(s)
    /\ SizeAccepted(s, CheckTradeAllowed = "REDUCE_SIZE")

\* validate_signal: every check passes.
SignalApproved(s) ==
    /\ ~is_active /\ approved = {}
    /\ s.instrument \notin book
    /\ SignalAllowed(s)
    /\ MonitorAsked
    /\ approved' = approved \cup {s.instrument}
    /\ UNCHANGED <<vars, equity, geo_high, book, seen, trades, lost>>

\* validate_signal: a check after the kill switch's rejects; the monitor keeps
\* what it was shown.
SignalRejected(s) ==
    /\ ~is_active /\ approved = {}
    /\ CheckTradeAllowed # "KILL_SWITCH" /\ ~SignalAllowed(s)
    /\ MonitorAsked
    /\ UNCHANGED <<vars, desk, lost>>

\* Mutant: the least volatile positions come first.
SortedUpwards(S, s) ==
    /\ {s[i] : i \in DOMAIN s} = S
    /\ \A i, j \in DOMAIN s : i < j => Atr[s[i]] <= Atr[s[j]]

\* The orders in which sorted() may list the positions of a crisis alert.
Sorted(S, s) ==
    /\ {s[i] : i \in DOMAIN s} = S
    /\ \A i, j \in DOMAIN s : i < j => Atr[s[i]] >= Atr[s[j]]

\* handle_crisis_response: positions are marked for closing until half of the
\* exposure is.  The result is published; no position is closed and no state
\* changes, so the response is a function of the book.
ClosedInCrisis(s) ==
    LET total == Exposure({s[i] : i \in DOMAIN s})
        before(i) == Exposure({s[j] : j \in 1..(i - 1)})
    IN  {s[i] : i \in {k \in DOMAIN s : 2 * before(k) < total}}

-----------------------------------------------------------------------------
\* The caller (the trading loop) and its surroundings

\* _refresh_account: the positions are read at the start of a cycle ...
RefreshPositions ==
    /\ approved = {}
    /\ seen' = book
    /\ UNCHANGED <<vars, monitor, equity, geo_high, book, approved, trades,
                   top, lost>>

\* ... and the equity now and then; an equity of zero is not taken over.
RefreshEquity ==
    /\ approved = {}
    /\ equity' \in Equities \ {0}
    /\ UNCHANGED <<vars, monitor, geo_high, book, seen, approved, trades,
                   top, lost>>

\* The approved order is filled, or not.
OrderReturns(e) ==
    /\ e \in approved
    /\ approved' = approved \ {e}
    /\ book' \in {book, book \cup {e}}
    /\ UNCHANGED <<vars, monitor, equity, geo_high, seen, trades, top, lost>>

\* update_geo_risk crosses the threshold, in either direction.
UpdateGeoRisk(r) ==
    /\ geo_high' = IF r \in geo_high THEN geo_high \ {r} ELSE geo_high \cup {r}
    /\ UNCHANGED <<vars, monitor, equity, book, seen, approved, trades, top,
                   lost>>

SwitchSteps ==
    /\ \/ \E t \in Tasks : Evaluate(t) \/ Acquire(t) \/ PublishReturns(t)
       \/ Deactivate
    /\ UNCHANGED riskVars

\* The clock; the history of the day's losses starts again at 00:00 UTC.
ClockTick ==
    /\ Tick
    /\ lost' = IF Day(now + 1) > Day(now) THEN 0 ELSE lost
    /\ UNCHANGED <<monitor, desk, top>>

RiskNext ==
    \/ SwitchSteps
    \/ ClockTick
    \/ \E t \in Tasks : SignalTrips(t)
    \/ \E s \in Signals : SignalApproved(s) \/ SignalRejected(s)
    \/ \E e \in Instruments : OrderReturns(e) \/ \E p \in Pnls : TradeCloses(e, p)
    \/ RefreshPositions \/ RefreshEquity \/ ResetDaily
    \/ \E r \in Regions : UpdateGeoRisk(r)

RiskSpec == RiskInit /\ [][RiskNext]_allVars

FairRiskSpec == RiskSpec /\ Fairness

-----------------------------------------------------------------------------
\* An approved signal finds the kill switch off, the equity less than KillAt
\* percent below the highest equity the monitor was ever shown, and the losses
\* booked since midnight (or an explicit reset) below the daily limit, however
\* lazily the monitor starts its days and whatever happened in between.
ApprovedWithinLimits ==
    [][approved' \subseteq approved \/
         /\ ~is_active
         /\ top' > equity => 100 * (top' - equity) < KillAt * top'
         /\ 100 * lost < DailyMaxLoss * daily_start]_allVars

\* The crisis response marks at least half of the exposure for closing, takes
\* the most volatile positions first, and stops at the position that reaches
\* the half, for every book and however sorted() orders equal volatilities.
CrisisHalves ==
    \A s \in {q \in [1..Cardinality(book) -> book] : Sorted(book, q)} :
        LET closed == ClosedInCrisis(s)
        IN  /\ 2 * Exposure(book \ closed) <= Exposure(book)
            /\ \A c \in closed, k \in book \ closed : Atr[c] >= Atr[k]
            /\ closed # {} => \E c \in closed :
                                2 * Exposure(closed \ {c}) < Exposure(book)

\* Documented, and not so: the drawdown trips the switch when the equity is
\* KillAt percent below an equity the account has had.
TripsOnRealDrawdown ==
    [][\A t \in Tasks : SignalTrips(t) =>
         \E q \in Equities : 100 * (q - equity) >= KillAt * q]_allVars

\* Documented, and not so: no approval takes the book past the total limit.
TotalExposureCapped ==
    [][book' \subseteq book \/ 100 * Exposure(book') <= MaxTotal * equity]_allVars
=============================================================================
