----------------------------- MODULE SignalPath -----------------------------
(***************************************************************************)
(* From a market snapshot to a validated signal (src/src/strategy): regime *)
(* detector, strategy weights, confidence pipeline, overtrading guard and  *)
(* the HFT override.                                                       *)
(*                                                                         *)
(* The engine runs detector, scorer and guard.  The confidence pipeline    *)
(* and the override are not wired to it: their callers put a signal to     *)
(* them and to the same guard.                                             *)
(*                                                                         *)
(* No function here awaits, so a snapshot is one step.  The trades it lets *)
(* through are executed, recorded and closed later by other coroutines.    *)
(* Scores are percentages, Sharpe ratios are in hundredths.                *)
(***************************************************************************)
EXTENDS Integers, FiniteSets, FiniteSetsExt, Functions

CONSTANTS
    Strategies, Instruments,
    Snapshots,        \* market snapshots the engine may be given
    Sharpe,           \* [Strategies -> [Regimes -> Int]]
    MaxTradesPerDay,  \* max_trades_per_day, clamped to 1..100
    MinInterval,      \* min_interval_minutes
    Cooldown,         \* consecutive_loss_cooldown_hours, in clock ticks
    LossLimit,        \* CONSECUTIVE_LOSS_THRESHOLD
    MaxOpen,          \* bound: trades validated and not yet closed
    MaxCount,         \* bound: trades of one strategy recorded in a day
    MaxGuardClock     \* bound: time

Regimes == {"trending", "ranging", "volatile", "crisis"}

\* A snapshot: indicator values, the strategies with a signal and what the
\* confidence pipeline is told of it.
Snapshot == [instrument : Instruments, adx : Nat, atr : Nat, vix : Int,
             decline : Int, hft : BOOLEAN, base : 0..100, signals : SUBSET Strategies,
             pattern : {"none", "active", "reactivated"}, news : BOOLEAN,
             low_win_rate : BOOLEAN]

ASSUME SignalPathAssumption ==
    /\ Snapshots \subseteq Snapshot
    /\ MaxTradesPerDay \in 1..100 /\ LossLimit \in Nat \ {0}
    /\ MinInterval \in Nat /\ Cooldown \in Nat

VARIABLES
    regime,              \* _current_regime
    weights,             \* _strategy_weights, before the division by their sum
    trade_counts,        \* by strategy and instrument
    last_trade_times,    \* by instrument; Never
    consecutive_losses,  \* by instrument
    cooldown_start,      \* by instrument; Never
    guard_clock,
    validated,           \* trades let through and not yet recorded
    recorded,            \* trades recorded and not yet closed
    streak               \* history: when the losses of the instrument last
                         \* reached the limit with no win since; Never

pathVars == <<regime, weights, trade_counts, last_trade_times,
              consecutive_losses, cooldown_start, guard_clock, validated,
              recorded, streak>>

Never == -1

PathInit ==
    /\ regime = "ranging" /\ weights = [s \in Strategies |-> 1]
    /\ trade_counts = [s \in Strategies |-> [i \in Instruments |-> 0]]
    /\ last_trade_times = [i \in Instruments |-> Never]
    /\ consecutive_losses = [i \in Instruments |-> 0]
    /\ cooldown_start = [i \in Instruments |-> Never]
    /\ guard_clock = 0 /\ validated = {} /\ recorded = {}
    /\ streak = [i \in Instruments |-> Never]

-----------------------------------------------------------------------------
\* RegimeDetector.classify
Classify(m) ==
    CASE m.atr > 95 \/ (m.vix > 3 /\ m.decline > 3) -> "crisis"
      [] m.atr > 75 -> "volatile"
      [] m.adx > 25 /\ m.atr < 75 -> "trending"
      [] OTHER -> "ranging"

\* reweight_strategies: a losing strategy keeps the least weight, never none.
Reweight(r) == [s \in Strategies |-> Max({Sharpe[s][r], 1})]

\* The confidence left after the penalties of pattern and news.
FinalConfidence(m) ==
    m.base - (CASE m.pattern = "none" -> 0
                [] m.pattern = "active" -> 20
                [] m.pattern = "reactivated" -> 30)
           - (IF m.news THEN 25 ELSE 0)

\* HFTOverrideManager: the penalties stay, only the guard is bypassed.
AppliesGuard(m) == ~m.hft

-----------------------------------------------------------------------------
\* OvertradingGuard.can_trade, rule by rule

EffectiveMax(m) ==
    IF m.low_win_rate THEN Max({1, MaxTradesPerDay \div 2}) ELSE MaxTradesPerDay

WithinDailyLimit(s, m) == trade_counts[s][m.instrument] < EffectiveMax(m)

IntervalMet(i) ==
    last_trade_times[i] = Never \/ guard_clock - last_trade_times[i] >= MinInterval

CoolingDown(i) ==
    /\ consecutive_losses[i] >= LossLimit
    /\ cooldown_start[i] # Never
    /\ guard_clock < cooldown_start[i] + Cooldown

\* A check that reaches the third rule with a cool-down that is over ends it.
EndsCooldown(s, m) ==
    /\ AppliesGuard(m) /\ WithinDailyLimit(s, m) /\ IntervalMet(m.instrument)
    /\ consecutive_losses[m.instrument] >= LossLimit
    /\ cooldown_start[m.instrument] # Never
    /\ ~CoolingDown(m.instrument)

CanTrade(s, m) ==
    AppliesGuard(m) =>
        /\ WithinDailyLimit(s, m)
        /\ IntervalMet(m.instrument)
        /\ ~CoolingDown(m.instrument)

\* The signals that keep enough confidence are put to the guard.
Checked(m) == {s \in m.signals : FinalConfidence(m) >= 60}

\* Mutant: only the count of losses is reset.
ExpireLosses(i) ==
    /\ consecutive_losses' = [consecutive_losses EXCEPT ![i] = 0]
    /\ UNCHANGED cooldown_start

ExpireCooldown(i) ==
    /\ consecutive_losses' = [consecutive_losses EXCEPT ![i] = 0]
    /\ cooldown_start' = [cooldown_start EXCEPT ![i] = Never]

Validate(m) ==
    LET allowed == {s \in Checked(m) : CanTrade(s, m)}
        trades == [strategy : allowed, instrument : {m.instrument}, hft : {m.hft}]
    IN /\ Cardinality(validated \cup recorded \cup trades) <= MaxOpen
       /\ IF \E s \in Checked(m) : EndsCooldown(s, m)
          THEN ExpireCooldown(m.instrument)
          ELSE UNCHANGED <<consecutive_losses, cooldown_start>>
       /\ validated' = validated \cup trades
       /\ UNCHANGED <<trade_counts, last_trade_times, guard_clock, recorded, streak>>

\* What the engine passes on of a snapshot: no override, a win rate of one half, a
\* confidence without penalties, and neither VIX nor decline.
AsEngine(m) == [m EXCEPT !.hft = FALSE, !.low_win_rate = FALSE, !.pattern = "none",
                         !.news = FALSE, !.vix = 0, !.decline = 0]

\* StrategyEngine.process_market_data: every strategy has a positive weight.
ProcessMarketData(m) ==
    /\ Validate(AsEngine(m))
    /\ regime' = Classify(AsEngine(m))
    /\ weights' = IF regime' # regime THEN Reweight(regime') ELSE weights

\* A caller that asks the confidence pipeline, the override and the guard itself.
CheckSignals(m) == Validate(m) /\ UNCHANGED <<regime, weights>>

-----------------------------------------------------------------------------
\* What the guard is told

RecordTrade(t) ==
    /\ t \in validated /\ trade_counts[t.strategy][t.instrument] < MaxCount
    /\ trade_counts' = [trade_counts EXCEPT ![t.strategy][t.instrument] = @ + 1]
    /\ last_trade_times' = [last_trade_times EXCEPT ![t.instrument] = guard_clock]
    /\ validated' = validated \ {t} /\ recorded' = recorded \cup {t}
    /\ UNCHANGED <<regime, weights, consecutive_losses, cooldown_start,
                   guard_clock, streak>>

\* A loss beyond the limit does not restart a cool-down that runs.
RecordLoss(t) ==
    LET i == t.instrument
        losses == consecutive_losses[i] + 1
    IN /\ t \in recorded /\ consecutive_losses[i] <= LossLimit
       /\ consecutive_losses' = [consecutive_losses EXCEPT ![i] = losses]
       /\ cooldown_start' =
            IF losses >= LossLimit /\ cooldown_start[i] = Never
            THEN [cooldown_start EXCEPT ![i] = guard_clock] ELSE cooldown_start
       /\ streak' = IF losses = LossLimit THEN [streak EXCEPT ![i] = guard_clock]
                                          ELSE streak
       /\ recorded' = recorded \ {t}
       /\ UNCHANGED <<regime, weights, trade_counts, last_trade_times,
                      guard_clock, validated>>

RecordWin(t) ==
    /\ t \in recorded
    /\ consecutive_losses' = [consecutive_losses EXCEPT ![t.instrument] = 0]
    /\ cooldown_start' = [cooldown_start EXCEPT ![t.instrument] = Never]
    /\ streak' = [streak EXCEPT ![t.instrument] = Never]
    /\ recorded' = recorded \ {t}
    /\ UNCHANGED <<regime, weights, trade_counts, last_trade_times, guard_clock,
                   validated>>

\* Mutant: the midnight reset forgets the losses too.
ResetEverything ==
    /\ trade_counts' = [s \in Strategies |-> [i \in Instruments |-> 0]]
    /\ consecutive_losses' = [i \in Instruments |-> 0]
    /\ cooldown_start' = [i \in Instruments |-> Never]
    /\ UNCHANGED <<regime, weights, last_trade_times, guard_clock, validated,
                   recorded, streak>>

ResetDaily ==
    /\ trade_counts' = [s \in Strategies |-> [i \in Instruments |-> 0]]
    /\ UNCHANGED <<regime, weights, last_trade_times, consecutive_losses,
                   cooldown_start, guard_clock, validated, recorded, streak>>

GuardClock ==
    /\ guard_clock < MaxGuardClock
    /\ guard_clock' = guard_clock + 1
    /\ UNCHANGED <<regime, weights, trade_counts, last_trade_times,
                   consecutive_losses, cooldown_start, validated, recorded,
                   streak>>

PathNext ==
    \/ \E m \in Snapshots : ProcessMarketData(m) \/ CheckSignals(m)
    \/ \E t \in validated \cup recorded : RecordTrade(t) \/ RecordLoss(t) \/ RecordWin(t)
    \/ ResetDaily \/ GuardClock

PathSpec == PathInit /\ [][PathNext]_pathVars

-----------------------------------------------------------------------------
\* The count of losses and the start of the cool-down are two maps, changed by
\* losses, wins and lazily by checks: an instrument at the limit has a running
\* start, and a start never outlives its losses (it would swallow the next one).
CooldownAgrees ==
    \A i \in Instruments :
        consecutive_losses[i] >= LossLimit <=> cooldown_start[i] # Never

\* After the losses that reached the limit, through midnight
\* and further losses, no signal outside HFT passes until the hour is over.
CooldownHolds ==
    [][\A t \in validated' \ validated :
         t.hft \/ streak[t.instrument] = Never
               \/ guard_clock >= streak[t.instrument] + Cooldown]_pathVars

\* Midnight, expiry, wins and losses never leave the cool-down half set, and it is
\* kept to its end.
CooldownIsWhole == []CooldownAgrees /\ CooldownHolds

\* Documented, and not so: trades on an instrument are MinInterval apart.  Two
\* strategies pass in one snapshot, before either trade is recorded.
IntervalRespected ==
    [][\A t \in recorded' \ recorded :
         t.hft \/ last_trade_times[t.instrument] = Never
               \/ guard_clock - last_trade_times[t.instrument] >= MinInterval]_pathVars
=============================================================================
