------------------------------ MODULE HFTRisk ------------------------------
(***************************************************************************)
(* The HFT risk manager (src/src/risk/hft_risk.py): sliding-window rate    *)
(* limits, the rolling PnL window, the circuit breaker and its escalation. *)
(*                                                                         *)
(* A list of time stamps is a set of records with their ages, in ticks, and *)
(* the rolling PnL is summed per age; what is older than the longest window *)
(* that reads it is pruned, as _prune and update_pnl do.  Every method runs *)
(* without an await and is one step.  Each list record_order appends to    *)
(* holds the same orders, so one variable stands for the three counters.   *)
(***************************************************************************)
EXTENDS Integers, Sequences, FiniteSets, Functions

CONSTANTS
    Instruments,
    MaxOrderRate,       \* _max_order_rate
    MaxInstrumentRate,  \* _max_per_instrument_rate
    RateWindow,         \* window of the rate counters: 1 second
    RejectWindow,       \* window of the rejection counters: 10 seconds
    PnlWindow,          \* rolling PnL window: 1 minute
    LossThreshold,          \* account_equity * HFT_CIRCUIT_BREAKER_PNL_PCT
    Pnls,               \* PnL values reported
    Halt,               \* HFT_CIRCUIT_BREAKER_DURATION_SECONDS
    EscalationWindow,   \* HFT_CIRCUIT_BREAKER_WINDOW_HOURS
    MaxActivations,     \* HFT_CIRCUIT_BREAKER_MAX_ACTIVATIONS
    MaxRejections,      \* bound: rejections in a window
    MaxUpdates          \* bound: PnL updates per tick

ASSUME HFTRiskAssumption ==
    /\ {MaxOrderRate, MaxInstrumentRate, RateWindow, RejectWindow, PnlWindow,
        Halt, EscalationWindow, MaxActivations} \subseteq Nat \ {0}
    /\ {MaxRejections, MaxUpdates} \subseteq Nat
    /\ RateWindow <= RejectWindow /\ Halt <= EscalationWindow
    /\ Pnls \subseteq Int /\ LossThreshold \in Int

VARIABLES
    orders,         \* orders recorded, by instrument
    rejections,     \* _rejection_counter
    pnl,            \* pnl[a]: _pnl_window, summed per age
    updates,        \* PnL updates of this tick
    active,         \* circuit_breaker_active
    activated,      \* age of _circuit_breaker_activated_at, -1 for None
    events,         \* _circuit_breaker_events
    disabled,       \* _hft_disabled
    halt_age,       \* history: age of the last activation nobody lifted, or -1
    since,          \* history: the events since the last re-enablement
    escalated       \* history: MaxActivations of them fell into one window

counters == <<orders, rejections>>
breaker == <<active, activated, events, disabled, halt_age, since, escalated>>
hftRiskVars == <<counters, pnl, updates, breaker>>

\* Records younger than n; nth tells those of one age and subject apart.
Stamps(subjects, n) == [of : subjects, age : 0..n - 1, nth : Nat]

HftRiskTypeOK ==
    /\ orders \subseteq Stamps(Instruments, RejectWindow)
    /\ rejections \subseteq Stamps({"rejection"}, RejectWindow)
    /\ pnl \in [0..PnlWindow - 1 -> Int]
    /\ updates \in 0..MaxUpdates
    /\ {active, disabled, escalated} \subseteq BOOLEAN
    /\ activated \in -1..Halt /\ halt_age \in -1..Halt
    /\ activated = -1 <=> ~active
    /\ since \subseteq events
    /\ events \subseteq Stamps({"activation"}, EscalationWindow)

HftRiskInit ==
    /\ orders = {} /\ rejections = {}
    /\ pnl = [a \in 0..PnlWindow - 1 |-> 0] /\ updates = 0
    /\ active = FALSE /\ activated = -1 /\ disabled = FALSE
    /\ events = {} /\ halt_age = -1 /\ since = {} /\ escalated = FALSE

\* One more record about x.
Now(S, x) ==
    S \cup {[of |-> x, age |-> 0, nth |-> Cardinality({r \in S : r.of = x /\ r.age = 0})]}

\* The records of S a tick later, those that left the window pruned.
Older(S, window) ==
    {[r EXCEPT !.age = @ + 1] : r \in {q \in S : q.age + 1 < window}}

-----------------------------------------------------------------------------
(* Circuit breaker                                                         *)

\* Mutant: the activation that reaches the maximum does not count itself.
ActivateBefore ==
    /\ active' = TRUE /\ activated' = 0
    /\ events' = Now(events, "activation")
    /\ disabled' = (disabled \/ Cardinality(events) >= MaxActivations)
    /\ halt_age' = 0 /\ since' = since \cup (events' \ events)
    /\ escalated' = (escalated \/ Cardinality(since') >= MaxActivations)

\* activate_circuit_breaker
ActivateCircuitBreaker ==
    /\ active' = TRUE /\ activated' = 0
    /\ events' = Now(events, "activation")
    /\ disabled' = (disabled \/ Cardinality(events') >= MaxActivations)
    /\ halt_age' = 0 /\ since' = since \cup (events' \ events)
    /\ escalated' = (escalated \/ Cardinality(since') >= MaxActivations)

\* update_pnl
UpdatePnl(p) ==
    /\ updates < MaxUpdates /\ updates' = updates + 1
    /\ pnl' = [pnl EXCEPT ![0] = @ + p]
    /\ IF SumFunction(pnl') < LossThreshold /\ ~active
         THEN ActivateCircuitBreaker ELSE UNCHANGED breaker
    /\ UNCHANGED counters

\* deactivate_circuit_breaker
Deactivate ==
    /\ active
    /\ active' = FALSE /\ activated' = -1 /\ halt_age' = -1
    /\ UNCHANGED <<counters, pnl, updates, events, disabled, since, escalated>>

\* Mutant: the halt ends one tick early.
ExpireEarly ==
    IF ~disabled /\ active /\ activated >= Halt - 1
    THEN active' = FALSE /\ activated' = -1
    ELSE UNCHANGED <<active, activated>>

\* The part of is_hft_allowed that changes state: a breaker that has run its
\* time is cleared when somebody asks.
Expire ==
    IF ~disabled /\ active /\ activated >= Halt
    THEN active' = FALSE /\ activated' = -1
    ELSE UNCHANGED <<active, activated>>

\* Mutant: the disabling is read off the activations that still count.
AllowedByEvents == Cardinality(events) < MaxActivations /\ ~active'

\* What is_hft_allowed answers.
IsHftAllowed == ~disabled /\ ~active'

\* get_status, which asks is_hft_allowed.
GetStatus ==
    /\ Expire
    /\ UNCHANGED <<counters, pnl, updates, events, disabled, halt_age, since,
                   escalated>>

\* re_enable_hft: the list of activations is kept.
ReEnableHft ==
    /\ disabled
    /\ disabled' = FALSE /\ active' = FALSE /\ activated' = -1
    /\ halt_age' = -1 /\ since' = {} /\ escalated' = FALSE
    /\ UNCHANGED <<counters, pnl, updates, events>>

-----------------------------------------------------------------------------
(* Rate limiting                                                           *)

\* _SlidingWindowCounter.count: of all orders, and of one instrument
GlobalCount == Cardinality({r \in orders : r.age < RateWindow})
Count(i) == Cardinality({r \in orders : r.of = i /\ r.age < RateWindow})

\* check_rate_limit
RateAllows(i) ==
    GlobalCount < MaxOrderRate /\ Count(i) < MaxInstrumentRate

\* An order attempt as the interface is meant to be used: is_hft_allowed,
\* check_rate_limit, then record_order, with no await in between.
Order(i) ==
    /\ Expire
    /\ \/ ~IsHftAllowed /\ UNCHANGED counters
       \/ /\ IsHftAllowed /\ RateAllows(i)
          /\ orders' = Now(orders, i)
          /\ UNCHANGED rejections
       \/ /\ IsHftAllowed /\ ~RateAllows(i)
          /\ Cardinality(rejections) < MaxRejections
          /\ rejections' = Now(rejections, "rejection")
          /\ UNCHANGED orders
    /\ UNCHANGED <<pnl, updates, events, disabled, halt_age, since,
                   escalated>>

\* get_rejection_rate > x, with x = num / den
RejectionRateAbove(num, den) ==
    orders # {} /\ Cardinality(rejections) * den > num * Cardinality(orders)

Aged(n) == IF n = -1 \/ n = Halt THEN n ELSE n + 1

HftRiskTick ==
    /\ orders' = Older(orders, RejectWindow)
    /\ rejections' = Older(rejections, RejectWindow)
    /\ pnl' = [a \in DOMAIN pnl |-> IF a = 0 THEN 0 ELSE pnl[a - 1]] /\ updates' = 0
    /\ activated' = Aged(activated) /\ halt_age' = Aged(halt_age)
    /\ events' = Older(events, EscalationWindow)
    /\ since' = Older(since, EscalationWindow)
    /\ UNCHANGED <<active, disabled, escalated>>

HftRiskNext ==
    \/ \E p \in Pnls : UpdatePnl(p)
    \/ \E i \in Instruments : Order(i)
    \/ Deactivate \/ GetStatus \/ ReEnableHft
    \/ HftRiskTick

HftRiskSpec == HftRiskInit /\ [][HftRiskNext]_hftRiskVars

-----------------------------------------------------------------------------
\* Requirements 22.3 and 22.6: in every window of a second, wherever it starts,
\* no more orders are recorded than the limits allow, per instrument and in all.
OrderRateBounded ==
    LET Recent == {r \in orders : r.age < RateWindow}
    IN  /\ Cardinality(Recent) <= MaxOrderRate
        /\ \A i \in Instruments :
             Cardinality({r \in Recent : r.of = i}) <= MaxInstrumentRate

\* This step records an order.
AnOrder == \E r \in orders' \ orders : r.age = 0

\* Requirement 22.9: an activation nobody lifts keeps HFT orders away for Halt,
\* however often the breaker's expiry is looked at meanwhile.
HaltLasts ==
    [][AnOrder => halt_age = -1 \/ halt_age = Halt]_hftRiskVars

\* Requirement 22.10: after MaxActivations activations within the escalation
\* window no HFT order passes until HFT is re-enabled by hand, also when the
\* activations have long left the window and the breaker was lifted.
EscalationHolds == [][AnOrder => ~escalated]_hftRiskVars

\* What the HFT risk manager is for: the rates, the halt of a tripped breaker and
\* the escalation hold in any order of orders, losses, expiries and interventions.
HftIsLimited == []OrderRateBounded /\ HaltLasts /\ EscalationHolds

(* What the documents say and the code does not do.                        *)

\* Requirement 22.9: a PnL below the threshold in the rolling window activates
\* a breaker that "halts all HFT order placement for 60 seconds": after the
\* update HFT is disabled or a halt is running.
BreachHalts ==
    [][\A p \in Pnls : UpdatePnl(p) /\ SumFunction(pnl') < LossThreshold =>
            disabled' \/ (active' /\ activated' < Halt)]_hftRiskVars

\* get_rejection_rate, "Rejection rate as a float between 0.0 and 1.0".
RejectionRateIsFraction == ~RejectionRateAbove(1, 1)
=============================================================================
