----------------------------- MODULE TradingLoop -----------------------------
(***************************************************************************)
(* The trading cycle of AutonomousTradingLoop                              *)
(* (src/src/trading/trading_loop.py) with the broker, the trade database   *)
(* and the HTTP API around it.                                             *)
(*                                                                         *)
(* The loop is one coroutine.  Its program counter pc names the await it   *)
(* is suspended in; while it waits, the broker may close a position (stop, *)
(* limit), the API may close one or flip the kill switch, and time passes. *)
(* A deal is a number; deals are numbered in the order the broker opens    *)
(* them.  Faults names the failures a run explores.                        *)
(***************************************************************************)
EXTENDS Integers, Sequences, FiniteSets, FiniteSetsExt

CONSTANTS
    Instruments,    \* the sequence _instruments of epics
    Base, Quote,    \* Base[e], Quote[e]: the two currencies of epic e
    MaxOpen,        \* MAX_OPEN_POSITIONS
    MaxDaily,       \* MAX_DAILY_TRADES
    Cooldown,       \* MIN_SECONDS_BETWEEN_TRADES_PER_INSTRUMENT, in ticks
    DayLength,      \* ticks in a UTC day
    LossCap,        \* account equity * PROFESSIONAL_DAILY_MAX_LOSS_PCT
    Pnls,           \* profits a closed deal may realize
    Markets,        \* whether the spread and ATR tests pass: subset of BOOLEAN
    Faults,         \* failures explored, a subset of FaultKinds
    MaxFailures,    \* bound: failed commits of the close of one deal
    MaxDeals,       \* bound: deals the broker opens
    MaxClock        \* bound: the clock stops here

FaultKinds == {"positions", "lag", "db", "history", "close", "confirm",
               "place", "level", "restart", "expiry"}

Deals == 1..MaxDeals
Epics == {Instruments[k] : k \in DOMAIN Instruments}
Directions == {"BUY", "SELL"}
None == "none"

ASSUME TradingLoopAssumption ==
    /\ Instruments \in Seq(Epics)
    /\ Faults \subseteq FaultKinds
    /\ {MaxOpen, MaxDaily, Cooldown, LossCap, MaxDeals, MaxClock,
        MaxFailures} \subseteq Nat
    /\ DayLength \in Nat \ {0}
    /\ Pnls \subseteq Int /\ 0 \notin Pnls
    /\ Markets \subseteq BOOLEAN

VARIABLES
    clock,          \* wall clock
    \* ------- broker (external)
    broker,         \* broker[d]: "none", "open" or "closed"
    deal,           \* deal[d]: its epic and direction
    pnl,            \* pnl[d]: realized profit once closed
    expired,        \* closed deals IG lists no more: over a day old, or
                    \* beyond the page of 200 transactions
    \* ------- database
    db,             \* db[d]: the persisted trade and position of d
    \* ------- the API
    api,            \* deals whose close by the API is not yet committed
    \* ------- memory of the loop
    open_positions, \* _open_positions: the deals of the last refresh
    missing,        \* _missing_position_counts, capped at 2
    daily_date,     \* _daily_trade_date
    daily_count,    \* _daily_trade_count
    daily_pnl,      \* _daily_realized_pnl
    last_trade,     \* _last_trade_time_by_epic; -1 is absent
    kill,           \* the kill switch is active
    \* ------- the coroutine
    pc,             \* the await the loop is suspended in
    idx,            \* position in Instruments
    signal,         \* direction of the current signal
    target,         \* the deal being closed, opened or persisted, or 0
    todo,           \* missing_positions still to be reconciled
    \* ------- history
    booked,         \* booked[d]: times pnl[d] was added to total_pnl
    counted,        \* counted[d]: such bookings since the daily roll-over
    failed,         \* failed[d]: failed commits of the close of d
    accepted_at,    \* when the loop saw deal d ACCEPTED, -1 if never
    fills_killed    \* deals opened since the kill switch went active

brokerVars  == <<broker, deal, pnl, expired>>
dailyVars   == <<daily_date, daily_count, daily_pnl>>
memoryVars  == <<open_positions, missing, last_trade>>
localVars   == <<idx, signal, target, todo>>
bookVars    == <<booked, counted, failed>>
historyVars == <<bookVars, accepted_at, fills_killed>>
vars == <<clock, brokerVars, db, api, memoryVars, dailyVars, kill, pc,
          localVars, historyVars>>

Awaits == {"sleep", "positions", "persisted", "history", "reconcile", "epic",
           "closing", "persist_close", "risk", "news", "placing",
           "confirming", "persist_open"}

TypeOK ==
    /\ clock \in 0..MaxClock
    /\ broker \in [Deals -> {"none", "open", "closed"}]
    /\ deal \in [Deals -> [epic : Epics \cup {None},
                           direction : Directions \cup {None}]]
    /\ pnl \in [Deals -> Pnls \cup {0}]
    /\ expired \subseteq Deals
    /\ db \in [Deals -> {"none", "open", "closed"}]
    /\ api \subseteq Deals
    /\ open_positions \subseteq Deals
    /\ missing \in [Deals -> 0..2]
    /\ daily_date \in Int
    /\ daily_count \in Nat
    /\ daily_pnl \in Int
    /\ last_trade \in [Epics -> {-1} \cup 0..MaxClock]
    /\ kill \in BOOLEAN
    /\ pc \in Awaits
    /\ idx \in 1..(Len(Instruments) + 1)
    /\ signal \in Directions \cup {None}
    /\ target \in Deals \cup {0}
    /\ todo \subseteq Deals
    /\ booked \in [Deals -> Nat]
    /\ counted \in [Deals -> Nat]
    /\ failed \in [Deals -> Nat]
    /\ accepted_at \in [Deals -> {-1} \cup 0..MaxClock]
    /\ fills_killed \in Nat

Init ==
    /\ clock = 0
    /\ broker = [d \in Deals |-> "none"]
    /\ deal = [d \in Deals |-> [epic |-> None, direction |-> None]]
    /\ pnl = [d \in Deals |-> 0]
    /\ expired = {}
    /\ db = [d \in Deals |-> "none"]
    /\ api = {}
    /\ open_positions = {}
    /\ missing = [d \in Deals |-> 0]
    /\ daily_date = 0 /\ daily_count = 0 /\ daily_pnl = 0
    /\ last_trade = [e \in Epics |-> -1]
    /\ kill = FALSE
    /\ pc = "sleep" /\ idx = 1 /\ signal = None /\ target = 0 /\ todo = {}
    /\ booked = [d \in Deals |-> 0]
    /\ counted = [d \in Deals |-> 0]
    /\ failed = [d \in Deals |-> 0]
    /\ accepted_at = [d \in Deals |-> -1]
    /\ fills_killed = 0

Day(t) == t \div DayLength
Today == Day(clock)
Live == {d \in Deals : broker[d] = "open"}
Epic == Instruments[idx]

\* The for loop of _trading_cycle moves on to the next epic.
NextEpic ==
    /\ pc' = "epic"
    /\ idx' = idx + 1
    /\ signal' = None
    /\ target' = 0

-----------------------------------------------------------------------------
(* The broker, the API and the environment.                                *)

\* The broker realizes a profit or loss on deal d.
Realize(d) ==
    /\ broker' = [broker EXCEPT ![d] = "closed"]
    /\ \E p \in Pnls : pnl' = [pnl EXCEPT ![d] = p]

\* The broker's stop or limit closes a position.
BrokerCloses(d) ==
    /\ broker[d] = "open"
    /\ Realize(d)
    /\ UNCHANGED <<clock, api, deal, expired, db, memoryVars, dailyVars, kill,
                   pc, localVars, historyVars>>

\* The transaction of a closed deal is more than a day old, or those of the
\* rest of the account have pushed it off the page.
TransactionExpires(d) ==
    /\ "expiry" \in Faults
    /\ broker[d] = "closed" /\ d \notin expired
    /\ expired' = expired \cup {d}
    /\ UNCHANGED <<clock, broker, deal, pnl, db, api, memoryVars, dailyVars,
                   kill, pc, localVars, historyVars>>

\* POST /positions/{id}/close of the API, on a deal the database shows open:
\* the broker accepts the close while the handler awaits its answer.
ApiClose(d) ==
    /\ db[d] = "open" /\ broker[d] = "open"
    /\ Realize(d)
    /\ api' = api \cup {d}
    /\ UNCHANGED <<clock, deal, expired, db, memoryVars, dailyVars, kill, pc,
                   localVars, historyVars>>

\* The handler commits the close, or fails to; nothing of it reaches the
\* counters of the loop.
ApiPersist(d) ==
    /\ d \in api
    /\ api' = api \ {d}
    /\ \/ db' = [db EXCEPT ![d] = "closed"]
       \/ "db" \in Faults /\ UNCHANGED db
    /\ UNCHANGED <<clock, brokerVars, memoryVars, dailyVars, kill, pc,
                   localVars, historyVars>>

\* activate_kill_switch() from the API.
ActivateKillSwitch ==
    /\ ~kill
    /\ kill' = TRUE
    /\ fills_killed' = 0
    /\ UNCHANGED <<clock, api, brokerVars, db, memoryVars, dailyVars, pc,
                   localVars, bookVars, accepted_at>>

\* deactivate_kill_switch(); its delay is the subject of module KillSwitch.
DeactivateKillSwitch ==
    /\ kill
    /\ kill' = FALSE
    /\ fills_killed' = 0
    /\ UNCHANGED <<clock, api, brokerVars, db, memoryVars, dailyVars, pc,
                   localVars, bookVars, accepted_at>>

Tick ==
    /\ clock < MaxClock
    /\ clock' = clock + 1
    /\ UNCHANGED <<brokerVars, db, api, memoryVars, dailyVars, kill, pc,
                   localVars, historyVars>>

\* The process dies and a new AutonomousTradingLoop is built: the broker and
\* the database survive, everything in memory (the kill switch too) does not.
Restart ==
    /\ "restart" \in Faults
    /\ pc # "sleep"
    /\ open_positions' = {}
    /\ missing' = [d \in Deals |-> 0]
    /\ last_trade' = [e \in Epics |-> -1]
    /\ daily_date' = Today /\ daily_count' = 0 /\ daily_pnl' = 0
    /\ kill' = FALSE
    /\ api' = {}
    /\ fills_killed' = 0
    /\ pc' = "sleep" /\ idx' = 1 /\ signal' = None /\ target' = 0 /\ todo' = {}
    /\ booked' = [d \in Deals |-> 0]
    /\ counted' = [d \in Deals |-> 0]
    /\ failed' = [d \in Deals |-> 0]
    /\ UNCHANGED <<clock, brokerVars, db, accepted_at>>

-----------------------------------------------------------------------------
(* _update_account_state and _reconcile_broker_closed_positions.           *)

StartCycle ==
    /\ pc = "sleep"
    /\ pc' = "positions"
    /\ UNCHANGED <<clock, api, brokerVars, db, memoryVars, dailyVars, kill,
                   localVars, historyVars>>

\* Mutant: the answer of get_positions() is not stored.
StalePositions ==
    /\ pc = "positions"
    /\ pc' = "persisted"
    /\ UNCHANGED <<clock, api, brokerVars, db, memoryVars, dailyVars, kill,
                   localVars, historyVars>>

\* get_positions() answers; IG may not list a live deal yet.
PositionsAnswer ==
    /\ pc = "positions"
    /\ \/ open_positions' = Live
       \/ /\ "lag" \in Faults
          /\ \E d \in Live : open_positions' = Live \ {d}
    /\ pc' = "persisted"
    /\ UNCHANGED <<clock, api, brokerVars, db, missing, last_trade,
                   dailyVars, kill, localVars, historyVars>>

\* An exception on the way ends the account refresh, not the cycle.
RefreshFails ==
    /\ \/ pc = "positions" /\ "positions" \in Faults
       \/ pc = "persisted" /\ "db" \in Faults
       \/ pc = "history"   /\ "history" \in Faults
    /\ pc' = "epic"
    /\ todo' = {}
    /\ UNCHANGED <<clock, api, brokerVars, db, memoryVars, dailyVars, kill,
                   idx, signal, target, historyVars>>

\* Mutant: every refresh starts its count of misses anew.
CountMissingForgets ==
    /\ pc = "persisted"
    /\ missing' = [d \in Deals |-> IF db[d] = "open" /\ d \notin open_positions
                                    THEN 1 ELSE 0]
    /\ todo' = {}
    /\ pc' = "epic"
    /\ UNCHANGED <<clock, api, brokerVars, db, open_positions, last_trade,
                   dailyVars, kill, idx, signal, target, historyVars>>

\* The persisted open positions are read: a deal the refresh did not list is
\* counted missing, and is looked up on its second consecutive miss.
CountMissing ==
    LET misses(d) == IF db[d] # "open" \/ d \in open_positions THEN 0
                     ELSE IF missing[d] = 0 THEN 1 ELSE 2
    IN  /\ pc = "persisted"
        /\ missing' = [d \in Deals |-> misses(d)]
        /\ todo' = {d \in Deals : misses(d) = 2}
        /\ pc' = IF todo' = {} THEN "epic" ELSE "history"
        /\ UNCHANGED <<clock, api, brokerVars, db, open_positions,
                       last_trade, dailyVars, kill, idx, signal, target,
                       historyVars>>

\* Mutant: the absence from the positions list is taken for a close.
HistoryIgnored ==
    /\ pc = "history"
    /\ pc' = "reconcile"
    /\ UNCHANGED <<clock, api, brokerVars, db, memoryVars, dailyVars, kill,
                   idx, signal, target, todo, historyVars>>

\* The missing deals with a transaction in the last day's first page.
Listed == {d \in todo : broker[d] = "closed" /\ d \notin expired}

\* get_transaction_history() answers; deals without a transaction wait.
HistoryAnswer ==
    /\ pc = "history"
    /\ \/ todo' = Listed
       \/ "lag" \in Faults /\ todo' = {}
    /\ pc' = "reconcile"
    /\ UNCHANGED <<clock, api, brokerVars, db, memoryVars, dailyVars, kill,
                   idx, signal, target, historyVars>>

\* total_pnl and _daily_realized_pnl take the profit of deal d.
Book(d, profit) ==
    /\ booked' = [booked EXCEPT ![d] = @ + 1]
    /\ counted' = [counted EXCEPT ![d] = @ + 1]
    /\ daily_pnl' = daily_pnl + profit

\* The row that _persist_closed_trade closes for deal d: its own, or, when it
\* was never persisted, any open row of the same instrument.
PersistedRows(d) ==
    IF db[d] # "none" THEN {d}
    ELSE {r \in Deals : db[r] = "open" /\ deal[r].epic = deal[d].epic}

\* _persist_closed_trade: one session, committed or rolled back; a failure is
\* only recorded in last_error.
PersistClose(d) ==
    \/ /\ \E r \in PersistedRows(d) : db' = [db EXCEPT ![r] = "closed"]
       /\ UNCHANGED failed
    \/ PersistedRows(d) = {} /\ UNCHANGED <<db, failed>>
    \/ /\ "db" \in Faults /\ failed[d] < MaxFailures
       /\ failed' = [failed EXCEPT ![d] = @ + 1]
       /\ UNCHANGED db

\* Mutant: the miss counter is not reset and the deal stays in the work list.
ReconcileTwice(d) ==
    /\ pc = "reconcile"
    /\ d \in todo
    /\ PersistClose(d)
    /\ Book(d, pnl[d])
    /\ todo' = IF booked[d] < 1 THEN todo ELSE todo \ {d}
    /\ UNCHANGED <<clock, api, brokerVars, open_positions, last_trade,
                   daily_date, daily_count, kill, pc, idx, signal, target,
                   accepted_at, fills_killed, missing>>

\* One missing deal with a transaction: persist the close, then book it,
\* whether or not the persistence worked.
ReconcileDeal(d) ==
    /\ pc = "reconcile"
    /\ d \in todo
    /\ PersistClose(d)
    /\ Book(d, pnl[d])
    /\ missing' = [missing EXCEPT ![d] = 0]
    /\ todo' = todo \ {d}
    /\ UNCHANGED <<clock, api, brokerVars, open_positions, last_trade,
                   daily_date, daily_count, kill, pc, idx, signal, target,
                   accepted_at, fills_killed>>

ReconcileDone ==
    /\ pc = "reconcile"
    /\ todo = {}
    /\ pc' = "epic"
    /\ UNCHANGED <<clock, api, brokerVars, db, memoryVars, dailyVars, kill,
                   localVars, historyVars>>

-----------------------------------------------------------------------------
(* The for loop over the instruments.                                      *)

\* _get_open_position: the cached positions on epic e.
CachedOn(e) == {d \in open_positions : deal[d].epic = e}

\* _currency_exposures: long one currency, short the other.
CurrencyExposures(e, dir) ==
    IF dir = "BUY" THEN {<<Base[e], 1>>, <<Quote[e], -1>>}
                   ELSE {<<Base[e], -1>>, <<Quote[e], 1>>}

\* _has_correlated_currency_exposure, on the cached positions.
CorrelatedExposure(e, dir) ==
    \E d \in open_positions :
        \/ deal[d].epic = e
        \/ CurrencyExposures(e, dir)
             \cap CurrencyExposures(deal[d].epic, deal[d].direction) # {}

\* _reset_daily_trade_counter_if_needed
CountToday == IF daily_date # Today THEN 0 ELSE daily_count
PnlToday   == IF daily_date # Today THEN 0 ELSE daily_pnl
CountedToday == IF daily_date # Today THEN [d \in Deals |-> 0] ELSE counted

\* _entry_gate_rejection_reason but for its test of the cached position;
\* marketOk stands for the spread and ATR tests.
OtherGatesReject(e, dir, marketOk) ==
    \/ CountToday >= MaxDaily
    \/ PnlToday <= -LossCap
    \/ last_trade[e] # -1 /\ clock - last_trade[e] < Cooldown
    \/ ~marketOk

\* Mutants of the gate: an off-by-one cap, no cooldown, no loss cap.
GateCapOffByOne(e, dir, marketOk) ==
    \/ CountToday > MaxDaily
    \/ PnlToday <= -LossCap
    \/ CachedOn(e) # {}
    \/ last_trade[e] # -1 /\ clock - last_trade[e] < Cooldown
    \/ ~marketOk
    \/ CorrelatedExposure(e, dir)

GateNoCooldown(e, dir, marketOk) ==
    \/ CountToday >= MaxDaily
    \/ PnlToday <= -LossCap
    \/ CachedOn(e) # {}
    \/ ~marketOk
    \/ CorrelatedExposure(e, dir)

GateNoLossCap(e, dir, marketOk) ==
    \/ CountToday >= MaxDaily
    \/ CachedOn(e) # {}
    \/ last_trade[e] # -1 /\ clock - last_trade[e] < Cooldown
    \/ ~marketOk
    \/ CorrelatedExposure(e, dir)

\* _entry_gate_rejection_reason
GateRejects(e, dir, marketOk) ==
    \/ OtherGatesReject(e, dir, marketOk)
    \/ CachedOn(e) # {}
    \/ CorrelatedExposure(e, dir)

\* The gate runs (resetting the daily counters first) and the signal goes on
\* to the risk controls or is dropped.
Gate(e, dir) ==
    /\ daily_date' = Today
    /\ daily_count' = CountToday
    /\ daily_pnl' = PnlToday
    /\ counted' = CountedToday
    /\ \E marketOk \in Markets :
         IF GateRejects(e, dir, marketOk)
           THEN NextEpic
           ELSE /\ pc' = "risk"
                /\ signal' = dir
                /\ target' = 0
                /\ UNCHANGED idx

\* Mutant: the loop over the instruments does not stop at the last one.
SkipPastEnd ==
    /\ pc = "epic"
    /\ NextEpic
    /\ UNCHANGED <<clock, api, brokerVars, db, memoryVars, dailyVars, kill,
                   todo, historyVars>>

\* No signal, a signal in the direction already held, no room for another
\* position, or an exception in the position management: nothing to do.
SkipEpic ==
    /\ pc = "epic" /\ idx <= Len(Instruments)
    /\ NextEpic
    /\ UNCHANGED <<clock, api, brokerVars, db, memoryVars, dailyVars, kill,
                   todo, historyVars>>

\* The signal contradicts the cached position of the epic: close it.
FlipExit ==
    /\ pc = "epic" /\ idx <= Len(Instruments)
    /\ \E d \in CachedOn(Epic), dir \in Directions :
         /\ dir # deal[d].direction
         /\ target' = d
         /\ signal' = dir
    /\ pc' = "closing"
    /\ UNCHANGED <<clock, api, brokerVars, db, memoryVars, dailyVars, kill,
                   idx, todo, historyVars>>

\* A signal on an epic without a cached position, below the position limit.
ConsiderEntry ==
    /\ pc = "epic" /\ idx <= Len(Instruments)
    /\ CachedOn(Epic) = {}
    /\ Cardinality(open_positions) < MaxOpen
    /\ \E dir \in Directions : Gate(Epic, dir)
    /\ UNCHANGED <<clock, api, brokerVars, db, memoryVars, kill, todo, booked,
                   failed, accepted_at, fills_killed>>

EndCycle ==
    /\ pc = "epic" /\ idx > Len(Instruments)
    /\ pc' = "sleep" /\ idx' = 1
    /\ UNCHANGED <<clock, api, brokerVars, db, memoryVars, dailyVars, kill,
                   signal, target, todo, historyVars>>

-----------------------------------------------------------------------------
(* _close_position on a signal flip.                                       *)

\* The broker accepts the close: the profit is booked.
CloseAccepted ==
    /\ pc = "closing" /\ broker[target] = "open"
    /\ broker' = [broker EXCEPT ![target] = "closed"]
    /\ \E p \in Pnls :
         /\ pnl' = [pnl EXCEPT ![target] = p]
         /\ Book(target, p)
    /\ pc' = "persist_close"
    /\ UNCHANGED <<clock, api, deal, expired, db, memoryVars, daily_date,
                   daily_count, kill, localVars, failed, accepted_at,
                   fills_killed>>

\* Any answer other than ACCEPTED (a rejection, an error body, a failed
\* confirmation of an executed close) goes on to the persistence as well;
\* signal is cleared, as the re-entry is not tried.
CloseNotAccepted ==
    /\ pc = "closing"
    /\ \/ UNCHANGED <<broker, pnl>>
       \/ "confirm" \in Faults /\ broker[target] = "open" /\ Realize(target)
    /\ pc' = "persist_close"
    /\ signal' = None
    /\ UNCHANGED <<clock, api, deal, expired, db, memoryVars, dailyVars, kill,
                   idx, target, todo, historyVars>>

\* The HTTP request raises, before or after the broker executed it.
CloseRaises ==
    /\ pc = "closing" /\ "close" \in Faults
    /\ \/ UNCHANGED <<broker, pnl>>
       \/ broker[target] = "open" /\ Realize(target)
    /\ NextEpic
    /\ UNCHANGED <<clock, api, deal, expired, db, memoryVars, dailyVars, kill,
                   todo, historyVars>>

\* The close is persisted; after an accepted one the entry gate decides on
\* the immediate re-entry.
PersistFlipClose ==
    /\ pc = "persist_close"
    /\ PersistClose(target)
    /\ IF signal = None
         THEN NextEpic /\ UNCHANGED <<dailyVars, counted>>
         ELSE Gate(Epic, signal)
    /\ UNCHANGED <<clock, api, brokerVars, memoryVars, kill, todo, booked,
                   accepted_at, fills_killed>>

-----------------------------------------------------------------------------
(* Risk controls, news overlay, _execute_signal.                           *)

\* Mutant: the risk engine forgets the kill switch.
RiskIgnoresKill ==
    /\ pc = "risk"
    /\ pc' = "news"
    /\ UNCHANGED <<clock, api, brokerVars, db, memoryVars, dailyVars, kill,
                   localVars, historyVars>>

\* validate_signal: refused while the kill switch is active; a 15% drawdown
\* activates it; other checks may refuse.
RiskApproves ==
    /\ pc = "risk" /\ ~kill
    /\ pc' = "news"
    /\ UNCHANGED <<clock, api, brokerVars, db, memoryVars, dailyVars, kill,
                   localVars, historyVars>>

RiskRejects ==
    /\ pc = "risk"
    /\ \/ UNCHANGED <<kill, fills_killed>>
       \/ ~kill /\ kill' = TRUE /\ fills_killed' = 0
    /\ NextEpic
    /\ UNCHANGED <<clock, api, brokerVars, db, memoryVars, dailyVars, todo,
                   bookVars, accepted_at>>

\* The news overlay, then the approval checks of _execute_signal.
NewsDecides ==
    /\ pc = "news"
    /\ \/ pc' = "placing" /\ UNCHANGED <<idx, signal, target>>
       \/ NextEpic
    /\ UNCHANGED <<clock, api, brokerVars, db, memoryVars, dailyVars, kill,
                   todo, historyVars>>

\* The broker executes the order that place_order posted.
BrokerFills(d) ==
    /\ pc = "placing"
    /\ broker[d] = "none" /\ \A c \in Deals : c < d => broker[c] # "none"
    /\ broker' = [broker EXCEPT ![d] = "open"]
    /\ deal' = [deal EXCEPT ![d] = [epic |-> Epic, direction |-> signal]]
    /\ target' = d
    /\ pc' = "confirming"
    /\ fills_killed' = IF kill THEN fills_killed + 1 ELSE fills_killed
    /\ UNCHANGED <<clock, api, pnl, expired, db, memoryVars, dailyVars, kill,
                   idx, signal, todo, bookVars, accepted_at>>

\* REJECTED, or an exception with no order at the broker.
OrderRefused ==
    /\ pc = "placing"
    /\ NextEpic
    /\ UNCHANGED <<clock, api, brokerVars, db, memoryVars, dailyVars, kill,
                   todo, historyVars>>

\* ACCEPTED: the daily counters are rolled over and incremented and the
\* cooldown of the epic starts.
CountAcceptedTrade ==
    /\ daily_date' = Today
    /\ daily_count' = CountToday + 1
    /\ daily_pnl' = PnlToday
    /\ counted' = CountedToday
    /\ last_trade' = [last_trade EXCEPT ![Epic] = clock]
    /\ accepted_at' = [accepted_at EXCEPT ![target] = clock]

OrderAccepted ==
    /\ pc = "confirming"
    /\ CountAcceptedTrade
    /\ pc' = "persist_open"
    /\ UNCHANGED <<clock, api, brokerVars, db, open_positions, missing, kill,
                   localVars, booked, failed, fills_killed>>

\* ACCEPTED without a deal id or a level: the kill switch is activated and
\* the trade is not persisted.
OrderWithoutLevel ==
    /\ pc = "confirming" /\ "level" \in Faults
    /\ CountAcceptedTrade
    /\ kill' = TRUE
    /\ fills_killed' = IF kill THEN fills_killed ELSE 0
    /\ NextEpic
    /\ UNCHANGED <<clock, api, brokerVars, db, open_positions, missing, todo,
                   booked, failed>>

\* place_order raises, or returns no dealStatus, after the broker executed.
OrderOutcomeLost ==
    /\ pc = "confirming" /\ "place" \in Faults
    /\ NextEpic
    /\ UNCHANGED <<clock, api, brokerVars, db, memoryVars, dailyVars, kill,
                   todo, historyVars>>

\* _persist_open_trade; its failure is swallowed.
PersistOpen ==
    /\ pc = "persist_open"
    /\ \/ db' = [db EXCEPT ![target] = "open"]
       \/ "db" \in Faults /\ UNCHANGED db
    /\ NextEpic
    /\ UNCHANGED <<clock, api, brokerVars, memoryVars, dailyVars, kill, todo,
                   historyVars>>

-----------------------------------------------------------------------------
Environment ==
    \/ \E d \in Deals : BrokerCloses(d) \/ ApiClose(d) \/ ApiPersist(d)
    \/ \E d \in Deals : TransactionExpires(d)
    \/ ActivateKillSwitch \/ DeactivateKillSwitch
    \/ Tick \/ Restart

Refresh ==
    \/ StartCycle \/ PositionsAnswer \/ RefreshFails \/ CountMissing
    \/ HistoryAnswer \/ ReconcileDone
    \/ \E d \in Deals : ReconcileDeal(d)

Trade ==
    \/ SkipEpic \/ FlipExit \/ ConsiderEntry \/ EndCycle
    \/ CloseAccepted \/ CloseNotAccepted \/ CloseRaises \/ PersistFlipClose
    \/ RiskApproves \/ RiskRejects \/ NewsDecides \/ OrderRefused
    \/ OrderAccepted \/ OrderWithoutLevel \/ OrderOutcomeLost \/ PersistOpen
    \/ \E d \in Deals : BrokerFills(d)

Next == Environment \/ Refresh \/ Trade

Spec == Init /\ [][Next]_vars

\* The event loop always resumes the coroutine, and calls that can succeed
\* succeed again and again: an answered request, a committed session.
Fairness ==
    /\ WF_vars(Refresh \/ Trade)
    /\ SF_vars(PositionsAnswer /\ open_positions' = Live)
    /\ SF_vars(CountMissing)
    /\ SF_vars(HistoryAnswer /\ todo' = Listed)
    /\ \A d \in Deals : SF_vars(ReconcileDeal(d) /\ db'[d] = "closed")

FairSpec == Spec /\ Fairness

-----------------------------------------------------------------------------
(* Safety.                                                                 *)

\* "Maximum daily entries: 3": the orders the loop saw accepted on one UTC day
\* never exceed the cap, wherever midnight falls between the entry gate, the
\* awaits that follow it and the broker's answer.
DailyEntryCap ==
    \A day \in 0..Day(MaxClock) :
        Cardinality({d \in Deals : /\ accepted_at[d] # -1
                                   /\ Day(accepted_at[d]) = day}) <= MaxDaily

\* Two accepted entries on one instrument are at least the cooldown apart,
\* although it is tested well before the order is answered.
CooldownKept ==
    \A c, d \in Deals :
        /\ c < d
        /\ accepted_at[c] # -1 /\ accepted_at[d] # -1
        /\ deal[c].epic = deal[d].epic
        => accepted_at[d] - accepted_at[c] >= Cooldown

\* As long as the positions can be read, the loop never holds two deals on
\* one instrument, also when the outcome of an order was lost.
OneDealPerEpic ==
    \A c, d \in Live : deal[c].epic = deal[d].epic => c = d

\* Entries stay within the loop's limits in time and in number at once: the
\* daily cap, and one deal per instrument.
EntriesAreLimited == DailyEntryCap /\ OneDealPerEpic

\* The profit of a deal enters total_pnl and the daily loss of a process at
\* most once, whichever of the flip exit and the reconciliation sees its close
\* first (a restart starts both sums anew); a commit of the close that fails
\* lets it in once more, and nothing else does.
BookedOnce == \A d \in Deals : booked[d] <= 1 + failed[d]

\* Once the kill switch is active at most the one order already in flight can
\* still be opened before it is deactivated.
OneFillInFlight == fills_killed <= 1

\* The profits booked since the daily counters were last rolled over, each as
\* often as it was booked.
CountedProfit ==
    LET profits == [d \in Deals |-> counted[d] * pnl[d]]
    IN  MapThenSumSet(LAMBDA d : profits[d], Deals)

\* "Daily realized-loss cap: 1%", with the day as the code counts it: no signal
\* passes the entry gate once what the loop booked since the daily counters were
\* last rolled over is a loss of the cap, whichever path booked it, whichever
\* commits failed, and wherever midnight falls between bookings and gates.
CountedLossStopsEntries ==
    [][pc # "risk" /\ pc' = "risk" => CountedProfit' > -LossCap]_vars

\* Reconciliation closes a persisted trade only after the broker closed the
\* deal, however late the positions list and the transaction history are.
ReconcileOnlyClosed ==
    [][pc = "reconcile" =>
         \A d \in Deals : db[d] = "open" /\ db'[d] = "closed" =>
                             broker'[d] = "closed"]_vars

\* The books are true, and the gate obeys them.
BooksAreTrueAndObeyed == ReconcileOnlyClosed /\ CountedLossStopsEntries

(* Liveness.                                                               *)

\* A deal the broker closed (stop, limit, an unanswered close) does not stay
\* open in the database: the reconciliation finds it, however its answers fail
\* or lag, as long as IG lists the transaction; after that nothing does.
BrokerCloseIsPersisted ==
    \A d \in Deals : (broker[d] = "closed" /\ db[d] = "open")
                        ~> (db[d] = "closed" \/ d \in expired)

(* What the documentation says and the code does not do.                   *)

\* "Persist positions closed by broker-managed stops, limits, or expiry": a deal
\* closed during an outage of more than a day, or beyond the page of
\* transactions, stays open in the database.
EveryCloseIsPersisted ==
    \A d \in Deals :
        (broker[d] = "closed" /\ db[d] = "open") ~> (db[d] = "closed")

\* README: "Maximum open positions: 1".
OpenPositionLimit == Cardinality(Live) <= MaxOpen

\* Design property 14, kill switch active: "No new positions are opened".
NoFillWhileKilled == fills_killed = 0

\* _persist_closed_trade: "Close the matching persisted trade/position when IG
\* confirms closure".
CloseIsConfirmed == \A d \in Deals : db[d] = "closed" => broker[d] = "closed"

\* _trading_cycle: "Immediately re-enter in new direction": after an accepted
\* flip close, a signal that no other gate refuses reaches the risk controls.
FlipReenters ==
    [][/\ pc = "persist_close" /\ signal # None
       /\ \A ok \in Markets : ~OtherGatesReject(Epic, signal, ok)
       => pc' = "risk"]_vars

\* Requirement 6.2: an active kill switch has all open positions closed.
KillSwitchFlattens == kill ~> (Live = {} \/ ~kill)
=============================================================================
