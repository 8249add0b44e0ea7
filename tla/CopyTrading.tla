---------------------------- MODULE CopyTrading ----------------------------
(***************************************************************************)
(* CopyEngine (copy_trading/copy_engine.py): the trades of followed        *)
(* traders are replicated once the risk engine has allowed them, closed    *)
(* when their source closes them, and all closed when the trader is        *)
(* stopped.                                                                *)
(*                                                                         *)
(* The only suspension of the engine is the risk validation, awaited for   *)
(* at most the execution timeout: everything else, the loop of             *)
(* stop_copying_trader included, runs to its end.  Time is abstracted to   *)
(* whether the timeout has passed, but for the window of the drawdown,     *)
(* counted in days.  The caller chooses when to register, check and stop,  *)
(* and the profits it reports.                                             *)
(***************************************************************************)
EXTENDS Naturals, Sequences, FiniteSets, FiniteSetsExt, SequencesExt

CONSTANTS Traders,        \* the source traders
          Pnls,           \* the cumulative profits the caller reports
          DrawdownLimit,  \* drawdown_stop_pct of the allocated equity
          DrawdownDays,   \* the window of the drawdown, 7 days
          MaxDeals,       \* bound: replications requested
          MaxReports,     \* bound: reports in one history
          MaxDays         \* bound: days the model runs

ASSUME CopyAssumption == /\ Pnls \subseteq Nat
                         /\ {DrawdownLimit, DrawdownDays, MaxDeals, MaxReports, MaxDays} \subseteq Nat

VARIABLES allocations,  \* _trader_allocations: open_positions and pnl_history
          copies,       \* _active_copies: deal -> trader
          validations,  \* the replications awaiting the risk engine
          deal_counter, \* _deal_counter
          today,        \* the day of the clock
          orphans,      \* observer: copies no allocation was told of, or was made to forget
          reports,      \* observer: every profit reported of a trader since its registration
          alarm         \* the answer of the last check_drawdown_stop

copyVars == <<allocations, copies, validations, deal_counter, today, orphans, reports, alarm>>

Deals == 1..MaxDeals
Report == [day : 0..MaxDays, pnl : Pnls]

CopiesOf(t) == {d \in DOMAIN copies : copies[d] = t}

With(f, x, v) == [y \in DOMAIN f \cup {x} |-> IF y = x THEN v ELSE f[y]]
Without(f, S) == [x \in DOMAIN f \ S |-> f[x]]

CopyTypeOK ==
  /\ DOMAIN allocations \subseteq Traders
  /\ \A t \in DOMAIN allocations :
       /\ allocations[t].open_positions \subseteq Deals
       /\ \A i \in DOMAIN allocations[t].pnl_history : allocations[t].pnl_history[i] \in Report
  /\ DOMAIN copies \subseteq Deals
  /\ \A d \in DOMAIN copies : copies[d] \in Traders
  /\ DOMAIN validations \subseteq Deals
  /\ deal_counter \in 0..MaxDeals /\ today \in 0..MaxDays
  /\ orphans \subseteq Deals
  /\ reports \in [Traders -> SUBSET Report] /\ alarm \in BOOLEAN

CopyInit ==
  /\ allocations = <<>> /\ copies = <<>> /\ validations = <<>>
  /\ deal_counter = 0 /\ today = 0
  /\ orphans = {} /\ reports = [t \in Traders |-> {}] /\ alarm = FALSE

-----------------------------------------------------------------------------
\* register_trader: the allocation of a trader already followed is overwritten.
RegisterTrader(t) ==
  /\ allocations' = With(allocations, t, [open_positions |-> {}, pnl_history |-> <<>>])
  /\ orphans' = orphans \cup CopiesOf(t)
  /\ reports' = [reports EXCEPT ![t] = {}]
  /\ UNCHANGED <<copies, validations, deal_counter, today, alarm>>

\* replicate_trade up to its await: the deal has its number whatever follows.
ReplicateTrade(t) ==
  /\ deal_counter < MaxDeals
  /\ deal_counter' = deal_counter + 1
  /\ \/ validations' = With(validations, deal_counter', [trader |-> t, answer |-> "awaited"])
     \/ UNCHANGED validations      \* no equity: CANCELLED
  /\ UNCHANGED <<allocations, copies, today, orphans, reports, alarm>>

\* The risk engine answers; the replication has not been resumed yet.
RiskEngineAnswers(d) ==
  /\ d \in DOMAIN validations /\ validations[d].answer = "awaited"
  /\ \E answer \in {"allowed", "rejected"} :
       validations' = [validations EXCEPT ![d].answer = answer]
  /\ UNCHANGED <<allocations, copies, deal_counter, today, orphans, reports, alarm>>

\* The replication ends without a copy: rejected, out of time during the validation, or
\* resumed after its time.
Abandon(d) ==
  /\ d \in DOMAIN validations
  /\ validations' = Without(validations, {d})
  /\ UNCHANGED <<allocations, copies, deal_counter, today, orphans, reports, alarm>>

\* The replication is resumed in time with an allowed trade.  The copy is active whether or not
\* its trader is still followed.
Execute(d) ==
  /\ d \in DOMAIN validations /\ validations[d].answer = "allowed"
  /\ LET t == validations[d].trader IN
     /\ copies' = With(copies, d, t)
     /\ IF t \in DOMAIN allocations
        THEN /\ allocations' = [allocations EXCEPT ![t].open_positions = @ \cup {d}]
             /\ UNCHANGED orphans
        ELSE /\ orphans' = orphans \cup {d}
             /\ UNCHANGED allocations
  /\ validations' = Without(validations, {d})
  /\ UNCHANGED <<deal_counter, today, reports, alarm>>

\* Mutant: the close leaves the deal in the book of its trader.
ForgetNothing(alloc, t, d) == alloc

\* The effect of close_copied_position on the allocation of trader t.
Forget(alloc, t, d) ==
  IF t \in DOMAIN alloc THEN [alloc EXCEPT ![t].open_positions = @ \ {d}] ELSE alloc

\* close_copied_position of an active copy; an unknown one is answered None.
CloseCopiedPosition(d) ==
  /\ d \in DOMAIN copies
  /\ allocations' = Forget(allocations, copies[d], d)
  /\ copies' = Without(copies, {d})
  /\ orphans' = orphans \ {d}
  /\ UNCHANGED <<validations, deal_counter, today, reports, alarm>>

\* stop_copying_trader (and handle_drawdown_stop): the copies active now are closed, then the
\* trader is forgotten.  A replication that awaits the risk engine is not.
StopCopyingTrader(t) ==
  /\ t \in DOMAIN allocations \/ CopiesOf(t) # {}
  /\ copies' = Without(copies, CopiesOf(t))
  /\ allocations' = Without(allocations, {t})
  /\ orphans' = orphans \ CopiesOf(t)
  /\ reports' = [reports EXCEPT ![t] = {}]
  /\ UNCHANGED <<validations, deal_counter, today, alarm>>

\* Mutant: a report on the edge of the window is dropped.
StrictlyRecent(history) == SelectSeq(history, LAMBDA r : r.day + DrawdownDays > today)

\* The reports of the last DrawdownDays.
RecentResults(history) == SelectSeq(history, LAMBDA r : r.day + DrawdownDays >= today)


\* check_drawdown_stop: the profit is recorded, what is older than the window is dropped, and
\* the fall from the highest one left is compared with the limit.
CheckDrawdownStop(t, pnl) ==
  /\ t \in DOMAIN allocations /\ Len(allocations[t].pnl_history) < MaxReports
  /\ LET history == RecentResults(Append(allocations[t].pnl_history, [day |-> today, pnl |-> pnl]))
         peak == Max({history[i].pnl : i \in DOMAIN history})
     IN /\ allocations' = [allocations EXCEPT ![t].pnl_history = history]
        /\ alarm' = (peak >= pnl + DrawdownLimit)
  /\ reports' = [reports EXCEPT ![t] = @ \cup {[day |-> today, pnl |-> pnl]}]
  /\ UNCHANGED <<copies, validations, deal_counter, today, orphans>>

NextDay ==
  /\ today < MaxDays
  /\ today' = today + 1
  /\ UNCHANGED <<allocations, copies, validations, deal_counter, orphans, reports, alarm>>

CopyNext ==
  \/ \E t \in Traders :
       \/ RegisterTrader(t)
       \/ ReplicateTrade(t)
       \/ StopCopyingTrader(t)
       \/ \E pnl \in Pnls : CheckDrawdownStop(t, pnl)
  \/ \E d \in Deals :
       \/ RiskEngineAnswers(d)
       \/ Abandon(d)
       \/ Execute(d)
       \/ CloseCopiedPosition(d)
  \/ NextDay

CopySpec == CopyInit /\ [][CopyNext]_copyVars

-----------------------------------------------------------------------------
\* The two books of the engine agree: a trader's open_positions are the active copies of its
\* trades, but for those of a former registration and those executed while the trader was not
\* followed (replicate_trade, close_copied_position, stop_copying_trader).
BooksOfCopiesAgree ==
  \A t \in DOMAIN allocations : allocations[t].open_positions = CopiesOf(t) \ orphans

\* The answer of check_drawdown_stop is that of the whole record: trimming the history at each
\* check never hides a peak that is still in the window, nor keeps one that has left it.
DrawdownIsCaught ==
  [][\A t \in Traders, pnl \in Pnls :
       CheckDrawdownStop(t, pnl) =>
         alarm' = \E r \in reports'[t] : /\ r.day + DrawdownDays >= today
                                         /\ r.pnl >= pnl + DrawdownLimit]_copyVars

\* Not so in the code: once a trader is stopped nothing of it stays open (the class promises the
\* drawdown stop closes all positions); a replication that awaits the risk engine is executed
\* after the stop.
StoppedIsClosed == \A d \in DOMAIN copies : copies[d] \in DOMAIN allocations
=============================================================================
