---------------------------- MODULE HFTPipeline ----------------------------
(***************************************************************************)
(* The HFT pipeline (src/src/trading/hft_pipeline.py): ticks become        *)
(* signals, several coroutines put theirs in one batch buffer, and the     *)
(* first whose window ends submits what is in it by then.                  *)
(*                                                                         *)
(* process_tick(), enable() and disable() have no await that suspends      *)
(* between their first test and their last assignment; batch_and_submit()  *)
(* sleeps for the window and gathers the submissions.  Time is counted in  *)
(* ticks of BatchWindow's unit.                                            *)
(***************************************************************************)
EXTENDS Integers, FiniteSets, SequencesExt

CONSTANTS
    Callers,          \* coroutines that call process_tick and batch_and_submit
    PipeQuotes,           \* the ticks the stream may deliver
    BatchWindow,      \* batch_window_ms
    PipeRateWindow,       \* the second of the rate trackers
    PipeMaxOrderRate,     \* max_order_rate
    MaxQuotes,        \* bound: ticks processed
    MaxSwitches,      \* bound: changes of the mode
    MaxClock          \* bound: time

\* A tick: the volumes, the spread and its average, and the move in
\* hundredths of a percent.
Quote == [instrument : STRING, bid_volume : Nat, ask_volume : Nat,
          spread : Int, avg_spread : Nat, move : Int]

ASSUME HFTPipelineAssumption ==
    /\ PipeQuotes \subseteq Quote
    /\ BatchWindow \in Nat /\ PipeRateWindow \in Nat \ {0}
    /\ MaxQuotes \in Nat /\ MaxSwitches \in Nat /\ MaxClock \in Nat

VARIABLES
    enabled,        \* active
    batch_buffer,   \* _batch_buffer
    caller,         \* where each coroutine is suspended, with what
    mode_changes,   \* _mode_changes, each with the number of signals drained
    tracked,        \* the rate trackers: orders recorded, with their time
    clock,
    quotes,         \* number of ticks processed
    fate            \* history: the signals that entered the buffer, those
                    \* submitted and those drained

pipeVars == <<enabled, batch_buffer, caller, mode_changes, tracked, clock,
              quotes, fate>>

Idle == [at |-> "idle", signals |-> << >>, due |-> 0]

PipeInit ==
    /\ enabled = FALSE /\ batch_buffer = << >> /\ mode_changes = << >>
    /\ caller = [c \in Callers |-> Idle]
    /\ tracked = << >> /\ clock = 0 /\ quotes = 0
    /\ fate = [entered |-> {}, submitted |-> << >>, drained |-> << >>]

-----------------------------------------------------------------------------
\* Microstructure analysis

\* |bid - ask| / total > 0.6
OrderFlowImbalance(q) ==
    /\ q.bid_volume + q.ask_volume > 0
    /\ \/ 10 * (q.bid_volume - q.ask_volume) > 6 * (q.bid_volume + q.ask_volume)
       \/ 10 * (q.ask_volume - q.bid_volume) > 6 * (q.bid_volume + q.ask_volume)

\* The spread is below 40 percent of its average, and not crossed.
SpreadCompression(q) ==
    q.avg_spread > 0 /\ q.spread > 0 /\ 10 * q.spread < 4 * q.avg_spread

\* More than a tenth of a percent in one tick.
MomentumBurst(q) == q.move > 10 \/ q.move < -10

Kinds(q) ==
    {k \in {"imbalance", "compression", "burst"} :
        \/ k = "imbalance" /\ OrderFlowImbalance(q)
        \/ k = "compression" /\ SpreadCompression(q)
        \/ k = "burst" /\ MomentumBurst(q)}

\* process_tick: the signals of one tick, in the order of the detectors.
SignalsOf(q) ==
    [i \in 1..Cardinality(Kinds(q)) |->
       [quote |-> quotes + 1, instrument |-> q.instrument, number |-> i]]

ProcessTick(c, q) ==
    /\ enabled /\ caller[c] = Idle /\ quotes < MaxQuotes
    /\ quotes' = quotes + 1
    /\ caller' = [caller EXCEPT
         ![c] = IF Kinds(q) = {} THEN Idle
                ELSE [at |-> "holding", signals |-> SignalsOf(q), due |-> 0]]
    /\ UNCHANGED <<enabled, batch_buffer, mode_changes, tracked, clock, fate>>

-----------------------------------------------------------------------------
\* batch_and_submit

\* The signals join the buffer, whatever the mode is by now.
JoinBatch(c) ==
    /\ caller[c].at = "holding"
    /\ batch_buffer' = batch_buffer \o caller[c].signals
    /\ caller' = [caller EXCEPT
         ![c] = [at |-> "window", signals |-> << >>, due |-> clock + BatchWindow]]
    /\ fate' = [fate EXCEPT !.entered = @ \cup ToSet(caller[c].signals)]
    /\ UNCHANGED <<enabled, mode_changes, tracked, clock, quotes>>

\* Mutant: the buffer is copied and not cleared.
TakeBatchAndKeep(c) ==
    /\ caller[c].at = "window" /\ clock >= caller[c].due
    /\ UNCHANGED batch_buffer
    /\ caller' = [caller EXCEPT
         ![c] = IF batch_buffer = << >> THEN Idle
                ELSE [at |-> "gather", signals |-> batch_buffer, due |-> 0]]
    /\ fate' = [fate EXCEPT !.submitted = @ \o batch_buffer]
    /\ UNCHANGED <<enabled, mode_changes, tracked, clock, quotes>>

\* Mutant: the buffer is cleared before it is copied for this coroutine.
TakeBatchAndLose(c) ==
    /\ caller[c].at = "window" /\ clock >= caller[c].due
    /\ batch_buffer' = << >>
    /\ caller' = [caller EXCEPT ![c] = Idle]
    /\ UNCHANGED <<enabled, mode_changes, tracked, clock, quotes, fate>>

\* Mutant: one signal is taken per window.
TakeOne(c) ==
    /\ caller[c].at = "window" /\ clock >= caller[c].due
    /\ batch_buffer' = IF batch_buffer = << >> THEN << >> ELSE Tail(batch_buffer)
    /\ caller' = [caller EXCEPT
         ![c] = IF batch_buffer = << >> THEN Idle
                ELSE [at |-> "gather", signals |-> <<Head(batch_buffer)>>, due |-> 0]]
    /\ fate' = [fate EXCEPT !.submitted =
         IF batch_buffer = << >> THEN @ ELSE Append(@, Head(batch_buffer))]
    /\ UNCHANGED <<enabled, mode_changes, tracked, clock, quotes>>

\* The window has passed: the coroutine takes the whole buffer, which may hold
\* the signals of others or be empty, and submits it.
TakeBatch(c) ==
    /\ caller[c].at = "window" /\ clock >= caller[c].due
    /\ batch_buffer' = << >>
    /\ caller' = [caller EXCEPT
         ![c] = IF batch_buffer = << >> THEN Idle
                ELSE [at |-> "gather", signals |-> batch_buffer, due |-> 0]]
    /\ fate' = [fate EXCEPT !.submitted = @ \o batch_buffer]
    /\ UNCHANGED <<enabled, mode_changes, tracked, clock, quotes>>

\* gather() returns: every order is recorded in the rate trackers.
RecordBatch(c) ==
    /\ caller[c].at = "gather"
    /\ tracked' = tracked \o [i \in DOMAIN caller[c].signals |->
                     [instrument |-> caller[c].signals[i].instrument, at |-> clock]]
    /\ caller' = [caller EXCEPT ![c] = Idle]
    /\ UNCHANGED <<enabled, batch_buffer, mode_changes, clock, quotes, fate>>

-----------------------------------------------------------------------------
\* Mode

Enable ==
    /\ ~enabled /\ Len(mode_changes) < MaxSwitches
    /\ enabled' = TRUE
    /\ mode_changes' = Append(mode_changes, 0)
    /\ UNCHANGED <<batch_buffer, caller, tracked, clock, quotes, fate>>

\* The mode goes off and the buffer is drained.
Disable ==
    /\ enabled /\ Len(mode_changes) < MaxSwitches
    /\ enabled' = FALSE
    /\ batch_buffer' = << >>
    /\ mode_changes' = Append(mode_changes, Len(batch_buffer))
    /\ fate' = [fate EXCEPT !.drained = @ \o batch_buffer]
    /\ UNCHANGED <<caller, tracked, clock, quotes>>

\* Timers are prompt: time does not pass a window that has ended.
ClockAdvances ==
    /\ clock < MaxClock
    /\ \A c \in Callers : caller[c].at = "window" => clock < caller[c].due
    /\ clock' = clock + 1
    /\ UNCHANGED <<enabled, batch_buffer, caller, mode_changes, tracked, quotes,
                   fate>>

PipeNext ==
    \/ \E c \in Callers :
          \/ \E q \in PipeQuotes : ProcessTick(c, q)
          \/ JoinBatch(c) \/ TakeBatch(c) \/ RecordBatch(c)
    \/ Enable \/ Disable \/ ClockAdvances

PipeFairness ==
    /\ \A c \in Callers : WF_pipeVars(TakeBatch(c))
    /\ WF_pipeVars(ClockAdvances)

PipeSpec == PipeInit /\ [][PipeNext]_pipeVars /\ PipeFairness

-----------------------------------------------------------------------------
Signals == ToSet(batch_buffer) \cup ToSet(fate.submitted) \cup ToSet(fate.drained)

\* Coroutines share one buffer, each taking what is there when its own window
\* ends while others join it and the mode is switched: every signal that entered
\* the buffer is in it, submitted or drained, so none is lost, and it is one of
\* these once, so none is submitted twice or submitted after it was drained.
EachSignalOnce ==
    /\ Signals = fate.entered
    /\ Len(batch_buffer) + Len(fate.submitted) + Len(fate.drained)
         = Cardinality(fate.entered)

\* No signal outlives the window of the coroutine that brought it: somebody's
\* window has not ended while the buffer holds anything.
BufferIsAwaited ==
    batch_buffer # << >> =>
        \E c \in Callers : caller[c].at = "window"
                           /\ caller[c].due <= clock + BatchWindow

\* Documented, and not so: no order is submitted while the mode is off.
SilentWhenDisabled ==
    [][Len(fate'.submitted) > Len(fate.submitted) => enabled]_pipeVars

\* Documented, and not so: at most max_order_rate orders a second.
SubmissionRateBounded ==
    \A k \in DOMAIN tracked :
        Cardinality({j \in DOMAIN tracked :
            tracked[j].at \in (tracked[k].at - PipeRateWindow + 1)..tracked[k].at})
          <= PipeMaxOrderRate
=============================================================================
