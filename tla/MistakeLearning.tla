-------------------------- MODULE MistakeLearning --------------------------
(***************************************************************************)
(* Learning from mistakes (src/src/learning/mistake_analyzer.py with the   *)
(* PersistentMistakeDatabase main.py gives it): the trading loop feeds each*)
(* closed trade to it, patterns of losses penalise later signals, and the  *)
(* patterns live in the database and, as copies, in active_patterns.       *)
(*                                                                         *)
(* The trading loop is the only caller and awaits each call.  Between any  *)
(* two database calls the process may stop and start again, and any call   *)
(* may raise, a write before or after it was committed.  Reads that follow *)
(* one another with no write between are one step.                         *)
(***************************************************************************)
EXTENDS Integers, Sequences, FiniteSetsExt

CONSTANTS
    Contexts,          \* (regime, strategy) pairs of trades
    PatternThreshold,  \* MISTAKE_PATTERN_THRESHOLD
    PatternWindow,     \* MISTAKE_PATTERN_WINDOW_DAYS
    ResolutionStreak,  \* MISTAKE_RESOLUTION_STREAK
    MaxLosses,         \* bound: mistakes recorded
    MaxTrades,         \* bound: trades fed
    MaxStops,          \* bound: restarts of the process
    MaxLearnDay        \* bound: time, in days

ASSUME MistakeLearningAssumption ==
    /\ PatternThreshold \in Nat \ {0} /\ ResolutionStreak \in Nat \ {0}
    /\ PatternWindow \in Nat

VARIABLES
    db_records,       \* mistake_records: day and context of each loss
    db_patterns,      \* mistake_patterns, by id
    active_patterns,  \* the analyzer's copies, a set of [id, pattern]
    learning,         \* the call in progress, and what it is about to write
    learn_day, fed, stops,
    profits,          \* history: trades fed since the last loss
    resolved_with     \* history: mistakes recorded when the class was resolved

mistakeVars == <<db_records, db_patterns, active_patterns, learning, learn_day,
                 fed, stops, profits, resolved_with>>

Quiet == [at |-> "idle"]

MistakeInit ==
    /\ db_records = << >> /\ db_patterns = << >> /\ active_patterns = {}
    /\ learning = Quiet /\ learn_day = 0 /\ fed = 0 /\ stops = 0
    /\ profits = 0 /\ resolved_with = -1

\* A closed trade: its context, how many of the five indicators of a pattern
\* it agrees with, and the sign of its result.
ClosedTrades == [context : Contexts, agree : {2, 3}, pnl : {-1, 0, 1}]

-----------------------------------------------------------------------------
\* Pure parts

\* classify_mistake, first match wins.
ClassifyMistake(o) ==
    CASE o.regime_differs     -> "regime_misclassification"
      [] ~o.regime_differs /\ o.against_market -> "counter_trend_entry"
      [] ~o.regime_differs /\ ~o.against_market /\ ~o.breakout_confirmed
                              -> "false_breakout"
      [] OTHER                -> "poor_timing"

\* The outcome the trading loop makes up for a loss: the market went the other
\* way, in the regime the trade was opened in.
LoopOutcome == [regime_differs |-> FALSE, against_market |-> TRUE,
                breakout_confirmed |-> TRUE]

\* matches_pattern: same regime and strategy, and three of five indicators.
Matches(trade, p) == trade.context = p.context /\ trade.agree >= 3

\* The records of the class within the window.
RecentLosses == SelectSeq(db_records, LAMBDA r : r.day >= learn_day - PatternWindow)

\* _average_indicators: the most common context; the first of equals.
MostCommon(records) ==
    LET Count(c) == Cardinality({k \in DOMAIN records : records[k].context = c})
        First(c) == Min({k \in DOMAIN records : records[k].context = c})
        Seen == {records[k].context : k \in DOMAIN records}
    IN CHOOSE c \in Seen : \A d \in Seen \ {c} :
          Count(c) > Count(d) \/ (Count(c) = Count(d) /\ First(c) < First(d))

NewPattern(records) ==
    [class |-> ClassifyMistake(LoopOutcome), context |-> MostCommon(records),
     active |-> TRUE, reactivated |-> FALSE, penalty |-> 20, progress |-> 0]

Reactivated(p) ==
    [p EXCEPT !.active = TRUE, !.reactivated = TRUE, !.penalty = 30, !.progress = 0]

ActiveCopies == {a \in active_patterns : a.pattern.active}

\* get_confidence_penalty, get_size_reduction_factor: the copies whose penalties add up
\* and whose factors multiply for a trade.
Penalising(trade) == {a \in ActiveCopies : Matches(trade, a.pattern)}

-----------------------------------------------------------------------------
\* A database write: committed or not, it may raise.  After one that raises the
\* call is over; the loop prints the error and goes on.
DbWrite(patterns, next) ==
    \/ db_patterns' = patterns /\ learning' = next
    \/ db_patterns' = patterns /\ learning' = Quiet
    \/ db_patterns' = db_patterns /\ learning' = Quiet

\* _record_learning_outcome of a loss: classify, record, store.
FeedLoss(trade) ==
    /\ learning = Quiet /\ trade.pnl < 0 /\ fed < MaxTrades
    /\ Len(db_records) < MaxLosses
    /\ \/ /\ db_records' = Append(db_records, [day |-> learn_day, context |-> trade.context])
          /\ learning' \in {[at |-> "detect"], Quiet}
       \/ UNCHANGED <<db_records, learning>>
    /\ fed' = fed + 1 /\ profits' = 0
    /\ UNCHANGED <<db_patterns, active_patterns, learn_day, stops, resolved_with>>

\* Any other result goes to update_resolution_progress, which goes through a list of
\* the active copies; what it does to one of them does not touch the others.
FeedProfit(trade) ==
    /\ learning = Quiet /\ trade.pnl >= 0 /\ fed < MaxTrades
    /\ learning' = [at |-> "progress", trade |-> trade,
                    left |-> {a.id : a \in ActiveCopies}]
    /\ fed' = fed + 1 /\ profits' = IF trade.pnl > 0 THEN profits + 1 ELSE 0
    /\ UNCHANGED <<db_records, db_patterns, active_patterns, learn_day, stops,
                   resolved_with>>

-----------------------------------------------------------------------------
\* detect_patterns

ActiveRows == {k \in DOMAIN db_patterns : db_patterns[k].active}
ResolvedRows == DOMAIN db_patterns \ ActiveRows

NotEnough ==
    /\ learning.at = "detect" /\ Len(RecentLosses) < PatternThreshold
    /\ learning' = Quiet
    /\ UNCHANGED <<db_records, db_patterns, active_patterns, learn_day, fed,
                   stops, profits, resolved_with>>

\* The existing row gets its new count, which no property is about.
UpdateExisting ==
    /\ learning.at = "detect" /\ Len(RecentLosses) >= PatternThreshold
    /\ ActiveRows # {}
    /\ learning' = Quiet
    /\ UNCHANGED <<db_records, db_patterns, active_patterns, learn_day, fed,
                   stops, profits, resolved_with>>

\* Mutant: a resolved pattern is not looked for.
CreateAlways ==
    /\ learning.at = "detect" /\ Len(RecentLosses) >= PatternThreshold
    /\ ActiveRows = {}
    /\ LET p == NewPattern(RecentLosses)
       IN DbWrite(Append(db_patterns, p),
            [at |-> "applied", id |-> Len(db_patterns) + 1, pattern |-> p])
    /\ UNCHANGED <<db_records, active_patterns, learn_day, fed, stops, profits,
                   resolved_with>>

CreatePattern ==
    /\ learning.at = "detect" /\ Len(RecentLosses) >= PatternThreshold
    /\ ActiveRows = {} /\ ResolvedRows = {}
    /\ LET p == NewPattern(RecentLosses)
       IN DbWrite(Append(db_patterns, p),
            [at |-> "applied", id |-> Len(db_patterns) + 1, pattern |-> p])
    /\ UNCHANGED <<db_records, active_patterns, learn_day, fed, stops, profits,
                   resolved_with>>

\* Mutant: the copy is applied before the row is written.
ReactivateEagerly ==
    /\ learning.at = "detect" /\ Len(RecentLosses) >= PatternThreshold
    /\ ActiveRows = {} /\ ResolvedRows # {}
    /\ LET k == Max(ResolvedRows)
           p == Reactivated(db_patterns[k])
       IN /\ active_patterns' = active_patterns \cup {[id |-> k, pattern |-> p]}
          /\ DbWrite([db_patterns EXCEPT ![k] = p], Quiet)
    /\ UNCHANGED <<db_records, learn_day, fed, stops, profits, resolved_with>>

\* reactivate_pattern, with a fresh copy of the newest resolved row
ReactivatePattern ==
    /\ learning.at = "detect" /\ Len(RecentLosses) >= PatternThreshold
    /\ ActiveRows = {} /\ ResolvedRows # {}
    /\ LET k == Max(ResolvedRows)
           p == Reactivated(db_patterns[k])
       IN DbWrite([db_patterns EXCEPT ![k] = p],
                  [at |-> "applied", id |-> k, pattern |-> p])
    /\ UNCHANGED <<db_records, active_patterns, learn_day, fed, stops, profits,
                   resolved_with>>

\* The write returned: the copy is applied to signals from now on, unless an equal one is.
ApplyPattern ==
    /\ learning.at = "applied"
    /\ active_patterns' =
          active_patterns \cup {[id |-> learning.id, pattern |-> learning.pattern]}
    /\ learning' = Quiet
    /\ UNCHANGED <<db_records, db_patterns, learn_day, fed, stops, profits,
                   resolved_with>>

-----------------------------------------------------------------------------
\* update_resolution_progress

\* The active copy of a row that is in the list.
CopyOf(id) == CHOOSE a \in ActiveCopies : a.id = id

ProgressEnds ==
    /\ learning.at = "progress" /\ learning.left = {}
    /\ learning' = Quiet
    /\ UNCHANGED <<db_records, db_patterns, active_patterns, learn_day, fed,
                   stops, profits, resolved_with>>

SkipPattern(id) ==
    /\ learning.at = "progress" /\ id \in learning.left
    /\ ~Matches(learning.trade, CopyOf(id).pattern)
    /\ learning' = [at |-> "progress", trade |-> learning.trade,
                    left |-> learning.left \ {id}]
    /\ UNCHANGED <<db_records, db_patterns, active_patterns, learn_day, fed,
                   stops, profits, resolved_with>>

\* The copy counts, the row follows; the last profit deactivates both.
Progress(id) ==
    /\ learning.at = "progress" /\ id \in learning.left
    /\ LET p == CopyOf(id).pattern
           count == IF learning.trade.pnl > 0 THEN p.progress + 1 ELSE 0
           resolved == count >= ResolutionStreak
           q == [p EXCEPT !.progress = count, !.active = ~resolved]
           row == IF resolved THEN [db_patterns[id] EXCEPT !.active = FALSE]
                  ELSE [db_patterns[id] EXCEPT !.progress = count]
           rest == learning.left \ {id}
       IN /\ Matches(learning.trade, p)
          /\ active_patterns' = (active_patterns \ {CopyOf(id)}) \cup {[id |-> id, pattern |-> q]}
          /\ DbWrite([db_patterns EXCEPT ![id] = row],
                     [at |-> IF resolved THEN "resolved" ELSE "progress", id |-> id,
                      trade |-> learning.trade, left |-> rest])
          /\ resolved_with' = IF resolved THEN Len(db_records) ELSE resolved_with
    /\ UNCHANGED <<db_records, learn_day, fed, stops, profits>>

\* The resolved pattern leaves the list, with every copy of it.
RemoveResolved ==
    /\ learning.at = "resolved"
    /\ active_patterns' = {a \in active_patterns : a.id # learning.id}
    /\ learning' = [at |-> "progress", trade |-> learning.trade, left |-> learning.left]
    /\ UNCHANGED <<db_records, db_patterns, learn_day, fed, stops, profits,
                   resolved_with>>

-----------------------------------------------------------------------------
\* The process stops anywhere and starts again: load_patterns_on_startup reads
\* the active rows, or fails and leaves the list empty.
Restart ==
    /\ stops < MaxStops
    /\ \/ active_patterns' = {[id |-> k, pattern |-> db_patterns[k]] : k \in ActiveRows}
       \/ active_patterns' = {}
    /\ stops' = stops + 1 /\ learning' = Quiet
    /\ UNCHANGED <<db_records, db_patterns, learn_day, fed, profits, resolved_with>>

LearnDay ==
    /\ learn_day < MaxLearnDay /\ learn_day' = learn_day + 1
    /\ UNCHANGED <<db_records, db_patterns, active_patterns, learning, fed, stops,
                   profits, resolved_with>>

MistakeNext ==
    \/ \E trade \in ClosedTrades : FeedLoss(trade) \/ FeedProfit(trade)
    \/ NotEnough \/ UpdateExisting \/ CreatePattern \/ ReactivatePattern
    \/ ApplyPattern \/ ProgressEnds \/ RemoveResolved
    \/ \E id \in DOMAIN db_patterns : SkipPattern(id) \/ Progress(id)
    \/ Restart \/ LearnDay

MistakeSpec == MistakeInit /\ [][MistakeNext]_mistakeVars

-----------------------------------------------------------------------------
\* A penalty in force is backed by an active row, whatever write failed and
\* wherever the process stopped: no restart forgets it, and none is applied
\* twice for one class.
PenaltyIsPersistent ==
    /\ \A a \in ActiveCopies : db_patterns[a.id].active
    /\ \A trade \in ClosedTrades : \A a, b \in Penalising(trade) :
          a = b /\ a.pattern.penalty <= 30

\* A class has one pattern for ever: creations, resolutions and reactivations
\* across failures and restarts never leave two rows.
OnePatternPerClass ==
    \A j, k \in DOMAIN db_patterns :
        db_patterns[j].class = db_patterns[k].class => j = k

\* The cache the penalties are taken from and the rows that outlive the process agree,
\* after any failed write, stop and restart.
PatternsAgree == PenaltyIsPersistent /\ OnePatternPerClass

\* Documented, and not so: a loss resets the progress.  The loop feeds losses
\* to the detection only.
ConsecutiveProfits ==
    \A a \in active_patterns : a.pattern.progress <= profits

\* Documented, and not so: a resolved pattern comes back after PatternThreshold
\* new losses.  Those from before its resolution still count.
ReactivationNeedsNewLosses ==
    [][\A k \in DOMAIN db_patterns :
         ~db_patterns[k].active /\ db_patterns'[k].active =>
            Len(db_records) - resolved_with >= PatternThreshold]_mistakeVars

\* Documented, and not so: active patterns apply from the start, with no warm-up.
AppliedFromTheStart ==
    learning = Quiet =>
        \A k \in ActiveRows : \E a \in active_patterns : a.id = k
=============================================================================
