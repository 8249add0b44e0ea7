------------------------------ MODULE NewsSafety ------------------------------
(***************************************************************************)
(* The news overlay every entry passes                                     *)
(* (src/src/news/free_news_safety.py): a calendar and headlines fetched from*)
(* several providers under a lock, cached for check_interval, and the      *)
(* decision evaluate() takes from the cache.                               *)
(***************************************************************************)
EXTENDS Integers, FiniteSets, SequencesExt

CONSTANTS
    Callers,            \* signals evaluated at the same time
    Providers,          \* in their order; each [calendar : BOOLEAN]
    CheckInterval,      \* check_interval, in ticks
    BlockBefore,        \* block_before
    BlockAfter,         \* block_after
    MaxSafetyClock      \* bound: time

ASSUME SafetyAssumption ==
    /\ {BlockBefore, BlockAfter, MaxSafetyClock} \subseteq Nat
    /\ CheckInterval \in Nat \ {0}
    /\ \A i \in DOMAIN Providers : Providers[i].calendar \in BOOLEAN

VARIABLES
    schedule,       \* times of the high-impact events of the symbol's currencies
    calendar,       \* _calendar: the ones in the cache
    headline,       \* the score of the worst headline in the cache
    last_refresh,   \* _last_refresh, or Unset
    available,      \* _calendar_available
    unseen,     \* history: events of the window that no provider gave for the
                    \* cache, though one with a calendar answered without them
    lock,           \* the caller that refreshes, at which provider, with what
    eval,           \* where each evaluate() is suspended, its time, its decision
    safety_clock

cache == <<calendar, headline, last_refresh, available, unseen>>
safetyVars == <<schedule, cache, lock, eval, safety_clock>>

Unset == -1
Free == [by |-> "nobody"]
NotAsked == [at |-> "idle", current |-> Unset, action |-> "NONE", decided |-> Unset,
             unseen |-> {}]
Scores == {0, 45, 65, 85}

SafetyInit ==
    /\ schedule \in {{t} : t \in 0..(MaxSafetyClock + BlockBefore)} \cup {{}}
    /\ calendar = {} /\ headline = 0
    /\ last_refresh = Unset /\ available = FALSE /\ unseen = {} /\ lock = Free
    /\ eval = [c \in Callers |-> NotAsked]
    /\ safety_clock = 0

-----------------------------------------------------------------------------
\* _action_for_score
ActionForScore(score) ==
    CASE score >= 80 -> "BLOCK_TRADE"
      [] score >= 55 -> "REDUCE_SIZE"
      [] score >= 35 -> "REQUIRE_EXTRA_CONFIRMATION"
      [] OTHER -> "ALLOW_NORMAL"

\* The part of evaluate() after the refresh, for a caller that asked at `current`
Decision(current, events, score, has_calendar) ==
    IF \/ ~has_calendar
       \/ \E e \in events : e - BlockBefore <= current /\ current <= e + BlockAfter
    THEN "BLOCK_TRADE"
    ELSE ActionForScore(score)

Decided(c, current, events, score, has_calendar, missed) ==
    eval' = [eval EXCEPT ![c] =
                [at |-> "done", current |-> current,
                 action |-> Decision(current, events, score, has_calendar),
                 decided |-> safety_clock, unseen |-> missed]]

IsFresh(current) == last_refresh # Unset /\ current - last_refresh < CheckInterval

-----------------------------------------------------------------------------
\* evaluate() of a signal whose cache is fresh enough
EvaluateCached(c) ==
    /\ eval[c].at \in {"idle", "done"} /\ IsFresh(safety_clock)
    /\ Decided(c, safety_clock, calendar, headline, available, unseen)
    /\ UNCHANGED <<schedule, cache, lock, safety_clock>>

\* ... or that has to wait for the lock
EvaluateStale(c) ==
    /\ eval[c].at \in {"idle", "done"} /\ ~IsFresh(safety_clock)
    /\ eval' = [eval EXCEPT ![c] = [NotAsked EXCEPT !.at = "lock", !.current = safety_clock]]
    /\ UNCHANGED <<schedule, cache, lock, safety_clock>>

\* The lock is free: another caller may have refreshed in the meantime.
SkipRefresh(c) ==
    /\ eval[c].at = "lock" /\ lock = Free /\ IsFresh(eval[c].current)
    /\ Decided(c, eval[c].current, calendar, headline, available, unseen)
    /\ UNCHANGED <<schedule, cache, lock, safety_clock>>

BeginRefresh(c) ==
    /\ eval[c].at = "lock" /\ lock = Free /\ ~IsFresh(eval[c].current)
    /\ eval' = [eval EXCEPT ![c].at = "refresh"]
    /\ lock' = [by |-> c, i |-> 1, events |-> {}, score |-> 0, available |-> FALSE,
                unseen |-> {}]
    /\ UNCHANGED <<schedule, cache, safety_clock>>

\* What a provider's calendar holds from current - block_after to current +
\* block_before, the window fetch_calendar asks for: nothing without a calendar.
WindowOf(provider, current) ==
    IF provider.calendar
    THEN {e \in schedule : current - BlockAfter <= e /\ e <= current + BlockBefore}
    ELSE {}

\* Mutant: any provider that answers makes the calendar available.
FetchAnyAvailable(answers, found, headlines, score) ==
    /\ lock # Free /\ lock.i <= Len(Providers)
    /\ LET asked == WindowOf(Providers[lock.i], eval[lock.by].current)
       IN /\ found \subseteq asked /\ (answers \/ found = {})
          /\ lock' = [lock EXCEPT
                 !.i = @ + 1, !.events = @ \cup found, !.available = @ \/ answers,
                 !.unseen = @ \cup (IF answers THEN asked \ found ELSE {}),
                 !.score = IF headlines /\ score > @ THEN score ELSE @]
    /\ UNCHANGED <<schedule, cache, eval, safety_clock>>

\* The next provider: its calendar and its headlines, each of which may fail by
\* itself.  An answer makes the calendar available whatever it holds: a body that
\* is not a list or no XML counts as an empty calendar, an event without a
\* readable date is skipped, and so `found` is any part of the window.
FetchProvider(answers, found, headlines, score) ==
    /\ lock # Free /\ lock.i <= Len(Providers)
    /\ LET asked == WindowOf(Providers[lock.i], eval[lock.by].current)
       IN /\ found \subseteq asked /\ (answers \/ found = {})
          /\ lock' = [lock EXCEPT
                 !.i = @ + 1, !.events = @ \cup found, !.available = @ \/ (Providers[lock.i].calendar /\ answers),
                 !.unseen = @ \cup (IF answers THEN asked \ found ELSE {}),
                 !.score = IF headlines /\ score > @ THEN score ELSE @]
    /\ UNCHANGED <<schedule, cache, eval, safety_clock>>

\* The cache is replaced, whatever the providers gave, and the lock released.
EndRefresh ==
    /\ lock # Free /\ lock.i > Len(Providers)
    /\ calendar' = lock.events /\ headline' = lock.score /\ available' = lock.available
    /\ last_refresh' = eval[lock.by].current
    /\ unseen' = lock.unseen \ lock.events
    /\ Decided(lock.by, eval[lock.by].current, lock.events, lock.score, lock.available,
               unseen')
    /\ lock' = Free
    /\ UNCHANGED <<schedule, safety_clock>>

\* A tick is longer than all the requests of a refresh, which time out: nobody
\* waits for more than one of them.
SafetyTick ==
    /\ safety_clock < MaxSafetyClock
    /\ \A c \in Callers : eval[c].at \in {"lock", "refresh"} => eval[c].current = safety_clock
    /\ safety_clock' = safety_clock + 1
    /\ UNCHANGED <<schedule, cache, lock, eval>>

SafetyNext ==
    \/ \E c \in Callers : EvaluateCached(c) \/ EvaluateStale(c) \/ SkipRefresh(c)
                          \/ BeginRefresh(c)
    \/ \E answers, headlines \in BOOLEAN, score \in Scores, found \in SUBSET schedule :
          FetchProvider(answers, found, headlines, score)
    \/ EndRefresh \/ SafetyTick

SafetySpec == SafetyInit /\ [][SafetyNext]_safetyVars

-----------------------------------------------------------------------------
Allowed(c) == eval[c].at = "done" /\ eval[c].action # "BLOCK_TRADE"

\* The events so near that no trade may pass: all until BlockAfter after them,
\* and those ahead but for the last CheckInterval of the window, which a cache of
\* that age may not reach.
Near(now) == {e \in schedule : now - BlockAfter <= e /\ e <= now + BlockBefore - CheckInterval}

\* A trade is let through near a high-impact event only when no provider gave the
\* event and one with a calendar answered without it; whichever providers fail,
\* what any of them gave blocks, and so does a calendar none of them answered for.
NearEventsBlocked == \A c \in Callers : Allowed(c) => Near(eval[c].decided) \subseteq eval[c].unseen

(* What the documents say and the code does not do.                        *)

\* "fails closed when calendar status is unavailable" (README.md:141): no trade
\* near an event at all.  An answer that cannot be read counts as a calendar
\* without events.
UnreadableCalendarBlocks == \A c \in Callers : Allowed(c) => Near(eval[c].decided) = {}

\* No trade is let through in the whole window before a high-impact event that some
\* provider gives.  The calendar is not fetched far enough ahead for its age.
WindowBlocked ==
    \A c \in Callers : Allowed(c) =>
        \A e \in schedule : eval[c].decided - BlockAfter <= e /\ e <= eval[c].decided + BlockBefore
                           => e \in eval[c].unseen
=============================================================================
