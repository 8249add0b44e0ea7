---------------------------- MODULE NewsPipeline ----------------------------
(***************************************************************************)
(* The path of an article through the news engine                          *)
(* (src/src/news/news_engine.py, on_article_received) and the crisis       *)
(* detector (src/src/news/crisis_detector.py) it feeds.                    *)
(*                                                                         *)
(* Every source calls on_article_received from its own task; the tasks meet*)
(* at the awaits of the event bus. A sentiment is "panic" (below -0.7),    *)
(* "bad" (down to there from -0.5), "calm" (-0.3 to 0.5) or "relief"       *)
(* (above 0.7).                                                            *)
(***************************************************************************)
EXTENDS Integers, FiniteSets, SequencesExt, FiniteSetsExt

CONSTANTS
    Articles,           \* [story, source, tier1, sentiment, region, asset]
    Sources,            \* the tasks that deliver them
    DedupCache,         \* _DEDUP_CACHE_MAX_SIZE
    CrisisThreshold,    \* CRISIS_THRESHOLD
    CrisisWindow,             \* TIME_WINDOW_MINUTES, in ticks
    Persistence,        \* PERSISTENCE_MINUTES, in ticks
    MaxNewsClock,       \* bound: time
    MaxNewsArticles     \* bound: articles delivered, duplicates included

ASSUME PipelineAssumption ==
    {DedupCache, CrisisThreshold, CrisisWindow, Persistence, MaxNewsClock, MaxNewsArticles}
        \subseteq Nat

VARIABLES
    seen,           \* _seen_articles, oldest first
    recent,         \* _recent_articles
    crises,         \* _active_crises, in the order they were raised
    crisis_keys,    \* _active_crisis_keys: grouping key |-> number of its crisis
    pending,        \* _pending_kill_switch_event: the crisis it is about, or None
    work,           \* where the task of each source is suspended
    kills,          \* crises whose kill switch event was published
    news_clock,
    delivered,      \* number of articles delivered
    taken           \* history: times each story went past the deduplication

newsVars == <<seen, recent, crises, crisis_keys, pending, work, kills, news_clock,
              delivered, taken>>

None == 0
Stories == {a.story : a \in Articles}
Waiting == [at |-> "idle", crisis |-> None]

NewsInit ==
    /\ seen = << >> /\ recent = << >> /\ crises = << >>
    /\ crisis_keys = << >> /\ pending = None
    /\ work = [s \in Sources |-> Waiting]
    /\ kills = {} /\ news_clock = 0 /\ delivered = 0
    /\ taken = [s \in Stories |-> 0]

-----------------------------------------------------------------------------
\* _is_duplicate and _record_article_hash
IsDuplicate(a) == a.story \in ToSet(seen)

Recorded(a) ==
    LET all == Append(seen, a.story)
    IN IF Len(all) > DedupCache THEN Tail(all) ELSE all

Calming(a) == a.sentiment \in {"calm", "relief"}

\* classify_impact, by the magnitude of the sentiment, with the articles of other sources
\* as corroboration
IsHighImpact(a) ==
    LET corroboration == Cardinality({i \in DOMAIN recent : recent[i].source # a.source})
    IN \/ a.tier1 /\ a.sentiment \in {"panic", "relief"}
       \/ corroboration >= 2 /\ a.sentiment # "calm"

\* _get_grouping_keys, in their order
GroupingKeys(a) ==
    IF a.region = "none"
      THEN IF a.asset = "none" THEN <<"global">> ELSE <<a.asset>>
      ELSE IF a.asset = "none" THEN <<a.region>> ELSE <<a.region, a.asset>>

-----------------------------------------------------------------------------
\* _check_active_crises_on_article, for one crisis that is neither resolved
\* nor escalated: an article of its region resolves or escalates it.
Concerns(a, c) ==
    LET region == IF a.region = "none" THEN "global" ELSE a.region
    IN c.active /\ ~c.escalated /\ (c.key = region \/ "global" \in {c.key, region})

Recovers(a, c) == Concerns(a, c) /\ Calming(a)

\* Mutant: the persistence is looked at before the recovery.
EscalatesFirst(a, c, at) == Concerns(a, c) /\ at - c.started >= Persistence

Escalates(a, c, at) ==
    /\ Concerns(a, c) /\ ~Recovers(a, c)
    /\ at - c.started >= Persistence

\* What evaluate() makes of the active crises.
Reviewed(a, at) ==
    [i \in DOMAIN crises |->
        [crises[i] EXCEPT !.active = @ /\ ~Recovers(a, crises[i]),
                          !.escalated = @ \/ Escalates(a, crises[i], at),
                          !.calm = @ \/ (Concerns(a, crises[i]) /\ Calming(a))]]

\* _prune_old_articles drops from the left, _get_articles_in_window looks at all.
Pruned(articles) ==
    LET Old(i) == \A j \in 1..i : articles[j].at < news_clock - CrisisWindow
    IN SubSeq(articles, Cardinality({i \in DOMAIN articles : Old(i)}) + 1, Len(articles))

InWindow(articles) == SelectSeq(articles, LAMBDA r : r.at >= news_clock - CrisisWindow)

\* _get_articles_for_key, of the articles in the window
MatchingArticles(articles, key) ==
    SelectSeq(InWindow(articles), LAMBDA r : key \in ToSet(GroupingKeys(r)))

\* _check_crisis_conditions: the first of the article's keys that has no active
\* crisis and enough articles, or "none".
NewCrisisKey(a, articles, keys) ==
    LET candidates == GroupingKeys(a)
        raised == {i \in DOMAIN candidates :
                      /\ candidates[i] \notin DOMAIN keys
                      /\ Len(MatchingArticles(articles, candidates[i])) >= CrisisThreshold}
    IN IF raised = {} THEN "none" ELSE candidates[Min(raised)]

\* evaluate(), by the task of source s, of an article received at `at`; what it awaits
\* next is the alert, the kill switch event, or the publication of the article.
Evaluate(s, a, high, at) ==
    LET reviewed == Reviewed(a, at)
        open == [k \in {j \in DOMAIN crisis_keys : reviewed[crisis_keys[j]].active} |->
                    crisis_keys[k]]
        tracked == high /\ a.sentiment = "panic"
        record == [source |-> a.source, region |-> a.region, asset |-> a.asset,
                   at |-> at]
        articles == IF tracked THEN Pruned(Append(recent, record)) ELSE recent
        raised == IF tracked THEN NewCrisisKey(a, articles, open) ELSE "none"
        id == Len(crises) + 1
        escalated == {i \in DOMAIN crises : Escalates(a, crises[i], at)}
    IN /\ recent' = articles
       /\ IF raised = "none" THEN crises' = reviewed /\ crisis_keys' = open
          ELSE /\ crises' = Append(reviewed,
                              [key |-> raised, started |-> news_clock, active |-> TRUE,
                               escalated |-> FALSE, calm |-> FALSE])
               /\ crisis_keys' = [k \in DOMAIN open \cup {raised} |->
                                     IF k = raised THEN id ELSE open[k]]
       /\ pending' = IF escalated = {} THEN pending ELSE Max(escalated)
       /\ work' = [work EXCEPT ![s] =
             IF raised # "none" THEN [at |-> "alert", crisis |-> None]
             ELSE IF pending' # None THEN [at |-> "dispatch", crisis |-> pending']
             ELSE [at |-> "publish", crisis |-> None]]

-----------------------------------------------------------------------------
\* on_article_received, up to its first await

CanDeliver(s, a) ==
    a.source = s /\ work[s] = Waiting /\ delivered < MaxNewsArticles

Duplicate(s, a) ==
    /\ CanDeliver(s, a) /\ IsDuplicate(a)
    /\ delivered' = delivered + 1
    /\ UNCHANGED <<seen, recent, crises, crisis_keys, pending, work, kills, news_clock, taken>>

\* Mutant: the story is recorded when its notification has gone out.
TakeUnrecorded(s, a) ==
    /\ CanDeliver(s, a) /\ ~IsDuplicate(a) /\ IsHighImpact(a)
    /\ delivered' = delivered + 1
    /\ taken' = [taken EXCEPT ![a.story] = @ + 1]
    /\ work' = [work EXCEPT ![s] = [at |-> "notify", crisis |-> None, article |-> a,
                                   received |-> news_clock]]
    /\ UNCHANGED <<seen, recent, crises, crisis_keys, pending, kills, news_clock>>

\* A high-impact article is first announced to the strategy engine.
TakeHighImpact(s, a) ==
    /\ CanDeliver(s, a) /\ ~IsDuplicate(a) /\ IsHighImpact(a)
    /\ delivered' = delivered + 1
    /\ seen' = Recorded(a)
    /\ taken' = [taken EXCEPT ![a.story] = @ + 1]
    /\ work' = [work EXCEPT ![s] = [at |-> "notify", crisis |-> None, article |-> a,
                                   received |-> news_clock]]
    /\ UNCHANGED <<recent, crises, crisis_keys, pending, kills, news_clock>>

TakeOther(s, a) ==
    /\ CanDeliver(s, a) /\ ~IsDuplicate(a) /\ ~IsHighImpact(a)
    /\ delivered' = delivered + 1
    /\ seen' = Recorded(a)
    /\ taken' = [taken EXCEPT ![a.story] = @ + 1]
    /\ Evaluate(s, a, FALSE, news_clock)
    /\ UNCHANGED <<kills, news_clock>>

\* The pipeline raises after the story was recorded: it is logged.
PipelineRaises(s, a) ==
    /\ CanDeliver(s, a) /\ ~IsDuplicate(a)
    /\ delivered' = delivered + 1
    /\ seen' = Recorded(a)
    /\ UNCHANGED <<recent, crises, crisis_keys, pending, work, kills, news_clock, taken>>

-----------------------------------------------------------------------------
\* ... and after each of its awaits; a failing bus is logged.

Notified(s) ==
    /\ work[s].at = "notify"
    /\ Evaluate(s, work[s].article, TRUE, work[s].received)
    /\ UNCHANGED <<seen, kills, news_clock, delivered, taken>>

\* dispatch_pending_events takes the event there is by now.
Alerted(s) ==
    /\ work[s].at = "alert"
    /\ work' = [work EXCEPT ![s] =
          IF pending # None THEN [at |-> "dispatch", crisis |-> pending]
                            ELSE [at |-> "publish", crisis |-> None]]
    /\ UNCHANGED <<seen, recent, crises, crisis_keys, pending, kills, news_clock,
                   delivered, taken>>

\* Published or not, the slot is emptied, whatever it holds by then.
Dispatched(s, works) ==
    /\ work[s].at = "dispatch"
    /\ kills' = IF works THEN kills \cup {work[s].crisis} ELSE kills
    /\ pending' = None
    /\ work' = [work EXCEPT ![s] = [at |-> "publish", crisis |-> None]]
    /\ UNCHANGED <<seen, recent, crises, crisis_keys, news_clock, delivered, taken>>

Published(s) ==
    /\ work[s].at = "publish"
    /\ work' = [work EXCEPT ![s] = Waiting]
    /\ UNCHANGED <<seen, recent, crises, crisis_keys, pending, kills, news_clock,
                   delivered, taken>>

NewsClockAdvances ==
    /\ news_clock < MaxNewsClock
    /\ news_clock' = news_clock + 1
    /\ UNCHANGED <<seen, recent, crises, crisis_keys, pending, work, kills, delivered, taken>>

NewsNext ==
    \/ \E s \in Sources : \/ \E a \in Articles : Duplicate(s, a) \/ TakeHighImpact(s, a)
                                                  \/ TakeOther(s, a) \/ PipelineRaises(s, a)
                          \/ Notified(s) \/ Alerted(s) \/ Published(s)
                          \/ \E works \in BOOLEAN : Dispatched(s, works)
    \/ NewsClockAdvances

NewsSpec == NewsInit /\ [][NewsNext]_newsVars

-----------------------------------------------------------------------------
\* A story several sources report is taken once, unless so many stories came in
\* between that the cache has forgotten it.
StoryOnce == Cardinality(Stories) <= DedupCache => \A s \in Stories : taken[s] <= 1

\* A crisis is escalated only if no reading about it has been calm since it was
\* raised, and a key has at most one crisis that is still open.
EscalatedWithoutRecovery ==
    /\ \A i \in DOMAIN crises : crises[i].escalated => ~crises[i].calm
    /\ \A i \in DOMAIN crises :
          crises[i].active <=> (\E k \in DOMAIN crisis_keys : crisis_keys[k] = i)

\* Sources that report at once, each suspended while its article is analysed, neither
\* count a story twice nor open or escalate a crisis the readings do not carry.
PipelineBooksAgree == StoryOnce /\ EscalatedWithoutRecovery

\* Documented, and not so: the kill switch event of an escalated crisis is sent.
\* One slot holds it; a second crisis, or an event set while the first is being
\* published, is lost with it, and an escalated crisis is not looked at again.
EscalationIsSent ==
    (\A s \in Sources : work[s] = Waiting) =>
        \A i \in DOMAIN crises : crises[i].escalated => i \in kills
=============================================================================
