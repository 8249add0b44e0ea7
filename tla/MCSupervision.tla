---------------------------- MODULE MCSupervision ----------------------------
(***************************************************************************)
(* What watches over trading and advises it: the service manager, the path *)
(* of a signal through the strategies and the overtrading guard, the       *)
(* lessons drawn from losing trades, the copied traders, and the news:     *)
(* feeds, pipeline, calendar and safety window.                            *)
(*                                                                         *)
(* The parts share no state, so one behaviour follows one of them while    *)
(* the others rest: what holds of every such behaviour holds of each part. *)
(***************************************************************************)
EXTENDS ServiceManager, SignalPath, MistakeLearning, CopyTrading, TraderSelection, ReutersFeed,
        BloombergFeed, TwitterFeed, NewsPipeline, NewsSafety, EconomicCalendar

VARIABLE part   \* the part that moves

CalmSnapshot == [instrument |-> "EURUSD", adx |-> 30, atr |-> 50, vix |-> 0, decline |-> 0, hft |-> FALSE,
             base |-> 80, signals |-> {"s1", "s2"}, pattern |-> "none", news |-> FALSE,
             low_win_rate |-> FALSE]
MCSnapshots ==
  {CalmSnapshot,
   [CalmSnapshot EXCEPT !.hft = TRUE, !.pattern = "active", !.signals = {"s1"}, !.atr = 80],
   [CalmSnapshot EXCEPT !.pattern = "reactivated", !.news = TRUE, !.atr = 96],
   [CalmSnapshot EXCEPT !.low_win_rate = TRUE, !.adx = 20, !.signals = {"s2"}]}
MCSharpe == [s \in {"s1", "s2"} |->
               [r \in Regimes |-> IF r = "crisis" THEN -5 ELSE IF s = "s1" THEN 120 ELSE 80]]

Stat(w, d, n) == [win_rate |-> w, max_drawdown |-> d, sharpe |-> 20, consistency |-> 50, days |-> n]
MCStats == {Stat(80, 10, 200), [Stat(60, 10, 90) EXCEPT !.sharpe = -5], Stat(55, 5, 200), Stat(70, 20, 300), Stat(70, 19, 300)}
MCListing == <<<<"t1", "t2", "t3">>, <<"t3">>>>

Article(story, source, sentiment, region, asset) ==
  [story |-> story, source |-> source, tier1 |-> source # "twitter", sentiment |-> sentiment,
   region |-> region, asset |-> asset]
MCArticles ==
  {Article("war", "reuters", "panic", "europe", "none"),
   Article("riot", "reuters", "panic", "europe", "forex"),
   Article("war", "twitter", "bad", "none", "none"),
   Article("crash", "bloomberg", "panic", "none", "forex"),
   Article("truce", "bloomberg", "calm", "none", "none"),
   Article("truce", "reuters", "relief", "europe", "none")}

AllAlike == [s \in DOMAIN Listing |-> [t \in Listed |-> CHOOSE st \in Stats : TRUE]]

MCProviders == <<[calendar |-> TRUE], [calendar |-> TRUE], [calendar |-> FALSE]>>
MCSchedule == <<[at |-> 2, instruments |-> <<"EURUSD", "GBPUSD">>],
                [at |-> 5, instruments |-> <<"GBPUSD">>],
                [at |-> 6, instruments |-> <<>>]>>

\* The feeds recover alone and give up in the end: losses, reconnections and the engine's own
\* calls leave Reuters one listener, Bloomberg a whole connection or an unhealthy status, and
\* Twitter no endless series of failures.
FeedsRecover == OneListener /\ HealthyIsWhole /\ GivesUp

Init ==
  /\ part \in {"services", "signals", "mistakes", "copying", "selection", "reuters",
               "bloomberg", "twitter", "news", "safety", "calendar"}
  /\ ServiceInit
  /\ PathInit
  /\ MistakeInit
  /\ CopyInit
  /\ SelectionInit /\ (part # "selection" => published = AllAlike)
  /\ ReutersInit
  /\ BloombergInit
  /\ TwitterInit /\ (part # "twitter" => token /\ filter = "none")
  /\ NewsInit
  /\ SafetyInit /\ (part # "safety" => schedule = {})
  /\ CalendarInit

Next ==
  \/ /\ part = "services" /\ ServiceNext
     /\ UNCHANGED <<part, pathVars, mistakeVars, copyVars, selectionVars, reutersVars,
                    bloombergVars, twitterVars, newsVars, safetyVars, calendarVars>>
  \/ /\ part = "signals" /\ PathNext
     /\ UNCHANGED <<part, serviceVars, mistakeVars, copyVars, selectionVars, reutersVars,
                    bloombergVars, twitterVars, newsVars, safetyVars, calendarVars>>
  \/ /\ part = "mistakes" /\ MistakeNext
     /\ UNCHANGED <<part, serviceVars, pathVars, copyVars, selectionVars, reutersVars,
                    bloombergVars, twitterVars, newsVars, safetyVars, calendarVars>>
  \/ /\ part = "copying" /\ CopyNext
     /\ UNCHANGED <<part, serviceVars, pathVars, mistakeVars, selectionVars, reutersVars,
                    bloombergVars, twitterVars, newsVars, safetyVars, calendarVars>>
  \/ /\ part = "selection" /\ SelectionNext
     /\ UNCHANGED <<part, serviceVars, pathVars, mistakeVars, copyVars, reutersVars,
                    bloombergVars, twitterVars, newsVars, safetyVars, calendarVars>>
  \/ /\ part = "reuters" /\ ReutersNext
     /\ UNCHANGED <<part, serviceVars, pathVars, mistakeVars, copyVars, selectionVars,
                    bloombergVars, twitterVars, newsVars, safetyVars, calendarVars>>
  \/ /\ part = "bloomberg" /\ BloombergNext
     /\ UNCHANGED <<part, serviceVars, pathVars, mistakeVars, copyVars, selectionVars,
                    reutersVars, twitterVars, newsVars, safetyVars, calendarVars>>
  \/ /\ part = "twitter" /\ TwitterNext
     /\ UNCHANGED <<part, serviceVars, pathVars, mistakeVars, copyVars, selectionVars,
                    reutersVars, bloombergVars, newsVars, safetyVars, calendarVars>>
  \/ /\ part = "news" /\ NewsNext
     /\ UNCHANGED <<part, serviceVars, pathVars, mistakeVars, copyVars, selectionVars,
                    reutersVars, bloombergVars, twitterVars, safetyVars, calendarVars>>
  \/ /\ part = "safety" /\ SafetyNext
     /\ UNCHANGED <<part, serviceVars, pathVars, mistakeVars, copyVars, selectionVars,
                    reutersVars, bloombergVars, twitterVars, newsVars, calendarVars>>
  \/ /\ part = "calendar" /\ CalendarNext
     /\ UNCHANGED <<part, serviceVars, pathVars, mistakeVars, copyVars, selectionVars,
                    reutersVars, bloombergVars, twitterVars, newsVars, safetyVars>>

vars == <<part, serviceVars, pathVars, mistakeVars, copyVars, selectionVars, reutersVars,
          bloombergVars, twitterVars, newsVars, safetyVars, calendarVars>>

Spec == Init /\ [][Next]_vars
=============================================================================
