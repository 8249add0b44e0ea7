--------------------------- MODULE EconomicCalendar ---------------------------
(***************************************************************************)
(* The economic calendar (src/src/news/economic_calendar.py): an update at *)
(* midnight, and a monitor that announces the events that approach and     *)
(* widens the stops of the instruments they concern, once for each event.  *)
(*                                                                         *)
(* Every event is a high-impact one. A tick is check_interval_seconds, and *)
(* longer than what the monitor awaits in one pass; start() and stop() are *)
(* not called while a start() is under way.                                *)
(***************************************************************************)
EXTENDS Integers, Sequences, FiniteSetsExt

CONSTANTS
    Schedule,           \* the events of the source: a sequence of [at, instruments]
    AdjustAhead,             \* NEWS_PRE_EVENT_RISK_WINDOW_MINUTES
    Day,                \* the length of a day
    MaxCalendarClock    \* bound: time

ASSUME CalendarAssumption ==
    /\ {AdjustAhead, MaxCalendarClock} \subseteq Nat /\ Day \in Nat \ {0}
    /\ \A e \in DOMAIN Schedule :
          /\ Schedule[e].at \in Nat
          /\ DOMAIN Schedule[e].instruments = 1..Len(Schedule[e].instruments)

VARIABLES
    cal_running,    \* _running
    cal_events,     \* _events: the ids in the calendar
    flagged,        \* the ones whose object says notified
    notified_ids,   \* _notified_event_ids
    adjusted_ids,   \* _adjusted_event_ids
    monitor,        \* where _event_monitoring_loop is, with what it iterates over
    updater,        \* where update_daily is, in start() or in _daily_update_loop
    last_update,    \* the day of the last update, or -1
    widened,        \* <<event, instrument>> -> stops widened since the last update
    overlooked,     \* the events that passed without an adjustment
    cal_clock

calendarVars == <<cal_running, cal_events, flagged, notified_ids, adjusted_ids, monitor,
                  updater, last_update, widened, overlooked, cal_clock>>
marks == <<cal_events, flagged, notified_ids, adjusted_ids, last_update, widened>>

Ids == DOMAIN Schedule
MonitorIdle(where) == [at |-> where, work |-> {}, i |-> 0, pass |-> -1, list |-> -1]
Pairs == UNION {{e} \X DOMAIN Schedule[e].instruments : e \in Ids}
NoneWidened == [p \in Pairs |-> 0]
Today == cal_clock \div Day

CalendarInit ==
    /\ cal_running = FALSE /\ cal_events = {} /\ flagged = {}
    /\ notified_ids = {} /\ adjusted_ids = {}
    /\ monitor = MonitorIdle("off") /\ updater = "off" /\ last_update = -1
    /\ widened = NoneWidened /\ overlooked = {} /\ cal_clock = 0

-----------------------------------------------------------------------------
StartCalendar ==
    /\ ~cal_running /\ updater = "off"
    /\ cal_running' = TRUE /\ updater' = "starting"
    /\ UNCHANGED <<marks, monitor, overlooked, cal_clock>>

\* stop(): both tasks are cancelled wherever they are.
StopCalendar ==
    /\ cal_running /\ updater # "starting"
    /\ cal_running' = FALSE /\ updater' = "off" /\ monitor' = MonitorIdle("off")
    /\ UNCHANGED <<marks, overlooked, cal_clock>>

\* _daily_update_loop, at midnight
UpdateBegins ==
    /\ updater = "asleep" /\ last_update # Today /\ updater' = "updating"
    /\ UNCHANGED <<cal_running, marks, monitor, overlooked, cal_clock>>

\* fetch_events of the source
EventsOf(day) == {e \in Ids : Schedule[e].at \div Day = day}

\* update_daily(), after the fetch: the events of the day, or the old ones when it
\* failed. The ids are forgotten either way.
UpdateDaily(answers) ==
    /\ updater \in {"starting", "updating"}
    /\ IF answers
       THEN /\ cal_events' = EventsOf(Today)
            /\ flagged' = {}
       ELSE UNCHANGED <<cal_events, flagged>>
    /\ notified_ids' = {} /\ adjusted_ids' = {}
    /\ last_update' = Today /\ widened' = NoneWidened
    /\ updater' = "asleep"
    /\ monitor' = IF updater = "starting" THEN MonitorIdle("check") ELSE monitor
    /\ UNCHANGED <<cal_running, overlooked, cal_clock>>

-----------------------------------------------------------------------------
Approaching(e) == 0 <= Schedule[e].at - cal_clock /\ Schedule[e].at - cal_clock <= AdjustAhead

\* The loops go through the events they found in their order.
NextEvent == Min(monitor.work)
Others == monitor.work \ {NextEvent}

\* _check_approaching_events begins its loop.
CheckApproaching ==
    /\ monitor.at = "check"
    /\ monitor' = [at |-> "notify", i |-> 0, pass |-> cal_clock, list |-> last_update,
                   work |-> {e \in cal_events \ flagged : Approaching(e)}]
    /\ UNCHANGED <<cal_running, marks, updater, overlooked, cal_clock>>

\* The next event of the loop: announced unless its id was, and marked afterwards,
\* whether Redis took it or not; its object may no longer be the one in the calendar.
NotifyEvent ==
    /\ monitor.at = "notify" /\ monitor.work # {}
    /\ monitor' = IF NextEvent \in notified_ids
                  THEN [monitor EXCEPT !.work = Others] ELSE [monitor EXCEPT !.at = "notifying"]
    /\ UNCHANGED <<cal_running, marks, updater, overlooked, cal_clock>>

EventNotified ==
    /\ monitor.at = "notifying"
    /\ LET e == NextEvent IN
        /\ notified_ids' = notified_ids \cup {e}
        /\ flagged' = IF monitor.list = last_update THEN flagged \cup {e} ELSE flagged
    /\ monitor' = [monitor EXCEPT !.at = "notify", !.work = Others]
    /\ UNCHANGED <<cal_running, cal_events, adjusted_ids, last_update, widened, updater,
                   overlooked, cal_clock>>

\* _check_and_apply_adjustments: the events of the window, then one after the other
CheckAdjustments ==
    /\ monitor.at = "notify" /\ monitor.work = {}
    /\ monitor' = [monitor EXCEPT !.at = "adjust",
                                  !.work = {e \in cal_events : Approaching(e)}]
    /\ UNCHANGED <<cal_running, marks, updater, overlooked, cal_clock>>

\* Mutant: one set of ids serves the notifications and the adjustments.
HandledAlready(e) == e \in adjusted_ids \cup notified_ids

\* is_event_adjusted
AlreadyAdjusted(e) == e \in adjusted_ids

AdjustEvent ==
    /\ monitor.at = "adjust" /\ monitor.work # {}
    /\ LET e == NextEvent IN
       monitor' = IF AlreadyAdjusted(e) \/ Schedule[e].instruments = <<>>
                  THEN [monitor EXCEPT !.work = Others]
                  ELSE [monitor EXCEPT !.at = "widen", !.i = 1]
    /\ UNCHANGED <<cal_running, marks, updater, overlooked, cal_clock>>

\* Mutant: an event counts as adjusted when all its stops were widened.
MarkWhenAllWidened(e, counts) ==
    IF \A i \in DOMAIN Schedule[e].instruments : counts[<<e, i>>] > 0
    THEN adjusted_ids \cup {e} ELSE adjusted_ids

\* An event counts as adjusted whatever its callbacks did.
MarkAdjusted(e, counts) == adjusted_ids \cup {e}

\* _apply_pre_event_adjustments: the callback of the next instrument widened a stop,
\* or found none to widen, or raised.
WidenStop(widens) ==
    LET e == NextEvent
        last == monitor.i = Len(Schedule[e].instruments)
    IN
    /\ monitor.at = "widen"
    /\ widened' = IF widens THEN [widened EXCEPT ![<<e, monitor.i>>] = @ + 1] ELSE widened
    /\ monitor' = IF last THEN [monitor EXCEPT !.at = "announce"] ELSE [monitor EXCEPT !.i = @ + 1]
    /\ adjusted_ids' = IF last THEN MarkAdjusted(e, widened') ELSE adjusted_ids
    /\ UNCHANGED <<cal_running, cal_events, flagged, notified_ids, last_update, updater,
                   overlooked, cal_clock>>

\* _publish_pre_event_adjustment, and on to the next event
Announce ==
    /\ monitor.at = "announce"
    /\ monitor' = [monitor EXCEPT !.at = "adjust", !.work = Others, !.i = 0]
    /\ UNCHANGED <<cal_running, marks, updater, overlooked, cal_clock>>

Sleep ==
    /\ monitor.at = "adjust" /\ monitor.work = {}
    /\ monitor' = [monitor EXCEPT !.at = "asleep"]
    /\ UNCHANGED <<cal_running, marks, updater, overlooked, cal_clock>>

-----------------------------------------------------------------------------
\* A tick: the updater and the monitor have both had their turn at this one.
CalendarTick ==
    /\ cal_clock < MaxCalendarClock
    /\ updater = "off" \/ (updater = "asleep" /\ last_update = Today)
    /\ monitor.at = "off" \/ (monitor.at = "asleep" /\ monitor.pass = cal_clock)
    /\ cal_clock' = cal_clock + 1
    /\ monitor' = IF monitor.at = "asleep" THEN [monitor EXCEPT !.at = "check"] ELSE monitor
    /\ overlooked' = IF monitor.at = "off" THEN overlooked
                     ELSE overlooked \cup {e \in cal_events : /\ Schedule[e].at = cal_clock
                                                              /\ e \notin adjusted_ids}
    /\ UNCHANGED <<cal_running, marks, updater>>

CalendarNext ==
    \/ StartCalendar \/ StopCalendar \/ UpdateBegins
    \/ CheckApproaching \/ NotifyEvent \/ EventNotified
    \/ CheckAdjustments \/ AdjustEvent \/ Announce \/ Sleep \/ CalendarTick
    \/ \E b \in BOOLEAN : UpdateDaily(b) \/ WidenStop(b)

CalendarSpec == CalendarInit /\ [][CalendarNext]_calendarVars

-----------------------------------------------------------------------------
\* Between two updates a stop is widened at most once for an event, whichever of its
\* callbacks fail and whatever update comes while they are awaited.
WidenedOnce == \A p \in Pairs : widened[p] <= 1

\* No event with instruments passes a running monitor without its adjustment, except
\* one at midnight sharp, which the update may learn of too late.
NoneOverlooked ==
    \A e \in overlooked : Schedule[e].instruments = <<>> \/ Schedule[e].at % Day = 0

\* Each event is acted upon, and once: callbacks that fail or suspend the monitor
\* while the calendar is fetched anew neither repeat an adjustment nor lose it.
EachEventOnce == WidenedOnce /\ NoneOverlooked

\* Documented, and not so: an event is adjusted AdjustAhead ahead. One shortly after
\* midnight is not in the calendar before.
AdjustedAhead ==
    \A e \in Ids : \A t \in 0..MaxCalendarClock :
        monitor.at = "asleep" /\ monitor.pass = t /\ last_update >= 0
        /\ t <= Schedule[e].at /\ Schedule[e].at <= t + AdjustAhead
        => e \in adjusted_ids \/ Schedule[e].instruments = <<>>
=============================================================================
