----------------------------- MODULE MarketHours -----------------------------
(***************************************************************************)
(* The trading hours of the asset classes (config/market_hours.py):        *)
(* is_market_open, a test on the weekday and the time of day, and          *)
(* get_next_open, a separate computation of when the market opens again.   *)
(*                                                                         *)
(* Time is the minute of a week in UTC, from Monday 00:00: no test in the  *)
(* code is finer, and none looks further than a week.  Which class an      *)
(* instrument belongs to is left out.                                      *)
(***************************************************************************)
EXTENDS Naturals

Day == 24 * 60
Week == 7 * Day
At(hour, past) == 60 * hour + past

AssetClasses == {"crypto", "forex", "us", "eu", "gold", "oil", "commodity"}

VARIABLE minute   \* minute of the week

\* The question may be asked at any time.
HoursInit == minute \in 0..Week - 1

\* isoweekday(), and the time of day in minutes.
Weekday(t) == 1 + ((t \div Day) % 7)
TimeOfDay(t) == t % Day
Between(from, t, to) == from <= TimeOfDay(t) /\ TimeOfDay(t) < to
IsWeekday(t) == Weekday(t) <= 5
InDailyBreak(t) == Between(At(22, 0), t, At(23, 0))

-----------------------------------------------------------------------------
IsForexOpen(t) ==
  CASE Weekday(t) = 6 -> FALSE
    [] Weekday(t) = 7 -> TimeOfDay(t) >= At(21, 0)
    [] Weekday(t) = 5 -> TimeOfDay(t) <= At(21, 0)
    [] OTHER -> TRUE

IsUsOpen(t) == IsWeekday(t) /\ Between(At(14, 30), t, At(21, 0))
IsEuOpen(t) == IsWeekday(t) /\ Between(At(8, 0), t, At(16, 30))

\* On Friday only the daily break is tested.
IsGoldOpen(t) ==
  CASE Weekday(t) = 6 -> FALSE
    [] Weekday(t) = 7 -> TimeOfDay(t) >= At(23, 0)
    [] OTHER -> ~InDailyBreak(t)

IsOilOpen(t) ==
  CASE Weekday(t) = 6 -> FALSE
    [] Weekday(t) = 7 -> TimeOfDay(t) >= At(23, 0)
    [] Weekday(t) = 5 -> TimeOfDay(t) < At(22, 0)
    [] OTHER -> ~InDailyBreak(t)

IsCommodityOpen(t) == IsWeekday(t) /\ Between(At(1, 0), t, At(22, 0))

IsOpen(class, t) ==
  CASE class = "crypto" -> TRUE
    [] class = "forex" -> IsForexOpen(t)
    [] class = "us" -> IsUsOpen(t)
    [] class = "eu" -> IsEuOpen(t)
    [] class = "gold" -> IsGoldOpen(t)
    [] class = "oil" -> IsOilOpen(t)
    [] class = "commodity" -> IsCommodityOpen(t)

-----------------------------------------------------------------------------
\* utc_time.replace(hour, minute) + timedelta(days)
On(t, days, time) == (t - TimeOfDay(t) + days * Day + time) % Week

NextForexOpen(t) ==
  On(t, CASE Weekday(t) = 6 -> 1
          [] Weekday(t) = 7 /\ TimeOfDay(t) < At(21, 0) -> 0
          [] Weekday(t) = 5 /\ TimeOfDay(t) >= At(21, 0) -> 2
          [] OTHER -> IF Weekday(t) = 7 THEN 7 ELSE 7 - Weekday(t), At(21, 0))

\* Days until the weekday after t's.
ToNextWeekday(t) == IF Weekday(t) \in {5, 6} THEN 8 - Weekday(t) ELSE 1

\* Mutant: after the session of the day its own opening is looked up again.
SameWeekdayOpen(t, time) == On(t, IF IsWeekday(t) THEN 0 ELSE ToNextWeekday(t), time)

\* _next_us_open, _next_eu_open and _next_default_commodity_open, which differ in the time.
NextWeekdayOpen(t, time) ==
  On(t, IF IsWeekday(t) /\ TimeOfDay(t) < time THEN 0 ELSE ToNextWeekday(t), time)

NextGoldOpen(t) ==
  On(t, IF IsWeekday(t) /\ InDailyBreak(t) THEN 0
        ELSE CASE Weekday(t) = 6 -> 1
               [] Weekday(t) = 7 /\ TimeOfDay(t) < At(23, 0) -> 0
               [] Weekday(t) = 5 /\ TimeOfDay(t) >= At(22, 0) -> 2
               [] OTHER -> 1, At(23, 0))

NextOilOpen(t) ==
  On(t, CASE Weekday(t) \in 1..4 /\ InDailyBreak(t) -> 0
          [] Weekday(t) = 5 /\ TimeOfDay(t) >= At(22, 0) -> 2
          [] Weekday(t) = 6 -> 1
          [] Weekday(t) = 7 /\ TimeOfDay(t) < At(23, 0) -> 0
          [] OTHER -> 1, At(23, 0))

NextOpen(class, t) ==
  IF IsOpen(class, t) THEN t
  ELSE CASE class = "forex" -> NextForexOpen(t)
         [] class = "us" -> NextWeekdayOpen(t, At(14, 30))
         [] class = "eu" -> NextWeekdayOpen(t, At(8, 0))
         [] class = "gold" -> NextGoldOpen(t)
         [] class = "oil" -> NextOilOpen(t)
         [] class = "commodity" -> NextWeekdayOpen(t, At(1, 0))

-----------------------------------------------------------------------------
MinutePasses == minute' = (minute + 1) % Week

HoursNext == MinutePasses
HoursSpec == HoursInit /\ [][HoursNext]_minute

-----------------------------------------------------------------------------
\* get_next_open and is_market_open, two separate sets of rules, agree: the time returned is the
\* first one at which the market is open (by induction on the minutes until then).
NextOpenIsFirst ==
  \A class \in AssetClasses :
    LET next == NextOpen(class, minute)
    IN /\ IsOpen(class, next)
       /\ ~IsOpen(class, minute) => next = NextOpen(class, (minute + 1) % Week)

\* Not so in the code: "Gold: Sun 23:00 - Fri 22:00 UTC with daily break 22:00-23:00 UTC"; the
\* last hour of Friday is tested like the hour after any daily break.
GoldRestsAtWeekend ==
  Weekday(minute) = 5 /\ TimeOfDay(minute) >= At(22, 0) => ~IsGoldOpen(minute)
=============================================================================
