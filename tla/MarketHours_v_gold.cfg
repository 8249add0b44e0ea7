SPECIFICATION HoursSpec
INVARIANT GoldRestsAtWeekend
