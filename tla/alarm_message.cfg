CONSTANTS
    Moments <- HourAndMidnight
    MaxTicks = 1
    AlarmArgs <- WakeTimes
    Texts = {"lunch", "bed"}
    MaxAlarms = 1
SPECIFICATION AlarmSpec
INVARIANTS
    AlarmShowsItsMessage
