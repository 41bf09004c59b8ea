CONSTANTS
    Moments <- HourAndMidnight
    MaxTicks = 1
    AlarmArgs <- WakeTimes
    Texts = {"lunch", "bed"}
    MaxAlarms = 2
SPECIFICATION FairAlarmSpec
INVARIANTS
    AlarmTypeOK
    AloneKeepsItsTime
    AloneIsHardlyEarly
PROPERTIES
    DueAlarmIsNotPutOff
    AlarmsAreShown
