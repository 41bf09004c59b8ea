---------------------------- MODULE MCAlarmClock ----------------------------
(***************************************************************************)
(* Values of AlarmClock's constants for TLC: the seconds around a full     *)
(* hour and around midnight, and times to be woken at in between.          *)
(***************************************************************************)
EXTENDS AlarmClock

On(day, hour, minute, second) ==
    [YEAR  |-> Bcd(23),   MONTH   |-> Bcd(11),     DAY_OF_MONTH |-> Bcd(day),
     HOURS |-> Bcd(hour), MINUTES |-> Bcd(minute), SECONDS      |-> Bcd(second)]

HourAndMidnight ==
    {On(15, 10, 59, 59), On(15, 11, 0, 0), On(15, 23, 59, 59), On(16, 0, 0, 0)}

Typed(hour, minute, second) == [HOURS |-> hour, MINUTES |-> minute, SECONDS |-> second]

WakeTimes ==
    {Typed(10, 59, 59), Typed(11, 30, 0), Typed(11, 59, 59), Typed(23, 59, 59), Typed(24, 0, 0)}
=============================================================================
