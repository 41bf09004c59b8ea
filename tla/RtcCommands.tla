---------------------------- MODULE RtcCommands ----------------------------
(***************************************************************************)
(* The commands getdate, gettime, setdate and settime (user/interface.c),  *)
(* access by access: a second may pass between two of them.                *)
(***************************************************************************)
EXTENDS Rtc

CONSTANTS
    DateArgs,   \* what users type behind setdate, as character codes
    TimeArgs    \* and behind settime

ASSUME ArgAssumption == DateArgs \union TimeArgs \subseteq Seq(Byte)

VARIABLES
    at,         \* the function, and the part of it, that runs
    want,       \* the numbers it was given
    msg,        \* what it printed last
    start       \* history: the clock when the command began

vars == <<rtcVars, at, want, msg, start>>

Init ==
    /\ rtc \in Moments
    /\ start = rtc
    /\ todo = << >>
    /\ got = Nothing
    /\ ticks = 0
    /\ at = "prompt"
    /\ want = Nothing
    /\ msg = "none"

----------------------------------------------------------------------------
\* Time passes until a line has been typed.
ReadLine ==
    /\ at = "prompt"
    /\ \E m \in Moments :
          /\ rtc' = m
          /\ start' = m
    /\ ticks' = 0
    /\ got' = Nothing
    /\ want' = Nothing
    /\ msg' = "none"
    /\ at' = "command"
    /\ UNCHANGED todo

Running == at \notin {"prompt", "command"}

\* A second passes while one of the commands runs.
SecondPasses ==
    /\ Running
    /\ Tick
    /\ UNCHANGED <<at, want, msg, start>>

\* The rest of a command that makes no more access.
Say(m) ==
    /\ msg' = m
    /\ at' = "prompt"
    /\ todo' = << >>
    /\ UNCHANGED <<rtc, got, ticks, want, start>>

Goto(next, regs) ==
    /\ at' = next
    /\ Access(regs)
    /\ UNCHANGED <<rtc, got, ticks, msg, start>>

----------------------------------------------------------------------------
(***************************************************************************)
(* getdate and gettime.                                                    *)
(***************************************************************************)

DateReads == <<"DAY_OF_MONTH", "MONTH", "YEAR">>

\* A plausible slip: the order the time is printed in.
TimeReadsHoursFirst == <<"HOURS", "MINUTES", "SECONDS">>

TimeReads == <<"SECONDS", "MINUTES", "HOURS">>

GetDate ==
    /\ at = "command"
    /\ Goto("getdate", DateReads)
    /\ UNCHANGED want

GetTime ==
    /\ at = "command"
    /\ Goto("gettime", TimeReads)
    /\ UNCHANGED want

ShowDate == at = "getdate" /\ todo = << >> /\ Say("date shown")

ShowTime == at = "gettime" /\ todo = << >> /\ Say("time shown")

----------------------------------------------------------------------------
(***************************************************************************)
(* setdate.                                                                *)
(***************************************************************************)
TypedDate(s) ==
    [Nothing EXCEPT !.MONTH        = TwoDigits(s[1], s[2]),
                    !.DAY_OF_MONTH = TwoDigits(s[4], s[5]),
                    !.YEAR         = TwoDigits(s[7], s[8])]

SameDate(v, w) == DateOf(v) = DateOf(w)

LeapYear(year) == (year % 4 = 0 /\ year % 100 # 0) \/ year % 400 = 0

DateAccesses == <<"MONTH", "DAY_OF_MONTH", "YEAR">>

ValidDate(s) ==
    /\ Len(s) = 8
    /\ TypedDate(s).MONTH \in 1..12
    /\ TypedDate(s).DAY_OF_MONTH \in 1..31

\* The argument is refused, or the current date is read.
SetDate(s) ==
    /\ at = "command"
    /\ \/ ~ ValidDate(s) /\ Say("refused")
       \/ ValidDate(s) /\ want' = TypedDate(s) /\ Goto("setdate", DateAccesses)

\* A plausible slip: the refusal does not return.
SetDateGoesOn ==
    LET noSuchDay == want.MONTH = 2 /\ want.DAY_OF_MONTH = 29 /\ ~ LeapYear(want.YEAR)
    IN  /\ at = "setdate"
        /\ todo = << >>
        /\ at' = "write date"
        /\ Access(DateAccesses)
        /\ msg' = IF noSuchDay THEN "refused" ELSE "none"
        /\ UNCHANGED <<rtc, got, ticks, want, start>>

\* The date is there already, or 29 February in a common year, or is written.
SetDateChecked ==
    LET noSuchDay == want.MONTH = 2 /\ want.DAY_OF_MONTH = 29 /\ ~ LeapYear(want.YEAR)
    IN  /\ at = "setdate"
        /\ todo = << >>
        /\ \/ SameDate(got, want) /\ Say("already set")
           \/ ~ SameDate(got, want) /\ noSuchDay /\ Say("refused")
           \/ /\ ~ SameDate(got, want) /\ ~ noSuchDay
              /\ Goto("write date", DateAccesses)
              /\ UNCHANGED want

DateWritten ==
    /\ at = "write date"
    /\ todo = << >>
    /\ Goto("verify date", DateAccesses)
    /\ UNCHANGED want

\* A plausible slip: a month that was carried into is not noticed.
DateVerifiedByDay ==
    /\ at = "verify date"
    /\ todo = << >>
    /\ Say(IF got.DAY_OF_MONTH = want.DAY_OF_MONTH /\ got.YEAR = want.YEAR
             THEN "date set" ELSE "failed")

\* The date is read back and compared.
DateVerified ==
    /\ at = "verify date"
    /\ todo = << >>
    /\ Say(IF SameDate(got, want) THEN "date set" ELSE "failed")

----------------------------------------------------------------------------
(***************************************************************************)
(* settime.  Nothing is read back.                                         *)
(***************************************************************************)
TypedTime(s) ==
    [Nothing EXCEPT !.HOURS   = TwoDigits(s[1], s[2]),
                    !.MINUTES = TwoDigits(s[4], s[5]),
                    !.SECONDS = TwoDigits(s[7], s[8])]

\* A plausible slip: the seconds are written first, and may carry.
TimeWritesSecondsFirst == <<"SECONDS", "MINUTES", "HOURS">>

TimeWrites == <<"HOURS", "MINUTES", "SECONDS">>

ValidTime(s) ==
    /\ Len(s) = 8
    /\ TypedTime(s).HOURS <= 23
    /\ TypedTime(s).MINUTES <= 59
    /\ TypedTime(s).SECONDS <= 59

SetTime(s) ==
    /\ at = "command"
    /\ \/ ~ ValidTime(s) /\ Say("refused")
       \/ ValidTime(s) /\ want' = TypedTime(s) /\ Goto("write time", TimeWrites)

TimeWritten == at = "write time" /\ todo = << >> /\ Say("time set")

----------------------------------------------------------------------------
ReadRegister ==
    /\ at \in {"getdate", "gettime", "setdate", "verify date"}
    /\ ReadRtc
    /\ UNCHANGED <<at, want, msg, start>>

WriteRegister ==
    /\ at \in {"write date", "write time"}
    /\ WriteRtc(want)
    /\ UNCHANGED <<at, want, msg, start>>

Next ==
    \/ ReadLine
    \/ SecondPasses
    \/ ReadRegister
    \/ WriteRegister
    \/ GetDate
    \/ ShowDate
    \/ GetTime
    \/ ShowTime
    \/ \E s \in DateArgs : SetDate(s)
    \/ SetDateChecked
    \/ DateWritten
    \/ DateVerified
    \/ \E s \in TimeArgs : SetTime(s)
    \/ TimeWritten

Spec == Init /\ [][Next]_vars

----------------------------------------------------------------------------
(***************************************************************************)
(* What is right about the commands although the clock runs on.            *)
(***************************************************************************)

\* Registers, numbers read and numbers written fit in a byte, typed text and
\* years beyond 99 included.
RtcTypeOK ==
    /\ RtcTypes
    /\ at \in {"prompt", "command", "getdate", "gettime", "setdate", "write date",
               "verify date", "write time"}
    /\ want \in [Register -> Byte]
    /\ msg \in {"none", "date shown", "time shown", "refused", "already set",
                "date set", "failed", "time set"}
    /\ start \in [Register -> Byte]

\* gettime reads the seconds before the minutes and these before the hours,
\* getdate day, month and year in that order: whatever is carried in between,
\* the time shown is not one that is over and less than an hour ahead of what
\* the clock shows, the date not one that is over and at most a year away.
ShownIsNotOver ==
    /\ msg = "time shown" =>
          (TimeOfDay(got) - TimeOn(start)) % OneDay < OneHour + ticks
    /\ msg = "date shown" =>
          (DateNumber(got) - DateNumber(Shown(start))) % OneCentury <= OneYear

\* "Date set successfully" is true: the clock shows the typed date, or the day
\* after it when midnight has just passed.  A carry from the old date into what
\* was written is noticed by reading it back.
DateSetIsOnTheClock ==
    LET typed == [reg \in Register |-> Bcd(want[reg])]
    IN  msg = "date set" =>
            DateOf(Shown(rtc)) \in {DateOf(want), DateOf(Shown(NextDay(typed)))}

\* settime writes the hours before the minutes and these before the seconds: a
\* carry out of the old time may put the clock ahead of what was typed, by an
\* hour at the most for each second that passes meanwhile, but never behind it:
\* the second that it sets does not carry into what it has set.
TimeSetIsNotLate ==
    msg = "time set" => (TimeOn(rtc) - TimeOfDay(want)) % OneDay <= OneHour * ticks

\* A date or time that is refused, or is there already, leaves the clock alone:
\* it shows what it would show if nobody had typed anything.
RefusedLeavesClock ==
    msg \in {"refused", "already set"} => rtc = After(start, ticks)
=============================================================================
