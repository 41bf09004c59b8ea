-------------------------------- MODULE Rtc --------------------------------
(***************************************************************************)
(* The real-time clock of the PC and the way MPX reaches it                *)
(* (user/interface.c): one register at a time, in BCD, while the clock     *)
(* runs on.  The chip itself is external: it counts seconds and carries    *)
(* into minutes, hours, days, months and years as the calendar has it.     *)
(***************************************************************************)
EXTENDS Integers, Sequences

CONSTANTS
    Moments,    \* the times the clock can show when a command begins
    MaxTicks    \* bound: seconds that pass while a function reads or writes

Register == {"SECONDS", "MINUTES", "HOURS", "DAY_OF_MONTH", "MONTH", "YEAR"}

Byte == 0..255

\* A digit in each half of a byte.
Bcd(n) == (n \div 10) * 16 + (n % 10)

Bcds(numbers) == {Bcd(n) : n \in numbers}

\* What the chip counts through.
ClockTimes ==
    {r \in [Register -> Byte] :
        /\ r.SECONDS \in Bcds(0..59)
        /\ r.MINUTES \in Bcds(0..59)
        /\ r.HOURS \in Bcds(0..23)
        /\ r.DAY_OF_MONTH \in Bcds(1..31)
        /\ r.MONTH \in Bcds(1..12)
        /\ r.YEAR \in Bcds(0..99)}

OneHour == 60 * 60
OneDay  == 24 * OneHour

\* Less than a day passes while a function runs.
ASSUME RtcAssumption ==
    /\ Moments \subseteq ClockTimes
    /\ MaxTicks \in 0..(OneDay - 1)

VARIABLES
    rtc,        \* the registers of the clock
    todo,       \* registers the running function has yet to access, in order
    got,        \* what it has read from each register
    ticks       \* seconds that have passed since it began

rtcVars == <<rtc, todo, got, ticks>>

Nothing == [reg \in Register |-> 0]

----------------------------------------------------------------------------
(***************************************************************************)
(* The conversions of interface.c, on bytes.                               *)
(***************************************************************************)
bcd_to_binary(bcd) == (bcd % 16) + (bcd \div 16) * 10

\* A plausible slip: the shifted digit is not cut to the byte the register has.
BinaryToBcdWide(binary) == (binary \div 10) * 16 + (binary % 10)

binary_to_bcd(binary) == ((binary \div 10) * 16 + (binary % 10)) % 256

\* Two typed characters, by their codes, as a byte: nobody checks for digits.
TwoDigits(tens, ones) == ((tens - 48) * 10 + (ones - 48)) % 256

----------------------------------------------------------------------------
(***************************************************************************)
(* The chip.                                                               *)
(***************************************************************************)

\* The number a BCD byte stands for.
Decimal(b) == (b \div 16) * 10 + (b % 16)

\* Counting in BCD, in a byte.
CountUp(b) == (IF b % 16 = 9 THEN b + 7 ELSE b + 1) % 256

LastDay(month, year) ==
    IF month = 2 THEN (IF year % 4 = 0 THEN 29 ELSE 28)
    ELSE IF month \in {4, 6, 9, 11} THEN 30 ELSE 31

\* One second later.
Ticked(r) ==
    LET minute == r.SECONDS = Bcd(59)
        hour   == minute /\ r.MINUTES = Bcd(59)
        day    == hour /\ r.HOURS = Bcd(23)
        month  == day /\ Decimal(r.DAY_OF_MONTH) >= LastDay(Decimal(r.MONTH), Decimal(r.YEAR))
        year   == month /\ r.MONTH = Bcd(12)
        Count(carry, wraps, first, b) ==
            IF wraps THEN first ELSE IF carry THEN CountUp(b) ELSE b
    IN  [SECONDS      |-> Count(TRUE, minute, 0, r.SECONDS),
         MINUTES      |-> Count(minute, hour, 0, r.MINUTES),
         HOURS        |-> Count(hour, day, 0, r.HOURS),
         DAY_OF_MONTH |-> Count(day, month, Bcd(1), r.DAY_OF_MONTH),
         MONTH        |-> Count(month, year, Bcd(1), r.MONTH),
         YEAR         |-> Count(year, year /\ r.YEAR = Bcd(99), 0, r.YEAR)]

\* A second passes while a function is between two accesses.
Tick ==
    /\ ticks < MaxTicks
    /\ rtc' = Ticked(rtc)
    /\ ticks' = ticks + 1
    /\ UNCHANGED <<todo, got>>

----------------------------------------------------------------------------
(***************************************************************************)
(* read_rtc and write_rtc.                                                 *)
(***************************************************************************)
ReadRtc ==
    /\ todo # << >>
    /\ got' = [got EXCEPT ![Head(todo)] = bcd_to_binary(rtc[Head(todo)])]
    /\ todo' = Tail(todo)
    /\ UNCHANGED <<rtc, ticks>>

WriteRtc(value) ==
    /\ todo # << >>
    /\ rtc' = [rtc EXCEPT ![Head(todo)] = binary_to_bcd(value[Head(todo)])]
    /\ todo' = Tail(todo)
    /\ UNCHANGED <<got, ticks>>

\* A function begins to access these registers.
Access(regs) == todo' = regs

----------------------------------------------------------------------------
(***************************************************************************)
(* Reading times: registers as the clock holds them, in seconds and in     *)
(* days.  The count of days gives every month 31: it only compares dates.  *)
(***************************************************************************)
TimeOfDay(v) == v.SECONDS + 60 * v.MINUTES + OneHour * v.HOURS

OneYear    == 12 * 31
OneCentury == 100 * OneYear

DateNumber(v) == (v.DAY_OF_MONTH - 1) + 31 * (v.MONTH - 1) + OneYear * v.YEAR

DateOf(v) == [reg \in {"DAY_OF_MONTH", "MONTH", "YEAR"} |-> v[reg]]

Shown(r) == [reg \in Register |-> Decimal(r[reg])]

\* The time a clock shows, in seconds.
TimeOn(r) == TimeOfDay(Shown(r))

\* These registers with another time of the day.
AtTime(r, t) ==
    [r EXCEPT !.HOURS   = Bcd(t \div OneHour),
              !.MINUTES = Bcd((t % OneHour) \div 60),
              !.SECONDS = Bcd(t % 60)]

\* Midnight after this day.
NextDay(r) == Ticked(AtTime(r, OneDay - 1))

\* The clock so many seconds later, less than a day.
After(r, seconds) ==
    LET t == TimeOn(r) + seconds
    IN  IF t < OneDay THEN AtTime(r, t) ELSE AtTime(NextDay(r), t - OneDay)

RtcTypes ==
    /\ rtc \in [Register -> Byte]
    /\ todo \in Seq(Register)
    /\ got \in [Register -> Byte]
    /\ ticks \in 0..MaxTicks
=============================================================================
