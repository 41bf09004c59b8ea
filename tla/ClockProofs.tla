---------------------------- MODULE ClockProofs ----------------------------
(***************************************************************************)
(* Proofs about the real-time clock and the functions that read and write  *)
(* it, register by register, while it runs on: the date and time commands  *)
(* and the alarms, for every time they may begin at, and for every number  *)
(* of seconds, less than a day, that may pass while they run.              *)
(***************************************************************************)
EXTENDS RtcCommands, AlarmClock, SequenceTheorems, TLAPS

(***************************************************************************)
(* Numbers in BCD.                                                         *)
(***************************************************************************)
LEMMA BcdIsAByte ==
    ASSUME NEW n \in 0..99
    PROVE  Bcd(n) \in Byte /\ Decimal(Bcd(n)) = n /\ bcd_to_binary(Bcd(n)) = n
BY DEF Bcd, Byte, Decimal, bcd_to_binary

LEMMA CountsInBcd ==
    ASSUME NEW n \in 0..98
    PROVE  CountUp(Bcd(n)) = Bcd(n + 1)
BY DEF Bcd, CountUp

LEMMA OneBcd ==
    ASSUME NEW m \in 0..99, NEW n \in 0..99, Bcd(m) = Bcd(n)
    PROVE  m = n
BY DEF Bcd

(***************************************************************************)
(* The time of the day.                                                    *)
(***************************************************************************)
IsTime(r) ==
    /\ r \in [Register -> Byte]
    /\ r.SECONDS \in Bcds(0..59)
    /\ r.MINUTES \in Bcds(0..59)
    /\ r.HOURS \in Bcds(0..23)

HoursOf(t) == t \div OneHour
MinutesOf(t) == (t % OneHour) \div 60
SecondsOf(t) == t % 60

Parts(t, h, m, s) == HoursOf(t) = h /\ MinutesOf(t) = m /\ SecondsOf(t) = s

LEMMA HourAndDay ==
    OneHour \in Nat /\ OneDay \in Nat /\ OneHour = 60 * 60 /\ OneDay = 24 * OneHour
BY DEF OneHour, OneDay

\* The second that a time is.
Second(h, m, s) == s + 60 * m + OneHour * h

LEMMA DayIsLong == OneDay \in Nat /\ OneDay > 1 /\ OneHour \in Nat
BY DEF OneHour, OneDay

LEMMA PartsOfTime ==
    ASSUME NEW h \in 0..23, NEW m \in 0..59, NEW s \in 0..59
    PROVE  /\ Second(h, m, s) \in 0..(OneDay - 1)
           /\ HoursOf(Second(h, m, s)) = h
           /\ MinutesOf(Second(h, m, s)) = m
           /\ SecondsOf(Second(h, m, s)) = s
<1>. DEFINE u == s + 60 * m
            t == Second(h, m, s)
<1>1. u \in 0..(OneHour - 1) /\ u \div 60 = m
  BY HourAndDay
<1>2. t = OneHour * h + u /\ t \in Nat
  BY HourAndDay DEF Second
<1>3. t % 60 = s
  BY HourAndDay DEF Second
<1>. HIDE DEF t, u
<1>4. t \div OneHour = h
  BY <1>1, <1>2, HourAndDay
<1>5. t % OneHour = u
  BY <1>1, <1>2, HourAndDay, SMTT(30)
<1>6. t \in 0..(OneDay - 1)
  <2>1. t < OneDay /\ OneDay \in Nat
    BY <1>1, <1>2 DEF OneHour, OneDay
  <2>. QED  BY <1>2, <2>1
<1>. QED  BY <1>1, <1>3, <1>4, <1>5, <1>6 DEF HoursOf, MinutesOf, SecondsOf, t

LEMMA TimeOfParts ==
    ASSUME NEW t \in 0..(OneDay - 1)
    PROVE  /\ HoursOf(t) \in 0..23 /\ MinutesOf(t) \in 0..59 /\ SecondsOf(t) \in 0..59
           /\ t = Second(HoursOf(t), MinutesOf(t), SecondsOf(t))
<1>. DEFINE h == t \div OneHour
            u == t % OneHour
<1>1. t \in Nat /\ t < OneDay
  BY HourAndDay, SMTT(30)
<1>2. h \in 0..23
  BY <1>1, HourAndDay, SMTT(30)
<1>3. u \in 0..(OneHour - 1)
  BY <1>1, HourAndDay, SMTT(30)
<1>4. t = u + OneHour * h
  BY <1>1, HourAndDay, SMTT(30)
<1>. HIDE DEF h, u
<1>. DEFINE m == u \div 60
            s == u % 60
<1>5. u \in Nat /\ u < 60 * 60
  BY <1>3, HourAndDay, SMTT(30)
<1>6. m \in 0..59 /\ s \in 0..59
  BY <1>5
<1>7. u = s + 60 * m
  BY <1>5
<1>. HIDE DEF m, s
<1>8. t = Second(h, m, s)
  BY <1>1, <1>2, <1>3, <1>4, <1>6, <1>7, HourAndDay DEF Second
<1>. QED  BY <1>2, <1>6, <1>8, PartsOfTime, ZenonT(60)

\* The registers of a clock hold its time.
LEMMA TimeInRegisters ==
    ASSUME NEW r, IsTime(r)
    PROVE  /\ TimeOn(r) \in 0..(OneDay - 1)
           /\ r.HOURS = Bcd(HoursOf(TimeOn(r)))
           /\ r.MINUTES = Bcd(MinutesOf(TimeOn(r)))
           /\ r.SECONDS = Bcd(SecondsOf(TimeOn(r)))
<1>1. PICK h \in 0..23, m \in 0..59, s \in 0..59 :
          r.HOURS = Bcd(h) /\ r.MINUTES = Bcd(m) /\ r.SECONDS = Bcd(s)
  BY DEF IsTime, Bcds
<1>2. /\ Shown(r).HOURS = h /\ Shown(r).MINUTES = m /\ Shown(r).SECONDS = s
  BY <1>1, BcdIsAByte DEF Shown, Register
<1>3. TimeOn(r) = Second(h, m, s)
  BY <1>2 DEF TimeOn, TimeOfDay, Second
<1>4. /\ Second(h, m, s) \in 0..(OneDay - 1)
      /\ HoursOf(Second(h, m, s)) = h
      /\ MinutesOf(Second(h, m, s)) = m
      /\ SecondsOf(Second(h, m, s)) = s
  BY PartsOfTime
<1>. QED  BY <1>1, <1>3, <1>4

LEMMA SetTimeIsTime ==
    ASSUME NEW r \in [Register -> Byte], NEW t \in 0..(OneDay - 1)
    PROVE  /\ IsTime(AtTime(r, t))
           /\ TimeOn(AtTime(r, t)) = t
           /\ \A reg \in {"DAY_OF_MONTH", "MONTH", "YEAR"} : AtTime(r, t)[reg] = r[reg]
<1>. DEFINE w == AtTime(r, t)
            h == HoursOf(t)
            m == MinutesOf(t)
            s == SecondsOf(t)
<1>1. h \in 0..23 /\ m \in 0..59 /\ s \in 0..59 /\ t = Second(h, m, s)
  BY TimeOfParts
<1>2. w = [r EXCEPT !.HOURS = Bcd(h), !.MINUTES = Bcd(m), !.SECONDS = Bcd(s)]
  BY DEF AtTime, HoursOf, MinutesOf, SecondsOf
<1>. HIDE DEF w, h, m, s
<1>3. /\ Bcd(h) \in Byte /\ Bcd(m) \in Byte /\ Bcd(s) \in Byte
      /\ Decimal(Bcd(h)) = h /\ Decimal(Bcd(m)) = m /\ Decimal(Bcd(s)) = s
  BY <1>1, BcdIsAByte
<1>4. /\ w.HOURS = Bcd(h) /\ w.MINUTES = Bcd(m) /\ w.SECONDS = Bcd(s)
      /\ \A reg \in {"DAY_OF_MONTH", "MONTH", "YEAR"} : w[reg] = r[reg]
      /\ w \in [Register -> Byte]
  BY <1>2, <1>3 DEF Register
<1>5. IsTime(w)
  BY <1>1, <1>4 DEF IsTime, Bcds
<1>6. Shown(w).HOURS = h /\ Shown(w).MINUTES = m /\ Shown(w).SECONDS = s
  BY <1>3, <1>4 DEF Shown, Register
<1>7. TimeOn(w) = t
  BY <1>1, <1>6 DEF TimeOn, TimeOfDay, Second
<1>. QED  BY <1>4, <1>5, <1>7 DEF w

\* The time can be set again, and to what it is.
LEMMA SetTimeAgain ==
    ASSUME NEW r \in [Register -> Byte], NEW t \in 0..(OneDay - 1), NEW u \in 0..(OneDay - 1)
    PROVE  AtTime(AtTime(r, t), u) = AtTime(r, u)
BY DEF AtTime, Register

LEMMA ItsOwnTime ==
    ASSUME NEW r, IsTime(r)
    PROVE  AtTime(r, TimeOn(r)) = r
<1>1. r \in [Register -> Byte]
  BY DEF IsTime
<1>2. AtTime(r, TimeOn(r)) = [r EXCEPT !.HOURS   = Bcd(HoursOf(TimeOn(r))),
                                       !.MINUTES = Bcd(MinutesOf(TimeOn(r))),
                                       !.SECONDS = Bcd(SecondsOf(TimeOn(r)))]
  BY DEF AtTime, HoursOf, MinutesOf, SecondsOf
<1>. QED  BY <1>1, <1>2, TimeInRegisters DEF Register

(***************************************************************************)
(* The chip counts seconds.                                                *)
(***************************************************************************)
LEMMA TickedRegisters ==
    ASSUME NEW r, IsTime(r)
    PROVE  /\ Ticked(r) \in [Register -> Byte]
           /\ LET h == HoursOf(TimeOn(r))
                  m == MinutesOf(TimeOn(r))
                  s == SecondsOf(TimeOn(r))
                  w == Ticked(r)
              IN  /\ w.SECONDS = IF s = 59 THEN 0 ELSE Bcd(s + 1)
                  /\ w.MINUTES = IF s # 59 THEN r.MINUTES ELSE IF m = 59 THEN 0 ELSE Bcd(m + 1)
                  /\ w.HOURS = IF s # 59 \/ m # 59 THEN r.HOURS
                               ELSE IF h = 23 THEN 0 ELSE Bcd(h + 1)
                  /\ s # 59 \/ m # 59 \/ h # 23 =>
                        \A reg \in {"DAY_OF_MONTH", "MONTH", "YEAR"} : w[reg] = r[reg]
<1>. DEFINE h == HoursOf(TimeOn(r))
            m == MinutesOf(TimeOn(r))
            s == SecondsOf(TimeOn(r))
            w == Ticked(r)
<1>1. /\ h \in 0..23 /\ m \in 0..59 /\ s \in 0..59
      /\ r.HOURS = Bcd(h) /\ r.MINUTES = Bcd(m) /\ r.SECONDS = Bcd(s)
  BY TimeInRegisters, TimeOfParts
<1>. HIDE DEF h, m, s
<1>2. /\ r.SECONDS = Bcd(59) <=> s = 59
      /\ r.MINUTES = Bcd(59) <=> m = 59
      /\ r.HOURS = Bcd(23) <=> h = 23
  BY <1>1, OneBcd
<1>3. /\ s # 59 => CountUp(r.SECONDS) = Bcd(s + 1)
      /\ m # 59 => CountUp(r.MINUTES) = Bcd(m + 1)
      /\ h # 23 => CountUp(r.HOURS) = Bcd(h + 1)
  BY <1>1, CountsInBcd
<1>4. /\ w.SECONDS = IF s = 59 THEN 0 ELSE Bcd(s + 1)
      /\ w.MINUTES = IF s # 59 THEN r.MINUTES ELSE IF m = 59 THEN 0 ELSE Bcd(m + 1)
      /\ w.HOURS = IF s # 59 \/ m # 59 THEN r.HOURS ELSE IF h = 23 THEN 0 ELSE Bcd(h + 1)
      /\ s # 59 \/ m # 59 \/ h # 23 =>
            \A reg \in {"DAY_OF_MONTH", "MONTH", "YEAR"} : w[reg] = r[reg]
  BY <1>2, <1>3 DEF Ticked
<1>5. w \in [Register -> Byte]
  <2>1. r \in [Register -> Byte]
    BY DEF IsTime
  <2>2. \A b \in Byte : CountUp(b) \in Byte
    BY DEF CountUp, Byte
  <2>3. 0 \in Byte /\ Bcd(1) \in Byte
    BY DEF Byte, Bcd
  <2>. QED  BY <2>1, <2>2, <2>3 DEF Ticked, Register
<1>. QED  BY <1>4, <1>5 DEF h, m, s, w

LEMMA OneSecond ==
    ASSUME NEW r, IsTime(r), TimeOn(r) < OneDay - 1
    PROVE  Ticked(r) = AtTime(r, TimeOn(r) + 1)
<1>. DEFINE h == HoursOf(TimeOn(r))
            m == MinutesOf(TimeOn(r))
            s == SecondsOf(TimeOn(r))
            t == TimeOn(r) + 1
            w == Ticked(r)
<1>1. /\ h \in 0..23 /\ m \in 0..59 /\ s \in 0..59
      /\ r.HOURS = Bcd(h) /\ r.MINUTES = Bcd(m) /\ r.SECONDS = Bcd(s)
      /\ TimeOn(r) = Second(h, m, s)
  BY TimeInRegisters, TimeOfParts
<1>2. /\ w \in [Register -> Byte]
      /\ w.SECONDS = IF s = 59 THEN 0 ELSE Bcd(s + 1)
      /\ w.MINUTES = IF s # 59 THEN r.MINUTES ELSE IF m = 59 THEN 0 ELSE Bcd(m + 1)
      /\ w.HOURS = IF s # 59 \/ m # 59 THEN r.HOURS ELSE IF h = 23 THEN 0 ELSE Bcd(h + 1)
      /\ s # 59 \/ m # 59 \/ h # 23 =>
            \A reg \in {"DAY_OF_MONTH", "MONTH", "YEAR"} : w[reg] = r[reg]
  BY TickedRegisters
<1>. HIDE DEF h, m, s, w
<1>3. s # 59 \/ m # 59 \/ h # 23
  <2>1. Second(23, 59, 59) = OneDay - 1
    BY DEF Second, OneDay, OneHour
  <2>. QED  BY <1>1, <2>1, HourAndDay
<1>4. /\ HoursOf(t) = IF s # 59 \/ m # 59 THEN h ELSE h + 1
      /\ MinutesOf(t) = IF s # 59 THEN m ELSE IF m # 59 THEN m + 1 ELSE 0
      /\ SecondsOf(t) = IF s # 59 THEN s + 1 ELSE 0
  <2>1. CASE s # 59
    <3>1. s + 1 \in 0..59 /\ t = Second(h, m, s + 1)
      BY <1>1, <2>1, HourAndDay DEF Second
    <3>2. 0 \in 0..59
      OBVIOUS
    <3>3. Parts(Second(h, m, s + 1), h, m, s + 1)
      BY <1>1, <3>1, <3>2, PartsOfTime, ZenonT(60) DEF Parts
    <3>. QED  BY <2>1, <3>1, <3>3 DEF Parts
  <2>2. CASE s = 59 /\ m # 59
    <3>1. m + 1 \in 0..59 /\ t = Second(h, m + 1, 0)
      BY <1>1, <2>2, HourAndDay DEF Second
    <3>2. 0 \in 0..59
      OBVIOUS
    <3>3. Parts(Second(h, m + 1, 0), h, m + 1, 0)
      BY <1>1, <3>1, <3>2, PartsOfTime, ZenonT(60) DEF Parts
    <3>. QED  BY <2>2, <3>1, <3>3 DEF Parts
  <2>3. CASE s = 59 /\ m = 59
    <3>1. h + 1 \in 0..23 /\ t = Second(h + 1, 0, 0)
      BY <1>1, <1>3, <2>3 DEF Second, OneHour
    <3>2. 0 \in 0..59
      OBVIOUS
    <3>3. Parts(Second(h + 1, 0, 0), h + 1, 0, 0)
      BY <1>1, <3>1, <3>2, PartsOfTime, ZenonT(60) DEF Parts
    <3>. QED  BY <2>3, <3>1, <3>3 DEF Parts
  <2>. QED  BY <2>1, <2>2, <2>3
<1>5. Bcd(0) = 0
  BY DEF Bcd
<1>6. /\ w.HOURS = Bcd(HoursOf(t)) /\ w.MINUTES = Bcd(MinutesOf(t))
      /\ w.SECONDS = Bcd(SecondsOf(t))
  BY <1>1, <1>2, <1>3, <1>4, <1>5
<1>7. AtTime(r, t) = [r EXCEPT !.HOURS = Bcd(HoursOf(t)), !.MINUTES = Bcd(MinutesOf(t)),
                               !.SECONDS = Bcd(SecondsOf(t))]
  BY DEF AtTime, HoursOf, MinutesOf, SecondsOf
<1>8. r \in [Register -> Byte]
  BY DEF IsTime
<1>. HIDE DEF t
<1>9. w = AtTime(r, t)
  BY <1>2, <1>3, <1>6, <1>7, <1>8, ZenonT(60) DEF Register
<1>. QED  BY <1>9 DEF w, t

\* Midnight.
LEMMA MidnightComes ==
    ASSUME NEW r \in [Register -> Byte]
    PROVE  IsTime(NextDay(r)) /\ TimeOn(NextDay(r)) = 0
<1>. DEFINE last == AtTime(r, OneDay - 1)
            w == NextDay(r)
<1>1. OneDay - 1 \in 0..(OneDay - 1)
  BY DEF OneDay, OneHour
<1>2. IsTime(last) /\ TimeOn(last) = OneDay - 1
  BY <1>1, SetTimeIsTime
<1>3. HoursOf(OneDay - 1) = 23 /\ MinutesOf(OneDay - 1) = 59 /\ SecondsOf(OneDay - 1) = 59
  BY DEF HoursOf, MinutesOf, SecondsOf, OneDay, OneHour
<1>4. w = Ticked(last)
  BY DEF NextDay
<1>. HIDE DEF last, w
<1>5. w \in [Register -> Byte] /\ w.SECONDS = 0 /\ w.MINUTES = 0 /\ w.HOURS = 0
  BY <1>2, <1>3, <1>4, TickedRegisters
<1>6. Bcd(0) = 0 /\ Decimal(0) = 0
  BY DEF Bcd, Decimal
<1>7. IsTime(w)
  BY <1>5, <1>6 DEF IsTime, Bcds
<1>8. Shown(w).SECONDS = 0 /\ Shown(w).MINUTES = 0 /\ Shown(w).HOURS = 0
  BY <1>5, <1>6 DEF Shown, Register
<1>9. TimeOn(w) = 0
  BY <1>8, HourAndDay DEF TimeOn, TimeOfDay
<1>. QED  BY <1>7, <1>9 DEF w

LEMMA LastSecond ==
    ASSUME NEW r \in [Register -> Byte], NEW t \in 0..(OneDay - 1)
    PROVE  /\ NextDay(AtTime(r, t)) = NextDay(r)
           /\ t = OneDay - 1 => Ticked(AtTime(r, t)) = NextDay(r)
<1>1. OneDay - 1 \in 0..(OneDay - 1)
  BY DEF OneDay, OneHour
<1>. QED  BY <1>1, SetTimeAgain DEF NextDay

(***************************************************************************)
(* The clock some seconds later.                                           *)
(***************************************************************************)
LEMMA AfterShows ==
    ASSUME NEW r, IsTime(r), NEW n \in 0..(OneDay - 1)
    PROVE  /\ IsTime(After(r, n))
           /\ TimeOn(After(r, n)) = IF TimeOn(r) + n < OneDay THEN TimeOn(r) + n
                                    ELSE (TimeOn(r) + n) - OneDay
<1>. DEFINE t == TimeOn(r)
            d == NextDay(r)
            w == After(r, n)
<1>1. t \in 0..(OneDay - 1)
  BY TimeInRegisters
<1>2. r \in [Register -> Byte] /\ d \in [Register -> Byte]
  BY MidnightComes DEF IsTime
<1>3. w = IF t + n < OneDay THEN AtTime(r, t + n) ELSE AtTime(d, (t + n) - OneDay)
  BY Zenon DEF After
<1>. HIDE DEF t, d, w
<1>4. CASE t + n < OneDay
  <2>1. t + n \in 0..(OneDay - 1)
    BY <1>1, <1>4, DayIsLong
  <2>2. IsTime(AtTime(r, t + n)) /\ TimeOn(AtTime(r, t + n)) = t + n
    BY <1>2, <2>1, SetTimeIsTime
  <2>. QED  BY <1>3, <1>4, <2>2 DEF t, w
<1>5. CASE ~ (t + n < OneDay)
  <2>1. (t + n) - OneDay \in 0..(OneDay - 1)
    BY <1>1, <1>5, DayIsLong
  <2>2. IsTime(AtTime(d, (t + n) - OneDay)) /\ TimeOn(AtTime(d, (t + n) - OneDay)) = (t + n) - OneDay
    BY <1>2, <2>1, SetTimeIsTime
  <2>. QED  BY <1>3, <1>5, <2>2 DEF t, w
<1>. QED  BY <1>4, <1>5

LEMMA AfterNoTime ==
    ASSUME NEW r, IsTime(r)
    PROVE  After(r, 0) = r
<1>. DEFINE t == TimeOn(r)
<1>1. t \in 0..(OneDay - 1) /\ AtTime(r, t) = r
  BY TimeInRegisters, ItsOwnTime
<1>2. After(r, 0) = IF t + 0 < OneDay THEN AtTime(r, t + 0) ELSE AtTime(NextDay(r), (t + 0) - OneDay)
  BY Zenon DEF After
<1>. HIDE DEF t
<1>3. t + 0 = t /\ t < OneDay
  BY <1>1, DayIsLong
<1>. QED  BY <1>1, <1>2, <1>3

LEMMA AfterOneMore ==
    ASSUME NEW r, IsTime(r), NEW n \in 0..(OneDay - 2)
    PROVE  Ticked(After(r, n)) = After(r, n + 1)
<1>. DEFINE o == TimeOn(r)
            t == o + n
            u == o + (n + 1)
            d == NextDay(r)
<1>1. o \in 0..(OneDay - 1)
  BY TimeInRegisters
<1>2. r \in [Register -> Byte] /\ d \in [Register -> Byte] /\ IsTime(d) /\ TimeOn(d) = 0
  BY MidnightComes DEF IsTime
<1>3. /\ After(r, n) = IF t < OneDay THEN AtTime(r, t) ELSE AtTime(d, t - OneDay)
      /\ After(r, n + 1) = IF u < OneDay THEN AtTime(r, u) ELSE AtTime(d, u - OneDay)
  BY Zenon DEF After
<1>. HIDE DEF o, d
<1>4. t \in Nat /\ u = t + 1 /\ (t + 1) - OneDay < OneDay - 1
  BY <1>1, DayIsLong
<1>. HIDE DEF t, u
<1>5. CASE t + 1 < OneDay
  <2>1. t \in 0..(OneDay - 1) /\ t + 1 \in 0..(OneDay - 1) /\ t < OneDay - 1 /\ t < OneDay
    BY <1>4, <1>5, DayIsLong
  <2>2. IsTime(AtTime(r, t)) /\ TimeOn(AtTime(r, t)) = t
    BY <1>2, <2>1, SetTimeIsTime
  <2>3. Ticked(AtTime(r, t)) = AtTime(AtTime(r, t), t + 1)
    BY <2>1, <2>2, OneSecond
  <2>. QED  BY <1>2, <1>3, <1>4, <1>5, <2>1, <2>3, SetTimeAgain
<1>6. CASE t + 1 = OneDay
  <2>1. t \in 0..(OneDay - 1) /\ t < OneDay /\ t = OneDay - 1 /\ ~ (t + 1 < OneDay)
        /\ (t + 1) - OneDay = 0
    BY <1>4, <1>6, DayIsLong
  <2>2. Ticked(AtTime(r, t)) = d
    BY <1>2, <2>1, LastSecond DEF d
  <2>3. AtTime(d, 0) = d
    BY <1>2, ItsOwnTime
  <2>. QED  BY <1>3, <1>4, <2>1, <2>2, <2>3
<1>7. CASE t >= OneDay
  <2>. DEFINE v == t - OneDay
  <2>1. v \in 0..(OneDay - 1) /\ v + 1 \in 0..(OneDay - 1) /\ v < OneDay - 1
        /\ ~ (t < OneDay) /\ ~ (t + 1 < OneDay) /\ (t + 1) - OneDay = v + 1
    BY <1>4, <1>7, DayIsLong
  <2>. HIDE DEF v
  <2>2. IsTime(AtTime(d, v)) /\ TimeOn(AtTime(d, v)) = v
    BY <1>2, <2>1, SetTimeIsTime
  <2>3. Ticked(AtTime(d, v)) = AtTime(AtTime(d, v), v + 1)
    BY <2>1, <2>2, OneSecond
  <2>. QED  BY <1>2, <1>3, <1>4, <2>1, <2>3, SetTimeAgain DEF v
<1>. QED
  <2>1. t + 1 < OneDay \/ t + 1 = OneDay \/ t >= OneDay
    BY <1>4, DayIsLong
  <2>. QED  BY <2>1, <1>5, <1>6, <1>7

(***************************************************************************)
(* The time as it is read: seconds, then minutes, then hours, at moments   *)
(* x, y and z.  A carry in between puts it ahead of z, by less than an     *)
(* hour, and never behind x.                                               *)
(***************************************************************************)
ReadBetween(t, x, z) ==
    /\ t \in 0..(OneDay - 1)
    /\ \E g \in Nat : /\ x <= g /\ g < z + OneHour
                      /\ g = t \/ g = t + OneDay
                      /\ z < OneDay => g = t

LEMMA TimeReadInParts ==
    ASSUME NEW x \in Nat, NEW y \in Nat, NEW z \in Nat, x <= y, y <= z, z < 2 * OneDay
    PROVE  ReadBetween(Second(HoursOf(z % OneDay), MinutesOf(y % OneDay), SecondsOf(x % OneDay)),
                       x, z)
<1>. DEFINE s == x % 60
            m == (y \div 60) % 60
            h == z \div OneHour
            d == HoursOf(z % OneDay)
            t == Second(d, m, s)
            g == s + 60 * m + OneHour * h
<1>1. SecondsOf(x % OneDay) = s /\ s \in 0..59
  BY DEF OneDay, OneHour, SecondsOf
<1>2. MinutesOf(y % OneDay) = m /\ m \in 0..59
  BY DEF OneDay, OneHour, MinutesOf
<1>3. d \in 0..23 /\ h \in Nat /\ (h = d \/ h = d + 24) /\ (z < OneDay => h = d)
  BY DEF OneDay, OneHour, HoursOf
<1>4. x <= g
  BY DEF OneHour
<1>5. g < z + OneHour
  BY DEF OneHour
<1>. HIDE DEF s, m, h, d
<1>6. t \in 0..(OneDay - 1)
  BY <1>1, <1>2, <1>3, PartsOfTime
<1>7. g \in Nat /\ (h = d => g = t) /\ (h = d + 24 => g = t + OneDay)
  BY <1>1, <1>2, <1>3 DEF Second, OneHour, OneDay
<1>. HIDE DEF t, g
<1>8. ReadBetween(t, x, z)
  BY <1>3, <1>4, <1>5, <1>6, <1>7 DEF ReadBetween
<1>. QED  BY <1>1, <1>2, <1>8 DEF t, d

(***************************************************************************)
(* What a function has read that began to read the time at r, n seconds    *)
(* later: the seconds of a moment x, the minutes of y, the hours of z.     *)
(***************************************************************************)
ReadAt(r, n, td, g, x, y, z) ==
    /\ TimeOn(r) <= x /\ x <= y /\ y <= z /\ z <= TimeOn(r) + n
    /\ \/ td = <<"SECONDS", "MINUTES", "HOURS">>
       \/ /\ td = <<"MINUTES", "HOURS">>
          /\ g.SECONDS = SecondsOf(x % OneDay)
       \/ /\ td = <<"HOURS">>
          /\ g.SECONDS = SecondsOf(x % OneDay) /\ g.MINUTES = MinutesOf(y % OneDay)
       \/ /\ td = << >>
          /\ g.SECONDS = SecondsOf(x % OneDay) /\ g.MINUTES = MinutesOf(y % OneDay)
          /\ g.HOURS = HoursOf(z % OneDay)

Reading(r, n, td, g) == \E x, y, z \in Nat : ReadAt(r, n, td, g, x, y, z)

LEMMA ReadingBegins ==
    ASSUME NEW r, IsTime(r), NEW g
    PROVE  Reading(r, 0, <<"SECONDS", "MINUTES", "HOURS">>, g)
<1>. DEFINE t == TimeOn(r)
<1>1. t \in 0..(OneDay - 1)
  BY TimeInRegisters
<1>2. t \in Nat /\ t <= t /\ t <= t + 0
  <2>. HIDE DEF t
  <2>. QED  BY <1>1, DayIsLong
<1>3. ReadAt(r, 0, <<"SECONDS", "MINUTES", "HOURS">>, g, t, t, t)
  BY <1>2 DEF ReadAt
<1>. QED  BY <1>2, <1>3 DEF Reading

LEMMA ReadingGoesOn ==
    ASSUME NEW r, IsTime(r), NEW n \in Nat, NEW td, NEW g, Reading(r, n, td, g)
    PROVE  Reading(r, n + 1, td, g)
<1>1. PICK x \in Nat, y \in Nat, z \in Nat : ReadAt(r, n, td, g, x, y, z)
  BY DEF Reading
<1>2. z <= TimeOn(r) + (n + 1)
  <2>. DEFINE t == TimeOn(r)
  <2>1. t \in 0..(OneDay - 1) /\ z <= t + n
    BY <1>1, TimeInRegisters DEF ReadAt
  <2>. HIDE DEF t
  <2>2. z <= t + (n + 1)
    BY <2>1, DayIsLong
  <2>. QED  BY <2>2 DEF t
<1>3. ReadAt(r, n + 1, td, g, x, y, z)
  BY <1>1, <1>2 DEF ReadAt
<1>. QED  BY <1>3 DEF Reading

\* What the clock shows as bytes is the second it is.
LEMMA ClockIsRead ==
    ASSUME NEW r, IsTime(r), NEW n \in 0..(OneDay - 1)
    PROVE  LET w == After(r, n)
               t == (TimeOn(r) + n) % OneDay
           IN  /\ bcd_to_binary(w.SECONDS) = SecondsOf(t)
               /\ bcd_to_binary(w.MINUTES) = MinutesOf(t)
               /\ bcd_to_binary(w.HOURS) = HoursOf(t)
<1>. DEFINE o == TimeOn(r)
            w == After(r, n)
            t == TimeOn(w)
<1>1. /\ o \in 0..(OneDay - 1) /\ IsTime(w) /\ t \in 0..(OneDay - 1)
      /\ t = IF o + n < OneDay THEN o + n ELSE (o + n) - OneDay
  BY TimeInRegisters, AfterShows
<1>. HIDE DEF o, w
<1>2. /\ HoursOf(t) \in 0..23 /\ MinutesOf(t) \in 0..59 /\ SecondsOf(t) \in 0..59
  BY <1>1, TimeOfParts
<1>3. /\ bcd_to_binary(w.SECONDS) = SecondsOf(t)
      /\ bcd_to_binary(w.MINUTES) = MinutesOf(t)
      /\ bcd_to_binary(w.HOURS) = HoursOf(t)
  BY <1>1, <1>2, TimeInRegisters, BcdIsAByte
<1>. HIDE DEF t
<1>4. (o + n) % OneDay = t
  <2>1. CASE o + n < OneDay
    BY <1>1, <2>1, DayIsLong
  <2>2. CASE ~ (o + n < OneDay)
    <3>1. (o + n) = 1 * OneDay + t
      BY <1>1, <2>2, DayIsLong
    <3>. QED  BY <1>1, <3>1, DayIsLong
  <2>. QED  BY <2>1, <2>2
<1>. QED  BY <1>3, <1>4 DEF o, w

LEMMA ReadingReads ==
    ASSUME NEW r, IsTime(r), NEW n \in 0..(OneDay - 1), NEW td, NEW g \in [Register -> Byte],
           Reading(r, n, td, g), td # << >>
    PROVE  Reading(r, n, Tail(td),
                   [g EXCEPT ![Head(td)] = bcd_to_binary(After(r, n)[Head(td)])])
<1>. DEFINE w   == After(r, n)
            now == TimeOn(r) + n
            h   == [g EXCEPT ![Head(td)] = bcd_to_binary(w[Head(td)])]
<1>1. PICK x \in Nat, y \in Nat, z \in Nat : ReadAt(r, n, td, g, x, y, z)
  BY DEF Reading
<1>2. now \in Nat /\ now <= now /\ x <= now /\ y <= now /\ TimeOn(r) <= now
  <2>. DEFINE t == TimeOn(r)
  <2>1. t \in 0..(OneDay - 1) /\ x <= y /\ y <= z /\ z <= t + n
    BY <1>1, TimeInRegisters DEF ReadAt
  <2>. HIDE DEF t
  <2>2. t + n \in Nat /\ t + n <= t + n /\ x <= t + n /\ y <= t + n /\ t <= t + n
    BY <2>1, DayIsLong
  <2>. QED  BY <2>2 DEF t
<1>3. /\ bcd_to_binary(w.SECONDS) = SecondsOf(now % OneDay)
      /\ bcd_to_binary(w.MINUTES) = MinutesOf(now % OneDay)
      /\ bcd_to_binary(w.HOURS) = HoursOf(now % OneDay)
  BY ClockIsRead
<1>. HIDE DEF w, now
<1>4. CASE td = <<"SECONDS", "MINUTES", "HOURS">>
  <2>1. Tail(td) = <<"MINUTES", "HOURS">> /\ h.SECONDS = SecondsOf(now % OneDay)
    BY <1>3, <1>4 DEF Register
  <2>2. ReadAt(r, n, Tail(td), h, now, now, now)
    BY <1>2, <2>1 DEF ReadAt, now
  <2>. QED  BY <1>2, <2>2 DEF Reading, w
<1>5. CASE td = <<"MINUTES", "HOURS">>
  <2>1. /\ Tail(td) = <<"HOURS">> /\ h.SECONDS = g.SECONDS
        /\ h.MINUTES = MinutesOf(now % OneDay) /\ g.SECONDS = SecondsOf(x % OneDay)
    BY <1>1, <1>3, <1>5 DEF Register, ReadAt
  <2>2. ReadAt(r, n, Tail(td), h, x, now, now)
    BY <1>1, <1>2, <2>1 DEF ReadAt, now
  <2>. QED  BY <1>2, <2>2 DEF Reading, w
<1>6. CASE td = <<"HOURS">>
  <2>1. /\ Tail(td) = << >> /\ h.SECONDS = g.SECONDS /\ h.MINUTES = g.MINUTES
        /\ h.HOURS = HoursOf(now % OneDay) /\ g.SECONDS = SecondsOf(x % OneDay)
        /\ g.MINUTES = MinutesOf(y % OneDay)
    BY <1>1, <1>3, <1>6 DEF Register, ReadAt
  <2>2. ReadAt(r, n, Tail(td), h, x, y, now)
    BY <1>1, <1>2, <2>1 DEF ReadAt, now
  <2>. QED  BY <1>2, <2>2 DEF Reading, w
<1>. QED  BY <1>1, <1>4, <1>5, <1>6 DEF ReadAt

\* The time that has been read: at most an hour ahead, and never behind.
LEMMA ReadingEnds ==
    ASSUME NEW r, IsTime(r), NEW n \in 0..(OneDay - 1), NEW g, Reading(r, n, << >>, g)
    PROVE  /\ TimeOfDay(g) \in 0..(OneDay - 1)
           /\ \E t \in Nat : /\ TimeOn(r) <= t /\ t < TimeOn(r) + n + OneHour
                             /\ t = TimeOfDay(g) \/ t = TimeOfDay(g) + OneDay
                             /\ TimeOn(r) + n < OneDay => t = TimeOfDay(g)
<1>. DEFINE o == TimeOn(r)
            v == TimeOfDay(g)
<1>1. PICK x \in Nat, y \in Nat, z \in Nat : ReadAt(r, n, << >>, g, x, y, z)
  BY DEF Reading
<1>2. o \in 0..(OneDay - 1) /\ o <= x /\ x <= y /\ y <= z /\ z <= o + n
  BY <1>1, TimeInRegisters DEF ReadAt
<1>3. v = Second(HoursOf(z % OneDay), MinutesOf(y % OneDay), SecondsOf(x % OneDay))
  BY <1>1 DEF ReadAt, TimeOfDay, Second
<1>. HIDE DEF o, v
<1>4. z < 2 * OneDay
  BY <1>2, DayIsLong
<1>5. ReadBetween(v, x, z)
  BY <1>2, <1>3, <1>4, TimeReadInParts
<1>6. PICK t \in Nat : x <= t /\ t < z + OneHour /\ (t = v \/ t = v + OneDay)
                       /\ (z < OneDay => t = v)
  BY <1>5 DEF ReadBetween
<1>7. o <= t /\ t < o + n + OneHour /\ (o + n < OneDay => z < OneDay)
  BY <1>2, <1>6, DayIsLong
<1>. QED  BY <1>5, <1>6, <1>7 DEF ReadBetween, o, v

-----------------------------------------------------------------------------
(***************************************************************************)
(* Alarms.  The inductive invariant says, beside the properties, how far a *)
(* polling alarm has come in its reading of the clock, and where the time  *)
(* is of an alarm that was set while there was no other: in the globals    *)
(* until it runs, which is at once, and then in the alarm itself.          *)
(***************************************************************************)
TimeKept(a) == a.alone => a.time = a.asked

Polls ==
    /\ Len(ready) < MaxAlarms
    /\ rtc = After(began, ticks)
    /\ Reading(began, ticks, todo, got)
    /\ \/ TimeKept(running)
       \/ running.time = Unset /\ global_time = running.asked

AlarmInv ==
    /\ AlarmTypeOK
    /\ rtc \in Moments
    /\ began \in Moments
    /\ shown.alarm.asked \in Nat
    /\ running # Comhand => Polls
    /\ \A i \in DOMAIN ready : TimeKept(ready[i])
    /\ AloneIsHardlyEarly

LEMMA MomentsAreTimes ==
    ASSUME NEW m \in Moments
    PROVE  IsTime(m)
BY RtcAssumption DEF ClockTimes, IsTime

LEMMA NoAlarmIsComhand == Comhand \notin Alarms
BY AlarmAssumption DEF Comhand, Alarms

LEMMA AlarmsBegin == AlarmInit => AlarmInv
<1>. SUFFICES ASSUME AlarmInit PROVE AlarmInv
  OBVIOUS
<1>1. rtc \in [Register -> Byte] /\ Nothing \in [Register -> Byte] /\ ticks \in 0..MaxTicks
  <2>1. rtc \in [Register -> Byte]
    BY MomentsAreTimes DEF AlarmInit, IsTime
  <2>2. ticks \in 0..MaxTicks
    BY RtcAssumption, DayIsLong DEF AlarmInit
  <2>. QED  BY <2>1, <2>2 DEF Nothing, Byte
<1>2. ready = << >> /\ ready \in Seq(Alarms) /\ Len(ready) = 0 /\ DOMAIN ready = {}
  BY DEF AlarmInit
<1>3. todo \in Seq(Register)
  BY DEF AlarmInit
<1>4. 0 <= MaxAlarms
  BY AlarmAssumption
<1>5. AlarmTypeOK
  BY <1>1, <1>2, <1>3, <1>4 DEF AlarmInit, AlarmTypeOK, RtcTypes
<1>6. shown.alarm.asked = 0 /\ shown.ended = FALSE
  BY DEF AlarmInit, NotShown, Comhand
<1>. QED  BY <1>2, <1>5, <1>6 DEF AlarmInit, AlarmInv, AloneIsHardlyEarly

\* A second passes while an alarm polls.
LEMMA PollingGoesOn ==
    ASSUME AlarmInv, SecondGoesBy
    PROVE  AlarmInv'
<1>1. /\ running # Comhand /\ ticks < MaxTicks /\ rtc' = Ticked(rtc) /\ rtc' \in Moments
      /\ ticks' = ticks + 1 /\ todo' = todo /\ got' = got
      /\ UNCHANGED alarmVars
  BY DEF SecondGoesBy, Tick
<1>2. /\ IsTime(began) /\ IsTime(rtc') /\ ticks \in Nat /\ ticks + 1 \in 0..MaxTicks
      /\ ticks \in 0..(OneDay - 2)
  BY <1>1, MomentsAreTimes, RtcAssumption, DayIsLong DEF AlarmInv, AlarmTypeOK, RtcTypes
<1>3. rtc' = After(began, ticks + 1)
  BY <1>1, <1>2, AfterOneMore DEF AlarmInv, Polls
<1>4. Reading(began, ticks + 1, todo, got)
  BY <1>1, <1>2, ReadingGoesOn DEF AlarmInv, Polls
<1>5. AlarmTypeOK'
  BY <1>1, <1>2 DEF AlarmInv, AlarmTypeOK, RtcTypes, alarmVars, IsTime
<1>6. Polls'
  BY <1>1, <1>3, <1>4 DEF AlarmInv, Polls, alarmVars
<1>7. AloneIsHardlyEarly'
  <2>. DEFINE a == shown.alarm.asked
              t == TimeOn(began)
  <2>1. a \in Nat /\ t \in 0..(OneDay - 1)
    BY <1>2, TimeInRegisters DEF AlarmInv
  <2>2. a - t < OneHour + ticks => a - t < OneHour + (ticks + 1)
    <3>. HIDE DEF a, t
    <3>. QED  BY <1>2, <2>1, DayIsLong
  <2>. QED  BY <1>1, <2>2 DEF AlarmInv, AloneIsHardlyEarly, alarmVars
<1>. QED  BY <1>1, <1>5, <1>6, <1>7 DEF AlarmInv, alarmVars

\* The handler gives up the CPU, and the alarm that has waited longest begins to
\* poll: the only one that may not have taken its time yet, if it was alone.
LEMMA HandlerLetsPoll ==
    ASSUME AlarmInv, running = Comhand, NEW alarms \in Seq(Alarms), Len(alarms) <= MaxAlarms,
           NEW next \in {"prompt", "end"}, HandlerIdles(alarms, next),
           global_time' \in Nat, line' \in Texts \union {NoText},
           \A i \in DOMAIN alarms :
              \/ TimeKept(alarms[i])
              \/ i = 1 /\ alarms[i].time = Unset /\ global_time' = alarms[i].asked
    PROVE  AlarmInv'
<1>1. shown' = NotShown /\ comhand' = next
  BY DEF HandlerIdles
<1>2. shown'.alarm.asked \in Nat /\ AloneIsHardlyEarly'
  BY <1>1 DEF NotShown, Comhand, AloneIsHardlyEarly
<1>3. Len(alarms) \in Nat /\ DOMAIN alarms = 1..Len(alarms)
  BY LenProperties
<1>4. rtc \in [Register -> Byte] /\ todo \in Seq(Register) /\ got \in [Register -> Byte]
      /\ ticks \in 0..MaxTicks
  BY DEF AlarmInv, AlarmTypeOK, RtcTypes
<1>5. CASE alarms = << >>
  <2>1. /\ ready' = << >> /\ running' = Comhand /\ began' = began /\ UNCHANGED rtcVars
    BY <1>5 DEF HandlerIdles
  <2>2. ready' \in Seq(Alarms) /\ Len(ready') = 0 /\ DOMAIN ready' = {}
    BY <2>1
  <2>3. AlarmTypeOK'
    BY <1>1, <1>3, <1>4, <1>5, <2>1, <2>2 DEF AlarmTypeOK, RtcTypes, rtcVars
  <2>. QED  BY <1>2, <2>1, <2>2, <2>3 DEF AlarmInv, rtcVars
<1>6. CASE alarms # << >>
  <2>1. /\ running' = Head(alarms) /\ ready' = Tail(alarms)
        /\ todo' = <<"SECONDS", "MINUTES", "HOURS">> /\ got' = Nothing /\ ticks' = 0
        /\ began' = rtc /\ rtc' = rtc
    BY <1>6 DEF HandlerIdles, Access, AlarmReads
  <2>2. /\ running' \in Alarms /\ ready' \in Seq(Alarms) /\ Len(ready') = Len(alarms) - 1
        /\ \A i \in 1..Len(ready') : ready'[i] = alarms[i + 1]
    BY <1>6, <2>1, HeadTailProperties
  <2>3. DOMAIN ready' = 1..Len(ready') /\ Len(ready') \in Nat
    BY <2>2, LenProperties
  <2>4. Len(ready') < MaxAlarms /\ Len(ready') <= MaxAlarms
    BY <1>3, <2>2, <2>3, AlarmAssumption
  <2>5. \A i \in DOMAIN ready' : TimeKept(ready'[i])
    <3>. SUFFICES ASSUME NEW i \in 1..Len(ready') PROVE TimeKept(alarms[i + 1])
      BY <2>2, <2>3
    <3>1. i + 1 \in 1..Len(alarms) /\ i + 1 # 1
      BY <1>3, <2>2, <2>3
    <3>. QED  BY <1>3, <3>1
  <2>6. TimeKept(running') \/ (running'.time = Unset /\ global_time' = running'.asked)
    <3>1. 1 \in DOMAIN alarms /\ Head(alarms) = alarms[1]
      BY <1>3, <1>6, EmptySeq
    <3>. QED  BY <2>1, <3>1
  <2>7. AlarmTypeOK'
    <3>1. Nothing \in [Register -> Byte]
      BY DEF Nothing, Byte
    <3>2. 0 \in 0..MaxTicks
      BY RtcAssumption, DayIsLong
    <3>3. todo' \in Seq(Register)
      BY <2>1 DEF Register
    <3>. QED  BY <1>1, <1>4, <2>1, <2>2, <2>4, <3>1, <3>2, <3>3 DEF AlarmTypeOK, RtcTypes
  <2>8. Polls'
    <3>1. IsTime(rtc)
      BY MomentsAreTimes DEF AlarmInv
    <3>2. rtc = After(rtc, 0) /\ Reading(rtc, 0, <<"SECONDS", "MINUTES", "HOURS">>, Nothing)
      BY <3>1, AfterNoTime, ReadingBegins
    <3>3. rtc' = After(began', ticks') /\ Reading(began', ticks', todo', got')
      BY <2>1, <3>2
    <3>4. TimeKept(running)' \/ (running.time = Unset /\ global_time = running.asked)'
      BY <2>6 DEF TimeKept
    <3>5. (rtc = After(began, ticks))' /\ Reading(began, ticks, todo, got)'
      BY <3>3
    <3>. QED  BY <2>4, <3>4, <3>5 DEF Polls
  <2>. QED  BY <1>2, <2>1, <2>5, <2>7, <2>8 DEF AlarmInv, TimeKept
<1>. QED  BY <1>5, <1>6

LEMMA TypedTimeIsANumber ==
    ASSUME NEW a \in AlarmArgs
    PROVE  TimeOfDay(a) \in Nat
<1>1. /\ a.HOURS \in Byte /\ a.MINUTES \in Byte /\ a.SECONDS \in Byte
  BY AlarmAssumption
<1>2. ASSUME NEW h \in Byte, NEW m \in Byte, NEW s \in Byte
      PROVE  s + 60 * m + OneHour * h \in Nat
  BY DEF Byte, OneHour
<1>. QED  BY <1>1, <1>2 DEF TimeOfDay

LEMMA HandlerStep ==
    ASSUME AlarmInv, RunLine \/ ComhandEnd
    PROVE  AlarmInv'
<1>1. /\ ready \in Seq(Alarms) /\ Len(ready) <= MaxAlarms /\ global_time \in Nat
      /\ line \in Texts \union {NoText}
      /\ \A i \in DOMAIN ready : TimeKept(ready[i])
  BY DEF AlarmInv, AlarmTypeOK
<1>2. ASSUME NEW text \in Texts, NEW a \in AlarmArgs, AlarmCommand(a, text)
      PROVE  AlarmInv'
  <2>. DEFINE new == NewAlarm(a, text)
  <2>1. /\ running = Comhand /\ Len(ready) < MaxAlarms /\ line' = text
        /\ global_time' = TimeOfDay(a) /\ TimeOfDay(a) \in Nat
        /\ HandlerIdles(IF ValidAlarmTime(a) THEN Append(ready, new) ELSE ready, "prompt")
    BY <1>2, TypedTimeIsANumber DEF AlarmCommand, AtPrompt
  <2>2. new \in Alarms /\ new.time = Unset /\ new.asked = TimeOfDay(a)
        /\ new.alone = (ready = << >>)
    BY <2>1 DEF NewAlarm, Alarms, AlarmInv
  <2>. HIDE DEF new
  <2>3. CASE ValidAlarmTime(a)
    <3>. DEFINE q == Append(ready, new)
    <3>1. /\ q \in Seq(Alarms) /\ Len(q) = Len(ready) + 1
          /\ \A i \in 1..Len(ready) : q[i] = ready[i]
          /\ q[Len(ready) + 1] = new
      BY <1>1, <2>2, AppendProperties
    <3>2. Len(ready) \in Nat /\ DOMAIN ready = 1..Len(ready) /\ DOMAIN q = 1..Len(q)
      BY <1>1, <3>1, LenProperties
    <3>. HIDE DEF q
    <3>3. Len(q) <= MaxAlarms
      BY <2>1, <3>1, <3>2, AlarmAssumption
    <3>4. ASSUME NEW i \in DOMAIN q
          PROVE  \/ TimeKept(q[i])
                 \/ i = 1 /\ q[i].time = Unset /\ global_time' = q[i].asked
      <4>1. i \in 1..Len(ready) \/ i = Len(ready) + 1
        BY <3>1, <3>2
      <4>2. CASE i \in 1..Len(ready)
        BY <1>1, <3>1, <3>2, <4>2
      <4>3. CASE i = Len(ready) + 1 /\ ready = << >>
        <5>1. i = 1
          BY <4>3
        <5>. QED  BY <2>1, <2>2, <3>1, <4>3, <5>1
      <4>4. CASE i = Len(ready) + 1 /\ ready # << >>
        BY <2>2, <3>1, <4>4 DEF TimeKept
      <4>. QED  BY <4>1, <4>2, <4>3, <4>4
    <3>5. HandlerIdles(q, "prompt")
      BY <2>1, <2>3 DEF q
    <3>. QED  BY <2>1, <3>1, <3>3, <3>4, <3>5, HandlerLetsPoll
  <2>4. CASE ~ ValidAlarmTime(a)
    BY <1>1, <2>1, <2>4, HandlerLetsPoll
  <2>. QED  BY <2>3, <2>4
<1>3. ASSUME NEW text \in Texts, OtherCommand(text)
      PROVE  AlarmInv'
  <2>1. running = Comhand /\ line' = text /\ HandlerIdles(ready, "prompt") /\ global_time' = global_time
    BY <1>3 DEF OtherCommand, AtPrompt
  <2>. QED  BY <1>1, <2>1, HandlerLetsPoll
<1>4. CASE YieldCommand
  <2>1. running = Comhand /\ line' = NoText /\ HandlerIdles(ready, "end") /\ global_time' = global_time
    BY <1>4 DEF YieldCommand, AtPrompt
  <2>. QED  BY <1>1, <2>1, HandlerLetsPoll
<1>5. CASE ComhandEnd
  <2>1. running = Comhand /\ line' = line /\ HandlerIdles(ready, "prompt") /\ global_time' = global_time
    BY <1>5 DEF ComhandEnd
  <2>. QED  BY <1>1, <2>1, HandlerLetsPoll
<1>. QED  BY <1>2, <1>3, <1>4, <1>5 DEF RunLine

\* At the prompt time goes on, and nobody polls.
LEMMA PromptStep ==
    ASSUME AlarmInv, TimePasses
    PROVE  AlarmInv'
<1>1. /\ running = Comhand /\ rtc' \in Moments
      /\ todo' = todo /\ got' = got /\ ticks' = ticks /\ UNCHANGED alarmVars
  BY DEF TimePasses
<1>2. rtc' \in [Register -> Byte]
  BY <1>1, MomentsAreTimes DEF IsTime
<1>3. AlarmTypeOK'
  BY <1>1, <1>2 DEF AlarmInv, AlarmTypeOK, RtcTypes, alarmVars
<1>. QED  BY <1>1, <1>3 DEF AlarmInv, AloneIsHardlyEarly, alarmVars

LEMMA ReadClockStep ==
    ASSUME AlarmInv, ReadClock
    PROVE  AlarmInv'
<1>1. /\ running # Comhand /\ todo # << >>
      /\ got' = [got EXCEPT ![Head(todo)] = bcd_to_binary(rtc[Head(todo)])]
      /\ todo' = Tail(todo) /\ rtc' = rtc /\ ticks' = ticks /\ UNCHANGED alarmVars
  BY DEF ReadClock, ReadRtc
<1>2. /\ IsTime(began) /\ ticks \in 0..(OneDay - 1) /\ rtc = After(began, ticks)
      /\ got \in [Register -> Byte] /\ rtc \in [Register -> Byte]
      /\ todo \in Seq(Register)
  <2>1. ticks \in 0..MaxTicks
    BY DEF AlarmInv, AlarmTypeOK, RtcTypes
  <2>2. ticks \in 0..(OneDay - 1)
    BY <2>1, RtcAssumption, DayIsLong
  <2>. QED  BY <1>1, <2>2, MomentsAreTimes DEF AlarmInv, AlarmTypeOK, RtcTypes, Polls
<1>3. Head(todo) \in Register /\ Tail(todo) \in Seq(Register)
  BY <1>1, <1>2, HeadTailProperties
<1>4. got' \in [Register -> Byte]
  <2>1. \A b \in Byte : bcd_to_binary(b) \in Byte
    BY DEF Byte, bcd_to_binary
  <2>. QED  BY <1>1, <1>2, <1>3, <2>1
<1>5. Reading(began, ticks, todo', got')
  BY <1>1, <1>2, ReadingReads DEF AlarmInv, Polls
<1>6. AlarmTypeOK'
  BY <1>1, <1>3, <1>4 DEF AlarmInv, AlarmTypeOK, RtcTypes, alarmVars
<1>7. Polls'
  BY <1>1, <1>5 DEF AlarmInv, Polls, alarmVars
<1>. QED  BY <1>1, <1>6, <1>7 DEF AlarmInv, AloneIsHardlyEarly, alarmVars

LEMMA AlarmStartStep ==
    ASSUME AlarmInv, AlarmStart
    PROVE  AlarmInv'
<1>1. /\ running # Comhand /\ running.time = Unset
      /\ running' = [running EXCEPT !.time = global_time] /\ global_time' = 0
      /\ shown' = [text |-> line, alarm |-> running', ended |-> FALSE]
      /\ UNCHANGED <<rtcVars, comhand, ready, line, began>>
  BY DEF AlarmStart
<1>2. running \in Alarms /\ global_time \in Nat
  BY <1>1 DEF AlarmInv, AlarmTypeOK
<1>3. /\ running' \in Alarms /\ running'.time = global_time
      /\ running'.asked = running.asked /\ running'.alone = running.alone
      /\ running.asked \in Nat
  BY <1>1, <1>2 DEF Alarms
<1>4. running' # Comhand
  BY <1>3, NoAlarmIsComhand
<1>5. shown'.alarm = running' /\ shown'.ended = FALSE
  BY <1>1
<1>6. AlarmTypeOK'
  BY <1>1, <1>3 DEF AlarmInv, AlarmTypeOK, RtcTypes, rtcVars
<1>7. TimeKept(running')
  <2>1. global_time \in Nat /\ running.time = -1 /\ running.asked \in Nat
    BY <1>1, <1>2, <1>3 DEF Unset
  <2>2. running.alone => global_time = running.asked
    BY <1>1, <2>1 DEF AlarmInv, Polls, TimeKept
  <2>. QED  BY <1>3, <2>2 DEF TimeKept
<1>8. Polls'
  BY <1>1, <1>7 DEF AlarmInv, Polls, rtcVars, TimeKept
<1>. QED  BY <1>1, <1>3, <1>5, <1>6, <1>8 DEF AlarmInv, AloneIsHardlyEarly, rtcVars

LEMMA AlarmWaitsStep ==
    ASSUME AlarmInv, AlarmWaits
    PROVE  AlarmInv'
<1>1. /\ running # Comhand /\ running.time # Unset
      /\ ready' = Append(ready, running) /\ running' = Comhand
      /\ UNCHANGED <<rtcVars, comhand, global_time, line, began, shown>>
  BY DEF AlarmWaits
<1>2. /\ running \in Alarms /\ ready \in Seq(Alarms) /\ Len(ready) < MaxAlarms
      /\ TimeKept(running)
  BY <1>1 DEF AlarmInv, AlarmTypeOK, Polls
<1>3. /\ ready' \in Seq(Alarms) /\ Len(ready') = Len(ready) + 1
      /\ \A i \in 1..Len(ready) : ready'[i] = ready[i]
      /\ ready'[Len(ready) + 1] = running
  BY <1>1, <1>2, AppendProperties
<1>4. Len(ready) \in Nat /\ DOMAIN ready = 1..Len(ready) /\ DOMAIN ready' = 1..Len(ready')
  BY <1>2, <1>3, LenProperties
<1>5. Len(ready') <= MaxAlarms
  BY <1>2, <1>3, <1>4, AlarmAssumption
<1>6. \A i \in DOMAIN ready' : TimeKept(ready'[i])
  <2>1. \A i \in 1..Len(ready') : i \in 1..Len(ready) \/ i = Len(ready) + 1
    BY <1>3, <1>4
  <2>. QED  BY <1>2, <1>3, <1>4, <2>1 DEF AlarmInv
<1>7. AlarmTypeOK'
  BY <1>1, <1>3, <1>5 DEF AlarmInv, AlarmTypeOK, RtcTypes, rtcVars
<1>. QED  BY <1>1, <1>6, <1>7 DEF AlarmInv, AloneIsHardlyEarly, rtcVars, TimeKept

LEMMA AlarmFiresStep ==
    ASSUME AlarmInv, AlarmFires
    PROVE  AlarmInv'
<1>1. /\ running # Comhand /\ todo = << >> /\ running.time # Unset /\ Due(running.time)
      /\ shown' = [text |-> line, alarm |-> running, ended |-> TRUE] /\ running' = Comhand
      /\ UNCHANGED <<rtcVars, comhand, ready, global_time, line, began>>
  BY DEF AlarmFires, Show
<1>2. running \in Alarms /\ running.asked \in Nat /\ TimeKept(running)
  BY <1>1 DEF AlarmInv, AlarmTypeOK, Alarms, Polls
<1>3. shown'.alarm = running
  BY <1>1
<1>4. IsTime(began) /\ ticks \in 0..(OneDay - 1) /\ Reading(began, ticks, << >>, got)
  <2>1. ticks \in 0..MaxTicks
    BY DEF AlarmInv, AlarmTypeOK, RtcTypes
  <2>2. ticks \in 0..(OneDay - 1)
    BY <2>1, RtcAssumption, DayIsLong
  <2>. QED  BY <1>1, <2>2, MomentsAreTimes DEF AlarmInv, Polls
<1>5. running.alone => running.asked - TimeOn(began) < OneHour + ticks
  <2>. SUFFICES ASSUME running.alone PROVE running.asked - TimeOn(began) < OneHour + ticks
    OBVIOUS
  <2>. DEFINE v == TimeOfDay(got)
              o == TimeOn(began)
              a == running.asked
  <2>1. v >= a /\ a \in Nat
    BY <1>1, <1>2 DEF TimeKept, Due
  <2>2. v \in 0..(OneDay - 1)
    BY <1>4, ReadingEnds
  <2>3. PICK t \in Nat : t < o + ticks + OneHour /\ (t = v \/ t = v + OneDay)
    BY <1>4, ReadingEnds
  <2>4. o \in 0..(OneDay - 1)
    BY <1>4, TimeInRegisters
  <2>. HIDE DEF v, o, a
  <2>5. a - o < OneHour + ticks
    BY <1>4, <2>1, <2>2, <2>3, <2>4, DayIsLong
  <2>. QED  BY <2>5 DEF o, a
<1>6. AloneIsHardlyEarly'
  BY <1>1, <1>3, <1>5 DEF AloneIsHardlyEarly, rtcVars
<1>7. AlarmTypeOK'
  BY <1>1 DEF AlarmInv, AlarmTypeOK, RtcTypes, rtcVars
<1>. QED  BY <1>1, <1>2, <1>3, <1>6, <1>7 DEF AlarmInv, rtcVars, TimeKept

\* The invariant holds in every state.
THEOREM AlarmsKeepInv == AlarmSpec => []AlarmInv
<1>1. AlarmInv /\ [AlarmNext]_clockVars => AlarmInv'
  <2>. SUFFICES ASSUME AlarmInv, [AlarmNext]_clockVars PROVE AlarmInv'
    OBVIOUS
  <2>1. CASE UNCHANGED clockVars
    BY <2>1 DEF clockVars, rtcVars, alarmVars, AlarmInv, AlarmTypeOK, RtcTypes, Polls,
                TimeKept, AloneIsHardlyEarly
  <2>. QED  BY <2>1, PromptStep, PollingGoesOn, HandlerStep, ReadClockStep, AlarmStartStep,
               AlarmWaitsStep, AlarmFiresStep DEF AlarmNext, AlarmStep
<1>. QED  BY <1>1, AlarmsBegin, PTL DEF AlarmSpec

\* The variables of an alarm have their types: a register's byte never leaves 0..255,
\* and no more alarms wait than were loaded.
THEOREM AlarmTypes == AlarmSpec => []AlarmTypeOK
<1>1. AlarmInv => AlarmTypeOK
  BY DEF AlarmInv
<1>. QED  BY <1>1, AlarmsKeepInv, PTL

\* An alarm set while there was no other waits for the time that was typed for it,
\* although it takes it from globals that the next line may write (alarm_proc).
THEOREM LoneAlarmKeepsItsTime == AlarmSpec => []AloneKeepsItsTime
<1>1. AlarmInv => AloneKeepsItsTime
  BY DEF AlarmInv, AloneKeepsItsTime, TimeKept
<1>. QED  BY <1>1, AlarmsKeepInv, PTL

\* Such an alarm does not fire an hour before its time, whatever is carried between
\* the reads of seconds, minutes and hours (alarm_proc).
THEOREM LoneAlarmIsHardlyEarly == AlarmSpec => []AloneIsHardlyEarly
<1>1. AlarmInv => AloneIsHardlyEarly
  BY DEF AlarmInv
<1>. QED  BY <1>1, AlarmsKeepInv, PTL

\* An alarm whose time had come when it began to read the clock is not put off, but
\* over midnight: what it reads is never behind the moment it began.
THEOREM DueAlarmsFire == AlarmSpec => DueAlarmIsNotPutOff
<1>1. ASSUME AlarmInv, [AlarmNext]_clockVars, Len(ready') > Len(ready), running # Comhand
      PROVE  \/ TimeOn(began) < Last(ready').time
             \/ TimeOn(rtc) < TimeOn(began)
  <2>1. Len(ready) \in Nat /\ ~ (Len(ready) > Len(ready))
    BY <1>1, LenProperties DEF AlarmInv, AlarmTypeOK
  <2>2. AlarmWaits
    BY <1>1, <2>1 DEF AlarmNext, AlarmStep, TimePasses, SecondGoesBy, RunLine, AlarmCommand,
       OtherCommand, YieldCommand, AtPrompt, ComhandEnd, ReadClock, AlarmStart, AlarmFires,
       clockVars, alarmVars
  <2>3. /\ todo = << >> /\ running.time # Unset /\ ~ Due(running.time)
        /\ ready' = Append(ready, running) /\ running \in Alarms /\ ready \in Seq(Alarms)
        /\ Reading(began, ticks, << >>, got) /\ rtc = After(began, ticks)
    BY <1>1, <2>2 DEF AlarmWaits, AlarmInv, AlarmTypeOK, Polls
  <2>4. Last(ready') = running
    BY <2>1, <2>3, AppendProperties DEF Last
  <2>5. IsTime(began) /\ ticks \in 0..(OneDay - 1)
    <3>1. ticks \in 0..MaxTicks
      BY <1>1 DEF AlarmInv, AlarmTypeOK, RtcTypes
    <3>2. ticks \in 0..(OneDay - 1)
      BY <3>1, RtcAssumption, DayIsLong
    <3>. QED  BY <1>1, <3>2, MomentsAreTimes DEF AlarmInv
  <2>. DEFINE v == TimeOfDay(got)
              o == TimeOn(began)
              a == running.time
  <2>6. a \in Nat /\ ~ (v >= a)
    BY <2>3 DEF Alarms, Due
  <2>7. /\ v \in 0..(OneDay - 1)
        /\ \E t \in Nat : o <= t /\ (o + ticks < OneDay => t = v)
    BY <2>3, <2>5, ReadingEnds
  <2>8. /\ o \in 0..(OneDay - 1)
        /\ TimeOn(rtc) = IF o + ticks < OneDay THEN o + ticks ELSE (o + ticks) - OneDay
    BY <2>3, <2>5, TimeInRegisters, AfterShows
  <2>. HIDE DEF v, o, a
  <2>9. CASE o + ticks < OneDay
    <3>1. o < a
      BY <2>6, <2>7, <2>8, <2>9, DayIsLong
    <3>. QED  BY <2>4, <3>1 DEF o, a
  <2>10. CASE ~ (o + ticks < OneDay)
    <3>1. (o + ticks) - OneDay < o
      BY <2>5, <2>8, DayIsLong
    <3>. QED  BY <2>8, <2>10, <3>1 DEF o
  <2>. QED  BY <2>9, <2>10
<1>2. AlarmInv /\ [AlarmNext]_clockVars =>
          [Len(ready') > Len(ready) /\ running # Comhand =>
              \/ TimeOn(began) < Last(ready').time
              \/ TimeOn(rtc) < TimeOn(began)]_clockVars
  BY <1>1
<1>. QED  BY <1>2, AlarmsKeepInv, PTL DEF AlarmSpec, DueAlarmIsNotPutOff

-----------------------------------------------------------------------------
(***************************************************************************)
(* The clock while the date is written: its time goes on, and passes       *)
(* midnight once at the most.                                              *)
(***************************************************************************)
DateRegister == {"DAY_OF_MONTH", "MONTH", "YEAR"}

SameDay(v, w) == \A reg \in DateRegister : v[reg] = w[reg]

Today(r, n) == TimeOn(r) + n < OneDay

Runs(r, n, w) ==
    /\ IsTime(w)
    /\ TimeOn(w) = IF Today(r, n) THEN TimeOn(r) + n ELSE (TimeOn(r) + n) - OneDay

LEMMA AfterRuns ==
    ASSUME NEW r, IsTime(r), NEW n \in 0..(OneDay - 1)
    PROVE  /\ Runs(r, n, After(r, n))
           /\ SameDay(After(r, n), IF Today(r, n) THEN r ELSE NextDay(r))
<1>. DEFINE o == TimeOn(r)
            t == o + n
            d == NextDay(r)
            w == After(r, n)
<1>1. o \in 0..(OneDay - 1) /\ r \in [Register -> Byte] /\ d \in [Register -> Byte]
  BY TimeInRegisters, MidnightComes DEF IsTime
<1>2. w = IF t < OneDay THEN AtTime(r, t) ELSE AtTime(d, t - OneDay)
  BY Zenon DEF After
<1>3. Today(r, n) <=> t < OneDay
  BY Zenon DEF Today
<1>4. Runs(r, n, w)
  BY AfterShows DEF Runs, Today
<1>. HIDE DEF o, d, w
<1>5. /\ t < OneDay => t \in 0..(OneDay - 1)
      /\ ~ (t < OneDay) => t - OneDay \in 0..(OneDay - 1)
  BY <1>1, DayIsLong
<1>. HIDE DEF t
<1>6. SameDay(w, IF t < OneDay THEN r ELSE d)
  BY <1>1, <1>2, <1>5, SetTimeIsTime DEF SameDay, DateRegister
<1>. QED  BY <1>3, <1>4, <1>6 DEF w, d

LEMMA TickedBytes ==
    ASSUME NEW r \in [Register -> Byte]
    PROVE  Ticked(r) \in [Register -> Byte]
<1>1. \A b \in Byte : CountUp(b) \in Byte
  BY DEF CountUp, Byte
<1>2. 0 \in Byte /\ Bcd(1) \in Byte
  BY DEF Byte, Bcd
<1>. QED  BY <1>1, <1>2 DEF Ticked, Register

LEMMA ClockTicks ==
    ASSUME NEW r, IsTime(r)
    PROVE  /\ TimeOn(r) # OneDay - 1 =>
                 /\ Runs(r, 1, Ticked(r)) /\ TimeOn(Ticked(r)) = TimeOn(r) + 1
                 /\ SameDay(Ticked(r), r)
           /\ TimeOn(r) = OneDay - 1 =>
                 /\ Ticked(r) = NextDay(r) /\ IsTime(Ticked(r)) /\ TimeOn(Ticked(r)) = 0
<1>. DEFINE t == TimeOn(r)
<1>1. t \in 0..(OneDay - 1) /\ r \in [Register -> Byte]
  BY TimeInRegisters DEF IsTime
<1>2. CASE t # OneDay - 1
  <2>1. t + 1 \in 0..(OneDay - 1) /\ t < OneDay - 1 /\ t + 1 < OneDay
    <3>. HIDE DEF t
    <3>. QED  BY <1>1, <1>2, DayIsLong
  <2>2. Ticked(r) = AtTime(r, t + 1)
    BY <2>1, OneSecond
  <2>3. IsTime(Ticked(r)) /\ TimeOn(Ticked(r)) = t + 1 /\ SameDay(Ticked(r), r)
    BY <1>1, <2>1, <2>2, SetTimeIsTime DEF SameDay, DateRegister
  <2>. QED  BY <1>2, <2>1, <2>3 DEF Runs, Today
<1>3. CASE t = OneDay - 1
  <2>1. Ticked(r) = NextDay(r)
    BY <1>1, <1>3, LastSecond, ItsOwnTime
  <2>. QED  BY <1>1, <1>3, <2>1, MidnightComes
<1>. QED  BY <1>2, <1>3

\* Midnight passes, or the date stays.
LEMMA RunsOn ==
    ASSUME NEW r, IsTime(r), NEW n \in 0..(OneDay - 2), NEW w, Runs(r, n, w)
    PROVE  /\ Runs(r, n + 1, Ticked(w))
           /\ Today(r, n) /\ ~ Today(r, n + 1) => Ticked(w) = NextDay(w)
           /\ (Today(r, n) <=> Today(r, n + 1)) => SameDay(Ticked(w), w)
           /\ Today(r, n + 1) => Today(r, n)
<1>. DEFINE o == TimeOn(r)
            t == TimeOn(w)
            u == TimeOn(Ticked(w))
            a == Today(r, n)
            b == Today(r, n + 1)
<1>1. /\ o \in 0..(OneDay - 1) /\ t \in 0..(OneDay - 1)
      /\ t = IF o + n < OneDay THEN o + n ELSE (o + n) - OneDay
      /\ a <=> o + n < OneDay
      /\ b <=> o + (n + 1) < OneDay
  BY TimeInRegisters DEF Runs, Today
<1>2. /\ IsTime(Ticked(w))
      /\ u = IF t = OneDay - 1 THEN 0 ELSE t + 1
      /\ t = OneDay - 1 => Ticked(w) = NextDay(w)
      /\ t # OneDay - 1 => SameDay(Ticked(w), w)
  BY ClockTicks DEF Runs
<1>. HIDE DEF o, t, u
<1>3. /\ t = OneDay - 1 <=> (o + n < OneDay /\ ~ (o + (n + 1) < OneDay))
      /\ o + (n + 1) < OneDay => o + n < OneDay
  BY <1>1, DayIsLong
<1>4. u = IF o + (n + 1) < OneDay THEN o + (n + 1) ELSE (o + (n + 1)) - OneDay
  BY <1>1, <1>2, <1>3, DayIsLong
<1>5. Runs(r, n + 1, Ticked(w))
  BY <1>1, <1>2, <1>4 DEF Runs, o, u
<1>. QED  BY <1>1, <1>2, <1>3, <1>5

\* What is written into the registers of the date leaves the time alone.
LEMMA TimeOfSameRegisters ==
    ASSUME NEW w, IsTime(w), NEW reg \in DateRegister, NEW b \in Byte
    PROVE  LET v == [w EXCEPT ![reg] = b]
           IN  IsTime(v) /\ TimeOn(v) = TimeOn(w) /\ v[reg] = b
               /\ \A s \in Register \ {reg} : v[s] = w[s]
<1>. DEFINE v == [w EXCEPT ![reg] = b]
<1>1. w \in [Register -> Byte]
  BY DEF IsTime
<1>2. /\ v \in [Register -> Byte] /\ v[reg] = b
      /\ \A s \in Register \ {reg} : v[s] = w[s]
      /\ v.SECONDS = w.SECONDS /\ v.MINUTES = w.MINUTES /\ v.HOURS = w.HOURS
  BY <1>1 DEF Register, DateRegister
<1>. HIDE DEF v
<1>3. IsTime(v)
  BY <1>2 DEF IsTime
<1>4. /\ Shown(v).SECONDS = Shown(w).SECONDS /\ Shown(v).MINUTES = Shown(w).MINUTES
      /\ Shown(v).HOURS = Shown(w).HOURS
  BY <1>2 DEF Shown, Register
<1>5. TimeOn(v) = TimeOn(w)
  BY <1>4 DEF TimeOn, TimeOfDay
<1>. QED  BY <1>2, <1>3, <1>5 DEF v

(***************************************************************************)
(* The date as it is read: day, month and year, of the day r or of the     *)
(* next one, and what was carried into is read later.                      *)
(***************************************************************************)
DayRead(r, i) == IF i = 0 THEN r ELSE NextDay(r)

DateReadAt(r, n, td, g, i, j, k) ==
    /\ i <= j /\ j <= k
    /\ Today(r, n) => k = 0
    /\ \/ td = <<"DAY_OF_MONTH", "MONTH", "YEAR">>
       \/ /\ td = <<"MONTH", "YEAR">>
          /\ g.DAY_OF_MONTH = Decimal(DayRead(r, i).DAY_OF_MONTH)
       \/ /\ td = <<"YEAR">>
          /\ g.DAY_OF_MONTH = Decimal(DayRead(r, i).DAY_OF_MONTH)
          /\ g.MONTH = Decimal(DayRead(r, j).MONTH)
       \/ /\ td = << >>
          /\ g.DAY_OF_MONTH = Decimal(DayRead(r, i).DAY_OF_MONTH)
          /\ g.MONTH = Decimal(DayRead(r, j).MONTH)
          /\ g.YEAR = Decimal(DayRead(r, k).YEAR)

DateReading(r, n, td, g) == \E i, j, k \in {0, 1} : DateReadAt(r, n, td, g, i, j, k)

LEMMA DateReadingBegins ==
    ASSUME NEW r, NEW n, NEW g
    PROVE  DateReading(r, n, <<"DAY_OF_MONTH", "MONTH", "YEAR">>, g)
<1>1. DateReadAt(r, n, <<"DAY_OF_MONTH", "MONTH", "YEAR">>, g, 0, 0, 0)
  BY DEF DateReadAt
<1>. QED  BY <1>1 DEF DateReading

LEMMA TodayWasToday ==
    ASSUME NEW r, IsTime(r), NEW n \in Nat, Today(r, n + 1)
    PROVE  Today(r, n)
<1>. DEFINE o == TimeOn(r)
<1>1. o \in 0..(OneDay - 1) /\ o + (n + 1) < OneDay
  BY TimeInRegisters DEF Today
<1>2. o + n < OneDay
  <2>. HIDE DEF o
  <2>. QED  BY <1>1, DayIsLong
<1>. QED  BY <1>2 DEF Today

LEMMA DateReadingGoesOn ==
    ASSUME NEW r, IsTime(r), NEW n \in Nat, NEW td, NEW g, DateReading(r, n, td, g)
    PROVE  DateReading(r, n + 1, td, g)
<1>1. PICK i \in {0, 1}, j \in {0, 1}, k \in {0, 1} : DateReadAt(r, n, td, g, i, j, k)
  BY DEF DateReading
<1>2. DateReadAt(r, n + 1, td, g, i, j, k)
  BY <1>1, TodayWasToday DEF DateReadAt
<1>. QED  BY <1>2 DEF DateReading

LEMMA BytesAreDecimal ==
    ASSUME NEW b \in Byte
    PROVE  bcd_to_binary(b) = Decimal(b) /\ Decimal(b) \in Byte
BY DEF bcd_to_binary, Decimal, Byte

LEMMA DateReadingReads ==
    ASSUME NEW r, IsTime(r), NEW n \in 0..(OneDay - 1), NEW td, NEW g \in [Register -> Byte],
           DateReading(r, n, td, g), td # << >>
    PROVE  DateReading(r, n, Tail(td),
                       [g EXCEPT ![Head(td)] = bcd_to_binary(After(r, n)[Head(td)])])
<1>. DEFINE w   == After(r, n)
            now == IF Today(r, n) THEN 0 ELSE 1
            h   == [g EXCEPT ![Head(td)] = bcd_to_binary(w[Head(td)])]
<1>1. PICK i \in {0, 1}, j \in {0, 1}, k \in {0, 1} : DateReadAt(r, n, td, g, i, j, k)
  BY DEF DateReading
<1>2. now \in {0, 1} /\ i <= now /\ j <= now /\ now <= now /\ (Today(r, n) => now = 0)
      /\ i <= j
  BY <1>1 DEF DateReadAt
<1>3. \A reg \in DateRegister : bcd_to_binary(w[reg]) = Decimal(DayRead(r, now)[reg])
  <2>1. SameDay(w, DayRead(r, now)) /\ w \in [Register -> Byte]
    BY AfterRuns DEF DayRead, Runs, IsTime
  <2>2. \A reg \in DateRegister : w[reg] = DayRead(r, now)[reg] /\ w[reg] \in Byte
    BY <2>1 DEF SameDay, DateRegister, Register
  <2>. QED  BY <2>2, BytesAreDecimal
<1>. HIDE DEF w, now
<1>4. CASE td = <<"DAY_OF_MONTH", "MONTH", "YEAR">>
  <2>1. /\ Tail(td) = <<"MONTH", "YEAR">>
        /\ h.DAY_OF_MONTH = Decimal(DayRead(r, now).DAY_OF_MONTH)
    BY <1>3, <1>4 DEF Register, DateRegister
  <2>2. DateReadAt(r, n, Tail(td), h, now, now, now)
    BY <1>2, <2>1 DEF DateReadAt
  <2>. QED  BY <1>2, <2>2 DEF DateReading, w
<1>5. CASE td = <<"MONTH", "YEAR">>
  <2>1. /\ Tail(td) = <<"YEAR">> /\ h.DAY_OF_MONTH = g.DAY_OF_MONTH
        /\ h.MONTH = Decimal(DayRead(r, now).MONTH)
        /\ g.DAY_OF_MONTH = Decimal(DayRead(r, i).DAY_OF_MONTH)
    BY <1>1, <1>3, <1>5 DEF Register, DateRegister, DateReadAt
  <2>2. DateReadAt(r, n, Tail(td), h, i, now, now)
    BY <1>2, <2>1 DEF DateReadAt
  <2>. QED  BY <1>2, <2>2 DEF DateReading, w
<1>6. CASE td = <<"YEAR">>
  <2>1. /\ Tail(td) = << >> /\ h.DAY_OF_MONTH = g.DAY_OF_MONTH /\ h.MONTH = g.MONTH
        /\ h.YEAR = Decimal(DayRead(r, now).YEAR)
        /\ g.DAY_OF_MONTH = Decimal(DayRead(r, i).DAY_OF_MONTH)
        /\ g.MONTH = Decimal(DayRead(r, j).MONTH)
    BY <1>1, <1>3, <1>6 DEF Register, DateRegister, DateReadAt
  <2>2. DateReadAt(r, n, Tail(td), h, i, j, now)
    BY <1>2, <2>1 DEF DateReadAt
  <2>. QED  BY <1>2, <2>2 DEF DateReading, w
<1>. QED  BY <1>1, <1>4, <1>5, <1>6 DEF DateReadAt

(***************************************************************************)
(* The calendar: the day, the month or the year is counted up, and what is *)
(* left of them begins again.                                              *)
(***************************************************************************)
IsDate(r) ==
    /\ r.DAY_OF_MONTH \in Bcds(1..31)
    /\ r.MONTH \in Bcds(1..12)
    /\ r.YEAR \in Bcds(0..99)

Follows(d, m, y, D, M, Y) ==
    \/ D = d + 1 /\ d < 31 /\ M = m /\ Y = y
    \/ D = 1 /\ M = m + 1 /\ m < 12 /\ Y = y
    \/ D = 1 /\ M = 1 /\ m = 12 /\ Y = y + 1 /\ y < 99
    \/ D = 1 /\ M = 1 /\ m = 12 /\ Y = 0 /\ y = 99

\* The date at midnight, whatever the time was before.
LEMMA DateAtMidnight ==
    ASSUME NEW r \in [Register -> Byte]
    PROVE  LET month == Decimal(r.DAY_OF_MONTH) >= LastDay(Decimal(r.MONTH), Decimal(r.YEAR))
               year  == month /\ r.MONTH = Bcd(12)
               w     == NextDay(r)
           IN  /\ w.DAY_OF_MONTH = IF month THEN Bcd(1) ELSE CountUp(r.DAY_OF_MONTH)
               /\ w.MONTH = IF year THEN Bcd(1) ELSE IF month THEN CountUp(r.MONTH) ELSE r.MONTH
               /\ w.YEAR = IF year /\ r.YEAR = Bcd(99) THEN 0
                           ELSE IF year THEN CountUp(r.YEAR) ELSE r.YEAR
<1>. DEFINE v == AtTime(r, OneDay - 1)
<1>1. OneDay - 1 \in 0..(OneDay - 1)
  BY DayIsLong
<1>2. HoursOf(OneDay - 1) = 23 /\ MinutesOf(OneDay - 1) = 59 /\ SecondsOf(OneDay - 1) = 59
  BY DEF HoursOf, MinutesOf, SecondsOf, OneDay, OneHour
<1>3. /\ v.SECONDS = Bcd(59) /\ v.MINUTES = Bcd(59) /\ v.HOURS = Bcd(23)
      /\ v.DAY_OF_MONTH = r.DAY_OF_MONTH /\ v.MONTH = r.MONTH /\ v.YEAR = r.YEAR
  BY <1>2 DEF AtTime, HoursOf, MinutesOf, SecondsOf, Register
<1>. HIDE DEF v
<1>. QED  BY <1>3 DEF NextDay, Ticked, v

LEMMA NextDate ==
    ASSUME NEW r \in [Register -> Byte], IsDate(r)
    PROVE  LET s == Shown(r)
               w == Shown(NextDay(r))
           IN  /\ s.DAY_OF_MONTH \in 1..31 /\ s.MONTH \in 1..12 /\ s.YEAR \in 0..99
               /\ Follows(s.DAY_OF_MONTH, s.MONTH, s.YEAR, w.DAY_OF_MONTH, w.MONTH, w.YEAR)
<1>1. PICK d \in 1..31, m \in 1..12, y \in 0..99 :
          r.DAY_OF_MONTH = Bcd(d) /\ r.MONTH = Bcd(m) /\ r.YEAR = Bcd(y)
  BY DEF IsDate, Bcds
<1>2. /\ Decimal(Bcd(d)) = d /\ Decimal(Bcd(m)) = m /\ Decimal(Bcd(y)) = y
      /\ Bcd(m) = Bcd(12) <=> m = 12
      /\ Bcd(y) = Bcd(99) <=> y = 99
      /\ CountUp(Bcd(d)) = Bcd(d + 1) /\ Decimal(Bcd(d + 1)) = d + 1
      /\ m # 12 => CountUp(Bcd(m)) = Bcd(m + 1) /\ Decimal(Bcd(m + 1)) = m + 1
      /\ y # 99 => CountUp(Bcd(y)) = Bcd(y + 1) /\ Decimal(Bcd(y + 1)) = y + 1
      /\ Decimal(Bcd(1)) = 1 /\ Decimal(0) = 0
  BY BcdIsAByte, CountsInBcd, OneBcd DEF Decimal
<1>. DEFINE month == d >= LastDay(m, y)
            w     == NextDay(r)
<1>3. LastDay(m, y) \in 28..31
  BY DEF LastDay
<1>4. /\ w.DAY_OF_MONTH = IF month THEN Bcd(1) ELSE Bcd(d + 1)
      /\ w.MONTH = IF month /\ m = 12 THEN Bcd(1) ELSE IF month THEN Bcd(m + 1) ELSE Bcd(m)
      /\ w.YEAR = IF month /\ m = 12 /\ y = 99 THEN 0
                  ELSE IF month /\ m = 12 THEN Bcd(y + 1) ELSE Bcd(y)
  BY <1>1, <1>2, DateAtMidnight
<1>5. ~ month => d < 31
  BY <1>3
<1>6. /\ Shown(r).DAY_OF_MONTH = d /\ Shown(r).MONTH = m /\ Shown(r).YEAR = y
      /\ Shown(w).DAY_OF_MONTH = Decimal(w.DAY_OF_MONTH)
      /\ Shown(w).MONTH = Decimal(w.MONTH) /\ Shown(w).YEAR = Decimal(w.YEAR)
  BY <1>1, <1>2 DEF Shown, Register
<1>. HIDE DEF month, w
<1>7. Follows(d, m, y, Shown(w).DAY_OF_MONTH, Shown(w).MONTH, Shown(w).YEAR)
  BY <1>2, <1>4, <1>5, <1>6 DEF Follows
<1>. QED  BY <1>6, <1>7 DEF w

\* Numbers of dates: q is that of the day, p has parts of the next one.
Mixed(d, m, y, D, M, Y, i, j, k, p, q) ==
    /\ d \in 1..31 /\ m \in 1..12 /\ y \in 0..99 /\ Follows(d, m, y, D, M, Y)
    /\ i \in {0, 1} /\ j \in {0, 1} /\ k \in {0, 1} /\ i <= j /\ j <= k
    /\ p = ((IF i = 0 THEN d ELSE D) - 1) + 31 * ((IF j = 0 THEN m ELSE M) - 1)
           + OneYear * (IF k = 0 THEN y ELSE Y)
    /\ q = (d - 1) + 31 * (m - 1) + OneYear * y

LEMMA WithinYear ==
    ASSUME NEW n \in Int, n \in 0..OneYear \/ n + OneCentury \in 0..OneYear
    PROVE  n % OneCentury <= OneYear
BY DEF OneYear, OneCentury

\* What is read of two days that follow each other is not before the first, and a
\* year ahead at most.
LEMMA DateReadInParts ==
    ASSUME NEW d, NEW m, NEW y, NEW D, NEW M, NEW Y, NEW i, NEW j, NEW k, NEW p, NEW q,
           Mixed(d, m, y, D, M, Y, i, j, k, p, q)
    PROVE  (p - q) % OneCentury <= OneYear
<1>. DEFINE a == IF i = 0 THEN d ELSE D
            b == IF j = 0 THEN m ELSE M
            c == IF k = 0 THEN y ELSE Y
<1>1. /\ d \in 1..31 /\ m \in 1..12 /\ y \in 0..99
      /\ p = (a - 1) + 31 * (b - 1) + OneYear * c
      /\ q = (d - 1) + 31 * (m - 1) + OneYear * y
  BY DEF Mixed
<1>2. \/ a = d /\ b = m /\ c = y
      \/ a = d + 1 /\ b = m /\ c = y
      \/ a = 1 /\ b = m + 1 /\ c = y
      \/ a = d /\ b = m + 1 /\ c = y
      \/ a = d /\ b = m /\ m = 12 /\ (c = y + 1 \/ (c = 0 /\ y = 99))
      \/ a = d /\ b = 1 /\ m = 12 /\ (c = y + 1 \/ (c = 0 /\ y = 99))
      \/ a = 1 /\ b = 1 /\ m = 12 /\ (c = y + 1 \/ (c = 0 /\ y = 99))
  <2>1. Follows(d, m, y, D, M, Y)
    BY DEF Mixed
  <2>2. \/ a = d /\ b = m /\ c = y
        \/ a = d /\ b = m /\ c = Y
        \/ a = d /\ b = M /\ c = Y
        \/ a = D /\ b = M /\ c = Y
    BY DEF Mixed
  <2>. HIDE DEF a, b, c
  <2>. QED  BY <2>1, <2>2 DEF Follows
<1>. HIDE DEF a, b, c
<1>3. p - q \in Int /\ (p - q \in 0..OneYear \/ (p - q) + OneCentury \in 0..OneYear)
  BY <1>1, <1>2 DEF OneYear, OneCentury
<1>. QED  BY <1>3, WithinYear

(***************************************************************************)
(* The date as it is written and read back: month, day and year.           *)
(***************************************************************************)
IsTypedDate(v) == v.MONTH \in 1..12 /\ v.DAY_OF_MONTH \in 1..31

\* What binary_to_bcd makes of it.
Stored(v) == [reg \in Register |-> binary_to_bcd(v[reg])]

\* The registers that have been accessed.
Done(td) == DateRegister \ {td[i] : i \in DOMAIN td}

Rest(td) ==
    td \in {<<"MONTH", "DAY_OF_MONTH", "YEAR">>, <<"DAY_OF_MONTH", "YEAR">>, <<"YEAR">>, << >>}

LEMMA DoneSoFar ==
    /\ Rest(DateAccesses) /\ Done(DateAccesses) = {}
    /\ Done(<< >>) = DateRegister
    /\ \A td : Rest(td) /\ td # << >> =>
          /\ Head(td) \in DateRegister /\ Rest(Tail(td))
          /\ Done(Tail(td)) = Done(td) \union {Head(td)}
          /\ Tail(td) = << >> => Head(td) = "YEAR"
<1>1. Done(<<"MONTH", "DAY_OF_MONTH", "YEAR">>) = {}
  BY DEF Done, DateRegister
<1>2. Done(<<"DAY_OF_MONTH", "YEAR">>) = {"MONTH"}
  BY DEF Done, DateRegister
<1>3. Done(<<"YEAR">>) = {"MONTH", "DAY_OF_MONTH"}
  BY DEF Done, DateRegister
<1>4. Done(<< >>) = DateRegister
  BY DEF Done
<1>5. ASSUME NEW td, Rest(td), td # << >>
      PROVE  /\ Head(td) \in DateRegister /\ Rest(Tail(td))
             /\ Done(Tail(td)) = Done(td) \union {Head(td)}
             /\ Tail(td) = << >> => Head(td) = "YEAR"
  <2>1. CASE td = <<"MONTH", "DAY_OF_MONTH", "YEAR">>
    <3>1. Head(td) = "MONTH" /\ Tail(td) = <<"DAY_OF_MONTH", "YEAR">> /\ Tail(td) # << >>
      BY <2>1
    <3>. QED  BY <1>1, <1>2, <2>1, <3>1 DEF Rest, DateRegister
  <2>2. CASE td = <<"DAY_OF_MONTH", "YEAR">>
    <3>1. Head(td) = "DAY_OF_MONTH" /\ Tail(td) = <<"YEAR">> /\ Tail(td) # << >>
      BY <2>2
    <3>. QED  BY <1>2, <1>3, <2>2, <3>1 DEF Rest, DateRegister
  <2>3. CASE td = <<"YEAR">>
    <3>1. Head(td) = "YEAR" /\ Tail(td) = << >>
      BY <2>3
    <3>. QED  BY <1>3, <1>4, <2>3, <3>1 DEF Rest, DateRegister
  <2>. QED  BY <1>5, <2>1, <2>2, <2>3 DEF Rest
<1>. QED  BY <1>1, <1>4, <1>5 DEF DateAccesses, Rest

\* No digit of the year is more than 9.
YearIsShown(w) == w.YEAR % 16 \in 0..9

LEMMA YearCounts ==
    ASSUME NEW w \in [Register -> Byte], YearIsShown(w)
    PROVE  YearIsShown(Ticked(w)) /\ Decimal(w.YEAR) <= 159
<1>1. w.YEAR \in Byte
  BY DEF Register
<1>2. \A b \in Byte : b % 16 \in 0..9 => CountUp(b) % 16 \in 0..9 /\ Decimal(b) <= 159
  BY DEF Byte, CountUp, Decimal
<1>3. 0 % 16 \in 0..9
  OBVIOUS
<1>4. Ticked(w).YEAR \in {0, CountUp(w.YEAR), w.YEAR}
  BY DEF Ticked
<1>. QED  BY <1>1, <1>2, <1>3, <1>4 DEF YearIsShown

LEMMA YearStored ==
    ASSUME NEW b \in Byte
    PROVE  binary_to_bcd(b) \in Byte /\ binary_to_bcd(b) % 16 \in 0..9
BY DEF binary_to_bcd, Byte

\* The same day has the same morrow.
LEMMA SameMorrow ==
    ASSUME NEW v, NEW w, v = [reg \in Register |-> v[reg]], w = [reg \in Register |-> w[reg]],
           SameDay(v, w)
    PROVE  SameDay(NextDay(v), NextDay(w))
<1>. DEFINE x == AtTime(v, OneDay - 1)
            y == AtTime(w, OneDay - 1)
<1>1. \A reg \in Register : x[reg] = y[reg]
  BY DEF AtTime, Register, SameDay, DateRegister
<1>. HIDE DEF x, y
<1>2. Ticked(x) = Ticked(y)
  BY <1>1 DEF Ticked, Register
<1>. QED  BY <1>2 DEF SameDay, NextDay, x, y

\* On the day r the clock was at when the command began, what is written is there.
WritingDate(r, n, w, td, v) ==
    /\ Rest(td)
    /\ Runs(r, n, w)
    /\ YearIsShown(w)
    /\ Today(r, n) => \A reg \in Done(td) : w[reg] = Stored(v)[reg]

\* What is read back is on the clock, unless midnight has come since the writing.
VerifyingDate(r, n, w, td, g, v) ==
    /\ Rest(td)
    /\ Runs(r, n, w)
    /\ YearIsShown(w)
    /\ td = << >> => g.YEAR <= 159
    /\ \/ /\ \A reg \in Done(td) : g[reg] = Decimal(w[reg])
          /\ Today(r, n) => SameDay(w, Stored(v))
       \/ ~ Today(r, n) /\ SameDay(w, NextDay(Stored(v)))

LEMMA ShownDate ==
    ASSUME NEW m \in Moments
    PROVE  IsDate(m) /\ YearIsShown(m)
<1>1. IsDate(m)
  BY RtcAssumption DEF ClockTimes, IsDate
<1>2. \A y \in 0..99 : Bcd(y) % 16 \in 0..9
  BY DEF Bcd
<1>. QED  BY <1>1, <1>2 DEF IsDate, YearIsShown, Bcds

LEMMA DateWritingBegins ==
    ASSUME NEW r \in Moments, NEW n \in 0..(OneDay - 1), NEW v
    PROVE  WritingDate(r, n, After(r, n), DateAccesses, v)
<1>. DEFINE w == After(r, n)
<1>1. IsTime(r) /\ IsDate(r) /\ YearIsShown(r) /\ r \in [Register -> Byte]
  BY MomentsAreTimes, ShownDate DEF IsTime
<1>2. Runs(r, n, w) /\ SameDay(w, IF Today(r, n) THEN r ELSE NextDay(r))
  BY <1>1, AfterRuns
<1>3. YearIsShown(NextDay(r))
  <2>1. OneDay - 1 \in 0..(OneDay - 1)
    BY DayIsLong
  <2>2. /\ AtTime(r, OneDay - 1) \in [Register -> Byte]
        /\ YearIsShown(AtTime(r, OneDay - 1))
    BY <1>1, <2>1, SetTimeIsTime DEF IsTime, YearIsShown
  <2>. QED  BY <2>2, YearCounts DEF NextDay
<1>. HIDE DEF w
<1>4. YearIsShown(w)
  BY <1>1, <1>2, <1>3 DEF YearIsShown, SameDay, DateRegister
<1>. QED  BY <1>2, <1>4, DoneSoFar DEF WritingDate, w

LEMMA DateWritingGoesOn ==
    ASSUME NEW r, IsTime(r), NEW n \in 0..(OneDay - 2), NEW w, NEW td, NEW v,
           WritingDate(r, n, w, td, v)
    PROVE  WritingDate(r, n + 1, Ticked(w), td, v)
<1>1. /\ Runs(r, n + 1, Ticked(w))
      /\ (Today(r, n) <=> Today(r, n + 1)) => SameDay(Ticked(w), w)
      /\ Today(r, n + 1) => Today(r, n)
  BY RunsOn DEF WritingDate
<1>2. YearIsShown(Ticked(w))
  BY YearCounts DEF WritingDate, Runs, IsTime
<1>3. Today(r, n + 1) => \A reg \in Done(td) : Ticked(w)[reg] = Stored(v)[reg]
  BY <1>1 DEF WritingDate, SameDay, Done
<1>. QED  BY <1>1, <1>2, <1>3 DEF WritingDate

LEMMA DateIsWritten ==
    ASSUME NEW r, NEW n, NEW w, NEW td, NEW v \in [Register -> Byte],
           WritingDate(r, n, w, td, v), td # << >>
    PROVE  WritingDate(r, n, [w EXCEPT ![Head(td)] = binary_to_bcd(v[Head(td)])], Tail(td), v)
<1>. DEFINE reg == Head(td)
            b   == binary_to_bcd(v[reg])
            x   == [w EXCEPT ![reg] = b]
<1>1. reg \in DateRegister /\ Rest(Tail(td)) /\ Done(Tail(td)) = Done(td) \union {reg}
  BY DoneSoFar DEF WritingDate
<1>2. b \in Byte /\ b % 16 \in 0..9 /\ b = Stored(v)[reg]
  BY <1>1, YearStored DEF Stored, Register, DateRegister
<1>. HIDE DEF reg, b
<1>3. /\ IsTime(x) /\ TimeOn(x) = TimeOn(w) /\ x[reg] = b
      /\ \A s \in Register \ {reg} : x[s] = w[s]
  BY <1>1, <1>2, TimeOfSameRegisters DEF WritingDate, Runs
<1>. HIDE DEF x
<1>4. YearIsShown(x)
  <2>1. CASE reg = "YEAR"
    BY <1>2, <1>3, <2>1 DEF YearIsShown
  <2>2. CASE reg # "YEAR"
    BY <1>3, <2>2 DEF YearIsShown, WritingDate, Register
  <2>. QED  BY <2>1, <2>2
<1>5. Runs(r, n, x)
  BY <1>3 DEF WritingDate, Runs
<1>6. Today(r, n) => \A s \in Done(Tail(td)) : x[s] = Stored(v)[s]
  <2>1. DateRegister \subseteq Register /\ Done(td) \subseteq DateRegister
    BY DEF DateRegister, Register, Done
  <2>. QED  BY <1>1, <1>2, <1>3, <2>1 DEF WritingDate
<1>7. WritingDate(r, n, x, Tail(td), v)
  BY <1>1, <1>4, <1>5, <1>6 DEF WritingDate
<1>. QED  BY <1>7 DEF x, b, reg

LEMMA VerifyingBegins ==
    ASSUME NEW r, NEW n, NEW w, NEW v, NEW g, WritingDate(r, n, w, << >>, v)
    PROVE  VerifyingDate(r, n, w, DateAccesses, g, v)
<1>1. Today(r, n) => SameDay(w, Stored(v))
  BY DoneSoFar DEF WritingDate, SameDay
<1>2. DateAccesses # << >>
  BY DEF DateAccesses
<1>. QED  BY <1>1, <1>2, DoneSoFar DEF WritingDate, VerifyingDate

LEMMA VerifyingGoesOn ==
    ASSUME NEW r, IsTime(r), NEW n \in 0..(OneDay - 2), NEW w, NEW td, NEW g, NEW v,
           VerifyingDate(r, n, w, td, g, v)
    PROVE  VerifyingDate(r, n + 1, Ticked(w), td, g, v)
<1>1. /\ Runs(r, n + 1, Ticked(w))
      /\ Today(r, n) /\ ~ Today(r, n + 1) => Ticked(w) = NextDay(w)
      /\ (Today(r, n) <=> Today(r, n + 1)) => SameDay(Ticked(w), w)
      /\ Today(r, n + 1) => Today(r, n)
  BY RunsOn DEF VerifyingDate
<1>2. YearIsShown(Ticked(w)) /\ w \in [Register -> Byte]
  BY YearCounts DEF VerifyingDate, Runs, IsTime
<1>3. Done(td) \subseteq DateRegister
  BY DEF Done
<1>4. CASE Today(r, n) /\ ~ Today(r, n + 1)
  <2>1. SameDay(w, Stored(v))
    BY <1>4 DEF VerifyingDate
  <2>2. w = [reg \in Register |-> w[reg]] /\ Stored(v) = [reg \in Register |-> Stored(v)[reg]]
    BY <1>2 DEF Stored
  <2>3. SameDay(Ticked(w), NextDay(Stored(v)))
    BY <1>1, <1>4, <2>1, <2>2, SameMorrow
  <2>. QED  BY <1>1, <1>2, <1>4, <2>3 DEF VerifyingDate
<1>5. CASE Today(r, n) <=> Today(r, n + 1)
  <2>1. SameDay(Ticked(w), w)
    BY <1>1, <1>5
  <2>2. ASSUME NEW x, SameDay(w, x) PROVE SameDay(Ticked(w), x)
    BY <2>1, <2>2 DEF SameDay
  <2>3. ASSUME \A reg \in Done(td) : g[reg] = Decimal(w[reg])
        PROVE  \A reg \in Done(td) : g[reg] = Decimal(Ticked(w)[reg])
    BY <1>3, <2>1, <2>3 DEF SameDay
  <2>. QED  BY <1>1, <1>2, <1>5, <2>2, <2>3 DEF VerifyingDate
<1>. QED  BY <1>1, <1>4, <1>5

LEMMA DateIsReadBack ==
    ASSUME NEW r, NEW n, NEW w, NEW td, NEW g \in [Register -> Byte], NEW v,
           VerifyingDate(r, n, w, td, g, v), td # << >>
    PROVE  VerifyingDate(r, n, w, Tail(td),
                         [g EXCEPT ![Head(td)] = bcd_to_binary(w[Head(td)])], v)
<1>. DEFINE reg == Head(td)
            h   == [g EXCEPT ![reg] = bcd_to_binary(w[reg])]
<1>1. /\ reg \in DateRegister /\ Rest(Tail(td)) /\ Done(Tail(td)) = Done(td) \union {reg}
      /\ Tail(td) = << >> => reg = "YEAR"
  BY DoneSoFar DEF VerifyingDate
<1>2. w \in [Register -> Byte] /\ YearIsShown(w)
  BY DEF VerifyingDate, Runs, IsTime
<1>. HIDE DEF reg
<1>3. reg \in Register /\ w[reg] \in Byte /\ Done(td) \subseteq Register
  BY <1>1, <1>2 DEF DateRegister, Register, Done
<1>4. h[reg] = Decimal(w[reg]) /\ \A s \in Register \ {reg} : h[s] = g[s]
  BY <1>3, BytesAreDecimal
<1>. HIDE DEF h
<1>5. Tail(td) = << >> => h.YEAR <= 159
  BY <1>1, <1>2, <1>4, YearCounts
<1>6. ASSUME \A s \in Done(td) : g[s] = Decimal(w[s])
      PROVE  \A s \in Done(Tail(td)) : h[s] = Decimal(w[s])
  BY <1>1, <1>3, <1>4, <1>6
<1>7. VerifyingDate(r, n, w, Tail(td), h, v)
  BY <1>1, <1>5, <1>6 DEF VerifyingDate
<1>. QED  BY <1>7 DEF h, reg

\* The clock shows the date that was typed, or its morrow.
ShowsTypedDate(w, v) ==
    DateOf(Shown(w)) \in
        {DateOf(v), DateOf(Shown(NextDay([reg \in Register |-> Bcd(v[reg])])))}

\* The three registers are read back, and are what was typed.
VerifiedDate(r, n, w, g, v) ==
    /\ v \in [Register -> Byte] /\ IsTypedDate(v) /\ SameDate(g, v)
    /\ VerifyingDate(r, n, w, << >>, g, v)

\* What was read back is on the clock, or was until midnight.
LEMMA VerifyingEnds ==
    ASSUME NEW r, NEW n, NEW w, NEW g, NEW v, VerifiedDate(r, n, w, g, v)
    PROVE  ShowsTypedDate(w, v)
<1>. SUFFICES ASSUME v \in [Register -> Byte], VerifyingDate(r, n, w, << >>, g, v),
                     SameDate(g, v), IsTypedDate(v)
              PROVE  DateOf(Shown(w)) \in
                         {DateOf(v), DateOf(Shown(NextDay([reg \in Register |-> Bcd(v[reg])])))}
  BY DEF VerifiedDate, ShowsTypedDate
<1>. DEFINE typed == [reg \in Register |-> Bcd(v[reg])]
<1>1. \A reg \in DateRegister : g[reg] = v[reg]
  <2>1. DateOf(g) = [reg \in DateRegister |-> g[reg]] /\ DateOf(v) = [reg \in DateRegister |-> v[reg]]
    BY DEF DateOf, DateRegister
  <2>. QED  BY <2>1 DEF SameDate
<1>2. ASSUME NEW x, \A reg \in DateRegister : w[reg] = x[reg]
      PROVE  DateOf(Shown(w)) = DateOf(Shown(x))
  BY <1>2 DEF DateOf, Shown, DateRegister, Register
<1>3. CASE \A reg \in DateRegister : g[reg] = Decimal(w[reg])
  <2>1. \A reg \in DateRegister : Shown(w)[reg] = v[reg]
    BY <1>1, <1>3 DEF Shown, DateRegister, Register
  <2>. QED  BY <2>1 DEF DateOf, DateRegister
<1>4. CASE SameDay(w, NextDay(Stored(v)))
  <2>1. v.YEAR \in Byte /\ v.YEAR <= 159
    BY <1>1 DEF VerifyingDate, DateRegister, Register
  <2>2. ASSUME NEW b \in Byte, b <= 159
        PROVE  binary_to_bcd(b) = Bcd(b)
    <3>1. b \div 10 \in 0..15 /\ b % 10 \in 0..9
      BY <2>2 DEF Byte
    <3>2. \A x \in 0..15, y \in 0..9 : (x * 16 + y) % 256 = x * 16 + y
      OBVIOUS
    <3>. QED  BY <3>1, <3>2 DEF binary_to_bcd, Bcd
  <2>3. v.MONTH \in Byte /\ v.MONTH <= 159 /\ v.DAY_OF_MONTH \in Byte /\ v.DAY_OF_MONTH <= 159
    <3>1. \A b \in 1..31 : b \in Byte /\ b <= 159 /\ (b \in 1..12 => b <= 31)
      BY DEF Byte
    <3>2. \A b \in 1..12 : b \in 1..31
      OBVIOUS
    <3>. QED  BY <3>1, <3>2 DEF IsTypedDate
  <2>4. SameDay(Stored(v), typed)
    BY <2>1, <2>2, <2>3 DEF SameDay, Stored, DateRegister, Register
  <2>5. Stored(v) = [reg \in Register |-> Stored(v)[reg]] /\ typed = [reg \in Register |-> typed[reg]]
    BY DEF Stored
  <2>. HIDE DEF typed
  <2>6. SameDay(NextDay(Stored(v)), NextDay(typed))
    BY <2>4, <2>5, SameMorrow
  <2>7. \A reg \in DateRegister : w[reg] = NextDay(typed)[reg]
    BY <1>4, <2>6 DEF SameDay
  <2>. QED  BY <1>2, <2>7 DEF typed
<1>. QED  BY <1>3, <1>4, DoneSoFar DEF VerifyingDate

(***************************************************************************)
(* The time as it is written: hours, minutes and seconds.  What has been   *)
(* written and what will be is a time that is ahead of the one typed, by   *)
(* an hour at the most for each second that has passed.                    *)
(***************************************************************************)
Ahead(t, u, n) == \E g \in 0..(OneHour * n) : t = (u + g) % OneDay

IsTypedTime(v) == v.HOURS \in 0..23 /\ v.MINUTES \in 0..59 /\ v.SECONDS \in 0..59

WritingTime(n, w, td, v) ==
    /\ IsTime(w) /\ IsTypedTime(v)
    /\ \/ td = <<"HOURS", "MINUTES", "SECONDS">>
       \/ /\ td = <<"MINUTES", "SECONDS">>
          /\ Ahead(Second(HoursOf(TimeOn(w)), v.MINUTES, v.SECONDS), TimeOfDay(v), n)
       \/ /\ td = <<"SECONDS">>
          /\ Ahead(Second(HoursOf(TimeOn(w)), MinutesOf(TimeOn(w)), v.SECONDS), TimeOfDay(v), n)
       \/ /\ td = << >>
          /\ Ahead(TimeOn(w), TimeOfDay(v), n)

\* The time of the day, of a count of seconds.
LEMMA WholeDays ==
    /\ \A x \in Int : \E q \in Int : x = OneDay * q + (x % OneDay)
    /\ \A x \in Int : x % OneDay \in 0..(OneDay - 1)
    /\ \A q \in Int, t \in 0..(OneDay - 1) : (OneDay * q + t) % OneDay = t
    /\ \A q \in Int : OneDay * q \in Int /\ OneDay * (q + 1) = OneDay * q + OneDay
    /\ \A p, q \in Int : OneDay * (p - q) = OneDay * p - OneDay * q
<1>1. ASSUME NEW x \in Int
      PROVE  x = OneDay * (x \div OneDay) + (x % OneDay)
  BY DayIsLong
<1>2. ASSUME NEW x \in Int
      PROVE  x % OneDay \in 0..(OneDay - 1) /\ x \div OneDay \in Int
  BY DayIsLong
<1>3. ASSUME NEW q \in Int, NEW t \in 0..(OneDay - 1)
      PROVE  (OneDay * q + t) % OneDay = t
  BY DayIsLong
<1>4. ASSUME NEW q \in Int
      PROVE  OneDay * q \in Int /\ OneDay * (q + 1) = OneDay * q + OneDay
  BY DayIsLong
<1>5. ASSUME NEW p \in Int, NEW q \in Int
      PROVE  OneDay * (p - q) = OneDay * p - OneDay * q
  BY DayIsLong
<1>. QED  BY <1>1, <1>2, <1>3, <1>4, <1>5

LEMMA NotAhead ==
    ASSUME NEW u \in 0..(OneDay - 1), NEW n \in Nat
    PROVE  Ahead(u, u, n)
<1>1. 0 \in 0..(OneHour * n)
  BY DEF OneHour
<1>2. u = (u + 0) % OneDay
  BY DayIsLong
<1>. QED  BY <1>1, <1>2 DEF Ahead

LEMMA FurtherAhead ==
    ASSUME NEW t \in 0..(OneDay - 1), NEW u \in 0..(OneDay - 1), NEW n \in Nat, Ahead(t, u, n),
           NEW d \in 0..OneHour, NEW a, a = t + d \/ a = (t + d) - OneDay, a \in 0..(OneDay - 1)
    PROVE  Ahead(a, u, n + 1)
<1>1. PICK g \in 0..(OneHour * n) : t = (u + g) % OneDay
  BY DEF Ahead
<1>2. g + d \in 0..(OneHour * (n + 1))
  BY DEF OneHour
<1>3. g \in Nat /\ d \in Nat
  BY DEF OneHour
<1>4. a = (u + (g + d)) % OneDay
  <2>1. PICK q \in Int : u + g = OneDay * q + t
    <3>1. u + g \in Int
      BY <1>3, DayIsLong
    <3>. QED  BY <1>1, <3>1, WholeDays
  <2>2. u + (g + d) = OneDay * q + a \/ u + (g + d) = OneDay * (q + 1) + a
    <3>. DEFINE x == OneDay * q
    <3>1. x \in Int /\ OneDay * (q + 1) = x + OneDay
      BY WholeDays
    <3>. HIDE DEF x
    <3>2. u + (g + d) = x + a \/ u + (g + d) = x + OneDay + a
      BY <1>3, <2>1, <3>1, DayIsLong DEF x
    <3>. QED  BY <3>1, <3>2 DEF x
  <2>3. q \in Int /\ q + 1 \in Int
    OBVIOUS
  <2>. QED  BY <2>2, <2>3, WholeDays
<1>. QED  BY <1>2, <1>4 DEF Ahead

LEMMA AheadEnds ==
    ASSUME NEW t \in 0..(OneDay - 1), NEW u \in 0..(OneDay - 1), NEW n \in Nat, Ahead(t, u, n)
    PROVE  (t - u) % OneDay <= OneHour * n
<1>1. PICK g \in 0..(OneHour * n) : t = (u + g) % OneDay
  BY DEF Ahead
<1>2. g \in Nat /\ g <= OneHour * n
  BY DEF OneHour
<1>3. (t - u) % OneDay = g % OneDay
  <2>1. PICK q \in Int : u + g = OneDay * q + t
    <3>1. u + g \in Int
      BY <1>2, DayIsLong
    <3>. QED  BY <1>1, <3>1, WholeDays
  <2>2. PICK p \in Int : g = OneDay * p + (g % OneDay)
    BY <1>2, WholeDays
  <2>. DEFINE r == g % OneDay
  <2>3. r \in 0..(OneDay - 1)
    BY <1>2, WholeDays
  <2>. HIDE DEF r
  <2>4. t - u = OneDay * (p - q) + r
    <3>. DEFINE x == OneDay * q
                y == OneDay * p
    <3>1. x \in Int /\ y \in Int /\ OneDay * (p - q) = y - x
      BY WholeDays
    <3>2. u + g = x + t /\ g = y + r
      BY <2>1, <2>2 DEF r
    <3>. HIDE DEF x, y
    <3>3. t - u = (y - x) + r
      BY <1>2, <2>3, <3>1, <3>2, DayIsLong
    <3>. QED  BY <3>1, <3>3
  <2>5. p - q \in Int
    OBVIOUS
  <2>6. (OneDay * (p - q) + r) % OneDay = r
    BY <2>3, <2>5, WholeDays
  <2>. QED  BY <2>4, <2>6 DEF r
<1>4. g % OneDay \in Int /\ g % OneDay <= g
  <2>. DEFINE r == g % OneDay
  <2>1. r \in 0..(OneDay - 1) /\ (g < OneDay => r = g)
    <3>1. g < OneDay => g \in 0..(OneDay - 1) /\ OneDay * 0 + g = g
      BY <1>2, DayIsLong
    <3>2. g \in 0..(OneDay - 1) => (OneDay * 0 + g) % OneDay = g
      BY WholeDays
    <3>. QED  BY <1>2, <3>1, <3>2, WholeDays
  <2>. HIDE DEF r
  <2>2. r \in Int /\ r <= g
    BY <1>2, <2>1, DayIsLong
  <2>. QED  BY <2>2 DEF r
<1>5. OneHour * n \in Int
  BY DEF OneHour
<1>. QED  BY <1>2, <1>3, <1>4, <1>5

\* Which second it is shows in every register.
LEMMA PartsAreRegisters ==
    ASSUME NEW w, IsTime(w), NEW h \in 0..23, NEW m \in 0..59, NEW s \in 0..59
    PROVE  /\ w.HOURS = Bcd(h) => HoursOf(TimeOn(w)) = h
           /\ w.MINUTES = Bcd(m) => MinutesOf(TimeOn(w)) = m
           /\ w.SECONDS = Bcd(s) => SecondsOf(TimeOn(w)) = s
<1>1. /\ HoursOf(TimeOn(w)) \in 0..23 /\ MinutesOf(TimeOn(w)) \in 0..59
      /\ SecondsOf(TimeOn(w)) \in 0..59
  BY TimeInRegisters, TimeOfParts
<1>2. /\ w.HOURS = Bcd(HoursOf(TimeOn(w))) /\ w.MINUTES = Bcd(MinutesOf(TimeOn(w)))
      /\ w.SECONDS = Bcd(SecondsOf(TimeOn(w)))
  BY TimeInRegisters
<1>. QED  BY <1>1, <1>2, OneBcd

LEMMA HandsMove ==
    ASSUME NEW w, IsTime(w)
    PROVE  LET h == HoursOf(TimeOn(w))
               m == MinutesOf(TimeOn(w))
               s == SecondsOf(TimeOn(w))
               x == Ticked(w)
           IN  /\ IsTime(x)
               /\ HoursOf(TimeOn(x)) = IF s # 59 \/ m # 59 THEN h ELSE IF h = 23 THEN 0 ELSE h + 1
               /\ MinutesOf(TimeOn(x)) = IF s # 59 THEN m ELSE IF m = 59 THEN 0 ELSE m + 1
<1>. DEFINE h == HoursOf(TimeOn(w))
            m == MinutesOf(TimeOn(w))
            s == SecondsOf(TimeOn(w))
            x == Ticked(w)
<1>1. /\ h \in 0..23 /\ m \in 0..59 /\ s \in 0..59
      /\ w.HOURS = Bcd(h) /\ w.MINUTES = Bcd(m) /\ w.SECONDS = Bcd(s)
  BY TimeInRegisters, TimeOfParts
<1>2. /\ x.MINUTES = IF s # 59 THEN w.MINUTES ELSE IF m = 59 THEN 0 ELSE Bcd(m + 1)
      /\ x.HOURS = IF s # 59 \/ m # 59 THEN w.HOURS ELSE IF h = 23 THEN 0 ELSE Bcd(h + 1)
  BY TickedRegisters
<1>3. IsTime(x)
  BY ClockTicks DEF Runs
<1>. HIDE DEF h, m, s, x
<1>4. Bcd(0) = 0
  BY DEF Bcd
<1>. DEFINE i == IF s # 59 \/ m # 59 THEN h ELSE IF h = 23 THEN 0 ELSE h + 1
            j == IF s # 59 THEN m ELSE IF m = 59 THEN 0 ELSE m + 1
<1>5. i \in 0..23 /\ j \in 0..59 /\ 0 \in 0..59
  BY <1>1
<1>6. x.HOURS = Bcd(i) /\ x.MINUTES = Bcd(j)
  BY <1>1, <1>2, <1>4
<1>. HIDE DEF i, j
<1>7. HoursOf(TimeOn(x)) = i /\ MinutesOf(TimeOn(x)) = j
  BY <1>3, <1>5, <1>6, PartsAreRegisters, ZenonT(60)
<1>. QED  BY <1>3, <1>7 DEF h, m, s, x, i, j

LEMMA HourOn ==
    ASSUME NEW h \in 0..23, NEW m \in 0..59, NEW s \in 0..59
    PROVE  /\ Second(h + 1, m, s) = Second(h, m, s) + OneHour
           /\ Second(0, m, s) = (Second(23, m, s) + OneHour) - OneDay
           /\ Second(h, m + 1, s) = Second(h, m, s) + 60
           /\ Second(h + 1, 0, s) = Second(h, 59, s) + 60
           /\ Second(0, 0, s) = (Second(23, 59, s) + 60) - OneDay
<1>1. /\ OneHour * (h + 1) = OneHour * h + OneHour /\ OneHour * h \in Nat
      /\ OneHour \in Nat /\ OneHour = 60 * 60
  BY DEF OneHour
<1>2. OneHour * 23 + OneHour = OneDay /\ OneHour * 0 = 0 /\ OneHour * 23 \in Nat
  BY DEF OneHour, OneDay
<1>3. Second(h + 1, m, s) = Second(h, m, s) + OneHour
  BY <1>1 DEF Second
<1>4. Second(0, m, s) = (Second(23, m, s) + OneHour) - OneDay
  BY <1>1, <1>2 DEF Second
<1>5. Second(h, m + 1, s) = Second(h, m, s) + 60
  BY <1>1 DEF Second
<1>6. Second(h + 1, 0, s) = Second(h, 59, s) + 60
  BY <1>1 DEF Second
<1>7. Second(0, 0, s) = (Second(23, 59, s) + 60) - OneDay
  BY <1>1, <1>2 DEF Second
<1>. QED  BY <1>3, <1>4, <1>5, <1>6, <1>7

LEMMA TypedTimeOfDay ==
    ASSUME NEW v, IsTypedTime(v)
    PROVE  /\ TimeOfDay(v) = Second(v.HOURS, v.MINUTES, v.SECONDS)
           /\ TimeOfDay(v) \in 0..(OneDay - 1)
<1>1. TimeOfDay(v) = Second(v.HOURS, v.MINUTES, v.SECONDS)
  BY DEF TimeOfDay, Second
<1>. QED  BY <1>1, PartsOfTime DEF IsTypedTime

LEMMA TimeWritingGoesOn ==
    ASSUME NEW n \in Nat, NEW w, NEW td, NEW v, WritingTime(n, w, td, v)
    PROVE  WritingTime(n + 1, Ticked(w), td, v)
<1>. DEFINE h == HoursOf(TimeOn(w))
            m == MinutesOf(TimeOn(w))
            s == SecondsOf(TimeOn(w))
            x == Ticked(w)
            i == HoursOf(TimeOn(x))
            j == MinutesOf(TimeOn(x))
            u == TimeOfDay(v)
<1>1. /\ IsTime(w) /\ IsTypedTime(v) /\ u \in 0..(OneDay - 1)
      /\ h \in 0..23 /\ m \in 0..59 /\ s \in 0..59
      /\ v.MINUTES \in 0..59 /\ v.SECONDS \in 0..59
  BY TypedTimeOfDay, TimeInRegisters, TimeOfParts DEF WritingTime, IsTypedTime
<1>2. /\ IsTime(x)
      /\ i = IF s # 59 \/ m # 59 THEN h ELSE IF h = 23 THEN 0 ELSE h + 1
      /\ j = IF s # 59 THEN m ELSE IF m = 59 THEN 0 ELSE m + 1
  BY <1>1, HandsMove
<1>3. TimeOn(w) \in 0..(OneDay - 1) /\ TimeOn(x) \in 0..(OneDay - 1)
      /\ TimeOn(x) = IF TimeOn(w) = OneDay - 1 THEN 0 ELSE TimeOn(w) + 1
  BY <1>1, <1>2, TimeInRegisters, ClockTicks
<1>. HIDE DEF h, m, s, x, i, j, u
<1>4. i \in 0..23 /\ j \in 0..59
  BY <1>1, <1>2
<1>5. ASSUME td = <<"MINUTES", "SECONDS">>, Ahead(Second(h, v.MINUTES, v.SECONDS), u, n)
      PROVE  Ahead(Second(i, v.MINUTES, v.SECONDS), u, n + 1)
  <2>. DEFINE t == Second(h, v.MINUTES, v.SECONDS)
              a == Second(i, v.MINUTES, v.SECONDS)
              d == IF i = h THEN 0 ELSE OneHour
  <2>1. t \in 0..(OneDay - 1) /\ a \in 0..(OneDay - 1)
    BY <1>1, <1>4, PartsOfTime
  <2>2. d \in 0..OneHour
    BY DEF OneHour
  <2>3. a = t + d \/ a = (t + d) - OneDay
    <3>1. i = h \/ i = h + 1 \/ (h = 23 /\ i = 0)
      BY <1>2
    <3>2. CASE i = h
      <4>1. a = t /\ d = 0 /\ t \in Nat
        BY <2>1, <3>2, DayIsLong
      <4>. QED  BY <4>1
    <3>3. CASE i = h + 1
      <4>1. d = OneHour
        BY <1>1, <3>3
      <4>2. Second(h + 1, v.MINUTES, v.SECONDS) = Second(h, v.MINUTES, v.SECONDS) + OneHour
        BY <1>1, HourOn, ZenonT(60)
      <4>. QED  BY <3>3, <4>1, <4>2
    <3>4. CASE h = 23 /\ i = 0
      <4>1. d = OneHour
        BY <3>4
      <4>2. Second(0, v.MINUTES, v.SECONDS) = (Second(23, v.MINUTES, v.SECONDS) + OneHour) - OneDay
        BY <1>1, HourOn, ZenonT(60)
      <4>. QED  BY <3>4, <4>1, <4>2
    <3>. QED  BY <3>1, <3>2, <3>3, <3>4
  <2>. HIDE DEF t, a, d
  <2>4. Ahead(a, u, n + 1)
    BY <1>1, <1>5, <2>1, <2>2, <2>3, FurtherAhead DEF t
  <2>. QED  BY <2>4 DEF a
<1>6. ASSUME td = <<"SECONDS">>, Ahead(Second(h, m, v.SECONDS), u, n)
      PROVE  Ahead(Second(i, j, v.SECONDS), u, n + 1)
  <2>. DEFINE t == Second(h, m, v.SECONDS)
              a == Second(i, j, v.SECONDS)
              d == IF j = m THEN 0 ELSE 60
  <2>1. t \in 0..(OneDay - 1) /\ a \in 0..(OneDay - 1)
    BY <1>1, <1>4, PartsOfTime
  <2>2. d \in 0..OneHour
    BY DEF OneHour
  <2>3. a = t + d \/ a = (t + d) - OneDay
    <3>1. \/ i = h /\ j = m
          \/ i = h /\ j = m + 1
          \/ i = h + 1 /\ m = 59 /\ j = 0
          \/ h = 23 /\ i = 0 /\ m = 59 /\ j = 0
      BY <1>1, <1>2
    <3>2. CASE i = h /\ j = m
      <4>1. a = t /\ d = 0 /\ t \in Nat
        BY <2>1, <3>2, DayIsLong
      <4>. QED  BY <4>1
    <3>3. CASE i = h /\ j = m + 1
      <4>1. d = 60
        BY <1>1, <3>3
      <4>2. Second(h, m + 1, v.SECONDS) = Second(h, m, v.SECONDS) + 60
        BY <1>1, HourOn, ZenonT(60)
      <4>. QED  BY <3>3, <4>1, <4>2
    <3>4. CASE i = h + 1 /\ m = 59 /\ j = 0
      <4>1. d = 60
        BY <3>4
      <4>2. Second(h + 1, 0, v.SECONDS) = Second(h, 59, v.SECONDS) + 60
        BY <1>1, HourOn, ZenonT(60)
      <4>. QED  BY <3>4, <4>1, <4>2
    <3>5. CASE h = 23 /\ i = 0 /\ m = 59 /\ j = 0
      <4>1. d = 60
        BY <3>5
      <4>2. Second(0, 0, v.SECONDS) = (Second(23, 59, v.SECONDS) + 60) - OneDay
        BY <1>1, HourOn, ZenonT(60)
      <4>. QED  BY <3>5, <4>1, <4>2
    <3>. QED  BY <3>1, <3>2, <3>3, <3>4, <3>5
  <2>. HIDE DEF t, a, d
  <2>4. Ahead(a, u, n + 1)
    BY <1>1, <1>6, <2>1, <2>2, <2>3, FurtherAhead DEF t
  <2>. QED  BY <2>4 DEF a
<1>7. ASSUME td = << >>, Ahead(TimeOn(w), u, n)
      PROVE  Ahead(TimeOn(x), u, n + 1)
  <2>. DEFINE t == TimeOn(w)
              a == TimeOn(x)
  <2>1. 1 \in 0..OneHour
    BY DEF OneHour
  <2>2. a = t + 1 \/ a = (t + 1) - OneDay
    <3>. HIDE DEF t, a
    <3>. QED  BY <1>3, DayIsLong DEF t, a
  <2>. HIDE DEF t, a
  <2>3. Ahead(a, u, n + 1)
    BY <1>1, <1>3, <1>7, <2>1, <2>2, FurtherAhead DEF t, a
  <2>. QED  BY <2>3 DEF a
<1>. QED  BY <1>1, <1>2, <1>5, <1>6, <1>7 DEF WritingTime, h, m, i, j, u, x

\* One part of the time is written, the others stay.
LEMMA PartIsWritten ==
    ASSUME NEW w, IsTime(w), NEW reg \in {"HOURS", "MINUTES", "SECONDS"}, NEW b \in 0..59,
           reg = "HOURS" => b \in 0..23
    PROVE  LET x == [w EXCEPT ![reg] = binary_to_bcd(b)]
           IN  /\ IsTime(x)
               /\ HoursOf(TimeOn(x)) = IF reg = "HOURS" THEN b ELSE HoursOf(TimeOn(w))
               /\ MinutesOf(TimeOn(x)) = IF reg = "MINUTES" THEN b ELSE MinutesOf(TimeOn(w))
               /\ SecondsOf(TimeOn(x)) = IF reg = "SECONDS" THEN b ELSE SecondsOf(TimeOn(w))
<1>. DEFINE x == [w EXCEPT ![reg] = binary_to_bcd(b)]
            h == HoursOf(TimeOn(w))
            m == MinutesOf(TimeOn(w))
            s == SecondsOf(TimeOn(w))
<1>1. /\ h \in 0..23 /\ m \in 0..59 /\ s \in 0..59
      /\ w.HOURS = Bcd(h) /\ w.MINUTES = Bcd(m) /\ w.SECONDS = Bcd(s)
      /\ w \in [Register -> Byte]
  BY TimeInRegisters, TimeOfParts DEF IsTime
<1>2. binary_to_bcd(b) = Bcd(b) /\ Bcd(b) \in Byte
  BY DEF binary_to_bcd, Bcd, Byte
<1>. HIDE DEF h, m, s
<1>3. /\ x \in [Register -> Byte]
      /\ x.HOURS = Bcd(IF reg = "HOURS" THEN b ELSE h)
      /\ x.MINUTES = Bcd(IF reg = "MINUTES" THEN b ELSE m)
      /\ x.SECONDS = Bcd(IF reg = "SECONDS" THEN b ELSE s)
  BY <1>1, <1>2 DEF Register
<1>. HIDE DEF x
<1>. DEFINE i == IF reg = "HOURS" THEN b ELSE h
            j == IF reg = "MINUTES" THEN b ELSE m
            k == IF reg = "SECONDS" THEN b ELSE s
<1>4. i \in 0..23 /\ j \in 0..59 /\ k \in 0..59
  BY <1>1
<1>5. IsTime(x)
  BY <1>3, <1>4 DEF IsTime, Bcds
<1>6. x.HOURS = Bcd(i) /\ x.MINUTES = Bcd(j) /\ x.SECONDS = Bcd(k)
  BY <1>3
<1>. HIDE DEF i, j, k
<1>7. HoursOf(TimeOn(x)) = i /\ MinutesOf(TimeOn(x)) = j /\ SecondsOf(TimeOn(x)) = k
  BY <1>4, <1>5, <1>6, PartsAreRegisters, ZenonT(60)
<1>. QED  BY <1>5, <1>7 DEF x, h, m, s, i, j, k

LEMMA TimeIsWritten ==
    ASSUME NEW n \in Nat, NEW w, NEW td, NEW v, WritingTime(n, w, td, v), td # << >>
    PROVE  WritingTime(n, [w EXCEPT ![Head(td)] = binary_to_bcd(v[Head(td)])], Tail(td), v)
<1>. DEFINE x == [w EXCEPT ![Head(td)] = binary_to_bcd(v[Head(td)])]
            u == TimeOfDay(v)
<1>1. /\ IsTime(w) /\ IsTypedTime(v) /\ u \in 0..(OneDay - 1)
      /\ v.HOURS \in 0..23 /\ v.HOURS \in 0..59 /\ v.MINUTES \in 0..59 /\ v.SECONDS \in 0..59
      /\ u = Second(v.HOURS, v.MINUTES, v.SECONDS)
  BY TypedTimeOfDay DEF WritingTime, IsTypedTime
<1>2. CASE td = <<"HOURS", "MINUTES", "SECONDS">>
  <2>1. /\ Tail(td) = <<"MINUTES", "SECONDS">> /\ Head(td) = "HOURS"
    BY <1>2
  <2>2. IsTime(x) /\ HoursOf(TimeOn(x)) = v.HOURS
    BY <1>1, <2>1, PartIsWritten, ZenonT(60)
  <2>. HIDE DEF x
  <2>3. Ahead(Second(HoursOf(TimeOn(x)), v.MINUTES, v.SECONDS), u, n)
    BY <1>1, <2>2, NotAhead
  <2>. QED  BY <1>1, <2>1, <2>2, <2>3 DEF WritingTime, x, u
<1>3. CASE td = <<"MINUTES", "SECONDS">>
  <2>1. /\ Tail(td) = <<"SECONDS">> /\ Head(td) = "MINUTES"
        /\ Ahead(Second(HoursOf(TimeOn(w)), v.MINUTES, v.SECONDS), u, n)
    BY <1>3 DEF WritingTime
  <2>2. IsTime(x) /\ HoursOf(TimeOn(x)) = HoursOf(TimeOn(w)) /\ MinutesOf(TimeOn(x)) = v.MINUTES
    BY <1>1, <2>1, PartIsWritten, ZenonT(60)
  <2>. HIDE DEF x
  <2>. QED  BY <1>1, <2>1, <2>2 DEF WritingTime, x, u
<1>4. CASE td = <<"SECONDS">>
  <2>1. /\ Tail(td) = << >> /\ Head(td) = "SECONDS"
        /\ Ahead(Second(HoursOf(TimeOn(w)), MinutesOf(TimeOn(w)), v.SECONDS), u, n)
    BY <1>4 DEF WritingTime
  <2>2. /\ IsTime(x) /\ HoursOf(TimeOn(x)) = HoursOf(TimeOn(w))
        /\ MinutesOf(TimeOn(x)) = MinutesOf(TimeOn(w)) /\ SecondsOf(TimeOn(x)) = v.SECONDS
    <3>. DEFINE b == v.SECONDS
                y == [w EXCEPT !["SECONDS"] = binary_to_bcd(b)]
    <3>1. x = y
      BY <2>1
    <3>2. /\ IsTime(y) /\ HoursOf(TimeOn(y)) = HoursOf(TimeOn(w))
          /\ MinutesOf(TimeOn(y)) = MinutesOf(TimeOn(w)) /\ SecondsOf(TimeOn(y)) = b
      BY <1>1, PartIsWritten, ZenonT(60)
    <3>. HIDE DEF x, y
    <3>. QED  BY <3>1, <3>2
  <2>3. TimeOn(x) = Second(HoursOf(TimeOn(x)), MinutesOf(TimeOn(x)), SecondsOf(TimeOn(x)))
    BY <2>2, TimeInRegisters, TimeOfParts
  <2>. HIDE DEF x
  <2>. QED  BY <1>1, <2>1, <2>2, <2>3 DEF WritingTime, x, u
<1>. QED  BY <1>2, <1>3, <1>4 DEF WritingTime

(***************************************************************************)
(* The commands.  The inductive invariant says how far a command has come, *)
(* with a clock that has gone on since it began: what it has read, what it *)
(* has written, and that it says nothing before it ends.                   *)
(***************************************************************************)
\* What a message claims.
Claim(m, r, g, n, v, s) ==
    /\ m = "time shown" => (TimeOfDay(g) - TimeOn(s)) % OneDay < OneHour + n
    /\ m = "date shown" => (DateNumber(g) - DateNumber(Shown(s))) % OneCentury <= OneYear
    /\ m = "date set" => ShowsTypedDate(r, v)
    /\ m = "time set" => (TimeOn(r) - TimeOfDay(v)) % OneDay <= OneHour * n
    /\ m \in {"refused", "already set"} => r = After(s, n)

RtcInv ==
    /\ RtcTypeOK
    /\ start \in Moments
    /\ at # "prompt" => msg = "none"
    /\ at = "command" => rtc = start /\ ticks = 0
    /\ at \in {"getdate", "gettime", "setdate"} => rtc = After(start, ticks)
    /\ at = "getdate" => DateReading(start, ticks, todo, got)
    /\ at = "gettime" => Reading(start, ticks, todo, got)
    /\ at \in {"setdate", "write date", "verify date"} => IsTypedDate(want)
    /\ at = "write date" => WritingDate(start, ticks, rtc, todo, want)
    /\ at = "verify date" => VerifyingDate(start, ticks, rtc, todo, got, want)
    /\ at = "write time" => WritingTime(ticks, rtc, todo, want)
    /\ Claim(msg, rtc, got, ticks, want, start)

LEMMA NothingIsClaimed ==
    ASSUME NEW r, NEW g, NEW n, NEW v, NEW s
    PROVE  Claim("none", r, g, n, v, s)
BY DEF Claim

LEMMA CommandsBegin == Init => RtcInv
<1>. SUFFICES ASSUME Init PROVE RtcInv
  OBVIOUS
<1>1. rtc \in [Register -> Byte] /\ Nothing \in [Register -> Byte] /\ ticks \in 0..MaxTicks
  <2>1. rtc \in [Register -> Byte]
    BY MomentsAreTimes DEF Init, IsTime
  <2>2. ticks \in 0..MaxTicks
    BY RtcAssumption, DayIsLong DEF Init
  <2>. QED  BY <2>1, <2>2 DEF Nothing, Byte
<1>2. RtcTypeOK
  BY <1>1 DEF Init, RtcTypeOK, RtcTypes
<1>. QED  BY <1>2, NothingIsClaimed DEF Init, RtcInv

\* The clock and the moment in every state.
LEMMA ClockInRange ==
    ASSUME RtcInv
    PROVE  /\ start \in Moments /\ IsTime(start) /\ ticks \in 0..(OneDay - 1) /\ ticks \in Nat
           /\ rtc \in [Register -> Byte] /\ got \in [Register -> Byte]
           /\ want \in [Register -> Byte] /\ todo \in Seq(Register)
<1>1. ticks \in 0..MaxTicks
  BY DEF RtcInv, RtcTypeOK, RtcTypes
<1>2. ticks \in 0..(OneDay - 1) /\ ticks \in Nat
  BY <1>1, RtcAssumption, DayIsLong
<1>. QED  BY <1>2, MomentsAreTimes DEF RtcInv, RtcTypeOK, RtcTypes

LEMMA LineIsRead ==
    ASSUME RtcInv, ReadLine
    PROVE  RtcInv'
<1>1. /\ rtc' \in Moments /\ start' = rtc' /\ ticks' = 0 /\ got' = Nothing /\ want' = Nothing
      /\ msg' = "none" /\ at' = "command" /\ todo' = todo
  BY DEF ReadLine
<1>2. rtc' \in [Register -> Byte] /\ Nothing \in [Register -> Byte] /\ 0 \in 0..MaxTicks
  <2>1. rtc' \in [Register -> Byte]
    BY <1>1, MomentsAreTimes DEF IsTime
  <2>2. 0 \in 0..MaxTicks
    BY RtcAssumption, DayIsLong
  <2>. QED  BY <2>1, <2>2 DEF Nothing, Byte
<1>3. RtcTypeOK'
  BY <1>1, <1>2 DEF RtcInv, RtcTypeOK, RtcTypes
<1>. QED  BY <1>1, <1>3, NothingIsClaimed DEF RtcInv

\* A second passes while a command runs.
LEMMA CommandGoesOn ==
    ASSUME RtcInv, SecondPasses
    PROVE  RtcInv'
<1>1. /\ at # "prompt" /\ at # "command" /\ ticks < MaxTicks /\ rtc' = Ticked(rtc)
      /\ ticks' = ticks + 1 /\ todo' = todo /\ got' = got
      /\ at' = at /\ want' = want /\ msg' = msg /\ start' = start
  BY DEF SecondPasses, Running, Tick
<1>2. /\ start \in Moments /\ IsTime(start) /\ ticks \in Nat /\ rtc \in [Register -> Byte]
  BY ClockInRange
<1>3. ticks + 1 \in 0..MaxTicks /\ ticks \in 0..(OneDay - 2)
  BY <1>1, <1>2, RtcAssumption, DayIsLong
<1>4. RtcTypeOK'
  BY <1>1, <1>2, <1>3, TickedBytes DEF RtcInv, RtcTypeOK, RtcTypes
<1>5. at \in {"getdate", "gettime", "setdate"} => rtc' = After(start, ticks + 1)
  BY <1>1, <1>2, <1>3, AfterOneMore DEF RtcInv
<1>6. at = "getdate" => DateReading(start, ticks + 1, todo, got)
  BY <1>2, DateReadingGoesOn DEF RtcInv
<1>7. at = "gettime" => Reading(start, ticks + 1, todo, got)
  BY <1>2, ReadingGoesOn DEF RtcInv
<1>8. at = "write date" => WritingDate(start, ticks + 1, rtc', todo, want)
  BY <1>1, <1>2, <1>3, DateWritingGoesOn DEF RtcInv
<1>9. at = "verify date" => VerifyingDate(start, ticks + 1, rtc', todo, got, want)
  BY <1>1, <1>2, <1>3, VerifyingGoesOn DEF RtcInv
<1>10. at = "write time" => WritingTime(ticks + 1, rtc', todo, want)
  BY <1>1, <1>2, TimeWritingGoesOn DEF RtcInv
<1>11. msg = "none"
  BY <1>1 DEF RtcInv
<1>. QED  BY <1>1, <1>4, <1>5, <1>6, <1>7, <1>8, <1>9, <1>10, <1>11, NothingIsClaimed DEF RtcInv

LEMMA RegisterIsRead ==
    ASSUME RtcInv, ReadRegister
    PROVE  RtcInv'
<1>1. /\ at \in {"getdate", "gettime", "setdate", "verify date"} /\ todo # << >>
      /\ got' = [got EXCEPT ![Head(todo)] = bcd_to_binary(rtc[Head(todo)])]
      /\ todo' = Tail(todo) /\ rtc' = rtc /\ ticks' = ticks
      /\ at' = at /\ want' = want /\ msg' = msg /\ start' = start
  BY DEF ReadRegister, ReadRtc
<1>2. /\ start \in Moments /\ IsTime(start) /\ ticks \in 0..(OneDay - 1)
      /\ rtc \in [Register -> Byte] /\ got \in [Register -> Byte] /\ todo \in Seq(Register)
  BY ClockInRange
<1>3. Head(todo) \in Register /\ Tail(todo) \in Seq(Register)
  BY <1>1, <1>2, HeadTailProperties
<1>4. got' \in [Register -> Byte]
  BY <1>1, <1>2, <1>3, BytesAreDecimal
<1>5. RtcTypeOK'
  BY <1>1, <1>3, <1>4 DEF RtcInv, RtcTypeOK, RtcTypes
<1>6. at = "getdate" => DateReading(start, ticks, todo', got')
  BY <1>1, <1>2, DateReadingReads DEF RtcInv
<1>7. at = "gettime" => Reading(start, ticks, todo', got')
  BY <1>1, <1>2, ReadingReads DEF RtcInv
<1>8. at = "verify date" => VerifyingDate(start, ticks, rtc, todo', got', want)
  BY <1>1, <1>2, DateIsReadBack DEF RtcInv
<1>9. msg = "none"
  BY <1>1 DEF RtcInv
<1>. QED  BY <1>1, <1>5, <1>6, <1>7, <1>8, <1>9, NothingIsClaimed DEF RtcInv

LEMMA RegisterIsWritten ==
    ASSUME RtcInv, WriteRegister
    PROVE  RtcInv'
<1>1. /\ at \in {"write date", "write time"} /\ todo # << >>
      /\ rtc' = [rtc EXCEPT ![Head(todo)] = binary_to_bcd(want[Head(todo)])]
      /\ todo' = Tail(todo) /\ got' = got /\ ticks' = ticks
      /\ at' = at /\ want' = want /\ msg' = msg /\ start' = start
  BY DEF WriteRegister, WriteRtc
<1>2. /\ start \in Moments /\ IsTime(start) /\ ticks \in Nat
      /\ rtc \in [Register -> Byte] /\ want \in [Register -> Byte] /\ todo \in Seq(Register)
  BY ClockInRange
<1>3. Head(todo) \in Register /\ Tail(todo) \in Seq(Register)
  BY <1>1, <1>2, HeadTailProperties
<1>4. rtc' \in [Register -> Byte]
  BY <1>1, <1>2, <1>3, YearStored
<1>5. RtcTypeOK'
  BY <1>1, <1>3, <1>4 DEF RtcInv, RtcTypeOK, RtcTypes
<1>6. at = "write date" => WritingDate(start, ticks, rtc', todo', want)
  BY <1>1, <1>2, DateIsWritten DEF RtcInv
<1>7. at = "write time" => WritingTime(ticks, rtc', todo', want)
  BY <1>1, <1>2, TimeIsWritten DEF RtcInv
<1>8. msg = "none"
  BY <1>1 DEF RtcInv
<1>. QED  BY <1>1, <1>5, <1>6, <1>7, <1>8, NothingIsClaimed DEF RtcInv

\* A command ends, with a message whose claim holds.
LEMMA CommandEnds ==
    ASSUME RtcInv, at # "prompt", NEW m, Say(m), Claim(m, rtc, got, ticks, want, start),
           m \in {"date shown", "time shown", "refused", "already set", "date set", "failed",
                  "time set"}
    PROVE  RtcInv'
<1>1. /\ msg' = m /\ at' = "prompt" /\ todo' = << >>
      /\ rtc' = rtc /\ got' = got /\ ticks' = ticks /\ want' = want /\ start' = start
  BY DEF Say
<1>2. todo' \in Seq(Register)
  BY <1>1, EmptySeq
<1>3. RtcTypeOK'
  BY <1>1, <1>2 DEF RtcInv, RtcTypeOK, RtcTypes
<1>. QED  BY <1>1, <1>3 DEF RtcInv

\* What is shown.
LEMMA DateIsShown ==
    ASSUME NEW r \in Moments, NEW n \in Nat, NEW g, DateReading(r, n, << >>, g)
    PROVE  (DateNumber(g) - DateNumber(Shown(r))) % OneCentury <= OneYear
<1>. DEFINE s == Shown(r)
            w == Shown(NextDay(r))
<1>1. PICK i \in {0, 1}, j \in {0, 1}, k \in {0, 1} : DateReadAt(r, n, << >>, g, i, j, k)
  BY DEF DateReading
<1>2. r \in [Register -> Byte] /\ IsDate(r)
  BY MomentsAreTimes, ShownDate DEF IsTime
<1>3. /\ s.DAY_OF_MONTH \in 1..31 /\ s.MONTH \in 1..12 /\ s.YEAR \in 0..99
      /\ Follows(s.DAY_OF_MONTH, s.MONTH, s.YEAR, w.DAY_OF_MONTH, w.MONTH, w.YEAR)
  BY <1>2, NextDate
<1>4. /\ i <= j /\ j <= k
      /\ g.DAY_OF_MONTH = IF i = 0 THEN s.DAY_OF_MONTH ELSE w.DAY_OF_MONTH
      /\ g.MONTH = IF j = 0 THEN s.MONTH ELSE w.MONTH
      /\ g.YEAR = IF k = 0 THEN s.YEAR ELSE w.YEAR
  BY <1>1 DEF DateReadAt, DayRead, Shown, Register
<1>. HIDE DEF s, w
<1>. DEFINE d == s.DAY_OF_MONTH
            m == s.MONTH
            y == s.YEAR
            D == w.DAY_OF_MONTH
            M == w.MONTH
            Y == w.YEAR
<1>5. /\ DateNumber(s) = (d - 1) + 31 * (m - 1) + OneYear * y
      /\ DateNumber(g) = ((IF i = 0 THEN d ELSE D) - 1) + 31 * ((IF j = 0 THEN m ELSE M) - 1)
                          + OneYear * (IF k = 0 THEN y ELSE Y)
  BY <1>4 DEF DateNumber
<1>6. Mixed(d, m, y, D, M, Y, i, j, k, DateNumber(g), DateNumber(s))
  BY <1>3, <1>4, <1>5 DEF Mixed
<1>. HIDE DEF d, m, y, D, M, Y
<1>7. (DateNumber(g) - DateNumber(s)) % OneCentury <= OneYear
  BY <1>6, DateReadInParts, Zenon
<1>. QED  BY <1>7 DEF s

LEMMA TimeIsShown ==
    ASSUME NEW r, IsTime(r), NEW n \in 0..(OneDay - 1), NEW g, Reading(r, n, << >>, g)
    PROVE  (TimeOfDay(g) - TimeOn(r)) % OneDay < OneHour + n
<1>. DEFINE v == TimeOfDay(g)
            o == TimeOn(r)
<1>1. v \in 0..(OneDay - 1) /\ o \in 0..(OneDay - 1)
  BY ReadingEnds, TimeInRegisters
<1>2. PICK t \in Nat : o <= t /\ t < o + n + OneHour /\ (t = v \/ t = v + OneDay)
  BY ReadingEnds
<1>. HIDE DEF v, o
<1>. DEFINE d == v - o
            e == d % OneDay
<1>3. d \in Int /\ (d \in 0..(OneDay - 1) \/ d + OneDay \in 0..(OneDay - 1))
  BY <1>1, DayIsLong
<1>4. e \in Int /\ (e = d \/ e = d + OneDay)
  <2>1. CASE d \in 0..(OneDay - 1)
    <3>1. 0 \in Int /\ OneDay * 0 + d = d
      BY <1>3, DayIsLong
    <3>2. (OneDay * 0 + d) % OneDay = d
      BY <2>1, <3>1, WholeDays
    <3>. QED  BY <1>3, <3>1, <3>2
  <2>2. CASE d + OneDay \in 0..(OneDay - 1)
    <3>1. -1 \in Int /\ OneDay * (-1) + (d + OneDay) = d
      BY <1>3, DayIsLong
    <3>2. (OneDay * (-1) + (d + OneDay)) % OneDay = d + OneDay
      BY <2>2, <3>1, WholeDays
    <3>. QED  BY <1>3, <3>1, <3>2, DayIsLong
  <2>. QED  BY <1>3, <2>1, <2>2
<1>5. e \in 0..(OneDay - 1)
  BY <1>3, WholeDays
<1>6. t - o \in Nat /\ t - o < OneHour + n /\ (t - o = d \/ t - o = d + OneDay)
  BY <1>1, <1>2, DayIsLong
<1>. HIDE DEF d, e
<1>7. e <= t - o
  BY <1>3, <1>4, <1>5, <1>6, DayIsLong
<1>8. e < OneHour + n
  BY <1>4, <1>6, <1>7, DayIsLong
<1>. QED  BY <1>8 DEF e, d, v, o

LEMMA TypedBytes ==
    ASSUME NEW s \in Seq(Byte), Len(s) = 8
    PROVE  TypedDate(s) \in [Register -> Byte] /\ TypedTime(s) \in [Register -> Byte]
<1>1. \A i \in 1..8 : s[i] \in Byte
  BY LenProperties
<1>2. \A a, b \in Byte : TwoDigits(a, b) \in Byte
  BY DEF TwoDigits, Byte
<1>3. /\ TwoDigits(s[1], s[2]) \in Byte /\ TwoDigits(s[4], s[5]) \in Byte
      /\ TwoDigits(s[7], s[8]) \in Byte
  BY <1>1, <1>2
<1>4. Nothing \in [Register -> Byte]
  BY DEF Nothing, Byte
<1>. QED  BY <1>3, <1>4 DEF TypedDate, TypedTime

\* A function begins to read or to write.
LEMMA CommandBegins ==
    ASSUME RtcInv, at = "command", NEW next, NEW regs \in Seq(Register), Goto(next, regs),
           want' \in [Register -> Byte],
           \/ next = "getdate" /\ regs = DateReads
           \/ next = "gettime" /\ regs = TimeReads
           \/ next = "setdate" /\ IsTypedDate(want')
           \/ next = "write time" /\ regs = TimeWrites /\ IsTypedTime(want')
    PROVE  RtcInv'
<1>1. /\ at' = next /\ todo' = regs /\ rtc' = rtc /\ got' = got /\ ticks' = ticks
      /\ msg' = msg /\ start' = start
  BY DEF Goto, Access
<1>2. /\ start \in Moments /\ IsTime(start) /\ rtc = start /\ ticks = 0 /\ msg = "none"
  BY ClockInRange DEF RtcInv
<1>3. RtcTypeOK'
  BY <1>1 DEF RtcInv, RtcTypeOK, RtcTypes
<1>4. rtc = After(start, ticks)
  BY <1>2, AfterNoTime
<1>5. next = "getdate" => DateReading(start, ticks, regs, got)
  BY DateReadingBegins DEF DateReads
<1>6. next = "gettime" => Reading(start, ticks, regs, got)
  BY <1>2, ReadingBegins DEF TimeReads
<1>7. next = "write time" => WritingTime(ticks, rtc, regs, want')
  BY <1>2 DEF WritingTime, TimeWrites
<1>. QED  BY <1>1, <1>2, <1>3, <1>4, <1>5, <1>6, <1>7, NothingIsClaimed DEF RtcInv

LEMMA AccessesAreRegisters ==
    /\ DateReads \in Seq(Register) /\ TimeReads \in Seq(Register)
    /\ DateAccesses \in Seq(Register) /\ TimeWrites \in Seq(Register)
<1>1. /\ "DAY_OF_MONTH" \in Register /\ "MONTH" \in Register /\ "YEAR" \in Register
      /\ "SECONDS" \in Register /\ "MINUTES" \in Register /\ "HOURS" \in Register
  BY DEF Register
<1>. QED  BY <1>1 DEF DateReads, TimeReads, DateAccesses, TimeWrites

LEMMA Commands ==
    ASSUME RtcInv,
           GetDate \/ GetTime \/ (\E s \in DateArgs : SetDate(s)) \/ (\E s \in TimeArgs : SetTime(s))
    PROVE  RtcInv'
<1>1. /\ want \in [Register -> Byte]
      /\ at = "command" => rtc = After(start, ticks)
      /\ DateArgs \subseteq Seq(Byte) /\ TimeArgs \subseteq Seq(Byte)
  BY ClockInRange, AfterNoTime, ArgAssumption DEF RtcInv
<1>2. ASSUME at = "command", Say("refused")
      PROVE  RtcInv'
  <2>1. Claim("refused", rtc, got, ticks, want, start)
    BY <1>1, <1>2 DEF Claim
  <2>. QED  BY <1>2, <2>1, CommandEnds
<1>3. CASE GetDate
  BY <1>1, <1>3, CommandBegins, AccessesAreRegisters DEF GetDate
<1>4. CASE GetTime
  BY <1>1, <1>4, CommandBegins, AccessesAreRegisters DEF GetTime
<1>5. ASSUME NEW s \in DateArgs, SetDate(s)
      PROVE  RtcInv'
  <2>1. CASE ~ ValidDate(s) /\ at = "command" /\ Say("refused")
    BY <1>2, <2>1
  <2>2. CASE ValidDate(s) /\ at = "command" /\ want' = TypedDate(s) /\ Goto("setdate", DateAccesses)
    <3>1. want' \in [Register -> Byte] /\ IsTypedDate(want')
      BY <1>1, <2>2, TypedBytes DEF ValidDate, IsTypedDate
    <3>. QED  BY <2>2, <3>1, CommandBegins, AccessesAreRegisters
  <2>. QED  BY <1>5, <2>1, <2>2 DEF SetDate
<1>6. ASSUME NEW s \in TimeArgs, SetTime(s)
      PROVE  RtcInv'
  <2>1. CASE ~ ValidTime(s) /\ at = "command" /\ Say("refused")
    BY <1>2, <2>1
  <2>2. CASE ValidTime(s) /\ at = "command" /\ want' = TypedTime(s) /\ Goto("write time", TimeWrites)
    <3>1. want' \in [Register -> Byte]
      BY <1>1, <2>2, TypedBytes DEF ValidTime
    <3>2. want'.HOURS \in Byte /\ want'.MINUTES \in Byte /\ want'.SECONDS \in Byte
      BY <3>1 DEF Register
    <3>3. IsTypedTime(want')
      <4>1. \A b \in Byte : (b <= 23 => b \in 0..23) /\ (b <= 59 => b \in 0..59)
        BY DEF Byte
      <4>. QED  BY <2>2, <3>2, <4>1 DEF ValidTime, IsTypedTime
    <3>. QED  BY <2>2, <3>1, <3>3, CommandBegins, AccessesAreRegisters
  <2>. QED  BY <1>6, <2>1, <2>2 DEF SetTime
<1>. QED  BY <1>3, <1>4, <1>5, <1>6

LEMMA Shows ==
    ASSUME RtcInv, ShowDate \/ ShowTime
    PROVE  RtcInv'
<1>1. start \in Moments /\ IsTime(start) /\ ticks \in 0..(OneDay - 1) /\ ticks \in Nat
  BY ClockInRange
<1>2. CASE ShowDate
  <2>1. at = "getdate" /\ todo = << >> /\ Say("date shown") /\ DateReading(start, ticks, << >>, got)
    BY <1>2 DEF ShowDate, RtcInv
  <2>2. Claim("date shown", rtc, got, ticks, want, start)
    BY <1>1, <2>1, DateIsShown DEF Claim
  <2>. QED  BY <2>1, <2>2, CommandEnds
<1>3. CASE ShowTime
  <2>1. at = "gettime" /\ todo = << >> /\ Say("time shown") /\ Reading(start, ticks, << >>, got)
    BY <1>3 DEF ShowTime, RtcInv
  <2>2. Claim("time shown", rtc, got, ticks, want, start)
    BY <1>1, <2>1, TimeIsShown DEF Claim
  <2>. QED  BY <2>1, <2>2, CommandEnds
<1>. QED  BY <1>2, <1>3

LEMMA DateChecks ==
    ASSUME RtcInv, SetDateChecked
    PROVE  RtcInv'
<1>1. /\ start \in Moments /\ ticks \in 0..(OneDay - 1) /\ at = "setdate"
      /\ rtc = After(start, ticks) /\ IsTypedDate(want) /\ msg = "none"
  BY ClockInRange DEF SetDateChecked, RtcInv
<1>2. ASSUME NEW m \in {"already set", "refused"}, Say(m)
      PROVE  RtcInv'
  <2>1. Claim(m, rtc, got, ticks, want, start)
    BY <1>1 DEF Claim
  <2>. QED  BY <1>1, <1>2, <2>1, CommandEnds
<1>3. CASE Goto("write date", DateAccesses) /\ want' = want
  <2>1. /\ at' = "write date" /\ todo' = DateAccesses /\ rtc' = rtc /\ got' = got
        /\ ticks' = ticks /\ msg' = msg /\ start' = start /\ want' = want
    BY <1>3 DEF Goto, Access
  <2>2. WritingDate(start, ticks, rtc, DateAccesses, want)
    BY <1>1, DateWritingBegins
  <2>3. RtcTypeOK'
    BY <2>1, AccessesAreRegisters DEF RtcInv, RtcTypeOK, RtcTypes
  <2>. QED  BY <1>1, <2>1, <2>2, <2>3, NothingIsClaimed DEF RtcInv
<1>. QED  BY <1>2, <1>3 DEF SetDateChecked

LEMMA DateIsOnTheClock ==
    ASSUME RtcInv, DateWritten
    PROVE  RtcInv'
<1>1. /\ at = "write date" /\ todo = << >> /\ at' = "verify date" /\ todo' = DateAccesses
      /\ rtc' = rtc /\ got' = got /\ ticks' = ticks /\ msg' = msg /\ start' = start
      /\ want' = want
  BY DEF DateWritten, Goto, Access
<1>2. msg = "none" /\ IsTypedDate(want) /\ WritingDate(start, ticks, rtc, << >>, want)
  BY <1>1 DEF RtcInv
<1>3. VerifyingDate(start, ticks, rtc, DateAccesses, got, want)
  BY <1>2, VerifyingBegins
<1>4. RtcTypeOK'
  BY <1>1, AccessesAreRegisters DEF RtcInv, RtcTypeOK, RtcTypes
<1>. QED  BY <1>1, <1>2, <1>3, <1>4, NothingIsClaimed DEF RtcInv

LEMMA SettingEnds ==
    ASSUME RtcInv, DateVerified \/ TimeWritten
    PROVE  RtcInv'
<1>1. ticks \in Nat /\ want \in [Register -> Byte]
  BY ClockInRange
<1>2. CASE DateVerified
  <2>1. /\ at = "verify date" /\ todo = << >> /\ IsTypedDate(want)
        /\ VerifyingDate(start, ticks, rtc, << >>, got, want)
        /\ Say(IF SameDate(got, want) THEN "date set" ELSE "failed")
    BY <1>2 DEF DateVerified, RtcInv
  <2>2. CASE SameDate(got, want)
    <3>1. VerifiedDate(start, ticks, rtc, got, want)
      BY <1>1, <2>1, <2>2 DEF VerifiedDate
    <3>2. ShowsTypedDate(rtc, want)
      BY <3>1, VerifyingEnds, Zenon
    <3>3. Claim("date set", rtc, got, ticks, want, start)
      BY <3>2 DEF Claim
    <3>. QED  BY <2>1, <2>2, <3>3, CommandEnds
  <2>3. CASE ~ SameDate(got, want)
    <3>1. Claim("failed", rtc, got, ticks, want, start)
      BY DEF Claim
    <3>. QED  BY <2>1, <2>3, <3>1, CommandEnds
  <2>. QED  BY <2>2, <2>3
<1>3. CASE TimeWritten
  <2>1. /\ at = "write time" /\ todo = << >> /\ Say("time set")
        /\ WritingTime(ticks, rtc, << >>, want)
    BY <1>3 DEF TimeWritten, RtcInv
  <2>2. IsTime(rtc) /\ IsTypedTime(want) /\ Ahead(TimeOn(rtc), TimeOfDay(want), ticks)
    BY <2>1 DEF WritingTime
  <2>3. Claim("time set", rtc, got, ticks, want, start)
    BY <1>1, <2>2, TimeInRegisters, TypedTimeOfDay, AheadEnds DEF Claim
  <2>. QED  BY <2>1, <2>3, CommandEnds
<1>. QED  BY <1>2, <1>3

\* The invariant of the date and time commands holds in every state.
THEOREM CommandsKeepInv == Spec => []RtcInv
<1>1. RtcInv /\ [Next]_vars => RtcInv'
  <2>. SUFFICES ASSUME RtcInv, [Next]_vars PROVE RtcInv'
    OBVIOUS
  <2>1. CASE UNCHANGED vars
    <3>1. RtcTypeOK'
      BY <2>1 DEF vars, rtcVars, RtcInv, RtcTypeOK, RtcTypes
    <3>. QED  BY <2>1, <3>1 DEF vars, rtcVars, RtcInv
  <2>. QED  BY <2>1, LineIsRead, CommandGoesOn, RegisterIsRead, RegisterIsWritten, Commands, Shows,
               DateChecks, DateIsOnTheClock, SettingEnds DEF Next
<1>. QED  BY <1>1, CommandsBegin, PTL DEF Spec

\* The registers of the clock, the numbers read and the numbers typed stay bytes,
\* whatever characters are typed for digits.
THEOREM ClockTypes == Spec => []RtcTypeOK
<1>1. RtcInv => RtcTypeOK
  BY DEF RtcInv
<1>. QED  BY <1>1, CommandsKeepInv, PTL

\* getdate and gettime show nothing that is over, nothing an hour and the seconds
\* that pass, or more than a year, ahead: they read what is carried from before what is carried
\* into (get_date_command, get_time_command).
THEOREM NothingShownIsOver == Spec => []ShownIsNotOver
<1>1. RtcInv => ShownIsNotOver
  BY DEF RtcInv, Claim, ShownIsNotOver
<1>. QED  BY <1>1, CommandsKeepInv, PTL

\* When set_date_command reports success the clock shows the date that was typed,
\* or the next one if midnight has passed.
THEOREM DateIsSet == Spec => []DateSetIsOnTheClock
<1>1. RtcInv => DateSetIsOnTheClock
  BY DEF RtcInv, Claim, ShowsTypedDate, DateSetIsOnTheClock
<1>. QED  BY <1>1, CommandsKeepInv, PTL

\* set_time_command leaves the clock at the time that was typed or ahead of it, by an
\* hour at the most for each second that has passed, and never behind.
THEOREM TimeIsNotLate == Spec => []TimeSetIsNotLate
<1>1. RtcInv => TimeSetIsNotLate
  BY DEF RtcInv, Claim, TimeSetIsNotLate
<1>. QED  BY <1>1, CommandsKeepInv, PTL

\* A date or time that is refused, or is on the clock already, leaves the clock as it
\* would be if nobody had typed it (set_date_command, set_time_command).
THEOREM RefusalsLeaveTheClock == Spec => []RefusedLeavesClock
<1>1. RtcInv => RefusedLeavesClock
  BY DEF RtcInv, Claim, RefusedLeavesClock
<1>. QED  BY <1>1, CommandsKeepInv, PTL

=============================================================================
