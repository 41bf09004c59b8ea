--------------------------- MODULE MCRtcCommands ---------------------------
(***************************************************************************)
(* Values of RtcCommands' constants for TLC: the seconds in which          *)
(* something is carried, one in which nothing is, and text that is a date  *)
(* or a time, text that is none, and text with characters that are not     *)
(* digits.                                                                 *)
(***************************************************************************)
EXTENDS RtcCommands

At(year, month, day, hour, minute, second) ==
    [YEAR  |-> Bcd(year), MONTH   |-> Bcd(month),  DAY_OF_MONTH |-> Bcd(day),
     HOURS |-> Bcd(hour), MINUTES |-> Bcd(minute), SECONDS      |-> Bcd(second)]

Carries ==
    {At(23, 11, 15, 10, 30, 20), At(23, 11, 15, 10, 30, 59), At(23, 11, 15, 10, 59, 59),
     At(23, 11, 15, 23, 59, 59), At(23, 1, 31, 23, 59, 59), At(24, 2, 28, 23, 59, 59),
     At(23, 4, 30, 23, 59, 59), At(23, 12, 31, 23, 59, 59), At(99, 12, 31, 23, 59, 59)}

\* '0' is 48; sep is the separator, which nobody looks at.
Digits(n) == <<48 + n \div 10, 48 + (n % 10)>>
Text(a, b, c, sep) == Digits(a) \o <<sep>> \o Digits(b) \o <<sep>> \o Digits(c)

\* 02/29/23 and 13/01/23 are refused; 02/30/23 is not; :0 is year 100, @0 is 160,
\* which has no BCD byte.
Dates ==
    {Text(11, 15, 23, 47), Text(1, 1, 23, 47), Text(2, 29, 24, 47), Text(2, 29, 23, 47),
     Text(2, 30, 23, 47), Text(12, 31, 22, 47), Text(4, 1, 24, 47), Text(13, 1, 23, 47),
     Text(1, 31, 24, 47), Text(5, 5, 5, 47) \o <<48>>,
     SubSeq(Text(6, 1, 0, 47), 1, 6) \o <<58, 48>>,
     SubSeq(Text(6, 1, 0, 47), 1, 6) \o <<64, 48>>}

TimesTyped ==
    {Text(10, 30, 0, 58), Text(23, 59, 59, 58), Text(0, 0, 59, 58), Text(24, 0, 0, 58),
     <<49, 58>>}
=============================================================================
