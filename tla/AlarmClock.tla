----------------------------- MODULE AlarmClock -----------------------------
(***************************************************************************)
(* Alarms (user/interface.c) from the line that sets one to the message it *)
(* shows: the command handler, the alarm processes, the globals and the    *)
(* line buffer they share, and the clock, register by register.            *)
(*                                                                         *)
(* The handler has priority 0, the alarms have 1, and nothing else does    *)
(* unless the user changes it, which is left to Mpx.  So whenever the      *)
(* handler executes IDLE, the alarm that has waited longest runs until it  *)
(* executes IDLE or EXIT, and the handler is next.                         *)
(***************************************************************************)
EXTENDS Rtc, SequencesExt

CONSTANTS
    AlarmArgs,  \* the times typed behind alarm, as the bytes made of them
    Texts,      \* what can stand where the message of an alarm line stands
    MaxAlarms   \* bound: alarms that wait at one time

\* A line that ends before that place leaves zeroes there.
NoText == "no text"

ASSUME AlarmAssumption ==
    /\ AlarmArgs \subseteq [{"HOURS", "MINUTES", "SECONDS"} -> Byte]
    /\ NoText \notin Texts
    /\ MaxAlarms \in Nat

Unset == -1     \* an alarm that has not taken its time yet

\* In the place of an alarm: the command handler has the CPU.
Comhand == [time |-> Unset, asked |-> 0, text |-> NoText, set |-> Nothing, alone |-> FALSE]

VARIABLES
    comhand,        \* where the handler goes on: it reads a line, or ends its loop
    ready,          \* the alarm processes on the ready queue
    running,        \* the alarm that has the CPU, or Comhand
    global_time,    \* global_hours, _minutes and _seconds, in seconds
    line,           \* what the line buffer holds where global_message points
    began,          \* history: the clock when this slice of the alarm began
    shown           \* history: the last message an alarm showed

alarmVars == <<comhand, ready, running, global_time, line, began, shown>>
clockVars == <<rtcVars, alarmVars>>

(***************************************************************************)
(* An alarm process: the time it waits for, and, as history, the time and  *)
(* the text that were typed for it, when, and whether no other alarm was   *)
(* there.                                                                  *)
(***************************************************************************)
Alarms ==
    [time : Nat \union {Unset}, asked : Nat, text : Texts, set : Moments, alone : BOOLEAN]

NotShown == [text |-> NoText, alarm |-> Comhand, ended |-> FALSE]

AlarmInit ==
    /\ rtc \in Moments
    /\ todo = << >>
    /\ got = Nothing
    /\ ticks = 0
    /\ comhand = "prompt"
    /\ ready = << >>
    /\ running = Comhand
    /\ global_time = 0
    /\ line = NoText
    /\ began = rtc
    /\ shown = NotShown

----------------------------------------------------------------------------
(***************************************************************************)
(* The clock.  At the prompt any time may pass.  It goes from one of       *)
(* Moments to a later one, which bounds it.                                *)
(***************************************************************************)
Later(r, s) ==
    \/ DateNumber(Shown(r)) > DateNumber(Shown(s))
    \/ DateOf(r) = DateOf(s) /\ TimeOn(r) > TimeOn(s)

TimePasses ==
    /\ running = Comhand
    /\ comhand = "prompt"
    /\ \E m \in Moments : Later(m, rtc) /\ rtc' = m
    /\ UNCHANGED <<todo, got, ticks, alarmVars>>

SecondGoesBy ==
    /\ running # Comhand
    /\ Ticked(rtc) \in Moments
    /\ Tick
    /\ UNCHANGED alarmVars

----------------------------------------------------------------------------
(***************************************************************************)
(* The handler gives up the CPU and goes on at next when it comes back.    *)
(* An alarm begins its slice with a look at the clock.  Without an alarm   *)
(* some other process, or none, runs before the handler does.              *)
(***************************************************************************)
\* A plausible slip: the order the time is written in.
AlarmReadsHoursFirst == <<"HOURS", "MINUTES", "SECONDS">>

AlarmReads == <<"SECONDS", "MINUTES", "HOURS">>

\* A plausible slip: the caller is filed before the next process is taken.
HandlerIdlesAfterFiling(alarms, next) ==
    /\ ready' = alarms
    /\ comhand' = next
    /\ shown' = NotShown
    /\ UNCHANGED <<running, rtcVars, began>>

\* A plausible slip: the next process is not taken off the queue.
HandlerIdlesWithoutRemoving(alarms, next) ==
    /\ comhand' = next
    /\ shown' = NotShown
    /\ ready' = alarms
    /\ \/ /\ alarms = << >>
          /\ UNCHANGED <<running, rtcVars, began>>
       \/ /\ alarms # << >>
          /\ running' = Head(alarms)
          /\ Access(AlarmReads)
          /\ got' = Nothing
          /\ ticks' = 0
          /\ began' = rtc
          /\ UNCHANGED rtc

HandlerIdles(alarms, next) ==
    /\ comhand' = next
    /\ shown' = NotShown
    /\ \/ /\ alarms = << >>
          /\ ready' = << >>
          /\ UNCHANGED <<running, rtcVars, began>>
       \/ /\ alarms # << >>
          /\ running' = Head(alarms)
          /\ ready' = Tail(alarms)
          /\ Access(AlarmReads)
          /\ got' = Nothing
          /\ ticks' = 0
          /\ began' = rtc
          /\ UNCHANGED rtc

AtPrompt == running = Comhand /\ comhand = "prompt"

ValidAlarmTime(a) == a.HOURS <= 23 /\ a.MINUTES <= 59 /\ a.SECONDS <= 59

NewAlarm(a, text) ==
    [time |-> Unset, asked |-> TimeOfDay(a), text |-> text, set |-> rtc, alone |-> ready = << >>]

\* alarm: the globals are written, and only then is the time checked.
AlarmCommand(a, text) ==
    /\ AtPrompt
    /\ Len(ready) < MaxAlarms
    /\ line' = text
    /\ global_time' = TimeOfDay(a)
    /\ HandlerIdles(IF ValidAlarmTime(a) THEN Append(ready, NewAlarm(a, text)) ELSE ready, "prompt")

\* Any other line is read into the same buffer.
OtherCommand(text) ==
    /\ AtPrompt
    /\ line' = text
    /\ HandlerIdles(ready, "prompt")
    /\ UNCHANGED global_time

\* yield gives up the CPU, and the end of the loop does once more.
YieldCommand ==
    /\ AtPrompt
    /\ line' = NoText
    /\ HandlerIdles(ready, "end")
    /\ UNCHANGED global_time

ComhandEnd ==
    /\ running = Comhand
    /\ comhand = "end"
    /\ HandlerIdles(ready, "prompt")
    /\ UNCHANGED <<line, global_time>>

RunLine ==
    \/ \E text \in Texts :
          \/ \E a \in AlarmArgs : AlarmCommand(a, text)
          \/ OtherCommand(text)
    \/ YieldCommand

----------------------------------------------------------------------------
(***************************************************************************)
(* alarm_proc.  The first slice takes the time from the globals and shows  *)
(* the message; every slice compares the time it has read.                 *)
(***************************************************************************)
ReadClock ==
    /\ running # Comhand
    /\ ReadRtc
    /\ UNCHANGED alarmVars

\* WRITE shows what the buffer holds now.
Show(ended) == shown' = [text |-> line, alarm |-> running, ended |-> ended]

AlarmStart ==
    /\ running # Comhand
    /\ todo = << >>
    /\ running.time = Unset
    /\ running' = [running EXCEPT !.time = global_time]
    /\ global_time' = 0
    /\ shown' = [text |-> line, alarm |-> running', ended |-> FALSE]
    /\ UNCHANGED <<rtcVars, comhand, ready, line, began>>

\* A plausible slip: an alarm for this very second is not due.
DueInThePast(time) == TimeOfDay(got) > time

\* A plausible slip: the hours are left out of the sum.
DueByMinutes(time) == got.SECONDS + 60 * got.MINUTES >= time % OneHour

Due(time) == TimeOfDay(got) >= time

\* IDLE: behind the other alarms; the handler is next.
AlarmWaits ==
    /\ running # Comhand
    /\ todo = << >>
    /\ running.time # Unset
    /\ ~ Due(running.time)
    /\ ready' = Append(ready, running)
    /\ running' = Comhand
    /\ UNCHANGED <<rtcVars, comhand, global_time, line, began, shown>>

\* The message, and EXIT.
AlarmFires ==
    /\ running # Comhand
    /\ todo = << >>
    /\ running.time # Unset
    /\ Due(running.time)
    /\ Show(TRUE)
    /\ running' = Comhand
    /\ UNCHANGED <<rtcVars, comhand, ready, global_time, line, began>>

AlarmStep == ReadClock \/ AlarmStart \/ AlarmWaits \/ AlarmFires \/ ComhandEnd

AlarmNext == TimePasses \/ SecondGoesBy \/ RunLine \/ AlarmStep

AlarmSpec == AlarmInit /\ [][AlarmNext]_clockVars

\* The CPU goes on while it does not wait for a line.
FairAlarmSpec == AlarmSpec /\ WF_clockVars(AlarmStep)

----------------------------------------------------------------------------
(***************************************************************************)
(* What is right about the alarms.                                         *)
(***************************************************************************)

\* An alarm waits for a number of seconds that its bytes can make, and has taken
\* its time once it has given up the CPU; the registers and what is read of them
\* are bytes.
AlarmTypeOK ==
    /\ RtcTypes
    /\ comhand \in {"prompt", "end"}
    /\ running \in Alarms \union {Comhand}
    /\ ready \in Seq(Alarms) /\ Len(ready) <= MaxAlarms
    /\ global_time \in Nat
    /\ line \in Texts \union {NoText}

\* A look at the clock that begins at the alarm's time, or later that day, does
\* not put the alarm off, whatever is carried between the three reads.
DueAlarmIsNotPutOff ==
    [][Len(ready') > Len(ready) /\ running # Comhand =>
          \/ TimeOn(began) < Last(ready').time
          \/ TimeOn(rtc) < TimeOn(began)]_clockVars

\* The globals are read at another time than they are written, and by whichever
\* alarm runs next.  But an alarm that was set while there was no other has run
\* before another line is read: it waits for the time that was typed for it.
AloneKeepsItsTime ==
    AtPrompt => \A i \in DOMAIN ready : ready[i].alone => ready[i].time = ready[i].asked

\* It does not fire an hour before that time: a carry between the reads of the
\* minutes and the hours is all that can be wrong with the clock.
AloneIsHardlyEarly ==
    shown.ended /\ shown.alarm.alone => shown.alarm.asked - TimeOn(began) < OneHour + ticks

\* If lines are typed again and again, no alarm is left waiting for a time that
\* has come and is not over by midnight: every alarm gets its turn at the clock.
AlarmsAreShown ==
    []<><<RunLine>>_clockVars =>
        \A a \in AlarmArgs :
            LET t == TimeOfDay(a)
            IN  <>[](TimeOn(rtc) >= t)
                    => []<>(\A i \in DOMAIN ready : ready[i].time # t)

----------------------------------------------------------------------------
(***************************************************************************)
(* What the repository says of the program and the program does not do:    *)
(* "Set an alarm to display a message at a specific time"                  *)
(* (interface.c:163).                                                      *)
(***************************************************************************)

\* When its time has come, an alarm shows the message that was typed for it.
AlarmShowsItsMessage == shown.ended => shown.text = shown.alarm.text
=============================================================================
