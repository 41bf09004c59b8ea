----------------------------- MODULE SerialPoll -----------------------------
(***************************************************************************)
(* Reading a line from the console: serial_poll of kernel/serial.c, byte   *)
(* by byte, with the device it reads from and the terminal it echoes to.   *)
(* A terminal sends a key as one byte or, for the arrows, as three, and    *)
(* the bytes arrive one after the other.                                   *)
(***************************************************************************)
EXTENDS Integers, Sequences, SequencesExt

CONSTANTS
    Printable,      \* the characters from ' ' to '}', by name
    Typed,          \* those the user types
    Lens,           \* the buffer sizes serial_poll is called with
    MaxPending      \* bound: bytes typed and not read yet

ASSUME SerialAssumption ==
    /\ Printable \subseteq STRING
    /\ {"[", "C", "D"} \union Typed \subseteq Printable
    /\ Lens \subseteq Nat \ {0}
    /\ MaxPending \in Nat

\* The bytes with a meaning of their own, and one that has none.
Special == {"~", "CR", "LF", "DEL", "ESC", "NUL"}

Byte == Printable \union Special

Key == {<<c>> : c \in Typed \union Special} \union {<<"ESC", "[", "C">>, <<"ESC", "[", "D">>}

VARIABLES
    wire,           \* bytes sent by the terminal and not arrived
    rx,             \* the receive FIFO of the device
    len,            \* serial_poll's argument
    buffer,         \* its buffer, 0 to len - 1
    bytesRead,      \* characters in the buffer
    cursorPosition, \* the cursor, counted from the start of the line
    at,             \* where serial_poll is
    next1,          \* the byte read after ESC, until the one after it is read
    screen,         \* what the terminal shows from the prompt on
    column          \* the terminal's cursor

lineVars   == <<len, buffer, bytesRead, cursorPosition>>
deviceVars == <<wire, rx>>
echoVars   == <<screen, column>>
vars       == <<lineVars, deviceVars, echoVars, at, next1>>

Blank(n) == [i \in 0..(n - 1) |-> "NUL"]

----------------------------------------------------------------------------
(***************************************************************************)
(* The terminal.  Echo is a pair of what it shows and where its cursor is. *)
(***************************************************************************)
Terminal == [cells |-> screen, col |-> column]

\* Writing the characters from..to-1 of b at the cursor.
Redraw(t, b, from, to) ==
    [cells |-> [i \in DOMAIN t.cells |->
                   IF t.col <= i /\ i < t.col + to - from THEN b[from + i - t.col] ELSE t.cells[i]],
     col   |-> t.col + to - from]

WriteBlank(t) == [cells |-> [t.cells EXCEPT ![t.col] = "NUL"], col |-> t.col + 1]

MoveCursorLeft(t, amount) == [t EXCEPT !.col = @ - amount]

Shows(t) == screen' = t.cells /\ column' = t.col

----------------------------------------------------------------------------
(***************************************************************************)
(* The loop.  It waits for a byte before it takes one, except for the two  *)
(* after ESC; reading an empty device gives some byte.                     *)
(***************************************************************************)
\* A plausible slip: no room is left for the NUL.
HasRoomForAnother == bytesRead < len

HasRoom == bytesRead < len - 1

Received(b) ==
    /\ at = "poll"
    /\ HasRoom
    /\ rx # << >>
    /\ b = Head(rx)
    /\ rx' = Tail(rx)
    /\ UNCHANGED <<wire, len, next1>>

\* A printable character is inserted at the cursor.
Insert ==
    \E ch \in Printable :
        LET new == [i \in DOMAIN buffer |->
                       CASE i < cursorPosition -> buffer[i]
                         [] i = cursorPosition -> ch
                         [] i > cursorPosition -> IF i <= bytesRead THEN buffer[i - 1] ELSE buffer[i]]
        IN  /\ Received(ch)
            /\ buffer' = new
            /\ bytesRead' = bytesRead + 1
            /\ cursorPosition' = cursorPosition + 1
            /\ Shows(MoveCursorLeft(Redraw(Terminal, new, cursorPosition, bytesRead + 1),
                                    bytesRead - cursorPosition))
            /\ UNCHANGED at

\* The characters behind k move one to the left, over the one at k.
ShiftFrom(k) ==
    [i \in DOMAIN buffer |-> IF k <= i /\ i < bytesRead - 1 THEN buffer[i + 1] ELSE buffer[i]]

\* A plausible slip: the blank over the last character is not stepped back over.
BackspaceLeavesCursor ==
    /\ Received("DEL")
    /\ UNCHANGED at
    /\ IF cursorPosition > 0
       THEN LET new == ShiftFrom(cursorPosition - 1)
            IN  /\ buffer' = new
                /\ bytesRead' = bytesRead - 1
                /\ cursorPosition' = cursorPosition - 1
                /\ Shows(MoveCursorLeft(
                       WriteBlank(Redraw(MoveCursorLeft(Terminal, 1), new,
                                         cursorPosition - 1, bytesRead - 1)),
                       bytesRead - cursorPosition))
       ELSE UNCHANGED <<buffer, bytesRead, cursorPosition, echoVars>>

\* Backspace erases the character in front of the cursor.
Backspace ==
    /\ Received("DEL")
    /\ UNCHANGED at
    /\ IF cursorPosition > 0
       THEN LET new == ShiftFrom(cursorPosition - 1)
            IN  /\ buffer' = new
                /\ bytesRead' = bytesRead - 1
                /\ cursorPosition' = cursorPosition - 1
                /\ Shows(MoveCursorLeft(
                       WriteBlank(Redraw(MoveCursorLeft(Terminal, 1), new,
                                         cursorPosition - 1, bytesRead - 1)),
                       bytesRead - cursorPosition + 1))
       ELSE UNCHANGED <<buffer, bytesRead, cursorPosition, echoVars>>

\* A plausible slip: the shift starts behind the character to erase.
DeleteShiftsBehind ==
    /\ Received("~")
    /\ UNCHANGED <<at, cursorPosition>>
    /\ IF cursorPosition < bytesRead
       THEN LET new == ShiftFrom(cursorPosition + 1)
            IN  /\ buffer' = new
                /\ bytesRead' = bytesRead - 1
                /\ Shows(MoveCursorLeft(
                       WriteBlank(Redraw(Terminal, new, cursorPosition, bytesRead - 1)),
                       bytesRead - cursorPosition))
       ELSE UNCHANGED <<buffer, bytesRead, echoVars>>

\* Byte 0x7E, '~', erases the character at the cursor.
Delete ==
    /\ Received("~")
    /\ UNCHANGED <<at, cursorPosition>>
    /\ IF cursorPosition < bytesRead
       THEN LET new == ShiftFrom(cursorPosition)
            IN  /\ buffer' = new
                /\ bytesRead' = bytesRead - 1
                /\ Shows(MoveCursorLeft(
                       WriteBlank(Redraw(Terminal, new, cursorPosition, bytesRead - 1)),
                       bytesRead - cursorPosition))
       ELSE UNCHANGED <<buffer, bytesRead, echoVars>>

\* A carriage return goes behind the last character, as a newline.
Enter ==
    /\ Received("CR")
    /\ buffer' = [buffer EXCEPT ![bytesRead] = "LF"]
    /\ bytesRead' = bytesRead + 1
    /\ at' = "end"
    /\ UNCHANGED <<cursorPosition, echoVars>>

\* A line feed ends the line without becoming part of it.
LineFeed ==
    /\ Received("LF")
    /\ at' = "end"
    /\ UNCHANGED <<buffer, bytesRead, cursorPosition, echoVars>>

IgnoredByte ==
    /\ Received("NUL")
    /\ UNCHANGED <<buffer, bytesRead, cursorPosition, echoVars, at>>

Escape ==
    /\ Received("ESC")
    /\ at' = "next1"
    /\ UNCHANGED <<buffer, bytesRead, cursorPosition, echoVars>>

\* inb(dev) without a look at the line status.
ReadUnpolled(b) ==
    IF rx = << >>
    THEN b \in Byte /\ UNCHANGED rx
    ELSE b = Head(rx) /\ rx' = Tail(rx)

ReadNext1 ==
    /\ at = "next1"
    /\ \E b \in Byte : ReadUnpolled(b) /\ next1' = b
    /\ at' = "next2"
    /\ UNCHANGED <<wire, lineVars, echoVars>>

\* A plausible slip: left is not stopped at the start of the line.
ArrowStepPastStart(b) ==
    CASE next1 = "[" /\ b = "C" /\ cursorPosition < bytesRead -> 1
      [] next1 = "[" /\ b = "D" -> -1
      [] OTHER -> 0

\* Right and left move the cursor within the line; all else after ESC does nothing.
ArrowStep(b) ==
    CASE next1 = "[" /\ b = "C" /\ cursorPosition < bytesRead -> 1
      [] next1 = "[" /\ b = "D" /\ cursorPosition > 0 -> -1
      [] OTHER -> 0

ReadNext2 ==
    /\ at = "next2"
    /\ \E b \in Byte :
          /\ ReadUnpolled(b)
          /\ cursorPosition' = cursorPosition + ArrowStep(b)
          /\ column' = column + ArrowStep(b)
    /\ next1' = "NUL"
    /\ at' = "poll"
    /\ UNCHANGED <<wire, len, buffer, bytesRead, screen>>

BufferFull ==
    /\ at = "poll"
    /\ ~HasRoom
    /\ at' = "end"
    /\ UNCHANGED <<lineVars, deviceVars, echoVars, next1>>

\* The text is terminated and its length returned.
Return ==
    /\ at = "end"
    /\ buffer' = [buffer EXCEPT ![bytesRead] = "NUL"]
    /\ at' = "returned"
    /\ UNCHANGED <<len, bytesRead, cursorPosition, deviceVars, echoVars, next1>>

\* The next call: a new prompt, a new buffer.  What was typed ahead is still there.
Call ==
    /\ at = "returned"
    /\ \E n \in Lens :
          /\ len' = n
          /\ buffer' = Blank(n)
          /\ screen' = Blank(n)
    /\ bytesRead' = 0
    /\ cursorPosition' = 0
    /\ column' = 0
    /\ at' = "poll"
    /\ UNCHANGED <<deviceVars, next1>>

----------------------------------------------------------------------------
\* The user presses a key, and a byte of it arrives.  Keys follow one another on
\* the wire; what has arrived waits in the device.
Press ==
    /\ wire = << >>
    /\ \E key \in Key :
          /\ Len(rx) + Len(key) <= MaxPending
          /\ wire' = key
    /\ UNCHANGED <<rx, lineVars, echoVars, at, next1>>

Arrive ==
    /\ wire # << >>
    /\ rx' = Append(rx, Head(wire))
    /\ wire' = Tail(wire)
    /\ UNCHANGED <<lineVars, echoVars, at, next1>>

Init ==
    /\ wire = << >>
    /\ rx = << >>
    /\ at = "returned"
    /\ next1 = "NUL"
    /\ len = 1
    /\ buffer = Blank(1)
    /\ screen = Blank(1)
    /\ bytesRead = 0
    /\ cursorPosition = 0
    /\ column = 0

PollStep ==
    \/ Insert
    \/ Backspace
    \/ Delete
    \/ Enter
    \/ LineFeed
    \/ IgnoredByte
    \/ Escape
    \/ ReadNext1
    \/ ReadNext2
    \/ BufferFull
    \/ Return

Next == PollStep \/ Call \/ Press \/ Arrive

Spec == Init /\ [][Next]_vars

----------------------------------------------------------------------------
\* Every variable has its type.  The buffer and the screen reach from 0 to len - 1.
SerialTypeOK ==
    /\ wire \in Seq(Byte)
    /\ rx \in Seq(Byte)
    /\ len \in Lens \union {1}
    /\ buffer \in [0..(len - 1) -> Byte]
    /\ screen \in [0..(len - 1) -> Byte]
    /\ bytesRead \in Nat
    /\ cursorPosition \in Nat
    /\ column \in Nat
    /\ at \in {"poll", "next1", "next2", "end", "returned"}
    /\ next1 \in Byte

\* Whatever is typed, in whatever order and however fast, every index serial_poll
\* writes to is in the buffer, with room for the NUL, and the cursor is in the line.
InBuffer == bytesRead <= len - 1 /\ cursorPosition <= bytesRead

\* What the user sees is what the command handler will get: behind the prompt the
\* terminal shows the buffer and nothing else, with its cursor at cursorPosition.
ScreenShowsBuffer ==
    at \in {"poll", "next1", "next2"} =>
        /\ column = cursorPosition
        /\ \A i \in DOMAIN screen : screen[i] = (IF i < bytesRead THEN buffer[i] ELSE "NUL")

\* The shifting loops implement a line with a cursor in it.
Line == INSTANCE LineEditor WITH
            Char    <- Printable,
            NewLine <- "LF",
            text    <- [i \in 1..bytesRead |-> buffer[i - 1]],
            cursor  <- cursorPosition,
            room    <- len - 1,
            reading <- at \in {"poll", "next1", "next2"}

EditsALine == Line!Spec

\* serial.c:92: arrow keys are escape sequences and are handled as such.  So a
\* user who types no '[' does not find one in the line.
ArrowsAreNotText == "[" \notin {buffer[i] : i \in 0..(bytesRead - 1)}
=============================================================================
