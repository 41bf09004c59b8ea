----------------------------- MODULE LineEditor -----------------------------
(***************************************************************************)
(* What the console promises whoever reads a line from it: a text with a   *)
(* cursor in it, which typing, erasing and moving change one character at  *)
(* a time, until the line is entered or there is room for no more.         *)
(***************************************************************************)
EXTENDS Integers, Sequences, SequencesExt

CONSTANTS
    Char,           \* what can be typed into the line
    NewLine,        \* the character that ends a line
    Lens            \* the buffer sizes a reader asks with

VARIABLES
    text,           \* the characters of the line
    cursor,         \* how many of them are in front of the cursor
    room,           \* how many the reader has room for
    reading         \* the line is not finished

vars == <<text, cursor, room, reading>>

Ask ==
    /\ ~reading
    /\ reading' = TRUE
    /\ text' = << >>
    /\ cursor' = 0
    /\ \E len \in Lens : room' = len - 1

Init ==
    /\ reading = FALSE
    /\ text = << >>
    /\ cursor = 0
    /\ room = 0

Edit(s, c) ==
    /\ reading
    /\ text' = s
    /\ cursor' = c
    /\ UNCHANGED <<room, reading>>

Type(c)   == Len(text) < room /\ Edit(InsertAt(text, cursor + 1, c), cursor + 1)
Backspace == cursor > 0 /\ Edit(RemoveAt(text, cursor), cursor - 1)
Delete    == cursor < Len(text) /\ Edit(RemoveAt(text, cursor + 1), cursor)
Right     == cursor < Len(text) /\ Edit(text, cursor + 1)
Left      == cursor > 0 /\ Edit(text, cursor - 1)

\* The reader gets the line: with its end, or cut off because the room is used up.
Finish ==
    /\ reading
    /\ reading' = FALSE
    /\ text' \in {text, Append(text, NewLine)}
    /\ Len(text') <= room
    /\ UNCHANGED <<cursor, room>>

Next ==
    \/ Ask
    \/ \E c \in Char : Type(c)
    \/ Backspace
    \/ Delete
    \/ Right
    \/ Left
    \/ Finish

Spec == Init /\ [][Next]_vars
=============================================================================
