--------------------------- MODULE MCCommandText ---------------------------
(***************************************************************************)
(* Small instances of CommandText: each command is one letter, and the     *)
(* user types every short text behind it.                                  *)
(***************************************************************************)
EXTENDS CommandText

Letters == [shutdown |-> <<"s">>, setpcbprio |-> <<"p">>, alarm |-> <<"a">>]

LetterY == <<"y">>

Upto(n, set) == UNION {[1..k -> set] : k \in 0..n}

\* Names, numbers with a sign and without, and spaces, also in front.
Arguments == {<<"p">> \o s \o <<Enter>> : s \in Upto(6, {Space, "x", "1", "9", "-"})}

\* Spaces in the message, in front of the time and at the end.
Alarms == {<<"a">> \o s \o <<Enter>> : s \in Upto(6, {Space, "x", "1"})}

\* Whatever is typed at the question, and more shutdowns behind it.
Answers == {<<"s", Enter>> \o s \o <<Enter>> : s \in Upto(6, {"y", "s", Space, Enter})}

\* A line that fills the buffer: its rest is read as the answer.
Padded == {<<"s">> \o [k \in 1..n |-> Space] \o <<"y", Enter>> : n \in 1..8}

Texts == Arguments \union Alarms \union Answers \union Padded
=============================================================================
