---------------------------- MODULE CommandText ----------------------------
(***************************************************************************)
(* From the keys to a command's arguments: the command handler cuts what   *)
(* the console gives it into lines, trims a line and splits it (comhand in *)
(* user/interface.c), and two commands split the rest with strtok, which   *)
(* writes into the line and keeps a pointer into it between its calls      *)
(* (lib/string.c), and read numbers with atoi (lib/stdlib.c).  shutdown    *)
(* reads its answer from the same console.                                 *)
(*                                                                         *)
(* A buffer is a sequence of characters, a pointer a position in it, and   *)
(* the null pointer is 0.  The line editing is in SerialPoll.              *)
(***************************************************************************)
EXTENDS Integers, Sequences, SequencesExt, FiniteSetsExt

CONSTANTS
    Typed,          \* the texts the user may type, with Enter at the ends of lines
    LineSize,       \* the characters the handler reads at a time (98)
    NameSize,       \* the longest process name (8)
    IntMax,         \* the largest int (2^31 - 1)
    Yes,            \* the answer that confirms a shutdown
    Commands        \* the text of each command that is modelled here

NULL  == 0
NUL   == "NUL"
Space == " "
Tab   == "\t"
Enter == "\n"

\* What a line may have in it: characters the console shows, and Enter.
Char == STRING \ {NUL, Tab}

ASSUME TextAssumption ==
    /\ Typed \subseteq Seq(Char)
    /\ LineSize \in Nat \ {0}
    /\ NameSize \in Nat
    /\ IntMax \in Nat
    /\ Yes \in Seq(Char \ {Enter})
    /\ {"shutdown", "setpcbprio", "alarm"} = DOMAIN Commands
    /\ \A h \in DOMAIN Commands : Commands[h] # << >>

Blank == {Space, Tab, Enter}

Figures == <<"0", "1", "2", "3", "4", "5", "6", "7", "8", "9">>

Digit == [d \in {Figures[n + 1] : n \in 0..9} |-> CHOOSE n \in 0..9 : Figures[n + 1] = d]

VARIABLES
    typed,              \* what the user typed and nobody has read
    said,               \* what has been read, from the beginning
    line,               \* the line as it was read
    buf,                \* the handler's buffer
    args,               \* where the arguments start in it
    handler,            \* the command whose function runs
    tok_tmp,            \* strtok's place in the buffer
    token,              \* what strtok returned last
    tokens,             \* the tokens the function has kept
    asked,              \* the name and number, or time and message, of the last request
    should_shutdown,
    at                  \* "prompt", "call", "tokens", "answer", "end" or "off"

tokVars == <<buf, tok_tmp, token, tokens>>
vars == <<typed, said, line, args, handler, tokVars, asked, should_shutdown, at>>

----------------------------------------------------------------------------
(***************************************************************************)
(* Strings.  Every buffer ends with a NUL, where each search ends.         *)
(***************************************************************************)
FirstIn(b, from, set) == Min({j \in from..Len(b) : b[j] \in set})
FirstNotIn(b, from, set) == Min({j \in from..Len(b) : b[j] \notin set})

CString(b, p) == SubSeq(b, p, FirstIn(b, p, {NUL}) - 1)

\* A plausible slip: only one separator in front of a token is skipped.
StrtokSkipsOne(b, tmp, s, delims) ==
    LET from  == IF s # NULL THEN s ELSE tmp
        start == IF b[from] \in delims THEN from + 1 ELSE from
        end   == FirstIn(b, start, delims \union {NUL})
    IN  IF from = NULL \/ b[start] = NUL
        THEN [buf |-> b, tok_tmp |-> NULL, token |-> NULL]
        ELSE IF b[end] = NUL
        THEN [buf |-> b, tok_tmp |-> NULL, token |-> start]
        ELSE [buf |-> [b EXCEPT ![end] = NUL], tok_tmp |-> end + 1, token |-> start]

\* A plausible slip: the last token is left like any other one.
StrtokGoesOn(b, tmp, s, delims) ==
    LET from  == IF s # NULL THEN s ELSE tmp
        start == FirstNotIn(b, from, delims)
        end   == FirstIn(b, start, delims \union {NUL})
    IN  IF from = NULL \/ b[start] = NUL
        THEN [buf |-> b, tok_tmp |-> NULL, token |-> NULL]
        ELSE [buf |-> [b EXCEPT ![end] = NUL], tok_tmp |-> end + 1, token |-> start]

strtok(b, tmp, s, delims) ==
    LET from  == IF s # NULL THEN s ELSE tmp
        start == FirstNotIn(b, from, delims)
        end   == FirstIn(b, start, delims \union {NUL})
    IN  IF from = NULL \/ b[start] = NUL
        THEN [buf |-> b, tok_tmp |-> NULL, token |-> NULL]
        ELSE IF b[end] = NUL
        THEN [buf |-> b, tok_tmp |-> NULL, token |-> start]
        ELSE [buf |-> [b EXCEPT ![end] = NUL], tok_tmp |-> end + 1, token |-> start]

\* What an int holds when v is computed.
Ints == -(IntMax + 1)..IntMax
HowManyInts == 2 * (IntMax + 1)

Wrapped(v) == ((v + IntMax + 1) % HowManyInts) - (IntMax + 1)

DigitsOf(s) ==
    SubSeq(s, 1, Min({j \in 0..Len(s) : j = Len(s) \/ s[j + 1] \notin DOMAIN Digit}))

Number(s) ==
    LET d == DigitsOf(s)
        res[k \in 0..Len(d)] ==
            IF k = 0 THEN 0 ELSE Wrapped(res[k - 1] * 10 + Digit[d[k]])
    IN  res[Len(d)]

\* A token has no space in it, so none is skipped.
atoi(s) ==
    CASE s[1] = "-" -> Wrapped(-Number(Tail(s)))
      [] s[1] = "+" -> Number(Tail(s))
      [] OTHER      -> Number(s)

----------------------------------------------------------------------------
(***************************************************************************)
(* Reading: up to Enter, or as much as there is room for.                  *)
(***************************************************************************)
Line(room) ==
    LET enters == {j \in DOMAIN typed : typed[j] = Enter}
    IN  SubSeq(typed, 1, Min({room} \union enters))

CanRead(room) == Len(typed) >= room \/ Contains(typed, Enter)

Read(room) ==
    /\ said' = said \o Line(room)
    /\ typed' = SubSeq(typed, Len(Line(room)) + 1, Len(typed))

\* A plausible slip: only the Enter is taken off.
TrimEnter(l) == IF Last(l) = Enter /\ Len(l) > 1 THEN Front(l) ELSE l

\* trim_input: spaces and Enter at the end go, but never the first character.
trim_input(l) ==
    SubSeq(l, 1, Max({1} \union {j \in DOMAIN l : l[j] \notin {Space, Enter}}))

InBuffer(text) == [j \in 1..(LineSize + 1) |-> IF j <= Len(text) THEN text[j] ELSE NUL]

Init ==
    /\ typed \in Typed
    /\ said = << >>
    /\ line = << >>
    /\ buf = InBuffer(<< >>)
    /\ args = NULL
    /\ handler = "none"
    /\ tok_tmp = NULL
    /\ token = NULL
    /\ tokens = << >>
    /\ asked = [by |-> "none"]
    /\ should_shutdown = FALSE
    /\ at = "prompt"

\* The top of comhand: read, trim, split at the first space, look up.
ReadCommand ==
    LET text  == InBuffer(trim_input(Line(LineSize)))
        space == SelectInSeq(text, LAMBDA c : c = Space)
        split == IF space = 0 THEN text ELSE [text EXCEPT ![space] = NUL]
        found == {h \in DOMAIN Commands : CString(split, 1) = Commands[h]}
    IN  /\ at = "prompt"
        /\ CanRead(LineSize)
        /\ Read(LineSize)
        /\ line' = Line(LineSize)
        /\ buf' = split
        /\ args' = IF space = 0 THEN NULL ELSE space + 1
        /\ IF found = {}
           THEN handler' = "none" /\ at' = "end"
           ELSE /\ handler' \in found
                /\ at' = IF handler' = "shutdown" THEN "answer"
                         ELSE IF args' = NULL THEN "end" ELSE "call"
        /\ tokens' = << >>
        /\ asked' = [by |-> "none"]
        /\ UNCHANGED <<tok_tmp, token, should_shutdown>>

----------------------------------------------------------------------------
(***************************************************************************)
(* setpcbprio and alarm split their arguments in two.  The first call of   *)
(* strtok gets the arguments, the ones in the loop go on from there.       *)
(***************************************************************************)
Strtok(s, delims) ==
    LET r == strtok(buf, tok_tmp, s, delims)
    IN  /\ buf' = r.buf
        /\ tok_tmp' = r.tok_tmp
        /\ token' = r.token

FirstToken ==
    /\ at = "call"
    /\ Strtok(args, Blank)
    /\ at' = "tokens"
    /\ UNCHANGED <<typed, said, line, args, handler, tokens, asked, should_shutdown>>

\* A plausible slip: the message of an alarm is split at spaces, too.
BlanksBehind(h) == Blank

\* The message of an alarm may have spaces in it.
Separators(h) == IF h = "alarm" THEN {Tab, Enter} ELSE Blank

NextToken ==
    /\ at = "tokens"
    /\ token # NULL
    /\ Len(tokens) < 2
    /\ tokens' = Append(tokens, token)
    /\ Strtok(NULL, Separators(handler))
    /\ UNCHANGED <<typed, said, line, args, handler, asked, should_shutdown, at>>

NoMoreTokens == at = "tokens" /\ (token = NULL \/ Len(tokens) = 2)

Token(k) == CString(buf, tokens[k])

Finished ==
    /\ at' = "end"
    /\ UNCHANGED <<typed, said, line, args, handler, tokVars, should_shutdown>>

\* setpcbprio: what is handed to pcb_set_priority.
SetPriority ==
    /\ NoMoreTokens
    /\ handler = "setpcbprio"
    /\ Len(tokens) = 2
    /\ Len(Token(1)) <= NameSize
    /\ asked' = [by |-> handler, name |-> Token(1), priority |-> atoi(Token(2))]
    /\ Finished

\* alarm: the text the time is taken from, and the message.
SetAlarm ==
    /\ NoMoreTokens
    /\ handler = "alarm"
    /\ Len(tokens) = 2
    /\ asked' = [by |-> handler, time |-> Token(1), message |-> Token(2)]
    /\ Finished

Refuse ==
    /\ NoMoreTokens
    /\ Len(tokens) < 2 \/ (handler = "setpcbprio" /\ Len(Token(1)) > NameSize)
    /\ Finished
    /\ UNCHANGED asked

----------------------------------------------------------------------------
\* A plausible slip: an answer that starts like yes is one.
StartsWithYes(answer) == IsPrefix(Yes, answer)

Confirms(answer) == answer = Append(Yes, Enter)

\* shutdown: the answer is read with room for a yes and Enter, no more.
ReadAnswer ==
    LET room == Len(Yes) + 1
    IN  /\ at = "answer"
        /\ CanRead(room)
        /\ Read(room)
        /\ should_shutdown' = Confirms(Line(room))
        /\ at' = "end"
        /\ UNCHANGED <<line, args, handler, tokVars, asked>>

ComhandEnd ==
    /\ at = "end"
    /\ at' = IF should_shutdown THEN "off" ELSE "prompt"
    /\ UNCHANGED <<typed, said, line, args, handler, tokVars, asked, should_shutdown>>

Next ==
    \/ ReadCommand
    \/ FirstToken
    \/ NextToken
    \/ SetPriority
    \/ SetAlarm
    \/ Refuse
    \/ ReadAnswer
    \/ ComhandEnd

Spec == Init /\ [][Next]_vars

----------------------------------------------------------------------------
(***************************************************************************)
(* Properties.                                                             *)
(***************************************************************************)

\* The words of a text, from left to right: its longest pieces without a blank.
Words(s) ==
    LET IsWord(i, j) ==
            /\ \A k \in i..j : s[k] \notin Blank
            /\ i = 1 \/ s[i - 1] \in Blank
            /\ j = Len(s) \/ s[j + 1] \in Blank
        starts == {i \in DOMAIN s : s[i] \notin Blank /\ (i = 1 \/ s[i - 1] \in Blank)}
    IN  [n \in 1..Cardinality(starts) |->
            LET i == CHOOSE i \in starts : Cardinality({k \in starts : k <= i}) = n
                j == CHOOSE j \in i..Len(s) : IsWord(i, j)
            IN  SubSeq(s, i, j)]

\* What digits stand for: each is worth ten times what it is one place further on.
Decimal(d) ==
    LET power[k \in 0..Len(d)] == IF k = 0 THEN 1 ELSE 10 * power[k - 1]
        sum[k \in 0..Len(d)] ==
            IF k = 0 THEN 0 ELSE sum[k - 1] + Digit[d[k]] * power[Len(d) - k]
    IN  sum[Len(d)]

\* The number a word begins with, however large.
Value(w) ==
    CASE w[1] = "-" -> -Decimal(DigitsOf(Tail(w)))
      [] w[1] = "+" -> Decimal(DigitsOf(Tail(w)))
      [] OTHER      -> Decimal(DigitsOf(w))

Pointer == 0..(LineSize + 1)

\* Pointers into the buffer stay in it, strtok's own one included, and the
\* buffer ends with a NUL whatever strtok has written.
TextTypeOK ==
    /\ Len(line) <= LineSize
    /\ Len(buf) = LineSize + 1
    /\ buf[LineSize + 1] = NUL
    /\ args \in Pointer
    /\ handler \in {"none"} \union DOMAIN Commands
    /\ tok_tmp \in Pointer
    /\ token \in Pointer
    /\ tokens \in Seq(Pointer \ {NULL})
    /\ should_shutdown \in BOOLEAN
    /\ at \in {"prompt", "call", "tokens", "answer", "end", "off"}

\* A command's function gets no arguments, or arguments that begin in the line
\* and are not empty: none of the functions tests for an empty name.
ArgumentsAreNotEmpty ==
    handler # "none" /\ at = "call" => args <= Len(line) /\ buf[args] # NUL

\* setpcbprio asks, exactly if there are such, for the second word of the line
\* with the number in the third one, whatever spaces are around them: the number
\* that was typed, as far as an int holds it, and 0 for a word without a digit.
PriorityIsAsTyped ==
    at = "end" /\ handler = "setpcbprio" =>
        LET w == Words(line)
        IN  IF Len(w) < 3 \/ Len(w[2]) > NameSize
            THEN asked.by = "none"
            ELSE /\ asked.by = handler
                 /\ asked.name = w[2]
                 /\ asked.priority \in Ints
                 /\ (asked.priority - Value(w[3])) % HowManyInts = 0

\* What alarm takes for time and message, put together again, is the line: the
\* time is one word, and the message is all that follows the space behind it, up
\* to the spaces at the end.
MessageIsTheRest ==
    asked.by = "alarm" =>
        /\ Len(Words(asked.time)) = 1
        /\ Last(asked.message) # Space
        /\ \E front, back \in 0..Len(line) :
              LET spaces(n) == [k \in 1..n |-> Space]
                  whole     == Commands["alarm"] \o spaces(front) \o asked.time \o <<Space>>
                                 \o asked.message \o spaces(back)
              IN  line \in {whole, Append(whole, Enter)}

\* The line the user entered last.
LastEntered ==
    LET ends == {k \in 1..(Len(said) - 1) : said[k] = Enter}
    IN  SubSeq(said, Max({0} \union ends) + 1, Len(said) - 1)

\* The machine goes off only after a line of its own that says yes and nothing
\* else: what is left of a longer answer, or of an earlier one, is not taken for
\* it.  Only the rest of a line too long for the buffer can be.
StopsOnlyOnYes ==
    at = "off" => Last(said) = Enter /\ (LastEntered = Yes \/ ~Contains(line, Enter))
=====================================================================================================================================================
