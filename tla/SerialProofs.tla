---------------------------- MODULE SerialProofs ----------------------------
(***************************************************************************)
(* Proofs about SerialPoll, for every buffer size, every set of characters *)
(* and every way the bytes arrive: serial_poll stays in its buffer, and    *)
(* the terminal shows what the buffer holds.                               *)
(***************************************************************************)
EXTENDS SerialPoll, PcbTheorems

(***************************************************************************)
(* The inductive invariant is the three properties together: where the     *)
(* characters of a step go depends on the cursor being in the line, and    *)
(* what the terminal then shows depends on where its own cursor was.       *)
(***************************************************************************)
Inv ==
    /\ SerialTypeOK
    /\ InBuffer
    /\ ScreenShowsBuffer

\* Taking a byte leaves the device well typed, and finds room for a character.
LEMMA ReceivedTypes ==
    ASSUME Inv, NEW b, Received(b)
    PROVE  /\ wire' \in Seq(Byte) /\ rx' \in Seq(Byte) /\ b \in Byte
           /\ at = "poll" /\ len' = len /\ next1' = next1
           /\ len \in Nat \ {0} /\ bytesRead \in Nat /\ cursorPosition \in Nat
           /\ bytesRead + 1 <= len - 1 /\ cursorPosition <= bytesRead
           /\ column = cursorPosition
           /\ \A i \in 0..(len - 1) : screen[i] = (IF i < bytesRead THEN buffer[i] ELSE "NUL")
<1>1. /\ at = "poll" /\ HasRoom /\ rx # << >> /\ b = Head(rx) /\ rx' = Tail(rx)
      /\ wire' = wire /\ len' = len /\ next1' = next1
  BY DEF Received
<1>2. wire \in Seq(Byte) /\ rx \in Seq(Byte)
  BY DEF Inv, SerialTypeOK
<1>3. Head(rx) \in Byte /\ Tail(rx) \in Seq(Byte)
  BY <1>1, <1>2, HeadTailProperties
<1>4. len \in Nat \ {0} /\ bytesRead \in Nat /\ cursorPosition \in Nat
  BY SerialAssumption DEF Inv, SerialTypeOK
<1>5. bytesRead + 1 <= len - 1 /\ cursorPosition <= bytesRead
  BY <1>1, <1>4 DEF HasRoom, Inv, InBuffer
<1>6. /\ column = cursorPosition
      /\ \A i \in 0..(len - 1) : screen[i] = (IF i < bytesRead THEN buffer[i] ELSE "NUL")
  BY <1>1 DEF Inv, ScreenShowsBuffer, SerialTypeOK
<1>. QED  BY <1>1, <1>2, <1>3, <1>4, <1>5, <1>6

\* The conjuncts of Inv again after a step that stays in the loop.
LEMMA StaysInLoop ==
    ASSUME Inv, NEW b, Received(b), at' = at,
           buffer' \in [0..(len - 1) -> Byte], screen' \in [0..(len - 1) -> Byte],
           bytesRead' \in Nat, cursorPosition' \in Nat,
           bytesRead' <= len - 1, cursorPosition' <= bytesRead',
           column' = cursorPosition',
           \A i \in 0..(len - 1) : screen'[i] = (IF i < bytesRead' THEN buffer'[i] ELSE "NUL")
    PROVE  Inv'
<1>1. /\ wire' \in Seq(Byte) /\ rx' \in Seq(Byte)
      /\ at = "poll" /\ len' = len /\ next1' = next1
  BY ReceivedTypes
<1>2. SerialTypeOK'
  BY <1>1 DEF Inv, SerialTypeOK
<1>3. InBuffer'
  BY <1>1 DEF InBuffer
<1>4. ScreenShowsBuffer'
  BY <1>1 DEF ScreenShowsBuffer
<1>. QED  BY <1>2, <1>3, <1>4 DEF Inv

LEMMA InsertKeepsInv == ASSUME Inv, Insert PROVE Inv'
<1>1. PICK ch \in Printable :
         LET new == [i \in DOMAIN buffer |->
                        CASE i < cursorPosition -> buffer[i]
                          [] i = cursorPosition -> ch
                          [] i > cursorPosition -> IF i <= bytesRead THEN buffer[i - 1] ELSE buffer[i]]
         IN  /\ Received(ch)
             /\ buffer' = new
             /\ bytesRead' = bytesRead + 1
             /\ cursorPosition' = cursorPosition + 1
             /\ Shows(MoveCursorLeft(Redraw(Terminal, new, cursorPosition, bytesRead + 1),
                                     bytesRead - cursorPosition))
             /\ UNCHANGED at
  BY DEF Insert
<1>. DEFINE new == [i \in DOMAIN buffer |->
                       CASE i < cursorPosition -> buffer[i]
                         [] i = cursorPosition -> ch
                         [] i > cursorPosition -> IF i <= bytesRead THEN buffer[i - 1] ELSE buffer[i]]
            c == cursorPosition
            n == bytesRead
<1>2. /\ Received(ch) /\ at' = at
      /\ buffer' = new /\ n' = n + 1 /\ c' = c + 1
      /\ Shows(MoveCursorLeft(Redraw(Terminal, new, c, n + 1), n - c))
  BY <1>1
<1>3. /\ len \in Nat \ {0} /\ n \in Nat /\ c \in Nat /\ n + 1 <= len - 1 /\ c <= n
      /\ column = c /\ ch \in Byte
      /\ \A i \in 0..(len - 1) : screen[i] = (IF i < n THEN buffer[i] ELSE "NUL")
  BY <1>2, ReceivedTypes
<1>4. buffer \in [0..(len - 1) -> Byte] /\ screen \in [0..(len - 1) -> Byte]
  BY DEF Inv, SerialTypeOK
<1>5. /\ DOMAIN new = 0..(len - 1)
      /\ \A i \in 0..(len - 1) : new[i] = IF i < c THEN buffer[i]
                                          ELSE IF i = c THEN ch
                                          ELSE IF i <= n THEN buffer[i - 1] ELSE buffer[i]
  BY <1>3, <1>4
<1>6. new \in [0..(len - 1) -> Byte]
  <2>1. \A i \in 0..(len - 1) : new[i] \in Byte
    BY <1>3, <1>4, <1>5
  <2>. QED  BY <1>5, <2>1
<1>. HIDE DEF new
<1>7. /\ screen' = [i \in 0..(len - 1) |->
                      IF c <= i /\ i < c + (n + 1) - c THEN new[c + i - c] ELSE screen[i]]
      /\ column' = c + 1
  <2>. DEFINE t == Redraw(Terminal, new, c, n + 1)
  <2>1. /\ t.cells = [i \in 0..(len - 1) |->
                        IF c <= i /\ i < c + (n + 1) - c THEN new[c + i - c] ELSE screen[i]]
        /\ t.col = c + (n + 1) - c
        /\ t = [cells |-> t.cells, col |-> t.col]
    BY <1>3, <1>4 DEF Redraw, Terminal
  <2>. HIDE DEF t
  <2>2. /\ MoveCursorLeft(t, n - c).cells = t.cells
        /\ MoveCursorLeft(t, n - c).col = t.col - (n - c)
    BY <2>1 DEF MoveCursorLeft
  <2>3. screen' = MoveCursorLeft(t, n - c).cells /\ column' = MoveCursorLeft(t, n - c).col
    BY <1>2 DEF Shows, t
  <2>4. c + (n + 1) - c - (n - c) = c + 1
    BY <1>3
  <2>5. column' = c + 1
    BY <1>3, <2>1, <2>2, <2>3
  <2>6. screen' = t.cells
    BY <2>2, <2>3
  <2>. QED  BY <2>1, <2>5, <2>6
<1>8. \A i \in 0..(len - 1) : screen'[i] = (IF i < n + 1 THEN new[i] ELSE "NUL")
  BY <1>3, <1>5, <1>7
<1>9. screen' \in [0..(len - 1) -> Byte]
  <2>1. "NUL" \in Byte
    BY DEF Byte, Special
  <2>2. \A i \in 0..(len - 1) : screen'[i] \in Byte
    BY <1>6, <1>8, <2>1
  <2>. QED  BY <1>7, <2>2
<1>. QED  BY <1>2, <1>3, <1>6, <1>7, <1>8, <1>9, StaysInLoop

\* Erasing the character at k: the shift, the redrawn rest and the blank behind it.
LEMMA EraseKeepsInv ==
    ASSUME Inv, NEW b, Received(b), at' = at,
           NEW k \in Nat, k < bytesRead, NEW amount, amount = bytesRead - k,
           buffer' = ShiftFrom(k), bytesRead' = bytesRead - 1, cursorPosition' = k,
           Shows(MoveCursorLeft(WriteBlank(Redraw([cells |-> screen, col |-> k], ShiftFrom(k),
                                                  k, bytesRead - 1)), amount))
    PROVE  Inv'
<1>. DEFINE new == ShiftFrom(k)
            n   == bytesRead
<1>1. /\ len \in Nat \ {0} /\ n \in Nat /\ n + 1 <= len - 1
      /\ \A i \in 0..(len - 1) : screen[i] = (IF i < n THEN buffer[i] ELSE "NUL")
  BY ReceivedTypes
<1>2. /\ buffer \in [0..(len - 1) -> Byte] /\ screen \in [0..(len - 1) -> Byte]
      /\ "NUL" \in Byte
  BY DEF Inv, SerialTypeOK, Byte, Special
<1>3. /\ DOMAIN new = 0..(len - 1)
      /\ \A i \in 0..(len - 1) : new[i] = IF k <= i /\ i < n - 1 THEN buffer[i + 1] ELSE buffer[i]
  BY <1>2 DEF ShiftFrom
<1>4. new \in [0..(len - 1) -> Byte]
  <2>1. \A i \in 0..(len - 1) : new[i] \in Byte
    BY <1>1, <1>2, <1>3
  <2>2. new = [i \in 0..(len - 1) |-> new[i]]
    BY <1>2, <1>3 DEF ShiftFrom
  <2>. QED  BY <2>1, <2>2
<1>. HIDE DEF new
<1>. DEFINE t == Redraw([cells |-> screen, col |-> k], new, k, n - 1)
            u == WriteBlank(t)
<1>5. /\ t.cells = [i \in 0..(len - 1) |->
                      IF k <= i /\ i < k + (n - 1) - k THEN new[k + i - k] ELSE screen[i]]
      /\ t.col = k + (n - 1) - k
  BY <1>2 DEF Redraw
<1>6. t.col = n - 1
  BY <1>1, <1>5
<1>7. u.cells = [t.cells EXCEPT ![t.col] = "NUL"] /\ u.col = t.col + 1 /\ DOMAIN u = {"cells", "col"}
  BY DEF WriteBlank
<1>8. screen' = MoveCursorLeft(u, amount).cells /\ column' = MoveCursorLeft(u, amount).col
  BY DEF Shows, new
<1>. HIDE DEF t, u
<1>9. screen' = u.cells /\ column' = u.col - amount
  BY <1>7, <1>8 DEF MoveCursorLeft
<1>10. column' = k
  BY <1>1, <1>6, <1>7, <1>9
<1>11. screen' = [t.cells EXCEPT ![n - 1] = "NUL"]
  BY <1>6, <1>7, <1>9
<1>12. \A i \in 0..(len - 1) : screen'[i] = (IF i < n - 1 THEN new[i] ELSE "NUL")
  <2>. SUFFICES ASSUME NEW i \in 0..(len - 1)
                PROVE  screen'[i] = (IF i < n - 1 THEN new[i] ELSE "NUL")
    OBVIOUS
  <2>1. screen'[i] = IF i = n - 1 THEN "NUL" ELSE t.cells[i]
    BY <1>1, <1>5, <1>11
  <2>2. t.cells[i] = IF k <= i /\ i < n - 1 THEN new[i] ELSE screen[i]
    BY <1>1, <1>5, SMTT(20)
  <2>. QED  BY <1>1, <1>3, <2>1, <2>2
<1>13. screen' \in [0..(len - 1) -> Byte]
  <2>1. \A i \in 0..(len - 1) : screen'[i] \in Byte
    BY <1>2, <1>4, <1>12
  <2>2. screen' = [i \in 0..(len - 1) |-> screen'[i]]
    BY <1>5, <1>11
  <2>. QED  BY <2>1, <2>2
<1>14. buffer' = new /\ n' = n - 1
  BY DEF new
<1>. QED  BY <1>1, <1>4, <1>10, <1>12, <1>13, <1>14, StaysInLoop

\* A byte that leaves the line, the cursors and the screen as they are.
LEMMA NoEditKeepsInv ==
    ASSUME Inv, NEW b, Received(b),
           UNCHANGED <<buffer, bytesRead, cursorPosition, echoVars>>,
           at' \in {"poll", "next1", "end"}
    PROVE  Inv'
<1>1. wire' \in Seq(Byte) /\ rx' \in Seq(Byte) /\ at = "poll" /\ len' = len /\ next1' = next1
  BY ReceivedTypes
<1>2. SerialTypeOK'
  BY <1>1 DEF Inv, SerialTypeOK, echoVars
<1>3. InBuffer'
  BY <1>1 DEF Inv, InBuffer
<1>4. ScreenShowsBuffer'
  BY <1>1 DEF Inv, ScreenShowsBuffer, echoVars
<1>. QED  BY <1>2, <1>3, <1>4 DEF Inv

LEMMA BackspaceKeepsInv == ASSUME Inv, Backspace PROVE Inv'
<1>1. Received("DEL") /\ at' = at
  BY DEF Backspace
<1>2. at = "poll" /\ bytesRead \in Nat /\ cursorPosition \in Nat /\ cursorPosition <= bytesRead
      /\ column = cursorPosition
  BY <1>1, ReceivedTypes
<1>3. CASE cursorPosition > 0
  <2>. DEFINE k == cursorPosition - 1
  <2>1. /\ buffer' = ShiftFrom(k) /\ bytesRead' = bytesRead - 1 /\ cursorPosition' = k
        /\ Shows(MoveCursorLeft(WriteBlank(Redraw(MoveCursorLeft(Terminal, 1), ShiftFrom(k),
                                                  k, bytesRead - 1)),
                                bytesRead - cursorPosition + 1))
    BY <1>3 DEF Backspace
  <2>2. MoveCursorLeft(Terminal, 1) = [cells |-> screen, col |-> k]
    BY <1>2 DEF MoveCursorLeft, Terminal
  <2>3. k \in Nat /\ k < bytesRead /\ bytesRead - cursorPosition + 1 = bytesRead - k
    BY <1>2, <1>3
  <2>. HIDE DEF k
  <2>. QED  BY <1>1, <2>1, <2>2, <2>3, EraseKeepsInv
<1>4. CASE ~(cursorPosition > 0)
  BY <1>1, <1>2, <1>4, NoEditKeepsInv DEF Backspace
<1>. QED  BY <1>3, <1>4

LEMMA DeleteKeepsInv == ASSUME Inv, Delete PROVE Inv'
<1>1. Received("~") /\ at' = at /\ cursorPosition' = cursorPosition
  BY DEF Delete
<1>2. at = "poll" /\ bytesRead \in Nat /\ cursorPosition \in Nat /\ column = cursorPosition
  BY <1>1, ReceivedTypes
<1>3. CASE cursorPosition < bytesRead
  <2>1. /\ buffer' = ShiftFrom(cursorPosition) /\ bytesRead' = bytesRead - 1
        /\ Shows(MoveCursorLeft(WriteBlank(Redraw(Terminal, ShiftFrom(cursorPosition),
                                                  cursorPosition, bytesRead - 1)),
                                bytesRead - cursorPosition))
    BY <1>3 DEF Delete
  <2>2. Terminal = [cells |-> screen, col |-> cursorPosition]
    BY <1>2 DEF Terminal
  <2>. QED  BY <1>1, <1>2, <1>3, <2>1, <2>2, EraseKeepsInv
<1>4. CASE ~(cursorPosition < bytesRead)
  BY <1>1, <1>2, <1>4, NoEditKeepsInv DEF Delete
<1>. QED  BY <1>3, <1>4

LEMMA EnterKeepsInv == ASSUME Inv, Enter PROVE Inv'
<1>1. /\ Received("CR") /\ at' = "end" /\ bytesRead' = bytesRead + 1
      /\ buffer' = [buffer EXCEPT ![bytesRead] = "LF"]
      /\ cursorPosition' = cursorPosition /\ screen' = screen /\ column' = column
  BY DEF Enter, echoVars
<1>2. /\ wire' \in Seq(Byte) /\ rx' \in Seq(Byte) /\ len' = len /\ next1' = next1
      /\ len \in Nat \ {0} /\ bytesRead \in Nat /\ cursorPosition \in Nat
      /\ bytesRead + 1 <= len - 1 /\ cursorPosition <= bytesRead
  BY <1>1, ReceivedTypes
<1>3. buffer' \in [0..(len - 1) -> Byte]
  BY <1>1, <1>2 DEF Inv, SerialTypeOK, Byte, Special
<1>4. SerialTypeOK'
  BY <1>1, <1>2, <1>3 DEF Inv, SerialTypeOK
<1>5. InBuffer' /\ ScreenShowsBuffer'
  BY <1>1, <1>2 DEF InBuffer, ScreenShowsBuffer
<1>. QED  BY <1>4, <1>5 DEF Inv

\* A read that does not wait takes a byte of the device, or makes one up.
LEMMA UnpolledTypes ==
    ASSUME Inv, NEW b \in Byte, ReadUnpolled(b)
    PROVE  rx' \in Seq(Byte)
<1>1. rx \in Seq(Byte)
  BY DEF Inv, SerialTypeOK
<1>2. CASE rx = << >>
  BY <1>1, <1>2 DEF ReadUnpolled
<1>3. CASE rx # << >>
  BY <1>1, <1>3, HeadTailProperties DEF ReadUnpolled
<1>. QED  BY <1>2, <1>3

LEMMA ReadNext1KeepsInv == ASSUME Inv, ReadNext1 PROVE Inv'
<1>1. PICK b \in Byte : ReadUnpolled(b) /\ next1' = b
  BY DEF ReadNext1
<1>2. /\ at = "next1" /\ at' = "next2"
      /\ wire' = wire /\ UNCHANGED <<len, buffer, bytesRead, cursorPosition, screen, column>>
  BY DEF ReadNext1, lineVars, echoVars
<1>3. rx' \in Seq(Byte)
  BY <1>1, UnpolledTypes
<1>4. SerialTypeOK'
  BY <1>1, <1>2, <1>3 DEF Inv, SerialTypeOK
<1>5. InBuffer' /\ ScreenShowsBuffer'
  BY <1>2 DEF Inv, InBuffer, ScreenShowsBuffer
<1>. QED  BY <1>4, <1>5 DEF Inv

LEMMA ReadNext2KeepsInv == ASSUME Inv, ReadNext2 PROVE Inv'
<1>1. PICK b \in Byte : /\ ReadUnpolled(b)
                       /\ cursorPosition' = cursorPosition + ArrowStep(b)
                       /\ column' = column + ArrowStep(b)
  BY DEF ReadNext2
<1>2. /\ at = "next2" /\ at' = "poll" /\ next1' = "NUL"
      /\ wire' = wire /\ UNCHANGED <<len, buffer, bytesRead, screen>>
  BY DEF ReadNext2
<1>3. rx' \in Seq(Byte)
  BY <1>1, UnpolledTypes
<1>4. /\ len \in Nat \ {0} /\ bytesRead \in Nat /\ cursorPosition \in Nat
      /\ cursorPosition <= bytesRead /\ column = cursorPosition
  BY <1>2, SerialAssumption DEF Inv, SerialTypeOK, InBuffer, ScreenShowsBuffer
<1>5. /\ ArrowStep(b) \in Int
      /\ cursorPosition + ArrowStep(b) \in 0..bytesRead
  BY <1>4 DEF ArrowStep
<1>6. /\ cursorPosition' \in Nat /\ cursorPosition' <= bytesRead
      /\ column' \in Nat /\ column' = cursorPosition'
  BY <1>1, <1>4, <1>5
<1>7. SerialTypeOK'
  BY <1>2, <1>3, <1>6 DEF Inv, SerialTypeOK, Byte, Special
<1>8. InBuffer' /\ ScreenShowsBuffer'
  BY <1>2, <1>6 DEF Inv, InBuffer, ScreenShowsBuffer
<1>. QED  BY <1>7, <1>8 DEF Inv

LEMMA EndKeepsInv == ASSUME Inv, BufferFull \/ Return PROVE Inv'
<1>1. CASE BufferFull
  <2>1. SerialTypeOK'
    BY <1>1 DEF Inv, SerialTypeOK, BufferFull, lineVars, deviceVars, echoVars
  <2>2. InBuffer' /\ ScreenShowsBuffer'
    BY <1>1 DEF Inv, InBuffer, ScreenShowsBuffer, BufferFull, lineVars
  <2>. QED  BY <2>1, <2>2 DEF Inv
<1>2. CASE Return
  <2>1. buffer' \in [0..(len - 1) -> Byte]
    BY <1>2 DEF Inv, SerialTypeOK, Return, Byte, Special
  <2>2. SerialTypeOK'
    BY <1>2, <2>1 DEF Inv, SerialTypeOK, Return, deviceVars, echoVars
  <2>3. InBuffer' /\ ScreenShowsBuffer'
    BY <1>2 DEF Inv, InBuffer, ScreenShowsBuffer, Return
  <2>. QED  BY <2>2, <2>3 DEF Inv
<1>. QED  BY <1>1, <1>2

LEMMA BlankShows ==
    ASSUME NEW n \in Nat \ {0}
    PROVE  Blank(n) \in [0..(n - 1) -> Byte] /\ \A i \in 0..(n - 1) : Blank(n)[i] = "NUL"
BY DEF Blank, Byte, Special

LEMMA CallKeepsInv == ASSUME Inv, Call PROVE Inv'
<1>1. PICK n \in Lens : len' = n /\ buffer' = Blank(n) /\ screen' = Blank(n)
  BY DEF Call
<1>2. /\ bytesRead' = 0 /\ cursorPosition' = 0 /\ column' = 0 /\ at' = "poll"
      /\ wire' = wire /\ rx' = rx /\ next1' = next1
  BY DEF Call, deviceVars
<1>3. n \in Nat \ {0}
  BY SerialAssumption
<1>4. SerialTypeOK'
  BY <1>1, <1>2, <1>3, BlankShows DEF Inv, SerialTypeOK
<1>5. InBuffer'
  BY <1>1, <1>2, <1>3 DEF InBuffer
<1>6. ScreenShowsBuffer'
  BY <1>1, <1>2, <1>3, BlankShows DEF ScreenShowsBuffer
<1>. QED  BY <1>4, <1>5, <1>6 DEF Inv

LEMMA KeyIsBytes == ASSUME NEW key \in Key PROVE key \in Seq(Byte)
<1>1. {"ESC", "[", "C", "D"} \union Typed \union Special \subseteq Byte
  BY SerialAssumption DEF Byte, Special
<1>2. CASE key \in {<<c>> : c \in Typed \union Special}
  <2>1. PICK c \in Byte : key = <<c>>
    BY <1>1, <1>2
  <2>. QED  BY <2>1
<1>3. CASE key = <<"ESC", "[", "C">>
  BY <1>1, <1>3
<1>4. CASE key = <<"ESC", "[", "D">>
  BY <1>1, <1>4
<1>. QED  BY <1>2, <1>3, <1>4 DEF Key

LEMMA TerminalKeepsInv == ASSUME Inv, Press \/ Arrive PROVE Inv'
<1>1. wire \in Seq(Byte) /\ rx \in Seq(Byte)
  BY DEF Inv, SerialTypeOK
<1>2. UNCHANGED <<len, buffer, bytesRead, cursorPosition, screen, column, at, next1>>
  BY DEF Press, Arrive, lineVars, echoVars
<1>3. wire' \in Seq(Byte) /\ rx' \in Seq(Byte)
  <2>1. CASE Press
    <3>1. PICK key \in Key : wire' = key /\ rx' = rx
      BY <2>1 DEF Press
    <3>. QED  BY <1>1, <3>1, KeyIsBytes
  <2>2. CASE Arrive
    <3>1. Head(wire) \in Byte /\ Tail(wire) \in Seq(Byte)
      BY <1>1, <2>2, HeadTailProperties DEF Arrive
    <3>. QED  BY <1>1, <2>2, <3>1, AppendProperties DEF Arrive
  <2>. QED  BY <2>1, <2>2
<1>4. SerialTypeOK'
  BY <1>2, <1>3 DEF Inv, SerialTypeOK
<1>5. InBuffer' /\ ScreenShowsBuffer'
  BY <1>2 DEF Inv, InBuffer, ScreenShowsBuffer
<1>. QED  BY <1>4, <1>5 DEF Inv

LEMMA InitInv == Init => Inv
<1>. SUFFICES ASSUME Init PROVE Inv
  OBVIOUS
<1>1. SerialTypeOK
  <2>1. Blank(1) \in [0..(1 - 1) -> Byte]
    BY DEF Blank, Byte, Special
  <2>2. wire \in Seq(Byte) /\ rx \in Seq(Byte)
    BY DEF Init
  <2>3. "NUL" \in Byte
    BY DEF Byte, Special
  <2>. QED  BY <2>1, <2>2, <2>3 DEF Init, SerialTypeOK
<1>2. InBuffer /\ ScreenShowsBuffer
  BY DEF Init, InBuffer, ScreenShowsBuffer
<1>. QED  BY <1>1, <1>2 DEF Inv

LEMMA NextKeepsInv == ASSUME Inv, [Next]_vars PROVE Inv'
<1>1. CASE Insert
  BY <1>1, InsertKeepsInv
<1>2. CASE Backspace
  BY <1>2, BackspaceKeepsInv
<1>3. CASE Delete
  BY <1>3, DeleteKeepsInv
<1>4. CASE Enter
  BY <1>4, EnterKeepsInv
<1>5. CASE LineFeed
  BY <1>5, NoEditKeepsInv DEF LineFeed
<1>6. CASE IgnoredByte
  <2>1. Received("NUL") /\ UNCHANGED <<buffer, bytesRead, cursorPosition, echoVars>> /\ at' = at
    BY <1>6 DEF IgnoredByte
  <2>2. at = "poll"
    BY <2>1, ReceivedTypes
  <2>. QED  BY <2>1, <2>2, NoEditKeepsInv
<1>7. CASE Escape
  BY <1>7, NoEditKeepsInv DEF Escape
<1>8. CASE ReadNext1
  BY <1>8, ReadNext1KeepsInv
<1>9. CASE ReadNext2
  BY <1>9, ReadNext2KeepsInv
<1>10. CASE BufferFull \/ Return
  BY <1>10, EndKeepsInv
<1>11. CASE Call
  BY <1>11, CallKeepsInv
<1>12. CASE Press \/ Arrive
  BY <1>12, TerminalKeepsInv
<1>13. CASE UNCHANGED vars
  <2>1. UNCHANGED <<len, buffer, bytesRead, cursorPosition, wire, rx, screen, column, at, next1>>
    BY <1>13 DEF vars, lineVars, deviceVars, echoVars
  <2>2. SerialTypeOK'
    BY <2>1 DEF Inv, SerialTypeOK
  <2>3. InBuffer' /\ ScreenShowsBuffer'
    BY <2>1 DEF Inv, InBuffer, ScreenShowsBuffer
  <2>. QED  BY <2>2, <2>3 DEF Inv
<1>. QED
  BY <1>1, <1>2, <1>3, <1>4, <1>5, <1>6, <1>7, <1>8, <1>9, <1>10, <1>11, <1>12, <1>13
  DEF Next, PollStep

----------------------------------------------------------------------------
\* serial_poll never leaves its invariant: types, bounds and screen hold together.
THEOREM Invariance == Spec => []Inv
<1>1. Inv /\ [Next]_vars => Inv'
  BY NextKeepsInv
<1>. QED  BY InitInv, <1>1, PTL DEF Spec

\* serial_poll and serial_getc keep every variable in its type, whatever bytes the
\* terminal sends; in particular a line never has a length the callers did not ask.
THEOREM SerialTypesHold == Spec => []SerialTypeOK
<1>1. Inv => SerialTypeOK
  BY DEF Inv
<1>. QED  BY <1>1, Invariance, PTL

\* For every buffer size and whatever bytes arrive, serial_poll writes only into
\* its buffer, leaves room for the NUL, and keeps its cursor in the line.
THEOREM WritesInBuffer == Spec => []InBuffer
<1>1. Inv => InBuffer
  BY DEF Inv
<1>. QED  BY Invariance, <1>1, PTL

\* For every buffer size and whatever bytes arrive, the echoes of serial_poll
\* leave the terminal showing its buffer, with its cursor at cursorPosition.
THEOREM EchoIsFaithful == Spec => []ScreenShowsBuffer
<1>1. Inv => ScreenShowsBuffer
  BY DEF Inv
<1>. QED  BY Invariance, <1>1, PTL

----------------------------------------------------------------------------
(***************************************************************************)
(* The refinement: the characters in front of bytesRead are the text of    *)
(* LineEditor, and each step of serial_poll changes them as one of its     *)
(* operations does, or leaves them alone.                                  *)
(***************************************************************************)
Text    == [i \in 1..bytesRead |-> buffer[i - 1]]
Reading == at \in {"poll", "next1", "next2"}

\* Two sequences with the same length and elements are the same.
LEMMA SameElements ==
    ASSUME NEW S, NEW s \in Seq(S), NEW t \in Seq(S), Len(s) = Len(t),
           \A i \in 1..Len(s) : s[i] = t[i]
    PROVE  s = t
BY SeqEqual

LEMMA TextIsTheBuffer ==
    ASSUME Inv
    PROVE  /\ Text \in Seq(Byte) /\ Len(Text) = bytesRead
           /\ bytesRead \in Nat /\ len \in Nat \ {0} /\ cursorPosition \in 0..bytesRead
           /\ bytesRead <= len - 1
           /\ \A i \in 1..bytesRead : Text[i] = buffer[i - 1]
<1>1. /\ bytesRead \in Nat /\ len \in Nat \ {0} /\ cursorPosition \in 0..bytesRead
      /\ bytesRead <= len - 1 /\ buffer \in [0..(len - 1) -> Byte]
  BY SerialAssumption DEF Inv, SerialTypeOK, InBuffer
<1>2. \A i \in 1..bytesRead : buffer[i - 1] \in Byte
  BY <1>1
<1>3. Text \in [1..bytesRead -> Byte]
  BY <1>2 DEF Text
<1>4. Text \in Seq(Byte) /\ Len(Text) = bytesRead
  BY <1>1, <1>3
<1>. QED  BY <1>1, <1>4 DEF Text

\* The same of the next state.
LEMMA NextTextIsTheBuffer ==
    ASSUME Inv'
    PROVE  /\ Text' \in Seq(Byte) /\ Len(Text') = bytesRead'
           /\ \A i \in 1..bytesRead' : Text'[i] = buffer'[i - 1]
<1>. DEFINE n == bytesRead'
            l == len'
<1>1. n \in Nat /\ l \in Nat \ {0} /\ n <= l - 1
  BY SerialAssumption, SMTT(20) DEF Inv, SerialTypeOK, InBuffer
<1>0. buffer' \in [0..(l - 1) -> Byte]
  BY DEF Inv, SerialTypeOK
<1>. HIDE DEF n, l
<1>2. ASSUME NEW i \in 1..n PROVE buffer'[i - 1] \in Byte
  <2>1. i - 1 \in 0..(l - 1)
    BY <1>1
  <2>. QED  BY <1>0, <2>1
<1>3. Text' \in [1..n -> Byte]
  BY <1>2 DEF Text, n
<1>4. Text' \in Seq(Byte) /\ Len(Text') = n
  BY <1>1, <1>3
<1>. QED  BY <1>4 DEF Text, n

\* A text that grows by one character at k, or loses the one at k.
LEMMA IsInsertAt ==
    ASSUME NEW s \in Seq(Byte), NEW t \in Seq(Byte), NEW k \in 1..(Len(s) + 1), NEW ch \in Byte,
           Len(t) = Len(s) + 1,
           \A i \in 1..(Len(s) + 1) : t[i] = IF i < k THEN s[i] ELSE IF i = k THEN ch ELSE s[i - 1]
    PROVE  t = InsertAt(s, k, ch)
<1>. DEFINE new == InsertAt(s, k, ch)
<1>1. /\ new \in Seq(Byte) /\ Len(new) = Len(s) + 1
      /\ \A i \in 1..(Len(s) + 1) : new[i] = IF i < k THEN s[i] ELSE IF i = k THEN ch ELSE s[i - 1]
  BY InsertAtProperties
<1>. HIDE DEF new
<1>2. \A i \in 1..Len(t) : t[i] = new[i]
  BY <1>1
<1>. QED  BY <1>1, <1>2, SameElements DEF new

LEMMA GrowsAt ==
    ASSUME Inv, Inv', NEW k \in 1..(bytesRead + 1), NEW ch \in Byte, bytesRead' = bytesRead + 1,
           \A i \in 0..bytesRead :
              buffer'[i] = IF i < k - 1 THEN buffer[i] ELSE IF i = k - 1 THEN ch ELSE buffer[i - 1]
    PROVE  Text' = InsertAt(Text, k, ch)
<1>1. /\ Text \in Seq(Byte) /\ Len(Text) = bytesRead /\ bytesRead \in Nat
      /\ \A i \in 1..bytesRead : Text[i] = buffer[i - 1]
  BY TextIsTheBuffer
<1>2. /\ Text' \in Seq(Byte) /\ Len(Text') = bytesRead + 1
      /\ \A i \in 1..(bytesRead + 1) : Text'[i] = buffer'[i - 1]
  BY NextTextIsTheBuffer
<1>3. ASSUME NEW i \in 1..(bytesRead + 1)
      PROVE  Text'[i] = IF i < k THEN Text[i] ELSE IF i = k THEN ch ELSE Text[i - 1]
  <2>1. i - 1 \in 0..bytesRead /\ Text'[i] = buffer'[i - 1]
    BY <1>1, <1>2
  <2>2. CASE i < k
    <3>1. Text[i] = buffer[i - 1]
      BY <1>1, <2>2
    <3>. QED  BY <1>1, <2>1, <2>2, <3>1
  <2>3. CASE i = k
    BY <1>1, <2>1, <2>3
  <2>4. CASE i > k
    <3>1. i - 1 \in 1..bytesRead
      BY <1>1, <2>4
    <3>2. Text[i - 1] = buffer[(i - 1) - 1]
      BY <1>1, <3>1
    <3>. QED  BY <1>1, <2>1, <2>4, <3>2
  <2>. QED  BY <2>2, <2>3, <2>4
<1>. QED  BY <1>1, <1>2, <1>3, IsInsertAt

LEMMA ShrinksAt ==
    ASSUME Inv, Inv', NEW k \in 1..bytesRead, bytesRead' = bytesRead - 1,
           buffer' = ShiftFrom(k - 1)
    PROVE  Text' = RemoveAt(Text, k)
<1>1. /\ Text \in Seq(Byte) /\ Len(Text) = bytesRead /\ bytesRead \in Nat
      /\ len \in Nat \ {0} /\ bytesRead <= len - 1
      /\ \A i \in 1..bytesRead : Text[i] = buffer[i - 1]
  BY TextIsTheBuffer
<1>2. /\ Text' \in Seq(Byte) /\ Len(Text') = bytesRead - 1
      /\ \A i \in 1..(bytesRead - 1) : Text'[i] = buffer'[i - 1]
  BY NextTextIsTheBuffer
<1>3. /\ RemoveAt(Text, k) \in Seq(Byte) /\ Len(RemoveAt(Text, k)) = bytesRead - 1
      /\ \A i \in 1..(bytesRead - 1) : RemoveAt(Text, k)[i] = IF i < k THEN Text[i] ELSE Text[i + 1]
  BY <1>1, RemoveAtProperties
<1>4. \A i \in 0..(len - 1) :
         buffer'[i] = IF k - 1 <= i /\ i < bytesRead - 1 THEN buffer[i + 1] ELSE buffer[i]
  BY DEF ShiftFrom, Inv, SerialTypeOK
<1>. DEFINE new == RemoveAt(Text, k)
<1>. HIDE DEF new
<1>5. ASSUME NEW i \in 1..(bytesRead - 1) PROVE Text'[i] = new[i]
  <2>1. i - 1 \in 0..(len - 1) /\ Text'[i] = buffer'[i - 1]
    BY <1>1, <1>2
  <2>2. CASE i < k
    <3>1. new[i] = Text[i] /\ Text[i] = buffer[i - 1]
      BY <1>1, <1>3, <2>2 DEF new
    <3>. QED  BY <1>1, <1>4, <2>1, <2>2, <3>1
  <2>3. CASE i >= k
    <3>1. new[i] = Text[i + 1]
      BY <1>3, <2>3 DEF new
    <3>2. i + 1 \in 1..bytesRead /\ (i + 1) - 1 = i /\ (i - 1) + 1 = i
      BY <1>1
    <3>3. Text[i + 1] = buffer[i]
      BY <1>1, <3>2
    <3>4. buffer'[i - 1] = buffer[i]
      BY <1>1, <1>4, <2>1, <2>3, <3>2
    <3>. QED  BY <2>1, <3>1, <3>3, <3>4
  <2>. QED  BY <2>2, <2>3
<1>. QED  BY <1>2, <1>3, <1>5, SameElements DEF new

LEMMA TextStays ==
    ASSUME Inv, Inv', bytesRead' = bytesRead, \A i \in 0..(bytesRead - 1) : buffer'[i] = buffer[i]
    PROVE  Text' = Text
<1>1. /\ Text \in Seq(Byte) /\ Len(Text) = bytesRead /\ bytesRead \in Nat
      /\ \A i \in 1..bytesRead : Text[i] = buffer[i - 1]
  BY TextIsTheBuffer
<1>2. /\ Text' \in Seq(Byte) /\ Len(Text') = bytesRead
      /\ \A i \in 1..bytesRead : Text'[i] = buffer'[i - 1]
  BY NextTextIsTheBuffer
<1>. QED  BY <1>1, <1>2, SameElements

\* What the operations of LineEditor are, said of serial_poll's variables.
EditTo(s, c) ==
    /\ Reading
    /\ Text' = s
    /\ cursorPosition' = c
    /\ UNCHANGED <<len - 1, Reading>>

LEMMA LineOperations ==
    /\ cursorPosition < Len(Text) /\ EditTo(Text, cursorPosition + 1) => Line!Right
    /\ cursorPosition > 0 /\ EditTo(Text, cursorPosition - 1) => Line!Left
    /\ /\ Reading /\ ~ Reading'
       /\ Text' \in {Text, Append(Text, "LF")} /\ Len(Text') <= len - 1
       /\ UNCHANGED <<cursorPosition, len>>
       => Line!Finish
<1>1. cursorPosition < Len(Text) /\ EditTo(Text, cursorPosition + 1) => Line!Right
  <2>1. EditTo(Text, cursorPosition + 1) => Line!Edit(Text, cursorPosition + 1)
    BY Zenon DEF EditTo, Line!Edit, Text, Reading
  <2>. QED  BY <2>1, Zenon DEF Line!Right, Text
<1>2. cursorPosition > 0 /\ EditTo(Text, cursorPosition - 1) => Line!Left
  <2>1. EditTo(Text, cursorPosition - 1) => Line!Edit(Text, cursorPosition - 1)
    BY Zenon DEF EditTo, Line!Edit, Text, Reading
  <2>. QED  BY <2>1, Zenon DEF Line!Left, Text
<1>3. ASSUME Reading, ~ Reading', Text' \in {Text, Append(Text, "LF")}, Len(Text') <= len - 1,
             UNCHANGED <<cursorPosition, len>>
      PROVE  Line!Finish
  <2>1. UNCHANGED <<cursorPosition, len - 1>> /\ Reading' = FALSE
    BY <1>3 DEF Reading
  <2>. QED  BY <1>3, <2>1, Zenon DEF Line!Finish, Text, Reading
<1>. QED  BY <1>1, <1>2, <1>3

LEMMA InsertTypes == ASSUME Inv, Insert PROVE \E ch \in Printable : Line!Type(ch)
<1>1. PICK ch \in Printable :
         /\ Received(ch)
         /\ buffer' = [i \in DOMAIN buffer |->
                          CASE i < cursorPosition -> buffer[i]
                            [] i = cursorPosition -> ch
                            [] i > cursorPosition -> IF i <= bytesRead THEN buffer[i - 1] ELSE buffer[i]]
         /\ bytesRead' = bytesRead + 1
         /\ cursorPosition' = cursorPosition + 1
         /\ UNCHANGED at
  BY DEF Insert
<1>2. /\ Inv' /\ ch \in Byte
      /\ at = "poll" /\ len' = len /\ bytesRead + 1 <= len - 1
      /\ cursorPosition \in Nat /\ bytesRead \in Nat /\ cursorPosition <= bytesRead
  BY <1>1, ReceivedTypes, InsertKeepsInv
<1>3. \A i \in 0..(len - 1) :
         buffer'[i] = IF i < cursorPosition THEN buffer[i]
                      ELSE IF i = cursorPosition THEN ch
                      ELSE IF i <= bytesRead THEN buffer[i - 1] ELSE buffer[i]
  BY <1>1, <1>2 DEF Inv, SerialTypeOK
<1>4. cursorPosition + 1 \in 1..(bytesRead + 1) /\ (cursorPosition + 1) - 1 = cursorPosition
  BY <1>2
<1>5. \A i \in 0..bytesRead :
         buffer'[i] = IF i < (cursorPosition + 1) - 1 THEN buffer[i]
                      ELSE IF i = (cursorPosition + 1) - 1 THEN ch ELSE buffer[i - 1]
  <2>. TAKE i \in 0..bytesRead
  <2>1. i \in 0..(len - 1) /\ i <= bytesRead /\ len \in Nat
    BY <1>2, TextIsTheBuffer
  <2>. QED  BY <1>3, <1>4, <2>1
<1>6. Text' = InsertAt(Text, cursorPosition + 1, ch)
  BY <1>1, <1>2, <1>4, <1>5, GrowsAt
<1>7. Len(Text) < len - 1
  BY <1>2, TextIsTheBuffer
<1>. QED  BY <1>1, <1>2, <1>6, <1>7
          DEF Line!Type, Line!Edit, Line!InsertAt, InsertAt, Text

LEMMA BackspaceErases ==
    ASSUME Inv, Backspace
    PROVE  Line!Backspace \/ UNCHANGED <<Text, cursorPosition, len, Reading>>
<1>1. Received("DEL") /\ at' = at /\ Inv'
  BY BackspaceKeepsInv DEF Backspace
<1>2. at = "poll" /\ len' = len /\ cursorPosition \in Nat /\ bytesRead \in Nat
      /\ cursorPosition <= bytesRead
  BY <1>1, ReceivedTypes
<1>3. CASE cursorPosition > 0
  <2>1. /\ buffer' = ShiftFrom(cursorPosition - 1) /\ bytesRead' = bytesRead - 1
        /\ cursorPosition' = cursorPosition - 1
    BY <1>3 DEF Backspace
  <2>2. cursorPosition \in 1..bytesRead
    BY <1>2, <1>3
  <2>3. Text' = RemoveAt(Text, cursorPosition)
    BY <1>1, <2>1, <2>2, ShrinksAt
  <2>. QED  BY <1>1, <1>2, <1>3, <2>1, <2>3
            DEF Line!Backspace, Line!Edit, Line!RemoveAt, RemoveAt, Text
<1>4. CASE ~(cursorPosition > 0)
  <2>1. UNCHANGED <<buffer, bytesRead, cursorPosition>>
    BY <1>4 DEF Backspace
  <2>. QED  BY <1>1, <1>2, <2>1 DEF Text, Reading
<1>. QED  BY <1>3, <1>4

LEMMA DeleteErases ==
    ASSUME Inv, Delete
    PROVE  Line!Delete \/ UNCHANGED <<Text, cursorPosition, len, Reading>>
<1>1. Received("~") /\ at' = at /\ cursorPosition' = cursorPosition /\ Inv'
  BY DeleteKeepsInv DEF Delete
<1>2. at = "poll" /\ len' = len /\ cursorPosition \in Nat /\ bytesRead \in Nat
  BY <1>1, ReceivedTypes
<1>3. CASE cursorPosition < bytesRead
  <2>1. buffer' = ShiftFrom(cursorPosition) /\ bytesRead' = bytesRead - 1
    BY <1>3 DEF Delete
  <2>2. cursorPosition + 1 \in 1..bytesRead /\ (cursorPosition + 1) - 1 = cursorPosition
    BY <1>2, <1>3
  <2>3. Text' = RemoveAt(Text, cursorPosition + 1)
    BY <1>1, <2>1, <2>2, ShrinksAt
  <2>4. cursorPosition < Len(Text)
    BY <1>3, TextIsTheBuffer
  <2>. QED  BY <1>1, <1>2, <2>3, <2>4
            DEF Line!Delete, Line!Edit, Line!RemoveAt, RemoveAt, Text
<1>4. CASE ~(cursorPosition < bytesRead)
  <2>1. UNCHANGED <<buffer, bytesRead>>
    BY <1>4 DEF Delete
  <2>. QED  BY <1>1, <1>2, <2>1 DEF Text, Reading
<1>. QED  BY <1>3, <1>4

LEMMA ArrowMoves ==
    ASSUME Inv, ReadNext2
    PROVE  Line!Right \/ Line!Left \/ UNCHANGED <<Text, cursorPosition, len, Reading>>
<1>1. PICK b \in Byte : cursorPosition' = cursorPosition + ArrowStep(b)
  BY DEF ReadNext2
<1>2. /\ at = "next2" /\ at' = "poll" /\ len' = len /\ buffer' = buffer /\ bytesRead' = bytesRead
      /\ Text' = Text
  BY DEF ReadNext2, Text
<1>3. cursorPosition \in Nat /\ Len(Text) = bytesRead
  BY TextIsTheBuffer
<1>4. CASE cursorPosition < bytesRead /\ ArrowStep(b) = 1
  <2>1. EditTo(Text, cursorPosition + 1)
    BY <1>1, <1>2, <1>4 DEF EditTo, Reading
  <2>. QED  BY <1>3, <1>4, <2>1, LineOperations
<1>5. CASE cursorPosition > 0 /\ ArrowStep(b) = -1
  <2>1. EditTo(Text, cursorPosition - 1)
    BY <1>1, <1>2, <1>3, <1>5 DEF EditTo, Reading
  <2>. QED  BY <1>5, <2>1, LineOperations
<1>6. CASE ArrowStep(b) = 0
  BY <1>1, <1>2, <1>3, <1>6 DEF Reading
<1>. QED  BY <1>4, <1>5, <1>6 DEF ArrowStep

LEMMA LineEnds ==
    ASSUME Inv, Enter \/ LineFeed \/ BufferFull
    PROVE  Line!Finish
<1>1. /\ Text \in Seq(Byte) /\ Len(Text) = bytesRead /\ bytesRead \in Nat
      /\ len \in Nat \ {0} /\ bytesRead <= len - 1
      /\ \A i \in 1..bytesRead : Text[i] = buffer[i - 1]
  BY TextIsTheBuffer
<1>2. CASE Enter
  <2>1. /\ Received("CR") /\ at' = "end" /\ bytesRead' = bytesRead + 1
        /\ buffer' = [buffer EXCEPT ![bytesRead] = "LF"] /\ cursorPosition' = cursorPosition
    BY <1>2 DEF Enter
  <2>2. Inv' /\ at = "poll" /\ len' = len /\ bytesRead + 1 <= len - 1
    BY <1>2, <2>1, ReceivedTypes, EnterKeepsInv
  <2>3. /\ Text' \in Seq(Byte) /\ Len(Text') = bytesRead + 1
        /\ \A i \in 1..(bytesRead + 1) : Text'[i] = buffer'[i - 1]
    BY <2>1, <2>2, NextTextIsTheBuffer
  <2>4. "LF" \in Byte
    BY DEF Byte, Special
  <2>5. /\ Append(Text, "LF") \in Seq(Byte) /\ Len(Append(Text, "LF")) = bytesRead + 1
        /\ \A i \in 1..bytesRead : Append(Text, "LF")[i] = Text[i]
        /\ Append(Text, "LF")[bytesRead + 1] = "LF"
    BY <1>1, <2>4, AppendProperties
  <2>6. \A i \in 0..(len - 1) : buffer'[i] = IF i = bytesRead THEN "LF" ELSE buffer[i]
    BY <2>1 DEF Inv, SerialTypeOK
  <2>7. ASSUME NEW i \in 1..(bytesRead + 1) PROVE Text'[i] = Append(Text, "LF")[i]
    <3>1. i - 1 \in 0..(len - 1) /\ Text'[i] = buffer'[i - 1]
      BY <1>1, <2>2, <2>3
    <3>2. CASE i = bytesRead + 1
      BY <1>1, <2>5, <2>6, <3>1, <3>2
    <3>3. CASE i \in 1..bytesRead
      BY <1>1, <2>5, <2>6, <3>1, <3>3
    <3>. QED  BY <1>1, <3>2, <3>3
  <2>8. Text' = Append(Text, "LF")
    BY <2>3, <2>5, <2>7, SameElements
  <2>9. Len(Text') <= len - 1
    BY <2>2, <2>3
  <2>10. Reading /\ ~ Reading'
    BY <2>1, <2>2 DEF Reading
  <2>. QED  BY <2>1, <2>2, <2>8, <2>9, <2>10, LineOperations
<1>3. CASE LineFeed \/ BufferFull
  <2>1. /\ at = "poll" /\ at' = "end" /\ UNCHANGED <<buffer, bytesRead, cursorPosition, len>>
    BY <1>3 DEF LineFeed, BufferFull, Received, lineVars
  <2>2. Text' = Text /\ Len(Text') <= len - 1
    BY <1>1, <2>1 DEF Text
  <2>3. Reading /\ ~ Reading'
    BY <2>1 DEF Reading
  <2>. QED  BY <2>1, <2>2, <2>3, LineOperations
<1>. QED  BY <1>2, <1>3

LEMMA CallAsks == ASSUME Inv, Call PROVE Line!Ask
<1>1. PICK n \in Lens : len' = n
  BY DEF Call
<1>2. /\ at = "returned" /\ at' = "poll" /\ bytesRead' = 0 /\ cursorPosition' = 0
  BY DEF Call
<1>3. Inv'
  BY CallKeepsInv
<1>4. Text' = << >>
  <2>1. Text' \in Seq(Byte) /\ Len(Text') = 0
    BY <1>2, <1>3, NextTextIsTheBuffer
  <2>. QED  BY <2>1, EmptySeq
<1>. QED  BY <1>1, <1>2, <1>4 DEF Line!Ask, Text

\* What the device and the terminal do, and the rest of serial_poll, leaves the
\* line alone.
LEMMA LineStays ==
    ASSUME Inv, IgnoredByte \/ Escape \/ ReadNext1 \/ Return \/ Press \/ Arrive \/ UNCHANGED vars
    PROVE  UNCHANGED <<Text, cursorPosition, len, Reading>>
<1>1. CASE Return
  <2>1. /\ at = "end" /\ at' = "returned" /\ UNCHANGED <<len, bytesRead, cursorPosition>>
        /\ buffer' = [buffer EXCEPT ![bytesRead] = "NUL"]
    BY <1>1 DEF Return
  <2>2. Inv'
    BY <1>1, EndKeepsInv
  <2>3. \A i \in 0..(bytesRead - 1) : buffer'[i] = buffer[i]
    <3>1. \A i \in 0..(bytesRead - 1) : i \in 0..(len - 1) /\ i # bytesRead
      BY TextIsTheBuffer
    <3>. QED  BY <2>1, <3>1 DEF Inv, SerialTypeOK
  <2>4. Text' = Text
    BY <2>1, <2>2, <2>3, TextStays
  <2>. QED  BY <2>1, <2>4 DEF Reading
<1>2. CASE IgnoredByte \/ Escape \/ ReadNext1
  <2>1. /\ UNCHANGED <<buffer, bytesRead, cursorPosition, len>>
        /\ at' = at \/ (at \in {"poll", "next1"} /\ at' \in {"next1", "next2"})
    BY <1>2 DEF IgnoredByte, Escape, ReadNext1, Received, lineVars
  <2>. QED  BY <2>1 DEF Text, Reading
<1>3. CASE Press \/ Arrive \/ UNCHANGED vars
  <2>1. UNCHANGED <<buffer, bytesRead, cursorPosition, len, at>>
    BY <1>3 DEF Press, Arrive, vars, lineVars
  <2>. QED  BY <2>1 DEF Text, Reading
<1>. QED  BY <1>1, <1>2, <1>3

\* For every buffer size and whatever bytes arrive, the shifting loops of
\* serial_poll implement a line with a cursor in it: a step of the loop types or
\* erases one character at the cursor, moves the cursor by one, ends the line or
\* does nothing to it, and what the caller gets is the line as it was edited.
THEOREM PollEditsALine == Spec => EditsALine
<1>1. Init => Line!Init
  <2>1. SUFFICES ASSUME Init PROVE Line!Init
    OBVIOUS
  <2>2. at = "returned" /\ len = 1 /\ cursorPosition = 0 /\ bytesRead = 0
    BY <2>1 DEF Init
  <2>3. Text \in Seq(Byte) /\ Len(Text) = 0
    BY <2>1, <2>2, InitInv, TextIsTheBuffer
  <2>4. Text = << >>
    BY <2>3, EmptySeq
  <2>. QED  BY <2>2, <2>4 DEF Line!Init, Text
<1>2. Inv /\ [Next]_vars => [Line!Next]_Line!vars
  <2>. SUFFICES ASSUME Inv, [Next]_vars PROVE [Line!Next]_Line!vars
    OBVIOUS
  <2>1. UNCHANGED <<Text, cursorPosition, len, Reading>> => UNCHANGED Line!vars
    BY DEF Line!vars, Text, Reading
  <2>2. CASE Insert
    BY <2>2, InsertTypes DEF Line!Next
  <2>3. CASE Backspace
    BY <2>1, <2>3, BackspaceErases DEF Line!Next
  <2>4. CASE Delete
    BY <2>1, <2>4, DeleteErases DEF Line!Next
  <2>5. CASE ReadNext2
    BY <2>1, <2>5, ArrowMoves DEF Line!Next
  <2>6. CASE Enter \/ LineFeed \/ BufferFull
    BY <2>6, LineEnds DEF Line!Next
  <2>7. CASE Call
    BY <2>7, CallAsks DEF Line!Next
  <2>8. CASE IgnoredByte \/ Escape \/ ReadNext1 \/ Return \/ Press \/ Arrive \/ UNCHANGED vars
    BY <2>1, <2>8, LineStays
  <2>. QED  BY <2>2, <2>3, <2>4, <2>5, <2>6, <2>7, <2>8 DEF Next, PollStep
<1>. QED  BY <1>1, <1>2, Invariance, PTL DEF Spec, EditsALine, Line!Spec
=============================================================================
