----------------------------- MODULE TextProofs -----------------------------
(***************************************************************************)
(* Proofs about the way from what was typed to a command's arguments, for  *)
(* every text, line length and set of commands.                            *)
(***************************************************************************)
EXTENDS CommandText, SequenceTheorems, FiniteSetTheorems, WellFoundedInduction, TLAPS

(***************************************************************************)
(* The inductive invariant.                                                *)
(***************************************************************************)
\* What the buffer is whatever is in it.
IsBuffer(b) ==
    b \in Seq(Char \union {NUL}) /\ Len(b) = LineSize + 1 /\ b[LineSize + 1] = NUL

\* The buffer with the text t in it, after NULs were written at the places in S.
Cut(t, S) == [j \in 1..(LineSize + 1) |-> IF j \in S \/ j > Len(t) THEN NUL ELSE t[j]]

\* The line l is the command h, a space and, from a on, arguments.
Called(l, a, h) ==
    LET t == trim_input(l)
    IN  /\ a \in 2..Len(t)
        /\ t[a - 1] = Space
        /\ SubSeq(t, 1, a - 2) = Commands[h]
        /\ t[Len(t)] \notin {Space, Enter}

\* The first word of the arguments begins at p and ends before e.
FirstWord(t, a, p, e) ==
    /\ p \in a..Len(t)
    /\ e \in (p + 1)..(Len(t) + 1)
    /\ \A j \in a..(p - 1) : t[j] = Space
    /\ \A j \in p..(e - 1) : t[j] \notin Blank
    /\ e <= Len(t) => t[e] = Space

\* alarm has found the time, has kept it and found the message, has kept both.
AlarmTokens(t, e, p) ==
    \/ /\ tokens = << >> /\ token = p
       /\ tok_tmp = IF e <= Len(t) THEN e + 1 ELSE NULL
    \/ /\ tokens = <<p>> /\ tok_tmp = NULL
       /\ token = IF e <= Len(t) THEN e + 1 ELSE NULL
    \/ /\ tokens = <<p, e + 1>> /\ e <= Len(t)
       /\ token = NULL /\ tok_tmp = NULL

AlarmTakes ==
    LET t == trim_input(line)
    IN  /\ Called(line, args, "alarm")
        /\ \E p, e \in Nat : /\ FirstWord(t, args, p, e)
                             /\ buf = Cut(t, {args - 1, e})
                             /\ AlarmTokens(t, e, p)

AlarmAsks ==
    LET t == trim_input(line)
    IN  \E a, p, e \in Nat :
            /\ Called(line, a, "alarm")
            /\ FirstWord(t, a, p, e)
            /\ e <= Len(t)
            /\ asked.time = SubSeq(t, p, e - 1)
            /\ asked.message = SubSeq(t, e + 1, Len(t))

Stopped == Last(said) = Enter /\ (LastEntered = Yes \/ ~ Contains(line, Enter))

Reads ==
    /\ typed \in Seq(Char) /\ said \in Seq(Char) /\ line \in Seq(Char)
    /\ \A j \in 1..Len(line) : line[j] = Enter => j = Len(line)
    /\ at = "answer" => \E s \in Seq(Char) : said = s \o line

Takes ==
    /\ at = "call" => /\ handler \in {"setpcbprio", "alarm"}
                      /\ Called(line, args, handler)
                      /\ buf = Cut(trim_input(line), {args - 1})
                      /\ tokens = << >>
    /\ at = "tokens" => handler \in {"setpcbprio", "alarm"}
    /\ at = "tokens" /\ handler = "alarm" => AlarmTakes
    /\ asked.by = "alarm" => AlarmAsks

Stops ==
    /\ at = "off" => should_shutdown
    /\ should_shutdown => at \in {"end", "off"} /\ Stopped

TextInv ==
    /\ TextTypeOK
    /\ IsBuffer(buf)
    /\ Reads
    /\ Takes
    /\ Stops

\* The named characters are different ones, and only two of them are no text.
LEMMA CharsDiffer ==
    /\ Space # Enter /\ Space # NUL /\ Space # Tab /\ Enter # Tab /\ Enter # NUL /\ Tab # NUL
    /\ NUL \notin Char /\ Tab \notin Char
    /\ Blank = {Space, Tab, Enter} /\ NUL \notin Blank
<1>1. /\ Space # Enter /\ Space # NUL /\ Space # Tab /\ Enter # Tab /\ Enter # NUL /\ Tab # NUL
  BY Zenon DEF Space, Enter, NUL, Tab
<1>. QED  BY <1>1, Zenon DEF Char, Blank

(***************************************************************************)
(* The first and the last place at which something is so.                  *)
(***************************************************************************)
LEMMA MinIsLeast ==
    ASSUME NEW I \in SUBSET Nat, I # {}
    PROVE  Min(I) \in I /\ \A i \in I : Min(I) <= i
<1>1. PICK m \in I : \A y \in I : ~(<<y, m>> \in OpToRel(<, Nat))
  BY NatLessThanWellFounded, WFMin
<1>2. ASSUME NEW y \in I, y < m PROVE FALSE
  <2>1. y \in Nat /\ m \in Nat
    OBVIOUS
  <2>2. <<y, m>> \in OpToRel(<, Nat)
    BY <1>2, <2>1, Zenon DEF OpToRel
  <2>. QED  BY <1>1, <2>2
<1>3. \A y \in I : m <= y
  BY <1>2
<1>. QED  BY <1>3 DEF Min

\* The last place is one of them, and no other is behind it.
LEMMA MaxIsGreatest ==
    ASSUME NEW n \in Nat, NEW I \in SUBSET (0..n), I # {}
    PROVE  Max(I) \in I /\ \A i \in I : i <= Max(I)
<1>. DEFINE J == {n - i : i \in I}
            k == Min(J)
<1>1. \A i \in I : i \in 0..n /\ n - i \in Nat
  OBVIOUS
<1>2. J \in SUBSET Nat /\ J # {}
  BY <1>1
<1>3. k \in J /\ \A j \in J : k <= j
  <2>. HIDE DEF J
  <2>. QED  BY <1>2, MinIsLeast
<1>. HIDE DEF k
<1>4. PICK g \in I : k = n - g
  BY <1>3
<1>5. \A i \in I : k <= n - i
  BY <1>3
<1>6. \A i \in I : i <= g
  BY <1>1, <1>4, <1>5
<1>. QED  BY <1>1, <1>6 DEF Max

\* strtok stops at the first character that is in the set.
LEMMA FirstInIsFirst ==
    ASSUME NEW b, NEW from \in Nat, NEW set, Len(b) \in Nat,
           \E j \in from..Len(b) : b[j] \in set
    PROVE  /\ FirstIn(b, from, set) \in from..Len(b)
           /\ b[FirstIn(b, from, set)] \in set
           /\ \A j \in from..(FirstIn(b, from, set) - 1) : b[j] \notin set
<1>. DEFINE I == {j \in from..Len(b) : b[j] \in set}
            f == FirstIn(b, from, set)
<1>1. I \in SUBSET Nat /\ I # {}
  OBVIOUS
<1>2. f = Min(I)
  BY DEF FirstIn
<1>3. f \in I /\ \A i \in I : f <= i
  <2>. HIDE DEF I, f
  <2>. QED  BY <1>1, <1>2, MinIsLeast
<1>. HIDE DEF f
<1>4. /\ f \in from..Len(b) /\ b[f] \in set
      /\ \A j \in from..(f - 1) : ~ (b[j] \in set)
  BY <1>3
<1>. QED  BY <1>4 DEF f

\* The same for a character that is not in the set.
LEMMA FirstNotInIsFirst ==
    ASSUME NEW b, NEW from \in Nat, NEW set, Len(b) \in Nat,
           \E j \in from..Len(b) : b[j] \notin set
    PROVE  /\ FirstNotIn(b, from, set) \in from..Len(b)
           /\ b[FirstNotIn(b, from, set)] \notin set
           /\ \A j \in from..(FirstNotIn(b, from, set) - 1) : b[j] \in set
<1>. DEFINE I == {j \in from..Len(b) : b[j] \notin set}
            f == FirstNotIn(b, from, set)
<1>1. I \in SUBSET Nat /\ I # {}
  OBVIOUS
<1>2. f = Min(I)
  BY DEF FirstNotIn
<1>3. f \in I /\ \A i \in I : f <= i
  <2>. HIDE DEF I, f
  <2>. QED  BY <1>1, <1>2, MinIsLeast
<1>. HIDE DEF f
<1>4. /\ f \in from..Len(b) /\ b[f] \notin set
      /\ \A j \in from..(f - 1) : ~ (b[j] \notin set)
  BY <1>3
<1>. QED  BY <1>4 DEF f

\* A place that is the first is the one that is found.
LEMMA FoundAt ==
    ASSUME NEW b, NEW from \in Nat, NEW set, Len(b) \in Nat, NEW n \in from..Len(b),
           b[n] \in set, \A j \in from..(n - 1) : b[j] \notin set
    PROVE  FirstIn(b, from, set) = n
<1>. DEFINE f == FirstIn(b, from, set)
<1>1. f \in from..Len(b) /\ b[f] \in set /\ \A j \in from..(f - 1) : b[j] \notin set
  BY FirstInIsFirst
<1>. HIDE DEF f
<1>2. ~ f < n /\ ~ n < f
  BY <1>1
<1>. QED  BY <1>1, <1>2 DEF f

----------------------------------------------------------------------------
(***************************************************************************)
(* A line, and what trim_input leaves of it.                               *)
(***************************************************************************)
LEMMA LineIsRead ==
    ASSUME typed \in Seq(Char), NEW room \in Nat \ {0}, CanRead(room)
    PROVE  /\ Line(room) \in Seq(Char) /\ Len(Line(room)) \in 1..room
           /\ \A j \in 1..Len(Line(room)) : Line(room)[j] = Enter => j = Len(Line(room))
           /\ SubSeq(typed, Len(Line(room)) + 1, Len(typed)) \in Seq(Char)
<1>. DEFINE I == {room} \union {j \in DOMAIN typed : typed[j] = Enter}
            n == Min(I)
<1>1. Len(typed) \in Nat /\ DOMAIN typed = 1..Len(typed) /\ \A j \in 1..Len(typed) : typed[j] \in Char
  BY LenProperties
<1>2. n \in I /\ \A i \in I : n <= i
  <2>1. I \in SUBSET Nat /\ I # {}
    BY <1>1
  <2>. HIDE DEF I
  <2>. QED  BY <2>1, MinIsLeast
<1>. HIDE DEF n
<1>3. n \in 1..Len(typed) /\ n <= room /\ \A j \in 1..(n - 1) : typed[j] # Enter
  BY <1>1, <1>2 DEF CanRead, Contains
<1>4. Line(room) = SubSeq(typed, 1, n)
  BY DEF Line, n
<1>5. /\ SubSeq(typed, 1, n) \in Seq(Char) /\ Len(SubSeq(typed, 1, n)) = n
      /\ \A j \in 1..n : SubSeq(typed, 1, n)[j] = typed[j]
  <2>1. \A j \in 1..n : typed[j] \in Char
    BY <1>1, <1>3
  <2>2. n \in Int /\ 1 <= n /\ n - 1 + 1 = n
    BY <1>3
  <2>. QED  BY <2>1, <2>2, SubSeqProperties
<1>6. SubSeq(typed, n + 1, Len(typed)) \in Seq(Char)
  <2>1. n + 1 \in Int /\ Len(typed) \in Int /\ \A j \in (n + 1)..Len(typed) : typed[j] \in Char
    BY <1>1, <1>3
  <2>. QED  BY <2>1, SubSeqProperties
<1>7. \A j \in 1..n : typed[j] = Enter => j = n
  BY <1>3
<1>. QED  BY <1>3, <1>4, <1>5, <1>6, <1>7

\* The text t is the line l without what is taken off at the end.
Trims(t, l) ==
    /\ t \in Seq(Char) /\ Len(t) \in 1..Len(l)
    /\ \A j \in 1..Len(t) : t[j] = l[j]
    /\ \A j \in (Len(t) + 1)..Len(l) : l[j] \in {Space, Enter}
    /\ Len(t) > 1 => t[Len(t)] \notin {Space, Enter}

\* trim_input takes spaces and Enter off the end, and stops at the first character.
LEMMA TrimIsPrefix ==
    ASSUME NEW l \in Seq(Char), Len(l) > 0
    PROVE  Trims(trim_input(l), l)
<1>. DEFINE I == {1} \union {j \in DOMAIN l : l[j] \notin {Space, Enter}}
            m == Max(I)
<1>1. Len(l) \in Nat /\ DOMAIN l = 1..Len(l) /\ \A j \in 1..Len(l) : l[j] \in Char
  BY LenProperties
<1>2. m \in I /\ \A i \in I : i <= m
  <2>1. I \in SUBSET (0..Len(l)) /\ I # {}
    BY <1>1
  <2>. HIDE DEF I
  <2>. QED  BY <1>1, <2>1, MaxIsGreatest
<1>. HIDE DEF m
<1>3. /\ m \in 1..Len(l) /\ \A j \in (m + 1)..Len(l) : l[j] \in {Space, Enter}
      /\ m > 1 => l[m] \notin {Space, Enter}
  BY <1>1, <1>2
<1>4. trim_input(l) = SubSeq(l, 1, m)
  BY DEF trim_input, m
<1>5. /\ SubSeq(l, 1, m) \in Seq(Char) /\ Len(SubSeq(l, 1, m)) = m
      /\ \A j \in 1..m : SubSeq(l, 1, m)[j] = l[j]
  <2>1. \A j \in 1..m : l[j] \in Char
    BY <1>1, <1>3
  <2>2. m \in Int /\ 1 <= m /\ m - 1 + 1 = m
    BY <1>3
  <2>. QED  BY <2>1, <2>2, SubSeqProperties
<1>6. Trims(SubSeq(l, 1, m), l)
  BY <1>3, <1>5 DEF Trims
<1>. QED  BY <1>4, <1>6

\* A text in the buffer is as long as it, and ends with a NUL.
LEMMA CutIsABuffer ==
    ASSUME NEW t \in Seq(Char), Len(t) <= LineSize, NEW S
    PROVE  /\ IsBuffer(Cut(t, S))
           /\ \A j \in 1..(LineSize + 1) :
                  Cut(t, S)[j] = IF j \in S \/ j > Len(t) THEN NUL ELSE t[j]
<1>1. LineSize \in Nat /\ LineSize + 1 \in 1..(LineSize + 1)
  BY TextAssumption
<1>2. Len(t) \in Nat /\ \A j \in 1..Len(t) : t[j] \in Char
  BY LenProperties
<1>3. \A j \in 1..(LineSize + 1) : (IF j \in S \/ j > Len(t) THEN NUL ELSE t[j]) \in Char \union {NUL}
  <2>1. NUL \in Char \union {NUL} /\ \A j \in 1..Len(t) : t[j] \in Char \union {NUL}
    BY <1>2 DEF NUL, Char
  <2>2. \A j \in 1..(LineSize + 1) : ~ (j > Len(t)) => j \in 1..Len(t)
    BY <1>1, <1>2
  <2>. QED  BY <2>1, <2>2, Zenon
<1>4. Cut(t, S) \in Seq(Char \union {NUL}) /\ Len(Cut(t, S)) = LineSize + 1
  BY <1>1, <1>3 DEF Cut
<1>. QED  BY <1>1, <1>2, <1>4 DEF Cut, IsBuffer

----------------------------------------------------------------------------
(***************************************************************************)
(* strtok.                                                                 *)
(***************************************************************************)
LEMMA StrtokTypes ==
    ASSUME NEW b, IsBuffer(b), NEW tmp \in Pointer, NEW s \in Pointer, NEW d, NUL \notin d
    PROVE  LET r == strtok(b, tmp, s, d)
           IN  IsBuffer(r.buf) /\ r.tok_tmp \in Pointer /\ r.token \in Pointer
<1>. DEFINE r     == strtok(b, tmp, s, d)
            from  == IF s # NULL THEN s ELSE tmp
            start == FirstNotIn(b, from, d)
            end   == FirstIn(b, start, d \union {NUL})
<1>1. from \in Nat /\ from <= LineSize + 1 /\ LineSize \in Nat /\ Len(b) = LineSize + 1
  BY TextAssumption DEF Pointer, IsBuffer
<1>2. NULL \in Pointer
  BY <1>1 DEF Pointer, NULL
<1>3. start \in from..(LineSize + 1)
  <2>1. b[LineSize + 1] \notin d /\ LineSize + 1 \in from..Len(b) /\ Len(b) \in Nat
    BY <1>1 DEF IsBuffer
  <2>. HIDE DEF from
  <2>. QED  BY <1>1, <2>1, FirstNotInIsFirst
<1>4. end \in start..(LineSize + 1) /\ b[end] \in d \union {NUL}
  <2>1. start \in Nat /\ LineSize + 1 \in start..Len(b) /\ Len(b) \in Nat
    BY <1>1, <1>3
  <2>2. b[LineSize + 1] \in d \union {NUL}
    BY DEF IsBuffer
  <2>. HIDE DEF start
  <2>. QED  BY <1>1, <2>1, <2>2, FirstInIsFirst
<1>5. r = IF from = NULL \/ b[start] = NUL
          THEN [buf |-> b, tok_tmp |-> NULL, token |-> NULL]
          ELSE IF b[end] = NUL
          THEN [buf |-> b, tok_tmp |-> NULL, token |-> start]
          ELSE [buf |-> [b EXCEPT ![end] = NUL], tok_tmp |-> end + 1, token |-> start]
  BY DEF strtok
<1>. HIDE DEF r, from, start, end
<1>6. start \in Pointer
  BY <1>1, <1>3 DEF Pointer
<1>7. ASSUME b[end] # NUL, from # NULL
      PROVE  end + 1 \in Pointer /\ IsBuffer([b EXCEPT ![end] = NUL])
  <2>1. end \in 1..LineSize
    BY <1>1, <1>3, <1>4, <1>7 DEF IsBuffer, NULL
  <2>2. end \in 1..Len(b) /\ NUL \in Char \union {NUL} /\ b \in Seq(Char \union {NUL})
    BY <1>1, <2>1 DEF IsBuffer
  <2>3. /\ [b EXCEPT ![end] = NUL] \in Seq(Char \union {NUL})
        /\ Len([b EXCEPT ![end] = NUL]) = Len(b)
        /\ \A j \in 1..Len(b) : [b EXCEPT ![end] = NUL][j] = IF j = end THEN NUL ELSE b[j]
    BY <2>2, ExceptSeq
  <2>4. LineSize + 1 \in 1..Len(b)
    BY <1>1
  <2>. QED  BY <1>1, <2>1, <2>3, <2>4 DEF IsBuffer, Pointer
<1>8. IsBuffer(r.buf) /\ r.tok_tmp \in Pointer /\ r.token \in Pointer
  BY <1>2, <1>5, <1>6, <1>7
<1>. QED  BY <1>8 DEF r

\* A line as it was read, and the text in it.
IsLine(l, t) ==
    /\ l \in Seq(Char) /\ Len(l) <= LineSize
    /\ \A j \in 1..Len(l) : l[j] = Enter => j = Len(l)
    /\ Trims(t, l)

\* Of all the blanks, only spaces are left in the text, none of them at its end.
LEMMA BlanksAreSpaces ==
    ASSUME NEW l, NEW t, IsLine(l, t), Len(t) > 1
    PROVE  /\ t \in Seq(Char) /\ Len(t) \in Nat /\ Len(t) <= LineSize /\ LineSize \in Nat
           /\ \A j \in 1..Len(t) : t[j] \in Char /\ t[j] # NUL
           /\ \A j \in 1..Len(t) : t[j] \in Blank => t[j] = Space
           /\ t[Len(t)] \notin Blank
<1>1. t \in Seq(Char) /\ Len(t) \in Nat /\ Len(t) <= Len(l) /\ Len(l) <= LineSize /\ LineSize \in Nat
      /\ Len(l) \in Nat
  BY LenProperties, TextAssumption DEF IsLine, Trims
<1>2. \A j \in 1..Len(t) : t[j] \in Char
  BY <1>1, LenProperties
<1>3. t[Len(t)] \notin {Space, Enter} /\ Len(t) \in 1..Len(t)
  BY <1>1 DEF IsLine, Trims
<1>4. \A j \in 1..Len(t) : t[j] # Enter
  <2>1. ASSUME NEW j \in 1..Len(t), t[j] = Enter PROVE FALSE
    <3>1. j \in 1..Len(l) /\ l[j] = Enter
      BY <1>1, <2>1 DEF IsLine, Trims
    <3>2. j = Len(l) /\ Len(l) = Len(t)
      BY <1>1, <3>1 DEF IsLine
    <3>. QED  BY <1>3, <2>1, <3>2
  <2>. QED  BY <2>1
<1>. QED  BY <1>1, <1>2, <1>3, <1>4, CharsDiffer

\* With t in the buffer, cut at the places in S, r is what strtok does for the
\* first word from a on.
FindsWord(t, S, a, r) ==
    \E p, e \in Nat : /\ FirstWord(t, a, p, e)
                      /\ r = [buf |-> Cut(t, S \union {e}), token |-> p,
                              tok_tmp |-> IF e <= Len(t) THEN e + 1 ELSE NULL]

\* A call of strtok finds the first word from where it begins, be that the
\* arguments or what the call before has left.
LEMMA WordIsFound ==
    ASSUME NEW l, NEW t, IsLine(l, t), NEW a \in 2..Len(t), NEW S, \A j \in a..Len(t) : j \notin S,
           NEW s, NEW tmp, (IF s # NULL THEN s ELSE tmp) = a
    PROVE  FindsWord(t, S, a, strtok(Cut(t, S), tmp, s, Blank))
<1>. DEFINE b == Cut(t, S)
            p == FirstNotIn(b, a, Blank)
            e == FirstIn(b, p, Blank \union {NUL})
<1>0. Len(t) \in Nat
  BY LenProperties DEF IsLine, Trims
<1>1. /\ t \in Seq(Char) /\ Len(t) > 1 /\ Len(t) <= LineSize /\ LineSize \in Nat
      /\ \A j \in 1..Len(t) : t[j] \in Char /\ t[j] # NUL
      /\ \A j \in 1..Len(t) : t[j] \in Blank => t[j] = Space
      /\ t[Len(t)] \notin Blank
  BY <1>0, BlanksAreSpaces
<1>2. /\ Len(b) = LineSize + 1
      /\ \A j \in 1..(LineSize + 1) : b[j] = IF j \in S \/ j > Len(t) THEN NUL ELSE t[j]
  BY <1>1, CutIsABuffer DEF IsBuffer
<1>. HIDE DEF b
<1>3. \A j \in a..Len(t) : j \in 1..Len(t) /\ b[j] = t[j]
  BY <1>0, <1>1, <1>2
<1>4. b[Len(t) + 1] = NUL
  <2>1. Len(t) + 1 \in 1..(LineSize + 1) /\ Len(t) + 1 > Len(t)
    BY <1>0, <1>1
  <2>. QED  BY <1>2, <2>1
<1>5. p \in a..Len(t) /\ t[p] \notin Blank /\ \A j \in a..(p - 1) : t[j] \in Blank
  <2>1. a \in Nat /\ Len(b) \in Nat /\ Len(t) \in a..Len(b) /\ b[Len(t)] \notin Blank
    BY <1>0, <1>1, <1>2, <1>3
  <2>2. p \in a..Len(b) /\ b[p] \notin Blank /\ \A j \in a..(p - 1) : b[j] \in Blank
    BY <2>1, FirstNotInIsFirst
  <2>. HIDE DEF p
  <2>3. p <= Len(t)
    BY <1>0, <2>1, <2>2
  <2>. QED  BY <1>0, <1>3, <2>2, <2>3
<1>6. /\ e \in p..(Len(t) + 1) /\ b[e] \in Blank \union {NUL}
      /\ \A j \in p..(e - 1) : b[j] \notin Blank \union {NUL}
  <2>1. p \in Nat /\ Len(b) \in Nat /\ Len(t) + 1 \in p..Len(b) /\ b[Len(t) + 1] \in Blank \union {NUL}
    BY <1>0, <1>1, <1>2, <1>4, <1>5
  <2>. HIDE DEF p
  <2>2. /\ e \in p..Len(b) /\ b[e] \in Blank \union {NUL}
        /\ \A j \in p..(e - 1) : b[j] \notin Blank \union {NUL}
    BY <2>1, FirstInIsFirst
  <2>. HIDE DEF e
  <2>3. e <= Len(t) + 1
    BY <1>0, <2>1, <2>2
  <2>. QED  BY <1>0, <2>2, <2>3
<1>7. strtok(b, tmp, s, Blank) =
          IF a = NULL \/ b[p] = NUL
          THEN [buf |-> b, tok_tmp |-> NULL, token |-> NULL]
          ELSE IF b[e] = NUL
          THEN [buf |-> b, tok_tmp |-> NULL, token |-> p]
          ELSE [buf |-> [b EXCEPT ![e] = NUL], tok_tmp |-> e + 1, token |-> p]
  <2>1. (IF s # NULL THEN s ELSE tmp) = a
    OBVIOUS
  <2>2. strtok(b, tmp, s, Blank) =
            LET from  == IF s # NULL THEN s ELSE tmp
                start == FirstNotIn(b, from, Blank)
                end   == FirstIn(b, start, Blank \union {NUL})
            IN  IF from = NULL \/ b[start] = NUL
                THEN [buf |-> b, tok_tmp |-> NULL, token |-> NULL]
                ELSE IF b[end] = NUL
                THEN [buf |-> b, tok_tmp |-> NULL, token |-> start]
                ELSE [buf |-> [b EXCEPT ![end] = NUL], tok_tmp |-> end + 1, token |-> start]
    BY DEF strtok
  <2>. QED  BY <2>1, <2>2, Zenon
<1>. HIDE DEF p, e
<1>8. a # NULL /\ b[p] # NUL /\ b[p] = t[p]
  BY <1>1, <1>3, <1>5 DEF NULL
<1>9. e \in (p + 1)..(Len(t) + 1) /\ (e <= Len(t) => t[e] = Space /\ b[e] # NUL)
  <2>1. e # p
    BY <1>5, <1>6, <1>8
  <2>2. ASSUME e <= Len(t) PROVE t[e] = Space /\ b[e] # NUL
    <3>1. e \in a..Len(t) /\ e \in 1..Len(t)
      BY <1>0, <1>5, <1>6, <2>2
    <3>2. b[e] = t[e] /\ t[e] # NUL
      BY <1>1, <1>3, <3>1
    <3>. QED  BY <1>1, <1>6, <3>1, <3>2
  <2>. QED  BY <1>0, <1>5, <1>6, <2>1, <2>2
<1>10. FirstWord(t, a, p, e)
  <2>1. \A j \in a..(p - 1) : t[j] = Space
    BY <1>0, <1>1, <1>5
  <2>2. ASSUME NEW j \in p..(e - 1) PROVE t[j] \notin Blank
    BY <1>0, <1>3, <1>5, <1>6, <1>9, <2>2
  <2>. QED  BY <1>5, <1>9, <2>1, <2>2 DEF FirstWord
<1>. DEFINE IsFound ==
                strtok(Cut(t, S), tmp, s, Blank) =
                    [buf |-> Cut(t, S \union {e}), token |-> p,
                     tok_tmp |-> IF e <= Len(t) THEN e + 1 ELSE NULL]
<1>11. p \in Nat /\ e \in Nat
  BY <1>0, <1>5, <1>9
<1>12. CASE e <= Len(t)
  <2>1. [b EXCEPT ![e] = NUL] = Cut(t, S \union {e})
    BY DEF b, Cut
  <2>2. strtok(b, tmp, s, Blank) =
            [buf |-> Cut(t, S \union {e}), token |-> p, tok_tmp |-> e + 1]
    BY <1>7, <1>8, <1>9, <1>12, <2>1
  <2>3. IsFound
    BY <1>12, <2>2 DEF b
  <2>. QED  BY <1>11, <1>10, <2>3, Zenon DEF FindsWord
<1>13. CASE ~ e <= Len(t)
  <2>1. e = Len(t) + 1
    BY <1>0, <1>9, <1>13
  <2>2. \A j \in 1..(LineSize + 1) :
            (j \in S \/ j > Len(t)) <=> (j \in S \union {e} \/ j > Len(t))
    BY <1>0, <2>1
  <2>3. b = Cut(t, S \union {e})
    BY <2>2 DEF b, Cut
  <2>4. strtok(b, tmp, s, Blank) = [buf |-> Cut(t, S \union {e}), token |-> p, tok_tmp |-> NULL]
    BY <1>4, <1>7, <1>8, <2>1, <2>3
  <2>5. IsFound
    BY <1>13, <2>4 DEF b
  <2>. QED  BY <1>11, <1>10, <2>5, Zenon DEF FindsWord
<1>. QED  BY <1>12, <1>13

\* Texts that agree between two places have the same piece there.
LEMMA SamePiece ==
    ASSUME NEW S, NEW s, NEW t, NEW m \in Int, NEW n \in Int,
           \A i \in m..n : s[i] = t[i] /\ t[i] \in S
    PROVE  SubSeq(s, m, n) = SubSeq(t, m, n)
<1>1. /\ SubSeq(s, m, n) \in Seq(S)
      /\ Len(SubSeq(s, m, n)) = IF m <= n THEN n - m + 1 ELSE 0
      /\ \A i \in 1..(n - m + 1) : SubSeq(s, m, n)[i] = s[m + i - 1]
  <2>1. \A i \in m..n : s[i] \in S
    OBVIOUS
  <2>. QED  BY <2>1, SubSeqProperties
<1>2. /\ SubSeq(t, m, n) \in Seq(S)
      /\ Len(SubSeq(t, m, n)) = IF m <= n THEN n - m + 1 ELSE 0
      /\ \A i \in 1..(n - m + 1) : SubSeq(t, m, n)[i] = t[m + i - 1]
  <2>1. \A i \in m..n : t[i] \in S
    OBVIOUS
  <2>. QED  BY <2>1, SubSeqProperties
<1>3. ASSUME NEW i \in 1..Len(SubSeq(s, m, n))
      PROVE  SubSeq(s, m, n)[i] = SubSeq(t, m, n)[i]
  <2>1. i \in 1..(n - m + 1) /\ (m + i - 1) \in m..n
    BY <1>1
  <2>. QED  BY <1>1, <1>2, <2>1
<1>4. Len(SubSeq(s, m, n)) = Len(SubSeq(t, m, n))
  BY <1>1, <1>2
<1>. QED  BY <1>1, <1>2, <1>3, <1>4, SeqEqual

\* What the buffer is when the first word has been found, and what follows.
FindsRest(t, b, p, e) ==
    /\ CString(b, p) = SubSeq(t, p, e - 1)
    /\ e <= Len(t) => /\ e + 1 <= Len(t)
                      /\ CString(b, e + 1) = SubSeq(t, e + 1, Len(t))
                      /\ strtok(b, e + 1, NULL, {Tab, Enter}) =
                             [buf |-> b, token |-> e + 1, tok_tmp |-> NULL]

\* After the first call of strtok, the time and the message are what is in the line.
LEMMA MessageIsFound ==
    ASSUME NEW l, NEW t, IsLine(l, t), NEW a \in 2..Len(t), NEW p \in Nat, NEW e \in Nat,
           FirstWord(t, a, p, e)
    PROVE  FindsRest(t, Cut(t, {a - 1, e}), p, e)
<1>. DEFINE b == Cut(t, {a - 1, e})
<1>0. Len(t) \in Nat
  BY LenProperties DEF IsLine, Trims
<1>1. /\ t \in Seq(Char) /\ Len(t) > 1 /\ Len(t) <= LineSize /\ LineSize \in Nat
      /\ \A j \in 1..Len(t) : t[j] \in Char /\ t[j] # NUL
      /\ \A j \in 1..Len(t) : t[j] \in Blank => t[j] = Space
      /\ t[Len(t)] \notin Blank
  BY <1>0, BlanksAreSpaces
<1>2. /\ Len(b) = LineSize + 1
      /\ \A j \in 1..(LineSize + 1) : b[j] = IF j \in {a - 1, e} \/ j > Len(t) THEN NUL ELSE t[j]
  BY <1>1, CutIsABuffer DEF IsBuffer
<1>3. p \in a..Len(t) /\ e \in (p + 1)..(Len(t) + 1) /\ (e <= Len(t) => t[e] = Space)
  BY DEF FirstWord
<1>. HIDE DEF b
<1>4. /\ \A j \in p..(e - 1) : b[j] = t[j] /\ t[j] \in Char /\ t[j] # NUL
      /\ b[e] = NUL /\ b[Len(t) + 1] = NUL
      /\ \A j \in (e + 1)..Len(t) : b[j] = t[j] /\ t[j] \in Char /\ t[j] # NUL
  <2>1. /\ e \in 1..(LineSize + 1) /\ Len(t) + 1 \in 1..(LineSize + 1) /\ Len(t) + 1 > Len(t)
        /\ \A j \in p..(e - 1) : j \in 1..Len(t) /\ j \in 1..(LineSize + 1) /\ ~ (j > Len(t))
                                   /\ j \notin {a - 1, e}
        /\ \A j \in (e + 1)..Len(t) : j \in 1..Len(t) /\ j \in 1..(LineSize + 1) /\ ~ (j > Len(t))
                                        /\ j \notin {a - 1, e}
    BY <1>0, <1>1, <1>3
  <2>. QED  BY <1>1, <1>2, <2>1
<1>5. CString(b, p) = SubSeq(t, p, e - 1)
  <2>1. FirstIn(b, p, {NUL}) = e
    <3>1. Len(b) \in Nat /\ e \in p..Len(b) /\ p \in Nat
      BY <1>0, <1>1, <1>2, <1>3
    <3>2. b[e] \in {NUL} /\ \A j \in p..(e - 1) : b[j] \notin {NUL}
      BY <1>4
    <3>. QED  BY <3>1, <3>2, FoundAt
  <2>2. CString(b, p) = SubSeq(b, p, e - 1)
    BY <2>1 DEF CString
  <2>3. SubSeq(b, p, e - 1) = SubSeq(t, p, e - 1)
    <3>1. p \in Int /\ e - 1 \in Int /\ \A j \in p..(e - 1) : b[j] = t[j] /\ t[j] \in Char
      BY <1>4
    <3>. QED  BY <3>1, SamePiece
  <2>. QED  BY <2>2, <2>3
<1>6. ASSUME e <= Len(t)
      PROVE  /\ e + 1 <= Len(t)
             /\ CString(b, e + 1) = SubSeq(t, e + 1, Len(t))
             /\ strtok(b, e + 1, NULL, {Tab, Enter}) =
                    [buf |-> b, token |-> e + 1, tok_tmp |-> NULL]
  <2>1. e + 1 <= Len(t)
    <3>1. e # Len(t)
      BY <1>1, <1>3, <1>6, CharsDiffer
    <3>. QED  BY <1>0, <1>6, <3>1
  <2>2. Len(b) \in Nat /\ e + 1 \in Nat /\ Len(t) + 1 \in (e + 1)..Len(b)
    BY <1>0, <1>1, <1>2, <2>1
  <2>3. \A j \in (e + 1)..(Len(t) + 1 - 1) : b[j] = t[j] /\ t[j] \in Char /\ t[j] # NUL
    BY <1>0, <1>4
  <2>4. FirstIn(b, e + 1, {NUL}) = Len(t) + 1
    <3>1. b[Len(t) + 1] \in {NUL} /\ \A j \in (e + 1)..(Len(t) + 1 - 1) : b[j] \notin {NUL}
      BY <1>4, <2>3
    <3>. QED  BY <2>2, <3>1, FoundAt
  <2>5. CString(b, e + 1) = SubSeq(t, e + 1, Len(t))
    <3>. DEFINE f == FirstIn(b, e + 1, {NUL})
    <3>1. CString(b, e + 1) = SubSeq(b, e + 1, f - 1)
      BY DEF CString
    <3>. HIDE DEF f
    <3>2. f - 1 = Len(t) /\ e + 1 \in Int /\ Len(t) \in Int
      BY <1>0, <2>4 DEF f
    <3>3. SubSeq(b, e + 1, Len(t)) = SubSeq(t, e + 1, Len(t))
      BY <1>4, <3>2, SamePiece
    <3>. QED  BY <3>1, <3>2, <3>3
  <2>6. \A j \in (e + 1)..Len(t) : t[j] \notin {Tab, Enter}
    <3>1. ASSUME NEW j \in (e + 1)..Len(t) PROVE t[j] \notin {Tab, Enter}
      <4>1. j \in 1..Len(t)
        BY <1>0, <3>1
      <4>. QED  BY <1>1, <4>1, CharsDiffer
    <3>. QED  BY <3>1
  <2>7. FirstNotIn(b, e + 1, {Tab, Enter}) = e + 1
    <3>. DEFINE f == FirstNotIn(b, e + 1, {Tab, Enter})
    <3>1. e + 1 \in (e + 1)..Len(t) /\ e + 1 \in (e + 1)..Len(b) /\ b[e + 1] \notin {Tab, Enter}
      <4>1. e + 1 \in (e + 1)..Len(t) /\ e + 1 \in (e + 1)..Len(b)
        BY <1>0, <2>1, <2>2
      <4>. QED  BY <1>4, <2>6, <4>1
    <3>2. f \in (e + 1)..Len(b) /\ \A j \in (e + 1)..(f - 1) : b[j] \in {Tab, Enter}
      BY <2>2, <3>1, FirstNotInIsFirst
    <3>. HIDE DEF f
    <3>3. ~ e + 1 < f
      BY <3>1, <3>2
    <3>4. f = e + 1
      BY <2>2, <3>2, <3>3
    <3>. QED  BY <3>4 DEF f
  <2>8. FirstIn(b, e + 1, {Tab, Enter} \union {NUL}) = Len(t) + 1
    <3>1. /\ b[Len(t) + 1] \in {Tab, Enter} \union {NUL}
          /\ \A j \in (e + 1)..(Len(t) + 1 - 1) : b[j] \notin {Tab, Enter} \union {NUL}
      <4>1. Len(t) + 1 - 1 = Len(t)
        BY <1>0
      <4>. QED  BY <1>4, <2>6, <4>1
    <3>. QED  BY <2>2, <3>1, FoundAt
  <2>9. strtok(b, e + 1, NULL, {Tab, Enter}) =
            [buf |-> b, token |-> e + 1, tok_tmp |-> NULL]
    <3>1. (IF NULL # NULL THEN NULL ELSE e + 1) = e + 1 /\ e + 1 # NULL
      BY DEF NULL
    <3>2. strtok(b, e + 1, NULL, {Tab, Enter}) =
            LET from  == IF NULL # NULL THEN NULL ELSE e + 1
                start == FirstNotIn(b, from, {Tab, Enter})
                end   == FirstIn(b, start, {Tab, Enter} \union {NUL})
            IN  IF from = NULL \/ b[start] = NUL
                THEN [buf |-> b, tok_tmp |-> NULL, token |-> NULL]
                ELSE IF b[end] = NUL
                THEN [buf |-> b, tok_tmp |-> NULL, token |-> start]
                ELSE [buf |-> [b EXCEPT ![end] = NUL], tok_tmp |-> end + 1, token |-> start]
      BY DEF strtok
    <3>3. e + 1 \in (e + 1)..Len(t)
      BY <1>0, <2>1
    <3>4. b[e + 1] # NUL
      BY <1>4, <3>3
    <3>5. strtok(b, e + 1, NULL, {Tab, Enter}) =
              IF e + 1 = NULL \/ b[e + 1] = NUL
              THEN [buf |-> b, tok_tmp |-> NULL, token |-> NULL]
              ELSE IF b[Len(t) + 1] = NUL
              THEN [buf |-> b, tok_tmp |-> NULL, token |-> e + 1]
              ELSE [buf |-> [b EXCEPT ![Len(t) + 1] = NUL], tok_tmp |-> Len(t) + 1 + 1,
                    token |-> e + 1]
      BY <2>7, <2>8, <3>1, <3>2, Zenon
    <3>. QED  BY <1>4, <3>1, <3>4, <3>5
  <2>. QED  BY <2>1, <2>5, <2>9
<1>. QED  BY <1>5, <1>6, Zenon DEF b, FindsRest

\* Without a place to go on from, strtok finds nothing and writes nothing.
LEMMA NothingIsLeft ==
    ASSUME NEW b, NEW d
    PROVE  strtok(b, NULL, NULL, d) = [buf |-> b, token |-> NULL, tok_tmp |-> NULL]
BY DEF strtok

\* What comhand splits at is the first space.
LEMMA FirstSpace ==
    ASSUME NEW b, Len(b) \in Nat, SelectInSeq(b, LAMBDA c : c = Space) # 0
    PROVE  /\ SelectInSeq(b, LAMBDA c : c = Space) \in 1..Len(b)
           /\ b[SelectInSeq(b, LAMBDA c : c = Space)] = Space
           /\ \A i \in 1..(SelectInSeq(b, LAMBDA c : c = Space) - 1) : b[i] # Space
<1>. DEFINE I == {i \in 1..Len(b) : b[i] = Space}
            k == SelectInSeq(b, LAMBDA c : c = Space)
<1>1. k = IF I # {} THEN Min(I) ELSE 0
  BY DEF SelectInSeq
<1>2. I \in SUBSET Nat
  OBVIOUS
<1>3. k # 0
  OBVIOUS
<1>. HIDE DEF k
<1>4. k \in I /\ \A i \in I : k <= i
  <2>. HIDE DEF I
  <2>. QED  BY <1>1, <1>2, <1>3, MinIsLeast
<1>5. k \in 1..Len(b) /\ b[k] = Space /\ \A i \in 1..(k - 1) : b[i] # Space
  <2>1. k \in 1..Len(b) /\ b[k] = Space
    BY <1>4
  <2>2. ASSUME NEW i \in 1..(k - 1), b[i] = Space PROVE FALSE
    <3>1. i \in I /\ ~ (k <= i)
      BY <2>1, <2>2
    <3>. QED  BY <1>4, <3>1
  <2>. QED  BY <2>1, <2>2
<1>. QED  BY <1>5 DEF k

\* The line is split behind a command.
LEMMA CommandIsSplit ==
    ASSUME NEW l, NEW t, IsLine(l, t), NEW k \in 1..(LineSize + 1), InBuffer(t)[k] = Space,
           \A i \in 1..(k - 1) : InBuffer(t)[i] # Space
    PROVE  /\ k \in 1..Len(t) /\ t[k] = Space
           /\ [InBuffer(t) EXCEPT ![k] = NUL] = Cut(t, {k})
           /\ CString(Cut(t, {k}), 1) = SubSeq(t, 1, k - 1)
<1>1. /\ t \in Seq(Char) /\ Len(t) \in Nat /\ Len(t) <= LineSize /\ LineSize \in Nat
      /\ \A j \in 1..Len(t) : t[j] \in Char
  BY LenProperties, TextAssumption DEF IsLine, Trims
<1>2. /\ Len(InBuffer(t)) = LineSize + 1
      /\ \A j \in 1..(LineSize + 1) : InBuffer(t)[j] = IF j <= Len(t) THEN t[j] ELSE NUL
  BY <1>1 DEF InBuffer
<1>3. k \in 1..Len(t) /\ t[k] = Space
  BY <1>1, <1>2, CharsDiffer
<1>4. \A i \in 1..(k - 1) : t[i] # Space /\ t[i] \in Char /\ t[i] # NUL
  <2>1. ASSUME NEW i \in 1..(k - 1) PROVE t[i] # Space /\ t[i] \in Char /\ t[i] # NUL
    <3>1. i \in 1..Len(t) /\ i \in 1..(LineSize + 1) /\ i <= Len(t)
      BY <1>1, <1>3, <2>1
    <3>. QED  BY <1>1, <1>2, <3>1, CharsDiffer
  <2>. QED  BY <2>1
<1>5. [InBuffer(t) EXCEPT ![k] = NUL] = Cut(t, {k})
  <2>1. \A j \in 1..(LineSize + 1) : j <= Len(t) <=> ~ (j > Len(t))
    BY <1>1
  <2>. QED  BY <2>1 DEF InBuffer, Cut
<1>6. CString(Cut(t, {k}), 1) = SubSeq(t, 1, k - 1)
  <2>. DEFINE b == Cut(t, {k})
  <2>1. /\ Len(b) = LineSize + 1
        /\ \A j \in 1..(LineSize + 1) : b[j] = IF j \in {k} \/ j > Len(t) THEN NUL ELSE t[j]
    BY <1>1, CutIsABuffer DEF IsBuffer
  <2>. HIDE DEF b
  <2>2. b[k] = NUL /\ \A i \in 1..(k - 1) : b[i] = t[i]
    <3>1. /\ k \in 1..(LineSize + 1)
          /\ \A i \in 1..(k - 1) : i \in 1..(LineSize + 1) /\ i # k /\ ~ (i > Len(t))
      BY <1>1, <1>3
    <3>. QED  BY <2>1, <3>1
  <2>3. FirstIn(b, 1, {NUL}) = k
    <3>1. Len(b) \in Nat /\ k \in 1..Len(b) /\ 1 \in Nat
      BY <1>1, <1>3, <2>1
    <3>2. b[k] \in {NUL} /\ \A i \in 1..(k - 1) : b[i] \notin {NUL}
      BY <1>4, <2>2
    <3>. QED  BY <3>1, <3>2, FoundAt
  <2>4. SubSeq(b, 1, k - 1) = SubSeq(t, 1, k - 1)
    <3>1. 1 \in Int /\ k - 1 \in Int /\ \A i \in 1..(k - 1) : b[i] = t[i] /\ t[i] \in Char
      BY <1>3, <1>4, <2>2
    <3>. QED  BY <3>1, SamePiece
  <2>. QED  BY <2>3, <2>4 DEF CString, b
<1>. QED  BY <1>3, <1>5, <1>6

----------------------------------------------------------------------------
(***************************************************************************)
(* The steps.                                                              *)
(***************************************************************************)
LEMMA TextBegins == Init => TextInv
<1>. SUFFICES ASSUME Init PROVE TextInv
  OBVIOUS
<1>1. << >> \in Seq(Char) /\ Len(<< >>) = 0 /\ LineSize \in Nat
  BY TextAssumption
<1>2. InBuffer(<< >>) = Cut(<< >>, {})
  <2>1. \A j \in 1..(LineSize + 1) : ~ j <= 0 /\ j > 0
    BY <1>1
  <2>. QED  BY <1>1, <2>1 DEF InBuffer, Cut
<1>3. IsBuffer(buf)
  <2>1. Len(<< >>) <= LineSize
    BY <1>1
  <2>2. IsBuffer(Cut(<< >>, {}))
    BY <1>1, <2>1, CutIsABuffer
  <2>. QED  BY <1>2, <2>2 DEF Init
<1>4. typed \in Seq(Char)
  BY TextAssumption DEF Init
<1>5. TextTypeOK
  <2>1. NULL \in Pointer
    BY <1>1 DEF Pointer, NULL
  <2>2. << >> \in Seq(Pointer \ {NULL}) /\ Len(<< >>) <= LineSize
    BY <1>1
  <2>. QED  BY <1>3, <2>1, <2>2 DEF TextTypeOK, Init, IsBuffer
<1>. QED  BY <1>1, <1>3, <1>4, <1>5 DEF Init, TextInv, Reads, Takes, Stops

\* What is read is the last that has been said.
LEMMA ReadIsSaid ==
    ASSUME TextInv, NEW room \in Nat \ {0}, CanRead(room), Read(room)
    PROVE  /\ Line(room) \in Seq(Char) /\ Len(Line(room)) \in 1..room
           /\ \A j \in 1..Len(Line(room)) : Line(room)[j] = Enter => j = Len(Line(room))
           /\ typed' \in Seq(Char) /\ said' \in Seq(Char) /\ said' = said \o Line(room)
<1>1. typed \in Seq(Char) /\ said \in Seq(Char)
  BY DEF TextInv, Reads
<1>2. said' = said \o Line(room) /\ typed' = SubSeq(typed, Len(Line(room)) + 1, Len(typed))
  BY DEF Read
<1>3. Line(room) \in Seq(Char)
  BY <1>1, LineIsRead
<1>4. said \o Line(room) \in Seq(Char)
  BY <1>1, <1>3, ConcatProperties
<1>. QED  BY <1>1, <1>2, <1>4, LineIsRead

\* A line is read, trimmed, split and looked up.
LEMMA CommandIsRead ==
    ASSUME TextInv, ReadCommand
    PROVE  TextInv'
<1>. DEFINE l     == Line(LineSize)
            t     == trim_input(l)
            text  == InBuffer(t)
            k     == SelectInSeq(text, LAMBDA c : c = Space)
            split == IF k = 0 THEN text ELSE [text EXCEPT ![k] = NUL]
            found == {h \in DOMAIN Commands : CString(split, 1) = Commands[h]}
<1>1. /\ LineSize \in Nat \ {0} /\ CanRead(LineSize) /\ Read(LineSize) /\ at = "prompt"
      /\ line' = l /\ buf' = split /\ args' = IF k = 0 THEN NULL ELSE k + 1
      /\ \/ found = {} /\ handler' = "none" /\ at' = "end"
         \/ /\ handler' \in found
            /\ at' = IF handler' = "shutdown" THEN "answer"
                     ELSE IF args' = NULL THEN "end" ELSE "call"
      /\ tokens' = << >> /\ asked' = [by |-> "none"]
      /\ tok_tmp' = tok_tmp /\ token' = token /\ should_shutdown' = should_shutdown
  BY TextAssumption DEF ReadCommand
<1>2. /\ l \in Seq(Char) /\ Len(l) \in 1..LineSize
      /\ \A j \in 1..Len(l) : l[j] = Enter => j = Len(l)
      /\ typed' \in Seq(Char) /\ said' \in Seq(Char) /\ said' = said \o l /\ said \in Seq(Char)
  BY <1>1, ReadIsSaid DEF TextInv, Reads
<1>3. IsLine(l, t)
  <2>1. Len(l) > 0 /\ Len(l) <= LineSize
    BY <1>1, <1>2
  <2>. QED  BY <1>2, <2>1, TrimIsPrefix DEF IsLine
<1>. HIDE DEF l
<1>4. t \in Seq(Char) /\ Len(t) \in Nat /\ Len(t) <= LineSize
  BY <1>1, <1>2, <1>3 DEF IsLine, Trims
<1>. HIDE DEF t
<1>5. Len(text) = LineSize + 1 /\ LineSize + 1 \in Nat /\ IsBuffer(text)
  <2>1. \A j \in 1..(LineSize + 1) : j <= Len(t) <=> ~ (j > Len(t))
    BY <1>1, <1>4
  <2>2. text = Cut(t, {})
    BY <2>1 DEF InBuffer, Cut
  <2>. HIDE DEF text
  <2>. QED  BY <1>1, <1>4, <2>2, CutIsABuffer DEF IsBuffer
<1>6. k # 0 => k \in 1..Len(text) /\ text[k] = Space /\ \A i \in 1..(k - 1) : text[i] # Space
  BY <1>5, FirstSpace
<1>. HIDE DEF k
<1>7. k # 0 => /\ k \in 1..Len(t) /\ t[k] = Space /\ split = Cut(t, {k})
               /\ CString(split, 1) = SubSeq(t, 1, k - 1)
  <2>. SUFFICES ASSUME k # 0
                PROVE  /\ k \in 1..Len(t) /\ t[k] = Space /\ split = Cut(t, {k})
                       /\ CString(split, 1) = SubSeq(t, 1, k - 1)
    OBVIOUS
  <2>1. k \in 1..(LineSize + 1) /\ InBuffer(t)[k] = Space /\ \A i \in 1..(k - 1) : InBuffer(t)[i] # Space
    BY <1>5, <1>6
  <2>2. /\ k \in 1..Len(t) /\ t[k] = Space /\ [text EXCEPT ![k] = NUL] = Cut(t, {k})
        /\ CString(Cut(t, {k}), 1) = SubSeq(t, 1, k - 1)
    BY <1>3, <2>1, CommandIsSplit
  <2>3. split = [text EXCEPT ![k] = NUL]
    OBVIOUS
  <2>. QED  BY <2>2, <2>3
<1>8. IsBuffer(buf') /\ args' \in Pointer
  <2>1. CASE k = 0
    BY <1>1, <1>5, <2>1 DEF Pointer, NULL
  <2>2. CASE k # 0
    <3>1. IsBuffer(split)
      BY <1>4, <1>7, <2>2, CutIsABuffer
    <3>2. k + 1 \in Pointer
      BY <1>1, <1>4, <1>7, <2>2 DEF Pointer
    <3>. QED  BY <1>1, <2>2, <3>1, <3>2
  <2>. QED  BY <2>1, <2>2
<1>. HIDE DEF text, split, found
<1>9. /\ handler' \in {"none"} \union DOMAIN Commands
      /\ at' = "answer" => handler' = "shutdown"
      /\ at' \in {"end", "answer", "call"}
      /\ at' = "call" => /\ handler' \in DOMAIN Commands /\ handler' # "shutdown" /\ k # 0
                         /\ CString(split, 1) = Commands[handler']
  BY <1>1 DEF found
<1>10. TextTypeOK'
  <2>1. Len(line') <= LineSize /\ tokens' \in Seq(Pointer \ {NULL})
    BY <1>1, <1>2
  <2>. QED  BY <1>1, <1>8, <1>9, <2>1 DEF TextTypeOK, TextInv, IsBuffer
<1>11. Reads'
  BY <1>1, <1>2, <1>9 DEF Reads
<1>12. ASSUME at' = "call"
       PROVE  /\ handler' \in {"setpcbprio", "alarm"}
              /\ Called(l, args', handler')
              /\ buf' = Cut(t, {args' - 1})
  <2>1. handler' \in {"setpcbprio", "alarm"} /\ k # 0
    BY <1>9, <1>12, TextAssumption
  <2>2. args' = k + 1 /\ args' - 1 = k /\ args' - 2 = k - 1
    BY <1>1, <1>7, <2>1
  <2>3. SubSeq(t, 1, k - 1) = Commands[handler'] /\ Commands[handler'] # << >>
    BY <1>7, <1>9, <1>12, TextAssumption
  <2>4. k > 1
    <3>1. k \in Int /\ k >= 1
      BY <1>7, <2>1
    <3>2. SubSeq(t, 1, 0) = << >>
      BY SubSeqEmpty
    <3>. QED  BY <2>3, <3>1, <3>2
  <2>5. t[Len(t)] \notin {Space, Enter}
    BY <1>3, <1>4, <1>7, <2>1, <2>4 DEF IsLine, Trims
  <2>6. args' \in 2..Len(t)
    <3>1. k # Len(t)
      BY <1>7, <2>1, <2>5
    <3>. QED  BY <1>4, <1>7, <2>1, <2>2, <3>1
  <2>7. Called(l, args', handler')
    BY <1>7, <2>1, <2>2, <2>3, <2>5, <2>6 DEF Called, t
  <2>. QED  BY <1>1, <1>7, <2>1, <2>2, <2>7
<1>13. Takes'
  BY <1>1, <1>9, <1>12 DEF Takes, t
<1>14. Stops'
  BY <1>1, <1>9 DEF Stops, TextInv
<1>. QED  BY <1>8, <1>10, <1>11, <1>13, <1>14 DEF TextInv

\* The tokens of an alarm.
LEMMA TwoTokens ==
    ASSUME NEW x \in Nat, NEW y \in Nat
    PROVE  Append(<<x>>, y) = <<x, y>>
<1>1. <<x>> \in Seq(Nat) /\ <<x, y>> \in Seq(Nat) /\ Len(<<x>>) = 1 /\ Len(<<x, y>>) = 2
  OBVIOUS
<1>2. /\ Append(<<x>>, y) \in Seq(Nat) /\ Len(Append(<<x>>, y)) = 2
      /\ Append(<<x>>, y)[1] = <<x>>[1] /\ Append(<<x>>, y)[2] = y
  BY <1>1, AppendProperties
<1>3. <<x>>[1] = x /\ <<x, y>>[1] = x /\ <<x, y>>[2] = y
  OBVIOUS
<1>4. \A i \in 1..2 : Append(<<x>>, y)[i] = <<x, y>>[i]
  <2>1. \A i \in 1..2 : i = 1 \/ i = 2
    OBVIOUS
  <2>. QED  BY <1>2, <1>3, <2>1, Zenon
<1>. QED  BY <1>1, <1>2, <1>4, SeqEqual

\* A line that calls a command is one, and so is what is trimmed of it.
LEMMA CallIsALine ==
    ASSUME TextInv, NEW a, NEW h, Called(line, a, h)
    PROVE  IsLine(line, trim_input(line))
<1>1. line \in Seq(Char) /\ Len(line) \in Nat /\ Len(line) <= LineSize
      /\ \A j \in 1..Len(line) : line[j] = Enter => j = Len(line)
  BY LenProperties DEF TextInv, Reads, TextTypeOK
<1>2. ASSUME Len(line) = 0 PROVE FALSE
  <2>. DEFINE m == Max({1} \union {j \in DOMAIN line : line[j] \notin {Space, Enter}})
              t == trim_input(line)
  <2>1. line = << >>
    BY <1>1, <1>2, EmptySeq
  <2>2. {1} \union {j \in DOMAIN line : line[j] \notin {Space, Enter}} = {1}
    BY <2>1
  <2>3. m = 1
    <3>1. {1} \in SUBSET (0..1) /\ {1} # {} /\ 1 \in Nat
      OBVIOUS
    <3>2. Max({1}) \in {1}
      BY <3>1, MaxIsGreatest
    <3>. QED  BY <2>2, <3>2
  <2>4. t = SubSeq(line, 1, 1)
    BY <2>3 DEF trim_input
  <2>5. Len(SubSeq(line, 1, 1)) = 1
    <3>1. \A i \in 1..1 : line[i] \in {line[1]}
      OBVIOUS
    <3>. QED  BY <3>1, SubSeqProperties
  <2>. QED  BY <2>4, <2>5 DEF Called
<1>. QED  BY <1>1, <1>2, TrimIsPrefix DEF IsLine

\* The first call of strtok finds the time that alarm keeps.
LEMMA FirstTokenIsTaken ==
    ASSUME TextInv, FirstToken
    PROVE  TextInv'
<1>. DEFINE t == trim_input(line)
            r == strtok(buf, tok_tmp, args, Blank)
<1>1. /\ at = "call" /\ at' = "tokens"
      /\ buf' = r.buf /\ tok_tmp' = r.tok_tmp /\ token' = r.token
      /\ typed' = typed /\ said' = said /\ line' = line /\ args' = args /\ handler' = handler
      /\ tokens' = tokens /\ asked' = asked /\ should_shutdown' = should_shutdown
  BY Zenon DEF FirstToken, Strtok
<1>2. /\ handler \in {"setpcbprio", "alarm"} /\ Called(line, args, handler)
      /\ buf = Cut(t, {args - 1}) /\ tokens = << >>
  BY <1>1 DEF TextInv, Takes
<1>3. IsBuffer(buf') /\ tok_tmp' \in Pointer /\ token' \in Pointer
  <2>1. IsBuffer(buf) /\ tok_tmp \in Pointer /\ args \in Pointer
    BY DEF TextInv, TextTypeOK
  <2>. QED  BY <1>1, <2>1, StrtokTypes, CharsDiffer, Zenon
<1>4. FindsWord(t, {args - 1}, args, r)
  <2>1. IsLine(line, t) /\ args \in 2..Len(t)
    BY <1>2, CallIsALine DEF Called
  <2>. HIDE DEF t
  <2>2. (IF args # NULL THEN args ELSE tok_tmp) = args /\ \A j \in args..Len(t) : j \notin {args - 1}
    BY <2>1 DEF NULL
  <2>3. FindsWord(t, {args - 1}, args, strtok(Cut(t, {args - 1}), tok_tmp, args, Blank))
    BY <2>1, <2>2, WordIsFound
  <2>. QED  BY <1>2, <2>3, Zenon
<1>. HIDE DEF t, r
<1>5. \E p, e \in Nat : /\ FirstWord(t, args, p, e)
                        /\ buf' = Cut(t, {args - 1, e})
                        /\ AlarmTokens(t, e, p)'
  <2>1. PICK p \in Nat, e \in Nat :
            /\ FirstWord(t, args, p, e)
            /\ r = [buf |-> Cut(t, {args - 1} \union {e}), token |-> p,
                    tok_tmp |-> IF e <= Len(t) THEN e + 1 ELSE NULL]
    BY <1>4 DEF FindsWord
  <2>2. buf' = Cut(t, {args - 1, e}) /\ token' = p /\ tokens' = << >>
        /\ tok_tmp' = IF e <= Len(t) THEN e + 1 ELSE NULL
    <3>1. {args - 1} \union {e} = {args - 1, e}
      OBVIOUS
    <3>. QED  BY <1>1, <1>2, <2>1, <3>1
  <2>3. t' = t
    BY <1>1 DEF t, trim_input
  <2>4. AlarmTokens(t, e, p)'
    BY <2>2, <2>3 DEF AlarmTokens
  <2>. QED  BY <2>1, <2>2, <2>4
<1>6. handler = "alarm" => AlarmTakes'
  BY <1>1, <1>2, <1>5 DEF AlarmTakes, t
<1>7. TextTypeOK'
  BY <1>1, <1>3 DEF TextTypeOK, TextInv, IsBuffer
<1>8. Reads' /\ Stops'
  BY <1>1 DEF TextInv, Reads, Stops
<1>9. (asked.by = "alarm" => AlarmAsks)'
  BY <1>1, Zenon DEF TextInv, Takes, AlarmAsks
<1>10. Takes'
  BY <1>1, <1>2, <1>6, <1>9 DEF Takes
<1>. QED  BY <1>3, <1>7, <1>8, <1>10 DEF TextInv

\* The calls in the loop find the message, then nothing.
LEMMA NextTokenIsTaken ==
    ASSUME TextInv, NextToken
    PROVE  TextInv'
<1>. DEFINE t == trim_input(line)
            d == Separators(handler)
            r == strtok(buf, tok_tmp, NULL, d)
<1>1. /\ at = "tokens" /\ at' = at /\ token # NULL /\ Len(tokens) < 2
      /\ tokens' = Append(tokens, token)
      /\ buf' = r.buf /\ tok_tmp' = r.tok_tmp /\ token' = r.token
      /\ typed' = typed /\ said' = said /\ line' = line /\ args' = args /\ handler' = handler
      /\ asked' = asked /\ should_shutdown' = should_shutdown
  BY Zenon DEF NextToken, Strtok
<1>2. IsBuffer(buf') /\ tok_tmp' \in Pointer /\ token' \in Pointer
  <2>1. IsBuffer(buf) /\ tok_tmp \in Pointer
    BY DEF TextInv, TextTypeOK
  <2>2. NUL \notin d
    BY CharsDiffer DEF Separators
  <2>3. NULL \in Pointer
    BY TextAssumption DEF Pointer, NULL
  <2>. HIDE DEF d
  <2>. QED  BY <1>1, <2>1, <2>2, <2>3, StrtokTypes, Zenon
<1>. HIDE DEF r
<1>3. tokens' \in Seq(Pointer \ {NULL})
  <2>1. tokens \in Seq(Pointer \ {NULL}) /\ token \in Pointer \ {NULL}
    BY <1>1 DEF TextInv, TextTypeOK
  <2>. QED  BY <1>1, <2>1, AppendProperties
<1>4. ASSUME handler = "alarm" PROVE AlarmTakes'
  <2>1. Called(line, args, "alarm")
    BY <1>1, <1>4 DEF TextInv, Takes, AlarmTakes
  <2>2. PICK p \in Nat, e \in Nat : /\ FirstWord(t, args, p, e) /\ buf = Cut(t, {args - 1, e})
                                    /\ AlarmTokens(t, e, p)
    BY <1>1, <1>4 DEF TextInv, Takes, AlarmTakes
  <2>3. IsLine(line, t) /\ args \in 2..Len(t)
    BY <2>1, CallIsALine DEF Called
  <2>4. d = {Tab, Enter}
    BY <1>4 DEF Separators
  <2>. HIDE DEF t, d
  <2>5. buf' = buf /\ AlarmTokens(t, e, p)'
    <3>1. CASE tokens = << >> /\ token = p /\ tok_tmp = IF e <= Len(t) THEN e + 1 ELSE NULL
      <4>1. tokens' = <<p>>
        BY <1>1, <3>1
      <4>2. CASE e <= Len(t)
        <5>1. strtok(buf, e + 1, NULL, {Tab, Enter}) =
                  [buf |-> buf, token |-> e + 1, tok_tmp |-> NULL]
          <6>1. FindsRest(t, buf, p, e)
            BY <2>2, <2>3, MessageIsFound
          <6>. QED  BY <4>2, <6>1 DEF FindsRest
        <5>2. r = [buf |-> buf, token |-> e + 1, tok_tmp |-> NULL]
          BY <2>4, <3>1, <4>2, <5>1 DEF r
        <5>. QED  BY <1>1, <4>1, <4>2, <5>2 DEF AlarmTokens, t
      <4>3. CASE ~ e <= Len(t)
        <5>1. r = [buf |-> buf, token |-> NULL, tok_tmp |-> NULL]
          BY <3>1, <4>3, NothingIsLeft DEF r
        <5>. QED  BY <1>1, <4>1, <4>3, <5>1 DEF AlarmTokens, t
      <4>. QED  BY <4>2, <4>3
    <3>2. CASE tokens = <<p>> /\ tok_tmp = NULL /\ token = IF e <= Len(t) THEN e + 1 ELSE NULL
      <4>1. r = [buf |-> buf, token |-> NULL, tok_tmp |-> NULL]
        BY <3>2, NothingIsLeft DEF r
      <4>2. e <= Len(t) /\ tokens' = <<p, e + 1>>
        <5>1. e <= Len(t) /\ token = e + 1
          BY <1>1, <3>2
        <5>2. Append(<<p>>, e + 1) = <<p, e + 1>>
          BY TwoTokens
        <5>. QED  BY <1>1, <3>2, <5>1, <5>2
      <4>. QED  BY <1>1, <4>1, <4>2 DEF AlarmTokens, t
    <3>. QED  BY <1>1, <2>2, <3>1, <3>2 DEF AlarmTokens
  <2>. QED  BY <1>1, <2>1, <2>2, <2>5 DEF AlarmTakes, t
<1>5. TextTypeOK'
  BY <1>1, <1>2, <1>3 DEF TextTypeOK, TextInv, IsBuffer
<1>6. Reads' /\ Stops'
  BY <1>1 DEF TextInv, Reads, Stops
<1>7. (asked.by = "alarm" => AlarmAsks)'
  BY <1>1, Zenon DEF TextInv, Takes, AlarmAsks
<1>8. Takes'
  BY <1>1, <1>4, <1>7 DEF Takes, TextInv
<1>. QED  BY <1>2, <1>5, <1>6, <1>8 DEF TextInv

\* The commands' functions end; alarm has asked for the time and the message.
LEMMA RequestIsMade ==
    ASSUME TextInv, SetPriority \/ SetAlarm \/ Refuse
    PROVE  TextInv'
<1>1. /\ at = "tokens" /\ at' = "end" /\ NoMoreTokens
      /\ typed' = typed /\ said' = said /\ line' = line /\ args' = args /\ handler' = handler
      /\ buf' = buf /\ tok_tmp' = tok_tmp /\ token' = token /\ tokens' = tokens
      /\ should_shutdown' = should_shutdown
  BY DEF SetPriority, SetAlarm, Refuse, Finished, NoMoreTokens, tokVars
<1>2. TextTypeOK' /\ IsBuffer(buf')
  BY <1>1 DEF TextTypeOK, TextInv
<1>3. Reads' /\ Stops'
  BY <1>1 DEF TextInv, Reads, Stops
<1>4. CASE SetPriority
  <2>1. asked'.by = "setpcbprio"
    BY <1>4 DEF SetPriority
  <2>2. Takes'
    BY <1>1, <2>1 DEF Takes
  <2>. QED  BY <1>2, <1>3, <2>2 DEF TextInv
<1>5. CASE Refuse
  <2>1. asked' = asked
    BY <1>5 DEF Refuse
  <2>2. (asked.by = "alarm" => AlarmAsks)'
    BY <1>1, <2>1, Zenon DEF TextInv, Takes, AlarmAsks
  <2>3. Takes'
    BY <1>1, <2>2 DEF Takes
  <2>. QED  BY <1>2, <1>3, <2>3 DEF TextInv
<1>6. CASE SetAlarm
  <2>. DEFINE t == trim_input(line)
  <2>1. /\ Len(tokens) = 2 /\ handler = "alarm"
        /\ asked' = [by |-> "alarm", time |-> Token(1), message |-> Token(2)]
    BY <1>6 DEF SetAlarm
  <2>2. Called(line, args, "alarm")
    BY <1>1, <2>1 DEF TextInv, Takes, AlarmTakes
  <2>3. PICK p \in Nat, e \in Nat : /\ FirstWord(t, args, p, e) /\ buf = Cut(t, {args - 1, e})
                                    /\ AlarmTokens(t, e, p)
    BY <1>1, <2>1 DEF TextInv, Takes, AlarmTakes
  <2>4. IsLine(line, t) /\ args \in 2..Len(t)
    BY <2>2, CallIsALine DEF Called
  <2>. HIDE DEF t
  <2>5. tokens = <<p, e + 1>> /\ e <= Len(t)
    <3>1. Len(<< >>) # 2 /\ Len(<<p>>) # 2
      OBVIOUS
    <3>. QED  BY <2>1, <2>3, <3>1, Zenon DEF AlarmTokens
  <2>6. Token(1) = SubSeq(t, p, e - 1) /\ Token(2) = SubSeq(t, e + 1, Len(t))
    <3>1. FindsRest(t, buf, p, e)
      BY <2>3, <2>4, MessageIsFound
    <3>2. tokens[1] = p /\ tokens[2] = e + 1
      BY <2>5
    <3>. QED  BY <2>5, <3>1, <3>2 DEF FindsRest, Token
  <2>7. asked'.time = SubSeq(t, p, e - 1) /\ asked'.message = SubSeq(t, e + 1, Len(t))
    BY <2>1, <2>6
  <2>8. args \in Nat
    <3>. HIDE DEF t
    <3>. QED  BY <2>4, LenProperties DEF IsLine, Trims
  <2>9. AlarmAsks'
    <3>1. trim_input(line') = t
      BY <1>1 DEF t
    <3>2. Called(line', args, "alarm")
      BY <1>1, <2>2
    <3>. QED  BY <2>3, <2>5, <2>7, <2>8, <3>1, <3>2, Zenon DEF AlarmAsks
  <2>10. Takes'
    BY <1>1, <2>9 DEF Takes
  <2>. QED  BY <1>2, <1>3, <2>10 DEF TextInv
<1>. QED  BY <1>4, <1>5, <1>6

\* A piece that agrees with a text everywhere is that text.
LEMMA PieceIsAll ==
    ASSUME NEW s, NEW n \in Nat, NEW y \in Seq(Char), \A i \in 1..Len(y) : s[n + i] = y[i]
    PROVE  SubSeq(s, n + 1, n + Len(y)) = y
<1>1. Len(y) \in Nat /\ \A i \in 1..Len(y) : y[i] \in Char
  BY LenProperties
<1>2. ASSUME NEW j \in (n + 1)..(n + Len(y)) PROVE s[j] \in Char
  <2>1. j - n \in 1..Len(y) /\ n + (j - n) = j
    BY <1>1
  <2>. QED  BY <1>1, <2>1
<1>3. /\ SubSeq(s, n + 1, n + Len(y)) \in Seq(Char)
      /\ Len(SubSeq(s, n + 1, n + Len(y))) =
             IF n + 1 <= n + Len(y) THEN n + Len(y) - (n + 1) + 1 ELSE 0
      /\ \A i \in 1..(n + Len(y) - (n + 1) + 1) :
             SubSeq(s, n + 1, n + Len(y))[i] = s[n + 1 + i - 1]
  <2>1. n + 1 \in Int /\ n + Len(y) \in Int
    BY <1>1
  <2>. QED  BY <1>2, <2>1, SubSeqProperties
<1>4. Len(SubSeq(s, n + 1, n + Len(y))) = Len(y) /\ n + Len(y) - (n + 1) + 1 = Len(y)
  BY <1>1, <1>3, SMTT(20)
<1>5. ASSUME NEW i \in 1..Len(y) PROVE SubSeq(s, n + 1, n + Len(y))[i] = y[i]
  <2>1. n + 1 + i - 1 = n + i
    OBVIOUS
  <2>. QED  BY <1>3, <1>4, <2>1
<1>. QED  BY <1>3, <1>4, <1>5, SeqEqual

\* An answer that confirms is a line of its own, unless the command's was cut.
LEMMA AnswerIsRead ==
    ASSUME TextInv, ReadAnswer
    PROVE  TextInv'
<1>. DEFINE room == Len(Yes) + 1
            l    == Line(room)
<1>1. /\ at = "answer" /\ at' = "end" /\ CanRead(room) /\ Read(room)
      /\ should_shutdown' = Confirms(l)
      /\ line' = line /\ args' = args /\ handler' = handler /\ asked' = asked
      /\ buf' = buf /\ tok_tmp' = tok_tmp /\ token' = token /\ tokens' = tokens
  BY DEF ReadAnswer, tokVars
<1>2. Yes \in Seq(Char \ {Enter}) /\ Yes \in Seq(Char) /\ Len(Yes) \in Nat /\ room \in Nat \ {0}
      /\ \A j \in 1..Len(Yes) : Yes[j] # Enter /\ Yes[j] \in Char
  <2>1. Yes \in Seq(Char \ {Enter})
    BY TextAssumption
  <2>. HIDE DEF room
  <2>2. Len(Yes) \in Nat /\ \A j \in 1..Len(Yes) : Yes[j] \in Char \ {Enter}
    BY <2>1, LenProperties
  <2>3. Yes \in Seq(Char)
    BY <2>1
  <2>. QED  BY <2>1, <2>2, <2>3 DEF room
<1>. HIDE DEF room
<1>3. /\ l \in Seq(Char) /\ Len(l) \in 1..room
      /\ typed' \in Seq(Char) /\ said' \in Seq(Char) /\ said' = said \o l
  BY <1>1, <1>2, ReadIsSaid
<1>. HIDE DEF l
<1>4. PICK s \in Seq(Char) : said = s \o line
  BY <1>1 DEF TextInv, Reads
<1>5. line \in Seq(Char) /\ Len(line) \in Nat /\ Len(s) \in Nat
      /\ \A j \in 1..Len(line) : line[j] = Enter => j = Len(line)
  BY LenProperties DEF TextInv, Reads
<1>6. TextTypeOK' /\ IsBuffer(buf')
  <2>1. should_shutdown' \in BOOLEAN
    BY <1>1 DEF Confirms
  <2>. QED  BY <1>1, <2>1 DEF TextTypeOK, TextInv
<1>7. Reads'
  BY <1>1, <1>3 DEF TextInv, Reads
<1>8. (asked.by = "alarm" => AlarmAsks)'
  BY <1>1, Zenon DEF TextInv, Takes, AlarmAsks
<1>9. Takes'
  BY <1>1, <1>8 DEF Takes
<1>10. ASSUME Confirms(l) PROVE Stopped'
  <2>1. l = Append(Yes, Enter)
    BY <1>10 DEF Confirms
  <2>2. Yes \in Seq(Char \union {Enter}) /\ Enter \in Char \union {Enter}
    BY <1>2
  <2>3. /\ Len(l) = Len(Yes) + 1 /\ l[Len(Yes) + 1] = Enter
        /\ \A i \in 1..Len(Yes) : l[i] = Yes[i]
    BY <2>1, <2>2, AppendProperties
  <2>4. /\ Len(said) = Len(s) + Len(line)
        /\ \A i \in 1..Len(line) : said[Len(s) + i] = line[i]
    BY <1>4, <1>5, ConcatProperties
  <2>5. said \in Seq(Char)
    BY DEF TextInv, Reads
  <2>6. /\ Len(said') = Len(said) + Len(Yes) + 1 /\ Len(said) \in Nat
        /\ \A i \in 1..Len(said) : said'[i] = said[i]
        /\ \A i \in 1..Len(Yes) : said'[Len(said) + i] = Yes[i]
        /\ said'[Len(said) + Len(Yes) + 1] = Enter
    <3>1. /\ Len(said') = Len(said) + Len(l) /\ Len(said) \in Nat
          /\ \A i \in 1..(Len(said) + Len(l)) :
                 said'[i] = IF i <= Len(said) THEN said[i] ELSE l[i - Len(said)]
      BY <1>3, <2>5, ConcatProperties, LenProperties
    <3>2. Len(said') = Len(said) + Len(Yes) + 1 /\ Len(said) \in Nat
      BY <1>2, <2>3, <3>1
    <3>3. \A i \in 1..Len(said) : said'[i] = said[i]
      BY <1>2, <2>3, <3>1
    <3>4. \A i \in 1..(Len(Yes) + 1) : said'[Len(said) + i] = l[i]
      <4>1. ASSUME NEW i \in 1..(Len(Yes) + 1) PROVE said'[Len(said) + i] = l[i]
        <5>1. /\ Len(said) + i \in 1..(Len(said) + Len(l)) /\ ~ Len(said) + i <= Len(said)
              /\ (Len(said) + i) - Len(said) = i
          BY <1>2, <2>3, <3>1
        <5>. QED  BY <3>1, <5>1
      <4>. QED  BY <4>1
    <3>. QED  BY <1>2, <2>3, <3>2, <3>3, <3>4
  <2>7. Last(said') = Enter
    BY <2>6 DEF Last
  <2>8. ASSUME Contains(line, Enter) PROVE LastEntered' = Yes
    <3>. DEFINE ends == {k \in 1..(Len(said') - 1) : said'[k] = Enter}
                n == Len(said)
    <3>1. n \in Nat /\ n \in {0} \union ends
      <4>1. PICK i \in 1..Len(line) : line[i] = Enter
        BY <2>8 DEF Contains
      <4>2. i = Len(line)
        BY <1>5, <4>1
      <4>3. n = Len(s) + i /\ n \in Nat /\ n > 0
        BY <1>5, <2>4, <4>2
      <4>4. said[n] = Enter
        BY <2>4, <4>1, <4>3
      <4>. QED  BY <1>2, <2>6, <4>3, <4>4
    <3>2. \A k \in {0} \union ends : k <= n
      <4>1. ASSUME NEW k \in ends, k > n PROVE FALSE
        <5>1. k - n \in 1..Len(Yes) /\ n + (k - n) = k
          BY <1>2, <2>6, <4>1
        <5>2. said'[k] = Yes[k - n]
          BY <2>6, <5>1
        <5>. QED  BY <1>2, <4>1, <5>1, <5>2
      <4>2. \A k \in ends : k \in Int
        OBVIOUS
      <4>. QED  BY <3>1, <4>1, <4>2
    <3>3. Max({0} \union ends) = n
      <4>1. {0} \union ends \in SUBSET (0..Len(said')) /\ Len(said') \in Nat
        BY <1>2, <2>6
      <4>. DEFINE E == {0} \union ends
      <4>2. E \in SUBSET (0..Len(said')) /\ E # {} /\ n \in E /\ \A k \in E : k <= n
        BY <3>1, <3>2, <4>1
      <4>. HIDE DEF E, n
      <4>3. Max(E) \in E /\ \A k \in E : k <= Max(E)
        BY <4>1, <4>2, MaxIsGreatest
      <4>4. Max(E) \in Int /\ n \in Int
        <5>1. \A k \in E : k \in Int
          BY <4>1, <4>2
        <5>. QED  BY <4>2, <4>3, <5>1
      <4>5. Max(E) = n
        BY <4>2, <4>3, <4>4
      <4>. QED  BY <4>5 DEF E
    <3>4. LastEntered' = SubSeq(said', n + 1, Len(said') - 1)
      BY <3>3, Zenon DEF LastEntered
    <3>. HIDE DEF n
    <3>5. Len(said') - 1 = n + Len(Yes) /\ n \in Nat
      BY <1>2, <2>6 DEF n
    <3>6. \A i \in 1..Len(Yes) : said'[n + i] = Yes[i]
      BY <2>6 DEF n
    <3>7. SubSeq(said', n + 1, n + Len(Yes)) = Yes
      BY <1>2, <3>5, <3>6, PieceIsAll
    <3>. QED  BY <3>4, <3>5, <3>7
  <2>9. line' = line
    BY <1>1
  <2>. QED  BY <2>7, <2>8, <2>9 DEF Stopped
<1>11. Stops'
  BY <1>1, <1>10 DEF Stops, l
<1>. QED  BY <1>6, <1>7, <1>9, <1>11 DEF TextInv

\* The handler goes on, or the machine off.
LEMMA CommandEnds ==
    ASSUME TextInv, ComhandEnd
    PROVE  TextInv'
<1>1. /\ at = "end" /\ at' = IF should_shutdown THEN "off" ELSE "prompt"
      /\ typed' = typed /\ said' = said /\ line' = line /\ args' = args /\ handler' = handler
      /\ buf' = buf /\ tok_tmp' = tok_tmp /\ token' = token /\ tokens' = tokens
      /\ asked' = asked /\ should_shutdown' = should_shutdown
  BY DEF ComhandEnd, tokVars
<1>2. TextTypeOK' /\ IsBuffer(buf')
  BY <1>1 DEF TextTypeOK, TextInv
<1>3. Reads'
  BY <1>1 DEF TextInv, Reads
<1>4. (asked.by = "alarm" => AlarmAsks)'
  BY <1>1, Zenon DEF TextInv, Takes, AlarmAsks
<1>5. Takes'
  BY <1>1, <1>4 DEF Takes
<1>6. Stopped' <=> Stopped
  BY <1>1, Zenon DEF Stopped, LastEntered
<1>7. Stops'
  BY <1>1, <1>6 DEF TextInv, Stops
<1>. QED  BY <1>2, <1>3, <1>5, <1>7 DEF TextInv

(***************************************************************************)
(* Every step of the specification keeps the invariant.                    *)
(***************************************************************************)
\* For every text the user types, every reachable state has the properties of
\* the handler's inductive invariant (comhand, setpcbprio, alarm and shutdown in
\* user/interface.c, strtok in lib/string.c).
THEOREM TextIsTaken == Spec => []TextInv
<1>1. TextInv /\ [Next]_vars => TextInv'
  <2>. SUFFICES ASSUME TextInv, [Next]_vars PROVE TextInv'
    OBVIOUS
  <2>1. CASE ReadCommand
    BY <2>1, CommandIsRead
  <2>2. CASE FirstToken
    BY <2>2, FirstTokenIsTaken
  <2>3. CASE NextToken
    BY <2>3, NextTokenIsTaken
  <2>4. CASE SetPriority \/ SetAlarm \/ Refuse
    BY <2>4, RequestIsMade
  <2>5. CASE ReadAnswer
    BY <2>5, AnswerIsRead
  <2>6. CASE ComhandEnd
    BY <2>6, CommandEnds
  <2>7. CASE UNCHANGED vars
    <3>1. /\ typed' = typed /\ said' = said /\ line' = line /\ args' = args /\ handler' = handler
          /\ buf' = buf /\ tok_tmp' = tok_tmp /\ token' = token /\ tokens' = tokens
          /\ asked' = asked /\ should_shutdown' = should_shutdown /\ at' = at
      BY <2>7 DEF vars, tokVars
    <3>2. TextTypeOK' /\ IsBuffer(buf') /\ Reads'
      BY <3>1 DEF TextTypeOK, TextInv, Reads
    <3>3. AlarmTakes' = AlarmTakes
      BY <3>1, Zenon DEF AlarmTakes, AlarmTokens
    <3>4. (asked.by = "alarm" => AlarmAsks)'
      BY <3>1, Zenon DEF TextInv, Takes, AlarmAsks
    <3>5. Takes'
      BY <3>1, <3>3, <3>4 DEF TextInv, Takes
    <3>6. Stopped' = Stopped
      BY <3>1, Zenon DEF Stopped, LastEntered
    <3>7. Stops'
      BY <3>1, <3>6 DEF TextInv, Stops
    <3>. QED  BY <3>2, <3>5, <3>7 DEF TextInv
  <2>. QED  BY <2>1, <2>2, <2>3, <2>4, <2>5, <2>6, <2>7 DEF Next
<1>. QED  BY TextBegins, <1>1, PTL DEF Spec

\* strtok writes into the line and keeps a pointer into it between its calls;
\* for every line it stays in the buffer, and the NUL at the end stays there.
THEOREM TextTypes == Spec => []TextTypeOK
<1>1. TextInv => TextTypeOK
  BY DEF TextInv
<1>. QED  BY <1>1, TextIsTaken, PTL

\* comhand hands a function arguments that are not empty: what is trimmed off
\* the line's end is what could leave nothing behind the first space.
THEOREM ArgumentsAreThere == Spec => []ArgumentsAreNotEmpty
<1>1. ASSUME TextInv, handler # "none", at = "call"
      PROVE  args <= Len(line) /\ buf[args] # NUL
  <2>. DEFINE t == trim_input(line)
  <2>1. Called(line, args, handler) /\ buf = Cut(t, {args - 1})
    BY <1>1 DEF TextInv, Takes
  <2>2. IsLine(line, t) /\ args \in 2..Len(t)
    BY <1>1, <2>1, CallIsALine DEF Called
  <2>. HIDE DEF t
  <2>3. /\ t \in Seq(Char) /\ Len(t) \in Nat /\ Len(t) <= LineSize /\ LineSize \in Nat
        /\ Len(t) <= Len(line) /\ Len(line) \in Nat
        /\ \A j \in 1..Len(t) : t[j] \in Char /\ t[j] # NUL
    <3>1. t \in Seq(Char) /\ line \in Seq(Char) /\ Len(t) \in 1..Len(line) /\ Len(line) <= LineSize
      BY <2>2 DEF IsLine, Trims
    <3>2. Len(line) \in Nat
      BY <3>1, LenProperties
    <3>3. Len(t) > 1
      BY <2>2, <3>1, <3>2
    <3>. QED  BY <2>2, <3>1, <3>2, <3>3, BlanksAreSpaces
  <2>4. buf[args] = t[args]
    <3>1. args \in 1..(LineSize + 1) /\ args \notin {args - 1} /\ ~ args > Len(t)
      BY <2>2, <2>3
    <3>. QED  BY <2>1, <2>3, <3>1, CutIsABuffer
  <2>. QED  BY <2>2, <2>3, <2>4
<1>2. TextInv => ArgumentsAreNotEmpty
  BY <1>1, Zenon DEF ArgumentsAreNotEmpty
<1>. QED  BY <1>2, TextIsTaken, PTL

\* shutdown reads its answer with room for a yes and Enter: what is left of a
\* longer one, or of an earlier line that fitted, never switches the machine off.
THEOREM OnlyYesStops == Spec => []StopsOnlyOnYes
<1>1. TextInv => StopsOnlyOnYes
  BY Zenon DEF TextInv, Stops, Stopped, StopsOnlyOnYes
<1>. QED  BY <1>1, TextIsTaken, PTL

----------------------------------------------------------------------------
(***************************************************************************)
(* The arguments of alarm, put together again, are the line.               *)
(***************************************************************************)
LEMMA OneWord ==
    ASSUME NEW s, Len(s) \in Nat \ {0}, DOMAIN s = 1..Len(s), \A j \in 1..Len(s) : s[j] \notin Blank
    PROVE  Len(Words(s)) = 1
<1>. DEFINE starts == {i \in DOMAIN s : s[i] \notin Blank /\ (i = 1 \/ s[i - 1] \in Blank)}
<1>1. \A i \in DOMAIN s : (s[i] \notin Blank /\ (i = 1 \/ s[i - 1] \in Blank)) <=> i = 1
  <2>1. ASSUME NEW i \in DOMAIN s, i # 1 PROVE s[i - 1] \notin Blank
    <3>1. i - 1 \in 1..Len(s)
      BY <2>1
    <3>. QED  BY <3>1
  <2>. QED  BY <2>1
<1>2. starts = {1}
  <2>1. 1 \in DOMAIN s
    OBVIOUS
  <2>. QED  BY <1>1, <2>1
<1>3. Cardinality(starts) = 1
  BY <1>2, FS_Singleton, Zenon
<1>. HIDE DEF starts
<1>. DEFINE N    == 1..Cardinality(starts)
            F(n) == LET i == CHOOSE i \in starts : Cardinality({k \in starts : k <= i}) = n
                        j == CHOOSE j \in i..Len(s) : 
                                 /\ \A k \in i..j : s[k] \notin Blank
                                 /\ i = 1 \/ s[i - 1] \in Blank
                                 /\ j = Len(s) \/ s[j + 1] \in Blank
                    IN  SubSeq(s, i, j)
<1>4. Words(s) = [n \in N |-> F(n)]
  BY Zenon DEF Words, starts
<1>. HIDE DEF F
<1>. QED  BY <1>3, <1>4

\* A piece of a text behind the ones in front of it.
LEMMA NextPiece ==
    ASSUME NEW s \in Seq(Char), NEW k \in Nat, NEW y \in Seq(Char), k + Len(y) <= Len(s),
           \A i \in 1..Len(y) : s[k + i] = y[i]
    PROVE  SubSeq(s, 1, k) \o y = SubSeq(s, 1, k + Len(y))
<1>1. Len(y) \in Nat /\ Len(s) \in Nat /\ \A i \in 1..Len(s) : s[i] \in Char
  BY LenProperties
<1>. DEFINE f == SubSeq(s, 1, k)
            g == SubSeq(s, 1, k + Len(y))
<1>2. f \in Seq(Char) /\ Len(f) = k /\ \A i \in 1..k : f[i] = s[i]
  <2>1. \A i \in 1..k : s[i] \in Char
    BY <1>1
  <2>2. /\ f \in Seq(Char) /\ Len(f) = IF 1 <= k THEN k - 1 + 1 ELSE 0
        /\ \A i \in 1..(k - 1 + 1) : f[i] = s[1 + i - 1]
    BY <2>1, SubSeqProperties
  <2>. HIDE DEF f
  <2>. QED  BY <2>2
<1>3. g \in Seq(Char) /\ Len(g) = k + Len(y) /\ \A i \in 1..(k + Len(y)) : g[i] = s[i]
  <2>. DEFINE m == k + Len(y)
  <2>1. m \in Nat /\ \A i \in 1..m : s[i] \in Char
    BY <1>1
  <2>. HIDE DEF m
  <2>2. /\ SubSeq(s, 1, m) \in Seq(Char) /\ Len(SubSeq(s, 1, m)) = IF 1 <= m THEN m - 1 + 1 ELSE 0
        /\ \A i \in 1..(m - 1 + 1) : SubSeq(s, 1, m)[i] = s[1 + i - 1]
    BY <2>1, SubSeqProperties
  <2>3. SubSeq(s, 1, m) \in Seq(Char) /\ Len(SubSeq(s, 1, m)) = m
        /\ \A i \in 1..m : SubSeq(s, 1, m)[i] = s[i]
    BY <2>1, <2>2
  <2>. QED  BY <2>3 DEF m
<1>. HIDE DEF f, g
<1>4. /\ f \o y \in Seq(Char) /\ Len(f \o y) = k + Len(y)
      /\ \A i \in 1..(k + Len(y)) : (f \o y)[i] = IF i <= k THEN f[i] ELSE y[i - k]
  BY <1>2, ConcatProperties
<1>5. ASSUME NEW i \in 1..(k + Len(y)) PROVE (f \o y)[i] = g[i]
  <2>1. CASE i <= k
    <3>1. i \in 1..k
      BY <2>1
    <3>. QED  BY <1>2, <1>3, <1>4, <2>1, <3>1
  <2>2. CASE ~ i <= k
    <3>1. i - k \in 1..Len(y) /\ k + (i - k) = i
      BY <1>1, <2>2
    <3>2. s[k + (i - k)] = y[i - k]
      BY <3>1
    <3>. QED  BY <1>3, <1>4, <2>2, <3>1, <3>2
  <2>. QED  BY <2>1, <2>2
<1>6. f \o y = g
  BY <1>1, <1>3, <1>4, <1>5, SeqEqual
<1>. QED  BY <1>6 DEF f, g

\* The command, spaces, the time, a space, the message and more spaces are all
\* of the text up to n.
Together(s, a, p, e, m, n) ==
    SubSeq(s, 1, n) =
        SubSeq(s, 1, a - 2) \o [k \in 1..(p - a + 1) |-> Space] \o SubSeq(s, p, e - 1)
            \o <<Space>> \o SubSeq(s, e + 1, m) \o [k \in 1..(n - m) |-> Space]

\* It is so wherever only spaces are in between.
LEMMA LineIsTogether ==
    ASSUME NEW s \in Seq(Char), NEW a \in Nat, NEW p \in Nat, NEW e \in Nat, NEW m \in Nat,
           NEW n \in Nat, 2 <= a, a <= p, p < e, e < m, m <= n, n <= Len(s), Space \in Char,
           \A j \in (a - 1)..(p - 1) : s[j] = Space,
           s[e] = Space, \A j \in (m + 1)..n : s[j] = Space
    PROVE  Together(s, a, p, e, m, n)
<1>1. Len(s) \in Nat /\ \A i \in 1..Len(s) : s[i] \in Char
  BY LenProperties
<1>. DEFINE front == [k \in 1..(p - a + 1) |-> Space]
            time  == SubSeq(s, p, e - 1)
            text  == SubSeq(s, e + 1, m)
            back  == [k \in 1..(n - m) |-> Space]
<1>2. SubSeq(s, 1, a - 2) \o front = SubSeq(s, 1, p - 1)
  <2>1. front \in Seq(Char) /\ Len(front) = p - a + 1 /\ \A i \in 1..(p - a + 1) : front[i] = Space
    OBVIOUS
  <2>. HIDE DEF front
  <2>2. /\ a - 2 \in Nat /\ (a - 2) + Len(front) = p - 1 /\ p - 1 <= Len(s)
        /\ \A i \in 1..Len(front) : (a - 2) + i \in (a - 1)..(p - 1)
    BY <1>1, <2>1
  <2>. QED  BY <2>1, <2>2, NextPiece
<1>3. SubSeq(s, 1, p - 1) \o time = SubSeq(s, 1, e - 1)
  <2>1. \A i \in p..(e - 1) : s[i] \in Char
    BY <1>1
  <2>2. /\ time \in Seq(Char) /\ Len(time) = IF p <= e - 1 THEN e - 1 - p + 1 ELSE 0
        /\ \A i \in 1..(e - 1 - p + 1) : time[i] = s[p + i - 1]
    BY <2>1, SubSeqProperties
  <2>. HIDE DEF time
  <2>3. /\ p - 1 \in Nat /\ (p - 1) + Len(time) = e - 1 /\ e - 1 <= Len(s)
        /\ \A i \in 1..Len(time) : time[i] = s[(p - 1) + i]
    <3>1. Len(time) = e - p
      BY <2>2
    <3>2. ASSUME NEW i \in 1..(e - p) PROVE time[i] = s[(p - 1) + i]
      <4>1. p + i - 1 = (p - 1) + i /\ i \in 1..(e - 1 - p + 1)
        OBVIOUS
      <4>. QED  BY <2>2, <4>1
    <3>. QED  BY <1>1, <3>1, <3>2
  <2>. QED  BY <2>2, <2>3, NextPiece
<1>4. SubSeq(s, 1, e - 1) \o <<Space>> = SubSeq(s, 1, e)
  <2>1. <<Space>> \in Seq(Char) /\ Len(<<Space>>) = 1 /\ <<Space>>[1] = Space
    OBVIOUS
  <2>2. /\ e - 1 \in Nat /\ (e - 1) + Len(<<Space>>) = e /\ e <= Len(s)
        /\ \A i \in 1..Len(<<Space>>) : s[(e - 1) + i] = <<Space>>[i]
    BY <1>1, <2>1
  <2>. QED  BY <2>1, <2>2, NextPiece
<1>5. SubSeq(s, 1, e) \o text = SubSeq(s, 1, m)
  <2>1. \A i \in (e + 1)..m : s[i] \in Char
    BY <1>1
  <2>2. /\ text \in Seq(Char) /\ Len(text) = IF e + 1 <= m THEN m - (e + 1) + 1 ELSE 0
        /\ \A i \in 1..(m - (e + 1) + 1) : text[i] = s[e + 1 + i - 1]
    BY <2>1, SubSeqProperties
  <2>. HIDE DEF text
  <2>3. /\ e + Len(text) = m /\ m <= Len(s)
        /\ \A i \in 1..Len(text) : text[i] = s[e + i]
    <3>1. Len(text) = m - e
      BY <2>2
    <3>2. ASSUME NEW i \in 1..(m - e) PROVE text[i] = s[e + i]
      <4>1. e + 1 + i - 1 = e + i /\ i \in 1..(m - (e + 1) + 1)
        OBVIOUS
      <4>. QED  BY <2>2, <4>1
    <3>. QED  BY <1>1, <3>1, <3>2
  <2>. QED  BY <2>2, <2>3, NextPiece
<1>6. SubSeq(s, 1, m) \o back = SubSeq(s, 1, n)
  <2>1. back \in Seq(Char) /\ Len(back) = n - m /\ \A i \in 1..(n - m) : back[i] = Space
    OBVIOUS
  <2>. HIDE DEF back
  <2>2. m + Len(back) = n /\ \A i \in 1..Len(back) : m + i \in (m + 1)..n
    BY <2>1
  <2>. QED  BY <2>1, <2>2, NextPiece
<1>. QED  BY <1>2, <1>3, <1>4, <1>5, <1>6, Zenon DEF Together

\* A text is all of it, or all but its Enter and an Enter.
LEMMA AllButEnter ==
    ASSUME NEW s \in Seq(Char), NEW n \in Nat
    PROVE  n = Len(s) \/ (n + 1 = Len(s) /\ s[n + 1] = Enter) =>
               s \in {SubSeq(s, 1, n), Append(SubSeq(s, 1, n), Enter)}
<1>1. Len(s) \in Nat /\ \A i \in 1..Len(s) : s[i] \in Char
  BY LenProperties
<1>2. SubSeq(s, 1, Len(s)) = s
  <2>1. \A i \in 1..Len(s) : s[0 + i] = s[i]
    BY <1>1
  <2>2. SubSeq(s, 0 + 1, 0 + Len(s)) = s
    BY <2>1, PieceIsAll
  <2>3. 0 + 1 = 1 /\ 0 + Len(s) = Len(s)
    BY <1>1
  <2>. QED  BY <2>2, <2>3
<1>3. CASE n = Len(s)
  BY <1>2, <1>3, Zenon
<1>4. CASE n + 1 = Len(s) /\ s[n + 1] = Enter
  <2>1. Enter \in Char
    BY <1>1, <1>4
  <2>2. <<Enter>> \in Seq(Char) /\ Len(<<Enter>>) = 1 /\ <<Enter>>[1] = Enter
    BY ONLY <2>1, SMTT(20)
  <2>3. SubSeq(s, 1, n) \o <<Enter>> = s
    <3>1. n + Len(<<Enter>>) <= Len(s) /\ \A i \in 1..Len(<<Enter>>) : s[n + i] = <<Enter>>[i]
      BY <1>4, <2>2
    <3>2. SubSeq(s, 1, n) \o <<Enter>> = SubSeq(s, 1, n + Len(<<Enter>>))
      BY <2>2, <3>1, NextPiece
    <3>. QED  BY <1>2, <1>4, <2>2, <3>2
  <2>4. SubSeq(s, 1, n) \in Seq(Char)
    <3>1. \A i \in 1..n : s[i] \in Char
      BY <1>1, <1>4
    <3>. QED  BY <3>1, SubSeqProperties
  <2>5. Append(SubSeq(s, 1, n), Enter) = SubSeq(s, 1, n) \o <<Enter>>
    BY <2>1, <2>4, AppendIsConcat
  <2>. QED  BY <2>3, <2>5, Zenon
<1>. QED  BY <1>3, <1>4

\* For every line that calls alarm with a time and a message, the two strtok calls
\* hand it one word and all that follows the space behind it, and lose nothing.
THEOREM MessageIsAsTyped == Spec => []MessageIsTheRest
<1>1. ASSUME TextInv, asked.by = "alarm"
      PROVE  /\ Len(Words(asked.time)) = 1
             /\ Last(asked.message) # Space
             /\ \E front, back \in 0..Len(line) :
                   LET spaces(n) == [k \in 1..n |-> Space]
                       whole     == Commands["alarm"] \o spaces(front) \o asked.time \o <<Space>>
                                      \o asked.message \o spaces(back)
                   IN  line \in {whole, Append(whole, Enter)}
  <2>. DEFINE t == trim_input(line)
              m == Len(t)
  <2>1. PICK a \in Nat, p \in Nat, e \in Nat :
            /\ Called(line, a, "alarm") /\ FirstWord(t, a, p, e) /\ e <= Len(t)
            /\ asked.time = SubSeq(t, p, e - 1)
            /\ asked.message = SubSeq(t, e + 1, Len(t))
    BY <1>1 DEF TextInv, Takes, AlarmAsks
  <2>2. IsLine(line, t)
    BY <1>1, <2>1, CallIsALine
  <2>3. a \in 2..m /\ t[a - 1] = Space /\ SubSeq(t, 1, a - 2) = Commands["alarm"]
    BY <2>1 DEF Called
  <2>. HIDE DEF t
  <2>4. /\ line \in Seq(Char) /\ Len(line) \in Nat /\ t \in Seq(Char) /\ m \in 1..Len(line)
        /\ \A j \in 1..m : t[j] = line[j]
        /\ \A j \in (m + 1)..Len(line) : line[j] \in {Space, Enter}
        /\ \A j \in 1..Len(line) : line[j] = Enter => j = Len(line)
    <3>1. line \in Seq(Char) /\ t \in Seq(Char) /\ Len(line) \in Nat
      BY <2>2, LenProperties DEF IsLine, Trims
    <3>. QED  BY <2>2, <3>1 DEF IsLine, Trims
  <2>5. /\ \A j \in 1..m : t[j] \in Char /\ t[j] # NUL
        /\ \A j \in 1..m : t[j] \in Blank => t[j] = Space
        /\ t[m] \notin Blank
    <3>1. Len(t) > 1
      BY <2>3, <2>4
    <3>. QED  BY <2>2, <3>1, BlanksAreSpaces
  <2>6. /\ p \in a..m /\ e \in (p + 1)..m
        /\ \A j \in a..(p - 1) : t[j] = Space
        /\ \A j \in p..(e - 1) : t[j] \notin Blank
        /\ t[e] = Space
    BY <2>1, <2>4 DEF FirstWord
  <2>7. e < m
    <3>1. e # m
      BY <2>5, <2>6, CharsDiffer
    <3>. QED  BY <2>4, <2>6, <3>1
  <2>. HIDE DEF m
  <2>8. Len(Words(asked.time)) = 1
    <3>. DEFINE s == SubSeq(t, p, e - 1)
    <3>1. \A i \in p..(e - 1) : t[i] \in Char
      BY <2>3, <2>4, <2>5, <2>6
    <3>2. /\ s \in Seq(Char) /\ Len(s) = IF p <= e - 1 THEN e - 1 - p + 1 ELSE 0
          /\ \A i \in 1..(e - 1 - p + 1) : s[i] = t[p + i - 1]
      BY <3>1, SubSeqProperties
    <3>. HIDE DEF s
    <3>3. Len(s) = e - p /\ Len(s) \in Nat \ {0} /\ DOMAIN s = 1..Len(s)
      BY <2>3, <2>4, <2>6, <3>2, LenProperties
    <3>4. ASSUME NEW j \in 1..Len(s) PROVE s[j] \notin Blank
      <4>1. p + j - 1 \in p..(e - 1) /\ j \in 1..(e - 1 - p + 1)
        BY <2>6, <3>3
      <4>. QED  BY <2>6, <3>2, <4>1
    <3>5. Len(Words(s)) = 1
      BY <3>3, <3>4, OneWord
    <3>. QED  BY <2>1, <3>5 DEF s
  <2>9. Last(asked.message) # Space
    <3>. DEFINE s == SubSeq(t, e + 1, m)
    <3>1. \A i \in (e + 1)..m : t[i] \in Char
      BY <2>4, <2>5
    <3>2. /\ s \in Seq(Char) /\ Len(s) = IF e + 1 <= m THEN m - (e + 1) + 1 ELSE 0
          /\ \A i \in 1..(m - (e + 1) + 1) : s[i] = t[e + 1 + i - 1]
      BY <2>4, <3>1, SubSeqProperties
    <3>. HIDE DEF s
    <3>3. Len(s) = m - e /\ Len(s) \in 1..(m - (e + 1) + 1) /\ e + 1 + Len(s) - 1 = m
      BY <2>4, <2>7, <3>2
    <3>4. Last(s) = t[m]
      BY <3>2, <3>3 DEF Last
    <3>. QED  BY <2>1, <2>5, <3>4, CharsDiffer DEF s, m
  <2>10. PICK n \in m..Len(line) :
             /\ \A j \in (m + 1)..n : line[j] = Space
             /\ \/ n = Len(line)
                \/ n + 1 = Len(line) /\ line[n + 1] = Enter
    <3>1. CASE line[Len(line)] = Enter
      <4>1. m # Len(line)
        BY <2>4, <2>5, <3>1, CharsDiffer
      <4>2. Len(line) - 1 \in m..Len(line)
        BY <2>4, <4>1
      <4>3. \A j \in (m + 1)..(Len(line) - 1) : line[j] = Space
        BY <2>4
      <4>4. (Len(line) - 1) + 1 = Len(line)
        BY <2>4
      <4>. QED  BY <3>1, <4>2, <4>3, <4>4, Zenon
    <3>2. CASE line[Len(line)] # Enter
      <4>1. \A j \in (m + 1)..Len(line) : line[j] = Space
        BY <2>4, <3>2
      <4>. QED  BY <2>4, <4>1
    <3>. QED  BY <3>1, <3>2
  <2>. DEFINE spaces(k) == [i \in 1..k |-> Space]
              front     == p - a + 1
              back      == n - m
              whole     == Commands["alarm"] \o spaces(front) \o asked.time \o <<Space>>
                             \o asked.message \o spaces(back)
  <2>11. whole = SubSeq(line, 1, n)
    <3>1. Space \in Char
      BY <2>3, <2>4, <2>5
    <3>2. /\ SubSeq(t, 1, a - 2) = SubSeq(line, 1, a - 2)
          /\ SubSeq(t, p, e - 1) = SubSeq(line, p, e - 1)
          /\ SubSeq(t, e + 1, m) = SubSeq(line, e + 1, m)
      <4>1. /\ \A i \in 1..(a - 2) : t[i] = line[i] /\ line[i] \in Char
            /\ \A i \in p..(e - 1) : t[i] = line[i] /\ line[i] \in Char
            /\ \A i \in (e + 1)..m : t[i] = line[i] /\ line[i] \in Char
        <5>1. \A i \in 1..m : t[i] = line[i] /\ line[i] \in Char
          BY <2>4, <2>5
        <5>. QED  BY <2>3, <2>4, <2>6, <5>1
      <4>2. a - 2 \in Int /\ e - 1 \in Int /\ e + 1 \in Int /\ m \in Int /\ p \in Int
        BY <2>4
      <4>. QED  BY <4>1, <4>2, SamePiece
    <3>3. /\ 2 <= a /\ a <= p /\ p < e /\ e < m /\ m <= n /\ n <= Len(line) /\ m \in Nat /\ n \in Nat
          /\ \A j \in (a - 1)..(p - 1) : line[j] = Space
          /\ line[e] = Space
      <4>1. 2 <= a /\ a <= p /\ p < e /\ e < m /\ m <= n /\ n <= Len(line) /\ m \in Nat /\ n \in Nat
        BY <2>3, <2>4, <2>6, <2>7
      <4>2. ASSUME NEW j \in (a - 1)..(p - 1) PROVE line[j] = Space
        <5>1. j \in 1..m /\ (j = a - 1 \/ j \in a..(p - 1))
          BY <4>1
        <5>. QED  BY <2>3, <2>4, <2>6, <5>1
      <4>3. e \in 1..m
        BY <4>1
      <4>. QED  BY <2>4, <2>6, <4>1, <4>2, <4>3
    <3>4. Together(line, a, p, e, m, n)
      BY <2>4, <2>10, <3>1, <3>3, LineIsTogether
    <3>. QED  BY <2>1, <2>3, <3>2, <3>4, Zenon DEF m, Together
  <2>12. line \in {whole, Append(whole, Enter)}
    <3>1. line \in {SubSeq(line, 1, n), Append(SubSeq(line, 1, n), Enter)}
      <4>1. n \in Nat
        BY <2>4
      <4>. QED  BY <2>4, <2>10, <4>1, AllButEnter
    <3>. HIDE DEF whole
    <3>. QED  BY <2>11, <3>1, Zenon
  <2>13. front \in 0..Len(line) /\ back \in 0..Len(line)
    BY <2>3, <2>4, <2>6, SMTT(20)
  <2>14. \E f, b \in 0..Len(line) :
             LET w == Commands["alarm"] \o spaces(f) \o asked.time \o <<Space>>
                        \o asked.message \o spaces(b)
             IN  line \in {w, Append(w, Enter)}
    <3>. HIDE DEF front, back
    <3>. QED  BY <2>12, <2>13, Zenon
  <2>. QED  BY <2>8, <2>9, <2>14, Zenon
<1>2. TextInv => MessageIsTheRest
  BY <1>1, Zenon DEF MessageIsTheRest
<1>. QED  BY <1>2, TextIsTaken, PTL

----------------------------------------------------------------------------
(***************************************************************************)
(* atoi: what it adds up is the number that was typed.                     *)
(***************************************************************************)
\* What holds at 0 and is handed from each number to the next holds up to n.
LEMMA UpTo ==
    ASSUME NEW n \in Nat, NEW I, 0 \in I, \A k \in 1..n : k - 1 \in I => k \in I
    PROVE  \A k \in 0..n : k \in I
<1>. DEFINE J == {k \in 0..n : k \notin I}
<1>1. ASSUME J # {} PROVE FALSE
  <2>1. J \in SUBSET Nat
    OBVIOUS
  <2>2. Min(J) \in J /\ \A i \in J : Min(J) <= i
    <3>. HIDE DEF J
    <3>. QED  BY <1>1, <2>1, MinIsLeast
  <2>3. PICK m \in J : \A i \in J : m <= i
    BY <2>2
  <2>4. m # 0 /\ m \in 0..n
    BY <2>3
  <2>5. m - 1 \in 0..n /\ ~ m <= m - 1
    BY <2>4
  <2>6. m - 1 \in I
    BY <2>3, <2>5
  <2>. QED  BY <2>3, <2>4, <2>6
<1>. QED  BY <1>1

\* Some function begins with b and goes on as F says.
Recurs(n, S, b, F) ==
    \E f \in [0..n -> S] : f[0] = b /\ \A k \in 1..n : f[k] = F[k][f[k - 1]]

\* A function that is defined from the value before it exists.
LEMMA Recursion ==
    ASSUME NEW n \in Nat, NEW S, NEW b \in S, NEW F \in [1..n -> [S -> S]]
    PROVE  Recurs(n, S, b, F)
<1>. DEFINE Defines(f, m) == f[0] = b /\ \A k \in 1..m : f[k] = F[k][f[k - 1]]
            I == {m \in 0..n : \E f \in [0..m -> S] : Defines(f, m)}
<1>1. 0 \in I
  <2>1. [k \in 0..0 |-> b] \in [0..0 -> S] /\ Defines([k \in 0..0 |-> b], 0)
    OBVIOUS
  <2>. HIDE DEF Defines
  <2>. QED  BY <2>1
<1>2. ASSUME NEW m \in 1..n, m - 1 \in I PROVE m \in I
  <2>1. PICK f \in [0..(m - 1) -> S] : Defines(f, m - 1)
    BY <1>2
  <2>. DEFINE g == [k \in 0..m |-> IF k = m THEN F[m][f[m - 1]] ELSE f[k]]
  <2>2. F[m][f[m - 1]] \in S
    <3>1. m - 1 \in 0..(m - 1) /\ F[m] \in [S -> S]
      OBVIOUS
    <3>. QED  BY <3>1
  <2>3. g \in [0..m -> S]
    <3>1. ASSUME NEW k \in 0..m PROVE (IF k = m THEN F[m][f[m - 1]] ELSE f[k]) \in S
      <4>1. k # m => k \in 0..(m - 1)
        OBVIOUS
      <4>. QED  BY <2>2, <4>1
    <3>. QED  BY <3>1
  <2>4. g[0] = f[0] /\ g[m] = F[m][f[m - 1]] /\ \A k \in 0..(m - 1) : g[k] = f[k]
    OBVIOUS
  <2>. HIDE DEF g
  <2>5. ASSUME NEW k \in 1..m PROVE g[k] = F[k][g[k - 1]]
    <3>1. k - 1 \in 0..(m - 1)
      OBVIOUS
    <3>2. CASE k = m
      BY <2>4, <3>1, <3>2
    <3>3. CASE k # m
      <4>1. k \in 1..(m - 1) /\ k \in 0..(m - 1)
        BY <3>3
      <4>. QED  BY <2>1, <2>4, <3>1, <4>1
    <3>. QED  BY <3>2, <3>3
  <2>6. Defines(g, m)
    BY <2>1, <2>4, <2>5
  <2>. HIDE DEF Defines
  <2>. QED  BY <2>3, <2>6
<1>3. n \in I
  <2>. HIDE DEF I
  <2>1. \A k \in 1..n : k - 1 \in I => k \in I
    BY <1>2
  <2>2. \A k \in 0..n : k \in I
    BY <1>1, <2>1, UpTo
  <2>. QED  BY <2>2
<1>. QED  BY <1>3 DEF Recurs

\* A whole number is a multiple of any divisor, and a rest smaller than it.
LEMMA DivMod ==
    ASSUME NEW u \in Int, NEW m \in Nat \ {0}
    PROVE  u % m \in 0..(m - 1) /\ \E d \in Int : u = d * m + (u % m)
<1>1. u % m \in 0..(m - 1)
  OBVIOUS
<1>2. u \div m \in Int
  OBVIOUS
<1>3. u = m * (u \div m) + (u % m)
  OBVIOUS
<1>. DEFINE d == u \div m
            r == u % m
<1>4. u = d * m + r
  <2>1. u = m * d + r /\ d \in Int /\ r \in Int
    BY <1>1, <1>2, <1>3
  <2>. HIDE DEF d, r
  <2>. QED  BY <2>1
<1>. QED  BY <1>1, <1>2, <1>4

\* What an int holds of a number differs from it by a multiple of the number of ints.
LEMMA IntsWrap ==
    /\ HowManyInts \in Nat \ {0} /\ Ints \subseteq Int /\ 0 \in Ints
    /\ \A v \in Int : /\ Wrapped(v) \in Ints
                      /\ \E q \in Int : Wrapped(v) = v + q * HowManyInts
<1>1. HowManyInts \in Nat \ {0} /\ Ints \subseteq Int /\ 0 \in Ints
  BY TextAssumption DEF HowManyInts, Ints
<1>2. ASSUME NEW v \in Int
      PROVE  Wrapped(v) \in Ints /\ \E q \in Int : Wrapped(v) = v + q * HowManyInts
  <2>. DEFINE u == v + IntMax + 1
              M == HowManyInts
  <2>1. u \in Int /\ M \in Nat \ {0} /\ IntMax \in Nat /\ M = 2 * (IntMax + 1)
    BY <1>1, TextAssumption DEF HowManyInts
  <2>2. Wrapped(v) = (u % M) - (IntMax + 1)
    BY DEF Wrapped
  <2>. DEFINE r == u % M
  <2>3. PICK d \in Int : r \in 0..(M - 1) /\ u = d * M + r
    <3>. HIDE DEF u, M
    <3>. QED  BY <2>1, DivMod
  <2>4. Wrapped(v) \in Ints
    <3>. HIDE DEF r, M
    <3>. QED  BY <2>1, <2>2, <2>3 DEF Ints, r
  <2>5. Wrapped(v) = v + (-d) * M
    <3>1. Wrapped(v) = r - (IntMax + 1)
      BY <2>2
    <3>. HIDE DEF r, M
    <3>. QED  BY <2>1, <2>3, <3>1
  <2>. HIDE DEF M
  <2>6. -d \in Int
    BY <2>3
  <2>. QED  BY <2>4, <2>5, <2>6 DEF M
<1>. QED  BY <1>1, <1>2

\* Numbers of which an int holds the same.
SameInt(v, w) == \E q \in Int : v = w + q * HowManyInts

\* They have the same rest, as the property of setpcbprio states it.
LEMMA SameIntIs ==
    ASSUME NEW v \in Int, NEW w \in Int, SameInt(v, w)
    PROVE  (v - w) % HowManyInts = 0
<1>1. PICK q \in Int : v = w + q * HowManyInts
  BY DEF SameInt
<1>. DEFINE M == HowManyInts
<1>2. M \in Nat \ {0}
  BY IntsWrap
<1>. HIDE DEF M
<1>3. v - w = q * M
  BY <1>1, <1>2 DEF M
<1>4. (q * M) % M = 0
  BY <1>2
<1>. QED  BY <1>3, <1>4 DEF M

\* They stay so when a sign is put in front, or a digit behind.
LEMMA SameIntWraps ==
    ASSUME NEW v \in Int, NEW w \in Int, SameInt(v, w)
    PROVE  /\ SameInt(Wrapped(-v), -w)
           /\ \A x \in Int : SameInt(Wrapped(v * 10 + x), w * 10 + x)
<1>. DEFINE M == HowManyInts
<1>1. PICK q \in Int : v = w + q * M
  BY DEF SameInt
<1>2. M \in Nat \ {0}
  BY IntsWrap
<1>3. -v \in Int
  OBVIOUS
<1>4. SameInt(Wrapped(-v), -w)
  <2>1. PICK p \in Int : Wrapped(-v) = -v + p * M
    BY <1>3, IntsWrap
  <2>. HIDE DEF M
  <2>2. -v + p * M = -w + (p - q) * M /\ p - q \in Int
    BY <1>1, <1>2
  <2>. QED  BY <2>1, <2>2 DEF SameInt, M
<1>5. ASSUME NEW x \in Int PROVE SameInt(Wrapped(v * 10 + x), w * 10 + x)
  <2>1. v * 10 + x \in Int
    OBVIOUS
  <2>2. PICK p \in Int : Wrapped(v * 10 + x) = v * 10 + x + p * M
    BY <2>1, IntsWrap
  <2>. HIDE DEF M
  <2>3. v * 10 + x + p * M = w * 10 + x + (p + 10 * q) * M /\ p + 10 * q \in Int
    BY <1>1, <1>2
  <2>. QED  BY <2>2, <2>3 DEF SameInt, M
<1>. QED  BY <1>4, <1>5

\* A figure stands for a number of at most 9.
LEMMA DigitIsSmall == \A d \in DOMAIN Digit : Digit[d] \in 0..9
<1>1. ASSUME NEW d \in {Figures[n + 1] : n \in 0..9}
      PROVE  (CHOOSE n \in 0..9 : Figures[n + 1] = d) \in 0..9
  <2>1. \E n \in 0..9 : Figures[n + 1] = d
    OBVIOUS
  <2>. QED  BY <2>1
<1>2. DOMAIN Digit = {Figures[n + 1] : n \in 0..9}
  BY DEF Digit
<1>. QED  BY <1>1, <1>2 DEF Digit

\* A function that begins in a set and never leaves it takes its values there.
LEMMA StaysIn ==
    ASSUME NEW n \in Nat, NEW S, NEW r, r = [k \in 0..n |-> r[k]],
           r[0] \in S, \A k \in 1..n : r[k - 1] \in S => r[k] \in S
    PROVE  r \in [0..n -> S]
<1>. DEFINE I == {k \in 0..n : r[k] \in S}
<1>1. 0 \in I /\ \A k \in 1..n : k - 1 \in I => k \in I
  OBVIOUS
<1>2. \A k \in 0..n : k \in I
  <2>. HIDE DEF I
  <2>. QED  BY <1>1, UpTo
<1>. QED  BY <1>2

\* What atoi adds up, place by place, in an int.
Accumulates(d, res) ==
    /\ res \in [0..Len(d) -> Ints] /\ res[0] = 0
    /\ \A k \in 1..Len(d) : res[k] = Wrapped(res[k - 1] * 10 + Digit[d[k]])

\* That is what its loop computes: the function exists, and stays in the ints.
LEMMA NumberAccumulates ==
    ASSUME NEW s, NEW d, d = DigitsOf(s), Len(d) \in Nat, \A k \in 1..Len(d) : d[k] \in DOMAIN Digit
    PROVE  \E res : Accumulates(d, res) /\ Number(s) = res[Len(d)]
<1>. DEFINE n    == Len(d)
            R(r) == [k \in 0..n |-> IF k = 0 THEN 0 ELSE Wrapped(r[k - 1] * 10 + Digit[d[k]])]
            res  == CHOOSE r : r = R(r)
            F    == [k \in 1..n |-> [x \in Ints |-> Wrapped(x * 10 + Digit[d[k]])]]
<1>1. Number(s) = res[n]
  BY Zenon DEF Number
<1>2. \A x \in Ints : \A k \in 1..n : Wrapped(x * 10 + Digit[d[k]]) \in Ints
  <2>1. ASSUME NEW x \in Ints, NEW k \in 1..n PROVE x * 10 + Digit[d[k]] \in Int
    <3>1. x \in Int /\ Digit[d[k]] \in 0..9
      BY IntsWrap, DigitIsSmall
    <3>. QED  BY <3>1
  <2>. QED  BY <2>1, IntsWrap
<1>3. F \in [1..n -> [Ints -> Ints]] /\ 0 \in Ints /\ n \in Nat
  BY <1>2, IntsWrap
<1>4. PICK f \in [0..n -> Ints] : f[0] = 0 /\ \A k \in 1..n : f[k] = F[k][f[k - 1]]
  <2>. HIDE DEF F, n
  <2>1. Recurs(n, Ints, 0, F)
    BY <1>3, Recursion
  <2>. QED  BY <2>1 DEF Recurs
<1>5. \A k \in 1..n : f[k] = Wrapped(f[k - 1] * 10 + Digit[d[k]])
  <2>1. \A k \in 1..n : f[k - 1] \in Ints
    BY <1>3
  <2>. QED  BY <1>4, <2>1
<1>6. f = R(f)
  <2>1. f = [k \in 0..n |-> f[k]]
    BY <1>4
  <2>2. \A k \in 0..n : f[k] = IF k = 0 THEN 0 ELSE Wrapped(f[k - 1] * 10 + Digit[d[k]])
    BY <1>3, <1>4, <1>5
  <2>. QED  BY <2>1, <2>2, Zenon
<1>7. res = R(res)
  <2>. HIDE DEF R
  <2>. QED  BY <1>6, Zenon
<1>. HIDE DEF res
<1>8. res[0] = 0 /\ \A k \in 1..n : res[k] = Wrapped(res[k - 1] * 10 + Digit[d[k]])
  <2>1. 0 \in 0..n /\ \A k \in 1..n : k \in 0..n /\ k # 0
    BY <1>3
  <2>2. \A k \in 0..n : R(res)[k] = IF k = 0 THEN 0 ELSE Wrapped(res[k - 1] * 10 + Digit[d[k]])
    BY Zenon
  <2>. HIDE DEF R
  <2>. QED  BY <1>7, <2>1, <2>2, Zenon
<1>9. res = [k \in 0..n |-> res[k]]
  <2>1. R(res) = [k \in 0..n |-> R(res)[k]]
    BY Zenon
  <2>. HIDE DEF R
  <2>. QED  BY <1>7, <2>1
<1>10. \A k \in 1..n : res[k - 1] \in Ints => res[k] \in Ints
  BY <1>2, <1>8
<1>11. res \in [0..n -> Ints]
  <2>1. res[0] \in Ints
    BY <1>3, <1>8
  <2>. HIDE DEF n, R, F
  <2>. QED  BY <1>3, <1>9, <1>10, <2>1, StaysIn
<1>12. Accumulates(d, res)
  BY <1>8, <1>11 DEF Accumulates
<1>. QED  BY <1>1, <1>12

\* What digits stand for, added up place by place with the worth of each.
Adds(d, power, sum) ==
    /\ power \in [0..Len(d) -> Int] /\ power[0] = 1
    /\ \A k \in 1..Len(d) : power[k] = 10 * power[k - 1]
    /\ sum \in [0..Len(d) -> Int] /\ sum[0] = 0
    /\ \A k \in 1..Len(d) : sum[k] = sum[k - 1] + Digit[d[k]] * power[Len(d) - k]

\* That is what Decimal is: both functions exist.
LEMMA DecimalAdds ==
    ASSUME NEW d, Len(d) \in Nat, \A k \in 1..Len(d) : d[k] \in DOMAIN Digit
    PROVE  \E power, sum : Adds(d, power, sum) /\ Decimal(d) = sum[Len(d)]
<1>. DEFINE n     == Len(d)
            P(r)  == [k \in 0..n |-> IF k = 0 THEN 1 ELSE 10 * r[k - 1]]
            power == CHOOSE r : r = P(r)
            Q(r)  == [k \in 0..n |-> IF k = 0 THEN 0 ELSE r[k - 1] + Digit[d[k]] * power[n - k]]
            sum   == CHOOSE r : r = Q(r)
<1>1. Decimal(d) = sum[n]
  BY Zenon DEF Decimal
<1>2. n \in Nat
  OBVIOUS
<1>. HIDE DEF n
<1>3. power = P(power)
  <2>. DEFINE F == [k \in 1..n |-> [x \in Int |-> 10 * x]]
  <2>1. F \in [1..n -> [Int -> Int]] /\ 1 \in Int
    OBVIOUS
  <2>2. PICK f \in [0..n -> Int] : f[0] = 1 /\ \A k \in 1..n : f[k] = F[k][f[k - 1]]
    <3>. HIDE DEF F
    <3>1. Recurs(n, Int, 1, F)
      BY <1>2, <2>1, Recursion
    <3>. QED  BY <3>1 DEF Recurs
  <2>3. \A k \in 1..n : f[k] = 10 * f[k - 1]
    <3>1. \A k \in 1..n : f[k - 1] \in Int
      BY <1>2
    <3>. QED  BY <2>2, <3>1
  <2>4. f = P(f)
    <3>1. f = [k \in 0..n |-> f[k]]
      BY <2>2
    <3>2. \A k \in 0..n : f[k] = IF k = 0 THEN 1 ELSE 10 * f[k - 1]
      BY <1>2, <2>2, <2>3
    <3>. QED  BY <3>1, <3>2, Zenon
  <2>. HIDE DEF P
  <2>. QED  BY <2>4, Zenon
<1>. HIDE DEF power
<1>4. power[0] = 1 /\ \A k \in 1..n : power[k] = 10 * power[k - 1]
  <2>1. 0 \in 0..n /\ \A k \in 1..n : k \in 0..n /\ k # 0
    BY <1>2
  <2>2. \A k \in 0..n : P(power)[k] = IF k = 0 THEN 1 ELSE 10 * power[k - 1]
    BY Zenon
  <2>. HIDE DEF P
  <2>. QED  BY <1>3, <2>1, <2>2, Zenon
<1>5. power \in [0..n -> Int]
  <2>1. P(power) = [k \in 0..n |-> P(power)[k]]
    BY Zenon
  <2>2. power = [k \in 0..n |-> power[k]]
    <3>. HIDE DEF P
    <3>. QED  BY <1>3, <2>1
  <2>3. power[0] \in Int /\ \A k \in 1..n : power[k - 1] \in Int => power[k] \in Int
    BY <1>4
  <2>. QED  BY <1>2, <2>2, <2>3, StaysIn
<1>6. \A k \in 1..n : Digit[d[k]] * power[n - k] \in Int
  <2>1. ASSUME NEW k \in 1..n PROVE Digit[d[k]] * power[n - k] \in Int
    <3>1. n - k \in 0..n
      BY <1>2
    <3>2. power[n - k] \in Int
      BY <1>5, <3>1
    <3>3. Digit[d[k]] \in Int
      BY DigitIsSmall DEF n
    <3>. QED  BY <3>2, <3>3
  <2>. QED  BY <2>1
<1>. DEFINE w(k) == Digit[d[k]] * power[n - k]
<1>7. sum = Q(sum)
  <2>. DEFINE F == [k \in 1..n |-> [x \in Int |-> x + w(k)]]
  <2>1. F \in [1..n -> [Int -> Int]] /\ 0 \in Int
    <3>. HIDE DEF w
    <3>1. \A k \in 1..n : w(k) \in Int
      BY <1>6 DEF w
    <3>. QED  BY <3>1
  <2>2. PICK f \in [0..n -> Int] : f[0] = 0 /\ \A k \in 1..n : f[k] = F[k][f[k - 1]]
    <3>. HIDE DEF F
    <3>1. Recurs(n, Int, 0, F)
      BY <1>2, <2>1, Recursion
    <3>. QED  BY <3>1 DEF Recurs
  <2>3. \A k \in 1..n : f[k] = f[k - 1] + w(k)
    <3>. HIDE DEF w
    <3>1. \A k \in 1..n : f[k - 1] \in Int
      BY <1>2
    <3>. QED  BY <2>2, <3>1
  <2>4. f = Q(f)
    <3>1. f = [k \in 0..n |-> f[k]]
      BY <2>2
    <3>2. \A k \in 0..n : f[k] = IF k = 0 THEN 0 ELSE f[k - 1] + w(k)
      <4>. HIDE DEF w
      <4>. QED  BY <1>2, <2>2, <2>3
    <3>. QED  BY <3>1, <3>2, Zenon
  <2>. HIDE DEF Q
  <2>. QED  BY <2>4, Zenon
<1>. HIDE DEF sum
<1>8. sum[0] = 0 /\ \A k \in 1..n : sum[k] = sum[k - 1] + w(k)
  <2>1. 0 \in 0..n /\ \A k \in 1..n : k \in 0..n /\ k # 0
    BY <1>2
  <2>2. \A k \in 0..n : Q(sum)[k] = IF k = 0 THEN 0 ELSE sum[k - 1] + w(k)
    BY Zenon
  <2>. HIDE DEF Q
  <2>. QED  BY <1>7, <2>1, <2>2, Zenon
<1>9. sum \in [0..n -> Int]
  <2>1. Q(sum) = [k \in 0..n |-> Q(sum)[k]]
    BY Zenon
  <2>2. sum = [k \in 0..n |-> sum[k]]
    <3>. HIDE DEF Q
    <3>. QED  BY <1>7, <2>1
  <2>3. sum[0] \in Int /\ \A k \in 1..n : sum[k - 1] \in Int => sum[k] \in Int
    BY <1>6, <1>8
  <2>. QED  BY <1>2, <2>2, <2>3, StaysIn
<1>10. Adds(d, power, sum)
  BY <1>4, <1>5, <1>8, <1>9 DEF Adds, n
<1>. QED  BY <1>1, <1>10 DEF n

\* What atoi adds up is what the digits stand for, as far as an int holds it.
LEMMA NumberIsDecimal ==
    ASSUME NEW s, Len(DigitsOf(s)) \in Nat,
           \A k \in 1..Len(DigitsOf(s)) : DigitsOf(s)[k] \in DOMAIN Digit
    PROVE  /\ Number(s) \in Ints /\ Decimal(DigitsOf(s)) \in Int
           /\ SameInt(Number(s), Decimal(DigitsOf(s)))
<1>. DEFINE d == DigitsOf(s)
            n == Len(d)
<1>. HIDE DEF d
<1>1. n \in Nat /\ \A k \in 1..n : d[k] \in DOMAIN Digit
  BY DEF d
<1>2. PICK res : Accumulates(d, res) /\ Number(s) = res[n]
  BY <1>1, NumberAccumulates DEF d
<1>3. PICK power, sum : Adds(d, power, sum) /\ Decimal(d) = sum[n]
  BY <1>1, DecimalAdds
<1>4. \A k \in 1..n : Digit[d[k]] \in Int
  BY <1>1, DigitIsSmall
<1>. HIDE DEF n
<1>5. /\ power \in [0..n -> Int] /\ power[0] = 1
      /\ \A k \in 1..n : power[k] = 10 * power[k - 1]
      /\ sum \in [0..n -> Int] /\ sum[0] = 0
      /\ \A k \in 1..n : sum[k] = sum[k - 1] + Digit[d[k]] * power[n - k]
  BY <1>3 DEF Adds, n
<1>6. /\ res \in [0..n -> Ints] /\ res[0] = 0
      /\ \A k \in 1..n : res[k] = Wrapped(res[k - 1] * 10 + Digit[d[k]])
  BY <1>2 DEF Accumulates, n
<1>. DEFINE F == [k \in 1..n |-> [x \in Int |-> x * 10 + Digit[d[k]]]]
<1>7. PICK h \in [0..n -> Int] : h[0] = 0 /\ \A k \in 1..n : h[k] = F[k][h[k - 1]]
  <2>1. F \in [1..n -> [Int -> Int]] /\ 0 \in Int
    BY <1>4
  <2>. HIDE DEF F
  <2>2. Recurs(n, Int, 0, F)
    BY <1>1, <2>1, Recursion
  <2>. QED  BY <2>2 DEF Recurs
<1>8. \A k \in 1..n : h[k] = h[k - 1] * 10 + Digit[d[k]]
  <2>1. \A k \in 1..n : h[k - 1] \in Int
    BY <1>1
  <2>. QED  BY <1>7, <2>1
<1>. HIDE DEF F
<1>9. \A k \in 0..n : sum[k] = h[k] * power[n - k]
  <2>. DEFINE I == {k \in 0..n : sum[k] = h[k] * power[n - k]}
  <2>1. 0 \in I
    <3>1. power[n - 0] \in Int
      BY <1>1, <1>5
    <3>2. 0 * power[n - 0] = 0
      BY <3>1
    <3>. QED  BY <1>1, <1>5, <1>7, <3>2
  <2>2. ASSUME NEW k \in 1..n, k - 1 \in I PROVE k \in I
    <3>1. n - k + 1 \in 1..n /\ n - (k - 1) = n - k + 1 /\ (n - k + 1) - 1 = n - k
      BY <1>1
    <3>2. power[n - (k - 1)] = 10 * power[n - k]
      BY <1>5, <3>1
    <3>3. /\ power[n - k] \in Int /\ h[k - 1] \in Int /\ Digit[d[k]] \in Int /\ k \in 0..n
      <4>1. n - k \in 0..n /\ k - 1 \in 0..n /\ k \in 0..n
        BY <1>1
      <4>. QED  BY <1>4, <1>5, <1>7, <4>1
    <3>. DEFINE x == power[n - k]
                v == h[k - 1]
                g == Digit[d[k]]
    <3>4. sum[k] = v * (10 * x) + g * x
      BY <1>5, <2>2, <3>2
    <3>5. v * (10 * x) + g * x = (v * 10 + g) * x
      <4>1. x \in Int /\ v \in Int /\ g \in Int
        BY <3>3
      <4>. HIDE DEF x, v, g
      <4>. QED  BY <4>1
    <3>6. sum[k] = h[k] * power[n - k]
      BY <1>8, <3>4, <3>5
    <3>. QED  BY <3>3, <3>6
  <2>. HIDE DEF I
  <2>3. \A k \in 0..n : k \in I
    BY <1>1, <2>1, <2>2, UpTo
  <2>. QED  BY <2>3 DEF I
<1>10. Decimal(d) = h[n] /\ Decimal(d) \in Int
  <2>1. n \in 0..n /\ n - n = 0
    BY <1>1
  <2>2. h[n] \in Int /\ sum[n] = h[n] * 1
    BY <1>5, <1>7, <1>9, <2>1
  <2>. QED  BY <1>3, <2>2 DEF n
<1>11. \A k \in 0..n : SameInt(res[k], h[k])
  <2>. DEFINE I == {k \in 0..n : SameInt(res[k], h[k])}
  <2>1. 0 \in I
    <3>1. HowManyInts \in Int /\ 0 \in Int
      BY IntsWrap
    <3>2. 0 = 0 + 0 * HowManyInts
      BY <3>1
    <3>3. SameInt(0, 0)
      BY <3>1, <3>2 DEF SameInt
    <3>. QED  BY <1>1, <1>6, <1>7, <3>3
  <2>2. ASSUME NEW k \in 1..n, k - 1 \in I PROVE k \in I
    <3>1. k \in 0..n /\ k - 1 \in 0..n /\ SameInt(res[k - 1], h[k - 1])
      BY <1>1, <2>2
    <3>2. res[k - 1] \in Int /\ h[k - 1] \in Int /\ Digit[d[k]] \in Int
      BY <1>4, <1>6, <1>7, <3>1, IntsWrap
    <3>3. SameInt(Wrapped(res[k - 1] * 10 + Digit[d[k]]), h[k - 1] * 10 + Digit[d[k]])
      BY <3>1, <3>2, SameIntWraps
    <3>. QED  BY <1>6, <1>8, <3>1, <3>3
  <2>. HIDE DEF I
  <2>3. \A k \in 0..n : k \in I
    BY <1>1, <2>1, <2>2, UpTo
  <2>. QED  BY <2>3 DEF I
<1>12. n \in 0..n
  BY <1>1
<1>13. SameInt(Number(s), Decimal(d)) /\ Number(s) \in Ints
  BY <1>2, <1>6, <1>10, <1>11, <1>12 DEF n
<1>. QED  BY <1>10, <1>13 DEF d

\* The digits a text begins with are figures.
LEMMA DigitsAreFigures ==
    ASSUME NEW s, s \in Seq(Char)
    PROVE  /\ Len(DigitsOf(s)) \in Nat
           /\ \A k \in 1..Len(DigitsOf(s)) : DigitsOf(s)[k] \in DOMAIN Digit
<1>. DEFINE I == {j \in 0..Len(s) : j = Len(s) \/ s[j + 1] \notin DOMAIN Digit}
            m == Min(I)
<1>1. Len(s) \in Nat /\ \A j \in 1..Len(s) : s[j] \in Char
  BY LenProperties
<1>2. m \in I /\ \A i \in I : m <= i
  <2>1. I \in SUBSET Nat /\ I # {}
    BY <1>1
  <2>. HIDE DEF I
  <2>. QED  BY <2>1, MinIsLeast
<1>3. DigitsOf(s) = SubSeq(s, 1, m)
  BY Zenon DEF DigitsOf
<1>. HIDE DEF m
<1>4. m \in 0..Len(s) /\ \A k \in 1..m : s[k] \in DOMAIN Digit
  <2>1. ASSUME NEW k \in 1..m, s[k] \notin DOMAIN Digit PROVE FALSE
    <3>1. k - 1 \in 0..Len(s) /\ (k - 1) + 1 = k /\ ~ m <= k - 1
      BY <1>1, <1>2, <2>1
    <3>2. k - 1 \in I
      BY <2>1, <3>1
    <3>. QED  BY <1>2, <3>1, <3>2
  <2>. QED  BY <1>2, <2>1
<1>5. /\ Len(SubSeq(s, 1, m)) = IF 1 <= m THEN m - 1 + 1 ELSE 0
      /\ \A i \in 1..(m - 1 + 1) : SubSeq(s, 1, m)[i] = s[1 + i - 1]
  <2>1. m \in Int /\ \A i \in 1..m : s[i] \in Char
    BY <1>1, <1>4
  <2>. QED  BY <2>1, SubSeqProperties
<1>6. Len(SubSeq(s, 1, m)) = m /\ \A i \in 1..m : SubSeq(s, 1, m)[i] = s[i]
  BY <1>1, <1>4, <1>5
<1>. QED  BY <1>3, <1>4, <1>6

\* atoi returns the number a word begins with, as far as an int holds it.
LEMMA AtoiIsValue ==
    ASSUME NEW s \in Seq(Char), s # << >>
    PROVE  atoi(s) \in Ints /\ (atoi(s) - Value(s)) % HowManyInts = 0
<1>1. \A r \in Seq(Char) : /\ Number(r) \in Ints /\ Decimal(DigitsOf(r)) \in Int
                           /\ SameInt(Number(r), Decimal(DigitsOf(r)))
  BY DigitsAreFigures, NumberIsDecimal
<1>2. Tail(s) \in Seq(Char)
  BY HeadTailProperties
<1>. DEFINE v == Decimal(DigitsOf(Tail(s)))
<1>3. /\ Number(Tail(s)) \in Ints /\ Number(Tail(s)) \in Int /\ v \in Int
      /\ SameInt(Number(Tail(s)), v)
  BY <1>1, <1>2, IntsWrap
<1>4. atoi(s) \in Ints /\ Value(s) \in Int /\ SameInt(atoi(s), Value(s))
  <2>1. CASE s[1] = "-"
    <3>1. atoi(s) = Wrapped(-Number(Tail(s))) /\ Value(s) = -v
      BY <2>1, Zenon DEF atoi, Value
    <3>2. SameInt(Wrapped(-Number(Tail(s))), -v)
      BY <1>3, SameIntWraps
    <3>3. -Number(Tail(s)) \in Int /\ -v \in Int
      BY <1>3
    <3>. QED  BY <3>1, <3>2, <3>3, IntsWrap
  <2>2. CASE s[1] = "+"
    <3>1. atoi(s) = Number(Tail(s)) /\ Value(s) = v
      BY <2>2 DEF atoi, Value
    <3>. QED  BY <1>3, <3>1
  <2>3. CASE s[1] # "-" /\ s[1] # "+"
    <3>1. atoi(s) = Number(s) /\ Value(s) = Decimal(DigitsOf(s))
      BY <2>3 DEF atoi, Value
    <3>. QED  BY <1>1, <3>1
  <2>. QED  BY <2>1, <2>2, <2>3
<1>5. atoi(s) \in Int
  BY <1>4, IntsWrap
<1>. QED  BY <1>4, <1>5, SameIntIs

----------------------------------------------------------------------------
(***************************************************************************)
(* What setpcbprio keeps between its calls of strtok, and asks for.        *)
(***************************************************************************)
\* The arguments that begin at a are behind the first space of the line l.
Splits(l, a) == \A j \in 1..(a - 2) : trim_input(l)[j] # Space

\* setpcbprio has found the name, has kept it and found the number or nothing,
\* has kept both; a third call of strtok may have written behind the number.
PriorityTakes ==
    LET t == trim_input(line)
    IN  \E p, e \in Nat :
            /\ FirstWord(t, args, p, e)
            /\ \/ /\ tokens = << >> /\ token = p
                  /\ buf = Cut(t, {args - 1, e})
                  /\ tok_tmp = IF e <= Len(t) THEN e + 1 ELSE NULL
               \/ e > Len(t) /\ tokens = <<p>> /\ token = NULL
               \/ \E q, f \in Nat :
                      /\ e <= Len(t) /\ FirstWord(t, e + 1, q, f)
                      /\ \/ /\ tokens = <<p>> /\ token = q
                            /\ buf = Cut(t, {args - 1, e, f})
                            /\ tok_tmp = IF f <= Len(t) THEN f + 1 ELSE NULL
                         \/ /\ tokens = <<p, q>>
                            /\ CString(buf, p) = SubSeq(t, p, e - 1)
                            /\ CString(buf, q) = SubSeq(t, q, f - 1)

\* There were no arguments, or one, or a name and a number.
PriorityAsks ==
    LET t == trim_input(line)
    IN  \/ /\ asked.by = "none" /\ IsLine(line, t)
           /\ \A j \in 1..Len(t) : t[j] # Space
        \/ \E a, p, e \in Nat :
               /\ Called(line, a, "setpcbprio") /\ Splits(line, a) /\ FirstWord(t, a, p, e)
               /\ \/ e > Len(t) /\ asked.by = "none"
                  \/ \E q, f \in Nat :
                         /\ e <= Len(t) /\ FirstWord(t, e + 1, q, f)
                         /\ \/ e - p > NameSize /\ asked.by = "none"
                            \/ /\ e - p <= NameSize
                               /\ asked = [by |-> "setpcbprio", name |-> SubSeq(t, p, e - 1),
                                           priority |-> atoi(SubSeq(t, q, f - 1))]

PriorityInv ==
    /\ at \in {"call", "tokens"} => /\ asked.by = "none"
                                    /\ Called(line, args, handler) /\ Splits(line, args)
    /\ at = "answer" => handler = "shutdown"
    /\ at = "tokens" /\ handler = "setpcbprio" => PriorityTakes
    /\ at = "end" /\ handler = "setpcbprio" => PriorityAsks

\* The line of a command with arguments: all its blanks are spaces, one is in
\* front of the arguments, and none at the end of the text.
LEMMA CallHasText ==
    ASSUME TextInv, NEW a, NEW h, Called(line, a, h), NEW t, t = trim_input(line)
    PROVE  /\ IsLine(line, t) /\ a \in 2..Len(t) /\ Len(t) \in Nat /\ Len(t) > 1
           /\ Len(t) <= LineSize /\ LineSize \in Nat
           /\ \A j \in 1..Len(t) : t[j] \in Char /\ t[j] # NUL
           /\ \A j \in 1..Len(t) : t[j] \in Blank => t[j] = Space
           /\ t[Len(t)] \notin Blank /\ t[a - 1] = Space
<1>1. IsLine(line, t) /\ a \in 2..Len(t) /\ t[a - 1] = Space
  BY CallIsALine DEF Called
<1>2. Len(t) \in Nat
  BY <1>1, LenProperties DEF IsLine, Trims
<1>3. Len(t) > 1
  BY <1>1, <1>2
<1>. QED  BY <1>1, <1>2, <1>3, BlanksAreSpaces

\* A word that is cut off is what is read there.
LEMMA PieceIsRead ==
    ASSUME NEW l, NEW t, IsLine(l, t), Len(t) > 1, NEW S,
           NEW p \in 1..Len(t), NEW e \in (p + 1)..(Len(t) + 1),
           \A j \in p..(e - 1) : j \notin S, e <= Len(t) => e \in S
    PROVE  CString(Cut(t, S), p) = SubSeq(t, p, e - 1)
<1>. DEFINE b == Cut(t, S)
<1>1. /\ t \in Seq(Char) /\ Len(t) \in Nat /\ Len(t) <= LineSize /\ LineSize \in Nat
      /\ \A j \in 1..Len(t) : t[j] \in Char /\ t[j] # NUL
  BY BlanksAreSpaces
<1>2. /\ Len(b) = LineSize + 1
      /\ \A j \in 1..(LineSize + 1) : b[j] = IF j \in S \/ j > Len(t) THEN NUL ELSE t[j]
  BY <1>1, CutIsABuffer DEF IsBuffer
<1>. HIDE DEF b
<1>3. \A j \in p..(e - 1) : b[j] = t[j] /\ t[j] \in Char /\ t[j] # NUL
  <2>1. ASSUME NEW j \in p..(e - 1) PROVE b[j] = t[j] /\ t[j] \in Char /\ t[j] # NUL
    <3>1. j \in 1..Len(t) /\ j \in 1..(LineSize + 1) /\ ~ j > Len(t) /\ j \notin S
      BY <1>1
    <3>. QED  BY <1>1, <1>2, <3>1
  <2>. QED  BY <2>1
<1>4. b[e] = NUL
  <2>1. e \in 1..(LineSize + 1) /\ (e \in S \/ e > Len(t))
    BY <1>1
  <2>. QED  BY <1>2, <2>1
<1>5. FirstIn(b, p, {NUL}) = e
  <2>1. Len(b) \in Nat /\ e \in p..Len(b) /\ p \in Nat
    BY <1>1, <1>2
  <2>2. b[e] \in {NUL} /\ \A j \in p..(e - 1) : b[j] \notin {NUL}
    BY <1>3, <1>4
  <2>. QED  BY <2>1, <2>2, FoundAt
<1>6. SubSeq(b, p, e - 1) = SubSeq(t, p, e - 1)
  <2>1. p \in Int /\ e - 1 \in Int
    BY <1>1
  <2>. QED  BY <1>3, <2>1, SamePiece
<1>. QED  BY <1>5, <1>6 DEF CString, b

\* A command without arguments has no space behind it.
LEMMA NoSpace ==
    ASSUME NEW b, Len(b) \in Nat, SelectInSeq(b, LAMBDA c : c = Space) = 0
    PROVE  \A i \in 1..Len(b) : b[i] # Space
<1>. DEFINE I == {i \in 1..Len(b) : b[i] = Space}
            k == SelectInSeq(b, LAMBDA c : c = Space)
<1>1. k = IF I # {} THEN Min(I) ELSE 0
  BY DEF SelectInSeq
<1>2. k = 0 /\ I \in SUBSET Nat /\ 0 \notin I
  OBVIOUS
<1>. HIDE DEF k
<1>3. I = {}
  <2>. HIDE DEF I
  <2>. QED  BY <1>1, <1>2, MinIsLeast
<1>. QED  BY <1>3

\* A line is read: its command is in front of its first space, if there is one.
LEMMA PriorityIsCalled ==
    ASSUME TextInv, TextInv', ReadCommand
    PROVE  PriorityInv'
<1>. DEFINE l     == Line(LineSize)
            t     == trim_input(l)
            text  == InBuffer(t)
            k     == SelectInSeq(text, LAMBDA c : c = Space)
            split == IF k = 0 THEN text ELSE [text EXCEPT ![k] = NUL]
            found == {h \in DOMAIN Commands : CString(split, 1) = Commands[h]}
<1>1. /\ LineSize \in Nat \ {0} /\ CanRead(LineSize) /\ Read(LineSize)
      /\ line' = l /\ args' = IF k = 0 THEN NULL ELSE k + 1
      /\ \/ found = {} /\ handler' = "none" /\ at' = "end"
         \/ /\ handler' \in found
            /\ at' = IF handler' = "shutdown" THEN "answer"
                     ELSE IF args' = NULL THEN "end" ELSE "call"
      /\ asked' = [by |-> "none"]
  BY TextAssumption DEF ReadCommand
<1>2. /\ l \in Seq(Char) /\ Len(l) \in 1..LineSize
      /\ \A j \in 1..Len(l) : l[j] = Enter => j = Len(l)
  BY <1>1, ReadIsSaid
<1>3. IsLine(l, t)
  <2>1. Len(l) > 0 /\ Len(l) <= LineSize
    BY <1>1, <1>2
  <2>. QED  BY <1>2, <2>1, TrimIsPrefix DEF IsLine
<1>. HIDE DEF l
<1>4. t \in Seq(Char) /\ Len(t) \in Nat /\ Len(t) <= LineSize
  BY <1>1, <1>2, <1>3 DEF IsLine, Trims
<1>. HIDE DEF t
<1>5. /\ Len(text) = LineSize + 1 /\ LineSize + 1 \in Nat
      /\ \A j \in 1..Len(t) : j \in 1..Len(text) /\ text[j] = t[j]
  BY <1>1, <1>4 DEF InBuffer
<1>. HIDE DEF text
<1>6. k # 0 => k \in 1..Len(text) /\ text[k] = Space /\ \A i \in 1..(k - 1) : text[i] # Space
  BY <1>5, FirstSpace
<1>7. k = 0 => \A j \in 1..Len(t) : t[j] # Space
  <2>1. ASSUME k = 0 PROVE \A i \in 1..Len(text) : text[i] # Space
    BY <1>5, <2>1, NoSpace
  <2>. QED  BY <1>5, <2>1
<1>. HIDE DEF k, split, found
<1>8. at' \in {"end", "answer", "call"} /\ (at' = "answer" => handler' = "shutdown")
      /\ asked'.by = "none"
  BY <1>1
<1>9. ASSUME at' = "call"
      PROVE  Called(line', args', handler') /\ Splits(line', args')
  <2>1. Called(line', args', handler')
    BY <1>9 DEF TextInv, Takes
  <2>2. k # 0 /\ args' = k + 1
    BY <1>1, <1>9
  <2>3. args' \in 2..Len(t)
    BY <1>1, <2>1 DEF Called, t
  <2>4. ASSUME NEW j \in 1..(args' - 2) PROVE t[j] # Space
    <3>1. j \in 1..(k - 1) /\ j \in 1..Len(t)
      BY <1>4, <1>5, <1>6, <2>2, <2>3
    <3>. QED  BY <1>5, <1>6, <2>2, <3>1
  <2>. QED  BY <1>1, <2>1, <2>4 DEF Splits, t
<1>10. ASSUME at' = "end", handler' = "setpcbprio"
       PROVE  PriorityAsks'
  <2>1. k = 0
    <3>1. k # 0 => k + 1 # NULL
      BY <1>5, <1>6 DEF NULL
    <3>. QED  BY <1>1, <1>10, <3>1
  <2>2. trim_input(line') = t
    BY <1>1 DEF t
  <2>3. IsLine(line', t) /\ asked'.by = "none" /\ \A j \in 1..Len(t) : t[j] # Space
    BY <1>1, <1>3, <1>7, <2>1
  <2>. QED  BY <2>2, <2>3, Zenon DEF PriorityAsks
<1>. QED  BY <1>8, <1>9, <1>10 DEF PriorityInv

\* The first call of strtok finds the name.
LEMMA NameIsFound ==
    ASSUME TextInv, PriorityInv, FirstToken
    PROVE  PriorityInv'
<1>. DEFINE t == trim_input(line)
            r == strtok(buf, tok_tmp, args, Blank)
<1>1. /\ at = "call" /\ at' = "tokens"
      /\ buf' = r.buf /\ tok_tmp' = r.tok_tmp /\ token' = r.token
      /\ line' = line /\ args' = args /\ handler' = handler
      /\ tokens' = tokens /\ asked' = asked
  BY Zenon DEF FirstToken, Strtok
<1>2. /\ Called(line, args, handler) /\ Splits(line, args) /\ asked.by = "none"
      /\ buf = Cut(t, {args - 1}) /\ tokens = << >>
  BY <1>1 DEF TextInv, Takes, PriorityInv
<1>3. IsLine(line, t) /\ args \in 2..Len(t)
  BY <1>2, CallIsALine DEF Called
<1>4. FindsWord(t, {args - 1}, args, r)
  <2>. HIDE DEF t
  <2>1. (IF args # NULL THEN args ELSE tok_tmp) = args /\ \A j \in args..Len(t) : j \notin {args - 1}
    BY <1>3 DEF NULL
  <2>2. FindsWord(t, {args - 1}, args, strtok(Cut(t, {args - 1}), tok_tmp, args, Blank))
    BY <1>3, <2>1, WordIsFound
  <2>. QED  BY <1>2, <2>2, Zenon
<1>. HIDE DEF t, r
<1>5. PICK p \in Nat, e \in Nat :
          /\ FirstWord(t, args, p, e)
          /\ r = [buf |-> Cut(t, {args - 1} \union {e}), token |-> p,
                  tok_tmp |-> IF e <= Len(t) THEN e + 1 ELSE NULL]
  BY <1>4 DEF FindsWord
<1>6. /\ buf' = Cut(t, {args - 1, e}) /\ token' = p /\ tokens' = << >>
      /\ tok_tmp' = IF e <= Len(t) THEN e + 1 ELSE NULL
  <2>1. {args - 1} \union {e} = {args - 1, e}
    OBVIOUS
  <2>. QED  BY <1>1, <1>2, <1>5, <2>1
<1>7. PriorityTakes'
  <2>1. trim_input(line') = t /\ FirstWord(t, args', p, e) /\ buf' = Cut(t, {args' - 1, e})
    BY <1>1, <1>5, <1>6 DEF t
  <2>. QED  BY <1>6, <2>1, Zenon DEF PriorityTakes
<1>8. Called(line', args', handler') /\ Splits(line', args') /\ asked'.by = "none"
  BY <1>1, <1>2
<1>. QED  BY <1>1, <1>7, <1>8 DEF PriorityInv

\* Behind a word that is not the last one another one is found.
LEMMA NumberIsFound ==
    ASSUME TextInv, NEW h, Called(line, args, h), NEW t, t = trim_input(line),
           NEW a \in 2..Len(t), NEW p, NEW e, FirstWord(t, a, p, e), e <= Len(t),
           NEW S, \A j \in (e + 1)..Len(t) : j \notin S
    PROVE  FindsWord(t, S, e + 1, strtok(Cut(t, S), e + 1, NULL, Blank))
<1>1. /\ IsLine(line, t) /\ Len(t) \in Nat /\ t[Len(t)] \notin Blank
  BY CallHasText
<1>2. e \in 2..Len(t) /\ t[e] = Space
  BY <1>1 DEF FirstWord
<1>3. e # Len(t)
  BY <1>1, <1>2, CharsDiffer
<1>4. e + 1 \in 2..Len(t) /\ (IF NULL # NULL THEN NULL ELSE e + 1) = e + 1
  BY <1>1, <1>2, <1>3
<1>. QED  BY <1>1, <1>4, WordIsFound

\* The loop of setpcbprio keeps the name, finds the number and keeps it.
LEMMA NumberIsKept ==
    ASSUME TextInv, PriorityInv, NextToken
    PROVE  PriorityInv'
<1>. DEFINE t == trim_input(line)
            r == strtok(buf, tok_tmp, NULL, Separators(handler))
<1>1. /\ at = "tokens" /\ at' = at /\ token # NULL /\ Len(tokens) < 2
      /\ tokens' = Append(tokens, token)
      /\ buf' = r.buf /\ tok_tmp' = r.tok_tmp /\ token' = r.token
      /\ line' = line /\ args' = args /\ handler' = handler /\ asked' = asked
  BY Zenon DEF NextToken, Strtok
<1>2. Called(line, args, handler) /\ Splits(line, args) /\ asked.by = "none"
  BY <1>1 DEF PriorityInv
<1>3. ASSUME handler = "setpcbprio" PROVE PriorityTakes'
  <2>1. /\ IsLine(line, t) /\ args \in 2..Len(t) /\ Len(t) \in Nat /\ Len(t) > 1
    BY <1>2, CallHasText
  <2>2. r = strtok(buf, tok_tmp, NULL, Blank)
    BY <1>3, CharsDiffer DEF Separators
  <2>3. trim_input(line') = t
    BY <1>1
  <2>4. PICK p \in Nat, e \in Nat :
            /\ FirstWord(t, args, p, e)
            /\ \/ /\ tokens = << >> /\ token = p
                  /\ buf = Cut(t, {args - 1, e})
                  /\ tok_tmp = IF e <= Len(t) THEN e + 1 ELSE NULL
               \/ e > Len(t) /\ tokens = <<p>> /\ token = NULL
               \/ \E q, f \in Nat :
                      /\ e <= Len(t) /\ FirstWord(t, e + 1, q, f)
                      /\ \/ /\ tokens = <<p>> /\ token = q
                            /\ buf = Cut(t, {args - 1, e, f})
                            /\ tok_tmp = IF f <= Len(t) THEN f + 1 ELSE NULL
                         \/ /\ tokens = <<p, q>>
                            /\ CString(buf, p) = SubSeq(t, p, e - 1)
                            /\ CString(buf, q) = SubSeq(t, q, f - 1)
    BY <1>1, <1>3, Zenon DEF PriorityInv, PriorityTakes
  <2>. HIDE DEF t, r
  <2>5. p \in args..Len(t) /\ e \in (p + 1)..(Len(t) + 1)
    BY <2>4 DEF FirstWord
  <2>6. CASE tokens = << >> /\ token = p /\ buf = Cut(t, {args - 1, e})
             /\ tok_tmp = IF e <= Len(t) THEN e + 1 ELSE NULL
    <3>1. tokens' = <<p>>
      BY <1>1, <2>6
    <3>2. CASE e > Len(t)
      <4>1. token' = NULL
        BY <1>1, <2>1, <2>2, <2>5, <2>6, <3>2, NothingIsLeft
      <4>. QED  BY <1>1, <2>3, <2>4, <3>1, <3>2, <4>1, Zenon DEF PriorityTakes
    <3>3. CASE e <= Len(t)
      <4>. DEFINE S == {args - 1, e}
      <4>1. FindsWord(t, S, e + 1, r)
        <5>1. \A j \in (e + 1)..Len(t) : j \notin S
          BY <2>1, <2>5
        <5>. HIDE DEF S
        <5>2. FindsWord(t, S, e + 1, strtok(Cut(t, S), e + 1, NULL, Blank))
          BY <1>2, <2>1, <2>4, <3>3, <5>1, NumberIsFound DEF t
        <5>3. r = strtok(Cut(t, S), e + 1, NULL, Blank)
          BY <2>2, <2>6, <3>3 DEF S
        <5>. QED  BY <5>2, <5>3, Zenon
      <4>2. PICK q \in Nat, f \in Nat :
                /\ FirstWord(t, e + 1, q, f)
                /\ r = [buf |-> Cut(t, S \union {f}), token |-> q,
                        tok_tmp |-> IF f <= Len(t) THEN f + 1 ELSE NULL]
        <5>. HIDE DEF S
        <5>. QED  BY <4>1 DEF FindsWord
      <4>3. /\ token' = q /\ buf' = Cut(t, {args - 1, e, f})
            /\ tok_tmp' = IF f <= Len(t) THEN f + 1 ELSE NULL
        <5>1. S \union {f} = {args - 1, e, f}
          OBVIOUS
        <5>. QED  BY <1>1, <4>2, <5>1
      <4>4. args' = args
        BY <1>1
      <4>. QED  BY <2>3, <2>4, <3>1, <3>3, <4>2, <4>3, <4>4, Zenon DEF PriorityTakes
    <3>. QED  BY <2>1, <2>5, <3>2, <3>3
  <2>7. CASE e > Len(t) /\ tokens = <<p>> /\ token = NULL
    BY <1>1, <2>7
  <2>8. ASSUME NEW q \in Nat, NEW f \in Nat, e <= Len(t), FirstWord(t, e + 1, q, f)
        PROVE  tokens = <<p>> /\ token = q /\ buf = Cut(t, {args - 1, e, f})
                 /\ tok_tmp = (IF f <= Len(t) THEN f + 1 ELSE NULL) => PriorityTakes'
    <3>. SUFFICES ASSUME tokens = <<p>>, token = q, buf = Cut(t, {args - 1, e, f}),
                         tok_tmp = IF f <= Len(t) THEN f + 1 ELSE NULL
                  PROVE  PriorityTakes'
      OBVIOUS
    <3>1. tokens' = <<p, q>>
      BY <1>1, TwoTokens
    <3>2. q \in (e + 1)..Len(t) /\ f \in (q + 1)..(Len(t) + 1)
      BY <2>8 DEF FirstWord
    <3>3. PICK S : buf' = Cut(t, S) /\ {e, f} \subseteq S /\ \A j \in p..(f - 1) : j # e => j \notin S
      <4>1. CASE f > Len(t)
        <5>1. ~ f <= Len(t)
          BY <2>1, <3>2, <4>1
        <5>2. buf' = Cut(t, {args - 1, e, f})
          BY <1>1, <2>2, <5>1, NothingIsLeft
        <5>3. \A j \in p..(f - 1) : j # e => j \notin {args - 1, e, f}
          BY <2>1, <2>5, <3>2
        <5>. QED  BY <5>2, <5>3
      <4>2. CASE f <= Len(t)
        <5>. DEFINE S == {args - 1, e, f}
        <5>1. FindsWord(t, S, f + 1, r)
          <6>1. (\A j \in (f + 1)..Len(t) : j \notin S) /\ e + 1 \in 2..Len(t)
            BY <2>1, <2>5, <3>2, <4>2
          <6>. HIDE DEF S
          <6>2. FindsWord(t, S, f + 1, strtok(Cut(t, S), f + 1, NULL, Blank))
            BY <1>2, <2>8, <4>2, <6>1, NumberIsFound DEF t
          <6>3. r = strtok(Cut(t, S), f + 1, NULL, Blank)
            BY <2>2, <4>2 DEF S
          <6>. QED  BY <6>2, <6>3, Zenon
        <5>2. PICK n \in Nat, g \in Nat :
                  /\ FirstWord(t, f + 1, n, g)
                  /\ r = [buf |-> Cut(t, S \union {g}), token |-> n,
                          tok_tmp |-> IF g <= Len(t) THEN g + 1 ELSE NULL]
          <6>. HIDE DEF S
          <6>. QED  BY <5>1 DEF FindsWord
        <5>3. g > f
          <6>1. n \in (f + 1)..Len(t) /\ g \in (n + 1)..(Len(t) + 1)
            BY <5>2 DEF FirstWord
          <6>. QED  BY <6>1
        <5>4. buf' = Cut(t, S \union {g})
          BY <1>1, <5>2
        <5>5. {e, f} \subseteq S \union {g}
          OBVIOUS
        <5>6. \A j \in p..(f - 1) : j # e => j \notin S \union {g}
          BY <2>1, <2>5, <3>2, <5>3
        <5>. HIDE DEF S
        <5>. QED  BY <5>4, <5>5, <5>6
      <4>. QED  BY <2>1, <3>2, <4>1, <4>2
    <3>4. CString(Cut(t, S), p) = SubSeq(t, p, e - 1)
      <4>1. p \in 1..Len(t) /\ e \in S /\ \A j \in p..(e - 1) : j \notin S
        BY <2>1, <2>5, <3>2, <3>3
      <4>. QED  BY <2>1, <2>5, <4>1, PieceIsRead
    <3>5. CString(Cut(t, S), q) = SubSeq(t, q, f - 1)
      <4>1. q \in 1..Len(t) /\ f \in S /\ \A j \in q..(f - 1) : j \notin S
        BY <2>1, <2>5, <3>2, <3>3
      <4>. QED  BY <2>1, <3>2, <4>1, PieceIsRead
    <3>6. CString(buf', p) = SubSeq(t, p, e - 1) /\ CString(buf', q) = SubSeq(t, q, f - 1)
      BY <3>3, <3>4, <3>5
    <3>7. args' = args
      BY <1>1
    <3>. QED  BY <2>3, <2>4, <2>8, <3>1, <3>6, <3>7, Zenon DEF PriorityTakes
  <2>9. ASSUME NEW q \in Nat, NEW f \in Nat PROVE tokens # <<p, q>>
    <3>1. Len(<<p, q>>) = 2
      OBVIOUS
    <3>. QED  BY <1>1, <3>1
  <2>. QED  BY <2>4, <2>6, <2>7, <2>8, <2>9, Zenon
<1>4. Called(line', args', handler') /\ Splits(line', args') /\ asked'.by = "none"
  BY <1>1, <1>2
<1>. QED  BY <1>1, <1>3, <1>4 DEF PriorityInv

\* setpcbprio asks for what it has kept, or its arguments were refused.
LEMMA PriorityIsAsked ==
    ASSUME TextInv, PriorityInv, SetPriority \/ SetAlarm \/ Refuse
    PROVE  PriorityInv'
<1>. DEFINE t == trim_input(line)
<1>1. /\ at = "tokens" /\ at' = "end" /\ NoMoreTokens
      /\ line' = line /\ args' = args /\ handler' = handler /\ tokens' = tokens
  BY DEF SetPriority, SetAlarm, Refuse, Finished, NoMoreTokens, tokVars
<1>2. ASSUME handler = "setpcbprio" PROVE PriorityAsks'
  <2>1. Called(line, args, "setpcbprio") /\ Splits(line, args) /\ asked.by = "none"
    BY <1>1, <1>2 DEF PriorityInv
  <2>2. /\ IsLine(line, t) /\ args \in 2..Len(t) /\ Len(t) \in Nat
        /\ \A j \in 1..Len(t) : t[j] \in Char
    BY <2>1, CallHasText
  <2>3. trim_input(line') = t /\ Called(line', args, "setpcbprio") /\ Splits(line', args)
    BY <1>1, <2>1
  <2>4. PICK p \in Nat, e \in Nat :
            /\ FirstWord(t, args, p, e)
            /\ \/ /\ tokens = << >> /\ token = p
                  /\ buf = Cut(t, {args - 1, e})
                  /\ tok_tmp = IF e <= Len(t) THEN e + 1 ELSE NULL
               \/ e > Len(t) /\ tokens = <<p>> /\ token = NULL
               \/ \E q, f \in Nat :
                      /\ e <= Len(t) /\ FirstWord(t, e + 1, q, f)
                      /\ \/ /\ tokens = <<p>> /\ token = q
                            /\ buf = Cut(t, {args - 1, e, f})
                            /\ tok_tmp = IF f <= Len(t) THEN f + 1 ELSE NULL
                         \/ /\ tokens = <<p, q>>
                            /\ CString(buf, p) = SubSeq(t, p, e - 1)
                            /\ CString(buf, q) = SubSeq(t, q, f - 1)
    BY <1>1, <1>2, Zenon DEF PriorityInv, PriorityTakes
  <2>. HIDE DEF t
  <2>5. p \in args..Len(t) /\ e \in (p + 1)..(Len(t) + 1) /\ args \in Nat
    BY <2>2, <2>4 DEF FirstWord
  <2>6. /\ Len(<< >>) = 0 /\ Len(<<p>>) = 1
        /\ \A q \in Nat : Len(<<p, q>>) = 2 /\ <<p, q>>[1] = p /\ <<p, q>>[2] = q
    OBVIOUS
  <2>7. CASE tokens = << >> /\ token = p /\ buf = Cut(t, {args - 1, e})
             /\ tok_tmp = IF e <= Len(t) THEN e + 1 ELSE NULL
    BY <1>1, <2>2, <2>5, <2>6, <2>7 DEF NoMoreTokens, NULL
  <2>8. CASE e > Len(t) /\ tokens = <<p>> /\ token = NULL
    <3>1. asked' = asked
      BY <1>2, <2>6, <2>8 DEF SetPriority, SetAlarm, Refuse
    <3>2. e > Len(t) /\ asked'.by = "none"
      BY <2>1, <2>8, <3>1
    <3>. QED  BY <2>3, <2>4, <2>5, <3>2, Zenon DEF PriorityAsks
  <2>9. ASSUME NEW q \in Nat, NEW f \in Nat, e <= Len(t), FirstWord(t, e + 1, q, f)
        PROVE  /\ ~ (tokens = <<p>> /\ token = q)
               /\ tokens = <<p, q>> /\ CString(buf, p) = SubSeq(t, p, e - 1)
                    /\ CString(buf, q) = SubSeq(t, q, f - 1)
                      => PriorityAsks'
    <3>1. q \in (e + 1)..Len(t) /\ f \in (q + 1)..(Len(t) + 1)
      BY <2>9 DEF FirstWord
    <3>2. ASSUME tokens = <<p>>, token = q PROVE FALSE
      BY <1>1, <2>2, <2>5, <2>6, <3>1, <3>2 DEF NoMoreTokens, NULL
    <3>3. ASSUME tokens = <<p, q>>, CString(buf, p) = SubSeq(t, p, e - 1),
                 CString(buf, q) = SubSeq(t, q, f - 1)
          PROVE  PriorityAsks'
      <4>1. /\ Len(tokens) = 2 /\ Token(1) = SubSeq(t, p, e - 1)
            /\ Token(2) = SubSeq(t, q, f - 1)
        BY <2>6, <3>3 DEF Token
      <4>2. Len(SubSeq(t, p, e - 1)) = e - p
        <5>1. \A i \in p..(e - 1) : t[i] \in Char
          BY <2>2, <2>5
        <5>2. Len(SubSeq(t, p, e - 1)) = IF p <= e - 1 THEN e - 1 - p + 1 ELSE 0
          BY <2>5, <5>1, SubSeqProperties
        <5>. QED  BY <2>2, <2>5, <5>2
      <4>3. CASE SetPriority
        <5>1. /\ e - p <= NameSize
              /\ asked' = [by |-> "setpcbprio", name |-> SubSeq(t, p, e - 1),
                           priority |-> atoi(SubSeq(t, q, f - 1))]
          BY <1>2, <4>1, <4>2, <4>3 DEF SetPriority
        <5>. QED  BY <2>3, <2>4, <2>5, <2>9, <5>1, Zenon DEF PriorityAsks
      <4>4. CASE Refuse
        <5>1. Len(Token(1)) > NameSize /\ asked' = asked
          BY <4>1, <4>4 DEF Refuse
        <5>2. e - p > NameSize /\ asked'.by = "none"
          BY <2>1, <4>1, <4>2, <5>1
        <5>. QED  BY <2>3, <2>4, <2>5, <2>9, <5>2, Zenon DEF PriorityAsks
      <4>5. CASE SetAlarm
        BY <1>2, <4>5 DEF SetAlarm
      <4>. QED  BY <4>3, <4>4, <4>5
    <3>. QED  BY <3>2, <3>3
  <2>. QED  BY <2>4, <2>7, <2>8, <2>9, Zenon
<1>. QED  BY <1>1, <1>2 DEF PriorityInv

\* No other step disturbs it: shutdown asks for no priority, and at the prompt
\* nobody has asked yet.
LEMMA PriorityGoesOn ==
    ASSUME TextInv, PriorityInv, ReadAnswer \/ ComhandEnd \/ UNCHANGED vars
    PROVE  PriorityInv'
<1>1. CASE ReadAnswer
  <2>1. at = "answer" /\ at' = "end" /\ handler' = handler
    BY <1>1 DEF ReadAnswer
  <2>. QED  BY <2>1 DEF PriorityInv
<1>2. CASE ComhandEnd
  <2>1. at' \in {"off", "prompt"}
    BY <1>2 DEF ComhandEnd
  <2>. QED  BY <2>1 DEF PriorityInv
<1>3. CASE UNCHANGED vars
  <2>1. /\ line' = line /\ args' = args /\ handler' = handler /\ buf' = buf /\ tok_tmp' = tok_tmp
        /\ token' = token /\ tokens' = tokens /\ asked' = asked /\ at' = at
    BY <1>3 DEF vars, tokVars
  <2>2. PriorityTakes' = PriorityTakes
    BY <2>1 DEF PriorityTakes
  <2>3. PriorityAsks' = PriorityAsks
    BY <2>1 DEF PriorityAsks
  <2>. QED  BY <2>1, <2>2, <2>3 DEF PriorityInv
<1>. QED  BY <1>1, <1>2, <1>3

\* For every line, every reachable state has what setpcbprio keeps between its
\* calls of strtok, and what it then asks for (setpcbprio in user/interface.c).
THEOREM PriorityIsFound == Spec => [](TextInv /\ PriorityInv)
<1>1. Init => PriorityInv
  BY DEF Init, PriorityInv
<1>2. TextInv /\ TextInv' /\ PriorityInv /\ [Next]_vars => PriorityInv'
  <2>. SUFFICES ASSUME TextInv, TextInv', PriorityInv, [Next]_vars PROVE PriorityInv'
    OBVIOUS
  <2>1. CASE ReadCommand
    BY <2>1, PriorityIsCalled
  <2>2. CASE FirstToken
    BY <2>2, NameIsFound
  <2>3. CASE NextToken
    BY <2>3, NumberIsKept
  <2>4. CASE SetPriority \/ SetAlarm \/ Refuse
    BY <2>4, PriorityIsAsked
  <2>5. CASE ReadAnswer \/ ComhandEnd \/ UNCHANGED vars
    BY <2>5, PriorityGoesOn
  <2>. QED  BY <2>1, <2>2, <2>3, <2>4, <2>5 DEF Next
<1>. QED  BY <1>1, <1>2, TextIsTaken, PTL DEF Spec

----------------------------------------------------------------------------
(***************************************************************************)
(* The words of the line are the ones that strtok finds.                   *)
(***************************************************************************)
\* The places at which the words of a text begin.
Starts(s) == {i \in DOMAIN s : s[i] \notin Blank /\ (i = 1 \/ s[i - 1] \in Blank)}

\* A text has as many words as places where one begins.
LEMMA StartsAreFinite ==
    ASSUME NEW s \in Seq(Char)
    PROVE  /\ Starts(s) \subseteq 1..Len(s) /\ IsFiniteSet(Starts(s)) /\ Len(s) \in Nat
           /\ Cardinality(Starts(s)) \in Nat /\ Len(Words(s)) = Cardinality(Starts(s))
<1>1. Starts(s) \subseteq 1..Len(s) /\ Len(s) \in Nat
  BY LenProperties DEF Starts
<1>2. IsFiniteSet(Starts(s)) /\ Cardinality(Starts(s)) \in Nat
  <2>1. IsFiniteSet(1..Len(s))
    BY <1>1, FS_Interval
  <2>2. IsFiniteSet(Starts(s))
    BY <1>1, <2>1, FS_Subset
  <2>. QED  BY <2>2, FS_CardinalityType
<1>. DEFINE N    == 1..Cardinality(Starts(s))
            F(n) == LET i == CHOOSE i \in Starts(s) : Cardinality({k \in Starts(s) : k <= i}) = n
                        j == CHOOSE j \in i..Len(s) :
                                 /\ \A k \in i..j : s[k] \notin Blank
                                 /\ i = 1 \/ s[i - 1] \in Blank
                                 /\ j = Len(s) \/ s[j + 1] \in Blank
                    IN  SubSeq(s, i, j)
<1>3. Words(s) = [n \in N |-> F(n)]
  BY Zenon DEF Words, Starts
<1>. HIDE DEF F
<1>. QED  BY <1>1, <1>2, <1>3

\* Words are counted from the left, and end in front of the next blank.
LEMMA WordIs ==
    ASSUME NEW s \in Seq(Char), NEW i \in Starts(s), NEW f \in (i + 1)..(Len(s) + 1),
           \A k \in i..(f - 1) : s[k] \notin Blank, f <= Len(s) => s[f] \in Blank,
           NEW n \in Nat, Cardinality({k \in Starts(s) : k <= i}) = n
    PROVE  n <= Len(Words(s)) /\ (n # 0 => Words(s)[n] = SubSeq(s, i, f - 1))
<1>. DEFINE S     == Starts(s)
            to(x) == {k \in S : k <= x}
<1>1. /\ S \subseteq 1..Len(s) /\ IsFiniteSet(S) /\ Len(s) \in Nat
      /\ Cardinality(S) \in Nat /\ Len(Words(s)) = Cardinality(S)
  BY StartsAreFinite
<1>2. i \in 1..Len(s) /\ (i = 1 \/ s[i - 1] \in Blank)
  BY DEF Starts
<1>. HIDE DEF S
<1>3. \A x \in S : IsFiniteSet(to(x)) /\ Cardinality(to(x)) <= Cardinality(S)
  <2>1. ASSUME NEW x \in S PROVE IsFiniteSet(to(x)) /\ Cardinality(to(x)) <= Cardinality(S)
    <3>1. to(x) \in SUBSET S
      OBVIOUS
    <3>. QED  BY <1>1, <3>1, FS_Subset
  <2>. QED  BY <2>1
<1>4. \A x, y \in S : x < y => Cardinality(to(x)) # Cardinality(to(y))
  <2>1. ASSUME NEW x \in S, NEW y \in S, x < y, Cardinality(to(x)) = Cardinality(to(y)) PROVE FALSE
    <3>1. x \in Int /\ y \in Int
      BY <1>1
    <3>2. to(x) \in SUBSET to(y) /\ y \in to(y) /\ y \notin to(x)
      <4>1. \A k \in S : k <= x => k <= y
        BY <1>1, <2>1, <3>1
      <4>2. y <= y /\ ~ y <= x
        BY <2>1, <3>1
      <4>. QED  BY <4>1, <4>2
    <3>3. to(y) = to(x)
      <4>. DEFINE A == to(x)
                  B == to(y)
      <4>1. IsFiniteSet(B) /\ A \in SUBSET B /\ Cardinality(A) = Cardinality(B)
        BY <1>3, <2>1, <3>2
      <4>. HIDE DEF A, B
      <4>2. A = B
        BY <4>1, FS_Subset
      <4>. QED  BY <4>2 DEF A, B
    <3>. QED  BY <3>2, <3>3
  <2>. QED  BY <2>1
<1>. DEFINE x == CHOOSE x \in S : Cardinality({k \in S : k <= x}) = n
<1>5. x = i
  <2>1. i \in S /\ Cardinality(to(i)) = n
    BY DEF S
  <2>2. x \in S /\ Cardinality(to(x)) = n
    BY <2>1
  <2>. HIDE DEF x
  <2>3. ~ x < i /\ ~ i < x
    BY <1>4, <2>1, <2>2
  <2>. QED  BY <1>1, <2>1, <2>2, <2>3
<1>. HIDE DEF x
<1>. DEFINE Ends(j) == /\ \A k \in i..j : s[k] \notin Blank
                       /\ i = 1 \/ s[i - 1] \in Blank
                       /\ j = Len(s) \/ s[j + 1] \in Blank
            y == CHOOSE j \in i..Len(s) : Ends(j)
<1>6. y = f - 1
  <2>1. f - 1 \in i..Len(s) /\ Ends(f - 1)
    BY <1>1, <1>2
  <2>2. y \in i..Len(s) /\ Ends(y)
    <3>. HIDE DEF Ends
    <3>. QED  BY <2>1
  <2>. HIDE DEF y
  <2>3. ~ y < f - 1
    <3>1. ASSUME y < f - 1 PROVE FALSE
      <4>1. y + 1 \in i..(f - 1) /\ y # Len(s)
        BY <1>1, <1>2, <2>2, <3>1
      <4>. QED  BY <2>2, <4>1
    <3>. QED  BY <3>1
  <2>4. ~ f - 1 < y
    <3>1. ASSUME f - 1 < y PROVE FALSE
      <4>1. f \in i..y /\ f <= Len(s)
        BY <1>1, <1>2, <2>2, <3>1
      <4>. QED  BY <2>2, <4>1
    <3>. QED  BY <3>1
  <2>. QED  BY <1>1, <1>2, <2>2, <2>3, <2>4
<1>. HIDE DEF y
<1>7. n <= Cardinality(S)
  <2>1. i \in S /\ Cardinality(to(i)) = n
    BY DEF S
  <2>. QED  BY <1>3, <2>1
<1>8. ASSUME n # 0 PROVE Words(s)[n] = SubSeq(s, x, y)
  <2>. DEFINE N    == 1..Cardinality(S)
              F(m) == LET a == CHOOSE a \in S : Cardinality({k \in S : k <= a}) = m
                          j == CHOOSE j \in a..Len(s) :
                                   /\ \A k \in a..j : s[k] \notin Blank
                                   /\ a = 1 \/ s[a - 1] \in Blank
                                   /\ j = Len(s) \/ s[j + 1] \in Blank
                      IN  SubSeq(s, a, j)
  <2>1. Words(s) = [m \in N |-> F(m)]
    BY Zenon DEF Words, Starts, S
  <2>2. n \in N
    BY <1>1, <1>7, <1>8
  <2>3. Words(s)[n] = F(n)
    <3>. HIDE DEF F, N
    <3>. QED  BY <2>1, <2>2
  <2>4. F(n) = SubSeq(s, x, CHOOSE j \in x..Len(s) :
                                   /\ \A k \in x..j : s[k] \notin Blank
                                   /\ x = 1 \/ s[x - 1] \in Blank
                                   /\ j = Len(s) \/ s[j + 1] \in Blank)
    BY Zenon DEF x
  <2>. HIDE DEF F
  <2>. QED  BY <1>5, <2>3, <2>4, Zenon DEF y
<1>. QED  BY <1>1, <1>5, <1>6, <1>7, <1>8

\* The word of the line s from p to e, the first one behind a.
WordOf(s, a, p, e) ==
    /\ p \in Starts(s) /\ e \in (p + 1)..(Len(s) + 1)
    /\ \A i \in Starts(s) : i >= a => i = p \/ i > e
    /\ \A k \in p..(e - 1) : s[k] \notin Blank
    /\ e <= Len(s) => s[e] \in Blank

\* What is found in the trimmed text is a word of the line, and the line has no
\* word behind the text.
LEMMA WordInLine ==
    ASSUME NEW l, NEW t, IsLine(l, t), NEW a \in 2..Len(t), t[a - 1] = Space,
           NEW p \in Nat, NEW e \in Nat, FirstWord(t, a, p, e)
    PROVE  /\ WordOf(l, a, p, e) /\ SubSeq(l, p, e - 1) = SubSeq(t, p, e - 1)
           /\ \A i \in Starts(l) : i <= Len(t)
<1>1. /\ l \in Seq(Char) /\ Len(l) \in Nat /\ Len(t) \in 1..Len(l)
      /\ \A j \in 1..Len(t) : t[j] = l[j]
      /\ \A j \in (Len(t) + 1)..Len(l) : l[j] \in {Space, Enter}
  BY LenProperties DEF IsLine, Trims
<1>2. /\ \A j \in 1..Len(t) : t[j] \in Char
      /\ t[Len(t)] \notin Blank /\ Len(t) \in Nat
  <2>1. Len(t) > 1
    BY <1>1
  <2>. QED  BY <1>1, <2>1, BlanksAreSpaces
<1>3. /\ p \in a..Len(t) /\ e \in (p + 1)..(Len(t) + 1)
      /\ \A j \in a..(p - 1) : t[j] = Space
      /\ \A j \in p..(e - 1) : t[j] \notin Blank
      /\ e <= Len(t) => t[e] = Space
  BY DEF FirstWord
<1>4. /\ \A j \in (a - 1)..(p - 1) : l[j] \in Blank
      /\ \A j \in p..(e - 1) : l[j] \notin Blank
      /\ e <= Len(l) => l[e] \in Blank
  <2>1. ASSUME NEW j \in (a - 1)..(p - 1) PROVE l[j] \in Blank
    <3>1. j \in 1..Len(t) /\ (j = a - 1 \/ j \in a..(p - 1))
      BY <1>1, <1>3
    <3>. QED  BY <1>1, <1>3, <3>1, CharsDiffer
  <2>2. ASSUME NEW j \in p..(e - 1) PROVE l[j] \notin Blank
    <3>1. j \in 1..Len(t)
      BY <1>1, <1>3
    <3>. QED  BY <1>1, <1>3, <3>1
  <2>3. ASSUME e <= Len(l) PROVE l[e] \in Blank
    <3>1. CASE e <= Len(t)
      <4>1. e \in 1..Len(t)
        BY <1>3, <3>1
      <4>. QED  BY <1>1, <1>3, <3>1, <4>1, CharsDiffer
    <3>2. CASE ~ e <= Len(t)
      <4>1. e \in (Len(t) + 1)..Len(l)
        BY <1>1, <2>3, <3>2
      <4>. QED  BY <1>1, <4>1, CharsDiffer
    <3>. QED  BY <3>1, <3>2
  <2>. QED  BY <2>1, <2>2, <2>3
<1>5. \A i \in Starts(l) : i \in 1..Len(l) /\ l[i] \notin Blank /\ (i = 1 \/ l[i - 1] \in Blank)
  BY <1>1, LenProperties DEF Starts
<1>6. \A i \in Starts(l) : i <= Len(t)
  <2>1. ASSUME NEW i \in Starts(l), ~ i <= Len(t) PROVE FALSE
    <3>1. i \in (Len(t) + 1)..Len(l)
      BY <1>1, <1>5, <2>1
    <3>. QED  BY <1>1, <1>5, <2>1, <3>1, CharsDiffer
  <2>. QED  BY <2>1
<1>7. p \in Starts(l)
  <2>1. p \in 1..Len(l) /\ p - 1 \in (a - 1)..(p - 1) /\ p \in p..(e - 1)
    BY <1>1, <1>3
  <2>. QED  BY <1>1, <1>4, <2>1, LenProperties DEF Starts
<1>8. ASSUME NEW i \in Starts(l), i >= a, i # p, ~ i > e PROVE FALSE
  <2>1. i \in 1..Len(l) /\ i # 1
    BY <1>3, <1>5, <1>8
  <2>2. ~ i \in a..(p - 1)
    BY <1>3, <1>4, <1>5
  <2>3. i \in (p + 1)..e
    BY <1>3, <1>8, <2>1, <2>2
  <2>4. i - 1 \in p..(e - 1)
    BY <1>3, <2>3
  <2>. QED  BY <1>4, <1>5, <2>1, <2>4
<1>9. WordOf(l, a, p, e)
  <2>1. e \in (p + 1)..(Len(l) + 1)
    BY <1>1, <1>3
  <2>. QED  BY <1>4, <1>7, <1>8, <2>1 DEF WordOf
<1>10. SubSeq(l, p, e - 1) = SubSeq(t, p, e - 1)
  <2>1. \A i \in p..(e - 1) : l[i] = t[i] /\ t[i] \in Char
    BY <1>1, <1>2, <1>3
  <2>2. p \in Int /\ e - 1 \in Int
    BY <1>3
  <2>. QED  BY <2>1, <2>2, SamePiece
<1>. QED  BY <1>6, <1>9, <1>10

\* The command is the first word of a line.
LEMMA CommandIsFirst ==
    ASSUME TextInv, NEW a, NEW h \in DOMAIN Commands, Called(line, a, h), Splits(line, a)
    PROVE  1 \in Starts(line) /\ a > 2 /\ \A i \in Starts(line) : i < a => i = 1
<1>. DEFINE t == trim_input(line)
<1>1. /\ IsLine(line, t) /\ a \in 2..Len(t) /\ Len(t) \in Nat
      /\ \A j \in 1..Len(t) : t[j] \in Blank => t[j] = Space
  BY CallHasText
<1>2. /\ line \in Seq(Char) /\ Len(line) \in Nat /\ Len(t) \in 1..Len(line)
      /\ \A j \in 1..Len(t) : t[j] = line[j]
  BY <1>1, LenProperties DEF IsLine, Trims
<1>3. SubSeq(t, 1, a - 2) # << >> /\ \A j \in 1..(a - 2) : t[j] # Space
  BY TextAssumption DEF Called, Splits
<1>. HIDE DEF t
<1>4. a > 2
  <2>1. SubSeq(t, 1, 0) = << >>
    BY SubSeqEmpty
  <2>2. a - 2 # 0
    BY <1>3, <2>1
  <2>. QED  BY <1>1, <2>2
<1>5. \A j \in 1..(a - 2) : line[j] \notin Blank
  <2>1. \A j \in 1..(a - 2) : j \in 1..Len(t)
    BY <1>1
  <2>. QED  BY <1>1, <1>2, <1>3, <2>1
<1>6. 1 \in Starts(line)
  <2>1. 1 \in 1..(a - 2) /\ 1 \in 1..Len(line)
    BY <1>1, <1>2, <1>4
  <2>. QED  BY <1>2, <1>5, <2>1, LenProperties DEF Starts
<1>7. ASSUME NEW i \in Starts(line), i < a, i # 1 PROVE FALSE
  <2>1. i \in 1..Len(line) /\ line[i - 1] \in Blank
    BY <1>2, <1>7, LenProperties DEF Starts
  <2>2. i - 1 \in 1..(a - 2)
    BY <1>1, <1>7, <2>1
  <2>. QED  BY <1>5, <2>1, <2>2
<1>. QED  BY <1>4, <1>6, <1>7

\* A command without arguments is all there is in its line.
LEMMA CommandIsAlone ==
    ASSUME NEW l, NEW t, IsLine(l, t), \A j \in 1..Len(t) : t[j] # Space
    PROVE  Len(Words(l)) \in Nat /\ Len(Words(l)) < 3
<1>1. /\ l \in Seq(Char) /\ Len(l) \in Nat /\ Len(t) \in 1..Len(l)
      /\ \A j \in 1..Len(t) : t[j] = l[j]
      /\ \A j \in (Len(t) + 1)..Len(l) : l[j] \in {Space, Enter}
      /\ \A j \in 1..Len(l) : l[j] = Enter => j = Len(l)
      /\ \A j \in 1..Len(l) : l[j] \in Char
  BY LenProperties DEF IsLine, Trims
<1>2. /\ Starts(l) \subseteq 1..Len(l) /\ Cardinality(Starts(l)) \in Nat
      /\ Len(Words(l)) = Cardinality(Starts(l))
  BY <1>1, StartsAreFinite
<1>3. ASSUME NEW i \in Starts(l), i # 1 PROVE FALSE
  <2>1. i \in 1..Len(l) /\ l[i] \notin Blank /\ l[i - 1] \in Blank
    BY <1>1, <1>3, LenProperties DEF Starts
  <2>2. i - 1 \in 1..Len(l) /\ i - 1 # Len(l)
    BY <1>1, <1>3, <2>1
  <2>3. l[i - 1] = Space
    BY <1>1, <2>1, <2>2, CharsDiffer
  <2>4. ~ i - 1 \in 1..Len(t)
    BY <1>1, <2>3
  <2>5. i \in (Len(t) + 1)..Len(l)
    BY <1>1, <2>1, <2>2, <2>4
  <2>. QED  BY <1>1, <2>1, <2>5, CharsDiffer
<1>4. Cardinality(Starts(l)) <= 1
  <2>1. IsFiniteSet({1}) /\ Cardinality({1}) = 1
    BY FS_Singleton, Zenon
  <2>2. Starts(l) \in SUBSET {1}
    BY <1>3
  <2>3. Cardinality(Starts(l)) <= Cardinality({1})
    BY <2>1, <2>2, FS_Subset
  <2>. QED  BY <2>1, <2>3
<1>. QED  BY <1>2, <1>4

\* Two and three places.
LEMMA TwoOrThree ==
    ASSUME NEW p \in Nat, p > 1
    PROVE  /\ IsFiniteSet({1, p}) /\ Cardinality({1, p}) = 2
           /\ \A q \in Nat : q > p => Cardinality({1, p, q}) = 3
<1>1. IsFiniteSet({1}) /\ Cardinality({1}) = 1
  BY FS_Singleton, Zenon
<1>2. IsFiniteSet({1} \union {p}) /\ Cardinality({1} \union {p}) = 2
  <2>1. p \notin {1}
    OBVIOUS
  <2>. QED  BY <1>1, <2>1, FS_AddElement
<1>3. {1} \union {p} = {1, p}
  OBVIOUS
<1>4. ASSUME NEW q \in Nat, q > p PROVE Cardinality({1, p, q}) = 3
  <2>1. q \notin {1, p}
    BY <1>4
  <2>2. Cardinality({1, p} \union {q}) = 3
    BY <1>2, <1>3, <2>1, FS_AddElement
  <2>3. {1, p} \union {q} = {1, p, q}
    OBVIOUS
  <2>. QED  BY <2>2, <2>3
<1>. QED  BY <1>2, <1>3, <1>4

\* For every line, setpcbprio asks for the second word and the number in the
\* third one, as far as an int holds it, and for nothing if there is no third word
\* or the name is too long: strtok and atoi get the right parts of the line,
\* whatever spaces are around them.
THEOREM PriorityIsTaken == Spec => []PriorityIsAsTyped
<1>1. ASSUME TextInv, PriorityInv, at = "end", handler = "setpcbprio"
      PROVE  LET w == Words(line)
             IN  IF Len(w) < 3 \/ Len(w[2]) > NameSize
                 THEN asked.by = "none"
                 ELSE /\ asked.by = handler
                      /\ asked.name = w[2]
                      /\ asked.priority \in Ints
                      /\ (asked.priority - Value(w[3])) % HowManyInts = 0
  <2>. DEFINE t == trim_input(line)
              w == Words(line)
              Right == IF Len(w) < 3 \/ Len(w[2]) > NameSize
                       THEN asked.by = "none"
                       ELSE /\ asked.by = handler
                            /\ asked.name = w[2]
                            /\ asked.priority \in Ints
                            /\ (asked.priority - Value(w[3])) % HowManyInts = 0
  <2>1. PriorityAsks
    BY <1>1 DEF PriorityInv
  <2>2. ASSUME asked.by = "none", IsLine(line, t), \A j \in 1..Len(t) : t[j] # Space
        PROVE  Right
    <3>. HIDE DEF t
    <3>1. Len(w) < 3
      BY <2>2, CommandIsAlone
    <3>. QED  BY <2>2, <3>1
  <2>3. ASSUME NEW a \in Nat, NEW p \in Nat, NEW e \in Nat,
               Called(line, a, "setpcbprio"), Splits(line, a), FirstWord(t, a, p, e)
        PROVE  /\ e > Len(t) /\ asked.by = "none" => Right
               /\ \A q, f \in Nat :
                      e <= Len(t) /\ FirstWord(t, e + 1, q, f)
                      /\ (\/ e - p > NameSize /\ asked.by = "none"
                          \/ /\ e - p <= NameSize
                             /\ asked = [by |-> "setpcbprio", name |-> SubSeq(t, p, e - 1),
                                         priority |-> atoi(SubSeq(t, q, f - 1))])
                        => Right
    <3>1. /\ IsLine(line, t) /\ a \in 2..Len(t) /\ Len(t) \in Nat /\ t[a - 1] = Space
          /\ \A j \in 1..Len(t) : t[j] \in Char
          /\ t[Len(t)] \notin Blank
      BY <1>1, <2>3, CallHasText
    <3>2. 1 \in Starts(line) /\ a > 2 /\ \A i \in Starts(line) : i < a => i = 1
      <4>1. "setpcbprio" \in DOMAIN Commands
        BY TextAssumption
      <4>. QED  BY <1>1, <2>3, <4>1, CommandIsFirst
    <3>. HIDE DEF t
    <3>3. /\ WordOf(line, a, p, e) /\ SubSeq(line, p, e - 1) = SubSeq(t, p, e - 1)
          /\ \A i \in Starts(line) : i <= Len(t)
      BY <2>3, <3>1, WordInLine
    <3>4. p \in a..Len(t) /\ e \in (p + 1)..(Len(t) + 1) /\ (e <= Len(t) => t[e] = Space)
      BY <2>3 DEF FirstWord
    <3>5. /\ line \in Seq(Char) /\ Starts(line) \subseteq 1..Len(line) /\ IsFiniteSet(Starts(line))
          /\ Cardinality(Starts(line)) \in Nat /\ Len(w) = Cardinality(Starts(line))
      BY <3>1, StartsAreFinite DEF IsLine
    <3>6. \A i \in Starts(line) : i \in Int /\ (i = 1 \/ i = p \/ i > e)
      BY <3>1, <3>2, <3>3, <3>5 DEF WordOf
    <3>7. IsFiniteSet({1, p}) /\ Cardinality({1, p}) = 2
          /\ \A q \in Nat : q > p => Cardinality({1, p, q}) = 3
      <4>1. p > 1
        BY <3>1, <3>4
      <4>. QED  BY <4>1, TwoOrThree
    <3>. HIDE DEF w
    <3>8. ASSUME e > Len(t), asked.by = "none" PROVE Right
      <4>1. Starts(line) \in SUBSET {1, p}
        BY <3>1, <3>3, <3>4, <3>6, <3>8
      <4>2. Cardinality(Starts(line)) <= 2
        BY <3>7, <4>1, FS_Subset
      <4>3. Len(w) < 3
        BY <3>5, <4>2
      <4>. QED  BY <3>8, <4>3
    <3>9. ASSUME NEW q \in Nat, NEW f \in Nat, e <= Len(t), FirstWord(t, e + 1, q, f),
                 \/ e - p > NameSize /\ asked.by = "none"
                 \/ /\ e - p <= NameSize
                    /\ asked = [by |-> "setpcbprio", name |-> SubSeq(t, p, e - 1),
                                priority |-> atoi(SubSeq(t, q, f - 1))]
          PROVE  Right
      <4>1. e + 1 \in 2..Len(t) /\ t[e + 1 - 1] = Space
        <5>1. e # Len(t)
          BY <3>1, <3>4, <3>9, CharsDiffer
        <5>. QED  BY <3>1, <3>4, <3>9, <5>1
      <4>2. /\ WordOf(line, e + 1, q, f) /\ SubSeq(line, q, f - 1) = SubSeq(t, q, f - 1)
        BY <3>1, <3>9, <4>1, WordInLine
      <4>3. q \in (e + 1)..Len(t) /\ f \in (q + 1)..(Len(t) + 1)
        BY <3>9 DEF FirstWord
      <4>4. \A i \in Starts(line) : i = 1 \/ i = p \/ i = q \/ i > f
        BY <3>4, <3>6, <4>2 DEF WordOf
      <4>5. w[2] = SubSeq(t, p, e - 1)
        <5>1. {k \in Starts(line) : k <= p} = {1, p}
          <6>1. 1 <= p /\ p <= p /\ \A k \in Starts(line) : k <= p => k \in {1, p}
            BY <3>1, <3>4, <3>6
          <6>2. 1 \in Starts(line) /\ p \in Starts(line)
            BY <3>2, <3>3 DEF WordOf
          <6>. QED  BY <6>1, <6>2
        <5>2. 2 <= Len(w) /\ w[2] = SubSeq(line, p, e - 1)
          BY <3>3, <3>5, <3>7, <5>1, WordIs, SMTT(20) DEF WordOf, w
        <5>. QED  BY <3>3, <5>2
      <4>6. Len(w) >= 3 /\ w[3] = SubSeq(t, q, f - 1)
        <5>1. {k \in Starts(line) : k <= q} = {1, p, q}
          <6>1. 1 <= q /\ p <= q /\ q <= q
            BY <3>1, <3>4, <4>3
          <6>2. \A k \in Starts(line) : k <= q => k \in {1, p, q}
            BY <3>6, <4>3, <4>4
          <6>3. 1 \in Starts(line) /\ p \in Starts(line) /\ q \in Starts(line)
            BY <3>2, <3>3, <4>2 DEF WordOf
          <6>. QED  BY <6>1, <6>2, <6>3
        <5>2. q > p
          BY <3>4, <4>3
        <5>3. Cardinality({k \in Starts(line) : k <= q}) = 3
          BY <3>7, <5>1, <5>2
        <5>4. /\ q \in Starts(line) /\ f \in (q + 1)..(Len(line) + 1)
              /\ \A k \in q..(f - 1) : line[k] \notin Blank
              /\ f <= Len(line) => line[f] \in Blank
          BY <4>2 DEF WordOf
        <5>5. 3 <= Len(w) /\ w[3] = SubSeq(line, q, f - 1)
          BY <3>5, <5>3, <5>4, WordIs DEF w
        <5>. QED  BY <3>5, <4>2, <5>5
      <4>7. Len(w[2]) = e - p
        <5>1. \A i \in p..(e - 1) : t[i] \in Char
          BY <3>1, <3>4
        <5>2. Len(SubSeq(t, p, e - 1)) = IF p <= e - 1 THEN e - 1 - p + 1 ELSE 0
          BY <3>4, <5>1, SubSeqProperties
        <5>. QED  BY <3>1, <3>4, <4>5, <5>2
      <4>8. SubSeq(t, q, f - 1) \in Seq(Char) /\ SubSeq(t, q, f - 1) # << >>
        <5>1. \A i \in q..(f - 1) : t[i] \in Char
          BY <3>1, <4>1, <4>3
        <5>2. /\ SubSeq(t, q, f - 1) \in Seq(Char)
              /\ Len(SubSeq(t, q, f - 1)) = IF q <= f - 1 THEN f - 1 - q + 1 ELSE 0
          BY <4>3, <5>1, SubSeqProperties
        <5>3. Len(SubSeq(t, q, f - 1)) # 0
          BY <3>1, <4>3, <5>2
        <5>. QED  BY <5>2, <5>3
      <4>9. /\ atoi(w[3]) \in Ints /\ (atoi(w[3]) - Value(w[3])) % HowManyInts = 0
        BY <4>6, <4>8, AtoiIsValue
      <4>10. NameSize \in Nat /\ ~ Len(w) < 3
        BY <3>5, <4>6, TextAssumption
      <4>11. CASE e - p > NameSize /\ asked.by = "none"
        BY <4>7, <4>11
      <4>12. CASE e - p <= NameSize /\ asked = [by |-> "setpcbprio", name |-> SubSeq(t, p, e - 1),
                                               priority |-> atoi(SubSeq(t, q, f - 1))]
        <5>1. ~ Len(w[2]) > NameSize
          BY <3>1, <3>4, <4>7, <4>10, <4>12
        <5>2. asked.by = handler /\ asked.name = w[2] /\ asked.priority = atoi(w[3])
          BY <1>1, <4>5, <4>6, <4>12
        <5>. QED  BY <4>9, <4>10, <5>1, <5>2
      <4>. QED  BY <3>9, <4>11, <4>12
    <3>. QED  BY <3>8, <3>9
  <2>4. Right
    <3>. HIDE DEF Right
    <3>1. \/ /\ asked.by = "none" /\ IsLine(line, t)
             /\ \A j \in 1..Len(t) : t[j] # Space
          \/ \E a, p, e \in Nat :
                 /\ Called(line, a, "setpcbprio") /\ Splits(line, a) /\ FirstWord(t, a, p, e)
                 /\ \/ e > Len(t) /\ asked.by = "none"
                    \/ \E q, f \in Nat :
                           /\ e <= Len(t) /\ FirstWord(t, e + 1, q, f)
                           /\ \/ e - p > NameSize /\ asked.by = "none"
                              \/ /\ e - p <= NameSize
                                 /\ asked = [by |-> "setpcbprio", name |-> SubSeq(t, p, e - 1),
                                             priority |-> atoi(SubSeq(t, q, f - 1))]
      BY <2>1, Zenon DEF PriorityAsks
    <3>. HIDE DEF t
    <3>2. CASE asked.by = "none" /\ IsLine(line, t) /\ \A j \in 1..Len(t) : t[j] # Space
      BY <2>2, <3>2, Zenon
    <3>3. ASSUME NEW a \in Nat, NEW p \in Nat, NEW e \in Nat,
                 Called(line, a, "setpcbprio"), Splits(line, a), FirstWord(t, a, p, e),
                 \/ e > Len(t) /\ asked.by = "none"
                 \/ \E q, f \in Nat :
                        /\ e <= Len(t) /\ FirstWord(t, e + 1, q, f)
                        /\ \/ e - p > NameSize /\ asked.by = "none"
                           \/ /\ e - p <= NameSize
                              /\ asked = [by |-> "setpcbprio", name |-> SubSeq(t, p, e - 1),
                                          priority |-> atoi(SubSeq(t, q, f - 1))]
          PROVE  Right
      BY <2>3, <3>3, Zenon
    <3>. QED  BY <3>1, <3>2, <3>3, Zenon
  <2>. QED  BY <2>4, Zenon
<1>2. TextInv /\ PriorityInv => PriorityIsAsTyped
  BY <1>1, Zenon DEF PriorityIsAsTyped
<1>. QED  BY <1>2, PriorityIsFound, PTL
=============================================================================
