--------------------------- MODULE Console_proofs ---------------------------
(***************************************************************************)
(* What the run console checks on two vCPUs, a single RX buffer and two    *)
(* chains, proved for any number of them, any chains, line length and      *)
(* bounds: types, whole input and whole output.                            *)
(*                                                                         *)
(* Output is a matter of recursive functions (characters into lines, lines *)
(* into text), so the proof needs induction over data.  The library's      *)
(* induction theorems take an operator; LeastNatural below takes a set.    *)
(***************************************************************************)
EXTENDS Console, FiniteSetTheorems, SequenceTheorems, WellFoundedInduction, TLAPS

LEMMA Bounds ==
  /\ Size \in Nat \ {0} /\ LineLen \in Nat \ {0}
  /\ MaxChains \in Nat /\ MaxTyped \in Nat /\ MaxUart \in Nat
  /\ MaxLogs \in Nat /\ MaxResets \in Nat
  /\ Chains \subseteq Seq(Nat \ {0}) \ {<<>>}
  /\ Nobody \notin Vcpu
  BY ConsoleAssumption DEF Nobody

-----------------------------------------------------------------------------
(* Induction over data.  A set of naturals has a least element: the        *)
(* intervals below its elements are ordered by strict inclusion, which is  *)
(* well-founded on finite sets.                                            *)
LEMMA LeastNatural ==
  ASSUME NEW T, T \subseteq Nat, T # {}
  PROVE  \E n \in T : \A m \in T : n <= m
<1> DEFINE Below == {0 .. n - 1 : n \in T}
<1>1. Below \subseteq FiniteSubsetsOf(Nat)
  <2>1. \A n \in Nat : IsFiniteSet(0 .. n - 1)
    BY FS_Interval
  <2> QED
    BY <2>1 DEF FiniteSubsetsOf
<1>2. Below # {}
  OBVIOUS
<1>3. PICK d \in Below : \A e \in Below : <<e, d>> \notin StrictSubsetOrdering(Nat)
  <2> HIDE DEF Below
  <2> QED
    BY <1>1, <1>2, FS_StrictSubsetOrderingWellFounded, WFMin, Zenon
<1>4. PICK n \in T : d = 0 .. n - 1
  BY <1>3
<1>5. ASSUME NEW m \in T, m < n PROVE FALSE
  <2>1. <<0 .. m - 1, 0 .. n - 1>> \notin StrictSubsetOrdering(Nat)
    BY <1>3, <1>4
  <2>2. 0 .. m - 1 \in SUBSET Nat /\ 0 .. n - 1 \in SUBSET Nat
    OBVIOUS
  <2>3. 0 .. m - 1 \subseteq 0 .. n - 1
    BY <1>5
  <2>4. m \in 0 .. n - 1 /\ m \notin 0 .. m - 1
    BY <1>5
  <2> QED
    BY <2>1, <2>2, <2>3, <2>4 DEF StrictSubsetOrdering
<1> QED
  BY <1>5

(* Induction up to a bound, stated with the set of numbers that satisfy    *)
(* what is to be shown.                                                    *)
LEMMA UpTo ==
  ASSUME NEW n \in Nat, NEW S, 0 \in S,
         \A i \in 1 .. n : i - 1 \in S => i \in S
  PROVE  0 .. n \subseteq S
<1> DEFINE T == {i \in 0 .. n : i \notin S}
<1>1. SUFFICES ASSUME T # {} PROVE FALSE
  OBVIOUS
<1>2. T \subseteq Nat
  OBVIOUS
<1>3. PICK i \in T : \A j \in T : i <= j
  <2> HIDE DEF T
  <2> QED
    BY <1>1, <1>2, LeastNatural
<1>4. i \in 1 .. n /\ i - 1 \in 0 .. n
  OBVIOUS
<1>5. i - 1 \in S
  BY <1>3, <1>4
<1> QED
  BY <1>3, <1>4, <1>5

-----------------------------------------------------------------------------
(* The values of the variables TypeOK says nothing of.                     *)

Char == Source \X Nat
Line == [log : BOOLEAN, chars : Seq(Char)]
Segment == {Run(first, n) : first \in Nat, n \in Nat \ {0}}

LogTypes == partial \in Seq(Char) /\ terminal \in Seq(Line)

(* logger::write, a character at a time: what is kept back and the lines   *)
(* are determined, and have their types.                                   *)
WriteOne(w, c) ==
  IF EndsLine(c)
    THEN [rest |-> <<>>, lines |-> Append(w.lines, GuestLine(Append(w.rest, c)))]
    ELSE [rest |-> Append(w.rest, c), lines |-> w.lines]

IsWritten(f, chars, n) ==
  f = [i \in 0 .. n |->
         IF i = 0 THEN [rest |-> partial, lines |-> terminal]
         ELSE WriteOne(f[i - 1], chars[i])]

LEMMA WrittenExists ==
  ASSUME NEW chars, NEW n \in Nat
  PROVE  \E f : IsWritten(f, chars, n)
<1> DEFINE S == {m \in Nat : \E f : IsWritten(f, chars, m)}
<1>1. 0 \in S
  <2>1. IsWritten([i \in 0 .. 0 |-> [rest |-> partial, lines |-> terminal]], chars, 0)
    BY DEF IsWritten
  <2> QED
    BY <2>1
<1>2. ASSUME NEW m \in 1 .. n, m - 1 \in S PROVE m \in S
  <2>1. PICK f : IsWritten(f, chars, m - 1)
    BY <1>2
  <2> DEFINE g == [i \in 0 .. m |->
                     IF i = m THEN WriteOne(f[m - 1], chars[m]) ELSE f[i]]
  <2>2. ASSUME NEW i \in 0 .. m
        PROVE  g[i] = IF i = 0 THEN [rest |-> partial, lines |-> terminal]
                      ELSE WriteOne(g[i - 1], chars[i])
    <3>1. CASE i = m
      BY <3>1
    <3>2. CASE i # m
      <4>1. i \in 0 .. m - 1
        BY <3>2
      <4>2. f[i] = IF i = 0 THEN [rest |-> partial, lines |-> terminal]
                   ELSE WriteOne(f[i - 1], chars[i])
        BY <2>1, <4>1 DEF IsWritten
      <4> QED
        BY <4>1, <4>2, <3>2
    <3> QED
      BY <3>1, <3>2
  <2>3. IsWritten(g, chars, m)
    BY <2>2 DEF IsWritten
  <2> QED
    BY <2>3
<1>3. 0 .. n \subseteq S
  <2> HIDE DEF S
  <2> QED
    BY <1>1, <1>2, UpTo
<1> QED
  BY <1>3

LEMMA WrittenUnfolds ==
  ASSUME NEW chars, Len(chars) \in Nat
  PROVE  IsWritten(Written(chars), chars, Len(chars))
<1>1. PICK f : IsWritten(f, chars, Len(chars))
  BY WrittenExists
<1> QED
  BY <1>1 DEF Written, IsWritten, WriteOne

(* The text of some lines: that of all but the last, and the last.         *)
IsUpto(f, lines, n) ==
  f = [i \in 0 .. n |-> IF i = 0 THEN <<>> ELSE f[i - 1] \o lines[i].chars]

LEMMA UptoExists ==
  ASSUME NEW lines, NEW n \in Nat
  PROVE  \E f : IsUpto(f, lines, n)
<1> DEFINE S == {m \in Nat : \E f : IsUpto(f, lines, m)}
<1>1. 0 \in S
  <2>1. IsUpto([i \in 0 .. 0 |-> <<>>], lines, 0)
    BY DEF IsUpto
  <2> QED
    BY <2>1
<1>2. ASSUME NEW m \in 1 .. n, m - 1 \in S PROVE m \in S
  <2>1. PICK f : IsUpto(f, lines, m - 1)
    BY <1>2
  <2> DEFINE g == [i \in 0 .. m |->
                     IF i = m THEN f[m - 1] \o lines[m].chars ELSE f[i]]
  <2>2. ASSUME NEW i \in 0 .. m
        PROVE  g[i] = IF i = 0 THEN <<>> ELSE g[i - 1] \o lines[i].chars
    <3>1. CASE i = m
      <4>1. m # 0 /\ m - 1 \in 0 .. m /\ m - 1 # m /\ m \in 0 .. m
        OBVIOUS
      <4>2. g[m] = f[m - 1] \o lines[m].chars /\ g[m - 1] = f[m - 1]
        BY <4>1
      <4> QED
        BY <3>1, <4>1, <4>2
    <3>2. CASE i # m
      <4>1. i \in 0 .. m - 1
        BY <3>2
      <4>2. f[i] = IF i = 0 THEN <<>> ELSE f[i - 1] \o lines[i].chars
        BY <2>1, <4>1 DEF IsUpto
      <4> QED
        BY <4>1, <4>2, <3>2
    <3> QED
      BY <3>1, <3>2
  <2>3. IsUpto(g, lines, m)
    BY <2>2 DEF IsUpto
  <2> QED
    BY <2>3
<1>3. 0 .. n \subseteq S
  <2> HIDE DEF S
  <2> QED
    BY <1>1, <1>2, UpTo
<1> QED
  BY <1>3

LEMMA UptoUnfolds ==
  ASSUME NEW lines, Len(lines) \in Nat
  PROVE  IsUpto(Upto(lines), lines, Len(lines))
<1>1. PICK f : IsUpto(f, lines, Len(lines))
  BY UptoExists
<1> QED
  BY <1>1 DEF Upto, IsUpto

TextOf(lines) == Upto(lines)[Len(lines)]

LEMMA UptoTypes ==
  ASSUME NEW lines \in Seq(Line)
  PROVE  \A i \in 0 .. Len(lines) : Upto(lines)[i] \in Seq(Char)
<1> DEFINE n == Len(lines)
           S == {i \in 0 .. n : Upto(lines)[i] \in Seq(Char)}
<1>0. n \in Nat
  BY LenProperties
<1>1. ASSUME NEW i \in 0 .. n
      PROVE  Upto(lines)[i] =
               IF i = 0 THEN <<>> ELSE Upto(lines)[i - 1] \o lines[i].chars
  BY <1>0, UptoUnfolds DEF IsUpto
<1>2. 0 \in S
  <2>1. 0 \in 0 .. n /\ <<>> \in Seq(Char)
    BY <1>0, EmptySeq
  <2> QED
    BY <1>1, <2>1
<1>3. ASSUME NEW i \in 1 .. n, i - 1 \in S PROVE i \in S
  <2>0. i \in 0 .. n /\ i # 0
    BY <1>0
  <2>1. lines[i] \in Line
    BY <1>0, ElementOfSeq
  <2>2. lines[i].chars \in Seq(Char)
    BY <2>1 DEF Line
  <2>3. Upto(lines)[i] = Upto(lines)[i - 1] \o lines[i].chars
    BY <1>1, <2>0
  <2>4. Upto(lines)[i - 1] \in Seq(Char)
    BY <1>3
  <2>5. Upto(lines)[i] \in Seq(Char)
    BY <2>2, <2>3, <2>4, ConcatProperties
  <2> QED
    BY <2>0, <2>5
<1>4. 0 .. n \subseteq S
  <2> HIDE DEF S, n
  <2> QED
    BY <1>0, <1>2, <1>3, UpTo
<1> QED
  BY <1>4

LEMMA TextOfNothing == TextOf(<<>>) = <<>>
<1>1. Len(<<>>) = 0
  BY EmptySeq
<1>2. IsUpto(Upto(<<>>), <<>>, 0)
  BY <1>1, UptoUnfolds
<1> QED
  BY <1>1, <1>2 DEF TextOf, IsUpto

LEMMA TextOfMore ==
  ASSUME NEW lines \in Seq(Line), NEW line \in Line
  PROVE  /\ TextOf(lines) \in Seq(Char)
         /\ TextOf(Append(lines, line)) = TextOf(lines) \o line.chars
<1> DEFINE n == Len(lines)
           more == Append(lines, line)
           S == {i \in 0 .. n : Upto(more)[i] = Upto(lines)[i]}
<1>0. n \in Nat
  BY LenProperties
<1>1. /\ more \in Seq(Line) /\ Len(more) = n + 1
      /\ \A i \in 1 .. n : more[i] = lines[i]
      /\ more[n + 1] = line
  BY AppendProperties
<1>2. ASSUME NEW i \in 0 .. n
      PROVE  Upto(lines)[i] =
               IF i = 0 THEN <<>> ELSE Upto(lines)[i - 1] \o lines[i].chars
  BY <1>0, UptoUnfolds DEF IsUpto
<1>3. ASSUME NEW i \in 0 .. n + 1
      PROVE  Upto(more)[i] =
               IF i = 0 THEN <<>> ELSE Upto(more)[i - 1] \o more[i].chars
  <2>0. Len(more) \in Nat /\ Len(more) = n + 1
    BY <1>0, <1>1
  <2> HIDE DEF more, n
  <2>1. IsUpto(Upto(more), more, n + 1)
    BY <2>0, UptoUnfolds
  <2> QED
    BY <2>1 DEF IsUpto
<1> HIDE DEF more
<1>4. 0 \in S
  BY <1>0, <1>2, <1>3
<1>5. ASSUME NEW i \in 1 .. n, i - 1 \in S PROVE i \in S
  <2>1. i \in 0 .. n /\ i \in 0 .. n + 1 /\ i # 0
    BY <1>0
  <2>2. Upto(more)[i - 1] = Upto(lines)[i - 1] /\ more[i] = lines[i]
    BY <1>1, <1>5
  <2> QED
    BY <1>2, <1>3, <2>1, <2>2
<1>6. 0 .. n \subseteq S
  <2> HIDE DEF S, n
  <2> QED
    BY <1>0, <1>4, <1>5, UpTo
<1>7. Upto(more)[n] = Upto(lines)[n]
  BY <1>0, <1>6
<1>8. Upto(more)[n + 1] = Upto(more)[n] \o line.chars
  <2>1. n + 1 \in 0 .. n + 1 /\ n + 1 # 0 /\ (n + 1) - 1 = n
    BY <1>0
  <2> QED
    BY <1>1, <1>3, <2>1
<1>9. Upto(lines)[n] \in Seq(Char)
  BY <1>0, UptoTypes
<1> QED
  BY <1>1, <1>7, <1>8, <1>9 DEF TextOf, more

LEMMA Regroup ==
  ASSUME NEW a \in Seq(Char), NEW b \in Seq(Char), NEW c \in Seq(Char)
  PROVE  (a \o b) \o c = a \o (b \o c)
  BY ConcatAssociative

(* What logger::write has shown and kept back after i characters is what   *)
(* there was, and they.                                                    *)
LEMMA WrittenText ==
  ASSUME LogTypes, NEW chars \in Seq(Char), NEW i \in 0 .. Len(chars)
  PROVE  LET w == Written(chars)[i]
         IN /\ w.rest \in Seq(Char) /\ w.lines \in Seq(Line)
            /\ TextOf(w.lines) \o w.rest = Text \o SubSeq(chars, 1, i)
<1> DEFINE n == Len(chars)
           W(k) == Written(chars)[k]
           Good(k) == /\ W(k).rest \in Seq(Char) /\ W(k).lines \in Seq(Line)
                      /\ TextOf(W(k).lines) \o W(k).rest = Text \o SubSeq(chars, 1, k)
           S == {k \in 0 .. n : Good(k)}
<1>0. n \in Nat
  BY LenProperties
<1>1. ASSUME NEW k \in 0 .. n
      PROVE  W(k) = IF k = 0 THEN [rest |-> partial, lines |-> terminal]
                    ELSE WriteOne(W(k - 1), chars[k])
  BY <1>0, WrittenUnfolds DEF IsWritten
<1>2. Text \in Seq(Char)
  <2>1. TextOf(terminal) \in Seq(Char)
    <3>1. [log |-> TRUE, chars |-> <<>>] \in Line
      BY EmptySeq DEF Line
    <3> QED
      BY <3>1, TextOfMore DEF LogTypes
  <2> QED
    BY <2>1, ConcatProperties DEF Text, TextOf, LogTypes
<1>3. 0 \in S
  <2>1. W(0).rest = partial /\ W(0).lines = terminal
    BY <1>0, <1>1
  <2>2. SubSeq(chars, 1, 0) = <<>>
    BY SubSeqEmpty
  <2>3. Text \o <<>> = Text
    BY <1>2, ConcatEmptySeq
  <2>4. TextOf(W(0).lines) \o W(0).rest = Text
    BY <2>1 DEF Text, TextOf
  <2>5. W(0).rest \in Seq(Char) /\ W(0).lines \in Seq(Line)
    BY <2>1 DEF LogTypes
  <2>6. 0 \in 0 .. n
    BY <1>0
  <2> HIDE DEF W, n
  <2> QED
    BY <2>2, <2>3, <2>4, <2>5, <2>6
<1>4. ASSUME NEW k \in 1 .. n, k - 1 \in S PROVE k \in S
  <2> DEFINE w == W(k - 1)
             c == chars[k]
             line == Append(w.rest, c)
             old == SubSeq(chars, 1, k - 1)
             last == <<c>>
  <2>0. k \in 0 .. n /\ k # 0 /\ k - 1 \in Nat
    BY <1>0
  <2>1. w.rest \in Seq(Char) /\ w.lines \in Seq(Line)
        /\ TextOf(w.lines) \o w.rest = Text \o old
    BY <1>4
  <2>2. c \in Char
    BY <1>0, ElementOfSeq
  <2>3. W(k) = WriteOne(w, c)
    BY <1>1, <2>0
  <2>4. line \in Seq(Char) /\ line = w.rest \o last /\ last \in Seq(Char)
    BY <2>1, <2>2, AppendProperties, AppendIsConcat, SMTT(30)
  <2>5. old \in Seq(Char) /\ SubSeq(chars, 1, k) = Append(old, c)
    BY <1>0, <2>0, SubSeqRecursiveSecond, SubSeqProperties
  <2>6. SubSeq(chars, 1, k) = old \o last
    BY <2>2, <2>5, AppendIsConcat
  <2>7. TextOf(w.lines) \in Seq(Char)
    <3>1. GuestLine(<<>>) \in Line
      BY EmptySeq DEF Line, GuestLine
    <3> QED
      BY <2>1, <3>1, TextOfMore
  <2> HIDE DEF W, line, old, c, w, last
  <2>8. TextOf(w.lines) \o line = Text \o SubSeq(chars, 1, k)
    <3>0. w.rest \in Seq(Char) /\ old \in Seq(Char) /\ last \in Seq(Char)
      BY <2>1, <2>4, <2>5
    <3>1. (TextOf(w.lines) \o w.rest) \o last = TextOf(w.lines) \o line
      <4>1. (TextOf(w.lines) \o w.rest) \o last = TextOf(w.lines) \o (w.rest \o last)
        BY <3>0, <2>7, Regroup
      <4> QED
        BY <2>4, <4>1
    <3>2. (Text \o old) \o last = Text \o SubSeq(chars, 1, k)
      <4>1. (Text \o old) \o last = Text \o (old \o last)
        BY <3>0, <1>2, Regroup
      <4> QED
        BY <2>6, <4>1
    <3> QED
      BY <2>1, <3>1, <3>2
  <2>9. CASE EndsLine(c)
    <3>1. W(k).rest = <<>> /\ W(k).lines = Append(w.lines, GuestLine(line))
      BY <2>3, <2>9 DEF WriteOne, line
    <3>2. GuestLine(line) \in Line /\ GuestLine(line).chars = line
      BY <2>4 DEF GuestLine, Line
    <3>3. TextOf(W(k).lines) = TextOf(w.lines) \o line
      BY <2>1, <3>1, <3>2, TextOfMore
    <3>4. W(k).lines \in Seq(Line) /\ W(k).rest \in Seq(Char)
      BY <2>1, <3>1, <3>2, AppendProperties, EmptySeq
    <3>5. TextOf(W(k).lines) \o W(k).rest = TextOf(w.lines) \o line
      <4>1. TextOf(w.lines) \o line \in Seq(Char)
        BY <2>4, <2>7, ConcatProperties
      <4> QED
        BY <3>1, <3>3, <4>1, ConcatEmptySeq
    <3> QED
      BY <2>0, <2>8, <3>4, <3>5
  <2>10. CASE ~EndsLine(c)
    <3>1. W(k).rest = line /\ W(k).lines = w.lines
      BY <2>3, <2>10 DEF WriteOne, line
    <3> QED
      BY <2>0, <2>1, <2>4, <2>8, <3>1
  <2> QED
    BY <2>9, <2>10
<1>5. 0 .. n \subseteq S
  <2> HIDE DEF S, n
  <2> QED
    BY <1>0, <1>3, <1>4, UpTo
<1> QED
  BY <1>5

LEMMA LogWriteText ==
  ASSUME LogTypes, NEW chars \in Seq(Char), LogWrite(chars)
  PROVE  LogTypes' /\ Text' = Text \o chars
<1>1. Len(chars) \in Nat /\ Len(chars) \in 0 .. Len(chars)
  BY LenProperties
<1>2. SubSeq(chars, 1, Len(chars)) = chars
  BY SubSeqFull
<1>3. partial' = Written(chars)[Len(chars)].rest
      /\ terminal' = Written(chars)[Len(chars)].lines
  BY DEF LogWrite
<1> QED
  BY <1>1, <1>2, <1>3, WrittenText DEF LogTypes, Text, TextOf

LEMMA TextTypes ==
  ASSUME LogTypes
  PROVE  TextOf(terminal) \in Seq(Char) /\ Text \in Seq(Char)
<1>1. GuestLine(<<>>) \in Line
  BY EmptySeq DEF Line, GuestLine
<1>2. TextOf(terminal) \in Seq(Char)
  BY <1>1, TextOfMore DEF LogTypes
<1> QED
  BY <1>2, ConcatProperties DEF Text, TextOf, LogTypes

(* Closing a partial line, and a log line, leave the text as it is.        *)
LEMMA FlushedText ==
  ASSUME LogTypes
  PROVE  /\ Flushed \in Seq(Line) /\ TextOf(Flushed) = Text
         /\ Append(Flushed, LogLine) \in Seq(Line)
         /\ TextOf(Append(Flushed, LogLine)) = Text
<1>0. TextOf(terminal) \in Seq(Char) /\ Text \in Seq(Char)
  BY TextTypes
<1>1. GuestLine(partial) \in Line /\ GuestLine(partial).chars = partial
  BY DEF GuestLine, Line, LogTypes
<1>2. LogLine \in Line /\ LogLine.chars = <<>>
  BY EmptySeq DEF LogLine, Line
<1>3. Flushed \in Seq(Line) /\ TextOf(Flushed) = Text
  <2>1. CASE partial = <<>>
    BY <1>0, <2>1, ConcatEmptySeq DEF Flushed, Text, TextOf, LogTypes
  <2>2. CASE partial # <<>>
    <3>1. Flushed = Append(terminal, GuestLine(partial))
      BY <2>2 DEF Flushed
    <3>2. TextOf(Flushed) = TextOf(terminal) \o partial
      BY <1>1, <3>1, TextOfMore DEF LogTypes
    <3> QED
      BY <1>1, <3>1, <3>2, AppendProperties DEF Text, TextOf, LogTypes
  <2> QED
    BY <2>1, <2>2
<1>4. TextOf(Append(Flushed, LogLine)) = Text \o <<>>
  BY <1>2, <1>3, TextOfMore
<1> QED
  BY <1>0, <1>2, <1>3, <1>4, ConcatEmptySeq, AppendProperties

(* Where the segments of a chain start: one after another.                 *)
IsStarts(f, c, n) ==
  f = [i \in 1 .. n + 1 |-> IF i = 1 THEN produced ELSE f[i - 1] + c[i - 1]]

LEMMA StartsUnfolds ==
  ASSUME NEW c, Len(c) \in Nat
  PROVE  IsStarts(Starts(c), c, Len(c))
<1> DEFINE S == {m \in Nat : \E f : IsStarts(f, c, m)}
           n == Len(c)
<1>1. 0 \in S
  <2>1. IsStarts([i \in 1 .. 0 + 1 |-> produced], c, 0)
    BY DEF IsStarts
  <2> QED
    BY <2>1
<1>2. ASSUME NEW m \in 1 .. n, m - 1 \in S PROVE m \in S
  <2>1. PICK f : IsStarts(f, c, m - 1)
    BY <1>2
  <2>0. m \in Nat /\ m # 0 /\ (m - 1) + 1 = m
    OBVIOUS
  <2> DEFINE g == [i \in 1 .. m + 1 |->
                     IF i = m + 1 THEN f[m] + c[m] ELSE f[i]]
  <2>2. ASSUME NEW i \in 1 .. m + 1
        PROVE  g[i] = IF i = 1 THEN produced ELSE g[i - 1] + c[i - 1]
    <3>1. CASE i = m + 1
      BY <2>0, <3>1
    <3>2. CASE i # m + 1
      <4>1. i \in 1 .. m
        BY <2>0, <3>2
      <4>2. f[i] = IF i = 1 THEN produced ELSE f[i - 1] + c[i - 1]
        BY <2>0, <2>1, <4>1 DEF IsStarts
      <4> QED
        BY <2>0, <4>1, <4>2, <3>2
    <3> QED
      BY <3>1, <3>2
  <2>3. IsStarts(g, c, m)
    BY <2>2 DEF IsStarts
  <2> QED
    BY <2>0, <2>3
<1>3. 0 .. n \subseteq S
  <2> HIDE DEF S
  <2> QED
    BY <1>1, <1>2, UpTo
<1>4. n \in S
  BY <1>3
<1>5. PICK f : IsStarts(f, c, Len(c))
  BY <1>4
<1> QED
  BY <1>5 DEF Starts, IsStarts

LEMMA StartsGrow ==
  ASSUME NEW c \in Seq(Nat \ {0}), produced \in Nat
  PROVE  /\ \A i \in 1 .. Len(c) + 1 : Starts(c)[i] \in Nat
         /\ Starts(c)[1] = produced
         /\ \A i \in 1 .. Len(c) : c[i] \in Nat \ {0}
         /\ \A i \in 1 .. Len(c), j \in 1 .. Len(c) + 1 :
              i < j => Starts(c)[i] + c[i] <= Starts(c)[j]
         /\ \A j \in 1 .. Len(c) + 1 : produced <= Starts(c)[j]
<1> DEFINE n == Len(c)
           At(j) == Starts(c)[j + 1]
           S == {j \in 0 .. n : /\ At(j) \in Nat /\ produced <= At(j)
                                /\ \A i \in 1 .. j : Starts(c)[i] \in Nat
                                                     /\ Starts(c)[i] + c[i] <= At(j)}
<1>0. n \in Nat
  BY LenProperties
<1>1. \A i \in 1 .. n : c[i] \in Nat \ {0}
  BY <1>0, ElementOfSeq
<1>2. ASSUME NEW i \in 1 .. n + 1
      PROVE  Starts(c)[i] = IF i = 1 THEN produced
                            ELSE Starts(c)[i - 1] + c[i - 1]
  BY <1>0, StartsUnfolds DEF IsStarts
<1>3. At(0) = produced
  <2>1. 1 \in 1 .. n + 1
    BY <1>0
  <2> QED
    BY <1>2, <2>1
<1>4. 0 \in S
  BY <1>0, <1>3
<1>5. ASSUME NEW j \in 1 .. n, j - 1 \in S PROVE j \in S
  <2>1. At(j) = Starts(c)[j] + c[j] /\ Starts(c)[j] = At(j - 1)
    <3>1. j + 1 \in 1 .. n + 1 /\ j + 1 # 1 /\ (j + 1) - 1 = j /\ (j - 1) + 1 = j
      BY <1>0
    <3> QED
      BY <1>2, <3>1
  <2>2. /\ At(j - 1) \in Nat /\ produced <= At(j - 1)
        /\ \A i \in 1 .. j - 1 : Starts(c)[i] \in Nat
                                 /\ Starts(c)[i] + c[i] <= At(j - 1)
    BY <1>5
  <2>3. c[j] \in Nat \ {0}
    BY <1>1
  <2> HIDE DEF At
  <2>4. At(j) \in Nat /\ produced <= At(j)
    BY <2>1, <2>2, <2>3
  <2>5. ASSUME NEW i \in 1 .. j
        PROVE  Starts(c)[i] \in Nat /\ Starts(c)[i] + c[i] <= At(j)
    <3>1. CASE i = j
      BY <2>1, <2>2, <2>3, <3>1
    <3>2. CASE i # j
      <4>1. i \in 1 .. j - 1 /\ i \in 1 .. n
        BY <1>0, <3>2
      <4>2. c[i] \in Nat
        BY <1>1, <4>1
      <4> QED
        BY <2>1, <2>2, <2>3, <4>1, <4>2
    <3> QED
      BY <3>1, <3>2
  <2> QED
    BY <2>4, <2>5
<1>6. 0 .. n \subseteq S
  <2> HIDE DEF S, n
  <2> QED
    BY <1>0, <1>4, <1>5, UpTo
<1>7. ASSUME NEW j \in 1 .. n + 1
      PROVE  /\ Starts(c)[j] \in Nat /\ produced <= Starts(c)[j]
             /\ \A i \in 1 .. n : i < j => Starts(c)[i] + c[i] <= Starts(c)[j]
  <2>0. j - 1 \in 0 .. n /\ (j - 1) + 1 = j
    BY <1>0
  <2>1. j - 1 \in S
    <3> HIDE DEF S, n
    <3> QED
      BY <1>6, <2>0
  <2>2. \A i \in 1 .. n : i < j => i \in 1 .. j - 1
    BY <1>0
  <2> QED
    BY <2>0, <2>1, <2>2
<1> QED
  BY <1>1, <1>3, <1>7

(* What InputWhole says is in the RX queue: the first bytes typed.         *)
Count(n) == [k \in 1 .. n |-> k]

LEMMA Counting ==
  ASSUME NEW n \in Nat
  PROVE  /\ Count(n) \in Seq(Nat) /\ Len(Count(n)) = n
         /\ Append(Count(n), n + 1) = Count(n + 1)
<1>1. ASSUME NEW m \in Nat
      PROVE  /\ Count(m) \in Seq(Nat) /\ Len(Count(m)) = m
             /\ \A i \in 1 .. m : Count(m)[i] = i
  BY <1>1 DEF Count
<1>2. n + 1 \in Nat
  OBVIOUS
<1>3. Count(n) \in Seq(Nat) /\ Len(Count(n)) = n
  BY <1>1
<1>4. /\ Append(Count(n), n + 1) \in Seq(Nat)
      /\ Len(Append(Count(n), n + 1)) = n + 1
      /\ \A i \in 1 .. n : Append(Count(n), n + 1)[i] = Count(n)[i]
      /\ Append(Count(n), n + 1)[n + 1] = n + 1
  BY <1>2, <1>3, AppendProperties
<1>5. \A i \in 1 .. n + 1 : Append(Count(n), n + 1)[i] = Count(n + 1)[i]
  BY <1>1, <1>2, <1>4
<1> QED
  BY <1>1, <1>2, <1>4, <1>5, SeqEqual

-----------------------------------------------------------------------------
(* The type invariant, with the types it leaves out, the chains counted    *)
(* and the bytes delivered.                                                *)

Chain == Seq(Segment) \ {<<>>}

Control ==
  /\ mtx \in Vcpu \cup {Nobody} /\ irqStatus \in {0, 1}
  /\ rx \in {"poll", "lock", "ended"} /\ stop \in BOOLEAN
  /\ ready \in BOOLEAN /\ posted \in 0 .. Size /\ spi \in BOOLEAN
  /\ pc \in [Vcpu -> {"idle", "kick", "tx", "raise", "irq", "scan"}]
  /\ \A v \in Vcpu : pc[v] \in {"tx", "raise"} <=> mtx = v
  /\ owner \in {"runs", "joined", "shut", "joins", "gone"}
  /\ (owner = "gone" => rx = "ended")
  /\ resets \in 0 .. MaxResets

Inputs ==
  /\ typed \in 0 .. MaxTyped /\ taken \in 0 .. typed
  /\ delivered = Count(taken)
  /\ collected \in 0 .. taken
  /\ rx = "lock" => taken < typed

Outputs ==
  /\ txq \in Seq(Chain) /\ Len(txq) <= chains /\ (txq # <<>> => ready)
  /\ produced \in Nat /\ printed \in [Source -> Nat]
  /\ chains \in 0 .. MaxChains /\ logs \in 0 .. MaxLogs
  /\ LogTypes

Typed == Control /\ Inputs /\ Outputs

LEMMA TypedMeans == Typed => TypeOK /\ InputWhole
<1> SUFFICES ASSUME Typed PROVE TypeOK /\ InputWhole
  OBVIOUS
<1>1. taken \in Nat /\ delivered = Count(taken)
  BY Bounds DEF Typed, Inputs
<1>2. Len(delivered) = taken
  BY <1>1, Counting
<1>3. Len(txq) <= MaxChains
  <2>1. Len(txq) \in Nat
    BY LenProperties DEF Typed, Outputs
  <2> QED
    BY <2>1, Bounds DEF Typed, Outputs
<1> QED
  BY <1>1, <1>2, <1>3 DEF Typed, Control, Inputs, Outputs, TypeOK, InputWhole, Count

LEMMA TypedInit == Init => Typed
<1> SUFFICES ASSUME Init PROVE Typed
  OBVIOUS
<1>1. Control
  <2>1. pc = [v \in Vcpu |-> "idle"] /\ mtx = Nobody
    BY DEF Init
  <2>2. \A v \in Vcpu : pc[v] \in {"tx", "raise"} <=> mtx = v
    BY <2>1, Bounds
  <2>3. pc \in [Vcpu -> {"idle", "kick", "tx", "raise", "irq", "scan"}]
    BY <2>1
  <2>4. 0 \in 0 .. Size /\ 0 \in 0 .. MaxResets
    BY Bounds
  <2> QED
    BY <2>2, <2>3, <2>4 DEF Init, Control
<1>2. Inputs
  <2>1. Count(0) = <<>>
    BY Counting, EmptySeq
  <2> QED
    BY <2>1, Bounds DEF Init, Inputs
<1>3. Outputs
  BY Bounds, EmptySeq DEF Init, Outputs, LogTypes
<1> QED
  BY <1>1, <1>2, <1>3 DEF Typed

(* What the actions do to a group of variables they share.                 *)
LEMMA WriteTypes ==
  ASSUME LogTypes, printed \in [Source -> Nat],
         NEW chars \in Seq(Char) \ {<<>>}, LogWrite(chars)
  PROVE  /\ LogTypes' /\ Text' = Text \o chars
         /\ chars[1][1] \in Source /\ (printed \in [Source -> Nat])'
         /\ printed' = [printed EXCEPT ![chars[1][1]] = @ + Len(chars)]
<1>1. Len(chars) \in Nat /\ 1 \in 1 .. Len(chars)
  BY LenProperties, EmptySeq
<1>2. chars[1] \in Char
  BY <1>1, ElementOfSeq
<1>3. chars[1][1] \in Source
  BY <1>2 DEF Char
<1>4. printed' = [printed EXCEPT ![chars[1][1]] = @ + Len(chars)]
  BY DEF LogWrite
<1>5. printed' \in [Source -> Nat]
  BY <1>1, <1>3, <1>4
<1> QED
  BY <1>3, <1>4, <1>5, LogWriteText

\* A segment is a non-empty run of characters of the console.
LEMMA SegmentIs ==
  ASSUME NEW seg \in Segment
  PROVE  /\ seg \in Seq(Char) \ {<<>>} /\ Len(seg) \in Nat \ {0}
         /\ \A k \in 1 .. Len(seg) : seg[k][1] = "hvc" /\ seg[k][2] = seg[1][2] + (k - 1)
         /\ seg[1][2] \in Nat
<1>1. PICK first \in Nat, n \in Nat \ {0} : seg = Run(first, n)
  BY DEF Segment
<1>2. seg \in [1 .. n -> Char]
  BY <1>1 DEF Run, Char, Source
<1>3. seg \in Seq(Char) /\ Len(seg) = n
  BY <1>2, IsASeq
<1>4. \A k \in 1 .. n : seg[k] = <<"hvc", first + k>>
  BY <1>1 DEF Run
<1>5. 1 \in 1 .. n
  BY <1>1
<1> QED
  BY <1>3, <1>4, <1>5, EmptySeq

\* The queue without its first segment.
Shorter ==
  IF Len(Head(txq)) = 1 THEN Tail(txq) ELSE [txq EXCEPT ![1] = Tail(@)]

LEMMA ShorterIs ==
  ASSUME txq \in Seq(Chain), txq # <<>>
  PROVE  /\ Head(txq) = txq[1] /\ txq[1] \in Chain
         /\ Head(txq[1]) = txq[1][1] /\ txq[1][1] \in Segment
         /\ Len(txq) \in Nat \ {0} /\ Len(txq[1]) \in Nat \ {0}
         /\ Shorter \in Seq(Chain) /\ Len(Shorter) <= Len(txq)
         /\ Len(txq[1]) = 1 =>
              /\ Len(Shorter) = Len(txq) - 1
              /\ \A i \in 1 .. Len(txq) - 1 : Shorter[i] = txq[i + 1]
         /\ Len(txq[1]) # 1 =>
              /\ Len(Shorter) = Len(txq)
              /\ \A i \in 2 .. Len(txq) : Shorter[i] = txq[i]
              /\ Len(Shorter[1]) = Len(txq[1]) - 1
              /\ \A j \in 1 .. Len(txq[1]) - 1 : Shorter[1][j] = txq[1][j + 1]
<1>1. Len(txq) \in Nat \ {0} /\ Head(txq) = txq[1] /\ 1 \in 1 .. Len(txq)
  BY EmptySeq, LenProperties, HeadTailProperties
<1>2. txq[1] \in Chain
  BY <1>1, ElementOfSeq
<1>3. txq[1] \in Seq(Segment) /\ txq[1] # <<>>
  BY <1>2 DEF Chain
<1>4. Len(txq[1]) \in Nat \ {0} /\ Head(txq[1]) = txq[1][1] /\ 1 \in 1 .. Len(txq[1])
  BY <1>3, EmptySeq, LenProperties, HeadTailProperties
<1>5. txq[1][1] \in Segment
  BY <1>3, <1>4, ElementOfSeq
<1>6. CASE Len(txq[1]) = 1
  <2>1. Shorter = Tail(txq)
    BY <1>1, <1>6 DEF Shorter
  <2>2. /\ Tail(txq) \in Seq(Chain) /\ Len(Tail(txq)) = Len(txq) - 1
        /\ \A i \in 1 .. Len(txq) - 1 : Tail(txq)[i] = txq[i + 1]
    BY <1>1, HeadTailProperties
  <2> QED
    BY <1>1, <1>2, <1>4, <1>5, <1>6, <2>1, <2>2
<1>7. CASE Len(txq[1]) # 1
  <2>1. Shorter = [txq EXCEPT ![1] = Tail(txq[1])]
    BY <1>1, <1>7 DEF Shorter
  <2>2. /\ Tail(txq[1]) \in Seq(Segment) /\ Len(Tail(txq[1])) = Len(txq[1]) - 1
        /\ \A j \in 1 .. Len(txq[1]) - 1 : Tail(txq[1])[j] = txq[1][j + 1]
    BY <1>3, <1>4, HeadTailProperties
  <2>3. Tail(txq[1]) \in Chain
    <3>1. Tail(txq[1]) # <<>>
      <4>1. Len(Tail(txq[1])) # 0
        BY <1>4, <1>7, <2>2
      <4> QED
        BY <4>1, EmptySeq
    <3> QED
      BY <2>2, <3>1 DEF Chain
  <2>4. /\ Shorter \in Seq(Chain) /\ Len(Shorter) = Len(txq)
        /\ Shorter[1] = Tail(txq[1])
        /\ \A i \in 2 .. Len(txq) : Shorter[i] = txq[i]
    BY <1>1, <2>1, <2>3, ExceptSeq
  <2> QED
    BY <1>1, <1>2, <1>4, <1>5, <1>7, <2>2, <2>4
<1> QED
  BY <1>6, <1>7

LEMMA TypedNext == Typed /\ [Next]_vars => Typed'
<1> SUFFICES ASSUME Typed, [Next]_vars PROVE Typed'
  OBVIOUS
<1>0. Control /\ Inputs /\ Outputs
  BY DEF Typed
<1>b. /\ Size \in Nat \ {0} /\ Nobody \notin Vcpu
      /\ MaxChains \in Nat /\ MaxTyped \in Nat /\ MaxLogs \in Nat /\ MaxResets \in Nat
  BY Bounds
<1>c. Outputs' => txq' \in Seq(Chain)
  BY DEF Outputs
<1>n. typed \in Nat /\ taken \in Nat /\ taken <= typed /\ Len(delivered) = taken
  <2>1. typed \in Nat /\ taken \in Nat /\ taken <= typed
    BY <1>0, <1>b DEF Inputs
  <2> QED
    BY <1>0, <2>1, Counting DEF Inputs
<1>o. /\ UNCHANGED <<logger, txq, ready, produced, printed, chains, logs>> => Outputs'
      /\ UNCHANGED <<typed, taken, delivered, collected, rx>> => Inputs'
  BY <1>0 DEF Outputs, LogTypes, Inputs, logger
<1>1. CASE Log
  <2>1. LogTypes'
    BY <1>0, <1>1, FlushedText, EmptySeq DEF Log, Outputs, LogTypes
  <2>2. Outputs'
    BY <1>0, <1>1, <1>b, <2>1 DEF Log, Outputs, queues
  <2> QED
    BY <1>0, <1>1, <2>2 DEF Log, Typed, Control, Inputs, device, queues, driver, input
<1>2. CASE Type
  <2>1. Inputs'
    BY <1>0, <1>2, <1>b DEF Type, Inputs, driver
  <2> QED
    BY <1>0, <1>2, <2>1 DEF Type, Typed, Control, Outputs, LogTypes, device, queues,
                            logger, driver, output
<1>3. CASE RxThread
  <2>0. Outputs'
    <3>1. UNCHANGED <<logger, txq, ready, produced, printed, chains, logs>>
      BY <1>3 DEF RxThread, RxEnds, RxPoll, RxFeed, queues, output
    <3> QED
      BY <1>o, <3>1
  <2>1. Control'
    <3>1. CASE RxEnds \/ RxPoll
      BY <1>0, <3>1 DEF RxEnds, RxPoll, Control, queues, driver
    <3>2. CASE RxFeed
      <4>1. posted' \in 0 .. Size
        BY <1>0, <1>b, <3>2 DEF RxFeed, Control
      <4>2. UNCHANGED <<mtx, stop, ready, pc, owner, resets>> /\ owner # "gone"
            /\ rx' = "poll" /\ irqStatus' \in {0, 1} /\ spi' \in BOOLEAN
        BY <1>0, <3>2 DEF RxFeed, Control, driver
      <4> QED
        BY <1>0, <4>1, <4>2 DEF Control
    <3> QED
      BY <1>3, <3>1, <3>2 DEF RxThread
  <2>2. Inputs'
    <3>1. CASE UNCHANGED <<taken, delivered>>
      BY <1>0, <1>3, <3>1 DEF RxThread, RxEnds, RxPoll, RxFeed, Inputs, driver, input
    <3>2. CASE RxFeed /\ taken' = taken + 1 /\ delivered' = Append(delivered, taken + 1)
      <4>1. delivered' = Count(taken')
        BY <1>0, <1>n, <3>2, Counting DEF Inputs
      <4> QED
        BY <1>0, <1>n, <3>2, <4>1 DEF RxFeed, Inputs, driver
    <3> QED
      BY <1>3, <3>1, <3>2 DEF RxThread, RxEnds, RxPoll, RxFeed, input
  <2> QED
    BY <2>0, <2>1, <2>2 DEF Typed
<1>4. CASE Owner
  <2>1. Control' /\ Inputs'
    BY <1>0, <1>4, <1>b DEF Owner, Joined, Shutdown, StopRx, RxJoined, OwnerGoes,
         Control, Inputs, device, queues, driver, input
  <2>2. LogTypes'
    BY <1>0, <1>4, FlushedText, EmptySeq DEF Owner, Joined, Shutdown, StopRx,
         RxJoined, Outputs, LogTypes, logger
  <2>3. Outputs'
    BY <1>0, <1>4, <2>2 DEF Owner, Joined, Shutdown, StopRx, RxJoined, Outputs,
         queues, output
  <2> QED
    BY <2>1, <2>3 DEF Typed
<1>5. ASSUME NEW v \in Vcpu, Notify(v) PROVE Typed'
  <2>1. Control'
    BY <1>0, <1>5, <1>b DEF Notify, Goto, Control, queues
  <2> QED
    BY <1>o, <1>5, <2>1 DEF Notify, Typed, queues, input, output
<1>6. ASSUME NEW v \in Vcpu, TxSegment(v) PROVE Typed'
  <2>1. Head(txq) = txq[1] /\ Head(txq[1]) \in Segment
    BY <1>0, <1>6, ShorterIs DEF TxSegment, Outputs
  <2>2. LogTypes' /\ (printed \in [Source -> Nat])'
    BY <1>0, <1>6, <2>1, SegmentIs, WriteTypes DEF TxSegment, Outputs
  <2>3. txq' = Shorter /\ ready' = ready /\ ready /\ chains' = chains
    BY <1>0, <1>6 DEF TxSegment, Shorter, Outputs
  <2>4. txq' \in Seq(Chain) /\ Len(txq') <= chains
    <3>1. /\ Shorter \in Seq(Chain) /\ Len(Shorter) <= Len(txq)
          /\ Len(txq) \in Nat /\ Len(Shorter) \in Nat
      BY <1>0, <1>6, ShorterIs, LenProperties DEF TxSegment, Outputs
    <3>2. Len(txq) <= chains /\ chains \in Nat
      BY <1>0, <1>b DEF Outputs
    <3> QED
      BY <2>3, <3>1, <3>2
  <2>5. Outputs'
    BY <1>0, <1>6, <2>2, <2>3, <2>4 DEF TxSegment, Outputs
  <2> QED
    BY <1>0, <1>6, <2>5 DEF TxSegment, Typed, Control, Inputs, device, driver, input
<1>7. ASSUME NEW v \in Vcpu, TxDrained(v) PROVE Typed'
  <2>1. Control'
    BY <1>0, <1>7, <1>b DEF TxDrained, Goto, Control, device, queues
  <2> QED
    BY <1>o, <1>7, <2>1 DEF TxDrained, Typed, device, queues, input, output
<1>8. ASSUME NEW v \in Vcpu, TxRaise(v) PROVE Typed'
  <2>1. Control'
    BY <1>0, <1>8, <1>b DEF TxRaise, Goto, Control, queues
  <2> QED
    BY <1>o, <1>8, <2>1 DEF TxRaise, Typed, queues, input, output
<1>9. ASSUME NEW v \in Vcpu, TxPublish(v) PROVE Typed'
  <2>1. PICK c \in Chains :
          /\ txq' = Append(txq, [i \in 1 .. Len(c) |-> Run(Starts(c)[i], c[i])])
          /\ produced' = Starts(c)[Len(c) + 1]
    BY <1>9 DEF TxPublish
  <2> DEFINE new == [i \in 1 .. Len(c) |-> Run(Starts(c)[i], c[i])]
  <2>2. c \in Seq(Nat \ {0}) /\ c # <<>> /\ Len(c) \in Nat \ {0}
    BY Bounds, EmptySeq, LenProperties
  <2>3. /\ \A i \in 1 .. Len(c) + 1 : Starts(c)[i] \in Nat
        /\ \A i \in 1 .. Len(c) : c[i] \in Nat \ {0}
    BY <1>0, <2>2, StartsGrow DEF Outputs
  <2>4. new \in Chain
    <3>1. \A i \in 1 .. Len(c) : Run(Starts(c)[i], c[i]) \in Segment
      <4>1. ASSUME NEW i \in 1 .. Len(c) PROVE i \in 1 .. Len(c) + 1
        BY <2>2
      <4> QED
        BY <2>3, <4>1 DEF Segment
    <3>2. new \in Seq(Segment) /\ Len(new) = Len(c)
      BY <2>2, <3>1, IsASeq
    <3> QED
      BY <2>2, <3>2, EmptySeq DEF Chain
  <2>5. produced' \in Nat
    <3>1. Len(c) + 1 \in 1 .. Len(c) + 1
      BY <2>2
    <3> QED
      BY <2>1, <2>3, <3>1
  <2> HIDE DEF new
  <2>6. txq' \in Seq(Chain) /\ Len(txq') = Len(txq) + 1
    BY <1>0, <2>1, <2>4, AppendProperties DEF Outputs, new
  <2>7. Outputs'
    <3>1. chains' = chains + 1 /\ chains < MaxChains /\ chains \in Nat /\ ready'
      BY <1>0, <1>9, <1>b DEF TxPublish, Outputs
    <3>2. Len(txq) <= chains /\ Len(txq) \in Nat
      BY <1>0, LenProperties DEF Outputs
    <3>3. chains' \in 0 .. MaxChains /\ Len(txq') <= chains'
      BY <1>b, <2>6, <3>1, <3>2
    <3> QED
      BY <1>0, <1>9, <2>5, <2>6, <3>1, <3>3 DEF TxPublish, Outputs, LogTypes, logger
  <2>8. Control'
    BY <1>0, <1>9, <1>b DEF TxPublish, Goto, Control, device
  <2> QED
    BY <1>0, <1>9, <2>7, <2>8 DEF TxPublish, Typed, Inputs, device, input
<1>10. ASSUME NEW v \in Vcpu, UartPut(v) PROVE Typed'
  <2> DEFINE char == <<"uart", printed["uart"] + 1>>
  <2>1. char \in Char
    BY <1>0 DEF Char, Source, Outputs
  <2>2. <<char>> \in Seq(Char) \ {<<>>}
    <3> HIDE DEF char
    <3> QED
      BY <2>1, EmptySeq
  <2>3. LogTypes' /\ (printed \in [Source -> Nat])'
    BY <1>0, <1>10, <2>2, WriteTypes DEF UartPut, Outputs
  <2>4. Outputs'
    BY <1>0, <1>10, <2>3 DEF UartPut, Outputs, queues
  <2> QED
    BY <1>0, <1>10, <2>4 DEF UartPut, Typed, Control, Inputs, device, queues, driver, input
<1>11. ASSUME NEW v \in Vcpu, Probe(v) PROVE Typed'
  <2>1. Control'
    BY <1>0, <1>11, <1>b DEF Probe, Goto, Control, device
  <2>2. Outputs'
    <3>1. <<>> \in Seq(Chain) /\ Len(<<>>) = 0
      BY EmptySeq
    <3> QED
      BY <1>0, <1>11, <1>b, <3>1 DEF Probe, Outputs, LogTypes, logger, output
  <2> QED
    BY <1>o, <1>11, <2>1, <2>2 DEF Probe, Typed, device, input
<1>12. ASSUME NEW v \in Vcpu, TakeIrq(v) PROVE Typed'
  <2>1. Control'
    BY <1>0, <1>12, <1>b DEF TakeIrq, Goto, Control, device, queues
  <2> QED
    BY <1>o, <1>12, <2>1 DEF TakeIrq, Typed, device, queues, input, output
<1>13. ASSUME NEW v \in Vcpu, AckIrq(v) PROVE Typed'
  <2>1. Control'
    BY <1>0, <1>13, <1>b DEF AckIrq, Goto, Control, queues
  <2> QED
    BY <1>o, <1>13, <2>1 DEF AckIrq, Typed, queues, input, output
<1>14. ASSUME NEW v \in Vcpu, Collect(v) PROVE Typed'
  <2>1. Control'
    BY <1>0, <1>14, <1>b DEF Collect, Goto, Control, device
  <2>2. Inputs'
    BY <1>0, <1>14, <1>n DEF Collect, Inputs, input, device
  <2> QED
    BY <1>o, <1>14, <2>1, <2>2 DEF Collect, Typed, device, queues, input, output
<1>15. ASSUME NEW v \in Vcpu, Reset(v) PROVE Typed'
  <2>1. Control'
    <3>1. resets' \in 0 .. MaxResets /\ posted' \in 0 .. Size
      BY <1>0, <1>15, <1>b DEF Reset, Control
    <3>2. pc' = pc /\ mtx' = mtx
      BY <1>0, <1>15 DEF Reset, Goto, Control
    <3> QED
      BY <1>0, <1>15, <3>1, <3>2 DEF Reset, Control
  <2>2. Inputs'
    BY <1>0, <1>15, <1>n DEF Reset, Inputs, input
  <2>3. Outputs'
    <3>1. <<>> \in Seq(Chain) /\ Len(<<>>) = 0
      BY EmptySeq
    <3> QED
      BY <1>0, <1>15, <1>b, <3>1 DEF Reset, Outputs, LogTypes, logger, output
  <2> QED
    BY <2>1, <2>2, <2>3 DEF Typed
<1>16. CASE UNCHANGED vars
  BY <1>0, <1>o, <1>16 DEF vars, Typed, Control, device, queues, logger, driver,
                           input, output
<1> QED
  BY <1>1, <1>2, <1>3, <1>4, <1>5, <1>6, <1>7, <1>8, <1>9, <1>10, <1>11, <1>12,
     <1>13, <1>14, <1>15, <1>16 DEF Next, Device, Guest

LEMMA TypesHold == Spec => []Typed
  BY TypedInit, TypedNext, PTL DEF Spec

(* Every variable keeps its type: RX buffers are neither used twice nor    *)
(* invented, and mtx_ is held only by a vCPU that drains the TX queue.     *)
THEOREM ConsoleTypeCorrect == Spec => []TypeOK
  BY TypesHold, TypedMeans, PTL

(* What stdin no longer has, the guest's RX queue has got, once and in     *)
(* order, for any number of buffers, bytes and resets: feed_rx looks for a *)
(* buffer before it reads.                                                 *)
THEOREM InputArrives == Spec => []InputWhole
  BY TypesHold, TypedMeans, PTL

-----------------------------------------------------------------------------
(* The output.  Each chain published continues the numbering; the segments *)
(* that wait are in its order, and come after all that has been shown.     *)

At(text, s) == {i \in 1 .. Len(text) : text[i][1] = s}
InOrder(text) ==
  \A s \in Source : \A i, j \in At(text, s) : i < j => text[i][2] < text[j][2]

FirstOf(seg) == seg[1][2]
LastOf(seg) == seg[Len(seg)][2]

Waiting ==
  \A i \in 1 .. Len(txq) : \A j \in 1 .. Len(txq[i]) :
    /\ LastOf(txq[i][j]) <= produced
    /\ \A p \in At(Text, "hvc") : Text[p][2] < FirstOf(txq[i][j])
    /\ \A k \in 1 .. Len(txq) : \A l \in 1 .. Len(txq[k]) :
         i < k \/ (i = k /\ j < l) => LastOf(txq[i][j]) < FirstOf(txq[k][l])

Printed ==
  /\ InOrder(Text)
  /\ \A s \in Source : /\ IsFiniteSet(At(Text, s))
                       /\ Cardinality(At(Text, s)) = printed[s]
  /\ \A p \in At(Text, "hvc") : Text[p][2] <= produced
  /\ \A p \in At(Text, "uart") : Text[p][2] <= printed["uart"]

Closed == owner \in {"shut", "joins", "gone"} => partial = <<>>

LEMMA PrintedMeans == Printed /\ Closed => OutputWhole
  BY DEF Printed, Closed, OutputWhole, InOrder, At

(* A run of characters of one source, all newer than those it has shown.   *)
LEMMA MoreText ==
  ASSUME NEW text \in Seq(Char), InOrder(text), NEW s \in Source,
         NEW chars \in Seq(Char),
         \A k \in 1 .. Len(chars) :
           chars[k][1] = s /\ chars[k][2] = chars[1][2] + (k - 1),
         \A p \in At(text, s) : text[p][2] < chars[1][2]
  PROVE  LET more == text \o chars
         IN /\ InOrder(more)
            /\ \A q \in Source \ {s} : At(more, q) = At(text, q)
            /\ IsFiniteSet(At(text, s)) =>
                 /\ IsFiniteSet(At(more, s))
                 /\ Cardinality(At(more, s)) = Cardinality(At(text, s)) + Len(chars)
            /\ \A p \in At(more, s) :
                 \/ p \in At(text, s) /\ more[p] = text[p]
                 \/ more[p][2] <= LastOf(chars)
            /\ \A q \in Source : \A p \in At(text, q) : more[p] = text[p]
<1> DEFINE more == text \o chars
           m == Len(text)
           n == Len(chars)
<1>1. /\ m \in Nat /\ n \in Nat
      /\ Len(more) = m + n
      /\ \A i \in 1 .. m : more[i] = text[i]
      /\ \A i \in m + 1 .. m + n : more[i] = chars[i - m]
  BY LenProperties, ConcatProperties
<1>2. \A i \in 1 .. m : text[i] \in Char
  BY ElementOfSeq
<1>3. \A k \in 1 .. n : chars[k] \in Char
  BY ElementOfSeq
<1> HIDE DEF more
<1>4. At(more, s) = At(text, s) \cup (m + 1 .. m + n)
  <2>1. ASSUME NEW i \in 1 .. m + n
        PROVE  i \in At(more, s) <=> i \in At(text, s) \cup (m + 1 .. m + n)
    <3>1. CASE i \in 1 .. m
      BY <1>1, <3>1 DEF At
    <3>2. CASE i \in m + 1 .. m + n
      <4>1. i - m \in 1 .. n
        BY <1>1, <3>2
      <4>2. more[i][1] = s
        BY <1>1, <3>2, <4>1
      <4> QED
        BY <1>1, <3>2, <4>2 DEF At
    <3> QED
      BY <1>1, <3>1, <3>2
  <2>2. At(more, s) \subseteq 1 .. m + n
    BY <1>1 DEF At
  <2>3. At(text, s) \cup (m + 1 .. m + n) \subseteq 1 .. m + n
    BY <1>1 DEF At
  <2> HIDE DEF m, n
  <2> QED
    BY <2>1, <2>2, <2>3
<1>5. ASSUME NEW q \in Source \ {s} PROVE At(more, q) = At(text, q)
  <2>1. ASSUME NEW i \in m + 1 .. m + n PROVE more[i][1] # q
    <3>1. i - m \in 1 .. n
      BY <1>1
    <3> QED
      BY <1>1, <3>1, <1>5
  <2>2. \A i \in 1 .. m : i \in 1 .. m + n /\ more[i] = text[i]
    BY <1>1
  <2>3. \A i \in 1 .. m + n : i \in 1 .. m \/ i \in m + 1 .. m + n
    BY <1>1
  <2> QED
    BY <1>1, <2>1, <2>2, <2>3 DEF At
<1>6. ASSUME IsFiniteSet(At(text, s))
      PROVE  /\ IsFiniteSet(At(more, s))
             /\ Cardinality(At(more, s)) = Cardinality(At(text, s)) + n
  <2>1. At(text, s) \cap (m + 1 .. m + n) = {}
    BY <1>1 DEF At
  <2>2. IsFiniteSet(m + 1 .. m + n) /\ Cardinality(m + 1 .. m + n) = n
    <3>1. m + 1 \in Int /\ m + n \in Int
      BY <1>1
    <3> HIDE DEF m, n
    <3>2. /\ IsFiniteSet(m + 1 .. m + n)
          /\ Cardinality(m + 1 .. m + n) =
               IF m + 1 > m + n THEN 0 ELSE (m + n) - (m + 1) + 1
      BY <3>1, FS_Interval
    <3> QED
      BY <1>1, <3>2
  <2>3. Cardinality({}) = 0
    BY FS_EmptySet
  <2>4. Cardinality(At(text, s)) \in Nat
    BY <1>6, FS_CardinalityType
  <2> HIDE DEF m, n
  <2>5. /\ IsFiniteSet(At(more, s))
        /\ Cardinality(At(more, s)) =
             Cardinality(At(text, s)) + n
               - Cardinality(At(text, s) \cap (m + 1 .. m + n))
    BY <1>4, <1>6, <2>2, FS_Union
  <2>6. Cardinality(At(text, s) \cap (m + 1 .. m + n)) = 0
    BY <2>1, <2>3
  <2> QED
    BY <1>1, <2>4, <2>5, <2>6
<1>7. ASSUME NEW i \in m + 1 .. m + n
      PROVE  /\ more[i] = chars[i - m] /\ i - m \in 1 .. n
             /\ more[i][2] = chars[1][2] + (i - m - 1)
             /\ chars[1][2] \in Nat /\ more[i][2] <= LastOf(chars)
  <2>1. i - m \in 1 .. n /\ 1 \in 1 .. n /\ n \in 1 .. n
    BY <1>1
  <2>2. chars[1] \in Char /\ chars[n] \in Char
    BY <1>3, <2>1
  <2>3. chars[1][2] \in Nat /\ chars[n][2] = chars[1][2] + (n - 1)
    BY <2>1, <2>2 DEF Char
  <2>4. more[i] = chars[i - m] /\ chars[i - m][2] = chars[1][2] + (i - m - 1)
    BY <1>1, <2>1
  <2> QED
    BY <1>1, <2>1, <2>3, <2>4 DEF LastOf
<1>8. InOrder(more)
  <2>1. ASSUME NEW i \in At(more, s), NEW j \in At(more, s), i < j
        PROVE  more[i][2] < more[j][2]
    <3>1. CASE j \in At(text, s)
      <4>1. i \in At(text, s)
        BY <1>1, <1>4, <2>1, <3>1 DEF At
      <4>2. more[i] = text[i] /\ more[j] = text[j]
        BY <1>1, <3>1, <4>1 DEF At
      <4> QED
        BY <2>1, <3>1, <4>1, <4>2 DEF InOrder
    <3>2. CASE j \in m + 1 .. m + n /\ i \in At(text, s)
      <4>1. i \in 1 .. m /\ more[i] = text[i]
        BY <1>1, <3>2 DEF At
      <4>2. text[i] \in Char /\ text[i][2] < chars[1][2]
        BY <1>2, <3>2, <4>1
      <4>3. text[i][2] \in Nat
        BY <4>2 DEF Char
      <4> QED
        BY <1>1, <1>7, <3>2, <4>1, <4>2, <4>3
    <3>3. CASE j \in m + 1 .. m + n /\ i \in m + 1 .. m + n
      <4>1. more[i][2] = chars[1][2] + (i - m - 1) /\ chars[1][2] \in Nat
        BY <1>7, <3>3
      <4>2. more[j][2] = chars[1][2] + (j - m - 1)
        BY <1>7, <3>3
      <4>3. i \in Int /\ j \in Int
        BY <1>1, <3>3
      <4> QED
        BY <1>1, <2>1, <4>1, <4>2, <4>3
    <3> QED
      BY <1>4, <3>1, <3>2, <3>3
  <2>2. ASSUME NEW q \in Source \ {s}, NEW i \in At(more, q), NEW j \in At(more, q), i < j
        PROVE  more[i][2] < more[j][2]
    <3>1. i \in At(text, q) /\ j \in At(text, q)
      BY <1>5
    <3>2. more[i] = text[i] /\ more[j] = text[j]
      BY <1>1, <3>1 DEF At
    <3> QED
      BY <2>2, <3>1, <3>2 DEF InOrder
  <2> QED
    BY <2>1, <2>2 DEF InOrder
<1>9. \A q \in Source : \A p \in At(text, q) : more[p] = text[p]
  BY <1>1 DEF At
<1>10. \A p \in At(more, s) : p \in At(text, s) \/ more[p][2] <= LastOf(chars)
  BY <1>4, <1>7
<1> QED
  BY <1>5, <1>6, <1>8, <1>9, <1>10 DEF more

Ordered == Waiting /\ Printed /\ Closed

LEMMA OrderedInit == Init => Ordered
<1> SUFFICES ASSUME Init PROVE Ordered
  OBVIOUS
<1>1. Len(<<>>) = 0 /\ <<>> \in Seq(Char)
  BY EmptySeq
<1>2. Text = <<>>
  <2>1. Text = TextOf(terminal) \o partial /\ terminal = <<>> /\ partial = <<>>
    BY DEF Text, TextOf, Init
  <2>2. Text = <<>> \o <<>>
    BY <2>1, TextOfNothing
  <2> QED
    BY <1>1, <2>2, ConcatEmptySeq
<1>3. \A s : At(Text, s) = {}
  BY <1>1, <1>2 DEF At
<1>4. Waiting
  BY <1>1 DEF Waiting, Init
<1>5. Printed
  BY <1>3, FS_EmptySet DEF Printed, InOrder, Init
<1> QED
  BY <1>4, <1>5 DEF Ordered, Closed, Init

LEMMA SameText ==
  ASSUME Waiting, Printed, Text' = Text, UNCHANGED <<produced, printed>>,
         txq' = txq \/ txq' = <<>>
  PROVE  Waiting' /\ Printed'
<1>1. Len(<<>>) = 0
  BY EmptySeq
<1>0. Text' = Text
  OBVIOUS
<1>2. Printed'
  <2>1. \A s : At(Text, s)' = At(Text, s)
    BY <1>0 DEF At
  <2>2. InOrder(Text)'
    BY <1>0, <2>1 DEF Printed, InOrder
  <2> QED
    BY <1>0, <2>1, <2>2 DEF Printed
<1>3. CASE txq' = txq
  <2>1. ASSUME NEW p \in At(Text, "hvc")'
        PROVE  p \in At(Text, "hvc") /\ Text'[p] = Text[p]
    BY <1>0 DEF At
  <2>2. ASSUME NEW i \in 1 .. Len(txq), NEW j \in 1 .. Len(txq[i])
        PROVE  \A p \in At(Text, "hvc")' : Text'[p][2] < FirstOf(txq[i][j])
    BY <2>1 DEF Waiting
  <2> QED
    BY <1>0, <1>2, <1>3, <2>2 DEF Waiting
<1>4. CASE txq' = <<>>
  BY <1>1, <1>2, <1>4 DEF Waiting
<1> QED
  BY <1>2, <1>3, <1>4

\* Each segment that waits is in the queue, and comes before the next.
LEMMA SegmentsOf ==
  ASSUME txq \in Seq(Chain), NEW i \in 1 .. Len(txq), NEW j \in 1 .. Len(txq[i])
  PROVE  /\ txq[i][j] \in Segment
         /\ FirstOf(txq[i][j]) \in Nat /\ LastOf(txq[i][j]) \in Nat
         /\ FirstOf(txq[i][j]) <= LastOf(txq[i][j])
<1>1. txq[i] \in Chain
  BY ElementOfSeq
<1>2. txq[i][j] \in Segment
  BY <1>1, ElementOfSeq DEF Chain
<1> DEFINE seg == txq[i][j]
<1>3. seg \in Segment
  BY <1>2
<1> HIDE DEF seg
<1>4. /\ Len(seg) \in Nat \ {0} /\ seg[1][2] \in Nat
      /\ \A k \in 1 .. Len(seg) : seg[k][2] = seg[1][2] + (k - 1)
  BY <1>3, SegmentIs
<1>5. Len(seg) \in 1 .. Len(seg)
  BY <1>4
<1>6. seg[Len(seg)][2] = seg[1][2] + (Len(seg) - 1)
  BY <1>4, <1>5
<1> QED
  BY <1>2, <1>4, <1>6 DEF FirstOf, LastOf, seg

LEMMA OrderedSegment ==
  ASSUME Typed, Ordered, NEW v \in Vcpu, TxSegment(v)
  PROVE  Waiting' /\ Printed'
<1> DEFINE seg == txq[1][1]
<1>0. /\ txq \in Seq(Chain) /\ txq # <<>> /\ produced \in Nat
      /\ printed \in [Source -> Nat] /\ LogTypes /\ produced' = produced
      /\ Waiting /\ Printed
  BY DEF Typed, Outputs, Ordered, TxSegment
<1>1. /\ Head(txq) = txq[1] /\ txq[1] \in Chain
      /\ Head(txq[1]) = seg /\ seg \in Segment
      /\ Len(txq) \in Nat \ {0} /\ Len(txq[1]) \in Nat \ {0}
  BY <1>0, ShorterIs
<1>2. /\ seg \in Seq(Char) \ {<<>>} /\ Len(seg) \in Nat \ {0}
      /\ \A k \in 1 .. Len(seg) : seg[k][1] = "hvc" /\ seg[k][2] = seg[1][2] + (k - 1)
  BY <1>1, SegmentIs
<1>3. 1 \in 1 .. Len(txq) /\ 1 \in 1 .. Len(txq[1]) /\ 1 \in 1 .. Len(seg)
  BY <1>1, <1>2
<1>4. seg[1][1] = "hvc"
  BY <1>2, <1>3
<1>5. /\ LastOf(seg) <= produced /\ LastOf(seg) \in Nat
      /\ \A p \in At(Text, "hvc") : Text[p][2] < FirstOf(seg)
  BY <1>0, <1>3, SegmentsOf DEF Waiting
<1>6. txq' = Shorter
  BY <1>0 DEF TxSegment, Shorter
<1>7. LogWrite(seg)
  BY <1>1 DEF TxSegment
<1> HIDE DEF seg
<1>8. /\ LogTypes' /\ Text' = Text \o seg
      /\ printed' = [printed EXCEPT !["hvc"] = @ + Len(seg)]
  BY <1>0, <1>2, <1>4, <1>7, WriteTypes
<1>9. Text \in Seq(Char) /\ InOrder(Text) /\ "hvc" \in Source
  BY <1>0, TextTypes DEF Printed, Source
<1>10. LET more == Text \o seg
       IN /\ InOrder(more)
          /\ \A q \in Source \ {"hvc"} : At(more, q) = At(Text, q)
          /\ IsFiniteSet(At(Text, "hvc")) =>
               /\ IsFiniteSet(At(more, "hvc"))
               /\ Cardinality(At(more, "hvc")) = Cardinality(At(Text, "hvc")) + Len(seg)
          /\ \A p \in At(more, "hvc") :
               \/ p \in At(Text, "hvc") /\ more[p] = Text[p]
               \/ more[p][2] <= LastOf(seg)
          /\ \A q \in Source : \A p \in At(Text, q) : more[p] = Text[p]
  BY <1>2, <1>5, <1>9, MoreText DEF FirstOf
<1>11. /\ InOrder(Text') /\ At(Text', "uart") = At(Text, "uart")
       /\ \A p \in At(Text, "uart") : Text'[p] = Text[p]
       /\ IsFiniteSet(At(Text', "hvc"))
       /\ Cardinality(At(Text', "hvc")) = Cardinality(At(Text, "hvc")) + Len(seg)
       /\ \A p \in At(Text', "hvc") :
               \/ p \in At(Text, "hvc") /\ Text'[p] = Text[p]
               \/ Text'[p][2] <= LastOf(seg)
  BY <1>0, <1>8, <1>10 DEF Printed, Source
<1>12. \A p \in At(Text', "hvc") : Text'[p][2] \in Nat /\ Text'[p][2] <= LastOf(seg)
  <2>1. ASSUME NEW p \in At(Text', "hvc") PROVE Text'[p][2] \in Nat
    <3>1. Text' \in Seq(Char)
      BY <1>2, <1>8, <1>9, ConcatProperties
    <3>2. p \in 1 .. Len(Text')
      BY DEF At
    <3>3. Text'[p] \in Char
      BY <3>1, <3>2, ElementOfSeq
    <3> QED
      BY <3>3 DEF Char
  <2>2. FirstOf(seg) <= LastOf(seg) /\ FirstOf(seg) \in Nat
    BY <1>0, <1>3, SegmentsOf DEF seg
  <2> QED
    BY <1>5, <1>11, <2>1, <2>2
<1>13. Printed'
  <2>1. printed'["uart"] = printed["uart"]
        /\ printed'["hvc"] = printed["hvc"] + Len(seg)
    BY <1>0, <1>8 DEF Source
  <2>2. \A p \in At(Text', "hvc") : Text'[p][2] <= produced'
    BY <1>0, <1>5, <1>12
  <2> QED
    BY <1>0, <1>11, <2>1, <2>2 DEF Printed, Source
\* The segments of the shorter queue were in the queue, after the first.
<1>14. ASSUME NEW i \in 1 .. Len(Shorter), NEW j \in 1 .. Len(Shorter[i])
       PROVE  LET a == IF Len(txq[1]) = 1 THEN i + 1 ELSE i
                  b == IF Len(txq[1]) # 1 /\ i = 1 THEN j + 1 ELSE j
              IN /\ a \in 1 .. Len(txq) /\ b \in 1 .. Len(txq[a])
                 /\ Shorter[i][j] = txq[a][b]
                 /\ 1 < a \/ (1 = a /\ 1 < b)
  <2>1. CASE Len(txq[1]) = 1
    <3>1. Len(Shorter) = Len(txq) - 1 /\ \A k \in 1 .. Len(txq) - 1 : Shorter[k] = txq[k + 1]
      BY <1>0, <2>1, ShorterIs
    <3>2. i + 1 \in 1 .. Len(txq) /\ Shorter[i] = txq[i + 1] /\ 1 < i + 1
      BY <1>1, <3>1
    <3> QED
      BY <2>1, <3>2
  <2>2. CASE Len(txq[1]) # 1 /\ i = 1
    <3>1. /\ Len(Shorter[1]) = Len(txq[1]) - 1
          /\ \A k \in 1 .. Len(txq[1]) - 1 : Shorter[1][k] = txq[1][k + 1]
      BY <1>0, <2>2, ShorterIs
    <3>2. j + 1 \in 1 .. Len(txq[1]) /\ Shorter[1][j] = txq[1][j + 1] /\ 1 < j + 1
      BY <1>1, <2>2, <3>1
    <3> QED
      BY <1>3, <2>2, <3>2
  <2>3. CASE Len(txq[1]) # 1 /\ i # 1
    <3>1. Len(Shorter) = Len(txq) /\ \A k \in 2 .. Len(txq) : Shorter[k] = txq[k]
      BY <1>0, <2>3, ShorterIs
    <3>2. i \in 2 .. Len(txq) /\ Shorter[i] = txq[i]
      BY <1>1, <2>3, <3>1
    <3>3. i \in 1 .. Len(txq) /\ 1 < i /\ j \in 1 .. Len(txq[i])
      BY <1>1, <3>2
    <3> QED
      BY <2>3, <3>2, <3>3
  <2> QED
    BY <2>1, <2>2, <2>3
<1>15. Waiting'
  <2>1. ASSUME NEW i \in 1 .. Len(Shorter), NEW j \in 1 .. Len(Shorter[i])
        PROVE  /\ LastOf(Shorter[i][j]) <= produced
               /\ \A p \in At(Text', "hvc") : Text'[p][2] < FirstOf(Shorter[i][j])
    <3>1. PICK a \in 1 .. Len(txq) : \E b \in 1 .. Len(txq[a]) :
            Shorter[i][j] = txq[a][b] /\ (1 < a \/ (1 = a /\ 1 < b))
      BY <1>14, SMTT(30)
    <3>4. PICK b \in 1 .. Len(txq[a]) :
            Shorter[i][j] = txq[a][b] /\ (1 < a \/ (1 = a /\ 1 < b))
      BY <3>1
    <3>2. LastOf(txq[a][b]) <= produced /\ LastOf(seg) < FirstOf(txq[a][b])
      BY <1>0, <1>3, <3>4 DEF Waiting, seg
    <3>3. FirstOf(txq[a][b]) \in Nat
      BY <1>0, SegmentsOf
    <3> QED
      BY <1>5, <1>12, <3>4, <3>2, <3>3
  <2>2. ASSUME NEW i \in 1 .. Len(Shorter), NEW j \in 1 .. Len(Shorter[i]),
               NEW k \in 1 .. Len(Shorter), NEW l \in 1 .. Len(Shorter[k]),
               i < k \/ (i = k /\ j < l)
        PROVE  LastOf(Shorter[i][j]) < FirstOf(Shorter[k][l])
    <3> DEFINE a == IF Len(txq[1]) = 1 THEN i + 1 ELSE i
               b == IF Len(txq[1]) # 1 /\ i = 1 THEN j + 1 ELSE j
               c == IF Len(txq[1]) = 1 THEN k + 1 ELSE k
               d == IF Len(txq[1]) # 1 /\ k = 1 THEN l + 1 ELSE l
    <3>1. a \in 1 .. Len(txq) /\ b \in 1 .. Len(txq[a]) /\ Shorter[i][j] = txq[a][b]
      BY <1>14
    <3>2. c \in 1 .. Len(txq) /\ d \in 1 .. Len(txq[c]) /\ Shorter[k][l] = txq[c][d]
      BY <1>14
    <3>3. a < c \/ (a = c /\ b < d)
      BY <2>2
    <3> HIDE DEF a, b, c, d
    <3> QED
      BY <1>0, <3>1, <3>2, <3>3 DEF Waiting
  <2> QED
    BY <1>0, <1>6, <2>1, <2>2 DEF Waiting
<1> QED
  BY <1>13, <1>15

LEMMA OrderedUart ==
  ASSUME Typed, Ordered, NEW v \in Vcpu, UartPut(v)
  PROVE  Waiting' /\ Printed'
<1> DEFINE n == printed["uart"] + 1
           char == <<"uart", n>>
           put == <<char>>
<1>0. /\ txq \in Seq(Chain) /\ LogTypes /\ printed \in [Source -> Nat]
      /\ Waiting /\ Printed /\ txq' = txq /\ produced' = produced /\ LogWrite(put)
  BY DEF Typed, Outputs, Ordered, UartPut, queues
<1>1. n \in Nat /\ "uart" \in Source /\ printed["uart"] \in Nat
  BY <1>0 DEF Source
<1> HIDE DEF n
<1>2. char \in Char /\ char[1] = "uart" /\ char[2] = n
  BY <1>1 DEF Char
<1> HIDE DEF char
<1>3. put \in Seq(Char) \ {<<>>} /\ Len(put) = 1 /\ put[1] = char
  BY <1>2, EmptySeq
<1> HIDE DEF put
<1>4. /\ LogTypes' /\ Text' = Text \o put
      /\ printed' = [printed EXCEPT !["uart"] = @ + 1]
  BY <1>0, <1>2, <1>3, WriteTypes
<1>5. \A k \in 1 .. Len(put) : put[k][1] = "uart" /\ put[k][2] = put[1][2] + (k - 1)
  BY <1>1, <1>2, <1>3
<1>6. \A p \in At(Text, "uart") : Text[p][2] < put[1][2]
  <2>1. ASSUME NEW p \in At(Text, "uart") PROVE Text[p][2] \in Nat
    <3>1. Text[p] \in Char
      BY <1>0, TextTypes, ElementOfSeq DEF At
    <3> QED
      BY <3>1 DEF Char
  <2> QED
    BY <1>0, <1>1, <1>2, <1>3, <2>1 DEF Printed, n
<1>7. Text \in Seq(Char) /\ InOrder(Text)
  BY <1>0, TextTypes DEF Printed
<1>8. LET more == Text \o put
      IN /\ InOrder(more)
         /\ \A q \in Source \ {"uart"} : At(more, q) = At(Text, q)
         /\ IsFiniteSet(At(Text, "uart")) =>
              /\ IsFiniteSet(At(more, "uart"))
              /\ Cardinality(At(more, "uart")) = Cardinality(At(Text, "uart")) + Len(put)
         /\ \A p \in At(more, "uart") :
              \/ p \in At(Text, "uart") /\ more[p] = Text[p]
              \/ more[p][2] <= LastOf(put)
         /\ \A q \in Source : \A p \in At(Text, q) : more[p] = Text[p]
  BY <1>1, <1>3, <1>5, <1>6, <1>7, MoreText
<1>9. /\ InOrder(Text') /\ At(Text', "hvc") = At(Text, "hvc")
      /\ \A p \in At(Text, "hvc") : Text'[p] = Text[p]
      /\ IsFiniteSet(At(Text', "uart"))
      /\ Cardinality(At(Text', "uart")) = Cardinality(At(Text, "uart")) + 1
      /\ \A p \in At(Text', "uart") :
           \/ p \in At(Text, "uart") /\ Text'[p] = Text[p]
           \/ Text'[p][2] <= n
  BY <1>0, <1>2, <1>3, <1>4, <1>8 DEF Printed, Source, LastOf
<1>10. /\ printed'["hvc"] = printed["hvc"] /\ printed'["uart"] = n
  BY <1>0, <1>4 DEF Source, n
<1>11. \A p \in At(Text', "uart") : Text'[p][2] <= printed'["uart"]
  <2>1. ASSUME NEW p \in At(Text, "uart") PROVE Text[p][2] <= n
    <3>1. Text[p] \in Char
      BY <1>0, TextTypes, ElementOfSeq DEF At
    <3>2. Text[p][2] \in Nat /\ Text[p][2] <= printed["uart"]
      BY <1>0, <3>1 DEF Char, Printed
    <3> QED
      BY <1>1, <3>2 DEF n
  <2> QED
    BY <1>9, <1>10, <2>1
<1>12. Printed'
  <2>1. printed["uart"] + 1 = n
    BY DEF n
  <2> QED
    BY <1>0, <1>9, <1>10, <1>11, <2>1 DEF Printed, Source
<1>13. Waiting'
  <2>1. ASSUME NEW i \in 1 .. Len(txq), NEW j \in 1 .. Len(txq[i]),
               NEW p \in At(Text', "hvc")
        PROVE  Text'[p][2] < FirstOf(txq[i][j])
    <3>1. p \in At(Text, "hvc") /\ Text'[p] = Text[p]
      BY <1>9
    <3> QED
      BY <1>0, <3>1 DEF Waiting
  <2> QED
    BY <1>0, <2>1 DEF Waiting
<1> QED
  BY <1>12, <1>13

LEMMA OrderedPublish ==
  ASSUME Typed, Ordered, NEW v \in Vcpu, TxPublish(v)
  PROVE  Waiting' /\ Printed'
<1>0. /\ txq \in Seq(Chain) /\ LogTypes /\ produced \in Nat
      /\ Waiting /\ Printed /\ UNCHANGED <<partial, terminal, printed>>
  BY DEF Typed, Outputs, Ordered, TxPublish, logger
<1>1. PICK c \in Chains :
        /\ txq' = Append(txq, [i \in 1 .. Len(c) |-> Run(Starts(c)[i], c[i])])
        /\ produced' = Starts(c)[Len(c) + 1]
  BY DEF TxPublish
<1> DEFINE new == [i \in 1 .. Len(c) |-> Run(Starts(c)[i], c[i])]
           n == Len(txq)
<1>2. c \in Seq(Nat \ {0}) /\ c # <<>> /\ Len(c) \in Nat \ {0}
  BY Bounds, EmptySeq, LenProperties
<1>3. /\ \A i \in 1 .. Len(c) + 1 : Starts(c)[i] \in Nat /\ produced <= Starts(c)[i]
      /\ \A i \in 1 .. Len(c) : c[i] \in Nat \ {0}
      /\ \A i \in 1 .. Len(c), j \in 1 .. Len(c) + 1 :
           i < j => Starts(c)[i] + c[i] <= Starts(c)[j]
  BY <1>0, <1>2, StartsGrow
\* Segment j of the new chain: from Starts(c)[j] + 1 to Starts(c)[j] + c[j].
<1>4. ASSUME NEW j \in 1 .. Len(c)
      PROVE  /\ new[j] \in Segment
             /\ FirstOf(new[j]) = Starts(c)[j] + 1
             /\ LastOf(new[j]) = Starts(c)[j] + c[j]
             /\ Starts(c)[j] \in Nat /\ produced <= Starts(c)[j] /\ c[j] \in Nat \ {0}
  <2>1. Starts(c)[j] \in Nat /\ produced <= Starts(c)[j] /\ c[j] \in Nat \ {0}
    <3>1. j \in 1 .. Len(c) + 1
      BY <1>2
    <3> QED
      BY <1>3, <3>1
  <2> DEFINE from == Starts(c)[j]
             len == c[j]
  <2>2. new[j] = Run(from, len)
    OBVIOUS
  <2>3. from \in Nat /\ len \in Nat \ {0}
    BY <2>1
  <2> HIDE DEF new, from, len
  <2>4. new[j] \in Segment
    BY <2>2, <2>3 DEF Segment
  <2>5. Len(Run(from, len)) = len
    <3>1. Run(from, len) \in [1 .. len -> Char]
      BY <2>3 DEF Run, Char, Source
    <3> QED
      BY <2>3, <3>1, IsASeq
  <2>6. 1 \in 1 .. len /\ len \in 1 .. len
    BY <2>3
  <2>7. FirstOf(new[j]) = from + 1 /\ LastOf(new[j]) = from + len
    BY <2>2, <2>5, <2>6 DEF FirstOf, LastOf, Run
  <2> QED
    BY <2>1, <2>4, <2>7 DEF from, len
<1>5. new \in Seq(Segment) /\ Len(new) = Len(c) /\ new \in Chain
  <2>1. new \in Seq(Segment) /\ Len(new) = Len(c)
    BY <1>2, <1>4, IsASeq
  <2> HIDE DEF new
  <2> QED
    BY <1>2, <2>1, EmptySeq DEF Chain
<1> HIDE DEF new
<1>6. /\ n \in Nat /\ Len(txq') = n + 1 /\ txq'[n + 1] = new
      /\ \A i \in 1 .. n : txq'[i] = txq[i]
  BY <1>0, <1>1, <1>5, AppendProperties, LenProperties DEF new
<1>7. produced' \in Nat /\ produced <= produced'
      /\ \A j \in 1 .. Len(c) : Starts(c)[j] + c[j] <= produced'
  <2>1. Len(c) + 1 \in 1 .. Len(c) + 1 /\ \A j \in 1 .. Len(c) : j < Len(c) + 1
    BY <1>2
  <2> QED
    BY <1>1, <1>3, <2>1
<1>8. Text' = Text /\ \A s : At(Text', s) = At(Text, s)
  BY <1>0 DEF Text, At
<1>9. ASSUME NEW p \in At(Text, "hvc")
      PROVE  Text[p][2] \in Nat /\ Text[p][2] <= produced
  <2>1. Text[p] \in Char
    BY <1>0, TextTypes, ElementOfSeq DEF At
  <2> QED
    BY <1>0, <2>1 DEF Char, Printed
<1>10. Printed'
  <2>1. InOrder(Text)'
    BY <1>0, <1>8 DEF Printed, InOrder
  <2>2. \A p \in At(Text', "hvc") : Text'[p][2] <= produced'
    BY <1>0, <1>7, <1>8, <1>9
  <2> QED
    BY <1>0, <1>8, <2>1, <2>2 DEF Printed
\* Segments of chains that were waiting, and of the new one.
<1>11. ASSUME NEW i \in 1 .. n, NEW j \in 1 .. Len(txq[i])
       PROVE  /\ LastOf(txq[i][j]) \in Nat /\ LastOf(txq[i][j]) <= produced
              /\ \A p \in At(Text, "hvc") : Text[p][2] < FirstOf(txq[i][j])
  BY <1>0, SegmentsOf DEF Waiting
<1>12. \A i \in 1 .. n + 1 : i \in 1 .. n \/ i = n + 1
  BY <1>6
<1>13. ASSUME NEW i \in 1 .. n + 1, NEW j \in 1 .. Len(txq'[i])
       PROVE  /\ LastOf(txq'[i][j]) <= produced'
              /\ \A p \in At(Text', "hvc") : Text'[p][2] < FirstOf(txq'[i][j])
  <2>1. CASE i \in 1 .. n
    BY <1>0, <1>6, <1>7, <1>8, <1>11, <2>1
  <2>2. CASE i = n + 1
    <3>1. txq'[i] = new /\ j \in 1 .. Len(c)
      BY <1>5, <1>6, <2>2
    <3> QED
      BY <1>0, <1>4, <1>7, <1>8, <1>9, <3>1, SMTT(30)
  <2> QED
    BY <1>12, <2>1, <2>2
<1>14. ASSUME NEW i \in 1 .. n + 1, NEW j \in 1 .. Len(txq'[i]),
              NEW k \in 1 .. n + 1, NEW l \in 1 .. Len(txq'[k]),
              i < k \/ (i = k /\ j < l)
       PROVE  LastOf(txq'[i][j]) < FirstOf(txq'[k][l])
  <2>1. CASE i \in 1 .. n /\ k \in 1 .. n
    BY <1>0, <1>6, <1>14, <2>1 DEF Waiting
  <2>2. CASE i \in 1 .. n /\ k = n + 1
    <3>1. txq'[k] = new /\ l \in 1 .. Len(c) /\ txq'[i] = txq[i]
      BY <1>5, <1>6, <2>2
    <3>2. LastOf(txq[i][j]) \in Nat /\ LastOf(txq[i][j]) <= produced
      BY <1>11, <2>2, <3>1
    <3> QED
      BY <1>0, <1>4, <3>1, <3>2
  <2>3. CASE i = n + 1 /\ k = n + 1
    <3>1. txq'[i] = new /\ txq'[k] = new /\ j \in 1 .. Len(c) /\ l \in 1 .. Len(c)
      BY <1>5, <1>6, <2>3
    <3>2. j < l
      BY <1>6, <1>14, <2>3
    <3>3. Starts(c)[j] + c[j] <= Starts(c)[l]
      <4>1. l \in 1 .. Len(c) + 1
        BY <1>2, <3>1
      <4> QED
        BY <1>3, <3>1, <3>2, <4>1
    <3>4. /\ LastOf(new[j]) = Starts(c)[j] + c[j] /\ FirstOf(new[l]) = Starts(c)[l] + 1
          /\ Starts(c)[j] \in Nat /\ c[j] \in Nat /\ Starts(c)[l] \in Nat
      BY <1>4, <3>1
    <3> QED
      BY <3>1, <3>3, <3>4
  <2>4. CASE i = n + 1 /\ k \in 1 .. n
    BY <1>6, <1>14, <2>4
  <2> QED
    BY <1>12, <2>1, <2>2, <2>3, <2>4
<1>15. Waiting'
  BY <1>6, <1>13, <1>14 DEF Waiting
<1> QED
  BY <1>10, <1>15

LEMMA OrderedNext == Typed /\ Ordered /\ [Next]_vars => Ordered'
<1> SUFFICES ASSUME Typed, Ordered, [Next]_vars PROVE Ordered'
  OBVIOUS
<1>0. Waiting /\ Printed /\ Closed /\ LogTypes
  BY DEF Ordered, Typed, Outputs
<1>1. CASE /\ UNCHANGED <<partial, terminal, produced, printed>>
           /\ txq' = txq \/ txq' = <<>>
           /\ UNCHANGED owner \/ OwnerGoes("runs", "joined")
                \/ OwnerGoes("shut", "joins") \/ OwnerGoes("joins", "gone")
  <2>1. Text' = Text
    BY <1>1 DEF Text
  <2>2. Closed'
    BY <1>0, <1>1 DEF Closed, OwnerGoes
  <2> QED
    BY <1>0, <1>1, <2>1, <2>2, SameText DEF Ordered
<1>2. CASE Log
  <2>1. Text' = Text
    <3>1. Text' = TextOf(Append(Flushed, LogLine)) \o <<>>
      BY <1>2 DEF Log, Text, TextOf
    <3> QED
      BY <1>0, <3>1, FlushedText, TextTypes, ConcatEmptySeq
  <2>2. UNCHANGED <<produced, printed, txq>> /\ partial' = <<>>
    BY <1>2 DEF Log, queues
  <2> QED
    BY <1>0, <2>1, <2>2, SameText DEF Ordered, Closed
<1>3. CASE Shutdown
  <2>1. Text' = Text
    <3>1. Text' = TextOf(Flushed) \o <<>>
      BY <1>3 DEF Shutdown, Text, TextOf
    <3> QED
      BY <1>0, <3>1, FlushedText, TextTypes, ConcatEmptySeq
  <2>2. UNCHANGED <<produced, printed, txq>> /\ partial' = <<>>
    BY <1>3 DEF Shutdown, queues, output
  <2> QED
    BY <1>0, <2>1, <2>2, SameText DEF Ordered, Closed
<1>4. ASSUME NEW v \in Vcpu, TxSegment(v) \/ UartPut(v) \/ TxPublish(v) PROVE Ordered'
  <2>1. Waiting' /\ Printed'
    BY <1>4, OrderedSegment, OrderedUart, OrderedPublish
  <2>2. Closed'
    <3>1. owner = "runs" /\ owner' = owner
      BY <1>4 DEF TxSegment, UartPut, TxPublish, Goto, driver
    <3> QED
      BY <3>1 DEF Closed
  <2> QED
    BY <2>1, <2>2 DEF Ordered
<1>5. CASE Type \/ RxThread
  BY <1>1, <1>5 DEF Type, RxThread, RxEnds, RxPoll, RxFeed, queues, logger, output
<1>6. CASE Joined \/ StopRx \/ RxJoined
  BY <1>1, <1>6 DEF Joined, StopRx, RxJoined, queues, logger, output
<1>7. ASSUME NEW v \in Vcpu,
             \/ Notify(v) \/ TxDrained(v) \/ TxRaise(v) \/ Probe(v)
             \/ TakeIrq(v) \/ AckIrq(v) \/ Collect(v) \/ Reset(v)
      PROVE  Ordered'
  <2>1. /\ UNCHANGED <<partial, terminal, produced, printed, owner>>
        /\ txq' = txq \/ txq' = <<>>
    BY <1>7 DEF Notify, TxDrained, TxRaise, Probe, TakeIrq, AckIrq, Collect, Reset,
                queues, logger, output
  <2> QED
    BY <1>1, <2>1
<1>8. CASE UNCHANGED vars
  BY <1>1, <1>8 DEF vars, queues, logger, output
<1> QED
  BY <1>2, <1>3, <1>4, <1>5, <1>6, <1>7, <1>8 DEF Next, Owner, Device, Guest

(* Whoever writes between two segments, and whatever a log line or a reset *)
(* does to what is kept back or waits, the terminal gets each source's     *)
(* output complete, once and in order, and nothing is kept back when the   *)
(* machine ends: for any chains, line length and number of vCPUs.          *)
THEOREM OutputArrives == Spec => []OutputWhole
<1>1. Typed /\ Ordered => OutputWhole
  BY PrintedMeans DEF Ordered
<1>2. Spec => []Ordered
  BY OrderedInit, OrderedNext, TypesHold, PTL DEF Spec
<1> QED
  BY <1>1, <1>2, TypesHold, PTL

=============================================================================
