--------------------------- MODULE JsonLexerProofs --------------------------
(***************************************************************************)
(* The prescan of src/src/parser/prescan.c and the lexer of                *)
(* src/src/parser/lexer.c agree on every text, and unescaping never writes *)
(* more than it reads.  The invariant relates what was counted up to a     *)
(* byte to the tokens read up to it; most of the work is to show that the  *)
(* scans of strings, escapes, characters and numbers, as different as they *)
(* are from the prescan, keep in step with it.                             *)
(***************************************************************************)
EXTENDS JsonLexer, RecursionLemmas, FiniteSetTheorems, SequenceTheorems

---------------------------------------------------------------------------
(* Counting.                                                               *)

\* What the prescan keeps.
Tally == [in : BOOLEAN, escape : BOOLEAN, values : Nat, objects : Nat, arrays : Nat]

\* Where a value is counted.
ValueByte == Digit \cup {45, 116, 102, 110}

(* Counting a byte.                                                        *)
LEMMA CountedCases ==
  ASSUME NEW e, NEW byte
  PROVE  /\ e.in /\ e.escape => Counted(e, byte) = [e EXCEPT !.escape = FALSE]
         /\ e.in /\ ~e.escape /\ byte = 92 => Counted(e, byte) = [e EXCEPT !.escape = TRUE]
         /\ e.in /\ ~e.escape /\ byte = 34 => Counted(e, byte) = [e EXCEPT !.in = FALSE, !.values = @ + 1]
         /\ e.in /\ ~e.escape /\ byte \notin {34, 92} => Counted(e, byte) = e
         /\ ~e.in /\ byte = 34 => Counted(e, byte) = [e EXCEPT !.in = TRUE]
         /\ ~e.in /\ byte = 123 => Counted(e, byte) = [e EXCEPT !.objects = @ + 1]
         /\ ~e.in /\ byte = 91 => Counted(e, byte) = [e EXCEPT !.arrays = @ + 1]
         /\ ~e.in /\ byte \in ValueByte => Counted(e, byte) = [e EXCEPT !.values = @ + 1]
         /\ ~e.in /\ byte \notin ValueByte /\ byte \notin {34, 123, 91} => Counted(e, byte) = e
  BY DEF Counted, Digit, ValueByte

(* Counting a byte makes a count of a count.                               *)
LEMMA CountedTally ==
  ASSUME NEW e \in Tally, NEW byte \in Byte
  PROVE  Counted(e, byte) \in Tally
  <1>0. e.values + 1 \in Nat /\ e.objects + 1 \in Nat /\ e.arrays + 1 \in Nat
    BY DEF Tally
  <1>1. /\ [e EXCEPT !.escape = FALSE] \in Tally
        /\ [e EXCEPT !.escape = TRUE] \in Tally
        /\ [e EXCEPT !.in = TRUE] \in Tally
    BY Zenon DEF Tally
  <1>2. /\ [e EXCEPT !.in = FALSE, !.values = @ + 1] \in Tally
        /\ [e EXCEPT !.values = @ + 1] \in Tally
    BY <1>0, Zenon DEF Tally
  <1>3. /\ [e EXCEPT !.objects = @ + 1] \in Tally
        /\ [e EXCEPT !.arrays = @ + 1] \in Tally
    BY <1>0, Zenon DEF Tally
  <1> QED
    BY <1>1, <1>2, <1>3, CountedCases, Zenon

(* The prescan begins with nothing, and goes on a byte at a time.          *)
LEMMA PrescanUnfold ==
  ASSUME NEW b \in Seq(Byte)
  PROVE  /\ Prescan(b)[First(b) - 1] = Nothing
         /\ \A i \in First(b) .. Len(b) : Prescan(b)[i] = Counted(Prescan(b)[i - 1], b[i])
         /\ \A i \in 0 .. Len(b) : Prescan(b)[i] \in Tally
  <1> DEFINE n == Len(b)
             from == First(b)
             Solves(f) == f = [i \in 0 .. n |-> IF i < from THEN Nothing ELSE Counted(f[i - 1], b[i])]
             stop == 0 .. from - 1
             up   == [i \in 1 .. n |-> i - 1]
             val  == [i \in 0 .. n |-> Nothing]
             step == [i \in 0 .. n |-> [e \in Tally |-> IF i = 0 THEN e ELSE Counted(e, b[i])]]
  <1>0. n \in Nat /\ from \in 1 .. n + 1 /\ from \in Nat
    BY DEF First, Bom
  <1>1. /\ 0 \in stop
        /\ \A i \in 1 .. n : i \notin stop => up[i] \in 0 .. i - 1
        /\ \A i \in 0 .. n : i \in stop => val[i] \in Tally
        /\ \A i \in 0 .. n : step[i] \in [Tally -> Tally]
    <2>1. Nothing \in Tally
      BY DEF Nothing, Tally
    <2>2. ASSUME NEW i \in 0 .. n PROVE step[i] \in [Tally -> Tally]
      <3>1. ASSUME NEW e \in Tally PROVE (IF i = 0 THEN e ELSE Counted(e, b[i])) \in Tally
        <4>1. CASE i # 0
          <5>1. b[i] \in Byte
            BY <4>1
          <5> QED
            BY <4>1, <5>1, CountedTally
        <4> QED
          BY <4>1
      <3> QED
        BY <3>1
    <2>3. 0 \in stop
      BY <1>0
    <2> QED
      BY <2>1, <2>2, <2>3
  <1>2. PICK f : Recursion(f, n, stop, val, up, step) /\ f \in [0 .. n -> Tally]
    <2> HIDE DEF up, val, step, n, stop
    <2> QED
      BY <1>0, <1>1, RecursionExists
  <1>3. Solves(f)
    <2>1. ASSUME NEW i \in 0 .. n
          PROVE  f[i] = IF i < from THEN Nothing ELSE Counted(f[i - 1], b[i])
      <3>1. f[i] = IF i \in stop THEN val[i] ELSE step[i][f[up[i]]]
        <4> HIDE DEF up, val, step, stop
        <4> QED
          BY <1>2 DEF Recursion
      <3>2. ASSUME i \notin stop PROVE i # 0 /\ up[i] = i - 1 /\ f[i - 1] \in Tally
        <4>1. i \in 1 .. n /\ i - 1 \in 0 .. n /\ i # 0
          BY <3>2, <1>0
        <4>2. up[i] = i - 1
          BY <4>1
        <4> QED
          BY <1>2, <4>1, <4>2
      <3>3. i \in stop <=> i < from
        BY <1>0
      <3> HIDE DEF stop, from
      <3>4. CASE i \in stop
        BY <3>1, <3>3, <3>4
      <3>5. CASE i \notin stop
        BY <3>1, <3>2, <3>3, <3>5
      <3> QED
        BY <3>4, <3>5
    <2>2. f = [i \in 0 .. n |-> f[i]]
      BY <1>2
    <2> QED
      BY <2>1, <2>2
  <1> DEFINE counts == Prescan(b)
  <1>4. Solves(counts)
    <2>1. counts = CHOOSE g : Solves(g)
      BY DEF Prescan
    <2>2. Solves(CHOOSE g : Solves(g))
      <3> HIDE DEF Solves
      <3> QED
        BY <1>3
    <2> QED
      BY <2>1, <2>2
  <1> HIDE DEF counts
  <1>5. \A i \in 0 .. n : counts[i] = IF i < from THEN Nothing ELSE Counted(counts[i - 1], b[i])
    BY <1>4
  <1>6. \A i \in 0 .. n : counts[i] \in Tally
    <2> DEFINE T == {i \in 0 .. n : counts[i] \notin Tally}
    <2> SUFFICES ASSUME T # {} PROVE FALSE
      OBVIOUS
    <2>1. PICK i \in T : \A j \in T : i <= j
      <3>1. T \subseteq Nat
        OBVIOUS
      <3> HIDE DEF T
      <3> QED
        BY <3>1, LeastNat
    <2>2. i \in 0 .. n /\ counts[i] \notin Tally
      BY <2>1
    <2>3. CASE i < from
      <3>1. counts[i] = Nothing
        BY <1>5, <2>2, <2>3
      <3>2. Nothing \in Tally
        BY DEF Nothing, Tally
      <3> QED
        BY <2>2, <3>1, <3>2
    <2>4. CASE ~ (i < from)
      <3>1. i - 1 \in 0 .. n /\ i - 1 < i
        BY <2>2, <2>4, <1>0
      <3>2. counts[i - 1] \in Tally
        BY <2>1, <3>1
      <3>3. b[i] \in Byte
        BY <2>2, <2>4, <1>0
      <3>4. counts[i] = Counted(counts[i - 1], b[i])
        BY <1>5, <2>2, <2>4
      <3> QED
        BY <3>2, <3>3, <3>4, <2>2, CountedTally
    <2> QED
      BY <2>3, <2>4, <2>2, <1>0
  <1> QED
    <2>1. from - 1 \in 0 .. n /\ from - 1 < from
      BY <1>0
    <2>2. counts[from - 1] = Nothing
      BY <1>5, <2>1
    <2>3. \A i \in from .. n : i \in 0 .. n /\ ~ (i < from)
      BY <1>0
    <2>4. \A i \in from .. n : counts[i] = Counted(counts[i - 1], b[i])
      BY <1>5, <2>3
    <2> QED
      BY <2>2, <2>4, <1>6 DEF counts

---------------------------------------------------------------------------
(* Runs of bytes of one kind.                                              *)

---------------------------------------------------------------------------
(* Scans.                                                                  *)

\* From i to before e there are only such bytes.
Run(i, e, bytes) == e \in i .. Len(source) + 1 /\ \A k \in i .. e - 1 : source[k] \in bytes

(* All such bytes are passed, and no others.                               *)
LEMMA PastFacts ==
  ASSUME source \in Seq(Byte), NEW bytes, NEW i \in 1 .. Len(source) + 1
  PROVE  Run(i, Past(i, bytes), bytes) /\ ~ Is(Past(i, bytes), bytes)
  <1> DEFINE n == Len(source)
             At(f) == f = [k \in 0 .. n + 1 |-> IF Is(k, bytes) THEN f[k + 1] ELSE k]
             stop == {k \in 0 .. n + 1 : ~ Is(k, bytes)}
             next == [k \in 0 .. n + 1 |-> k + 1]
             val  == [k \in 0 .. n + 1 |-> k]
             step == [k \in 0 .. n + 1 |-> [x \in Nat |-> x]]
  <1>0. n \in Nat /\ n + 1 \in Nat /\ ~ Is(n + 1, bytes)
    BY DEF Is
  <1>1. /\ \A k \in 0 .. n + 1 : k \notin stop => next[k] \in 0 .. n + 1 /\ (next[k] \in stop \/ next[k] > k)
        /\ \A k \in 0 .. n + 1 : k \in stop => val[k] \in Nat
        /\ \A k \in 0 .. n + 1 : step[k] \in [Nat -> Nat]
    <2>1. ASSUME NEW k \in 0 .. n + 1, k \notin stop PROVE next[k] \in 0 .. n + 1 /\ next[k] > k
      <3>1. k # n + 1
        BY <1>0, <2>1
      <3> QED
        BY <3>1, <1>0
    <2>2. \A k \in 0 .. n + 1 : step[k] \in [Nat -> Nat]
      OBVIOUS
    <2>3. \A k \in 0 .. n + 1 : k \in stop => val[k] \in Nat
      BY <1>0
    <2> HIDE DEF stop, step, next, val
    <2> QED
      BY <2>1, <2>2, <2>3
  <1>2. PICK f : Ascent(f, n + 1, stop, val, next, step) /\ f \in [0 .. n + 1 -> Nat]
    <2> DEFINE N == Nat
    <2>1. /\ \A k \in 0 .. n + 1 : k \in stop => val[k] \in N
          /\ \A k \in 0 .. n + 1 : step[k] \in [N -> N]
      BY <1>1
    <2> HIDE DEF next, val, step, n, stop, N
    <2>2. \E f : Ascent(f, n + 1, stop, val, next, step) /\ f \in [0 .. n + 1 -> N]
      BY <1>0, <1>1, <2>1, AscentExists
    <2> QED
      BY <2>2 DEF N
  <1>3. At(f)
    <2>1. ASSUME NEW k \in 0 .. n + 1
          PROVE  f[k] = IF Is(k, bytes) THEN f[k + 1] ELSE k
      <3>1. f[k] = IF k \in stop THEN val[k] ELSE step[k][f[next[k]]]
        <4> HIDE DEF next, val, step, stop
        <4> QED
          BY <1>2 DEF Ascent
      <3>2. ASSUME k \notin stop PROVE next[k] = k + 1 /\ f[k + 1] \in Nat
        <4>1. next[k] \in 0 .. n + 1
          BY <1>1, <3>2
        <4> QED
          BY <1>2, <4>1
      <3>3. k \in stop <=> ~ Is(k, bytes)
        OBVIOUS
      <3> HIDE DEF stop
      <3>4. CASE k \in stop
        BY <3>1, <3>3, <3>4
      <3>5. CASE k \notin stop
        BY <3>1, <3>2, <3>3, <3>5
      <3> QED
        BY <3>4, <3>5
    <2>2. f = [k \in 0 .. n + 1 |-> f[k]]
      BY <1>2
    <2> QED
      BY <2>1, <2>2
  <1> DEFINE end == CHOOSE g : At(g)
  <1>4. At(end)
    <2> HIDE DEF At
    <2> QED
      BY <1>3
  <1>5. Past(i, bytes) = end[i]
    BY DEF Past
  <1> HIDE DEF end
  <1>6. \A k \in 0 .. n + 1 : end[k] = IF Is(k, bytes) THEN end[k + 1] ELSE k
    BY <1>4
  <1> DEFINE Good(k) == Run(k, end[k], bytes) /\ ~ Is(end[k], bytes)
             T == {d \in 0 .. n : ~ Good(n + 1 - d)}
  <1>7. T = {}
    <2> SUFFICES ASSUME T # {} PROVE FALSE
      OBVIOUS
    <2>1. PICK d \in T : \A j \in T : d <= j
      <3>1. T \subseteq Nat
        OBVIOUS
      <3> HIDE DEF T
      <3> QED
        BY <3>1, LeastNat
    <2> DEFINE k == n + 1 - d
    <2>2. d \in 0 .. n /\ k \in 1 .. n + 1 /\ k \in 0 .. n + 1 /\ ~ Good(k)
      BY <2>1, <1>0
    <2>3. CASE ~ Is(k, bytes)
      <3>1. end[k] = k
        BY <1>6, <2>2, <2>3
      <3>2. k \in k .. n + 1 /\ k .. k - 1 = {}
        BY <2>2, <1>0
      <3> QED
        BY <3>1, <3>2, <2>2, <2>3 DEF Run
    <2>4. CASE Is(k, bytes)
      <3>1. end[k] = end[k + 1]
        BY <1>6, <2>2, <2>4
      <3>2. k <= n /\ source[k] \in bytes
        BY <2>4 DEF Is
      <3>3. d - 1 \in 0 .. n /\ d - 1 < d /\ n + 1 - (d - 1) = k + 1
        BY <3>2, <2>2, <1>0
      <3>4. Good(k + 1)
        <4>1. d - 1 \notin T
          <5>1. d \in Nat /\ d - 1 \in Nat
            BY <2>2, <3>3, <1>0
          <5> HIDE DEF T
          <5> QED
            BY <2>1, <3>3, <5>1
        <4> QED
          BY <4>1, <3>3
      <3> DEFINE e == end[k + 1]
      <3>5. e \in k + 1 .. n + 1 /\ \A m \in k + 1 .. e - 1 : source[m] \in bytes
        BY <3>4 DEF Run
      <3> HIDE DEF e
      <3>6. e \in k .. n + 1 /\ \A m \in k .. e - 1 : m = k \/ m \in k + 1 .. e - 1
        <4>1. k \in Nat /\ e \in k + 1 .. n + 1
          BY <2>2, <3>5, <1>0
        <4> HIDE DEF k
        <4> QED
          BY <4>1, <1>0
      <3>7. Run(k, e, bytes)
        BY <3>2, <3>5, <3>6 DEF Run
      <3> QED
        BY <3>1, <3>4, <3>7, <2>2 DEF e
    <2> QED
      BY <2>3, <2>4
  <1>8. n + 1 - i \in 0 .. n /\ n + 1 - (n + 1 - i) = i
    BY <1>0
  <1>9. Good(i)
    BY <1>7, <1>8
  <1> QED
    BY <1>5, <1>9

(* Blanks are skipped.                                                     *)
LEMMA StartFacts ==
  ASSUME source \in Seq(Byte), NEW i \in 1 .. Len(source) + 1
  PROVE  Run(i, Start(i), Blank)
  BY PastFacts DEF Start

(* Digits are passed, if there are any.                                    *)
LEMMA DigitsFacts ==
  ASSUME source \in Seq(Byte), NEW i \in 1 .. Len(source) + 2
  PROVE  DigitsEnd(i) = 0 \/ (DigitsEnd(i) > i /\ Run(i, DigitsEnd(i), Digit))
  <1>1. CASE ~ Is(i, Digit)
    BY <1>1 DEF DigitsEnd
  <1>2. CASE Is(i, Digit)
    <2>1. i \in 1 .. Len(source) + 1
      BY <1>2 DEF Is
    <2>2. DigitsEnd(i) = Past(i, Digit)
      BY <1>2 DEF DigitsEnd
    <2>3. Run(i, Past(i, Digit), Digit) /\ ~ Is(Past(i, Digit), Digit)
      BY <2>1, PastFacts
    <2>4. Past(i, Digit) # i
      BY <1>2, <2>3
    <2>5. Past(i, Digit) > i
      BY <2>3, <2>4 DEF Run
    <2> QED
      BY <2>2, <2>3, <2>5
  <1> QED
    BY <1>1, <1>2

(* Runs that follow one another are one.                                   *)
LEMMA RunJoined ==
  ASSUME source \in Seq(Byte), NEW bytes, NEW i \in 1 .. Len(source) + 1, NEW e, NEW g,
         Run(i, e, bytes), Run(e, g, bytes)
  PROVE  Run(i, g, bytes)
  <1>1. e \in i .. Len(source) + 1 /\ g \in e .. Len(source) + 1
    BY DEF Run
  <1>2. g \in i .. Len(source) + 1
    BY <1>1
  <1>3. \A k \in i .. g - 1 : k \in i .. e - 1 \/ k \in e .. g - 1
    BY <1>1
  <1> QED
    BY <1>2, <1>3 DEF Run

(* A run may be of one byte.                                               *)
LEMMA RunOfOne ==
  ASSUME source \in Seq(Byte), NEW bytes, NEW i \in Nat \ {0}, Is(i, bytes)
  PROVE  Run(i, i + 1, bytes)
  <1>1. i <= Len(source) /\ source[i] \in bytes
    BY DEF Is
  <1>2. \A k \in i .. i + 1 - 1 : k = i
    OBVIOUS
  <1>3. i + 1 \in i .. Len(source) + 1
    BY <1>1
  <1> QED
    BY <1>1, <1>2, <1>3 DEF Run

(* What holds only some bytes holds only those and others.                 *)
LEMMA RunWidened ==
  ASSUME source \in Seq(Byte), NEW B, NEW C, B \subseteq C, NEW i, NEW e, Run(i, e, B)
  PROVE  Run(i, e, C)
  BY DEF Run

\* What numbers are made of.
NumberByte == Digit \cup {43, 45, 46, 101, 69}

(* A number is made of such bytes.                                         *)
LEMMA NumberFacts ==
  ASSUME source \in Seq(Byte), NEW first \in 1 .. Len(source), source[first] \in Digit \cup {45}
  PROVE  NumberEnd(first) = 0 \/ (NumberEnd(first) > first /\ Run(first, NumberEnd(first), NumberByte))
  <1> DEFINE start == IF Is(first, {45}) THEN first + 1 ELSE first
             whole == IF ~Is(start, {48}) THEN DigitsEnd(start)
                      ELSE IF Is(start + 1, Digit) THEN 0 ELSE start + 1
             part  == IF whole # 0 /\ Is(whole, {46}) THEN DigitsEnd(whole + 1) ELSE whole
             power == IF part # 0 /\ Is(part + 1, {43, 45}) THEN part + 2 ELSE part + 1
             end   == IF part # 0 /\ Is(part, {101, 69}) THEN DigitsEnd(power) ELSE part
             n == Len(source)
             To(i, e) == e = 0 \/ (e > i /\ Run(i, e, NumberByte))
  <1>0. NumberEnd(first) = end
    BY DEF NumberEnd
  <1>1. Digit \subseteq NumberByte /\ \A c \in {43, 45, 46, 48, 101, 69} : {c} \subseteq NumberByte
    BY DEF NumberByte, Digit
  <1>2. \A i \in 1 .. n + 2 : To(i, DigitsEnd(i))
    BY <1>1, DigitsFacts, RunWidened
  <1>3. \A i \in Nat \ {0} : \A B : Is(i, B) /\ B \subseteq NumberByte => i + 1 > i /\ Run(i, i + 1, NumberByte)
    BY RunOfOne, RunWidened
  <1>4. \A i \in 1 .. n + 1 : \A e, g : Run(i, e, NumberByte) /\ Run(e, g, NumberByte) => Run(i, g, NumberByte)
    BY RunJoined
  <1>5. \A i, e : Run(i, e, NumberByte) /\ i \in 1 .. n + 1 => e \in i .. n + 1
    BY DEF Run
  <1>6. \A i \in 1 .. n + 1 : Run(i, i, NumberByte)
    <2>1. \A i \in 1 .. n + 1 : i \in i .. n + 1 /\ i .. i - 1 = {}
      OBVIOUS
    <2> QED
      BY <2>1 DEF Run
  <1>7. start \in 1 .. n + 1 /\ start >= first /\ Run(first, start, NumberByte)
    <2>1. CASE Is(first, {45})
      BY <2>1, <1>1, <1>3 DEF Is
    <2>2. CASE ~Is(first, {45})
      BY <2>2, <1>6
    <2> QED
      BY <2>1, <2>2
  <1> HIDE DEF start
  <1>8. To(start, whole)
    <2>1. CASE ~Is(start, {48})
      BY <2>1, <1>2, <1>7
    <2>2. CASE Is(start, {48})
      <3>1. start \in Nat \ {0} /\ {48} \subseteq NumberByte
        BY <1>7, <1>1
      <3>2. start + 1 > start /\ Run(start, start + 1, NumberByte)
        BY <3>1, <2>2, <1>3
      <3> QED
        BY <2>2, <3>2
    <2> QED
      BY <2>1, <2>2
  <1>9. To(first, whole)
    <2>1. CASE whole = 0
      BY <2>1
    <2>2. CASE whole # 0
      <3>1. whole > start /\ Run(start, whole, NumberByte)
        BY <1>8, <2>2
      <3> HIDE DEF whole
      <3>2. Run(first, whole, NumberByte)
        BY <3>1, <1>7, <1>4
      <3>3. whole \in start .. n + 1
        BY <3>1, <1>5, <1>7
      <3> QED
        BY <3>1, <3>2, <3>3, <1>7
    <2> QED
      BY <2>1, <2>2
  <1> HIDE DEF whole
  <1>10. ASSUME NEW e, To(first, e), e # 0, NEW j \in 1 .. n + 2, NEW m \in {e + 1, e + 2}, j = m,
                Run(e, m, NumberByte) \/ j = n + 2
         PROVE  To(first, DigitsEnd(j))
    <2>1. CASE DigitsEnd(j) = 0
      BY <2>1
    <2>2. CASE DigitsEnd(j) # 0
      <3> DEFINE g == DigitsEnd(j)
      <3>1. g > j /\ Run(j, g, NumberByte)
        BY <1>2, <1>10, <2>2
      <3> HIDE DEF g
      <3>2. j # n + 2
        BY <3>1 DEF Run
      <3>3. Run(first, e, NumberByte) /\ e > first /\ e \in 1 .. n + 1
        BY <1>10, <1>5
      <3>4. Run(e, j, NumberByte)
        BY <1>10, <3>2
      <3>5. Run(e, g, NumberByte)
        BY <3>1, <3>3, <3>4, <1>4
      <3>6. Run(first, g, NumberByte) /\ g \in e .. n + 1
        BY <3>3, <3>5, <1>4, <1>5
      <3>7. g > first
        BY <3>3, <3>6
      <3> QED
        BY <3>6, <3>7 DEF g
    <2> QED
      BY <2>1, <2>2
  <1>11. To(first, part)
    <2>1. CASE ~ (whole # 0 /\ Is(whole, {46}))
      BY <2>1, <1>9
    <2>2. CASE whole # 0 /\ Is(whole, {46})
      <3>1. whole \in 1 .. n + 1
        BY <1>9, <1>5, <2>2
      <3>2. Run(whole, whole + 1, NumberByte)
        BY <3>1, <2>2, <1>3, <1>1
      <3>3. whole + 1 \in 1 .. n + 2
        BY <3>1
      <3> QED
        BY <2>2, <1>9, <3>2, <3>3, <1>10
    <2> QED
      BY <2>1, <2>2
  <1> HIDE DEF part
  <1>12. To(first, end)
    <2>1. CASE ~ (part # 0 /\ Is(part, {101, 69}))
      BY <2>1, <1>11
    <2>2. CASE part # 0 /\ Is(part, {101, 69})
      <3>1. part \in 1 .. n + 1
        BY <1>11, <1>5, <2>2
      <3>2. Run(part, part + 1, NumberByte)
        <4>1. {101, 69} \subseteq NumberByte
          BY DEF NumberByte
        <4> QED
          BY <3>1, <4>1, <2>2, <1>3
      <3>3. part <= n
        BY <2>2 DEF Is
      <3>4. CASE ~Is(part + 1, {43, 45})
        <4>1. power = part + 1 /\ power \in 1 .. n + 2
          BY <3>4, <3>1, <2>2
        <4> QED
          BY <4>1, <2>2, <1>11, <3>2, <1>10
      <3>5. CASE Is(part + 1, {43, 45})
        <4>1. power = part + 2 /\ power \in 1 .. n + 2
          BY <3>5, <3>1, <3>3, <2>2
        <4>2. Run(part + 1, part + 2, NumberByte)
          <5>1. {43, 45} \subseteq NumberByte /\ part + 1 \in Nat \ {0} /\ part + 1 + 1 = part + 2
            BY <3>1 DEF NumberByte
          <5>2. Run(part + 1, part + 1 + 1, NumberByte)
            BY <5>1, <3>5, <1>3
          <5> QED
            BY <5>1, <5>2
        <4>3. Run(part, part + 2, NumberByte)
          BY <3>1, <3>2, <4>2, <1>4
        <4> QED
          BY <4>1, <4>3, <2>2, <1>11, <1>10
      <3> QED
        BY <3>4, <3>5
    <2> QED
      BY <2>1, <2>2
  <1> QED
    BY <1>0, <1>12

---------------------------------------------------------------------------
(* Counting outside of strings and inside of them.                         *)

---------------------------------------------------------------------------
(* The prescan beside the scans.                                           *)

\* Outside a string, and behind some that is no bracket.
Outside(c)   == ~ c.in /\ ~ c.escape
Beyond(c, d) == Outside(d) /\ d.objects = c.objects /\ d.arrays = c.arrays /\ d.values >= c.values

(* A byte outside of strings that opens nothing.                           *)
LEMMA CountedPlain ==
  ASSUME NEW c \in Tally, Outside(c), NEW byte \in Byte, byte \notin {34, 123, 91}
  PROVE  /\ Beyond(c, Counted(c, byte))
         /\ byte \in ValueByte => Counted(c, byte).values = c.values + 1
  <1> DEFINE d == [c EXCEPT !.values = @ + 1]
  <1>1. c.values \in Nat /\ c.values + 1 >= c.values /\ c.values >= c.values
    BY DEF Tally
  <1>2. d.values = c.values + 1 /\ d.in = c.in /\ d.escape = c.escape /\ d.objects = c.objects /\ d.arrays = c.arrays
    BY Zenon DEF Tally
  <1>3. CASE byte \in ValueByte
    <2>1. Counted(c, byte) = d
      BY <1>3, CountedCases, Zenon DEF Outside
    <2> HIDE DEF d
    <2> QED
      BY <2>1, <1>1, <1>2, Zenon DEF Outside, Beyond
  <1>4. CASE byte \notin ValueByte
    <2>1. Counted(c, byte) = c
      BY <1>4, CountedCases, Zenon DEF Outside
    <2> QED
      BY <2>1, <1>1, <1>4, Zenon DEF Outside, Beyond
  <1> QED
    BY <1>3, <1>4

(* What is beyond something beyond is beyond it.                           *)
LEMMA BeyondBeyond ==
  ASSUME NEW c \in Tally, NEW d \in Tally, NEW e \in Tally, Beyond(c, d), Beyond(d, e)
  PROVE  Beyond(c, e)
  <1>1. c.values \in Nat /\ d.values \in Nat /\ e.values \in Nat
    BY DEF Tally
  <1>2. d.values >= c.values /\ e.values >= d.values
    BY DEF Beyond
  <1>3. e.values >= c.values
    BY <1>1, <1>2
  <1> QED
    BY <1>3, Zenon DEF Beyond

(* A run of such bytes.                                                    *)
LEMMA PlainRun ==
  ASSUME NEW b \in Seq(Byte), NEW i \in First(b) .. Len(b) + 1, NEW e \in i .. Len(b) + 1,
         \A k \in i .. e - 1 : b[k] \notin {34, 123, 91},
         Outside(Prescan(b)[i - 1])
  PROVE  Beyond(Prescan(b)[i - 1], Prescan(b)[e - 1])
  <1> DEFINE P == Prescan(b)
             c == P[i - 1]
             T == {d \in 0 .. e - i : ~ Beyond(c, P[i - 1 + d])}
  <1>0. Len(b) \in Nat /\ First(b) \in Nat \ {0}
    BY DEF First
  <1>1. /\ \A k \in 0 .. Len(b) : P[k] \in Tally
        /\ \A k \in First(b) .. Len(b) : P[k] = Counted(P[k - 1], b[k])
    BY PrescanUnfold
  <1>2. i - 1 \in 0 .. Len(b)
    BY <1>0
  <1>3. c \in Tally
    BY <1>1, <1>2
  <1>4. T = {}
    <2> SUFFICES ASSUME T # {} PROVE FALSE
      OBVIOUS
    <2>1. PICK d \in T : \A j \in T : d <= j
      <3>1. T \subseteq Nat
        BY <1>0
      <3> HIDE DEF T
      <3> QED
        BY <3>1, LeastNat
    <2>2. d \in 0 .. e - i /\ d \in Nat /\ ~ Beyond(c, P[i - 1 + d])
      BY <2>1, <1>0
    <2>3. d # 0
      <3>1. c.values >= c.values
        BY <1>3 DEF Tally
      <3>2. Beyond(c, c)
        BY <3>1, Zenon DEF Beyond
      <3>3. i - 1 + 0 = i - 1
        BY <1>2
      <3> QED
        BY <2>2, <3>2, <3>3
    <2> DEFINE k == i - 1 + d
    <2>4. /\ d - 1 \in 0 .. e - i /\ d - 1 < d /\ d - 1 \in Nat /\ i - 1 + (d - 1) = k - 1
          /\ k \in First(b) .. Len(b) /\ k \in i .. e - 1 /\ k \in 0 .. Len(b) /\ k - 1 \in 0 .. Len(b)
          /\ k \in 1 .. Len(b)
      BY <2>2, <2>3, <1>0
    <2>5. Beyond(c, P[k - 1])
      <3>1. d - 1 \notin T
        <4> HIDE DEF T
        <4> QED
          BY <2>1, <2>2, <2>4
      <3> QED
        BY <3>1, <2>4
    <2>6. P[k] = Counted(P[k - 1], b[k]) /\ P[k - 1] \in Tally /\ P[k] \in Tally
      BY <2>4, <1>1
    <2>7. b[k] \in Byte /\ b[k] \notin {34, 123, 91}
      BY <2>4
    <2>8. Beyond(P[k - 1], P[k])
      <3>1. Outside(P[k - 1])
        BY <2>5 DEF Beyond
      <3> HIDE DEF P, k
      <3> QED
        BY <3>1, <2>6, <2>7, CountedPlain
    <2>9. Beyond(c, P[k])
      <3> HIDE DEF P, k, c
      <3> QED
        BY <2>5, <2>6, <2>8, <1>3, BeyondBeyond
    <2> QED
      BY <2>2, <2>9
  <1>5. e - i \in 0 .. e - i /\ i - 1 + (e - i) = e - 1
    BY <1>0
  <1>6. Beyond(c, P[i - 1 + (e - i)])
    <2>1. e - i \notin T
      BY <1>4
    <2> QED
      BY <2>1, <1>5
  <1> QED
    BY <1>5, <1>6

\* Inside a string.
Inside(c) == c.in /\ ~ c.escape

(* Inside a string only quotes and backslashes matter, ...                 *)
LEMMA InsideRun ==
  ASSUME NEW b \in Seq(Byte), NEW i \in First(b) .. Len(b) + 1, NEW e \in i .. Len(b) + 1,
         \A k \in i .. e - 1 : b[k] \notin {34, 92},
         Inside(Prescan(b)[i - 1])
  PROVE  Prescan(b)[e - 1] = Prescan(b)[i - 1]
  <1> DEFINE P == Prescan(b)
             c == P[i - 1]
             T == {d \in 0 .. e - i : P[i - 1 + d] # c}
  <1>0. Len(b) \in Nat /\ First(b) \in Nat \ {0}
    BY DEF First
  <1>1. \A k \in First(b) .. Len(b) : P[k] = Counted(P[k - 1], b[k])
    BY PrescanUnfold
  <1>4. T = {}
    <2> SUFFICES ASSUME T # {} PROVE FALSE
      OBVIOUS
    <2>1. PICK d \in T : \A j \in T : d <= j
      <3>1. T \subseteq Nat
        BY <1>0
      <3> HIDE DEF T
      <3> QED
        BY <3>1, LeastNat
    <2>2. d \in 0 .. e - i /\ d \in Nat /\ P[i - 1 + d] # c
      BY <2>1, <1>0
    <2>3. d # 0
      <3>3. i - 1 + 0 = i - 1
        BY <1>0
      <3> QED
        BY <2>2, <3>3
    <2> DEFINE k == i - 1 + d
    <2>4. /\ d - 1 \in 0 .. e - i /\ d - 1 < d /\ d - 1 \in Nat /\ i - 1 + (d - 1) = k - 1
          /\ k \in First(b) .. Len(b) /\ k \in i .. e - 1
      BY <2>2, <2>3, <1>0
    <2>5. P[k - 1] = c
      <3>1. d - 1 \notin T
        <4> HIDE DEF T
        <4> QED
          BY <2>1, <2>2, <2>4
      <3> QED
        BY <3>1, <2>4
    <2>6. P[k] = Counted(c, b[k])
      BY <2>4, <2>5, <1>1
    <2>7. b[k] \notin {34, 92}
      BY <2>4
    <2>8. Counted(c, b[k]) = c
      <3>1. c.in /\ ~ c.escape
        BY DEF Inside
      <3> HIDE DEF P, k, c
      <3> QED
        BY <2>7, <3>1, CountedCases, Zenon
    <2> QED
      BY <2>2, <2>6, <2>8
  <1>5. e - i \in 0 .. e - i /\ i - 1 + (e - i) = e - 1
    BY <1>0
  <1>6. P[i - 1 + (e - i)] = c
    <2>1. e - i \notin T
      BY <1>4
    <2> QED
      BY <2>1, <1>5
  <1> QED
    BY <1>5, <1>6

(* ... and a backslash hides what follows it.                              *)
LEMMA InsideEscape ==
  ASSUME NEW b \in Seq(Byte), NEW i \in First(b) .. Len(b), i + 1 <= Len(b), b[i] = 92,
         Inside(Prescan(b)[i - 1])
  PROVE  Prescan(b)[i + 1] = Prescan(b)[i - 1]
  <1> DEFINE P == Prescan(b)
             c == P[i - 1]
             d == [c EXCEPT !.escape = TRUE]
  <1>0. Len(b) \in Nat /\ First(b) \in Nat \ {0}
    BY DEF First
  <1>1. /\ \A k \in First(b) .. Len(b) : P[k] = Counted(P[k - 1], b[k])
        /\ \A k \in 0 .. Len(b) : P[k] \in Tally
    BY PrescanUnfold
  <1>2. i \in First(b) .. Len(b) /\ i + 1 \in First(b) .. Len(b) /\ i + 1 - 1 = i /\ i - 1 \in 0 .. Len(b)
    BY <1>0
  <1>3. P[i] = Counted(c, b[i]) /\ P[i + 1] = Counted(P[i], b[i + 1]) /\ c \in Tally
    BY <1>1, <1>2
  <1> HIDE DEF P
  <1>4. c.in /\ ~ c.escape
    BY DEF Inside, P
  <1> HIDE DEF c
  <1>5. P[i] = d
    BY <1>3, <1>4, CountedCases, Zenon
  <1>6. d.in /\ d.escape
    BY <1>3, <1>4, Zenon DEF Tally
  <1>7. [d EXCEPT !.escape = FALSE] = c
    <2>1. c = [c EXCEPT !.escape = FALSE]
      BY <1>3, <1>4 DEF Tally
    <2>2. [d EXCEPT !.escape = FALSE] = [c EXCEPT !.escape = FALSE]
      BY <1>3 DEF Tally
    <2> QED
      BY <2>1, <2>2
  <1> HIDE DEF d
  <1>8. Counted(d, b[i + 1]) = [d EXCEPT !.escape = FALSE]
    BY <1>6, CountedCases, Zenon
  <1> QED
    BY <1>3, <1>5, <1>7, <1>8 DEF c, P

---------------------------------------------------------------------------
(* Escapes and characters.                                                 *)

\* The number they make.
Four(a, b, c, d) == (4096 * a) + (256 * b) + (16 * c) + d

\* What two bytes can hold.
Unit16(u) == u \in Nat /\ u <= 65535

(* Four hexadecimal digits make a number below 65536.                      *)
LEMMA FourDigits ==
  ASSUME NEW p \in 0 .. 15, NEW q \in 0 .. 15, NEW r \in 0 .. 15, NEW s \in 0 .. 15
  PROVE  Unit16(Four(p, q, r, s))
  BY DEF Four, Unit16

\* Four hexadecimal digits from i on.
HexAt(b, i) == i + 3 <= Len(b) /\ \A k \in i .. i + 3 : b[k] \in HexDigit

(* What a hexadecimal digit counts.                                        *)
LEMMA DigitValue ==
  ASSUME NEW h \in HexDigit
  PROVE  HexValue(h) \in 0 .. 15
  BY DEF HexValue, HexDigit, Digit

(* Four hexadecimal digits make a number of two bytes.                     *)
LEMMA HexFacts ==
  ASSUME NEW b \in Seq(Byte), NEW i \in Nat, FourHex(b, i) # -1
  PROVE  HexAt(b, i) /\ Unit16(FourHex(b, i))
  <1> DEFINE digit(k) == HexValue(b[i + k])
  <1>1. i + 3 <= Len(b) /\ \A k \in 0 .. 3 : b[i + k] \in HexDigit
    BY DEF FourHex
  <1>2. FourHex(b, i) = Four(digit(0), digit(1), digit(2), digit(3))
    BY <1>1 DEF FourHex, Four
  <1>3. b[i + 0] \in HexDigit /\ b[i + 1] \in HexDigit /\ b[i + 2] \in HexDigit /\ b[i + 3] \in HexDigit
    BY <1>1
  <1>4. digit(0) \in 0 .. 15 /\ digit(1) \in 0 .. 15 /\ digit(2) \in 0 .. 15 /\ digit(3) \in 0 .. 15
    BY <1>3, DigitValue, Zenon
  <1> HIDE DEF digit
  <1>5. Unit16(FourHex(b, i))
    <2>1. \A p, q, r, s \in 0 .. 15 : Unit16(Four(p, q, r, s))
      BY FourDigits
    <2> QED
      BY <1>2, <1>4, <2>1, Zenon
  <1>6. \A k \in i .. i + 3 : k - i \in 0 .. 3 /\ i + (k - i) = k
    OBVIOUS
  <1>7. HexAt(b, i)
    BY <1>1, <1>6 DEF HexAt
  <1> QED
    BY <1>5, <1>7

(* The bytes inside a character are neither quotes nor backslashes.        *)
LEMMA MiddleQuiet == \A h \in 128 .. 191 : h \notin {34, 92}
  OBVIOUS

(* Hexadecimal digits are neither quotes nor backslashes.                  *)
LEMMA HexQuiet == \A h \in HexDigit : h \notin {34, 92}
  BY DEF HexDigit, Digit

\* There is an escape of each length at i.
Short(i) == i + 1 <= Len(source)
Hex(i)   == i + 5 <= Len(source) /\ \A k \in i + 2 .. i + 5 : source[k] \notin {34, 92}
Pair(i)  == i + 11 <= Len(source) /\ source[i + 6] = 92 /\ \A k \in i + 8 .. i + 11 : source[k] \notin {34, 92}

(* How long an escape is.                                                  *)
LEMMA EscapeShape ==
  ASSUME source \in Seq(Byte), NEW i \in 1 .. Len(source), EscapeEnd(i) # 0
  PROVE  \/ EscapeEnd(i) = i + 2 /\ Short(i)
         \/ EscapeEnd(i) = i + 6 /\ Short(i) /\ Hex(i)
         \/ EscapeEnd(i) = i + 12 /\ Short(i) /\ Hex(i) /\ Pair(i)
  <1> DEFINE n == Len(source)
             unit == FourHex(source, i + 2)
  <1>0. n \in Nat /\ i \in Nat
    OBVIOUS
  <1>1. -1 \notin HighUnit /\ -1 \notin LowUnit
    BY DEF HighUnit, LowUnit
  <1>2. ASSUME unit # -1 PROVE Hex(i)
    <2>1. i + 2 \in Nat /\ i + 2 + 3 = i + 5
      BY <1>0
    <2>2. i + 2 + 3 <= n /\ \A k \in i + 2 .. i + 2 + 3 : source[k] \in HexDigit
      BY <2>1, <1>2, HexFacts DEF HexAt
    <2> QED
      BY <2>1, <2>2, HexQuiet DEF Hex
  <1>3. ASSUME LowFollows(source, i + 6) PROVE Pair(i)
    <2>1. i + 6 + 5 = i + 11 /\ i + 6 + 2 = i + 8 /\ i + 8 \in Nat /\ i + 8 + 3 = i + 11
      BY <1>0
    <2>2. i + 6 + 5 <= n /\ source[i + 6] = 92 /\ FourHex(source, i + 6 + 2) \in LowUnit
      BY <1>3 DEF LowFollows
    <2>3. FourHex(source, i + 8) # -1
      BY <1>1, <2>1, <2>2
    <2>4. \A k \in i + 8 .. i + 8 + 3 : source[k] \in HexDigit
      BY <2>1, <2>3, HexFacts DEF HexAt
    <2> QED
      BY <2>1, <2>2, <2>4, HexQuiet DEF Pair
  <1>4. \A B : Is(i + 1, B) => Short(i)
    BY DEF Is, Short
  <1>5. CASE Is(i + 1, {34, 92, 47, 98, 102, 110, 116, 114})
    <2>0. ~ Is(i + 1, {117})
      BY <1>5 DEF Is
    <2>1. EscapeEnd(i) = i + 2
      BY <1>5, <2>0 DEF EscapeEnd
    <2> QED
      BY <1>4, <1>5, <2>1
  <1>6. CASE ~ Is(i + 1, {34, 92, 47, 98, 102, 110, 116, 114}) /\ Is(i + 1, {117}) /\ unit \in HighUnit
    <2>1. EscapeEnd(i) = i + 12 /\ LowFollows(source, i + 6)
      BY <1>6 DEF EscapeEnd
    <2>2. unit # -1
      BY <1>1, <1>6
    <2> QED
      BY <1>2, <1>3, <1>4, <1>6, <2>1, <2>2
  <1>7. CASE ~ Is(i + 1, {34, 92, 47, 98, 102, 110, 116, 114}) /\ ~ (Is(i + 1, {117}) /\ unit \in HighUnit)
    <2>1. Is(i + 1, {117}) /\ unit # -1 /\ EscapeEnd(i) = i + 6
      BY <1>7 DEF EscapeEnd
    <2> QED
      BY <1>2, <1>4, <2>1
  <1> QED
    BY <1>5, <1>6, <1>7

(* An escape ends behind where it begins, and in the text.                 *)
LEMMA EscapeBounds ==
  ASSUME source \in Seq(Byte), NEW i \in 1 .. Len(source)
  PROVE  EscapeEnd(i) = 0 \/ EscapeEnd(i) \in i + 1 .. Len(source) + 1
  <1> SUFFICES ASSUME EscapeEnd(i) # 0 PROVE EscapeEnd(i) \in i + 1 .. Len(source) + 1
    OBVIOUS
  <1>1. Len(source) \in Nat /\ i \in Nat
    OBVIOUS
  <1>2. Short(i) => i + 2 \in i + 1 .. Len(source) + 1
    BY <1>1 DEF Short
  <1>3. Hex(i) => i + 6 \in i + 1 .. Len(source) + 1
    BY <1>1 DEF Hex
  <1>4. Pair(i) => i + 12 \in i + 1 .. Len(source) + 1
    BY <1>1 DEF Pair
  <1> QED
    BY <1>2, <1>3, <1>4, EscapeShape

(* An escape ends inside the string where it began.                        *)
LEMMA EscapeFacts ==
  ASSUME source \in Seq(Byte), NEW i \in First(source) .. Len(source), source[i] = 92,
         Inside(Prescan(source)[i - 1]), EscapeEnd(i) # 0
  PROVE  Prescan(source)[EscapeEnd(i) - 1] = Prescan(source)[i - 1]
  <1> DEFINE n == Len(source)
             P == Prescan(source)
  <1>0. n \in Nat /\ First(source) \in Nat \ {0} /\ i \in Nat /\ i \in 1 .. n
    BY DEF First
  <1>1. \/ EscapeEnd(i) = i + 2 /\ Short(i)
        \/ EscapeEnd(i) = i + 6 /\ Short(i) /\ Hex(i)
        \/ EscapeEnd(i) = i + 12 /\ Short(i) /\ Hex(i) /\ Pair(i)
    BY <1>0, EscapeShape
  <1>2. Short(i)
    BY <1>1
  <1>3. P[i + 1] = P[i - 1]
    BY <1>2, InsideEscape DEF Short
  <1>4. ASSUME Hex(i) PROVE P[i + 5] = P[i - 1]
    <2> DEFINE j == i + 2  e == i + 6
    <2>1. /\ j \in First(source) .. n + 1 /\ e \in j .. n + 1 /\ j - 1 = i + 1 /\ e - 1 = i + 5
      BY <1>4, <1>0 DEF Hex
    <2>2. Inside(P[j - 1]) /\ \A k \in j .. e - 1 : source[k] \notin {34, 92}
      BY <2>1, <1>3, <1>4 DEF Hex
    <2> HIDE DEF j, e
    <2>3. P[e - 1] = P[j - 1]
      BY <2>1, <2>2, InsideRun
    <2> QED
      BY <2>1, <2>3, <1>3
  <1>5. ASSUME Hex(i), Pair(i) PROVE P[i + 11] = P[i - 1]
    <2>1. P[i + 7] = P[i - 1]
      <3> DEFINE j == i + 6
      <3>1. j \in First(source) .. n /\ j + 1 <= n /\ source[j] = 92 /\ j - 1 = i + 5 /\ j + 1 = i + 7
        BY <1>5, <1>0 DEF Pair
      <3>2. Inside(P[j - 1])
        BY <3>1, <1>4, <1>5
      <3> HIDE DEF j
      <3>3. P[j + 1] = P[j - 1]
        BY <3>1, <3>2, InsideEscape
      <3> QED
        BY <3>1, <3>3, <1>4, <1>5
    <2> DEFINE j == i + 8  e == i + 12
    <2>2. /\ j \in First(source) .. n + 1 /\ e \in j .. n + 1 /\ j - 1 = i + 7 /\ e - 1 = i + 11
      BY <1>5, <1>0 DEF Pair
    <2>3. Inside(P[j - 1]) /\ \A k \in j .. e - 1 : source[k] \notin {34, 92}
      BY <2>1, <2>2, <1>5 DEF Pair
    <2> HIDE DEF j, e
    <2>4. P[e - 1] = P[j - 1]
      BY <2>2, <2>3, InsideRun
    <2> QED
      BY <2>1, <2>2, <2>4
  <1>6. i + 2 - 1 = i + 1 /\ i + 6 - 1 = i + 5 /\ i + 12 - 1 = i + 11
    BY <1>0
  <1> QED
    BY <1>1, <1>3, <1>4, <1>5, <1>6

(* A character is as long as its first byte says.                          *)
LEMMA CharacterShape ==
  ASSUME source \in Seq(Byte), NEW i \in 1 .. Len(source), source[i] \notin {34, 92}, CharacterEnd(i) # 0
  PROVE  /\ CharacterEnd(i) \in i + 1 .. Len(source) + 1
         /\ \A k \in i .. CharacterEnd(i) - 1 : source[k] \notin {34, 92}
  <1> DEFINE n == Len(source)
             first == source[i]
             width == CASE first \in 32 .. 127 -> 1
                        [] first \in 194 .. 223 -> 2
                        [] first \in 224 .. 239 -> 3
                        [] first \in 240 .. 244 -> 4
                        [] OTHER -> 0
             e == i + width
  <1>0. n \in Nat /\ i \in Nat
    OBVIOUS
  <1>1. width \in 0 .. 4
    BY <1>0
  <1>2. /\ CharacterEnd(i) = e /\ width # 0 /\ i + width - 1 <= n
        /\ width > 1 => source[i + 1] \in Second(first)
        /\ \A k \in 2 .. width - 1 : source[i + k] \in 128 .. 191
    BY DEF CharacterEnd
  <1>3. Second(first) \subseteq 128 .. 191
    BY DEF Second
  <1> HIDE DEF width
  <1>4. e \in i + 1 .. n + 1
    BY <1>0, <1>1, <1>2
  <1>5. \A k \in i .. e - 1 : source[k] \notin {34, 92}
    <2> SUFFICES ASSUME NEW k \in i .. e - 1 PROVE source[k] \notin {34, 92}
      OBVIOUS
    <2>1. CASE k = i
      BY <2>1
    <2>2. CASE k = i + 1
      <3>1. width > 1
        BY <2>2, <1>0, <1>1
      <3>2. source[k] \in 128 .. 191
        BY <3>1, <2>2, <1>2, <1>3
      <3> QED
        BY <3>2, MiddleQuiet
    <2>3. CASE k # i /\ k # i + 1
      <3>1. k - i \in 2 .. width - 1 /\ i + (k - i) = k
        BY <2>3, <1>0, <1>1
      <3>2. source[i + (k - i)] \in 128 .. 191
        BY <1>2, <3>1
      <3> QED
        BY <3>1, <3>2, MiddleQuiet
    <2> QED
      BY <2>1, <2>2, <2>3
  <1> QED
    BY <1>2, <1>4, <1>5

(* So does a character.                                                    *)
LEMMA CharacterBounds ==
  ASSUME source \in Seq(Byte), NEW i \in 1 .. Len(source), source[i] \notin {34, 92}
  PROVE  CharacterEnd(i) = 0 \/ CharacterEnd(i) \in i + 1 .. Len(source) + 1
  BY CharacterShape

(* So does a character.                                                    *)
LEMMA CharacterFacts ==
  ASSUME source \in Seq(Byte), NEW i \in First(source) .. Len(source), source[i] \notin {34, 92},
         Inside(Prescan(source)[i - 1]), CharacterEnd(i) # 0
  PROVE  Prescan(source)[CharacterEnd(i) - 1] = Prescan(source)[i - 1]
  <1> DEFINE e == CharacterEnd(i)
  <1>1. i \in 1 .. Len(source) /\ i \in First(source) .. Len(source) + 1 /\ First(source) \in Nat \ {0}
    BY DEF First
  <1>2. e \in i + 1 .. Len(source) + 1 /\ \A k \in i .. e - 1 : source[k] \notin {34, 92}
    BY <1>1, CharacterShape
  <1> HIDE DEF e
  <1>3. e \in i .. Len(source) + 1
    BY <1>1, <1>2
  <1>4. Prescan(source)[e - 1] = Prescan(source)[i - 1]
    BY <1>1, <1>2, <1>3, InsideRun
  <1> QED
    BY <1>4 DEF e

---------------------------------------------------------------------------
(* Strings.                                                                *)

\* Where the string after place i ends, for a string that is being read.
StringWalk(f) ==
  f = [i \in 0 .. Len(source) + 1 |->
         CASE i = 0 \/ i > Len(source) -> 0
           [] Is(i, {34}) -> i + 1
           [] Is(i, {92}) -> f[EscapeEnd(i)]
           [] OTHER -> f[CharacterEnd(i)]]

(* The scan of a string comes to an end.                                   *)
LEMMA StringUnfold ==
  ASSUME source \in Seq(Byte), NEW first \in 1 .. Len(source)
  PROVE  \E f : StringWalk(f) /\ StringEnd(first) = f[first + 1]
  <1> DEFINE n == Len(source)
             N == n + 1
             V == 0 .. n + 1
             At(f) == StringWalk(f)
             step == [k \in 0 .. N |-> [x \in V |-> x]]
             to(i) == IF Is(i, {92}) THEN EscapeEnd(i) ELSE CharacterEnd(i)
             stop == {i \in 0 .. N : i = 0 \/ i > n \/ Is(i, {34})}
             next == [i \in 0 .. N |-> to(i)]
             val  == [i \in 0 .. N |-> IF i = 0 \/ i > n THEN 0 ELSE i + 1]
  <1>0. n \in Nat /\ N \in Nat /\ 0 \in stop
    OBVIOUS
  <1>9. \A i \in 0 .. N : i \notin stop => to(i) = 0 \/ to(i) \in i + 1 .. N
    <2> SUFFICES ASSUME NEW i \in 0 .. N, i \notin stop PROVE to(i) = 0 \/ to(i) \in i + 1 .. N
      OBVIOUS
    <2>1. i \in 1 .. n /\ source[i] # 34
      BY DEF Is
    <2>2. CASE Is(i, {92})
      <3>1. EscapeEnd(i) = 0 \/ EscapeEnd(i) \in i + 1 .. N
        BY <2>1, EscapeBounds
      <3> QED
        BY <2>2, <3>1
    <2>3. CASE ~ Is(i, {92})
      <3>1. CharacterEnd(i) = 0 \/ CharacterEnd(i) \in i + 1 .. N
        BY <2>1, <2>3, CharacterBounds DEF Is
      <3> QED
        BY <2>3, <3>1
    <2> QED
      BY <2>2, <2>3
  <1>1. \A i \in 0 .. N : i \notin stop => to(i) \in V /\ (to(i) \in stop \/ to(i) > i)
    <2>1. \A i \in 0 .. N : \A k \in i + 1 .. N : k > i /\ k \in V
      BY <1>0
    <2>2. 0 \in V
      BY <1>0
    <2> HIDE DEF stop, to, V
    <2> QED
      BY <1>0, <1>9, <2>1, <2>2
  <1>2. \A i \in 0 .. N : i \in stop => val[i] \in V
    BY <1>0 DEF Is
  <1>3. \A i \in 0 .. N : step[i] \in [V -> V]
    OBVIOUS
  <1>4. \A i \in 0 .. N : i \notin stop => next[i] \in 0 .. N /\ (next[i] \in stop \/ next[i] > i)
    <2> HIDE DEF stop, to
    <2> QED
      BY <1>1
  <1>5. PICK f : Ascent(f, N, stop, val, next, step) /\ f \in [0 .. N -> V]
    <2> HIDE DEF N, V, stop, val, next, step
    <2> QED
      BY <1>0, <1>2, <1>3, <1>4, AscentExists
  <1>6. At(f)
    <2>1. ASSUME NEW i \in 0 .. N
          PROVE  f[i] = CASE i = 0 \/ i > n -> 0
                          [] Is(i, {34}) -> i + 1
                          [] Is(i, {92}) -> f[EscapeEnd(i)]
                          [] OTHER -> f[CharacterEnd(i)]
      <3>1. f[i] = IF i \in stop THEN val[i] ELSE step[i][f[next[i]]]
        <4> HIDE DEF next, val, step, stop, N
        <4> QED
          BY <1>5 DEF Ascent
      <3>2. ASSUME i \notin stop PROVE f[i] = f[to(i)]
        <4>1. next[i] \in 0 .. N
          BY <1>4, <3>2
        <4>2. f[next[i]] \in V
          BY <1>5, <4>1
        <4>3. step[i][f[next[i]]] = f[next[i]]
          BY <4>2
        <4> HIDE DEF stop, step
        <4> QED
          BY <3>1, <3>2, <4>3
      <3>3. CASE i = 0 \/ i > n
        <4>1. i \in stop /\ val[i] = 0 /\ ~ Is(i, {34}) /\ ~ Is(i, {92})
          BY <3>3 DEF Is
        <4> HIDE DEF stop, val, step, next
        <4> QED
          BY <3>1, <3>3, <4>1
      <3>4. CASE ~ (i = 0 \/ i > n) /\ Is(i, {34})
        <4>1. i \in stop /\ val[i] = i + 1 /\ ~ Is(i, {92})
          BY <3>4 DEF Is
        <4> HIDE DEF stop, val, step, next
        <4> QED
          BY <3>1, <3>4, <4>1
      <3>5. CASE ~ (i = 0 \/ i > n) /\ ~ Is(i, {34})
        <4>1. i \notin stop
          BY <3>5
        <4> HIDE DEF stop, val, step, next
        <4> QED
          BY <3>2, <3>5, <4>1
      <3> QED
        BY <3>3, <3>4, <3>5
    <2>2. f = [i \in 0 .. N |-> f[i]]
      BY <1>5
    <2> QED
      BY <2>1, <2>2 DEF StringWalk
  <1> DEFINE end == CHOOSE g : At(g)
  <1>7. At(end)
    <2> HIDE DEF At
    <2> QED
      BY <1>6
  <1>8. StringEnd(first) = end[first + 1]
    BY DEF StringEnd, StringWalk
  <1> QED
    BY <1>7, <1>8

(* Quotes turn the prescan around.                                         *)
LEMMA QuoteTurns ==
  ASSUME NEW c \in Tally
  PROVE  /\ Outside(c) => /\ Counted(c, 34) = [c EXCEPT !.in = TRUE]
                          /\ Inside(Counted(c, 34))
                          /\ Counted(Counted(c, 34), 34) = [c EXCEPT !.values = @ + 1]
  <1> SUFFICES ASSUME Outside(c)
               PROVE  /\ Counted(c, 34) = [c EXCEPT !.in = TRUE]
                      /\ Inside(Counted(c, 34))
                      /\ Counted(Counted(c, 34), 34) = [c EXCEPT !.values = @ + 1]
    OBVIOUS
  <1> DEFINE d == [c EXCEPT !.in = TRUE]
  <1>0. ~ c.in /\ ~ c.escape
    BY DEF Outside
  <1>1. Counted(c, 34) = d
    BY <1>0, CountedCases, Zenon
  <1>2. d.in /\ ~ d.escape
    BY <1>0, Zenon DEF Tally
  <1>3. [d EXCEPT !.in = FALSE, !.values = @ + 1] = [c EXCEPT !.values = @ + 1]
    <2> DEFINE l == [d EXCEPT !.in = FALSE, !.values = @ + 1]
               r == [c EXCEPT !.values = @ + 1]
    <2>1. /\ l = [x \in DOMAIN c |-> l[x]]
          /\ r = [x \in DOMAIN c |-> r[x]]
      BY Zenon DEF Tally
    <2>2. \A x \in DOMAIN c : l[x] = r[x]
      BY <1>0, Zenon DEF Tally
    <2> QED
      BY <2>1, <2>2, Zenon
  <1> HIDE DEF d
  <1>4. Counted(d, 34) = [d EXCEPT !.in = FALSE, !.values = @ + 1]
    BY <1>2, CountedCases, Zenon
  <1> QED
    BY <1>1, <1>2, <1>3, <1>4 DEF Inside, d

(* A string is counted as one value, where it ends.                        *)
LEMMA StringFacts ==
  ASSUME source \in Seq(Byte), NEW first \in First(source) .. Len(source), source[first] = 34,
         Outside(Prescan(source)[first - 1]), StringEnd(first) # 0
  PROVE  /\ StringEnd(first) \in first + 2 .. Len(source) + 1
         /\ Prescan(source)[StringEnd(first) - 1] = [Prescan(source)[first - 1] EXCEPT !.values = @ + 1]
  <1> DEFINE n == Len(source)
             P == Prescan(source)
             c == P[first - 1]
             d == Counted(c, 34)
             e == [c EXCEPT !.values = @ + 1]
  <1>0. n \in Nat /\ First(source) \in Nat \ {0} /\ first \in 1 .. n /\ first - 1 \in 0 .. n
    BY DEF First
  <1>1. /\ \A k \in First(source) .. n : P[k] = Counted(P[k - 1], source[k])
        /\ c \in Tally
    BY <1>0, PrescanUnfold
  <1>2. PICK f : StringWalk(f) /\ StringEnd(first) = f[first + 1]
    BY <1>0, StringUnfold
  <1>3. \A i \in 0 .. n + 1 :
          f[i] = CASE i = 0 \/ i > n -> 0
                   [] Is(i, {34}) -> i + 1
                   [] Is(i, {92}) -> f[EscapeEnd(i)]
                   [] OTHER -> f[CharacterEnd(i)]
    BY <1>2 DEF StringWalk
  <1>4. Inside(d) /\ Counted(d, 34) = e
    <2> HIDE DEF c
    <2> QED
      BY <1>1, QuoteTurns DEF c
  <1>5. P[first] = d
    BY <1>1, <1>0
  <1> HIDE DEF c, d, e
  <1> DEFINE Good(i) == i >= First(source) /\ P[i - 1] = d /\ f[i] # 0 => f[i] \in i + 1 .. n + 1 /\ P[f[i] - 1] = e
             T == {k \in 0 .. n : ~ Good(n + 1 - k)}
  <1>6. T = {}
    <2> SUFFICES ASSUME T # {} PROVE FALSE
      OBVIOUS
    <2>1. PICK k \in T : \A j \in T : k <= j
      <3>1. T \subseteq Nat
        OBVIOUS
      <3> HIDE DEF T
      <3> QED
        BY <3>1, LeastNat
    <2> DEFINE i == n + 1 - k
    <2>2. k \in 0 .. n /\ i \in 1 .. n + 1 /\ ~ Good(i)
      BY <2>1, <1>0
    <2>3. i >= First(source) /\ P[i - 1] = d /\ f[i] # 0 /\ ~ (f[i] \in i + 1 .. n + 1 /\ P[f[i] - 1] = e)
      BY <2>2
    <2>4. \A j \in i + 1 .. n + 1 : Good(j)
      <3> SUFFICES ASSUME NEW j \in i + 1 .. n + 1 PROVE Good(j)
        OBVIOUS
      <3>1. n + 1 - j \in 0 .. n /\ n + 1 - j < k /\ n + 1 - (n + 1 - j) = j /\ k \in Nat
        BY <2>2, <1>0
      <3>2. n + 1 - j \notin T
        <4> HIDE DEF T
        <4> QED
          BY <2>1, <3>1
      <3> QED
        BY <3>1, <3>2
    <2>5. i \in 0 .. n + 1 /\ i \in Nat
      BY <2>2, <1>0
    <2> HIDE DEF T, i
    <2>6. i <= n /\ i # 0
      <3> SUFFICES ASSUME i = 0 \/ i > n PROVE FALSE
        BY <2>5, <1>0
      <3>1. ~ Is(i, {34}) /\ ~ Is(i, {92})
        BY <1>0 DEF Is
      <3> QED
        BY <1>3, <2>3, <2>5, <3>1
    <2>7. i \in First(source) .. n /\ i \in 1 .. n
      BY <2>3, <2>5, <2>6, <1>0
    <2>8. CASE Is(i, {34})
      <3>1. f[i] = i + 1
        <4>1. ~ Is(i, {92})
          BY <2>8 DEF Is
        <4> QED
          BY <1>3, <2>5, <2>6, <2>8, <4>1
      <3>2. source[i] = 34
        BY <2>8 DEF Is
      <3>3. P[i] = e
        BY <1>1, <2>7, <2>3, <3>2, <1>4
      <3>4. i + 1 - 1 = i /\ i + 1 \in i + 1 .. n + 1
        BY <2>7
      <3>5. f[i] \in i + 1 .. n + 1 /\ f[i] - 1 = i
        <4> DEFINE m == f[i]
        <4>1. m = i + 1
          BY <3>1
        <4> HIDE DEF m
        <4>2. m \in i + 1 .. n + 1 /\ m - 1 = i
          BY <1>0, <2>7, <4>1
        <4> QED
          BY <4>2 DEF m
      <3>6. P[f[i] - 1] = e
        BY <3>3, <3>5
      <3> QED
        BY <2>3, <3>5, <3>6
    <2>9. ASSUME NEW m, f[i] = f[m], m = 0 \/ m \in i + 1 .. n + 1, m # 0 => P[m - 1] = P[i - 1]
          PROVE  FALSE
      <3>1. m # 0
        <4>1. 0 \in 0 .. n + 1
          BY <1>0
        <4>2. f[0] = 0
          <5>1. ~ Is(0, {34}) /\ ~ Is(0, {92})
            BY DEF Is
          <5> QED
            BY <1>3, <4>1, <5>1
        <4> QED
          BY <2>9, <2>3, <4>2
      <3>2. m \in i + 1 .. n + 1 /\ P[m - 1] = d /\ f[m] # 0 /\ m >= First(source)
        <4>1. m \in i + 1 .. n + 1
          BY <2>9, <3>1
        <4>2. m >= First(source)
          BY <4>1, <2>3, <2>5, <1>0
        <4> QED
          BY <4>1, <4>2, <2>9, <3>1, <2>3
      <3>3. f[m] \in m + 1 .. n + 1 /\ P[f[m] - 1] = e
        BY <2>4, <3>2
      <3>4. f[m] \in i + 1 .. n + 1
        BY <3>2, <3>3, <2>5, <1>0
      <3> QED
        BY <2>3, <2>9, <3>3, <3>4
    <2>10. Inside(P[i - 1])
      BY <2>3, <1>4
    <2>11. CASE ~ Is(i, {34}) /\ Is(i, {92})
      <3>1. f[i] = f[EscapeEnd(i)]
        BY <1>3, <2>5, <2>6, <2>11
      <3>2. source[i] = 92
        BY <2>11 DEF Is
      <3>3. EscapeEnd(i) = 0 \/ EscapeEnd(i) \in i + 1 .. n + 1
        BY <2>7, EscapeBounds
      <3>4. EscapeEnd(i) # 0 => P[EscapeEnd(i) - 1] = P[i - 1]
        BY <2>7, <2>10, <3>2, EscapeFacts
      <3> QED
        BY <2>9, <3>1, <3>3, <3>4
    <2>12. CASE ~ Is(i, {34}) /\ ~ Is(i, {92})
      <3>1. f[i] = f[CharacterEnd(i)]
        BY <1>3, <2>5, <2>6, <2>12
      <3>2. source[i] \notin {34, 92}
        BY <2>7, <2>12 DEF Is
      <3>3. CharacterEnd(i) = 0 \/ CharacterEnd(i) \in i + 1 .. n + 1
        BY <2>7, <3>2, CharacterBounds
      <3>4. CharacterEnd(i) # 0 => P[CharacterEnd(i) - 1] = P[i - 1]
        BY <2>7, <2>10, <3>2, CharacterFacts
      <3> QED
        BY <2>9, <3>1, <3>3, <3>4
    <2> QED
      BY <2>8, <2>11, <2>12
  <1>7. Good(first + 1)
    <2>1. n - first \in 0 .. n /\ n + 1 - (n - first) = first + 1
      BY <1>0
    <2>2. n - first \notin T
      BY <1>6
    <2> QED
      BY <2>1, <2>2
  <1>8. first + 1 >= First(source) /\ first + 1 - 1 = first
    BY <1>0
  <1>9. f[first + 1] \in first + 1 + 1 .. n + 1 /\ P[f[first + 1] - 1] = e
    BY <1>2, <1>5, <1>7, <1>8
  <1>10. first + 1 + 1 = first + 2
    BY <1>0
  <1> QED
    BY <1>2, <1>9, <1>10 DEF c, e

---------------------------------------------------------------------------
(* What the tokens call for.                                               *)

\* How many of the tokens are of a kind.
Times(ts, kind) == Cardinality({i \in DOMAIN ts : ts[i] \in kind})

(* Counting goes on with each token.                                       *)
LEMMA TimesAppended ==
  ASSUME NEW S, NEW ts \in Seq(S), NEW t \in S, NEW kind
  PROVE  /\ Times(ts, kind) \in Nat
         /\ t \in kind => Times(Append(ts, t), kind) = Times(ts, kind) + 1
         /\ t \notin kind => Times(Append(ts, t), kind) = Times(ts, kind)
  <1> DEFINE n == Len(ts)
             us == Append(ts, t)
             A == {i \in DOMAIN ts : ts[i] \in kind}
             B == {i \in DOMAIN us : us[i] \in kind}
  <1>1. n \in Nat /\ DOMAIN ts = 1 .. n /\ DOMAIN us = 1 .. n + 1 /\ us[n + 1] = t /\ \A i \in 1 .. n : us[i] = ts[i]
    BY AppendProperties, LenProperties
  <1>2. IsFiniteSet(A) /\ n + 1 \notin A
    <2>1. A \in SUBSET (1 .. n) /\ n + 1 \notin 1 .. n
      BY <1>1
    <2>2. IsFiniteSet(1 .. n)
      BY <1>1, FS_Interval
    <2> HIDE DEF A
    <2> QED
      BY <2>1, <2>2, FS_Subset
  <1>3. t \in kind => B = A \cup {n + 1}
    BY <1>1
  <1>4. t \notin kind => B = A
    BY <1>1
  <1>5. Cardinality(A \cup {n + 1}) = Cardinality(A) + 1 /\ Cardinality(A) \in Nat
    <2> HIDE DEF A
    <2> QED
      BY <1>2, FS_AddElement, FS_CardinalityType
  <1>6. Times(ts, kind) = Cardinality(A) /\ Times(us, kind) = Cardinality(B)
    BY Zenon DEF Times
  <1> HIDE DEF A, B, us, n
  <1>7. /\ Times(ts, kind) \in Nat
        /\ t \in kind => Times(us, kind) = Times(ts, kind) + 1
        /\ t \notin kind => Times(us, kind) = Times(ts, kind)
    BY <1>3, <1>4, <1>5, <1>6
  <1> QED
    BY <1>7, Zenon DEF us

\* Tokens that are values or names, and the mark that opens an object or an array.
ValueToken == {t \in Token : t.type # "punctuation"}
Open(byte) == {Mark(byte)}

\* What is counted is what the tokens call for.
Covers(c, ts) ==
  /\ Outside(c)
  /\ c.objects = Times(ts, Open(123))
  /\ c.arrays = Times(ts, Open(91))
  /\ c.values >= Times(ts, ValueToken)

(* A mark is a token, and one of its own kind.                             *)
LEMMA MarkFacts ==
  ASSUME NEW byte \in Byte
  PROVE  Mark(byte) \in Token /\ Mark(byte) \notin ValueToken /\ \A other : Mark(byte) \in Open(other) <=> byte = other
  <1>1. Mark(byte) \notin ValueToken
    BY Zenon DEF Mark, ValueToken
  <1>2. Mark(byte) \in Token
    <2>1. <<byte>> \in Seq(Byte)
      OBVIOUS
    <2>2. "punctuation" \in TokenType
      BY Zenon DEF TokenType
    <2> HIDE DEF Byte
    <2> QED
      BY <2>1, <2>2, Zenon DEF Mark, Token
  <1>3. ASSUME NEW other PROVE (Mark(byte) \in Open(other)) <=> byte = other
    <2>1. CASE byte = other
      BY <2>1, Zenon DEF Open
    <2>2. CASE Mark(byte) \in Open(other)
      <3>1. Mark(byte) = Mark(other)
        BY <2>2, Zenon DEF Open
      <3>2. Mark(byte).bytes = <<byte>> /\ Mark(other).bytes = <<other>>
        BY Zenon DEF Mark
      <3>3. <<byte>> = <<other>>
        BY <3>1, <3>2, Zenon
      <3>4. byte = other
        BY <3>3
      <3> QED
        BY <2>2, <3>4
    <2> QED
      BY <2>1, <2>2
  <1> QED
    BY <1>1, <1>2, <1>3

(* A value is no punctuation mark.                                         *)
LEMMA WordNoMark ==
  ASSUME NEW t \in ValueToken
  PROVE  t \in Token /\ \A byte : t \notin Open(byte)
  <1>1. t \in Token /\ t.type # "punctuation"
    BY Zenon DEF ValueToken
  <1>2. ASSUME NEW byte, t \in Open(byte) PROVE FALSE
    <2>1. t = Mark(byte)
      BY <1>2, Zenon DEF Open
    <2>2. Mark(byte).type = "punctuation"
      BY Zenon DEF Mark
    <2> QED
      BY <1>1, <2>1, <2>2, Zenon
  <1> QED
    BY <1>1, <1>2

(* Nothing but marks is opened: going on between tokens keeps the count.   *)
LEMMA CoversBeyond ==
  ASSUME NEW c \in Tally, NEW d \in Tally, NEW ts \in Seq(Token), Covers(c, ts), Beyond(c, d)
  PROVE  Covers(d, ts)
  <1>1. c.values \in Nat /\ d.values \in Nat
    BY DEF Tally
  <1>2. Times(ts, ValueToken) \in Nat
    <2>1. PICK t : t \in Token
      <3>1. 0 \in Byte
        BY DEF Byte
      <3> QED
        BY <3>1, MarkFacts
    <2> QED
      BY <2>1, TimesAppended
  <1> QED
    BY <1>1, <1>2 DEF Covers, Beyond

(* A punctuation mark is read.                                             *)
LEMMA CoversMark ==
  ASSUME NEW c \in Tally, NEW ts \in Seq(Token), Covers(c, ts), NEW byte \in Punctuation
  PROVE  Covers(Counted(c, byte), Append(ts, Mark(byte)))
  <1> DEFINE d == Counted(c, byte)
             us == Append(ts, Mark(byte))
  <1>0. byte \in Byte /\ byte # 34
    BY DEF Punctuation, Byte
  <1>1. Mark(byte) \in Token /\ Mark(byte) \notin ValueToken /\ \A other : Mark(byte) \in Open(other) <=> byte = other
    BY <1>0, MarkFacts
  <1>2. Times(us, ValueToken) = Times(ts, ValueToken)
    BY <1>1, TimesAppended
  <1>3. /\ byte = 123 => Times(us, Open(123)) = Times(ts, Open(123)) + 1
        /\ byte # 123 => Times(us, Open(123)) = Times(ts, Open(123))
    BY <1>1, TimesAppended
  <1>4. /\ byte = 91 => Times(us, Open(91)) = Times(ts, Open(91)) + 1
        /\ byte # 91 => Times(us, Open(91)) = Times(ts, Open(91))
    BY <1>1, TimesAppended
  <1> HIDE DEF us
  <1>5. ~ c.in /\ ~ c.escape
    BY DEF Covers, Outside
  <1>6. CASE byte = 123
    <2>1. d = [c EXCEPT !.objects = @ + 1]
      BY <1>5, <1>6, CountedCases, Zenon
    <2>2. d.objects = c.objects + 1 /\ d.arrays = c.arrays /\ d.values = c.values /\ d.in = c.in /\ d.escape = c.escape
      BY <2>1, Zenon DEF Tally
    <2> HIDE DEF d
    <2>3. Covers(d, us)
      BY <1>2, <1>3, <1>4, <1>6, <2>2 DEF Covers, Outside
    <2> QED
      BY <2>3 DEF d, us
  <1>7. CASE byte = 91
    <2>1. d = [c EXCEPT !.arrays = @ + 1]
      BY <1>5, <1>7, CountedCases, Zenon
    <2>2. d.arrays = c.arrays + 1 /\ d.objects = c.objects /\ d.values = c.values /\ d.in = c.in /\ d.escape = c.escape
      BY <2>1, Zenon DEF Tally
    <2> HIDE DEF d
    <2>3. Covers(d, us)
      BY <1>2, <1>3, <1>4, <1>7, <2>2 DEF Covers, Outside
    <2> QED
      BY <2>3 DEF d, us
  <1>8. CASE byte # 123 /\ byte # 91
    <2>1. Beyond(c, d)
      BY <1>0, <1>8, CountedPlain DEF Covers
    <2>2. d \in Tally
      BY <1>0, CountedTally
    <2> HIDE DEF d
    <2>3. Covers(d, ts)
      BY <2>1, <2>2, CoversBeyond
    <2>4. Covers(d, us)
      BY <1>2, <1>3, <1>4, <1>8, <2>3 DEF Covers
    <2> QED
      BY <2>4 DEF d, us
  <1> QED
    BY <1>6, <1>7, <1>8

\* One value more.
More(c, d) == Outside(d) /\ d.objects = c.objects /\ d.arrays = c.arrays /\ d.values >= c.values + 1

(* Any other token is read.                                                *)
LEMMA CoversWord ==
  ASSUME NEW c \in Tally, NEW d \in Tally, NEW ts \in Seq(Token), Covers(c, ts), More(c, d), NEW t \in ValueToken
  PROVE  Covers(d, Append(ts, t))
  <1>1. t \in Token /\ \A byte : t \notin Open(byte)
    BY WordNoMark
  <1>2. c.values \in Nat /\ d.values \in Nat
    BY DEF Tally
  <1>3. /\ Times(Append(ts, t), ValueToken) = Times(ts, ValueToken) + 1 /\ Times(ts, ValueToken) \in Nat
        /\ Times(Append(ts, t), Open(123)) = Times(ts, Open(123))
        /\ Times(Append(ts, t), Open(91)) = Times(ts, Open(91))
    BY <1>1, TimesAppended
  <1> QED
    BY <1>2, <1>3 DEF Covers, More

---------------------------------------------------------------------------
(* Unescaping.                                                             *)

\* A code point, as two units of sixteen bits can stand for.
Point(p) == p \in Nat /\ p <= 1114111

(* A continuation byte is a byte.                                          *)
LEMMA SixthFacts == ASSUME NEW p \in Nat PROVE Sixth(p) \in Byte
  BY DEF Sixth, Byte

(* Two bytes, ...                                                          *)
LEMMA TwoBytes == ASSUME NEW a \in Byte, NEW b \in Byte PROVE <<a, b>> \in Seq(Byte) /\ Len(<<a, b>>) = 2
  <1> HIDE DEF Byte
  <1> QED
    OBVIOUS

(* ... three, ...                                                          *)
LEMMA ThreeBytes == ASSUME NEW a \in Byte, NEW b \in Byte, NEW c \in Byte PROVE <<a, b, c>> \in Seq(Byte) /\ Len(<<a, b, c>>) = 3
  OBVIOUS

(* ... and four make a sequence of bytes of their length.                  *)
LEMMA FourBytes ==
  ASSUME NEW a \in Byte, NEW b \in Byte, NEW c \in Byte, NEW d \in Byte
  PROVE  <<a, b, c, d>> \in Seq(Byte) /\ Len(<<a, b, c, d>>) = 4
  OBVIOUS

(* A code point takes at most four bytes, three if it has sixteen bits.    *)
LEMMA EncodeFacts ==
  ASSUME NEW p, Point(p)
  PROVE  /\ EncodeUtf8(p) \in Seq(Byte)
         /\ Len(EncodeUtf8(p)) <= 4
         /\ p <= 65535 => Len(EncodeUtf8(p)) <= 3
  <1>0. p \in Nat /\ p <= 1114111
    BY DEF Point
  <1>1. CASE p <= 127
    <2>1. p \in Byte
      BY <1>0, <1>1 DEF Byte
    <2>2. <<p>> \in Seq(Byte) /\ Len(<<p>>) = 1
      BY <2>1
    <2> QED
      BY <1>1, <2>2 DEF EncodeUtf8
  <1>2. CASE ~ (p <= 127) /\ p <= 2047
    <2>1. 192 + p \div 64 \in Byte
      BY <1>0, <1>2 DEF Byte
    <2>2. Sixth(p) \in Byte
      BY <1>0, SixthFacts
    <2>3. EncodeUtf8(p) = <<192 + p \div 64, Sixth(p)>>
      BY <1>2 DEF EncodeUtf8
    <2>4. EncodeUtf8(p) \in Seq(Byte) /\ Len(EncodeUtf8(p)) = 2
      BY <2>1, <2>2, <2>3, TwoBytes
    <2> QED
      BY <2>4
  <1>3. CASE ~ (p <= 127) /\ ~ (p <= 2047) /\ p <= 65535
    <2>1. 224 + p \div 4096 \in Byte
      BY <1>0, <1>3 DEF Byte
    <2>2. Sixth(p) \in Byte /\ Sixth(p \div 64) \in Byte
      <3>1. p \div 64 \in Nat
        BY <1>0
      <3> QED
        BY <1>0, <3>1, SixthFacts
    <2>3. EncodeUtf8(p) = <<224 + p \div 4096, Sixth(p \div 64), Sixth(p)>>
      BY <1>3 DEF EncodeUtf8
    <2>4. EncodeUtf8(p) \in Seq(Byte) /\ Len(EncodeUtf8(p)) = 3
      BY <2>1, <2>2, <2>3, ThreeBytes
    <2> QED
      BY <2>4
  <1>4. CASE ~ (p <= 127) /\ ~ (p <= 2047) /\ ~ (p <= 65535)
    <2>1. 240 + p \div 262144 \in Byte
      BY <1>0, <1>4 DEF Byte
    <2>2. Sixth(p) \in Byte /\ Sixth(p \div 64) \in Byte /\ Sixth(p \div 4096) \in Byte
      <3>1. p \div 64 \in Nat /\ p \div 4096 \in Nat
        BY <1>0
      <3> QED
        BY <1>0, <3>1, SixthFacts
    <2>3. EncodeUtf8(p) = <<240 + p \div 262144, Sixth(p \div 4096), Sixth(p \div 64), Sixth(p)>>
      BY <1>4 DEF EncodeUtf8
    <2>4. EncodeUtf8(p) \in Seq(Byte) /\ Len(EncodeUtf8(p)) = 4
      BY <2>1, <2>2, <2>3, FourBytes
    <2> QED
      BY <1>4, <2>4
  <1> QED
    BY <1>1, <1>2, <1>3, <1>4

(* Two halves make a code point.                                           *)
LEMMA PairFacts ==
  ASSUME NEW high \in HighUnit, NEW low \in LowUnit
  PROVE  Point(PairPoint(high, low))
  <1>1. high \in Nat /\ high >= 55296 /\ high <= 56319
    BY DEF HighUnit
  <1>2. low \in Nat /\ low >= 56320 /\ low <= 57343
    BY DEF LowUnit
  <1> QED
    BY <1>1, <1>2 DEF Point, PairPoint

(* Every piece is of bytes, and no longer than what it is read from.       *)
LEMMA PieceFacts ==
  ASSUME NEW raw \in Seq(Byte), NEW i \in 1 .. Len(raw)
  PROVE  LET piece == UnescapedAt(raw, i) IN
           /\ piece.bytes \in Seq(Byte)
           /\ piece.next \in i + 1 .. Len(raw) + 1
           /\ Len(piece.bytes) <= piece.next - i
  <1> DEFINE n == Len(raw)
             escape == raw[i + 1]
             unit   == FourHex(raw, i + 2)
             short  == [e \in {98, 102, 110, 114, 116} |->
                          CASE e = 98 -> 8 [] e = 102 -> 12 [] e = 110 -> 10 [] e = 114 -> 13 [] e = 116 -> 9]
             one    == IF escape \in DOMAIN short THEN short[escape] ELSE escape
             piece  == UnescapedAt(raw, i)
             Fits(bytes, next) == bytes \in Seq(Byte) /\ next \in i + 1 .. n + 1 /\ Len(bytes) <= next - i
  <1> SUFFICES Fits(piece.bytes, piece.next)
    OBVIOUS
  <1>0. n \in Nat /\ i \in Nat /\ i >= 1 /\ i <= n
    OBVIOUS
  <1>1. ASSUME NEW bytes, NEW next, Fits(bytes, next), piece = Read(bytes, next)
        PROVE  Fits(piece.bytes, piece.next)
    <2> HIDE DEF Fits, piece
    <2>1. piece.bytes = bytes /\ piece.next = next
      BY <1>1, Zenon DEF Read
    <2> QED
      BY <1>1, <2>1, Zenon
  <1>2. CASE raw[i] # 92
    <2>1. piece = Read(<<raw[i]>>, i + 1)
      BY <1>2, Zenon DEF UnescapedAt
    <2>2. Fits(<<raw[i]>>, i + 1)
      <3>1. raw[i] \in Byte
        OBVIOUS
      <3> HIDE DEF Byte
      <3>2. <<raw[i]>> \in Seq(Byte) /\ Len(<<raw[i]>>) = 1
        BY <3>1
      <3>3. i + 1 \in i + 1 .. n + 1 /\ i + 1 - i = 1
        BY <1>0
      <3> QED
        BY <3>2, <3>3
    <2> QED
      BY <1>1, <2>1, <2>2
  <1>3. CASE raw[i] = 92 /\ i = n
    <2>1. piece = Read(<<>>, i + 1)
      BY <1>3, Zenon DEF UnescapedAt
    <2>2. Fits(<<>>, i + 1)
      BY <1>0
    <2> QED
      BY <1>1, <2>1, <2>2
  <1>4. CASE raw[i] = 92 /\ i # n /\ (escape # 117 \/ unit = -1)
    <2>1. piece = Read(<<one>>, i + 2)
      BY <1>4, Zenon DEF UnescapedAt
    <2>2. one \in Byte
      <3>1. escape \in Byte
        BY <1>0, <1>4
      <3>2. \A e \in DOMAIN short : short[e] \in {8, 12, 10, 13, 9}
        OBVIOUS
      <3>3. {8, 12, 10, 13, 9} \subseteq Byte
        BY DEF Byte
      <3> HIDE DEF short, escape, Byte
      <3> QED
        BY <3>1, <3>2, <3>3
    <2> HIDE DEF one
    <2>3. Fits(<<one>>, i + 2)
      <3>1. <<one>> \in Seq(Byte) /\ Len(<<one>>) = 1
        BY <2>2
      <3>2. i + 2 \in i + 1 .. n + 1 /\ i + 2 - i = 2
        BY <1>0, <1>4
      <3> QED
        BY <3>1, <3>2
    <2> QED
      BY <1>1, <2>1, <2>3
  <1>5. ASSUME raw[i] = 92, i # n, escape = 117, unit # -1, unit \in HighUnit, LowFollows(raw, i + 6)
        PROVE  Fits(piece.bytes, piece.next)
    <2> DEFINE point == PairPoint(unit, FourHex(raw, i + 8))
    <2>1. piece = Read(EncodeUtf8(point), i + 12)
      BY <1>5, Zenon DEF UnescapedAt
    <2>2. i + 6 + 5 <= n /\ i + 6 + 5 = i + 11 /\ FourHex(raw, i + 8) \in LowUnit
      <3>1. i + 6 + 2 = i + 8 /\ i + 6 + 5 = i + 11
        BY <1>0
      <3> QED
        BY <1>5, <3>1 DEF LowFollows
    <2>3. Point(point)
      BY <1>5, <2>2, PairFacts
    <2> HIDE DEF point
    <2>4. EncodeUtf8(point) \in Seq(Byte) /\ Len(EncodeUtf8(point)) <= 4 /\ Len(EncodeUtf8(point)) \in Nat
      BY <2>3, EncodeFacts, LenProperties
    <2>5. i + 12 \in i + 1 .. n + 1 /\ i + 12 - i = 12
      BY <1>0, <2>2
    <2>6. Fits(EncodeUtf8(point), i + 12)
      BY <2>4, <2>5
    <2> QED
      BY <1>1, <2>1, <2>6
  <1>6. ASSUME raw[i] = 92, i # n, escape = 117, unit # -1, ~ (unit \in HighUnit /\ LowFollows(raw, i + 6))
        PROVE  Fits(piece.bytes, piece.next)
    <2>1. piece = Read(EncodeUtf8(unit), i + 6)
      BY <1>6, Zenon DEF UnescapedAt
    <2>2. HexAt(raw, i + 2) /\ Unit16(unit)
      BY <1>0, <1>6, HexFacts
    <2>3. i + 2 + 3 <= n /\ i + 2 + 3 = i + 5
      BY <1>0, <2>2 DEF HexAt
    <2>4. Point(unit) /\ unit <= 65535
      BY <2>2 DEF Point, Unit16
    <2>5. EncodeUtf8(unit) \in Seq(Byte) /\ Len(EncodeUtf8(unit)) <= 4 /\ Len(EncodeUtf8(unit)) \in Nat
      BY <2>4, EncodeFacts, LenProperties
    <2>6. i + 6 \in i + 1 .. n + 1 /\ i + 6 - i = 6
      BY <1>0, <2>3
    <2>7. Fits(EncodeUtf8(unit), i + 6)
      BY <2>5, <2>6
    <2> QED
      BY <1>1, <2>1, <2>7
  <1> HIDE DEF Fits, piece, escape, unit
  <1> QED
    BY <1>2, <1>3, <1>4, <1>5, <1>6

\* What is unescaped from each place on.
UnescapedFrom(raw, f) ==
  f = [i \in 1 .. Len(raw) + 1 |->
         IF i > Len(raw) THEN <<>>
         ELSE LET piece == UnescapedAt(raw, i) IN piece.bytes \o f[piece.next]]

(* The unescaping comes to an end.                                         *)
LEMMA UnescapedUnfold ==
  ASSUME NEW raw \in Seq(Byte)
  PROVE  \E f : UnescapedFrom(raw, f) /\ Unescaped(raw) = f[1]
  <1> DEFINE n == Len(raw)
             N == n + 1
             V == Seq(Byte)
             At(f) == UnescapedFrom(raw, f)
             stop == {i \in 0 .. N : i = 0 \/ i > n}
             next == [i \in 0 .. N |-> UnescapedAt(raw, i).next]
             val  == [i \in 0 .. N |-> <<>>]
             step == [i \in 0 .. N |-> [x \in V |-> IF i \in stop THEN x ELSE UnescapedAt(raw, i).bytes \o x]]
  <1>0. n \in Nat /\ N \in Nat
    OBVIOUS
  <1>1. \A i \in 0 .. N : i \notin stop => i \in 1 .. n
    BY <1>0
  <1>2. \A i \in 1 .. n : UnescapedAt(raw, i).bytes \in V /\ UnescapedAt(raw, i).next \in i + 1 .. N
    BY PieceFacts
  <1>3. \A i \in 0 .. N : i \notin stop => next[i] \in 0 .. N /\ (next[i] \in stop \/ next[i] > i)
    <2> SUFFICES ASSUME NEW i \in 0 .. N, i \notin stop PROVE next[i] \in 0 .. N /\ next[i] > i
      OBVIOUS
    <2>1. i \in 1 .. n
      BY <1>1
    <2>2. UnescapedAt(raw, i).next \in i + 1 .. N
      BY <1>2, <2>1
    <2>3. next[i] = UnescapedAt(raw, i).next
      OBVIOUS
    <2> HIDE DEF next
    <2> QED
      BY <1>0, <2>1, <2>2, <2>3
  <1>4. \A i \in 0 .. N : i \in stop => val[i] \in V
    OBVIOUS
  <1>5. \A i \in 0 .. N : step[i] \in [V -> V]
    <2> SUFFICES ASSUME NEW i \in 0 .. N, NEW x \in V
                 PROVE  (IF i \in stop THEN x ELSE UnescapedAt(raw, i).bytes \o x) \in V
      OBVIOUS
    <2>1. CASE i \notin stop
      <3>1. UnescapedAt(raw, i).bytes \in V
        BY <1>1, <1>2, <2>1
      <3>2. UnescapedAt(raw, i).bytes \o x \in V
        BY <3>1, ConcatProperties
      <3> QED
        BY <2>1, <3>2
    <2> QED
      BY <2>1
  <1>6. PICK g : Ascent(g, N, stop, val, next, step) /\ g \in [0 .. N -> V]
    <2> HIDE DEF N, V, stop, val, next, step
    <2> QED
      BY <1>0, <1>3, <1>4, <1>5, AscentExists
  <1> DEFINE f == [i \in 1 .. N |-> g[i]]
  <1>7. At(f)
    <2>1. ASSUME NEW i \in 1 .. N
          PROVE  g[i] = IF i > n THEN <<>> ELSE UnescapedAt(raw, i).bytes \o f[UnescapedAt(raw, i).next]
      <3>0. i \in 0 .. N /\ i # 0
        BY <1>0
      <3>1. g[i] = IF i \in stop THEN val[i] ELSE step[i][g[next[i]]]
        <4> HIDE DEF next, val, step, stop, N
        <4> QED
          BY <1>6, <3>0 DEF Ascent
      <3>2. CASE i > n
        <4>1. i \in stop /\ val[i] = <<>>
          BY <3>0, <3>2
        <4> HIDE DEF stop, val, step, next
        <4> QED
          BY <3>1, <3>2, <4>1
      <3>3. CASE ~ (i > n)
        <4>1. i \notin stop /\ i \in 1 .. n
          BY <1>0, <3>0, <3>3
        <4>2. next[i] = UnescapedAt(raw, i).next /\ next[i] \in 1 .. N /\ next[i] \in 0 .. N
          <5>1. next[i] = UnescapedAt(raw, i).next
            BY <3>0
          <5>2. UnescapedAt(raw, i).next \in i + 1 .. N
            BY <1>2, <4>1
          <5> HIDE DEF next
          <5> QED
            BY <1>0, <4>1, <5>1, <5>2
        <4>3. g[next[i]] \in V /\ f[next[i]] = g[next[i]]
          BY <1>6, <4>2
        <4>4. step[i] = [x \in V |-> UnescapedAt(raw, i).bytes \o x]
          <5> HIDE DEF stop
          <5> QED
            BY <3>0, <4>1
        <4> HIDE DEF stop, val, step, next, f, V
        <4>5. step[i][g[next[i]]] = UnescapedAt(raw, i).bytes \o g[next[i]]
          BY <4>3, <4>4
        <4> QED
          BY <3>1, <3>3, <4>1, <4>2, <4>3, <4>5
      <3> QED
        BY <3>2, <3>3
    <2> QED
      BY <2>1 DEF UnescapedFrom
  <1> HIDE DEF f
  <1> DEFINE from == CHOOSE h : At(h)
  <1>8. At(from)
    <2> HIDE DEF At
    <2> QED
      BY <1>7
  <1>9. Unescaped(raw) = from[1]
    BY DEF Unescaped, UnescapedFrom
  <1> QED
    BY <1>8, <1>9

(* Whatever bytes it is given, unescaping makes bytes of them, and never   *)
(* more than there were.                                                   *)
LEMMA UnescapingFits ==
  ASSUME NEW raw \in Seq(Byte)
  PROVE  Unescaped(raw) \in Seq(Byte) /\ Len(Unescaped(raw)) <= Len(raw)
  <1> DEFINE n == Len(raw)
  <1>0. n \in Nat
    OBVIOUS
  <1>1. PICK f : UnescapedFrom(raw, f) /\ Unescaped(raw) = f[1]
    BY UnescapedUnfold
  <1>2. \A i \in 1 .. n + 1 :
          f[i] = IF i > n THEN <<>> ELSE UnescapedAt(raw, i).bytes \o f[UnescapedAt(raw, i).next]
    BY <1>1 DEF UnescapedFrom
  <1> DEFINE Good(i) == f[i] \in Seq(Byte) /\ Len(f[i]) <= n + 1 - i
             T == {k \in 0 .. n : ~ Good(n + 1 - k)}
  <1>3. T = {}
    <2> SUFFICES ASSUME T # {} PROVE FALSE
      OBVIOUS
    <2>1. PICK k \in T : \A j \in T : k <= j
      <3>1. T \subseteq Nat
        OBVIOUS
      <3> HIDE DEF T
      <3> QED
        BY <3>1, LeastNat
    <2> DEFINE i == n + 1 - k
    <2>2. k \in 0 .. n /\ i \in 1 .. n + 1 /\ ~ Good(i)
      BY <2>1, <1>0
    <2>4. \A j \in i + 1 .. n + 1 : Good(j)
      <3> SUFFICES ASSUME NEW j \in i + 1 .. n + 1 PROVE Good(j)
        OBVIOUS
      <3>1. n + 1 - j \in 0 .. n /\ n + 1 - j < k /\ n + 1 - (n + 1 - j) = j /\ k \in Nat
        BY <2>2, <1>0
      <3>2. n + 1 - j \notin T
        <4> HIDE DEF T
        <4> QED
          BY <2>1, <3>1
      <3> QED
        BY <3>1, <3>2
    <2> HIDE DEF T, i
    <2>5. CASE i > n
      <3>1. f[i] = <<>>
        BY <1>2, <2>2, <2>5
      <3>2. <<>> \in Seq(Byte) /\ Len(<<>>) = 0
        OBVIOUS
      <3>3. n + 1 - i = 0
        BY <1>0, <2>2, <2>5
      <3>4. Good(i)
        BY <3>1, <3>2, <3>3
      <3> QED
        BY <2>2, <3>4
    <2>6. CASE ~ (i > n)
      <3> DEFINE bytes == UnescapedAt(raw, i).bytes
                 next  == UnescapedAt(raw, i).next
      <3>1. i \in 1 .. n
        BY <1>0, <2>2, <2>6
      <3>2. bytes \in Seq(Byte) /\ next \in i + 1 .. n + 1 /\ Len(bytes) <= next - i
        BY <3>1, PieceFacts
      <3>3. f[i] = bytes \o f[next]
        BY <1>2, <2>2, <2>6
      <3> HIDE DEF bytes, next
      <3>4. f[next] \in Seq(Byte) /\ Len(f[next]) <= n + 1 - next
        BY <2>4, <3>2
      <3> DEFINE tail == f[next]
      <3> HIDE DEF tail
      <3>5. bytes \o tail \in Seq(Byte) /\ Len(bytes \o tail) = Len(bytes) + Len(tail) /\ Len(bytes) \in Nat /\ Len(tail) \in Nat
        BY <3>2, <3>4, ConcatProperties, LenProperties DEF tail
      <3>6. Len(bytes) + Len(tail) <= n + 1 - i
        BY <1>0, <3>1, <3>2, <3>4, <3>5 DEF tail
      <3>7. f[i] \in Seq(Byte) /\ Len(f[i]) <= n + 1 - i
        BY <3>3, <3>5, <3>6, Zenon DEF tail
      <3> QED
        BY <2>2, <3>7
    <2> QED
      BY <2>5, <2>6
  <1>4. Good(1)
    <2>1. n \in 0 .. n /\ n + 1 - n = 1
      BY <1>0
    <2>2. n \notin T
      BY <1>3
    <2> QED
      BY <2>1, <2>2
  <1>5. n + 1 - 1 = n
    BY <1>0
  <1> QED
    BY <1>1, <1>4, <1>5

---------------------------------------------------------------------------
(* Writing.                                                                *)

\* What is joined up to each place.
Flattened(seqs, f) ==
  f = [i \in 1 .. Len(seqs) |-> IF i = 1 THEN seqs[i] ELSE f[i - 1] \o seqs[i]]

(* Sequences are joined to a sequence of what they are made of.            *)
LEMMA FlattenFacts ==
  ASSUME NEW S, NEW seqs \in Seq(Seq(S))
  PROVE  FlattenSeq(seqs) \in Seq(S)
  <1> DEFINE n == Len(seqs)
             V == Seq(S)
             At(f) == Flattened(seqs, f)
             stop == {0, 1}
             up   == [i \in 1 .. n |-> i - 1]
             val  == [i \in 0 .. n |-> IF i = 0 THEN <<>> ELSE seqs[i]]
             step == [i \in 0 .. n |-> [x \in V |-> IF i = 0 THEN x ELSE x \o seqs[i]]]
  <1>0. n \in Nat /\ 0 \in stop /\ \A i \in 1 .. n : seqs[i] \in V
    OBVIOUS
  <1>1. CASE n = 0
    <2>1. FlattenSeq(seqs) = seqs
      BY <1>1 DEF FlattenSeq
    <2>2. seqs = <<>>
      BY <1>1
    <2>3. <<>> \in Seq(S)
      OBVIOUS
    <2> QED
      BY <2>1, <2>2, <2>3
  <1>2. CASE n # 0
    <2>1. \A i \in 1 .. n : i \notin stop => up[i] \in 0 .. i - 1
      OBVIOUS
    <2>2. \A i \in 0 .. n : i \in stop => val[i] \in V
      <3> SUFFICES ASSUME NEW i \in 0 .. n PROVE val[i] \in V
        OBVIOUS
      <3>1. CASE i = 0
        BY <3>1
      <3>2. CASE i # 0
        <4>1. i \in 1 .. n /\ val[i] = seqs[i]
          BY <1>0, <3>2
        <4> HIDE DEF val, V
        <4> QED
          BY <1>0, <4>1
      <3> QED
        BY <3>1, <3>2
    <2>3. \A i \in 0 .. n : step[i] \in [V -> V]
      <3> SUFFICES ASSUME NEW i \in 0 .. n, NEW x \in V
                   PROVE  (IF i = 0 THEN x ELSE x \o seqs[i]) \in V
        OBVIOUS
      <3>1. CASE i # 0
        <4>1. seqs[i] \in V
          BY <1>0, <3>1
        <4>2. x \o seqs[i] \in V
          BY <4>1, ConcatProperties
        <4> QED
          BY <3>1, <4>2
      <3> QED
        BY <3>1
    <2>4. PICK g : Recursion(g, n, stop, val, up, step) /\ g \in [0 .. n -> V]
      <3> HIDE DEF n, V, stop, val, up, step
      <3> QED
        BY <1>0, <2>1, <2>2, <2>3, RecursionExists
    <2> DEFINE f == [i \in 1 .. n |-> g[i]]
    <2>5. At(f)
      <3>1. ASSUME NEW i \in 1 .. n
            PROVE  g[i] = IF i = 1 THEN seqs[i] ELSE f[i - 1] \o seqs[i]
        <4>0. i \in 0 .. n /\ i # 0
          BY <1>0
        <4>1. g[i] = IF i \in stop THEN val[i] ELSE step[i][g[up[i]]]
          <5> HIDE DEF up, val, step, stop, n
          <5> QED
            BY <2>4, <4>0 DEF Recursion
        <4>2. CASE i = 1
          <5>1. i \in stop /\ val[i] = seqs[i]
            BY <4>0, <4>2
          <5> HIDE DEF stop, val, step, up
          <5> QED
            BY <4>1, <4>2, <5>1
        <4>3. CASE i # 1
          <5>1. i \notin stop /\ up[i] = i - 1 /\ i - 1 \in 1 .. n /\ i - 1 \in 0 .. n
            BY <1>0, <4>0, <4>3
          <5>2. g[i - 1] \in V /\ f[i - 1] = g[i - 1]
            BY <2>4, <5>1
          <5>3. step[i] = [x \in V |-> x \o seqs[i]]
            BY <4>0
          <5> HIDE DEF stop, val, step, up, f, V
          <5>4. step[i][g[i - 1]] = g[i - 1] \o seqs[i]
            BY <5>2, <5>3
          <5> QED
            BY <4>1, <4>3, <5>1, <5>2, <5>4
        <4> QED
          BY <4>2, <4>3
      <3> QED
        BY <3>1 DEF Flattened
    <2> HIDE DEF f
    <2> DEFINE flatten == CHOOSE h : At(h)
    <2>6. At(flatten)
      <3> HIDE DEF At
      <3> QED
        BY <2>5
    <2>7. FlattenSeq(seqs) = flatten[n]
      BY <1>2 DEF FlattenSeq, Flattened
    <2> HIDE DEF flatten
    <2>8. \A i \in 1 .. n : flatten[i] = IF i = 1 THEN seqs[i] ELSE flatten[i - 1] \o seqs[i]
      BY <2>6 DEF Flattened
    <2> DEFINE T == {i \in 1 .. n : flatten[i] \notin V}
    <2>9. T = {}
      <3> SUFFICES ASSUME T # {} PROVE FALSE
        OBVIOUS
      <3>1. PICK i \in T : \A j \in T : i <= j
        <4>1. T \subseteq Nat
          OBVIOUS
        <4> HIDE DEF T
        <4> QED
          BY <4>1, LeastNat
      <3>2. i \in 1 .. n /\ flatten[i] \notin V
        BY <3>1
      <3>3. CASE i = 1
        BY <1>0, <2>8, <3>2, <3>3
      <3>4. CASE i # 1
        <4>1. i - 1 \in 1 .. n /\ ~ (i <= i - 1)
          BY <1>0, <3>2, <3>4
        <4>2. flatten[i - 1] \in V
          BY <3>1, <4>1
        <4>3. flatten[i - 1] \o seqs[i] \in V
          BY <1>0, <3>2, <4>2, ConcatProperties
        <4> QED
          BY <2>8, <3>2, <3>4, <4>3
      <3> QED
        BY <3>3, <3>4
    <2>10. n \in 1 .. n
      BY <1>0, <1>2
    <2> QED
      BY <2>7, <2>9, <2>10
  <1> QED
    BY <1>1, <1>2

(* The part before the first null character.                               *)
LEMMA UntilNulFacts ==
  ASSUME NEW bytes \in Seq(Byte)
  PROVE  UntilNul(bytes) \in Seq(Byte)
  <1> DEFINE nuls == {i \in DOMAIN bytes : bytes[i] = 0}
             least == Min(nuls)
  <1>1. CASE nuls # {}
    <2>1. nuls \subseteq Nat
      OBVIOUS
    <2>2. least \in nuls
      <3> HIDE DEF nuls
      <3>1. \E n \in nuls : \A m \in nuls : n <= m
        BY <1>1, <2>1, LeastNat
      <3> QED
        BY <3>1 DEF Min
    <2>3. least \in 1 .. Len(bytes)
      BY <2>2
    <2> HIDE DEF least
    <2>4. 1 \in Int /\ least - 1 \in Int /\ \A i \in 1 .. least - 1 : bytes[i] \in Byte
      BY <2>3
    <2>5. SubSeq(bytes, 1, least - 1) \in Seq(Byte)
      BY <2>4, SubSeqProperties
    <2> QED
      BY <1>1, <2>5 DEF UntilNul, least
  <1>2. CASE nuls = {}
    BY <1>2 DEF UntilNul
  <1> QED
    BY <1>1, <1>2

(* A byte is written as bytes.                                             *)
LEMMA EscapedByteFacts ==
  ASSUME NEW byte \in Byte
  PROVE  EscapedByte(byte) \in Seq(Byte)
  <1> DEFINE short == [b \in {34, 92, 10, 13, 9, 8, 12} |->
                         CASE b = 10 -> 110 [] b = 13 -> 114 [] b = 9 -> 116 [] b = 8 -> 98 [] b = 12 -> 102 [] OTHER -> b]
  <1>1. CASE byte \in DOMAIN short
    <2>1. short[byte] \in Byte
      BY <1>1 DEF Byte
    <2>2. EscapedByte(byte) = <<92, short[byte]>>
      BY <1>1 DEF EscapedByte
    <2>3. 92 \in Byte
      BY DEF Byte
    <2> HIDE DEF short
    <2> QED
      BY <2>1, <2>2, <2>3, TwoBytes
  <1>2. CASE byte \notin DOMAIN short /\ byte < 32
    <2>1. HexDigitOf(byte \div 16) \in Byte /\ HexDigitOf(byte % 16) \in Byte
      BY <1>2 DEF HexDigitOf, Byte
    <2>2. EscapedByte(byte) = <<92, 117, 48, 48, HexDigitOf(byte \div 16), HexDigitOf(byte % 16)>>
      BY <1>2 DEF EscapedByte
    <2>3. 92 \in Byte /\ 117 \in Byte /\ 48 \in Byte
      BY DEF Byte
    <2> DEFINE p == HexDigitOf(byte \div 16)
               q == HexDigitOf(byte % 16)
    <2> HIDE DEF p, q
    <2>4. <<92, 117, 48, 48, p, q>> \in Seq(Byte)
      <3>1. p \in Byte /\ q \in Byte
        BY <2>1 DEF p, q
      <3> HIDE DEF Byte
      <3> QED
        BY <2>3, <3>1
    <2> QED
      BY <2>2, <2>4 DEF p, q
  <1>3. CASE byte \notin DOMAIN short /\ ~ (byte < 32)
    <2>1. EscapedByte(byte) = <<byte>>
      BY <1>3 DEF EscapedByte
    <2> HIDE DEF Byte
    <2>2. <<byte>> \in Seq(Byte)
      OBVIOUS
    <2> QED
      BY <2>1, <2>2
  <1> QED
    BY <1>1, <1>2, <1>3

(* A string is written between quotes.                                     *)
LEMMA EscapedFacts ==
  ASSUME NEW bytes \in Seq(Byte)
  PROVE  Escaped(bytes) \in Seq(Byte) /\ Len(Escaped(bytes)) >= 1 /\ Escaped(bytes)[1] = 34
  <1> DEFINE pieces == [i \in DOMAIN bytes |-> EscapedByte(bytes[i])]
             body   == FlattenSeq(pieces)
             quote  == <<34>>
  <1>1. pieces \in Seq(Seq(Byte))
    <2>1. \A i \in 1 .. Len(bytes) : EscapedByte(bytes[i]) \in Seq(Byte)
      BY EscapedByteFacts
    <2>2. DOMAIN bytes = 1 .. Len(bytes) /\ Len(bytes) \in Nat
      OBVIOUS
    <2> QED
      BY <2>1, <2>2
  <1>2. body \in Seq(Byte)
    <2> HIDE DEF pieces
    <2> QED
      BY <1>1, FlattenFacts
  <1>3. quote \in Seq(Byte) /\ Len(quote) = 1 /\ quote[1] = 34
    <2>1. 34 \in Byte
      BY DEF Byte
    <2> HIDE DEF Byte
    <2> QED
      BY <2>1
  <1>4. Escaped(bytes) = quote \o body \o quote
    BY DEF Escaped
  <1> HIDE DEF body, quote
  <1>5. /\ quote \o body \in Seq(Byte) /\ Len(quote \o body) = 1 + Len(body) /\ Len(body) \in Nat
        /\ (quote \o body)[1] = 34
    <2>1. /\ quote \o body \in Seq(Byte)
          /\ Len(quote \o body) = Len(quote) + Len(body)
          /\ \A i \in 1 .. Len(quote) + Len(body) :
               (quote \o body)[i] = IF i <= Len(quote) THEN quote[i] ELSE body[i - Len(quote)]
      BY <1>2, <1>3, ConcatProperties
    <2>2. Len(body) \in Nat
      BY <1>2, LenProperties
    <2> QED
      BY <1>3, <2>1, <2>2
  <1>6. quote \o body \o quote \in Seq(Byte) /\ Len(quote \o body \o quote) >= 1 /\ (quote \o body \o quote)[1] = 34
    BY <1>3, <1>5, ConcatProperties
  <1> QED
    BY <1>4, <1>6

---------------------------------------------------------------------------
(* Tokens.                                                                 *)

\* Texts.
Doc == [bytes : Seq(Byte), malformed : BOOLEAN, tokens : Seq(Token)]

(* A word is read: its first byte is counted, and no other opens anything. *)
LEMMA WordRun ==
  ASSUME source \in Seq(Byte), NEW first \in First(source) .. Len(source), NEW end \in first + 1 .. Len(source) + 1,
         Outside(Prescan(source)[first - 1]), source[first] \in ValueByte,
         \A k \in first .. end - 1 : source[k] \notin {34, 123, 91}
  PROVE  More(Prescan(source)[first - 1], Prescan(source)[end - 1])
  <1> DEFINE n == Len(source)
             c == Prescan(source)[first - 1]
             d == Prescan(source)[first]
             e == Prescan(source)[end - 1]
  <1>0. n \in Nat /\ First(source) \in Nat \ {0} /\ first \in 1 .. n /\ first - 1 \in 0 .. n /\ end - 1 \in 0 .. n
    BY DEF First
  <1>1. d = Counted(c, source[first]) /\ c \in Tally /\ d \in Tally /\ e \in Tally
    BY <1>0, PrescanUnfold
  <1>2. source[first] \in Byte /\ source[first] \notin {34, 123, 91}
    BY <1>0
  <1>3. Beyond(c, d) /\ d.values = c.values + 1
    <2> HIDE DEF c, d
    <2> QED
      BY <1>1, <1>2, CountedPlain DEF c
  <1>4. Beyond(d, e)
    <2>1. first + 1 \in First(source) .. n + 1 /\ end \in first + 1 .. n + 1 /\ first + 1 - 1 = first
      BY <1>0
    <2>2. \A k \in first + 1 .. end - 1 : source[k] \notin {34, 123, 91}
      BY <1>0
    <2>3. Outside(Prescan(source)[first + 1 - 1])
      BY <1>3, <2>1 DEF Beyond
    <2>4. Beyond(Prescan(source)[first + 1 - 1], e)
      BY <2>1, <2>2, <2>3, PlainRun
    <2> QED
      BY <2>1, <2>4
  <1> HIDE DEF c, d, e
  <1>5. c.values \in Nat /\ d.values \in Nat /\ e.values \in Nat
    BY <1>1 DEF Tally
  <1>6. More(c, e)
    BY <1>3, <1>4, <1>5 DEF Beyond, More
  <1> QED
    BY <1>6 DEF c, e

\* The token t is read up to end, and the counts still cover.
Reads(end, t) ==
  /\ end \in First(source) .. Len(source) + 1
  /\ Append(tokens, t) \in Seq(Token)
  /\ Covers(Prescan(source)[end - 1], Append(tokens, t))

(* A part of the text is a sequence of bytes.                              *)
LEMMA PartFacts ==
  ASSUME source \in Seq(Byte), NEW a \in 1 .. Len(source) + 1, NEW b \in Int, b <= Len(source)
  PROVE  SubSeq(source, a, b) \in Seq(Byte)
  <1>1. \A i \in a .. b : source[i] \in Byte
    OBVIOUS
  <1>2. a \in Int
    OBVIOUS
  <1> HIDE DEF Byte
  <1> QED
    BY <1>1, <1>2, SubSeqProperties

(* What the three literals are.                                            *)
LEMMA LiteralFacts ==
  ASSUME NEW l \in Literal
  PROVE  /\ l.type \in {"true", "false", "null"}
         /\ l.bytes \in {<<116, 114, 117, 101>>, <<102, 97, 108, 115, 101>>, <<110, 117, 108, 108>>}
  <1> DEFINE true  == [type |-> "true", bytes |-> <<116, 114, 117, 101>>]
             false == [type |-> "false", bytes |-> <<102, 97, 108, 115, 101>>]
             null  == [type |-> "null", bytes |-> <<110, 117, 108, 108>>]
  <1>1. /\ true.type = "true" /\ true.bytes = <<116, 114, 117, 101>>
        /\ false.type = "false" /\ false.bytes = <<102, 97, 108, 115, 101>>
        /\ null.type = "null" /\ null.bytes = <<110, 117, 108, 108>>
    BY Zenon
  <1>2. l = true \/ l = false \/ l = null
    BY Zenon DEF Literal
  <1> HIDE DEF true, false, null
  <1>3. CASE l = true
    BY <1>1, <1>3, Zenon
  <1>4. CASE l = false
    BY <1>1, <1>4, Zenon
  <1>5. CASE l = null
    BY <1>1, <1>5, Zenon
  <1> QED
    BY <1>2, <1>3, <1>4, <1>5

(* Strings, numbers and literals are values.                               *)
LEMMA TokenFacts ==
  ASSUME NEW bytes \in Seq(Byte)
  PROVE  /\ [type |-> "string", bytes |-> bytes] \in ValueToken
         /\ [type |-> "number", bytes |-> bytes] \in ValueToken
         /\ \A l \in Literal : [type |-> l.type, bytes |-> bytes] \in ValueToken
  <1>1. [type |-> "string", bytes |-> bytes] \in ValueToken
    BY Zenon DEF ValueToken, Token, TokenType
  <1>2. [type |-> "number", bytes |-> bytes] \in ValueToken
    BY Zenon DEF ValueToken, Token, TokenType
  <1>3. ASSUME NEW l \in Literal PROVE [type |-> l.type, bytes |-> bytes] \in ValueToken
    <2>5. l.type \in {"true", "false", "null"}
      BY LiteralFacts
    <2>2. l.type \in TokenType /\ l.type # "punctuation"
      BY <2>5, Zenon DEF TokenType
    <2> QED
      BY <2>2, Zenon DEF ValueToken, Token
  <1> QED
    BY <1>1, <1>2, <1>3

(* Any other token than a punctuation mark is read.                        *)
LEMMA ReadsWord ==
  ASSUME source \in Seq(Byte), tokens \in Seq(Token), NEW first \in First(source) .. Len(source),
         NEW end \in first + 1 .. Len(source) + 1,
         Covers(Prescan(source)[first - 1], tokens), More(Prescan(source)[first - 1], Prescan(source)[end - 1]),
         NEW t \in ValueToken
  PROVE  Reads(end, t)
  <1>1. Len(source) \in Nat /\ First(source) \in Nat \ {0}
    BY DEF First
  <1>2. first - 1 \in 0 .. Len(source) /\ end - 1 \in 0 .. Len(source) /\ end \in First(source) .. Len(source) + 1
    BY <1>1
  <1>3. Prescan(source)[first - 1] \in Tally /\ Prescan(source)[end - 1] \in Tally
    BY <1>2, PrescanUnfold
  <1>4. Covers(Prescan(source)[end - 1], Append(tokens, t))
    BY <1>3, CoversWord
  <1>5. Append(tokens, t) \in Seq(Token)
    <2>1. t \in Token
      BY WordNoMark
    <2> QED
      BY <2>1, AppendProperties
  <1> QED
    BY <1>2, <1>4, <1>5 DEF Reads

(* A punctuation mark is read.                                             *)
LEMMA ReadsMark ==
  ASSUME source \in Seq(Byte), tokens \in Seq(Token), NEW first \in First(source) .. Len(source),
         Covers(Prescan(source)[first - 1], tokens), source[first] \in Punctuation,
         NEW end, end = first + 1
  PROVE  Reads(end, [type |-> "punctuation", bytes |-> SubSeq(source, first, end - 1)])
  <1>1. Len(source) \in Nat /\ First(source) \in Nat \ {0}
    BY DEF First
  <1>2. first - 1 \in 0 .. Len(source) /\ first \in 1 .. Len(source) /\ first + 1 \in First(source) .. Len(source) + 1
        /\ end - 1 = first /\ end = first + 1
    BY <1>1
  <1>3. Prescan(source)[first - 1] \in Tally /\ Prescan(source)[first] = Counted(Prescan(source)[first - 1], source[first])
    BY <1>2, PrescanUnfold
  <1> DEFINE byte == source[first]
  <1>4. SubSeq(source, first, first) = <<byte>>
    <2> DEFINE part == SubSeq(source, first, first)
    <2>1. first \in Int /\ first <= first /\ first - first + 1 = 1 /\ \A i \in first .. first : source[i] \in Byte
      BY <1>2
    <2>2. /\ part \in Seq(Byte)
          /\ Len(part) = IF first <= first THEN first - first + 1 ELSE 0
          /\ \A i \in 1 .. first - first + 1 : part[i] = source[first + i - 1]
      BY <2>1, SubSeqProperties
    <2> HIDE DEF part
    <2>3. Len(part) = 1 /\ part[1] = byte
      BY <2>1, <2>2
    <2>4. part = <<byte>>
      <3> HIDE DEF byte, Byte
      <3> QED
        BY <2>2, <2>3
    <2> QED
      BY <2>4 DEF part
  <1> HIDE DEF byte
  <1>5. byte \in Byte
    BY <1>2 DEF byte
  <1>6. [type |-> "punctuation", bytes |-> SubSeq(source, first, end - 1)] = Mark(byte)
    <2>1. SubSeq(source, first, end - 1) = <<byte>>
      BY <1>2, <1>4
    <2> QED
      BY <2>1, Zenon DEF Mark
  <1>7. Append(tokens, Mark(byte)) \in Seq(Token)
    BY <1>5, MarkFacts, AppendProperties
  <1>8. Covers(Prescan(source)[end - 1], Append(tokens, Mark(byte)))
    <2>1. Covers(Counted(Prescan(source)[first - 1], byte), Append(tokens, Mark(byte)))
      BY <1>3, CoversMark DEF byte
    <2> QED
      BY <1>2, <1>3, <2>1 DEF byte
  <1> QED
    BY <1>2, <1>6, <1>7, <1>8 DEF Reads

(* A number is read.                                                       *)
LEMMA ReadsNumber ==
  ASSUME source \in Seq(Byte), tokens \in Seq(Token), NEW first \in First(source) .. Len(source),
         Covers(Prescan(source)[first - 1], tokens), source[first] \in Digit \cup {45},
         NumberEnd(first) # 0
  PROVE  Reads(NumberEnd(first), [type |-> "number", bytes |-> SubSeq(source, first, NumberEnd(first) - 1)])
  <1> DEFINE end == NumberEnd(first)
  <1>1. Len(source) \in Nat /\ First(source) \in Nat \ {0} /\ first \in 1 .. Len(source)
    BY DEF First
  <1>2. end > first /\ end \in first .. Len(source) + 1 /\ \A k \in first .. end - 1 : source[k] \in NumberByte
    BY <1>1, NumberFacts DEF Run
  <1> HIDE DEF end
  <1>3. end \in first + 1 .. Len(source) + 1 /\ end - 1 \in Int /\ end - 1 <= Len(source)
    BY <1>1, <1>2
  <1>4. \A k \in first .. end - 1 : source[k] \notin {34, 123, 91}
    <2>1. \A b \in NumberByte : b \notin {34, 123, 91}
      BY DEF NumberByte, Digit
    <2> QED
      BY <1>2, <2>1
  <1>5. source[first] \in ValueByte
    BY DEF ValueByte
  <1>6. More(Prescan(source)[first - 1], Prescan(source)[end - 1])
    BY <1>3, <1>4, <1>5, WordRun DEF Covers
  <1>7. SubSeq(source, first, end - 1) \in Seq(Byte)
    BY <1>1, <1>3, PartFacts
  <1>8. Reads(end, [type |-> "number", bytes |-> SubSeq(source, first, end - 1)])
    BY <1>3, <1>6, <1>7, TokenFacts, ReadsWord
  <1> QED
    BY <1>8 DEF end

Words == {<<116, 114, 117, 101>>, <<102, 97, 108, 115, 101>>, <<110, 117, 108, 108>>}

(* The bytes of the words.                                                 *)
LEMMA WordBytes ==
  ASSUME NEW w \in Words
  PROVE  w \in Seq(Byte) /\ Len(w) \in 1 .. 5 /\ \A k \in 1 .. Len(w) : w[k] \notin {34, 123, 91}
  <1>1. CASE w = <<116, 114, 117, 101>>
    <2>1. \A k \in 1 .. 4 : w[k] \in {116, 114, 117, 101}
      BY <1>1
    <2>2. w \in Seq(Byte) /\ Len(w) = 4
      BY <1>1, SMTT(30) DEF Byte
    <2> QED
      BY <2>1, <2>2
  <1>2. CASE w = <<102, 97, 108, 115, 101>>
    <2>1. \A k \in 1 .. 5 : w[k] \in {102, 97, 108, 115, 101}
      BY <1>2
    <2>2. w \in Seq(Byte) /\ Len(w) = 5
      BY <1>2, SMTT(30) DEF Byte
    <2> QED
      BY <2>1, <2>2
  <1>3. CASE w = <<110, 117, 108, 108>>
    <2>1. \A k \in 1 .. 4 : w[k] \in {110, 117, 108, 108}
      BY <1>3
    <2>2. w \in Seq(Byte) /\ Len(w) = 4
      BY <1>3, SMTT(30) DEF Byte
    <2> QED
      BY <2>1, <2>2
  <1> QED
    BY <1>1, <1>2, <1>3 DEF Words

(* A literal is read.                                                      *)
LEMMA ReadsLiteral ==
  ASSUME source \in Seq(Byte), tokens \in Seq(Token), NEW first \in First(source) .. Len(source),
         Covers(Prescan(source)[first - 1], tokens), source[first] \in {116, 102, 110},
         NEW l \in Literal, IsPrefix(l.bytes, SubSeq(source, first, Len(source))),
         NEW end, end = first + Len(l.bytes)
  PROVE  Reads(end, [type |-> l.type, bytes |-> SubSeq(source, first, end - 1)])
  <1> DEFINE n == Len(source)
             w == l.bytes
             rest == SubSeq(source, first, n)
  <1>1. n \in Nat /\ First(source) \in Nat \ {0} /\ first \in 1 .. n
    BY DEF First
  <1>2. w \in Seq(Byte) /\ Len(w) \in 1 .. 5 /\ \A k \in 1 .. Len(w) : w[k] \notin {34, 123, 91}
    <2>1. w \in Words
      BY LiteralFacts DEF Words
    <2> HIDE DEF w
    <2> QED
      BY <2>1, WordBytes, ZenonT(60)
  <1>3. Len(rest) = n - first + 1 /\ \A k \in 1 .. n - first + 1 : rest[k] = source[first + k - 1]
    <2>1. first \in Int /\ n \in Int /\ first <= n /\ \A i \in first .. n : source[i] \in Byte
      BY <1>1
    <2> HIDE DEF n
    <2>2. /\ Len(rest) = IF first <= n THEN n - first + 1 ELSE 0
          /\ \A k \in 1 .. n - first + 1 : rest[k] = source[first + k - 1]
      BY <2>1, SubSeqProperties
    <2> QED
      BY <2>1, <2>2
  <1>4. Len(w) <= n - first + 1 /\ \A k \in 1 .. Len(w) : w[k] = rest[k]
    <2> HIDE DEF w, rest, n
    <2>1. Len(w) <= Len(rest) /\ SubSeq(w, 1, Len(w)) = SubSeq(rest, 1, Len(w))
      BY DEF IsPrefix, w, rest, n
    <2>2. rest \in Seq(Byte)
      BY <1>1, PartFacts DEF rest, n
    <2>3. \A k \in 1 .. Len(w) : SubSeq(w, 1, Len(w))[k] = w[k] /\ SubSeq(rest, 1, Len(w))[k] = rest[k]
      <3>1. 1 \in Int /\ Len(w) \in Int /\ Len(w) <= Len(rest)
        BY <1>2, <2>1
      <3>2. \A k \in 1 .. Len(w) : w[k] \in Byte /\ rest[k] \in Byte
        BY <1>2, <2>1, <2>2
      <3>3. \A k \in 1 .. Len(w) - 1 + 1 : SubSeq(w, 1, Len(w))[k] = w[1 + k - 1] /\ SubSeq(rest, 1, Len(w))[k] = rest[1 + k - 1]
        BY <3>1, <3>2, SubSeqProperties
      <3>4. Len(w) - 1 + 1 = Len(w) /\ \A k \in 1 .. Len(w) : 1 + k - 1 = k
        BY <3>1
      <3> QED
        BY <3>3, <3>4
    <2> QED
      BY <1>3, <2>1, <2>3
  <1>11. end = first + Len(w)
    OBVIOUS
  <1> HIDE DEF w, rest
  <1>5. end \in first + 1 .. n + 1 /\ end - 1 \in Int /\ end - 1 <= n
    <2> DEFINE m == Len(w)
    <2> HIDE DEF m, n
    <2>1. m \in Nat /\ m >= 1 /\ m <= n - first + 1
      <3>1. m \in 1 .. 5
        BY <1>2 DEF m
      <3>2. m <= n - first + 1
        BY <1>4 DEF m
      <3> QED
        BY <3>1, <3>2
    <2>3. first \in Nat /\ n \in Nat /\ first <= n
      BY <1>1
    <2>4. first + m >= first + 1 /\ first + m <= n + 1 /\ first + m \in Nat
      BY <2>1, <2>3
    <2>5. end = first + m
      BY <1>11, Zenon DEF m
    <2>6. end \in Int /\ end >= first + 1 /\ end <= n + 1
      BY <2>1, <2>3, <2>4, <2>5
    <2> QED
      BY <2>3, <2>6
  <1>6. \A k \in first .. end - 1 : source[k] \notin {34, 123, 91}
    <2> SUFFICES ASSUME NEW k \in first .. end - 1 PROVE source[k] \notin {34, 123, 91}
      OBVIOUS
    <2> DEFINE j == k - first + 1
    <2>3. k \in first .. first + Len(w) - 1 /\ Len(w) \in Nat
      BY <1>2, <1>11
    <2>1. j \in 1 .. Len(w) /\ j \in 1 .. n - first + 1 /\ first + j - 1 = k
      BY <1>1, <1>4, <2>3
    <2> HIDE DEF j
    <2>2. source[k] = w[j]
      BY <1>3, <1>4, <2>1
    <2> QED
      BY <1>2, <2>1, <2>2
  <1>7. source[first] \in ValueByte
    BY DEF ValueByte
  <1>8. More(Prescan(source)[first - 1], Prescan(source)[end - 1])
    BY <1>5, <1>6, <1>7, WordRun DEF Covers
  <1>9. SubSeq(source, first, end - 1) \in Seq(Byte)
    BY <1>1, <1>5, PartFacts
  <1>10. Reads(end, [type |-> l.type, bytes |-> SubSeq(source, first, end - 1)])
    <2> DEFINE t == [type |-> l.type, bytes |-> SubSeq(source, first, end - 1)]
    <2>1. t \in ValueToken
      BY <1>9, TokenFacts
    <2> HIDE DEF t
    <2>2. Reads(end, t)
      BY <1>5, <1>8, <2>1, ReadsWord
    <2> QED
      BY <2>2, ZenonT(60) DEF t
  <1> QED
    BY <1>10

(* A string is read.                                                       *)
LEMMA ReadsString ==
  ASSUME source \in Seq(Byte), tokens \in Seq(Token), NEW first \in First(source) .. Len(source),
         Covers(Prescan(source)[first - 1], tokens), source[first] = 34, StringEnd(first) # 0
  PROVE  Reads(StringEnd(first), [type |-> "string", bytes |-> SubSeq(source, first + 1, StringEnd(first) - 2)])
  <1> DEFINE end == StringEnd(first)
             c == Prescan(source)[first - 1]
             e == Prescan(source)[end - 1]
  <1>1. Len(source) \in Nat /\ First(source) \in Nat \ {0} /\ first \in 1 .. Len(source) /\ first - 1 \in 0 .. Len(source)
    BY DEF First
  <1>2. end \in first + 2 .. Len(source) + 1 /\ e = [c EXCEPT !.values = @ + 1]
    BY StringFacts DEF Covers
  <1>3. c \in Tally
    BY <1>1, PrescanUnfold
  <1> HIDE DEF end, c, e
  <1>4. end \in first + 1 .. Len(source) + 1 /\ first + 1 \in 1 .. Len(source) + 1 /\ end - 2 \in Int /\ end - 2 <= Len(source)
    BY <1>1, <1>2
  <1>5. More(c, e)
    <2>1. e.values = c.values + 1 /\ e.objects = c.objects /\ e.arrays = c.arrays /\ e.in = c.in /\ e.escape = c.escape
      BY <1>2, <1>3, Zenon DEF Tally
    <2>2. c.values + 1 >= c.values + 1 /\ Outside(c)
      BY <1>3 DEF Tally, Covers, c
    <2> QED
      BY <2>1, <2>2 DEF More, Outside
  <1>6. SubSeq(source, first + 1, end - 2) \in Seq(Byte)
    BY <1>4, PartFacts
  <1>7. Reads(end, [type |-> "string", bytes |-> SubSeq(source, first + 1, end - 2)])
    BY <1>4, <1>5, <1>6, TokenFacts, ReadsWord DEF c, e
  <1> QED
    BY <1>7 DEF end

---------------------------------------------------------------------------
(* The invariant.                                                          *)

\* What is known of the text d, read up to p as the tokens ts.
ReadUpTo(d, p, ts) ==
  /\ d \in Doc
  /\ p \in First(d.bytes) .. Len(d.bytes) + 1
  /\ ts \in Seq(Token)
  /\ Covers(Prescan(d.bytes)[p - 1], ts)

\* The inductive invariant.
LexerInv ==
  /\ ReadUpTo(doc, pos, tokens)
  /\ status \in {"lexing", "end", "error"}
  /\ status = "end" => pos = Len(source) + 1

(* Blanks do not matter.                                                   *)
LEMMA AtToken ==
  ASSUME LexerInv
  PROVE  /\ source \in Seq(Byte)
         /\ tokens \in Seq(Token)
         /\ Start(pos) \in First(source) .. Len(source) + 1
         /\ Covers(Prescan(source)[Start(pos) - 1], tokens)
  <1> DEFINE first == Start(pos)
             c == Prescan(source)[pos - 1]
             d == Prescan(source)[first - 1]
  <1>0. ReadUpTo(doc, pos, tokens)
    BY DEF LexerInv
  <1>1. source \in Seq(Byte) /\ tokens \in Seq(Token)
    <2>1. doc.bytes \in Seq(Byte)
      BY <1>0, Zenon DEF ReadUpTo, Doc
    <2> QED
      BY <1>0, <2>1 DEF ReadUpTo, source
  <1>2. pos \in First(source) .. Len(source) + 1 /\ Covers(c, tokens)
    BY <1>0 DEF ReadUpTo, source
  <1>3. Len(source) \in Nat /\ First(source) \in Nat \ {0} /\ pos \in 1 .. Len(source) + 1 /\ pos - 1 \in 0 .. Len(source)
    BY <1>1, <1>2 DEF First
  <1>4. first \in pos .. Len(source) + 1 /\ \A k \in pos .. first - 1 : source[k] \in Blank
    BY <1>1, <1>3, StartFacts DEF Run
  <1> HIDE DEF first
  <1>5. first \in First(source) .. Len(source) + 1 /\ first - 1 \in 0 .. Len(source)
    BY <1>2, <1>3, <1>4
  <1>6. Beyond(c, d)
    <2>1. \A b \in Blank : b \notin {34, 123, 91}
      BY DEF Blank
    <2>2. \A k \in pos .. first - 1 : source[k] \notin {34, 123, 91}
      BY <1>4, <2>1
    <2> QED
      BY <1>1, <1>2, <1>4, <2>2, PlainRun DEF Covers
  <1>7. c \in Tally /\ d \in Tally
    BY <1>1, <1>3, <1>5, PrescanUnfold
  <1>8. Covers(d, tokens)
    BY <1>1, <1>2, <1>6, <1>7, CoversBeyond
  <1> QED
    BY <1>1, <1>5, <1>8 DEF first

(* What a token that is read leaves.                                       *)
LEMMA ReadOn ==
  ASSUME LexerInv, NEW end, NEW t, Reads(end, t), doc' = doc, pos' = end, tokens' = Append(tokens, t)
  PROVE  ReadUpTo(doc', pos', tokens')
  <1>1. ReadUpTo(doc, end, Append(tokens, t))
    BY DEF LexerInv, ReadUpTo, Reads, source
  <1> QED
    BY <1>1

(* Before anything is read nothing needs to be counted.                    *)
LEMMA NothingCovers == Covers(Nothing, <<>>)
  <1>1. \A kind : Times(<<>>, kind) = 0
    <2> SUFFICES ASSUME NEW kind PROVE Times(<<>>, kind) = 0
      OBVIOUS
    <2>1. {i \in DOMAIN <<>> : <<>>[i] \in kind} = {}
      OBVIOUS
    <2> QED
      BY <2>1, FS_EmptySet DEF Times
  <1>2. Nothing.values = 0 /\ Nothing.objects = 0 /\ Nothing.arrays = 0 /\ ~ Nothing.in /\ ~ Nothing.escape
    BY Zenon DEF Nothing
  <1> QED
    BY <1>1, <1>2 DEF Covers, Outside

(* lexer_init leaves the invariant true.                                   *)
LEMMA InitiallyRead == ASSUME LexerInit PROVE LexerInv
  <1>1. doc \in Document
    BY DEF LexerInit
  <1>2. doc \in Doc
    BY <1>1, DocumentAssumption DEF Doc
  <1>3. source \in Seq(Byte)
    BY <1>2, Zenon DEF source, Doc
  <1>4. tokens = <<>> /\ pos = First(source)
    BY DEF LexerInit
  <1>5. First(source) \in First(source) .. Len(source) + 1
    BY <1>3 DEF First, Bom
  <1>6. Prescan(source)[First(source) - 1] = Nothing
    BY <1>3, PrescanUnfold
  <1>7. Covers(Nothing, <<>>)
    BY NothingCovers
  <1>8. tokens \in Seq(Token)
    BY <1>4
  <1>9. ReadUpTo(doc, pos, tokens)
    BY <1>2, <1>4, <1>5, <1>6, <1>7, <1>8 DEF ReadUpTo, source
  <1>10. status \in {"lexing", "end", "error"} /\ status # "end"
    BY Zenon DEF LexerInit
  <1> QED
    BY <1>9, <1>10, Zenon DEF LexerInv

(* Anything but an end keeps the invariant when the text was read on.      *)
LEMMA InvNext ==
  ASSUME NEW d, NEW p, NEW ts, NEW s, ReadUpTo(d, p, ts), s \in {"lexing", "error"},
         doc' = d, pos' = p, tokens' = ts, status' = s
  PROVE  LexerInv'
  <1>1. ReadUpTo(doc', pos', tokens')
    BY Zenon
  <1>2. status' \in {"lexing", "end", "error"} /\ status' # "end"
    BY Zenon
  <1> QED
    BY <1>1, <1>2, Zenon DEF LexerInv

(* A token is found.                                                       *)
LEMMA FoundKeeps ==
  ASSUME LexerInv, status = "lexing", NEW type, NEW first, NEW end, Found(type, first, end),
         Reads(end, [type |-> type, bytes |-> SubSeq(source, first, end - 1)])
  PROVE  LexerInv'
  <1> DEFINE t == [type |-> type, bytes |-> SubSeq(source, first, end - 1)]
  <1>1. tokens' = Append(tokens, t) /\ pos' = end /\ doc' = doc /\ status' = status
    BY Zenon DEF Found
  <1>2. Reads(end, t)
    OBVIOUS
  <1> HIDE DEF t
  <1>3. ReadUpTo(doc', pos', tokens')
    BY <1>1, <1>2, ReadOn
  <1>4. status' \in {"lexing", "error"}
    BY <1>1, Zenon
  <1> QED
    BY <1>3, <1>4, InvNext

(* An error keeps the invariant.                                           *)
LEMMA ErrorKeeps ==
  ASSUME LexerInv, LexerError
  PROVE  LexerInv'
  <1>1. doc' = doc /\ pos' = pos /\ tokens' = tokens /\ status' = "error"
    BY Zenon DEF LexerError
  <1>2. ReadUpTo(doc, pos, tokens)
    BY DEF LexerInv
  <1>3. status' \in {"lexing", "error"}
    BY <1>1, Zenon
  <1> QED
    BY <1>1, <1>2, <1>3, InvNext

(* The end of the text keeps it: what is left are blanks.                  *)
LEMMA EndKeeps ==
  ASSUME LexerInv, LexEnd
  PROVE  LexerInv'
  <1>1. doc' = doc /\ pos' = Start(pos) /\ tokens' = tokens /\ status' = "end" /\ Start(pos) > Len(source)
    BY Zenon DEF LexEnd
  <1>2. /\ Start(pos) \in First(source) .. Len(source) + 1
        /\ Covers(Prescan(source)[Start(pos) - 1], tokens)
        /\ source \in Seq(Byte)
    BY AtToken
  <1>3. doc \in Doc /\ tokens \in Seq(Token)
    BY DEF LexerInv, ReadUpTo
  <1>4. ReadUpTo(doc, Start(pos), tokens)
    BY <1>2, <1>3 DEF ReadUpTo, source
  <1>5. Start(pos) = Len(source) + 1
    <2>1. Len(source) \in Nat /\ First(source) \in Nat
      BY <1>2 DEF First
    <2> QED
      BY <1>1, <1>2, <2>1
  <1>6. pos' = Len(doc'.bytes) + 1 /\ ReadUpTo(doc', pos', tokens')
    BY <1>1, <1>4, <1>5, Zenon DEF source
  <1>7. status' \in {"lexing", "end", "error"}
    BY <1>1, Zenon
  <1> QED
    BY <1>6, <1>7, Zenon DEF LexerInv, source

(* Where a token begins, behind blanks.                                    *)
LEMMA FirstFacts ==
  ASSUME LexerInv, Lexing(Start(pos))
  PROVE  /\ status = "lexing"
         /\ source \in Seq(Byte)
         /\ tokens \in Seq(Token)
         /\ Start(pos) \in First(source) .. Len(source)
         /\ Covers(Prescan(source)[Start(pos) - 1], tokens)
  <1>1. status = "lexing" /\ Start(pos) <= Len(source)
    BY Zenon DEF Lexing
  <1>2. Len(source) \in Nat /\ First(source) \in Nat
    BY AtToken DEF First
  <1>3. Start(pos) \in First(source) .. Len(source)
    BY <1>1, <1>2, AtToken
  <1> QED
    BY <1>1, <1>3, AtToken

(* Each kind of token keeps the invariant: a mark, ...                     *)
LEMMA PunctuationKeeps ==
  ASSUME LexerInv, LexPunctuation
  PROVE  LexerInv'
  <1> DEFINE first == Start(pos)
  <1>1. Lexing(first) /\ source[first] \in Punctuation /\ Found("punctuation", first, first + 1)
    BY Zenon DEF LexPunctuation
  <1>2. /\ status = "lexing" /\ source \in Seq(Byte) /\ tokens \in Seq(Token)
        /\ first \in First(source) .. Len(source) /\ Covers(Prescan(source)[first - 1], tokens)
    BY <1>1, FirstFacts
  <1> HIDE DEF first
  <1> DEFINE end == first + 1
  <1>3. end = first + 1 /\ Found("punctuation", first, end)
    BY <1>1, Zenon
  <1> HIDE DEF end
  <1>4. Reads(end, [type |-> "punctuation", bytes |-> SubSeq(source, first, end - 1)])
    BY <1>1, <1>2, <1>3, ReadsMark
  <1> QED
    BY <1>2, <1>3, <1>4, FoundKeeps

(* ... a string, ...                                                       *)
LEMMA StringKeeps ==
  ASSUME LexerInv, LexString
  PROVE  LexerInv'
  <1> DEFINE first == Start(pos)
             end   == StringEnd(first)
             t     == [type |-> "string", bytes |-> SubSeq(source, first + 1, end - 2)]
  <1>1. /\ Lexing(first)
        /\ source[first] = 34
        /\ \/ end = 0 /\ LexerError
           \/ end # 0 /\ tokens' = Append(tokens, t) /\ pos' = end /\ doc' = doc /\ status' = status
    BY Zenon DEF LexString
  <1>2. /\ status = "lexing" /\ source \in Seq(Byte) /\ tokens \in Seq(Token)
        /\ first \in First(source) .. Len(source) /\ Covers(Prescan(source)[first - 1], tokens)
    BY <1>1, FirstFacts
  <1>3. CASE end = 0
    BY <1>1, <1>3, ErrorKeeps
  <1>4. CASE end # 0
    <2>1. Reads(end, t)
      <3> HIDE DEF first
      <3> QED
        BY <1>1, <1>2, <1>4, ReadsString
    <2> HIDE DEF first, end, t
    <2>2. ReadUpTo(doc', pos', tokens')
      BY <1>1, <1>4, <2>1, ReadOn
    <2>3. status' \in {"lexing", "error"}
      BY <1>1, <1>2, <1>4, Zenon
    <2> QED
      BY <2>2, <2>3, InvNext
  <1> QED
    BY <1>3, <1>4

(* ... a number, ...                                                       *)
LEMMA NumberKeeps ==
  ASSUME LexerInv, LexNumber
  PROVE  LexerInv'
  <1> DEFINE first == Start(pos)
             end   == IF source[first] \in {43, 46} THEN 0 ELSE NumberEnd(first)
  <1>1. /\ Lexing(first)
        /\ source[first] \in Digit \cup {45, 43, 46}
        /\ (end = 0 /\ LexerError) \/ (end # 0 /\ Found("number", first, end))
    BY Zenon DEF LexNumber, Scanned
  <1>2. /\ status = "lexing" /\ source \in Seq(Byte) /\ tokens \in Seq(Token)
        /\ first \in First(source) .. Len(source) /\ Covers(Prescan(source)[first - 1], tokens)
    BY <1>1, FirstFacts
  <1>3. CASE end = 0
    BY <1>1, <1>3, ErrorKeeps
  <1>4. CASE end # 0
    <2>1. end = NumberEnd(first) /\ source[first] \in Digit \cup {45}
      <3> HIDE DEF first
      <3> QED
        BY <1>1, <1>4
    <2> HIDE DEF first, end
    <2>2. Reads(end, [type |-> "number", bytes |-> SubSeq(source, first, end - 1)])
      BY <1>2, <1>4, <2>1, ReadsNumber
    <2> QED
      BY <1>1, <1>2, <1>4, <2>2, FoundKeeps
  <1> QED
    BY <1>3, <1>4

(* ... a literal, ...                                                      *)
LEMMA LiteralKeeps ==
  ASSUME LexerInv, LexLiteral
  PROVE  LexerInv'
  <1> DEFINE first == Start(pos)
             Here(l) == IsPrefix(l.bytes, SubSeq(source, first, Len(source)))
  <1>1. /\ Lexing(first)
        /\ source[first] \in {116, 102, 110}
        /\ \/ \E l \in Literal : Here(l) /\ Found(l.type, first, first + Len(l.bytes))
           \/ LexerError
    BY Zenon DEF LexLiteral
  <1>2. /\ status = "lexing" /\ source \in Seq(Byte) /\ tokens \in Seq(Token)
        /\ first \in First(source) .. Len(source) /\ Covers(Prescan(source)[first - 1], tokens)
    BY <1>1, FirstFacts
  <1>3. CASE LexerError
    BY <1>3, ErrorKeeps
  <1>4. ASSUME NEW l \in Literal, Here(l), Found(l.type, first, first + Len(l.bytes))
        PROVE  LexerInv'
    <2> HIDE DEF first
    <2> DEFINE end == first + Len(l.bytes)
    <2>1. end = first + Len(l.bytes) /\ Found(l.type, first, end)
      BY <1>4, Zenon
    <2> HIDE DEF end
    <2>2. Reads(end, [type |-> l.type, bytes |-> SubSeq(source, first, end - 1)])
      BY <1>1, <1>2, <1>4, <2>1, ReadsLiteral
    <2> QED
      BY <1>2, <2>1, <2>2, FoundKeeps
  <1> HIDE DEF first
  <1> QED
    BY <1>1, <1>3, <1>4

(* ... and what is none of them.                                           *)
LEMMA OtherKeeps ==
  ASSUME LexerInv, LexOther
  PROVE  LexerInv'
  BY ErrorKeeps, Zenon DEF LexOther

(* A text that is written from a string is a text, without a byte order    *)
(* mark.                                                                   *)
LEMMA WriteBackKeeps ==
  ASSUME LexerInv, WriteBack
  PROVE  LexerInv'
  <1> DEFINE text == UntilNul(Unescaped(tokens[1].bytes))
             rest == [doc.tokens EXCEPT ![1].bytes = UntilNul(@)]
             d    == [doc EXCEPT !.bytes = Escaped(text), !.tokens[1].bytes = UntilNul(@)]
  <1>1. Len(tokens) = 1 /\ doc' = d /\ pos' = 1 /\ tokens' = <<>> /\ status' = "lexing"
    BY Zenon DEF WriteBack
  <1>2. doc \in Doc /\ tokens \in Seq(Token)
    BY DEF LexerInv, ReadUpTo
  <1>3. text \in Seq(Byte)
    <2>1. tokens[1] \in Token
      BY <1>1, <1>2
    <2>2. tokens[1].bytes \in Seq(Byte)
      BY <2>1, Zenon DEF Token
    <2> QED
      BY <2>2, UnescapingFits, UntilNulFacts
  <1> DEFINE new == Escaped(text)
  <1>4. new \in Seq(Byte) /\ Len(new) >= 1 /\ new[1] = 34
    <2> HIDE DEF text
    <2> QED
      BY <1>3, EscapedFacts
  <1>5. doc.tokens \in Seq(Token) /\ doc.malformed \in BOOLEAN
    BY <1>2, Zenon DEF Doc
  <1>6. rest \in Seq(Token)
    <2> DEFINE old == doc.tokens
    <2> HIDE DEF old
    <2>1. old \in Seq(Token)
      BY <1>5 DEF old
    <2>2. CASE 1 \in DOMAIN old
      <3> DEFINE t == [old[1] EXCEPT !.bytes = UntilNul(@)]
      <3>1. old[1] \in Token
        BY <2>1, <2>2
      <3>2. old[1].bytes \in Seq(Byte)
        BY <3>1, Zenon DEF Token
      <3>3. UntilNul(old[1].bytes) \in Seq(Byte)
        BY <3>2, UntilNulFacts
      <3>4. t \in Token
        BY <3>1, <3>3, Zenon DEF Token
      <3>5. rest = [old EXCEPT ![1] = t]
        BY Zenon DEF old
      <3> HIDE DEF t, rest
      <3>6. [old EXCEPT ![1] = t] \in Seq(Token)
        BY <2>1, <2>2, <3>4
      <3> QED
        BY <3>5, <3>6
    <2>3. CASE 1 \notin DOMAIN old
      <3>1. rest = old
        BY <2>1, <2>3 DEF old
      <3> QED
        BY <2>1, <3>1
    <2> QED
      BY <2>2, <2>3
  <1>7. d \in Doc /\ d.bytes = new
    <2>1. d = [doc EXCEPT !.bytes = new, !.tokens = rest]
      BY <1>2, Zenon DEF Doc
    <2> HIDE DEF new, rest, d
    <2> QED
      BY <1>2, <1>4, <1>6, <2>1, Zenon DEF Doc
  <1> HIDE DEF new, d
  <1>8. First(new) = 1
    <2> SUFFICES ASSUME Bom(new) PROVE FALSE
      BY Zenon DEF First
    <2> DEFINE three == SubSeq(new, 1, 3)
    <2>1. three = <<239, 187, 191>> /\ Len(new) >= 3
      BY DEF Bom
    <2>2. three[1] = 239
      <3> HIDE DEF three
      <3> QED
        BY <2>1
    <2>3. three[1] = new[1]
      <3>1. 1 \in Int /\ 3 \in Int /\ \A i \in 1 .. 3 : new[i] \in Byte
        BY <1>4, <2>1
      <3>2. \A i \in 1 .. 3 - 1 + 1 : three[i] = new[1 + i - 1]
        BY <3>1, SubSeqProperties
      <3> HIDE DEF three
      <3> QED
        BY <3>2
    <2> HIDE DEF three
    <2> QED
      BY <1>4, <2>2, <2>3
  <1>9. Prescan(new)[1 - 1] = Nothing
    BY <1>4, <1>8, PrescanUnfold
  <1>10. <<>> \in Seq(Token) /\ 1 \in 1 .. Len(new) + 1
    BY <1>4
  <1>11. ReadUpTo(d, 1, <<>>)
    BY <1>7, <1>8, <1>9, <1>10, NothingCovers DEF ReadUpTo
  <1>12. status' \in {"lexing", "error"}
    BY <1>1, Zenon
  <1> QED
    BY <1>1, <1>11, <1>12, InvNext

(* In every reachable state of the lexer, for every set of documents.      *)
THEOREM LexerInvariant == LexerSpec => []LexerInv
  <1>1. LexerInit => LexerInv
    BY InitiallyRead
  <1>2. ASSUME LexerInv, [LexerNext]_lexerVars PROVE LexerInv'
    <2>1. CASE UNCHANGED lexerVars
      BY <2>1, <1>2, Zenon DEF lexerVars, LexerInv, source
    <2> QED
      BY <1>2, <2>1, EndKeeps, PunctuationKeeps, StringKeeps, NumberKeeps, LiteralKeeps, OtherKeeps, WriteBackKeeps
         DEF LexerNext
  <1> QED
    BY <1>1, <1>2, PTL DEF LexerSpec

(* prescan closes the strings the lexer closes, finds the same braces and  *)
(* brackets open, and counts at least as many values, in every text the    *)
(* lexer reads to its end: what the arena is sized for is enough           *)
(* (prescan.c against lexer.c).                                            *)
THEOREM PrescanCoversTheText == LexerSpec => []PrescanCovers
  <1>1. ASSUME LexerInv PROVE PrescanCovers
    <2> SUFFICES ASSUME status = "end"
                 PROVE  /\ ~Prescanned.in
                        /\ Prescanned.objects = Cardinality({i \in DOMAIN tokens : tokens[i] = Mark(123)})
                        /\ Prescanned.arrays = Cardinality({i \in DOMAIN tokens : tokens[i] = Mark(91)})
                        /\ Prescanned.values >= Cardinality({i \in DOMAIN tokens : tokens[i].type # "punctuation"})
      BY Zenon DEF PrescanCovers
    <2>1. pos = Len(source) + 1 /\ ReadUpTo(doc, pos, tokens)
      BY <1>1, Zenon DEF LexerInv
    <2>2. source \in Seq(Byte) /\ tokens \in Seq(Token)
      BY <1>1, AtToken
    <2>3. pos - 1 = Len(source)
      BY <2>1, <2>2
    <2>4. Covers(Prescanned, tokens)
      BY <2>1, <2>3 DEF ReadUpTo, Prescanned, source
    <2>5. \A byte : Times(tokens, Open(byte)) = Cardinality({i \in DOMAIN tokens : tokens[i] = Mark(byte)})
      <3> SUFFICES ASSUME NEW byte
                   PROVE  {i \in DOMAIN tokens : tokens[i] \in Open(byte)} = {i \in DOMAIN tokens : tokens[i] = Mark(byte)}
        BY Zenon DEF Times
      <3> QED
        BY Zenon DEF Open
    <2>6. Times(tokens, ValueToken) = Cardinality({i \in DOMAIN tokens : tokens[i].type # "punctuation"})
      <3>1. \A i \in DOMAIN tokens : tokens[i] \in Token
        BY <2>2
      <3>2. {i \in DOMAIN tokens : tokens[i] \in ValueToken} = {i \in DOMAIN tokens : tokens[i].type # "punctuation"}
        BY <3>1, Zenon DEF ValueToken
      <3> QED
        BY <3>2, Zenon DEF Times
    <2>7. /\ ~ Prescanned.in
          /\ Prescanned.objects = Times(tokens, Open(123))
          /\ Prescanned.arrays = Times(tokens, Open(91))
          /\ Prescanned.values >= Times(tokens, ValueToken)
      BY <2>4, Zenon DEF Covers, Outside
    <2>8. /\ Times(tokens, Open(123)) = Cardinality({i \in DOMAIN tokens : tokens[i] = Mark(123)})
          /\ Times(tokens, Open(91)) = Cardinality({i \in DOMAIN tokens : tokens[i] = Mark(91)})
      BY <2>5
    <2> QED
      BY <2>6, <2>7, <2>8
  <1> QED
    BY <1>1, LexerInvariant, PTL

(* No string the lexer reads grows when it is unescaped: the characters    *)
(* fit where the bytes between the quotes were, and the null character     *)
(* behind them where the closing quote was (jsonv_unescape_string).        *)
THEOREM UnescapedStringsFit ==
  LexerSpec => [](\A i \in DOMAIN tokens : Len(Unescaped(tokens[i].bytes)) <= Len(tokens[i].bytes))
  <1>1. ASSUME LexerInv PROVE \A i \in DOMAIN tokens : Len(Unescaped(tokens[i].bytes)) <= Len(tokens[i].bytes)
    <2> SUFFICES ASSUME NEW i \in DOMAIN tokens PROVE Len(Unescaped(tokens[i].bytes)) <= Len(tokens[i].bytes)
      OBVIOUS
    <2>1. tokens[i] \in Token
      BY <1>1, AtToken
    <2>2. tokens[i].bytes \in Seq(Byte)
      BY <2>1, Zenon DEF Token
    <2> QED
      BY <2>2, UnescapingFits
  <1> QED
    BY <1>1, LexerInvariant, PTL
=============================================================================
