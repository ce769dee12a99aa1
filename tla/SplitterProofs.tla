--------------------------- MODULE SplitterProofs ---------------------------
(***************************************************************************)
(* SplitStatements and the server's reading of any text.                   *)
(***************************************************************************)
EXTENDS Splitter, LoopInduction, FiniteSetTheorems

-----------------------------------------------------------------------------
(***************************************************************************)
(* The server's reading of a text.                                         *)
(***************************************************************************)

Quotes == {"'", "\"", "$"}
Marks ==
  [in : {"code", "quote", "comment"}, after : {"code", "line", "block"} \cup Quotes,
   depth : Nat, second : BOOLEAN]

\* A character in code
LEMMA CodeReads ==
  ASSUME NEW t, NEW i, NEW dollar \in BOOLEAN
  PROVE  /\ t[i] = "'" => ReadsCode(t, i, dollar) = Is("quote", "'", 0, FALSE)
         /\ t[i] = "\"" => ReadsCode(t, i, dollar) = Is("quote", "\"", 0, FALSE)
         /\ Two(t, i, "-", "-") => ReadsCode(t, i, dollar) = Is("comment", "line", 0, TRUE)
         /\ Two(t, i, "/", "*") => ReadsCode(t, i, dollar) = Is("comment", "block", 1, TRUE)
         /\ Two(t, i, "$", "$") /\ dollar => ReadsCode(t, i, dollar) = Is("quote", "$", 0, TRUE)
         /\ t[i] # "'" /\ t[i] # "\"" /\ ~Two(t, i, "-", "-") /\ ~Two(t, i, "/", "*")
              /\ ~(Two(t, i, "$", "$") /\ dollar) =>
              ReadsCode(t, i, dollar) = Is("code", "code", 0, FALSE)
<1>1. t[i] = "'" => ReadsCode(t, i, dollar) = Is("quote", "'", 0, FALSE)
  BY DEF ReadsCode, Two
<1>2. t[i] = "\"" => ReadsCode(t, i, dollar) = Is("quote", "\"", 0, FALSE)
  BY DEF ReadsCode, Two
<1>3. Two(t, i, "-", "-") => ReadsCode(t, i, dollar) = Is("comment", "line", 0, TRUE)
  BY DEF ReadsCode, Two
<1>4. Two(t, i, "/", "*") => ReadsCode(t, i, dollar) = Is("comment", "block", 1, TRUE)
  BY DEF ReadsCode, Two
<1>5. Two(t, i, "$", "$") /\ dollar => ReadsCode(t, i, dollar) = Is("quote", "$", 0, TRUE)
  BY DEF ReadsCode, Two
<1>6. ASSUME t[i] # "'", t[i] # "\"", ~Two(t, i, "-", "-"), ~Two(t, i, "/", "*"),
             ~(Two(t, i, "$", "$") /\ dollar)
      PROVE  ReadsCode(t, i, dollar) = Is("code", "code", 0, FALSE)
  BY <1>6, Zenon DEF ReadsCode
<1>7. QED
  BY <1>1, <1>2, <1>3, <1>4, <1>5, <1>6

\* What the server makes of a character is a mark.
LEMMA ReadsTyped ==
  ASSUME NEW t, NEW i, NEW m \in Marks
  PROVE  Reads(t, i, m) \in Marks
<1>1. ASSUME NEW x \in {"code", "quote", "comment"},
             NEW y \in {"code", "line", "block"} \cup Quotes, NEW d \in Nat, NEW b \in BOOLEAN
      PROVE  Is(x, y, d, b) \in Marks
  BY DEF Is, Marks
<1>2. \A dollar \in BOOLEAN : ReadsCode(t, i, dollar) \in Marks
  BY <1>1, CodeReads DEF Quotes
<1>3. ASSUME NEW d \in Nat
      PROVE  ReadsBlock(t, i, d) \in Marks
  <2>1. /\ Is("comment", "block", d + 1, TRUE) \in Marks
        /\ Is("comment", "block", d, FALSE) \in Marks
        /\ Is("comment", "code", 0, TRUE) \in Marks
        /\ d > 1 => Is("comment", "block", d - 1, TRUE) \in Marks
    BY DEF Is, Marks
  <2>2. QED
    BY <2>1 DEF ReadsBlock
<1>4. CASE m.second
  BY <1>4 DEF Reads, Marks
<1>5. CASE ~m.second
  <2>1. m.after \in {"code", "line", "block"} \cup Quotes /\ m.depth \in Nat
    BY DEF Marks
  <2>2. QED
    BY <1>1, <1>2, <1>3, <1>5, <2>1 DEF Reads, Quotes
<1>6. QED
  BY <1>4, <1>5

\* The server's reading exists, and goes on from each character to the next.
LEMMA ReadingGoes ==
  ASSUME NEW t \in Seq(Chars)
  PROVE  /\ Reading(t) \in [0..Len(t) -> Marks]
         /\ Reading(t)[0] = Is("code", "code", 0, FALSE)
         /\ \A i \in 1..Len(t) : Reading(t)[i] = Reads(t, i, Reading(t)[i - 1])
<1> DEFINE N == Len(t)
           e == Is("code", "code", 0, FALSE)
           next == [mi \in Marks \X (1..N) |-> Reads(t, mi[2], mi[1])]
           Def(f, i) == IF i = 0 THEN e ELSE Reads(t, i, f[i - 1])
<1>1. e \in Marks
  BY DEF Is, Marks
<1>2. next \in [Marks \X (1..N) -> Marks]
  <2>1. ASSUME NEW mi \in Marks \X (1..N)
        PROVE  Reads(t, mi[2], mi[1]) \in Marks
    BY ReadsTyped
  <2>2. QED
    BY <2>1
<1>3. PICK f : IsRun(f, N, Marks, e, next)
  <2>1. IsLoop(N, Marks, e, next)
    <3> HIDE DEF next, e
    <3> QED
      BY <1>1, <1>2 DEF IsLoop
  <2> HIDE DEF N, next, e
  <2>2. QED
    BY <2>1, LoopStates
<1>4. f \in [0..N -> Marks] /\ f[0] = e /\ \A i \in 1..N : f[i] = Reads(t, i, f[i - 1])
  <2> HIDE DEF e
  <2> QED
    BY <1>3 DEF IsRun
<1>5. f = [i \in 0..N |-> Def(f, i)]
  <2> HIDE DEF e
  <2>1. \A i \in 0..N : f[i] = Def(f, i)
    BY <1>4
  <2> HIDE DEF Def
  <2>2. QED
    BY <1>4, <2>1
<1> DEFINE g == CHOOSE h : h = [i \in 0..N |-> Def(h, i)]
<1>6. g = [i \in 0..N |-> Def(g, i)]
  <2> HIDE DEF Def
  <2>1. QED
    BY <1>5
<1>7. Reading(t) = g
  BY DEF Reading
<1>8. g[0] = e /\ \A i \in 1..N : g[i] = Reads(t, i, g[i - 1])
  <2> HIDE DEF g, e
  <2> QED
    BY <1>6
<1> HIDE DEF g, e
<1>9. \A i \in 0..N : g[i] \in Marks
  <2> DEFINE S == {i \in 0..N : g[i] \in Marks}
  <2>1. 0 \in S
    BY <1>1, <1>8
  <2>2. ASSUME NEW i \in 1..N, i - 1 \in S
        PROVE  i \in S
    <3>1. g[i] = Reads(t, i, g[i - 1]) /\ g[i - 1] \in Marks
      BY <1>8, <2>2
    <3>2. g[i] \in Marks
      BY <3>1, ReadsTyped
    <3>3. QED
      BY <3>2
  <2>3. N \in Nat
    OBVIOUS
  <2>4. 0..N \subseteq S
    <3> HIDE DEF S, N
    <3> QED
      BY <2>1, <2>2, <2>3, LoopInvariant
  <2>5. QED
    BY <2>4
<1>10. QED
  BY <1>6, <1>7, <1>8, <1>9 DEF e

\* What a reading says of itself: where the second character of a pair is due, that
\* quotes and comments are in what they are, and that a line comment ends with its line.
ReadWell(t, m, i) ==
  /\ m.after \in Quotes => m.in = "quote"
  /\ m.after \in {"line", "block"} => m.in = "comment"
  /\ m.after = "block" => m.depth > 0
  /\ m.second => m.in # "code" /\ i < Len(t) /\ t[i + 1] \in {"-", "*", "/", "$"}
  /\ m.second /\ m.in = "quote" => t[i + 1] = "$"
  /\ i > 0 /\ t[i] = Newline => m.after # "line"

\* Every mark of a reading is a sensible one.
LEMMA ReadingIsWell ==
  ASSUME NEW t \in Seq(Chars)
  PROVE  \A i \in 0..Len(t) : ReadWell(t, Reading(t)[i], i)
<1> DEFINE N == Len(t)
           r == Reading(t)
           S == {i \in 0..N : ReadWell(t, r[i], i)}
<1>1. 0 \in S
  <2>1. r[0] = Is("code", "code", 0, FALSE)
    BY ReadingGoes
  <2>2. N \in Nat
    OBVIOUS
  <2> HIDE DEF r, N
  <2>3. ReadWell(t, r[0], 0)
    BY <2>1 DEF ReadWell, Is, Quotes
  <2>4. QED
    BY <2>2, <2>3
<1>2. ASSUME NEW i \in 1..N, i - 1 \in S
      PROVE  i \in S
  <2> DEFINE m == r[i - 1]
  <2>1. m \in Marks /\ r[i] = Reads(t, i, m) /\ i \in Nat /\ N \in Nat
    <3>1. i - 1 \in 0..N /\ i \in Nat /\ N \in Nat
      OBVIOUS
    <3>2. r \in [0..N -> Marks] /\ r[i] = Reads(t, i, r[i - 1])
      BY ReadingGoes
    <3> HIDE DEF r, N
    <3>3. QED
      BY <3>1, <3>2
  <2>12. ReadWell(t, m, i - 1) /\ (i - 1) + 1 = i
    BY <1>2
  <2> SUFFICES ReadWell(t, r[i], i)
    OBVIOUS
  <2> HIDE DEF m, r
  <2>2. ASSUME NEW dollar \in BOOLEAN
        PROVE  ReadWell(t, ReadsCode(t, i, dollar), i)
    <3>1. CASE t[i] = "'"
      <4>1. ReadsCode(t, i, dollar) = Is("quote", "'", 0, FALSE)
        BY <3>1, CodeReads
      <4>2. ReadWell(t, Is("quote", "'", 0, FALSE), i)
        BY <2>1, <3>1 DEF ReadWell, Is, Quotes, Newline
      <4>3. QED
        BY <4>1, <4>2
    <3>2. CASE t[i] = "\""
      <4>1. ReadsCode(t, i, dollar) = Is("quote", "\"", 0, FALSE)
        BY <3>2, CodeReads
      <4>2. ReadWell(t, Is("quote", "\"", 0, FALSE), i)
        BY <2>1, <3>2 DEF ReadWell, Is, Quotes, Newline
      <4>3. QED
        BY <4>1, <4>2
    <3>3. CASE Two(t, i, "-", "-")
      <4>1. ReadsCode(t, i, dollar) = Is("comment", "line", 0, TRUE)
        BY <3>3, CodeReads
      <4>2. ReadWell(t, Is("comment", "line", 0, TRUE), i)
        BY <2>1, <3>3 DEF ReadWell, Is, Quotes, Two, Newline
      <4>3. QED
        BY <4>1, <4>2
    <3>4. CASE Two(t, i, "/", "*")
      <4>1. ReadsCode(t, i, dollar) = Is("comment", "block", 1, TRUE)
        BY <3>4, CodeReads
      <4>2. ReadWell(t, Is("comment", "block", 1, TRUE), i)
        BY <2>1, <3>4 DEF ReadWell, Is, Quotes, Two, Newline
      <4>3. QED
        BY <4>1, <4>2
    <3>5. CASE Two(t, i, "$", "$") /\ dollar
      <4>1. ReadsCode(t, i, dollar) = Is("quote", "$", 0, TRUE)
        BY <3>5, CodeReads
      <4>2. ReadWell(t, Is("quote", "$", 0, TRUE), i)
        BY <2>1, <3>5 DEF ReadWell, Is, Quotes, Two, Newline
      <4>3. QED
        BY <4>1, <4>2
    <3>6. CASE ReadsCode(t, i, dollar) = Is("code", "code", 0, FALSE)
      BY <3>6 DEF ReadWell, Is, Quotes
    <3>7. QED
      BY <3>1, <3>2, <3>3, <3>4, <3>5, <3>6, CodeReads, Zenon
  <2>3. ASSUME NEW d \in Nat, d > 0
        PROVE  ReadWell(t, ReadsBlock(t, i, d), i)
    BY <2>3 DEF ReadWell, ReadsBlock, Is, Quotes, Two, Newline
  <2>4. CASE m.second
    <3>1. t[i] # Newline
      BY <2>1, <2>12, <2>4 DEF ReadWell, Newline
    <3>2. QED
      BY <2>1, <2>12, <2>4, <3>1 DEF ReadWell, Reads, Marks
  <2>5. CASE ~m.second /\ m.after = "code"
    BY <2>1, <2>2, <2>5 DEF Reads
  <2>6. CASE ~m.second /\ m.after = "block"
    <3>1. m.depth \in Nat /\ m.depth > 0
      BY <2>1, <2>12, <2>6 DEF ReadWell, Marks
    <3>2. QED
      BY <2>1, <2>3, <2>6, <3>1 DEF Reads
  <2>7. CASE ~m.second /\ m.after = "line"
    <3>1. CASE t[i] = Newline
      <4>1. r[i] = Is("comment", "code", 0, FALSE)
        BY <2>1, <2>7, <3>1 DEF Reads
      <4>2. QED
        BY <4>1 DEF ReadWell, Is, Quotes
    <3>2. CASE t[i] # Newline
      <4>1. r[i] = Is("comment", "line", 0, FALSE)
        BY <2>1, <2>7, <3>2 DEF Reads
      <4>2. QED
        BY <3>2, <4>1 DEF ReadWell, Is, Quotes
    <3>3. QED
      BY <3>1, <3>2
  <2>8. CASE ~m.second /\ m.after = "$"
    BY <2>1, <2>12, <2>8 DEF ReadWell, Reads, Is, Quotes, Two, Newline
  <2>9. CASE ~m.second /\ m.after \in {"'", "\""}
    <3>1. r[i] = Is("quote", "code", 0, FALSE) \/ r[i] = Is("quote", m.after, 0, FALSE)
      BY <2>1, <2>9 DEF Reads
    <3>2. ASSUME NEW q \in {"code", "'", "\""}
          PROVE  ReadWell(t, Is("quote", q, 0, FALSE), i)
      BY DEF ReadWell, Is, Quotes
    <3>3. QED
      BY <2>9, <3>1, <3>2
  <2>10. m.after \in {"code", "line", "block", "'", "\"", "$"}
    BY <2>1 DEF Marks, Quotes
  <2>11. QED
    BY <2>1, <2>4, <2>5, <2>6, <2>7, <2>8, <2>9, <2>10
<1>3. 0..N \subseteq S
  <2>1. N \in Nat
    OBVIOUS
  <2> HIDE DEF S, N
  <2> QED
    BY <1>1, <1>2, <2>1, LoopInvariant
<1>4. QED
  BY <1>3

-----------------------------------------------------------------------------
(***************************************************************************)
(* Positions: the least and the greatest of a set, and what TrimSpace      *)
(* leaves of a sequence of them.                                           *)
(***************************************************************************)

\* A set of numbers that is not empty has a least one.
LEMMA MinOf ==
  ASSUME NEW S \in SUBSET Nat, S # {}
  PROVE  Min(S) \in S /\ \A y \in S : Min(S) <= y
<1>1. PICK x \in S : \A y \in S : ~(<<y, x>> \in OpToRel(<, Nat))
  <2>1. IsWellFoundedOn(OpToRel(<, Nat), Nat)
    BY NatLessThanWellFounded
  <2>2. QED
    BY <2>1, WFMin
<1>2. ASSUME NEW y \in S
      PROVE  x <= y
  <2>1. x \in Nat /\ y \in Nat
    OBVIOUS
  <2>2. y < x => <<y, x>> \in OpToRel(<, Nat)
    BY <2>1 DEF OpToRel
  <2>3. ~(y < x)
    BY <1>1, <2>2
  <2>4. QED
    BY <2>1, <2>3
<1>3. QED
  BY <1>2 DEF Min

\* ... and a greatest, if it is bounded.
LEMMA MaxOf ==
  ASSUME NEW N \in Nat, NEW S \in SUBSET (0..N), S # {}
  PROVE  Max(S) \in S /\ \A y \in S : y <= Max(S)
<1> DEFINE D == {d \in Nat : N - d \in S}
<1>1. D # {}
  <2>1. PICK x \in S : TRUE
    OBVIOUS
  <2>2. N - x \in D
    OBVIOUS
  <2>3. QED
    BY <2>2
<1>2. PICK d \in D : \A e \in D : d <= e
  <2>1. D \in SUBSET Nat
    OBVIOUS
  <2> HIDE DEF D
  <2>2. Min(D) \in D /\ \A e \in D : Min(D) <= e
    BY <1>1, <2>1, MinOf
  <2>3. QED
    BY <2>2
<1>3. ASSUME NEW y \in S
      PROVE  y <= N - d
  <2>1. N - y \in D
    OBVIOUS
  <2>2. QED
    BY <1>2, <2>1
<1>4. N - d \in S
  OBVIOUS
<1>5. QED
  BY <1>3, <1>4 DEF Max

Increasing(q) == \A m, n \in 1..Len(q) : m < n => q[m] < q[n]

\* There is something to see at the position.
Ink(t, x) == x <= Len(t) /\ t[x] \notin Blanks

\* TrimSpace of positions in order leaves positions in order, all between two that
\* have ink, and no gaps of its own.
LEMMA TrimmedPositions ==
  ASSUME NEW t, NEW q \in Seq(Nat), Increasing(q)
  PROVE  /\ Trimmed(t, q) \in Seq(Nat)
         /\ Increasing(Trimmed(t, q))
         /\ ToSet(Trimmed(t, q)) \subseteq ToSet(q)
         /\ \A x, y, z \in ToSet(q) :
              y <= x /\ x <= z /\ Ink(t, y) /\ Ink(t, z) => x \in ToSet(Trimmed(t, q))
         /\ \A x \in ToSet(q), y, z \in ToSet(Trimmed(t, q)) :
              y <= x /\ x <= z => x \in ToSet(Trimmed(t, q))
<1> DEFINE inked == {k \in 1..Len(q) : Ink(t, q[k])}
           T == Trimmed(t, q)
<1>1. T = IF inked = {} THEN <<>> ELSE SubSeq(q, Min(inked), Max(inked))
  <2>1. inked = {k \in DOMAIN q : q[k] <= Len(t) /\ t[q[k]] \notin Blanks}
    BY DEF Ink
  <2>2. QED
    BY <2>1 DEF Trimmed
<1>2. \A x : x \in ToSet(q) <=> \E k \in 1..Len(q) : x = q[k]
  BY DEF ToSet
<1>3. \A j, k \in 1..Len(q) : q[j] <= q[k] => j <= k
  BY DEF Increasing
<1>4. CASE inked = {}
  <2>1. T = <<>>
    BY <1>1, <1>4
  <2>2. ToSet(T) = {} /\ Increasing(T) /\ T \in Seq(Nat)
    BY <2>1 DEF ToSet, Increasing
  <2>3. \A y \in ToSet(q) : ~Ink(t, y)
    BY <1>2, <1>4
  <2> HIDE DEF T, inked
  <2>4. QED
    BY <2>2, <2>3 DEF T
<1>5. CASE inked # {}
  <2> DEFINE lo == Min(inked)
             hi == Max(inked)
  <2>1. lo \in inked /\ \A k \in inked : lo <= k
    <3>1. inked \in SUBSET Nat
      OBVIOUS
    <3> HIDE DEF inked
    <3>2. QED
      BY <1>5, <3>1, MinOf
  <2>2. hi \in inked /\ \A k \in inked : k <= hi
    <3>1. inked \in SUBSET (0..Len(q)) /\ Len(q) \in Nat
      OBVIOUS
    <3> HIDE DEF inked
    <3>2. QED
      BY <1>5, <3>1, MaxOf
  <2>3. lo \in 1..Len(q) /\ hi \in 1..Len(q) /\ lo <= hi
    BY <2>1, <2>2
  <2>4. T = SubSeq(q, lo, hi)
    BY <1>1, <1>5
  <2>5. \A k \in 1..Len(q) : Ink(t, q[k]) => lo <= k /\ k <= hi
    BY <2>1, <2>2
  <2> HIDE DEF T, lo, hi, inked
  <2>6. /\ T \in Seq(Nat) /\ Len(T) = hi - lo + 1
        /\ \A k \in 1..hi - lo + 1 : T[k] = q[lo + k - 1]
    BY <2>3, <2>4
  <2>7. \A x : x \in ToSet(T) <=> \E k \in lo..hi : x = q[k]
    <3>1. \A x : x \in ToSet(T) <=> \E k \in 1..hi - lo + 1 : x = T[k]
      <4>1. DOMAIN T = 1..hi - lo + 1
        BY <2>6
      <4>2. QED
        BY <4>1 DEF ToSet
    <3>2. ASSUME NEW k \in 1..hi - lo + 1
          PROVE  lo + k - 1 \in lo..hi /\ T[k] = q[lo + k - 1]
      BY <2>3, <2>6
    <3>3. ASSUME NEW k \in lo..hi
          PROVE  \E j \in 1..hi - lo + 1 : T[j] = q[k]
      <4>1. k - lo + 1 \in 1..hi - lo + 1 /\ lo + (k - lo + 1) - 1 = k
        BY <2>3
      <4>2. T[k - lo + 1] = q[lo + (k - lo + 1) - 1]
        BY <2>6, <4>1
      <4>3. QED
        BY <4>1, <4>2
    <3>4. ASSUME NEW x
          PROVE  (\E k \in 1..hi - lo + 1 : x = T[k]) <=> (\E k \in lo..hi : x = q[k])
      BY <3>2, <3>3
    <3>5. QED
      BY <3>1, <3>4, Zenon
  <2>8. Increasing(T)
    <3>1. ASSUME NEW m \in 1..Len(T), NEW n \in 1..Len(T), m < n
          PROVE  T[m] < T[n]
      <4>1. lo + m - 1 \in 1..Len(q) /\ lo + n - 1 \in 1..Len(q) /\ lo + m - 1 < lo + n - 1
        <5>1. m \in 1..hi - lo + 1 /\ n \in 1..hi - lo + 1 /\ Len(q) \in Nat
          BY <2>6
        <5> HIDE DEF Increasing
        <5>2. QED
          BY <2>3, <3>1, <5>1
      <4>2. q[lo + m - 1] < q[lo + n - 1]
        BY <4>1 DEF Increasing
      <4>3. QED
        BY <2>6, <4>2
    <3>2. QED
      BY <3>1 DEF Increasing
  <2>9. ToSet(T) \subseteq ToSet(q)
    BY <1>2, <2>3, <2>7
  <2>10. ASSUME NEW x \in ToSet(q), NEW y \in ToSet(q), NEW z \in ToSet(q),
                y <= x, x <= z, Ink(t, y), Ink(t, z)
         PROVE  x \in ToSet(T)
    <3>1. PICK k \in 1..Len(q), l \in 1..Len(q), m \in 1..Len(q) : x = q[k] /\ y = q[l] /\ z = q[m]
      BY <1>2
    <3>2. lo <= l /\ l <= k /\ k <= m /\ m <= hi
      BY <1>3, <2>5, <2>10, <3>1
    <3>3. k \in lo..hi
      BY <2>3, <3>2
    <3>4. QED
      BY <2>7, <3>1, <3>3
  <2>11. ASSUME NEW x \in ToSet(q), NEW y \in ToSet(T), NEW z \in ToSet(T), y <= x, x <= z
         PROVE  x \in ToSet(T)
    <3>1. PICK k \in 1..Len(q), l \in lo..hi, m \in lo..hi : x = q[k] /\ y = q[l] /\ z = q[m]
      BY <1>2, <2>7
    <3>2. l <= k /\ k <= m
      BY SMTT(30), <1>3, <2>3, <2>11, <3>1
    <3>3. k \in lo..hi
      BY <2>3, <3>2
    <3>4. QED
      BY <2>7, <3>1, <3>3
  <2>12. QED
    BY <2>6, <2>8, <2>9, <2>10, <2>11 DEF T
<1>6. QED
  BY <1>4, <1>5

-----------------------------------------------------------------------------
(***************************************************************************)
(* The invariant of the lexer.                                             *)
(***************************************************************************)

Marked == Reading(text)
Solids == Solid(text, Marked)
Cuts == Ends(text, Marked)
Whole == text \in Seq(Chars) /\ Plain(text, Marked)

States ==
  [single : BOOLEAN, double : BOOLEAN, block : BOOLEAN, code : BOOLEAN, start : Nat,
   sql : Seq(Nat), stmts : Seq([sql : Seq(Nat), line : Nat]), next : Nat]

\* Position i comes after every end that is before b.
Since(i, b) == \A e \in Cuts : e < b => e < i

\* The solid positions before p of the statement that is open at b
SolidIn(b, p) == {i \in Solids : i < p /\ Since(i, b)}

\* currentSQL has positions of the open statement, from the first solid one all.
SqlInv(q, b, p) ==
  /\ Increasing(q)
  /\ \A x \in ToSet(q) : x \in 1..p - 1 /\ Since(x, b)
  /\ \A i \in SolidIn(b, p) : i..p - 1 \subseteq ToSet(q)

\* A blank in a quote has the quote's marks around it, if it is closed: TrimSpace
\* does not get at it.
OpenQuote(p) == p - 1 <= Len(text) /\ Marked[p - 1].after \in Quotes
InkInv(b, p) ==
  /\ \A i \in SolidIn(b, p) : \E j \in SolidIn(b, p) : j <= i /\ Ink(text, j)
  /\ ~OpenQuote(p) => \A i \in SolidIn(b, p) : \E j \in SolidIn(b, p) : i <= j /\ Ink(text, j)

First(i, T) == i \in T /\ \A j \in T : i <= j

\* One statement, and all of them, that are made of the positions in D.
StmtInv(stmt, D) ==
  LET of == ToSet(stmt.sql)
  IN  /\ Increasing(stmt.sql) /\ of \subseteq D
      /\ \A i, j \in of : ~EndsBetween(text, Marked, i, j)
      /\ \A i \in of \cap Solids, j \in of : i..j \subseteq of
      /\ \A i \in of \cap Solids : First(i, of \cap Solids) => stmt.line = LineOf(text, i)

StmtsInv(stmts, D) ==
  /\ \A k \in 1..Len(stmts) : StmtInv(stmts[k], D)
  /\ \A k, l \in 1..Len(stmts) : k < l =>
       \A i \in ToSet(stmts[k].sql), j \in ToSet(stmts[l].sql) :
         i < j /\ EndsBetween(text, Marked, i, j)
  /\ \A i \in Solids \cap D : \E k \in 1..Len(stmts) : i \in ToSet(stmts[k].sql)

\* The positions of statements that have ended before b.
Done(b) == {i \in 1..b - 1 : ~Since(i, b)}

\* The lexer's flags are what the server has read.
FlagsInv(s, p) ==
  p <= Len(text) + 1 =>
    LET m == Marked[p - 1]
    IN  /\ s.single <=> m.after = "'"
        /\ s.double <=> m.after = "\""
        /\ s.block <=> m.after = "block"
        /\ m.second => m.in = "quote"
        /\ m.after = "line" => p = Len(text) + 1 \/ text[p] = Newline

StartInv(start, b, p) == \A i \in SolidIn(b, p) : First(i, SolidIn(b, p)) => start = LineOf(text, i)

LexerInv(s) ==
  LET p == s.next
  IN  /\ s \in States /\ p \in 1..Len(text) + 2
      /\ FlagsInv(s, p)
      /\ SqlInv(s.sql, p, p) /\ InkInv(p, p)
      /\ s.code <=> SolidIn(p, p) # {}
      /\ StartInv(s.start, p, p)
      /\ StmtsInv(s.stmts, Done(p))

\* ... on a line: the statement that starts here has its number.
LineInv(s, line, lineNo) ==
  s.code \/ s.start = lineNo \/ BlankBetween(text, s.next, line.last)

-----------------------------------------------------------------------------
(***************************************************************************)
(* What is taken into currentSQL.                                          *)
(***************************************************************************)

Run(p, n) == [k \in 1..n |-> p + k - 1]

\* What a turn writes to currentSQL goes behind what is there.
LEMMA RunAppended ==
  ASSUME NEW q \in Seq(Nat), NEW p \in Nat, NEW n \in Nat,
         Increasing(q), \A x \in ToSet(q) : x < p
  PROVE  /\ q \o Run(p, n) \in Seq(Nat) /\ Increasing(q \o Run(p, n))
         /\ ToSet(q \o Run(p, n)) = ToSet(q) \cup (p..p + n - 1)
<1> DEFINE r == Run(p, n)
           w == q \o r
           L == Len(q)
<1>1. r \in Seq(Nat) /\ Len(r) = n /\ \A k \in 1..n : r[k] = p + k - 1
  BY DEF Run
<1>2. /\ L \in Nat /\ w \in Seq(Nat) /\ Len(w) = L + n
      /\ \A k \in 1..L + n : w[k] = IF k <= L THEN q[k] ELSE r[k - L]
  <2> HIDE DEF r
  <2>1. r \in Seq(Nat) /\ Len(r) = n /\ L \in Nat
    BY <1>1
  <2>2. w \in Seq(Nat) /\ Len(w) = L + n
    BY <2>1
  <2>3. ASSUME NEW k \in 1..L + n
        PROVE  w[k] = IF k <= L THEN q[k] ELSE r[k - L]
    BY <2>1
  <2>4. QED
    BY <2>1, <2>2, <2>3
<1>3. \A k \in 1..L : w[k] = q[k] /\ q[k] \in ToSet(q)
  <2>1. \A k \in 1..L : k \in 1..L + n /\ k <= L
    BY <1>2
  <2>2. \A k \in 1..L : q[k] \in ToSet(q)
    BY DEF ToSet
  <2> HIDE DEF w, r, L
  <2>3. QED
    BY <1>2, <2>1, <2>2
<1>4. \A k \in L + 1..L + n : w[k] = p + (k - L) - 1
  <2>1. \A k \in L + 1..L + n : k \in 1..L + n /\ ~(k <= L) /\ k - L \in 1..n
    BY <1>2
  <2> HIDE DEF w, r, L
  <2>2. QED
    BY <1>1, <1>2, <2>1
<1> HIDE DEF w, r
<1>5. Increasing(w)
  <2>1. ASSUME NEW k \in 1..L + n, NEW m \in 1..L + n, k < m
        PROVE  w[k] < w[m]
    <3>1. CASE m <= L
      <4>1. k \in 1..L /\ m \in 1..L
        BY <1>2, <2>1, <3>1
      <4>2. QED
        BY <1>3, <2>1, <4>1 DEF Increasing
    <3>2. CASE k <= L /\ m > L
      <4>1. k \in 1..L /\ m \in L + 1..L + n
        BY <1>2, <2>1, <3>2
      <4>2. w[k] < p /\ w[k] \in Nat /\ w[m] = p + (m - L) - 1 /\ m - L > 0
        <5>1. w[k] = q[k] /\ q[k] < p /\ q[k] \in Nat
          BY <1>3, <4>1
        <5>2. QED
          BY SMTT(30), <1>2, <1>4, <4>1, <5>1
      <4>3. QED
        BY <1>2, <4>1, <4>2
    <3>3. CASE k > L
      <4>1. k \in L + 1..L + n /\ m \in L + 1..L + n
        BY <1>2, <2>1, <3>3
      <4> HIDE DEF L
      <4>2. QED
        BY <1>2, <1>4, <2>1, <4>1
    <3>4. QED
      BY <1>2, <3>1, <3>2, <3>3
  <2>2. QED
    BY <1>2, <2>1 DEF Increasing
<1>6. ASSUME NEW x
      PROVE  x \in ToSet(w) <=> x \in ToSet(q) \/ x \in p..p + n - 1
  <2>1. x \in ToSet(w) <=> \E k \in 1..L + n : x = w[k]
    <3>1. DOMAIN w = 1..L + n
      BY <1>2
    <3>2. QED
      BY <3>1 DEF ToSet
  <2>2. x \in ToSet(q) <=> \E k \in 1..L : x = q[k]
    BY DEF ToSet
  <2>3. (\E k \in 1..L : x = w[k]) <=> x \in ToSet(q)
    BY <1>3, <2>2
  <2>4. (\E k \in L + 1..L + n : x = w[k]) <=> x \in p..p + n - 1
    <3>1. ASSUME NEW k \in L + 1..L + n, x = w[k]
          PROVE  x \in p..p + n - 1
      BY <1>2, <1>4, <3>1
    <3>2. ASSUME x \in p..p + n - 1
          PROVE  \E k \in L + 1..L + n : x = w[k]
      <4>1. L + (x - p) + 1 \in L + 1..L + n /\ p + ((L + (x - p) + 1) - L) - 1 = x
        BY <1>2, <3>2
      <4>2. QED
        BY <1>4, <4>1
    <3>3. QED
      BY <3>1, <3>2
  <2>5. 1..L + n = (1..L) \cup (L + 1..L + n)
    BY <1>2
  <2>6. QED
    BY <2>1, <2>3, <2>4, <2>5
<1>7. ToSet(w) = ToSet(q) \cup (p..p + n - 1)
  BY <1>6
<1>8. QED
  BY <1>2, <1>5, <1>7 DEF w, r

\* What means something and what ends a statement are positions of the text.
LEMMA PositionsTyped ==
  ASSUME text \in Seq(Chars)
  PROVE  Solids \in SUBSET (1..Len(text)) /\ Cuts \in SUBSET (1..Len(text))
<1>1. DOMAIN text = 1..Len(text)
  OBVIOUS
<1>2. QED
  BY <1>1 DEF Solids, Cuts, Solid, Ends

\* Between two ends nothing changes but that there is more of the open statement.
LEMMA SinceMoves ==
  ASSUME text \in Seq(Chars), NEW p \in Nat \ {0}, NEW r \in Nat, p <= r,
         \A j \in p..r - 1 : j \notin Cuts
  PROVE  /\ \A i : Since(i, r) <=> Since(i, p)
         /\ Done(r) = Done(p)
         /\ SolidIn(r, r) = SolidIn(p, p) \cup {j \in Solids : p <= j /\ j < r}
<1>1. \A e \in Cuts : e \in Nat /\ (e < r <=> e < p)
  BY PositionsTyped
<1>2. \A i : Since(i, r) <=> Since(i, p)
  BY <1>1 DEF Since
<1>3. \A i \in Nat : i >= p => Since(i, p)
  BY <1>1 DEF Since
<1>4. ASSUME NEW i
      PROVE  i \in Done(r) <=> i \in Done(p)
  BY <1>2, <1>3 DEF Done
<1>5. ASSUME NEW i
      PROVE  i \in SolidIn(r, r) <=> i \in SolidIn(p, p) \/ (i \in Solids /\ p <= i /\ i < r)
  <2>1. i \in Solids => i \in Nat
    BY PositionsTyped
  <2>2. QED
    BY <1>2, <1>3, <2>1 DEF SolidIn
<1>6. QED
  BY <1>2, <1>4, <1>5

\* Writing all positions from p up to r keeps SqlInv, if no statement ends between.
LEMMA SqlTake ==
  ASSUME Whole, NEW q \in Seq(Nat), NEW p \in Nat \ {0}, NEW r \in Nat, p <= r, SqlInv(q, p, p)
  PROVE  q \o Run(p, r - p) \in Seq(Nat) /\ SqlInv(q \o Run(p, r - p), p, r)
<1> DEFINE w == q \o Run(p, r - p)
<1>1. /\ w \in Seq(Nat) /\ Increasing(w)
      /\ ToSet(w) = ToSet(q) \cup (p..r - 1)
  <2>1. Increasing(q) /\ \A x \in ToSet(q) : x < p
    BY DEF SqlInv
  <2>2. p \in Nat /\ r - p \in Nat /\ p + (r - p) = r
    OBVIOUS
  <2>3. /\ w \in Seq(Nat) /\ Increasing(w)
        /\ ToSet(w) = ToSet(q) \cup (p..p + (r - p) - 1)
    BY <2>1, <2>2, RunAppended
  <2> HIDE DEF w
  <2>4. QED
    BY <2>2, <2>3
<1> HIDE DEF w
<1>2. Solids \in SUBSET (1..Len(text)) /\ Cuts \in SUBSET (1..Len(text))
  BY PositionsTyped DEF Whole
<1>3. ASSUME NEW x \in ToSet(w)
      PROVE  x \in 1..r - 1 /\ Since(x, p)
  <2>1. CASE x \in ToSet(q)
    <3>1. x \in 1..p - 1 /\ Since(x, p)
      BY <2>1 DEF SqlInv
    <3>2. QED
      BY <3>1
  <2>2. CASE x \in p..r - 1
    BY <1>2, <2>2 DEF Since
  <2>3. QED
    BY <1>1, <2>1, <2>2
<1>4. ASSUME NEW i \in SolidIn(p, r), NEW x \in i..r - 1
      PROVE  x \in ToSet(w)
  <2>1. CASE x \in p..r - 1
    BY <1>1, <2>1
  <2>2. CASE x \notin p..r - 1
    <3>1. i \in SolidIn(p, p) /\ x \in i..p - 1
      BY <1>2, <2>2 DEF SolidIn
    <3>2. x \in ToSet(q)
      BY <3>1 DEF SqlInv
    <3>3. QED
      BY <1>1, <3>2
  <2>3. QED
    BY <2>1, <2>2
<1>5. QED
  BY <1>1, <1>3, <1>4 DEF SqlInv, w

\* The characters p..r - 1 go into currentSQL, and none of them ends a statement.
Taken(s, s1, p, r) ==
  /\ s1 \in States /\ s1.sql = s.sql \o Run(p, r - p) /\ s1.next = r
  /\ s1.stmts = s.stmts /\ s1.start = s.start

Takes(s, s1, p, r) ==
  /\ Taken(s, s1, p, r)
  /\ s1.code <=> s.code \/ \E j \in p..r - 1 : j \in Solids
  /\ \A j \in p..r - 1 : j \notin Cuts
  /\ \A j \in p..r - 1 : j \in Solids /\ ~s.code => Ink(text, j) /\ s.start = LineOf(text, j)
  /\ ~OpenQuote(r) =>
       \/ r - 1 \in Solids /\ Ink(text, r - 1)
       \/ ~OpenQuote(p) /\ \A j \in p..r - 1 : j \notin Solids

\* A turn that writes positions p..r - 1, among which no statement ends, keeps the
\* invariant.
LEMMA TakeStep ==
  ASSUME Whole, NEW s, LexerInv(s), NEW p, p = s.next,
         NEW r \in Nat, p < r, r <= Len(text) + 2,
         NEW s1, Takes(s, s1, p, r), FlagsInv(s1, r)
  PROVE  LexerInv(s1)
<1> DEFINE old == SolidIn(p, p)
           new == {j \in Solids : p <= j /\ j < r}
<1>1. /\ p \in Nat \ {0} /\ r \in Nat /\ p <= r /\ r \in 1..Len(text) + 2
      /\ s \in States /\ s.sql \in Seq(Nat) /\ r - p \in Nat /\ p + (r - p) = r
  BY DEF LexerInv, Whole, States
<1>2. /\ SqlInv(s.sql, p, p) /\ InkInv(p, p) /\ (s.code <=> old # {})
      /\ StartInv(s.start, p, p) /\ StmtsInv(s.stmts, Done(p))
  BY DEF LexerInv
<1>3. /\ Solids \in SUBSET (1..Len(text)) /\ Cuts \in SUBSET (1..Len(text))
      /\ Len(text) \in Nat
  BY PositionsTyped DEF Whole
<1>4. \A j \in p..r - 1 : j \notin Cuts
  BY DEF Takes, Taken
<1>5. /\ \A i : Since(i, r) <=> Since(i, p)
      /\ Done(r) = Done(p)
      /\ SolidIn(r, r) = old \cup new
  BY <1>1, <1>4, SinceMoves DEF Whole
<1>6. \A i \in old : i \in Solids /\ i \in Nat /\ i < p
  BY <1>3 DEF SolidIn
<1>7. \A j : j \in new => j \in p..r - 1
  BY <1>1, <1>3
<1>8. \A j \in p..r - 1 : j \in Solids => j \in new
  BY <1>1
<1>9. SqlInv(s1.sql, p, r)
  BY <1>1, <1>2, SqlTake DEF Takes, Taken
<1>10. SqlInv(s1.sql, r, r)
  <2>1. SolidIn(r, r) = SolidIn(p, r)
    BY <1>5 DEF SolidIn
  <2>2. QED
    BY <1>5, <1>9, <2>1 DEF SqlInv
<1>11. InkInv(r, r)
  <2>1. ASSUME NEW i \in SolidIn(r, r)
        PROVE  \E j \in SolidIn(r, r) : j <= i /\ Ink(text, j)
    <3>1. CASE i \in old
      BY <1>2, <1>5, <3>1 DEF InkInv
    <3>2. CASE i \notin old /\ old # {}
      <4>1. PICK h \in old : TRUE
        BY <3>2
      <4>2. PICK j \in old : j <= h /\ Ink(text, j)
        BY <1>2 DEF InkInv
      <4>3. h \in Nat /\ j \in Nat /\ h < p /\ i \in p..r - 1
        BY <1>5, <1>6, <1>7, <3>2
      <4>4. j <= i
        BY <1>1, <4>2, <4>3
      <4>5. QED
        BY <1>5, <4>2, <4>4
    <3>3. CASE old = {}
      <4>1. i \in p..r - 1 /\ i \in Solids /\ ~s.code
        BY <1>2, <1>5, <1>7, <3>3
      <4>2. Ink(text, i)
        BY <4>1 DEF Takes, Taken
      <4>3. i <= i
        BY <1>1, <4>1
      <4>4. QED
        BY <4>2, <4>3
    <3>4. QED
      BY <3>1, <3>2, <3>3
  <2>2. ASSUME ~OpenQuote(r), NEW i \in SolidIn(r, r)
        PROVE  \E j \in SolidIn(r, r) : i <= j /\ Ink(text, j)
    <3>1. CASE r - 1 \in Solids /\ Ink(text, r - 1)
      <4>1. r - 1 \in new
        BY <1>1, <3>1
      <4>2. i <= r - 1
        BY <1>1, <1>5, <1>6, <1>7
      <4>3. QED
        BY <1>5, <3>1, <4>1, <4>2
    <3>2. CASE ~OpenQuote(p) /\ \A j \in p..r - 1 : j \notin Solids
      <4>1. i \in old
        BY <1>5, <1>7, <3>2
      <4>2. QED
        BY <1>2, <1>5, <3>2, <4>1 DEF InkInv
    <3>3. QED
      BY <2>2, <3>1, <3>2 DEF Takes, Taken
  <2>3. QED
    BY <2>1, <2>2 DEF InkInv
<1>12. s1.code <=> SolidIn(r, r) # {}
  <2>1. new # {} <=> \E j \in p..r - 1 : j \in Solids
    BY <1>7, <1>8
  <2>2. QED
    BY <1>2, <1>5, <2>1 DEF Takes, Taken
<1>13. StartInv(s1.start, r, r)
  <2> SUFFICES ASSUME NEW i \in SolidIn(r, r), First(i, SolidIn(r, r))
               PROVE  s1.start = LineOf(text, i)
    BY DEF StartInv
  <2>1. CASE old # {}
    <3>1. PICK h \in old : TRUE
      BY <2>1
    <3>2. i \in old
      <4>1. i <= h /\ h < p /\ h \in Nat
        BY <1>5, <1>6 DEF First
      <4>2. QED
        BY <1>1, <1>5, <1>6, <1>7, <4>1
    <3>3. First(i, old)
      BY <1>5, <3>2 DEF First
    <3>4. QED
      BY <1>2, <3>2, <3>3 DEF StartInv, Takes, Taken
  <2>2. CASE old = {}
    <3>1. i \in p..r - 1 /\ i \in Solids /\ ~s.code
      BY <1>2, <1>5, <1>7, <2>2
    <3>2. QED
      BY <3>1 DEF Takes, Taken
  <2>3. QED
    BY <2>1, <2>2
<1>14. StmtsInv(s1.stmts, Done(r))
  BY <1>2, <1>5 DEF Takes, Taken
<1>15. s1.next = r /\ s1 \in States
  BY DEF Takes, Taken
<1>16. QED
  BY <1>1, <1>10, <1>11, <1>12, <1>13, <1>14, <1>15 DEF LexerInv

\* Characters that are neither solid nor taken, before a statement.
LEMMA SkipStep ==
  ASSUME Whole, NEW s, LexerInv(s), ~s.code, NEW p, p = s.next,
         NEW r \in Nat, p <= r, r <= Len(text) + 2,
         NEW s1 \in States, s1.sql = s.sql, s1.next = r, s1.stmts = s.stmts, ~s1.code,
         \A j \in p..r - 1 : j \notin Cuts /\ j \notin Solids,
         FlagsInv(s1, r)
  PROVE  LexerInv(s1)
<1>1. p \in Nat \ {0} /\ p <= r /\ r \in 1..Len(text) + 2 /\ s.sql \in Seq(Nat)
  BY DEF LexerInv, Whole, States
<1>2. SqlInv(s.sql, p, p) /\ SolidIn(p, p) = {} /\ StmtsInv(s.stmts, Done(p))
  BY DEF LexerInv
<1>3. \A j \in p..r - 1 : j \notin Cuts /\ j \notin Solids
  OBVIOUS
<1>4. /\ \A i : Since(i, r) <=> Since(i, p)
      /\ Done(r) = Done(p)
      /\ SolidIn(r, r) = {}
  <2>1. SolidIn(r, r) = SolidIn(p, p) \cup {j \in Solids : p <= j /\ j < r}
    BY <1>1, <1>3, SinceMoves DEF Whole
  <2>2. {j \in Solids : p <= j /\ j < r} = {}
    <3>1. \A j \in Solids : j \in Nat
      BY PositionsTyped DEF Whole
    <3>2. QED
      BY <1>1, <1>3, <3>1
  <2>3. QED
    BY <1>1, <1>2, <1>3, <2>1, <2>2, SinceMoves DEF Whole
<1>5. SqlInv(s1.sql, r, r)
  <2>1. ASSUME NEW x \in ToSet(s.sql)
        PROVE  x \in 1..r - 1 /\ Since(x, r)
    <3>1. x \in 1..p - 1 /\ Since(x, p)
      BY <1>2 DEF SqlInv
    <3>2. QED
      BY <1>1, <1>4, <3>1
  <2>2. QED
    BY <1>2, <1>4, <2>1 DEF SqlInv
<1>6. InkInv(r, r) /\ StartInv(s1.start, r, r)
  BY <1>4 DEF InkInv, StartInv
<1>7. QED
  BY <1>1, <1>2, <1>4, <1>5, <1>6 DEF LexerInv

-----------------------------------------------------------------------------
(***************************************************************************)
(* What becomes a statement.                                               *)
(***************************************************************************)

\* Append, as the provers need it.
LEMMA Appended ==
  ASSUME NEW S, NEW q \in Seq(S), NEW x \in S
  PROVE  /\ Append(q, x) \in Seq(S) /\ Len(q) \in Nat /\ Len(Append(q, x)) = Len(q) + 1
         /\ Append(q, x)[Len(q) + 1] = x /\ \A k \in 1..Len(q) : Append(q, x)[k] = q[k]
OBVIOUS

\* What is open at b and complete before p becomes a statement, if it has any text.
LEMMA EmitStep ==
  ASSUME Whole, NEW b \in Nat \ {0}, NEW p \in Nat \ {0}, b <= p,
         \A e \in Cuts : e < p - 1 => e < b,
         NEW s, s.sql \in Seq(Nat), s.start \in Nat,
         s.stmts \in Seq([sql : Seq(Nat), line : Nat]),
         SqlInv(s.sql, b, p), InkInv(b, p), ~OpenQuote(p), StartInv(s.start, b, p),
         StmtsInv(s.stmts, Done(b)),
         NEW stmts,
         stmts = IF Trimmed(text, s.sql) = <<>> THEN s.stmts
                 ELSE Append(s.stmts, [sql |-> Trimmed(text, s.sql), line |-> s.start])
  PROVE  /\ stmts \in Seq([sql : Seq(Nat), line : Nat])
         /\ StmtsInv(stmts, 1..p - 1)
<1> DEFINE q == s.sql
           T == Trimmed(text, q)
           open == SolidIn(b, p)
           D == Done(b)
           of(k) == ToSet(s.stmts[k].sql)
           st == [sql |-> T, line |-> s.start]
<1>1. /\ T \in Seq(Nat) /\ Increasing(T) /\ ToSet(T) \subseteq ToSet(q)
      /\ \A x, y, z \in ToSet(q) :
           y <= x /\ x <= z /\ Ink(text, y) /\ Ink(text, z) => x \in ToSet(T)
      /\ \A x \in ToSet(q), y, z \in ToSet(T) : y <= x /\ x <= z => x \in ToSet(T)
  BY TrimmedPositions DEF SqlInv
<1>2. /\ Solids \in SUBSET (1..Len(text)) /\ Cuts \in SUBSET (1..Len(text))
      /\ Len(text) \in Nat
  BY PositionsTyped DEF Whole
<1>3. /\ \A x \in ToSet(q) : x \in 1..p - 1 /\ Since(x, b)
      /\ \A i \in open : i..p - 1 \subseteq ToSet(q)
  BY DEF SqlInv
<1> HIDE DEF T, D
<1>4. open \subseteq ToSet(q)
  <2>1. ASSUME NEW i \in open
        PROVE  i \in i..p - 1
    BY <1>2 DEF SolidIn
  <2>2. QED
    BY <1>3, <2>1
<1>5. open \subseteq ToSet(T)
  <2>1. ASSUME NEW i \in open
        PROVE  i \in ToSet(T)
    <3>1. PICK j \in open : j <= i /\ Ink(text, j)
      BY DEF InkInv
    <3>2. PICK k \in open : i <= k /\ Ink(text, k)
      BY DEF InkInv
    <3>3. QED
      BY <1>1, <1>4, <3>1, <3>2
  <2>2. QED
    BY <2>1
<1>6. ToSet(T) \cap Solids = open
  BY <1>1, <1>2, <1>3, <1>5 DEF SolidIn
<1>7. D \subseteq 1..p - 1 /\ Solids \cap (1..p - 1) = (Solids \cap D) \cup open
  <2>1. ASSUME NEW i \in Solids
        PROVE  i \in 1..p - 1 <=> i \in D \/ i \in open
    <3>1. i \in Nat /\ i > 0
      BY <1>2
    <3>2. i >= b => Since(i, b)
      BY <1>2, <3>1 DEF Since
    <3>3. QED
      BY <3>1, <3>2 DEF SolidIn, D, Done
  <2>2. D \subseteq 1..p - 1
    BY DEF D, Done
  <2> HIDE DEF open
  <2>3. open \subseteq 1..p - 1
    BY <1>1, <1>3, <1>5
  <2>4. ASSUME NEW i
        PROVE  i \in Solids \cap (1..p - 1) <=> i \in (Solids \cap D) \cup open
    <3>1. i \in open => i \in Solids
      BY DEF open, SolidIn
    <3>2. QED
      BY <2>1, <2>2, <2>3, <3>1
  <2>5. QED
    BY <2>2, <2>4
<1>8. ASSUME NEW k \in 1..Len(s.stmts)
      PROVE  StmtInv(s.stmts[k], 1..p - 1)
  <2>1. StmtInv(s.stmts[k], D)
    BY DEF StmtsInv, D
  <2>2. QED
    BY <1>7, <2>1 DEF StmtInv
<1>9. \A k, l \in 1..Len(s.stmts) : k < l =>
        \A i \in of(k), j \in of(l) : i < j /\ EndsBetween(text, Marked, i, j)
  BY DEF StmtsInv
<1>10. \A i \in Solids \cap D : \E k \in 1..Len(s.stmts) : i \in of(k)
  BY DEF StmtsInv, D
<1>11. CASE T = <<>>
  <2>1. open = {}
    BY <1>5, <1>11 DEF ToSet
  <2>2. stmts = s.stmts
    BY <1>11 DEF T
  <2>3. \A i \in Solids \cap (1..p - 1) : \E k \in 1..Len(s.stmts) : i \in of(k)
    BY <1>7, <1>10, <2>1
  <2>4. QED
    BY <1>8, <1>9, <2>2, <2>3 DEF StmtsInv
<1>12. CASE T # <<>>
  <2> DEFINE n == Len(s.stmts)
  <2>1. stmts = Append(s.stmts, st)
    BY <1>12 DEF T
  <2>2. st \in [sql : Seq(Nat), line : Nat] /\ st.sql = T /\ st.line = s.start
    BY <1>1
  <2> HIDE DEF st
  <2>3. /\ stmts \in Seq([sql : Seq(Nat), line : Nat]) /\ Len(stmts) = n + 1 /\ n \in Nat
        /\ stmts[n + 1] = st /\ \A k \in 1..n : stmts[k] = s.stmts[k]
    <3> DEFINE old == s.stmts
               Recs == [sql : Seq(Nat), line : Nat]
    <3>1. old \in Seq(Recs) /\ st \in Recs /\ stmts = Append(old, st) /\ n = Len(old)
      BY <2>1, <2>2
    <3> HIDE DEF old, Recs, n
    <3>2. /\ stmts \in Seq(Recs) /\ Len(stmts) = n + 1 /\ n \in Nat
          /\ stmts[n + 1] = st /\ \A k \in 1..n : stmts[k] = old[k]
      <4>1. /\ Append(old, st) \in Seq(Recs) /\ Len(old) \in Nat
            /\ Len(Append(old, st)) = Len(old) + 1 /\ Append(old, st)[Len(old) + 1] = st
            /\ \A k \in 1..Len(old) : Append(old, st)[k] = old[k]
        BY <3>1, Appended
      <4>2. QED
        BY <3>1, <4>1, Zenon
    <3>3. QED
      BY <3>2 DEF old, Recs
  <2>4. StmtInv(st, 1..p - 1)
    <3>1. Increasing(st.sql) /\ ToSet(st.sql) \subseteq 1..p - 1
      BY <1>1, <1>3, <2>2
    <3>2. ASSUME NEW i \in ToSet(T), NEW j \in ToSet(T)
          PROVE  ~EndsBetween(text, Marked, i, j)
      <4>1. i \in 1..p - 1 /\ j \in 1..p - 1 /\ Since(i, b)
        BY <1>1, <1>3
      <4>2. ASSUME NEW e \in Cuts, i <= e, e < j
            PROVE  FALSE
        <5>1. e \in Nat /\ e < p - 1
          BY <1>2, <4>1, <4>2
        <5>2. e < b /\ e < i
          BY <4>1, <5>1 DEF Since
        <5>3. QED
          BY <4>1, <4>2, <5>1, <5>2
      <4>3. QED
        BY <4>2 DEF EndsBetween, Cuts
    <3>3. ASSUME NEW i \in ToSet(T) \cap Solids, NEW j \in ToSet(T), NEW x \in i..j
          PROVE  x \in ToSet(T)
      <4>1. i \in open /\ i \in Nat /\ j \in 1..p - 1
        BY <1>1, <1>2, <1>3, <1>6
      <4>2. x \in i..p - 1 /\ i <= x /\ x <= j
        BY <3>3, <4>1
      <4>3. x \in ToSet(q)
        BY <1>3, <4>1, <4>2
      <4>4. QED
        BY <1>1, <4>2, <4>3
    <3>4. ASSUME NEW i \in ToSet(T) \cap Solids, First(i, ToSet(T) \cap Solids)
          PROVE  st.line = LineOf(text, i)
      BY <1>6, <2>2, <3>4 DEF StartInv
    <3>5. QED
      BY <2>2, <3>1, <3>2, <3>3, <3>4 DEF StmtInv
  <2>5. ASSUME NEW k \in 1..n + 1
        PROVE  StmtInv(stmts[k], 1..p - 1)
    <3>1. CASE k \in 1..n
      BY <1>8, <2>3, <3>1
    <3>2. CASE k = n + 1
      BY <2>3, <2>4, <3>2
    <3>3. QED
      BY <2>3, <3>1, <3>2
  <2>6. ASSUME NEW k \in 1..n + 1, NEW l \in 1..n + 1, k < l,
               NEW i \in ToSet(stmts[k].sql), NEW j \in ToSet(stmts[l].sql)
        PROVE  i < j /\ EndsBetween(text, Marked, i, j)
    <3>1. CASE l \in 1..n
      <4>1. k \in 1..n /\ stmts[k] = s.stmts[k] /\ stmts[l] = s.stmts[l]
        BY <2>3, <2>6, <3>1
      <4>2. QED
        BY <1>9, <2>6, <3>1, <4>1
    <3>2. CASE l = n + 1
      <4>1. k \in 1..n /\ i \in of(k) /\ j \in ToSet(T)
        BY SMTT(30), <2>2, <2>3, <2>6, <3>2
      <4>2. i \in D
        <5>1. StmtInv(s.stmts[k], D)
          BY <4>1 DEF StmtsInv, D
        <5>2. QED
          BY <4>1, <5>1 DEF StmtInv
      <4>3. PICK e \in Cuts : e < b /\ ~(e < i)
        BY <4>2 DEF D, Done, Since
      <4>4. e < j /\ e \in Nat /\ j \in Nat
        BY <1>1, <1>2, <1>3, <4>1, <4>3 DEF Since
      <4>5. i \in Nat
        BY <4>2 DEF D, Done
      <4>6. i <= e /\ i < j
        BY <4>3, <4>4, <4>5
      <4>7. QED
        BY <4>4, <4>6 DEF EndsBetween, Cuts
    <3>3. QED
      BY <2>3, <3>1, <3>2
  <2>7. ASSUME NEW i \in Solids \cap (1..p - 1)
        PROVE  \E k \in 1..n + 1 : i \in ToSet(stmts[k].sql)
    <3>1. CASE i \in D
      <4>1. PICK k \in 1..n : i \in of(k)
        BY <1>10, <3>1
      <4>2. k \in 1..n + 1 /\ stmts[k] = s.stmts[k]
        BY <2>3
      <4>3. QED
        BY <4>1, <4>2
    <3>2. CASE i \in open
      <4>1. i \in ToSet(stmts[n + 1].sql) /\ n + 1 \in 1..n + 1
        BY <1>5, <2>2, <2>3, <3>2
      <4>2. QED
        BY <4>1
    <3>3. QED
      BY <1>7, <3>1, <3>2
  <2>8. QED
    BY <2>3, <2>5, <2>6, <2>7 DEF StmtsInv
<1>13. QED
  BY <1>11, <1>12

-----------------------------------------------------------------------------
(***************************************************************************)
(* One turn of the inner loop, by cases.                                   *)
(***************************************************************************)

\* What Take changes, and what it leaves alone.
LEMMA TakeFields ==
  ASSUME NEW s \in States, NEW i \in Nat, NEW n \in Nat
  PROVE  /\ Take(s, i, n) \in States
         /\ Take(s, i, n).sql = s.sql \o Run(i, n) /\ Take(s, i, n).next = i + n
         /\ Take(s, i, n).stmts = s.stmts /\ Take(s, i, n).start = s.start
         /\ Take(s, i, n).code = s.code /\ Take(s, i, n).block = s.block
         /\ Take(s, i, n).single = s.single /\ Take(s, i, n).double = s.double
<1>1. Run(i, n) \in Seq(Nat)
  BY DEF Run
<1>2. s.sql \in Seq(Nat)
  BY DEF States
<1> DEFINE w == s.sql \o Run(i, n)
           j == i + n
<1>3. w \in Seq(Nat) /\ j \in Nat
  BY <1>1, <1>2
<1>4. Take(s, i, n) = [s EXCEPT !.sql = w, !.next = j]
  BY DEF Take, Run, States
<1> HIDE DEF w, j
<1>5. /\ Take(s, i, n) \in States
      /\ Take(s, i, n).sql = w /\ Take(s, i, n).next = j
      /\ Take(s, i, n).stmts = s.stmts /\ Take(s, i, n).start = s.start
      /\ Take(s, i, n).code = s.code /\ Take(s, i, n).block = s.block
      /\ Take(s, i, n).single = s.single /\ Take(s, i, n).double = s.double
  BY <1>3, <1>4 DEF States
<1>6. QED
  BY <1>5 DEF w, j

\* ... and Emit
LEMMA EmitFields ==
  ASSUME NEW t, NEW s \in States
  PROVE  /\ Emit(t, s) \in States
         /\ Emit(t, s).stmts = IF Trimmed(t, s.sql) = <<>> THEN s.stmts
              ELSE Append(s.stmts, [sql |-> Trimmed(t, s.sql), line |-> s.start])
         /\ Emit(t, s).sql = s.sql /\ Emit(t, s).next = s.next /\ Emit(t, s).start = s.start
         /\ Emit(t, s).code = s.code /\ Emit(t, s).block = s.block
         /\ Emit(t, s).single = s.single /\ Emit(t, s).double = s.double
<1> DEFINE T == Trimmed(t, s.sql)
           Recs == [sql : Seq(Nat), line : Nat]
           st == [sql |-> T, line |-> s.start]
<1>1. s.sql \in Seq(Nat) /\ s.start \in Nat /\ s.stmts \in Seq(Recs)
  BY DEF States
<1>2. T \in Seq(Nat)
  <2>1. DOMAIN s.sql = 1..Len(s.sql) /\ Len(s.sql) \in Nat
    BY <1>1
  <2> DEFINE solid == {k \in DOMAIN s.sql : s.sql[k] <= Len(t) /\ t[s.sql[k]] \notin Blanks}
  <2>2. CASE solid = {}
    BY <2>2 DEF Trimmed
  <2>3. CASE solid # {}
    <3>1. solid \in SUBSET (0..Len(s.sql)) /\ solid \in SUBSET Nat
      BY <2>1
    <3> HIDE DEF solid
    <3>2. Min(solid) \in solid /\ Max(solid) \in solid
      BY <2>1, <2>3, <3>1, MinOf, MaxOf
    <3>3. Min(solid) \in 1..Len(s.sql) /\ Max(solid) \in 1..Len(s.sql)
      BY <2>1, <3>2 DEF solid
    <3>4. SubSeq(s.sql, Min(solid), Max(solid)) \in Seq(Nat)
      BY <1>1, <3>3
    <3>5. QED
      BY <2>3, <3>4 DEF Trimmed, solid
  <2>4. QED
    BY <2>2, <2>3
<1> HIDE DEF T
<1>3. st \in Recs
  BY <1>1, <1>2
<1> HIDE DEF Recs, st
<1>4. Append(s.stmts, st) \in Seq(Recs)
  BY <1>1, <1>3, Appended
<1>5. CASE T = <<>>
  <2>1. Emit(t, s) = s
    BY <1>5 DEF Emit, T
  <2>2. QED
    BY <1>5, <2>1 DEF T
<1>6. CASE T # <<>>
  <2>1. Emit(t, s) = [s EXCEPT !.stmts = Append(s.stmts, st)]
    BY <1>6 DEF Emit, T, st, States
  <2>2. QED
    BY <1>4, <1>6, <2>1 DEF States, Recs, T, st
<1>7. QED
  BY <1>5, <1>6

\* ... and Cut
LEMMA CutFields ==
  ASSUME NEW t, NEW line, NEW lineNo \in Nat, NEW s \in States, NEW i \in Nat
  PROVE  LET u == Cut(t, line, lineNo, s, i)
             e == Emit(t, Take(s, i, 1))
         IN  /\ u \in States /\ u.sql = <<>> /\ ~u.code /\ u.next = i + 1 /\ u.stmts = e.stmts
             /\ u.start = IF BlankBetween(t, i + 1, line.last) THEN s.start ELSE lineNo
             /\ u.block = s.block /\ u.single = s.single /\ u.double = s.double
<1> DEFINE e == Emit(t, Take(s, i, 1))
<1>1. /\ e \in States /\ e.next = i + 1 /\ e.start = s.start
      /\ e.block = s.block /\ e.single = s.single /\ e.double = s.double
  <2> DEFINE k == Take(s, i, 1)
  <2>1. /\ k \in States /\ k.next = i + 1 /\ k.start = s.start
        /\ k.block = s.block /\ k.single = s.single /\ k.double = s.double
    BY TakeFields
  <2> HIDE DEF k
  <2>2. /\ Emit(t, k) \in States /\ Emit(t, k).next = k.next /\ Emit(t, k).start = k.start
        /\ Emit(t, k).block = k.block /\ Emit(t, k).single = k.single
        /\ Emit(t, k).double = k.double
    BY <2>1, EmitFields
  <2>3. QED
    BY <2>1, <2>2 DEF k
<1>2. Cut(t, line, lineNo, s, i) =
        [e EXCEPT !.sql = <<>>, !.code = FALSE,
                  !.start = IF BlankBetween(t, i + 1, line.last) THEN @ ELSE lineNo]
  BY DEF Cut
<1> HIDE DEF e
<1>3. QED
  <2>1. <<>> \in Seq(Nat)
    OBVIOUS
  <2>2. QED
    BY <1>1, <1>2, <2>1 DEF States, e

\* The text from p to r is taken, and these are the flags then.
TakenAs(s, u, p, r, single, double, block, code) ==
  /\ Taken(s, u, p, r)
  /\ u.single = single /\ u.double = double /\ u.block = block /\ u.code = code

\* The forms in which Lex takes characters
LEMMA TakeForms ==
  ASSUME NEW s \in States, NEW i \in Nat, NEW n \in Nat, NEW k, k = Take(s, i, n)
  PROVE  /\ TakenAs(s, k, i, i + n, s.single, s.double, s.block, s.code)
         /\ TakenAs(s, [k EXCEPT !.block = FALSE], i, i + n, s.single, s.double, FALSE, s.code)
         /\ TakenAs(s, [k EXCEPT !.block = TRUE], i, i + n, s.single, s.double, TRUE, s.code)
         /\ TakenAs(s, [k EXCEPT !.single = ~@, !.code = TRUE], i, i + n,
                    ~s.single, s.double, s.block, TRUE)
         /\ TakenAs(s, [k EXCEPT !.double = ~@, !.code = TRUE], i, i + n,
                    s.single, ~s.double, s.block, TRUE)
         /\ \A x \in BOOLEAN :
              TakenAs(s, [k EXCEPT !.code = @ \/ x], i, i + n, s.single, s.double, s.block, s.code \/ x)
<1> DEFINE r == i + n
<1>1. (i + n) - i = n
  OBVIOUS
<1>2. /\ k \in States /\ k.sql = s.sql \o Run(i, r - i) /\ k.next = r
      /\ k.stmts = s.stmts /\ k.start = s.start
      /\ k.code = s.code /\ k.block = s.block /\ k.single = s.single /\ k.double = s.double
  BY <1>1, TakeFields
<1> HIDE DEF r
<1>3. ASSUME NEW a \in BOOLEAN, NEW b \in BOOLEAN, NEW c \in BOOLEAN, NEW d \in BOOLEAN,
             NEW u, u = [k EXCEPT !.single = a, !.double = b, !.block = c, !.code = d]
      PROVE  TakenAs(s, u, i, r, a, b, c, d)
  <2>1. k \in States
    BY <1>2
  <2>2. /\ u \in States /\ u.sql = k.sql /\ u.next = k.next /\ u.stmts = k.stmts
        /\ u.start = k.start /\ u.single = a /\ u.double = b /\ u.block = c /\ u.code = d
    BY ZenonT(40), <1>3, <2>1 DEF States
  <2>3. QED
    BY <1>2, <2>2 DEF Taken, TakenAs
<1>4. /\ s.single \in BOOLEAN /\ s.double \in BOOLEAN /\ s.block \in BOOLEAN /\ s.code \in BOOLEAN
  BY DEF States
<1>5. TakenAs(s, k, i, r, s.single, s.double, s.block, s.code)
  BY <1>2 DEF Taken, TakenAs
<1>6. \A c \in BOOLEAN :
        TakenAs(s, [k EXCEPT !.block = c], i, r, s.single, s.double, c, s.code)
  <2>1. ASSUME NEW c \in BOOLEAN
        PROVE  TakenAs(s, [k EXCEPT !.block = c], i, r, s.single, s.double, c, s.code)
    <3> DEFINE u == [k EXCEPT !.block = c]
    <3>1. u = [k EXCEPT !.single = s.single, !.double = s.double, !.block = c, !.code = s.code]
      BY <1>2 DEF States
    <3> HIDE DEF u
    <3>2. TakenAs(s, u, i, r, s.single, s.double, c, s.code)
      BY <1>3, <1>4, <3>1
    <3>3. QED
      BY <3>2 DEF u
  <2>2. QED
    BY <2>1
<1>7. TakenAs(s, [k EXCEPT !.single = ~@, !.code = TRUE], i, r, ~s.single, s.double, s.block, TRUE)
  <2>1. [k EXCEPT !.single = ~@, !.code = TRUE] =
          [k EXCEPT !.single = ~s.single, !.double = s.double, !.block = s.block, !.code = TRUE]
    BY <1>2 DEF States
  <2>2. QED
    BY ZenonT(40), <1>3, <1>4, <2>1
<1>8. TakenAs(s, [k EXCEPT !.double = ~@, !.code = TRUE], i, r, s.single, ~s.double, s.block, TRUE)
  <2>1. [k EXCEPT !.double = ~@, !.code = TRUE] =
          [k EXCEPT !.single = s.single, !.double = ~s.double, !.block = s.block, !.code = TRUE]
    BY <1>2 DEF States
  <2>2. QED
    BY ZenonT(40), <1>3, <1>4, <2>1
<1>9. \A x \in BOOLEAN :
        TakenAs(s, [k EXCEPT !.code = @ \/ x], i, r, s.single, s.double, s.block, s.code \/ x)
  <2>1. ASSUME NEW x \in BOOLEAN
        PROVE  TakenAs(s, [k EXCEPT !.code = @ \/ x], i, r, s.single, s.double, s.block, s.code \/ x)
    <3> DEFINE u == [k EXCEPT !.code = @ \/ x]
               y == s.code \/ x
    <3>1. u = [k EXCEPT !.single = s.single, !.double = s.double, !.block = s.block, !.code = y]
      BY <1>2 DEF States
    <3>2. y \in BOOLEAN
      OBVIOUS
    <3> HIDE DEF u, y
    <3>3. TakenAs(s, u, i, r, s.single, s.double, s.block, y)
      BY <1>3, <1>4, <3>1, <3>2
    <3>4. QED
      BY <3>3 DEF u, y
  <2>2. QED
    BY <2>1
<1>10. QED
  BY <1>5, <1>6, <1>7, <1>8, <1>9 DEF r

\* In a block comment: its end
LEMMA LexBlockEnd ==
  ASSUME NEW t, NEW line, NEW lineNo, NEW s \in States, NEW i \in Nat,
         s.block, Pair(t, line, i, "*", "/")
  PROVE  TakenAs(s, Lex(t, line, lineNo, s, i), i, i + 2, s.single, s.double, FALSE, s.code)
<1>1. Lex(t, line, lineNo, s, i) = [Take(s, i, 2) EXCEPT !.block = FALSE]
  BY DEF Lex, Pair, States
<1>2. TakenAs(s, [Take(s, i, 2) EXCEPT !.block = FALSE], i, i + 2, s.single, s.double, FALSE, s.code)
  <2>1. 2 \in Nat
    OBVIOUS
  <2>2. QED
    BY <2>1, TakeForms, Zenon
<1>3. QED
  BY <1>1, <1>2

\* ... and before
LEMMA LexBlock ==
  ASSUME NEW t, NEW line, NEW lineNo, NEW s \in States, NEW i \in Nat,
         s.block, ~Pair(t, line, i, "*", "/")
  PROVE  TakenAs(s, Lex(t, line, lineNo, s, i), i, i + 1, s.single, s.double, s.block, s.code)
<1>1. Lex(t, line, lineNo, s, i) = Take(s, i, 1)
  BY DEF Lex, Pair, States
<1>2. TakenAs(s, Take(s, i, 1), i, i + 1, s.single, s.double, s.block, s.code)
  <2>1. 1 \in Nat
    OBVIOUS
  <2>2. QED
    BY <2>1, TakeForms, Zenon
<1>3. QED
  BY <1>1, <1>2

\* A comment to the end of the line
LEMMA LexDashes ==
  ASSUME NEW t, NEW line, NEW lineNo, NEW s \in States, NEW i \in Nat,
         ~s.block, ~s.single, ~s.double, Pair(t, line, i, "-", "-"),
         line.last \in Nat, i <= line.last
  PROVE  TakenAs(s, Lex(t, line, lineNo, s, i), i, line.last + 1, s.single, s.double, s.block, s.code)
<1>1. Lex(t, line, lineNo, s, i) = Take(s, i, line.last - i + 1)
  BY DEF Lex, Pair, States
<1>2. TakenAs(s, Take(s, i, line.last - i + 1), i, line.last + 1, s.single, s.double, s.block, s.code)
  <2>1. line.last - i + 1 \in Nat /\ i + (line.last - i + 1) = line.last + 1
    OBVIOUS
  <2>2. QED
    BY <2>1, TakeForms
<1>3. QED
  BY <1>1, <1>2

\* The start of a block comment
LEMMA LexOpen ==
  ASSUME NEW t, NEW line, NEW lineNo, NEW s \in States, NEW i \in Nat,
         ~s.block, ~s.single, ~s.double, Pair(t, line, i, "/", "*")
  PROVE  TakenAs(s, Lex(t, line, lineNo, s, i), i, i + 2, s.single, s.double, TRUE, s.code)
<1>1. Lex(t, line, lineNo, s, i) = [Take(s, i, 2) EXCEPT !.block = TRUE]
  BY DEF Lex, Pair, States
<1>2. TakenAs(s, [Take(s, i, 2) EXCEPT !.block = TRUE], i, i + 2, s.single, s.double, TRUE, s.code)
  <2>1. 2 \in Nat
    OBVIOUS
  <2>2. QED
    BY <2>1, TakeForms, Zenon
<1>3. QED
  BY <1>1, <1>2

\* A quote or its end
LEMMA LexSingle ==
  ASSUME NEW t, NEW line, NEW lineNo, NEW s \in States, NEW i \in Nat,
         ~s.block, ~s.double, t[i] = "'"
  PROVE  TakenAs(s, Lex(t, line, lineNo, s, i), i, i + 1, ~s.single, s.double, s.block, TRUE)
<1>1. Lex(t, line, lineNo, s, i) = [Take(s, i, 1) EXCEPT !.single = ~@, !.code = TRUE]
  BY DEF Lex, Pair, States
<1>2. TakenAs(s, [Take(s, i, 1) EXCEPT !.single = ~@, !.code = TRUE], i, i + 1, ~s.single, s.double, s.block, TRUE)
  <2>1. 1 \in Nat
    OBVIOUS
  <2>2. QED
    BY <2>1, TakeForms, Zenon
<1>3. QED
  BY <1>1, <1>2

\* A quoted name or its end
LEMMA LexDouble ==
  ASSUME NEW t, NEW line, NEW lineNo, NEW s \in States, NEW i \in Nat,
         ~s.block, ~s.single, t[i] = "\""
  PROVE  TakenAs(s, Lex(t, line, lineNo, s, i), i, i + 1, s.single, ~s.double, s.block, TRUE)
<1>1. Lex(t, line, lineNo, s, i) = [Take(s, i, 1) EXCEPT !.double = ~@, !.code = TRUE]
  BY DEF Lex, Pair, States
<1>2. TakenAs(s, [Take(s, i, 1) EXCEPT !.double = ~@, !.code = TRUE], i, i + 1, s.single, ~s.double, s.block, TRUE)
  <2>1. 1 \in Nat
    OBVIOUS
  <2>2. QED
    BY <2>1, TakeForms, Zenon
<1>3. QED
  BY <1>1, <1>2

\* Whatever else
LEMMA LexOther ==
  ASSUME NEW t, NEW line, NEW lineNo, NEW s \in States, NEW i \in Nat,
         ~s.block, s.single \/ s.double \/ ~Pair(t, line, i, "-", "-"),
         s.single \/ s.double \/ ~Pair(t, line, i, "/", "*"),
         ~(t[i] = "'" /\ ~s.double), ~(t[i] = "\"" /\ ~s.single),
         s.single \/ s.double \/ t[i] # ";"
  PROVE  TakenAs(s, Lex(t, line, lineNo, s, i), i, i + 1,
                 s.single, s.double, s.block, s.code \/ t[i] \notin Blanks)
<1> DEFINE x == t[i] \notin Blanks
<1>1. Lex(t, line, lineNo, s, i) = [Take(s, i, 1) EXCEPT !.code = @ \/ x]
  BY Zenon DEF Lex
<1>2. TakenAs(s, [Take(s, i, 1) EXCEPT !.code = @ \/ x], i, i + 1,
              s.single, s.double, s.block, s.code \/ x)
  <2>1. 1 \in Nat /\ x \in BOOLEAN
    OBVIOUS
  <2> HIDE DEF x
  <2>2. QED
    BY <2>1, TakeForms, Zenon
<1>3. QED
  BY <1>1, <1>2, Zenon

\* The end of a statement
LEMMA LexCut ==
  ASSUME NEW t, NEW line, NEW lineNo, NEW s \in States, NEW i \in Nat,
         ~s.block, ~s.single, ~s.double, t[i] = ";"
  PROVE  Lex(t, line, lineNo, s, i) = Cut(t, line, lineNo, s, i)
BY DEF Lex, Pair

-----------------------------------------------------------------------------
(***************************************************************************)
(* What the server reads where the lexer is.                               *)
(***************************************************************************)

\* A position's mark comes from the mark before it, and is one that Plain admits.
LEMMA MarkedAt ==
  ASSUME Whole, NEW i \in 1..Len(text)
  PROVE  /\ Marked[i - 1] \in Marks /\ ReadWell(text, Marked[i - 1], i - 1)
         /\ Marked[i] = Reads(text, i, Marked[i - 1])
         /\ Marked[i] \in Marks /\ ReadWell(text, Marked[i], i)
         /\ Marked[i].depth <= 1
         /\ Marked[i].in = "quote" /\ (Marked[i].after = "$" \/ text[i] = "$") =>
              text[i] \in {"a", "$"} \cup Blanks
<1>1. i - 1 \in 0..Len(text) /\ i \in 0..Len(text) /\ DOMAIN text = 1..Len(text)
  BY DEF Whole
<1>2. /\ Marked \in [0..Len(text) -> Marks]
      /\ Marked[i] = Reads(text, i, Marked[i - 1])
  BY ReadingGoes DEF Whole, Marked
<1>3. ReadWell(text, Marked[i - 1], i - 1) /\ ReadWell(text, Marked[i], i)
  BY <1>1, ReadingIsWell DEF Whole, Marked
<1>4. Plain(text, Marked)
  BY DEF Whole
<1>5. /\ Marked[i].depth <= 1
      /\ Marked[i].in = "quote" /\ "$" \in {Marked[i].after, text[i]} =>
              text[i] \in {"a", "$"} \cup Blanks
  BY <1>1, <1>4 DEF Plain
<1>6. QED
  BY <1>1, <1>2, <1>3, <1>5

\* What a mark says of its position
LEMMA Meaning ==
  ASSUME Whole, NEW i \in 1..Len(text)
  PROVE  /\ i \in Solids <=>
              Marked[i].in = "quote" \/ (Marked[i].in = "code" /\ text[i] \notin Blanks)
         /\ i \in Cuts <=> Marked[i].in = "code" /\ text[i] = ";"
<1>1. DOMAIN text = 1..Len(text)
  BY DEF Whole
<1>2. QED
  BY <1>1 DEF Solids, Cuts, Solid, Ends

\* In a quote the lexer has seen code.
LEMMA QuoteIsCode ==
  ASSUME Whole, NEW s, LexerInv(s), s.next <= Len(text) + 1, Marked[s.next - 1].in = "quote"
  PROVE  s.code /\ s.next - 1 \in 1..Len(text)
<1> DEFINE p == s.next
<1>1. p \in 1..Len(text) + 1 /\ Len(text) \in Nat
  BY DEF LexerInv, Whole
<1>2. p - 1 # 0
  BY ReadingGoes DEF Whole, Marked, Is
<1>3. p - 1 \in 1..Len(text)
  BY <1>1, <1>2
<1>4. p - 1 \in Solids /\ p - 1 \notin Cuts
  BY <1>3, Meaning
<1>5. Since(p - 1, p)
  <2>1. ASSUME NEW e \in Cuts, e < p
        PROVE  e < p - 1
    <3>1. e \in Nat /\ e # p - 1
      BY <1>4, PositionsTyped DEF Whole
    <3>2. QED
      BY <1>1, <2>1, <3>1
  <2>2. QED
    BY <2>1 DEF Since
<1>6. p - 1 \in SolidIn(p, p)
  BY <1>1, <1>4, <1>5 DEF SolidIn
<1>7. QED
  BY <1>3, <1>6 DEF LexerInv

\* Nothing that the lexer would take for a mark occurs in a dollar quote.
LEMMA InDollar ==
  ASSUME Whole, NEW p \in 1..Len(text), Marked[p - 1].after = "$"
  PROVE  text[p] \in {"a", "$"} \cup Blanks
<1> DEFINE m == Marked[p - 1]
<1>1. m \in Marks /\ m.in = "quote" /\ Marked[p] = Reads(text, p, m)
  BY MarkedAt DEF ReadWell, Quotes
<1>2. CASE m.second
  <2>1. text[(p - 1) + 1] = "$" /\ (p - 1) + 1 = p
    BY <1>1, <1>2, MarkedAt DEF ReadWell
  <2>2. QED
    BY <2>1
<1>3. CASE ~m.second
  <2>1. CASE Two(text, p, "$", "$")
    BY <2>1 DEF Two
  <2>2. CASE ~Two(text, p, "$", "$")
    <3>1. Marked[p] = Is("quote", "$", 0, FALSE)
      BY <1>1, <1>3, <2>2 DEF Reads
    <3>2. Marked[p].in = "quote" /\ Marked[p].after = "$"
      BY <3>1 DEF Is
    <3>3. QED
      BY <3>2, MarkedAt
  <2>3. QED
    BY <2>1, <2>2
<1>4. QED
  BY <1>2, <1>3

\* A line is between breaks, and lineNo - 1 of them are before it.
IsLine(line, lineNo) ==
  /\ line.first \in Nat \ {0} /\ line.last \in Nat /\ line.last <= Len(text)
  /\ line.last + 1 \in Breaks(text)
  /\ lineNo \in Nat
  /\ \A j \in line.first..line.last : text[j] # Newline /\ LineOf(text, j) = lineNo

\* A pair of characters within a line is a pair of the text.
LEMMA PairIsTwo ==
  ASSUME Whole, NEW line, NEW lineNo, IsLine(line, lineNo), NEW i \in line.first..line.last,
         NEW a, NEW b, b # Newline
  PROVE  Pair(text, line, i, a, b) <=> Two(text, i, a, b)
<1>1. line.last \in Nat /\ Len(text) \in Nat /\ line.last <= Len(text) /\ i \in Nat /\ i <= line.last
  BY DEF IsLine, Whole
<1>2. line.last < Len(text) => text[line.last + 1] = Newline
  BY <1>1 DEF IsLine, Breaks
<1>3. i < Len(text) /\ text[i + 1] = b => i < line.last
  BY <1>1, <1>2
<1>4. QED
  BY <1>1, <1>3 DEF Pair, Two

\* The second character of a pair
LEMMA SecondReads ==
  ASSUME NEW t, NEW i, NEW x \in {"code", "quote", "comment"},
         NEW y \in {"code", "line", "block"} \cup Quotes, NEW d \in Nat
  PROVE  Reads(t, i, Is(x, y, d, TRUE)) = Is(x, y, d, FALSE)
<1> DEFINE m == Is(x, y, d, TRUE)
           u == [m EXCEPT !.second = FALSE]
           v == Is(x, y, d, FALSE)
<1>1. u = v
  <2>1. u \in Marks /\ v \in Marks
    BY DEF Is, Marks
  <2>2. u.in = v.in /\ u.after = v.after /\ u.depth = v.depth /\ u.second = v.second
    BY DEF Is
  <2> HIDE DEF u, v
  <2>3. QED
    BY <2>1, <2>2 DEF Marks
<1>2. m.second = TRUE
  BY DEF Is
<1> HIDE DEF m, v
<1>3. Reads(t, i, m) = u
  BY <1>2 DEF Reads
<1>4. QED
  BY <1>1, <1>3 DEF m, v

\* From "--" to the end of the line there is nothing but the comment.
LEMMA CommentLine ==
  ASSUME Whole, NEW line, NEW lineNo, IsLine(line, lineNo), NEW p \in line.first..line.last,
         Marked[p - 1].after = "code", ~Marked[p - 1].second, Two(text, p, "-", "-")
  PROVE  /\ p < line.last
         /\ \A j \in p..line.last : Marked[j].in = "comment"
         /\ Marked[line.last] = Is("comment", "line", 0, FALSE)
<1> DEFINE L == line.last
           c == Is("comment", "line", 0, FALSE)
           S == {k \in 0..L - p - 1 : Marked[p + 1 + k] = c}
<1>1. p \in 1..Len(text) /\ L \in Nat /\ L <= Len(text) /\ Len(text) \in Nat /\ p <= L
  BY DEF IsLine, Whole
<1>2. p < L
  <2>1. "-" # Newline
    BY DEF Newline
  <2>2. Pair(text, line, p, "-", "-")
    BY <2>1, PairIsTwo
  <2>3. QED
    BY <2>2 DEF Pair
<1>3. Marked[p] = Is("comment", "line", 0, TRUE)
  <2>1. Marked[p] = Reads(text, p, Marked[p - 1]) /\ Marked[p - 1] \in Marks
    BY <1>1, MarkedAt
  <2>2. \A dollar \in BOOLEAN : ReadsCode(text, p, dollar) = Is("comment", "line", 0, TRUE)
    BY CodeReads
  <2>3. QED
    BY <2>1, <2>2 DEF Reads
<1>4. 0 \in S
  <2>1. p + 1 \in 1..Len(text) /\ (p + 1) - 1 = p /\ p + 1 + 0 = p + 1 /\ 0 \in 0..L - p - 1
    BY <1>1, <1>2
  <2>2. Marked[p + 1] = Reads(text, p + 1, Marked[p])
    BY <2>1, MarkedAt
  <2>3. Marked[p + 1] = c
    BY ZenonT(40), <1>3, <2>2, SecondReads
  <2> HIDE DEF c
  <2>4. QED
    BY <2>1, <2>3
<1>5. ASSUME NEW k \in 1..L - p - 1, k - 1 \in S
      PROVE  k \in S
  <2> DEFINE i == p + 1 + k
  <2>1. /\ i \in 1..Len(text) /\ i \in p..L /\ i - 1 = p + 1 + (k - 1) /\ k \in 0..L - p - 1
    BY <1>1, <1>2
  <2>2. Marked[i - 1] = c
    BY <1>5, <2>1
  <2> HIDE DEF i
  <2>3. Marked[i] = Reads(text, i, Marked[i - 1])
    BY <2>1, MarkedAt
  <2>4. text[i] # Newline
    BY SMTT(30), <1>1, <2>1 DEF IsLine
  <2>5. Marked[i] = c
    BY <2>2, <2>3, <2>4 DEF Reads, Is
  <2>6. QED
    BY <2>1, <2>5 DEF i
<1>6. 0..L - p - 1 \subseteq S
  <2>1. L - p - 1 \in Nat
    BY <1>1, <1>2
  <2> HIDE DEF S
  <2>2. QED
    BY <1>4, <1>5, <2>1, LoopInvariant
<1>7. \A j \in p + 1..L : Marked[j] = c
  <2>1. ASSUME NEW j \in p + 1..L
        PROVE  Marked[j] = c
    <3>1. j - p - 1 \in 0..L - p - 1 /\ p + 1 + (j - p - 1) = j
      BY <1>1
    <3>2. QED
      BY <1>6, <3>1
  <2>2. QED
    BY <2>1
<1>8. \A j \in p..L : j = p \/ j \in p + 1..L
  BY <1>1
<1>9. L \in p + 1..L
  BY <1>1, <1>2
<1>10. Is("comment", "line", 0, TRUE).in = "comment" /\ c.in = "comment"
  BY DEF Is
<1>11. QED
  <2> HIDE DEF c
  <2> QED
    BY <1>2, <1>3, <1>7, <1>8, <1>9, <1>10 DEF c

\* One character
LEMMA OneTaken ==
  ASSUME Whole, NEW s, LexerInv(s), NEW p \in 1..Len(text), p = s.next,
         NEW s1, Taken(s, s1, p, p + 1),
         s1.code <=> s.code \/ p \in Solids,
         p \notin Cuts,
         p \in Solids => s.code \/ (Ink(text, p) /\ s.start = LineOf(text, p)),
         \/ OpenQuote(p + 1)
         \/ p \in Solids /\ Ink(text, p)
         \/ ~OpenQuote(p) /\ p \notin Solids,
         FlagsInv(s1, p + 1)
  PROVE  LexerInv(s1)
<1>1. /\ Len(text) \in Nat /\ p \in Nat /\ p + 1 \in Nat /\ p < p + 1 /\ p + 1 <= Len(text) + 2
      /\ (p + 1) - p = 1 /\ (p + 1) - 1 = p
  BY DEF Whole
<1>4. p..(p + 1) - 1 = {p}
  OBVIOUS
<1>2. Takes(s, s1, p, p + 1)
  BY <1>1, <1>4 DEF Takes
<1>3. QED
  BY <1>1, <1>2, TakeStep

\* Taking a comment leaves the statement that is open alone.
LEMMA CommentTaken ==
  ASSUME Whole, NEW s, LexerInv(s), NEW p, p = s.next,
         NEW r \in Nat, p < r, r <= Len(text) + 1,
         \A j \in p..r - 1 : Marked[j].in = "comment", ~OpenQuote(p),
         NEW s1, Taken(s, s1, p, r), s1.code = s.code, FlagsInv(s1, r)
  PROVE  LexerInv(s1)
<1>1. p \in Nat \ {0} /\ Len(text) \in Nat /\ r <= Len(text) + 2 /\ s.code \in BOOLEAN
  BY DEF LexerInv, Whole, States
<1>2. ASSUME NEW j \in p..r - 1
      PROVE  j \notin Solids /\ j \notin Cuts
  <2>1. j \in 1..Len(text)
    BY <1>1
  <2>2. QED
    BY <2>1, Meaning
<1>3. Takes(s, s1, p, r)
  BY <1>1, <1>2 DEF Takes
<1>4. QED
  BY <1>1, <1>3, TakeStep

\* ... and the line at which it starts
LEMMA LineKept ==
  ASSUME NEW line, NEW lineNo, NEW s, NEW s1, LineInv(s, line, lineNo),
         s.next \in Nat, s1.next \in Nat, line.last \in Nat,
         s.next <= s1.next, s1.start = s.start, s.code => s1.code
  PROVE  LineInv(s1, line, lineNo)
BY DEF LineInv, BlankBetween

\* A statement that starts here has been given this line.
LEMMA StartsHere ==
  ASSUME NEW line, NEW lineNo, IsLine(line, lineNo), NEW s, LineInv(s, line, lineNo),
         s.next \in line.first..line.last, text[s.next] \notin Blanks, ~s.code
  PROVE  s.start = LineOf(text, s.next)
<1>1. s.next \in s.next..line.last
  BY DEF IsLine
<1>2. QED
  BY <1>1 DEF IsLine, LineInv, BlankBetween

-----------------------------------------------------------------------------
(***************************************************************************)
(* The turns of the inner loop.                                            *)
(***************************************************************************)

\* What holds before a turn, at a position of the line.
AtTurn(line, lineNo, s) ==
  /\ Whole /\ IsLine(line, lineNo) /\ LexerInv(s) /\ LineInv(s, line, lineNo)
  /\ s.next \in line.first..line.last

\* What the turn has to establish
TurnDone(line, lineNo, s, s1) ==
  /\ LexerInv(s1) /\ LineInv(s1, line, lineNo)
  /\ s1.next \in s.next + 1..line.last + 1

\* The mark before the turn, and what it says.
TurnFacts(line, lineNo, s, p, m) ==
  /\ Whole /\ IsLine(line, lineNo) /\ LexerInv(s) /\ LineInv(s, line, lineNo)
  /\ p = s.next /\ m = Marked[p - 1]
  /\ s \in States /\ p \in Nat /\ p \in 1..Len(text) /\ Len(text) \in Nat
  /\ line.last \in Nat /\ p \in line.first..line.last /\ line.last <= Len(text)
  /\ m \in Marks /\ ReadWell(text, m, p - 1) /\ Marked[p] = Reads(text, p, m)
  /\ s.single <=> m.after = "'"
  /\ s.double <=> m.after = "\""
  /\ s.block <=> m.after = "block"
  /\ m.second => m.in = "quote" /\ text[p] = "$"
  /\ m.in = "quote" => s.code
  /\ m.after \in {"code", "block"} \cup Quotes
  /\ m.after = "$" => text[p] \in {"a", "$"} \cup Blanks
  /\ OpenQuote(p) <=> m.after \in Quotes
  /\ text[p] \notin Blanks => s.code \/ s.start = LineOf(text, p)
  /\ text[p] # Newline /\ lineNo \in Nat

\* What is known at the beginning of a turn
LEMMA AtTurnFacts ==
  ASSUME NEW line, NEW lineNo, NEW s, AtTurn(line, lineNo, s)
  PROVE  TurnFacts(line, lineNo, s, s.next, Marked[s.next - 1])
<1> DEFINE p == s.next
           m == Marked[p - 1]
<1>1. /\ Whole /\ IsLine(line, lineNo) /\ LexerInv(s) /\ LineInv(s, line, lineNo)
      /\ p \in line.first..line.last
  BY DEF AtTurn
<1>2. /\ s \in States /\ p \in Nat /\ p \in 1..Len(text) /\ Len(text) \in Nat
      /\ line.last \in Nat /\ p <= line.last /\ line.last <= Len(text)
      /\ text[p] # Newline /\ lineNo \in Nat
  BY <1>1 DEF LexerInv, IsLine, Whole
<1>3. m \in Marks /\ ReadWell(text, m, p - 1) /\ Marked[p] = Reads(text, p, m)
  BY <1>1, <1>2, MarkedAt
<1>4. FlagsInv(s, p)
  BY <1>1 DEF LexerInv
<1>5. p <= Len(text) + 1 /\ p # Len(text) + 1
  BY <1>2
<1>6. /\ s.single <=> m.after = "'"
      /\ s.double <=> m.after = "\""
      /\ s.block <=> m.after = "block"
      /\ m.second => m.in = "quote"
      /\ m.after # "line"
  BY <1>2, <1>4, <1>5 DEF FlagsInv
<1>7. m.second => text[p] = "$"
  <2>1. (p - 1) + 1 = p
    BY <1>2
  <2>2. QED
    BY <1>3, <1>6, <2>1 DEF ReadWell
<1>8. m.in = "quote" => s.code
  BY <1>1, <1>5, QuoteIsCode
<1>9. m.after \in {"code", "block"} \cup Quotes
  BY <1>3, <1>6 DEF Marks
<1>10. m.after = "$" => text[p] \in {"a", "$"} \cup Blanks
  BY <1>1, <1>2, InDollar
<1>11. OpenQuote(p) <=> m.after \in Quotes
  BY <1>2 DEF OpenQuote
<1>12. text[p] \notin Blanks => s.code \/ s.start = LineOf(text, p)
  BY <1>1, StartsHere
<1>13. QED
  BY <1>1, <1>2, <1>3, <1>6, <1>7, <1>8, <1>9, <1>10, <1>11, <1>12 DEF TurnFacts

\* A character in a block comment
LEMMA BlockReads ==
  ASSUME NEW t, NEW i, NEW d \in Nat
  PROVE  /\ Two(t, i, "/", "*") => ReadsBlock(t, i, d) = Is("comment", "block", d + 1, TRUE)
         /\ Two(t, i, "*", "/") /\ d = 1 => ReadsBlock(t, i, d) = Is("comment", "code", 0, TRUE)
         /\ ~Two(t, i, "/", "*") /\ ~Two(t, i, "*", "/") =>
              ReadsBlock(t, i, d) = Is("comment", "block", d, FALSE)
<1>1. Two(t, i, "/", "*") => ReadsBlock(t, i, d) = Is("comment", "block", d + 1, TRUE)
  BY DEF ReadsBlock, Two
<1>2. Two(t, i, "*", "/") /\ d = 1 => ReadsBlock(t, i, d) = Is("comment", "code", 0, TRUE)
  BY DEF ReadsBlock, Two
<1>3. ASSUME ~Two(t, i, "/", "*"), ~Two(t, i, "*", "/")
      PROVE  ReadsBlock(t, i, d) = Is("comment", "block", d, FALSE)
  BY <1>3, Zenon DEF ReadsBlock
<1>4. QED
  BY <1>1, <1>2, <1>3

\* The flags are what mark u says, and a line comment is not open.
Agree(u, single, double, block) ==
  /\ single <=> u.after = "'"
  /\ double <=> u.after = "\""
  /\ block <=> u.after = "block"
  /\ u.second => u.in = "quote"
  /\ u.after # "line"

\* FlagsInv from the flags one by one
LEMMA FlagsAgree ==
  ASSUME NEW r \in Nat, NEW u, u = Marked[r - 1], NEW s, Agree(u, s.single, s.double, s.block)
  PROVE  FlagsInv(s, r)
BY DEF Agree, FlagsInv

\* A turn that takes one character
LEMMA OneTurn ==
  ASSUME NEW line, NEW lineNo, NEW s, NEW p, NEW m, TurnFacts(line, lineNo, s, p, m),
         NEW u, u = Marked[p],
         NEW s1, NEW single, NEW double, NEW block, NEW code,
         TakenAs(s, s1, p, p + 1, single, double, block, code),
         code <=> s.code \/ u.in = "quote" \/ (u.in = "code" /\ text[p] \notin Blanks),
         u.in = "quote" =>
           /\ s.code \/ text[p] \notin Blanks
           /\ u.after \in Quotes \/ text[p] \notin Blanks,
         u.in # "quote" => m.after \notin Quotes,
         u.in = "code" => text[p] # ";",
         Agree(u, single, double, block)
  PROVE  TurnDone(line, lineNo, s, s1)
<1>1. /\ Whole /\ IsLine(line, lineNo) /\ LexerInv(s) /\ LineInv(s, line, lineNo)
      /\ p \in Nat /\ p \in 1..Len(text) /\ Len(text) \in Nat /\ p = s.next
      /\ line.last \in Nat /\ p \in line.first..line.last
      /\ OpenQuote(p) <=> m.after \in Quotes
      /\ text[p] \notin Blanks => s.code \/ s.start = LineOf(text, p)
  BY DEF TurnFacts
<1>2. /\ Taken(s, s1, p, p + 1) /\ s1.code = code
      /\ s1.next = p + 1 /\ s1.start = s.start
      /\ Agree(u, s1.single, s1.double, s1.block)
  BY DEF TakenAs, Taken
<1>3. p + 1 \in Nat /\ (p + 1) - 1 = p /\ p <= Len(text) /\ p <= p + 1 /\ p <= line.last
  <2>1. p \in Nat /\ p \in 1..Len(text) /\ Len(text) \in Nat /\ line.last \in Nat
        /\ p \in line.first..line.last
    BY <1>1
  <2>2. QED
    BY ONLY <2>1
<1>4. FlagsInv(s1, p + 1)
  BY <1>2, <1>3, FlagsAgree
<1>5. /\ p \in Solids <=> u.in = "quote" \/ (u.in = "code" /\ text[p] \notin Blanks)
      /\ p \notin Cuts
  BY <1>1, Meaning
<1>6. Ink(text, p) <=> text[p] \notin Blanks
  BY <1>3 DEF Ink
<1>7. OpenQuote(p + 1) <=> u.after \in Quotes
  BY <1>3 DEF OpenQuote
<1>8. p \in Solids => s.code \/ (Ink(text, p) /\ s.start = LineOf(text, p))
  BY <1>1, <1>5, <1>6
<1>9. \/ OpenQuote(p + 1)
      \/ p \in Solids /\ Ink(text, p)
      \/ ~OpenQuote(p) /\ p \notin Solids
  BY <1>1, <1>5, <1>6, <1>7
<1>10. s1.code <=> s.code \/ p \in Solids
  BY <1>2, <1>5
<1>11. LexerInv(s1)
  BY <1>1, <1>2, <1>4, <1>5, <1>8, <1>9, <1>10, OneTaken
<1>12. LineInv(s1, line, lineNo)
  BY <1>1, <1>2, <1>3, <1>10, LineKept
<1>13. s1.next \in s.next + 1..line.last + 1
  <2>1. p + 1 \in p + 1..line.last + 1
    <3>1. p \in Nat /\ line.last \in Nat /\ p <= line.last
      BY <1>1, <1>3
    <3>2. QED
      BY ONLY <3>1
  <2>2. QED
    BY <1>1, <1>2, <2>1
<1>14. QED
  BY <1>11, <1>12, <1>13 DEF TurnDone

\* A turn that takes characters of a comment
LEMMA CommentTurn ==
  ASSUME NEW line, NEW lineNo, NEW s, NEW p, NEW m, TurnFacts(line, lineNo, s, p, m),
         m.after \notin Quotes,
         NEW r \in Nat, p < r, r <= line.last + 1,
         \A j \in p..r - 1 : Marked[j].in = "comment",
         NEW s1, NEW single, NEW double, NEW block,
         TakenAs(s, s1, p, r, single, double, block, s.code), FlagsInv(s1, r)
  PROVE  TurnDone(line, lineNo, s, s1)
<1>1. /\ Whole /\ IsLine(line, lineNo) /\ LexerInv(s) /\ LineInv(s, line, lineNo)
      /\ p \in Nat /\ p \in 1..Len(text) /\ Len(text) \in Nat /\ p = s.next
      /\ line.last \in Nat /\ p \in line.first..line.last /\ line.last <= Len(text)
      /\ ~OpenQuote(p)
  BY DEF TurnFacts
<1>2. /\ Taken(s, s1, p, r) /\ s1.code = s.code
      /\ s1.next = r /\ s1.start = s.start
  BY DEF TakenAs, Taken
<1>3. r <= Len(text) + 1 /\ p <= r /\ p + 1 <= r
  BY <1>1
<1>4. LexerInv(s1)
  BY <1>1, <1>2, <1>3, CommentTaken
<1>5. LineInv(s1, line, lineNo)
  BY <1>1, <1>2, <1>3, LineKept
<1>6. s1.next \in s.next + 1..line.last + 1
  BY <1>1, <1>2, <1>3
<1>7. QED
  BY <1>4, <1>5, <1>6 DEF TurnDone

\* In a comment of the form /* */
LEMMA BlockTurn ==
  ASSUME NEW line, NEW lineNo, NEW s, NEW p, NEW m, TurnFacts(line, lineNo, s, p, m), s.block
  PROVE  TurnDone(line, lineNo, s, Lex(text, line, lineNo, s, p))
<1> DEFINE u == Marked[p]
           v == Marked[p + 1]
<1>1. /\ Whole /\ IsLine(line, lineNo) /\ LexerInv(s)
      /\ s \in States /\ p \in Nat /\ p \in 1..Len(text) /\ Len(text) \in Nat
      /\ line.last \in Nat /\ p \in line.first..line.last /\ line.last <= Len(text)
      /\ m \in Marks /\ u = Reads(text, p, m) /\ m = Marked[p - 1]
  BY DEF TurnFacts
<1>2. /\ m.after = "block" /\ m.in = "comment" /\ ~m.second /\ m.depth \in Nat /\ m.depth > 0
      /\ ~s.single /\ ~s.double
  <2>1. m.after = "block"
    BY DEF TurnFacts
  <2>2. m.in = "comment" /\ m.depth > 0
    BY <2>1 DEF TurnFacts, ReadWell
  <2>3. m.depth \in Nat
    BY <1>1 DEF Marks
  <2>4. ~m.second /\ ~s.single /\ ~s.double
    BY <2>1, <2>2 DEF TurnFacts
  <2>5. QED
    BY <2>1, <2>2, <2>3, <2>4
<1>3. u = ReadsBlock(text, p, m.depth) /\ u.depth <= 1
  BY <1>1, <1>2, MarkedAt DEF Reads
<1>4. Pair(text, line, p, "*", "/") <=> Two(text, p, "*", "/")
  <2>1. "/" # Newline
    BY DEF Newline
  <2>2. QED
    BY <1>1, <2>1, PairIsTwo
<1>5. m.after \notin Quotes
  BY <1>2 DEF Quotes
<1>6. CASE Pair(text, line, p, "*", "/")
  <2>1. m.depth = 1
    <3>1. p - 1 # 0
      <4>1. Marked[0] = Is("code", "code", 0, FALSE)
        BY <1>1, ReadingGoes DEF Whole, Marked
      <4>2. QED
        BY <1>1, <1>2, <4>1 DEF Is
    <3>2. p - 1 \in 1..Len(text)
      BY <1>1, <3>1
    <3>3. m.depth <= 1
      BY <1>1, <3>2, MarkedAt
    <3>4. QED
      BY <1>2, <3>3
  <2>2. u = Is("comment", "code", 0, TRUE)
    BY <1>2, <1>3, <1>4, <1>6, <2>1, BlockReads
  <2>3. p < line.last /\ p + 1 \in 1..Len(text) /\ (p + 1) - 1 = p
    BY <1>1, <1>6 DEF Pair
  <2>4. v = Is("comment", "code", 0, FALSE)
    <3>1. v = Reads(text, p + 1, u)
      BY <1>1, <2>3, MarkedAt
    <3>2. Reads(text, p + 1, Is("comment", "code", 0, TRUE)) = Is("comment", "code", 0, FALSE)
      BY SecondReads
    <3>3. QED
      BY <2>2, <3>1, <3>2
  <2> DEFINE s1 == Lex(text, line, lineNo, s, p)
  <2>5. TakenAs(s, s1, p, p + 2, s.single, s.double, FALSE, s.code)
    BY <1>1, <1>6, LexBlockEnd
  <2> HIDE DEF s1
  <2>6. /\ u.in = "comment" /\ v.in = "comment" /\ v.after = "code" /\ ~v.second
    BY <2>2, <2>4 DEF Is
  <2> HIDE DEF u, v
  <2>7. FlagsInv(s1, p + 2)
    <3>1. (p + 2) - 1 = p + 1 /\ p + 2 \in Nat
      BY <1>1
    <3>2. Agree(v, s1.single, s1.double, s1.block)
      BY <1>2, <2>5, <2>6 DEF Agree, TakenAs
    <3>3. QED
      BY <3>1, <3>2, FlagsAgree DEF v
  <2>8. \A j \in p..(p + 2) - 1 : Marked[j].in = "comment"
    <3>1. \A j \in p..(p + 2) - 1 : j = p \/ j = p + 1
      BY <1>1
    <3>2. QED
      BY <2>6, <3>1 DEF u, v
  <2>9. p + 2 \in Nat /\ p < p + 2 /\ p + 2 <= line.last + 1
    BY <1>1, <2>3
  <2>10. QED
    BY <1>5, <2>5, <2>7, <2>8, <2>9, CommentTurn DEF s1
<1>7. CASE ~Pair(text, line, p, "*", "/")
  <2>1. u = Is("comment", "block", m.depth, FALSE)
    <3>1. ~Two(text, p, "/", "*")
      <4>1. ASSUME Two(text, p, "/", "*")
            PROVE  FALSE
        <5>1. u = Is("comment", "block", m.depth + 1, TRUE)
          BY <1>2, <1>3, <4>1, BlockReads
        <5>2. u.depth = m.depth + 1
          BY <5>1 DEF Is
        <5>3. QED
          BY <1>2, <1>3, <5>2
      <4>2. QED
        BY <4>1
    <3>2. QED
      BY <1>2, <1>3, <1>4, <1>7, <3>1, BlockReads
  <2> DEFINE s1 == Lex(text, line, lineNo, s, p)
  <2>2. TakenAs(s, s1, p, p + 1, s.single, s.double, s.block, s.code)
    BY <1>1, <1>7, LexBlock
  <2> HIDE DEF s1
  <2>3. u.in = "comment" /\ u.after = "block" /\ ~u.second
    BY <2>1 DEF Is
  <2> HIDE DEF u
  <2>4. Agree(u, s.single, s.double, s.block)
    BY <1>2, <2>3 DEF Agree
  <2>5. QED
    BY <1>5, <2>2, <2>3, <2>4, OneTurn DEF u, s1
<1>8. QED
  BY <1>6, <1>7

\* Between quotes
LEMMA QuoteTurn ==
  ASSUME NEW line, NEW lineNo, NEW s, NEW p, NEW m, TurnFacts(line, lineNo, s, p, m),
         m.in = "quote", m.after \in Quotes \/ m.second
  PROVE  TurnDone(line, lineNo, s, Lex(text, line, lineNo, s, p))
<1> DEFINE u == Marked[p]
           s1 == Lex(text, line, lineNo, s, p)
<1>1. s \in States /\ p \in Nat /\ m \in Marks /\ u = Reads(text, p, m)
  BY DEF TurnFacts
<1>2. /\ s.code /\ ~s.block /\ m.after \in {"code"} \cup Quotes
      /\ s.single <=> m.after = "'"
      /\ s.double <=> m.after = "\""
      /\ m.second => text[p] = "$"
      /\ m.after = "$" => text[p] \in {"a", "$"} \cup Blanks
  BY DEF TurnFacts, ReadWell, Quotes
<1> SUFFICES TurnDone(line, lineNo, s, s1)
  OBVIOUS
<1> HIDE DEF u, s1
\* What is left to do, once the flags after the turn are known
<1>3. ASSUME NEW single, NEW double, NEW block, NEW code,
             TakenAs(s, s1, p, p + 1, single, double, block, code), code,
             Agree(u, single, double, block), u.in = "quote",
             u.after \in Quotes \/ text[p] \notin Blanks
      PROVE  TurnDone(line, lineNo, s, s1)
  BY <1>2, <1>3, OneTurn DEF u
\* ... and if they do not change
<1>4. ASSUME text[p] # ";" \/ s.single \/ s.double, ~(text[p] = "'" /\ ~s.double),
             ~(text[p] = "\"" /\ ~s.single),
             s.single \/ s.double \/ text[p] \notin {"-", "/"},
             u.in = "quote", u.after \in Quotes \/ text[p] \notin Blanks,
             Agree(u, s.single, s.double, s.block)
      PROVE  TurnDone(line, lineNo, s, s1)
  <2>1. /\ s.single \/ s.double \/ ~Pair(text, line, p, "-", "-")
        /\ s.single \/ s.double \/ ~Pair(text, line, p, "/", "*")
    BY <1>4 DEF Pair
  <2>2. TakenAs(s, s1, p, p + 1, s.single, s.double, s.block, s.code \/ text[p] \notin Blanks)
    BY <1>1, <1>2, <1>4, <2>1, LexOther DEF s1
  <2>3. QED
    BY <1>2, <1>3, <1>4, <2>2
<1>5. CASE m.second
  <2>1. u.in = "quote" /\ u.after = m.after /\ ~u.second
    <3>1. u = [m EXCEPT !.second = FALSE]
      BY <1>1, <1>5 DEF Reads
    <3>2. QED
      BY <1>1, <3>1 DEF Marks
  <2>2. text[p] = "$" /\ text[p] \notin Blanks
    BY <1>2, <1>5 DEF Blanks, Newline
  <2>3. Agree(u, s.single, s.double, s.block)
    BY <1>2, <2>1 DEF Agree, Quotes
  <2>4. QED
    BY <1>4, <2>1, <2>2, <2>3
<1>6. CASE ~m.second /\ m.after = "'"
  <2>1. s.single /\ ~s.double
    BY <1>2, <1>6
  <2>2. CASE text[p] = "'"
    <3>1. u = Is("quote", "code", 0, FALSE)
      BY <1>1, <1>6, <2>2 DEF Reads
    <3>2. u.in = "quote" /\ u.after = "code" /\ ~u.second
      BY <3>1 DEF Is
    <3>3. TakenAs(s, s1, p, p + 1, ~s.single, s.double, s.block, TRUE)
      BY <1>1, <1>2, <2>1, <2>2, LexSingle DEF s1
    <3>4. text[p] \notin Blanks
      BY <2>2 DEF Blanks, Newline
    <3>5. Agree(u, ~s.single, s.double, s.block)
      BY <1>2, <2>1, <3>2 DEF Agree
    <3>6. QED
      BY <1>3, <3>2, <3>3, <3>4, <3>5
  <2>3. CASE text[p] # "'"
    <3>1. u = Is("quote", "'", 0, FALSE)
      BY <1>1, <1>6, <2>3 DEF Reads
    <3>2. u.in = "quote" /\ u.after = "'" /\ ~u.second
      BY <3>1 DEF Is
    <3>3. Agree(u, s.single, s.double, s.block) /\ u.after \in Quotes
      BY <1>2, <2>1, <3>2 DEF Agree, Quotes
    <3>4. QED
      BY <1>4, <2>1, <2>3, <3>2, <3>3
  <2>4. QED
    BY <2>2, <2>3
<1>7. CASE ~m.second /\ m.after = "\""
  <2>1. s.double /\ ~s.single
    BY <1>2, <1>7
  <2>2. CASE text[p] = "\""
    <3>1. u = Is("quote", "code", 0, FALSE)
      BY <1>1, <1>7, <2>2 DEF Reads
    <3>2. u.in = "quote" /\ u.after = "code" /\ ~u.second
      BY <3>1 DEF Is
    <3>3. TakenAs(s, s1, p, p + 1, s.single, ~s.double, s.block, TRUE)
      BY <1>1, <1>2, <2>1, <2>2, LexDouble DEF s1
    <3>4. text[p] \notin Blanks
      BY <2>2 DEF Blanks, Newline
    <3>5. Agree(u, s.single, ~s.double, s.block)
      BY <1>2, <2>1, <3>2 DEF Agree
    <3>6. QED
      BY <1>3, <3>2, <3>3, <3>4, <3>5
  <2>3. CASE text[p] # "\""
    <3>1. u = Is("quote", "\"", 0, FALSE)
      BY <1>1, <1>7, <2>3 DEF Reads
    <3>2. u.in = "quote" /\ u.after = "\"" /\ ~u.second
      BY <3>1 DEF Is
    <3>3. Agree(u, s.single, s.double, s.block) /\ u.after \in Quotes
      BY <1>2, <2>1, <3>2 DEF Agree, Quotes
    <3>4. QED
      BY <1>4, <2>1, <2>3, <3>2, <3>3
  <2>4. QED
    BY <2>2, <2>3
<1>8. CASE ~m.second /\ m.after = "$"
  <2>1. /\ ~s.single /\ ~s.double
        /\ text[p] # ";" /\ text[p] # "'" /\ text[p] # "\"" /\ text[p] \notin {"-", "/"}
    BY <1>2, <1>8 DEF Blanks, Newline
  <2>2. CASE Two(text, p, "$", "$")
    <3>1. u = Is("quote", "code", 0, TRUE)
      BY <1>1, <1>8, <2>2 DEF Reads
    <3>2. u.in = "quote" /\ u.after = "code"
      BY <3>1 DEF Is
    <3>3. text[p] \notin Blanks
      BY <2>2 DEF Two, Blanks, Newline
    <3>4. Agree(u, s.single, s.double, s.block)
      BY <1>2, <2>1, <3>2 DEF Agree
    <3>5. QED
      BY <1>4, <2>1, <3>2, <3>3, <3>4
  <2>3. CASE ~Two(text, p, "$", "$")
    <3>1. u = Is("quote", "$", 0, FALSE)
      BY <1>1, <1>8, <2>3 DEF Reads
    <3>2. u.in = "quote" /\ u.after = "$" /\ ~u.second
      BY <3>1 DEF Is
    <3>3. Agree(u, s.single, s.double, s.block) /\ u.after \in Quotes
      BY <1>2, <2>1, <3>2 DEF Agree, Quotes
    <3>4. QED
      BY <1>4, <2>1, <3>2, <3>3
  <2>4. QED
    BY <2>2, <2>3
<1>9. QED
  BY <1>2, <1>5, <1>6, <1>7, <1>8 DEF Quotes

\* After an end nothing is open.
LEMMA AfterEnd ==
  ASSUME Whole, NEW p \in Cuts
  PROVE  SolidIn(p + 1, p + 1) = {} /\ Done(p + 1) = 1..p /\ p \in 1..Len(text) /\ Len(text) \in Nat
<1>1. /\ Solids \in SUBSET (1..Len(text)) /\ Cuts \in SUBSET (1..Len(text)) /\ Len(text) \in Nat
  BY PositionsTyped DEF Whole
<1>2. \A i \in Nat : i < p + 1 => ~Since(i, p + 1)
  <2>1. ASSUME NEW i \in Nat, i < p + 1, Since(i, p + 1)
        PROVE  FALSE
    <3>1. p \in Nat /\ p < p + 1
      BY <1>1
    <3>2. p < i
      BY <2>1, <3>1 DEF Since
    <3>3. QED
      BY <2>1, <3>1, <3>2
  <2>2. QED
    BY <2>1
<1>3. SolidIn(p + 1, p + 1) = {}
  <2>1. \A i \in Solids : i \in Nat
    BY <1>1
  <2>2. QED
    BY <1>2, <2>1 DEF SolidIn
<1>4. Done(p + 1) = 1..p
  <2>1. \A i \in 1..p : i \in Nat /\ i < p + 1
    BY <1>1
  <2>2. (p + 1) - 1 = p
    BY <1>1
  <2>3. QED
    BY <1>2, <2>1, <2>2 DEF Done
<1>5. QED
  BY <1>1, <1>3, <1>4

\* The statement that ends at p
LEMMA EndsHere ==
  ASSUME Whole, NEW s, LexerInv(s), NEW p \in Cuts, p = s.next, ~OpenQuote(p + 1), Ink(text, p),
         p \in Solids, ~s.code => s.start = LineOf(text, p),
         NEW q, q = s.sql \o Run(p, 1), NEW stmts,
         stmts = IF Trimmed(text, q) = <<>> THEN s.stmts
                 ELSE Append(s.stmts, [sql |-> Trimmed(text, q), line |-> s.start])
  PROVE  StmtsInv(stmts, 1..p)
<1> DEFINE old == SolidIn(p, p)
           new == SolidIn(p, p + 1)
<1>1. /\ Solids \in SUBSET (1..Len(text)) /\ Cuts \in SUBSET (1..Len(text)) /\ Len(text) \in Nat
  BY PositionsTyped DEF Whole
<1>2. /\ p \in Nat \ {0} /\ p + 1 \in Nat \ {0} /\ p <= p + 1 /\ (p + 1) - p = 1 /\ (p + 1) - 1 = p
      /\ p < p + 1 /\ p <= p
  BY <1>1
<1>3. /\ SqlInv(s.sql, p, p) /\ InkInv(p, p) /\ (s.code <=> old # {})
      /\ StartInv(s.start, p, p) /\ StmtsInv(s.stmts, Done(p)) /\ s \in States
  BY DEF LexerInv
<1>4. /\ s.sql \in Seq(Nat) /\ s.start \in Nat /\ s.stmts \in Seq([sql : Seq(Nat), line : Nat])
  BY <1>3 DEF States
<1>5. q \in Seq(Nat) /\ SqlInv(q, p, p + 1)
  BY <1>2, <1>3, <1>4, SqlTake
<1>6. new = old \cup {p} /\ \A i \in new : i \in Nat /\ i <= p
  <2>1. Since(p, p)
    BY DEF Since
  <2>2. \A i \in Solids : i \in Nat /\ (i < p + 1 <=> i < p \/ i = p)
    <3>1. p \in Nat /\ Solids \in SUBSET (1..Len(text)) /\ Len(text) \in Nat
      BY <1>1, <1>2
    <3>2. QED
      BY ONLY <3>1
  <2>3. new = old \cup {p}
    BY <2>1, <2>2 DEF SolidIn
  <2>4. \A i \in new : i \in Solids /\ i < p + 1
    BY DEF SolidIn
  <2>5. \A i \in new : i \in Nat /\ (i < p \/ i = p)
    BY <2>2, <2>4
  <2>6. \A i \in new : i <= p
    <3>1. p \in Nat
      BY <1>2
    <3>2. QED
      BY ONLY <2>5, <3>1
  <2>7. QED
    BY <2>3, <2>5, <2>6
<1>7. \A i \in old : i \in Nat /\ i < p
  BY <1>1 DEF SolidIn
<1> HIDE DEF old, new
<1>8. InkInv(p, p + 1)
  <2>1. ASSUME NEW i \in new
        PROVE  \E j \in new : j <= i /\ Ink(text, j)
    <3>1. CASE i \in old
      BY <1>3, <1>6, <3>1 DEF InkInv, old
    <3>2. CASE i = p
      BY <1>2, <1>6, <3>2
    <3>3. QED
      BY <1>6, <3>1, <3>2
  <2>2. \A i \in new : p \in new /\ i <= p /\ Ink(text, p)
    BY <1>6
  <2>3. QED
    BY <2>1, <2>2 DEF InkInv, new
<1>9. StartInv(s.start, p, p + 1)
  <2>1. ASSUME NEW i \in new, First(i, new)
        PROVE  s.start = LineOf(text, i)
    <3>1. CASE old = {}
      BY <1>3, <1>6, <3>1
    <3>2. CASE old # {}
      <4>1. PICK h \in old : TRUE
        BY <3>2
      <4>2. i <= h /\ h < p /\ h \in Nat /\ i \in Nat
        BY <1>6, <1>7, <2>1, <4>1 DEF First
      <4>3. i \in old
        BY <1>2, <1>6, <4>2
      <4>4. First(i, old)
        BY <1>6, <2>1, <4>3 DEF First
      <4>5. QED
        BY <1>3, <4>3, <4>4 DEF StartInv, old
    <3>3. QED
      BY <3>1, <3>2
  <2>2. QED
    BY <2>1 DEF StartInv, new
<1>10. \A e \in Cuts : e < (p + 1) - 1 => e < p
  BY <1>2
<1> DEFINE k == [s EXCEPT !.sql = q]
<1>11. k.sql = q /\ k.start = s.start /\ k.stmts = s.stmts
  BY <1>3 DEF States
<1> HIDE DEF k
<1>12. StmtsInv(stmts, 1..(p + 1) - 1)
  BY ZenonT(40), <1>2, <1>3, <1>4, <1>5, <1>8, <1>9, <1>10, <1>11, EmitStep
<1>13. QED
  BY <1>2, <1>12

\* ... and the lexer after it
LEMMA CutTaken ==
  ASSUME Whole, NEW s, LexerInv(s), NEW p \in Cuts, p = s.next,
         NEW s1 \in States, s1.sql = <<>>, ~s1.code, s1.next = p + 1, StmtsInv(s1.stmts, 1..p),
         FlagsInv(s1, p + 1)
  PROVE  LexerInv(s1)
<1>1. SolidIn(p + 1, p + 1) = {} /\ Done(p + 1) = 1..p /\ p \in 1..Len(text) /\ Len(text) \in Nat
  BY AfterEnd
<1>2. SqlInv(<<>>, p + 1, p + 1)
  <2>1. ToSet(<<>>) = {} /\ Increasing(<<>>)
    BY DEF ToSet, Increasing
  <2>2. QED
    BY <1>1, <2>1 DEF SqlInv
<1>3. InkInv(p + 1, p + 1) /\ StartInv(s1.start, p + 1, p + 1)
  BY <1>1 DEF InkInv, StartInv
<1>4. p + 1 \in 1..Len(text) + 2
  BY <1>1
<1>5. QED
  BY <1>1, <1>2, <1>3, <1>4 DEF LexerInv

\* At a semicolon that ends a statement
LEMMA CutTurn ==
  ASSUME NEW line, NEW lineNo, NEW s, NEW p, NEW m, TurnFacts(line, lineNo, s, p, m),
         ~s.block, ~s.single, ~s.double, text[p] = ";",
         Marked[p] = Is("code", "code", 0, FALSE)
  PROVE  TurnDone(line, lineNo, s, Lex(text, line, lineNo, s, p))
<1> DEFINE k == Take(s, p, 1)
           e == Emit(text, k)
           s1 == Cut(text, line, lineNo, s, p)
           u == Marked[p]
<1>1. /\ Whole /\ LexerInv(s) /\ p = s.next /\ s \in States /\ p \in Nat
      /\ p \in 1..Len(text) /\ Len(text) \in Nat /\ line.last \in Nat /\ p \in line.first..line.last
      /\ lineNo \in Nat /\ (text[p] \notin Blanks => s.code \/ s.start = LineOf(text, p))
  BY DEF TurnFacts
<1>2. text[p] \notin Blanks
  BY DEF Blanks, Newline
<1> HIDE DEF k, e, s1, u
<1>3. u.in = "code" /\ u.after = "code" /\ ~u.second
  <2>1. u = Is("code", "code", 0, FALSE)
    BY DEF u
  <2>2. QED
    BY ONLY <2>1 DEF Is
<1>4. p \in Solids /\ p \in Cuts
  BY <1>1, <1>2, <1>3, Meaning DEF u
<1> DEFINE P == /\ p \in Nat /\ (p + 1) - 1 = p /\ p + 1 \in Nat /\ p <= Len(text) /\ 1 \in Nat
                /\ p + 1 \in p + 1..line.last + 1
<1>0. P
  <2>1. /\ p \in Nat /\ p \in 1..Len(text) /\ Len(text) \in Nat
        /\ line.last \in Nat /\ p \in line.first..line.last
    BY <1>1
  <2>2. QED
    BY ONLY <2>1
<1>5. ~OpenQuote(p + 1)
  BY <1>0, <1>3 DEF OpenQuote, Quotes, u
<1>6. Ink(text, p)
  BY <1>0, <1>2 DEF Ink
<1>7. k \in States /\ k.sql = s.sql \o Run(p, 1) /\ k.stmts = s.stmts /\ k.start = s.start
  <2>1. s \in States /\ p \in Nat /\ 1 \in Nat
    BY <1>0, <1>1
  <2>2. QED
    BY ONLY <2>1, TakeFields DEF k
<1>8. e.stmts = IF Trimmed(text, k.sql) = <<>> THEN k.stmts
                ELSE Append(k.stmts, [sql |-> Trimmed(text, k.sql), line |-> k.start])
  BY <1>7, EmitFields DEF e
<1>9. /\ s1 \in States /\ s1.sql = <<>> /\ ~s1.code /\ s1.next = p + 1 /\ s1.stmts = e.stmts
      /\ s1.start = IF BlankBetween(text, p + 1, line.last) THEN s.start ELSE lineNo
      /\ s1.block = s.block /\ s1.single = s.single /\ s1.double = s.double
  <2>1. s \in States /\ p \in Nat /\ lineNo \in Nat
    BY <1>0, <1>1
  <2>2. QED
    BY ONLY <2>1, CutFields DEF s1, e, k
<1>10. Lex(text, line, lineNo, s, p) = s1
  BY ZenonT(40), <1>0, <1>1, LexCut DEF s1
<1>11. StmtsInv(s1.stmts, 1..p)
  <2>1. ~s.code => s.start = LineOf(text, p)
    BY <1>1, <1>2
  <2>2. QED
    BY <1>1, <1>4, <1>5, <1>6, <1>7, <1>8, <1>9, <2>1, EndsHere
<1>12. FlagsInv(s1, p + 1)
  <2>1. Agree(u, s1.single, s1.double, s1.block)
    BY <1>3, <1>9 DEF Agree
  <2>2. QED
    BY <1>0, <2>1, FlagsAgree DEF u
<1>13. LexerInv(s1)
  BY <1>1, <1>4, <1>9, <1>11, <1>12, CutTaken
<1>14. LineInv(s1, line, lineNo)
  BY <1>9 DEF LineInv
<1>15. s1.next \in s.next + 1..line.last + 1
  BY <1>0, <1>1, <1>9
<1>16. QED
  BY <1>10, <1>13, <1>14, <1>15 DEF TurnDone

\* "--" in code
LEMMA DashesTurn ==
  ASSUME NEW line, NEW lineNo, NEW s, NEW p, NEW m, TurnFacts(line, lineNo, s, p, m),
         m.after = "code", ~m.second, Two(text, p, "-", "-")
  PROVE  TurnDone(line, lineNo, s, Lex(text, line, lineNo, s, p))
<1> DEFINE L == line.last
           s1 == Lex(text, line, lineNo, s, p)
           u == Marked[L]
<1>1. /\ Whole /\ IsLine(line, lineNo) /\ s \in States /\ p \in Nat
      /\ L \in Nat /\ p \in line.first..L /\ m = Marked[p - 1]
  BY DEF TurnFacts
<1>2. ~s.block /\ ~s.single /\ ~s.double /\ m.after \notin Quotes
  BY DEF TurnFacts, Quotes
<1>3. /\ p < L /\ \A j \in p..L : Marked[j].in = "comment"
      /\ u = Is("comment", "line", 0, FALSE)
  BY <1>1, CommentLine
<1>4. Pair(text, line, p, "-", "-")
  <2>1. "-" # Newline
    BY DEF Newline
  <2>2. QED
    BY <1>1, <2>1, PairIsTwo
<1>5. p <= L /\ L + 1 \in Nat /\ (L + 1) - 1 = L /\ p < L + 1 /\ L + 1 <= L + 1
  <2>1. p \in Nat /\ L \in Nat /\ p < L
    BY <1>1, <1>3
  <2> HIDE DEF L
  <2>2. QED
    BY ONLY <2>1
<1> HIDE DEF s1, u
<1>6. TakenAs(s, s1, p, L + 1, s.single, s.double, s.block, s.code)
  BY <1>1, <1>2, <1>4, <1>5, LexDashes DEF s1
<1>7. u.after = "line" /\ ~u.second
  BY ONLY <1>3 DEF Is
<1>8. FlagsInv(s1, L + 1)
  <2>1. ~s1.single /\ ~s1.double /\ ~s1.block
    BY <1>2, <1>6 DEF TakenAs
  <2>2. L + 1 <= Len(text) => text[L + 1] = Newline
    BY <1>1 DEF IsLine, Breaks
  <2>3. L + 1 <= Len(text) + 1 => L + 1 = Len(text) + 1 \/ L + 1 <= Len(text)
    <3>1. L \in Nat /\ Len(text) \in Nat
      BY <1>1 DEF Whole
    <3> HIDE DEF L
    <3>2. QED
      BY ONLY <3>1
  <2>4. u = Marked[(L + 1) - 1]
    BY <1>5 DEF u
  <2> HIDE DEF L
  <2>5. QED
    BY <1>7, <2>1, <2>2, <2>3, <2>4 DEF FlagsInv
<1>9. \A j \in p..(L + 1) - 1 : Marked[j].in = "comment"
  BY <1>3, <1>5
<1>10. QED
  BY <1>2, <1>5, <1>6, <1>8, <1>9, CommentTurn DEF s1

\* "/*" in code
LEMMA OpenTurn ==
  ASSUME NEW line, NEW lineNo, NEW s, NEW p, NEW m, TurnFacts(line, lineNo, s, p, m),
         m.after = "code", Marked[p] = Is("comment", "block", 1, TRUE), Two(text, p, "/", "*")
  PROVE  TurnDone(line, lineNo, s, Lex(text, line, lineNo, s, p))
<1> DEFINE s1 == Lex(text, line, lineNo, s, p)
           u == Marked[p]
           v == Marked[p + 1]
<1>1. /\ Whole /\ IsLine(line, lineNo) /\ s \in States /\ p \in Nat
      /\ line.last \in Nat /\ p \in line.first..line.last
      /\ line.last <= Len(text) /\ Len(text) \in Nat /\ p \in 1..Len(text)
  BY DEF TurnFacts
<1>2. ~s.block /\ ~s.single /\ ~s.double /\ m.after \notin Quotes
  BY DEF TurnFacts, Quotes
<1> HIDE DEF s1
<1>3. Pair(text, line, p, "/", "*")
  <2>1. "*" # Newline
    BY DEF Newline
  <2>2. QED
    BY <1>1, <2>1, PairIsTwo
<1>4. p < line.last
  BY <1>3 DEF Pair
<1>5. /\ p + 1 \in 1..Len(text) /\ (p + 1) - 1 = p /\ (p + 2) - 1 = p + 1
      /\ p + 2 \in Nat /\ p < p + 2 /\ p + 2 <= line.last + 1
      /\ \A j \in p..(p + 2) - 1 : j = p \/ j = p + 1
  <2>1. p \in Nat /\ line.last \in Nat /\ line.last <= Len(text) /\ Len(text) \in Nat /\ p < line.last
    BY <1>1, <1>4
  <2>2. QED
    BY ONLY <2>1
<1>6. v = Is("comment", "block", 1, FALSE)
  <2>1. v = Reads(text, p + 1, u)
    BY <1>1, <1>5, MarkedAt
  <2>2. Reads(text, p + 1, Is("comment", "block", 1, TRUE)) = Is("comment", "block", 1, FALSE)
    BY ZenonT(40), SecondReads
  <2>3. QED
    BY <2>1, <2>2
<1>7. u = Is("comment", "block", 1, TRUE)
  OBVIOUS
<1> HIDE DEF u, v
<1>8. u.in = "comment" /\ v.in = "comment" /\ v.after = "block" /\ ~v.second
  BY ONLY <1>6, <1>7 DEF Is
<1>9. TakenAs(s, s1, p, p + 2, s.single, s.double, TRUE, s.code)
  BY <1>1, <1>2, <1>3, LexOpen DEF s1
<1>10. FlagsInv(s1, p + 2)
  <2>1. Agree(v, s1.single, s1.double, s1.block)
    BY <1>2, <1>8, <1>9 DEF Agree, TakenAs
  <2>2. QED
    BY <1>5, <2>1, FlagsAgree DEF v
<1>11. \A j \in p..(p + 2) - 1 : Marked[j].in = "comment"
  BY <1>5, <1>8 DEF u, v
<1>12. QED
  BY <1>2, <1>5, <1>9, <1>10, <1>11, CommentTurn DEF s1

\* Everything else in code
LEMMA CodeTurn ==
  ASSUME NEW line, NEW lineNo, NEW s, NEW p, NEW m, TurnFacts(line, lineNo, s, p, m),
         m.after = "code", ~m.second
  PROVE  TurnDone(line, lineNo, s, Lex(text, line, lineNo, s, p))
<1> DEFINE s1 == Lex(text, line, lineNo, s, p)
           u == Marked[p]
<1> SUFFICES TurnDone(line, lineNo, s, s1)
  OBVIOUS
<1>1. /\ Whole /\ IsLine(line, lineNo) /\ s \in States /\ p \in Nat /\ p \in line.first..line.last
      /\ u = Reads(text, p, m)
  BY DEF TurnFacts
<1>2. ~s.block /\ ~s.single /\ ~s.double /\ m.after \notin Quotes
  BY DEF TurnFacts, Quotes
<1> HIDE DEF s1, u
<1>3. PICK dollar \in BOOLEAN : u = ReadsCode(text, p, dollar)
  <2> DEFINE dollar == p = 1 \/ text[p - 1] \notin {"a", "$"} \/ m.in # "code"
  <2>1. u = ReadsCode(text, p, dollar)
    BY <1>1 DEF Reads
  <2>2. dollar \in BOOLEAN
    OBVIOUS
  <2> HIDE DEF dollar
  <2>3. QED
    BY <2>1, <2>2
<1>4. /\ Pair(text, line, p, "-", "-") <=> Two(text, p, "-", "-")
      /\ Pair(text, line, p, "/", "*") <=> Two(text, p, "/", "*")
  <2>1. "-" # Newline /\ "*" # Newline
    BY DEF Newline
  <2>2. QED
    BY <1>1, <2>1, PairIsTwo
<1>5. CASE Two(text, p, "-", "-")
  BY <1>5, DashesTurn DEF s1
<1>6. CASE Two(text, p, "/", "*")
  <2>1. u = Is("comment", "block", 1, TRUE)
    BY <1>3, <1>6, CodeReads
  <2>2. QED
    BY <1>6, <2>1, OpenTurn DEF s1, u
<1>7. CASE text[p] = "'"
  <2>1. u = Is("quote", "'", 0, FALSE)
    BY <1>3, <1>7, CodeReads
  <2>2. u.in = "quote" /\ u.after = "'" /\ ~u.second
    BY ONLY <2>1 DEF Is
  <2>3. TakenAs(s, s1, p, p + 1, ~s.single, s.double, s.block, TRUE)
    BY <1>1, <1>2, <1>7, LexSingle DEF s1
  <2>4. text[p] \notin Blanks
    BY <1>7 DEF Blanks, Newline
  <2>5. Agree(u, ~s.single, s.double, s.block)
    BY <1>2, <2>2 DEF Agree
  <2>6. QED
    BY <1>2, <2>2, <2>3, <2>4, <2>5, OneTurn DEF u
<1>8. CASE text[p] = "\""
  <2>1. u = Is("quote", "\"", 0, FALSE)
    BY <1>3, <1>8, CodeReads
  <2>2. u.in = "quote" /\ u.after = "\"" /\ ~u.second
    BY ONLY <2>1 DEF Is
  <2>3. TakenAs(s, s1, p, p + 1, s.single, ~s.double, s.block, TRUE)
    BY <1>1, <1>2, <1>8, LexDouble DEF s1
  <2>4. text[p] \notin Blanks
    BY <1>8 DEF Blanks, Newline
  <2>5. Agree(u, s.single, ~s.double, s.block)
    BY <1>2, <2>2 DEF Agree
  <2>6. QED
    BY <1>2, <2>2, <2>3, <2>4, <2>5, OneTurn DEF u
<1>9. ASSUME ~Two(text, p, "-", "-"), ~Two(text, p, "/", "*"), text[p] # "'", text[p] # "\"",
             text[p] # ";"
      PROVE  TakenAs(s, s1, p, p + 1, s.single, s.double, s.block, s.code \/ text[p] \notin Blanks)
  BY <1>1, <1>2, <1>4, <1>9, LexOther DEF s1
<1>10. CASE Two(text, p, "$", "$") /\ dollar
  <2>1. text[p] = "$"
    BY <1>10 DEF Two
  <2>2. u = Is("quote", "$", 0, TRUE)
    BY <1>3, <1>10, CodeReads
  <2>3. u.in = "quote" /\ u.after = "$"
    BY ONLY <2>2 DEF Is
  <2>4. ~Two(text, p, "-", "-") /\ ~Two(text, p, "/", "*") /\ text[p] \notin Blanks
    BY <2>1 DEF Two, Blanks, Newline
  <2>5. TakenAs(s, s1, p, p + 1, s.single, s.double, s.block, s.code \/ text[p] \notin Blanks)
    BY <1>9, <2>1, <2>4
  <2>6. Agree(u, s.single, s.double, s.block)
    BY <1>2, <2>3 DEF Agree
  <2>7. QED
    BY <1>2, <2>3, <2>4, <2>5, <2>6, OneTurn DEF u
<1>11. CASE /\ ~Two(text, p, "-", "-") /\ ~Two(text, p, "/", "*") /\ text[p] # "'" /\ text[p] # "\""
            /\ ~(Two(text, p, "$", "$") /\ dollar)
  <2>1. u = Is("code", "code", 0, FALSE)
    BY <1>3, <1>11, CodeReads
  <2>2. CASE text[p] = ";"
    BY <1>2, <2>1, <2>2, CutTurn DEF s1, u
  <2>3. CASE text[p] # ";"
    <3>1. u.in = "code" /\ u.after = "code" /\ ~u.second
      BY ONLY <2>1 DEF Is
    <3>2. TakenAs(s, s1, p, p + 1, s.single, s.double, s.block, s.code \/ text[p] \notin Blanks)
      BY <1>9, <1>11, <2>3
    <3>3. Agree(u, s.single, s.double, s.block)
      BY <1>2, <3>1 DEF Agree
    <3>4. QED
      BY <1>2, <2>3, <3>1, <3>2, <3>3, OneTurn DEF u
  <2>4. QED
    BY <2>2, <2>3
<1>12. QED
  BY <1>5, <1>6, <1>7, <1>8, <1>10, <1>11

\* Every turn keeps the invariant and gets on.
LEMMA LexStep ==
  ASSUME NEW line, NEW lineNo, NEW s, AtTurn(line, lineNo, s)
  PROVE  TurnDone(line, lineNo, s, Lex(text, line, lineNo, s, s.next))
<1> DEFINE p == s.next
           m == Marked[p - 1]
<1>1. TurnFacts(line, lineNo, s, p, m)
  BY AtTurnFacts
<1> HIDE DEF p, m
<1>2. /\ s.block <=> m.after = "block"
      /\ m.second => m.in = "quote"
      /\ m.after \in {"code", "block"} \cup Quotes
      /\ m.after \in Quotes => m.in = "quote"
  BY <1>1 DEF TurnFacts, ReadWell
<1>3. CASE s.block
  BY <1>1, <1>3, BlockTurn DEF p
<1>4. CASE m.after \in Quotes \/ m.second
  BY <1>1, <1>2, <1>4, QuoteTurn DEF p
<1>5. CASE m.after = "code" /\ ~m.second
  BY <1>1, <1>5, CodeTurn DEF p
<1>6. QED
  BY <1>2, <1>3, <1>4, <1>5

-----------------------------------------------------------------------------
(***************************************************************************)
(* The inner loop.                                                         *)
(***************************************************************************)

\* What holds after n turns
OnLine(line, lineNo, s, n) ==
  /\ LexerInv(s) /\ LineInv(s, line, lineNo)
  /\ s.next \in line.first + n..line.last + 1

\* A turn at position i, also one that the loop has gone past
LEMMA TurnStep ==
  ASSUME Whole, NEW line, NEW lineNo, IsLine(line, lineNo),
         NEW n \in 1..line.last - line.first + 1, NEW s, OnLine(line, lineNo, s, n - 1),
         NEW i, i = line.first + n - 1
  PROVE  OnLine(line, lineNo, Turn(text, line, lineNo, s, i), n)
<1>1. /\ line.first \in Nat /\ line.last \in Nat /\ n \in Nat /\ i \in Nat /\ s.next \in Nat
      /\ i \in line.first..line.last /\ i + 1 = line.first + n
      /\ s.next \in i..line.last + 1
  BY SMTT(30) DEF IsLine, OnLine
<1>2. CASE s.next = i
  <2>1. AtTurn(line, lineNo, s)
    BY <1>1, <1>2 DEF AtTurn, OnLine
  <2>2. TurnDone(line, lineNo, s, Lex(text, line, lineNo, s, i))
    BY <1>2, <2>1, LexStep
  <2>3. QED
    BY <1>1, <1>2, <2>2 DEF Turn, TurnDone, OnLine
<1>3. CASE s.next # i
  <2>1. s.next \in line.first + n..line.last + 1
    BY <1>1, <1>3
  <2>2. QED
    BY <1>3, <2>1 DEF Turn, OnLine
<1>4. QED
  BY <1>2, <1>3

\* The inner loop, by induction over its turns
LEMMA LexedGoes ==
  ASSUME Whole, NEW line, NEW lineNo, IsLine(line, lineNo), line.first <= line.last + 1,
         NEW s, OnLine(line, lineNo, s, 0)
  PROVE  OnLine(line, lineNo, Lexed(text, line, lineNo, s), line.last - line.first + 1)
<1> DEFINE N == line.last - line.first + 1
           Body(v, n) == Turn(text, line, lineNo, v, line.first + n - 1)
           next == [vn \in States \X (1..N) |-> Body(vn[1], vn[2])]
           Good == {nv \in (0..N) \X States : OnLine(line, lineNo, nv[2], nv[1])}
           Def(f, n) == IF n = 0 THEN s ELSE Body(f[n - 1], n)
<1>1. N \in Nat
  BY DEF IsLine
<1>2. s \in States
  BY DEF OnLine, LexerInv
<1>3. ASSUME NEW n \in 1..N, NEW v \in States, <<n - 1, v>> \in Good
      PROVE  next[<<v, n>>] \in States /\ <<n, next[<<v, n>>]>> \in Good
  <2>1. OnLine(line, lineNo, v, n - 1)
    BY <1>3
  <2>2. next[<<v, n>>] = Body(v, n)
    BY <1>3
  <2> HIDE DEF next
  <2>3. OnLine(line, lineNo, Body(v, n), n)
    BY <2>1, TurnStep
  <2>4. Body(v, n) \in States
    BY <2>3 DEF OnLine, LexerInv
  <2>5. n \in 0..N
    BY <1>1
  <2> HIDE DEF Body, N
  <2>6. QED
    BY <2>2, <2>3, <2>4, <2>5
<1>4. LoopKeeps(N, States, s, next, Good)
  <2>1. <<0, s>> \in Good
    BY <1>1, <1>2
  <2> HIDE DEF Good, next, N
  <2>2. QED
    BY <1>1, <1>2, <1>3, <2>1 DEF LoopKeeps
<1>5. PICK f : IsRun(f, N, States, s, next) /\ \A n \in 0..N : <<n, f[n]>> \in Good
  <2> HIDE DEF Good, next, N
  <2> QED
    BY <1>4, GoodStates
<1>6. /\ f \in [0..N -> States] /\ f[0] = s
      /\ \A n \in 1..N : f[n] = Body(f[n - 1], n)
  <2>1. /\ f \in [0..N -> States] /\ f[0] = s
        /\ \A n \in 1..N : f[n] = next[<<f[n - 1], n>>]
    <3> HIDE DEF next, N, Good
    <3> QED
      BY <1>5 DEF IsRun
  <2>2. \A n \in 1..N : f[n - 1] \in States
    BY <1>1, <2>1
  <2>3. \A n \in 1..N : next[<<f[n - 1], n>>] = Body(f[n - 1], n)
    <3> HIDE DEF Body
    <3> QED
      BY <2>2
  <2> HIDE DEF next, Body, N
  <2>4. QED
    BY <2>1, <2>3
<1> HIDE DEF next
<1>7. f = [n \in 0..N |-> Def(f, n)]
  <2> HIDE DEF Body
  <2>1. \A n \in 0..N : f[n] = Def(f, n)
    BY <1>1, <1>6
  <2> HIDE DEF Def, N
  <2>2. QED
    BY <1>6, <2>1
<1> DEFINE g == CHOOSE h : h = [n \in 0..N |-> Def(h, n)]
<1>8. g = [n \in 0..N |-> Def(g, n)]
  <2> HIDE DEF Def
  <2> QED
    BY <1>7
<1>9. Lexed(text, line, lineNo, s) = g[N]
  BY DEF Lexed
<1>10. g[0] = s /\ \A n \in 1..N : g[n] = Body(g[n - 1], n)
  <2> HIDE DEF g, Body
  <2> QED
    BY <1>1, <1>8
<1>11. g[N] = f[N]
  <2> DEFINE T == {n \in 0..N : g[n] = f[n]}
  <2> HIDE DEF g, Body
  <2>1. 0 \in T
    BY <1>1, <1>6, <1>10
  <2>2. ASSUME NEW n \in 1..N, n - 1 \in T
        PROVE  n \in T
    BY <1>1, <1>6, <1>10, <2>2
  <2>3. 0..N \subseteq T
    <3> HIDE DEF T, N
    <3> QED
      BY <1>1, <2>1, <2>2, LoopInvariant
  <2>4. QED
    BY <1>1, <2>3
<1>12. OnLine(line, lineNo, f[N], N)
  <2>1. \A n \in 0..N : OnLine(line, lineNo, f[n], n)
    BY <1>5
  <2> HIDE DEF N
  <2>2. N \in 0..N
    BY <1>1
  <2>3. QED
    BY <2>1, <2>2
<1>13. QED
  BY <1>9, <1>11, <1>12

-----------------------------------------------------------------------------
(***************************************************************************)
(* The end of a line, and lines that are left out.                         *)
(***************************************************************************)

\* What a break is to the server: a part of the quote or the comment that is open,
\* or nothing.
LEMMA BreakReads ==
  ASSUME Whole, NEW s, LexerInv(s), NEW q, q = s.next, q \in Breaks(text)
  PROVE  /\ q \in Nat \ {0} /\ q + 1 <= Len(text) + 2 /\ Len(text) \in Nat
         /\ q \notin Cuts
         /\ q \in Solids => s.code /\ OpenQuote(q + 1)
         /\ ~OpenQuote(q + 1) => ~OpenQuote(q)
         /\ \A s1 : s1.single = s.single /\ s1.double = s.double /\ s1.block = s.block =>
              FlagsInv(s1, q + 1)
<1>1. /\ q \in Nat \ {0} /\ q + 1 <= Len(text) + 2 /\ Len(text) \in Nat
      /\ (q = Len(text) + 1 \/ q \in 1..Len(text)) /\ (q + 1) - 1 = q
  BY DEF Whole, Breaks
<1>2. CASE q = Len(text) + 1
  <2>1. /\ Solids \in SUBSET (1..Len(text)) /\ Cuts \in SUBSET (1..Len(text))
    BY PositionsTyped DEF Whole
  <2>2. q \notin Solids /\ q \notin Cuts
    BY <1>1, <1>2, <2>1
  <2>3. Marked[Len(text)].after \in {"code", "line"}
    BY DEF Whole, Plain
  <2>4. q - 1 = Len(text) /\ ~(q + 1 <= Len(text) + 1)
    BY <1>1, <1>2
  <2>5. ~OpenQuote(q)
    BY <2>3, <2>4 DEF OpenQuote, Quotes
  <2>6. QED
    BY <1>1, <2>2, <2>4, <2>5 DEF FlagsInv
<1>3. CASE q \in 1..Len(text)
  <2> DEFINE m == Marked[q - 1]
             u == Marked[q]
  <2>1. /\ text[q] = Newline /\ q <= Len(text) /\ q <= Len(text) + 1
        /\ q - 1 <= Len(text)
    <3>1. q <= Len(text) /\ q <= Len(text) + 1 /\ q - 1 <= Len(text) /\ q \in 1..Len(text) + 1
      BY <1>1, <1>3
    <3>2. QED
      BY <3>1 DEF Breaks
  <2>2. /\ m \in Marks /\ ReadWell(text, m, q - 1) /\ u = Reads(text, q, m)
        /\ ReadWell(text, u, q)
    BY <1>3, MarkedAt
  <2>3. /\ s.single <=> m.after = "'"
        /\ s.double <=> m.after = "\""
        /\ s.block <=> m.after = "block"
        /\ m.second => m.in = "quote"
    BY <2>1 DEF LexerInv, FlagsInv
  <2>4. m.in = "quote" => s.code
    BY <2>1, QuoteIsCode
  <2>5. q \in Solids <=> u.in = "quote" \/ (u.in = "code" /\ text[q] \notin Blanks)
    BY <1>3, Meaning
  <2>6. q \in Cuts <=> u.in = "code" /\ text[q] = ";"
    BY <1>3, Meaning
  <2>7. OpenQuote(q) <=> m.after \in Quotes
    BY <2>1 DEF OpenQuote
  <2>8. OpenQuote(q + 1) <=> u.after \in Quotes
    BY <1>1, <2>1 DEF OpenQuote
  <2>9. ~m.second
    <3>1. (q - 1) + 1 = q
      BY <1>1
    <3>2. m.second => text[q] = "$"
      BY <2>2, <2>3, <3>1 DEF ReadWell
    <3>3. QED
      BY <2>1, <3>2 DEF Newline
  <2>10. text[q] \in Blanks /\ text[q] # ";"
    BY <2>1 DEF Blanks, Newline
  <2>11. ASSUME u.in \in {"code", "comment"} \/ (u.in = "quote" /\ s.code /\ u.after \in Quotes),
                u.after \in Quotes <=> m.after \in Quotes,
                Agree(u, s.single, s.double, s.block)
         PROVE  /\ q \notin Cuts /\ (q \in Solids => s.code /\ OpenQuote(q + 1))
                /\ ~OpenQuote(q + 1) => ~OpenQuote(q)
                /\ \A s1 : s1.single = s.single /\ s1.double = s.double /\ s1.block = s.block =>
                     FlagsInv(s1, q + 1)
    <3>1. /\ q \notin Cuts /\ (q \in Solids => s.code /\ OpenQuote(q + 1))
          /\ ~OpenQuote(q + 1) => ~OpenQuote(q)
      BY <2>5, <2>6, <2>7, <2>8, <2>10, <2>11
    <3>2. ASSUME NEW s1, s1.single = s.single, s1.double = s.double, s1.block = s.block
          PROVE  FlagsInv(s1, q + 1)
      <4>1. Agree(u, s1.single, s1.double, s1.block)
        BY <2>11, <3>2
      <4>2. q + 1 \in Nat
        BY <1>1
      <4> HIDE DEF u
      <4>3. QED
        BY <1>1, <4>1, <4>2, FlagsAgree DEF u
    <3>3. QED
      BY <3>1, <3>2
  <2> HIDE DEF m, u
  <2>12. CASE m.after \in Quotes
    <3>1. m.in = "quote" /\ s.code
      BY <2>2, <2>4, <2>12 DEF ReadWell
    <3>2. u = Is("quote", m.after, 0, FALSE)
      <4>1. text[q] # m.after /\ ~Two(text, q, "$", "$")
        BY <2>1, <2>12 DEF Quotes, Newline, Two
      <4>2. QED
        BY <2>2, <2>9, <2>12, <4>1 DEF Reads, Quotes
    <3>3. u.in = "quote" /\ u.after = m.after /\ ~u.second
      BY ONLY <3>2 DEF Is
    <3>4. Agree(u, s.single, s.double, s.block)
      BY <2>3, <2>12, <3>3 DEF Agree, Quotes
    <3>5. QED
      BY <1>1, <2>11, <2>12, <3>1, <3>3, <3>4
  <2>13. CASE m.after = "code"
    <3>1. PICK dollar \in BOOLEAN : u = ReadsCode(text, q, dollar)
      <4> DEFINE dollar == q = 1 \/ text[q - 1] \notin {"a", "$"} \/ m.in # "code"
      <4>1. u = ReadsCode(text, q, dollar)
        BY <2>2, <2>9, <2>13 DEF Reads
      <4>2. dollar \in BOOLEAN
        OBVIOUS
      <4> HIDE DEF dollar
      <4>3. QED
        BY <4>1, <4>2
    <3>2. u = Is("code", "code", 0, FALSE)
      <4>1. /\ text[q] # "'" /\ text[q] # "\"" /\ ~Two(text, q, "-", "-") /\ ~Two(text, q, "/", "*")
            /\ ~Two(text, q, "$", "$")
        BY <2>1 DEF Newline, Two
      <4>2. QED
        BY <3>1, <4>1, CodeReads
    <3>3. u.in = "code" /\ u.after = "code" /\ ~u.second
      BY ONLY <3>2 DEF Is
    <3>4. Agree(u, s.single, s.double, s.block) /\ u.after \notin Quotes /\ m.after \notin Quotes
      BY <2>3, <2>13, <3>3 DEF Agree, Quotes
    <3>5. QED
      BY <1>1, <2>11, <3>3, <3>4
  <2>14. CASE m.after = "block"
    <3>1. u = ReadsBlock(text, q, m.depth) /\ m.depth \in Nat
      BY <2>2, <2>9, <2>14 DEF Reads, Marks
    <3>2. u = Is("comment", "block", m.depth, FALSE)
      <4>1. ~Two(text, q, "/", "*") /\ ~Two(text, q, "*", "/")
        BY <2>1 DEF Newline, Two
      <4>2. QED
        BY <3>1, <4>1, BlockReads
    <3>3. u.in = "comment" /\ u.after = "block" /\ ~u.second
      BY ONLY <3>2 DEF Is
    <3>4. Agree(u, s.single, s.double, s.block) /\ u.after \notin Quotes /\ m.after \notin Quotes
      BY <2>3, <2>14, <3>3 DEF Agree, Quotes
    <3>5. QED
      BY <1>1, <2>11, <3>3, <3>4
  <2>15. CASE m.after = "line"
    <3>1. u = Is("comment", "code", 0, FALSE)
      BY <2>1, <2>2, <2>9, <2>15 DEF Reads
    <3>2. u.in = "comment" /\ u.after = "code" /\ ~u.second
      BY ONLY <3>1 DEF Is
    <3>3. Agree(u, s.single, s.double, s.block) /\ u.after \notin Quotes /\ m.after \notin Quotes
      BY <2>3, <2>15, <3>2 DEF Agree, Quotes
    <3>4. QED
      BY <1>1, <2>11, <3>2, <3>3
  <2>16. m.after \in {"code", "line", "block"} \cup Quotes
    BY <2>2 DEF Marks
  <2>17. QED
    BY <2>12, <2>13, <2>14, <2>15, <2>16
<1>4. QED
  BY <1>1, <1>2, <1>3

\* Blanks in code
LEMMA BlankRun ==
  ASSUME Whole, NEW a \in Nat \ {0}, NEW b \in Nat, a <= b + 1, b <= Len(text),
         Marked[a - 1].after = "code", ~Marked[a - 1].second,
         \A j \in a..b : text[j] \in Blanks
  PROVE  /\ Marked[b].after = "code" /\ ~Marked[b].second
         /\ \A j \in a..b : j \notin Solids /\ j \notin Cuts
<1> DEFINE T == {n \in 0..b - a + 1 :
                   /\ Marked[a - 1 + n].after = "code" /\ ~Marked[a - 1 + n].second
                   /\ n > 0 => Marked[a - 1 + n].in = "code"}
<1>1. b - a + 1 \in Nat /\ Len(text) \in Nat
  BY DEF Whole
<1>2. 0 \in T
  BY <1>1
<1>3. ASSUME NEW n \in 1..b - a + 1, n - 1 \in T
      PROVE  n \in T
  <2> DEFINE j == a - 1 + n
             m == Marked[j - 1]
             u == Marked[j]
  <2>1. j \in 1..Len(text) /\ j - 1 = a - 1 + (n - 1) /\ j \in a..b /\ n \in 0..b - a + 1
    BY <1>1
  <2>2. m.after = "code" /\ ~m.second
    BY <1>3, <2>1
  <2>3. u = Reads(text, j, m) /\ text[j] \in Blanks
    BY <2>1, MarkedAt
  <2> HIDE DEF j, m, u
  <2>4. PICK dollar \in BOOLEAN : u = ReadsCode(text, j, dollar)
    <3> DEFINE dollar == j = 1 \/ text[j - 1] \notin {"a", "$"} \/ m.in # "code"
    <3>1. u = ReadsCode(text, j, dollar)
      BY <2>2, <2>3 DEF Reads
    <3>2. dollar \in BOOLEAN
      OBVIOUS
    <3> HIDE DEF dollar
    <3>3. QED
      BY <3>1, <3>2
  <2>5. u = Is("code", "code", 0, FALSE)
    <3>1. /\ text[j] # "'" /\ text[j] # "\"" /\ ~Two(text, j, "-", "-") /\ ~Two(text, j, "/", "*")
          /\ ~Two(text, j, "$", "$")
      BY <2>3 DEF Blanks, Newline, Two
    <3>2. QED
      BY <2>4, <3>1, CodeReads
  <2>6. u.in = "code" /\ u.after = "code" /\ ~u.second
    BY ONLY <2>5 DEF Is
  <2>7. QED
    BY <2>1, <2>6 DEF u, j
<1>4. 0..b - a + 1 \subseteq T
  <2> HIDE DEF T
  <2> QED
    BY <1>1, <1>2, <1>3, LoopInvariant
<1>5. Marked[b].after = "code" /\ ~Marked[b].second
  <2>1. b - a + 1 \in 0..b - a + 1 /\ a - 1 + (b - a + 1) = b
    BY <1>1
  <2>2. QED
    BY <1>4, <2>1
<1>6. ASSUME NEW j \in a..b
      PROVE  j \notin Solids /\ j \notin Cuts
  <2>1. j \in 1..Len(text) /\ text[j] \in Blanks
    BY <1>1
  <2>2. j - a + 1 \in 0..b - a + 1 /\ a - 1 + (j - a + 1) = j /\ j - a + 1 > 0
    BY <1>1
  <2>3. Marked[j].in = "code"
    BY <1>4, <2>2
  <2>4. text[j] # ";"
    BY <2>1 DEF Blanks, Newline
  <2>5. QED
    BY <2>1, <2>3, <2>4, Meaning
<1>7. QED
  BY <1>5, <1>6

\* At the start of a line nothing but a block comment or a quote can be open.
LEMMA StartReads ==
  ASSUME Whole, NEW s, LexerInv(s), NEW p, p = s.next, p <= Len(text) + 1,
         p = 1 \/ text[p - 1] = Newline,
         ~s.code, ~s.block, ~s.single, ~s.double
  PROVE  Marked[p - 1].after = "code" /\ ~Marked[p - 1].second
<1> DEFINE m == Marked[p - 1]
<1>1. p \in Nat \ {0} /\ Len(text) \in Nat /\ (p = 1 \/ p - 1 \in 1..Len(text))
  BY DEF LexerInv, Whole
<1>2. m \in Marks /\ ReadWell(text, m, p - 1)
  <2>1. p - 1 \in 0..Len(text)
    BY <1>1
  <2>2. QED
    BY <2>1, ReadingGoes, ReadingIsWell DEF Whole, Marked
<1>3. /\ s.single <=> m.after = "'"
      /\ s.double <=> m.after = "\""
      /\ s.block <=> m.after = "block"
      /\ m.second => m.in = "quote"
  BY DEF LexerInv, FlagsInv
<1>4. m.in # "quote"
  BY QuoteIsCode
<1>5. m.after # "line"
  <2>1. CASE p = 1
    <3>1. Marked[0] = Is("code", "code", 0, FALSE)
      BY ReadingGoes DEF Whole, Marked
    <3>2. m = Is("code", "code", 0, FALSE)
      <4>1. p - 1 = 0
        BY ONLY <2>1
      <4>2. QED
        BY <3>1, <4>1
    <3> HIDE DEF m
    <3>3. m.after = "code"
      BY ONLY <3>2 DEF Is
    <3>4. QED
      BY <3>3
  <2>2. CASE p # 1
    <3>1. p - 1 > 0 /\ text[p - 1] = Newline
      BY <1>1, <2>2
    <3>2. QED
      BY <1>2, <3>1 DEF ReadWell
  <2>3. QED
    BY <2>1, <2>2
<1>6. m.after \notin Quotes
  BY <1>2, <1>4 DEF ReadWell
<1>7. QED
  BY <1>2, <1>3, <1>4, <1>5, <1>6 DEF Marks

\* A line that is left out has nothing but blanks and a comment.
LEMMA LeadingReads ==
  ASSUME Whole, NEW line, NEW lineNo, IsLine(line, lineNo), line.first <= line.last + 1,
         NEW s, LexerInv(s), s.next = line.first,
         line.first = 1 \/ text[line.first - 1] = Newline, Leading(text, line, s)
  PROVE  /\ \A j \in line.first..line.last : j \notin Solids /\ j \notin Cuts
         /\ Marked[line.last].after \in {"code", "line"} /\ ~Marked[line.last].second
<1> DEFINE p == line.first
           L == line.last
<1>1. p \in Nat \ {0} /\ L \in Nat /\ L <= Len(text) /\ Len(text) \in Nat /\ p <= L + 1
  BY DEF IsLine, Whole
<1>2. p <= Len(text) + 1
  BY <1>1
<1>3. Marked[p - 1].after = "code" /\ ~Marked[p - 1].second
  BY <1>2, StartReads DEF Leading
<1>4. CASE BlankBetween(text, p, L)
  <2>1. \A j \in p..L : text[j] \in Blanks
    BY <1>4 DEF BlankBetween
  <2> HIDE DEF p, L
  <2>2. QED
    BY <1>1, <1>3, <2>1, BlankRun DEF p, L
<1>5. CASE StartsComment(text, line)
  <2>1. PICK i \in p..L - 1 : /\ text[i] = "-" /\ text[i + 1] = "-"
                              /\ BlankBetween(text, p, i - 1)
    BY <1>5 DEF StartsComment
  <2> HIDE DEF p, L
  <2>2. /\ i \in Nat /\ i - 1 \in Nat /\ p <= (i - 1) + 1 /\ i - 1 <= Len(text) /\ i \in p..L
        /\ i < Len(text)
    BY <1>1, <2>1
  <2>3. \A j \in p..i - 1 : text[j] \in Blanks
    BY <2>1 DEF BlankBetween
  <2>4. /\ Marked[i - 1].after = "code" /\ ~Marked[i - 1].second
        /\ \A j \in p..i - 1 : j \notin Solids /\ j \notin Cuts
    BY <1>1, <1>3, <2>2, <2>3, BlankRun
  <2>5. Two(text, i, "-", "-")
    BY <2>1, <2>2 DEF Two
  <2>6. /\ \A j \in i..L : Marked[j].in = "comment"
        /\ Marked[L] = Is("comment", "line", 0, FALSE)
    BY <2>2, <2>4, <2>5, CommentLine DEF p, L
  <2>7. ASSUME NEW j \in p..L
        PROVE  j \notin Solids /\ j \notin Cuts
    <3>1. j \in p..i - 1 \/ j \in i..L
      BY <2>2
    <3>2. CASE j \in i..L
      <4>1. j \in 1..Len(text)
        BY <1>1
      <4>2. QED
        BY <2>6, <3>2, <4>1, Meaning
    <3>3. QED
      BY <2>4, <3>1, <3>2
  <2>8. Marked[L].after = "line" /\ ~Marked[L].second
    BY ONLY <2>6 DEF Is
  <2>9. QED
    BY <2>7, <2>8 DEF p, L
<1>6. QED
  BY <1>4, <1>5 DEF Leading

-----------------------------------------------------------------------------
(***************************************************************************)
(* The outer loop.                                                         *)
(***************************************************************************)

\* After k lines
LinesDone(s, k) ==
  /\ LexerInv(s)
  /\ s.next - 1 \in Breaks(text) \cup {0}
  /\ Cardinality(Breaks(text) \cap (1..s.next - 1)) = k

\* The lines are finitely many, and the last one ends behind the text.
LEMMA BreaksFinite ==
  ASSUME text \in Seq(Chars)
  PROVE  /\ Breaks(text) \in SUBSET (1..Len(text) + 1) /\ Len(text) + 1 \in Breaks(text)
         /\ Len(text) \in Nat
         /\ IsFiniteSet(Breaks(text)) /\ Cardinality(Breaks(text)) \in Nat
<1>1. Len(text) \in Nat
  OBVIOUS
<1>2. Breaks(text) \in SUBSET (1..Len(text) + 1) /\ Len(text) + 1 \in Breaks(text)
  BY <1>1 DEF Breaks
<1>3. IsFiniteSet(1..Len(text) + 1)
  BY <1>1, FS_Interval
<1>4. IsFiniteSet(Breaks(text))
  BY <1>2, <1>3, FS_Subset
<1>5. QED
  BY <1>1, <1>2, <1>4, FS_CardinalityType

\* The next line: what is before it, and what its number is.
LEMMA NextLine ==
  ASSUME Whole, NEW lineNo \in 1..Cardinality(Breaks(text)), NEW s, LinesDone(s, lineNo - 1),
         NEW line, line = [first |-> s.next, last |-> LineEnd(text, s.next)]
  PROVE  /\ IsLine(line, lineNo) /\ line.first = s.next /\ line.first <= line.last + 1
         /\ line.first = 1 \/ text[line.first - 1] = Newline
         /\ Cardinality(Breaks(text) \cap (1..line.last + 1)) = lineNo
<1> DEFINE B == Breaks(text)
           p == s.next
           q == Min({i \in B : p <= i})
           before == B \cap (1..p - 1)
<1>1. /\ B \in SUBSET (1..Len(text) + 1) /\ Len(text) + 1 \in B /\ Len(text) \in Nat
      /\ IsFiniteSet(B) /\ Cardinality(B) \in Nat /\ lineNo \in Nat
  BY BreaksFinite DEF Whole
<1>2. p \in 1..Len(text) + 2 /\ p \in Nat \ {0} /\ p - 1 \in B \cup {0} /\ Cardinality(before) = lineNo - 1
  BY <1>1 DEF LinesDone, LexerInv
<1> HIDE DEF B, p
<1>3. p <= Len(text) + 1
  <2>1. ASSUME p = Len(text) + 2
        PROVE  FALSE
    <3>1. B \cap (1..p - 1) = B
      <4>1. p - 1 = Len(text) + 1
        BY <1>1, <2>1
      <4>2. QED
        BY <1>1, <4>1
    <3>2. Cardinality(B) = lineNo - 1 /\ lineNo \in 1..Cardinality(B)
      BY <1>2, <3>1 DEF B
    <3>3. QED
      BY ONLY <1>1, <3>2
  <2>2. QED
    BY <1>1, <1>2, <2>1
<1>4. q \in B /\ p <= q /\ \A i \in B : p <= i => q <= i
  <2>1. {i \in B : p <= i} \in SUBSET Nat
    <3>1. \A i \in B : i \in Nat
      BY <1>1
    <3>2. QED
      BY ONLY <3>1
  <2>2. Len(text) + 1 \in {i \in B : p <= i}
    BY <1>1, <1>3
  <2>3. QED
    BY <2>1, <2>2, MinOf
<1>5. line.first = p /\ line.last = q - 1
  BY DEF LineEnd, B, p
<1> HIDE DEF q
<1>6. /\ q \in Nat \ {0} /\ q <= Len(text) + 1 /\ q - 1 \in Nat /\ q - 1 <= Len(text)
      /\ (q - 1) + 1 = q /\ p <= (q - 1) + 1
  BY <1>1, <1>4
<1>7. \A j \in p..q - 1 : j \notin B
  BY <1>1, <1>2, <1>4, <1>6
<1>8. B \cap (1..q) = before \cup {q}
  <2>1. \A j \in B : j <= q => j <= p - 1 \/ j = q
    BY <1>1, <1>2, <1>6, <1>7
  <2>2. \A j \in B : j <= p - 1 => j <= q
    BY <1>1, <1>2, <1>4, <1>6
  <2>3. \A j \in B : j \in Nat /\ j >= 1
    BY <1>1
  <2>4. QED
    BY <1>2, <1>4, <1>6, <2>1, <2>2, <2>3
<1>9. Cardinality(B \cap (1..q)) = lineNo
  <2>1. IsFiniteSet(before)
    BY <1>1, FS_Subset
  <2>2. q \notin before
    BY <1>2, <1>4, <1>6
  <2>3. Cardinality(before \cup {q}) = Cardinality(before) + 1
    BY <2>1, <2>2, FS_AddElement
  <2>4. QED
    <3>1. Cardinality(B \cap (1..q)) = (lineNo - 1) + 1
      BY <1>2, <1>8, <2>3
    <3>2. (lineNo - 1) + 1 = lineNo
      BY ONLY <1>1
    <3>3. QED
      BY <3>1, <3>2
<1>10. \A j \in p..q - 1 : text[j] # Newline /\ LineOf(text, j) = lineNo
  <2>1. ASSUME NEW j \in p..q - 1
        PROVE  text[j] # Newline /\ LineOf(text, j) = lineNo
    <3>1. j \in Nat /\ j <= Len(text) /\ j \in 1..Len(text) + 1 /\ p <= j
      BY <1>1, <1>2, <1>6
    <3>2. text[j] # Newline
      BY <1>7, <3>1 DEF B, Breaks
    <3>3. {i \in 1..j - 1 : text[i] = Newline} = before
      <4>1. \A i \in 1..j - 1 : text[i] = Newline <=> i \in B
        <5>1. \A i \in 1..j - 1 : i \in 1..Len(text) + 1 /\ i <= Len(text)
          BY <1>1, <3>1
        <5>2. QED
          BY <5>1 DEF B, Breaks
      <4>2. \A i \in B : i \in 1..j - 1 <=> i \in 1..p - 1
        <5>1. \A i \in B : i \in p..q - 1 => FALSE
          BY <1>7
        <5>2. \A i \in B : i \in Nat
          BY <1>1
        <5>3. \A i \in p..j - 1 : i \in p..q - 1
          BY <1>2, <1>6, <3>1
        <5>4. QED
          BY <1>2, <3>1, <5>1, <5>2, <5>3
      <4>3. QED
        BY <4>1, <4>2
    <3>4. LineOf(text, j) = lineNo
      <4>1. LineOf(text, j) = 1 + (lineNo - 1)
        BY <1>2, <3>3 DEF LineOf
      <4>2. 1 + (lineNo - 1) = lineNo
        BY ONLY <1>1
      <4>3. QED
        BY <4>1, <4>2
    <3>5. QED
      BY <3>2, <3>4
  <2>2. QED
    BY <2>1
<1>11. p = 1 \/ text[p - 1] = Newline
  <2>1. CASE p # 1
    <3>1. p - 1 \in B /\ p - 1 <= Len(text)
      BY <1>1, <1>2, <1>3, <2>1
    <3>2. QED
      BY <3>1 DEF B, Breaks
  <2>2. QED
    BY <2>1
<1>12. IsLine(line, lineNo)
  BY <1>1, <1>2, <1>4, <1>5, <1>6, <1>10 DEF IsLine, B
<1>13. QED
  BY <1>5, <1>6, <1>9, <1>11, <1>12 DEF p, B

\* A break that is taken, or passed where nothing is open.
LEMMA BreakTaken ==
  ASSUME Whole, NEW s, LexerInv(s), NEW q, q = s.next, q \in Breaks(text)
  PROVE  LexerInv(Take(s, q, 1)) /\ Take(s, q, 1).next = q + 1
<1> DEFINE s1 == Take(s, q, 1)
<1>1. /\ q \in Nat \ {0} /\ q + 1 <= Len(text) + 2 /\ Len(text) \in Nat
      /\ q \notin Cuts
      /\ q \in Solids => s.code /\ OpenQuote(q + 1)
      /\ ~OpenQuote(q + 1) => ~OpenQuote(q)
      /\ \A v : v.single = s.single /\ v.double = s.double /\ v.block = s.block =>
           FlagsInv(v, q + 1)
  BY BreakReads
<1>2. s \in States /\ s.code \in BOOLEAN
  BY DEF LexerInv, States
<1>3. TakenAs(s, s1, q, q + 1, s.single, s.double, s.block, s.code)
  BY <1>1, <1>2, TakeForms
<1> HIDE DEF s1
<1>4. q + 1 \in Nat /\ q < q + 1 /\ (q + 1) - 1 = q /\ q..(q + 1) - 1 = {q}
  BY ONLY <1>1
<1>5. /\ Taken(s, s1, q, q + 1) /\ s1.code = s.code
      /\ s1.single = s.single /\ s1.double = s.double /\ s1.block = s.block
  BY <1>3 DEF TakenAs
<1>6. FlagsInv(s1, q + 1)
  BY <1>1, <1>5
<1>7. Takes(s, s1, q, q + 1)
  BY <1>1, <1>2, <1>4, <1>5 DEF Takes
<1>8. LexerInv(s1)
  BY <1>1, <1>4, <1>6, <1>7, TakeStep
<1>9. QED
  BY <1>5, <1>8 DEF Taken, s1

\* A line break before a statement may be left out.
LEMMA BreakPassed ==
  ASSUME Whole, NEW s, LexerInv(s), ~s.code, NEW line, line.last + 1 = s.next, line.last \in Nat,
         s.next \in Breaks(text)
  PROVE  LexerInv(Past(s, line)) /\ Past(s, line).next = line.last + 2
<1> DEFINE s1 == Past(s, line)
           q == s.next
<1>1. /\ q \in Nat \ {0} /\ q + 1 <= Len(text) + 2 /\ Len(text) \in Nat
      /\ q \notin Cuts
      /\ q \in Solids => s.code
      /\ \A v : v.single = s.single /\ v.double = s.double /\ v.block = s.block =>
           FlagsInv(v, q + 1)
  BY BreakReads
<1>2. s \in States
  BY DEF LexerInv
<1>3. /\ s1 \in States /\ s1.sql = s.sql /\ s1.next = line.last + 2 /\ s1.stmts = s.stmts
      /\ ~s1.code /\ s1.single = s.single /\ s1.double = s.double /\ s1.block = s.block
  <2>1. line.last + 2 \in Nat
    OBVIOUS
  <2>2. s1 = [s EXCEPT !.next = line.last + 2]
    BY DEF Past
  <2> HIDE DEF s1
  <2>3. QED
    BY <1>2, <2>1, <2>2 DEF States
<1> HIDE DEF s1
<1>4. /\ line.last + 2 = q + 1 /\ q + 1 \in Nat /\ q <= q + 1 /\ q..(q + 1) - 1 = {q}
  <2>1. line.last + 1 = q
    OBVIOUS
  <2> HIDE DEF q
  <2>2. QED
    BY <1>1, <2>1
<1>5. FlagsInv(s1, q + 1)
  BY <1>1, <1>3
<1>6. LexerInv(s1)
  BY <1>1, <1>3, <1>4, <1>5, SkipStep
<1>7. QED
  BY <1>3, <1>6 DEF s1

\* Without text nothing solid is open.
LEMMA NoTextNoCode ==
  ASSUME Whole, NEW s, LexerInv(s), s.sql = <<>>
  PROVE  ~s.code
<1> DEFINE p == s.next
<1>1. ASSUME NEW i \in SolidIn(p, p)
      PROVE  FALSE
  <2>1. i \in Nat /\ i < p /\ p \in Nat
    <3>1. Solids \in SUBSET (1..Len(text)) /\ Len(text) \in Nat
      BY PositionsTyped DEF Whole
    <3>2. p \in 1..Len(text) + 2
      BY DEF LexerInv
    <3>3. QED
      BY <3>1, <3>2 DEF SolidIn
  <2>2. i \in ToSet(<<>>)
    <3>1. i..p - 1 \subseteq ToSet(s.sql)
      BY DEF LexerInv, SqlInv
    <3>2. i \in i..p - 1
      BY <2>1
    <3>3. QED
      BY <3>1, <3>2
  <2>3. QED
    BY <2>2 DEF ToSet
<1>2. QED
  BY <1>1 DEF LexerInv

\* A line that is left out
LEMMA LineSkipped ==
  ASSUME Whole, NEW line, NEW lineNo, IsLine(line, lineNo), line.first <= line.last + 1,
         NEW s, LexerInv(s), s.next = line.first,
         line.first = 1 \/ text[line.first - 1] = Newline, Leading(text, line, s)
  PROVE  LexerInv(Past(s, line)) /\ Past(s, line).next = line.last + 2
<1> DEFINE p == line.first
           L == line.last
           s0 == [s EXCEPT !.next = L + 1]
<1>1. /\ p \in Nat \ {0} /\ L \in Nat /\ L <= Len(text) /\ Len(text) \in Nat /\ p <= L + 1
      /\ L + 1 \in Breaks(text)
  BY DEF IsLine, Whole
<1>2. /\ \A j \in p..L : j \notin Solids /\ j \notin Cuts
      /\ Marked[L].after \in {"code", "line"} /\ ~Marked[L].second
  BY LeadingReads
<1>3. ~s.code /\ ~s.block /\ ~s.single /\ ~s.double /\ s \in States
  BY DEF Leading, LexerInv
<1>4. L + 1 \in Nat /\ (L + 1) - 1 = L /\ L + 1 <= Len(text) + 2
  BY ONLY <1>1
<1>5. /\ s0 \in States /\ s0.sql = s.sql /\ s0.next = L + 1 /\ s0.stmts = s.stmts
      /\ ~s0.code /\ ~s0.single /\ ~s0.double /\ ~s0.block
  BY <1>3, <1>4 DEF States
<1>6. Past(s, line) = Past(s0, line)
  BY <1>3 DEF Past, States
<1> HIDE DEF s0
<1>7. FlagsInv(s0, L + 1)
  <2>1. L + 1 <= Len(text) + 1 => L + 1 = Len(text) + 1 \/ text[L + 1] = Newline
    <3>1. L + 1 = Len(text) + 1 \/ L + 1 <= Len(text)
      BY <1>1
    <3>2. QED
      BY <1>1, <3>1 DEF Breaks
  <2>2. QED
    BY <1>2, <1>4, <1>5, <2>1 DEF FlagsInv
<1>8. LexerInv(s0)
  BY <1>1, <1>2, <1>3, <1>4, <1>5, <1>7, SkipStep
<1>9. QED
  BY <1>1, <1>5, <1>6, <1>8, BreakPassed

\* A line that is lexed starts with the invariant of the inner loop.
LEMMA LineBegins ==
  ASSUME Whole, NEW line, NEW lineNo, IsLine(line, lineNo), line.first <= line.last + 1,
         NEW s, LexerInv(s), s.next = line.first
  PROVE  OnLine(line, lineNo, Begun(text, line, lineNo, s), 0)
<1> DEFINE s1 == Begun(text, line, lineNo, s)
           p == line.first
           blank == BlankBetween(text, line.first, line.last)
<1>1. s \in States /\ lineNo \in Nat /\ p \in Nat /\ line.last \in Nat /\ p \in 1..Len(text) + 2
  BY DEF LexerInv, IsLine
<1>2. /\ s1 \in States /\ s1.sql = s.sql /\ s1.next = s.next /\ s1.stmts = s.stmts
      /\ s1.code = s.code /\ s1.single = s.single /\ s1.double = s.double /\ s1.block = s.block
      /\ s1.start = IF s.code \/ blank THEN s.start ELSE lineNo
  <2> HIDE DEF blank
  <2>1. s1 = [s EXCEPT !.start = IF s.code \/ blank THEN s.start ELSE lineNo]
    BY DEF Begun, blank
  <2> HIDE DEF s1
  <2>2. QED
    BY <1>1, <2>1 DEF States
<1> HIDE DEF s1
<1>3. FlagsInv(s1, p)
  BY <1>2 DEF LexerInv, FlagsInv
<1>4. StartInv(s1.start, p, p)
  <2>1. CASE s.code
    BY <1>2, <2>1 DEF LexerInv
  <2>2. CASE ~s.code
    BY <2>2 DEF LexerInv, StartInv
  <2>3. QED
    BY <2>1, <2>2
<1>5. LexerInv(s1)
  BY <1>1, <1>2, <1>3, <1>4 DEF LexerInv
<1>6. LineInv(s1, line, lineNo)
  BY <1>2 DEF LineInv
<1>7. s1.next \in line.first + 0..line.last + 1
  BY <1>1, <1>2
<1>8. QED
  BY <1>5, <1>6, <1>7 DEF OnLine, s1

\* A turn of the outer loop
LEMMA LineStep ==
  ASSUME Whole, NEW lineNo \in 1..Cardinality(Breaks(text)), NEW s, LinesDone(s, lineNo - 1)
  PROVE  LinesDone(LexLine(text, lineNo, s), lineNo)
<1> DEFINE line == [first |-> s.next, last |-> LineEnd(text, s.next)]
           s0 == Begun(text, line, lineNo, s)
           end == Lexed(text, line, lineNo, s0)
           s1 == LexLine(text, lineNo, s)
           Good(v) == LexerInv(v) /\ v.next = line.last + 2
<1>1. /\ IsLine(line, lineNo) /\ line.first = s.next /\ line.first <= line.last + 1
      /\ line.first = 1 \/ text[line.first - 1] = Newline
      /\ Cardinality(Breaks(text) \cap (1..line.last + 1)) = lineNo
  <2> HIDE DEF line
  <2> QED
    BY NextLine DEF line
<1>2. s1 = IF Leading(text, line, s) THEN Past(s, line)
           ELSE IF end.sql = <<>> THEN Past(end, line) ELSE Take(end, line.last + 1, 1)
  BY DEF LexLine
<1>3. LexerInv(s)
  BY DEF LinesDone
<1> HIDE DEF line, s0, end, s1
<1> SUFFICES Good(s1)
  <2>1. ASSUME Good(s1)
        PROVE  LinesDone(s1, lineNo)
    <3>1. line.last \in Nat /\ line.last + 1 \in Breaks(text)
      BY <1>1 DEF IsLine
    <3>2. s1.next - 1 = line.last + 1
      BY <2>1, <3>1
    <3>3. QED
      BY <1>1, <2>1, <3>1, <3>2 DEF LinesDone
  <2>2. QED
    BY <2>1 DEF s1
<1>4. CASE Leading(text, line, s)
  BY <1>1, <1>2, <1>3, <1>4, LineSkipped
<1>5. CASE ~Leading(text, line, s)
  <2>1. OnLine(line, lineNo, s0, 0)
    BY <1>1, <1>3, LineBegins DEF s0
  <2>2. OnLine(line, lineNo, end, line.last - line.first + 1)
    BY <1>1, <2>1, LexedGoes DEF end
  <2>3. line.first \in Nat /\ line.last \in Nat /\ line.last + 1 \in Breaks(text)
    BY <1>1 DEF IsLine
  <2>4. LexerInv(end) /\ end.next = line.last + 1
    <3>1. end.next \in line.first + (line.last - line.first + 1)..line.last + 1
      BY <2>2 DEF OnLine
    <3>2. line.first + (line.last - line.first + 1) = line.last + 1
      BY <2>3
    <3>3. end.next = line.last + 1
      BY <2>3, <3>1, <3>2
    <3>4. QED
      BY <2>2, <3>3 DEF OnLine
  <2>5. CASE end.sql = <<>>
    <3>1. ~end.code
      BY <2>4, <2>5, NoTextNoCode
    <3>2. s1 = Past(end, line)
      BY <1>2, <1>5, <2>5
    <3>3. QED
      BY <2>3, <2>4, <3>1, <3>2, BreakPassed
  <2>6. CASE end.sql # <<>>
    <3>1. s1 = Take(end, line.last + 1, 1)
      BY <1>2, <1>5, <2>6
    <3>2. (line.last + 1) + 1 = line.last + 2
      BY <2>3
    <3>3. QED
      BY <2>3, <2>4, <3>1, <3>2, BreakTaken
  <2>7. QED
    BY <2>5, <2>6
<1>6. QED
  BY <1>4, <1>5

\* Before the first line
LEMMA LinesBegin ==
  ASSUME Whole
  PROVE  LinesDone(LexerInit, 0)
<1>1. /\ Solids \in SUBSET (1..Len(text)) /\ Cuts \in SUBSET (1..Len(text)) /\ Len(text) \in Nat
  BY PositionsTyped DEF Whole
<1>2. /\ LexerInit \in States /\ LexerInit.next = 1 /\ LexerInit.sql = <<>> /\ LexerInit.stmts = <<>>
      /\ ~LexerInit.code /\ ~LexerInit.single /\ ~LexerInit.double /\ ~LexerInit.block
  <2>1. <<>> \in Seq(Nat) /\ <<>> \in Seq([sql : Seq(Nat), line : Nat])
    OBVIOUS
  <2>2. QED
    BY <2>1 DEF LexerInit, States
<1>3. SolidIn(1, 1) = {}
  <2>1. \A i \in Solids : ~(i < 1)
    BY <1>1
  <2>2. QED
    BY <2>1 DEF SolidIn
<1>4. Done(1) = {}
  BY DEF Done
<1>5. FlagsInv(LexerInit, 1)
  <2>1. Marked[0] = Is("code", "code", 0, FALSE)
    BY ReadingGoes DEF Whole, Marked
  <2>2. Marked[0].after = "code" /\ ~Marked[0].second
    BY ONLY <2>1 DEF Is
  <2>3. Agree(Marked[0], LexerInit.single, LexerInit.double, LexerInit.block)
    BY <1>2, <2>2 DEF Agree
  <2>4. 1 \in Nat /\ 1 - 1 = 0
    OBVIOUS
  <2>5. QED
    BY <2>3, <2>4, FlagsAgree
<1>6. SqlInv(<<>>, 1, 1)
  <2>1. ToSet(<<>>) = {} /\ Increasing(<<>>)
    BY DEF ToSet, Increasing
  <2>2. QED
    BY <1>3, <2>1 DEF SqlInv
<1>7. StmtsInv(<<>>, Done(1))
  <2>1. 1..Len(<<>>) = {}
    OBVIOUS
  <2>2. QED
    BY <1>4, <2>1 DEF StmtsInv
<1>8. LexerInv(LexerInit)
  <2>1. 1 \in 1..Len(text) + 2
    BY <1>1
  <2>2. QED
    BY <1>2, <1>3, <1>5, <1>6, <1>7, <2>1 DEF LexerInv, InkInv, StartInv
<1>9. Breaks(text) \cap (1..1 - 1) = {}
  OBVIOUS
<1>10. QED
  BY <1>2, <1>8, <1>9, FS_EmptySet DEF LinesDone

\* After the last line
LEMMA LinesEnd ==
  ASSUME Whole, NEW s, LinesDone(s, Cardinality(Breaks(text)))
  PROVE  s.next = Len(text) + 2
<1> DEFINE B == Breaks(text)
           p == s.next
           before == B \cap (1..p - 1)
<1>1. /\ B \in SUBSET (1..Len(text) + 1) /\ Len(text) + 1 \in B /\ Len(text) \in Nat
      /\ IsFiniteSet(B) /\ Cardinality(B) \in Nat
  BY BreaksFinite DEF Whole
<1>2. p \in 1..Len(text) + 2 /\ Cardinality(before) = Cardinality(B)
  BY DEF LinesDone, LexerInv
<1> HIDE DEF B, p
<1>3. before \in SUBSET B
  OBVIOUS
<1>4. before = B
  BY <1>1, <1>2, <1>3, FS_Subset
<1>5. Len(text) + 1 \in 1..p - 1
  BY <1>1, <1>4
<1>6. QED
  BY <1>1, <1>2, <1>5 DEF p

\* The statements of the text
LEMMA SplitDone ==
  ASSUME Whole
  PROVE  /\ SplitStatements(text) \in Seq([sql : Seq(Nat), line : Nat])
         /\ StmtsInv(SplitStatements(text), 1..Len(text) + 1)
<1> DEFINE N == Cardinality(Breaks(text))
           Body(v, n) == LexLine(text, n, v)
           next == [vn \in States \X (1..N) |-> Body(vn[1], vn[2])]
           Good == {nv \in (0..N) \X States : LinesDone(nv[2], nv[1])}
           Def(f, n) == IF n = 0 THEN LexerInit ELSE Body(f[n - 1], n)
<1>1. N \in Nat
  BY BreaksFinite DEF Whole
<1>2. LexerInit \in States /\ LinesDone(LexerInit, 0)
  BY LinesBegin DEF LinesDone, LexerInv
<1>3. ASSUME NEW n \in 1..N, NEW v \in States, <<n - 1, v>> \in Good
      PROVE  next[<<v, n>>] \in States /\ <<n, next[<<v, n>>]>> \in Good
  <2>1. LinesDone(v, n - 1)
    BY <1>3
  <2>2. next[<<v, n>>] = Body(v, n)
    BY <1>3
  <2> HIDE DEF next
  <2>3. LinesDone(Body(v, n), n)
    BY <2>1, LineStep
  <2>4. Body(v, n) \in States
    BY <2>3 DEF LinesDone, LexerInv
  <2>5. n \in 0..N
    BY <1>1
  <2> HIDE DEF Body, N
  <2>6. QED
    BY <2>2, <2>3, <2>4, <2>5
<1>4. LoopKeeps(N, States, LexerInit, next, Good)
  <2>1. <<0, LexerInit>> \in Good
    BY <1>1, <1>2
  <2> HIDE DEF Good, next, N
  <2>2. QED
    BY <1>1, <1>2, <1>3, <2>1 DEF LoopKeeps
<1>5. PICK f : IsRun(f, N, States, LexerInit, next) /\ \A n \in 0..N : <<n, f[n]>> \in Good
  <2> HIDE DEF Good, next, N
  <2> QED
    BY <1>4, GoodStates
<1>6. /\ f \in [0..N -> States] /\ f[0] = LexerInit
      /\ \A n \in 1..N : f[n] = Body(f[n - 1], n)
  <2>1. /\ f \in [0..N -> States] /\ f[0] = LexerInit
        /\ \A n \in 1..N : f[n] = next[<<f[n - 1], n>>]
    <3> HIDE DEF next, N, Good
    <3> QED
      BY <1>5 DEF IsRun
  <2>2. \A n \in 1..N : f[n - 1] \in States
    <3> HIDE DEF N
    <3> QED
      BY <1>1, <2>1
  <2>3. \A n \in 1..N : next[<<f[n - 1], n>>] = Body(f[n - 1], n)
    <3> HIDE DEF Body
    <3> QED
      BY <2>2
  <2> HIDE DEF next, Body, N
  <2>4. QED
    BY <2>1, <2>3
<1> HIDE DEF next
<1>7. f = [n \in 0..N |-> Def(f, n)]
  <2> HIDE DEF Body
  <2>1. \A n \in 0..N : f[n] = Def(f, n)
    <3> HIDE DEF N
    <3> QED
      BY <1>1, <1>6
  <2> HIDE DEF Def, N
  <2>2. QED
    BY <1>6, <2>1
<1> DEFINE g == CHOOSE h : h = [n \in 0..N |-> Def(h, n)]
<1>8. g = [n \in 0..N |-> Def(g, n)]
  <2> HIDE DEF Def
  <2> QED
    BY <1>7
<1>9. SplitStatements(text) = Emit(text, g[N]).stmts
  BY DEF SplitStatements
<1>10. g[0] = LexerInit /\ \A n \in 1..N : g[n] = Body(g[n - 1], n)
  <2> HIDE DEF g, Body, N
  <2> QED
    BY <1>1, <1>8
<1>11. g[N] = f[N]
  <2> DEFINE T == {n \in 0..N : g[n] = f[n]}
  <2> HIDE DEF g, Body, N
  <2>1. 0 \in T
    BY <1>1, <1>6, <1>10
  <2>2. ASSUME NEW n \in 1..N, n - 1 \in T
        PROVE  n \in T
    BY <1>1, <1>6, <1>10, <2>2
  <2>3. 0..N \subseteq T
    <3> HIDE DEF T, N
    <3> QED
      BY <1>1, <2>1, <2>2, LoopInvariant
  <2>4. QED
    BY <1>1, <2>3
<1> DEFINE s == f[N]
           p == Len(text) + 2
<1>12. LinesDone(s, N) /\ s \in States
  <2>1. \A n \in 0..N : LinesDone(f[n], n)
    BY <1>5
  <2> HIDE DEF N
  <2>2. N \in 0..N
    BY <1>1
  <2>3. QED
    BY <1>6, <2>1, <2>2
<1> HIDE DEF s
<1>13. s.next = p /\ LexerInv(s)
  BY <1>12, LinesEnd DEF LinesDone
<1>14. /\ s.sql \in Seq(Nat) /\ s.start \in Nat /\ s.stmts \in Seq([sql : Seq(Nat), line : Nat])
  BY <1>12 DEF States
<1>15. /\ SqlInv(s.sql, p, p) /\ InkInv(p, p) /\ StartInv(s.start, p, p) /\ StmtsInv(s.stmts, Done(p))
  BY <1>13 DEF LexerInv
<1>16. /\ p \in Nat \ {0} /\ p <= p /\ p - 1 = Len(text) + 1 /\ ~(p - 1 <= Len(text))
  BY DEF Whole
<1>17. ~OpenQuote(p)
  BY <1>16 DEF OpenQuote
<1>18. \A e \in Cuts : e < p - 1 => e < p
  <2>1. Cuts \in SUBSET (1..Len(text))
    BY PositionsTyped DEF Whole
  <2>2. QED
    BY <1>16, <2>1
<1>19. Emit(text, s).stmts = IF Trimmed(text, s.sql) = <<>> THEN s.stmts
          ELSE Append(s.stmts, [sql |-> Trimmed(text, s.sql), line |-> s.start])
  BY <1>12, EmitFields
<1> DEFINE stmts == Emit(text, s).stmts
<1> HIDE DEF p, stmts
<1>20. stmts \in Seq([sql : Seq(Nat), line : Nat]) /\ StmtsInv(stmts, 1..p - 1)
  BY <1>14, <1>15, <1>16, <1>17, <1>18, <1>19, EmitStep DEF stmts
<1>21. SplitStatements(text) = stmts
  BY <1>9, <1>11 DEF s, stmts
<1>22. QED
  BY <1>16, <1>20, <1>21

-----------------------------------------------------------------------------
(***************************************************************************)
(* The theorems.                                                           *)
(***************************************************************************)

\* An element of a sequence is of its type.
LEMMA ElementTyped ==
  ASSUME NEW S, NEW q \in Seq(S), NEW k \in DOMAIN q
  PROVE  q[k] \in S
  OBVIOUS

\* Whatever is written, the file is a text.
LEMMA TextTyped == SplitterSpec => [](text \in Seq(Chars))
<1>1. SplitterInit => text \in Seq(Chars)
  BY DEF SplitterInit
<1>2. text \in Seq(Chars) /\ [SplitterNext]_splitterVars => (text \in Seq(Chars))'
  <2> SUFFICES ASSUME text \in Seq(Chars), [SplitterNext]_splitterVars
               PROVE  (text \in Seq(Chars))'
    OBVIOUS
  <2>1. CASE UNCHANGED splitterVars
    BY <2>1 DEF splitterVars
  <2>2. ASSUME NEW chunk \in Chunks, Write(chunk)
        PROVE  (text \in Seq(Chars))'
    <3>1. chunk \in Seq(Chars)
      BY ChunksAssumption
    <3>2. text \o chunk \in Seq(Chars)
      BY <3>1
    <3>3. QED
      BY <2>2, <3>2 DEF Write
  <2>3. QED
    BY <2>1, <2>2 DEF SplitterNext
<1>3. QED
  BY <1>1, <1>2, PTL DEF SplitterSpec

\* What SplitStatements sends, for any text in which nothing is left open and nothing
\* occurs that the lexer does not know: all that means something to the server, cut at
\* the ends of the server's statements and nowhere else, in order, whatever quotes and
\* comments contain.
THEOREM StatementsAreTheServers == SplitterSpec => []SplitsAsServerReads
<1>1. text \in Seq(Chars) => SplitsAsServerReads
  <2> DEFINE stmts == SplitStatements(text)
             Of(k) == ToSet(stmts[k].sql)
  <2> SUFFICES ASSUME text \in Seq(Chars), Plain(text, Marked)
               PROVE  /\ \A i \in Solids : \E k \in DOMAIN stmts : i \in Of(k)
                      /\ \A k, l \in DOMAIN stmts : \A i \in Of(k) \cap Solids, j \in Of(l) \cap Solids :
                           i <= j => IF EndsBetween(text, Marked, i, j) THEN k < l ELSE k = l
                      /\ \A k \in DOMAIN stmts :
                           /\ \A m, n \in DOMAIN stmts[k].sql :
                                m < n => stmts[k].sql[m] < stmts[k].sql[n]
                           /\ \A i, j \in Of(k) \cap Solids : i..j \subseteq Of(k)
    BY DEF SplitsAsServerReads, Marked, Solids
  <2>1. Whole
    BY DEF Whole
  <2>2. stmts \in Seq([sql : Seq(Nat), line : Nat]) /\ StmtsInv(stmts, 1..Len(text) + 1)
    BY <2>1, SplitDone
  <2> HIDE DEF stmts
  <2>3. /\ DOMAIN stmts = 1..Len(stmts) /\ Len(stmts) \in Nat
        /\ \A k \in DOMAIN stmts : DOMAIN stmts[k].sql = 1..Len(stmts[k].sql)
    <3>1. stmts \in Seq([sql : Seq(Nat), line : Nat])
      BY <2>2
    <3>2. DOMAIN stmts = 1..Len(stmts) /\ Len(stmts) \in Nat
      BY ONLY <3>1
    <3>3. ASSUME NEW k \in DOMAIN stmts
          PROVE  DOMAIN stmts[k].sql = 1..Len(stmts[k].sql)
      <4>1. stmts[k] \in [sql : Seq(Nat), line : Nat]
        BY ONLY <3>1, k \in DOMAIN stmts, ElementTyped
      <4>2. stmts[k].sql \in Seq(Nat)
        BY ONLY <4>1
      <4>3. QED
        BY ONLY <4>2
    <3>4. QED
      BY ONLY <3>2, <3>3
  <2>4. /\ Solids \in SUBSET (1..Len(text)) /\ Len(text) \in Nat
        /\ \A x \in Solids : x \in Nat
    <3>1. Solids \in SUBSET (1..Len(text)) /\ Len(text) \in Nat
      BY PositionsTyped
    <3>2. QED
      BY ONLY <3>1
  <2>5. \A i \in Solids : \E k \in DOMAIN stmts : i \in Of(k)
    <3>1. \A i \in Solids : i \in 1..Len(text) + 1
      BY <2>4
    <3>2. QED
      BY <2>2, <2>3, <3>1 DEF StmtsInv
  <2>6. ASSUME NEW k \in DOMAIN stmts, NEW l \in DOMAIN stmts,
               NEW i \in Of(k) \cap Solids, NEW j \in Of(l) \cap Solids, i <= j
        PROVE  IF EndsBetween(text, Marked, i, j) THEN k < l ELSE k = l
    <3>1. i \in Nat /\ j \in Nat /\ k \in Nat /\ l \in Nat
      <4>1. i \in Nat /\ j \in Nat
        BY ONLY <2>4, i \in Of(k) \cap Solids, j \in Of(l) \cap Solids
      <4>2. k \in Nat /\ l \in Nat
        BY ONLY <2>3, k \in DOMAIN stmts, l \in DOMAIN stmts
      <4>3. QED
        BY ONLY <4>1, <4>2
    <3>2. CASE k = l
      BY <2>2, <2>3, <3>1, <3>2 DEF StmtsInv, StmtInv
    <3>3. CASE k < l
      BY <2>2, <2>3, <3>3 DEF StmtsInv
    <3>4. CASE l < k
      <4>1. j < i
        BY <2>2, <2>3, <3>4 DEF StmtsInv
      <4>2. QED
        BY <2>6, <3>1, <4>1
    <3>5. QED
      BY <3>1, <3>2, <3>3, <3>4
  <2>7. ASSUME NEW k \in DOMAIN stmts
        PROVE  /\ \A m, n \in DOMAIN stmts[k].sql : m < n => stmts[k].sql[m] < stmts[k].sql[n]
               /\ \A i, j \in Of(k) \cap Solids : i..j \subseteq Of(k)
    <3>1. StmtInv(stmts[k], 1..Len(text) + 1)
      BY <2>2, <2>3 DEF StmtsInv
    <3>2. QED
      BY <2>3, <3>1 DEF StmtInv, Increasing
  <2>8. QED
    BY <2>5, <2>6, <2>7
<1>2. QED
  BY <1>1, TextTyped, PTL

\* ... and the line that goes with a statement is the one on which it starts.
THEOREM LinesAreTheStatements == SplitterSpec => []LinesAreRight
<1>1. text \in Seq(Chars) => LinesAreRight
  <2> DEFINE stmts == SplitStatements(text)
  <2> SUFFICES ASSUME text \in Seq(Chars), Plain(text, Marked), NEW stmt \in ToSet(stmts),
                      ToSet(stmt.sql) \cap Solids # {}
               PROVE  stmt.line = LineOf(text, Min(ToSet(stmt.sql) \cap Solids))
    BY DEF LinesAreRight, Marked, Solids
  <2> DEFINE of == ToSet(stmt.sql) \cap Solids
  <2>1. Whole
    BY DEF Whole
  <2>2. stmts \in Seq([sql : Seq(Nat), line : Nat]) /\ StmtsInv(stmts, 1..Len(text) + 1)
    BY <2>1, SplitDone
  <2> HIDE DEF stmts
  <2>3. PICK k \in 1..Len(stmts) : stmt = stmts[k]
    <3>1. stmts \in Seq([sql : Seq(Nat), line : Nat]) /\ stmt \in ToSet(stmts)
      BY <2>2 DEF stmts
    <3>2. DOMAIN stmts = 1..Len(stmts)
      BY ONLY <3>1
    <3>3. QED
      BY ONLY <3>1, <3>2 DEF ToSet
  <2>4. StmtInv(stmt, 1..Len(text) + 1)
    BY <2>2, <2>3 DEF StmtsInv
  <2>5. Min(of) \in of /\ \A y \in of : Min(of) <= y
    <3>1. Solids \in SUBSET (1..Len(text)) /\ Len(text) \in Nat
      BY PositionsTyped
    <3>2. of \in SUBSET Nat /\ of # {}
      <4>1. \A x \in Solids : x \in Nat
        BY ONLY <3>1
      <4>2. QED
        BY <4>1
    <3> HIDE DEF of
    <3>3. QED
      BY <3>2, MinOf
  <2>6. First(Min(of), of)
    BY <2>5 DEF First
  <2>7. QED
    BY <2>4, <2>5, <2>6 DEF StmtInv
<1>2. QED
  BY <1>1, TextTyped, PTL
=============================================================================
