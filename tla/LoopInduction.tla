---------------------------- MODULE LoopInduction ----------------------------
(***************************************************************************)
(* Induction over the turns of a loop, in a form that the provers can use: *)
(* the library's theorems take the statement as an operator, these take it *)
(* as a set of numbers and the loop's body as a function.                  *)
(***************************************************************************)
EXTENDS Integers, WellFoundedInduction, TLAPS

\* A set of numbers that has 0 and the successor of each of its members has all.
LEMMA SetInduction ==
  ASSUME NEW S, 0 \in S, \A n \in Nat : n \in S => n + 1 \in S
  PROVE  Nat \subseteq S
<1> DEFINE T == Nat \ S
           R == OpToRel(<, Nat)
<1>1. SUFFICES ASSUME T # {}
               PROVE  FALSE
  OBVIOUS
<1>2. PICK x \in T : \A y \in T : ~(<<y, x>> \in R)
  <2>1. IsWellFoundedOn(R, Nat)
    BY NatLessThanWellFounded
  <2>2. T \subseteq Nat
    OBVIOUS
  <2> HIDE DEF R, T
  <2>3. QED
    BY <1>1, <2>1, <2>2, WFMin
<1>3. \A y \in Nat : y < x => <<y, x>> \in R
  BY DEF OpToRel
<1>4. x - 1 \in Nat /\ x - 1 < x
  OBVIOUS
<1>5. x - 1 \notin T
  <2> HIDE DEF R
  <2> QED
    BY <1>2, <1>3, <1>4
<1>6. QED
  BY <1>4, <1>5

\* The same for the turns 0..N of a loop.
LEMMA LoopInvariant ==
  ASSUME NEW N \in Nat, NEW S, 0 \in S,
         \A i \in 1..N : i - 1 \in S => i \in S
  PROVE  0..N \subseteq S
<1> DEFINE U == {n \in Nat : n <= N => n \in S}
<1>1. Nat \subseteq U
  <2>1. 0 \in U
    OBVIOUS
  <2>2. ASSUME NEW n \in Nat, n \in U
        PROVE  n + 1 \in U
    <3>1. CASE n + 1 <= N
      <4>1. n + 1 \in 1..N /\ (n + 1) - 1 = n /\ n \in S
        BY <2>2, <3>1
      <4>2. QED
        BY <4>1
    <3>2. QED
      BY <3>1
  <2> HIDE DEF U
  <2>3. QED
    BY <2>1, <2>2, SetInduction
<1>2. QED
  BY <1>1

\* A loop of N turns over states in S, from e on: turn i takes s to next[<<s, i>>].
\* (Definitions of their own, so that the provers can match the lemma.)
IsLoop(N, S, e, next) == N \in Nat /\ e \in S /\ next \in [S \X (1..N) -> S]

IsRun(f, N, S, e, next) ==
  f \in [0..N -> S] /\ f[0] = e /\ \A i \in 1..N : f[i] = next[<<f[i - 1], i>>]

\* A loop goes through states.
LEMMA LoopStates ==
  ASSUME NEW N, NEW S, NEW e, NEW next, IsLoop(N, S, e, next)
  PROVE  \E f : IsRun(f, N, S, e, next)
<1> USE DEF IsLoop
<1> DEFINE Goes(n, f) == f[0] = e /\ \A i \in 1..n : f[i] = next[<<f[i - 1], i>>]
           U == {n \in 0..N : \E f \in [0..n -> S] : Goes(n, f)}
<1>1. 0 \in U
  <2>1. [i \in 0..0 |-> e] \in [0..0 -> S] /\ Goes(0, [i \in 0..0 |-> e])
    OBVIOUS
  <2> HIDE DEF Goes
  <2>2. QED
    BY <2>1
<1>2. ASSUME NEW n \in 1..N, n - 1 \in U
      PROVE  n \in U
  <2>1. PICK f \in [0..n - 1 -> S] : Goes(n - 1, f)
    BY <1>2
  <2> DEFINE g == [i \in 0..n |-> IF i = n THEN next[<<f[n - 1], n>>] ELSE f[i]]
  <2>2. g \in [0..n -> S]
    OBVIOUS
  <2>3. Goes(n, g)
    <3>1. g[0] = e
      BY <2>1
    <3>2. ASSUME NEW i \in 1..n
          PROVE  g[i] = next[<<g[i - 1], i>>]
      <4>1. CASE i = n
        BY SMTT(30), <4>1
      <4>2. CASE i \in 1..n - 1
        BY <4>2, <2>1
      <4>3. QED
        BY <4>1, <4>2
    <3> HIDE DEF g
    <3>3. QED
      BY <3>1, <3>2
  <2> HIDE DEF g, Goes
  <2>4. QED
    BY <2>2, <2>3
<1>3. N \in U
  <2> HIDE DEF U
  <2>1. 0..N \subseteq U
    BY <1>1, <1>2, LoopInvariant
  <2>2. QED
    BY <2>1
<1>4. QED
  BY <1>3 DEF IsRun

\* A loop that need not go on from every state: Good has the numbers of turns and the
\* states after them that it may be in.
LoopKeeps(N, S, e, next, Good) ==
  /\ N \in Nat /\ e \in S /\ <<0, e>> \in Good
  /\ \A i \in 1..N, s \in S :
       <<i - 1, s>> \in Good => next[<<s, i>>] \in S /\ <<i, next[<<s, i>>]>> \in Good

\* Such a loop goes through good states.
LEMMA GoodStates ==
  ASSUME NEW N, NEW S, NEW e, NEW next, NEW Good, LoopKeeps(N, S, e, next, Good)
  PROVE  \E f : IsRun(f, N, S, e, next) /\ \A i \in 0..N : <<i, f[i]>> \in Good
<1> USE DEF LoopKeeps
<1> DEFINE total == [si \in S \X (1..N) |->
                       IF <<si[2] - 1, si[1]>> \in Good THEN next[si] ELSE si[1]]
<1>1. total \in [S \X (1..N) -> S]
  <2>1. ASSUME NEW si \in S \X (1..N)
        PROVE  (IF <<si[2] - 1, si[1]>> \in Good THEN next[si] ELSE si[1]) \in S
    <3>1. PICK s \in S, i \in 1..N : si = <<s, i>>
      OBVIOUS
    <3>2. QED
      BY <3>1
  <2>2. QED
    BY <2>1
<1>2. \A i \in 1..N, s \in S : <<i - 1, s>> \in Good => total[<<s, i>>] = next[<<s, i>>]
  OBVIOUS
<1> HIDE DEF total
<1>3. PICK f : IsRun(f, N, S, e, total)
  <2>1. IsLoop(N, S, e, total)
    BY <1>1 DEF IsLoop
  <2>2. QED
    BY <2>1, LoopStates
<1>4. f \in [0..N -> S] /\ f[0] = e /\ \A i \in 1..N : f[i] = total[<<f[i - 1], i>>]
  BY <1>3 DEF IsRun
<1> DEFINE T == {i \in 0..N : <<i, f[i]>> \in Good}
<1>5. 0 \in T
  BY <1>4
<1>6. ASSUME NEW i \in 1..N, i - 1 \in T
      PROVE  i \in T /\ f[i] = next[<<f[i - 1], i>>]
  <2>1. i - 1 \in 0..N /\ i \in 0..N /\ f[i - 1] \in S /\ <<i - 1, f[i - 1]>> \in Good
    BY <1>4, <1>6
  <2>2. f[i] = next[<<f[i - 1], i>>]
    BY <1>2, <1>4, <2>1
  <2>3. QED
    BY <2>1, <2>2
<1> HIDE DEF T
<1>7. 0..N \subseteq T
  BY <1>5, <1>6, LoopInvariant
<1>8. \A i \in 1..N : i - 1 \in T /\ i - 1 \in 0..N
  BY <1>7
<1>9. IsRun(f, N, S, e, next)
  BY <1>4, <1>6, <1>8 DEF IsRun
<1>10. \A i \in 0..N : <<i, f[i]>> \in Good
  BY <1>7 DEF T
<1>11. QED
  BY <1>9, <1>10
=============================================================================
