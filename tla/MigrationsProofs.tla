-------------------------- MODULE MigrationsProofs --------------------------
(***************************************************************************)
(* Facts about the operators of Migrations, for every set of versions.     *)
(***************************************************************************)
EXTENDS Migrations, FiniteSetTheorems, WellFoundedInduction, TLAPS

\* The head of the sorted slice exists and is one of its files (ValidateAndSort,
\* and the loops of Apply and DryRun, over a slice that is not empty).
LEMMA NextFileIsLowest ==
  ASSUME NEW files \in SUBSET Versions, files # {}
  PROVE  /\ NextFile(files) \in files
         /\ \A u \in files : NextFile(files) <= u
<1> DEFINE UpTo(v) == {u \in files : u <= v}
           Sets == {UpTo(v) : v \in files}
<1>1. files \subseteq Int /\ IsFiniteSet(files)
  BY VersionsAssumption, FS_Subset
<1>2. IsWellFoundedOn(StrictSubsetOrdering(files), SUBSET files)
  <2>1. IsWellFoundedOn(StrictSubsetOrdering(files), FiniteSubsetsOf(files))
    BY FS_StrictSubsetOrderingWellFounded
  <2>2. QED
    BY <1>1, <2>1, FS_FiniteSubsetsOfFinite
<1>3. PICK least \in Sets : \A s \in Sets : <<s, least>> \notin StrictSubsetOrdering(files)
  <2>1. Sets \subseteq SUBSET files /\ Sets # {}
    OBVIOUS
  <2>2. QED
    BY <1>2, <2>1, WFMin
<1>4. PICK v \in files : least = UpTo(v)
  OBVIOUS
<1>5. \A u \in files : v <= u
  <2>1. SUFFICES ASSUME NEW u \in files, ~(v <= u) PROVE FALSE
    OBVIOUS
  <2>2. u \in Int /\ v \in Int /\ u <= v
    BY <1>1, <2>1
  <2>3. UpTo(u) \subseteq UpTo(v)
    <3>1. SUFFICES ASSUME NEW w \in UpTo(u) PROVE w \in UpTo(v)
      OBVIOUS
    <3>2. w \in Int /\ w <= u /\ w \in files
      BY <1>1
    <3>3. w <= v
      BY <2>2, <3>2
    <3>4. QED
      BY <3>2, <3>3
  <2>4. v \in UpTo(v) /\ v \notin UpTo(u)
    BY <2>1, <2>2
  <2>5. UpTo(u) \in Sets /\ UpTo(u) \in SUBSET files /\ UpTo(v) \in SUBSET files
    OBVIOUS
  <2> HIDE DEF UpTo, Sets
  <2>6. <<UpTo(u), UpTo(v)>> \in StrictSubsetOrdering(files)
    BY <2>3, <2>4, <2>5 DEF StrictSubsetOrdering
  <2>7. QED
    BY <1>3, <1>4, <2>5, <2>6
<1>6. QED
  BY <1>5 DEF NextFile

\* The sets behind the counters are finite, so a counter is 0 exactly when
\* its set is empty.
LEMMA CountersCount ==
  ASSUME NEW D, NEW A, NEW states
  PROVE  /\ IsFiniteSet(InState(D, A, states))
         /\ Cardinality(InState(D, A, states)) \in Nat
         /\ Cardinality(InState(D, A, states)) > 0 <=> InState(D, A, states) # {}
<1>1. InState(D, A, states) \subseteq Versions
  BY DEF InState
<1>2. IsFiniteSet(InState(D, A, states))
  BY <1>1, FS_Subset, VersionsAssumption
<1>3. QED
  BY <1>2, FS_CardinalityType, FS_EmptySet

\* An item's state tells where its version was found: the switch of BuildReport
\* and the two loops of ComputePending draw the same lines.
LEMMA StatesAreSets ==
  ASSUME NEW D, NEW A
  PROVE  /\ InState(D, A, {"drifted"}) = Drifted(D, A)
         /\ InState(D, A, {"missing"}) = Missing(D, A)
         /\ InState(D, A, {"pending"}) = Unapplied(D, A)
         /\ InState(D, A, {"applied", "drifted", "missing"}) = {v \in Versions : A[v] # NoSum}
BY DEF InState, ItemState, Drifted, Missing, Unapplied
=============================================================================
