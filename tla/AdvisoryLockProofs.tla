------------------------- MODULE AdvisoryLockProofs -------------------------
(***************************************************************************)
(* The safety of AdvisoryLock, for any threads, objects and processes.     *)
(***************************************************************************)
EXTENDS AdvisoryLock, TLAPS

\* t is inside a method of its object, past the object's mutex.
Inside(t) == pc[t] \in {"query", "mutex"}

\* The mutex of an object guards its flags: who is inside has it, and finds the
\* flags as it left them before its query was sent.
MutexInv ==
  \A t \in Threads : Inside(t) =>
     /\ mu[Uses[t]] = t
     /\ op[t] \in {"Lock", "TryLock", "Unlock"}
     /\ pc[t] = "mutex" => op[t] = "Lock"
     /\ Acquires(t) => ~locked[Uses[t]]
     /\ op[t] = "Unlock" => locked[Uses[t]] /\ ~isFallback[Uses[t]]

\* The server's lock has one holder, whose session lives.
ServerInv ==
  /\ \A o, p \in Objects : held[o] > 0 /\ held[p] > 0 => o = p
  /\ \A o \in Objects : o \notin alive => held[o] = 0

FlagsInv ==
  /\ FlagsTellTheTruth
  /\ \A o \in Objects : isFallback[o] => locked[o]

LockInv == MutexInv /\ ServerInv /\ FlagsInv

\* A method that is entered keeps the types, whether it returns at once or asks.
LEMMA EnterTyped ==
  ASSUME TypeOK, NEW t \in Threads, Enter(t)
  PROVE  TypeOK'
<1> USE UsesAssumption, HomeAssumption
        DEF TypeOK, Places, object, server, Returns, Told, GivenUp, Forgets
<1>1. CASE AlreadyDone(t) \/ AlreadyLocked(t)
  BY <1>1 DEF AlreadyDone, AlreadyLocked, ReturnsEarly
<1>2. CASE SendQuery(t)
  BY <1>2 DEF SendQuery
<1>3. CASE UnlockFallback(t)
  BY <1>3 DEF UnlockFallback
<1>4. QED
  BY <1>1, <1>2, <1>3 DEF Enter

\* ... and so does what follows an answer of the server or of the process's mutex.
LEMMA AnswerTyped ==
  ASSUME TypeOK, NEW t \in Threads, Answer(t)
  PROVE  TypeOK'
<1> USE UsesAssumption, HomeAssumption
        DEF TypeOK, Places, object, server, Returns, Told, GivenUp, Forgets
<1>1. CASE NotGranted(t) \/ MutexTaken(t)
  BY <1>1 DEF NotGranted, MutexTaken, AnswersNo
<1>2. CASE Granted(t)
  BY <1>2 DEF Granted
<1>3. CASE Released(t)
  BY <1>3 DEF Released
<1>4. CASE QueryFails(t)
  <2>1. held' \in [Objects -> Nat]
    BY <1>4 DEF QueryFails
  <2>2. locked' \in [Objects -> BOOLEAN] /\ isFallback' \in [Objects -> BOOLEAN]
    BY <1>4 DEF QueryFails
  <2>3. holds' \subseteq Threads
    BY <1>4 DEF QueryFails
  <2>4. QED
    BY <1>4, <2>1, <2>2, <2>3 DEF QueryFails
<1>5. CASE FallBack(t)
  BY <1>5 DEF FallBack
<1>6. CASE TakeMutex(t)
  BY <1>6 DEF TakeMutex
<1>7. QED
  BY <1>1, <1>2, <1>3, <1>4, <1>5, <1>6 DEF Answer

\* Every step keeps the types.
LEMMA TypesKept ==
  ASSUME TypeOK, [Next]_vars
  PROVE  TypeOK'
<1>1. ASSUME NEW t \in Threads, \/ Enter(t) \/ Answer(t)
                               \/ \E method \in Methods : Call(t, method)
      PROVE  TypeOK'
  <2>1. ASSUME NEW method \in Methods, Call(t, method)
        PROVE  TypeOK'
    BY <2>1 DEF Call, TypeOK, Places, object, server
  <2>2. QED
    BY <1>1, <2>1, EnterTyped, AnswerTyped
<1>2. ASSUME NEW o \in Objects, SessionEnds(o)
      PROVE  TypeOK'
  BY <1>2 DEF SessionEnds, TypeOK, object
<1>3. (UNCHANGED vars) => TypeOK'
  BY DEF vars, TypeOK, object, server
<1>4. QED
  BY <1>1, <1>2, <1>3 DEF Next

\* The flags, the locks and the places of the threads are what they are declared as,
\* whatever is called and whatever fails.
THEOREM LockTypeCorrect == Spec => []TypeOK
<1>1. ASSUME Init
      PROVE  TypeOK
  BY <1>1 DEF Init, TypeOK, Places
<1>2. QED
  BY <1>1, TypesKept, PTL DEF Spec

-----------------------------------------------------------------------------
\* A thread that comes in finds nobody inside its object.
LEMMA NobodyElseInside ==
  ASSUME TypeOK, MutexInv, NEW t \in Threads, Enters(t) \/ Inside(t),
         NEW u \in Threads, u # t, Inside(u)
  PROVE  Uses[u] # Uses[t]
BY UsesAssumption, NothingAssumption DEF TypeOK, MutexInv, Enters

\* What t does to its own object leaves the others inside theirs as they were.
LEMMA OthersKeepMutexInv ==
  ASSUME TypeOK, MutexInv, NEW t \in Threads, Enters(t) \/ Inside(t),
         \A u \in Threads \ {t} : pc'[u] = pc[u] /\ op'[u] = op[u],
         \A o \in Objects \ {Uses[t]} :
            mu'[o] = mu[o] /\ locked'[o] = locked[o] /\ isFallback'[o] = isFallback[o],
         Inside(t)' =>
           /\ mu'[Uses[t]] = t
           /\ op'[t] \in {"Lock", "TryLock", "Unlock"}
           /\ pc'[t] = "mutex" => op'[t] = "Lock"
           /\ Acquires(t)' => ~locked'[Uses[t]]
           /\ op'[t] = "Unlock" => locked'[Uses[t]] /\ ~isFallback'[Uses[t]]
  PROVE  MutexInv'
<1>1. SUFFICES ASSUME NEW u \in Threads, Inside(u)'
               PROVE  /\ mu'[Uses[u]] = u
                      /\ op'[u] \in {"Lock", "TryLock", "Unlock"}
                      /\ pc'[u] = "mutex" => op'[u] = "Lock"
                      /\ Acquires(u)' => ~locked'[Uses[u]]
                      /\ op'[u] = "Unlock" => locked'[Uses[u]] /\ ~isFallback'[Uses[u]]
  BY DEF MutexInv
<1>2. CASE u = t
  BY <1>1, <1>2
<1>3. CASE u # t
  <2>1. Inside(u)
    BY <1>1, <1>3 DEF Inside
  <2>2. Uses[u] # Uses[t] /\ Uses[u] \in Objects
    BY <1>3, <2>1, NobodyElseInside, UsesAssumption
  <2>3. QED
    BY <1>3, <2>1, <2>2 DEF MutexInv, Acquires
<1>4. QED
  BY <1>2, <1>3

\* Every step keeps LockInv.
LEMMA LockInvStep ==
  ASSUME TypeOK, LockInv, [Next]_vars
  PROVE  LockInv'
<1> USE UsesAssumption, HomeAssumption, NothingAssumption
<1>1. ASSUME NEW t \in Threads, NEW method \in Methods, Call(t, method) PROVE LockInv'
  <2>1. MutexInv'
    BY <1>1 DEF Call, object, MutexInv, LockInv, Inside, Acquires, TypeOK
  <2>2. QED
    BY <1>1, <2>1 DEF Call, object, server, LockInv, ServerInv, FlagsInv, FlagsTellTheTruth
<1>2. ASSUME NEW t \in Threads, Enter(t) PROVE LockInv'
  <2>1. Enters(t)
    BY <1>2 DEF Enter, AlreadyDone, AlreadyLocked, UnlockFallback, SendQuery
  <2>2. CASE AlreadyDone(t) \/ AlreadyLocked(t)
    <3>1. Returns(t) /\ UNCHANGED <<object, fallback, server>>
      BY <2>2 DEF AlreadyDone, AlreadyLocked, ReturnsEarly
    <3>2. MutexInv'
      BY <2>1, <3>1, OthersKeepMutexInv DEF Returns, object, TypeOK, LockInv, Inside
    <3>3. QED
      BY <3>1, <3>2 DEF object, server, LockInv, ServerInv, FlagsInv, FlagsTellTheTruth
  <2>3. CASE UnlockFallback(t)
    <3>1. MutexInv'
      BY <2>1, <2>3, OthersKeepMutexInv DEF UnlockFallback, Returns, Forgets, TypeOK, LockInv, Inside
    <3>2. FlagsInv'
      BY <2>3 DEF UnlockFallback, Forgets, server, TypeOK, LockInv, FlagsInv, FlagsTellTheTruth
    <3>3. ServerInv'
      BY <2>3 DEF UnlockFallback, server, LockInv, ServerInv
    <3>4. QED
      BY <3>1, <3>2, <3>3 DEF LockInv
  <2>4. CASE SendQuery(t)
    <3>1. MutexInv'
      BY <2>1, <2>4, OthersKeepMutexInv
         DEF SendQuery, object, TypeOK, LockInv, Inside, Acquires
    <3>2. QED
      BY <2>4, <3>1 DEF SendQuery, object, server, LockInv, ServerInv, FlagsInv, FlagsTellTheTruth
  <2>5. QED
    BY <1>2, <2>2, <2>3, <2>4 DEF Enter
<1>3. ASSUME NEW t \in Threads, Answer(t) PROVE LockInv'
  <2>1. Inside(t)
    BY <1>3 DEF Answer, Granted, NotGranted, Released, QueryFails, FallBack, TakeMutex,
                MutexTaken, Inside
  <2>2. CASE Granted(t)
    <3>1. MutexInv'
      BY <2>1, <2>2, OthersKeepMutexInv DEF Granted, Returns, TypeOK, LockInv, Inside
    <3>2. ServerInv'
      BY <2>2 DEF Granted, Free, TypeOK, LockInv, ServerInv
    <3>3. FlagsInv'
      BY <2>1, <2>2 DEF Granted, TypeOK, LockInv, MutexInv, FlagsInv, FlagsTellTheTruth
    <3>4. QED
      BY <3>1, <3>2, <3>3 DEF LockInv
  <2>3. CASE NotGranted(t) \/ MutexTaken(t)
    <3>1. Returns(t) /\ UNCHANGED <<object, fallback, server>>
      BY <2>3 DEF NotGranted, MutexTaken, AnswersNo
    <3>2. MutexInv'
      BY <2>1, <3>1, OthersKeepMutexInv DEF Returns, object, TypeOK, LockInv, Inside
    <3>3. QED
      BY <3>1, <3>2 DEF object, server, LockInv, ServerInv, FlagsInv, FlagsTellTheTruth
  <2>4. CASE Released(t)
    <3>1. MutexInv'
      BY <2>1, <2>4, OthersKeepMutexInv DEF Released, Returns, Forgets, TypeOK, LockInv, Inside
    <3>2. ServerInv'
      BY <2>4 DEF Released, TypeOK, LockInv, ServerInv
    <3>3. FlagsInv'
      BY <2>1, <2>4 DEF Released, Forgets, TypeOK, LockInv, MutexInv, FlagsInv, FlagsTellTheTruth
    <3>4. QED
      BY <3>1, <3>2, <3>3 DEF LockInv
  <2>5. CASE QueryFails(t)
    <3>1. MutexInv'
      BY <2>1, <2>5, OthersKeepMutexInv
         DEF QueryFails, Returns, Forgets, object, TypeOK, LockInv, Inside
    <3>2. ServerInv'
      BY <2>5 DEF QueryFails, Free, TypeOK, LockInv, ServerInv
    <3>3. FlagsInv'
      BY <2>1, <2>5
         DEF QueryFails, Forgets, object, TypeOK, LockInv, MutexInv, FlagsInv, FlagsTellTheTruth
    <3>4. QED
      BY <3>1, <3>2, <3>3 DEF LockInv
  <2>6. CASE FallBack(t)
    <3>1. MutexInv'
      BY <2>1, <2>6, OthersKeepMutexInv
         DEF FallBack, object, TypeOK, LockInv, MutexInv, Inside, Acquires
    <3>2. QED
      BY <2>6, <3>1 DEF FallBack, object, server, LockInv, ServerInv, FlagsInv, FlagsTellTheTruth
  <2>7. CASE TakeMutex(t)
    <3>1. MutexInv'
      BY <2>1, <2>7, OthersKeepMutexInv DEF TakeMutex, Returns, TypeOK, LockInv, Inside
    <3>2. ServerInv'
      BY <2>7 DEF TakeMutex, server, LockInv, ServerInv
    <3>3. FlagsInv'
      BY <2>1, <2>7
         DEF TakeMutex, MutexFree, server, TypeOK, LockInv, FlagsInv, FlagsTellTheTruth
    <3>4. QED
      BY <3>1, <3>2, <3>3 DEF LockInv
  <2>8. QED
    BY <1>3, <2>2, <2>3, <2>4, <2>5, <2>6, <2>7 DEF Answer
<1>4. ASSUME NEW o \in Objects, SessionEnds(o) PROVE LockInv'
  <2>1. MutexInv'
    BY <1>4 DEF SessionEnds, object, LockInv, MutexInv, Inside, Acquires
  <2>2. QED
    BY <1>4, <2>1
       DEF SessionEnds, object, TypeOK, LockInv, ServerInv, FlagsInv, FlagsTellTheTruth
<1>5. CASE UNCHANGED vars
  BY <1>5 DEF vars, object, server, LockInv, MutexInv, ServerInv, FlagsInv, FlagsTellTheTruth,
              Inside, Acquires
<1>6. QED
  BY <1>1, <1>2, <1>3, <1>4, <1>5 DEF Next

\* LockInv holds whatever is called in whatever order.
LEMMA LockInvHolds == Spec => []LockInv
<1>1. Init => LockInv
  BY UsesAssumption, HomeAssumption, NothingAssumption
     DEF Init, LockInv, MutexInv, ServerInv, FlagsInv, FlagsTellTheTruth, Inside
<1>2. TypeOK /\ LockInv /\ [Next]_vars => LockInv'
  BY LockInvStep
<1>3. QED
  BY <1>1, <1>2, LockTypeCorrect, PTL DEF Spec

\* The flags of an object stand for what the server and the process hold.
THEOREM FlagsAreTrue == Spec => []FlagsTellTheTruth
BY LockInvHolds, PTL DEF LockInv, FlagsInv

\* Two objects are never locked in the same place.
THEOREM HoldersAreExclusive == Spec => []HoldersExclude
<1>1. LockInv => HoldersExclude
  BY UsesAssumption
     DEF LockInv, ServerInv, FlagsInv, FlagsTellTheTruth, HoldersExclude, StillHas, SamePlace
<1>2. QED
  BY <1>1, LockInvHolds, PTL

-----------------------------------------------------------------------------
(***************************************************************************)
(* Refinement of Mutexes.                                                  *)
(***************************************************************************)

LEMMA PlacesOfObjects ==
  ASSUME NEW o \in Objects
  PROVE  PlaceOf(o) \in LockPlaces /\ PlaceOf(o)' \in LockPlaces
BY HomeAssumption DEF PlaceOf, LockPlaces

\* No place has two holders.
LEMMA OneHolderEach ==
  ASSUME LockInv, NEW o \in Objects, NEW p \in Objects,
         IsHeld(o), IsHeld(p), PlaceOf(o) = PlaceOf(p)
  PROVE  o = p
<1>1. locked[o] /\ locked[p]
  BY DEF IsHeld, StillHas
<1>2. CASE isFallback[o]
  <2>1. isFallback[p] /\ Home[o] = Home[p]
    BY <1>2 DEF PlaceOf
  <2>2. fallback[Home[o]] = o /\ fallback[Home[p]] = p
    BY <1>1, <1>2, <2>1 DEF LockInv, FlagsInv, FlagsTellTheTruth
  <2>3. QED
    BY <2>1, <2>2
<1>3. CASE ~isFallback[o]
  <2>1. ~isFallback[p]
    BY <1>3 DEF PlaceOf
  <2>2. o \in alive /\ p \in alive
    BY <1>3, <2>1 DEF IsHeld
  <2>3. held[o] > 0 /\ held[p] > 0
    BY <1>1, <1>3, <2>1, <2>2 DEF LockInv, FlagsInv, FlagsTellTheTruth
  <2>4. QED
    BY <2>3 DEF LockInv, ServerInv
<1>4. QED
  BY <1>2, <1>3

\* A step in which one object at most comes to hold a place or ceases to.
LEMMA OneObjectMoves ==
  ASSUME LockInv, LockInv', NEW o \in Objects,
         \A p \in Objects \ {o} : (IsHeld(p)' <=> IsHeld(p)) /\ PlaceOf(p)' = PlaceOf(p),
         IsHeld(o) /\ IsHeld(o)' => PlaceOf(o)' = PlaceOf(o)
  PROVE  [Mutex!MutexesNext]_HeldIn
<1>1. /\ HeldIn = [p \in LockPlaces |-> {x \in Objects : IsHeld(x) /\ PlaceOf(x) = p}]
      /\ HeldIn' = [p \in LockPlaces |-> {x \in Objects : IsHeld(x)' /\ PlaceOf(x)' = p}]
  BY DEF HeldIn
<1>2. PlaceOf(o) \in LockPlaces /\ PlaceOf(o)' \in LockPlaces
  BY PlacesOfObjects
<1>3. CASE IsHeld(o) <=> IsHeld(o)'
  <2>1. ASSUME NEW p \in LockPlaces
        PROVE  {x \in Objects : IsHeld(x) /\ PlaceOf(x) = p}
                 = {x \in Objects : IsHeld(x)' /\ PlaceOf(x)' = p}
    BY <1>3
  <2>2. HeldIn' = HeldIn
    BY <1>1, <2>1
  <2>3. QED
    BY <2>2
<1>4. CASE ~IsHeld(o) /\ IsHeld(o)'
  <2> DEFINE q == PlaceOf(o)'
  <2>1. \A x \in Objects : IsHeld(x)' /\ PlaceOf(x)' = q => x = o
    <3>1. ASSUME NEW x \in Objects, NEW y \in Objects, IsHeld(x)', IsHeld(y)', PlaceOf(x)' = PlaceOf(y)'
          PROVE  x = y
      <4>1. locked'[x] /\ locked'[y]
        BY <3>1 DEF IsHeld, StillHas
      <4>2. QED
        BY <3>1, <4>1 DEF LockInv, FlagsInv, FlagsTellTheTruth, ServerInv, IsHeld, PlaceOf
    <3>2. QED
      BY <1>4, <3>1
  <2>2. HeldIn[q] = {}
    BY <1>1, <1>2, <1>4, <2>1
  <2>3. \A p \in LockPlaces : o \notin HeldIn[p]
    BY <1>1, <1>4
  <2>4. HeldIn' = [HeldIn EXCEPT ![q] = {o}]
    <3>1. ASSUME NEW p \in LockPlaces
          PROVE  {x \in Objects : IsHeld(x)' /\ PlaceOf(x)' = p}
                   = IF p = q THEN {o} ELSE {x \in Objects : IsHeld(x) /\ PlaceOf(x) = p}
      BY <1>4, <2>1
    <3> HIDE DEF q
    <3>2. QED
      BY <1>1, <3>1
  <2>5. Mutex!Take(q, o)
    BY <2>2, <2>3, <2>4 DEF Mutex!Take
  <2>6. QED
    BY <1>2, <2>5 DEF Mutex!MutexesNext
<1>5. CASE IsHeld(o) /\ ~IsHeld(o)'
  <2> DEFINE q == PlaceOf(o)
  <2>1. \A x \in Objects : IsHeld(x) /\ PlaceOf(x) = q => x = o
    BY <1>5, OneHolderEach
  <2>2. HeldIn[q] # {}
    BY <1>1, <1>2, <1>5
  <2>3. HeldIn' = [HeldIn EXCEPT ![q] = {}]
    <3>1. ASSUME NEW p \in LockPlaces
          PROVE  {x \in Objects : IsHeld(x)' /\ PlaceOf(x)' = p}
                   = IF p = q THEN {} ELSE {x \in Objects : IsHeld(x) /\ PlaceOf(x) = p}
      BY <1>5, <2>1
    <3> HIDE DEF q
    <3>2. QED
      BY <1>1, <3>1
  <2>4. Mutex!GiveBack(q)
    BY <2>2, <2>3 DEF Mutex!GiveBack
  <2>5. QED
    BY <1>2, <2>4 DEF Mutex!MutexesNext
<1>6. QED
  BY <1>3, <1>4, <1>5

\* What a thread does is done to its own object, and nothing held changes its place.
LEMMA ThreadMoves ==
  ASSUME LockInv, LockInv', NEW t \in Threads, alive' = alive,
         \A u \in Threads \ {t} : u \in holds' <=> u \in holds,
         \A p \in Objects \ {Uses[t]} : locked'[p] = locked[p] /\ isFallback'[p] = isFallback[p],
         locked[Uses[t]] /\ locked'[Uses[t]] => isFallback'[Uses[t]] = isFallback[Uses[t]]
  PROVE  [Mutex!MutexesNext]_HeldIn
<1>1. Uses[t] \in Objects
  BY UsesAssumption
<1>2. ASSUME NEW p \in Objects \ {Uses[t]}
      PROVE  (IsHeld(p)' <=> IsHeld(p)) /\ PlaceOf(p)' = PlaceOf(p)
  <2>1. \A u \in Threads : Uses[u] = p => (StillHas(u)' <=> StillHas(u))
    BY <1>2 DEF StillHas
  <2>2. QED
    BY <1>2, <2>1 DEF IsHeld, PlaceOf
<1>3. IsHeld(Uses[t]) /\ IsHeld(Uses[t])' => PlaceOf(Uses[t])' = PlaceOf(Uses[t])
  BY DEF IsHeld, StillHas, PlaceOf
<1>4. QED
  BY <1>1, <1>2, <1>3, OneObjectMoves

\* Every step maps to a step of Mutexes or to a stutter.
LEMMA MutexStep ==
  ASSUME TypeOK, LockInv, LockInv', [Next]_vars
  PROVE  [Mutex!MutexesNext]_HeldIn
<1> USE UsesAssumption DEF TypeOK
<1>1. ASSUME NEW t \in Threads, NEW method \in Methods, Call(t, method)
      PROVE  [Mutex!MutexesNext]_HeldIn
  BY <1>1, ThreadMoves DEF Call, object, server
<1>2. ASSUME NEW t \in Threads, Enter(t)
      PROVE  [Mutex!MutexesNext]_HeldIn
  <2>1. /\ alive' = alive
        /\ \A u \in Threads \ {t} : u \in holds' <=> u \in holds
    BY <1>2 DEF Enter, AlreadyDone, AlreadyLocked, UnlockFallback, SendQuery, ReturnsEarly,
                server, Told, GivenUp
  <2>2. CASE UnlockFallback(t)
    BY <2>1, <2>2, ThreadMoves DEF UnlockFallback, Forgets
  <2>3. CASE ~UnlockFallback(t)
    <3>1. UNCHANGED object
      BY <1>2, <2>3 DEF Enter, AlreadyDone, AlreadyLocked, SendQuery, ReturnsEarly
    <3>2. QED
      BY <2>1, <3>1, ThreadMoves DEF object
  <2>4. QED
    BY <2>2, <2>3
<1>3. ASSUME NEW t \in Threads, Answer(t)
      PROVE  [Mutex!MutexesNext]_HeldIn
  <2>1. /\ alive' = alive
        /\ \A u \in Threads \ {t} : u \in holds' <=> u \in holds
    BY <1>3 DEF Answer, Granted, NotGranted, Released, QueryFails, FallBack, TakeMutex,
                MutexTaken, AnswersNo, server, Told, GivenUp
  <2>2. CASE Granted(t)
    BY <2>1, <2>2, ThreadMoves DEF Granted
  <2>3. CASE Released(t) \/ (QueryFails(t) /\ Forgets(Uses[t]))
    <3>1. Forgets(Uses[t])
      BY <2>3 DEF Released
    <3>2. QED
      BY <2>1, <3>1, ThreadMoves DEF Forgets
  <2>4. CASE TakeMutex(t)
    <3>1. ~locked[Uses[t]]
      BY <2>4 DEF TakeMutex, LockInv, MutexInv, Inside, Acquires
    <3>2. QED
      BY <2>1, <2>4, <3>1, ThreadMoves DEF TakeMutex
  <2>5. CASE NotGranted(t) \/ FallBack(t) \/ MutexTaken(t) \/ (QueryFails(t) /\ UNCHANGED object)
    <3>1. UNCHANGED object
      BY <2>5 DEF NotGranted, FallBack, MutexTaken, AnswersNo
    <3>2. QED
      BY <2>1, <3>1, ThreadMoves DEF object
  <2>6. QueryFails(t) => Forgets(Uses[t]) \/ UNCHANGED object
    BY DEF QueryFails
  <2>7. QED
    BY <1>3, <2>2, <2>3, <2>4, <2>5, <2>6 DEF Answer
<1>4. ASSUME NEW o \in Objects, SessionEnds(o)
      PROVE  [Mutex!MutexesNext]_HeldIn
  <2>1. UNCHANGED <<locked, isFallback, holds>> /\ alive' = alive \ {o}
    BY <1>4 DEF SessionEnds, object
  <2>2. \A p \in Objects \ {o} : (IsHeld(p)' <=> IsHeld(p)) /\ PlaceOf(p)' = PlaceOf(p)
    BY <2>1 DEF IsHeld, StillHas, PlaceOf
  <2>3. PlaceOf(o)' = PlaceOf(o)
    BY <2>1 DEF PlaceOf
  <2>4. QED
    BY <2>2, <2>3, OneObjectMoves
<1>5. CASE UNCHANGED vars
  <2>1. HeldIn' = HeldIn
    BY <1>5 DEF vars, object, server, HeldIn, IsHeld, StillHas, PlaceOf
  <2>2. QED
    BY <2>1
<1>6. QED
  BY <1>1, <1>2, <1>3, <1>4, <1>5 DEF Next

\* The objects, the server and the processes together are mutexes: whatever is called
\* and fails, no place goes from one holder to the next without having been free.
THEOREM LocksAreMutexes == Spec => ImplementsMutexes
<1>1. Init => Mutex!MutexesInit
  BY DEF Init, HeldIn, IsHeld, StillHas, Mutex!MutexesInit
<1>2. TypeOK /\ LockInv /\ LockInv' /\ [Next]_vars => [Mutex!MutexesNext]_HeldIn
  BY MutexStep
<1>3. QED
  BY <1>1, <1>2, LockTypeCorrect, LockInvHolds, PTL DEF Spec, ImplementsMutexes, Mutex!Spec
=============================================================================
