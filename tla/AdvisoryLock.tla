---------------------------- MODULE AdvisoryLock ----------------------------
(***************************************************************************)
(* The AdvisoryLock objects of internal/lock/lock.go: Lock, TryLock,       *)
(* Unlock and IsLocked, called by any thread (goroutine) in any order,     *)
(* with the object's own mutex, the lock of the server, and the mutex      *)
(* inside the process that replaces it where an error looks as if the      *)
(* driver had no advisory locks.                                           *)
(*                                                                         *)
(* Each object has a connection of its own, as in cli.go, and all of them  *)
(* have the same lock id (one history table).                              *)
(***************************************************************************)
EXTENDS Integers, FiniteSets

CONSTANTS
  Threads,    \* the goroutines that call the methods
  Objects,    \* the AdvisoryLock objects, each with its connection
  Processes,  \* the processes the objects live in
  Uses,       \* Uses[t]: the object whose methods t calls
  Home,       \* Home[o]: the process of o
  Mistakable, \* the objects whose errors may look like another driver's (or are)
  NoThread,   \* no thread
  NoObject,   \* no object
  MaxHeld     \* bound: how often a session's lock may be left behind

ASSUME UsesAssumption == Uses \in [Threads -> Objects]
ASSUME HomeAssumption == Home \in [Objects -> Processes]
ASSUME NothingAssumption == NoThread \notin Threads /\ NoObject \notin Objects
ASSUME MistakableAssumption == Mistakable \subseteq Objects
ASSUME MaxHeldAssumption == MaxHeld \in Nat

VARIABLES
  locked,     \* the object's flag
  isFallback, \* the object's flag: it holds the process's mutex
  mu,         \* mu[o]: the thread that has the object's mutex
  fallback,   \* fallback[p]: the object that has locked the process's mutex
  held,       \* held[o]: how often the session of o holds the server's lock
  alive,      \* the objects whose session the server has not ended
  pc,         \* where each thread is
  op,         \* the method it is in
  holds       \* the threads that were told they have the lock

object == <<locked, isFallback>>
server == <<held, alive>>
vars   == <<object, mu, fallback, server, pc, op, holds>>

Methods == {"Lock", "TryLock", "Unlock", "IsLocked"}
NoMethod == "none"

\* "enter" waits for the object's mutex, "query" for the server's answer and
\* "mutex" for the process's mutex.
Places == {"idle", "enter", "query", "mutex"}

TypeOK ==
  /\ locked \in [Objects -> BOOLEAN]
  /\ isFallback \in [Objects -> BOOLEAN]
  /\ mu \in [Objects -> Threads \cup {NoThread}]
  /\ fallback \in [Processes -> Objects \cup {NoObject}]
  /\ held \in [Objects -> Nat]
  /\ alive \subseteq Objects
  /\ pc \in [Threads -> Places]
  /\ op \in [Threads -> Methods \cup {NoMethod}]
  /\ holds \subseteq Threads

Init ==
  /\ locked = [o \in Objects |-> FALSE]
  /\ isFallback = [o \in Objects |-> FALSE]
  /\ mu = [o \in Objects |-> NoThread]
  /\ fallback = [p \in Processes |-> NoObject]
  /\ held = [o \in Objects |-> 0]
  /\ alive = Objects
  /\ pc = [t \in Threads |-> "idle"]
  /\ op = [t \in Threads |-> NoMethod]
  /\ holds = {}

-----------------------------------------------------------------------------
(***************************************************************************)
(* Calls and returns.                                                      *)
(***************************************************************************)

Call(t, method) ==
  /\ pc[t] = "idle"
  /\ pc' = [pc EXCEPT ![t] = "enter"]
  /\ op' = [op EXCEPT ![t] = method]
  /\ UNCHANGED <<object, mu, fallback, server, holds>>

\* l.mu.Lock()
Enters(t) == pc[t] = "enter" /\ mu[Uses[t]] = NoThread

\* The method returns; the deferred l.mu.Unlock() runs.
Returns(t) ==
  /\ pc' = [pc EXCEPT ![t] = "idle"]
  /\ op' = [op EXCEPT ![t] = NoMethod]
  /\ mu' = [mu EXCEPT ![Uses[t]] = NoThread]

\* What t has been told: that it has the lock, that it has it no longer.
Told(t) == holds' = holds \cup {t}
GivenUp(t) == holds' = holds \ {t}

Acquires(t) == op[t] \in {"Lock", "TryLock"}

-----------------------------------------------------------------------------
(***************************************************************************)
(* What needs no answer of the server.                                     *)
(***************************************************************************)

MutReturnsEarly(t) ==
  /\ pc' = [pc EXCEPT ![t] = "idle"]
  /\ op' = [op EXCEPT ![t] = NoMethod]
  /\ mu' = [mu EXCEPT ![Uses[t]] = t]
  /\ UNCHANGED <<object, fallback, server>>

ReturnsEarly(t) ==
  /\ Returns(t)
  /\ UNCHANGED <<object, fallback, server>>

\* Lock of a locked object is an error, Unlock of an unlocked one is not.
AlreadyDone(t) ==
  /\ Enters(t)
  /\ \/ op[t] = "Lock" /\ locked[Uses[t]] /\ UNCHANGED holds
     \/ op[t] = "Unlock" /\ ~locked[Uses[t]] /\ GivenUp(t)
     \/ op[t] = "IsLocked" /\ UNCHANGED holds
  /\ ReturnsEarly(t)

\* TryLock of a locked object says yes, whoever locked it.
AlreadyLocked(t) ==
  /\ Enters(t)
  /\ op[t] = "TryLock" /\ locked[Uses[t]]
  /\ Told(t)
  /\ ReturnsEarly(t)

MutForgets(o) == locked' = [locked EXCEPT ![o] = FALSE] /\ UNCHANGED isFallback

Forgets(o) ==
  /\ locked' = [locked EXCEPT ![o] = FALSE]
  /\ isFallback' = [isFallback EXCEPT ![o] = FALSE]

UnlockFallback(t) ==
  /\ Enters(t)
  /\ op[t] = "Unlock" /\ locked[Uses[t]] /\ isFallback[Uses[t]]
  /\ fallback' = [fallback EXCEPT ![Home[Uses[t]]] = NoObject]
  /\ Forgets(Uses[t])
  /\ GivenUp(t)
  /\ Returns(t)
  /\ UNCHANGED server

\* The query is sent; the object's mutex is kept until it is answered.
SendQuery(t) ==
  /\ Enters(t)
  /\ \/ Acquires(t) /\ ~locked[Uses[t]]
     \/ op[t] = "Unlock" /\ locked[Uses[t]] /\ ~isFallback[Uses[t]]
  /\ mu' = [mu EXCEPT ![Uses[t]] = t]
  /\ pc' = [pc EXCEPT ![t] = "query"]
  /\ UNCHANGED <<object, fallback, server, op, holds>>

-----------------------------------------------------------------------------
(***************************************************************************)
(* The server's answers.                                                   *)
(***************************************************************************)

\* A session-level lock: free for a session unless another one has it.
Free(o) == \A p \in Objects \ {o} : held[p] = 0

Granted(t) ==
  /\ pc[t] = "query" /\ Acquires(t)
  /\ Uses[t] \in alive /\ Free(Uses[t])
  /\ held' = [held EXCEPT ![Uses[t]] = @ + 1]
  /\ locked' = [locked EXCEPT ![Uses[t]] = TRUE]
  /\ Told(t)
  /\ Returns(t)
  /\ UNCHANGED <<isFallback, fallback, alive>>

AnswersNo(t) == UNCHANGED <<object, fallback, server, holds>>

\* pg_try_advisory_lock does not wait.
NotGranted(t) ==
  /\ pc[t] = "query" /\ op[t] = "TryLock"
  /\ Uses[t] \in alive /\ ~Free(Uses[t])
  /\ AnswersNo(t)
  /\ Returns(t)

Released(t) ==
  /\ pc[t] = "query" /\ op[t] = "Unlock"
  /\ Uses[t] \in alive
  /\ held' = [held EXCEPT ![Uses[t]] = IF @ > 0 THEN @ - 1 ELSE 0]
  /\ Forgets(Uses[t])
  /\ GivenUp(t)
  /\ Returns(t)
  /\ UNCHANGED <<fallback, alive>>

\* Any other error.  Lock and TryLock say that nothing was acquired, though the
\* server may have granted the lock and the answer be lost; Unlock forgets the
\* lock, though the session may still hold it.
QueryFails(t) ==
  /\ pc[t] = "query"
  /\ \/ Acquires(t) /\ UNCHANGED <<object, holds, held>>
     \/ /\ Acquires(t)
        /\ Uses[t] \in alive /\ Free(Uses[t]) /\ held[Uses[t]] < MaxHeld
        /\ held' = [held EXCEPT ![Uses[t]] = @ + 1]
        /\ UNCHANGED <<object, holds>>
     \/ /\ op[t] = "Unlock"
        /\ held[Uses[t]] <= MaxHeld
        /\ Forgets(Uses[t])
        /\ GivenUp(t)
        /\ UNCHANGED held
  /\ Returns(t)
  /\ UNCHANGED <<fallback, alive>>

-----------------------------------------------------------------------------
(***************************************************************************)
(* isNonPostgresError: the mutex of the process instead.                   *)
(***************************************************************************)

\* Lock goes to wait for that mutex, and does not look at its context again.
FallBack(t) ==
  /\ pc[t] = "query" /\ op[t] = "Lock"
  /\ Uses[t] \in Mistakable
  /\ pc' = [pc EXCEPT ![t] = "mutex"]
  /\ UNCHANGED <<object, mu, fallback, server, op, holds>>

MutMutexFree(t) == fallback[Home[Uses[t]]] \in {NoObject} \cup Objects

MutexFree(t) == fallback[Home[Uses[t]]] = NoObject

\* The mutex is locked: by Lock, which waited for it, or by TryLock.
TakeMutex(t) ==
  /\ \/ pc[t] = "mutex"
     \/ pc[t] = "query" /\ op[t] = "TryLock" /\ Uses[t] \in Mistakable
  /\ MutexFree(t)
  /\ fallback' = [fallback EXCEPT ![Home[Uses[t]]] = Uses[t]]
  /\ isFallback' = [isFallback EXCEPT ![Uses[t]] = TRUE]
  /\ locked' = [locked EXCEPT ![Uses[t]] = TRUE]
  /\ Told(t)
  /\ Returns(t)
  /\ UNCHANGED server

MutexTaken(t) ==
  /\ pc[t] = "query" /\ op[t] = "TryLock" /\ Uses[t] \in Mistakable
  /\ ~MutexFree(t)
  /\ AnswersNo(t)
  /\ Returns(t)

-----------------------------------------------------------------------------
\* The session ends: the connection breaks, or the driver closes it because
\* the context of a call has expired.  The objects do not learn of it.
SessionEnds(o) ==
  /\ o \in alive
  /\ alive' = alive \ {o}
  /\ held' = [held EXCEPT ![o] = 0]
  /\ UNCHANGED <<object, mu, fallback, pc, op, holds>>

Answer(t) ==
  \/ Granted(t) \/ NotGranted(t) \/ Released(t) \/ QueryFails(t)
  \/ FallBack(t) \/ TakeMutex(t) \/ MutexTaken(t)

Enter(t) == AlreadyDone(t) \/ AlreadyLocked(t) \/ UnlockFallback(t) \/ SendQuery(t)

Next ==
  \/ \E t \in Threads :
       \/ \E method \in Methods : Call(t, method)
       \/ Enter(t) \/ Answer(t)
  \/ \E o \in Objects : SessionEnds(o)

\* Both mutexes are handed on in turn, so whoever keeps waiting gets them; a query of
\* Lock and TryLock is answered, by its deadline at the latest (the handlers' contexts
\* have one), but nothing is said of Unlock's, which they call with
\* context.Background(); and who was told that it has the lock returns it at some time.
Fairness ==
  \A t \in Threads :
    /\ SF_vars(Enter(t) \/ (pc[t] = "mutex" /\ TakeMutex(t)))
    /\ WF_vars(pc[t] = "query" /\ Acquires(t) /\ Answer(t))
    /\ SF_vars(t \in holds /\ Call(t, "Unlock"))

Spec == Init /\ [][Next]_vars /\ Fairness

-----------------------------------------------------------------------------
(***************************************************************************)
(* Safety.                                                                 *)
(***************************************************************************)

\* The flags of an object (IsLocked, and the branches of Unlock) against what
\* they stand for: a locked object whose session lives has the server's lock,
\* so that "not held by session" is never reported, and the process's mutex is
\* locked by exactly the object that will unlock it (unlocking one that is not
\* locked ends a Go program).
FlagsTellTheTruth ==
  /\ \A o \in Objects :
       locked[o] /\ ~isFallback[o] /\ o \in alive => held[o] > 0
  /\ \A o \in Objects :
       locked[o] /\ isFallback[o] <=> fallback[Home[o]] = o

\* t was told that it has the lock, and no other thread has unlocked its object.
StillHas(t) == t \in holds /\ locked[Uses[t]]

\* Two objects that are locked in the same place: on the server, by sessions
\* that live, or in one process.
SamePlace(o, p) ==
  \/ ~isFallback[o] /\ ~isFallback[p] /\ {o, p} \subseteq alive
  \/ isFallback[o] /\ isFallback[p] /\ Home[o] = Home[p]

\* Mutual exclusion of the callers: of two that were told they have the lock,
\* by different objects, one has lost its session, or one of them fell back to
\* a mutex the other does not share.  (The threads of one object are not
\* excluded from each other: TryLock says yes to the second.)
HoldersExclude ==
  \A t, u \in Threads :
     StillHas(t) /\ StillHas(u) /\ Uses[t] # Uses[u] => ~SamePlace(Uses[t], Uses[u])

-----------------------------------------------------------------------------
(***************************************************************************)
(* Refinement: seen through what the callers were told, the objects and    *)
(* the server are mutexes, one for the server and one in each process.     *)
(***************************************************************************)

\* Where o's flags say it has its lock, and whether somebody counts on it.
PlaceOf(o) == IF isFallback[o] THEN <<"process", Home[o]>> ELSE <<"server">>
IsHeld(o) == (isFallback[o] \/ o \in alive) /\ \E t \in Threads : Uses[t] = o /\ StillHas(t)

LockPlaces == {<<"server">>} \cup {<<"process", p>> : p \in Processes}

HeldIn == [p \in LockPlaces |-> {o \in Objects : IsHeld(o) /\ PlaceOf(o) = p}]

Mutex == INSTANCE Mutexes WITH Places <- LockPlaces, Holders <- Objects, held <- HeldIn

\* Every call, answer and end of a session takes one free place for an object that
\* has none, gives one back, or changes nothing: no place goes from holder to holder,
\* no lock moves from the server to a process, and two are never freed at once.
ImplementsMutexes == Mutex!Spec

-----------------------------------------------------------------------------
(***************************************************************************)
(* Liveness.                                                               *)
(***************************************************************************)

\* A query of Unlock for o is never answered: its thread keeps the object's mutex.
StuckInUnlock(o) ==
  \E t \in Threads : Uses[t] = o /\ pc[t] = "query" /\ op[t] = "Unlock"

\* Every method returns, although each waits for up to three locks with the object's
\* mutex in hand, if holders give back what they have; but for those of an object one
\* of whose Unlock calls is never answered.  That one keeps nobody else: the callers
\* of other objects still return, with the lock or with an error.
EveryCallReturns ==
  \A t \in Threads :
     <>[]StuckInUnlock(Uses[t]) \/ (pc[t] # "idle" ~> pc[t] = "idle")
=============================================================================
