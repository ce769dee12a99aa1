---------------------------- MODULE RunnerProofs ----------------------------
(***************************************************************************)
(* Theorems about Runner, for any set of runners, directories, files and   *)
(* faults.  The proof has four layers, each an inductive invariant that    *)
(* the next ones use: ControlInv (types, and what a place in the program   *)
(* says of the loop), LockInv (who holds the advisory lock), KeyInv (the   *)
(* unique key of the history table, whatever the files contain) and        *)
(* AtomicInv (what a transaction contains when it is committed, if no file *)
(* has a COMMIT of its own).                                               *)
(***************************************************************************)
EXTENDS Runner, MigrationsProofs

\* Tuples of variables, and the predicates a guard is made of.
USE DEF command, inputs, loop, result, Goto, Live, Applies, DryRuns

-----------------------------------------------------------------------------
(***************************************************************************)
(* Type correctness.                                                       *)
(***************************************************************************)

\* TypeOK without the database.
ControlOK ==
  /\ pc \in [Runners -> Places]
  /\ job \in [Runners -> Jobs]
  /\ dir \in [Runners -> [Versions -> Contents \cup {NoFile}]]
  /\ edits \in 0..MaxEdits
  /\ conn \in [Runners -> {"none", "up", "hung", "lost", "closed"}]
  /\ seen \in [Runners -> [Versions -> Sums]]
  /\ disc \in [Runners -> [Versions -> Sums]]
  /\ todo \in [Runners -> SUBSET Versions]
  /\ body \in [Runners -> Contents \cup {NoFile}]
  /\ at \in [Runners -> Nat]
  /\ done \in [Runners -> SUBSET Versions]
  /\ failed \in [Runners -> SUBSET Versions]
  /\ why \in [Runners -> Reasons]
  /\ exit \in [Runners -> ExitCodes \cup {NoExit}]

\* What the place of r says of its loop: there are pending files only once
\* they were computed, a file is worked on only while one is left, and each
\* has the checksum that its row will get.
Planned(r) ==
  /\ pc[r] \in {"idle", "lock", "lockWait", "read", "discover"} => todo[r] = {}
  /\ pc[r] \in {"look", "create"} /\ ~DryRuns(r) => todo[r] = {}
  /\ pc[r] = "begin" => DryRuns(r)
  /\ pc[r] \in {"file", "exec", "record", "commit", "commitWait"} => todo[r] # {}
  /\ pc[r] \in {"exec", "record", "commit", "commitWait"} =>
       body[r] \in Contents /\ at[r] \in Nat \ {0}
  /\ \A v \in todo[r] : disc[r][v] \in Checksums

LoopInv == \A r \in Runners : Planned(r)

ControlInv == DatabaseTypeOK /\ ControlOK /\ LoopInv

\* The file a loop works on is one of those left (todo is a set here, a slice in
\* the code).
LEMMA CurrentIsPending ==
  ASSUME ControlOK, NEW r \in Runners, todo[r] # {}
  PROVE  Current(r) \in todo[r] /\ Current(r) \in Versions
BY NextFileIsLowest DEF Current, ControlOK

\* The map of the history has a checksum for each row.
LEMMA HistorySumsTyped ==
  ASSUME DatabaseTypeOK
  PROVE  HistorySums \in [Versions -> Sums]
<1>1. SUFFICES ASSUME NEW v \in Versions, v \in RecordedVersions
               PROVE  (CHOOSE row \in history : row.version = v).sum \in Sums
  BY DEF HistorySums, Sums
<1>2. PICK row \in history : row.version = v
  BY <1>1 DEF RecordedVersions
<1>3. (CHOOSE x \in history : x.version = v) \in history
  BY <1>2
<1>4. QED
  BY <1>3 DEF DatabaseTypeOK, Rows, Sums

\* The part of ControlOK that an outcome changes.
OutcomeOK ==
  /\ pc \in [Runners -> Places]
  /\ done \in [Runners -> SUBSET Versions]
  /\ failed \in [Runners -> SUBSET Versions]
  /\ why \in [Runners -> Reasons]
  /\ exit \in [Runners -> ExitCodes \cup {NoExit}]

\* An error that is about no file.
LEMMA FailsEarlyTyped ==
  ASSUME ControlOK, NEW r \in Runners, NEW reason \in Reasons, FailsEarly(r, reason)
  PROVE  OutcomeOK' /\ pc' = [pc EXCEPT ![r] = AfterLoop(r)]
BY DEF FailsEarly, Fails, AfterLoop, ControlOK, OutcomeOK, Places, ExitCodes

\* An error about the current file, which Result.Failed names.
LEMMA FailsCurrentTyped ==
  ASSUME ControlOK, NEW r \in Runners, todo[r] # {},
         NEW reason \in Reasons, FailsCurrent(r, reason)
  PROVE  OutcomeOK' /\ pc' = [pc EXCEPT ![r] = AfterLoop(r)]
BY CurrentIsPending
   DEF FailsCurrent, Fails, AfterLoop, ControlOK, OutcomeOK, Places, ExitCodes

\* The handler's return with an exit code.
LEMMA EndsTyped ==
  ASSUME ControlOK, NEW r \in Runners, NEW code \in ExitCodes, Ends(r, code)
  PROVE  OutcomeOK' /\ pc' = [pc EXCEPT ![r] = AfterLoop(r)]
BY DEF Ends, AfterLoop, ControlOK, OutcomeOK, Places

\* A failed call ends the handler, except in the recheck of Apply, which goes on.
LEMMA HandlesErrorTyped ==
  ASSUME ControlOK, LoopInv, NEW r \in Runners, HandlesError(r)
  PROVE  /\ OutcomeOK'
         /\ \/ pc' = [pc EXCEPT ![r] = AfterLoop(r)]
            \/ pc[r] = "check" /\ todo[r] # {} /\ pc' = [pc EXCEPT ![r] = "file"]
<1>1. {"call", "lock", "record", "commit"} \subseteq Reasons
  BY DEF Reasons
<1>2. CASE FailsEarly(r, "call") \/ FailsEarly(r, "lock")
  BY <1>1, <1>2, FailsEarlyTyped
<1>3. CASE /\ pc[r] \in {"file", "exec", "record", "commit", "commitWait"}
           /\ \E reason \in {"call", "record", "commit"} : FailsCurrent(r, reason)
  BY <1>1, <1>3, FailsCurrentTyped DEF LoopInv, Planned
<1>4. CASE pc[r] = "check" /\ todo[r] # {} /\ Goto(r, "file") /\ UNCHANGED result
  BY <1>4 DEF ControlOK, OutcomeOK, Places
<1>5. QED
  BY <1>2, <1>3, <1>4 DEF HandlesError

\* The victim of a deadlock waits at a statement or at the record.
LEMMA VictimWaits ==
  ASSUME NEW r \in Runners, LosesDeadlock(r)
  PROVE  pc[r] \in {"exec", "record"}
BY DEF LosesDeadlock, InCycle, Knot, WaitsFor

\* One step per action: what it does to the runner's own variables.
LEMMA ControlStep ==
  ASSUME ControlInv, [Next]_vars
  PROVE  ControlOK' /\ LoopInv'
<1> USE DEF ControlInv
<1>1. ASSUME NEW r \in Runners, Connect(r)
      PROVE  ControlOK' /\ LoopInv'
  <2>1. ControlOK'
    BY <1>1, CurrentIsPending
       DEF ControlOK, LoopInv, Planned, Places, Connect, AfterConnect, Locks,
         FirstStatement, Applies
  <2>2. LoopInv'
    BY <1>1, CurrentIsPending
       DEF ControlOK, LoopInv, Planned, Connect, AfterConnect, Locks,
         FirstStatement, Applies
  <2>3. QED
    BY <2>1, <2>2
<1>2. ASSUME NEW r \in Runners, RequestLock(r)
      PROVE  ControlOK' /\ LoopInv'
  <2>1. ControlOK'
    BY <1>2, CurrentIsPending
       DEF ControlOK, LoopInv, Planned, Places, RequestLock
  <2>2. LoopInv'
    BY <1>2, CurrentIsPending
       DEF ControlOK, LoopInv, Planned, RequestLock
  <2>3. QED
    BY <2>1, <2>2
<1>3. ASSUME NEW r \in Runners, LockGranted(r)
      PROVE  ControlOK' /\ LoopInv'
  <2>1. ControlOK'
    BY <1>3, CurrentIsPending
       DEF ControlOK, LoopInv, Planned, Places, LockGranted, LockReturns,
         FirstStatement
  <2>2. LoopInv'
    BY <1>3, CurrentIsPending
       DEF ControlOK, LoopInv, Planned, LockGranted, LockReturns,
         FirstStatement
  <2>3. QED
    BY <2>1, <2>2
<1>4. ASSUME NEW r \in Runners, LookTable(r)
      PROVE  ControlOK' /\ LoopInv'
  <2>1. ControlOK'
    BY <1>4, CurrentIsPending
       DEF ControlOK, LoopInv, Planned, Places, LookTable, AfterTable
  <2>2. LoopInv'
    BY <1>4, CurrentIsPending
       DEF ControlOK, LoopInv, Planned, LookTable, AfterTable
  <2>3. QED
    BY <2>1, <2>2
<1>5. ASSUME NEW r \in Runners, CreateTable(r)
      PROVE  ControlOK' /\ LoopInv'
  <2>1. CASE FailsEarly(r, "table") /\ UNCHANGED <<command, conn, inputs, loop>>
    <3>1. OutcomeOK' /\ pc' = [pc EXCEPT ![r] = AfterLoop(r)]
      BY <2>1, FailsEarlyTyped DEF Reasons
    <3>2. QED
      BY <2>1, <3>1 DEF ControlOK, OutcomeOK, LoopInv, Planned, AfterLoop
  <2>2. CASE Goto(r, AfterTable(r)) /\ UNCHANGED <<command, conn, inputs, loop, result>>
    <3>1. pc[r] = "create"
      BY <1>5 DEF CreateTable
    <3>2. QED
      BY <2>2, <3>1 DEF ControlOK, Places, LoopInv, Planned, AfterTable
  <2>3. QED
    BY <1>5, <2>1, <2>2 DEF CreateTable
<1>6. ASSUME NEW r \in Runners, ReadHistory(r)
      PROVE  ControlOK' /\ LoopInv'
  <2>1. ControlOK'
    BY <1>6, HistorySumsTyped DEF ControlOK, ReadHistory, Places
  <2>2. LoopInv'
    BY <1>6 DEF ControlOK, LoopInv, Planned, ReadHistory
  <2>3. QED
    BY <2>1, <2>2
<1>7. ASSUME NEW r \in Runners, Discover(r)
      PROVE  ControlOK' /\ LoopInv'
  <2>1. DirSums(r) \in [Versions -> Sums]
    BY DEF ControlOK, DirSums, Sums, Checksums
  <2>2. ASSUME NEW v \in Versions, DirSums(r)[v] # NoSum
        PROVE  DirSums(r)[v] \in Checksums
    BY <2>2 DEF ControlOK, DirSums, Checksums
  <2>3. /\ pc[r] = "discover" /\ todo[r] = {}
        /\ disc' = [disc EXCEPT ![r] = DirSums(r)]
        /\ UNCHANGED <<command, conn, seen>>
    BY <1>7 DEF LoopInv, Planned, Discover
  <2>4. CASE /\ OutcomeOK' /\ pc' = [pc EXCEPT ![r] = AfterLoop(r)]
             /\ UNCHANGED loop
    BY <2>1, <2>3, <2>4 DEF ControlOK, OutcomeOK, LoopInv, Planned, AfterLoop
  <2>5. CASE \E code \in ExitCodes : Ends(r, code) /\ UNCHANGED loop
    BY <2>4, <2>5, EndsTyped
  <2>6. CASE \E reason \in {"missing", "mismatch"} :
               FailsEarly(r, reason) /\ UNCHANGED loop
    BY <2>4, <2>6, FailsEarlyTyped DEF Reasons
  <2>7. CASE /\ Goto(r, IF DryRuns(r) THEN "begin" ELSE "check")
             /\ todo' = [todo EXCEPT ![r] = Unapplied(DirSums(r), seen[r])]
             /\ UNCHANGED <<body, at, result>>
    <3>1. ControlOK'
      BY <2>1, <2>3, <2>7 DEF ControlOK, Places, Unapplied
    <3>2. LoopInv'
      BY <2>2, <2>3, <2>7 DEF ControlOK, LoopInv, Planned, Unapplied
    <3>3. QED
      BY <3>1, <3>2
  <2>8. QED
    BY <1>7, <2>5, <2>6, <2>7
       DEF Discover, MakesPlan, ComputePending, PendingError, ReportExitCode, ExitCodes
<1>8. ASSUME NEW r \in Runners, BeginDryRun(r)
      PROVE  ControlOK' /\ LoopInv'
  <2>1. ControlOK'
    BY <1>8, CurrentIsPending
       DEF ControlOK, LoopInv, Planned, Places, BeginDryRun
  <2>2. LoopInv'
    BY <1>8, CurrentIsPending
       DEF ControlOK, LoopInv, Planned, BeginDryRun
  <2>3. QED
    BY <2>1, <2>2
<1>9. ASSUME NEW r \in Runners, LoopEnds(r)
      PROVE  ControlOK' /\ LoopInv'
  <2>1. Ends(r, 0) /\ UNCHANGED <<command, conn, inputs, loop>>
    BY <1>9 DEF LoopEnds
  <2>2. OutcomeOK' /\ pc' = [pc EXCEPT ![r] = AfterLoop(r)]
    BY <2>1, EndsTyped DEF ExitCodes
  <2>3. QED
    BY <2>1, <2>2 DEF ControlOK, OutcomeOK, LoopInv, Planned, AfterLoop
<1>10. ASSUME NEW r \in Runners, SkipApplied(r)
      PROVE  ControlOK' /\ LoopInv'
  <2>1. ControlOK'
    BY <1>10, CurrentIsPending
       DEF ControlOK, LoopInv, Planned, Places, SkipApplied, Others
  <2>2. LoopInv'
    BY <1>10, CurrentIsPending
       DEF ControlOK, LoopInv, Planned, SkipApplied, Others
  <2>3. QED
    BY <2>1, <2>2
<1>11. ASSUME NEW r \in Runners, NotApplied(r)
      PROVE  ControlOK' /\ LoopInv'
  <2>1. ControlOK'
    BY <1>11, CurrentIsPending
       DEF ControlOK, LoopInv, Planned, Places, NotApplied
  <2>2. LoopInv'
    BY <1>11, CurrentIsPending
       DEF ControlOK, LoopInv, Planned, NotApplied
  <2>3. QED
    BY <2>1, <2>2
<1>12. ASSUME NEW r \in Runners, RejectFile(r)
      PROVE  ControlOK' /\ LoopInv'
  <2>1. /\ pc[r] = "file" /\ todo[r] # {}
        /\ FailsCurrent(r, "file") \/ FailsCurrent(r, "nontx")
        /\ UNCHANGED <<command, conn, inputs, loop>>
    BY <1>12 DEF RejectFile, LoopInv, Planned
  <2>2. OutcomeOK' /\ pc' = [pc EXCEPT ![r] = AfterLoop(r)]
    BY <2>1, FailsCurrentTyped DEF Reasons
  <2>3. QED
    BY <2>1, <2>2 DEF ControlOK, OutcomeOK, LoopInv, Planned, AfterLoop
<1>13. ASSUME NEW r \in Runners, ReadFile(r)
      PROVE  ControlOK' /\ LoopInv'
  <2>1. ControlOK'
    BY <1>13, CurrentIsPending
       DEF ControlOK, LoopInv, Planned, Places, ReadFile
  <2>2. LoopInv'
    BY <1>13, CurrentIsPending
       DEF ControlOK, LoopInv, Planned, ReadFile
  <2>3. QED
    BY <2>1, <2>2
<1>14. ASSUME NEW r \in Runners, RunStatement(r)
      PROVE  ControlOK' /\ LoopInv'
  <2>1. ControlOK'
    BY <1>14, CurrentIsPending
       DEF ControlOK, LoopInv, Planned, Places, RunStatement, Advance
  <2>2. LoopInv'
    BY <1>14, CurrentIsPending
       DEF ControlOK, LoopInv, Planned, RunStatement, Advance
  <2>3. QED
    BY <2>1, <2>2
<1>15. ASSUME NEW r \in Runners, RunCommit(r)
      PROVE  ControlOK' /\ LoopInv'
  <2>1. ControlOK'
    BY <1>15, CurrentIsPending
       DEF ControlOK, LoopInv, Planned, Places, RunCommit, Advance
  <2>2. LoopInv'
    BY <1>15, CurrentIsPending
       DEF ControlOK, LoopInv, Planned, RunCommit, Advance
  <2>3. QED
    BY <2>1, <2>2
<1>16. ASSUME NEW r \in Runners, StatementFails(r)
      PROVE  ControlOK' /\ LoopInv'
  <2>1. /\ todo[r] # {} /\ FailsCurrent(r, "statement")
        /\ UNCHANGED <<command, conn, inputs, loop>>
    BY <1>16 DEF StatementFails, LoopInv, Planned
  <2>2. OutcomeOK' /\ pc' = [pc EXCEPT ![r] = AfterLoop(r)]
    BY <2>1, FailsCurrentTyped DEF Reasons
  <2>3. QED
    BY <2>1, <2>2 DEF ControlOK, OutcomeOK, LoopInv, Planned, AfterLoop
<1>17. ASSUME NEW r \in Runners, StatementsDone(r)
      PROVE  ControlOK' /\ LoopInv'
  <2>1. ControlOK'
    BY <1>17, CurrentIsPending
       DEF ControlOK, LoopInv, Planned, Places, StatementsDone
  <2>2. LoopInv'
    BY <1>17, CurrentIsPending
       DEF ControlOK, LoopInv, Planned, StatementsDone
  <2>3. QED
    BY <2>1, <2>2
<1>18. ASSUME NEW r \in Runners, RecordMigration(r)
      PROVE  ControlOK' /\ LoopInv'
  <2>1. /\ pc[r] = "record" /\ todo[r] # {}
        /\ UNCHANGED <<command, conn, inputs>>
    BY <1>18 DEF RecordMigration, LoopInv, Planned
  <2>2. CASE DryRuns(r) /\ Finishes(r) /\ Goto(r, "check") /\ UNCHANGED <<failed, why, exit>>
    <3>1. ControlOK'
      BY <2>1, <2>2, CurrentIsPending DEF ControlOK, Places, Finishes, Others
    <3>2. LoopInv'
      BY <2>1, <2>2 DEF ControlOK, LoopInv, Planned, Finishes, Others
    <3>3. QED
      BY <3>1, <3>2
  <2>3. CASE Goto(r, "commit") /\ UNCHANGED <<loop, result>>
    BY <2>1, <2>3 DEF ControlOK, Places, LoopInv, Planned
  <2>4. QED
    BY <1>18, <2>2, <2>3 DEF RecordMigration, AfterRecord
<1>19. ASSUME NEW r \in Runners, RecordFails(r)
      PROVE  ControlOK' /\ LoopInv'
  <2>1. /\ todo[r] # {} /\ FailsCurrent(r, "record")
        /\ UNCHANGED <<command, conn, inputs, loop>>
    BY <1>19 DEF RecordFails, LoopInv, Planned
  <2>2. OutcomeOK' /\ pc' = [pc EXCEPT ![r] = AfterLoop(r)]
    BY <2>1, FailsCurrentTyped DEF Reasons
  <2>3. QED
    BY <2>1, <2>2 DEF ControlOK, OutcomeOK, LoopInv, Planned, AfterLoop
<1>20. ASSUME NEW r \in Runners, SendCommit(r)
      PROVE  ControlOK' /\ LoopInv'
  <2>1. ControlOK'
    BY <1>20, CurrentIsPending
       DEF ControlOK, LoopInv, Planned, Places, SendCommit
  <2>2. LoopInv'
    BY <1>20, CurrentIsPending
       DEF ControlOK, LoopInv, Planned, SendCommit
  <2>3. QED
    BY <2>1, <2>2
<1>21. ASSUME NEW r \in Runners, CommitReturns(r)
      PROVE  ControlOK' /\ LoopInv'
  <2>1. /\ pc[r] = "commitWait" /\ todo[r] # {}
        /\ UNCHANGED <<command, conn, inputs>>
    BY <1>21 DEF CommitReturns, LoopInv, Planned
  <2>2. CASE /\ tx[r].st = "committed" /\ Finishes(r) /\ Goto(r, "check")
             /\ UNCHANGED <<failed, why, exit>>
    <3>1. ControlOK'
      BY <2>1, <2>2, CurrentIsPending DEF ControlOK, Places, Finishes, Others
    <3>2. LoopInv'
      BY <2>1, <2>2 DEF ControlOK, LoopInv, Planned, Finishes, Others
    <3>3. QED
      BY <3>1, <3>2
  <2>3. CASE FailsCurrent(r, "commit") /\ UNCHANGED loop
    <3>1. OutcomeOK' /\ pc' = [pc EXCEPT ![r] = AfterLoop(r)]
      BY <2>1, <2>3, FailsCurrentTyped DEF Reasons
    <3>2. QED
      BY <2>1, <2>3, <3>1 DEF ControlOK, OutcomeOK, LoopInv, Planned, AfterLoop
  <2>4. QED
    BY <1>21, <2>2, <2>3 DEF CommitReturns
<1>22. ASSUME NEW r \in Runners, Rollback(r)
      PROVE  ControlOK' /\ LoopInv'
  <2>1. ControlOK'
    BY <1>22, CurrentIsPending
       DEF ControlOK, LoopInv, Planned, Places, Rollback
  <2>2. LoopInv'
    BY <1>22, CurrentIsPending
       DEF ControlOK, LoopInv, Planned, Rollback
  <2>3. QED
    BY <2>1, <2>2
<1>23. ASSUME NEW r \in Runners, Return(r)
      PROVE  ControlOK' /\ LoopInv'
  <2>1. ControlOK'
    BY <1>23, CurrentIsPending
       DEF ControlOK, LoopInv, Planned, Places, Return
  <2>2. LoopInv'
    BY <1>23, CurrentIsPending
       DEF ControlOK, LoopInv, Planned, Return
  <2>3. QED
    BY <2>1, <2>2
<1>24. ASSUME NEW r \in Runners, NoticeLoss(r)
      PROVE  ControlOK' /\ LoopInv'
  <2>1. /\ OutcomeOK' /\ UNCHANGED <<command, inputs, loop>>
        /\ conn' \in [Runners -> {"none", "up", "hung", "lost", "closed"}]
        /\ \/ pc' = [pc EXCEPT ![r] = AfterLoop(r)]
           \/ pc[r] = "check" /\ todo[r] # {} /\ pc' = [pc EXCEPT ![r] = "file"]
    BY <1>24, HandlesErrorTyped DEF NoticeLoss, ControlOK
  <2>2. QED
    BY ZenonT(40), <2>1 DEF ControlOK, OutcomeOK, LoopInv, Planned, AfterLoop
<1>25. ASSUME NEW r \in Runners, GrantLock(r),
             UNCHANGED <<pc, command, conn, inputs, loop, result>>
      PROVE  ControlOK' /\ LoopInv'
  <2>1. ControlOK'
    BY <1>25, CurrentIsPending
       DEF ControlOK, LoopInv, Planned, Places
  <2>2. LoopInv'
    BY <1>25, CurrentIsPending
       DEF ControlOK, LoopInv, Planned
  <2>3. QED
    BY <2>1, <2>2
<1>26. ASSUME NEW r \in Runners, ServerCommit(r),
             UNCHANGED <<pc, command, conn, inputs, loop, result>>
      PROVE  ControlOK' /\ LoopInv'
  <2>1. ControlOK'
    BY <1>26, CurrentIsPending
       DEF ControlOK, LoopInv, Planned, Places
  <2>2. LoopInv'
    BY <1>26, CurrentIsPending
       DEF ControlOK, LoopInv, Planned
  <2>3. QED
    BY <2>1, <2>2
<1>27. ASSUME NEW r \in Runners, ServerDisconnect(r)
      PROVE  ControlOK' /\ LoopInv'
  <2>1. ControlOK'
    BY <1>27, CurrentIsPending
       DEF ControlOK, LoopInv, Planned, Places, ServerDisconnect
  <2>2. LoopInv'
    BY <1>27, CurrentIsPending
       DEF ControlOK, LoopInv, Planned, ServerDisconnect
  <2>3. QED
    BY <2>1, <2>2
<1>28. ASSUME NEW r \in Runners, CallFails(r)
      PROVE  ControlOK' /\ LoopInv'
  <2>1. /\ OutcomeOK' /\ UNCHANGED <<command, inputs, loop>>
        /\ conn' \in [Runners -> {"none", "up", "hung", "lost", "closed"}]
        /\ \/ pc' = [pc EXCEPT ![r] = AfterLoop(r)]
           \/ pc[r] = "check" /\ todo[r] # {} /\ pc' = [pc EXCEPT ![r] = "file"]
    BY <1>28, HandlesErrorTyped DEF CallFails, ControlOK
  <2>2. QED
    BY ZenonT(40), <2>1 DEF ControlOK, OutcomeOK, LoopInv, Planned, AfterLoop
<1>29. ASSUME NEW r \in Runners, CallExpires(r)
      PROVE  ControlOK' /\ LoopInv'
  <2>1. /\ OutcomeOK' /\ UNCHANGED <<command, inputs, loop>>
        /\ conn' \in [Runners -> {"none", "up", "hung", "lost", "closed"}]
        /\ \/ pc' = [pc EXCEPT ![r] = AfterLoop(r)]
           \/ pc[r] = "check" /\ todo[r] # {} /\ pc' = [pc EXCEPT ![r] = "file"]
           \/ pc' = [pc EXCEPT ![r] = "return"]
    <3>1. conn' \in [Runners -> {"none", "up", "hung", "lost", "closed"}]
      BY <1>29 DEF CallExpires, ControlOK
    <3>2. CASE HandlesError(r)
      BY <1>29, <3>1, <3>2, HandlesErrorTyped DEF CallExpires
    <3>3. CASE pc[r] = "rollback" /\ Goto(r, "return") /\ UNCHANGED result
      BY <1>29, <3>1, <3>3 DEF CallExpires, ControlOK, OutcomeOK, Places
    <3>4. QED
      BY <1>29, <3>2, <3>3 DEF CallExpires
  <2>2. QED
    BY <2>1 DEF ControlOK, OutcomeOK, LoopInv, Planned, AfterLoop
<1>30. ASSUME NEW r \in Runners, LoseConnection(r)
      PROVE  ControlOK' /\ LoopInv'
  <2>1. ControlOK'
    BY <1>30, CurrentIsPending
       DEF ControlOK, LoopInv, Planned, Places, LoseConnection
  <2>2. LoopInv'
    BY <1>30, CurrentIsPending
       DEF ControlOK, LoopInv, Planned, LoseConnection
  <2>3. QED
    BY <2>1, <2>2
<1>31. ASSUME NEW r \in Runners, Crash(r)
      PROVE  ControlOK' /\ LoopInv'
  <2>1. ControlOK'
    BY <1>31, CurrentIsPending
       DEF ControlOK, LoopInv, Planned, Places, Crash
  <2>2. LoopInv'
    BY <1>31, CurrentIsPending
       DEF ControlOK, LoopInv, Planned, Crash
  <2>3. QED
    BY <2>1, <2>2
<1>32. ASSUME NEW r \in Runners, NEW v \in Versions, NEW content \in Contents \cup {NoFile},
             EditFile(r, v, content)
      PROVE  ControlOK' /\ LoopInv'
  BY <1>32, MaxEditsAssumption DEF ControlOK, LoopInv, Planned, EditFile
<1>33. ASSUME NEW r \in Runners, MisreadHistory(r)
      PROVE  ControlOK' /\ LoopInv'
  <2>1. Nothing \in [Versions -> Sums]
    BY DEF Nothing, Sums
  <2>2. ControlOK'
    BY <1>33, <2>1 DEF ControlOK, MisreadHistory, Places
  <2>3. LoopInv'
    BY <1>33 DEF ControlOK, LoopInv, Planned, MisreadHistory
  <2>4. QED
    BY <2>2, <2>3
<1>34. ASSUME NEW r \in Runners, OutputFails(r)
      PROVE  ControlOK' /\ LoopInv'
  <2>1. FailsEarly(r, "output") /\ UNCHANGED <<command, conn, inputs, loop>>
    BY <1>34 DEF OutputFails
  <2>2. OutcomeOK' /\ pc' = [pc EXCEPT ![r] = AfterLoop(r)]
    BY <2>1, FailsEarlyTyped DEF Reasons
  <2>3. QED
    BY <2>1, <2>2 DEF ControlOK, OutcomeOK, LoopInv, Planned, AfterLoop
<1>35. ASSUME NEW r \in Runners, Hang(r)
      PROVE  ControlOK' /\ LoopInv'
  BY <1>35 DEF ControlOK, LoopInv, Planned, Hang
<1>36. CASE UNCHANGED vars
  BY <1>36 DEF vars, ControlOK, LoopInv, Planned
<1>37. ASSUME NEW r \in Runners, LosesDeadlock(r)
      PROVE  ControlOK' /\ LoopInv'
  <2>1. /\ todo[r] # {} /\ FailsCurrent(r, "deadlock")
        /\ UNCHANGED <<command, conn, inputs, loop>>
    BY <1>37, VictimWaits DEF LosesDeadlock, LoopInv, Planned
  <2>2. OutcomeOK' /\ pc' = [pc EXCEPT ![r] = AfterLoop(r)]
    BY <2>1, FailsCurrentTyped DEF Reasons
  <2>3. QED
    BY <2>1, <2>2 DEF ControlOK, OutcomeOK, LoopInv, Planned, AfterLoop
<1>38. QED
  BY <1>1, <1>2, <1>3, <1>4, <1>5, <1>6, <1>7, <1>8, <1>9, <1>10, <1>11,
     <1>12, <1>13, <1>14, <1>15, <1>16, <1>17, <1>18, <1>19, <1>20, <1>21,
     <1>22, <1>23, <1>24, <1>25, <1>26, <1>27, <1>28, <1>29, <1>30, <1>31,
     <1>32, <1>33, <1>34, <1>35, <1>36, <1>37
     DEF Next, ClientStep, ServerStep, Fault, Terminated

-----------------------------------------------------------------------------
\* The statements a step may send, with arguments of the right types.
Statement(r) ==
  \/ OpenSession(r) \/ AskLock(r) \/ Begin(r) \/ MakeTable(r) \/ Refuse(r)
  \/ AskCommit(r) \/ EndSession(r) \/ GrantLock(r)
  \/ \E next \in {"none", "auto", "committed", "refused"} :
       Publish(r, next) \/ Discard(r, next)
  \/ \E effect \in Effects, violates \in BOOLEAN : Execute(r, effect, violates)
  \/ \E row \in Rows : Insert(r, row)

\* What RunStatement executes is an effect ...
LEMMA EffectTyped ==
  ASSUME ControlOK, LoopInv, NEW r \in Runners, pc[r] = "exec"
  PROVE  EffectOf(r) \in Effects
BY CurrentIsPending DEF LoopInv, Planned, EffectOf, Effects

\* ... and what RecordMigration inserts is a row.
LEMMA RowTyped ==
  ASSUME ControlOK, LoopInv, NEW r \in Runners, pc[r] = "record"
  PROVE  RowFor(r) \in Rows
BY CurrentIsPending DEF LoopInv, Planned, RowFor, Rows

\* A step of r, of the server for r, or of the environment against r.
Step(r) == Connect(r) \/ ClientStep(r) \/ ServerStep(r) \/ Fault(r)

\* Every step is a stutter or one runner's.
LEMMA NextIsStep == [Next]_vars => UNCHANGED vars \/ \E r \in Runners : Step(r)
BY DEF Next, Step, Terminated

\* Every step touches the database through one statement, or not at all.
LEMMA StepIsStatement ==
  ASSUME ControlInv, NEW r \in Runners, Step(r)
  PROVE  UNCHANGED dbVars \/ Statement(r)
<1> USE DEF ControlInv
<1>1. CASE ClientStep(r)
  <2>1. CASE RunStatement(r)
    <3>1. EffectOf(r) \in Effects
      BY <2>1, EffectTyped DEF RunStatement
    <3>2. (Kind(r) = "deferred") \in BOOLEAN
      OBVIOUS
    <3>3. QED
      BY <2>1, <3>1, <3>2 DEF RunStatement, Executed, Statement
  <2>2. CASE RecordMigration(r)
    <3>1. RowFor(r) \in Rows
      BY <2>2, RowTyped DEF RecordMigration
    <3>2. QED
      BY <2>2, <3>1 DEF RecordMigration, Recorded, Statement
  <2>3. CASE RunCommit(r) \/ StatementFails(r) \/ CommitReturns(r) \/ Rollback(r)
    BY <2>3 DEF RunCommit, StatementFails, CommitReturns, Rollback, Statement
  <2>4. CASE RequestLock(r) \/ CreateTable(r) \/ BeginDryRun(r) \/ ReadFile(r)
             \/ RecordFails(r) \/ LosesDeadlock(r) \/ SendCommit(r) \/ Return(r)
    BY <2>4 DEF RequestLock, CreateTable, BeginDryRun, ReadFile, RecordFails,
                LosesDeadlock, SendCommit, Return, Statement
  <2>5. CASE LockGranted(r) \/ LookTable(r) \/ ReadHistory(r) \/ Discover(r)
             \/ LoopEnds(r) \/ SkipApplied(r) \/ NotApplied(r) \/ RejectFile(r)
             \/ StatementsDone(r) \/ NoticeLoss(r)
    BY <2>5 DEF LockGranted, LookTable, ReadHistory, Discover, LoopEnds,
                SkipApplied, NotApplied, RejectFile, StatementsDone, NoticeLoss
  <2>6. QED
    BY <1>1, <2>1, <2>2, <2>3, <2>4, <2>5 DEF ClientStep
<1>2. CASE Connect(r) \/ ServerStep(r) \/ Fault(r)
  BY <1>2 DEF Connect, ServerStep, ServerCommit, ServerDisconnect, Fault, CallFails,
              CallExpires, MisreadHistory, OutputFails, LoseConnection, Hang, Crash,
              EditFile, Statement
<1>3. QED
  BY <1>1, <1>2 DEF Step

\* The transaction of a session that has none, and of one that has just begun.
LEMMA FreshTxTyped ==
  ASSUME NEW st \in {"none", "auto", "committed", "refused"}
  PROVE  [NoTx EXCEPT !.st = st] \in Transactions /\ NoTx \in Transactions
         /\ OpenTx \in Transactions
BY DEF NoTx, OpenTx, Transactions

\* One step per kind of statement.
LEMMA StatementTyped ==
  ASSUME DatabaseTypeOK, NEW r \in Runners, Statement(r)
  PROVE  DatabaseTypeOK'
<1>1. CASE OpenSession(r) \/ AskLock(r) \/ GrantLock(r)
  BY <1>1 DEF DatabaseTypeOK, OpenSession, AskLock, GrantLock
<1>2. CASE Begin(r) \/ EndSession(r)
  BY <1>2, FreshTxTyped DEF DatabaseTypeOK, Begin, EndSession, LockFreed
<1>3. CASE MakeTable(r)
  BY ZenonT(40), <1>3 DEF DatabaseTypeOK, MakeTable, Transactions
<1>4. CASE Refuse(r)
  <2>1. (tx[r].st = "open") \in BOOLEAN
    OBVIOUS
  <2>2. [tx[r] EXCEPT !.doomed = (tx[r].st = "open")] \in Transactions
    BY <2>1 DEF DatabaseTypeOK, Transactions
  <2>3. QED
    BY <1>4, <2>2 DEF DatabaseTypeOK, Refuse
<1>5. CASE AskCommit(r)
  BY <1>5 DEF DatabaseTypeOK, AskCommit, Transactions
<1>6. ASSUME NEW next \in {"none", "auto", "committed", "refused"}, Publish(r, next)
      PROVE  DatabaseTypeOK'
  <2>1. tx[r] \in Transactions
    BY DEF DatabaseTypeOK
  <2>2. QED
    BY <1>6, <2>1, FreshTxTyped DEF DatabaseTypeOK, Publish, Transactions
<1>7. ASSUME NEW next \in {"none", "auto", "committed", "refused"}, Discard(r, next)
      PROVE  DatabaseTypeOK'
  BY <1>7, FreshTxTyped DEF DatabaseTypeOK, Discard
<1>8. ASSUME NEW effect \in Effects, NEW violates \in BOOLEAN, Execute(r, effect, violates)
      PROVE  DatabaseTypeOK'
  <2>1. tx[r] \in Transactions
    BY DEF DatabaseTypeOK
  <2>2. [tx[r] EXCEPT !.ddl = @ \cup {effect}, !.doomed = @ \/ violates] \in Transactions
    BY <2>1 DEF Transactions
  <2>3. QED
    BY <1>8, <2>2 DEF DatabaseTypeOK, Execute
<1>9. ASSUME NEW row \in Rows, Insert(r, row)
      PROVE  DatabaseTypeOK'
  <2>1. tx[r] \in Transactions
    BY DEF DatabaseTypeOK
  <2>2. [tx[r] EXCEPT !.rows = @ \cup {row}] \in Transactions
    BY <2>1 DEF Transactions
  <2>3. QED
    BY <1>9, <2>2 DEF DatabaseTypeOK, Insert
<1>10. QED
  BY <1>1, <1>2, <1>3, <1>4, <1>5, <1>6, <1>7, <1>8, <1>9 DEF Statement

\* The first layer holds at the start ...
LEMMA InitControl == Init => ControlInv
<1> SUFFICES ASSUME Init PROVE ControlInv
  OBVIOUS
<1>1. DatabaseTypeOK
  BY FreshTxTyped DEF Init, DatabaseInit, DatabaseTypeOK
<1>2. ControlOK
  BY ImagesAssumption, MaxEditsAssumption
     DEF Init, ControlOK, Places, Reasons, NoExit, Nothing, Sums
<1>3. LoopInv
  BY DEF Init, LoopInv, Planned
<1>4. QED
  BY <1>1, <1>2, <1>3 DEF ControlInv

\* ... and every step keeps it ...
LEMMA StepControl == ControlInv /\ [Next]_vars => ControlInv'
<1> SUFFICES ASSUME ControlInv, [Next]_vars PROVE ControlInv'
  OBVIOUS
<1>1. DatabaseTypeOK'
  <2>1. CASE UNCHANGED dbVars
    BY <2>1 DEF ControlInv, dbVars, DatabaseTypeOK
  <2>2. CASE \E r \in Runners : Statement(r)
    BY <2>2, StatementTyped DEF ControlInv
  <2>3. QED
    BY <2>1, <2>2, NextIsStep, StepIsStatement DEF vars
<1>2. QED
  BY <1>1, ControlStep DEF ControlInv

\* ... so the other layers may use it everywhere.
LEMMA ControlInvariant == Spec => []ControlInv
BY InitControl, StepControl, PTL DEF Spec

\* Type correctness of the runners, the server and the database.
THEOREM TypeCorrect == Spec => []TypeOK
<1>1. ControlInv => TypeOK
  BY DEF ControlInv, ControlOK, TypeOK
<1>2. QED
  BY <1>1, ControlInvariant, PTL

-----------------------------------------------------------------------------
(***************************************************************************)
(* What a step of one runner leaves alone.                                 *)
(***************************************************************************)

\* A statement sent by r changes the transaction of r only.
LEMMA StatementIsLocal ==
  ASSUME DatabaseTypeOK, NEW r \in Runners, Statement(r), NEW s \in Runners \ {r}
  PROVE  tx'[s] = tx[s] /\ (owner = s => owner' = s)
<1>1. ASSUME NEW next, Publish(r, next) \/ Discard(r, next)
      PROVE  tx'[s] = tx[s] /\ owner' = owner
  BY <1>1 DEF DatabaseTypeOK, Publish, Discard
<1>2. ASSUME NEW effect, NEW violates, Execute(r, effect, violates)
      PROVE  tx'[s] = tx[s] /\ owner' = owner
  BY <1>2 DEF DatabaseTypeOK, Execute
<1>3. ASSUME NEW row, Insert(r, row)
      PROVE  tx'[s] = tx[s] /\ owner' = owner
  BY <1>3 DEF DatabaseTypeOK, Insert
<1>4. CASE \/ OpenSession(r) \/ AskLock(r) \/ Begin(r) \/ MakeTable(r) \/ Refuse(r)
           \/ AskCommit(r) \/ EndSession(r) \/ GrantLock(r)
  BY <1>4, NoOneAssumption
     DEF DatabaseTypeOK, OpenSession, AskLock, Begin, MakeTable, Refuse, AskCommit,
         EndSession, LockFreed, GrantLock
<1>5. QED
  BY <1>1, <1>2, <1>3, <1>4 DEF Statement

\* A step of r changes the variables of r only, and takes the lock from nobody.
LEMMA StepIsLocal ==
  ASSUME ControlInv, NEW r \in Runners, Step(r), NEW s \in Runners \ {r}
  PROVE  /\ pc'[s] = pc[s] /\ conn'[s] = conn[s] /\ todo'[s] = todo[s]
         /\ body'[s] = body[s] /\ at'[s] = at[s]
         /\ tx'[s] = tx[s] /\ (owner = s => owner' = s)
<1> USE DEF ControlInv, ControlOK
<1>1. tx'[s] = tx[s] /\ (owner = s => owner' = s)
  BY StepIsStatement, StatementIsLocal DEF dbVars
<1> DEFINE Same == /\ pc'[s] = pc[s] /\ conn'[s] = conn[s] /\ todo'[s] = todo[s]
                   /\ body'[s] = body[s] /\ at'[s] = at[s]
<1>2. ASSUME NEW reason, FailsEarly(r, reason) \/ FailsCurrent(r, reason)
      PROVE  pc'[s] = pc[s]
  BY <1>2 DEF FailsEarly, FailsCurrent, Fails
<1>3. HandlesError(r) => pc'[s] = pc[s]
  BY <1>2 DEF HandlesError
<1>4. ASSUME Connect(r) \/ Fault(r)
      PROVE  Same
  BY <1>2, <1>3, <1>4
     DEF Connect, Fault, CallFails, CallExpires, MisreadHistory, OutputFails, LoseConnection,
         Hang, Crash, EditFile
<1>5. ASSUME ServerStep(r)
      PROVE  Same
  BY <1>5 DEF ServerStep, ServerDisconnect
<1>6. ASSUME \/ RequestLock(r) \/ LockGranted(r) \/ LookTable(r) \/ CreateTable(r)
             \/ ReadHistory(r) \/ BeginDryRun(r)
      PROVE  Same
  BY <1>2, <1>6 DEF RequestLock, LockGranted, LookTable, CreateTable, ReadHistory, BeginDryRun
<1>7. ASSUME Discover(r)
      PROVE  Same
  BY <1>2, <1>7 DEF Discover, MakesPlan, Ends
<1>8. ASSUME LoopEnds(r) \/ SkipApplied(r) \/ NotApplied(r) \/ RejectFile(r) \/ ReadFile(r)
      PROVE  Same
  BY <1>2, <1>8 DEF LoopEnds, Ends, SkipApplied, NotApplied, RejectFile, ReadFile
<1>9. ASSUME RunStatement(r) \/ RunCommit(r) \/ StatementFails(r) \/ StatementsDone(r)
      PROVE  Same
  BY <1>2, <1>9 DEF RunStatement, RunCommit, StatementFails, StatementsDone, Advance
<1>10. ASSUME \/ RecordMigration(r) \/ RecordFails(r) \/ LosesDeadlock(r) \/ SendCommit(r)
              \/ CommitReturns(r)
      PROVE  Same
  BY <1>2, <1>10
     DEF RecordMigration, AfterRecord, Finishes, RecordFails, LosesDeadlock, SendCommit,
         CommitReturns
<1>11. ASSUME Rollback(r) \/ Return(r) \/ NoticeLoss(r)
      PROVE  Same
  BY <1>3, <1>11 DEF Rollback, Return, NoticeLoss
<1>12. QED
  BY <1>1, <1>4, <1>5, <1>6, <1>7, <1>8, <1>9, <1>10, <1>11 DEF Step, ClientStep

-----------------------------------------------------------------------------
(***************************************************************************)
(* The advisory lock.                                                      *)
(***************************************************************************)

\* From the return of Lock to the deferred Unlock.
Inside ==
  {"look", "create", "read", "discover", "begin", "check", "file", "exec",
   "record", "commit", "commitWait", "rollback"}

\* The second conjunct is WorkOnlyUnderLock.  It is not inductive alone: that a
\* transaction is begun by a session that has the lock needs the first.
HoldsLock(r) ==
  Locks(r) =>
    /\ Live(r) /\ pc[r] \in Inside => owner = r
    /\ tx[r].st # "none" => owner = r

LockInv == \A r \in Runners : HoldsLock(r)

\* Steps that leave the lock where it is, and begin a transaction or enter the
\* section only from inside it.
LEMMA LockFrame ==
  ASSUME LockInv, NEW r \in Runners,
         UNCHANGED <<job, owner>>,
         Live(r)' /\ pc'[r] \in Inside => Live(r) /\ pc[r] \in Inside,
         tx'[r].st # "none" => tx[r].st # "none" \/ (Live(r) /\ pc[r] \in Inside)
  PROVE  HoldsLock(r)'
BY DEF LockInv, HoldsLock, Locks

\* A command line does not change.
LEMMA JobsFixed ==
  ASSUME ControlInv, NEW r \in Runners, Step(r)
  PROVE  job' = job
<1>1. ClientStep(r) => job' = job
  BY DEF ClientStep, RequestLock, LockGranted, LookTable, CreateTable, ReadHistory,
         Discover, BeginDryRun, LoopEnds, SkipApplied, NotApplied, RejectFile, ReadFile,
         RunStatement, RunCommit, StatementFails, StatementsDone, RecordMigration,
         RecordFails, LosesDeadlock, SendCommit, CommitReturns, Rollback, Return, NoticeLoss
<1>2. QED
  BY <1>1 DEF Step, Connect, ServerStep, ServerDisconnect, Fault, CallFails, CallExpires,
              MisreadHistory, OutputFails, LoseConnection, Hang, Crash, EditFile

\* A handler that fails or ends goes to "rollback" only from inside.
LEMMA LeavesFromInside ==
  ASSUME ControlInv, NEW r \in Runners, pc' = [pc EXCEPT ![r] = AfterLoop(r)],
         pc'[r] \in Inside
  PROVE  pc[r] \in Inside
BY DEF ControlInv, ControlOK, AfterLoop, HasTx, Inside

\* So does a failed call.
LEMMA ErrorFromInside ==
  ASSUME ControlInv, NEW r \in Runners, HandlesError(r), pc'[r] \in Inside
  PROVE  pc[r] \in Inside
BY HandlesErrorTyped, LeavesFromInside DEF ControlInv, Inside

\* One step per action: what it does to the runner's hold on the lock.
LEMMA LockStep ==
  ASSUME ControlInv, LockInv, NEW r \in Runners, Step(r)
  PROVE  HoldsLock(r)'
<1> USE DEF ControlInv, ControlOK
<1>1. job' = job /\ tx \in [Runners -> Transactions]
  BY JobsFixed DEF DatabaseTypeOK
<1>2. CASE Connect(r)
  <2>1. Locks(r)' => pc'[r] \notin Inside
    BY <1>1, <1>2 DEF Connect, AfterConnect, Locks, Inside
  <2>2. UNCHANGED <<owner, tx>>
    BY <1>2 DEF Connect, OpenSession
  <2>3. QED
    BY <1>1, <2>1, <2>2 DEF LockInv, HoldsLock, Locks
<1>3. CASE LockGranted(r)
  BY <1>3 DEF LockGranted, LockReturns, dbVars, HoldsLock
<1>4. CASE GrantLock(r) \/ Return(r) \/ ServerDisconnect(r)
  <2>1. CASE GrantLock(r)
    BY <2>1 DEF GrantLock, HoldsLock
  <2>2. CASE EndSession(r) /\ ~(Live(r)' /\ pc'[r] \in Inside)
    BY <1>1, <2>2 DEF EndSession, NoTx, HoldsLock
  <2>3. CASE Return(r) /\ ~Live(r)
    <3>1. UNCHANGED <<owner, tx>> /\ pc'[r] \notin Inside
      BY <2>3 DEF Return, dbVars, Inside
    <3>2. QED
      BY <1>1, <3>1, LockFrame
  <2>4. QED
    BY <1>4, <2>1, <2>2, <2>3 DEF Return, ServerDisconnect, Inside
<1>5. CASE ServerCommit(r) /\ UNCHANGED <<pc, conn>>
  <2>1. UNCHANGED owner /\ tx[r].st # "none"
    BY <1>5 DEF ServerCommit, Publish, Discard
  <2>2. QED
    BY <1>1, <1>5, <2>1, LockFrame
<1>6. CASE CallFails(r) \/ CallExpires(r) \/ NoticeLoss(r)
  <2>1. CASE CallFails(r) \/ NoticeLoss(r)
    <3>1. UNCHANGED <<owner, tx>> /\ HandlesError(r) /\ (Live(r)' => Live(r))
      BY <2>1 DEF CallFails, NoticeLoss, dbVars
    <3>2. QED
      BY <1>1, <3>1, ErrorFromInside, LockFrame
  <2>2. CASE CallExpires(r)
    <3>1. UNCHANGED <<owner, tx>> /\ ~Live(r)'
      BY <2>2 DEF CallExpires, dbVars
    <3>2. QED
      BY <1>1, <3>1, LockFrame
  <2>3. QED
    BY <1>6, <2>1, <2>2
<1>7. CASE \/ LoseConnection(r) \/ Hang(r) \/ Crash(r)
           \/ \E v \in Versions, content \in Contents \cup {NoFile} : EditFile(r, v, content)
  <2>1. UNCHANGED <<owner, tx>> /\ (Live(r)' /\ pc'[r] \in Inside => Live(r) /\ pc[r] \in Inside)
    BY <1>7 DEF LoseConnection, Hang, Crash, EditFile, dbVars
  <2>2. QED
    BY <1>1, <2>1, LockFrame
<1>8. CASE RequestLock(r)
  <2>1. UNCHANGED <<owner, tx>> /\ pc'[r] \notin Inside
    BY <1>8 DEF RequestLock, AskLock, Inside
  <2>2. QED
    BY <1>1, <2>1, LockFrame
<1>9. ASSUME pc[r] \in Inside /\ conn' = conn /\ owner' = owner,
             Live(r) \/ tx' = tx
      PROVE  HoldsLock(r)'
  BY <1>1, <1>9, LockFrame
<1>10. CASE LookTable(r) \/ ReadHistory(r) \/ MisreadHistory(r) \/ Discover(r) \/ BeginDryRun(r) \/ LoopEnds(r)
            \/ SkipApplied(r) \/ NotApplied(r) \/ RejectFile(r) \/ ReadFile(r)
  BY <1>9, <1>10
     DEF LookTable, ReadHistory, MisreadHistory, Discover, BeginDryRun, Begin, LoopEnds,
         SkipApplied, NotApplied, RejectFile, ReadFile, dbVars, Inside
<1>11. CASE CreateTable(r) \/ RunStatement(r) \/ RunCommit(r) \/ StatementFails(r)
            \/ StatementsDone(r)
  BY <1>9, <1>11
     DEF CreateTable, MakeTable, Refuse, RunStatement, Executed, Execute, RunCommit, Publish,
         StatementFails, Discard, StatementsDone, dbVars, Inside
<1>12. CASE RecordMigration(r) \/ RecordFails(r) \/ SendCommit(r) \/ CommitReturns(r)
            \/ Rollback(r)
  BY <1>9, <1>12
     DEF RecordMigration, Recorded, Insert, RecordFails, Refuse, SendCommit, AskCommit,
         CommitReturns, Rollback, Discard, dbVars, Inside
<1>13. CASE OutputFails(r)
  <2>1. UNCHANGED <<owner, tx>> /\ pc'[r] \notin Inside
    BY <1>13 DEF OutputFails, FailsEarly, Fails, AfterLoop, HasTx, Inside, dbVars
  <2>2. QED
    BY <1>1, <2>1, LockFrame
<1>14. CASE LosesDeadlock(r)
  BY <1>9, <1>14, VictimWaits DEF LosesDeadlock, Refuse, Inside
<1>15. QED
  BY <1>2, <1>3, <1>4, <1>5, <1>6, <1>7, <1>8, <1>10, <1>11, <1>12, <1>13, <1>14
     DEF Step, ClientStep, ServerStep, Fault

\* Nobody works at the start ...
LEMMA InitLock == Init => LockInv
BY DEF Init, DatabaseInit, NoTx, LockInv, HoldsLock

\* ... and no step lets somebody work without the lock.
LEMMA StepLock == ControlInv /\ LockInv /\ [Next]_vars => LockInv'
<1> SUFFICES ASSUME ControlInv, LockInv, [Next]_vars, NEW s \in Runners
             PROVE  HoldsLock(s)'
  BY DEF LockInv
<1>1. CASE UNCHANGED vars
  BY <1>1 DEF vars, dbVars, LockInv, HoldsLock, Locks
<1>2. ASSUME NEW r \in Runners, Step(r)
      PROVE  HoldsLock(s)'
  <2>1. CASE r = s
    BY <1>2, <2>1, LockStep
  <2>2. CASE r # s
    BY <1>2, <2>2, StepIsLocal, JobsFixed DEF LockInv, HoldsLock, Locks
  <2>3. QED
    BY <2>1, <2>2
<1>3. QED
  BY <1>1, <1>2, NextIsStep

\* Mutual exclusion: whoever crashes, however the calls interleave, a runner
\* that locks has a transaction only while its session holds the lock.
THEOREM LockCoversWork == Spec => []WorkOnlyUnderLock
<1>1. LockInv => WorkOnlyUnderLock
  BY DEF LockInv, HoldsLock, WorkOnlyUnderLock
<1>2. QED
  BY <1>1, InitLock, StepLock, ControlInvariant, PTL DEF Spec

-----------------------------------------------------------------------------
(***************************************************************************)
(* The unique key of the history table.                                    *)
(***************************************************************************)

\* The server executes the COMMIT of r.
Commits(r) ==
  /\ tx[r].st = "committing" /\ Publish(r, "committed")
  /\ UNCHANGED <<pc, command, conn, inputs, loop, result>>

\* INSERT found no row with the version, recorded or on its way.
KeyFree(r) == ~KeyTaken(r, Current(r)) /\ ~InsertMustWait(r, Current(r))

\* What a step does to the history, the schema and the uncommitted rows of its
\* runner, whatever its files contain: nothing new (behind a COMMIT in a file a
\* statement takes effect at once), one more uncommitted row, a COMMIT, or a row
\* that is recorded at once.
LEMMA StepOnHistory ==
  ASSUME ControlInv, NEW r \in Runners, Step(r)
  PROVE  \/ /\ history' = history /\ tx'[r].rows \subseteq tx[r].rows
            /\ schema' = schema \/ tx[r].st = "auto"
         \/ /\ RecordMigration(r) /\ UNCHANGED <<history, schema>> /\ KeyFree(r)
            /\ tx'[r].rows = tx[r].rows \cup {RowFor(r)}
         \/ /\ RunCommit(r) \/ Commits(r)
            /\ history' = history \cup tx[r].rows
            /\ schema' = schema \cup tx[r].ddl
            /\ tx'[r].rows = {}
         \/ /\ RecordMigration(r) /\ tx[r].st = "auto" /\ KeyFree(r)
            /\ history' = history \cup {RowFor(r)}
            /\ tx' = tx
<1> USE DEF ControlInv
<1>1. tx \in [Runners -> Transactions] /\ tx[r] \in Transactions
  BY DEF DatabaseTypeOK
<1> DEFINE Quiet == /\ history' = history /\ tx'[r].rows \subseteq tx[r].rows
                    /\ schema' = schema \/ tx[r].st = "auto"
<1>2. CASE RecordMigration(r)
  <2>1. Insert(r, RowFor(r)) /\ KeyFree(r)
    BY <1>2 DEF RecordMigration, Recorded, KeyFree
  <2>2. CASE tx[r].st = "open" /\ tx' = [tx EXCEPT ![r].rows = @ \cup {RowFor(r)}]
    BY <1>1, <1>2, <2>1, <2>2 DEF Insert, Transactions
  <2>3. QED
    BY <1>2, <2>1, <2>2 DEF Insert
<1>3. CASE RunStatement(r)
  <2>1. Execute(r, EffectOf(r), Kind(r) = "deferred")
    BY <1>3 DEF RunStatement, Executed
  <2>2. Quiet
    BY <1>1, <2>1 DEF Execute, Transactions
  <2>3. QED
    BY <2>2
<1>4. ASSUME NEW next, Publish(r, next)
      PROVE  /\ history' = history \cup tx[r].rows /\ schema' = schema \cup tx[r].ddl
             /\ tx'[r].rows = {}
  BY <1>1, <1>4 DEF Publish, NoTx
<1>5. CASE RunCommit(r)
  <2>1. CASE UNCHANGED dbVars
    BY <2>1 DEF dbVars
  <2>2. QED
    BY <1>4, <1>5, <2>1 DEF RunCommit
<1>6. CASE ServerCommit(r) /\ UNCHANGED <<pc, command, conn, inputs, loop, result>>
  <2>1. CASE Publish(r, "committed")
    BY <1>4, <1>6, <2>1 DEF ServerCommit, Commits
  <2>2. CASE Discard(r, "refused")
    BY <1>1, <2>2 DEF Discard, NoTx
  <2>3. QED
    BY <1>6, <2>1, <2>2 DEF ServerCommit
<1>7. ASSUME MakeTable(r) \/ Refuse(r) \/ AskCommit(r)
      PROVE  Quiet
  <2>1. CASE MakeTable(r)
    BY <1>1, <2>1 DEF MakeTable, Transactions
  <2>2. CASE Refuse(r)
    BY <1>1, <2>2 DEF Refuse, Transactions
  <2>3. CASE AskCommit(r)
    BY <1>1, <2>3 DEF AskCommit, Transactions
  <2>4. QED
    BY <1>7, <2>1, <2>2, <2>3
<1>8. ASSUME Begin(r) \/ EndSession(r) \/ Discard(r, "none")
      PROVE  Quiet
  BY <1>1, <1>8 DEF Begin, EndSession, Discard, OpenTx, NoTx
<1>9. ASSUME UNCHANGED <<history, schema, tx>>
      PROVE  Quiet
  BY <1>9
<1> HIDE DEF Quiet
<1>10. CASE \/ CreateTable(r) \/ StatementFails(r) \/ RecordFails(r) \/ LosesDeadlock(r)
            \/ SendCommit(r) \/ BeginDryRun(r) \/ ReadFile(r) \/ CommitReturns(r) \/ Rollback(r)
            \/ Return(r) \/ ServerDisconnect(r)
  <2>1. Quiet
    BY <1>7, <1>8, <1>9, <1>10
       DEF CreateTable, StatementFails, RecordFails, LosesDeadlock, SendCommit,
           BeginDryRun, ReadFile, CommitReturns, Rollback, Return, ServerDisconnect, dbVars
  <2>2. QED
    BY <2>1 DEF Quiet
<1>11. CASE \/ Connect(r) \/ RequestLock(r) \/ LockGranted(r) \/ LookTable(r)
            \/ ReadHistory(r) \/ Discover(r) \/ LoopEnds(r) \/ SkipApplied(r)
            \/ NotApplied(r) \/ RejectFile(r) \/ StatementsDone(r) \/ NoticeLoss(r)
            \/ GrantLock(r) \/ Fault(r)
  <2>1. UNCHANGED <<history, schema, tx>>
    BY <1>11
       DEF Connect, OpenSession, RequestLock, AskLock, LockGranted, LookTable, ReadHistory,
           Discover, LoopEnds, SkipApplied, NotApplied, RejectFile, StatementsDone,
           NoticeLoss, GrantLock, Fault, CallFails, CallExpires, MisreadHistory, OutputFails,
           LoseConnection, Hang, Crash, EditFile, dbVars
  <2>2. QED
    BY <1>9, <2>1 DEF Quiet
<1>12. QED
  BY <1>2, <1>3, <1>5, <1>6, <1>10, <1>11 DEF Step, ClientStep, ServerStep

\* The unique key at work: an uncommitted row has a version that is neither
\* recorded nor in another transaction.
Apart ==
  /\ \A r \in Runners : \A row \in tx[r].rows, old \in history :
       row.version # old.version
  /\ \A r, s \in Runners : r # s =>
       \A row1 \in tx[r].rows, row2 \in tx[s].rows : row1.version # row2.version

\* No two rows of a table, or of a transaction, have the same version.
Unique(rows) == \A row1, row2 \in rows : row1.version = row2.version => row1 = row2

KeyInv == Apart /\ Unique(history) /\ \A r \in Runners : Unique(tx[r].rows)

\* A row more or less keeps the key unique, if INSERT found the key free; so does a
\* COMMIT.
LEMMA KeyStep ==
  ASSUME ControlInv, KeyInv, NEW r \in Runners, Step(r)
  PROVE  KeyInv'
<1> USE DEF KeyInv
<1>1. \A s \in Runners \ {r} : tx'[s] = tx[s]
  BY StepIsLocal
<1>2. CASE history' = history /\ tx'[r].rows \subseteq tx[r].rows
  <2>1. \A s \in Runners : tx'[s].rows \subseteq tx[s].rows
    BY <1>1, <1>2
  <2>2. QED
    BY <1>2, <2>1 DEF Apart, Unique
<1>3. ASSUME KeyFree(r)
      PROVE  /\ RowFor(r).version = Current(r)
             /\ \A old \in history \cup tx[r].rows : old.version # Current(r)
             /\ \A s \in Runners \ {r} : \A row \in tx[s].rows : row.version # Current(r)
  BY <1>3 DEF KeyFree, KeyTaken, InsertMustWait, RowFor
<1>4. CASE history' = history /\ KeyFree(r) /\ tx'[r].rows = tx[r].rows \cup {RowFor(r)}
  <2>1. Apart'
    BY <1>1, <1>3, <1>4 DEF Apart
  <2>2. Unique(tx'[r].rows)
    BY <1>3, <1>4 DEF Unique
  <2>3. QED
    BY <1>1, <1>4, <2>1, <2>2 DEF Unique
<1>5. CASE history' = history \cup tx[r].rows /\ tx'[r].rows = {}
  <2>1. Apart'
    BY <1>1, <1>5 DEF Apart
  <2>2. Unique(history')
    BY <1>5 DEF Apart, Unique
  <2>3. QED
    BY <1>1, <1>5, <2>1, <2>2 DEF Unique
<1>6. CASE history' = history \cup {RowFor(r)} /\ KeyFree(r) /\ tx' = tx
  <2>1. Apart'
    BY <1>3, <1>6 DEF Apart
  <2>2. Unique(history')
    BY <1>3, <1>6 DEF Unique
  <2>3. QED
    BY <1>6, <2>1, <2>2 DEF Unique
<1>7. QED
  BY <1>2, <1>4, <1>5, <1>6, StepOnHistory

\* The table is empty at the start ...
LEMMA InitKey == Init => KeyInv
BY DEF Init, DatabaseInit, NoTx, KeyInv, Apart, Unique

\* ... and its key stays unique.
LEMMA StepKey == ControlInv /\ KeyInv /\ [Next]_vars => KeyInv'
<1> SUFFICES ASSUME ControlInv, KeyInv, [Next]_vars PROVE KeyInv'
  OBVIOUS
<1>1. CASE UNCHANGED vars
  BY <1>1 DEF vars, dbVars, KeyInv, Apart, Unique
<1>2. QED
  BY <1>1, KeyStep, NextIsStep

\* No version is recorded twice, with or without the lock, whatever the files contain:
\* a second INSERT waits for the transaction of the first and then finds its row.
THEOREM RecordedOnce == Spec => []Unique(history)
<1>1. KeyInv => Unique(history)
  BY DEF KeyInv
<1>2. QED
  BY <1>1, InitKey, StepKey, ControlInvariant, PTL DEF Spec

-----------------------------------------------------------------------------
(***************************************************************************)
(* Atomicity.                                                              *)
(***************************************************************************)

\* The effects of the statements that r has executed of its current file.
SoFar(r) == {e \in EffectsOf(Current(r), body[r], r) : e.stmt < at[r]}

\* The transaction of r holds one migration: its row and all of its effects.
Whole(r) ==
  \E row \in Rows : tx[r].rows = {row} /\ tx[r].ddl = EffectsOfRow(row)

\* What the transaction of r contains at each place on the way to COMMIT.  Once
\* COMMIT is on its way it no longer matters what becomes of r.
Builds(r) ==
  /\ tx[r].st # "auto"
  /\ Applies(r) /\ Live(r) /\ pc[r] \in {"exec", "record"} =>
       tx[r].st = "open" /\ tx[r].rows = {}
  /\ Applies(r) /\ Live(r) /\ pc[r] = "exec" => tx[r].ddl = SoFar(r)
  /\ Applies(r) /\ Live(r) /\ pc[r] = "record" =>
       tx[r].ddl = EffectsOf(Current(r), body[r], r)
  /\ Live(r) /\ pc[r] = "commit" => tx[r].st = "open" /\ Whole(r)
  /\ tx[r].st = "committing" => Whole(r)

BuildInv == \A r \in Runners : Builds(r)

\* HistoryMatchesSchema is not inductive alone: at a COMMIT it needs to know
\* what the transaction holds.
AtomicInv == BuildInv /\ KeyInv /\ HistoryMatchesSchema

\* Steps that do not lead to a place where Builds says something of the
\* contents, and leave a COMMIT on its way alone.
LEMMA BuildFrame ==
  ASSUME BuildInv, NEW r \in Runners,
         ~(Live(r)' /\ pc'[r] \in {"exec", "record", "commit"}),
         tx'[r].st # "auto",
         tx'[r].st = "committing" =>
           /\ tx[r].st = "committing"
           /\ tx'[r].rows = tx[r].rows /\ tx'[r].ddl = tx[r].ddl
  PROVE  Builds(r)'
BY DEF BuildInv, Builds, Whole

\* Executing a statement adds its effect to those executed so far.
LEMMA OneMore ==
  ASSUME ControlInv, NEW r \in Runners, pc[r] = "exec", MoreStatements(r),
         Kind(r) \in Effective,
         at' = [at EXCEPT ![r] = @ + 1], UNCHANGED <<todo, body>>
  PROVE  SoFar(r)' = SoFar(r) \cup {EffectOf(r)}
<1> DEFINE All == EffectsOf(Current(r), body[r], r)
<1>1. at[r] \in Nat /\ at'[r] = at[r] + 1 /\ Current(r)' = Current(r) /\ body'[r] = body[r]
  BY DEF ControlInv, ControlOK, Current
<1>2. \A e \in All : e.stmt \in Nat
  <2>1. DOMAIN Script[body[r]] \subseteq Nat
    BY ScriptAssumption DEF ControlInv, LoopInv, Planned
  <2>2. QED
    BY <2>1 DEF EffectsOf
<1>3. EffectOf(r) \in All
  BY DEF EffectsOf, EffectOf, MoreStatements, Kind
<1>4. \A e \in All : e.stmt = at[r] => e = EffectOf(r)
  BY DEF EffectsOf, EffectOf
<1>5. SoFar(r)' = {e \in All : e.stmt < at[r] + 1} /\ SoFar(r) = {e \in All : e.stmt < at[r]}
  BY <1>1 DEF SoFar
<1>6. EffectOf(r).stmt = at[r]
  BY DEF EffectOf
<1> HIDE DEF All
<1>7. \A e \in All : e.stmt < at[r] + 1 <=> e.stmt < at[r] \/ e.stmt = at[r]
  BY <1>1, <1>2
<1>8. QED
  BY <1>3, <1>4, <1>5, <1>6, <1>7

\* When none is left, they are all there.
LEMMA NoneLeft ==
  ASSUME ControlInv, NEW r \in Runners, pc[r] = "exec", ~MoreStatements(r)
  PROVE  SoFar(r) = EffectsOf(Current(r), body[r], r)
<1>1. PICK n \in Nat : DOMAIN Script[body[r]] = 1..n
  BY ScriptAssumption DEF ControlInv, LoopInv, Planned
<1>2. at[r] \in Nat /\ at[r] > n
  BY <1>1 DEF ControlInv, LoopInv, Planned, MoreStatements
<1>3. \A e \in EffectsOf(Current(r), body[r], r) : e.stmt \in 1..n
  BY <1>1 DEF EffectsOf
<1>4. \A e \in EffectsOf(Current(r), body[r], r) : e.stmt < at[r]
  BY <1>2, <1>3
<1>5. QED
  BY <1>4 DEF SoFar

\* When the first file is opened, there are none.
LEMMA NoneYet ==
  ASSUME NEW v, NEW c \in Contents, NEW r
  PROVE  {e \in EffectsOf(v, c, r) : e.stmt < 1} = {}
<1>1. DOMAIN Script[c] \subseteq Nat \ {0}
  BY ScriptAssumption
<1>2. QED
  BY <1>1 DEF EffectsOf

\* One step per action of r that touches what Builds speaks of.
LEMMA BuildStep ==
  ASSUME NoTxControl, ControlInv, BuildInv, NEW r \in Runners, Step(r)
  PROVE  Builds(r)'
<1> USE DEF ControlInv, ControlOK
<1>1. /\ job' = job /\ Builds(r) /\ Planned(r)
      /\ tx \in [Runners -> Transactions] /\ tx[r] \in Transactions
  BY JobsFixed DEF BuildInv, LoopInv, DatabaseTypeOK
<1>2. CASE Connect(r) \/ RequestLock(r) \/ LockGranted(r) \/ LookTable(r) \/ ReadHistory(r)
           \/ MisreadHistory(r) \/ LoopEnds(r) \/ SkipApplied(r) \/ NotApplied(r)
  <2>1. tx' = tx /\ ~(Live(r)' /\ pc'[r] \in {"exec", "record", "commit"})
    BY <1>2 DEF Connect, OpenSession, AfterConnect, FirstStatement, RequestLock, AskLock,
                LockGranted, LookTable, AfterTable, ReadHistory, MisreadHistory, LoopEnds,
                Ends, AfterLoop, SkipApplied, NotApplied, dbVars
  <2>2. QED
    BY <1>1, <2>1, BuildFrame DEF Builds
<1>3. CASE Discover(r) \/ RejectFile(r) \/ OutputFails(r)
  <2>1. tx' = tx /\ pc'[r] \notin {"exec", "record", "commit"}
    BY <1>3 DEF Discover, MakesPlan, FailsEarly, Fails, FailsCurrent, Ends, AfterLoop,
                RejectFile, OutputFails, dbVars
  <2>2. QED
    BY <1>1, <2>1, BuildFrame DEF Builds
<1>4. CASE CreateTable(r) \/ StatementFails(r) \/ RecordFails(r) \/ LosesDeadlock(r)
  <2>1. pc'[r] \notin {"exec", "record", "commit"}
    BY <1>4 DEF CreateTable, AfterTable, FailsEarly, StatementFails, RecordFails,
                LosesDeadlock, FailsCurrent, Fails, AfterLoop
  <2>2. MakeTable(r) \/ Refuse(r) \/ Discard(r, "none")
    BY <1>4 DEF CreateTable, StatementFails, RecordFails, LosesDeadlock
  <2>3. /\ tx'[r].st = tx[r].st \/ tx'[r].st = "none"
        /\ tx'[r].st = "committing" => tx'[r].rows = tx[r].rows /\ tx'[r].ddl = tx[r].ddl
    <3>1. CASE MakeTable(r)
      BY <1>1, <3>1 DEF MakeTable, Transactions
    <3>2. CASE Refuse(r)
      BY <1>1, <3>2 DEF Refuse, Transactions
    <3>3. CASE Discard(r, "none")
      BY <1>1, <3>3 DEF Discard, NoTx
    <3>4. QED
      BY <2>2, <3>1, <3>2, <3>3
  <2>4. QED
    BY <1>1, <2>1, <2>3, BuildFrame DEF Builds
<1>5. CASE BeginDryRun(r)
  <2>1. tx'[r].st = "open" /\ pc'[r] = "look"
    BY <1>1, <1>5 DEF BeginDryRun, Begin, OpenTx, NoTx
  <2>2. QED
    BY <2>1, BuildFrame
<1>6. CASE ReadFile(r)
  <2>1. pc'[r] = "exec" /\ at'[r] = 1 /\ body'[r] \in Contents
    BY <1>6 DEF ReadFile
  <2>2. CASE Applies(r) /\ Begin(r)
    <3>1. tx'[r].st = "open" /\ tx'[r].rows = {} /\ tx'[r].ddl = {}
      BY <1>1, <2>2 DEF Begin, OpenTx, NoTx
    <3>2. SoFar(r)' = {}
      BY <2>1, NoneYet DEF SoFar
    <3>3. QED
      BY <2>1, <3>1, <3>2 DEF Builds
  <2>3. CASE DryRuns(r) /\ tx' = tx
    BY <1>1, <2>1, <2>3 DEF Builds, Whole
  <2>4. QED
    BY <1>6, <2>2, <2>3 DEF ReadFile, dbVars
<1>7. CASE RunStatement(r)
  <2>1. /\ pc[r] = "exec" /\ UNCHANGED <<pc, conn>> /\ Live(r) /\ tx[r].st = "open"
        /\ Execute(r, EffectOf(r), Kind(r) = "deferred")
    BY <1>1, <1>7 DEF RunStatement, Executed, Execute, Builds
  <2>2. tx'[r].st = "open" /\ tx'[r].rows = tx[r].rows /\ tx'[r].ddl = tx[r].ddl \cup {EffectOf(r)}
    BY <1>1, <2>1 DEF Execute, Transactions
  <2>3. SoFar(r)' = SoFar(r) \cup {EffectOf(r)}
    BY <1>7, <2>1, OneMore DEF RunStatement, Accepted, Effective, Advance
  <2>4. QED
    BY <1>1, <2>1, <2>2, <2>3 DEF Builds
<1>8. CASE RunCommit(r)
  BY <1>1, <1>8 DEF RunCommit, Kind, MoreStatements, NoTxControl, Planned
<1>9. CASE StatementsDone(r)
  <2>1. pc[r] = "exec" /\ pc'[r] = "record" /\ UNCHANGED <<conn, tx, todo, body>>
    BY <1>9 DEF StatementsDone, dbVars
  <2>2. SoFar(r) = EffectsOf(Current(r), body[r], r)
    BY <1>9, NoneLeft DEF StatementsDone
  <2>3. QED
    BY <1>1, <2>1, <2>2 DEF Builds, Whole, Current
<1>10. CASE RecordMigration(r)
  <2>1. /\ pc[r] = "record" /\ Live(r) /\ conn' = conn /\ tx[r].st = "open"
        /\ Insert(r, RowFor(r))
    BY <1>1, <1>10 DEF RecordMigration, Recorded, Insert, Builds
  <2>2. /\ tx'[r].st = "open" /\ tx'[r].rows = tx[r].rows \cup {RowFor(r)}
        /\ tx'[r].ddl = tx[r].ddl
    BY <1>1, <2>1 DEF Insert, Transactions
  <2>3. CASE DryRuns(r) /\ pc'[r] = "check"
    BY <2>2, <2>3, BuildFrame
  <2>4. CASE Applies(r) /\ pc'[r] = "commit"
    <3>1. RowFor(r) \in Rows /\ tx'[r].rows = {RowFor(r)}
      BY <1>1, <2>1, <2>2, <2>4, RowTyped DEF Builds
    <3>2. tx'[r].ddl = EffectsOfRow(RowFor(r))
      BY <1>1, <2>1, <2>2, <2>4 DEF Builds, RowFor, EffectsOfRow
    <3>3. Whole(r)'
      BY <3>1, <3>2 DEF Whole
    <3>4. QED
      BY <2>2, <2>4, <3>3 DEF Builds
  <2>5. QED
    BY <1>10, <2>3, <2>4 DEF RecordMigration, AfterRecord
<1>11. CASE SendCommit(r)
  <2>1. Whole(r) /\ pc'[r] = "commitWait"
    BY <1>1, <1>11 DEF SendCommit, Builds
  <2>2. tx'[r].st = "committing" /\ tx'[r].rows = tx[r].rows /\ tx'[r].ddl = tx[r].ddl
    BY <1>1, <1>11 DEF SendCommit, AskCommit, Transactions
  <2>3. QED
    BY <2>1, <2>2 DEF Builds, Whole
<1>12. CASE CommitReturns(r) \/ Rollback(r) \/ Return(r) \/ ServerDisconnect(r)
  <2>1. ~(Live(r)' /\ pc'[r] \in {"exec", "record", "commit"})
    BY <1>12 DEF CommitReturns, FailsCurrent, Fails, AfterLoop, Rollback, Return,
                 ServerDisconnect
  <2>2. tx' = tx \/ tx'[r].st = "none"
    BY <1>1, <1>12 DEF CommitReturns, Rollback, Return, ServerDisconnect, Discard,
                       EndSession, NoTx, dbVars
  <2>3. QED
    BY <1>1, <2>1, <2>2, BuildFrame DEF Builds
<1>13. CASE ServerCommit(r) /\ UNCHANGED <<pc, command, conn, inputs, loop, result>>
  <2>1. tx[r].st = "committing" /\ tx'[r].st \in {"committed", "refused"}
    BY <1>1, <1>13 DEF ServerCommit, Publish, Discard, NoTx
  <2>2. QED
    BY <1>1, <1>13, <2>1 DEF Builds
<1>14. CASE NoticeLoss(r) \/ CallFails(r)
  <2>1. tx' = tx /\ HandlesError(r)
    BY <1>14 DEF NoticeLoss, CallFails, dbVars
  <2>2. pc'[r] \notin {"exec", "record", "commit"}
    BY ZenonT(40), <2>1, HandlesErrorTyped DEF AfterLoop
  <2>3. QED
    BY <1>1, <2>1, <2>2, BuildFrame DEF Builds
<1>15. CASE CallExpires(r) \/ LoseConnection(r) \/ Hang(r) \/ Crash(r)
  <2>1. tx' = tx /\ ~Live(r)'
    BY <1>15 DEF CallExpires, LoseConnection, Hang, Crash, dbVars
  <2>2. QED
    BY <1>1, <2>1, BuildFrame DEF Builds
<1>16. CASE /\ UNCHANGED <<pc, conn, loop, tx>>
            /\ \/ GrantLock(r)
               \/ \E v \in Versions, content \in Contents \cup {NoFile} : EditFile(r, v, content)
  BY <1>1, <1>16 DEF Builds, SoFar, Whole, Current
<1>17. QED
  BY <1>2, <1>3, <1>4, <1>5, <1>6, <1>7, <1>8, <1>9, <1>10, <1>11, <1>12, <1>13, <1>14,
     <1>15, <1>16
     DEF Step, ClientStep, ServerStep, Fault, GrantLock, EditFile, dbVars

\* If COMMIT is the program's alone, what is published is one whole migration.
LEMMA StepOnRows ==
  ASSUME NoTxControl, ControlInv, BuildInv, NEW r \in Runners, Step(r)
  PROVE  \/ UNCHANGED <<history, schema>>
         \/ /\ Commits(r) /\ Whole(r)
            /\ history' = history \cup tx[r].rows
            /\ schema' = schema \cup tx[r].ddl
<1>1. Builds(r) /\ Planned(r)
  BY DEF ControlInv, BuildInv, LoopInv
<1>2. ~RunCommit(r)
  BY <1>1 DEF RunCommit, Kind, MoreStatements, NoTxControl, Planned
<1>3. Commits(r) => Whole(r)
  BY <1>1 DEF Commits, Builds
<1>4. QED
  BY <1>1, <1>2, <1>3, StepOnHistory DEF Builds

\* A COMMIT of one whole migration of a new version keeps history and schema in
\* step.
LEMMA AtomicStep ==
  ASSUME NoTxControl, ControlInv, AtomicInv, NEW r \in Runners, Step(r)
  PROVE  HistoryMatchesSchema'
<1>1. KeyInv'
  BY KeyStep DEF AtomicInv
<1>2. CASE UNCHANGED <<history, schema>>
  BY <1>2 DEF AtomicInv, HistoryMatchesSchema
<1>3. CASE /\ history' = history \cup tx[r].rows
           /\ schema' = schema \cup tx[r].ddl
           /\ Whole(r)
  <2>1. PICK row \in Rows : tx[r].rows = {row} /\ tx[r].ddl = EffectsOfRow(row)
    BY <1>3 DEF Whole
  <2>2. history' = history \cup {row} /\ schema' = schema \cup EffectsOfRow(row)
    BY <1>3, <2>1
  <2>3. schema' = UNION {EffectsOfRow(x) : x \in history'}
    BY <2>2 DEF AtomicInv, HistoryMatchesSchema
  <2>4. QED
    BY <1>1, <2>3 DEF HistoryMatchesSchema, KeyInv, Unique
<1>4. QED
  BY <1>2, <1>3, StepOnRows DEF AtomicInv

\* There is no transaction at the start ...
LEMMA InitAtomic == Init => AtomicInv
BY DEF Init, DatabaseInit, NoTx, AtomicInv, BuildInv, Builds, KeyInv, Apart, Unique,
       HistoryMatchesSchema

\* ... and every step keeps the third layer, if COMMIT is the program's alone.
LEMMA StepAtomic ==
  ASSUME NoTxControl
  PROVE  ControlInv /\ AtomicInv /\ [Next]_vars => AtomicInv'
<1> SUFFICES ASSUME ControlInv, AtomicInv, [Next]_vars PROVE AtomicInv'
  OBVIOUS
<1>1. CASE UNCHANGED vars
  BY <1>1 DEF vars, dbVars, AtomicInv, BuildInv, Builds, SoFar, Whole, Current, KeyInv,
              Apart, Unique, HistoryMatchesSchema
<1>2. ASSUME NEW r \in Runners, Step(r)
      PROVE  AtomicInv'
  <2>1. ASSUME NEW s \in Runners \ {r}
        PROVE  Builds(s)'
    BY <1>2, <2>1, StepIsLocal, JobsFixed
       DEF AtomicInv, BuildInv, Builds, SoFar, Whole, Current
  <2>2. Builds(r)'
    BY <1>2, BuildStep DEF AtomicInv
  <2>3. QED
    BY <1>2, <2>1, <2>2, AtomicStep, KeyStep DEF AtomicInv, BuildInv
<1>3. QED
  BY <1>1, <1>2, NextIsStep

\* Atomicity, at most once: if no file has a COMMIT of its own, then whatever
\* crashes, times out or runs at the same time, the schema is what the recorded
\* migrations make of it, each executed once and as a whole.
THEOREM Atomicity ==
  ASSUME NoTxControl
  PROVE  Spec => []HistoryMatchesSchema
<1>1. ControlInv /\ AtomicInv /\ [Next]_vars => AtomicInv'
  BY StepAtomic
<1>2. AtomicInv => HistoryMatchesSchema
  BY DEF AtomicInv
<1>3. QED
  BY <1>1, <1>2, InitAtomic, ControlInvariant, PTL DEF Spec

-----------------------------------------------------------------------------
(***************************************************************************)
(* Refinement.                                                             *)
(***************************************************************************)

\* The abstract log sees the COMMIT of a migration as an append, and no other
\* step at all.
LEMMA StepAppends ==
  ASSUME NoTxControl, ControlInv, AtomicInv, [Next]_vars
  PROVE  [Log!LogNext]_(Log!logVars)
<1>1. CASE UNCHANGED vars \/ UNCHANGED <<history, schema>>
  BY <1>1 DEF vars, dbVars, Log!logVars
<1>2. ASSUME NEW r \in Runners,
             history' = history \cup tx[r].rows,
             schema' = schema \cup tx[r].ddl,
             Whole(r)
      PROVE  Log!LogNext
  <2>1. PICK row \in Rows : tx[r].rows = {row} /\ tx[r].ddl = EffectsOfRow(row)
    BY <1>2 DEF Whole
  <2>2. /\ row.version \in Versions /\ row.body \in Contents /\ row.by \in Runners
        /\ LogEntry(row) = [version |-> row.version, body |-> row.body, by |-> row.by]
    BY DEF Rows, LogEntry
  <2>3. {LogEntry(x) : x \in history'} = {LogEntry(x) : x \in history} \cup {LogEntry(row)}
    BY <1>2, <2>1
  <2>4. row.version \notin Log!LogVersions
    BY <2>1 DEF AtomicInv, KeyInv, Apart, Log!LogVersions, LogEntry
  <2>5. schema' = schema \cup Log!EffectsOf(row.version, row.body, row.by)
    BY <1>2, <2>1 DEF EffectsOfRow, EffectsOf, Effective, Log!EffectsOf, Log!Effective
  <2>6. Log!AppendMigration(row.version, row.body, row.by)
    BY <2>2, <2>3, <2>4, <2>5 DEF Log!AppendMigration
  <2>7. QED
    BY <2>2, <2>6 DEF Log!LogNext
<1>3. ASSUME NEW r \in Runners, Step(r)
      PROVE  [Log!LogNext]_(Log!logVars)
  BY <1>1, <1>2, <1>3, StepOnRows DEF AtomicInv
<1>4. QED
  BY <1>1, <1>3, NextIsStep

\* The runners implement the log: if no file has a COMMIT of its own, every step
\* of the runners, the server and the faults appends one whole migration of a
\* new version, or leaves history and schema alone.
THEOREM Refinement ==
  ASSUME NoTxControl
  PROVE  Spec => ImplementsLog
<1>1. Init => Log!LogInit
  BY DEF Init, DatabaseInit, Log!LogInit
<1>2. ControlInv /\ AtomicInv /\ [Next]_vars => [Log!LogNext]_(Log!logVars)
  BY StepAppends
<1>3. ControlInv /\ AtomicInv /\ [Next]_vars => AtomicInv'
  BY StepAtomic
<1>4. QED
  BY <1>1, <1>2, <1>3, InitAtomic, ControlInvariant, PTL DEF Spec, ImplementsLog, Log!Spec
=============================================================================
