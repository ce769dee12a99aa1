---------------------------- MODULE OrderProofs ----------------------------
(***************************************************************************)
(* What holds of the order of the history, of exit code 0, of the plan     *)
(* that is worked off under the lock, of a runner without a fault of its   *)
(* own and of a rehearsal: the last layers of invariants.  OrderInv says   *)
(* that a runner leaves no discovered file behind unrecorded on its way,   *)
(* FreshInv that under the lock its plan stays what it was computed to be, *)
(* NoDeadlock that nobody then waits in a circle, UndisturbedInv that      *)
(* nothing a runner has looked at changes under it, AheadInv and BlameInv  *)
(* what it means to have rehearsed a file.                                 *)
(***************************************************************************)
EXTENDS OutcomeProofs

USE DEF command, inputs, loop, result, Goto, Live, Applies, DryRuns

Working(r) == pc[r] \in {"check", "file", "exec", "record", "commit", "commitWait"}

\* From the BeginTx of a rehearsal to the end of its loop.
Rehearsing(r) ==
  DryRuns(r) /\ Live(r) /\
  pc[r] \in {"begin", "look", "create", "check", "file", "exec", "record"}

\* The history has this checksum for v.
Known(v, sum) == \E row \in history : row.version = v /\ row.sum = sum

\* What r has inserted and not committed, and what it finds recorded with that.
InTx(r) == {row.version : row \in tx[r].rows}
Behind(r) == RecordedVersions \cup InTx(r)

\* Every lower version that the writer of row had discovered is recorded.
CoveredBelow(row) ==
  \A u \in Versions :
    u < row.version /\ disc[row.by][u] # NoSum => u \in RecordedVersions

\* A version r has discovered is still on its list, or in the history, or for a
\* rehearsal in its transaction; the rows in a transaction leave nothing behind them.
Ordered(r) ==
  /\ Before(r) => done[r] = {}
  /\ exit[r] # NoExit => pc[r] \in Over
  /\ Working(r) => Applies(r) \/ DryRuns(r)
  /\ \A v \in Versions : seen[r][v] # NoSum => Known(v, seen[r][v])
  /\ Applies(r) /\ Working(r) =>
       \A v \in Versions : disc[r][v] # NoSum => v \in todo[r] \cup RecordedVersions
  /\ Rehearsing(r) =>
       \A v \in Versions : disc[r][v] # NoSum => v \in todo[r] \cup Behind(r)
  /\ \A row \in tx[r].rows, u \in Versions :
       u < row.version /\ disc[r][u] # NoSum => u \in Behind(r)
  /\ exit[r] = 0 /\ job[r].cmd \in {"apply", "status"} =>
       \A v \in Versions : disc[r][v] # NoSum => v \in RecordedVersions

\* A row has the checksum its writer discovered, and nothing unrecorded below it
\* (the second half is NothingSkippedBelow).
RowsInOrder ==
  \A row \in history : row.sum = disc[row.by][row.version] /\ CoveredBelow(row)

OrderInv == RowsInOrder /\ \A r \in Runners : Ordered(r)

\* What a runner has seen in the history is still there.
LEMMA SeenIsRecorded ==
  ASSUME NEW r, Ordered(r)
  PROVE  \A v \in Versions : seen[r][v] # NoSum => v \in RecordedVersions
<1>1. \A v \in Versions : seen[r][v] # NoSum => Known(v, seen[r][v])
  BY DEF Ordered
<1>2. \A v, sum : Known(v, sum) => v \in RecordedVersions
  BY Zenon DEF Known, RecordedVersions
<1>3. QED
  BY <1>1, <1>2

-----------------------------------------------------------------------------
\* Rows are never removed.
LEMMA HistoryGrows ==
  ASSUME ControlInv, OwnInv, NEW r \in Runners, Step(r)
  PROVE  /\ history \subseteq history'
         /\ \A v, sum : Known(v, sum) => Known(v, sum)'
         /\ RecordedVersions \subseteq RecordedVersions'
<1>1. history \subseteq history'
  BY NewRows
<1>2. QED
  BY <1>1 DEF Known, RecordedVersions

\* The map of the history has an entry exactly for the recorded versions, and the
\* entry is that of a row.
LEMMA HistorySumsKnown ==
  ASSUME DatabaseTypeOK, NEW v \in Versions
  PROVE  /\ HistorySums[v] # NoSum <=> v \in RecordedVersions
         /\ HistorySums[v] # NoSum => Known(v, HistorySums[v])
<1>1. CASE v \in RecordedVersions
  <2>1. PICK row \in history : row.version = v
    BY <1>1 DEF RecordedVersions
  <2> DEFINE chosen == CHOOSE x \in history : x.version = v
  <2>2. chosen \in history /\ chosen.version = v
    BY <2>1
  <2>3. HistorySums[v] = chosen.sum
    BY <1>1 DEF HistorySums
  <2>4. chosen.sum # NoSum
    BY <2>2, SumAssumption DEF DatabaseTypeOK, Rows
  <2>5. QED
    BY <1>1, <2>2, <2>3, <2>4 DEF Known
<1>2. CASE v \notin RecordedVersions
  BY <1>2 DEF HistorySums
<1>3. QED
  BY <1>1, <1>2

\* Steps that only go on, and lose no row of a rehearsal that goes on.
LEMMA OrderFrame ==
  ASSUME ControlInv, OwnInv, OrderInv, NEW r \in Runners, Step(r),
         UNCHANGED <<job, seen, disc, todo, done, exit>>,
         Before(r)' => Before(r),
         Working(r)' => Working(r) \/ DryRuns(r),
         Rehearsing(r)' => Rehearsing(r),
         pc[r] \in Over => pc'[r] \in Over,
         \/ tx'[r].rows = tx[r].rows
         \/ tx'[r].rows = {} /\ (~Rehearsing(r)' \/ tx[r].rows \subseteq history')
  PROVE  Ordered(r)'
<1>1. Ordered(r)
  BY DEF OrderInv
<1>2. Rehearsing(r)' => Behind(r) \subseteq Behind(r)'
  BY HistoryGrows DEF Behind, InTx, RecordedVersions
<1>3. tx'[r].rows = tx[r].rows => Behind(r) \subseteq Behind(r)'
  BY HistoryGrows DEF Behind, InTx
<1>4. Applies(r) => ~DryRuns(r)
  OBVIOUS
<1>5. QED
  BY <1>1, <1>2, <1>3, <1>4, HistoryGrows DEF Ordered

\* Steps that end with an error.
LEMMA OrderFails ==
  ASSUME ControlInv, OwnInv, OrderInv, NEW r \in Runners, Step(r),
         UNCHANGED <<job, seen, disc, todo>>, tx'[r].rows = tx[r].rows \/ tx'[r].rows = {},
         NEW reason, FailsEarly(r, reason) \/ FailsCurrent(r, reason)
  PROVE  Ordered(r)'
<1>1. Ordered(r)
  BY DEF OrderInv
<1>2. tx'[r].rows = tx[r].rows => Behind(r) \subseteq Behind(r)'
  BY HistoryGrows DEF Behind, InTx
<1>3. pc'[r] \in {"rollback", "return"} /\ exit'[r] = 1
  BY DEF FailsEarly, FailsCurrent, Fails, AfterLoop, ControlInv, ControlOK
<1>4. ~Before(r)' /\ ~Working(r)' /\ ~Rehearsing(r)' /\ pc'[r] \in Over
  BY <1>3 DEF Before, Working, Rehearsing, Over
<1>5. QED
  BY <1>1, <1>2, <1>3, <1>4, HistoryGrows DEF Ordered

\* The versions below the one a loop works on are not on its list.
LEMMA CurrentIsLowest ==
  ASSUME ControlInv, NEW r \in Runners, todo[r] # {}, NEW u \in Versions, u < Current(r)
  PROVE  u \notin todo[r]
<1>1. todo[r] \in SUBSET Versions
  BY DEF ControlInv, ControlOK
<1>2. Current(r) \in Versions /\ \A w \in todo[r] : Current(r) <= w
  BY <1>1, NextFileIsLowest DEF Current
<1>3. u \in Int /\ Current(r) \in Int
  BY <1>2, VersionsAssumption
<1>4. QED
  BY <1>2, <1>3

\* Only a runner before its loop discovers: whatever is in the history is not
\* affected.
LEMMA OrderStep ==
  ASSUME ControlInv, OwnInv, ResultInv, OrderInv,
         NEW r \in Runners, Step(r)
  PROVE  Ordered(r)'
<1> USE DEF ControlInv, ControlOK
<1>1. /\ job' = job /\ Planned(r) /\ Own(r) /\ Reported(r) /\ Ordered(r)
      /\ tx \in [Runners -> Transactions] /\ tx[r] \in Transactions
  BY JobsFixed DEF LoopInv, DatabaseTypeOK, OwnInv, ResultInv, OrderInv
<1>2. /\ RecordedVersions \subseteq RecordedVersions'
      /\ \A v, sum : Known(v, sum) => Known(v, sum)'
  BY HistoryGrows
<1>3. CASE Connect(r) \/ RequestLock(r) \/ LockGranted(r) \/ LookTable(r) \/ NotApplied(r)
           \/ StatementsDone(r)
  <2>1. UNCHANGED <<tx, todo, seen, disc, done, exit>>
    BY <1>3 DEF Connect, OpenSession, RequestLock, AskLock, LockGranted, LookTable,
                NotApplied, StatementsDone, dbVars
  <2>2. /\ pc[r] \notin Over /\ (Before(r)' => Before(r))
        /\ Working(r)' => Working(r) \/ DryRuns(r)
        /\ Rehearsing(r)' => Rehearsing(r)
    BY <1>1, <1>3 DEF Connect, AfterConnect, Locks, FirstStatement, RequestLock, LockGranted,
                LockReturns, LookTable, AfterTable, NotApplied, StatementsDone, Before, Over,
                Working, Rehearsing
  <2>3. QED
    BY <1>1, <2>1, <2>2, OrderFrame
<1>4. CASE CreateTable(r)
  <2>1. pc[r] = "create" /\ UNCHANGED <<todo, seen, disc>> /\ tx'[r].rows = tx[r].rows
    BY <1>1, <1>4 DEF CreateTable, MakeTable, Refuse, Transactions
  <2>2. CASE FailsEarly(r, "table")
    BY <1>1, <2>1, <2>2, OrderFails
  <2>3. CASE Goto(r, AfterTable(r)) /\ UNCHANGED result
    <3>1. Before(r)' => Before(r)
      BY <1>1, <2>1, <2>3 DEF AfterTable, Before
    <3>2. /\ (Working(r)' => Working(r) \/ DryRuns(r)) /\ pc[r] \notin Over
          /\ Rehearsing(r)' => Rehearsing(r)
      BY <1>1, <1>4, <2>1, <2>3 DEF CreateTable, AfterTable, Working, Rehearsing, Over
    <3>3. QED
      BY <1>1, <2>1, <2>3, <3>1, <3>2, OrderFrame
  <2>4. QED
    BY <1>4, <2>2, <2>3 DEF CreateTable
<1>5. CASE ReadHistory(r) \/ MisreadHistory(r)
  <2>1. /\ pc[r] = "read" /\ pc'[r] = "discover"
        /\ UNCHANGED <<tx, todo, disc, done, exit, history>>
        /\ seen'[r] = HistorySums \/ seen'[r] = Nothing
    BY <1>5 DEF ReadHistory, MisreadHistory, dbVars
  <2>2. \A v \in Versions : seen'[r][v] # NoSum => Known(v, seen'[r][v])
    BY <2>1, HistorySumsKnown DEF Nothing
  <2>3. /\ Before(r) /\ Before(r)' /\ ~Working(r)' /\ ~Rehearsing(r)'
        /\ exit[r] = NoExit /\ done'[r] = {}
    BY <1>1, <2>1 DEF Before, Working, Rehearsing, Ordered, Over
  <2>4. tx[r].rows = {} /\ NoExit # 0
    BY <1>1, <2>3 DEF Own, NoExit
  <2>5. \A v, sum : Known(v, sum)' <=> Known(v, sum)
    BY <2>1 DEF Known
  <2>6. QED
    BY <2>1, <2>2, <2>3, <2>4, <2>5 DEF Ordered
<1>6. CASE Discover(r)
  <2>1. /\ pc[r] = "discover" /\ UNCHANGED <<tx, history, seen, done>>
        /\ disc'[r] = DirSums(r)
    BY <1>6 DEF Discover, MakesPlan, Ends, FailsEarly, dbVars
  <2>2. /\ done'[r] = {} /\ tx'[r].rows = {} /\ pc'[r] \in {"begin", "check", "return"}
        /\ \A v, sum : Known(v, sum)' <=> Known(v, sum)
        /\ RecordedVersions' = RecordedVersions
    <3>1. Before(r) /\ done[r] = {}
      BY <1>1, <2>1 DEF Ordered, Before
    <3>2. tx[r].rows = {}
      BY <1>1, <3>1 DEF Own
    <3>3. pc'[r] \in {"begin", "check", "return"}
      BY <1>1, <1>6, <2>1 DEF Discover, MakesPlan, Ends, FailsEarly, Fails, AfterLoop, HasTx
    <3>4. QED
      BY <2>1, <3>1, <3>2, <3>3 DEF Known, RecordedVersions
  <2>3. \A v \in Versions : seen[r][v] # NoSum => v \in RecordedVersions
    BY <1>1, SeenIsRecorded
  <2>4. CASE job[r].cmd = "status"
    <3>1. pc'[r] = "return" /\ exit'[r] = ReportExitCode(disc'[r], seen[r])
      BY <1>6, <2>1, <2>4 DEF Discover, Ends, AfterLoop, HasTx
    <3>2. ASSUME exit'[r] = 0
          PROVE  Unapplied(disc'[r], seen[r]) = {}
      <4>1. ~HasPending(disc'[r], seen[r])
        BY <3>1, <3>2 DEF ReportExitCode
      <4>2. QED
        BY <4>1, CountersCount, StatesAreSets DEF HasPending, PendingCount
    <3>3. QED
      BY <1>1, <2>1, <2>2, <2>3, <2>4, <3>1, <3>2
         DEF Ordered, Before, Working, Rehearsing, Over, Unapplied
  <2>5. CASE job[r].cmd # "status"
    <3> DEFINE pending == ComputePending(disc'[r], seen[r])
    <3>1. /\ MakesPlan(r, pending)
          /\ pending.err = "none" => pending.files = Unapplied(disc'[r], seen[r])
      BY <1>6, <2>1, <2>5 DEF Discover, ComputePending
    <3> HIDE DEF pending
    <3>2. CASE pending.err # "none"
      <4>1. pc'[r] = "return" /\ exit'[r] = 1
        BY <2>1, <3>1, <3>2 DEF MakesPlan, FailsEarly, Fails, AfterLoop, HasTx
      <4>2. QED
        BY <1>1, <2>1, <2>2, <4>1 DEF Ordered, Before, Working, Rehearsing, Over
    <3>3. CASE pending.err = "none" /\ (job[r].cmd = "plan" \/ pending.files = {})
      <4>1. pc'[r] = "return" /\ (job[r].cmd = "plan" \/ Unapplied(disc'[r], seen[r]) = {})
        BY <2>1, <3>1, <3>3 DEF MakesPlan, Ends, AfterLoop, HasTx
      <4>2. QED
        BY <1>1, <2>1, <2>2, <2>3, <2>5, <4>1
           DEF Ordered, Before, Working, Rehearsing, Over, Unapplied
    <3>4. CASE /\ pending.err = "none" /\ job[r].cmd # "plan" /\ pending.files # {}
      <4>1. /\ pc'[r] \in {"begin", "check"} /\ todo'[r] = Unapplied(disc'[r], seen[r])
            /\ exit'[r] = NoExit
        BY <1>1, <2>1, <3>1, <3>4 DEF MakesPlan, Ordered, Over
      <4>2. Applies(r) \/ DryRuns(r)
        BY <2>5, <3>4, JobsAssumption DEF Commands
      <4>3. QED
        BY <1>1, <2>1, <2>2, <2>3, <4>1, <4>2
           DEF Ordered, Before, Working, Behind, Unapplied, NoExit
    <3>5. QED
      BY <3>2, <3>3, <3>4
  <2>6. QED
    BY <2>4, <2>5
<1>7. CASE BeginDryRun(r) \/ ReadFile(r)
  <2>1. /\ UNCHANGED <<conn, seen, disc, todo, done, exit>>
        /\ pc[r] \in {"begin", "file"} /\ pc'[r] \in {"look", "exec"} /\ ~Before(r)'
        /\ (Working(r)' => Working(r)) /\ (Rehearsing(r)' => Rehearsing(r))
    BY <1>1, <1>7 DEF BeginDryRun, ReadFile, Before, Planned, Working, Rehearsing
  <2>2. tx'[r].rows = tx[r].rows
    <3>1. CASE Begin(r) /\ (BeginDryRun(r) \/ Applies(r))
      <4>1. tx[r].rows = {}
        BY <1>1, <2>1, <3>1 DEF BeginDryRun, Own, Before, Handling
      <4>2. QED
        BY <1>1, <3>1, <4>1 DEF Begin, OpenTx, NoTx
    <3>2. QED
      BY <1>7, <3>1 DEF BeginDryRun, ReadFile, dbVars
  <2>3. QED
    BY <1>1, <2>1, <2>2, OrderFrame DEF Over
<1>8. CASE RunStatement(r) \/ SendCommit(r)
  <2>1. /\ UNCHANGED <<conn, seen, disc, todo, done, exit>> /\ pc[r] \notin Over /\ ~Before(r)'
        /\ Working(r) /\ (Rehearsing(r)' => Rehearsing(r))
    BY <1>1, <1>8 DEF RunStatement, SendCommit, Working, Rehearsing, Before, Over
  <2>2. tx'[r].rows = tx[r].rows
    BY <1>1, <1>8 DEF RunStatement, Executed, Execute, SendCommit, AskCommit, Transactions
  <2>3. QED
    BY <1>1, <2>1, <2>2, OrderFrame
<1>9. CASE RunCommit(r)
  <2>1. UNCHANGED <<pc, conn, seen, disc, todo, done, exit>> /\ pc[r] = "exec"
    BY <1>9 DEF RunCommit
  <2>2. tx' = tx \/ (tx'[r].rows = {} /\ tx[r].rows \subseteq history')
    BY <1>1, <1>9 DEF RunCommit, Publish, NoTx, dbVars
  <2>3. QED
    BY <1>1, <2>1, <2>2, OrderFrame DEF Over, Before, Working, Rehearsing
<1>10. CASE LoopEnds(r)
  <2>1. /\ UNCHANGED <<tx, todo, seen, disc, done>> /\ pc[r] = "check" /\ todo[r] = {}
        /\ pc'[r] \in {"rollback", "return"} /\ exit'[r] = 0
    BY <1>10 DEF LoopEnds, Ends, AfterLoop, HasTx, dbVars
  <2>2. ~Before(r)' /\ ~Working(r)' /\ ~Rehearsing(r)' /\ pc'[r] \in Over /\ Working(r)
    BY <2>1 DEF Before, Working, Rehearsing, Over
  <2>3. Behind(r) \subseteq Behind(r)'
    BY <1>2, <2>1 DEF Behind, InTx
  <2>4. QED
    BY <1>1, <1>2, <2>1, <2>2, <2>3 DEF Ordered
<1>11. CASE SkipApplied(r)
  <2>1. /\ UNCHANGED <<tx, pc, seen, disc, done, exit>> /\ pc[r] = "check"
        /\ todo'[r] = todo[r] \ {Current(r)} /\ Current(r) \in RecordedVersions
    BY <1>11 DEF SkipApplied, AlreadyRecorded, Others, dbVars
  <2>2. Behind(r) \subseteq Behind(r)' /\ ~Rehearsing(r)'
    BY <1>1, <1>2, <1>11, <2>1 DEF Behind, InTx, SkipApplied, AlreadyRecorded, Rehearsing
  <2>3. QED
    BY <1>1, <1>2, <2>1, <2>2 DEF Ordered, Before, Working
<1>12. CASE RejectFile(r) \/ StatementFails(r) \/ RecordFails(r) \/ LosesDeadlock(r)
  <2>1. /\ UNCHANGED <<todo, seen, disc>> /\ \E reason \in Reasons : FailsCurrent(r, reason)
    BY <1>12 DEF RejectFile, StatementFails, RecordFails, LosesDeadlock, Reasons
  <2>2. tx'[r].rows = tx[r].rows \/ tx'[r].rows = {}
    <3>1. CASE tx' = tx
      BY <3>1
    <3>2. CASE Refuse(r)
      BY <1>1, <3>2 DEF Refuse, Transactions
    <3>3. CASE Discard(r, "none")
      BY <1>1, <3>3 DEF Discard, NoTx
    <3>4. QED
      BY <1>12, <3>1, <3>2, <3>3
         DEF RejectFile, StatementFails, RecordFails, LosesDeadlock, dbVars
  <2>3. QED
    BY <1>1, <2>1, <2>2, OrderFails
<1>13. CASE RecordMigration(r)
  <2>1. /\ pc[r] = "record" /\ Live(r) /\ Recorded(r) /\ AfterRecord(r)
        /\ UNCHANGED <<conn, seen, disc, exit>> /\ exit[r] = NoExit
    BY <1>1, <1>13 DEF RecordMigration, AfterRecord, Ordered, Over
  <2>2. RowFor(r).by = r /\ RowFor(r).version = Current(r) /\ todo[r] # {} /\ Working(r)
    BY <1>1, <2>1 DEF RowFor, Planned, Working
  <2>3. /\ tx'[r].rows \subseteq tx[r].rows \cup {RowFor(r)}
        /\ Behind(r)' = Behind(r) \cup {Current(r)}
    <3>1. CASE tx[r].st = "open" /\ tx' = [tx EXCEPT ![r].rows = @ \cup {RowFor(r)}] /\ history' = history
      <4>1. tx'[r].rows = tx[r].rows \cup {RowFor(r)}
        BY <1>1, <3>1 DEF Transactions
      <4>2. QED
        BY <2>2, <3>1, <4>1 DEF Behind, InTx, RecordedVersions
    <3>2. CASE history' = history \cup {RowFor(r)} /\ tx' = tx
      BY <2>2, <3>2 DEF Behind, InTx, RecordedVersions
    <3>3. QED
      BY <2>1, <3>1, <3>2 DEF Recorded, Insert
  <2>4. /\ \A u \in Versions : u < Current(r) /\ disc[r][u] # NoSum => u \in Behind(r)
        /\ DryRuns(r) => Rehearsing(r)
    <3>1. DryRuns(r) => Rehearsing(r)
      BY <2>1 DEF Rehearsing
    <3>2. \A u \in Versions : u < Current(r) => u \notin todo[r]
      BY <2>2, CurrentIsLowest
    <3>3. QED
      BY <1>1, <2>2, <3>1, <3>2 DEF Ordered, Behind
  <2>5. \A row \in tx'[r].rows, u \in Versions :
          u < row.version /\ disc'[r][u] # NoSum => u \in Behind(r)'
    <3>1. disc' = disc
      BY <2>1
    <3>2. \A row \in tx[r].rows, u \in Versions :
            u < row.version /\ disc[r][u] # NoSum => u \in Behind(r)
      BY <1>1 DEF Ordered
    <3>3. QED
      BY <2>2, <2>3, <2>4, <3>1, <3>2
  <2>6. CASE DryRuns(r) /\ Finishes(r) /\ Goto(r, "check")
    <3>1. /\ ~Applies(r) /\ ~Before(r)' /\ job[r].cmd \notin {"apply", "status"}
          /\ todo'[r] = todo[r] \ {Current(r)}
      BY <2>6 DEF Before, Finishes, Others
    <3>2. QED
      BY <1>1, <1>2, <2>1, <2>3, <2>4, <2>5, <2>6, <3>1 DEF Ordered
  <2>7. CASE Applies(r) /\ Goto(r, "commit") /\ UNCHANGED <<loop, result>>
    <3>1. Working(r)' /\ ~Before(r)' /\ ~Rehearsing(r)' /\ ~DryRuns(r)'
      BY <1>1, <2>1, <2>7 DEF Working, Before, Rehearsing
    <3>2. QED
      BY <1>1, <1>2, <2>1, <2>2, <2>5, <2>7, <3>1 DEF Ordered, NoExit
  <2>8. QED
    BY <2>1, <2>6, <2>7 DEF AfterRecord
<1>14. CASE CommitReturns(r)
  <2>1. /\ pc[r] = "commitWait" /\ tx'[r].rows = {} /\ UNCHANGED <<seen, disc>>
        /\ Applies(r) /\ exit[r] = NoExit
    BY <1>1, <1>14 DEF CommitReturns, Discard, NoTx, Own, Ordered, Over
  <2>2. CASE FailsCurrent(r, "commit") /\ UNCHANGED loop
    BY <1>1, <2>1, <2>2, OrderFails
  <2>3. CASE tx[r].st = "committed" /\ Finishes(r) /\ Goto(r, "check") /\ UNCHANGED <<failed, why, exit>>
    <3>1. /\ todo'[r] = todo[r] \ {Current(r)} /\ ~Before(r)' /\ Working(r) /\ pc'[r] = "check"
          /\ ~Rehearsing(r)'
      BY <1>1, <2>1, <2>3 DEF Finishes, Others, Before, Working, Rehearsing
    <3>2. Current(r) \in RecordedVersions
      BY <1>1, <2>1, <2>3 DEF Reported, RecordedBy, RecordedVersions
    <3>3. QED
      BY <1>1, <1>2, <2>1, <2>3, <3>1, <3>2 DEF Ordered, NoExit
  <2>4. QED
    BY <1>14, <2>2, <2>3 DEF CommitReturns
<1>15. CASE Rollback(r) \/ Return(r) \/ ServerDisconnect(r) \/ (ServerCommit(r) /\ UNCHANGED <<pc, command, conn, inputs, loop, result>>)
  <2>1. /\ UNCHANGED <<todo, seen, disc, done, exit>>
        /\ \/ pc[r] \in {"rollback", "return"} /\ pc'[r] \in {"return", "done"}
           \/ pc' = pc /\ conn' = conn /\ ~Rehearsing(r)
    BY <1>1, <1>15 DEF Rollback, Return, ServerDisconnect, ServerCommit, Own, Rehearsing
  <2>2. tx' = tx \/ tx'[r].rows = {}
    <3>1. CASE EndSession(r)
      BY <1>1, <3>1 DEF EndSession, NoTx
    <3>2. ASSUME NEW next, Discard(r, next) \/ Publish(r, next)
          PROVE  tx'[r].rows = {}
      <4>1. tx' = [tx EXCEPT ![r] = [NoTx EXCEPT !.st = next]]
        BY <3>2 DEF Discard, Publish
      <4>2. QED
        BY <1>1, <4>1 DEF NoTx
    <3>3. QED
      BY <1>15, <3>1, <3>2 DEF Rollback, Return, ServerDisconnect, ServerCommit, dbVars
  <2>3. ~Rehearsing(r)'
    BY <1>1, <2>1 DEF Rehearsing
  <2>4. QED
    BY <1>1, <2>1, <2>2, <2>3, OrderFrame DEF Over, Before, Working
<1>16. CASE NoticeLoss(r) \/ CallFails(r) \/ CallExpires(r)
  <2>1. UNCHANGED <<todo, seen, disc, tx>>
    BY <1>16 DEF NoticeLoss, CallFails, CallExpires, dbVars
  <2>2. CASE \E reason \in Reasons : FailsEarly(r, reason) \/ FailsCurrent(r, reason)
    BY <1>1, <2>1, <2>2, OrderFails
  <2>3. CASE pc[r] = "check" /\ Goto(r, "file") /\ UNCHANGED result
    <3>1. Live(r)' => Live(r)
      BY <1>16 DEF NoticeLoss, CallFails, CallExpires
    <3>2. QED
      BY <1>1, <2>1, <2>3, <3>1, OrderFrame DEF Over, Before, Working, Rehearsing
  <2>4. CASE pc[r] = "rollback" /\ Goto(r, "return") /\ UNCHANGED result
    BY <1>1, <2>1, <2>4, OrderFrame DEF Over, Before, Working, Rehearsing
  <2>5. ASSUME HandlesError(r)
        PROVE  \/ \E reason \in Reasons : FailsEarly(r, reason) \/ FailsCurrent(r, reason)
               \/ pc[r] = "check" /\ Goto(r, "file") /\ UNCHANGED result
    BY <2>5 DEF HandlesError, Reasons
  <2>6. QED
    BY <1>16, <2>2, <2>3, <2>4, <2>5 DEF NoticeLoss, CallFails, CallExpires
<1>17. CASE OutputFails(r)
  <2>1. FailsEarly(r, "output") /\ UNCHANGED <<todo, seen, disc, tx>>
    BY <1>17 DEF OutputFails, dbVars
  <2>2. QED
    BY <1>1, <2>1, OrderFails
<1>18. CASE LoseConnection(r) \/ Hang(r) \/ Crash(r)
  <2>1. /\ UNCHANGED <<tx, todo, seen, disc, done, exit>> /\ (pc' = pc \/ pc'[r] = "crashed")
        /\ ~Rehearsing(r)'
    BY <1>1, <1>18 DEF LoseConnection, Hang, Crash, Rehearsing, dbVars
  <2>2. QED
    BY <1>1, <2>1, OrderFrame DEF Over, Before, Working
<1>19. CASE /\ UNCHANGED <<pc, conn, loop, inputs, result, tx>>
            /\ \/ GrantLock(r)
               \/ \E v \in Versions, content \in Contents \cup {NoFile} : EditFile(r, v, content)
  BY <1>1, <1>19, OrderFrame DEF Before, Working, Rehearsing
<1>20. QED
  BY <1>3, <1>4, <1>5, <1>6, <1>7, <1>8, <1>9, <1>10, <1>11, <1>12, <1>13, <1>14, <1>15,
     <1>16, <1>17, <1>18, <1>19
     DEF Step, ClientStep, ServerStep, Fault, GrantLock, EditFile, dbVars

\* The order at the start ...
LEMMA InitOrder == Init => OrderInv
BY DEF Init, DatabaseInit, NoTx, Nothing, NoExit, OrderInv, RowsInOrder, Ordered, Working,
       Rehearsing

\* ... kept by every step: the rows it adds have nothing unrecorded below them.
LEMMA StepOrder ==
  ControlInv /\ OwnInv /\ ResultInv /\ OrderInv /\ [Next]_vars => OrderInv'
<1> SUFFICES ASSUME ControlInv, OwnInv, ResultInv, OrderInv, [Next]_vars
             PROVE  OrderInv'
  OBVIOUS
<1>1. CASE UNCHANGED vars
  BY <1>1 DEF vars, dbVars, OrderInv, RowsInOrder, Ordered, Before, Working, Rehearsing,
              Known, Behind, InTx, CoveredBelow, RecordedVersions
<1>2. ASSUME NEW r \in Runners, Step(r)
      PROVE  OrderInv'
  <2>1. /\ RecordedVersions \subseteq RecordedVersions'
        /\ \A v, sum : Known(v, sum) => Known(v, sum)'
    BY <1>2, HistoryGrows
  <2>2. ASSUME NEW s \in Runners
        PROVE  Ordered(s)'
    <3>1. CASE r = s
      BY <1>2, <3>1, OrderStep
    <3>2. CASE r # s
      <4>1. /\ UNCHANGED <<pc[s], conn[s], todo[s], done[s], exit[s], seen[s], disc[s], job>>
            /\ tx'[s] = tx[s]
        BY <1>2, <3>2, StepIsLocal, ResultIsLocal, JobsFixed
      <4>2. Behind(s) \subseteq Behind(s)'
        BY <2>1, <4>1 DEF Behind, InTx
      <4>3. /\ Ordered(s) /\ (Before(s)' <=> Before(s)) /\ (Working(s)' <=> Working(s))
            /\ Rehearsing(s)' <=> Rehearsing(s)
        BY <4>1 DEF OrderInv, Before, Working, Rehearsing
      <4>4. QED
        BY <2>1, <4>1, <4>2, <4>3 DEF Ordered
    <3>3. QED
      BY <3>1, <3>2
  <2>3. ASSUME NEW row \in history
        PROVE  disc'[row.by] = disc[row.by]
    <3>1. row.by \in Runners
      BY DEF ControlInv, DatabaseTypeOK, Rows
    <3>2. CASE row.by # r
      BY <1>2, <3>1, <3>2, ResultIsLocal
    <3>3. CASE row.by = r
      <4>1. pc[r] # "discover"
        BY <3>3 DEF ResultInv, Reported, Before
      <4>2. disc' = disc
        BY <1>2, <4>1
           DEF Step, ClientStep, ServerStep, Fault, Connect, RequestLock, LockGranted, LookTable,
               CreateTable, ReadHistory, Discover, BeginDryRun, LoopEnds, SkipApplied,
               NotApplied, RejectFile, ReadFile, RunStatement, RunCommit, StatementFails,
               StatementsDone, RecordMigration, RecordFails, LosesDeadlock, SendCommit,
               CommitReturns, Rollback, Return, NoticeLoss, ServerDisconnect, CallFails, CallExpires, MisreadHistory,
               OutputFails, LoseConnection, Hang, Crash, EditFile
      <4>3. QED
        BY <4>2
    <3>4. QED
      BY <3>2, <3>3
  <2>4. RowsInOrder'
    <3>1. ASSUME NEW row \in history
          PROVE  row.sum = disc'[row.by][row.version] /\ CoveredBelow(row)'
      BY <2>1, <2>3 DEF OrderInv, RowsInOrder, CoveredBelow
    <3>2. history' # history => disc' = disc
      BY <1>2, StepOnHistory DEF RunCommit, Commits, RecordMigration
    <3>3. ASSUME NEW row \in history' \ history
          PROVE  row.sum = disc'[row.by][row.version] /\ CoveredBelow(row)'
      <4>1. row.by = r /\ row.sum = disc[r][row.version] /\ disc' = disc
        BY <1>2, <3>2, <3>3, NewRows
      <4>2. CASE history' = history \cup tx[r].rows
        BY <2>1, <3>3, <4>1, <4>2
           DEF OrderInv, Ordered, Behind, InTx, CoveredBelow, RecordedVersions
      <4>3. CASE RecordMigration(r) /\ tx[r].st = "auto" /\ row = RowFor(r)
        <5>1. row.version = Current(r) /\ pc[r] = "record" /\ Live(r) /\ todo[r] # {}
          BY <4>3 DEF RecordMigration, RowFor, ControlInv, LoopInv, Planned
        <5>2. Ordered(r) /\ InTx(r) = {} /\ (Applies(r) \/ DryRuns(r))
          BY <4>3, <5>1 DEF OrderInv, Ordered, Working, OwnInv, Own, InTx
        <5>3. \A u \in Versions : u < Current(r) => u \notin todo[r]
          BY <5>1, CurrentIsLowest
        <5>4. \A u \in Versions : u < Current(r) /\ disc[r][u] # NoSum => u \in RecordedVersions
          BY <5>1, <5>2, <5>3 DEF Ordered, Working, Rehearsing, Behind
        <5>5. QED
          BY <2>1, <4>1, <5>1, <5>4 DEF CoveredBelow
      <4>4. QED
        BY <1>2, <3>3, <4>2, <4>3, StepOnHistory
    <3>4. QED
      BY <3>1, <3>3 DEF RowsInOrder
  <2>5. QED
    BY <2>2, <2>4 DEF OrderInv
<1>3. QED
  BY <1>1, <1>2, NextIsStep

\* Strict order: when a migration is recorded, every lower version its runner had
\* discovered is recorded already, with or without the lock, whatever the files
\* contain and whatever fails.
THEOREM NothingSkipped == Spec => []NothingSkippedBelow
<1>1. OrderInv => NothingSkippedBelow
  BY DEF OrderInv, RowsInOrder, CoveredBelow, NothingSkippedBelow
<1>2. QED
  BY <1>1, InitOrder, StepOrder, ResultInvariant, PTL DEF Spec

-----------------------------------------------------------------------------
(***************************************************************************)
(* The plan under the lock.                                                *)
(***************************************************************************)

InLoop(r) ==
  \/ pc[r] \in {"check", "file", "exec", "record", "commit"}
  \/ DryRuns(r) /\ pc[r] \in {"begin", "look", "create"}

\* What r has planned and not yet seen recorded: a rehearsal records nothing.
Plan(r) == todo[r] \cup (IF DryRuns(r) THEN done[r] ELSE {})

Left(r) == {v \in Versions : disc[r][v] # NoSum /\ v \notin RecordedVersions}

\* With the lock and a connection, the plan is what is left to do; between the
\* server's COMMIT and its reply it has one file more.  A file with a COMMIT of its
\* own is recorded before that, and a rehearsal of it as well, but nothing that is
\* still on the list.
Fresh(r) ==
  Locks(r) /\ Live(r) =>
    /\ pc[r] = "discover" => \A v \in RecordedVersions : seen[r][v] # NoSum
    /\ Rehearsing(r) => todo[r] \cap RecordedVersions = {}
    /\ InLoop(r) /\ (NoTxControl \/ (Applies(r) /\ pc[r] # "commit")) => Plan(r) = Left(r)
    /\ pc[r] \in {"commit", "commitWait"} =>
         Left(r) \in {todo[r], todo[r] \ {Current(r)}}

\* What r has found recorded or recorded itself has the checksum it discovered.
Exact(r) ==
  /\ Applies(r) /\ Working(r) =>
       \A v \in Versions : disc[r][v] # NoSum => v \in todo[r] \/ Known(v, disc[r][v])
  /\ exit[r] = 0 /\ job[r].cmd \in {"apply", "status"} =>
       \A v \in Versions : disc[r][v] # NoSum => Known(v, disc[r][v])

FreshInv == AllLock => \A r \in Runners : Fresh(r) /\ Exact(r)

\* Steps that only go on.
LEMMA FreshFrame ==
  ASSUME NEW r \in Runners, Fresh(r), Exact(r),
         UNCHANGED <<job, history, seen, disc, todo, done, exit>>,
         Live(r)' => Live(r) \/ (~InLoop(r)' /\ pc'[r] \notin {"discover", "commitWait"}),
         InLoop(r)' => InLoop(r) /\ (pc[r] = "commit" => pc'[r] = pc[r]),
         pc'[r] = "discover" => pc[r] = "discover",
         Applies(r) /\ Working(r)' => Working(r),
         pc'[r] = "commit" => pc[r] = "commit",
         pc'[r] = "commitWait" => pc[r] \in {"commit", "commitWait"}
  PROVE  Fresh(r)' /\ Exact(r)'
<1>1. /\ Left(r)' = Left(r) /\ Plan(r)' = Plan(r) /\ Current(r)' = Current(r)
      /\ (Locks(r)' <=> Locks(r)) /\ RecordedVersions' = RecordedVersions
      /\ \A v, sum : Known(v, sum)' <=> Known(v, sum)
  BY DEF Left, Plan, Current, Locks, RecordedVersions, Known
<1>2. /\ Rehearsing(r) <=> DryRuns(r) /\ Live(r) /\ InLoop(r) /\ pc[r] # "commit"
      /\ Rehearsing(r)' => Live(r)' /\ InLoop(r)' /\ pc'[r] # "commit" /\ DryRuns(r)
      /\ pc'[r] = "commit" => InLoop(r)'
  BY DEF Rehearsing, InLoop
<1>3. Fresh(r)'
  BY <1>1, <1>2 DEF Fresh
<1>4. QED
  BY <1>1, <1>3 DEF Exact

\* Steps that end with an error.
LEMMA FreshFails ==
  ASSUME ControlInv, NEW r \in Runners, NEW reason,
         FailsEarly(r, reason) \/ FailsCurrent(r, reason)
  PROVE  Fresh(r)' /\ Exact(r)'
<1>1. pc'[r] \in {"rollback", "return"} /\ exit'[r] = 1
  BY DEF FailsEarly, FailsCurrent, Fails, AfterLoop, ControlInv, ControlOK
<1>2. /\ ~InLoop(r)' /\ ~Working(r)' /\ ~Rehearsing(r)'
      /\ pc'[r] \notin {"discover", "commit", "commitWait"}
  BY <1>1 DEF InLoop, Working, Rehearsing
<1>3. QED
  BY <1>1, <1>2 DEF Fresh, Exact

\* A recorded file that is not reported as drifted has the recorded checksum.
LEMMA SameSum ==
  ASSUME ControlInv, NEW r \in Runners, Ordered(r), NEW v \in Versions,
         seen[r][v] # NoSum, DirSums(r)[v] # NoSum, Drifted(DirSums(r), seen[r]) = {}
  PROVE  Known(v, DirSums(r)[v])
<1>1. PICK row \in history : row.version = v /\ row.sum = seen[r][v]
  BY DEF Ordered, Known
<1>2. seen[r][v] \in Checksums
  BY <1>1 DEF ControlInv, DatabaseTypeOK, Rows
<1>3. DirSums(r)[v] \in Checksums
  BY DEF DirSums, Checksums, ControlInv, ControlOK
<1>4. ~Differs(seen[r][v], DirSums(r)[v])
  BY DEF Drifted
<1>5. seen[r][v] = DirSums(r)[v]
  BY <1>2, <1>3, <1>4, SumAssumption DEF Differs
<1>6. QED
  BY <1>1, <1>5 DEF Known

\* A step of a runner keeps its own plan fresh.
LEMMA FreshStep ==
  ASSUME Misled = {}, ControlInv, OwnInv, ResultInv, OrderInv,
         AllLock, FreshInv, NEW r \in Runners, Step(r)
  PROVE  Fresh(r)' /\ Exact(r)'
<1> USE DEF ControlInv, ControlOK
<1>1. /\ job' = job /\ Planned(r) /\ Own(r) /\ Reported(r) /\ Ordered(r)
      /\ Fresh(r) /\ Exact(r)
      /\ tx \in [Runners -> Transactions] /\ tx[r] \in Transactions
  BY JobsFixed DEF LoopInv, DatabaseTypeOK, OwnInv, ResultInv, OrderInv, FreshInv
<1>2. CASE RunCommit(r) \/ Commits(r)
  <2>1. /\ UNCHANGED <<pc, conn, job, todo, done, seen, disc, exit>>
        /\ RunCommit(r) \/ (tx[r].st = "committing" /\ Applies(r))
        /\ history' = history \/ history' = history \cup tx[r].rows
        /\ RunCommit(r) => pc[r] = "exec" /\ ~NoTxControl
    BY <1>1, <1>2, NoFileCommits DEF RunCommit, Commits, Publish, Own, dbVars
  <2>2. /\ RecordedVersions' = RecordedVersions \/ RecordedVersions' = RecordedVersions \cup InTx(r)
        /\ \A v, sum : Known(v, sum) => Known(v, sum)'
    BY <2>1 DEF RecordedVersions, Known, InTx
  <2>3. /\ pc[r] = "exec" /\ Applies(r) => InTx(r) = {}
        /\ DryRuns(r) => InTx(r) \cap todo[r] = {}
        /\ pc[r] \in {"commit", "commitWait"} => InTx(r) \subseteq {Current(r)}
    BY <1>1 DEF Own, Handling, InTx
  <2>4. Left(r)' = Left(r) \/ Left(r)' = Left(r) \ InTx(r)
    BY <2>1, <2>2 DEF Left
  <2>5. Fresh(r)'
    <3>1. CASE RunCommit(r)
      <4>1. pc[r] = "exec" /\ ~NoTxControl /\ (InLoop(r)' <=> InLoop(r))
            /\ Plan(r)' = Plan(r) /\ (Locks(r)' <=> Locks(r)) /\ (Rehearsing(r)' <=> Rehearsing(r))
        BY <2>1, <3>1 DEF InLoop, Plan, Locks, Rehearsing
      <4>2. Applies(r) => RecordedVersions' = RecordedVersions /\ Left(r)' = Left(r)
        BY <2>2, <2>3, <2>4, <4>1
      <4>3. QED
        BY <1>1, <2>1, <2>2, <2>3, <4>1, <4>2 DEF Fresh, Rehearsing
    <3>2. CASE tx[r].st = "committing" /\ Applies(r)
      <4>1. ~InLoop(r)' /\ pc'[r] \notin {"discover", "commit"} /\ ~Rehearsing(r)'
        BY <1>1, <2>1, <3>2 DEF Own, InLoop, Rehearsing
      <4>2. Current(r)' = Current(r) /\ (Locks(r)' <=> Locks(r))
        BY <2>1 DEF Current, Locks
      <4>3. pc[r] = "commitWait" /\ Left(r) \in {todo[r], todo[r] \ {Current(r)}} =>
              Left(r)' \in {todo[r], todo[r] \ {Current(r)}}
        BY ZenonT(40), <2>3, <2>4
      <4>4. QED
        BY <1>1, <2>1, <4>1, <4>2, <4>3 DEF Fresh
    <3>3. QED
      BY <1>2, <2>1, <3>1, <3>2 DEF Commits
  <2>6. QED
    BY <1>1, <2>1, <2>2, <2>5 DEF Exact, Working
<1>3. CASE RecordMigration(r)
  <2>1. /\ pc[r] = "record" /\ AfterRecord(r) /\ Recorded(r) /\ Live(r)
        /\ UNCHANGED <<seen, disc, conn, exit>> /\ exit[r] = NoExit
        /\ Current(r) \in todo[r]
    BY <1>1, <1>3, CurrentIsPending DEF RecordMigration, AfterRecord, Ordered, Over, Planned
  <2>2. /\ \A v, sum : Known(v, sum) => Known(v, sum)'
        /\ \/ RecordedVersions' = RecordedVersions
           \/ ~NoTxControl /\ RecordedVersions' = RecordedVersions \cup {Current(r)}
    <3>1. RowFor(r).version = Current(r)
      BY DEF RowFor
    <3>2. history' = history \/ (~NoTxControl /\ history' = history \cup {RowFor(r)})
      BY <1>1, <2>1 DEF Recorded, Insert, Own
    <3>3. QED
      BY <3>1, <3>2 DEF Known, RecordedVersions
  <2>3. CASE DryRuns(r) /\ Finishes(r) /\ Goto(r, "check")
    <3>1. todo'[r] = todo[r] \ {Current(r)} /\ done'[r] = done[r] \cup {Current(r)}
      BY <2>3 DEF Finishes, Others
    <3>2. Plan(r)' = Plan(r) /\ (NoTxControl => Left(r)' = Left(r))
      BY <1>1, <2>1, <2>2, <2>3, <3>1 DEF Plan, Left
    <3>3. Locks(r) => todo'[r] \cap RecordedVersions' = {}
      BY <1>1, <2>1, <2>2, <2>3, <3>1 DEF Fresh, Rehearsing
    <3>4. Fresh(r)'
      BY <1>1, <2>1, <2>3, <3>2, <3>3 DEF Fresh, InLoop, Locks
    <3>5. QED
      BY <1>1, <2>1, <2>3, <3>4 DEF Exact, NoExit
  <2>4. CASE Applies(r) /\ Goto(r, "commit") /\ UNCHANGED <<loop, result>>
    <3>1. Left(r)' = Left(r) \/ (~NoTxControl /\ Left(r)' = Left(r) \ {Current(r)})
      BY <2>1, <2>2, <2>4 DEF Left
    <3>2. /\ Plan(r) = todo[r] /\ Plan(r)' = todo[r] /\ Current(r)' = Current(r) /\ InLoop(r)
          /\ (Locks(r)' <=> Locks(r)) /\ ~Rehearsing(r)' /\ Working(r) /\ pc'[r] = "commit"
      BY <1>1, <2>1, <2>4 DEF Plan, Current, InLoop, Locks, Rehearsing, Working
    <3>3. Fresh(r)'
      BY <1>1, <2>1, <2>4, <3>1, <3>2 DEF Fresh
    <3>4. QED
      BY <1>1, <2>1, <2>2, <2>4, <3>2, <3>3 DEF Exact, NoExit
  <2>5. QED
    BY <2>1, <2>3, <2>4 DEF AfterRecord
<1>4. ASSUME history' = history
      PROVE  (Fresh(r)' /\ Exact(r)') \/ RunCommit(r) \/ Commits(r) \/ RecordMigration(r)
  <2>1. CASE Connect(r) \/ RequestLock(r) \/ LockGranted(r)
    <3>1. UNCHANGED <<todo, seen, disc, done, exit>> /\ pc[r] \in {"idle", "lock", "lockWait"}
      BY <2>1 DEF Connect, RequestLock, LockGranted, LockReturns
    <3>2. ~InLoop(r)' /\ ~Working(r)' /\ pc'[r] \notin {"discover", "commit", "commitWait"}
      BY <1>1, <2>1 DEF Connect, AfterConnect, Locks, FirstStatement, RequestLock, LockGranted,
                  InLoop, Working
    <3>3. QED
      BY <1>1, <1>4, <3>1, <3>2, FreshFrame
  <2>2. CASE \/ LookTable(r) \/ (CreateTable(r) /\ Goto(r, AfterTable(r)) /\ UNCHANGED result)
             \/ NotApplied(r) \/ StatementsDone(r) \/ BeginDryRun(r) \/ ReadFile(r) \/ RunStatement(r)
    <3>1. UNCHANGED <<conn, todo, seen, disc, done, exit>>
      BY <2>2 DEF LookTable, CreateTable, NotApplied, StatementsDone, BeginDryRun, ReadFile,
                  RunStatement
    <3>2. /\ pc'[r] \notin {"discover", "commit", "commitWait"} /\ (InLoop(r)' => InLoop(r))
          /\ (Applies(r) /\ Working(r)' => Working(r)) /\ pc[r] # "commit"
      BY <1>1, <2>2 DEF LookTable, CreateTable, AfterTable, NotApplied, StatementsDone,
                  BeginDryRun, ReadFile, RunStatement, InLoop, Working, Planned
    <3>3. QED
      BY <1>1, <1>4, <3>1, <3>2, FreshFrame
  <2>3. CASE CreateTable(r) /\ FailsEarly(r, "table")
    BY <2>3, FreshFails
  <2>4. CASE ReadHistory(r)
    <3>1. /\ pc[r] = "read" /\ pc'[r] = "discover" /\ seen'[r] = HistorySums
          /\ UNCHANGED <<todo, disc, done, exit>>
      BY <2>4 DEF ReadHistory
    <3>2. \A v \in RecordedVersions : v \in Versions /\ HistorySums[v] # NoSum
      BY HistorySumsKnown DEF RecordedVersions, DatabaseTypeOK, Rows
    <3>3. RecordedVersions' = RecordedVersions /\ ~InLoop(r)' /\ ~Working(r)' /\ ~Rehearsing(r)'
      BY <1>4, <3>1 DEF RecordedVersions, InLoop, Working, Rehearsing
    <3>4. Fresh(r)'
      BY <3>1, <3>2, <3>3 DEF Fresh
    <3>5. exit'[r] = NoExit
      BY <1>1, <3>1 DEF Ordered, Over
    <3>6. QED
      BY <3>3, <3>4, <3>5 DEF Exact, NoExit
  <2>5. CASE MisreadHistory(r)
    BY <2>5 DEF MisreadHistory
  <2>6. CASE Discover(r)
    <3>1. /\ pc[r] = "discover" /\ UNCHANGED <<seen, done, conn, history>>
          /\ disc'[r] = DirSums(r) /\ done[r] = {}
      BY <1>1, <1>4, <2>6 DEF Discover, MakesPlan, Ends, FailsEarly, Ordered, Before
    <3>2. \A v \in Versions : Known(v, DirSums(r)[v]) => Known(v, disc[r][v])'
      BY <1>4, <3>1 DEF Known
    <3>3. \A v \in Versions : seen[r][v] # NoSum => v \in RecordedVersions
      BY <1>1, SeenIsRecorded
    <3>4. RecordedVersions' = RecordedVersions
      BY <1>4 DEF RecordedVersions
    <3>5. ASSUME Locks(r), Live(r)
          PROVE  Unapplied(DirSums(r), seen[r]) = Left(r)'
      <4>1. \A v \in RecordedVersions : seen[r][v] # NoSum
        BY <1>1, <3>1, <3>5 DEF Fresh
      <4>2. QED
        BY <3>1, <3>3, <3>4, <4>1 DEF Unapplied, Left
    <3>6. ASSUME Drifted(DirSums(r), seen[r]) = {}, NEW v \in Versions, disc'[r][v] # NoSum,
                 v \notin Unapplied(DirSums(r), seen[r])
          PROVE  Known(v, disc[r][v])'
      BY <1>1, <3>1, <3>2, <3>6, SameSum DEF Unapplied
    <3>7. CASE job[r].cmd = "status"
      <4>1. pc'[r] = "return" /\ exit'[r] = ReportExitCode(DirSums(r), seen[r])
        BY <2>6, <3>1, <3>7 DEF Discover, Ends, AfterLoop, HasTx
      <4>2. ASSUME exit'[r] = 0
            PROVE  Unapplied(DirSums(r), seen[r]) = {} /\ Drifted(DirSums(r), seen[r]) = {}
        <5>1. ~HasPending(DirSums(r), seen[r]) /\ ~HasDrift(DirSums(r), seen[r])
          BY <4>1, <4>2 DEF ReportExitCode
        <5>2. QED
          BY <5>1, CountersCount, StatesAreSets DEF HasPending, PendingCount, HasDrift, DriftedCount
      <4>3. QED
        BY <1>1, <3>6, <4>1, <4>2 DEF Fresh, Exact, InLoop, Working, Rehearsing
    <3>8. CASE job[r].cmd # "status"
      <4> DEFINE pending == ComputePending(DirSums(r), seen[r])
      <4>1. /\ MakesPlan(r, pending)
            /\ pending.err = "none" =>
                 /\ pending.files = Unapplied(DirSums(r), seen[r])
                 /\ Drifted(DirSums(r), seen[r]) = {}
        BY <2>6, <3>1, <3>8 DEF Discover, ComputePending, PendingError
      <4> HIDE DEF pending
      <4>2. CASE pending.err # "none"
        BY <4>1, <4>2, FreshFails DEF MakesPlan
      <4>3. CASE pending.err = "none" /\ (job[r].cmd = "plan" \/ pending.files = {})
        <5>1. pc'[r] = "return" /\ (job[r].cmd = "plan" \/ Unapplied(DirSums(r), seen[r]) = {})
          BY <3>1, <4>1, <4>3 DEF MakesPlan, Ends, AfterLoop, HasTx
        <5>2. QED
          BY <1>1, <3>6, <3>8, <4>1, <4>3, <5>1 DEF Fresh, Exact, InLoop, Working, Rehearsing
      <4>4. CASE /\ pending.err = "none" /\ job[r].cmd # "plan" /\ pending.files # {}
        <5>1. /\ pc'[r] \in {"begin", "check"} /\ exit'[r] = NoExit
              /\ todo'[r] = Unapplied(DirSums(r), seen[r])
          BY <1>1, <3>1, <4>1, <4>4 DEF MakesPlan, Ordered, Over
        <5>2. Plan(r)' = todo'[r] /\ Left(r)' \cap RecordedVersions' = {}
          BY <3>1 DEF Plan, Left
        <5>3. Fresh(r)'
          BY <1>1, <3>1, <3>5, <5>1, <5>2 DEF Fresh, Locks
        <5>4. QED
          BY <1>1, <3>6, <4>1, <4>4, <5>1, <5>3 DEF Exact, NoExit
      <4>5. QED
        BY <4>2, <4>3, <4>4
    <3>9. QED
      BY <3>7, <3>8
  <2>7. CASE LoopEnds(r)
    <3>1. /\ UNCHANGED <<todo, seen, disc, done>> /\ pc[r] = "check" /\ todo[r] = {}
          /\ pc'[r] \in {"rollback", "return"}
      BY <2>7 DEF LoopEnds, Ends, AfterLoop, HasTx
    <3>2. /\ \A v, sum : Known(v, sum)' <=> Known(v, sum)
          /\ job[r].cmd \in {"apply", "status"} => Applies(r)
      BY <1>1, <1>4, <3>1 DEF Known, Ordered, Working
    <3>3. QED
      BY <1>1, <3>1, <3>2 DEF Fresh, Exact, InLoop, Working, Rehearsing
  <2>8. CASE SkipApplied(r)
    <3>1. /\ pc[r] = "check" /\ todo[r] # {} /\ Live(r) /\ Applies(r)
          /\ Current(r) \in RecordedVersions
      BY <2>8 DEF SkipApplied, AlreadyRecorded
    <3>2. Locks(r) /\ InLoop(r)
      BY <3>1 DEF AllLock, InLoop
    <3>3. Current(r) \in Left(r)
      BY <1>1, <3>1, <3>2, CurrentIsPending DEF Fresh, Plan
    <3>4. QED
      BY <3>1, <3>3 DEF Left
  <2>9. CASE RejectFile(r) \/ StatementFails(r) \/ RecordFails(r) \/ LosesDeadlock(r)
    BY <2>9, FreshFails DEF RejectFile, StatementFails, RecordFails, LosesDeadlock
  <2>10. CASE SendCommit(r)
    <3>1. /\ UNCHANGED <<conn, todo, seen, disc, done, exit>> /\ pc[r] = "commit"
          /\ pc'[r] = "commitWait" /\ tx'[r].st = "committing" /\ Applies(r)
      BY <1>1, <2>10 DEF SendCommit, AskCommit, Own
    <3>2. QED
      BY <1>1, <1>4, <3>1, FreshFrame DEF InLoop, Working
  <2>11. CASE CommitReturns(r)
    <3>1. pc[r] = "commitWait" /\ UNCHANGED <<seen, disc, conn>> /\ Applies(r) /\ exit[r] = NoExit
      BY <1>1, <2>11 DEF CommitReturns, Own, Ordered, Over
    <3>2. CASE FailsCurrent(r, "commit") /\ UNCHANGED loop
      BY <3>2, FreshFails
    <3>3. CASE tx[r].st = "committed" /\ Finishes(r) /\ Goto(r, "check") /\ UNCHANGED <<failed, why, exit>>
      <4>1. /\ todo'[r] = todo[r] \ {Current(r)} /\ pc'[r] = "check" /\ ~DryRuns(r)
            /\ exit'[r] = NoExit
        BY <3>1, <3>3 DEF Finishes, Others
      <4>2. Known(Current(r), disc[r][Current(r)])
        <5>1. PICK row \in history : row.version = Current(r) /\ row.by = r
          BY <1>1, <3>1, <3>3 DEF Reported, RecordedBy
        <5>2. row.sum = disc[r][Current(r)]
          BY <5>1 DEF OrderInv, RowsInOrder
        <5>3. QED
          BY <5>1, <5>2 DEF Known
      <4>3. Current(r) \notin Left(r)
        BY <4>2 DEF Known, Left, RecordedVersions
      <4>4. Left(r)' = Left(r) /\ Plan(r)' = todo'[r] /\ (\A v, sum : Known(v, sum)' <=> Known(v, sum))
        BY <1>1, <1>4, <3>1, <4>1 DEF Plan, Left, RecordedVersions, Known
      <4>5. Fresh(r)'
        BY <1>1, <3>1, <3>3, <4>1, <4>3, <4>4 DEF Fresh, InLoop, Locks, Rehearsing
      <4>6. QED
        BY <1>1, <3>1, <3>3, <4>1, <4>2, <4>4, <4>5 DEF Exact, Working, NoExit
    <3>4. QED
      BY <2>11, <3>2, <3>3 DEF CommitReturns
  <2>12. CASE Rollback(r) \/ Return(r) \/ LoseConnection(r) \/ Hang(r) \/ Crash(r) \/ ServerDisconnect(r)
    <3>1. /\ UNCHANGED <<todo, seen, disc, done, exit>> /\ (Live(r)' => Live(r))
          /\ \/ pc'[r] \in {"return", "done", "crashed"}
             \/ pc' = pc /\ ~Live(r)'
      BY <2>12 DEF Rollback, Return, ServerDisconnect, LoseConnection, Hang, Crash
    <3>2. /\ Working(r)' => Working(r)
          /\ ~(Live(r)' /\ (InLoop(r)' \/ Rehearsing(r)' \/ pc'[r] \in {"discover", "commit", "commitWait"}))
      BY <1>1, <3>1 DEF InLoop, Working, Rehearsing
    <3>3. Fresh(r)'
      BY <3>2 DEF Fresh
    <3>4. \A v, sum : Known(v, sum)' <=> Known(v, sum)
      BY <1>4 DEF Known
    <3>5. QED
      BY <1>1, <3>1, <3>2, <3>3, <3>4 DEF Exact
  <2>13. CASE ServerCommit(r) /\ UNCHANGED <<pc, command, conn, inputs, loop, result>>
    <3>1. Discard(r, "refused") \/ Commits(r)
      BY <2>13 DEF ServerCommit, Commits
    <3>2. QED
      BY <1>1, <1>4, <2>13, <3>1, FreshFrame DEF InLoop, Working
  <2>14. CASE NoticeLoss(r) \/ CallFails(r) \/ CallExpires(r)
    <3>1. UNCHANGED <<todo, seen, disc, tx>> /\ (Live(r)' => Live(r))
      BY <2>14 DEF NoticeLoss, CallFails, CallExpires, dbVars
    <3>2. CASE \E reason \in Reasons : FailsEarly(r, reason) \/ FailsCurrent(r, reason)
      BY <3>2, FreshFails
    <3>3. CASE pc[r] = "check" /\ Goto(r, "file") /\ UNCHANGED result
      BY <1>1, <1>4, <3>1, <3>3, FreshFrame DEF InLoop, Working
    <3>4. CASE pc[r] = "rollback" /\ Goto(r, "return") /\ UNCHANGED result
      BY <1>1, <1>4, <3>1, <3>4, FreshFrame DEF InLoop, Working
    <3>5. ASSUME HandlesError(r)
          PROVE  \/ \E reason \in Reasons : FailsEarly(r, reason) \/ FailsCurrent(r, reason)
                 \/ pc[r] = "check" /\ Goto(r, "file") /\ UNCHANGED result
      BY <3>5 DEF HandlesError, Reasons
    <3>6. QED
      BY <2>14, <3>2, <3>3, <3>4, <3>5 DEF NoticeLoss, CallFails, CallExpires
  <2>15. CASE OutputFails(r)
    BY <2>15, FreshFails DEF OutputFails
  <2>16. CASE /\ UNCHANGED <<pc, conn, loop, inputs, result, tx>>
              /\ \/ GrantLock(r)
                 \/ \E v \in Versions, content \in Contents \cup {NoFile} : EditFile(r, v, content)
    BY <1>1, <1>4, <2>16, FreshFrame DEF InLoop, Working
  <2>17. QED
    BY <2>1, <2>2, <2>3, <2>4, <2>5, <2>6, <2>7, <2>8, <2>9, <2>10, <2>11,
       <2>12, <2>13, <2>14, <2>15, <2>16
       DEF Step, ClientStep, ServerStep, Fault, CreateTable, GrantLock, EditFile, dbVars
<1>5. QED
  BY <1>2, <1>4, <1>3, StepOnHistory

\* No plan at the start ...
LEMMA InitFresh == Init => FreshInv
BY DEF Init, DatabaseInit, FreshInv, Fresh, Exact, Working, NoExit

\* ... and while a runner works off its plan under the lock, nobody else records
\* anything: that needs a transaction, and a transaction the lock.
LEMMA StepFresh ==
  ASSUME Misled = {}
  PROVE  ControlInv /\ LockInv /\ OwnInv /\ ResultInv /\ OrderInv /\ FreshInv
           /\ [Next]_vars => FreshInv'
<1> SUFFICES ASSUME ControlInv, LockInv, OwnInv, ResultInv, OrderInv, FreshInv,
                    [Next]_vars, AllLock', NEW s \in Runners
             PROVE  Fresh(s)' /\ Exact(s)'
  BY DEF FreshInv
<1>1. CASE UNCHANGED vars
  BY <1>1 DEF vars, dbVars, FreshInv, AllLock, Fresh, Exact, Locks, InLoop, Plan, Left, Current,
              Working, Rehearsing, Known, RecordedVersions
<1>2. ASSUME NEW r \in Runners, Step(r)
      PROVE  Fresh(s)' /\ Exact(s)'
  <2>1. job' = job /\ AllLock /\ Fresh(s) /\ Exact(s)
    BY <1>2, JobsFixed DEF AllLock, Locks, FreshInv
  <2>2. CASE r = s
    BY <1>2, <2>1, <2>2, FreshStep
  <2>3. CASE r # s
    <3>1. /\ UNCHANGED <<pc[s], conn[s], todo[s], done[s], exit[s], seen[s], disc[s], job>>
          /\ tx'[s] = tx[s]
      BY <1>2, <2>3, StepIsLocal, ResultIsLocal, JobsFixed
    <3>2. \A v, sum : Known(v, sum) => Known(v, sum)'
      BY <1>2, HistoryGrows
    <3>3. Exact(s)'
      BY <2>1, <3>1, <3>2 DEF Exact, Working
    <3>4. CASE history' = history
      BY <2>1, <3>1, <3>3, <3>4
         DEF Fresh, Locks, InLoop, Rehearsing, Plan, Left, Current, RecordedVersions
    <3>5. ASSUME history' # history
          PROVE  Fresh(s)'
      <4>1. Locks(r) /\ tx[r].st # "none"
        <5>1. tx[r].st # "none"
          BY <1>2, <3>5, NewRows
        <5>2. RunCommit(r) \/ Commits(r) \/ RecordMigration(r)
          BY <1>2, <3>5, StepOnHistory
        <5>3. Applies(r) \/ DryRuns(r)
          BY <5>2 DEF RunCommit, Commits, RecordMigration, OrderInv, Ordered, Working, OwnInv, Own
        <5>4. QED
          BY <2>1, <5>1, <5>3 DEF AllLock
      <4>2. owner = r
        BY <4>1 DEF LockInv, HoldsLock
      <4>3. ~(Locks(s) /\ Live(s) /\ pc[s] \in Inside)
        BY <2>3, <4>2 DEF LockInv, HoldsLock
      <4>4. ~(Locks(s)' /\ Live(s)' /\ pc'[s] \in Inside)
        BY <3>1, <4>3 DEF Locks
      <4>5. QED
        BY <4>4 DEF Fresh, InLoop, Rehearsing, Inside
    <3>6. QED
      BY <3>3, <3>4, <3>5
  <2>4. QED
    BY <2>2, <2>3
<1>3. QED
  BY <1>1, <1>2, NextIsStep

\* The layers together, for every behaviour.
LEMMA FreshInvariant ==
  ASSUME Misled = {}
  PROVE  Spec => [](ControlInv /\ KeyInv /\ OrderInv /\ FreshInv)
<1>1. ControlInv /\ LockInv /\ OwnInv /\ ResultInv /\ OrderInv /\ FreshInv
        /\ [Next]_vars => FreshInv'
  BY StepFresh
<1>2. QED
  BY <1>1, InitOrder, StepOrder, InitFresh, InitLock, StepLock, ResultInvariant, PTL DEF Spec

\* The plan computed under the lock is never stale, so the recheck of Apply skips
\* nothing when everybody locks, if no file has a COMMIT of its own and nobody
\* mistakes an error for an empty history.
THEOREM PlanNeverStale ==
  ASSUME NoTxControl, Misled = {}
  PROVE  Spec => []PlanStaysFresh
<1>1. ControlInv /\ FreshInv => PlanStaysFresh
  <2> SUFFICES ASSUME ControlInv, FreshInv, AllLock, NEW r \in Runners, Locks(r), Live(r),
                      pc[r] \in {"check", "file", "exec", "record", "commit"}
               PROVE  /\ DryRuns(r) => todo[r] \cup done[r] = Unapplied(disc[r], HistorySums)
                      /\ Applies(r) => todo[r] = Unapplied(disc[r], HistorySums)
    BY DEF PlanStaysFresh
  <2>1. Left(r) = Unapplied(disc[r], HistorySums)
    BY HistorySumsKnown DEF ControlInv, Left, Unapplied
  <2>2. Plan(r) = Left(r)
    BY DEF FreshInv, Fresh, InLoop
  <2>3. QED
    BY <2>1, <2>2 DEF Plan
<1>2. QED
  BY <1>1, FreshInvariant, PTL

\* Exit code 0 of apply and of status means up to date, if nobody mistakes an error
\* for an empty history.
THEOREM ExitZeroIsUpToDate ==
  ASSUME Misled = {}
  PROVE  Spec => []ExitZeroMeansUpToDate
<1>1. ControlInv /\ KeyInv /\ OrderInv /\ FreshInv => ExitZeroMeansUpToDate
  <2> SUFFICES ASSUME ControlInv, KeyInv, OrderInv, FreshInv, NEW r \in Runners,
                      exit[r] = 0, job[r].cmd \in {"apply", "status"}, NEW v \in Versions,
                      disc[r][v] # NoSum
               PROVE  v \in RecordedVersions /\ (AllLock => HistorySums[v] = disc[r][v])
    BY DEF ExitZeroMeansUpToDate
  <2>1. v \in RecordedVersions
    BY DEF OrderInv, Ordered
  <2>2. ASSUME AllLock
        PROVE  HistorySums[v] = disc[r][v]
    <3>1. Known(v, disc[r][v])
      BY <2>2 DEF FreshInv, Exact
    <3>2. Known(v, HistorySums[v])
      BY <2>1, HistorySumsKnown DEF ControlInv
    <3>3. QED
      BY <3>1, <3>2 DEF Known, KeyInv, Unique
  <2>3. QED
    BY <2>1, <2>2
<1>2. QED
  BY <1>1, FreshInvariant, PTL

-----------------------------------------------------------------------------
(***************************************************************************)
(* Waiting: the transactions that others wait for belong to the holder of  *)
(* the lock, so that no two runners wait for each other under it.          *)
(***************************************************************************)

\* A session without a transaction holds nothing that others wait for.
LeaveNothing == \A r \in Runners : tx[r].st = "none" => tx[r].ddl = {} /\ tx[r].rows = {}

LEMMA StatementLeavesNothing ==
  ASSUME DatabaseTypeOK, LeaveNothing, NEW r \in Runners, Statement(r)
  PROVE  tx'[r].st = "none" => tx'[r].ddl = {} /\ tx'[r].rows = {}
<1>1. /\ tx \in [Runners -> Transactions] /\ tx[r] \in Transactions
      /\ tx[r].st = "none" => tx[r].ddl = {} /\ tx[r].rows = {}
  BY DEF DatabaseTypeOK, LeaveNothing
<1>2. CASE OpenSession(r) \/ AskLock(r) \/ GrantLock(r)
  BY <1>1, <1>2 DEF OpenSession, AskLock, GrantLock
<1>3. CASE MakeTable(r) \/ Refuse(r)
  <2>1. tx' = tx \/ (tx'[r].st = tx[r].st /\ tx'[r].ddl = tx[r].ddl /\ tx'[r].rows = tx[r].rows)
    BY <1>1, <1>3 DEF MakeTable, Refuse, Transactions
  <2>2. QED
    BY <1>1, <2>1
<1>4. CASE AskCommit(r)
  BY <1>1, <1>4 DEF AskCommit, Transactions
<1>5. CASE Begin(r)
  BY <1>1, <1>5 DEF Begin, OpenTx, NoTx
<1>6. CASE EndSession(r)
  BY <1>1, <1>6 DEF EndSession, NoTx
<1>7. ASSUME NEW next, Publish(r, next) \/ Discard(r, next)
      PROVE  tx'[r].ddl = {} /\ tx'[r].rows = {}
  BY <1>1, <1>7 DEF Publish, Discard, NoTx
<1>8. ASSUME NEW effect, NEW violates, Execute(r, effect, violates)
      PROVE  tx' = tx \/ tx'[r].st = "open"
  BY <1>1, <1>8 DEF Execute, Transactions
<1>9. ASSUME NEW row, Insert(r, row)
      PROVE  tx' = tx \/ tx'[r].st = "open"
  BY <1>1, <1>9 DEF Insert, Transactions
<1>10. QED
  BY <1>1, <1>2, <1>3, <1>4, <1>5, <1>6, <1>7, <1>8, <1>9 DEF Statement

LEMMA LeavesNothing == Spec => []LeaveNothing
<1>1. Init => LeaveNothing
  BY DEF Init, DatabaseInit, NoTx, LeaveNothing
<1>2. ControlInv /\ LeaveNothing /\ [Next]_vars => LeaveNothing'
  <2> SUFFICES ASSUME ControlInv, LeaveNothing, [Next]_vars, NEW s \in Runners
               PROVE  tx'[s].st = "none" => tx'[s].ddl = {} /\ tx'[s].rows = {}
    BY DEF LeaveNothing
  <2>1. CASE tx' = tx
    BY <2>1 DEF LeaveNothing
  <2>2. ASSUME NEW r \in Runners, Statement(r)
        PROVE  tx'[s].st = "none" => tx'[s].ddl = {} /\ tx'[s].rows = {}
    <3>1. CASE r = s
      BY <2>2, <3>1, StatementLeavesNothing DEF ControlInv
    <3>2. CASE r # s
      BY <2>2, <3>2, StatementIsLocal DEF ControlInv, LeaveNothing
    <3>3. QED
      BY <3>1, <3>2
  <2>3. QED
    BY <2>1, <2>2, NextIsStep, StepIsStatement DEF vars, dbVars
<1>3. QED
  BY <1>1, <1>2, ControlInvariant, PTL DEF Spec

\* Where everybody locks, nobody is in a cycle of waits: of two runners that wait for
\* each other, both would have the lock.
LEMMA NoDeadlock ==
  ASSUME LockInv, OrderInv, LeaveNothing, AllLock, NEW r \in Runners
  PROVE  ~LosesDeadlock(r)
<1>1. SUFFICES ASSUME LosesDeadlock(r)
               PROVE  FALSE
  OBVIOUS
<1>2. PICK S \in SUBSET Runners : r \in S /\ Knot(S)
  BY <1>1 DEF LosesDeadlock, InCycle
<1>3. PICK s \in S : WaitsFor(r, s)
  BY <1>2 DEF Knot
<1>4. \E t \in S : WaitsFor(s, t)
  BY <1>2 DEF Knot
<1>5. /\ s \in Runners /\ r # s /\ pc[r] \in {"exec", "record"} /\ pc[s] \in {"exec", "record"}
      /\ tx[s].ddl # {} \/ tx[s].rows # {}
  BY <1>2, <1>3, <1>4 DEF WaitsFor, MadeIn
<1>6. Locks(r) /\ Locks(s)
  BY <1>5 DEF OrderInv, Ordered, Working, AllLock
<1>7. tx[s].st # "none"
  BY <1>5 DEF LeaveNothing
<1>8. owner = s
  BY <1>5, <1>6, <1>7 DEF LockInv, HoldsLock
<1>9. owner = r
  BY <1>1, <1>5, <1>6 DEF LockInv, HoldsLock, Inside, LosesDeadlock
<1>10. QED
  BY <1>5, <1>8, <1>9

-----------------------------------------------------------------------------
(***************************************************************************)
(* A runner without a fault of its own is not disturbed by the others, for *)
(* any number of them and any faults: UndisturbedInv says that its         *)
(* connection stays up, and that under the lock nothing it has looked at   *)
(* changes before it acts on it.                                           *)
(***************************************************************************)

\* Every invocation takes the lock or is told not to.
OnlyWorkers == \A j \in Jobs : j.cmd \in {"apply", "dry-run"}

Disturbances == {"call", "lock", "table", "record", "deadlock"}

\* The connection of r stays up, and the table it is about to create does not exist.
Steady(r) ==
  /\ pc[r] # "crashed"
  /\ pc[r] = "idle" => conn[r] = "none"
  /\ pc[r] \notin {"idle", "done"} => Live(r)
  /\ pc[r] = "create" => table = NoOne
  /\ why[r] \notin Disturbances

UndisturbedInv == AllLock => \A r \in Healthy : Steady(r)

-----------------------------------------------------------------------------
\* Every runner takes the lock.
LEMMA EveryoneLocks ==
  ASSUME OnlyWorkers, ControlInv, AllLock, NEW r \in Runners
  PROVE  Locks(r) /\ (Applies(r) \/ DryRuns(r))
BY DEF OnlyWorkers, ControlInv, ControlOK, AllLock

\* A runner that creates the table, at once or by its COMMIT, has the lock.
LEMMA TableUnderLock ==
  ASSUME OnlyWorkers, ControlInv, LockInv, AllLock, NEW r \in Runners, Step(r)
  PROVE  table' = table \/ owner = r
<1> USE DEF ControlInv
<1>1. /\ tx \in [Runners -> Transactions] /\ tx[r] \in Transactions
      /\ Planned(r) /\ HoldsLock(r) /\ Locks(r)
  BY EveryoneLocks DEF DatabaseTypeOK, LoopInv, LockInv
<1>2. CASE ServerCommit(r)
  BY <1>1, <1>2 DEF ServerCommit, HoldsLock
<1>3. CASE CreateTable(r)
  BY <1>1, <1>3 DEF CreateTable, HoldsLock, Inside
<1>4. CASE RunCommit(r)
  BY <1>1, <1>4 DEF RunCommit, HoldsLock, Inside
<1>5. CASE \/ RunStatement(r) \/ RecordMigration(r) \/ StatementFails(r) \/ RecordFails(r)
           \/ LosesDeadlock(r) \/ SendCommit(r) \/ BeginDryRun(r) \/ ReadFile(r) \/ CommitReturns(r)
           \/ Rollback(r) \/ Return(r) \/ ServerDisconnect(r)
  BY <1>5
     DEF RunStatement, Executed, Execute, RecordMigration, Recorded, Insert, StatementFails,
         RecordFails, LosesDeadlock, SendCommit, BeginDryRun, ReadFile, CommitReturns, Rollback,
         Return, ServerDisconnect, Refuse, AskCommit, Begin, EndSession, Discard, dbVars
<1>6. CASE \/ Connect(r) \/ RequestLock(r) \/ LockGranted(r) \/ LookTable(r)
           \/ ReadHistory(r) \/ Discover(r) \/ LoopEnds(r) \/ SkipApplied(r)
           \/ NotApplied(r) \/ RejectFile(r) \/ StatementsDone(r) \/ NoticeLoss(r)
           \/ GrantLock(r) \/ Fault(r)
  BY <1>6
     DEF Connect, OpenSession, RequestLock, AskLock, LockGranted, LookTable, ReadHistory,
         Discover, LoopEnds, SkipApplied, NotApplied, RejectFile, StatementsDone,
         NoticeLoss, GrantLock, Fault, CallFails, CallExpires, MisreadHistory, OutputFails,
         LoseConnection, Hang, Crash, EditFile, dbVars
<1>7. QED
  BY <1>2, <1>3, <1>4, <1>5, <1>6 DEF Step, ClientStep, ServerStep

\* What is to be shown of a step.
LEMMA SteadyFrame ==
  ASSUME NEW r \in Runners, Steady(r),
         pc'[r] # "crashed",
         pc'[r] = "idle" => pc[r] = "idle" /\ conn'[r] = conn[r],
         pc'[r] \notin {"idle", "done"} => Live(r)',
         pc'[r] = "create" => table' = NoOne,
         why'[r] \notin Disturbances
  PROVE  Steady(r)'
BY DEF Steady

\* A step of a healthy runner leaves it undisturbed.
LEMMA SteadyStep ==
  ASSUME Misled = {}, OnlyWorkers, ControlInv, LockInv, OwnInv, ResultInv, OrderInv,
         FreshInv, LeaveNothing, AllLock, NEW r \in Healthy, Steady(r), Step(r)
  PROVE  Steady(r)'
<1> USE DEF ControlInv, ControlOK
<1>1. /\ r \in Runners /\ r \notin Faulty \cup Slow \cup Hung \cup Misled \cup Muted
      /\ job' = job /\ Planned(r) /\ Own(r) /\ Ordered(r) /\ Fresh(r) /\ Locks(r)
      /\ tx \in [Runners -> Transactions] /\ tx[r] \in Transactions
      /\ {"none", "mismatch", "missing", "file", "nontx", "statement", "commit"} \cap Disturbances = {}
  BY JobsFixed, EveryoneLocks
     DEF Healthy, LoopInv, DatabaseTypeOK, OwnInv, OrderInv, FreshInv, Disturbances
<1>2. CASE Connect(r) \/ RequestLock(r) \/ LockGranted(r) \/ NotApplied(r) \/ StatementsDone(r)
           \/ ReadHistory(r)
  <2>1. UNCHANGED <<todo, done, why>>
    BY <1>2 DEF Connect, RequestLock, LockGranted, NotApplied, StatementsDone, ReadHistory
  <2>2. tx' = tx
    BY <1>2 DEF Connect, OpenSession, RequestLock, AskLock, LockGranted, NotApplied,
                StatementsDone, ReadHistory, dbVars
  <2>3. /\ pc[r] \notin {"done", "crashed"}
        /\ pc'[r] \in {"lock", "lockWait", "look", "read", "file", "record", "discover"}
        /\ Live(r)'
    BY <1>1, <1>2 DEF Connect, AfterConnect, RequestLock, LockGranted, LockReturns,
                FirstStatement, NotApplied, StatementsDone, ReadHistory, Steady
  <2>4. QED
    BY <1>1, <2>1, <2>2, <2>3, SteadyFrame DEF Steady
<1>3. CASE LookTable(r)
  <2>1. /\ UNCHANGED <<todo, done, why, tx, conn, table>> /\ Live(r)
        /\ pc'[r] \in {"create", "check", "read"} /\ (pc'[r] = "create" => table = NoOne)
    BY <1>1, <1>3 DEF LookTable, AfterTable, TableVisible, dbVars
  <2>2. QED
    BY <1>1, <2>1, SteadyFrame DEF Steady
<1>4. CASE CreateTable(r)
  <2>1. pc[r] = "create" /\ Live(r) /\ UNCHANGED <<conn, todo>> /\ table = NoOne
    BY <1>4 DEF CreateTable, Steady
  <2>2. MakeTable(r) /\ pc'[r] = AfterTable(r) /\ UNCHANGED result
    BY <1>1, <1>4, <2>1 DEF CreateTable
  <2>3. tx'[r].rows = tx[r].rows
    BY <1>1, <2>2 DEF MakeTable, Transactions
  <2>4. pc'[r] \in {"check", "read"}
    BY <2>2 DEF AfterTable
  <2>5. /\ pc'[r] \notin {"crashed", "idle", "create"} /\ Live(r)'
        /\ why'[r] = why[r]
    BY <2>1, <2>2, <2>4
  <2>6. Steady(r) /\ why'[r] \notin Disturbances
    BY <1>1, <2>5 DEF Steady
  <2>7. QED
    BY <2>5, <2>6 DEF Steady
<1>5. CASE Discover(r)
  <2>1. /\ pc[r] = "discover" /\ UNCHANGED <<tx, conn, done>> /\ Live(r)
        /\ pc'[r] \in {"begin", "check", "return"} /\ done[r] = {} /\ tx[r].rows = {}
    BY <1>1, <1>5
       DEF Discover, MakesPlan, FailsEarly, Fails, Ends, AfterLoop, HasTx, dbVars, Ordered,
           Own, Before, Steady
  <2>2. why'[r] \in {why[r], "missing", "mismatch"}
    BY <1>1, <1>5 DEF Discover, MakesPlan, FailsEarly, Fails, Ends, ComputePending, PendingError
  <2>3. why'[r] \notin Disturbances
    BY <1>1, <2>2 DEF Steady
  <2>4. QED
    BY <1>1, <2>1, <2>3 DEF Steady
<1>6. CASE BeginDryRun(r) \/ ReadFile(r) \/ RunStatement(r) \/ SendCommit(r)
  <2>1. /\ UNCHANGED <<conn, todo, done, why>> /\ Live(r)
        /\ pc'[r] \in {"look", "exec", "commitWait"}
    BY <1>1, <1>6 DEF BeginDryRun, ReadFile, RunStatement, SendCommit, Steady
  <2>2. tx'[r].rows = tx[r].rows \/ tx'[r].rows = {}
    <3>1. CASE Begin(r)
      BY <1>1, <3>1 DEF Begin, OpenTx, NoTx
    <3>2. CASE RunStatement(r) \/ SendCommit(r)
      BY <1>1, <3>2 DEF RunStatement, Executed, Execute, SendCommit, AskCommit, Transactions
    <3>3. QED
      BY <1>6, <3>1, <3>2 DEF BeginDryRun, ReadFile, dbVars
  <2>3. QED
    BY <1>1, <2>1, <2>2, SteadyFrame DEF Steady
<1>7. CASE RunCommit(r)
  <2>1. UNCHANGED <<pc, conn, why>> /\ pc[r] = "exec"
    BY <1>7 DEF RunCommit
  <2>2. QED
    BY <1>1, <2>1, SteadyFrame DEF Steady
<1>8. CASE LoopEnds(r) \/ Rollback(r) \/ Return(r)
  <2>1. /\ UNCHANGED <<todo, done, why>>
        /\ \/ pc[r] = "check" /\ conn' = conn /\ pc'[r] \in {"rollback", "return"}
           \/ pc[r] = "rollback" /\ conn' = conn /\ pc'[r] = "return"
           \/ pc'[r] = "done"
    BY <1>1, <1>8 DEF LoopEnds, Ends, AfterLoop, Rollback, Return
  <2>2. tx' = tx \/ tx'[r].rows = {}
    <3>1. CASE EndSession(r)
      BY <1>1, <3>1 DEF EndSession, NoTx
    <3>2. CASE Discard(r, "none")
      BY <1>1, <3>2 DEF Discard, NoTx
    <3>3. QED
      BY <1>8, <3>1, <3>2 DEF LoopEnds, Rollback, Return, dbVars
  <2>3. QED
    BY <1>1, <2>1, <2>2, SteadyFrame DEF Steady
<1>9. CASE SkipApplied(r)
  BY <1>1, <1>9 DEF SkipApplied, AlreadyRecorded, Steady, dbVars
<1>10. CASE RejectFile(r) \/ StatementFails(r)
  <2>1. /\ UNCHANGED <<conn, todo>> /\ pc[r] \in {"file", "exec"}
        /\ \E reason \in {"file", "nontx", "statement"} : FailsCurrent(r, reason)
    BY <1>10 DEF RejectFile, StatementFails
  <2>2. pc'[r] \in {"rollback", "return"} /\ why'[r] \notin Disturbances /\ done' = done
    BY <1>1, <2>1 DEF FailsCurrent, Fails, AfterLoop
  <2>3. tx' = tx \/ tx'[r].rows = {} \/ tx'[r].rows = tx[r].rows
    <3>1. CASE Refuse(r)
      BY <1>1, <3>1 DEF Refuse, Transactions
    <3>2. CASE Discard(r, "none")
      BY <1>1, <3>2 DEF Discard, NoTx
    <3>3. QED
      BY <1>10, <3>1, <3>2 DEF RejectFile, StatementFails, dbVars
  <2>4. QED
    BY <1>1, <2>1, <2>2, <2>3, SteadyFrame DEF Steady
<1>11. CASE RecordMigration(r)
  <2>1. /\ pc[r] = "record" /\ Recorded(r) /\ AfterRecord(r) /\ Live(r)
        /\ UNCHANGED <<conn, why>>
    BY <1>11 DEF RecordMigration, AfterRecord
  <2>2. CASE DryRuns(r) /\ Finishes(r) /\ Goto(r, "check")
    <3>1. tx'[r].rows \subseteq tx[r].rows \cup {RowFor(r)} /\ RowFor(r).version = Current(r)
      BY <1>1, <2>1 DEF Recorded, Insert, Transactions, RowFor
    <3>2. done'[r] = done[r] \cup {Current(r)} /\ todo'[r] = todo[r] \ {Current(r)} /\ pc'[r] = "check"
      BY <1>1, <2>2 DEF Finishes, Others
    <3>3. QED
      BY <1>1, <2>1, <3>1, <3>2 DEF Steady
  <2>3. CASE Applies(r) /\ Goto(r, "commit") /\ UNCHANGED <<loop, result>>
    BY <1>1, <2>1, <2>3 DEF Steady
  <2>4. QED
    BY <2>1, <2>2, <2>3 DEF AfterRecord
<1>12. CASE RecordFails(r)
  <2>1. pc[r] = "record" /\ Live(r) /\ KeyTaken(r, Current(r))
    BY <1>12 DEF RecordFails
  <2>2. Current(r) \in todo[r]
    BY <1>1, <2>1, CurrentIsPending DEF Planned
  <2>3. Current(r) \notin RecordedVersions
    <3>1. CASE Applies(r)
      BY <1>1, <2>1, <2>2, <3>1 DEF Fresh, InLoop, Plan, Left
    <3>2. CASE DryRuns(r)
      BY <1>1, <2>1, <2>2, <3>2 DEF Fresh, Rehearsing
    <3>3. QED
      BY <1>1, <3>1, <3>2, EveryoneLocks
  <2>4. \A row \in tx[r].rows : row.version # Current(r)
    BY <1>1, <2>1, <2>2, EveryoneLocks DEF Own, Handling
  <2>5. QED
    BY <2>1, <2>3, <2>4 DEF KeyTaken, RecordedVersions
<1>13. CASE CommitReturns(r)
  <2>1. /\ pc[r] = "commitWait" /\ Live(r) /\ conn' = conn /\ ~DryRuns(r)
        /\ pc'[r] \in {"check", "rollback", "return"} /\ why'[r] \in {why[r], "commit"}
    BY <1>1, <1>13 DEF CommitReturns, FailsCurrent, Fails, AfterLoop, Own
  <2>2. why'[r] \notin Disturbances
    BY <1>1, <2>1 DEF Steady
  <2>3. QED
    BY <1>1, <2>1, <2>2 DEF Steady
<1>14. CASE ServerCommit(r) /\ UNCHANGED <<pc, command, conn, inputs, loop, result>>
  <2>1. ~DryRuns(r) /\ pc[r] # "create"
    BY <1>1, <1>14 DEF ServerCommit, Own
  <2>2. QED
    BY <1>1, <1>14, <2>1 DEF Steady
<1>15. CASE GrantLock(r) /\ UNCHANGED <<pc, command, conn, inputs, loop, result>>
  BY <1>1, <1>15 DEF GrantLock, Steady
<1>16. CASE ServerDisconnect(r)
  <2>1. pc[r] = "done" \/ pc[r] = "idle"
    BY <1>16 DEF ServerDisconnect, Steady
  <2>2. UNCHANGED <<pc, conn, todo, done, why>> /\ tx'[r].rows = {}
    BY <1>1, <1>16 DEF ServerDisconnect, EndSession, NoTx
  <2>3. QED
    BY <1>1, <2>1, <2>2, SteadyFrame DEF Steady
<1>17. CASE NoticeLoss(r)
  BY <1>17 DEF NoticeLoss, HandlesError, Steady
<1>18. CASE \E v \in Versions, content \in Contents \cup {NoFile} : EditFile(r, v, content)
  <2>1. UNCHANGED <<dbVars, pc, job, conn, todo, done, why>>
    BY <1>18 DEF EditFile
  <2>2. QED
    BY <1>1, <2>1, SteadyFrame DEF Steady, dbVars
<1>19. ~(CallFails(r) \/ CallExpires(r) \/ MisreadHistory(r) \/ OutputFails(r) \/ LoseConnection(r) \/ Hang(r) \/ Crash(r))
  BY <1>1 DEF CallFails, CallExpires, MisreadHistory, OutputFails, LoseConnection, Hang, Crash
<1>20. ~LosesDeadlock(r)
  BY <1>1, NoDeadlock
<1>21. QED
  BY <1>2, <1>3, <1>4, <1>5, <1>6, <1>7, <1>8, <1>9, <1>10, <1>11, <1>12, <1>13, <1>14,
     <1>15, <1>16, <1>17, <1>18, <1>19, <1>20 DEF Step, ClientStep, ServerStep, Fault

\* Nobody is disturbed at the start ...
LEMMA InitUndisturbed == Init => UndisturbedInv
BY DEF Init, DatabaseInit, NoTx, Healthy, UndisturbedInv, Steady, Disturbances

\* ... and the others cannot make the table in front of a runner that has the lock.
LEMMA StepUndisturbed ==
  ASSUME Misled = {}, OnlyWorkers
  PROVE  ControlInv /\ LockInv /\ OwnInv /\ ResultInv /\ OrderInv /\ FreshInv
           /\ LeaveNothing /\ UndisturbedInv /\ [Next]_vars => UndisturbedInv'
<1> SUFFICES ASSUME ControlInv, LockInv, OwnInv, ResultInv, OrderInv, FreshInv,
                    LeaveNothing, UndisturbedInv, [Next]_vars, AllLock', NEW s \in Healthy
             PROVE  Steady(s)'
  BY DEF UndisturbedInv, Healthy
<1>0. s \in Runners
  BY DEF Healthy
<1>1. CASE UNCHANGED vars
  BY <1>1 DEF vars, dbVars, UndisturbedInv, AllLock, Locks, Steady
<1>2. ASSUME NEW r \in Runners, Step(r)
      PROVE  Steady(s)'
  <2>1. job' = job /\ AllLock /\ Steady(s)
    BY <1>2, JobsFixed DEF AllLock, Locks, UndisturbedInv
  <2>2. CASE r = s
    BY <1>2, <2>1, <2>2, SteadyStep
  <2>3. CASE r # s
    <3>1. /\ UNCHANGED <<pc[s], conn[s], todo[s], done[s], why[s], job>>
          /\ tx'[s] = tx[s]
      BY <1>0, <1>2, <2>3, StepIsLocal, ResultIsLocal, JobsFixed
    <3>2. table' = table \/ pc[s] # "create"
      <4>1. pc[s] = "create" => owner = s
        BY <1>0, <2>1, EveryoneLocks DEF Steady, LockInv, HoldsLock, Inside
      <4>2. QED
        BY <1>2, <2>1, <2>3, <4>1, TableUnderLock
    <3>3. QED
      BY <2>1, <3>1, <3>2 DEF Steady
  <2>4. QED
    BY <2>2, <2>3
<1>3. QED
  BY <1>1, <1>2, NextIsStep

\* A runner without a fault of its own never loses its connection, the lock, or the
\* race for the table or a row, and is in no deadlock, whatever happens to the others and whatever the files
\* contain, when everybody takes the lock (no status, no plan) and nobody mistakes an
\* error for an empty history.
THEOREM NobodyIsDisturbed ==
  ASSUME Misled = {}, OnlyWorkers
  PROVE  Spec => []UndisturbedUnderLock
<1>1. ControlInv /\ LockInv /\ OwnInv /\ ResultInv /\ OrderInv /\ FreshInv
        /\ LeaveNothing /\ UndisturbedInv /\ [Next]_vars => UndisturbedInv'
  BY StepUndisturbed
<1>2. UndisturbedInv => UndisturbedUnderLock
  BY DEF UndisturbedInv, Steady, UndisturbedUnderLock, Disturbances
<1>3. QED
  BY <1>1, <1>2, InitUndisturbed, InitLock, StepLock, LeavesNothing, FreshInvariant,
     ResultInvariant, PTL DEF Spec

-----------------------------------------------------------------------------
(***************************************************************************)
(* What a rehearsal foretells where everybody locks.  FilesInv says what   *)
(* the rows tell of the files while nobody changes one, MatchInv that a    *)
(* runner with the lock has the files of all that is recorded, AheadInv    *)
(* that of the files that make the same thing a rehearsal gets past one    *)
(* only, and BlameInv that an apply fails at a statement of a sound file   *)
(* because another of its files has made the same.                         *)
(***************************************************************************)

\* From the list of pending files to the end of the loop.
Busy(r) == InLoop(r) \/ pc[r] = "commitWait"

\* The checksums r works with are those of its files, and its rows have them.
Hashed(r) ==
  /\ Busy(r) => disc[r] = DirSums(r)
  /\ \A row \in tx[r].rows : row.sum = Checksum(row.body)

FilesInv == edits = 0 => ChecksumOfWhatRan /\ \A r \in Runners : Hashed(r)

\* Whatever is recorded, r has discovered with the same checksum.
Matches(r) ==
  Locks(r) /\ Live(r) /\ Busy(r) => \A v \in RecordedVersions : Known(v, disc[r][v])

MatchInv == AllLock => \A r \in Runners : Matches(r)

\* The transaction of r has what the first statements of content create, all of them
\* in Made.
MadeBefore(r, content, n) ==
  \A i \in DOMAIN Script[content] :
    i < n /\ Script[content][i] = "create" =>
      \E effect \in tx[r].ddl : effect.body = content /\ effect.stmt = i

Made(r, content) ==
  \A i \in DOMAIN Script[content] :
    Script[content][i] = "create" =>
      \E effect \in tx[r].ddl : effect.body = content /\ effect.stmt = i

Twin(r, u, v) == u # v /\ dir[r][u] = dir[r][v]

\* The files with the content of v are still ahead of r.
Lone(r, v) == \A u \in Versions : Twin(r, u, v) => u \in todo[r]

Ahead(r) ==
  DryRuns(r) =>
    /\ pc[r] \notin Handling \cup Over => done[r] = {}
    /\ done[r] \cap todo[r] = {}
    /\ exit[r] = 0 => todo[r] = {}
    /\ \A v \in done[r] : Contains(dir[r][v], "create") => Lone(r, v)
    /\ Live(r) /\ pc[r] \in Handling => \A v \in done[r] : Made(r, dir[r][v])
    /\ Live(r) /\ pc[r] = "exec" =>
         MadeBefore(r, body[r], at[r]) /\ (Ran(r, "create") => Lone(r, Current(r)))
    /\ Live(r) /\ pc[r] = "record" =>
         Made(r, body[r]) /\ (Contains(body[r], "create") => Lone(r, Current(r)))

AheadInv == edits = 0 /\ AllLock => \A r \in Runners : Ahead(r)

Blame(r) ==
  Applies(r) => \A v \in failed[r] : Sound(dir[r][v]) =>
    /\ why[r] # "deadlock"
    /\ why[r] = "statement" =>
         Contains(dir[r][v], "create") /\ \E u \in Versions : Twin(r, u, v)

BlameInv == edits = 0 /\ AllLock => \A r \in Runners : Blame(r)

-----------------------------------------------------------------------------
\* A runner gets its list from Discover, which is the only step that computes
\* checksums.
LEMMA BusyStep ==
  ASSUME ControlInv, NEW r \in Runners, Step(r)
  PROVE  \/ Discover(r)
         \/ /\ disc' = disc
            /\ Busy(r)' => Busy(r)
            /\ Live(r)' /\ Busy(r)' => Live(r)
<1> USE DEF ControlInv, ControlOK
<1> DEFINE Quiet == /\ disc' = disc
                    /\ Busy(r)' => Busy(r)
                    /\ Live(r)' /\ Busy(r)' => Live(r)
<1>1. job' = job /\ Planned(r)
  BY JobsFixed DEF LoopInv
<1>2. ASSUME NEW reason, FailsEarly(r, reason) \/ FailsCurrent(r, reason)
      PROVE  ~Busy(r)'
  BY <1>2 DEF FailsEarly, FailsCurrent, Fails, AfterLoop, Busy, InLoop
<1>3. HandlesError(r) => ~Busy(r)' \/ (pc[r] = "check" /\ pc'[r] = "file")
  BY <1>2 DEF HandlesError
<1>4. CASE \/ Connect(r) \/ RequestLock(r) \/ LockGranted(r) \/ LookTable(r) \/ ReadHistory(r)
           \/ BeginDryRun(r)
  BY <1>1, <1>4
     DEF Quiet, Connect, AfterConnect, Locks, FirstStatement, RequestLock, LockGranted, LockReturns,
         LookTable, AfterTable, ReadHistory, BeginDryRun, Busy, InLoop
<1>5. CASE CreateTable(r)
  BY <1>1, <1>2, <1>5 DEF Quiet, CreateTable, AfterTable, Busy, InLoop
<1>6. CASE \/ LoopEnds(r) \/ SkipApplied(r) \/ NotApplied(r) \/ RejectFile(r) \/ ReadFile(r)
           \/ RunStatement(r) \/ RunCommit(r) \/ StatementFails(r) \/ StatementsDone(r)
  BY <1>1, <1>2, <1>6
     DEF Quiet, LoopEnds, Ends, AfterLoop, SkipApplied, NotApplied, RejectFile, ReadFile,
         RunStatement, RunCommit, StatementFails, StatementsDone, Busy, InLoop
<1>7. CASE RecordMigration(r) \/ RecordFails(r) \/ LosesDeadlock(r) \/ SendCommit(r) \/ CommitReturns(r)
  BY <1>1, <1>2, <1>7
     DEF Quiet, RecordMigration, AfterRecord, RecordFails, LosesDeadlock, SendCommit,
         CommitReturns, Busy, InLoop
<1>8. CASE Rollback(r) \/ Return(r) \/ ServerStep(r)
  BY <1>1, <1>8 DEF Quiet, Rollback, Return, ServerStep, ServerDisconnect, Busy, InLoop
<1>9. CASE NoticeLoss(r) \/ CallFails(r) \/ CallExpires(r)
  BY <1>1, <1>3, <1>9 DEF Quiet, NoticeLoss, CallFails, CallExpires, Busy, InLoop
<1>10. CASE \/ MisreadHistory(r) \/ OutputFails(r) \/ LoseConnection(r) \/ Hang(r) \/ Crash(r)
            \/ \E v \in Versions, content \in Contents \cup {NoFile} : EditFile(r, v, content)
  BY <1>1, <1>2, <1>10
     DEF Quiet, MisreadHistory, OutputFails, LoseConnection, Hang, Crash, EditFile, Busy, InLoop
<1>11. QED
  BY <1>4, <1>5, <1>6, <1>7, <1>8, <1>9, <1>10 DEF Quiet, Step, ClientStep, Fault

\* The row for the current file has the checksum of what was executed.
LEMMA RowIsExact ==
  ASSUME ControlInv, NEW r \in Runners, Rehearsed(r), Hashed(r), pc[r] = "record"
  PROVE  RowFor(r).sum = Checksum(RowFor(r).body)
<1>1. Current(r) \in Versions /\ dir[r][Current(r)] = body[r] /\ body[r] \in Contents
  BY CurrentIsPending DEF ControlInv, LoopInv, Planned, Rehearsed
<1>2. disc[r] = DirSums(r)
  BY DEF Hashed, Busy, InLoop
<1>3. QED
  BY <1>1, <1>2, NoFileAssumption DEF DirSums, RowFor

LEMMA StepFiles ==
  ControlInv /\ OwnInv /\ RehearsedInv /\ FilesInv /\ [Next]_vars => FilesInv'
<1> SUFFICES ASSUME ControlInv, OwnInv, RehearsedInv, FilesInv, [Next]_vars, edits' = 0
             PROVE  ChecksumOfWhatRan' /\ \A s \in Runners : Hashed(s)'
  BY DEF FilesInv
<1>1. CASE UNCHANGED vars
  BY <1>1 DEF vars, dbVars, FilesInv, ChecksumOfWhatRan, Hashed, Busy, InLoop, DirSums
<1>2. ASSUME NEW r \in Runners, Step(r)
      PROVE  ChecksumOfWhatRan' /\ \A s \in Runners : Hashed(s)'
  <2>1. dir' = dir /\ edits = 0 /\ job' = job
    BY <1>2, DirsFixed, JobsFixed
  <2>2. Rehearsed(r) /\ ChecksumOfWhatRan /\ \A s \in Runners : Hashed(s)
    BY <2>1 DEF RehearsedInv, FilesInv
  <2>3. RecordMigration(r) => RowFor(r).sum = Checksum(RowFor(r).body)
    BY <2>2, RowIsExact DEF RecordMigration
  <2>4. \A row \in history' \cup tx'[r].rows : row.sum = Checksum(row.body)
    BY <1>2, <2>2, <2>3, StepOnHistory DEF ChecksumOfWhatRan, Hashed
  <2>5. Busy(r)' => disc'[r] = DirSums(r)'
    <3>1. CASE Discover(r)
      BY <2>1, <3>1 DEF Discover, DirSums, ControlInv, ControlOK
    <3>2. CASE disc' = disc /\ (Busy(r)' => Busy(r))
      BY <2>1, <2>2, <3>2 DEF Hashed, DirSums
    <3>3. QED
      BY <1>2, <3>1, <3>2, BusyStep
  <2>6. ASSUME NEW s \in Runners, s # r
        PROVE  Hashed(s)'
    <3>1. pc'[s] = pc[s] /\ tx'[s] = tx[s] /\ disc'[s] = disc[s]
      BY <1>2, <2>6, StepIsLocal, ResultIsLocal
    <3>2. QED
      BY <2>1, <2>2, <3>1 DEF Hashed, Busy, InLoop, DirSums
  <2>7. QED
    BY <2>4, <2>5, <2>6 DEF ChecksumOfWhatRan, Hashed
<1>3. QED
  BY <1>1, <1>2, NextIsStep

\* Where nothing is missing and nothing has drifted, what is recorded is discovered.
LEMMA DiscoverMatches ==
  ASSUME ControlInv, OrderInv, NEW r \in Runners, Fresh(r), Discover(r), Locks(r), Live(r), Busy(r)'
  PROVE  \A v \in RecordedVersions : Known(v, DirSums(r)[v])
<1> DEFINE pending == ComputePending(DirSums(r), seen[r])
<1>1. pc[r] = "discover" /\ job[r].cmd # "status"
  BY DEF Discover, Locks
<1>2. MakesPlan(r, pending)
  BY <1>1 DEF Discover
<1>3. pending.err = "none"
  <2>1. SUFFICES ASSUME FailsEarly(r, pending.err)
                 PROVE  FALSE
    BY <1>2 DEF MakesPlan
  <2>2. QED
    BY <2>1 DEF FailsEarly, Fails, AfterLoop, Busy, InLoop, ControlInv, ControlOK
<1>4. Missing(DirSums(r), seen[r]) = {} /\ Drifted(DirSums(r), seen[r]) = {}
  BY <1>3 DEF ComputePending, PendingError
<1>5. ASSUME NEW v \in RecordedVersions
      PROVE  Known(v, DirSums(r)[v])
  <2>1. v \in Versions /\ seen[r][v] # NoSum
    BY <1>1, <1>5 DEF Fresh, RecordedVersions, ControlInv, DatabaseTypeOK, Rows
  <2>2. DirSums(r)[v] # NoSum
    BY <1>4, <2>1 DEF Missing
  <2>3. QED
    BY <1>4, <2>1, <2>2, SameSum DEF OrderInv
<1>6. QED
  BY <1>5

\* Rows that appear while r has the lock are its own.
LEMMA StepMatches ==
  ControlInv /\ LockInv /\ OwnInv /\ OrderInv /\ FreshInv /\ MatchInv /\ [Next]_vars => MatchInv'
<1> SUFFICES ASSUME ControlInv, LockInv, OwnInv, OrderInv, FreshInv, MatchInv, [Next]_vars,
                    AllLock', NEW s \in Runners, Locks(s)', Live(s)', Busy(s)',
                    NEW v \in RecordedVersions'
             PROVE  Known(v, disc[s][v])'
  BY DEF MatchInv, Matches
<1>1. CASE UNCHANGED vars
  BY <1>1 DEF vars, dbVars, MatchInv, Matches, AllLock, Locks, Busy, InLoop, RecordedVersions, Known
<1>2. ASSUME NEW r \in Runners, Step(r)
      PROVE  Known(v, disc[s][v])'
  <2>1. job' = job /\ AllLock /\ Matches(s) /\ Fresh(s) /\ Locks(s)
    BY <1>2, JobsFixed DEF AllLock, Locks, MatchInv, FreshInv
  <2>2. PICK row \in history' : row.version = v
    BY DEF RecordedVersions
  <2>3. CASE r = s /\ Discover(r)
    <3>1. disc'[s] = DirSums(s) /\ history' = history /\ conn' = conn
      BY <2>3 DEF Discover, dbVars, ControlInv, ControlOK
    <3>2. Known(v, DirSums(s)[v])
      BY <2>1, <2>2, <2>3, <3>1, DiscoverMatches DEF RecordedVersions
    <3>3. QED
      BY <3>1, <3>2 DEF Known
  <2>4. CASE r = s /\ disc' = disc /\ Busy(s) /\ Live(s)
    <3>1. CASE row \in history
      <4>1. Known(v, disc[s][v])
        BY <2>1, <2>2, <2>4, <3>1 DEF Matches, RecordedVersions
      <4>2. QED
        BY <1>2, <2>4, <4>1, HistoryGrows
    <3>2. CASE row \notin history
      BY <1>2, <2>2, <2>4, <3>2, NewRows DEF Known
    <3>3. QED
      BY <3>1, <3>2
  <2>5. CASE r # s
    <3>1. pc'[s] = pc[s] /\ conn'[s] = conn[s] /\ disc'[s] = disc[s]
      BY <1>2, <2>5, StepIsLocal, ResultIsLocal
    <3>2. Busy(s) /\ Live(s) /\ pc[s] \in Inside
      BY <2>1, <3>1 DEF Busy, InLoop, Inside
    <3>3. owner = s
      BY <2>1, <3>2 DEF LockInv, HoldsLock
    <3>4. history' = history
      <4>1. SUFFICES ASSUME history' # history
                     PROVE  FALSE
        OBVIOUS
      <4>2. tx[r].st # "none" /\ (RunCommit(r) \/ Commits(r) \/ RecordMigration(r))
        BY <1>2, <4>1, NewRows, StepOnHistory
      <4>3. Applies(r) \/ DryRuns(r)
        BY <4>2 DEF RunCommit, Commits, RecordMigration, OrderInv, Ordered, Working, OwnInv, Own
      <4>4. owner = r
        BY <2>1, <4>2, <4>3 DEF AllLock, LockInv, HoldsLock
      <4>5. QED
        BY <2>5, <3>3, <4>4
    <3>5. QED
      BY <2>1, <2>2, <3>1, <3>2, <3>4 DEF Matches, RecordedVersions, Known
  <2>6. QED
    BY <1>2, <2>3, <2>4, <2>5, BusyStep
<1>3. QED
  BY <1>1, <1>2, NextIsStep

\* Under the lock, what is recorded for a version was made from the runner's own file.
LEMMA RecordedIsMine ==
  ASSUME ControlInv, KeyInv, NEW r \in Runners, Locks(r), Live(r), Busy(r),
         Matches(r), Hashed(r), ChecksumOfWhatRan, NEW row \in history
  PROVE  row.version \in Versions /\ dir[r][row.version] = row.body
<1>1. row.version \in Versions /\ row.sum \in Checksums
  BY DEF ControlInv, DatabaseTypeOK, Rows
<1>2. row.sum = disc[r][row.version]
  BY DEF Matches, RecordedVersions, Known, KeyInv, Unique
<1>3. row.sum = DirSums(r)[row.version] /\ row.sum # NoSum
  BY <1>1, <1>2, SumAssumption DEF Hashed
<1>4. Checksum(dir[r][row.version]) = Checksum(row.body)
  BY <1>1, <1>3 DEF DirSums, ChecksumOfWhatRan
<1>5. QED
  BY <1>1, <1>4 DEF Checksum

-----------------------------------------------------------------------------
\* An apply fails at a statement of a sound file only because something it makes is
\* in the schema, and under the lock that comes from another of its own files.
LEMMA BlameStep ==
  ASSUME NoTxControl, ControlInv, LockInv, KeyInv, BuildInv, HistoryMatchesSchema, OrderInv,
         LeaveNothing, AllLock, FreshInv, MatchInv, ChecksumOfWhatRan,
         NEW r \in Runners, Step(r), dir' = dir, Rehearsed(r), Hashed(r), Blame(r)
  PROVE  Blame(r)'
<1> USE DEF ControlInv, ControlOK
<1>1. /\ job' = job /\ Planned(r) /\ Builds(r) /\ Fresh(r) /\ Matches(r)
      /\ \A content, kind : Contains(content, kind)' <=> Contains(content, kind)
      /\ \A content : Sound(content)' <=> Sound(content)
      /\ \A u, v : Twin(r, u, v)' <=> Twin(r, u, v)
  BY JobsFixed DEF LoopInv, BuildInv, FreshInv, MatchInv, Contains, Sound, Twin
<1>2. ASSUME UNCHANGED <<failed[r], why[r]>> \/ why'[r] \notin {"statement", "deadlock"}
      PROVE  Blame(r)'
  BY <1>1, <1>2 DEF Blame
<1>3. CASE StatementFails(r)
  <2>1. /\ pc[r] = "exec" /\ Live(r) /\ MoreStatements(r)
        /\ failed'[r] = {Current(r)} /\ why'[r] = "statement"
        /\ body[r] = dir[r][Current(r)] /\ Passed(r)
    BY <1>3 DEF StatementFails, FailsCurrent, Fails, Rehearsed
  <2>2. SUFFICES ASSUME Applies(r), Sound(body[r])
                 PROVE  Contains(body[r], "create") /\ \E u \in Versions : Twin(r, u, Current(r))
    BY <1>1, <2>1 DEF Blame
  <2>3. Kind(r) \in {"ok", "create", "deferred", "commit"} /\ Kind(r) # "commit" /\ tx[r].st # "auto"
    BY <1>1, <2>1, <2>2 DEF Sound, Kind, MoreStatements, NoTxControl, Builds
  <2>4. Kind(r) = "create" /\ Exists(r, EffectOf(r))
    BY <1>3, <2>3 DEF StatementFails, Refused
  <2>5. PICK effect \in schema \cup tx[r].ddl : effect.body = body[r] /\ effect.stmt = at[r]
    BY <2>4 DEF Exists, Alike, EffectOf
  <2>6. effect \notin tx[r].ddl
    <3>1. at[r] \in Nat
      OBVIOUS
    <3>2. QED
      BY <2>1, <2>2, <2>5, <3>1 DEF Passed
  <2>7. PICK row \in history : effect \in EffectsOfRow(row)
    BY <2>5, <2>6 DEF HistoryMatchesSchema
  <2>8. row.body = body[r]
    BY <2>5, <2>7 DEF EffectsOfRow, EffectsOf
  <2>9. Locks(r) /\ Busy(r) /\ InLoop(r)
    BY <2>1, <2>2 DEF AllLock, Busy, InLoop
  <2>10. row.version \in Versions /\ dir[r][row.version] = body[r]
    BY <1>1, <2>1, <2>8, <2>9, RecordedIsMine
  <2>11. row.version # Current(r)
    <3>1. Current(r) \in todo[r]
      BY <1>1, <2>1, CurrentIsPending DEF Planned
    <3>2. todo[r] \subseteq Left(r)
      BY <1>1, <2>1, <2>9 DEF Fresh, Plan
    <3>3. QED
      BY <3>1, <3>2 DEF Left, RecordedVersions
  <2>12. Contains(body[r], "create")
    BY <2>1, <2>4 DEF Contains, Kind, MoreStatements
  <2>13. QED
    BY <2>1, <2>10, <2>11, <2>12 DEF Twin
<1>4. ~LosesDeadlock(r)
  BY NoDeadlock
<1>5. ASSUME NEW reason \in {"call", "lock", "table", "missing", "mismatch", "file", "nontx",
                             "record", "commit", "output", "none"},
             FailsEarly(r, reason) \/ FailsCurrent(r, reason)
      PROVE  why'[r] \notin {"statement", "deadlock"}
  BY <1>5 DEF FailsEarly, FailsCurrent, Fails
<1>6. HandlesError(r) =>
        UNCHANGED <<failed[r], why[r]>> \/ why'[r] \notin {"statement", "deadlock"}
  BY <1>5 DEF HandlesError
<1>7. CASE \/ Connect(r) \/ RequestLock(r) \/ LockGranted(r) \/ LookTable(r) \/ ReadHistory(r)
           \/ BeginDryRun(r) \/ LoopEnds(r) \/ SkipApplied(r) \/ NotApplied(r) \/ ReadFile(r)
           \/ RunStatement(r) \/ RunCommit(r) \/ StatementsDone(r) \/ RecordMigration(r)
           \/ SendCommit(r) \/ Rollback(r) \/ Return(r) \/ ServerStep(r)
  BY <1>2, <1>7
     DEF Connect, RequestLock, LockGranted, LookTable, ReadHistory, BeginDryRun, LoopEnds, Ends,
         SkipApplied, NotApplied, ReadFile, RunStatement, RunCommit, StatementsDone,
         RecordMigration, AfterRecord, SendCommit, Rollback, Return, ServerStep,
         ServerDisconnect
<1>8. CASE CreateTable(r) \/ RejectFile(r) \/ RecordFails(r) \/ CommitReturns(r)
  BY <1>2, <1>5, <1>8 DEF CreateTable, RejectFile, RecordFails, CommitReturns
<1>9. CASE Discover(r)
  <2>1. \A seq : PendingError(DirSums(r), seq) \in {"none", "missing", "mismatch"}
    BY DEF PendingError
  <2>2. QED
    BY <1>2, <1>5, <1>9, <2>1 DEF Discover, MakesPlan, Ends, ComputePending
<1>10. CASE Fault(r) \/ NoticeLoss(r)
  BY <1>2, <1>5, <1>6, <1>10
     DEF Fault, NoticeLoss, CallFails, CallExpires, MisreadHistory, OutputFails, LoseConnection,
         Hang, Crash, EditFile
<1>11. QED
  BY <1>3, <1>4, <1>7, <1>8, <1>9, <1>10 DEF Step, ClientStep

-----------------------------------------------------------------------------
\* Steps of a rehearsal that work on no file.
LEMMA AheadFrame ==
  ASSUME NEW r \in Runners, Ahead(r), UNCHANGED <<job, dir>>, UNCHANGED <<todo[r], done[r]>>,
         exit'[r] = 0 => exit[r] = 0 \/ todo[r] = {},
         pc'[r] \notin Handling \cup Over => pc[r] \notin Handling \cup Over,
         Live(r)' /\ pc'[r] \in Handling =>
           \/ Live(r) /\ pc[r] \in Handling /\ tx'[r].ddl = tx[r].ddl
           \/ pc[r] \notin Handling \cup Over,
         pc'[r] \in {"exec", "record"} => pc'[r] = pc[r] /\ UNCHANGED <<body[r], at[r]>>
  PROVE  Ahead(r)'
<1>1. /\ Current(r)' = Current(r)
      /\ \A content, kind : Contains(content, kind)' <=> Contains(content, kind)
      /\ \A v : Lone(r, v)' <=> Lone(r, v)
  BY DEF Current, Contains, Lone, Twin
<1>2. tx'[r].ddl = tx[r].ddl =>
        \A content, n : /\ Made(r, content) => Made(r, content)'
                        /\ MadeBefore(r, content, n) => MadeBefore(r, content, n)'
  BY DEF Made, MadeBefore
<1>3. pc'[r] \in {"exec", "record"} => (Ran(r, "create")' <=> Ran(r, "create"))
  BY DEF Ran
<1>4. "exec" \in Handling /\ "record" \in Handling /\ {"exec", "record"} \cap Over = {}
  BY DEF Handling, Over
<1>5. SUFFICES ASSUME DryRuns(r)
               PROVE  Ahead(r)'
  BY DEF Ahead
<1>6. /\ pc'[r] \notin Handling \cup Over => done'[r] = {}
      /\ done'[r] \cap todo'[r] = {}
      /\ exit'[r] = 0 => todo'[r] = {}
      /\ \A v \in done'[r] : Contains(dir'[r][v], "create") => Lone(r, v)'
  BY <1>1, <1>5 DEF Ahead
<1>7. Live(r)' /\ pc'[r] \in Handling => \A v \in done'[r] : Made(r, dir[r][v])'
  BY <1>2, <1>5 DEF Ahead
<1>8. Live(r)' /\ pc'[r] = "exec" =>
        MadeBefore(r, body[r], at[r])' /\ (Ran(r, "create")' => Lone(r, Current(r))')
  BY <1>1, <1>2, <1>3, <1>4, <1>5 DEF Ahead
<1>9. Live(r)' /\ pc'[r] = "record" =>
        Made(r, body[r])' /\ (Contains(body[r], "create")' => Lone(r, Current(r))')
  BY <1>1, <1>2, <1>4, <1>5 DEF Ahead
<1>10. QED
  BY <1>6, <1>7, <1>8, <1>9 DEF Ahead

\* The other steps of a rehearsal: it gets a list, opens a file, executes a statement,
\* comes to the end of a file or records it.
LEMMA QuietRehearsal ==
  ASSUME NoTxControl, ControlInv, OwnInv, OrderInv, NEW r \in Runners, Step(r), DryRuns(r),
         dir' = dir, Ahead(r)
  PROVE  \/ Discover(r) \/ ReadFile(r) \/ RunStatement(r) \/ StatementsDone(r) \/ RecordMigration(r)
         \/ Ahead(r)'
<1> USE DEF ControlInv, ControlOK
<1>1. /\ job' = job /\ Planned(r) /\ Own(r) /\ Ordered(r) /\ ~Applies(r)
      /\ "crashed" \in Over /\ "return" \in Over /\ "done" \in Over /\ "rollback" \in Over
      /\ Handling \cap Over = {} /\ Handling = {"check", "file", "exec", "record"}
      /\ {"idle", "lock", "lockWait", "look", "create", "read", "discover", "begin"}
           \cap (Handling \cup Over) = {}
  BY JobsFixed DEF LoopInv, OwnInv, OrderInv, Over, Handling
<1>2. ASSUME NEW reason, FailsEarly(r, reason) \/ FailsCurrent(r, reason)
      PROVE  pc'[r] \in {"rollback", "return"} /\ exit'[r] = 1 /\ done' = done
  BY <1>2 DEF FailsEarly, FailsCurrent, Fails, AfterLoop
<1>3. CASE \/ Connect(r) \/ RequestLock(r) \/ LockGranted(r) \/ LookTable(r) \/ ReadHistory(r)
           \/ MisreadHistory(r) \/ BeginDryRun(r)
  <2>1. /\ UNCHANGED <<todo, done, exit>> /\ pc[r] \notin Handling \cup Over
        /\ pc'[r] \notin {"exec", "record"}
    BY <1>1, <1>3 DEF Connect, AfterConnect, FirstStatement, RequestLock, LockGranted, LockReturns,
                LookTable, AfterTable, ReadHistory, MisreadHistory, BeginDryRun
  <2>2. QED
    BY <1>1, <2>1, AheadFrame
<1>4. CASE CreateTable(r)
  <2>1. /\ UNCHANGED <<todo, done>> /\ (exit'[r] = exit[r] \/ exit'[r] = 1)
        /\ pc[r] \notin Handling \cup Over /\ pc'[r] \notin {"exec", "record"}
    BY <1>1, <1>2, <1>4 DEF CreateTable, AfterTable
  <2>2. QED
    BY <1>1, <2>1, AheadFrame
<1>5. CASE NotApplied(r)
  <2>1. /\ UNCHANGED <<tx, conn, todo, done, exit>> /\ pc[r] = "check" /\ pc'[r] = "file"
    BY <1>5 DEF NotApplied, dbVars
  <2>2. QED
    BY <1>1, <2>1, AheadFrame
<1>6. CASE \/ RejectFile(r) \/ StatementFails(r) \/ RecordFails(r) \/ LosesDeadlock(r)
  <2>1. \E reason : FailsCurrent(r, reason)
    BY <1>6 DEF RejectFile, StatementFails, RecordFails, LosesDeadlock
  <2>2. UNCHANGED <<todo, done>> /\ pc'[r] \in {"rollback", "return"} /\ exit'[r] = 1
    BY <1>2, <1>6, <2>1 DEF RejectFile, StatementFails, RecordFails, LosesDeadlock
  <2>3. QED
    BY <1>1, <2>2, AheadFrame
<1>7. CASE LoopEnds(r)
  <2>1. UNCHANGED <<todo, done>> /\ pc'[r] \in {"rollback", "return"} /\ todo[r] = {}
    BY <1>7 DEF LoopEnds, Ends, AfterLoop
  <2>2. QED
    BY <1>1, <2>1, AheadFrame
<1>8. CASE Rollback(r) \/ Return(r)
  <2>1. UNCHANGED <<todo, done, exit>> /\ pc'[r] \in {"return", "done"}
    BY <1>8 DEF Rollback, Return
  <2>2. QED
    BY <1>1, <2>1, AheadFrame
<1>9. CASE ServerStep(r)
  <2>1. /\ UNCHANGED <<pc, conn, todo, done, exit, body, at>>
        /\ tx' = tx \/ ~Live(r)
    BY <1>1, <1>9 DEF ServerStep, GrantLock, ServerCommit, ServerDisconnect, Own
  <2>2. QED
    BY <1>1, <2>1, AheadFrame
<1>10. CASE NoticeLoss(r) \/ CallFails(r) \/ CallExpires(r)
  <2>1. HandlesError(r) => \E reason : FailsEarly(r, reason) \/ FailsCurrent(r, reason)
    BY <1>1 DEF HandlesError
  <2>2. /\ UNCHANGED <<todo, done>> /\ pc'[r] \in {"rollback", "return"}
        /\ exit'[r] = 0 => exit[r] = 0
    BY <1>2, <1>10, <2>1 DEF NoticeLoss, CallFails, CallExpires
  <2>3. QED
    BY <1>1, <2>2, AheadFrame
<1>11. CASE OutputFails(r) \/ Crash(r)
  <2>1. /\ UNCHANGED <<todo, done>> /\ pc'[r] \in {"rollback", "return", "crashed"}
        /\ exit'[r] = 0 => exit[r] = 0
    BY <1>2, <1>11 DEF OutputFails, Crash
  <2>2. QED
    BY <1>1, <2>1, AheadFrame
<1>12. CASE LoseConnection(r) \/ Hang(r)
  <2>1. UNCHANGED <<pc, todo, done, exit, body, at>> /\ ~Live(r)'
    BY <1>12 DEF LoseConnection, Hang
  <2>2. QED
    BY <1>1, <2>1, AheadFrame
<1>13. CASE \E v \in Versions, content \in Contents \cup {NoFile} : EditFile(r, v, content)
  <2>1. UNCHANGED <<tx, conn, pc, todo, done, exit, body, at>>
    BY <1>13 DEF EditFile, dbVars
  <2>2. QED
    BY <1>1, <2>1, AheadFrame
<1>14. ~(SkipApplied(r) \/ RunCommit(r) \/ SendCommit(r) \/ CommitReturns(r))
  BY <1>1, NoFileCommits DEF SkipApplied, AlreadyRecorded, SendCommit, CommitReturns, Own
<1>15. QED
  BY <1>3, <1>4, <1>5, <1>6, <1>7, <1>8, <1>9, <1>10, <1>11, <1>12, <1>13, <1>14
     DEF Step, ClientStep, Fault

\* When a rehearsal creates something, no file that makes the same is behind it: neither
\* one that it has run itself, nor one that is recorded.
LEMMA CreatesAlone ==
  ASSUME NoTxControl, ControlInv, KeyInv, HistoryMatchesSchema, ChecksumOfWhatRan,
         NEW r \in Runners, DryRuns(r), Live(r), Locks(r), pc[r] = "exec", MoreStatements(r),
         Fresh(r), Matches(r), Hashed(r), Rehearsed(r), Ahead(r),
         Kind(r) = "create", ~Exists(r, EffectOf(r))
  PROVE  Lone(r, Current(r))
<1>1. SUFFICES ASSUME NEW u \in Versions, u # Current(r), dir[r][u] = dir[r][Current(r)], u \notin todo[r]
               PROVE  FALSE
  BY DEF Lone, Twin
<1>2. /\ dir[r][u] = body[r] /\ body[r] \in Contents /\ InLoop(r) /\ Busy(r)
      /\ at[r] \in DOMAIN Script[body[r]] /\ Script[body[r]][at[r]] = "create"
      /\ at[r] \in Nat
  BY <1>1 DEF Rehearsed, InLoop, Busy, MoreStatements, Kind, ControlInv, ControlOK
<1>3. disc[r][u] # NoSum
  <2>1. disc[r][u] = Checksum(dir[r][u])
    BY <1>2, NoFileAssumption DEF Hashed, DirSums
  <2>2. QED
    BY <1>2, <2>1, SumAssumption DEF Checksums
<1>4. u \in done[r] \/ u \in RecordedVersions
  BY <1>1, <1>2, <1>3 DEF Fresh, Plan, Left
<1>5. CASE u \in done[r]
  <2>1. Made(r, body[r])
    BY <1>2, <1>5 DEF Ahead, Handling
  <2>2. PICK effect \in tx[r].ddl : effect.body = body[r] /\ effect.stmt = at[r]
    BY <1>2, <2>1 DEF Made
  <2>3. QED
    BY <2>2 DEF Exists, Alike, EffectOf
<1>6. CASE u \in RecordedVersions
  <2>1. PICK row \in history : row.version = u
    BY <1>6 DEF RecordedVersions
  <2>2. row.body = body[r]
    BY <1>2, <2>1, RecordedIsMine
  <2> DEFINE effect == [version |-> row.version, body |-> body[r], by |-> row.by, stmt |-> at[r]]
  <2>3. effect \in EffectsOfRow(row)
    BY <1>2, <2>2 DEF EffectsOfRow, EffectsOf, Effective
  <2>4. effect \in schema /\ effect.body = body[r] /\ effect.stmt = at[r]
    BY <2>3 DEF HistoryMatchesSchema
  <2>5. QED
    BY <2>4 DEF Exists, Alike, EffectOf
<1>7. QED
  BY <1>4, <1>5, <1>6

LEMMA AheadStep ==
  ASSUME NoTxControl, ControlInv, KeyInv, OwnInv, BuildInv, HistoryMatchesSchema, OrderInv,
         AllLock, FreshInv, MatchInv, ChecksumOfWhatRan,
         NEW r \in Runners, Step(r), dir' = dir, Rehearsed(r), Hashed(r), Ahead(r)
  PROVE  Ahead(r)'
<1> USE DEF ControlInv, ControlOK
<1>0. SUFFICES ASSUME DryRuns(r)
               PROVE  Ahead(r)'
  BY JobsFixed DEF Ahead
<1>1. /\ job' = job /\ Planned(r) /\ Builds(r) /\ Fresh(r) /\ Matches(r) /\ Ordered(r)
      /\ ~Applies(r) /\ Locks(r)
      /\ tx \in [Runners -> Transactions] /\ tx[r] \in Transactions
  BY <1>0, JobsFixed DEF LoopInv, BuildInv, FreshInv, MatchInv, OrderInv, AllLock, DatabaseTypeOK
<1>a. /\ Handling \cap Over = {} /\ Handling = {"check", "file", "exec", "record"}
      /\ {"discover", "begin", "commit"} \cap (Handling \cup Over) = {} /\ "return" \in Over
      /\ \A content, kind : Contains(content, kind)' <=> Contains(content, kind)
      /\ pc[r] \notin Over => exit[r] = NoExit
  BY <1>1 DEF Handling, Over, Contains, Ordered
<1>2. CASE Discover(r)
  <2>1. /\ pc[r] = "discover" /\ done[r] = {} /\ done' = done /\ todo[r] = {}
    BY <1>1, <1>2 DEF Discover, MakesPlan, Ends, FailsEarly, Ordered, Before, Planned
  <2>2. pc'[r] \in {"begin", "return"} /\ (exit'[r] = 0 => exit[r] = 0 \/ todo'[r] = {})
    BY <1>0, <1>1, <1>a, <1>2, <2>1 DEF Discover, MakesPlan, Ends, FailsEarly, Fails, AfterLoop, HasTx
  <2>3. exit[r] # 0
    BY <1>a, <2>1 DEF NoExit
  <2>4. QED
    BY <1>1, <1>a, <2>1, <2>2, <2>3 DEF Ahead
<1>3. CASE ReadFile(r)
  <2>1. /\ pc[r] = "file" /\ pc'[r] = "exec" /\ UNCHANGED <<conn, todo, done, exit>> /\ tx' = tx
        /\ at'[r] = 1 /\ body'[r] \in Contents
    BY <1>1, <1>3 DEF ReadFile, dbVars
  <2>2. \A i \in DOMAIN Script[body'[r]] : ~(i < at'[r])
    BY <2>1, ScriptAssumption
  <2>3. MadeBefore(r, body[r], at[r])' /\ ~Ran(r, "create")'
    BY <2>2 DEF MadeBefore, Ran
  <2>4. \A v : (Lone(r, v)' <=> Lone(r, v)) /\ (Made(r, dir[r][v])' <=> Made(r, dir[r][v]))
    BY <2>1 DEF Lone, Twin, Made
  <2>5. QED
    BY <1>0, <1>1, <1>a, <2>1, <2>3, <2>4 DEF Ahead
<1>4. CASE RunStatement(r)
  <2>1. /\ pc[r] = "exec" /\ Live(r) /\ MoreStatements(r) /\ Accepted(r)
        /\ UNCHANGED <<pc, conn, todo, done, exit, body>>
        /\ at[r] \in Nat /\ at'[r] = at[r] + 1 /\ Current(r)' = Current(r)
    BY <1>4 DEF RunStatement, Advance, Current
  <2>2. tx'[r].ddl = tx[r].ddl \cup {EffectOf(r)}
    BY <1>1, <1>4 DEF RunStatement, Executed, Execute, Transactions, Builds
  <2>3. /\ EffectOf(r).body = body[r] /\ EffectOf(r).stmt = at[r]
        /\ \A v : Lone(r, v)' <=> Lone(r, v)
        /\ \A content : Made(r, content) => Made(r, content)'
    BY <2>1, <2>2 DEF EffectOf, Lone, Twin, Made
  <2>4. \A i \in DOMAIN Script[body[r]] : i < at'[r] <=> i < at[r] \/ i = at[r]
    <3>1. \A i \in DOMAIN Script[body[r]] : i \in Int
      BY <1>1, <2>1, ScriptAssumption DEF Planned
    <3>2. \A i \in Int, n \in Nat : i < n + 1 <=> i < n \/ i = n
      OBVIOUS
    <3>3. QED
      BY <2>1, <3>1, <3>2
  <2>5. MadeBefore(r, body[r], at[r])'
    <3>1. MadeBefore(r, body[r], at[r])
      BY <1>0, <2>1 DEF Ahead
    <3>2. QED
      BY <2>1, <2>2, <2>3, <2>4, <3>1 DEF MadeBefore
  <2>6. Ran(r, "create")' => Lone(r, Current(r))
    <3>1. Ran(r, "create")' => Ran(r, "create") \/ Kind(r) = "create"
      BY <2>1, <2>4 DEF Ran, Kind
    <3>2. Kind(r) = "create" => Lone(r, Current(r))
      BY <1>0, <1>1, <2>1, CreatesAlone DEF Accepted
    <3>3. QED
      BY <1>0, <2>1, <3>1, <3>2 DEF Ahead
  <2>7. QED
    BY <1>0, <1>1, <1>a, <2>1, <2>3, <2>5, <2>6 DEF Ahead
<1>5. CASE StatementsDone(r)
  <2>1. /\ pc[r] = "exec" /\ pc'[r] = "record" /\ ~MoreStatements(r)
        /\ UNCHANGED <<tx, conn, todo, done, exit, body>> /\ Current(r)' = Current(r)
    BY <1>5 DEF StatementsDone, Current, dbVars
  <2>2. \A i \in DOMAIN Script[body[r]] : i < at[r]
    <3>1. PICK n \in Nat : DOMAIN Script[body[r]] = 1..n
      BY <1>1, <2>1, ScriptAssumption DEF Planned
    <3>2. at[r] \in Nat \ {0} /\ at[r] > n
      BY <1>1, <2>1, <3>1 DEF Planned, MoreStatements
    <3>3. QED
      BY <3>1, <3>2
  <2>3. /\ Contains(body[r], "create") => Ran(r, "create")
        /\ MadeBefore(r, body[r], at[r]) => Made(r, body[r])
    BY <2>2 DEF Contains, Ran, MadeBefore, Made
  <2>4. \A v, content : (Lone(r, v)' <=> Lone(r, v)) /\ (Made(r, content)' <=> Made(r, content))
    BY <2>1 DEF Lone, Twin, Made
  <2>5. QED
    BY <1>0, <1>1, <1>a, <2>1, <2>3, <2>4 DEF Ahead
<1>6. CASE RecordMigration(r)
  <2> DEFINE c == Current(r)
  <2>1. /\ pc[r] = "record" /\ Live(r) /\ pc'[r] = "check" /\ UNCHANGED <<conn, exit>>
        /\ done'[r] = done[r] \cup {c} /\ todo'[r] = todo[r] \ {c} /\ c \in todo[r]
        /\ body[r] = dir[r][c]
    BY <1>1, <1>6, CurrentIsPending
       DEF RecordMigration, AfterRecord, Finishes, Others, Planned, Rehearsed
  <2>2. tx'[r].ddl = tx[r].ddl
    BY <1>1, <1>6 DEF RecordMigration, Recorded, Insert, Transactions
  <2>3. /\ \A content : Made(r, content)' <=> Made(r, content)
        /\ Made(r, body[r]) /\ (Contains(body[r], "create") => Lone(r, c))
        /\ \A v \in done[r] : Made(r, dir[r][v]) /\ (Contains(dir[r][v], "create") => Lone(r, v))
        /\ done[r] \cap todo[r] = {}
    <3>1. \A content : Made(r, content)' <=> Made(r, content)
      BY <2>2 DEF Made
    <3>2. Made(r, body[r]) /\ (Contains(body[r], "create") => Lone(r, c))
      BY <1>0, <2>1 DEF Ahead
    <3>3. /\ \A v \in done[r] : Made(r, dir[r][v]) /\ (Contains(dir[r][v], "create") => Lone(r, v))
          /\ done[r] \cap todo[r] = {}
      BY <1>0, <1>a, <2>1 DEF Ahead
    <3>4. QED
      BY <3>1, <3>2, <3>3
  <2>a. exit'[r] # 0
    BY <1>a, <2>1 DEF NoExit
  <2> HIDE DEF c
  <2>4. ASSUME NEW v \in done'[r], Contains(dir[r][v], "create")
        PROVE  Lone(r, v)'
    <3>1. SUFFICES ASSUME NEW u \in Versions, u # v, dir[r][u] = dir[r][v]
                   PROVE  u \in todo'[r]
      BY DEF Lone, Twin
    <3>2. Lone(r, v)
      BY <2>1, <2>3, <2>4
    <3>3. u \in todo[r]
      BY <3>1, <3>2 DEF Lone, Twin
    <3>4. u # c
      <4>1. SUFFICES ASSUME u = c
                     PROVE  FALSE
        OBVIOUS
      <4>2. v \in done[r] /\ v \in Versions /\ Contains(dir[r][c], "create")
        BY <2>1, <2>4, <3>1, <4>1
      <4>3. v \in todo[r]
        BY <2>1, <2>3, <3>1, <4>1, <4>2 DEF Lone, Twin
      <4>4. QED
        BY <2>3, <4>2, <4>3
    <3>5. QED
      BY <2>1, <3>3, <3>4
  <2>5. QED
    BY <1>0, <1>a, <2>1, <2>3, <2>4, <2>a DEF Ahead
<1>7. QED
  BY <1>0, <1>2, <1>3, <1>4, <1>5, <1>6, QuietRehearsal

-----------------------------------------------------------------------------
\* Nothing is recorded, rehearsed or blamed at the start.
LEMMA InitForetells == Init => FilesInv /\ MatchInv /\ AheadInv /\ BlameInv
<1>1. Init => FilesInv
  BY DEF Init, DatabaseInit, NoTx, FilesInv, ChecksumOfWhatRan, Hashed, Busy, InLoop
<1>2. Init => MatchInv
  BY DEF Init, DatabaseInit, MatchInv, Matches, Busy, InLoop
<1>3. Init => AheadInv
  BY DEF Init, AheadInv, Ahead, Handling, Over, NoExit
<1>4. Init => BlameInv
  BY DEF Init, BlameInv, Blame
<1>5. QED
  BY <1>1, <1>2, <1>3, <1>4

\* What Ahead and Blame say of s depends on its own variables only.
LEMMA ForetellsFrame ==
  ASSUME NEW s, Ahead(s), Blame(s), UNCHANGED <<job, dir>>,
         UNCHANGED <<pc[s], conn[s], body[s], at[s], todo[s], done[s], failed[s], why[s],
                     exit[s], tx[s]>>
  PROVE  Ahead(s)' /\ Blame(s)'
<1>1. /\ \A content, kind : Contains(content, kind)' <=> Contains(content, kind)
      /\ \A content : Sound(content)' <=> Sound(content)
      /\ \A u, v : Twin(s, u, v)' <=> Twin(s, u, v)
  BY DEF Contains, Sound, Twin
<1>2. Blame(s)'
  BY <1>1 DEF Blame
<1>3. /\ \A v : Lone(s, v)' <=> Lone(s, v)
      /\ \A content, n : /\ Made(s, content)' <=> Made(s, content)
                         /\ MadeBefore(s, content, n)' <=> MadeBefore(s, content, n)
      /\ Ran(s, "create")' <=> Ran(s, "create")
      /\ Current(s)' = Current(s)
  BY <1>1 DEF Lone, Made, MadeBefore, Ran, Current
<1>4. Ahead(s)'
  BY <1>1, <1>3 DEF Ahead
<1>5. QED
  BY <1>2, <1>4

\* Each runner keeps them, and the others neither rehearse nor fail for it.
LEMMA StepForetells ==
  ASSUME NoTxControl
  PROVE  ControlInv /\ LockInv /\ OwnInv /\ ResultInv /\ AtomicInv /\ OrderInv /\ LeaveNothing
           /\ RehearsedInv /\ FreshInv /\ FilesInv /\ MatchInv /\ AheadInv /\ BlameInv
           /\ [Next]_vars => AheadInv' /\ BlameInv'
<1> SUFFICES ASSUME ControlInv, LockInv, OwnInv, ResultInv, AtomicInv, OrderInv, LeaveNothing,
                    RehearsedInv, FreshInv, FilesInv, MatchInv, AheadInv, BlameInv, [Next]_vars,
                    edits' = 0, AllLock', NEW s \in Runners
             PROVE  Ahead(s)' /\ Blame(s)'
  BY DEF AheadInv, BlameInv
<1>1. CASE UNCHANGED vars
  <2>1. edits = 0 /\ AllLock
    BY <1>1 DEF vars, AllLock, Locks
  <2>2. QED
    BY <1>1, <2>1, ForetellsFrame DEF vars, dbVars, AheadInv, BlameInv
<1>2. ASSUME NEW r \in Runners, Step(r)
      PROVE  Ahead(s)' /\ Blame(s)'
  <2>1. dir' = dir /\ edits = 0 /\ job' = job
    BY <1>2, DirsFixed, JobsFixed
  <2>2. /\ AllLock /\ Ahead(s) /\ Blame(s) /\ ChecksumOfWhatRan
        /\ \A x \in Runners : Hashed(x) /\ Rehearsed(x)
        /\ BuildInv /\ KeyInv /\ HistoryMatchesSchema
    BY <2>1 DEF AllLock, Locks, AheadInv, BlameInv, FilesInv, RehearsedInv, AtomicInv
  <2>3. CASE r = s
    BY <1>2, <2>1, <2>2, <2>3, AheadStep, BlameStep
  <2>4. CASE r # s
    <3>1. UNCHANGED <<pc[s], conn[s], body[s], at[s], todo[s], done[s], failed[s], why[s],
                      exit[s], tx[s]>>
      BY <1>2, <2>4, StepIsLocal, ResultIsLocal
    <3>2. QED
      BY <2>1, <2>2, <3>1, ForetellsFrame
  <2>5. QED
    BY <2>3, <2>4
<1>3. QED
  BY <1>1, <1>2, NextIsStep

\* The invariants of this section, for every behaviour.
LEMMA ForetellsInvariant ==
  ASSUME NoTxControl, Misled = {}
  PROVE  Spec => [](RehearsedInv /\ AheadInv /\ BlameInv)
<1>1. ControlInv /\ LockInv /\ OwnInv /\ ResultInv /\ OrderInv /\ FreshInv
        /\ [Next]_vars => FreshInv'
  BY StepFresh
<1>2. ControlInv /\ AtomicInv /\ [Next]_vars => AtomicInv'
  BY StepAtomic
<1>3. ControlInv /\ LockInv /\ OwnInv /\ ResultInv /\ AtomicInv /\ OrderInv /\ LeaveNothing
        /\ RehearsedInv /\ FreshInv /\ FilesInv /\ MatchInv /\ AheadInv /\ BlameInv
        /\ [Next]_vars => AheadInv' /\ BlameInv'
  BY StepForetells
<1>4. QED
  BY <1>1, <1>2, <1>3, InitForetells, StepFiles, StepMatches, InitAtomic, LeavesNothing,
     InitOrder, StepOrder, InitFresh, InitLock, StepLock, RehearsedInvariant, PTL DEF Spec

\* What a rehearsal foretells, for any number of runners and whatever fails, if no file
\* has a COMMIT of its own: where everybody locks and nobody mistakes an error for an
\* empty history, an apply of the same directory fails on no rehearsed file, unless at
\* its COMMIT, at its record or because a call is lost; elsewhere also as the victim of
\* a deadlock, or at a statement if something that the file makes is there already.
THEOREM RehearsalsForetell ==
  ASSUME NoTxControl
  PROVE  Spec => []RehearsalForetells
<1>1. ASSUME RehearsedInv, AllLock /\ Misled = {} => AheadInv /\ BlameInv
      PROVE  RehearsalForetells
  <2> SUFFICES ASSUME NEW d \in Runners, NEW a \in Runners, DryRuns(d), exit[d] = 0, Applies(a),
                      dir[a] = dir[d], edits = 0, NEW v \in failed[a] \cap done[d],
                      why[a] \notin {"commit", "record", "call"}
               PROVE  /\ ~AllLock \/ SomeCommit \/ Misled # {}
                      /\ \/ why[a] = "deadlock"
                         \/ why[a] = "statement" /\ \E effect \in schema : effect.body = dir[a][v]
    BY DEF RehearsalForetells
  <2>1. Sound(dir[a][v]) /\ NotItsFault(a, v)
    BY <1>1 DEF RehearsedInv, Rehearsed
  <2>2. why[a] = "deadlock" \/ (why[a] = "statement" /\ Present(dir[a][v]))
    BY <2>1 DEF NotItsFault
  <2>3. ASSUME AllLock, Misled = {}
        PROVE  FALSE
    <3>1. Ahead(d) /\ Blame(a)
      BY <1>1, <2>3 DEF AheadInv, BlameInv
    <3>2. Contains(dir[a][v], "create") /\ \E u \in Versions : Twin(a, u, v)
      BY <2>1, <2>2, <3>1 DEF Blame
    <3>3. Lone(d, v) /\ todo[d] = {}
      BY <3>1, <3>2 DEF Ahead
    <3>4. QED
      BY <3>2, <3>3 DEF Lone, Twin
  <2>4. QED
    BY <2>2, <2>3 DEF Present
<1>2. CASE Misled = {}
  <2>1. RehearsedInv /\ AheadInv /\ BlameInv => RehearsalForetells
    BY <1>1
  <2>2. QED
    BY <1>2, <2>1, ForetellsInvariant, PTL
<1>3. CASE Misled # {}
  <2>1. RehearsedInv => RehearsalForetells
    BY <1>1, <1>3
  <2>2. QED
    BY <2>1, RehearsedInvariant, PTL
<1>4. QED
  BY <1>2, <1>3
=============================================================================
