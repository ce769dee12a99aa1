--------------------------- MODULE OutcomeProofs ---------------------------
(***************************************************************************)
(* What the commands report and leave behind: three more layers of         *)
(* invariants on top of ControlInv and KeyInv of RunnerProofs.  OwnInv     *)
(* says what the transaction of a runner may contain and when it may be    *)
(* committed, ResultInv relates the history to the result of the runner    *)
(* that wrote it, RehearsedInv the statements a runner has executed to its *)
(* files.  All three hold whatever the files contain; where a theorem      *)
(* needs that no file has a COMMIT of its own, it says so.                 *)
(***************************************************************************)
EXTENDS RunnerProofs

USE DEF command, inputs, loop, result, Goto, Live, Applies, DryRuns

\* r has not got as far as its loop.
Before(r) ==
  \/ pc[r] \in {"idle", "lock", "lockWait", "read", "discover", "begin"}
  \/ ~DryRuns(r) /\ pc[r] \in {"look", "create"}

\* Where a loop has a file in hand, but has not recorded it.
Handling == {"check", "file", "exec", "record"}

\* Before its loop r has no transaction; only apply gets to a COMMIT; the rows in
\* its transaction are its own, those on their way to COMMIT the current file's,
\* those of a rehearsal of files it has left; the rehearsal makes the table inside
\* its transaction; and where a file's COMMIT has ended the transaction, nothing is
\* in it.
Own(r) ==
  /\ Before(r) => tx[r].st = "none" /\ tx[r].rows = {}
  /\ pc[r] \in {"commit", "commitWait"} => Applies(r)
  /\ tx[r].st \in {"committing", "committed"} =>
       Applies(r) /\ pc[r] \in {"commitWait", "return", "done", "crashed"}
  /\ DryRuns(r) /\ Live(r) /\ pc[r] \in {"look", "create"} => tx[r].st = "open"
  /\ tx[r].st = "auto" => ~NoTxControl /\ tx[r].rows = {}
  /\ \A row \in tx[r].rows : row.by = r /\ row.sum = disc[r][row.version]
  /\ pc[r] \in {"commit", "commitWait"} =>
       \A row \in tx[r].rows : row.version = Current(r)
  /\ Applies(r) /\ pc[r] \in Handling => tx[r].rows = {}
  /\ DryRuns(r) => \A row \in tx[r].rows : row.version \notin todo[r]

OwnInv == \A r \in Runners : Own(r)

-----------------------------------------------------------------------------
\* A step of r leaves the result of the others alone, too.
LEMMA ResultIsLocal ==
  ASSUME ControlInv, NEW r \in Runners, Step(r), NEW s \in Runners \ {r}
  PROVE  /\ disc'[s] = disc[s] /\ seen'[s] = seen[s] /\ done'[s] = done[s]
         /\ failed'[s] = failed[s] /\ why'[s] = why[s] /\ exit'[s] = exit[s]
<1> USE DEF ControlInv, ControlOK
<1> DEFINE Same == /\ disc'[s] = disc[s] /\ seen'[s] = seen[s] /\ done'[s] = done[s]
                   /\ failed'[s] = failed[s] /\ why'[s] = why[s] /\ exit'[s] = exit[s]
           SameResult == /\ done'[s] = done[s] /\ failed'[s] = failed[s]
                         /\ why'[s] = why[s] /\ exit'[s] = exit[s]
<1>1. ASSUME NEW reason, FailsEarly(r, reason) \/ FailsCurrent(r, reason)
      PROVE  SameResult
  BY <1>1 DEF FailsEarly, FailsCurrent, Fails
<1>2. HandlesError(r) => SameResult
  BY <1>1 DEF HandlesError
<1>3. ASSUME Connect(r) \/ ServerStep(r) \/ Fault(r)
      PROVE  Same
  BY <1>1, <1>2, <1>3
     DEF Connect, ServerStep, ServerDisconnect, Fault, CallFails, CallExpires,
         MisreadHistory, OutputFails, LoseConnection, Hang, Crash, EditFile
<1>4. ASSUME \/ RequestLock(r) \/ LockGranted(r) \/ LookTable(r) \/ CreateTable(r)
             \/ ReadHistory(r) \/ BeginDryRun(r)
      PROVE  Same
  BY <1>1, <1>4 DEF RequestLock, LockGranted, LookTable, CreateTable, ReadHistory, BeginDryRun
<1>5. ASSUME Discover(r)
      PROVE  Same
  BY <1>1, <1>5 DEF Discover, MakesPlan, Ends
<1>6. ASSUME LoopEnds(r) \/ SkipApplied(r) \/ NotApplied(r) \/ RejectFile(r) \/ ReadFile(r)
      PROVE  Same
  BY <1>1, <1>6 DEF LoopEnds, Ends, SkipApplied, NotApplied, RejectFile, ReadFile
<1>7. ASSUME RunStatement(r) \/ RunCommit(r) \/ StatementFails(r) \/ StatementsDone(r)
      PROVE  Same
  BY <1>1, <1>7 DEF RunStatement, RunCommit, StatementFails, StatementsDone
<1>8. ASSUME \/ RecordMigration(r) \/ RecordFails(r) \/ LosesDeadlock(r) \/ SendCommit(r)
             \/ CommitReturns(r)
      PROVE  Same
  BY <1>1, <1>8
     DEF RecordMigration, AfterRecord, Finishes, RecordFails, LosesDeadlock, SendCommit,
         CommitReturns
<1>9. ASSUME Rollback(r) \/ Return(r) \/ NoticeLoss(r)
      PROVE  Same
  BY <1>2, <1>9 DEF Rollback, Return, NoticeLoss
<1>10. QED
  BY <1>3, <1>4, <1>5, <1>6, <1>7, <1>8, <1>9 DEF Step, ClientStep

\* Steps that leave the loop's variables alone, do not lead to COMMIT or back
\* before the loop, and keep the transaction or end it.
LEMMA OwnFrame ==
  ASSUME OwnInv, NEW r \in Runners,
         UNCHANGED <<job, todo, disc>>,
         tx'[r] = tx[r] \/ (tx'[r].st \notin {"committing", "committed", "auto"} /\ tx'[r].rows = {}),
         Before(r)' => Before(r) /\ tx'[r] = tx[r],
         pc'[r] \in {"commit", "commitWait"} => pc'[r] = pc[r],
         Applies(r) /\ pc'[r] \in Handling => pc[r] \in Handling,
         tx[r].st \in {"committing", "committed"} /\ tx'[r] = tx[r] =>
           pc[r] = pc'[r] \/ pc'[r] \in {"return", "done", "crashed"},
         DryRuns(r) /\ Live(r)' /\ pc'[r] \in {"look", "create"} =>
           tx'[r].st = "open" \/ (Live(r) /\ pc[r] \in {"look", "create"} /\ tx'[r] = tx[r])
  PROVE  Own(r)'
BY DEF OwnInv, Own, Before, Current, Handling

\* Without a COMMIT in a file, RunCommit does not happen.
LEMMA NoFileCommits ==
  ASSUME NoTxControl, ControlInv, NEW r \in Runners
  PROVE  ~RunCommit(r)
BY DEF ControlInv, LoopInv, Planned, RunCommit, Kind, MoreStatements, NoTxControl

\* One step per action: what it does to the transaction of its runner.
LEMMA OwnStep ==
  ASSUME ControlInv, OwnInv, NEW r \in Runners, Step(r)
  PROVE  Own(r)'
<1> USE DEF ControlInv, ControlOK
<1>1. /\ job' = job /\ Planned(r) /\ Own(r)
      /\ tx \in [Runners -> Transactions] /\ tx[r] \in Transactions
  BY JobsFixed DEF LoopInv, DatabaseTypeOK, OwnInv
<1>2. CASE Connect(r) \/ RequestLock(r) \/ LockGranted(r) \/ LookTable(r) \/ ReadHistory(r)
           \/ MisreadHistory(r) \/ NotApplied(r)
  <2>1. UNCHANGED <<tx, todo, disc>> /\ pc' = [pc EXCEPT ![r] = pc'[r]]
    BY <1>2 DEF Connect, OpenSession, RequestLock, AskLock, LockGranted, LookTable,
                ReadHistory, MisreadHistory, NotApplied, dbVars
  <2>2. /\ pc'[r] \notin {"commit", "commitWait"}
        /\ Before(r)' => Before(r)
        /\ Applies(r) /\ pc'[r] \in Handling => pc[r] \in Handling
        /\ pc[r] \notin {"commitWait", "return", "done", "crashed"}
        /\ DryRuns(r) /\ pc'[r] \in {"look", "create"} => Live(r) /\ pc[r] \in {"look", "create"}
    BY <1>1, <1>2 DEF Connect, AfterConnect, Locks, FirstStatement, RequestLock, LockGranted,
                LockReturns, LookTable, AfterTable, ReadHistory, MisreadHistory, NotApplied, Before,
                Handling
  <2>3. QED
    BY <1>1, <2>1, <2>2, OwnFrame DEF Own, Handling
<1>3. CASE CreateTable(r)
  <2>1. pc[r] = "create" /\ Live(r) /\ UNCHANGED <<todo, disc>>
    BY <1>3 DEF CreateTable
  <2>2. \/ MakeTable(r) /\ pc'[r] = AfterTable(r)
        \/ Refuse(r) /\ pc'[r] = AfterLoop(r)
    BY <1>3 DEF CreateTable, FailsEarly, Fails
  <2>3. tx'[r].st = tx[r].st /\ tx'[r].rows = tx[r].rows
    BY <1>1, <2>2 DEF MakeTable, Refuse, Transactions
  <2>4. /\ pc'[r] \in {"check", "read", "rollback", "return"} /\ (Before(r)' => Before(r))
        /\ Applies(r) => pc'[r] # "check"
    BY <1>1, <2>1, <2>2 DEF AfterTable, AfterLoop, Before
  <2>5. QED
    BY <1>1, <2>1, <2>3, <2>4 DEF Own, Handling
<1>4. CASE Discover(r)
  <2>1. pc[r] = "discover" /\ tx' = tx /\ pc'[r] \in {"begin", "check", "return"}
    BY <1>4 DEF Discover, MakesPlan, FailsEarly, Fails, Ends, AfterLoop, HasTx, dbVars
  <2>2. QED
    BY <1>1, <2>1 DEF Own, Before, Handling
<1>5. CASE BeginDryRun(r)
  <2>1. /\ pc[r] = "begin" /\ pc'[r] = "look" /\ UNCHANGED <<todo, disc>>
        /\ tx'[r].st = "open" /\ tx'[r].rows = {}
    BY <1>1, <1>5 DEF BeginDryRun, Begin, OpenTx, NoTx
  <2>2. DryRuns(r)
    BY <1>1, <2>1 DEF Planned
  <2>3. QED
    BY <1>1, <2>1, <2>2 DEF Own, Before, Handling
<1>6. CASE LoopEnds(r) \/ RejectFile(r) \/ StatementsDone(r)
  <2>1. /\ UNCHANGED <<tx, todo, disc, conn>>
        /\ pc[r] \in {"check", "file", "exec"} /\ pc'[r] \in {"record", "rollback", "return"}
    BY <1>6 DEF LoopEnds, Ends, RejectFile, FailsCurrent, Fails, AfterLoop, StatementsDone,
                dbVars
  <2>2. QED
    BY <1>1, <2>1, OwnFrame DEF Own, Before, Handling
<1>7. CASE SkipApplied(r)
  <2>1. UNCHANGED <<tx, pc, conn, disc>> /\ pc[r] = "check" /\ todo'[r] \subseteq todo[r]
    BY <1>7 DEF SkipApplied, Others, dbVars
  <2>2. QED
    BY <1>1, <2>1 DEF Own, Before, Handling
<1>8. CASE ReadFile(r)
  <2>1. UNCHANGED <<todo, disc, conn>> /\ pc[r] = "file" /\ pc'[r] = "exec"
    BY <1>8 DEF ReadFile
  <2>2. tx' = tx \/ (tx'[r].st = "open" /\ tx'[r].rows = {})
    BY ZenonT(40), <1>1, <1>8 DEF ReadFile, Begin, OpenTx, NoTx, dbVars
  <2>3. QED
    BY <1>1, <2>1, <2>2 DEF Own, Before, Handling
<1>9. CASE RunStatement(r)
  <2>1. UNCHANGED <<pc, todo, disc, conn>> /\ pc[r] = "exec"
        /\ Execute(r, EffectOf(r), Kind(r) = "deferred")
    BY <1>9 DEF RunStatement, Executed
  <2>2. tx'[r].st = tx[r].st /\ tx'[r].rows = tx[r].rows
    BY <1>1, <2>1 DEF Execute, Transactions
  <2>3. QED
    BY <1>1, <2>1, <2>2 DEF Own, Before, Handling
<1>10. CASE RunCommit(r)
  <2>1. UNCHANGED <<pc, todo, disc, conn>> /\ pc[r] = "exec" /\ ~NoTxControl
    BY <1>10, NoFileCommits DEF RunCommit
  <2>2. CASE Publish(r, "auto")
    <3>1. tx'[r].st = "auto" /\ tx'[r].rows = {}
      BY <1>1, <2>2 DEF Publish, NoTx
    <3>2. QED
      BY <1>1, <2>1, <3>1 DEF Own, Before, Handling
  <2>3. CASE tx' = tx
    BY <1>1, <2>1, <2>3 DEF Own, Before, Current
  <2>4. QED
    BY <1>10, <2>2, <2>3 DEF RunCommit, dbVars
<1>11. CASE StatementFails(r) \/ RecordFails(r) \/ LosesDeadlock(r)
  <2>1. /\ UNCHANGED <<todo, disc, conn>> /\ pc[r] \in {"exec", "record"}
        /\ pc'[r] \in {"rollback", "return"}
    BY <1>11, VictimWaits
       DEF StatementFails, RecordFails, LosesDeadlock, FailsCurrent, Fails, AfterLoop
  <2>2. CASE Refuse(r)
    <3>1. tx'[r].st = tx[r].st /\ tx'[r].rows = tx[r].rows
      BY <1>1, <2>2 DEF Refuse, Transactions
    <3>2. QED
      BY <1>1, <2>1, <3>1 DEF Own, Before, Handling
  <2>3. CASE Discard(r, "none")
    <3>1. tx'[r].st = "none" /\ tx'[r].rows = {}
      BY <1>1, <2>3 DEF Discard, NoTx
    <3>2. QED
      BY <1>1, <2>1, <3>1 DEF Own, Before, Handling
  <2>4. QED
    BY <1>11, <2>2, <2>3 DEF StatementFails, RecordFails, LosesDeadlock
<1>12. CASE RecordMigration(r)
  <2>1. /\ pc[r] = "record" /\ Live(r) /\ UNCHANGED <<disc, conn>>
        /\ Insert(r, RowFor(r)) /\ Current(r) \in todo[r]
    BY <1>1, <1>12, CurrentIsPending DEF RecordMigration, Recorded, Planned
  <2>2. /\ tx'[r].st = tx[r].st
        /\ \/ tx[r].st = "open" /\ tx'[r].rows = tx[r].rows \cup {RowFor(r)}
           \/ tx[r].st = "auto" /\ tx'[r].rows = tx[r].rows
    BY <1>1, <2>1 DEF Insert, Transactions
  <2>3. RowFor(r).by = r /\ RowFor(r).version = Current(r)
        /\ RowFor(r).sum = disc[r][RowFor(r).version]
    BY DEF RowFor
  <2>4. CASE DryRuns(r) /\ Finishes(r) /\ pc'[r] = "check"
    <3>1. todo'[r] = todo[r] \ {Current(r)}
      BY <2>4 DEF Finishes, Others
    <3>2. QED
      BY <1>1, <2>1, <2>2, <2>3, <2>4, <3>1 DEF Own, Before, Handling
  <2>5. CASE Applies(r) /\ pc'[r] = "commit" /\ todo' = todo
    <3>1. tx[r].rows = {}
      BY <1>1, <2>1, <2>5 DEF Own, Handling
    <3>2. Current(r)' = Current(r)
      BY <2>5 DEF Current
    <3>3. QED
      BY <1>1, <2>1, <2>2, <2>3, <2>5, <3>1, <3>2 DEF Own, Before, Handling
  <2>6. QED
    BY <1>12, <2>4, <2>5 DEF RecordMigration, AfterRecord
<1>13. CASE SendCommit(r)
  <2>1. /\ UNCHANGED <<todo, disc, conn>> /\ pc[r] = "commit" /\ pc'[r] = "commitWait"
        /\ AskCommit(r)
    BY <1>13 DEF SendCommit
  <2>2. tx'[r].st = "committing" /\ tx'[r].rows = tx[r].rows
    BY <1>1, <2>1 DEF AskCommit, Transactions
  <2>3. Current(r)' = Current(r)
    BY <2>1 DEF Current
  <2>4. QED
    BY <1>1, <2>1, <2>2, <2>3 DEF Own, Before, Handling
<1>14. CASE CommitReturns(r) \/ Rollback(r) \/ Return(r) \/ ServerDisconnect(r)
  <2>1. /\ disc' = disc
        /\ \/ /\ pc[r] \in {"commitWait", "rollback", "return"}
              /\ pc'[r] \in {"check", "return", "done"}
           \/ pc' = pc /\ ~Live(r) /\ conn' = conn /\ todo' = todo
    BY <1>14 DEF CommitReturns, FailsCurrent, Fails, AfterLoop, HasTx, Rollback, Return,
                 ServerDisconnect
  <2>2. /\ tx' = tx \/ (tx'[r].st = "none" /\ tx'[r].rows = {})
        /\ CommitReturns(r) \/ ServerDisconnect(r) =>
             tx'[r].st = "none" /\ tx'[r].rows = {}
    <3>1. ASSUME Discard(r, "none") \/ EndSession(r)
          PROVE  tx'[r].st = "none" /\ tx'[r].rows = {}
      <4>1. CASE Discard(r, "none")
        BY <1>1, <4>1 DEF Discard, NoTx
      <4>2. CASE EndSession(r)
        BY <1>1, <4>2 DEF EndSession, NoTx
      <4>3. QED
        BY <3>1, <4>1, <4>2
    <3>2. QED
      BY <1>14, <3>1 DEF CommitReturns, Rollback, Return, ServerDisconnect, dbVars
  <2>3. Rollback(r) \/ Return(r) =>
          pc'[r] \in {"return", "done"} /\ todo' = todo
    BY DEF Rollback, Return
  <2>4. QED
    BY <1>1, <1>14, <2>1, <2>2, <2>3 DEF Own, Before, Handling
<1>15. CASE ServerCommit(r) /\ UNCHANGED <<pc, command, conn, inputs, loop, result>>
  <2>1. tx[r].st = "committing" /\ tx'[r].st \in {"committed", "refused"} /\ tx'[r].rows = {}
    BY SMTT(30), <1>1, <1>15 DEF ServerCommit, Publish, Discard, NoTx
  <2>2. QED
    BY <1>1, <1>15, <2>1 DEF Own, Before, Handling
<1>16. CASE NoticeLoss(r) \/ CallFails(r) \/ CallExpires(r)
  <2>1. UNCHANGED <<tx, todo, disc>> /\ (Live(r)' => Live(r))
    BY <1>16 DEF NoticeLoss, CallFails, CallExpires, dbVars
  <2>2. \/ HandlesError(r)
        \/ pc[r] = "rollback" /\ pc'[r] = "return"
    BY <1>16 DEF NoticeLoss, CallFails, CallExpires
  <2>3. \/ pc'[r] \in {"rollback", "return"} /\ (pc[r] = "commitWait" => pc'[r] = "return")
        \/ pc[r] = "check" /\ pc'[r] = "file"
        \/ pc[r] = "rollback" /\ pc'[r] = "return"
    <3>1. CASE pc' = [pc EXCEPT ![r] = AfterLoop(r)]
      BY <3>1 DEF AfterLoop, HasTx
    <3>2. QED
      BY <2>2, <3>1, HandlesErrorTyped
  <2>4. Before(r)' => FALSE
    BY <2>3 DEF Before
  <2>5. pc'[r] \notin {"commit", "commitWait"} /\ pc[r] \notin {"return", "done", "crashed"}
    BY <2>2, <2>3 DEF HandlesError
  <2>6. QED
    BY <1>1, <2>1, <2>3, <2>4, <2>5, OwnFrame DEF Own, Handling
<1>17. CASE LoseConnection(r) \/ Hang(r) \/ Crash(r) \/ OutputFails(r)
  <2>1. /\ UNCHANGED <<tx, todo, disc>> /\ (Live(r)' => Live(r))
        /\ \/ pc' = pc
           \/ pc'[r] = "crashed"
           \/ pc[r] = "return" /\ pc'[r] = "return"
    BY <1>17 DEF LoseConnection, Hang, Crash, OutputFails, FailsEarly, Fails, AfterLoop,
                 HasTx, dbVars
  <2>2. QED
    BY <1>1, <2>1, OwnFrame DEF Own, Before, Handling
<1>18. CASE /\ UNCHANGED <<pc, conn, loop, inputs, tx>>
            /\ \/ GrantLock(r)
               \/ \E v \in Versions, content \in Contents \cup {NoFile} : EditFile(r, v, content)
  BY <1>1, <1>18, OwnFrame DEF Own, Before, Handling
<1>19. QED
  BY <1>2, <1>3, <1>4, <1>5, <1>6, <1>7, <1>8, <1>9, <1>10, <1>11, <1>12, <1>13, <1>14,
     <1>15, <1>16, <1>17, <1>18
     DEF Step, ClientStep, ServerStep, Fault, GrantLock, EditFile, dbVars

\* Nobody has a transaction at the start ...
LEMMA InitOwn == Init => OwnInv
BY DEF Init, DatabaseInit, NoTx, OwnInv, Own, Before

\* ... and each keeps to its own.
LEMMA StepOwn == ControlInv /\ OwnInv /\ [Next]_vars => OwnInv'
<1> SUFFICES ASSUME ControlInv, OwnInv, [Next]_vars, NEW s \in Runners
             PROVE  Own(s)'
  BY DEF OwnInv
<1>1. CASE UNCHANGED vars
  BY <1>1 DEF vars, dbVars, OwnInv, Own, Before, Current
<1>2. ASSUME NEW r \in Runners, Step(r)
      PROVE  Own(s)'
  <2>1. CASE r = s
    BY <1>2, <2>1, OwnStep
  <2>2. CASE r # s
    BY <1>2, <2>2, StepIsLocal, ResultIsLocal, JobsFixed DEF OwnInv, Own, Before, Current
  <2>3. QED
    BY <2>1, <2>2
<1>3. QED
  BY <1>1, <1>2, NextIsStep

\* Rows are never removed; those that a step adds are its runner's, with the
\* checksum it discovered; and they come from a transaction of its.
LEMMA NewRows ==
  ASSUME ControlInv, OwnInv, NEW r \in Runners, Step(r)
  PROVE  /\ history \subseteq history'
         /\ \A row \in history' \ history : row.by = r /\ row.sum = disc[r][row.version]
         /\ history' # history => tx[r].st # "none"
<1>1. \A row \in tx[r].rows \cup {RowFor(r)} : row.by = r /\ row.sum = disc[r][row.version]
  BY DEF OwnInv, Own, RowFor
<1>2. RunCommit(r) \/ Commits(r) => tx[r].st # "none"
  BY DEF RunCommit, Commits
<1>3. QED
  BY <1>1, <1>2, StepOnHistory

-----------------------------------------------------------------------------
(***************************************************************************)
(* The readers.                                                            *)
(***************************************************************************)

\* The server executes the COMMIT of r, which carries one migration of its own.
Publishes(r, row) ==
  /\ ServerCommit(r)
  /\ UNCHANGED <<pc, command, conn, inputs, loop, result>>
  /\ tx[r].st = "committing" /\ tx[r].rows = {row}
  /\ tx'[r].st = "committed" /\ tx'[r].rows = {}
  /\ history' = history \cup {row}
  /\ schema' = schema \cup EffectsOfRow(row)

\* Nothing else changes the history or the schema.
LEMMA OnlyCommitPublishes ==
  ASSUME NoTxControl, ControlInv, BuildInv, NEW r \in Runners, Step(r)
  PROVE  UNCHANGED <<history, schema>> \/ \E row \in Rows : Publishes(r, row)
<1>1. ASSUME Commits(r), Whole(r)
      PROVE  \E row \in Rows : Publishes(r, row)
  <2>1. PICK row \in Rows : tx[r].rows = {row} /\ tx[r].ddl = EffectsOfRow(row)
    BY <1>1 DEF Whole
  <2>2. tx'[r].st = "committed" /\ tx'[r].rows = {}
    BY <1>1 DEF Commits, Publish, NoTx, ControlInv, DatabaseTypeOK
  <2>3. QED
    BY <1>1, <2>1, <2>2 DEF Commits, ServerCommit, Publish, Publishes
<1>2. QED
  BY <1>1, StepOnRows

\* The history table is made by a COMMIT or outside a transaction, in neither case
\* by a rehearsal.
LEMMA TableStep ==
  ASSUME NoTxControl, ControlInv, BuildInv, OwnInv, NEW r \in Runners, Step(r)
  PROVE  table' = table \/ (table' = r /\ ~DryRuns(r))
<1> USE DEF ControlInv
<1>1. /\ tx \in [Runners -> Transactions] /\ tx[r] \in Transactions
      /\ Builds(r) /\ Planned(r) /\ Own(r)
  BY DEF DatabaseTypeOK, BuildInv, LoopInv, OwnInv
<1>2. CASE ServerCommit(r)
  BY <1>1, <1>2 DEF ServerCommit, Publish, Discard, Own
<1>3. CASE CreateTable(r)
  BY <1>1, <1>3 DEF CreateTable, MakeTable, Refuse, Own
<1>4. ~RunCommit(r)
  BY NoFileCommits
<1>5. CASE \/ RunStatement(r) \/ RecordMigration(r) \/ StatementFails(r) \/ RecordFails(r)
           \/ LosesDeadlock(r) \/ SendCommit(r) \/ BeginDryRun(r) \/ ReadFile(r) \/ CommitReturns(r)
           \/ Rollback(r) \/ Return(r) \/ ServerDisconnect(r)
  BY <1>5
     DEF RunStatement, Executed, Execute, RecordMigration, Recorded, Insert, StatementFails,
         RecordFails, LosesDeadlock, SendCommit, BeginDryRun, ReadFile, CommitReturns, Rollback,
         Return, ServerDisconnect, Refuse, AskCommit, Begin, EndSession, Discard, dbVars
<1>6. CASE \/ Connect(r) \/ RequestLock(r) \/ LockGranted(r) \/ LookTable(r)
           \/ ReadHistory(r) \/ Discover(r) \/ LoopEnds(r) \/ SkipApplied(r)
           \/ NotApplied(r) \/ RejectFile(r) \/ StatementsDone(r) \/ NoticeLoss(r)
           \/ GrantLock(r) \/ Fault(r)
  BY <1>6
     DEF Connect, OpenSession, RequestLock, AskLock, LockGranted, LookTable, ReadHistory,
         Discover, LoopEnds, SkipApplied, NotApplied, RejectFile, StatementsDone,
         NoticeLoss, GrantLock, Fault, CallFails, CallExpires, MisreadHistory, OutputFails,
         LoseConnection, Hang, Crash, EditFile, dbVars
<1>7. QED
  BY <1>2, <1>3, <1>4, <1>5, <1>6 DEF Step, ClientStep, ServerStep

\* Only apply publishes, and what it publishes is its own.
LEMMA StepLeavesNoTrace ==
  ASSUME NoTxControl, ControlInv, BuildInv, OwnInv, ReadersLeaveNoTrace, [Next]_vars
  PROVE  ReadersLeaveNoTrace'
<1>1. CASE UNCHANGED vars
  BY <1>1 DEF vars, dbVars, ReadersLeaveNoTrace
<1>2. ASSUME NEW r \in Runners, Step(r)
      PROVE  ReadersLeaveNoTrace'
  <2>1. job' = job /\ (table' = table \/ (table' = r /\ ~DryRuns(r)))
    BY <1>2, JobsFixed, TableStep
  <2>2. CASE UNCHANGED <<history, schema>>
    BY <2>1, <2>2 DEF ReadersLeaveNoTrace
  <2>3. ASSUME NEW row \in Rows, Publishes(r, row)
        PROVE  ReadersLeaveNoTrace'
    <3>1. row.by = r /\ Applies(r)
      BY <2>3 DEF Publishes, OwnInv, Own
    <3>2. \A effect \in EffectsOfRow(row) : effect.by = r
      BY <3>1 DEF EffectsOfRow, EffectsOf
    <3>3. QED
      BY <2>1, <2>3, <3>1, <3>2 DEF Publishes, ReadersLeaveNoTrace
  <2>4. QED
    BY <1>2, <2>2, <2>3, OnlyCommitPublishes
<1>3. QED
  BY <1>1, <1>2, NextIsStep

\* dry-run, status and plan leave nothing behind, however they end: no row, no
\* effect, and dry-run not even the table, if no file has a COMMIT of its own.
THEOREM NoTraces ==
  ASSUME NoTxControl
  PROVE  Spec => []ReadersLeaveNoTrace
<1>1. Init => ReadersLeaveNoTrace
  BY DEF Init, DatabaseInit, ReadersLeaveNoTrace
<1>2. ControlInv /\ AtomicInv /\ [Next]_vars => AtomicInv'
  BY StepAtomic
<1>3. AtomicInv => BuildInv
  BY DEF AtomicInv
<1>4. ControlInv /\ OwnInv /\ [Next]_vars => OwnInv'
  BY StepOwn
<1>5. ControlInv /\ BuildInv /\ OwnInv /\ ReadersLeaveNoTrace /\ [Next]_vars
        => ReadersLeaveNoTrace'
  BY StepLeavesNoTrace
<1>6. QED
  BY <1>1, <1>2, <1>3, <1>4, <1>5, InitAtomic, InitOwn, ControlInvariant, PTL DEF Spec

-----------------------------------------------------------------------------
(***************************************************************************)
(* The result.                                                             *)
(***************************************************************************)

RecordedBy(r, v) == \E row \in history : row.version = v /\ row.by = r

Over == {"rollback", "return", "done", "crashed"}

\* r does not know what became of its last COMMIT.
Unknown(r) == why[r] = "commit" \/ (pc[r] = "crashed" /\ failed[r] = {})

\* The row of the current file is recorded, or in the transaction.
RowIsOut(r) ==
  RecordedBy(r, Current(r)) \/ \E row \in tx[r].rows : row.version = Current(r)

\* How the history relates to what r is about to report: every file it finished has
\* a row of r's; and where no file has a COMMIT of its own, no row of r's is about a
\* file it has not finished, unless its COMMIT is under way or its outcome unknown.
Reported(r) ==
  /\ Before(r) => \A row \in history : row.by # r
  /\ Live(r) /\ pc[r] = "commit" => RowIsOut(r)
  /\ pc[r] = "commitWait" /\ tx[r].st = "committing" => RowIsOut(r)
  /\ pc[r] = "commitWait" /\ tx[r].st = "committed" => RecordedBy(r, Current(r))
  /\ tx[r].st = "committing" => pc[r] = "commitWait" \/ Unknown(r)
  /\ failed[r] \subseteq todo[r]
  /\ failed[r] # {} \/ why[r] = "commit" => exit[r] = 1 /\ pc[r] \in Over
  /\ NoTxControl => \A row \in history : row.by = r /\ row.version \in todo[r] =>
       Unknown(r) \/ (pc[r] = "commitWait" /\ row.version = Current(r))
  /\ Applies(r) => \A v \in done[r] : RecordedBy(r, v)

ResultInv == \A r \in Runners : Reported(r)

\* Steps that change neither the history nor the result.
LEMMA ResultFrame ==
  ASSUME ResultInv, NEW r \in Runners,
         UNCHANGED <<job, history, todo, done, failed, why, exit>>,
         Before(r)' => Before(r),
         pc'[r] = pc[r] \/ pc'[r] = "crashed" \/ (pc[r] # "commitWait" /\ pc[r] # "crashed"),
         pc[r] \in Over => pc'[r] \in Over,
         pc'[r] = "commit" => pc[r] = "commit" /\ (Live(r)' => Live(r)),
         pc'[r] = "commitWait" => pc[r] = "commitWait" \/ (pc[r] = "commit" /\ Live(r)
                                                         /\ tx'[r].st = "committing"),
         tx'[r].st = "committing" => tx[r].st = "committing" \/ pc[r] = "commit",
         (Live(r)' /\ pc'[r] = "commit") \/ tx'[r].st = "committing" => tx'[r].rows = tx[r].rows,
         tx'[r].st = "committed" => tx[r].st = "committed",
         tx'[r].st = "committing" => pc'[r] = "commitWait" \/ tx[r].st = "committing"
  PROVE  Reported(r)'
<1>1. Reported(r) /\ Current(r)' = Current(r)
  BY DEF ResultInv, Current
<1>2. (Unknown(r) => Unknown(r)') /\ (pc[r] = "commitWait" => pc'[r] = pc[r] \/ Unknown(r)')
  BY <1>1 DEF Reported, Unknown, Over
<1>3. (\A v : RecordedBy(r, v) => RecordedBy(r, v)')
      /\ (tx'[r].rows = tx[r].rows /\ RowIsOut(r) => RowIsOut(r)')
  BY <1>1 DEF RecordedBy, RowIsOut
<1>4. QED
  BY <1>1, <1>2, <1>3 DEF Reported, Over

\* The handler returns an error: unless it is that of COMMIT, no row is in doubt.
LEMMA ResultFails ==
  ASSUME ControlInv, ResultInv, NEW r \in Runners,
         UNCHANGED <<job, history, todo>>, tx'[r].st \in {tx[r].st, "none", "refused"},
         pc[r] \notin Over \/ (pc[r] = "return" /\ exit[r] = 0),
         NEW reason \in Reasons,
         FailsEarly(r, reason) \/ (todo[r] # {} /\ FailsCurrent(r, reason)),
         pc[r] = "commitWait" => reason = "commit"
  PROVE  Reported(r)'
<1>1. Reported(r) /\ Current(r)' = Current(r)
  BY DEF ResultInv, Current
<1>2. /\ pc'[r] \in {"rollback", "return"} /\ why'[r] = reason /\ exit'[r] = 1
      /\ failed'[r] \subseteq todo[r] /\ done' = done
  BY <1>1, CurrentIsPending
     DEF FailsEarly, FailsCurrent, Fails, AfterLoop, ControlInv, ControlOK, Reported
<1>3. failed[r] = {} /\ ~Unknown(r)
  BY <1>1 DEF Reported, Unknown, Over, ControlInv, ControlOK
<1>4. pc[r] = "commitWait" => Unknown(r)'
  BY <1>2 DEF Unknown
<1>5. \A v : RecordedBy(r, v) => RecordedBy(r, v)'
  BY DEF RecordedBy
<1>6. ~Before(r)'
  BY <1>2 DEF Before
<1>7. QED
  BY <1>1, <1>2, <1>3, <1>4, <1>5, <1>6 DEF Reported, Over

\* What happens to a result when a call fails.
LEMMA ResultHandles ==
  ASSUME ControlInv, OwnInv, ResultInv, NEW r \in Runners,
         UNCHANGED <<job, history, todo, tx>>, HandlesError(r)
  PROVE  Reported(r)'
<1>1. Reported(r) /\ Own(r) /\ Planned(r) /\ {"call", "lock", "record", "commit"} \subseteq Reasons
  BY DEF ResultInv, OwnInv, ControlInv, LoopInv, Reasons
<1>2. pc[r] \notin Over
  BY DEF HandlesError, Over
<1>3. CASE /\ pc[r] = "check" /\ Applies(r) /\ todo[r] # {}
           /\ Goto(r, "file") /\ UNCHANGED result
  BY <1>1, <1>2, <1>3, ResultFrame DEF Before, Own, ControlInv, ControlOK
<1>4. CASE \E reason \in {"call", "lock"} : pc[r] # "commitWait" /\ FailsEarly(r, reason)
  BY <1>1, <1>2, <1>4, ResultFails
<1>5. CASE \E reason \in {"call", "record", "commit"} :
             /\ todo[r] # {} /\ FailsCurrent(r, reason)
             /\ pc[r] = "commitWait" => reason = "commit"
  BY <1>1, <1>2, <1>5, ResultFails
<1>6. QED
  BY <1>1, <1>3, <1>4, <1>5 DEF HandlesError, Planned

\* A step of a runner keeps its report true.
LEMMA ResultStep ==
  ASSUME ControlInv, OwnInv, ResultInv, NEW r \in Runners, Step(r)
  PROVE  Reported(r)'
<1> USE DEF ControlInv, ControlOK
<1>1. /\ job' = job /\ Planned(r) /\ Own(r) /\ Reported(r)
      /\ tx \in [Runners -> Transactions] /\ tx[r] \in Transactions
  BY JobsFixed DEF LoopInv, DatabaseTypeOK, OwnInv, ResultInv
<1>2. \A v : RecordedBy(r, v) => RecordedBy(r, v)'
  BY NewRows DEF RecordedBy
<1>3. CASE Commits(r)
  <2>1. /\ UNCHANGED <<pc, todo, done, failed, why, exit>> /\ Current(r)' = Current(r)
        /\ history' = history \cup tx[r].rows /\ tx[r].st = "committing"
        /\ tx'[r].st = "committed"
    BY <1>1, <1>3 DEF Commits, Publish, NoTx, Current
  <2>2. \A row \in tx[r].rows :
          row.by = r /\ (pc[r] = "commitWait" => row.version = Current(r))
    BY <1>1, <2>1 DEF Own
  <2>3. pc[r] = "commitWait" => RecordedBy(r, Current(r))'
    <3>1. CASE RecordedBy(r, Current(r))
      BY <1>2, <2>1, <3>1
    <3>2. ASSUME pc[r] = "commitWait", NEW row \in tx[r].rows, row.version = Current(r)
          PROVE  RecordedBy(r, Current(r))'
      BY <2>1, <2>2, <3>2 DEF RecordedBy
    <3>3. QED
      BY <1>1, <2>1, <3>1, <3>2 DEF Reported, RowIsOut
  <2>4. ~Before(r)' /\ pc[r] # "commit"
    BY <1>1, <2>1 DEF Own, Before
  <2>5. pc[r] = "commitWait" \/ Unknown(r)
    BY <1>1, <2>1 DEF Reported
  <2>6. Unknown(r) <=> Unknown(r)'
    BY <2>1 DEF Unknown
  <2>7. NoTxControl => \A old \in history' : old.by = r /\ old.version \in todo'[r] =>
          Unknown(r)' \/ (pc'[r] = "commitWait" /\ old.version = Current(r)')
    BY <1>1, <2>1, <2>2, <2>5, <2>6 DEF Reported
  <2>8. QED
    BY <1>1, <1>2, <2>1, <2>3, <2>4, <2>7 DEF Reported
<1>4. CASE RunCommit(r)
  <2>1. UNCHANGED <<pc, todo, done, failed, why, exit>> /\ pc[r] = "exec" /\ ~NoTxControl
    BY <1>4, NoFileCommits DEF RunCommit
  <2>2. tx'[r].st = "auto"
    BY <1>1, <1>4 DEF RunCommit, Publish, NoTx, dbVars
  <2>3. QED
    BY <1>1, <1>2, <2>1, <2>2 DEF Reported, Before, Over
<1>5. CASE RecordMigration(r)
  <2>1. /\ pc[r] = "record" /\ Insert(r, RowFor(r)) /\ AfterRecord(r)
        /\ failed' = failed /\ why' = why /\ exit' = exit
    BY <1>5 DEF RecordMigration, Recorded, AfterRecord
  <2>2. /\ tx'[r].st = tx[r].st /\ (NoTxControl => history' = history)
        /\ RowFor(r) \in history' \cup tx'[r].rows
    BY <1>1, <2>1 DEF Insert, Transactions, Own
  <2>3. tx[r].st # "committing" /\ failed[r] = {} /\ why[r] # "commit" /\ ~Unknown(r)
    BY <1>1, <2>1 DEF Own, Reported, Over, Unknown
  <2>4. NoTxControl => \A row \in history : ~(row.by = r /\ row.version \in todo[r])
    BY <1>1, <2>1, <2>3 DEF Reported
  <2>5. CASE Applies(r) /\ Goto(r, "commit") /\ UNCHANGED <<loop, result>>
    <3>1. RowFor(r).version = Current(r) /\ RowFor(r).by = r /\ Current(r)' = Current(r)
      BY <2>5 DEF RowFor, Current
    <3>2. RowIsOut(r)' /\ ~Before(r)' /\ pc'[r] = "commit"
      BY <1>1, <2>2, <2>5, <3>1 DEF RowIsOut, RecordedBy, Before
    <3>3. QED
      BY <1>1, <1>2, <2>1, <2>2, <2>3, <2>4, <2>5, <3>2 DEF Reported
  <2>6. CASE DryRuns(r) /\ Finishes(r) /\ Goto(r, "check")
    <3>1. todo'[r] \subseteq todo[r] /\ pc'[r] = "check" /\ ~Before(r)' /\ ~Applies(r)
      BY <2>6 DEF Finishes, Others, Before
    <3>2. QED
      BY <1>1, <2>1, <2>2, <2>3, <2>4, <3>1 DEF Reported
  <2>7. QED
    BY <2>1, <2>5, <2>6 DEF AfterRecord
<1>6. ASSUME history' = history
      PROVE  Reported(r)' \/ RunCommit(r) \/ RecordMigration(r) \/ Commits(r)
  <2>1. CASE Connect(r) \/ RequestLock(r) \/ LockGranted(r) \/ LookTable(r) \/ ReadHistory(r)
             \/ MisreadHistory(r) \/ NotApplied(r) \/ StatementsDone(r)
    <3>1. UNCHANGED <<tx, todo, done, failed, why, exit>>
      BY <2>1 DEF Connect, OpenSession, RequestLock, AskLock, LockGranted, LookTable,
                  ReadHistory, MisreadHistory, NotApplied, StatementsDone, dbVars
    <3>2. /\ pc'[r] \notin Over \cup {"commit", "commitWait"} /\ (Before(r)' => Before(r))
          /\ pc[r] \notin Over \cup {"commit", "commitWait"}
      BY <1>1, <2>1 DEF Connect, AfterConnect, Locks, FirstStatement, RequestLock, LockGranted,
                  LockReturns, LookTable, AfterTable, ReadHistory, MisreadHistory, NotApplied,
                  StatementsDone, Before, Over
    <3>3. QED
      BY <1>1, <1>6, <3>1, <3>2, ResultFrame DEF Over, Own
  <2>2. CASE CreateTable(r)
    <3>1. pc[r] = "create" /\ Live(r) /\ todo' = todo /\ "table" \in Reasons
      BY <2>2 DEF CreateTable, Reasons
    <3>2. tx'[r].st = tx[r].st
      BY <1>1, <2>2 DEF CreateTable, MakeTable, Refuse, Transactions
    <3>3. CASE FailsEarly(r, "table")
      BY <1>1, <1>6, <3>1, <3>2, <3>3, ResultFails DEF Over
    <3>4. CASE Goto(r, AfterTable(r)) /\ UNCHANGED result
      <4>1. pc'[r] \in {"check", "read"} /\ (Before(r)' => Before(r))
        BY <1>1, <3>1, <3>4 DEF AfterTable, Before
      <4>2. QED
        BY <1>1, <1>6, <3>1, <3>2, <3>4, <4>1, ResultFrame DEF Over, Own
    <3>5. QED
      BY <2>2, <3>3, <3>4 DEF CreateTable
  <2>3. CASE Discover(r)
    <3>1. pc[r] = "discover" /\ tx' = tx /\ tx[r].st = "none"
      BY <1>1, <2>3 DEF Discover, dbVars, Own, Before
    <3>2. /\ done[r] = done'[r] /\ failed'[r] = {} /\ why'[r] # "commit"
          /\ pc'[r] \in {"begin", "check", "return"}
      <4>1. failed[r] = {} /\ why[r] # "commit"
        BY <1>1, <3>1 DEF Reported, Over
      <4>2. QED
        BY ZenonT(40), <1>1, <2>3, <3>1, <4>1
           DEF Discover, MakesPlan, Ends, FailsEarly, Fails, AfterLoop, HasTx,
               ComputePending, PendingError
    <3>3. \A row \in history : row.by # r
      BY <1>1, <3>1 DEF Reported, Before
    <3>4. \A v : RecordedBy(r, v) => RecordedBy(r, v)'
      BY <1>6 DEF RecordedBy
    <3>5. QED
      BY <1>1, <1>6, <3>1, <3>2, <3>3, <3>4 DEF Reported
  <2>4. CASE BeginDryRun(r) \/ ReadFile(r) \/ RunStatement(r)
    <3>1. /\ UNCHANGED <<todo, done, failed, why, exit>>
          /\ pc[r] \in {"begin", "file", "exec"} /\ pc'[r] \in {"look", "exec"} /\ ~Before(r)'
      BY <1>1, <2>4 DEF BeginDryRun, ReadFile, RunStatement, Executed, Before, Planned
    <3>2. tx[r].st # "committing" /\ tx'[r].st \notin {"committing", "committed"}
      <4>1. tx[r].st \notin {"committing", "committed"}
        BY <1>1, <3>1 DEF Own
      <4>2. CASE Begin(r)
        BY <1>1, <4>1, <4>2 DEF Begin, OpenTx, NoTx
      <4>3. CASE RunStatement(r)
        BY <1>1, <4>1, <4>3 DEF RunStatement, Executed, Execute, Transactions
      <4>4. QED
        BY <2>4, <4>1, <4>2, <4>3 DEF BeginDryRun, ReadFile, dbVars
    <3>3. QED
      BY <1>1, <1>6, <3>1, <3>2, ResultFrame DEF Over
  <2>6. CASE LoopEnds(r)
    <3>1. /\ UNCHANGED <<tx, todo, done, failed, why>> /\ pc[r] = "check" /\ exit'[r] = 0
          /\ pc'[r] \in {"rollback", "return"}
      BY <2>6 DEF LoopEnds, Ends, AfterLoop, HasTx, dbVars
    <3>2. failed[r] = {} /\ why[r] # "commit" /\ ~Before(r)'
      BY <1>1, <3>1 DEF Reported, Over, Before
    <3>3. \A v : RecordedBy(r, v) => RecordedBy(r, v)'
      BY <1>6 DEF RecordedBy
    <3>4. QED
      BY <1>1, <1>6, <3>1, <3>2, <3>3 DEF Reported, Unknown
  <2>7. CASE SkipApplied(r)
    <3>1. /\ UNCHANGED <<tx, pc, done, failed, why, exit>> /\ pc[r] = "check"
          /\ todo'[r] \subseteq todo[r]
      BY <2>7 DEF SkipApplied, Others, dbVars
    <3>2. failed[r] = {} /\ why[r] # "commit" /\ ~Before(r)'
      BY <1>1, <3>1 DEF Reported, Over, Before
    <3>3. \A v : RecordedBy(r, v) => RecordedBy(r, v)'
      BY <1>6 DEF RecordedBy
    <3>4. QED
      BY <1>1, <1>6, <3>1, <3>2, <3>3 DEF Reported, Unknown
  <2>8. CASE RejectFile(r) \/ StatementFails(r) \/ RecordFails(r) \/ LosesDeadlock(r)
    <3>1. /\ todo' = todo /\ pc[r] \in {"file", "exec", "record"}
          /\ \E reason \in Reasons : FailsCurrent(r, reason)
      BY <2>8, VictimWaits DEF RejectFile, StatementFails, RecordFails, LosesDeadlock, Reasons
    <3>2. CASE tx' = tx
      BY <1>1, <1>6, <3>1, <3>2, ResultFails DEF Over, Planned
    <3>3. CASE Refuse(r) \/ Discard(r, "none")
      <4>1. tx'[r].st \in {tx[r].st, "none"}
        BY <1>1, <3>3 DEF Refuse, Discard, Transactions, NoTx
      <4>2. QED
        BY <1>1, <1>6, <3>1, <4>1, ResultFails DEF Over, Planned
    <3>4. QED
      BY <2>8, <3>2, <3>3 DEF RejectFile, StatementFails, RecordFails, LosesDeadlock, dbVars
  <2>10. CASE SendCommit(r)
    <3>1. /\ UNCHANGED <<todo, done, failed, why, exit>> /\ pc[r] = "commit"
          /\ pc'[r] = "commitWait" /\ tx'[r].st = "committing" /\ tx'[r].rows = tx[r].rows
          /\ Live(r)
      BY <1>1, <2>10 DEF SendCommit, AskCommit, Transactions
    <3>2. QED
      BY <1>1, <1>6, <3>1, ResultFrame DEF Over, Before
  <2>11. CASE CommitReturns(r)
    <3>1. pc[r] = "commitWait" /\ tx'[r].st = "none" /\ Live(r)
      BY <1>1, <2>11 DEF CommitReturns, Discard, NoTx
    <3>2. CASE FailsCurrent(r, "commit") /\ UNCHANGED loop
      BY <1>1, <1>6, <3>1, <3>2, ResultFails DEF Over, Planned, Reasons
    <3>3. CASE tx[r].st = "committed" /\ Finishes(r) /\ Goto(r, "check") /\ UNCHANGED <<failed, why, exit>>
      <4>1. /\ failed[r] = {} /\ why[r] # "commit" /\ ~Unknown(r) /\ RecordedBy(r, Current(r))
            /\ pc'[r] = "check" /\ ~Before(r)'
        BY <1>1, <3>1, <3>3 DEF Reported, Over, Unknown, Before
      <4>2. todo'[r] = todo[r] \ {Current(r)} /\ done'[r] = done[r] \cup {Current(r)}
        BY <3>3 DEF Finishes, Others
      <4>3. \A v : RecordedBy(r, v) => RecordedBy(r, v)'
        BY <1>6 DEF RecordedBy
      <4>4. QED
        BY <1>1, <1>6, <3>1, <3>3, <4>1, <4>2, <4>3 DEF Reported
    <3>4. QED
      BY <2>11, <3>2, <3>3 DEF CommitReturns
  <2>12. CASE Rollback(r) \/ Return(r) \/ ServerDisconnect(r)
    <3>1. /\ UNCHANGED <<todo, done, failed, why, exit>>
          /\ \/ pc[r] \in {"rollback", "return"} /\ pc'[r] \in {"return", "done"}
             \/ pc' = pc /\ conn' = conn
      BY <2>12 DEF Rollback, Return, ServerDisconnect
    <3>2. tx'[r] = tx[r] \/ (tx'[r].st = "none" /\ ~(Live(r)' /\ pc'[r] = "commit"))
      BY <1>1, <2>12 DEF Rollback, Return, ServerDisconnect, EndSession, Discard, NoTx, dbVars
    <3>3. CASE tx'[r] = tx[r]
      BY <1>1, <1>6, <3>1, <3>3, ResultFrame DEF Over, Before
    <3>4. CASE tx'[r].st = "none" /\ ~(Live(r)' /\ pc'[r] = "commit")
      <4>1. /\ tx'[r].st \notin {"committing", "committed"} /\ (Before(r)' => Before(r))
            /\ pc[r] \in Over => pc'[r] \in Over
            /\ pc'[r] \in {"commit", "commitWait"} => pc[r] = pc'[r] /\ (Live(r)' => Live(r))
            /\ pc'[r] = pc[r] \/ (pc[r] # "commitWait" /\ pc[r] # "crashed")
        BY <1>1, <3>1, <3>4 DEF Over, Before
      <4>2. UNCHANGED <<job, history, todo, done, failed, why, exit>>
        BY <1>1, <1>6, <3>1
      <4>3. Reported(r)'
        BY <3>4, <4>1, <4>2, ResultFrame
      <4>4. QED
        BY <4>3
    <3>5. QED
      BY <3>2, <3>3, <3>4
  <2>13. CASE ServerCommit(r) /\ UNCHANGED <<pc, command, conn, inputs, loop, result>>
    <3>1. CASE Discard(r, "refused")
      <4>1. tx'[r].st = "refused"
        BY <1>1, <3>1 DEF Discard, NoTx
      <4>2. QED
        BY <1>1, <1>6, <2>13, <4>1, ResultFrame DEF Over, Before, Own, ServerCommit
    <3>2. QED
      BY <2>13, <3>1 DEF ServerCommit, Commits
  <2>14. CASE NoticeLoss(r) \/ CallFails(r) \/ CallExpires(r)
    <3>1. UNCHANGED <<todo, tx>>
      BY <2>14 DEF NoticeLoss, CallFails, CallExpires, dbVars
    <3>2. CASE HandlesError(r)
      BY <1>1, <1>6, <3>1, <3>2, ResultHandles
    <3>3. CASE pc[r] = "rollback" /\ Goto(r, "return") /\ UNCHANGED result
      BY <1>1, <1>6, <3>1, <3>3, ResultFrame DEF Over, Before
    <3>4. QED
      BY <2>14, <3>2, <3>3 DEF NoticeLoss, CallFails, CallExpires
  <2>15. CASE OutputFails(r)
    <3>1. /\ pc[r] = "return" /\ exit[r] = 0 /\ FailsEarly(r, "output") /\ "output" \in Reasons
          /\ UNCHANGED <<todo, tx>>
      BY <2>15 DEF OutputFails, Reasons, dbVars
    <3>2. QED
      BY <1>1, <1>6, <3>1, ResultFails
  <2>16. CASE LoseConnection(r) \/ Hang(r) \/ Crash(r)
    <3>1. /\ UNCHANGED <<tx, todo, done, failed, why, exit>>
          /\ (pc' = pc /\ (Live(r)' => Live(r))) \/ pc'[r] = "crashed"
      BY <2>16 DEF LoseConnection, Hang, Crash, dbVars
    <3>2. CASE pc' = pc /\ (Live(r)' => Live(r))
      BY <1>1, <1>6, <3>1, <3>2, ResultFrame DEF Before
    <3>3. CASE pc'[r] = "crashed"
      <4>1. failed[r] = {} \/ pc[r] # "commitWait"
        BY <1>1 DEF Reported, Over
      <4>2. tx[r].st = "committing" => Unknown(r)'
        BY <1>1, <3>1, <3>3, <4>1 DEF Reported, Unknown, Over
      <4>3. Unknown(r) \/ pc[r] = "commitWait" => Unknown(r)'
        BY <1>1, <3>1, <3>3, <4>1 DEF Unknown
      <4>4. \A v : RecordedBy(r, v) => RecordedBy(r, v)'
        BY <1>6 DEF RecordedBy
      <4>5. ~Before(r)'
        BY <3>3 DEF Before
      <4>6. QED
        BY <1>1, <1>6, <3>1, <3>3, <4>2, <4>3, <4>4, <4>5 DEF Reported, Over
    <3>4. QED
      BY <3>1, <3>2, <3>3
  <2>17. CASE /\ UNCHANGED <<pc, conn, loop, inputs, result, tx>>
              /\ \/ GrantLock(r)
                 \/ \E v \in Versions, content \in Contents \cup {NoFile} : EditFile(r, v, content)
    BY <1>1, <1>6, <2>17, ResultFrame DEF Before
  <2>18. QED
    BY <2>1, <2>2, <2>3, <2>4, <2>6, <2>7, <2>8, <2>10, <2>11, <2>12, <2>13,
       <2>14, <2>15, <2>16, <2>17
       DEF Step, ClientStep, ServerStep, Fault, GrantLock, EditFile, dbVars
<1>7. QED
  BY <1>3, <1>4, <1>5, <1>6, StepOnHistory

\* Nothing is reported at the start ...
LEMMA InitResult == Init => ResultInv
BY DEF Init, DatabaseInit, NoTx, ResultInv, Reported

\* ... and what the others do changes nothing about a result.
LEMMA StepResult == ControlInv /\ OwnInv /\ ResultInv /\ [Next]_vars => ResultInv'
<1> SUFFICES ASSUME ControlInv, OwnInv, ResultInv, [Next]_vars, NEW s \in Runners
             PROVE  Reported(s)'
  BY DEF ResultInv
<1>1. CASE UNCHANGED vars
  BY <1>1 DEF vars, dbVars, ResultInv, Reported, Before, Current, Unknown, RowIsOut,
              RecordedBy
<1>2. ASSUME NEW r \in Runners, Step(r)
      PROVE  Reported(s)'
  <2>1. CASE r = s
    BY <1>2, <2>1, ResultStep
  <2>2. CASE r # s
    <3>1. /\ UNCHANGED <<pc[s], conn[s], todo[s], done[s], failed[s], why[s], exit[s], job>>
          /\ tx'[s] = tx[s]
      BY <1>2, <2>2, StepIsLocal, ResultIsLocal, JobsFixed
    <3>2. history \subseteq history' /\ \A row \in history' : row \in history \/ row.by # s
      BY <1>2, <2>2, NewRows
    <3>3. \A v : RecordedBy(s, v) => RecordedBy(s, v)'
      BY <3>2 DEF RecordedBy
    <3>4. Reported(s) /\ (Unknown(s)' <=> Unknown(s)) /\ (Before(s)' <=> Before(s))
          /\ Current(s)' = Current(s) /\ (Applies(s)' <=> Applies(s))
      BY <3>1 DEF ResultInv, Unknown, Before, Current
    <3>5. RowIsOut(s) => RowIsOut(s)'
      BY <3>1, <3>3, <3>4 DEF RowIsOut
    <3>6. QED
      BY <3>1, <3>2, <3>3, <3>4, <3>5 DEF Reported
  <2>3. QED
    BY <2>1, <2>2
<1>3. QED
  BY <1>1, <1>2, NextIsStep

\* ResultInv for every behaviour, once and for all the theorems that use it.
LEMMA ResultInvariant == Spec => [](ControlInv /\ KeyInv /\ OwnInv /\ ResultInv)
BY InitKey, StepKey, InitOwn, StepOwn, InitResult, StepResult, ControlInvariant, PTL DEF Spec

\* What apply reports as applied is in the history, recorded by this very runner,
\* whatever its files contain.
THEOREM AppliedIsInHistory == Spec => []AppliedIsDurable
<1>1. ResultInv => AppliedIsDurable
  BY DEF ResultInv, Reported, RecordedBy, AppliedIsDurable
<1>2. QED
  BY <1>1, ResultInvariant, PTL

\* What is reported as failed and rolled back has left no row and no effect, unless
\* the call that failed was COMMIT itself, if no file has a COMMIT of its own.
THEOREM FailedLeftNothing ==
  ASSUME NoTxControl
  PROVE  Spec => []FailedIsRolledBack
<1>1. AtomicInv /\ ResultInv => FailedIsRolledBack
  <2> SUFFICES ASSUME AtomicInv, ResultInv, NEW r \in Runners, why[r] # "commit",
                      NEW v \in failed[r]
               PROVE  /\ \A row \in history : ~(row.version = v /\ row.by = r)
                      /\ \A effect \in schema : ~(effect.version = v /\ effect.by = r)
    BY DEF FailedIsRolledBack
  <2>1. \A row \in history : ~(row.version = v /\ row.by = r)
    BY DEF ResultInv, Reported, Unknown, Over
  <2>2. \A effect \in schema : \E row \in history :
          effect.version = row.version /\ effect.by = row.by
    BY DEF AtomicInv, HistoryMatchesSchema, EffectsOfRow, EffectsOf
  <2>3. QED
    BY <2>1, <2>2
<1>2. ControlInv /\ AtomicInv /\ [Next]_vars => AtomicInv'
  BY StepAtomic
<1>3. QED
  BY <1>1, <1>2, InitAtomic, ResultInvariant, PTL DEF Spec

-----------------------------------------------------------------------------
(***************************************************************************)
(* What a rehearsal foretells, for any files and faults: RehearsedInv      *)
(* compares what a runner has found out about a file with the file itself, *)
(* as long as nobody has changed one.                                      *)
(***************************************************************************)

Contains(content, kind) == \E i \in DOMAIN Script[content] : Script[content][i] = kind

\* A file that can be read, may run in a transaction, and whose statements the
\* server accepts where nothing of what they make is there: it has no violation that
\* its own COMMIT would bring to light.
Sound(content) ==
  /\ content \in Contents
  /\ \A i \in DOMAIN Script[content] :
       Script[content][i] \in {"ok", "create", "deferred", "commit"}
  /\ ~(Contains(content, "deferred") /\ Contains(content, "commit"))

\* The schema has something that this content makes.
Present(content) == \E effect \in schema : effect.body = content

\* Why an apply may fail on a sound file.
NotItsFault(r, v) ==
  \/ why[r] \in {"commit", "record", "call", "deadlock"}
  \/ why[r] = "statement" /\ Present(dir[r][v])

\* r has executed such a statement of its current file.
Ran(r, kind) == \E i \in DOMAIN Script[body[r]] : i < at[r] /\ Script[body[r]][i] = kind

\* The statements of its file that r has passed were accepted, and show in the
\* transaction; in that of an apply, which has had no other file, nothing else shows.
Passed(r) ==
  /\ \A i \in DOMAIN Script[body[r]] :
       i < at[r] => Script[body[r]][i] \in {"ok", "create", "deferred", "commit"}
  /\ ~(Ran(r, "deferred") /\ Ran(r, "commit"))
  /\ Live(r) /\ Ran(r, "deferred") => tx[r].st = "open" /\ tx[r].doomed
  /\ Live(r) /\ Ran(r, "commit") => tx[r].st = "auto"
  /\ Live(r) /\ Applies(r) /\ tx[r].st = "auto" => Ran(r, "commit")
  /\ Live(r) /\ Applies(r) /\ tx[r].st = "open" /\ tx[r].doomed => Ran(r, "deferred")
  /\ Live(r) /\ Applies(r) => \A effect \in tx[r].ddl : effect.stmt < at[r]

\* What r executes is its file; what a rehearsal finished is sound, and what an
\* apply failed for a reason that lies in the file is not, or is partly there already.
Rehearsed(r) ==
  /\ pc[r] \in {"exec", "record"} => body[r] = dir[r][Current(r)] /\ body[r] \in Contents
  /\ pc[r] = "exec" => Passed(r)
  /\ pc[r] = "record" => Sound(body[r])
  /\ DryRuns(r) => \A v \in done[r] : Sound(dir[r][v])
  /\ Applies(r) => \A v \in failed[r] : Sound(dir[r][v]) => NotItsFault(r, v)

RehearsedInv == edits = 0 => \A r \in Runners : Rehearsed(r)

-----------------------------------------------------------------------------
\* Nothing is ever taken out of the schema.
LEMMA SchemaGrows ==
  ASSUME ControlInv, NEW r \in Runners, Step(r)
  PROVE  \A content : Present(content) => Present(content)'
<1>1. Statement(r) => schema \subseteq schema'
  BY DEF Statement, OpenSession, Begin, MakeTable, Execute, Refuse, Insert, Publish, Discard,
         AskCommit, AskLock, EndSession, GrantLock
<1>2. schema \subseteq schema'
  BY <1>1, StepIsStatement DEF dbVars
<1>3. QED
  BY <1>2 DEF Present

\* A step changes a file, or a number of things that say nothing about files.
LEMMA DirsFixed ==
  ASSUME ControlInv, NEW r \in Runners, Step(r), edits' = 0
  PROVE  dir' = dir /\ edits = 0
<1>1. ASSUME NEW v \in Versions, NEW content \in Contents \cup {NoFile}, EditFile(r, v, content)
      PROVE  FALSE
  BY <1>1, MaxEditsAssumption DEF EditFile, ControlInv, ControlOK
<1>2. ClientStep(r) => dir' = dir /\ edits' = edits
  BY DEF ClientStep, RequestLock, LockGranted, LookTable, CreateTable, ReadHistory,
         Discover, BeginDryRun, LoopEnds, SkipApplied, NotApplied, RejectFile, ReadFile,
         RunStatement, RunCommit, StatementFails, StatementsDone, RecordMigration,
         RecordFails, LosesDeadlock, SendCommit, CommitReturns, Rollback, Return, NoticeLoss
<1>3. QED
  BY <1>1, <1>2 DEF Step, Connect, ServerStep, ServerDisconnect, Fault, CallFails, CallExpires,
                    MisreadHistory, OutputFails, LoseConnection, Hang, Crash

\* Steps that neither execute nor report anything.
LEMMA RehearsedFrame ==
  ASSUME NEW r \in Runners, Rehearsed(r),
         UNCHANGED <<job, dir, body, at, todo, done, failed, why>>,
         pc'[r] \in {"exec", "record"} => pc'[r] = pc[r],
         pc'[r] = "exec" /\ Live(r)' => Live(r) /\ tx'[r] = tx[r],
         \A content : Present(content) => Present(content)'
  PROVE  Rehearsed(r)'
<1>1. pc'[r] = "exec" => (Passed(r) => Passed(r)')
  BY DEF Passed, Ran
<1>2. QED
  BY <1>1 DEF Rehearsed, NotItsFault, Current, Sound, Contains

\* Steps that end with an error that says nothing about the file.
LEMMA RehearsedFails ==
  ASSUME ControlInv, ResultInv, NEW r \in Runners, Rehearsed(r),
         UNCHANGED <<job, dir>>, pc[r] \notin Over \/ exit[r] = 0,
         NEW reason,
         \/ FailsEarly(r, reason)
         \/ FailsCurrent(r, reason) /\ reason \in {"call", "record", "commit", "deadlock"}
  PROVE  Rehearsed(r)'
<1>1. failed[r] = {}
  BY DEF ResultInv, Reported, Over
<1>2. pc'[r] \in {"rollback", "return"} /\ why'[r] = reason /\ done' = done
  BY DEF FailsEarly, FailsCurrent, Fails, AfterLoop, ControlInv, ControlOK
<1>3. FailsEarly(r, reason) => failed'[r] = {}
  BY <1>1 DEF FailsEarly
<1>4. QED
  BY <1>2, <1>3 DEF Rehearsed, NotItsFault, Sound, Contains

\* A step of a runner keeps what it knows of the files it has run true.
LEMMA RehearsedStep ==
  ASSUME ControlInv, OwnInv, ResultInv, NEW r \in Runners, Step(r),
         Rehearsed(r), dir' = dir, edits' = edits
  PROVE  Rehearsed(r)'
<1> USE DEF ControlInv, ControlOK
<1>1. /\ job' = job /\ Planned(r) /\ Own(r) /\ Reported(r)
      /\ tx \in [Runners -> Transactions] /\ tx[r] \in Transactions
      /\ \A content : Present(content) => Present(content)'
  BY JobsFixed, SchemaGrows DEF LoopInv, DatabaseTypeOK, OwnInv, ResultInv
<1>0. /\ why'[r] = why[r] => \A v : NotItsFault(r, v) => NotItsFault(r, v)'
      /\ \A content : Sound(content)' <=> Sound(content)
  BY <1>1 DEF NotItsFault, Sound, Contains
<1>2. CASE \/ Connect(r) \/ RequestLock(r) \/ LockGranted(r) \/ LookTable(r) \/ ReadHistory(r)
           \/ MisreadHistory(r) \/ NotApplied(r) \/ BeginDryRun(r) \/ SendCommit(r)
           \/ Rollback(r) \/ Return(r) \/ ServerDisconnect(r) \/ LoseConnection(r) \/ Hang(r)
           \/ Crash(r)
  <2>1. UNCHANGED <<body, at, todo, done, failed, why>>
    BY <1>2 DEF Connect, RequestLock, LockGranted, LookTable, ReadHistory, MisreadHistory,
                NotApplied, BeginDryRun, SendCommit, Rollback, Return, ServerDisconnect,
                LoseConnection, Hang, Crash
  <2>2. /\ pc'[r] \in {"exec", "record"} => pc'[r] = pc[r]
        /\ pc'[r] = "exec" /\ Live(r)' => Live(r) /\ tx' = tx
    BY <1>2 DEF Connect, AfterConnect, FirstStatement, RequestLock, LockGranted, LookTable,
                AfterTable, ReadHistory, MisreadHistory, NotApplied, BeginDryRun, SendCommit,
                Rollback, Return, ServerDisconnect, LoseConnection, Hang, Crash, dbVars
  <2>3. QED
    BY <1>1, <2>1, <2>2, RehearsedFrame
<1>3. CASE CreateTable(r)
  <2>1. UNCHANGED <<body, at, todo>> /\ pc[r] = "create"
    BY <1>3 DEF CreateTable
  <2>2. CASE FailsEarly(r, "table")
    <3>1. pc[r] \notin Over
      BY <2>1 DEF Over
    <3>2. UNCHANGED <<job, dir>>
      BY <1>1
    <3>3. QED
      BY <2>2, <3>1, <3>2, RehearsedFails
  <2>3. CASE Goto(r, AfterTable(r)) /\ UNCHANGED result
    BY <1>1, <2>1, <2>3, RehearsedFrame DEF AfterTable
  <2>4. QED
    BY <1>3, <2>2, <2>3 DEF CreateTable
<1>4. CASE Discover(r) \/ LoopEnds(r)
  <2>1. /\ pc[r] \in {"discover", "check"} /\ pc'[r] \notin {"exec", "record"}
        /\ UNCHANGED <<body, at>> /\ done' = done /\ failed' = failed
    BY <1>4 DEF Discover, MakesPlan, Ends, FailsEarly, Fails, AfterLoop, LoopEnds
  <2>2. failed[r] = {}
    BY <1>1, <2>1 DEF Reported, Over
  <2>3. QED
    BY <1>1, <2>1, <2>2 DEF Rehearsed, NotItsFault, Sound, Contains
<1>5. CASE SkipApplied(r)
  <2>1. UNCHANGED <<pc, body, at, done, failed, why>> /\ pc[r] = "check"
    BY <1>5 DEF SkipApplied
  <2>2. QED
    BY <1>1, <2>1, <1>0 DEF Rehearsed
<1>6. CASE RejectFile(r)
  <2>1. pc[r] = "file" /\ UNCHANGED <<body, at, todo>>
    BY <1>6 DEF RejectFile
  <2>2. /\ pc'[r] \in {"rollback", "return"} /\ done' = done /\ failed'[r] = {Current(r)}
        /\ why'[r] \in {"file", "nontx"}
    BY <1>6 DEF RejectFile, FailsCurrent, Fails, AfterLoop
  <2>3. ~Sound(dir[r][Current(r)])
    <3>1. dir[r][Current(r)] = NoFile \/ IsNonTransactional(dir[r][Current(r)])
      BY <1>6 DEF RejectFile
    <3>2. QED
      BY <3>1, NoFileAssumption DEF Sound, IsNonTransactional
  <2>4. failed'[r] = {Current(r)} /\ dir'[r] = dir[r] /\ done' = done
        /\ pc'[r] \notin {"exec", "record"}
    BY <2>2
  <2>5. \A v \in failed'[r] : ~Sound(dir'[r][v])
    BY <2>3, <2>4
  <2>6. QED
    BY <1>0, <1>1, <2>4, <2>5 DEF Rehearsed
<1>7. CASE ReadFile(r)
  <2>1. /\ UNCHANGED <<todo, done, failed, why>> /\ pc'[r] = "exec" /\ Current(r)' = Current(r)
        /\ body'[r] = dir[r][Current(r)] /\ body'[r] \in Contents /\ at'[r] = 1
    BY <1>7 DEF ReadFile, Current
  <2>2. \A i \in DOMAIN Script[body'[r]] : ~(i < 1)
    BY <2>1, ScriptAssumption
  <2>3. Applies(r) => tx'[r].st = "open" /\ ~tx'[r].doomed /\ tx'[r].ddl = {}
    <3>1. Applies(r) => tx'[r] = OpenTx
      BY <1>1, <1>7 DEF ReadFile, Begin
    <3>2. OpenTx.st = "open" /\ ~OpenTx.doomed /\ OpenTx.ddl = {}
      BY DEF OpenTx, NoTx
    <3>3. QED
      BY <3>1, <3>2
  <2>4. Passed(r)'
    BY <1>1, <2>1, <2>2, <2>3 DEF Passed, Ran
  <2>5. QED
    BY <1>1, <2>1, <2>4, <1>0 DEF Rehearsed
<1>8. CASE RunStatement(r) \/ RunCommit(r)
  <2>1. /\ pc[r] = "exec" /\ UNCHANGED <<pc, conn, todo, body, done, failed, why>>
        /\ at[r] \in Nat /\ at'[r] = at[r] + 1 /\ Current(r)' = Current(r)
        /\ MoreStatements(r) /\ Live(r)
    BY <1>8 DEF RunStatement, RunCommit, Advance, Current
  <2>2. PICK k \in {"ok", "create", "deferred", "commit"} :
          /\ Kind(r) = k
          /\ k \in {"ok", "create"} => tx'[r].st = tx[r].st /\ (tx'[r].doomed <=> tx[r].doomed)
          /\ k = "deferred" => tx[r].st = "open" /\ tx'[r].st = "open" /\ tx'[r].doomed
          /\ k = "commit" => tx'[r].st = "auto" /\ ~(tx[r].st = "open" /\ tx[r].doomed)
    <3>1. CASE RunStatement(r)
      BY <1>1, <3>1 DEF RunStatement, Accepted, Executed, Execute, Transactions
    <3>2. CASE RunCommit(r)
      BY <1>1, <3>2 DEF RunCommit, Publish, NoTx, dbVars
    <3>3. QED
      BY <1>8, <3>1, <3>2
  <2>3. \A i \in DOMAIN Script[body[r]] : i < at'[r] <=> i < at[r] \/ i = at[r]
    <3>1. \A i \in DOMAIN Script[body[r]] : i \in Int
      BY <1>1, <2>1, ScriptAssumption DEF Planned
    <3>2. \A i \in Int, n \in Nat : i < n + 1 <=> i < n \/ i = n
      OBVIOUS
    <3>3. QED
      BY <2>1, <3>1, <3>2
  <2>4. \A kind : Ran(r, kind)' <=> Ran(r, kind) \/ kind = Kind(r)
    BY <2>1, <2>3 DEF Ran, Kind, MoreStatements
  <2>5. Passed(r)'
    <3>1. Passed(r) /\ (Live(r)' <=> Live(r)) /\ (Applies(r)' <=> Applies(r))
      BY <1>1, <2>1 DEF Rehearsed
    <3>2. \A i \in DOMAIN Script[body'[r]] :
            i < at'[r] => Script[body'[r]][i] \in {"ok", "create", "deferred", "commit"}
      BY <2>1, <2>2, <2>3, <3>1 DEF Passed, Kind
    <3>3. Live(r) /\ Applies(r) => \A effect \in tx'[r].ddl : effect.stmt < at'[r]
      <4>1. \A effect \in tx'[r].ddl : effect \in tx[r].ddl \/ effect.stmt = at[r]
        <5>1. CASE RunStatement(r)
          <6>1. tx'[r].ddl \subseteq tx[r].ddl \cup {EffectOf(r)}
            BY <1>1, <5>1 DEF RunStatement, Executed, Execute, Transactions
          <6>2. EffectOf(r).stmt = at[r]
            BY DEF EffectOf
          <6>3. QED
            BY <6>1, <6>2
        <5>2. CASE RunCommit(r)
          BY <1>1, <5>2 DEF RunCommit, Publish, NoTx, dbVars
        <5>3. QED
          BY <1>8, <5>1, <5>2
      <4>2. \A effect \in tx[r].ddl : effect.stmt \in Nat
        BY <1>1 DEF Transactions, Effects
      <4>3. Live(r) /\ Applies(r) => \A effect \in tx[r].ddl : effect.stmt < at[r]
        BY <3>1 DEF Passed
      <4>4. at[r] \in Nat /\ at'[r] = at[r] + 1
        BY <2>1
      <4>5. \A m, n \in Nat : m < n \/ m = n => m < n + 1
        OBVIOUS
      <4>6. ASSUME Live(r), Applies(r), NEW effect \in tx'[r].ddl
            PROVE  effect.stmt < at'[r]
        <5>1. CASE effect \in tx[r].ddl
          BY <4>2, <4>3, <4>4, <4>5, <4>6, <5>1
        <5>2. CASE effect.stmt = at[r]
          BY <4>4, <4>5, <5>2
        <5>3. QED
          BY <4>1, <5>1, <5>2
      <4>7. QED
        BY <4>6
    <3>4. QED
      BY <2>1, <2>2, <2>4, <3>1, <3>2, <3>3 DEF Passed
  <2>6. QED
    BY <1>1, <2>1, <2>5, <1>0 DEF Rehearsed
<1>10. CASE StatementsDone(r)
  <2>1. /\ pc[r] = "exec" /\ pc'[r] = "record" /\ Current(r)' = Current(r)
        /\ UNCHANGED <<todo, body, at, done, failed, why>> /\ ~MoreStatements(r)
    BY <1>10 DEF StatementsDone, Current
  <2>2. PICK n \in Nat : DOMAIN Script[body[r]] = 1..n
    BY <1>1, <2>1, ScriptAssumption DEF Planned
  <2>3. at[r] \in Nat \ {0} /\ at[r] > n
    BY <1>1, <2>1, <2>2 DEF Planned, MoreStatements
  <2>4. \A i \in DOMAIN Script[body[r]] : i < at[r]
    BY <2>2, <2>3
  <2>5. Sound(body[r])
    BY <1>1, <2>1, <2>4 DEF Rehearsed, Passed, Ran, Sound, Contains
  <2>6. QED
    BY <1>1, <2>1, <2>5, <1>0 DEF Rehearsed
<1>11. CASE StatementFails(r)
  <2>1. /\ pc[r] = "exec" /\ pc'[r] \in {"rollback", "return"} /\ done' = done
        /\ failed'[r] = {Current(r)} /\ why'[r] = "statement" /\ Live(r)
        /\ MoreStatements(r) /\ Kind(r) \in {"bad", "create", "commit", "deferred"}
        /\ Kind(r) = "create" => Exists(r, EffectOf(r))
        /\ Kind(r) = "deferred" => tx[r].st = "auto"
        /\ Kind(r) = "commit" => tx[r].st = "open" /\ tx[r].doomed
    BY <1>11 DEF StatementFails, Refused, FailsCurrent, Fails, AfterLoop
  <2>2. body[r] = dir[r][Current(r)] /\ Passed(r)
    BY <2>1 DEF Rehearsed
  <2>3. /\ Contains(body[r], Kind(r))
        /\ \A kind : Ran(r, kind) => Contains(body[r], kind)
    BY <2>1 DEF Contains, Kind, MoreStatements, Ran
  <2>4. Applies(r) /\ Kind(r) = "create" => Present(body[r])
    <3>1. SUFFICES ASSUME Applies(r), Exists(r, EffectOf(r))
                   PROVE  Present(body[r])
      BY <2>1
    <3>2. PICK effect \in schema \cup tx[r].ddl : Alike(effect, EffectOf(r))
      BY <3>1 DEF Exists
    <3>3. effect.body = body[r] /\ effect.stmt = at[r] /\ at[r] \in Nat
      BY <1>1, <2>1, <3>2 DEF Alike, EffectOf, Planned
    <3>4. effect \notin tx[r].ddl
      BY <2>1, <2>2, <3>1, <3>3 DEF Passed
    <3>5. QED
      BY <3>2, <3>3, <3>4 DEF Present
  <2>5. Applies(r) => ~Sound(body[r]) \/ Present(body[r])
    BY <2>1, <2>2, <2>3, <2>4 DEF Sound, Contains, Passed
  <2>6. ASSUME Applies(r), NEW v \in failed'[r], Sound(dir[r][v])
        PROVE  NotItsFault(r, v)'
    <3>1. v = Current(r) /\ Present(dir[r][v])
      BY <2>1, <2>2, <2>5, <2>6
    <3>2. Present(dir[r][v])' /\ why'[r] = "statement"
      BY <1>1, <2>1, <3>1
    <3>3. QED
      BY <3>2 DEF NotItsFault
  <2>7. QED
    BY <1>0, <1>1, <2>1, <2>6 DEF Rehearsed
<1>12. CASE RecordMigration(r)
  <2>1. /\ pc[r] = "record" /\ UNCHANGED <<body, at, failed, why>>
        /\ \/ DryRuns(r) /\ Finishes(r) /\ pc'[r] = "check"
           \/ Applies(r) /\ done' = done /\ pc'[r] = "commit"
    BY <1>12 DEF RecordMigration, AfterRecord, Finishes
  <2>2. Sound(dir[r][Current(r)])
    BY <2>1 DEF Rehearsed
  <2>3. QED
    <3>1. /\ failed' = failed /\ why' = why /\ pc'[r] \notin {"exec", "record"}
          /\ done'[r] = done[r] \/ done'[r] = done[r] \cup {Current(r)}
      BY <2>1 DEF Finishes
    <3>2. DryRuns(r) => \A v \in done'[r] : Sound(dir[r][v])
      BY <2>2, <3>1 DEF Rehearsed
    <3>3. QED
      BY <1>1, <3>1, <3>2, <1>0 DEF Rehearsed
<1>13. CASE RecordFails(r) \/ LosesDeadlock(r)
  <2>1. /\ pc[r] \in {"exec", "record"}
        /\ FailsCurrent(r, "record") \/ FailsCurrent(r, "deadlock")
    BY <1>13, VictimWaits DEF RecordFails, LosesDeadlock
  <2>2. pc[r] \notin Over /\ UNCHANGED <<job, dir>>
    BY <1>1, <2>1 DEF Over
  <2>3. QED
    BY <2>1, <2>2, RehearsedFails
<1>14. CASE CommitReturns(r)
  <2>1. pc[r] = "commitWait"
    BY <1>14 DEF CommitReturns
  <2>2. CASE FailsCurrent(r, "commit")
    <3>1. pc[r] \notin Over /\ UNCHANGED <<job, dir>>
      BY <1>1, <2>1 DEF Over
    <3>2. QED
      BY <2>2, <3>1, RehearsedFails
  <2>3. CASE tx[r].st = "committed" /\ Finishes(r) /\ Goto(r, "check") /\ UNCHANGED <<failed, why, exit>>
    <3>1. Applies(r) /\ pc'[r] = "check" /\ body' = body
      BY <1>1, <2>1, <2>3 DEF Finishes, Own
    <3>2. why'[r] = why[r] /\ failed' = failed /\ dir'[r] = dir[r] /\ ~DryRuns(r)
      BY <2>3, <3>1
    <3>3. QED
      BY <1>0, <1>1, <3>1, <3>2 DEF Rehearsed
  <2>4. QED
    BY <1>14, <2>2, <2>3 DEF CommitReturns
<1>15. CASE NoticeLoss(r) \/ CallFails(r) \/ CallExpires(r)
  <2>1. /\ UNCHANGED <<job, dir, body, at, todo>>
    BY <1>1, <1>15 DEF NoticeLoss, CallFails, CallExpires
  <2>2. CASE HandlesError(r)
    <3>1. pc[r] \notin Over
      BY <2>2 DEF HandlesError, Over
    <3>2. CASE FailsEarly(r, "call") \/ FailsEarly(r, "lock")
      BY <2>1, <3>1, <3>2, RehearsedFails
    <3>3. CASE FailsCurrent(r, "call") \/ FailsCurrent(r, "record") \/ FailsCurrent(r, "commit")
      BY <2>1, <3>1, <3>3, RehearsedFails
    <3>4. CASE Goto(r, "file") /\ UNCHANGED result
      BY <1>1, <2>1, <3>4, RehearsedFrame
    <3>5. QED
      BY <2>2, <3>2, <3>3, <3>4 DEF HandlesError
  <2>3. CASE pc[r] = "rollback" /\ Goto(r, "return") /\ UNCHANGED result
    BY <1>1, <2>1, <2>3, RehearsedFrame
  <2>4. QED
    BY <1>15, <2>2, <2>3 DEF NoticeLoss, CallFails, CallExpires
<1>16. CASE OutputFails(r)
  <2>1. /\ UNCHANGED <<job, dir, body, at, todo>> /\ exit[r] = 0
        /\ FailsEarly(r, "output")
    BY <1>1, <1>16 DEF OutputFails
  <2>2. QED
    BY <2>1, RehearsedFails
<1>17. CASE UNCHANGED <<pc, conn, loop, result>> /\ (tx' = tx \/ tx[r].st = "committing")
  BY <1>1, <1>17, RehearsedFrame DEF Own
<1>18. CASE \E v \in Versions, content \in Contents \cup {NoFile} : EditFile(r, v, content)
  BY <1>17, <1>18 DEF EditFile, dbVars
<1>19. QED
  BY <1>2, <1>3, <1>4, <1>5, <1>6, <1>7, <1>8, <1>10, <1>11, <1>12, <1>13, <1>14,
     <1>15, <1>16, <1>17, <1>18
     DEF Step, ClientStep, ServerStep, Fault, GrantLock, ServerCommit

\* Nothing is known of a file at the start ...
LEMMA InitRehearsed == Init => RehearsedInv
BY DEF Init, RehearsedInv, Rehearsed

\* ... and others find out nothing about the files of a runner.
LEMMA StepRehearsed ==
  ControlInv /\ OwnInv /\ ResultInv /\ RehearsedInv /\ [Next]_vars => RehearsedInv'
<1> SUFFICES ASSUME ControlInv, OwnInv, ResultInv, RehearsedInv, [Next]_vars,
                    edits' = 0, NEW s \in Runners
             PROVE  Rehearsed(s)'
  BY DEF RehearsedInv
<1>1. CASE UNCHANGED vars
  <2>1. \A content : Present(content) => Present(content)'
    BY <1>1 DEF vars, dbVars, Present
  <2>2. QED
    BY <1>1, <2>1, RehearsedFrame DEF vars, dbVars, RehearsedInv
<1>2. ASSUME NEW r \in Runners, Step(r)
      PROVE  Rehearsed(s)'
  <2>1. dir' = dir /\ edits' = edits /\ Rehearsed(s)
    BY <1>2, DirsFixed DEF RehearsedInv
  <2>2. CASE r = s
    BY <1>2, <2>1, <2>2, RehearsedStep
  <2>3. CASE r # s
    <3>1. UNCHANGED <<pc[s], conn[s], body[s], at[s], todo[s], done[s], failed[s], why[s],
                      tx[s], job>>
      BY <1>2, <2>3, StepIsLocal, ResultIsLocal, JobsFixed
    <3>2. Passed(s) => Passed(s)'
      BY <3>1 DEF Passed, Ran
    <3>3. \A content : Present(content) => Present(content)'
      BY <1>2, SchemaGrows
    <3>4. QED
      BY <2>1, <3>1, <3>2, <3>3 DEF Rehearsed, NotItsFault, Current, Sound, Contains
  <2>4. QED
    BY <2>2, <2>3
<1>3. QED
  BY <1>1, <1>2, NextIsStep

\* RehearsedInv for every behaviour.
LEMMA RehearsedInvariant ==
  Spec => [](ControlInv /\ KeyInv /\ OwnInv /\ ResultInv /\ RehearsedInv)
BY InitRehearsed, StepRehearsed, ResultInvariant, PTL DEF Spec

\* For every file that was rehearsed, if the files do not change: an apply of the same
\* directory fails on it only at its COMMIT, at its record, because a call is lost, as
\* the victim of a deadlock or because something that the file makes is there already.
OnlyForOtherReasons ==
  \A d, a \in Runners :
     DryRuns(d) /\ exit[d] = 0 /\ Applies(a) /\ dir[a] = dir[d] /\ edits = 0 =>
       \A v \in failed[a] \cap done[d] : NotItsFault(a, v)

\* Whatever the files contain, with or without the lock, whoever misreads the history.
THEOREM RehearsalsExplain == Spec => []OnlyForOtherReasons
<1>1. RehearsedInv => OnlyForOtherReasons
  BY DEF RehearsedInv, Rehearsed, OnlyForOtherReasons
<1>2. QED
  BY <1>1, RehearsedInvariant, PTL
=============================================================================
