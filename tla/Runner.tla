------------------------------- MODULE Runner -------------------------------
(***************************************************************************)
(* Invocations of schemago against one database: apply, dry-run, status    *)
(* and plan, from the connection to the exit code, interleaved at every    *)
(* call they make to the server or to their migrations directory.          *)
(*                                                                         *)
(* Sources: internal/cli/cli.go (the handlers), internal/apply/apply.go,   *)
(* internal/dryrun/dryrun.go, internal/history/history.go,                 *)
(* internal/lock/lock.go, internal/migration/discovery.go.                 *)
(*                                                                         *)
(* A runner is one invocation; running the program again is another        *)
(* runner.  Each has a directory of its own, as a deployment pod has, and  *)
(* the directories need not be the same.                                   *)
(***************************************************************************)
EXTENDS Database

CONSTANTS
  Jobs,       \* the command lines: a command and whether --no-lock is given
  Images,     \* the migrations directories a runner may find
  NoFile,     \* no file for a version
  Faulty,     \* the runners that may crash or lose their connection
  Slow,       \* the runners whose context may expire during a call
  Hung,       \* the runners whose server may stop answering
  Misled,     \* the runners that may be told of something else "does not exist"
  Muted,      \* the runners that may fail to write their result
  MaxEdits    \* bound: how often a file changes during the runs

Commands == {"apply", "dry-run", "status", "plan"}

ASSUME JobsAssumption == Jobs \subseteq [cmd : Commands, noLock : BOOLEAN]
ASSUME NoFileAssumption == NoFile \notin Contents
ASSUME ImagesAssumption == Images \subseteq [Versions -> Contents \cup {NoFile}]
ASSUME FaultsAssumption ==
  Faulty \cup Slow \cup Hung \cup Misled \cup Muted \subseteq Runners
ASSUME MaxEditsAssumption == MaxEdits \in Nat

VARIABLES
  pc,         \* where r is: the call it makes next
  job,        \* its command line
  dir,        \* its migrations directory
  edits,      \* how many files have been changed so far
  conn,       \* the client's end of its connection
  seen,       \* GetAppliedMigrations: the checksum recorded for each version
  disc,       \* Discover: the checksum of each version's file
  todo,       \* the pending versions that its loop has not finished
  body,       \* the content ReadFile returned for the current version
  at,         \* the statement of body it sends next
  done,       \* Result.Applied
  failed,     \* Result.Failed, a set of at most one version
  why,        \* the kind of error it reports
  exit        \* its exit code, once it has one

command == <<job, dir, edits>>
inputs  == <<seen, disc>>
loop    == <<todo, body, at>>
result  == <<done, failed, why, exit>>
vars    == <<dbVars, pc, command, conn, inputs, loop, result>>

ExitCodes == {0, 1}
NoExit == -1

Places ==
  {"idle", "lock", "lockWait", "look", "create", "read", "discover", "begin",
   "check", "file", "exec", "record", "commit", "commitWait", "rollback",
   "return", "done", "crashed"}

Reasons ==
  {"none", "call", "lock", "table", "missing", "mismatch", "file", "nontx",
   "statement", "record", "deadlock", "commit", "output"}

TypeOK ==
  /\ DatabaseTypeOK
  /\ pc \in [Runners -> Places]
  /\ job \in [Runners -> Jobs]
  /\ dir \in [Runners -> [Versions -> Contents \cup {NoFile}]]
  /\ edits \in 0..MaxEdits
  /\ conn \in [Runners -> {"none", "up", "hung", "lost", "closed"}]
  /\ seen \in [Runners -> [Versions -> Sums]]
  /\ disc \in [Runners -> [Versions -> Sums]]
  /\ todo \in [Runners -> SUBSET Versions]
  /\ body \in [Runners -> Contents \cup {NoFile}]
  /\ at \in [Runners -> Nat]
  /\ done \in [Runners -> SUBSET Versions]
  /\ failed \in [Runners -> SUBSET Versions]
  /\ why \in [Runners -> Reasons]
  /\ exit \in [Runners -> ExitCodes \cup {NoExit}]

Nothing == [v \in Versions |-> NoSum]

Init ==
  /\ DatabaseInit
  /\ pc = [r \in Runners |-> "idle"]
  /\ job \in [Runners -> Jobs]
  /\ dir \in [Runners -> Images]
  /\ edits = 0
  /\ conn = [r \in Runners |-> "none"]
  /\ seen = [r \in Runners |-> Nothing]
  /\ disc = [r \in Runners |-> Nothing]
  /\ todo = [r \in Runners |-> {}]
  /\ body = [r \in Runners |-> NoFile]
  /\ at = [r \in Runners |-> 0]
  /\ done = [r \in Runners |-> {}]
  /\ failed = [r \in Runners |-> {}]
  /\ why = [r \in Runners |-> "none"]
  /\ exit = [r \in Runners |-> NoExit]

-----------------------------------------------------------------------------
(***************************************************************************)
(* Where control goes.                                                     *)
(***************************************************************************)

Goto(r, place) == pc' = [pc EXCEPT ![r] = place]

Applies(r) == job[r].cmd = "apply"
DryRuns(r) == job[r].cmd = "dry-run"

\* Only apply and dry-run take the advisory lock, unless --no-lock is given.
Locks(r) == (Applies(r) \/ DryRuns(r)) /\ ~job[r].noLock

\* dry-run reads the history first and creates the table in its transaction;
\* the other commands create it before they read.
FirstStatement(r) == IF DryRuns(r) THEN "read" ELSE "look"

MutAfterConnect(r) == FirstStatement(r)

AfterConnect(r) == IF Locks(r) THEN "lock" ELSE FirstStatement(r)

\* Once the table is there: dry-run is at the head of its loop.
AfterTable(r) == IF DryRuns(r) THEN "check" ELSE "read"

\* r has called BeginTx and neither Commit nor Rollback.
HasTx(r) ==
  \/ pc[r] \in {"exec", "record", "commit"}
  \/ DryRuns(r) /\ pc[r] \in {"look", "create", "check", "file"}

MutAfterLoop(r) == IF HasTx(r) THEN "commit" ELSE "return"

\* The handler's end: apply rolls back before it returns an error, dry-run's
\* deferred Rollback runs on every return.
AfterLoop(r) == IF HasTx(r) THEN "rollback" ELSE "return"

MutFails(r, reason) ==
  /\ Goto(r, AfterLoop(r))
  /\ why' = [why EXCEPT ![r] = reason]
  /\ exit' = [exit EXCEPT ![r] = 0]

MutFailsUsage(r, reason) ==
  /\ Goto(r, AfterLoop(r))
  /\ why' = [why EXCEPT ![r] = reason]
  /\ exit' = [exit EXCEPT ![r] = 2]

\* The handler returns ExitFailure.
Fails(r, reason) ==
  /\ Goto(r, AfterLoop(r))
  /\ why' = [why EXCEPT ![r] = reason]
  /\ exit' = [exit EXCEPT ![r] = 1]

Ends(r, code) ==
  /\ Goto(r, AfterLoop(r))
  /\ exit' = [exit EXCEPT ![r] = code]
  /\ UNCHANGED <<done, failed, why>>

Current(r) == NextFile(todo[r])

\* An error that is about the current file: Result.Failed names it.
FailsCurrent(r, reason) ==
  /\ Fails(r, reason)
  /\ failed' = [failed EXCEPT ![r] = {Current(r)}]
  /\ UNCHANGED done

FailsEarly(r, reason) ==
  /\ Fails(r, reason)
  /\ UNCHANGED <<done, failed>>

\* The files after the current one.
Others(r) == todo[r] \ {Current(r)}

\* The end of an iteration: the file counts as applied.
Finishes(r) ==
  /\ done' = [done EXCEPT ![r] = @ \cup {Current(r)}]
  /\ todo' = [todo EXCEPT ![r] = Others(r)]
  /\ UNCHANGED <<body, at>>

Live(r) == conn[r] = "up"

-----------------------------------------------------------------------------
(***************************************************************************)
(* The handlers up to the list of pending files.                           *)
(***************************************************************************)

\* ConnectAndPing, and Conn for the commands that pin a session.
Connect(r) ==
  /\ pc[r] = "idle"
  /\ Goto(r, AfterConnect(r))
  /\ conn' = [conn EXCEPT ![r] = "up"]
  /\ OpenSession(r)
  /\ UNCHANGED <<command, inputs, loop, result>>

\* SELECT pg_advisory_lock reaches the server, which queues the session.
RequestLock(r) ==
  /\ pc[r] = "lock" /\ Live(r)
  /\ AskLock(r)
  /\ Goto(r, "lockWait")
  /\ UNCHANGED <<command, conn, inputs, loop, result>>

MutLockReturns(r) == pc[r] = "lockWait" /\ Live(r)

LockReturns(r) == pc[r] = "lockWait" /\ Live(r) /\ owner = r

\* Lock returns nil.
LockGranted(r) ==
  /\ LockReturns(r)
  /\ Goto(r, FirstStatement(r))
  /\ UNCHANGED <<dbVars, command, conn, inputs, loop, result>>

\* CREATE TABLE IF NOT EXISTS looks for the table first ...
LookTable(r) ==
  /\ pc[r] = "look" /\ Live(r)
  /\ Goto(r, IF TableVisible(r) THEN AfterTable(r) ELSE "create")
  /\ UNCHANGED <<dbVars, command, conn, inputs, loop, result>>

\* ... and creates it, unless another transaction has in the meantime.
CreateTable(r) ==
  /\ pc[r] = "create" /\ Live(r)
  /\ ~CreateMustWait(r)
  /\ \/ /\ table = NoOne
        /\ MakeTable(r)
        /\ Goto(r, AfterTable(r))
        /\ UNCHANGED result
     \/ /\ table # NoOne
        /\ Refuse(r)
        /\ FailsEarly(r, "table")
  /\ UNCHANGED <<command, conn, inputs, loop>>

\* A table that does not exist is an error that reads as an empty history.
ReadHistory(r) ==
  /\ pc[r] = "read" /\ Live(r)
  /\ seen' = [seen EXCEPT ![r] = HistorySums]
  /\ Goto(r, "discover")
  /\ UNCHANGED <<dbVars, command, conn, disc, loop, result>>

\* So is any other error whose text has the words: a column, a prepared
\* statement or a role that does not exist.
MisreadHistory(r) ==
  /\ r \in Misled
  /\ pc[r] = "read" /\ Live(r)
  /\ seen' = [seen EXCEPT ![r] = Nothing]
  /\ Goto(r, "discover")
  /\ UNCHANGED <<dbVars, command, conn, disc, loop, result>>

DirSums(r) ==
  [v \in Versions |-> IF dir[r][v] = NoFile THEN NoSum ELSE Checksum(dir[r][v])]

\* What the handler does with the files and the rows it has now.
MakesPlan(r, pending) ==
  \/ /\ pending.err # "none"
     /\ FailsEarly(r, pending.err)
     /\ UNCHANGED loop
  \/ /\ pending.err = "none"
     /\ IF job[r].cmd = "plan" \/ pending.files = {}
        THEN Ends(r, 0) /\ UNCHANGED loop
        ELSE /\ Goto(r, IF DryRuns(r) THEN "begin" ELSE "check")
             /\ todo' = [todo EXCEPT ![r] = pending.files]
             /\ UNCHANGED <<body, at, result>>

\* Discover reads and hashes every file, then the handler computes: status
\* its report, the others the pending files.  No call to the server is made.
Discover(r) ==
  /\ pc[r] = "discover"
  /\ disc' = [disc EXCEPT ![r] = DirSums(r)]
  /\ IF job[r].cmd = "status"
     THEN Ends(r, ReportExitCode(DirSums(r), seen[r])) /\ UNCHANGED loop
     ELSE MakesPlan(r, ComputePending(DirSums(r), seen[r]))
  /\ UNCHANGED <<dbVars, command, conn, seen>>

-----------------------------------------------------------------------------
(***************************************************************************)
(* apply.Apply and dryrun.DryRun.                                          *)
(***************************************************************************)

\* dry-run opens one transaction for everything.
BeginDryRun(r) ==
  /\ pc[r] = "begin" /\ Live(r)
  /\ Begin(r)
  /\ Goto(r, "look")
  /\ UNCHANGED <<command, conn, inputs, loop, result>>

LoopEnds(r) ==
  /\ pc[r] = "check"
  /\ todo[r] = {}
  /\ Ends(r, 0)
  /\ UNCHANGED <<dbVars, command, conn, inputs, loop>>

\* apply asks the server again just before each file.
AlreadyRecorded(r) == Applies(r) /\ Current(r) \in RecordedVersions

SkipApplied(r) ==
  /\ pc[r] = "check" /\ todo[r] # {} /\ Live(r)
  /\ AlreadyRecorded(r)
  /\ todo' = [todo EXCEPT ![r] = Others(r)]
  /\ UNCHANGED <<dbVars, pc, command, conn, inputs, body, at, result>>

NotApplied(r) ==
  /\ pc[r] = "check" /\ todo[r] # {}
  /\ DryRuns(r) \/ (Live(r) /\ ~AlreadyRecorded(r))
  /\ Goto(r, "file")
  /\ UNCHANGED <<dbVars, command, conn, inputs, loop, result>>

\* ReadFile and the check for statements that cannot run in a transaction.
RejectFile(r) ==
  /\ pc[r] = "file"
  /\ LET content == dir[r][Current(r)]
     IN  \/ content = NoFile /\ FailsCurrent(r, "file")
         \/ /\ content \in Contents
            /\ IsNonTransactional(content)
            /\ FailsCurrent(r, "nontx")
  /\ UNCHANGED <<dbVars, command, conn, inputs, loop>>

\* apply opens a transaction for each file, after it has read it.
ReadFile(r) ==
  /\ pc[r] = "file"
  /\ dir[r][Current(r)] \in Contents
  /\ ~IsNonTransactional(dir[r][Current(r)])
  /\ \/ DryRuns(r) /\ UNCHANGED dbVars
     \/ Applies(r) /\ Live(r) /\ Begin(r)
  /\ body' = [body EXCEPT ![r] = dir[r][Current(r)]]
  /\ at' = [at EXCEPT ![r] = 1]
  /\ Goto(r, "exec")
  /\ UNCHANGED <<command, conn, inputs, todo, result>>

Kind(r) == Script[body[r]][at[r]]

MutMoreStatements(r) == Applies(r) /\ at[r] \in DOMAIN Script[body[r]]

MoreStatements(r) == at[r] \in DOMAIN Script[body[r]]

Advance(r) == at' = [at EXCEPT ![r] = @ + 1]

EffectOf(r) ==
  [version |-> Current(r), body |-> body[r], by |-> r, stmt |-> at[r]]

Executed(r) == Execute(r, EffectOf(r), Kind(r) = "deferred")

\* The server's verdict depends on what it finds: what is created twice is an
\* error, and a deferred violation is one at once where there is no transaction
\* block to defer it to.
Accepted(r) ==
  \/ Kind(r) = "ok"
  \/ Kind(r) = "create" /\ ~Exists(r, EffectOf(r))
  \/ Kind(r) = "deferred" /\ tx[r].st = "open"

Refused(r) ==
  \/ Kind(r) = "bad"
  \/ Kind(r) = "create" /\ Exists(r, EffectOf(r))
  \/ Kind(r) = "deferred" /\ tx[r].st = "auto"

\* The next statement of r waits until the transaction of s has ended: s is making
\* the same thing, or recording the same version.
WaitsFor(r, s) ==
  /\ r # s
  /\ \/ /\ pc[r] = "exec" /\ MoreStatements(r)
        /\ Kind(r) = "create" /\ ~Exists(r, EffectOf(r)) /\ MadeIn(s, EffectOf(r))
     \/ pc[r] = "record" /\ \E row \in tx[s].rows : row.version = Current(r)

\* The statement succeeds.
RunStatement(r) ==
  /\ pc[r] = "exec" /\ Live(r) /\ MoreStatements(r)
  /\ Accepted(r)
  /\ \A s \in Runners : ~WaitsFor(r, s)
  /\ Executed(r)
  /\ Advance(r)
  /\ UNCHANGED <<pc, command, conn, inputs, todo, body, result>>

\* A COMMIT inside the file; outside a block it is only a warning.
RunCommit(r) ==
  /\ pc[r] = "exec" /\ Live(r) /\ MoreStatements(r)
  /\ Kind(r) = "commit"
  /\ \/ tx[r].st = "open" /\ Publish(r, "auto")
     \/ tx[r].st = "auto" /\ UNCHANGED dbVars
  /\ Advance(r)
  /\ UNCHANGED <<pc, command, conn, inputs, todo, body, result>>

StatementFails(r) ==
  /\ pc[r] = "exec" /\ Live(r) /\ MoreStatements(r)
  /\ \/ Refused(r) /\ Refuse(r)
     \/ /\ Kind(r) = "commit" /\ tx[r].st = "open" /\ tx[r].doomed
        /\ Discard(r, "none")
  /\ FailsCurrent(r, "statement")
  /\ UNCHANGED <<command, conn, inputs, loop>>

StatementsDone(r) ==
  /\ pc[r] = "exec" /\ ~MoreStatements(r)
  /\ Goto(r, "record")
  /\ UNCHANGED <<dbVars, command, conn, inputs, loop, result>>

\* The checksum is the one Discover computed.
RowFor(r) ==
  [version |-> Current(r), sum |-> disc[r][Current(r)], by |-> r, body |-> body[r]]

MutRecorded(r) ==
  /\ history' = history \cup {RowFor(r)}
  /\ UNCHANGED <<table, schema, tx, owner, waiting, sessions>>

MutOnlyRehearsed(r) ==
  IF DryRuns(r) THEN Insert(r, RowFor(r)) ELSE UNCHANGED dbVars

Recorded(r) == Insert(r, RowFor(r))

MutAfterRecord(r) ==
  /\ Finishes(r)
  /\ Goto(r, IF DryRuns(r) THEN "check" ELSE "commit")
  /\ UNCHANGED <<failed, why, exit>>

\* For dry-run the iteration ends here, for apply at the COMMIT.
AfterRecord(r) ==
  \/ /\ DryRuns(r)
     /\ Finishes(r)
     /\ Goto(r, "check")
     /\ UNCHANGED <<failed, why, exit>>
  \/ /\ Applies(r)
     /\ Goto(r, "commit")
     /\ UNCHANGED <<loop, result>>

\* INSERT through the transaction.
RecordMigration(r) ==
  /\ pc[r] = "record" /\ Live(r)
  /\ ~InsertMustWait(r, Current(r))
  /\ ~KeyTaken(r, Current(r))
  /\ Recorded(r)
  /\ AfterRecord(r)
  /\ UNCHANGED <<command, conn, inputs>>

RecordFails(r) ==
  /\ pc[r] = "record" /\ Live(r)
  /\ ~InsertMustWait(r, Current(r))
  /\ KeyTaken(r, Current(r))
  /\ Refuse(r)
  /\ FailsCurrent(r, "record")
  /\ UNCHANGED <<command, conn, inputs, loop>>

Knot(S) == S # {} /\ \A r \in S : \E s \in S : WaitsFor(r, s)

\* r is in a cycle, which is a smallest knot.  (A runner that waits for the table
\* or for the lock has done nothing yet that others wait for.)
InCycle(r) ==
  \E S \in SUBSET Runners :
     r \in S /\ Knot(S) /\ \A T \in SUBSET S : Knot(T) => T = S

\* The server detects the cycle and makes an error of the statement of one of the
\* runners in it; the code does with it what it does with any other error.
LosesDeadlock(r) ==
  /\ Live(r) /\ InCycle(r)
  /\ Refuse(r)
  /\ FailsCurrent(r, "deadlock")
  /\ UNCHANGED <<command, conn, inputs, loop>>

SendCommit(r) ==
  /\ pc[r] = "commit" /\ Live(r)
  /\ AskCommit(r)
  /\ Goto(r, "commitWait")
  /\ UNCHANGED <<command, conn, inputs, loop, result>>

\* The reply to COMMIT; after an error the Rollback call has no transaction
\* to act on.
CommitReturns(r) ==
  /\ pc[r] = "commitWait" /\ Live(r)
  /\ \/ /\ tx[r].st = "committed"
        /\ Finishes(r)
        /\ Goto(r, "check")
        /\ UNCHANGED <<failed, why, exit>>
     \/ /\ tx[r].st = "refused"
        /\ FailsCurrent(r, "commit")
        /\ UNCHANGED loop
  /\ Discard(r, "none")
  /\ UNCHANGED <<command, conn, inputs>>

Rollback(r) ==
  /\ pc[r] = "rollback" /\ conn[r] # "hung"
  /\ \/ Live(r) /\ Discard(r, "none")
     \/ ~Live(r) /\ UNCHANGED dbVars
  /\ Goto(r, "return")
  /\ UNCHANGED <<command, conn, inputs, loop, result>>

\* The result of a success cannot be written: the command fails all the same.
OutputFails(r) ==
  /\ r \in Muted
  /\ pc[r] = "return" /\ exit[r] = 0
  /\ FailsEarly(r, "output")
  /\ UNCHANGED <<dbVars, command, conn, inputs, loop>>

\* Unlock has a context of its own, without a deadline: if the server does not
\* answer, it waits for ever.
Stuck(r) == pc[r] = "return" /\ conn[r] = "hung" /\ Locks(r)

\* The deferred calls: Unlock, then closing the connection.
Return(r) ==
  /\ pc[r] = "return" /\ ~Stuck(r)
  /\ \/ Live(r) /\ EndSession(r)
     \/ ~Live(r) /\ UNCHANGED dbVars
  /\ conn' = [conn EXCEPT ![r] = "closed"]
  /\ Goto(r, "done")
  /\ UNCHANGED <<command, inputs, loop, result>>

-----------------------------------------------------------------------------
(***************************************************************************)
(* Calls that fail.                                                        *)
(***************************************************************************)

\* What the code at each call does with an error of the connection or of
\* the context.  The recheck inside Apply ignores it.
HandlesError(r) ==
  \/ /\ pc[r] \in {"idle", "look", "create", "read", "discover", "begin"}
     /\ FailsEarly(r, "call")
  \/ /\ pc[r] \in {"lock", "lockWait"}
     /\ FailsEarly(r, "lock")
  \/ /\ pc[r] = "check" /\ Applies(r) /\ todo[r] # {}
     /\ Goto(r, "file")
     /\ UNCHANGED result
  \/ /\ pc[r] = "file" \/ (pc[r] = "exec" /\ MoreStatements(r))
     /\ FailsCurrent(r, "call")
  \/ /\ pc[r] = "record"
     /\ FailsCurrent(r, "record")
  \/ /\ pc[r] \in {"commit", "commitWait"}
     /\ FailsCurrent(r, "commit")

\* A call on a connection that is gone.  Discover and, in a dry-run, ReadFile
\* do not use the connection.
NoticeLoss(r) ==
  /\ conn[r] = "lost"
  /\ pc[r] # "discover"
  /\ pc[r] = "file" => Applies(r)
  /\ HandlesError(r)
  /\ UNCHANGED <<dbVars, command, conn, inputs, loop>>

\* A call fails while the connection stays up: the context expired before the
\* call was sent, the server timed it out, the directory cannot be read.
CallFails(r) ==
  /\ r \in Faulty \cup Slow
  /\ Live(r) \/ pc[r] = "idle"
  /\ pc[r] \notin {"lockWait", "commitWait"}
  /\ HandlesError(r)
  /\ UNCHANGED <<dbVars, command, conn, inputs, loop>>

MutBounded(r) ==
  /\ pc[r] \notin {"idle", "lockWait", "discover", "return", "done", "crashed"}
  /\ pc[r] = "file" => Applies(r)

\* The calls to the server that carry the deadline of the command: all but the
\* deferred Unlock.
Bounded(r) ==
  /\ pc[r] \notin {"idle", "discover", "return", "done", "crashed"}
  /\ pc[r] = "file" => Applies(r)

\* The context expires during a call: the driver closes the connection.
CallExpires(r) ==
  /\ r \in Slow
  /\ conn[r] \in {"up", "hung"}
  /\ Bounded(r)
  /\ \/ HandlesError(r)
     \/ pc[r] = "rollback" /\ Goto(r, "return") /\ UNCHANGED result
  /\ conn' = [conn EXCEPT ![r] = "lost"]
  /\ UNCHANGED <<dbVars, command, inputs, loop>>

-----------------------------------------------------------------------------
(***************************************************************************)
(* The environment.                                                        *)
(***************************************************************************)

Running(r) == pc[r] \notin {"idle", "done", "crashed"}

LoseConnection(r) ==
  /\ r \in Faulty
  /\ Running(r) /\ Live(r)
  /\ conn' = [conn EXCEPT ![r] = "lost"]
  /\ UNCHANGED <<dbVars, pc, command, inputs, loop, result>>

\* The server stops answering r, and the connection does not break.
Hang(r) ==
  /\ r \in Hung
  /\ Running(r) /\ Live(r)
  /\ conn' = [conn EXCEPT ![r] = "hung"]
  /\ UNCHANGED <<dbVars, pc, command, inputs, loop, result>>

Crash(r) ==
  /\ r \in Faulty
  /\ Running(r)
  /\ Goto(r, "crashed")
  /\ conn' = [conn EXCEPT ![r] = "closed"]
  /\ UNCHANGED <<dbVars, command, inputs, loop, result>>

\* The server finds that the client has gone.
ServerDisconnect(r) ==
  /\ r \in sessions /\ conn[r] \in {"lost", "closed"}
  /\ EndSession(r)
  /\ UNCHANGED <<pc, command, conn, inputs, loop, result>>

\* Somebody changes or removes a file that r has discovered and not yet
\* finished.  (Before Discover, a change is another initial directory; once
\* the file is finished r does not look at it again.)
EditFile(r, v, content) ==
  /\ edits < MaxEdits
  /\ v \in todo[r]
  /\ Running(r)
  /\ dir[r][v] # content
  /\ dir' = [dir EXCEPT ![r][v] = content]
  /\ edits' = edits + 1
  /\ UNCHANGED <<dbVars, pc, job, conn, inputs, loop, result>>

-----------------------------------------------------------------------------
ClientStep(r) ==
  \/ RequestLock(r) \/ LockGranted(r)
  \/ LookTable(r) \/ CreateTable(r) \/ ReadHistory(r) \/ Discover(r)
  \/ BeginDryRun(r) \/ LoopEnds(r) \/ SkipApplied(r) \/ NotApplied(r)
  \/ RejectFile(r) \/ ReadFile(r)
  \/ RunStatement(r) \/ RunCommit(r) \/ StatementFails(r) \/ StatementsDone(r)
  \/ RecordMigration(r) \/ RecordFails(r) \/ LosesDeadlock(r)
  \/ SendCommit(r) \/ CommitReturns(r)
  \/ Rollback(r) \/ Return(r) \/ NoticeLoss(r)

ServerStep(r) ==
  \/ (GrantLock(r) \/ ServerCommit(r))
     /\ UNCHANGED <<pc, command, conn, inputs, loop, result>>
  \/ ServerDisconnect(r)

Fault(r) ==
  \/ CallFails(r) \/ CallExpires(r) \/ MisreadHistory(r) \/ OutputFails(r)
  \/ LoseConnection(r) \/ Hang(r) \/ Crash(r)
  \/ \E v \in Versions, content \in Contents \cup {NoFile} : EditFile(r, v, content)

\* Every runner has ended, and so has its session, but for those that wait for
\* ever in Unlock.
Terminated ==
  /\ \A r \in Runners :
       Stuck(r) \/ (pc[r] \in {"done", "crashed"} /\ r \notin sessions)
  /\ UNCHANGED vars

Next ==
  \/ \E r \in Runners : Connect(r) \/ ClientStep(r) \/ ServerStep(r) \/ Fault(r)
  \/ Terminated

\* A started program goes on, the server answers unless it hangs, and a
\* deadline strikes when it comes; nobody has to start a runner, and nothing
\* has to go wrong.
Fairness ==
  \A r \in Runners :
    /\ WF_vars(ClientStep(r))
    /\ WF_vars(CallExpires(r))
    /\ WF_vars(/\ conn[r] # "hung"
               /\ GrantLock(r) \/ ServerCommit(r)
               /\ UNCHANGED <<pc, command, conn, inputs, loop, result>>)
    /\ WF_vars(ServerDisconnect(r))

Spec == Init /\ [][Next]_vars /\ Fairness

-----------------------------------------------------------------------------
(***************************************************************************)
(* Safety.                                                                 *)
(***************************************************************************)

\* No file contains a COMMIT of its own.
NoTxControl ==
  \A content \in Contents : \A i \in DOMAIN Script[content] :
     Script[content][i] # "commit"

\* Some runner has such a file.
SomeCommit ==
  \E r \in Runners, v \in Versions :
     /\ dir[r][v] \in Contents
     /\ \E i \in DOMAIN Script[dir[r][v]] : Script[dir[r][v]][i] = "commit"

\* The runners that suffer no fault of their own.
Healthy == Runners \ (Faulty \cup Slow \cup Hung \cup Misled \cup Muted)

\* Nobody uses --no-lock.
AllLock == \A r \in Runners : Applies(r) \/ DryRuns(r) => Locks(r)

\* The atomicity the tool is for (apply.Apply: one transaction holds both the
\* statements and the INSERT): whatever crashes, times out or runs at the
\* same time, the schema is exactly what the recorded migrations make of it,
\* each executed once, as a whole, by the runner that recorded it.
HistoryMatchesSchema ==
  /\ schema = UNION {EffectsOfRow(row) : row \in history}
  /\ \A row1, row2 \in history : row1.version = row2.version => row1 = row2

\* Mutual exclusion (lock.Lock before the history is read, Unlock last): a
\* runner that locks has a transaction only while its session holds the lock,
\* so that two of them never have one at the same time, and the lock of a
\* dead runner is not passed on before its transaction is gone.
WorkOnlyUnderLock ==
  \A r \in Runners : Locks(r) /\ tx[r].st # "none" => owner = r

\* Strict order (ValidateAndSort, the loop of Apply and its recheck): when a
\* migration is recorded, every lower version that its runner had discovered
\* is recorded already, with or without the lock.
NothingSkippedBelow ==
  \A row \in history, u \in Versions :
     u < row.version /\ disc[row.by][u] # NoSum => u \in RecordedVersions

\* Result.Applied is appended after Commit returned: what apply reports as
\* applied is in the history, recorded by this very runner.
AppliedIsDurable ==
  \A r \in Runners : Applies(r) =>
     \A v \in done[r] : \E row \in history : row.version = v /\ row.by = r

\* Exit code 0 of apply and of status: every file that was discovered is
\* recorded; and where everybody locks, with the checksum it was discovered
\* with.
ExitZeroMeansUpToDate ==
  \A r \in Runners : exit[r] = 0 /\ job[r].cmd \in {"apply", "status"} =>
     \A v \in Versions : disc[r][v] # NoSum =>
        /\ v \in RecordedVersions
        /\ AllLock => HistorySums[v] = disc[r][v]

\* A plan made under the lock does not go stale: while its runner works it
\* off, the files left are still exactly the discovered ones without a row
\* (so the recheck in Apply never skips anything when everybody locks).
PlanStaysFresh ==
  AllLock =>
    \A r \in Runners :
       Locks(r) /\ Live(r) /\ pc[r] \in {"check", "file", "exec", "record", "commit"}
       => (DryRuns(r) => todo[r] \cup done[r] = Unapplied(disc[r], HistorySums))
          /\ (Applies(r) => todo[r] = Unapplied(disc[r], HistorySums))

\* dry-run, status and plan leave neither a row nor an effect behind, and
\* dry-run not even the table (DryRun: one transaction, always rolled back).
ReadersLeaveNoTrace ==
  /\ \A row \in history : Applies(row.by)
  /\ \A effect \in schema : Applies(effect.by)
  /\ table # NoOne => ~DryRuns(table)

\* What a rehearsal foretells (DryRun ends with exit code 0): where everybody locks,
\* no file ends its own transaction and nobody misreads the history, an apply of the
\* same directory, if the files do not change, fails on no file that was rehearsed,
\* whoever works in between, unless at its COMMIT, which is where the server checks
\* deferred constraints and where a rehearsal never gets, or because a call is lost
\* (or at the record).  Otherwise it may also fail because what the file makes is
\* there already, or as the victim of a deadlock, but for nothing else.
RehearsalForetells ==
  \A d, a \in Runners :
     DryRuns(d) /\ exit[d] = 0 /\ Applies(a) /\ dir[a] = dir[d] /\ edits = 0 =>
       \A v \in failed[a] \cap done[d] :
          \/ why[a] \in {"commit", "record", "call"}
          \/ /\ ~AllLock \/ SomeCommit \/ Misled # {}
             /\ \/ why[a] = "deadlock"
                \/ why[a] = "statement" /\ \E effect \in schema : effect.body = dir[a][v]

\* What Apply reports as failed and rolled back was rolled back for good,
\* unless the call that failed was COMMIT itself.
FailedIsRolledBack ==
  \A r \in Runners : why[r] # "commit" =>
     \A v \in failed[r] :
        /\ \A row \in history : ~(row.version = v /\ row.by = r)
        /\ \A effect \in schema : ~(effect.version = v /\ effect.by = r)

\* A runner that suffers no fault of its own is not disturbed by the others
\* when everybody locks: it never loses the race for the table, a row or the
\* lock and is in no deadlock, whatever happens to them.  (status and plan do
\* not lock, and may create the table at the same time: the run leaves them out.)
UndisturbedUnderLock ==
  AllLock =>
    \A r \in Healthy :
       Locks(r) => why[r] \notin {"call", "lock", "table", "record", "deadlock"}

-----------------------------------------------------------------------------
(***************************************************************************)
(* What the documentation says, where the code does something else.        *)
(***************************************************************************)

\* docs/advisory_locking.md: a waiter unblocks when the leader has finished
\* and exits with code 0; README.md: the rest wait.  The timeout of
\* config.DefaultTimeout, "for database ping and handshake operations", covers
\* the wait as well.
WaitersDoNotFail ==
  [][\A r \in Runners :
       pc[r] = "lockWait" /\ owner \in Runners \ {r} => exit'[r] # 1]_vars

\* docs/apply_command.md: a failed migration, commit failures included, rolls
\* back completely.  The error of Commit does not tell that it did.
FailedAlwaysRolledBack ==
  \A r \in Runners : \A v \in failed[r] :
     \A row \in history : ~(row.version = v /\ row.by = r)

\* docs/schema_history.md: the checksum is that of the file's content at the
\* time of execution.  It is taken by Discover, before the file is read again.
ChecksumOfWhatRan ==
  \A row \in history : row.sum = Checksum(row.body)

-----------------------------------------------------------------------------
(***************************************************************************)
(* Refinement: seen through its history table and schema, the system is a  *)
(* log to which migrations are appended, each at most once and as a whole. *)
(***************************************************************************)

LogEntry(row) == [version |-> row.version, body |-> row.body, by |-> row.by]

Log == INSTANCE MigrationLog
         WITH log <- {LogEntry(row) : row \in history}, effects <- schema

\* Every step of the runners, the server and the faults is an append or
\* leaves the log and the schema alone.
ImplementsLog == Log!Spec

-----------------------------------------------------------------------------
(***************************************************************************)
(* Liveness.                                                               *)
(***************************************************************************)

\* Nothing waits for ever on the lock, the table, a row, another transaction that
\* waits, a dead runner or a silent server: every run ends, and the server
\* forgets its session (with its lock).  One call has no deadline: Unlock, which
\* may keep a runner, and its lock, for ever (the others then fail, at their own
\* deadline).
EveryRunEnds ==
  \A r \in Runners :
     pc[r] # "idle" ~>
       Stuck(r) \/ (pc[r] \in {"done", "crashed"} /\ r \notin sessions)

\* A runner without a fault of its own that applies under the lock gets
\* there, even if the one before it crashed at any point (directories are
\* the same and their files are in order, see the run).
SurvivorSucceeds ==
  \A r \in Healthy :
     pc[r] # "idle" /\ Applies(r) ~> pc[r] = "done" /\ exit[r] = 0
=============================================================================
