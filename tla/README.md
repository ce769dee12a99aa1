# schemago in TLA+

A verification project for schemago, a standalone migration runner for
PostgreSQL: models of what its commands do, checked with TLC, and theorems about
them, checked with TLAPS. The reference is the Go source under `src/internal`;
paths below are relative to that directory.

## 1. The system

One invocation of schemago is one command against one database and one
directory of `.sql` files: `status` (what has run), `plan` (what would run),
`apply` (run it, a transaction per file), `dry-run` (run it in one transaction
and roll back). Many invocations may run at once, typically the pods of a
deployment, each with its own copy of the directory, not always of the same
release.

| Component | State | Operations | Interacts with |
|---|---|---|---|
| `cli` handlers | one context with a 5 s deadline, one connection | `handleStatus`, `handlePlan`, `handleApply`, `handleDryRun`: a fixed sequence of calls, each error ends the command with code 1 | everything below |
| `lock` | `locked`, `isFallback`, a mutex; on the server, the owner of `pg_advisory_lock` | `Lock`, `TryLock`, `Unlock`, `IsLocked` | the session of `apply` and `dry-run` |
| `history` | the history table: version (primary key), name, time, checksum | `EnsureTable`, `RecordMigration`, `GetAppliedMigrations`, `ComputePending` | all commands |
| `apply` | `Result`, the current transaction | `Apply`, `IsNonTransactional` | files, history, transaction |
| `dryrun` | the same, one transaction | `DryRun` | the same |
| `status`, `plan` | none | `BuildReport`, `ExitCode`, `BuildPlan` | history and files |
| `migration` | none | `Discover`, `ParseFilename`, `ValidateAndSort`, `ComputeChecksum`, `SplitStatements` | the directory |
| `config`, `ParseFlags` | none | arguments and environment to a command and its settings | the handlers |
| `db`, `cmd` | none | connection, exit | |

What is hard, and what makes each part correct:

- **Concurrency.** The handlers exclude each other only by the advisory lock,
  which `--no-lock` omits and `status` and `plan` never take. With the lock, the
  plan a runner has made stays valid (`PlanStaysFresh`, `WorkOnlyUnderLock`,
  `UndisturbedUnderLock`). Without it, the recheck in `Apply` and the primary key
  have to keep history and schema right (`HistoryMatchesSchema`,
  `NothingSkippedBelow`, `ExitZeroMeansUpToDate`). The lock object itself may be
  called by many threads and falls back to a mutex of its process
  (`FlagsTellTheTruth`, `HoldersExclude`, `ImplementsMutexes`, `EveryCallReturns`).
- **Failure.** A runner can die, lose its connection, meet a silent server or run
  into its deadline at every call. A migration and its record are committed
  together or not at all (`HistoryMatchesSchema`, `FailedIsRolledBack`,
  `AppliedIsDurable`), the lock of a dead runner is passed on only after its
  transaction is gone, and is passed on (`EveryRunEnds`, `SurvivorSucceeds`).
- **Rehearsal.** A dry-run leaves nothing behind (`ReadersLeaveNoTrace`) and
  foretells the apply (`RehearsalForetells`).
- **Agreement.** `status` is computed by other code than `plan` and `apply`
  (`StatusAgreesWithPlan`, `CountsAddUp`).
- **Files** change between the moment they are hashed and the moment they run
  (`ChecksumOfWhatRan`), and while the directory is scanned (`NothingIgnored`,
  `GateMeansApplied`).
- **Text.** Statements are cut by a lexer that must agree with the server's
  (`SplitsAsServerReads`, `LinesAreRight`), flags are read by hand
  (`FlagsMeanWhatTheySay`).

`PROJECT.json` lists every component, and under `hazards` each place in the code
where one of these bites, with the properties for it.

## 2. The modules

| Module | Models |
|---|---|
| `Migrations` | The pure part: checksums, `ComputePending`, the order of files, `BuildReport` and its exit code. A list of files or rows is a function from versions to checksums. |
| `Database` | PostgreSQL as the code relies on it (external): sessions, a transaction each, READ COMMITTED, the waits of `INSERT` and `CREATE TABLE`, the session's advisory lock, COMMIT as a request that the server executes later. |
| `Runner` | The commands, call by call: `cli.go`'s handlers, `Apply`, `DryRun`, and what each does with an error. Faults and changes of files are actions of the environment. |
| `MigrationLog` | The abstract specification: a log to which whole migrations are appended, no version twice. |
| `AdvisoryLock` | The objects of `lock.go` with their flags and mutex, called by threads in any order, the server's reentrant lock, and the fallback mutex of a process. |
| `Mutexes` | The abstract specification of locking: places, each with one holder at a time. |
| `Workspace` | `Discover`, entry by entry, in a directory that changes meanwhile, what the handlers make of its errors, and the conclusions of `status`, `plan` and `apply` from its result. |
| `Splitter` | `SplitStatements`, line by line and character by character, against a reference definition of PostgreSQL's lexical structure. |
| `Commands` | `ParseFlags`, the dispatch of `RunWithWriters`, the precedence of `config`. |
| `MCRunner`, `MCAdvisoryLock`, `MCInputs` | Constants for TLC. `MCInputs` puts `Workspace`, `Splitter` and `Commands` side by side: they share no state, and each is explored while the others rest. |
| `MigrationsProofs`, `RunnerProofs`, `OutcomeProofs`, `OrderProofs`, `AdvisoryLockProofs`, `InputProofs`, `SplitterProofs` | Theorems. `InputProofs` is about `Workspace` and `Commands`. |
| `LoopInduction` | Induction over the turns of a loop, which the proofs about parsers rest on. |

`Runner` EXTENDS `Database` EXTENDS `Migrations`; `Workspace` EXTENDS
`Migrations`; `Runner` instantiates `MigrationLog` with
`log <- {LogEntry(row) : row \in history}` and `effects <- schema`. `AdvisoryLock`
instantiates `Mutexes` with a place for the server and one for each process, and as the
holders of a place the objects that have their lock there and of which a caller was
told so.

### How Runner corresponds to the code

`pc[r]` is the call runner `r` makes next: `lock`/`lockWait` are
`AdvisoryLock.Lock` before and after the request reached the server;
`look`/`create` the two halves of `CREATE TABLE IF NOT EXISTS` in `EnsureTable`;
`read` `GetAppliedMigrations`; `discover` `Discover` and the computation after it;
`begin` the `BeginTx` of `DryRun`; `check` the head of the loops, with the recheck
of `Apply`; `file` `ReadFile`, `IsNonTransactional` and the `BeginTx` of `Apply`;
`exec` the statements; `record` `RecordMigration`; `commit`/`commitWait` `Commit`
before and after the request is sent; `rollback` and `return` the deferred calls.

- `seen` and `disc` are the rows and the files as the handler got them, `todo` the
  part of the pending slice that its loop has not finished (a set: the loop takes
  its lowest version, `NextFile`), `body` the content `ReadFile` returned, `at` the
  statement sent next, `done` and `failed` are `Result.Applied` and
  `Result.Failed`, `exit` is the exit code.
- Every call is one action, or two where the server may do something between the
  request and the reply (the lock, COMMIT, `CREATE TABLE`). What runs between two
  calls is part of the action before it. The deferred `Unlock` and the closing of
  the connection are one action: nobody else can tell the two releases apart.
- A statement is known by its kind: `ok` (succeeds however often), `create` (succeeds
  unless what it makes is there), `bad`, `deferred` (a constraint checked at COMMIT),
  `commit`, `nontx` (what `IsNonTransactional` finds). The outcome is the server's, by
  the schema it finds (`Accepted`, `Refused`): the same file fails where its table was
  left behind by a rehearsal with a COMMIT in it, or made by a runner without the lock.
  Two effects are the same to the server (`Alike`) if one statement of one content
  makes them. An effect names the version, the content, the runner and the statement,
  so that one executed twice, or half a migration, is visible in `schema`.
- A statement that would make what an open transaction has made waits for its end, as
  an INSERT of the same version does (`WaitsFor`). Where runners wait in a circle, the
  server fails the statement of one of them, any one (`LosesDeadlock`); to the code it
  is an error of that statement like any other.
- A row carries two fields the table has not: the runner and the content executed
  for it. Properties need them, actions never read them.
- `status` and `plan` use a pool instead of a pinned connection. They keep nothing
  in the session, so one session stands for the pool.
- Failure: `CallFails` (the call returns an error, the connection stays),
  `CallExpires` (the deadline strikes during a call; the driver closes the
  connection), `LoseConnection` (the client notices at its next call, `NoticeLoss`),
  `Hang` (the server stops answering; only the deadline ends such a call, and
  `Unlock`, whose context has none, is `Stuck`), `MisreadHistory` (an error that
  contains "does not exist"), `OutputFails` (the result cannot be written), `Crash`.
  The server ends the session of a client that is gone at some later moment
  (`ServerDisconnect`), possibly after it has executed a COMMIT that was on its way,
  or granted a lock nobody waits for any more. Whatever the call, `HandlesError`
  says what the code does with the error. The recheck of `Apply` alone ignores it.

### The other modules and the code

- **AdvisoryLock.** `locked` and `isFallback` are the fields, `mu[o]` the object's
  mutex (held from `SendQuery` to the return, as the deferred `Unlock` has it; a
  method without a query is one step), `fallback[p]` the mutex in
  `globalFallbackLocks`, `held[o]` how often the session of `o` holds the server's
  lock (it is reentrant), `holds` the threads that were told they have it. Errors:
  `QueryFails` (the lock may have been taken or kept all the same), `FallBack` and
  `TakeMutex` (the error looks like another driver's), `SessionEnds` (the object
  does not learn of it).
- **Workspace.** `ReadDir` takes the listing, the loop meets the names in order
  (`Skip`, `RefuseName`, `Hash`, `HashFails`, `HashFindsNothing`), `ValidateAndSort`
  ends it. `found`, `disc` are what the handler goes on with. `steady` are the
  entries that have not changed since they were listed: it is there for the
  properties.
- **Splitter.** A text is a sequence of those characters that the lexer tells apart,
  a statement a sequence of positions in it. `LexLine` is one turn of the outer loop,
  `Turn` one of the inner: it does what `Lex` says, or nothing if the loop's `i` has
  gone past the position. Both loops are recursive functions of the number of turns.
- **Commands.** An argument is a word, or a word with a value (`--dir=x`). `Parse`
  is one turn of `ParseFlags`' loop; `expects` stands for its `i++`. `Unpadded` tells
  which values have blanks at an end and what is left of them: `Resolve` returns the
  trimmed value (`TrimSpace`), and goes on to the environment where nothing is left.

## 3. What is checked

All runs of `Runner` use at most two versions, two or three runners, files of at
most three statements. TLC explores every interleaving within these bounds.

| Run | Instance | Shows |
|---|---|---|
| `three` | three locked runners, apply or dry-run, one faulty | `TypeOK`, `WorkOnlyUnderLock`, `PlanStaysFresh`, `AppliedIsDurable`, `UndisturbedUnderLock`, `RehearsalForetells`, `SurvivorSucceeds` (liveness) |
| `releases` | two runners, every command, lock or not, thirteen directories: seven of different releases, three with files that fail, three with COMMIT statements; nobody has a deadline | `NothingSkippedBelow`, `AppliedIsDurable`, `ExitZeroMeansUpToDate`, `RehearsalForetells` |
| `faults` | two runners, every command that writes or gates, lock or not, one with every fault but a silent server, one edit | `HistoryMatchesSchema`, `FailedIsRolledBack`, `ReadersLeaveNoTrace`, `ImplementsLog` |
| `ends` | every pair of commands, both with a deadline, one faulty, with a server that may fall silent and a result that may not be written | `EveryRunEnds` (liveness) |
| `lock` | two threads on one object, one on another, one process | `FlagsTellTheTruth`, `HoldersExclude`, `ImplementsMutexes`, `EveryCallReturns` (liveness) |
| `inputs` | six names, every history of two versions, one change during the scan; texts of up to five chunks; up to four arguments | `WorkspaceTypeOK`, `NothingIgnored`, `GateMeansApplied`, `StatusAgreesWithPlan`, `CountsAddUp`, `SplitsAsServerReads`, `LinesAreRight`, `FlagsMeanWhatTheySay` |

Deadlock is checked in every run of `Runner` and `AdvisoryLock`; in `Runner`
`Terminated` is the only state in which all may stop. In `releases`, where circles of
waits arise and no deadline breaks them, that is a check of its own: with the server's
detection of deadlocks nobody is left waiting. The runs of `MCInputs` stop at
their bounds (a text or a command line that is long enough), so they do not check it.

**Bounds.** Two runners are enough for every race between a pair of calls; the
third matters for who gets the lock next, and for what one runner may do between the
rehearsal of a second and the apply of a third (`three`). Two versions give
a lower and a higher file, a gap, and a failure before and after a success. A file
of two statements can be half executed; three statements put a COMMIT between two
others. `MaxEdits` is the number of changes of files; one change, at any moment
after `Discover`, already separates the recorded checksum from the content that
ran. `Faulty`, `Slow`, `Hung`, `Misled` and `Muted` say who may suffer which fault;
`three` and `ends` keep runners healthy because some properties are about the
healthy ones. Versions are small integers: the code only compares them.

In `lock`, two threads of one object race for its mutex, a third has the lock they
want; `MaxHeld` bounds how often a lost answer leaves the lock behind, and once is
enough to make a session hold what its object denies. In `inputs`, `MaxVersion`
stands for the largest int64 (the digits are two, so 63 is a number that some
exceed), the names include two of one number, a hidden one, one without a format
and one that is too large, and `MaxChanges` is per scan: before the scan the
directory changes freely. `MayBe` limits what each name may be. The chunks of
`Splitter` are its tokens, and five make a quote or a comment around a line break
or a semicolon. Four arguments hold a flag, its value, a command and a flag
behind it.

**Conditions.** `PlanStaysFresh`, `UndisturbedUnderLock` and the second half of
`ExitZeroMeansUpToDate` assume that nobody uses `--no-lock`, as their definitions
say (`releases` has both kinds of runs). `UndisturbedUnderLock` needs more: nobody
runs `status` or `plan` against a fresh database at the same time. Both create the
history table without the lock (`cli/cli.go:257`, `314`), two creations can
collide, and the loser may be an `apply` that holds the lock. A runner whose history
was misread has a stale plan, of course: `three` and `releases` leave that fault
out, `faults` shows that atomicity does not need them to. The atomicity properties
assume that no file contains a COMMIT: `releases` shows what still holds if one
does, `dry_run_commits` what does not. (In the same way an apply of such a file
leaves effects without a record if it fails after the COMMIT.) `RehearsalForetells`
leaves out files that changed since, and the errors a rehearsal cannot meet: at
COMMIT, at the record (a race) and of the connection. Under the lock, if no file has a
COMMIT and no history was misread, a rehearsed file fails an apply for nothing else,
whoever worked in between. Without one of these three the schema may change behind the
history's back, and a statement may find what it makes made already (by the rehearsal
itself, if its file has a COMMIT), or get into a deadlock; the property then says that it
fails for no other reason, and names what must be in the schema. `releases` has both
kinds of cases (with no history misread), `three` the first one with a third runner at work. `NothingIgnored` and
`GateMeansApplied` name their one exception, a directory that is taken for a
missing one (run `vanished`). `HoldersExclude` is about the threads of different
objects; those of one object are not excluded from each other, because `TryLock`
says yes to the second. `SplitsAsServerReads` and `LinesAreRight` are about texts in
which nothing is left open and nothing occurs that the lexer does not know
(`Plain`): comments in comments, and quotes, comments or semicolons in dollar quotes.

**Fairness.** `Spec` of `Runner` has weak fairness for a runner's own steps (a
started process goes on), for the deadline of a runner that has one striking when
it comes (`CallExpires`), for the server granting a free lock and executing a COMMIT
unless it hangs, and for the server ending the session of a client that is gone (it
does when it next reads from or writes to it, or by its keepalive). There is none
for starting a runner, and none for faults. A runner that waits for the lock, the
table or a row is disabled, so fairness asks nothing of it until what it waits for
is free; which waiter gets the lock is left open. `EveryRunEnds` makes one
exception: a runner may wait for ever in `Unlock`, the only call without a
deadline (`cli/cli.go:391`).

`Spec` of `AdvisoryLock` assumes that both mutexes are handed on in turn (Go's
mutex has a starvation mode that does), that a query of `Lock` and `TryLock` is
answered, by its deadline at the latest (the handlers' contexts have one), and that a
thread that was told it has the lock calls `Unlock` some time (the handlers defer it).
Nothing is assumed of the query of `Unlock`: the handlers pass `context.Background()`
(`cli/cli.go:391`, `483`), and it may never be answered. `Unlock` holds the object's
mutex meanwhile, so every later call on that object waits with it. `EveryCallReturns`
excepts these, and says that it keeps nobody else: the callers of other objects
return, with the lock or with an error. Without the fairness of holders it is false:
the wait for the fallback mutex ignores the context.

## 4. Where the code and its documents differ

Each run below expects a violation of one property, a sentence of the documents.

| Run | Property | The documents | The code |
|---|---|---|---|
| `waiter` | `WaitersDoNotFail` | `docs/advisory_locking.md:24`, `config/config.go:14`: a waiter unblocks and exits with 0; the timeout is for ping and handshake | `cli/cli.go:367`: one 5 s context covers the wait for the lock and all the work |
| `lost_reply` | `FailedAlwaysRolledBack` | `docs/apply_command.md:48`: a failed migration rolls back completely | `apply/apply.go:237`: an error of `Commit` does not tell whether it was executed |
| `edited` | `ChecksumOfWhatRan` | `docs/schema_history.md:27`: the checksum of the content at the time of execution | `apply/apply.go:143`, `208`: hashed by `Discover`, read again later |
| `dry_run_commits` | `ReadersLeaveNoTrace` | `docs/dry_run_command.md:47`: unconditionally rolled back | `dryrun/dryrun.go:100`: a COMMIT in the file ends the transaction that would be |
| `vanished` | `EmptyListMeansNoFiles` | `docs/apply_command.md:31`: "Nothing to apply", code 0, if nothing is pending | `cli/cli.go:408`: whatever does not exist, a dangling link or a file that has just gone, reads as a missing directory |
| `flags` | `InvalidFlagsAreRefused` | `cli/cli.go:62`, `64`, `docs/observability.md:41`: invalid flags end with code 2, `<command> --help` explains | `cli/cli.go:124`, `157`: an unknown flag behind the command is dropped: `apply --dry-run` applies |

## 5. What is proved

For any sets of versions, contents, runners, directories and command lines, any
number of edits and any faults, from the assumptions named in the modules (the
types of the constants, that versions are finitely many integers, and that a "none"
is none of the values). Every safety property of `Runner`, `AdvisoryLock`,
`Workspace`, `Commands` and `Splitter` that a passing run checks is proved, most as it
is checked, some under an assumption named below.

The proofs about `Runner` are layers, each an inductive invariant over the last:

| Module | Invariant | What it adds, and why the theorem needs it | Theorems |
|---|---|---|---|
| `RunnerProofs` | `ControlInv` | what a place in the program says of the loop: the current file exists where one is worked on, every pending file has a checksum. Without it `Current` and `RowFor` have no type | `TypeCorrect` |
| | `LockInv` | where a live locking runner must hold the lock, and that its transaction, alive or not, is covered by it. The second part alone is not inductive | `LockCoversWork` |
| | `KeyInv` | the unique key at work: no version is in the history or in a transaction twice, nor in both (`Apart`). Neither the lock nor the content of files matters | `RecordedOnce` |
| | `AtomicInv` | what a transaction holds: from nothing, over the effects of the statements before `at`, to all effects and the row, also when the client is gone but its COMMIT is on the way. The lock is not used | `Atomicity`, `Refinement` |
| `OutcomeProofs` | `OwnInv` | the rows in a transaction are its runner's own and on their way to COMMIT only the current file's; only `apply` gets to a COMMIT; before its loop a runner has no transaction | `NoTraces` |
| | `ResultInv` | the history against what its writer reports: a row of `r` is about a file `r` has finished, unless its COMMIT is under way or its outcome unknown | `AppliedIsInHistory`, `FailedLeftNothing` |
| | `RehearsedInv` | the statements a runner has got through were accepted, what a rehearsal has finished is sound, and what failed for a reason of its own is not, unless what it makes was there | `RehearsalsExplain` |
| `OrderProofs` | `OrderInv` | a discovered file is on the list or in the history, for each runner that works; a row in a transaction, also of a runner that is gone, has nothing unrecorded below it | `NothingSkipped` |
| | `FreshInv` | under the lock the plan is exactly what is left to do, but for the moment between the server's COMMIT and its reply | `PlanNeverStale`, `ExitZeroIsUpToDate` |
| | `LeaveNothing` | a session without a transaction holds nothing that others wait for, so under the lock all that is waited for is the lock's holder's, who waits for nobody (lemma `NoDeadlock`) | |
| | `UndisturbedInv` | the connection of a healthy runner stays up, and under the lock the table it is about to create does not exist and its rehearsal's rows are of files it has left | `NobodyIsDisturbed` |
| | `FilesInv`, `MatchInv` | while no file changes, a row's checksum is that of the content that ran, and a runner with the lock has in its directory the files of all that is recorded | |
| | `AheadInv`, `BlameInv` | a rehearsal gets past a file that makes something only if all others with the same content are still ahead of it, so one that ends with success has only one of them; and an apply fails at a statement of a sound file only if another file of its directory has the same content | `RehearsalsForetell` |

`Refinement` shows that each step is a stutter or an `AppendMigration` of
`MigrationLog` (lemma `StepOnRows`).

What the theorems assume beyond that is what they need. A file with a COMMIT of its own
ends the transaction in which `Apply` or `DryRun` runs it, so `Atomicity`, `Refinement`,
`NoTraces` and `FailedLeftNothing` assume `NoTxControl` (there is no such file), and so
do `PlanNeverStale`, whose plan would be stale from that COMMIT to the record of
the file, and `RehearsalsForetell`. `RecordedOnce`, `AppliedIsInHistory`, `NothingSkipped`,
`RehearsalsExplain`, `ExitZeroIsUpToDate` and `NobodyIsDisturbed` hold with such files.
`RehearsalsExplain` is the part of `RehearsalForetells` that needs neither the lock nor
good files: an apply fails on a rehearsed file for none of its own faults, and if for what is
there already, then something its content makes is in the schema. `RehearsalsForetell`
adds that under the lock this does not happen.
`PlanNeverStale`, `ExitZeroIsUpToDate` and `NobodyIsDisturbed` assume `Misled = {}` (no
other error reads as a missing table), and `NobodyIsDisturbed` that the jobs are
`apply` and `dry-run` (`OnlyWorkers`), for the reasons under "Conditions".

- `AdvisoryLockProofs`: `LockTypeCorrect`, `FlagsAreTrue`, `HoldersAreExclusive`,
  `LocksAreMutexes`, for any threads, objects and processes. `MutexInv` says that
  whoever is past the object's mutex finds the flags as it left them before its query
  was sent, `ServerInv` that the server's lock has one holder, whose session lives,
  `FlagsInv` which flags go with which lock. The refinement needs them on both sides of
  a step: a thread changes what its own object holds and nothing else (`ThreadMoves`),
  and what it takes was free, since afterwards its object is the only holder
  (`OneObjectMoves`).
- `InputProofs`: `WorkspaceTypeCorrect`, `NothingIsIgnored`, `GateIsSound`, for
  any names, entries and number of changes. `ScanInv` and `DiscoveryInv` say what the files
  collected so far have to do with the names passed so far: each steady one among
  them is in the list, with the checksum it still has.
  `StatusAlwaysAgrees` and `ReportCountsAddUp` need no more than the types.
  `ArgumentsAreUnderstood`, for any arguments and any environment.
  `ParsedAt` says what the loop of `ParseFlags` has made of the arguments so far, in
  terms of the arguments alone: which flag was the last of its kind, what is the
  first word that is neither a flag nor a value, and whose value comes next.
- `SplitterProofs`: `StatementsAreTheServers` and `LinesAreTheStatements`, for any
  text that `Plain` admits. `LexerInv` holds between two turns of the inner loop. It
  relates the lexer to the server's reading of the text up to `next`: the three flags
  are what the server is in (`FlagsInv`), `currentSQL` has every position of the
  open statement from the first that matters on (`SqlInv`), the first and the last of
  those are no blanks, so that `TrimSpace` does not get at them (`InkInv`: a blank in
  a quote has the quote's marks around it), the line is that of the first (`StartInv`),
  and what has been cut are the server's statements (`StmtsInv`). There is one lemma
  per case of `Lex`, by what the server makes of the character, three about what they
  do (`TakeStep`, `SkipStep`, `EmitStep`), and `LineStep` for a turn of the outer loop.
- `LoopInduction`: the library's induction theorems take the statement as an operator,
  which the provers cannot instantiate. Here the statement is a set of numbers
  (`SetInduction`), so a loop that is written as a recursive function can be proved
  about: that the function exists (`LoopStates`, and `GoodStates` for a loop that goes
  on from the states alone that an invariant allows), and what holds after each turn
  (`LoopInvariant`).

Model-checked only: the liveness properties `EveryRunEnds`, `SurvivorSucceeds` and
`EveryCallReturns` (fairness and ENABLED are outside the prover's reach), and the
violations of section 4, and `RehearsalForetells` where files with a COMMIT exist, but in
the directory of no runner (where one has it, the property is what `RehearsalsExplain`
says).

## 6. What is not modelled

- SQLite, which the tests use, and the choice of the driver in `db.Connect`; for
  `Runner` the lock is the server's, the fallback is modelled in `AdvisoryLock`.
- What one file needs of another (a column of a table made before), and statements that
  remove something: the schema only grows, and of earlier effects a statement knows only
  whether its own is among them. A file that fails for want of another is `bad` here.
- Output: tables, JSON, the wording of errors (`FormatError`), durations. That
  writing may fail is modelled.
- Dollar-quoted bodies with quotes, comments or semicolons, comments in comments,
  and `E''` strings, all of which the lexer in `statement.go` does not know: it cuts
  or joins there. `Plain` excludes the first two, the third is not in the alphabet.
- `GenerateLockID` (a hash: two tables are taken to have two keys and one table one),
  nil handles, `ValidateTableName`.
- The name and the time in a row: no code decides on them.
- SHA-256 is taken to be free of collisions.
- `main` hands its arguments to `cli.Run`; the integration tests.

## 7. Plan

Everything planned has been written. What would come next:

1. A file system and a server whose answers `Runner` shares with `Workspace` and
   `AdvisoryLock`: `Discover` is one step in `Runner`, and the lock does not fall
   back there. The composition would show what a misread error of `Lock` does to
   two pods (both work, as with `--no-lock`, which the runs cover), and what a runner
   does whose session ended under its lock.
2. Two history tables, and with them the key of the lock.
