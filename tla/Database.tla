------------------------------ MODULE Database ------------------------------
(***************************************************************************)
(* PostgreSQL as schemago uses it through database/sql and pgx: sessions,  *)
(* one transaction per session, one session-level advisory lock, the       *)
(* history table, and the schema the migrations change.  None of it is     *)
(* under src/: this module states what the code relies on, statement by    *)
(* statement, and Runner.tla says when each statement is sent.             *)
(*                                                                         *)
(* Isolation is READ COMMITTED, the server's default: a statement sees the *)
(* committed state of the moment it runs, and what its own transaction has *)
(* done.  A unique key and a creation are serialised by waiting for the    *)
(* other transaction.                                                      *)
(***************************************************************************)
EXTENDS Migrations

CONSTANTS
  Runners,    \* the invocations of the program, each with its own session
  NoOne       \* no runner

ASSUME NoOneAssumption == NoOne \notin Runners

VARIABLES
  table,      \* the runner that created the history table, or NoOne
  history,    \* the committed rows of the history table
  schema,     \* the committed effects of the migrations' statements
  tx,         \* tx[r]: the transaction of r's session
  owner,      \* the session holding the advisory lock, or NoOne
  waiting,    \* the sessions waiting in pg_advisory_lock
  sessions    \* the sessions the server has not ended yet

dbVars == <<table, history, schema, tx, owner, waiting, sessions>>

(***************************************************************************)
(* A row also tells who wrote it and which content was executed for it, an *)
(* effect which statement of which content made it: neither is stored by   *)
(* the program, both are there for the properties.                         *)
(***************************************************************************)
Rows ==
  [version : Versions, sum : Checksums, by : Runners, body : Contents]

Effects ==
  [version : Versions, body : Contents, by : Runners, stmt : Nat \ {0}]

(***************************************************************************)
(* st     "none"        no transaction                                     *)
(*        "open"        in a transaction block                             *)
(*        "auto"        the block was ended by a COMMIT inside a file: what *)
(*                      the client still believes to be in its transaction *)
(*                      is committed at once                               *)
(*        "committing"  the server has the client's COMMIT to execute      *)
(*        "committed", "refused"   it has executed it, the reply is on its *)
(*                      way                                                *)
(* doomed says that the server will refuse the COMMIT: a statement failed, *)
(* or a deferred constraint does not hold.                                 *)
(***************************************************************************)
Transactions ==
  [st     : {"none", "open", "auto", "committing", "committed", "refused"},
   ddl    : SUBSET Effects,
   rows   : SUBSET Rows,
   mk     : BOOLEAN,
   doomed : BOOLEAN]

NoTx ==
  [st |-> "none", ddl |-> {}, rows |-> {}, mk |-> FALSE, doomed |-> FALSE]

OpenTx == [NoTx EXCEPT !.st = "open"]

DatabaseTypeOK ==
  /\ table \in Runners \cup {NoOne}
  /\ history \subseteq Rows
  /\ schema \subseteq Effects
  /\ tx \in [Runners -> Transactions]
  /\ owner \in Runners \cup {NoOne}
  /\ waiting \subseteq Runners
  /\ sessions \subseteq Runners

\* A fresh database: nobody has run the program against it yet.
DatabaseInit ==
  /\ table = NoOne
  /\ history = {}
  /\ schema = {}
  /\ tx = [r \in Runners |-> NoTx]
  /\ owner = NoOne
  /\ waiting = {}
  /\ sessions = {}

-----------------------------------------------------------------------------
(***************************************************************************)
(* What a statement sees.                                                  *)
(***************************************************************************)

EffectsOfRow(row) == EffectsOf(row.version, row.body, row.by)

RecordedVersions == {row.version : row \in history}

\* SELECT version, checksum: the rows as a map.
HistorySums ==
  [v \in Versions |->
     IF v \in RecordedVersions
     THEN (CHOOSE row \in history : row.version = v).sum
     ELSE NoSum]

TableVisible(r) == table # NoOne \/ tx[r].mk

\* The statement waits for the other transactions that hold the same key.
CreateMustWait(r) == \E s \in Runners \ {r} : tx[s].mk

InsertMustWait(r, v) ==
  \E s \in Runners \ {r} : \E row \in tx[s].rows : row.version = v

MutKeyTaken(r, v) == FALSE

\* To the server two effects are the same if one statement of one content makes
\* them, whoever runs it and whatever the version of the file.
Alike(e, f) == e.body = f.body /\ e.stmt = f.stmt

\* What the statement would make is there.
Exists(r, effect) == \E e \in schema \cup tx[r].ddl : Alike(e, effect)

\* The transaction of s has made it, and has not ended.
MadeIn(s, effect) == \E e \in tx[s].ddl : Alike(e, effect)

\* The primary key of the history table.
KeyTaken(r, v) == \E row \in history \cup tx[r].rows : row.version = v

-----------------------------------------------------------------------------
(***************************************************************************)
(* Statements, as relations between the database before and after.         *)
(***************************************************************************)

OpenSession(r) ==
  /\ sessions' = sessions \cup {r}
  /\ UNCHANGED <<table, history, schema, tx, owner, waiting>>

Begin(r) ==
  /\ tx' = [tx EXCEPT ![r] = OpenTx]
  /\ UNCHANGED <<table, history, schema, owner, waiting, sessions>>

\* CREATE TABLE: in a transaction block it is published by its COMMIT.
MakeTable(r) ==
  \/ /\ tx[r].st = "open"
     /\ tx' = [tx EXCEPT ![r].mk = TRUE]
     /\ UNCHANGED <<table, history, schema, owner, waiting, sessions>>
  \/ /\ tx[r].st # "open"
     /\ table' = r
     /\ UNCHANGED <<history, schema, tx, owner, waiting, sessions>>

\* A statement of a migration, successful so far.
Execute(r, effect, violates) ==
  \/ /\ tx[r].st = "open"
     /\ tx' = [tx EXCEPT ![r].ddl = @ \cup {effect},
                         ![r].doomed = @ \/ violates]
     /\ UNCHANGED <<table, history, schema, owner, waiting, sessions>>
  \/ /\ tx[r].st = "auto"
     /\ schema' = schema \cup {effect}
     /\ UNCHANGED <<table, history, tx, owner, waiting, sessions>>

\* A statement that fails: the block, if there is one, can only roll back.
Refuse(r) ==
  /\ tx' = [tx EXCEPT ![r].doomed = (tx[r].st = "open")]
  /\ UNCHANGED <<table, history, schema, owner, waiting, sessions>>

Insert(r, row) ==
  \/ /\ tx[r].st = "open"
     /\ tx' = [tx EXCEPT ![r].rows = @ \cup {row}]
     /\ UNCHANGED <<table, history, schema, owner, waiting, sessions>>
  \/ /\ tx[r].st = "auto"
     /\ history' = history \cup {row}
     /\ UNCHANGED <<table, schema, tx, owner, waiting, sessions>>

\* COMMIT of a block in good order; next is what follows it in the session.
Publish(r, next) ==
  /\ ~tx[r].doomed
  /\ history' = history \cup tx[r].rows
  /\ schema' = schema \cup tx[r].ddl
  /\ table' = IF tx[r].mk THEN r ELSE table
  /\ tx' = [tx EXCEPT ![r] = [NoTx EXCEPT !.st = next]]
  /\ UNCHANGED <<owner, waiting, sessions>>

\* ROLLBACK, and what a refused COMMIT does.
Discard(r, next) ==
  /\ tx' = [tx EXCEPT ![r] = [NoTx EXCEPT !.st = next]]
  /\ UNCHANGED <<table, history, schema, owner, waiting, sessions>>

\* The client has sent COMMIT; from here on the server may execute it
\* whatever becomes of the client.
AskCommit(r) ==
  /\ tx' = [tx EXCEPT ![r].st = "committing"]
  /\ UNCHANGED <<table, history, schema, owner, waiting, sessions>>

AskLock(r) ==
  /\ waiting' = waiting \cup {r}
  /\ UNCHANGED <<table, history, schema, tx, owner, sessions>>

\* A session-level advisory lock lives as long as its session.
LockFreed(r) == IF owner = r THEN NoOne ELSE owner

\* The server ends the session of r: it rolls back, and frees its locks.
EndSession(r) ==
  /\ sessions' = sessions \ {r}
  /\ tx' = [tx EXCEPT ![r] = NoTx]
  /\ owner' = LockFreed(r)
  /\ waiting' = waiting \ {r}
  /\ UNCHANGED <<table, history, schema>>

-----------------------------------------------------------------------------
(***************************************************************************)
(* Steps of the server's own.                                              *)
(***************************************************************************)

GrantLock(r) ==
  /\ r \in waiting
  /\ owner = NoOne
  /\ owner' = r
  /\ waiting' = waiting \ {r}
  /\ UNCHANGED <<table, history, schema, tx, sessions>>

ServerCommit(r) ==
  /\ tx[r].st = "committing"
  /\ \/ Publish(r, "committed")
     \/ tx[r].doomed /\ Discard(r, "refused")
=============================================================================
