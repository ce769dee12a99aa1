---------------------------- MODULE MigrationLog ----------------------------
(***************************************************************************)
(* What schemago promises of a database, whoever runs it and whatever goes *)
(* wrong: a log of migrations.  A migration is appended together with all  *)
(* of its effects on the schema in one step, and a version never twice.    *)
(***************************************************************************)
EXTENDS Migrations

CONSTANT Runners

VARIABLES
  log,        \* the migrations applied, with what was executed and by whom
  effects     \* what they did to the schema

logVars == <<log, effects>>

LogInit == log = {} /\ effects = {}

LogVersions == {entry.version : entry \in log}

\* A migration is applied: all of it, for the first time.
AppendMigration(v, content, r) ==
  /\ v \notin LogVersions
  /\ log' = log \cup {[version |-> v, body |-> content, by |-> r]}
  /\ effects' = effects \cup EffectsOf(v, content, r)

LogNext ==
  \E v \in Versions, content \in Contents, r \in Runners : AppendMigration(v, content, r)

Spec == LogInit /\ [][LogNext]_logVars
=============================================================================
