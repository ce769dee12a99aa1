----------------------------- MODULE Migrations -----------------------------
(***************************************************************************)
(* The pure part of schemago: what a migration file is, which of the       *)
(* discovered files are pending, and what the status report says of them.  *)
(*                                                                         *)
(* Sources: internal/migration/convention.go, internal/history/history.go, *)
(* internal/status/status.go, internal/apply/apply.go (IsNonTransactional).*)
(*                                                                         *)
(* A directory or a history table is seen by these functions only through  *)
(* "version -> checksum", so both are total functions on Versions that     *)
(* take the value NoSum where there is no file or no row.  The Go maps are *)
(* keyed by version, and Discover has rejected a directory with two files  *)
(* of one version before any of these functions runs.                      *)
(***************************************************************************)
EXTENDS Integers, Sequences, FiniteSets

CONSTANTS
  Versions,   \* the version numbers that may occur (int64 in the code)
  Contents,   \* the possible contents of a migration file
  Script,     \* Script[c]: the statements SplitStatements finds in c, by kind
  NoSum,      \* "no file" or "no row" for a version
  EmptySum    \* the empty checksum string a row may carry

(***************************************************************************)
(* What a statement is to the server that runs it:                         *)
(*   "ok"        it succeeds whatever is there, and however often: an      *)
(*               UPDATE, a CREATE ... IF NOT EXISTS                        *)
(*   "create"    it succeeds unless what it makes is there already         *)
(*   "bad"       the server refuses it                                     *)
(*   "deferred"  it succeeds, but violates a constraint that the server    *)
(*               checks only at COMMIT                                     *)
(*   "commit"    it is itself a COMMIT: it ends the transaction            *)
(*   "nontx"     the regular expression of IsNonTransactional matches it   *)
(***************************************************************************)
StatementKinds == {"ok", "create", "bad", "deferred", "commit", "nontx"}

\* Those that leave an effect.
Effective == {"ok", "create", "deferred"}

\* SHA-256 of the content: a value of its own, taken to be free of collisions.
Checksum(c) == <<"sha256", c>>

Checksums == {Checksum(c) : c \in Contents}

Sums == Checksums \cup {EmptySum, NoSum}

\* They are 64-bit integers.
ASSUME VersionsAssumption == Versions \subseteq Int /\ IsFiniteSet(Versions)

ASSUME ScriptAssumption == Script \in [Contents -> Seq(StatementKinds)]

ASSUME SumAssumption ==
  NoSum # EmptySum /\ NoSum \notin Checksums /\ EmptySum \notin Checksums

\* The regular expression runs over the whole text of the file.
IsNonTransactional(c) == \E i \in DOMAIN Script[c] : Script[c][i] = "nontx"

\* The effects content c has when r executes all of it as version v.
EffectsOf(v, c, r) ==
  {[version |-> v, body |-> c, by |-> r, stmt |-> i] :
     i \in {j \in DOMAIN Script[c] : Script[c][j] \in Effective}}

-----------------------------------------------------------------------------
(***************************************************************************)
(* history.ComputePending                                                  *)
(***************************************************************************)

MutMissing(disc, app) == {}

\* Rows of the history table whose file has gone from the directory.
Missing(disc, app) == {v \in Versions : app[v] # NoSum /\ disc[v] = NoSum}

MutDiffers(dbSum, fileSum) == FALSE

\* An empty checksum on either side disables the comparison.
Differs(dbSum, fileSum) ==
  /\ dbSum # EmptySum
  /\ fileSum # EmptySum
  /\ dbSum # fileSum

\* Applied migrations whose file no longer has the recorded checksum.
Drifted(disc, app) ==
  {v \in Versions : app[v] # NoSum /\ disc[v] # NoSum /\ Differs(app[v], disc[v])}

\* Discovered files without a row in the history table.
Unapplied(disc, app) == {v \in Versions : disc[v] # NoSum /\ app[v] = NoSum}

\* A missing file is reported before a mismatch, and either one before any
\* pending file is returned.
PendingError(disc, app) ==
  IF Missing(disc, app) # {} THEN "missing"
  ELSE IF Drifted(disc, app) # {} THEN "mismatch"
  ELSE "none"

ComputePending(disc, app) ==
  [err   |-> PendingError(disc, app),
   files |-> IF PendingError(disc, app) = "none" THEN Unapplied(disc, app) ELSE {}]

MutNextFile(files) == CHOOSE v \in files : \A u \in files : v >= u

\* ValidateAndSort orders the files by ascending version and Apply and DryRun
\* walk the slice from its head: of the files left, the lowest is next.
NextFile(files) == CHOOSE v \in files : \A u \in files : v <= u

-----------------------------------------------------------------------------
(***************************************************************************)
(* status.BuildReport: one item per version known to either side.          *)
(***************************************************************************)

ItemState(disc, app, v) ==
  CASE disc[v] # NoSum /\ app[v] # NoSum ->
         IF Differs(app[v], disc[v]) THEN "drifted" ELSE "applied"
    [] disc[v] # NoSum /\ app[v] = NoSum -> "pending"
    [] disc[v] = NoSum /\ app[v] # NoSum -> "missing"
    [] OTHER -> "none"

InState(disc, app, states) ==
  {v \in Versions : ItemState(disc, app, v) \in states}

MutAppliedCount(disc, app) == Cardinality(InState(disc, app, {"applied", "drifted"}))

\* A drifted and a missing migration also count as applied.
AppliedCount(disc, app) ==
  Cardinality(InState(disc, app, {"applied", "drifted", "missing"}))
PendingCount(disc, app) == Cardinality(InState(disc, app, {"pending"}))
DriftedCount(disc, app) == Cardinality(InState(disc, app, {"drifted"}))
MissingCount(disc, app) == Cardinality(InState(disc, app, {"missing"}))

HasPending(disc, app) == PendingCount(disc, app) > 0
HasDrift(disc, app) == DriftedCount(disc, app) > 0 \/ MissingCount(disc, app) > 0

ReportExitCode(disc, app) ==
  IF HasPending(disc, app) \/ HasDrift(disc, app) THEN 1 ELSE 0
=============================================================================
