----------------------------- MODULE Workspace -----------------------------
(***************************************************************************)
(* From a directory and a history table to the conclusions of status, plan *)
(* and apply: migration.Discover, entry by entry, while somebody else may  *)
(* change the directory, and the two comparisons made of its result,       *)
(* history.ComputePending and status.BuildReport.                          *)
(*                                                                         *)
(* Sources: internal/migration/discovery.go, convention.go (names),        *)
(* internal/cli/cli.go (what the handlers make of an error).               *)
(***************************************************************************)
EXTENDS Migrations

CONSTANTS
  Listed,     \* all names that may occur, in the order os.ReadDir gives them
  Digits,     \* Digits[n]: the digits before the "_", for the names that have the format
  Hidden,     \* the names that start with a dot
  MaxVersion, \* the largest int64
  Absent,     \* no such entry
  Subdir,     \* a directory
  Dangling,   \* a link whose target does not exist
  Unreadable, \* an entry whose content cannot be read
  MayBe,      \* MayBe[n]: the entries that n may be (a bound)
  MaxChanges  \* bound: how often the directory changes during one scan

Names == {Listed[i] : i \in DOMAIN Listed}
Entries == Contents \cup {Absent, Subdir, Dangling, Unreadable}

\* strconv.ParseInt(rawVersion, 10, 64), before the check of its range
Number(digits) ==
  LET upTo[i \in 0..Len(digits)] ==
        IF i = 0 THEN 0 ELSE 10 * upTo[i - 1] + digits[i]
  IN  upTo[Len(digits)]

Version(n) == Number(Digits[n])

MutWellNamed(n) == n \in DOMAIN Digits

\* The name has the format <digits>_<description>.sql and the number fits.
WellNamed(n) == n \in DOMAIN Digits /\ Version(n) <= MaxVersion

ASSUME ListedAssumption ==
  /\ Listed \in Seq(STRING)
  /\ \A i, j \in DOMAIN Listed : Listed[i] = Listed[j] => i = j
ASSUME DigitsAssumption ==
  /\ DOMAIN Digits \subseteq Names \ Hidden
  /\ \A n \in DOMAIN Digits : Digits[n] \in Seq(0..9) /\ Digits[n] # <<>>
ASSUME VersionsCoverAssumption ==
  \A n \in DOMAIN Digits : Version(n) <= MaxVersion => Version(n) \in Versions
ASSUME EntriesAssumption ==
  /\ Absent # Subdir /\ Dangling \notin {Absent, Subdir}
  /\ Unreadable \notin {Absent, Subdir, Dangling}
  /\ Contents \cap {Absent, Subdir, Dangling, Unreadable} = {}
  /\ MayBe \in [Names -> SUBSET Entries]
ASSUME WorkspaceBoundsAssumption == MaxVersion \in Nat /\ MaxChanges \in Nat

VARIABLES
  there,      \* whether the directory exists
  entry,      \* its entries
  app,        \* the checksum recorded for each version
  phase,      \* what Discover is doing
  listing,    \* what ReadDir has returned: each name's kind
  at,         \* the loop is at Listed[at]
  files,      \* the files collected: name, version and checksum
  found,      \* what the handler has: "files", or an error it ends with
  disc,       \* the checksum of each version's file, as the handler has it
  steady,     \* the entries that have not changed since they were listed
  changes     \* how many changes there were

scan == <<phase, listing, at, files, found, disc>>
workspaceVars == <<there, entry, app, scan, steady, changes>>

NoFiles == [v \in Versions |-> NoSum]

WorkspaceTypeOK ==
  /\ there \in BOOLEAN
  /\ entry \in [Names -> Entries]
  /\ app \in [Versions -> Sums]
  /\ phase \in {"idle", "scan", "sort", "done"}
  /\ listing \in [Names -> {"absent", "dir", "file"}]
  /\ at \in 1..Len(Listed) + 1
  /\ files \subseteq [name : Names, version : Versions, sum : Checksums]
  /\ found \in {"none", "files", "error"}
  /\ disc \in [Versions -> Checksums \cup {NoSum}]
  /\ steady \subseteq Names
  /\ changes \in 0..MaxChanges

WorkspaceInit ==
  /\ there = TRUE
  /\ entry = [n \in Names |-> Absent]
  /\ app = NoFiles
  /\ phase = "idle"
  /\ listing = [n \in Names |-> "absent"]
  /\ at = 1
  /\ files = {}
  /\ found = "none"
  /\ disc = NoFiles
  /\ steady = {}
  /\ changes = 0

-----------------------------------------------------------------------------
(***************************************************************************)
(* Discover, and what the handlers make of its result.                     *)
(***************************************************************************)

\* The handler's error return.
GivesUp ==
  /\ phase' = "done"
  /\ found' = "error"
  /\ UNCHANGED <<listing, at, files, disc>>

\* os.ErrNotExist reads as an empty directory, whatever does not exist.
TakesForEmpty ==
  /\ phase' = "done"
  /\ found' = "files"
  /\ disc' = NoFiles
  /\ UNCHANGED <<listing, at, files>>

KindOf(e) == IF e = Absent THEN "absent" ELSE IF e = Subdir THEN "dir" ELSE "file"

\* os.ReadDir.  The loop meets the entries by name; here it also passes the
\* names that are not there.
ReadDir ==
  /\ phase = "idle"
  /\ \/ /\ there
        /\ listing' = [n \in Names |-> KindOf(entry[n])]
        /\ phase' = "scan"
        /\ UNCHANGED <<at, files, found, disc>>
     \/ ~there /\ TakesForEmpty
     \/ there /\ GivesUp
  /\ steady' = IF there THEN Names ELSE {}
  /\ changes' = 0
  /\ UNCHANGED <<there, entry, app>>

Scans == phase = "scan" /\ at <= Len(Listed)

\* A file that is not hidden
Visits(n) == Scans /\ n = Listed[at] /\ listing[n] = "file" /\ n \notin Hidden

\* Directories and hidden files are passed over.
Skip ==
  /\ Scans
  /\ ~Visits(Listed[at])
  /\ at' = at + 1
  /\ UNCHANGED <<there, entry, app, phase, listing, files, found, disc, steady, changes>>

RefuseName(n) ==
  /\ Visits(n)
  /\ ~WellNamed(n)
  /\ GivesUp
  /\ UNCHANGED <<there, entry, app, steady, changes>>

\* ComputeFileChecksum reads the file as it is now.
Hash(n) ==
  /\ Visits(n)
  /\ WellNamed(n)
  /\ there /\ entry[n] \in Contents
  /\ files' = files \cup {[name |-> n, version |-> Version(n), sum |-> Checksum(entry[n])]}
  /\ at' = at + 1
  /\ UNCHANGED <<there, entry, app, phase, listing, found, disc, steady, changes>>

\* The file cannot be read, or is a directory by now.
HashFails(n) ==
  /\ Visits(n)
  /\ WellNamed(n)
  /\ there /\ entry[n] \in {Unreadable, Subdir}
  /\ GivesUp
  /\ UNCHANGED <<there, entry, app, steady, changes>>

\* It has gone, or was a link to nothing.
HashFindsNothing(n) ==
  /\ Visits(n)
  /\ WellNamed(n)
  /\ ~there \/ entry[n] \in {Absent, Dangling}
  /\ TakesForEmpty
  /\ UNCHANGED <<there, entry, app, steady, changes>>

ScanEnds ==
  /\ phase = "scan" /\ at > Len(Listed)
  /\ phase' = "sort"
  /\ UNCHANGED <<there, entry, app, listing, at, files, found, disc, steady, changes>>

MutDuplicates ==
  \E f, g \in files : f.name # g.name /\ Digits[f.name] = Digits[g.name]

Duplicates == \E f, g \in files : f.name # g.name /\ f.version = g.version

\* ValidateAndSort
ValidateAndSort ==
  /\ phase = "sort"
  /\ \/ Duplicates /\ GivesUp
     \/ /\ ~Duplicates
        /\ phase' = "done"
        /\ found' = "files"
        /\ disc' = [v \in Versions |->
             IF \E f \in files : f.version = v
             THEN (CHOOSE f \in files : f.version = v).sum
             ELSE NoSum]
        /\ UNCHANGED <<listing, at, files>>
  /\ UNCHANGED <<there, entry, app, steady, changes>>

\* The next invocation
NextCommand ==
  /\ phase = "done"
  /\ phase' = "idle"
  /\ listing' = [n \in Names |-> "absent"]
  /\ at' = 1
  /\ files' = {}
  /\ found' = "none"
  /\ disc' = NoFiles
  /\ steady' = {}
  /\ changes' = 0
  /\ UNCHANGED <<there, entry, app>>

-----------------------------------------------------------------------------
(***************************************************************************)
(* What others do, before and during a scan.                               *)
(***************************************************************************)

Scanning == phase \in {"scan", "sort"}

MayChange == phase # "done" /\ changes < MaxChanges

Changed == changes' = IF Scanning THEN changes + 1 ELSE changes

EntryChanges(n, e) ==
  /\ MayChange
  /\ entry[n] # e
  /\ entry' = [entry EXCEPT ![n] = e]
  /\ steady' = steady \ {n}
  /\ Changed
  /\ UNCHANGED <<there, app, scan>>

DirectoryComesOrGoes ==
  /\ MayChange
  /\ there' = ~there
  /\ steady' = {}
  /\ Changed
  /\ UNCHANGED <<entry, app, scan>>

\* By runs and by hand; the rows are read before the directory.
RowChanges(v, sum) ==
  /\ phase = "idle"
  /\ app[v] # sum
  /\ app' = [app EXCEPT ![v] = sum]
  /\ UNCHANGED <<there, entry, scan, steady, changes>>

Command ==
  \/ ReadDir \/ Skip \/ ScanEnds \/ ValidateAndSort \/ NextCommand
  \/ \E n \in Names : RefuseName(n) \/ Hash(n) \/ HashFails(n) \/ HashFindsNothing(n)

Environment ==
  \/ \E n \in Names : \E e \in MayBe[n] : EntryChanges(n, e)
  \/ DirectoryComesOrGoes
  \/ \E v \in Versions, sum \in Sums : RowChanges(v, sum)

WorkspaceNext == Command \/ Environment

WorkspaceSpec == WorkspaceInit /\ [][WorkspaceNext]_workspaceVars

-----------------------------------------------------------------------------
(***************************************************************************)
(* What holds.                                                             *)
(***************************************************************************)

\* The files that were in the directory, unchanged, from the listing to the
\* end: no directory, not hidden.
SteadyFiles ==
  {n \in steady \ Hidden : entry[n] \notin {Absent, Subdir}}

\* Every such file has a good name, a version of its own and its checksum in
\* the list.
ListsAll ==
  \A n \in SteadyFiles :
     /\ WellNamed(n)
     /\ entry[n] \in Contents
     /\ disc[Version(n)] = Checksum(entry[n])
     /\ \A m \in SteadyFiles : Version(m) = Version(n) => m = n

\* Discover never hands on a part of the directory: a bad name, a number that
\* does not fit, two names of one number (leading zeros) or a file that cannot
\* be read is an error, whatever comes and goes meanwhile.  There is one
\* exception: if a well-named file was gone when its turn came, or is a link to
\* nothing, the handlers take the whole directory for a missing one.
NothingIgnored ==
  found = "files" =>
    \/ ListsAll
    \/ disc = NoFiles /\ \E n \in DOMAIN Digits : n \notin steady \/ entry[n] = Dangling

\* The gate of a pipeline (status ends with exit code 0): every file that stayed
\* in the directory is recorded with its checksum (or with none), unless the
\* directory was taken for empty.
GateMeansApplied ==
  found = "files" /\ disc # NoFiles /\ ReportExitCode(disc, app) = 0 =>
    \A n \in SteadyFiles : app[Version(n)] \in {Checksum(entry[n]), EmptySum}

\* The comparison of files and rows is written twice, and the two agree: status
\* shows drift exactly when plan and apply refuse to go on, the files it shows as
\* pending are those that they return, and its exit code 0 means that apply has
\* nothing to do and nothing to complain of.
StatusAgreesWithPlan ==
  LET pending == ComputePending(disc, app)
  IN  /\ HasDrift(disc, app) <=> pending.err # "none"
      /\ pending.err = "none" => pending.files = InState(disc, app, {"pending"})
      /\ ReportExitCode(disc, app) = 0 <=> pending = [err |-> "none", files |-> {}]

\* The counters of the report: the applied migrations are the rows of the
\* history, and every version known to either side is counted exactly once as
\* applied or as pending.
CountsAddUp ==
  /\ AppliedCount(disc, app) = Cardinality({v \in Versions : app[v] # NoSum})
  /\ AppliedCount(disc, app) + PendingCount(disc, app) =
       Cardinality({v \in Versions : app[v] # NoSum \/ disc[v] # NoSum})

-----------------------------------------------------------------------------
\* docs/apply_command.md, docs/plan_command.md: "Nothing to apply" is for a
\* directory without pending files.  A list that is empty means that there was
\* no file to list.
EmptyListMeansNoFiles ==
  found = "files" /\ disc = NoFiles => {n \in SteadyFiles : entry[n] \in Contents} = {}
=============================================================================
