---------------------------- MODULE InputProofs ----------------------------
(***************************************************************************)
(* What Workspace and Commands claim: for any names, contents, versions    *)
(* and numbers of changes in a directory, and for any list of arguments.   *)
(***************************************************************************)
EXTENDS Workspace, Commands, MigrationsProofs, LoopInduction

-----------------------------------------------------------------------------
(***************************************************************************)
(* The directory and the history table.                                    *)
(***************************************************************************)

\* Every kind of step leaves the types alone.
THEOREM WorkspaceTypeCorrect == WorkspaceSpec => []WorkspaceTypeOK
<1>1. WorkspaceInit => WorkspaceTypeOK
  BY ListedAssumption, WorkspaceBoundsAssumption
     DEF WorkspaceInit, WorkspaceTypeOK, NoFiles, Sums, Entries
<1>2. WorkspaceTypeOK /\ [WorkspaceNext]_workspaceVars => WorkspaceTypeOK'
  <2> SUFFICES ASSUME WorkspaceTypeOK, [WorkspaceNext]_workspaceVars
               PROVE  WorkspaceTypeOK'
    OBVIOUS
  <2> USE DEF WorkspaceTypeOK
  <2>1. CASE ReadDir
    BY <2>1, WorkspaceBoundsAssumption DEF ReadDir, TakesForEmpty, GivesUp, NoFiles, KindOf
  <2>2. CASE Skip
    BY <2>2, ListedAssumption DEF Skip, Scans
  <2>3. CASE ScanEnds
    BY <2>3 DEF ScanEnds
  <2>4. CASE ValidateAndSort
    <3>1. CASE Duplicates
      BY <2>4, <3>1 DEF ValidateAndSort, GivesUp
    <3>2. CASE ~Duplicates
      BY <2>4, <3>2 DEF ValidateAndSort
    <3>3. QED
      BY <3>1, <3>2
  <2>5. CASE NextCommand
    BY <2>5, ListedAssumption, WorkspaceBoundsAssumption DEF NextCommand, NoFiles
  <2>6. ASSUME NEW n \in Names, RefuseName(n) PROVE WorkspaceTypeOK'
    BY <2>6 DEF RefuseName, GivesUp
  <2>7. ASSUME NEW n \in Names, Hash(n) PROVE WorkspaceTypeOK'
    <3>1. [name |-> n, version |-> Version(n), sum |-> Checksum(entry[n])]
            \in [name : Names, version : Versions, sum : Checksums]
      BY <2>7, VersionsCoverAssumption DEF Hash, WellNamed, Checksums
    <3>2. at' \in 1..Len(Listed) + 1
      BY <2>7, ListedAssumption DEF Hash, Visits, Scans
    <3>3. QED
      BY <2>7, <3>1, <3>2 DEF Hash
  <2>8. ASSUME NEW n \in Names, HashFails(n) PROVE WorkspaceTypeOK'
    BY <2>8 DEF HashFails, GivesUp
  <2>9. ASSUME NEW n \in Names, HashFindsNothing(n) PROVE WorkspaceTypeOK'
    BY <2>9 DEF HashFindsNothing, TakesForEmpty, NoFiles
  <2>10. ASSUME NEW n \in Names, NEW e \in MayBe[n], EntryChanges(n, e) PROVE WorkspaceTypeOK'
    <3>1. e \in Entries
      BY EntriesAssumption
    <3>2. QED
      BY <2>10, <3>1, WorkspaceBoundsAssumption DEF EntryChanges, MayChange, Changed, scan
  <2>11. CASE DirectoryComesOrGoes
    BY <2>11, WorkspaceBoundsAssumption DEF DirectoryComesOrGoes, MayChange, Changed, scan
  <2>12. ASSUME NEW v \in Versions, NEW sum \in Sums, RowChanges(v, sum) PROVE WorkspaceTypeOK'
    BY <2>12 DEF RowChanges, scan
  <2>13. CASE UNCHANGED workspaceVars
    BY <2>13 DEF workspaceVars, scan
  <2>14. QED
    BY <2>1, <2>2, <2>3, <2>4, <2>5, <2>6, <2>7, <2>8, <2>9, <2>10, <2>11, <2>12, <2>13
       DEF WorkspaceNext, Command, Environment
<1>3. QED
  BY <1>1, <1>2, PTL DEF WorkspaceSpec

-----------------------------------------------------------------------------
(***************************************************************************)
(* Nothing is ignored.                                                     *)
(***************************************************************************)

\* The record that the loop makes of a file as it is now.
RecordOf(n) == [name |-> n, version |-> Version(n), sum |-> Checksum(entry[n])]

Collected(n) == WellNamed(n) /\ entry[n] \in Contents /\ RecordOf(n) \in files

\* Where the loop has been, each file that did not change is collected, once; what
\* it has still to visit is as it was listed.
ScanInv ==
  /\ Scanning =>
       /\ ~there => steady = {}
       /\ \A n \in steady : listing[n] = KindOf(entry[n])
       /\ \A i \in DOMAIN Listed :
            i < at /\ Listed[i] \in SteadyFiles => Collected(Listed[i])
       /\ \A f \in files : f.version = Version(f.name)
       /\ \A f \in files : \E i \in DOMAIN Listed : i < at /\ f.name = Listed[i]
       /\ \A f, g \in files : f.name = g.name => f = g
  /\ phase = "sort" => at > Len(Listed)
  /\ phase # "done" => found = "none"
  /\ phase = "idle" => at = 1 /\ files = {}

DiscoveryInv == WorkspaceTypeOK /\ ScanInv /\ NothingIgnored

\* A step that changes an entry takes it out of the steady ones, so nothing is
\* promised of it any more.
LEMMA ChangesKeepInv ==
  ASSUME DiscoveryInv, phase # "done",
         UNCHANGED <<phase, listing, at, files, found, disc>>,
         steady' \subseteq steady, \A n \in steady' : entry'[n] = entry[n],
         ~there' => steady' = {} \/ ~there
  PROVE  ScanInv' /\ NothingIgnored'
<1>1. SteadyFiles' \subseteq SteadyFiles /\ \A n \in SteadyFiles' : entry'[n] = entry[n]
  BY DEF SteadyFiles
<1>2. \A n \in SteadyFiles' : Collected(n) => Collected(n)'
  BY <1>1 DEF Collected, RecordOf, WellNamed, Version
<1>3. NothingIgnored'
  BY DEF NothingIgnored, DiscoveryInv, ScanInv
<1>4. ASSUME Scanning PROVE \A n \in steady' : listing'[n] = KindOf(entry'[n])
  BY <1>4 DEF DiscoveryInv, ScanInv, KindOf
<1>5. ASSUME Scanning
      PROVE  \A i \in DOMAIN Listed :
               i < at /\ Listed[i] \in SteadyFiles' => Collected(Listed[i])'
  BY <1>1, <1>2, <1>5 DEF DiscoveryInv, ScanInv
<1>6. ScanInv'
  <2>1. Scanning' <=> Scanning
    BY DEF Scanning
  <2>2. QED
    BY <1>4, <1>5, <2>1 DEF DiscoveryInv, ScanInv, Version
<1>7. QED
  BY <1>3, <1>6

\* The loop's steps: the entry at hand is passed or collected.
LEMMA LoopKeepsInv ==
  ASSUME DiscoveryInv, Skip \/ \E n \in Names : Hash(n)
  PROVE  ScanInv' /\ NothingIgnored'
<1>1. /\ Scanning /\ Scanning' /\ phase = "scan" /\ phase' = "scan" /\ found' = "none"
      /\ at \in DOMAIN Listed /\ at' = at + 1
      /\ UNCHANGED <<there, entry, app, listing, steady>>
  <2>1. at \in DOMAIN Listed
    BY ListedAssumption DEF DiscoveryInv, WorkspaceTypeOK, Skip, Hash, Visits, Scans
  <2>2. QED
    BY <2>1 DEF DiscoveryInv, ScanInv, Scanning, Skip, Hash, Visits, Scans
<1>2. NothingIgnored'
  BY <1>1 DEF NothingIgnored
<1>3. SteadyFiles' = SteadyFiles /\ files \subseteq files'
  BY <1>1 DEF SteadyFiles, Skip, Hash
<1>4. \A n : Collected(n) => Collected(n)'
  BY <1>1, <1>3 DEF Collected, RecordOf, WellNamed, Version
<1>5. \A i \in DOMAIN Listed : i < at' => i < at \/ i = at
  BY <1>1, ListedAssumption
<1>6. ASSUME NEW n \in SteadyFiles, n = Listed[at] PROVE Collected(n)'
  <2>1. listing[n] = "file" /\ n \notin Hidden
    BY <1>1 DEF DiscoveryInv, ScanInv, SteadyFiles, KindOf
  <2>2. Visits(n)
    BY <1>1, <1>6, <2>1, ListedAssumption DEF Visits, Scans
  <2>3. PICK m \in Names : Hash(m)
    BY <1>6, <2>2 DEF Skip
  <2>4. m = n
    BY <1>6, <2>3 DEF Hash, Visits
  <2>5. QED
    BY <1>1, <2>3, <2>4 DEF Hash, Collected, RecordOf, WellNamed, Version
<1>7. \A i \in DOMAIN Listed :
        i < at' /\ Listed[i] \in SteadyFiles' => Collected(Listed[i])'
  BY <1>1, <1>3, <1>4, <1>5, <1>6 DEF DiscoveryInv, ScanInv
<1>8. /\ \A f \in files' : f.version = Version(f.name)
      /\ \A f \in files' : \E i \in DOMAIN Listed : i < at' /\ f.name = Listed[i]
      /\ \A f, g \in files' : f.name = g.name => f = g
  <2>1. \A f \in files : \E i \in DOMAIN Listed : i < at /\ f.name = Listed[i]
    BY <1>1 DEF DiscoveryInv, ScanInv
  <2>2. \A i \in DOMAIN Listed : i < at => i < at'
    BY <1>1, ListedAssumption
  <2>3. CASE Skip
    BY <1>1, <2>1, <2>2, <2>3 DEF DiscoveryInv, ScanInv, Skip
  <2>4. ASSUME NEW n \in Names, Hash(n)
        PROVE  /\ \A f \in files' : f.version = Version(f.name)
               /\ \A f \in files' : \E i \in DOMAIN Listed : i < at' /\ f.name = Listed[i]
               /\ \A f, g \in files' : f.name = g.name => f = g
    <3> DEFINE new == RecordOf(n)
    <3>1. n = Listed[at] /\ files' = files \cup {new}
      BY <2>4 DEF Hash, Visits, RecordOf
    <3>2. new.name = n /\ new.version = Version(n)
      BY DEF RecordOf
    <3>3. \A f \in files : f.name # n
      <4>1. SUFFICES ASSUME NEW f \in files, f.name = n PROVE FALSE
        OBVIOUS
      <4>2. PICK i \in DOMAIN Listed : i < at /\ f.name = Listed[i]
        BY <2>1
      <4>3. i = at
        BY <1>1, <3>1, <4>1, <4>2, ListedAssumption
      <4>4. QED
        BY <1>1, <4>2, <4>3, ListedAssumption
    <3> HIDE DEF new
    <3>4. at < at'
      BY <1>1, ListedAssumption
    <3>5. \A f \in files' : \E i \in DOMAIN Listed : i < at' /\ f.name = Listed[i]
      BY <1>1, <2>1, <2>2, <3>1, <3>2, <3>4
    <3>6. QED
      BY <1>1, <3>1, <3>2, <3>3, <3>5 DEF DiscoveryInv, ScanInv
  <2>5. QED
    BY <2>3, <2>4
<1>9. QED
  BY <1>1, <1>2, <1>7, <1>8 DEF DiscoveryInv, ScanInv

\* Where Discover ends: with an error, with the whole list, or with the handler
\* that takes the directory for an empty one.
LEMMA EndKeepsInv ==
  ASSUME DiscoveryInv, ValidateAndSort
  PROVE  ScanInv' /\ NothingIgnored'
<1>1. /\ phase = "sort" /\ phase' = "done" /\ Scanning
      /\ UNCHANGED <<there, entry, app, listing, at, files, steady>>
  BY DEF ValidateAndSort, GivesUp, Scanning
<1>2. ScanInv'
  BY <1>1 DEF ScanInv, Scanning
<1>3. ASSUME ~Duplicates PROVE ListsAll'
  <2>1. SteadyFiles' = SteadyFiles
    BY <1>1 DEF SteadyFiles
  <2>2. \A n \in SteadyFiles : Collected(n)
    <3>1. SUFFICES ASSUME NEW n \in SteadyFiles PROVE Collected(n)
      OBVIOUS
    <3>2. n \in Names
      BY DEF SteadyFiles, DiscoveryInv, WorkspaceTypeOK
    <3>3. PICK i \in DOMAIN Listed : n = Listed[i]
      BY <3>2 DEF Names
    <3>4. i < at
      BY <1>1, <3>3, ListedAssumption DEF DiscoveryInv, ScanInv, WorkspaceTypeOK
    <3>5. QED
      BY <1>1, <3>3, <3>4 DEF DiscoveryInv, ScanInv
  <2>3. ASSUME NEW n \in SteadyFiles
        PROVE  disc'[Version(n)] = Checksum(entry[n])
    <3> DEFINE record == RecordOf(n)
    <3>1. record \in files /\ record.name = n /\ record.version = Version(n)
          /\ record.sum = Checksum(entry[n])
      BY <2>2 DEF Collected, RecordOf
    <3>2. \A f \in files : f.version = Version(n) => f = record
      BY <1>1, <1>3, <3>1 DEF Duplicates, DiscoveryInv, ScanInv
    <3>3. Version(n) \in Versions
      BY <2>2, VersionsCoverAssumption DEF Collected, WellNamed
    <3> HIDE DEF record
    <3>4. (CHOOSE f \in files : f.version = Version(n)) = record
      BY <3>1, <3>2
    <3>5. QED
      BY <1>3, <3>1, <3>3, <3>4 DEF ValidateAndSort
  <2>4. ASSUME NEW n \in SteadyFiles, NEW m \in SteadyFiles, Version(m) = Version(n)
        PROVE  m = n
    <3>1. RecordOf(n) \in files /\ RecordOf(m) \in files
      BY <2>2 DEF Collected
    <3>2. QED
      BY <1>3, <2>4, <3>1 DEF Duplicates, RecordOf
  <2>5. QED
    BY <1>1, <2>1, <2>2, <2>3, <2>4 DEF ListsAll, Collected, WellNamed, Version
<1>4. NothingIgnored'
  BY <1>3 DEF ValidateAndSort, GivesUp, NothingIgnored
<1>5. QED
  BY <1>2, <1>4

\* A file that was listed and is gone has changed, or is a link to nothing.
LEMMA EmptyKeepsInv ==
  ASSUME DiscoveryInv, NEW n \in Names, HashFindsNothing(n)
  PROVE  ScanInv' /\ NothingIgnored'
<1>1. Scanning /\ phase' = "done" /\ disc' = NoFiles /\ listing[n] = "file"
      /\ n \in DOMAIN Digits /\ UNCHANGED <<there, entry, steady>>
  BY DEF HashFindsNothing, TakesForEmpty, Visits, Scans, Scanning, WellNamed
<1>2. n \notin steady \/ entry[n] = Dangling
  <2>1. CASE ~there
    BY <1>1, <2>1 DEF DiscoveryInv, ScanInv
  <2>2. CASE entry[n] \in {Absent, Dangling}
    BY <1>1, <2>2 DEF DiscoveryInv, ScanInv, KindOf
  <2>3. QED
    BY <2>1, <2>2 DEF HashFindsNothing
<1>3. NothingIgnored'
  BY <1>1, <1>2 DEF NothingIgnored
<1>4. ScanInv'
  BY <1>1 DEF ScanInv, Scanning
<1>5. QED
  BY <1>3, <1>4

\* A new scan begins with nothing passed and nothing collected; if it fails, the
\* handler has no list.
LEMMA ReadDirKeepsInv ==
  ASSUME DiscoveryInv, ReadDir
  PROVE  ScanInv' /\ NothingIgnored'
<1>1. CASE phase' = "scan"
  <2>1. /\ there' /\ at' = 1 /\ files' = {} /\ found' = "none" /\ entry' = entry
        /\ listing' = [n \in Names |-> KindOf(entry[n])] /\ steady' \subseteq Names
    BY <1>1 DEF ReadDir, TakesForEmpty, GivesUp, DiscoveryInv, ScanInv
  <2>2. QED
    BY <1>1, <2>1, ListedAssumption DEF ScanInv, NothingIgnored, Scanning
<1>2. CASE phase' = "done"
  <2>1. ScanInv'
    BY <1>2 DEF ScanInv, Scanning
  <2>2. CASE found' = "error"
    BY <2>1, <2>2 DEF NothingIgnored
  <2>3. CASE found' # "error"
    <3>1. steady' = {}
      BY <1>2, <2>3 DEF ReadDir, TakesForEmpty, GivesUp
    <3>2. QED
      BY <2>1, <3>1 DEF NothingIgnored, ListsAll, SteadyFiles
  <2>4. QED
    BY <2>2, <2>3
<1>3. QED
  BY <1>1, <1>2 DEF ReadDir, TakesForEmpty, GivesUp

\* A list that Discover hands on is the directory (see NothingIgnored), for any
\* directory and whatever happens to it during the scan.
THEOREM NothingIsIgnored == WorkspaceSpec => []NothingIgnored
<1>1. WorkspaceInit => ScanInv /\ NothingIgnored
  BY DEF WorkspaceInit, ScanInv, NothingIgnored, Scanning
<1>2. DiscoveryInv /\ [WorkspaceNext]_workspaceVars => ScanInv' /\ NothingIgnored'
  <2> SUFFICES ASSUME DiscoveryInv, [WorkspaceNext]_workspaceVars
               PROVE  ScanInv' /\ NothingIgnored'
    OBVIOUS
  <2>1. CASE ReadDir
    BY <2>1, ReadDirKeepsInv
  <2>2. CASE Skip \/ \E n \in Names : Hash(n)
    BY <2>2, LoopKeepsInv
  <2>3. CASE ScanEnds
    BY <2>3 DEF ScanEnds, DiscoveryInv, ScanInv, NothingIgnored, ListsAll, Scanning,
                SteadyFiles, Collected, RecordOf, WellNamed, Version
  <2>4. CASE ValidateAndSort
    BY <2>4, EndKeepsInv
  <2>5. CASE NextCommand
    BY <2>5 DEF NextCommand, ScanInv, NothingIgnored, Scanning
  <2>6. CASE \E n \in Names : RefuseName(n) \/ HashFails(n)
    <3>1. phase' = "done" /\ found' = "error"
      BY <2>6 DEF RefuseName, HashFails, GivesUp
    <3>2. QED
      BY <3>1 DEF ScanInv, NothingIgnored, Scanning
  <2>7. CASE \E n \in Names : HashFindsNothing(n)
    BY <2>7, EmptyKeepsInv
  <2>8. CASE \E n \in Names : \E e \in MayBe[n] : EntryChanges(n, e)
    <3>1. PICK n \in Names : \E e \in MayBe[n] : EntryChanges(n, e)
      BY <2>8
    <3>2. PICK e \in MayBe[n] : EntryChanges(n, e)
      BY <3>1
    <3>3. /\ phase # "done" /\ UNCHANGED <<phase, listing, at, files, found, disc, there>>
          /\ steady' = steady \ {n} /\ entry' = [entry EXCEPT ![n] = e]
      BY <3>2 DEF EntryChanges, MayChange, scan
    <3>4. \A m \in steady' : entry'[m] = entry[m]
      BY <3>3 DEF DiscoveryInv, WorkspaceTypeOK
    <3>5. QED
      BY <3>3, <3>4, ChangesKeepInv
  <2>9. CASE DirectoryComesOrGoes
    <3>1. /\ phase # "done" /\ UNCHANGED <<phase, listing, at, files, found, disc>>
          /\ steady' = {}
      BY <2>9 DEF DirectoryComesOrGoes, MayChange, scan
    <3>2. QED
      BY <3>1, ChangesKeepInv
  <2>10. CASE \E v \in Versions, sum \in Sums : RowChanges(v, sum)
    <3>1. /\ phase # "done" /\ UNCHANGED <<phase, listing, at, files, found, disc, there>>
          /\ UNCHANGED <<steady, entry>>
      BY <2>10 DEF RowChanges, scan
    <3>2. QED
      BY <3>1, ChangesKeepInv
  <2>11. CASE UNCHANGED workspaceVars
    BY <2>11 DEF workspaceVars, scan, DiscoveryInv, ScanInv, NothingIgnored, ListsAll, Scanning,
                 SteadyFiles, Collected, RecordOf, WellNamed, Version
  <2>12. QED
    BY <2>1, <2>2, <2>3, <2>4, <2>5, <2>6, <2>7, <2>8, <2>9, <2>10, <2>11
       DEF WorkspaceNext, Command, Environment
<1>3. QED
  BY <1>1, <1>2, WorkspaceTypeCorrect, PTL DEF WorkspaceSpec, DiscoveryInv

-----------------------------------------------------------------------------
(***************************************************************************)
(* status, plan and apply agree.                                           *)
(***************************************************************************)

\* For every directory and every history, not only those a run can reach,
\* status, plan and apply agree.
THEOREM StatusAgrees == StatusAgreesWithPlan
<1>1. HasDrift(disc, app) <=> Drifted(disc, app) # {} \/ Missing(disc, app) # {}
  BY CountersCount, StatesAreSets DEF HasDrift, DriftedCount, MissingCount
<1>2. HasPending(disc, app) <=> Unapplied(disc, app) # {}
  BY CountersCount, StatesAreSets DEF HasPending, PendingCount
<1>3. PendingError(disc, app) # "none" <=> HasDrift(disc, app)
  BY <1>1 DEF PendingError
<1>4. QED
  <2> DEFINE pending == ComputePending(disc, app)
  <2>1. /\ pending.err = PendingError(disc, app)
        /\ pending.err = "none" => pending.files = Unapplied(disc, app)
        /\ pending = [err |-> pending.err, files |-> pending.files]
    BY DEF ComputePending
  <2>2. pending = [err |-> "none", files |-> {}]
          <=> pending.err = "none" /\ Unapplied(disc, app) = {}
    BY <2>1
  <2>3. ReportExitCode(disc, app) = 0 <=> ~HasPending(disc, app) /\ ~HasDrift(disc, app)
    BY DEF ReportExitCode
  <2>4. pending.err = "none" => pending.files = InState(disc, app, {"pending"})
    BY <2>1, StatesAreSets
  <2> HIDE DEF pending
  <2>5. QED
    BY <1>2, <1>3, <2>1, <2>2, <2>3, <2>4 DEF StatusAgreesWithPlan, pending

\* status, plan and apply conclude the same of a directory and a history: drift is
\* shown exactly when plan and apply refuse to go on, the same files are pending, and
\* exit code 0 means that there is nothing to do and nothing to complain of.
THEOREM StatusAlwaysAgrees == WorkspaceSpec => []StatusAgreesWithPlan
BY StatusAgrees, PTL

\* Exit code 0 of status covers every file that stayed in the directory.
THEOREM GateIsSound == WorkspaceSpec => []GateMeansApplied
<1>1. NothingIgnored => GateMeansApplied
  <2>1. SUFFICES ASSUME NothingIgnored, found = "files", disc # NoFiles,
                        ReportExitCode(disc, app) = 0, NEW n \in SteadyFiles
                 PROVE  app[Version(n)] \in {Checksum(entry[n]), EmptySum}
    BY DEF GateMeansApplied
  <2>2. WellNamed(n) /\ entry[n] \in Contents /\ disc[Version(n)] = Checksum(entry[n])
    BY <2>1 DEF NothingIgnored, ListsAll
  <2>3. Version(n) \in Versions /\ Checksum(entry[n]) \in Checksums
    BY <2>2, VersionsCoverAssumption DEF WellNamed, Checksums
  <2>4. ~HasPending(disc, app) /\ ~HasDrift(disc, app)
    BY <2>1 DEF ReportExitCode
  <2>5. Unapplied(disc, app) = {} /\ Drifted(disc, app) = {}
    BY <2>4, CountersCount, StatesAreSets DEF HasPending, PendingCount, HasDrift, DriftedCount
  <2>6. disc[Version(n)] \notin {NoSum, EmptySum}
    BY <2>2, <2>3, SumAssumption
  <2>7. app[Version(n)] # NoSum
    BY <2>3, <2>5, <2>6 DEF Unapplied
  <2>8. ~Differs(app[Version(n)], disc[Version(n)])
    BY <2>3, <2>5, <2>6, <2>7 DEF Drifted
  <2>9. QED
    BY <2>2, <2>6, <2>8 DEF Differs
<1>2. QED
  BY <1>1, NothingIsIgnored, PTL

\* The counters of the report partition the versions known to either side.
THEOREM ReportCountsAddUp == CountsAddUp
<1> DEFINE Rowed == {v \in Versions : app[v] # NoSum}
           Known == {v \in Versions : app[v] # NoSum \/ disc[v] # NoSum}
           Pending == Unapplied(disc, app)
<1>1. Known = Rowed \cup Pending /\ Rowed \cap Pending = {}
  BY DEF Unapplied
<1>2. IsFiniteSet(Rowed) /\ IsFiniteSet(Pending)
  BY FS_Subset, VersionsAssumption DEF Unapplied
<1>3. Cardinality(Known) = Cardinality(Rowed) + Cardinality(Pending)
  <2>1. Cardinality(Rowed \cap Pending) = 0
    BY <1>1, FS_EmptySet
  <2>2. Cardinality(Rowed) \in Nat /\ Cardinality(Pending) \in Nat
    BY <1>2, FS_CardinalityType
  <2> HIDE DEF Rowed, Pending, Known
  <2>3. Cardinality(Rowed \cup Pending) =
          Cardinality(Rowed) + Cardinality(Pending) - Cardinality(Rowed \cap Pending)
    BY <1>2, FS_Union
  <2>4. QED
    BY <1>1, <2>1, <2>2, <2>3
<1>4. QED
  BY <1>3, StatesAreSets DEF CountsAddUp, AppliedCount, PendingCount

-----------------------------------------------------------------------------
(***************************************************************************)
(* ParseFlags, by induction over the arguments.                            *)
(***************************************************************************)

\* The words that occur: what may be typed, what is taken from it, and nothing.
Texts == Arguments \cup {Word(x) : x \in {a.value : a \in Arguments} \cup {"", "none"}}

Parsed == [flag : [Settings -> Texts], on : SUBSET Switches, rest : Seq(Texts),
           expects : SUBSET Settings]

\* What is taken from an argument is a text itself.
LEMMA TextsClosed == Empty \in Texts /\ \A a \in Texts : Word(a.value) \in Texts
<1>1. Empty \in Texts /\ Word("none") \in Texts
  BY DEF Texts, Empty
<1>2. ASSUME NEW a \in Texts
      PROVE  Word(a.value) \in Texts
  <2>1. CASE a \in Arguments
    BY <2>1 DEF Texts
  <2>2. CASE a.value = "none"
    BY <1>1, <2>2
  <2>3. a \in Arguments \/ \E x : a = Word(x)
    BY DEF Texts
  <2>4. QED
    BY <2>1, <2>2, <2>3 DEF Word
<1>3. QED
  BY <1>1, <1>2

\* One turn of the loop of ParseFlags keeps the types.
LEMMA ParseTyped ==
  ASSUME NEW p \in Parsed, NEW a \in Texts
  PROVE  Parse(p, a) \in Parsed
<1>1. SettingsOf(a.word) \subseteq Settings /\ SwitchesOf(a) \subseteq Switches
  BY DEF SettingsOf, SwitchesOf
<1>2. ASSUME NEW settings \in SUBSET Settings, NEW value \in Texts
      PROVE  Gets(p, settings, value) \in Parsed
  BY DEF Gets, Parsed
<1>3. Word(a.value) \in Texts
  BY TextsClosed
<1>4. [p EXCEPT !.expects = SettingsOf(a.word)] \in Parsed
  BY <1>1 DEF Parsed
<1>5. [p EXCEPT !.on = @ \cup SwitchesOf(a)] \in Parsed
  BY <1>1 DEF Parsed
<1>6. [p EXCEPT !.rest = Append(@, a)] \in Parsed
  <2>1. p.rest \in Seq(Texts)
    BY DEF Parsed
  <2>2. Append(p.rest, a) \in Seq(Texts)
    BY <2>1
  <2>3. QED
    BY <2>2 DEF Parsed
<1>7. p.expects \subseteq Settings
  BY DEF Parsed
<1>8. QED
  BY <1>1, <1>2, <1>3, <1>4, <1>5, <1>6, <1>7 DEF Parse

\* ParseFlags goes through states, one per argument.
LEMMA ParseFlagsGoes ==
  ASSUME NEW arguments \in Seq(Texts)
  PROVE  \E f \in [0..Len(arguments) -> Parsed] :
           /\ f[0] = NoFlags
           /\ \A i \in 1..Len(arguments) : f[i] = Parse(f[i - 1], arguments[i])
           /\ ParseFlags(arguments) = f[Len(arguments)]
<1> DEFINE N == Len(arguments)
           next == [pi \in Parsed \X (1..N) |-> Parse(pi[1], arguments[pi[2]])]
           Def(f, i) == IF i = 0 THEN NoFlags ELSE Parse(f[i - 1], arguments[i])
<1>1. NoFlags \in Parsed
  <2>1. <<>> \in Seq(Texts) /\ Empty \in Texts
    BY TextsClosed
  <2>2. QED
    BY <2>1 DEF NoFlags, Parsed
<1>2. next \in [Parsed \X (1..N) -> Parsed]
  <2>1. ASSUME NEW pi \in Parsed \X (1..N)
        PROVE  Parse(pi[1], arguments[pi[2]]) \in Parsed
    BY ParseTyped
  <2>2. QED
    BY <2>1
<1>3. PICK f \in [0..N -> Parsed] :
        f[0] = NoFlags /\ \A i \in 1..N : f[i] = next[<<f[i - 1], i>>]
  <2>1. IsLoop(N, Parsed, NoFlags, next)
    BY <1>1, <1>2 DEF IsLoop
  <2>2. PICK f : IsRun(f, N, Parsed, NoFlags, next)
    <3> HIDE DEF N, next
    <3> QED
      BY <2>1, LoopStates
  <2>3. QED
    BY <2>2 DEF IsRun
<1>4. \A i \in 1..N : f[i] = Parse(f[i - 1], arguments[i])
  BY <1>3
<1>5. f = [i \in 0..N |-> Def(f, i)]
  <2>1. \A i \in 0..N : f[i] = Def(f, i)
    BY <1>3, <1>4
  <2> HIDE DEF Def
  <2>2. QED
    BY <1>3, <2>1
<1> DEFINE g == CHOOSE h : h = [i \in 0..N |-> Def(h, i)]
<1>6. g = [i \in 0..N |-> Def(g, i)]
  <2> HIDE DEF Def
  <2>1. QED
    BY <1>5
<1>7. ParseFlags(arguments) = g[N]
  BY DEF ParseFlags
<1>8. g[0] = NoFlags /\ \A i \in 1..N : g[i] = Parse(g[i - 1], arguments[i])
  <2> HIDE DEF g
  <2> QED
    BY <1>6
<1>10. g \in [0..N -> Parsed]
  <2> DEFINE S == {i \in 0..N : g[i] \in Parsed}
  <2>1. 0 \in S
    BY <1>1, <1>8
  <2>2. ASSUME NEW i \in 1..N, i - 1 \in S
        PROVE  i \in S
    BY <1>8, <2>2, ParseTyped
  <2>3. 0..N \subseteq S
    <3> HIDE DEF S
    <3> QED
      BY SMTT(30), <2>1, <2>2, LoopInvariant
  <2>4. QED
    BY <1>6, <2>3
<1>11. QED
  <2> HIDE DEF g
  <2> WITNESS g \in [0..N -> Parsed]
  <2> QED
    BY <1>7, <1>8, <1>10

-----------------------------------------------------------------------------
(***************************************************************************)
(* Which arguments are the value of the one before.                        *)
(***************************************************************************)

\* An argument is a value if the one before it is a flag and not a value itself.
LEMMA ValueUnfolds ==
  ASSUME args \in Seq(Texts)
  PROVE  \A i \in 1..Len(args) :
           Value[i] \in BOOLEAN /\ (Value[i] <=> i > 1 /\ IsFlag(i - 1) /\ ~Value[i - 1])
<1> DEFINE N == Len(args)
           Is(v, i) == i > 1 /\ IsFlag(i - 1) /\ ~v
           next == [vi \in BOOLEAN \X (1..N) |-> Is(vi[1], vi[2])]
           Def(f, i) == Is(f[i - 1], i)
<1>1. PICK f \in [0..N -> BOOLEAN] :
        f[0] = FALSE /\ \A i \in 1..N : f[i] = next[<<f[i - 1], i>>]
  <2>1. next \in [BOOLEAN \X (1..N) -> BOOLEAN]
    OBVIOUS
  <2>2. IsLoop(N, BOOLEAN, FALSE, next)
    <3> HIDE DEF next
    <3> QED
      BY <2>1 DEF IsLoop
  <2>3. PICK f : IsRun(f, N, BOOLEAN, FALSE, next)
    <3> HIDE DEF N, next
    <3> QED
      BY <2>2, LoopStates
  <2>4. QED
    BY <2>3 DEF IsRun
<1>2. f = [i \in 0..N |-> Def(f, i)]
  <2>1. \A i \in 1..N : f[i] = Is(f[i - 1], i)
    <3> HIDE DEF Is
    <3> QED
      BY <1>1
  <2>2. f[0] = Def(f, 0)
    BY <1>1
  <2>3. \A i \in 0..N : f[i] = Def(f, i)
    <3> HIDE DEF Is
    <3> QED
      BY <2>1, <2>2
  <2> HIDE DEF Def
  <2>4. QED
    BY <1>1, <2>3
<1> DEFINE g == CHOOSE h : h = [i \in 0..N |-> Def(h, i)]
<1>3. g = [i \in 0..N |-> Def(g, i)]
  <2> HIDE DEF Def
  <2>1. QED
    BY <1>2
<1>4. Value = g
  BY DEF Value
<1>5. ASSUME NEW i \in 1..N
      PROVE  Value[i] = (i > 1 /\ IsFlag(i - 1) /\ ~Value[i - 1])
  <2>1. g[i] = Def(g, i)
    <3> HIDE DEF g, Def
    <3> QED
      BY <1>3
  <2> HIDE DEF g
  <2>2. QED
    BY <1>4, <2>1, Zenon
<1>6. QED
  <2> HIDE DEF g
  <2> QED
    BY <1>5, Zenon

-----------------------------------------------------------------------------
(***************************************************************************)
(* The state of the parse after i arguments.                               *)
(***************************************************************************)

\* Where a value of s is given, and complete, among the first i arguments.
GivenUpTo(s, i) ==
  {j \in Own : j <= i /\ s \in SettingsOf(args[j].word) /\ (IsFlag(j) => j < i)}

IsLast(j, S) == j \in S /\ \A k \in S : k <= j
IsFirst(j, S) == j \in S /\ \A k \in S : j <= k

Plain(a) == SettingsOf(a.word) = {} /\ SwitchesOf(a) = {}

FlagsAt(p, i) ==
  \A s \in Settings :
    \/ GivenUpTo(s, i) = {} /\ p.flag[s] = Empty
    \/ \E j \in Own : IsLast(j, GivenUpTo(s, i)) /\ p.flag[s] = GivenBy(j)

SwitchesAt(p, i) ==
  \A t \in Switches :
    t \in p.on <=> \E j \in Own : j <= i /\ SettingsOf(args[j].word) = {} /\ t \in SwitchesOf(args[j])

RestAt(p, i) ==
  /\ \A k \in 1..Len(p.rest) : Plain(p.rest[k])
  /\ \/ p.rest = <<>> /\ \A j \in Words : j > i
     \/ p.rest # <<>> /\ \E j \in Words : IsFirst(j, Words) /\ j <= i /\ p.rest[1] = args[j]

ExpectsAt(p, i) ==
  \/ p.expects = {} /\ ~(i \in Own /\ IsFlag(i))
  \/ i \in Own /\ IsFlag(i) /\ p.expects = SettingsOf(args[i].word) /\ p.expects # {}

ParsedAt(p, i) == FlagsAt(p, i) /\ SwitchesAt(p, i) /\ RestAt(p, i) /\ ExpectsAt(p, i)

\* No argument is both a setting's and a switch's.
LEMMA FlagsAreApart ==
  ASSUME NEW a, SettingsOf(a.word) # {}
  PROVE  SwitchesOf(a) = {}
<1>1. \A s \in Settings, t \in Switches : a.word \in Spellings(s) => a \notin SwitchSpellings(t)
  BY DEF Settings, Switches, Spellings, SwitchSpellings, Word, With
<1>2. QED
  BY <1>1 DEF SettingsOf, SwitchesOf

\* Before the first argument
LEMMA ParsedAtStart ==
  ASSUME args \in Seq(Texts)
  PROVE  ParsedAt(NoFlags, 0)
<1>1. Own \subseteq 1..Len(args) /\ Words \subseteq Own
  BY DEF Own, Words
<1>2. 0 \notin Own
  BY <1>1
<1>3. \A s : GivenUpTo(s, 0) = {}
  <2>1. \A j \in Own : ~(j <= 0)
    BY <1>1
  <2>2. \A s, j : j \notin GivenUpTo(s, 0)
    BY <2>1 DEF GivenUpTo
  <2>3. QED
    BY <2>2
<1>4. \A j \in Words : j > 0
  BY <1>1
<1>5. QED
  BY <1>1, <1>2, <1>3, <1>4
     DEF ParsedAt, FlagsAt, SwitchesAt, RestAt, ExpectsAt, NoFlags

\* ... and from one argument to the next.
LEMMA ParsedAtNext ==
  ASSUME args \in Seq(Texts), NEW i \in 1..Len(args), NEW p \in Parsed, ParsedAt(p, i - 1)
  PROVE  ParsedAt(Parse(p, args[i]), i)
<1> DEFINE a == args[i]
           q == Parse(p, args[i])
<1>1. /\ Own \subseteq 1..Len(args) /\ Words \subseteq Own
      /\ Words = {j \in Own : Plain(args[j])}
      /\ \A j \in Own : IsFlag(j) <=> SettingsOf(args[j].word) # {} /\ args[j].value = "none"
  BY DEF Own, Words, Plain, IsFlag
<1>2. i \in Own <=> p.expects = {}
  BY ValueUnfolds DEF ParsedAt, ExpectsAt, Own
<1>6. /\ \A j \in Own : j \in Nat /\ (j <= i <=> j < i \/ j = i) /\ (j < i <=> j <= i - 1)
      /\ i \in Nat /\ i - 1 < i /\ i <= i /\ i - 1 <= i /\ ~(i < i) /\ i # i - 1
  BY <1>1
<1>7. \A s, j : j \in GivenUpTo(s, i) <=>
                 /\ j \in Own /\ (j <= i - 1 \/ j = i)
                 /\ s \in SettingsOf(args[j].word) /\ (IsFlag(j) => j <= i - 1)
  BY <1>6 DEF GivenUpTo
<1>8. \A s, j : j \in GivenUpTo(s, i - 1) <=>
                 /\ j \in Own /\ j <= i - 1
                 /\ s \in SettingsOf(args[j].word) /\ (IsFlag(j) => j <= i - 1 /\ j # i - 1)
  BY <1>6 DEF GivenUpTo
<1>9. ASSUME i \notin Words, NEW q_, q_.rest = p.rest
      PROVE  RestAt(q_, i)
  <2>1. \A j \in Words : (j > i - 1 => j > i) /\ (j <= i - 1 => j <= i)
    BY <1>1, <1>9
  <2>2. QED
    BY <1>9, <2>1 DEF ParsedAt, RestAt
<1>10. ASSUME NEW q_, NEW on, q_.on = p.on \cup on,
              \A t \in Switches :
                t \in on <=> i \in Own /\ SettingsOf(a.word) = {} /\ t \in SwitchesOf(a)
       PROVE  SwitchesAt(q_, i)
  <2>1. ASSUME NEW t \in Switches
        PROVE  t \in q_.on <=>
                 \E j \in Own : j <= i /\ SettingsOf(args[j].word) = {} /\ t \in SwitchesOf(args[j])
    <3>1. t \in p.on <=> \E j \in Own :
            j <= i - 1 /\ SettingsOf(args[j].word) = {} /\ t \in SwitchesOf(args[j])
      BY DEF ParsedAt, SwitchesAt
    <3>2. \A j \in Own : j <= i <=> j <= i - 1 \/ j = i
      BY <1>6
    <3>3. t \in q_.on <=> t \in p.on \/ t \in on
      BY <1>10
    <3>4. QED
      BY <1>10, <3>1, <3>2, <3>3, Zenon
  <2>2. QED
    BY <2>1 DEF SwitchesAt
<1>3. CASE p.expects # {}
  <2>1. /\ i \notin Own /\ i - 1 \in Own /\ IsFlag(i - 1)
        /\ p.expects = SettingsOf(args[i - 1].word)
    BY <1>2, <1>3 DEF ParsedAt, ExpectsAt
  <2>2. q = Gets(p, p.expects, a)
    BY <1>3 DEF Parse
  <2>3. /\ q.on = p.on /\ q.rest = p.rest /\ q.expects = {}
        /\ \A s \in Settings : q.flag[s] = IF s \in p.expects THEN a ELSE p.flag[s]
    BY <2>2 DEF Gets, Parsed
  <2>4. GivenBy(i - 1) = a
    BY <2>1 DEF GivenBy
  <2>5. ASSUME NEW s
        PROVE  /\ s \in p.expects => GivenUpTo(s, i) = GivenUpTo(s, i - 1) \cup {i - 1}
               /\ s \notin p.expects => GivenUpTo(s, i) = GivenUpTo(s, i - 1)
    <3>1. \A j : j \in GivenUpTo(s, i) <=>
            j \in GivenUpTo(s, i - 1) \/ (j = i - 1 /\ s \in p.expects)
      BY <1>6, <1>7, <1>8, <2>1
    <3>2. QED
      BY <3>1
  <2> HIDE DEF q
  <2>6. FlagsAt(q, i)
    <3> SUFFICES ASSUME NEW s \in Settings
                 PROVE  \/ GivenUpTo(s, i) = {} /\ q.flag[s] = Empty
                        \/ \E j \in Own : IsLast(j, GivenUpTo(s, i)) /\ q.flag[s] = GivenBy(j)
      BY DEF FlagsAt
    <3>1. CASE s \in p.expects
      <4>1. IsLast(i - 1, GivenUpTo(s, i))
        BY <1>6, <1>8, <2>5, <3>1 DEF IsLast
      <4>2. QED
        BY <2>1, <2>3, <2>4, <3>1, <4>1
    <3>2. CASE s \notin p.expects
      BY <2>3, <2>5, <3>2 DEF ParsedAt, FlagsAt
    <3>3. QED
      BY <3>1, <3>2
  <2>7. SwitchesAt(q, i)
    BY <1>6, <2>1, <2>3 DEF ParsedAt, SwitchesAt
  <2>8. RestAt(q, i)
    BY <1>1, <1>9, <2>1, <2>3
  <2>9. QED
    BY <2>1, <2>3, <2>6, <2>7, <2>8 DEF ParsedAt, ExpectsAt, q
<1>4. CASE p.expects = {}
  <2>1. i \in Own /\ ~(i - 1 \in Own /\ IsFlag(i - 1))
    BY <1>2, <1>4 DEF ParsedAt, ExpectsAt
  <2>2. ASSUME NEW s
        PROVE  /\ s \in SettingsOf(a.word) /\ ~IsFlag(i) =>
                    GivenUpTo(s, i) = GivenUpTo(s, i - 1) \cup {i}
               /\ s \notin SettingsOf(a.word) \/ IsFlag(i) =>
                    GivenUpTo(s, i) = GivenUpTo(s, i - 1)
    <3>1. \A j : j \in GivenUpTo(s, i) <=>
            j \in GivenUpTo(s, i - 1) \/ (j = i /\ s \in SettingsOf(a.word) /\ ~IsFlag(i))
      BY <1>6, <1>7, <1>8, <2>1
    <3>2. QED
      BY <3>1
  <2>3. CASE SettingsOf(a.word) # {} /\ a.value # "none"
    <3>1. q = Gets(p, SettingsOf(a.word), Word(a.value))
      BY <1>4, <2>3, FlagsAreApart DEF Parse
    <3> HIDE DEF q
    <3>2. /\ q.on = p.on /\ q.rest = p.rest /\ q.expects = {}
          /\ \A s \in Settings :
               q.flag[s] = IF s \in SettingsOf(a.word) THEN Word(a.value) ELSE p.flag[s]
      BY <3>1 DEF Gets, Parsed
    <3>3. ~IsFlag(i) /\ GivenBy(i) = Word(a.value) /\ i \notin Words
      BY <1>1, <2>3 DEF IsFlag, GivenBy, Plain
    <3>4. FlagsAt(q, i)
      <4> SUFFICES ASSUME NEW s \in Settings
                   PROVE  \/ GivenUpTo(s, i) = {} /\ q.flag[s] = Empty
                          \/ \E j \in Own : IsLast(j, GivenUpTo(s, i)) /\ q.flag[s] = GivenBy(j)
        BY DEF FlagsAt
      <4>1. CASE s \in SettingsOf(a.word)
        <5>1. IsLast(i, GivenUpTo(s, i))
          BY <1>6, <1>8, <2>2, <3>3, <4>1 DEF IsLast
        <5>2. QED
          BY <2>1, <3>2, <3>3, <4>1, <5>1
      <4>2. CASE s \notin SettingsOf(a.word)
        BY <2>2, <3>2, <4>2 DEF ParsedAt, FlagsAt
      <4>3. QED
        BY <4>1, <4>2
    <3>5. SwitchesAt(q, i)
      BY <1>6, <2>3, <3>2 DEF ParsedAt, SwitchesAt
    <3>6. RestAt(q, i)
      BY <1>9, <3>2, <3>3
    <3>7. QED
      BY <3>2, <3>3, <3>4, <3>5, <3>6 DEF ParsedAt, ExpectsAt, q
  <2>4. CASE SettingsOf(a.word) # {} /\ a.value = "none"
    <3>1. q = [p EXCEPT !.expects = SettingsOf(a.word)]
      BY <1>4, <2>4, FlagsAreApart DEF Parse
    <3> HIDE DEF q
    <3>2. /\ q.on = p.on /\ q.rest = p.rest /\ q.expects = SettingsOf(a.word)
          /\ q.flag = p.flag
      BY <3>1 DEF Parsed
    <3>3. IsFlag(i) /\ i \notin Words
      BY <1>1, <2>4 DEF IsFlag, Plain
    <3>4. FlagsAt(q, i)
      BY <2>2, <3>2, <3>3 DEF ParsedAt, FlagsAt
    <3>5. SwitchesAt(q, i)
      BY <1>6, <2>4, <3>2 DEF ParsedAt, SwitchesAt
    <3>6. RestAt(q, i)
      BY <1>9, <3>2, <3>3
    <3>7. QED
      BY <2>1, <2>4, <3>2, <3>3, <3>4, <3>5, <3>6 DEF ParsedAt, ExpectsAt, q
  <2>5. CASE SettingsOf(a.word) = {}
    <3>1. ~IsFlag(i) /\ FlagsAt(p, i)
      BY <2>2, <2>5 DEF ParsedAt, FlagsAt, IsFlag
    <3>2. CASE SwitchesOf(a) # {}
      <4>1. q = [p EXCEPT !.on = @ \cup SwitchesOf(a)]
        BY <1>4, <2>5, <3>2 DEF Parse
      <4>2. /\ q.on = p.on \cup SwitchesOf(a) /\ q.rest = p.rest /\ q.expects = {}
            /\ q.flag = p.flag
        BY <1>4, <4>1 DEF Parsed
      <4>3. i \notin Words
        BY <1>1, <3>2 DEF Plain
      <4>4. SwitchesAt(q, i)
        BY <1>10, <2>1, <2>5, <4>2
      <4>5. RestAt(q, i)
        BY <1>9, <4>2, <4>3
      <4>6. QED
        BY <3>1, <4>2, <4>4, <4>5 DEF ParsedAt, ExpectsAt, FlagsAt
    <3>3. CASE SwitchesOf(a) = {}
      <4>1. q = [p EXCEPT !.rest = Append(@, a)]
        BY <1>4, <2>5, <3>3 DEF Parse
      <4>2. /\ q.on = p.on /\ q.rest = Append(p.rest, a) /\ q.expects = {}
            /\ q.flag = p.flag
        BY <1>4, <4>1 DEF Parsed
      <4>3. i \in Words /\ Plain(a)
        BY <1>1, <2>1, <2>5, <3>3 DEF Plain
      <4>4. SwitchesAt(q, i)
        <5>1. q.on = p.on \cup {}
          BY <4>2
        <5>2. QED
          BY <1>10, <3>3, <5>1
      <4>5. RestAt(q, i)
        <5>1. p.rest \in Seq(Texts) /\ a \in Texts
          BY DEF Parsed
        <5>2. \A k \in 1..Len(q.rest) : Plain(q.rest[k])
          BY <4>2, <4>3, <5>1 DEF ParsedAt, RestAt
        <5>3. CASE p.rest = <<>>
          <6>1. q.rest # <<>> /\ q.rest[1] = a
            BY <4>2, <5>1, <5>3
          <6>2. IsFirst(i, Words)
            BY <1>1, <1>6, <4>3, <5>3 DEF ParsedAt, RestAt, IsFirst
          <6>3. QED
            BY <4>3, <5>2, <6>1, <6>2 DEF RestAt
        <5>4. CASE p.rest # <<>>
          <6>1. q.rest # <<>> /\ q.rest[1] = p.rest[1]
            BY SMTT(30), <4>2, <5>1, <5>4
          <6>2. QED
            BY <1>1, <1>6, <5>2, <5>4, <6>1 DEF ParsedAt, RestAt
        <5>5. QED
          BY <5>3, <5>4
      <4>6. QED
        BY <3>1, <4>2, <4>4, <4>5 DEF ParsedAt, ExpectsAt, FlagsAt
    <3>4. QED
      BY <3>2, <3>3
  <2>6. QED
    BY <2>3, <2>4, <2>5
<1>5. QED
  BY <1>3, <1>4

-----------------------------------------------------------------------------
(***************************************************************************)
(* What is made of the whole list.                                         *)
(***************************************************************************)

\* What ParseFlags returns, in terms of all the arguments.
LEMMA ParsedAtEnd ==
  ASSUME args \in Seq(Texts)
  PROVE  ParseFlags(args) \in Parsed /\ ParsedAt(ParseFlags(args), Len(args))
<1> DEFINE N == Len(args)
<1>1. PICK f \in [0..N -> Parsed] :
        /\ f[0] = NoFlags
        /\ \A i \in 1..N : f[i] = Parse(f[i - 1], args[i])
        /\ ParseFlags(args) = f[N]
  BY ParseFlagsGoes
<1> DEFINE S == {i \in 0..N : ParsedAt(f[i], i)}
<1>2. N \in Nat
  OBVIOUS
<1>3. 0 \in S
  BY <1>1, <1>2, ParsedAtStart
<1>4. ASSUME NEW i \in 1..N, i - 1 \in S
      PROVE  i \in S
  <2>1. f[i - 1] \in Parsed /\ ParsedAt(f[i - 1], i - 1)
    BY <1>4
  <2>2. QED
    BY <1>1, <2>1, ParsedAtNext
<1>5. 0..N \subseteq S
  <2> HIDE DEF S, N
  <2> QED
    BY <1>2, <1>3, <1>4, LoopInvariant
<1>6. QED
  BY <1>1, <1>2, <1>5

\* The words after the command are parsed again: there is nothing left in them.
LEMMA PlainArguments ==
  ASSUME NEW arguments \in Seq(Texts), \A i \in 1..Len(arguments) : Plain(arguments[i])
  PROVE  ParseFlags(arguments).flag = NoFlags.flag /\ ParseFlags(arguments).on = {}
<1> DEFINE N == Len(arguments)
<1>1. PICK f \in [0..N -> Parsed] :
        /\ f[0] = NoFlags
        /\ \A i \in 1..N : f[i] = Parse(f[i - 1], arguments[i])
        /\ ParseFlags(arguments) = f[N]
  BY ParseFlagsGoes
<1> DEFINE S == {i \in 0..N : f[i].flag = NoFlags.flag /\ f[i].on = {} /\ f[i].expects = {}}
<1>2. N \in Nat
  OBVIOUS
<1>3. 0 \in S
  BY <1>1, <1>2 DEF NoFlags
<1>4. ASSUME NEW i \in 1..N, i - 1 \in S
      PROVE  i \in S
  <2>1. f[i - 1] \in Parsed /\ f[i - 1].expects = {}
    BY <1>4
  <2>2. f[i] = [f[i - 1] EXCEPT !.rest = Append(@, arguments[i])]
    BY <1>1, <2>1 DEF Parse, Plain
  <2>3. /\ f[i].flag = f[i - 1].flag /\ f[i].on = f[i - 1].on
        /\ f[i].expects = f[i - 1].expects
    BY <2>1, <2>2 DEF Parsed
  <2>4. QED
    BY <1>4, <2>3
<1>5. 0..N \subseteq S
  <2> HIDE DEF S, N
  <2> QED
    BY <1>2, <1>3, <1>4, LoopInvariant
<1>6. QED
  BY <1>1, <1>2, <1>5

\* The values that a setting has by the rules: one.
MeantValues(s) ==
  LET given == {TrimSpace(v) : v \in LastGiven(s)} \ {Empty}
      exported == {TrimSpace(env[s])} \ {Empty}
  IN  IF given # {} THEN given
      ELSE IF exported # {} THEN exported ELSE {Default(s)}

\* Flag before environment before default: a setting is what config resolves it to.
LEMMA SettingIsMeant ==
  ASSUME args \in Seq(Texts), NEW s \in Settings
  PROVE  MeantValues(s) = {Resolve(s, ParseFlags(args).flag[s])}
<1> DEFINE flag == ParseFlags(args).flag[s]
<1>1. GivenUpTo(s, Len(args)) = GivenAt(s)
  <2>1. Own \subseteq 1..Len(args)
    BY DEF Own
  <2>2. \A j \in Own : j <= Len(args)
    BY <2>1
  <2>3. QED
    BY <2>2 DEF GivenUpTo, GivenAt
<1>2. CASE GivenAt(s) = {}
  <2>1. flag = Empty
    BY <1>1, <1>2, ParsedAtEnd DEF ParsedAt, FlagsAt, IsLast
  <2>2. LastGiven(s) = {}
    BY <1>2 DEF LastGiven
  <2>3. TrimSpace(Empty) = Empty
    BY ArgumentsAssumption DEF TrimSpace
  <2>4. QED
    BY <2>1, <2>2, <2>3 DEF MeantValues, Resolve
<1>3. CASE GivenAt(s) # {}
  <2>1. PICK j \in Own : IsLast(j, GivenAt(s)) /\ flag = GivenBy(j)
    BY <1>1, <1>3, ParsedAtEnd DEF ParsedAt, FlagsAt
  <2>2. LastGiven(s) = {flag}
    <3>1. GivenAt(s) \subseteq Int
      BY DEF GivenAt, Own
    <3>2. \A i \in GivenAt(s) : (\A k \in GivenAt(s) : k <= i) <=> i = j
      BY <2>1, <3>1 DEF IsLast
    <3>3. {i \in GivenAt(s) : \A k \in GivenAt(s) : k <= i} = {j}
      BY <2>1, <3>2 DEF IsLast
    <3>4. QED
      BY <2>1, <3>3 DEF LastGiven
  <2>3. CASE TrimSpace(flag) = Empty
    BY <2>2, <2>3 DEF MeantValues, Resolve
  <2>4. CASE TrimSpace(flag) # Empty
    BY <2>2, <2>4 DEF MeantValues, Resolve
  <2>5. QED
    BY <2>3, <2>4
<1>4. QED
  BY <1>2, <1>3

\* The flags mean what they say, for any list of arguments.
LEMMA FlagsMean ==
  ASSUME args \in Seq(Texts)
  PROVE  FlagsMeanWhatTheySay
<1> DEFINE run == RunWithWriters(args)
           named == {args[i] : i \in {j \in Words : \A k \in Words : j <= k}}
           Named(words) == named \cap {Word(w) : w \in words} # {}
           p == ParseFlags(args)
<1>1. SUFFICES /\ run.exit = 2 <=> ~Named(Handlers \cup Asks)
               /\ run.runs # "none" <=> Named(Handlers) /\ MeantValues("url") # {Empty}
               /\ run.runs # "none" =>
                    /\ Named({run.runs})
                    /\ \A s \in Settings : run.config[s] \in MeantValues(s)
                    /\ "noLock" \in run.on <=>
                         \E i \in Own : args[i] \in SwitchSpellings("noLock")
  BY DEF FlagsMeanWhatTheySay, MeantValues
<1>2. p \in Parsed /\ ParsedAt(p, Len(args)) /\ p.rest \in Seq(Texts)
  BY ParsedAtEnd DEF Parsed
<1>3. Words \subseteq 1..Len(args)
  BY DEF Words, Own
<1>4. CASE p.rest = <<>>
  <2>1. Words = {}
    BY <1>2, <1>3, <1>4 DEF ParsedAt, RestAt
  <2>2. named = {}
    BY <2>1
  <2>3. run = Stops(2)
    BY <1>4 DEF RunWithWriters
  <2>4. QED
    BY <2>2, <2>3 DEF Stops
<1>5. CASE p.rest # <<>>
  <2> DEFINE cmd == Head(p.rest)
             flags == Merged(p, ParseFlags(Tail(p.rest)))
  <2>1. named = {cmd}
    <3>1. PICK j \in Words : IsFirst(j, Words) /\ cmd = args[j]
      BY <1>2, <1>5 DEF ParsedAt, RestAt
    <3>2. \A i \in Words : (\A k \in Words : i <= k) <=> i = j
      BY <1>3, <3>1 DEF IsFirst
    <3>3. {i \in Words : \A k \in Words : i <= k} = {j}
      BY <3>1, <3>2
    <3>4. QED
      BY <3>1, <3>3
  <2>2. flags.on = p.on /\ \A s \in Settings : flags.flag[s] = p.flag[s]
    <3>1. Tail(p.rest) \in Seq(Texts) /\ \A i \in 1..Len(Tail(p.rest)) : Plain(Tail(p.rest)[i])
      <4> DEFINE words == p.rest
      <4>1. words \in Seq(Texts) /\ words # <<>> /\ \A i \in 1..Len(words) : Plain(words[i])
        BY <1>2, <1>5 DEF ParsedAt, RestAt
      <4> HIDE DEF words
      <4>2. Tail(words) \in Seq(Texts) /\ Len(Tail(words)) = Len(words) - 1
        BY <4>1
      <4>3. ASSUME NEW i \in 1..Len(Tail(words))
            PROVE  Tail(words)[i] = words[i + 1] /\ i + 1 \in 1..Len(words)
        BY <4>1, <4>2
      <4>4. Tail(words) \in Seq(Texts) /\ \A i \in 1..Len(Tail(words)) : Plain(Tail(words)[i])
        BY <4>1, <4>2, <4>3
      <4>5. QED
        BY <4>4 DEF words
    <3>2. /\ ParseFlags(Tail(p.rest)).flag = NoFlags.flag
          /\ ParseFlags(Tail(p.rest)).on = {}
      BY <3>1, PlainArguments
    <3>3. QED
      BY <3>2 DEF Merged, NoFlags
  <2>3. \A words : Named(words) <=> \E w \in words : cmd = Word(w)
    BY <2>1
  <2>4. \A w, x : Word(w) = Word(x) => w = x
    BY DEF Word
  <2>5. Handlers \cap Asks = {} /\ "none" \notin Handlers
    BY DEF Handlers, Asks
  <2>6. CASE \E h \in Handlers : cmd = Word(h)
    <3>1. PICK h \in Handlers : cmd = Word(h)
      BY <2>6
    <3>2. run = Handler(h, flags)
      <4>1. cmd.word = h
        BY <3>1 DEF Word
      <4>2. run = Handler(cmd.word, flags)
        BY <1>5, <2>4, <2>5, <3>1 DEF RunWithWriters
      <4>3. QED
        BY <4>1, <4>2
    <3>3. \A s \in Settings : MeantValues(s) = {Resolve(s, flags.flag[s])}
      BY <2>2, SettingIsMeant
    <3>4. "url" \in Settings
      BY DEF Settings
    <3>5. "noLock" \in p.on <=> \E i \in Own : args[i] \in SwitchSpellings("noLock")
      <4>1. \A j \in Own : j <= Len(args)
        BY DEF Own
      <4>2. \A a : "noLock" \in SwitchesOf(a) <=> a \in SwitchSpellings("noLock")
        BY DEF SwitchesOf, Switches
      <4>3. QED
        BY <1>2, <4>1, <4>2, FlagsAreApart DEF ParsedAt, SwitchesAt, Switches
    <3>6. Named(Handlers \cup Asks) /\ Named(Handlers) /\ Named({h})
      BY <2>3, <3>1
    <3>7. CASE Resolve("url", flags.flag["url"]) = Empty
      <4>1. run = Stops(1)
        BY <3>2, <3>4, <3>7 DEF Handler
      <4>2. MeantValues("url") = {Empty}
        BY <3>3, <3>4, <3>7
      <4>3. QED
        BY <3>6, <4>1, <4>2 DEF Stops
    <3>8. CASE Resolve("url", flags.flag["url"]) # Empty
      <4>1. /\ run.runs = h /\ run.exit = -1 /\ run.on = p.on
            /\ \A s \in Settings : run.config[s] = Resolve(s, flags.flag[s])
        BY <2>2, <3>2, <3>4, <3>8 DEF Handler
      <4>2. MeantValues("url") # {Empty}
        BY <3>3, <3>4, <3>8
      <4>3. QED
        BY <2>5, <3>3, <3>5, <3>6, <4>1, <4>2
    <3>9. QED
      BY <3>7, <3>8
  <2>7. CASE \E q \in Asks : cmd = Word(q)
    <3>1. run = Stops(0)
      BY <1>5, <2>4, <2>5, <2>7 DEF RunWithWriters
    <3>2. Named(Handlers \cup Asks) /\ ~Named(Handlers)
      <4>1. \E w \in Handlers \cup Asks : cmd = Word(w)
        BY <2>7
      <4>2. ~\E w \in Handlers : cmd = Word(w)
        BY <2>4, <2>5, <2>7
      <4> HIDE DEF Named
      <4>3. QED
        BY <2>3, <4>1, <4>2
    <3>3. QED
      BY <3>1, <3>2 DEF Stops
  <2>8. CASE ~(\E h \in Handlers : cmd = Word(h)) /\ ~(\E q \in Asks : cmd = Word(q))
    <3>1. run = Stops(2)
      BY <1>5, <2>8 DEF RunWithWriters
    <3>2. ~Named(Handlers \cup Asks) /\ ~Named(Handlers)
      <4>1. ~\E w \in Handlers \cup Asks : cmd = Word(w)
        BY <2>8
      <4> HIDE DEF Named
      <4>2. QED
        BY <2>3, <2>8, <4>1
    <3> HIDE DEF Named
    <3>3. QED
      BY <3>1, <3>2 DEF Stops
  <2>9. QED
    BY <2>6, <2>7, <2>8
<1>6. QED
  BY <1>4, <1>5

-----------------------------------------------------------------------------
\* The arguments are what was typed.
LEMMA ArgumentsTyped == CommandsSpec => [](args \in Seq(Arguments))
<1>1. CommandsInit => args \in Seq(Arguments)
  BY DEF CommandsInit
<1>2. args \in Seq(Arguments) /\ [CommandsNext]_commandVars => (args \in Seq(Arguments))'
  BY DEF CommandsNext, Export, Type, commandVars
<1>3. QED
  BY <1>1, <1>2, PTL DEF CommandsSpec

\* For any arguments and any environment: flags may stand anywhere and the last one
\* wins, a value is never taken for a flag, the command is the first word that is
\* neither, and the exit code 2, the handler that runs, its settings and the omission
\* of the lock follow from that.
THEOREM ArgumentsAreUnderstood == CommandsSpec => []FlagsMeanWhatTheySay
<1>1. args \in Seq(Arguments) => FlagsMeanWhatTheySay
  <2>1. args \in Seq(Arguments) => args \in Seq(Texts)
    <3>1. Arguments \subseteq Texts
      BY DEF Texts
    <3>2. QED
      BY <3>1
  <2>2. QED
    BY <2>1, FlagsMean
<1>2. QED
  BY <1>1, ArgumentsTyped, PTL
=============================================================================
