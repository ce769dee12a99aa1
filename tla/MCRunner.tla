------------------------------ MODULE MCRunner ------------------------------
(***************************************************************************)
(* Constants for model-checking Runner: the files, directories and command *)
(* lines the .cfg files choose from.  Numbers are versions.                *)
(***************************************************************************)
EXTENDS Runner, TLC

CONSTANTS
  two,        \* a creation and a statement that may be repeated
  one,        \* a statement that may be repeated
  makes,      \* a creation
  half,       \* a creation, then a bad statement
  late,       \* a statement that violates a deferred constraint
  commits,    \* a COMMIT between a creation and a statement that may be repeated
  violates,   \* a violation of a deferred constraint, then a COMMIT
  strays,     \* a COMMIT twice, then a violation of such a constraint
  vacuums,    \* a statement that cannot run in a transaction
  r1, r2, r3

MCScript ==
  [c \in Contents |->
     CASE c = two     -> <<"create", "ok">>
       [] c = one     -> <<"ok">>
       [] c = makes   -> <<"create">>
       [] c = half    -> <<"create", "bad">>
       [] c = late    -> <<"deferred">>
       [] c = commits -> <<"create", "commit", "ok">>
       [] c = violates -> <<"deferred", "commit">>
       [] c = strays  -> <<"commit", "commit", "deferred">>
       [] c = vacuums -> <<"nontx">>]

\* A directory with the given file for version 1 and for version 2.
Files(first, second) ==
  [v \in Versions |-> CASE v = 1 -> first [] v = 2 -> second [] OTHER -> NoFile]

Locked(command_) == [cmd |-> command_, noLock |-> FALSE]
Unlocked(command_) == [cmd |-> command_, noLock |-> TRUE]

ApplyOnly == {Locked("apply")}
ApplyAndDryRun == {Locked("apply"), Locked("dry-run")}
Workers ==
  {Locked("apply"), Unlocked("apply"), Locked("dry-run"), Unlocked("dry-run")}
SomeJobs == Workers \cup {Locked("status")}
EveryJob ==
  {Locked("apply"), Unlocked("apply"), Locked("dry-run"), Unlocked("dry-run"),
   Locked("status"), Locked("plan")}

\* The directory every pod is meant to have.
SameImage == {Files(two, one)}

\* Pods of different releases: one file, another content, a gap, nothing, the files
\* in another order, the same file twice.
MixedImages ==
  {Files(two, one), Files(two, NoFile), Files(NoFile, one), Files(makes, two),
   Files(two, makes), Files(two, two), Files(NoFile, NoFile)}

\* Files that fail in each of the ways a file can.
BadImages == {Files(late, two), Files(two, half), Files(two, vacuums)}

\* Files that end their own transaction.
CommitImages == {Files(commits, one), Files(one, violates), Files(one, strays)}

EveryImage == MixedImages \cup BadImages \cup CommitImages
CommitImage == {Files(commits, NoFile)}
FirstImage == {Files(two, NoFile)}
=============================================================================
