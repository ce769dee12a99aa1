------------------------------ MODULE MCInputs ------------------------------
(***************************************************************************)
(* What an invocation is given: its arguments and environment, its         *)
(* directory and history table, the text of its files.  The three modules  *)
(* share no state, so each is explored while the others rest.              *)
(***************************************************************************)
EXTENDS Workspace, Splitter, Commands

\* What the files do is of no concern here.
MCScript == [c \in Contents |-> <<"ok">>]

\* Two names of version 1, numbers and names in different orders, a number that
\* is too large, a name without a number, and a hidden file.
MCListed == <<".keep", "01_a.sql", "10_b.sql", "1_c.sql", "70_d.sql", "README">>

MCDigits ==
  [n \in {"01_a.sql", "10_b.sql", "1_c.sql", "70_d.sql"} |->
     CASE n = "01_a.sql" -> <<0, 1>>
       [] n = "10_b.sql" -> <<1, 0>>
       [] n = "1_c.sql" -> <<1>>
       [] n = "70_d.sql" -> <<7, 0>>]

MCMayBe ==
  [n \in Names |-> {Absent} \cup
     CASE n = "01_a.sql" -> {"a", "b", Dangling}
       [] n = "10_b.sql" -> {"a", Unreadable}
       [] n = "1_c.sql" -> {"a", Subdir}
       [] OTHER -> {"a"}]

MCChunks ==
  {<<"-", "-">>, <<"/", "*">>, <<"*", "/">>, <<"/">>, <<"'">>, <<"\"">>, <<";">>,
   <<"\n">>, <<"a">>, <<" ">>, <<"$", "$">>}

MCArguments ==
  {Word("apply"), Word("help"), Word("--dry-run"),
   Word("--no-lock"), With("--lock", "false"),
   Word("--dir"), With("--dir", "x "), With("--dir", ""),
   Word("--database-url"), With("-database-url", "db")}

MCValues == {Word(" "), Word(" set ")}

MCUnpadded ==
  [a \in {Word(" "), Word(" set "), Word("x ")} |->
     CASE a = Word(" ") -> Empty
       [] a = Word(" set ") -> Word("set")
       [] a = Word("x ") -> Word("x")]

InputsInit == WorkspaceInit /\ SplitterInit /\ CommandsInit

InputsNext ==
  \/ WorkspaceNext /\ SplitterInit /\ CommandsInit /\ UNCHANGED <<splitterVars, commandVars>>
  \/ SplitterNext /\ WorkspaceInit /\ CommandsInit /\ UNCHANGED <<workspaceVars, commandVars>>
  \/ CommandsNext /\ WorkspaceInit /\ SplitterInit /\ UNCHANGED <<workspaceVars, splitterVars>>

InputsSpec ==
  InputsInit /\ [][InputsNext]_<<workspaceVars, splitterVars, commandVars>>
=============================================================================
