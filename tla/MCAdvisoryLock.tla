--------------------------- MODULE MCAdvisoryLock ---------------------------
(***************************************************************************)
(* Constants for model-checking AdvisoryLock: two threads on one object,   *)
(* one on another, in one process.                                         *)
(***************************************************************************)
EXTENDS AdvisoryLock

CONSTANTS t1, t2, t3, o1, o2, p1

MCUses == [t \in Threads |-> IF t = t3 THEN o2 ELSE o1]

MCHome == [o \in Objects |-> p1]
=============================================================================
