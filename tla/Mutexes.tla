------------------------------ MODULE Mutexes ------------------------------
(***************************************************************************)
(* What advisory locks promise: in each place where a lock can be held,    *)
(* one holder at a time.  A place is taken when it is free, and is free    *)
(* again before another has it; a holder has one place.                    *)
(***************************************************************************)
CONSTANTS
  Places,     \* where a lock can be held
  Holders     \* who can hold it

VARIABLE held  \* held[p]: who holds the lock in place p

MutexesInit == held = [p \in Places |-> {}]

Take(p, h) ==
  /\ held[p] = {}
  /\ \A q \in Places : h \notin held[q]
  /\ held' = [held EXCEPT ![p] = {h}]

GiveBack(p) ==
  /\ held[p] # {}
  /\ held' = [held EXCEPT ![p] = {}]

MutexesNext ==
  \E p \in Places : GiveBack(p) \/ \E h \in Holders : Take(p, h)

Spec == MutexesInit /\ [][MutexesNext]_held
=============================================================================
