\* Two threads on one object and one on another; all errors may be misread.
CONSTANTS
  t1 = t1  t2 = t2  t3 = t3  o1 = o1  o2 = o2  p1 = p1
  NoThread = NoThread  NoObject = NoObject
  Threads = {t1, t2, t3}
  Objects = {o1, o2}
  Processes = {p1}
  Uses <- MCUses
  Home <- MCHome
  Mistakable = {o1, o2}
  MaxHeld = 1
SPECIFICATION Spec
INVARIANTS FlagsTellTheTruth HoldersExclude
PROPERTIES ImplementsMutexes EveryCallReturns
