\* Three locked runners, apply or dry-run; one of them may fail in every way.
CONSTANTS
  two = two  one = one  makes = makes  half = half  late = late  commits = commits
  violates = violates  strays = strays  vacuums = vacuums
  r1 = r1  r2 = r2  r3 = r3
  NoSum = NoSum  EmptySum = EmptySum  NoOne = NoOne  NoFile = NoFile
  Versions = {1, 2}
  Contents = {two, one}
  Script <- MCScript
  Runners = {r1, r2, r3}
  Jobs <- ApplyAndDryRun
  Images <- SameImage
  Faulty = {r1}
  Slow = {r1}
  Hung = {}
  Misled = {}
  Muted = {}
  MaxEdits = 0
SPECIFICATION Spec
INVARIANTS TypeOK WorkOnlyUnderLock PlanStaysFresh AppliedIsDurable UndisturbedUnderLock
  RehearsalForetells
PROPERTY SurvivorSucceeds
