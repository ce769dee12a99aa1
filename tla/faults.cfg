\* Two runners, with and without the lock: one may fail in every way, and a file may
\* change or disappear under either.
CONSTANTS
  two = two  one = one  makes = makes  half = half  late = late  commits = commits
  violates = violates  strays = strays  vacuums = vacuums
  r1 = r1  r2 = r2  r3 = r3
  NoSum = NoSum  EmptySum = EmptySum  NoOne = NoOne  NoFile = NoFile
  Versions = {1, 2}
  Contents = {two, one, half}
  Script <- MCScript
  Runners = {r1, r2}
  Jobs <- SomeJobs
  Images <- SameImage
  Faulty = {r1}
  Slow = {r1}
  Hung = {}
  Misled = {r1}
  Muted = {r1}
  MaxEdits = 1
SPECIFICATION Spec
INVARIANTS HistoryMatchesSchema FailedIsRolledBack ReadersLeaveNoTrace
PROPERTY ImplementsLog
