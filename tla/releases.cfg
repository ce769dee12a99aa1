\* Two pods of different releases, with good and bad files, every command, with and
\* without the lock.
CONSTANTS
  two = two  one = one  makes = makes  half = half  late = late  commits = commits
  violates = violates  strays = strays  vacuums = vacuums
  r1 = r1  r2 = r2  r3 = r3
  NoSum = NoSum  EmptySum = EmptySum  NoOne = NoOne  NoFile = NoFile
  Versions = {1, 2}
  Contents = {two, one, makes, half, late, commits, violates, strays, vacuums}
  Script <- MCScript
  Runners = {r1, r2}
  Jobs <- EveryJob
  Images <- EveryImage
  Faulty = {}
  Slow = {}
  Hung = {}
  Misled = {}
  Muted = {}
  MaxEdits = 0
SPECIFICATION Spec
INVARIANTS NothingSkippedBelow AppliedIsDurable ExitZeroMeansUpToDate RehearsalForetells
