\* A file changes between Discover and ReadFile.
CONSTANTS
  two = two  one = one  makes = makes  half = half  late = late  commits = commits
  violates = violates  strays = strays  vacuums = vacuums
  r1 = r1  r2 = r2  r3 = r3
  NoSum = NoSum  EmptySum = EmptySum  NoOne = NoOne  NoFile = NoFile
  Versions = {1, 2}
  Contents = {two, one}
  Script <- MCScript
  Runners = {r1, r2}
  Jobs <- ApplyOnly
  Images <- SameImage
  Faulty = {}
  Slow = {}
  Hung = {}
  Misled = {}
  Muted = {}
  MaxEdits = 1
SPECIFICATION Spec
INVARIANT ChecksumOfWhatRan
