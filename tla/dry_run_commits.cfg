\* A file with a COMMIT of its own is rehearsed.
CONSTANTS
  two = two  one = one  makes = makes  half = half  late = late  commits = commits
  violates = violates  strays = strays  vacuums = vacuums
  r1 = r1  r2 = r2  r3 = r3
  NoSum = NoSum  EmptySum = EmptySum  NoOne = NoOne  NoFile = NoFile
  Versions = {1}
  Contents = {commits}
  Script <- MCScript
  Runners = {r1, r2}
  Jobs <- ApplyAndDryRun
  Images <- CommitImage
  Faulty = {}
  Slow = {}
  Hung = {}
  Misled = {}
  Muted = {}
  MaxEdits = 0
SPECIFICATION Spec
INVARIANT ReadersLeaveNoTrace
