\* Liveness: every command may run, the first runner may fail in every way, its server
\* may stop answering, and both have a deadline.
CONSTANTS
  two = two  one = one  makes = makes  half = half  late = late  commits = commits
  violates = violates  strays = strays  vacuums = vacuums
  r1 = r1  r2 = r2  r3 = r3
  NoSum = NoSum  EmptySum = EmptySum  NoOne = NoOne  NoFile = NoFile
  Versions = {1}
  Contents = {two, one}
  Script <- MCScript
  Runners = {r1, r2}
  Jobs <- EveryJob
  Images <- FirstImage
  Faulty = {r1}
  Slow = {r1, r2}
  Hung = {r1}
  Misled = {}
  Muted = {r1}
  MaxEdits = 0
SPECIFICATION Spec
PROPERTY EveryRunEnds
