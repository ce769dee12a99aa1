\* A link to nothing, or a file that goes away during the scan.
CONSTANTS
  NoSum = NoSum  EmptySum = EmptySum
  Versions = {1, 10}
  Contents = {"a", "b"}
  Script <- MCScript
  Listed <- MCListed
  Digits <- MCDigits
  Hidden = {".keep"}
  MaxVersion = 63
  Absent = "absent"  Subdir = "subdir"  Dangling = "dangling"  Unreadable = "unreadable"
  MayBe <- MCMayBe
  MaxChanges = 1
  Chunks <- MCChunks
  MaxChunks = 5
  Arguments <- MCArguments
  Values <- MCValues
  Unpadded <- MCUnpadded
  MaxArgs = 4
SPECIFICATION InputsSpec
CHECK_DEADLOCK FALSE
INVARIANT EmptyListMeansNoFiles
