\* Six names in a directory that may change once during a scan, every history of two
\* versions; every text of up to five chunks; every command line of up to four arguments.
CONSTANTS
  NoSum = NoSum  EmptySum = EmptySum
  Versions = {1, 10}
  Contents = {"a", "b"}
  Script <- MCScript
  Listed <- MCListed
  Digits <- MCDigits
  Hidden = {".keep"}
  MaxVersion = 63
  Absent = "absent"  Subdir = "subdir"  Dangling = "dangling"  Unreadable = "unreadable"
  MayBe <- MCMayBe
  MaxChanges = 1
  Chunks <- MCChunks
  MaxChunks = 5
  Arguments <- MCArguments
  Values <- MCValues
  Unpadded <- MCUnpadded
  MaxArgs = 4
SPECIFICATION InputsSpec
CHECK_DEADLOCK FALSE
INVARIANTS WorkspaceTypeOK NothingIgnored GateMeansApplied StatusAgreesWithPlan CountsAddUp SplitsAsServerReads LinesAreRight FlagsMeanWhatTheySay
