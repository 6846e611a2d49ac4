SPECIFICATION Spec
CONSTANTS
  Paths <- MCPaths
  RulePaths <- MCRulePaths
  LinkTargets <- MCLinkTargets
  Mounted <- MCMounted
  MaxReleases = 2
  MaxWrites = 1
  MaxFaults = 1
INVARIANTS
  AbsentStays
  ArchiveInstalled
  ModesOnlyByRules
  RulesApplied
  FailsForAReason
CHECK_DEADLOCK FALSE
