SPECIFICATION Spec
CONSTANTS
  Paths <- MCPaths
  canonical <- MCcanonical
  Valid <- MCValid
  Commands <- MCCommands
  Archives <- MCArchives
  Directories <- MCDirectories
  Names <- MCNames
  Contents <- MCContents
  MaxMembers = 3
  MaxRuns = 2
  MaxFaults = 1
  NoFile = NoFile
  NULL = NULL
INVARIANTS
  EditsList
  FailsSafe
  Repeatable
