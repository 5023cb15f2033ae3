\* Three diffs, the first of which writes triple quotes into a comment.
CONSTANTS
  None = None
  Malformed = Malformed
  PythonPaths <- MCPythonPaths
  ReservedPaths <- MCReserved
  UnsafePaths <- MCUnsafe
  HostKey <- MCHostKey
  Limits <- MCLimits
  ConfigLimits <- MCConfigLimits
  Seeds <- MCSeeds
  Answers <- QuotingAnswers
  Requests <- NoRequest
  PathOrder <- MCPathOrder
  Template <- MCTemplate
  FixedSections <- MCFixedSections
  TaskTerms <- MCTaskTerms
  InstructionLength <- MCInstructionLength
  SafeLabels <- MCSafeLabels
  SecretLabels <- MCSecretLabels
  LowerCase <- MCLowerCase
  DeclaredMetrics <- MCDeclaredMetrics
  KeyOrder <- MCKeyOrder
  SpecialKeys <- MCSpecialKeys
  Overhead = 3
  MarkerLength = 3
  NoticeLength = 2
  MaxFeedback = 200
  FieldMax = 8
  MaxItems = 2
  HashLength = 3
  NoItems = 2
  MaxExtra = 6
  ArtifactMode = "bounded_file"
  ArtifactBytes = 5
  ArtifactChars = 6
  HasArtifactDir = TRUE
  InspirationCount = 2
  CaptureMetadata = TRUE
  TokenLength = 4
  Modes = {"diff"}
  MaxProposals = 3
  MaxDiskFaults = 0
  MaxCtrlC = 0
SPECIFICATION Spec
INVARIANTS
  SkeletonKept
CHECK_DEADLOCK FALSE
