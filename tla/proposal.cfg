\* Two proposals along a line from each seed, in both modes, the writing of
\* each candidate with two failed operations and two Ctrl+C, and the prompts of
\* every policy.
CONSTANTS
  None = None
  Malformed = Malformed
  PythonPaths <- MCPythonPaths
  ReservedPaths <- MCReserved
  UnsafePaths <- MCUnsafe
  HostKey <- MCHostKey
  Limits <- MCLimits
  ConfigLimits <- MCConfigLimits
  Seeds <- MCSeeds
  Answers <- MCAnswers
  Requests <- MCRequests
  PathOrder <- MCPathOrder
  Template <- MCTemplate
  FixedSections <- MCFixedSections
  TaskTerms <- MCTaskTerms
  InstructionLength <- MCInstructionLength
  SafeLabels <- MCSafeLabels
  SecretLabels <- MCSecretLabels
  LowerCase <- MCLowerCase
  DeclaredMetrics <- MCDeclaredMetrics
  KeyOrder <- MCKeyOrder
  SpecialKeys <- MCSpecialKeys
  Overhead = 3
  MarkerLength = 3
  NoticeLength = 2
  MaxFeedback = 200
  FieldMax = 8
  MaxItems = 2
  HashLength = 3
  NoItems = 2
  MaxExtra = 6
  ArtifactMode = "bounded_file"
  ArtifactBytes = 5
  ArtifactChars = 6
  HasArtifactDir = TRUE
  InspirationCount = 2
  CaptureMetadata = TRUE
  TokenLength = 4
  Modes = {"diff", "full"}
  MaxProposals = 2
  MaxDiskFaults = 2
  MaxCtrlC = 2
SPECIFICATION Spec
INVARIANTS
  LineageSound
  OldOrNew
  PromptFits
PROPERTIES
  OneMeaning
CHECK_DEADLOCK FALSE
