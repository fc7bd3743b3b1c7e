CONSTANTS
  k1 = k1
  k2 = k2
  generated1 = generated1
  generated2 = generated2
  given = given
  long = long
  node = node
  NoName = NoName
  Keys <- MCKeys
  Names <- MCNames
  Generated <- MCGenerated
  ProfileName = NoName
  Texts <- MCTexts
  AclKeys <- MCAclKeys
  InitialFiles <- MCInitialFiles
  Powers <- MCPowers
  Ports <- MCPorts
  Tables <- MCTables
  ImageTable = "image"
  Silent <- MCSilent
  ReadAs <- MCReadAs
  Unread <- MCUnread
  MaxLen = 1
  MaxOverrides = 2
  ReadErrors = TRUE
SPECIFICATION Spec
INVARIANT AcknowledgedSurvives
INVARIANT RewriteKeeps
INVARIANT CheckedSettingsLoad
PROPERTY KeepsPromise
