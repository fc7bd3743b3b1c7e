CONSTANTS
  k1 = k1
  k2 = k2
  generated1 = generated1
  generated2 = generated2
  given = given
  long = long
  node = node
  NoName = NoName
  Keys <- MCKeys
  Names <- MCNames
  Generated <- MCGenerated
  ProfileName = NoName
  Texts <- MCTexts
  AclKeys <- MCAclKeys
  InitialFiles <- MCFirstFiles
  Powers <- MCPowers
  Ports <- MCPortsAboveZero
  Tables <- MCTablesKept
  ImageTable = "image"
  Silent <- MCTablesKept
  ReadAs <- MCReadAsKept
  Unread = {}
  MaxLen = 1
  MaxOverrides = 2
  ReadErrors = FALSE
SPECIFICATION Spec
INVARIANT BootKeepsIdentity
