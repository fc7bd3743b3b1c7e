CONSTANTS
  eng = eng
  eng_ne = eng_ne
  local = local
  private = private
  bare = bare
  hashed = hashed
  escaped = escaped
  Default = Default
  Capture = Capture
  Wildcard = Wildcard
  NoName = NoName
  Names <- MCNames
  Begins <- MCBegins
  Private <- MCPrivate
  Read <- MCRead
  ReadValue <- MCReadValue
  Unreadable <- MCUnreadable
  Escaped <- MCEscaped
  MaxRegions = 4
  MaxId = 6
  Profile <- MCProfile
  ProfileCapture = FALSE
  Codes <- MCCodes
SPECIFICATION RegionsSpec
INVARIANT TableKept
INVARIANT RegionsReadBack
INVARIANT AllowedIsMatched
