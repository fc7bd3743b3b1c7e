CONSTANTS
  old = old
  new = new
  broken = broken
  text = text
  Images <- MCImages
  Uploads = {new, broken, text}
  Needed <- MCNeeded
  HasMagic = {old, new, broken}
  Sound = {old, new}
  First = old
  Lens = {0, 1, 5, 8, 9}
  Word = 2
  Sector = 4
  Capacity = 8
  MaxRead = 3
SPECIFICATION OtaSpec
INVARIANT FlashIsKept
INVARIANT SelectedIsTrue
PROPERTY NoWriteAfterStop
PROPERTY RequestsAreSeen
