SPECIFICATION Spec
CONSTANTS
  Parts = {"lists"}
  Locals = {"x"}
  Atoms = {1, 2}
  MaxCells = 3
  MaxLen = 3
  MaxInner = 1
  ListStart = 2
  ListDelta = 1
  AllInPlace = TRUE
  TextVars = {"x"}
  MaxStrings = 4
  MaxText = 2
  StringStart = 1
  StringDelta = 1
  Mishandled = FALSE
  Octets = {1, 2}
  BufferVars = {"x"}
  MaxBuffers = 3
  MaxOctets = 3
  WrongBuffers = FALSE
  Keys = {0, 2, 5}
  data_hash <- HashOfKeys
  Entries = {1, 2}
  DictVars = {"x"}
  MaxDicts = 3
  HashtabStart = 2
  HashtabDelta = 1
  Names = {0, 2, 5, 7}
  hash <- HashOfNames
  Permanent <- PermanentNames
  MaxHeld = 2
  InitTabSize = 2
  TabDelta = 1
  NumTrays = 2
  TrayElem = 3
  PileBlockSize = 2
  MaxPileBlocks = 1
  MaxRegions = 4
  MaxPieces = 4
  MaxWords = 3
INVARIANTS ValuesKept
