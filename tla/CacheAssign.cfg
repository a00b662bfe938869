SPECIFICATION Spec
CONSTANTS
  Dbrefs <- FourObjects
  Values = {a, b}
  NoObj = NoObj
  CACHE_WIDTH = 1
  CACHE_DEPTH = 2
  MaxHeld = 1
  TextDump <- NoDump
  Orphans <- NoDump
  Changeable <- AllButSystem
  Unmarked <- TheThird
  Scripts = {}
INVARIANT ChangesKept
SYMMETRY Symmetry
