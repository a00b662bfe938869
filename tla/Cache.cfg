SPECIFICATION Spec
CONSTANTS
  Dbrefs <- FourObjects
  Values = {a, b}
  NoObj = NoObj
  CACHE_WIDTH = 1
  CACHE_DEPTH = 2
  MaxHeld = 1
  TextDump <- TheThird
  Orphans <- TheFourth
  Changeable <- AllButSystem
  Unmarked <- TheThird
  Scripts = {"evals"}
INVARIANTS OneHolder HeldIsActive ObjectsIntact CleanMeansSaved HoldersBounded TopIsFree
SYMMETRY Symmetry
