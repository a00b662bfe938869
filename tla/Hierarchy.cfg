SPECIFICATION MCSpec
CONSTANTS
    Dbrefs <- FourObjects
    ParentLists <- GraphLists
    Holdable <- TheLast
    Clean <- TheLast
    Names <- OneName
    METHOD_CACHE_SIZE = 1
    Afters <- NotTheLast
    Lists <- SomeLists
    Dumped <- TheLast
    Parts = {"graph", "methods"}
INVARIANTS KinAgree Acyclic FindAgrees
PROPERTIES NobodyCutOff
CHECK_DEADLOCK FALSE
