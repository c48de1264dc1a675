CONSTANTS
    Functions = {f, g}
    Declarations = {g}
    None = None
    Versions <- MCVersions
    UsedKinds = {"default", "thinLTOPreLink"}
    UsedLevels <- MCLevels
    UsedEPs <- MCEPs
    UsedRoutes <- MCRoutes
    UsedTexts <- MCTexts
    MaxTexts = 2
    MaxNesting = 6
SPECIFICATION Spec
CHECK_DEADLOCK FALSE
INVARIANTS TypeOK SizeHonoured AskedIsBuilt SelfInclusion LevelTold
