SPECIFICATION Spec
CONSTANTS
    Inputs <- MCInputs
    AttInputs <- MCAttInputs
    WordSize = 16
    RegSize <- MCRegSize
    SegRegs <- MCSegRegs
    TargetMods <- MCTargetMods
    RegGroups <- MCRegGroups
    AttDisps <- MCAttDisps
    AttScales <- MCAttScales
INVARIANTS
    IndexNeverDropped
CHECK_DEADLOCK FALSE
