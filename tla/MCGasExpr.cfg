SPECIFICATION Spec
CONSTANTS
    Inputs <- MCInputs
    Nums <- MCNums
    Idents <- MCIdents
    SpecialSyms <- MCSpecialSyms
    DirInputs <- MCDirInputs
    FillInputs <- MCFillInputs
    Regs <- MCRegs
    RegGroups <- MCRegGroups
    RegGroupSize = 8
    NumVal <- MCNumVal
INVARIANTS
    TypeOK
    ParseExprMatchesGrammar
    CleanStatementIsItsOperands
    DataTermsEncodeTrees
    NameValuesCoverOperands
    FillFailureDiagnosed
    CleanFillIsItsOperands
PROPERTY
    DirTurnsConsume
CHECK_DEADLOCK FALSE
