CONSTANT Programs <- MCPrograms
SPECIFICATION Spec
INVARIANT TypeOK
INVARIANT OptimizedJumpsFit
INVARIANT OutputMatchesLen
INVARIANT OutputContiguous
INVARIANT ExpansionsNeeded
PROPERTY NonOrgLenMonotone
PROPERTY Terminates
PROPERTY ImplementsSectionLayout
CHECK_DEADLOCK FALSE
