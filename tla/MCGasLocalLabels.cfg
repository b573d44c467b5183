CONSTANT Programs <- MCPrograms
CONSTANT LabelNums <- MCLabelNums
SPECIFICATION Spec
INVARIANT TypeOK
INVARIANT LocalDefsNeverClash
INVARIANT LocalRefsResolve
CHECK_DEADLOCK FALSE
