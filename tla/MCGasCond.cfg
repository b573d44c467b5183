CONSTANT Programs <- MCPrograms
SPECIFICATION Spec
INVARIANT TypeOK
INVARIANT AssemblesReference
CHECK_DEADLOCK FALSE
