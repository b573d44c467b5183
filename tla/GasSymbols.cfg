SPECIFICATION Spec
INVARIANT TypeOK
INVARIANT NoCommonExtern
PROPERTY DefinedOnce
