CONSTANT Lines <- MCLines
CONSTANT MaxObjs = 5
SPECIFICATION Spec
INVARIANT TypeOK
INVARIANT ExclusiveOwnership
INVARIANT NoUndefinedBehaviour
CHECK_DEADLOCK FALSE
