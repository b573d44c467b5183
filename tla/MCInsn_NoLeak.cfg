CONSTANT Lines <- MCLines
CONSTANT MaxObjs = 5
SPECIFICATION Spec
INVARIANT NoLeak
CHECK_DEADLOCK FALSE
