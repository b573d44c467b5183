SPECIFICATION Spec
INVARIANT DefinedNeverCommon
