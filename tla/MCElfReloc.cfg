SPECIFICATION Spec
INVARIANTS
    TypeOK
    MachineSelectionConsistent
    AcceptedTypeFitsValue
    X32RestrictsAmd64
CHECK_DEADLOCK FALSE
