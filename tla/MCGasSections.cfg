SPECIFICATION Spec
CONSTANTS
    Sects = {".text", ".data", ".bss", "s1"}
    NoSect = NoSect
    Start = ".text"
    MaxDepth = 2
INVARIANT TypeOK
PROPERTY ImplementsSectionStack
