CONSTANT Kinds <- MCKinds
SPECIFICATION Spec
CHECK_DEADLOCK FALSE
INVARIANTS
    WatchesAgree
    UsesKnown
    Released
