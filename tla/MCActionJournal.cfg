SPECIFICATION Spec
CONSTANTS
    c1 = c1
    c2 = c2
    c3 = c3
    Calls <- ThreeCalls
    Remote <- ServedRemotely
    Keys = {k1}
    NoKey = NoKey
    NoRow = NoRow
INVARIANTS SoleOwner ConfirmedOnce HonestReplay
PROPERTIES ReconciledAtWake WorkOnceSpec
CHECK_DEADLOCK FALSE
SYMMETRY Symmetry
