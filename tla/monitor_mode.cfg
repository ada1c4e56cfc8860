SPECIFICATION Spec
CONSTANTS
    MaxFaults = 2
INVARIANTS
    TypeOK
    SuccessIsUsable
    NotLeftDown
