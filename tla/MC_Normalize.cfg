\* A pure function: every behaviour stops after its one call returns.
CONSTANTS
    Char <- MC_Char
    PubBegin <- MC_PubBegin
    PubEnd <- MC_PubEnd
    MaxLen = 8
    MaxGarbage = 2
SPECIFICATION Spec
INVARIANTS Idempotent TrailingStable AgreesWithSpec
CHECK_DEADLOCK FALSE
