CONSTANTS
    Offsets <- MC_Offsets
    Sizes <- MC_Sizes
SPECIFICATION Spec
INVARIANT LayoutCorrect
\* The script ends: after the last image or at the failed assertion.
CHECK_DEADLOCK FALSE
