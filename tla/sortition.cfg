SPECIFICATION Spec

CONSTANTS
    Width = 14
    Precision = 12

INVARIANT
    ElectedOnLeadingDigits

CHECK_DEADLOCK FALSE
