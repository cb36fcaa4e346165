SPECIFICATION Spec
CONSTANTS
    Inputs <- OneRange
INVARIANT RangeMayEndAtBracket
CHECK_DEADLOCK FALSE
