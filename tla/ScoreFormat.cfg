SPECIFICATION Spec
CONSTANTS
    Precision = 17
    Mantissas = {1, 15, 25}
    Exponents <- SomeExponents
INVARIANT ScoresRoundTrip
CHECK_DEADLOCK FALSE
