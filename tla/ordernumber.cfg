\* Every number of up to five characters.
SPECIFICATION Spec
CONSTANT MaxLength = 5
INVARIANTS AcceptsCheckDigit TyposAreRefused
CHECK_DEADLOCK FALSE
