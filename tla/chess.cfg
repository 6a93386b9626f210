SPECIFICATION Spec
CONSTANT Starts <- MCStarts
INVARIANTS TypeOK LegalExact KeyExact RepetitionExact ChecksForetold Survives CodecsExact NotationExact
PROPERTY TakesBack
CHECK_DEADLOCK FALSE
