SPECIFICATION Spec
CONSTANT Starts <- MCStarts
INVARIANTS LegalExact KeyExact CheckKept VerdictJust VerdictImpartial CodecsExact
PROPERTY TakesBack
CHECK_DEADLOCK FALSE
