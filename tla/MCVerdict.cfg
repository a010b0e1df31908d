SPECIFICATION Spec
CONSTANT Attempts <- Asked
INVARIANTS Contained NewsWakes StartupFailureDisqualifies SecondLook OnlyTheMutantConvicts
PROPERTY VerdictReached
