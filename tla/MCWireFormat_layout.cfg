SPECIFICATION Spec
CONSTANT Spare = 2
INVARIANTS RoundTrip LookAlikes WritesAreExact EnvelopeSurvives
CHECK_DEADLOCK FALSE
