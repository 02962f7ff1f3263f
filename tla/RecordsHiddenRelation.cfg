SPECIFICATION Spec
INVARIANT RelationsReadBack
CHECK_DEADLOCK FALSE
