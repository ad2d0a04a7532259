SPECIFICATION Spec
CONSTANT N = 3
INVARIANT NullMeansEmpty
CHECK_DEADLOCK FALSE
