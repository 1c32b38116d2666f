\* Two submits whose timer may fire at either await.
SPECIFICATION Spec
CONSTANT MaxSubmits = 2
INVARIANT TimeoutIsNamed
CHECK_DEADLOCK FALSE
