CONSTANT N <- MCN3
SPECIFICATION Spec
INVARIANT LevelIsHeight
CHECK_DEADLOCK FALSE
