SPECIFICATION Spec
CONSTANT Values <- SomeValues
INVARIANTS TypeOK ErrorIsFlagged ModeIsLastAssigned
CHECK_DEADLOCK FALSE
