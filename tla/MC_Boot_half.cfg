SPECIFICATION Spec
CONSTANT MaxTries = 3
INVARIANT
    StopsAtBoot
CHECK_DEADLOCK FALSE
