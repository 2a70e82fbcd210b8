SPECIFICATION LifeSpec
CONSTANT CallbackThread = FALSE
INVARIANT ServerDiesFirst
CHECK_DEADLOCK FALSE
