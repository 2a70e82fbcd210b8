SPECIFICATION LifeFairSpec
CONSTANT CallbackThread = TRUE
INVARIANTS
    LifeTypeOK
    PromptStop
    DiesClean
PROPERTY ExitEnds
CHECK_DEADLOCK FALSE
