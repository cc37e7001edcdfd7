SPECIFICATION Spec
CONSTANTS
    Stages = 2
    Inputs = 0
    Outputs = 1
    MaxDamage = 1
    MaxTimeouts = 0
    MaxIdle = 0
    SeqMod = 4
    Patient = FALSE
INVARIANTS
    LogitsAreOwn
