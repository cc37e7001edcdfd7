SPECIFICATION Spec
CONSTANTS
    Images = 2
    MaxFaults = 2
INVARIANTS
    AppResetStartsApp
