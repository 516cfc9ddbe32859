SPECIFICATION Spec
CONSTANTS
    Mark = {"-"}
    Meant <- MCMeant
    Typeable <- MCTypeable
    MaxSlips = 2
INVARIANTS
    AcceptsStandardVins
PROPERTIES
    SubstitutionVerdict
    SwapVerdict
CHECK_DEADLOCK FALSE
