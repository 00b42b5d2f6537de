\* Every message of up to four instructions through barrier and executor.
SPECIFICATION Spec
CONSTANTS
    ParaIds = {1000, 3000}
    alice = alice
    bob = bob
    Keys <- MCKeys
    Funded <- MCFunded
    MaxPrefixes = 2
    PaidWithin = 3
    MaxProgram = 4
INVARIANTS TypeOK OnlyOwnSovereign AccountsDispatchNothing GraduationMessageRuns
CHECK_DEADLOCK FALSE
