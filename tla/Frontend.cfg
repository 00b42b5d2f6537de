\* Two students, every click, load and fault, up to two transactions.
SPECIFICATION FairSpec
CONSTANTS
    Alice = Alice
    Others = Others
    Sovereign = Sovereign
    None = None
    ada = ada
    Root = Root
    Foreign = Foreign
    NoStudent = NoStudent
    Accounts <- MCAccounts
    Profiles <- MCProfiles
    LongNames = {}
    LongSurnames = {}
    Tags <- MCTags
    MaxStudentsPerOwner = 2
    MaxEnrolments = 2
    IdSpace = 3
    Mounts = 1
    Faults = TRUE
    MaxClicks = 2
INVARIANTS TypeOK FlagsFollowRequests
PROPERTIES ActsOnShown EveryStudentShown ButtonsComeBack
CHECK_DEADLOCK FALSE
