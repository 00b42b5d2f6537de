\* One student and one graduation, nothing fails: is the graduate shown?
SPECIFICATION FairSpec
CONSTANTS
    Alice = Alice
    Others = Others
    Sovereign = Sovereign
    None = None
    ada = ada
    Root = Root
    Foreign = Foreign
    NoStudent = NoStudent
    Accounts <- MCAccounts
    Profiles <- MCProfiles
    LongNames = {}
    LongSurnames = {}
    Tags <- MCTags
    MaxStudentsPerOwner = 2
    MaxEnrolments = 1
    IdSpace = 2
    Mounts = 1
    Faults = FALSE
    MaxClicks = 1
PROPERTIES GraduateAppears
CHECK_DEADLOCK FALSE
