\* More enrolments than the u32 has values, scaled down to two.
SPECIFICATION Spec
CONSTANTS
    a1 = a1
    a2 = a2
    ada = ada
    bob = bob
    longName = longName
    longSurname = longSurname
    Root = Root
    Foreign = Foreign
    NoStudent = NoStudent
    Accounts <- MCAccounts
    Profiles <- MCProfiles
    LongNames <- MCLongNames
    LongSurnames <- MCLongSurnames
    Tags <- MCTags
    MaxStudentsPerOwner = 2
    MaxEnrolments = 3
    IdSpace = 2
INVARIANTS IdsNeverReused
