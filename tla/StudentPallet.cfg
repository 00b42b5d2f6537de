\* Every call in every order, up to three enrolments, no wrap of the counter,
\* and the table of students and owners the pallet promises.
SPECIFICATION Spec
CONSTANTS
    a1 = a1
    a2 = a2
    ada = ada
    bob = bob
    longName = longName
    longSurname = longSurname
    Root = Root
    Foreign = Foreign
    NoStudent = NoStudent
    Accounts <- MCAccounts
    Profiles <- MCProfiles
    LongNames <- MCLongNames
    LongSurnames <- MCLongSurnames
    Tags <- MCTags
    MaxStudentsPerOwner = 2
    MaxEnrolments = 3
    IdSpace = 4
INVARIANTS TypeOK OwnershipExact IdsNeverReused EnumerationComplete IdsFollowCount
PROPERTIES OnlyOwnersChange RegistrySpec
