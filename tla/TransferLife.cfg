\* The two chains against the life of a student they promise, and the
\* end of every journey, with one place per owner so that arrivals can fail.
SPECIFICATION FairSpec
CONSTANTS
    alice = alice
    bob = bob
    ada = ada
    Root = Root
    Foreign = Foreign
    NoStudent = NoStudent
    Sovereign = Sovereign
    Users <- MCUsers
    Accounts <- MCAccounts
    Profiles <- MCProfiles
    LongNames = {}
    LongSurnames = {}
    Tags <- MCTags
    MaxStudentsPerOwner = 1
    MaxEnrolments = 3
    IdSpace = 4
    PageRoom = 2
    HrmpCapacity = 1
PROPERTIES LifeSpec EveryTravellerSettles
