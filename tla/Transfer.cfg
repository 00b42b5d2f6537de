\* Both chains and the channel, every call, up to four students.
SPECIFICATION Spec
CONSTANTS
    alice = alice
    bob = bob
    ada = ada
    Root = Root
    Foreign = Foreign
    NoStudent = NoStudent
    Sovereign = Sovereign
    Users <- MCUsers
    Accounts <- MCAccounts
    Profiles <- MCProfiles
    LongNames = {}
    LongSurnames = {}
    Tags <- MCTags
    MaxStudentsPerOwner = 2
    MaxEnrolments = 4
    IdSpace = 5
    PageRoom = 2
    HrmpCapacity = 1
SYMMETRY MCSymmetry
INVARIANTS TypeOK ChainsExact OnePlace DepartedGraduated
