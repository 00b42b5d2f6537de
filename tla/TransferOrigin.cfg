\* Who else can put a graduated student on the Company.
SPECIFICATION Spec
CONSTANTS
    alice = alice
    bob = bob
    ada = ada
    Root = Root
    Foreign = Foreign
    NoStudent = NoStudent
    Sovereign = Sovereign
    Users <- MCUsers
    Accounts <- MCAccounts
    Profiles <- MCProfiles
    LongNames = {}
    LongSurnames = {}
    Tags <- MCTags
    MaxStudentsPerOwner = 1
    MaxEnrolments = 3
    IdSpace = 4
    PageRoom = 2
    HrmpCapacity = 1
SYMMETRY MCSymmetry
INVARIANTS GraduatesComeFromUniversity
