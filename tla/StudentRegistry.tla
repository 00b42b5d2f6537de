--------------------------- MODULE StudentRegistry --------------------------
(***************************************************************************)
(* What the student pallet promises, without its two maps and its counter: *)
(* ONE table that gives each student in it an owner.  An id is handed out  *)
(* once, an owner has at most MaxStudentsPerOwner students at a time, and  *)
(* an update changes neither the owner, nor who the student is, nor        *)
(* whether they have graduated.                                            *)
(***************************************************************************)
EXTENDS Integers, FiniteSets

CONSTANTS Accounts, Ids, Students, ValidProfiles, NoStudent, MaxStudentsPerOwner

VARIABLES
    registry,  \* id -> the owner and the student, or NoStudent
    handedOut  \* the ids that have been given to a student so far

registryVars == <<registry, handedOut>>

Entries == [owner : Accounts, student : Students]

Init ==
    /\ registry = [id \in Ids |-> NoStudent]
    /\ handedOut = {}

OwnedBy(a) == {id \in Ids : registry[id] # NoStudent /\ registry[id].owner = a}

Enter(id, owner, student) ==
    /\ id \notin handedOut
    /\ Cardinality(OwnedBy(owner)) < MaxStudentsPerOwner
    /\ registry' = [registry EXCEPT ![id] = [owner |-> owner, student |-> student]]
    /\ handedOut' = handedOut \cup {id}

Leave(id) ==
    /\ registry[id] # NoStudent
    /\ registry' = [registry EXCEPT ![id] = NoStudent]
    /\ UNCHANGED handedOut

Amend(id, profile) ==
    /\ registry[id] # NoStudent
    /\ registry' = [registry EXCEPT ![id] =
           [owner   |-> registry[id].owner,
            student |-> [registry[id].student EXCEPT !.profile = profile]]]
    /\ UNCHANGED handedOut

Next ==
    \/ \E id \in Ids, owner \in Accounts, student \in Students :
          Enter(id, owner, student)
    \/ \E id \in Ids : Leave(id)
    \/ \E id \in Ids, profile \in ValidProfiles : Amend(id, profile)

Spec == Init /\ [][Next]_registryVars
=============================================================================
