---------------------------- MODULE StudentPallet ---------------------------
(***************************************************************************)
(* The student pallet on one chain: its storage, and one action per        *)
(* dispatchable of pallets/template/src/lib.rs.  Any origin may make any   *)
(* call with any argument, in any order: the extrinsics of a block run one *)
(* after the other, so a step is one call with its storage layer.          *)
(***************************************************************************)
EXTENDS StudentCalls

CONSTANT MaxEnrolments  \* bound: enrolments that succeed in one behaviour

ASSUME TagsAssumption == MaxEnrolments \in Nat /\ Tags = 1 .. MaxEnrolments

VARIABLES
    st,         \* the storage items StudentCount, Students, StudentsByOwner
    enrolled,   \* ghost: how many enrolments have been committed
    designated  \* ghost: the students each id has designated so far

vars == <<st, enrolled, designated>>

Init ==
    /\ st = EmptyStorage
    /\ enrolled = 0
    /\ designated = [id \in Ids |-> {}]

(* A call ends: its storage layer is committed or rolled back, and the      *)
(* ghosts take note of the records now in storage.                          *)
Ends(outcome, enrols) ==
    /\ st' = Committed(st, outcome)
    /\ enrolled' = enrolled + (IF enrols /\ outcome.err = "none" THEN 1 ELSE 0)
    /\ designated' = [id \in Ids |->
           IF st'.Students[id] = NoStudent THEN designated[id]
           ELSE designated[id] \cup {st'.Students[id].tag}]

Create(origin, profile) ==
    /\ enrolled < MaxEnrolments
    /\ Ends(create_student(st, origin, profile, enrolled + 1), TRUE)

(* Open to any signed account, so the record may claim to be graduated.     *)
Receive(origin, profile, graduated, new_owner) ==
    /\ enrolled < MaxEnrolments
    /\ Ends(receive_student(st, origin,
                [tag |-> enrolled + 1, profile |-> profile, has_graduated |-> graduated],
                new_owner), TRUE)

Graduate(origin, id, delivered) ==
    Ends(graduate_student(st, origin, id, delivered), FALSE)

Delete(origin, id) == Ends(delete_student(st, origin, id), FALSE)

Update(origin, id, profile) == Ends(update_student(st, origin, id, profile), FALSE)

DeleteAny(origin, id, first) == Ends(delete_any_student(st, origin, id, first), FALSE)

(* Only the owners whose list holds the id can be met first; when there is  *)
(* none the iteration ends without a change.                                *)
MetFirst(id) == IF Holders(st, id) = {} THEN Accounts ELSE Holders(st, id)

OwnerCall(origin) ==
    \/ \E profile \in Profiles : Create(origin, profile)
    \/ \E profile \in ValidProfiles, graduated \in BOOLEAN, new_owner \in Accounts :
          Receive(origin, profile, graduated, new_owner)
    \/ \E id \in Ids :
          \/ \E delivered \in BOOLEAN : Graduate(origin, id, delivered)
          \/ Delete(origin, id)
          \/ \E profile \in Profiles : Update(origin, id, profile)

AdminCall(origin) == \E id \in Ids : \E first \in MetFirst(id) : DeleteAny(origin, id, first)

Next == \E origin \in Origins : OwnerCall(origin) \/ AdminCall(origin)

Spec == Init /\ [][Next]_vars

-----------------------------------------------------------------------------
(* The storage items, the bounded lists included, keep the types that the   *)
(* pallet's storage declarations give them.                                 *)
TypeOK ==
    /\ st \in Storage
    /\ enrolled \in 0 .. MaxEnrolments
    /\ designated \in [Ids -> SUBSET Tags]

(* Every stored student is in one owner's list, once, and the lists hold    *)
(* nothing else.  Every call writes the two maps separately, and a push can *)
(* fail between the writes.                                                 *)
OwnershipExact == Exact(st)

(* A student id never designates two students over time: an id read from    *)
(* the chain, kept and used in a later call never reaches another student   *)
(* ("Generate new student ID", lib.rs:167).                                 *)
IdsNeverReused ==
    \A id \in Ids : \A t, u \in designated[id] : t = u

(* Enumerating 0 .. StudentCount - 1, as the frontend does (App.jsx:120),   *)
(* meets every stored student.                                              *)
EnumerationComplete == BelowCount(st)

(* The students in the list of an account keep their ids and their records  *)
(* in the calls that others make, delete_any_student apart: an enrolment    *)
(* overwrites no record, and no id that one account passes reaches a        *)
(* student of another.                                                      *)
Untouched(a) ==
    \A i \in 1 .. Len(st.StudentsByOwner[a]) :
        LET id == st.StudentsByOwner[a][i]
        IN  Listed(st'.StudentsByOwner[a], id) /\ st'.Students[id] = st.Students[id]

OthersLeaveAlone ==
    \A a \in Accounts : \A b \in Origins \ {a} : OwnerCall(b) => Untouched(a)

OnlyOwnersChange == [][OthersLeaveAlone]_vars

(* "DELETE ANY STUDENT (admin only - for received students)" (lib.rs:374):  *)
(* delete_any_student by a signed account leaves the students of others.    *)
OnlyAdminDeletesAny ==
    [][\A a \in Accounts : \A b \in Accounts \ {a} : AdminCall(b) => Untouched(a)]_vars

(* The inductive invariant behind the theorems: while the counter does not  *)
(* wrap it counts the enrolments, and the student enrolled when it stood at *)
(* id is the only one that id ever designates.                              *)
IdsFollowCount ==
    /\ st.StudentCount = enrolled
    /\ \A id \in Ids :
          /\ designated[id] \subseteq {id + 1}
          /\ st.Students[id] # NoStudent => st.Students[id].tag = id + 1

Inv == TypeOK /\ OwnershipExact /\ EnumerationComplete /\ IdsFollowCount

(* The table needs an entry for "no student", as the storage map has None.  *)
ASSUME NoEntryAssumption == NoStudent \notin [owner : Accounts, student : Students]

(* The pallet implements one table with an owner per student.               *)
Registry == INSTANCE StudentRegistry WITH
    registry  <- [id \in Ids |->
                     IF st.Students[id] = NoStudent THEN NoStudent
                     ELSE [owner   |-> CHOOSE a \in Accounts : a \in Holders(st, id),
                           student |-> st.Students[id]]],
    handedOut <- 0 .. st.StudentCount - 1

RegistrySpec == Registry!Spec
=============================================================================
