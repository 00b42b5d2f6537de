---------------------------- MODULE StudentCalls ----------------------------
(***************************************************************************)
(* The dispatchable functions of pallets/template/src/lib.rs, as operators *)
(* on the storage of ONE chain.  The same pallet runs on the University    *)
(* (para 1000) and on the Company (para 2000), so both chains are built    *)
(* from this module.                                                       *)
(*                                                                         *)
(* A call is an operator  (storage, origin, arguments) -> outcome.  The    *)
(* outcome holds the error of the first early return ("none" for Ok(())),  *)
(* the storage as the body leaves it (the writes made BEFORE a late error  *)
(* included) and the XCM messages it handed to the router.  Committed is   *)
(* the storage layer FRAME wraps around every dispatchable.                *)
(***************************************************************************)
EXTENDS Integers, Sequences

CONSTANTS
    Accounts,           \* account ids: signers, owners, sovereign accounts
    Root,               \* the root origin (sudo)
    Foreign,            \* any other origin an XCM can be converted to
    Profiles,           \* <<name, surname, age, gender>>, as one value
    LongNames,          \* the profiles whose name exceeds MaxNameLen
    LongSurnames,       \* the profiles whose surname exceeds MaxSurnameLen
    MaxStudentsPerOwner,\* ConstU32<100>
    IdSpace,            \* 2^32: the number of values of a u32
    Tags,               \* ghost: the identity of the person a record is about
    NoStudent           \* None of OptionQuery

ASSUME OriginsAssumption == Root \notin Accounts /\ Foreign \notin Accounts
ASSUME BoundsAssumption == MaxStudentsPerOwner \in Nat /\ IdSpace \in Nat \ {0}

Ids     == 0 .. IdSpace - 1
Origins == Accounts \cup {Root, Foreign}

(* The names and surnames that the BoundedVec conversions accept. *)
ValidProfiles == Profiles \ (LongNames \cup LongSurnames)

(* The tag is a ghost: it follows a student through updates and transfers. *)
Students == [tag : Tags, profile : ValidProfiles, has_graduated : BOOLEAN]

ASSUME NoStudentAssumption == NoStudent \notin Students

IdLists == {l \in Seq(Ids) : Len(l) <= MaxStudentsPerOwner}

Storage == [StudentCount    : Ids,
            Students        : [Ids -> Students \cup {NoStudent}],
            StudentsByOwner : [Accounts -> IdLists]]

(* No genesis preset fills the pallet: every item has its default. *)
EmptyStorage == [StudentCount    |-> 0,
                 Students        |-> [id \in Ids |-> NoStudent],
                 StudentsByOwner |-> [a \in Accounts |-> <<>>]]

-----------------------------------------------------------------------------
(* Lists: BoundedVec<u32, ConstU32<100>> *)

Listed(list, id) == \E i \in 1 .. Len(list) : list[i] = id

Position(list, id) ==
    CHOOSE i \in 1 .. Len(list) :
        list[i] = id /\ \A j \in 1 .. i - 1 : list[j] # id

(* With a bug: the last element goes, whichever was meant.                  *)
PopLast(list, i) == SubSeq(list, 1, Len(list) - 1)

(* Vec::swap_remove: the last element takes the place of the removed one. *)
SwapRemove(list, i) ==
    [j \in 1 .. Len(list) - 1 |-> IF j = i THEN list[Len(list)] ELSE list[j]]

Unlisted(list, id) == SwapRemove(list, Position(list, id))

-----------------------------------------------------------------------------
(* Outcomes *)

Ok(st)           == [err |-> "none", st |-> st, sent |-> <<>>]
Fail(error, st)  == [err |-> error,  st |-> st, sent |-> <<>>]
Sending(msg, st) == [err |-> "none", st |-> st, sent |-> <<msg>>]

(* With a bug: no storage layer, the writes before a late error stay.       *)
CommittedAnyway(st, outcome) == outcome.st

(* FRAME's storage layer: an Err undoes every write of the call.           *)
Committed(st, outcome) == IF outcome.err = "none" THEN outcome.st ELSE st

(* The same layer undoes the message, which the router keeps in storage.   *)
Sent(outcome) == IF outcome.err = "none" THEN outcome.sent ELSE <<>>

-----------------------------------------------------------------------------
(* Storage updates shared by the calls *)

WithStudent(st, id, student) ==
    [st EXCEPT !.Students[id] = student]

WithList(st, owner, list) ==
    [st EXCEPT !.StudentsByOwner[owner] = list]

(* The u32 addition wraps in the release profile the runtime is built with. *)
NextId(st) == (st.StudentCount + 1) % IdSpace

(* With a bug: the limit admits one student too many.                       *)
EnrolOneMore(st, owner, student) ==
    LET id     == st.StudentCount
        stored == WithStudent([st EXCEPT !.StudentCount = NextId(st)], id, student)
        list   == st.StudentsByOwner[owner]
    IN  IF Len(list) > MaxStudentsPerOwner
        THEN Fail("MaxStudentsReached", stored)
        ELSE Ok(WithList(stored, owner, Append(list, id)))

(* With a bug: the student gets the counter's new value for an id.          *)
EnrolAtNext(st, owner, student) ==
    LET id     == NextId(st)
        stored == WithStudent([st EXCEPT !.StudentCount = id], id, student)
        list   == st.StudentsByOwner[owner]
    IN  IF Len(list) >= MaxStudentsPerOwner
        THEN Fail("MaxStudentsReached", stored)
        ELSE Ok(WithList(stored, owner, Append(list, id)))

(* get, put(+1), insert, try_push: the body create and receive share.  The  *)
(* count and the record are already written when the push fails.            *)
Enrol(st, owner, student) ==
    LET id     == st.StudentCount
        stored == WithStudent([st EXCEPT !.StudentCount = NextId(st)], id, student)
        list   == st.StudentsByOwner[owner]
    IN  IF Len(list) >= MaxStudentsPerOwner
        THEN Fail("MaxStudentsReached", stored)
        ELSE Ok(WithList(stored, owner, Append(list, id)))

(* With a bug: the counter counts the students that are left.               *)
ErasedAndCounted(st, owner, id) ==
    LET list == Unlisted(st.StudentsByOwner[owner], id)
    IN  WithStudent(WithList([st EXCEPT !.StudentCount = @ - 1], owner, list), id, NoStudent)

Erased(st, owner, id) ==
    WithStudent(WithList(st, owner, Unlisted(st.StudentsByOwner[owner], id)), id, NoStudent)

-----------------------------------------------------------------------------
(* The calls *)

create_student(st, origin, profile, tag) ==
    IF origin \notin Accounts THEN Fail("BadOrigin", st)
    ELSE IF profile \in LongNames THEN Fail("NameTooLong", st)
    ELSE IF profile \in LongSurnames THEN Fail("SurnameTooLong", st)
    ELSE Enrol(st, origin, [tag |-> tag, profile |-> profile, has_graduated |-> FALSE])

(* With a bug: the student leaves the owner's list and stays in the map.    *)
graduate_student_unlists(st, origin, id, delivered) ==
    IF origin \notin Accounts THEN Fail("BadOrigin", st)
    ELSE IF ~Listed(st.StudentsByOwner[origin], id) THEN Fail("NotStudentOwner", st)
    ELSE IF st.Students[id] = NoStudent THEN Fail("StudentNotFound", st)
    ELSE IF st.Students[id].has_graduated THEN Fail("AlreadyGraduated", st)
    ELSE IF ~delivered THEN Fail("XcmSendFailed", st)
    ELSE Sending([student   |-> [st.Students[id] EXCEPT !.has_graduated = TRUE],
                  new_owner |-> origin],
                 WithList(st, origin, Unlisted(st.StudentsByOwner[origin], id)))

(* delivered: whether send_xcm, an external call, returns Ok. *)
graduate_student(st, origin, id, delivered) ==
    IF origin \notin Accounts THEN Fail("BadOrigin", st)
    ELSE IF ~Listed(st.StudentsByOwner[origin], id) THEN Fail("NotStudentOwner", st)
    ELSE IF st.Students[id] = NoStudent THEN Fail("StudentNotFound", st)
    ELSE IF st.Students[id].has_graduated THEN Fail("AlreadyGraduated", st)
    ELSE IF ~delivered THEN Fail("XcmSendFailed", st)
    ELSE Sending([student   |-> [st.Students[id] EXCEPT !.has_graduated = TRUE],
                  new_owner |-> origin],
                 Erased(st, origin, id))

delete_student(st, origin, id) ==
    IF origin \notin Accounts THEN Fail("BadOrigin", st)
    ELSE IF st.Students[id] = NoStudent THEN Fail("StudentNotFound", st)
    ELSE IF ~Listed(st.StudentsByOwner[origin], id) THEN Fail("NotStudentOwner", st)
    ELSE Ok(Erased(st, origin, id))

(* With a bug: the student goes to the caller, the sovereign account.       *)
receive_student_own(st, origin, student, new_owner) ==
    IF origin \notin Accounts \cup {Root} THEN Fail("BadOrigin", st)
    ELSE Enrol(st, IF origin = Root THEN new_owner ELSE origin, student)

receive_student(st, origin, student, new_owner) ==
    IF origin \notin Accounts \cup {Root} THEN Fail("BadOrigin", st)
    ELSE Enrol(st, new_owner, student)

(* With a bug: whose student it is is not asked.                            *)
update_student_any(st, origin, id, profile) ==
    IF origin \notin Accounts THEN Fail("BadOrigin", st)
    ELSE IF st.Students[id] = NoStudent THEN Fail("StudentNotFound", st)
    ELSE IF profile \in LongNames THEN Fail("NameTooLong", st)
    ELSE IF profile \in LongSurnames THEN Fail("SurnameTooLong", st)
    ELSE Ok(WithStudent(st, id, [st.Students[id] EXCEPT !.profile = profile]))

(* With a bug: the record is built anew, as create_student builds it.       *)
update_student_anew(st, origin, id, profile) ==
    IF origin \notin Accounts THEN Fail("BadOrigin", st)
    ELSE IF ~Listed(st.StudentsByOwner[origin], id) THEN Fail("NotStudentOwner", st)
    ELSE IF st.Students[id] = NoStudent THEN Fail("StudentNotFound", st)
    ELSE IF profile \in LongNames THEN Fail("NameTooLong", st)
    ELSE IF profile \in LongSurnames THEN Fail("SurnameTooLong", st)
    ELSE Ok(WithStudent(st, id, [tag |-> st.Students[id].tag, profile |-> profile,
                                 has_graduated |-> FALSE]))

update_student(st, origin, id, profile) ==
    IF origin \notin Accounts THEN Fail("BadOrigin", st)
    ELSE IF ~Listed(st.StudentsByOwner[origin], id) THEN Fail("NotStudentOwner", st)
    ELSE IF st.Students[id] = NoStudent THEN Fail("StudentNotFound", st)
    ELSE IF profile \in LongNames THEN Fail("NameTooLong", st)
    ELSE IF profile \in LongSurnames THEN Fail("SurnameTooLong", st)
    ELSE Ok(WithStudent(st, id, [st.Students[id] EXCEPT !.profile = profile]))

(* first: the owner the iteration over StudentsByOwner meets first among    *)
(* those whose list holds the id; the map is iterated in hash order.        *)
Holders(st, id) == {a \in Accounts : Listed(st.StudentsByOwner[a], id)}

delete_any_student(st, origin, id, first) ==
    IF origin \notin Accounts \cup {Root} THEN Fail("BadOrigin", st)
    ELSE IF st.Students[id] = NoStudent THEN Fail("StudentNotFound", st)
    ELSE IF first \in Holders(st, id) THEN Ok(Erased(st, first, id))
    ELSE Ok(WithStudent(st, id, NoStudent))

-----------------------------------------------------------------------------
(* What the calls keep true of a chain's storage *)

(* No list of StudentsByOwner holds an id twice.                            *)
NoRepeats(st) ==
    \A a \in Accounts : LET list == st.StudentsByOwner[a] IN
        \A i, j \in 1 .. Len(list) : list[i] = list[j] => i = j

(* No id is in the lists of two owners.                                     *)
OneOwner(st) ==
    \A id \in Ids : \A a, b \in Holders(st, id) : a = b

(* An id is in some owner's list exactly when its record is stored.         *)
ListedIffStored(st) ==
    \A id \in Ids : Holders(st, id) # {} <=> st.Students[id] # NoStudent

(* Every stored student has an id below the counter.                        *)
BelowCount(st) ==
    \A id \in Ids : st.Students[id] # NoStudent => id < st.StudentCount

(* The two maps describe one ownership relation: every stored student is in *)
(* one owner's list, once, and the lists hold nothing else.                 *)
Exact(st) == NoRepeats(st) /\ OneOwner(st) /\ ListedIffStored(st)
=============================================================================
