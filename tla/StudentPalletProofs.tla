------------------------ MODULE StudentPalletProofs -------------------------
(***************************************************************************)
(* Theorems about the pallet on one chain.  Type correctness needs nothing *)
(* of the constants but their assumptions.  The others hold as long as the *)
(* u32 counter does not wrap: MaxEnrolments < IdSpace (2^32 in the code).  *)
(***************************************************************************)
EXTENDS StudentPallet, StudentCallsProofs

(* How a call that returns Ok changes a storage.                            *)
Enrolling(s, t) ==
    \E a \in Accounts, x \in Students :
        /\ x.tag = enrolled + 1
        /\ Enrol(s, a, x).err = "none"
        /\ t = Enrol(s, a, x).st

Erasing(s, t) ==
    \E a \in Accounts, id \in Ids :
        Listed(s.StudentsByOwner[a], id) /\ t = Erased(s, a, id)

Amending(s, t) ==
    \E id \in Ids, x \in Students :
        /\ s.Students[id] \in Students
        /\ x = [s.Students[id] EXCEPT !.profile = x.profile]
        /\ t = WithStudent(s, id, x)

(* delete_any_student finds no list with the id: only the record goes.      *)
Dropping(s, t) ==
    \E id \in Ids :
        /\ Holders(s, id) = {}
        /\ s.Students[id] # NoStudent
        /\ t = WithStudent(s, id, NoStudent)

(* Every step commits one of these changes, or none.                        *)
LEMMA Steps ==
    ASSUME TypeOK, Next
    PROVE  \/ Enrolling(st, st') /\ enrolled < MaxEnrolments /\ enrolled' = enrolled + 1
           \/ Erasing(st, st') /\ enrolled' = enrolled
           \/ Amending(st, st') /\ enrolled' = enrolled
           \/ Dropping(st, st') /\ enrolled' = enrolled
           \/ st' = st /\ enrolled' = enrolled
<1> USE DEF TypeOK
<1>1. ASSUME NEW origin \in Origins, NEW profile \in Profiles, Create(origin, profile)
      PROVE  \/ Enrolling(st, st') /\ enrolled < MaxEnrolments /\ enrolled' = enrolled + 1
             \/ st' = st /\ enrolled' = enrolled
  <2> DEFINE x == [tag |-> enrolled + 1, profile |-> profile, has_graduated |-> FALSE]
             o == create_student(st, origin, profile, enrolled + 1)
  <2>1. enrolled < MaxEnrolments /\ enrolled + 1 \in Tags
    BY <1>1, TagsAssumption DEF Create
  <2>2. CASE o.err = "none"
    <3>1. origin \in Accounts /\ x \in Students /\ o = Enrol(st, origin, x)
      BY <2>1, <2>2, CreateOutcome
    <3>2. st' = o.st /\ enrolled' = enrolled + 1
      BY <1>1, <2>2 DEF Create, Ends, Committed
    <3> QED
      BY <2>1, <2>2, <3>1, <3>2 DEF Enrolling
  <2>3. CASE o.err # "none"
    BY <1>1, <2>3 DEF Create, Ends, Committed
  <2> QED
    BY <2>2, <2>3
<1>2. ASSUME NEW origin \in Origins, NEW profile \in ValidProfiles,
             NEW graduated \in BOOLEAN, NEW owner \in Accounts,
             Receive(origin, profile, graduated, owner)
      PROVE  \/ Enrolling(st, st') /\ enrolled < MaxEnrolments /\ enrolled' = enrolled + 1
             \/ st' = st /\ enrolled' = enrolled
  <2> DEFINE x == [tag |-> enrolled + 1, profile |-> profile, has_graduated |-> graduated]
             o == receive_student(st, origin, x, owner)
  <2>1. enrolled < MaxEnrolments /\ x \in Students
    BY <1>2, TagsAssumption DEF Receive, Students
  <2>2. CASE o.err = "none"
    <3>1. o = Enrol(st, owner, x)
      BY <2>1, <2>2, ReceiveOutcome
    <3>2. st' = o.st /\ enrolled' = enrolled + 1
      BY <1>2, <2>2 DEF Receive, Ends, Committed
    <3> QED
      BY <2>1, <2>2, <3>1, <3>2 DEF Enrolling
  <2>3. CASE o.err # "none"
    BY <1>2, <2>3 DEF Receive, Ends, Committed
  <2> QED
    BY <2>2, <2>3
<1>3. ASSUME NEW origin \in Origins, NEW id \in Ids, NEW delivered \in BOOLEAN,
             Graduate(origin, id, delivered)
      PROVE  (Erasing(st, st') \/ st' = st) /\ enrolled' = enrolled
  <2> DEFINE o == graduate_student(st, origin, id, delivered)
  <2>1. enrolled' = enrolled /\ st' = Committed(st, o)
    BY <1>3 DEF Graduate, Ends
  <2>2. CASE o.err = "none"
    BY <2>1, <2>2, GraduateOutcome DEF Erasing, Committed
  <2> QED
    BY <2>1, <2>2 DEF Committed
<1>4. ASSUME NEW origin \in Origins, NEW id \in Ids, Delete(origin, id)
      PROVE  (Erasing(st, st') \/ st' = st) /\ enrolled' = enrolled
  <2> DEFINE o == delete_student(st, origin, id)
  <2>1. enrolled' = enrolled /\ st' = Committed(st, o)
    BY <1>4 DEF Delete, Ends
  <2>2. CASE o.err = "none"
    BY <2>1, <2>2, DeleteOutcome DEF Erasing, Committed
  <2> QED
    BY <2>1, <2>2 DEF Committed
<1>5. ASSUME NEW origin \in Origins, NEW id \in Ids, NEW profile \in Profiles,
             Update(origin, id, profile)
      PROVE  (Amending(st, st') \/ st' = st) /\ enrolled' = enrolled
  <2> DEFINE o == update_student(st, origin, id, profile)
             x == [st.Students[id] EXCEPT !.profile = profile]
  <2>1. enrolled' = enrolled /\ st' = Committed(st, o)
    BY <1>5 DEF Update, Ends
  <2>2. CASE o.err = "none"
    <3>1. st.Students[id] \in Students /\ x \in Students /\ o.st = WithStudent(st, id, x)
      BY <2>2, UpdateOutcome
    <3>2. x.profile = profile
      BY <3>1 DEF Students
    <3> QED
      BY <2>1, <2>2, <3>1, <3>2 DEF Amending, Committed
  <2> QED
    BY <2>1, <2>2 DEF Committed
<1>6. ASSUME NEW origin \in Origins, NEW id \in Ids, NEW first \in MetFirst(id),
             DeleteAny(origin, id, first)
      PROVE  (Erasing(st, st') \/ Dropping(st, st') \/ st' = st) /\ enrolled' = enrolled
  <2> DEFINE o == delete_any_student(st, origin, id, first)
  <2>1. enrolled' = enrolled /\ st' = Committed(st, o)
    BY <1>6 DEF DeleteAny, Ends
  <2>2. first \in Accounts
    BY DEF MetFirst, Holders
  <2>3. Listed(st.StudentsByOwner[first], id) \/ Holders(st, id) = {}
    BY DEF MetFirst, Holders
  <2>4. CASE o.err = "none"
    BY <2>1, <2>2, <2>3, <2>4, DeleteAnyOutcome DEF Erasing, Dropping, Committed
  <2> QED
    BY <2>1, <2>4 DEF Committed
<1> QED
  BY <1>1, <1>2, <1>3, <1>4, <1>5, <1>6 DEF Next, OwnerCall, AdminCall

-----------------------------------------------------------------------------
(* Type correctness *)

(* Whatever a step does to the storage leaves its items well typed.         *)
LEMMA StorageTypeStep ==
    ASSUME TypeOK, Next
    PROVE  st' \in Storage
<1>1. st \in Storage
  BY DEF TypeOK
<1>2. CASE Enrolling(st, st')
  <2>1. PICK a \in Accounts, x \in Students :
           Enrol(st, a, x).err = "none" /\ st' = Enrol(st, a, x).st
    BY <1>2 DEF Enrolling
  <2>2. Enrol(st, a, x).st \in Storage
    BY <1>1, <2>1, EnrolType
  <2> QED
    BY <2>1, <2>2
<1>3. CASE Erasing(st, st')
  <2>1. PICK a \in Accounts, id \in Ids :
           Listed(st.StudentsByOwner[a], id) /\ st' = Erased(st, a, id)
    BY <1>3 DEF Erasing
  <2>2. Erased(st, a, id) \in Storage
    BY <1>1, <2>1, ErasedType
  <2> QED
    BY <2>1, <2>2
<1>4. CASE Amending(st, st')
  <2>1. PICK id \in Ids, x \in Students : st' = WithStudent(st, id, x)
    BY <1>4 DEF Amending
  <2>2. WithStudent(st, id, x) \in Storage
    BY <1>1, WithStudentType
  <2> QED
    BY <2>1, <2>2
<1>5. CASE Dropping(st, st')
  <2>1. PICK id \in Ids : st' = WithStudent(st, id, NoStudent)
    BY <1>5 DEF Dropping
  <2>2. WithStudent(st, id, NoStudent) \in Storage
    BY <1>1, WithStudentType
  <2> QED
    BY <2>1, <2>2
<1> QED
  BY <1>1, <1>2, <1>3, <1>4, <1>5, Steps

(* Every step records the tags now in storage under their ids.              *)
LEMMA DesignatedStep ==
    ASSUME Next
    PROVE  designated' = [id \in Ids |->
               IF st'.Students[id] = NoStudent THEN designated[id]
               ELSE designated[id] \cup {st'.Students[id].tag}]
  BY DEF Next, OwnerCall, AdminCall, Create, Receive, Graduate, Delete, Update, DeleteAny, Ends

LEMMA TypeInit == Init => TypeOK
  BY EmptyStorageType, TagsAssumption DEF Init, TypeOK

LEMMA TypeStep == TypeOK /\ [Next]_vars => TypeOK'
<1> SUFFICES ASSUME TypeOK, Next PROVE TypeOK'
  BY DEF vars, TypeOK
<1>1. st' \in Storage
  BY StorageTypeStep
<1>2. enrolled' \in 0 .. MaxEnrolments
  BY Steps, TagsAssumption DEF TypeOK
<1>3. \A id \in Ids : st'.Students[id] # NoStudent => st'.Students[id].tag \in Tags
  BY <1>1, StorageParts DEF Students
<1>4. designated' \in [Ids -> SUBSET Tags]
  BY <1>3, DesignatedStep DEF TypeOK
<1> QED
  BY <1>1, <1>2, <1>4 DEF TypeOK

(* The storage items keep their declared types, the limit of the owner      *)
(* lists included, in every behaviour, with or without wraps of the counter *)
(* (lib.rs:91-106).                                                         *)
THEOREM TypeCorrect == Spec => []TypeOK
<1>1. Init => TypeOK
  BY TypeInit
<1>2. TypeOK /\ [Next]_vars => TypeOK'
  BY TypeStep
<1> QED
  BY <1>1, <1>2, PTL DEF Spec

-----------------------------------------------------------------------------
(* The ownership relation *)

NoWrap == MaxEnrolments < IdSpace

LEMMA InvInit == Init => Inv
<1> SUFFICES ASSUME Init PROVE Inv
  OBVIOUS
<1>1. TypeOK
  BY TypeInit
<1>2. OwnershipExact /\ EnumerationComplete
  BY EmptyStorageExact DEF Init, OwnershipExact, EnumerationComplete
<1>3. IdsFollowCount
  BY DEF Init, IdsFollowCount, EmptyStorage
<1> QED
  BY <1>1, <1>2, <1>3 DEF Inv

(* The counter does not wrap in a step that enrols.                         *)
LEMMA CountAdvances ==
    ASSUME NoWrap, TypeOK, IdsFollowCount, enrolled < MaxEnrolments
    PROVE  NextId(st) = st.StudentCount + 1
<1>1. st.StudentCount \in Nat /\ st.StudentCount + 1 < IdSpace
  BY BoundsAssumption, TagsAssumption DEF NoWrap, IdsFollowCount, TypeOK
<1> QED
  BY <1>1, BoundsAssumption DEF NextId

LEMMA OwnershipStep ==
    ASSUME NoWrap, Inv, Next
    PROVE  OwnershipExact' /\ EnumerationComplete'
<1> SUFFICES Exact(st') /\ BelowCount(st')
  BY DEF OwnershipExact, EnumerationComplete
<1>1. st \in Storage /\ Exact(st) /\ BelowCount(st)
  BY DEF Inv, TypeOK, OwnershipExact, EnumerationComplete
<1>2. CASE Enrolling(st, st') /\ enrolled < MaxEnrolments
  <2>1. NextId(st) = st.StudentCount + 1
    BY <1>2, CountAdvances DEF Inv
  <2> QED
    BY <1>1, <1>2, <2>1, EnrolExact DEF Enrolling
<1>3. CASE Erasing(st, st')
  BY <1>1, <1>3, ErasedExact DEF Erasing
<1>4. CASE Amending(st, st')
  <2>1. PICK id \in Ids, x \in Students :
           st.Students[id] \in Students /\ st' = WithStudent(st, id, x)
    BY <1>4 DEF Amending
  <2>2. st.Students[id] # NoStudent
    BY <2>1, NoStudentAssumption
  <2> QED
    BY <1>1, <2>1, <2>2, AmendedExact
<1>5. CASE Dropping(st, st')
  BY <1>1, <1>5 DEF Dropping, Exact, ListedIffStored
<1>6. CASE st' = st
  BY <1>1, <1>6
<1> QED
  BY <1>2, <1>3, <1>4, <1>5, <1>6, Steps DEF Inv

(* The effect of a step on the counter and on who is stored under an id.    *)
LEMMA CountStep ==
    ASSUME NoWrap, Inv, Next
    PROVE  /\ st'.StudentCount = enrolled'
           /\ \A id \in Ids : st'.Students[id] # NoStudent => st'.Students[id].tag = id + 1
<1>1. /\ st \in Storage
      /\ st.StudentCount = enrolled
      /\ \A id \in Ids : st.Students[id] # NoStudent => st.Students[id].tag = id + 1
  BY DEF Inv, TypeOK, IdsFollowCount
<1>2. CASE Enrolling(st, st') /\ enrolled < MaxEnrolments /\ enrolled' = enrolled + 1
  <2>1. PICK a \in Accounts, x \in Students :
           /\ x.tag = enrolled + 1
           /\ Enrol(st, a, x).err = "none"
           /\ st' = Enrol(st, a, x).st
    BY <1>2 DEF Enrolling
  <2>2. Enrol(st, a, x).st.StudentCount = NextId(st)
    BY <1>1, <2>1, EnrolType
  <2>3. \A y \in Ids : Enrol(st, a, x).st.Students[y] =
                        IF y = st.StudentCount THEN x ELSE st.Students[y]
    BY <1>1, <2>1, EnrolType
  <2>4. NextId(st) = enrolled + 1
    BY <1>1, <1>2, CountAdvances DEF Inv
  <2> QED
    BY <1>1, <1>2, <2>1, <2>2, <2>3, <2>4
<1>3. CASE Erasing(st, st') /\ enrolled' = enrolled
  <2>1. PICK a \in Accounts, id \in Ids :
           Listed(st.StudentsByOwner[a], id) /\ st' = Erased(st, a, id)
    BY <1>3 DEF Erasing
  <2>2. /\ st'.StudentCount = st.StudentCount
        /\ \A y \in Ids : st'.Students[y] =
                            IF y = id THEN NoStudent ELSE st.Students[y]
    BY <1>1, <2>1, ErasedType
  <2> QED
    BY <1>1, <1>3, <2>2
<1>4. CASE Amending(st, st') /\ enrolled' = enrolled
  <2>1. PICK id \in Ids, x \in Students :
           /\ st.Students[id] \in Students
           /\ x = [st.Students[id] EXCEPT !.profile = x.profile]
           /\ st' = WithStudent(st, id, x)
    BY <1>4 DEF Amending
  <2>2. /\ st'.StudentCount = st.StudentCount
        /\ \A y \in Ids : st'.Students[y] = IF y = id THEN x ELSE st.Students[y]
    BY <1>1, <2>1, WithStudentType
  <2>3. x.tag = st.Students[id].tag /\ st.Students[id] # NoStudent
    BY <2>1, NoStudentAssumption DEF Students
  <2> QED
    BY <1>1, <1>4, <2>2, <2>3
<1>5. CASE Dropping(st, st') /\ enrolled' = enrolled
  <2>1. PICK id \in Ids : st' = WithStudent(st, id, NoStudent)
    BY <1>5 DEF Dropping
  <2>2. /\ st'.StudentCount = st.StudentCount
        /\ \A y \in Ids : st'.Students[y] =
                            IF y = id THEN NoStudent ELSE st.Students[y]
    BY <1>1, <2>1, WithStudentType
  <2> QED
    BY <1>1, <1>5, <2>2
<1>6. CASE st' = st /\ enrolled' = enrolled
  BY <1>1, <1>6
<1> QED
  BY <1>2, <1>3, <1>4, <1>5, <1>6, Steps DEF Inv

LEMMA InvStep == NoWrap => (Inv /\ [Next]_vars => Inv')
<1> SUFFICES ASSUME NoWrap, Inv, Next PROVE Inv'
  BY DEF Inv, TypeOK, OwnershipExact, EnumerationComplete, IdsFollowCount, vars
<1>1. TypeOK'
  BY TypeStep DEF Inv
<1>2. OwnershipExact' /\ EnumerationComplete'
  BY OwnershipStep
<1>3. st'.StudentCount = enrolled'
  BY CountStep
<1>4. \A id \in Ids : st'.Students[id] # NoStudent => st'.Students[id].tag = id + 1
  BY CountStep
<1>5. \A id \in Ids : designated'[id] \subseteq {id + 1}
  BY <1>4, DesignatedStep DEF Inv, IdsFollowCount
<1> QED
  BY <1>1, <1>2, <1>3, <1>4, <1>5 DEF Inv, IdsFollowCount

(* The inductive invariant, from which the theorems below follow.           *)
THEOREM Invariance == NoWrap => (Spec => []Inv)
<1> SUFFICES ASSUME NoWrap PROVE Spec => []Inv
  OBVIOUS
<1>1. Init => Inv
  BY InvInit
<1>2. Inv /\ [Next]_vars => Inv'
  BY InvStep
<1> QED
  BY <1>1, <1>2, PTL DEF Spec

(* The two maps of the pallet never disagree: each stored student is in one *)
(* owner's list, once, and the lists hold nothing else, whatever calls fail *)
(* half way (lib.rs:95-106).                                                *)
THEOREM OwnershipCorrect == NoWrap => (Spec => []OwnershipExact)
<1>1. Inv => OwnershipExact
  BY DEF Inv
<1> QED
  BY <1>1, Invariance, PTL

(* An id never designates two students over time (lib.rs:167-169).          *)
THEOREM IdsUnique == NoWrap => (Spec => []IdsNeverReused)
<1>1. Inv => IdsNeverReused
  BY DEF Inv, IdsFollowCount, IdsNeverReused
<1> QED
  BY <1>1, Invariance, PTL

(* While the counter does not wrap, it is the number of enrolments so far,  *)
(* and the student enrolled at an id is the only one it ever designates     *)
(* (lib.rs:167-169, 314-316), whatever leaves in between.                   *)
THEOREM CountCorrect == NoWrap => (Spec => []IdsFollowCount)
<1>1. Inv => IdsFollowCount
  BY DEF Inv
<1> QED
  BY <1>1, Invariance, PTL

(* The loop of the frontend over 0 .. studentCount - 1 misses no student    *)
(* (App.jsx:120).                                                           *)
THEOREM EnumerationCorrect == NoWrap => (Spec => []EnumerationComplete)
<1>1. Inv => EnumerationComplete
  BY DEF Inv
<1> QED
  BY <1>1, Invariance, PTL
-----------------------------------------------------------------------------
(* What one account does to the students of another *)

(* The students in the list of a are still there, with their records.       *)
Keeps(s, t, a) ==
    \A id \in Ids : Listed(s.StudentsByOwner[a], id) =>
        Listed(t.StudentsByOwner[a], id) /\ t.Students[id] = s.Students[id]

LEMMA KeptUntouched ==
    ASSUME TypeOK, NEW a \in Accounts, Keeps(st, st', a)
    PROVE  Untouched(a)
<1>1. st.StudentsByOwner[a] \in Seq(Ids)
  BY StorageParts DEF TypeOK
<1>2. \A i \in 1 .. Len(st.StudentsByOwner[a]) :
         /\ st.StudentsByOwner[a][i] \in Ids
         /\ Listed(st.StudentsByOwner[a], st.StudentsByOwner[a][i])
  BY <1>1 DEF Listed
<1> QED
  BY <1>2 DEF Keeps, Untouched

(* The id of an enrolment is above those of all the students stored.        *)
LEMMA EnrolKeeps ==
    ASSUME NEW s \in Storage, Exact(s), BelowCount(s), NEW a \in Accounts,
           NEW owner \in Accounts, NEW x \in Students, Enrol(s, owner, x).err = "none"
    PROVE  Keeps(s, Enrol(s, owner, x).st, a)
<1> DEFINE t == Enrol(s, owner, x).st
<1>1. s.StudentCount \in Ids /\ s.StudentsByOwner[a] \in Seq(Ids)
  BY StorageParts
<1>2. /\ \A y \in Ids : t.Students[y] = IF y = s.StudentCount THEN x ELSE s.Students[y]
      /\ t.StudentsByOwner[a] = IF a = owner
                                THEN Append(s.StudentsByOwner[a], s.StudentCount)
                                ELSE s.StudentsByOwner[a]
  BY EnrolType
<1> HIDE DEF t
<1> SUFFICES ASSUME NEW id \in Ids, Listed(s.StudentsByOwner[a], id)
             PROVE  Listed(t.StudentsByOwner[a], id) /\ t.Students[id] = s.Students[id]
  BY DEF Keeps, t
<1>3. Listed(t.StudentsByOwner[a], id)
  BY <1>1, <1>2, PushedList
<1>4. s.Students[id] # NoStudent
  BY ExactMeans
<1>5. id # s.StudentCount
  BY <1>1, <1>4 DEF BelowCount, Ids
<1> QED
  BY <1>2, <1>3, <1>5

(* The id in the list of one owner is in no list of another.                *)
LEMMA ErasedKeeps ==
    ASSUME NEW s \in Storage, Exact(s), NEW a \in Accounts, NEW b \in Accounts, a # b,
           NEW id \in Ids, Listed(s.StudentsByOwner[b], id)
    PROVE  Keeps(s, Erased(s, b, id), a)
<1>1. ~Listed(s.StudentsByOwner[a], id)
  BY ExactMeans
<1> QED
  BY <1>1, ErasedType DEF Keeps

LEMMA AmendedKeeps ==
    ASSUME NEW s \in Storage, Exact(s), NEW a \in Accounts, NEW b \in Accounts, a # b,
           NEW id \in Ids, Listed(s.StudentsByOwner[b], id), NEW x \in Students
    PROVE  Keeps(s, WithStudent(s, id, x), a)
<1>1. ~Listed(s.StudentsByOwner[a], id)
  BY ExactMeans
<1> QED
  BY <1>1, WithStudentType DEF Keeps

(* A call that fails leaves the storage alone; the others succeed for their *)
(* owners only.                                                             *)
LEMMA OthersKeep ==
    ASSUME Inv, NEW a \in Accounts, NEW b \in Origins \ {a}, OwnerCall(b)
    PROVE  Keeps(st, st', a)
<1>1. TypeOK /\ st \in Storage /\ Exact(st) /\ BelowCount(st)
  BY DEF Inv, TypeOK, OwnershipExact, EnumerationComplete
<1>2. st' = st => Keeps(st, st', a)
  BY DEF Keeps
<1>3. ASSUME NEW profile \in Profiles, Create(b, profile)
      PROVE  Keeps(st, st', a)
  <2> DEFINE x == [tag |-> enrolled + 1, profile |-> profile, has_graduated |-> FALSE]
             o == create_student(st, b, profile, enrolled + 1)
  <2>1. st' = Committed(st, o) /\ enrolled + 1 \in Tags
    BY <1>1, <1>3, TagsAssumption DEF Create, Ends, TypeOK
  <2>2. CASE o.err = "none"
    <3>1. b \in Accounts /\ x \in Students /\ o = Enrol(st, b, x)
      BY <1>1, <2>1, <2>2, CreateOutcome
    <3>2. st' = Enrol(st, b, x).st /\ Enrol(st, b, x).err = "none"
      BY <2>1, <2>2, <3>1 DEF Committed
    <3> QED
      BY <1>1, <3>1, <3>2, EnrolKeeps
  <2> QED
    BY <1>2, <2>1, <2>2 DEF Committed
<1>4. ASSUME NEW profile \in ValidProfiles, NEW graduated \in BOOLEAN,
             NEW owner \in Accounts, Receive(b, profile, graduated, owner)
      PROVE  Keeps(st, st', a)
  <2> DEFINE x == [tag |-> enrolled + 1, profile |-> profile, has_graduated |-> graduated]
             o == receive_student(st, b, x, owner)
  <2>1. st' = Committed(st, o) /\ x \in Students
    BY <1>1, <1>4, TagsAssumption DEF Receive, Ends, TypeOK, Students
  <2>2. CASE o.err = "none"
    <3>1. o = Enrol(st, owner, x)
      BY <1>1, <2>1, <2>2, ReceiveOutcome
    <3>2. st' = Enrol(st, owner, x).st /\ Enrol(st, owner, x).err = "none"
      BY <2>1, <2>2, <3>1 DEF Committed
    <3> QED
      BY <1>1, <2>1, <3>2, EnrolKeeps
  <2> QED
    BY <1>2, <2>1, <2>2 DEF Committed
<1>5. ASSUME NEW id \in Ids, NEW delivered \in BOOLEAN, Graduate(b, id, delivered)
      PROVE  Keeps(st, st', a)
  <2> DEFINE o == graduate_student(st, b, id, delivered)
  <2>1. st' = Committed(st, o)
    BY <1>5 DEF Graduate, Ends
  <2>2. CASE o.err = "none"
    <3>1. /\ b \in Accounts /\ Listed(st.StudentsByOwner[b], id)
          /\ st' = Erased(st, b, id)
      BY <1>1, <2>1, <2>2, GraduateOutcome DEF Committed
    <3> QED
      BY <1>1, <3>1, ErasedKeeps
  <2> QED
    BY <1>2, <2>1, <2>2 DEF Committed
<1>6. ASSUME NEW id \in Ids, Delete(b, id)
      PROVE  Keeps(st, st', a)
  <2> DEFINE o == delete_student(st, b, id)
  <2>1. st' = Committed(st, o)
    BY <1>6 DEF Delete, Ends
  <2>2. CASE o.err = "none"
    <3>1. /\ b \in Accounts /\ Listed(st.StudentsByOwner[b], id)
          /\ st' = Erased(st, b, id)
      BY <1>1, <2>1, <2>2, DeleteOutcome DEF Committed
    <3> QED
      BY <1>1, <3>1, ErasedKeeps
  <2> QED
    BY <1>2, <2>1, <2>2 DEF Committed
<1>7. ASSUME NEW id \in Ids, NEW profile \in Profiles, Update(b, id, profile)
      PROVE  Keeps(st, st', a)
  <2> DEFINE o == update_student(st, b, id, profile)
             x == [st.Students[id] EXCEPT !.profile = profile]
  <2>1. st' = Committed(st, o)
    BY <1>7 DEF Update, Ends
  <2>2. CASE o.err = "none"
    <3>1. /\ b \in Accounts /\ Listed(st.StudentsByOwner[b], id) /\ x \in Students
          /\ st' = WithStudent(st, id, x)
      BY <1>1, <2>1, <2>2, UpdateOutcome DEF Committed
    <3> QED
      BY <1>1, <3>1, AmendedKeeps
  <2> QED
    BY <1>2, <2>1, <2>2 DEF Committed
<1> QED
  BY <1>3, <1>4, <1>5, <1>6, <1>7 DEF OwnerCall

(* While the counter does not wrap, no call of another account changes or   *)
(* takes away a student in an owner's list, delete_any_student apart        *)
(* (lib.rs:144-371): the checks of the calls and the uniqueness of the ids  *)
(* that they rest on.                                                       *)
THEOREM OwnersOnly == NoWrap => (Spec => OnlyOwnersChange)
<1> SUFFICES ASSUME NoWrap PROVE Spec => OnlyOwnersChange
  OBVIOUS
<1>1. Inv /\ [Next]_vars => [OthersLeaveAlone]_vars
  <2> SUFFICES ASSUME Inv, NEW a \in Accounts, NEW b \in Origins \ {a}, OwnerCall(b)
               PROVE  Untouched(a)
    BY DEF OthersLeaveAlone
  <2>1. Keeps(st, st', a)
    BY OthersKeep
  <2> QED
    BY <2>1, KeptUntouched DEF Inv
<1> QED
  BY <1>1, Invariance, PTL DEF Spec, OnlyOwnersChange
-----------------------------------------------------------------------------
(* The pallet implements the registry: one table with an owner per student  *)

(* The value the refinement mapping gives the registry in a storage.        *)
Table(s) ==
    [id \in Ids |->
        IF s.Students[id] = NoStudent THEN NoStudent
        ELSE [owner   |-> CHOOSE a \in Accounts : a \in Holders(s, id),
              student |-> s.Students[id]]]

LEMMA TableEntry ==
    ASSUME NEW s \in Storage, Exact(s), NEW id \in Ids
    PROVE  /\ Table(s)[id] # NoStudent <=> s.Students[id] # NoStudent
           /\ s.Students[id] # NoStudent =>
                 \E a \in Accounts : Listed(s.StudentsByOwner[a], id)
           /\ \A a \in Accounts : Listed(s.StudentsByOwner[a], id) =>
                 Table(s)[id] = [owner |-> a, student |-> s.Students[id]]
<1>1. CASE s.Students[id] = NoStudent
  <2>1. Table(s)[id] = NoStudent
    BY <1>1 DEF Table
  <2> QED
    BY <1>1, <2>1, ExactMeans
<1>2. CASE s.Students[id] # NoStudent
  <2>1. PICK a \in Accounts : Listed(s.StudentsByOwner[a], id)
    BY <1>2, ExactMeans
  <2>2. Holders(s, id) = {a}
    BY <2>1, ExactMeans DEF Holders
  <2>3. (CHOOSE b \in Accounts : b \in Holders(s, id)) = a
    BY <2>2
  <2>4. Table(s)[id] = [owner |-> a, student |-> s.Students[id]]
    BY <1>2, <2>3 DEF Table
  <2>5. s.Students[id] \in Students
    BY <1>2, StorageParts
  <2>6. Table(s)[id] # NoStudent
    BY <2>4, <2>5, NoEntryAssumption
  <2>7. \A b \in Accounts : Listed(s.StudentsByOwner[b], id) => b = a
    BY <2>2 DEF Holders
  <2> QED
    BY <1>2, <2>1, <2>4, <2>6, <2>7
<1> QED
  BY <1>1, <1>2

(* The list of an account numbers the students it owns in the table.        *)
LEMMA OwnedCount ==
    ASSUME NEW s \in Storage, Exact(s), NEW a \in Accounts
    PROVE  Cardinality({id \in Ids : Table(s)[id] # NoStudent /\ Table(s)[id].owner = a})
              = Len(s.StudentsByOwner[a])
<1> DEFINE Owned == {id \in Ids : Table(s)[id] # NoStudent /\ Table(s)[id].owner = a}
           list  == s.StudentsByOwner[a]
           n     == Len(list)
<1>1. list \in Seq(Ids) /\ n \in Nat
  BY StorageParts
<1>2. \A id \in Ids : id \in Owned <=> Listed(list, id)
  <2> SUFFICES ASSUME NEW id \in Ids
               PROVE  id \in Owned <=> Listed(list, id)
    OBVIOUS
  <2>1. CASE s.Students[id] = NoStudent
    <3>1. ~Listed(list, id) /\ Table(s)[id] = NoStudent
      BY <2>1, TableEntry, ExactMeans
    <3> QED
      BY <3>1
  <2>2. CASE s.Students[id] # NoStudent
    <3>1. PICK b \in Accounts : Listed(s.StudentsByOwner[b], id)
      BY <2>2, TableEntry
    <3>2. /\ Table(s)[id] # NoStudent
          /\ Table(s)[id] = [owner |-> b, student |-> s.Students[id]]
      BY <2>2, <3>1, TableEntry
    <3>3. Listed(list, id) <=> a = b
      BY <3>1, ExactMeans
    <3> QED
      BY <3>2, <3>3
  <2> QED
    BY <2>1, <2>2
<1>3. \A i \in 1 .. n : list[i] \in Ids /\ Listed(list, list[i])
  BY <1>1 DEF Listed
<1>4. list \in [1 .. n -> Owned]
  <2> HIDE DEF Owned
  <2>1. list = [i \in 1 .. n |-> list[i]]
    BY <1>1
  <2> QED
    BY <1>2, <1>3, <2>1
<1>5. \A i, j \in 1 .. n : list[i] = list[j] => i = j
  BY ExactMeans DEF Distinct
<1>6. \A id \in Owned : \E i \in 1 .. n : list[i] = id
  BY <1>2 DEF Listed
<1> HIDE DEF Owned, list, n
<1>7. Cardinality(Owned) = n
  BY <1>1, <1>4, <1>5, <1>6, NumberedSet
<1> QED
  BY <1>7 DEF Owned, list, n

(* An id whose record and whose holders stay has the same entry.            *)
LEMMA SameEntry ==
    ASSUME NEW s \in Storage, NEW t \in Storage, NEW id \in Ids,
           t.Students[id] = s.Students[id],
           \A a \in Accounts :
              Listed(t.StudentsByOwner[a], id) <=> Listed(s.StudentsByOwner[a], id)
    PROVE  Table(t)[id] = Table(s)[id]
<1>1. Holders(t, id) = Holders(s, id)
  BY DEF Holders
<1> QED
  BY <1>1 DEF Table

LEMMA EnrolEnters ==
    ASSUME NEW s \in Storage, Exact(s), BelowCount(s), NEW a \in Accounts,
           NEW x \in Students, Enrol(s, a, x).err = "none", NextId(s) = s.StudentCount + 1
    PROVE  LET t == Enrol(s, a, x).st IN
           /\ t.StudentCount = s.StudentCount + 1
           /\ Len(s.StudentsByOwner[a]) < MaxStudentsPerOwner
           /\ Table(t) = [Table(s) EXCEPT ![s.StudentCount] = [owner |-> a, student |-> x]]
<1> DEFINE t == Enrol(s, a, x).st
<1>1. /\ t \in Storage
      /\ t.StudentCount = s.StudentCount + 1
      /\ \A y \in Ids : t.Students[y] = IF y = s.StudentCount THEN x ELSE s.Students[y]
      /\ \A b \in Accounts : t.StudentsByOwner[b] =
            IF b = a THEN Append(s.StudentsByOwner[a], s.StudentCount)
            ELSE s.StudentsByOwner[b]
  BY EnrolType
<1>2. Exact(t)
  BY EnrolExact
<1>3. ~(Len(s.StudentsByOwner[a]) >= MaxStudentsPerOwner)
  BY DEF Enrol, Fail
<1>4. Len(s.StudentsByOwner[a]) < MaxStudentsPerOwner
  BY <1>3, StorageParts, BoundsAssumption
<1> HIDE DEF t
<1>5. s.StudentCount \in Ids
  BY StorageParts
<1>6. \A b \in Accounts : s.StudentsByOwner[b] \in Seq(Ids)
  BY StorageParts
<1>7. Listed(t.StudentsByOwner[a], s.StudentCount)
  BY <1>1, <1>5, <1>6, PushedList
<1>8. Table(t)[s.StudentCount] = [owner |-> a, student |-> x]
  BY <1>1, <1>2, <1>5, <1>7, TableEntry
<1>9. \A y \in Ids \ {s.StudentCount} : Table(t)[y] = Table(s)[y]
  <2> SUFFICES ASSUME NEW y \in Ids \ {s.StudentCount}
               PROVE  Table(t)[y] = Table(s)[y]
    OBVIOUS
  <2>1. Listed(Append(s.StudentsByOwner[a], s.StudentCount), y)
           <=> Listed(s.StudentsByOwner[a], y)
    BY <1>5, <1>6, PushedList
  <2>2. \A b \in Accounts :
           Listed(t.StudentsByOwner[b], y) <=> Listed(s.StudentsByOwner[b], y)
    BY <1>1, <2>1
  <2> QED
    BY <1>1, <2>2, SameEntry
<1>10. Table(t) = [Table(s) EXCEPT ![s.StudentCount] = [owner |-> a, student |-> x]]
  <2>1. /\ Table(t) = [y \in Ids |-> Table(t)[y]]
        /\ Table(s) = [y \in Ids |-> Table(s)[y]]
    BY DEF Table
  <2> QED
    BY <1>5, <1>8, <1>9, <2>1
<1> QED
  BY <1>1, <1>4, <1>10 DEF t

LEMMA ErasedLeaves ==
    ASSUME NEW s \in Storage, Exact(s), BelowCount(s), NEW a \in Accounts,
           NEW id \in Ids, Listed(s.StudentsByOwner[a], id)
    PROVE  LET t == Erased(s, a, id) IN
           /\ t.StudentCount = s.StudentCount
           /\ Table(s)[id] # NoStudent
           /\ Table(t) = [Table(s) EXCEPT ![id] = NoStudent]
<1> DEFINE t == Erased(s, a, id)
<1>1. /\ t \in Storage
      /\ t.StudentCount = s.StudentCount
      /\ \A y \in Ids : t.Students[y] = IF y = id THEN NoStudent ELSE s.Students[y]
      /\ \A b \in Accounts : t.StudentsByOwner[b] =
            IF b = a THEN Unlisted(s.StudentsByOwner[a], id) ELSE s.StudentsByOwner[b]
  BY ErasedType
<1> HIDE DEF t
<1>2. Table(s)[id] # NoStudent
  BY TableEntry, ExactMeans
<1>3. Table(t)[id] = NoStudent
  BY <1>1 DEF Table
<1>4. Distinct(s.StudentsByOwner[a]) /\ s.StudentsByOwner[a] \in Seq(Ids)
  BY ExactMeans, StorageParts
<1>5. \A y : Listed(Unlisted(s.StudentsByOwner[a], id), y)
               <=> Listed(s.StudentsByOwner[a], y) /\ y # id
  BY <1>4, UnlistedList
<1>6. \A y \in Ids \ {id} : Table(t)[y] = Table(s)[y]
  <2> SUFFICES ASSUME NEW y \in Ids \ {id}
               PROVE  Table(t)[y] = Table(s)[y]
    OBVIOUS
  <2>1. \A b \in Accounts :
           Listed(t.StudentsByOwner[b], y) <=> Listed(s.StudentsByOwner[b], y)
    BY <1>1, <1>5
  <2> QED
    BY <1>1, <2>1, SameEntry
<1>7. Table(t) = [Table(s) EXCEPT ![id] = NoStudent]
  <2>1. /\ Table(t) = [y \in Ids |-> Table(t)[y]]
        /\ Table(s) = [y \in Ids |-> Table(s)[y]]
    BY DEF Table
  <2> QED
    BY <1>3, <1>6, <2>1
<1> QED
  BY <1>1, <1>2, <1>7 DEF t

LEMMA AmendedAmends ==
    ASSUME NEW s \in Storage, Exact(s), NEW id \in Ids, NEW x \in Students,
           s.Students[id] \in Students, x = [s.Students[id] EXCEPT !.profile = x.profile]
    PROVE  LET t == WithStudent(s, id, x) IN
           /\ t.StudentCount = s.StudentCount
           /\ Table(s)[id] # NoStudent
           /\ x.profile \in ValidProfiles
           /\ Table(t) = [Table(s) EXCEPT ![id] =
                 [owner   |-> Table(s)[id].owner,
                  student |-> [Table(s)[id].student EXCEPT !.profile = x.profile]]]
<1> DEFINE t == WithStudent(s, id, x)
<1>1. /\ t \in Storage
      /\ t.StudentCount = s.StudentCount
      /\ \A y \in Ids : t.Students[y] = IF y = id THEN x ELSE s.Students[y]
      /\ t.StudentsByOwner = s.StudentsByOwner
  BY WithStudentType
<1> HIDE DEF t
<1>2. s.Students[id] # NoStudent /\ x # NoStudent
  BY NoStudentAssumption
<1>3. \A y \in Ids : t.Students[y] = NoStudent <=> s.Students[y] = NoStudent
  BY <1>1, <1>2
<1>4. Holders(t, id) = Holders(s, id)
  BY <1>1 DEF Holders
<1>5. Table(s)[id] # NoStudent
  BY <1>2, TableEntry
<1>6. PICK a \in Accounts : Listed(s.StudentsByOwner[a], id)
  BY <1>2, TableEntry
<1>7. /\ Table(s)[id] = [owner |-> a, student |-> s.Students[id]]
      /\ Table(t)[id] = [owner |-> a, student |-> x]
  <2>1. (CHOOSE b \in Accounts : b \in Holders(s, id)) = a
    BY <1>6, ExactMeans DEF Holders
  <2>2. /\ s.Students[id] # NoStudent /\ t.Students[id] # NoStudent
        /\ t.Students[id] = x
    BY <1>1, <1>2
  <2> QED
    BY <1>4, <2>1, <2>2 DEF Table
<1>8. \A y \in Ids \ {id} : Table(t)[y] = Table(s)[y]
  BY <1>1, SameEntry
<1>9. Table(t) = [Table(s) EXCEPT ![id] = [owner |-> Table(s)[id].owner, student |-> x]]
  <2>1. /\ Table(t) = [y \in Ids |-> Table(t)[y]]
        /\ Table(s) = [y \in Ids |-> Table(s)[y]]
    BY DEF Table
  <2> QED
    BY <1>7, <1>8, <2>1
<1>10. x.profile \in ValidProfiles
  BY DEF Students
<1>11. Table(t) = [Table(s) EXCEPT ![id] =
          [owner   |-> Table(s)[id].owner,
           student |-> [Table(s)[id].student EXCEPT !.profile = x.profile]]]
  <2>1. Table(s)[id].student = s.Students[id]
    BY <1>7
  <2> QED
    BY <1>9, <2>1
<1> QED
  BY <1>1, <1>5, <1>10, <1>11 DEF t

(* The instance has a Cardinality of its own.                               *)
LEMMA SameCardinality == \A S : Registry!Cardinality(S) = Cardinality(S)
  BY DEF Registry!Cardinality, Cardinality

LEMMA RegistryStep ==
    ASSUME NoWrap, Inv, Next
    PROVE  Registry!Next \/ UNCHANGED Registry!registryVars
<1>1. st \in Storage /\ Exact(st) /\ BelowCount(st)
  BY DEF Inv, TypeOK, OwnershipExact, EnumerationComplete
<1>2. st.StudentCount \in Ids
  BY <1>1, StorageParts
<1>3. CASE Enrolling(st, st') /\ enrolled < MaxEnrolments
  <2>1. PICK a \in Accounts, x \in Students :
           Enrol(st, a, x).err = "none" /\ st' = Enrol(st, a, x).st
    BY <1>3 DEF Enrolling
  <2>2. NextId(st) = st.StudentCount + 1
    BY <1>3, CountAdvances DEF Inv
  <2> DEFINE n == st.StudentCount
  <2>3. /\ st'.StudentCount = n + 1
        /\ Len(st.StudentsByOwner[a]) < MaxStudentsPerOwner
        /\ Table(st') = [Table(st) EXCEPT ![n] = [owner |-> a, student |-> x]]
    BY <1>1, <2>1, <2>2, EnrolEnters
  <2>4. n \notin 0 .. n - 1 /\ 0 .. st'.StudentCount - 1 = (0 .. n - 1) \cup {n}
    BY <1>2, <2>3 DEF Ids
  <2>5. Registry!Cardinality(Registry!OwnedBy(a)) < MaxStudentsPerOwner
    BY <1>1, <2>3, OwnedCount, SameCardinality DEF Registry!OwnedBy, Table
  <2>6. Registry!Enter(n, a, x)
    BY <2>3, <2>4, <2>5 DEF Registry!Enter, Table
  <2> QED
    BY <1>2, <2>6 DEF Registry!Next
<1>4. CASE Erasing(st, st')
  <2>1. PICK a \in Accounts, id \in Ids :
           Listed(st.StudentsByOwner[a], id) /\ st' = Erased(st, a, id)
    BY <1>4 DEF Erasing
  <2>2. /\ st'.StudentCount = st.StudentCount
        /\ Table(st)[id] # NoStudent
        /\ Table(st') = [Table(st) EXCEPT ![id] = NoStudent]
    BY <1>1, <2>1, ErasedLeaves
  <2>3. Registry!Leave(id)
    BY <2>2 DEF Registry!Leave, Table
  <2> QED
    BY <2>3 DEF Registry!Next
<1>5. CASE Amending(st, st')
  <2>1. PICK id \in Ids, x \in Students :
           /\ st.Students[id] \in Students
           /\ x = [st.Students[id] EXCEPT !.profile = x.profile]
           /\ st' = WithStudent(st, id, x)
    BY <1>5 DEF Amending
  <2> DEFINE profile == x.profile
  <2>2. /\ st'.StudentCount = st.StudentCount
        /\ Table(st)[id] # NoStudent
        /\ profile \in ValidProfiles
        /\ Table(st') = [Table(st) EXCEPT ![id] =
              [owner   |-> Table(st)[id].owner,
               student |-> [Table(st)[id].student EXCEPT !.profile = profile]]]
    BY <1>1, <2>1, AmendedAmends
  <2> HIDE DEF profile
  <2>3. Registry!Amend(id, profile)
    BY <2>2 DEF Registry!Amend, Table
  <2> QED
    BY <2>2, <2>3 DEF Registry!Next
<1>6. ~Dropping(st, st')
  BY <1>1 DEF Dropping, Exact, ListedIffStored
<1>7. CASE st' = st
  BY <1>7 DEF Registry!registryVars
<1> QED
  BY <1>3, <1>4, <1>5, <1>6, <1>7, Steps DEF Inv

(* The pallet's two maps and its counter implement one table that hands out *)
(* each id once, bounds what an account owns, and in which an update keeps  *)
(* the owner and the person (lib.rs:91-106, 144-415), whatever calls fail   *)
(* and in whatever order they come, as long as the counter does not wrap.   *)
THEOREM ImplementsRegistry == NoWrap => (Spec => RegistrySpec)
<1> SUFFICES ASSUME NoWrap PROVE Spec => RegistrySpec
  OBVIOUS
<1>1. Init => Registry!Init
  BY BoundsAssumption DEF Init, EmptyStorage, Registry!Init
<1>2. Inv /\ [Next]_vars => [Registry!Next]_Registry!registryVars
  <2>1. Inv /\ Next => [Registry!Next]_Registry!registryVars
    BY RegistryStep
  <2>2. UNCHANGED vars => UNCHANGED Registry!registryVars
    BY DEF vars, Registry!registryVars
  <2> QED
    BY <2>1, <2>2
<1> QED
  BY <1>1, <1>2, Invariance, PTL DEF Spec, RegistrySpec, Registry!Spec
=============================================================================
