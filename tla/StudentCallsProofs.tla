------------------------- MODULE StudentCallsProofs -------------------------
(***************************************************************************)
(* What the calls of the pallet do to a storage, proved for every value of *)
(* the constants: the lemmas that the theorems about one chain and about   *)
(* the two chains rest on.                                                 *)
(***************************************************************************)
EXTENDS StudentCalls, WellFoundedInduction, FiniteSetTheorems, TLAPS

-----------------------------------------------------------------------------
(* Lists *)

Distinct(list) == \A i, j \in 1 .. Len(list) : list[i] = list[j] => i = j

(* iter().position finds the id in a list that holds it (lib.rs:250).       *)
LEMMA PositionFinds ==
    ASSUME NEW list \in Seq(Ids), NEW id, Listed(list, id)
    PROVE  /\ Position(list, id) \in 1 .. Len(list)
           /\ list[Position(list, id)] = id
<1> DEFINE Places == {i \in 1 .. Len(list) : list[i] = id}
<1>1. Places \subseteq Nat /\ Places # {}
  BY DEF Listed
<1>2. PICK i \in Places : \A j \in Places : ~(<<j, i>> \in OpToRel(<, Nat))
  BY <1>1, WFMin, NatLessThanWellFounded
<1>3. \A j \in Places : ~(j < i)
  BY <1>1, <1>2 DEF OpToRel
<1>4. i \in 1 .. Len(list) /\ list[i] = id /\ \A j \in 1 .. i - 1 : list[j] # id
  BY <1>3
<1> QED
  BY <1>4 DEF Position

(* try_push puts the id at the end of the list and nothing else in it.      *)
LEMMA PushedList ==
    ASSUME NEW list \in Seq(Ids), NEW id \in Ids
    PROVE  /\ Append(list, id) \in Seq(Ids)
           /\ Len(Append(list, id)) = Len(list) + 1
           /\ \A x : Listed(Append(list, id), x) <=> Listed(list, x) \/ x = id
           /\ Distinct(list) /\ ~Listed(list, id) => Distinct(Append(list, id))
<1> DEFINE n   == Len(list)
           new == Append(list, id)
<1>1. n \in Nat /\ new \in Seq(Ids) /\ Len(new) = n + 1
  OBVIOUS
<1>2. /\ \A i \in 1 .. n : new[i] = list[i]
      /\ new[n + 1] = id
  OBVIOUS
<1> HIDE DEF new
<1>3. ASSUME NEW x
      PROVE  Listed(new, x) <=> Listed(list, x) \/ x = id
  <2>1. ASSUME Listed(list, x)
        PROVE  Listed(new, x)
    BY <1>1, <1>2, <2>1 DEF Listed
  <2>2. Listed(new, id)
    BY <1>1, <1>2 DEF Listed
  <2>3. ASSUME Listed(new, x), x # id
        PROVE  Listed(list, x)
    BY <1>1, <1>2, <2>3 DEF Listed
  <2> QED
    BY <2>1, <2>2, <2>3
<1>4. Distinct(list) /\ ~Listed(list, id) => Distinct(new)
  BY <1>1, <1>2 DEF Listed, Distinct
<1> QED
  BY <1>1, <1>3, <1>4 DEF new

(* swap_remove shortens the list by one, and what is left was in the list.  *)
LEMMA UnlistedType ==
    ASSUME NEW list \in Seq(Ids), NEW id, Listed(list, id)
    PROVE  /\ Unlisted(list, id) \in Seq(Ids)
           /\ Len(Unlisted(list, id)) = Len(list) - 1
<1>1. Position(list, id) \in 1 .. Len(list)
  BY PositionFinds
<1> QED
  BY <1>1 DEF Unlisted, SwapRemove

(* In a list without repeats, swap_remove takes out that id and no other,   *)
(* although it moves the last one.                                          *)
LEMMA UnlistedList ==
    ASSUME NEW list \in Seq(Ids), NEW id, Listed(list, id), Distinct(list)
    PROVE  /\ \A x : Listed(Unlisted(list, id), x) <=> Listed(list, x) /\ x # id
           /\ Distinct(Unlisted(list, id))
<1> DEFINE p   == Position(list, id)
           n   == Len(list)
           new == Unlisted(list, id)
<1>1. p \in 1 .. n /\ list[p] = id /\ n \in Nat
  BY PositionFinds
<1>2. Len(new) = n - 1
  BY UnlistedType
<1>3. \A j \in 1 .. n - 1 : new[j] = IF j = p THEN list[n] ELSE list[j]
  BY <1>1 DEF Unlisted, SwapRemove
<1> HIDE DEF p, n, new
<1>4. Distinct(new)
  BY <1>1, <1>2, <1>3 DEF Distinct, n
<1>5. ASSUME NEW x, Listed(new, x)
      PROVE  Listed(list, x) /\ x # id
  BY <1>1, <1>2, <1>3, <1>5 DEF Distinct, Listed, n
<1>6. ASSUME NEW x, Listed(list, x), x # id
      PROVE  Listed(new, x)
  <2>1. PICK k \in 1 .. n : list[k] = x
    BY <1>6 DEF Listed, n
  <2>2. CASE k = n
    <3>1. p \in 1 .. n - 1 /\ new[p] = x
      BY <1>1, <1>3, <1>6, <2>1, <2>2
    <3> QED
      BY <1>2, <3>1 DEF Listed
  <2>3. CASE k # n
    <3>1. k \in 1 .. n - 1 /\ new[k] = x
      BY <1>1, <1>3, <1>6, <2>1, <2>3
    <3> QED
      BY <1>2, <3>1 DEF Listed
  <2> QED
    BY <2>2, <2>3
<1> QED
  BY <1>4, <1>5, <1>6 DEF new

(* What a list numbers without repeats has as many elements as the list.    *)
LEMMA NumberedSet ==
    ASSUME NEW n \in Nat, NEW T, NEW f \in [1 .. n -> T],
           \A i, j \in 1 .. n : f[i] = f[j] => i = j,
           \A t \in T : \E i \in 1 .. n : f[i] = t
    PROVE  IsFiniteSet(T) /\ Cardinality(T) = n
<1>1. f \in Bijection(1 .. n, T)
  BY DEF Bijection, Injection, Surjection, IsInjective
<1>2. ExistsBijection(1 .. n, T)
  BY <1>1 DEF ExistsBijection
<1>3. IsFiniteSet(1 .. n) /\ Cardinality(1 .. n) = n
  BY FS_Interval
<1> QED
  BY <1>2, <1>3, FS_Bijection

-----------------------------------------------------------------------------
(* Storage: types *)

LEMMA StorageParts ==
    ASSUME NEW s \in Storage
    PROVE  /\ s.StudentCount \in Ids
           /\ s.Students \in [Ids -> Students \cup {NoStudent}]
           /\ s.StudentsByOwner \in [Accounts -> IdLists]
           /\ \A a \in Accounts : /\ s.StudentsByOwner[a] \in Seq(Ids)
                                  /\ Len(s.StudentsByOwner[a]) <= MaxStudentsPerOwner
  BY DEF Storage, IdLists

LEMMA EmptyStorageType == EmptyStorage \in Storage
<1>1. <<>> \in IdLists
  BY BoundsAssumption DEF IdLists
<1> QED
  BY <1>1, BoundsAssumption DEF EmptyStorage, Storage, Ids

(* Replacing the record under an id, which is all update_student writes.    *)
LEMMA WithStudentType ==
    ASSUME NEW s \in Storage, NEW id \in Ids, NEW x \in Students \cup {NoStudent}
    PROVE  /\ WithStudent(s, id, x) \in Storage
           /\ WithStudent(s, id, x).StudentCount = s.StudentCount
           /\ \A y \in Ids : WithStudent(s, id, x).Students[y] =
                               IF y = id THEN x ELSE s.Students[y]
           /\ WithStudent(s, id, x).StudentsByOwner = s.StudentsByOwner
  BY DEF WithStudent, Storage

(* The erasure that graduate, delete and delete_any end with.               *)
LEMMA ErasedType ==
    ASSUME NEW s \in Storage, NEW a \in Accounts, NEW id \in Ids,
           Listed(s.StudentsByOwner[a], id)
    PROVE  /\ Erased(s, a, id) \in Storage
           /\ Erased(s, a, id).StudentCount = s.StudentCount
           /\ \A y \in Ids : Erased(s, a, id).Students[y] =
                               IF y = id THEN NoStudent ELSE s.Students[y]
           /\ \A b \in Accounts : Erased(s, a, id).StudentsByOwner[b] =
                 IF b = a THEN Unlisted(s.StudentsByOwner[a], id) ELSE s.StudentsByOwner[b]
<1> DEFINE list == Unlisted(s.StudentsByOwner[a], id)
           t    == WithList(s, a, list)
<1>1. list \in IdLists
  BY StorageParts, UnlistedType, BoundsAssumption DEF IdLists
<1>2. /\ t \in Storage
      /\ t.StudentCount = s.StudentCount
      /\ t.Students = s.Students
      /\ \A b \in Accounts : t.StudentsByOwner[b] =
            IF b = a THEN list ELSE s.StudentsByOwner[b]
  BY <1>1 DEF WithList, Storage
<1> HIDE DEF t, list
<1>3. Erased(s, a, id) = WithStudent(t, id, NoStudent)
  BY DEF Erased, t, list
<1> QED
  BY <1>2, <1>3, WithStudentType DEF list

(* An enrolment that succeeds, of create_student and of receive_student.    *)
LEMMA EnrolType ==
    ASSUME NEW s \in Storage, NEW a \in Accounts, NEW x \in Students,
           Enrol(s, a, x).err = "none"
    PROVE  /\ Enrol(s, a, x).st \in Storage
           /\ Enrol(s, a, x).st.StudentCount = NextId(s)
           /\ \A y \in Ids : Enrol(s, a, x).st.Students[y] =
                               IF y = s.StudentCount THEN x ELSE s.Students[y]
           /\ \A b \in Accounts : Enrol(s, a, x).st.StudentsByOwner[b] =
                 IF b = a THEN Append(s.StudentsByOwner[a], s.StudentCount)
                 ELSE s.StudentsByOwner[b]
           /\ Len(s.StudentsByOwner[a]) < MaxStudentsPerOwner
<1> DEFINE id   == s.StudentCount
           list == s.StudentsByOwner[a]
           u    == [s EXCEPT !.StudentCount = NextId(s)]
           v    == WithStudent(u, id, x)
<1>1. Len(list) < MaxStudentsPerOwner
  BY StorageParts, BoundsAssumption DEF Enrol, Fail
<1>2. Enrol(s, a, x).st = WithList(v, a, Append(list, id))
  BY <1>1, StorageParts, BoundsAssumption DEF Enrol, Ok
<1>3. NextId(s) \in Ids
  BY StorageParts, BoundsAssumption DEF NextId, Ids
<1>4. /\ u \in Storage
      /\ u.StudentCount = NextId(s)
      /\ u.Students = s.Students
      /\ u.StudentsByOwner = s.StudentsByOwner
  BY <1>3 DEF Storage
<1>5. Append(list, id) \in IdLists
  BY <1>1, StorageParts, PushedList, BoundsAssumption DEF IdLists
<1> HIDE DEF u
<1>6. /\ v \in Storage
      /\ v.StudentCount = NextId(s)
      /\ \A y \in Ids : v.Students[y] = IF y = id THEN x ELSE s.Students[y]
      /\ v.StudentsByOwner = s.StudentsByOwner
  BY <1>4, StorageParts, WithStudentType
<1> HIDE DEF v
<1> DEFINE new == Append(list, id)
           w   == WithList(v, a, new)
<1>7. new \in IdLists
  BY <1>5
<1> HIDE DEF new
<1>8. /\ w \in Storage
      /\ w.StudentCount = v.StudentCount
      /\ w.Students = v.Students
      /\ \A b \in Accounts : w.StudentsByOwner[b] =
            IF b = a THEN new ELSE v.StudentsByOwner[b]
  BY <1>6, <1>7 DEF WithList, Storage
<1>9. Enrol(s, a, x).st = w
  BY <1>2 DEF new
<1> HIDE DEF w
<1> QED
  BY <1>1, <1>6, <1>8, <1>9 DEF new

-----------------------------------------------------------------------------
(* Storage: the ownership relation *)

(* The empty storage is exact.                                              *)
LEMMA EmptyStorageExact == Exact(EmptyStorage) /\ BelowCount(EmptyStorage)
  BY DEF EmptyStorage, Exact, NoRepeats, OneOwner, ListedIffStored, BelowCount,
         Holders, Listed

(* Exactness in terms of lists that hold ids, which is how a step disturbs  *)
(* it.                                                                      *)
LEMMA ExactMeans ==
    ASSUME NEW s \in Storage
    PROVE  Exact(s) <=>
             /\ \A a \in Accounts : Distinct(s.StudentsByOwner[a])
             /\ \A id \in Ids, a, b \in Accounts :
                   Listed(s.StudentsByOwner[a], id) /\ Listed(s.StudentsByOwner[b], id)
                      => a = b
             /\ \A id \in Ids :
                   (\E a \in Accounts : Listed(s.StudentsByOwner[a], id))
                      <=> s.Students[id] # NoStudent
<1>1. NoRepeats(s) <=> \A a \in Accounts : Distinct(s.StudentsByOwner[a])
  BY DEF NoRepeats, Distinct
<1>2. OneOwner(s) <=> \A id \in Ids, a, b \in Accounts :
          Listed(s.StudentsByOwner[a], id) /\ Listed(s.StudentsByOwner[b], id) => a = b
  BY DEF OneOwner, Holders
<1>3. ListedIffStored(s) <=> \A id \in Ids :
          (\E a \in Accounts : Listed(s.StudentsByOwner[a], id))
             <=> s.Students[id] # NoStudent
  BY DEF ListedIffStored, Holders
<1> QED
  BY <1>1, <1>2, <1>3 DEF Exact

(* An erasure by the holder of the id leaves an exact storage exact: both   *)
(* maps lose that id and nothing else.                                      *)
LEMMA ErasedExact ==
    ASSUME NEW s \in Storage, NEW a \in Accounts, NEW id \in Ids,
           Listed(s.StudentsByOwner[a], id), Exact(s), BelowCount(s)
    PROVE  Exact(Erased(s, a, id)) /\ BelowCount(Erased(s, a, id))
<1> DEFINE t == Erased(s, a, id)
<1>1. /\ t \in Storage
      /\ t.StudentCount = s.StudentCount
      /\ \A y \in Ids : t.Students[y] = IF y = id THEN NoStudent ELSE s.Students[y]
      /\ \A b \in Accounts : t.StudentsByOwner[b] =
            IF b = a THEN Unlisted(s.StudentsByOwner[a], id) ELSE s.StudentsByOwner[b]
  BY ErasedType
<1> HIDE DEF t
<1>2. \A b \in Accounts : Distinct(s.StudentsByOwner[b])
  BY ExactMeans
<1>3. /\ \A x : Listed(Unlisted(s.StudentsByOwner[a], id), x)
                <=> Listed(s.StudentsByOwner[a], x) /\ x # id
      /\ Distinct(Unlisted(s.StudentsByOwner[a], id))
  BY <1>2, StorageParts, UnlistedList
<1>4. ASSUME NEW b \in Accounts
      PROVE  /\ Distinct(t.StudentsByOwner[b])
             /\ \A x : Listed(t.StudentsByOwner[b], x)
                   <=> Listed(s.StudentsByOwner[b], x) /\ (b = a => x # id)
  <2>1. CASE b = a
    BY <1>1, <1>3, <2>1, StorageParts
  <2>2. CASE b # a
    BY <1>1, <1>2, <2>2, StorageParts
  <2> QED
    BY <2>1, <2>2
<1>6. \A x \in Ids, b, c \in Accounts :
         Listed(t.StudentsByOwner[b], x) /\ Listed(t.StudentsByOwner[c], x) => b = c
  BY <1>4, ExactMeans
<1>7. ASSUME NEW x \in Ids
      PROVE  (\E b \in Accounts : Listed(t.StudentsByOwner[b], x))
                <=> t.Students[x] # NoStudent
  <2>1. CASE x = id
    <3>1. \A b \in Accounts : Listed(s.StudentsByOwner[b], x) => b = a
      BY <2>1, ExactMeans
    <3> QED
      BY <1>1, <1>4, <2>1, <3>1
  <2>2. CASE x # id
    <3>1. (\E b \in Accounts : Listed(s.StudentsByOwner[b], x))
             <=> s.Students[x] # NoStudent
      BY ExactMeans
    <3> QED
      BY <1>1, <1>4, <2>2, <3>1
  <2> QED
    BY <2>1, <2>2
<1>8. Exact(t)
  BY <1>1, <1>4, <1>6, <1>7, ExactMeans
<1>9. BelowCount(t)
  BY <1>1 DEF BelowCount
<1> QED
  BY <1>8, <1>9 DEF t

(* A record replaced by another leaves an exact storage exact.              *)
LEMMA AmendedExact ==
    ASSUME NEW s \in Storage, NEW id \in Ids, NEW x \in Students,
           s.Students[id] # NoStudent, Exact(s), BelowCount(s)
    PROVE  Exact(WithStudent(s, id, x)) /\ BelowCount(WithStudent(s, id, x))
<1> DEFINE t == WithStudent(s, id, x)
<1>1. /\ t \in Storage
      /\ t.StudentCount = s.StudentCount
      /\ \A y \in Ids : t.Students[y] = IF y = id THEN x ELSE s.Students[y]
      /\ t.StudentsByOwner = s.StudentsByOwner
  BY WithStudentType
<1> HIDE DEF t
<1>2. \A y \in Ids : t.Students[y] # NoStudent <=> s.Students[y] # NoStudent
  BY <1>1, StorageParts, NoStudentAssumption
<1>3. Exact(t)
  BY <1>1, <1>2, ExactMeans
<1>4. BelowCount(t)
  BY <1>1, <1>2 DEF BelowCount
<1> QED
  BY <1>3, <1>4 DEF t

(* An enrolment whose counter does not wrap leaves an exact storage exact:  *)
(* its id is in no list and names no record before.                         *)
LEMMA EnrolExact ==
    ASSUME NEW s \in Storage, NEW a \in Accounts, NEW x \in Students,
           Enrol(s, a, x).err = "none", NextId(s) = s.StudentCount + 1,
           Exact(s), BelowCount(s)
    PROVE  LET t == Enrol(s, a, x).st IN Exact(t) /\ BelowCount(t)
<1> DEFINE t  == Enrol(s, a, x).st
           id == s.StudentCount
<1>1. /\ t \in Storage
      /\ t.StudentCount = id + 1
      /\ \A y \in Ids : t.Students[y] = IF y = id THEN x ELSE s.Students[y]
      /\ \A b \in Accounts : t.StudentsByOwner[b] =
            IF b = a THEN Append(s.StudentsByOwner[a], id) ELSE s.StudentsByOwner[b]
  BY EnrolType
<1>2. id \in Ids /\ id \in Nat
  BY StorageParts DEF Ids
<1> HIDE DEF t
<1>3. s.Students[id] = NoStudent
  BY <1>2 DEF BelowCount
<1>4. \A b \in Accounts : ~Listed(s.StudentsByOwner[b], id)
  BY <1>2, <1>3, ExactMeans
<1>5. /\ \A y : Listed(Append(s.StudentsByOwner[a], id), y)
                <=> Listed(s.StudentsByOwner[a], y) \/ y = id
      /\ Distinct(Append(s.StudentsByOwner[a], id))
  BY <1>2, <1>4, ExactMeans, StorageParts, PushedList
<1>6. ASSUME NEW b \in Accounts
      PROVE  /\ Distinct(t.StudentsByOwner[b])
             /\ \A y : Listed(t.StudentsByOwner[b], y)
                   <=> Listed(s.StudentsByOwner[b], y) \/ (b = a /\ y = id)
  <2>1. CASE b = a
    BY <1>1, <1>5, <2>1, StorageParts
  <2>2. CASE b # a
    BY <1>1, <2>2, StorageParts, ExactMeans
  <2> QED
    BY <2>1, <2>2
<1>8. \A y \in Ids, b, c \in Accounts :
         Listed(t.StudentsByOwner[b], y) /\ Listed(t.StudentsByOwner[c], y) => b = c
  BY <1>4, <1>6, ExactMeans
<1>9. ASSUME NEW y \in Ids
      PROVE  (\E b \in Accounts : Listed(t.StudentsByOwner[b], y))
                <=> t.Students[y] # NoStudent
  <2>1. CASE y = id
    BY <1>1, <1>6, <2>1, NoStudentAssumption
  <2>2. CASE y # id
    <3>1. (\E b \in Accounts : Listed(s.StudentsByOwner[b], y))
             <=> s.Students[y] # NoStudent
      BY ExactMeans
    <3> QED
      BY <1>1, <1>6, <2>2, <3>1
  <2> QED
    BY <2>1, <2>2
<1>10. Exact(t)
  BY <1>1, <1>6, <1>8, <1>9, ExactMeans
<1>11. BelowCount(t)
  BY <1>1, <1>2 DEF BelowCount, Ids
<1> QED
  BY <1>10, <1>11 DEF t

-----------------------------------------------------------------------------
(* Calls: what a call that returns Ok has checked, and what it leaves       *)

LEMMA CreateOutcome ==
    ASSUME NEW s \in Storage, NEW origin \in Origins, NEW profile \in Profiles,
           NEW tag \in Tags, create_student(s, origin, profile, tag).err = "none"
    PROVE  LET x == [tag |-> tag, profile |-> profile, has_graduated |-> FALSE] IN
           /\ origin \in Accounts
           /\ x \in Students
           /\ create_student(s, origin, profile, tag) = Enrol(s, origin, x)
<1>1. /\ origin \in Accounts
      /\ profile \notin LongNames
      /\ profile \notin LongSurnames
  BY DEF create_student, Fail
<1>2. profile \in ValidProfiles
  BY <1>1 DEF ValidProfiles
<1> QED
  BY <1>1, <1>2 DEF create_student, Students

LEMMA ReceiveOutcome ==
    ASSUME NEW s \in Storage, NEW origin \in Origins, NEW x \in Students,
           NEW owner \in Accounts, receive_student(s, origin, x, owner).err = "none"
    PROVE  receive_student(s, origin, x, owner) = Enrol(s, owner, x)
  BY DEF receive_student, Fail

LEMMA GraduateOutcome ==
    ASSUME NEW s \in Storage, NEW origin \in Origins, NEW id \in Ids,
           NEW delivered \in BOOLEAN,
           graduate_student(s, origin, id, delivered).err = "none"
    PROVE  /\ origin \in Accounts
           /\ Listed(s.StudentsByOwner[origin], id)
           /\ s.Students[id] \in Students
           /\ ~s.Students[id].has_graduated
           /\ delivered
           /\ graduate_student(s, origin, id, delivered).st = Erased(s, origin, id)
           /\ graduate_student(s, origin, id, delivered).sent =
                 <<[student   |-> [s.Students[id] EXCEPT !.has_graduated = TRUE],
                    new_owner |-> origin]>>
<1>1. /\ origin \in Accounts
      /\ Listed(s.StudentsByOwner[origin], id)
      /\ s.Students[id] # NoStudent
      /\ ~s.Students[id].has_graduated
      /\ delivered
  BY DEF graduate_student, Fail
<1>2. s.Students[id] \in Students
  BY <1>1, StorageParts
<1> QED
  BY <1>1, <1>2 DEF graduate_student, Sending

LEMMA DeleteOutcome ==
    ASSUME NEW s \in Storage, NEW origin \in Origins, NEW id \in Ids,
           delete_student(s, origin, id).err = "none"
    PROVE  /\ origin \in Accounts
           /\ Listed(s.StudentsByOwner[origin], id)
           /\ delete_student(s, origin, id).st = Erased(s, origin, id)
  BY DEF delete_student, Fail, Ok

LEMMA UpdateOutcome ==
    ASSUME NEW s \in Storage, NEW origin \in Origins, NEW id \in Ids,
           NEW profile \in Profiles,
           update_student(s, origin, id, profile).err = "none"
    PROVE  LET x == [s.Students[id] EXCEPT !.profile = profile] IN
           /\ origin \in Accounts
           /\ Listed(s.StudentsByOwner[origin], id)
           /\ s.Students[id] \in Students
           /\ profile \in ValidProfiles
           /\ x \in Students
           /\ update_student(s, origin, id, profile).st = WithStudent(s, id, x)
<1>1. /\ origin \in Accounts
      /\ Listed(s.StudentsByOwner[origin], id)
      /\ s.Students[id] # NoStudent
      /\ profile \notin LongNames
      /\ profile \notin LongSurnames
  BY DEF update_student, Fail
<1>2. s.Students[id] \in Students /\ profile \in ValidProfiles
  BY <1>1, StorageParts DEF ValidProfiles
<1>3. [s.Students[id] EXCEPT !.profile = profile] \in Students
  BY <1>2 DEF Students
<1> QED
  BY <1>1, <1>2, <1>3 DEF update_student, Ok

LEMMA DeleteAnyOutcome ==
    ASSUME NEW s \in Storage, NEW origin \in Origins, NEW id \in Ids,
           NEW first \in Accounts,
           delete_any_student(s, origin, id, first).err = "none"
    PROVE  /\ s.Students[id] # NoStudent
           /\ \/ /\ Listed(s.StudentsByOwner[first], id)
                 /\ delete_any_student(s, origin, id, first).st = Erased(s, first, id)
              \/ /\ ~Listed(s.StudentsByOwner[first], id)
                 /\ delete_any_student(s, origin, id, first).st =
                       WithStudent(s, id, NoStudent)
<1>1. origin \in Accounts \cup {Root} /\ s.Students[id] # NoStudent
  BY DEF delete_any_student, Fail
<1>2. first \in Holders(s, id) <=> Listed(s.StudentsByOwner[first], id)
  BY DEF Holders
<1> QED
  BY <1>1, <1>2 DEF delete_any_student, Ok
=============================================================================
