--------------------------- MODULE FrontendProofs ---------------------------
(***************************************************************************)
(* What a tab does with its requests and its loads, for every number of    *)
(* clicks, of enrolments and of effects that mount the page: the state has *)
(* its types, and a button is disabled exactly while its transaction is    *)
(* under way.                                                              *)
(***************************************************************************)
EXTENDS Frontend, StudentCallsProofs, SequenceProofs

-----------------------------------------------------------------------------
(* Counting in a sequence *)

(* The elements of a sequence that are in a set, and their number.          *)
Places(s, T)  == {i \in DOMAIN s : s[i] \in T}
HowMany(s, T) == Cardinality(Places(s, T))

LEMMA PlacesFinite ==
    ASSUME NEW S, NEW s \in Seq(S), NEW T
    PROVE  IsFiniteSet(Places(s, T)) /\ HowMany(s, T) \in Nat
<1>1. Places(s, T) \in SUBSET (1 .. Len(s)) /\ Len(s) \in Int
  BY DEF Places
<1>2. 1 \in Int
  OBVIOUS
<1>3. IsFiniteSet(1 .. Len(s))
  BY <1>1, <1>2, FS_Interval, Zenon
<1>4. IsFiniteSet(Places(s, T))
  BY <1>1, <1>3, FS_Subset
<1> QED
  BY <1>4, FS_CardinalityType DEF HowMany

LEMMA HowManyNone ==
    ASSUME NEW T
    PROVE  HowMany(<<>>, T) = 0
<1>1. Places(<<>>, T) = {}
  BY DEF Places
<1> QED
  BY <1>1, FS_EmptySet DEF HowMany

(* One more, if the new element counts.                                     *)
LEMMA HowManyAppended ==
    ASSUME NEW S, NEW s \in Seq(S), NEW x \in S, NEW T
    PROVE  HowMany(Append(s, x), T) = HowMany(s, T) + (IF x \in T THEN 1 ELSE 0)
<1> DEFINE t == Append(s, x)
           n == Len(s)
           P == Places(s, T)
<1>1. /\ n \in Nat /\ DOMAIN s = 1 .. n /\ DOMAIN t = 1 .. n + 1
      /\ t[n + 1] = x /\ \A i \in 1 .. n : t[i] = s[i]
  OBVIOUS
<1>2. P \subseteq 1 .. n /\ n + 1 \notin P
  BY <1>1 DEF Places
<1> HIDE DEF t, n
<1>3. Places(t, T) = IF x \in T THEN P \cup {n + 1} ELSE P
  BY <1>1 DEF Places
<1>4. IsFiniteSet(P) /\ Cardinality(P) \in Nat
  BY PlacesFinite DEF HowMany
<1> HIDE DEF P
<1>5. Cardinality(P \cup {n + 1}) = Cardinality(P) + 1
  BY <1>2, <1>4, FS_AddElement
<1>6. Cardinality(Places(t, T)) = Cardinality(P) + (IF x \in T THEN 1 ELSE 0)
  BY <1>3, <1>4, <1>5
<1> QED
  BY <1>6 DEF HowMany, t, P

LEMMA Replaced ==
    ASSUME NEW S, NEW s \in Seq(S), NEW k \in DOMAIN s, NEW x \in S
    PROVE  LET t == [s EXCEPT ![k] = x]
           IN  /\ t \in Seq(S) /\ DOMAIN t = DOMAIN s /\ Len(t) = Len(s)
               /\ t[k] = x /\ \A i \in DOMAIN s \ {k} : t[i] = s[i]
  OBVIOUS

(* One element replaced by another.                                         *)
LEMMA HowManyReplaced ==
    ASSUME NEW S, NEW s \in Seq(S), NEW k \in DOMAIN s, NEW T,
           NEW t, DOMAIN t = DOMAIN s, \A i \in DOMAIN s \ {k} : t[i] = s[i]
    PROVE  HowMany(t, T)
              = HowMany(s, T) - (IF s[k] \in T THEN 1 ELSE 0) + (IF t[k] \in T THEN 1 ELSE 0)
<1> DEFINE x == t[k]
           P == Places(s, T)
           Q == P \ {k}
<1>1. DOMAIN t = DOMAIN s /\ \A i \in DOMAIN s \ {k} : t[i] = s[i]
  OBVIOUS
<1>2. Places(t, T) = IF x \in T THEN Q \cup {k} ELSE Q
  BY <1>1 DEF Places
<1>3. k \in P <=> s[k] \in T
  BY DEF Places
<1>4. IsFiniteSet(P) /\ Cardinality(P) \in Nat
  BY PlacesFinite DEF HowMany
<1> HIDE DEF P
<1>5. /\ IsFiniteSet(Q)
      /\ Cardinality(Q) = IF k \in P THEN Cardinality(P) - 1 ELSE Cardinality(P)
  BY <1>4, FS_RemoveElement
<1>6. Cardinality(Q \cup {k}) = Cardinality(Q) + 1
  <2>1. k \notin Q
    OBVIOUS
  <2> HIDE DEF Q
  <2> QED
    BY <1>5, <2>1, FS_AddElement
<1> HIDE DEF Q
<1>7. Cardinality(Q) \in Int
  BY <1>4, <1>5
<1>8. Cardinality(Q) = Cardinality(P) - (IF s[k] \in T THEN 1 ELSE 0)
  BY <1>3, <1>4, <1>5
<1>9. Cardinality(Places(t, T)) = Cardinality(Q) + (IF x \in T THEN 1 ELSE 0)
  BY <1>2, <1>6, <1>7
<1> QED
  BY <1>8, <1>9 DEF HowMany, P

LEMMA Removed ==
    ASSUME NEW S, NEW s \in Seq(S), NEW k \in DOMAIN s
    PROVE  LET t == RemoveAt(s, k)
           IN  /\ t \in Seq(S) /\ Len(t) = Len(s) - 1
               /\ \A i \in DOMAIN t : t[i] = IF i < k THEN s[i] ELSE s[i + 1]
<1> DEFINE n == Len(s)
           p == SubSeq(s, 1, k - 1)
           q == SubSeq(s, k + 1, n)
           t == p \o q
<1>1. n \in Nat /\ k \in 1 .. n /\ k - 1 \in 0 .. Len(s) /\ k \in 0 .. Len(s)
  OBVIOUS
<1>2. p \in Seq(S) /\ Len(p) = k - 1 /\ \A i \in 1 .. k - 1 : p[i] = s[i]
  BY <1>1, Pieces
<1>3. q \in Seq(S) /\ Len(q) = n - k /\ \A i \in 1 .. n - k : q[i] = s[k + i]
  BY <1>1, Pieces
<1>4. RemoveAt(s, k) = t
  BY DEF RemoveAt
<1> HIDE DEF p, q
<1>5. /\ t \in Seq(S) /\ Len(t) = Len(p) + Len(q)
      /\ \A i \in 1 .. Len(p) + Len(q) : t[i] = IF i <= Len(p) THEN p[i] ELSE q[i - Len(p)]
  BY <1>2, <1>3, SMTT(20)
<1> HIDE DEF t, n
<1>6. Len(t) = n - 1 /\ DOMAIN t = 1 .. n - 1
  BY <1>1, <1>2, <1>3, <1>5
<1>7. ASSUME NEW i \in 1 .. n - 1 PROVE t[i] = IF i < k THEN s[i] ELSE s[i + 1]
  <2>1. i \in 1 .. Len(p) + Len(q)
    BY <1>1, <1>2, <1>3
  <2>2. CASE i < k
    <3>1. i \in 1 .. k - 1 /\ i <= Len(p)
      BY <1>1, <1>2, <2>2
    <3> QED
      BY <1>2, <1>5, <2>1, <2>2, <3>1
  <2>3. CASE ~(i < k)
    <3>1. i - (k - 1) \in 1 .. n - k /\ ~(i <= k - 1) /\ k + (i - (k - 1)) = i + 1
      BY <1>1, <2>3
    <3>2. t[i] = q[i - (k - 1)]
      BY <1>2, <1>5, <2>1, <3>1
    <3> QED
      BY <1>3, <2>3, <3>1, <3>2
  <2> QED
    BY <2>2, <2>3
<1> QED
  BY <1>4, <1>5, <1>6, <1>7 DEF n

(* One less, if the element that goes counted.                              *)
LEMMA HowManyRemoved ==
    ASSUME NEW S, NEW s \in Seq(S), NEW k \in DOMAIN s, NEW T
    PROVE  HowMany(RemoveAt(s, k), T) = HowMany(s, T) - (IF s[k] \in T THEN 1 ELSE 0)
<1> DEFINE t == RemoveAt(s, k)
           n == Len(s)
           P == Places(s, T)
           Q == P \ {k}
           R == Places(t, T)
           moved == [i \in Q |-> IF i < k THEN i ELSE i - 1]
<1>1. t \in Seq(S) /\ Len(t) = Len(s) - 1
      /\ \A i \in DOMAIN t : t[i] = IF i < k THEN s[i] ELSE s[i + 1]
  BY Removed
<1>2. n \in Nat /\ k \in 1 .. n /\ DOMAIN s = 1 .. n /\ DOMAIN t = 1 .. n - 1
  BY <1>1
<1>3. k \in P <=> s[k] \in T
  BY DEF Places
<1>4. IsFiniteSet(P) /\ Cardinality(P) \in Nat
  BY PlacesFinite DEF HowMany
<1>5. \A i : i \in Q <=> i \in 1 .. n /\ i # k /\ s[i] \in T
  BY <1>2 DEF Places
<1>6. \A i : i \in R <=> i \in 1 .. n - 1 /\ t[i] \in T
  BY <1>2 DEF Places
<1> HIDE DEF P
<1>7. /\ IsFiniteSet(Q)
      /\ Cardinality(Q) = IF k \in P THEN Cardinality(P) - 1 ELSE Cardinality(P)
  BY <1>4, FS_RemoveElement
<1> HIDE DEF t, n, Q, R
<1>8. ASSUME NEW i \in Q
      PROVE  moved[i] \in R /\ moved[i] = IF i < k THEN i ELSE i - 1
  <2>1. i \in 1 .. n /\ i # k /\ s[i] \in T
    BY <1>5
  <2>2. CASE i < k
    <3>1. i \in 1 .. n - 1 /\ t[i] = s[i]
      BY <1>1, <1>2, <2>1, <2>2
    <3> QED
      BY <1>6, <2>1, <2>2, <3>1
  <2>3. CASE ~(i < k)
    <3>1. i - 1 \in 1 .. n - 1 /\ ~(i - 1 < k) /\ (i - 1) + 1 = i
      BY <1>2, <2>1, <2>3
    <3>2. t[i - 1] = s[i]
      BY <1>1, <1>2, <3>1
    <3> QED
      BY <1>6, <2>1, <2>3, <3>1, <3>2
  <2> QED
    BY <2>2, <2>3
<1>9. \A i \in Q : i \in Int /\ i # k
  BY <1>5
<1>10. moved \in [Q -> R]
  BY <1>8
<1>11. ASSUME NEW j \in R PROVE \E i \in Q : moved[i] = j
  <2>1. j \in 1 .. n - 1 /\ t[j] \in T
    BY <1>6
  <2>2. CASE j < k
    <3>1. j \in Q
      BY <1>1, <1>2, <1>5, <2>1, <2>2
    <3>2. moved[j] = j
      BY <1>8, <2>2, <3>1
    <3> QED
      BY <3>1, <3>2
  <2>3. CASE ~(j < k)
    <3>1. j + 1 \in 1 .. n /\ j + 1 # k /\ ~(j + 1 < k) /\ (j + 1) - 1 = j
      BY <1>2, <2>1, <2>3
    <3>2. j + 1 \in Q
      BY <1>1, <1>2, <1>5, <2>1, <2>3, <3>1
    <3>3. moved[j + 1] = j
      BY <1>8, <3>1, <3>2
    <3> QED
      BY <3>2, <3>3
  <2> QED
    BY <2>2, <2>3
<1>12. ASSUME NEW i \in Q, NEW j \in Q, moved[i] = moved[j] PROVE i = j
  <2>1. /\ moved[i] = IF i < k THEN i ELSE i - 1
        /\ moved[j] = IF j < k THEN j ELSE j - 1
        /\ i \in Int /\ j \in Int /\ i # k /\ j # k
    BY <1>8, <1>9
  <2> QED
    BY <1>2, <1>12, <2>1
<1> HIDE DEF moved
<1>13. moved \in Bijection(Q, R)
  BY <1>10, <1>11, <1>12 DEF Bijection, Injection, Surjection, IsInjective
<1>14. Cardinality(R) = Cardinality(Q)
  BY <1>7, <1>13, FS_Bijection DEF ExistsBijection
<1>15. Cardinality(R) = Cardinality(P) - (IF s[k] \in T THEN 1 ELSE 0)
  BY <1>3, <1>4, <1>7, <1>14
<1> QED
  BY <1>15 DEF HowMany, R, t, P

-----------------------------------------------------------------------------
(* What the state is made of *)

Rows     == [id : Ids, tag : Tags, profile : ValidProfiles]
Messages == [student : Students, new_owner : Accounts]
Pending  == {"signing", "signed", "pooled"}

Requested ==
    {q \in [handler : Handlers, id : Ids \cup {None}, tag : Tags \cup {None}, profile : Profiles,
            phase : Pending \cup {"inBlock", "waiting"}, nonce : 0 .. MaxClicks - 1] :
        /\ q.handler # "create" => q.id \in Ids /\ q.tag \in Tags
        /\ q.phase = "waiting" => q.handler = "graduate"}

Loading ==
    {q \in [chain : Chains, count : Ids, next : Ids \cup {None}, rows : SUBSET Rows,
            awaitedBy : {"mount", "nobody", "graduate"}] :
        IF q.next = None THEN q.rows = {} ELSE q.next < q.count}

FlagsTyped ==
    /\ creating \in BOOLEAN /\ updating \in BOOLEAN
    /\ transferring \in Ids \cup {None} /\ editingStudent \in Ids \cup {None}

StateTyped ==
    /\ chain \in [Chains -> Storage] /\ travelling \in Seq(Messages)
    /\ enrolled \in Nat /\ accountNonce \in [Chains -> Nat]
    /\ shown \in [Chains -> SUBSET Rows]
    /\ FlagsTyped
    /\ requests \in Seq(Requested) /\ loads \in Seq(Loading)
    /\ clicks \in 0 .. MaxClicks /\ dropped \subseteq Handlers

By(handler) == {q \in Requested : q.handler = handler}
Open(c)     == {q \in Requested : ChainOf(q.handler) = c /\ q.phase \in Pending}
Creations   == {q \in Requested : q.handler = "create" /\ q.phase \in Pending}
Awaited     == {q \in Loading : q.awaitedBy = "graduate"}

(* Each click is behind one executed or one open transaction, and the room  *)
(* for enrolments is kept for the creations that are open.                  *)
Budgets ==
    /\ \A c \in Chains : accountNonce[c] + HowMany(requests, Open(c)) <= clicks
    /\ enrolled + HowMany(requests, Creations) <= MaxEnrolments

(* FlagsFollowRequests in these numbers.                                    *)
Flagged == {"create", "update", "graduate"}

Disabled(handler) ==
    \/ handler = "create" /\ creating
    \/ handler = "update" /\ updating
    \/ handler = "graduate" /\ transferring # None

(* What is left of a transaction after its request: the load that follows a *)
(* graduation, or for ever the one that was dropped.                        *)
Left(handler) ==
    (IF handler = "graduate" THEN HowMany(loads, Awaited) ELSE 0)
      + (IF handler \in dropped THEN 1 ELSE 0)

Underway(handler) == HowMany(requests, By(handler)) + Left(handler)
Flag(handler)     == IF Disabled(handler) THEN 1 ELSE 0

FlagsCount == \A handler \in Flagged : Underway(handler) = Flag(handler)

GraduatesOne ==
    \A r \in DOMAIN requests : requests[r].handler = "graduate" => requests[r].id = transferring

PageInv == StateTyped /\ Budgets /\ FlagsCount /\ GraduatesOne

-----------------------------------------------------------------------------
(* What a call does to the students of a chain *)

(* A student enrols under the id that the counter gives away.               *)
Enrolled(st, after) ==
    /\ after.StudentCount = NextId(st)
    /\ \A id \in Ids : id # st.StudentCount => after.Students[id] = st.Students[id]

(* No id gets another student, and the counter stays.                       *)
Follows(st, after) ==
    /\ after.StudentCount = st.StudentCount
    /\ \A id \in Ids : after.Students[id] # NoStudent =>
          st.Students[id] # NoStudent /\ after.Students[id].tag = st.Students[id].tag

LEMMA EnrolEnrols ==
    ASSUME NEW s \in Storage, NEW a \in Accounts, NEW x \in Students,
           Enrol(s, a, x).err = "none"
    PROVE  Enrol(s, a, x).st \in Storage /\ Enrolled(s, Enrol(s, a, x).st)
  BY EnrolType DEF Enrolled

LEMMA ErasedFollows ==
    ASSUME NEW s \in Storage, NEW a \in Accounts, NEW id \in Ids,
           Listed(s.StudentsByOwner[a], id)
    PROVE  /\ Erased(s, a, id) \in Storage /\ Follows(s, Erased(s, a, id))
           /\ Erased(s, a, id).Students[id] = NoStudent
  BY ErasedType DEF Follows

LEMMA UpdateFollows ==
    ASSUME NEW s \in Storage, NEW origin \in Accounts, NEW id \in Ids, NEW profile \in Profiles,
           update_student(s, origin, id, profile).err = "none"
    PROVE  LET after == update_student(s, origin, id, profile).st
           IN  after \in Storage /\ Follows(s, after) /\ s.Students[id] # NoStudent
<1> DEFINE x == [s.Students[id] EXCEPT !.profile = profile]
           after == update_student(s, origin, id, profile).st
<1>1. origin \in Origins
  BY DEF Origins
<1>2. s.Students[id] \in Students /\ x \in Students /\ after = WithStudent(s, id, x)
  BY <1>1, UpdateOutcome
<1>3. x.tag = s.Students[id].tag /\ s.Students[id] # NoStudent
  BY <1>2, NoStudentAssumption DEF Students
<1> HIDE DEF x
<1>4. WithStudent(s, id, x) \in Storage /\ Follows(s, WithStudent(s, id, x))
  BY <1>2, <1>3, WithStudentType DEF Follows
<1> QED
  BY <1>2, <1>3, <1>4

LEMMA DeleteFollows ==
    ASSUME NEW s \in Storage, NEW origin \in Accounts, NEW id \in Ids,
           delete_student(s, origin, id).err = "none"
    PROVE  LET after == delete_student(s, origin, id).st
           IN  after \in Storage /\ Follows(s, after) /\ s.Students[id] # NoStudent
<1>1. origin \in Origins
  BY DEF Origins
<1>2. /\ Listed(s.StudentsByOwner[origin], id)
      /\ delete_student(s, origin, id).st = Erased(s, origin, id)
  BY <1>1, DeleteOutcome
<1>3. s.Students[id] # NoStudent
  BY DEF delete_student, Fail
<1> QED
  BY <1>2, <1>3, ErasedFollows

LEMMA DeleteAnyFollows ==
    ASSUME NEW s \in Storage, NEW origin \in Accounts, NEW id \in Ids, NEW first \in Accounts,
           delete_any_student(s, origin, id, first).err = "none"
    PROVE  LET after == delete_any_student(s, origin, id, first).st
           IN  after \in Storage /\ Follows(s, after) /\ s.Students[id] # NoStudent
<1> DEFINE after == delete_any_student(s, origin, id, first).st
<1>1. origin \in Origins
  BY DEF Origins
<1>2. /\ s.Students[id] # NoStudent
      /\ \/ Listed(s.StudentsByOwner[first], id) /\ after = Erased(s, first, id)
         \/ after = WithStudent(s, id, NoStudent)
  BY <1>1, DeleteAnyOutcome
<1> HIDE DEF after
<1>3. WithStudent(s, id, NoStudent) \in Storage /\ Follows(s, WithStudent(s, id, NoStudent))
  <2>1. NoStudent \in Students \cup {NoStudent}
    OBVIOUS
  <2> QED
    BY <2>1, WithStudentType DEF Follows
<1>4. after \in Storage /\ Follows(s, after)
  BY <1>2, <1>3, ErasedFollows
<1> QED
  BY <1>2, <1>4 DEF after

(* A graduate leaves the chain and goes with the message.                   *)
LEMMA GraduateFollows ==
    ASSUME NEW s \in Storage, NEW origin \in Accounts, NEW id \in Ids, NEW delivered \in BOOLEAN,
           graduate_student(s, origin, id, delivered).err = "none"
    PROVE  LET outcome == graduate_student(s, origin, id, delivered)
           IN  /\ outcome.st \in Storage /\ Follows(s, outcome.st) /\ s.Students[id] # NoStudent
               /\ outcome.st.Students[id] = NoStudent
               /\ \E m \in Messages : outcome.sent = <<m>>
<1> DEFINE outcome == graduate_student(s, origin, id, delivered)
           g == [s.Students[id] EXCEPT !.has_graduated = TRUE]
<1>1. origin \in Origins
  BY DEF Origins
<1>2. /\ Listed(s.StudentsByOwner[origin], id) /\ s.Students[id] \in Students
      /\ outcome.st = Erased(s, origin, id)
      /\ outcome.sent = <<[student |-> g, new_owner |-> origin]>>
  BY <1>1, GraduateOutcome
<1>3. g \in Students /\ s.Students[id] # NoStudent
  BY <1>2, NoStudentAssumption DEF Students
<1> HIDE DEF g, outcome
<1>4. [student |-> g, new_owner |-> origin] \in Messages
  BY <1>3 DEF Messages
<1>5. outcome.st \in Storage /\ Follows(s, outcome.st) /\ outcome.st.Students[id] = NoStudent
  BY <1>2, ErasedFollows
<1> QED
  BY <1>2, <1>3, <1>4, <1>5 DEF outcome

(* An open door: whoever calls, the student enrols for the owner named.     *)
LEMMA ReceiveEnrols ==
    ASSUME NEW s \in Storage, NEW origin \in Accounts, NEW x \in Students, NEW owner \in Accounts,
           receive_student(s, origin, x, owner).err = "none"
    PROVE  LET after == receive_student(s, origin, x, owner).st
           IN  after \in Storage /\ Enrolled(s, after)
<1>1. origin \in Origins
  BY DEF Origins
<1>2. receive_student(s, origin, x, owner) = Enrol(s, owner, x)
  BY <1>1, ReceiveOutcome
<1> QED
  BY <1>2, EnrolEnrols

LEMMA CreateEnrols ==
    ASSUME NEW s \in Storage, NEW origin \in Accounts, NEW profile \in Profiles, NEW tag \in Tags,
           create_student(s, origin, profile, tag).err = "none"
    PROVE  LET after == create_student(s, origin, profile, tag).st
           IN  after \in Storage /\ Enrolled(s, after)
<1> DEFINE x == [tag |-> tag, profile |-> profile, has_graduated |-> FALSE]
<1>1. origin \in Origins
  BY DEF Origins
<1>2. x \in Students /\ create_student(s, origin, profile, tag) = Enrol(s, origin, x)
  BY <1>1, CreateOutcome
<1> HIDE DEF x
<1> QED
  BY <1>2, EnrolEnrols

-----------------------------------------------------------------------------
(* What the steps do to the chains *)

(* At most this chain changes.                                              *)
OnlyAt(c) == chain' \in [Chains -> Storage] /\ \A d \in Chains \ {c} : chain'[d] = chain[d]

EnrolsAt(c)  == OnlyAt(c) /\ Enrolled(chain[c], chain'[c])
FollowsAt(c) == OnlyAt(c) /\ Follows(chain[c], chain'[c])

LEMMA CommittedAt ==
    ASSUME StateTyped, NEW c \in Chains, NEW outcome,
           chain' = [chain EXCEPT ![c] = Committed(@, outcome)],
           outcome.err = "none" => outcome.st \in Storage
    PROVE  /\ OnlyAt(c)
           /\ outcome.err # "none" => chain' = chain
           /\ outcome.err = "none" => chain'[c] = outcome.st
<1>1. chain \in [Chains -> Storage]
  BY DEF StateTyped
<1> QED
  BY <1>1 DEF Committed, OnlyAt

LEMMA Names ==
    /\ "university" \in Chains /\ "company" \in Chains
    /\ \A handler : ChainOf(handler) \in Chains
    /\ \A handler : handler # "deleteCompany" => ChainOf(handler) = "university"
  BY DEF Chains, ChainOf

(* A transaction in a block: it fails and changes nothing, it enrols a      *)
(* student, or it changes one that is there, who may leave with a message.  *)
LEMMA IncludeDoes ==
    ASSUME PageInv, NEW r \in DOMAIN requests, Include(r)
    PROVE  LET q == requests[r]
               c == ChainOf(q.handler)
           IN  \/ UNCHANGED <<chain, travelling, enrolled>>
               \/ /\ q.handler = "create" /\ EnrolsAt(c)
                  /\ enrolled' = enrolled + 1 /\ UNCHANGED travelling
               \/ /\ q.handler # "create" /\ FollowsAt(c) /\ UNCHANGED enrolled
                  /\ chain[c].Students[q.id] # NoStudent
                  /\ \/ UNCHANGED travelling
                     \/ /\ c = "university" /\ chain'[c].Students[q.id] = NoStudent
                        /\ \E m \in Messages : travelling' = Append(travelling, m)
<1> DEFINE q == requests[r]
           c == ChainOf(q.handler)
           s == chain[c]
<1>1. StateTyped /\ Budgets
  BY DEF PageInv
<1>2. q \in Requested
  BY <1>1 DEF StateTyped
<1>3. c \in Chains /\ s \in Storage /\ Alice \in Accounts
  BY <1>1, Names, FrontendAssumption DEF StateTyped
<1>4. /\ q.profile \in Profiles /\ q.handler \in Handlers
      /\ q.handler # "create" => q.id \in Ids
  BY <1>2 DEF Requested
<1>5. PICK delivered \in BOOLEAN :
         LET outcome == Outcome(q, delivered) IN
          /\ chain' = [chain EXCEPT ![c] = Committed(@, outcome)]
          /\ travelling' = travelling \o Sent(outcome)
          /\ enrolled' = enrolled + (IF q.handler = "create" /\ outcome.err = "none" THEN 1 ELSE 0)
  BY DEF Include
<1> DEFINE outcome == Outcome(q, delivered)
<1>6. /\ chain' = [chain EXCEPT ![c] = Committed(@, outcome)]
      /\ travelling' = travelling \o Sent(outcome)
      /\ enrolled' = enrolled + (IF q.handler = "create" /\ outcome.err = "none" THEN 1 ELSE 0)
  BY <1>5
<1>7. travelling \in Seq(Messages) /\ enrolled \in Nat
  BY <1>1 DEF StateTyped
<1>8. travelling \o <<>> = travelling
  BY <1>7
<1>9. CASE outcome.err # "none"
  <2>1. Sent(outcome) = <<>>
    BY <1>9 DEF Sent
  <2> HIDE DEF outcome
  <2>2. chain' = chain
    BY <1>1, <1>3, <1>6, <1>9, CommittedAt
  <2> QED
    BY <1>6, <1>7, <1>8, <1>9, <2>1, <2>2
<1>10. CASE outcome.err = "none" /\ q.handler = "create"
  <2>1. enrolled + 1 \in Tags
    <3>1. q \in Creations
      BY <1>2, <1>10 DEF Creations, Pending, Include
    <3>2. HowMany(requests, Creations) # 0
      <4>1. r \in Places(requests, Creations)
        BY <3>1 DEF Places
      <4>2. IsFiniteSet(Places(requests, Creations))
        BY <1>1, PlacesFinite DEF StateTyped
      <4> QED
        BY <4>1, <4>2, FS_EmptySet DEF HowMany
    <3>3. HowMany(requests, Creations) \in Nat /\ enrolled \in Nat
      BY <1>1, PlacesFinite DEF StateTyped
    <3>4. enrolled + HowMany(requests, Creations) <= MaxEnrolments
      BY <1>1 DEF Budgets
    <3> QED
      BY <3>2, <3>3, <3>4, FrontendAssumption
  <2>2. outcome = create_student(s, Alice, q.profile, enrolled + 1)
    BY <1>10 DEF Outcome
  <2> HIDE DEF outcome, s, q, c
  <2>3. outcome.st \in Storage /\ Enrolled(s, outcome.st)
    BY <1>3, <1>4, <1>10, <2>1, <2>2, CreateEnrols
  <2>4. Sent(outcome) = <<>>
    BY <1>10, <2>2 DEF Sent, create_student, Enrol, Ok, Fail
  <2>5. EnrolsAt(c)
    BY <1>1, <1>3, <1>6, <1>10, <2>3, CommittedAt DEF EnrolsAt, s
  <2> QED
    BY <1>6, <1>8, <1>10, <2>4, <2>5 DEF q, c
<1>11. CASE outcome.err = "none" /\ q.handler # "create"
  <2>1. q.id \in Ids /\ enrolled' = enrolled
    BY <1>4, <1>6, <1>7, <1>11
  <2>2. CASE q.handler = "update"
    <3>1. outcome = update_student(s, Alice, q.id, q.profile)
      BY <2>2 DEF Outcome
    <3> HIDE DEF outcome, s, q, c
    <3>2. outcome.st \in Storage /\ Follows(s, outcome.st) /\ s.Students[q.id] # NoStudent
      BY <1>3, <1>4, <1>11, <2>1, <3>1, UpdateFollows
    <3>3. Sent(outcome) = <<>>
      BY <1>11, <3>1 DEF Sent, update_student, Ok, Fail
    <3>4. FollowsAt(c)
      BY <1>1, <1>3, <1>6, <1>11, <3>2, CommittedAt DEF FollowsAt, s
    <3> QED
      BY <1>6, <1>8, <1>11, <2>1, <3>2, <3>3, <3>4 DEF q, c, s
  <2>3. CASE q.handler = "delete"
    <3>1. outcome = delete_student(s, Alice, q.id)
      BY <2>3 DEF Outcome
    <3> HIDE DEF outcome, s, q, c
    <3>2. outcome.st \in Storage /\ Follows(s, outcome.st) /\ s.Students[q.id] # NoStudent
      BY <1>3, <1>4, <1>11, <2>1, <3>1, DeleteFollows
    <3>3. Sent(outcome) = <<>>
      BY <1>11, <3>1 DEF Sent, delete_student, Ok, Fail
    <3>4. FollowsAt(c)
      BY <1>1, <1>3, <1>6, <1>11, <3>2, CommittedAt DEF FollowsAt, s
    <3> QED
      BY <1>6, <1>8, <1>11, <2>1, <3>2, <3>3, <3>4 DEF q, c, s
  <2>4. CASE q.handler = "deleteCompany"
    <3> DEFINE first == CHOOSE a \in Accounts : Holders(s, q.id) # {} => a \in Holders(s, q.id)
    <3>1. outcome = delete_any_student(s, Alice, q.id, first)
      BY <2>4 DEF Outcome
    <3>2. first \in Accounts
      <4>1. \E a \in Accounts : Holders(s, q.id) # {} => a \in Holders(s, q.id)
        BY <1>3 DEF Holders
      <4> QED
        BY <4>1
    <3> HIDE DEF outcome, s, q, c, first
    <3>3. outcome.st \in Storage /\ Follows(s, outcome.st) /\ s.Students[q.id] # NoStudent
      BY <1>3, <1>4, <1>11, <2>1, <3>1, <3>2, DeleteAnyFollows
    <3>4. Sent(outcome) = <<>>
      BY <1>11, <3>1 DEF Sent, delete_any_student, Ok, Fail
    <3>5. FollowsAt(c)
      BY <1>1, <1>3, <1>6, <1>11, <3>3, CommittedAt DEF FollowsAt, s
    <3> QED
      BY <1>6, <1>8, <1>11, <2>1, <3>3, <3>4, <3>5 DEF q, c, s
  <2>5. CASE q.handler = "graduate"
    <3>1. outcome = graduate_student(s, Alice, q.id, delivered)
      BY <2>5 DEF Outcome
    <3>2. c = "university"
      BY <2>5, Names
    <3> HIDE DEF outcome, s, q, c
    <3>3. /\ outcome.st \in Storage /\ Follows(s, outcome.st) /\ s.Students[q.id] # NoStudent
          /\ outcome.st.Students[q.id] = NoStudent
          /\ \E m \in Messages : outcome.sent = <<m>>
      BY <1>3, <1>4, <1>11, <2>1, <3>1, GraduateFollows
    <3>4. \E m \in Messages : travelling' = Append(travelling, m)
      BY <1>6, <1>7, <1>11, <3>3 DEF Sent
    <3>5. FollowsAt(c) /\ chain'[c] = outcome.st
      BY <1>1, <1>3, <1>6, <1>11, <3>3, CommittedAt DEF FollowsAt, s
    <3> QED
      BY <1>11, <2>1, <3>2, <3>3, <3>4, <3>5 DEF q, c, s
  <2> QED
    BY <1>4, <1>11, <2>2, <2>3, <2>4, <2>5 DEF Handlers
<1> QED
  BY <1>9, <1>10, <1>11

LEMMA ArriveDoes ==
    ASSUME StateTyped, Arrive
    PROVE  /\ travelling # <<>> /\ travelling' = Tail(travelling) /\ UNCHANGED enrolled
           /\ UNCHANGED chain \/ EnrolsAt("company")
<1> DEFINE m == Head(travelling)
           s == chain["company"]
           outcome == receive_student(s, Sovereign, m.student, m.new_owner)
<1>1. travelling \in Seq(Messages) /\ travelling # <<>>
  BY DEF StateTyped, Arrive
<1>2. m.student \in Students /\ m.new_owner \in Accounts
  <2>1. m \in Messages
    BY <1>1
  <2> HIDE DEF m
  <2> QED
    BY <2>1 DEF Messages
<1>3. s \in Storage /\ Sovereign \in Accounts /\ "company" \in Chains
  BY Names, FrontendAssumption DEF StateTyped
<1>4. chain' = [chain EXCEPT !["company"] = Committed(@, outcome)]
  BY DEF Arrive
<1> HIDE DEF m, s
<1>5. outcome.err = "none" => outcome.st \in Storage /\ Enrolled(s, outcome.st)
  BY <1>2, <1>3, ReceiveEnrols
<1> HIDE DEF outcome
<1>6. UNCHANGED chain \/ EnrolsAt("company")
  BY <1>3, <1>4, <1>5, CommittedAt DEF EnrolsAt, s
<1> QED
  BY <1>1, <1>6 DEF Arrive

LEMMA OthersEnrolDoes ==
    ASSUME StateTyped, NEW c \in Chains, NEW profile \in ValidProfiles,
           NEW owner \in {Alice, Others}, OthersEnrol(c, profile, owner)
    PROVE  EnrolsAt(c) /\ enrolled' = enrolled + 1 /\ UNCHANGED travelling
<1> DEFINE x == [tag |-> enrolled + 1, profile |-> profile, has_graduated |-> FALSE]
           s == chain[c]
           outcome == receive_student(s, Others, x, owner)
<1>1. /\ outcome.err = "none" /\ chain' = [chain EXCEPT ![c] = outcome.st]
      /\ enrolled' = enrolled + 1 /\ UNCHANGED travelling
      /\ enrolled + Cardinality(Asked("create")) < MaxEnrolments
  BY DEF OthersEnrol
<1>2. x \in Students
  <2>1. enrolled \in Nat /\ requests \in Seq(Requested)
    BY DEF StateTyped
  <2>2. Cardinality(Asked("create")) \in Nat
    <3>1. Asked("create") = Places(requests, By("create"))
      BY <2>1 DEF Asked, Places, By
    <3> QED
      BY <2>1, <3>1, PlacesFinite DEF HowMany
  <2>3. enrolled + 1 \in Tags
    BY <1>1, <2>1, <2>2, FrontendAssumption
  <2> QED
    BY <2>3 DEF Students
<1>3. s \in Storage /\ Others \in Accounts /\ owner \in Accounts
  BY FrontendAssumption DEF StateTyped
<1> HIDE DEF x, s
<1>4. outcome.st \in Storage /\ Enrolled(s, outcome.st)
  BY <1>1, <1>2, <1>3, ReceiveEnrols
<1> HIDE DEF outcome
<1>5. chain \in [Chains -> Storage]
  BY DEF StateTyped
<1>6. OnlyAt(c) /\ chain'[c] = outcome.st
  BY <1>1, <1>4, <1>5 DEF OnlyAt
<1> QED
  BY <1>1, <1>4, <1>6 DEF EnrolsAt, s

LEMMA OthersDeleteDoes ==
    ASSUME StateTyped, NEW c \in Chains, NEW id \in Ids, OthersDelete(c, id)
    PROVE  (UNCHANGED chain \/ FollowsAt(c)) /\ UNCHANGED <<enrolled, travelling>>
<1> DEFINE s == chain[c]
<1>1. PICK first \in Holders(s, id) :
         chain' = [chain EXCEPT ![c] = Committed(@, delete_any_student(@, Others, id, first))]
  BY DEF OthersDelete
<1> DEFINE outcome == delete_any_student(s, Others, id, first)
<1>2. chain' = [chain EXCEPT ![c] = Committed(@, outcome)]
  BY <1>1
<1>3. s \in Storage /\ Others \in Accounts /\ first \in Accounts
  BY FrontendAssumption DEF StateTyped, Holders
<1> HIDE DEF s
<1>4. outcome.err = "none" => outcome.st \in Storage /\ Follows(s, outcome.st)
  BY <1>3, DeleteAnyFollows
<1> HIDE DEF outcome
<1>5. UNCHANGED chain \/ FollowsAt(c)
  BY <1>2, <1>4, CommittedAt DEF FollowsAt, s
<1> QED
  BY <1>5 DEF OthersDelete

-----------------------------------------------------------------------------
(* Requests and flags *)

LEMMA RequestsTyped ==
    ASSUME StateTyped
    PROVE  /\ requests \in Seq(Requested) /\ \A r \in DOMAIN requests : requests[r] \in Requested
           /\ loads \in Seq(Loading) /\ \A l \in DOMAIN loads : loads[l] \in Loading
           /\ \A T : HowMany(requests, T) \in Nat /\ HowMany(loads, T) \in Nat
<1>1. requests \in Seq(Requested) /\ loads \in Seq(Loading)
  BY DEF StateTyped
<1>2. \A T : HowMany(requests, T) \in Nat /\ HowMany(loads, T) \in Nat
  BY <1>1, PlacesFinite
<1> QED
  BY <1>1, <1>2

(* The invariant says what FlagsFollowRequests says.                        *)
LEMMA FlagsMean ==
    ASSUME PageInv
    PROVE  FlagsFollowRequests
<1>1. \A handler : Asked(handler) = Places(requests, By(handler))
  BY RequestsTyped DEF PageInv, Asked, Places, By
<1>2. {l \in DOMAIN loads : loads[l].awaitedBy = "graduate"} = Places(loads, Awaited)
  BY RequestsTyped DEF PageInv, Places, Awaited
<1>3. ASSUME NEW handler PROVE InFlight(handler) = Underway(handler)
  <2>1. /\ InFlight(handler) = HowMany(requests, By(handler))
             + (IF handler = "graduate" THEN HowMany(loads, Awaited) ELSE 0)
             + (IF handler \in dropped THEN 1 ELSE 0)
        /\ HowMany(requests, By(handler)) \in Nat /\ HowMany(loads, Awaited) \in Nat
    BY <1>1, <1>2, RequestsTyped DEF PageInv, InFlight, HowMany
  <2> QED
    BY <2>1 DEF Underway, Left
<1>4. /\ InFlight("create") = IF creating THEN 1 ELSE 0
      /\ InFlight("update") = IF updating THEN 1 ELSE 0
      /\ InFlight("graduate") = IF transferring # None THEN 1 ELSE 0
  <2>1. /\ Underway("create") = IF Disabled("create") THEN 1 ELSE 0
        /\ Underway("update") = IF Disabled("update") THEN 1 ELSE 0
        /\ Underway("graduate") = IF Disabled("graduate") THEN 1 ELSE 0
    BY DEF PageInv, FlagsCount, Flagged, Flag
  <2>2. /\ Disabled("create") <=> creating
        /\ Disabled("update") <=> updating
        /\ Disabled("graduate") <=> transferring # None
    BY DEF Disabled
  <2> QED
    BY <1>3, <2>1, <2>2
<1>5. \A r \in Asked("graduate") : requests[r].id = transferring
  BY DEF PageInv, GraduatesOne, Asked
<1> QED
  BY <1>4, <1>5 DEF FlagsFollowRequests

(* A click disables its button and asks for one more transaction.           *)
LEMMA AskKeeps ==
    ASSUME PageInv, NEW handler \in Handlers, NEW id \in Ids \cup {None},
           NEW tag \in Tags \cup {None}, NEW profile \in Profiles,
           handler # "create" => id \in Ids /\ tag \in Tags,
           handler = "create" => enrolled + Cardinality(Asked("create")) < MaxEnrolments,
           Asks(handler, id, tag, profile), FlagsTyped',
           \A h \in Flagged : Disabled(h)' <=> Disabled(h) \/ h = handler,
           handler \in Flagged => ~Disabled(handler),
           transferring' = IF handler = "graduate" THEN id ELSE transferring
    PROVE  PageInv'
<1> DEFINE q == Request(handler, id, tag, profile)
<1>1. StateTyped /\ Budgets /\ FlagsCount /\ GraduatesOne
  BY DEF PageInv
<1>2. /\ requests' = Append(requests, q) /\ clicks < MaxClicks /\ clicks' = clicks + 1
      /\ UNCHANGED <<chainVars, shown, loads, dropped>>
  BY DEF Asks
<1>3. /\ q \in Requested /\ q.handler = handler /\ q.id = id /\ q.phase = "signing"
  <2>1. 0 \in 0 .. MaxClicks - 1
    BY <1>1, <1>2, FrontendAssumption DEF StateTyped
  <2> QED
    BY <2>1 DEF Request, Requested, Pending
<1> HIDE DEF q
<1>4. requests \in Seq(Requested) /\ \A T : HowMany(requests, T) \in Nat
  BY <1>1, RequestsTyped
<1>5. requests' \in Seq(Requested)
  BY <1>2, <1>3, <1>4
<1>6. \A T : HowMany(requests', T) = HowMany(requests, T) + (IF q \in T THEN 1 ELSE 0)
  BY <1>2, <1>3, <1>4, HowManyAppended
<1>7. StateTyped'
  <2>1. clicks' \in 0 .. MaxClicks
    BY <1>1, <1>2, FrontendAssumption DEF StateTyped
  <2> QED
    BY <1>1, <1>2, <1>5, <2>1 DEF StateTyped, chainVars
<1>8. Budgets'
  <2>1. ASSUME NEW c \in Chains
        PROVE  accountNonce'[c] + HowMany(requests', Open(c)) <= clicks'
    <3>1. accountNonce[c] \in Nat /\ clicks \in Nat
      BY <1>1, FrontendAssumption DEF StateTyped
    <3>2. accountNonce[c] + HowMany(requests, Open(c)) <= clicks
      BY <1>1 DEF Budgets
    <3>3. accountNonce' = accountNonce
      BY <1>2 DEF chainVars
    <3> QED
      BY <1>2, <1>4, <1>6, <3>1, <3>2, <3>3
  <2>2. enrolled' + HowMany(requests', Creations) <= MaxEnrolments
    <3>1. enrolled' = enrolled /\ enrolled \in Nat
      BY <1>1, <1>2 DEF chainVars, StateTyped
    <3>2. CASE handler = "create"
      <4>1. HowMany(requests, Creations) <= Cardinality(Asked("create"))
        <5>1. Asked("create") = Places(requests, By("create"))
          BY <1>4 DEF Asked, Places, By
        <5>2. Places(requests, Creations) \in SUBSET Asked("create")
          BY DEF Asked, Places, Creations
        <5>3. IsFiniteSet(Asked("create"))
          BY <1>4, <5>1, PlacesFinite
        <5> QED
          BY <5>2, <5>3, FS_Subset DEF HowMany
      <4>2. Cardinality(Asked("create")) \in Nat
        <5>1. Asked("create") = Places(requests, By("create"))
          BY <1>4 DEF Asked, Places, By
        <5> QED
          BY <1>4, <5>1 DEF HowMany
      <4> QED
        BY <1>4, <1>6, <3>1, <3>2, <4>1, <4>2, FrontendAssumption
    <3>3. CASE handler # "create"
      <4>1. q \notin Creations /\ enrolled + HowMany(requests, Creations) <= MaxEnrolments
        BY <1>1, <1>3, <3>3 DEF Creations, Budgets
      <4> QED
        BY <1>4, <1>6, <3>1, <4>1
    <3> QED
      BY <3>2, <3>3
  <2> QED
    BY <2>1, <2>2 DEF Budgets, Open, Creations
<1>9. FlagsCount'
  <2> SUFFICES ASSUME NEW h \in Flagged
               PROVE  Underway(h)' = Flag(h)'
    BY DEF FlagsCount
  <2>1. Underway(h) = IF Disabled(h) THEN 1 ELSE 0
    BY <1>1 DEF FlagsCount, Flag
  <2>2. q \in By(h) <=> h = handler
    BY <1>3 DEF By
  <2>3. By(h)' = By(h) /\ loads' = loads /\ dropped' = dropped /\ Awaited' = Awaited
    BY <1>2 DEF By, Awaited
  <2>4. HowMany(loads, Awaited) \in Nat
    BY <1>1, RequestsTyped
  <2>5. Underway(h)' = Underway(h) + (IF h = handler THEN 1 ELSE 0)
    BY <1>4, <1>6, <2>2, <2>3, <2>4 DEF Underway, Left
  <2> QED
    BY <2>1, <2>5 DEF Flag
<1>10. GraduatesOne'
  <2> SUFFICES ASSUME NEW r \in DOMAIN requests', requests'[r].handler = "graduate"
               PROVE  requests'[r].id = transferring'
    BY DEF GraduatesOne
  <2>1. CASE r \in DOMAIN requests
    <3>1. requests'[r] = requests[r]
      BY <1>2, <1>3, <1>4, <2>1
    <3>2. requests[r].id = transferring /\ requests[r].handler = "graduate"
      BY <1>1, <2>1, <3>1 DEF GraduatesOne
    <3>3. handler # "graduate"
      <4>1. r \in Places(requests, By("graduate"))
        BY <1>4, <2>1, <3>2 DEF Places, By
      <4>2. HowMany(requests, By("graduate")) # 0
        BY <1>4, <4>1, PlacesFinite, FS_EmptySet DEF HowMany
      <4>3. Underway("graduate") # 0
        BY <1>1, <1>4, <4>2, RequestsTyped DEF Underway, Left
      <4>4. "graduate" \in Flagged /\ Disabled("graduate")
        BY <1>1, <4>3 DEF FlagsCount, Flagged, Flag
      <4> QED
        BY <4>4
    <3> QED
      BY <3>1, <3>2, <3>3
  <2>2. CASE r \notin DOMAIN requests
    <3>1. requests'[r] = q
      BY <1>2, <1>3, <1>4, <2>2
    <3> QED
      BY <1>3, <3>1
  <2> QED
    BY <2>1, <2>2
<1> QED
  BY <1>7, <1>8, <1>9, <1>10 DEF PageInv

(* While a request is open its button is disabled, and nothing else of that *)
(* button is under way.                                                     *)
LEMMA OneAtATime ==
    ASSUME StateTyped, FlagsCount, NEW r \in DOMAIN requests, requests[r].handler \in Flagged
    PROVE  LET h == requests[r].handler
           IN  /\ HowMany(requests, By(h)) = 1 /\ Left(h) = 0 /\ Disabled(h)
               /\ h \notin dropped /\ \A i \in DOMAIN requests \ {r} : requests[i].handler # h
<1> DEFINE h == requests[r].handler
           P == Places(requests, By(h))
<1>1. /\ requests \in Seq(Requested) /\ \A i \in DOMAIN requests : requests[i] \in Requested
      /\ \A T : HowMany(requests, T) \in Nat /\ HowMany(loads, T) \in Nat
  BY RequestsTyped
<1>2. \A i : i \in P <=> i \in DOMAIN requests /\ requests[i].handler = h
  BY <1>1 DEF Places, By
<1>3. IsFiniteSet(P) /\ Cardinality(P) \in Nat /\ HowMany(requests, By(h)) = Cardinality(P)
  BY <1>1, PlacesFinite DEF HowMany
<1>4. Underway(h) = Flag(h) /\ Left(h) \in Nat
  BY <1>1 DEF FlagsCount, Left
<1>5. r \in P
  BY <1>2
<1> HIDE DEF P, h
<1>6. Cardinality(P) # 0
  BY <1>3, <1>5, FS_EmptySet
<1>7. Cardinality(P) = 1 /\ Left(h) = 0 /\ Disabled(h)
  BY <1>3, <1>4, <1>6 DEF Underway, Flag
<1>8. ASSUME NEW i \in P PROVE i = r
  <2>1. \E x : P = {x}
    BY <1>3, <1>7, FS_Singleton
  <2> QED
    BY <1>5, <2>1
<1>9. h \notin dropped
  BY <1>1, <1>7 DEF Left
<1> QED
  BY <1>2, <1>3, <1>7, <1>8, <1>9 DEF h

(* A request that goes on: the counts of the budgets may only fall.         *)
LEMMA MoveKeeps ==
    ASSUME PageInv, NEW r \in DOMAIN requests, NEW x \in Requested,
           x.handler = requests[r].handler, x.id = requests[r].id,
           requests' = [requests EXCEPT ![r] = x],
           UNCHANGED <<shown, flags, loads, clicks, dropped>>,
           chain' \in [Chains -> Storage], travelling' \in Seq(Messages),
           enrolled' \in Nat, accountNonce' \in [Chains -> Nat],
           \A c \in Chains : accountNonce'[c] + (IF x \in Open(c) THEN 1 ELSE 0)
                                <= accountNonce[c] + (IF requests[r] \in Open(c) THEN 1 ELSE 0),
           enrolled' + (IF x \in Creations THEN 1 ELSE 0)
                                <= enrolled + (IF requests[r] \in Creations THEN 1 ELSE 0)
    PROVE  PageInv'
<1>1. StateTyped /\ Budgets /\ FlagsCount /\ GraduatesOne
  BY DEF PageInv
<1>2. requests \in Seq(Requested) /\ \A T : HowMany(requests, T) \in Nat
  BY <1>1, RequestsTyped
<1>3. /\ requests' \in Seq(Requested) /\ DOMAIN requests' = DOMAIN requests
      /\ requests'[r] = x /\ \A i \in DOMAIN requests \ {r} : requests'[i] = requests[i]
  BY <1>2, Replaced
<1>4. \A T : HowMany(requests', T) = HowMany(requests, T)
                - (IF requests[r] \in T THEN 1 ELSE 0) + (IF x \in T THEN 1 ELSE 0)
  <2> TAKE T
  <2>1. HowMany(requests', T) = HowMany(requests, T)
           - (IF requests[r] \in T THEN 1 ELSE 0) + (IF requests'[r] \in T THEN 1 ELSE 0)
    <3> DEFINE t == requests'
    <3>1. requests \in Seq(Requested) /\ r \in DOMAIN requests
          /\ DOMAIN t = DOMAIN requests /\ \A i \in DOMAIN requests \ {r} : t[i] = requests[i]
      BY <1>2, <1>3
    <3> HIDE DEF t
    <3>2. HowMany(t, T) = HowMany(requests, T)
             - (IF requests[r] \in T THEN 1 ELSE 0) + (IF t[r] \in T THEN 1 ELSE 0)
      BY ONLY <3>1, HowManyReplaced
    <3> QED
      BY <3>2 DEF t
  <2> QED
    BY <1>3, <2>1
<1>5. StateTyped'
  BY <1>1, <1>3 DEF StateTyped, FlagsTyped, flags
<1>6. Budgets'
  <2>1. ASSUME NEW c \in Chains
        PROVE  accountNonce'[c] + HowMany(requests', Open(c)) <= clicks'
    <3>1. /\ accountNonce[c] \in Nat /\ accountNonce'[c] \in Nat /\ clicks \in Nat
          /\ accountNonce[c] + HowMany(requests, Open(c)) <= clicks
      BY <1>1, FrontendAssumption DEF StateTyped, Budgets
    <3>2. HowMany(requests, Open(c)) \in Nat
      BY <1>2
    <3>3. HowMany(requests', Open(c)) = HowMany(requests, Open(c))
             - (IF requests[r] \in Open(c) THEN 1 ELSE 0) + (IF x \in Open(c) THEN 1 ELSE 0)
      BY <1>4
    <3>4. accountNonce'[c] + (IF x \in Open(c) THEN 1 ELSE 0)
             <= accountNonce[c] + (IF requests[r] \in Open(c) THEN 1 ELSE 0)
      OBVIOUS
    <3>5. clicks' = clicks
      OBVIOUS
    <3> QED
      BY <3>1, <3>2, <3>3, <3>4, <3>5
  <2>2. enrolled' + HowMany(requests', Creations) <= MaxEnrolments
    <3>1. enrolled \in Nat /\ enrolled + HowMany(requests, Creations) <= MaxEnrolments
      BY <1>1 DEF StateTyped, Budgets
    <3>2. HowMany(requests, Creations) \in Nat
      BY <1>2
    <3>3. HowMany(requests', Creations) = HowMany(requests, Creations)
             - (IF requests[r] \in Creations THEN 1 ELSE 0) + (IF x \in Creations THEN 1 ELSE 0)
      BY <1>4
    <3> QED
      BY <3>1, <3>2, <3>3, FrontendAssumption
  <2> QED
    BY <2>1, <2>2 DEF Budgets, Open, Creations
<1>7. FlagsCount'
  <2> SUFFICES ASSUME NEW h \in Flagged PROVE Underway(h)' = Flag(h)'
    BY DEF FlagsCount
  <2>1. Underway(h) = Flag(h) /\ Flag(h)' = Flag(h) /\ Left(h)' = Left(h)
    BY <1>1 DEF FlagsCount, Flag, Disabled, Left, Awaited, flags
  <2>2. x \in By(h) <=> requests[r] \in By(h)
    BY <1>1, RequestsTyped DEF By
  <2>3. HowMany(requests', By(h)) = HowMany(requests, By(h))
    <3>1. HowMany(requests', By(h)) = HowMany(requests, By(h))
             - (IF requests[r] \in By(h) THEN 1 ELSE 0) + (IF x \in By(h) THEN 1 ELSE 0)
      BY <1>4
    <3>2. HowMany(requests, By(h)) \in Nat
      BY <1>2
    <3> QED
      BY <2>2, <3>1, <3>2
  <2> QED
    BY <2>1, <2>3 DEF Underway, By
<1>8. GraduatesOne'
  BY <1>1, <1>3 DEF GraduatesOne, flags
<1> QED
  BY <1>5, <1>6, <1>7, <1>8 DEF PageInv

(* What is under way and the flag, when a request ends.                     *)
LEMMA FlagSettles ==
    \A q, p, l, m, f, g \in Int : \A one \in {0, 1} :
        q + l = f /\ p = q - one /\ m + f = l + g + one => p + m = g
  OBVIOUS

(* A request that is over: its button is enabled again, or something is     *)
(* left of it.                                                              *)
LEMMA SettleKeeps ==
    ASSUME PageInv, NEW r \in DOMAIN requests, requests' = RemoveAt(requests, r),
           UNCHANGED <<chainVars, shown, clicks>>,
           FlagsTyped', loads' \in Seq(Loading), dropped' \subseteq Handlers,
           transferring' = transferring \/ requests[r].handler = "graduate",
           \A h \in Flagged : Left(h)' + Flag(h)
                 = Left(h) + Flag(h)' + (IF requests[r].handler = h THEN 1 ELSE 0)
    PROVE  PageInv'
<1>1. StateTyped /\ Budgets /\ FlagsCount /\ GraduatesOne
  BY DEF PageInv
<1>2. /\ requests \in Seq(Requested) /\ loads \in Seq(Loading) /\ requests[r] \in Requested
      /\ \A T : HowMany(requests, T) \in Nat /\ HowMany(loads, T) \in Nat
  BY <1>1, RequestsTyped
<1>3. /\ requests' \in Seq(Requested) /\ Len(requests') = Len(requests) - 1
      /\ \A i \in DOMAIN requests' :
            requests'[i] = IF i < r THEN requests[i] ELSE requests[i + 1]
  BY <1>2, Removed
<1>4. \A T : HowMany(requests', T) = HowMany(requests, T) - (IF requests[r] \in T THEN 1 ELSE 0)
  BY <1>2, HowManyRemoved
<1>5. StateTyped'
  BY <1>1, <1>3 DEF StateTyped, chainVars
<1>6. Budgets'
  <2>1. ASSUME NEW c \in Chains
        PROVE  accountNonce'[c] + HowMany(requests', Open(c)) <= clicks'
    <3>1. /\ accountNonce[c] \in Nat /\ accountNonce' = accountNonce /\ clicks \in Nat
          /\ accountNonce[c] + HowMany(requests, Open(c)) <= clicks /\ clicks' = clicks
      BY <1>1, FrontendAssumption DEF StateTyped, Budgets, chainVars
    <3>2. HowMany(requests, Open(c)) \in Nat
      BY <1>2
    <3>3. HowMany(requests', Open(c)) = HowMany(requests, Open(c))
             - (IF requests[r] \in Open(c) THEN 1 ELSE 0)
      BY <1>4
    <3> QED
      BY <3>1, <3>2, <3>3
  <2>2. enrolled' + HowMany(requests', Creations) <= MaxEnrolments
    <3>1. enrolled' = enrolled /\ enrolled \in Nat
          /\ enrolled + HowMany(requests, Creations) <= MaxEnrolments
      BY <1>1 DEF StateTyped, Budgets, chainVars
    <3>2. HowMany(requests, Creations) \in Nat
      BY <1>2
    <3>3. HowMany(requests', Creations) = HowMany(requests, Creations)
             - (IF requests[r] \in Creations THEN 1 ELSE 0)
      BY <1>4
    <3> QED
      BY <3>1, <3>2, <3>3, FrontendAssumption
  <2> QED
    BY <2>1, <2>2 DEF Budgets, Open, Creations
<1>7. FlagsCount'
  <2> SUFFICES ASSUME NEW h \in Flagged PROVE Underway(h)' = Flag(h)'
    BY DEF FlagsCount
  <2>1. Underway(h) = Flag(h)
    BY <1>1 DEF FlagsCount
  <2>2. requests[r] \in By(h) <=> requests[r].handler = h
    BY <1>2 DEF By
  <2>3. Left(h) \in Nat /\ Flag(h) \in Nat
    BY <1>2 DEF Left, Flag
  <2>4. Left(h)' \in Nat /\ Flag(h)' \in Nat
    <3>1. HowMany(loads', Awaited) \in Nat
      BY PlacesFinite
    <3> QED
      BY <3>1 DEF Left, Flag, Awaited
  <2>5. Underway(h)' = HowMany(requests', By(h)) + Left(h)'
    BY DEF Underway, By
  <2>6. Underway(h) = HowMany(requests, By(h)) + Left(h) /\ HowMany(requests, By(h)) \in Nat
    BY <1>2 DEF Underway
  <2> DEFINE one == IF requests[r].handler = h THEN 1 ELSE 0
  <2>7. HowMany(requests', By(h)) = HowMany(requests, By(h)) - one
    BY <1>4, <2>2
  <2>8. Left(h)' + Flag(h) = Left(h) + Flag(h)' + one
    OBVIOUS
  <2>9. one \in {0, 1}
    OBVIOUS
  <2> HIDE DEF one
  <2>10. HowMany(requests', By(h)) \in Int
    BY <2>6, <2>7, <2>9
  <2>11. HowMany(requests', By(h)) + Left(h)' = Flag(h)'
    BY <2>1, <2>3, <2>4, <2>6, <2>7, <2>8, <2>9, <2>10, FlagSettles
  <2> QED
    BY <2>5, <2>11
<1>8. GraduatesOne'
  <2> SUFFICES ASSUME NEW i \in DOMAIN requests', requests'[i].handler = "graduate"
               PROVE  requests'[i].id = transferring'
    BY DEF GraduatesOne
  <2>1. PICK j \in DOMAIN requests \ {r} : requests'[i] = requests[j]
    <3>1. IF i < r THEN i \in DOMAIN requests \ {r} ELSE i + 1 \in DOMAIN requests \ {r}
      BY <1>2, <1>3
    <3> QED
      BY <1>3, <3>1
  <2>2. requests[j].id = transferring
    BY <1>1, <2>1 DEF GraduatesOne
  <2>3. requests[r].handler # "graduate"
    <3>1. "graduate" \in Flagged
      BY DEF Flagged
    <3> QED
      BY <1>1, <2>1, <3>1, OneAtATime
  <2> QED
    BY <2>1, <2>2, <2>3
<1> QED
  BY <1>5, <1>6, <1>7, <1>8 DEF PageInv

(* A step that touches no request.                                          *)
LEMMA RestKeeps ==
    ASSUME PageInv, UNCHANGED <<requests, clicks, dropped>>, StateTyped', Budgets',
           UNCHANGED <<creating, updating>>,
           transferring' = transferring
               \/ \A r \in DOMAIN requests : requests[r].handler # "graduate",
           HowMany(loads, Awaited)' + Flag("graduate") = HowMany(loads, Awaited) + Flag("graduate")'
    PROVE  PageInv'
<1>1. StateTyped /\ FlagsCount /\ GraduatesOne
  BY DEF PageInv
<1>2. /\ requests \in Seq(Requested)
      /\ \A T : HowMany(requests, T) \in Nat /\ HowMany(loads, T) \in Nat
  BY <1>1, RequestsTyped
<1>3. HowMany(loads, Awaited)' \in Nat
  <2>1. loads' \in Seq(Loading)
    BY DEF StateTyped, Loading, Rows
  <2>2. HowMany(loads', Awaited) \in Nat
    BY <2>1, PlacesFinite
  <2> QED
    BY <2>2 DEF Awaited
<1>4. FlagsCount'
  <2> SUFFICES ASSUME NEW h \in Flagged PROVE Underway(h)' = Flag(h)'
    BY DEF FlagsCount
  <2>1. Underway(h) = Flag(h)
    BY <1>1 DEF FlagsCount
  <2>2. HowMany(requests, By(h))' = HowMany(requests, By(h))
    BY DEF By
  <2>3. CASE h = "graduate"
    <3>1. Flag(h) \in Nat /\ Flag(h)' \in Nat
      BY DEF Flag
    <3>2. HowMany(loads, Awaited)' + Flag(h) = HowMany(loads, Awaited) + Flag(h)'
      BY <2>3
    <3>3. /\ Left(h) = HowMany(loads, Awaited) + (IF h \in dropped THEN 1 ELSE 0)
          /\ Left(h)' = HowMany(loads, Awaited)' + (IF h \in dropped THEN 1 ELSE 0)
      BY <2>3 DEF Left
    <3>4. /\ Underway(h) = HowMany(requests, By(h)) + Left(h)
          /\ Underway(h)' = HowMany(requests, By(h)) + Left(h)'
      BY <2>2 DEF Underway
    <3>5. HowMany(requests, By(h)) \in Nat /\ HowMany(loads, Awaited) \in Nat
      BY <1>2
    <3> QED
      BY <1>3, <2>1, <3>1, <3>2, <3>3, <3>4, <3>5
  <2>4. CASE h # "graduate"
    <3>1. Flag(h)' = Flag(h) /\ Left(h)' = Left(h)
      BY <2>4 DEF Flag, Disabled, Left
    <3> QED
      BY <2>1, <2>2, <3>1 DEF Underway
  <2> QED
    BY <2>3, <2>4
<1>5. GraduatesOne'
  BY <1>1 DEF GraduatesOne
<1> QED
  BY <1>4, <1>5 DEF PageInv

(* Below k taken numbers, one of the first k numbers from a on is free.     *)
LEMMA FirstFree ==
    ASSUME NEW a \in Nat, NEW b \in Nat, NEW k \in Nat, k <= b,
           NEW P, IsFiniteSet(P), Cardinality(P) < k
    PROVE  /\ \E n \in a .. a + b : n \notin P /\ \A m \in a .. n - 1 : m \in P
           /\ \A n \in a .. a + b :
                 n \notin P /\ (\A m \in a .. n - 1 : m \in P) => n \in a .. a + k - 1
<1> DEFINE Free == {n \in a .. a + k - 1 : n \notin P}
           IsFirst(n) == n \notin P /\ \A m \in a .. n - 1 : m \in P
<1>1. Free # {}
  <2> SUFFICES ASSUME Free = {} PROVE FALSE
    OBVIOUS
  <2>1. a .. a + k - 1 \in SUBSET P
    OBVIOUS
  <2> DEFINE e == a + k - 1
  <2>2. a \in Int /\ e \in Int /\ Cardinality(P) \in Nat
    BY FS_CardinalityType
  <2>3. Cardinality(a .. a + k - 1) = IF a > e THEN 0 ELSE e - a + 1
    <3> HIDE DEF e
    <3>1. Cardinality(a .. e) = IF a > e THEN 0 ELSE e - a + 1
      BY <2>2, FS_Interval, Zenon
    <3> QED
      BY <3>1 DEF e
  <2>4. Cardinality(a .. a + k - 1) <= Cardinality(P)
    BY <2>1, FS_Subset
  <2> QED
    BY <2>2, <2>3, <2>4
<1>2. Free \in SUBSET Nat
  OBVIOUS
<1>3. PICK n \in Free : \A m \in Free : n <= m
  <2> HIDE DEF Free
  <2> QED
    BY <1>1, <1>2, LeastOf
<1>4. n \in a .. a + k - 1 /\ n \in a .. a + b /\ n \notin P
  BY <1>3
<1>5. IsFirst(n)
  <2>1. ASSUME NEW m \in a .. n - 1 PROVE m \in P
    <3>1. m \in a .. a + k - 1 /\ ~(n <= m)
      BY <1>4
    <3> QED
      BY <1>3, <3>1
  <2> QED
    BY <1>4, <2>1
<1>6. ASSUME NEW first \in a .. a + b, IsFirst(first) PROVE first \in a .. a + k - 1
  <2>1. ~(n \in a .. first - 1)
    BY <1>4, <1>6
  <2> QED
    BY <1>4, <2>1
<1> QED
  BY <1>4, <1>5, <1>6

(* The nonce of a request that is being signed stays below the bound.       *)
LEMMA NextIndexTyped ==
    ASSUME StateTyped, Budgets, NEW r \in DOMAIN requests, requests[r].phase = "signing"
    PROVE  NextIndex(ChainOf(requests[r].handler)) \in 0 .. MaxClicks - 1
<1> DEFINE c  == ChainOf(requests[r].handler)
           a  == accountNonce[c]
           O  == Places(requests, Open(c))
           k  == Cardinality(O)
           PP == {i \in OnChain(c) : requests[i].phase = "pooled"}
           P  == Pooled(c)
           f  == [i \in PP |-> requests[i].nonce]
<1>1. /\ requests \in Seq(Requested) /\ \A i \in DOMAIN requests : requests[i] \in Requested
      /\ c \in Chains
  BY RequestsTyped, Names
<1>2. IsFiniteSet(O) /\ k \in Nat /\ k = HowMany(requests, Open(c))
  BY <1>1, PlacesFinite DEF HowMany
<1>3. a \in Nat /\ clicks \in 0 .. MaxClicks /\ a + k <= clicks
  BY <1>1, <1>2 DEF StateTyped, Budgets
<1>4. r \in O
  BY <1>1 DEF Places, Open, Pending
<1>5. PP \in SUBSET (O \ {r})
  BY <1>1 DEF Places, Open, Pending, OnChain
<1> HIDE DEF O
<1>6. IsFiniteSet(O \ {r}) /\ Cardinality(O \ {r}) = k - 1
  BY <1>2, <1>4, FS_RemoveElement
<1>7. IsFiniteSet(PP) /\ Cardinality(PP) <= k - 1
  <2> HIDE DEF PP
  <2> QED
    BY <1>5, <1>6, FS_Subset
<1>8. f \in Surjection(PP, P)
  <2>1. P = {requests[i].nonce : i \in PP}
    BY DEF Pooled
  <2> HIDE DEF PP, P
  <2>2. f \in [PP -> P] /\ \A n \in P : \E i \in PP : f[i] = n
    BY <2>1
  <2> QED
    BY <2>2 DEF Surjection
<1>9. IsFiniteSet(P) /\ Cardinality(P) <= Cardinality(PP) /\ Cardinality(P) \in Nat
  <2> HIDE DEF f, PP, P
  <2> QED
    BY <1>7, <1>8, FS_Surjection, FS_CardinalityType
<1>10. Cardinality(PP) \in Nat
  <2> HIDE DEF PP
  <2> QED
    BY <1>7, FS_CardinalityType
<1>11. NextIndex(c) = CHOOSE n \in a .. a + MaxClicks :
                         n \notin P /\ \A m \in a .. n - 1 : m \in P
  BY DEF NextIndex
<1> HIDE DEF a, P, PP, k
<1>12. MaxClicks \in Nat /\ k <= MaxClicks /\ Cardinality(P) < k
  BY <1>2, <1>3, <1>7, <1>9, <1>10, FrontendAssumption
<1>13. NextIndex(c) \in a .. a + k - 1
  <2> DEFINE IsFirst(n) == n \notin P /\ \A m \in a .. n - 1 : m \in P
  <2>1. /\ \E n \in a .. a + MaxClicks : IsFirst(n)
        /\ \A n \in a .. a + MaxClicks : IsFirst(n) => n \in a .. a + k - 1
    <3>1. a \in Nat /\ MaxClicks \in Nat /\ k \in Nat /\ k <= MaxClicks
          /\ IsFiniteSet(P) /\ Cardinality(P) < k
      BY <1>2, <1>3, <1>9, <1>12
    <3> QED
      BY ONLY <3>1, FirstFree
  <2>2. NextIndex(c) = CHOOSE n \in a .. a + MaxClicks : IsFirst(n)
    BY <1>11
  <2> HIDE DEF IsFirst
  <2> QED
    BY <2>1, <2>2
<1>14. NextIndex(c) \in 0 .. MaxClicks - 1
  BY <1>2, <1>3, <1>12, <1>13
<1> QED
  BY <1>14 DEF c

-----------------------------------------------------------------------------
(* The life of a transaction keeps the invariant *)

LEMMA SignKeeps ==
    ASSUME PageInv, NEW r \in DOMAIN requests, Sign(r)
    PROVE  PageInv'
<1> DEFINE q == requests[r]
           n == NextIndex(ChainOf(q.handler))
           x == [q EXCEPT !.phase = "signed", !.nonce = n]
<1>1. StateTyped /\ Budgets
  BY DEF PageInv
<1>2. q \in Requested /\ requests \in Seq(Requested) /\ q.phase = "signing"
  BY <1>1, RequestsTyped DEF Sign
<1>3. n \in 0 .. MaxClicks - 1
  BY <1>1, <1>2, NextIndexTyped
<1>4. requests' = [requests EXCEPT ![r] = x]
  BY <1>2 DEF Sign
<1> HIDE DEF n
<1>5. x \in Requested /\ x.handler = q.handler /\ x.id = q.id /\ x.phase = "signed"
  BY <1>2, <1>3 DEF Requested, Pending
<1> HIDE DEF x
<1>6. /\ \A c \in Chains : x \in Open(c) => q \in Open(c)
      /\ x \in Creations => q \in Creations
  BY <1>2, <1>5 DEF Open, Creations, Pending
<1>7. UNCHANGED <<chainVars, shown, flags, loads, clicks, dropped>>
  BY DEF Sign
<1>8. /\ chain' \in [Chains -> Storage] /\ travelling' \in Seq(Messages)
      /\ enrolled' \in Nat /\ accountNonce' \in [Chains -> Nat]
  BY <1>1, <1>7 DEF StateTyped, chainVars
<1>9. \A c \in Chains : accountNonce'[c] + (IF x \in Open(c) THEN 1 ELSE 0)
                           <= accountNonce[c] + (IF q \in Open(c) THEN 1 ELSE 0)
  BY <1>6, <1>7, <1>8 DEF chainVars
<1>10. enrolled' + (IF x \in Creations THEN 1 ELSE 0)
          <= enrolled + (IF q \in Creations THEN 1 ELSE 0)
  BY <1>6, <1>7, <1>8 DEF chainVars
<1> QED
  BY <1>4, <1>5, <1>7, <1>8, <1>9, <1>10, MoveKeeps

LEMMA ResetsMean ==
    ASSUME FlagsTyped, NEW handler, Resets(handler),
           editingStudent' \in {editingStudent, None}
    PROVE  /\ FlagsTyped'
           /\ transferring' = transferring \/ handler = "graduate"
           /\ \A h \in Flagged : Disabled(h)' <=> Disabled(h) /\ h # handler
  BY DEF FlagsTyped, Resets, Flagged, Disabled

(* The tab deals with the end of a transaction: nothing is left of it.      *)
LEMMA ResetKeeps ==
    ASSUME PageInv, NEW r \in DOMAIN requests, requests' = RemoveAt(requests, r),
           Resets(requests[r].handler), editingStudent' \in {editingStudent, None},
           loads' \in Seq(Loading), HowMany(loads', Awaited) = HowMany(loads, Awaited),
           UNCHANGED <<chainVars, shown, clicks, dropped>>
    PROVE  PageInv'
<1> DEFINE handler == requests[r].handler
<1>1. StateTyped /\ FlagsCount
  BY DEF PageInv
<1>2. /\ FlagsTyped' /\ (transferring' = transferring \/ handler = "graduate")
      /\ \A h \in Flagged : Disabled(h)' <=> Disabled(h) /\ h # handler
  BY <1>1, ResetsMean DEF StateTyped
<1>3. dropped' \subseteq Handlers
  BY <1>1 DEF StateTyped
<1>4. ASSUME NEW h \in Flagged
      PROVE  Left(h)' + Flag(h) = Left(h) + Flag(h)' + (IF handler = h THEN 1 ELSE 0)
  <2>1. Left(h)' = Left(h)
    BY DEF Left, Awaited
  <2>2. Left(h) \in Nat
    BY <1>1, RequestsTyped DEF Left
  <2>3. handler = h => Disabled(h)
    BY <1>1, OneAtATime
  <2>4. Disabled(h)' <=> Disabled(h) /\ h # handler
    BY <1>2
  <2>5. Flag(h) = Flag(h)' + (IF handler = h THEN 1 ELSE 0) /\ Flag(h)' \in Nat
    BY <2>3, <2>4 DEF Flag
  <2> QED
    BY <2>1, <2>2, <2>5
<1> QED
  BY <1>2, <1>3, <1>4, SettleKeeps

LEMMA CaughtKeeps ==
    ASSUME PageInv, NEW r \in DOMAIN requests, Caught(r),
           UNCHANGED <<chainVars, pageVars, shown, loads, clicks, dropped>>
    PROVE  PageInv'
<1>1. loads' \in Seq(Loading) /\ HowMany(loads', Awaited) = HowMany(loads, Awaited)
  BY DEF PageInv, StateTyped
<1> QED
  BY <1>1, ResetKeeps DEF Caught

LEMMA SubmitKeeps ==
    ASSUME PageInv, NEW r \in DOMAIN requests, Submit(r)
    PROVE  PageInv'
<1> DEFINE q == requests[r]
           x == [q EXCEPT !.phase = "pooled"]
<1>1. StateTyped
  BY DEF PageInv
<1>2. q \in Requested /\ requests \in Seq(Requested) /\ q.phase = "signed"
  BY <1>1, RequestsTyped DEF Submit
<1>3. CASE Accepts(r)
  <2>1. requests' = [requests EXCEPT ![r] = x]
    BY <1>2, <1>3 DEF Submit
  <2>2. x \in Requested /\ x.handler = q.handler /\ x.id = q.id /\ x.phase = "pooled"
    BY <1>2 DEF Requested, Pending
  <2> HIDE DEF x
  <2>3. /\ \A c \in Chains : x \in Open(c) => q \in Open(c)
        /\ x \in Creations => q \in Creations
    BY <1>2, <2>2 DEF Open, Creations, Pending
  <2>4. UNCHANGED <<chainVars, shown, flags, loads, clicks, dropped>>
    BY <1>3 DEF Submit
  <2>5. /\ chain' \in [Chains -> Storage] /\ travelling' \in Seq(Messages)
        /\ enrolled' \in Nat /\ accountNonce' \in [Chains -> Nat]
    BY <1>1, <2>4 DEF StateTyped, chainVars
  <2>6. \A c \in Chains : accountNonce'[c] + (IF x \in Open(c) THEN 1 ELSE 0)
                             <= accountNonce[c] + (IF q \in Open(c) THEN 1 ELSE 0)
    BY <2>3, <2>4, <2>5 DEF chainVars
  <2>7. enrolled' + (IF x \in Creations THEN 1 ELSE 0)
           <= enrolled + (IF q \in Creations THEN 1 ELSE 0)
    BY <2>3, <2>4, <2>5 DEF chainVars
  <2> QED
    BY <2>1, <2>2, <2>4, <2>5, <2>6, <2>7, MoveKeeps
<1>4. CASE ~Accepts(r)
  BY <1>4, CaughtKeeps DEF Submit
<1> QED
  BY <1>3, <1>4

(* In a block, a transaction uses up its nonce and its creation.            *)
LEMMA IncludeKeeps ==
    ASSUME PageInv, NEW r \in DOMAIN requests, Include(r)
    PROVE  PageInv'
<1> DEFINE q == requests[r]
           c == ChainOf(q.handler)
           x == [q EXCEPT !.phase = "inBlock"]
<1>1. StateTyped
  BY DEF PageInv
<1>2. q \in Requested /\ requests \in Seq(Requested) /\ q.phase = "pooled" /\ c \in Chains
  BY <1>1, RequestsTyped, Names DEF Include
<1>3. requests' = [requests EXCEPT ![r] = x]
  BY <1>2 DEF Include
<1>4. x \in Requested /\ x.handler = q.handler /\ x.id = q.id /\ x.phase = "inBlock"
  BY <1>2 DEF Requested, Pending
<1> HIDE DEF x
<1>5. /\ q \in Open(c) /\ \A d : x \notin Open(d)
      /\ x \notin Creations /\ (q.handler = "create" => q \in Creations)
  BY <1>2, <1>4 DEF Open, Creations, Pending
<1>6. /\ accountNonce' = [accountNonce EXCEPT ![c] = @ + 1]
      /\ UNCHANGED <<shown, flags, loads, clicks, dropped>>
  BY DEF Include
<1>7. accountNonce \in [Chains -> Nat] /\ accountNonce' \in [Chains -> Nat]
  <2>1. accountNonce \in [Chains -> Nat]
    BY <1>1 DEF StateTyped
  <2> HIDE DEF c
  <2> QED
    BY <1>2, <1>6, <2>1
<1>8. \A d \in Chains : accountNonce'[d] + (IF x \in Open(d) THEN 1 ELSE 0)
                           <= accountNonce[d] + (IF q \in Open(d) THEN 1 ELSE 0)
  <2> TAKE d \in Chains
  <2>1. accountNonce[d] \in Nat /\ accountNonce[c] \in Nat
    BY <1>2, <1>7
  <2>2. CASE d = c
    <3>1. accountNonce'[d] = accountNonce[d] + 1
      BY <1>2, <1>6, <1>7, <2>2
    <3> QED
      BY <1>5, <2>1, <2>2, <3>1
  <2>3. CASE d # c
    <3>1. accountNonce'[d] = accountNonce[d]
      BY <1>6, <1>7, <2>3
    <3> QED
      BY <1>5, <2>1, <3>1
  <2> QED
    BY <2>2, <2>3
<1>9. /\ chain \in [Chains -> Storage] /\ travelling \in Seq(Messages) /\ enrolled \in Nat
  BY <1>1 DEF StateTyped
<1>10. /\ chain' \in [Chains -> Storage] /\ travelling' \in Seq(Messages) /\ enrolled' \in Nat
       /\ enrolled' <= enrolled + (IF q.handler = "create" THEN 1 ELSE 0)
  <2>1. CASE UNCHANGED <<chain, travelling, enrolled>>
    BY <1>9, <2>1
  <2>2. CASE /\ q.handler = "create" /\ EnrolsAt(c)
             /\ enrolled' = enrolled + 1 /\ UNCHANGED travelling
    BY <1>9, <2>2 DEF EnrolsAt, OnlyAt
  <2>3. CASE /\ q.handler # "create" /\ FollowsAt(c) /\ UNCHANGED enrolled
             /\ UNCHANGED travelling \/ \E m \in Messages : travelling' = Append(travelling, m)
    <3>1. travelling' \in Seq(Messages)
      BY <1>9, <2>3
    <3> QED
      BY <1>9, <2>3, <3>1 DEF FollowsAt, OnlyAt
  <2> QED
    BY <2>1, <2>2, <2>3, IncludeDoes
<1>11. enrolled' + (IF x \in Creations THEN 1 ELSE 0)
          <= enrolled + (IF q \in Creations THEN 1 ELSE 0)
  <2>1. x \notin Creations /\ (q.handler = "create" => q \in Creations)
    BY <1>5
  <2> QED
    BY <1>9, <1>10, <2>1
<1> QED
  BY <1>3, <1>4, <1>6, <1>7, <1>8, <1>10, <1>11, MoveKeeps

LEMMA NewLoadTyped ==
    ASSUME NEW who \in {"mount", "nobody", "graduate"}
    PROVE  NewLoad(who) \in Loading /\ (NewLoad(who) \in Awaited <=> who = "graduate")
<1>1. 0 \in Ids
  BY BoundsAssumption DEF Ids
<1> QED
  BY <1>1 DEF NewLoad, Loading, Awaited, Chains, Rows

LEMMA LoadAdded ==
    ASSUME StateTyped, NEW who \in {"mount", "nobody", "graduate"},
           loads' = Append(loads, NewLoad(who))
    PROVE  /\ loads' \in Seq(Loading)
           /\ HowMany(loads', Awaited)
                 = HowMany(loads, Awaited) + (IF who = "graduate" THEN 1 ELSE 0)
           /\ HowMany(loads, Awaited) \in Nat
<1> DEFINE x == NewLoad(who)
<1>1. loads \in Seq(Loading) /\ HowMany(loads, Awaited) \in Nat
  BY RequestsTyped
<1>2. x \in Loading /\ (x \in Awaited <=> who = "graduate")
  BY NewLoadTyped
<1>3. loads' = Append(loads, x)
  OBVIOUS
<1> HIDE DEF x
<1>4. HowMany(Append(loads, x), Awaited)
         = HowMany(loads, Awaited) + (IF x \in Awaited THEN 1 ELSE 0)
  BY <1>1, <1>2, HowManyAppended
<1>5. Append(loads, x) \in Seq(Loading)
  BY <1>1, <1>2
<1> QED
  BY <1>1, <1>2, <1>3, <1>4, <1>5

LEMMA FinalizeKeeps ==
    ASSUME PageInv, NEW r \in DOMAIN requests, Finalize(r)
    PROVE  PageInv'
<1> DEFINE q == requests[r]
<1>1. StateTyped
  BY DEF PageInv
<1>2. q \in Requested /\ requests \in Seq(Requested) /\ q.phase = "inBlock"
  BY <1>1, RequestsTyped DEF Finalize
<1>3. CASE q.handler = "graduate"
  <2> DEFINE x == [q EXCEPT !.phase = "waiting"]
  <2>1. requests' = [requests EXCEPT ![r] = x]
    BY <1>2, <1>3 DEF Finalize
  <2>2. x \in Requested /\ x.handler = q.handler /\ x.id = q.id /\ x.phase = "waiting"
    BY <1>2, <1>3 DEF Requested
  <2> HIDE DEF x
  <2>3. x \notin Creations /\ \A d : x \notin Open(d)
    BY <2>2 DEF Open, Creations, Pending
  <2>4. UNCHANGED <<chainVars, shown, flags, loads, clicks, dropped>>
    BY <1>3 DEF Finalize
  <2>5. /\ chain' \in [Chains -> Storage] /\ travelling' \in Seq(Messages)
        /\ enrolled' \in Nat /\ accountNonce' \in [Chains -> Nat]
    BY <1>1, <2>4 DEF StateTyped, chainVars
  <2>6. \A d \in Chains : accountNonce'[d] + (IF x \in Open(d) THEN 1 ELSE 0)
                             <= accountNonce[d] + (IF q \in Open(d) THEN 1 ELSE 0)
    BY <2>3, <2>4, <2>5 DEF chainVars
  <2>7. enrolled' + (IF x \in Creations THEN 1 ELSE 0)
           <= enrolled + (IF q \in Creations THEN 1 ELSE 0)
    BY <2>3, <2>4, <2>5 DEF chainVars
  <2> QED
    BY <2>1, <2>2, <2>4, <2>5, <2>6, <2>7, MoveKeeps
<1>4. CASE q.handler # "graduate"
  <2>1. /\ requests' = RemoveAt(requests, r) /\ loads' = Append(loads, NewLoad("nobody"))
        /\ Resets(q.handler) /\ editingStudent' \in {editingStudent, None}
        /\ UNCHANGED <<chainVars, shown, clicks, dropped>>
    BY <1>4 DEF Finalize
  <2>2. loads' \in Seq(Loading) /\ HowMany(loads', Awaited) = HowMany(loads, Awaited)
    BY <1>1, <2>1, LoadAdded
  <2> QED
    BY <2>1, <2>2, ResetKeeps
<1> QED
  BY <1>3, <1>4

(* The load that the graduation awaits takes the place of the request.      *)
LEMMA WaitOverKeeps ==
    ASSUME PageInv, NEW r \in DOMAIN requests, WaitOver(r)
    PROVE  PageInv'
<1>1. StateTyped
  BY DEF PageInv
<1>2. /\ requests' = RemoveAt(requests, r) /\ loads' = Append(loads, NewLoad("graduate"))
      /\ UNCHANGED <<chainVars, shown, flags, clicks, dropped>>
  BY DEF WaitOver
<1>3. /\ loads' \in Seq(Loading) /\ HowMany(loads, Awaited) \in Nat
      /\ HowMany(loads', Awaited) = HowMany(loads, Awaited) + 1
  BY <1>1, <1>2, LoadAdded
<1>4. FlagsTyped' /\ dropped' \subseteq Handlers /\ transferring' = transferring
  BY <1>1, <1>2 DEF StateTyped, FlagsTyped, flags
<1>5. requests[r].handler = "graduate"
  BY <1>1, RequestsTyped DEF WaitOver, Requested
<1>6. ASSUME NEW h \in Flagged
      PROVE  Left(h)' + Flag(h) = Left(h) + Flag(h)' + (IF requests[r].handler = h THEN 1 ELSE 0)
  <2>1. Flag(h)' = Flag(h) /\ Flag(h) \in Nat
    BY <1>2 DEF Flag, Disabled, flags
  <2>2. Left(h)' = Left(h) + (IF h = "graduate" THEN 1 ELSE 0) /\ Left(h) \in Nat
    <3>1. Left(h)' = (IF h = "graduate" THEN HowMany(loads', Awaited) ELSE 0)
                        + (IF h \in dropped THEN 1 ELSE 0)
      BY <1>2 DEF Left, Awaited
    <3> QED
      BY <1>3, <3>1 DEF Left
  <2> QED
    BY <1>5, <2>1, <2>2
<1> QED
  BY <1>2, <1>3, <1>4, <1>5, <1>6, SettleKeeps

(* A dropped transaction leaves its button disabled.                        *)
LEMMA DropKeeps ==
    ASSUME PageInv, NEW r \in DOMAIN requests, Drop(r)
    PROVE  PageInv'
<1> DEFINE handler == requests[r].handler
<1>1. StateTyped /\ FlagsCount
  BY DEF PageInv
<1>2. /\ requests' = RemoveAt(requests, r) /\ dropped' = dropped \cup {handler}
      /\ UNCHANGED <<chainVars, shown, flags, loads, clicks>>
  BY DEF Drop
<1>3. handler \in Handlers
  BY <1>1, RequestsTyped DEF Requested
<1>4. /\ FlagsTyped' /\ dropped' \subseteq Handlers /\ transferring' = transferring
      /\ loads' \in Seq(Loading)
  BY <1>1, <1>2, <1>3 DEF StateTyped, FlagsTyped, flags
<1>5. ASSUME NEW h \in Flagged
      PROVE  Left(h)' + Flag(h) = Left(h) + Flag(h)' + (IF handler = h THEN 1 ELSE 0)
  <2>1. Flag(h)' = Flag(h) /\ Flag(h) \in Nat
    BY <1>2 DEF Flag, Disabled, flags
  <2>2. HowMany(loads', Awaited) = HowMany(loads, Awaited) /\ HowMany(loads, Awaited) \in Nat
    BY <1>1, <1>2, RequestsTyped
  <2>3. handler = h => h \notin dropped
    BY <1>1, OneAtATime
  <2>4. Left(h)' = Left(h) + (IF handler = h THEN 1 ELSE 0) /\ Left(h) \in Nat
    BY <1>2, <2>2, <2>3 DEF Left, Awaited
  <2> QED
    BY <2>1, <2>4
<1> QED
  BY <1>2, <1>4, <1>5, SettleKeeps

-----------------------------------------------------------------------------
(* The loads, the clicks and the others keep the invariant *)

LEMMA BudgetsKept ==
    ASSUME Budgets, UNCHANGED <<enrolled, accountNonce, requests, clicks>>
    PROVE  Budgets'
  BY DEF Budgets, HowMany, Places, Open, Creations

(* A load that ends, in order or with an error.                             *)
LEMMA LoadEndsKeeps ==
    ASSUME PageInv, NEW l \in DOMAIN loads, LoadEnds(l), shown' \in [Chains -> SUBSET Rows],
           UNCHANGED <<chainVars, creating, updating, editingStudent, requests, clicks, dropped>>
    PROVE  PageInv'
<1> DEFINE awaited == loads[l].awaitedBy = "graduate"
<1>1. StateTyped /\ Budgets /\ FlagsCount
  BY DEF PageInv
<1>2. /\ loads \in Seq(Loading) /\ loads[l] \in Loading
      /\ \A T : HowMany(requests, T) \in Nat /\ HowMany(loads, T) \in Nat
  BY <1>1, RequestsTyped
<1>3. /\ loads' = RemoveAt(loads, l)
      /\ transferring' = IF awaited THEN None ELSE transferring
  BY DEF LoadEnds
<1>4. loads' \in Seq(Loading)
  BY <1>2, <1>3, Removed
<1>5. HowMany(loads', Awaited) = HowMany(loads, Awaited) - (IF awaited THEN 1 ELSE 0)
  <2>1. HowMany(loads', Awaited) = HowMany(loads, Awaited) - (IF loads[l] \in Awaited THEN 1 ELSE 0)
    BY <1>2, <1>3, HowManyRemoved
  <2>2. loads[l] \in Awaited <=> awaited
    BY <1>2 DEF Awaited
  <2> QED
    BY <2>1, <2>2
<1>6. StateTyped'
  BY <1>1, <1>3, <1>4 DEF StateTyped, FlagsTyped, chainVars
<1>7. Budgets'
  BY <1>1, BudgetsKept DEF chainVars
<1>8. awaited => /\ Disabled("graduate")
                 /\ \A r \in DOMAIN requests : requests[r].handler # "graduate"
  <2> SUFFICES ASSUME awaited PROVE /\ Disabled("graduate")
                                    /\ \A r \in DOMAIN requests : requests[r].handler # "graduate"
    OBVIOUS
  <2>1. HowMany(loads, Awaited) # 0
    <3>1. l \in Places(loads, Awaited)
      BY <1>2 DEF Places, Awaited
    <3>2. IsFiniteSet(Places(loads, Awaited))
      BY <1>2, PlacesFinite
    <3> QED
      BY <3>1, <3>2, FS_EmptySet DEF HowMany
  <2>2. Left("graduate") # 0 /\ Left("graduate") \in Nat
    BY <1>2, <2>1 DEF Left
  <2>3. "graduate" \in Flagged
    BY DEF Flagged
  <2>4. Disabled("graduate")
    <3>1. Underway("graduate") = Flag("graduate")
      BY <1>1, <2>3 DEF FlagsCount
    <3>2. Underway("graduate") # 0
      BY <1>2, <2>2 DEF Underway
    <3> QED
      BY <3>1, <3>2 DEF Flag
  <2> QED
    BY <1>1, <2>2, <2>3, <2>4, OneAtATime
<1>9. HowMany(loads, Awaited)' + Flag("graduate") = HowMany(loads, Awaited) + Flag("graduate")'
  <2>1. HowMany(loads, Awaited)' = HowMany(loads', Awaited)
    BY DEF HowMany, Places, Awaited
  <2>2. Flag("graduate")' = Flag("graduate") - (IF awaited THEN 1 ELSE 0)
        /\ Flag("graduate") \in Nat
    BY <1>3, <1>8 DEF Flag, Disabled
  <2>3. HowMany(loads, Awaited) \in Nat
    BY <1>2
  <2> QED
    BY <1>5, <2>1, <2>2, <2>3
<1> QED
  BY <1>3, <1>6, <1>7, <1>8, <1>9, RestKeeps

(* A load that goes on.                                                     *)
LEMMA LoadMoves ==
    ASSUME PageInv, NEW l \in DOMAIN loads, NEW x \in Loading,
           x.awaitedBy = loads[l].awaitedBy, loads' = [loads EXCEPT ![l] = x],
           shown' \in [Chains -> SUBSET Rows],
           UNCHANGED <<chainVars, flags, requests, clicks, dropped>>
    PROVE  PageInv'
<1>1. StateTyped /\ Budgets
  BY DEF PageInv
<1>2. loads \in Seq(Loading) /\ loads[l] \in Loading /\ HowMany(loads, Awaited) \in Nat
  BY <1>1, RequestsTyped
<1>3. /\ loads' \in Seq(Loading) /\ DOMAIN loads' = DOMAIN loads
      /\ loads'[l] = x /\ \A i \in DOMAIN loads \ {l} : loads'[i] = loads[i]
  BY <1>2, Replaced
<1>4. StateTyped'
  BY <1>1, <1>3 DEF StateTyped, FlagsTyped, chainVars, flags
<1>5. Budgets'
  BY <1>1, BudgetsKept DEF chainVars
<1>6. Places(loads', Awaited) = Places(loads, Awaited)
  <2>1. x \in Awaited <=> loads[l] \in Awaited
    BY <1>2 DEF Awaited
  <2> QED
    BY <1>3, <2>1 DEF Places
<1>7. HowMany(loads, Awaited)' + Flag("graduate") = HowMany(loads, Awaited) + Flag("graduate")'
  <2>1. HowMany(loads, Awaited)' = HowMany(loads, Awaited)
    BY <1>6 DEF HowMany, Awaited, Places
  <2>2. Flag("graduate")' = Flag("graduate")
    BY DEF Flag, Disabled, flags
  <2> QED
    BY <2>1, <2>2
<1>8. UNCHANGED <<creating, updating>> /\ transferring' = transferring
  BY DEF flags
<1> QED
  BY <1>4, <1>5, <1>7, <1>8, RestKeeps

LEMMA ContinueKeeps ==
    ASSUME PageInv, NEW l \in DOMAIN loads, NEW id \in Nat, NEW count \in Ids,
           NEW rows \in SUBSET Rows, Continue(l, id, count, rows),
           UNCHANGED <<chainVars, creating, updating, editingStudent, requests, clicks, dropped>>
    PROVE  PageInv'
<1> DEFINE q == loads[l]
           c == q.chain
<1>1. loads \in Seq(Loading) /\ q \in Loading /\ c \in Chains
  BY RequestsTyped DEF PageInv, Loading
<1>2. shown \in [Chains -> SUBSET Rows]
  BY DEF PageInv, StateTyped
<1>3. CASE LoopsOn(id, count)
  <2> DEFINE x == [q EXCEPT !.next = id, !.count = count, !.rows = rows]
  <2>1. loads' = [loads EXCEPT ![l] = x] /\ UNCHANGED <<shown, transferring>>
    BY <1>1, <1>3 DEF Continue
  <2>2. id \in Ids /\ id < count /\ id # None
    BY <1>3, BoundsAssumption, FrontendAssumption DEF LoopsOn, Ids
  <2>3. x \in Loading /\ x.awaitedBy = q.awaitedBy
    BY <1>1, <2>2 DEF Loading
  <2> HIDE DEF x
  <2> QED
    BY <1>2, <2>1, <2>3, LoadMoves DEF flags
<1>4. CASE ~LoopsOn(id, count)
  <2>1. shown' = [shown EXCEPT ![c] = rows]
    BY <1>4 DEF Continue
  <2>2. shown' \in [Chains -> SUBSET Rows]
    BY <1>2, <2>1
  <2>3. CASE c = "company"
    BY <1>4, <2>2, <2>3, LoadEndsKeeps DEF Continue
  <2>4. CASE c # "company"
    <3> DEFINE x == [NewLoad(q.awaitedBy) EXCEPT !.chain = "company"]
    <3>1. loads' = [loads EXCEPT ![l] = x] /\ UNCHANGED transferring
      BY <1>1, <1>4, <2>4 DEF Continue
    <3>2. x \in Loading /\ x.awaitedBy = q.awaitedBy
      <4>1. NewLoad(q.awaitedBy) \in Loading
        BY <1>1, NewLoadTyped DEF Loading
      <4> QED
        BY <4>1, Names DEF Loading, NewLoad
    <3> HIDE DEF x
    <3> QED
      BY <2>2, <3>1, <3>2, LoadMoves DEF flags
  <2> QED
    BY <2>3, <2>4
<1> QED
  BY <1>3, <1>4

LEMMA RowAtTyped ==
    ASSUME StateTyped, NEW c \in Chains, NEW id \in Ids
    PROVE  RowAt(c, id) \in SUBSET Rows
<1>1. chain[c] \in Storage
  BY DEF StateTyped
<1>2. chain[c].Students[id] \in Students \cup {NoStudent}
  BY <1>1 DEF Storage
<1> QED
  BY <1>2 DEF RowAt, Rows, Students

LEMMA LoadStepKeeps ==
    ASSUME PageInv, NEW l \in DOMAIN loads, ReadCount(l) \/ ReadStudent(l)
    PROVE  PageInv'
<1> DEFINE q == loads[l]
<1>1. StateTyped
  BY DEF PageInv
<1>2. q \in Loading /\ q.chain \in Chains
  BY <1>1, RequestsTyped DEF Loading
<1>3. UNCHANGED <<chainVars, creating, updating, editingStudent, requests, clicks, dropped>>
  BY DEF ReadCount, ReadStudent
<1>4. CASE ReadCount(l)
  <2>1. chain[q.chain].StudentCount \in Ids
    BY <1>1, <1>2 DEF StateTyped, Storage
  <2>2. Continue(l, 0, chain[q.chain].StudentCount, {})
    BY <1>4 DEF ReadCount
  <2>3. {} \in SUBSET Rows /\ 0 \in Nat
    OBVIOUS
  <2> QED
    BY <1>3, <2>1, <2>2, <2>3, ContinueKeeps
<1>5. CASE ReadStudent(l)
  <2>1. q.next \in Ids /\ q.count \in Ids /\ q.rows \in SUBSET Rows
    BY <1>2, <1>5 DEF ReadStudent, Loading
  <2>2. RowAt(q.chain, q.next) \in SUBSET Rows
    BY <1>1, <1>2, <2>1, RowAtTyped
  <2>3. q.rows \cup RowAt(q.chain, q.next) \in SUBSET Rows /\ q.next + 1 \in Nat
    BY <2>1, <2>2 DEF Ids
  <2>4. Continue(l, q.next + 1, q.count, q.rows \cup RowAt(q.chain, q.next))
    BY <1>5 DEF ReadStudent
  <2> QED
    BY <1>3, <2>1, <2>3, <2>4, ContinueKeeps
<1> QED
  BY <1>4, <1>5

(* A step that leaves the chains' budgets, the requests and the count of    *)
(* awaited loads alone.                                                     *)
LEMMA QuietKeeps ==
    ASSUME PageInv, UNCHANGED <<enrolled, accountNonce, requests, clicks, dropped>>,
           UNCHANGED <<creating, updating, transferring, shown>>,
           editingStudent' \in Ids \cup {None},
           chain' \in [Chains -> Storage], travelling' \in Seq(Messages),
           loads' \in Seq(Loading), HowMany(loads', Awaited) = HowMany(loads, Awaited)
    PROVE  PageInv'
<1>1. StateTyped /\ Budgets
  BY DEF PageInv
<1>2. StateTyped'
  BY <1>1 DEF StateTyped, FlagsTyped
<1>3. Budgets'
  BY <1>1, BudgetsKept
<1>4. HowMany(loads, Awaited)' + Flag("graduate") = HowMany(loads, Awaited) + Flag("graduate")'
  <2>1. HowMany(loads, Awaited)' = HowMany(loads', Awaited)
    BY DEF HowMany, Places, Awaited
  <2>2. Flag("graduate")' = Flag("graduate")
    BY DEF Flag, Disabled
  <2> QED
    BY <2>1, <2>2
<1> QED
  BY <1>2, <1>3, <1>4, RestKeeps

LEMMA PageStepKeeps ==
    ASSUME PageInv, Connect \/ ConnectionFails
    PROVE  PageInv'
<1>1. StateTyped
  BY DEF PageInv
<1>2. /\ UNCHANGED <<chainVars, requests, clicks, dropped>>
      /\ UNCHANGED <<creating, updating, transferring, shown, editingStudent>>
  BY DEF Connect, ConnectionFails, flags
<1>3. /\ chain' \in [Chains -> Storage] /\ travelling' \in Seq(Messages)
      /\ editingStudent' \in Ids \cup {None}
  BY <1>1, <1>2 DEF StateTyped, FlagsTyped, chainVars
<1>4. loads' \in Seq(Loading) /\ HowMany(loads', Awaited) = HowMany(loads, Awaited)
  <2>1. CASE Connect
    <3>1. loads' = Append(loads, NewLoad("mount"))
      BY <2>1 DEF Connect
    <3> QED
      BY <1>1, <3>1, LoadAdded
  <2>2. CASE ConnectionFails
    BY <1>1, <2>2, RequestsTyped DEF ConnectionFails
  <2> QED
    BY <2>1, <2>2
<1> QED
  BY <1>2, <1>3, <1>4, QuietKeeps DEF chainVars

LEMMA LoadFailsKeeps ==
    ASSUME PageInv, NEW l \in DOMAIN loads, LoadFails(l)
    PROVE  PageInv'
<1>1. shown' \in [Chains -> SUBSET Rows]
  BY DEF PageInv, StateTyped, LoadFails
<1> QED
  BY <1>1, LoadEndsKeeps DEF LoadFails

LEMMA ArriveKeeps ==
    ASSUME PageInv, Arrive
    PROVE  PageInv'
<1>1. StateTyped
  BY DEF PageInv
<1>2. travelling' \in Seq(Messages)
  BY <1>1 DEF StateTyped, Arrive
<1>3. chain' \in [Chains -> Storage]
  BY <1>1, ArriveDoes DEF EnrolsAt, OnlyAt, StateTyped
<1>4. UNCHANGED <<enrolled, accountNonce, pageVars, shown, flags, requests, loads, clicks, dropped>>
  BY DEF Arrive
<1>5. /\ editingStudent' \in Ids \cup {None} /\ loads' \in Seq(Loading)
      /\ HowMany(loads', Awaited) = HowMany(loads, Awaited)
  BY <1>1, <1>4 DEF StateTyped, FlagsTyped, flags
<1> QED
  BY <1>2, <1>3, <1>4, <1>5, QuietKeeps DEF flags

LEMMA OthersKeep ==
    ASSUME PageInv, OthersCall
    PROVE  PageInv'
<1>1. StateTyped /\ Budgets
  BY DEF PageInv
<1>2. UNCHANGED <<travelling, accountNonce, pageVars, shown, flags, requests, loads, clicks, dropped>>
  BY DEF OthersCall, OthersEnrol, OthersDelete
<1>3. /\ travelling' \in Seq(Messages) /\ editingStudent' \in Ids \cup {None}
      /\ loads' \in Seq(Loading) /\ HowMany(loads', Awaited) = HowMany(loads, Awaited)
  BY <1>1, <1>2 DEF StateTyped, FlagsTyped, flags
<1>4. CASE \E c \in Chains, profile \in ValidProfiles, owner \in {Alice, Others} :
              OthersEnrol(c, profile, owner)
  <2>1. PICK c \in Chains, profile \in ValidProfiles, owner \in {Alice, Others} :
           OthersEnrol(c, profile, owner)
    BY <1>4
  <2>2. EnrolsAt(c) /\ enrolled' = enrolled + 1
    BY <1>1, <2>1, OthersEnrolDoes
  <2>3. enrolled + Cardinality(Asked("create")) < MaxEnrolments
    BY <2>1 DEF OthersEnrol
  <2>4. requests \in Seq(Requested) /\ enrolled \in Nat
    BY <1>1 DEF StateTyped
  <2>5. Asked("create") = Places(requests, By("create"))
    BY <2>4, <1>1, RequestsTyped DEF Asked, Places, By
  <2>6. /\ HowMany(requests, Creations) <= Cardinality(Asked("create"))
        /\ HowMany(requests, Creations) \in Nat /\ Cardinality(Asked("create")) \in Nat
    <3>1. IsFiniteSet(Asked("create")) /\ Cardinality(Asked("create")) \in Nat
      BY <2>4, <2>5, PlacesFinite DEF HowMany
    <3>2. Places(requests, Creations) \in SUBSET Asked("create")
      BY DEF Asked, Places, Creations
    <3>3. HowMany(requests, Creations) \in Nat
      BY <2>4, PlacesFinite
    <3> QED
      BY <3>1, <3>2, <3>3, FS_Subset DEF HowMany
  <2>7. enrolled' + HowMany(requests, Creations) <= MaxEnrolments
    BY <2>2, <2>3, <2>4, <2>6, FrontendAssumption
  <2>8. Budgets'
    <3>1. \A d \in Chains : accountNonce[d] + HowMany(requests, Open(d)) <= clicks
      BY <1>1 DEF Budgets
    <3> QED
      BY <1>2, <2>7, <3>1 DEF Budgets, HowMany, Places, Open, Creations
  <2>9. StateTyped'
    <3>1. chain' \in [Chains -> Storage] /\ enrolled' \in Nat
      BY <2>2, <2>4 DEF EnrolsAt, OnlyAt
    <3> QED
      BY <1>1, <1>2, <3>1 DEF StateTyped, FlagsTyped, flags
  <2>10. HowMany(loads, Awaited)' + Flag("graduate") = HowMany(loads, Awaited) + Flag("graduate")'
    <3>1. HowMany(loads, Awaited)' = HowMany(loads', Awaited)
      BY DEF HowMany, Places, Awaited
    <3>2. Flag("graduate")' = Flag("graduate")
      BY <1>2 DEF Flag, Disabled, flags
    <3> QED
      BY <1>3, <3>1, <3>2
  <2> QED
    BY <1>2, <2>8, <2>9, <2>10, RestKeeps DEF flags
<1>5. CASE \E c \in Chains, id \in Ids : OthersDelete(c, id)
  <2>1. PICK c \in Chains, id \in Ids : OthersDelete(c, id)
    BY <1>5
  <2>2. (UNCHANGED chain \/ FollowsAt(c)) /\ UNCHANGED enrolled
    BY <1>1, <2>1, OthersDeleteDoes
  <2>3. chain' \in [Chains -> Storage]
    BY <1>1, <2>2 DEF FollowsAt, OnlyAt, StateTyped
  <2> QED
    BY <1>2, <1>3, <2>2, <2>3, QuietKeeps DEF flags
<1> QED
  BY <1>4, <1>5 DEF OthersCall

LEMMA EditingKeeps ==
    ASSUME PageInv, NEW row \in Rows, startEditing(row) \/ cancelEditing(row)
    PROVE  PageInv'
<1>1. StateTyped
  BY DEF PageInv
<1>2. /\ UNCHANGED <<chainVars, requests, clicks, dropped>>
      /\ UNCHANGED <<creating, updating, transferring, shown, loads>>
      /\ editingStudent' \in {row.id, None}
  BY DEF startEditing, cancelEditing
<1>3. /\ chain' \in [Chains -> Storage] /\ travelling' \in Seq(Messages)
      /\ loads' \in Seq(Loading) /\ HowMany(loads', Awaited) = HowMany(loads, Awaited)
  BY <1>1, <1>2 DEF StateTyped, chainVars
<1>4. editingStudent' \in Ids \cup {None}
  BY <1>2 DEF Rows
<1> QED
  BY <1>2, <1>3, <1>4, QuietKeeps DEF chainVars

LEMMA ClickKeeps ==
    ASSUME PageInv, Click
    PROVE  PageInv'
<1>1. StateTyped /\ FlagsTyped
  BY DEF PageInv, StateTyped
<1>2. /\ \A c \in Chains : shown[c] \in SUBSET Rows
      /\ shown["university"] \in SUBSET Rows /\ shown["company"] \in SUBSET Rows
  BY <1>1, Names DEF StateTyped
<1>3. \A row \in Rows : row.id \in Ids /\ row.tag \in Tags /\ row.profile \in Profiles
  BY DEF Rows, ValidProfiles
<1>4. \A row \in Rows : row.id # None
  BY <1>3, FrontendAssumption
<1>5. ASSUME NEW profile \in Profiles, createStudent(profile) PROVE PageInv'
  <2>1. /\ Asks("create", None, None, profile) /\ ~creating /\ creating' = TRUE
        /\ enrolled + Cardinality(Asked("create")) < MaxEnrolments
        /\ UNCHANGED <<updating, transferring, editingStudent>>
    BY <1>5 DEF createStudent
  <2>2. /\ FlagsTyped' /\ ~Disabled("create")
        /\ \A h \in Flagged : Disabled(h)' <=> Disabled(h) \/ h = "create"
    BY <1>1, <2>1 DEF FlagsTyped, Disabled, Flagged
  <2>3. "create" \in Handlers
    BY DEF Handlers
  <2> QED
    BY <2>1, <2>2, <2>3, AskKeeps
<1>6. ASSUME NEW row \in Rows, NEW profile \in Profiles, updateStudent(row, profile) PROVE PageInv'
  <2>1. /\ Asks("update", row.id, row.tag, profile) /\ ~updating /\ updating' = TRUE
        /\ UNCHANGED <<creating, transferring, editingStudent>>
    BY <1>6 DEF updateStudent
  <2>2. /\ FlagsTyped' /\ ~Disabled("update")
        /\ \A h \in Flagged : Disabled(h)' <=> Disabled(h) \/ h = "update"
    BY <1>1, <2>1 DEF FlagsTyped, Disabled, Flagged
  <2>3. "update" \in Handlers
    BY DEF Handlers
  <2> QED
    BY <1>3, <2>1, <2>2, <2>3, AskKeeps
<1>7. ASSUME NEW row \in Rows, graduateStudent(row) PROVE PageInv'
  <2>1. /\ Asks("graduate", row.id, row.tag, row.profile)
        /\ transferring = None /\ transferring' = row.id
        /\ UNCHANGED <<creating, updating, editingStudent>>
    BY <1>7 DEF graduateStudent
  <2>2. /\ FlagsTyped' /\ ~Disabled("graduate")
        /\ \A h \in Flagged : Disabled(h)' <=> Disabled(h) \/ h = "graduate"
    BY <1>1, <1>3, <1>4, <2>1 DEF FlagsTyped, Disabled, Flagged
  <2>3. "graduate" \in Handlers
    BY DEF Handlers
  <2> QED
    BY <1>3, <2>1, <2>2, <2>3, AskKeeps
<1>8. ASSUME NEW row \in Rows, deleteStudent(row) \/ deleteCompanyStudent(row) PROVE PageInv'
  <2>1. PICK h \in {"delete", "deleteCompany"} : Asks(h, row.id, row.tag, row.profile)
    BY <1>8 DEF deleteStudent, deleteCompanyStudent
  <2>2. UNCHANGED flags
    BY <1>8 DEF deleteStudent, deleteCompanyStudent
  <2>3. /\ FlagsTyped' /\ h \in Handlers /\ h \notin Flagged /\ h # "create" /\ h # "graduate"
        /\ \A g \in Flagged : Disabled(g)' <=> Disabled(g) \/ g = h
    BY <1>1, <2>2 DEF FlagsTyped, Disabled, Flagged, Handlers, flags
  <2> QED
    BY <1>3, <2>1, <2>2, <2>3, AskKeeps DEF flags
<1> QED
  BY <1>2, <1>5, <1>6, <1>7, <1>8, EditingKeeps DEF Click

-----------------------------------------------------------------------------
(* The page *)

LEMMA PageInit ==
    ASSUME Init
    PROVE  PageInv
<1>1. EmptyStorage \in Storage
  BY EmptyStorageType
<1>2. StateTyped
  <2>1. \A S : <<>> \in Seq(S)
    OBVIOUS
  <2>2. /\ chain = [c \in Chains |-> EmptyStorage] /\ accountNonce = [c \in Chains |-> 0]
        /\ shown = [c \in Chains |-> {}] /\ enrolled = 0 /\ clicks = 0 /\ dropped = {}
        /\ travelling = <<>> /\ requests = <<>> /\ loads = <<>>
    BY DEF Init
  <2>3. FlagsTyped
    BY DEF Init, FlagsTyped
  <2>4. /\ chain \in [Chains -> Storage] /\ accountNonce \in [Chains -> Nat]
        /\ shown \in [Chains -> SUBSET Rows] /\ clicks \in 0 .. MaxClicks
    BY <1>1, <2>2, FrontendAssumption
  <2> QED
    BY <2>1, <2>2, <2>3, <2>4 DEF StateTyped
<1>3. requests = <<>> /\ loads = <<>> /\ \A T : HowMany(<<>>, T) = 0
  BY HowManyNone DEF Init
<1>4. Budgets
  BY <1>3, FrontendAssumption DEF Init, Budgets
<1>5. FlagsCount
  BY <1>3 DEF Init, FlagsCount, Underway, Left, Flag, Disabled
<1>6. GraduatesOne
  BY <1>3 DEF GraduatesOne
<1> QED
  BY <1>2, <1>4, <1>5, <1>6 DEF PageInv

LEMMA PageStep ==
    ASSUME PageInv, [Next]_vars
    PROVE  PageInv'
<1>1. CASE Connect \/ ConnectionFails
  BY <1>1, PageStepKeeps
<1>2. CASE LoadStep
  BY <1>2, LoadStepKeeps DEF LoadStep
<1>3. CASE Click
  BY <1>3, ClickKeeps
<1>4. CASE RequestStep
  BY <1>4, SignKeeps, SubmitKeeps, IncludeKeeps, FinalizeKeeps, WaitOverKeeps DEF RequestStep
<1>5. CASE \E r \in DOMAIN requests : SubmitFails(r) \/ Drop(r)
  BY <1>5, CaughtKeeps, DropKeeps DEF SubmitFails
<1>6. CASE \E l \in DOMAIN loads : LoadFails(l)
  BY <1>6, LoadFailsKeeps
<1>7. CASE Arrive
  BY <1>7, ArriveKeeps
<1>8. CASE OthersCall
  BY <1>8, OthersKeep
<1>9. CASE UNCHANGED vars
  <2>1. /\ UNCHANGED <<enrolled, accountNonce, requests, clicks, dropped>>
        /\ UNCHANGED <<creating, updating, transferring, shown>>
        /\ UNCHANGED <<chain, travelling, loads, editingStudent>>
    BY <1>9 DEF vars, chainVars, flags
  <2>2. /\ editingStudent' \in Ids \cup {None}
        /\ chain' \in [Chains -> Storage] /\ travelling' \in Seq(Messages)
        /\ loads' \in Seq(Loading) /\ HowMany(loads', Awaited) = HowMany(loads, Awaited)
    BY <2>1 DEF PageInv, StateTyped, FlagsTyped
  <2> QED
    BY <2>1, <2>2, QuietKeeps
<1> QED
  BY <1>1, <1>2, <1>3, <1>4, <1>5, <1>6, <1>7, <1>8, <1>9 DEF Next, Fault

LEMMA PageMeansTypeOK ==
    ASSUME PageInv
    PROVE  TypeOK
<1>1. StateTyped /\ Budgets
  BY DEF PageInv
<1>2. /\ \A r \in DOMAIN requests : requests[r] \in Requested
      /\ \A l \in DOMAIN loads : loads[l] \in Loading
      /\ \A T : HowMany(requests, T) \in Nat
  BY <1>1, RequestsTyped
<1>3. enrolled \in 0 .. MaxEnrolments
  <2>1. HowMany(requests, Creations) \in Nat /\ enrolled \in Nat
        /\ enrolled + HowMany(requests, Creations) <= MaxEnrolments
    BY <1>1, <1>2 DEF StateTyped, Budgets
  <2> QED
    BY <2>1, FrontendAssumption
<1>4. \A c \in Chains : accountNonce[c] \in 0 .. clicks
  <2> TAKE c \in Chains
  <2>1. HowMany(requests, Open(c)) \in Nat /\ accountNonce[c] \in Nat /\ clicks \in Nat
        /\ accountNonce[c] + HowMany(requests, Open(c)) <= clicks
    BY <1>1, <1>2, FrontendAssumption DEF StateTyped, Budgets
  <2> QED
    BY <2>1
<1>5. \A r \in DOMAIN requests : requests[r].nonce < MaxClicks
  <2> TAKE r \in DOMAIN requests
  <2>1. requests[r].nonce \in 0 .. MaxClicks - 1
    BY <1>2 DEF Requested
  <2> QED
    BY <2>1, FrontendAssumption
<1>6. \A l \in DOMAIN loads : loads[l].next \in (0 .. loads[l].count - 1) \cup {None}
  <2> TAKE l \in DOMAIN loads
  <2>1. /\ loads[l].count \in Ids /\ loads[l].next \in Ids \cup {None}
        /\ loads[l].next # None => loads[l].next < loads[l].count
    BY <1>2 DEF Loading
  <2> QED
    BY <2>1, BoundsAssumption DEF Ids
<1>7. \A c \in Chains : \A row \in shown[c] : row.id \in Ids /\ row.tag \in Tags
  BY <1>1 DEF StateTyped, Rows
<1> QED
  BY <1>1, <1>3, <1>4, <1>5, <1>6, <1>7 DEF TypeOK, StateTyped, FlagsTyped

LEMMA PageAlways == Spec => []PageInv
<1>1. Init => PageInv
  BY PageInit
<1>2. PageInv /\ [Next]_vars => PageInv'
  BY PageStep
<1> QED
  BY <1>1, <1>2, PTL DEF Spec

(* The state of the page has the types of the code whatever the bounds, the *)
(* profiles and the users: a load never reads an id from the count on, and  *)
(* accountNextIndex always finds a nonce below the number of clicks.        *)
THEOREM PageTyped == Spec => []TypeOK
  BY PageAlways, PageMeansTypeOK, PTL

(* However many clicks, loads, faults and other users there are: the button *)
(* of createStudent, updateStudent or graduateStudent is disabled exactly   *)
(* while one transaction of it is under way, or once it is dropped.         *)
THEOREM ButtonsTellTheTruth == Spec => []FlagsFollowRequests
  BY PageAlways, FlagsMean, PTL

-----------------------------------------------------------------------------
(* What the page shows *)

(* Fewer students are enrolled than a u32 can number: the counter does not  *)
(* wrap.                                                                    *)
NoWrap == MaxEnrolments < IdSpace

Kept(st) == {id \in Ids : st.Students[id] # NoStudent}

(* No chain has numbered more students than were enrolled: a student is     *)
(* numbered again only by the Company, after the University has let it go.  *)
Numbered ==
    /\ chain["university"].StudentCount <= enrolled
    /\ chain["company"].StudentCount + Len(travelling)
          + Cardinality(Kept(chain["university"])) <= enrolled

(* The id has been given away, to this student.                             *)
Fits(st, x) ==
    /\ x.id < st.StudentCount
    /\ st.Students[x.id] # NoStudent => st.Students[x.id].tag = x.tag

(* The load has met every student it has passed.                            *)
Met(st, q) ==
    /\ q.count <= st.StudentCount
    /\ \A id \in 0 .. q.next - 1 :
          st.Students[id] # NoStudent =>
             \E row \in q.rows : row.id = id /\ row.tag = st.Students[id].tag

FitRows(c)  == {row \in Rows : Fits(chain[c], row)}
FitRequests == {q \in Requested : q.handler # "create" => Fits(chain[ChainOf(q.handler)], q)}
FitLoads    == {q \in Loading : /\ q.rows \subseteq FitRows(q.chain)
                                /\ q.next # None => Met(chain[q.chain], q)}

ShownInv ==
    /\ Numbered
    /\ \A c \in Chains : shown[c] \subseteq FitRows(c)
    /\ requests \in Seq(FitRequests)
    /\ loads \in Seq(FitLoads)

(* The ids given away stay with their students.                             *)
Later(st, after) ==
    /\ st.StudentCount <= after.StudentCount
    /\ \A id \in Ids : id < st.StudentCount /\ after.Students[id] # NoStudent =>
          st.Students[id] # NoStudent /\ after.Students[id].tag = st.Students[id].tag

LEMMA LaterFits ==
    ASSUME NEW st \in Storage, NEW after \in Storage, Later(st, after),
           NEW x, x.id \in Ids, Fits(st, x)
    PROVE  Fits(after, x)
<1>1. st.StudentCount \in Ids /\ after.StudentCount \in Ids
  BY DEF Storage
<1>2. /\ st.StudentCount <= after.StudentCount /\ x.id < st.StudentCount
      /\ after.Students[x.id] # NoStudent =>
            st.Students[x.id] # NoStudent /\ after.Students[x.id].tag = st.Students[x.id].tag
  BY DEF Later, Fits
<1>3. x.id < after.StudentCount
  BY <1>1, <1>2, BoundsAssumption DEF Ids
<1> QED
  BY <1>2, <1>3 DEF Fits

LEMMA LaterMet ==
    ASSUME NEW st \in Storage, NEW after \in Storage, Later(st, after),
           NEW q \in Loading, q.next # None, Met(st, q)
    PROVE  Met(after, q)
<1>1. /\ st.StudentCount \in Ids /\ after.StudentCount \in Ids
      /\ q.count \in Ids /\ q.next \in Ids /\ q.next < q.count
  BY DEF Storage, Loading
<1>2. st.StudentCount <= after.StudentCount /\ q.count <= st.StudentCount
  BY DEF Later, Met
<1>3. q.count <= after.StudentCount
  BY <1>1, <1>2, BoundsAssumption DEF Ids
<1>4. ASSUME NEW id \in 0 .. q.next - 1, after.Students[id] # NoStudent
      PROVE  \E row \in q.rows : row.id = id /\ row.tag = after.Students[id].tag
  <2>1. id \in Ids /\ id < st.StudentCount
    BY <1>1, <1>2, BoundsAssumption DEF Ids
  <2>2. st.Students[id] # NoStudent /\ after.Students[id].tag = st.Students[id].tag
    BY <1>4, <2>1 DEF Later
  <2> QED
    BY <2>2 DEF Met
<1> QED
  BY <1>3, <1>4 DEF Met

LEMMA FollowsIsLater ==
    ASSUME NEW st \in Storage, NEW after \in Storage, Follows(st, after)
    PROVE  Later(st, after) /\ Kept(after) \subseteq Kept(st)
<1>1. st.StudentCount \in Ids
  BY DEF Storage
<1> QED
  BY <1>1, BoundsAssumption DEF Follows, Later, Kept, Ids

(* An enrolment takes the next id, unless the counter wraps.                *)
LEMMA EnrolledIsLater ==
    ASSUME NEW st \in Storage, NEW after \in Storage, Enrolled(st, after),
           st.StudentCount + 1 < IdSpace
    PROVE  /\ Later(st, after) /\ after.StudentCount = st.StudentCount + 1
           /\ Kept(after) \subseteq Kept(st) \cup {st.StudentCount}
<1>1. st.StudentCount \in Ids /\ after.StudentCount = st.StudentCount + 1
  <2>1. st.StudentCount \in Nat /\ st.StudentCount \in Ids
    BY BoundsAssumption DEF Storage, Ids
  <2>2. NextId(st) = st.StudentCount + 1
    BY <2>1, BoundsAssumption DEF NextId
  <2> QED
    BY <2>1, <2>2 DEF Enrolled
<1>2. \A id \in Ids : id # st.StudentCount => after.Students[id] = st.Students[id]
  BY DEF Enrolled
<1>3. st.StudentCount <= after.StudentCount
  BY <1>1, BoundsAssumption DEF Ids
<1>4. \A id \in Ids : id < st.StudentCount => id # st.StudentCount
  BY <1>1, BoundsAssumption DEF Ids
<1> QED
  BY <1>1, <1>2, <1>3, <1>4 DEF Later, Kept

(* How many students the University keeps.                                  *)
LEMMA KeptCounts ==
    ASSUME NEW st \in Storage
    PROVE  IsFiniteSet(Kept(st)) /\ Cardinality(Kept(st)) \in Nat
<1>1. Kept(st) \in SUBSET (0 .. IdSpace - 1)
  BY DEF Kept, Ids
<1> DEFINE e == IdSpace - 1
<1>2. 0 \in Int /\ e \in Int
  BY BoundsAssumption
<1> HIDE DEF e
<1>3. IsFiniteSet(0 .. e)
  BY <1>2, FS_Interval, Zenon
<1>4. IsFiniteSet(Kept(st))
  BY <1>1, <1>3, FS_Subset DEF e
<1> QED
  BY <1>4, FS_CardinalityType

LEMMA KeptFewer ==
    ASSUME NEW st \in Storage, NEW after \in Storage, Kept(after) \subseteq Kept(st)
    PROVE  /\ Cardinality(Kept(after)) <= Cardinality(Kept(st))
           /\ \A id \in Kept(st) : id \notin Kept(after) =>
                 Cardinality(Kept(after)) + 1 <= Cardinality(Kept(st))
<1> DEFINE K == Kept(st)
           A == Kept(after)
<1>1. IsFiniteSet(K) /\ Cardinality(K) \in Nat /\ IsFiniteSet(A) /\ Cardinality(A) \in Nat
  BY KeptCounts
<1>2. A \in SUBSET K
  OBVIOUS
<1> HIDE DEF K, A
<1>3. Cardinality(A) <= Cardinality(K)
  BY <1>1, <1>2, FS_Subset
<1>4. ASSUME NEW id \in K, id \notin A PROVE Cardinality(A) + 1 <= Cardinality(K)
  <2>1. IsFiniteSet(K \ {id}) /\ Cardinality(K \ {id}) = Cardinality(K) - 1
    BY <1>1, FS_RemoveElement
  <2>2. A \in SUBSET (K \ {id})
    BY <1>2, <1>4
  <2>3. Cardinality(A) <= Cardinality(K \ {id})
    BY <2>1, <2>2, FS_Subset
  <2> QED
    BY <1>1, <2>1, <2>3
<1> QED
  BY <1>3, <1>4 DEF K, A

LEMMA KeptOneMore ==
    ASSUME NEW st \in Storage, NEW after \in Storage, NEW id,
           Kept(after) \subseteq Kept(st) \cup {id}
    PROVE  Cardinality(Kept(after)) <= Cardinality(Kept(st)) + 1
<1> DEFINE K == Kept(st)
           A == Kept(after)
<1>1. IsFiniteSet(K) /\ Cardinality(K) \in Nat /\ IsFiniteSet(A) /\ Cardinality(A) \in Nat
  BY KeptCounts
<1>2. A \in SUBSET (K \cup {id})
  OBVIOUS
<1> HIDE DEF K, A
<1>3. /\ IsFiniteSet(K \cup {id})
      /\ Cardinality(K \cup {id}) = IF id \in K THEN Cardinality(K) ELSE Cardinality(K) + 1
  BY <1>1, FS_AddElement
<1>4. Cardinality(A) <= Cardinality(K \cup {id})
  BY <1>2, <1>3, FS_Subset
<1>5. Cardinality(A) <= Cardinality(K) + 1
  BY <1>1, <1>3, <1>4
<1> QED
  BY <1>5 DEF K, A

-----------------------------------------------------------------------------
(* What the chains number *)

LEMMA ChainsTyped ==
    ASSUME StateTyped
    PROVE  /\ \A c \in Chains : chain[c] \in Storage /\ chain[c].StudentCount \in Ids
           /\ \A c \in Chains : chain[c].StudentCount \in Nat
           /\ Len(travelling) \in Nat /\ enrolled \in Nat
           /\ Cardinality(Kept(chain["university"])) \in Nat
<1>1. \A c \in Chains : chain[c] \in Storage
  BY DEF StateTyped
<1>2. \A c \in Chains : chain[c].StudentCount \in Ids
  BY <1>1 DEF Storage
<1>3. travelling \in Seq(Messages) /\ enrolled \in Nat
  BY DEF StateTyped
<1>4. Cardinality(Kept(chain["university"])) \in Nat
  BY <1>1, Names, KeptCounts
<1> QED
  BY <1>1, <1>2, <1>3, <1>4 DEF Ids

(* A step that leaves the chains alone.                                     *)
LEMMA NumberedSame ==
    ASSUME StateTyped, Numbered, UNCHANGED <<chain, travelling, enrolled>>
    PROVE  Numbered' /\ \A c \in Chains : Later(chain[c], chain'[c])
<1>1. Numbered'
  BY DEF Numbered, Kept
<1>2. \A c \in Chains : Later(chain[c], chain'[c])
  BY ChainsTyped DEF Later
<1> QED
  BY <1>1, <1>2

(* A chain on which students only change or leave: one who leaves the       *)
(* University with a message is still counted.                              *)
LEMMA NumberedFollows ==
    ASSUME StateTyped, Numbered, NEW c \in Chains, FollowsAt(c), UNCHANGED enrolled,
           \/ UNCHANGED travelling
           \/ /\ c = "university"
              /\ \E id \in Ids : /\ chain[c].Students[id] # NoStudent
                                 /\ chain'[c].Students[id] = NoStudent
              /\ \E m \in Messages : travelling' = Append(travelling, m)
    PROVE  Numbered' /\ \A d \in Chains : Later(chain[d], chain'[d])
<1> DEFINE U == Cardinality(Kept(chain["university"]))
           W == Cardinality(Kept(chain'["university"]))
<1>1. /\ \A d \in Chains : chain[d] \in Storage /\ chain'[d] \in Storage
      /\ \A d \in Chains : d # c => chain'[d] = chain[d]
      /\ Follows(chain[c], chain'[c])
  BY ChainsTyped DEF FollowsAt, OnlyAt
<1>2. \A d \in Chains : /\ Later(chain[d], chain'[d])
                        /\ chain'[d].StudentCount = chain[d].StudentCount
                        /\ Kept(chain'[d]) \subseteq Kept(chain[d])
  <2> TAKE d \in Chains
  <2>1. CASE d = c
    BY <1>1, <2>1, FollowsIsLater DEF Follows
  <2>2. CASE d # c
    <3>1. chain'[d] = chain[d]
      BY <1>1, <2>2
    <3> QED
      BY <3>1, ChainsTyped DEF Later
  <2> QED
    BY <2>1, <2>2
<1>3. "university" \in Chains /\ "company" \in Chains
  BY Names
<1>4. U \in Nat /\ W \in Nat /\ W <= U
  BY <1>1, <1>2, <1>3, KeptCounts, KeptFewer
<1>5. Len(travelling') + W <= Len(travelling) + U /\ Len(travelling') \in Nat
  <2>1. CASE UNCHANGED travelling
    <3>1. Len(travelling) \in Nat /\ Len(travelling') = Len(travelling)
      BY <2>1, ChainsTyped
    <3> HIDE DEF U, W
    <3> QED
      BY <1>4, <3>1
  <2>2. CASE /\ c = "university"
             /\ \E id \in Ids : /\ chain[c].Students[id] # NoStudent
                                /\ chain'[c].Students[id] = NoStudent
             /\ \E m \in Messages : travelling' = Append(travelling, m)
    <3>1. PICK id \in Ids : /\ chain[c].Students[id] # NoStudent
                            /\ chain'[c].Students[id] = NoStudent
      BY <2>2
    <3>2. id \in Kept(chain[c]) /\ id \notin Kept(chain'[c])
      BY <3>1 DEF Kept
    <3>3. W + 1 <= U
      BY <1>1, <1>2, <2>2, <3>2, KeptFewer
    <3>4. Len(travelling') = Len(travelling) + 1 /\ Len(travelling) \in Nat
      BY <2>2 DEF StateTyped
    <3> HIDE DEF U, W
    <3> QED
      BY <1>4, <3>3, <3>4
  <2> QED
    BY <2>1, <2>2
<1>6. /\ chain["university"].StudentCount <= enrolled
      /\ chain["company"].StudentCount + Len(travelling) + U <= enrolled
      /\ enrolled \in Nat /\ Len(travelling) \in Nat /\ chain["company"].StudentCount \in Nat
  BY <1>3, ChainsTyped DEF Numbered
<1>7. chain["company"].StudentCount + Len(travelling') + W <= enrolled
  <2> HIDE DEF U, W
  <2> QED
    BY <1>4, <1>5, <1>6
<1>8. Numbered'
  BY <1>2, <1>3, <1>6, <1>7 DEF Numbered, Kept
<1> QED
  BY <1>2, <1>8

(* A student enrols: on any chain as one more student, or on the Company    *)
(* out of the first message.                                                *)
LEMMA NumberedEnrols ==
    ASSUME StateTyped, Numbered, NoWrap, NEW c \in Chains, EnrolsAt(c),
           enrolled' <= MaxEnrolments,
           \/ enrolled' = enrolled + 1 /\ UNCHANGED travelling
           \/ /\ c = "company" /\ UNCHANGED enrolled
              /\ travelling # <<>> /\ travelling' = Tail(travelling)
    PROVE  Numbered' /\ \A d \in Chains : Later(chain[d], chain'[d])
<1> DEFINE U == Cardinality(Kept(chain["university"]))
           W == Cardinality(Kept(chain'["university"]))
           n == chain["university"].StudentCount
           m == chain["company"].StudentCount
           k == Len(travelling)
<1>1. /\ \A d \in Chains : chain[d] \in Storage /\ chain'[d] \in Storage
      /\ \A d \in Chains : d # c => chain'[d] = chain[d]
      /\ Enrolled(chain[c], chain'[c])
  BY ChainsTyped DEF EnrolsAt, OnlyAt
<1>2. "university" \in Chains /\ "company" \in Chains /\ c \in {"university", "company"}
  BY Names DEF Chains
<1>3. n \in Nat /\ m \in Nat /\ k \in Nat /\ U \in Nat /\ enrolled \in Nat
      /\ n <= enrolled /\ m + k + U <= enrolled /\ W \in Nat
  BY <1>1, <1>2, ChainsTyped, KeptCounts DEF Numbered
<1>4. travelling # <<>> /\ travelling' = Tail(travelling) =>
         k >= 1 /\ Len(travelling') = k - 1
  BY DEF StateTyped
<1>5. chain[c].StudentCount + 1 <= enrolled'
  <2>1. chain[c].StudentCount = IF c = "university" THEN n ELSE m
    BY <1>2
  <2> HIDE DEF n, m, k, U
  <2> QED
    BY <1>2, <1>3, <1>4, <2>1
<1>6. chain[c].StudentCount + 1 < IdSpace
  <2>1. chain[c].StudentCount \in Nat /\ enrolled' \in Nat
    BY <1>3, ChainsTyped
  <2> QED
    BY <1>2, <1>5, <2>1, BoundsAssumption, FrontendAssumption DEF NoWrap
<1>7. /\ Later(chain[c], chain'[c])
      /\ chain'[c].StudentCount = chain[c].StudentCount + 1
      /\ Kept(chain'[c]) \subseteq Kept(chain[c]) \cup {chain[c].StudentCount}
  BY <1>1, <1>6, EnrolledIsLater
<1>8. \A d \in Chains : Later(chain[d], chain'[d])
  <2> TAKE d \in Chains
  <2>1. d # c => chain'[d] = chain[d]
    BY <1>1
  <2>2. Later(chain[d], chain[d])
    BY ChainsTyped DEF Later
  <2> QED
    BY <1>7, <2>1, <2>2
<1>9. CASE c = "university"
  <2>1. /\ chain'["university"].StudentCount = n + 1 /\ chain'["company"] = chain["company"]
        /\ enrolled' = enrolled + 1 /\ travelling' = travelling
    BY <1>1, <1>2, <1>7, <1>9
  <2>2. W <= U + 1
    BY <1>1, <1>2, <1>7, <1>9, KeptOneMore
  <2>3. n + 1 <= enrolled + 1 /\ m + k + W <= enrolled + 1
    <3> HIDE DEF n, m, k, U, W
    <3> QED
      BY <1>3, <2>2
  <2>4. Numbered'
    BY <2>1, <2>3 DEF Numbered, Kept
  <2> QED
    BY <1>8, <2>4
<1>10. CASE c = "company"
  <2>1. /\ chain'["company"].StudentCount = m + 1 /\ chain'["university"] = chain["university"]
    BY <1>1, <1>2, <1>7, <1>10
  <2>2. n <= enrolled' /\ m + 1 + Len(travelling') + U <= enrolled'
    <3>1. \/ enrolled' = enrolled + 1 /\ Len(travelling') = k
          \/ enrolled' = enrolled /\ k >= 1 /\ Len(travelling') = k - 1
      BY <1>4
    <3> HIDE DEF n, m, k, U
    <3> QED
      BY <1>3, <3>1
  <2>3. Numbered'
    BY <2>1, <2>2 DEF Numbered, Kept
  <2> QED
    BY <1>8, <2>3
<1> QED
  BY <1>2, <1>9, <1>10

(* Whatever happens, the ids given away stay with their students.           *)
LEMMA NumberedStep ==
    ASSUME PageInv, PageInv', Numbered, NoWrap, [Next]_vars
    PROVE  Numbered' /\ \A c \in Chains : Later(chain[c], chain'[c])
<1>1. StateTyped /\ Budgets'
  BY DEF PageInv
<1>2. enrolled' <= MaxEnrolments
  <2>1. PageInv' => TypeOK'
    BY PageMeansTypeOK, PTL
  <2> QED
    BY <2>1, FrontendAssumption DEF TypeOK
<1>3. CASE UNCHANGED <<chain, travelling, enrolled>>
  BY <1>1, <1>3, NumberedSame
<1>4. CASE \E r \in DOMAIN requests : Include(r)
  <2>1. PICK r \in DOMAIN requests : Include(r)
    BY <1>4
  <2> DEFINE q == requests[r]
             c == ChainOf(q.handler)
  <2>2. c \in Chains
    BY Names
  <2>3. q.handler # "create" => q.id \in Ids
    BY <1>1, RequestsTyped DEF Requested
  <2> HIDE DEF c
  <2>4. CASE EnrolsAt(c) /\ enrolled' = enrolled + 1 /\ UNCHANGED travelling
    BY <1>1, <1>2, <2>2, <2>4, NumberedEnrols
  <2>5. CASE /\ q.handler # "create" /\ FollowsAt(c) /\ UNCHANGED enrolled
             /\ chain[c].Students[q.id] # NoStudent
             /\ \/ UNCHANGED travelling
                \/ /\ c = "university" /\ chain'[c].Students[q.id] = NoStudent
                   /\ \E m \in Messages : travelling' = Append(travelling, m)
    BY <1>1, <2>2, <2>3, <2>5, NumberedFollows
  <2> QED
    BY <1>3, <2>1, <2>4, <2>5, IncludeDoes DEF c
<1>5. CASE Arrive
  <2>1. /\ travelling # <<>> /\ travelling' = Tail(travelling) /\ UNCHANGED enrolled
        /\ UNCHANGED chain \/ EnrolsAt("company")
    BY <1>1, <1>5, ArriveDoes
  <2>2. CASE EnrolsAt("company")
    BY <1>1, <1>2, <2>1, <2>2, Names, NumberedEnrols
  <2>3. CASE UNCHANGED chain
    <3>1. Len(travelling') \in Nat /\ Len(travelling') <= Len(travelling)
      BY <1>1, <2>1 DEF StateTyped
    <3>2. \A c \in Chains : Later(chain[c], chain'[c])
      BY <1>1, <2>3, ChainsTyped DEF Later
    <3> DEFINE U == Cardinality(Kept(chain["university"]))
               m == chain["company"].StudentCount
    <3>3. U \in Nat /\ m \in Nat /\ Len(travelling) \in Nat /\ enrolled \in Nat
          /\ m + Len(travelling) + U <= enrolled
      BY <1>1, Names, ChainsTyped DEF Numbered
    <3>4. m + Len(travelling') + U <= enrolled
      <4> HIDE DEF U, m
      <4> QED
        BY <3>1, <3>3
    <3>5. Numbered'
      BY <2>1, <2>3, <3>4 DEF Numbered, Kept
    <3> QED
      BY <3>2, <3>5
  <2> QED
    BY <2>1, <2>2, <2>3
<1>6. CASE OthersCall
  <2>1. CASE \E c \in Chains, profile \in ValidProfiles, owner \in {Alice, Others} :
                OthersEnrol(c, profile, owner)
    BY <1>1, <1>2, <2>1, OthersEnrolDoes, NumberedEnrols
  <2>2. CASE \E c \in Chains, id \in Ids : OthersDelete(c, id)
    BY <1>1, <2>2, OthersDeleteDoes, NumberedFollows, NumberedSame
  <2> QED
    BY <1>6, <2>1, <2>2 DEF OthersCall
<1>7. UNCHANGED <<chain, travelling, enrolled>> \/ Arrive \/ OthersCall
         \/ \E r \in DOMAIN requests : Include(r)
  BY DEF Next, vars, chainVars, Connect, LoadStep, ReadCount, ReadStudent, Click,
         createStudent, startEditing, cancelEditing, updateStudent, graduateStudent,
         deleteStudent, deleteCompanyStudent, Asks, RequestStep, Sign, Submit, Finalize,
         WaitOver, Fault, ConnectionFails, SubmitFails, Drop, LoadFails
<1> QED
  BY <1>3, <1>4, <1>5, <1>6, <1>7

-----------------------------------------------------------------------------
(* What the tab takes from the chains *)

(* A row that is read fits the chain it is read from.                       *)
LEMMA RowAtFits ==
    ASSUME StateTyped, NEW c \in Chains, NEW id \in Ids, id < chain[c].StudentCount
    PROVE  RowAt(c, id) \subseteq FitRows(c)
<1>1. RowAt(c, id) \in SUBSET Rows
  BY RowAtTyped
<1>2. \A row \in RowAt(c, id) : row.id = id /\ row.tag = chain[c].Students[id].tag
  BY DEF RowAt
<1>3. \A row \in RowAt(c, id) : Fits(chain[c], row)
  BY <1>2 DEF Fits
<1> QED
  BY <1>1, <1>3 DEF FitRows

LEMMA FitParts ==
    ASSUME ShownInv
    PROVE  /\ requests \in Seq(FitRequests) /\ loads \in Seq(FitLoads)
           /\ \A r \in DOMAIN requests : requests[r] \in FitRequests
           /\ \A l \in DOMAIN loads : loads[l] \in FitLoads
           /\ \A c \in Chains : shown[c] \subseteq FitRows(c)
<1>1. requests \in Seq(FitRequests) /\ loads \in Seq(FitLoads)
  BY DEF ShownInv
<1> QED
  BY <1>1 DEF ShownInv

LEMMA NewLoadFits ==
    ASSUME NEW who \in {"mount", "nobody", "graduate"}
    PROVE  NewLoad(who) \in FitLoads /\ [NewLoad(who) EXCEPT !.chain = "company"] \in FitLoads
<1>1. NewLoad(who) \in Loading
  BY NewLoadTyped
<1>2. [NewLoad(who) EXCEPT !.chain = "company"] \in Loading
  BY <1>1, Names DEF Loading, NewLoad
<1> QED
  BY <1>1, <1>2 DEF FitLoads, NewLoad

(* A load that goes on has met one more student, and shows what it met.     *)
LEMMA ContinueFits ==
    ASSUME StateTyped, ShownInv, NEW l \in DOMAIN loads, NEW id \in Nat, NEW count \in Ids,
           NEW rows \in SUBSET FitRows(loads[l].chain), id <= count,
           count <= chain[loads[l].chain].StudentCount,
           \A i \in 0 .. id - 1 : chain[loads[l].chain].Students[i] # NoStudent =>
              \E row \in rows : row.id = i /\ row.tag = chain[loads[l].chain].Students[i].tag,
           Continue(l, id, count, rows)
    PROVE  loads' \in Seq(FitLoads) /\ \A c \in Chains : shown'[c] \subseteq FitRows(c)
<1> DEFINE q == loads[l]
           c == q.chain
<1>1. /\ loads \in Seq(FitLoads) /\ q \in FitLoads
      /\ \A d \in Chains : shown[d] \subseteq FitRows(d)
  BY FitParts
<1>2. q \in Loading /\ loads \in Seq(Loading) /\ c \in Chains
  BY RequestsTyped DEF Loading
<1>3. CASE LoopsOn(id, count)
  <2> DEFINE x == [q EXCEPT !.next = id, !.count = count, !.rows = rows]
  <2>1. loads' = [loads EXCEPT ![l] = x] /\ UNCHANGED shown
    BY <1>2, <1>3 DEF Continue
  <2>2. id \in Ids /\ id < count /\ id # None
    BY <1>3, BoundsAssumption, FrontendAssumption DEF LoopsOn, Ids
  <2>3. rows \in SUBSET Rows
    BY DEF FitRows
  <2>4. x \in Loading /\ x.chain = c /\ x.next = id /\ x.count = count /\ x.rows = rows
    BY <1>2, <2>2, <2>3 DEF Loading
  <2> HIDE DEF x
  <2>5. Met(chain[c], x)
    BY <2>4 DEF Met
  <2>6. x \in FitLoads
    BY <2>4, <2>5 DEF FitLoads
  <2> DEFINE S == FitLoads
  <2> HIDE DEF S, q, c
  <2>7. loads' \in Seq(S)
    <3>1. loads \in Seq(S) /\ x \in S
      BY <1>1, <2>6 DEF S
    <3> QED
      BY <2>1, <3>1, Replaced
  <2> QED
    BY <1>1, <2>1, <2>7 DEF S
<1>4. CASE ~LoopsOn(id, count)
  <2>1. shown' = [shown EXCEPT ![c] = rows]
    BY <1>4 DEF Continue
  <2>2. \A d \in Chains : shown'[d] \subseteq FitRows(d)
    <3>1. shown \in [Chains -> SUBSET Rows]
      BY DEF StateTyped
    <3> QED
      BY <1>1, <1>2, <2>1, <3>1
  <2> DEFINE S == FitLoads
  <2>3. loads \in Seq(S)
    BY <1>1
  <2>4. CASE c = "company"
    <3>1. loads' = RemoveAt(loads, l)
      BY <1>4, <2>4 DEF Continue, LoadEnds
    <3> HIDE DEF S
    <3>2. loads' \in Seq(S)
      BY <2>3, <3>1, Removed
    <3> QED
      BY <2>2, <3>2 DEF S
  <2>5. CASE c # "company"
    <3> DEFINE x == [NewLoad(q.awaitedBy) EXCEPT !.chain = "company"]
    <3>1. loads' = [loads EXCEPT ![l] = x]
      BY <1>2, <1>4, <2>5 DEF Continue
    <3>2. x \in S
      BY <1>2, NewLoadFits DEF Loading
    <3> HIDE DEF S, x
    <3>3. loads' \in Seq(S)
      BY <2>3, <3>1, <3>2, Replaced
    <3> QED
      BY <2>2, <3>3 DEF S
  <2> QED
    BY <2>4, <2>5
<1> QED
  BY <1>3, <1>4

LEMMA LoadStepFits ==
    ASSUME StateTyped, ShownInv, NEW l \in DOMAIN loads, ReadCount(l) \/ ReadStudent(l)
    PROVE  loads' \in Seq(FitLoads) /\ \A c \in Chains : shown'[c] \subseteq FitRows(c)
<1> DEFINE q == loads[l]
           c == q.chain
           st == chain[c]
<1>1. q \in FitLoads /\ q \in Loading /\ c \in Chains /\ st.StudentCount \in Ids
  BY FitParts, RequestsTyped, ChainsTyped DEF Loading
<1>2. CASE ReadCount(l)
  <2>1. Continue(l, 0, st.StudentCount, {})
    BY <1>2 DEF ReadCount
  <2>2. 0 \in Nat /\ 0 <= st.StudentCount /\ st.StudentCount <= st.StudentCount
    BY <1>1, BoundsAssumption DEF Ids
  <2>3. {} \in SUBSET FitRows(c)
    OBVIOUS
  <2> HIDE DEF c, st
  <2>4. \A i \in 0 .. 0 - 1 : st.Students[i] # NoStudent =>
           \E row \in {} : row.id = i /\ row.tag = st.Students[i].tag
    OBVIOUS
  <2> QED
    BY <1>1, <2>1, <2>2, <2>3, <2>4, ContinueFits DEF c, st
<1>3. CASE ReadStudent(l)
  <2> DEFINE id   == q.next + 1
             rows == q.rows \cup RowAt(c, q.next)
  <2>1. Continue(l, id, q.count, rows) /\ q.next # None
    BY <1>3 DEF ReadStudent
  <2>2. q.next \in Ids /\ q.count \in Ids /\ q.next < q.count
    BY <1>1, <2>1 DEF Loading
  <2>3. Met(st, q) /\ q.rows \subseteq FitRows(c)
    BY <1>1, <2>1 DEF FitLoads
  <2>4. q.count <= st.StudentCount
    BY <2>3 DEF Met
  <2>5. q.next < st.StudentCount /\ id \in Nat /\ id <= q.count
    BY <1>1, <2>2, <2>4, BoundsAssumption DEF Ids
  <2>6. rows \in SUBSET FitRows(c)
    BY <1>1, <2>2, <2>3, <2>5, RowAtFits
  <2>7. ASSUME NEW i \in 0 .. id - 1, st.Students[i] # NoStudent
        PROVE  \E row \in rows : row.id = i /\ row.tag = st.Students[i].tag
    <3>1. i \in 0 .. q.next - 1 \/ i = q.next
      BY <2>2, BoundsAssumption DEF Ids
    <3>2. CASE i \in 0 .. q.next - 1
      BY <2>3, <2>7, <3>2 DEF Met
    <3>3. CASE i = q.next
      <4>1. st.Students[q.next] # NoStudent
        BY <2>7, <3>3
      <4>2. [id |-> q.next, tag |-> st.Students[q.next].tag,
             profile |-> st.Students[q.next].profile] \in RowAt(c, q.next)
        BY <4>1 DEF RowAt
      <4> QED
        BY <3>3, <4>2
    <3> QED
      BY <3>1, <3>2, <3>3
  <2> HIDE DEF id, rows
  <2> QED
    BY <2>1, <2>2, <2>4, <2>5, <2>6, <2>7, ContinueFits
<1> QED
  BY <1>2, <1>3

(* A load added or given up.                                                *)
LEMMA LoadsFit ==
    ASSUME StateTyped, ShownInv,
           \/ \E who \in {"mount", "nobody", "graduate"} : loads' = Append(loads, NewLoad(who))
           \/ \E l \in DOMAIN loads : loads' = RemoveAt(loads, l)
           \/ UNCHANGED loads
    PROVE  loads' \in Seq(FitLoads)
<1> DEFINE S == FitLoads
<1>1. loads \in Seq(S)
  BY FitParts
<1>2. ASSUME NEW who \in {"mount", "nobody", "graduate"}, loads' = Append(loads, NewLoad(who))
      PROVE  loads' \in Seq(S)
  <2> DEFINE x == NewLoad(who)
  <2>1. x \in S /\ loads' = Append(loads, x)
    BY <1>2, NewLoadFits
  <2> HIDE DEF S, x
  <2> QED
    BY <1>1, <2>1
<1>3. ASSUME NEW l \in DOMAIN loads, loads' = RemoveAt(loads, l)
      PROVE  loads' \in Seq(S)
  <2> HIDE DEF S
  <2> QED
    BY <1>1, <1>3, Removed
<1> QED
  BY <1>1, <1>2, <1>3

(* A request asked for from a row, one that goes on, or one that is over.   *)
LEMMA RequestsFit ==
    ASSUME StateTyped, ShownInv,
           \/ \E x \in FitRequests : requests' = Append(requests, x)
           \/ \E r \in DOMAIN requests, x \in Requested :
                 /\ x.handler = requests[r].handler /\ x.id = requests[r].id
                 /\ x.tag = requests[r].tag /\ requests' = [requests EXCEPT ![r] = x]
           \/ \E r \in DOMAIN requests : requests' = RemoveAt(requests, r)
           \/ UNCHANGED requests
    PROVE  requests' \in Seq(FitRequests)
<1> DEFINE S == FitRequests
<1>1. requests \in Seq(S) /\ \A r \in DOMAIN requests : requests[r] \in S
  BY FitParts
<1>2. ASSUME NEW x \in S, requests' = Append(requests, x)
      PROVE  requests' \in Seq(S)
  <2> HIDE DEF S
  <2> QED
    BY <1>1, <1>2
<1>3. ASSUME NEW r \in DOMAIN requests, NEW x \in Requested,
             x.handler = requests[r].handler, x.id = requests[r].id,
             x.tag = requests[r].tag, requests' = [requests EXCEPT ![r] = x]
      PROVE  requests' \in Seq(S)
  <2>1. x \in S
    BY <1>1, <1>3 DEF FitRequests, Fits
  <2> HIDE DEF S
  <2> QED
    BY <1>1, <1>3, <2>1, Replaced
<1>4. ASSUME NEW r \in DOMAIN requests, requests' = RemoveAt(requests, r)
      PROVE  requests' \in Seq(S)
  <2> HIDE DEF S
  <2> QED
    BY <1>1, <1>4, Removed
<1> QED
  BY <1>1, <1>2, <1>3, <1>4

LEMMA AskFits ==
    ASSUME PageInv, ShownInv, Click
    PROVE  /\ (\E x \in FitRequests : requests' = Append(requests, x)) \/ UNCHANGED requests
           /\ UNCHANGED <<loads, shown>>
<1>1. StateTyped
  BY DEF PageInv
<1>2. /\ shown["university"] \subseteq FitRows("university")
      /\ shown["company"] \subseteq FitRows("company")
  BY FitParts, Names
<1>3. ASSUME NEW handler \in Handlers, NEW id \in Ids \cup {None}, NEW tag \in Tags \cup {None},
             NEW profile \in Profiles, Asks(handler, id, tag, profile),
             handler # "create" => /\ id \in Ids /\ tag \in Tags
                                   /\ \E row \in FitRows(ChainOf(handler)) :
                                         row.id = id /\ row.tag = tag
      PROVE  /\ \E x \in FitRequests : requests' = Append(requests, x)
             /\ UNCHANGED <<loads, shown>>
  <2> DEFINE x == Request(handler, id, tag, profile)
  <2>1. 0 \in 0 .. MaxClicks - 1
    BY <1>1, <1>3, FrontendAssumption DEF StateTyped, Asks
  <2>2. x \in Requested /\ x.handler = handler /\ x.id = id /\ x.tag = tag
    BY <1>3, <2>1 DEF Request, Requested, Pending
  <2> HIDE DEF x
  <2>3. handler # "create" => Fits(chain[ChainOf(handler)], x)
    BY <1>3, <2>2 DEF FitRows, Fits
  <2>4. x \in FitRequests
    BY <2>2, <2>3 DEF FitRequests
  <2>5. requests' = Append(requests, x) /\ UNCHANGED <<loads, shown>>
    BY <1>3 DEF Asks, x
  <2> QED
    BY <2>4, <2>5
<1>4. \A c : \A row \in FitRows(c) :
         row.id \in Ids /\ row.tag \in Tags /\ row.profile \in Profiles
  BY DEF FitRows, Rows, ValidProfiles
<1>5. /\ {"create", "update", "graduate", "delete", "deleteCompany"} \subseteq Handlers
      /\ ChainOf("update") = "university" /\ ChainOf("graduate") = "university"
      /\ ChainOf("delete") = "university" /\ ChainOf("deleteCompany") = "company"
  BY DEF Handlers, ChainOf
<1>6. CASE \E profile \in Profiles : createStudent(profile)
  <2>1. PICK profile \in Profiles : Asks("create", None, None, profile)
    BY <1>6 DEF createStudent
  <2> QED
    BY <1>3, <1>5, <2>1
<1>7. CASE \E row \in shown["university"] : startEditing(row) \/ cancelEditing(row)
  BY <1>7 DEF startEditing, cancelEditing
<1>8. CASE \E row \in shown["university"], profile \in Profiles : updateStudent(row, profile)
  <2>1. PICK row \in FitRows("university"), profile \in Profiles :
           Asks("update", row.id, row.tag, profile)
    BY <1>2, <1>8 DEF updateStudent
  <2> QED
    BY <1>3, <1>4, <1>5, <2>1
<1>9. CASE \E row \in shown["university"] : graduateStudent(row)
  <2>1. PICK row \in FitRows("university") : Asks("graduate", row.id, row.tag, row.profile)
    BY <1>2, <1>9 DEF graduateStudent
  <2> QED
    BY <1>3, <1>4, <1>5, <2>1
<1>10. CASE \E row \in shown["university"] : deleteStudent(row)
  <2>1. PICK row \in FitRows("university") : Asks("delete", row.id, row.tag, row.profile)
    BY <1>2, <1>10 DEF deleteStudent
  <2> QED
    BY <1>3, <1>4, <1>5, <2>1
<1>11. CASE \E row \in shown["company"] : deleteCompanyStudent(row)
  <2>1. PICK row \in FitRows("company") : Asks("deleteCompany", row.id, row.tag, row.profile)
    BY <1>2, <1>11 DEF deleteCompanyStudent
  <2> QED
    BY <1>3, <1>4, <1>5, <2>1
<1> QED
  BY <1>6, <1>7, <1>8, <1>9, <1>10, <1>11 DEF Click

(* A step of a transaction.                                                 *)
LEMMA TransactionFits ==
    ASSUME PageInv, ShownInv, NEW r \in DOMAIN requests,
           Sign(r) \/ Submit(r) \/ Include(r) \/ Finalize(r) \/ WaitOver(r)
              \/ SubmitFails(r) \/ Drop(r)
    PROVE  /\ requests' \in Seq(FitRequests) /\ loads' \in Seq(FitLoads)
           /\ UNCHANGED shown
<1> DEFINE q == requests[r]
<1>1. StateTyped /\ Budgets
  BY DEF PageInv
<1>2. q \in Requested /\ requests \in Seq(Requested)
  BY <1>1, RequestsTyped
<1>3. ASSUME NEW x \in Requested, x.handler = q.handler, x.id = q.id, x.tag = q.tag,
             requests' = [requests EXCEPT ![r] = x]
      PROVE  requests' \in Seq(FitRequests)
  BY <1>1, <1>3, RequestsFit
<1>4. ASSUME requests' = RemoveAt(requests, r)
      PROVE  requests' \in Seq(FitRequests)
  BY <1>1, <1>4, RequestsFit
<1>5. UNCHANGED shown
  BY DEF Sign, Submit, Include, Finalize, WaitOver, SubmitFails, Drop
<1>6. loads' \in Seq(FitLoads)
  <2>1. UNCHANGED loads \/ loads' = Append(loads, NewLoad("nobody"))
           \/ loads' = Append(loads, NewLoad("graduate"))
    BY DEF Sign, Submit, Include, Finalize, WaitOver, SubmitFails, Drop
  <2> QED
    BY <1>1, <2>1, LoadsFit
<1>7. CASE Sign(r)
  <2> DEFINE n == NextIndex(ChainOf(q.handler))
             x == [q EXCEPT !.phase = "signed", !.nonce = n]
  <2>1. n \in 0 .. MaxClicks - 1
    BY <1>1, <1>2, <1>7, NextIndexTyped DEF Sign
  <2>2. requests' = [requests EXCEPT ![r] = x]
    BY <1>2, <1>7 DEF Sign
  <2> HIDE DEF n
  <2>3. q.phase = "signing"
    BY <1>7 DEF Sign
  <2>4. x \in Requested /\ x.handler = q.handler /\ x.id = q.id /\ x.tag = q.tag
    BY <1>2, <2>1, <2>3 DEF Requested, Pending
  <2> HIDE DEF x
  <2> QED
    BY <1>3, <1>5, <1>6, <2>2, <2>4
<1>8. ASSUME NEW phase \in {"pooled", "inBlock", "waiting"},
             phase = "waiting" => q.handler = "graduate",
             requests' = [requests EXCEPT ![r].phase = phase]
      PROVE  requests' \in Seq(FitRequests)
  <2> DEFINE x == [q EXCEPT !.phase = phase]
  <2>1. requests' = [requests EXCEPT ![r] = x]
    BY <1>2, <1>8
  <2>2. x \in Requested /\ x.handler = q.handler /\ x.id = q.id /\ x.tag = q.tag
    BY <1>2, <1>8 DEF Requested, Pending
  <2> HIDE DEF x
  <2> QED
    BY <1>3, <2>1, <2>2
<1>9. CASE Submit(r) \/ Include(r) \/ Finalize(r) \/ WaitOver(r) \/ SubmitFails(r) \/ Drop(r)
  <2>1. \/ requests' = RemoveAt(requests, r)
        \/ requests' = [requests EXCEPT ![r].phase = "pooled"]
        \/ requests' = [requests EXCEPT ![r].phase = "inBlock"]
        \/ requests' = [requests EXCEPT ![r].phase = "waiting"] /\ q.handler = "graduate"
    BY <1>9 DEF Submit, Caught, Include, Finalize, WaitOver, SubmitFails, Drop
  <2>2. requests' \in Seq(FitRequests)
    BY <1>4, <1>8, <2>1
  <2> QED
    BY <1>5, <1>6, <2>2
<1> QED
  BY <1>7, <1>9

(* What the page takes fits the chains as they are before the step.         *)
LEMMA FitStep ==
    ASSUME PageInv, ShownInv, [Next]_vars
    PROVE  /\ requests' \in Seq(FitRequests) /\ loads' \in Seq(FitLoads)
           /\ \A c \in Chains : shown'[c] \subseteq FitRows(c)
<1>1. StateTyped
  BY DEF PageInv
<1>2. \A c \in Chains : shown[c] \subseteq FitRows(c)
  BY FitParts
<1>3. ASSUME UNCHANGED <<requests, shown>>,
             \/ \E who \in {"mount", "nobody", "graduate"} : loads' = Append(loads, NewLoad(who))
             \/ \E l \in DOMAIN loads : loads' = RemoveAt(loads, l)
             \/ UNCHANGED loads
      PROVE  /\ requests' \in Seq(FitRequests) /\ loads' \in Seq(FitLoads)
             /\ \A c \in Chains : shown'[c] \subseteq FitRows(c)
  <2>1. loads' \in Seq(FitLoads)
    BY <1>1, <1>3, LoadsFit
  <2>2. requests' \in Seq(FitRequests)
    BY <1>3, FitParts
  <2> QED
    BY <1>2, <1>3, <2>1, <2>2
<1>4. CASE Connect \/ ConnectionFails \/ Arrive \/ OthersCall \/ UNCHANGED vars
  <2>1. /\ UNCHANGED <<requests, shown>>
        /\ UNCHANGED loads \/ loads' = Append(loads, NewLoad("mount"))
    BY <1>4 DEF Connect, ConnectionFails, Arrive, OthersCall, OthersEnrol, OthersDelete, vars
  <2> QED
    BY <1>3, <2>1
<1>5. CASE \E l \in DOMAIN loads : LoadFails(l)
  <2>1. /\ UNCHANGED <<requests, shown>>
        /\ \E l \in DOMAIN loads : loads' = RemoveAt(loads, l)
    BY <1>5 DEF LoadFails, LoadEnds
  <2> QED
    BY <1>3, <2>1
<1>6. CASE LoadStep
  <2>1. UNCHANGED requests
    BY <1>6 DEF LoadStep, ReadCount, ReadStudent
  <2>2. requests' \in Seq(FitRequests)
    BY <2>1, FitParts
  <2> QED
    BY <1>1, <1>6, <2>2, LoadStepFits DEF LoadStep
<1>7. CASE Click
  <2>1. /\ (\E x \in FitRequests : requests' = Append(requests, x)) \/ UNCHANGED requests
        /\ UNCHANGED <<loads, shown>>
    BY <1>7, AskFits
  <2>2. requests' \in Seq(FitRequests)
    BY <1>1, <2>1, RequestsFit
  <2>3. loads' \in Seq(FitLoads)
    BY <2>1, FitParts
  <2> QED
    BY <1>2, <2>1, <2>2, <2>3
<1>8. CASE \/ RequestStep
           \/ \E r \in DOMAIN requests : SubmitFails(r) \/ Drop(r)
  <2>1. \E r \in DOMAIN requests : Sign(r) \/ Submit(r) \/ Include(r) \/ Finalize(r)
           \/ WaitOver(r) \/ SubmitFails(r) \/ Drop(r)
    BY <1>8 DEF RequestStep
  <2> QED
    BY <1>2, <2>1, TransactionFits
<1> QED
  BY <1>4, <1>5, <1>6, <1>7, <1>8 DEF Next, Fault

(* And still fits after it.                                                 *)
LEMMA ShownStep ==
    ASSUME PageInv, PageInv', ShownInv, NoWrap, [Next]_vars
    PROVE  ShownInv'
<1>1. Numbered
  BY DEF ShownInv
<1>2. Numbered' /\ \A c \in Chains : Later(chain[c], chain'[c])
  BY <1>1, NumberedStep
<1>3. \A c \in Chains : chain[c] \in Storage /\ chain'[c] \in Storage
  BY DEF PageInv, StateTyped
<1>4. /\ requests' \in Seq(FitRequests) /\ loads' \in Seq(FitLoads)
      /\ \A c \in Chains : shown'[c] \subseteq FitRows(c)
  BY FitStep
<1>5. ASSUME NEW c \in Chains PROVE FitRows(c) \subseteq FitRows(c)'
  <2> SUFFICES ASSUME NEW row \in Rows, Fits(chain[c], row) PROVE Fits(chain'[c], row)
    BY DEF FitRows, Rows
  <2>1. row.id \in Ids
    BY DEF Rows
  <2> QED
    BY <1>2, <1>3, <2>1, LaterFits
<1>6. FitRequests \subseteq FitRequests'
  <2> SUFFICES ASSUME NEW q \in Requested, q.handler # "create",
                      Fits(chain[ChainOf(q.handler)], q)
               PROVE  Fits(chain'[ChainOf(q.handler)], q)
    BY DEF FitRequests, Requested, Pending
  <2>1. q.id \in Ids /\ ChainOf(q.handler) \in Chains
    BY Names DEF Requested
  <2> QED
    BY <1>2, <1>3, <2>1, LaterFits
<1>7. FitLoads \subseteq FitLoads'
  <2> SUFFICES ASSUME NEW q \in Loading, q.rows \subseteq FitRows(q.chain),
                      q.next # None => Met(chain[q.chain], q)
               PROVE  /\ q.rows \subseteq FitRows(q.chain)'
                      /\ q.next # None => Met(chain'[q.chain], q)
    BY DEF FitLoads, Loading, Rows
  <2>1. q.chain \in Chains
    BY DEF Loading
  <2>2. q.rows \subseteq FitRows(q.chain)'
    BY <1>5, <2>1
  <2>3. q.next # None => Met(chain'[q.chain], q)
    BY <1>2, <1>3, <2>1, LaterMet
  <2> QED
    BY <2>2, <2>3
<1>8. requests' \in Seq(FitRequests') /\ loads' \in Seq(FitLoads')
  <2> DEFINE R == FitRequests
             T == FitRequests'
             L == FitLoads
             M == FitLoads'
  <2>1. R \subseteq T /\ L \subseteq M /\ requests' \in Seq(R) /\ loads' \in Seq(L)
    BY <1>4, <1>6, <1>7
  <2> HIDE DEF R, T, L, M
  <2>2. requests' \in Seq(T) /\ loads' \in Seq(M)
    BY <2>1
  <2> QED
    BY <2>2 DEF T, M
<1>9. \A c \in Chains : shown'[c] \subseteq FitRows(c)'
  BY <1>4, <1>5
<1> QED
  BY <1>2, <1>8, <1>9 DEF ShownInv, FitRows, FitRequests, FitLoads

LEMMA ShownInit ==
    ASSUME Init
    PROVE  ShownInv
<1>1. /\ chain = [c \in Chains |-> EmptyStorage] /\ shown = [c \in Chains |-> {}]
      /\ travelling = <<>> /\ enrolled = 0 /\ requests = <<>> /\ loads = <<>>
  BY DEF Init
<1>2. Kept(EmptyStorage) = {} /\ EmptyStorage.StudentCount = 0
  BY DEF Kept, EmptyStorage
<1>3. Cardinality(Kept(EmptyStorage)) = 0
  BY <1>2, FS_EmptySet
<1>4. Numbered
  <2>1. chain["university"] = EmptyStorage /\ chain["company"] = EmptyStorage
    BY <1>1, Names
  <2>2. Len(travelling) = 0 /\ enrolled = 0
    BY <1>1
  <2>3. /\ chain["university"].StudentCount = 0 /\ chain["company"].StudentCount = 0
        /\ Cardinality(Kept(chain["university"])) = 0
    BY <1>2, <1>3, <2>1
  <2> QED
    BY <2>2, <2>3 DEF Numbered
<1>5. \A S : <<>> \in Seq(S)
  OBVIOUS
<1> QED
  BY <1>1, <1>4, <1>5 DEF ShownInv

LEMMA ShownAlways ==
    ASSUME NoWrap
    PROVE  Spec => [](PageInv /\ ShownInv)
<1>1. Init => PageInv /\ ShownInv
  BY PageInit, ShownInit
<1>2. PageInv /\ ShownInv /\ [Next]_vars => (PageInv /\ ShownInv)'
  BY PageStep, ShownStep
<1> QED
  BY <1>1, <1>2, PTL DEF Spec

-----------------------------------------------------------------------------
(* What the tab does to the chains, and what it shows of them *)

LEMMA IncludesClicked ==
    ASSUME PageInv, ShownInv
    PROVE  ChangesClicked
<1> SUFFICES ASSUME NEW r \in DOMAIN requests, Include(r), requests[r].handler # "create",
                    chain'[ChainOf(requests[r].handler)] # chain[ChainOf(requests[r].handler)]
             PROVE  chain[ChainOf(requests[r].handler)].Students[requests[r].id].tag
                       = requests[r].tag
  BY DEF ChangesClicked
<1> DEFINE q == requests[r]
           c == ChainOf(q.handler)
<1>1. chain[c].Students[q.id] # NoStudent
  BY IncludeDoes
<1>2. Fits(chain[c], q)
  BY FitParts DEF FitRequests
<1> QED
  BY <1>1, <1>2 DEF Fits

LEMMA FinishesWhole ==
    ASSUME PageInv, ShownInv
    PROVE  ShowsStored
<1> SUFFICES ASSUME NEW l \in DOMAIN loads, FinishesChain(l),
                    NEW id \in 0 .. loads[l].count - 1,
                    chain[loads[l].chain].Students[id] # NoStudent
             PROVE  \E row \in shown'[loads[l].chain] :
                       row.id = id /\ row.tag = chain[loads[l].chain].Students[id].tag
  BY DEF ShowsStored
<1> DEFINE q == loads[l]
           c == q.chain
           st == chain[c]
           rows == q.rows \cup RowAt(c, q.next)
<1>1. StateTyped
  BY DEF PageInv
<1>2. q \in FitLoads /\ q \in Loading /\ c \in Chains /\ loads \in Seq(Loading)
  BY <1>1, FitParts, RequestsTyped DEF Loading
<1>3. Continue(l, q.next + 1, q.count, rows) /\ q.next # None
  BY DEF FinishesChain, ReadStudent
<1>4. q.next \in Ids /\ q.count \in Ids /\ q.next < q.count /\ Met(st, q)
  BY <1>2, <1>3 DEF Loading, FitLoads
<1>5. ~LoopsOn(q.next + 1, q.count)
  <2> SUFFICES ASSUME LoopsOn(q.next + 1, q.count) PROVE FALSE
    OBVIOUS
  <2> DEFINE x == [q EXCEPT !.next = q.next + 1, !.count = q.count, !.rows = rows]
  <2>1. loads' = [loads EXCEPT ![l] = x]
    BY <1>2, <1>3 DEF Continue
  <2>2. x.chain = c
    BY <1>2 DEF Loading
  <2> HIDE DEF x
  <2>3. loads'[l] = x /\ Len(loads') = Len(loads) /\ Len(loads) \in Nat
    BY <1>2, <2>1
  <2>4. Len(RemoveAt(loads, l)) = Len(loads) - 1
    BY <1>2, Removed
  <2> QED
    BY <2>2, <2>3, <2>4 DEF FinishesChain
<1>6. shown'[c] = rows
  <2>1. shown' = [shown EXCEPT ![c] = rows] /\ shown \in [Chains -> SUBSET Rows]
    BY <1>1, <1>3, <1>5 DEF Continue, StateTyped
  <2> QED
    BY <1>2, <2>1
<1>7. id \in 0 .. q.next - 1 \/ id = q.next
  BY <1>4, <1>5, BoundsAssumption DEF LoopsOn, Ids
<1>8. CASE id \in 0 .. q.next - 1
  <2>1. \E row \in q.rows : row.id = id /\ row.tag = st.Students[id].tag
    BY <1>4, <1>8 DEF Met
  <2> QED
    BY <1>6, <2>1
<1>9. CASE id = q.next
  <2>1. [id |-> q.next, tag |-> st.Students[q.next].tag,
         profile |-> st.Students[q.next].profile] \in RowAt(c, q.next)
    BY <1>9 DEF RowAt
  <2> QED
    BY <1>6, <1>9, <2>1
<1> QED
  BY <1>7, <1>8, <1>9

(* Whatever is finalized late, whatever the others enrol and delete in the  *)
(* meantime: a transaction of the tab changes the student whose row was     *)
(* clicked, or nothing, as long as the counter of ids does not wrap.        *)
THEOREM ClicksReachTheirStudent == NoWrap => (Spec => ActsOnShown)
<1> SUFFICES ASSUME NoWrap PROVE Spec => ActsOnShown
  OBVIOUS
<1>1. Spec => [](PageInv /\ ShownInv)
  BY ShownAlways
<1>2. PageInv /\ ShownInv /\ [Next]_vars => [ChangesClicked]_vars
  BY IncludesClicked
<1> QED
  BY <1>1, <1>2, PTL DEF Spec, ActsOnShown

(* A load that ends with a chain shows every student stored there below the *)
(* count it read first, however long it took and whatever happened to the   *)
(* chain while it read one id after the other.                              *)
THEOREM LoadsMissNobody == NoWrap => (Spec => EveryStudentShown)
<1> SUFFICES ASSUME NoWrap PROVE Spec => EveryStudentShown
  OBVIOUS
<1>1. Spec => [](PageInv /\ ShownInv)
  BY ShownAlways
<1>2. PageInv /\ ShownInv /\ [Next]_vars => [ShowsStored]_vars
  BY FinishesWhole
<1> QED
  BY <1>1, <1>2, PTL DEF Spec, EveryStudentShown
=============================================================================
