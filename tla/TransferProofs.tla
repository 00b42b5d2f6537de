--------------------------- MODULE TransferProofs ---------------------------
(***************************************************************************)
(* Theorems about the two chains and the channel between them, for every   *)
(* set of users and profiles, every limit, page size and capacity, as long *)
(* as the counters do not wrap: fewer than 2^32 students are enrolled.     *)
(***************************************************************************)
EXTENDS Transfer, StudentCallsProofs, SequenceTheorems

-----------------------------------------------------------------------------
(* The channel: what HrmpChannelProofs proves, of the students on the way   *)

Queue == INSTANCE HrmpChannelProofs WITH
    Messages    <- StudentMessages,
    MaxInFlight <- MaxEnrolments

(* The two instances of the channel are made of the same operators.         *)
LEMMA SameChannel ==
    /\ \A s : Channel!FlattenSeq(s) = Queue!FlattenSeq(s)
    /\ \A s : Channel!Last(s) = Queue!Last(s)
    /\ Queue!ChannelAssumption
  BY SizesAssumption, TagsAssumption
     DEF Channel!FlattenSeq, Queue!FlattenSeq, Channel!Last, Queue!Last,
         Queue!ChannelAssumption

(* The queues of the channel have the types of TypeOK.                      *)
QueuesTyped ==
    /\ pages \in Seq(Seq(StudentMessages))
    /\ relay \in Seq(Seq(StudentMessages))
    /\ inbox \in Seq(StudentMessages)

LEMMA SameQueues ==
    /\ QueuesTyped <=> Queue!Queues
    /\ Travelling = Queue!InFlight
  BY SameChannel DEF QueuesTyped, Queue!Queues, Travelling, Channel!InFlight, Queue!InFlight

LEMMA SameQueuesNext ==
    /\ QueuesTyped' <=> Queue!Queues'
    /\ Travelling' = Queue!InFlight'
  BY SameChannel DEF QueuesTyped, Queue!Queues, Travelling, Channel!InFlight, Queue!InFlight

LEMMA TravellingType ==
    ASSUME QueuesTyped
    PROVE  Travelling \in Seq(StudentMessages)
  BY SameChannel, SameQueues, Queue!FlightParts

(* graduate_student puts its message behind the others.                     *)
LEMMA SendTravels ==
    ASSUME QueuesTyped, NEW m \in StudentMessages, Channel!Send(m)
    PROVE  /\ QueuesTyped' /\ UNCHANGED established
           /\ Travelling' = Append(Travelling, m)
<1>1. Queue!Send(m) /\ UNCHANGED established
  BY SameChannel
     DEF Channel!Send, Channel!CanSend, Channel!Packed, Queue!Send, Queue!CanSend, Queue!Packed
<1> QED
  BY <1>1, SameChannel, SameQueues, SameQueuesNext, Queue!SendAppends

(* Blocks move the messages on, and leave their order alone.                *)
LEMMA ChannelKeeps ==
    ASSUME QueuesTyped, Channel!Establish \/ Channel!TakePage \/ Channel!Enqueue
    PROVE  QueuesTyped' /\ Travelling' = Travelling
<1>1. CASE Channel!Establish
  BY <1>1 DEF Channel!Establish, QueuesTyped, Travelling, Channel!InFlight
<1>2. CASE Channel!TakePage
  <2>1. Queue!TakePage
    BY <1>2 DEF Channel!TakePage, Queue!TakePage
  <2> QED
    BY <2>1, SameChannel, SameQueues, SameQueuesNext, Queue!TakePageKeeps
<1>3. CASE Channel!Enqueue
  <2>1. Queue!Enqueue
    BY <1>3 DEF Channel!Enqueue, Queue!Enqueue
  <2> QED
    BY <2>1, SameChannel, SameQueues, SameQueuesNext, Queue!EnqueueKeeps
<1> QED
  BY <1>1, <1>2, <1>3

(* The message that is executed is the oldest one.                          *)
LEMMA ServiceTravels ==
    ASSUME QueuesTyped, Channel!Service
    PROVE  /\ QueuesTyped' /\ UNCHANGED established
           /\ Travelling # <<>>
           /\ Head(inbox) = Head(Travelling) /\ Head(inbox) \in StudentMessages
           /\ Travelling' = Tail(Travelling)
<1>1. Queue!Service /\ UNCHANGED established
  BY DEF Channel!Service, Queue!Service
<1> QED
  BY <1>1, SameChannel, SameQueues, SameQueuesNext, Queue!ServiceTakes

-----------------------------------------------------------------------------
(* What a step is, once the errors and the storage layer are seen through   *)

Chained(c, st) == chain' = [chain EXCEPT ![c] = st]

(* create_student, or receive_student called by a user                      *)
EnrolStep(c) ==
    \E a \in Accounts, x \in Students :
        /\ enrolled < MaxEnrolments
        /\ x.tag = enrolled + 1
        /\ Enrol(chain[c], a, x).err = "none"
        /\ Chained(c, Enrol(chain[c], a, x).st)
        /\ enrolled' = enrolled + 1
        /\ UNCHANGED <<channelVars, departed, gone>>

(* update_student                                                           *)
AmendStep(c) ==
    \E a \in Accounts, id \in Ids, x \in Students :
        /\ Listed(chain[c].StudentsByOwner[a], id)
        /\ x.tag = chain[c].Students[id].tag
        /\ x.has_graduated = chain[c].Students[id].has_graduated
        /\ Chained(c, WithStudent(chain[c], id, x))
        /\ UNCHANGED <<channelVars, enrolled, departed, gone>>

(* delete_student or delete_any_student                                     *)
RemoveStep(c) ==
    \E a \in Accounts, id \in Ids :
        /\ Listed(chain[c].StudentsByOwner[a], id)
        /\ Chained(c, Erased(chain[c], a, id))
        /\ gone' = [gone EXCEPT ![chain[c].Students[id].tag] =
                        [how |-> "removed", owner |-> a]]
        /\ UNCHANGED <<channelVars, enrolled, departed>>

(* graduate_student, on the University                                      *)
DepartStep ==
    \E a \in Accounts, id \in Ids :
        LET m == [student   |-> [chain["university"].Students[id]
                                    EXCEPT !.has_graduated = TRUE],
                  new_owner |-> a]
        IN  /\ Listed(chain["university"].StudentsByOwner[a], id)
            /\ Chained("university", Erased(chain["university"], a, id))
            /\ Channel!Send(m)
            /\ departed' = departed \cup {m.student.tag}
            /\ UNCHANGED <<enrolled, gone>>

(* receive_student, by a message                                            *)
ArriveStep ==
    LET m == Head(inbox) IN
        /\ Channel!Service
        /\ Enrol(chain["company"], m.new_owner, m.student).err = "none"
        /\ Chained("company", Enrol(chain["company"], m.new_owner, m.student).st)
        /\ UNCHANGED <<enrolled, departed, gone>>

(* receive_student fails: the owner has no place left on the Company        *)
LoseStep ==
    LET m == Head(inbox) IN
        /\ Channel!Service
        /\ Len(chain["company"].StudentsByOwner[m.new_owner]) >= MaxStudentsPerOwner
        /\ gone' = [gone EXCEPT ![m.student.tag] = [how |-> "lost", owner |-> m.new_owner]]
        /\ UNCHANGED <<chain, enrolled, departed>>

MoveStep ==
    /\ Channel!Establish \/ Channel!TakePage \/ Channel!Enqueue
    /\ UNCHANGED <<chain, enrolled, departed, gone>>

(* A call that fails is undone.                                             *)
LEMMA UndoneCall ==
    ASSUME TypeOK, NEW c \in Chains, NEW outcome, outcome.err # "none", Ends(c, outcome)
    PROVE  chain' = chain
  BY DEF Ends, Committed, TypeOK

LEMMA DoneCall ==
    ASSUME TypeOK, NEW c \in Chains, NEW outcome, outcome.err = "none", Ends(c, outcome)
    PROVE  Chained(c, outcome.st)
  BY DEF Ends, Committed, Chained, TypeOK

LEMMA CreateSteps ==
    ASSUME TypeOK, NEW c \in Chains, NEW origin \in Callers, NEW profile \in Profiles,
           Create(c, origin, profile)
    PROVE  EnrolStep(c) \/ UNCHANGED vars
<1> DEFINE outcome == create_student(chain[c], origin, profile, enrolled + 1)
           x       == [tag |-> enrolled + 1, profile |-> profile, has_graduated |-> FALSE]
<1>1. /\ enrolled < MaxEnrolments /\ Ends(c, outcome)
      /\ enrolled' = IF outcome.err = "none" THEN enrolled + 1 ELSE enrolled
      /\ UNCHANGED <<channelVars, departed, gone>>
  BY DEF Create, Enrols
<1>2. /\ chain[c] \in Storage /\ origin \in Origins /\ enrolled + 1 \in Tags
  BY <1>1, TagsAssumption, AccountsAssumption DEF TypeOK, Callers, Origins
<1>3. CASE outcome.err = "none"
  <2>1. origin \in Accounts /\ x \in Students /\ outcome = Enrol(chain[c], origin, x)
    BY <1>2, <1>3, CreateOutcome
  <2>2. Chained(c, outcome.st)
    BY <1>1, <1>3, DoneCall
  <2>3. x.tag = enrolled + 1
    OBVIOUS
  <2> HIDE DEF x, outcome
  <2> QED
    BY <1>1, <1>3, <2>1, <2>2, <2>3 DEF EnrolStep
<1>4. CASE outcome.err # "none"
  BY <1>1, <1>4, UndoneCall DEF vars
<1> QED
  BY <1>3, <1>4

LEMMA ReceiveSteps ==
    ASSUME TypeOK, NEW c \in Chains, NEW origin \in Callers, NEW profile \in ValidProfiles,
           NEW graduated \in BOOLEAN, NEW owner \in Accounts,
           Receive(c, origin, profile, graduated, owner)
    PROVE  EnrolStep(c) \/ UNCHANGED vars
<1> DEFINE x       == [tag |-> enrolled + 1, profile |-> profile, has_graduated |-> graduated]
           outcome == receive_student(chain[c], origin, x, owner)
<1>1. /\ enrolled < MaxEnrolments /\ Ends(c, outcome)
      /\ enrolled' = IF outcome.err = "none" THEN enrolled + 1 ELSE enrolled
      /\ UNCHANGED <<channelVars, departed, gone>>
  BY DEF Receive, Enrols
<1>2. /\ chain[c] \in Storage /\ origin \in Origins /\ owner \in Accounts
      /\ enrolled + 1 \in Tags
  BY <1>1, TagsAssumption, AccountsAssumption DEF TypeOK, Callers, Origins
<1>3. x \in Students /\ x.tag = enrolled + 1
  BY <1>2 DEF Students
<1> HIDE DEF x
<1>4. CASE outcome.err = "none"
  <2>1. outcome = Enrol(chain[c], owner, x)
    BY <1>2, <1>3, <1>4, ReceiveOutcome
  <2>2. Chained(c, outcome.st)
    BY <1>1, <1>4, DoneCall
  <2> HIDE DEF outcome
  <2> QED
    BY <1>1, <1>2, <1>3, <1>4, <2>1, <2>2 DEF EnrolStep
<1>5. CASE outcome.err # "none"
  BY <1>1, <1>5, UndoneCall DEF vars
<1> QED
  BY <1>4, <1>5

LEMMA UpdateSteps ==
    ASSUME TypeOK, NEW c \in Chains, NEW origin \in Callers, NEW id \in Ids,
           NEW profile \in Profiles, Update(c, origin, id, profile)
    PROVE  AmendStep(c) \/ UNCHANGED vars
<1> DEFINE outcome == update_student(chain[c], origin, id, profile)
           x       == [chain[c].Students[id] EXCEPT !.profile = profile]
<1>1. Ends(c, outcome) /\ UNCHANGED <<channelVars, enrolled, departed, gone>>
  BY DEF Update
<1>2. chain[c] \in Storage /\ origin \in Origins
  BY AccountsAssumption DEF TypeOK, Callers, Origins
<1>3. CASE outcome.err = "none"
  <2>1. /\ origin \in Accounts /\ Listed(chain[c].StudentsByOwner[origin], id)
        /\ chain[c].Students[id] \in Students /\ x \in Students
        /\ outcome.st = WithStudent(chain[c], id, x)
    BY <1>2, <1>3, UpdateOutcome
  <2>2. /\ x.tag = chain[c].Students[id].tag
        /\ x.has_graduated = chain[c].Students[id].has_graduated
    BY <2>1 DEF Students
  <2>3. Chained(c, outcome.st)
    BY <1>1, <1>3, DoneCall
  <2> HIDE DEF x, outcome
  <2> QED
    BY <1>1, <2>1, <2>2, <2>3 DEF AmendStep
<1>4. CASE outcome.err # "none"
  BY <1>1, <1>4, UndoneCall DEF vars
<1> QED
  BY <1>3, <1>4

(* The one who holds the id, and so the owner the ghost notes.              *)
LEMMA HolderIs ==
    ASSUME NEW st \in Storage, Exact(st), NEW a \in Accounts, NEW id \in Ids,
           Listed(st.StudentsByOwner[a], id)
    PROVE  HolderOf(st, id) = a
<1>1. a \in Holders(st, id) /\ \A b \in Holders(st, id) : b = a
  BY DEF Holders, Exact, OneOwner
<1> QED
  BY <1>1 DEF HolderOf

LEMMA RemovesSteps ==
    ASSUME TypeOK, ChainsExact, NEW c \in Chains, NEW id \in Ids, NEW a \in Accounts,
           NEW outcome, Removes(c, id, outcome),
           outcome.err = "none" =>
              Listed(chain[c].StudentsByOwner[a], id) /\ outcome.st = Erased(chain[c], a, id)
    PROVE  RemoveStep(c) \/ UNCHANGED vars
<1>1. Ends(c, outcome) /\ UNCHANGED <<channelVars, enrolled, departed>>
  BY DEF Removes
<1>2. CASE outcome.err = "none"
  <2>1. Chained(c, outcome.st)
    BY <1>1, <1>2, DoneCall
  <2>2. HolderOf(chain[c], id) = a
    BY <1>2, HolderIs DEF TypeOK, ChainsExact
  <2>3. gone' = [gone EXCEPT ![chain[c].Students[id].tag] =
                     [how |-> "removed", owner |-> a]]
    BY <1>2, <2>2 DEF Removes
  <2> QED
    BY <1>1, <1>2, <2>1, <2>3 DEF RemoveStep
<1>3. CASE outcome.err # "none"
  <2>1. chain' = chain
    BY <1>1, <1>3, UndoneCall
  <2>2. gone' = gone
    BY <1>3 DEF Removes
  <2> QED
    BY <1>1, <2>1, <2>2 DEF vars
<1> QED
  BY <1>2, <1>3

LEMMA DeleteSteps ==
    ASSUME TypeOK, ChainsExact, NEW c \in Chains, NEW origin \in Callers, NEW id \in Ids,
           Delete(c, origin, id)
    PROVE  RemoveStep(c) \/ UNCHANGED vars
<1> DEFINE outcome == delete_student(chain[c], origin, id)
<1>1. chain[c] \in Storage /\ origin \in Origins
  BY AccountsAssumption DEF TypeOK, Callers, Origins
<1>2. Removes(c, id, outcome)
  BY DEF Delete
<1>3. CASE outcome.err = "none"
  <2>1. /\ origin \in Accounts /\ Listed(chain[c].StudentsByOwner[origin], id)
        /\ outcome.st = Erased(chain[c], origin, id)
    BY <1>1, <1>3, DeleteOutcome
  <2> HIDE DEF outcome
  <2> QED
    BY <1>2, <2>1, RemovesSteps
<1>4. CASE outcome.err # "none"
  <2> HIDE DEF outcome
  <2> QED
    BY <1>2, <1>4, UndoneCall DEF Removes, vars
<1> QED
  BY <1>3, <1>4

(* Since the two maps agree, the search through StudentsByOwner for a       *)
(* stored id finds its owner.                                               *)
LEMMA DeleteAnySteps ==
    ASSUME TypeOK, ChainsExact, NEW c \in Chains, NEW origin \in Callers, NEW id \in Ids,
           NEW first \in MetFirst(c, id), DeleteAny(c, origin, id, first)
    PROVE  RemoveStep(c) \/ UNCHANGED vars
<1> DEFINE outcome == delete_any_student(chain[c], origin, id, first)
<1>1. chain[c] \in Storage /\ origin \in Origins /\ first \in Accounts
  BY AccountsAssumption DEF TypeOK, Callers, Origins, MetFirst, Holders
<1>2. Removes(c, id, outcome)
  BY DEF DeleteAny
<1>3. CASE outcome.err = "none"
  <2>1. chain[c].Students[id] # NoStudent
    BY <1>1, <1>3, DeleteAnyOutcome
  <2>2. Holders(chain[c], id) # {}
    BY <2>1 DEF ChainsExact, Exact, ListedIffStored
  <2>3. Listed(chain[c].StudentsByOwner[first], id)
    BY <2>2 DEF MetFirst, Holders
  <2>4. outcome.st = Erased(chain[c], first, id)
    BY <1>1, <1>3, <2>3, DeleteAnyOutcome
  <2> HIDE DEF outcome
  <2> QED
    BY <1>1, <1>2, <2>3, <2>4, RemovesSteps
<1>4. CASE outcome.err # "none"
  <2> HIDE DEF outcome
  <2> QED
    BY <1>2, <1>4, UndoneCall DEF Removes, vars
<1> QED
  BY <1>3, <1>4

LEMMA GraduateSteps ==
    ASSUME TypeOK, NEW c \in Chains, NEW origin \in Callers, NEW id \in Ids,
           Graduate(c, origin, id)
    PROVE  DepartStep \/ UNCHANGED vars
<1> DEFINE delivered == c = "university" /\ Channel!CanSend
           outcome   == graduate_student(chain[c], origin, id, delivered)
           m         == [student   |-> [chain[c].Students[id] EXCEPT !.has_graduated = TRUE],
                         new_owner |-> origin]
<1>1. /\ Ends(c, outcome)
      /\ IF Sent(outcome) = <<>> THEN UNCHANGED <<channelVars, departed>>
         ELSE /\ Channel!Send(Head(Sent(outcome)))
              /\ departed' = departed \cup {Head(Sent(outcome)).student.tag}
      /\ UNCHANGED <<enrolled, gone>>
  BY DEF Graduate
<1>2. chain[c] \in Storage /\ origin \in Origins /\ delivered \in BOOLEAN
  BY AccountsAssumption DEF TypeOK, Callers, Origins, Channel!CanSend
<1>3. CASE outcome.err = "none"
  <2>1. /\ origin \in Accounts /\ Listed(chain[c].StudentsByOwner[origin], id)
        /\ delivered
        /\ outcome.st = Erased(chain[c], origin, id)
        /\ outcome.sent = <<m>>
    <3> HIDE DEF delivered
    <3> QED
      BY <1>2, <1>3, GraduateOutcome
  <2>2. c = "university"
    BY <2>1
  <2>3. Chained(c, outcome.st)
    BY <1>1, <1>3, DoneCall
  <2>4. Sent(outcome) = <<m>> /\ Sent(outcome) # <<>> /\ Head(Sent(outcome)) = m
    <3> HIDE DEF outcome, m
    <3> QED
      BY <1>3, <2>1 DEF Sent
  <2>5. Channel!Send(m) /\ departed' = departed \cup {m.student.tag}
    BY <1>1, <2>4
  <2> HIDE DEF outcome, delivered
  <2> QED
    BY <1>1, <2>1, <2>2, <2>3, <2>5 DEF DepartStep
<1>4. CASE outcome.err # "none"
  <2> HIDE DEF outcome
  <2> QED
    BY <1>1, <1>4, UndoneCall DEF Sent, vars
<1> QED
  BY <1>3, <1>4

(* The sovereign account may make the call: the owner's list must be full.  *)
LEMMA FailedReceipt ==
    ASSUME NEW st \in Storage, NEW origin \in Accounts, NEW x \in Students,
           NEW owner \in Accounts, receive_student(st, origin, x, owner).err # "none"
    PROVE  Len(st.StudentsByOwner[owner]) >= MaxStudentsPerOwner
<1>1. Enrol(st, owner, x).err # "none"
  BY DEF receive_student
<1> QED
  BY <1>1 DEF Enrol, Ok

LEMMA ReceiveByXcmSteps ==
    ASSUME TypeOK, ReceiveByXcm
    PROVE  ArriveStep \/ LoseStep
<1> DEFINE m       == Head(inbox)
           outcome == receive_student(chain["company"], Sovereign, m.student, m.new_owner)
<1>1. /\ Channel!Service
      /\ Ends("company", outcome)
      /\ gone' = IF outcome.err = "none" THEN gone
                 ELSE [gone EXCEPT ![m.student.tag] = [how |-> "lost", owner |-> m.new_owner]]
      /\ UNCHANGED <<enrolled, departed>>
  BY DEF ReceiveByXcm
<1>2. /\ chain["company"] \in Storage /\ Sovereign \in Origins
      /\ m.student \in Students /\ m.new_owner \in Accounts
  <2>1. QueuesTyped
    BY DEF TypeOK, QueuesTyped
  <2>2. m \in StudentMessages
    BY <1>1, <2>1, ServiceTravels
  <2> HIDE DEF m
  <2> QED
    BY <2>2, AccountsAssumption DEF TypeOK, Chains, Origins, StudentMessages
<1>3. "company" \in Chains
  BY DEF Chains
<1>4. CASE outcome.err = "none"
  <2>1. outcome = Enrol(chain["company"], m.new_owner, m.student)
    <3> HIDE DEF m
    <3> QED
      BY <1>2, <1>4, ReceiveOutcome
  <2>2. Chained("company", outcome.st)
    BY <1>1, <1>3, <1>4, DoneCall
  <2> HIDE DEF outcome
  <2> QED
    BY <1>1, <1>4, <2>1, <2>2 DEF ArriveStep
<1>5. CASE outcome.err # "none"
  <2>1. chain' = chain
    BY <1>1, <1>3, <1>5, UndoneCall
  <2>2. Len(chain["company"].StudentsByOwner[m.new_owner]) >= MaxStudentsPerOwner
    <3> HIDE DEF m
    <3> QED
      BY <1>2, <1>5, FailedReceipt, AccountsAssumption
  <2> HIDE DEF outcome
  <2> QED
    BY <1>1, <1>5, <2>1, <2>2 DEF LoseStep
<1> QED
  BY <1>4, <1>5

(* Every step is one of these seven, or a call that failed.                 *)
LEMMA NextSteps ==
    ASSUME TypeOK, ChainsExact, Next
    PROVE  \/ \E c \in Chains : EnrolStep(c) \/ AmendStep(c) \/ RemoveStep(c)
           \/ DepartStep \/ ArriveStep \/ LoseStep \/ MoveStep
           \/ UNCHANGED vars
<1>1. CASE UserCall
  BY <1>1, CreateSteps, ReceiveSteps, UpdateSteps, DeleteSteps, DeleteAnySteps, GraduateSteps
     DEF UserCall
<1>2. CASE OpenChannel \/ TakePage \/ Enqueue
  BY <1>2 DEF OpenChannel, TakePage, Enqueue, MoveStep
<1>3. CASE ReceiveByXcm
  BY <1>3, ReceiveByXcmSteps
<1> QED
  BY <1>1, <1>2, <1>3 DEF Next

-----------------------------------------------------------------------------
(* What a step does to the records of both chains                           *)

Student(c, id) == chain[c].Students[id]

Kept(c) == {id \in Ids : Student(c, id) # NoStudent}

(* The record under the id becomes x, and that is all that happens to the   *)
(* records of the two chains.                                               *)
Becomes(c, id, x) ==
    \A d \in Chains, i \in Ids :
        Student(d, i)' = IF d = c /\ i = id THEN x ELSE Student(d, i)

LEMMA StudentType ==
    ASSUME TypeOK, NEW c \in Chains, NEW id \in Ids
    PROVE  Student(c, id) \in Students \cup {NoStudent}
  BY StorageParts DEF TypeOK, Student

LEMMA KeptIn ==
    ASSUME TypeOK, NEW c \in Chains, NEW id \in Ids
    PROVE  Student(c, id) # NoStudent <=> Student(c, id) \in Students
  BY StudentType, NoStudentAssumption

(* One chain's storage changes, the other's does not.                       *)
LEMMA ChainedStorage ==
    ASSUME TypeOK, ChainsExact, NEW c \in Chains, NEW st \in Storage,
           Exact(st), BelowCount(st), Chained(c, st)
    PROVE  /\ chain' \in [Chains -> Storage]
           /\ ChainsExact'
           /\ chain'[c] = st
           /\ \A d \in Chains \ {c} : chain'[d] = chain[d]
  BY DEF TypeOK, ChainsExact, Chained

LEMMA EnrolledRecords ==
    ASSUME TypeOK, ChainsExact, NEW c \in Chains, NEW a \in Accounts, NEW x \in Students,
           chain[c].StudentCount + 1 < IdSpace,
           Enrol(chain[c], a, x).err = "none", Chained(c, Enrol(chain[c], a, x).st)
    PROVE  /\ chain' \in [Chains -> Storage] /\ ChainsExact'
           /\ chain[c].StudentCount \in Ids
           /\ Student(c, chain[c].StudentCount) = NoStudent
           /\ Becomes(c, chain[c].StudentCount, x)
           /\ chain'[c].StudentCount = chain[c].StudentCount + 1
           /\ \A d \in Chains \ {c} : chain'[d] = chain[d]
<1> DEFINE s == chain[c]
           t == Enrol(chain[c], a, x).st
<1>1. s \in Storage /\ Exact(s) /\ BelowCount(s)
  BY DEF TypeOK, ChainsExact
<1>2. s.StudentCount \in Ids /\ s.StudentCount \in Nat
  BY <1>1, StorageParts DEF Ids
<1>3. NextId(s) = s.StudentCount + 1
  BY <1>2, BoundsAssumption DEF NextId
<1>4. /\ t \in Storage
      /\ t.StudentCount = s.StudentCount + 1
      /\ \A y \in Ids : t.Students[y] = IF y = s.StudentCount THEN x ELSE s.Students[y]
  BY <1>1, <1>3, EnrolType
<1>5. Exact(t) /\ BelowCount(t)
  BY <1>1, <1>3, EnrolExact
<1>6. Chained(c, t)
  OBVIOUS
<1>7. s.Students[s.StudentCount] = NoStudent
  BY <1>1, <1>2 DEF BelowCount
<1> HIDE DEF t
<1>8. /\ chain' \in [Chains -> Storage] /\ ChainsExact' /\ chain'[c] = t
      /\ \A d \in Chains \ {c} : chain'[d] = chain[d]
  BY <1>4, <1>5, <1>6, ChainedStorage
<1>9. Becomes(c, s.StudentCount, x)
  BY <1>4, <1>8 DEF Becomes, Student
<1> QED
  BY <1>2, <1>4, <1>7, <1>8, <1>9 DEF Student

LEMMA ErasedRecords ==
    ASSUME TypeOK, ChainsExact, NEW c \in Chains, NEW a \in Accounts, NEW id \in Ids,
           Listed(chain[c].StudentsByOwner[a], id), Chained(c, Erased(chain[c], a, id))
    PROVE  /\ chain' \in [Chains -> Storage] /\ ChainsExact'
           /\ Student(c, id) \in Students
           /\ Becomes(c, id, NoStudent)
           /\ \A d \in Chains : chain'[d].StudentCount = chain[d].StudentCount
<1> DEFINE s == chain[c]
           t == Erased(chain[c], a, id)
<1>1. s \in Storage /\ Exact(s) /\ BelowCount(s)
  BY DEF TypeOK, ChainsExact
<1>2. /\ t \in Storage
      /\ t.StudentCount = s.StudentCount
      /\ \A y \in Ids : t.Students[y] = IF y = id THEN NoStudent ELSE s.Students[y]
  BY <1>1, ErasedType
<1>3. Exact(t) /\ BelowCount(t)
  BY <1>1, ErasedExact
<1>4. s.Students[id] # NoStudent
  BY <1>1, ExactMeans
<1>5. Student(c, id) \in Students
  BY <1>4, KeptIn DEF Student
<1> HIDE DEF t
<1>6. /\ chain' \in [Chains -> Storage] /\ ChainsExact' /\ chain'[c] = t
      /\ \A d \in Chains \ {c} : chain'[d] = chain[d]
  BY <1>2, <1>3, ChainedStorage DEF t
<1>7. Becomes(c, id, NoStudent)
  BY <1>2, <1>6 DEF Becomes, Student
<1> QED
  BY <1>2, <1>5, <1>6, <1>7

LEMMA AmendedRecords ==
    ASSUME TypeOK, ChainsExact, NEW c \in Chains, NEW a \in Accounts, NEW id \in Ids,
           NEW x \in Students,
           Listed(chain[c].StudentsByOwner[a], id), Chained(c, WithStudent(chain[c], id, x))
    PROVE  /\ chain' \in [Chains -> Storage] /\ ChainsExact'
           /\ Student(c, id) \in Students
           /\ Becomes(c, id, x)
           /\ \A d \in Chains : chain'[d].StudentCount = chain[d].StudentCount
<1> DEFINE s == chain[c]
           t == WithStudent(chain[c], id, x)
<1>1. s \in Storage /\ Exact(s) /\ BelowCount(s)
  BY DEF TypeOK, ChainsExact
<1>2. /\ t \in Storage
      /\ t.StudentCount = s.StudentCount
      /\ \A y \in Ids : t.Students[y] = IF y = id THEN x ELSE s.Students[y]
  BY <1>1, WithStudentType
<1>3. s.Students[id] # NoStudent
  BY <1>1, ExactMeans
<1>4. Exact(t) /\ BelowCount(t)
  BY <1>1, <1>3, AmendedExact
<1>5. Student(c, id) \in Students
  BY <1>3, KeptIn DEF Student
<1> HIDE DEF t
<1>6. /\ chain' \in [Chains -> Storage] /\ ChainsExact' /\ chain'[c] = t
      /\ \A d \in Chains \ {c} : chain'[d] = chain[d]
  BY <1>2, <1>4, ChainedStorage DEF t
<1>7. Becomes(c, id, x)
  BY <1>2, <1>6 DEF Becomes, Student
<1> QED
  BY <1>2, <1>5, <1>6, <1>7

-----------------------------------------------------------------------------
(* The same, by student: in which records and messages there is one         *)

LEMMA RecordsMeans ==
    ASSUME NEW c \in Chains, NEW t, NEW id
    PROVE  id \in Records(c, t) <=>
              id \in Ids /\ Student(c, id) # NoStudent /\ Student(c, id).tag = t
  BY DEF Records, Student

LEMMA RecordsNext ==
    ASSUME NEW c \in Chains, NEW t, NEW id
    PROVE  id \in Records(c, t)' <=>
              id \in Ids /\ Student(c, id)' # NoStudent /\ Student(c, id)'.tag = t
  BY DEF Records, Student

LEMMA RecordsAdded ==
    ASSUME NEW c \in Chains, NEW id \in Ids, NEW x \in Students,
           Student(c, id) = NoStudent, Becomes(c, id, x), NEW d \in Chains, NEW t
    PROVE  Records(d, t)' = IF d = c /\ t = x.tag THEN Records(d, t) \cup {id}
                            ELSE Records(d, t)
<1>1. \A i \in Ids : Student(d, i)' = IF d = c /\ i = id THEN x ELSE Student(d, i)
  BY DEF Becomes
<1>2. x # NoStudent
  BY NoStudentAssumption
<1>3. ASSUME NEW i
      PROVE  i \in Records(d, t)' <=> i \in Records(d, t) \/ (d = c /\ t = x.tag /\ i = id)
  BY <1>1, <1>2, RecordsMeans, RecordsNext
<1> QED
  BY <1>3

LEMMA RecordsErased ==
    ASSUME NEW c \in Chains, NEW id \in Ids,
           Becomes(c, id, NoStudent), NEW d \in Chains, NEW t
    PROVE  Records(d, t)' = IF d = c THEN Records(d, t) \ {id} ELSE Records(d, t)
<1>1. \A i \in Ids : Student(d, i)' = IF d = c /\ i = id THEN NoStudent ELSE Student(d, i)
  BY DEF Becomes
<1>2. ASSUME NEW i
      PROVE  i \in Records(d, t)' <=> i \in Records(d, t) /\ ~(d = c /\ i = id)
  BY <1>1, RecordsMeans, RecordsNext
<1> QED
  BY <1>2

LEMMA RecordsAmended ==
    ASSUME NEW c \in Chains, NEW id \in Ids, NEW x \in Students,
           Student(c, id) \in Students, x.tag = Student(c, id).tag,
           Becomes(c, id, x), NEW d \in Chains, NEW t
    PROVE  Records(d, t)' = Records(d, t)
<1>1. \A i \in Ids : Student(d, i)' = IF d = c /\ i = id THEN x ELSE Student(d, i)
  BY DEF Becomes
<1>2. x # NoStudent /\ Student(c, id) # NoStudent
  BY NoStudentAssumption
<1>3. ASSUME NEW i
      PROVE  i \in Records(d, t)' <=> i \in Records(d, t)
  BY <1>1, <1>2, RecordsMeans, RecordsNext
<1> QED
  BY <1>3

LEMMA MessengersSent ==
    ASSUME Travelling \in Seq(StudentMessages), NEW m \in StudentMessages,
           Travelling' = Append(Travelling, m), NEW t
    PROVE  /\ Messengers(t)' = IF t = m.student.tag THEN Messengers(t) \cup {Len(Travelling) + 1}
                               ELSE Messengers(t)
           /\ \A i \in Messengers(t) : Travelling'[i] = Travelling[i]
           /\ Travelling'[Len(Travelling) + 1] = m
           /\ Len(Travelling') = Len(Travelling) + 1
<1> DEFINE n == Len(Travelling)
<1>1. /\ n \in Nat /\ DOMAIN Travelling = 1 .. n /\ DOMAIN Travelling' = 1 .. n + 1
      /\ Len(Travelling') = n + 1
      /\ Travelling'[n + 1] = m
      /\ \A i \in 1 .. n : Travelling'[i] = Travelling[i]
  OBVIOUS
<1> HIDE DEF n
<1>2. ASSUME NEW i
      PROVE  i \in Messengers(t)' <=> i \in Messengers(t) \/ (t = m.student.tag /\ i = n + 1)
  <2>1. i \in Messengers(t) <=> i \in 1 .. n /\ Travelling[i].student.tag = t
    BY <1>1 DEF Messengers
  <2>2. i \in Messengers(t)' <=> i \in 1 .. n + 1 /\ Travelling'[i].student.tag = t
    BY <1>1 DEF Messengers
  <2>3. i \in 1 .. n + 1 <=> i \in 1 .. n \/ i = n + 1
    BY <1>1
  <2> QED
    BY <1>1, <2>1, <2>2, <2>3
<1>3. \A i \in Messengers(t) : i \in 1 .. n
  BY <1>1 DEF Messengers
<1>4. n + 1 \notin 1 .. n
  BY <1>1
<1>5. Messengers(t)' = IF t = m.student.tag THEN Messengers(t) \cup {n + 1} ELSE Messengers(t)
  BY <1>2
<1> QED
  BY <1>1, <1>3, <1>5 DEF n

LEMMA MessengersServed ==
    ASSUME Travelling \in Seq(StudentMessages), Travelling # <<>>,
           Travelling' = Tail(Travelling), NEW t
    PROVE  /\ \A i : i \in Messengers(t)' <=> i \in Nat \ {0} /\ i + 1 \in Messengers(t)
           /\ \A i \in Messengers(t)' : Travelling'[i] = Travelling[i + 1]
           /\ 1 \in DOMAIN Travelling /\ Travelling[1] = Head(Travelling)
           /\ 1 \in Messengers(t) <=> Head(Travelling).student.tag = t
           /\ \A i \in Messengers(t) : i # 1 => i - 1 \in Messengers(t)'
           /\ Len(Travelling') = Len(Travelling) - 1
<1> DEFINE n == Len(Travelling)
<1>1. /\ n \in Nat \ {0} /\ DOMAIN Travelling = 1 .. n /\ DOMAIN Travelling' = 1 .. n - 1
      /\ Len(Travelling') = n - 1
      /\ Travelling[1] = Head(Travelling)
      /\ \A i \in 1 .. n - 1 : Travelling'[i] = Travelling[i + 1]
  OBVIOUS
<1> HIDE DEF n
<1>2. ASSUME NEW i
      PROVE  i \in Messengers(t)' <=> i \in Nat \ {0} /\ i + 1 \in Messengers(t)
  <2>1. i \in Messengers(t)' <=> i \in 1 .. n - 1 /\ Travelling'[i].student.tag = t
    BY <1>1 DEF Messengers
  <2>2. i + 1 \in Messengers(t) <=> i + 1 \in 1 .. n /\ Travelling[i + 1].student.tag = t
    BY <1>1 DEF Messengers
  <2>3. i \in 1 .. n - 1 <=> i \in Nat \ {0} /\ i + 1 \in 1 .. n
    BY <1>1
  <2> QED
    BY <1>1, <2>1, <2>2, <2>3
<1>3. \A i \in Messengers(t)' : i \in 1 .. n - 1
  BY <1>1 DEF Messengers
<1>4. \A i \in Messengers(t) : i \in 1 .. n
  BY <1>1 DEF Messengers
<1>5. 1 \in Messengers(t) <=> Head(Travelling).student.tag = t
  BY <1>1 DEF Messengers
<1>6. ASSUME NEW i \in Messengers(t), i # 1
      PROVE  i - 1 \in Messengers(t)'
  <2>1. i \in 1 .. n /\ i - 1 \in Nat \ {0} /\ (i - 1) + 1 = i
    BY <1>1, <1>4, <1>6
  <2> QED
    BY <1>2, <2>1
<1> QED
  BY <1>1, <1>2, <1>3, <1>5, <1>6 DEF n

-----------------------------------------------------------------------------
(* The inductive invariant: what the ghosts say of the records and of the   *)
(* messages                                                                 *)

Somewhere(t) == Messengers(t) # {} \/ \E c \in Chains : Records(c, t) # {}

(* A student is in one record, or in one message, or in neither.            *)
Apart ==
    \A t \in Tags :
        /\ \A c, d \in Chains : \A i \in Records(c, t), j \in Records(d, t) : c = d /\ i = j
        /\ \A c \in Chains : \A i \in Records(c, t) : Messengers(t) = {}
        /\ \A m, n \in Messengers(t) : m = n

(* There is no trace of a student before the enrolment.                     *)
Born ==
    \A t \in Tags : t > enrolled => ~Somewhere(t) /\ t \notin departed

(* Those under way have departed, and those who departed are graduated.     *)
Graduated ==
    \A t \in Tags :
        /\ \A n \in Messengers(t) : t \in departed /\ Travelling[n].student.has_graduated
        /\ t \in departed =>
              \A c \in Chains : \A i \in Records(c, t) : Student(c, i).has_graduated

(* The counters do not wrap: the University's has counted the students      *)
(* enrolled there, the Company's those enrolled there and those arrived.    *)
Counts ==
    /\ chain["university"].StudentCount <= enrolled
    /\ chain["company"].StudentCount + Cardinality(Kept("university")) + Len(Travelling)
          <= enrolled

(* A student who was enrolled is somewhere, or a step has noted why not.    *)
Accounted ==
    \A t \in Tags :
        /\ t > enrolled => gone[t] = Present
        /\ t <= enrolled => (Somewhere(t) <=> gone[t].how = "no")

Inv == TypeOK /\ ChainsExact /\ Apart /\ Born /\ Graduated /\ Counts /\ Accounted

(* The counters are u32: the students of a behaviour do not exhaust them.   *)
NoWrap == MaxEnrolments < IdSpace

LEMMA KeptFinite ==
    ASSUME NEW c \in Chains
    PROVE  IsFiniteSet(Kept(c)) /\ Cardinality(Kept(c)) \in Nat
<1>1. IsFiniteSet(Ids)
  BY FS_Interval, BoundsAssumption DEF Ids
<1> QED
  BY <1>1, FS_Subset, FS_CardinalityType DEF Kept

LEMMA KeptAdded ==
    ASSUME NEW c \in Chains, NEW id \in Ids, NEW x \in Students,
           Student(c, id) = NoStudent, Becomes(c, id, x), NEW d \in Chains
    PROVE  Cardinality(Kept(d))' = IF d = c THEN Cardinality(Kept(d)) + 1
                                   ELSE Cardinality(Kept(d))
<1>1. x # NoStudent
  BY NoStudentAssumption
<1>2. Kept(d)' = IF d = c THEN Kept(d) \cup {id} ELSE Kept(d)
  BY <1>1 DEF Kept, Becomes
<1>3. id \notin Kept(c)
  BY DEF Kept
<1> QED
  BY <1>2, <1>3, KeptFinite, FS_AddElement

LEMMA KeptErased ==
    ASSUME NEW c \in Chains, NEW id \in Ids,
           Student(c, id) \in Students, Becomes(c, id, NoStudent), NEW d \in Chains
    PROVE  Cardinality(Kept(d))' = IF d = c THEN Cardinality(Kept(d)) - 1
                                   ELSE Cardinality(Kept(d))
<1>1. id \in Kept(c)
  BY NoStudentAssumption DEF Kept
<1>2. Kept(d)' = IF d = c THEN Kept(d) \ {id} ELSE Kept(d)
  BY DEF Kept, Becomes
<1> QED
  BY <1>1, <1>2, KeptFinite, FS_RemoveElement

LEMMA KeptAmended ==
    ASSUME NEW c \in Chains, NEW id \in Ids, NEW x \in Students,
           Student(c, id) \in Students, Becomes(c, id, x), NEW d \in Chains
    PROVE  Cardinality(Kept(d))' = Cardinality(Kept(d))
<1>1. Kept(d)' = Kept(d)
  BY NoStudentAssumption DEF Kept, Becomes
<1> QED
  BY <1>1

(* What a step leaves alone.                                                *)
LEMMA ChannelUntouched ==
    ASSUME UNCHANGED channelVars
    PROVE  Travelling' = Travelling /\ \A t : Messengers(t)' = Messengers(t)
  BY DEF channelVars, Travelling, Channel!InFlight, Messengers

LEMMA ChainsUntouched ==
    ASSUME UNCHANGED chain
    PROVE  /\ \A c \in Chains : Kept(c)' = Kept(c)
           /\ \A c \in Chains, id \in Ids : Student(c, id)' = Student(c, id)
           /\ \A c \in Chains : \A t : Records(c, t)' = Records(c, t)
  BY DEF Kept, Student, Records

LEMMA MessengersUntouched ==
    ASSUME Travelling' = Travelling
    PROVE  \A t : Messengers(t)' = Messengers(t)
  BY DEF Messengers

LEMMA ChainNames == "university" \in Chains /\ "company" \in Chains
                    /\ \A c \in Chains : c = "university" \/ c = "company"
  BY DEF Chains

LEMMA CountTypes ==
    ASSUME TypeOK
    PROVE  /\ enrolled \in Nat /\ enrolled <= MaxEnrolments
           /\ \A c \in Chains : chain[c].StudentCount \in Nat
           /\ Len(Travelling) \in Nat /\ Travelling \in Seq(StudentMessages)
           /\ QueuesTyped
<1>1. QueuesTyped
  BY DEF TypeOK, QueuesTyped
<1>2. \A c \in Chains : chain[c].StudentCount \in Nat
  BY StorageParts DEF TypeOK, Ids
<1> QED
  BY <1>1, <1>2, TravellingType, TagsAssumption DEF TypeOK

LEMMA InitInv == Init => Inv
<1> SUFFICES ASSUME Init PROVE Inv
  OBVIOUS
<1>1. /\ chain = [c \in Chains |-> EmptyStorage] /\ enrolled = 0 /\ departed = {}
      /\ established = FALSE /\ pages = <<>> /\ relay = <<>> /\ inbox = <<>>
      /\ gone = [t \in Tags |-> Present]
  BY DEF Init, Channel!ChannelInit
<1>2. TypeOK
  <2>1. /\ <<>> \in Seq(Seq(StudentMessages)) /\ <<>> \in Seq(StudentMessages)
        /\ 0 \in 0 .. MaxEnrolments
    BY TagsAssumption
  <2>2. gone \in [Tags -> [how   : {"no", "removed", "lost"},
                          owner : Accounts \cup {Root}]]
    BY <1>1 DEF Present
  <2>3. chain \in [Chains -> Storage]
    BY <1>1, EmptyStorageType
  <2> QED
    BY <1>1, <2>1, <2>2, <2>3 DEF TypeOK
<1>3. ChainsExact
  BY <1>1, EmptyStorageExact DEF ChainsExact
<1>4. \A c \in Chains, id \in Ids : Student(c, id) = NoStudent
  BY <1>1 DEF Student, EmptyStorage
<1>5. /\ \A c \in Chains : chain[c].StudentCount = 0
      /\ \A c \in Chains : Kept(c) = {}
      /\ \A c \in Chains, t \in Tags : Records(c, t) = {}
  <2>1. \A c \in Chains : chain[c].StudentCount = 0
    BY <1>1 DEF EmptyStorage
  <2> QED
    BY <1>4, <2>1, RecordsMeans DEF Kept
<1>6. Travelling = <<>>
  <2>1. Queue!InFlight = <<>>
    BY <1>1, SameChannel, Queue!FlattenEmpty DEF Queue!InFlight
  <2> QED
    BY <2>1, SameQueues
<1>7. \A t \in Tags : Messengers(t) = {}
  BY <1>6 DEF Messengers
<1>8. \A t \in Tags : ~Somewhere(t)
  BY <1>5, <1>7 DEF Somewhere
<1>9. Apart /\ Born /\ Graduated
  BY <1>1, <1>5, <1>7, <1>8 DEF Apart, Born, Graduated
<1>10. Counts
  <2>1. Cardinality(Kept("university")) = 0 /\ Len(Travelling) = 0
    BY <1>5, <1>6, FS_EmptySet, ChainNames
  <2> QED
    BY <1>1, <1>5, <2>1, ChainNames DEF Counts
<1>11. Accounted
  BY <1>1, <1>8, TagsAssumption DEF Accounted
<1> QED
  BY <1>2, <1>3, <1>9, <1>10, <1>11 DEF Inv

(* An enrolled student is new: no record, message or ghost mentions it.     *)
LEMMA EnrolKeepsInv ==
    ASSUME NoWrap, Inv, NEW c \in Chains, EnrolStep(c)
    PROVE  Inv'
<1>0. TypeOK /\ ChainsExact /\ Apart /\ Born /\ Graduated /\ Counts /\ Accounted
  BY DEF Inv
<1>1. PICK a \in Accounts, x \in Students :
        /\ enrolled < MaxEnrolments
        /\ x.tag = enrolled + 1
        /\ Enrol(chain[c], a, x).err = "none"
        /\ Chained(c, Enrol(chain[c], a, x).st)
        /\ enrolled' = enrolled + 1
        /\ UNCHANGED <<channelVars, departed, gone>>
  BY DEF EnrolStep
<1> DEFINE n == chain[c].StudentCount
<1>2. /\ enrolled \in Nat /\ x.tag \in Tags /\ n \in Nat /\ n <= enrolled
      /\ \A d \in Chains : chain[d].StudentCount \in Nat /\ Cardinality(Kept(d)) \in Nat
      /\ Len(Travelling) \in Nat
  BY <1>0, CountTypes, KeptFinite, ChainNames DEF Students, Counts
<1>3. n + 1 < IdSpace
  BY <1>1, <1>2, TagsAssumption, BoundsAssumption DEF NoWrap
<1>4. /\ chain' \in [Chains -> Storage] /\ ChainsExact'
      /\ n \in Ids /\ Student(c, n) = NoStudent /\ Becomes(c, n, x)
      /\ chain'[c].StudentCount = n + 1
      /\ \A d \in Chains \ {c} : chain'[d] = chain[d]
  BY <1>0, <1>1, <1>3, EnrolledRecords
<1> HIDE DEF n
<1>5. \A d \in Chains : \A t : Records(d, t)' =
         IF d = c /\ t = enrolled + 1 THEN Records(d, t) \cup {n} ELSE Records(d, t)
  BY <1>1, <1>4, RecordsAdded
<1>6. Travelling' = Travelling /\ \A t : Messengers(t)' = Messengers(t)
  BY <1>1, ChannelUntouched
<1>7. ~Somewhere(enrolled + 1) /\ enrolled + 1 \notin departed /\ gone[enrolled + 1] = Present
  BY <1>0, <1>1, <1>2 DEF Born, Accounted
<1>8. \A d \in Chains : Records(d, enrolled + 1) = {}
  BY <1>7 DEF Somewhere
<1>9. Messengers(enrolled + 1) = {}
  BY <1>7 DEF Somewhere
<1>10. TypeOK'
  BY <1>0, <1>1, <1>2, <1>4, TagsAssumption DEF TypeOK, channelVars
<1>11. Apart'
  <2> SUFFICES ASSUME NEW t \in Tags
               PROVE  /\ \A d, e \in Chains : \A i \in Records(d, t)', j \in Records(e, t)' :
                            d = e /\ i = j
                      /\ \A d \in Chains : \A i \in Records(d, t)' : Messengers(t)' = {}
                      /\ \A m, k \in Messengers(t)' : m = k
    BY DEF Apart
  <2>1. CASE t = enrolled + 1
    BY <1>5, <1>6, <1>8, <1>9, <2>1
  <2>2. CASE t # enrolled + 1
    BY <1>0, <1>5, <1>6, <2>2 DEF Apart
  <2> QED
    BY <2>1, <2>2
<1>12. \A t \in Tags : Somewhere(t)' <=> Somewhere(t) \/ t = enrolled + 1
  BY <1>5, <1>6 DEF Somewhere
<1>13. Born'
  <2> SUFFICES ASSUME NEW t \in Tags, t > enrolled + 1
               PROVE  ~Somewhere(t)' /\ t \notin departed
    BY <1>1 DEF Born
  <2>1. t > enrolled /\ t # enrolled + 1
    BY <1>2, TagsAssumption
  <2> QED
    BY <1>0, <1>12, <2>1 DEF Born
<1>14. Graduated'
  <2> SUFFICES ASSUME NEW t \in Tags
               PROVE  /\ \A k \in Messengers(t)' :
                            t \in departed /\ Travelling'[k].student.has_graduated
                      /\ t \in departed => \A d \in Chains : \A i \in Records(d, t)' :
                            Student(d, i)'.has_graduated
    BY <1>1 DEF Graduated
  <2>1. CASE t = enrolled + 1
    BY <1>6, <1>7, <1>9, <2>1
  <2>2. CASE t # enrolled + 1
    <3>1. \A d \in Chains : \A i \in Records(d, t)' :
              i \in Records(d, t) /\ Student(d, i) # NoStudent /\ i \in Ids
      BY <1>5, <2>2, RecordsMeans
    <3>2. \A d \in Chains : \A i \in Records(d, t)' : Student(d, i)' = Student(d, i)
      BY <1>4, <3>1 DEF Becomes
    <3>3. \A d \in Chains : \A i \in Records(d, t)' :
              t \in departed => Student(d, i)'.has_graduated
      BY <1>0, <3>1, <3>2 DEF Graduated
    <3> QED
      BY <1>0, <1>6, <3>3 DEF Graduated
  <2> QED
    BY <2>1, <2>2
<1>15. Counts'
  <2>1. \A d \in Chains : Cardinality(Kept(d))' =
           IF d = c THEN Cardinality(Kept(d)) + 1 ELSE Cardinality(Kept(d))
    BY <1>4, KeptAdded
  <2>2. \A d \in Chains : chain'[d].StudentCount =
           IF d = c THEN chain[d].StudentCount + 1 ELSE chain[d].StudentCount
    BY <1>4 DEF n
  <2> DEFINE u == chain["university"].StudentCount
             k == Cardinality(Kept("university"))
             v == chain["company"].StudentCount
             w == Len(Travelling)
  <2>3. u \in Nat /\ k \in Nat /\ v \in Nat /\ w \in Nat /\ Len(Travelling') = w
    BY <1>2, <1>6, ChainNames
  <2>4. u <= enrolled /\ v + k + w <= enrolled
    BY <1>0 DEF Counts
  <2>5. CASE c = "university"
    <3>1. u' = u + 1 /\ v' = v /\ k' = k + 1
      BY <2>1, <2>2, <2>5, ChainNames
    <3> QED
      BY <1>1, <1>2, <2>3, <2>4, <3>1, SMTT(20) DEF Counts
  <2>6. CASE c = "company"
    <3>1. u' = u /\ v' = v + 1 /\ k' = k
      BY <2>1, <2>2, <2>6, ChainNames
    <3> QED
      BY <1>1, <1>2, <2>3, <2>4, <3>1, SMTT(20) DEF Counts
  <2> QED
    BY <2>5, <2>6, ChainNames
<1>16. Accounted'
  <2> SUFFICES ASSUME NEW t \in Tags
               PROVE  /\ t > enrolled + 1 => gone[t] = Present
                      /\ t <= enrolled + 1 => (Somewhere(t)' <=> gone[t].how = "no")
    BY <1>1 DEF Accounted
  <2>1. t \in Nat
    BY TagsAssumption
  <2>2. CASE t = enrolled + 1
    BY <1>7, <1>12, <2>1, <2>2 DEF Present
  <2>3. CASE t > enrolled + 1
    BY <1>0, <1>2, <2>1, <2>3 DEF Accounted
  <2>4. CASE t <= enrolled
    BY <1>0, <1>2, <1>12, <2>1, <2>4 DEF Accounted
  <2> QED
    BY <1>2, <2>1, <2>2, <2>3, <2>4
<1> QED
  BY <1>4, <1>10, <1>11, <1>13, <1>14, <1>15, <1>16 DEF Inv

(* An update keeps the student, and the mark of graduation.                 *)
LEMMA AmendKeepsInv ==
    ASSUME Inv, NEW c \in Chains, AmendStep(c)
    PROVE  Inv'
<1>0. TypeOK /\ ChainsExact /\ Apart /\ Born /\ Graduated /\ Counts /\ Accounted
  BY DEF Inv
<1>1. PICK a \in Accounts, id \in Ids, x \in Students :
        /\ Listed(chain[c].StudentsByOwner[a], id)
        /\ x.tag = Student(c, id).tag
        /\ x.has_graduated = Student(c, id).has_graduated
        /\ Chained(c, WithStudent(chain[c], id, x))
        /\ UNCHANGED <<channelVars, enrolled, departed, gone>>
  BY DEF AmendStep, Student
<1>2. /\ chain' \in [Chains -> Storage] /\ ChainsExact'
      /\ Student(c, id) \in Students /\ Becomes(c, id, x)
      /\ \A d \in Chains : chain'[d].StudentCount = chain[d].StudentCount
  BY <1>0, <1>1, AmendedRecords
<1>3. \A d \in Chains : \A t : Records(d, t)' = Records(d, t)
  BY <1>1, <1>2, RecordsAmended
<1>4. Travelling' = Travelling /\ \A t : Messengers(t)' = Messengers(t)
  BY <1>1, ChannelUntouched
<1>5. \A t : Somewhere(t)' <=> Somewhere(t)
  BY <1>3, <1>4 DEF Somewhere
<1>6. TypeOK'
  BY <1>0, <1>1, <1>2 DEF TypeOK, channelVars
<1>7. Apart'
  BY <1>0, <1>3, <1>4 DEF Apart
<1>8. Born' /\ Accounted'
  BY <1>0, <1>1, <1>5 DEF Born, Accounted
<1>9. Graduated'
  <2>1. \A d \in Chains, i \in Ids :
           Student(d, i).has_graduated => Student(d, i)'.has_graduated
    BY <1>1, <1>2 DEF Becomes
  <2>2. \A d \in Chains : \A t : \A i \in Records(d, t) : i \in Ids
    BY RecordsMeans
  <2> QED
    BY <1>0, <1>1, <1>3, <1>4, <2>1, <2>2 DEF Graduated
<1>10. Counts'
  <2>1. \A d \in Chains : Cardinality(Kept(d))' = Cardinality(Kept(d))
    BY <1>2, KeptAmended
  <2> QED
    BY <1>0, <1>1, <1>2, <1>4, <2>1, ChainNames DEF Counts
<1> QED
  BY <1>2, <1>6, <1>7, <1>8, <1>9, <1>10 DEF Inv

(* The record that is erased was the only trace of its student.             *)
LEMMA RecordLeaves ==
    ASSUME Inv, NEW c \in Chains, NEW id \in Ids,
           Student(c, id) \in Students, Becomes(c, id, NoStudent)
    PROVE  LET gone_t == Student(c, id).tag IN
           /\ gone_t \in Tags /\ gone_t <= enrolled
           /\ Messengers(gone_t) = {}
           /\ \A d \in Chains, t \in Tags :
                 Records(d, t)' = IF t = gone_t THEN {} ELSE Records(d, t)
           /\ \A d \in Chains, t \in Tags : \A i \in Records(d, t)' :
                 i \in Records(d, t) /\ Student(d, i)' = Student(d, i)
<1> DEFINE g == Student(c, id).tag
<1>0. TypeOK /\ Apart /\ Born
  BY DEF Inv
<1>1. g \in Tags /\ g \in Nat /\ enrolled \in Nat
  BY <1>0, TagsAssumption DEF Students, TypeOK
<1>2. id \in Records(c, g)
  BY NoStudentAssumption, RecordsMeans
<1>3. g <= enrolled
  BY <1>0, <1>1, <1>2 DEF Born, Somewhere
<1>4. Messengers(g) = {}
  BY <1>0, <1>1, <1>2 DEF Apart
<1>5. \A d \in Chains : \A t : Records(d, t)' = IF d = c THEN Records(d, t) \ {id} ELSE Records(d, t)
  BY RecordsErased
<1>6. ASSUME NEW d \in Chains, NEW t \in Tags
      PROVE  Records(d, t)' = IF t = g THEN {} ELSE Records(d, t)
  <2>1. CASE t = g
    <3>1. \A i \in Records(d, t) : d = c /\ i = id
      BY <1>0, <1>2, <2>1 DEF Apart
    <3> QED
      BY <1>5, <2>1, <3>1
  <2>2. CASE t # g
    <3>1. id \notin Records(c, t)
      BY <2>2, RecordsMeans
    <3> QED
      BY <1>5, <2>2, <3>1
  <2> QED
    BY <2>1, <2>2
<1>7. ASSUME NEW d \in Chains, NEW t \in Tags, NEW i \in Records(d, t)'
      PROVE  i \in Records(d, t) /\ Student(d, i)' = Student(d, i)
  <2>1. i \in Records(d, t) /\ ~(d = c /\ i = id) /\ i \in Ids
    BY <1>5, RecordsMeans
  <2> QED
    BY <2>1 DEF Becomes
<1> QED
  BY <1>1, <1>3, <1>4, <1>6, <1>7

LEMMA RemoveKeepsInv ==
    ASSUME Inv, NEW c \in Chains, RemoveStep(c)
    PROVE  Inv'
<1>0. TypeOK /\ ChainsExact /\ Apart /\ Born /\ Graduated /\ Counts /\ Accounted
  BY DEF Inv
<1>1. PICK a \in Accounts, id \in Ids :
        /\ Listed(chain[c].StudentsByOwner[a], id)
        /\ Chained(c, Erased(chain[c], a, id))
        /\ gone' = [gone EXCEPT ![Student(c, id).tag] = [how |-> "removed", owner |-> a]]
        /\ UNCHANGED <<channelVars, enrolled, departed>>
  BY DEF RemoveStep, Student
<1> DEFINE g == Student(c, id).tag
<1>2. /\ chain' \in [Chains -> Storage] /\ ChainsExact'
      /\ Student(c, id) \in Students /\ Becomes(c, id, NoStudent)
      /\ \A d \in Chains : chain'[d].StudentCount = chain[d].StudentCount
  BY <1>0, <1>1, ErasedRecords
<1>3. /\ g \in Tags /\ g <= enrolled /\ Messengers(g) = {}
      /\ \A d \in Chains, t \in Tags :
            Records(d, t)' = IF t = g THEN {} ELSE Records(d, t)
      /\ \A d \in Chains, t \in Tags : \A i \in Records(d, t)' :
            i \in Records(d, t) /\ Student(d, i)' = Student(d, i)
  BY <1>2, RecordLeaves
<1>4. Travelling' = Travelling /\ \A t : Messengers(t)' = Messengers(t)
  BY <1>1, ChannelUntouched
<1>5. /\ gone' \in [Tags -> [how : {"no", "removed", "lost"}, owner : Accounts \cup {Root}]]
      /\ \A t \in Tags : gone'[t] = IF t = g THEN [how |-> "removed", owner |-> a] ELSE gone[t]
  BY <1>0, <1>1, <1>3 DEF TypeOK
<1> HIDE DEF g
<1>6. \A t \in Tags : Somewhere(t)' <=> Somewhere(t) /\ t # g
  BY <1>3, <1>4 DEF Somewhere
<1>7. TypeOK'
  BY <1>0, <1>1, <1>2, <1>5 DEF TypeOK, channelVars
<1>8. Apart'
  BY <1>0, <1>3, <1>4 DEF Apart
<1>9. Born'
  BY <1>0, <1>1, <1>6 DEF Born
<1>10. Graduated'
  BY <1>0, <1>1, <1>3, <1>4 DEF Graduated
<1>11. Counts'
  <2>1. \A d \in Chains : Cardinality(Kept(d))' <= Cardinality(Kept(d))
                          /\ Cardinality(Kept(d))' \in Int
    BY <1>2, KeptErased, KeptFinite
  <2> DEFINE u == chain["university"].StudentCount
             k == Cardinality(Kept("university"))
             v == chain["company"].StudentCount
             w == Len(Travelling)
  <2>2. u \in Nat /\ k \in Nat /\ v \in Nat /\ w \in Nat /\ enrolled \in Nat
    BY <1>0, CountTypes, KeptFinite, ChainNames
  <2>3. u' = u /\ v' = v /\ w' = w /\ k' <= k /\ k' \in Int /\ enrolled' = enrolled
    BY <1>1, <1>2, <1>4, <2>1, ChainNames
  <2>4. u <= enrolled /\ v + k + w <= enrolled
    BY <1>0 DEF Counts
  <2>5. u' <= enrolled' /\ v' + k' + w' <= enrolled'
    <3>1. u' <= enrolled'
      BY <2>3, <2>4
    <3> DEFINE j == k'
    <3>2. j \in Int /\ j <= k
      BY <2>3
    <3> HIDE DEF u, k, v, w, j
    <3>3. v + j + w <= enrolled
      BY <2>2, <2>4, <3>2
    <3> QED
      BY <2>3, <3>1, <3>3 DEF j
  <2> QED
    BY <2>5 DEF Counts
<1>12. Accounted'
  <2> SUFFICES ASSUME NEW t \in Tags
               PROVE  /\ t > enrolled => gone'[t] = Present
                      /\ t <= enrolled => (Somewhere(t)' <=> gone'[t].how = "no")
    BY <1>1 DEF Accounted
  <2>1. CASE t = g
    <3>1. ~(t > enrolled)
      BY <1>0, <1>3, <2>1, TagsAssumption DEF TypeOK
    <3> QED
      BY <1>5, <1>6, <2>1, <3>1
  <2>2. CASE t # g
    BY <1>0, <1>5, <1>6, <2>2 DEF Accounted
  <2> QED
    BY <2>1, <2>2
<1> QED
  BY <1>2, <1>7, <1>8, <1>9, <1>10, <1>11, <1>12 DEF Inv

(* The record becomes a message in the same step.                           *)
LEMMA DepartKeepsInv ==
    ASSUME Inv, DepartStep
    PROVE  Inv'
<1>0. TypeOK /\ ChainsExact /\ Apart /\ Born /\ Graduated /\ Counts /\ Accounted
  BY DEF Inv
<1> DEFINE c == "university"
<1>1. PICK a \in Accounts, id \in Ids :
        LET m == [student   |-> [Student(c, id) EXCEPT !.has_graduated = TRUE],
                  new_owner |-> a]
        IN  /\ Listed(chain[c].StudentsByOwner[a], id)
            /\ Chained(c, Erased(chain[c], a, id))
            /\ Channel!Send(m)
            /\ departed' = departed \cup {m.student.tag}
            /\ UNCHANGED <<enrolled, gone>>
  BY DEF DepartStep, Student
<1> DEFINE x == [Student(c, id) EXCEPT !.has_graduated = TRUE]
           m == [student |-> x, new_owner |-> a]
           g == Student(c, id).tag
<1>2. c \in Chains
  BY DEF Chains
<1> HIDE DEF c
<1>3. /\ chain' \in [Chains -> Storage] /\ ChainsExact'
      /\ Student(c, id) \in Students /\ Becomes(c, id, NoStudent)
      /\ \A d \in Chains : chain'[d].StudentCount = chain[d].StudentCount
  BY <1>0, <1>1, <1>2, ErasedRecords
<1>4. /\ g \in Tags /\ g <= enrolled /\ Messengers(g) = {}
      /\ \A d \in Chains, t \in Tags :
            Records(d, t)' = IF t = g THEN {} ELSE Records(d, t)
      /\ \A d \in Chains, t \in Tags : \A i \in Records(d, t)' :
            i \in Records(d, t) /\ Student(d, i)' = Student(d, i)
  BY <1>2, <1>3, RecordLeaves
<1>5. /\ x \in Students /\ x.tag = g /\ x.has_graduated
      /\ m \in StudentMessages /\ m.student = x
  BY <1>3 DEF Students, StudentMessages
<1>6. Channel!Send(m) /\ departed' = departed \cup {m.student.tag} /\ UNCHANGED <<enrolled, gone>>
  BY <1>1
<1> HIDE DEF g, x, m
<1>7. /\ QueuesTyped' /\ UNCHANGED established
      /\ Travelling' = Append(Travelling, m)
  BY <1>0, <1>5, <1>6, CountTypes, SendTravels
<1>8. Travelling \in Seq(StudentMessages) /\ Len(Travelling) \in Nat
  BY <1>0, CountTypes
<1> DEFINE n == Len(Travelling)
<1>9. /\ \A t : Messengers(t)' = IF t = g THEN Messengers(t) \cup {n + 1} ELSE Messengers(t)
      /\ \A t : \A i \in Messengers(t) : Travelling'[i] = Travelling[i]
      /\ Travelling'[n + 1] = m /\ Len(Travelling') = n + 1
  BY <1>5, <1>7, <1>8, MessengersSent, ZenonT(30)
<1> HIDE DEF n
<1>10. \A t \in Tags : Somewhere(t)' <=> Somewhere(t) \/ t = g
  BY <1>4, <1>9 DEF Somewhere
<1>11. Somewhere(g)
  <2>1. id \in Records(c, g)
    BY <1>2, <1>3, NoStudentAssumption, RecordsMeans DEF g
  <2> QED
    BY <1>2, <2>1 DEF Somewhere
<1>12. \A t \in Tags : Somewhere(t)' <=> Somewhere(t)
  BY <1>10, <1>11
<1>13. TypeOK'
  BY <1>0, <1>3, <1>4, <1>5, <1>6, <1>7 DEF TypeOK, QueuesTyped
<1>14. Apart'
  <2> SUFFICES ASSUME NEW t \in Tags
               PROVE  /\ \A d, e \in Chains : \A i \in Records(d, t)', j \in Records(e, t)' :
                            d = e /\ i = j
                      /\ \A d \in Chains : \A i \in Records(d, t)' : Messengers(t)' = {}
                      /\ \A j, k \in Messengers(t)' : j = k
    BY DEF Apart
  <2>1. CASE t = g
    BY <1>4, <1>9, <2>1
  <2>2. CASE t # g
    BY <1>0, <1>4, <1>9, <2>2 DEF Apart
  <2> QED
    BY <2>1, <2>2
<1>15. Born'
  <2>1. ~(g > enrolled)
    BY <1>0, <1>4, TagsAssumption DEF TypeOK
  <2> QED
    BY <1>0, <1>5, <1>6, <1>12, <2>1 DEF Born
<1>16. Graduated'
  <2> SUFFICES ASSUME NEW t \in Tags
               PROVE  /\ \A k \in Messengers(t)' :
                            t \in departed' /\ Travelling'[k].student.has_graduated
                      /\ t \in departed' => \A d \in Chains : \A i \in Records(d, t)' :
                            Student(d, i)'.has_graduated
    BY DEF Graduated
  <2>1. CASE t = g
    BY <1>4, <1>5, <1>6, <1>9, <2>1
  <2>2. CASE t # g
    BY <1>0, <1>4, <1>5, <1>6, <1>9, <2>2 DEF Graduated
  <2> QED
    BY <2>1, <2>2
<1>17. Counts'
  <2> DEFINE u == chain["university"].StudentCount
             k == Cardinality(Kept("university"))
             v == chain["company"].StudentCount
             w == Len(Travelling)
  <2>1. u \in Nat /\ k \in Nat /\ v \in Nat /\ w \in Nat /\ enrolled \in Nat
    BY <1>0, CountTypes, KeptFinite, ChainNames
  <2>2. k' = k - 1
    BY <1>2, <1>3, KeptErased DEF c
  <2>3. u' = u /\ v' = v /\ w' = w + 1 /\ enrolled' = enrolled
    BY <1>3, <1>6, <1>9, ChainNames DEF n
  <2>4. u <= enrolled /\ v + k + w <= enrolled
    BY <1>0 DEF Counts
  <2>5. u' <= enrolled' /\ v' + k' + w' <= enrolled'
    <3> HIDE DEF u, k, v, w
    <3> QED
      BY <2>1, <2>2, <2>3, <2>4
  <2> QED
    BY <2>5 DEF Counts
<1>18. Accounted'
  BY <1>0, <1>6, <1>12 DEF Accounted
<1> QED
  BY <1>3, <1>13, <1>14, <1>15, <1>16, <1>17, <1>18 DEF Inv

(* The message that is executed was the only trace of its student, and the  *)
(* others move up one place.                                                *)
LEMMA MessageLands ==
    ASSUME Inv, Channel!Service
    PROVE  LET m == Head(inbox) IN
           /\ QueuesTyped' /\ UNCHANGED established
           /\ m.student \in Students /\ m.new_owner \in Accounts
           /\ m.student.tag \in Tags /\ m.student.tag <= enrolled
           /\ m.student.tag \in departed /\ m.student.has_graduated
           /\ Messengers(m.student.tag) # {}
           /\ \A c \in Chains : Records(c, m.student.tag) = {}
           /\ \A t \in Tags :
                 /\ Messengers(t)' = {} <=> Messengers(t) = {} \/ t = m.student.tag
                 /\ \A i, j \in Messengers(t)' : i = j
                 /\ \A i \in Messengers(t)' :
                       t \in departed /\ Travelling'[i].student.has_graduated
           /\ Len(Travelling') = Len(Travelling) - 1
<1> DEFINE m == Head(inbox)
           g == m.student.tag
<1>0. TypeOK /\ Apart /\ Born /\ Graduated
  BY DEF Inv
<1>1. QueuesTyped /\ Travelling \in Seq(StudentMessages)
  BY <1>0, CountTypes
<1>2. /\ QueuesTyped' /\ UNCHANGED established
      /\ Travelling # <<>>
      /\ m = Head(Travelling) /\ m \in StudentMessages
      /\ Travelling' = Tail(Travelling)
  BY <1>1, ServiceTravels
<1> HIDE DEF m
<1>3. m.student \in Students /\ m.new_owner \in Accounts /\ g \in Tags
  BY <1>2 DEF StudentMessages, Students
<1> HIDE DEF g
<1>4. /\ \A t, i : i \in Messengers(t)' <=> i \in Nat \ {0} /\ i + 1 \in Messengers(t)
      /\ \A t : \A i \in Messengers(t)' : Travelling'[i] = Travelling[i + 1]
      /\ Travelling[1] = Head(Travelling)
      /\ \A t : 1 \in Messengers(t) <=> Head(Travelling).student.tag = t
      /\ \A t : \A i \in Messengers(t) : i # 1 => i - 1 \in Messengers(t)'
      /\ Len(Travelling') = Len(Travelling) - 1
  BY <1>1, <1>2, MessengersServed
<1>5. \A t : 1 \in Messengers(t) <=> t = g
  BY <1>2, <1>4 DEF g
<1>6. 1 \in Messengers(g)
  BY <1>5
<1>7. g <= enrolled
  BY <1>0, <1>3, <1>6, TagsAssumption DEF Born, Somewhere, TypeOK
<1>8. g \in departed /\ m.student.has_graduated
  BY <1>0, <1>2, <1>3, <1>4, <1>6 DEF Graduated
<1>9. \A c \in Chains : Records(c, g) = {}
  BY <1>0, <1>3, <1>6 DEF Apart
<1>10. ASSUME NEW t \in Tags
       PROVE  /\ Messengers(t)' = {} <=> Messengers(t) = {} \/ t = g
              /\ \A i, j \in Messengers(t)' : i = j
              /\ \A i \in Messengers(t)' :
                    t \in departed /\ Travelling'[i].student.has_graduated
  <2>1. \A i, j \in Messengers(t) : i = j
    BY <1>0 DEF Apart
  <2>2. \A i, j \in Messengers(t)' : i = j
    <3> SUFFICES ASSUME NEW i \in Messengers(t)', NEW j \in Messengers(t)' PROVE i = j
      OBVIOUS
    <3>1. i \in Nat /\ j \in Nat /\ i + 1 \in Messengers(t) /\ j + 1 \in Messengers(t)
      BY <1>4
    <3>2. i + 1 = j + 1
      BY <2>1, <3>1
    <3> QED
      BY <3>1, <3>2
  <2>3. ASSUME NEW i \in Messengers(t)'
        PROVE  t \in departed /\ Travelling'[i].student.has_graduated
    <3>1. i + 1 \in Messengers(t) /\ Travelling'[i] = Travelling[i + 1]
      BY <1>4
    <3> QED
      BY <1>0, <3>1 DEF Graduated
  <2>4. CASE t = g
    <3>1. \A i \in Messengers(t)' : FALSE
      <4> SUFFICES ASSUME NEW i \in Messengers(t)' PROVE FALSE
        OBVIOUS
      <4>1. i \in Nat \ {0} /\ i + 1 \in Messengers(t)
        BY <1>4
      <4>2. i + 1 = 1
        BY <1>6, <2>1, <2>4, <4>1
      <4> QED
        BY <4>1, <4>2
    <3> QED
      BY <2>2, <2>3, <2>4, <3>1
  <2>5. CASE t # g
    <3>1. 1 \notin Messengers(t)
      BY <1>5, <2>5
    <3>2. \A i \in Messengers(t) : i - 1 \in Messengers(t)'
      BY <1>4, <3>1
    <3>3. \A i \in Messengers(t)' : i + 1 \in Messengers(t)
      BY <1>4
    <3>4. Messengers(t)' = {} <=> Messengers(t) = {}
      BY <3>2, <3>3
    <3> QED
      BY <2>2, <2>3, <2>5, <3>4
  <2> QED
    BY <2>4, <2>5
<1> QED
  BY <1>2, <1>3, <1>4, <1>6, <1>7, <1>8, <1>9, <1>10 DEF g, m

(* The message becomes a record in the same step.                           *)
LEMMA ArriveKeepsInv ==
    ASSUME NoWrap, Inv, ArriveStep
    PROVE  Inv'
<1> DEFINE c == "company"
           m == Head(inbox)
           x == m.student
           g == x.tag
           n == chain[c].StudentCount
<1>0. TypeOK /\ ChainsExact /\ Apart /\ Born /\ Graduated /\ Counts /\ Accounted
  BY DEF Inv
<1>1. /\ Channel!Service
      /\ Enrol(chain[c], m.new_owner, x).err = "none"
      /\ Chained(c, Enrol(chain[c], m.new_owner, x).st)
      /\ UNCHANGED <<enrolled, departed, gone>>
  BY DEF ArriveStep
<1>2. /\ QueuesTyped' /\ UNCHANGED established
      /\ x \in Students /\ m.new_owner \in Accounts
      /\ g \in Tags /\ g <= enrolled /\ g \in departed /\ x.has_graduated
      /\ Messengers(g) # {}
      /\ \A d \in Chains : Records(d, g) = {}
      /\ \A t \in Tags :
            /\ Messengers(t)' = {} <=> Messengers(t) = {} \/ t = g
            /\ \A i, j \in Messengers(t)' : i = j
            /\ \A i \in Messengers(t)' :
                  t \in departed /\ Travelling'[i].student.has_graduated
      /\ Len(Travelling') = Len(Travelling) - 1
  BY <1>1, MessageLands
<1>3. /\ c \in Chains /\ n \in Nat /\ enrolled \in Nat /\ enrolled <= MaxEnrolments
      /\ Len(Travelling) \in Nat /\ Travelling # <<>>
      /\ \A d \in Chains : Cardinality(Kept(d)) \in Nat
  <2>1. Travelling # <<>>
    BY <1>2 DEF Messengers
  <2> QED
    BY <1>0, <2>1, CountTypes, ChainNames, KeptFinite
<1>4. n + 1 < IdSpace
  <2>1. Len(Travelling) > 0
    BY <1>0, <1>3, CountTypes
  <2>2. n + Cardinality(Kept("university")) + Len(Travelling) <= enrolled
    BY <1>0 DEF Counts
  <2>3. Cardinality(Kept("university")) \in Nat
    BY <1>3, ChainNames
  <2> HIDE DEF n
  <2> QED
    BY <1>3, <2>1, <2>2, <2>3, TagsAssumption, BoundsAssumption DEF NoWrap
<1> HIDE DEF m, c
<1>5. /\ chain' \in [Chains -> Storage] /\ ChainsExact'
      /\ n \in Ids /\ Student(c, n) = NoStudent /\ Becomes(c, n, x)
      /\ chain'[c].StudentCount = n + 1
      /\ \A d \in Chains \ {c} : chain'[d] = chain[d]
  <2> HIDE DEF x
  <2> QED
    BY <1>0, <1>1, <1>2, <1>3, <1>4, EnrolledRecords
<1> HIDE DEF n, x
<1>6. \A d \in Chains : \A t : Records(d, t)' =
         IF d = c /\ t = g THEN Records(d, t) \cup {n} ELSE Records(d, t)
  BY <1>2, <1>3, <1>5, RecordsAdded
<1> HIDE DEF g
<1>7. \A t \in Tags : Somewhere(t)' <=> Somewhere(t)
  BY <1>2, <1>3, <1>6 DEF Somewhere
<1>8. TypeOK'
  BY <1>0, <1>1, <1>2, <1>5 DEF TypeOK, QueuesTyped
<1>9. Apart'
  <2> SUFFICES ASSUME NEW t \in Tags
               PROVE  /\ \A d, e \in Chains : \A i \in Records(d, t)', j \in Records(e, t)' :
                            d = e /\ i = j
                      /\ \A d \in Chains : \A i \in Records(d, t)' : Messengers(t)' = {}
                      /\ \A j, k \in Messengers(t)' : j = k
    BY DEF Apart
  <2>1. CASE t = g
    BY <1>2, <1>6, <2>1
  <2>2. CASE t # g
    BY <1>0, <1>2, <1>6, <2>2 DEF Apart
  <2> QED
    BY <2>1, <2>2
<1>10. Born' /\ Accounted'
  BY <1>0, <1>1, <1>7 DEF Born, Accounted
<1>11. Graduated'
  <2> SUFFICES ASSUME NEW t \in Tags
               PROVE  /\ \A k \in Messengers(t)' :
                            t \in departed /\ Travelling'[k].student.has_graduated
                      /\ t \in departed => \A d \in Chains : \A i \in Records(d, t)' :
                            Student(d, i)'.has_graduated
    BY <1>1 DEF Graduated
  <2>1. ASSUME NEW d \in Chains, NEW i \in Records(d, t)', t \in departed
        PROVE  Student(d, i)'.has_graduated
    <3>1. CASE i \in Records(d, t)
      <4>1. i \in Ids /\ Student(d, i) # NoStudent
        BY <3>1, RecordsMeans
      <4>2. Student(d, i)' = Student(d, i)
        BY <1>5, <4>1 DEF Becomes
      <4> QED
        BY <1>0, <2>1, <3>1, <4>2 DEF Graduated
    <3>2. CASE i \notin Records(d, t)
      <4>1. d = c /\ i = n
        BY <1>6, <3>2
      <4> QED
        BY <1>2, <1>5, <4>1 DEF Becomes
    <3> QED
      BY <3>1, <3>2
  <2> QED
    BY <1>2, <2>1
<1>12. Counts'
  <2> DEFINE u == chain["university"].StudentCount
             k == Cardinality(Kept("university"))
             v == chain["company"].StudentCount
             w == Len(Travelling)
  <2>1. u \in Nat /\ k \in Nat /\ v \in Nat /\ w \in Nat
    BY <1>0, <1>3, CountTypes, ChainNames
  <2>2. k' = k
    BY <1>2, <1>3, <1>5, KeptAdded, ChainNames DEF c
  <2>3. u' = u /\ v' = v + 1 /\ w' = w - 1 /\ enrolled' = enrolled
    BY <1>1, <1>2, <1>5, ChainNames DEF n, c
  <2>4. u <= enrolled /\ v + k + w <= enrolled
    BY <1>0 DEF Counts
  <2>5. u' <= enrolled' /\ v' + k' + w' <= enrolled'
    <3> HIDE DEF u, k, v, w
    <3> QED
      BY <1>3, <2>1, <2>2, <2>3, <2>4
  <2> QED
    BY <2>5 DEF Counts
<1> QED
  BY <1>5, <1>8, <1>9, <1>10, <1>11, <1>12 DEF Inv

(* A message that fails takes its student with it, and the ghost notes it.  *)
LEMMA LoseKeepsInv ==
    ASSUME Inv, LoseStep
    PROVE  Inv'
<1> DEFINE m == Head(inbox)
           g == m.student.tag
<1>0. TypeOK /\ ChainsExact /\ Apart /\ Born /\ Graduated /\ Counts /\ Accounted
  BY DEF Inv
<1>1. /\ Channel!Service
      /\ gone' = [gone EXCEPT ![g] = [how |-> "lost", owner |-> m.new_owner]]
      /\ UNCHANGED <<chain, enrolled, departed>>
  BY DEF LoseStep
<1>2. /\ QueuesTyped' /\ UNCHANGED established
      /\ m.new_owner \in Accounts
      /\ g \in Tags /\ g <= enrolled
      /\ \A d \in Chains : Records(d, g) = {}
      /\ \A t \in Tags :
            /\ Messengers(t)' = {} <=> Messengers(t) = {} \/ t = g
            /\ \A i, j \in Messengers(t)' : i = j
            /\ \A i \in Messengers(t)' :
                  t \in departed /\ Travelling'[i].student.has_graduated
      /\ Len(Travelling') = Len(Travelling) - 1
  BY <1>1, MessageLands
<1>3. /\ gone' \in [Tags -> [how : {"no", "removed", "lost"}, owner : Accounts \cup {Root}]]
      /\ \A t \in Tags : gone'[t] =
            IF t = g THEN [how |-> "lost", owner |-> m.new_owner] ELSE gone[t]
  BY <1>0, <1>1, <1>2 DEF TypeOK
<1>4. /\ \A c \in Chains : Kept(c)' = Kept(c)
      /\ \A c \in Chains, id \in Ids : Student(c, id)' = Student(c, id)
      /\ \A c \in Chains : \A t : Records(c, t)' = Records(c, t)
  BY <1>1, ChainsUntouched
<1> HIDE DEF g, m
<1>5. \A t \in Tags : Somewhere(t)' <=> Somewhere(t) /\ t # g
  BY <1>2, <1>4 DEF Somewhere
<1>6. TypeOK' /\ ChainsExact'
  BY <1>0, <1>1, <1>2, <1>3 DEF TypeOK, QueuesTyped, ChainsExact
<1>7. Apart' /\ Born'
  BY <1>0, <1>1, <1>2, <1>4, <1>5 DEF Apart, Born
<1>8. Graduated'
  <2>1. \A c \in Chains : \A t : \A i \in Records(c, t) : i \in Ids
    BY RecordsMeans
  <2> QED
    BY <1>0, <1>1, <1>2, <1>4, <2>1 DEF Graduated
<1>9. Counts'
  <2> DEFINE k == Cardinality(Kept("university"))
             v == chain["company"].StudentCount
             w == Len(Travelling)
  <2>1. k \in Nat /\ v \in Nat /\ w \in Nat /\ enrolled \in Nat
    BY <1>0, CountTypes, KeptFinite, ChainNames
  <2>2. k' = k /\ v' = v /\ w' = w - 1
    BY <1>1, <1>2, <1>4, ChainNames
  <2>3. v + k + w <= enrolled
    BY <1>0 DEF Counts
  <2>4. v' + k' + w' <= enrolled
    <3> HIDE DEF k, v, w
    <3> QED
      BY <2>1, <2>2, <2>3
  <2> QED
    BY <1>0, <1>1, <2>4 DEF Counts
<1>10. Accounted'
  <2> SUFFICES ASSUME NEW t \in Tags
               PROVE  /\ t > enrolled => gone'[t] = Present
                      /\ t <= enrolled => (Somewhere(t)' <=> gone'[t].how = "no")
    BY <1>1 DEF Accounted
  <2>1. CASE t = g
    <3>1. ~(t > enrolled)
      BY <1>0, <1>2, <2>1, TagsAssumption DEF TypeOK
    <3> QED
      BY <1>3, <1>5, <2>1, <3>1
  <2>2. CASE t # g
    BY <1>0, <1>3, <1>5, <2>2 DEF Accounted
  <2> QED
    BY <2>1, <2>2
<1> QED
  BY <1>6, <1>7, <1>8, <1>9, <1>10 DEF Inv

LEMMA MoveKeepsInv ==
    ASSUME Inv, MoveStep
    PROVE  Inv'
<1>0. TypeOK /\ ChainsExact /\ Apart /\ Born /\ Graduated /\ Counts /\ Accounted
  BY DEF Inv
<1>1. /\ Channel!Establish \/ Channel!TakePage \/ Channel!Enqueue
      /\ UNCHANGED <<chain, enrolled, departed, gone>>
  BY DEF MoveStep
<1>2. QueuesTyped' /\ Travelling' = Travelling
  BY <1>0, <1>1, CountTypes, ChannelKeeps
<1>3. established' \in BOOLEAN
  BY <1>0, <1>1 DEF TypeOK, Channel!Establish, Channel!TakePage, Channel!Enqueue
<1>4. \A t : Messengers(t)' = Messengers(t)
  BY <1>2, MessengersUntouched
<1>5. /\ \A c \in Chains : Kept(c)' = Kept(c)
      /\ \A c \in Chains, id \in Ids : Student(c, id)' = Student(c, id)
      /\ \A c \in Chains : \A t : Records(c, t)' = Records(c, t)
  BY <1>1, ChainsUntouched
<1>6. TypeOK' /\ ChainsExact'
  BY <1>0, <1>1, <1>2, <1>3 DEF TypeOK, QueuesTyped, ChainsExact
<1>7. Apart' /\ Born' /\ Accounted'
  BY <1>0, <1>1, <1>4, <1>5 DEF Apart, Born, Accounted, Somewhere
<1>8. Graduated'
  <2>1. \A c \in Chains : \A t : \A i \in Records(c, t) : i \in Ids
    BY RecordsMeans
  <2> QED
    BY <1>0, <1>1, <1>2, <1>4, <1>5, <2>1 DEF Graduated
<1>9. Counts'
  BY <1>0, <1>1, <1>2, <1>5, ChainNames DEF Counts
<1> QED
  BY <1>6, <1>7, <1>8, <1>9 DEF Inv

LEMMA StutterKeepsInv ==
    ASSUME Inv, UNCHANGED vars
    PROVE  Inv'
<1>0. TypeOK /\ ChainsExact /\ Apart /\ Born /\ Graduated /\ Counts /\ Accounted
  BY DEF Inv
<1>1. UNCHANGED chain /\ UNCHANGED channelVars /\ UNCHANGED <<enrolled, departed, gone>>
  BY DEF vars
<1>2. Travelling' = Travelling /\ \A t : Messengers(t)' = Messengers(t)
  BY <1>1, ChannelUntouched
<1>3. /\ \A c \in Chains : Kept(c)' = Kept(c)
      /\ \A c \in Chains, id \in Ids : Student(c, id)' = Student(c, id)
      /\ \A c \in Chains : \A t : Records(c, t)' = Records(c, t)
  BY <1>1, ChainsUntouched
<1>4. TypeOK' /\ ChainsExact'
  BY <1>0, <1>1 DEF TypeOK, ChainsExact, channelVars
<1>5. Apart' /\ Born' /\ Accounted'
  BY <1>0, <1>1, <1>2, <1>3 DEF Apart, Born, Accounted, Somewhere
<1>6. Graduated'
  <2>1. \A c \in Chains : \A t : \A i \in Records(c, t) : i \in Ids
    BY RecordsMeans
  <2> QED
    BY <1>0, <1>1, <1>2, <1>3, <2>1 DEF Graduated
<1>7. Counts'
  BY <1>0, <1>1, <1>2, <1>3, ChainNames DEF Counts
<1> QED
  BY <1>4, <1>5, <1>6, <1>7 DEF Inv

LEMMA StepInv == NoWrap /\ Inv /\ [Next]_vars => Inv'
<1> SUFFICES ASSUME NoWrap, Inv, Next PROVE Inv'
  BY StutterKeepsInv
<1>1. \/ \E c \in Chains : EnrolStep(c) \/ AmendStep(c) \/ RemoveStep(c)
      \/ DepartStep \/ ArriveStep \/ LoseStep \/ MoveStep
      \/ UNCHANGED vars
  BY NextSteps DEF Inv
<1> QED
  BY <1>1, EnrolKeepsInv, AmendKeepsInv, RemoveKeepsInv, DepartKeepsInv, ArriveKeepsInv,
     LoseKeepsInv, MoveKeepsInv, StutterKeepsInv

LEMMA Invariance == NoWrap => (Spec => []Inv)
<1> SUFFICES ASSUME NoWrap PROVE Spec => []Inv
  OBVIOUS
<1>1. Init => Inv
  BY InitInv
<1>2. Inv /\ [Next]_vars => Inv'
  BY StepInv
<1> QED
  BY <1>1, <1>2, PTL DEF Spec

-----------------------------------------------------------------------------
(* The invariants of the two chains                                         *)

(* Both storages, the queues in between and the ghosts keep their types: no *)
(* list outgrows MaxStudentsPerOwner, whoever fills it (lib.rs:46-70).      *)
THEOREM ChainsTyped == NoWrap => (Spec => []TypeOK)
<1>1. Inv => TypeOK
  BY DEF Inv
<1> QED
  BY <1>1, Invariance, PTL

(* On both chains the two maps describe one ownership relation, and an      *)
(* enumeration of the ids meets every student, whatever messages arrive     *)
(* between the calls of users (lib.rs:148-402).                             *)
THEOREM ChainsStayExact == NoWrap => (Spec => []ChainsExact)
<1>1. Inv => ChainsExact
  BY DEF Inv
<1> QED
  BY <1>1, Invariance, PTL

LEMMA AtMostOne ==
    ASSUME NEW S, IsFiniteSet(S), \A i, j \in S : i = j
    PROVE  Cardinality(S) = IF S = {} THEN 0 ELSE 1
<1>1. CASE S = {}
  BY <1>1, FS_EmptySet
<1>2. CASE S # {}
  <2>1. PICK x \in S : S = {x}
    BY <1>2
  <2> QED
    BY <1>2, <2>1, FS_Singleton
<1> QED
  BY <1>1, <1>2

LEMMA InvOnePlace == Inv => OnePlace
<1> SUFFICES ASSUME Inv, NEW t \in Tags
             PROVE  Cardinality(Records("university", t)) + Cardinality(Records("company", t))
                        + Cardinality(Messengers(t)) <= 1
  BY DEF OnePlace
<1>0. TypeOK /\ Apart
  BY DEF Inv
<1>1. \A c \in Chains : IsFiniteSet(Records(c, t))
  <2>1. IsFiniteSet(Ids)
    BY FS_Interval, BoundsAssumption DEF Ids
  <2> QED
    BY <2>1, FS_Subset DEF Records
<1>2. IsFiniteSet(Messengers(t))
  <2>1. Len(Travelling) \in Nat /\ DOMAIN Travelling = 1 .. Len(Travelling)
    BY <1>0, CountTypes
  <2>2. IsFiniteSet(1 .. Len(Travelling))
    BY <2>1, FS_Interval
  <2> QED
    BY <2>1, <2>2, FS_Subset DEF Messengers
<1>3. \A c \in Chains : Cardinality(Records(c, t)) = IF Records(c, t) = {} THEN 0 ELSE 1
  BY <1>0, <1>1, AtMostOne DEF Apart
<1>4. Cardinality(Messengers(t)) = IF Messengers(t) = {} THEN 0 ELSE 1
  BY <1>0, <1>2, AtMostOne DEF Apart
<1>5. ~(Records("university", t) # {} /\ Records("company", t) # {})
  BY <1>0, ChainNames DEF Apart
<1>6. \A c \in Chains : ~(Records(c, t) # {} /\ Messengers(t) # {})
  BY <1>0 DEF Apart
<1> QED
  BY <1>3, <1>4, <1>5, <1>6, ChainNames

(* No student is ever on both chains, on a chain and under way, or under    *)
(* way twice: erasing the record and sending the message are one step of    *)
(* the storage layer, and a message is executed once (lib.rs:193-267).      *)
THEOREM NeverCopied == NoWrap => (Spec => []OnePlace)
<1>1. Inv => OnePlace
  BY InvOnePlace
<1> QED
  BY <1>1, Invariance, PTL

(* Whoever the University has sent off stays marked as graduated, through   *)
(* the channel and every update on the Company (lib.rs:210-216, 331-371).   *)
THEOREM DepartedStayGraduated == NoWrap => (Spec => []DepartedGraduated)
<1>1. Inv => DepartedGraduated
  <2> SUFFICES ASSUME Inv PROVE DepartedGraduated
    OBVIOUS
  <2>1. departed \subseteq Tags /\ Graduated
    BY DEF Inv, TypeOK
  <2> QED
    BY <2>1 DEF Graduated, DepartedGraduated, Student
<1> QED
  BY <1>1, Invariance, PTL

-----------------------------------------------------------------------------
(* The refinement: where a student is and whose, as the invariant tells it  *)

Owns(c, a, id) == Listed(chain[c].StudentsByOwner[a], id)

(* A stored record has one owner.                                           *)
LEMMA OneOwns ==
    ASSUME Inv, NEW c \in Chains, NEW id \in Ids
    PROVE  /\ Student(c, id) # NoStudent <=> \E a \in Accounts : Owns(c, a, id)
           /\ \A a, b \in Accounts : Owns(c, a, id) /\ Owns(c, b, id) => a = b
<1>1. chain[c] \in Storage /\ Exact(chain[c])
  BY DEF Inv, TypeOK, ChainsExact
<1> QED
  BY <1>1, ExactMeans DEF Owns, Student

WhereTold ==
    \A t \in Tags :
        /\ \A c \in Chains : Records(c, t) # {} => Where(t) = c
        /\ Messengers(t) # {} => Where(t) = "travelling"
        /\ t > enrolled => Where(t) = "unborn"
        /\ t <= enrolled /\ ~Somewhere(t) =>
              Where(t) = gone[t].how /\ gone[t].how \in {"removed", "lost"}

OwnerTold ==
    \A t \in Tags :
        /\ \A c \in Chains, a \in Accounts : \A id \in Records(c, t) :
              Owns(c, a, id) => OwnerOf(t) = a
        /\ \A i \in Messengers(t) : OwnerOf(t) = Travelling[i].new_owner
        /\ ~Somewhere(t) => OwnerOf(t) = gone[t].owner

LEMMA InvTellsWhere == Inv => WhereTold
<1> SUFFICES ASSUME Inv, NEW t \in Tags
             PROVE  /\ \A c \in Chains : Records(c, t) # {} => Where(t) = c
                    /\ Messengers(t) # {} => Where(t) = "travelling"
                    /\ t > enrolled => Where(t) = "unborn"
                    /\ t <= enrolled /\ ~Somewhere(t) =>
                          Where(t) = gone[t].how /\ gone[t].how \in {"removed", "lost"}
  BY DEF WhereTold
<1>0. TypeOK /\ Apart /\ Born /\ Accounted
  BY DEF Inv
<1>1. t \in Nat /\ enrolled \in Nat
  BY <1>0, TagsAssumption DEF TypeOK
<1>2. /\ Stored("university", t) <=> Records("university", t) # {}
      /\ Stored("company", t) <=> Records("company", t) # {}
  BY DEF Stored
<1>3. Somewhere(t) => ~(t > enrolled)
  BY <1>0 DEF Born
<1>4. ~(Records("university", t) # {} /\ Records("company", t) # {})
  BY <1>0, ChainNames DEF Apart
<1>5. \A c \in Chains : ~(Records(c, t) # {} /\ Messengers(t) # {})
  BY <1>0 DEF Apart
<1>6. ASSUME t <= enrolled, ~Somewhere(t)
      PROVE  gone[t].how \in {"removed", "lost"}
  <2>1. gone[t].how # "no"
    BY <1>0, <1>6 DEF Accounted
  <2> QED
    BY <1>0, <2>1 DEF TypeOK
<1>7. Somewhere(t) => gone[t].how = "no"
  BY <1>0, <1>1, <1>3 DEF Accounted
<1>8. CASE t > enrolled
  <2>1. ~Somewhere(t) /\ ~(t <= enrolled) /\ gone[t].how = "no"
    BY <1>0, <1>1, <1>3, <1>8 DEF Accounted, Present
  <2>2. Messengers(t) = {} /\ \A c \in Chains : Records(c, t) = {}
    BY <2>1 DEF Somewhere
  <2>3. Where(t) = "unborn"
    BY <1>2, <1>8, <2>1, <2>2, ChainNames DEF Where
  <2> QED
    BY <2>1, <2>2, <2>3
<1>9. CASE Records("university", t) # {}
  <2>1. ~(t > enrolled) /\ Somewhere(t) /\ gone[t].how = "no"
    BY <1>3, <1>9, <1>7, ChainNames DEF Somewhere
  <2>2. Messengers(t) = {} /\ Records("company", t) = {}
    BY <1>4, <1>5, <1>9, ChainNames
  <2>3. Where(t) = "university"
    BY <1>2, <1>9, <2>1, <2>2 DEF Where
  <2> QED
    BY <1>9, <2>1, <2>2, <2>3, ChainNames
<1>10. CASE Records("company", t) # {}
  <2>1. ~(t > enrolled) /\ Somewhere(t) /\ gone[t].how = "no"
    BY <1>3, <1>10, <1>7, ChainNames DEF Somewhere
  <2>2. Messengers(t) = {} /\ Records("university", t) = {}
    BY <1>4, <1>5, <1>10, ChainNames
  <2>3. Where(t) = "company"
    BY <1>2, <1>10, <2>1, <2>2 DEF Where
  <2> QED
    BY <1>10, <2>1, <2>2, <2>3, ChainNames
<1>11. CASE Messengers(t) # {}
  <2>1. \A c \in Chains : Records(c, t) = {}
    BY <1>5, <1>11
  <2>2. ~(t > enrolled) /\ Somewhere(t) /\ gone[t].how = "no"
    BY <1>3, <1>11, <1>7 DEF Somewhere
  <2>3. Where(t) = "travelling"
    BY <1>2, <1>11, <2>1, <2>2, ChainNames DEF Where
  <2> QED
    BY <2>1, <2>2, <2>3
<1>12. CASE ~Somewhere(t) /\ ~(t > enrolled)
  <2>1. Messengers(t) = {} /\ \A c \in Chains : Records(c, t) = {}
    BY <1>12 DEF Somewhere
  <2>2. t <= enrolled
    BY <1>1, <1>12
  <2>3. gone[t].how # "no"
    BY <1>6, <1>12, <2>2
  <2>4. Where(t) = gone[t].how
    BY <1>2, <1>12, <2>1, <2>3, ChainNames DEF Where
  <2> QED
    BY <1>6, <1>12, <2>1, <2>2, <2>4
<1> QED
  BY <1>8, <1>9, <1>10, <1>11, <1>12, ChainNames DEF Somewhere

LEMMA InvTellsOwner == Inv => OwnerTold
<1> SUFFICES ASSUME Inv, NEW t \in Tags
             PROVE  /\ \A c \in Chains, a \in Accounts : \A id \in Records(c, t) :
                          Owns(c, a, id) => OwnerOf(t) = a
                    /\ \A i \in Messengers(t) : OwnerOf(t) = Travelling[i].new_owner
                    /\ ~Somewhere(t) => OwnerOf(t) = gone[t].owner
  BY DEF OwnerTold
<1>0. TypeOK /\ ChainsExact /\ Apart
  BY DEF Inv
<1>1. /\ Stored("university", t) <=> Records("university", t) # {}
      /\ Stored("company", t) <=> Records("company", t) # {}
  BY DEF Stored
<1>2. ASSUME NEW c \in Chains, NEW a \in Accounts, NEW id \in Records(c, t), Owns(c, a, id)
      PROVE  OwnerOf(t) = a
  <2>1. id \in Ids /\ \A i \in Ids : i \in Records(c, t) => i = id
    BY <1>0, RecordsMeans DEF Apart
  <2>2. (CHOOSE i \in Ids : i \in Records(c, t)) = id
    BY <2>1
  <2>3. HolderOf(chain[c], id) = a
    BY <1>0, <1>2, <2>1, HolderIs DEF Owns, TypeOK, ChainsExact
  <2>4. HolderOf(chain[c], CHOOSE i \in Ids : i \in Records(c, t)) = a
    BY <2>2, <2>3
  <2>5. Messengers(t) = {}
    BY <1>0 DEF Apart
  <2>6. CASE c = "university"
    <3>1. Records("company", t) = {} /\ Records("university", t) # {}
      BY <1>0, <2>6, ChainNames DEF Apart
    <3> QED
      BY <1>1, <2>4, <2>5, <2>6, <3>1 DEF OwnerOf
  <2>7. CASE c = "company"
    <3>1. Records("university", t) = {} /\ Records("company", t) # {}
      BY <1>0, <2>7, ChainNames DEF Apart
    <3> QED
      BY <1>1, <2>4, <2>5, <2>7, <3>1 DEF OwnerOf
  <2> QED
    BY <2>6, <2>7, ChainNames
<1>3. ASSUME NEW i \in Messengers(t)
      PROVE  OwnerOf(t) = Travelling[i].new_owner
  <2>1. \A c \in Chains : Records(c, t) = {}
    BY <1>0 DEF Apart
  <2>2. i \in DOMAIN Travelling /\ \A j \in DOMAIN Travelling : j \in Messengers(t) => j = i
    BY <1>0 DEF Apart, Messengers
  <2>3. (CHOOSE j \in DOMAIN Travelling : j \in Messengers(t)) = i
    BY <2>2
  <2> QED
    BY <1>1, <2>1, <2>3, ChainNames DEF OwnerOf
<1>4. ASSUME ~Somewhere(t)
      PROVE  OwnerOf(t) = gone[t].owner
  BY <1>1, <1>4, ChainNames DEF OwnerOf, Somewhere
<1> QED
  BY <1>2, <1>3, <1>4

(* The owner's students are those of the list, each once.                   *)
LEMMA OwnedAreListed ==
    ASSUME Inv, NEW c \in Chains, NEW a \in Accounts
    PROVE  LET S == {t \in Tags : Where(t) = c /\ OwnerOf(t) = a} IN
           IsFiniteSet(S) /\ Cardinality(S) = Len(chain[c].StudentsByOwner[a])
<1> DEFINE list == chain[c].StudentsByOwner[a]
           n    == Len(list)
           S    == {t \in Tags : Where(t) = c /\ OwnerOf(t) = a}
           f    == [i \in 1 .. n |-> Student(c, list[i]).tag]
<1>0. TypeOK /\ ChainsExact /\ Apart /\ WhereTold /\ OwnerTold
  BY InvTellsWhere, InvTellsOwner DEF Inv
<1>1. chain[c] \in Storage /\ Exact(chain[c])
  BY <1>0 DEF TypeOK, ChainsExact
<1>2. list \in Seq(Ids) /\ n \in Nat /\ Distinct(list)
  BY <1>1, StorageParts, ExactMeans
<1> HIDE DEF list, n
<1>3. ASSUME NEW i \in 1 .. n
      PROVE  /\ list[i] \in Ids /\ Owns(c, a, list[i])
             /\ Student(c, list[i]) \in Students
             /\ list[i] \in Records(c, f[i]) /\ f[i] \in Tags
             /\ Where(f[i]) = c /\ OwnerOf(f[i]) = a
  <2>1. list[i] \in Ids /\ Owns(c, a, list[i])
    BY <1>2 DEF n, Owns, Listed, list
  <2>2. Student(c, list[i]) # NoStudent
    BY <2>1, OneOwns
  <2>3. Student(c, list[i]) \in Students
    BY <1>0, <2>1, <2>2, KeptIn
  <2>4. f[i] \in Tags /\ list[i] \in Records(c, f[i])
    BY <2>1, <2>2, <2>3, RecordsMeans DEF Students
  <2> QED
    BY <1>0, <2>1, <2>3, <2>4 DEF WhereTold, OwnerTold
<1>4. f \in [1 .. n -> S]
  <2>1. \A i \in 1 .. n : f[i] \in S
    BY <1>3
  <2> QED
    BY <2>1
<1>5. ASSUME NEW i \in 1 .. n, NEW j \in 1 .. n, f[i] = f[j]
      PROVE  i = j
  <2>1. list[i] = list[j]
    BY <1>0, <1>3, <1>5 DEF Apart
  <2> QED
    BY <1>2, <2>1 DEF Distinct, n
<1>6. ASSUME NEW t \in S
      PROVE  \E i \in 1 .. n : f[i] = t
  <2>1. Records(c, t) # {}
    <3>1. t \in Tags /\ t \in Nat /\ enrolled \in Nat /\ Where(t) = c
      BY <1>0, TagsAssumption DEF TypeOK
    <3>2. \A d \in Chains : Records(d, t) # {} => d = c
      BY <1>0, <3>1 DEF WhereTold
    <3>3. Messengers(t) = {} /\ ~(t > enrolled)
      BY <1>0, <3>1, ChainNames DEF WhereTold
    <3>4. Somewhere(t)
      BY <1>0, <3>1, <3>3, ChainNames DEF WhereTold
    <3> QED
      BY <3>2, <3>3, <3>4 DEF Somewhere
  <2>2. PICK id \in Records(c, t) : id \in Ids /\ Student(c, id) # NoStudent
                                    /\ Student(c, id).tag = t
    BY <2>1, RecordsMeans
  <2>3. PICK b \in Accounts : Owns(c, b, id)
    BY <2>2, OneOwns
  <2>4. b = a
    BY <1>0, <2>2, <2>3 DEF OwnerTold
  <2>5. PICK i \in 1 .. n : list[i] = id
    BY <2>3, <2>4 DEF Owns, Listed, n, list
  <2> QED
    BY <2>2, <2>5
<1> HIDE DEF S, f
<1>7. IsFiniteSet(S) /\ Cardinality(S) = n
  BY <1>2, <1>4, <1>5, <1>6, NumberedSet
<1> QED
  BY <1>7 DEF S, n, list

-----------------------------------------------------------------------------
(* What a step does to the lists                                            *)

LEMMA OwnsNext ==
    ASSUME NEW c \in Chains, NEW a \in Accounts, NEW id
    PROVE  Owns(c, a, id)' <=> Listed(chain'[c].StudentsByOwner[a], id)
  BY DEF Owns, Listed

LEMMA EnrolledLists ==
    ASSUME TypeOK, NEW c \in Chains, NEW a \in Accounts, NEW x \in Students,
           Enrol(chain[c], a, x).err = "none", Chained(c, Enrol(chain[c], a, x).st)
    PROVE  /\ \A id : id = chain[c].StudentCount => Owns(c, a, id)'
           /\ \A d \in Chains, b \in Accounts : \A id : Owns(d, b, id) => Owns(d, b, id)'
           /\ Len(chain[c].StudentsByOwner[a]) < MaxStudentsPerOwner
<1> DEFINE s == chain[c]
           t == Enrol(s, a, x).st
           n == s.StudentCount
<1>1. s \in Storage /\ s.StudentsByOwner[a] \in Seq(Ids) /\ n \in Ids
  BY StorageParts DEF TypeOK
<1>2. /\ \A b \in Accounts : t.StudentsByOwner[b] =
            IF b = a THEN Append(s.StudentsByOwner[a], n) ELSE s.StudentsByOwner[b]
      /\ Len(s.StudentsByOwner[a]) < MaxStudentsPerOwner
  BY <1>1, EnrolType
<1>3. chain'[c] = t /\ \A d \in Chains \ {c} : chain'[d] = chain[d]
  BY DEF Chained, TypeOK
<1>4. \A y : Listed(Append(s.StudentsByOwner[a], n), y)
                <=> Listed(s.StudentsByOwner[a], y) \/ y = n
  BY <1>1, PushedList
<1> HIDE DEF s, t, n
<1>5. ASSUME NEW id, id = n
      PROVE  Owns(c, a, id)'
  BY <1>2, <1>3, <1>4, <1>5, OwnsNext
<1>6. ASSUME NEW d \in Chains, NEW b \in Accounts, NEW id, Owns(d, b, id)
      PROVE  Owns(d, b, id)'
  <2>1. CASE d = c
    BY <1>2, <1>3, <1>4, <1>6, <2>1, OwnsNext DEF Owns, s
  <2>2. CASE d # c
    BY <1>3, <1>6, <2>2, OwnsNext DEF Owns
  <2> QED
    BY <2>1, <2>2
<1> QED
  BY <1>2, <1>5, <1>6 DEF n, s

LEMMA ErasedLists ==
    ASSUME TypeOK, ChainsExact, NEW c \in Chains, NEW a \in Accounts, NEW id \in Ids,
           Listed(chain[c].StudentsByOwner[a], id), Chained(c, Erased(chain[c], a, id))
    PROVE  \A d \in Chains, b \in Accounts : \A i :
              Owns(d, b, i) /\ ~(d = c /\ i = id) => Owns(d, b, i)'
<1> DEFINE s == chain[c]
           t == Erased(s, a, id)
<1>1. s \in Storage /\ s.StudentsByOwner[a] \in Seq(Ids) /\ Distinct(s.StudentsByOwner[a])
  BY StorageParts, ExactMeans DEF TypeOK, ChainsExact
<1>2. \A b \in Accounts : t.StudentsByOwner[b] =
         IF b = a THEN Unlisted(s.StudentsByOwner[a], id) ELSE s.StudentsByOwner[b]
  BY <1>1, ErasedType
<1>3. chain'[c] = t /\ \A d \in Chains \ {c} : chain'[d] = chain[d]
  BY DEF Chained, TypeOK
<1>4. \A y : Listed(Unlisted(s.StudentsByOwner[a], id), y)
                <=> Listed(s.StudentsByOwner[a], y) /\ y # id
  BY <1>1, UnlistedList
<1> HIDE DEF s, t
<1> SUFFICES ASSUME NEW d \in Chains, NEW b \in Accounts, NEW i,
                    Owns(d, b, i), ~(d = c /\ i = id)
             PROVE  Owns(d, b, i)'
  OBVIOUS
<1>5. CASE d = c
  BY <1>2, <1>3, <1>4, <1>5, OwnsNext DEF Owns, s
<1>6. CASE d # c
  BY <1>3, <1>6, OwnsNext DEF Owns
<1> QED
  BY <1>5, <1>6

LEMMA AmendedLists ==
    ASSUME TypeOK, NEW c \in Chains, NEW id \in Ids, NEW x \in Students,
           Chained(c, WithStudent(chain[c], id, x))
    PROVE  \A d \in Chains, b \in Accounts : \A i : Owns(d, b, i) => Owns(d, b, i)'
<1> DEFINE t == WithStudent(chain[c], id, x)
<1>1. t.StudentsByOwner = chain[c].StudentsByOwner
  BY WithStudentType DEF TypeOK
<1>2. chain'[c] = t /\ \A d \in Chains \ {c} : chain'[d] = chain[d]
  BY DEF Chained, TypeOK
<1> HIDE DEF t
<1> SUFFICES ASSUME NEW d \in Chains, NEW b \in Accounts, NEW i, Owns(d, b, i)
             PROVE  Owns(d, b, i)'
  OBVIOUS
<1>3. chain'[d].StudentsByOwner = chain[d].StudentsByOwner
  BY <1>1, <1>2
<1> QED
  BY <1>3, OwnsNext DEF Owns

-----------------------------------------------------------------------------
(* The steps of the life of a student                                       *)

Wheres     == [t \in Tags |-> Where(t)]
Owners     == [t \in Tags |-> OwnerOf(t)]
TagsOf(q)  == [i \in DOMAIN q |-> q[i].student.tag]
Travellers == TagsOf(Travelling)

(* The step is about other students.                                        *)
Unaffected(t) ==
    /\ t > enrolled <=> t > enrolled'
    /\ \A c \in Chains : Records(c, t)' = Records(c, t)
    /\ \A c \in Chains, a \in Accounts : \A id \in Records(c, t) :
          Owns(c, a, id) => Owns(c, a, id)'
    /\ Messengers(t)' = {} <=> Messengers(t) = {}
    /\ \A i \in Messengers(t) : \E j \in Messengers(t)' :
          Travelling'[j].new_owner = Travelling[i].new_owner
    /\ gone'[t] = gone[t]

LEMMA InvTellsNext == Inv' => WhereTold' /\ OwnerTold'
<1>1. Inv => WhereTold /\ OwnerTold
  BY InvTellsWhere, InvTellsOwner
<1> QED
  BY <1>1, PTL

LEMMA UnaffectedStays ==
    ASSUME Inv, Inv', NEW t \in Tags, Unaffected(t)
    PROVE  Where(t)' = Where(t) /\ OwnerOf(t)' = OwnerOf(t)
<1>0. WhereTold /\ OwnerTold
  BY InvTellsWhere, InvTellsOwner
<1>1. WhereTold' /\ OwnerTold'
  BY InvTellsNext
<1>2. t \in Nat /\ enrolled \in Nat /\ enrolled' \in Nat
  BY TagsAssumption DEF Inv, TypeOK
<1>3. ASSUME NEW c \in Chains, Records(c, t) # {}
      PROVE  Where(t)' = Where(t) /\ OwnerOf(t)' = OwnerOf(t)
  <2>1. PICK id \in Records(c, t) : id \in Ids /\ Student(c, id) # NoStudent
    BY <1>3, RecordsMeans
  <2>2. PICK a \in Accounts : Owns(c, a, id)
    BY <2>1, OneOwns
  <2>3. id \in Records(c, t)' /\ Owns(c, a, id)'
    BY <2>1, <2>2 DEF Unaffected
  <2>4. Where(t) = c /\ OwnerOf(t) = a
    BY <1>0, <2>1, <2>2 DEF WhereTold, OwnerTold
  <2>5. Where(t)' = c
    BY <1>1, <2>3 DEF WhereTold
  <2>6. OwnerOf(t)' = a
    BY <1>1, <2>3 DEF OwnerTold
  <2> QED
    BY <2>4, <2>5, <2>6
<1>4. ASSUME Messengers(t) # {}
      PROVE  Where(t)' = Where(t) /\ OwnerOf(t)' = OwnerOf(t)
  <2>1. PICK i \in Messengers(t) : TRUE
    BY <1>4
  <2>2. PICK j \in Messengers(t)' : Travelling'[j].new_owner = Travelling[i].new_owner
    BY <2>1 DEF Unaffected
  <2>3. Where(t) = "travelling" /\ OwnerOf(t) = Travelling[i].new_owner
    BY <1>0, <2>1 DEF WhereTold, OwnerTold
  <2>4. Where(t)' = "travelling"
    BY <1>1, <2>2 DEF WhereTold
  <2>5. OwnerOf(t)' = Travelling'[j].new_owner
    BY <1>1, <2>2 DEF OwnerTold
  <2> QED
    BY <2>2, <2>3, <2>4, <2>5
<1>5. ASSUME ~Somewhere(t)
      PROVE  Where(t)' = Where(t) /\ OwnerOf(t)' = OwnerOf(t)
  <2>1. ~Somewhere(t)'
    BY <1>5 DEF Somewhere, Unaffected
  <2>2. gone'[t] = gone[t] /\ (t > enrolled <=> t > enrolled')
    BY DEF Unaffected
  <2>3. OwnerOf(t) = gone[t].owner
    BY <1>0, <1>5 DEF OwnerTold
  <2>4. OwnerOf(t)' = gone'[t].owner
    BY <1>1, <2>1 DEF OwnerTold
  <2>5. CASE t > enrolled
    <3>1. Where(t) = "unborn"
      BY <1>0, <2>5 DEF WhereTold
    <3>2. Where(t)' = "unborn"
      BY <1>1, <2>2, <2>5 DEF WhereTold
    <3> QED
      BY <2>2, <2>3, <2>4, <3>1, <3>2
  <2>6. CASE ~(t > enrolled)
    <3>1. t <= enrolled /\ t <= enrolled'
      BY <1>2, <2>2, <2>6
    <3>2. Where(t) = gone[t].how
      BY <1>0, <1>5, <3>1 DEF WhereTold
    <3>3. Where(t)' = gone'[t].how
      BY <1>1, <2>1, <3>1 DEF WhereTold
    <3> QED
      BY <2>2, <2>3, <2>4, <3>2, <3>3
  <2> QED
    BY <2>5, <2>6
<1> QED
  BY <1>3, <1>4, <1>5 DEF Somewhere

(* A step about one student g, or about nobody.                             *)
LEMMA OneAffected ==
    ASSUME Inv, Inv', NEW g \in Tags, \A t \in Tags \ {g} : Unaffected(t)
    PROVE  /\ Wheres' = [Wheres EXCEPT ![g] = Where(g)']
           /\ Owners' = [Owners EXCEPT ![g] = OwnerOf(g)']
  BY UnaffectedStays DEF Wheres, Owners

LEMMA NoneAffected ==
    ASSUME Inv, Inv', \A t \in Tags : Unaffected(t)
    PROVE  UNCHANGED <<Wheres, Owners>>
  BY UnaffectedStays DEF Wheres, Owners

LEMMA SameCardinality == \A S : Life!Cardinality(S) = Cardinality(S)
  BY DEF Life!Cardinality, Cardinality

(* HasPlace of the abstract specification is the room in the bounded list.  *)
LEMMA PlaceMeans ==
    ASSUME Inv, NEW c \in Chains, NEW a \in Accounts
    PROVE  Life!HasPlace(c, a) <=> Len(chain[c].StudentsByOwner[a]) < MaxStudentsPerOwner
<1> DEFINE S == {t \in Tags : Where(t) = c /\ OwnerOf(t) = a}
<1>1. Life!Owned(c, a) = S
  BY DEF Life!Owned
<1>2. Cardinality(S) = Len(chain[c].StudentsByOwner[a])
  BY OwnedAreListed
<1> HIDE DEF S
<1> QED
  BY <1>1, <1>2, SameCardinality DEF Life!HasPlace

LEMMA LifeInit == Init => Life!Init
<1> SUFFICES ASSUME Init PROVE Life!Init
  OBVIOUS
<1>1. Inv /\ WhereTold /\ OwnerTold
  BY InitInv, InvTellsWhere, InvTellsOwner
<1>2. enrolled = 0 /\ gone = [t \in Tags |-> Present]
  BY DEF Init
<1>3. Travelling = <<>>
  <2>1. Queue!InFlight = <<>>
    BY SameChannel, Queue!FlattenEmpty DEF Queue!InFlight, Init, Channel!ChannelInit
  <2> QED
    BY <2>1, SameQueues
<1>4. ASSUME NEW t \in Tags
      PROVE  Where(t) = "unborn" /\ OwnerOf(t) = Root
  <2>1. t > enrolled
    BY <1>2, TagsAssumption
  <2>2. ~Somewhere(t)
    BY <1>1, <2>1 DEF Inv, Born
  <2> QED
    BY <1>1, <1>2, <2>1, <2>2 DEF WhereTold, OwnerTold, Present
<1>5. [i \in DOMAIN Travelling |-> Travelling[i].student.tag] = <<>>
  BY <1>3
<1> QED
  BY <1>4, <1>5 DEF Life!Init

LEMMA LifeEnrol ==
    ASSUME Inv, Inv', NoWrap, NEW c \in Chains, EnrolStep(c)
    PROVE  Life!Next
<1>0. TypeOK /\ ChainsExact /\ Born /\ Counts /\ WhereTold /\ WhereTold' /\ OwnerTold'
  BY InvTellsWhere, InvTellsNext DEF Inv
<1>1. PICK a \in Accounts, x \in Students :
        /\ enrolled < MaxEnrolments
        /\ x.tag = enrolled + 1
        /\ Enrol(chain[c], a, x).err = "none"
        /\ Chained(c, Enrol(chain[c], a, x).st)
        /\ enrolled' = enrolled + 1
        /\ UNCHANGED <<channelVars, departed, gone>>
  BY DEF EnrolStep
<1>2. PICK g \in Tags : g = enrolled + 1
  BY <1>1 DEF Students
<1>3. PICK n : n = chain[c].StudentCount
  OBVIOUS
<1>4. enrolled \in Nat /\ g \in Nat /\ n \in Nat /\ n + 1 < IdSpace
  <2>1. enrolled \in Nat /\ n \in Nat /\ Len(Travelling) \in Nat /\ Cardinality(Kept("university")) \in Nat
    BY <1>0, <1>3, CountTypes, KeptFinite, ChainNames
  <2>2. n <= enrolled
    <3> DEFINE k == Cardinality(Kept("university"))
               w == Len(Travelling)
               u == chain["university"].StudentCount
               v == chain["company"].StudentCount
    <3>1. u <= enrolled /\ v + k + w <= enrolled /\ u \in Nat /\ v \in Nat
      BY <1>0, CountTypes, ChainNames DEF Counts
    <3>2. n = u \/ n = v
      BY <1>3, ChainNames
    <3> HIDE DEF k, w, u, v
    <3> QED
      BY <2>1, <3>1, <3>2 DEF k, w
  <2> QED
    BY <1>1, <1>2, <2>1, <2>2, TagsAssumption, BoundsAssumption DEF NoWrap
<1>5. /\ n \in Ids /\ Student(c, n) = NoStudent /\ Becomes(c, n, x)
  BY <1>0, <1>1, <1>3, <1>4, EnrolledRecords
<1>6. \A d \in Chains : \A t : Records(d, t)' =
         IF d = c /\ t = g THEN Records(d, t) \cup {n} ELSE Records(d, t)
  BY <1>1, <1>2, <1>5, RecordsAdded
<1>7. /\ Owns(c, a, n)'
      /\ \A d \in Chains, b \in Accounts : \A id : Owns(d, b, id) => Owns(d, b, id)'
      /\ Len(chain[c].StudentsByOwner[a]) < MaxStudentsPerOwner
  BY <1>0, <1>1, <1>3, EnrolledLists
<1>8. Travelling' = Travelling /\ \A t : Messengers(t)' = Messengers(t)
  BY <1>1, ChannelUntouched
<1>9. ASSUME NEW t \in Tags \ {g}
      PROVE  Unaffected(t)
  <2>1. t > enrolled <=> t > enrolled'
    BY <1>1, <1>2, <1>4, TagsAssumption
  <2> QED
    BY <1>1, <1>6, <1>7, <1>8, <2>1 DEF Unaffected
<1>10. Where(g) = "unborn"
  BY <1>0, <1>2, <1>4 DEF WhereTold
<1>11. n \in Records(c, g)'
  BY <1>6
<1>12. Where(g)' = c
  BY <1>0, <1>11 DEF WhereTold
<1>13. OwnerOf(g)' = a
  BY <1>0, <1>7, <1>11 DEF OwnerTold
<1>14. Wheres' = [Wheres EXCEPT ![g] = c] /\ Owners' = [Owners EXCEPT ![g] = a]
  BY <1>9, <1>12, <1>13, OneAffected
<1>15. Life!HasPlace(c, a)
  BY <1>7, PlaceMeans
<1>16. Life!Enrolled(g, c, a)
  BY <1>8, <1>10, <1>14, <1>15 DEF Life!Enrolled, Wheres, Owners
<1> QED
  BY <1>16 DEF Life!Next, Life!Chains, Chains

LEMMA LifeAmend ==
    ASSUME Inv, Inv', NEW c \in Chains, AmendStep(c)
    PROVE  UNCHANGED <<Wheres, Owners, Travellers>>
<1>0. TypeOK /\ ChainsExact
  BY DEF Inv
<1>1. PICK a \in Accounts, id \in Ids, x \in Students :
        /\ Listed(chain[c].StudentsByOwner[a], id)
        /\ x.tag = Student(c, id).tag
        /\ Chained(c, WithStudent(chain[c], id, x))
        /\ UNCHANGED <<channelVars, enrolled, departed, gone>>
  BY DEF AmendStep, Student
<1>2. Student(c, id) \in Students /\ Becomes(c, id, x)
  BY <1>0, <1>1, AmendedRecords
<1>3. \A d \in Chains : \A t : Records(d, t)' = Records(d, t)
  BY <1>1, <1>2, RecordsAmended
<1>4. Travelling' = Travelling /\ \A t : Messengers(t)' = Messengers(t)
  BY <1>1, ChannelUntouched
<1>5. \A d \in Chains, b \in Accounts : \A i : Owns(d, b, i) => Owns(d, b, i)'
  BY <1>0, <1>1, AmendedLists
<1>6. \A t \in Tags : Unaffected(t)
  BY <1>1, <1>3, <1>4, <1>5 DEF Unaffected
<1> QED
  BY <1>4, <1>6, NoneAffected DEF Travellers, TagsOf

LEMMA LifeRemove ==
    ASSUME Inv, Inv', NEW c \in Chains, RemoveStep(c)
    PROVE  Life!Next
<1>0. TypeOK /\ ChainsExact /\ WhereTold /\ OwnerTold /\ WhereTold' /\ OwnerTold'
  BY InvTellsWhere, InvTellsOwner, InvTellsNext DEF Inv
<1>1. PICK a \in Accounts, id \in Ids :
        /\ Listed(chain[c].StudentsByOwner[a], id)
        /\ Chained(c, Erased(chain[c], a, id))
        /\ gone' = [gone EXCEPT ![Student(c, id).tag] = [how |-> "removed", owner |-> a]]
        /\ UNCHANGED <<channelVars, enrolled, departed>>
  BY DEF RemoveStep, Student
<1>2. Student(c, id) \in Students /\ Becomes(c, id, NoStudent)
  BY <1>0, <1>1, ErasedRecords
<1>3. PICK g \in Tags : g = Student(c, id).tag
  BY <1>2 DEF Students
<1>4. /\ g <= enrolled /\ Messengers(g) = {}
      /\ \A d \in Chains, t \in Tags :
            Records(d, t)' = IF t = g THEN {} ELSE Records(d, t)
  BY <1>2, <1>3, RecordLeaves
<1>5. \A d \in Chains, b \in Accounts : \A i :
         Owns(d, b, i) /\ ~(d = c /\ i = id) => Owns(d, b, i)'
  BY <1>0, <1>1, ErasedLists
<1>6. Travelling' = Travelling /\ \A t : Messengers(t)' = Messengers(t)
  BY <1>1, ChannelUntouched
<1>7. \A t \in Tags : gone'[t] = IF t = g THEN [how |-> "removed", owner |-> a] ELSE gone[t]
  BY <1>0, <1>1, <1>3 DEF TypeOK
<1>8. id \in Records(c, g)
  BY <1>2, <1>3, NoStudentAssumption, RecordsMeans
<1>9. ASSUME NEW t \in Tags \ {g}
      PROVE  Unaffected(t)
  <2>1. id \notin Records(c, t)
    BY <1>3, RecordsMeans
  <2> QED
    BY <1>1, <1>4, <1>5, <1>6, <1>7, <2>1 DEF Unaffected
<1>10. Where(g) = c /\ OwnerOf(g) = a
  <2>1. Owns(c, a, id)
    BY <1>1 DEF Owns
  <2> QED
    BY <1>0, <1>8, <2>1 DEF WhereTold, OwnerTold
<1>11. ~Somewhere(g)' /\ g <= enrolled'
  BY <1>1, <1>4, <1>6 DEF Somewhere
<1>12. Where(g)' = "removed" /\ OwnerOf(g)' = a
  BY <1>0, <1>7, <1>11 DEF WhereTold, OwnerTold
<1>13. Wheres' = [Wheres EXCEPT ![g] = "removed"] /\ Owners' = Owners
  <2>1. /\ Wheres' = [Wheres EXCEPT ![g] = "removed"]
        /\ Owners' = [Owners EXCEPT ![g] = a]
    BY <1>9, <1>12, OneAffected
  <2>2. [Owners EXCEPT ![g] = a] = Owners
    BY <1>10 DEF Owners
  <2> QED
    BY <2>1, <2>2
<1>14. Life!Remove(g)
  BY <1>6, <1>10, <1>13 DEF Life!Remove, Life!Chains, Chains, Wheres, Owners
<1> QED
  BY <1>14 DEF Life!Next

LEMMA TagsOfType ==
    ASSUME NEW q \in Seq(StudentMessages)
    PROVE  /\ TagsOf(q) \in Seq(Tags) /\ Len(TagsOf(q)) = Len(q)
           /\ \A i \in 1 .. Len(q) : TagsOf(q)[i] = q[i].student.tag
<1>1. \A i \in 1 .. Len(q) : q[i] \in StudentMessages
  OBVIOUS
<1>2. \A i \in 1 .. Len(q) : q[i].student.tag \in Tags
  BY <1>1 DEF StudentMessages, Students
<1>3. Len(q) \in Nat /\ DOMAIN q = 1 .. Len(q)
  OBVIOUS
<1> QED
  BY <1>2, <1>3 DEF TagsOf

LEMMA TagsOfAppend ==
    ASSUME NEW q \in Seq(StudentMessages), NEW m \in StudentMessages
    PROVE  TagsOf(Append(q, m)) = Append(TagsOf(q), m.student.tag)
<1> DEFINE s == TagsOf(q)
           u == TagsOf(Append(q, m))
           g == m.student.tag
           k == Len(q)
<1>1. /\ s \in Seq(Tags) /\ Len(s) = k /\ k \in Nat
      /\ \A i \in 1 .. k : s[i] = q[i].student.tag
  BY TagsOfType
<1>2. g \in Tags
  BY DEF StudentMessages, Students
<1>3. /\ Append(q, m) \in Seq(StudentMessages) /\ Len(Append(q, m)) = k + 1
      /\ Append(q, m)[k + 1] = m /\ \A i \in 1 .. k : Append(q, m)[i] = q[i]
  OBVIOUS
<1>4. /\ u \in Seq(Tags) /\ Len(u) = k + 1
      /\ \A i \in 1 .. k + 1 : u[i] = Append(q, m)[i].student.tag
  BY <1>3, TagsOfType
<1>5. u[k + 1] = g /\ \A i \in 1 .. k : u[i] = s[i]
  BY <1>1, <1>3, <1>4
<1> HIDE DEF s, u, g, k
<1>6. /\ Append(s, g) \in Seq(Tags) /\ Len(Append(s, g)) = k + 1
      /\ Append(s, g)[k + 1] = g /\ \A i \in 1 .. k : Append(s, g)[i] = s[i]
  BY <1>1, <1>2
<1>7. \A i \in 1 .. Len(u) : u[i] = Append(s, g)[i]
  BY <1>1, <1>4, <1>5, <1>6
<1>8. u = Append(s, g)
  BY <1>4, <1>6, <1>7, SeqEqual
<1> QED
  BY <1>8 DEF u, s, g

LEMMA TagsOfTail ==
    ASSUME NEW q \in Seq(StudentMessages), q # <<>>
    PROVE  /\ TagsOf(q) # <<>> /\ Head(TagsOf(q)) = Head(q).student.tag
           /\ TagsOf(Tail(q)) = Tail(TagsOf(q))
<1> DEFINE s == TagsOf(q)
           u == TagsOf(Tail(q))
           k == Len(q)
<1>1. /\ s \in Seq(Tags) /\ Len(s) = k /\ k \in Nat \ {0}
      /\ \A i \in 1 .. k : s[i] = q[i].student.tag
  BY TagsOfType
<1>2. /\ Tail(q) \in Seq(StudentMessages) /\ Len(Tail(q)) = k - 1
      /\ Head(q) = q[1] /\ \A i \in 1 .. k - 1 : Tail(q)[i] = q[i + 1]
  OBVIOUS
<1>3. /\ u \in Seq(Tags) /\ Len(u) = k - 1
      /\ \A i \in 1 .. k - 1 : u[i] = Tail(q)[i].student.tag
  BY <1>2, TagsOfType
<1>4. s[1] = Head(q).student.tag /\ \A i \in 1 .. k - 1 : u[i] = s[i + 1]
  BY <1>1, <1>2, <1>3
<1> HIDE DEF s, u, k
<1>5. s # <<>> /\ Head(s) = s[1]
  BY <1>1
<1>6. /\ Tail(s) \in Seq(Tags) /\ Len(Tail(s)) = k - 1
      /\ \A i \in 1 .. k - 1 : Tail(s)[i] = s[i + 1]
  BY <1>1, <1>5
<1>7. \A i \in 1 .. Len(u) : u[i] = Tail(s)[i]
  BY <1>3, <1>4, <1>6
<1>8. u = Tail(s)
  BY <1>3, <1>6, <1>7, SeqEqual
<1> QED
  BY <1>4, <1>5, <1>8 DEF u, s

LEMMA LifeDepart ==
    ASSUME Inv, Inv', DepartStep
    PROVE  Life!Next
<1>0. /\ TypeOK /\ ChainsExact /\ WhereTold /\ OwnerTold /\ WhereTold' /\ OwnerTold'
      /\ QueuesTyped /\ Travelling \in Seq(StudentMessages)
  BY InvTellsWhere, InvTellsOwner, InvTellsNext, CountTypes DEF Inv
<1>1. PICK c \in Chains : c = "university"
  BY ChainNames
<1>2. PICK a \in Accounts, id \in Ids :
        LET m == [student   |-> [Student(c, id) EXCEPT !.has_graduated = TRUE],
                  new_owner |-> a]
        IN  /\ Listed(chain[c].StudentsByOwner[a], id)
            /\ Chained(c, Erased(chain[c], a, id))
            /\ Channel!Send(m)
            /\ departed' = departed \cup {m.student.tag}
            /\ UNCHANGED <<enrolled, gone>>
  BY <1>1 DEF DepartStep, Student
<1>3. Student(c, id) \in Students /\ Becomes(c, id, NoStudent)
  BY <1>0, <1>2, ErasedRecords
<1>4. PICK m \in StudentMessages :
        m = [student |-> [Student(c, id) EXCEPT !.has_graduated = TRUE], new_owner |-> a]
  BY <1>3 DEF Students, StudentMessages
<1>5. PICK g \in Tags : g = Student(c, id).tag /\ g = m.student.tag
  BY <1>3, <1>4 DEF Students
<1>6. m.new_owner = a /\ Channel!Send(m) /\ UNCHANGED <<enrolled, gone>>
  BY <1>2, <1>4
<1>7. Travelling' = Append(Travelling, m)
  BY <1>0, <1>6, SendTravels
<1>8. PICK n : n = Len(Travelling) + 1
  OBVIOUS
<1>9. /\ \A t : Messengers(t)' = IF t = g THEN Messengers(t) \cup {n} ELSE Messengers(t)
      /\ \A t : \A i \in Messengers(t) : Travelling'[i] = Travelling[i]
      /\ Travelling'[n] = m
  BY <1>0, <1>5, <1>7, <1>8, MessengersSent
<1>10. /\ Messengers(g) = {}
       /\ \A d \in Chains, t \in Tags :
             Records(d, t)' = IF t = g THEN {} ELSE Records(d, t)
  <2>1. g = Student(c, id).tag
    BY <1>5
  <2> QED
    BY <1>3, <2>1, RecordLeaves
<1>11. \A d \in Chains, b \in Accounts : \A i :
          Owns(d, b, i) /\ ~(d = c /\ i = id) => Owns(d, b, i)'
  BY <1>0, <1>2, ErasedLists
<1>12. id \in Records(c, g)
  BY <1>3, <1>5, NoStudentAssumption, RecordsMeans
<1>13. ASSUME NEW t \in Tags \ {g}
       PROVE  Unaffected(t)
  <2>1. id \notin Records(c, t)
    BY <1>5, RecordsMeans
  <2>2. \A i \in Messengers(t) : \E j \in Messengers(t)' :
           Travelling'[j].new_owner = Travelling[i].new_owner
    BY <1>9
  <2> QED
    BY <1>6, <1>9, <1>10, <1>11, <2>1, <2>2 DEF Unaffected
<1>14. Where(g) = "university" /\ OwnerOf(g) = a
  <2>1. Owns(c, a, id)
    BY <1>2 DEF Owns
  <2> QED
    BY <1>0, <1>1, <1>12, <2>1 DEF WhereTold, OwnerTold
<1>15. n \in Messengers(g)'
  BY <1>9
<1>16. Where(g)' = "travelling"
  BY <1>0, <1>15 DEF WhereTold
<1>17. OwnerOf(g)' = a
  BY <1>0, <1>6, <1>9, <1>15 DEF OwnerTold
<1>18. Wheres' = [Wheres EXCEPT ![g] = "travelling"] /\ Owners' = Owners
  <2>1. /\ Wheres' = [Wheres EXCEPT ![g] = "travelling"]
        /\ Owners' = [Owners EXCEPT ![g] = a]
    BY <1>13, <1>16, <1>17, OneAffected
  <2>2. [Owners EXCEPT ![g] = a] = Owners
    BY <1>14 DEF Owners
  <2> QED
    BY <2>1, <2>2
<1>19. Travellers' = Append(Travellers, g)
  BY <1>0, <1>5, <1>7, TagsOfAppend DEF Travellers
<1>20. Life!Depart(g)
  BY <1>14, <1>18, <1>19 DEF Life!Depart, Wheres, Owners, Travellers, TagsOf
<1> QED
  BY <1>20 DEF Life!Next

(* The two outcomes of a message, for what they have in common: the oldest  *)
(* traveller is no longer under way.                                        *)
LEMMA LifeLanding ==
    ASSUME Inv, Channel!Service, NEW g \in Tags, g = Head(inbox).student.tag
    PROVE  /\ Travellers # <<>> /\ Head(Travellers) = g /\ Travellers' = Tail(Travellers)
           /\ Where(g) = "travelling" /\ OwnerOf(g) = Head(inbox).new_owner
           /\ \A t \in Tags \ {g} :
                 /\ Messengers(t)' = {} <=> Messengers(t) = {}
                 /\ \A i \in Messengers(t) : \E j \in Messengers(t)' :
                       Travelling'[j].new_owner = Travelling[i].new_owner
<1>0. /\ TypeOK /\ WhereTold /\ OwnerTold
      /\ QueuesTyped /\ Travelling \in Seq(StudentMessages)
  BY InvTellsWhere, InvTellsOwner, CountTypes DEF Inv
<1>1. /\ Travelling # <<>> /\ Head(inbox) = Head(Travelling)
      /\ Travelling' = Tail(Travelling)
  BY <1>0, ServiceTravels
<1>2. /\ \A t, i : i \in Messengers(t)' <=> i \in Nat \ {0} /\ i + 1 \in Messengers(t)
      /\ \A t : \A i \in Messengers(t)' : Travelling'[i] = Travelling[i + 1]
      /\ Travelling[1] = Head(Travelling)
      /\ \A t : 1 \in Messengers(t) <=> Head(Travelling).student.tag = t
      /\ \A t : \A i \in Messengers(t) : i # 1 => i - 1 \in Messengers(t)'
      /\ 1 \in DOMAIN Travelling
  BY <1>0, <1>1, MessengersServed
<1>3. 1 \in Messengers(g)
  BY <1>1, <1>2
<1>4. Where(g) = "travelling" /\ OwnerOf(g) = Head(inbox).new_owner
  BY <1>0, <1>1, <1>2, <1>3 DEF WhereTold, OwnerTold
<1>5. ASSUME NEW t \in Tags \ {g}
      PROVE  /\ Messengers(t)' = {} <=> Messengers(t) = {}
             /\ \A i \in Messengers(t) : \E j \in Messengers(t)' :
                   Travelling'[j].new_owner = Travelling[i].new_owner
  <2>1. 1 \notin Messengers(t)
    BY <1>1, <1>2
  <2>2. ASSUME NEW i \in Messengers(t)
        PROVE  i - 1 \in Messengers(t)' /\ Travelling'[i - 1] = Travelling[i]
    <3>1. i \in Nat /\ i - 1 \in Messengers(t)'
      BY <1>0, <1>2, <2>1 DEF Messengers
    <3>2. Travelling'[i - 1] = Travelling[(i - 1) + 1]
      BY <1>2, <3>1
    <3> QED
      BY <3>1, <3>2
  <2>3. \A i \in Messengers(t)' : i + 1 \in Messengers(t)
    BY <1>2
  <2> QED
    BY <2>2, <2>3
<1>6. Travellers # <<>> /\ Head(Travellers) = g /\ Travellers' = Tail(Travellers)
  <2>1. Head(Travelling).student.tag = g
    BY <1>1
  <2> QED
    BY <1>0, <1>1, <2>1, TagsOfTail DEF Travellers
<1> QED
  BY <1>4, <1>5, <1>6

LEMMA LifeArrive ==
    ASSUME Inv, Inv', NoWrap, ArriveStep
    PROVE  Life!Next
<1>0. /\ TypeOK /\ ChainsExact /\ Counts /\ WhereTold' /\ OwnerTold'
  BY InvTellsNext DEF Inv
<1>1. PICK c \in Chains : c = "company"
  BY ChainNames
<1>2. PICK m : m = Head(inbox)
  OBVIOUS
<1>3. /\ Channel!Service
      /\ Enrol(chain[c], m.new_owner, m.student).err = "none"
      /\ Chained(c, Enrol(chain[c], m.new_owner, m.student).st)
      /\ UNCHANGED <<enrolled, departed, gone>>
  BY <1>1, <1>2 DEF ArriveStep
<1>4. m.student \in Students /\ m.new_owner \in Accounts /\ m.student.tag \in Tags
  BY <1>2, <1>3, MessageLands
<1>a. PICK g \in Tags, a \in Accounts : g = m.student.tag /\ a = m.new_owner
  BY <1>4
<1>b. PICK n : n = chain[c].StudentCount
  OBVIOUS
<1>5. g = m.student.tag /\ a = m.new_owner /\ n = chain[c].StudentCount
  BY <1>a, <1>b
<1>6. /\ Travellers # <<>> /\ Head(Travellers) = g /\ Travellers' = Tail(Travellers)
      /\ Where(g) = "travelling" /\ OwnerOf(g) = a
      /\ \A t \in Tags \ {g} :
            /\ Messengers(t)' = {} <=> Messengers(t) = {}
            /\ \A i \in Messengers(t) : \E j \in Messengers(t)' :
                  Travelling'[j].new_owner = Travelling[i].new_owner
  BY <1>2, <1>3, <1>5, LifeLanding
<1>7. n + 1 < IdSpace
  <2> DEFINE k == Cardinality(Kept("university"))
             w == Len(Travelling)
  <2>1. k \in Nat /\ w \in Nat /\ n \in Nat /\ enrolled \in Nat /\ enrolled <= MaxEnrolments
    BY <1>0, <1>5, CountTypes, KeptFinite, ChainNames
  <2>2. w > 0
    <3>1. QueuesTyped /\ Travelling \in Seq(StudentMessages)
      BY <1>0, CountTypes
    <3>2. Travelling # <<>>
      BY <1>3, <3>1, ServiceTravels
    <3> QED
      BY <3>1, <3>2
  <2>3. n + k + w <= enrolled
    BY <1>0, <1>1, <1>5 DEF Counts
  <2> HIDE DEF k, w
  <2> QED
    BY <2>1, <2>2, <2>3, TagsAssumption, BoundsAssumption DEF NoWrap
<1>8. n \in Ids /\ Student(c, n) = NoStudent /\ Becomes(c, n, m.student)
  BY <1>0, <1>3, <1>4, <1>5, <1>7, EnrolledRecords
<1>9. \A d \in Chains : \A t : Records(d, t)' =
         IF d = c /\ t = g THEN Records(d, t) \cup {n} ELSE Records(d, t)
  BY <1>4, <1>5, <1>8, RecordsAdded
<1>10. /\ Owns(c, a, n)'
       /\ \A d \in Chains, b \in Accounts : \A id : Owns(d, b, id) => Owns(d, b, id)'
       /\ Len(chain[c].StudentsByOwner[a]) < MaxStudentsPerOwner
  BY <1>0, <1>3, <1>4, <1>5, EnrolledLists
<1>11. \A t \in Tags \ {g} : Unaffected(t)
  BY <1>3, <1>6, <1>9, <1>10 DEF Unaffected
<1>12. n \in Records(c, g)'
  BY <1>9
<1>13. Where(g)' = "company" /\ OwnerOf(g)' = a
  <2>1. Where(g)' = c
    BY <1>0, <1>12 DEF WhereTold
  <2>2. OwnerOf(g)' = a
    BY <1>0, <1>10, <1>12 DEF OwnerTold
  <2> QED
    BY <1>1, <2>1, <2>2
<1>14. Wheres' = [Wheres EXCEPT ![g] = "company"] /\ Owners' = Owners
  <2>1. /\ Wheres' = [Wheres EXCEPT ![g] = "company"]
        /\ Owners' = [Owners EXCEPT ![g] = a]
    BY <1>11, <1>13, OneAffected
  <2>2. [Owners EXCEPT ![g] = a] = Owners
    BY <1>6 DEF Owners
  <2> QED
    BY <2>1, <2>2
<1>15. Life!HasPlace("company", Owners[g])
  BY <1>1, <1>6, <1>10, PlaceMeans DEF Owners
<1>16. Life!Arrive
  BY <1>6, <1>14, <1>15 DEF Life!Arrive, Wheres, Owners, Travellers, TagsOf
<1> QED
  BY <1>16 DEF Life!Next

LEMMA LifeLose ==
    ASSUME Inv, Inv', LoseStep
    PROVE  Life!Next
<1>0. /\ TypeOK /\ ChainsExact /\ WhereTold' /\ OwnerTold'
  BY InvTellsNext DEF Inv
<1>1. PICK m : m = Head(inbox)
  OBVIOUS
<1>2. /\ Channel!Service
      /\ Len(chain["company"].StudentsByOwner[m.new_owner]) >= MaxStudentsPerOwner
      /\ gone' = [gone EXCEPT ![m.student.tag] = [how |-> "lost", owner |-> m.new_owner]]
      /\ UNCHANGED <<chain, enrolled, departed>>
  BY <1>1 DEF LoseStep
<1>3. m.new_owner \in Accounts /\ m.student.tag \in Tags
  BY <1>1, <1>2, MessageLands
<1>4. PICK g \in Tags, a \in Accounts : g = m.student.tag /\ a = m.new_owner
  BY <1>3
<1>5. /\ Travellers # <<>> /\ Head(Travellers) = g /\ Travellers' = Tail(Travellers)
      /\ Where(g) = "travelling" /\ OwnerOf(g) = a
      /\ \A t \in Tags \ {g} :
            /\ Messengers(t)' = {} <=> Messengers(t) = {}
            /\ \A i \in Messengers(t) : \E j \in Messengers(t)' :
                  Travelling'[j].new_owner = Travelling[i].new_owner
  BY <1>1, <1>2, <1>4, LifeLanding
<1>6. /\ \A d \in Chains : Records(d, g) = {}
      /\ \A t \in Tags : Messengers(t)' = {} <=> Messengers(t) = {} \/ t = g
      /\ g <= enrolled
  BY <1>1, <1>2, <1>4, MessageLands
<1>7. \A d \in Chains : \A t : Records(d, t)' = Records(d, t)
  BY <1>2, ChainsUntouched
<1>8. \A d \in Chains, b \in Accounts : \A id : Owns(d, b, id) => Owns(d, b, id)'
  BY <1>2 DEF Owns
<1>9. \A t \in Tags : gone'[t] = IF t = g THEN [how |-> "lost", owner |-> a] ELSE gone[t]
  BY <1>0, <1>2, <1>4 DEF TypeOK
<1>10. \A t \in Tags \ {g} : Unaffected(t)
  BY <1>2, <1>5, <1>7, <1>8, <1>9 DEF Unaffected
<1>11. ~Somewhere(g)' /\ g <= enrolled'
  BY <1>2, <1>6, <1>7 DEF Somewhere
<1>12. Where(g)' = "lost" /\ OwnerOf(g)' = a
  BY <1>0, <1>9, <1>11 DEF WhereTold, OwnerTold
<1>13. Wheres' = [Wheres EXCEPT ![g] = "lost"] /\ Owners' = Owners
  <2>1. /\ Wheres' = [Wheres EXCEPT ![g] = "lost"]
        /\ Owners' = [Owners EXCEPT ![g] = a]
    BY <1>10, <1>12, OneAffected
  <2>2. [Owners EXCEPT ![g] = a] = Owners
    BY <1>5 DEF Owners
  <2> QED
    BY <2>1, <2>2
<1>14. ~Life!HasPlace("company", Owners[g])
  <2>1. Life!HasPlace("company", a) <=>
           Len(chain["company"].StudentsByOwner[a]) < MaxStudentsPerOwner
    BY PlaceMeans, ChainNames
  <2>2. Len(chain["company"].StudentsByOwner[a]) \in Nat
    BY StorageParts, ChainNames DEF Inv, TypeOK
  <2>3. Owners[g] = a
    BY <1>5 DEF Owners
  <2>4. ~(Len(chain["company"].StudentsByOwner[a]) < MaxStudentsPerOwner)
    BY <1>2, <1>4, <2>2, BoundsAssumption
  <2> QED
    BY <2>1, <2>3, <2>4
<1>15. Life!Arrive
  BY <1>5, <1>13, <1>14 DEF Life!Arrive, Wheres, Owners, Travellers, TagsOf
<1> QED
  BY <1>15 DEF Life!Next

LEMMA LifeMove ==
    ASSUME Inv, Inv', MoveStep \/ UNCHANGED vars
    PROVE  UNCHANGED <<Wheres, Owners, Travellers>>
<1>1. UNCHANGED <<chain, enrolled, gone>>
  BY DEF MoveStep, vars
<1>2. Travelling' = Travelling
  <2>1. CASE MoveStep
    BY <2>1, CountTypes, ChannelKeeps DEF Inv, MoveStep
  <2>2. CASE UNCHANGED vars
    BY <2>2, ChannelUntouched DEF vars
  <2> QED
    BY <2>1, <2>2
<1>3. \A t : Messengers(t)' = Messengers(t)
  BY <1>2, MessengersUntouched
<1>4. \A d \in Chains : \A t : Records(d, t)' = Records(d, t)
  BY <1>1, ChainsUntouched
<1>5. \A d \in Chains, b \in Accounts : \A id : Owns(d, b, id) => Owns(d, b, id)'
  BY <1>1 DEF Owns
<1>6. \A t \in Tags : Unaffected(t)
  BY <1>1, <1>2, <1>3, <1>4, <1>5 DEF Unaffected
<1> QED
  BY <1>2, <1>6, NoneAffected DEF Travellers, TagsOf

LEMMA LifeStep == NoWrap /\ Inv /\ Inv' /\ [Next]_vars => [Life!Next]_(Life!lifeVars)
<1> SUFFICES ASSUME NoWrap, Inv, Inv', [Next]_vars
             PROVE  Life!Next \/ UNCHANGED Life!lifeVars
  OBVIOUS
<1>1. \/ \E c \in Chains : EnrolStep(c) \/ AmendStep(c) \/ RemoveStep(c)
      \/ DepartStep \/ ArriveStep \/ LoseStep \/ MoveStep
      \/ UNCHANGED vars
  BY NextSteps DEF Inv
<1>2. UNCHANGED <<Wheres, Owners, Travellers>> => UNCHANGED Life!lifeVars
  BY DEF Wheres, Owners, Travellers, TagsOf, Life!lifeVars
<1> QED
  BY <1>1, <1>2, LifeEnrol, LifeAmend, LifeRemove, LifeDepart, LifeArrive, LifeLose, LifeMove

(* The two chains, their pages and their limits implement the life of a     *)
(* student: one who was enrolled is on one chain, under way, removed by a   *)
(* call or lost to a full list, never copied, taken over by another owner,  *)
(* overtaken on the way or vanished (lib.rs:148-402, zombienet.toml:18-34). *)
THEOREM LivesAreSound == NoWrap => (Spec => LifeSpec)
<1> SUFFICES ASSUME NoWrap PROVE Spec => LifeSpec
  OBVIOUS
<1>1. Init => Life!Init
  BY LifeInit
<1>2. Inv /\ Inv' /\ [Next]_vars => [Life!Next]_(Life!lifeVars)
  BY LifeStep
<1>3. Spec => []Inv
  BY Invariance
<1> QED
  BY <1>1, <1>2, <1>3, PTL DEF Spec, LifeSpec, Life!Spec
=============================================================================
