------------------------------ MODULE Transfer ------------------------------
(***************************************************************************)
(* The two parachains, each with the student pallet, and the channel that  *)
(* takes a graduated student from the University to the Company.  Users    *)
(* make any call on either chain; the Company also serves the messages of  *)
(* the channel.  Blocks of the two chains interleave freely.               *)
(***************************************************************************)
EXTENDS StudentCalls, SequencesExt

CONSTANTS
    Users,          \* the accounts with a key; the others are derived
    Sovereign,      \* the account of para 1000 on the Company
    PageRoom, HrmpCapacity,
    MaxEnrolments   \* bound: students enrolled in one behaviour

ASSUME AccountsAssumption == Users \subseteq Accounts /\ Sovereign \in Accounts \ Users
ASSUME TagsAssumption == MaxEnrolments \in Nat /\ Tags = 1 .. MaxEnrolments
ASSUME SizesAssumption == PageRoom \in Nat \ {0} /\ HrmpCapacity \in Nat \ {0}

VARIABLES
    chain,          \* the pallet's storage on each of the chains
    established, pages, relay, inbox,  \* the channel: see HrmpChannel
    enrolled,       \* ghost: students enrolled so far, on either chain
    departed,       \* ghost: the students that graduate_student has sent off
    gone            \* ghost: the students that have left both chains, and how

StudentMessages == [student : Students, new_owner : Accounts]

Channel == INSTANCE HrmpChannel WITH
    Messages    <- StudentMessages,
    MaxInFlight <- MaxEnrolments

channelVars == <<established, pages, relay, inbox>>
vars == <<chain, channelVars, enrolled, departed, gone>>

Chains  == {"university", "company"}
Callers == Users \cup {Root}

Present == [how |-> "no", owner |-> Root]

Init ==
    /\ chain = [c \in Chains |-> EmptyStorage]
    /\ Channel!ChannelInit
    /\ enrolled = 0
    /\ departed = {}
    /\ gone = [t \in Tags |-> Present]

-----------------------------------------------------------------------------
(* A call on a chain ends, with its storage layer committed or rolled back. *)
Ends(c, outcome) == chain' = [chain EXCEPT ![c] = Committed(@, outcome)]

Enrols(c, outcome) ==
    /\ Ends(c, outcome)
    /\ enrolled' = IF outcome.err = "none" THEN enrolled + 1 ELSE enrolled
    /\ UNCHANGED <<channelVars, departed, gone>>

HolderOf(st, id) == CHOOSE a \in Accounts : a \in Holders(st, id)

Removes(c, id, outcome) ==
    /\ Ends(c, outcome)
    /\ gone' = IF outcome.err # "none" THEN gone
               ELSE [gone EXCEPT ![chain[c].Students[id].tag] =
                        [how |-> "removed", owner |-> HolderOf(chain[c], id)]]
    /\ UNCHANGED <<channelVars, enrolled, departed>>

-----------------------------------------------------------------------------
(* Calls of users, on either chain *)

Create(c, origin, profile) ==
    /\ enrolled < MaxEnrolments
    /\ Enrols(c, create_student(chain[c], origin, profile, enrolled + 1))

Receive(c, origin, profile, graduated, owner) ==
    /\ enrolled < MaxEnrolments
    /\ Enrols(c, receive_student(chain[c], origin,
           [tag |-> enrolled + 1, profile |-> profile, has_graduated |-> graduated], owner))

Update(c, origin, id, profile) ==
    /\ Ends(c, update_student(chain[c], origin, id, profile))
    /\ UNCHANGED <<channelVars, enrolled, departed, gone>>

Delete(c, origin, id) == Removes(c, id, delete_student(chain[c], origin, id))

DeleteAny(c, origin, id, first) ==
    Removes(c, id, delete_any_student(chain[c], origin, id, first))

(* The call and the router's queue share one storage layer: the message     *)
(* enters the queue exactly when the student leaves the storage.  Both      *)
(* chains run the same runtime, but only the University has a channel to    *)
(* GraduationDestinationPara: the Company has none to itself.               *)
Graduate(c, origin, id) ==
    LET delivered == c = "university" /\ Channel!CanSend
        outcome   == graduate_student(chain[c], origin, id, delivered)
    IN  /\ Ends(c, outcome)
        /\ IF Sent(outcome) = <<>> THEN UNCHANGED <<channelVars, departed>>
           ELSE /\ Channel!Send(Head(Sent(outcome)))
                /\ departed' = departed \cup {Head(Sent(outcome)).student.tag}
        /\ UNCHANGED <<enrolled, gone>>

(* Iterations that meet no holder of the id are all alike.                  *)
MetFirst(c, id) ==
    IF Holders(chain[c], id) = {} THEN {Sovereign} ELSE Holders(chain[c], id)

UserCall ==
    \E c \in Chains, origin \in Callers :
        \/ \E profile \in Profiles : Create(c, origin, profile)
        \/ \E profile \in ValidProfiles, graduated \in BOOLEAN, owner \in Accounts :
              Receive(c, origin, profile, graduated, owner)
        \/ \E id \in Ids :
              \/ Graduate(c, origin, id)
              \/ Delete(c, origin, id)
              \/ \E profile \in Profiles : Update(c, origin, id, profile)
              \/ \E first \in MetFirst(c, id) : DeleteAny(c, origin, id, first)

-----------------------------------------------------------------------------
(* Steps of the channel *)

OpenChannel == Channel!Establish /\ UNCHANGED <<chain, enrolled, departed, gone>>

TakePage == Channel!TakePage /\ UNCHANGED <<chain, enrolled, departed, gone>>

Enqueue == Channel!Enqueue /\ UNCHANGED <<chain, enrolled, departed, gone>>

(* The Company executes the oldest message: Transact dispatches the call as *)
(* the sovereign account of the sender.  An error of the call is noted in   *)
(* the transact status and ends there: the message has been processed.      *)
ReceiveByXcm ==
    /\ Channel!Service
    /\ LET message == Head(inbox)
           outcome == receive_student(chain["company"], Sovereign,
                                      message.student, message.new_owner)
       IN  /\ Ends("company", outcome)
           /\ gone' = IF outcome.err = "none" THEN gone
                      ELSE [gone EXCEPT ![message.student.tag] =
                               [how |-> "lost", owner |-> message.new_owner]]
    /\ UNCHANGED <<enrolled, departed>>

Next == UserCall \/ OpenChannel \/ TakePage \/ Enqueue \/ ReceiveByXcm

Spec == Init /\ [][Next]_vars

(* Both parachains and the relay chain keep producing blocks, and the       *)
(* message queue is serviced at the start of each.  Nobody is obliged to    *)
(* open the channel or to make a call.                                      *)
Fairness == WF_vars(TakePage) /\ WF_vars(Enqueue) /\ WF_vars(ReceiveByXcm)

FairSpec == Spec /\ Fairness

-----------------------------------------------------------------------------
(* Where a student is *)

Records(c, t) ==
    {id \in Ids : chain[c].Students[id] # NoStudent /\ chain[c].Students[id].tag = t}

Stored(c, t) == Records(c, t) # {}

Travelling == Channel!InFlight

Messengers(t) == {i \in DOMAIN Travelling : Travelling[i].student.tag = t}

(* The storages, the queues and the ghosts have the types of the code.      *)
TypeOK ==
    /\ chain \in [Chains -> Storage]
    /\ established \in BOOLEAN
    /\ pages \in Seq(Seq(StudentMessages))
    /\ relay \in Seq(Seq(StudentMessages))
    /\ inbox \in Seq(StudentMessages)
    /\ enrolled \in 0 .. MaxEnrolments
    /\ departed \subseteq Tags
    /\ gone \in [Tags -> [how   : {"no", "removed", "lost"},
                         owner : Accounts \cup {Root}]]

(* On both chains, whatever arrives and whatever users do meanwhile, the    *)
(* two maps agree and every student has an id below the counter.            *)
ChainsExact == \A c \in Chains : Exact(chain[c]) /\ BelowCount(chain[c])

(* A student has at most one record or message in the whole system: the     *)
(* source's copy is gone when the message leaves, and a message is executed *)
(* once.                                                                    *)
OnePlace ==
    \A t \in Tags :
        Cardinality(Records("university", t)) + Cardinality(Records("company", t))
            + Cardinality(Messengers(t)) <= 1

(* A student that has been sent off is marked as graduated, on the way and  *)
(* on the Company, whatever update_student does to the record there: the    *)
(* mark is what keeps graduate_student from sending it again.               *)
DepartedGraduated ==
    \A t \in departed :
        /\ \A i \in Messengers(t) : Travelling[i].student.has_graduated
        /\ \A c \in Chains : \A id \in Records(c, t) :
              chain[c].Students[id].has_graduated

Where(t) ==
    CASE t > enrolled             -> "unborn"
      [] Stored("university", t)  -> "university"
      [] Stored("company", t)     -> "company"
      [] Messengers(t) # {}       -> "travelling"
      [] gone[t].how # "no"       -> gone[t].how
      [] OTHER                    -> "vanished"

OwnerOf(t) ==
    CASE Stored("university", t) ->
            HolderOf(chain["university"], CHOOSE id \in Ids : id \in Records("university", t))
      [] Stored("company", t) ->
            HolderOf(chain["company"], CHOOSE id \in Ids : id \in Records("company", t))
      [] Messengers(t) # {} ->
            Travelling[CHOOSE i \in DOMAIN Travelling : i \in Messengers(t)].new_owner
      [] OTHER -> gone[t].owner

(* The system implements the life of a student: no student is copied, taken *)
(* over by another owner, overtaken on the way, or vanishes without a call, *)
(* except the one who arrives where the owner has no place left.            *)
Life == INSTANCE Graduation WITH
    where      <- [t \in Tags |-> Where(t)],
    ownerOf    <- [t \in Tags |-> OwnerOf(t)],
    travellers <- [i \in DOMAIN Travelling |-> Travelling[i].student.tag],
    NoOwner    <- Root

LifeSpec == Life!Spec

(* Whoever has departed does not stay on the way for ever.                  *)
EveryTravellerSettles ==
    \A t \in Tags : Where(t) = "travelling" ~> Where(t) # "travelling"

(* "Remove student from this parachain after successful transfer"           *)
(* (lib.rs:248): a student that left the University is on the Company,      *)
(* unless it is on the way or has been removed by a call.                   *)
NoStudentLost == \A t \in Tags : gone[t].how # "lost"

(* "RECEIVE STUDENT (is not called by user)" (lib.rs:303): the graduates on *)
(* the Company are those that the University has sent.                      *)
GraduatesComeFromUniversity ==
    \A id \in Ids : LET student == chain["company"].Students[id] IN
        student # NoStudent /\ student.has_graduated => student.tag \in departed
=============================================================================
