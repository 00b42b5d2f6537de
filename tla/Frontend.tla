------------------------------ MODULE Frontend ------------------------------
(***************************************************************************)
(* One browser tab of frontend/src/App.jsx, signing as Alice, with the two *)
(* chains it reads and writes.  JavaScript runs one callback at a time: a  *)
(* step is a click, or what follows an await or a notification.  Between   *)
(* two awaits of a load the chains, the user and the other requests go on. *)
(* A graduated student reaches the Company through a FIFO queue, which     *)
(* HrmpChannel implements.                                                 *)
(***************************************************************************)
EXTENDS StudentCalls, SequencesExt

CONSTANTS
    Alice, Others,  \* the account of the tab, and another user of the chains
    Sovereign,      \* the account of para 1000 on the Company
    Mounts,         \* effects that initialize the page: 2 under StrictMode
    Faults,         \* whether connections break and transactions get dropped
    None,           \* null
    MaxEnrolments,  \* bound: students enrolled, by the tab and by others
    MaxClicks       \* bound: transactions the tab asks for

ASSUME FrontendAssumption ==
    /\ {Alice, Others, Sovereign} \subseteq Accounts
    /\ Mounts \in Nat \ {0} /\ Faults \in BOOLEAN /\ None \notin Ids
    /\ MaxEnrolments \in Nat /\ MaxClicks \in Nat /\ Tags = 1 .. MaxEnrolments

VARIABLES
    chain, travelling,      \* the chains' storages, the messages between them
    enrolled,               \* ghost: students enrolled so far
    accountNonce,           \* Alice's next nonce on each chain
    loading, error,         \* the page: spinner, or connection error
    mounting,               \* effects that have not connected yet
    shown,                  \* universityStudents and companyStudents: rows
    creating, updating,     \* flags that disable a button
    transferring,           \* the student being graduated, or None
    editingStudent,         \* the row in edit mode, or None
    requests,               \* transactions asked for and not yet settled
    loads,                  \* loadStudentsFromChains under way
    clicks,                 \* how many transactions have been asked for
    dropped                 \* ghost: handlers whose transaction was dropped

chainVars == <<chain, travelling, enrolled, accountNonce>>
pageVars  == <<loading, error, mounting>>
flags     == <<creating, updating, transferring, editingStudent>>
vars == <<chainVars, pageVars, shown, flags, requests, loads, clicks, dropped>>

Chains   == {"university", "company"}
Handlers == {"create", "update", "graduate", "delete", "deleteCompany"}

ChainOf(handler) == IF handler = "deleteCompany" THEN "company" ELSE "university"

(* A load reads the count and then each id, of one chain after the other.   *)
(* next = None while it waits for the count; awaitedBy is who awaits it.    *)
NewLoad(who) == [chain |-> "university", count |-> 0, next |-> None, rows |-> {},
                 awaitedBy |-> who]

Init ==
    /\ chain = [c \in Chains |-> EmptyStorage]
    /\ travelling = <<>>
    /\ enrolled = 0
    /\ accountNonce = [c \in Chains |-> 0]
    /\ loading = TRUE /\ error = FALSE
    /\ mounting = Mounts
    /\ shown = [c \in Chains |-> {}]
    /\ creating = FALSE /\ updating = FALSE
    /\ transferring = None /\ editingStudent = None
    /\ requests = <<>> /\ loads = <<>>
    /\ clicks = 0
    /\ dropped = {}

-----------------------------------------------------------------------------
(* initialize *)

Connect ==
    /\ mounting > 0
    /\ mounting' = mounting - 1
    /\ loads' = Append(loads, NewLoad("mount"))
    /\ UNCHANGED <<chainVars, loading, error, shown, flags, requests, clicks, dropped>>

(* Whatever another effect has achieved, the error takes over the page.     *)
ConnectionFails ==
    /\ Faults /\ mounting > 0
    /\ mounting' = mounting - 1
    /\ error' = TRUE /\ loading' = FALSE
    /\ UNCHANGED <<chainVars, shown, flags, requests, loads, clicks, dropped>>

Ready == ~loading /\ ~error

-----------------------------------------------------------------------------
(* loadStudentsFromChains *)

(* With a bug: rows are numbered from 1.                                    *)
RowFromOne(c, id) ==
    IF chain[c].Students[id] = NoStudent THEN {}
    ELSE {[id |-> (id + 1) % IdSpace, tag |-> chain[c].Students[id].tag,
           profile |-> chain[c].Students[id].profile]}

RowAt(c, id) ==
    IF chain[c].Students[id] = NoStudent THEN {}
    ELSE {[id |-> id, tag |-> chain[c].Students[id].tag,
           profile |-> chain[c].Students[id].profile]}

(* The load is over: whoever awaits it goes on.                             *)
LoadEnds(l) ==
    /\ loads' = RemoveAt(loads, l)
    /\ loading' = (loading /\ loads[l].awaitedBy # "mount")
    /\ transferring' = IF loads[l].awaitedBy = "graduate" THEN None ELSE transferring

(* With bugs: the loop runs one id too far, or stops one id too early.      *)
LoopsTooFar(id, count)   == id <= count
LoopsTooShort(id, count) == id < count - 1

LoopsOn(id, count) == id < count

(* The loop goes on with id, or ends and shows what it has collected.       *)
Continue(l, id, count, rows) ==
    LET c == loads[l].chain IN
    IF LoopsOn(id, count)
    THEN /\ loads' = [loads EXCEPT ![l].next = id, ![l].count = count, ![l].rows = rows]
         /\ UNCHANGED <<shown, loading, transferring>>
    ELSE /\ shown' = [shown EXCEPT ![c] = rows]
         /\ IF c = "company" THEN LoadEnds(l)
            ELSE /\ loads' = [loads EXCEPT ![l] = [NewLoad(@.awaitedBy) EXCEPT
                                                       !.chain = "company"]]
                 /\ UNCHANGED <<loading, transferring>>

ReadCount(l) ==
    /\ loads[l].next = None
    /\ Continue(l, 0, chain[loads[l].chain].StudentCount, {})
    /\ UNCHANGED <<chainVars, error, mounting, creating, updating, editingStudent,
                   requests, clicks, dropped>>

ReadStudent(l) ==
    /\ loads[l].next # None
    /\ Continue(l, loads[l].next + 1, loads[l].count,
                loads[l].rows \cup RowAt(loads[l].chain, loads[l].next))
    /\ UNCHANGED <<chainVars, error, mounting, creating, updating, editingStudent,
                   requests, clicks, dropped>>

(* The error is caught and logged; what was shown before stays.             *)
LoadFails(l) ==
    /\ Faults
    /\ LoadEnds(l)
    /\ UNCHANGED <<chainVars, error, mounting, shown, creating, updating, editingStudent,
                   requests, clicks, dropped>>

-----------------------------------------------------------------------------
(* Clicks *)

Request(handler, id, tag, profile) ==
    [handler |-> handler, id |-> id, tag |-> tag, profile |-> profile,
     phase |-> "signing", nonce |-> 0]

Asked(handler) == {r \in DOMAIN requests : requests[r].handler = handler}

(* The handler asks for a transaction and awaits signAndSend.               *)
Asks(handler, id, tag, profile) ==
    /\ Ready
    /\ clicks < MaxClicks
    /\ clicks' = clicks + 1
    /\ requests' = Append(requests, Request(handler, id, tag, profile))
    /\ UNCHANGED <<chainVars, pageVars, shown, loads, dropped>>

createStudent(profile) ==
    /\ ~creating
    /\ enrolled + Cardinality(Asked("create")) < MaxEnrolments
    /\ Asks("create", None, None, profile)
    /\ creating' = TRUE
    /\ UNCHANGED <<updating, transferring, editingStudent>>

startEditing(row) ==
    /\ Ready
    /\ transferring = None
    /\ editingStudent # row.id
    /\ editingStudent' = row.id
    /\ UNCHANGED <<chainVars, pageVars, shown, creating, updating, transferring,
                   requests, loads, clicks, dropped>>

cancelEditing(row) ==
    /\ Ready
    /\ editingStudent = row.id
    /\ editingStudent' = None
    /\ UNCHANGED <<chainVars, pageVars, shown, creating, updating, transferring,
                   requests, loads, clicks, dropped>>

updateStudent(row, profile) ==
    /\ editingStudent = row.id
    /\ ~updating
    /\ Asks("update", row.id, row.tag, profile)
    /\ updating' = TRUE
    /\ UNCHANGED <<creating, transferring, editingStudent>>

graduateStudent(row) ==
    /\ transferring = None
    /\ editingStudent # row.id
    /\ Asks("graduate", row.id, row.tag, row.profile)
    /\ transferring' = row.id
    /\ UNCHANGED <<creating, updating, editingStudent>>

deleteStudent(row) ==
    /\ transferring = None
    /\ editingStudent # row.id
    /\ Asks("delete", row.id, row.tag, row.profile)
    /\ UNCHANGED flags

deleteCompanyStudent(row) ==
    /\ Asks("deleteCompany", row.id, row.tag, row.profile)
    /\ UNCHANGED flags

Click ==
    \/ \E profile \in Profiles : createStudent(profile)
    \/ \E row \in shown["university"] :
          \/ startEditing(row)
          \/ cancelEditing(row)
          \/ \E profile \in Profiles : updateStudent(row, profile)
          \/ graduateStudent(row)
          \/ deleteStudent(row)
    \/ \E row \in shown["company"] : deleteCompanyStudent(row)

-----------------------------------------------------------------------------
(* The life of a transaction *)

OnChain(c) == {r \in DOMAIN requests : ChainOf(requests[r].handler) = c}

Pooled(c) == {requests[r].nonce : r \in {q \in OnChain(c) : requests[q].phase = "pooled"}}

(* accountNextIndex: the first nonce that the pool leaves free.             *)
NextIndex(c) ==
    CHOOSE n \in accountNonce[c] .. accountNonce[c] + MaxClicks :
        /\ n \notin Pooled(c)
        /\ \A m \in accountNonce[c] .. n - 1 : m \in Pooled(c)

Sign(r) ==
    /\ requests[r].phase = "signing"
    /\ requests' = [requests EXCEPT ![r].phase = "signed",
                                    ![r].nonce = NextIndex(ChainOf(requests[r].handler))]
    /\ UNCHANGED <<chainVars, pageVars, shown, flags, loads, clicks, dropped>>

(* The pool takes one transaction per nonce, and no nonce of the past.      *)
Accepts(r) ==
    LET c == ChainOf(requests[r].handler)
    IN  requests[r].nonce >= accountNonce[c] /\ requests[r].nonce \notin Pooled(c)

(* With bugs: one flag is forgotten.                                        *)
ResetsAllButGraduate(handler) ==
    /\ creating' = (creating /\ handler # "create")
    /\ updating' = (updating /\ handler # "update")
    /\ UNCHANGED transferring
ResetsAllButUpdate(handler) ==
    /\ creating' = (creating /\ handler # "create")
    /\ transferring' = IF handler = "graduate" THEN None ELSE transferring
    /\ UNCHANGED updating

(* The flag of the handler is taken back; the two deletions have none.      *)
Resets(handler) ==
    /\ creating' = (creating /\ handler # "create")
    /\ updating' = (updating /\ handler # "update")
    /\ transferring' = IF handler = "graduate" THEN None ELSE transferring

(* catch: an alert, and the flag is taken back.                             *)
Caught(r) ==
    /\ requests' = RemoveAt(requests, r)
    /\ Resets(requests[r].handler)
    /\ UNCHANGED editingStudent

Submit(r) ==
    /\ requests[r].phase = "signed"
    /\ IF Accepts(r) THEN requests' = [requests EXCEPT ![r].phase = "pooled"]
                          /\ UNCHANGED flags
       ELSE Caught(r)
    /\ UNCHANGED <<chainVars, pageVars, shown, loads, clicks, dropped>>

SubmitFails(r) ==
    /\ Faults
    /\ requests[r].phase \in {"signing", "signed"}
    /\ Caught(r)
    /\ UNCHANGED <<chainVars, pageVars, shown, loads, clicks, dropped>>

Outcome(request, delivered) ==
    LET st == chain[ChainOf(request.handler)] IN
    CASE request.handler = "create" ->
            create_student(st, Alice, request.profile, enrolled + 1)
      [] request.handler = "update" ->
            update_student(st, Alice, request.id, request.profile)
      [] request.handler = "graduate" ->
            graduate_student(st, Alice, request.id, delivered)
      [] request.handler = "delete" ->
            delete_student(st, Alice, request.id)
      [] request.handler = "deleteCompany" ->
            delete_any_student(st, Alice, request.id,
                CHOOSE a \in Accounts : Holders(st, request.id) # {} =>
                                            a \in Holders(st, request.id))

(* A block executes the transaction: isInBlock, which the tab only logs.    *)
Include(r) ==
    LET c == ChainOf(requests[r].handler) IN
    /\ requests[r].phase = "pooled"
    /\ requests[r].nonce = accountNonce[c]
    /\ \E delivered \in BOOLEAN : LET outcome == Outcome(requests[r], delivered) IN
          /\ chain' = [chain EXCEPT ![c] = Committed(@, outcome)]
          /\ travelling' = travelling \o Sent(outcome)
          /\ enrolled' = enrolled + (IF requests[r].handler = "create"
                                        /\ outcome.err = "none" THEN 1 ELSE 0)
    /\ accountNonce' = [accountNonce EXCEPT ![c] = @ + 1]
    /\ requests' = [requests EXCEPT ![r].phase = "inBlock"]
    /\ UNCHANGED <<pageVars, shown, flags, loads, clicks, dropped>>

(* isFinalized, the only other status that the callbacks look at: a failed  *)
(* call is logged and treated like one that worked.                         *)
Finalize(r) ==
    LET handler == requests[r].handler IN
    /\ requests[r].phase = "inBlock"
    /\ IF handler = "graduate"
       THEN /\ requests' = [requests EXCEPT ![r].phase = "waiting"]
            /\ UNCHANGED <<loads, flags>>
       ELSE /\ requests' = RemoveAt(requests, r)
            /\ loads' = Append(loads, NewLoad("nobody"))
            /\ Resets(handler)
            /\ editingStudent' = IF handler = "update" THEN None ELSE editingStudent
    /\ UNCHANGED <<chainVars, pageVars, shown, clicks, dropped>>

(* Three seconds after the finalization of a graduation.                    *)
WaitOver(r) ==
    /\ requests[r].phase = "waiting"
    /\ requests' = RemoveAt(requests, r)
    /\ loads' = Append(loads, NewLoad("graduate"))
    /\ UNCHANGED <<chainVars, pageVars, shown, flags, clicks, dropped>>

(* The transaction leaves the pool (isDropped, isInvalid, isUsurped), or    *)
(* its block is not seen to become final (isFinalityTimeout, a subscription *)
(* that is lost): nothing that a callback looks at.                         *)
Drop(r) ==
    /\ Faults
    /\ requests[r].phase \in {"pooled", "inBlock"}
    /\ requests' = RemoveAt(requests, r)
    /\ dropped' = dropped \cup {requests[r].handler}
    /\ UNCHANGED <<chainVars, pageVars, shown, flags, loads, clicks>>

-----------------------------------------------------------------------------
(* What happens on the chains besides *)

Arrive ==
    /\ travelling # <<>>
    /\ travelling' = Tail(travelling)
    /\ chain' = [chain EXCEPT !["company"] = Committed(@,
           receive_student(@, Sovereign, Head(travelling).student,
                           Head(travelling).new_owner))]
    /\ UNCHANGED <<enrolled, accountNonce, pageVars, shown, flags, requests, loads,
                   clicks, dropped>>

(* receive_student is open to anyone, and enrols for any owner.             *)
OthersEnrol(c, profile, owner) ==
    /\ enrolled + Cardinality(Asked("create")) < MaxEnrolments
    /\ LET outcome == receive_student(chain[c], Others,
               [tag |-> enrolled + 1, profile |-> profile, has_graduated |-> FALSE], owner)
       IN  outcome.err = "none" /\ chain' = [chain EXCEPT ![c] = outcome.st]
    /\ enrolled' = enrolled + 1
    /\ UNCHANGED <<travelling, accountNonce, pageVars, shown, flags, requests, loads,
                   clicks, dropped>>

OthersDelete(c, id) ==
    /\ \E first \in Holders(chain[c], id) :
          chain' = [chain EXCEPT ![c] =
                       Committed(@, delete_any_student(@, Others, id, first))]
    /\ UNCHANGED <<travelling, enrolled, accountNonce, pageVars, shown, flags, requests,
                   loads, clicks, dropped>>

-----------------------------------------------------------------------------
RequestStep ==
    \E r \in DOMAIN requests : Sign(r) \/ Submit(r) \/ Include(r) \/ Finalize(r) \/ WaitOver(r)

LoadStep == \E l \in DOMAIN loads : ReadCount(l) \/ ReadStudent(l)

Fault ==
    \/ ConnectionFails
    \/ \E r \in DOMAIN requests : SubmitFails(r) \/ Drop(r)
    \/ \E l \in DOMAIN loads : LoadFails(l)

OthersCall ==
    \E c \in Chains : \/ \E profile \in ValidProfiles, owner \in {Alice, Others} :
                            OthersEnrol(c, profile, owner)
                      \/ \E id \in Ids : OthersDelete(c, id)

Next == Connect \/ LoadStep \/ Click \/ RequestStep \/ Fault \/ Arrive \/ OthersCall

Spec == Init /\ [][Next]_vars

(* The nodes answer, the chains produce and finalize blocks, timers fire.   *)
(* Requests and loads are finitely many and each takes finitely many steps, *)
(* so it is enough that some request and some load goes on.  Nobody has to  *)
(* click and nothing has to fail.                                           *)
Fairness ==
    WF_vars(Connect) /\ WF_vars(LoadStep) /\ WF_vars(RequestStep) /\ WF_vars(Arrive)

FairSpec == Spec /\ Fairness

-----------------------------------------------------------------------------
(* The state has the types of the code, a load reads no id from the count   *)
(* on, and the nonces stay below the number of transactions asked for.      *)
TypeOK ==
    /\ chain \in [Chains -> Storage]
    /\ enrolled \in 0 .. MaxEnrolments
    /\ {transferring, editingStudent} \subseteq Ids \cup {None}
    /\ \A c \in Chains : \A row \in shown[c] : row.id \in Ids /\ row.tag \in Tags
    /\ \A r \in DOMAIN requests : requests[r].nonce < MaxClicks
    /\ \A l \in DOMAIN loads : loads[l].next \in (0 .. loads[l].count - 1) \cup {None}
    /\ \A c \in Chains : accountNonce[c] \in 0 .. clicks
    /\ dropped \subseteq Handlers

(* A button is disabled exactly while its transaction is on the way, from   *)
(* the click until the tab has dealt with the end, or for ever once the     *)
(* transaction is dropped: there are never two creations, two updates or    *)
(* two graduations of this tab at a time.                                   *)
InFlight(handler) ==
    Cardinality(Asked(handler))
      + (IF handler = "graduate"
         THEN Cardinality({l \in DOMAIN loads : loads[l].awaitedBy = "graduate"}) ELSE 0)
      + (IF handler \in dropped THEN 1 ELSE 0)

FlagsFollowRequests ==
    /\ InFlight("create")   = IF creating THEN 1 ELSE 0
    /\ InFlight("update")   = IF updating THEN 1 ELSE 0
    /\ InFlight("graduate") = IF transferring # None THEN 1 ELSE 0
    /\ \A r \in Asked("graduate") : requests[r].id = transferring

ChangesClicked ==
    \A r \in DOMAIN requests :
        LET request == requests[r]
            c       == ChainOf(request.handler)
        IN  Include(r) /\ request.handler # "create" /\ chain'[c] # chain[c] =>
               chain[c].Students[request.id].tag = request.tag

(* A transaction changes the student whose row was clicked, or nothing: the *)
(* row may be out of date and the student updated, gone or travelling, yet  *)
(* no other student is under its id by then.                                *)
ActsOnShown == [][ChangesClicked]_vars

FinishesChain(l) ==
    /\ ReadStudent(l)
    /\ loads' = RemoveAt(loads, l) \/ loads'[l].chain # loads[l].chain

ShowsStored ==
    \A l \in DOMAIN loads : FinishesChain(l) =>
        LET c == loads[l].chain IN
        \A id \in 0 .. loads[l].count - 1 :
           chain[c].Students[id] # NoStudent =>
              \E row \in shown'[c] :
                 row.id = id /\ row.tag = chain[c].Students[id].tag

(* A load that ends with a chain shows every student stored there under an  *)
(* id below the count it has read, although it read them one by one while   *)
(* others enrolled, left and moved in the lists.                            *)
EveryStudentShown == [][ShowsStored]_vars

(* The handler's transaction waits in the pool for a nonce that nobody has  *)
(* taken since another one was dropped.                                     *)
Stranded(handler) ==
    \E r \in Asked(handler) :
        LET c == ChainOf(handler) IN
        /\ requests[r].phase = "pooled"
        /\ \E m \in accountNonce[c] .. requests[r].nonce - 1 : m \notin Pooled(c)

(* A disabled button is enabled again, and a transaction that is dropped    *)
(* disables for ever no button but its own and those of the transactions    *)
(* that wait for its nonce (no callback of App.jsx:214-234 looks at a drop).*)
ButtonsComeBack ==
    /\ creating ~> (~creating \/ "create" \in dropped \/ Stranded("create"))
    /\ updating ~> (~updating \/ "update" \in dropped \/ Stranded("update"))
    /\ transferring # None ~>
          (transferring = None \/ "graduate" \in dropped \/ Stranded("graduate"))

(* "Graduated student appears on Company Parachain automatically"           *)
(* (App.jsx:755): a graduate who stays on the Company is shown there in the *)
(* end.                                                                     *)
OnCompany(t) ==
    \E id \in Ids : LET student == chain["company"].Students[id] IN
        student # NoStudent /\ student.tag = t /\ student.has_graduated

GraduateAppears ==
    \A t \in Tags :
        OnCompany(t) ~> (~OnCompany(t) \/ \E row \in shown["company"] : row.tag = t)
=============================================================================
