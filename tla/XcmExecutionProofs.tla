------------------------- MODULE XcmExecutionProofs -------------------------
(***************************************************************************)
(* Theorems about the messages that a chain receives or executes: whom a   *)
(* message can reach, which messages dispatch nothing and that the one of  *)
(* graduate_student runs.  They hold for every set of chains, accounts and *)
(* funded accounts and for messages of every length.                       *)
(***************************************************************************)
EXTENDS XcmExecution, SequenceProofs

-----------------------------------------------------------------------------
(* The inductive invariant *)

Locations == [parents : {0, 1}, interior : Seq(Junctions)]

AccountIds ==
    {NoAccount, <<"parent">>} \cup {<<"sibl", p>> : p \in ParaIds}
      \cup {<<"key", k>> : k \in Keys}

DispatchOrigins == [origin : {"Signed", "Relay", "SiblingPara", "Xcm"}, who : AccountIds]

Typed ==
    /\ TypeOK
    /\ program # <<>>
    /\ origin \in Locations \cup {NoLocation}
    /\ dispatched \in Seq([as : DispatchOrigins, call : Calls])

(* Before the Barrier has judged, the registers are as they were set up.    *)
Fresh == status = "received" => pc = 1 /\ origin = sender /\ dispatched = <<>>

(* The origin of a sibling's or an account's message moves away from the    *)
(* sender, to locations that no converter takes for an account.             *)
Below ==
    sender \in Siblings \cup Locals =>
        origin \in {sender, NoLocation} \/ Len(origin.interior) > 1

(* Behind a chain: where no converter finds a local account either.         *)
BehindChain(loc) ==
    /\ loc \in Locations
    /\ loc.parents = 1
    /\ loc.interior # <<>>
    /\ loc.interior[1] \in {AccountId32(k) : k \in Keys} \/ Len(loc.interior) > 1

ForAccount == sender \in Chains /\ program[1] \in {Descend(AccountId32(k)) : k \in Keys}

(* A message on behalf of an account runs only if it descends and then      *)
(* withdraws, and it does not get past the withdrawal.                      *)
AccountHeld ==
    ForAccount =>
        /\ dispatched = <<>>
        /\ status = "running" =>
              \E n \in 1 .. Len(program) - 1 :
                 /\ \A i \in 1 .. n : program[i].op = "DescendOrigin"
                 /\ program[n + 1].op = "WithdrawAsset"
                 /\ pc <= n + 1
                 /\ IF pc = 1 THEN origin = sender ELSE BehindChain(origin)

OwnerCalls ==
    <<[as   |-> [origin |-> "Signed", who |-> LocationToAccountId(sender)],
       call |-> "TemplatePallet"]>>

GraduationOnCourse ==
    sender \in Siblings /\ program = GraduationMessage =>
        /\ status \in {"received", "running", "done"}
        /\ origin = sender
        /\ dispatched = IF pc <= 2 THEN <<>> ELSE OwnerCalls
        /\ status = "done" => pc = 4

Inv == Typed /\ Fresh /\ Below /\ OnlyOwnSovereign /\ AccountHeld /\ GraduationOnCourse
-----------------------------------------------------------------------------
(* The operators of the configuration *)

(* Leading counts the instructions before the first that has another name.  *)
LEMMA LeadingCounts ==
    ASSUME NEW p \in Seq(Instructions), NEW names
    PROVE  /\ Leading(p, names) \in 0 .. Len(p)
           /\ \A i \in 1 .. Leading(p, names) : p[i].op \in names
           /\ Leading(p, names) < Len(p) => p[Leading(p, names) + 1].op \notin names
<1> DEFINE Others == {i \in 1 .. Len(p) : p[i].op \notin names}
<1>1. \E n \in 0 .. Len(p) :
         /\ \A i \in 1 .. n : p[i].op \in names
         /\ n < Len(p) => p[n + 1].op \notin names
  <2>1. CASE Others = {}
    <3>1. Len(p) \in 0 .. Len(p) /\ \A i \in 1 .. Len(p) : p[i].op \in names
      BY <2>1
    <3> QED
      BY <3>1
  <2>2. CASE Others # {}
    <3>1. Others \in SUBSET Nat
      OBVIOUS
    <3>2. PICK n \in Others : \A m \in Others : n <= m
      <4> HIDE DEF Others
      <4> QED
        BY <2>2, <3>1, LeastOf
    <3>3. n \in 1 .. Len(p) /\ p[n].op \notin names
      BY <3>2
    <3>4. \A i \in 1 .. n - 1 : p[i].op \in names
      BY <3>2, <3>3
    <3>5. n - 1 \in 0 .. Len(p) /\ (n - 1) + 1 = n
      BY <3>3
    <3> QED
      BY <3>3, <3>4, <3>5
  <2> QED
    BY <2>1, <2>2
<1> QED
  BY <1>1 DEF Leading

LEMMA InstructionShapes ==
    ASSUME NEW i \in Instructions
    PROVE  /\ i.op = "DescendOrigin" => \E j \in Junctions : i = Descend(j)
           /\ i.op = "Transact" => \E k \in OriginKinds, c \in Calls : i = Transact(k, c)
  BY DEF Instructions, Simple, Descend, Transact

(* Senders and where a message can move them.                               *)
LEMMA SenderShapes ==
    ASSUME NEW s \in Senders
    PROVE  /\ s \in Locations
           /\ s \in Chains <=> s.parents = 1
           /\ s \in Locals <=> s.parents = 0
           /\ s \in Siblings \cup Locals => Len(s.interior) = 1
           /\ s = Parent => s.interior = <<>>
<1>a. \A l \in Locals : l.parents = 0
  BY DEF Locals, LocalOriginToLocation, Loc
<1>b. \A l \in Siblings : l.parents = 1 /\ l # Parent
  <2> SUFFICES ASSUME NEW l \in Siblings
               PROVE  l.parents = 1 /\ l # Parent
    OBVIOUS
  <2>1. PICK p \in ParaIds : l = Loc(1, <<Parachain(p)>>)
    BY DEF Siblings
  <2>2. Len(l.interior) = 1 /\ l.parents = 1
    BY <2>1 DEF Loc
  <2>3. Len(Parent.interior) = 0
    BY DEF Parent, Loc
  <2> QED
    BY <2>2, <2>3
<1>c. Parent.parents = 1 /\ Parent.interior = <<>> /\ Parent \in Locations
  BY DEF Parent, Loc, Locations
<1>1. CASE s = Parent
  BY <1>1, <1>a, <1>b, <1>c DEF Chains
<1>2. CASE s \in Siblings
  <2>1. PICK p \in ParaIds : s = [parents |-> 1, interior |-> <<Parachain(p)>>]
    BY <1>2 DEF Siblings, Loc
  <2>2. <<Parachain(p)>> \in Seq(Junctions) /\ Len(<<Parachain(p)>>) = 1
    BY DEF Junctions
  <2>3. s \in Locations /\ s.parents = 1 /\ Len(s.interior) = 1 /\ s # Parent
    BY <2>1, <2>2 DEF Locations, Parent, Loc
  <2>4. s \notin Locals
    BY <1>a, <2>3
  <2> QED
    BY <1>2, <2>3, <2>4 DEF Chains
<1>3. CASE s \in Locals
  <2>1. PICK k \in Keys : s = [parents |-> 0, interior |-> <<AccountId32(k)>>]
    BY <1>3 DEF Locals, LocalOriginToLocation, Loc
  <2>2. <<AccountId32(k)>> \in Seq(Junctions) /\ Len(<<AccountId32(k)>>) = 1
    BY DEF Junctions
  <2>3. s \in Locations /\ s.parents = 0 /\ Len(s.interior) = 1
    BY <2>1, <2>2 DEF Locations
  <2>4. s \notin Chains /\ s # Parent
    BY <1>b, <1>c, <2>3 DEF Chains
  <2> QED
    BY <1>3, <2>3, <2>4
<1> QED
  BY <1>1, <1>2, <1>3 DEF Senders, Chains

LEMMA AccountOf ==
    ASSUME NEW loc \in Locations
    PROVE  /\ LocationToAccountId(loc) \in AccountIds
           /\ LocationToAccountId(loc) # NoAccount =>
                 loc \in Senders /\ Len(loc.interior) <= 1
<1>1. CASE loc = Parent
  BY <1>1 DEF LocationToAccountId, AccountIds, Senders, Chains, Parent, Loc
<1>2. CASE loc # Parent /\ loc \in Siblings
  <2>1. PICK p \in ParaIds : loc = Loc(1, <<Parachain(p)>>)
    BY <1>2 DEF Siblings
  <2>2. LocationToAccountId(loc) = <<"sibl", p>> /\ Len(loc.interior) = 1
    BY <1>2, <2>1 DEF LocationToAccountId, Loc, Parachain
  <2> QED
    BY <1>2, <2>2 DEF AccountIds, Senders, Chains
<1>3. CASE /\ loc # Parent /\ loc \notin Siblings
           /\ loc.parents = 0 /\ Len(loc.interior) = 1
           /\ loc.interior[1][1] = "AccountId32"
  <2>1. loc.interior[1] \in Junctions
    BY <1>3 DEF Locations
  <2>2. PICK k \in Keys : loc.interior[1] = AccountId32(k)
    BY <1>3, <2>1 DEF Junctions, AccountId32, Parachain, Plurality
  <2>3. LocationToAccountId(loc) = <<"key", k>>
    BY <1>3, <2>2 DEF LocationToAccountId, AccountId32
  <2>4. loc.interior = <<AccountId32(k)>>
    BY <1>3, <2>2 DEF Locations
  <2>5. loc = Loc(0, <<AccountId32(k)>>)
    BY <1>3, <2>4 DEF Locations, Loc
  <2> QED
    BY <1>3, <2>3, <2>5 DEF AccountIds, Senders, Locals, LocalOriginToLocation
<1>4. CASE /\ loc # Parent /\ loc \notin Siblings
           /\ ~(/\ loc.parents = 0 /\ Len(loc.interior) = 1
                /\ loc.interior[1][1] = "AccountId32")
  BY <1>4 DEF LocationToAccountId, AccountIds
<1> QED
  BY <1>1, <1>2, <1>3, <1>4

LEMMA NoAccountCleared == LocationToAccountId(NoLocation) = NoAccount
<1>1. /\ NoLocation.parents = 0
      /\ NoLocation.interior[1][1] = "cleared"
  BY DEF NoLocation, Loc
<1>2. NoLocation # Parent /\ NoLocation \notin Siblings
  BY <1>1 DEF Parent, Siblings, Loc
<1> QED
  BY <1>1, <1>2 DEF LocationToAccountId

LEMMA NoAccountBehind ==
    ASSUME NEW loc, BehindChain(loc)
    PROVE  LocationToAccountId(loc) = NoAccount
<1>1. loc.parents = 1 /\ loc.interior # <<>> /\ loc.interior \in Seq(Junctions)
  BY DEF BehindChain, Locations
<1>2. loc # Parent
  BY <1>1 DEF Parent, Loc
<1>3. loc \notin Siblings
  <2> SUFFICES ASSUME NEW p \in ParaIds, loc = Loc(1, <<Parachain(p)>>)
               PROVE  FALSE
    BY DEF Siblings
  <2>1. Len(loc.interior) = 1 /\ loc.interior[1] = <<"Parachain", p>>
    BY DEF Loc, Parachain
  <2>2. PICK k \in Keys : loc.interior[1] = <<"AccountId32", k>>
    BY <2>1 DEF BehindChain, AccountId32
  <2> QED
    BY <2>1, <2>2
<1> QED
  BY <1>1, <1>2, <1>3 DEF LocationToAccountId

LEMMA DeeperBehind ==
    ASSUME NEW loc \in Locations, NEW j \in Junctions
    PROVE  /\ Deeper(loc, j) \in Locations
           /\ Deeper(loc, j).parents = loc.parents
           /\ Len(Deeper(loc, j).interior) = Len(loc.interior) + 1
           /\ loc.interior = <<>> => Deeper(loc, j).interior[1] = j
           /\ loc.interior # <<>> => Deeper(loc, j).interior[1] = loc.interior[1]
  BY DEF Deeper, Loc, Locations
-----------------------------------------------------------------------------
(* The Barrier *)

(* A message that a chain sends for one of its accounts passes only if it   *)
(* withdraws right after its descents.                                      *)
LEMMA AccountsPassPaying ==
    ASSUME NEW s \in Chains, NEW p \in Seq(Instructions), p # <<>>,
           NEW k \in Keys, p[1] = Descend(AccountId32(k)), Barrier(s, p)
    PROVE  \E n \in 1 .. Len(p) - 1 :
              /\ \A i \in 1 .. n : p[i].op = "DescendOrigin"
              /\ p[n + 1].op = "WithdrawAsset"
<1> DEFINE seen == WithoutTopic(p)
           n    == Skipped(seen)
           rest == After(seen, n)
           to   == [i \in 1 .. n |-> seen[i].to]
           loc  == Loc(s.parents, s.interior \o to)
<1>1. /\ seen \in Seq(Instructions) /\ Len(seen) \in 1 .. Len(p)
      /\ \A i \in 1 .. Len(seen) : seen[i] = p[i]
  <2>1. p[1].op = "DescendOrigin"
    BY DEF Descend
  <2>2. CASE p[Len(p)].op = "SetTopic"
    <3>1. Len(p) - 1 \in 1 .. Len(p)
      BY <2>1, <2>2
    <3> QED
      BY <2>2, <3>1 DEF WithoutTopic
  <2>3. CASE p[Len(p)].op # "SetTopic"
    BY <2>3 DEF WithoutTopic
  <2> QED
    BY <2>2, <2>3
<1> HIDE DEF seen
<1>2. /\ n \in 0 .. Len(seen)
      /\ \A i \in 1 .. n : seen[i].op = "DescendOrigin"
      /\ n = 0 => seen[1].op # "DescendOrigin"
  <2> DEFINE all == Leading(seen, {"DescendOrigin"})
  <2>1. /\ all \in 0 .. Len(seen)
        /\ \A i \in 1 .. all : seen[i].op = "DescendOrigin"
        /\ all < Len(seen) => seen[all + 1].op # "DescendOrigin"
    BY <1>1, LeadingCounts
  <2>2. n = IF all <= MaxPrefixes THEN all ELSE MaxPrefixes
    BY DEF Skipped
  <2> HIDE DEF all, n
  <2>3. n \in 0 .. all /\ (n = 0 => all = 0)
    BY <2>1, <2>2, ProgramAssumption
  <2> QED
    BY <1>1, <2>1, <2>3
<1>3. seen[1] = Descend(AccountId32(k)) /\ n \in 1 .. Len(seen)
  BY <1>1, <1>2 DEF Descend
<1> HIDE DEF n
<1>4. to \in Seq(Junctions) /\ Len(to) = n /\ to[1] = AccountId32(k)
  <2>1. \A i \in 1 .. n : seen[i].to \in Junctions
    BY <1>1, <1>2, InstructionShapes DEF Descend
  <2> QED
    BY <1>3, <2>1 DEF Descend
<1> HIDE DEF to
<1>5. BehindChain(loc)
  <2>1. s \in Locations /\ s.parents = 1
    BY SenderShapes DEF Senders
  <2>2. /\ s.interior \in Seq(Junctions)
        /\ s.interior \o to \in Seq(Junctions)
        /\ Len(s.interior \o to) = Len(s.interior) + n
        /\ s.interior = <<>> => (s.interior \o to)[1] = to[1]
    <3>1. \A u, v \in Seq(Junctions) :
             /\ u \o v \in Seq(Junctions) /\ Len(u \o v) = Len(u) + Len(v)
             /\ u = <<>> => u \o v = v
      OBVIOUS
    <3>2. s.interior \in Seq(Junctions)
      BY <2>1 DEF Locations
    <3> QED
      BY <1>4, <3>1, <3>2
  <2>3. loc \in Locations /\ loc.parents = 1 /\ loc.interior = s.interior \o to
    BY <2>1, <2>2 DEF Loc, Locations
  <2>4. s.interior = <<>> \/ Len(s.interior) >= 1
    BY <2>2
  <2> QED
    BY <1>3, <1>4, <2>2, <2>3, <2>4 DEF BehindChain
<1>6. ~ParentOrParentsExecutivePlurality(loc) /\ ~AllowSiblingParachains(loc)
  <2>1. loc # Parent
    BY <1>5 DEF BehindChain, Parent, Loc
  <2>2. ~(Len(loc.interior) = 1 /\ loc.interior[1][1] \in {"Parachain", "Plurality"})
    <3> SUFFICES ASSUME Len(loc.interior) = 1
                 PROVE  loc.interior[1][1] \notin {"Parachain", "Plurality"}
      OBVIOUS
    <3>1. PICK j \in Keys : loc.interior[1] = AccountId32(j)
      BY <1>5 DEF BehindChain
    <3> QED
      BY <3>1 DEF AccountId32
  <2>3. Len(Executive.interior) = 1 /\ Executive.interior[1][1] = "Plurality"
    BY DEF Executive, Loc, Plurality
  <2> QED
    BY <2>1, <2>2, <2>3 DEF ParentOrParentsExecutivePlurality, AllowSiblingParachains
<1>7. ~TakeWeightCredit(s)
  BY SenderShapes DEF TakeWeightCredit, Senders
<1>8. loc = ComputedOrigin(s, seen)
  BY DEF loc, to, n, ComputedOrigin
<1>9. AllowTopLevelPaidExecution(rest)
  BY <1>6, <1>7, <1>8 DEF Barrier, seen, n
<1>10. rest # <<>> /\ rest[1].op = "WithdrawAsset"
  BY <1>9 DEF AllowTopLevelPaidExecution
<1>11. n < Len(seen) /\ rest[1] = seen[n + 1]
  BY <1>1, <1>3, <1>10 DEF After
<1>12. n \in 1 .. Len(p) - 1 /\ n + 1 \in 1 .. Len(seen)
  BY <1>1, <1>3, <1>11
<1>13. p[n + 1].op = "WithdrawAsset" /\ \A i \in 1 .. n : p[i].op = "DescendOrigin"
  BY <1>1, <1>2, <1>10, <1>11, <1>12
<1> QED
  BY <1>12, <1>13

(* The message of graduate_student passes when a sibling sends it.          *)
LEMMA GraduationPasses ==
    ASSUME NEW s \in Siblings PROVE Barrier(s, GraduationMessage)
<1> DEFINE seen == <<Simple("UnpaidExecution"), Transact("SovereignAccount", "TemplatePallet")>>
<1>1. WithoutTopic(GraduationMessage) = seen
  <2> DEFINE whole == GraduationMessage
  <2>1. /\ whole \in Seq(Instructions) /\ seen \in Seq(Instructions)
        /\ Len(whole) = 3 /\ Len(seen) = 2
        /\ whole[1] = seen[1] /\ whole[2] = seen[2]
    BY DEF GraduationMessage, Instructions, OriginKinds, Calls
  <2>2. whole[3].op = "SetTopic"
    BY DEF GraduationMessage, Simple
  <2> HIDE DEF whole, seen
  <2>3. SubSeq(whole, 1, 2) = seen
    <3>1. /\ SubSeq(whole, 1, 2) \in Seq(Instructions)
          /\ Len(SubSeq(whole, 1, 2)) = 2
          /\ \A i \in 1 .. 2 : SubSeq(whole, 1, 2)[i] = whole[i]
      BY <2>1, SubSeqProperties
    <3>2. \A i \in 1 .. 2 : SubSeq(whole, 1, 2)[i] = seen[i]
      BY <2>1, <3>1
    <3> QED
      BY <2>1, <3>1, <3>2, SeqEqual
  <2> QED
    BY <2>1, <2>2, <2>3 DEF WithoutTopic, whole
<1>2. seen \in Seq(Instructions) /\ Len(seen) = 2
  BY DEF Instructions, OriginKinds, Calls
<1>3. /\ seen[1].op = "UnpaidExecution" /\ seen[2].op = "Transact"
  BY DEF Simple, Transact
<1> HIDE DEF seen
<1>4. Skipped(seen) = 0
  <2>1. Leading(seen, {"DescendOrigin"}) = 0
    BY <1>2, <1>3, LeadingCounts
  <2> QED
    BY <2>1, ProgramAssumption DEF Skipped
<1>5. Leading(seen, {"WithdrawAsset"}) = 0
  BY <1>2, <1>3, LeadingCounts
<1>6. After(seen, 0) = seen
  BY <1>2 DEF After
<1>7. AllowExplicitUnpaidExecution(seen)
  BY <1>2, <1>3, <1>5, <1>6 DEF AllowExplicitUnpaidExecution
<1>8. AllowSiblingParachains(ComputedOrigin(s, seen))
  <2>1. PICK p \in ParaIds : s = [parents |-> 1, interior |-> <<Parachain(p)>>]
    BY DEF Siblings, Loc
  <2>2. ComputedOrigin(s, seen) = Loc(1, <<Parachain(p)>> \o [i \in 1 .. 0 |-> seen[i].to])
    BY <1>4, <2>1 DEF ComputedOrigin
  <2>3. <<Parachain(p)>> \o [i \in 1 .. 0 |-> seen[i].to] = <<Parachain(p)>>
    OBVIOUS
  <2> QED
    BY <2>2, <2>3 DEF AllowSiblingParachains, Loc, Parachain
<1>9. \A i \in 1 .. Len(seen) : seen[i].op # "ReserveTransferToRelay"
  BY <1>2, <1>3
<1> QED
  BY <1>1, <1>4, <1>6, <1>7, <1>8, <1>9 DEF Barrier

-----------------------------------------------------------------------------
(* The invariant *)

LEMMA InvInit == Init => Inv
<1> SUFFICES ASSUME Init PROVE Inv
  OBVIOUS
<1>1. PICK n \in 1 .. MaxProgram : program \in [1 .. n -> Instructions]
  BY DEF Init, Programs
<1>2. program \in Seq(Instructions) /\ Len(program) = n /\ program # <<>>
  BY <1>1, ProgramAssumption
<1>3. sender \in Locations
  BY SenderShapes DEF Init
<1>4. <<>> \in Seq([as : DispatchOrigins, call : Calls])
  OBVIOUS
<1>5. Typed
  <2>1. TypeOK
    <3>1. 1 \in 1 .. Len(program) + 1 /\ Len(<<>>) < 1
      BY <1>2
    <3> QED
      BY <1>2, <3>1 DEF Init, TypeOK
  <2> QED
    BY <1>2, <1>3, <1>4, <2>1 DEF Init, Typed
<1> QED
  BY <1>5 DEF Init, Inv, Fresh, Below, OnlyOwnSovereign, AccountHeld, GraduationOnCourse

(* The executor at an instruction.                                          *)
LEMMA Running ==
    ASSUME Typed, NEW op, At(op)
    PROVE  /\ program[pc] \in Instructions /\ program[pc].op = op
           /\ pc \in 1 .. Len(program) /\ Len(program) \in Nat
           /\ status = "running"
  BY DEF Typed, TypeOK, At

(* What a step dispatches and as whom.                                      *)
LEMMA Dispatches ==
    ASSUME Typed, At("Transact"),
           XcmOriginToTransactDispatchOrigin(origin, program[pc].kind) # BadOrigin
    PROVE  LET as == XcmOriginToTransactDispatchOrigin(origin, program[pc].kind) IN
           /\ as \in DispatchOrigins
           /\ program[pc].call \in Calls
           /\ as.origin = "Signed" =>
                 as.who = LocationToAccountId(origin) /\ origin \in Senders
<1> DEFINE kind == program[pc].kind
           as   == XcmOriginToTransactDispatchOrigin(origin, kind)
           who  == LocationToAccountId(origin)
<1>1. PICK k \in OriginKinds, c \in Calls : program[pc] = Transact(k, c)
  BY Running, InstructionShapes
<1>2. kind \in OriginKinds /\ program[pc].call \in Calls
  BY <1>1 DEF Transact
<1>3. /\ who \in AccountIds
      /\ who # NoAccount => origin \in Senders
  BY AccountOf, NoAccountCleared DEF Typed, AccountIds
<1>4. NoAccount \in AccountIds
  BY DEF AccountIds
<1>5. \/ as = [origin |-> "Signed", who |-> who] /\ origin \in Senders
      \/ as \in {[origin |-> o, who |-> NoAccount] : o \in {"Relay", "SiblingPara", "Xcm"}}
  BY <1>3 DEF XcmOriginToTransactDispatchOrigin, Senders
<1> HIDE DEF as, who, kind
<1>6. as \in DispatchOrigins /\ (as.origin = "Signed" => as.who = who /\ origin \in Senders)
  <2>1. CASE as = [origin |-> "Signed", who |-> who] /\ origin \in Senders
    BY <1>3, <2>1 DEF DispatchOrigins
  <2>2. ASSUME NEW o \in {"Relay", "SiblingPara", "Xcm"},
               as = [origin |-> o, who |-> NoAccount]
        PROVE  as \in DispatchOrigins /\ as.origin # "Signed"
    BY <1>4, <2>2 DEF DispatchOrigins
  <2> QED
    BY <1>5, <2>1, <2>2
<1> QED
  BY <1>2, <1>6 DEF as, who, kind

LEMMA TypedStep ==
    ASSUME Typed, Next PROVE Typed'
<1> USE DEF Typed, TypeOK
<1>1. CASE Judge
  BY <1>1 DEF Judge
<1>2. CASE Pass
  BY <1>2, Running DEF Pass, Goes
<1>3. CASE DescendOrigin
  <2>1. CASE origin = NoLocation
    BY <1>3, <2>1 DEF DescendOrigin, Fails
  <2>2. CASE origin # NoLocation
    <3>1. program[pc].to \in Junctions
      BY <1>3, Running, InstructionShapes DEF DescendOrigin, Descend
    <3>2. origin' \in Locations
      BY <1>3, <2>2, <3>1, DeeperBehind DEF DescendOrigin
    <3> QED
      BY <1>3, <2>2, <3>2, Running DEF DescendOrigin, Goes
  <2> QED
    BY <2>1, <2>2
<1>4. CASE ClearOrigin
  BY <1>4, Running DEF ClearOrigin, Goes
<1>5. CASE WithdrawAsset
  <2>1. CASE LocationToAccountId(origin) \in Funded
    BY <1>5, <2>1, Running DEF WithdrawAsset, Goes
  <2>2. CASE LocationToAccountId(origin) \notin Funded
    BY <1>5, <2>2 DEF WithdrawAsset, Fails
  <2> QED
    BY <2>1, <2>2
<1>6. CASE BuyExecution
  BY <1>6, Running DEF BuyExecution, Goes, Fails
<1>7. CASE RunTransact
  <2> DEFINE as == XcmOriginToTransactDispatchOrigin(origin, program[pc].kind)
             d  == [as |-> as, call |-> program[pc].call]
  <2>1. At("Transact")
    BY <1>7 DEF RunTransact
  <2>2. CASE origin # NoLocation /\ SafeCallFilter(program[pc].call) /\ as # BadOrigin
    <3>1. d \in [as : DispatchOrigins, call : Calls]
      BY <2>1, <2>2, Dispatches
    <3>2. pc' = pc + 1 /\ dispatched' = Append(dispatched, d)
          /\ UNCHANGED <<sender, program, status, origin, paid>>
      BY <1>7, <2>2 DEF RunTransact, Goes
    <3> HIDE DEF d
    <3>3. /\ dispatched' \in Seq([as : DispatchOrigins, call : Calls])
          /\ Len(dispatched') = Len(dispatched) + 1
      BY <3>1, <3>2
    <3>4. pc' \in 1 .. Len(program) + 1 /\ Len(dispatched') < pc'
      BY <2>1, <3>2, <3>3, Running
    <3> QED
      BY <3>2, <3>3, <3>4
  <2>3. CASE ~(origin # NoLocation /\ SafeCallFilter(program[pc].call) /\ as # BadOrigin)
    BY <1>7, <2>3 DEF RunTransact, Fails
  <2> QED
    BY <2>2, <2>3
<1>8. CASE Finish
  BY <1>8 DEF Finish
<1> QED
  BY <1>1, <1>2, <1>3, <1>4, <1>5, <1>6, <1>7, <1>8 DEF Next

LEMMA FreshStep ==
    ASSUME Inv, Next PROVE Fresh'
  BY DEF Inv, Fresh, Next, Judge, Pass, DescendOrigin, ClearOrigin, WithdrawAsset,
         BuyExecution, RunTransact, Finish, Goes, Fails, At

(* Only three instructions touch the origin or the calls.                   *)
LEMMA Quiet ==
    ASSUME Next, ~DescendOrigin, ~ClearOrigin, ~RunTransact
    PROVE  UNCHANGED <<sender, program, origin, dispatched>>
  BY DEF Next, Judge, Pass, WithdrawAsset, BuyExecution, Finish, Goes, Fails

LEMMA SenderStays ==
    ASSUME Next PROVE UNCHANGED <<sender, program>>
  BY DEF Next, Judge, Pass, DescendOrigin, ClearOrigin, WithdrawAsset,
         BuyExecution, RunTransact, Finish, Goes, Fails

LEMMA BelowStep ==
    ASSUME Inv, Next PROVE Below'
<1> SUFFICES ASSUME sender \in Siblings \cup Locals
             PROVE  origin' \in {sender, NoLocation} \/ Len(origin'.interior) > 1
  BY SenderStays DEF Below
<1>1. CASE DescendOrigin /\ origin # NoLocation
  <2>1. program[pc].to \in Junctions
    BY <1>1, Running, InstructionShapes DEF DescendOrigin, Descend, Inv
  <2>2. Len(origin.interior) >= 1 /\ origin \in Locations
    <3>1. origin \in Locations
      BY <1>1 DEF Inv, Typed
    <3>2. Len(sender.interior) = 1
      BY SenderShapes DEF Inv, Typed, TypeOK
    <3>3. origin = sender \/ Len(origin.interior) > 1
      BY <1>1 DEF Inv, Below
    <3> QED
      BY <3>1, <3>2, <3>3 DEF Locations
  <2>3. origin' = Deeper(origin, program[pc].to)
    BY <1>1 DEF DescendOrigin
  <2>4. Len(origin.interior) \in Nat
    BY <2>2 DEF Locations
  <2>5. Len(Deeper(origin, program[pc].to).interior) = Len(origin.interior) + 1
    BY <2>1, <2>2, DeeperBehind
  <2> QED
    BY <2>2, <2>3, <2>4, <2>5
<1>2. CASE ClearOrigin
  BY <1>2 DEF ClearOrigin
<1>3. CASE UNCHANGED origin
  BY <1>3 DEF Inv, Below
<1>4. CASE DescendOrigin /\ origin = NoLocation
  BY <1>3, <1>4 DEF DescendOrigin, Fails
<1>5. CASE RunTransact
  BY <1>3, <1>5 DEF RunTransact, Fails
<1> QED
  BY <1>1, <1>2, <1>3, <1>4, <1>5, Quiet

LEMMA OwnStep ==
    ASSUME Inv, Next PROVE OnlyOwnSovereign'
<1> DEFINE as == XcmOriginToTransactDispatchOrigin(origin, program[pc].kind)
           d  == [as |-> as, call |-> program[pc].call]
           Own(e) == sender \in Siblings \cup Locals /\ e.as.origin = "Signed"
                        => e.as.who = LocationToAccountId(sender)
<1>1. CASE dispatched' = dispatched
  BY <1>1, SenderStays DEF Inv, OnlyOwnSovereign
<1>2. CASE dispatched' = Append(dispatched, d) /\ At("Transact") /\ as # BadOrigin
  <2>1. Own(d)
    <3> SUFFICES ASSUME sender \in Siblings \cup Locals, as.origin = "Signed"
                 PROVE  as.who = LocationToAccountId(sender)
      OBVIOUS
    <3>1. as.who = LocationToAccountId(origin) /\ origin \in Senders
      BY <1>2, Dispatches DEF Inv
    <3>2. Len(origin.interior) <= 1 /\ Len(origin.interior) \in Nat /\ origin # NoLocation
      <4>1. origin \in Locations
        BY <3>1, SenderShapes
      <4>2. \A s \in Senders : Len(s.interior) <= 1
        <5> SUFFICES ASSUME NEW s \in Senders PROVE Len(s.interior) <= 1
          OBVIOUS
        <5>1. s = Parent \/ s \in Siblings \cup Locals
          BY DEF Senders, Chains
        <5>2. CASE s = Parent
          <6>1. s.interior = <<>>
            BY <5>2, SenderShapes
          <6> QED
            BY <6>1
        <5>3. CASE s \in Siblings \cup Locals
          <6>1. Len(s.interior) = 1
            BY <5>3, SenderShapes
          <6> QED
            BY <6>1
        <5> QED
          BY <5>1, <5>2, <5>3
      <4>3. NoLocation \notin Senders
        <5>1. NoLocation.parents = 0 /\ NoLocation.interior[1][1] = "cleared"
          BY DEF NoLocation, Loc
        <5>2. \A s \in Locals : s.interior[1][1] = "AccountId32"
          BY DEF Locals, LocalOriginToLocation, Loc, AccountId32
        <5> QED
          BY <5>1, <5>2, SenderShapes
      <4> QED
        BY <3>1, <4>1, <4>2, <4>3 DEF Locations
    <3>3. origin = sender
      BY <3>2 DEF Inv, Below
    <3> QED
      BY <3>1, <3>3
  <2> HIDE DEF d
  <2>2. /\ dispatched \in Seq([as : DispatchOrigins, call : Calls])
        /\ \A i \in 1 .. Len(dispatched) : Own(dispatched[i])
    BY DEF Inv, Typed, OnlyOwnSovereign
  <2>3. \A i \in 1 .. Len(dispatched') :
           IF i = Len(dispatched) + 1 THEN dispatched'[i] = d
           ELSE i \in 1 .. Len(dispatched) /\ dispatched'[i] = dispatched[i]
    BY <1>2, <2>2
  <2>4. \A i \in 1 .. Len(dispatched') : Own(dispatched'[i])
    <3> HIDE DEF Own
    <3> QED
      BY <2>1, <2>2, <2>3
  <2> QED
    BY <2>4, SenderStays DEF OnlyOwnSovereign
<1>3. CASE RunTransact
  BY <1>1, <1>2, <1>3 DEF RunTransact, Fails
<1> QED
  BY <1>1, <1>3, Quiet DEF DescendOrigin, ClearOrigin, Fails

(* A descent from a chain to an account, or from behind a chain, ends       *)
(* behind the chain.                                                        *)
LEMMA DescentStaysBehind ==
    ASSUME NEW loc, NEW j \in Junctions,
           \/ loc \in Chains /\ j \in {AccountId32(k) : k \in Keys}
           \/ BehindChain(loc)
    PROVE  BehindChain(Deeper(loc, j))
<1>1. loc \in Locations /\ loc.parents = 1
  BY SenderShapes DEF BehindChain, Senders
<1>2. loc.interior \in Seq(Junctions)
  BY <1>1 DEF Locations
<1> DEFINE new == Deeper(loc, j)
<1>3. /\ new \in Locations /\ new.parents = 1
      /\ Len(new.interior) = Len(loc.interior) + 1
      /\ loc.interior = <<>> => new.interior[1] = j
      /\ loc.interior # <<>> => new.interior[1] = loc.interior[1]
  BY <1>1, DeeperBehind
<1> SUFFICES BehindChain(new)
  OBVIOUS
<1> HIDE DEF new
<1>4. new.interior # <<>>
  BY <1>2, <1>3
<1>5. CASE loc.interior = <<>>
  <2>1. loc \in Chains /\ j \in {AccountId32(k) : k \in Keys}
    BY <1>5 DEF BehindChain
  <2> QED
    BY <1>3, <1>4, <1>5, <2>1 DEF BehindChain
<1>6. CASE loc.interior # <<>>
  <2>1. Len(loc.interior) >= 1
    BY <1>2, <1>6
  <2>2. Len(new.interior) > 1
    BY <1>2, <1>3, <2>1
  <2> QED
    BY <1>3, <1>4, <2>2 DEF BehindChain
<1> QED
  BY <1>5, <1>6

LEMMA HeldStep ==
    ASSUME Inv, Next PROVE AccountHeld'
<1> SUFFICES ASSUME ForAccount
             PROVE  /\ dispatched' = <<>>
                    /\ status' = "running" =>
                          \E n \in 1 .. Len(program) - 1 :
                             /\ \A i \in 1 .. n : program[i].op = "DescendOrigin"
                             /\ program[n + 1].op = "WithdrawAsset"
                             /\ pc' <= n + 1
                             /\ IF pc' = 1 THEN origin' = sender ELSE BehindChain(origin')
  BY SenderStays DEF AccountHeld, ForAccount, BehindChain
<1>1. dispatched = <<>>
  BY DEF Inv, AccountHeld
<1>2. program \in Seq(Instructions) /\ program # <<>> /\ pc \in Nat
  BY DEF Inv, Typed, TypeOK
<1>3. CASE Judge
  <2>1. pc = 1 /\ origin = sender /\ UNCHANGED <<pc, origin, dispatched>>
    BY <1>3 DEF Judge, Inv, Fresh
  <2>2. CASE Barrier(sender, program)
    <3>1. PICK k \in Keys : program[1] = Descend(AccountId32(k))
      BY DEF ForAccount
    <3>2. sender \in Chains
      BY DEF ForAccount
    <3>3. PICK n \in 1 .. Len(program) - 1 :
             /\ \A i \in 1 .. n : program[i].op = "DescendOrigin"
             /\ program[n + 1].op = "WithdrawAsset"
      BY <1>2, <2>2, <3>1, <3>2, AccountsPassPaying
    <3>4. pc' <= n + 1 /\ pc' = 1 /\ origin' = sender
      BY <1>2, <2>1
    <3> QED
      BY <1>1, <2>1, <3>3, <3>4
  <2>3. CASE ~Barrier(sender, program)
    BY <1>1, <1>3, <2>1, <2>3 DEF Judge
  <2> QED
    BY <2>2, <2>3
<1>4. CASE status = "running"
  <2>1. PICK n \in 1 .. Len(program) - 1 :
           /\ \A i \in 1 .. n : program[i].op = "DescendOrigin"
           /\ program[n + 1].op = "WithdrawAsset"
           /\ pc <= n + 1
           /\ IF pc = 1 THEN origin = sender ELSE BehindChain(origin)
    BY <1>4 DEF Inv, AccountHeld
  <2>2. /\ pc \in 1 .. n + 1 /\ pc <= Len(program)
        /\ program[pc].op = IF pc = n + 1 THEN "WithdrawAsset" ELSE "DescendOrigin"
    BY <1>2, <2>1 DEF Inv, Typed, TypeOK
  <2>3. DescendOrigin \/ WithdrawAsset
    BY <1>4, <2>2 DEF Next, Judge, Pass, ClearOrigin, BuyExecution, RunTransact, Finish, At
  <2>4. CASE DescendOrigin /\ origin # NoLocation
    <3>1. pc \in 1 .. n /\ pc' = pc + 1 /\ origin' = Deeper(origin, program[pc].to)
      BY <2>2, <2>4 DEF DescendOrigin, At, Goes
    <3>2. program[pc].to \in Junctions
      BY <2>4, Running, InstructionShapes DEF DescendOrigin, Descend, Inv
    <3>3. pc = 1 => sender \in Chains /\ program[pc].to \in {AccountId32(k) : k \in Keys}
      BY DEF ForAccount, Descend
    <3>4. BehindChain(origin')
      BY <2>1, <3>1, <3>2, <3>3, DescentStaysBehind
    <3>5. pc' <= n + 1 /\ pc' # 1 /\ dispatched' = <<>>
      BY <1>1, <2>4, <3>1 DEF DescendOrigin
    <3> QED
      BY <2>1, <3>4, <3>5
  <2>5. CASE DescendOrigin /\ origin = NoLocation
    BY <1>1, <2>5 DEF DescendOrigin, Fails
  <2>6. CASE WithdrawAsset
    <3>1. pc # 1
      BY <2>2, <2>6 DEF WithdrawAsset, At
    <3>2. LocationToAccountId(origin) \notin Funded
      BY <2>1, <3>1, NoAccountBehind, FundedAssumption
    <3> QED
      BY <1>1, <2>6, <3>2 DEF WithdrawAsset, Fails
  <2> QED
    BY <2>3, <2>4, <2>5, <2>6
<1> QED
  BY <1>3, <1>4 DEF Next, Pass, DescendOrigin, ClearOrigin, WithdrawAsset, BuyExecution,
                    RunTransact, Finish, At

LEMMA CourseStep ==
    ASSUME Inv, Next PROVE GraduationOnCourse'
<1> SUFFICES ASSUME sender \in Siblings, program = GraduationMessage
             PROVE  /\ status' \in {"received", "running", "done"}
                    /\ origin' = sender
                    /\ dispatched' = IF pc' <= 2 THEN <<>> ELSE OwnerCalls
                    /\ status' = "done" => pc' = 4
  BY SenderStays DEF GraduationOnCourse, OwnerCalls
<1>1. /\ status \in {"received", "running", "done"}
      /\ origin = sender
      /\ dispatched = IF pc <= 2 THEN <<>> ELSE OwnerCalls
      /\ status = "done" => pc = 4
  BY DEF Inv, GraduationOnCourse
<1>2. /\ Len(program) = 3
      /\ program[1].op = "UnpaidExecution"
      /\ program[2] = Transact("SovereignAccount", "TemplatePallet")
      /\ program[2].op = "Transact"
      /\ program[3].op = "SetTopic"
  BY DEF GraduationMessage, Simple, Transact
<1>3. pc \in 1 .. 4
  BY <1>2 DEF Inv, Typed, TypeOK
<1>4. CASE Judge
  BY <1>1, <1>4, GraduationPasses DEF Judge
<1>5. CASE Pass
  <2>1. pc \in {1, 3}
    BY <1>2, <1>3, <1>5 DEF Pass, At
  <2>2. pc' = pc + 1 /\ UNCHANGED <<origin, dispatched, status>>
    BY <1>5 DEF Pass, Goes
  <2>3. status = "running"
    BY <1>5 DEF Pass, At
  <2>4. dispatched' = IF pc' <= 2 THEN <<>> ELSE OwnerCalls
    BY <1>1, <2>1, <2>2
  <2> QED
    BY <1>1, <2>2, <2>3, <2>4
<1>6. ~DescendOrigin /\ ~ClearOrigin /\ ~WithdrawAsset /\ ~BuyExecution
  BY <1>2, <1>3 DEF DescendOrigin, ClearOrigin, WithdrawAsset, BuyExecution, At
<1>7. CASE RunTransact
  <2>1. pc = 2 /\ status = "running"
    BY <1>2, <1>3, <1>7 DEF RunTransact, At
  <2>2. program[pc].kind = "SovereignAccount" /\ program[pc].call = "TemplatePallet"
    BY <1>2, <2>1 DEF Transact
  <2>3. LocationToAccountId(sender) # NoAccount
    <3>1. sender # Parent
      <4>1. Len(sender.interior) = 1
        BY SenderShapes DEF Senders, Chains
      <4>2. Len(Parent.interior) = 0
        BY DEF Parent, Loc
      <4> QED
        BY <4>1, <4>2
    <3> QED
      BY <3>1 DEF LocationToAccountId, NoAccount
  <2> DEFINE as == [origin |-> "Signed", who |-> LocationToAccountId(sender)]
  <2>4. XcmOriginToTransactDispatchOrigin(origin, program[pc].kind) = as
    BY <1>1, <2>2, <2>3 DEF XcmOriginToTransactDispatchOrigin
  <2>5. as # BadOrigin
    <3>1. as.origin = "Signed" /\ BadOrigin.origin = "BadOrigin"
      BY DEF BadOrigin
    <3> QED
      BY <3>1
  <2>6. origin # NoLocation
    BY <1>1, <2>3, NoAccountCleared
  <2> HIDE DEF as
  <2>a. SafeCallFilter(program[pc].call)
    BY <2>2 DEF SafeCallFilter
  <2>b. /\ Goes /\ UNCHANGED origin
        /\ dispatched' = Append(dispatched, [as |-> as, call |-> program[pc].call])
    BY <1>7, <2>4, <2>5, <2>6, <2>a DEF RunTransact
  <2>7. /\ pc' = 3 /\ UNCHANGED origin /\ UNCHANGED status
        /\ dispatched' = Append(dispatched, [as |-> as, call |-> "TemplatePallet"])
    BY <2>1, <2>2, <2>b DEF Goes
  <2>8. dispatched = <<>>
    BY <1>1, <2>1
  <2>9. dispatched' = OwnerCalls
    BY <2>7, <2>8 DEF OwnerCalls, as
  <2>10. status' = "running" /\ origin' = sender
    BY <1>1, <2>1, <2>7
  <2> QED
    BY <2>7, <2>9, <2>10
<1>8. CASE Finish
  <2>1. pc = 4 /\ status' = "done" /\ UNCHANGED <<origin, dispatched, pc>>
    BY <1>2, <1>3, <1>8 DEF Finish
  <2> QED
    BY <1>1, <2>1
<1> QED
  BY <1>4, <1>5, <1>6, <1>7, <1>8 DEF Next

LEMMA Invariance == Spec => []Inv
<1>1. Init => Inv
  BY InvInit
<1>2. Inv /\ [Next]_execVars => Inv'
  <2>1. ASSUME Inv, Next PROVE Inv'
    BY <2>1, TypedStep, FreshStep, BelowStep, OwnStep, HeldStep, CourseStep DEF Inv
  <2>2. ASSUME Inv, UNCHANGED execVars PROVE Inv'
    BY <2>2 DEF execVars, Inv, Typed, TypeOK, Fresh, Below, OnlyOwnSovereign, AccountHeld,
                ForAccount, BehindChain, GraduationOnCourse, OwnerCalls
  <2> QED
    BY <2>1, <2>2
<1> QED
  BY <1>1, <1>2, PTL DEF Spec

-----------------------------------------------------------------------------
(* The theorems *)

(* The executor's registers keep their types, and there is never more than  *)
(* one call per instruction passed (xcm_config.rs:194).                     *)
THEOREM RegistersTyped == Spec => []TypeOK
<1>1. Inv => TypeOK
  BY DEF Inv, Typed
<1> QED
  BY <1>1, Invariance, PTL

(* No message makes a call as another's account: a sibling signs only as    *)
(* its own sovereign account and a local account only as itself, however    *)
(* long the message and wherever it moves the origin (xcm_config.rs:38-95). *)
THEOREM SovereignsApart == Spec => []OnlyOwnSovereign
<1>1. Inv => OnlyOwnSovereign
  BY DEF Inv
<1> QED
  BY <1>1, Invariance, PTL

(* What a chain sends on behalf of one of its accounts dispatches nothing   *)
(* (xcm_config.rs:104-122): the free ways of the Barrier are not for the    *)
(* origin it descends to, and the paid one fails at the withdrawal.         *)
THEOREM NothingForAccounts == Spec => []AccountsDispatchNothing
<1>1. Inv => AccountsDispatchNothing
  BY DEF Inv, AccountHeld, ForAccount, AccountsDispatchNothing
<1> QED
  BY <1>1, Invariance, PTL

(* The message of graduate_student from any sibling passes the Barrier and  *)
(* runs to its end, and dispatches receive_student once, signed by the      *)
(* sibling's sovereign account (lib.rs:229-239, xcm_config.rs:104-122).     *)
THEOREM GraduationsRun == Spec => []GraduationMessageRuns
<1>1. Inv => GraduationMessageRuns
  BY DEF Inv, GraduationOnCourse, GraduationMessageRuns, OwnerCalls
<1> QED
  BY <1>1, Invariance, PTL
=============================================================================
