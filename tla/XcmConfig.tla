------------------------------ MODULE XcmConfig -----------------------------
(***************************************************************************)
(* What a parachain lets an XCM do, be it received from another chain or   *)
(* executed for a local account, as configured by                          *)
(* runtime/src/configs/xcm_config.rs: the Barrier decides whether the      *)
(* message runs at all, SafeCallFilter which calls Transact may dispatch,  *)
(* the origin converters as whom.  The executor that runs the instructions *)
(* is external.                                                            *)
(***************************************************************************)
EXTENDS Integers, Sequences, FiniteSets

CONSTANTS
    ParaIds,        \* the sibling parachains that can send messages
    Keys,           \* AccountId32 values that have a key
    Funded,         \* the local accounts that can pay for execution
    MaxPrefixes,    \* descents the Barrier computes the origin from: 8
    PaidWithin,     \* instructions it searches for BuyExecution: 5
    MaxProgram      \* bound: instructions of a message

ASSUME ProgramAssumption ==
    MaxPrefixes \in Nat \ {0} /\ PaidWithin \in Nat /\ MaxProgram \in Nat

(* Locations, seen from the receiving parachain.                            *)
Loc(up, interior) == [parents |-> up, interior |-> interior]
Parachain(p) == <<"Parachain", p>>
AccountId32(k) == <<"AccountId32", k>>
Plurality(body) == <<"Plurality", body>>

Parent     == Loc(1, <<>>)
Siblings   == {Loc(1, <<Parachain(p)>>) : p \in ParaIds}
Executive  == Loc(1, <<Plurality("Executive")>>)
NoLocation == Loc(0, <<<<"cleared">>>>)

(* The message queue has one queue per chain: only the relay chain and the  *)
(* siblings send, for their accounts and bodies they descend the origin.    *)
Chains == {Parent} \cup Siblings

(* PolkadotXcm::execute takes any message of a signed account, whose        *)
(* location it is executed for (XcmExecuteFilter = Everything).             *)
LocalOriginToLocation(k) == Loc(0, <<AccountId32(k)>>)

Locals == {LocalOriginToLocation(k) : k \in Keys}

Senders == Chains \cup Locals

Junctions ==
    {AccountId32(k) : k \in Keys} \cup {Parachain(p) : p \in ParaIds}
      \cup {Plurality("Executive")}

(* Instructions: the ones the configuration tells apart.                    *)
Descend(j)     == [op |-> "DescendOrigin", to |-> j]
Transact(k, c) == [op |-> "Transact", kind |-> k, call |-> c]
Simple(op)     == [op |-> op]

OriginKinds == {"SovereignAccount", "Native", "Xcm", "Superuser"}
Calls       == {"TemplatePallet", "Balances"}

Instructions ==
    {Simple(op) : op \in {"UnpaidExecution", "WithdrawAsset", "BuyExecution",
                          "ClearOrigin", "SetTopic", "ReserveTransferToRelay"}}
      \cup {Descend(j) : j \in Junctions}
      \cup {Transact(k, c) : k \in OriginKinds, c \in Calls}

Programs == UNION {[1 .. n -> Instructions] : n \in 1 .. MaxProgram}

-----------------------------------------------------------------------------
(* Origins *)

NoAccount == <<"none">>

(* Only an account has a balance.                                           *)
ASSUME FundedAssumption == NoAccount \notin Funded

(* With a bug: an account behind any prefix is taken for the local one.     *)
LastJunctionToAccountId(loc) ==
    IF loc = Parent THEN <<"parent">>
    ELSE IF loc \in Siblings THEN <<"sibl", loc.interior[1][2]>>
    ELSE IF loc.interior # <<>> /\ loc.interior[Len(loc.interior)][1] = "AccountId32"
    THEN <<"key", loc.interior[Len(loc.interior)][2]>>
    ELSE NoAccount

(* ParentIsPreset, SiblingParachainConvertsVia, AccountId32Aliases.         *)
LocationToAccountId(loc) ==
    IF loc = Parent THEN <<"parent">>
    ELSE IF loc \in Siblings THEN <<"sibl", loc.interior[1][2]>>
    ELSE IF loc.parents = 0 /\ Len(loc.interior) = 1 /\ loc.interior[1][1] = "AccountId32"
    THEN <<"key", loc.interior[1][2]>>
    ELSE NoAccount

BadOrigin == [origin |-> "BadOrigin", who |-> NoAccount]

(* The converters of the tuple are tried in turn; each takes one kind, so   *)
(* at most one of the disjuncts applies.  No converter takes Superuser.     *)
XcmOriginToTransactDispatchOrigin(loc, kind) ==
    IF kind = "SovereignAccount" /\ LocationToAccountId(loc) # NoAccount
    THEN [origin |-> "Signed", who |-> LocationToAccountId(loc)]
    ELSE IF kind = "Native" /\ loc = Parent
    THEN [origin |-> "Relay", who |-> NoAccount]
    ELSE IF kind = "Native" /\ loc \in Siblings
    THEN [origin |-> "SiblingPara", who |-> NoAccount]
    ELSE IF kind = "Native" /\ loc \in Locals
    THEN [origin |-> "Signed", who |-> LocationToAccountId(loc)]
    ELSE IF kind = "Xcm" /\ loc # NoLocation
    THEN [origin |-> "Xcm", who |-> NoAccount]
    ELSE BadOrigin

SafeCallFilter(call) == call = "TemplatePallet"

-----------------------------------------------------------------------------
(* Barrier *)

ParentOrParentsExecutivePlurality(loc) == loc \in {Parent, Executive}

(* With a bug: the pattern admits what is behind a parachain too.           *)
AllowBehindSiblings(loc) == loc.parents = 1 /\ loc.interior # <<>>
                              /\ loc.interior[1][1] = "Parachain"

(* With a bug: the pattern is written as seen from the relay chain.         *)
AllowChildParachains(loc) == loc.parents = 0 /\ Len(loc.interior) = 1
                               /\ loc.interior[1][1] = "Parachain"

AllowSiblingParachains(loc) == loc.parents = 1 /\ Len(loc.interior) = 1
                                 /\ loc.interior[1][1] = "Parachain"

Deeper(loc, junction) == Loc(loc.parents, Append(loc.interior, junction))

(* How many of the first instructions have one of the given names.          *)
Leading(program, names) ==
    CHOOSE n \in 0 .. Len(program) :
        /\ \A i \in 1 .. n : program[i].op \in names
        /\ n < Len(program) => program[n + 1].op \notin names

After(program, n) == SubSeq(program, n + 1, Len(program))

(* TrailingSetTopicAsId takes a final SetTopic out of the barrier's sight.  *)
WithoutTopic(program) ==
    IF program[Len(program)].op = "SetTopic"
    THEN SubSeq(program, 1, Len(program) - 1) ELSE program

(* WithComputedOrigin takes the leading DescendOrigins, up to ConstU32<8>,  *)
(* out of the sight of the barriers in it, which judge their origin.        *)
Skipped(program) ==
    LET n == Leading(program, {"DescendOrigin"})
    IN  IF n <= MaxPrefixes THEN n ELSE MaxPrefixes

ComputedOrigin(sender, program) ==
    Loc(sender.parents,
        sender.interior \o [i \in 1 .. Skipped(program) |-> program[i].to])

(* BuyExecution follows WithdrawAsset among the first instructions.         *)
AllowTopLevelPaidExecution(program) ==
    LET rest    == After(program, 1)
        skipped == Leading(rest, {"ClearOrigin", "DescendOrigin"})
        next    == After(rest, skipped)
    IN  /\ program # <<>> /\ program[1].op = "WithdrawAsset"
        /\ next # <<>> /\ next[1].op = "BuyExecution"
        /\ skipped + 2 <= PaidWithin

(* Asset transfers may stand before the UnpaidExecution.                    *)
AllowExplicitUnpaidExecution(program) ==
    LET rest == After(program, Leading(program, {"WithdrawAsset"}))
    IN  rest # <<>> /\ rest[1].op = "UnpaidExecution"

(* The weight that the caller of execute has paid for is a credit; what     *)
(* comes from a queue has none.                                             *)
TakeWeightCredit(sender) == sender \in Locals

Barrier(sender, program) ==
    LET seen   == WithoutTopic(program)
        origin == ComputedOrigin(sender, seen)
        rest   == After(seen, Skipped(seen))
    IN  /\ \A i \in 1 .. Len(seen) : seen[i].op # "ReserveTransferToRelay"
        /\ \/ TakeWeightCredit(sender)
           \/ AllowTopLevelPaidExecution(rest)
           \/ /\ ParentOrParentsExecutivePlurality(origin) \/ AllowSiblingParachains(origin)
              /\ AllowExplicitUnpaidExecution(rest)
=============================================================================
