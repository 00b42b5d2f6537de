----------------------------- MODULE Collation -----------------------------
(***************************************************************************)
(* How a parachain grows: its collator (CollatorNode) authors blocks ahead *)
(* of their inclusion, up to UNINCLUDED_SEGMENT_CAPACITY, and submits them *)
(* to the relay chain, which backs, includes and finalizes them, or drops  *)
(* them, or goes back to an earlier block of its own.  The collator may    *)
(* crash between any two steps; its database of blocks remains.            *)
(*                                                                         *)
(* A block is the sequence of the bodies that lead to it from the last     *)
(* finalized block, which is <<>>; a body is a sequence of messages and    *)
(* signed calls.  The relay chain is external: its part here is what the   *)
(* runtime and the node expect of it.  Its queue of messages for the       *)
(* parachain does not go back with it.                                     *)
(***************************************************************************)
EXTENDS CollatorNode, SequencesExt

CONSTANTS
    SegmentCapacity,    \* UNINCLUDED_SEGMENT_CAPACITY
    MaxMessages,        \* bound: messages of the relay chain
    MaxCalls,           \* bound: signed calls, with nonces below this
    MaxCallsPerBlock,   \* bound: calls that a proposer takes into a block
    FinalityLag,        \* bound: included blocks that are not finalized
    MaxReorgs           \* bound: times the relay chain goes back

ASSUME CollationAssumption ==
    /\ SegmentCapacity \in Nat \ {0} /\ FinalityLag \in Nat \ {0}
    /\ {MaxMessages, MaxCalls, MaxCallsPerBlock, MaxReorgs} \subseteq Nat

VARIABLES
    log,        \* what the finalized blocks have executed
    arrived,    \* messages that the relay chain has had for the parachain
    blocks,     \* database of the collator: blocks that may still count
    holding,    \* block that the collator has authored and not submitted yet
    offered,    \* blocks whose collation is with the relay chain's validators
    head,       \* the included block
    pending,    \* the backed block that waits for availability
    reorgs      \* times the relay chain has gone back

chainVars == <<log, arrived, blocks, holding, offered, head, pending, reorgs>>
vars == <<nodeVars, chainVars>>

NoBlock == <<>>

Linear == INSTANCE LinearChain

Message(i) == Linear!Message(i)
Call(n)    == Linear!Call(n)
Count(kind, l) == Cardinality(Linear!Of(kind, l))

LogOf(b) == log \o FlattenSeq(b)

Init ==
    /\ NodeInit
    /\ log = <<>> /\ arrived = 0
    /\ blocks = {} /\ offered = {}
    /\ holding = NoBlock /\ head = <<>> /\ pending = NoBlock
    /\ reorgs = 0

-----------------------------------------------------------------------------
(* Authoring *)

(* With a bug: messages are taken as new until a block with them is final.  *)
InherentsAfterFinal(l) ==
    [i \in 1 .. (arrived - Count("message", log)) |-> Message(Count("message", log) + i)]

(* The inherent data hold all the messages of the queue, and the runtime    *)
(* drops those that the chain up to the parent has processed.               *)
Inherents(l) ==
    [i \in 1 .. (arrived - Count("message", l)) |-> Message(Count("message", l) + i)]

(* With a bug: CheckNonce refuses future nonces and no stale ones.          *)
AppliesStale(l, n) == n <= Count("call", l)

(* TxExtension: CheckNonce takes the account's next nonce and no other.     *)
Applies(l, n) == n = Count("call", l)

(* What a proposer can make of the calls in the pool: one after the other,  *)
(* each applied to what precedes it.                                        *)
Bodies(l) ==
    LET start == Inherents(l)
        body(nonces) == start \o [i \in DOMAIN nonces |-> Call(nonces[i])]
    IN  {body(nonces) : nonces \in
            {s \in BoundedSeq(0 .. MaxCalls - 1, MaxCallsPerBlock) :
                \A i \in DOMAIN s : Applies(l \o body(SubSeq(s, 1, i - 1)), s[i])}}

(* With a bug: the block to be built is not counted.                        *)
CanBuildUponOneMore(b) == Len(b) - Len(head) <= SegmentCapacity

(* FixedVelocityConsensusHook: the segment after the included block has     *)
(* room.  Its limit of blocks per relay slot only sets the pace.            *)
CanBuildUpon(b) == Len(b) - Len(head) < SegmentCapacity

(* The collator builds on the deepest block it knows above the pending one, *)
(* or above the included one if nothing is pending.                         *)
Base == IF pending # NoBlock THEN pending ELSE head

Parents ==
    LET above == {b \in blocks \cup {head} : IsPrefix(Base, b)}
    IN  {b \in above : \A other \in above : Len(other) <= Len(b)}

Authoring == "aura" \in Alive

Author ==
    /\ holding = NoBlock
    /\ Authoring
    /\ \E parent \in Parents :
          /\ CanBuildUpon(parent)
          /\ \E body \in Bodies(LogOf(parent)) : holding' = Append(parent, body)
    /\ blocks' = blocks \cup {holding'}
    /\ UNCHANGED <<nodeVars, log, arrived, offered, head, pending, reorgs>>

Submit ==
    /\ holding # NoBlock
    /\ Authoring
    /\ offered' = offered \cup {holding}
    /\ holding' = NoBlock
    /\ UNCHANGED <<nodeVars, log, arrived, blocks, head, pending, reorgs>>

-----------------------------------------------------------------------------
(* The relay chain *)

(* validate_block executes the candidate on its parent, the included block. *)
Back(b) ==
    /\ pending = NoBlock
    /\ b # <<>> /\ Front(b) = head
    /\ pending' = b
    /\ UNCHANGED <<nodeVars, log, arrived, blocks, holding, offered, head, reorgs>>

Include ==
    /\ pending # NoBlock
    /\ Len(pending) <= FinalityLag
    /\ head' = pending
    /\ pending' = NoBlock
    /\ UNCHANGED <<nodeVars, log, arrived, blocks, holding, offered, reorgs>>

(* The block is not available in time.                                      *)
TimeOut ==
    /\ pending # NoBlock
    /\ pending' = NoBlock
    /\ UNCHANGED <<nodeVars, log, arrived, blocks, holding, offered, head, reorgs>>

Finalize ==
    LET rest(b)   == SubSeq(b, Len(head) + 1, Len(b))
        above(S)  == {rest(b) : b \in {c \in S : IsStrictPrefix(head, c)}}
    IN  /\ head # <<>>
        /\ log' = LogOf(head)
        /\ head' = <<>>
        /\ blocks' = above(blocks)
        /\ offered' = above(offered)
        /\ pending' = rest(pending)
        /\ holding' = IF holding # NoBlock /\ IsPrefix(head, holding)
                       THEN rest(holding) ELSE NoBlock
        /\ UNCHANGED <<nodeVars, arrived, reorgs>>

(* The best chain of the relay chain goes back, at most to the last         *)
(* finalized block.                                                         *)
Reorg ==
    /\ head # <<>>
    /\ reorgs < MaxReorgs
    /\ reorgs' = reorgs + 1
    /\ \E n \in 0 .. Len(head) - 1 : head' = SubSeq(head, 1, n)
    /\ pending' = NoBlock
    /\ UNCHANGED <<nodeVars, log, arrived, blocks, holding, offered>>

(* With a bug: the collator gives up only blocks that it has offered, so    *)
(* that what a crash keeps it from offering stays the block it builds on.   *)
ExpirableOffered(b) ==
    /\ b \in offered
    /\ ~IsPrefix(b, head) /\ ~IsPrefix(b, pending) /\ b # holding
    /\ IsPrefix(Front(b), head) \/ Front(b) = pending

(* Relay parents grow along a chain, so no block expires before its parent, *)
(* and the one just authored has the newest.                                *)
Expirable(b) ==
    /\ ~IsPrefix(b, head) /\ ~IsPrefix(b, pending) /\ b # holding
    /\ IsPrefix(Front(b), head) \/ Front(b) = pending

(* The relay parent of a block is too old: neither is the block backed nor  *)
(* does the collator build upon it.                                         *)
Expire(b) ==
    LET keep(S) == {c \in S : ~IsPrefix(b, c)}
    IN  /\ Expirable(b)
        /\ blocks' = keep(blocks)
        /\ offered' = keep(offered)
        /\ holding' = IF IsPrefix(b, holding) THEN NoBlock ELSE holding
        /\ UNCHANGED <<nodeVars, log, arrived, head, pending, reorgs>>

Arrive ==
    /\ arrived < MaxMessages
    /\ arrived' = arrived + 1
    /\ UNCHANGED <<nodeVars, log, blocks, holding, offered, head, pending, reorgs>>

BackSome   == \E b \in offered : Back(b)
ExpireSome == \E b \in blocks : Expire(b)

(* What the authoring task holds in memory ends with it.                    *)
Node(action) ==
    /\ action
    /\ holding' = IF Authoring' THEN holding ELSE NoBlock
    /\ UNCHANGED <<log, arrived, blocks, offered, head, pending, reorgs>>

Next ==
    \/ Node(NodeNext)
    \/ Author \/ Submit
    \/ BackSome \/ Include \/ TimeOut \/ Finalize \/ Reorg \/ ExpireSome \/ Arrive

Spec == Init /\ [][Next]_vars

(* The futures of a start complete, the loops of the collator run, and the  *)
(* relay chain backs and includes what it is offered time and again.        *)
Fairness ==
    /\ WF_vars(Node(StepDone)) /\ WF_vars(Node(Started)) /\ WF_vars(Node(EssentialNoticed))
    /\ WF_vars(Author) /\ WF_vars(Submit)
    /\ SF_vars(BackSome) /\ SF_vars(Include)
    /\ WF_vars(Finalize) /\ WF_vars(ExpireSome)

FairSpec == Spec /\ Fairness

-----------------------------------------------------------------------------
(* The database is a tree above the last finalized block that holds the     *)
(* included, the pending and every candidate block, and it is no deeper     *)
(* than finality may lag and the unincluded segment may reach.              *)
TypeOK ==
    /\ config \in Configs /\ phase \in {"starting", "running", "ended", "panicked"}
    /\ done \in 0 .. Len(Plan[config]) /\ restarts \in 0 .. MaxRestarts
    /\ dead \subseteq Spawned /\ Cardinality(dead) <= MaxEnds
    /\ arrived \in 0 .. MaxMessages /\ reorgs \in 0 .. MaxReorgs
    /\ <<>> \notin blocks /\ offered \subseteq blocks
    /\ {holding, head, pending} \subseteq blocks \cup {<<>>}
    /\ \A b \in blocks :
          /\ Len(b) <= FinalityLag + SegmentCapacity
          /\ Front(b) \in blocks \cup {<<>>}

(* Blocks that are built ahead, lost in a crash, given up, backed again or  *)
(* undone by the relay chain never show: the finalized chain has each       *)
(* message and each signed call once and in order, and never goes back.     *)
LinearSpec == Linear!Spec

(* "Command line arguments do not allow this" (service.rs:404): consensus   *)
(* is never started without a collator key.                                 *)
NoPanic == phase # "panicked"

(* A collator holds no block of its own before everything it needs to learn *)
(* of its inclusion and to import other blocks has been started.            *)
AuthorsWhole ==
    holding # NoBlock =>
        {"transactionPool", "importQueue", "relayChain", "followRelayChain"} \subseteq Spawned

(* A node does not go on without one of the tasks it cannot work without,   *)
(* whether the task ends during the start or after it.                      *)
Vital == {"transactionPool", "importQueue", "relayChain", "followRelayChain", "aura"}

FailureEndsNode == IsNode /\ dead \cap Vital # {} ~> Over

(* While a collator stays up, every message of the relay chain gets into a  *)
(* finalized block, whatever blocks an earlier crash or reorganisation has  *)
(* left behind in its database.                                             *)
Collates == IsNode /\ Authority(config) /\ phase = "running"

MessagesTaken ==
    \A i \in 1 .. MaxMessages :
        arrived >= i ~> Count("message", log) >= i \/ ~Collates
=============================================================================
