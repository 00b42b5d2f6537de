----------------------------- MODULE HrmpChannel ----------------------------
(***************************************************************************)
(* The one-way channel from the University (para 1000) to the Company      *)
(* (para 2000): the sender's XcmpQueue packs messages into pages, a block  *)
(* of the sender puts a page on the relay chain while the HRMP channel has *)
(* room, a block of the receiver takes the pages into its message queue,   *)
(* which hands the messages one by one to the XCM executor.  Those pallets *)
(* are external; the runtime configures them (configs/mod.rs:202-261) and  *)
(* setup-channels.sh opens the channel, with a capacity of one message.    *)
(***************************************************************************)
EXTENDS Integers, SequencesExt

CONSTANTS
    Messages,       \* the messages the senders may send
    PageRoom,       \* messages that fit in a page of MaxPageSize bytes
    HrmpCapacity,   \* messages, that is pages, the relay chain holds
    MaxInFlight     \* bound: messages under way at the same time

ASSUME ChannelAssumption ==
    PageRoom \in Nat \ {0} /\ HrmpCapacity \in Nat \ {0} /\ MaxInFlight \in Nat

VARIABLES
    established,    \* whether the sender sees an egress channel
    pages,          \* XcmpQueue of the sender: the outbound pages
    relay,          \* HRMP messages on the relay chain, or in unincluded blocks
    inbox           \* MessageQueue of the receiver

channelVars == <<established, pages, relay, inbox>>

ChannelInit ==
    /\ established = FALSE
    /\ pages = <<>>
    /\ relay = <<>>
    /\ inbox = <<>>

(* forceOpenHrmpChannel, by sudo on the relay chain, takes effect.          *)
Establish ==
    /\ ~established
    /\ established' = TRUE
    /\ UNCHANGED <<pages, relay, inbox>>

(* send_xcm: NoChannel is its only error here, a student fits in a page.    *)
CanSend == established

(* With a bug: a page takes whatever is sent before it leaves.              *)
PackedFull(m) ==
    IF pages # <<>> THEN [pages EXCEPT ![Len(pages)] = Append(@, m)]
    ELSE Append(pages, <<m>>)

Packed(m) ==
    IF pages # <<>> /\ Len(Last(pages)) < PageRoom
    THEN [pages EXCEPT ![Len(pages)] = Append(@, m)]
    ELSE Append(pages, <<m>>)

Send(m) ==
    /\ CanSend
    /\ pages' = Packed(m)
    /\ UNCHANGED <<established, relay, inbox>>

(* With a bug: the channel counts as full one message too early.            *)
TakePageEarlyFull ==
    /\ established
    /\ pages # <<>>
    /\ Len(relay) < HrmpCapacity - 1
    /\ relay' = Append(relay, Head(pages))
    /\ pages' = Tail(pages)
    /\ UNCHANGED <<established, inbox>>

(* The end of a sender's block: one page per channel, if it has room.       *)
TakePage ==
    /\ established
    /\ pages # <<>>
    /\ Len(relay) < HrmpCapacity
    /\ relay' = Append(relay, Head(pages))
    /\ pages' = Tail(pages)
    /\ UNCHANGED <<established, inbox>>

(* With a bug: what arrives overtakes what has not been serviced.           *)
EnqueueFirst ==
    /\ relay # <<>>
    /\ inbox' = Head(relay) \o inbox
    /\ relay' = Tail(relay)
    /\ UNCHANGED <<established, pages>>

(* The parachain inherent of a receiver's block enqueues a page.            *)
Enqueue ==
    /\ relay # <<>>
    /\ inbox' = inbox \o Head(relay)
    /\ relay' = Tail(relay)
    /\ UNCHANGED <<established, pages>>

(* on_initialize of the message queue services the oldest message.  It is   *)
(* consumed whatever comes of its execution.                                *)
Service ==
    /\ inbox # <<>>
    /\ inbox' = Tail(inbox)
    /\ UNCHANGED <<established, pages, relay>>

(* All the messages on their way, the oldest first.                         *)
InFlight == inbox \o FlattenSeq(relay) \o FlattenSeq(pages)

Init == ChannelInit

Next ==
    \/ Establish
    \/ Len(InFlight) < MaxInFlight /\ \E m \in Messages : Send(m)
    \/ TakePage
    \/ Enqueue
    \/ Service

Spec == Init /\ [][Next]_channelVars

(* Both parachains and the relay chain keep producing blocks.               *)
Fairness ==
    WF_channelVars(TakePage) /\ WF_channelVars(Enqueue) /\ WF_channelVars(Service)

FairSpec == Spec /\ Fairness

-----------------------------------------------------------------------------
(* The pages hold at least one and at most PageRoom messages, the relay     *)
(* chain holds what the channel's capacity allows, and nothing is under way *)
(* before the channel is established.                                       *)
ChannelTypeOK ==
    /\ established \in BOOLEAN
    /\ inbox \in Seq(Messages)
    /\ Len(relay) <= HrmpCapacity
    /\ \A page \in ToSet(pages) \cup ToSet(relay) :
          page \in Seq(Messages) /\ Len(page) \in 1 .. PageRoom
    /\ ~established => InFlight = <<>>

(* The two queues, the pages and the capacity in between amount to one FIFO *)
(* queue: no message is lost, repeated or overtaken on the way from one     *)
(* page to the next, and each is handed over in the end.                    *)
Fifo == INSTANCE FifoChannel WITH queue <- InFlight

FifoSpec == Fifo!FairSpec
=============================================================================
