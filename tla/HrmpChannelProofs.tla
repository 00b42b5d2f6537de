-------------------------- MODULE HrmpChannelProofs -------------------------
(***************************************************************************)
(* The channel, for every set of messages, page size and capacity: its     *)
(* queues have their types, and the two queues, the pages and the slots of *)
(* the relay chain together behave as one FIFO queue.                      *)
(***************************************************************************)
EXTENDS HrmpChannel, SequenceProofs

(* The queues, as far as order is concerned.                                *)
Queues ==
    /\ inbox \in Seq(Messages)
    /\ relay \in Seq(Seq(Messages))
    /\ pages \in Seq(Seq(Messages))

LEMMA FlightParts ==
    ASSUME Queues
    PROVE  /\ FlattenSeq(relay) \in Seq(Messages)
           /\ FlattenSeq(pages) \in Seq(Messages)
           /\ InFlight \in Seq(Messages)
<1>1. FlattenSeq(relay) \in Seq(Messages) /\ FlattenSeq(pages) \in Seq(Messages)
  BY FlattenType DEF Queues
<1> DEFINE r == FlattenSeq(relay)
           p == FlattenSeq(pages)
<1>2. inbox \o r \o p \in Seq(Messages)
  <2> HIDE DEF r, p
  <2> QED
    BY <1>1 DEF Queues, r, p
<1> QED
  BY <1>1, <1>2 DEF InFlight

(* XcmpQueue puts a message behind all the others, on the last page or on a *)
(* new one.                                                                 *)
LEMMA PackedAtEnd ==
    ASSUME pages \in Seq(Seq(Messages)), NEW m \in Messages
    PROVE  /\ Packed(m) \in Seq(Seq(Messages))
           /\ FlattenSeq(Packed(m)) = Append(FlattenSeq(pages), m)
<1>1. CASE pages # <<>> /\ Len(Last(pages)) < PageRoom
  <2>1. Packed(m) = [pages EXCEPT ![Len(pages)] = Append(@, m)]
    BY <1>1 DEF Packed
  <2> QED
    BY <1>1, <2>1, FlattenExtend
<1>2. CASE ~(pages # <<>> /\ Len(Last(pages)) < PageRoom)
  <2>1. Packed(m) = Append(pages, <<m>>)
    BY <1>2 DEF Packed
  <2>2. <<m>> \in Seq(Messages) /\ Append(pages, <<m>>) \in Seq(Seq(Messages))
    OBVIOUS
  <2>3. FlattenSeq(Append(pages, <<m>>)) = FlattenSeq(pages) \o <<m>>
    BY <2>2, FlattenAppend
  <2>4. FlattenSeq(pages) \o <<m>> = Append(FlattenSeq(pages), m)
    <3>1. FlattenSeq(pages) \in Seq(Messages)
      BY FlattenType
    <3> DEFINE p == FlattenSeq(pages)
    <3> HIDE DEF p
    <3>2. p \in Seq(Messages) => p \o <<m>> = Append(p, m)
      OBVIOUS
    <3> QED
      BY <3>1, <3>2 DEF p
  <2> QED
    BY <2>1, <2>2, <2>3, <2>4
<1> QED
  BY <1>1, <1>2

LEMMA SendAppends ==
    ASSUME Queues, NEW m \in Messages, Send(m)
    PROVE  Queues' /\ InFlight' = Append(InFlight, m)
<1>1. /\ pages' = Packed(m) /\ relay' = relay /\ inbox' = inbox
  BY DEF Send
<1>2. /\ Packed(m) \in Seq(Seq(Messages))
      /\ FlattenSeq(Packed(m)) = Append(FlattenSeq(pages), m)
  BY PackedAtEnd DEF Queues
<1> DEFINE r == FlattenSeq(relay)
           p == FlattenSeq(pages)
           i == inbox
<1>3. InFlight = i \o r \o p /\ InFlight' = i \o r \o Append(p, m)
  BY <1>1, <1>2 DEF InFlight
<1>4. i \in Seq(Messages) /\ r \in Seq(Messages) /\ p \in Seq(Messages)
  BY FlightParts DEF Queues
<1> HIDE DEF r, p, i
<1>5. i \o r \o Append(p, m) = Append(i \o r \o p, m)
  BY <1>4
<1> QED
  BY <1>1, <1>2, <1>3, <1>5 DEF Queues

LEMMA TakePageKeeps ==
    ASSUME Queues, TakePage
    PROVE  Queues' /\ InFlight' = InFlight
<1>1. /\ pages # <<>> /\ pages' = Tail(pages)
      /\ relay' = Append(relay, Head(pages)) /\ inbox' = inbox
  BY DEF TakePage
<1>2. Head(pages) \in Seq(Messages) /\ Tail(pages) \in Seq(Seq(Messages))
  BY <1>1 DEF Queues
<1>3. relay' \in Seq(Seq(Messages))
  BY <1>1, <1>2 DEF Queues
<1>4. FlattenSeq(pages) = Head(pages) \o FlattenSeq(Tail(pages))
  BY <1>1, FlattenHead DEF Queues
<1>5. FlattenSeq(Append(relay, Head(pages))) = FlattenSeq(relay) \o Head(pages)
  BY <1>2, FlattenAppend DEF Queues
<1> DEFINE i == inbox
           r == FlattenSeq(relay)
           h == Head(pages)
           t == FlattenSeq(Tail(pages))
<1>6. InFlight = i \o r \o (h \o t) /\ InFlight' = i \o (r \o h) \o t
  BY <1>1, <1>4, <1>5 DEF InFlight
<1>7. i \in Seq(Messages) /\ r \in Seq(Messages) /\ h \in Seq(Messages) /\ t \in Seq(Messages)
  BY <1>2, FlattenType DEF Queues
<1> HIDE DEF i, r, h, t
<1>8. i \o r \o (h \o t) = i \o (r \o h) \o t
  BY <1>7
<1> QED
  BY <1>1, <1>2, <1>3, <1>6, <1>8 DEF Queues

LEMMA EnqueueKeeps ==
    ASSUME Queues, Enqueue
    PROVE  Queues' /\ InFlight' = InFlight
<1>1. /\ relay # <<>> /\ relay' = Tail(relay)
      /\ inbox' = inbox \o Head(relay) /\ pages' = pages
  BY DEF Enqueue
<1>2. Head(relay) \in Seq(Messages) /\ Tail(relay) \in Seq(Seq(Messages))
  BY <1>1 DEF Queues
<1>3. FlattenSeq(relay) = Head(relay) \o FlattenSeq(Tail(relay))
  BY <1>1, FlattenHead DEF Queues
<1> DEFINE i == inbox
           h == Head(relay)
           t == FlattenSeq(Tail(relay))
           p == FlattenSeq(pages)
<1>4. InFlight = i \o (h \o t) \o p /\ InFlight' = (i \o h) \o t \o p
  BY <1>1, <1>3 DEF InFlight
<1>5. i \in Seq(Messages) /\ h \in Seq(Messages) /\ t \in Seq(Messages) /\ p \in Seq(Messages)
  BY <1>2, FlattenType DEF Queues
<1>6. inbox' \in Seq(Messages)
  <2> HIDE DEF i, h
  <2> QED
    BY <1>1, <1>5 DEF i, h
<1> HIDE DEF i, h, t, p
<1>7. i \o (h \o t) \o p = (i \o h) \o t \o p
  BY <1>5
<1> QED
  BY <1>1, <1>2, <1>4, <1>6, <1>7 DEF Queues

LEMMA ServiceTakes ==
    ASSUME Queues, Service
    PROVE  /\ Queues'
           /\ InFlight # <<>>
           /\ Head(inbox) = Head(InFlight) /\ Head(inbox) \in Messages
           /\ InFlight' = Tail(InFlight)
<1>1. /\ inbox # <<>> /\ inbox' = Tail(inbox)
      /\ relay' = relay /\ pages' = pages
  BY DEF Service
<1> DEFINE i == inbox
           r == FlattenSeq(relay)
           p == FlattenSeq(pages)
<1>2. InFlight = i \o r \o p /\ InFlight' = Tail(i) \o r \o p
  BY <1>1 DEF InFlight
<1>3. i \in Seq(Messages) /\ r \in Seq(Messages) /\ p \in Seq(Messages) /\ i # <<>>
  BY <1>1, FlightParts DEF Queues
<1>4. Queues'
  BY <1>1 DEF Queues
<1> HIDE DEF i, r, p
<1>5. /\ i \o r \o p # <<>>
      /\ Head(i \o r \o p) = Head(i) /\ Head(i) \in Messages
  BY <1>3
<1>6. Tail(i \o r \o p) = Tail(i) \o r \o p
  BY <1>3
<1> QED
  BY <1>2, <1>4, <1>5, <1>6 DEF i

-----------------------------------------------------------------------------
(* Type correctness *)

Page == {page \in Seq(Messages) : Len(page) \in 1 .. PageRoom}

(* Its strengthening: pages stay pages when they move, and none of the      *)
(* queues is filled before the channel is established.                      *)
ChannelInv ==
    /\ established \in BOOLEAN
    /\ inbox \in Seq(Messages)
    /\ relay \in Seq(Page) /\ Len(relay) <= HrmpCapacity
    /\ pages \in Seq(Page)
    /\ ~established => inbox = <<>> /\ relay = <<>> /\ pages = <<>>

LEMMA PagesAreSequences ==
    ASSUME NEW s \in Seq(Page)
    PROVE  s \in Seq(Seq(Messages))
  BY SeqMonotonic DEF Page

LEMMA InvQueues == ChannelInv => Queues
  BY PagesAreSequences DEF ChannelInv, Queues

(* A page is never packed beyond its room, and none is empty.               *)
LEMMA PackedPages ==
    ASSUME pages \in Seq(Page), NEW m \in Messages
    PROVE  Packed(m) \in Seq(Page)
<1>1. CASE pages # <<>> /\ Len(Last(pages)) < PageRoom
  <2> DEFINE n    == Len(pages)
             full == Append(Last(pages), m)
  <2>1. n \in 1 .. Len(pages) /\ Last(pages) = pages[n] /\ Last(pages) \in Page
    BY <1>1 DEF Last
  <2>2. full \in Page
    <3>1. Last(pages) \in Seq(Messages) /\ Len(Last(pages)) \in Nat
      BY <2>1 DEF Page
    <3>2. full \in Seq(Messages) /\ Len(full) = Len(Last(pages)) + 1
      BY <3>1
    <3> QED
      BY <1>1, <3>1, <3>2, ChannelAssumption DEF Page
  <2>3. Packed(m) = [pages EXCEPT ![n] = full]
    BY <1>1, <2>1 DEF Packed
  <2> HIDE DEF n, full
  <2> QED
    BY <2>1, <2>2, <2>3, ExceptSeq
<1>2. CASE ~(pages # <<>> /\ Len(Last(pages)) < PageRoom)
  <2>1. Packed(m) = Append(pages, <<m>>)
    BY <1>2 DEF Packed
  <2>2. <<m>> \in Page
    <3>1. <<m>> \in Seq(Messages) /\ Len(<<m>>) = 1
      OBVIOUS
    <3> QED
      BY <3>1, ChannelAssumption DEF Page
  <2> QED
    BY <2>1, <2>2
<1> QED
  BY <1>1, <1>2

LEMMA InvInit == Init => ChannelInv
<1>1. <<>> \in Seq(Messages) /\ <<>> \in Seq(Page) /\ Len(<<>>) <= HrmpCapacity
  BY ChannelAssumption
<1> QED
  BY <1>1 DEF Init, ChannelInit, ChannelInv

LEMMA InvStep == ChannelInv /\ [Next]_channelVars => ChannelInv'
<1> SUFFICES ASSUME ChannelInv, [Next]_channelVars PROVE ChannelInv'
  OBVIOUS
<1>0. Queues
  BY InvQueues
<1>1. CASE Establish
  BY <1>1 DEF Establish, ChannelInv
<1>2. ASSUME NEW m \in Messages, Send(m) PROVE ChannelInv'
  BY <1>2, PackedPages DEF Send, CanSend, ChannelInv
<1>3. CASE TakePage
  <2>1. /\ pages # <<>> /\ pages' = Tail(pages) /\ Len(relay) < HrmpCapacity
        /\ relay' = Append(relay, Head(pages)) /\ established
        /\ UNCHANGED <<established, inbox>>
    BY <1>3 DEF TakePage
  <2>2. Head(pages) \in Page /\ Tail(pages) \in Seq(Page)
    BY <2>1 DEF ChannelInv
  <2>3. relay' \in Seq(Page) /\ Len(relay') = Len(relay) + 1 /\ Len(relay) \in Nat
    BY <2>1, <2>2 DEF ChannelInv
  <2> QED
    BY <2>1, <2>2, <2>3, ChannelAssumption DEF ChannelInv
<1>4. CASE Enqueue
  <2>1. relay # <<>> /\ relay' = Tail(relay) /\ UNCHANGED <<established, pages>>
    BY <1>4 DEF Enqueue
  <2>2. inbox' \in Seq(Messages)
    BY <1>0, <1>4, EnqueueKeeps DEF Queues
  <2>3. Tail(relay) \in Seq(Page) /\ Len(Tail(relay)) = Len(relay) - 1 /\ Len(relay) \in Nat
    BY <2>1 DEF ChannelInv
  <2>4. established
    BY <2>1 DEF ChannelInv
  <2> QED
    BY <2>1, <2>2, <2>3, <2>4, ChannelAssumption DEF ChannelInv
<1>5. CASE Service
  <2>1. inbox # <<>> /\ inbox' = Tail(inbox) /\ UNCHANGED <<established, pages, relay>>
    BY <1>5 DEF Service
  <2>2. Tail(inbox) \in Seq(Messages) /\ established
    BY <2>1 DEF ChannelInv
  <2> QED
    BY <2>1, <2>2 DEF ChannelInv
<1>6. CASE UNCHANGED channelVars
  BY <1>6 DEF channelVars, ChannelInv
<1> QED
  BY <1>1, <1>2, <1>3, <1>4, <1>5, <1>6 DEF Next

LEMMA InvMeansTyped == ChannelInv => ChannelTypeOK
<1> SUFFICES ASSUME ChannelInv PROVE ChannelTypeOK
  OBVIOUS
<1>1. ASSUME NEW page \in ToSet(pages) \cup ToSet(relay)
      PROVE  page \in Seq(Messages) /\ Len(page) \in 1 .. PageRoom
  <2>1. page \in Page
    BY DEF ToSet, ChannelInv
  <2> QED
    BY <2>1 DEF Page
<1>2. ~established => InFlight = <<>>
  BY FlattenEmpty DEF ChannelInv, InFlight
<1> QED
  BY <1>1, <1>2 DEF ChannelInv, ChannelTypeOK

LEMMA ChannelInvariance == Spec => []ChannelInv
<1>1. Init => ChannelInv
  BY InvInit
<1>2. ChannelInv /\ [Next]_channelVars => ChannelInv'
  BY InvStep
<1> QED
  BY <1>1, <1>2, PTL DEF Spec

(* Pages hold between one and PageRoom messages wherever they are, the      *)
(* relay chain never holds more than the capacity, and nothing is under way *)
(* before the channel is established (XcmpQueue as configured in            *)
(* configs/mod.rs:202-261, setup-channels.sh).                              *)
THEOREM ChannelTypeCorrect == Spec => []ChannelTypeOK
<1>1. ChannelInv => ChannelTypeOK
  BY InvMeansTyped
<1> QED
  BY <1>1, ChannelInvariance, PTL

-----------------------------------------------------------------------------
(* The channel implements a FIFO queue *)

LEMMA FifoInit == Init => Fifo!Init
  BY FlattenEmpty DEF Init, ChannelInit, Fifo!Init, InFlight

(* A send puts, a service gets, and the steps in between are not seen.      *)
LEMMA FifoStep == ChannelInv /\ [Next]_channelVars => [Fifo!Next]_InFlight
<1> SUFFICES ASSUME ChannelInv, [Next]_channelVars
             PROVE  Fifo!Next \/ InFlight' = InFlight
  OBVIOUS
<1>0. Queues
  BY InvQueues
<1>1. CASE Establish
  BY <1>1 DEF Establish, InFlight
<1>2. ASSUME NEW m \in Messages, Send(m) PROVE Fifo!Next
  <2>1. InFlight' = Append(InFlight, m)
    BY <1>0, <1>2, SendAppends
  <2> QED
    BY <2>1 DEF Fifo!Next, Fifo!Put
<1>3. CASE TakePage
  BY <1>0, <1>3, TakePageKeeps
<1>4. CASE Enqueue
  BY <1>0, <1>4, EnqueueKeeps
<1>5. CASE Service
  <2>1. /\ InFlight # <<>> /\ Head(inbox) = Head(InFlight) /\ Head(inbox) \in Messages
        /\ InFlight' = Tail(InFlight)
    BY <1>0, <1>5, ServiceTakes
  <2>2. Fifo!Get(Head(inbox))
    BY <2>1 DEF Fifo!Get
  <2> QED
    BY <2>1, <2>2 DEF Fifo!Next
<1>6. CASE UNCHANGED channelVars
  BY <1>6 DEF channelVars, InFlight
<1> QED
  BY <1>1, <1>2, <1>3, <1>4, <1>5, <1>6 DEF Next

(* Whatever the sizes of pages and of the capacity, the queue of the        *)
(* sender, the relay chain and the queue of the receiver together lose,     *)
(* repeat and reorder no message: the safety part of FifoSpec.              *)
THEOREM ChannelIsFifo == Spec => Fifo!Spec
<1>1. Init => Fifo!Init
  BY FifoInit
<1>2. ChannelInv /\ [Next]_channelVars => [Fifo!Next]_InFlight
  BY FifoStep
<1> QED
  BY <1>1, <1>2, ChannelInvariance, PTL DEF Spec, Fifo!Spec
=============================================================================
