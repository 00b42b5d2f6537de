----------------------------- MODULE FifoChannel ----------------------------
(***************************************************************************)
(* What a channel between two parachains promises to its ends: every       *)
(* message that was accepted is handed over once, in the order in which    *)
(* the messages were accepted.                                             *)
(***************************************************************************)
EXTENDS Sequences

CONSTANT Messages

VARIABLE queue  \* the messages accepted and not yet handed over

Init == queue = <<>>

Put(m) == queue' = Append(queue, m)

Get(m) == queue # <<>> /\ m = Head(queue) /\ queue' = Tail(queue)

Next == \E m \in Messages : Put(m) \/ Get(m)

Spec == Init /\ [][Next]_queue

(* What has been accepted is handed over in the end.                        *)
FairSpec == Spec /\ WF_queue(\E m \in Messages : Get(m))
=============================================================================
