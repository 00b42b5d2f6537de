---------------------------- MODULE LinearChain ----------------------------
(***************************************************************************)
(* What a parachain promises to those who use it: one log that only grows, *)
(* which has every message of the relay chain once and in order, and every *)
(* signed call once and in the order of its account's nonces.  The other   *)
(* modules take the two chains to be like this.                            *)
(***************************************************************************)
EXTENDS Integers, FiniteSets, SequencesExt

VARIABLES
    log,        \* what the chain has executed: messages and signed calls
    arrived     \* messages that the relay chain has for it so far

Message(i) == [kind |-> "message", at |-> i]
Call(n)    == [kind |-> "call", at |-> n]

(* The places of a log that hold items of a kind.                           *)
Of(kind, l) == {i \in DOMAIN l : l[i].kind = kind}

Before(kind, l, i) == {j \in Of(kind, l) : j < i}

InOrder(kind, l, first) ==
    \A i \in Of(kind, l) : l[i].at = first + Cardinality(Before(kind, l, i))

(* Messages count from 1, nonces from 0.                                    *)
Legal(l, n) ==
    /\ InOrder("message", l, 1) /\ Cardinality(Of("message", l)) <= n
    /\ InOrder("call", l, 0)

Init == log = <<>> /\ arrived = 0

Arrive == arrived' = arrived + 1 /\ UNCHANGED log

Grow == IsPrefix(log, log') /\ Legal(log', arrived) /\ UNCHANGED arrived

Spec == Init /\ [][Arrive \/ Grow]_<<log, arrived>>
=============================================================================
