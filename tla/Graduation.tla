----------------------------- MODULE Graduation -----------------------------
(***************************************************************************)
(* What the two chains together make of a student's life, without storage, *)
(* ids, pages or calls.  A student is enrolled once, on one of the chains, *)
(* for an owner who never changes.  From the University a student may      *)
(* travel to the Company, in the order of departure; a student who arrives *)
(* where the owner has no place left is lost.  Nobody travels back, nobody *)
(* is in two places, and nobody comes back once removed.                   *)
(***************************************************************************)
EXTENDS Integers, Sequences, FiniteSets

CONSTANTS Tags, Accounts, MaxStudentsPerOwner, NoOwner

VARIABLES
    where,      \* student -> "unborn", a chain, "travelling", "removed", "lost"
    ownerOf,    \* student -> account, NoOwner before the enrolment
    travellers  \* the students between the chains, the first to leave first

lifeVars == <<where, ownerOf, travellers>>

Chains == {"university", "company"}

Init ==
    /\ where = [t \in Tags |-> "unborn"]
    /\ ownerOf = [t \in Tags |-> NoOwner]
    /\ travellers = <<>>

Owned(chain, a) == {t \in Tags : where[t] = chain /\ ownerOf[t] = a}

HasPlace(chain, a) == Cardinality(Owned(chain, a)) < MaxStudentsPerOwner

Enrolled(t, chain, a) ==
    /\ where[t] = "unborn"
    /\ HasPlace(chain, a)
    /\ where' = [where EXCEPT ![t] = chain]
    /\ ownerOf' = [ownerOf EXCEPT ![t] = a]
    /\ UNCHANGED travellers

Depart(t) ==
    /\ where[t] = "university"
    /\ where' = [where EXCEPT ![t] = "travelling"]
    /\ travellers' = Append(travellers, t)
    /\ UNCHANGED ownerOf

Arrive ==
    /\ travellers # <<>>
    /\ where' = [where EXCEPT ![Head(travellers)] =
           IF HasPlace("company", ownerOf[Head(travellers)]) THEN "company" ELSE "lost"]
    /\ travellers' = Tail(travellers)
    /\ UNCHANGED ownerOf

Remove(t) ==
    /\ where[t] \in Chains
    /\ where' = [where EXCEPT ![t] = "removed"]
    /\ UNCHANGED <<ownerOf, travellers>>

Next ==
    \/ \E t \in Tags, chain \in Chains, a \in Accounts : Enrolled(t, chain, a)
    \/ \E t \in Tags : Depart(t) \/ Remove(t)
    \/ Arrive

Spec == Init /\ [][Next]_lifeVars
=============================================================================
