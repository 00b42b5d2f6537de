----------------------------- MODULE MCTransfer -----------------------------
(* Transfer on small constants: two users and the sovereign account.  One   *)
(* profile is enough: the long ones and the changes are StudentPallet's.    *)
EXTENDS Transfer

CONSTANTS alice, bob, ada

MCUsers     == {alice, bob}
MCAccounts  == {alice, bob, Sovereign}
MCProfiles  == {ada}
MCTags      == 1 .. MaxEnrolments
MCSymmetry  == Permutations(MCUsers)
=============================================================================
