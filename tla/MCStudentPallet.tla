--------------------------- MODULE MCStudentPallet --------------------------
(* StudentPallet on small constants.  The two long profiles stand for a     *)
(* name and a surname beyond their limits; the two good ones let an update  *)
(* make a difference.                                                       *)
EXTENDS StudentPallet

CONSTANTS a1, a2, ada, bob, longName, longSurname

MCAccounts     == {a1, a2}
MCProfiles     == {ada, bob, longName, longSurname}
MCLongNames    == {longName}
MCLongSurnames == {longSurname}
MCTags         == 1 .. MaxEnrolments
=============================================================================
