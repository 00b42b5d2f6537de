----------------------------- MODULE MCFrontend -----------------------------
(* Frontend on small constants.                                             *)
EXTENDS Frontend

CONSTANT ada

MCAccounts == {Alice, Others, Sovereign}
MCProfiles == {ada}
MCTags     == 1 .. MaxEnrolments
=============================================================================
