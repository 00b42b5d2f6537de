--------------------------- MODULE MCXcmExecution ---------------------------
(* Every message of up to four instructions, from the relay chain, from    *)
(* two siblings and of two local accounts.  The sovereign account of one    *)
(* sibling and one local account have funds.                                *)
EXTENDS XcmExecution

CONSTANTS alice, bob

MCKeys   == {alice, bob}
MCFunded == {<<"sibl", 1000>>, <<"parent">>, <<"key", alice>>}
=============================================================================
