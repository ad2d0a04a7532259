---------------------------- MODULE MCRdmaSweep -----------------------------
(* Three readers with two blocks each: creating them can fail at each of     *)
(* them, with the earlier ones anywhere between their first step and exit.   *)
EXTENDS RdmaSweep
=============================================================================
