------------------------------ MODULE MCLibPLA ------------------------------
(***************************************************************************)
(* libpla as a whole: its protocol, and its arithmetic.  The arithmetic    *)
(* keeps no state, so it is enough to call it before anything else.        *)
(***************************************************************************)
EXTENDS MCEllipticCurve, MCPLA

MCInit == Init /\ NoCall
MCNext ==
  \/ Next /\ NoCall /\ UNCHANGED call
  \/ Init /\ bound = (CHOOSE one \in Bounds : TRUE) /\ Calls /\ UNCHANGED vars
MCSpec == MCInit /\ [][MCNext]_<<vars, call>>
============================================================================
