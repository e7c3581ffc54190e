-------------------------- MODULE MCNB_Blackadder --------------------------
(* Small instances of NB_Blackadder for TLC. *)
EXTENDS NB_Blackadder

CONSTANTS t1, cb

MCOneThread == {t1}
MCTwoThreads == {t1, cb}

=============================================================================
