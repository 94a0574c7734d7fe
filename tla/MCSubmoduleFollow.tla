------------------------- MODULE MCSubmoduleFollow -------------------------
(* Two commits of the server and two made here.                            *)
EXTENDS SubmoduleFollow, TLC
=============================================================================
