---------------------------- MODULE MCUpdateAll ----------------------------
(* Two repositories, one of them open in a tab.                            *)
EXTENDS UpdateAll, TLC

CONSTANTS r1, r2
=============================================================================
