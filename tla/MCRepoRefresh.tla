--------------------------- MODULE MCRepoRefresh ---------------------------
(* One repository, with numbers for bounds.                                *)
EXTENDS RepoRefresh, TLC
=============================================================================
