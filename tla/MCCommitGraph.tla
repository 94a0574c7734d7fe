-------------------------- MODULE MCCommitGraph --------------------------
(* Histories of five commits, of four with a stash and of three with two. *)
EXTENDS CommitGraph

MCSizes == {[commits |-> 5, stashes |-> 0], [commits |-> 4, stashes |-> 1],
            [commits |-> 3, stashes |-> 2]}
=============================================================================
