---------------------------- MODULE MCAgentGraph ----------------------------
(* Instances of AgentGraph for TLC.                                        *)
EXTENDS AgentGraph

Circumstances(jobs, deps, changes, planTurn, reads, strict, faults, closes, prompt) ==
  [jobs |-> jobs, deps |-> deps,
   touches |-> changes.touches, work |-> changes.work, moves |-> changes.moves,
   planTurn |-> planTurn, reads |-> reads, strict |-> strict, faults |-> faults,
   closes |-> closes, prompt |-> prompt]

Two == {1, 2}
Three == {1, 2, 3}
NoDeps == [h \in Three |-> {}]
Written == [h \in Three |-> "Text"]
Unmoved == [h \in Three |-> {}]
OneFile == [touches |-> [h \in Three |-> "f"], work |-> Written, moves |-> Unmoved]
OwnFiles == [OneFile EXCEPT !.touches = [h \in Three |-> IF h = 2 THEN "g" ELSE "f"]]
Removed == [OneFile EXCEPT !.work[1] = "Deleted"]
NotText == [OneFile EXCEPT !.work[1] = "Binary"]
Renamed == [OwnFiles EXCEPT !.moves[2] = {"f"}]
LastWaits == [h \in Three |-> IF h = 3 THEN {1} ELSE {}]

(* Two helpers that end whenever they like; two that may be refused; two   *)
(* with a window that asks; two with missing tools and failing disks, one  *)
(* of which renames the file of the other; two and the app closed under    *)
(* them; a third that waits for the first; one more helper than may run at *)
(* once, in a chat with an earlier turn; and two of which one removes the  *)
(* file of the other, or leaves something else than text there.            *)
MCSettings ==
  { Circumstances(Two, NoDeps, OwnFiles, FALSE, FALSE, FALSE, FALSE, FALSE, FALSE),
    Circumstances(Two, NoDeps, OwnFiles, FALSE, FALSE, TRUE, FALSE, FALSE, FALSE),
    Circumstances(Two, NoDeps, OneFile, FALSE, TRUE, FALSE, FALSE, FALSE, TRUE),
    Circumstances(Two, NoDeps, Renamed, FALSE, FALSE, FALSE, TRUE, FALSE, TRUE),
    Circumstances(Two, NoDeps, OneFile, FALSE, FALSE, FALSE, FALSE, TRUE, TRUE),
    Circumstances(Three, LastWaits, OneFile, FALSE, FALSE, FALSE, FALSE, FALSE, TRUE),
    Circumstances(Three, NoDeps, OneFile, TRUE, FALSE, FALSE, FALSE, FALSE, TRUE),
    Circumstances(Two, NoDeps, Removed, FALSE, FALSE, FALSE, FALSE, FALSE, TRUE),
    Circumstances(Two, NoDeps, NotText, FALSE, FALSE, FALSE, FALSE, FALSE, TRUE) }
=============================================================================
