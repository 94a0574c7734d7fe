------------------------ MODULE ResultReview_proofs ------------------------
(***************************************************************************)
(* Proofs about ResultReview, for any panels, builders and paths.          *)
(***************************************************************************)
EXTENDS ResultReview, TLAPS

(***************************************************************************)
(* Types.                                                                  *)
(***************************************************************************)
LEMMA TypeStep == TypeOK /\ [Next]_vars => TypeOK'
<1> SUFFICES ASSUME TypeOK, [Next]_vars PROVE TypeOK'
  OBVIOUS
<1> USE ChangedArePaths DEF TypeOK, Callers, Goes, States, Decided, Contents, Steps,
        record, worktree, calls, answers, Dirty
<1>1. ASSUME NEW c \in Callers, BuildWalk(c) PROVE TypeOK'
  <2>1. live' \in [Callers -> SUBSET Paths] /\ at' \in [Callers -> Steps]
    BY <1>1 DEF BuildWalk
  <2> QED
    BY <1>1, <2>1 DEF BuildWalk
<1>11. ASSUME NEW c \in Callers, BuildWrite(c) PROVE TypeOK'
  <2>1. live' \in [Callers -> SUBSET Paths] /\ at' \in [Callers -> Steps]
    BY <1>11 DEF BuildWrite
  <2>2. state' \in States \cup {"None"}
    BY <1>11 DEF BuildWrite, Refreshed
  <2>3. paths' \subseteq Paths
    BY <1>11 DEF BuildWrite
  <2>4. readable' \in BOOLEAN
    <3>1. (at[c] = "Writing") \in BOOLEAN
      OBVIOUS
    <3> QED
      BY <1>11, <3>1 DEF BuildWrite
  <2>5. commit' \in Nat
    BY <1>11 DEF BuildWrite
  <2> QED
    BY <1>11, <2>1, <2>2, <2>3, <2>4, <2>5 DEF BuildWrite
<1>2. ASSUME NEW c \in Callers, Refresh(c) \/ Keep(c) \/ RequestRevision(c) PROVE TypeOK'
  BY <1>2 DEF Refresh, Keep, RequestRevision
<1>3. ASSUME NEW c \in Callers, UndoPeek(c) \/ UndoCompare(c) \/ UndoWrite(c) PROVE TypeOK'
  <2>1. peeked' \in [Callers -> States \cup {"None"}]
    BY <1>3 DEF UndoPeek, UndoCompare, UndoWrite
  <2>2. known' \in [Callers -> SUBSET Paths]
    BY <1>3 DEF UndoPeek, UndoCompare, UndoWrite
  <2>3. at' \in [Callers -> Steps]
    BY <1>3 DEF UndoPeek, UndoCompare, UndoWrite
  <2>4. state' \in States \cup {"None"} /\ paths' \subseteq Paths
    BY <1>3 DEF UndoPeek, UndoCompare, UndoWrite
  <2>5. UNCHANGED <<readable, commit, worktree, live, made, shown, answers>>
    BY <1>3 DEF UndoPeek, UndoCompare, UndoWrite
  <2> QED
    BY <2>1, <2>2, <2>3, <2>4, <2>5
<1>4. ASSUME NEW c \in Callers, CommitPeek(c) PROVE TypeOK'
  BY <1>4 DEF CommitPeek
<1>12. ASSUME NEW c \in Callers, CommitInGit(c) PROVE TypeOK'
  <2>1. at' \in [Callers -> Steps]
    BY <1>12 DEF CommitInGit
  <2>2. head' \in [Paths -> Contents] /\ commits' \in Nat /\ made' \in [Callers -> Nat]
    BY <1>12 DEF CommitInGit
  <2> QED
    BY <1>12, <2>1, <2>2 DEF CommitInGit
<1>5. ASSUME NEW c \in Callers, Stamp(c) PROVE TypeOK'
  BY <1>5 DEF Stamp
<1>6. ASSUME NEW c \in Callers, CleanupPeek(c) \/ CleanupRemove(c) PROVE TypeOK'
  BY <1>6 DEF CleanupPeek, CleanupRemove, RemoveWorktree
<1>7. ASSUME NEW p \in Paths, EditByHand(p) \/ RevertByHand(p) PROVE TypeOK'
  <2>1. CASE EditByHand(p)
    BY <2>1 DEF EditByHand
  <2>2. CASE RevertByHand(p)
    <3>1. tree' \in [Paths -> Contents] /\ reverted' \subseteq Paths
      BY <2>2 DEF RevertByHand
    <3> QED
      BY <2>2, <3>1 DEF RevertByHand
  <2> QED
    BY <1>7, <2>1, <2>2
<1>8. CASE RemovedElsewhere
  BY <1>8 DEF RemovedElsewhere
<1>9. CASE CloseApp
  <2>1. untold' \subseteq Nat
    <3>1. ASSUME NEW n \in untold' PROVE n \in Nat
      <4>1. n \in untold \/ \E d \in Callers : n = made[d]
        BY <1>9, <3>1 DEF CloseApp
      <4> QED
        BY <4>1
    <3> QED
      BY <3>1
  <2>2. /\ at' \in [Callers -> Steps] /\ peeked' \in [Callers -> States \cup {"None"}]
        /\ known' \in [Callers -> SUBSET Paths] /\ live' \in [Callers -> SUBSET Paths]
        /\ made' \in [Callers -> Nat]
        /\ shown' \in [Panels -> States \cup {"None"}]
    BY <1>9 DEF CloseApp
  <2> QED
    BY <1>9, <2>1, <2>2 DEF CloseApp
<1>10. CASE UNCHANGED vars
  BY <1>10 DEF vars
<1> QED
  BY <1>1, <1>2, <1>3, <1>4, <1>5, <1>6, <1>7, <1>8, <1>9, <1>10, <1>11, <1>12 DEF Next, Call

(* The type invariant of the review of a result.                           *)
THEOREM ReviewTyped == Spec => []TypeOK
<1>1. Init => TypeOK
  BY ChangedArePaths DEF Init, TypeOK, Callers, States, Contents, Steps
<1> QED
  BY <1>1, TypeStep, PTL DEF Spec

(***************************************************************************)
(* What was committed has landed.                                          *)
(***************************************************************************)
(* The agent's changes leave the worktree's files only where a person      *)
(* takes them back, so the first commit has all others, and so has every   *)
(* later one; a commit that is about to be stamped has been made.          *)
Landing ==
  /\ commit \in 0..commits
  /\ \A p \in Changed \ reverted : tree[p] # "base"
  /\ commits # 0 => \A p \in Changed \ reverted : head[p] # "base"
  /\ \A c \in Callers : made[c] \in 0..commits
  /\ \A c \in Callers : at[c] = "Stamping" => made[c] # 0
  /\ state = "Committed" => commit # 0

LEMMA LandingStep == TypeOK /\ Landing /\ [Next]_vars => Landing'
<1> SUFFICES ASSUME TypeOK, Landing, [Next]_vars PROVE Landing'
  OBVIOUS
<1> USE ChangedArePaths DEF TypeOK, Landing, Callers, Goes, Decided,
        record, worktree, calls, answers
<1>1. ASSUME NEW c \in Callers, BuildWalk(c) \/ BuildWrite(c) PROVE Landing'
  BY <1>1 DEF BuildWalk, BuildWrite, Refreshed
<1>2. ASSUME NEW c \in Callers, Refresh(c) \/ Keep(c) \/ RequestRevision(c) PROVE Landing'
  BY <1>2 DEF Refresh, Keep, RequestRevision
<1>3. ASSUME NEW c \in Callers, UndoPeek(c) \/ UndoCompare(c) \/ UndoWrite(c) PROVE Landing'
  BY <1>3 DEF UndoPeek, UndoCompare, UndoWrite, MayDiscard
<1>4. ASSUME NEW c \in Callers, CommitPeek(c) \/ CommitInGit(c) PROVE Landing'
  BY <1>4 DEF CommitPeek, CommitInGit
<1>5. ASSUME NEW c \in Callers, Stamp(c) PROVE Landing'
  BY <1>5 DEF Stamp
<1>6. ASSUME NEW c \in Callers, CleanupPeek(c) \/ CleanupRemove(c) PROVE Landing'
  BY <1>6 DEF CleanupPeek, CleanupRemove, RemoveWorktree
<1>7. ASSUME NEW p \in Paths, EditByHand(p) \/ RevertByHand(p) PROVE Landing'
  BY <1>7 DEF EditByHand, RevertByHand
<1>8. CASE RemovedElsewhere
  BY <1>8 DEF RemovedElsewhere
<1>9. CASE CloseApp
  BY <1>9 DEF CloseApp
<1>10. CASE UNCHANGED vars
  BY <1>10 DEF vars
<1> QED
  BY <1>1, <1>2, <1>3, <1>4, <1>5, <1>6, <1>7, <1>8, <1>9, <1>10 DEF Next, Call

LEMMA LandingHolds == Spec => []Landing
<1>1. Init => Landing
  BY ChangedArePaths DEF Init, Landing, Callers
<1> QED
  BY <1>1, ReviewTyped, LandingStep, PTL DEF Spec

(* For any number of panels and builders: a result that reads as committed *)
(* names a commit of its worktree, and the agent's changes are in its      *)
(* history, but for the paths a person took back.                          *)
THEOREM CommittedWorkHasLanded == Spec => []CommittedHasLanded
<1>1. TypeOK /\ Landing => CommittedHasLanded
  BY DEF TypeOK, Landing, CommittedHasLanded
<1> QED
  BY <1>1, ReviewTyped, LandingHolds, PTL

(***************************************************************************)
(* The decision.                                                           *)
(***************************************************************************)
(* Undo and Commit never write over each other's end.                      *)
THEOREM UndoNeverCrossesCommit == Spec => UndoAndCommitDoNotCross
<1> DEFINE Holds == /\ state = "Committed" => state' # "Discarded"
                    /\ state = "Discarded" => state' # "Committed"
<1>1. [Next]_vars => [Holds]_vars
  <2> SUFFICES ASSUME Next PROVE Holds
    OBVIOUS
  <2> USE DEF record, worktree, calls, answers
  <2>1. ASSUME NEW c \in Callers, BuildWalk(c) \/ BuildWrite(c) PROVE Holds
    BY <2>1 DEF BuildWalk, BuildWrite, Refreshed, Decided
  <2>2. ASSUME NEW c \in Callers, UndoPeek(c) \/ UndoCompare(c) \/ UndoWrite(c) PROVE Holds
    BY <2>2 DEF UndoPeek, UndoCompare, UndoWrite, MayDiscard
  <2>3. ASSUME NEW c \in Callers, CommitPeek(c) \/ CommitInGit(c) \/ Stamp(c) PROVE Holds
    BY <2>3 DEF CommitPeek, CommitInGit, Stamp
  <2>4. ASSUME NEW c \in Callers, Refresh(c) \/ Keep(c) \/ RequestRevision(c)
                                  \/ CleanupPeek(c) \/ CleanupRemove(c) PROVE Holds
    BY <2>4 DEF Refresh, Keep, RequestRevision, CleanupPeek, CleanupRemove
  <2>5. ASSUME (\E p \in Paths : EditByHand(p) \/ RevertByHand(p)) \/ RemovedElsewhere \/ CloseApp PROVE Holds
    BY <2>5 DEF EditByHand, RevertByHand, RemovedElsewhere, CloseApp
  <2> QED
    BY <2>1, <2>2, <2>3, <2>4, <2>5 DEF Next, Call
<1> QED
  BY <1>1, PTL DEF Spec, UndoAndCommitDoNotCross

(* A build never takes a decision back, and never drops a commit unless a  *)
(* revision was asked for.                                                 *)
THEOREM BuildsKeepDecisions == Spec => DecisionOutlivesBuild
<1> DEFINE Holds ==
      /\ state \in Decided => state' # "Reviewing"
      /\ commit # 0 /\ commit' # commit =>
           state = "RevisionRequested" \/ (state = "Kept" /\ commit' # 0)
<1> DEFINE Shape == TypeOK /\ Landing /\ (commit # 0 => state # "Reviewing" /\ state # "None")
<1>1. Init => Shape
  BY ChangedArePaths DEF Init, TypeOK, Landing, Callers, States, Contents, Steps
<1>2. Shape /\ [Next]_vars => Shape'
  <2> SUFFICES ASSUME Shape, [Next]_vars
               PROVE (commit # 0 => state # "Reviewing" /\ state # "None")'
    BY TypeStep, LandingStep
  <2> USE DEF record, worktree, calls, answers
  <2>1. ASSUME NEW c \in Callers, BuildWalk(c) \/ BuildWrite(c) PROVE (commit # 0 => state # "Reviewing" /\ state # "None")'
    BY <2>1 DEF BuildWalk, BuildWrite, Refreshed, Decided
  <2>2. ASSUME NEW c \in Callers, UndoPeek(c) \/ UndoCompare(c) \/ UndoWrite(c)
        PROVE (commit # 0 => state # "Reviewing" /\ state # "None")'
    BY <2>2 DEF UndoPeek, UndoCompare, UndoWrite, MayDiscard
  <2>3. ASSUME NEW c \in Callers, CommitPeek(c) \/ CommitInGit(c) \/ Stamp(c)
        PROVE (commit # 0 => state # "Reviewing" /\ state # "None")'
    BY <2>3 DEF CommitPeek, CommitInGit, Stamp
  <2>4. ASSUME NEW c \in Callers, Refresh(c) \/ Keep(c) \/ RequestRevision(c)
                                  \/ CleanupPeek(c) \/ CleanupRemove(c)
        PROVE (commit # 0 => state # "Reviewing" /\ state # "None")'
    BY <2>4 DEF Refresh, Keep, RequestRevision, CleanupPeek, CleanupRemove
  <2>5. ASSUME (\E p \in Paths : EditByHand(p) \/ RevertByHand(p)) \/ RemovedElsewhere \/ CloseApp
        PROVE (commit # 0 => state # "Reviewing" /\ state # "None")'
    BY <2>5 DEF EditByHand, RevertByHand, RemovedElsewhere, CloseApp
  <2>6. CASE UNCHANGED vars
    BY <2>6 DEF vars
  <2> QED
    BY <2>1, <2>2, <2>3, <2>4, <2>5, <2>6 DEF Next, Call
<1>3. Shape /\ [Next]_vars => [Holds]_vars
  <2> SUFFICES ASSUME Shape, Next PROVE Holds
    OBVIOUS
  <2> USE DEF record, worktree, calls, answers
  <2>1. ASSUME NEW c \in Callers, BuildWalk(c) \/ BuildWrite(c) PROVE Holds
    BY <2>1 DEF BuildWalk, BuildWrite, Refreshed, Decided, TypeOK, States
  <2>2. ASSUME NEW c \in Callers, UndoPeek(c) \/ UndoCompare(c) \/ UndoWrite(c) PROVE Holds
    BY <2>2 DEF UndoPeek, UndoCompare, UndoWrite, MayDiscard, Decided
  <2>3. ASSUME NEW c \in Callers, CommitPeek(c) \/ CommitInGit(c) \/ Stamp(c) PROVE Holds
    BY <2>3 DEF CommitPeek, CommitInGit, Stamp, Decided, Landing
  <2>4. ASSUME NEW c \in Callers, Refresh(c) \/ Keep(c) \/ RequestRevision(c)
                                  \/ CleanupPeek(c) \/ CleanupRemove(c) PROVE Holds
    BY <2>4 DEF Refresh, Keep, RequestRevision, CleanupPeek, CleanupRemove, Decided
  <2>5. ASSUME (\E p \in Paths : EditByHand(p) \/ RevertByHand(p)) \/ RemovedElsewhere \/ CloseApp PROVE Holds
    BY <2>5 DEF EditByHand, RevertByHand, RemovedElsewhere, CloseApp, Decided
  <2> QED
    BY <2>1, <2>2, <2>3, <2>4, <2>5 DEF Next, Call
<1> QED
  BY <1>1, <1>2, <1>3, PTL DEF Spec, DecisionOutlivesBuild

(***************************************************************************)
(* Every commit is accounted for.                                          *)
(***************************************************************************)
Accounted ==
  /\ NoCommitIsSilent
  /\ \A c \in Callers : at[c] # "Stamping" => made[c] = 0
  /\ \A c \in Callers \ Panels : at[c] \in {"Idle", "Walking", "Writing"}

LEMMA AccountedStep == TypeOK /\ Landing /\ Accounted /\ [Next]_vars => Accounted'
<1> SUFFICES ASSUME TypeOK, Landing, Accounted, [Next]_vars PROVE Accounted'
  OBVIOUS
<1> USE BuildersAreNoPanels DEF TypeOK, Accounted, NoCommitIsSilent, Callers, Goes,
        record, worktree, calls, answers
<1>1. ASSUME NEW c \in Callers, BuildWalk(c) \/ BuildWrite(c) PROVE Accounted'
  BY <1>1 DEF BuildWalk, BuildWrite
<1>2. ASSUME NEW c \in Callers, Refresh(c) \/ Keep(c) \/ RequestRevision(c) PROVE Accounted'
  BY <1>2 DEF Refresh, Keep, RequestRevision
<1>3. ASSUME NEW c \in Callers, UndoPeek(c) \/ UndoCompare(c) \/ UndoWrite(c) PROVE Accounted'
  BY <1>3 DEF UndoPeek, UndoCompare, UndoWrite
<1>4. ASSUME NEW c \in Callers, CommitPeek(c) PROVE Accounted'
  BY <1>4 DEF CommitPeek
<1>5. ASSUME NEW c \in Callers, CommitInGit(c) PROVE Accounted'
  BY <1>5 DEF CommitInGit
<1>6. ASSUME NEW c \in Callers, Stamp(c) PROVE Accounted'
  BY <1>6 DEF Stamp, Landing
<1>7. ASSUME NEW c \in Callers, CleanupPeek(c) \/ CleanupRemove(c) PROVE Accounted'
  BY <1>7 DEF CleanupPeek, CleanupRemove
<1>8. ASSUME NEW p \in Paths, EditByHand(p) \/ RevertByHand(p) PROVE Accounted'
  BY <1>8 DEF EditByHand, RevertByHand
<1>9. CASE RemovedElsewhere
  BY <1>9 DEF RemovedElsewhere
<1>10. CASE CloseApp
  BY <1>10 DEF CloseApp, Landing
<1>11. CASE UNCHANGED vars
  BY <1>11 DEF vars
<1> QED
  BY <1>1, <1>2, <1>3, <1>4, <1>5, <1>6, <1>7, <1>8, <1>9, <1>10, <1>11 DEF Next, Call

(* However many panels commit at once, each commit is reported to the      *)
(* caller that made it, or lost with a failed write or a closed app.       *)
THEOREM EveryCommitIsAccountedFor == Spec => []NoCommitIsSilent
<1>1. Init => Accounted
  BY DEF Init, Accounted, NoCommitIsSilent, Callers
<1>2. Accounted => NoCommitIsSilent
  BY DEF Accounted
<1> QED
  BY <1>1, <1>2, ReviewTyped, LandingHolds, AccountedStep, PTL DEF Spec
=============================================================================
