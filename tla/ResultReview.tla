---------------------------- MODULE ResultReview ----------------------------
(***************************************************************************)
(* What becomes of the work one execution left in its worktree: the result *)
(* record is built and refreshed, and a person keeps, undoes, sends back,  *)
(* commits and clears it away (commands/agent_result.rs,                   *)
(* agentdesk/result.rs, components/domain/agent-desk/ResultReviewPanel).   *)
(*                                                                         *)
(* The record is only read and written under the session lock; the walk of *)
(* the worktree and the git commit are long and run outside of it.  Each   *)
(* stretch under the lock and each stretch outside is a step.  Two panels  *)
(* may show the same result, and a panel offers the buttons of the record  *)
(* it last listed, which may be old.                                       *)
(***************************************************************************)
EXTENDS Naturals

CONSTANTS
  Panels,     (* windows and panes that show the result                     *)
  Builders,   (* run ends, graph ends and startups that build the record    *)
  Paths,      (* paths of the project                                       *)
  Changed     (* the paths the agent left changed                           *)

ASSUME ChangedArePaths == Changed \subseteq Paths
ASSUME BuildersAreNoPanels == Panels \cap Builders = {}

Callers == Panels \cup Builders
(* Of ResultState; nothing sets CleanupNeeded and CleanupFailed.           *)
States == {"Reviewing", "RevisionRequested", "Kept", "Committed", "Discarded"}
Decided == {"Kept", "Committed", "Discarded"}
Contents == {"base", "agent", "hand"}
Steps == {"Idle", "Walking", "Comparing", "Discarding", "Committing",
          "Stamping", "Clearing", "Writing"}

VARIABLES
  (* The results file: the record's state, "None" before the first build,   *)
  (* its changed paths, whether they could be read, and its commit.         *)
  state, paths, readable, commit,
  (* The worktree: what each path holds, what HEAD holds of it, how many    *)
  (* commits were made on top of the base, whether git lists it, and the    *)
  (* paths a person took back to what the base holds.                       *)
  tree, head, commits, listed, reverted,
  (* The callers: where each is, the record it peeked at and what it then   *)
  (* read or made outside of the lock.                                      *)
  at, peeked, known, live, made,
  (* What each panel shows.                                                 *)
  shown,
  (* The commits whose oid a caller was given, and those it never was.      *)
  told, untold

record == <<state, paths, readable, commit>>
worktree == <<tree, head, commits, listed, reverted>>
calls == <<at, peeked, known, live, made>>
answers == <<told, untold>>
vars == <<record, worktree, calls, shown, answers>>

Init ==
  /\ state = "None" /\ paths = {} /\ readable = TRUE /\ commit = 0
  /\ tree = [p \in Paths |-> IF p \in Changed THEN "agent" ELSE "base"]
  /\ head = [p \in Paths |-> "base"]
  /\ commits = 0
  /\ listed = TRUE
  /\ reverted = {}
  /\ at = [c \in Callers |-> "Idle"]
  /\ peeked = [c \in Callers |-> "None"]
  /\ known = [c \in Callers |-> {}]
  /\ live = [c \in Callers |-> {}]
  /\ made = [c \in Callers |-> 0]
  /\ shown = [c \in Panels |-> "None"]
  /\ told = {} /\ untold = {}

Goes(c, step) == at' = [at EXCEPT ![c] = step]

(* The paths git reports as changed (changed_paths_for_worktree).          *)
Dirty == {p \in Paths : tree[p] # head[p]}

(* The two buttons that ask for a decision, and the result they need.      *)
NeedsReview(s) == s \in {"Reviewing", "RevisionRequested"}

(***************************************************************************)
(* Building (build_result_at).                                             *)
(***************************************************************************)
BuildWalk(c) ==
  /\ c \in Builders /\ at[c] = "Idle"
  /\ \/ /\ listed
        /\ live' = [live EXCEPT ![c] = Dirty] /\ Goes(c, "Writing")
     \/ /\ live' = [live EXCEPT ![c] = {}] /\ Goes(c, "Walking")
  /\ UNCHANGED <<record, worktree, peeked, known, made, shown, answers>>

(* Mutant: every build starts the review over.                             *)
StartsOver(s) == "Reviewing"

(* A refresh keeps what was decided; it starts a review over that was open *)
(* or that asked for a revision, and forgets a commit then.                *)
Refreshed(s) == IF s \in Decided THEN s ELSE "Reviewing"

(* "Walking" stands for a walk that could not open the worktree.           *)
BuildWrite(c) ==
  /\ at[c] \in {"Writing", "Walking"} /\ c \in Builders
  /\ \/ /\ state' = Refreshed(state)
        /\ paths' = live[c]
        /\ readable' = (at[c] = "Writing")
        /\ commit' = IF state \in Decided THEN commit ELSE 0
     \/ UNCHANGED record    (* the file could not be written *)
  /\ live' = [live EXCEPT ![c] = {}]
  /\ Goes(c, "Idle")
  /\ UNCHANGED <<worktree, peeked, known, made, shown, answers>>

(***************************************************************************)
(* Listing, keeping, sending back (agent_result_list, keep_result_at,      *)
(* request_revision_at).                                                   *)
(***************************************************************************)
Refresh(c) ==
  /\ c \in Panels /\ at[c] = "Idle"
  /\ shown[c] # state
  /\ shown' = [shown EXCEPT ![c] = state]
  /\ UNCHANGED <<record, worktree, calls, answers>>

(* The panel offers Keep; the command looks at what was recorded, and not  *)
(* at the state.                                                           *)
Keep(c) ==
  /\ c \in Panels /\ at[c] = "Idle"
  /\ NeedsReview(shown[c])
  /\ readable /\ paths # {}
  /\ state' = "Kept"
  /\ UNCHANGED <<paths, readable, commit, worktree, calls, shown, answers>>

RequestRevision(c) ==
  /\ c \in Panels /\ at[c] = "Idle"
  /\ NeedsReview(shown[c])
  /\ state' = "RevisionRequested"
  /\ UNCHANGED <<paths, readable, commit, worktree, calls, shown, answers>>

(***************************************************************************)
(* Undo (undo_result_at): peek, walk the worktree, look again and write.   *)
(* Nothing in the worktree is touched.                                     *)
(***************************************************************************)
UndoPeek(c) ==
  /\ c \in Panels /\ at[c] = "Idle"
  /\ NeedsReview(shown[c])
  /\ peeked' = [peeked EXCEPT ![c] = state]
  /\ known' = [known EXCEPT ![c] = paths]
  /\ Goes(c, "Comparing")
  /\ UNCHANGED <<record, worktree, live, made, shown, answers>>

(* count_unexpected_paths: anything that was not recorded is someone's     *)
(* work, and so is what cannot be read.                                    *)
UndoCompare(c) ==
  /\ at[c] = "Comparing"
  /\ IF listed /\ Dirty \subseteq known[c]
     THEN Goes(c, "Discarding") /\ UNCHANGED <<peeked, known>>
     ELSE /\ Goes(c, "Idle")
          /\ peeked' = [peeked EXCEPT ![c] = "None"]
          /\ known' = [known EXCEPT ![c] = {}]
  /\ UNCHANGED <<record, worktree, live, made, shown, answers>>

(* Mutant: the state is not looked at again.                               *)
MayDiscardAnyway(c) == TRUE

MayDiscard(c) == state = peeked[c] /\ state # "Committed"

UndoWrite(c) ==
  /\ at[c] = "Discarding"
  /\ \/ /\ MayDiscard(c)
        /\ state' = "Discarded" /\ paths' = {}
     \/ UNCHANGED <<state, paths>>   (* refused, or not written *)
  /\ peeked' = [peeked EXCEPT ![c] = "None"]
  /\ known' = [known EXCEPT ![c] = {}]
  /\ Goes(c, "Idle")
  /\ UNCHANGED <<readable, commit, worktree, live, made, shown, answers>>

(***************************************************************************)
(* Commit (commit_result_at): peek, commit in git, stamp the record        *)
(* (commit_record_if_still_kept).                                          *)
(***************************************************************************)
CommitPeek(c) ==
  /\ c \in Panels /\ at[c] = "Idle"
  /\ shown[c] = "Kept" /\ state = "Kept"
  /\ Goes(c, "Committing")
  /\ UNCHANGED <<record, worktree, peeked, known, live, made, shown, answers>>

(* Mutant: the result is stamped although there was nothing to commit.     *)
CommitAnyway(c) ==
  /\ at[c] = "Committing"
  /\ Goes(c, "Stamping")
  /\ IF listed /\ Dirty # {}
     THEN /\ head' = tree /\ commits' = commits + 1
          /\ made' = [made EXCEPT ![c] = commits + 1]
     ELSE UNCHANGED <<head, commits, made>>
  /\ UNCHANGED <<record, tree, listed, reverted, peeked, known, live, shown, answers>>

(* Everything that is in the worktree now goes into the commit; an         *)
(* unchanged tree, or git, refuses.                                        *)
CommitInGit(c) ==
  /\ at[c] = "Committing"
  /\ \/ /\ listed /\ Dirty # {}
        /\ head' = tree /\ commits' = commits + 1
        /\ made' = [made EXCEPT ![c] = commits + 1]
        /\ Goes(c, "Stamping")
     \/ Goes(c, "Idle") /\ UNCHANGED <<head, commits, made>>
  /\ UNCHANGED <<record, tree, listed, reverted, peeked, known, live, shown, answers>>

(* Mutant: a commit the record no longer wants is reported as nothing.     *)
StampQuietly(c) ==
  /\ at[c] = "Stamping"
  /\ \/ /\ state = "Kept"
        /\ state' = "Committed" /\ commit' = made[c]
        /\ told' = told \cup {made[c]} /\ UNCHANGED untold
     \/ /\ state # "Kept"
        /\ UNCHANGED <<state, commit, told, untold>>
     \/ /\ untold' = untold \cup {made[c]}
        /\ UNCHANGED <<state, commit, told>>
  /\ made' = [made EXCEPT ![c] = 0]
  /\ Goes(c, "Idle")
  /\ UNCHANGED <<paths, readable, worktree, peeked, known, live, shown>>

(* A record that is no longer kept is left as it is, and the caller gets   *)
(* the oid; a record that cannot be read or written leaves the commit to   *)
(* itself: WriteFailed does not name it.                                   *)
Stamp(c) ==
  /\ at[c] = "Stamping"
  /\ \/ /\ state = "Kept"
        /\ state' = "Committed" /\ commit' = made[c]
        /\ told' = told \cup {made[c]} /\ UNCHANGED untold
     \/ /\ state # "Kept"
        /\ told' = told \cup {made[c]} /\ UNCHANGED <<state, commit, untold>>
     \/ /\ untold' = untold \cup {made[c]}
        /\ UNCHANGED <<state, commit, told>>
  /\ made' = [made EXCEPT ![c] = 0]
  /\ Goes(c, "Idle")
  /\ UNCHANGED <<paths, readable, worktree, peeked, known, live, shown>>

(***************************************************************************)
(* Clearing the worktree away (cleanup_worktree_at).                       *)
(***************************************************************************)
CleanupPeek(c) ==
  /\ c \in Panels /\ at[c] = "Idle"
  /\ shown[c] \in {"Committed", "Discarded"}
  /\ state \in {"Committed", "Discarded"}
  /\ Goes(c, "Clearing")
  /\ UNCHANGED <<record, worktree, peeked, known, live, made, shown, answers>>

(* worktree::remove looks its target up by path, refuses what is not       *)
(* listed, and what has uncommitted work in it.                            *)
RemoveWorktree(target) ==
  IF target = "path" /\ listed /\ Dirty = {} THEN listed' = FALSE ELSE UNCHANGED listed

(* The entry is found by its path, and its name is handed on.              *)
CleanupRemove(c) ==
  /\ at[c] = "Clearing"
  /\ RemoveWorktree("name")
  /\ Goes(c, "Idle")
  /\ UNCHANGED <<record, tree, head, commits, reverted, peeked, known, live, made, shown, answers>>

(***************************************************************************)
(* The person and the app.                                                 *)
(***************************************************************************)
(* Bound: a path once written by hand is not written again, nor is one     *)
(* that was taken back.                                                    *)
EditByHand(p) ==
  /\ listed /\ tree[p] # "hand" /\ p \notin reverted
  /\ tree' = [tree EXCEPT ![p] = "hand"]
  /\ UNCHANGED <<record, head, commits, listed, reverted, calls, shown, answers>>

(* In an editor, or with the discard of the worktree's own tab.            *)
(* Bound: only the agent's own change of a path is taken back, and only    *)
(* before the first commit, after which it is an edit like any other.      *)
RevertByHand(p) ==
  /\ listed /\ tree[p] = "agent" /\ commits = 0
  /\ tree' = [tree EXCEPT ![p] = "base"]
  /\ reverted' = reverted \cup {p}
  /\ UNCHANGED <<record, head, commits, listed, calls, shown, answers>>

(* The worktree is removed elsewhere in the app, or in a terminal.         *)
RemovedElsewhere ==
  /\ listed /\ listed' = FALSE
  /\ UNCHANGED <<record, tree, head, commits, reverted, calls, shown, answers>>

(* The app is closed: what a call had done stays, what it had not is lost. *)
CloseApp ==
  /\ \E c \in Callers : at[c] # "Idle"
  /\ untold' = untold \cup {made[c] : c \in {d \in Callers : at[d] = "Stamping"}}
  /\ at' = [c \in Callers |-> "Idle"]
  /\ peeked' = [c \in Callers |-> "None"]
  /\ known' = [c \in Callers |-> {}]
  /\ live' = [c \in Callers |-> {}]
  /\ made' = [c \in Callers |-> 0]
  /\ shown' = [c \in Panels |-> "None"]
  /\ UNCHANGED <<record, worktree, told>>

Call(c) ==
  \/ BuildWalk(c) \/ BuildWrite(c)
  \/ Refresh(c) \/ Keep(c) \/ RequestRevision(c)
  \/ UndoPeek(c) \/ UndoCompare(c) \/ UndoWrite(c)
  \/ CommitPeek(c) \/ CommitInGit(c) \/ Stamp(c)
  \/ CleanupPeek(c) \/ CleanupRemove(c)

Next ==
  \/ \E c \in Callers : Call(c)
  \/ \E p \in Paths : EditByHand(p) \/ RevertByHand(p)
  \/ RemovedElsewhere \/ CloseApp

Spec == Init /\ [][Next]_vars

(***************************************************************************)
(* What is true of a result.                                               *)
(***************************************************************************)
TypeOK ==
  /\ state \in States \cup {"None"}
  /\ paths \subseteq Paths /\ readable \in BOOLEAN /\ commit \in Nat
  /\ tree \in [Paths -> Contents] /\ head \in [Paths -> Contents]
  /\ commits \in Nat /\ listed \in BOOLEAN /\ reverted \subseteq Paths
  /\ at \in [Callers -> Steps]
  /\ peeked \in [Callers -> States \cup {"None"}]
  /\ known \in [Callers -> SUBSET Paths] /\ live \in [Callers -> SUBSET Paths]
  /\ made \in [Callers -> Nat]
  /\ shown \in [Panels -> States \cup {"None"}]
  /\ told \subseteq Nat /\ untold \subseteq Nat

(* A result that reads as committed has landed: its commit is in the       *)
(* worktree's history, and that history holds a change of every path the   *)
(* agent changed but those a person took back in the worktree, whatever    *)
(* else was edited, committed or removed meanwhile.                        *)
CommittedHasLanded ==
  state = "Committed" =>
    /\ commit \in 1..commits
    /\ \A p \in Changed \ reverted : head[p] # "base"

(* Undo and Commit run long outside of the lock.  Neither writes its end   *)
(* over the other's: no step takes a result from committed to discarded,   *)
(* or from discarded to committed.                                         *)
UndoAndCommitDoNotCross ==
  [][/\ state = "Committed" => state' # "Discarded"
     /\ state = "Discarded" => state' # "Committed"]_vars

(* A result is built again whenever a run, a graph or a startup comes to   *)
(* it, also while a person decides.  A build that read the worktree before *)
(* the decision never takes it back, and the recorded commit is only       *)
(* forgotten after a revision was asked for, or replaced by the commit of  *)
(* a result that was kept again.                                           *)
DecisionOutlivesBuild ==
  [][/\ state \in Decided => state' # "Reviewing"
     /\ commit # 0 /\ commit' # commit =>
          state = "RevisionRequested" \/ (state = "Kept" /\ commit' # 0)]_vars

(* A commit made in git while the record changed, or that another panel    *)
(* overtook, is never silent: someone was given its oid, or is about to    *)
(* be, unless the record could not be written or the app was closed.       *)
NoCommitIsSilent ==
  1..commits \subseteq told \cup untold \cup {made[c] : c \in Panels}

(***************************************************************************)
(* A claim of the comments that the code does not keep                     *)
(***************************************************************************)

(* "Remove a result's worktree once its work is safely landed              *)
(* (`Committed`) or explicitly thrown away": asked to clear a clean        *)
(* worktree of such a result away, the command removes it.  (A panel shows *)
(* what it showed unless the app was closed under the call.)               *)
CleanupClears ==
  [][\A c \in Panels :
       (/\ at[c] = "Clearing" /\ at'[c] = "Idle" /\ shown'[c] = shown[c]
        /\ listed /\ Dirty = {}) => ~listed']_vars
=============================================================================
