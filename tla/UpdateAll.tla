----------------------------- MODULE UpdateAll -----------------------------
(***************************************************************************)
(* "Get the latest" for many repositories (commands/update_all.rs): the    *)
(* one background job, its workers, the fetch of each repository and the   *)
(* fast-forward of the branch it has checked out (commands/branch.rs),     *)
(* with the user's uncommitted changes set aside and put back.             *)
(*                                                                         *)
(* The user edits files and starts merges in other programs at any time:   *)
(* no lock of the application stops that.  Branches that are not checked   *)
(* out only have their reference moved and are left out.                   *)
(***************************************************************************)
EXTENDS Naturals, Sequences, FiniteSets

CONSTANTS
  Repos,        (* the repositories of the request                          *)
  OpenRepos,    (* those open in a tab, whose handle is shared              *)
  NumWorkers,   (* PARALLEL_REPOS, or 1 when the run may ask to sign in     *)
  MaxEdits,     (* bound: edits in one repository                           *)
  MaxJobs       (* bound: jobs started                                      *)

ASSUME ReposAreFinite == IsFiniteSet(Repos)
ASSUME OpenReposAreRepos == OpenRepos \subseteq Repos
ASSUME BoundsAreNumbers ==
  NumWorkers \in Nat \ {0} /\ MaxEdits \in Nat /\ MaxJobs \in Nat

VARIABLES
  job,       (* idle, running, or wedged: JobsInner.running with no thread  *)
  jobs,      (* JobsInner.next_id                                           *)
  cancel,    (* JobsInner.cancel                                            *)
  allow,     (* UpdateAllRequest.allow_set_aside                            *)
  at,        (* where the worker of each repository is                      *)
  result,    (* the results of the job; the last report when it is over     *)
  stashed,   (* the local of fast_forward_branch_to: a stash is held        *)
  relation,  (* the branch to be moved against its upstream reference       *)
  elsewhere, (* the user checked out another branch after the last look     *)
  edits,     (* how many edits the user has made                            *)
  tree,      (* the edits that are in the working tree                      *)
  stash,     (* the stash list, newest first: the edits in each entry       *)
  merging,   (* the repository is in the middle of a merge                  *)
  poisoned,  (* a command panicked while it held the repository lock        *)
  touched    (* bookkeeping: this job moved the branch or set work aside    *)

jobVars == <<job, jobs, cancel, allow>>
workVars == <<edits, tree, stash>>
branchVars == <<relation, elsewhere>>
vars == <<jobVars, workVars, at, result, stashed, branchVars, merging, poisoned,
          touched>>

Busy == {"taken", "fetching", "locking", "looking", "setting_aside",
         "checking_out", "moving", "following", "putting_back", "dropping"}
Places == Busy \cup {"waiting", "done", "lost"}
None == "none"
Relations == {"unpublished", "gone", "same", "split", "behind"}
Kinds == {"unchanged", "warned", "failed", "skipped", "gone", "both_changed",
          "open_elsewhere", "in_the_way", "updated", "clashed"}

Working == {r \in Repos : at[r] \in Busy}
Waiting == {r \in Repos : at[r] = "waiting"}
Lost == {r \in Repos : at[r] = "lost"}

(* refs::tracked_changes_present.                                          *)
Dirty(r) == tree[r] # {}

(* The relation to the upstream is read only after a fetch, which sets it. *)
Init ==
  /\ job = "idle" /\ jobs = 0 /\ cancel = FALSE /\ allow = {}
  /\ at = [r \in Repos |-> "done"]
  /\ result = [r \in Repos |-> None]
  /\ stashed = [r \in Repos |-> FALSE]
  /\ relation = [r \in Repos |-> "same"]
  /\ elsewhere = [r \in Repos |-> FALSE]
  /\ edits = [r \in Repos |-> 0]
  /\ tree = [r \in Repos |-> {}]
  /\ stash = [r \in Repos |-> <<>>]
  /\ merging = [r \in Repos |-> FALSE]
  /\ poisoned = {}
  /\ touched = [r \in Repos |-> FALSE]

-----------------------------------------------------------------------------
(* The job.                                                                *)

(* update_all_start: refused while a job is recorded as running.  The      *)
(* record is made before the thread, and stays when there is no thread.    *)
Start ==
  /\ job = "idle" /\ jobs < MaxJobs
  /\ jobs' = jobs + 1
  /\ cancel' = FALSE
  /\ \/ /\ job' = "running"
        /\ allow' \in SUBSET Repos
        /\ at' = [r \in Repos |-> "waiting"]
        /\ result' = [r \in Repos |-> None]
        /\ stashed' = [r \in Repos |-> FALSE]
        /\ touched' = [r \in Repos |-> FALSE]
        /\ elsewhere' = [r \in Repos |-> FALSE]
     \/ /\ job' = "wedged"
        /\ UNCHANGED <<allow, at, result, stashed, elsewhere, touched>>
  /\ UNCHANGED <<workVars, relation, merging, poisoned>>

(* update_all_cancel.                                                      *)
Cancel ==
  /\ job # "idle" /\ ~cancel
  /\ cancel' = TRUE
  /\ UNCHANGED <<job, jobs, allow, workVars, at, result, stashed, branchVars,
                 merging, poisoned, touched>>

(* A worker of run_job takes the next repository.  It looks at the cancel  *)
(* flag just before; setting the flag in between is setting it just after. *)
Take(r) ==
  /\ job = "running" /\ ~cancel
  /\ at[r] = "waiting"
  /\ Cardinality(Working \cup Lost) < NumWorkers
  /\ at' = [at EXCEPT ![r] = "taken"]
  /\ UNCHANGED <<jobVars, workVars, result, stashed, branchVars, merging,
                 poisoned, touched>>

(* Every worker has left its loop: it saw the flag or the end of the list, *)
(* or it panicked.                                                         *)
WorkersGone ==
  /\ Working = {}
  /\ cancel \/ Waiting = {} \/ Cardinality(Lost) >= NumWorkers

(* Mutant: what a cancelled job was doing is reported as skipped.          *)
ReportOfCancelled ==
  [r \in Repos |-> IF cancel \/ result[r] = None THEN "skipped" ELSE result[r]]

(* The report of the job: a repository without a result was skipped.       *)
Report == [r \in Repos |-> IF result[r] = None THEN "skipped" ELSE result[r]]

Finish ==
  /\ job = "running" /\ WorkersGone /\ Lost = {}
  /\ job' = "idle"
  /\ cancel' = FALSE
  /\ result' = Report
  /\ at' = [r \in Repos |-> "done"]
  /\ UNCHANGED <<jobs, allow, workVars, stashed, branchVars, merging,
                 poisoned, touched>>

(* thread::scope passes a worker's panic on, and run_job never reaches the *)
(* lines that clear JobsInner.running.                                     *)
JobDies ==
  /\ job = "running" /\ WorkersGone /\ Lost # {}
  /\ job' = "wedged"
  /\ UNCHANGED <<jobs, cancel, allow, workVars, at, result, stashed,
                 branchVars, merging, poisoned, touched>>

-----------------------------------------------------------------------------
(* One repository (update_one).                                            *)

(* The worker ends with this kind of report.                               *)
EndsWith(r, kind) ==
  /\ at' = [at EXCEPT ![r] = "done"]
  /\ result' = [result EXCEPT ![r] = kind]

GoesTo(r, place) ==
  /\ at' = [at EXCEPT ![r] = place]
  /\ UNCHANGED result

(* The folder is opened with a handle of its own and looked at.            *)
Examine(r) ==
  /\ at[r] = "taken"
  /\ \/ EndsWith(r, "failed")          (* no git project, no working folder *)
     \/ EndsWith(r, "unchanged")       (* no remote                         *)
     \/ merging[r] /\ EndsWith(r, "warned")
     \/ ~merging[r] /\ GoesTo(r, "fetching")
  /\ UNCHANGED <<jobVars, workVars, stashed, branchVars, merging, poisoned,
                 touched>>

(* fetch_all_at, with its retry after a stale reference: the servers       *)
(* answer, and what is known of the upstream may change, or it fails.      *)
FetchAnswers(r) ==
  /\ at[r] = "fetching"
  /\ \/ /\ GoesTo(r, "locking")
        /\ \E rel \in Relations : relation' = [relation EXCEPT ![r] = rel]
     \/ EndsWith(r, "failed") /\ UNCHANGED relation
  /\ UNCHANGED elsewhere
  /\ UNCHANGED <<jobVars, workVars, stashed, merging, poisoned, touched>>

(* Mutant: no FETCH_TIMEOUT.                                               *)
FetchStoppedByUser(r) ==
  /\ at[r] = "fetching"
  /\ cancel /\ EndsWith(r, "skipped")
  /\ UNCHANGED <<jobVars, workVars, stashed, branchVars, merging, poisoned,
                 touched>>

(* run_git_stoppable ends git: the user asked, or FETCH_TIMEOUT is over.   *)
FetchStopped(r) ==
  /\ at[r] = "fetching"
  /\ \/ cancel /\ EndsWith(r, "skipped")
     \/ EndsWith(r, "failed")
  /\ UNCHANGED <<jobVars, workVars, stashed, branchVars, merging, poisoned,
                 touched>>

(* The handle of an open tab is locked, and unwrapped: a poisoned lock     *)
(* panics the worker.  A repository that is not open has its own handle.   *)
Lock(r) ==
  /\ at[r] = "locking"
  /\ GoesTo(r, IF r \in OpenRepos \cap poisoned THEN "lost" ELSE "looking")
  /\ UNCHANGED <<jobVars, workVars, stashed, branchVars, merging, poisoned,
                 touched>>

(* update_local_branches for the branch that is checked out.  Another      *)
(* checkout may have it too, and reading the changes may fail.             *)
Look(r) ==
  /\ at[r] = "looking"
  /\ \/ /\ relation[r] \in {"unpublished", "same"}
        /\ EndsWith(r, "unchanged")
     \/ relation[r] = "gone" /\ EndsWith(r, "gone")
     \/ relation[r] = "split" /\ EndsWith(r, "both_changed")
     \/ /\ relation[r] = "behind"
        /\ \/ EndsWith(r, "open_elsewhere")
           \/ r \notin allow /\ EndsWith(r, "failed")
           \/ r \notin allow /\ Dirty(r) /\ EndsWith(r, "in_the_way")
           \/ /\ r \in allow \/ ~Dirty(r)
              /\ GoesTo(r, "setting_aside")
  /\ UNCHANGED <<jobVars, workVars, stashed, branchVars, merging, poisoned,
                 touched>>

-----------------------------------------------------------------------------
(* fast_forward_branch_to.                                                 *)

(* It looks whether the branch is still the one checked out; of another    *)
(* one only the reference moves.  It reads the changes again and stashes   *)
(* them, whoever allowed it.  When only a submodule moved there is nothing *)
(* to stash, and it goes on.  It fails when the branch moved meanwhile, or *)
(* there is no signature.                                                  *)
SetAside(r) ==
  /\ at[r] = "setting_aside"
  /\ \/ /\ ~elsewhere[r] /\ Dirty(r)
        /\ stash' = [stash EXCEPT ![r] = <<tree[r]>> \o @]
        /\ tree' = [tree EXCEPT ![r] = {}]
        /\ stashed' = [stashed EXCEPT ![r] = TRUE]
        /\ touched' = [touched EXCEPT ![r] = TRUE]
        /\ GoesTo(r, "checking_out") /\ UNCHANGED relation
     \/ /\ ~elsewhere[r] /\ GoesTo(r, "checking_out")
        /\ UNCHANGED <<tree, stash, stashed, relation, touched>>
     \/ /\ elsewhere[r] /\ EndsWith(r, "updated")
        /\ relation' = [relation EXCEPT ![r] = "same"]
        /\ touched' = [touched EXCEPT ![r] = TRUE]
        /\ UNCHANGED <<tree, stash, stashed>>
     \/ EndsWith(r, "failed") /\ UNCHANGED <<tree, stash, stashed, relation, touched>>
  /\ elsewhere' = [elsewhere EXCEPT ![r] = FALSE]
  /\ UNCHANGED <<jobVars, edits, merging, poisoned>>

(* A safe checkout of the new tree: it may be refused for a file that      *)
(* another program holds, or for one that is in the way.                   *)
CheckOut(r) ==
  /\ at[r] = "checking_out"
  /\ GoesTo(r, "moving") \/ EndsWith(r, "failed")
  /\ UNCHANGED <<jobVars, workVars, stashed, branchVars, merging, poisoned, touched>>

(* HEAD is read again, and the reference of whatever branch it names by    *)
(* now is forced to the new commit: of the branch that was looked at, or   *)
(* of another that the user checked out since.                             *)
MoveRef(r) ==
  /\ at[r] = "moving"
  /\ \/ /\ relation' = IF elsewhere[r] THEN relation ELSE [relation EXCEPT ![r] = "same"]
        /\ touched' = [touched EXCEPT ![r] = TRUE]
        /\ GoesTo(r, "following")
     \/ EndsWith(r, "failed") /\ UNCHANGED <<relation, touched>>
  /\ elsewhere' = [elsewhere EXCEPT ![r] = FALSE]
  /\ UNCHANGED <<jobVars, workVars, stashed, merging, poisoned>>

(* submodule::follow_and_report: `git submodule update` of every submodule *)
(* whose pin has moved, with no deadline and no stop, and its failure only *)
(* noted.  SubmoduleFollow has what it does to a submodule.                *)
Follow(r) ==
  /\ at[r] = "following"
  /\ GoesTo(r, "putting_back")
  /\ UNCHANGED <<jobVars, workVars, stashed, branchVars, merging, poisoned, touched>>

(* Mutant: the entry is popped, as git2's stash_pop does on a conflict.    *)
PutBackByPop(r) ==
  /\ at[r] = "putting_back"
  /\ IF ~stashed[r]
     THEN EndsWith(r, "updated") /\ UNCHANGED <<tree, stash, stashed>>
     ELSE \/ /\ tree' = [tree EXCEPT ![r] = @ \cup Head(stash[r])]
             /\ GoesTo(r, "dropping") /\ UNCHANGED <<stash, stashed>>
          \/ /\ stash' = [stash EXCEPT ![r] = Tail(@)]
             /\ EndsWith(r, "clashed") /\ UNCHANGED <<tree, stashed>>
  /\ UNCHANGED <<jobVars, edits, branchVars, merging, poisoned, touched>>

(* The entry is applied, and stays when it did not go in cleanly ...       *)
PutBack(r) ==
  /\ at[r] = "putting_back"
  /\ IF ~stashed[r]
     THEN EndsWith(r, "updated") /\ UNCHANGED tree
     ELSE \/ /\ tree' = [tree EXCEPT ![r] = @ \cup Head(stash[r])]
             /\ GoesTo(r, "dropping")
          \/ EndsWith(r, "clashed") /\ UNCHANGED tree
  /\ UNCHANGED <<jobVars, edits, stash, stashed, branchVars, merging, poisoned,
                 touched>>

(* ... and is dropped when it did.  A drop that fails is an error although *)
(* everything is done.                                                     *)
Drop(r) ==
  /\ at[r] = "dropping"
  /\ \/ /\ stash' = [stash EXCEPT ![r] = Tail(@)]
        /\ stashed' = [stashed EXCEPT ![r] = FALSE]
        /\ EndsWith(r, "updated")
     \/ EndsWith(r, "failed") /\ UNCHANGED <<stash, stashed>>
  /\ UNCHANGED <<jobVars, edits, tree, branchVars, merging, poisoned, touched>>

-----------------------------------------------------------------------------
(* The rest of the world.                                                  *)

(* The user saves a file in an editor.                                     *)
Edit(r) ==
  /\ edits[r] < MaxEdits
  /\ edits' = [edits EXCEPT ![r] = @ + 1]
  /\ tree' = [tree EXCEPT ![r] = @ \cup {edits[r] + 1}]
  /\ UNCHANGED <<jobVars, stash, at, result, stashed, branchVars, merging,
                 poisoned, touched>>

(* The user starts a merge in a terminal.  Bound: while the job can still  *)
(* come upon it.                                                           *)
BeginMerge(r) ==
  /\ ~merging[r] /\ at[r] \in {"waiting", "taken"}
  /\ merging' = [merging EXCEPT ![r] = TRUE]
  /\ UNCHANGED <<jobVars, workVars, at, result, stashed, branchVars, poisoned,
                 touched>>

(* The user checks another branch out in a terminal.  Bound: once between  *)
(* one look at what is checked out and the next.                           *)
SwitchBranch(r) ==
  /\ at[r] \in {"setting_aside", "moving"} /\ ~elsewhere[r]
  /\ elsewhere' = [elsewhere EXCEPT ![r] = TRUE]
  /\ UNCHANGED <<jobVars, workVars, at, result, stashed, relation, merging, poisoned,
                 touched>>

(* Another command panics while it holds the lock of an open repository.   *)
(* Bound: while the job can still come upon it.                            *)
Poison(r) ==
  /\ r \in OpenRepos \ poisoned
  /\ at[r] \in {"waiting", "taken", "fetching", "locking"}
  /\ poisoned' = poisoned \cup {r}
  /\ UNCHANGED <<jobVars, workVars, at, result, stashed, branchVars, merging,
                 touched>>

(* The application is closed, whatever it was doing, and started again.    *)
CloseApp ==
  /\ job # "idle"
  /\ job' = "idle" /\ cancel' = FALSE /\ allow' = {}
  /\ at' = [r \in Repos |-> "done"]
  /\ result' = [r \in Repos |-> None]
  /\ stashed' = [r \in Repos |-> FALSE]
  /\ touched' = [r \in Repos |-> FALSE]
  /\ poisoned' = {}
  /\ UNCHANGED <<jobs, workVars, branchVars, merging>>

(* What the application's own threads do, a fetch that has its deadline    *)
(* included.  A server need not answer, and one that a submodule is        *)
(* updated from is waited for without end.                                 *)
Work ==
  \/ Finish
  \/ JobDies
  \/ \E r \in Repos :
       \/ Take(r) \/ Examine(r) \/ FetchStopped(r) \/ Lock(r) \/ Look(r)
       \/ SetAside(r) \/ CheckOut(r) \/ MoveRef(r) \/ PutBack(r) \/ Drop(r)

Next ==
  \/ Start \/ Cancel \/ CloseApp \/ Work
  \/ \E r \in Repos :
       FetchAnswers(r) \/ Follow(r) \/ Edit(r) \/ BeginMerge(r) \/ SwitchBranch(r)
         \/ Poison(r)

Spec == Init /\ [][Next]_vars /\ WF_vars(Work)

-----------------------------------------------------------------------------
(* Properties.                                                             *)

(* Every variable has its type; while the job runs, the repositories with  *)
(* a result are those whose worker is through with them (run_job fills the *)
(* slot and goes on), and a worker that holds a stash has one to put back. *)
TypeOK ==
  /\ job \in {"idle", "running", "wedged"}
  /\ jobs \in 0 .. MaxJobs
  /\ cancel \in BOOLEAN
  /\ allow \subseteq Repos
  /\ at \in [Repos -> Places]
  /\ result \in [Repos -> Kinds \cup {None}]
  /\ stashed \in [Repos -> BOOLEAN]
  /\ relation \in [Repos -> Relations]
  /\ elsewhere \in [Repos -> BOOLEAN]
  /\ edits \in [Repos -> 0 .. MaxEdits]
  /\ tree \in [Repos -> SUBSET (1 .. MaxEdits)]
  /\ stash \in [Repos -> Seq(SUBSET (1 .. MaxEdits))]
  /\ merging \in [Repos -> BOOLEAN]
  /\ poisoned \subseteq OpenRepos
  /\ touched \in [Repos -> BOOLEAN]
  /\ job = "running" => \A r \in Repos : at[r] = "done" <=> result[r] # None
  /\ \A r \in Repos : stashed[r] => stash[r] # <<>>

(* Whatever fails, clashes or is closed half way, every edit the user made *)
(* is in the working tree or in a stash entry: fast_forward_branch_to      *)
(* applies and then drops, and never pops.                                 *)
NothingIsLost ==
  \A r \in Repos :
    1 .. edits[r] = tree[r] \cup UNION {stash[r][i] : i \in DOMAIN stash[r]}

(* A repository that is reported as not checked, left alone or without     *)
(* news was not touched: no branch of it moved and no change was set       *)
(* aside, however late the stop came and whatever the user did meanwhile.  *)
LeftAloneIsUntouched ==
  \A r \in Repos :
    result[r] \in {"skipped", "unchanged", "warned", "gone", "both_changed",
                  "open_elsewhere", "in_the_way"}
      => ~touched[r]

(* A job comes to an end, whether the servers it fetches from answer or    *)
(* not: the fetch has its deadline, and a stop ends it at once.  Only the  *)
(* update of a submodule has neither, and a job waits as long as that      *)
(* does.                                                                   *)
JobEnds ==
  (\A r \in Repos : []<>(at[r] # "following")) =>
    (job = "running" ~> job # "running")

(* A claim of branch.rs: `stashed` is "true only while a stash the user    *)
(* must be told about is still held", and the report of a repository whose *)
(* changes are still in the stash says that they clashed.                  *)
StashIsTold ==
  \A r \in Repos :
    result[r] # None /\ stashed[r] => result[r] = "clashed"
=============================================================================
