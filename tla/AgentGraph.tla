----------------------------- MODULE AgentGraph -----------------------------
(***************************************************************************)
(* A started graph: helpers that run at once, what they changed folded     *)
(* into one integration worktree, a review of the combination by the lead, *)
(* and one combined result (commands/agent_graph.rs).                      *)
(*                                                                         *)
(* No thread drives a graph.  Each helper's own task, when its process has *)
(* ended, judges the helper, folds its work in, asks the scheduler what    *)
(* may start now, and either launches that or sees whether the review may  *)
(* begin.  The tasks of two helpers, the task that answers a conflict, the *)
(* task of the review and the command that started the graph share nothing *)
(* but the session file: each read of it is a step, each read-modify-write *)
(* under the session lock is a step, and what a task read it carries along *)
(* in its program counter.                                                 *)
(***************************************************************************)
EXTENDS Naturals, FiniteSets

CONSTANTS
  NumHelpers,     (* helpers of the proposal, numbered in its order         *)
  MaxConcurrent,  (* graph::MAX_CONCURRENT_HELPERS                          *)
  Files,          (* files of the project                                   *)
  Settings,       (* the circumstances a graph may run in, see IsSetting    *)
  MaxLaunches     (* bound: processes and tasks of one helper at once       *)

Helpers == 1..NumHelpers
Base == 0                   (* what every helper started from               *)
Merged == NumHelpers + 1    (* a text a person wrote                        *)
Gone == NumHelpers + 2      (* no file                                      *)
Empty == NumHelpers + 3     (* a text without a character                   *)
Displaced == NumHelpers + 4 (* what a file started from, in another file    *)
Garbled(h) == NumHelpers + 4 + h   (* what is not text, written as text     *)
Contents == 0..Garbled(NumHelpers) (* what a helper wrote is its number     *)

(* jobs: the helpers left in the proposal; deps: their depends_on;         *)
(* touches: the file each of them changes; work: what it leaves there;     *)
(* moves: the file it renames to that one, if any; planTurn: an earlier    *)
(* record without a parent precedes the lead's;                            *)
(* reads: the window asks for the session; strict: some helper's           *)
(* completion condition may be unmet; faults: tools may be missing and     *)
(* disks may refuse; closes: the app may be closed; prompt: every helper   *)
(* reports that it works before one of them ends.                          *)
IsSetting(s) ==
  /\ s.jobs \subseteq Helpers
  /\ s.deps \in [Helpers -> SUBSET s.jobs]
  /\ \A h \in Helpers : \A d \in s.deps[h] : d < h
  /\ s.touches \in [Helpers -> Files]
  /\ s.work \in [Helpers -> {"Text", "Binary", "Deleted"}]
  /\ s.moves \in [Helpers -> SUBSET Files]
  /\ \A h \in Helpers : /\ s.touches[h] \notin s.moves[h]
                        /\ \A f, g \in s.moves[h] : f = g
                        /\ s.work[h] = "Deleted" => s.moves[h] = {}
  /\ {s.planTurn, s.reads, s.strict, s.faults, s.closes, s.prompt} \subseteq BOOLEAN

ASSUME NumHelpersIsNatural == NumHelpers \in Nat \ {0}
ASSUME MaxConcurrentIsNatural == MaxConcurrent \in Nat
ASSUME MaxLaunchesIsNatural == MaxLaunches \in Nat
ASSUME SettingsAreSettings == \A s \in Settings : IsSetting(s)

(* Who reads and writes the session: the n-th process of a helper with the *)
(* task that follows it, the command that answers a helper's conflict, the *)
(* review with its task, and the command that started the graph.           *)
Runs == Helpers \X (1..MaxLaunches)
Answers == Helpers \X {0}
Review == <<0, 0>>
Start == <<0, 1>>
Tasks == Runs \cup Answers \cup {Review, Start}

Live == {"Preparing", "Working", "NeedsInput"}              (* is_active    *)
Dead == {"Failed", "Stopped", "Interrupted"}                (* is_failed_dependency *)
Terminal == Dead \cup {"Finished"}
Waiting == {"Draft", "Ready"}

Processes == {"Launched", "Running"}
Steps == Processes \cup
  {"Idle", "Judging", "Refusing", "Refused", "Queued", "QueuedToMake", "Looking", "Folding", "Scheduling",
   "Abandoning", "Rescheduling", "Launching", "FinishingDirect", "Reviewing",
   "LaunchingReview", "Reading", "Building", "Finishing", "Answering"}

VARIABLES
  setting,      (* the circumstances, chosen once                           *)
  (* The session file.                                                      *)
  lead,         (* the state of the graph's lead                            *)
  header,       (* header.state                                             *)
  record,       (* the state of each helper                                 *)
  conflict,     (* the integrated text in its conflict, or Base for none    *)
  integration,  (* integration_worktree_path is recorded                    *)
  review,       (* the state of the review's record, or "None"              *)
  result,       (* the combined result was written                          *)
  (* The integration worktree.                                              *)
  tree,         (* the content of each file                                 *)
  holder,       (* who holds the integration lock, or {}                    *)
  (* The process.                                                           *)
  linked,       (* helpers whose events reach the session (0: the review)   *)
  registered,   (* executions in the registry (0: the review)               *)
  at,           (* where each task is                                       *)
  todo,         (* helpers a task is about to launch or to abandon          *)
  saw,          (* the text a task read before it folds in                  *)
  ending        (* the state of the review as a task read it that builds    *)
                (* the result, and then how that task will end the graph    *)

file == <<lead, header, record, conflict, integration, review, result>>
process == <<linked, registered, at, todo, saw, ending>>
vars == <<setting, file, tree, holder, process>>

First(S, n) == {h \in S : Cardinality({g \in S : g < h}) < n}
Independent == {h \in setting.jobs : setting.deps[h] = {}}

(* Only the helpers start_graph_at provisioned have a worktree: the first  *)
(* of those that depend on nothing.  No later step gives one to a helper.  *)
Housed == First(Independent, MaxConcurrent)

(* What commit_started_graph_if_still_proposed leaves, with the command    *)
(* that started the graph about to launch what it provisioned.             *)
Init ==
  /\ setting \in Settings
  /\ lead = "Working" /\ header = "Working"
  /\ record = [h \in Helpers |-> IF h \notin setting.jobs THEN "Absent"
                                ELSE IF h \in Housed THEN "Ready" ELSE "Draft"]
  /\ conflict = [h \in Helpers |-> Base]
  /\ integration = FALSE /\ review = "None" /\ result = FALSE
  /\ tree = [f \in Files |-> Base]
  /\ holder = {}
  /\ linked = {} /\ registered = {}
  /\ at = [t \in Tasks |-> IF t = Start THEN "Launching" ELSE "Idle"]
  /\ todo = [t \in Tasks |-> IF t = Start THEN Housed ELSE {}]
  /\ saw = [t \in Tasks |-> Base]
  /\ ending = [t \in Tasks |-> "None"]

Goes(t, step) == at' = [at EXCEPT ![t] = step]
Records(h, state) == record' = [record EXCEPT ![h] = state]

(***************************************************************************)
(* Launching (launch_helper, record_helper_launch_failure).                *)
(***************************************************************************)
(* The next helper of the list; the record stays Ready until the process   *)
(* speaks.  A helper without a worktree, or without a tool that may run    *)
(* it, is marked Failed, and nothing else happens.                         *)
LaunchFails(t, h) ==
  /\ Records(h, "Failed")
  /\ \/ h \notin Housed /\ UNCHANGED linked
     \/ h \in Housed /\ setting.faults /\ linked' = linked \cup {h}
  /\ at' = [at EXCEPT ![t] = IF todo[t] = {h} THEN "Idle" ELSE @]
  /\ UNCHANGED registered

LaunchRuns(t, h) ==
  \E n \in 1..MaxLaunches :
    /\ h \in Housed
    /\ at[<<h, n>>] = "Idle" /\ \A m \in 1..(n - 1) : at[<<h, m>>] # "Idle"
    /\ linked' = linked \cup {h}
    /\ registered' = registered \cup {h}
    /\ at' = [at EXCEPT ![<<h, n>>] = "Launched",
                        ![t] = IF todo[t] = {h} THEN "Idle" ELSE @]
    /\ UNCHANGED record

LaunchHelper(t) ==
  /\ at[t] = "Launching"
  /\ \E h \in First(todo[t], 1) :
       /\ LaunchFails(t, h) \/ LaunchRuns(t, h)
       /\ todo' = [todo EXCEPT ![t] = @ \ {h}]
  /\ UNCHANGED <<setting, lead, header, conflict, integration, review, result,
                 tree, holder, saw, ending>>

(***************************************************************************)
(* A process speaks and ends (the sink, bridge::apply_run_event, the end   *)
(* of the spawned task or its watchdog, ExecutionRegistry::complete).      *)
(***************************************************************************)
(* What a run says of an execution reaches its record as long as the       *)
(* execution is linked, whichever of its processes says it.                *)
Says(h, state) ==
  IF h \in linked THEN Records(h, state) ELSE UNCHANGED record

RunReports(t) ==
  /\ t \in Runs /\ at[t] = "Launched"
  /\ Goes(t, "Running")
  /\ Says(t[1], "Working")
  /\ UNCHANGED <<setting, lead, header, conflict, integration, review, result,
                 tree, holder, linked, registered, todo, saw, ending>>

(* A run that never got its tool going ends without having worked.         *)
RunEnds(t) ==
  /\ t \in Runs /\ at[t] \in Processes
  /\ setting.prompt => \A h \in Helpers : record[h] # "Ready"
  /\ \E state \in {"Finished", "Stopped", "Failed"} :
       /\ at[t] = "Launched" => state # "Finished"
       /\ Says(t[1], state)
  /\ registered' = registered \ {t[1]}
  /\ Goes(t, "Judging")
  /\ UNCHANGED <<setting, lead, header, conflict, integration, review, result,
                 tree, holder, linked, todo, saw, ending>>

ReviewReports ==
  /\ at[Review] = "Launched"
  /\ Goes(Review, "Running")
  /\ review' = IF 0 \in linked THEN "Working" ELSE review
  /\ UNCHANGED <<setting, lead, header, record, conflict, integration, result,
                 tree, holder, linked, registered, todo, saw, ending>>

ReviewEnds ==
  /\ at[Review] \in Processes
  /\ \E state \in {"Finished", "Stopped", "Failed"} :
       /\ at[Review] = "Launched" => state # "Finished"
       /\ review' = IF 0 \in linked THEN state ELSE review
  /\ registered' = registered \ {0}
  /\ Goes(Review, "Reading")
  /\ UNCHANGED <<setting, lead, header, record, conflict, integration, result,
                 tree, holder, linked, todo, saw, ending>>

(***************************************************************************)
(* Judging and folding in (advance_graph_after_helper_completion).         *)
(***************************************************************************)
(* enforce_completion_condition judges the session it was given: a helper  *)
(* that finished without doing what it was asked is to be refused.         *)
Judge(t) ==
  /\ t \in Runs \cup Answers /\ at[t] = "Judging"
  /\ record[t[1]] = "Finished" /\ setting.strict
  /\ Goes(t, "Refusing")
  /\ UNCHANGED <<setting, file, tree, holder, linked, registered, todo, saw, ending>>

(* refuse_completion: whatever the record says by then, it is Failed, and  *)
(* the work is not folded in.                                              *)
Refuse(t) ==
  /\ at[t] = "Refusing"
  /\ Records(t[1], "Failed")
  /\ Goes(t, "Refused")
  /\ UNCHANGED <<setting, lead, header, conflict, integration, review, result,
                 tree, holder, linked, registered, todo, saw, ending>>

(* Only a helper that finished has something to integrate, and the session *)
(* read here is the one that says whether there is a worktree for it.      *)
Accept(t) ==
  /\ t \in Runs \cup Answers /\ at[t] = "Judging"
  /\ Goes(t, IF record[t[1]] # "Finished" THEN "Scheduling"
             ELSE IF integration THEN "Queued" ELSE "QueuedToMake")
  /\ UNCHANGED <<setting, file, tree, holder, linked, registered, todo, saw, ending>>

(* ensure_integration_worktree, for a task whose session had one recorded  *)
(* or had not.  In the second case it makes one on a branch that must not  *)
(* exist yet: where another task made it meanwhile git refuses, as it may  *)
(* for any other reason, and the pass is over with a note on the helper.   *)
EnsureWorktree(t) ==
  \/ /\ at[t] = "Queued" \/ (at[t] = "QueuedToMake" /\ ~integration)
     /\ holder' = {t} /\ integration' = TRUE
     /\ Goes(t, "Looking")
  \/ /\ at[t] = "QueuedToMake" /\ (integration \/ setting.faults)
     /\ Goes(t, "Scheduling")
     /\ UNCHANGED <<holder, integration>>

(* Mutant: two helpers that finished together integrate together.          *)
TakeLockUnguarded(t) ==
  /\ t \in Runs \cup Answers
  /\ EnsureWorktree(t)
  /\ UNCHANGED <<setting, lead, header, record, conflict, review, result, tree,
                 linked, registered, todo, saw, ending>>

(* with_integration_lock around it.                                        *)
TakeIntegrationLock(t) ==
  /\ t \in Runs \cup Answers /\ holder = {}
  /\ EnsureWorktree(t)
  /\ UNCHANGED <<setting, lead, header, record, conflict, review, result, tree,
                 linked, registered, todo, saw, ending>>

(* read_to_string: a file that is not there, or is not text, is taken for  *)
(* what every helper started from.                                         *)
Unreadable == {Gone} \cup {h \in Helpers : setting.work[h] = "Binary"}
Reads(f) == IF tree[f] \in Unreadable THEN Base ELSE tree[f]

Look(t) ==
  /\ t \in Runs \cup Answers /\ at[t] = "Looking"
  /\ saw' = [saw EXCEPT ![t] = Reads(setting.touches[t[1]])]
  /\ Goes(t, "Folding")
  /\ UNCHANGED <<setting, file, tree, holder, linked, registered, todo, ending>>

(* as_text_of_operation: what a helper leaves, seen as text.               *)
AsText(h) ==
  CASE setting.work[h] = "Text"    -> h
    [] setting.work[h] = "Binary"  -> Garbled(h)
    [] setting.work[h] = "Deleted" -> Empty

(* graph::detect_conflict for the file the helper changed.                 *)
Conflicts(h, integrated) == integrated \notin {Base, AsText(h)}

(* apply_operation: the file is written, or removed; a file it was renamed *)
(* from is removed as well, whatever is in it.                             *)
Leaves(h) == IF setting.work[h] = "Deleted" THEN Gone ELSE h
Applied(h) ==
  [f \in Files |-> IF f = setting.touches[h] THEN Leaves(h)
                  ELSE IF f \in setting.moves[h] THEN Gone ELSE tree[f]]

(* A disk that refuses leaves everything, a file that was written but not  *)
(* renamed, or one that was renamed but not written.                       *)
HalfApplied(h) ==
  {tree, [tree EXCEPT ![setting.touches[h]] = Leaves(h)]} \cup
  {[tree EXCEPT ![setting.touches[h]] = IF tree[f] = Base THEN Displaced ELSE tree[f],
                ![f] = Gone] : f \in {g \in setting.moves[h] : tree[g] # Gone}}

(* integrate_helper_into.  A text that is there already is not written     *)
(* again; a removal is always made.                                        *)
FoldIn(t) ==
  /\ t \in Runs \cup Answers /\ at[t] = "Folding"
  /\ LET h == t[1] IN
     \/ /\ Conflicts(h, saw[t])
        /\ conflict' = [conflict EXCEPT ![h] = saw[t]]
        /\ Records(h, "NeedsInput")
        /\ UNCHANGED tree
     \/ /\ ~Conflicts(h, saw[t])
        /\ IF saw[t] = AsText(h) /\ setting.work[h] # "Deleted"
           THEN UNCHANGED tree
           ELSE tree' \in {Applied(h)} \cup (IF setting.faults THEN HalfApplied(h) ELSE {})
        /\ UNCHANGED <<conflict, record>>
  /\ holder' = {}
  /\ saw' = [saw EXCEPT ![t] = Base]
  /\ Goes(t, "Scheduling")
  /\ UNCHANGED <<setting, lead, header, integration, review, result, linked,
                 registered, todo, ending>>

(***************************************************************************)
(* What may start now (graph::schedule), and what never will.              *)
(***************************************************************************)
(* Mutant: a helper whose dependency ended badly goes on waiting.          *)
NoneAbandoned == {}

Abandoned == {h \in Helpers : /\ record[h] \in Waiting
                              /\ \E d \in setting.deps[h] : record[d] \in Dead}
(* Mutant: a helper that works already counts as ready.                    *)
ReadyOrWorking ==
  {h \in Helpers : /\ record[h] \in Waiting \cup {"Working"}
                   /\ \A d \in setting.deps[h] : record[d] = "Finished"}

Ready == {h \in Helpers : /\ record[h] \in Waiting
                          /\ \A d \in setting.deps[h] : record[d] = "Finished"}
Slots ==
  LET active == Cardinality({h \in Helpers : record[h] \in Live})
  IN IF active < MaxConcurrent THEN MaxConcurrent - active ELSE 0
Decision == First(Ready, Slots)

(* start_or_check_lead_review on the session as it was just read.  The     *)
(* lead it looks at is the first record without a parent.                  *)
ReviewStep ==
  CASE setting.planTurn \/ lead # "Working"               -> "Idle"
    [] \E h \in setting.jobs : record[h] \notin Terminal  -> "Idle"
    [] review # "None" /\ review \notin Terminal          -> "Idle"
    [] review # "None" /\ review \in Terminal             -> "Building"
    [] review = "None" /\ ~integration                    -> "FinishingDirect"
    [] review = "None" /\ integration                     -> "Reviewing"

(* maybe_start_review_or_finish_graph: a task that goes on to build the    *)
(* result takes along what it read of the review.                          *)
LookAtReview(t) ==
  /\ Goes(t, ReviewStep)
  /\ ending' = [ending EXCEPT ![t] = IF ReviewStep = "Building" THEN review ELSE @]

(* Launch what is ready, and look at the review only when nothing is.      *)
Decide(t) ==
  IF Decision # {}
  THEN Goes(t, "Launching") /\ todo' = [todo EXCEPT ![t] = Decision] /\ UNCHANGED ending
  ELSE LookAtReview(t) /\ todo' = [todo EXCEPT ![t] = {}]

Schedule(t) ==
  /\ at[t] = "Scheduling"
  /\ IF Abandoned # {}
     THEN Goes(t, "Abandoning") /\ todo' = [todo EXCEPT ![t] = Abandoned] /\ UNCHANGED ending
     ELSE Decide(t)
  /\ UNCHANGED <<setting, file, tree, holder, linked, registered, saw>>

(* mark_abandoned_helpers: those that have not started meanwhile.          *)
Abandon(t) ==
  /\ at[t] = "Abandoning"
  /\ record' = [h \in Helpers |-> IF h \in todo[t] /\ record[h] \in Waiting
                                  THEN "Failed" ELSE record[h]]
  /\ Goes(t, "Rescheduling")
  /\ todo' = [todo EXCEPT ![t] = {}]
  /\ UNCHANGED <<setting, lead, header, conflict, integration, review, result,
                 tree, holder, linked, registered, saw, ending>>

(* The session is read once more; who is abandoned now is not looked at.   *)
Reschedule(t) ==
  /\ at[t] = "Rescheduling"
  /\ Decide(t)
  /\ UNCHANGED <<setting, file, tree, holder, linked, registered, saw>>

(* After a refusal only the review is looked at.                           *)
AfterRefusal(t) ==
  /\ at[t] = "Refused"
  /\ LookAtReview(t)
  /\ UNCHANGED <<setting, file, tree, holder, linked, registered, todo, saw>>

(***************************************************************************)
(* The review and the end (start_or_check_lead_review, launch_lead_review, *)
(* finish_graph_with_combined_result).                                     *)
(***************************************************************************)
(* There was no integration worktree: nothing to review.  The write does   *)
(* not look again at the state of the lead.                                *)
FinishDirect(t) ==
  /\ at[t] = "FinishingDirect"
  /\ lead' = "Finished" /\ header' = "Finished"
  /\ Goes(t, "Idle")
  /\ UNCHANGED <<setting, record, conflict, integration, review, result, tree,
                 holder, linked, registered, todo, saw, ending>>

(* Mutant: the review is recorded without looking again under the lock.    *)
RecordReviewUnchecked(t) ==
  /\ at[t] = "Reviewing"
  /\ review' = "Preparing" /\ Goes(t, "LaunchingReview")
  /\ UNCHANGED <<setting, lead, header, record, conflict, integration, result,
                 tree, holder, linked, registered, todo, saw, ending>>

(* Under the lock: if another task recorded the review meanwhile, it owns  *)
(* launching it.                                                           *)
RecordReview(t) ==
  /\ at[t] = "Reviewing"
  /\ IF review = "None"
     THEN review' = "Preparing" /\ Goes(t, "LaunchingReview")
     ELSE Goes(t, "Idle") /\ UNCHANGED review
  /\ UNCHANGED <<setting, lead, header, record, conflict, integration, result,
                 tree, holder, linked, registered, todo, saw, ending>>

(* A review whose tool is missing ends the graph at once.                  *)
LaunchReview(t) ==
  /\ at[t] = "LaunchingReview"
  /\ linked' = linked \cup {0}
  /\ \/ /\ registered' = registered \cup {0}
        /\ at' = [at EXCEPT ![t] = "Idle", ![Review] = "Launched"]
        /\ UNCHANGED review
     \/ /\ setting.faults
        /\ review' = "Failed"
        /\ Goes(t, "Reading")
        /\ UNCHANGED registered
  /\ UNCHANGED <<setting, lead, header, record, conflict, integration, result,
                 tree, holder, todo, saw, ending>>

(* After the review's own task has ended, or could not start, the session  *)
(* is read once more; a lead that does not work any longer is left alone.  *)
ReadReview(t) ==
  /\ at[t] = "Reading"
  /\ IF lead # "Working" \/ setting.planTurn
     THEN Goes(t, "Idle") /\ UNCHANGED ending
     ELSE Goes(t, "Building") /\ ending' = [ending EXCEPT ![t] = review]
  /\ UNCHANGED <<setting, file, tree, holder, linked, registered, todo, saw>>

(* Mutant: the result may be missing and the graph is Finished all the same. *)
OutcomeOfReviewOnly(state, built) == IF state = "Finished" THEN "Finished" ELSE "Failed"

(* graph_finish_outcome.                                                   *)
Outcome(state, built) ==
  IF ~built THEN "Failed"
  ELSE IF state \in {"Finished", "Stopped"} THEN state ELSE "Failed"

(* The combined result is built from the worktree.  What was read of the   *)
(* review, and whether the result was written, decide how the graph ends.  *)
Build(t) ==
  /\ at[t] = "Building"
  /\ \E built \in {TRUE} \cup {~setting.faults} :
       /\ result' = (result \/ built)
       /\ ending' = [ending EXCEPT ![t] = Outcome(@, built)]
  /\ Goes(t, "Finishing")
  /\ UNCHANGED <<setting, lead, header, record, conflict, integration, review,
                 tree, holder, linked, registered, todo, saw>>

(* Mutant: a graph that was stopped while its result was built finishes.   *)
FinishUnchecked(t) ==
  /\ at[t] = "Finishing"
  /\ lead' = ending[t] /\ header' = ending[t]
  /\ ending' = [ending EXCEPT ![t] = "None"]
  /\ Goes(t, "Idle")
  /\ UNCHANGED <<setting, record, conflict, integration, review, result, tree,
                 holder, linked, registered, todo, saw>>

(* Only a lead that still works takes the outcome.                         *)
Finish(t) ==
  /\ at[t] = "Finishing"
  /\ IF lead = "Working"
     THEN lead' = ending[t] /\ header' = ending[t]
     ELSE UNCHANGED <<lead, header>>
  /\ ending' = [ending EXCEPT ![t] = "None"]
  /\ Goes(t, "Idle")
  /\ UNCHANGED <<setting, record, conflict, integration, review, result, tree,
                 holder, linked, registered, todo, saw>>

(***************************************************************************)
(* The person, the window and the app.                                     *)
(***************************************************************************)
(* agent_session_resolve_conflict: the chosen text is written into the     *)
(* integration worktree outside of any lock (a write that fails leaves     *)
(* everything as it was), then the helper is Finished again and its task   *)
(* starts over.  Bound: one answer per helper at a time.                   *)
Answer(t) ==
  /\ t \in Answers /\ at[t] = "Idle"
  /\ conflict[t[1]] # Base
  /\ \E text \in {AsText(t[1]), conflict[t[1]], Merged} :
       tree' = [tree EXCEPT ![setting.touches[t[1]]] = text]
  /\ Goes(t, "Answering")
  /\ UNCHANGED <<setting, file, holder, linked, registered, todo, saw, ending>>

(* Mutant: the answered helper's task is not started over.                 *)
AnsweredQuietly(t) ==
  /\ at[t] = "Answering"
  /\ conflict' = [conflict EXCEPT ![t[1]] = Base]
  /\ Records(t[1], "Finished")
  /\ Goes(t, "Idle")
  /\ UNCHANGED <<setting, lead, header, integration, review, result, tree,
                 holder, linked, registered, todo, saw, ending>>

Answered(t) ==
  /\ at[t] = "Answering"
  /\ conflict' = [conflict EXCEPT ![t[1]] = Base]
  /\ Records(t[1], "Finished")
  /\ Goes(t, "Judging")
  /\ UNCHANGED <<setting, lead, header, integration, review, result, tree,
                 holder, linked, registered, todo, saw, ending>>

(* stop_execution_at with StopScope::All, once its signals are answered or *)
(* given up on: a record without a process counts as stopped.              *)
StopAll ==
  LET helpers == {h \in Helpers : record[h] \in Live}
      reviews == IF review \in Live THEN {0} ELSE {}
  IN /\ helpers \cup reviews # {} \/ lead \in Live
     /\ record' = [h \in Helpers |-> IF h \in helpers THEN "Stopped" ELSE record[h]]
     /\ review' = IF review \in Live THEN "Stopped" ELSE review
     /\ lead' = IF lead \in Live THEN "Stopped" ELSE lead
     /\ header' = "Stopped"
     /\ linked' = linked \ (helpers \cup reviews)
     /\ UNCHANGED <<setting, conflict, integration, result, tree, holder,
                    registered, at, todo, saw, ending>>

(* agent_session_get: records that look alive and are not in the registry  *)
(* are Interrupted, the lead of the graph too: it has no process.  A       *)
(* helper that waits with a conflict is left alone.                        *)
ReadSession ==
  /\ setting.reads
  /\ record' = [h \in Helpers |->
       IF record[h] \in Live /\ h \notin registered /\ conflict[h] = Base
       THEN "Interrupted" ELSE record[h]]
  /\ review' = IF review \in Live /\ 0 \notin registered THEN "Interrupted" ELSE review
  /\ lead' = IF lead \in Live THEN "Interrupted" ELSE lead
  /\ header' = IF header \in Live /\ registered = {} THEN "Interrupted" ELSE header
  /\ UNCHANGED <<setting, conflict, integration, result, tree, holder, process>>

(* The app is closed and opened again: every task is gone, and what looked *)
(* alive has Failed (recover_orphaned_executions).                         *)
CloseApp ==
  /\ setting.closes
  /\ \E t \in Tasks : at[t] # "Idle"
  /\ record' = [h \in Helpers |->
       IF record[h] \in Live /\ conflict[h] = Base THEN "Failed" ELSE record[h]]
  /\ review' = IF review \in Live THEN "Failed" ELSE review
  /\ lead' = IF lead \in Live THEN "Failed" ELSE lead
  /\ header' = IF header \in Live /\ \A h \in Helpers : record'[h] \notin Live
                  /\ (record' # record \/ review' # review \/ lead' # lead)
               THEN "Failed" ELSE header
  /\ holder' = {} /\ linked' = {} /\ registered' = {}
  /\ at' = [t \in Tasks |-> "Idle"]
  /\ todo' = [t \in Tasks |-> {}]
  /\ saw' = [t \in Tasks |-> Base]
  /\ ending' = [t \in Tasks |-> "None"]
  /\ UNCHANGED <<setting, conflict, integration, result, tree>>

Step(t) ==
  \/ LaunchHelper(t) \/ Judge(t) \/ Refuse(t) \/ Accept(t)
  \/ TakeIntegrationLock(t) \/ Look(t) \/ FoldIn(t)
  \/ Schedule(t) \/ Abandon(t) \/ Reschedule(t) \/ AfterRefusal(t)
  \/ FinishDirect(t) \/ RecordReview(t) \/ LaunchReview(t)
  \/ ReadReview(t) \/ Build(t) \/ Finish(t) \/ Answered(t)

Next ==
  \/ \E t \in Tasks : Step(t) \/ RunReports(t) \/ RunEnds(t) \/ Answer(t)
  \/ ReviewReports \/ ReviewEnds
  \/ StopAll \/ ReadSession \/ CloseApp

(* Some thread runs.  A tool may be silent for ever: the review has no     *)
(* deadline (launch_lead_review passes no budget), and a helper's covers   *)
(* neither the time its tool takes to connect nor what checks its work.    *)
(* The person, the window and the app owe nothing, and no task is owed its *)
(* turn before another.                                                    *)
Fairness == WF_vars(\E t \in Tasks : Step(t))

Spec == Init /\ [][Next]_vars /\ Fairness

(***************************************************************************)
(* What is true of a graph.                                                *)
(***************************************************************************)
TypeOK ==
  /\ setting \in Settings
  /\ lead \in {"Working", "Finished"} \cup Dead
  /\ header \in {"Working", "Finished"} \cup Dead
  /\ record \in [Helpers -> {"Absent"} \cup Waiting \cup Live \cup Terminal]
  /\ conflict \in [Helpers -> Contents]
  /\ integration \in BOOLEAN /\ result \in BOOLEAN
  /\ review \in {"None"} \cup Live \cup Terminal
  /\ tree \in [Files -> Contents]
  /\ holder \in SUBSET Tasks
  /\ linked \subseteq 0..NumHelpers /\ registered \subseteq 0..NumHelpers
  /\ at \in [Tasks -> Steps]
  /\ todo \in [Tasks -> SUBSET Helpers]
  /\ saw \in [Tasks -> Contents]
  /\ ending \in [Tasks -> {"None"} \cup Live \cup Terminal]
  /\ \A t \in Tasks : at[t] = "Finishing" => ending[t] \in {"Finished", "Stopped", "Failed"}

(* However many helpers end at the same moment, one review is launched: a  *)
(* second concurrent task finds review_execution_id recorded under the     *)
(* session lock and leaves the launch to the first.                        *)
LaunchesOfReview == {t \in Tasks : at[t] = "LaunchingReview"}
OneReview ==
  /\ \A s, t \in LaunchesOfReview : s = t
  /\ LaunchesOfReview # {} => at[Review] = "Idle"

(* A file that helpers only ever write as text: none removes it, leaves    *)
(* something else than text there, or renames a file from it or to it.     *)
OnlyWritten(f) ==
  \A h \in Helpers :
    /\ setting.touches[h] = f => setting.work[h] = "Text" /\ setting.moves[h] = {}
    /\ f \notin setting.moves[h]

(* What one helper wrote into such a file of the integration worktree is   *)
(* never overwritten by another's integration, whatever the helpers do to  *)
(* other files: once it has changed since the base it only changes again   *)
(* by a person's answer to a conflict about it.  For the other files the   *)
(* code does not keep it, since integrate_helper_into takes a file it      *)
(* cannot read for the base, and apply_operation renames without looking.  *)
NothingOverwritten ==
  [][\A f \in Files :
       OnlyWritten(f) /\ tree'[f] # tree[f] /\ tree[f] # Base =>
         \E t \in Answers : /\ setting.touches[t[1]] = f /\ conflict[t[1]] # Base
                            /\ at[t] = "Idle" /\ at'[t] = "Answering"]_vars

(* A graph becomes Finished after its review finished and the combined     *)
(* result was written; only where a task found no integration worktree is  *)
(* there nothing to review.                                                *)
FinishedWasReviewed ==
  [][lead = "Working" /\ lead' = "Finished" =>
       (review = "Finished" /\ result) \/ \E t \in Tasks : at[t] = "FinishingDirect"]_vars

(* A graph that was stopped, or ended in any other way, is not ended again *)
(* by a task that read it while it still worked; the write of a graph with *)
(* nothing to review is the one that does not look again.                  *)
EndStands ==
  [][lead # "Working" /\ lead' # lead =>
       \E t \in Tasks : at[t] = "FinishingDirect"]_vars

(* Where no helper ends before all of the first have reported, the tasks   *)
(* that schedule at the same time start no helper twice, and no more of    *)
(* them run than may.                                                      *)
RunsOf(h) == {t \in Runs : t[1] = h /\ at[t] \in Processes}
OneRunEach ==
  setting.prompt /\ ~setting.closes =>
    /\ \A h \in Helpers : Cardinality(RunsOf(h)) <= 1
    /\ Cardinality({t \in Runs : at[t] \in Processes}) <= MaxConcurrent

(* Helpers that depend on nothing and all run at once, tools and disks     *)
(* that work, and nobody who asks for the session meanwhile: if no process *)
(* is silent for ever, the graph ends, or waits for a person to answer a   *)
(* conflict.                                                               *)
ProcessesEnd == \A t \in Runs \cup {Review} : []<>(at[t] \notin Processes)
Calm == ~setting.planTurn /\ ~setting.reads /\ ~setting.faults
GraphEnds ==
  ProcessesEnd =>
    ((Calm /\ Housed = setting.jobs /\ lead = "Working")
       ~> (lead # "Working" \/ \E h \in Helpers : conflict[h] # Base))

(* A helper that waits for one that ended badly is given up, so that it    *)
(* does not keep the graph from its end.                                   *)
WaitsInVain(h) ==
  /\ Calm /\ ~setting.strict /\ lead = "Working"
  /\ record[h] \in Waiting
  /\ setting.deps[h] \subseteq Housed
  /\ \E d \in setting.deps[h] : record[d] \in Dead
GivenUp == \A h \in Helpers : WaitsInVain(h) ~> (record[h] \notin Waiting \/ lead # "Working")

(***************************************************************************)
(* A claim of the comments that the code does not keep                     *)
(***************************************************************************)

(* "Once every helper node has reached a terminal state (... nothing left  *)
(* Ready, Draft, Preparing, Working, or blocked-with-a-conflict            *)
(* NeedsInput)" a review turn is launched: no helper is put back to        *)
(* NeedsInput by a conflict once the review runs.                          *)
ReviewSeesEverything ==
  at[Review] \in Processes /\ setting.prompt =>
    \A h \in Helpers : record[h] # "NeedsInput"
=============================================================================
