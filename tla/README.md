# GitWyrm: verification of its concurrent parts

GitWyrm is a desktop Git client (Tauri: a Rust backend in `src/src-tauri/src`, a
TypeScript window in `src/src`). Much of it calls libgit2 or git and shows the
answer. Its largest part is a concurrent system of its own: the **Agent Desk**,
which runs external AI tools on the user's repository, several at once, across
restarts of the application, and keeps one durable file per chat. Around it are
background jobs that touch the same repositories: the job that gets the latest of
all of them, the watcher that notices what other programs do, and the layout of
the history that is drawn from what it notices. This directory holds their
TLA+ specifications, the TLC models that check them and the proofs that hold
for every size of the system.

Contents: [the system](#the-system), [what is modelled](#what-is-modelled),
[the runs](#the-runs), [what is proved](#what-is-proved),
[disagreements found](#disagreements-between-the-code-and-what-it-says),
[what is not modelled](#what-is-not-modelled), [the plan](#the-plan),
[running it](#running-it).

## The system

### Components, their state and how they meet

| component | code | state | operations |
|---|---|---|---|
| session store | `agentdesk/store.rs`, `agentdesk/model.rs`, `agentdesk/locks.rs` | one JSON file per session (header, executions, transcript), an index of headers, a mutex per session | read, write, rebuild the index; every read-modify-write under the session's mutex |
| execution lifecycle | `commands/agent_desk.rs`, `agentdesk/execution_registry.rs` | `ExecutionRegistry` (live processes and their cancel handles), answer channels | start, stop one or all, answer a gate, read and reconcile, delete |
| run task | `airun/cli_run.rs`, `airun/driver.rs`, `agentdesk/auditor.rs` | locals of `run_task`: turn, deadline, budget, corrections; a `CancelHandle` | connect, prompt, permission gates, cancel, audit, correction turns |
| event routing | `agentdesk/bridge.rs`, `commands/airun.rs` | `RunSessionLinks`: execution to session, last number per execution | number, fold into the file, emit, follow through on the end |
| window | `stores/agentSessionStore.ts`, `hooks/useAgentSessions.ts` | an overlay of live messages, a cached query | apply an event, invalidate and refetch, merge, prune |
| startup recovery | `agentdesk/session_recovery.rs`, `commands/agent_result.rs` | none of its own | close runs left live, sweep leftover worktrees |
| agent graph | `agentdesk/graph.rs`, `commands/agent_graph.rs` | the proposed and started graph in the session, an integration worktree | propose, start, launch helpers, integrate, resolve a conflict, review, finish |
| result review | `commands/agent_result.rs`, `agentdesk/result.rs`, `ResultReviewPanel.tsx` | a results file per session, worktrees | build, list, keep, send back, undo, commit, clean up |
| update all | `commands/update_all.rs`, `commands/branch.rs`, `commands/remote.rs` | `JobsInner`: one running job, its cancel flag, its last report | start, cancel, fetch, set aside, move, put back |
| watcher and refresh | `watcher.rs`, `useRepoWatcher.ts`, `queryKeys.ts` | a signature per repository, the operations in flight, the queries of the window | watch, report, poll, hold back, replay, close |
| commit graph | `git/graph.rs`, `commands/log.rs`, `graphTracks.ts`, `GraphSvg.tsx` | the lanes of one walk, the rows that are loaded | assign lanes, merge stashes into rows, route dashed lines |
| submodules | `git/submodule.rs`, `git/head_attach.rs`, `commands/submodule.rs` | none of its own: the pin in the parent's index, HEAD and the branches of the submodule | follow the pin, attach, pull, snap back, bump, sync |
| scripted runs | `airun/session.rs`, `airun/scripted.rs` | `SessionRegistry`: one run per repository | start, record, answer, end |

They interact through shared state rather than calls. A start call writes the
record and the link, registers the process and spawns the run task. The task
reports through a synchronous sink: number, session mutex, file, emit. A stop
stores a cancel in the handle, waits for the registry entry to go, and then
writes the file itself. A read reconciles the file with the registry. The
window learns of all this from emitted events and from its own queries, which
race each other. The graph launches and stops executions through the same
registry, file and links, and leaves a combined result to the review. The update
job takes the lock of a repository that is open in a tab, and what it moves
comes back to the window as a change the watcher reports.

The rest of GitWyrm (push and pull, worktrees, staging, merges, hosting, settings, windows) is listed component by
component in `PROJECT.json` with the reason it is or is not modelled.

### What is hard about it

- **Interleaving.** Two start calls check before they write. A stop, a read and
  the run's own events reach one file in any order.
- **Gaps between locks.** A start holds no lock between its durable record and
  its registry entry; a stop reads its targets under the lock and acts on them
  after it; a read looks at the registry before it takes the lock.
- **Blocking.** A run at a permission gate blocks its task on a synchronous
  receive, and with it the cancel and the deadline of the `select!` loop.
- **Failure.** Each write of the session file may fail, and its caller goes on.
  The application may die at any step; only the file and the worktrees remain.
- **Timeouts.** The stop call's patience, the tool's time to acknowledge a
  cancel and the shutdown of its process are three clocks.
- **Nobody in charge.** No thread drives a graph: each helper's own task hands on
  to the next, from a session file it read some steps ago.
- **Long work outside of locks.** The walk of a worktree, a git commit and a fetch
  run unlocked between a look and a write.
- **Other programs.** The user edits, merges and commits in an editor and a
  terminal; the operating system may not say so.
- **Ordering.** Events are emitted after the mutex is released, and the window's
  query can answer with an older copy of the file than its overlay.

### What makes each component correct

- Session: at most one lead execution is live; what reads as running is running;
  a refused start leaves no record and no route behind; what a stop reports as stopped
  is over.
- Run task: nothing is granted that the user did not approve; work the auditor
  rejected is not called finished; a cancel gets through; a run ends.
- Routing: a number is missing exactly when an event is missing from the file;
  the transcript has every row once, in order.
- Window: what was shown stays shown; it comes to show what the file has.
- Graph: one review, each helper run once, no helper's text replaced by another's,
  an end that stands, and an end at all.
- Results: keep, undo and commit do not write over each other, what reads as
  committed has landed, and no commit is silent.
- Update all: no edit is lost, whatever fails; what is reported as left alone was;
  a job ends.
- Refresh: a change that the watcher can notice is shown in the end.
- Commit graph: no two lines of history are drawn over each other, the line of the
  checked-out branch is straight, and dashed lines cross nothing.
- Submodules: no commit loses the last thing that leads to it, branches only advance
  but for a pull that rebases, and a checkout ends where it is reported to be.

## What is modelled

| module | what it is | code |
|---|---|---|
| `ExecutionLedger` | abstract: a session is a ledger of executions, at most one open | the promise of `agent_desk.rs` and `bridge.rs` |
| `AgentExecution` | one session: starts, events, stops, reads, crashes, recovery | `agent_desk.rs`, `execution_registry.rs`, `bridge.rs`, `session_recovery.rs` |
| `RunContract` | abstract: the phases `AgentExecution` gives a run | `run_task` as its callers see it |
| `AgentRun` | one run task in detail | `cli_run.rs`, `auditor.rs`, `agent_desk.rs` (answers) |
| `SessionEvents` | one chat from the runs to the screen | `bridge.rs`, `airun.rs`, `agentSessionStore.ts`, `useAgentSessions.ts` |
| `AgentGraph` | one started graph: helpers, integration, conflicts, review, end | `agent_graph.rs`, `graph.rs` |
| `ResultReview` | one result between two panels, rebuilds and a person's editor | `agent_result.rs`, `result.rs` |
| `UpdateAll` | one update job over several repositories | `update_all.rs`, `branch.rs`, `remote.rs` |
| `RepoRefresh` | one open repository from a change to the drawn graph | `watcher.rs`, `useRepoWatcher.ts`, `queryKeys.ts` |
| `CommitGraph` | the layout of one history | `graph.rs`, `log.rs`, `graphTracks.ts`, `GraphSvg.tsx` |
| `SubmoduleFollow` | one submodule of a repository that moves its pin | `submodule.rs`, `head_attach.rs`, `remote.rs`, `branch.rs`, `merge.rs` |
| `*_proofs` | the theorems; those of `UpdateAll` and of `RepoRefresh` share `BackgroundJobs_proofs`, so the second names its parts `Refresh...` | |
| `MC*` | constants of the TLC models | |

`AgentExecution` implements `ExecutionLedger` by a refinement mapping, and
`AgentRun` implements `RunContract` by another. `map` in `PROJECT.json` names
the lines behind each definition.

### AgentExecution

One session, because every lock and map is keyed by session or execution; what
other sessions do to it is to rebuild the shared index (`OtherSessionSaves`).

The granularity is the one the code has: a closure passed to
`with_session_lock` is one step, and whatever the code does between two of
them is a step of its own. So a start call is `StartCheck` (first look under
the lock), `StartProvision` (a worktree), `StartLink`, `StartDiscoverFails`,
`StartRecord` (second check and write in one critical section) and `StartLaunch`
(registry and spawn); a stop is `StopRead`, `StopSignal`, `StopAcknowledged` or
`StopTimesOut`, `StopWrite`, `StopUnlink`; a read is `GetReadsLiveness` and then
`GetReconciles`. A run's event waits in `event` until `ApplyEvent` gets the lock,
and its task waits with it, as the synchronous sink does. A start that is refused takes
back what it made (`Unwind`); removing its worktree may fail, and then it stays
(`"LeftBehind"`). An audited run calls its auditor (`RunCallsAuditor`) before it asks it
(`RunAudits`), because a cancel reaches only the second. `Restart` keeps the
file, the index and the worktrees, drops everything else and runs the sweep. Of the
header the index repeats, the model keeps whether it is live (`Entry`): nothing asks more.

Simplifications: a run is created only by the start call that mints its
identifier; `CanWrite` fixes for the session whether runs have a worktree and
are audited (a started Plan run has the worktree and no audit, which is a subset
of both behaviours); transcript and numbers are in `SessionEvents`; helpers are
in `AgentGraph`. `unsaved` is bookkeeping.

### AgentRun

`phase` is where `run_task` is; `gate` and `answers` are the open permission
request and the channel the user's answers wait in, in order; `permit` is the
cancel a `Notify` stores; `cancelling` is `cancel_requested` of the current
turn. The tool, its auditor and the user are the environment: `ToolCall`,
`AskPermission(c)`, `TurnEnds(reason)`, `Judge(v)`, `SendAnswer(a)`,
`PressStop`. Connecting to the tool and to the auditor are phases of their own
(`"Connecting"`, `"CallingAuditor"`), with no way out for a cancel or a deadline. While a
gate is open no branch of the `select!` is polled, so
`SeeCancel`, `CancelTimeout` and `BudgetTimeout` need `gate = NoGate`.
The policy is the constant `Permitted`. `allowed` and `granted` are bookkeeping.

### SessionEvents

Three actors and two queues between them. A run takes a number (`Say`), then
its event is folded into the file under the lock (`RoutePersists`), ignored
with its number handed back (`RouteIgnored`), or lost with its number kept
(`RouteWriteFails`, and a chat it cannot read is one of the reasons); only then is it emitted (`Emit`), so two executions can
emit in another order than they wrote. The window handles one event at a
time (`Receive` is `applyEvent` and the invalidation behind it). Its query is
asked (`fetch = "Wanted"`), answered from the file as it is then
(`FetchReads`) and shown later (`FetchReturns`). A read that fails is an answer too: the
command returns it as data, and the window shows that there is no chat (`found`). An invalidation drops a request
in flight, except the very first: while the query has no data the library
returns the request it already has. `View` is `mergeSessionMessages`, as a function
of the place at which a message is shown (the file's rows, then what only the
overlay has); `Prune` is the effect that drops the overlay.

A message is its execution, its kind and the numbers of the events folded into
it: the identifier comes from the first, the sequence is the last. Steps
are abstracted to text (`Note`), other rows (`Activity`), costs (`Usage`, no row)
and the end (`Ended`). The window's listener is assumed to be registered. Deliveries are not lost, because `app.emit` to
one's own window does not lose them.

### AgentGraph

The tasks are the actors: the n-th process of a helper and what follows it, the
command that answers a conflict, the review, and the command that started the
graph. `at[t]` is where a task is between two reads or writes of the file; `todo`,
`saw` and `ending` are what it read and carries along. After a process has ended
its task reads the session and judges (`Judge`, `Accept`) and writes a refusal later
(`Refuse`), folds in under the integration lock (`TakeIntegrationLock`, `Look`, `FoldIn`), asks the scheduler (`Schedule`,
`Abandon`, `Reschedule`), and launches (`LaunchHelper`) or looks whether the review
may begin (`RecordReview`, `LaunchReview`, `FinishDirect`). The review's task
reads once more (`ReadReview`), builds (`Build`) and ends the graph (`Finish`).
`StopAll`, `ReadSession` and `CloseApp` are what `AgentExecution` does for a lead,
as it reaches the records of a graph.

Whether there is an integration worktree is what the task read before it waited for the
lock, so a task that read too early tries to make a second one and git refuses it
(`EnsureWorktree`).

A setting fixes the circumstances of one graph: its dependencies, the file each
helper changes and what it leaves there (text, something else, no file), the file it
renames to that one, and whether conditions may be unmet, tools be missing, the window
ask and the app be closed. One content per file and helper stands for what it wrote,
since `detect_conflict` only asks whether texts differ. What the code takes for the text
of a file is modelled as it does it: a file that is missing or is not text reads as the
base (`Reads`), and what is not text has a garbled text of its own (`AsText`). Worktrees
of helpers are given at the start (`Housed`), as in `start_graph_at`.

### ResultReview

The record is read and written only under the session lock, so each stretch under
it is a step; the walks, the git commit and the removal are steps outside of it. A
panel offers the buttons of the state it last listed (`shown`), which may be old. An
undo is `UndoPeek`, `UndoCompare`, `UndoWrite`; a commit `CommitPeek`, `CommitInGit`,
`Stamp`; a build `BuildWalk`, `BuildWrite`. A path holds the base's text, the
agent's or someone's own, and a person may take a path back to the base's
(`RevertByHand`). A failed write of the record leaves it as it was.

### UpdateAll

`at[r]` is where the worker of a repository is. `Examine`, `FetchAnswers` or
`FetchStopped`, `Lock`, `Look` are `update_one`; `SetAside`, `CheckOut`, `MoveRef`,
`Follow`, `PutBack`, `Drop` are `fast_forward_branch_to`. All but the update of the
submodules (`Follow`, whose failure is only noted, and which may take for ever) may fail on
their own. The user may check another branch out meanwhile (`SwitchBranch`); `elsewhere`
says that HEAD is not on the branch that was looked at. Edits
are numbered, and the working tree and the stash entries are sets of them, so
losing one is visible. The user edits at any time, and merges. A lock poisoned by
another command panics a worker (`lost`), and the job then never ends (`wedged`).
The upstream is only known after a fetch, so its relation is chosen there. The
putting back takes the newest entry, and no other program stashes in between.

### RepoRefresh

A state of the references is the number of the changes made to them, and a signature is
the number of the last one it covers (`sign`): HEAD, its branch, the index, the reflog of
HEAD and packed-refs move it, a fetch, a tag or a commit on another branch does not. The
watch takes a signature (`Capture`) and
arms (`Arm`); the event handler reads the signature and then records it and tells
the window (`HandlerReads`, `HandlerReports`), the poll reads and compares
(`PollReads`, `PollCompares`), and both share one `last`. The window answers a message
by asking again or by noting that it did not (`Changed`), and the end of its last
operation replays that (`EndOp`). A query reads the repository (`LogReads`)
and arrives later, or ends in an error over the rows there were (`LogFails`). `Change` is a
change by anyone, whose event may be dropped. `base` and `noticed` are bookkeeping.

### CommitGraph

`Place` is one turn of the loop of `get_log` with `LaneState::assign`: the lane that
waits for the commit or the lowest free one, the other lanes that waited freed
(`Released`), the first parent in the same lane (`Continued`), the second in a lane
that waits for it or in a new one (`Forked`). `EmitStash` is the merge of stashes into
the rows in `GraphView`. `Busy` and `Overlay` are `trackIsBusy` and the routing of the
dashed lines on what is drawn so far, so every page size is covered. Lane zero is
reserved for `primary`, any commit `primary_lane_oid` may return.

### SubmoduleFollow

A commit is a number and `past` its history; `tip` and `remote` are the branches, `on`
and `bare` are HEAD, `pin` is what the parent records. Each run of git is one step and
so is what libgit2 reads for one decision. `ReadRefs`, `Slide`, `MakeMain` and `Switch`
are `attach_head`, which the follow, the pull of the submodule's tab, "reset to the
recorded version" and "get the newest" all use: `errand` says for which, so where it
goes on. The follow is `TakePins`, `Operate` (the pull, rebase or switch of the parent), `LookAtPin`,
`CheckUnsaved`, `SetAside`, `Update` and `Report`; the tab takes none of the parent's
locks. The pull of the tab advances the branch, merges, or under
`pull.rebase` makes its own commits again (`Pull`, `Rebase`), as one commit or up to a
conflict. `Sync` is `sync_submodule_workdirs` after a merge, a cherry-pick or a hard reset.
The user commits, switches, makes a branch and stages the pointer at any time, and does
not leave unsaved commits behind by a switch of his own. Where git's failing decides where the code goes on, it may fail: the fetch, the fast-forward
of an attach, the update, before or after the checkout moved, the staging of a bump, and
the look for unsaved commits, which the code takes for none.
Edits of files are left out: the stash is only a step that takes time and may fail.
`quiet`, `replaced` and `commands` are bookkeeping.

## The runs

Twelve runs; eleven must pass, one shows a disagreement (next section but one).

| run | states | shows |
|---|---|---|
| `execution_safety` | 1.6 M | two start calls with their runs, audits, a stop, a read, other sessions' saves and restarts, in every order |
| `execution_liveness` | 21 k | one run while any write may fail: stop calls return, runs that were cancelled once connected end, and nothing reads as running that is not |
| `run_task` | 47 k | one run task of a helper with both budgets, two gates, queued answers and two corrections |
| `chat_window` | 642 k | a lead and its helper write one transcript; the user sends a message; the window receives, refetches, merges and prunes; reads may fail |
| `chat_routing` | 659 k | two leads, the first may be stopped and superseded, over a store whose reads and writes may fail |
| `graph_run` | 246 k | three helpers, two at once, in nine settings: their tasks, an answered conflict, the review, a stop, reads and a restart |
| `result_review` | 4.6 M | two panels and a rebuild on one result, with edits and reverts by hand, failed writes and a closed app |
| `update_all` | 288 k | two repositories under one job, one of them open in a tab, while the user edits, merges, checks out and stops |
| `repo_refresh` | 236 k | two changes and two overlapping operations, with dropped events, changes the signature misses and queries that fail |
| `commit_graph` | 460 k | every history of five commits, of four with a stash and of three with two |
| `submodule_follow` | 647 k | a submodule with two commits of its server and two made in it, under three commands of the application or the user, with pulls that rebase and looks that fail |

### Properties

`AgentExecution`
- `OnlyActiveRecordIsLive`: at most the active execution reads as live. Broken by
  two starts that both pass, or a late event of a superseded run.
- `LiveRecordHasProcess`: a routed record that lost no event is live only while
  its start or its task is. What reads as running and is not can never be
  stopped and blocks the session.
- `RefusedStartLeavesNothing`: no link and no record, whichever check refused, and a
  worktree only where removing it failed.
- `ConfirmedStopIsGone`: what was signalled and is reported as stopped has ended.
- `ImplementsLedger`: every step is a step of the ledger; a settled execution
  comes back to life only while it is the newest.
- `StopReturns`, `CancelledRunEnds`: liveness; the second allows for what holds a
  cancel up, a gate nobody answers and a tool that never answers the connection.

`AgentRun`
- `EveryGrantWasApproved`: the tool is never granted more than the user allowed,
  with answers queued ahead of gates.
- `FinishedIsNotHollow`: no run finishes on a hollow or blocked verdict, however
  the corrections, their budget and a cancel fall together.
- `ImplementsContract`: the task `AgentExecution` assumes.
- `CancelEndsThePhase`, `EveryRunEnds`: a cancel gets through while a turn, an audit or
  a correction runs, and with a tool and an auditor that connect and answer and a user
  who answers, every run ends.

`SessionEvents`
- `NumbersHaveNoHoles`: the numbers handed out are those saved, those reported as
  not saved and the one in flight, which is newer than the record. What is
  released leaves no hole; what is lost leaves one; nothing is taken for a
  duplicate.
- `TranscriptIsFaithful`: each write of the log is in one row of the transcript, once,
  and of two writes the later is in no earlier row and, in the same row, behind; so
  text is glued only to text of the same run with nothing between.
- `WindowCatchesUp`: with nothing on its way, and unless the last read failed, the window shows each message of the
  file once and at its latest. This includes the first request that is not
  repeated, where only the overlay has what came in the meantime.
- `NothingDisappears` (action property): no step removes a message from the
  screen or takes it back to an older text; only a failed read takes the chat, as a
  whole, off the screen. The store fails its reads in this run.
- `WindowSettles`: when the runs fall silent the window comes to show the file,
  or that it could not be read.

`AgentGraph`
- `OneReview`: however many tasks find every helper done at once, one launches the
  review, and only when none runs.
- `OneRunEach`: where no helper ends before the first ones have reported, tasks that
  schedule at the same moment start no helper twice and exceed no limit. Without
  that condition the code does start one twice ([below](#disagreements-between-the-code-and-what-it-says)).
- `NothingOverwritten` (action): a file of the integration worktree that helpers only
  write as text changes once, and then only by a person's answer to a conflict about it,
  whatever the helpers do to other files. Of files that a helper removes, renames, or
  leaves as something else than text, the code does not keep it
  ([below](#disagreements-between-the-code-and-what-it-says)).
- `FinishedWasReviewed` (action): a graph becomes Finished after its review finished
  and the result was written, or where there was nothing to review.
- `EndStands` (action): an ended graph is not ended again by a task that read it
  while it worked. The write of a graph with nothing to review is the exception.
- `GraphEnds`, `GivenUp` (liveness): the graph ends or waits for an answer; a helper
  that waits for a dead one is given up. Both are stated for tools and disks that
  work and a window that does not ask, since the code keeps no more; and the first under
  the condition that no process is silent for ever (`ProcessesEnd`).

`ResultReview`
- `CommittedHasLanded`: a commit on record is in the history, and the history has a
  change of every path the agent changed but those a person took back by hand.
- `NoCommitIsSilent`: every commit made in git was told to someone, is about to be,
  or fell to a failed write or a closed app.
- `UndoAndCommitDoNotCross`, `DecisionOutlivesBuild` (action): long work outside the
  lock never writes over a decision made meanwhile.

`UpdateAll`
- `NothingIsLost`: every edit is in the working tree or in a stash entry, whatever
  fails, clashes or is closed half way.
- `LeftAloneIsUntouched`: a repository reported as skipped, unchanged or left alone was
  not moved and not stashed, however late the stop came.
- `JobEnds` (liveness): whether the servers it fetches from answer or not, unless an
  update of submodules never returns.

`RepoRefresh`
- `NoChangeForgotten`: a change that moved the signature, or whose event came, and that
  the graph neither shows nor is about to read is still to be reported by someone, unless
  the query for it failed.
- `CommitsReachTheGraph` (liveness): such a change is shown while the tab stays open, or
  the query ends in an error.

`CommitGraph`
- `TracksAreExclusive`, `NoDeadLanes`, `HeadLineIsStraight`: above; on each prefix of
  each history.
- `OverlaysAreClear`: the dashed lines cross no node, no edge between two loaded
  commits and not each other.

`SubmoduleFollow`
- `CommitsAreKept` (action): no step takes the last branch or HEAD from a commit made in
  the submodule. Excepted are what the one who moves HEAD did not see (it came after the
  look, or the look failed), what a rebase has made again, and the commands that do not
  look (snap back, bump, merge, hard reset).
- `BranchesOnlyAdvance` (action): whoever moves a branch between the look of an attach
  and its `update-ref`, no branch loses a commit; a pull that rebases takes from it only
  commits of its own.
- `UpdatedIsAtPin`: a submodule reported as updated is at the recorded commit, unless
  somebody else moved one of the two.

Each passing property has a mutant in `PROJECT.json`: a plausible bug in a named
definition that makes TLC report it.

### Bounds, and why they are enough

- Executions: two. The checks compare one execution with the active one, so a
  third adds no case; the proofs hold for any set. `execution_safety` uses
  symmetry (safety only). `execution_liveness` has one, since a stop call and a
  cancel concern one run each, and takes failing writes instead.
- `MaxGates = 2`, `MaxQueued = 2`: one answer too many, waiting for the next gate.
- `MaxCorrections = 2` is the code's own constant; `MaxTurns = 2` leaves one call
  before and one at the limit.
- `MaxEvents`: two numbers per execution, three in the claim: a row, a row that
  may fold into it or be released and taken again, and one after it.
- `MaxInbox = 1` event waiting in the window's queue beside one not yet emitted
  per execution: file, overlay and query can be three versions apart.
- `MaxAppends`: one message of the user between the runs' rows.
- Graph: three helpers and two at once is one more than may run; two files give a
  conflict and none; `MaxLaunches = 2` lets the same helper be launched twice. The
  nine settings of `MCAgentGraph` turn on one difficulty each: unmet conditions,
  reads, faults with a rename, closing, a dependency, a helper too many with an earlier
  turn, a removed file, one that is not text, and none of them. The theorems have no settings to choose from.
- Results: two panels are the two that race; one builder rebuilds as often as it
  likes; two paths, one of the agent's and one of someone else's.
- Update all: one job, two workers, an open and a closed repository; two edits each,
  one before and one during the job. A second job starts from what the first left,
  which the first one's start allows for already.
- Refresh: with two changes, each of handler, poll and query can be behind the other,
  and a change of each kind (covered by the signature, delivered) can come before or
  after one of another; two operations overlap. The proof has no bound.
- Commit graph: five commits suffice for two merges that cross and a fork that is
  reused. The proofs hold for any number.
- Submodule: two commits of the server let the pin, the remote branch and the local one
  be at different places; two made here let one branch diverge and a pull merge.
  `MaxCommands = 3` is a follow, something in the tab and one move of the user or the
  parent; commits are not counted among them.
- `Stoppable` and `Kinds` choose which executions may be stopped and what runs say
  in an instance; each kind and the stop are in some run.

Deadlock checking is off where a bounded run ends: executions are never minted
again, a graph ends, a job or a walk is over, the commands are used up. `result_review` has no end and
checks it.

### Fairness

- Tasks of the runtime proceed: weak fairness on the start's launch, on an event
  waiting for the mutex, on clean-up, on the steps of a stop call. None on connecting to
  a tool or an auditor: neither call has a timeout or looks at the cancel.
- `tokio::select!` polls its ready branches in random order, so a stored cancel or
  an expired deadline that is ready again and again is taken: strong fairness on
  `SeeCancel`, `RunSeesCancel`, `CancelTimeout` and their kin.
- The window's event loop and its requests proceed: weak fairness.
- A graph, the update job: weak fairness of their own steps as a whole; no task is owed
  its turn before another. The processes of a graph get none: the review is launched
  without a budget and so without a deadline, and a helper's deadline covers neither its
  connecting nor its audit. `GraphEnds` therefore has `ProcessesEnd` as a hypothesis. A
  fetch has its deadline, and a server need not answer it; the update of submodules has
  none, and `JobEnds` has its return as a hypothesis.
- Watcher: weak fairness of the threads, timers and messages, of a query's answer or
  error, and of the end of an
  operation (a silent one is ended by its watchdog). Events of the operating system
  get none: they may be dropped for ever.
- **No fairness** for the user or the tool in the specifications. `EveryRunEnds`
  alone assumes a helpful environment, in the formula (`HelpfulEnvironment`).

## What is proved

TLAPS checks these for every value of the constants (any set of executions, any
bounds, writes that fail or not), from the named assumptions of the modules
only (the "none" values are no members, flags are Boolean, bounds are naturals, the
settings of a graph are settings, panels are no builders, the repositories are
finitely many). With them every invariant and every action property that a passing
run checks is also a theorem, but for `OneRunEach`.

| theorem | states |
|---|---|
| `TypeCorrect`, `RunTypeCorrect`, `Typed`, `ReviewTyped`, `UpdateTyped`, `HeldBackHasAnEnd`, `LayoutTyped`, `SubmoduleTyped` | the type invariants |
| `OneLiveRecord` | `OnlyActiveRecordIsLive` |
| `NoGhostRuns` | `LiveRecordHasProcess` |
| `RefusedStartsAreClean` | `RefusedStartLeavesNothing` |
| `ConfirmedStopsAreGone` | `ConfirmedStopIsGone` |
| `SessionIsALedger` | `AgentExecution` implements `ExecutionLedger` |
| `FinishedWorkIsNotHollow` | `FinishedIsNotHollow`, for any number of corrections |
| `GrantsAreApproved` | `EveryGrantWasApproved`, for any number of gates and queued answers |
| `RunImplementsContract` | `AgentRun` implements `RunContract` |
| `NumbersAccountForEvents` | `NumbersHaveNoHoles` |
| `TranscriptIsKept` | `TranscriptIsFaithful`, for any transcript |
| `WindowComesToTheFile`, `WhatIsShownStays` | `WindowCatchesUp`, `NothingDisappears`, for any queue of events |
| `ReviewedOnce`, `HelpersNeverOverwrite`, `EndsOnce`, `FinishIsEarned` | `OneReview`, `NothingOverwritten`, `EndStands`, `FinishedWasReviewed`, for any helpers, files and settings |
| `CommittedWorkHasLanded`, `EveryCommitIsAccountedFor` | `CommittedHasLanded`, `NoCommitIsSilent`, for any panels, builders and paths |
| `UndoNeverCrossesCommit`, `BuildsKeepDecisions` | `UndoAndCommitDoNotCross`, `DecisionOutlivesBuild` |
| `NoEditIsLost`, `LeftAloneMeansUntouched` | `NothingIsLost`, `LeftAloneIsUntouched`, for any repositories, workers and edits |
| `ChangesAreRemembered` | `NoChangeForgotten`, for any number of changes and operations |
| `LinesNeverCollide`, `LanesAreFreed`, `HeadLineStaysStraight` | `TracksAreExclusive`, `NoDeadLanes`, `HeadLineIsStraight`, for any history |
| `DashedLinesAreClear` | `OverlaysAreClear`, for any history and any number of stashes |
| `BranchesNeverLose`, `SubmoduleCommitsStay` | `BranchesOnlyAdvance`, `CommitsAreKept`, for any histories and commands |
| `UpdatedMeansAtPin` | `UpdatedIsAtPin` |

**The session.** The invariants of the runs are not inductive. `Inv` adds four
layers, each proved from those below it. `ControlInv`: an execution is
registered exactly while its task is alive, an event waits only for a task
that waits for it, and a start has left exactly what its phase says. `FileInv`:
one live record, and a record for every started run. `EndInv`: a run whose last
event was applied no longer reads as live. It is needed because between a
run's last event and its clean-up the record must already be settled. `StopInv`:
a stop signals only what was started. Refinement then takes each step to an
opening, a settling, a reopening of the newest or a stutter.

**The run.** `VerdictInv`: a verdict stands only while it is acted upon, so the work
of a turn under way, or waiting for its audit, has none against it, and there is
no result before the end. `TaskInv`: a gate is open only in a turn, and only an
audited run gathers evidence, is audited or corrects. For the grants, `GrantInv`
adds that only what the policy lets through is at a gate; the property itself counts
(grants and queued approvals are together what the user allowed), so it needs that
appending to a sequence and dropping its head change the number of approvals in it
by the one that comes or goes.

**The numbers.** One execution at a time: either nothing is being routed and
`saved` and `failed` make up `1..counter`, or the last number handed out is in
flight and they make up the rest; and `last_sequence` is a saved number. So a
number in flight is always the one a release may hand back, and always newer
than the record.

**The transcript.** The property speaks of the rows in which a write is found and of
their order, and not of what a fold over the transcript returns, so a new write can be
compared with the ones before it: it is either a new last row or the end of the last
row, and `TranscriptInv` says that all earlier writes are before that.

**The window.** Four layers. `WayInv`: the events on their way from one run are newer
than what the window has seen of it, in order, and carry numbers saved or reported lost.
`HeldInv`: whatever is carried, in the overlay, on the screen or in the answer of a
request is in the file, as it is there or older. `WindowInv`: each of these has a
message once, and an answer is never behind what is shown. `CoverInv`: while no request
is still to be read, each message of the file is in the answer, in the overlay, or
announced by an event still to come. `ViewShowsBoth` then says that
the merge shows each message of the two at its later state, which gives both theorems.

**The graph.** `ReviewInv`: no review is launched or running before its record is
written, and the record is written once, under the session lock, by whoever finds
none; that gives `OneReview`. `FoldInv`: whoever looks or folds in holds the
integration lock, what anybody read is text, a file that is only written always is,
what a task saw of such a file before it changed is still so when it writes, and it
reports a conflict only over one that has changed; that gives `NothingOverwritten`. `EndKept`: only `FinishDirect` writes a lead that is no
longer working. `FinishInv`: a review that
finished is over for good, and a task about to end the graph as Finished read one
and has written the result.

**Results.** `Landing`: a recorded commit is one that was made, and the agent's
changes, but for those taken back by hand, stay in the tree until the first commit,
which therefore has them all.
Whoever is about to stamp a result carries a commit, so a committed result has
one. `Accounted` adds that only those callers carry one.

**Update all.** The type invariant says that a worker that has stashed has an entry
to put back, since entries are only pushed in front of it; while it is dropped, its
edits are back in the tree. `Honest`: nothing is
touched before the step that sets aside, an unfinished repository has no report,
and one reported as left alone was never touched.

**Refresh.** `NothingIsAhead`: no signature or reading is newer than the repository.
`BaseIsSound`: an open tab is compared with its base only once the log is loaded and
the watch is armed. `Remembered` says where a newer change is: in a request not yet
answered, on the screen, marked as changed, held back, in the handler, or ahead of
the last signature; otherwise a query for it has failed. What is held back is replayed, because it exists only while an
operation is in flight (`HeldBackHasAnEnd`).

**Commit graph.** `HeldOpen`: the lane an edge ends in waits for that edge's parent
until the parent is placed, so no other commit can take it. `LaneZeroIsKept`:
lane 0 waits for the next commit of the checked-out branch, and the first edge of
a commit stays in its lane. For the dashed lines `WidthInv` bounds how far right a
lane can be, so that beyond it there are more tracks than other dashed lines
(`FreeTrack`, a count of the stashes above), and `RowInv` keeps their rows apart. The lines
are routed by a recursion over the rows; that the recursion defines a function
(`RoutesExist`), and that the lines it has laid are clear of each other
(`LinesAreLaid`), are shown by the least row at which it would fail, from
the library's theorem that a well-founded relation has minimal elements.

**Submodules.** An action property about histories needs what each actor remembers.
`HistoryInv`: every history is closed. `AttachInv`: what the attach, the pull and the
follow have read is still in the history of whatever they compared it with, since
each step of anyone else is `Forward`: commits keep their histories and branches only
advance, but for what a rebase makes again (`replaced`). So the branch that `Slide`
moves moves to a commit above it, and a commit counted as saved has not been left
since (`SavedStays`). `SettleInv`: from the update
to the report the checkout is at the pin, wherever attaching stands, unless somebody
else moved one of the two.

Only proved, and in no run: the type invariants.

Only model-checked: `OneRunEach`, whose condition leaves little to prove, and the
liveness properties (`StopReturns`, `CancelledRunEnds`, `CancelEndsThePhase`,
`EveryRunEnds`, `WindowSettles`, `GraphEnds`, `GivenUp`, `JobEnds`,
`CommitsReachTheGraph`), which rest on fairness and on which actions are enabled,
and are out of the prover's reach.

## Disagreements between the code and what it says

One is a run that TLC ends with a counterexample. The sentences are quoted in
`PROJECT.json`.

`claim_end_followed`: the end of a run is saved as a message, while the result,
the plan proposal, the queued message and the counter's clean-up wait for a
terminal `StateChanged`, which nothing produces any more.

Met on the way. Those with a name in brackets are stated in their module, and a
TLC run with that property ends with the trace; the rest were read in the code
while it was modelled and are allowed for by the models where they reach.

Sessions and runs
- A stop that times out says the process "was force-killed regardless". A run at a
  gate is blocked before the code that kills it, and lives on, forgotten, until
  someone answers a gate nobody shows (`TimedOutStopStillEndsTheRun`).
- The two checks of a start look at the record only. A read between the record and
  the registration marks the new record interrupted, and a second start passes
  both: two runs work in one session (`AtMostOneProcess`).
- The startup sweep opens a session only if its index entry is live. Routed events
  change the file and not the index, so a record can stay live over a restart
  (`RestartClosesEveryRun`).
- A run over its turn budget is asked to stop, and still shows and grants the
  permission requests that follow (`NothingGrantedPastTheBudget`).
- A usage event takes a number the window's handler does not count, so the next row
  looks like a missed message (`GapMeansMissing`).
- A stop between the record and the registration reports a run as stopped that
  then launches (`execution_registry.rs:178`, `agent_desk.rs:1671`).
- A read that looked at the registry before a run was registered marks the header
  interrupted while the run is alive (`agent_desk.rs:363-390`).
- A late event between a stop's write and its unlink makes the stopped record
  live again (`agent_desk.rs:2279-2325`). The ledger allows it for the newest.
- An answer sent twice to one gate waits in the channel and answers the next gate
  (`driver.rs:173`); the window disables its buttons in component state only.
- Connecting to a tool or to the auditor is waited for without a timeout and outside of
  the `select!` that sees cancels (`cli_run.rs:277`, `403`): a tool that never answers
  keeps the run and its stored cancel.
- A session that cannot be read is returned as data (`agent_desk.rs:395-404`), and the
  window replaces the chat it shows by a notice (`useAgentSessions.ts:93-99`).
- The folder of a refused start stays where removing it fails (`agent_desk.rs:1246-1254`).
- A cancel consumed by a turn that ends by itself is gone when the audit begins
  (`cli_run.rs:65`).
- `STOP_ACK_TIMEOUT` (10 s) is meant to outlast the cancel's 8 s and the
  shutdown's 3 s.
- The notice of an unsaved event is dropped with the overlay, although the comment
  on `clearSession` says that an unsaved message keeps the overlay: it is
  never in it (`agentSessionStore.ts:246-254`).
- Two executions' first rows can be shown in the other order than the file has
  them until the next refetch, if they arrive during the chat's first request.
  `WindowCatchesUp` therefore compares contents, not order.

Graphs (`agent_graph.rs`)
- A review may begin, and finish, while a helper that is Finished has not been
  folded into the integration worktree (`ReviewSeesEverything`).
- A helper's record stays Ready until its first event, so another completion in
  between may launch it again. `OneRunEach` names the condition.
- "both texts preserved, neither applied" (`agent_graph.rs:2042`) holds for text only. A
  file that one helper removed, or left as something else than text, reads as the base
  (`agent_graph.rs:2142-2146`), so the next helper's change replaces it without a conflict;
  and a rename takes away the file it renames whatever another helper put there
  (`1874-1892`).
- "every subsequent call for the same session reuses the already-provisioned worktree"
  (`agent_graph.rs:1540-1541`) looks at the session read before the lock. A helper that
  ended before the first one's worktree was recorded runs `git worktree add -b` on a branch
  that exists by then, fails, and is not folded in; only a note on the helper says so.
- The review has no deadline (`agent_graph.rs:2811`): one that stays silent keeps the graph.
- Helpers that were not given a worktree at the start never get one, although the
  comment at the launch of the first ones says the scheduler picks them up; they
  are marked Failed when their turn comes.
- A completion that is refused schedules nothing, the abandonment of dependants
  goes one round deep, and a launch that fails is not followed up: each leaves a
  graph that waits for nobody. `GraphEnds` is stated where none of these happens.
- A conflict answered by keeping what is integrated, or by the user's own merge, is
  found again by the next comparison with the same worktree, although the comment
  calls the transition terminal.
- With the record of an earlier turn in the session, the look-up of the first
  execution without a parent finds that one, and the review never starts.
- Reading the session reconciles the graph's lead, which has no process, to
  Interrupted. "Stop all" passes over helpers that are Ready.
- A start that fails half way leaves worktrees and branches behind that make the
  retry fail. A change to a solo run races the start.
- The write that ends a graph with nothing to review does not look again at what it
  ends; `EndStands` excepts it.

Results (`agent_result.rs`)
- Clean-up passes a worktree's name to `git::worktree::remove`, which looks it up by
  path, so nothing is removed (`CleanupClears`).
- Keep and "send back" do not look at the state. From a panel that lists an older
  one they take Committed to Kept or RevisionRequested, and an undo then stamps
  Discarded over a committed result.
- An undo changes nothing in the worktree, and a rebuild after the user edited
  there records the edits as the agent's.
- A record that cannot be written after git has committed leaves the result Kept,
  and the error does not name the commit.

Update all (`update_all.rs`)
- A checkout that is refused after the user's changes were stashed returns its error
  with `?` (`branch.rs:980`), and the report of the repository is a plain failure that
  does not say where the changes are, although `stashed` is said to be true while
  there is a stash the user must be told about (`StashIsTold`).
- A thread that cannot be spawned, or a worker that panics on a poisoned lock,
  leaves the job running for ever, and no other can start.
- HEAD is read again after the checkout, and the reference of whatever branch it names by
  then is forced to the new commit (`branch.rs:982-987`), also of one that the user checked
  out meanwhile and that has commits of its own.
- The update of submodules that follows a move has neither deadline nor stop
  (`submodule.rs:441-451`), and the worker holds the repository's lock meanwhile.
- Changes that appear between the look and the move are stashed in a repository for
  which the user had not allowed it. An open operation is looked for before the
  fetch and not after it.
- A `stash_drop` that fails reports Failed though everything was moved and put back.
  An app closed between stash and put-back leaves an entry nobody mentions.

Refresh (`watcher.rs`, `useRepoWatcher.ts`)
- A change between the window's first read of the log and the first signature of the
  watch, which is armed later, is not shown until there is another one. So is an
  invalidation during the very first load.
- "Two equal signatures mean nothing a user can see in git has moved" (`watcher.rs:264-265`):
  a fetch, a tag, a commit on another branch or in a linked worktree moves nothing the
  signature covers (`watcher.rs:244-277`). If its event is dropped, nobody finds it.
- A log query that fails leaves the old rows, and nobody asks again until the next change.
- A tab closed before its watch is armed leaves a watch on a closed repository; one
  reopened within the cache's time shows the cached log.

Commit graph
- `graphTracks.ts:45-47` takes an edge to a parent that is not loaded for one row,
  while `GraphSvg` draws it to the bottom.
- A lane folded at the limit, or rerouted along its parent's, may pass through a node
  of another line.
- The key of the memo of the primary line is read before the references are read
  again; pages by offset repeat rows when the history changes between them.
- Pending rows are shown only in the first window of rows, so the tracks of stashes
  change with scrolling.

Submodules (`submodule.rs`, `head_attach.rs`)
- A hard reset says that the move will not touch a moved submodule and that nothing is
  silently lost (`branch.rs:701-702`, `711-712`); it then takes the submodule to its
  recorded commit without a look, and off commits that are on no branch
  (`RewindLosesNothing`).
- An update that fails after the changes were stashed reports Failed without the stash
  (`submodule.rs:459-463`).
- Merge, cherry-pick, snap back and bump move the checkout without a look as well. A sync
  leaves it detached, since only the others attach afterwards.
- A commit made on a detached HEAD between the look and the move is left behind.
- A pointer the user stages while a pull runs counts as moved by the pull, and is followed.
- A `rev-list` that fails counts as "no unsaved commits" (`head_attach.rs:183-184`,
  `unwrap_or(false)`), and the update moves the checkout off them.
- An update that fails in a nested submodule has moved the checkout all the same.

## What is not modelled

`PROJECT.json` lists every component. In short: how a graph is proposed and edited,
and the contents of files; deletion of a session; the queued message; the paging of
the session store; the autostash of a pull, push, branches that are not checked out and
the pull of chosen branches; edits of files in a submodule, how submodules are added
and removed, `submodule.<name>.update` other than checkout, and how a stopped rebase is
finished by hand; the coalesced reads and caches of `state.rs`; octopus merges, the
folding of lanes at the limit, the memo of the primary line and the sort of
versions; the wording of messages; transports and HTTP clients; parsers and writers
of other tools' formats; sequential operations on libgit2; presentation. Time is not modelled: a timeout
may come at any moment, which covers either order of two timeouts and says
nothing on which is likely. What the properties of the models rest on outside
them: a write of the session file is atomic (`store.rs` writes a temporary file
and renames it), and there is one application process per store.

## The plan

In order; each step is a module with its runs, mutants and proofs.

1. `AgentExecution` with `ExecutionLedger` (done, proved).
2. `AgentRun` with `RunContract` (done, proved but for liveness).
3. `SessionEvents` (done, proved but for liveness).
4. `AgentGraph` (done, proved but for liveness).
5. `ResultReview` (done, proved).
6. `UpdateAll` (done, proved but for liveness).
7. `RepoRefresh` (done, proved but for liveness).
8. `CommitGraph` (done, proved).
9. `SubmoduleFollow` (done, proved).

What is left, in the order of what it would add:

10. `QueuedMessage`: a message sent during a turn is read by a later turn or refused
   aloud, once.
11. The session store under its lock: deletion against start, index against files.
12. `SessionRegistry` of scripted runs: one run per repository.
13. Pull and push: the autostash around a pull, and the branches that are not
    checked out.
14. Recovery of a repository that has gone missing; the ledger of imported chats;
    plan and apply of the tool-configuration writer; the steps of an application
    update.

Theorems worth having next: that `AgentGraph` keeps what the ledger promises of a lead;
that `SessionEvents`, without its window, implements an append-only log; that one run
of `UpdateAll` on a repository is, to the user, one move or none.

## Running it

    tlc -workers 2 -config AgentExecution_safety.cfg MCAgentExecution
    tlc -workers 2 -config AgentExecution_liveness.cfg MCAgentExecution
    tlc -workers 2 -config AgentRun_task.cfg MCAgentRun
    tlc -workers 2 -config SessionEvents_chat.cfg MCSessionEvents
    tlc -workers 2 -config SessionEvents_leads.cfg MCSessionEvents
    tlc -workers 2 -config AgentGraph_run.cfg MCAgentGraph
    tlc -workers 2 -config ResultReview_panels.cfg MCResultReview
    tlc -workers 2 -config UpdateAll_job.cfg MCUpdateAll
    tlc -workers 2 -config RepoRefresh_watch.cfg MCRepoRefresh
    tlc -workers 2 -config CommitGraph_layout.cfg MCCommitGraph
    tlc -workers 2 -config SubmoduleFollow_pins.cfg MCSubmoduleFollow
    tlapm AgentExecution_proofs.tla
    tlapm AgentRun_proofs.tla
    tlapm SessionEvents_proofs.tla
    tlapm AgentGraph_proofs.tla
    tlapm ResultReview_proofs.tla
    tlapm BackgroundJobs_proofs.tla
    tlapm CommitGraph_proofs.tla
    tlapm SubmoduleFollow_proofs.tla

`Claim_end_followed.cfg` is the run that ends with a counterexample.
