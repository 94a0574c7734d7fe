--------------------------- MODULE AgentExecution ---------------------------
(***************************************************************************)
(* The life of the executions of one Agent Desk session: starting a run,   *)
(* its events reaching the session file, stopping it, reading the session, *)
(* and the application closing or crashing under it.                       *)
(*                                                                         *)
(* Every lock and every map is keyed by session or by execution, so one    *)
(* session is modelled; all that other sessions do to it is to rebuild the *)
(* shared index.  Its executions are lead/solo runs; helpers of an agent    *)
(* graph are not in this module.                                           *)
(*                                                                         *)
(* Granularity.  A critical section of the session lock is one step        *)
(* (agentdesk/locks.rs: read the file, decide, write it back); everything  *)
(* the code does between two critical sections is a step of its own.       *)
(***************************************************************************)
EXTENDS FiniteSets, Naturals

CONSTANTS
  Executions,     (* execution identifiers; each is minted by one start call *)
  None,           (* "no active execution"                                   *)
  CanWrite,       (* TRUE for a Fix chat: its runs work in a worktree of their *)
                  (* own and are audited; FALSE for a read-only chat           *)
  WritesMayFail   (* whether a session file write may fail                     *)

ASSUME NoneIsNoExecution == None \notin Executions
ASSUME CanWriteIsBoolean == CanWrite \in BOOLEAN
ASSUME WritesMayFailIsBoolean == WritesMayFail \in BOOLEAN

VARIABLES
  (* The session file and the index entry projected from it: durable.       *)
  headerState,  (* header.state                                             *)
  active,       (* header.active_execution_id                               *)
  record,       (* record[e]: the state of its ExecutionRecord, if any       *)
  index,        (* what the session index says of the session: see Entry    *)
  worktree,     (* executions whose provisioned worktree is on disk         *)
  (* Memory of the application.                                             *)
  links,        (* RunSessionLinks: executions whose events are routed      *)
  registry,     (* ExecutionRegistry: executions with a live process        *)
  permit,       (* executions whose CancelHandle holds a stored cancel      *)
  (* Control state of the actors.                                           *)
  start,        (* start[e]: how far the start call that mints e has got    *)
  run,          (* run[e]: phase of the run task of e                       *)
  cancelling,   (* runs that have seen their cancel (cancel_requested)      *)
  event,        (* event[e]: state of the event waiting for the session lock *)
  stop,         (* the stop call in progress                                *)
  get,          (* the read of the session in progress                      *)
  (* Bookkeeping of the model only.                                         *)
  unsaved       (* executions with an event that did not reach the file     *)

durable == <<headerState, active, record, index>>
memory == <<links, registry, permit>>
vars == <<headerState, active, record, index, worktree, links, registry,
          permit, start, run, cancelling, event, stop, get, unsaved>>

(***************************************************************************)
(* Session states                                                          *)
(***************************************************************************)
LiveStates == {"Preparing", "Working", "NeedsInput"}
EndStates == {"Finished", "Stopped", "Failed"}
SessionStates == {"Ready", "Interrupted"} \cup LiveStates \cup EndStates

IsLive(s) == s \in LiveStates

(* The index has the header's state; only whether it is live is ever asked. *)
Entry(s) == IF IsLive(s) THEN "Live" ELSE "NotLive"

NoRecord == "Absent"

(* Mutant: neither check looks at what is running.                         *)
NeverRunning == FALSE

(* The guard of both checks of a start call: the active execution's record *)
(* is in a live-process state.                                             *)
AlreadyRunning == active # None /\ IsLive(record[active])

StartPhases == {"Idle", "Checked", "Provisioned", "Linked", "Recorded",
                "Launched", "Refused", "LeftBehind", "Lost"}
RunPhases == {"None", "Connecting", "Working", "Asking", "Calling", "Auditing",
              "Shutdown", "Gone"}
AtWork == {"Connecting", "Working", "Asking", "Calling", "Auditing"}
AliveRun == AtWork \cup {"Shutdown"}
NoEvent == "NoEvent"
EventStates == {"Working", "NeedsInput"} \cup EndStates

NoStop == [phase |-> "Idle", targets |-> {}, requested |-> {}, waiting |-> {},
           acknowledged |-> {}, timedOut |-> {}]

NoGet == [phase |-> "Idle", live |-> FALSE]

Init ==
  /\ headerState = "Ready"
  /\ active = None
  /\ record = [e \in Executions |-> NoRecord]
  /\ index = Entry("Ready")
  /\ worktree = {}
  /\ links = {}
  /\ registry = {}
  /\ permit = {}
  /\ start = [e \in Executions |-> "Idle"]
  /\ run = [e \in Executions |-> "None"]
  /\ cancelling = {}
  /\ event = [e \in Executions |-> NoEvent]
  /\ stop = NoStop
  /\ get = NoGet
  /\ unsaved = {}

(***************************************************************************)
(* start_execution_at                                                      *)
(***************************************************************************)

(* First critical section: refuse when something is already running.       *)
StartCheck(e) ==
  /\ start[e] = "Idle"
  /\ start' = [start EXCEPT ![e] = IF AlreadyRunning THEN "Refused" ELSE "Checked"]
  /\ UNCHANGED <<durable, worktree, memory, run, cancelling, event, stop, get, unsaved>>

(* Outside the lock: the repository may not be open, and an isolated run   *)
(* needs its worktree, which may fail.                                     *)
StartProvision(e) ==
  /\ start[e] = "Checked"
  /\ \/ /\ start' = [start EXCEPT ![e] = "Provisioned"]
        /\ worktree' = IF CanWrite THEN worktree \cup {e} ELSE worktree
     \/ /\ start' = [start EXCEPT ![e] = "Refused"]
        /\ UNCHANGED worktree
  /\ UNCHANGED <<durable, memory, run, cancelling, event, stop, get, unsaved>>

(* Mint the execution and route its events before anything can emit one.   *)
StartLink(e) ==
  /\ start[e] = "Provisioned"
  /\ start' = [start EXCEPT ![e] = "Linked"]
  /\ links' = links \cup {e}
  /\ UNCHANGED <<durable, worktree, registry, permit, run,
                 cancelling, event, stop, get, unsaved>>

(* Mutant: the losing start removes its worktree and forgets its link.     *)
UnwindKeepsLink(e) ==
  /\ start' = [start EXCEPT ![e] = "Refused"]
  /\ worktree' = worktree \ {e}
  /\ UNCHANGED links

(* Every refusal after linking undoes the link and tries to remove the     *)
(* worktree (cleanup_unused_worktree).  A removal that fails is ignored and *)
(* leaves the folder behind; nothing takes it up again.                    *)
Unwind(e) ==
  /\ links' = links \ {e}
  /\ \/ /\ start' = [start EXCEPT ![e] = "Refused"]
        /\ worktree' = worktree \ {e}
     \/ /\ e \in worktree
        /\ start' = [start EXCEPT ![e] = "LeftBehind"]
        /\ UNCHANGED worktree

(* The command-line tool cannot be found, or refuses this job.             *)
StartDiscoverFails(e) ==
  /\ start[e] = "Linked"
  /\ Unwind(e)
  /\ UNCHANGED <<durable, registry, permit, run, cancelling,
                 event, stop, get, unsaved>>

(* Second critical section: the check again, atomically with the write.    *)
StartRecord(e) ==
  /\ start[e] = "Linked"
  /\ \/ /\ ~AlreadyRunning
        /\ start' = [start EXCEPT ![e] = "Recorded"]
        /\ record' = [record EXCEPT ![e] = "Preparing"]
        /\ active' = e
        /\ headerState' = "Preparing"
        /\ index' = Entry("Preparing")
        /\ UNCHANGED <<links, worktree>>
     \/ /\ AlreadyRunning \/ WritesMayFail
        /\ Unwind(e)
        /\ UNCHANGED durable
  /\ UNCHANGED <<registry, permit, run, cancelling, event, stop, get, unsaved>>

(* Open the answer channel, register the execution, spawn its run task.    *)
(* Nothing between the three steps is observable before the task runs.     *)
StartLaunch(e) ==
  /\ start[e] = "Recorded"
  /\ start' = [start EXCEPT ![e] = "Launched"]
  /\ registry' = registry \cup {e}
  /\ run' = [run EXCEPT ![e] = "Connecting"]
  /\ UNCHANGED <<durable, worktree, links, permit, cancelling, event,
                 stop, get, unsaved>>

(***************************************************************************)
(* The run task (airun/cli_run.rs::run_task) and its events                *)
(***************************************************************************)

(* The sink: an event of a linked execution goes on to wait for the session *)
(* lock; one of an unlinked execution is dropped.  The task waits for it.   *)
Emit(e, s) == event' = [event EXCEPT ![e] = IF e \in links THEN s ELSE NoEvent]

RunIs(e, phase) == run[e] = phase /\ event[e] = NoEvent

RunConnects(e) ==
  /\ RunIs(e, "Connecting")
  /\ run' = [run EXCEPT ![e] = "Working"]
  /\ UNCHANGED <<durable, worktree, memory, start, cancelling, event, stop, get, unsaved>>

(* Prose, tool activity, usage, a refusal note, an auditor's verdict.      *)
RunReports(e) ==
  /\ RunIs(e, "Working") \/ RunIs(e, "Calling") \/ RunIs(e, "Auditing")
  /\ Emit(e, "Working")
  /\ UNCHANGED <<durable, worktree, memory, start, run, cancelling, stop, get, unsaved>>

(* A permission request opens a gate; the task then blocks on its answers. *)
RunAsks(e) ==
  /\ RunIs(e, "Working")
  /\ run' = [run EXCEPT ![e] = "Asking"]
  /\ Emit(e, "NeedsInput")
  /\ UNCHANGED <<durable, worktree, memory, start, cancelling, stop, get, unsaved>>

(* The user answers the gate; the task hands the decision to the tool and   *)
(* goes on.  (AgentRun models the answer channel itself.)                   *)
UserAnswersGate(e) ==
  /\ RunIs(e, "Asking")
  /\ e \in registry
  /\ run' = [run EXCEPT ![e] = "Working"]
  /\ UNCHANGED <<durable, worktree, memory, start, cancelling, event, stop, get, unsaved>>

(* The task asks the tool to cancel, once, and arms its own deadline.      *)
RunSeesCancel(e) ==
  /\ RunIs(e, "Working")
  /\ e \in permit
  /\ e \notin cancelling
  /\ permit' = permit \ {e}
  /\ cancelling' = cancelling \cup {e}
  /\ UNCHANGED <<durable, worktree, links, registry, start, run,
                 event, stop, get, unsaved>>

(* The tool says it is done: the work of a run that could write is looked   *)
(* at, and a fresh session of the tool is called to audit it.  Nothing      *)
(* listens to a cancel while that call is connecting.  The turn's own       *)
(* cancel bookkeeping ends with the turn.                                  *)
RunCallsAuditor(e) ==
  /\ CanWrite
  /\ RunIs(e, "Working")
  /\ run' = [run EXCEPT ![e] = "Calling"]
  /\ cancelling' = cancelling \ {e}
  /\ UNCHANGED <<durable, worktree, memory, start, event, stop, get, unsaved>>

RunAudits(e) ==
  /\ RunIs(e, "Calling")
  /\ run' = [run EXCEPT ![e] = "Auditing"]
  /\ UNCHANGED <<durable, worktree, memory, start, cancelling, event, stop, get, unsaved>>

(* The auditor finds the work hollow; it is sent back for a correction turn. *)
RunCorrects(e) ==
  /\ RunIs(e, "Auditing")
  /\ run' = [run EXCEPT ![e] = "Working"]
  /\ UNCHANGED <<durable, worktree, memory, start, cancelling, event, stop, get, unsaved>>

(* A cancel that reaches the audit ends it and lets the work through.      *)
RunAuditCancelled(e) ==
  /\ RunIs(e, "Auditing")
  /\ e \in permit
  /\ permit' = permit \ {e}
  /\ Emit(e, "Finished")
  /\ run' = [run EXCEPT ![e] = "Shutdown"]
  /\ UNCHANGED <<durable, worktree, links, registry, start, cancelling, stop, get, unsaved>>

(* Mutant: a tool that never connects ends the run without saying so.      *)
RunEndsSilently(e) ==
  /\ \/ /\ RunIs(e, "Working") \/ RunIs(e, "Auditing")
        /\ \E s \in EndStates : Emit(e, s)
     \/ RunIs(e, "Calling") /\ Emit(e, "Finished")
     \/ RunIs(e, "Connecting") /\ UNCHANGED event
  /\ run' = [run EXCEPT ![e] = "Shutdown"]
  /\ UNCHANGED <<durable, worktree, memory, start, cancelling, stop, get, unsaved>>

(* The turn, or the audit after it, ends the run; the last event is        *)
(* reported and the connection is shut down.  A tool that cannot be         *)
(* connected to fails the run; work that changed nothing, or whose auditor *)
(* cannot be called, is let through.  A task that panics is reported as    *)
(* failed by its watchdog, which cleans up exactly as the task would have. *)
RunEnds(e) ==
  /\ \/ /\ RunIs(e, "Working") \/ RunIs(e, "Auditing")
        /\ \E s \in EndStates : Emit(e, s)
     \/ RunIs(e, "Calling") /\ Emit(e, "Finished")
     \/ RunIs(e, "Connecting") /\ Emit(e, "Failed")
  /\ run' = [run EXCEPT ![e] = "Shutdown"]
  /\ UNCHANGED <<durable, worktree, memory, start, cancelling, stop, get, unsaved>>

(* Mutant: the deadline of a cancel is never armed.                        *)
CancelHasNoDeadline(e) == FALSE

(* CANCEL_ACK_TIMEOUT: the tool never confirmed the cancel.  A correction  *)
(* turn reports this as a failure, the first turn as a stop.               *)
RunCancelTimeout(e) ==
  /\ RunIs(e, "Working")
  /\ e \in cancelling
  /\ Emit(e, "Stopped") \/ (CanWrite /\ Emit(e, "Failed"))
  /\ run' = [run EXCEPT ![e] = "Shutdown"]
  /\ UNCHANGED <<durable, worktree, memory, start, cancelling, stop, get, unsaved>>

(* The task is over: close its channel, remove its registration (and with  *)
(* it the cancel handle), and wake whoever waits for it.                   *)
RunGone(e) ==
  /\ RunIs(e, "Shutdown")
  /\ run' = [run EXCEPT ![e] = "Gone"]
  /\ registry' = registry \ {e}
  /\ permit' = permit \ {e}
  /\ cancelling' = cancelling \ {e}
  /\ UNCHANGED <<durable, worktree, links, start, event, stop, get, unsaved>>

(* Mutant: every event is applied, whichever execution is active.          *)
NeverSuperseded(e) == FALSE

(* apply_run_event: an event of an execution that is no longer the active  *)
(* one is superseded and changes nothing.                                  *)
Superseded(e) == active # None /\ active # e

(* The event reaches the session lock (route_run_event).  The index is not *)
(* refreshed on this path.  A file that cannot be read or written just     *)
(* then loses the event; nothing retries it.                               *)
ApplyEvent(e) ==
  /\ event[e] # NoEvent
  /\ event' = [event EXCEPT ![e] = NoEvent]
  /\ \/ /\ ~Superseded(e)
        /\ record' = [record EXCEPT ![e] = event[e]]
        /\ headerState' = event[e]
        /\ UNCHANGED unsaved
     \/ /\ ~Superseded(e)
        /\ WritesMayFail
        /\ unsaved' = unsaved \cup {e}
        /\ UNCHANGED <<headerState, record>>
     \/ /\ Superseded(e)
        /\ UNCHANGED <<headerState, record, unsaved>>
  /\ UNCHANGED <<active, index, worktree, memory, start, run, cancelling, stop, get>>

(***************************************************************************)
(* stop_execution_at                                                       *)
(***************************************************************************)

(* Learn, under the lock, which executions the record calls live.  scope is *)
(* StopScope::All, or one execution.                                        *)
StopRead(scope) ==
  /\ stop.phase = "Idle"
  /\ stop' = [NoStop EXCEPT !.phase = "Read",
                !.targets = {e \in scope : IsLive(record[e])}]
  /\ UNCHANGED <<durable, worktree, memory, start, run, cancelling, event, get, unsaved>>

(* Signal each target that is registered; the others are NotLive.          *)
StopSignal ==
  /\ stop.phase = "Read"
  /\ permit' = permit \cup (stop.targets \cap registry)
  /\ stop' = [stop EXCEPT !.phase = "Waiting",
                          !.requested = stop.targets \cap registry,
                          !.waiting = stop.targets]
  /\ UNCHANGED <<durable, worktree, links, registry, start, run,
                 cancelling, event, get, unsaved>>

(* Mutant: a run that has seen its cancel counts as stopped already.       *)
CompletedWhenSeen(e) == e \notin registry \/ e \in cancelling

(* wait_for_stop: an execution that is not registered counts as stopped.   *)
Completed(e) == e \notin registry

StopAcknowledged(e) ==
  /\ stop.phase = "Waiting"
  /\ e \in stop.waiting
  /\ Completed(e)
  /\ stop' = [stop EXCEPT !.waiting = @ \ {e}, !.acknowledged = @ \cup {e}]
  /\ UNCHANGED <<durable, worktree, memory, start, run, cancelling, event, get, unsaved>>

(* Mutant: the wait of a stop call has no timeout.                         *)
StopWaitsForever(e) == FALSE

(* STOP_ACK_TIMEOUT.                                                       *)
StopTimesOut(e) ==
  /\ stop.phase = "Waiting"
  /\ e \in stop.waiting
  /\ ~Completed(e)
  /\ stop' = [stop EXCEPT !.waiting = @ \ {e}, !.timedOut = @ \cup {e}]
  /\ UNCHANGED <<durable, worktree, memory, start, run, cancelling, event, get, unsaved>>

(* Second critical section: whatever still reads as live becomes Stopped,  *)
(* and so does the header, whatever it says by now.                        *)
StopWrite ==
  /\ stop.phase = "Waiting"
  /\ stop.waiting = {}
  /\ \/ /\ record' = [e \in Executions |->
                        IF e \in stop.targets /\ IsLive(record[e])
                        THEN "Stopped" ELSE record[e]]
        /\ headerState' = IF stop.targets = {} THEN headerState ELSE "Stopped"
        /\ index' = Entry(headerState')
        /\ stop' = [stop EXCEPT !.phase = "Written"]
     \/ /\ WritesMayFail
        /\ stop' = NoStop
        /\ UNCHANGED <<record, headerState, index>>
  /\ UNCHANGED <<active, worktree, memory, start, run, cancelling, event, get, unsaved>>

StopUnlink ==
  /\ stop.phase = "Written"
  /\ links' = links \ stop.targets
  /\ stop' = NoStop
  /\ UNCHANGED <<durable, worktree, registry, permit, start, run,
                 cancelling, event, get, unsaved>>

(***************************************************************************)
(* get_session_at                                                          *)
(***************************************************************************)

(* Whether the session has a live execution is read before the lock.       *)
GetReadsLiveness ==
  /\ get.phase = "Idle"
  /\ get' = [phase |-> "Read", live |-> registry # {}]
  /\ UNCHANGED <<durable, worktree, memory, start, run, cancelling, event, stop, unsaved>>

(* Under the lock: a header that claims a live process is checked against  *)
(* that earlier answer, each record against the registry as it is now.     *)
ReconciledHeader == IF IsLive(headerState) /\ ~get.live THEN "Interrupted" ELSE headerState

ReconciledRecord ==
  [e \in Executions |->
     IF IsLive(record[e]) /\ e \notin registry
     THEN "Interrupted" ELSE record[e]]

GetReconciles ==
  /\ get.phase = "Read"
  /\ get' = NoGet
  /\ \/ /\ headerState' = ReconciledHeader
        /\ record' = ReconciledRecord
        /\ index' = IF headerState' = headerState /\ record' = record
                    THEN index ELSE Entry(headerState')
     \/ /\ WritesMayFail
        /\ UNCHANGED <<headerState, record, index>>
  /\ UNCHANGED <<active, worktree, memory, start, run, cancelling, event, stop, unsaved>>

(* A save of any other session rebuilds the whole index from the session   *)
(* files, this one's entry included (refresh_index).                       *)
OtherSessionSaves ==
  /\ index' = Entry(headerState)
  /\ UNCHANGED <<headerState, active, record, worktree, memory, start, run,
                 cancelling, event, stop, get, unsaved>>

(***************************************************************************)
(* The application closes or crashes, and starts again                     *)
(***************************************************************************)

(* recover_orphaned_executions_on_startup, before any window exists.  Only *)
(* a session whose index entry claims a live process is opened.            *)
SweepReads == index = "Live"

Orphans == {e \in Executions : IsLive(record[e])}

Sweep ==
  \/ /\ SweepReads
     /\ Orphans # {}
     /\ record' = [e \in Executions |->
                     IF e \in Orphans THEN "Failed" ELSE record[e]]
     /\ active' = IF active \in Orphans THEN None ELSE active
     /\ headerState' = IF IsLive(headerState) THEN "Failed" ELSE headerState
     /\ index' = Entry(headerState')
  \/ /\ ~SweepReads \/ Orphans = {} \/ WritesMayFail
     /\ UNCHANGED durable

Restart ==
  /\ Sweep
  /\ links' = {}
  /\ registry' = {}
  /\ permit' = {}
  /\ cancelling' = {}
  /\ event' = [e \in Executions |-> NoEvent]
  /\ run' = [e \in Executions |-> IF run[e] = "None" THEN "None" ELSE "Gone"]
  /\ start' = [e \in Executions |->
                 IF start[e] \in {"Checked", "Provisioned", "Linked", "Recorded"}
                 THEN "Lost" ELSE start[e]]
  /\ stop' = NoStop
  /\ get' = NoGet
  /\ UNCHANGED <<worktree, unsaved>>

(***************************************************************************)
(* The specification                                                       *)
(***************************************************************************)
StartStep(e) ==
  \/ StartCheck(e) \/ StartProvision(e) \/ StartLink(e)
  \/ StartDiscoverFails(e) \/ StartRecord(e) \/ StartLaunch(e)

RunStep(e) ==
  \/ RunConnects(e) \/ RunReports(e) \/ RunAsks(e) \/ UserAnswersGate(e)
  \/ RunCallsAuditor(e) \/ RunAudits(e) \/ RunCorrects(e) \/ RunAuditCancelled(e)
  \/ RunSeesCancel(e) \/ RunEnds(e) \/ RunCancelTimeout(e) \/ RunGone(e)
  \/ ApplyEvent(e)

StopStep ==
  \/ StopRead(Executions)
  \/ \E e \in Executions : StopRead({e}) \/ StopAcknowledged(e) \/ StopTimesOut(e)
  \/ StopSignal \/ StopWrite \/ StopUnlink

GetStep == GetReadsLiveness \/ GetReconciles

Next ==
  \/ \E e \in Executions : StartStep(e) \/ RunStep(e)
  \/ StopStep
  \/ GetStep
  \/ OtherSessionSaves
  \/ Restart

Spec == Init /\ [][Next]_vars

(***************************************************************************)
(* Fairness.  Every task of the application keeps running: a start call    *)
(* and a stop call proceed, a pending event gets its lock, a run that has  *)
(* ended is cleaned up.  The select! loop of the run task polls its ready  *)
(* branches in random order, so a stored cancel or an expired deadline that *)
(* is ready again and again is eventually taken (strong fairness).  Nothing *)
(* makes the user answer a gate or the tool finish its turn, and nothing   *)
(* makes a tool that is being connected to answer: neither call of connect *)
(* (of the run's own tool, of its auditor) has a timeout or looks at the   *)
(* cancel.                                                                 *)
(***************************************************************************)
Fairness ==
  /\ \A e \in Executions :
       /\ WF_vars(StartLaunch(e))
       /\ WF_vars(ApplyEvent(e))
       /\ WF_vars(RunGone(e))
       /\ SF_vars(RunSeesCancel(e))
       /\ SF_vars(RunCancelTimeout(e))
       /\ SF_vars(RunAuditCancelled(e))
       /\ WF_vars(StopAcknowledged(e) \/ StopTimesOut(e))
  /\ WF_vars(StopSignal)
  /\ WF_vars(StopWrite)
  /\ WF_vars(StopUnlink)

FairSpec == Spec /\ Fairness

(* The same system when nobody presses Stop, the application stays up and  *)
(* no other session is in use.                                             *)
StartRunRead ==
  \/ \E e \in Executions : StartStep(e) \/ RunStep(e)
  \/ GetStep

SpecWithoutStop == Init /\ [][StartRunRead]_vars

(***************************************************************************)
(* Properties                                                              *)
(***************************************************************************)
TypeOK ==
  /\ headerState \in SessionStates
  /\ active \in Executions \cup {None}
  /\ record \in [Executions -> SessionStates \cup {NoRecord}]
  /\ index \in {"Live", "NotLive"}
  /\ worktree \subseteq Executions
  /\ links \subseteq Executions
  /\ registry \subseteq Executions
  /\ permit \subseteq Executions
  /\ start \in [Executions -> StartPhases]
  /\ run \in [Executions -> RunPhases]
  /\ cancelling \subseteq Executions
  /\ event \in [Executions -> EventStates \cup {NoEvent}]
  /\ stop \in [phase : {"Idle", "Read", "Waiting", "Written"},
               targets : SUBSET Executions, requested : SUBSET Executions,
               waiting : SUBSET Executions, acknowledged : SUBSET Executions,
               timedOut : SUBSET Executions]
  /\ get \in [phase : {"Idle", "Read"}, live : BOOLEAN]
  /\ unsaved \subseteq Executions

(* However starts, stops, reads, late events and restarts interleave, at   *)
(* most one execution reads as live in the session file, and it is the     *)
(* active one (the check repeated under the lock in start_execution_at,    *)
(* together with the superseded check of apply_run_event).                 *)
OnlyActiveRecordIsLive ==
  \A e \in Executions : IsLive(record[e]) => active = e

(* A record whose events are still routed and all reached the file reads   *)
(* as live only while its start or its run task is really in progress: no  *)
(* run that ended is shown as running.                                     *)
LiveRecordHasProcess ==
  \A e \in links \ unsaved :
    IsLive(record[e]) => start[e] = "Recorded" \/ run[e] \in AliveRun

(* A start call that was refused, at whatever point and for whatever reason *)
(* (the losing side of a start race included), leaves no route for events  *)
(* and no record, and its worktree is still there only if its own removal  *)
(* failed.                                                                 *)
RefusedStartLeavesNothing ==
  \A e \in Executions :
    /\ start[e] \in {"Refused", "LeftBehind"} =>
         e \notin links /\ record[e] = NoRecord /\ active # e
    /\ start[e] = "Refused" => e \notin worktree

(* An execution that a stop call signalled and then reported as stopped    *)
(* has really ended: its task is gone and it is no longer registered.      *)
ConfirmedStopIsGone ==
  \A e \in stop.acknowledged \cap stop.requested :
    run[e] = "Gone" /\ e \notin registry

(* The session implements the ledger: one live execution at a time, opened *)
(* once, and only the current one can be reopened by a late event.         *)
LedgerOf == [e \in Executions |->
               IF record[e] = NoRecord THEN "Absent"
               ELSE IF IsLive(record[e]) THEN "Live" ELSE "Settled"]

Ledger == INSTANCE ExecutionLedger WITH ledger <- LedgerOf, current <- active

ImplementsLedger == Ledger!LedgerSpec

(* A stop call always returns: each wait in it is bounded by a timeout.    *)
StopReturns == stop.phase # "Idle" ~> stop.phase = "Idle"

(* A cancel stored for a run that has connected to its tool ends that run, *)
(* unless it blocks at a gate that nobody answers.  (Only of a run that is *)
(* not audited: a cancel that a turn has consumed does not reach the audit, *)
(* see AgentRun.  A run whose tool never answers the connection keeps its  *)
(* cancel stored for ever.)                                                *)
CancelledRunEnds ==
  \A e \in Executions :
    e \in permit /\ run[e] \in AliveRun ~> run[e] \in {"Gone", "Asking", "Connecting"}

(* Claims of the code's comments that its behaviours do not keep           *)

(* StopExecutionOutcome: an execution that did not acknowledge in time was *)
(* "force-stopped" all the same, so its process ends.                      *)
TimedOutStopStillEndsTheRun ==
  \A e \in Executions :
    e \in stop.timedOut ~> run[e] = "Gone"

(* start_execution_at refuses a second concurrent execution: two runs are  *)
(* never at work at once (one being shut down is not at work).             *)
AtMostOneProcess ==
  \A e, f \in Executions :
    {run[e], run[f]} \subseteq AtWork => e = f

(* After a restart no record still claims to be running.                   *)
RestartClosesEveryRun ==
  [][Restart => \A e \in Executions : ~IsLive(record'[e])]_vars
=============================================================================
