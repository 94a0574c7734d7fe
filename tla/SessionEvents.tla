--------------------------- MODULE SessionEvents ---------------------------
(***************************************************************************)
(* One chat on its way from the runs to the screen.                        *)
(*                                                                         *)
(* Every run event takes a number (RunSessionLinks), is folded into the    *)
(* session file under the session's lock (agentdesk/bridge.rs), and only   *)
(* then is emitted to the window (commands/airun.rs::route_to_agent_desk). *)
(* The window keeps the events it received as an overlay over the last     *)
(* answer of its query (agentSessionStore.ts, useAgentSessions.ts), and    *)
(* every event makes the query ask again.                                  *)
(*                                                                         *)
(* A step here is what no other thread can see the middle of: taking a     *)
(* number, one read-modify-write under the session lock, one emit, one     *)
(* turn of the window's event loop.  The events of one run are sequential, *)
(* because its task calls the sink and waits; those of two runs are not.   *)
(***************************************************************************)
EXTENDS Naturals, Sequences, FiniteSets, SequencesExt

CONSTANTS
  Executions,     (* the executions of the session                          *)
  Helpers,        (* those with a parent_execution_id                       *)
  Stoppable,      (* those the user may stop                                *)
  Kinds,          (* what their runs say: text of the model, any other row, *)
                  (* the cost of a turn (no row), the end of the run        *)
  ReadsMayFail,   (* whether the window's read of the session may fail      *)
  RoutesMayFail,  (* whether a read or write of it by the routing may       *)
  MaxEvents,      (* bound: numbers one execution takes                     *)
  MaxInbox,       (* bound: events the window has yet to handle             *)
  MaxAppends      (* bound: messages that are not from a run                *)

ASSUME HelpersAreExecutions == Helpers \subseteq Executions
ASSUME StoppableAreExecutions == Stoppable \subseteq Executions
ASSUME FailuresAreBoolean == ReadsMayFail \in BOOLEAN /\ RoutesMayFail \in BOOLEAN
ASSUME KindsAreSteps == Kinds \subseteq {"Note", "Activity", "Usage", "Ended"}
ASSUME EventBoundsAreNaturals == MaxEvents \in Nat /\ MaxInbox \in Nat /\ MaxAppends \in Nat

User == "User"
NoOne == "NoOne"
ASSUME NamesAreNoExecutions == User \notin Executions /\ NoOne \notin Executions

Numbers == 1..MaxEvents

VARIABLES
  (* The session file.                                                      *)
  transcript,   (* session.messages                                         *)
  record,       (* the record of each execution: Absent, Live or Done       *)
  last,         (* its last_sequence                                        *)
  active,       (* header.active_execution_id                               *)
  (* RunSessionLinks and the tasks that route.                              *)
  links,        (* executions whose events are routed to the session        *)
  counter,      (* the last number handed out                               *)
  quiet,        (* executions whose task has said that it ended             *)
  pending,      (* at most one event: numbered, waiting for the lock        *)
  outbox,       (* at most one event: routed, not emitted yet               *)
  stopping,     (* stopped in the file, not unlinked yet                    *)
  (* The window.                                                            *)
  inbox,        (* emitted events the window has not handled, oldest first  *)
  live,         (* the overlay: messages that arrived as events             *)
  seen,         (* lastSequenceByExecution                                  *)
  gapped,       (* gappedExecutionIds                                       *)
  unsaved,      (* unsavedExecutionIds                                      *)
  loaded,       (* whether the query has ever answered                      *)
  found,        (* whether its last answer was the session                  *)
  shown,        (* the messages of its last answer that was                 *)
  fetch,        (* the query's request in flight                            *)
  copy,         (* what that request has read                               *)
  sending,      (* a message is saved, its sender not told yet              *)
  (* Bookkeeping of the model only.                                         *)
  log,          (* every row saved, in the order of the writes              *)
  saved,        (* the numbers whose write succeeded                        *)
  failed,       (* the numbers whose write failed                           *)
  followed      (* executions whose end was acted on                        *)

fileVars == <<transcript, record, last, active>>
routeVars == <<links, counter, quiet, pending, stopping>>
overlayVars == <<live, seen, gapped, unsaved>>
queryVars == <<loaded, found, shown, fetch, copy>>
ghostVars == <<log, saved, failed, followed>>
vars == <<fileVars, routeVars, outbox, inbox, overlayVars, queryVars, sending, ghostVars>>

(***************************************************************************)
(* Messages.  A message is known by its execution and its first number,    *)
(* and dated by its last one; a message that is not from a run has no      *)
(* sequence, which the window reads as 0.                                  *)
(***************************************************************************)
Message(by, kind, parts) == [by |-> by, kind |-> kind, parts |-> parts]
Id(m) == <<m.by, Head(m.parts)>>
SequenceOf(m) == IF m.by = User THEN 0 ELSE Last(m.parts)
Ids(messages) == {Id(messages[i]) : i \in DOMAIN messages}
ById(messages, id) == CHOOSE m \in ToSet(messages) : Id(m) = id

Init ==
  /\ transcript = <<>>
  /\ record = [e \in Executions |-> "Absent"]
  /\ last = [e \in Executions |-> 0]
  /\ active = NoOne
  /\ links = {}
  /\ counter = [e \in Executions |-> 0]
  /\ quiet = {}
  /\ pending = [e \in Executions |-> <<>>]
  /\ outbox = [e \in Executions |-> <<>>]
  /\ stopping = {}
  /\ inbox = <<>>
  /\ live = <<>>
  /\ seen = [e \in Executions |-> 0]
  /\ gapped = {}
  /\ unsaved = {}
  /\ loaded = FALSE
  /\ found = FALSE
  /\ shown = <<>>
  /\ fetch = "Wanted"
  /\ copy = <<>>
  /\ sending = FALSE
  /\ log = <<>>
  /\ saved = [e \in Executions |-> {}]
  /\ failed = [e \in Executions |-> {}]
  /\ followed = {}

(***************************************************************************)
(* Executions begin, are stopped and are unlinked.  AgentExecution has the *)
(* whole of it; here only what the routing reads.                          *)
(***************************************************************************)
Begin(e) ==
  /\ record[e] = "Absent"
  /\ e \notin Helpers => \A x \in Executions \ Helpers : record[x] # "Live"
  /\ record' = [record EXCEPT ![e] = "Live"]
  /\ active' = IF e \in Helpers THEN active ELSE e
  /\ links' = links \cup {e}
  /\ UNCHANGED <<transcript, last, counter, quiet, pending, stopping, outbox, inbox,
                 overlayVars, queryVars, sending, ghostVars>>

Stop(e) ==
  /\ e \in Stoppable
  /\ record[e] = "Live"
  /\ record' = [record EXCEPT ![e] = "Done"]
  /\ stopping' = stopping \cup {e}
  /\ UNCHANGED <<transcript, last, active, links, counter, quiet, pending, outbox,
                 inbox, overlayVars, queryVars, sending, ghostVars>>

Unlink(e) ==
  /\ e \in stopping
  /\ stopping' = stopping \ {e}
  /\ links' = links \ {e}
  /\ UNCHANGED <<fileVars, counter, quiet, pending, outbox, inbox, overlayVars,
                 queryVars, sending, ghostVars>>

(***************************************************************************)
(* Routing one event                                                       *)
(***************************************************************************)
TerminalState(kind) == kind = "Ended"

TakesNumber(e, kind) ==
  LET n == counter[e] + 1
  IN /\ counter' = [counter EXCEPT ![e] = n]
     /\ pending' = [pending EXCEPT ![e] = <<[kind |-> kind, n |-> n]>>]

(* The task of e calls the sink: it is not inside a call already, and the  *)
(* end of a run is the last thing it says.  Unlinked, it is not heard.     *)
Say(e, kind) ==
  /\ e \in links
  /\ pending[e] = <<>> /\ outbox[e] = <<>>
  /\ e \notin quiet
  /\ counter[e] < MaxEvents
  /\ TakesNumber(e, kind)
  /\ quiet' = IF TerminalState(kind) THEN quiet \cup {e} ELSE quiet
  /\ UNCHANGED <<fileVars, links, stopping, outbox, inbox, overlayVars, queryVars,
                 sending, ghostVars>>

Superseded(e) == e \notin Helpers /\ active # NoOne /\ active # e
Duplicate(e, n) == last[e] # 0 /\ n <= last[e]

(* Mutant: the number of an event that is not recorded is kept.            *)
KeepsNumber(e, n) == UNCHANGED counter

(* release_sequence: a number is handed back only if it is the last taken. *)
Release(e, n) ==
  counter' = IF counter[e] = n THEN [counter EXCEPT ![e] = @ - 1] ELSE counter

RouteIgnored(e) ==
  /\ pending[e] # <<>>
  /\ \/ e \notin links
     \/ RoutesMayFail
     \/ Superseded(e)
     \/ Duplicate(e, pending[e][1].n)
  /\ Release(e, pending[e][1].n)
  /\ pending' = [pending EXCEPT ![e] = <<>>]
  /\ UNCHANGED <<fileVars, links, quiet, stopping, outbox, inbox, overlayVars, queryVars,
                 sending, ghostVars>>

Applies(e, n) == e \in links /\ ~Superseded(e) /\ ~Duplicate(e, n)

(* Mutant: text folds into text, whoever said it.                          *)
CoalescesWithAnyText(e, kind) ==
  /\ kind = "Note"
  /\ transcript # <<>>
  /\ Last(transcript).kind = "Note"

(* coalescing_note: text folds into the last message of the session if     *)
(* that one is text of the same execution.                                 *)
Coalesces(e, kind) ==
  /\ kind = "Note"
  /\ transcript # <<>>
  /\ Last(transcript).by = e
  /\ Last(transcript).kind = "Note"

Updated(m, n) == [m EXCEPT !.parts = Append(@, n)]
Event(e, n, payload, messages) == [by |-> e, n |-> n, payload |-> payload, message |-> messages]

(* map_run_step: what the event becomes, for the file and for the window.  *)
DurableEvent(e, kind, n) ==
  CASE kind = "Usage" -> Event(e, n, "StateChanged", <<>>)
    [] Coalesces(e, kind) -> Event(e, n, "MessageUpdated", <<Updated(Last(transcript), n)>>)
    [] OTHER -> Event(e, n, "MessageAppended", <<Message(e, kind, <<n>>)>>)

Folded(event) ==
  CASE event.payload = "MessageAppended" -> Append(transcript, event.message[1])
    [] event.payload = "MessageUpdated" -> [transcript EXCEPT ![Len(transcript)] = event.message[1]]
    [] OTHER -> transcript

(* route_to_agent_desk acts on the end of a run when the event it just     *)
(* saved is a change of state, and the state is terminal.  A Usage step is *)
(* always sent while Working (airun/cli_run.rs).                           *)
FollowsThrough(event, kind) == event.payload = "StateChanged" /\ TerminalState(kind)

RoutePersists(e) ==
  /\ pending[e] # <<>>
  /\ LET kind == pending[e][1].kind
         n == pending[e][1].n
         event == DurableEvent(e, kind, n)
     IN /\ Applies(e, n)
        /\ transcript' = Folded(event)
        /\ last' = [last EXCEPT ![e] = n]
        /\ record' = [record EXCEPT ![e] = IF TerminalState(kind) THEN "Done" ELSE "Live"]
        /\ outbox' = [outbox EXCEPT ![e] = <<event>>]
        /\ counter' = IF FollowsThrough(event, kind) THEN [counter EXCEPT ![e] = 0] ELSE counter
        /\ followed' = IF FollowsThrough(event, kind) THEN followed \cup {e} ELSE followed
        /\ saved' = [saved EXCEPT ![e] = @ \cup {n}]
        /\ log' = IF kind = "Usage" THEN log ELSE Append(log, <<e, kind, n>>)
  /\ pending' = [pending EXCEPT ![e] = <<>>]
  /\ UNCHANGED <<active, links, quiet, stopping, inbox, overlayVars, queryVars, sending, failed>>

(* The write failed: the file is as it was, the number stays taken, and    *)
(* the window is told that something is missing from the file.             *)
RouteWriteFails(e) ==
  /\ RoutesMayFail
  /\ pending[e] # <<>>
  /\ LET n == pending[e][1].n
     IN /\ Applies(e, n)
        /\ outbox' = [outbox EXCEPT ![e] = <<Event(e, n, "NotSaved", <<>>)>>]
        /\ failed' = [failed EXCEPT ![e] = @ \cup {n}]
  /\ pending' = [pending EXCEPT ![e] = <<>>]
  /\ UNCHANGED <<fileVars, links, counter, quiet, stopping, inbox, overlayVars,
                 queryVars, sending, log, saved, followed>>

Emit(e) ==
  /\ outbox[e] # <<>>
  /\ Len(inbox) < MaxInbox
  /\ inbox' = IF outbox[e][1].payload = "NotSaved" /\ e \notin links
              THEN inbox
              ELSE Append(inbox, outbox[e][1])
  /\ outbox' = [outbox EXCEPT ![e] = <<>>]
  /\ UNCHANGED <<fileVars, routeVars, overlayVars, queryVars, sending, ghostVars>>

(* A message that is not from a run: the user sends one, or the app notes  *)
(* something on behalf of a click.  Its sender hears of it later.          *)
AppendsMessage ==
  /\ found
  /\ ~sending
  /\ Cardinality({i \in DOMAIN log : log[i][1] = User}) < MaxAppends
  /\ LET n == Len(log) + 1
     IN /\ transcript' = Append(transcript, Message(User, "User", <<n>>))
        /\ log' = Append(log, <<User, "User", n>>)
  /\ sending' = TRUE
  /\ UNCHANGED <<record, last, active, routeVars, outbox, inbox, overlayVars,
                 queryVars, saved, failed, followed>>

(***************************************************************************)
(* The window's query.  invalidateQueries drops a request in flight and    *)
(* asks again; while the query has never answered it does not, and the     *)
(* request in flight is all there will be.                                 *)
(***************************************************************************)
(* Mutant: a request in flight counts as the answer to any later call.     *)
InvalidateUnlessFetching ==
  IF fetch \in {"Wanted", "Read"}
  THEN UNCHANGED <<fetch, copy>>
  ELSE fetch' = "Wanted" /\ copy' = <<>>

Invalidate ==
  IF ~loaded /\ fetch \in {"Wanted", "Read"}
  THEN UNCHANGED <<fetch, copy>>
  ELSE fetch' = "Wanted" /\ copy' = <<>>

SenderHears ==
  /\ sending
  /\ sending' = FALSE
  /\ Invalidate
  /\ UNCHANGED <<fileVars, routeVars, outbox, inbox, overlayVars, loaded, found, shown,
                 ghostVars>>

FetchReads ==
  /\ fetch = "Wanted"
  /\ fetch' = "Read"
  /\ copy' = transcript
  /\ UNCHANGED <<fileVars, routeVars, outbox, inbox, overlayVars, loaded, found, shown,
                 sending, ghostVars>>

FetchReturns ==
  /\ fetch = "Read"
  /\ fetch' = "Idle"
  /\ loaded' = TRUE
  /\ found' = TRUE
  /\ shown' = copy
  /\ copy' = <<>>
  /\ UNCHANGED <<fileVars, routeVars, outbox, inbox, overlayVars, sending, ghostVars>>

(* The file is not there, cannot be read or is damaged.  The command says  *)
(* so in an answer like any other: it takes the place of the session, the  *)
(* pane shows an error in place of the whole chat, and nothing is asked    *)
(* again.  The overlay stays in the store, and no effect drops it.  Such   *)
(* an answer carries nothing of the file, so it counts as read on arrival. *)
FetchFails ==
  /\ ReadsMayFail
  /\ fetch = "Wanted"
  /\ fetch' = "Idle"
  /\ loaded' = TRUE
  /\ found' = FALSE
  /\ UNCHANGED <<fileVars, routeVars, outbox, inbox, overlayVars, shown, copy, sending,
                 ghostVars>>

(***************************************************************************)
(* The window handles one event: applyEvent, then the invalidation.        *)
(***************************************************************************)
Replaced(m) ==
  IF Id(m) \in Ids(live)
  THEN [i \in DOMAIN live |-> IF Id(live[i]) = Id(m) THEN m ELSE live[i]]
  ELSE Append(live, m)

Sees(e, n) == seen' = [seen EXCEPT ![e] = n]

(* Mutant: a message the overlay has is never replaced.                    *)
AppliesUpdateOnce(event) ==
  IF event.n <= seen[event.by] \/ Id(event.message[1]) \in Ids(live)
  THEN UNCHANGED overlayVars
  ELSE /\ live' = Append(live, event.message[1])
       /\ Sees(event.by, event.n)
       /\ UNCHANGED <<gapped, unsaved>>

AppliesUpdate(event) ==
  IF event.n <= seen[event.by]
  THEN UNCHANGED overlayVars
  ELSE /\ live' = Replaced(event.message[1])
       /\ Sees(event.by, event.n)
       /\ UNCHANGED <<gapped, unsaved>>

AppliesAppend(event) ==
  IF event.n <= seen[event.by] \/ Id(event.message[1]) \in Ids(live)
  THEN UNCHANGED overlayVars
  ELSE /\ live' = Append(live, event.message[1])
       /\ gapped' = IF seen[event.by] # 0 /\ event.n > seen[event.by] + 1
                    THEN gapped \cup {event.by}
                    ELSE gapped
       /\ Sees(event.by, event.n)
       /\ UNCHANGED unsaved

ApplyEvent(event) ==
  CASE event.payload = "NotSaved" -> unsaved' = unsaved \cup {event.by} /\ UNCHANGED <<live, seen, gapped>>
    [] event.payload = "StateChanged" -> UNCHANGED overlayVars
    [] event.payload = "MessageUpdated" -> AppliesUpdate(event)
    [] event.payload = "MessageAppended" -> AppliesAppend(event)

Receive ==
  /\ inbox # <<>>
  /\ ApplyEvent(Head(inbox))
  /\ inbox' = Tail(inbox)
  /\ Invalidate
  /\ UNCHANGED <<fileVars, routeVars, outbox, loaded, found, shown, sending, ghostVars>>

(* Mutant: a message the query has at all counts as caught up.             *)
RedundantById(m) == Id(m) \in Ids(shown)

(* liveOverlayIsRedundant and clearSession: once the query has every       *)
(* message of the overlay, and none of them older, the overlay goes.       *)
Redundant(m) ==
  /\ Id(m) \in Ids(shown)
  /\ SequenceOf(ById(shown, Id(m))) >= SequenceOf(m)

Prune ==
  /\ found
  /\ live # <<>>
  /\ \A i \in DOMAIN live : Redundant(live[i])
  /\ live' = <<>>
  /\ seen' = [e \in Executions |-> 0]
  /\ gapped' = {}
  /\ unsaved' = {}
  /\ UNCHANGED <<fileVars, routeVars, outbox, inbox, queryVars, sending, ghostVars>>

(* mergeSessionMessages: what the chat shows.  While the last answer was   *)
(* not the session, the pane shows an error instead (ConversationPane.tsx), *)
(* and View is what it showed before, with what has come since.            *)
Newest(m) ==
  IF Id(m) \in Ids(live) /\ SequenceOf(ById(live, Id(m))) > SequenceOf(m)
  THEN ById(live, Id(m))
  ELSE m

(* What the chat shows, indexed by where it comes from: a message of the   *)
(* answer, or one that only the overlay has.                               *)
View ==
  IF ~loaded
  THEN live
  ELSE [p \in ({"shown"} \X DOMAIN shown)
                \cup ({"live"} \X {i \in DOMAIN live : Id(live[i]) \notin Ids(shown)}) |->
          IF p[1] = "shown" THEN Newest(shown[p[2]]) ELSE live[p[2]]]

(***************************************************************************)
(* The system                                                              *)
(***************************************************************************)
OfExecution(e) ==
  \/ Begin(e)
  \/ Stop(e)
  \/ Unlink(e)
  \/ \E kind \in Kinds : Say(e, kind)
  \/ RouteIgnored(e)
  \/ RoutePersists(e)
  \/ RouteWriteFails(e)
  \/ Emit(e)

OfWindow ==
  \/ Receive
  \/ Prune
  \/ FetchReads
  \/ FetchReturns
  \/ FetchFails
  \/ SenderHears

Next ==
  \/ \E e \in Executions : OfExecution(e)
  \/ AppendsMessage
  \/ OfWindow

Spec == Init /\ [][Next]_vars

(* A task inside the sink goes on, and so do the window's event loop and   *)
(* its requests; nothing makes a run speak, or a user write.               *)
Fairness ==
  /\ \A e \in Executions :
       /\ WF_vars(RouteIgnored(e) \/ RoutePersists(e) \/ RouteWriteFails(e))
       /\ WF_vars(Emit(e))
  /\ WF_vars(Receive)
  /\ WF_vars(SenderHears)
  /\ WF_vars(FetchReads \/ FetchFails)
  /\ WF_vars(FetchReturns)

FairSpec == Spec /\ Fairness

(***************************************************************************)
(* Properties                                                              *)
(***************************************************************************)
(* The numbers of an execution tell the truth about its record: every      *)
(* number up to the last one handed out was either saved or reported as    *)
(* not saved, except the one still being routed, which is newer than the   *)
(* record and so never taken for a duplicate.  What is released leaves no  *)
(* hole and what is lost leaves one (bridge.rs release_sequence, airun.rs, *)
(* the WriteFailed branch).                                                *)
InFlight(e) == {pending[e][i].n : i \in DOMAIN pending[e]}
NumbersHaveNoHoles ==
  \A e \in Executions :
    /\ saved[e] \cup failed[e] \cup InFlight(e) = 1..counter[e]
    /\ saved[e] \cap failed[e] = {}
    /\ InFlight(e) \cap (saved[e] \cup failed[e]) = {}
    /\ \A n \in InFlight(e) : n > last[e]

(* The transcript holds every row that was saved, once, in the order of    *)
(* the writes, whatever runs wrote beside each other, and text is only     *)
(* glued to text of the same run with nothing between (coalescing_note):   *)
(* the rows are the log's, they follow one another as in the log, and the  *)
(* numbers of a run only grow, so that no row is in the log twice.         *)
Places(messages) == UNION {{i} \X DOMAIN messages[i].parts : i \in DOMAIN messages}
RowAt(messages, p) == <<messages[p[1]].by, messages[p[1]].kind, messages[p[1]].parts[p[2]]>>
Before(p, q) == p[1] < q[1] \/ (p[1] = q[1] /\ p[2] < q[2])
InOrder ==
  \A i, j \in DOMAIN log :
    (i < j /\ log[i][1] = log[j][1]) => log[i][3] < log[j][3]

TranscriptIsFaithful ==
  /\ {RowAt(transcript, p) : p \in Places(transcript)} = ToSet(log)
  /\ \A p, q \in Places(transcript) : Before(p, q) => \A i, j \in DOMAIN log :
       RowAt(transcript, p) = log[i] /\ RowAt(transcript, q) = log[j] => i < j
  /\ InOrder

(* Once nothing is on its way to the window, a chat that is on the screen   *)
(* shows every message of the file once, each at its latest, and nothing   *)
(* else; a chat that is not shows that its file could not be read          *)
(* (useAgentSession, agentSessionStore.ts).                                *)
Dated(messages) == {<<Id(messages[i]), SequenceOf(messages[i])>> : i \in DOMAIN messages}
OnceEach(messages) ==
  \A i, j \in DOMAIN messages : Id(messages[i]) = Id(messages[j]) => i = j
Quiescent ==
  /\ inbox = <<>>
  /\ \A e \in Executions : outbox[e] = <<>>
  /\ ~sending
  /\ fetch = "Idle"

WindowCatchesUp ==
  Quiescent /\ found => Dated(View) = Dated(transcript) /\ OnceEach(View)

(* Nothing the chat has shown goes away or goes back to an older text: not *)
(* when a request that read the file earlier answers late, and not when    *)
(* the overlay is dropped (liveOverlayIsRedundant).  Only a read that      *)
(* failed takes the chat off the screen, as a whole, and the next one that *)
(* succeeds brings back all that was there, as new or newer.               *)
OnScreen == ~loaded \/ found
KeepsShowing ==
  LET after == Dated(View')
  IN \A old \in Dated(View) : \E new \in after : new[1] = old[1] /\ new[2] >= old[2]
NothingDisappears ==
  [][/\ UNCHANGED <<loaded, shown, live>> \/ KeepsShowing
     /\ OnScreen /\ ~OnScreen' => ReadsMayFail]_vars

(* When the runs fall silent the window comes to show the chat as it is in *)
(* the file, or that the file could not be read.                           *)
WindowSettles ==
  <>[](IF found THEN Dated(View) = Dated(transcript) ELSE loaded)

(***************************************************************************)
(* Claims of the comments that the code does not keep                      *)
(***************************************************************************)

(* airun.rs, before terminal_result_outcome is asked: the moment an        *)
(* execution reaches a terminal state, its result is built, and what was   *)
(* queued behind it is looked at.                                          *)
EndIsSaved(e) == \E i \in DOMAIN log : log[i][1] = e /\ log[i][2] = "Ended"
EveryEndIsFollowedThrough ==
  \A e \in Executions \ Helpers : EndIsSaved(e) => e \in followed

(* agentSessionStore.ts on gappedExecutionIds: a jump means that at least  *)
(* one event never arrived.                                                *)
GapMeansMissing == \A e \in gapped : failed[e] # {}
=============================================================================
