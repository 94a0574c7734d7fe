---------------------------- MODULE RepoRefresh ----------------------------
(***************************************************************************)
(* How a commit made anywhere reaches the commit graph of a window: the    *)
(* file watcher of an open repository with its debounced events, which the *)
(* operating system may drop, the state poll behind it (watcher.rs), and   *)
(* the window, which holds a refresh back while one of its own operations  *)
(* is in flight (useRepoWatcher.ts, queryKeys.ts).                         *)
(*                                                                         *)
(* One repository, from opening its tab to closing it.  What the graph is  *)
(* drawn from is the number of changes made to the references so far; a    *)
(* signature is the number of the last one that it covers.                 *)
(***************************************************************************)
EXTENDS Naturals

CONSTANTS
  MaxChanges,   (* bound: changes to the references                         *)
  MaxOps        (* bound: operations the window starts                      *)

ASSUME RefreshBounds == MaxChanges \in Nat /\ MaxOps \in Nat

VARIABLES
  open,      (* the tab is open                                             *)
  arm,       (* watch_deferred: queued, captured, armed, or off             *)
  last,      (* PollEntry.last, shared by the event handler and the poll    *)
  event,     (* the debouncer holds an event for the handler                *)
  handler,   (* the signature the handler has read, or NotRead              *)
  poll,      (* the signature the state poll has read, or NotRead           *)
  changed,   (* a repo-changed message is on its way to the window          *)
  refs,      (* the changes made to the references                          *)
  sign,      (* the last of them that moved a file of state_signature       *)
  ops,       (* operationsInFlight of the window                            *)
  begun,     (* how many operations the window has started                  *)
  skipped,   (* refreshSkipped: the watcher held a refresh back             *)
  fetch,     (* the log query: idle, asked, or answered                     *)
  answer,    (* the state get_log has read for it                           *)
  shown,     (* the state the graph shows, or NotRead before the first      *)
  failed,    (* the log query ended in an error, over the rows it had       *)
  base,      (* bookkeeping: the state when both the watch had a signature  *)
             (* and the graph an answer, or NotRead                         *)
  noticed    (* bookkeeping: the last change that moved the signature, or   *)
             (* whose event came                                            *)

watcherVars == <<arm, last, event, handler, poll>>
repository == <<refs, sign, noticed>>
windowVars == <<ops, begun, skipped, fetch, answer, shown, failed>>
refreshVars == <<open, watcherVars, changed, repository, windowVars, base>>

(* The states of the references are numbered from 1.                       *)
NotRead == 0
States == 1 .. MaxChanges + 1

Loaded == shown # NotRead
Watched == arm \in {"captured", "armed"}

RefreshInit ==
  /\ open = TRUE /\ arm = "queued"
  /\ last = NotRead /\ event = FALSE /\ handler = NotRead /\ poll = NotRead
  /\ changed = FALSE
  /\ refs = 1 /\ sign = 1 /\ noticed = 1
  /\ ops = 0 /\ begun = 0 /\ skipped = FALSE
  /\ fetch = "asked" /\ answer = NotRead /\ shown = NotRead /\ failed = FALSE
  /\ base = NotRead

-----------------------------------------------------------------------------
(* The watcher.                                                            *)

(* WatcherRegistry::watch takes the signature before it arms anything.     *)
Capture ==
  /\ arm = "queued"
  /\ arm' = "captured" /\ last' = sign
  /\ base' = IF Loaded THEN refs ELSE NotRead
  /\ UNCHANGED <<open, event, handler, poll, changed, repository, windowVars>>

(* The paths are armed and the repository entered in the two maps, whether *)
(* or not it was closed meanwhile.                                         *)
Arm ==
  /\ arm = "captured"
  /\ arm' = "armed"
  /\ UNCHANGED <<open, last, event, handler, poll, changed, repository,
                 windowVars, base>>

(* The debounced handler takes a batch and reads the signature ...         *)
HandlerReads ==
  /\ arm = "armed" /\ event /\ handler = NotRead
  /\ event' = FALSE /\ handler' = sign
  /\ UNCHANGED <<open, arm, last, poll, changed, repository, windowVars, base>>

(* Mutant: a batch of noise is recorded too.                               *)
HandlerReportsRelevant ==
  /\ handler # NotRead
  /\ last' = handler /\ handler' = NotRead
  /\ changed' \in {changed, TRUE}
  /\ UNCHANGED <<open, arm, event, poll, repository, windowVars, base>>

(* ... records it, so that the poll does not report the change again, and  *)
(* tells the window.                                                       *)
HandlerReports ==
  /\ handler # NotRead
  /\ last' = handler /\ handler' = NotRead
  /\ changed' = TRUE
  /\ UNCHANGED <<open, arm, event, poll, repository, windowVars, base>>

(* The state poll reads the signature of a repository in its map ...       *)
PollReads ==
  /\ arm = "armed" /\ poll = NotRead
  /\ poll' = sign
  /\ UNCHANGED <<open, arm, last, event, handler, changed, repository,
                 windowVars, base>>

(* ... and compares it with the last one reported.                         *)
PollCompares ==
  /\ poll # NotRead
  /\ last' = poll /\ poll' = NotRead
  /\ changed' = (changed \/ poll # last)
  /\ UNCHANGED <<open, arm, event, handler, repository, windowVars, base>>

-----------------------------------------------------------------------------
(* The window.                                                             *)

(* queryClient.invalidateQueries on the log: a query that has data drops   *)
(* the answer it waits for and asks again, one without data waits on.      *)
AskAgain(f) == IF Loaded \/ f = "idle" THEN "asked" ELSE f

(* useRepoWatcher on repo-changed.                                         *)
Changed ==
  /\ changed
  /\ changed' = FALSE
  /\ \/ /\ open /\ ops > 0
        /\ skipped' = TRUE /\ UNCHANGED fetch
     \/ /\ open /\ ops = 0
        /\ fetch' = AskAgain(fetch) /\ UNCHANGED skipped
     \/ ~open /\ UNCHANGED <<fetch, skipped>>
  /\ UNCHANGED <<open, watcherVars, repository, ops, begun, answer, shown, failed, base>>

(* asGitOperation, beginGitOperation.                                      *)
BeginOp ==
  /\ open /\ begun < MaxOps
  /\ begun' = begun + 1 /\ ops' = ops + 1
  /\ UNCHANGED <<open, watcherVars, changed, repository, skipped, fetch, answer,
                 shown, failed, base>>

(* Mutant: the last operation forgets the refresh that was held back.      *)
EndOpForgetting ==
  /\ ops > 0
  /\ ops' = ops - 1
  /\ skipped' = (skipped /\ ops > 1)
  /\ UNCHANGED <<open, watcherVars, changed, repository, begun, fetch, answer,
                 shown, failed, base>>

(* An operation ends, well or badly: the release runs the held-back        *)
(* refresh when it was the last one, and the mutation then refreshes the   *)
(* log itself, or does not.                                                *)
EndOp ==
  /\ ops > 0
  /\ ops' = ops - 1
  /\ skipped' = (skipped /\ ops > 1)
  /\ \/ fetch' = IF skipped /\ ops = 1 THEN AskAgain(fetch) ELSE fetch
     \/ fetch' = AskAgain(fetch)
  /\ UNCHANGED <<open, watcherVars, changed, repository, begun, answer, shown,
                 failed, base>>

(* get_log reads with a handle of its own ...                              *)
LogReads ==
  /\ fetch = "asked"
  /\ fetch' = "answered" /\ answer' = refs
  /\ UNCHANGED <<open, watcherVars, changed, repository, ops, begun, skipped,
                 shown, failed, base>>

(* ... and its answer reaches the window, unless it was dropped meanwhile. *)
LogArrives ==
  /\ fetch = "answered"
  /\ shown' = answer /\ fetch' = "idle" /\ answer' = NotRead /\ failed' = FALSE
  /\ base' = IF Watched /\ ~Loaded THEN refs ELSE base
  /\ UNCHANGED <<open, watcherVars, changed, repository, ops, begun, skipped>>

(* A read that fails is tried once more.  Then the query is in error, with *)
(* the rows it had, and nothing asks again before the next invalidation.   *)
LogFails ==
  /\ fetch = "asked"
  /\ fetch' = "idle" /\ failed' = TRUE
  /\ UNCHANGED <<open, watcherVars, changed, repository, ops, begun, skipped,
                 answer, shown, base>>

-----------------------------------------------------------------------------
(* The rest of the world.                                                  *)

(* A commit, a fetch or a checkout, by an operation of the window, an      *)
(* agent or a terminal.  What moves HEAD, its branch, the index, the       *)
(* reflog of HEAD or packed-refs moves the signature; a fetch, a tag, or a *)
(* commit on another branch or in a linked worktree does not.  The event   *)
(* may be dropped when the buffer of the operating system overflows.       *)
Change ==
  /\ refs <= MaxChanges
  /\ refs' = refs + 1
  /\ \E covered \in BOOLEAN, delivered \in IF arm = "armed" THEN BOOLEAN ELSE {FALSE} :
       /\ sign' = IF covered THEN refs + 1 ELSE sign
       /\ event' = (event \/ delivered)
       /\ noticed' = IF covered \/ delivered THEN refs + 1 ELSE noticed
  /\ UNCHANGED <<open, arm, last, handler, poll, changed, windowVars, base>>

(* close_repo: unwatch removes what is in the maps.                        *)
Close ==
  /\ open
  /\ open' = FALSE
  /\ IF arm = "armed"
     THEN arm' = "off" /\ event' = FALSE
     ELSE UNCHANGED <<arm, event>>
  /\ UNCHANGED <<last, handler, poll, changed, repository, windowVars, base>>

RefreshNext ==
  \/ Capture \/ Arm \/ HandlerReads \/ HandlerReports \/ PollReads
  \/ PollCompares \/ Changed \/ BeginOp \/ EndOp \/ LogReads \/ LogArrives
  \/ LogFails \/ Change \/ Close

(* Threads and timers of the application run, messages and answers arrive, *)
(* and an operation ends: a network operation that falls silent is ended   *)
(* by the IdleWatchdog.                                                    *)
Fairness ==
  /\ WF_refreshVars(Capture) /\ WF_refreshVars(Arm)
  /\ WF_refreshVars(HandlerReads) /\ WF_refreshVars(HandlerReports)
  /\ WF_refreshVars(PollReads) /\ WF_refreshVars(PollCompares)
  /\ WF_refreshVars(Changed) /\ WF_refreshVars(EndOp)
  /\ WF_refreshVars(LogReads \/ LogFails) /\ WF_refreshVars(LogArrives)

RefreshSpec == RefreshInit /\ [][RefreshNext]_refreshVars /\ Fairness

-----------------------------------------------------------------------------
(* Properties.                                                             *)

(* Every variable has its type, the graph never shows a state that is not  *)
(* there yet, and a refresh that was held back always has an operation     *)
(* whose end runs it (refreshSkipped is emptied with the last one).        *)
RefreshTypeOK ==
  /\ open \in BOOLEAN
  /\ arm \in {"queued", "captured", "armed", "off"}
  /\ last \in States \cup {NotRead}
  /\ event \in BOOLEAN
  /\ handler \in States \cup {NotRead}
  /\ poll \in States \cup {NotRead}
  /\ changed \in BOOLEAN
  /\ refs \in States /\ sign \in States /\ noticed \in States
  /\ sign <= noticed /\ noticed <= refs
  /\ ops \in 0 .. MaxOps
  /\ begun \in 0 .. MaxOps
  /\ ops <= begun
  /\ skipped \in BOOLEAN
  /\ skipped => ops > 0
  /\ fetch \in {"idle", "asked", "answered"}
  /\ answer \in States \cup {NotRead}
  /\ shown \in States \cup {NotRead}
  /\ failed \in BOOLEAN
  /\ base \in States \cup {NotRead}

(* From the moment the watch has its first signature and the graph its     *)
(* first answer, a change that moved the signature, or whose event came,   *)
(* and that the graph neither shows nor is about to read, is one that      *)
(* somebody still has to report: the message is on its way, the refresh is *)
(* held back, the handler has yet to speak, or the signature on record is  *)
(* not the one the poll will find.  Only a log query that ended in an      *)
(* error stays behind.                                                     *)
NoChangeForgotten ==
  open /\ base # NotRead /\ noticed > base =>
    \/ fetch = "asked"
    \/ fetch = "answered" /\ answer >= noticed
    \/ fetch = "idle" /\ (shown >= noticed \/ failed)
    \/ changed \/ skipped \/ event \/ handler # NotRead \/ last # sign

(* Such a change is shown in the end while the tab stays open, or the log  *)
(* query ends in an error: whether the event of a change that moved the    *)
(* signature was dropped, whether the poll and the event handler met, and  *)
(* whether an operation held the refresh back.                             *)
CommitsReachTheGraph ==
  \A n \in States :
    base # NotRead /\ base < n /\ n <= noticed ~> ~open \/ shown >= n \/ failed
=============================================================================
