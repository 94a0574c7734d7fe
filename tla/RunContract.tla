---------------------------- MODULE RunContract ----------------------------
(***************************************************************************)
(* What one run task promises to the rest of the Agent Desk: the phases    *)
(* that AgentExecution gives to a run, without the tool, its turns, its    *)
(* gates' answers, its budget or its auditor.  AgentRun implements it.     *)
(*                                                                         *)
(* A stored cancel is consumed at most once per turn, and never while the   *)
(* task connects to its tool or calls an auditor.  The task ends with one   *)
(* result, reported before the task is over, and nothing follows it.       *)
(***************************************************************************)
CONSTANTS
  Audited,          (* whether finished work is checked over                *)
  StopsItself       (* whether the run may cancel its own turn (a budget)   *)

VARIABLES
  task,             (* the phase of the task                                *)
  stored,           (* a cancel is stored in its CancelHandle               *)
  asked,            (* the tool has been asked to cancel this turn          *)
  outcome           (* the result of the run, or "None"                     *)

contractVars == <<task, stored, asked, outcome>>

Results == {"Finished", "Stopped", "Failed"}

ContractInit ==
  /\ task = "Connecting"
  /\ stored = FALSE
  /\ asked = FALSE
  /\ outcome = "None"

Conclude(r) == task' = "Shutdown" /\ outcome' = r

Connects ==
  /\ task = "Connecting"
  /\ task' = "Working"
  /\ UNCHANGED <<stored, asked, outcome>>

Asks ==
  /\ task = "Working"
  /\ task' = "Asking"
  /\ UNCHANGED <<stored, asked, outcome>>

Answered ==
  /\ task = "Asking"
  /\ task' = "Working"
  /\ UNCHANGED <<stored, asked, outcome>>

CancelStored ==
  /\ task # "Gone"
  /\ stored' = TRUE
  /\ UNCHANGED <<task, asked, outcome>>

SeesCancel ==
  /\ task = "Working"
  /\ ~asked
  /\ asked' = TRUE
  /\ \/ stored /\ stored' = FALSE
     \/ StopsItself /\ UNCHANGED stored
  /\ UNCHANGED <<task, outcome>>

CallsAuditor ==
  /\ Audited
  /\ task = "Working"
  /\ task' = "Calling"
  /\ asked' = FALSE
  /\ UNCHANGED <<stored, outcome>>

Audits ==
  /\ task = "Calling"
  /\ task' = "Auditing"
  /\ UNCHANGED <<stored, asked, outcome>>

Corrects ==
  /\ task = "Auditing"
  /\ task' = "Working"
  /\ UNCHANGED <<stored, asked, outcome>>

AuditCancelled ==
  /\ task = "Auditing"
  /\ stored
  /\ stored' = FALSE
  /\ Conclude("Finished")
  /\ UNCHANGED asked

Ends ==
  /\ \/ /\ task \in {"Working", "Auditing"}
        /\ \E r \in Results : Conclude(r)
     \/ task = "Calling" /\ Conclude("Finished")
     \/ task = "Connecting" /\ Conclude("Failed")
  /\ UNCHANGED <<stored, asked>>

Gone ==
  /\ task = "Shutdown"
  /\ task' = "Gone"
  /\ stored' = FALSE
  /\ asked' = FALSE
  /\ UNCHANGED outcome

ContractNext ==
  \/ Connects \/ Asks \/ Answered \/ CancelStored \/ SeesCancel
  \/ CallsAuditor \/ Audits \/ Corrects \/ AuditCancelled \/ Ends \/ Gone

ContractSpec == ContractInit /\ [][ContractNext]_contractVars
=============================================================================
