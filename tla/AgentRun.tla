------------------------------ MODULE AgentRun ------------------------------
(***************************************************************************)
(* One run task in detail (airun/cli_run.rs::run_task): the turn with the  *)
(* command-line tool, its permission gates and their answer channel, the   *)
(* cancel handle, the budget of a helper, and the audit of finished work   *)
(* with its correction turns.                                              *)
(*                                                                         *)
(* The tool, its auditor session and the user are the environment: they    *)
(* may do anything the protocol lets them do, at any time.  AgentExecution *)
(* uses this task through RunContract.                                     *)
(***************************************************************************)
EXTENDS Naturals, Sequences, FiniteSets

CONSTANTS
  Capabilities,     (* what a tool may ask permission for                   *)
  Permitted,        (* what the policy of this run lets it do               *)
  Audited,          (* whether the run has a worktree to audit              *)
  MaxTurns,         (* the turn budget of a helper; 0 when there is none    *)
  HasTimeLimit,     (* whether the budget also limits the time              *)
  MaxCorrections,   (* auditor::MAX_CORRECTION_PASSES                       *)
  MaxGates,         (* bound: gates the tool opens in one run               *)
  MaxQueued         (* bound: answers waiting in the channel                *)

ASSUME PermittedAreCapabilities == Permitted \subseteq Capabilities
ASSUME AuditedIsBoolean == Audited \in BOOLEAN
ASSUME TimeLimitIsBoolean == HasTimeLimit \in BOOLEAN
ASSUME BoundsAreNaturals ==
  /\ MaxTurns \in Nat
  /\ MaxCorrections \in Nat
  /\ MaxGates \in Nat
  /\ MaxQueued \in Nat

VARIABLES
  phase,        (* where run_task is                                        *)
  gate,         (* the capability asked for at the open gate, or NoGate     *)
  gates,        (* how many gates have been opened                          *)
  answers,      (* the answer channel, oldest first                         *)
  permit,       (* a cancel is stored in the CancelHandle                   *)
  cancelling,   (* this turn asked the tool to cancel, and armed a deadline *)
  turns,        (* tool calls counted against the budget                    *)
  budgetHit,    (* which budget ended the first turn, if one did            *)
  corrections,  (* correction turns that completed                          *)
  verdict,      (* the auditor's last verdict on the work as it is now      *)
  result,       (* the state of the Ended event, or NoResult                *)
  (* Bookkeeping of the model only.                                         *)
  allowed,      (* approvals the user has sent                              *)
  granted       (* capabilities granted to the tool, in order               *)

gateVars == <<gate, gates, answers, allowed, granted>>
auditVars == <<corrections, verdict>>
budgetVars == <<turns, budgetHit>>
vars == <<phase, permit, cancelling, result, gateVars, auditVars, budgetVars>>

NoGate == "NoGate"
ASSUME NoGateIsNoCapability == NoGate \notin Capabilities

NoResult == "None"
Answers == {"AllowOnce", "FindAnotherWay", "StopRun"}
StopReasons == {"EndTurn", "Cancelled", "Other"}
Verdicts == {"Passed", "Hollow", "Blocked", "Unavailable"}
InATurn == phase \in {"Turn", "Correction"}

Init ==
  /\ phase = "Connecting"
  /\ gate = NoGate
  /\ gates = 0
  /\ answers = <<>>
  /\ permit = FALSE
  /\ cancelling = FALSE
  /\ turns = 0
  /\ budgetHit = "None"
  /\ corrections = 0
  /\ verdict = "None"
  /\ result = NoResult
  /\ allowed = 0
  /\ granted = <<>>

(* The Ended step: the last event of the run, then the shutdown.           *)
End(r) == phase' = "Ended" /\ result' = r

(***************************************************************************)
(* Connecting and the turns                                                *)
(***************************************************************************)
Connect ==
  /\ phase = "Connecting"
  /\ \/ phase' = "Turn" /\ UNCHANGED result
     \/ End("Failed")
  /\ UNCHANGED <<permit, cancelling, gateVars, auditVars, budgetVars>>

(* A turn budget is checked right after the tool call that used it up, and *)
(* only in the first turn; a correction turn has no budget.                *)
BudgetUsedUp == MaxTurns # 0 /\ turns' >= MaxTurns

ToolCall ==
  /\ InATurn
  /\ gate = NoGate
  /\ IF phase = "Turn"
     THEN /\ turns' = IF turns < MaxTurns THEN turns + 1 ELSE turns
          /\ IF BudgetUsedUp /\ ~cancelling
             THEN budgetHit' = "Turns" /\ cancelling' = TRUE
             ELSE UNCHANGED <<budgetHit, cancelling>>
     ELSE UNCHANGED <<budgetVars, cancelling>>
  /\ UNCHANGED <<phase, permit, result, gateVars, auditVars>>

BudgetTimeout ==
  /\ HasTimeLimit
  /\ phase = "Turn"
  /\ gate = NoGate
  /\ ~cancelling
  /\ budgetHit' = "Seconds"
  /\ cancelling' = TRUE
  /\ UNCHANGED <<phase, permit, result, turns, gateVars, auditVars>>

(* What the policy refuses is refused at once, with a note.                *)
Refuses(c) == c \notin Permitted

(* A permission request the policy lets through shows a gate; the run then *)
(* blocks on its answers.                                                  *)
AskPermission(c) ==
  /\ InATurn
  /\ gate = NoGate
  /\ gates < MaxGates
  /\ ~Refuses(c)
  /\ gate' = c
  /\ gates' = gates + 1
  /\ UNCHANGED <<phase, permit, cancelling, result, answers, allowed,
                 granted, auditVars, budgetVars>>

(* Mutant: anything but stopping the run is taken for a yes.               *)
GrantsUnlessStopped(answer) == answer # "StopRun"

(* Only AllowOnce lets the tool go ahead.                                  *)
Grants(answer) == answer = "AllowOnce"

TakeAnswer ==
  /\ gate # NoGate
  /\ answers # <<>>
  /\ gate' = NoGate
  /\ answers' = Tail(answers)
  /\ granted' = IF Grants(Head(answers)) THEN Append(granted, gate) ELSE granted
  /\ UNCHANGED <<phase, permit, cancelling, result, gates, allowed,
                 auditVars, budgetVars>>

(* Mutant: the select! loop of a turn only looks at the cancel once.       *)
SeeCancelInFirstTurn ==
  /\ phase = "Turn"
  /\ gate = NoGate
  /\ permit
  /\ ~cancelling
  /\ permit' = FALSE
  /\ cancelling' = TRUE
  /\ UNCHANGED <<phase, result, gateVars, auditVars, budgetVars>>

(* The select! loop of a turn consumes the stored cancel once.             *)
SeeCancel ==
  /\ InATurn
  /\ gate = NoGate
  /\ permit
  /\ ~cancelling
  /\ permit' = FALSE
  /\ cancelling' = TRUE
  /\ UNCHANGED <<phase, result, gateVars, auditVars, budgetVars>>

(* CANCEL_ACK_TIMEOUT: a turn ends as stopped, a correction as failed.     *)
CancelTimeout ==
  /\ InATurn
  /\ gate = NoGate
  /\ cancelling
  /\ IF phase = "Turn" THEN End("Stopped") ELSE End("Failed")
  /\ UNCHANGED <<permit, cancelling, gateVars, auditVars, budgetVars>>

(* The result of a turn that did not end in EndTurn.                       *)
StoppedBy(reason) == IF reason = "Cancelled" THEN "Stopped" ELSE "Failed"

(* The tool answers the prompt, whether or not it was asked to cancel.     *)
TurnEnds(reason) ==
  /\ phase = "Turn"
  /\ gate = NoGate
  /\ IF reason = "EndTurn" /\ Audited
     THEN /\ phase' = "Gathering"
          /\ cancelling' = FALSE
          /\ UNCHANGED result
     ELSE /\ IF reason = "EndTurn" THEN End("Finished") ELSE End(StoppedBy(reason))
          /\ UNCHANGED cancelling
  /\ UNCHANGED <<permit, gateVars, auditVars, budgetVars>>

(* The transport fails under a turn.                                       *)
TurnBreaks ==
  /\ InATurn
  /\ gate = NoGate
  /\ End("Failed")
  /\ UNCHANGED <<permit, cancelling, gateVars, auditVars, budgetVars>>

(***************************************************************************)
(* The audit                                                               *)
(***************************************************************************)

(* gather_evidence: nothing changed, or nothing can be read, lets the work *)
(* through.                                                                *)
GatherEvidence ==
  /\ phase = "Gathering"
  /\ \/ phase' = "CallingAuditor" /\ UNCHANGED result
     \/ End("Finished")
  /\ UNCHANGED <<permit, cancelling, gateVars, auditVars, budgetVars>>

CorrectionsLeft == corrections < MaxCorrections

(* Mutant: hollow work is let through once the corrections are used up.    *)
ActOnGivingUp(v) ==
  \/ v \in {"Passed", "Unavailable"} /\ End("Finished")
  \/ v = "Blocked" /\ End("Stopped")
  \/ v = "Hollow" /\ CorrectionsLeft /\ phase' = "Correction" /\ UNCHANGED result
  \/ v = "Hollow" /\ ~CorrectionsLeft /\ End("Finished")

(* What a verdict makes of the run.                                        *)
ActOn(v) ==
  \/ v \in {"Passed", "Unavailable"} /\ End("Finished")
  \/ v = "Blocked" /\ End("Stopped")
  \/ v = "Hollow" /\ CorrectionsLeft /\ phase' = "Correction" /\ UNCHANGED result
  \/ v = "Hollow" /\ ~CorrectionsLeft /\ End("Failed")

(* Connecting a fresh, read-only session of the tool.  The task waits for  *)
(* it outside any select!: no cancel is seen and no clock runs meanwhile.  *)
(* A session that cannot be had lets the work through.                     *)
CallAuditor ==
  /\ phase = "CallingAuditor"
  /\ \/ phase' = "Auditing" /\ UNCHANGED <<verdict, result>>
     \/ verdict' = "Unavailable" /\ ActOn("Unavailable")
  /\ UNCHANGED <<corrections, permit, cancelling, gateVars, budgetVars>>

(* The auditor answers, or its connection fails.                           *)
Judge(v) ==
  /\ phase = "Auditing"
  /\ ActOn(v)
  /\ verdict' = v
  /\ UNCHANGED <<corrections, permit, cancelling, gateVars, budgetVars>>

(* A stored cancel ends the asking of the auditor, as unavailable.         *)
CancelAudit ==
  /\ phase = "Auditing"
  /\ permit
  /\ permit' = FALSE
  /\ verdict' = "Unavailable"
  /\ ActOn("Unavailable")
  /\ UNCHANGED <<corrections, cancelling, gateVars, budgetVars>>

(* Mutant: a correction that ended of itself is not counted.               *)
CorrectionNotCounted(reason) ==
  /\ phase = "Correction"
  /\ gate = NoGate
  /\ IF reason = "EndTurn"
     THEN /\ phase' = "Gathering"
          /\ verdict' = "None"
          /\ cancelling' = FALSE
          /\ UNCHANGED <<result, corrections>>
     ELSE /\ End(StoppedBy(reason))
          /\ UNCHANGED <<corrections, verdict, cancelling>>
  /\ UNCHANGED <<permit, gateVars, budgetVars>>

(* A correction turn ends; only one that ended of itself is looked at again, *)
(* and the verdict on the work before it no longer holds.                  *)
CorrectionEnds(reason) ==
  /\ phase = "Correction"
  /\ gate = NoGate
  /\ IF reason = "EndTurn"
     THEN /\ phase' = "Gathering"
          /\ corrections' = corrections + 1
          /\ verdict' = "None"
          /\ cancelling' = FALSE
          /\ UNCHANGED result
     ELSE /\ End(StoppedBy(reason))
          /\ UNCHANGED <<corrections, verdict, cancelling>>
  /\ UNCHANGED <<permit, gateVars, budgetVars>>

(* Mutant: the run ends with its cancel still stored.                      *)
FinishKeepsCancel ==
  /\ phase = "Ended"
  /\ phase' = "Gone"
  /\ UNCHANGED <<permit, cancelling, result, gateVars, auditVars, budgetVars>>

(* Shut down the connection; close the channel and the registration.       *)
Finish ==
  /\ phase = "Ended"
  /\ phase' = "Gone"
  /\ permit' = FALSE
  /\ cancelling' = FALSE
  /\ UNCHANGED <<result, gateVars, auditVars, budgetVars>>

(***************************************************************************)
(* The user                                                                *)
(***************************************************************************)

(* ExecutionRegistry::stop on a registered run.                            *)
PressStop ==
  /\ phase # "Gone"
  /\ permit' = TRUE
  /\ UNCHANGED <<phase, cancelling, result, gateVars, auditVars, budgetVars>>

(* agent_session_answer_gate: the answer goes into the channel of the run,  *)
(* whether or not a gate is open.  (A first card must have been shown.)    *)
SendAnswer(a) ==
  /\ phase # "Gone"
  /\ gates > 0
  /\ Len(answers) < MaxQueued
  /\ answers' = Append(answers, a)
  /\ allowed' = IF a = "AllowOnce" THEN allowed + 1 ELSE allowed
  /\ UNCHANGED <<phase, permit, cancelling, result, gate, gates, granted,
                 auditVars, budgetVars>>

Next ==
  \/ Connect \/ ToolCall \/ BudgetTimeout \/ TakeAnswer
  \/ \E c \in Capabilities : AskPermission(c)
  \/ SeeCancel \/ CancelTimeout \/ TurnBreaks
  \/ \E reason \in StopReasons : TurnEnds(reason) \/ CorrectionEnds(reason)
  \/ GatherEvidence \/ CallAuditor \/ CancelAudit \/ Finish
  \/ \E v \in Verdicts : Judge(v)
  \/ PressStop
  \/ \E a \in Answers : SendAnswer(a)

Spec == Init /\ [][Next]_vars

(***************************************************************************)
(* Fairness.  The task itself keeps running, and its select! loop polls the *)
(* branches that are ready in random order, so a stored cancel or an       *)
(* expired deadline that is ready again and again is taken.  A connection, *)
(* of the tool or of its auditor, is awaited outside any select! and takes *)
(* as long as the other side likes: nothing is assumed of it here.         *)
(***************************************************************************)
TaskFairness ==
  /\ WF_vars(GatherEvidence)
  /\ WF_vars(TakeAnswer)
  /\ WF_vars(CancelAudit)
  /\ WF_vars(Finish)
  /\ SF_vars(SeeCancel)
  /\ SF_vars(CancelTimeout)

FairSpec == Spec /\ TaskFairness

(* A helpful environment: every connection is made or refused, every turn  *)
(* ends, the auditor answers and the user answers the gates.               *)
HelpfulEnvironment ==
  /\ WF_vars(Connect)
  /\ WF_vars(CallAuditor)
  /\ SF_vars(\E reason \in StopReasons : TurnEnds(reason))
  /\ SF_vars(\E reason \in StopReasons : CorrectionEnds(reason))
  /\ WF_vars(\E v \in Verdicts : Judge(v))
  /\ WF_vars(\E a \in Answers : SendAnswer(a))

(***************************************************************************)
(* Properties                                                              *)
(***************************************************************************)
TypeOK ==
  /\ phase \in {"Connecting", "Turn", "Gathering", "CallingAuditor", "Auditing",
                "Correction", "Ended", "Gone"}
  /\ gate \in Capabilities \cup {NoGate}
  /\ gates \in 0..MaxGates
  /\ answers \in Seq(Answers)
  /\ permit \in BOOLEAN
  /\ cancelling \in BOOLEAN
  /\ turns \in 0..MaxTurns
  /\ budgetHit \in {"None", "Turns", "Seconds"}
  /\ corrections \in 0..MaxCorrections
  /\ verdict \in Verdicts \cup {"None"}
  /\ result \in {NoResult, "Finished", "Stopped", "Failed"}
  /\ allowed \in Nat
  /\ granted \in Seq(Capabilities)

Approving(s) == {i \in DOMAIN s : s[i] = "AllowOnce"}

(* Whatever the order of gates, answers and cancels: the tool is granted   *)
(* only what the policy permits, and each grant uses up one approval the   *)
(* user sent; no approval counts twice and none is made up.                *)
EveryGrantWasApproved ==
  /\ \A i \in DOMAIN granted : granted[i] \in Permitted
  /\ Len(granted) + Cardinality(Approving(answers)) = allowed

(* A run never reads as finished on top of a verdict that its present work *)
(* is hollow or blocked, however many corrections were made and however    *)
(* they ended.                                                             *)
FinishedIsNotHollow ==
  result = "Finished" => verdict \notin {"Hollow", "Blocked"}

(* The detailed task is the task of RunContract.                           *)
TaskPhase ==
  CASE phase \in {"Turn", "Correction"} -> IF gate = NoGate THEN "Working" ELSE "Asking"
    [] phase \in {"Gathering", "CallingAuditor"} -> "Calling"
    [] phase = "Ended" -> "Shutdown"
    [] OTHER -> phase

Contract == INSTANCE RunContract
              WITH task <- TaskPhase, stored <- permit, asked <- cancelling,
                   outcome <- result,
                   StopsItself <- (MaxTurns # 0 \/ HasTimeLimit)

ImplementsContract == Contract!ContractSpec

(* A cancel that is stored while a turn runs, while the auditor is asked or *)
(* while a correction runs ends that phase, unless the run comes to block  *)
(* at a gate.  (One that is stored while a session is still connecting     *)
(* waits for the phase after it.)                                          *)
CancelEndsThePhase ==
  \A p \in {"Turn", "Auditing", "Correction"} :
    permit /\ phase = p ~> phase # p \/ gate # NoGate

(* With a tool and an auditor that connect and answer, and a user who      *)
(* answers gates, every run ends: auditing and correcting cannot go on for *)
(* ever.                                                                   *)
EveryRunEnds == HelpfulEnvironment => <>(phase = "Gone")

(* Claims of the code's comments that its behaviours do not keep           *)

(* run_task on the turn budget: "the run must stop BEFORE its next tool    *)
(* call is answered".                                                      *)
NothingGrantedPastTheBudget ==
  [][Len(granted') > Len(granted) => budgetHit # "Turns"]_vars
=============================================================================
