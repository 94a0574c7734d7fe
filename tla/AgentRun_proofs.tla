-------------------------- MODULE AgentRun_proofs --------------------------
(***************************************************************************)
(* Proofs about AgentRun, for every policy, budget and correction limit.   *)
(***************************************************************************)
EXTENDS AgentRun, FiniteSetTheorems, TLAPS

(***************************************************************************)
(* Types                                                                   *)
(***************************************************************************)

(* A correction turn runs only while a correction is left, so that counting *)
(* it stays within the limit.                                              *)
TypeInv == TypeOK /\ (phase = "Correction" => CorrectionsLeft)

LEMMA TypeInit == Init => TypeInv
<1> SUFFICES ASSUME Init PROVE TypeInv
  OBVIOUS
<1>1. answers \in Seq(Answers) /\ granted \in Seq(Capabilities)
  BY DEF Init
<1>2. 0 \in 0..MaxGates /\ 0 \in 0..MaxTurns /\ 0 \in 0..MaxCorrections
  BY BoundsAreNaturals
<1> QED
  BY <1>1, <1>2 DEF Init, TypeInv, TypeOK, NoGate, NoResult

LEMMA TypeStep == TypeInv /\ [Next]_vars => TypeInv'
<1> SUFFICES ASSUME TypeInv, [Next]_vars PROVE TypeInv'
  OBVIOUS
<1> USE BoundsAreNaturals
<1>1. CASE Connect
  BY <1>1 DEF Connect, gateVars, auditVars, budgetVars, TypeInv, TypeOK, CorrectionsLeft, End
<1>2. CASE ToolCall
  <2>1. turns' \in 0..MaxTurns
    BY <1>2 DEF ToolCall, TypeInv, TypeOK, budgetVars
  <2>2. budgetHit' \in {"None", "Turns", "Seconds"} /\ cancelling' \in BOOLEAN
    BY <1>2 DEF ToolCall, TypeInv, TypeOK, budgetVars
  <2> QED
    BY <1>2, <2>1, <2>2 DEF ToolCall, gateVars, auditVars, TypeInv, TypeOK, CorrectionsLeft
<1>3. CASE BudgetTimeout
  BY <1>3 DEF BudgetTimeout, gateVars, auditVars, budgetVars, TypeInv, TypeOK, CorrectionsLeft
<1>4. CASE TakeAnswer
  BY <1>4 DEF TakeAnswer, gateVars, auditVars, budgetVars, TypeInv, TypeOK, CorrectionsLeft, InATurn
<1>5. CASE SeeCancel
  BY <1>5 DEF SeeCancel, gateVars, auditVars, budgetVars, TypeInv, TypeOK, CorrectionsLeft, InATurn
<1>6. CASE CancelTimeout
  BY <1>6 DEF CancelTimeout, gateVars, auditVars, budgetVars, TypeInv, TypeOK, CorrectionsLeft, InATurn, End
<1>7. CASE TurnBreaks
  BY <1>7 DEF TurnBreaks, gateVars, auditVars, budgetVars, TypeInv, TypeOK, CorrectionsLeft, InATurn, End
<1>8. CASE GatherEvidence
  BY <1>8 DEF GatherEvidence, gateVars, auditVars, budgetVars, TypeInv, TypeOK, CorrectionsLeft, End
<1>9. CASE CancelAudit
  BY <1>9 DEF CancelAudit, gateVars, auditVars, budgetVars, TypeInv, TypeOK, CorrectionsLeft, ActOn, End, Verdicts
<1>18. CASE CallAuditor
  BY <1>18 DEF CallAuditor, gateVars, auditVars, budgetVars, TypeInv, TypeOK, CorrectionsLeft, ActOn, End, Verdicts
<1>10. CASE Finish
  BY <1>10 DEF Finish, gateVars, auditVars, budgetVars, TypeInv, TypeOK, CorrectionsLeft
<1>11. CASE PressStop
  BY <1>11 DEF PressStop, gateVars, auditVars, budgetVars, TypeInv, TypeOK, CorrectionsLeft
<1>12. ASSUME NEW c \in Capabilities, AskPermission(c) PROVE TypeInv'
  BY <1>12 DEF AskPermission, gateVars, auditVars, budgetVars, TypeInv, TypeOK, CorrectionsLeft, InATurn, Refuses
<1>13. ASSUME NEW reason \in StopReasons, TurnEnds(reason) PROVE TypeInv'
  BY <1>13 DEF TurnEnds, gateVars, auditVars, budgetVars, TypeInv, TypeOK, CorrectionsLeft, End, StoppedBy
<1>14. ASSUME NEW reason \in StopReasons, CorrectionEnds(reason) PROVE TypeInv'
  <2>1. corrections' \in 0..MaxCorrections
    BY <1>14 DEF CorrectionEnds, TypeInv, TypeOK, CorrectionsLeft
  <2>2. /\ phase' \in {"Gathering", "Ended"}
        /\ result' \in {NoResult, "Finished", "Stopped", "Failed"}
        /\ verdict' \in Verdicts \cup {"None"}
        /\ cancelling' \in BOOLEAN
    BY <1>14 DEF CorrectionEnds, TypeInv, TypeOK, End, StoppedBy
  <2> QED
    BY <1>14, <2>1, <2>2 DEF CorrectionEnds, gateVars, budgetVars, TypeInv, TypeOK, CorrectionsLeft
<1>15. ASSUME NEW v \in Verdicts, Judge(v) PROVE TypeInv'
  BY <1>15 DEF Judge, gateVars, auditVars, budgetVars, TypeInv, TypeOK, CorrectionsLeft, ActOn, End, Verdicts
<1>16. ASSUME NEW a \in Answers, SendAnswer(a) PROVE TypeInv'
  BY <1>16 DEF SendAnswer, gateVars, auditVars, budgetVars, TypeInv, TypeOK, CorrectionsLeft, Answers
<1>17. CASE UNCHANGED vars
  BY <1>17 DEF vars, gateVars, auditVars, budgetVars, TypeInv, TypeOK, CorrectionsLeft
<1> QED
  BY <1>1, <1>2, <1>3, <1>4, <1>5, <1>6, <1>7, <1>8, <1>9, <1>10, <1>11, <1>12, <1>13, <1>14, <1>15, <1>16, <1>17, <1>18 DEF Next

(* Every reachable state of a run is well typed: in particular the number  *)
(* of correction turns never passes MAX_CORRECTION_PASSES.                 *)
THEOREM RunTypeCorrect == Spec => []TypeOK
<1>1. TypeInv => TypeOK
  BY DEF TypeInv
<1> QED
  BY <1>1, TypeInit, TypeStep, PTL DEF Spec

(***************************************************************************)
(* Finished work is not hollow                                             *)
(***************************************************************************)

(* A verdict stands only while it is acted upon: the work of a turn that   *)
(* is under way, or that waits for its audit, has none against it.         *)
VerdictInv ==
  /\ FinishedIsNotHollow
  /\ phase \in {"Connecting", "Turn", "Gathering", "CallingAuditor", "Auditing"}
       => verdict \notin {"Hollow", "Blocked"}
  /\ phase \notin {"Ended", "Gone"} => result = NoResult

LEMMA VerdictStep == VerdictInv /\ [Next]_vars => VerdictInv'
<1> SUFFICES ASSUME VerdictInv, [Next]_vars PROVE VerdictInv'
  OBVIOUS
<1>1. CASE Connect
  BY <1>1 DEF Connect, gateVars, auditVars, budgetVars, VerdictInv, FinishedIsNotHollow, NoResult, End
<1>2. CASE ToolCall
  BY <1>2 DEF ToolCall, gateVars, auditVars, budgetVars, VerdictInv, FinishedIsNotHollow, NoResult, InATurn, BudgetUsedUp
<1>3. CASE BudgetTimeout
  BY <1>3 DEF BudgetTimeout, gateVars, auditVars, budgetVars, VerdictInv, FinishedIsNotHollow, NoResult
<1>4. CASE TakeAnswer
  BY <1>4 DEF TakeAnswer, gateVars, auditVars, budgetVars, VerdictInv, FinishedIsNotHollow, NoResult, InATurn
<1>5. CASE SeeCancel
  BY <1>5 DEF SeeCancel, gateVars, auditVars, budgetVars, VerdictInv, FinishedIsNotHollow, NoResult, InATurn
<1>6. CASE CancelTimeout
  BY <1>6 DEF CancelTimeout, gateVars, auditVars, budgetVars, VerdictInv, FinishedIsNotHollow, NoResult, InATurn, End
<1>7. CASE TurnBreaks
  BY <1>7 DEF TurnBreaks, gateVars, auditVars, budgetVars, VerdictInv, FinishedIsNotHollow, NoResult, InATurn, End
<1>8. CASE GatherEvidence
  BY <1>8 DEF GatherEvidence, gateVars, auditVars, budgetVars, VerdictInv, FinishedIsNotHollow, NoResult, End
<1>9. CASE CancelAudit
  BY <1>9 DEF CancelAudit, gateVars, auditVars, budgetVars, VerdictInv, FinishedIsNotHollow, NoResult, ActOn, End, CorrectionsLeft
<1>18. CASE CallAuditor
  BY <1>18 DEF CallAuditor, gateVars, auditVars, budgetVars, VerdictInv, FinishedIsNotHollow, NoResult, ActOn, End, CorrectionsLeft
<1>10. CASE Finish
  BY <1>10 DEF Finish, gateVars, auditVars, budgetVars, VerdictInv, FinishedIsNotHollow, NoResult
<1>11. CASE PressStop
  BY <1>11 DEF PressStop, gateVars, auditVars, budgetVars, VerdictInv, FinishedIsNotHollow, NoResult
<1>12. ASSUME NEW c \in Capabilities, AskPermission(c) PROVE VerdictInv'
  BY <1>12 DEF AskPermission, gateVars, auditVars, budgetVars, VerdictInv, FinishedIsNotHollow, NoResult, InATurn, Refuses
<1>13. ASSUME NEW reason \in StopReasons, TurnEnds(reason) PROVE VerdictInv'
  BY <1>13 DEF TurnEnds, gateVars, auditVars, budgetVars, VerdictInv, FinishedIsNotHollow, NoResult, End, StoppedBy
<1>14. ASSUME NEW reason \in StopReasons, CorrectionEnds(reason) PROVE VerdictInv'
  BY <1>14 DEF CorrectionEnds, gateVars, auditVars, budgetVars, VerdictInv, FinishedIsNotHollow, NoResult, End, StoppedBy
<1>15. ASSUME NEW v \in Verdicts, Judge(v) PROVE VerdictInv'
  BY <1>15 DEF Judge, gateVars, auditVars, budgetVars, VerdictInv, FinishedIsNotHollow, NoResult, ActOn, End, CorrectionsLeft
<1>16. ASSUME NEW a \in Answers, SendAnswer(a) PROVE VerdictInv'
  BY <1>16 DEF SendAnswer, gateVars, auditVars, budgetVars, VerdictInv, FinishedIsNotHollow, NoResult
<1>17. CASE UNCHANGED vars
  BY <1>17 DEF vars, gateVars, auditVars, budgetVars, VerdictInv, FinishedIsNotHollow, NoResult
<1> QED
  BY <1>1, <1>2, <1>3, <1>4, <1>5, <1>6, <1>7, <1>8, <1>9, <1>10, <1>11, <1>12, <1>13, <1>14, <1>15, <1>16, <1>17, <1>18 DEF Next

(* No run ends as finished on top of a verdict that its present work is    *)
(* hollow or blocked, for any limit on the corrections.                    *)
THEOREM FinishedWorkIsNotHollow == Spec => []FinishedIsNotHollow
<1>1. Init => VerdictInv
  BY DEF Init, VerdictInv, FinishedIsNotHollow, NoResult
<1>2. VerdictInv => FinishedIsNotHollow
  BY DEF VerdictInv
<1> QED
  BY <1>1, <1>2, VerdictStep, PTL DEF Spec

(***************************************************************************)
(* The task implements its contract                                        *)
(***************************************************************************)
TaskInv ==
  /\ gate # NoGate => InATurn
  /\ phase \in {"Gathering", "CallingAuditor", "Auditing", "Correction"} => Audited

LEMMA TaskStep == TaskInv /\ [Next]_vars => TaskInv'
<1> SUFFICES ASSUME TaskInv, [Next]_vars PROVE TaskInv'
  OBVIOUS
<1>1. CASE Connect
  BY <1>1 DEF Connect, gateVars, auditVars, budgetVars, TaskInv, InATurn, End
<1>2. CASE ToolCall
  BY <1>2 DEF ToolCall, gateVars, auditVars, budgetVars, TaskInv, InATurn, BudgetUsedUp
<1>3. CASE BudgetTimeout
  BY <1>3 DEF BudgetTimeout, gateVars, auditVars, budgetVars, TaskInv, InATurn
<1>4. CASE TakeAnswer
  BY <1>4 DEF TakeAnswer, gateVars, auditVars, budgetVars, TaskInv, InATurn
<1>5. CASE SeeCancel
  BY <1>5 DEF SeeCancel, gateVars, auditVars, budgetVars, TaskInv, InATurn
<1>6. CASE CancelTimeout
  BY <1>6 DEF CancelTimeout, gateVars, auditVars, budgetVars, TaskInv, InATurn, End
<1>7. CASE TurnBreaks
  BY <1>7 DEF TurnBreaks, gateVars, auditVars, budgetVars, TaskInv, InATurn, End
<1>8. CASE GatherEvidence
  BY <1>8 DEF GatherEvidence, gateVars, auditVars, budgetVars, TaskInv, InATurn, End
<1>9. CASE CancelAudit
  BY <1>9 DEF CancelAudit, gateVars, auditVars, budgetVars, TaskInv, InATurn, ActOn, End, CorrectionsLeft
<1>18. CASE CallAuditor
  BY <1>18 DEF CallAuditor, gateVars, auditVars, budgetVars, TaskInv, InATurn, ActOn, End, CorrectionsLeft
<1>10. CASE Finish
  BY <1>10 DEF Finish, gateVars, auditVars, budgetVars, TaskInv, InATurn
<1>11. CASE PressStop
  BY <1>11 DEF PressStop, gateVars, auditVars, budgetVars, TaskInv, InATurn
<1>12. ASSUME NEW c \in Capabilities, AskPermission(c) PROVE TaskInv'
  BY <1>12 DEF AskPermission, gateVars, auditVars, budgetVars, TaskInv, InATurn, Refuses
<1>13. ASSUME NEW reason \in StopReasons, TurnEnds(reason) PROVE TaskInv'
  BY <1>13 DEF TurnEnds, gateVars, auditVars, budgetVars, TaskInv, InATurn, End, StoppedBy
<1>14. ASSUME NEW reason \in StopReasons, CorrectionEnds(reason) PROVE TaskInv'
  BY <1>14 DEF CorrectionEnds, gateVars, auditVars, budgetVars, TaskInv, InATurn, End, StoppedBy
<1>15. ASSUME NEW v \in Verdicts, Judge(v) PROVE TaskInv'
  BY <1>15 DEF Judge, gateVars, auditVars, budgetVars, TaskInv, InATurn, ActOn, End, CorrectionsLeft
<1>16. ASSUME NEW a \in Answers, SendAnswer(a) PROVE TaskInv'
  BY <1>16 DEF SendAnswer, gateVars, auditVars, budgetVars, TaskInv, InATurn
<1>17. CASE UNCHANGED vars
  BY <1>17 DEF vars, gateVars, auditVars, budgetVars, TaskInv, InATurn
<1> QED
  BY <1>1, <1>2, <1>3, <1>4, <1>5, <1>6, <1>7, <1>8, <1>9, <1>10, <1>11, <1>12, <1>13, <1>14, <1>15, <1>16, <1>17, <1>18 DEF Next

LEMMA ContractStart == Init => Contract!ContractInit
  BY DEF Init, Contract!ContractInit, TaskPhase, NoResult, NoGate

LEMMA ContractStep ==
  TypeOK /\ TaskInv /\ [Next]_vars => [Contract!ContractNext]_(Contract!contractVars)
<1> SUFFICES ASSUME TypeOK, TaskInv, [Next]_vars
             PROVE  Contract!ContractNext \/ UNCHANGED Contract!contractVars
  OBVIOUS
<1> USE NoGateIsNoCapability DEF TaskPhase, TaskInv, InATurn, Contract!contractVars, Contract!ContractNext
<1>1. CASE Connect
  BY <1>1 DEF Connect, gateVars, auditVars, budgetVars, TypeOK, End, Contract!Connects, Contract!Ends, Contract!Conclude
<1>2. CASE ToolCall
  BY <1>2 DEF ToolCall, gateVars, auditVars, budgetVars, TypeOK, InATurn, BudgetUsedUp, Contract!SeesCancel
<1>3. CASE BudgetTimeout
  BY <1>3 DEF BudgetTimeout, gateVars, auditVars, budgetVars, TypeOK, Contract!SeesCancel
<1>4. CASE TakeAnswer
  BY <1>4 DEF TakeAnswer, gateVars, auditVars, budgetVars, TypeOK, InATurn, Contract!Answered
<1>5. CASE SeeCancel
  BY <1>5 DEF SeeCancel, gateVars, auditVars, budgetVars, TypeOK, InATurn, Contract!SeesCancel
<1>6. CASE CancelTimeout
  BY <1>6 DEF CancelTimeout, gateVars, auditVars, budgetVars, TypeOK, InATurn, End, Contract!Ends, Contract!Conclude, Contract!Results
<1>7. CASE TurnBreaks
  BY <1>7 DEF TurnBreaks, gateVars, auditVars, budgetVars, TypeOK, InATurn, End, Contract!Ends, Contract!Conclude, Contract!Results
<1>8. CASE GatherEvidence
  BY <1>8 DEF GatherEvidence, gateVars, auditVars, budgetVars, TypeOK, End, Contract!Ends, Contract!Conclude, Contract!Results
<1>9. CASE CancelAudit
  BY <1>9 DEF CancelAudit, gateVars, auditVars, budgetVars, TypeOK, ActOn, End, CorrectionsLeft, Contract!AuditCancelled, Contract!Conclude
<1>18. CASE CallAuditor
  BY <1>18 DEF CallAuditor, gateVars, auditVars, budgetVars, TypeOK, ActOn, End, CorrectionsLeft, Contract!Audits, Contract!Ends, Contract!Conclude, Contract!Results
<1>10. CASE Finish
  BY <1>10 DEF Finish, gateVars, auditVars, budgetVars, TypeOK, Contract!Gone
<1>11. CASE PressStop
  BY <1>11 DEF PressStop, gateVars, auditVars, budgetVars, TypeOK, Contract!CancelStored
<1>12. ASSUME NEW c \in Capabilities, AskPermission(c) PROVE Contract!ContractNext \/ UNCHANGED Contract!contractVars
  BY <1>12 DEF AskPermission, gateVars, auditVars, budgetVars, TypeOK, InATurn, Refuses, Contract!Asks
<1>13. ASSUME NEW reason \in StopReasons, TurnEnds(reason) PROVE Contract!ContractNext \/ UNCHANGED Contract!contractVars
  BY <1>13 DEF TurnEnds, gateVars, auditVars, budgetVars, TypeOK, End, StoppedBy, Contract!CallsAuditor, Contract!Ends, Contract!Conclude, Contract!Results
<1>14. ASSUME NEW reason \in StopReasons, CorrectionEnds(reason) PROVE Contract!ContractNext \/ UNCHANGED Contract!contractVars
  BY <1>14 DEF CorrectionEnds, gateVars, auditVars, budgetVars, TypeOK, End, StoppedBy, Contract!CallsAuditor, Contract!Ends, Contract!Conclude, Contract!Results
<1>15. ASSUME NEW v \in Verdicts, Judge(v) PROVE Contract!ContractNext \/ UNCHANGED Contract!contractVars
  BY <1>15 DEF Judge, gateVars, auditVars, budgetVars, TypeOK, ActOn, End, CorrectionsLeft, Contract!Corrects, Contract!Ends, Contract!Conclude, Contract!Results
<1>16. ASSUME NEW a \in Answers, SendAnswer(a) PROVE Contract!ContractNext \/ UNCHANGED Contract!contractVars
  BY <1>16 DEF SendAnswer, gateVars, auditVars, budgetVars, TypeOK
<1>17. CASE UNCHANGED vars
  BY <1>17 DEF vars, gateVars, auditVars, budgetVars, TypeOK
<1> QED
  BY <1>1, <1>2, <1>3, <1>4, <1>5, <1>6, <1>7, <1>8, <1>9, <1>10, <1>11, <1>12, <1>13, <1>14, <1>15, <1>16, <1>17, <1>18 DEF Next

(* Seen from the Agent Desk, a run task does what RunContract says, which  *)
(* is what AgentExecution assumes of it.                                   *)
THEOREM RunImplementsContract == Spec => ImplementsContract
<1>1. Init => TaskInv
  BY DEF Init, TaskInv
<1> QED
  BY <1>1, TaskStep, ContractStart, ContractStep, RunTypeCorrect, PTL
  DEF Spec, ImplementsContract, Contract!ContractSpec

(***************************************************************************)
(* Every grant uses up an approval                                         *)
(***************************************************************************)

LEMMA ApprovingFinite ==
  ASSUME NEW s \in Seq(Answers)
  PROVE  IsFiniteSet(Approving(s)) /\ Cardinality(Approving(s)) \in Nat
<1>1. Approving(s) \in SUBSET (1..Len(s)) /\ Len(s) \in Nat
  BY DEF Approving
<1>2. IsFiniteSet(1..Len(s))
  BY <1>1, FS_Interval
<1> QED
  BY <1>1, <1>2, FS_Subset, FS_CardinalityType

(* An answer that joins the channel adds one approval or none.             *)
LEMMA ApprovingAppend ==
  ASSUME NEW s \in Seq(Answers), NEW a \in Answers
  PROVE  Cardinality(Approving(Append(s, a))) =
           IF a = "AllowOnce" THEN Cardinality(Approving(s)) + 1 ELSE Cardinality(Approving(s))
<1>1. /\ DOMAIN Append(s, a) = (DOMAIN s) \cup {Len(s) + 1}
      /\ Len(s) + 1 \notin DOMAIN s
      /\ Append(s, a)[Len(s) + 1] = a
      /\ \A i \in DOMAIN s : Append(s, a)[i] = s[i]
  OBVIOUS
<1>2. CASE a = "AllowOnce"
  <2>1. Approving(Append(s, a)) = Approving(s) \cup {Len(s) + 1}
    BY <1>1, <1>2 DEF Approving
  <2>2. Len(s) + 1 \notin Approving(s)
    BY <1>1 DEF Approving
  <2> QED
    BY <1>2, <2>1, <2>2, ApprovingFinite, FS_AddElement
<1>3. CASE a # "AllowOnce"
  <2>1. Approving(Append(s, a)) = Approving(s)
    BY <1>1, <1>3 DEF Approving
  <2> QED
    BY <1>3, <2>1
<1> QED
  BY <1>2, <1>3

(* Taking the oldest answer takes one approval away or none; the others    *)
(* move up by one place.                                                   *)
LEMMA ApprovingTail ==
  ASSUME NEW s \in Seq(Answers), s # <<>>
  PROVE  Cardinality(Approving(s)) =
           IF Head(s) = "AllowOnce" THEN Cardinality(Approving(Tail(s))) + 1
                                    ELSE Cardinality(Approving(Tail(s)))
<1> DEFINE rest == Approving(s) \ {1}
           up == [i \in Approving(Tail(s)) |-> i + 1]
<1>1. /\ Tail(s) \in Seq(Answers) /\ Len(s) \in Nat \ {0}
      /\ DOMAIN s = 1..Len(s) /\ DOMAIN Tail(s) = 1..(Len(s) - 1)
      /\ \A i \in 1..(Len(s) - 1) : Tail(s)[i] = s[i + 1]
      /\ Head(s) = s[1]
  OBVIOUS
<1>2. \A i \in Approving(Tail(s)) : i \in 1..(Len(s) - 1) /\ i + 1 \in rest
  BY <1>1 DEF Approving
<1>3. \A j \in rest : j - 1 \in Approving(Tail(s)) /\ up[j - 1] = j
  BY <1>1 DEF Approving
<1>4. up \in Bijection(Approving(Tail(s)), rest)
  <2>1. up \in [Approving(Tail(s)) -> rest]
    BY <1>2
  <2>2. \A i, j \in Approving(Tail(s)) : up[i] = up[j] => i = j
    BY <1>2
  <2>3. \A j \in rest : \E i \in Approving(Tail(s)) : up[i] = j
    BY <1>3
  <2> HIDE DEF rest, up
  <2> QED
    BY <2>1, <2>2, <2>3 DEF Bijection, Injection, Surjection, IsInjective
<1>5. Cardinality(rest) = Cardinality(Approving(Tail(s)))
  <2> HIDE DEF rest, up
  <2> QED
    BY <1>1, <1>4, ApprovingFinite, FS_Bijection DEF ExistsBijection
<1>6. Cardinality(rest) = IF 1 \in Approving(s) THEN Cardinality(Approving(s)) - 1
                                                 ELSE Cardinality(Approving(s))
  BY ApprovingFinite, FS_RemoveElement
<1>7. 1 \in Approving(s) <=> Head(s) = "AllowOnce"
  BY <1>1 DEF Approving
<1>8. Cardinality(Approving(s)) \in Nat
  BY ApprovingFinite
<1> HIDE DEF rest, up
<1> QED
  BY <1>5, <1>6, <1>7, <1>8

(* Only what the policy lets through comes to a gate.                      *)
GrantInv ==
  /\ gate \in Permitted \cup {NoGate}
  /\ EveryGrantWasApproved

LEMMA GrantStep == TypeInv /\ GrantInv /\ [Next]_vars => GrantInv'
<1> SUFFICES ASSUME TypeInv, GrantInv, [Next]_vars PROVE GrantInv'
  OBVIOUS
<1>t. /\ granted \in Seq(Capabilities) /\ answers \in Seq(Answers) /\ allowed \in Nat
      /\ Len(granted) \in Nat
  BY DEF TypeInv, TypeOK
<1>n. allowed \in Nat /\ Len(granted) \in Nat /\ Len(granted) + Cardinality(Approving(answers)) = allowed
  BY <1>t DEF GrantInv, EveryGrantWasApproved
<1>u. ASSUME UNCHANGED <<answers, allowed, granted>>, gate' \in Permitted \cup {NoGate}
      PROVE  GrantInv'
  BY <1>u DEF GrantInv, EveryGrantWasApproved, Approving
<1>1. CASE Connect \/ ToolCall \/ BudgetTimeout \/ SeeCancel \/ CancelTimeout \/ TurnBreaks
           \/ GatherEvidence \/ CallAuditor \/ CancelAudit \/ Finish \/ PressStop \/ UNCHANGED vars
  <2>1. UNCHANGED gateVars
    BY <1>1 DEF Connect, ToolCall, BudgetTimeout, SeeCancel, CancelTimeout, TurnBreaks,
       GatherEvidence, CallAuditor, CancelAudit, Finish, PressStop, vars
  <2> QED
    BY <2>1, <1>u DEF gateVars, GrantInv
<1>2. ASSUME NEW reason \in StopReasons, TurnEnds(reason) \/ CorrectionEnds(reason) PROVE GrantInv'
  BY <1>2, <1>u DEF TurnEnds, CorrectionEnds, gateVars, GrantInv
<1>3. ASSUME NEW v \in Verdicts, Judge(v) PROVE GrantInv'
  BY <1>3, <1>u DEF Judge, gateVars, GrantInv
<1>4. ASSUME NEW c \in Capabilities, AskPermission(c) PROVE GrantInv'
  BY <1>4, <1>u DEF AskPermission, Refuses
<1>5. CASE TakeAnswer
  <2>1. /\ gate \in Permitted /\ gate \in Capabilities
        /\ answers # <<>> /\ answers' = Tail(answers) /\ allowed' = allowed /\ gate' = NoGate
    BY <1>5, PermittedAreCapabilities DEF TakeAnswer, GrantInv
  <2>2. CASE Head(answers) = "AllowOnce"
    <3>1. granted' = Append(granted, gate)
      BY <1>5, <2>2 DEF TakeAnswer, Grants
    <3>2. Len(granted') = Len(granted) + 1
      BY <3>1, <2>1, <1>t
    <3>3. \A i \in DOMAIN granted' : granted'[i] \in Permitted
      <4>1. /\ DOMAIN granted' = (DOMAIN granted) \cup {Len(granted) + 1}
            /\ granted'[Len(granted) + 1] = gate
            /\ \A i \in DOMAIN granted : granted'[i] = granted[i]
        BY <3>1, <2>1, <1>t
      <4> QED
        BY <4>1, <2>1 DEF GrantInv, EveryGrantWasApproved
    <3>4. Cardinality(Approving(answers)) = Cardinality(Approving(answers')) + 1
      BY <2>1, <2>2, <1>t, ApprovingTail
    <3>5. Cardinality(Approving(answers')) \in Nat
      <4>1. answers' \in Seq(Answers)
        BY <2>1, <1>t
      <4> QED
        BY <4>1, ApprovingFinite
    <3>6. Len(granted') + Cardinality(Approving(answers')) = allowed
      BY <3>2, <3>4, <3>5, <1>n
    <3> QED
      BY <2>1, <3>3, <3>6 DEF GrantInv, EveryGrantWasApproved
  <2>3. CASE Head(answers) # "AllowOnce"
    <3>1. granted' = granted
      BY <1>5, <2>3 DEF TakeAnswer, Grants
    <3>2. Cardinality(Approving(answers)) = Cardinality(Approving(answers'))
      BY <2>1, <2>3, <1>t, ApprovingTail
    <3> QED
      BY <2>1, <3>1, <3>2 DEF GrantInv, EveryGrantWasApproved
  <2> QED
    BY <2>2, <2>3
<1>6. ASSUME NEW a \in Answers, SendAnswer(a) PROVE GrantInv'
  <2>1. /\ answers' = Append(answers, a) /\ UNCHANGED <<gate, granted>>
        /\ allowed' = IF a = "AllowOnce" THEN allowed + 1 ELSE allowed
    BY <1>6 DEF SendAnswer
  <2>2. Cardinality(Approving(answers')) =
          IF a = "AllowOnce" THEN Cardinality(Approving(answers)) + 1
                             ELSE Cardinality(Approving(answers))
    BY <2>1, <1>t, ApprovingAppend
  <2>3. Cardinality(Approving(answers)) \in Nat
    BY <1>t, ApprovingFinite
  <2>4. Len(granted') + Cardinality(Approving(answers')) = allowed'
    <3>1. Len(granted') = Len(granted) /\ allowed' = IF a = "AllowOnce" THEN allowed + 1 ELSE allowed
      BY <2>1
    <3> QED
      BY <2>2, <2>3, <3>1, <1>n
  <2> QED
    BY <2>1, <2>4 DEF GrantInv, EveryGrantWasApproved
<1> QED
  BY <1>1, <1>2, <1>3, <1>4, <1>5, <1>6 DEF Next

(* Whatever the order in which gates open, answers arrive and the run is   *)
(* cancelled: the tool is granted only what the policy permits, and each   *)
(* grant uses up one approval (the answer channel of run_task).            *)
THEOREM GrantsAreApproved == Spec => []EveryGrantWasApproved
<1>1. Init => GrantInv
  <2> SUFFICES ASSUME Init PROVE GrantInv
    OBVIOUS
  <2>1. Approving(answers) = {} /\ Len(granted) = 0 /\ DOMAIN granted = {}
    BY DEF Init, Approving
  <2> QED
    BY <2>1, FS_EmptySet DEF Init, GrantInv, EveryGrantWasApproved
<1>2. GrantInv => EveryGrantWasApproved
  BY DEF GrantInv
<1> QED
  BY <1>1, <1>2, TypeInit, TypeStep, GrantStep, PTL DEF Spec
=============================================================================
