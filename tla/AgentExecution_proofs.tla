------------------------ MODULE AgentExecution_proofs ------------------------
(***************************************************************************)
(* Proofs about AgentExecution, for every set of executions.               *)
(*                                                                         *)
(* The invariant is built in layers: types, then the control state of      *)
(* starts, runs and the registry, then the session file, then the stop     *)
(* call.  Each layer assumes the ones before it.                           *)
(***************************************************************************)
EXTENDS AgentExecution, TLAPS

(***************************************************************************)
(* Types                                                                   *)
(***************************************************************************)
LEMMA TypeInit == Init => TypeOK
  BY NoneIsNoExecution
  DEF Init, TypeOK, SessionStates, NoRecord, StartPhases, RunPhases, NoEvent, NoStop, NoGet, Entry

LEMMA TypeStep == TypeOK /\ [Next]_vars => TypeOK'
<1> SUFFICES ASSUME TypeOK, [Next]_vars PROVE TypeOK'
  OBVIOUS
<1>1. ASSUME NEW e \in Executions, StartCheck(e) PROVE TypeOK'
  BY <1>1 DEF StartCheck, durable, memory, TypeOK, StartPhases
<1>2. ASSUME NEW e \in Executions, StartProvision(e) PROVE TypeOK'
  BY <1>2 DEF StartProvision, durable, memory, TypeOK, StartPhases
<1>3. ASSUME NEW e \in Executions, StartLink(e) PROVE TypeOK'
  BY <1>3 DEF StartLink, durable, memory, TypeOK, StartPhases
<1>4. ASSUME NEW e \in Executions, StartDiscoverFails(e) PROVE TypeOK'
  BY <1>4 DEF StartDiscoverFails, durable, memory, TypeOK, StartPhases, Unwind
<1>5. ASSUME NEW e \in Executions, StartRecord(e) PROVE TypeOK'
  BY <1>5 DEF StartRecord, durable, memory, TypeOK, StartPhases, Unwind, SessionStates, LiveStates, NoRecord, Entry
<1>6. ASSUME NEW e \in Executions, StartLaunch(e) PROVE TypeOK'
  BY <1>6 DEF StartLaunch, durable, memory, TypeOK, StartPhases, RunPhases
<1>7. ASSUME NEW e \in Executions, RunConnects(e) PROVE TypeOK'
  BY <1>7 DEF RunConnects, durable, memory, TypeOK, RunIs, RunPhases
<1>8. ASSUME NEW e \in Executions, RunReports(e) PROVE TypeOK'
  BY <1>8 DEF RunReports, durable, memory, TypeOK, Emit, RunIs, EventStates, NoEvent
<1>9. ASSUME NEW e \in Executions, RunAsks(e) PROVE TypeOK'
  BY <1>9 DEF RunAsks, durable, memory, TypeOK, Emit, RunIs, EventStates, NoEvent, RunPhases
<1>10. ASSUME NEW e \in Executions, UserAnswersGate(e) PROVE TypeOK'
  BY <1>10 DEF UserAnswersGate, durable, memory, TypeOK, RunIs, RunPhases
<1>11. ASSUME NEW e \in Executions, RunAudits(e) PROVE TypeOK'
  BY <1>11 DEF RunAudits, durable, memory, TypeOK, RunIs, RunPhases
<1>30. ASSUME NEW e \in Executions, RunCallsAuditor(e) PROVE TypeOK'
  BY <1>30 DEF RunCallsAuditor, durable, memory, TypeOK, RunIs, RunPhases
<1>12. ASSUME NEW e \in Executions, RunCorrects(e) PROVE TypeOK'
  BY <1>12 DEF RunCorrects, durable, memory, TypeOK, RunIs, RunPhases
<1>13. ASSUME NEW e \in Executions, RunAuditCancelled(e) PROVE TypeOK'
  BY <1>13 DEF RunAuditCancelled, durable, memory, TypeOK, Emit, RunIs, EventStates, EndStates, NoEvent, RunPhases
<1>14. ASSUME NEW e \in Executions, RunSeesCancel(e) PROVE TypeOK'
  BY <1>14 DEF RunSeesCancel, durable, memory, TypeOK, RunIs
<1>15. ASSUME NEW e \in Executions, RunEnds(e) PROVE TypeOK'
  BY <1>15 DEF RunEnds, durable, memory, TypeOK, Emit, RunIs, EventStates, EndStates, NoEvent, RunPhases
<1>16. ASSUME NEW e \in Executions, RunCancelTimeout(e) PROVE TypeOK'
  BY <1>16 DEF RunCancelTimeout, durable, memory, TypeOK, Emit, RunIs, EventStates, EndStates, NoEvent, RunPhases
<1>17. ASSUME NEW e \in Executions, RunGone(e) PROVE TypeOK'
  BY <1>17 DEF RunGone, durable, memory, TypeOK, RunIs, RunPhases
<1>18. ASSUME NEW e \in Executions, ApplyEvent(e) PROVE TypeOK'
  BY <1>18 DEF ApplyEvent, durable, memory, TypeOK, EventStates, EndStates, LiveStates, SessionStates, NoEvent
<1>19. ASSUME NEW e \in Executions, StopAcknowledged(e) PROVE TypeOK'
  BY <1>19 DEF StopAcknowledged, durable, memory, TypeOK, Completed
<1>20. ASSUME NEW e \in Executions, StopTimesOut(e) PROVE TypeOK'
  BY <1>20 DEF StopTimesOut, durable, memory, TypeOK, Completed
<1>21. ASSUME NEW S \in SUBSET Executions, StopRead(S) PROVE TypeOK'
  BY <1>21 DEF StopRead, durable, memory, TypeOK, NoStop
<1>22. CASE StopSignal
  BY <1>22 DEF StopSignal, durable, memory, TypeOK
<1>23. CASE StopWrite
  BY <1>23 DEF StopWrite, durable, memory, TypeOK, NoStop, SessionStates, EndStates, Entry
<1>24. CASE StopUnlink
  BY <1>24 DEF StopUnlink, durable, memory, TypeOK, NoStop
<1>25. CASE GetReadsLiveness
  BY <1>25 DEF GetReadsLiveness, durable, memory, TypeOK
<1>26. CASE GetReconciles
  BY <1>26 DEF GetReconciles, durable, memory, TypeOK, NoGet, ReconciledHeader, ReconciledRecord, SessionStates, Entry
<1>27. CASE OtherSessionSaves
  BY <1>27 DEF OtherSessionSaves, durable, memory, TypeOK, Entry
<1>28. CASE Restart
  BY <1>28 DEF Restart, durable, memory, TypeOK, Sweep, SessionStates, EndStates, NoStop, NoGet, NoEvent, RunPhases, StartPhases, Entry
<1>29. CASE UNCHANGED vars
  BY <1>29 DEF vars, TypeOK
<1> QED
  BY <1>1, <1>2, <1>3, <1>4, <1>5, <1>6, <1>7, <1>8, <1>9, <1>10, <1>11, <1>12, <1>13, <1>14, <1>15, <1>16, <1>17, <1>18, <1>19, <1>20, <1>21, <1>22, <1>23, <1>24, <1>25, <1>26, <1>27, <1>28, <1>29, <1>30 DEF Next, StartStep, RunStep, StopStep, GetStep

(* Every reachable state is well typed: the record, index and memory of a   *)
(* session never hold a value outside what the code's types allow.         *)
THEOREM TypeCorrect == Spec => []TypeOK
  BY TypeInit, TypeStep, PTL DEF Spec

(***************************************************************************)
(* The inductive invariant                                                 *)
(***************************************************************************)

(* Starts, runs and the registry: an execution is registered exactly while *)
(* its task is alive, an event waits only for a task that waits for it, and *)
(* a start has left exactly what its phase says.                           *)
ControlInv ==
  /\ registry = {e \in Executions : run[e] \in AliveRun}
  /\ \A e \in Executions :
       /\ event[e] # NoEvent => run[e] \in AliveRun
       /\ event[e] # NoEvent /\ run[e] = "Shutdown" => event[e] \in EndStates
       /\ start[e] # "Launched" <=> run[e] = "None"
       /\ start[e] \in {"Idle", "Checked", "Provisioned", "Refused", "LeftBehind"} => e \notin links
       /\ start[e] \in {"Idle", "Checked", "Refused"} => e \notin worktree

(* The session file: one live record, and a record for every started run.  *)
FileInv ==
  /\ OnlyActiveRecordIsLive
  /\ \A e \in Executions :
       /\ start[e] \in {"Idle", "Checked", "Provisioned", "Linked", "Refused", "LeftBehind"}
            => record[e] = NoRecord /\ active # e
       /\ start[e] = "Recorded" \/ run[e] \in AliveRun
            => record[e] # NoRecord /\ active # None

(* A run whose last event was applied no longer reads as live.             *)
EndInv ==
  /\ LiveRecordHasProcess
  /\ \A e \in links \ unsaved :
       run[e] = "Shutdown" /\ event[e] = NoEvent => ~IsLive(record[e])

(* The stop call signals only executions that were started, and waits only *)
(* for executions it has signalled.                                        *)
StopInv ==
  /\ ConfirmedStopIsGone
  /\ \A e \in stop.requested : run[e] # "None"
  /\ stop.phase = "Read" => stop.acknowledged = {}

Inv == TypeOK /\ ControlInv /\ FileInv /\ EndInv /\ StopInv

LEMMA ControlStep == TypeOK /\ ControlInv /\ [Next]_vars => ControlInv'
<1> SUFFICES ASSUME TypeOK, ControlInv, [Next]_vars PROVE ControlInv'
  OBVIOUS
<1>1. ASSUME NEW e \in Executions, StartCheck(e) PROVE ControlInv'
  BY <1>1 DEF StartCheck, durable, memory, TypeOK, ControlInv, AliveRun, AtWork, NoEvent
<1>2. ASSUME NEW e \in Executions, StartProvision(e) PROVE ControlInv'
  BY <1>2 DEF StartProvision, durable, memory, TypeOK, ControlInv, AliveRun, AtWork, NoEvent
<1>3. ASSUME NEW e \in Executions, StartLink(e) PROVE ControlInv'
  BY <1>3 DEF StartLink, durable, memory, TypeOK, ControlInv, AliveRun, AtWork, NoEvent
<1>4. ASSUME NEW e \in Executions, StartDiscoverFails(e) PROVE ControlInv'
  BY <1>4 DEF StartDiscoverFails, durable, memory, TypeOK, ControlInv, AliveRun, AtWork, NoEvent, Unwind
<1>5. ASSUME NEW e \in Executions, StartRecord(e) PROVE ControlInv'
  BY <1>5 DEF StartRecord, durable, memory, TypeOK, ControlInv, AliveRun, AtWork, NoEvent, Unwind
<1>6. ASSUME NEW e \in Executions, StartLaunch(e) PROVE ControlInv'
  BY <1>6 DEF StartLaunch, durable, memory, TypeOK, ControlInv, AliveRun, AtWork, NoEvent
<1>7. ASSUME NEW e \in Executions, RunConnects(e) PROVE ControlInv'
  BY <1>7 DEF RunConnects, durable, memory, TypeOK, ControlInv, AliveRun, AtWork, NoEvent, RunIs
<1>8. ASSUME NEW e \in Executions, RunReports(e) PROVE ControlInv'
  BY <1>8 DEF RunReports, durable, memory, TypeOK, ControlInv, AliveRun, AtWork, NoEvent, Emit, RunIs, EndStates
<1>9. ASSUME NEW e \in Executions, RunAsks(e) PROVE ControlInv'
  BY <1>9 DEF RunAsks, durable, memory, TypeOK, ControlInv, AliveRun, AtWork, NoEvent, Emit, RunIs, EndStates
<1>10. ASSUME NEW e \in Executions, UserAnswersGate(e) PROVE ControlInv'
  BY <1>10 DEF UserAnswersGate, durable, memory, TypeOK, ControlInv, AliveRun, AtWork, NoEvent, RunIs
<1>11. ASSUME NEW e \in Executions, RunAudits(e) PROVE ControlInv'
  BY <1>11 DEF RunAudits, durable, memory, TypeOK, ControlInv, AliveRun, AtWork, NoEvent, RunIs
<1>30. ASSUME NEW e \in Executions, RunCallsAuditor(e) PROVE ControlInv'
  BY <1>30 DEF RunCallsAuditor, durable, memory, TypeOK, ControlInv, AliveRun, AtWork, NoEvent, RunIs
<1>12. ASSUME NEW e \in Executions, RunCorrects(e) PROVE ControlInv'
  BY <1>12 DEF RunCorrects, durable, memory, TypeOK, ControlInv, AliveRun, AtWork, NoEvent, RunIs
<1>13. ASSUME NEW e \in Executions, RunAuditCancelled(e) PROVE ControlInv'
  BY <1>13 DEF RunAuditCancelled, durable, memory, TypeOK, ControlInv, AliveRun, AtWork, NoEvent, Emit, RunIs, EndStates
<1>14. ASSUME NEW e \in Executions, RunSeesCancel(e) PROVE ControlInv'
  BY <1>14 DEF RunSeesCancel, durable, memory, TypeOK, ControlInv, AliveRun, AtWork, NoEvent, RunIs
<1>15. ASSUME NEW e \in Executions, RunEnds(e) PROVE ControlInv'
  BY <1>15 DEF RunEnds, durable, memory, TypeOK, ControlInv, AliveRun, AtWork, NoEvent, Emit, RunIs, EndStates
<1>16. ASSUME NEW e \in Executions, RunCancelTimeout(e) PROVE ControlInv'
  BY <1>16 DEF RunCancelTimeout, durable, memory, TypeOK, ControlInv, AliveRun, AtWork, NoEvent, Emit, RunIs, EndStates
<1>17. ASSUME NEW e \in Executions, RunGone(e) PROVE ControlInv'
  BY <1>17 DEF RunGone, durable, memory, TypeOK, ControlInv, AliveRun, AtWork, NoEvent, RunIs
<1>18. ASSUME NEW e \in Executions, ApplyEvent(e) PROVE ControlInv'
  BY <1>18 DEF ApplyEvent, durable, memory, TypeOK, ControlInv, AliveRun, AtWork, NoEvent
<1>19. ASSUME NEW e \in Executions, StopAcknowledged(e) PROVE ControlInv'
  BY <1>19 DEF StopAcknowledged, durable, memory, TypeOK, ControlInv, AliveRun, AtWork, NoEvent
<1>20. ASSUME NEW e \in Executions, StopTimesOut(e) PROVE ControlInv'
  BY <1>20 DEF StopTimesOut, durable, memory, TypeOK, ControlInv, AliveRun, AtWork, NoEvent
<1>21. ASSUME NEW S \in SUBSET Executions, StopRead(S) PROVE ControlInv'
  BY <1>21 DEF StopRead, durable, memory, TypeOK, ControlInv, AliveRun, AtWork, NoEvent
<1>22. CASE StopSignal
  BY <1>22 DEF StopSignal, durable, memory, TypeOK, ControlInv, AliveRun, AtWork, NoEvent
<1>23. CASE StopWrite
  BY <1>23 DEF StopWrite, durable, memory, TypeOK, ControlInv, AliveRun, AtWork, NoEvent
<1>24. CASE StopUnlink
  BY <1>24 DEF StopUnlink, durable, memory, TypeOK, ControlInv, AliveRun, AtWork, NoEvent
<1>25. CASE GetReadsLiveness
  BY <1>25 DEF GetReadsLiveness, durable, memory, TypeOK, ControlInv, AliveRun, AtWork, NoEvent
<1>26. CASE GetReconciles
  BY <1>26 DEF GetReconciles, durable, memory, TypeOK, ControlInv, AliveRun, AtWork, NoEvent
<1>27. CASE OtherSessionSaves
  BY <1>27 DEF OtherSessionSaves, durable, memory, TypeOK, ControlInv, AliveRun, AtWork, NoEvent
<1>28. CASE Restart
  BY <1>28 DEF Restart, durable, memory, TypeOK, ControlInv, AliveRun, AtWork, NoEvent, StartPhases
<1>29. CASE UNCHANGED vars
  BY <1>29 DEF vars, TypeOK, ControlInv, AliveRun, AtWork, NoEvent
<1> QED
  BY <1>1, <1>2, <1>3, <1>4, <1>5, <1>6, <1>7, <1>8, <1>9, <1>10, <1>11, <1>12, <1>13, <1>14, <1>15, <1>16, <1>17, <1>18, <1>19, <1>20, <1>21, <1>22, <1>23, <1>24, <1>25, <1>26, <1>27, <1>28, <1>29, <1>30 DEF Next, StartStep, RunStep, StopStep, GetStep

LEMMA FileStep == TypeOK /\ ControlInv /\ FileInv /\ [Next]_vars => FileInv'
<1> SUFFICES ASSUME TypeOK, ControlInv, FileInv, [Next]_vars PROVE FileInv'
  OBVIOUS
<1>1. ASSUME NEW e \in Executions, StartCheck(e) PROVE FileInv'
  BY <1>1 DEF StartCheck, durable, memory, TypeOK, ControlInv, FileInv, OnlyActiveRecordIsLive, IsLive, AliveRun, AtWork, NoEvent
<1>2. ASSUME NEW e \in Executions, StartProvision(e) PROVE FileInv'
  BY <1>2 DEF StartProvision, durable, memory, TypeOK, ControlInv, FileInv, OnlyActiveRecordIsLive, IsLive, AliveRun, AtWork, NoEvent
<1>3. ASSUME NEW e \in Executions, StartLink(e) PROVE FileInv'
  BY <1>3 DEF StartLink, durable, memory, TypeOK, ControlInv, FileInv, OnlyActiveRecordIsLive, IsLive, AliveRun, AtWork, NoEvent
<1>4. ASSUME NEW e \in Executions, StartDiscoverFails(e) PROVE FileInv'
  BY <1>4 DEF StartDiscoverFails, durable, memory, TypeOK, ControlInv, FileInv, OnlyActiveRecordIsLive, IsLive, AliveRun, AtWork, NoEvent, Unwind
<1>5. ASSUME NEW e \in Executions, StartRecord(e) PROVE FileInv'
  BY <1>5, NoneIsNoExecution DEF StartRecord, durable, memory, TypeOK, ControlInv, FileInv, OnlyActiveRecordIsLive, IsLive, AliveRun, AtWork, NoEvent, Unwind, AlreadyRunning, NoRecord, LiveStates
<1>6. ASSUME NEW e \in Executions, StartLaunch(e) PROVE FileInv'
  BY <1>6 DEF StartLaunch, durable, memory, TypeOK, ControlInv, FileInv, OnlyActiveRecordIsLive, IsLive, AliveRun, AtWork, NoEvent
<1>7. ASSUME NEW e \in Executions, RunConnects(e) PROVE FileInv'
  BY <1>7 DEF RunConnects, durable, memory, TypeOK, ControlInv, FileInv, OnlyActiveRecordIsLive, IsLive, AliveRun, AtWork, NoEvent, RunIs
<1>8. ASSUME NEW e \in Executions, RunReports(e) PROVE FileInv'
  BY <1>8 DEF RunReports, durable, memory, TypeOK, ControlInv, FileInv, OnlyActiveRecordIsLive, IsLive, AliveRun, AtWork, NoEvent, Emit, RunIs, EndStates
<1>9. ASSUME NEW e \in Executions, RunAsks(e) PROVE FileInv'
  BY <1>9 DEF RunAsks, durable, memory, TypeOK, ControlInv, FileInv, OnlyActiveRecordIsLive, IsLive, AliveRun, AtWork, NoEvent, Emit, RunIs, EndStates
<1>10. ASSUME NEW e \in Executions, UserAnswersGate(e) PROVE FileInv'
  BY <1>10 DEF UserAnswersGate, durable, memory, TypeOK, ControlInv, FileInv, OnlyActiveRecordIsLive, IsLive, AliveRun, AtWork, NoEvent, RunIs
<1>11. ASSUME NEW e \in Executions, RunAudits(e) PROVE FileInv'
  BY <1>11 DEF RunAudits, durable, memory, TypeOK, ControlInv, FileInv, OnlyActiveRecordIsLive, IsLive, AliveRun, AtWork, NoEvent, RunIs
<1>30. ASSUME NEW e \in Executions, RunCallsAuditor(e) PROVE FileInv'
  BY <1>30 DEF RunCallsAuditor, durable, memory, TypeOK, ControlInv, FileInv, OnlyActiveRecordIsLive, IsLive, AliveRun, AtWork, NoEvent, RunIs
<1>12. ASSUME NEW e \in Executions, RunCorrects(e) PROVE FileInv'
  BY <1>12 DEF RunCorrects, durable, memory, TypeOK, ControlInv, FileInv, OnlyActiveRecordIsLive, IsLive, AliveRun, AtWork, NoEvent, RunIs
<1>13. ASSUME NEW e \in Executions, RunAuditCancelled(e) PROVE FileInv'
  BY <1>13 DEF RunAuditCancelled, durable, memory, TypeOK, ControlInv, FileInv, OnlyActiveRecordIsLive, IsLive, AliveRun, AtWork, NoEvent, Emit, RunIs, EndStates
<1>14. ASSUME NEW e \in Executions, RunSeesCancel(e) PROVE FileInv'
  BY <1>14 DEF RunSeesCancel, durable, memory, TypeOK, ControlInv, FileInv, OnlyActiveRecordIsLive, IsLive, AliveRun, AtWork, NoEvent, RunIs
<1>15. ASSUME NEW e \in Executions, RunEnds(e) PROVE FileInv'
  BY <1>15 DEF RunEnds, durable, memory, TypeOK, ControlInv, FileInv, OnlyActiveRecordIsLive, IsLive, AliveRun, AtWork, NoEvent, Emit, RunIs, EndStates
<1>16. ASSUME NEW e \in Executions, RunCancelTimeout(e) PROVE FileInv'
  BY <1>16 DEF RunCancelTimeout, durable, memory, TypeOK, ControlInv, FileInv, OnlyActiveRecordIsLive, IsLive, AliveRun, AtWork, NoEvent, Emit, RunIs, EndStates
<1>17. ASSUME NEW e \in Executions, RunGone(e) PROVE FileInv'
  BY <1>17 DEF RunGone, durable, memory, TypeOK, ControlInv, FileInv, OnlyActiveRecordIsLive, IsLive, AliveRun, AtWork, NoEvent, RunIs
<1>18. ASSUME NEW e \in Executions, ApplyEvent(e) PROVE FileInv'
  BY <1>18, NoneIsNoExecution DEF ApplyEvent, durable, memory, TypeOK, ControlInv, FileInv, OnlyActiveRecordIsLive, IsLive, AliveRun, AtWork, NoEvent, Superseded, NoRecord, EventStates, EndStates
<1>19. ASSUME NEW e \in Executions, StopAcknowledged(e) PROVE FileInv'
  BY <1>19 DEF StopAcknowledged, durable, memory, TypeOK, ControlInv, FileInv, OnlyActiveRecordIsLive, IsLive, AliveRun, AtWork, NoEvent
<1>20. ASSUME NEW e \in Executions, StopTimesOut(e) PROVE FileInv'
  BY <1>20 DEF StopTimesOut, durable, memory, TypeOK, ControlInv, FileInv, OnlyActiveRecordIsLive, IsLive, AliveRun, AtWork, NoEvent
<1>21. ASSUME NEW S \in SUBSET Executions, StopRead(S) PROVE FileInv'
  BY <1>21 DEF StopRead, durable, memory, TypeOK, ControlInv, FileInv, OnlyActiveRecordIsLive, IsLive, AliveRun, AtWork, NoEvent
<1>22. CASE StopSignal
  BY <1>22 DEF StopSignal, durable, memory, TypeOK, ControlInv, FileInv, OnlyActiveRecordIsLive, IsLive, AliveRun, AtWork, NoEvent
<1>23. CASE StopWrite
  BY <1>23 DEF StopWrite, durable, memory, TypeOK, ControlInv, FileInv, OnlyActiveRecordIsLive, IsLive, AliveRun, AtWork, NoEvent, NoRecord, LiveStates
<1>24. CASE StopUnlink
  BY <1>24 DEF StopUnlink, durable, memory, TypeOK, ControlInv, FileInv, OnlyActiveRecordIsLive, IsLive, AliveRun, AtWork, NoEvent
<1>25. CASE GetReadsLiveness
  BY <1>25 DEF GetReadsLiveness, durable, memory, TypeOK, ControlInv, FileInv, OnlyActiveRecordIsLive, IsLive, AliveRun, AtWork, NoEvent
<1>26. CASE GetReconciles
  BY <1>26 DEF GetReconciles, durable, memory, TypeOK, ControlInv, FileInv, OnlyActiveRecordIsLive, IsLive, AliveRun, AtWork, NoEvent, ReconciledRecord, NoRecord, LiveStates
<1>27. CASE OtherSessionSaves
  BY <1>27 DEF OtherSessionSaves, durable, memory, TypeOK, ControlInv, FileInv, OnlyActiveRecordIsLive, IsLive, AliveRun, AtWork, NoEvent
<1>28. CASE Restart
  BY <1>28, NoneIsNoExecution DEF Restart, durable, memory, TypeOK, ControlInv, FileInv, OnlyActiveRecordIsLive, IsLive, AliveRun, AtWork, NoEvent, Sweep, Orphans, NoRecord, LiveStates
<1>29. CASE UNCHANGED vars
  BY <1>29 DEF vars, TypeOK, ControlInv, FileInv, OnlyActiveRecordIsLive, IsLive, AliveRun, AtWork, NoEvent
<1> QED
  BY <1>1, <1>2, <1>3, <1>4, <1>5, <1>6, <1>7, <1>8, <1>9, <1>10, <1>11, <1>12, <1>13, <1>14, <1>15, <1>16, <1>17, <1>18, <1>19, <1>20, <1>21, <1>22, <1>23, <1>24, <1>25, <1>26, <1>27, <1>28, <1>29, <1>30 DEF Next, StartStep, RunStep, StopStep, GetStep

LEMMA EndStep == TypeOK /\ ControlInv /\ FileInv /\ EndInv /\ [Next]_vars => EndInv'
<1> SUFFICES ASSUME TypeOK, ControlInv, FileInv, EndInv, [Next]_vars PROVE EndInv'
  OBVIOUS
<1>1. ASSUME NEW e \in Executions, StartCheck(e) PROVE EndInv'
  BY <1>1 DEF StartCheck, durable, memory, TypeOK, ControlInv, FileInv, OnlyActiveRecordIsLive, EndInv, LiveRecordHasProcess, IsLive, AliveRun, AtWork, NoEvent
<1>2. ASSUME NEW e \in Executions, StartProvision(e) PROVE EndInv'
  BY <1>2 DEF StartProvision, durable, memory, TypeOK, ControlInv, FileInv, OnlyActiveRecordIsLive, EndInv, LiveRecordHasProcess, IsLive, AliveRun, AtWork, NoEvent
<1>3. ASSUME NEW e \in Executions, StartLink(e) PROVE EndInv'
  BY <1>3 DEF StartLink, durable, memory, TypeOK, ControlInv, FileInv, OnlyActiveRecordIsLive, EndInv, LiveRecordHasProcess, IsLive, AliveRun, AtWork, NoEvent, NoRecord, LiveStates
<1>4. ASSUME NEW e \in Executions, StartDiscoverFails(e) PROVE EndInv'
  BY <1>4 DEF StartDiscoverFails, durable, memory, TypeOK, ControlInv, FileInv, OnlyActiveRecordIsLive, EndInv, LiveRecordHasProcess, IsLive, AliveRun, AtWork, NoEvent, Unwind
<1>5. ASSUME NEW e \in Executions, StartRecord(e) PROVE EndInv'
  BY <1>5, NoneIsNoExecution DEF StartRecord, durable, memory, TypeOK, ControlInv, FileInv, OnlyActiveRecordIsLive, EndInv, LiveRecordHasProcess, IsLive, AliveRun, AtWork, NoEvent, Unwind, AlreadyRunning, NoRecord, LiveStates
<1>6. ASSUME NEW e \in Executions, StartLaunch(e) PROVE EndInv'
  BY <1>6 DEF StartLaunch, durable, memory, TypeOK, ControlInv, FileInv, OnlyActiveRecordIsLive, EndInv, LiveRecordHasProcess, IsLive, AliveRun, AtWork, NoEvent
<1>7. ASSUME NEW e \in Executions, RunConnects(e) PROVE EndInv'
  BY <1>7 DEF RunConnects, durable, memory, TypeOK, ControlInv, FileInv, OnlyActiveRecordIsLive, EndInv, LiveRecordHasProcess, IsLive, AliveRun, AtWork, NoEvent, RunIs
<1>8. ASSUME NEW e \in Executions, RunReports(e) PROVE EndInv'
  BY <1>8 DEF RunReports, durable, memory, TypeOK, ControlInv, FileInv, OnlyActiveRecordIsLive, EndInv, LiveRecordHasProcess, IsLive, AliveRun, AtWork, NoEvent, Emit, RunIs, EndStates
<1>9. ASSUME NEW e \in Executions, RunAsks(e) PROVE EndInv'
  BY <1>9 DEF RunAsks, durable, memory, TypeOK, ControlInv, FileInv, OnlyActiveRecordIsLive, EndInv, LiveRecordHasProcess, IsLive, AliveRun, AtWork, NoEvent, Emit, RunIs, EndStates
<1>10. ASSUME NEW e \in Executions, UserAnswersGate(e) PROVE EndInv'
  BY <1>10 DEF UserAnswersGate, durable, memory, TypeOK, ControlInv, FileInv, OnlyActiveRecordIsLive, EndInv, LiveRecordHasProcess, IsLive, AliveRun, AtWork, NoEvent, RunIs
<1>11. ASSUME NEW e \in Executions, RunAudits(e) PROVE EndInv'
  BY <1>11 DEF RunAudits, durable, memory, TypeOK, ControlInv, FileInv, OnlyActiveRecordIsLive, EndInv, LiveRecordHasProcess, IsLive, AliveRun, AtWork, NoEvent, RunIs
<1>30. ASSUME NEW e \in Executions, RunCallsAuditor(e) PROVE EndInv'
  BY <1>30 DEF RunCallsAuditor, durable, memory, TypeOK, ControlInv, FileInv, OnlyActiveRecordIsLive, EndInv, LiveRecordHasProcess, IsLive, AliveRun, AtWork, NoEvent, RunIs
<1>12. ASSUME NEW e \in Executions, RunCorrects(e) PROVE EndInv'
  BY <1>12 DEF RunCorrects, durable, memory, TypeOK, ControlInv, FileInv, OnlyActiveRecordIsLive, EndInv, LiveRecordHasProcess, IsLive, AliveRun, AtWork, NoEvent, RunIs
<1>13. ASSUME NEW e \in Executions, RunAuditCancelled(e) PROVE EndInv'
  BY <1>13 DEF RunAuditCancelled, durable, memory, TypeOK, ControlInv, FileInv, OnlyActiveRecordIsLive, EndInv, LiveRecordHasProcess, IsLive, AliveRun, AtWork, NoEvent, Emit, RunIs, EndStates
<1>14. ASSUME NEW e \in Executions, RunSeesCancel(e) PROVE EndInv'
  BY <1>14 DEF RunSeesCancel, durable, memory, TypeOK, ControlInv, FileInv, OnlyActiveRecordIsLive, EndInv, LiveRecordHasProcess, IsLive, AliveRun, AtWork, NoEvent, RunIs
<1>15. ASSUME NEW e \in Executions, RunEnds(e) PROVE EndInv'
  BY <1>15 DEF RunEnds, durable, memory, TypeOK, ControlInv, FileInv, OnlyActiveRecordIsLive, EndInv, LiveRecordHasProcess, IsLive, AliveRun, AtWork, NoEvent, Emit, RunIs, EndStates
<1>16. ASSUME NEW e \in Executions, RunCancelTimeout(e) PROVE EndInv'
  BY <1>16 DEF RunCancelTimeout, durable, memory, TypeOK, ControlInv, FileInv, OnlyActiveRecordIsLive, EndInv, LiveRecordHasProcess, IsLive, AliveRun, AtWork, NoEvent, Emit, RunIs, EndStates
<1>17. ASSUME NEW e \in Executions, RunGone(e) PROVE EndInv'
  BY <1>17 DEF RunGone, durable, memory, TypeOK, ControlInv, FileInv, OnlyActiveRecordIsLive, EndInv, LiveRecordHasProcess, IsLive, AliveRun, AtWork, NoEvent, RunIs
<1>18. ASSUME NEW e \in Executions, ApplyEvent(e) PROVE EndInv'
  BY <1>18, NoneIsNoExecution DEF ApplyEvent, durable, memory, TypeOK, ControlInv, FileInv, OnlyActiveRecordIsLive, EndInv, LiveRecordHasProcess, IsLive, AliveRun, AtWork, NoEvent, Superseded, EventStates, EndStates, LiveStates
<1>19. ASSUME NEW e \in Executions, StopAcknowledged(e) PROVE EndInv'
  BY <1>19 DEF StopAcknowledged, durable, memory, TypeOK, ControlInv, FileInv, OnlyActiveRecordIsLive, EndInv, LiveRecordHasProcess, IsLive, AliveRun, AtWork, NoEvent
<1>20. ASSUME NEW e \in Executions, StopTimesOut(e) PROVE EndInv'
  BY <1>20 DEF StopTimesOut, durable, memory, TypeOK, ControlInv, FileInv, OnlyActiveRecordIsLive, EndInv, LiveRecordHasProcess, IsLive, AliveRun, AtWork, NoEvent
<1>21. ASSUME NEW S \in SUBSET Executions, StopRead(S) PROVE EndInv'
  BY <1>21 DEF StopRead, durable, memory, TypeOK, ControlInv, FileInv, OnlyActiveRecordIsLive, EndInv, LiveRecordHasProcess, IsLive, AliveRun, AtWork, NoEvent
<1>22. CASE StopSignal
  BY <1>22 DEF StopSignal, durable, memory, TypeOK, ControlInv, FileInv, OnlyActiveRecordIsLive, EndInv, LiveRecordHasProcess, IsLive, AliveRun, AtWork, NoEvent
<1>23. CASE StopWrite
  BY <1>23 DEF StopWrite, durable, memory, TypeOK, ControlInv, FileInv, OnlyActiveRecordIsLive, EndInv, LiveRecordHasProcess, IsLive, AliveRun, AtWork, NoEvent, LiveStates
<1>24. CASE StopUnlink
  BY <1>24 DEF StopUnlink, durable, memory, TypeOK, ControlInv, FileInv, OnlyActiveRecordIsLive, EndInv, LiveRecordHasProcess, IsLive, AliveRun, AtWork, NoEvent
<1>25. CASE GetReadsLiveness
  BY <1>25 DEF GetReadsLiveness, durable, memory, TypeOK, ControlInv, FileInv, OnlyActiveRecordIsLive, EndInv, LiveRecordHasProcess, IsLive, AliveRun, AtWork, NoEvent
<1>26. CASE GetReconciles
  BY <1>26 DEF GetReconciles, durable, memory, TypeOK, ControlInv, FileInv, OnlyActiveRecordIsLive, EndInv, LiveRecordHasProcess, IsLive, AliveRun, AtWork, NoEvent, ReconciledRecord, LiveStates
<1>27. CASE OtherSessionSaves
  BY <1>27 DEF OtherSessionSaves, durable, memory, TypeOK, ControlInv, FileInv, OnlyActiveRecordIsLive, EndInv, LiveRecordHasProcess, IsLive, AliveRun, AtWork, NoEvent
<1>28. CASE Restart
  BY <1>28 DEF Restart, durable, memory, TypeOK, ControlInv, FileInv, OnlyActiveRecordIsLive, EndInv, LiveRecordHasProcess, IsLive, AliveRun, AtWork, NoEvent
<1>29. CASE UNCHANGED vars
  BY <1>29 DEF vars, TypeOK, ControlInv, FileInv, OnlyActiveRecordIsLive, EndInv, LiveRecordHasProcess, IsLive, AliveRun, AtWork, NoEvent
<1> QED
  BY <1>1, <1>2, <1>3, <1>4, <1>5, <1>6, <1>7, <1>8, <1>9, <1>10, <1>11, <1>12, <1>13, <1>14, <1>15, <1>16, <1>17, <1>18, <1>19, <1>20, <1>21, <1>22, <1>23, <1>24, <1>25, <1>26, <1>27, <1>28, <1>29, <1>30 DEF Next, StartStep, RunStep, StopStep, GetStep

LEMMA StopStepKeeps == TypeOK /\ ControlInv /\ StopInv /\ [Next]_vars => StopInv'
<1> SUFFICES ASSUME TypeOK, ControlInv, StopInv, [Next]_vars PROVE StopInv'
  OBVIOUS
<1>1. ASSUME NEW e \in Executions, StartCheck(e) PROVE StopInv'
  BY <1>1 DEF StartCheck, durable, memory, TypeOK, ControlInv, StopInv, ConfirmedStopIsGone, AliveRun, AtWork, NoEvent
<1>2. ASSUME NEW e \in Executions, StartProvision(e) PROVE StopInv'
  BY <1>2 DEF StartProvision, durable, memory, TypeOK, ControlInv, StopInv, ConfirmedStopIsGone, AliveRun, AtWork, NoEvent
<1>3. ASSUME NEW e \in Executions, StartLink(e) PROVE StopInv'
  BY <1>3 DEF StartLink, durable, memory, TypeOK, ControlInv, StopInv, ConfirmedStopIsGone, AliveRun, AtWork, NoEvent
<1>4. ASSUME NEW e \in Executions, StartDiscoverFails(e) PROVE StopInv'
  BY <1>4 DEF StartDiscoverFails, durable, memory, TypeOK, ControlInv, StopInv, ConfirmedStopIsGone, AliveRun, AtWork, NoEvent, Unwind
<1>5. ASSUME NEW e \in Executions, StartRecord(e) PROVE StopInv'
  BY <1>5 DEF StartRecord, durable, memory, TypeOK, ControlInv, StopInv, ConfirmedStopIsGone, AliveRun, AtWork, NoEvent, Unwind
<1>6. ASSUME NEW e \in Executions, StartLaunch(e) PROVE StopInv'
  BY <1>6 DEF StartLaunch, durable, memory, TypeOK, ControlInv, StopInv, ConfirmedStopIsGone, AliveRun, AtWork, NoEvent
<1>7. ASSUME NEW e \in Executions, RunConnects(e) PROVE StopInv'
  BY <1>7 DEF RunConnects, durable, memory, TypeOK, ControlInv, StopInv, ConfirmedStopIsGone, AliveRun, AtWork, NoEvent, RunIs
<1>8. ASSUME NEW e \in Executions, RunReports(e) PROVE StopInv'
  BY <1>8 DEF RunReports, durable, memory, TypeOK, ControlInv, StopInv, ConfirmedStopIsGone, AliveRun, AtWork, NoEvent, Emit, RunIs, EndStates
<1>9. ASSUME NEW e \in Executions, RunAsks(e) PROVE StopInv'
  BY <1>9 DEF RunAsks, durable, memory, TypeOK, ControlInv, StopInv, ConfirmedStopIsGone, AliveRun, AtWork, NoEvent, Emit, RunIs, EndStates
<1>10. ASSUME NEW e \in Executions, UserAnswersGate(e) PROVE StopInv'
  BY <1>10 DEF UserAnswersGate, durable, memory, TypeOK, ControlInv, StopInv, ConfirmedStopIsGone, AliveRun, AtWork, NoEvent, RunIs
<1>11. ASSUME NEW e \in Executions, RunAudits(e) PROVE StopInv'
  BY <1>11 DEF RunAudits, durable, memory, TypeOK, ControlInv, StopInv, ConfirmedStopIsGone, AliveRun, AtWork, NoEvent, RunIs
<1>30. ASSUME NEW e \in Executions, RunCallsAuditor(e) PROVE StopInv'
  BY <1>30 DEF RunCallsAuditor, durable, memory, TypeOK, ControlInv, StopInv, ConfirmedStopIsGone, AliveRun, AtWork, NoEvent, RunIs
<1>12. ASSUME NEW e \in Executions, RunCorrects(e) PROVE StopInv'
  BY <1>12 DEF RunCorrects, durable, memory, TypeOK, ControlInv, StopInv, ConfirmedStopIsGone, AliveRun, AtWork, NoEvent, RunIs
<1>13. ASSUME NEW e \in Executions, RunAuditCancelled(e) PROVE StopInv'
  BY <1>13 DEF RunAuditCancelled, durable, memory, TypeOK, ControlInv, StopInv, ConfirmedStopIsGone, AliveRun, AtWork, NoEvent, Emit, RunIs, EndStates
<1>14. ASSUME NEW e \in Executions, RunSeesCancel(e) PROVE StopInv'
  BY <1>14 DEF RunSeesCancel, durable, memory, TypeOK, ControlInv, StopInv, ConfirmedStopIsGone, AliveRun, AtWork, NoEvent, RunIs
<1>15. ASSUME NEW e \in Executions, RunEnds(e) PROVE StopInv'
  BY <1>15 DEF RunEnds, durable, memory, TypeOK, ControlInv, StopInv, ConfirmedStopIsGone, AliveRun, AtWork, NoEvent, Emit, RunIs, EndStates
<1>16. ASSUME NEW e \in Executions, RunCancelTimeout(e) PROVE StopInv'
  BY <1>16 DEF RunCancelTimeout, durable, memory, TypeOK, ControlInv, StopInv, ConfirmedStopIsGone, AliveRun, AtWork, NoEvent, Emit, RunIs, EndStates
<1>17. ASSUME NEW e \in Executions, RunGone(e) PROVE StopInv'
  BY <1>17 DEF RunGone, durable, memory, TypeOK, ControlInv, StopInv, ConfirmedStopIsGone, AliveRun, AtWork, NoEvent, RunIs
<1>18. ASSUME NEW e \in Executions, ApplyEvent(e) PROVE StopInv'
  BY <1>18 DEF ApplyEvent, durable, memory, TypeOK, ControlInv, StopInv, ConfirmedStopIsGone, AliveRun, AtWork, NoEvent
<1>19. ASSUME NEW e \in Executions, StopAcknowledged(e) PROVE StopInv'
  BY <1>19 DEF StopAcknowledged, durable, memory, TypeOK, ControlInv, StopInv, ConfirmedStopIsGone, AliveRun, AtWork, NoEvent, Completed, RunPhases
<1>20. ASSUME NEW e \in Executions, StopTimesOut(e) PROVE StopInv'
  BY <1>20 DEF StopTimesOut, durable, memory, TypeOK, ControlInv, StopInv, ConfirmedStopIsGone, AliveRun, AtWork, NoEvent, Completed
<1>21. ASSUME NEW S \in SUBSET Executions, StopRead(S) PROVE StopInv'
  BY <1>21 DEF StopRead, durable, memory, TypeOK, ControlInv, StopInv, ConfirmedStopIsGone, AliveRun, AtWork, NoEvent, NoStop
<1>22. CASE StopSignal
  BY <1>22 DEF StopSignal, durable, memory, TypeOK, ControlInv, StopInv, ConfirmedStopIsGone, AliveRun, AtWork, NoEvent
<1>23. CASE StopWrite
  BY <1>23 DEF StopWrite, durable, memory, TypeOK, ControlInv, StopInv, ConfirmedStopIsGone, AliveRun, AtWork, NoEvent, NoStop
<1>24. CASE StopUnlink
  BY <1>24 DEF StopUnlink, durable, memory, TypeOK, ControlInv, StopInv, ConfirmedStopIsGone, AliveRun, AtWork, NoEvent, NoStop
<1>25. CASE GetReadsLiveness
  BY <1>25 DEF GetReadsLiveness, durable, memory, TypeOK, ControlInv, StopInv, ConfirmedStopIsGone, AliveRun, AtWork, NoEvent
<1>26. CASE GetReconciles
  BY <1>26 DEF GetReconciles, durable, memory, TypeOK, ControlInv, StopInv, ConfirmedStopIsGone, AliveRun, AtWork, NoEvent
<1>27. CASE OtherSessionSaves
  BY <1>27 DEF OtherSessionSaves, durable, memory, TypeOK, ControlInv, StopInv, ConfirmedStopIsGone, AliveRun, AtWork, NoEvent
<1>28. CASE Restart
  BY <1>28 DEF Restart, durable, memory, TypeOK, ControlInv, StopInv, ConfirmedStopIsGone, AliveRun, AtWork, NoEvent, NoStop
<1>29. CASE UNCHANGED vars
  BY <1>29 DEF vars, TypeOK, ControlInv, StopInv, ConfirmedStopIsGone, AliveRun, AtWork, NoEvent
<1> QED
  BY <1>1, <1>2, <1>3, <1>4, <1>5, <1>6, <1>7, <1>8, <1>9, <1>10, <1>11, <1>12, <1>13, <1>14, <1>15, <1>16, <1>17, <1>18, <1>19, <1>20, <1>21, <1>22, <1>23, <1>24, <1>25, <1>26, <1>27, <1>28, <1>29, <1>30 DEF Next, StartStep, RunStep, StopStep, GetStep

LEMMA InvInit == Init => Inv
  BY TypeInit, NoneIsNoExecution
  DEF Init, Inv, ControlInv, FileInv, EndInv, StopInv, OnlyActiveRecordIsLive,
      LiveRecordHasProcess, ConfirmedStopIsGone, IsLive, LiveStates, NoRecord,
      NoEvent, NoStop, AliveRun, AtWork

LEMMA InvStep == Inv /\ [Next]_vars => Inv'
  BY TypeStep, ControlStep, FileStep, EndStep, StopStepKeeps DEF Inv

(***************************************************************************)
(* What follows from the invariant                                         *)
(***************************************************************************)
LEMMA InvCorrect == Spec => []Inv
  BY InvInit, InvStep, PTL DEF Spec

(* At most one execution reads as live, and it is the active one: the second *)
(* check of start_execution_at and the superseded check of apply_run_event  *)
(* are enough, for any number of concurrent starts, stops and reads.       *)
THEOREM OneLiveRecord == Spec => []OnlyActiveRecordIsLive
<1>1. Inv => OnlyActiveRecordIsLive
  BY DEF Inv, FileInv
<1> QED
  BY <1>1, InvCorrect, PTL

(* No run that ended is still shown as running, if its events were routed   *)
(* and saved.                                                              *)
THEOREM NoGhostRuns == Spec => []LiveRecordHasProcess
<1>1. Inv => LiveRecordHasProcess
  BY DEF Inv, EndInv
<1> QED
  BY <1>1, InvCorrect, PTL

(* A refused start has unlinked its execution and written nothing into the *)
(* session; its worktree is gone unless the removal itself failed.         *)
THEOREM RefusedStartsAreClean == Spec => []RefusedStartLeavesNothing
<1>1. Inv => RefusedStartLeavesNothing
  BY DEF Inv, ControlInv, FileInv, RefusedStartLeavesNothing
<1> QED
  BY <1>1, InvCorrect, PTL

(* A stop that was signalled and confirmed has ended its run for good.     *)
THEOREM ConfirmedStopsAreGone == Spec => []ConfirmedStopIsGone
<1>1. Inv => ConfirmedStopIsGone
  BY DEF Inv, StopInv
<1> QED
  BY <1>1, InvCorrect, PTL

(***************************************************************************)
(* The session implements the ledger                                       *)
(***************************************************************************)
LEMMA LedgerStart == Init => Ledger!LedgerInit
  BY DEF Init, Ledger!LedgerInit, LedgerOf, NoRecord

(* A step of the session that leaves its records and its active execution  *)
(* alone is no step of the ledger.                                         *)
LEMMA LedgerStutter == UNCHANGED <<record, active>> => UNCHANGED Ledger!ledgerVars
  BY DEF Ledger!ledgerVars, LedgerOf

(* Settling: some live records, and so the one that is live, end together. *)
LEMMA LedgerSettles ==
  ASSUME TypeOK, OnlyActiveRecordIsLive,
         record' \in [Executions -> SessionStates \cup {NoRecord}],
         active' \in {active, None},
         \A e \in Executions :
           record'[e] = record[e] \/ (IsLive(record[e]) /\ record'[e] # NoRecord /\ ~IsLive(record'[e])),
         active' = active \/ \E e \in Executions : IsLive(record[e]) /\ ~IsLive(record'[e])
  PROVE  Ledger!LedgerNext \/ UNCHANGED Ledger!ledgerVars
<1>1. CASE \A e \in Executions : record'[e] = record[e]
  <2>1. record' = record
    BY <1>1 DEF TypeOK
  <2> QED
    BY <2>1, LedgerStutter
<1>2. CASE \E e \in Executions : record'[e] # record[e]
  <2>1. PICK a \in Executions : record'[a] # record[a]
    BY <1>2
  <2>2. IsLive(record[a]) /\ ~IsLive(record'[a]) /\ active = a
    BY <2>1 DEF OnlyActiveRecordIsLive
  <2>3. \A e \in Executions : IsLive(record[e]) => e = a
    BY <2>2 DEF OnlyActiveRecordIsLive
  <2>4. ~IsLive(NoRecord)
    BY DEF IsLive, LiveStates, NoRecord
  <2>5. LedgerOf' = [e \in Executions |->
                      IF LedgerOf[e] = "Live" THEN "Settled" ELSE LedgerOf[e]]
    BY <2>2, <2>3, <2>4 DEF LedgerOf
  <2>6. LedgerOf[a] = "Live"
    BY <2>2, <2>4 DEF LedgerOf
  <2> QED
    BY <2>5, <2>6 DEF Ledger!LedgerNext, Ledger!Settle, Ledger!NobodyLive
<1> QED
  BY <1>1, <1>2

LEMMA LedgerStep == Inv /\ [Next]_vars => [Ledger!LedgerNext]_(Ledger!ledgerVars)
<1> SUFFICES ASSUME Inv, [Next]_vars
             PROVE  Ledger!LedgerNext \/ UNCHANGED Ledger!ledgerVars
  OBVIOUS
<1> USE DEF Inv
<1>1. ASSUME NEW e \in Executions, StartRecord(e)
      PROVE  Ledger!LedgerNext \/ UNCHANGED Ledger!ledgerVars
  <2>1. CASE UNCHANGED durable
    BY <2>1, LedgerStutter DEF durable
  <2>2. CASE /\ ~AlreadyRunning
             /\ record' = [record EXCEPT ![e] = "Preparing"]
             /\ active' = e
    <3>1. \A f \in Executions : ~IsLive(record[f])
      BY <2>2, NoneIsNoExecution DEF AlreadyRunning, FileInv, OnlyActiveRecordIsLive
    <3>2. start[e] = "Linked" /\ record[e] = NoRecord
      BY <1>1 DEF StartRecord, FileInv
    <3>3. LedgerOf[e] = "Absent" /\ \A f \in Executions : LedgerOf[f] # "Live"
      BY <3>1, <3>2 DEF LedgerOf
    <3>4. LedgerOf' = [LedgerOf EXCEPT ![e] = "Live"]
      BY <2>2 DEF LedgerOf, TypeOK, IsLive, LiveStates, NoRecord
    <3> QED
      BY <2>2, <3>3, <3>4 DEF Ledger!LedgerNext, Ledger!Open, Ledger!NobodyLive
  <2> QED
    BY <1>1, <2>1, <2>2 DEF StartRecord
<1>2. ASSUME NEW e \in Executions, ApplyEvent(e)
      PROVE  Ledger!LedgerNext \/ UNCHANGED Ledger!ledgerVars
  <2>1. CASE UNCHANGED record
    BY <1>2, <2>1, LedgerStutter DEF ApplyEvent
  <2>2. CASE ~Superseded(e) /\ record' = [record EXCEPT ![e] = event[e]]
    <3>1. active = e /\ record[e] # NoRecord
      BY <1>2, <2>2 DEF ApplyEvent, Superseded, ControlInv, FileInv
    <3>2. event[e] # NoRecord /\ event[e] \in SessionStates
      BY <1>2 DEF ApplyEvent, TypeOK, EventStates, EndStates, LiveStates, SessionStates, NoRecord, NoEvent
    <3>3. active' = active
      BY <1>2 DEF ApplyEvent
    <3>4. CASE ~IsLive(event[e]) /\ IsLive(record[e])
      <4>1. record' \in [Executions -> SessionStates \cup {NoRecord}]
        BY <2>2, <3>2 DEF TypeOK
      <4>2. \A f \in Executions :
              record'[f] = record[f]
                \/ (IsLive(record[f]) /\ record'[f] # NoRecord /\ ~IsLive(record'[f]))
        BY <2>2, <3>2, <3>4 DEF TypeOK
      <4> QED
        BY <3>3, <4>1, <4>2, LedgerSettles DEF FileInv
    <3>5. CASE IsLive(event[e]) <=> IsLive(record[e])
      <4>1. LedgerOf' = LedgerOf
        BY <2>2, <3>1, <3>2, <3>5 DEF LedgerOf, TypeOK
      <4> QED
        BY <3>3, <4>1 DEF Ledger!ledgerVars
    <3>6. CASE IsLive(event[e]) /\ ~IsLive(record[e])
      <4>1. LedgerOf' = [LedgerOf EXCEPT ![e] = "Live"]
        BY <2>2, <3>2, <3>6 DEF LedgerOf, TypeOK
      <4>2. LedgerOf[e] = "Settled"
        BY <3>1, <3>6 DEF LedgerOf
      <4> QED
        BY <3>1, <3>3, <4>1, <4>2 DEF Ledger!LedgerNext, Ledger!Reopen
    <3> QED
      BY <3>4, <3>5, <3>6
  <2> QED
    BY <1>2, <2>1, <2>2 DEF ApplyEvent
<1>3. ASSUME StopWrite PROVE Ledger!LedgerNext \/ UNCHANGED Ledger!ledgerVars
  <2>1. active' = active
    BY <1>3 DEF StopWrite
  <2>2. CASE UNCHANGED record
    BY <2>1, <2>2, LedgerStutter
  <2>3. CASE record' = [e \in Executions |->
                         IF e \in stop.targets /\ IsLive(record[e])
                         THEN "Stopped" ELSE record[e]]
    <3>1. record' \in [Executions -> SessionStates \cup {NoRecord}]
      BY <2>3 DEF TypeOK, SessionStates, EndStates
    <3>2. \A f \in Executions :
            record'[f] = record[f]
              \/ (IsLive(record[f]) /\ record'[f] # NoRecord /\ ~IsLive(record'[f]))
      BY <2>3 DEF IsLive, LiveStates, NoRecord
    <3> QED
      BY <2>1, <3>1, <3>2, LedgerSettles DEF FileInv
  <2> QED
    BY <1>3, <2>2, <2>3 DEF StopWrite
<1>4. ASSUME GetReconciles PROVE Ledger!LedgerNext \/ UNCHANGED Ledger!ledgerVars
  <2>1. active' = active
    BY <1>4 DEF GetReconciles
  <2>2. CASE UNCHANGED record
    BY <2>1, <2>2, LedgerStutter
  <2>3. CASE record' = ReconciledRecord
    <3>1. record' \in [Executions -> SessionStates \cup {NoRecord}]
      BY <2>3 DEF TypeOK, SessionStates, ReconciledRecord
    <3>2. \A f \in Executions :
            record'[f] = record[f]
              \/ (IsLive(record[f]) /\ record'[f] # NoRecord /\ ~IsLive(record'[f]))
      BY <2>3 DEF IsLive, LiveStates, NoRecord, ReconciledRecord
    <3> QED
      BY <2>1, <3>1, <3>2, LedgerSettles DEF FileInv
  <2> QED
    BY <1>4, <2>2, <2>3 DEF GetReconciles
<1>5. ASSUME Restart PROVE Ledger!LedgerNext \/ UNCHANGED Ledger!ledgerVars
  <2>1. CASE UNCHANGED durable
    BY <2>1, LedgerStutter DEF durable
  <2>2. CASE /\ Orphans # {}
             /\ record' = [e \in Executions |-> IF e \in Orphans THEN "Failed" ELSE record[e]]
             /\ active' = IF active \in Orphans THEN None ELSE active
    <3>1. record' \in [Executions -> SessionStates \cup {NoRecord}]
      BY <2>2 DEF TypeOK, SessionStates, EndStates
    <3>2. \A f \in Executions :
            record'[f] = record[f]
              \/ (IsLive(record[f]) /\ record'[f] # NoRecord /\ ~IsLive(record'[f]))
      BY <2>2 DEF IsLive, LiveStates, NoRecord, Orphans
    <3>3. \E f \in Executions : IsLive(record[f]) /\ ~IsLive(record'[f])
      BY <2>2 DEF IsLive, LiveStates, Orphans
    <3> QED
      BY <2>2, <3>1, <3>2, <3>3, LedgerSettles DEF FileInv
  <2> QED
    BY <1>5, <2>1, <2>2 DEF Restart, Sweep
<1>6. ASSUME NEW e \in Executions, StartCheck(e) PROVE UNCHANGED <<record, active>>
  BY <1>6 DEF StartCheck, durable
<1>7. ASSUME NEW e \in Executions, StartProvision(e) PROVE UNCHANGED <<record, active>>
  BY <1>7 DEF StartProvision, durable
<1>8. ASSUME NEW e \in Executions, StartLink(e) PROVE UNCHANGED <<record, active>>
  BY <1>8 DEF StartLink, durable
<1>9. ASSUME NEW e \in Executions, StartDiscoverFails(e) PROVE UNCHANGED <<record, active>>
  BY <1>9 DEF StartDiscoverFails, durable
<1>10. ASSUME NEW e \in Executions, StartLaunch(e) PROVE UNCHANGED <<record, active>>
  BY <1>10 DEF StartLaunch, durable
<1>11. ASSUME NEW e \in Executions, RunConnects(e) PROVE UNCHANGED <<record, active>>
  BY <1>11 DEF RunConnects, durable
<1>12. ASSUME NEW e \in Executions, RunReports(e) PROVE UNCHANGED <<record, active>>
  BY <1>12 DEF RunReports, durable
<1>13. ASSUME NEW e \in Executions, RunAsks(e) PROVE UNCHANGED <<record, active>>
  BY <1>13 DEF RunAsks, durable
<1>14. ASSUME NEW e \in Executions, UserAnswersGate(e) PROVE UNCHANGED <<record, active>>
  BY <1>14 DEF UserAnswersGate, durable
<1>15. ASSUME NEW e \in Executions, RunAudits(e) PROVE UNCHANGED <<record, active>>
  BY <1>15 DEF RunAudits, durable
<1>30. ASSUME NEW e \in Executions, RunCallsAuditor(e) PROVE UNCHANGED <<record, active>>
  BY <1>30 DEF RunCallsAuditor, durable
<1>16. ASSUME NEW e \in Executions, RunCorrects(e) PROVE UNCHANGED <<record, active>>
  BY <1>16 DEF RunCorrects, durable
<1>17. ASSUME NEW e \in Executions, RunAuditCancelled(e) PROVE UNCHANGED <<record, active>>
  BY <1>17 DEF RunAuditCancelled, durable
<1>18. ASSUME NEW e \in Executions, RunSeesCancel(e) PROVE UNCHANGED <<record, active>>
  BY <1>18 DEF RunSeesCancel, durable
<1>19. ASSUME NEW e \in Executions, RunEnds(e) PROVE UNCHANGED <<record, active>>
  BY <1>19 DEF RunEnds, durable
<1>20. ASSUME NEW e \in Executions, RunCancelTimeout(e) PROVE UNCHANGED <<record, active>>
  BY <1>20 DEF RunCancelTimeout, durable
<1>21. ASSUME NEW e \in Executions, RunGone(e) PROVE UNCHANGED <<record, active>>
  BY <1>21 DEF RunGone, durable
<1>22. ASSUME NEW e \in Executions, StopAcknowledged(e) PROVE UNCHANGED <<record, active>>
  BY <1>22 DEF StopAcknowledged, durable
<1>23. ASSUME NEW e \in Executions, StopTimesOut(e) PROVE UNCHANGED <<record, active>>
  BY <1>23 DEF StopTimesOut, durable
<1>24. ASSUME NEW S \in SUBSET Executions, StopRead(S) PROVE UNCHANGED <<record, active>>
  BY <1>24 DEF StopRead, durable
<1>25. ASSUME StopSignal PROVE UNCHANGED <<record, active>>
  BY <1>25 DEF StopSignal, durable
<1>26. ASSUME StopUnlink PROVE UNCHANGED <<record, active>>
  BY <1>26 DEF StopUnlink, durable
<1>27. ASSUME GetReadsLiveness PROVE UNCHANGED <<record, active>>
  BY <1>27 DEF GetReadsLiveness, durable
<1>28. ASSUME OtherSessionSaves PROVE UNCHANGED <<record, active>>
  BY <1>28 DEF OtherSessionSaves
<1>29. ASSUME UNCHANGED vars PROVE UNCHANGED <<record, active>>
  BY <1>29 DEF vars
<1> QED
  BY <1>1, <1>2, <1>3, <1>4, <1>5, <1>6, <1>7, <1>8, <1>9, <1>10, <1>11, <1>12, <1>13, <1>14, <1>15, <1>16, <1>17, <1>18, <1>19, <1>20, <1>21, <1>22, <1>23, <1>24, <1>25, <1>26, <1>27, <1>28, <1>29, <1>30, LedgerStutter
  DEF Next, StartStep, RunStep, StopStep, GetStep

(* The session file with all its concurrent writers is a ledger with one    *)
(* live entry: only a start opens an entry, and only when none is live.    *)
THEOREM SessionIsALedger == Spec => ImplementsLedger
  BY LedgerStart, LedgerStep, InvCorrect, PTL DEF Spec, ImplementsLedger, Ledger!LedgerSpec
=============================================================================
