-------------------------- MODULE AgentGraph_proofs --------------------------
(***************************************************************************)
(* Proofs about AgentGraph, for any number of helpers, any dependencies    *)
(* and any circumstances.                                                  *)
(***************************************************************************)
EXTENDS AgentGraph, TLAPS

(***************************************************************************)
(* Types                                                                   *)
(***************************************************************************)

(* Facts about the names of the tasks.                                     *)
LEMMA TaskFacts ==
  /\ Review \in Tasks /\ Start \in Tasks /\ Review # Start
  /\ Review \notin Runs \cup Answers
  /\ \A h \in Helpers : h \in 0..NumHelpers /\ h \in Contents /\ h # Base
  /\ \A t \in Runs \cup Answers : t \in Tasks /\ t[1] \in Helpers
  /\ \A h \in Helpers, n \in 1..MaxLaunches : <<h, n>> \in Runs
  /\ \A h \in Helpers : Garbled(h) \in Contents
  /\ Merged \in Contents /\ Base \in Contents /\ Gone \in Contents /\ Empty \in Contents
  /\ Displaced \in Contents
  /\ 0 \in 0..NumHelpers
  BY NumHelpersIsNatural, MaxLaunchesIsNatural
     DEF Review, Start, Tasks, Runs, Answers, Helpers, Contents, Base, Merged, Gone, Empty, Displaced, Garbled

(* What is text is neither missing nor anything else.                      *)
LEMMA TextFacts ==
  ASSUME setting \in Settings
  PROVE  /\ \A h \in Helpers : AsText(h) \in Contents \ (Unreadable \cup {Base})
         /\ Base \notin Unreadable /\ Merged \notin Unreadable \cup {Base}
         /\ \A h \in Helpers : setting.work[h] = "Text" => AsText(h) = h
<1>1. setting.work \in [Helpers -> {"Text", "Binary", "Deleted"}]
  BY SettingsAreSettings DEF IsSetting
<1>2. Unreadable \subseteq {Gone} \cup Helpers
  BY DEF Unreadable
<1>3. ASSUME NEW h \in Helpers PROVE AsText(h) \in Contents \ (Unreadable \cup {Base})
  <2>1. CASE setting.work[h] = "Text"
    <3>1. AsText(h) = h
      BY <2>1 DEF AsText
    <3>2. h # Gone /\ h # Base /\ h \in Contents
      BY NumHelpersIsNatural DEF Helpers, Gone, Base, Contents, Garbled
    <3> QED BY <2>1, <3>1, <3>2 DEF Unreadable
  <2>2. CASE setting.work[h] = "Binary"
    <3>1. AsText(h) = Garbled(h)
      BY <2>2 DEF AsText
    <3>2. Garbled(h) \notin {Gone, Base} \cup Helpers
      BY NumHelpersIsNatural DEF Helpers, Gone, Base, Garbled
    <3> QED BY <1>2, <3>1, <3>2, TaskFacts
  <2>3. CASE setting.work[h] = "Deleted"
    <3>1. AsText(h) = Empty
      BY <2>3 DEF AsText
    <3>2. Empty \notin {Gone, Base} \cup Helpers
      BY NumHelpersIsNatural DEF Helpers, Gone, Base, Empty
    <3> QED BY <1>2, <3>1, <3>2, TaskFacts
  <2> QED BY <1>1, <2>1, <2>2, <2>3
<1>4. Base \notin {Gone} \cup Helpers /\ Merged \notin {Gone, Base} \cup Helpers
  BY NumHelpersIsNatural DEF Helpers, Gone, Base, Merged
<1>5. \A h \in Helpers : setting.work[h] = "Text" => AsText(h) = h
  BY DEF AsText
<1> QED
  BY <1>2, <1>3, <1>4, <1>5

(* The circumstances chosen are among those the model was given.           *)
LEMMA SettingFacts ==
  ASSUME setting \in Settings
  PROVE  /\ setting.jobs \subseteq Helpers
         /\ setting.touches \in [Helpers -> Files]
         /\ setting.moves \in [Helpers -> SUBSET Files]
  BY SettingsAreSettings DEF IsSetting

LEMMA AppliedTyped ==
  ASSUME TypeOK, NEW h \in Helpers
  PROVE  Applied(h) \in [Files -> Contents] /\ HalfApplied(h) \subseteq [Files -> Contents]
<1>1. Applied(h) \in [Files -> Contents]
  BY TaskFacts DEF Applied, Leaves, TypeOK
<1>2. ASSUME NEW x \in HalfApplied(h) PROVE x \in [Files -> Contents]
  <2>1. CASE x \in {tree, [tree EXCEPT ![setting.touches[h]] = Leaves(h)]}
    BY <2>1, TaskFacts DEF Leaves, TypeOK
  <2>2. CASE x \notin {tree, [tree EXCEPT ![setting.touches[h]] = Leaves(h)]}
    <3>1. PICK f \in {g \in setting.moves[h] : tree[g] # Gone} :
            x = [tree EXCEPT ![setting.touches[h]] = IF tree[f] = Base THEN Displaced ELSE tree[f],
                             ![f] = Gone]
      BY <1>2, <2>2 DEF HalfApplied
    <3>2. f \in Files
      BY <3>1, SettingFacts DEF TypeOK
    <3> QED BY <3>1, <3>2, TaskFacts DEF TypeOK
  <2> QED BY <2>1, <2>2
<1> QED BY <1>1, <1>2

LEMMA FirstIsPart == ASSUME NEW S, NEW n PROVE First(S, n) \subseteq S
  BY DEF First

LEMMA HousedHelpers ==
  ASSUME setting \in Settings PROVE Housed \subseteq Helpers
  BY FirstIsPart, SettingFacts DEF Housed, Independent

LEMMA ReviewStepIsAStep ==
  ASSUME TypeOK
  PROVE  ReviewStep \in {"Idle", "Building", "FinishingDirect", "Reviewing"}
  BY DEF TypeOK, ReviewStep, Terminal

LEMMA DecisionHelpers == Decision \subseteq Helpers
  BY FirstIsPart DEF Decision, Ready

(* Where a task that looks at the review goes, and what it takes along.    *)
LEMMA LookTyped ==
  ASSUME TypeOK, NEW t \in Tasks, LookAtReview(t)
  PROVE  /\ at' \in [Tasks -> Steps]
         /\ ending' \in [Tasks -> {"None"} \cup Live \cup Terminal]
         /\ \A s \in Tasks : at'[s] = "Finishing" =>
              at[s] = "Finishing" /\ ending'[s] = ending[s]
<1>1. ReviewStep \in {"Idle", "Building", "FinishingDirect", "Reviewing"}
  BY ReviewStepIsAStep
<1>2. ReviewStep \in Steps /\ ReviewStep # "Finishing"
  BY <1>1 DEF Steps
<1>3. at' = [at EXCEPT ![t] = ReviewStep]
  BY DEF LookAtReview, Goes
<1>4. ending' = [ending EXCEPT ![t] = IF ReviewStep = "Building" THEN review ELSE @]
  BY DEF LookAtReview
<1> QED BY <1>2, <1>3, <1>4 DEF TypeOK

LEMMA TypeInit == Init => TypeOK
<1> SUFFICES ASSUME Init PROVE TypeOK
  OBVIOUS
<1>1. Housed \subseteq Helpers
  BY HousedHelpers DEF Init
<1>2. todo \in [Tasks -> SUBSET Helpers]
  BY <1>1 DEF Init
<1>3. at \in [Tasks -> Steps]
  BY DEF Init, Steps
<1>4. record \in [Helpers -> {"Absent"} \cup Waiting \cup Live \cup Terminal]
  BY DEF Init, Waiting
<1>5. conflict \in [Helpers -> Contents] /\ tree \in [Files -> Contents] /\ saw \in [Tasks -> Contents]
  BY TaskFacts DEF Init
<1> QED
  BY <1>2, <1>3, <1>4, <1>5 DEF Init, TypeOK, Dead

LEMMA TypeStep == TypeOK /\ [Next]_vars => TypeOK'
<1> SUFFICES ASSUME TypeOK, [Next]_vars PROVE TypeOK'
  OBVIOUS
<1> USE DEF TypeOK, file, process
<1>0. /\ "Idle" \in Steps /\ "Judging" \in Steps /\ "Refused" \in Steps /\ "Queued" \in Steps
      /\ "Refusing" \in Steps /\ "QueuedToMake" \in Steps
      /\ "Looking" \in Steps /\ "Folding" \in Steps /\ "Scheduling" \in Steps
      /\ "Abandoning" \in Steps /\ "Rescheduling" \in Steps /\ "Launching" \in Steps
      /\ "LaunchingReview" \in Steps /\ "Finishing" \in Steps /\ "Answering" \in Steps
      /\ "Launched" \in Steps /\ "Running" \in Steps
      /\ "Reading" \in Steps /\ "Building" \in Steps /\ "FinishingDirect" \in Steps /\ "Reviewing" \in Steps
  BY DEF Steps, Processes
<1>r. /\ {"Failed", "Stopped", "Interrupted", "Finished"} \subseteq Terminal
      /\ {"Preparing", "Working", "NeedsInput"} = Live
      /\ {"Failed", "Stopped", "Interrupted"} = Dead
  BY DEF Terminal, Dead, Live
<1>d. ASSUME NEW t \in Tasks, Decide(t)
      PROVE  /\ at' \in [Tasks -> Steps] /\ todo' \in [Tasks -> SUBSET Helpers]
             /\ ending' \in [Tasks -> {"None"} \cup Live \cup Terminal]
             /\ \A s \in Tasks : at'[s] = "Finishing" =>
                  at[s] = "Finishing" /\ ending'[s] = ending[s]
  <2>1. CASE Decision # {}
    BY <1>d, <2>1, <1>0, DecisionHelpers DEF Decide, Goes
  <2>2. CASE Decision = {}
    BY <1>d, <2>2, LookTyped DEF Decide
  <2> QED BY <2>1, <2>2
<1>1. ASSUME NEW t \in Tasks, Step(t) PROVE TypeOK'
  <2>1. CASE LaunchHelper(t)
    <3>1. PICK h \in First(todo[t], 1) :
            /\ LaunchFails(t, h) \/ LaunchRuns(t, h)
            /\ todo' = [todo EXCEPT ![t] = @ \ {h}]
      BY <2>1 DEF LaunchHelper
    <3>2. h \in Helpers
      BY <3>1, FirstIsPart
    <3>3. todo' \in [Tasks -> SUBSET Helpers]
      BY <3>1
    <3>4. CASE LaunchFails(t, h)
      <4>1. /\ record' \in [Helpers -> {"Absent"} \cup Waiting \cup Live \cup Terminal]
            /\ at' \in [Tasks -> Steps]
            /\ \A s \in Tasks : at'[s] = "Finishing" => at[s] = "Finishing"
        BY <3>4, <3>2, <1>0, <1>r DEF LaunchFails, Records
      <4>2. linked' \subseteq 0..NumHelpers /\ registered' \subseteq 0..NumHelpers
        BY <3>4, <3>2, TaskFacts DEF LaunchFails
      <4> QED
        BY <2>1, <3>3, <4>1, <4>2 DEF LaunchHelper
    <3>5. CASE LaunchRuns(t, h)
      <4>1. /\ at' \in [Tasks -> Steps] /\ record' = record
            /\ \A s \in Tasks : at'[s] = "Finishing" => at[s] = "Finishing"
        BY <3>5, <1>0 DEF LaunchRuns
      <4>2. linked' \subseteq 0..NumHelpers /\ registered' \subseteq 0..NumHelpers
        BY <3>5, <3>2, TaskFacts DEF LaunchRuns
      <4> QED
        BY <2>1, <3>3, <4>1, <4>2 DEF LaunchHelper
    <3> QED
      BY <3>1, <3>4, <3>5
  <2>0. CASE Judge(t)
    BY <2>0, <1>0 DEF Judge, Goes
  <2>2. CASE Refuse(t)
    BY <2>2, <1>0, <1>r DEF Refuse, Records, Goes
  <2>3. CASE Accept(t)
    BY <2>3, <1>0 DEF Accept, Goes
  <2>4. CASE TakeIntegrationLock(t)
    <3>1. /\ Goes(t, "Looking") \/ Goes(t, "Scheduling")
          /\ holder' = {t} \/ holder' = holder
          /\ integration' = TRUE \/ integration' = integration
      BY <2>4 DEF TakeIntegrationLock, EnsureWorktree
    <3>2. /\ at' \in [Tasks -> Steps]
          /\ \A s \in Tasks : at'[s] = "Finishing" => at[s] = "Finishing"
      BY <3>1, <1>0 DEF Goes
    <3>3. holder' \in SUBSET Tasks /\ integration' \in BOOLEAN
      BY <3>1
    <3> QED
      BY <2>4, <3>2, <3>3 DEF TakeIntegrationLock
  <2>5. CASE Look(t)
    <3>1. Reads(setting.touches[t[1]]) \in Contents
      BY <2>5, SettingFacts, TaskFacts DEF Look, Reads
    <3> QED
      BY <2>5, <3>1, <1>0 DEF Look, Goes
  <2>6. CASE FoldIn(t)
    <3>1. t[1] \in Helpers /\ t[1] \in Contents
      BY <2>6, TaskFacts DEF FoldIn
    <3>2. conflict' \in [Helpers -> Contents]
      BY <2>6, <3>1 DEF FoldIn
    <3>3. record' \in [Helpers -> {"Absent"} \cup Waiting \cup Live \cup Terminal]
      BY <2>6, <3>1, <1>r DEF FoldIn, Records
    <3>4. tree' \in [Files -> Contents]
      BY <2>6, <3>1, AppliedTyped DEF FoldIn
    <3>5. at' \in [Tasks -> Steps] /\ saw' \in [Tasks -> Contents] /\ holder' \in SUBSET Tasks
      BY <2>6, <1>0, TaskFacts DEF FoldIn, Goes
    <3>6. \A s \in Tasks : at'[s] = "Finishing" => ending'[s] \in {"Finished", "Stopped", "Failed"}
      BY <2>6 DEF FoldIn, Goes
    <3> QED
      BY <2>6, <3>2, <3>3, <3>4, <3>5, <3>6 DEF FoldIn
  <2>7. CASE Schedule(t)
    <3>1. CASE Abandoned # {}
      BY <2>7, <3>1, <1>0 DEF Schedule, Goes, Abandoned
    <3>2. CASE Abandoned = {}
      BY <2>7, <3>2, <1>d DEF Schedule
    <3> QED BY <3>1, <3>2
  <2>8. CASE Abandon(t)
    BY <2>8, <1>0, <1>r DEF Abandon, Goes
  <2>9. CASE Reschedule(t)
    BY <2>9, <1>d DEF Reschedule
  <2>10. CASE AfterRefusal(t)
    BY <2>10, LookTyped DEF AfterRefusal
  <2>11. CASE FinishDirect(t)
    BY <2>11, <1>0 DEF FinishDirect, Goes
  <2>12. CASE RecordReview(t)
    BY <2>12, <1>0, <1>r DEF RecordReview, Goes
  <2>13. CASE LaunchReview(t)
    <3>1. linked' \subseteq 0..NumHelpers /\ registered' \subseteq 0..NumHelpers
      BY <2>13, TaskFacts DEF LaunchReview
    <3>2. review' \in {"None"} \cup Live \cup Terminal
      BY <2>13, <1>r DEF LaunchReview
    <3>3. /\ at' \in [Tasks -> Steps]
          /\ \A s \in Tasks : at'[s] = "Finishing" => at[s] = "Finishing"
      BY <2>13, <1>0, TaskFacts DEF LaunchReview, Goes
    <3> QED
      BY <2>13, <3>1, <3>2, <3>3 DEF LaunchReview
  <2>14. CASE Build(t)
    <3>1. \A state, built : Outcome(state, built) \in {"Finished", "Stopped", "Failed"}
      BY DEF Outcome
    <3>2. setting.faults \in BOOLEAN
      BY SettingsAreSettings DEF IsSetting
    <3>3. PICK built \in BOOLEAN :
            /\ result' = (result \/ built)
            /\ ending' = [ending EXCEPT ![t] = Outcome(@, built)]
      BY <2>14, <3>2 DEF Build
    <3>4. ending' \in [Tasks -> {"None"} \cup Live \cup Terminal] /\ result' \in BOOLEAN
      BY <3>1, <3>3, <1>r
    <3>5. at' \in [Tasks -> Steps]
      BY <2>14, <1>0 DEF Build, Goes
    <3>6. \A s \in Tasks : at'[s] = "Finishing" =>
            ending'[s] \in {"Finished", "Stopped", "Failed"}
      BY <2>14, <3>1, <3>3 DEF Build, Goes
    <3> QED
      BY <2>14, <3>4, <3>5, <3>6 DEF Build
  <2>15. CASE Finish(t)
    BY <2>15, <1>0 DEF Finish, Goes, Dead
  <2>16. CASE Answered(t)
    BY <2>16, <1>0, <1>r, TaskFacts DEF Answered, Records, Goes
  <2>17. CASE ReadReview(t)
    <3>1. at' \in [Tasks -> Steps] /\ ending' \in [Tasks -> {"None"} \cup Live \cup Terminal]
      BY <2>17, <1>0 DEF ReadReview, Goes
    <3>2. \A s \in Tasks : at'[s] = "Finishing" => at[s] = "Finishing" /\ ending'[s] = ending[s]
      BY <2>17 DEF ReadReview, Goes
    <3> QED
      BY <2>17, <3>1, <3>2 DEF ReadReview
  <2> QED
    BY <1>1, <2>0, <2>1, <2>2, <2>3, <2>4, <2>5, <2>6, <2>7, <2>8, <2>9, <2>10, <2>11, <2>12,
       <2>13, <2>14, <2>15, <2>16, <2>17 DEF Step
<1>2. ASSUME NEW t \in Tasks, RunReports(t) PROVE TypeOK'
  BY <1>2, <1>0, <1>r DEF RunReports, Says, Records, Goes
<1>3. ASSUME NEW t \in Tasks, RunEnds(t) PROVE TypeOK'
  <2>1. record' \in [Helpers -> {"Absent"} \cup Waiting \cup Live \cup Terminal]
    BY <1>3, <1>r, TaskFacts DEF RunEnds, Says, Records
  <2>2. /\ at' \in [Tasks -> Steps] /\ registered' \subseteq 0..NumHelpers
        /\ \A s \in Tasks : at'[s] = "Finishing" => at[s] = "Finishing"
    BY <1>3, <1>0 DEF RunEnds, Goes
  <2> QED
    BY <1>3, <2>1, <2>2 DEF RunEnds
<1>4. ASSUME NEW t \in Tasks, Answer(t) PROVE TypeOK'
  <2>1. PICK text \in {AsText(t[1]), conflict[t[1]], Merged} :
          tree' = [tree EXCEPT ![setting.touches[t[1]]] = text]
    BY <1>4 DEF Answer
  <2>2. text \in Contents
    BY <1>4, <2>1, TaskFacts, TextFacts DEF Answer
  <2> QED
    BY <1>4, <2>1, <2>2, <1>0 DEF Answer, Goes
<1>5. CASE ReviewReports
  BY <1>5, <1>0, <1>r DEF ReviewReports, Goes
<1>6. CASE ReviewEnds
  BY <1>6, <1>0, <1>r DEF ReviewEnds, Goes
<1>7. CASE StopAll
  BY <1>7, <1>r DEF StopAll
<1>8. CASE ReadSession
  BY <1>8, <1>r DEF ReadSession
<1>9. CASE CloseApp
  BY <1>9, <1>0, <1>r, TaskFacts DEF CloseApp
<1>10. CASE UNCHANGED vars
  BY <1>10 DEF vars
<1> QED
  BY <1>1, <1>2, <1>3, <1>4, <1>5, <1>6, <1>7, <1>8, <1>9, <1>10 DEF Next

(* Every state of a graph is well-typed: the steps a task carries, what it *)
(* read, and the records keep to the values the code has for them.         *)
THEOREM Typed == Spec => []TypeOK
  BY TypeInit, TypeStep, PTL DEF Spec

(***************************************************************************)
(* One review                                                              *)
(***************************************************************************)

(* No review is on its way before its record is written, and that record   *)
(* is written once.                                                        *)
ReviewInv ==
  /\ OneReview
  /\ review = "None" => LaunchesOfReview = {} /\ at[Review] = "Idle"

(* A step that sends no task to launch a review, starts none and keeps the *)
(* record of the review does not disturb it.                               *)
LEMMA ReviewUndisturbed ==
  ASSUME TypeOK, ReviewInv, ReviewStep \in Steps,
         \A t \in Tasks : at'[t] = "LaunchingReview" => at[t] = "LaunchingReview",
         at[Review] = "Idle" => at'[Review] = "Idle",
         review' = "None" => review = "None"
  PROVE  ReviewInv'
  BY DEF ReviewInv, OneReview, LaunchesOfReview

LEMMA ReviewInvStep == TypeOK /\ ReviewInv /\ [Next]_vars => ReviewInv'
<1> SUFFICES ASSUME TypeOK, ReviewInv, [Next]_vars PROVE ReviewInv'
  OBVIOUS
<1> USE DEF file, process
<1>0. ReviewStep \in Steps /\ ReviewStep # "LaunchingReview"
  BY ReviewStepIsAStep DEF Steps
<1>t. at \in [Tasks -> Steps]
  BY DEF TypeOK
<1>1. ASSUME NEW t \in Tasks, Step(t) PROVE ReviewInv'
  <2>1. CASE LaunchHelper(t)
    <3>1. PICK h \in First(todo[t], 1) : LaunchFails(t, h) \/ LaunchRuns(t, h)
      BY <2>1 DEF LaunchHelper
    <3>2. h \in Helpers
      BY <3>1, FirstIsPart DEF TypeOK
    <3>3. /\ \A s \in Tasks : at'[s] = "LaunchingReview" => at[s] = "LaunchingReview"
          /\ at[Review] = "Idle" => at'[Review] = "Idle"
      <4>1. at[t] = "Launching"
        BY <2>1 DEF LaunchHelper
      <4>2. CASE LaunchFails(t, h)
        BY <4>1, <4>2, <1>t DEF LaunchFails
      <4>3. CASE LaunchRuns(t, h)
        <5>1. PICK n \in 1..MaxLaunches :
                at' = [at EXCEPT ![<<h, n>>] = "Launched",
                                 ![t] = IF todo[t] = {h} THEN "Idle" ELSE @]
          BY <4>3 DEF LaunchRuns
        <5>2. <<h, n>> \in Tasks /\ <<h, n>> # Review
          BY <3>2, TaskFacts
        <5> QED
          BY <4>1, <5>1, <5>2, <1>t, TaskFacts
      <4> QED
        BY <3>1, <4>2, <4>3
    <3> QED
      BY <2>1, <3>3, <1>0, ReviewUndisturbed DEF LaunchHelper
  <2>2. CASE Judge(t) \/ Refuse(t) \/ Accept(t) \/ TakeIntegrationLock(t) \/ Look(t) \/ FoldIn(t) \/ Answered(t)
    <3>1. /\ \A s \in Tasks : at'[s] = "LaunchingReview" => at[s] = "LaunchingReview"
          /\ at[Review] = "Idle" => at'[Review] = "Idle"
          /\ review' = review
      BY <2>2, <1>t, TaskFacts
         DEF Judge, Refuse, Accept, TakeIntegrationLock, EnsureWorktree, Look, FoldIn, Answered, Goes
    <3> QED
      BY <3>1, <1>0, ReviewUndisturbed
  <2>3. CASE Schedule(t) \/ Abandon(t) \/ Reschedule(t) \/ AfterRefusal(t)
    <3>1. /\ \A s \in Tasks : at'[s] = "LaunchingReview" => at[s] = "LaunchingReview"
          /\ at[Review] = "Idle" => at'[Review] = "Idle"
          /\ review' = review
      <4>1. \E step \in Steps \ {"LaunchingReview"} : Goes(t, step)
        BY <2>3, <1>0 DEF Schedule, Abandon, Reschedule, AfterRefusal, Decide,
                       LookAtReview, Steps
      <4>2. at[t] # "Idle" /\ review' = review
        BY <2>3 DEF Schedule, Abandon, Reschedule, AfterRefusal
      <4> QED
        BY <4>1, <4>2, <1>t DEF Goes
    <3> QED
      BY <3>1, <1>0, ReviewUndisturbed
  <2>4. CASE FinishDirect(t) \/ ReadReview(t) \/ Build(t) \/ Finish(t)
    <3>1. /\ \A s \in Tasks : at'[s] = "LaunchingReview" => at[s] = "LaunchingReview"
          /\ at[Review] = "Idle" => at'[Review] = "Idle"
          /\ review' = review
      <4>1. \E step \in {"Idle", "Building", "Finishing"} : Goes(t, step)
        BY <2>4 DEF FinishDirect, ReadReview, Build, Finish
      <4>2. at[t] # "Idle" /\ review' = review
        BY <2>4 DEF FinishDirect, ReadReview, Build, Finish
      <4> QED
        BY <4>1, <4>2, <1>t DEF Goes
    <3> QED
      BY <3>1, <1>0, ReviewUndisturbed
  <2>5. CASE RecordReview(t)
    <3>1. CASE review = "None"
      <4>1. LaunchesOfReview = {} /\ at[Review] = "Idle" /\ t # Review
        BY <2>5, <3>1 DEF ReviewInv, RecordReview
      <4>2. /\ review' = "Preparing"
            /\ \A s \in Tasks : at'[s] = "LaunchingReview" => s = t
            /\ at'[Review] = "Idle"
        BY <2>5, <3>1, <4>1, <1>t, TaskFacts DEF RecordReview, Goes, LaunchesOfReview
      <4> QED
        BY <4>2 DEF ReviewInv, OneReview, LaunchesOfReview
    <3>2. CASE review # "None"
      <4>1. Goes(t, "Idle") /\ review' = review
        BY <2>5, <3>2 DEF RecordReview
      <4>2. /\ \A s \in Tasks : at'[s] = "LaunchingReview" => at[s] = "LaunchingReview"
            /\ at[Review] = "Idle" => at'[Review] = "Idle"
        BY <4>1, <1>t DEF Goes
      <4> QED
        BY <4>1, <4>2, <1>0, ReviewUndisturbed
    <3> QED
      BY <3>1, <3>2
  <2>6. CASE LaunchReview(t)
    <3>1. /\ t \in LaunchesOfReview /\ at[Review] = "Idle" /\ t # Review
          /\ \A s \in LaunchesOfReview : s = t
          /\ review # "None"
      BY <2>6 DEF LaunchReview, LaunchesOfReview, ReviewInv, OneReview
    <3>2. \A s \in Tasks : at'[s] # "LaunchingReview"
      BY <2>6, <3>1, <1>t DEF LaunchReview, LaunchesOfReview, Goes
    <3>3. review' # "None"
      BY <2>6, <3>1 DEF LaunchReview
    <3> QED
      BY <3>2, <3>3 DEF ReviewInv, OneReview, LaunchesOfReview
  <2> QED
    BY <1>1, <2>1, <2>2, <2>3, <2>4, <2>5, <2>6 DEF Step
<1>2. ASSUME NEW t \in Tasks, RunReports(t) \/ RunEnds(t) \/ Answer(t) PROVE ReviewInv'
  <2>1. /\ \A s \in Tasks : at'[s] = "LaunchingReview" => at[s] = "LaunchingReview"
        /\ at[Review] = "Idle" => at'[Review] = "Idle"
        /\ review' = review
    BY <1>2, <1>t, TaskFacts DEF RunReports, RunEnds, Answer, Goes
  <2> QED
    BY <2>1, <1>0, ReviewUndisturbed
<1>3. CASE ReviewReports \/ ReviewEnds
  <2>1. /\ \A s \in Tasks : at'[s] = "LaunchingReview" => at[s] = "LaunchingReview"
        /\ at[Review] # "Idle"
        /\ review' # "None"
    BY <1>3, <1>t DEF ReviewReports, ReviewEnds, Goes, Processes, ReviewInv
  <2> QED
    BY <2>1, <1>0, ReviewUndisturbed
<1>4. CASE StopAll \/ ReadSession \/ UNCHANGED vars
  <2>1. at' = at /\ (review' = "None" => review = "None")
    BY <1>4 DEF StopAll, ReadSession, vars
  <2> QED
    BY <2>1, <1>0, ReviewUndisturbed
<1>5. CASE CloseApp
  <2>1. /\ \A s \in Tasks : at'[s] = "Idle"
        /\ review' = "None" => review = "None"
    BY <1>5 DEF CloseApp
  <2> QED
    BY <2>1, <1>0, TaskFacts, ReviewUndisturbed
<1> QED
  BY <1>1, <1>2, <1>3, <1>4, <1>5 DEF Next

(* However many tasks find every helper done at the same moment, one of    *)
(* them launches the review (the look under the lock in                    *)
(* start_or_check_lead_review).                                            *)
THEOREM ReviewedOnce == Spec => []OneReview
<1>1. Init => ReviewInv
  BY TaskFacts DEF Init, ReviewInv, OneReview, LaunchesOfReview
<1>2. ReviewInv => OneReview
  BY DEF ReviewInv
<1> QED
  BY <1>1, <1>2, TypeInit, TypeStep, ReviewInvStep, PTL DEF Spec

(***************************************************************************)
(* Nothing is overwritten                                                  *)
(***************************************************************************)

FileOf(t) == setting.touches[t[1]]

(* Whoever looks at the integration worktree holds its lock; what anybody  *)
(* read there is text; a file that is only written always is; what was     *)
(* seen of it while nobody had changed it is still so when it is written;  *)
(* and a helper conflicts over it only if somebody has changed it.         *)
FoldInv ==
  /\ \A t \in Tasks : at[t] \in {"Looking", "Folding"} => holder = {t}
  /\ \A t \in Tasks : saw[t] \notin Unreadable
  /\ \A h \in Helpers : conflict[h] \notin Unreadable
  /\ \A f \in Files : OnlyWritten(f) => tree[f] \notin Unreadable
  /\ \A t \in Runs \cup Answers :
       at[t] = "Folding" /\ OnlyWritten(FileOf(t)) => (saw[t] = Base <=> tree[FileOf(t)] = Base)
  /\ \A h \in Helpers :
       OnlyWritten(setting.touches[h]) /\ conflict[h] # Base => tree[setting.touches[h]] # Base

(* Steps that leave the worktree, its lock, the conflicts and what was     *)
(* seen alone, and send no task to look or to fold.                        *)
LEMMA FoldUndisturbed ==
  ASSUME FoldInv, UNCHANGED <<setting, tree, conflict, saw>>,
         \A t \in Tasks : at'[t] \in {"Looking", "Folding"} => at'[t] = at[t] /\ holder' = holder
  PROVE  FoldInv'
  BY DEF FoldInv, FileOf, Tasks, OnlyWritten, Unreadable

(* What folding in does to a file that is only written.                    *)
LEMMA FoldWrites ==
  ASSUME TypeOK, NEW t, FoldIn(t), NEW h \in Helpers, h = t[1],
         NEW f \in Files, OnlyWritten(f)
  PROVE  tree'[f] = tree[f] \/ (f = setting.touches[h] /\ tree'[f] = h)
<1>1. /\ f = setting.touches[h] => setting.work[h] = "Text" /\ setting.moves[h] = {}
      /\ f \notin setting.moves[h]
  BY DEF OnlyWritten
<1>2. tree' = tree \/ tree' = Applied(h) \/ tree' \in HalfApplied(h)
  BY DEF FoldIn
<1>3. CASE tree' = Applied(h)
  BY <1>1, <1>3 DEF Applied, Leaves
<1>5. CASE tree' = [tree EXCEPT ![setting.touches[h]] = Leaves(h)]
  BY <1>1, <1>5 DEF Leaves, TypeOK
<1>4. CASE /\ tree' \in HalfApplied(h)
           /\ tree' \notin {tree, [tree EXCEPT ![setting.touches[h]] = Leaves(h)]}
  <2>1. PICK g \in {x \in setting.moves[h] : tree[x] # Gone} :
          tree' = [tree EXCEPT ![setting.touches[h]] = IF tree[g] = Base THEN Displaced ELSE tree[g],
                               ![g] = Gone]
    BY <1>4 DEF HalfApplied
  <2>2. f # g /\ f # setting.touches[h]
    BY <1>1, <2>1
  <2> QED BY <2>1, <2>2 DEF TypeOK
<1> QED BY <1>2, <1>3, <1>4, <1>5

(* The circumstances never change.                                         *)
LEMMA SettingKept == [Next]_vars => setting' = setting
<1> SUFFICES ASSUME [Next]_vars PROVE setting' = setting
  OBVIOUS
<1>1. ASSUME NEW t \in Tasks, Step(t) PROVE setting' = setting
  BY <1>1 DEF Step, LaunchHelper, Judge, Refuse, Accept, TakeIntegrationLock, Look, FoldIn,
     Schedule, Abandon, Reschedule, AfterRefusal, FinishDirect, RecordReview,
     LaunchReview, ReadReview, Build, Finish, Answered
<1>2. ASSUME NEW t \in Tasks, RunReports(t) \/ RunEnds(t) \/ Answer(t) PROVE setting' = setting
  BY <1>2 DEF RunReports, RunEnds, Answer
<1>3. CASE ReviewReports \/ ReviewEnds \/ StopAll \/ ReadSession \/ CloseApp \/ UNCHANGED vars
  BY <1>3 DEF ReviewReports, ReviewEnds, StopAll, ReadSession, CloseApp, vars
<1> QED
  BY <1>1, <1>2, <1>3 DEF Next

LEMMA FoldInvStep == TypeOK /\ FoldInv /\ [Next]_vars => FoldInv'
<1> SUFFICES ASSUME TypeOK, FoldInv, [Next]_vars PROVE FoldInv'
  OBVIOUS
<1> USE DEF file, process
<1>0. ReviewStep \notin {"Looking", "Folding"}
  BY ReviewStepIsAStep
<1>k. setting' = setting /\ setting \in Settings
  BY SettingKept DEF TypeOK
<1>w. Unreadable' = Unreadable /\ \A f \in Files : OnlyWritten(f)' <=> OnlyWritten(f)
  BY <1>k DEF Unreadable, OnlyWritten
<1>f. \A t \in Runs \cup Answers : FileOf(t) \in Files /\ FileOf(t)' = FileOf(t)
  BY <1>k, SettingFacts, TaskFacts DEF FileOf
<1>h. \A g \in Helpers : setting.touches[g] \in Files
  BY <1>k, SettingFacts
<1>t. at \in [Tasks -> Steps]
  BY DEF TypeOK
<1>1. ASSUME NEW t \in Tasks, Step(t) PROVE FoldInv'
  <2>1. CASE LaunchHelper(t)
    <3>1. PICK h \in First(todo[t], 1) : LaunchFails(t, h) \/ LaunchRuns(t, h)
      BY <2>1 DEF LaunchHelper
    <3>2. \A s \in Tasks : at'[s] \in {"Looking", "Folding"} => at'[s] = at[s]
      <4>1. CASE LaunchFails(t, h)
        BY <4>1, <1>t DEF LaunchFails
      <4>2. CASE LaunchRuns(t, h)
        <5>1. PICK n \in 1..MaxLaunches :
                at' = [at EXCEPT ![<<h, n>>] = "Launched",
                                 ![t] = IF todo[t] = {h} THEN "Idle" ELSE @]
          BY <4>2 DEF LaunchRuns
        <5> QED
          BY <5>1, <1>t
      <4> QED
        BY <3>1, <4>1, <4>2
    <3> QED
      BY <2>1, <3>2, FoldUndisturbed DEF LaunchHelper
  <2>2. CASE Judge(t) \/ Refuse(t) \/ Accept(t) \/ AfterRefusal(t)
    <3>1. \E step \in Steps \ {"Looking", "Folding"} : Goes(t, step)
      BY <2>2, <1>0, ReviewStepIsAStep DEF Judge, Refuse, Accept, AfterRefusal, LookAtReview, Steps
    <3>2. UNCHANGED <<setting, tree, conflict, saw, holder>>
      BY <2>2 DEF Judge, Refuse, Accept, AfterRefusal
    <3> QED
      BY <3>1, <3>2, <1>t, FoldUndisturbed DEF Goes
  <2>3. CASE Schedule(t) \/ Abandon(t) \/ Reschedule(t)
    <3>1. \E step \in Steps \ {"Looking", "Folding"} : Goes(t, step)
      BY <2>3, <1>0, ReviewStepIsAStep DEF Schedule, Abandon, Reschedule, Decide, LookAtReview, Steps
    <3>2. UNCHANGED <<setting, tree, conflict, saw, holder>>
      BY <2>3 DEF Schedule, Abandon, Reschedule
    <3> QED
      BY <3>1, <3>2, <1>t, FoldUndisturbed DEF Goes
  <2>4. CASE FinishDirect(t) \/ ReadReview(t) \/ Build(t) \/ Finish(t) \/ RecordReview(t)
    <3>1. \E step \in Steps \ {"Looking", "Folding"} : Goes(t, step)
      BY <2>4 DEF FinishDirect, ReadReview, Build, Finish, RecordReview, Steps
    <3>2. UNCHANGED <<setting, tree, conflict, saw, holder>>
      BY <2>4 DEF FinishDirect, ReadReview, Build, Finish, RecordReview
    <3> QED
      BY <3>1, <3>2, <1>t, FoldUndisturbed DEF Goes
  <2>5. CASE LaunchReview(t)
    <3>1. UNCHANGED <<setting, tree, conflict, saw, holder>>
      BY <2>5 DEF LaunchReview
    <3>2. \A s \in Tasks : at'[s] \in {"Looking", "Folding"} => at'[s] = at[s]
      BY <2>5, <1>t DEF LaunchReview, Goes
    <3> QED
      BY <3>1, <3>2, FoldUndisturbed
  <2>6. CASE TakeIntegrationLock(t)
    <3>1. UNCHANGED <<setting, tree, conflict, saw>> /\ holder = {}
      BY <2>6 DEF TakeIntegrationLock
    <3>2. CASE holder' = {t} /\ Goes(t, "Looking")
      <4>1. \A s \in Tasks : at[s] \notin {"Looking", "Folding"}
        BY <3>1 DEF FoldInv
      <4>2. \A s \in Tasks : at'[s] \in {"Looking", "Folding"} => s = t /\ at'[s] = "Looking"
        BY <3>2, <4>1, <1>t DEF Goes
      <4> QED
        BY <1>w, <1>f, <1>h, <3>1, <3>2, <4>2, TaskFacts DEF FoldInv
    <3>3. CASE Goes(t, "Scheduling") /\ holder' = holder
      BY <3>1, <3>3, <1>t, FoldUndisturbed DEF Goes
    <3> QED
      BY <2>6, <3>2, <3>3 DEF TakeIntegrationLock, EnsureWorktree
  <2>7. CASE Look(t)
    <3>1. /\ UNCHANGED <<setting, tree, conflict, holder>>
          /\ holder = {t}
      BY <2>7 DEF Look, FoldInv
    <3>2. /\ saw'[t] = Reads(FileOf(t)) /\ at'[t] = "Folding"
          /\ \A s \in Tasks : s # t => saw'[s] = saw[s]
      BY <2>7, <1>t DEF Look, Goes, FileOf, TypeOK
    <3>4. \A s \in Tasks : saw'[s] \notin Unreadable
      BY <1>k, <3>2, TextFacts DEF FoldInv, Reads
    <3>5. OnlyWritten(FileOf(t)) => (saw'[t] = Base <=> tree[FileOf(t)] = Base)
      BY <2>7, <1>f, <3>2 DEF Look, FoldInv, Reads
    <3>3. \A s \in Tasks : s # t => at'[s] \notin {"Looking", "Folding"}
      BY <2>7, <3>1, <1>t DEF Look, Goes, FoldInv
    <3> QED
      BY <1>w, <1>f, <1>h, <3>1, <3>3, <3>4, <3>5, TaskFacts DEF FoldInv
  <2>8. CASE FoldIn(t)
    <3>1. PICK h \in Helpers : h = t[1] /\ h # Base
      BY <2>8, TaskFacts DEF FoldIn
    <3>2. holder = {t} /\ at[t] = "Folding"
      BY <2>8 DEF FoldIn, FoldInv
    <3>3. \A s \in Tasks : at'[s] \notin {"Looking", "Folding"}
      BY <2>8, <3>2, <1>t DEF FoldIn, Goes, FoldInv
    <3>4. \A s \in Tasks : saw'[s] \notin Unreadable
      BY <2>8, <1>k, TextFacts DEF FoldIn, FoldInv, TypeOK
    <3>5. \A f \in Files : OnlyWritten(f) =>
            tree'[f] = tree[f] \/ (f = setting.touches[h] /\ tree'[f] = h)
      BY <2>8, <3>1, FoldWrites
    <3>6. \A f \in Files : OnlyWritten(f) => tree'[f] \notin Unreadable
      <4>1. OnlyWritten(setting.touches[h]) => setting.work[h] = "Text"
        BY DEF OnlyWritten
      <4>2. OnlyWritten(setting.touches[h]) => h \notin Unreadable
        BY <1>k, <4>1, TextFacts
      <4> QED BY <3>5, <4>2 DEF FoldInv
    <3>7. \A f \in Files : OnlyWritten(f) /\ tree[f] # Base => tree'[f] # Base
      BY <3>1, <3>5
    <3>8. \A g \in Helpers : conflict'[g] = conflict[g] \/ (g = h /\ conflict'[g] = saw[t] /\ tree' = tree)
      BY <2>8, <3>1 DEF FoldIn, TypeOK
    <3>9. \A g \in Helpers : conflict'[g] \notin Unreadable
      BY <2>8, <3>8, TaskFacts DEF FoldIn, FoldInv
    <3>10. \A g \in Helpers : OnlyWritten(setting.touches[g]) /\ conflict'[g] # Base
                                => tree'[setting.touches[g]] # Base
      <4> SUFFICES ASSUME NEW g \in Helpers, OnlyWritten(setting.touches[g]), conflict'[g] # Base
                   PROVE  tree'[setting.touches[g]] # Base
        OBVIOUS
      <4>1. CASE conflict'[g] = conflict[g]
        BY <1>h, <3>7, <4>1 DEF FoldInv
      <4>2. CASE g = h /\ conflict'[g] = saw[t] /\ tree' = tree
        BY <2>8, <3>1, <4>2 DEF FoldIn, FoldInv, FileOf
      <4> QED BY <3>8, <4>1, <4>2
    <3> QED
      BY <1>k, <1>w, <1>h, <3>3, <3>4, <3>6, <3>9, <3>10, TaskFacts DEF FoldInv
  <2>9. CASE Answered(t)
    <3>1. UNCHANGED <<setting, tree, saw, holder>>
      BY <2>9 DEF Answered
    <3>2. /\ \A s \in Tasks : at'[s] \in {"Looking", "Folding"} => at'[s] = at[s]
          /\ \A g \in Helpers : conflict'[g] = conflict[g] \/ conflict'[g] = Base
      BY <2>9, <1>t, TaskFacts DEF Answered, Goes, TypeOK
    <3>3. Base \notin Unreadable
      BY <1>k, TextFacts
    <3> QED
      BY <1>k, <1>w, <1>f, <1>h, <3>1, <3>2, <3>3, TaskFacts DEF FoldInv
  <2> QED
    BY <1>1, <2>1, <2>2, <2>3, <2>4, <2>5, <2>6, <2>7, <2>8, <2>9 DEF Step
<1>2. ASSUME NEW t \in Tasks, RunReports(t) \/ RunEnds(t) PROVE FoldInv'
  <2>1. UNCHANGED <<setting, tree, conflict, saw, holder>>
    BY <1>2 DEF RunReports, RunEnds
  <2>2. \A s \in Tasks : at'[s] \in {"Looking", "Folding"} => at'[s] = at[s]
    BY <1>2, <1>t DEF RunReports, RunEnds, Goes
  <2> QED
    BY <2>1, <2>2, FoldUndisturbed
<1>3. ASSUME NEW t \in Tasks, Answer(t) PROVE FoldInv'
  <2>1. /\ t \in Answers /\ t[1] \in Helpers /\ conflict[t[1]] # Base
        /\ UNCHANGED <<setting, conflict, saw, holder>>
        /\ setting.touches \in [Helpers -> Files]
    BY <1>3, TaskFacts, SettingFacts DEF Answer, TypeOK
  <2>2. PICK text \in {AsText(t[1]), conflict[t[1]], Merged} :
          tree' = [tree EXCEPT ![setting.touches[t[1]]] = text]
    BY <1>3 DEF Answer
  <2>3. text \notin Unreadable \cup {Base}
    BY <1>k, <2>1, <2>2, TextFacts DEF FoldInv
  <2>4. OnlyWritten(setting.touches[t[1]]) => tree[setting.touches[t[1]]] # Base
    BY <2>1 DEF FoldInv
  <2>5. \A f \in Files : tree'[f] = tree[f] \/ (f = setting.touches[t[1]] /\ tree'[f] = text)
    BY <2>2 DEF TypeOK
  <2>6. \A f \in Files : OnlyWritten(f) =>
          (tree'[f] = Base <=> tree[f] = Base) /\ tree'[f] \notin Unreadable
    BY <2>3, <2>4, <2>5 DEF FoldInv
  <2>7. \A s \in Tasks : at'[s] \in {"Looking", "Folding"} => at'[s] = at[s]
    BY <1>3, <1>t DEF Answer, Goes
  <2> QED
    BY <1>k, <1>w, <1>f, <1>h, <2>1, <2>6, <2>7, TaskFacts DEF FoldInv
<1>4. CASE ReviewReports \/ ReviewEnds
  <2>1. UNCHANGED <<setting, tree, conflict, saw, holder>>
    BY <1>4 DEF ReviewReports, ReviewEnds
  <2>2. \A s \in Tasks : at'[s] \in {"Looking", "Folding"} => at'[s] = at[s]
    BY <1>4, <1>t DEF ReviewReports, ReviewEnds, Goes
  <2> QED
    BY <2>1, <2>2, FoldUndisturbed
<1>5. CASE StopAll \/ ReadSession \/ UNCHANGED vars
  <2>1. UNCHANGED <<setting, tree, conflict, saw, holder, at>>
    BY <1>5 DEF StopAll, ReadSession, vars
  <2> QED
    BY <2>1, FoldUndisturbed
<1>6. CASE CloseApp
  <2>1. UNCHANGED <<setting, tree, conflict>> /\ \A s \in Tasks : at'[s] = "Idle" /\ saw'[s] = Base
    BY <1>6 DEF CloseApp
  <2>2. Base \notin Unreadable
    BY <1>k, TextFacts
  <2> QED
    BY <1>k, <1>w, <1>h, <2>1, <2>2, TaskFacts DEF FoldInv
<1> QED
  BY <1>1, <1>2, <1>3, <1>4, <1>5, <1>6 DEF Next

FileStands(f) ==
  OnlyWritten(f) /\ tree'[f] # tree[f] /\ tree[f] # Base =>
    \E t \in Answers : /\ setting.touches[t[1]] = f /\ conflict[t[1]] # Base
                       /\ at[t] = "Idle" /\ at'[t] = "Answering"

LEMMA OnlyAnswersOverwrite ==
  TypeOK /\ FoldInv /\ [Next]_vars => \A f \in Files : FileStands(f)
<1> SUFFICES ASSUME TypeOK, FoldInv, [Next]_vars, NEW f \in Files,
                    OnlyWritten(f), tree'[f] # tree[f], tree[f] # Base
             PROVE  FileStands(f)
  BY DEF FileStands
<1> USE DEF file, process
<1>1. ASSUME NEW t \in Tasks, FoldIn(t) PROVE FALSE
  <2>1. PICK h \in Helpers : h = t[1]
    BY <1>1, TaskFacts DEF FoldIn
  <2>2. f = setting.touches[h] /\ tree'[f] = h
    BY <1>1, <2>1, FoldWrites
  <2>3. AsText(h) = h
    BY <2>2, TextFacts DEF OnlyWritten, TypeOK
  <2>4. saw[t] # Base
    BY <1>1, <2>1, <2>2 DEF FoldIn, FoldInv, FileOf
  <2>5. setting.work[h] = "Text"
    BY <2>2 DEF OnlyWritten
  <2>6. saw[t] = h => tree' = tree
    BY <1>1, <2>1, <2>3, <2>5 DEF FoldIn
  <2>7. tree' # tree => saw[t] \in {Base, h}
    BY <1>1, <2>1, <2>3 DEF FoldIn, Conflicts
  <2> QED
    BY <2>4, <2>6, <2>7
<1>2. ASSUME NEW t \in Tasks, Answer(t) PROVE FileStands(f)
  <2>1. setting.touches[t[1]] = f
    BY <1>2 DEF Answer, TypeOK
  <2>2. at'[t] = "Answering" /\ at[t] = "Idle" /\ t \in Answers /\ conflict[t[1]] # Base
    BY <1>2 DEF Answer, Goes, TypeOK
  <2> QED
    BY <2>1, <2>2 DEF FileStands
<1>3. ASSUME NEW t \in Tasks, Step(t), ~FoldIn(t) PROVE tree' = tree
  BY <1>3 DEF Step, LaunchHelper, Judge, Refuse, Accept, TakeIntegrationLock, Look, Schedule,
     Abandon, Reschedule, AfterRefusal, FinishDirect, RecordReview, LaunchReview,
     ReadReview, Build, Finish, Answered
<1>4. ASSUME NEW t \in Tasks, RunReports(t) \/ RunEnds(t) PROVE tree' = tree
  BY <1>4 DEF RunReports, RunEnds
<1>5. CASE ReviewReports \/ ReviewEnds \/ StopAll \/ ReadSession \/ CloseApp \/ UNCHANGED vars
  BY <1>5 DEF ReviewReports, ReviewEnds, StopAll, ReadSession, CloseApp, vars
<1> QED
  BY <1>1, <1>2, <1>3, <1>4, <1>5 DEF Next

(* The helpers' integrations and the answers of a person interleave in any *)
(* way, and whatever the helpers do to other files, what one of them wrote *)
(* into a file that is only written is never replaced by another's         *)
(* (with_integration_lock and detect_conflict together).                   *)
THEOREM HelpersNeverOverwrite == Spec => NothingOverwritten
<1>1. Init => FoldInv
  <2> SUFFICES ASSUME Init PROVE FoldInv
    OBVIOUS
  <2>1. Base \notin Unreadable
    BY TextFacts DEF Init
  <2> QED
    BY <2>1, TaskFacts, SettingFacts DEF Init, FoldInv
<1>2. TypeOK /\ FoldInv /\ [Next]_vars
        => [\A f \in Files : FileStands(f)]_vars
  BY OnlyAnswersOverwrite
<1>3. Spec => [][\A f \in Files : FileStands(f)]_vars
  BY <1>1, <1>2, TypeInit, TypeStep, FoldInvStep, PTL DEF Spec
<1> QED
  BY <1>3 DEF NothingOverwritten, FileStands

(***************************************************************************)
(* How a graph ends                                                        *)
(***************************************************************************)

EndKept == lead # "Working" /\ lead' # lead => \E t \in Tasks : at[t] = "FinishingDirect"

LEMMA EndKeptStep == TypeOK /\ [Next]_vars => EndKept
<1> SUFFICES ASSUME TypeOK, [Next]_vars, lead # "Working", lead' # lead
             PROVE  \E t \in Tasks : at[t] = "FinishingDirect"
  BY DEF EndKept
<1> USE DEF file, process
<1>1. lead \notin Live
  BY DEF TypeOK, Dead, Live
<1>2. ASSUME NEW t \in Tasks, Step(t), ~FinishDirect(t) PROVE FALSE
  BY <1>2 DEF Step, LaunchHelper, Judge, Refuse, Accept, TakeIntegrationLock, Look, FoldIn, Schedule,
     Abandon, Reschedule, AfterRefusal, RecordReview, LaunchReview, ReadReview,
     Build, Finish, Answered
<1>3. ASSUME NEW t \in Tasks, RunReports(t) \/ RunEnds(t) \/ Answer(t) PROVE FALSE
  BY <1>3 DEF RunReports, RunEnds, Answer
<1>4. CASE ReviewReports \/ ReviewEnds \/ UNCHANGED vars
  BY <1>4 DEF ReviewReports, ReviewEnds, vars
<1>5. CASE StopAll \/ ReadSession \/ CloseApp
  BY <1>1, <1>5 DEF StopAll, ReadSession, CloseApp
<1> QED
  BY <1>2, <1>3, <1>4, <1>5 DEF Next, FinishDirect

(* A graph that was stopped or that ended stays so, whatever tasks had     *)
(* read before, but for the task that found nothing to review.             *)
THEOREM EndsOnce == Spec => EndStands
<1>1. TypeOK /\ [Next]_vars => [EndKept]_vars
  BY EndKeptStep
<1>2. Spec => [][EndKept]_vars
  BY <1>1, TypeInit, TypeStep, PTL DEF Spec
<1> QED
  BY <1>2 DEF EndStands, EndKept

(***************************************************************************)
(* What a finished graph has behind it                                     *)
(***************************************************************************)

(* A review that finished is over for good: nobody launches it and no      *)
(* process of it speaks any more.  A task that is about to end the graph   *)
(* as Finished read a review that finished, and has written the result.    *)
FinishInv ==
  /\ review = "Finished" => LaunchesOfReview = {} /\ at[Review] \notin Processes
  /\ \A t \in Tasks :
       at[t] \in {"Building", "Finishing"} /\ ending[t] = "Finished" =>
         review = "Finished" /\ (at[t] = "Finishing" => result)

(* Steps that keep a finished review and what is carried along, and send   *)
(* nobody to launch the review, to build the result or to end the graph.   *)
LEMMA FinishUndisturbed ==
  ASSUME FinishInv,
         review = "Finished" <=> review' = "Finished", result => result',
         \A t \in Tasks : at'[t] \in {"LaunchingReview", "Building", "Finishing"} =>
                            at'[t] = at[t] /\ ending'[t] = ending[t],
         at'[Review] \in Processes => at[Review] \in Processes
  PROVE  FinishInv'
  BY DEF FinishInv, LaunchesOfReview

(* A task that looks at the review takes along what the review is now.     *)
LEMMA LookFinishes ==
  ASSUME TypeOK, FinishInv, NEW t \in Tasks, LookAtReview(t), at[t] \notin Processes,
         review' = review, result' = result
  PROVE  FinishInv'
<1>1. ReviewStep \in {"Idle", "Building", "FinishingDirect", "Reviewing"}
  BY ReviewStepIsAStep
<1>2. /\ at' = [at EXCEPT ![t] = ReviewStep]
      /\ ending' = [ending EXCEPT ![t] = IF ReviewStep = "Building" THEN review ELSE @]
  BY DEF LookAtReview, Goes
<1>3. at'[t] = ReviewStep /\ \A s \in Tasks : s # t => at'[s] = at[s] /\ ending'[s] = ending[s]
  BY <1>2 DEF TypeOK
<1>4. ReviewStep = "Building" => ending'[t] = review
  BY <1>2 DEF TypeOK
<1>5. ReviewStep \notin Processes \cup {"LaunchingReview", "Finishing"}
  BY <1>1 DEF Processes
<1>6. review' = "Finished" => LaunchesOfReview' = {} /\ at'[Review] \notin Processes
  BY <1>3, <1>5, TaskFacts DEF FinishInv, LaunchesOfReview
<1>7. ASSUME NEW s \in Tasks, at'[s] \in {"Building", "Finishing"}, ending'[s] = "Finished"
      PROVE  review' = "Finished" /\ (at'[s] = "Finishing" => result')
  <2>1. CASE s = t
    BY <1>7, <2>1, <1>3, <1>4, <1>5
  <2>2. CASE s # t
    BY <1>7, <2>2, <1>3 DEF FinishInv
  <2> QED BY <2>1, <2>2
<1> QED BY <1>6, <1>7 DEF FinishInv

LEMMA FinishInvStep == TypeOK /\ ReviewInv /\ FinishInv /\ [Next]_vars => FinishInv'
<1> SUFFICES ASSUME TypeOK, ReviewInv, FinishInv, [Next]_vars PROVE FinishInv'
  OBVIOUS
<1> USE DEF file, process
<1>t. at \in [Tasks -> Steps] /\ ending \in [Tasks -> {"None"} \cup Live \cup Terminal]
  BY DEF TypeOK
<1>g. ASSUME NEW t \in Tasks, NEW step \in {"Idle", "Launching", "Abandoning"},
             Goes(t, step), UNCHANGED <<review, result, ending>>
      PROVE  FinishInv'
  <2>1. /\ \A s \in Tasks : at'[s] \in {"LaunchingReview", "Building", "Finishing"} => at'[s] = at[s]
        /\ at'[Review] \in Processes => at[Review] \in Processes
    BY <1>g, <1>t DEF Goes, Processes
  <2> QED BY <2>1, <1>g, FinishUndisturbed
<1>d. ASSUME NEW t \in Tasks, Decide(t), at[t] \notin Processes,
             review' = review, result' = result
      PROVE  FinishInv'
  <2>1. CASE Decision # {}
    <3>1. Goes(t, "Launching") /\ UNCHANGED ending
      BY <1>d, <2>1 DEF Decide
    <3> QED BY <3>1, <1>d, <1>g
  <2>2. CASE Decision = {}
    BY <1>d, <2>2, LookFinishes DEF Decide
  <2> QED BY <2>1, <2>2
<1>1. ASSUME NEW t \in Tasks, Step(t) PROVE FinishInv'
  <2>1. CASE LaunchHelper(t)
    <3>1. PICK h \in First(todo[t], 1) : LaunchFails(t, h) \/ LaunchRuns(t, h)
      BY <2>1 DEF LaunchHelper
    <3>2. h \in Helpers
      BY <3>1, FirstIsPart DEF TypeOK
    <3>3. /\ \A s \in Tasks : at'[s] \in {"LaunchingReview", "Building", "Finishing"} => at'[s] = at[s]
          /\ at'[Review] \in Processes => at[Review] \in Processes
      <4>1. at[t] = "Launching"
        BY <2>1 DEF LaunchHelper
      <4>2. CASE LaunchFails(t, h)
        BY <4>1, <4>2, <1>t DEF LaunchFails, Processes
      <4>3. CASE LaunchRuns(t, h)
        <5>1. PICK n \in 1..MaxLaunches :
                at' = [at EXCEPT ![<<h, n>>] = "Launched",
                                 ![t] = IF todo[t] = {h} THEN "Idle" ELSE @]
          BY <4>3 DEF LaunchRuns
        <5>2. <<h, n>> \in Tasks /\ <<h, n>> # Review
          BY <3>2, TaskFacts
        <5> QED
          BY <4>1, <5>1, <5>2, <1>t, TaskFacts DEF Processes
      <4> QED
        BY <3>1, <4>2, <4>3
    <3>4. UNCHANGED <<review, result, ending>>
      BY <2>1 DEF LaunchHelper
    <3> QED
      BY <3>3, <3>4, FinishUndisturbed
  <2>2. CASE Judge(t) \/ Refuse(t) \/ Accept(t) \/ TakeIntegrationLock(t) \/ Look(t) \/ FoldIn(t)
             \/ Answered(t) \/ Abandon(t) \/ FinishDirect(t)
    <3>1. /\ \A s \in Tasks : at'[s] \in {"LaunchingReview", "Building", "Finishing"} => at'[s] = at[s]
          /\ at'[Review] \in Processes => at[Review] \in Processes
      <4>1. \E step \in {"Refusing", "Refused", "Queued", "QueuedToMake", "Scheduling", "Looking", "Folding", "Judging",
                         "Rescheduling", "Idle"} : Goes(t, step)
        BY <2>2 DEF Judge, Refuse, Accept, TakeIntegrationLock, EnsureWorktree, Look, FoldIn, Answered, Abandon, FinishDirect
      <4> QED
        BY <4>1, <1>t DEF Goes, Processes
    <3>2. UNCHANGED <<review, result, ending>>
      BY <2>2 DEF Judge, Refuse, Accept, TakeIntegrationLock, EnsureWorktree, Look, FoldIn, Answered, Abandon, FinishDirect
    <3> QED
      BY <3>1, <3>2, FinishUndisturbed
  <2>3. CASE Schedule(t)
    <3>1. at[t] \notin Processes /\ UNCHANGED <<review, result>>
      BY <2>3 DEF Schedule, Processes
    <3>2. CASE Abandoned # {}
      <4>1. Goes(t, "Abandoning") /\ UNCHANGED ending
        BY <2>3, <3>2 DEF Schedule
      <4> QED BY <3>1, <4>1, <1>g
    <3>3. CASE Abandoned = {}
      BY <2>3, <3>1, <3>3, <1>d DEF Schedule
    <3> QED BY <3>2, <3>3
  <2>4. CASE Reschedule(t)
    BY <2>4, <1>d DEF Reschedule, Processes
  <2>5. CASE AfterRefusal(t)
    BY <2>5, LookFinishes DEF AfterRefusal, Processes
  <2>6. CASE RecordReview(t)
    <3>1. CASE review = "None"
      <4>1. /\ review' = "Preparing" /\ UNCHANGED <<result, ending>>
            /\ Goes(t, "LaunchingReview")
        BY <2>6, <3>1 DEF RecordReview
      <4>2. \A s \in Tasks : at'[s] \in {"Building", "Finishing"} => at'[s] = at[s]
        BY <4>1, <1>t DEF Goes
      <4> QED
        BY <3>1, <4>1, <4>2 DEF FinishInv
    <3>2. CASE review # "None"
      <4>1. Goes(t, "Idle") /\ UNCHANGED <<review, result, ending>>
        BY <2>6, <3>2 DEF RecordReview
      <4> QED BY <4>1, <1>g
    <3> QED BY <3>1, <3>2
  <2>7. CASE LaunchReview(t)
    <3>1. review # "Finished" /\ review' # "Finished"
      BY <2>7 DEF LaunchReview, LaunchesOfReview, FinishInv
    <3>2. \A s \in Tasks : at'[s] \in {"Building", "Finishing"} => at'[s] = at[s]
      BY <2>7, <1>t, TaskFacts DEF LaunchReview, Goes
    <3>3. ending' = ending
      BY <2>7 DEF LaunchReview
    <3> QED
      BY <3>1, <3>2, <3>3 DEF FinishInv
  <2>8. CASE ReadReview(t)
    <3>1. CASE Goes(t, "Idle") /\ ending' = ending
      BY <2>8, <3>1, <1>t, FinishUndisturbed DEF ReadReview, Goes, Processes
    <3>2. CASE Goes(t, "Building") /\ ending' = [ending EXCEPT ![t] = review]
      <4>1. UNCHANGED <<review, result>>
        BY <2>8 DEF ReadReview
      <4>2. at'[t] = "Building" /\ ending'[t] = review
        BY <3>2, <1>t DEF Goes
      <4>3. \A s \in Tasks : s # t => at'[s] = at[s] /\ ending'[s] = ending[s]
        BY <3>2, <1>t DEF Goes
      <4> QED
        BY <4>1, <4>2, <4>3, TaskFacts DEF FinishInv, LaunchesOfReview, Processes
    <3> QED
      BY <2>8, <3>1, <3>2 DEF ReadReview
  <2>9. CASE Build(t)
    <3>1. PICK built \in {TRUE} \cup {~setting.faults} :
            /\ result' = (result \/ built)
            /\ ending' = [ending EXCEPT ![t] = Outcome(@, built)]
      BY <2>9 DEF Build
    <3>2. at[t] = "Building" /\ at'[t] = "Finishing" /\ review' = review
      BY <2>9, <1>t DEF Build, Goes
    <3>3. \A s \in Tasks : s # t => at'[s] = at[s] /\ ending'[s] = ending[s]
      BY <2>9, <3>1, <1>t DEF Build, Goes
    <3>4. ending'[t] = "Finished" => ending[t] = "Finished" /\ result'
      BY <3>1, <1>t DEF Outcome
    <3>5. result => result'
      BY <3>1
    <3> QED
      BY <3>2, <3>3, <3>4, <3>5, TaskFacts DEF FinishInv, LaunchesOfReview, Processes
  <2>10. CASE Finish(t)
    BY <2>10, <1>t, FinishUndisturbed DEF Finish, Goes, Processes
  <2> QED
    BY <1>1, <2>1, <2>2, <2>3, <2>4, <2>5, <2>6, <2>7, <2>8, <2>9, <2>10 DEF Step
<1>2. ASSUME NEW t \in Tasks, RunReports(t) \/ RunEnds(t) \/ Answer(t) PROVE FinishInv'
  <2>1. /\ \A s \in Tasks : at'[s] \in {"LaunchingReview", "Building", "Finishing"} => at'[s] = at[s]
        /\ at'[Review] \in Processes => at[Review] \in Processes
        /\ UNCHANGED <<review, result, ending>>
    BY <1>2, <1>t, TaskFacts DEF RunReports, RunEnds, Answer, Goes, Processes
  <2> QED
    BY <2>1, FinishUndisturbed
<1>3. CASE ReviewReports \/ ReviewEnds
  <2>1. /\ at[Review] \in Processes /\ review # "Finished"
        /\ LaunchesOfReview = {}
        /\ UNCHANGED <<result, ending>>
    BY <1>3 DEF ReviewReports, ReviewEnds, FinishInv, ReviewInv, OneReview, Processes
  <2>2. /\ \A s \in Tasks : at'[s] \in {"LaunchingReview", "Building", "Finishing"} => at'[s] = at[s]
        /\ review' = "Finished" => at'[Review] \notin Processes
    BY <1>3, <1>t, TaskFacts, <2>1 DEF ReviewReports, ReviewEnds, Goes, Processes
  <2> QED
    BY <2>1, <2>2 DEF FinishInv, LaunchesOfReview
<1>4. CASE StopAll \/ ReadSession \/ UNCHANGED vars
  <2>1. /\ UNCHANGED <<at, ending, result>>
        /\ review' = "Finished" <=> review = "Finished"
    BY <1>4 DEF StopAll, ReadSession, vars, Live
  <2> QED
    BY <2>1, FinishUndisturbed
<1>5. CASE CloseApp
  BY <1>5, TaskFacts DEF CloseApp, FinishInv, LaunchesOfReview, Processes
<1> QED
  BY <1>1, <1>2, <1>3, <1>4, <1>5 DEF Next

FinishEarned ==
  lead = "Working" /\ lead' = "Finished" =>
    (review = "Finished" /\ result) \/ \E t \in Tasks : at[t] = "FinishingDirect"

LEMMA FinishEarnedStep == TypeOK /\ FinishInv /\ [Next]_vars => FinishEarned
<1> SUFFICES ASSUME TypeOK, FinishInv, [Next]_vars, lead = "Working", lead' = "Finished"
             PROVE  (review = "Finished" /\ result) \/ \E t \in Tasks : at[t] = "FinishingDirect"
  BY DEF FinishEarned
<1> USE DEF file, process
<1>1. ASSUME NEW t \in Tasks, Finish(t) PROVE review = "Finished" /\ result
  BY <1>1 DEF Finish, FinishInv
<1>2. ASSUME NEW t \in Tasks, Step(t), ~FinishDirect(t), ~Finish(t) PROVE FALSE
  BY <1>2 DEF Step, LaunchHelper, Judge, Refuse, Accept, TakeIntegrationLock, Look, FoldIn, Schedule,
     Abandon, Reschedule, AfterRefusal, RecordReview, LaunchReview, ReadReview,
     Build, Answered
<1>3. ASSUME NEW t \in Tasks, RunReports(t) \/ RunEnds(t) \/ Answer(t) PROVE FALSE
  BY <1>3 DEF RunReports, RunEnds, Answer
<1>4. CASE ReviewReports \/ ReviewEnds \/ UNCHANGED vars
  BY <1>4 DEF ReviewReports, ReviewEnds, vars
<1>5. CASE StopAll \/ ReadSession \/ CloseApp
  BY <1>5 DEF StopAll, ReadSession, CloseApp
<1> QED
  BY <1>1, <1>2, <1>3, <1>4, <1>5 DEF Next, FinishDirect

(* Whatever the interleaving of the tasks, the window and a stop, a graph  *)
(* becomes Finished only on a review that finished and a result that was   *)
(* written (graph_finish_outcome), or where no integration worktree exists.*)
THEOREM FinishIsEarned == Spec => FinishedWasReviewed
<1>1. Init => FinishInv
  BY TaskFacts DEF Init, FinishInv
<1>2. TypeOK /\ FinishInv /\ [Next]_vars => [FinishEarned]_vars
  BY FinishEarnedStep
<1>3. Init => ReviewInv
  BY TaskFacts DEF Init, ReviewInv, OneReview, LaunchesOfReview
<1>4. Spec => [][FinishEarned]_vars
  BY <1>1, <1>2, <1>3, TypeInit, TypeStep, ReviewInvStep, FinishInvStep, PTL DEF Spec
<1> QED
  BY <1>4 DEF FinishedWasReviewed, FinishEarned
=============================================================================
