----------------------- MODULE BackgroundJobs_proofs -----------------------
(***************************************************************************)
(* Proofs about the two background jobs that touch the repositories of the *)
(* user: UpdateAll, for any repositories, any number of workers and any    *)
(* bounds; and RepoRefresh, which takes what happened in a repository to   *)
(* the window, for any number of changes and operations.                   *)
(***************************************************************************)
EXTENDS UpdateAll, RepoRefresh, TLAPS

(* What the entries of a stash list hold together.                         *)
Held(s) == UNION {s[i] : i \in DOMAIN s}

(* A new entry adds what it holds, and nothing else.                       *)
LEMMA PushHolds ==
  ASSUME NEW S, NEW s \in Seq(SUBSET S), NEW e \in SUBSET S
  PROVE  /\ <<e>> \o s \in Seq(SUBSET S)
         /\ <<e>> \o s # <<>>
         /\ Held(<<e>> \o s) = e \cup Held(s)
<1> DEFINE p == <<e>> \o s
<1>1. /\ p \in Seq(SUBSET S)
      /\ Len(p) = 1 + Len(s)
      /\ p[1] = e
      /\ \A i \in 1 .. Len(s) : p[i + 1] = s[i]
  OBVIOUS
<1>2. DOMAIN p = 1 .. 1 + Len(s) /\ DOMAIN s = 1 .. Len(s) /\ Len(s) \in Nat
  BY <1>1
<1>3. ASSUME NEW x \in Held(p)
      PROVE  x \in e \cup Held(s)
  <2>1. PICK i \in 1 .. 1 + Len(s) : x \in p[i]
    BY <1>2, <1>3 DEF Held
  <2>2. CASE i = 1
    BY <1>1, <2>1, <2>2
  <2>3. CASE i # 1
    <3>1. i - 1 \in 1 .. Len(s) /\ p[i] = s[i - 1]
      BY <1>1, <1>2, <2>3
    <3> QED BY <1>2, <2>1, <3>1 DEF Held
  <2> QED BY <2>2, <2>3
<1>4. ASSUME NEW x \in e \cup Held(s)
      PROVE  x \in Held(p)
  <2>1. CASE x \in e
    <3>1. 1 \in DOMAIN p /\ x \in p[1]
      BY <1>1, <1>2, <2>1
    <3> QED BY <3>1 DEF Held
  <2>2. CASE x \in Held(s)
    <3>1. PICK i \in 1 .. Len(s) : x \in s[i]
      BY <1>2, <2>2 DEF Held
    <3>2. i + 1 \in DOMAIN p /\ x \in p[i + 1]
      BY <1>1, <1>2, <3>1
    <3> QED BY <3>2 DEF Held
  <2> QED BY <1>4, <2>1, <2>2
<1>5. p # <<>>
  BY <1>1, <1>2
<1> QED BY <1>1, <1>3, <1>4, <1>5

(* Taking the newest entry off leaves what the others hold.                *)
LEMMA PopHolds ==
  ASSUME NEW S, NEW s \in Seq(SUBSET S), s # <<>>
  PROVE  /\ Tail(s) \in Seq(SUBSET S)
         /\ Head(s) \in SUBSET S
         /\ Held(s) = Head(s) \cup Held(Tail(s))
<1>1. /\ Tail(s) \in Seq(SUBSET S)
      /\ Head(s) = s[1] /\ Head(s) \in SUBSET S
      /\ Len(s) \in Nat \ {0}
      /\ Len(Tail(s)) = Len(s) - 1
      /\ \A i \in 1 .. Len(s) - 1 : Tail(s)[i] = s[i + 1]
      /\ DOMAIN s = 1 .. Len(s) /\ DOMAIN Tail(s) = 1 .. Len(s) - 1
  OBVIOUS
<1>2. ASSUME NEW x \in Held(s)
      PROVE  x \in Head(s) \cup Held(Tail(s))
  <2>1. PICK i \in 1 .. Len(s) : x \in s[i]
    BY <1>1, <1>2 DEF Held
  <2>2. CASE i = 1
    BY <1>1, <2>1, <2>2
  <2>3. CASE i # 1
    <3>1. i - 1 \in 1 .. Len(s) - 1 /\ Tail(s)[i - 1] = s[i]
      BY <1>1, <2>3
    <3> QED BY <1>1, <2>1, <3>1 DEF Held
  <2> QED BY <2>2, <2>3
<1>3. ASSUME NEW x \in Head(s) \cup Held(Tail(s))
      PROVE  x \in Held(s)
  <2>1. CASE x \in Head(s)
    <3>1. 1 \in DOMAIN s /\ x \in s[1]
      BY <1>1, <2>1
    <3> QED BY <3>1 DEF Held
  <2>2. CASE x \in Held(Tail(s))
    <3>1. PICK i \in 1 .. Len(s) - 1 : x \in Tail(s)[i]
      BY <1>1, <2>2 DEF Held
    <3>2. i + 1 \in DOMAIN s /\ x \in s[i + 1]
      BY <1>1, <3>1
    <3> QED BY <3>2 DEF Held
  <2> QED BY <1>3, <2>1, <2>2
<1> QED BY <1>1, <1>2, <1>3

-----------------------------------------------------------------------------
(* Types.                                                                  *)

LEMMA TypeInit == Init => TypeOK
<1> SUFFICES ASSUME Init PROVE TypeOK
  OBVIOUS
<1>1. <<>> \in Seq(SUBSET (1 .. MaxEdits))
  OBVIOUS
<1>2. stash \in [Repos -> Seq(SUBSET (1 .. MaxEdits))]
  BY <1>1 DEF Init
<1>3. /\ edits \in [Repos -> 0 .. MaxEdits]
      /\ tree \in [Repos -> SUBSET (1 .. MaxEdits)]
      /\ jobs \in 0 .. MaxJobs
  BY BoundsAreNumbers DEF Init
<1>4. /\ at \in [Repos -> Places]
      /\ result \in [Repos -> Kinds \cup {None}]
      /\ relation \in [Repos -> Relations]
      /\ \A r \in Repos : ~stashed[r]
  BY DEF Init, Places, Kinds, Relations, None
<1> QED
  BY <1>2, <1>3, <1>4
  DEF Init, TypeOK

(* An entry that is about to be dropped is back in the working tree.       *)
Applied ==
  \A r \in Repos :
    at[r] = "dropping" => stashed[r] /\ Head(stash[r]) \subseteq tree[r]

LEMMA TypeStep == TypeOK /\ Applied /\ [Next]_vars => TypeOK'
<1> SUFFICES ASSUME TypeOK, Applied, [Next]_vars PROVE TypeOK'
  OBVIOUS
<1> USE BoundsAreNumbers DEF jobVars, workVars, branchVars, None
<1>1. CASE Start
  <2>1. jobs' \in 0 .. MaxJobs
    BY <1>1 DEF Start, TypeOK
  <2>2. CASE job' = "running"
    <3>1. /\ allow' \in SUBSET Repos
          /\ at' = [r \in Repos |-> "waiting"]
          /\ result' = [r \in Repos |-> None]
          /\ stashed' = [r \in Repos |-> FALSE]
          /\ touched' = [r \in Repos |-> FALSE]
          /\ elsewhere' = [r \in Repos |-> FALSE]
          /\ cancel' = FALSE
          /\ UNCHANGED <<workVars, relation, merging, poisoned>>
      BY <1>1, <2>2 DEF Start
    <3>2. /\ at' \in [Repos -> Places] /\ result' \in [Repos -> Kinds \cup {None}]
          /\ stashed' \in [Repos -> BOOLEAN] /\ touched' \in [Repos -> BOOLEAN]
          /\ elsewhere' \in [Repos -> BOOLEAN]
          /\ \A r \in Repos : at'[r] = "done" <=> result'[r] # None
          /\ \A r \in Repos : stashed'[r] => stash'[r] # <<>>
      BY <3>1 DEF Places, Busy
    <3> QED BY <2>1, <2>2, <3>1, <3>2 DEF TypeOK
  <2>3. CASE job' = "wedged"
    BY <1>1, <2>1, <2>3 DEF Start, TypeOK
  <2> QED BY <1>1, <2>2, <2>3 DEF Start
<1>2. CASE Cancel
  BY <1>2 DEF Cancel, TypeOK
<1>3. CASE CloseApp
  BY <1>3 DEF CloseApp, TypeOK, Places, Kinds, Relations
<1>4. CASE Finish
  BY <1>4 DEF Finish, Report, TypeOK, Places, Kinds, Relations
<1>5. CASE JobDies
  BY <1>5 DEF JobDies, TypeOK
<1>6. ASSUME NEW r \in Repos, Take(r) PROVE TypeOK'
  BY <1>6 DEF Take, TypeOK, Places, Busy
<1>7. ASSUME NEW r \in Repos, Examine(r) PROVE TypeOK'
  BY <1>7 DEF Examine, EndsWith, GoesTo, TypeOK, Places, Busy, Kinds
<1>8. ASSUME NEW r \in Repos, FetchAnswers(r) PROVE TypeOK'
  <2>1. CASE GoesTo(r, "locking")
    <3>1. relation' \in [Repos -> Relations]
      BY <1>8, <2>1 DEF FetchAnswers, TypeOK
    <3> QED
      BY <1>8, <2>1, <3>1 DEF FetchAnswers, GoesTo, TypeOK, Places, Busy
  <2>2. CASE EndsWith(r, "failed") /\ UNCHANGED relation
    BY <1>8, <2>2 DEF FetchAnswers, EndsWith, TypeOK, Places, Busy, Kinds
  <2> QED BY <1>8, <2>1, <2>2 DEF FetchAnswers
<1>9. ASSUME NEW r \in Repos, FetchStopped(r) PROVE TypeOK'
  BY <1>9 DEF FetchStopped, EndsWith, GoesTo, TypeOK, Places, Busy, Kinds
<1>10. ASSUME NEW r \in Repos, Lock(r) PROVE TypeOK'
  BY <1>10 DEF Lock, EndsWith, GoesTo, TypeOK, Places, Busy, Kinds
<1>11. ASSUME NEW r \in Repos, Look(r) PROVE TypeOK'
  BY <1>11 DEF Look, EndsWith, GoesTo, TypeOK, Places, Busy, Kinds
<1>12. ASSUME NEW r \in Repos, SetAside(r) PROVE TypeOK'
  <2>1. tree[r] \in SUBSET (1 .. MaxEdits)
    BY DEF TypeOK
  <2>2. stash[r] \in Seq(SUBSET (1 .. MaxEdits))
    BY DEF TypeOK
  <2>3. /\ <<tree[r]>> \o stash[r] \in Seq(SUBSET (1 .. MaxEdits))
        /\ <<tree[r]>> \o stash[r] # <<>>
    BY <2>1, <2>2, PushHolds
  <2>6. /\ at' \in [Repos -> Places]
        /\ result' \in [Repos -> Kinds \cup {None}]
        /\ (job = "running"
              => \A q \in Repos : at'[q] = "done" <=> result'[q] # None)
        /\ relation' \in [Repos -> Relations]
        /\ elsewhere' \in [Repos -> BOOLEAN]
        /\ touched' \in [Repos -> BOOLEAN]
    <3>1. /\ at[r] = "setting_aside"
          /\ \/ GoesTo(r, "checking_out") \/ EndsWith(r, "failed")
             \/ EndsWith(r, "updated")
      BY <1>12 DEF SetAside
    <3>2. /\ at' \in [Repos -> Places]
          /\ result' \in [Repos -> Kinds \cup {None}]
          /\ (job = "running"
                => \A q \in Repos : at'[q] = "done" <=> result'[q] # None)
      BY <3>1 DEF EndsWith, GoesTo, TypeOK, Places, Busy, Kinds
    <3>3. relation' = relation \/ relation' = [relation EXCEPT ![r] = "same"]
      BY <1>12 DEF SetAside
    <3>4. touched' = touched \/ touched' = [touched EXCEPT ![r] = TRUE]
      BY <1>12 DEF SetAside
    <3>5. elsewhere' \in [Repos -> BOOLEAN]
      BY <1>12 DEF SetAside, TypeOK
    <3> QED BY <3>2, <3>3, <3>4, <3>5 DEF TypeOK, Relations
  <2>4. CASE stash' = [stash EXCEPT ![r] = <<tree[r]>> \o @]
    <3>1. stash' \in [Repos -> Seq(SUBSET (1 .. MaxEdits))]
      BY <2>3, <2>4 DEF TypeOK
    <3>2. \A q \in Repos : stash[q] # <<>> => stash'[q] # <<>>
      BY <2>3, <2>4 DEF TypeOK
    <3>3. stash'[r] # <<>>
      BY <2>3, <2>4 DEF TypeOK
    <3>4. \/ UNCHANGED <<tree, stash, stashed>>
          \/ /\ tree' = [tree EXCEPT ![r] = {}]
             /\ stashed' = [stashed EXCEPT ![r] = TRUE]
      BY <1>12 DEF SetAside
    <3>5. /\ tree' \in [Repos -> SUBSET (1 .. MaxEdits)]
          /\ stashed' \in [Repos -> BOOLEAN]
          /\ \A q \in Repos : stashed'[q] => stash'[q] # <<>>
      BY <3>2, <3>3, <3>4 DEF TypeOK
    <3> QED BY <1>12, <2>6, <3>1, <3>5 DEF SetAside, TypeOK
  <2>5. CASE UNCHANGED <<tree, stash, stashed>>
    BY <1>12, <2>5, <2>6 DEF SetAside, TypeOK
  <2> QED BY <1>12, <2>4, <2>5 DEF SetAside
<1>13. ASSUME NEW r \in Repos, CheckOut(r) PROVE TypeOK'
  BY <1>13 DEF CheckOut, EndsWith, GoesTo, TypeOK, Places, Busy, Kinds
<1>14. ASSUME NEW r \in Repos, MoveRef(r) PROVE TypeOK'
  <2>1. relation' \in [Repos -> Relations]
    BY <1>14 DEF MoveRef, TypeOK, Relations
  <2>2. /\ elsewhere' \in [Repos -> BOOLEAN]
        /\ touched' \in [Repos -> BOOLEAN]
    BY <1>14 DEF MoveRef, TypeOK
  <2>3. /\ at[r] = "moving"
        /\ GoesTo(r, "following") \/ EndsWith(r, "failed")
    BY <1>14 DEF MoveRef
  <2>4. /\ at' \in [Repos -> Places]
        /\ result' \in [Repos -> Kinds \cup {None}]
        /\ (job = "running"
              => \A q \in Repos : at'[q] = "done" <=> result'[q] # None)
    BY <2>3 DEF EndsWith, GoesTo, TypeOK, Places, Busy, Kinds
  <2> QED BY <1>14, <2>1, <2>2, <2>4 DEF MoveRef, TypeOK
<1>15. ASSUME NEW r \in Repos, PutBack(r) PROVE TypeOK'
  <2>1. /\ at' \in [Repos -> Places]
        /\ result' \in [Repos -> Kinds \cup {None}]
        /\ (job = "running"
              => \A q \in Repos : at'[q] = "done" <=> result'[q] # None)
    <3>1. /\ at[r] = "putting_back"
          /\ \/ EndsWith(r, "updated") \/ EndsWith(r, "clashed")
             \/ GoesTo(r, "dropping")
      BY <1>15 DEF PutBack
    <3> QED BY <3>1 DEF EndsWith, GoesTo, TypeOK, Places, Busy, Kinds
  <2>2. tree' \in [Repos -> SUBSET (1 .. MaxEdits)]
    <3>1. CASE UNCHANGED tree
      BY <3>1 DEF TypeOK
    <3>2. CASE /\ stashed[r]
               /\ tree' = [tree EXCEPT ![r] = @ \cup Head(stash[r])]
      <4>1. stash[r] \in Seq(SUBSET (1 .. MaxEdits)) /\ stash[r] # <<>>
        BY <3>2 DEF TypeOK
      <4>2. Head(stash[r]) \in SUBSET (1 .. MaxEdits)
        BY <4>1, PopHolds
      <4>3. /\ tree \in [Repos -> SUBSET (1 .. MaxEdits)]
            /\ tree[r] \cup Head(stash[r]) \in SUBSET (1 .. MaxEdits)
        BY <4>2 DEF TypeOK
      <4> QED BY <3>2, <4>3
    <3> QED BY <1>15, <3>1, <3>2 DEF PutBack
  <2> QED BY <1>15, <2>1, <2>2 DEF PutBack, TypeOK
<1>20. ASSUME NEW r \in Repos, Follow(r) PROVE TypeOK'
  BY <1>20 DEF Follow, GoesTo, TypeOK, Places, Busy
<1>21. ASSUME NEW r \in Repos, SwitchBranch(r) PROVE TypeOK'
  BY <1>21 DEF SwitchBranch, TypeOK
<1>22. ASSUME NEW r \in Repos, Drop(r), Applied PROVE TypeOK'
  <2>1. /\ at' \in [Repos -> Places]
        /\ result' \in [Repos -> Kinds \cup {None}]
        /\ (job = "running"
              => \A q \in Repos : at'[q] = "done" <=> result'[q] # None)
    <3>1. EndsWith(r, "updated") \/ EndsWith(r, "failed")
      BY <1>22 DEF Drop
    <3> QED BY <3>1 DEF EndsWith, TypeOK, Places, Busy, Kinds
  <2>2. CASE UNCHANGED <<stash, stashed>>
    BY <1>22, <2>1, <2>2 DEF Drop, TypeOK
  <2>3. CASE /\ stash' = [stash EXCEPT ![r] = Tail(@)]
             /\ stashed' = [stashed EXCEPT ![r] = FALSE]
    <3>1. stash[r] \in Seq(SUBSET (1 .. MaxEdits)) /\ stash[r] # <<>>
      BY <1>22 DEF Drop, Applied, TypeOK
    <3>2. Tail(stash[r]) \in Seq(SUBSET (1 .. MaxEdits))
      BY <3>1, PopHolds
    <3>3. stash' \in [Repos -> Seq(SUBSET (1 .. MaxEdits))]
      BY <2>3, <3>2 DEF TypeOK
    <3>4. \A q \in Repos : stashed'[q] => stash'[q] # <<>>
      BY <2>3 DEF TypeOK
    <3>5. stashed' \in [Repos -> BOOLEAN]
      BY <2>3 DEF TypeOK
    <3> QED BY <1>22, <2>1, <3>3, <3>4, <3>5 DEF Drop, TypeOK
  <2> QED BY <1>22, <2>2, <2>3 DEF Drop
<1>16. ASSUME NEW r \in Repos, Edit(r) PROVE TypeOK'
  <2>1. edits[r] \in 0 .. MaxEdits /\ edits[r] < MaxEdits
    BY <1>16 DEF Edit, TypeOK
  <2>2. edits[r] + 1 \in 1 .. MaxEdits
    BY <2>1
  <2> QED BY <1>16, <2>2 DEF Edit, TypeOK
<1>17. ASSUME NEW r \in Repos, BeginMerge(r) PROVE TypeOK'
  BY <1>17 DEF BeginMerge, TypeOK
<1>18. ASSUME NEW r \in Repos, Poison(r) PROVE TypeOK'
  BY <1>18, OpenReposAreRepos DEF Poison, TypeOK
<1>19. CASE UNCHANGED vars
  BY <1>19 DEF vars, TypeOK
<1> QED
  BY <1>1, <1>2, <1>3, <1>4, <1>5, <1>6, <1>7, <1>8, <1>9, <1>10, <1>11,
     <1>12, <1>13, <1>14, <1>15, <1>16, <1>17, <1>18, <1>19, <1>20, <1>21,
     <1>22 DEF Next, Work

LEMMA AppliedStep ==
  ASSUME TypeOK, Applied, [Next]_vars
  PROVE  Applied'
<1> USE DEF jobVars, workVars, branchVars
<1>1. ASSUME NEW q \in Repos, at'[q] = "dropping"
      PROVE  stashed'[q] /\ Head(stash'[q]) \subseteq tree'[q]
  <2>1. CASE at[q] = "dropping"
    <3>1. stashed[q] /\ Head(stash[q]) \subseteq tree[q]
      BY <2>1 DEF Applied
    <3>2. /\ stashed'[q] = stashed[q]
          /\ stash'[q] = stash[q]
          /\ tree[q] \subseteq tree'[q]
      <4>1. CASE Start \/ CloseApp \/ Finish
        BY <1>1, <2>1, <4>1 DEF Start, CloseApp, Finish
      <4>2. CASE \E r \in Repos : Drop(r)
        <5>1. PICK r \in Repos : Drop(r)
          BY <4>2
        <5>2. r # q
          BY <1>1, <5>1 DEF Drop, EndsWith, TypeOK
        <5> QED BY <5>1, <5>2 DEF Drop, TypeOK
      <4>3. CASE \E r \in Repos : SetAside(r)
        <5>1. PICK r \in Repos : SetAside(r)
          BY <4>3
        <5>2. r # q
          BY <2>1, <5>1 DEF SetAside
        <5>3. stashed' = stashed \/ stashed' = [stashed EXCEPT ![r] = TRUE]
          BY <5>1 DEF SetAside
        <5>4. tree' = tree \/ tree' = [tree EXCEPT ![r] = {}]
          BY <5>1 DEF SetAside
        <5>5. stash' = stash \/ stash' = [stash EXCEPT ![r] = <<tree[r]>> \o @]
          BY <5>1 DEF SetAside
        <5> QED BY <5>2, <5>3, <5>4, <5>5 DEF TypeOK
      <4>4. CASE \E r \in Repos : PutBack(r)
        <5>1. PICK r \in Repos : PutBack(r)
          BY <4>4
        <5>2. r # q
          BY <2>1, <5>1 DEF PutBack
        <5>3. /\ UNCHANGED <<stash, stashed>>
              /\ \/ tree' = tree
                 \/ tree' = [tree EXCEPT ![r] = @ \cup Head(stash[r])]
          BY <5>1 DEF PutBack
        <5> QED BY <5>2, <5>3 DEF TypeOK
      <4>5. CASE \E r \in Repos : Edit(r)
        BY <4>5 DEF Edit, TypeOK
      <4>6. \/ UNCHANGED <<tree, stash, stashed>>
            \/ Start \/ CloseApp \/ Finish
            \/ \E r \in Repos : Drop(r) \/ SetAside(r) \/ PutBack(r) \/ Edit(r)
        BY DEF Next, Work, Cancel, JobDies, Take, Examine, FetchAnswers,
               FetchStopped, Lock, Look, CheckOut, MoveRef, Follow, BeginMerge,
               SwitchBranch, Poison, vars
      <4> QED BY <4>1, <4>2, <4>3, <4>4, <4>5, <4>6
    <3> QED BY <3>1, <3>2
  <2>2. CASE at[q] # "dropping"
    <3>1. PutBack(q) /\ stashed[q]
      <4>1. CASE \E r \in Repos : PutBack(r)
        <5>1. PICK r \in Repos : PutBack(r)
          BY <4>1
        <5>2. r = q
          BY <1>1, <2>2, <5>1 DEF PutBack, EndsWith, GoesTo, TypeOK
        <5> QED BY <1>1, <2>2, <5>1, <5>2 DEF PutBack, EndsWith, TypeOK
      <4>2. \/ at'[q] # "dropping"
            \/ \E r \in Repos : PutBack(r)
        BY <1>1, <2>2
        DEF Next, Work, Start, CloseApp, Finish, Cancel, JobDies, Take,
            Examine, FetchAnswers, FetchStopped, Lock, Look, SetAside,
            CheckOut, MoveRef, Follow, Drop, Edit, BeginMerge, SwitchBranch,
            Poison, EndsWith, GoesTo, vars, TypeOK
      <4> QED BY <1>1, <4>1, <4>2
    <3>2. /\ UNCHANGED <<stash, stashed>>
          /\ tree' = [tree EXCEPT ![q] = @ \cup Head(stash[q])]
      BY <1>1, <3>1 DEF PutBack, EndsWith, TypeOK
    <3> QED BY <3>1, <3>2 DEF TypeOK
  <2> QED BY <2>1, <2>2
<1> QED BY <1>1 DEF Applied

(* The type invariant of the job (commands/update_all.rs): every worker    *)
(* that is through with a repository has left its report.                  *)
THEOREM UpdateTyped == Spec => []TypeOK
<1>1. Init => TypeOK /\ Applied
  BY TypeInit DEF Init, Applied
<1>2. TypeOK /\ Applied /\ [Next]_vars => TypeOK' /\ Applied'
  BY TypeStep, AppliedStep
<1> QED BY <1>1, <1>2, PTL DEF Spec

(* What PutBack put into the working tree is still there when Drop drops   *)
(* the entry.                                                              *)
LEMMA DropsWhatIsBack == Spec => []Applied
<1>1. Init => TypeOK /\ Applied
  BY TypeInit DEF Init, Applied
<1>2. TypeOK /\ Applied /\ [Next]_vars => TypeOK' /\ Applied'
  BY TypeStep, AppliedStep
<1> QED BY <1>1, <1>2, PTL DEF Spec

-----------------------------------------------------------------------------
(* The user's changes.                                                     *)

(* What is kept of the edits of a repository.                              *)
Kept(r) == tree[r] \cup Held(stash[r])

LEMMA KeptStep ==
  ASSUME TypeOK, Applied, NothingIsLost, [Next]_vars
  PROVE  NothingIsLost'
<1> USE DEF jobVars, workVars, branchVars
<1>0. \A r \in Repos : 1 .. edits[r] = Kept(r)
  BY DEF NothingIsLost, Kept, Held
<1>1. CASE UNCHANGED workVars
  BY <1>1 DEF NothingIsLost
<1>2. ASSUME NEW r \in Repos, SetAside(r) PROVE NothingIsLost'
  <2>1. CASE UNCHANGED <<tree, stash>>
    BY <1>2, <2>1 DEF SetAside, NothingIsLost
  <2>2. CASE /\ stash' = [stash EXCEPT ![r] = <<tree[r]>> \o @]
             /\ tree' = [tree EXCEPT ![r] = {}]
    <3>1. /\ tree[r] \in SUBSET (1 .. MaxEdits)
          /\ stash[r] \in Seq(SUBSET (1 .. MaxEdits))
      BY DEF TypeOK
    <3>2. Held(<<tree[r]>> \o stash[r]) = tree[r] \cup Held(stash[r])
      BY <3>1, PushHolds
    <3>3. stash'[r] = <<tree[r]>> \o stash[r] /\ tree'[r] = {}
      BY <2>2 DEF TypeOK
    <3>4. tree'[r] \cup Held(stash'[r]) = Kept(r)
      BY <3>2, <3>3 DEF Kept
    <3>5. \A q \in Repos \ {r} : tree'[q] = tree[q] /\ stash'[q] = stash[q]
      BY <2>2 DEF TypeOK
    <3>6. \A q \in Repos : tree'[q] \cup Held(stash'[q]) = Kept(q)
      BY <3>4, <3>5 DEF Kept
    <3>7. edits' = edits
      BY <1>2 DEF SetAside
    <3> QED BY <1>0, <3>6, <3>7 DEF NothingIsLost, Held
  <2> QED BY <1>2, <2>1, <2>2 DEF SetAside
<1>3. ASSUME NEW r \in Repos, PutBack(r) PROVE NothingIsLost'
  <2>1. CASE UNCHANGED tree
    BY <1>3, <2>1 DEF PutBack, NothingIsLost
  <2>2. CASE ~UNCHANGED tree
    <3>1. /\ stashed[r]
          /\ tree' = [tree EXCEPT ![r] = @ \cup Head(stash[r])]
          /\ UNCHANGED <<edits, stash>>
      BY <1>3, <2>2 DEF PutBack
    <3>2. stash[r] \in Seq(SUBSET (1 .. MaxEdits)) /\ stash[r] # <<>>
      BY <3>1 DEF TypeOK
    <3>3. Held(stash[r]) = Head(stash[r]) \cup Held(Tail(stash[r]))
      BY <3>2, PopHolds
    <3>4. tree'[r] = tree[r] \cup Head(stash[r])
      BY <3>1 DEF TypeOK
    <3>5. tree'[r] \cup Held(stash[r]) = Kept(r)
      BY <3>3, <3>4 DEF Kept
    <3>6. \A q \in Repos \ {r} : tree'[q] = tree[q]
      BY <3>1 DEF TypeOK
    <3>7. \A q \in Repos : tree'[q] \cup Held(stash[q]) = Kept(q)
      BY <3>5, <3>6 DEF Kept
    <3>8. \A q \in Repos : 1 .. edits'[q] = tree'[q] \cup Held(stash'[q])
      BY <1>0, <3>1, <3>7
    <3> QED BY <3>8 DEF NothingIsLost, Held
  <2> QED BY <2>1, <2>2
<1>6. ASSUME NEW r \in Repos, Drop(r) PROVE NothingIsLost'
  <2>1. CASE UNCHANGED stash
    BY <1>6, <2>1 DEF Drop, NothingIsLost
  <2>2. CASE stash' = [stash EXCEPT ![r] = Tail(@)]
    <3>1. stashed[r] /\ Head(stash[r]) \subseteq tree[r]
      BY <1>6 DEF Drop, Applied
    <3>2. stash[r] \in Seq(SUBSET (1 .. MaxEdits)) /\ stash[r] # <<>>
      BY <3>1 DEF TypeOK
    <3>3. Held(stash[r]) = Head(stash[r]) \cup Held(Tail(stash[r]))
      BY <3>2, PopHolds
    <3>4. stash'[r] = Tail(stash[r])
      BY <2>2 DEF TypeOK
    <3>5. tree[r] \cup Held(stash'[r]) = Kept(r)
      BY <3>1, <3>3, <3>4 DEF Kept
    <3>6. \A q \in Repos \ {r} : stash'[q] = stash[q]
      BY <2>2 DEF TypeOK
    <3>7. \A q \in Repos : tree[q] \cup Held(stash'[q]) = Kept(q)
      BY <3>5, <3>6 DEF Kept
    <3>8. UNCHANGED <<edits, tree>>
      BY <1>6 DEF Drop
    <3> QED BY <1>0, <3>7, <3>8 DEF NothingIsLost, Held
  <2> QED BY <1>6, <2>1, <2>2 DEF Drop
<1>4. ASSUME NEW r \in Repos, Edit(r) PROVE NothingIsLost'
  <2>1. edits[r] \in Nat
    BY DEF TypeOK
  <2>2. /\ edits'[r] = edits[r] + 1
        /\ tree'[r] = tree[r] \cup {edits[r] + 1}
        /\ stash' = stash
    BY <1>4 DEF Edit, TypeOK
  <2>3. 1 .. edits'[r] = (1 .. edits[r]) \cup {edits[r] + 1}
    BY <2>1, <2>2
  <2>4. 1 .. edits'[r] = tree'[r] \cup Held(stash'[r])
    BY <1>0, <2>2, <2>3 DEF Kept
  <2>5. \A q \in Repos \ {r} : edits'[q] = edits[q] /\ tree'[q] = tree[q]
    BY <1>4 DEF Edit, TypeOK
  <2>6. ASSUME NEW q \in Repos
        PROVE  1 .. edits'[q] = tree'[q] \cup Held(stash'[q])
    <3>1. CASE q = r
      BY <2>4, <3>1
    <3>2. CASE q # r
      <4>1. edits'[q] = edits[q] /\ tree'[q] = tree[q] /\ stash'[q] = stash[q]
        BY <2>2, <2>5, <2>6, <3>2
      <4>2. 1 .. edits[q] = tree[q] \cup Held(stash[q])
        BY <1>0, <2>6 DEF Kept
      <4> QED BY <4>1, <4>2
    <3> QED BY <3>1, <3>2
  <2> QED BY <2>6 DEF NothingIsLost, Held
<1>5. \/ UNCHANGED workVars
      \/ \E r \in Repos : SetAside(r) \/ PutBack(r) \/ Drop(r) \/ Edit(r)
  BY DEF Next, Work, Start, Cancel, CloseApp, Finish, JobDies, Take, Examine,
         FetchAnswers, FetchStopped, Lock, Look, CheckOut, MoveRef, Follow,
         BeginMerge, SwitchBranch, Poison, vars
<1> QED BY <1>1, <1>2, <1>3, <1>4, <1>5, <1>6

(* fast_forward_branch_to keeps every edit in the working tree or in the   *)
(* stash, whatever fails and however often the application is closed.      *)
THEOREM NoEditIsLost == Spec => []NothingIsLost
<1>1. Init => NothingIsLost
  BY DEF Init, NothingIsLost
<1>2. TypeOK /\ Applied /\ NothingIsLost /\ [Next]_vars => NothingIsLost'
  BY KeptStep
<1> QED BY UpdateTyped, DropsWhatIsBack, <1>1, <1>2, PTL DEF Spec

-----------------------------------------------------------------------------
(* What a report says.                                                     *)

(* Nothing is touched before the changes are set aside or the branch moves.*)
Before == {"waiting", "taken", "fetching", "locking", "looking",
           "setting_aside", "lost"}
Untouched == \A r \in Repos : at[r] \in Before => ~touched[r]
Unreported == \A r \in Repos : at[r] # "done" => result[r] = None
Honest == Untouched /\ Unreported /\ LeftAloneIsUntouched

LEMMA HonestStep ==
  ASSUME TypeOK, Honest, [Next]_vars
  PROVE  Honest'
<1> USE DEF Honest, Untouched, Unreported, LeftAloneIsUntouched, Before, None
<1>1. CASE Start
  <2>1. CASE job' = "running"
    BY <1>1, <2>1 DEF Start, None
  <2>2. CASE job' = "wedged"
    BY <1>1, <2>2 DEF Start
  <2> QED BY <1>1, <2>1, <2>2 DEF Start
<1>2. CASE CloseApp
  BY <1>2 DEF CloseApp, None
<1>3. CASE Finish
  <2>1. \A r \in Repos : at[r] \in {"waiting", "done"}
    BY <1>3 DEF Finish, WorkersGone, Working, Lost, TypeOK, Places
  <2>2. \A r \in Repos : result[r] = None => ~touched[r]
    BY <1>3, <2>1 DEF Finish, TypeOK
  <2>3. \A r \in Repos : result'[r] = "skipped" => ~touched[r]
    BY <1>3, <2>2 DEF Finish, Report
  <2>4. \A r \in Repos : result'[r] # "skipped" => result'[r] = result[r]
    BY <1>3 DEF Finish, Report
  <2> QED BY <1>3, <2>3, <2>4 DEF Finish
<1>4. ASSUME NEW r \in Repos,
             \/ Take(r) \/ Examine(r) \/ FetchAnswers(r) \/ FetchStopped(r)
             \/ Lock(r) \/ Look(r)
      PROVE  Honest'
  <2>1. ~touched[r] /\ touched' = touched
    BY <1>4 DEF Take, Examine, FetchAnswers, FetchStopped, Lock, Look
  <2>2. \A q \in Repos \ {r} : at'[q] = at[q] /\ result'[q] = result[q]
    BY <1>4 DEF Take, Examine, FetchAnswers, FetchStopped, Lock, Look,
                EndsWith, GoesTo, TypeOK
  <2>3. at'[r] # "done" => result'[r] = None
    <3>1. result[r] = None
      BY <1>4 DEF Take, Examine, FetchAnswers, FetchStopped, Lock, Look
    <3>2. at'[r] = "done" \/ result'[r] = result[r]
      BY <1>4 DEF Take, Examine, FetchAnswers, FetchStopped, Lock, Look,
                  EndsWith, GoesTo, TypeOK
    <3> QED BY <3>1, <3>2
  <2> QED BY <2>1, <2>2, <2>3
<1>5. ASSUME NEW r \in Repos,
             \/ SetAside(r) \/ CheckOut(r) \/ MoveRef(r) \/ Follow(r)
             \/ PutBack(r) \/ Drop(r)
      PROVE  Honest'
  <2>1. result[r] = None
    BY <1>5 DEF SetAside, CheckOut, MoveRef, Follow, PutBack, Drop
  <2>2. \/ GoesTo(r, "checking_out") \/ GoesTo(r, "moving")
        \/ GoesTo(r, "following") \/ GoesTo(r, "putting_back")
        \/ GoesTo(r, "dropping")
        \/ EndsWith(r, "failed") \/ EndsWith(r, "updated")
        \/ EndsWith(r, "clashed")
    BY <1>5 DEF SetAside, CheckOut, MoveRef, Follow, PutBack, Drop
  <2>3. /\ at'[r] \notin Before
        /\ \/ at'[r] # "done" /\ result'[r] = None
           \/ at'[r] = "done" /\ result'[r] \in {"failed", "updated", "clashed"}
    BY <2>1, <2>2 DEF EndsWith, GoesTo, TypeOK
  <2>4. \A q \in Repos \ {r} : /\ at'[q] = at[q]
                              /\ result'[q] = result[q]
                              /\ touched'[q] = touched[q]
    BY <1>5 DEF SetAside, CheckOut, MoveRef, Follow, PutBack, Drop, EndsWith,
                GoesTo, TypeOK
  <2> QED BY <2>3, <2>4
<1>6. CASE UNCHANGED <<at, result, touched>>
  BY <1>6
<1>7. \/ Start \/ CloseApp \/ Finish \/ UNCHANGED <<at, result, touched>>
      \/ \E r \in Repos :
           \/ Take(r) \/ Examine(r) \/ FetchAnswers(r) \/ FetchStopped(r)
           \/ Lock(r) \/ Look(r) \/ SetAside(r) \/ CheckOut(r) \/ MoveRef(r)
           \/ Follow(r) \/ PutBack(r) \/ Drop(r)
  BY DEF Next, Work, Cancel, JobDies, Edit, BeginMerge, SwitchBranch, Poison,
         vars
<1> QED BY <1>1, <1>2, <1>3, <1>4, <1>5, <1>6, <1>7

(* A repository that run_job reports as not checked, left alone or without *)
(* news was not touched by the job.                                        *)
THEOREM LeftAloneMeansUntouched == Spec => []LeftAloneIsUntouched
<1>1. Init => Honest
  BY DEF Init, Honest, Untouched, Unreported, LeftAloneIsUntouched, None
<1>2. TypeOK /\ Honest /\ [Next]_vars => Honest'
  BY HonestStep
<1>3. Honest => LeftAloneIsUntouched
  BY DEF Honest
<1> QED BY UpdateTyped, <1>1, <1>2, <1>3, PTL DEF Spec

-----------------------------------------------------------------------------
(* The refresh.                                                            *)

LEMMA RefreshTypeInit == RefreshInit => RefreshTypeOK
<1> SUFFICES ASSUME RefreshInit PROVE RefreshTypeOK
  OBVIOUS
<1>1. refs \in States /\ sign \in States /\ noticed \in States /\ ops \in 0 .. MaxOps /\ begun \in 0 .. MaxOps
  BY RefreshBounds DEF RefreshInit, States
<1>2. ops <= begun /\ ~skipped /\ sign <= noticed /\ noticed <= refs
  BY DEF RefreshInit
<1> QED BY <1>1, <1>2 DEF RefreshInit, RefreshTypeOK

LEMMA RefreshTypeStep == RefreshTypeOK /\ [RefreshNext]_refreshVars => RefreshTypeOK'
<1> SUFFICES ASSUME RefreshTypeOK, [RefreshNext]_refreshVars PROVE RefreshTypeOK'
  OBVIOUS
<1> USE DEF RefreshTypeOK, watcherVars, windowVars, repository
<1>1. CASE Capture
  BY <1>1 DEF Capture
<1>2. CASE Arm
  BY <1>2 DEF Arm
<1>3. CASE HandlerReads
  BY <1>3 DEF HandlerReads
<1>4. CASE HandlerReports
  BY <1>4 DEF HandlerReports
<1>5. CASE PollReads
  BY <1>5 DEF PollReads
<1>6. CASE PollCompares
  BY <1>6 DEF PollCompares
<1>7. CASE Changed
  <2>1. fetch' \in {"idle", "asked", "answered"} /\ skipped' \in BOOLEAN
    BY <1>7 DEF Changed, AskAgain
  <2>2. skipped' => ops' > 0
    BY <1>7 DEF Changed
  <2> QED BY <1>7, <2>1, <2>2 DEF Changed
<1>8. CASE BeginOp
  <2>1. /\ ops' \in 0 .. MaxOps /\ begun' \in 0 .. MaxOps
        /\ ops' <= begun' /\ ops' > 0
    BY <1>8, RefreshBounds DEF BeginOp
  <2> QED BY <1>8, <2>1 DEF BeginOp
<1>9. CASE EndOp
  <2>1. fetch' \in {"idle", "asked", "answered"}
    BY <1>9 DEF EndOp, AskAgain
  <2>2. ops' \in 0 .. MaxOps /\ ops' <= begun
    BY <1>9, RefreshBounds DEF EndOp
  <2>4. skipped' = (skipped /\ ops > 1)
    BY <1>9 DEF EndOp
  <2>5. skipped' \in BOOLEAN
    BY <2>4
  <2>6. ops > 1 => ops' > 0
    BY <1>9, RefreshBounds DEF EndOp
  <2>7. skipped' => ops' > 0
    BY <2>4, <2>6
  <2>3. /\ UNCHANGED <<open, arm, last, event, handler, poll, changed>>
        /\ UNCHANGED <<refs, sign, noticed, begun, answer, shown, failed, base>>
    BY <1>9 DEF EndOp
  <2> QED BY <2>1, <2>2, <2>3, <2>5, <2>7 DEF States
<1>10. CASE LogReads
  BY <1>10 DEF LogReads
<1>11. CASE LogArrives
  BY <1>11 DEF LogArrives
<1>12. CASE LogFails
  BY <1>12 DEF LogFails
<1>13. CASE Change
  <2>0. PICK covered \in BOOLEAN, delivered \in BOOLEAN :
          /\ refs <= MaxChanges /\ refs' = refs + 1
          /\ sign' = IF covered THEN refs + 1 ELSE sign
          /\ event' = (event \/ delivered)
          /\ noticed' = IF covered \/ delivered THEN refs + 1 ELSE noticed
    BY <1>13 DEF Change
  <2>1. /\ refs' \in States /\ sign' \in States /\ noticed' \in States
        /\ sign' <= noticed' /\ noticed' <= refs'
    BY <2>0, RefreshBounds DEF States
  <2>2. event' \in BOOLEAN
    BY <2>0
  <2>3. /\ UNCHANGED <<open, arm, last, handler, poll, changed, base>>
        /\ UNCHANGED <<ops, begun, skipped, fetch, answer, shown, failed>>
    BY <1>13 DEF Change
  <2> QED BY <2>1, <2>2, <2>3
<1>14. CASE Close
  <2>1. open' \in BOOLEAN /\ event' \in BOOLEAN
    BY <1>14 DEF Close
  <2>2. arm' \in {"queued", "captured", "armed", "off"}
    BY <1>14 DEF Close
  <2>3. /\ UNCHANGED <<last, handler, poll, changed, refs, sign, noticed, base>>
        /\ UNCHANGED <<ops, begun, skipped, fetch, answer, shown, failed>>
    BY <1>14 DEF Close
  <2> QED BY <2>1, <2>2, <2>3
<1>15. CASE UNCHANGED refreshVars
  BY <1>15 DEF refreshVars
<1> QED
  BY <1>1, <1>2, <1>3, <1>4, <1>5, <1>6, <1>7, <1>8, <1>9, <1>10, <1>11,
     <1>12, <1>13, <1>14, <1>15 DEF RefreshNext

(* The type invariant of the watcher and its window, with the promise that *)
(* a refresh that was held back has an operation whose end runs it         *)
(* (beginGitOperation and useRepoWatcher).                                 *)
THEOREM HeldBackHasAnEnd == RefreshSpec => []RefreshTypeOK
<1>1. RefreshTypeOK /\ [RefreshNext]_refreshVars => RefreshTypeOK'
  BY RefreshTypeStep
<1> QED BY RefreshTypeInit, <1>1, PTL DEF RefreshSpec

-----------------------------------------------------------------------------
(* No change is forgotten.                                                 *)

(* A signature on record is never newer than the repository, so that of a  *)
(* change that was just made differs from it.                              *)
NothingIsAhead == last <= sign /\ handler <= sign /\ poll <= sign

LEMMA AheadStep ==
  ASSUME RefreshTypeOK, NothingIsAhead, [RefreshNext]_refreshVars
  PROVE  NothingIsAhead'
<1> USE DEF NothingIsAhead, watcherVars, windowVars, repository
<1>0. /\ last \in Nat /\ handler \in Nat /\ poll \in Nat
      /\ refs \in Nat /\ sign \in Nat /\ sign <= refs
  BY RefreshBounds DEF RefreshTypeOK, States, NotRead
<1>1. CASE Capture
  BY <1>0, <1>1 DEF Capture
<1>2. CASE HandlerReads
  BY <1>0, <1>2 DEF HandlerReads
<1>3. CASE HandlerReports
  BY <1>0, <1>3 DEF HandlerReports, NotRead
<1>4. CASE PollReads
  BY <1>0, <1>4 DEF PollReads
<1>5. CASE PollCompares
  BY <1>0, <1>5 DEF PollCompares, NotRead
<1>6. CASE Change
  BY <1>0, <1>6 DEF Change
<1>7. CASE UNCHANGED <<last, handler, poll, sign>>
  BY <1>7
<1> QED
  BY <1>1, <1>2, <1>3, <1>4, <1>5, <1>6, <1>7
  DEF RefreshNext, Arm, Changed, BeginOp, EndOp, LogReads, LogArrives, LogFails,
      Close, refreshVars

(* What the bookkeeping starts from, and what an answer is.                *)
BaseIsSound ==
  /\ base # NotRead => Loaded
  /\ base # NotRead /\ open => Watched
  /\ arm = "queued" => base = NotRead
  /\ Loaded /\ open /\ Watched => base # NotRead
  /\ fetch = "answered" => answer # NotRead

LEMMA BaseStep ==
  ASSUME RefreshTypeOK, BaseIsSound, [RefreshNext]_refreshVars
  PROVE  BaseIsSound'
<1> USE DEF BaseIsSound, Loaded, Watched, watcherVars, windowVars, repository
<1>0. refs # NotRead
  BY RefreshBounds DEF RefreshTypeOK, States, NotRead
<1>1. CASE Capture
  BY <1>0, <1>1 DEF Capture
<1>2. CASE Arm
  BY <1>2 DEF Arm
<1>3. CASE Changed
  BY <1>3 DEF Changed, AskAgain
<1>4. CASE EndOp
  <2>1. fetch' = "answered" => fetch = "answered"
    BY <1>4 DEF EndOp, AskAgain
  <2> QED BY <1>4, <2>1 DEF EndOp
<1>5. CASE LogReads
  BY <1>0, <1>5 DEF LogReads
<1>6. CASE LogArrives
  BY <1>0, <1>6 DEF LogArrives
<1>7. CASE LogFails
  BY <1>7 DEF LogFails
<1>8. CASE Close
  <2>1. /\ ~open' /\ (arm' = "queued" => arm = "queued")
        /\ UNCHANGED <<base, shown, fetch, answer>>
    BY <1>8 DEF Close
  <2> QED BY <2>1
<1>9. CASE UNCHANGED <<open, arm, base, shown, fetch, answer>>
  BY <1>9
<1> QED
  BY <1>1, <1>2, <1>3, <1>4, <1>5, <1>6, <1>7, <1>8, <1>9
  DEF RefreshNext, HandlerReads, HandlerReports, PollReads, PollCompares, BeginOp,
      Change, refreshVars

(* What NoChangeForgotten says of the change that is in question.          *)
Remembered ==
  \/ fetch = "asked"
  \/ fetch = "answered" /\ answer >= noticed
  \/ fetch = "idle" /\ (shown >= noticed \/ failed)
  \/ changed \/ skipped \/ event \/ handler # NotRead \/ last # sign

LEMMA RememberedStep ==
  ASSUME RefreshTypeOK, NothingIsAhead, BaseIsSound, NoChangeForgotten,
         [RefreshNext]_refreshVars, (open /\ base # NotRead /\ noticed > base)'
  PROVE  Remembered'
<1> USE DEF Remembered, watcherVars, windowVars, repository
<1>0. /\ refs \in Nat /\ refs # NotRead /\ base \in Nat /\ last \in Nat
      /\ ops \in Nat /\ sign \in Nat /\ sign # NotRead /\ noticed \in Nat
      /\ noticed <= refs /\ sign <= refs
  BY RefreshBounds DEF RefreshTypeOK, States, NotRead
<1>1. CASE Capture
  BY <1>0, <1>1 DEF Capture
<1>2. CASE HandlerReads
  BY <1>0, <1>2 DEF HandlerReads
<1>3. CASE HandlerReports
  BY <1>3 DEF HandlerReports
<1>4. CASE Close
  BY <1>4 DEF Close
<1>5. CASE Change
  <2>1. UNCHANGED <<open, base, fetch, answer, shown, failed, changed, skipped, handler, last>>
    BY <1>5 DEF Change
  <2>2. CASE noticed' = noticed
    <3>1. Remembered
      BY <2>1, <2>2 DEF NoChangeForgotten
    <3>2. PICK covered \in BOOLEAN, delivered \in BOOLEAN :
            sign' = (IF covered THEN refs + 1 ELSE sign) /\ event' = (event \/ delivered)
      BY <1>5 DEF Change
    <3>3. sign' = sign \/ last < sign'
      BY <1>0, <3>2 DEF NothingIsAhead
    <3>4. event => event'
      BY <3>2
    <3> QED BY <1>0, <2>1, <2>2, <3>1, <3>3, <3>4
  <2>3. CASE noticed' # noticed
    <3>1. event' \/ sign' = refs + 1
      BY <1>5, <2>3 DEF Change
    <3> QED BY <1>0, <2>1, <3>1 DEF NothingIsAhead
  <2> QED BY <2>2, <2>3
<1>6. CASE LogArrives
  <2>1. base' = base /\ open /\ noticed' = noticed
    BY <1>0, <1>6 DEF LogArrives
  <2>2. Remembered
    BY <2>1 DEF NoChangeForgotten
  <2> QED BY <1>6, <2>2 DEF LogArrives
<1>7. CASE LogReads
  BY <1>0, <1>7 DEF LogReads
<1>8. CASE LogFails
  BY <1>8 DEF LogFails
<1>9. CASE PollCompares
  <2>1. Remembered
    BY <1>9 DEF PollCompares, NoChangeForgotten
  <2> QED BY <1>9, <2>1 DEF PollCompares
<1>10. CASE Changed
  <2>1. Loaded /\ open
    BY <1>10 DEF Changed, BaseIsSound
  <2>2. skipped' \/ fetch' = "asked"
    BY <1>0, <1>10, <2>1 DEF Changed, AskAgain
  <2> QED BY <2>2
<1>11. CASE EndOp
  <2>1. /\ Loaded /\ Remembered
        /\ UNCHANGED <<event, handler, last, changed, sign, noticed, answer, shown, failed>>
    BY <1>11 DEF EndOp, BaseIsSound, NoChangeForgotten
  <2>2. skipped => skipped' \/ fetch' = "asked"
    BY <1>0, <1>11, <2>1 DEF EndOp, AskAgain, RefreshTypeOK
  <2>3. fetch' = fetch \/ fetch' = "asked"
    BY <1>11, <2>1 DEF EndOp, AskAgain
  <2> QED BY <2>1, <2>2, <2>3
<1>12. CASE Arm \/ PollReads \/ BeginOp \/ UNCHANGED refreshVars
  <2>1. /\ UNCHANGED <<open, base, sign, noticed, fetch, answer, shown, failed, changed>>
        /\ UNCHANGED <<skipped, event, handler, last>>
    BY <1>12 DEF Arm, PollReads, BeginOp, refreshVars
  <2>2. Remembered
    BY <2>1 DEF NoChangeForgotten
  <2> QED BY <2>1, <2>2
<1> QED
  BY <1>1, <1>2, <1>3, <1>4, <1>5, <1>6, <1>7, <1>8, <1>9, <1>10, <1>11,
     <1>12
  DEF RefreshNext

(* A change that moved the signature or whose event came is never lost     *)
(* between the event handler and the state poll, which share one           *)
(* signature, the message, the refresh an operation holds back and the     *)
(* query that drops what it waits for (watcher.rs, useRepoWatcher.ts,      *)
(* queryKeys.ts), for any number of changes and operations: only a log     *)
(* query that ended in an error stays behind it.                           *)
THEOREM ChangesAreRemembered == RefreshSpec => []NoChangeForgotten
<1> DEFINE Inv == RefreshTypeOK /\ NothingIsAhead /\ BaseIsSound /\ NoChangeForgotten
<1>1. RefreshInit => Inv
  <2> SUFFICES ASSUME RefreshInit PROVE Inv
    OBVIOUS
  <2>1. RefreshTypeOK
    BY RefreshTypeInit
  <2>2. NothingIsAhead /\ BaseIsSound /\ NoChangeForgotten
    BY DEF RefreshInit, NothingIsAhead, BaseIsSound, NoChangeForgotten, Loaded,
           Watched, NotRead
  <2> QED BY <2>1, <2>2
<1>2. Inv /\ [RefreshNext]_refreshVars => Inv'
  <2> SUFFICES ASSUME Inv, [RefreshNext]_refreshVars PROVE Inv'
    OBVIOUS
  <2>1. RefreshTypeOK'
    BY RefreshTypeStep
  <2>2. NothingIsAhead' /\ BaseIsSound'
    BY AheadStep, BaseStep
  <2>3. NoChangeForgotten'
    BY RememberedStep DEF NoChangeForgotten, Remembered
  <2> QED BY <2>1, <2>2, <2>3
<1>3. Inv => NoChangeForgotten
  OBVIOUS
<1> QED BY <1>1, <1>2, <1>3, PTL DEF RefreshSpec
=============================================================================
