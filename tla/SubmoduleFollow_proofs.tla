----------------------- MODULE SubmoduleFollow_proofs -----------------------
(***************************************************************************)
(* Proofs about SubmoduleFollow, for any history and any number of         *)
(* commands.  What carries them is that everything only moves forward: a   *)
(* commit keeps its history, and a branch, once it leads to a commit, goes *)
(* on leading to it unless a pull made the commit again on top of the      *)
(* server's.  So what somebody looked at before a step of git is still led *)
(* to when the step comes, or was replaced.                                *)
(***************************************************************************)
EXTENDS SubmoduleFollow, TLAPS

(* A history is closed: it has the histories of its commits.               *)
HistoryInv ==
  /\ past[NoCommit] = {}
  /\ \A c \in Published : past[c] = 1 .. c
  /\ \A c \in Made : c \in past[c] /\ past[c] \subseteq Made
  /\ \A c \in Made : \A d \in past[c] : past[d] \subseteq past[c]

(* What an actor remembers while it attaches or follows.                   *)
AttachOf(a) ==
  /\ at[a] \in {"branching", "sliding", "switching"} => saw[a].head # NoCommit
  /\ at[a] = "sliding" => saw[a].tip # NoCommit /\ Descends(saw[a].head, saw[a].tip)
  /\ at[a] = "switching" =>
       /\ goal[a] # None /\ tip[goal[a]] # NoCommit
       /\ past[saw[a].head] \subseteq past[tip[goal[a]]] \cup replaced
  /\ at[a] \in {"setting_aside", "updating"} =>
       \A d \in past[saw[a].head] : Saved(d) \/ d \in replaced
AttachInv == \A a \in Actors : AttachOf(a)

(* After an update nobody interfered with, attaching stays at the pin.     *)
SettleInv ==
  /\ errand[Follow] = "settle" =>
       at[Follow] \in {"attaching", "branching", "sliding", "switching", "reporting"}
  /\ at[Follow] = "reporting" => errand[Follow] = "settle"
  /\ quiet /\ errand[Follow] = "settle" =>
       /\ Head = pin
       /\ at[Follow] \in {"branching", "sliding"} => on = None /\ saw[Follow].head = Head
       /\ at[Follow] = "switching" => on = None /\ tip[goal[Follow]] = Head

Inv == TypeOK /\ HistoryInv /\ AttachInv
-----------------------------------------------------------------------------
LEMMA NameFacts ==
  /\ Follow \in Actors /\ Tab \in Actors /\ Main \in Branches
  /\ None \notin Branches /\ "own" \in Branches
BY DEF Actors, Follow, Tab, Branches, Main, None

LEMMA NumberFacts ==
  ASSUME TypeOK
  PROVE  /\ made \in Nat /\ Upstream \in Nat /\ MaxCommits \in Nat
         /\ Made \subseteq Nat /\ Published \subseteq Made /\ Made \subseteq Commits
         /\ Upstream \in Published /\ NoCommit \notin Made
         /\ pin # NoCommit /\ remote # NoCommit
         /\ Head \in Made
         /\ on # None => on \in Branches /\ tip[on] = Head
         /\ on = None => bare = Head
<1>1. /\ made \in Nat /\ Upstream \in Nat \ {0} /\ MaxCommits \in Nat
      /\ Upstream <= made /\ made <= MaxCommits
  BY CommitsAreNumbers DEF TypeOK
<1>2. Head \in Made \cup {NoCommit}
  BY DEF TypeOK, Head
<1> QED BY <1>1, <1>2 DEF TypeOK, Made, Published, Commits, NoCommit, Head

(* Where an actor goes on after attaching.                                 *)
LEMMA GoingTypes ==
  ASSUME TypeOK, NEW a \in Actors, NEW place \in Places, NEW what \in Errands,
         GoesFor(a, place, what)
  PROVE  at' \in [Actors -> Places] /\ errand' \in [Actors -> Errands]
BY DEF TypeOK, GoesFor

LEMMA AttachedGoes ==
  ASSUME TypeOK, NEW a \in Actors, Attached(a) \/ NotAttached(a) \/ AlreadyOn(a)
  PROVE  \E place \in {"checking", "reporting", "measuring", "pulling", "staging", "idle"} :
         \E what \in {errand[a], None} :
           /\ GoesFor(a, place, what)
           /\ place # "idle" => what = errand[a]
           /\ place = "reporting" => errand[a] = "settle"
           /\ what = "settle" => place = "reporting"
<1>1. CASE Attached(a)
  BY <1>1 DEF Attached, Goes, Idles, None
<1>2. CASE NotAttached(a)
  BY <1>1, <1>2 DEF NotAttached, Idles, None
<1>3. CASE AlreadyOn(a)
  BY <1>1, <1>3 DEF AlreadyOn, Goes, None
<1> QED BY <1>1, <1>2, <1>3

LEMMA AttachedTypes ==
  ASSUME TypeOK, NEW a \in Actors, Attached(a) \/ NotAttached(a) \/ AlreadyOn(a)
  PROVE  /\ at' \in [Actors -> Places] /\ errand' \in [Actors -> Errands]
         /\ at'[a] \notin {"branching", "sliding", "switching", "setting_aside", "updating"}
         /\ \A b \in Actors \ {a} : at'[b] = at[b] /\ errand'[b] = errand[b]
<1>1. PICK place \in {"checking", "reporting", "measuring", "pulling", "staging", "idle"},
           what \in {errand[a], None} : GoesFor(a, place, what)
  BY AttachedGoes
<1>2. place \in Places /\ what \in Errands
  BY DEF TypeOK, Places, Errands
<1> QED BY <1>1, <1>2, GoingTypes DEF GoesFor, TypeOK

LEMMA LooksTypes ==
  ASSUME TypeOK, NEW a \in Actors, Looks(a) \/ Forgets(a)
  PROVE  saw' \in [Actors -> [head : Made \cup {NoCommit}, tip : Made \cup {NoCommit}]]
<1>1. [head |-> Head, tip |-> tip[Main]] \in [head : Made \cup {NoCommit}, tip : Made \cup {NoCommit}]
  BY NumberFacts, NameFacts DEF TypeOK
<1>2. Nothing \in [head : Made \cup {NoCommit}, tip : Made \cup {NoCommit}]
  BY DEF Nothing
<1> QED BY <1>1, <1>2 DEF TypeOK, Looks, Forgets


LEMMA MadeKept ==
  ASSUME TypeOK, UNCHANGED made PROVE Made' = Made
BY DEF Made

LEMMA CommandTypes ==
  ASSUME TypeOK, Begins PROVE commands' \in 0 .. MaxCommands
BY CommitsAreNumbers DEF TypeOK, Begins

(* A step of the attaching makes nothing; it may move the main branch to   *)
(* what was seen, and HEAD onto a branch.                                  *)
LEMMA AttachTypes ==
  ASSUME TypeOK, AttachInv, NEW a \in Actors, Attach(a)
  PROVE  TypeOK'
<1> USE NameFacts, NumberFacts DEF history, refs, checkout, parent
<1>1. ASSUME NEW b \in Branches, SwitchTo(a, b)
      PROVE  /\ at' \in [Actors -> Places] /\ errand' \in [Actors -> Errands]
             /\ goal' \in [Actors -> Branches \cup {None}]
  <2>1. at' \in [Actors -> Places] /\ errand' \in [Actors -> Errands]
    BY <1>1, GoingTypes DEF SwitchTo, Goes, Places, TypeOK
  <2>2. goal' \in [Actors -> Branches \cup {None}]
    BY <1>1 DEF SwitchTo, TypeOK
  <2> QED BY <2>1, <2>2
<1>2. CASE ReadRefs(a)
  <2>1. UNCHANGED <<commands, history, refs, checkout, parent, quiet>>
    BY <1>2 DEF ReadRefs
  <2>2. /\ at' \in [Actors -> Places] /\ errand' \in [Actors -> Errands]
        /\ goal' \in [Actors -> Branches \cup {None}]
        /\ saw' \in [Actors -> [head : Made \cup {NoCommit}, tip : Made \cup {NoCommit}]]
    <3>1. CASE UNCHANGED <<saw, goal>> /\ (AlreadyOn(a) \/ NotAttached(a))
      BY <3>1, AttachedTypes DEF TypeOK
    <3>2. CASE Looks(a) /\ \E b \in Branches : SwitchTo(a, b)
      BY <3>2, <1>1, LooksTypes
    <3>3. CASE Remembers(a, "branching") \/ Remembers(a, "sliding")
      <4>1. at' \in [Actors -> Places] /\ errand' \in [Actors -> Errands]
        BY <3>3, GoingTypes DEF Remembers, Goes, Places, TypeOK
      <4> QED BY <4>1, <3>3, LooksTypes DEF Remembers, TypeOK
    <3> QED BY <1>2, <3>1, <3>2, <3>3 DEF ReadRefs
  <2> QED BY <2>1, <2>2, MadeKept DEF TypeOK, Head
<1>3. CASE Slide(a) \/ MakeMain(a)
  <2>1. UNCHANGED <<commands, history, remote, checkout, parent>> /\ quiet' \in BOOLEAN
    BY <1>3 DEF Slide, MakeMain, TypeOK
  <2>2. tip' \in [Branches -> Made \cup {NoCommit}] /\ Head' # NoCommit
    <3>1. CASE tip' = [tip EXCEPT ![Main] = saw[a].head]
      <4>1. saw[a].head \in Made
        BY <1>3 DEF Slide, MakeMain, AttachInv, AttachOf, TypeOK
      <4> QED BY <4>1, <3>1, <2>1 DEF TypeOK, Head
    <3>2. CASE UNCHANGED tip
      BY <3>2, <2>1 DEF TypeOK, Head
    <3> QED BY <1>3, <3>1, <3>2 DEF Slide, MakeMain
  <2>3. /\ at' \in [Actors -> Places] /\ errand' \in [Actors -> Errands]
        /\ goal' \in [Actors -> Branches \cup {None}]
        /\ saw' \in [Actors -> [head : Made \cup {NoCommit}, tip : Made \cup {NoCommit}]]
    <3>1. CASE SwitchTo(a, Main) /\ UNCHANGED saw
      BY <3>1, <1>1 DEF TypeOK
    <3>2. CASE NotAttached(a) /\ Forgets(a) /\ UNCHANGED goal
      BY <3>2, AttachedTypes, LooksTypes DEF TypeOK
    <3> QED BY <1>3, <3>1, <3>2 DEF Slide, MakeMain
  <2> QED BY <2>1, <2>2, <2>3, MadeKept DEF TypeOK
<1>4. CASE Switch(a)
  <2>1. UNCHANGED <<commands, history, refs, parent>> /\ quiet' \in BOOLEAN
    BY <1>4 DEF Switch, TypeOK
  <2>2. on' \in Branches \cup {None} /\ bare' \in Made \cup {NoCommit} /\ Head' # NoCommit
    BY <1>4, <2>1 DEF Switch, AttachInv, AttachOf, TypeOK, Head
  <2>3. goal' \in [Actors -> Branches \cup {None}]
    BY <1>4 DEF Switch, TypeOK
  <2>4. /\ at' \in [Actors -> Places] /\ errand' \in [Actors -> Errands]
        /\ saw' \in [Actors -> [head : Made \cup {NoCommit}, tip : Made \cup {NoCommit}]]
    BY <1>4, AttachedTypes, LooksTypes DEF Switch
  <2> QED BY <2>1, <2>2, <2>3, <2>4, MadeKept DEF TypeOK
<1> QED BY <1>2, <1>3, <1>4 DEF Attach

LEMMA TypeInit == Init => TypeOK
<1> SUFFICES ASSUME Init PROVE TypeOK
  OBVIOUS
<1>1. past \in [0 .. MaxCommits -> SUBSET Commits]
  BY CommitsAreNumbers DEF Init, Published, Commits
<1>2. made \in Upstream .. MaxCommits /\ Made = Published
  BY CommitsAreNumbers DEF Init, Made, Published
<1>0. remote \in Published
  BY DEF Init
<1>3. /\ \A n \in 0 .. remote : n \in Made \cup {NoCommit}
      /\ \A n \in 1 .. remote : n \in Made
  BY <1>2, <1>0, CommitsAreNumbers DEF Published, NoCommit
<1> USE CommitsAreNumbers DEF Init
<1>4. tip \in [Branches -> Made \cup {NoCommit}] /\ bare \in Made \cup {NoCommit}
  BY <1>3 DEF NoCommit
<1>5. on \in Branches \cup {None} /\ Head # NoCommit /\ Head \in Made \cup {NoCommit}
  BY <1>3, <1>4, NameFacts DEF Head, NoCommit
<1>6. /\ at \in [Actors -> Places] /\ errand \in [Actors -> Errands]
      /\ goal \in [Actors -> Branches \cup {None}]
  BY DEF Places, Errands
<1>7. saw \in [Actors -> [head : Made \cup {NoCommit}, tip : Made \cup {NoCommit}]]
  BY DEF Nothing
<1>8. pin = Head /\ before = NoCommit /\ commands = 0 /\ quiet = FALSE /\ replaced = {}
  OBVIOUS
<1>9. commands \in 0 .. MaxCommands
  BY <1>8
<1> QED BY <1>0, <1>1, <1>2, <1>4, <1>5, <1>6, <1>7, <1>8, <1>9 DEF TypeOK

LEMMA ReturnsTypes ==
  ASSUME TypeOK, Returns
  PROVE  /\ at' \in [Actors -> Places] /\ errand' \in [Actors -> Errands]
         /\ saw' \in [Actors -> [head : Made \cup {NoCommit}, tip : Made \cup {NoCommit}]]
         /\ before' \in Made \cup {NoCommit} /\ quiet' \in BOOLEAN
<1>1. "idle" \in Places /\ None \in Errands
  BY DEF Places, Errands
<1> QED BY <1>1, GoingTypes, LooksTypes, NameFacts DEF Returns, Idles

LEMMA FetchedTypes ==
  ASSUME TypeOK, NEW c PROVE Fetched(c) \in Published
BY NumberFacts DEF TypeOK, Fetched

LEMMA FollowTypes ==
  ASSUME TypeOK,
         TakePins \/ Operate \/ LookAtPin \/ CheckUnsaved \/ SetAside \/ Update \/ Report
  PROVE  TypeOK'
<1> USE NameFacts, NumberFacts DEF history, refs, checkout, parent, attaching
<1>1. ASSUME NEW place \in Places, Goes(Follow, place)
      PROVE  at' \in [Actors -> Places] /\ errand' \in [Actors -> Errands]
  BY <1>1, GoingTypes DEF TypeOK, Goes
<1>2. {"idle", "operating", "looking", "attaching", "setting_aside", "updating"} \subseteq Places
      /\ {None, "follow", "settle"} \subseteq Errands
  BY DEF Places, Errands
<1>3. CASE TakePins
  <2>1. /\ at' \in [Actors -> Places] /\ errand' \in [Actors -> Errands]
        /\ before' \in Made /\ quiet' \in BOOLEAN
    BY <1>1, <1>2, <1>3 DEF TakePins, TypeOK
  <2> QED BY <1>3, <2>1, CommandTypes, MadeKept DEF TakePins, TypeOK, Head
<1>4. CASE Operate
  <2>1. UNCHANGED <<commands, history, refs, checkout, goal>> /\ pin' \in Made
    BY <1>4 DEF Operate, TypeOK
  <2>2. /\ at' \in [Actors -> Places] /\ errand' \in [Actors -> Errands]
        /\ saw' \in [Actors -> [head : Made \cup {NoCommit}, tip : Made \cup {NoCommit}]]
        /\ before' \in Made \cup {NoCommit} /\ quiet' \in BOOLEAN
    BY <1>1, <1>2, <1>4, ReturnsTypes DEF Operate, TypeOK
  <2> QED BY <2>1, <2>2, MadeKept DEF TypeOK, Head
<1>5. CASE LookAtPin \/ CheckUnsaved \/ SetAside \/ Report
  <2>1. UNCHANGED <<commands, history, refs, checkout, pin, goal>>
    BY <1>5 DEF LookAtPin, CheckUnsaved, SetAside, Report
  <2>2. \/ Returns
        \/ /\ before' = before /\ quiet' = quiet
           /\ \/ GoesFor(Follow, "attaching", "follow") /\ UNCHANGED saw
              \/ Goes(Follow, "setting_aside") /\ (Looks(Follow) \/ Forgets(Follow))
              \/ Goes(Follow, "updating") /\ UNCHANGED saw
    BY <1>5 DEF LookAtPin, CheckUnsaved, SetAside, Report
  <2>3. /\ at' \in [Actors -> Places] /\ errand' \in [Actors -> Errands]
        /\ saw' \in [Actors -> [head : Made \cup {NoCommit}, tip : Made \cup {NoCommit}]]
        /\ before' \in Made \cup {NoCommit} /\ quiet' \in BOOLEAN
    BY <1>1, <1>2, <2>2, ReturnsTypes, GoingTypes, LooksTypes DEF TypeOK
  <2> QED BY <2>1, <2>3, MadeKept DEF TypeOK, Head
<1>6. CASE Update
  <2>1. UNCHANGED <<commands, history, tip, pin, goal>>
    BY <1>6 DEF Update
  <2>2. /\ at' \in [Actors -> Places] /\ errand' \in [Actors -> Errands]
        /\ saw' \in [Actors -> [head : Made \cup {NoCommit}, tip : Made \cup {NoCommit}]]
        /\ before' \in Made \cup {NoCommit} /\ quiet' \in BOOLEAN
    BY <1>2, <1>6, ReturnsTypes, GoingTypes, LooksTypes DEF Update, TypeOK
  <2>3. /\ remote' \in Published /\ on' \in Branches \cup {None}
        /\ bare' \in Made \cup {NoCommit} /\ Head' # NoCommit
    <3>1. CASE remote' \in {remote, Fetched(pin)} /\ UNCHANGED checkout
      BY <3>1, <2>1, FetchedTypes DEF TypeOK, Head
    <3>2. CASE CheckOutPin
      BY <3>2, <2>1, FetchedTypes DEF CheckOutPin, Detach, TypeOK, Head
    <3> QED BY <1>6, <3>1, <3>2 DEF Update
  <2> QED BY <2>1, <2>2, <2>3, MadeKept DEF TypeOK
<1> QED BY <1>3, <1>4, <1>5, <1>6

(* A new commit, of the user or of a pull that merges or rebases.          *)
NewCommit(P) ==
  /\ made < MaxCommits
  /\ made' = made + 1
  /\ past' = [past EXCEPT ![made'] = P \cup {made'}]

LEMMA NewCommitFacts ==
  ASSUME TypeOK, NEW P \in SUBSET Made, NewCommit(P)
  PROVE  /\ made' \in Upstream .. MaxCommits /\ made' # NoCommit
         /\ Made' = Made \cup {made'} /\ made' \notin Made
         /\ past' \in [0 .. MaxCommits -> SUBSET Commits]
         /\ past'[made'] = P \cup {made'}
         /\ \A c \in Made \cup {NoCommit} : past'[c] = past[c]
<1>1. /\ made' = made + 1 /\ made \in Nat /\ MaxCommits \in Nat /\ made < MaxCommits
      /\ Upstream \in Nat /\ made \in Upstream .. MaxCommits
  BY NumberFacts DEF NewCommit, TypeOK
<1>2. made' \in Upstream .. MaxCommits /\ made' # 0 /\ Made' = Made \cup {made'} /\ made' \notin Made
  BY <1>1 DEF Made
<1>3. made' \in Commits /\ made' \in 0 .. MaxCommits
  BY <1>1 DEF Commits
<1>4. Made \cup {NoCommit} \subseteq 0 .. MaxCommits
  BY NumberFacts DEF Commits, NoCommit
<1>5. P \cup {made'} \in SUBSET Commits
  BY <1>3, NumberFacts
<1>6. past' = [past EXCEPT ![made'] = P \cup {made'}] /\ past \in [0 .. MaxCommits -> SUBSET Commits]
  BY DEF NewCommit, TypeOK
<1>7. past' \in [0 .. MaxCommits -> SUBSET Commits] /\ past'[made'] = P \cup {made'}
  BY <1>3, <1>5, <1>6
<1>8. \A c \in Made \cup {NoCommit} : past'[c] = past[c]
  BY <1>2, <1>4, <1>6 DEF NoCommit
<1> QED BY <1>2, <1>7, <1>8 DEF NoCommit

(* Making one, without anything else moving but a branch or HEAD to it.    *)
Grows == Commit \/ ((Pull \/ Rebase) /\ made' # made)

(* What a rebase leaves behind on a branch has been replaced.              *)
Leaves(b, P) ==
  \/ past[tip[b]] \subseteq P /\ replaced' = replaced
  \/ /\ Rebase /\ b = Main /\ P = Published
     /\ replaced' = replaced \cup (past[tip[Main]] \ Published)

LEMMA GrowingTypes ==
  ASSUME TypeOK, HistoryInv, Grows
  PROVE  \E P \in SUBSET Made :
           /\ NewCommit(P)
           /\ \A d \in P : past[d] \subseteq P
           /\ \/ /\ tip' = tip /\ on' = None /\ on = None /\ bare' = made'
                 /\ past[bare] \subseteq P /\ replaced' = replaced
              \/ \E b \in Branches : /\ tip' = [tip EXCEPT ![b] = made']
                                     /\ Leaves(b, P)
                                     /\ bare' = bare /\ on' = on
<1> USE NameFacts, NumberFacts DEF history, refs, checkout, parent, attaching
<1>1. CASE Commit
  <2>1. past[Head] \in SUBSET Made /\ NewCommit(past[Head])
    BY <1>1 DEF Commit, NewCommit, HistoryInv
  <2>2. \A d \in past[Head] : past[d] \subseteq past[Head]
    BY DEF HistoryInv
  <2>3. \/ tip' = tip /\ on' = None /\ on = None /\ bare' = made' /\ bare = Head
        \/ /\ on \in Branches /\ tip' = [tip EXCEPT ![on] = made'] /\ tip[on] = Head
           /\ bare' = bare /\ on' = on
    BY <1>1 DEF Commit
  <2>4. replaced' = replaced
    BY <1>1 DEF Commit
  <2> QED BY <2>1, <2>2, <2>3, <2>4 DEF Leaves
<1>2. CASE Pull /\ made' # made
  <2> DEFINE P == past[tip[Main]] \cup Published
  <2>1. /\ made < MaxCommits /\ made' = made + 1
        /\ past' = [past EXCEPT ![made'] = past[tip[Main]] \cup Published \cup {made'}]
        /\ tip' = [tip EXCEPT ![Main] = made'] /\ UNCHANGED <<checkout, replaced>>
    BY <1>2 DEF Pull
  <2>2. NewCommit(P)
    BY <2>1 DEF NewCommit
  <2>3. tip[Main] \in Made \cup {NoCommit}
    BY DEF TypeOK
  <2>4. P \in SUBSET Made
    BY <2>3 DEF HistoryInv
  <2>5. \A d \in Published : past[d] \subseteq Published
    BY CommitsAreNumbers DEF HistoryInv, Published
  <2>6. \A d \in P : past[d] \subseteq P
    BY <2>3, <2>5 DEF HistoryInv
  <2>7. past[tip[Main]] \subseteq P
    OBVIOUS
  <2> HIDE DEF P
  <2> QED BY <2>1, <2>2, <2>4, <2>6, <2>7 DEF Leaves
<1>3. CASE Rebase /\ made' # made
  <2>1. /\ made < MaxCommits /\ made' = made + 1
        /\ past' = [past EXCEPT ![made'] = Published \cup {made'}]
        /\ tip' = [tip EXCEPT ![Main] = made'] /\ UNCHANGED checkout
        /\ replaced' = replaced \cup (past[tip[Main]] \ Published)
    BY <1>3 DEF Rebase
  <2>2. NewCommit(Published)
    BY <2>1 DEF NewCommit
  <2>3. \A d \in Published : past[d] \subseteq Published
    BY CommitsAreNumbers DEF HistoryInv, Published
  <2> QED BY <1>3, <2>1, <2>2, <2>3 DEF Leaves
<1> QED BY <1>1, <1>2, <1>3 DEF Grows

LEMMA GrownTypes ==
  ASSUME TypeOK, HistoryInv, Grows
  PROVE  TypeOK'
<1> USE NameFacts, NumberFacts
<1>1. PICK P \in SUBSET Made :
           /\ NewCommit(P)
           /\ \/ /\ tip' = tip /\ on' = None /\ on = None /\ bare' = made'
                 /\ replaced' = replaced
              \/ \E b \in Branches : /\ tip' = [tip EXCEPT ![b] = made']
                                     /\ Leaves(b, P)
                                     /\ bare' = bare /\ on' = on
  BY GrowingTypes
<1>2. /\ made' \in Upstream .. MaxCommits /\ made' # NoCommit
      /\ Made' = Made \cup {made'}
      /\ past' \in [0 .. MaxCommits -> SUBSET Commits]
  BY <1>1, NewCommitFacts
<1>3. /\ tip' \in [Branches -> Made' \cup {NoCommit}]
      /\ on' \in Branches \cup {None} /\ bare' \in Made' \cup {NoCommit} /\ Head' # NoCommit
  <2>1. /\ tip \in [Branches -> Made' \cup {NoCommit}] /\ made' \in Made'
        /\ on \in Branches \cup {None} /\ bare \in Made' \cup {NoCommit}
    BY <1>2 DEF TypeOK
  <2>2. CASE tip' = tip /\ on' = None /\ bare' = made'
    BY <2>1, <2>2, <1>2 DEF Head
  <2>3. ASSUME NEW b \in Branches, tip' = [tip EXCEPT ![b] = made'], bare' = bare, on' = on
        PROVE  tip' \in [Branches -> Made' \cup {NoCommit}] /\ Head' # NoCommit
    <3>1. tip' \in [Branches -> Made' \cup {NoCommit}]
      BY <2>1, <2>3
    <3>2. on # None => tip'[on] \in {made', tip[on]}
      BY <2>1, <2>3
    <3> QED BY <3>1, <3>2, <2>3, <1>2 DEF Head
  <2> QED BY <1>1, <2>1, <2>2, <2>3
<1>4. /\ UNCHANGED <<commands, parent, attaching>> /\ quiet' = FALSE
      /\ remote' \in Published
  <2>1. CASE Commit
    BY <2>1 DEF Commit, TypeOK
  <2>2. CASE Pull
    BY <2>2 DEF Pull, TypeOK, refs
  <2>3. CASE Rebase
    BY <2>3 DEF Rebase, TypeOK, refs
  <2> QED BY <2>1, <2>2, <2>3 DEF Grows
<1>7. replaced' \subseteq Made' \ Published
  <2>1. replaced' = replaced \/ replaced' = replaced \cup (past[tip[Main]] \ Published)
    BY <1>1 DEF Leaves
  <2>2. past[tip[Main]] \subseteq Made
    BY DEF HistoryInv, TypeOK
  <2>3. replaced \subseteq Made \ Published
    BY DEF TypeOK
  <2> QED BY <1>2, <2>1, <2>2, <2>3
<1>5. at' \in [Actors -> Places] /\ errand' \in [Actors -> Errands]
  <2>1. "idle" \in Places /\ None \in Errands
    BY DEF Places, Errands
  <2>2. CASE Commit
    BY <2>2 DEF Commit, TypeOK
  <2>3. CASE Pull \/ Rebase
    BY <2>1, <2>3, GoingTypes DEF Pull, Rebase, Idles
  <2> QED BY <2>2, <2>3 DEF Grows
<1>6. saw' \in [Actors -> [head : Made' \cup {NoCommit}, tip : Made' \cup {NoCommit}]]
  <2>1. Made \cup {NoCommit} \subseteq Made' \cup {NoCommit}
    BY <1>2
  <2>2. [head : Made \cup {NoCommit}, tip : Made \cup {NoCommit}]
          \subseteq [head : Made' \cup {NoCommit}, tip : Made' \cup {NoCommit}]
    BY <2>1
  <2>3. saw \in [Actors -> [head : Made \cup {NoCommit}, tip : Made \cup {NoCommit}]]
    BY DEF TypeOK
  <2> QED BY <2>2, <2>3, <1>4 DEF attaching
<1> QED BY <1>2, <1>3, <1>4, <1>5, <1>6, <1>7 DEF TypeOK, parent, attaching

LEMMA TabTypes ==
  ASSUME TypeOK, StartPull \/ Measure \/ Pull \/ Rebase \/ SnapBack \/ Bump \/ StageBump, UNCHANGED made
  PROVE  TypeOK'
<1> USE NameFacts, NumberFacts DEF history, refs, checkout, parent, attaching
<1>1. {"idle", "attaching", "pulling"} \subseteq Places
      /\ {None, "pull", "snap", "bump"} \subseteq Errands
  BY DEF Places, Errands
<1>2. ASSUME NEW c \in Made
      PROVE  (IF Head = c THEN UNCHANGED checkout ELSE Detach(c))
             /\ UNCHANGED tip
             => on' \in Branches \cup {None} /\ bare' \in Made \cup {NoCommit} /\ Head' # NoCommit
  BY DEF Detach, TypeOK, Head
<1>3. CASE StartPull
  <2>1. at' \in [Actors -> Places] /\ errand' \in [Actors -> Errands]
    BY <1>1, <1>3, GoingTypes DEF StartPull
  <2> QED BY <1>3, <2>1, CommandTypes, MadeKept DEF StartPull, TypeOK, Head
<1>4. CASE Measure
  <2>1. at' \in [Actors -> Places] /\ errand' \in [Actors -> Errands]
    BY <1>1, <1>4, GoingTypes DEF Measure, Goes, Idles, TypeOK
  <2> QED BY <1>4, <2>1, MadeKept DEF Measure, TypeOK, Head
<1>5. CASE Pull
  <2>1. at' \in [Actors -> Places] /\ errand' \in [Actors -> Errands]
    BY <1>1, <1>5, GoingTypes DEF Pull, Idles
  <2>2. UNCHANGED <<commands, checkout, parent, attaching>> /\ quiet' \in BOOLEAN
    BY <1>5 DEF Pull
  <2>3. UNCHANGED <<past, replaced>> /\ remote' \in Published
    BY <1>5 DEF Pull, TypeOK
  <2>4. tip' = tip \/ tip' = [tip EXCEPT ![Main] = Upstream]
    BY <1>5 DEF Pull, TypeOK
  <2>5. tip' \in [Branches -> Made \cup {NoCommit}] /\ Head' # NoCommit
    BY <2>2, <2>4 DEF TypeOK, Head
  <2> QED BY <2>1, <2>2, <2>3, <2>5, MadeKept DEF TypeOK
<1>9. CASE Rebase
  <2>1. at' \in [Actors -> Places] /\ errand' \in [Actors -> Errands]
    BY <1>1, <1>9, GoingTypes DEF Rebase, Idles
  <2>2. /\ UNCHANGED <<commands, parent, attaching, history, tip>> /\ quiet' \in BOOLEAN
        /\ Detach(Upstream) /\ remote' \in Published
    <3>1. made' # made + 1
      BY <1>9
    <3> QED BY <1>9, <3>1 DEF Rebase, Detach
  <2>3. on' \in Branches \cup {None} /\ bare' \in Made \cup {NoCommit} /\ Head' # NoCommit
    BY <2>2 DEF Detach, Head
  <2> QED BY <2>1, <2>2, <2>3, MadeKept DEF TypeOK
<1>6. CASE SnapBack
  <2>1. at' \in [Actors -> Places] /\ errand' \in [Actors -> Errands]
    BY <1>1, <1>6, GoingTypes DEF SnapBack
  <2>2. on' \in Branches \cup {None} /\ bare' \in Made \cup {NoCommit} /\ Head' # NoCommit
    BY <1>2, <1>6 DEF SnapBack, CheckOutPin, TypeOK
  <2>3. remote' \in Published
    BY <1>6, FetchedTypes DEF SnapBack, CheckOutPin
  <2> QED BY <1>6, <2>1, <2>2, <2>3, CommandTypes, MadeKept DEF SnapBack, TypeOK
<1>7. CASE Bump
  <2>1. at' \in [Actors -> Places] /\ errand' \in [Actors -> Errands]
    BY <1>1, <1>7, GoingTypes DEF Bump
  <2>2. on' \in Branches \cup {None} /\ bare' \in Made \cup {NoCommit} /\ Head' # NoCommit
    BY <1>2, <1>7 DEF Bump
  <2> QED BY <1>7, <2>1, <2>2, CommandTypes, MadeKept DEF Bump, TypeOK
<1>8. CASE StageBump
  <2>1. at' \in [Actors -> Places] /\ errand' \in [Actors -> Errands]
    BY <1>1, <1>8, GoingTypes DEF StageBump, Idles
  <2>2. pin' \in Made
    BY <1>8 DEF StageBump, TypeOK
  <2> QED BY <1>8, <2>1, <2>2, MadeKept DEF StageBump, TypeOK, Head
<1> QED BY <1>3, <1>4, <1>5, <1>6, <1>7, <1>8, <1>9

LEMMA OtherTypes ==
  ASSUME TypeOK, HistoryInv,
         \/ ParentStep \/ MakeBranch \/ StagePin
         \/ \E b \in Branches : TakeBranch(b)
         \/ \E c \in Commits : CheckOutCommit(c)
  PROVE  TypeOK'
<1> USE NameFacts, NumberFacts DEF history, refs, checkout, parent, attaching
<1>1. CASE ParentStep
  <2>1. /\ UNCHANGED <<history, tip, before, at, errand, attaching>> /\ quiet' = FALSE
        /\ pin' \in Made /\ Begins /\ Sync
    BY <1>1 DEF ParentStep, MergeInParent, RewindParent, TypeOK
  <2>2. /\ remote' \in Published /\ on' \in Branches \cup {None}
        /\ bare' \in Made \cup {NoCommit} /\ Head' # NoCommit
    <3>1. CASE UNCHANGED <<remote, checkout>>
      BY <3>1, <2>1 DEF TypeOK, Head
    <3>2. CASE remote' = Fetched(pin') /\ Detach(pin')
      BY <3>2, <2>1, FetchedTypes DEF Detach, TypeOK, Head
    <3> QED BY <2>1, <3>1, <3>2 DEF Sync
  <2> QED BY <2>1, <2>2, CommandTypes, MadeKept DEF TypeOK
<1>2. CASE StagePin
  BY <1>2, CommandTypes, MadeKept DEF StagePin, TypeOK, Head
<1>3. CASE MakeBranch
  <2>1. /\ tip' \in [Branches -> Made \cup {NoCommit}] /\ on' = "own" /\ bare' = NoCommit
        /\ Head' # NoCommit
    BY <1>3 DEF MakeBranch, TypeOK, Head, None
  <2> QED BY <1>3, <2>1, CommandTypes, MadeKept DEF MakeBranch, TypeOK
<1>4. ASSUME NEW b \in Branches, TakeBranch(b) PROVE TypeOK'
  <2>1. on' \in Branches /\ bare' = NoCommit /\ Head' # NoCommit
    BY <1>4 DEF TakeBranch, Head
  <2> QED BY <1>4, <2>1, CommandTypes, MadeKept DEF TakeBranch, TypeOK
<1>5. ASSUME NEW c \in Commits, CheckOutCommit(c) PROVE TypeOK'
  <2>1. c \in Made
    <3>1. c \in past[remote] \/ c \in Made
      BY <1>5 DEF CheckOutCommit, Known
    <3>2. remote \in Made
      BY DEF TypeOK
    <3> QED BY <3>1, <3>2 DEF HistoryInv
  <2>2. on' = None /\ bare' = c /\ Head' # NoCommit
    BY <1>5, <2>1 DEF CheckOutCommit, Detach, Head
  <2> QED BY <1>5, <2>1, <2>2, CommandTypes, MadeKept DEF CheckOutCommit, TypeOK
<1> QED BY <1>1, <1>2, <1>3, <1>4, <1>5

LEMMA TypeStep == Inv /\ [Next]_vars => TypeOK'
<1> SUFFICES ASSUME Inv, [Next]_vars PROVE TypeOK'
  OBVIOUS
<1> USE DEF Inv
<1>1. CASE Attach(Follow) \/ Attach(Tab)
  BY <1>1, AttachTypes, NameFacts
<1>2. CASE TakePins \/ Operate \/ LookAtPin \/ CheckUnsaved \/ SetAside \/ Update \/ Report
  BY <1>2, FollowTypes
<1>3. CASE StartPull \/ Measure \/ SnapBack \/ Bump \/ StageBump
  <2>1. UNCHANGED made
    BY <1>3 DEF StartPull, Measure, SnapBack, Bump, StageBump, history
  <2> QED BY <1>3, <2>1, TabTypes
<1>4. CASE Pull \/ Rebase
  BY <1>4, TabTypes, GrownTypes DEF Grows
<1>5. CASE Commit
  BY <1>5, GrownTypes DEF Grows
<1>6. CASE \/ ParentStep \/ MakeBranch \/ StagePin
           \/ \E b \in Branches : TakeBranch(b)
           \/ \E c \in Commits : CheckOutCommit(c)
  BY <1>6, OtherTypes
<1>7. CASE UNCHANGED vars
  BY <1>7, MadeKept DEF TypeOK, Head, vars, history, refs, checkout, parent, attaching
<1> QED BY <1>1, <1>2, <1>3, <1>4, <1>5, <1>6, <1>7 DEF Next, FollowStep, TabStep, UserStep

-----------------------------------------------------------------------------
(* Everything moves forward.                                               *)

Stands == UNCHANGED <<history, tip>> /\ remote' \in {remote, Upstream}

LEMMA WhatStands ==
  ASSUME TypeOK, [Next]_vars
  PROVE  \/ Stands \/ Commit \/ Pull \/ Rebase \/ MakeBranch
         \/ \E a \in Actors : Slide(a) \/ MakeMain(a)
<1> USE DEF Stands, history, refs
<1>1. CASE Attach(Follow) \/ Attach(Tab)
  BY <1>1, NameFacts DEF Attach, ReadRefs, Switch
<1>2. CASE TakePins \/ Operate \/ LookAtPin \/ CheckUnsaved \/ SetAside \/ Report
  BY <1>2 DEF TakePins, Operate, LookAtPin, CheckUnsaved, SetAside, Report
<1>3. CASE Update
  BY <1>3 DEF Update, CheckOutPin, Fetched
<1>4. CASE StartPull \/ Measure \/ StageBump
  BY <1>4 DEF StartPull, Measure, StageBump
<1>5. CASE SnapBack \/ Bump
  BY <1>5 DEF SnapBack, Bump, CheckOutPin, Fetched
<1>6. CASE ParentStep
  BY <1>6 DEF ParentStep, MergeInParent, RewindParent, Sync, Fetched
<1>7. CASE StagePin \/ (\E b \in Branches : TakeBranch(b)) \/ \E c \in Commits : CheckOutCommit(c)
  BY <1>7 DEF StagePin, TakeBranch, CheckOutCommit
<1>8. CASE UNCHANGED vars
  BY <1>8 DEF vars
<1> QED BY <1>1, <1>2, <1>3, <1>4, <1>5, <1>6, <1>7, <1>8 DEF Next, FollowStep, TabStep, UserStep

Advances(b) ==
  \/ past[tip[b]] \subseteq past'[tip'[b]]
  \/ Rebase /\ b = Main /\ past[tip[b]] \cap Published \subseteq past'[tip'[b]]

Forward ==
  /\ Made \subseteq Made'
  /\ \A c \in Made \cup {NoCommit} : past'[c] = past[c]
  /\ replaced \subseteq replaced'
  /\ past[remote] \subseteq past'[remote']
  /\ \A b \in Branches : /\ Advances(b)
                         /\ past[tip[b]] \subseteq past'[tip'[b]] \cup replaced'
                         /\ tip[b] # NoCommit => tip'[b] # NoCommit

LEMMA RemoteForward ==
  ASSUME TypeOK, HistoryInv PROVE past[remote] \subseteq past[Upstream]
<1>1. /\ remote \in Published /\ Upstream \in Published
      /\ past[remote] = 1 .. remote /\ past[Upstream] = 1 .. Upstream
  BY NumberFacts DEF TypeOK, HistoryInv
<1> QED BY <1>1, CommitsAreNumbers DEF Published

LEMMA ForwardStep == Inv /\ [Next]_vars => Forward
<1> SUFFICES ASSUME Inv, [Next]_vars PROVE Forward
  OBVIOUS
<1> USE NameFacts, NumberFacts, RemoteForward DEF Inv
<1>0. \A b \in Branches : tip[b] \in Made \cup {NoCommit}
  BY DEF TypeOK
<1>1. CASE Stands
  BY <1>1, MadeKept DEF Stands, Forward, Advances, history
<1>2. CASE Grows
  <2>1. PICK P \in SUBSET Made :
           /\ NewCommit(P)
           /\ \/ tip' = tip /\ replaced' = replaced
              \/ \E b \in Branches : tip' = [tip EXCEPT ![b] = made'] /\ Leaves(b, P)
    BY <1>2, GrowingTypes
  <2>2. /\ made' # NoCommit /\ Made' = Made \cup {made'}
        /\ past'[made'] = P \cup {made'} /\ \A c \in Made \cup {NoCommit} : past'[c] = past[c]
    BY <2>1, NewCommitFacts
  <2>3. remote' \in {remote, Upstream}
    BY <1>2 DEF Grows, Commit, Pull, Rebase, refs
  <2>4. past[remote] \subseteq past'[remote']
    <3>1. remote \in Made /\ Upstream \in Made
      BY DEF TypeOK
    <3>2. past'[remote'] = past[remote']
      BY <2>2, <2>3, <3>1
    <3> QED BY <2>3, <3>2
  <2>5. \A b \in Branches : tip'[b] = tip[b] \/ (tip'[b] = made' /\ Leaves(b, P))
    BY <2>1 DEF TypeOK
  <2>6. \A b \in Branches : /\ Advances(b)
                            /\ past[tip[b]] \subseteq past'[tip'[b]] \cup replaced'
                            /\ tip[b] # NoCommit => tip'[b] # NoCommit
    BY <1>0, <2>2, <2>5 DEF Advances, Leaves
  <2>7. replaced \subseteq replaced'
    BY <2>1 DEF Leaves
  <2> QED BY <2>2, <2>4, <2>6, <2>7 DEF Forward
<1>3. CASE Pull /\ UNCHANGED made
  <2>1. UNCHANGED history /\ remote' \in {remote, Upstream}
    <3>1. made' # made + 1
      BY <1>3
    <3> QED BY <1>3, <3>1 DEF Pull, history, refs
  <2>2. tip' = tip \/ (tip' = [tip EXCEPT ![Main] = Upstream] /\ tip[Main] \in past[Upstream])
    <3>1. made' # made + 1
      BY <1>3
    <3> QED BY <1>3, <3>1 DEF Pull, Descends, refs
  <2>3. tip[Main] \in past[Upstream] => past[tip[Main]] \subseteq past[Upstream]
    BY DEF HistoryInv
  <2>4. \A b \in Branches : \/ tip'[b] = tip[b]
                            \/ tip'[b] = Upstream /\ past[tip[b]] \subseteq past[Upstream]
    BY <2>2, <2>3 DEF TypeOK
  <2> QED BY <2>1, <2>4, MadeKept DEF Forward, Advances, history
<1>6. CASE Rebase /\ UNCHANGED made
  <2>1. UNCHANGED <<history, tip>> /\ remote' \in {remote, Upstream}
    <3>1. made' # made + 1
      BY <1>6
    <3> QED BY <1>6, <3>1 DEF Rebase
  <2> QED BY <1>1, <2>1 DEF Stands
<1>4. CASE MakeBranch
  <2>1. UNCHANGED <<history, remote>> /\ tip["own"] = NoCommit
    BY <1>4 DEF MakeBranch
  <2>2. \A b \in Branches \ {"own"} : tip'[b] = tip[b]
    BY <1>4 DEF MakeBranch, TypeOK
  <2> QED BY <2>1, <2>2, MadeKept DEF Forward, Advances, history, HistoryInv
<1>5. ASSUME NEW a \in Actors, Slide(a) \/ MakeMain(a) PROVE Forward
  <2>1. UNCHANGED <<history, remote>>
    BY <1>5 DEF Slide, MakeMain
  <2>2. \/ tip' = tip
        \/ /\ tip' = [tip EXCEPT ![Main] = saw[a].head]
           /\ past[tip[Main]] \subseteq past[saw[a].head]
           /\ saw[a].head # NoCommit
    <3>1. CASE Slide(a)
      <4>1. saw[a].head \in Made /\ saw[a].tip \in past[saw[a].head]
        BY <3>1 DEF Slide, AttachInv, AttachOf, TypeOK, Descends
      <4>2. past[saw[a].tip] \subseteq past[saw[a].head]
        BY <4>1 DEF HistoryInv
      <4> QED BY <3>1, <4>1, <4>2 DEF Slide, SlideFrom
    <3>2. CASE MakeMain(a)
      BY <3>2 DEF MakeMain, AttachInv, AttachOf, HistoryInv
    <3> QED BY <1>5, <3>1, <3>2
  <2>3. \A b \in Branches : \/ tip'[b] = tip[b]
                            \/ /\ tip'[b] = saw[a].head /\ saw[a].head # NoCommit
                               /\ past[tip[b]] \subseteq past[saw[a].head]
    BY <2>2 DEF TypeOK
  <2> QED BY <2>1, <2>3, MadeKept DEF Forward, Advances, history
<1> QED BY <1>1, <1>2, <1>3, <1>4, <1>5, <1>6, WhatStands DEF Grows

LEMMA HistoryStep == Inv /\ [Next]_vars => HistoryInv'
<1> SUFFICES ASSUME Inv, [Next]_vars PROVE HistoryInv'
  OBVIOUS
<1> USE NameFacts, NumberFacts DEF Inv
<1>1. CASE UNCHANGED history
  BY <1>1, MadeKept DEF HistoryInv, history
<1>2. CASE Grows
  <2>1. PICK P \in SUBSET Made : NewCommit(P) /\ \A d \in P : past[d] \subseteq P
    BY <1>2, GrowingTypes
  <2>2. /\ Made' = Made \cup {made'} /\ made' \notin Made
        /\ past'[made'] = P \cup {made'} /\ \A c \in Made \cup {NoCommit} : past'[c] = past[c]
    BY <2>1, NewCommitFacts
  <2>3. past'[NoCommit] = {} /\ \A c \in Published : past'[c] = 1 .. c
    BY <2>2 DEF HistoryInv
  <2>4. \A c \in Made' : c \in past'[c] /\ past'[c] \subseteq Made'
    BY <2>2 DEF HistoryInv
  <2>5. ASSUME NEW c \in Made', NEW d \in past'[c]
        PROVE  past'[d] \subseteq past'[c]
    <3>1. CASE c \in Made
      BY <3>1, <2>2, <2>5 DEF HistoryInv
    <3>2. CASE c = made' /\ d = made'
      BY <3>2
    <3>3. CASE c = made' /\ d \in P
      BY <3>3, <2>1, <2>2
    <3> QED BY <2>2, <2>5, <3>1, <3>2, <3>3
  <2> QED BY <2>3, <2>4, <2>5 DEF HistoryInv
<1>3. UNCHANGED history \/ Grows
  <2>1. Pull \/ Rebase => UNCHANGED history \/ made' = made + 1
    BY DEF Pull, Rebase
  <2>2. made + 1 # made
    OBVIOUS
  <2> QED BY <2>1, <2>2, WhatStands DEF Grows, Stands, MakeBranch, Slide, MakeMain
<1> QED BY <1>1, <1>2, <1>3

(* What was saved stays saved, or is made again.                           *)
LEMMA SavedStays ==
  ASSUME Inv, Forward, TypeOK', HistoryInv', NEW c \in Made, Saved(c)
  PROVE  Saved(c)' \/ c \in replaced'
BY DEF Saved, Forward

(* A saved commit has its whole history saved.                             *)
LEMMA SavedWithHistory ==
  ASSUME Inv, NEW c \in Made, Saved(c), NEW d \in past[c]
  PROVE  Saved(d)
<1>1. remote \in Made /\ \A b \in Branches : tip[b] \in Made \cup {NoCommit}
  BY NumberFacts DEF Inv, TypeOK
<1> QED BY <1>1 DEF Inv, HistoryInv, Saved

(* An actor that does nothing keeps what it remembers.                     *)
LEMMA AttachRests ==
  ASSUME Inv, Forward, TypeOK', HistoryInv', NEW a \in Actors,
         at'[a] = at[a], saw'[a] = saw[a], goal'[a] = goal[a]
  PROVE  AttachOf(a)'
<1>1. AttachOf(a)
  BY DEF Inv, AttachInv
<1>2. PICK h \in Made \cup {NoCommit}, t \in Made \cup {NoCommit}, b \in Branches \cup {None} :
        saw[a].head = h /\ saw[a].tip = t /\ goal[a] = b
  BY DEF Inv, TypeOK
<1>3. saw'[a].head = h /\ saw'[a].tip = t /\ goal'[a] = b
  BY <1>2
<1>4. past'[h] = past[h]
  BY <1>2 DEF Forward
<1>5. at[a] \in {"setting_aside", "updating"} =>
        \A d \in past[h] : Saved(d)' \/ d \in replaced'
  <2>1. ASSUME at[a] \in {"setting_aside", "updating"}, NEW d \in past[h]
        PROVE  d \in Made /\ (Saved(d) \/ d \in replaced)
    BY <1>1, <1>2, <2>1 DEF AttachOf, Inv, HistoryInv
  <2>2. replaced \subseteq replaced'
    BY DEF Forward
  <2> QED BY <2>1, <2>2, SavedStays
<1>6. at[a] = "switching" =>
        b # None /\ tip'[b] # NoCommit /\ past[h] \subseteq past'[tip'[b]] \cup replaced'
  BY <1>1, <1>2 DEF AttachOf, Forward
<1>7. at[a] = "sliding" => t # NoCommit /\ t \in past[h]
  BY <1>1, <1>2 DEF AttachOf, Descends
<1>8. at[a] \in {"branching", "sliding", "switching"} => h # NoCommit
  BY <1>1, <1>2 DEF AttachOf
<1> QED BY <1>3, <1>4, <1>5, <1>6, <1>7, <1>8 DEF AttachOf, Descends, Saved

LEMMA AttachIdles ==
  ASSUME NEW a \in Actors,
         at'[a] \notin {"branching", "sliding", "switching", "setting_aside", "updating"}
  PROVE  AttachOf(a)'
BY DEF AttachOf

Remembering == {"branching", "sliding", "switching", "setting_aside", "updating"}

LEMMA SwitchToFacts ==
  ASSUME TypeOK, NEW a \in Actors, NEW b \in Branches, SwitchTo(a, b)
  PROVE  /\ at'[a] = "switching" /\ goal'[a] = b /\ errand' = errand
         /\ \A o \in Actors \ {a} : at'[o] = at[o] /\ goal'[o] = goal[o]
BY DEF SwitchTo, Goes, GoesFor, TypeOK

LEMMA LooksFacts ==
  ASSUME TypeOK, NEW a \in Actors, Looks(a) \/ Forgets(a)
  PROVE  /\ Looks(a) => saw'[a].head = Head /\ saw'[a].tip = tip[Main]
         /\ \A o \in Actors \ {a} : saw'[o] = saw[o]
BY DEF Looks, Forgets, TypeOK

(* Where the look of an attach leads.                                      *)
LEMMA ReadRefsLeads ==
  ASSUME TypeOK, NEW a \in Actors, ReadRefs(a)
  PROVE  /\ \A o \in Actors \ {a} : at'[o] = at[o] /\ saw'[o] = saw[o] /\ goal'[o] = goal[o]
         /\ \/ at'[a] \notin Remembering
            \/ /\ errand' = errand /\ on = None
               /\ saw'[a].head = Head /\ saw'[a].tip = tip[Main]
               /\ \/ /\ at'[a] = "switching" /\ goal'[a] \in HereAlready
                  \/ /\ at'[a] = "switching" /\ goal'[a] = Main /\ tip[Main] # NoCommit
                     /\ Descends(tip[Main], Head) /\ MayMove(a)
                  \/ at'[a] = "branching"
                  \/ at'[a] = "sliding" /\ tip[Main] # NoCommit /\ Descends(Head, tip[Main])
<1> USE NameFacts
<1>1. CASE UNCHANGED <<saw, goal>> /\ (AlreadyOn(a) \/ NotAttached(a))
  BY <1>1, AttachedTypes DEF Remembering
<1>2. CASE /\ on = None /\ HereAlready # {}
           /\ SwitchTo(a, IF Main \in HereAlready THEN Main ELSE "own") /\ Looks(a)
  <2>1. PICK b \in HereAlready : b \in Branches /\ SwitchTo(a, b)
    <3>1. CASE Main \in HereAlready
      BY <1>2, <3>1
    <3>2. CASE Main \notin HereAlready
      <4>1. HereAlready = {"own"}
        BY <1>2, <3>2 DEF HereAlready, Branches
      <4> QED BY <1>2, <3>2, <4>1
    <3> QED BY <3>1, <3>2
  <2> QED BY <1>2, <2>1, SwitchToFacts, LooksFacts
<1>3. CASE Remembers(a, "branching") /\ on = None
  <2>1. /\ at'[a] = "branching" /\ errand' = errand /\ UNCHANGED goal
        /\ \A o \in Actors \ {a} : at'[o] = at[o]
    BY <1>3 DEF Remembers, Goes, GoesFor, TypeOK
  <2> QED BY <1>3, <2>1, LooksFacts DEF Remembers
<1>4. CASE /\ Remembers(a, "sliding") /\ on = None
           /\ tip[Main] # NoCommit /\ Descends(Head, tip[Main])
  <2>1. /\ at'[a] = "sliding" /\ errand' = errand /\ UNCHANGED goal
        /\ \A o \in Actors \ {a} : at'[o] = at[o]
    BY <1>4 DEF Remembers, Goes, GoesFor, TypeOK
  <2> QED BY <1>4, <2>1, LooksFacts DEF Remembers
<1>5. CASE /\ on = None /\ tip[Main] # NoCommit /\ Descends(tip[Main], Head) /\ MayMove(a)
           /\ SwitchTo(a, Main) /\ Looks(a)
  BY <1>5, SwitchToFacts, LooksFacts
<1> QED BY <1>1, <1>2, <1>3, <1>4, <1>5 DEF ReadRefs

(* A step of an attach leaves its actor with what the next one needs.      *)
LEMMA AttachingKeepsAttach ==
  ASSUME Inv, Forward, TypeOK', HistoryInv', NEW a \in Actors, Attach(a)
  PROVE  AttachInv'
<1> USE NameFacts, NumberFacts DEF Inv
<1>1. SUFFICES /\ \A o \in Actors \ {a} : at'[o] = at[o] /\ saw'[o] = saw[o] /\ goal'[o] = goal[o]
               /\ AttachOf(a)'
  BY AttachRests DEF AttachInv
<1>2. CASE ReadRefs(a)
  <2>1. \A o \in Actors \ {a} : at'[o] = at[o] /\ saw'[o] = saw[o] /\ goal'[o] = goal[o]
    BY <1>2, ReadRefsLeads
  <2>2. CASE at'[a] \notin Remembering
    BY <2>1, <2>2, AttachIdles DEF Remembering
  <2>3. CASE at'[a] \in Remembering
    <3>1. /\ saw'[a].head = Head /\ saw'[a].tip = tip[Main] /\ Head # NoCommit
          /\ at'[a] \in {"branching", "sliding", "switching"}
      BY <1>2, <2>3, ReadRefsLeads DEF TypeOK
    <3>2. UNCHANGED <<past, tip>>
      BY <1>2 DEF ReadRefs, history, refs
    <3>3. at'[a] = "sliding" => tip[Main] # NoCommit /\ Descends(Head, tip[Main])
      BY <1>2, <2>3, ReadRefsLeads
    <3>4. at'[a] = "switching" =>
            /\ goal'[a] \in Branches
            /\ tip[goal'[a]] # NoCommit /\ past[Head] \subseteq past[tip[goal'[a]]]
      <4>1. Descends(tip[Main], Head) => past[Head] \subseteq past[tip[Main]]
        BY DEF Descends, HistoryInv, TypeOK
      <4> QED BY <1>2, <2>3, <4>1, ReadRefsLeads DEF HereAlready, TypeOK
    <3> QED BY <2>1, <3>1, <3>2, <3>3, <3>4 DEF AttachOf, Descends
  <2> QED BY <2>2, <2>3
<1>3. CASE Slide(a) \/ MakeMain(a)
  <2>1. CASE NotAttached(a) /\ Forgets(a) /\ UNCHANGED goal
    BY <2>1, AttachedTypes, LooksFacts, AttachIdles
  <2>2. CASE SwitchTo(a, Main) /\ UNCHANGED saw /\ tip' = [tip EXCEPT ![Main] = saw[a].head]
    <3>1. /\ at'[a] = "switching" /\ goal'[a] = Main
          /\ \A o \in Actors \ {a} : at'[o] = at[o] /\ goal'[o] = goal[o]
      BY <2>2, SwitchToFacts
    <3>2. saw[a].head # NoCommit
      BY <1>3 DEF Slide, MakeMain, AttachInv, AttachOf
    <3>3. tip'[Main] = saw[a].head /\ saw' = saw
      BY <2>2 DEF TypeOK
    <3> QED BY <3>1, <3>2, <3>3 DEF AttachOf
  <2> QED BY <1>3, <2>1, <2>2 DEF Slide, MakeMain
<1>4. CASE Switch(a)
  <2>1. \A o \in Actors \ {a} : at'[o] = at[o] /\ saw'[o] = saw[o] /\ goal'[o] = goal[o]
    BY <1>4, AttachedTypes, LooksFacts DEF Switch, TypeOK
  <2> QED BY <1>4, <2>1, AttachedTypes, AttachIdles DEF Switch
<1> QED BY <1>2, <1>3, <1>4 DEF Attach

LEMMA AttachStep == Inv /\ [Next]_vars => AttachInv'
<1> SUFFICES ASSUME Inv, [Next]_vars PROVE AttachInv'
  OBVIOUS
<1>0. Forward /\ TypeOK' /\ HistoryInv'
  BY ForwardStep, TypeStep, HistoryStep
<1> USE <1>0, NameFacts, NumberFacts
<1>1. CASE Attach(Follow) \/ Attach(Tab)
  BY <1>1, AttachingKeepsAttach
<1>2. ASSUME NEW a \in Actors, NEW place \in Places, NEW what \in Errands,
             GoesFor(a, place, what), goal' = goal,
             \A o \in Actors \ {a} : saw'[o] = saw[o]
      PROVE  \A o \in Actors \ {a} : AttachOf(o)'
  <2>1. \A o \in Actors \ {a} : at'[o] = at[o] /\ goal'[o] = goal[o]
    BY <1>2 DEF GoesFor, Inv, TypeOK
  <2> QED BY <1>2, <2>1, AttachRests
<1>3. CASE UNCHANGED <<at, saw, goal>>
  BY <1>3, AttachRests DEF AttachInv
<1>4. ASSUME NEW a \in Actors, NEW place \in Places \ Remembering, NEW what \in Errands,
             GoesFor(a, place, what), goal' = goal,
             \A o \in Actors \ {a} : saw'[o] = saw[o]
      PROVE  AttachInv'
  <2>1. at'[a] = place
    BY <1>4 DEF GoesFor, Inv, TypeOK
  <2>2. AttachOf(a)'
    BY <1>4, <2>1, AttachIdles DEF Remembering
  <2> QED BY <1>2, <1>4, <2>2 DEF AttachInv
<1>5. ASSUME Returns, goal' = goal PROVE AttachInv'
  <2>1. "idle" \in Places \ Remembering /\ None \in Errands
    BY DEF Places, Errands, Remembering
  <2> QED BY <1>4, <1>5, <2>1, LooksFacts DEF Returns, Idles, Inv
<1>6. CASE TakePins \/ Operate \/ LookAtPin \/ Update \/ Report
  <2>1. /\ {"operating", "looking", "attaching"} \subseteq Places \ Remembering
        /\ {"follow", "settle"} \subseteq Errands /\ errand[Follow] \in Errands
    BY DEF Places, Errands, Remembering, Inv, TypeOK
  <2>2. \/ Returns /\ goal' = goal
        \/ /\ goal' = goal /\ (saw' = saw \/ Forgets(Follow))
           /\ \/ GoesFor(Follow, "operating", errand[Follow])
              \/ GoesFor(Follow, "looking", errand[Follow])
              \/ GoesFor(Follow, "attaching", "follow")
              \/ GoesFor(Follow, "attaching", "settle")
    BY <1>6 DEF TakePins, Operate, LookAtPin, Update, Report, Goes, attaching
  <2>3. Forgets(Follow) => \A o \in Actors \ {Follow} : saw'[o] = saw[o]
    BY LooksFacts DEF Inv
  <2> QED BY <1>4, <1>5, <2>1, <2>2, <2>3
<1>7. CASE CheckUnsaved \/ SetAside
  <2>1. CASE Returns
    BY <1>5, <1>7, <2>1 DEF CheckUnsaved, SetAside
  <2>2. CASE CheckUnsaved /\ ~Returns
    <3>1. /\ Goes(Follow, "setting_aside")
          /\ (Looks(Follow) /\ Saved(Head)) \/ Forgets(Follow)
          /\ UNCHANGED <<history, refs, checkout, goal>>
      BY <2>2 DEF CheckUnsaved, HeadHasUnsaved
    <3>2. at'[Follow] = "setting_aside"
      BY <3>1 DEF Goes, GoesFor, Inv, TypeOK
    <3>3. AttachOf(Follow)'
      <4>1. CASE Looks(Follow) /\ Saved(Head)
        <5>1. saw'[Follow].head = Head
          BY <4>1, LooksFacts DEF Inv
        <5>2. PICK h \in Made : h = Head
          BY DEF Inv
        <5>3. \A d \in past[h] : Saved(d)
          BY <4>1, <5>2, SavedWithHistory
        <5>4. \A d \in past'[h] : Saved(d)'
          BY <3>1, <5>3 DEF Saved, history, refs
        <5> QED BY <3>2, <5>1, <5>2, <5>4 DEF AttachOf
      <4>2. CASE Forgets(Follow)
        <5>1. saw'[Follow].head = NoCommit
          BY <4>2 DEF Forgets, Nothing, Inv, TypeOK
        <5>2. past'[NoCommit] = {}
          BY DEF HistoryInv, NoCommit
        <5> QED BY <3>2, <5>1, <5>2 DEF AttachOf
      <4> QED BY <3>1, <4>1, <4>2
    <3>4. "setting_aside" \in Places /\ errand[Follow] \in Errands
      BY DEF Places, Inv, TypeOK
    <3> QED BY <1>2, <3>1, <3>3, <3>4, LooksFacts DEF Goes, AttachInv, Inv
  <2>3. CASE SetAside /\ ~Returns
    <3>1. /\ Goes(Follow, "updating") /\ UNCHANGED <<saw, history, refs, goal>>
          /\ at[Follow] = "setting_aside"
      BY <2>3 DEF SetAside
    <3>2. at'[Follow] = "updating"
      BY <3>1 DEF Goes, GoesFor, Inv, TypeOK
    <3>3. AttachOf(Follow)
      BY DEF Inv, AttachInv
    <3>4. AttachOf(Follow)'
      BY <3>1, <3>2, <3>3 DEF AttachOf, Saved, history, refs
    <3>5. "updating" \in Places /\ errand[Follow] \in Errands
      BY DEF Places, Inv, TypeOK
    <3> QED BY <1>2, <3>1, <3>4, <3>5 DEF Goes, AttachInv
  <2> QED BY <1>7, <2>1, <2>2, <2>3
<1>8. CASE TabStep /\ ~Attach(Tab)
  <2>1. /\ {"attaching", "pulling", "idle"} \subseteq Places \ Remembering
        /\ {"pull", "snap", "bump", None} \subseteq Errands /\ errand[Tab] \in Errands
    BY DEF Places, Errands, Remembering, Inv, TypeOK
  <2>2. /\ UNCHANGED attaching
        /\ \/ GoesFor(Tab, "attaching", "pull") \/ GoesFor(Tab, "attaching", "snap")
           \/ GoesFor(Tab, "attaching", "bump") \/ GoesFor(Tab, "pulling", errand[Tab])
           \/ GoesFor(Tab, "idle", None)
    BY <1>8 DEF TabStep, StartPull, Measure, Pull, Rebase, SnapBack, Bump, StageBump, Goes, Idles
  <2> QED BY <1>4, <2>1, <2>2 DEF attaching
<1>9. CASE ParentStep \/ UserStep \/ UNCHANGED vars
  BY <1>3, <1>9 DEF ParentStep, MergeInParent, RewindParent, UserStep, Commit, MakeBranch, StagePin,
                    TakeBranch, CheckOutCommit, vars, attaching
<1> QED BY <1>1, <1>6, <1>7, <1>8, <1>9 DEF Next, FollowStep

LEMMA TypesAndHistory ==
  Inv /\ [Next]_vars => Inv' /\ Forward
BY TypeStep, HistoryStep, AttachStep, ForwardStep DEF Inv

LEMMA InvInit == Init => Inv
<1> SUFFICES ASSUME Init PROVE Inv
  OBVIOUS
<1>1. TypeOK
  BY TypeInit
<1>2. HistoryInv
  <2>1. /\ past = [c \in 0 .. MaxCommits |-> IF c \in Published THEN 1 .. c ELSE {}]
        /\ Made = 1 .. Upstream
    BY DEF Init, Made
  <2>2. Made = Published /\ \A c \in Published : c \in 0 .. MaxCommits
    BY <2>1, CommitsAreNumbers DEF Published
  <2>3. \A c \in Published : past[c] = 1 .. c
    BY <2>1, <2>2
  <2>4. past[NoCommit] = {}
    BY <2>1, CommitsAreNumbers DEF NoCommit, Published
  <2>5. \A c \in Published : c \in 1 .. c /\ 1 .. c \subseteq Published
    BY CommitsAreNumbers DEF Published
  <2>6. \A c \in Published : \A d \in 1 .. c : 1 .. d \subseteq 1 .. c
    BY CommitsAreNumbers DEF Published
  <2> QED BY <2>2, <2>3, <2>4, <2>5, <2>6 DEF HistoryInv
<1>3. AttachInv
  BY DEF Init, AttachInv, AttachOf
<1> QED BY <1>1, <1>2, <1>3 DEF Inv

(* The type invariant: what anything in the repository or in an actor's    *)
(* memory names has been made, and HEAD always leads to a commit, whoever  *)
(* moves it (git/head_attach.rs, git/submodule.rs).                        *)
THEOREM SubmoduleTyped == Spec => []TypeOK
<1>1. Init => Inv
  BY InvInit
<1>2. Inv /\ [Next]_vars => Inv'
  BY TypesAndHistory
<1>3. Inv => TypeOK
  BY DEF Inv
<1> QED BY <1>1, <1>2, <1>3, PTL DEF Spec

(* Whoever moves a branch between the look of an attach and its update-ref *)
(* or switch (attach_head), no branch loses a commit it had, for any       *)
(* history and any number of commands.  Only a pull under pull.rebase      *)
(* takes commits off its branch, and none that the server had.             *)
THEOREM BranchesNeverLose == Spec => BranchesOnlyAdvance
<1> DEFINE Advance == \A b \in Branches :
                        \/ past[tip[b]] \subseteq past'[tip'[b]]
                        \/ Rebase /\ b = Main /\ past[tip[b]] \cap Published \subseteq past'[tip'[b]]
<1>1. Init => Inv
  BY InvInit
<1>2. Inv /\ [Next]_vars => Inv' /\ Forward
  BY TypesAndHistory
<1>3. Forward => Advance
  BY DEF Forward, Advances
<1>4. Inv /\ [Next]_vars => Inv' /\ [Advance]_vars
  BY <1>2, <1>3
<1> QED BY <1>1, <1>4, PTL DEF Spec, BranchesOnlyAdvance

-----------------------------------------------------------------------------
(* The submodule that is reported as updated.                              *)

LEMMA SettleRests ==
  ASSUME SettleInv,
         at'[Follow] = at[Follow], errand'[Follow] = errand[Follow],
         saw'[Follow] = saw[Follow], goal'[Follow] = goal[Follow],
         quiet' => quiet /\ UNCHANGED <<tip, on, bare, pin>>
  PROVE  SettleInv'
BY DEF SettleInv, Head

(* After a step that leaves no errand to settle, or takes one up.          *)
LEMMA NothingToSettle ==
  ASSUME errand'[Follow] # "settle", at'[Follow] # "reporting" PROVE SettleInv'
BY DEF SettleInv

LEMMA OthersAreSeen ==
  ASSUME TypeOK, SettleInv, NEW place \in Places, NEW what \in Errands,
         GoesFor(Tab, place, what), goal' = goal, saw'[Follow] = saw[Follow],
         quiet' => quiet /\ UNCHANGED <<tip, on, bare, pin>>
  PROVE  SettleInv'
<1>1. at'[Follow] = at[Follow] /\ errand'[Follow] = errand[Follow]
  BY NameFacts DEF GoesFor, TypeOK, Follow, Tab, Actors
<1> QED BY <1>1, SettleRests

LEMMA AttachingSettles ==
  ASSUME Inv, SettleInv, Attach(Follow) PROVE SettleInv'
<1> USE NameFacts, NumberFacts DEF Inv
<1>1. CASE ReadRefs(Follow)
  <2>1. UNCHANGED <<tip, on, bare, pin, quiet>> /\ at[Follow] = "attaching"
    BY <1>1 DEF ReadRefs, refs, checkout, parent
  <2>2. CASE at'[Follow] \in Remembering
    <3>1. /\ errand' = errand /\ on = None /\ saw'[Follow].head = Head
          /\ \/ at'[Follow] = "switching" /\ goal'[Follow] \in HereAlready
             \/ at'[Follow] = "switching" /\ MayMove(Follow)
             \/ at'[Follow] \in {"branching", "sliding"}
      BY <1>1, <2>2, ReadRefsLeads
    <3>2. errand[Follow] = "settle" => ~MayMove(Follow)
      BY DEF MayMove
    <3> QED BY <2>1, <3>1, <3>2 DEF SettleInv, HereAlready, Head
  <2>3. CASE at'[Follow] \notin Remembering
    <3>1. AlreadyOn(Follow) \/ NotAttached(Follow)
      BY <1>1, <2>3, SwitchToFacts
         DEF ReadRefs, Remembers, Goes, GoesFor, Remembering, HereAlready, TypeOK
    <3> QED BY <2>1, <3>1, AttachedGoes DEF SettleInv, GoesFor, Head, TypeOK, Errands, None
  <2> QED BY <2>2, <2>3
<1>2. CASE \/ Slide(Follow) /\ NotAttached(Follow) /\ UNCHANGED tip
           \/ MakeMain(Follow) /\ NotAttached(Follow) /\ UNCHANGED tip
           \/ Switch(Follow) /\ NotAttached(Follow) /\ UNCHANGED checkout
  <2>1. UNCHANGED <<tip, on, bare, pin>> /\ (quiet' => quiet)
    BY <1>2 DEF Slide, MakeMain, Switch, refs, checkout, parent
  <2> QED BY <1>2, <2>1, AttachedGoes DEF SettleInv, GoesFor, Head, TypeOK, None
<1>3. CASE (Slide(Follow) \/ MakeMain(Follow)) /\ SwitchTo(Follow, Main)
           /\ tip' = [tip EXCEPT ![Main] = saw[Follow].head]
  <2>1. /\ UNCHANGED <<on, bare, pin>> /\ (quiet' => quiet)
        /\ at[Follow] \in {"branching", "sliding"}
    BY <1>3 DEF Slide, MakeMain, checkout, parent
  <2>2. /\ at'[Follow] = "switching" /\ goal'[Follow] = Main /\ errand' = errand
        /\ tip'[Main] = saw[Follow].head
    BY <1>3, SwitchToFacts DEF TypeOK
  <2> QED BY <2>1, <2>2 DEF SettleInv, Head
<1>4. CASE Switch(Follow) /\ on' = goal[Follow] /\ bare' = NoCommit /\ Attached(Follow)
  <2>1. UNCHANGED <<tip, pin>> /\ (quiet' => quiet) /\ at[Follow] = "switching"
    BY <1>4 DEF Switch, refs, parent
  <2>2. goal[Follow] # None
    BY <2>1 DEF AttachInv, AttachOf
  <2>3. quiet' /\ errand[Follow] = "settle" => Head' = pin'
    BY <1>4, <2>1, <2>2 DEF SettleInv, Head
  <2> QED BY <1>4, <2>3, AttachedGoes DEF SettleInv, GoesFor, TypeOK, None
<1>5. \/ ReadRefs(Follow)
      \/ (Slide(Follow) \/ MakeMain(Follow)) /\ NotAttached(Follow) /\ UNCHANGED tip
      \/ (Slide(Follow) \/ MakeMain(Follow)) /\ SwitchTo(Follow, Main)
         /\ tip' = [tip EXCEPT ![Main] = saw[Follow].head]
      \/ Switch(Follow) /\ NotAttached(Follow) /\ UNCHANGED checkout
      \/ Switch(Follow) /\ on' = goal[Follow] /\ bare' = NoCommit /\ Attached(Follow)
  BY DEF Attach, Slide, MakeMain, Switch
<1> QED BY <1>1, <1>2, <1>3, <1>4, <1>5

LEMMA SettleStep == Inv /\ SettleInv /\ [Next]_vars => SettleInv'
<1> SUFFICES ASSUME Inv, SettleInv, [Next]_vars PROVE SettleInv'
  OBVIOUS
<1> USE NameFacts, NumberFacts DEF Inv
<1>0. Follow \in Actors \ {Tab}
  BY DEF Follow, Tab, Actors
<1>1. CASE Attach(Follow)
  BY <1>1, AttachingSettles
<1>2. CASE Attach(Tab)
  <2>1. at'[Follow] = at[Follow] /\ saw'[Follow] = saw[Follow] /\ goal'[Follow] = goal[Follow]
    <3>1. CASE ReadRefs(Tab)
      BY <1>0, <3>1, ReadRefsLeads
    <3>2. CASE Slide(Tab) \/ MakeMain(Tab)
      BY <1>0, <3>2, SwitchToFacts, AttachedTypes, LooksFacts DEF Slide, MakeMain
    <3>3. CASE Switch(Tab)
      BY <1>0, <3>3, AttachedTypes, LooksFacts DEF Switch, TypeOK
    <3> QED BY <1>2, <3>1, <3>2, <3>3 DEF Attach
  <2>2. errand'[Follow] = errand[Follow]
    BY <1>0, <1>2, SwitchToFacts, AttachedTypes
       DEF Attach, ReadRefs, Slide, MakeMain, Switch, Remembers, Goes, GoesFor, TypeOK
  <2>3. quiet' => quiet /\ UNCHANGED <<tip, on, bare, pin>>
    BY <1>0, <1>2 DEF Attach, ReadRefs, Slide, MakeMain, Switch, refs, checkout, parent
  <2> QED BY <2>1, <2>2, <2>3, SettleRests
<1>3. CASE /\ CheckOutPin /\ GoesFor(Follow, "attaching", "settle")
           /\ UNCHANGED <<tip, pin>>
  <2>1. Head' = pin'
    BY <1>3 DEF CheckOutPin, Detach, checkout, Head
  <2>2. at'[Follow] = "attaching"
    BY <1>3 DEF GoesFor, TypeOK
  <2> QED BY <2>1, <2>2 DEF SettleInv
<1>4. CASE Returns
  <2>1. at'[Follow] = "idle" /\ errand'[Follow] = None
    BY <1>4 DEF Returns, Idles, GoesFor, TypeOK
  <2> QED BY <2>1, NothingToSettle DEF None
<1>5. ASSUME NEW place \in {"operating", "looking", "setting_aside", "updating"},
             Goes(Follow, place), at[Follow] \in {"idle", "operating", "checking", "setting_aside"}
      PROVE  SettleInv'
  <2>1. at'[Follow] = place /\ errand'[Follow] = errand[Follow]
    BY <1>5 DEF Goes, GoesFor, TypeOK
  <2>2. errand[Follow] # "settle"
    BY <1>5 DEF SettleInv
  <2> QED BY <2>1, <2>2, NothingToSettle
<1>6. CASE GoesFor(Follow, "attaching", "follow")
  BY <1>6, NothingToSettle DEF GoesFor, TypeOK
<1>7. CASE TakePins \/ Operate \/ LookAtPin \/ CheckUnsaved \/ SetAside \/ Update \/ Report
  BY <1>3, <1>4, <1>5, <1>6, <1>7
  DEF TakePins, Operate, LookAtPin, CheckUnsaved, SetAside, Update, Report
<1>8. CASE TabStep /\ ~Attach(Tab)
  <2>1. /\ {"attaching", "pulling", "idle"} \subseteq Places
        /\ {"pull", "snap", "bump", None} \subseteq Errands /\ errand[Tab] \in Errands
    BY DEF Places, Errands, TypeOK
  <2>2. /\ UNCHANGED <<saw, goal>>
        /\ \/ GoesFor(Tab, "attaching", "pull") \/ GoesFor(Tab, "attaching", "snap")
           \/ GoesFor(Tab, "attaching", "bump") \/ GoesFor(Tab, "pulling", errand[Tab])
           \/ GoesFor(Tab, "idle", None)
    BY <1>8 DEF TabStep, StartPull, Measure, Pull, Rebase, SnapBack, Bump, StageBump, Goes, Idles, attaching
  <2>3. quiet' => quiet /\ UNCHANGED <<tip, on, bare, pin>>
    BY <1>8 DEF TabStep, StartPull, Measure, Pull, Rebase, SnapBack, Bump, StageBump, refs, checkout, parent
  <2> QED BY <2>1, <2>2, <2>3, OthersAreSeen
<1>9. CASE ParentStep \/ UserStep
  <2>1. UNCHANGED <<at, errand, attaching>> /\ quiet' = FALSE
    BY <1>9 DEF ParentStep, MergeInParent, RewindParent, UserStep, Commit, MakeBranch, StagePin,
                TakeBranch, CheckOutCommit
  <2> QED BY <2>1, SettleRests DEF attaching
<1>10. CASE UNCHANGED vars
  BY <1>10, SettleRests DEF vars, refs, checkout, parent, attaching
<1> QED BY <1>1, <1>2, <1>7, <1>8, <1>9, <1>10 DEF Next, FollowStep

(* A submodule reported as updated is at the recorded commit, unless       *)
(* somebody but the follow moved one of the two: neither the attach before *)
(* the update nor the one after it takes the checkout off again            *)
(* (follow_recorded_pins, attach_submodule), for any history.              *)
THEOREM UpdatedMeansAtPin == Spec => []UpdatedIsAtPin
<1>1. Init => Inv /\ SettleInv
  <2>1. Init => SettleInv
    BY NameFacts DEF Init, SettleInv, None
  <2> QED BY <2>1, InvInit
<1>2. (Inv /\ SettleInv) /\ [Next]_vars => (Inv /\ SettleInv)'
  BY TypesAndHistory, SettleStep
<1>3. Inv /\ SettleInv => UpdatedIsAtPin
  BY DEF SettleInv, UpdatedIsAtPin
<1> QED BY <1>1, <1>2, <1>3, PTL DEF Spec

-----------------------------------------------------------------------------
(* Commits made in the submodule.                                          *)

LEMMA CommitKeptStep ==
  ASSUME Inv, [Next]_vars, ~GivesUp, NEW c \in Made, Reached(c)
  PROVE  Reached(c)' \/ NotSeen(c) \/ c \in replaced'
<1> USE NameFacts, NumberFacts DEF Inv
<1>0. Forward /\ TypeOK' /\ HistoryInv'
  BY TypesAndHistory
<1>1. CASE Saved(c)
  BY <1>0, <1>1, SavedStays DEF Reached
<1>2. CASE ~Saved(c)
  <2>1. c \in past[Head]
    BY <1>2 DEF Reached
  <2>2. on = None /\ bare = Head
    <3>1. on # None => c \in past[tip[on]]
      BY <2>1
    <3> QED BY <1>2, <3>1 DEF Saved
  <2>3. CASE UNCHANGED checkout
    <3>1. Head' = Head
      BY <2>2, <2>3 DEF checkout, Head
    <3>2. past'[Head] = past[Head]
      BY <1>0 DEF Forward
    <3> QED BY <2>1, <3>1, <3>2 DEF Reached
  <2>4. ~Saved(Head)
    BY <1>2, <2>1, SavedWithHistory
  <2>5. ASSUME NEW a \in Actors, NEW h \in Made, saw[a].head = h,
               at[a] \in {"switching", "updating"}, at'[a] # at[a],
               c \in past[h] => Saved(c)' \/ c \in replaced'
        PROVE  Reached(c)' \/ NotSeen(c) \/ c \in replaced'
    BY <2>5 DEF Reached, NotSeen
  <2>6. ASSUME NEW a \in Actors, Switch(a)
        PROVE  Reached(c)' \/ NotSeen(c) \/ c \in replaced'
    <3>1. at[a] = "switching" /\ at'[a] # at[a] /\ UNCHANGED <<past, tip>>
      BY <2>6, AttachedTypes DEF Switch, history, refs
    <3>2. saw[a].head \in Made /\ goal[a] \in Branches
          /\ past[saw[a].head] \subseteq past[tip[goal[a]]] \cup replaced
      BY <3>1 DEF AttachInv, AttachOf, TypeOK
    <3>3. c \in past[saw[a].head] => Saved(c) \/ c \in replaced
      BY <3>2 DEF Saved
    <3>4. replaced \subseteq replaced'
      BY <1>0 DEF Forward
    <3> QED BY <1>2, <3>1, <3>2, <3>3, <3>4, <2>5
  <2>7. CASE Update
    <3>1. at[Follow] = "updating" /\ at'[Follow] # at[Follow]
      BY <2>7 DEF Update, Returns, Idles, GoesFor, TypeOK
    <3>2. PICK h \in Made \cup {NoCommit} : h = saw[Follow].head
      BY DEF TypeOK
    <3>3. c \in past[h] => Saved(c) \/ c \in replaced
      BY <3>1, <3>2 DEF AttachInv, AttachOf
    <3>4. replaced \subseteq replaced'
      BY <1>0 DEF Forward
    <3>5. c \in past[h] => c \in replaced'
      BY <1>2, <3>3, <3>4
    <3> QED BY <3>1, <3>2, <3>5 DEF NotSeen
  <2>8. CASE Commit
    <3>1. /\ past[Head] \in SUBSET Made /\ NewCommit(past[Head]) /\ on' = None /\ bare' = made'
      BY <2>2, <2>8 DEF Commit, NewCommit, HistoryInv
    <3>2. past'[made'] = past[Head] \cup {made'} /\ Head' = made'
      BY <3>1, NewCommitFacts DEF Head
    <3> QED BY <2>1, <3>2 DEF Reached
  <2>9. CASE MakeBranch
    <3>1. tip'["own"] = Head /\ on' = "own" /\ UNCHANGED past
      BY <2>9 DEF MakeBranch, history, TypeOK
    <3>2. c \in past'[tip'["own"]]
      BY <2>1, <3>1
    <3> QED BY <3>2 DEF Reached, Saved
  <2>10. ~(\E b \in Branches : TakeBranch(b)) /\ ~(\E d \in Commits : CheckOutCommit(d))
    BY <2>4 DEF TakeBranch, CheckOutCommit, HeadHasUnsaved
  <2>12. ~Rebase
    BY <2>2 DEF Rebase, Main, None
  <2>11. \/ UNCHANGED checkout \/ Update \/ Commit \/ MakeBranch
         \/ \E a \in Actors : Switch(a)
    <3>1. CASE Attach(Follow) \/ Attach(Tab)
      BY <3>1 DEF Attach, ReadRefs, Slide, MakeMain
    <3>2. CASE FollowStep /\ ~Attach(Follow)
      BY <3>2 DEF FollowStep, TakePins, Operate, LookAtPin, CheckUnsaved, SetAside, Report
    <3>3. CASE TabStep /\ ~Attach(Tab)
      BY <2>12, <3>3 DEF TabStep, StartPull, Measure, Pull, StageBump, GivesUp
    <3>4. CASE ParentStep
      BY <3>4 DEF ParentStep, GivesUp
    <3>5. CASE UserStep
      BY <2>10, <3>5 DEF UserStep, StagePin
    <3>6. CASE UNCHANGED vars
      BY <3>6 DEF vars
    <3> QED BY <3>1, <3>2, <3>3, <3>4, <3>5, <3>6 DEF Next
  <2> QED BY <2>3, <2>6, <2>7, <2>8, <2>9, <2>11
<1> QED BY <1>1, <1>2

(* No step takes the last branch or HEAD from a commit made in the         *)
(* submodule, but for what the one who moves HEAD did not see (it came     *)
(* later, or the look failed), what a rebasing pull made again and the     *)
(* commands that do not look: however the follow, the two that attach and  *)
(* the user's work fall together (head_has_unsaved_commits, attach_head),  *)
(* for any history.                                                        *)
THEOREM SubmoduleCommitsStay == Spec => CommitsAreKept
<1> DEFINE Kept == GivesUp \/ \A c \in Made \ Published :
                                Reached(c) => Reached(c)' \/ NotSeen(c) \/ c \in replaced'
<1>1. Init => Inv
  BY InvInit
<1>2. Inv /\ [Next]_vars => Inv' /\ [Kept]_vars
  BY TypesAndHistory, CommitKeptStep
<1> QED BY <1>1, <1>2, PTL DEF Spec, CommitsAreKept
=============================================================================
