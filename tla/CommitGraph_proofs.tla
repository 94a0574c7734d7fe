------------------------- MODULE CommitGraph_proofs -------------------------
(***************************************************************************)
(* Proofs about CommitGraph, for histories of any size and any number of   *)
(* stashes: first of the lanes and the edges in them, of which a row of    *)
(* the window changes nothing, then of the dashed lines between them.      *)
(***************************************************************************)
EXTENDS CommitGraph, FiniteSetTheorems, WellFoundedInduction, TLAPS

(* What assign does to the lanes, given the lane l and the track t of the  *)
(* second parent (t = l where there is none).                              *)
Assigns(c, l, t) ==
  /\ l \in Nat /\ t \in Nat
  /\ l \in DOMAIN active => active[l] = c
  /\ \A m \in DOMAIN active : active[m] = c => l <= m
  /\ second[c] # None => t # l
  /\ second[c] # None /\ t \in DOMAIN active =>
       active[t] = c \/ active[t] = second[c]
  /\ lane' = [lane EXCEPT ![c] = l]
  /\ track' = [track EXCEPT ![c] = <<l, t>>]
  /\ \A m \in DOMAIN active : active[m] # c =>
       m \in DOMAIN active' /\ active'[m] = active[m]
  /\ first[c] # None => l \in DOMAIN active' /\ active'[l] = first[c]
  /\ second[c] # None => t \in DOMAIN active' /\ active'[t] = second[c]
  /\ \A m \in DOMAIN active' :
       \/ m \in DOMAIN active /\ active'[m] = active[m] /\ active[m] # c
       \/ m = l /\ first[c] # None /\ active'[m] = first[c]
       \/ m = t /\ second[c] # None /\ active'[m] = second[c]

LEMMA TrackFacts ==
  ASSUME NEW lanes, NEW c, NEW l \in TrackFor(lanes, c),
         DOMAIN lanes \subseteq Nat
  PROVE  /\ l \in Nat
         /\ l \in DOMAIN lanes => lanes[l] = c
         /\ \A m \in DOMAIN lanes : lanes[m] = c => l <= m
<1>1. CASE Waiting(lanes, c) # {}
  BY <1>1 DEF TrackFor, LowestOf, Waiting
<1>2. CASE Waiting(lanes, c) = {}
  <2>1. l \in 0 .. Cardinality(DOMAIN lanes) /\ l \notin DOMAIN lanes
    BY <1>2 DEF TrackFor, LowestOf, Unused
  <2>2. l \in Nat
    BY <2>1
  <2> QED BY <1>2, <2>1, <2>2 DEF Waiting
<1> QED BY <1>1, <1>2

LEMMA Bounds ==
  ASSUME TypeOK
  PROVE  /\ size.commits \in 1 .. NumCommits /\ size.commits \in Nat
         /\ placed \in Nat /\ placed <= size.commits
         /\ Commits \subseteq Nat /\ primary \in Nat
<1>1. size.commits \in 1 .. NumCommits
  BY SizesAreSizes DEF TypeOK
<1>2. Commits \subseteq Nat
  BY NumCommitsIsNatural DEF Commits
<1> QED BY <1>1, <1>2, NumCommitsIsNatural DEF TypeOK, None

LEMMA PlaceKeeps ==
  ASSUME Place
  PROVE  /\ placed' = placed + 1
         /\ size' = size /\ first' = first /\ second' = second
         /\ primary' = primary /\ head' = head
BY DEF Place, history

LEMMA PlaceAssigns ==
  ASSUME TypeOK, Place
  PROVE  /\ placed + 1 \in Commits /\ placed < size.commits
         /\ \E l, t : Assigns(placed + 1, l, t)
<1> DEFINE c == placed + 1
<1>1. c \in Commits /\ placed < size.commits
  BY Bounds, NumCommitsIsNatural DEF Place, Commits
<1>2. PICK l \in TrackFor(active, c) :
        /\ lane' = [lane EXCEPT ![c] = l]
        /\ \/ /\ second[c] = None
              /\ active' = Continued(active, c, l)
              /\ track' = [track EXCEPT ![c] = <<l, l>>]
           \/ /\ second[c] # None
              /\ \E t \in 0 .. Cardinality(DOMAIN active) + 1 :
                   /\ Forked(active, c, l, t)
                   /\ track' = [track EXCEPT ![c] = <<l, t>>]
  BY DEF Place
<1>3. /\ l \in Nat
      /\ l \in DOMAIN active => active[l] = c
      /\ \A m \in DOMAIN active : active[m] = c => l <= m
  BY <1>2, TrackFacts DEF TypeOK
<1> HIDE DEF c
<1> DEFINE next == Continued(active, c, l)
<1>4. /\ DOMAIN next = {m \in DOMAIN active : active[m] # c}
                       \cup (IF first[c] = None THEN {} ELSE {l})
      /\ \A m \in DOMAIN active : active[m] # c => next[m] = active[m]
      /\ first[c] # None => next[l] = first[c]
  <2>1. CASE first[c] = None
    BY <2>1 DEF Continued, Released, Waiting
  <2>2. CASE first[c] # None
    BY <1>3, <2>2 DEF Continued, With, Released, Waiting
  <2> QED BY <2>1, <2>2
<1> HIDE DEF next
<1>5. CASE second[c] = None
  <2>1. active' = next /\ track' = [track EXCEPT ![c] = <<l, l>>]
    BY <1>2, <1>5 DEF next
  <2>2. Assigns(c, l, l)
    BY <1>2, <1>3, <1>4, <1>5, <2>1 DEF Assigns
  <2> QED BY <1>1, <2>2 DEF c
<1>6. CASE second[c] # None
  <2>1. PICK t \in 0 .. Cardinality(DOMAIN active) + 1 :
          /\ Forked(active, c, l, t)
          /\ track' = [track EXCEPT ![c] = <<l, t>>]
    BY <1>2, <1>6
  <2>2. t \in TrackFor(next, second[c]) /\ active' = With(next, t, second[c])
    BY <2>1 DEF Forked, next
  <2>3. DOMAIN next \subseteq Nat
    BY <1>3, <1>4 DEF TypeOK
  <2>4. t \in Nat /\ (t \in DOMAIN next => next[t] = second[c])
    BY <2>2, <2>3, TrackFacts
  <2>5. first[c] # None /\ first[c] # second[c]
    BY <1>1, <1>6 DEF TypeOK
  <2>6. t # l
    BY <1>4, <2>4, <2>5
  <2>7. /\ DOMAIN active' = DOMAIN next \cup {t} /\ active'[t] = second[c]
        /\ \A m \in DOMAIN next : m # t => active'[m] = next[m]
    BY <2>2 DEF With
  <2>8. t \in DOMAIN active => active[t] = c \/ active[t] = second[c]
    BY <1>4, <2>4
  <2>9. \A m \in DOMAIN active : active[m] # c =>
          m \in DOMAIN active' /\ active'[m] = active[m]
    BY <1>4, <2>4, <2>7
  <2>10. l \in DOMAIN active' /\ active'[l] = first[c]
    BY <1>4, <2>5, <2>6, <2>7
  <2>11. \A m \in DOMAIN active' :
           \/ m \in DOMAIN active /\ active'[m] = active[m] /\ active[m] # c
           \/ m = l /\ first[c] # None /\ active'[m] = first[c]
           \/ m = t /\ second[c] # None /\ active'[m] = second[c]
    BY <1>4, <1>6, <2>4, <2>5, <2>7, <2>10
  <2>12. Assigns(c, l, t)
    BY <1>2, <1>3, <1>6, <2>1, <2>4, <2>6, <2>7, <2>8, <2>9, <2>10, <2>11
    DEF Assigns
  <2> QED BY <1>1, <2>12 DEF c
<1> QED BY <1>5, <1>6

-----------------------------------------------------------------------------
(* Types.                                                                  *)

LEMMA TypeInit == Init => TypeOK
<1> SUFFICES ASSUME Init PROVE TypeOK
  OBVIOUS
<1>1. size.commits \in 1 .. NumCommits
  BY SizesAreSizes DEF Init
<1>2. DOMAIN active \subseteq Nat
  BY DEF Init
<1>3. /\ first \in [Commits -> Commits \cup {None}]
      /\ \A c \in Commits : first[c] # None => c < first[c] /\ first[c] <= size.commits
      /\ second \in [Commits -> Commits \cup {None}]
      /\ \A c \in Commits : second[c] # None =>
           /\ c < second[c] /\ second[c] <= size.commits
           /\ first[c] # None /\ first[c] # second[c]
  BY DEF Init
<1>4. /\ head \in Commits \cup {None} /\ primary \in Commits \cup {None}
      /\ primary <= size.commits
  BY <1>1, NumCommitsIsNatural DEF Init, Commits, None
<1>5. placed \in 0 .. size.commits
  BY <1>1, NumCommitsIsNatural DEF Init
<1>6. /\ lane \in [Commits -> Nat] /\ track \in [Commits -> Nat \X Nat]
      /\ row \in [Commits -> Nat] /\ stashRow \in [Stashes -> Nat] /\ rows \in Nat
  BY DEF Init, None
<1>7. base \in [Stashes -> Commits \cup {None}] /\ wip \in BOOLEAN /\ size \in Sizes
  BY DEF Init
<1> QED BY <1>2, <1>3, <1>4, <1>5, <1>6, <1>7 DEF TypeOK

LEMMA TypeStep == TypeOK /\ [Next]_vars => TypeOK'
<1> SUFFICES ASSUME TypeOK, [Next]_vars PROVE TypeOK'
  OBVIOUS
<1> USE DEF history, layout
<1>1. CASE Place
  <2>1. placed + 1 \in Commits /\ placed < size.commits
    BY <1>1, PlaceAssigns
  <2>2. PICK l, t : Assigns(placed + 1, l, t)
    BY <1>1, PlaceAssigns
  <2>3. DOMAIN active' \subseteq Nat
    BY <2>2 DEF Assigns, TypeOK
  <2>4. lane' \in [Commits -> Nat] /\ track' \in [Commits -> Nat \X Nat]
    BY <2>1, <2>2 DEF Assigns, TypeOK
  <2>5. placed' \in 0 .. size.commits /\ rows' \in Nat
    BY <1>1, <2>1, SizesAreSizes DEF Place, TypeOK
  <2>6. row' \in [Commits -> Nat]
    BY <1>1, <2>1 DEF Place, TypeOK
  <2>7. UNCHANGED <<history, stashRow>>
    BY <1>1 DEF Place
  <2> QED BY <2>3, <2>4, <2>5, <2>6, <2>7 DEF TypeOK
<1>2. ASSUME NEW s \in Stashes, EmitStash(s) PROVE TypeOK'
  <2>1. stashRow' \in [Stashes -> Nat] /\ rows' \in Nat
    BY <1>2 DEF EmitStash, TypeOK
  <2>2. UNCHANGED <<history, layout, row>>
    BY <1>2 DEF EmitStash
  <2> QED BY <2>1, <2>2 DEF TypeOK
<1>3. CASE UNCHANGED vars
  BY <1>3 DEF vars, TypeOK
<1> QED BY <1>1, <1>2, <1>3 DEF Next

(* The type invariant of the layout (LaneState, LogPage), for histories of *)
(* any size.                                                               *)
THEOREM LayoutTyped == Spec => []TypeOK
BY TypeInit, TypeStep, PTL DEF Spec

-----------------------------------------------------------------------------
(* Lanes.                                                                  *)

(* The lane an edge runs down waits for its parent until that is placed.   *)
HeldOpen ==
  \A e \in Edges : e.parent \notin Drawn =>
    e.track \in DOMAIN active /\ active[e.track] = e.parent

EdgesAreTyped ==
  \A e \in Edges : e.child \in Drawn /\ e.parent \in Commits
                   /\ e.child < e.parent /\ e.track \in Nat

LEMMA EdgeTypes == TypeOK => EdgesAreTyped
<1> SUFFICES ASSUME TypeOK, NEW e \in Edges
             PROVE  e.child \in Drawn /\ e.parent \in Commits
                    /\ e.child < e.parent /\ e.track \in Nat
  BY DEF EdgesAreTyped
<1>1. PICK c \in Drawn :
        \/ first[c] # None /\ e = [child |-> c, parent |-> first[c], track |-> track[c][1]]
        \/ second[c] # None /\ e = [child |-> c, parent |-> second[c], track |-> track[c][2]]
  BY DEF Edges
<1>2. c \in Commits
  BY SizesAreSizes, NumCommitsIsNatural DEF TypeOK, Drawn, Commits
<1> QED BY <1>1, <1>2 DEF TypeOK

(* The edges after a commit is placed: those before, and its own.          *)
LEMMA NewEdges ==
  ASSUME TypeOK, NEW l, NEW t, Place, Assigns(placed + 1, l, t),
         NEW e \in Edges'
  PROVE  \/ e \in Edges
         \/ /\ e.child = placed + 1 /\ first[placed + 1] # None
            /\ e.parent = first[placed + 1] /\ e.track = l
         \/ /\ e.child = placed + 1 /\ second[placed + 1] # None
            /\ e.parent = second[placed + 1] /\ e.track = t
<1>1. /\ placed + 1 \in Commits /\ placed' = placed + 1
      /\ first' = first /\ second' = second
  BY PlaceAssigns, PlaceKeeps
<1>2. PICK d \in Drawn' :
        \/ /\ first[d] # None
           /\ e = [child |-> d, parent |-> first[d], track |-> track'[d][1]]
        \/ /\ second[d] # None
           /\ e = [child |-> d, parent |-> second[d], track |-> track'[d][2]]
  BY <1>1 DEF Edges
<1>3. d \in Commits /\ (d \in Drawn \/ d = placed + 1)
  BY <1>1, Bounds, NumCommitsIsNatural DEF Drawn, Commits
<1>4. CASE d = placed + 1
  BY <1>1, <1>2, <1>4 DEF Assigns, TypeOK
<1>5. CASE d # placed + 1
  <2>1. track'[d] = track[d] /\ d \in Drawn
    BY <1>3, <1>5 DEF Assigns, TypeOK
  <2> QED BY <1>2, <2>1 DEF Edges
<1> QED BY <1>4, <1>5

LEMMA StashesChangeNoLane ==
  ASSUME (\E s \in Stashes : EmitStash(s)) \/ UNCHANGED vars
  PROVE  UNCHANGED <<first, second, primary, size, active, placed, lane, track>>
BY DEF EmitStash, vars, history, layout

LEMMA HeldStep ==
  ASSUME TypeOK, HeldOpen, [Next]_vars
  PROVE  HeldOpen'
<1>1. CASE Place
  <2>1. /\ placed \in Nat /\ placed + 1 \in Commits /\ placed' = placed + 1
        /\ first' = first /\ second' = second
    BY <1>1, PlaceAssigns, PlaceKeeps, Bounds
  <2>2. PICK l, t : Assigns(placed + 1, l, t)
    BY <1>1, PlaceAssigns
  <2> SUFFICES ASSUME NEW e \in Edges', e.parent \notin Drawn'
               PROVE  e.track \in DOMAIN active' /\ active'[e.track] = e.parent
    BY DEF HeldOpen
  <2>3. CASE e \in Edges
    <3>1. e.parent \notin Drawn /\ e.parent # placed + 1
      BY <2>1 DEF Drawn
    <3>2. e.track \in DOMAIN active /\ active[e.track] = e.parent
      BY <2>3, <3>1 DEF HeldOpen
    <3> QED BY <2>2, <3>1, <3>2 DEF Assigns
  <2>4. CASE e \notin Edges
    <3>1. \/ first[placed + 1] # None /\ e.parent = first[placed + 1] /\ e.track = l
          \/ second[placed + 1] # None /\ e.parent = second[placed + 1] /\ e.track = t
      BY <1>1, <2>2, <2>4, NewEdges
    <3> QED BY <2>2, <3>1 DEF Assigns
  <2> QED BY <2>3, <2>4
<1>2. CASE (\E s \in Stashes : EmitStash(s)) \/ UNCHANGED vars
  BY <1>2, StashesChangeNoLane DEF HeldOpen, Edges, Drawn
<1> QED BY <1>1, <1>2 DEF Next

LEMMA ExclusiveStep ==
  ASSUME TypeOK, HeldOpen, TracksAreExclusive, [Next]_vars
  PROVE  TracksAreExclusive'
<1>1. CASE Place
  <2> DEFINE c == placed + 1
  <2>1. /\ placed \in Nat /\ c \in Commits /\ placed' = placed + 1
        /\ first' = first /\ second' = second
    BY <1>1, PlaceAssigns, PlaceKeeps, Bounds
  <2>2. PICK l, t : Assigns(c, l, t)
    BY <1>1, PlaceAssigns
  <2>3. EdgesAreTyped
    BY EdgeTypes
  <2>4. ASSUME NEW e \in Edges, c < e.parent
        PROVE  e.track \in DOMAIN active /\ active[e.track] = e.parent
    BY <2>1, <2>3, <2>4 DEF HeldOpen, Drawn, EdgesAreTyped, Commits
  <2>5. ASSUME NEW e \in Edges, c < e.parent PROVE e.track # l
    BY <2>1, <2>2, <2>4, <2>5 DEF Assigns, Commits
  <2>6. second[c] # None => t # l
    BY <2>2 DEF Assigns
  <2>7. ASSUME NEW e \in Edges', NEW d \in Drawn', e.child < d, d < e.parent
        PROVE  lane'[d] # e.track
    <3>1. d \in 1 .. c /\ d \in Commits
      BY <2>1, <2>7, Bounds, NumCommitsIsNatural DEF Drawn, Commits
    <3>2. e \in Edges
      BY <1>1, <2>1, <2>2, <2>7, <3>1, NewEdges
    <3>3. CASE d = c
      BY <2>1, <2>2, <2>5, <2>7, <3>2, <3>3 DEF Assigns, TypeOK
    <3>4. CASE d # c
      <4>1. d \in Drawn /\ lane'[d] = lane[d]
        BY <2>1, <2>2, <3>1, <3>4 DEF Assigns, TypeOK, Drawn
      <4> QED BY <2>7, <3>2, <4>1 DEF TracksAreExclusive
    <3> QED BY <3>3, <3>4
  <2>8. ASSUME NEW e \in Edges', NEW f \in Edges',
               e.track = f.track, e.child <= f.child, f.child < e.parent
        PROVE  e.parent = f.parent
    <3>1. CASE e \in Edges /\ f \in Edges
      BY <2>8, <3>1 DEF TracksAreExclusive
    <3>2. CASE e \in Edges /\ f \notin Edges
      <4>1. f.child = c /\ c < e.parent
        BY <1>1, <2>2, <2>8, <3>2, NewEdges
      <4>2. f.track # l
        BY <2>5, <2>8, <3>2, <4>1
      <4>3. second[c] # None /\ f.parent = second[c] /\ f.track = t
        BY <1>1, <2>2, <3>2, <4>2, NewEdges
      <4>4. t \in DOMAIN active /\ active[t] = e.parent
        BY <2>4, <2>8, <3>2, <4>1, <4>3
      <4>5. e.parent # c
        BY <2>1, <4>1 DEF Commits
      <4> QED BY <2>2, <4>3, <4>4, <4>5 DEF Assigns
    <3>3. CASE e \notin Edges
      <4>1. e.child = c /\ c <= f.child
        BY <1>1, <2>2, <2>8, <3>3, NewEdges
      <4>2. f \notin Edges
        BY <2>1, <2>3, <4>1 DEF EdgesAreTyped, Drawn
      <4>3. CASE e.track = l
        <5>1. e.parent = first[c]
          BY <1>1, <2>2, <2>6, <3>3, <4>3, NewEdges
        <5>2. f.track = l
          BY <2>8, <4>3
        <5>3. f.parent = first[c]
          BY <1>1, <2>2, <2>6, <4>2, <5>2, NewEdges
        <5> QED BY <5>1, <5>3
      <4>4. CASE e.track # l
        <5>1. e.parent = second[c]
          BY <1>1, <2>2, <3>3, <4>4, NewEdges
        <5>2. f.parent = second[c]
          BY <1>1, <2>2, <2>8, <4>2, <4>4, NewEdges
        <5> QED BY <5>1, <5>2
      <4> QED BY <4>3, <4>4
    <3> QED BY <3>1, <3>2, <3>3
  <2> QED BY <2>7, <2>8 DEF TracksAreExclusive
<1>2. CASE (\E s \in Stashes : EmitStash(s)) \/ UNCHANGED vars
  BY <1>2, StashesChangeNoLane DEF TracksAreExclusive, Edges, Drawn
<1> QED BY <1>1, <1>2 DEF Next

(* Two lines of history are never drawn over each other: assign keeps the  *)
(* track of an edge to itself until its parent is placed (git/graph.rs),   *)
(* for histories of any size and shape.                                    *)
THEOREM LinesNeverCollide == Spec => []TracksAreExclusive
<1> DEFINE Inv == TypeOK /\ HeldOpen /\ TracksAreExclusive
<1>1. Init => Inv
  <2> SUFFICES ASSUME Init PROVE Inv
    OBVIOUS
  <2>1. Edges = {}
    BY DEF Init, Edges, Drawn
  <2> QED BY <2>1, TypeInit DEF HeldOpen, TracksAreExclusive
<1>2. Inv /\ [Next]_vars => Inv'
  BY TypeStep, HeldStep, ExclusiveStep
<1> QED BY <1>1, <1>2, PTL DEF Spec

LEMMA AliveStep ==
  ASSUME TypeOK, NoDeadLanes, [Next]_vars
  PROVE  NoDeadLanes'
<1>1. CASE Place
  <2>1. /\ placed \in Nat /\ placed + 1 \in Commits /\ placed' = placed + 1
        /\ size' = size /\ size.commits \in Nat
    BY <1>1, PlaceAssigns, PlaceKeeps, Bounds
  <2>2. PICK l, t : Assigns(placed + 1, l, t)
    BY <1>1, PlaceAssigns
  <2> SUFFICES ASSUME NEW m \in DOMAIN active'
               PROVE  active'[m] \in placed + 2 .. size.commits
    BY <2>1 DEF NoDeadLanes
  <2>3. CASE m \in DOMAIN active /\ active'[m] = active[m] /\ active[m] # placed + 1
    BY <2>1, <2>3 DEF NoDeadLanes
  <2>4. CASE first[placed + 1] # None /\ active'[m] = first[placed + 1]
    BY <2>1, <2>4 DEF TypeOK, Commits, None
  <2>5. CASE second[placed + 1] # None /\ active'[m] = second[placed + 1]
    <3>1. /\ second[placed + 1] \in Nat /\ placed + 1 < second[placed + 1]
          /\ second[placed + 1] <= size.commits
      BY <2>1, <2>5, Bounds DEF TypeOK, None
    <3> QED BY <2>1, <2>5, <3>1
  <2>6. \/ m \in DOMAIN active /\ active'[m] = active[m] /\ active[m] # placed + 1
        \/ first[placed + 1] # None /\ active'[m] = first[placed + 1]
        \/ second[placed + 1] # None /\ active'[m] = second[placed + 1]
    BY <2>2 DEF Assigns
  <2> QED BY <2>3, <2>4, <2>5, <2>6
<1>2. CASE (\E s \in Stashes : EmitStash(s)) \/ UNCHANGED vars
  BY <1>2, StashesChangeNoLane DEF NoDeadLanes
<1> QED BY <1>1, <1>2 DEF Next

(* No lane is held open for a commit that was placed already or never      *)
(* comes (LaneState::assign frees every lane that waited for it).          *)
THEOREM LanesAreFreed == Spec => []NoDeadLanes
<1> DEFINE Inv == TypeOK /\ NoDeadLanes
<1>1. Init => Inv
  <2> SUFFICES ASSUME Init PROVE NoDeadLanes
    BY TypeInit
  <2> QED BY SizesAreSizes DEF Init, NoDeadLanes, None
<1>2. Inv /\ [Next]_vars => Inv'
  BY TypeStep, AliveStep
<1> QED BY <1>1, <1>2, PTL DEF Spec

-----------------------------------------------------------------------------
(* The line of the head.                                                   *)

(* Lane zero waits for the primary commit until that is placed, and a      *)
(* commit's first edge runs on in its own lane.                            *)
LaneZeroIsKept ==
  /\ primary # None /\ primary > placed => 0 \in DOMAIN active /\ active[0] = primary
  /\ \A c \in Drawn : track[c][1] = lane[c]

LEMMA KeptStep ==
  ASSUME TypeOK, LaneZeroIsKept, [Next]_vars
  PROVE  LaneZeroIsKept'
<1>1. CASE Place
  <2>1. /\ placed \in Nat /\ placed + 1 \in Commits /\ placed' = placed + 1
        /\ primary' = primary /\ primary \in Nat
    BY <1>1, PlaceAssigns, PlaceKeeps, Bounds
  <2>2. PICK l, t : Assigns(placed + 1, l, t)
    BY <1>1, PlaceAssigns
  <2>3. ASSUME primary # None, primary > placed'
        PROVE  0 \in DOMAIN active' /\ active'[0] = primary
    <3>1. 0 \in DOMAIN active /\ active[0] = primary /\ primary # placed + 1
      BY <2>1, <2>3 DEF LaneZeroIsKept
    <3> QED BY <2>2, <3>1 DEF Assigns
  <2>4. ASSUME NEW c \in Drawn' PROVE track'[c][1] = lane'[c]
    <3>1. c \in Commits /\ (c \in Drawn \/ c = placed + 1)
      BY <2>1, Bounds, NumCommitsIsNatural DEF Drawn, Commits
    <3> QED BY <2>1, <2>2, <3>1 DEF Assigns, TypeOK, LaneZeroIsKept
  <2> QED BY <2>1, <2>3, <2>4 DEF LaneZeroIsKept
<1>2. CASE (\E s \in Stashes : EmitStash(s)) \/ UNCHANGED vars
  BY <1>2, StashesChangeNoLane DEF LaneZeroIsKept, Drawn
<1> QED BY <1>1, <1>2 DEF Next

LEMMA StraightStep ==
  ASSUME TypeOK, HeldOpen, LaneZeroIsKept, HeadLineIsStraight, [Next]_vars
  PROVE  HeadLineIsStraight'
<1>1. CASE Place
  <2> DEFINE n == placed + 1
  <2>1. /\ placed \in Nat /\ n \in Commits /\ placed' = n
        /\ primary' = primary /\ primary \in Nat /\ first' = first
    BY <1>1, PlaceAssigns, PlaceKeeps, Bounds
  <2>2. PICK l, t : Assigns(n, l, t)
    BY <1>1, PlaceAssigns
  <2>3. lane'[n] = l /\ \A c \in Commits : c # n => lane'[c] = lane[c]
    BY <2>1, <2>2 DEF Assigns, TypeOK
  <2>4. 0 \in DOMAIN active /\ active[0] = n => l = 0
    BY <2>2 DEF Assigns
  <2>5. ASSUME NEW c \in Drawn' PROVE c \in Commits /\ (c \in Drawn \/ c = n)
    BY <2>1, Bounds, NumCommitsIsNatural DEF Drawn, Commits
  <2>6. ASSUME primary \in Drawn' PROVE lane'[primary] = 0
    <3>1. CASE primary = n
      BY <2>1, <2>3, <2>4, <3>1 DEF LaneZeroIsKept, None
    <3>2. CASE primary # n
      BY <2>3, <2>5, <2>6, <3>2 DEF HeadLineIsStraight
    <3> QED BY <3>1, <3>2
  <2>7. ASSUME NEW c \in Drawn', lane'[c] = 0, first[c] \in Drawn'
        PROVE  lane'[first[c]] = 0
    <3>1. c \in Commits /\ c < first[c] /\ first[c] \in 1 .. n
      BY <2>1, <2>5, <2>7 DEF TypeOK, Drawn, None
    <3>2. c \in Drawn /\ lane[c] = 0
      BY <2>1, <2>3, <2>5, <2>7, <3>1 DEF Commits
    <3>3. CASE first[c] = n
      <4> DEFINE e == [child |-> c, parent |-> first[c], track |-> track[c][1]]
      <4>1. e \in Edges
        BY <3>1, <3>2, <3>3, <2>1 DEF Edges, None
      <4>2. e.parent \notin Drawn
        BY <2>1, <3>3 DEF Drawn
      <4>3. track[c][1] = 0
        BY <3>2 DEF LaneZeroIsKept
      <4>4. 0 \in DOMAIN active /\ active[0] = n
        BY <3>3, <4>1, <4>2, <4>3 DEF HeldOpen
      <4> QED BY <2>3, <2>4, <3>3, <4>4
    <3>4. CASE first[c] # n
      BY <2>3, <2>5, <2>7, <3>2, <3>4 DEF HeadLineIsStraight
    <3> QED BY <3>3, <3>4
  <2> QED BY <2>1, <2>6, <2>7 DEF HeadLineIsStraight
<1>2. CASE (\E s \in Stashes : EmitStash(s)) \/ UNCHANGED vars
  BY <1>2, StashesChangeNoLane DEF HeadLineIsStraight, Drawn
<1> QED BY <1>1, <1>2 DEF Next

(* The line lane zero was reserved for (primary_lane_oid, with_primary) is *)
(* straight all the way down, for histories of any size and shape.         *)
THEOREM HeadLineStaysStraight == Spec => []HeadLineIsStraight
<1> DEFINE Inv == TypeOK /\ HeldOpen /\ LaneZeroIsKept /\ HeadLineIsStraight
<1>1. Init => Inv
  <2> SUFFICES ASSUME Init PROVE Inv
    OBVIOUS
  <2>1. Edges = {} /\ Drawn = {}
    BY DEF Init, Edges, Drawn
  <2>2. primary # None => 0 \in DOMAIN active /\ active[0] = primary
    BY DEF Init
  <2> QED BY <2>1, <2>2, TypeInit DEF HeldOpen, HeadLineIsStraight, LaneZeroIsKept
<1>2. Inv /\ [Next]_vars => Inv'
  BY TypeStep, HeldStep, KeptStep, StraightStep
<1> QED BY <1>1, <1>2, PTL DEF Spec
-----------------------------------------------------------------------------
(* The dashed lines.  Each is given a track when all above it have theirs, *)
(* so what there is to show is a fact about a recursive function of the    *)
(* rows: by the least row at which it fails.                               *)

(* No lane and no track of an edge is further right than twice the commits *)
(* placed, and no two stashes share a row.                                 *)
WidthInv ==
  /\ DOMAIN active \subseteq 0 .. 2 * placed
  /\ \A c \in Drawn : lane[c] <= 2 * placed
  /\ \A e \in Edges : e.track <= 2 * placed
RowInv ==
  /\ \A s \in Stashes : stashRow[s] <= rows
  /\ \A r, s \in Stashes : r # s /\ stashRow[r] = stashRow[s] => stashRow[s] = None

LEMMA TrackIsNear ==
  ASSUME NEW n \in Nat, NEW lanes, DOMAIN lanes \subseteq 0 .. n,
         NEW c, NEW l \in TrackFor(lanes, c)
  PROVE  l \in 0 .. n + 1
<1>1. CASE Waiting(lanes, c) # {}
  BY <1>1 DEF TrackFor, LowestOf, Waiting
<1>2. CASE Waiting(lanes, c) = {}
  <2>1. l \in 0 .. Cardinality(DOMAIN lanes)
    BY <1>2 DEF TrackFor, LowestOf, Unused
  <2>2. DOMAIN lanes \in SUBSET Nat /\ \A m \in DOMAIN lanes : m <= n
    OBVIOUS
  <2> DEFINE D == DOMAIN lanes
  <2> HIDE DEF D
  <2>3. D \in SUBSET Nat /\ \A m \in D : m <= n
    BY <2>2 DEF D
  <2>4. IsFiniteSet(D) /\ Cardinality(D) <= n + 1
    BY <2>3, FS_BoundedSetOfNaturals
  <2>5. Cardinality(D) \in Nat
    BY <2>4, FS_CardinalityType
  <2> QED BY <2>1, <2>4, <2>5 DEF D
<1> QED BY <1>1, <1>2

LEMMA WidthStep ==
  ASSUME TypeOK, WidthInv, [Next]_vars
  PROVE  WidthInv'
<1>1. CASE Place
  <2> DEFINE c == placed + 1
  <2>1. /\ placed \in Nat /\ c \in Commits /\ placed' = placed + 1
        /\ first' = first /\ second' = second
    BY <1>1, PlaceAssigns, PlaceKeeps, Bounds
  <2>2. PICK l \in TrackFor(active, c) :
          /\ lane' = [lane EXCEPT ![c] = l]
          /\ \/ /\ second[c] = None
                /\ active' = Continued(active, c, l)
                /\ track' = [track EXCEPT ![c] = <<l, l>>]
             \/ /\ second[c] # None
                /\ \E t \in 0 .. Cardinality(DOMAIN active) + 1 :
                     /\ Forked(active, c, l, t)
                     /\ track' = [track EXCEPT ![c] = <<l, t>>]
    BY <1>1 DEF Place
  <2> HIDE DEF c
  <2> DEFINE n == 2 * placed
             next == Continued(active, c, l)
  <2>3. n \in Nat /\ DOMAIN active \subseteq 0 .. n
    BY <2>1 DEF WidthInv
  <2> HIDE DEF n
  <2>4. l \in 0 .. n + 1
    BY <2>3, TrackIsNear
  <2>5. DOMAIN next \subseteq 0 .. n + 1
    BY <2>3, <2>4 DEF Continued, With, Released
  <2> HIDE DEF next
  <2>6. PICK t \in 0 .. n + 2 :
          /\ DOMAIN active' \subseteq 0 .. n + 2
          /\ track' = [track EXCEPT ![c] = <<l, t>>]
    <3>1. CASE second[c] = None
      BY <2>2, <2>3, <2>4, <2>5, <3>1 DEF next
    <3>2. CASE second[c] # None
      <4>1. PICK t \in 0 .. Cardinality(DOMAIN active) + 1 :
              /\ Forked(active, c, l, t)
              /\ track' = [track EXCEPT ![c] = <<l, t>>]
        BY <2>2, <3>2
      <4>2. t \in TrackFor(next, second[c]) /\ active' = With(next, t, second[c])
        BY <4>1 DEF Forked, next
      <4>3. n + 1 \in Nat
        BY <2>3
      <4>4. t \in 0 .. n + 2
        BY <2>3, <2>5, <4>2, <4>3, TrackIsNear
      <4>5. DOMAIN active' = DOMAIN next \cup {t}
        BY <4>2 DEF With
      <4>6. DOMAIN active' \subseteq 0 .. n + 2
        BY <2>3, <2>5, <4>4, <4>5
      <4> QED BY <4>1, <4>4, <4>6
    <3> QED BY <3>1, <3>2
  <2>7. n + 2 = 2 * placed'
    BY <2>1 DEF n
  <2>8. ASSUME NEW d \in Drawn' PROVE lane'[d] <= n + 2
    <3>1. d \in Commits /\ (d \in Drawn \/ d = c)
      BY <2>1, Bounds, NumCommitsIsNatural DEF Drawn, Commits, c
    <3>2. CASE d = c
      BY <2>1, <2>2, <2>3, <2>4, <3>2 DEF TypeOK
    <3>3. CASE d # c
      <4>1. lane'[d] = lane[d] /\ lane[d] \in Nat /\ lane[d] <= n
        BY <2>1, <2>2, <3>1, <3>3 DEF TypeOK, WidthInv, n
      <4> QED BY <2>3, <4>1
    <3> QED BY <3>2, <3>3
  <2>9. ASSUME NEW e \in Edges' PROVE e.track <= n + 2
    <3>1. PICK d \in Drawn' :
            \/ /\ first[d] # None
               /\ e = [child |-> d, parent |-> first[d], track |-> track'[d][1]]
            \/ /\ second[d] # None
               /\ e = [child |-> d, parent |-> second[d], track |-> track'[d][2]]
      BY <2>1 DEF Edges
    <3>2. d \in Commits /\ (d \in Drawn \/ d = c)
      BY <2>1, Bounds, NumCommitsIsNatural DEF Drawn, Commits, c
    <3>3. CASE d = c
      BY <2>1, <2>3, <2>4, <2>6, <3>1, <3>3 DEF TypeOK
    <3>4. CASE d # c
      <4>1. track'[d] = track[d] /\ d \in Drawn
        BY <2>6, <3>2, <3>4 DEF TypeOK
      <4>2. e \in Edges
        BY <3>1, <4>1 DEF Edges
      <4>3. e.track <= n /\ e.track \in Nat
        BY <4>2, EdgeTypes DEF WidthInv, EdgesAreTyped, n
      <4> QED BY <2>3, <4>3
    <3> QED BY <3>3, <3>4
  <2> QED BY <2>6, <2>7, <2>8, <2>9 DEF WidthInv
<1>2. CASE (\E s \in Stashes : EmitStash(s)) \/ UNCHANGED vars
  BY <1>2, StashesChangeNoLane DEF WidthInv, Edges, Drawn
<1> QED BY <1>1, <1>2 DEF Next

LEMMA RowStep ==
  ASSUME TypeOK, RowInv, [Next]_vars
  PROVE  RowInv'
<1>1. CASE Place
  BY <1>1 DEF Place, RowInv, TypeOK
<1>2. ASSUME NEW s \in Stashes, EmitStash(s) PROVE RowInv'
  <2>1. /\ stashRow' = [stashRow EXCEPT ![s] = rows + 1] /\ rows' = rows + 1
        /\ rows \in Nat /\ stashRow \in [Stashes -> Nat]
    BY <1>2 DEF EmitStash, TypeOK
  <2> QED BY <2>1 DEF RowInv
<1>3. CASE UNCHANGED vars
  BY <1>3 DEF vars, RowInv
<1> QED BY <1>1, <1>2, <1>3 DEF Next

(* A set of numbers has a least one (the numbers are well-founded).        *)
LEMMA LeastNumber ==
  ASSUME NEW T, T \subseteq Nat, T # {}
  PROVE  \E n \in T : \A m \in T : n <= m
<1> DEFINE R == {ss \in Nat \X Nat : ss[1] < ss[2]}
<1>1. IsWellFoundedOn(R, Nat)
  BY NatLessThanWellFounded DEF OpToRel
<1> HIDE DEF R
<1>2. PICK n \in T : \A m \in T : ~ (<<m, n>> \in R)
  BY <1>1, WFMin
<1>3. \A m \in T : ~ (m < n)
  BY <1>2 DEF R
<1> QED BY <1>3

(* The tracks open to a line: Overlay takes the lowest of them.            *)
Free(preferred, from, to, others) ==
  {u \in Tracks : /\ u >= preferred /\ ~Busy(u, from, to)
                  /\ \A o \in others : o.track = u => o.to < from}

(* There is one: beyond every lane and every track of an edge there are    *)
(* more tracks than there are other lines.                                 *)
LEMMA FreeTrack ==
  ASSUME TypeOK, WidthInv, NEW others, IsFiniteSet(others),
         Cardinality(others) <= NumStashes, NEW from, NEW to,
         NEW preferred \in Nat, preferred <= 2 * NumCommits
  PROVE  Free(preferred, from, to, others) # {}
<1> DEFINE n == 2 * NumCommits
           beyond == n + 1 .. n + NumStashes + 1
           taken == {o.track : o \in others}
<1>1. n \in Nat /\ NumStashes \in Nat /\ 2 * placed \in Nat /\ 2 * placed <= n
  BY Bounds, NumCommitsIsNatural, NumStashesIsNatural
<1>2. Tracks = 0 .. n + NumStashes + 1
  BY DEF Tracks
<1>3. IsFiniteSet(taken) /\ Cardinality(taken) <= Cardinality(others)
  <2> DEFINE f == [o \in others |-> o.track]
  <2>1. f \in Surjection(others, taken)
    BY DEF Surjection
  <2> HIDE DEF f, taken
  <2> QED BY <2>1, FS_Surjection
<1>4. IsFiniteSet(beyond) /\ Cardinality(beyond) = NumStashes + 1
  <2> HIDE DEF n
  <2>1. n + 1 \in Int /\ n + NumStashes + 1 \in Int /\ ~(n + 1 > n + NumStashes + 1)
    BY <1>1
  <2>2. /\ IsFiniteSet(beyond)
        /\ Cardinality(beyond) = (n + NumStashes + 1) - (n + 1) + 1
    BY <2>1, FS_Interval
  <2> QED BY <1>1, <2>2
<1>5. PICK u \in beyond : u \notin taken
  <2> SUFFICES ASSUME beyond \subseteq taken PROVE FALSE
    OBVIOUS
  <2> HIDE DEF beyond, taken
  <2>1. Cardinality(beyond) <= Cardinality(taken)
    BY <1>3, FS_Subset
  <2>2. Cardinality(taken) \in Nat /\ Cardinality(others) \in Nat
    BY <1>3, FS_CardinalityType
  <2> QED BY <1>1, <1>3, <1>4, <2>1, <2>2
<1> HIDE DEF n
<1>6. u \in Tracks /\ u >= preferred /\ u > 2 * placed
  BY <1>1, <1>2 DEF n
<1>7. \A o \in others : o.track # u
  BY <1>5
<1>8. ~Busy(u, from, to)
  <2>1. ASSUME NEW c \in Drawn PROVE lane[c] # u
    <3>1. c \in Commits
      BY Bounds, NumCommitsIsNatural DEF Drawn, Commits
    <3> QED BY <1>1, <1>6, <3>1 DEF WidthInv, TypeOK
  <2>2. ASSUME NEW e \in Edges PROVE e.track # u
    BY <1>1, <1>6, EdgeTypes DEF WidthInv, EdgesAreTyped
  <2> QED BY <2>1, <2>2 DEF Busy
<1> QED BY <1>6, <1>7, <1>8 DEF Free

LEMMA OverlayIsFree ==
  ASSUME NEW preferred, NEW from, NEW to, NEW others,
         Free(preferred, from, to, others) # {}
  PROVE  LET o == Overlay(preferred, from, to, others) IN
         /\ o.track \in Free(preferred, from, to, others)
         /\ o.from = from /\ o.to = to
<1> DEFINE F == Free(preferred, from, to, others)
<1>1. F \subseteq Nat
  BY DEF Free, Tracks
<1> HIDE DEF F
<1>2. PICK u \in F : \A v \in F : u <= v
  BY <1>1, LeastNumber DEF F
<1>3. u \in LowestOf(F)
  BY <1>2 DEF LowestOf
<1>4. (CHOOSE t \in LowestOf(F) : TRUE) \in LowestOf(F)
  BY <1>3
<1>5. (CHOOSE t \in LowestOf(F) : TRUE) \in F
  BY <1>4 DEF LowestOf
<1>6. Overlay(preferred, from, to, others)
        = [track |-> CHOOSE t \in LowestOf(F) : TRUE, from |-> from, to |-> to]
  BY DEF Overlay, F, Free
<1> QED BY <1>5, <1>6 DEF F

(* The lines routed down to a row: no more than there are rows to start    *)
(* from, each along a free stretch of its track, no two along one stretch. *)
Emitted(n) == {r \in Stashes : stashRow[r] \in 1 .. n}
Laid(n, lines) ==
  /\ IsFiniteSet(lines) /\ Cardinality(lines) <= 1 + Cardinality(Emitted(n))
  /\ \A o \in lines : /\ o.from \in Nat /\ o.to \in Nat
                      /\ ~Busy(o.track, o.from, o.to)
  /\ \A o, p \in lines : o # p /\ o.track = p.track => o.to < p.from \/ p.to < o.from

LEMMA EmittedIsFinite ==
  ASSUME NEW n
  PROVE  /\ IsFiniteSet(Emitted(n)) /\ Cardinality(Emitted(n)) \in Nat
         /\ Emitted(n) # Stashes => Cardinality(Emitted(n)) < NumStashes
<1>1. IsFiniteSet(Stashes) /\ Cardinality(Stashes) = NumStashes
  BY FS_Interval, NumStashesIsNatural DEF Stashes
<1>2. Emitted(n) \in SUBSET Stashes
  BY DEF Emitted
<1> DEFINE E == Emitted(n)
<1> HIDE DEF E
<1>3. /\ IsFiniteSet(E) /\ Cardinality(E) <= Cardinality(Stashes)
      /\ Cardinality(Stashes) = Cardinality(E) => Stashes = E
  BY <1>1, <1>2, FS_Subset DEF E
<1>4. Cardinality(E) \in Nat
  BY <1>3, FS_CardinalityType
<1> QED BY <1>1, <1>3, <1>4, NumStashesIsNatural DEF E

LEMMA FirstLine ==
  ASSUME TypeOK, WidthInv
  PROVE  Laid(0, WipOverlay)
<1>1. IsFiniteSet({}) /\ Cardinality({}) = 0
  BY FS_EmptySet
<1>2. Cardinality(Emitted(0)) \in Nat
  BY EmittedIsFinite
<1>3. CASE ~ (wip /\ head \in Drawn)
  BY <1>1, <1>2, <1>3 DEF WipOverlay, Laid
<1>4. CASE wip /\ head \in Drawn
  <2> DEFINE o == Overlay(lane[head], 1, row[head], {})
  <2>1. head \in Commits
    BY <1>4, Bounds, NumCommitsIsNatural DEF Drawn, Commits
  <2>2. lane[head] \in Nat /\ lane[head] <= 2 * NumCommits /\ row[head] \in Nat
    BY <1>4, <2>1, Bounds, NumCommitsIsNatural DEF WidthInv, TypeOK
  <2>3. o.track \in Free(lane[head], 1, row[head], {}) /\ o.from = 1 /\ o.to = row[head]
    BY <1>1, <2>2, FreeTrack, OverlayIsFree, NumStashesIsNatural
  <2>4. WipOverlay = {o}
    BY <1>4 DEF WipOverlay
  <2> HIDE DEF o
  <2>5. IsFiniteSet({o}) /\ Cardinality({o}) = 1
    BY FS_Singleton
  <2> QED BY <1>2, <2>2, <2>3, <2>4, <2>5 DEF Laid, Free
<1> QED BY <1>3, <1>4

LEMMA NextLine ==
  ASSUME TypeOK, WidthInv, RowInv, NEW n \in Nat, n # 0,
         NEW above, Laid(n - 1, above)
  PROVE  Laid(n, Routed(n, above))
<1> DEFINE here == {r \in Stashes : stashRow[r] = n}
<1>1. Emitted(n) = Emitted(n - 1) \cup here
  <2>1. \A r \in Stashes : stashRow[r] \in Nat
    BY DEF TypeOK
  <2>2. \A m \in Nat : m \in 1 .. n <=> m \in 1 .. n - 1 \/ m = n
    OBVIOUS
  <2> QED BY <2>1, <2>2 DEF Emitted
<1>2. CASE here = {}
  BY <1>1, <1>2 DEF Routed, Laid
<1>3. CASE here # {}
  <2>1. PICK s \in Stashes : stashRow[s] = n
    BY <1>3
  <2>2. here = {s}
    BY <2>1 DEF RowInv, None
  <2> DEFINE o == StashOverlay(s, above)
  <2>3. Routed(n, above) = above \cup {o}
    BY <2>2 DEF Routed
  <2>4. s \notin Emitted(n - 1)
    BY <2>1 DEF Emitted
  <2>5. /\ Cardinality(above) \in Nat /\ Cardinality(Emitted(n - 1)) \in Nat
        /\ Cardinality(above) <= 1 + Cardinality(Emitted(n - 1))
        /\ Cardinality(Emitted(n - 1)) < NumStashes
    BY <2>4, EmittedIsFinite, FS_CardinalityType DEF Laid
  <2>6. Cardinality(above) <= NumStashes
    BY <2>5, NumStashesIsNatural
  <2>7. Cardinality(Emitted(n)) = Cardinality(Emitted(n - 1)) + 1
    <3> DEFINE E == Emitted(n - 1)
    <3>1. Emitted(n) = E \cup {s} /\ IsFiniteSet(E) /\ s \notin E
      BY <1>1, <2>2, <2>4, EmittedIsFinite
    <3> HIDE DEF E
    <3>2. Cardinality(E \cup {s}) = Cardinality(E) + 1
      BY <3>1, FS_AddElement
    <3> QED BY <3>1, <3>2 DEF E
  <2>8. base[s] \in Drawn => base[s] \in Commits
    BY Bounds, NumCommitsIsNatural DEF Drawn, Commits
  <2>9. /\ o.from \in Nat /\ o.to \in Nat
        /\ \E preferred : o.track \in Free(preferred, o.from, o.to, above)
    <3>1. CASE base[s] \in Drawn
      <4> DEFINE b == base[s]
      <4>1. /\ lane[b] \in Nat /\ lane[b] <= 2 * NumCommits /\ row[b] \in Nat
        BY <2>8, <3>1, Bounds, NumCommitsIsNatural DEF WidthInv, TypeOK
      <4>2. o = Overlay(lane[b], n, row[b], above)
        BY <2>1, <3>1 DEF StashOverlay
      <4> HIDE DEF b, o
      <4>3. Free(lane[b], n, row[b], above) # {}
        BY <2>6, <4>1, FreeTrack DEF Laid
      <4> QED BY <4>1, <4>2, <4>3, OverlayIsFree
    <3>2. CASE base[s] \notin Drawn
      <4>1. 1 <= 2 * NumCommits
        BY Bounds, NumCommitsIsNatural
      <4>2. o = Overlay(1, n, n + 1, above)
        BY <2>1, <3>2 DEF StashOverlay
      <4> HIDE DEF o
      <4>3. Free(1, n, n + 1, above) # {}
        BY <2>6, <4>1, FreeTrack DEF Laid
      <4> QED BY <4>2, <4>3, OverlayIsFree
    <3> QED BY <3>1, <3>2
  <2> HIDE DEF o
  <2>10. /\ ~Busy(o.track, o.from, o.to)
         /\ \A p \in above : p.track = o.track => p.to < o.from
    BY <2>9 DEF Free
  <2>11. /\ IsFiniteSet(above \cup {o})
         /\ Cardinality(above \cup {o}) <= Cardinality(above) + 1
    <3>1. IsFiniteSet(above)
      BY DEF Laid
    <3>2. /\ IsFiniteSet(above \cup {o})
          /\ Cardinality(above \cup {o})
               = IF o \in above THEN Cardinality(above) ELSE Cardinality(above) + 1
      BY <3>1, FS_AddElement
    <3> QED BY <2>5, <3>2
  <2>12. /\ Cardinality(above \cup {o}) \in Nat
         /\ Cardinality(above \cup {o}) <= 1 + Cardinality(Emitted(n))
    BY <2>5, <2>7, <2>11, FS_CardinalityType
  <2>13. ASSUME NEW p \in above \cup {o}, NEW q \in above \cup {o},
                p # q, p.track = q.track
         PROVE  p.to < q.from \/ q.to < p.from
    BY <2>10, <2>13 DEF Laid
  <2>14. \A p \in above \cup {o} : /\ p.from \in Nat /\ p.to \in Nat
                                   /\ ~Busy(p.track, p.from, p.to)
    BY <2>9, <2>10 DEF Laid
  <2> QED BY <2>3, <2>11, <2>12, <2>13, <2>14 DEF Laid
<1> QED BY <1>2, <1>3

(* upTo is the function its recursion describes: there is one down to each *)
(* row, since the one down to the row above can be extended.               *)
LEMMA RoutesExist ==
  ASSUME rows \in Nat
  PROVE  upTo = [n \in 0 .. rows |->
                   IF n = 0 THEN WipOverlay ELSE Routed(n, upTo[n - 1])]
<1> DEFINE Describes(f, n) ==
             f = [m \in 0 .. n |-> IF m = 0 THEN WipOverlay ELSE Routed(m, f[m - 1])]
           T == {n \in Nat : ~ \E f : Describes(f, n)}
<1>1. T = {}
  <2> SUFFICES ASSUME T # {} PROVE FALSE
    OBVIOUS
  <2>1. PICK n \in T : \A m \in T : n <= m
    BY LeastNumber
  <2>2. n # 0
    <3> DEFINE f == [m \in 0 .. 0 |-> WipOverlay]
    <3>1. Describes(f, 0)
      OBVIOUS
    <3> QED BY <2>1, <3>1
  <2>3. PICK f : Describes(f, n - 1)
    <3>1. n \in Nat /\ n - 1 \in Nat /\ ~(n <= n - 1)
      BY <2>1, <2>2
    <3>2. n - 1 \notin T
      BY <2>1, <3>1
    <3> HIDE DEF Describes
    <3> QED BY <3>1, <3>2
  <2> DEFINE g == [m \in 0 .. n |-> IF m = n THEN Routed(n, f[n - 1]) ELSE f[m]]
  <2>4. ASSUME NEW m \in 0 .. n
        PROVE  g[m] = IF m = 0 THEN WipOverlay ELSE Routed(m, g[m - 1])
    BY <2>1, <2>2, <2>3
  <2>5. Describes(g, n)
    BY <2>4
  <2> QED BY <2>1, <2>5
<1>2. PICK f : Describes(f, rows)
  BY <1>1
<1> QED BY <1>2 DEF upTo

LEMMA LinesAreLaid ==
  ASSUME TypeOK, WidthInv, RowInv
  PROVE  Laid(rows, Overlays)
<1> DEFINE T == {n \in 0 .. rows : ~Laid(n, upTo[n])}
<1>1. rows \in Nat
  BY DEF TypeOK
<1>2. \A n \in 0 .. rows :
        upTo[n] = IF n = 0 THEN WipOverlay ELSE Routed(n, upTo[n - 1])
  <2> DEFINE body == [n \in 0 .. rows |->
                        IF n = 0 THEN WipOverlay ELSE Routed(n, upTo[n - 1])]
  <2>1. upTo = body
    BY <1>1, RoutesExist
  <2>2. \A n \in 0 .. rows :
          body[n] = IF n = 0 THEN WipOverlay ELSE Routed(n, upTo[n - 1])
    OBVIOUS
  <2> HIDE DEF body
  <2> QED BY <2>1, <2>2
<1>3. T = {}
  <2> SUFFICES ASSUME T # {} PROVE FALSE
    OBVIOUS
  <2>1. PICK n \in T : \A m \in T : n <= m
    <3>1. T \subseteq Nat
      BY <1>1
    <3> HIDE DEF T
    <3> QED BY <3>1, LeastNumber
  <2>2. n # 0
    BY <1>1, <1>2, <2>1, FirstLine
  <2>3. n \in Nat /\ n - 1 \in 0 .. rows /\ Laid(n - 1, upTo[n - 1])
    BY <1>1, <2>1, <2>2
  <2>4. Laid(n, Routed(n, upTo[n - 1]))
    BY <2>2, <2>3, NextLine
  <2> QED BY <1>2, <2>1, <2>2, <2>4
<1> QED BY <1>1, <1>3 DEF Overlays

LEMMA LaidIsClear ==
  ASSUME TypeOK, WidthInv, RowInv
  PROVE  OverlaysAreClear
<1>1. Laid(rows, Overlays)
  BY LinesAreLaid
<1> SUFFICES ASSUME NEW o \in Overlays
    PROVE  /\ \A c \in Drawn : lane[c] = o.track => ~(o.from < row[c] /\ row[c] < o.to)
           /\ \A e \in Edges : e.track = o.track /\ e.parent \in Drawn
                                 => ~Crosses(o, row[e.child], row[e.parent])
           /\ \A p \in Overlays : p.track = o.track /\ p # o
                                    => ~Crosses(o, p.from, p.to)
  BY DEF OverlaysAreClear
<1>2. o.from \in Nat /\ o.to \in Nat /\ ~Busy(o.track, o.from, o.to)
  BY <1>1 DEF Laid
<1>3. ASSUME NEW c \in Drawn, lane[c] = o.track
      PROVE  ~(o.from < row[c] /\ row[c] < o.to)
  <2>1. c \in Commits
    BY Bounds, NumCommitsIsNatural DEF Drawn, Commits
  <2>2. row[c] \in Nat
    BY <2>1 DEF TypeOK
  <2> QED BY <1>2, <1>3, <2>2 DEF Busy
<1>4. ASSUME NEW e \in Edges, e.track = o.track, e.parent \in Drawn
      PROVE  ~Crosses(o, row[e.child], row[e.parent])
  <2>1. e.parent \in Commits
    BY <1>4, Bounds, NumCommitsIsNatural DEF Drawn, Commits
  <2>2. row[e.parent] \in Nat
    BY <2>1 DEF TypeOK
  <2> QED BY <1>2, <1>4, <2>2 DEF Busy, EndRow, Crosses
<1>5. ASSUME NEW p \in Overlays, p.track = o.track, p # o
      PROVE  ~Crosses(o, p.from, p.to)
  BY <1>1, <1>5 DEF Laid, Crosses
<1> QED BY <1>3, <1>4, <1>5

(* The dashed lines of the stashes and of the uncommitted work (GraphSvg,  *)
(* trackIsBusy) cross no commit, no edge between loaded commits and not    *)
(* each other, for histories of any size and any number of stashes.        *)
THEOREM DashedLinesAreClear == Spec => []OverlaysAreClear
<1> DEFINE Inv == TypeOK /\ WidthInv /\ RowInv
<1>1. Init => Inv
  <2> SUFFICES ASSUME Init PROVE WidthInv /\ RowInv
    BY TypeInit
  <2>1. Drawn = {} /\ Edges = {}
    BY DEF Init, Edges, Drawn
  <2>2. WidthInv
    BY <2>1 DEF WidthInv, Init
  <2>3. RowInv
    BY DEF RowInv, Init, None
  <2> QED BY <2>2, <2>3
<1>2. Inv /\ [Next]_vars => Inv'
  BY TypeStep, WidthStep, RowStep
<1>3. Inv => OverlaysAreClear
  BY LaidIsClear
<1> QED BY <1>1, <1>2, <1>3, PTL DEF Spec
=============================================================================
