---------------------------- MODULE CommitGraph ----------------------------
(***************************************************************************)
(* How the history of a repository is laid out in lanes: the walk of       *)
(* get_log assigns each commit a lane and each of its edges a track        *)
(* (git/graph.rs, commands/log.rs), the window merges stashes and the row  *)
(* of uncommitted work into the rows it has loaded (GraphView.tsx) and     *)
(* draws each of these along a track of its own down to the commit it      *)
(* belongs to (GraphSvg.tsx, graphTracks.ts).                              *)
(*                                                                         *)
(* Commits are numbered in the order of the walk, which is topological: a  *)
(* parent has a greater number than its child.  Every page walks from the  *)
(* top again, so what the window has loaded is the beginning of one walk.  *)
(***************************************************************************)
EXTENDS Naturals, FiniteSets

CONSTANTS
  NumCommits,   (* bound: commits of a history                              *)
  NumStashes,   (* bound: stashes                                           *)
  Sizes         (* the sizes checked: [commits |-> n, stashes |-> m]        *)

ASSUME NumCommitsIsNatural == NumCommits \in Nat
ASSUME NumStashesIsNatural == NumStashes \in Nat
ASSUME SizesAreSizes ==
  Sizes \subseteq [commits : 1 .. NumCommits, stashes : 0 .. NumStashes]

Commits == 1 .. NumCommits
Stashes == 1 .. NumStashes
None == 0

VARIABLES
  size,       (* the commits and the stashes there are                      *)
  first,      (* the first parent of a commit, or None                      *)
  second,     (* the second parent of a merge, or None                      *)
  head,       (* the checked-out commit, None when it is not in the walk    *)
  primary,    (* the commit lane zero is reserved for, or None              *)
  base,       (* the commit each stash was taken on                         *)
  wip,        (* the row of uncommitted work is shown, as the first         *)
  active,     (* LaneState.active: which commit a lane waits for            *)
  placed,     (* the commits with a row                                     *)
  lane,       (* CommitEntry.lane                                           *)
  track,      (* CommitEntry.parent_lanes: of the first and second parent   *)
  row,        (* the row of a commit, or None                               *)
  stashRow,   (* the row of a stash, or None                                *)
  rows        (* how many rows there are                                    *)

history == <<size, first, second, head, primary, base, wip>>
layout == <<active, placed, lane, track>>
vars == <<history, layout, row, stashRow, rows>>

-----------------------------------------------------------------------------
(* Lanes (git/graph.rs).                                                   *)

LowestOf(S) == {n \in S : \A m \in S : n <= m}

Waiting(lanes, c) == {l \in DOMAIN lanes : lanes[l] = c}
Unused(lanes) == (0 .. Cardinality(DOMAIN lanes)) \ DOMAIN lanes

(* Mutant: a commit that several lanes wait for takes the last of them.    *)
LastTrackFor(lanes, c) ==
  IF Waiting(lanes, c) # {}
  THEN {l \in Waiting(lanes, c) : \A m \in Waiting(lanes, c) : m <= l}
  ELSE LowestOf(Unused(lanes))

(* The lowest lane that waits for a commit, else the lowest free one.      *)
TrackFor(lanes, c) ==
  IF Waiting(lanes, c) # {} THEN LowestOf(Waiting(lanes, c))
  ELSE LowestOf(Unused(lanes))

With(lanes, l, c) ==
  [m \in DOMAIN lanes \cup {l} |-> IF m = l THEN c ELSE lanes[m]]

(* Mutant: only the lane the commit takes stops waiting for it.            *)
OneLaneReleased(lanes, c, l) == [m \in DOMAIN lanes \ {l} |-> lanes[m]]

(* Every lane that waited for the commit collapses into the one it takes.  *)
Released(lanes, c, l) ==
  [m \in DOMAIN lanes \ Waiting(lanes, c) |-> lanes[m]]

(* The line goes on to the first parent in the lane of the commit.         *)
Continued(lanes, c, l) ==
  IF first[c] = None THEN Released(lanes, c, l)
  ELSE With(Released(lanes, c, l), l, first[c])

(* Mutant: the second parent is given a lane before the first one is.      *)
SecondParentFirst(lanes, c, l, t) ==
  /\ t \in TrackFor(Released(lanes, c, l), second[c])
  /\ active' = With(Continued(lanes, c, l), t, second[c])

(* The second parent of a merge has the lane that waits for it already, or *)
(* a new one.                                                              *)
Forked(lanes, c, l, t) ==
  /\ t \in TrackFor(Continued(lanes, c, l), second[c])
  /\ active' = With(Continued(lanes, c, l), t, second[c])

(* LaneState::assign for the next commit of the walk, whose row comes      *)
(* after the stashes that were taken on it (GraphView).                    *)
Place ==
  /\ placed < size.commits
  /\ LET c == placed + 1 IN
     /\ \A s \in Stashes : base[s] = c => stashRow[s] # None
     /\ \E l \in TrackFor(active, c) :
          /\ lane' = [lane EXCEPT ![c] = l]
          /\ \/ /\ second[c] = None
                /\ active' = Continued(active, c, l)
                /\ track' = [track EXCEPT ![c] = <<l, l>>]
             \/ /\ second[c] # None
                /\ \E t \in 0 .. Cardinality(DOMAIN active) + 1 :
                     /\ Forked(active, c, l, t)
                     /\ track' = [track EXCEPT ![c] = <<l, t>>]
     /\ row' = [row EXCEPT ![c] = rows + 1]
  /\ placed' = placed + 1
  /\ rows' = rows + 1
  /\ UNCHANGED <<history, stashRow>>

(* A stash is merged in by its time, anywhere above its commit.            *)
EmitStash(s) ==
  /\ base[s] > placed /\ stashRow[s] = None
  /\ stashRow' = [stashRow EXCEPT ![s] = rows + 1]
  /\ rows' = rows + 1
  /\ UNCHANGED <<history, layout, row>>

-----------------------------------------------------------------------------
(* What the walk starts from (commands/log.rs).                            *)

(* The first-parent line from a commit.                                    *)
Line(c) ==
  LET below[n \in 0 .. NumCommits] ==
        IF n = 0 THEN c
        ELSE IF below[n - 1] = None THEN None ELSE first[below[n - 1]]
  IN {below[n] : n \in 0 .. NumCommits} \ {None}

(* primary_lane_oid: the head, or the tip of a branch on whose first-      *)
(* parent line it is; a filtered log starts with its first root.           *)
MayBePrimary(c) == head # None => head \in Line(c)

Init ==
  /\ size \in Sizes
  /\ first \in {f \in [Commits -> Commits \cup {None}] :
       \A c \in Commits : f[c] # None => c < f[c] /\ f[c] <= size.commits}
  /\ second \in {f \in [Commits -> Commits \cup {None}] :
       \A c \in Commits : f[c] # None =>
         /\ c < f[c] /\ f[c] <= size.commits
         /\ first[c] # None /\ first[c] # f[c]}
  /\ head \in (1 .. size.commits) \cup {None}
  /\ primary \in {c \in 1 .. size.commits : MayBePrimary(c)}
                 \cup (IF head = None THEN {None} ELSE {})
  /\ base \in {b \in [Stashes -> Commits \cup {None}] :
       \A s \in Stashes : IF s <= size.stashes
                          THEN b[s] \in 1 .. size.commits ELSE b[s] = None}
  /\ \A r, s \in Stashes : r < s /\ base[s] # None => base[r] <= base[s]
  /\ wip \in BOOLEAN
  /\ active = [l \in (IF primary = None THEN {} ELSE {0}) |-> primary]
  /\ placed = 0
  /\ lane = [c \in Commits |-> 0]
  /\ track = [c \in Commits |-> <<0, 0>>]
  /\ row = [c \in Commits |-> None]
  /\ stashRow = [s \in Stashes |-> None]
  /\ rows = IF wip THEN 1 ELSE 0

Next == Place \/ \E s \in Stashes : EmitStash(s)

Spec == Init /\ [][Next]_vars

-----------------------------------------------------------------------------
(* What is drawn of the rows loaded so far.                                *)

Drawn == 1 .. placed
Edges ==
  {[child |-> c, parent |-> first[c], track |-> track[c][1]] :
     c \in {d \in Drawn : first[d] # None}}
  \cup {[child |-> c, parent |-> second[c], track |-> track[c][2]] :
          c \in {d \in Drawn : second[d] # None}}

(* buildTrackSpans and trackIsBusy: a commit occupies its row, an edge the *)
(* rows it crosses, and an edge to a parent that is not loaded one row.    *)
EndRow(e) == IF e.parent \in Drawn THEN row[e.parent] ELSE row[e.child] + 1

(* Mutant: an edge is taken to end where it starts.                        *)
BusyAtNodes(t, from, to) ==
  \/ \E c \in Drawn : lane[c] = t /\ from <= row[c] /\ row[c] < to
  \/ \E e \in Edges : e.track = t /\ from <= row[e.child] /\ row[e.child] < to

Busy(t, from, to) ==
  \/ \E c \in Drawn : lane[c] = t /\ from <= row[c] /\ row[c] < to
  \/ \E e \in Edges : e.track = t /\ row[e.child] < to /\ EndRow(e) > from

Tracks == 0 .. 2 * NumCommits + NumStashes + 1

(* The lowest track from the preferred one on that no commit, no edge and  *)
(* none of the overlays placed so far occupies.                            *)
Overlay(preferred, from, to, others) ==
  [track |-> CHOOSE t \in LowestOf({u \in Tracks :
               /\ u >= preferred /\ ~Busy(u, from, to)
               /\ \A o \in others : o.track = u => o.to < from}) : TRUE,
   from |-> from, to |-> to]

(* The uncommitted work hangs above the head, a stash above its commit; one*)
(* whose commit is not loaded is a stub.                                   *)
WipOverlay ==
  IF wip /\ head \in Drawn THEN {Overlay(lane[head], 1, row[head], {})} ELSE {}
StashOverlay(s, others) ==
  IF base[s] \in Drawn THEN Overlay(lane[base[s]], stashRow[s], row[base[s]], others)
  ELSE Overlay(1, stashRow[s], stashRow[s] + 1, others)

(* They are routed one after the other, in the order of their rows.        *)
Routed(n, above) ==
  above \cup {StashOverlay(s, above) : s \in {r \in Stashes : stashRow[r] = n}}

upTo[n \in 0 .. rows] == IF n = 0 THEN WipOverlay ELSE Routed(n, upTo[n - 1])

Overlays == upTo[rows]

-----------------------------------------------------------------------------
(* Properties.                                                             *)

TypeOK ==
  /\ size \in Sizes
  /\ first \in [Commits -> Commits \cup {None}]
  /\ second \in [Commits -> Commits \cup {None}]
  /\ \A c \in Commits : first[c] # None => c < first[c] /\ first[c] <= size.commits
  /\ \A c \in Commits : second[c] # None =>
       /\ c < second[c] /\ second[c] <= size.commits
       /\ first[c] # None /\ first[c] # second[c]
  /\ head \in Commits \cup {None}
  /\ primary \in Commits \cup {None} /\ primary <= size.commits
  /\ base \in [Stashes -> Commits \cup {None}]
  /\ wip \in BOOLEAN
  /\ DOMAIN active \subseteq Nat
  /\ placed \in 0 .. size.commits
  /\ lane \in [Commits -> Nat]
  /\ track \in [Commits -> Nat \X Nat]
  /\ row \in [Commits -> Nat]
  /\ stashRow \in [Stashes -> Nat]
  /\ rows \in Nat

(* While an edge runs down its track, no other commit sits on that track   *)
(* and no edge to another parent runs along it: two lines of history are   *)
(* never drawn over each other, whatever merges and forks the walk meets   *)
(* and wherever a page ends.                                               *)
TracksAreExclusive ==
  \A e, f \in Edges :
    /\ \A d \in Drawn : e.child < d /\ d < e.parent => lane[d] # e.track
    /\ e.track = f.track /\ e.child <= f.child /\ f.child < e.parent
         => e.parent = f.parent

(* The line the log was asked to keep straight is: the commit lane zero    *)
(* was reserved for comes out in it, and so does the first parent of every *)
(* commit in it ("The whole line then renders as one straight lane", of    *)
(* primary_lane_oid).                                                      *)
HeadLineIsStraight ==
  /\ primary \in Drawn => lane[primary] = 0
  /\ \A c \in Drawn : lane[c] = 0 /\ first[c] \in Drawn => lane[first[c]] = 0

(* A lane is held open only for a commit that is still to come, so the     *)
(* graph has no columns that nothing will fill, and at the end of the walk *)
(* it has none.                                                            *)
NoDeadLanes ==
  \A l \in DOMAIN active : active[l] \in placed + 1 .. size.commits

(* The dashed lines of the stashes and of the uncommitted work run over no *)
(* commit, over no edge between two loaded commits and not over each       *)
(* other, whichever rows are loaded.                                       *)
Crosses(o, from, to) == from < o.to /\ o.from < to
OverlaysAreClear ==
  \A o \in Overlays :
    /\ \A c \in Drawn : lane[c] = o.track => ~(o.from < row[c] /\ row[c] < o.to)
    /\ \A e \in Edges : e.track = o.track /\ e.parent \in Drawn
                          => ~Crosses(o, row[e.child], row[e.parent])
    /\ \A p \in Overlays : p.track = o.track /\ p # o => ~Crosses(o, p.from, p.to)
=============================================================================
