-------------------------- MODULE SubmoduleFollow --------------------------
(***************************************************************************)
(* One submodule.  The parent records a commit for it (the pin); a pull, a *)
(* rebase or a switch of branches in the parent moves the pin, and         *)
(* follow_recorded_pins (git/submodule.rs) takes the checkout there.  On   *)
(* the way attach_head (git/head_attach.rs) puts a detached checkout back  *)
(* on a branch.  Meanwhile the submodule is open in a tab of its own,      *)
(* whose pull attaches too, the user works in it with git, and other       *)
(* commands of the parent move the pin and the checkout.                   *)
(*                                                                         *)
(* A run of git is one step, what libgit2 reads for one decision is        *)
(* another, and anybody may come in between: the lock of the parent keeps  *)
(* only other commands of the application on the parent away.              *)
(***************************************************************************)
EXTENDS Naturals, FiniteSets

CONSTANTS
  Upstream,    (* how many commits the submodule's server has, in one line  *)
  MaxCommits,  (* bound: those and the ones that are made here              *)
  MaxCommands  (* bound: commands of the application, and of the user but    *)
               (* for commits                                               *)

ASSUME CommitsAreNumbers ==
  Upstream \in Nat \ {0} /\ MaxCommits \in Nat /\ Upstream <= MaxCommits
  /\ MaxCommands \in Nat

VARIABLES
  past,     (* a commit's history, itself included                          *)
  made,     (* how many commits there are                                   *)
  replaced, (* bookkeeping: those a pull that rebases made again            *)
  tip,      (* the local branches of the submodule; NoCommit when missing   *)
  remote,   (* origin/main as far as it has been fetched                    *)
  on,       (* the branch HEAD is on, None when it is detached              *)
  bare,     (* the commit of a detached HEAD                                *)
  pin,      (* the commit the parent's index records                        *)
  before,   (* pins_before of the parent's operation                        *)
  at,       (* where the follow and the submodule's tab are                 *)
  errand,   (* what they attach for                                         *)
  saw,      (* the head and the tip they looked at last                     *)
  goal,     (* the branch it switches to                                    *)
  commands, (* bookkeeping: how many commands there were                    *)
  quiet     (* bookkeeping: nobody but the follow moved HEAD or the pin     *)

history == <<past, made, replaced>>
refs == <<tip, remote>>
checkout == <<on, bare>>
parent == <<pin, before>>
attaching == <<saw, goal>>
vars == <<history, refs, checkout, parent, at, errand, attaching, commands,
          quiet>>

None == "none"
NoCommit == 0
Commits == 1 .. MaxCommits
Published == 1 .. Upstream
Made == 1 .. made

Main == "main"     (* default_branch: the one origin/HEAD names             *)
Branches == {Main, "own"}

Follow == "follow"
Tab == "tab"
Actors == {Follow, Tab}
Places == {"idle", "attaching", "branching", "sliding", "switching",
           "operating", "looking", "checking", "setting_aside", "updating",
           "reporting", "measuring", "pulling", "staging"}
Errands == {None, "follow", "settle", "pull", "snap", "bump"}

(* What HEAD resolves to.                                                  *)
Head == IF on = None THEN bare ELSE tip[on]

(* Commits whose objects are here: fetched or made here.                   *)
Known == past[remote] \cup (Made \ Published)

Descends(c, a) == a \in past[c]
Related(c, d) == Descends(c, d) \/ Descends(d, c)

(* What --branches and --remotes reach.                                    *)
Saved(c) == c \in past[remote] \/ \E b \in Branches : c \in past[tip[b]]

(* Mutant of HeadHasUnsaved: rev-list asks with --all, which has HEAD      *)
(* among the references, and never finds any.                              *)
NeverUnsaved == FALSE

(* head_has_unsaved_commits.                                               *)
HeadHasUnsaved == ~Saved(Head)

(* What a branch or HEAD still leads to.                                   *)
Reached(c) == Saved(c) \/ c \in past[Head]

GoesFor(a, place, what) ==
  /\ at' = [at EXCEPT ![a] = place]
  /\ errand' = [errand EXCEPT ![a] = what]
Goes(a, place) == GoesFor(a, place, errand[a])
Idles(a) == GoesFor(a, "idle", None)

Nothing == [head |-> NoCommit, tip |-> NoCommit]

Init ==
  /\ past = [c \in 0 .. MaxCommits |-> IF c \in Published THEN 1 .. c ELSE {}]
  /\ made = Upstream
  /\ replaced = {}
  /\ remote \in Published
  /\ \E t \in 0 .. remote :
       tip = [b \in Branches |-> IF b = Main THEN t ELSE NoCommit]
  /\ \/ on = Main /\ tip[Main] # NoCommit /\ bare = NoCommit
     \/ on = None /\ bare \in 1 .. remote
  /\ pin = Head
  /\ before = NoCommit
  /\ at = [a \in Actors |-> "idle"]
  /\ errand = [a \in Actors |-> None]
  /\ saw = [a \in Actors |-> Nothing]
  /\ goal = [a \in Actors |-> None]
  /\ commands = 0
  /\ quiet = FALSE

(* Another command of the application, or of the user, begins.             *)
Begins == commands < MaxCommands /\ commands' = commands + 1

-----------------------------------------------------------------------------
(* attach_head.                                                            *)

(* Mutant of MayMove: attach_submodule may move the checkout forward too.  *)
MayMoveAnyway(a) == TRUE

(* AttachMode::MayMoveForward: only the pull of the submodule's own tab.   *)
MayMove(a) == errand[a] = "pull"

(* Where the caller goes on: the follow to its next check or to its end,   *)
(* the tab to its pull, to git add or to nothing more.                     *)
Attached(a) ==
  \/ errand[a] = "follow" /\ Goes(a, "checking")
  \/ errand[a] = "settle" /\ Goes(a, "reporting")
  \/ errand[a] = "pull"   /\ Goes(a, "measuring")
  \/ errand[a] = "bump"   /\ Goes(a, "staging")
  \/ errand[a] = "snap"   /\ Idles(a)

(* NotAttached: an error for the pull, a line in the log for the others.   *)
NotAttached(a) == IF errand[a] = "pull" THEN Idles(a) ELSE Attached(a)

(* On a branch already: nothing is done, and a pull needs no second look.  *)
AlreadyOn(a) == IF errand[a] = "pull" THEN Goes(a, "pulling") ELSE Attached(a)

SwitchTo(a, b) == Goes(a, "switching") /\ goal' = [goal EXCEPT ![a] = b]

Looks(a) == saw' = [saw EXCEPT ![a] = [head |-> Head, tip |-> tip[Main]]]
Forgets(a) == saw' = [saw EXCEPT ![a] = Nothing]

HereAlready == {b \in Branches : tip[b] = Head}

Remembers(a, place) == Goes(a, place) /\ Looks(a) /\ UNCHANGED goal

(* The branches are read once and the way is chosen from what they were.   *)
ReadRefs(a) ==
  /\ at[a] = "attaching"
  /\ \/ on # None /\ AlreadyOn(a) /\ UNCHANGED <<saw, goal>>
     \/ /\ on = None /\ HereAlready # {}
        /\ SwitchTo(a, IF Main \in HereAlready THEN Main ELSE "own")
        /\ Looks(a)
     \/ /\ on = None /\ HereAlready = {} /\ tip[Main] = NoCommit
        /\ IF Related(Head, remote) THEN Remembers(a, "branching")
           ELSE NotAttached(a) /\ UNCHANGED <<saw, goal>>
     \/ /\ on = None /\ HereAlready = {} /\ tip[Main] # NoCommit
        /\ IF Descends(Head, tip[Main]) THEN Remembers(a, "sliding")
           ELSE IF Descends(tip[Main], Head) /\ MayMove(a)
           THEN SwitchTo(a, Main) /\ Looks(a)
           ELSE NotAttached(a) /\ UNCHANGED <<saw, goal>>
  /\ UNCHANGED <<commands, history, refs, checkout, parent, quiet>>

(* Mutant of SlideFrom: update-ref without the old value.                  *)
SlideAnyway(a) == TRUE

(* update-ref with the old value: fails when the branch moved meanwhile.   *)
SlideFrom(a) == tip[Main] = saw[a].tip

Slide(a) ==
  /\ at[a] = "sliding"
  /\ \/ /\ SlideFrom(a)
        /\ tip' = [tip EXCEPT ![Main] = saw[a].head]
        /\ SwitchTo(a, Main)
        /\ UNCHANGED saw
     \/ NotAttached(a) /\ Forgets(a) /\ UNCHANGED <<tip, goal>>
  /\ quiet' = (quiet /\ a = Follow)
  /\ UNCHANGED <<commands, history, remote, checkout, parent>>

(* git branch --no-track: fails when there is one by now.                  *)
MakeMain(a) ==
  /\ at[a] = "branching"
  /\ \/ /\ tip[Main] = NoCommit
        /\ tip' = [tip EXCEPT ![Main] = saw[a].head]
        /\ SwitchTo(a, Main)
        /\ UNCHANGED saw
     \/ NotAttached(a) /\ Forgets(a) /\ UNCHANGED <<tip, goal>>
  /\ quiet' = (quiet /\ a = Follow)
  /\ UNCHANGED <<commands, history, remote, checkout, parent>>

(* git switch, which an edit in the way or a held lock refuses.            *)
Switch(a) ==
  /\ at[a] = "switching"
  /\ \/ on' = goal[a] /\ bare' = NoCommit /\ Attached(a)
     \/ NotAttached(a) /\ UNCHANGED checkout
  /\ goal' = [goal EXCEPT ![a] = None]
  /\ Forgets(a)
  /\ quiet' = (quiet /\ a = Follow)
  /\ UNCHANGED <<commands, history, refs, parent>>

Attach(a) == ReadRefs(a) \/ Slide(a) \/ MakeMain(a) \/ Switch(a)

-----------------------------------------------------------------------------
(* git submodule update: takes the checkout to the pin, detached, unless   *)
(* it is there; fetches first when the pin is not here; leaves edits alone *)
(* or fails.                                                               *)
Detach(c) == on' = None /\ bare' = c

Fetched(c) == IF c \in Known THEN remote ELSE Upstream

CheckOutPin ==
  /\ remote' = Fetched(pin)
  /\ IF Head = pin THEN UNCHANGED checkout ELSE Detach(pin)

(* The follow.                                                             *)

Returns ==
  Idles(Follow) /\ Forgets(Follow) /\ before' = NoCommit /\ quiet' = FALSE

(* recorded_pins, before the operation.                                    *)
TakePins ==
  /\ Begins
  /\ at[Follow] = "idle"
  /\ before' = pin
  /\ Goes(Follow, "operating")
  /\ quiet' = TRUE
  /\ UNCHANGED <<history, refs, checkout, pin, attaching>>

(* The pull, rebase or switch itself; when it fails nothing is followed.   *)
Operate ==
  /\ at[Follow] = "operating"
  /\ \/ /\ pin' \in Published \cup {pin}
        /\ Goes(Follow, "looking")
        /\ UNCHANGED <<before, saw, quiet>>
     \/ Returns /\ UNCHANGED pin
  /\ UNCHANGED <<commands, history, refs, checkout, goal>>

(* ahead = 0 and behind > 0; both are 0 when the pin is not here to        *)
(* compare with.                                                           *)
OnlyBehind == pin \in Known /\ Descends(pin, Head)

ToBeFollowed == Head # pin /\ (pin # before \/ OnlyBehind)

(* The filter over moved_submodules.                                       *)
LookAtPin ==
  /\ at[Follow] = "looking"
  /\ IF ToBeFollowed
     THEN /\ GoesFor(Follow, "attaching", "follow")
          /\ UNCHANGED <<before, saw, quiet>>
     ELSE Returns
  /\ UNCHANGED <<commands, history, refs, checkout, pin, goal>>

(* A rev-list that fails counts as one that found nothing: the follow goes *)
(* on, having seen nothing of what HEAD has.                               *)
CheckUnsaved ==
  /\ at[Follow] = "checking"
  /\ \/ HeadHasUnsaved /\ Returns
     \/ /\ Goes(Follow, "setting_aside")
        /\ (~HeadHasUnsaved /\ Looks(Follow)) \/ Forgets(Follow)
        /\ UNCHANGED <<before, quiet>>
  /\ UNCHANGED <<commands, history, refs, checkout, pin, goal>>

(* nested_is_dirty and the stash of what there is, which may fail.         *)
SetAside ==
  /\ at[Follow] = "setting_aside"
  /\ \/ Goes(Follow, "updating") /\ UNCHANGED <<before, saw, quiet>>
     \/ Returns
  /\ UNCHANGED <<commands, history, refs, checkout, pin, goal>>

(* The update and, when it worked, attach_submodule.  It may fail at once, *)
(* after the fetch, or with the checkout moved, in a submodule of this one.*)
Update ==
  /\ at[Follow] = "updating"
  /\ \/ /\ CheckOutPin
        /\ GoesFor(Follow, "attaching", "settle")
        /\ Forgets(Follow)
        /\ UNCHANGED <<before, quiet>>
     \/ CheckOutPin /\ Returns
     \/ remote' \in {remote, Fetched(pin)} /\ Returns /\ UNCHANGED checkout
  /\ UNCHANGED <<commands, history, tip, pin, goal>>

Report ==
  /\ at[Follow] = "reporting"
  /\ Returns
  /\ UNCHANGED <<commands, history, refs, checkout, pin, goal>>

FollowStep ==
  TakePins \/ Operate \/ LookAtPin \/ CheckUnsaved \/ SetAside \/ Update
  \/ Report \/ Attach(Follow)

-----------------------------------------------------------------------------
(* The submodule's own tab: its pull, and "reset to the recorded version"  *)
(* and "get the newest" of the parent's list, which take no lock.          *)

StartPull ==
  /\ Begins
  /\ at[Tab] = "idle"
  /\ GoesFor(Tab, "attaching", "pull")
  /\ UNCHANGED <<history, refs, checkout, parent, attaching, quiet>>

(* needs_choice: attached to a branch that has diverged.                   *)
Measure ==
  /\ at[Tab] = "measuring"
  /\ IF on = Main /\ ~Related(remote, tip[Main]) THEN Idles(Tab)
     ELSE Goes(Tab, "pulling")
  /\ UNCHANGED <<commands, history, refs, checkout, parent, attaching, quiet>>

(* git pull: only a branch that follows one on the server has something to *)
(* get.  It moves forward, or the two are merged, or nothing comes of it.  *)
Pull ==
  /\ at[Tab] = "pulling"
  /\ Idles(Tab)
  /\ \/ /\ on = Main
        /\ remote' = Upstream
        /\ \/ /\ Descends(Upstream, tip[Main])
              /\ tip' = [tip EXCEPT ![Main] = Upstream]
              /\ UNCHANGED history
           \/ /\ ~Related(Upstream, tip[Main])
              /\ made < MaxCommits
              /\ made' = made + 1
              /\ past' = [past EXCEPT ![made'] =
                            past[tip[Main]] \cup Published \cup {made'}]
              /\ tip' = [tip EXCEPT ![Main] = made']
              /\ UNCHANGED replaced
           \/ UNCHANGED <<history, tip>>
     \/ UNCHANGED <<history, refs>>
  /\ quiet' = FALSE
  /\ UNCHANGED <<commands, checkout, parent, attaching>>

(* The same git pull under pull.rebase: what the branch has of its own is  *)
(* made again on top of the server's (as one commit here), or it stops at  *)
(* a conflict, off the branch.                                             *)
Rebase ==
  /\ at[Tab] = "pulling"
  /\ Idles(Tab)
  /\ on = Main /\ ~Related(Upstream, tip[Main])
  /\ remote' = Upstream
  /\ \/ /\ made < MaxCommits
        /\ made' = made + 1
        /\ past' = [past EXCEPT ![made'] = Published \cup {made'}]
        /\ tip' = [tip EXCEPT ![Main] = made']
        /\ replaced' = replaced \cup (past[tip[Main]] \ Published)
        /\ UNCHANGED checkout
     \/ Detach(Upstream) /\ UNCHANGED <<history, tip>>
  /\ quiet' = FALSE
  /\ UNCHANGED <<commands, parent, attaching>>

(* update_submodule: the pointer is put back, and what was on no branch is *)
(* given up, as the user asked.                                            *)
SnapBack ==
  /\ Begins
  /\ at[Tab] = "idle"
  /\ CheckOutPin
  /\ GoesFor(Tab, "attaching", "snap")
  /\ quiet' = FALSE
  /\ UNCHANGED <<history, tip, parent, attaching>>

(* bump_submodule: update --remote, attach, git add.                       *)
Bump ==
  /\ Begins
  /\ at[Tab] = "idle"
  /\ remote' = Upstream
  /\ IF Head = Upstream THEN UNCHANGED checkout ELSE Detach(Upstream)
  /\ GoesFor(Tab, "attaching", "bump")
  /\ quiet' = FALSE
  /\ UNCHANGED <<history, tip, parent, attaching>>

StageBump ==
  /\ at[Tab] = "staging"
  /\ Idles(Tab)
  /\ pin' \in {pin, Head}         (* git add may fail                       *)
  /\ quiet' = FALSE
  /\ UNCHANGED <<commands, history, refs, checkout, before, attaching>>

TabStep ==
  StartPull \/ Measure \/ Pull \/ Rebase \/ SnapBack \/ Bump \/ StageBump \/ Attach(Tab)

-----------------------------------------------------------------------------
(* Other commands of the parent.  The follow holds the parent's lock from  *)
(* its look to its end, and a pull not while git runs.                     *)
ParentIsFree == at[Follow] \in {"idle", "operating"}

(* sync_submodule_workdirs: libgit2's update, with no look at what HEAD    *)
(* has of its own; failures are ignored.                                   *)
Sync ==
  \/ pin' # Head /\ remote' = Fetched(pin') /\ Detach(pin')
  \/ UNCHANGED <<remote, checkout>>

(* A merge or a cherry-pick starts only when nothing differs.              *)
MergeInParent ==
  /\ Begins
  /\ ParentIsFree
  /\ Head = pin
  /\ pin' \in Published \ {pin}
  /\ Sync
  /\ quiet' = FALSE
  /\ UNCHANGED <<history, tip, before, at, errand, attaching>>

(* A hard reset sets aside what a stash takes, which is no commit of a     *)
(* submodule, and goes on when there is nothing else.                      *)
RewindParent ==
  /\ Begins
  /\ ParentIsFree
  /\ pin' \in Published \cup {pin}
  /\ Sync
  /\ quiet' = FALSE
  /\ UNCHANGED <<history, tip, before, at, errand, attaching>>

ParentStep == MergeInParent \/ RewindParent

-----------------------------------------------------------------------------
(* The user, in the submodule.  Nobody leaves commits behind on purpose.   *)

Commit ==
  /\ made < MaxCommits
  /\ made' = made + 1
  /\ past' = [past EXCEPT ![made'] = past[Head] \cup {made'}]
  /\ IF on = None THEN bare' = made' /\ UNCHANGED tip
     ELSE tip' = [tip EXCEPT ![on] = made'] /\ UNCHANGED bare
  /\ quiet' = FALSE
  /\ UNCHANGED <<replaced, commands, remote, on, parent, at, errand, attaching>>

TakeBranch(b) ==
  /\ Begins
  /\ tip[b] # NoCommit /\ on # b /\ ~HeadHasUnsaved
  /\ on' = b /\ bare' = NoCommit
  /\ quiet' = FALSE
  /\ UNCHANGED <<history, refs, parent, at, errand, attaching>>

CheckOutCommit(c) ==
  /\ Begins
  /\ c \in Known /\ Saved(c) /\ ~HeadHasUnsaved
  /\ Detach(c)
  /\ quiet' = FALSE
  /\ UNCHANGED <<history, refs, parent, at, errand, attaching>>

MakeBranch ==
  /\ Begins
  /\ tip["own"] = NoCommit
  /\ tip' = [tip EXCEPT !["own"] = Head]
  /\ on' = "own" /\ bare' = NoCommit
  /\ quiet' = FALSE
  /\ UNCHANGED <<history, remote, parent, at, errand, attaching>>

(* git add of the submodule in the parent.                                 *)
StagePin ==
  /\ Begins
  /\ pin # Head
  /\ pin' = Head
  /\ quiet' = FALSE
  /\ UNCHANGED <<history, refs, checkout, before, at, errand, attaching>>

UserStep ==
  \/ Commit \/ MakeBranch \/ StagePin
  \/ \E b \in Branches : TakeBranch(b)
  \/ \E c \in Commits : CheckOutCommit(c)

Next == FollowStep \/ TabStep \/ ParentStep \/ UserStep

Spec == Init /\ [][Next]_vars

-----------------------------------------------------------------------------
(* Every variable has its type; whatever is pointed at has been made, and  *)
(* HEAD leads to a commit.                                                 *)
TypeOK ==
  /\ past \in [0 .. MaxCommits -> SUBSET Commits]
  /\ made \in Upstream .. MaxCommits
  /\ replaced \subseteq Made \ Published
  /\ tip \in [Branches -> Made \cup {NoCommit}]
  /\ remote \in Published
  /\ on \in Branches \cup {None}
  /\ bare \in Made \cup {NoCommit}
  /\ Head # NoCommit
  /\ pin \in Made
  /\ before \in Made \cup {NoCommit}
  /\ at \in [Actors -> Places]
  /\ errand \in [Actors -> Errands]
  /\ saw \in [Actors -> [head : Made \cup {NoCommit}, tip : Made \cup {NoCommit}]]
  /\ goal \in [Actors -> Branches \cup {None}]
  /\ commands \in 0 .. MaxCommands
  /\ quiet \in BOOLEAN

(* No step takes the last branch or HEAD away from a commit made in the    *)
(* submodule, however the follow, the attaching on both sides and the      *)
(* user's own work fall together.  Excepted are what the one who moves     *)
(* HEAD did not see, because it came under HEAD later or because the look  *)
(* failed; the commits that a pull made again under pull.rebase; and the   *)
(* commands that do not look.                                              *)
GivesUp == SnapBack \/ Bump \/ MergeInParent \/ RewindParent

NotSeen(c) ==
  \E a \in Actors : /\ at[a] \in {"switching", "updating"} /\ at'[a] # at[a]
                   /\ c \notin past[saw[a].head]

CommitsAreKept ==
  [][GivesUp \/ \A c \in Made \ Published :
                 Reached(c) => Reached(c)' \/ NotSeen(c) \/ c \in replaced']_vars

(* Attaching moves a branch forward only: a branch never loses a commit it *)
(* had, whoever moved it between the look and update-ref.  Only a pull     *)
(* under pull.rebase takes commits from a branch: its own ones, and none   *)
(* of the server's.                                                        *)
BranchesOnlyAdvance ==
  [][\A b \in Branches :
       \/ past[tip[b]] \subseteq past'[tip'[b]]
       \/ Rebase /\ b = Main /\ past[tip[b]] \cap Published \subseteq past'[tip'[b]]]_vars

(* A submodule that is reported as updated sits at the recorded commit     *)
(* unless somebody else moved one of the two: neither attaching before nor *)
(* the one after the update takes it off again.                            *)
UpdatedIsAtPin ==
  at[Follow] = "reporting" /\ quiet => Head = pin

(* Every commit of the submodule that something led to is still led to.   *)
Keeps == \A c \in Made \ Published : Reached(c) => Reached(c)'

(* What commands/branch.rs says of a hard reset over a moved submodule:    *)
(* the move will not touch it, and nothing is silently lost.               *)
RewindLosesNothing ==
  [][RewindParent => Keeps]_vars
=============================================================================
