------------------------ MODULE SessionEvents_proofs ------------------------
(***************************************************************************)
(* Proofs about SessionEvents, for every set of executions, whatever their *)
(* runs say and however often the store fails: the numbers of the events,  *)
(* the transcript that is folded from them, and the window that shows it.  *)
(* The argument on numbers is about one execution at a time: an action     *)
(* changes the numbers of one execution, and what it knows about that      *)
(* execution's number in flight is that it is the last one handed out.     *)
(***************************************************************************)
EXTENDS SessionEvents, TLAPS

numberVars == <<counter, pending, saved, failed, last>>

NumberTypes ==
  /\ counter \in [Executions -> Nat]
  /\ last \in [Executions -> Nat]
  /\ pending = [e \in Executions |-> pending[e]]
  /\ saved \in [Executions -> SUBSET Nat]
  /\ failed \in [Executions -> SUBSET Nat]

(* Nothing is being routed, or the last number handed out is.              *)
Resting(e) ==
  /\ pending[e] = <<>>
  /\ saved[e] \cup failed[e] = 1..counter[e]

Routing(e) ==
  /\ \E kind \in Kinds : pending[e] = <<[kind |-> kind, n |-> counter[e]]>>
  /\ counter[e] \in Nat \ {0}
  /\ saved[e] \cup failed[e] = 1..(counter[e] - 1)

NumbersOf(e) ==
  /\ Resting(e) \/ Routing(e)
  /\ saved[e] \cap failed[e] = {}
  /\ last[e] \in saved[e] \cup {0}

NumberInv ==
  /\ NumberTypes
  /\ \A e \in Executions : NumbersOf(e)

(* The number in flight is what `pending` holds.                           *)
LEMMA NothingInFlight ==
  ASSUME NEW e \in Executions, pending[e] = <<>>
  PROVE  InFlight(e) = {}
BY DEF InFlight

LEMMA OneInFlight ==
  ASSUME NEW e \in Executions, NEW kind, NEW n, pending[e] = <<[kind |-> kind, n |-> n]>>
  PROVE  InFlight(e) = {n}
BY DEF InFlight

(* What is known of one execution gives the property for it.               *)
LEMMA NumbersSuffice == NumberInv => NumbersHaveNoHoles
<1> SUFFICES ASSUME NumberInv, NEW e \in Executions
             PROVE  /\ saved[e] \cup failed[e] \cup InFlight(e) = 1..counter[e]
                    /\ saved[e] \cap failed[e] = {}
                    /\ InFlight(e) \cap (saved[e] \cup failed[e]) = {}
                    /\ \A n \in InFlight(e) : n > last[e]
  BY DEF NumbersHaveNoHoles
<1>1. NumbersOf(e) /\ NumberTypes
  BY DEF NumberInv
<1>2. CASE Resting(e)
  BY <1>1, <1>2, NothingInFlight DEF Resting, NumbersOf
<1>3. CASE Routing(e)
  <2>1. InFlight(e) = {counter[e]}
    BY <1>3, OneInFlight DEF Routing
  <2>2. last[e] = 0 \/ last[e] \in 1..(counter[e] - 1)
    BY <1>1, <1>3 DEF Routing, NumbersOf
  <2>3. counter[e] > last[e]
    BY <2>2, <1>3, <1>1 DEF Routing, NumberTypes
  <2>4. 1..(counter[e] - 1) \cup {counter[e]} = 1..counter[e]
    BY <1>3 DEF Routing
  <2> QED BY <1>1, <1>3, <2>1, <2>3, <2>4 DEF Routing, NumbersOf
<1> QED BY <1>1, <1>2, <1>3 DEF NumbersOf

LEMMA NumbersAtFirst == Init => NumberInv
BY DEF Init, NumberInv, NumberTypes, NumbersOf, Resting

(* An action that leaves the numbers alone keeps the invariant.            *)
LEMMA NumbersRest == NumberInv /\ UNCHANGED numberVars => NumberInv'
BY DEF NumberInv, NumberTypes, NumbersOf, Resting, Routing, numberVars

(* The end of a run becomes a message, so no number is ever forgotten.     *)
LEMMA NothingFollows ==
  ASSUME NEW e \in Executions, NEW kind, NEW n
  PROVE  ~FollowsThrough(DurableEvent(e, kind, n), kind)
BY DEF FollowsThrough, TerminalState, DurableEvent, Event, Coalesces

(* Taking a number.                                                        *)
LEMMA SayKeepsNumbers ==
  ASSUME NumberInv, NEW e \in Executions, NEW kind \in Kinds, Say(e, kind)
  PROVE  NumberInv'
<1> USE DEF NumberInv
<1>1. NumberTypes'
  <2>1. /\ counter' = [counter EXCEPT ![e] = counter[e] + 1]
        /\ pending' = [pending EXCEPT ![e] = <<[kind |-> kind, n |-> counter[e] + 1]>>]
        /\ UNCHANGED <<saved, failed, last>>
    BY DEF Say, TakesNumber, fileVars, ghostVars
  <2>2. counter' \in [Executions -> Nat]
    BY <2>1 DEF NumberTypes
  <2>3. pending' = [x \in Executions |-> pending'[x]]
    BY <2>1 DEF NumberTypes
  <2> QED BY <2>1, <2>2, <2>3 DEF NumberTypes
<1>2. ASSUME NEW x \in Executions, x # e PROVE NumbersOf(x)'
  BY <1>2 DEF Say, TakesNumber, NumberTypes, fileVars, ghostVars, NumbersOf, Resting, Routing
<1>3. NumbersOf(e)'
  <2>1. Resting(e)
    <3>1. pending[e] = <<>>
      BY DEF Say
    <3>2. ~Routing(e)
      BY <3>1 DEF Routing
    <3> QED BY <3>2 DEF NumbersOf
  <2>2. Routing(e)'
    BY <2>1 DEF Say, TakesNumber, NumberTypes, fileVars, ghostVars, Resting, Routing
  <2> QED BY <2>2 DEF Say, fileVars, ghostVars, NumbersOf
<1> QED BY <1>1, <1>2, <1>3

(* Giving it back.                                                         *)
LEMMA IgnoringKeepsNumbers ==
  ASSUME NumberInv, NEW e \in Executions, RouteIgnored(e)
  PROVE  NumberInv'
<1> USE DEF NumberInv
<1>1. Routing(e)
  BY DEF RouteIgnored, NumbersOf, Resting
<1>2. pending[e][1].n = counter[e]
  BY <1>1 DEF Routing
<1>3. counter' = [counter EXCEPT ![e] = @ - 1]
  BY <1>2 DEF RouteIgnored, Release
<1>4. /\ pending' = [pending EXCEPT ![e] = <<>>]
      /\ UNCHANGED <<saved, failed, last>>
  BY DEF RouteIgnored, fileVars, ghostVars
<1>5. NumberTypes'
  <2>1. counter' \in [Executions -> Nat]
    BY <1>1, <1>3 DEF NumberTypes, Routing
  <2>2. pending' = [x \in Executions |-> pending'[x]]
    BY <1>4 DEF NumberTypes
  <2> QED BY <1>4, <2>1, <2>2 DEF NumberTypes
<1>6. ASSUME NEW x \in Executions, x # e PROVE NumbersOf(x)'
  BY <1>6, <1>3, <1>4 DEF NumberTypes, NumbersOf, Resting, Routing
<1>7. Resting(e)'
  BY <1>1, <1>3, <1>4 DEF NumberTypes, Resting, Routing
<1> QED BY <1>4, <1>5, <1>6, <1>7 DEF NumbersOf

(* Spending it on a row of the file, or on a notice that there is none.    *)
LEMMA PersistingKeepsNumbers ==
  ASSUME NumberInv, NEW e \in Executions, RoutePersists(e)
  PROVE  NumberInv'
<1> USE DEF NumberInv
<1>1. Routing(e)
  BY DEF RoutePersists, NumbersOf, Resting
<1>2. pending[e][1].n = counter[e]
  BY <1>1 DEF Routing
<1>3. UNCHANGED <<counter, failed>>
  BY NothingFollows DEF RoutePersists
<1>4. /\ pending' = [pending EXCEPT ![e] = <<>>]
      /\ last' = [last EXCEPT ![e] = counter[e]]
      /\ saved' = [saved EXCEPT ![e] = @ \cup {counter[e]}]
  BY <1>2 DEF RoutePersists
<1>5. NumberTypes'
  BY <1>3, <1>4 DEF NumberTypes
<1>6. ASSUME NEW x \in Executions, x # e PROVE NumbersOf(x)'
  BY <1>6, <1>3, <1>4 DEF NumberTypes, NumbersOf, Resting, Routing
<1>7. 1..(counter[e] - 1) \cup {counter[e]} = 1..counter[e] /\ counter[e] \notin 1..(counter[e] - 1)
  BY <1>1 DEF Routing
<1>8. Resting(e)'
  BY <1>1, <1>3, <1>4, <1>7 DEF NumberTypes, Resting, Routing
<1>9. saved'[e] \cap failed'[e] = {} /\ last'[e] \in saved'[e]
  BY <1>1, <1>3, <1>4, <1>7 DEF NumberTypes, NumbersOf, Routing
<1> QED BY <1>5, <1>6, <1>8, <1>9 DEF NumbersOf

LEMMA FailingKeepsNumbers ==
  ASSUME NumberInv, NEW e \in Executions, RouteWriteFails(e)
  PROVE  NumberInv'
<1> USE DEF NumberInv
<1>1. Routing(e)
  BY DEF RouteWriteFails, NumbersOf, Resting
<1>2. pending[e][1].n = counter[e]
  BY <1>1 DEF Routing
<1>3. UNCHANGED <<counter, saved, last>>
  BY DEF RouteWriteFails, fileVars
<1>4. /\ pending' = [pending EXCEPT ![e] = <<>>]
      /\ failed' = [failed EXCEPT ![e] = @ \cup {counter[e]}]
  BY <1>2 DEF RouteWriteFails
<1>5. NumberTypes'
  BY <1>3, <1>4 DEF NumberTypes
<1>6. ASSUME NEW x \in Executions, x # e PROVE NumbersOf(x)'
  BY <1>6, <1>3, <1>4 DEF NumberTypes, NumbersOf, Resting, Routing
<1>7. 1..(counter[e] - 1) \cup {counter[e]} = 1..counter[e] /\ counter[e] \notin 1..(counter[e] - 1)
  BY <1>1 DEF Routing
<1>8. Resting(e)'
  BY <1>1, <1>3, <1>4, <1>7 DEF NumberTypes, Resting, Routing
<1>9. saved'[e] \cap failed'[e] = {} /\ last'[e] \in saved'[e] \cup {0}
  BY <1>1, <1>3, <1>4, <1>7 DEF NumberTypes, NumbersOf, Routing
<1> QED BY <1>5, <1>6, <1>8, <1>9 DEF NumbersOf

LEMMA NumbersStep == NumberInv /\ [Next]_vars => NumberInv'
<1> SUFFICES ASSUME NumberInv, [Next]_vars PROVE NumberInv'
  OBVIOUS
<1>1. CASE UNCHANGED vars
  BY <1>1, NumbersRest DEF vars, fileVars, routeVars, ghostVars, numberVars
<1>2. ASSUME NEW e \in Executions, OfExecution(e) PROVE NumberInv'
  <2>1. CASE Begin(e) \/ Stop(e) \/ Unlink(e) \/ Emit(e)
    BY <2>1, NumbersRest DEF Begin, Stop, Unlink, Emit, fileVars, routeVars, ghostVars, numberVars
  <2>2. CASE \E kind \in Kinds : Say(e, kind)
    BY <2>2, SayKeepsNumbers
  <2>3. CASE RouteIgnored(e)
    BY <2>3, IgnoringKeepsNumbers
  <2>4. CASE RoutePersists(e)
    BY <2>4, PersistingKeepsNumbers
  <2>5. CASE RouteWriteFails(e)
    BY <2>5, FailingKeepsNumbers
  <2> QED BY <1>2, <2>1, <2>2, <2>3, <2>4, <2>5 DEF OfExecution
<1>3. CASE AppendsMessage
  BY <1>3, NumbersRest DEF AppendsMessage, routeVars, numberVars
<1>4. CASE OfWindow
  BY <1>4, NumbersRest
  DEF OfWindow, Receive, Prune, FetchReads, FetchReturns, FetchFails, SenderHears,
      fileVars, routeVars, ghostVars, numberVars
<1> QED BY <1>1, <1>2, <1>3, <1>4 DEF Next

(* The numbers of every execution account for all its events: bridge.rs's  *)
(* numbering, with its one release rule, leaves a hole exactly where an    *)
(* event is missing from the file.                                         *)
THEOREM NumbersAccountForEvents == Spec => []NumbersHaveNoHoles
<1>1. Spec => []NumberInv
  BY NumbersAtFirst, NumbersStep, PTL DEF Spec
<1> QED BY <1>1, NumbersSuffice, PTL

(***************************************************************************)
(* Messages, and what the number in flight is                              *)
(***************************************************************************)

Who == Executions \cup {User}
RowKinds == Kinds \cup {"User"}

Messages ==
  {m \in [by : Who, kind : RowKinds, parts : Seq(Nat)] :
     m.parts # <<>> /\ Head(m.parts) <= Last(m.parts)}

LEMMA MessageFacts ==
  ASSUME NEW m \in Messages
  PROVE  /\ Id(m) = <<m.by, m.parts[1]>> /\ m.parts[1] \in Nat
         /\ m.by # User => SequenceOf(m) = m.parts[Len(m.parts)] /\ m.parts[1] <= SequenceOf(m)
         /\ m.by = User => SequenceOf(m) = 0
         /\ SequenceOf(m) \in Nat
         /\ Len(m.parts) \in Nat \ {0} /\ DOMAIN m.parts = 1..Len(m.parts)
<1>1. m.parts \in Seq(Nat) /\ m.parts # <<>> /\ m.parts[1] <= m.parts[Len(m.parts)]
  BY DEF Messages, Last
<1>2. /\ Len(m.parts) \in Nat \ {0} /\ DOMAIN m.parts = 1..Len(m.parts)
      /\ Head(m.parts) = m.parts[1]
      /\ \A i \in 1..Len(m.parts) : m.parts[i] \in Nat
  BY <1>1
<1> QED
  BY <1>1, <1>2 DEF Id, SequenceOf, Last

(* A row that opens a message.                                             *)
LEMMA NewMessage ==
  ASSUME NEW by \in Who, NEW kind \in RowKinds, NEW n \in Nat
  PROVE  /\ Message(by, kind, <<n>>) \in Messages
         /\ Id(Message(by, kind, <<n>>)) = <<by, n>>
         /\ by # User => SequenceOf(Message(by, kind, <<n>>)) = n
         /\ Message(by, kind, <<n>>).by = by /\ Message(by, kind, <<n>>).kind = kind
         /\ Message(by, kind, <<n>>).parts = <<n>>
BY DEF Message, Messages, Id, SequenceOf, Last

LEMMA AppendFacts ==
  ASSUME NEW S, NEW s \in Seq(S), NEW x \in S
  PROVE  /\ Len(s) \in Nat /\ DOMAIN s = 1..Len(s)
         /\ Append(s, x) \in Seq(S)
         /\ DOMAIN Append(s, x) = DOMAIN s \cup {Len(s) + 1}
         /\ Append(s, x)[Len(s) + 1] = x
         /\ \A i \in DOMAIN s : Append(s, x)[i] = s[i]
OBVIOUS

LEMMA WithParts ==
  ASSUME NEW m \in [by : Who, kind : RowKinds, parts : Seq(Nat)], NEW x \in Seq(Nat)
  PROVE  [m EXCEPT !.parts = x] \in [by : Who, kind : RowKinds, parts : Seq(Nat)]
OBVIOUS

(* Text that joins a message keeps its identity and dates it anew.         *)
LEMMA UpdatedMessage ==
  ASSUME NEW m \in Messages, m.by # User, NEW n \in Nat, SequenceOf(m) < n
  PROVE  /\ Updated(m, n) \in Messages
         /\ Id(Updated(m, n)) = Id(m) /\ SequenceOf(Updated(m, n)) = n
         /\ Updated(m, n).by = m.by /\ Updated(m, n).kind = m.kind
         /\ Updated(m, n).parts = Append(m.parts, n)
         /\ DOMAIN Updated(m, n).parts = DOMAIN m.parts \cup {Len(m.parts) + 1}
         /\ Updated(m, n).parts[Len(m.parts) + 1] = n
         /\ \A j \in DOMAIN m.parts : Updated(m, n).parts[j] = m.parts[j]
<1> DEFINE u == Updated(m, n)
<1>1. /\ m.parts \in Seq(Nat) /\ m.by \in Who /\ m.kind \in RowKinds
      /\ m \in [by : Who, kind : RowKinds, parts : Seq(Nat)]
  BY DEF Messages
<1>2. u.by = m.by /\ u.kind = m.kind /\ u.parts = Append(m.parts, n)
  BY <1>1 DEF Updated
<1>3. /\ Append(m.parts, n) \in Seq(Nat) /\ Len(Append(m.parts, n)) = Len(m.parts) + 1
      /\ Append(m.parts, n)[Len(m.parts) + 1] = n
  BY <1>1
<1>4. Append(m.parts, n)[1] = m.parts[1] /\ Head(Append(m.parts, n)) = m.parts[1]
  BY <1>1, MessageFacts
<1>5. m.parts[1] <= n
  BY MessageFacts
<1>6. Last(Append(m.parts, n)) = n
  BY <1>3 DEF Last
<1>7. u \in Messages
  <2>1. u \in [by : Who, kind : RowKinds, parts : Seq(Nat)]
    BY <1>1, <1>3, WithParts DEF Updated
  <2>2. u.parts = Append(m.parts, n) /\ Append(m.parts, n) # <<>>
    BY <1>1, <1>2
  <2>3. Head(u.parts) <= Last(u.parts)
    BY <1>4, <1>5, <1>6, <2>2
  <2> HIDE DEF u
  <2> QED
    BY <2>1, <2>2, <2>3 DEF Messages
<1>8. Id(u) = Id(m)
  BY <1>2, <1>4, MessageFacts DEF Id
<1>9. SequenceOf(u) = n
  BY <1>2, <1>6 DEF SequenceOf
<1>10. /\ DOMAIN u.parts = DOMAIN m.parts \cup {Len(m.parts) + 1}
       /\ u.parts[Len(m.parts) + 1] = n
       /\ \A j \in DOMAIN m.parts : u.parts[j] = m.parts[j]
  BY <1>1, <1>2, AppendFacts
<1> QED
  BY <1>2, <1>7, <1>8, <1>9, <1>10

(* What a task knows of the number it took.                                *)
LEMMA RoutingFacts ==
  ASSUME NumberInv, NEW e \in Executions, pending[e] # <<>>
  PROVE  /\ pending[e][1].kind \in Kinds
         /\ pending[e][1].n = counter[e] /\ counter[e] \in Nat \ {0}
         /\ last[e] < counter[e]
         /\ \A k \in saved[e] \cup failed[e] : k < counter[e]
<1>1. Routing(e)
  BY DEF NumberInv, NumbersOf, Resting
<1>2. PICK kind \in Kinds : pending[e] = <<[kind |-> kind, n |-> counter[e]]>>
  BY <1>1 DEF Routing
<1>3. \A k \in saved[e] \cup failed[e] : k < counter[e]
  BY <1>1 DEF Routing
<1>4. last[e] \in saved[e] \cup {0}
  BY DEF NumberInv, NumbersOf
<1> QED
  BY <1>1, <1>2, <1>3, <1>4 DEF Routing

(***************************************************************************)
(* The transcript                                                          *)
(***************************************************************************)
Rows == Who \X RowKinds \X Nat

(* The rows of a run are numbered up to the last number of its record, a   *)
(* message that is not from a run up to its place in the log; no two       *)
(* messages share an identity.                                             *)
RowsBounded ==
  \A i \in DOMAIN log :
    IF log[i][1] = User THEN log[i][3] <= Len(log) ELSE log[i][3] <= last[log[i][1]]

PartsBounded ==
  \A i \in DOMAIN transcript : \A j \in DOMAIN transcript[i].parts :
    IF transcript[i].by = User THEN transcript[i].parts[j] <= Len(log)
                               ELSE transcript[i].parts[j] <= last[transcript[i].by]

TranscriptInv ==
  /\ transcript \in Seq(Messages) /\ log \in Seq(Rows)
  /\ RowsBounded
  /\ PartsBounded
  /\ OnceEach(transcript)
  /\ TranscriptIsFaithful

LEMMA PlaceFacts ==
  ASSUME NEW messages, NEW p
  PROVE  p \in Places(messages) <=>
           \E i \in DOMAIN messages : \E j \in DOMAIN messages[i].parts : p = <<i, j>>
BY DEF Places

LEMMA PlacesNext ==
  \A p : p \in Places(transcript') <=>
           \E i \in DOMAIN transcript' : \E j \in DOMAIN transcript'[i].parts : p = <<i, j>>
BY DEF Places

(* A row that is newer than every row of its run, added to the end of the  *)
(* log and behind every place of the transcript.                           *)
LEMMA RowAdded ==
  ASSUME TranscriptIsFaithful, log \in Seq(Rows),
         NEW row \in Rows, log' = Append(log, row),
         \A i \in DOMAIN log : log[i][1] = row[1] => log[i][3] < row[3],
         NEW new, Places(transcript') = Places(transcript) \cup {new},
         \A p \in Places(transcript) : RowAt(transcript', p) = RowAt(transcript, p),
         RowAt(transcript', new) = row,
         \A p \in Places(transcript') : ~Before(new, p)
  PROVE  TranscriptIsFaithful'
<1>1. /\ Len(log) \in Nat /\ DOMAIN log = 1..Len(log)
      /\ DOMAIN log' = DOMAIN log \cup {Len(log) + 1}
      /\ log'[Len(log) + 1] = row
      /\ \A i \in DOMAIN log : log'[i] = log[i] /\ i < Len(log) + 1
  OBVIOUS
<1>2. InOrder'
  <2>1. InOrder
    BY DEF TranscriptIsFaithful
  <2> QED
    BY <1>1, <2>1 DEF InOrder
<1>3. ToSet(log') = ToSet(log) \cup {row}
  BY <1>1 DEF ToSet
<1>4. {RowAt(transcript', p) : p \in Places(transcript')} = ToSet(log')
  BY <1>3 DEF TranscriptIsFaithful
<1>5. \A i \in DOMAIN log : log[i] # row
  <2> SUFFICES ASSUME NEW i \in DOMAIN log, log[i] = row PROVE FALSE
    OBVIOUS
  <2>1. row[3] < row[3] /\ row[3] \in Nat
    BY DEF Rows
  <2> QED
    BY <2>1
<1>6. ASSUME NEW p \in Places(transcript'), NEW q \in Places(transcript'),
             NEW i \in DOMAIN log', NEW j \in DOMAIN log',
             Before(p, q), RowAt(transcript', p) = log'[i], RowAt(transcript', q) = log'[j]
      PROVE  i < j
  <2>1. p # new /\ p \in Places(transcript)
    BY <1>6
  <2>2. RowAt(transcript, p) \in ToSet(log)
    BY <2>1 DEF TranscriptIsFaithful
  <2>3. PICK k \in DOMAIN log : RowAt(transcript, p) = log[k]
    BY <2>2 DEF ToSet
  <2>4. log'[i] # row
    BY <1>5, <1>6, <2>1, <2>3
  <2>5. i \in DOMAIN log /\ log'[i] = log[i]
    BY <1>1, <2>4
  <2>6. CASE q = new
    <3>1. log'[j] = row
      BY <1>6, <2>6
    <3>2. j = Len(log) + 1
      BY <1>1, <1>5, <3>1
    <3> QED BY <1>1, <2>5, <3>2
  <2>7. CASE q # new
    <3>1. q \in Places(transcript)
      BY <2>7
    <3>2. RowAt(transcript, q) \in ToSet(log)
      BY <3>1 DEF TranscriptIsFaithful
    <3>3. PICK l \in DOMAIN log : RowAt(transcript, q) = log[l]
      BY <3>2 DEF ToSet
    <3>4. log'[j] # row
      BY <1>5, <1>6, <3>1, <3>3
    <3>5. j \in DOMAIN log /\ log'[j] = log[j]
      BY <1>1, <3>4
    <3> QED
      BY <1>6, <2>1, <2>5, <3>1, <3>5 DEF TranscriptIsFaithful
  <2> QED BY <2>6, <2>7
<1> QED
  BY <1>2, <1>4, <1>6 DEF TranscriptIsFaithful

(* A number newer than every row of its run, in the log and in the file.   *)
Newer(by, n) ==
  /\ \A i \in DOMAIN log : log[i][1] = by => log[i][3] < n
  /\ \A i \in DOMAIN transcript : \A j \in DOMAIN transcript[i].parts :
       transcript[i].by = by => transcript[i].parts[j] < n

(* The two ways a row comes into the file.                                 *)
Opens(by, kind, n) ==
  /\ transcript' = Append(transcript, Message(by, kind, <<n>>))
  /\ log' = Append(log, <<by, kind, n>>)

Grows(e, n) ==
  /\ "Note" \in Kinds
  /\ Coalesces(e, "Note")
  /\ transcript' = [transcript EXCEPT ![Len(transcript)] = Updated(Last(transcript), n)]
  /\ log' = Append(log, <<e, "Note", n>>)

(* Either adds its number to its run and no other.                         *)
AddsOnly(by, n) ==
  \A i \in DOMAIN transcript' : \A j \in DOMAIN transcript'[i].parts :
    \/ transcript'[i].by = by /\ transcript'[i].parts[j] = n
    \/ \E k \in DOMAIN transcript : \E l \in DOMAIN transcript[k].parts :
         transcript[k].by = transcript'[i].by /\ transcript[k].parts[l] = transcript'[i].parts[j]

Spends(by, n) ==
  \/ by = User /\ n = Len(log) + 1 /\ last' = last
  \/ by # User /\ last' = [last EXCEPT ![by] = n] /\ last[by] < n

(* A message of its own at the end of the transcript.                      *)
LEMMA MessageOpens ==
  ASSUME TranscriptInv, NEW by \in Who, NEW kind \in RowKinds, NEW n \in Nat,
         Opens(by, kind, n), Newer(by, n)
  PROVE  transcript' \in Seq(Messages) /\ OnceEach(transcript') /\ TranscriptIsFaithful'
<1> USE DEF Opens, Newer
<1> DEFINE m == Message(by, kind, <<n>>)
           new == <<Len(transcript) + 1, 1>>
<1>1. /\ m \in Messages /\ Id(m) = <<by, n>> /\ m.by = by /\ m.kind = kind /\ m.parts = <<n>>
  BY NewMessage
<1> HIDE DEF m
<1>2. transcript \in Seq(Messages) /\ log \in Seq(Rows)
  BY DEF TranscriptInv
<1>3. /\ Len(transcript) \in Nat /\ DOMAIN transcript = 1..Len(transcript)
      /\ transcript' \in Seq(Messages)
      /\ DOMAIN transcript' = DOMAIN transcript \cup {Len(transcript) + 1}
      /\ transcript'[Len(transcript) + 1] = m
      /\ \A i \in DOMAIN transcript : transcript'[i] = transcript[i] /\ transcript[i] \in Messages
  BY <1>1, <1>2 DEF m
<1>4. \A i \in DOMAIN transcript : Id(transcript[i]) # Id(m)
  <2> SUFFICES ASSUME NEW i \in DOMAIN transcript, Id(transcript[i]) = <<by, n>> PROVE FALSE
    BY <1>1
  <2>1. /\ transcript[i] \in Messages /\ 1 \in DOMAIN transcript[i].parts
        /\ Id(transcript[i]) = <<transcript[i].by, transcript[i].parts[1]>>
    BY <1>3, MessageFacts
  <2>2. transcript[i].by = by /\ transcript[i].parts[1] = n
    BY <2>1
  <2> QED
    BY <2>1, <2>2
<1>5. OnceEach(transcript')
  <2>1. OnceEach(transcript)
    BY DEF TranscriptInv
  <2> QED
    BY <1>3, <1>4, <2>1 DEF OnceEach
<1>6. Places(transcript') = Places(transcript) \cup {new}
  <2>1. DOMAIN m.parts = {1}
    BY <1>1
  <2>2. ASSUME NEW p PROVE p \in Places(transcript') <=> p \in Places(transcript) \cup {new}
    <3>1. p \in Places(transcript') <=>
            \E i \in DOMAIN transcript' : \E j \in DOMAIN transcript'[i].parts : p = <<i, j>>
      BY PlacesNext
    <3>2. p \in Places(transcript) <=>
            \E i \in DOMAIN transcript : \E j \in DOMAIN transcript[i].parts : p = <<i, j>>
      BY PlaceFacts
    <3> QED
      BY <1>3, <2>1, <3>1, <3>2
  <2> QED
    BY <2>2
<1>7. ASSUME NEW p \in Places(transcript)
      PROVE  /\ RowAt(transcript', p) = RowAt(transcript, p)
             /\ ~Before(new, p)
  <2>1. PICK i \in DOMAIN transcript : \E j \in DOMAIN transcript[i].parts : p = <<i, j>>
    BY PlaceFacts
  <2> QED
    BY <1>3, <2>1 DEF RowAt, Before
<1>8. RowAt(transcript', new) = <<by, kind, n>> /\ ~Before(new, new)
  BY <1>1, <1>3 DEF RowAt, Before
<1>9. <<by, kind, n>> \in Rows
  BY DEF Rows
<1> HIDE DEF new
<1>10. TranscriptIsFaithful'
  <2>1. TranscriptIsFaithful
    BY DEF TranscriptInv
  <2>2. \A i \in DOMAIN log : log[i][1] = <<by, kind, n>>[1] => log[i][3] < <<by, kind, n>>[3]
    OBVIOUS
  <2> QED
    BY <1>2, <1>6, <1>7, <1>8, <1>9, <2>1, <2>2, RowAdded
<1> QED
  BY <1>3, <1>5, <1>10

(* Text that joins the last message.                                       *)
LEMMA MessageGrows ==
  ASSUME TranscriptInv, NEW e \in Executions, NEW n \in Nat, Grows(e, n), Newer(e, n)
  PROVE  /\ transcript' \in Seq(Messages) /\ OnceEach(transcript') /\ TranscriptIsFaithful'
         /\ Last(transcript) \in Messages /\ Last(transcript).by = e
         /\ SequenceOf(Last(transcript)) < n
<1> USE DEF Grows, Newer
<1> DEFINE k == Len(transcript)
           m == transcript[k]
           u == Updated(m, n)
           new == <<k, Len(m.parts) + 1>>
<1>1. transcript \in Seq(Messages) /\ log \in Seq(Rows) /\ transcript # <<>>
  BY DEF TranscriptInv, Coalesces
<1>2. k \in Nat \ {0} /\ DOMAIN transcript = 1..k /\ k \in DOMAIN transcript
  BY <1>1
<1>3. \A i \in DOMAIN transcript : transcript[i] \in Messages
  BY <1>1
<1>4. m = Last(transcript) /\ m \in Messages /\ m.by = e /\ m.kind = "Note" /\ e # User
  BY <1>2, <1>3, NamesAreNoExecutions DEF Last, Coalesces
<1>5. SequenceOf(m) < n
  BY <1>2, <1>4, MessageFacts
<1>6. /\ u \in Messages /\ Id(u) = Id(m) /\ u.by = e /\ u.kind = "Note"
      /\ DOMAIN u.parts = DOMAIN m.parts \cup {Len(m.parts) + 1}
      /\ u.parts[Len(m.parts) + 1] = n
      /\ \A j \in DOMAIN m.parts : u.parts[j] = m.parts[j]
  BY <1>4, <1>5, UpdatedMessage
<1>7. transcript' = [transcript EXCEPT ![k] = u]
  BY <1>4
<1> HIDE DEF u
<1>8. /\ transcript' \in Seq(Messages) /\ DOMAIN transcript' = DOMAIN transcript
      /\ transcript'[k] = u
      /\ \A i \in DOMAIN transcript : i # k => transcript'[i] = transcript[i]
  BY <1>1, <1>2, <1>6, <1>7
<1>9. OnceEach(transcript')
  <2>1. \A i \in DOMAIN transcript : Id(transcript'[i]) = Id(transcript[i])
    BY <1>6, <1>8
  <2> QED
    BY <1>8, <2>1 DEF OnceEach, TranscriptInv
<1>10. Len(m.parts) \in Nat /\ DOMAIN m.parts = 1..Len(m.parts)
  BY <1>4, MessageFacts
<1> HIDE DEF m
<1>11. Places(transcript') = Places(transcript) \cup {new}
  <2>2. ASSUME NEW p PROVE p \in Places(transcript') <=> p \in Places(transcript) \cup {new}
    <3>1. p \in Places(transcript') <=>
            \E i \in DOMAIN transcript' : \E j \in DOMAIN transcript'[i].parts : p = <<i, j>>
      BY PlacesNext
    <3>2. p \in Places(transcript) <=>
            \E i \in DOMAIN transcript : \E j \in DOMAIN transcript[i].parts : p = <<i, j>>
      BY PlaceFacts
    <3>3. m = transcript[k]
      BY DEF m
    <3>4. DOMAIN transcript'[k].parts = DOMAIN transcript[k].parts \cup {Len(m.parts) + 1}
      BY <1>6, <1>8, <3>3
    <3>5. ASSUME NEW i \in DOMAIN transcript, NEW j \in DOMAIN transcript'[i].parts, p = <<i, j>>
          PROVE  p \in Places(transcript) \cup {new}
      <4>1. CASE i = k
        BY <3>2, <3>4, <3>5, <4>1
      <4>2. CASE i # k
        BY <1>8, <3>2, <3>5, <4>2
      <4> QED BY <4>1, <4>2
    <3>6. ASSUME NEW i \in DOMAIN transcript, NEW j \in DOMAIN transcript[i].parts, p = <<i, j>>
          PROVE  p \in Places(transcript')
      BY <1>8, <3>1, <3>4, <3>6
    <3>7. p = new => p \in Places(transcript')
      BY <1>2, <1>8, <3>1, <3>4
    <3> QED
      BY <1>8, <3>1, <3>2, <3>5, <3>6, <3>7
  <2> QED
    BY <2>2
<1>12. ASSUME NEW p \in Places(transcript)
       PROVE  /\ RowAt(transcript', p) = RowAt(transcript, p)
              /\ ~Before(new, p)
  <2>1. PICK i \in DOMAIN transcript : \E j \in DOMAIN transcript[i].parts : p = <<i, j>>
    BY PlaceFacts
  <2>2. CASE i = k
    <3>1. PICK j \in DOMAIN m.parts : p = <<k, j>>
      BY <2>1, <2>2 DEF m
    <3>2. u.by = m.by /\ u.kind = m.kind /\ u.parts[j] = m.parts[j] /\ transcript[k] = m
      BY <1>4, <1>6 DEF m
    <3>3. RowAt(transcript', p) = RowAt(transcript, p)
      BY <1>8, <3>1, <3>2 DEF RowAt
    <3>4. ~Before(new, p)
      BY <1>2, <1>10, <3>1 DEF Before
    <3> QED BY <3>3, <3>4
  <2>3. CASE i # k
    BY <1>2, <1>8, <2>1, <2>3 DEF RowAt, Before
  <2> QED BY <2>2, <2>3
<1>13. RowAt(transcript', new) = <<e, "Note", n>> /\ ~Before(new, new)
  BY <1>2, <1>6, <1>8, <1>10 DEF RowAt, Before
<1>14. <<e, "Note", n>> \in Rows
  BY DEF Rows, Who, RowKinds
<1> HIDE DEF new
<1>15. TranscriptIsFaithful'
  <2>1. TranscriptIsFaithful
    BY DEF TranscriptInv
  <2>2. \A i \in DOMAIN log : log[i][1] = <<e, "Note", n>>[1] => log[i][3] < <<e, "Note", n>>[3]
    OBVIOUS
  <2> QED
    BY <1>1, <1>11, <1>12, <1>13, <1>14, <2>1, <2>2, RowAdded
<1> QED
  BY <1>4, <1>5, <1>8, <1>9, <1>15

LEMMA TranscriptAtFirst == Init => TranscriptInv
<1> SUFFICES ASSUME Init PROVE TranscriptInv
  OBVIOUS
<1>1. transcript = <<>> /\ log = <<>>
  BY DEF Init
<1>2. Places(transcript) = {}
  BY <1>1, PlaceFacts
<1> QED
  BY <1>1, <1>2 DEF TranscriptInv, RowsBounded, PartsBounded, OnceEach, TranscriptIsFaithful,
                    InOrder, ToSet

LEMMA TranscriptRests ==
  TranscriptInv /\ UNCHANGED <<transcript, log, last>> => TranscriptInv'
BY DEF TranscriptInv, RowsBounded, PartsBounded, OnceEach, TranscriptIsFaithful, InOrder,
       Places, RowAt

(* The number in flight is newer than every row of its run.                *)
LEMMA NumberIsNew ==
  ASSUME NumberInv, TranscriptInv, NEW e \in Executions, pending[e] # <<>>
  PROVE  Newer(e, counter[e])
<1>1. last[e] < counter[e] /\ counter[e] \in Nat /\ last[e] \in Nat /\ e # User
  BY RoutingFacts, NamesAreNoExecutions DEF NumberInv, NumberTypes
<1>2. \A i \in DOMAIN log : log[i] \in Rows
  BY DEF TranscriptInv
<1>3. ASSUME NEW i \in DOMAIN log, log[i][1] = e PROVE log[i][3] < counter[e]
  <2>1. log[i][3] \in Nat
    BY <1>2 DEF Rows
  <2>2. log[i][3] <= last[e]
    BY <1>1, <1>3 DEF TranscriptInv, RowsBounded
  <2> QED BY <1>1, <2>1, <2>2
<1>4. ASSUME NEW i \in DOMAIN transcript, NEW j \in DOMAIN transcript[i].parts, transcript[i].by = e
      PROVE  transcript[i].parts[j] < counter[e]
  <2>1. transcript[i] \in Messages
    BY DEF TranscriptInv
  <2>2. transcript[i].parts[j] \in Nat
    BY <2>1 DEF Messages
  <2> QED
    BY <1>1, <1>4, <2>2 DEF TranscriptInv, PartsBounded
<1> QED BY <1>3, <1>4 DEF Newer

(* The bounds after a step that lets them grow.                            *)
LEMMA BoundsKept ==
  ASSUME TranscriptInv, NumberInv,
         NEW by \in Who, NEW kind \in RowKinds, NEW n \in Nat,
         log' = Append(log, <<by, kind, n>>), Spends(by, n), AddsOnly(by, n)
  PROVE  RowsBounded' /\ PartsBounded' /\ log' \in Seq(Rows)
<1> USE DEF Spends, AddsOnly
<1>1. log \in Seq(Rows) /\ <<by, kind, n>> \in Rows
  BY DEF TranscriptInv, Rows
<1>2. /\ Len(log) \in Nat /\ DOMAIN log' = DOMAIN log \cup {Len(log) + 1}
      /\ Len(log') = Len(log) + 1
      /\ log'[Len(log) + 1] = <<by, kind, n>>
      /\ \A i \in DOMAIN log : log'[i] = log[i] /\ log[i] \in Rows
      /\ log' \in Seq(Rows)
  BY <1>1
<1>3. /\ \A e \in Executions : last[e] \in Nat /\ last[e] <= last'[e] /\ last'[e] \in Nat
      /\ by # User => last'[by] = n
  <2>1. last \in [Executions -> Nat]
    BY DEF NumberInv, NumberTypes
  <2>2. CASE by = User /\ last' = last
    BY <2>1, <2>2
  <2>3. CASE by # User /\ last' = [last EXCEPT ![by] = n] /\ last[by] < n
    BY <2>1, <2>3 DEF Who
  <2> QED BY <2>2, <2>3
<1>4. RowsBounded'
  <2> SUFFICES ASSUME NEW i \in DOMAIN log'
               PROVE  IF log'[i][1] = User THEN log'[i][3] <= Len(log') ELSE log'[i][3] <= last'[log'[i][1]]
    BY DEF RowsBounded
  <2>1. CASE i \in DOMAIN log
    <3>1. log'[i] = log[i] /\ log[i][1] \in Who /\ log[i][3] \in Nat
      BY <1>2, <2>1 DEF Rows
    <3>2. IF log[i][1] = User THEN log[i][3] <= Len(log) ELSE log[i][3] <= last[log[i][1]]
      BY <2>1 DEF TranscriptInv, RowsBounded
    <3>3. CASE log[i][1] = User
      BY <1>2, <3>1, <3>2, <3>3
    <3>4. CASE log[i][1] \in Executions /\ log[i][1] # User
      BY <1>3, <3>1, <3>2, <3>4
    <3> QED BY <3>1, <3>3, <3>4 DEF Who
  <2>2. CASE i = Len(log) + 1
    BY <1>2, <1>3, <2>2
  <2> QED BY <1>2, <2>1, <2>2
<1>5. PartsBounded'
  <2> SUFFICES ASSUME NEW i \in DOMAIN transcript', NEW j \in DOMAIN transcript'[i].parts
               PROVE  IF transcript'[i].by = User THEN transcript'[i].parts[j] <= Len(log')
                                                  ELSE transcript'[i].parts[j] <= last'[transcript'[i].by]
    BY DEF PartsBounded
  <2>1. CASE transcript'[i].by = by /\ transcript'[i].parts[j] = n
    BY <1>2, <1>3, <2>1
  <2>2. CASE \E k \in DOMAIN transcript : \E l \in DOMAIN transcript[k].parts :
               transcript[k].by = transcript'[i].by /\ transcript[k].parts[l] = transcript'[i].parts[j]
    <3>1. PICK k \in DOMAIN transcript : \E l \in DOMAIN transcript[k].parts :
               transcript[k].by = transcript'[i].by /\ transcript[k].parts[l] = transcript'[i].parts[j]
      BY <2>2
    <3>2. PICK l \in DOMAIN transcript[k].parts :
               transcript[k].by = transcript'[i].by /\ transcript[k].parts[l] = transcript'[i].parts[j]
      BY <3>1
    <3>3. transcript[k] \in Messages
      BY DEF TranscriptInv
    <3>4. transcript[k].by \in Who /\ transcript[k].parts[l] \in Nat
      BY <3>3 DEF Messages
    <3>5. IF transcript[k].by = User THEN transcript[k].parts[l] <= Len(log)
                                     ELSE transcript[k].parts[l] <= last[transcript[k].by]
      BY DEF TranscriptInv, PartsBounded
    <3>6. CASE transcript[k].by = User
      BY <1>2, <3>2, <3>4, <3>5, <3>6
    <3>7. CASE transcript[k].by \in Executions /\ transcript[k].by # User
      BY <1>3, <3>2, <3>4, <3>5, <3>7
    <3> QED BY <3>4, <3>6, <3>7 DEF Who
  <2> QED BY <2>1, <2>2
<1> QED BY <1>2, <1>4, <1>5

(* A message of its own adds its number to the bounds and nothing else.    *)
LEMMA OpeningIsBounded ==
  ASSUME TranscriptInv, NEW by \in Who, NEW kind \in RowKinds, NEW n \in Nat, Opens(by, kind, n)
  PROVE  AddsOnly(by, n)
<1> USE DEF Opens, AddsOnly
<1> DEFINE m == Message(by, kind, <<n>>)
<1>1. m \in Messages /\ m.by = by /\ m.parts = <<n>> /\ transcript' = Append(transcript, m)
  BY NewMessage
<1> HIDE DEF m
<1>2. transcript \in Seq(Messages)
  BY DEF TranscriptInv
<1>3. /\ DOMAIN transcript' = DOMAIN transcript \cup {Len(transcript) + 1}
      /\ transcript'[Len(transcript) + 1] = m
      /\ \A i \in DOMAIN transcript : transcript'[i] = transcript[i]
  BY <1>1, <1>2, AppendFacts
<1> QED
  BY <1>1, <1>3

LEMMA GrowingIsBounded ==
  ASSUME TranscriptInv, NEW e \in Executions, NEW n \in Nat, Grows(e, n), Newer(e, n)
  PROVE  AddsOnly(e, n)
<1> USE DEF Grows, AddsOnly
<1> DEFINE k == Len(transcript)
           m == Last(transcript)
           u == Updated(m, n)
<1>1. transcript \in Seq(Messages) /\ transcript # <<>>
  BY DEF TranscriptInv, Coalesces
<1>2. k \in DOMAIN transcript /\ m = transcript[k]
  BY <1>1 DEF Last
<1>3. /\ u.by = e
      /\ DOMAIN u.parts = DOMAIN m.parts \cup {Len(m.parts) + 1}
      /\ u.parts[Len(m.parts) + 1] = n
      /\ \A j \in DOMAIN m.parts : u.parts[j] = m.parts[j]
  <2>1. m \in Messages /\ m.by = e /\ SequenceOf(m) < n
    BY MessageGrows
  <2> HIDE DEF m
  <2> QED BY <2>1, NamesAreNoExecutions, UpdatedMessage DEF u
<1> HIDE DEF u
<1>4. /\ DOMAIN transcript' = DOMAIN transcript /\ transcript'[k] = u
      /\ \A i \in DOMAIN transcript : i # k => transcript'[i] = transcript[i]
  BY <1>1, <1>2 DEF u
<1> HIDE DEF m, k
<1> SUFFICES ASSUME NEW i \in DOMAIN transcript, NEW j \in DOMAIN transcript'[i].parts
             PROVE  \/ transcript'[i].by = e /\ transcript'[i].parts[j] = n
                    \/ \E h \in DOMAIN transcript : \E l \in DOMAIN transcript[h].parts :
                         transcript[h].by = transcript'[i].by /\ transcript[h].parts[l] = transcript'[i].parts[j]
  BY <1>4
<1>5. CASE i = k /\ j = Len(m.parts) + 1
  BY <1>3, <1>4, <1>5
<1>6. CASE i = k /\ j \in DOMAIN m.parts
  <2>1. transcript[k].by = transcript'[i].by
    BY <1>2, <1>3, <1>4, <1>6, MessageGrows DEF m
  <2>2. j \in DOMAIN transcript[k].parts /\ transcript[k].parts[j] = transcript'[i].parts[j]
    BY <1>2, <1>3, <1>4, <1>6
  <2> QED BY <1>2, <2>1, <2>2
<1>7. CASE i # k
  BY <1>4, <1>7
<1> QED
  BY <1>3, <1>4, <1>5, <1>6, <1>7

(* What becomes of the transcript, by what the event is.                   *)
LEMMA WhatIsRecorded ==
  ASSUME NEW e, NEW kind, NEW n
  PROVE  /\ kind = "Usage" => /\ DurableEvent(e, kind, n) = Event(e, n, "StateChanged", <<>>)
                              /\ Folded(DurableEvent(e, kind, n)) = transcript
         /\ Coalesces(e, kind) =>
              /\ kind = "Note"
              /\ DurableEvent(e, kind, n) = Event(e, n, "MessageUpdated", <<Updated(Last(transcript), n)>>)
              /\ Folded(DurableEvent(e, kind, n)) =
                   [transcript EXCEPT ![Len(transcript)] = Updated(Last(transcript), n)]
         /\ kind # "Usage" /\ ~Coalesces(e, kind) =>
              /\ DurableEvent(e, kind, n) = Event(e, n, "MessageAppended", <<Message(e, kind, <<n>>)>>)
              /\ Folded(DurableEvent(e, kind, n)) = Append(transcript, Message(e, kind, <<n>>))
<1>1. /\ Coalesces(e, kind) => kind = "Note"
      /\ kind = "Usage" => ~Coalesces(e, kind)
  BY DEF Coalesces
<1>2. /\ kind = "Usage" => DurableEvent(e, kind, n) = Event(e, n, "StateChanged", <<>>)
      /\ Coalesces(e, kind) =>
           DurableEvent(e, kind, n) = Event(e, n, "MessageUpdated", <<Updated(Last(transcript), n)>>)
      /\ kind # "Usage" /\ ~Coalesces(e, kind) =>
           DurableEvent(e, kind, n) = Event(e, n, "MessageAppended", <<Message(e, kind, <<n>>)>>)
  BY <1>1 DEF DurableEvent
<1>3. ASSUME NEW event, event.payload = "StateChanged" PROVE Folded(event) = transcript
  BY <1>3 DEF Folded
<1>4. ASSUME NEW event, event.payload = "MessageUpdated"
      PROVE  Folded(event) = [transcript EXCEPT ![Len(transcript)] = event.message[1]]
  BY <1>4 DEF Folded
<1>5. ASSUME NEW event, event.payload = "MessageAppended"
      PROVE  Folded(event) = Append(transcript, event.message[1])
  BY <1>5 DEF Folded
<1>6. \A payload, m : /\ Event(e, n, payload, <<m>>).payload = payload
                      /\ Event(e, n, payload, <<m>>).message[1] = m
                      /\ Event(e, n, payload, <<>>).payload = payload
  BY DEF Event
<1> QED
  BY <1>1, <1>2, <1>3, <1>4, <1>5, <1>6

LEMMA PersistingKeepsTranscript ==
  ASSUME NumberInv, TranscriptInv, NEW e \in Executions, RoutePersists(e)
  PROVE  TranscriptInv'
<1> DEFINE kind == pending[e][1].kind
           n == counter[e]
<1>1. pending[e] # <<>>
  BY DEF RoutePersists
<1>2. /\ kind \in Kinds /\ pending[e][1].n = n /\ n \in Nat /\ n # 0 /\ last[e] < n
      /\ kind \in RowKinds /\ e \in Who /\ e # User
  BY <1>1, RoutingFacts, NamesAreNoExecutions DEF RowKinds, Who
<1>3. /\ transcript' = Folded(DurableEvent(e, kind, n))
      /\ last' = [last EXCEPT ![e] = n]
      /\ log' = IF kind = "Usage" THEN log ELSE Append(log, <<e, kind, n>>)
  BY <1>2 DEF RoutePersists
<1>4. Newer(e, n)
  BY <1>1, NumberIsNew
<1>8. Spends(e, n)
  BY <1>2, <1>3 DEF Spends
<1> HIDE DEF kind, n
<1>5. CASE kind = "Usage"
  <2>1. transcript' = transcript /\ log' = log
    BY <1>3, <1>5, WhatIsRecorded
  <2>2. \A x \in Executions : last[x] \in Nat /\ last'[x] \in Nat /\ last[x] <= last'[x]
    BY <1>2, <1>3 DEF NumberInv, NumberTypes
  <2>3. RowsBounded'
    <3> SUFFICES ASSUME NEW i \in DOMAIN log, log[i][1] # User
                 PROVE  log[i][3] <= last'[log[i][1]]
      BY <2>1 DEF TranscriptInv, RowsBounded
    <3>1. log[i] \in Rows
      BY DEF TranscriptInv
    <3>2. log[i][1] \in Executions /\ log[i][3] \in Nat
      BY <3>1 DEF Rows, Who
    <3>3. log[i][3] <= last[log[i][1]]
      BY DEF TranscriptInv, RowsBounded
    <3> QED BY <2>2, <3>2, <3>3
  <2>4. PartsBounded'
    <3> SUFFICES ASSUME NEW i \in DOMAIN transcript, NEW j \in DOMAIN transcript[i].parts,
                        transcript[i].by # User
                 PROVE  transcript[i].parts[j] <= last'[transcript[i].by]
      BY <2>1 DEF TranscriptInv, PartsBounded
    <3>1. transcript[i] \in Messages
      BY DEF TranscriptInv
    <3>2. transcript[i].by \in Executions /\ transcript[i].parts[j] \in Nat
      BY <3>1 DEF Messages, Who
    <3>3. transcript[i].parts[j] <= last[transcript[i].by]
      BY DEF TranscriptInv, PartsBounded
    <3> QED BY <2>2, <3>2, <3>3
  <2> QED
    BY <2>1, <2>3, <2>4 DEF TranscriptInv, OnceEach, TranscriptIsFaithful, InOrder, Places, RowAt
<1>6. CASE Coalesces(e, kind)
  <2>1. kind = "Note"
    BY <1>6 DEF Coalesces
  <2>2. Folded(DurableEvent(e, kind, n)) =
          [transcript EXCEPT ![Len(transcript)] = Updated(Last(transcript), n)]
    BY <1>6, WhatIsRecorded
  <2>3. Grows(e, n)
    BY <1>2, <1>3, <1>6, <2>1, <2>2 DEF Grows
  <2>4. transcript' \in Seq(Messages) /\ OnceEach(transcript') /\ TranscriptIsFaithful'
    BY <1>2, <1>4, <2>3, MessageGrows
  <2>5. AddsOnly(e, n) /\ log' = Append(log, <<e, kind, n>>)
    BY <1>2, <1>4, <2>1, <2>3, GrowingIsBounded DEF Grows
  <2>6. RowsBounded' /\ PartsBounded' /\ log' \in Seq(Rows)
    BY <1>2, <1>8, <2>5, BoundsKept
  <2> QED
    BY <2>4, <2>6 DEF TranscriptInv, OnceEach
<1>7. CASE kind # "Usage" /\ ~Coalesces(e, kind)
  <2>1. Folded(DurableEvent(e, kind, n)) = Append(transcript, Message(e, kind, <<n>>))
    BY <1>7, WhatIsRecorded
  <2>2. Opens(e, kind, n)
    BY <1>3, <1>7, <2>1 DEF Opens
  <2>3. transcript' \in Seq(Messages) /\ OnceEach(transcript') /\ TranscriptIsFaithful'
    BY <1>2, <1>4, <2>2, MessageOpens
  <2>4. AddsOnly(e, n) /\ log' = Append(log, <<e, kind, n>>)
    BY <1>2, <2>2, OpeningIsBounded DEF Opens
  <2>5. RowsBounded' /\ PartsBounded' /\ log' \in Seq(Rows)
    BY <1>2, <1>8, <2>4, BoundsKept
  <2> QED
    BY <2>3, <2>5 DEF TranscriptInv, OnceEach
<1> QED BY <1>5, <1>6, <1>7

LEMMA SendingKeepsTranscript ==
  ASSUME NumberInv, TranscriptInv, AppendsMessage
  PROVE  TranscriptInv'
<1> DEFINE n == Len(log) + 1
<1>1. /\ transcript' = Append(transcript, Message(User, "User", <<n>>))
      /\ log' = Append(log, <<User, "User", n>>)
      /\ last' = last
  BY DEF AppendsMessage
<1>2. n \in Nat /\ Len(log) \in Nat /\ User \in Who /\ "User" \in RowKinds
  BY DEF TranscriptInv, Who, RowKinds
<1>3. ASSUME NEW i \in DOMAIN log, log[i][1] = User PROVE log[i][3] < n
  <2>1. log[i] \in Rows
    BY DEF TranscriptInv
  <2>2. log[i][3] \in Nat /\ log[i][3] <= Len(log)
    BY <1>3, <2>1 DEF TranscriptInv, RowsBounded, Rows
  <2> QED BY <1>2, <2>2
<1>4. ASSUME NEW i \in DOMAIN transcript, NEW j \in DOMAIN transcript[i].parts,
             transcript[i].by = User
      PROVE  transcript[i].parts[j] < n
  <2>1. transcript[i] \in Messages
    BY DEF TranscriptInv
  <2>2. transcript[i].parts[j] \in Nat
    BY <2>1 DEF Messages
  <2>3. transcript[i].parts[j] <= Len(log)
    BY <1>4 DEF TranscriptInv, PartsBounded
  <2> QED BY <1>2, <2>2, <2>3
<1>5. Newer(User, n)
  BY <1>3, <1>4 DEF Newer
<1>6. Opens(User, "User", n) /\ Spends(User, n)
  BY <1>1 DEF Opens, Spends
<1> HIDE DEF n
<1>7. transcript' \in Seq(Messages) /\ OnceEach(transcript') /\ TranscriptIsFaithful'
  BY <1>2, <1>5, <1>6, MessageOpens
<1>8. AddsOnly(User, n)
  BY <1>2, <1>6, OpeningIsBounded
<1>9. RowsBounded' /\ PartsBounded' /\ log' \in Seq(Rows)
  BY <1>1, <1>2, <1>6, <1>8, BoundsKept
<1> QED
  BY <1>7, <1>9 DEF TranscriptInv, OnceEach

LEMMA TranscriptStep == NumberInv /\ TranscriptInv /\ [Next]_vars => TranscriptInv'
<1> SUFFICES ASSUME NumberInv, TranscriptInv, [Next]_vars PROVE TranscriptInv'
  OBVIOUS
<1>1. CASE UNCHANGED vars
  BY <1>1, TranscriptRests DEF vars, fileVars, ghostVars
<1>2. ASSUME NEW e \in Executions, OfExecution(e) PROVE TranscriptInv'
  <2>1. CASE \/ Begin(e) \/ Stop(e) \/ Unlink(e) \/ Emit(e) \/ RouteIgnored(e) \/ RouteWriteFails(e)
             \/ \E kind \in Kinds : Say(e, kind)
    BY <2>1, TranscriptRests
    DEF Begin, Stop, Unlink, Emit, RouteIgnored, RouteWriteFails, Say, fileVars, ghostVars
  <2>2. CASE RoutePersists(e)
    BY <2>2, PersistingKeepsTranscript
  <2> QED BY <1>2, <2>1, <2>2 DEF OfExecution
<1>3. CASE AppendsMessage
  BY <1>3, SendingKeepsTranscript
<1>4. CASE OfWindow
  BY <1>4, TranscriptRests
  DEF OfWindow, Receive, Prune, FetchReads, FetchReturns, FetchFails, SenderHears,
      fileVars, ghostVars
<1> QED BY <1>1, <1>2, <1>3, <1>4 DEF Next

(* However the runs of a session write beside each other, its file holds   *)
(* every saved row once and in the order of the writes, and text joins     *)
(* only text of its own run (bridge.rs under the session's lock,           *)
(* coalescing_note).                                                       *)
THEOREM TranscriptIsKept == Spec => []TranscriptIsFaithful
<1>1. Init => NumberInv /\ TranscriptInv
  BY NumbersAtFirst, TranscriptAtFirst
<1>2. NumberInv /\ TranscriptInv /\ [Next]_vars => (NumberInv /\ TranscriptInv)'
  BY NumbersStep, TranscriptStep
<1>3. TranscriptInv => TranscriptIsFaithful
  BY DEF TranscriptInv
<1> QED BY <1>1, <1>2, <1>3, PTL DEF Spec

(***************************************************************************)
(* Messages held by others: the overlay, an answer of the query, an event  *)
(***************************************************************************)
Has(messages, m) ==
  \E i \in DOMAIN messages : Id(messages[i]) = Id(m) /\ SequenceOf(messages[i]) >= SequenceOf(m)
Covers(messages, old) == \A i \in DOMAIN old : Has(messages, old[i])

(* `more` is `messages` with m in it, as a message of its own or in place  *)
(* of an older text of the same message.                                   *)
AddsTo(more, messages, m) ==
  /\ more \in Seq(Messages)
  /\ Covers(more, messages)
  /\ Has(more, m)
  /\ \A i \in DOMAIN more : more[i] = m \/ \E k \in DOMAIN messages : more[i] = messages[k]

LEMMA DatesAreNumbers == \A m \in Messages : SequenceOf(m) \in Nat
BY MessageFacts

LEMMA ElementsOf ==
  ASSUME NEW S, NEW s \in Seq(S)
  PROVE  /\ \A i \in DOMAIN s : s[i] \in S
         /\ Len(s) \in Nat /\ DOMAIN s = 1..Len(s)
OBVIOUS

LEMMA CoversSelf ==
  ASSUME NEW messages \in Seq(Messages) PROVE Covers(messages, messages)
<1>1. \A i \in DOMAIN messages : SequenceOf(messages[i]) \in Nat
  BY ElementsOf, DatesAreNumbers
<1>2. \A a \in Nat : a >= a
  OBVIOUS
<1> QED
  BY <1>1, <1>2 DEF Covers, Has

LEMMA HasStays ==
  ASSUME NEW old \in Seq(Messages), NEW messages \in Seq(Messages), NEW m \in Messages,
         Has(old, m), Covers(messages, old)
  PROVE  Has(messages, m)
<1>1. PICK i \in DOMAIN old : Id(old[i]) = Id(m) /\ SequenceOf(old[i]) >= SequenceOf(m)
  BY DEF Has
<1>2. PICK k \in DOMAIN messages :
        Id(messages[k]) = Id(old[i]) /\ SequenceOf(messages[k]) >= SequenceOf(old[i])
  BY DEF Covers, Has
<1>3. SequenceOf(m) \in Nat /\ SequenceOf(old[i]) \in Nat /\ SequenceOf(messages[k]) \in Nat
  BY ElementsOf, DatesAreNumbers
<1>4. \A a, b, c \in Nat : a >= b /\ b >= c => a >= c
  OBVIOUS
<1> QED
  BY <1>1, <1>2, <1>3, <1>4 DEF Has

LEMMA CoversStays ==
  ASSUME NEW held \in Seq(Messages), NEW old \in Seq(Messages), NEW messages \in Seq(Messages),
         Covers(old, held), Covers(messages, old)
  PROVE  Covers(messages, held)
<1>1. \A i \in DOMAIN held : held[i] \in Messages
  BY ElementsOf
<1> QED
  BY <1>1, HasStays DEF Covers

(* A message put at the end.                                               *)
LEMMA AppendedAdds ==
  ASSUME NEW messages \in Seq(Messages), NEW m \in Messages
  PROVE  /\ AddsTo(Append(messages, m), messages, m)
         /\ OnceEach(messages) /\ Id(m) \notin Ids(messages) => OnceEach(Append(messages, m))
<1> DEFINE more == Append(messages, m)
<1>1. /\ more \in Seq(Messages) /\ Len(messages) \in Nat
      /\ DOMAIN more = DOMAIN messages \cup {Len(messages) + 1}
      /\ more[Len(messages) + 1] = m
      /\ \A i \in DOMAIN messages : more[i] = messages[i] /\ messages[i] \in Messages
  BY AppendFacts, ElementsOf
<1> HIDE DEF more
<1>2. \A x \in Messages : SequenceOf(x) >= SequenceOf(x)
  BY DatesAreNumbers
<1>3. Covers(more, messages) /\ Has(more, m)
  BY <1>1, <1>2 DEF Covers, Has
<1>4. OnceEach(messages) /\ Id(m) \notin Ids(messages) => OnceEach(more)
  BY <1>1 DEF OnceEach, Ids
<1>5. AddsTo(more, messages, m)
  BY <1>1, <1>3 DEF AddsTo
<1> QED
  BY <1>4, <1>5 DEF more

(* A message put where an older text of it was.                            *)
LEMMA ExchangedAdds ==
  ASSUME NEW messages \in Seq(Messages), NEW m \in Messages, NEW more,
         more \in Seq(Messages), DOMAIN more = DOMAIN messages,
         \E i \in DOMAIN messages : more[i] = m,
         \A i \in DOMAIN messages :
           \/ more[i] = messages[i]
           \/ more[i] = m /\ Id(messages[i]) = Id(m) /\ SequenceOf(messages[i]) <= SequenceOf(m)
  PROVE  AddsTo(more, messages, m) /\ (OnceEach(messages) => OnceEach(more))
<1>1. \A x \in Messages : SequenceOf(x) >= SequenceOf(x)
  BY DatesAreNumbers
<1>2. \A i \in DOMAIN messages : messages[i] \in Messages
  BY ElementsOf
<1>3. ASSUME NEW i \in DOMAIN messages
      PROVE  Id(more[i]) = Id(messages[i]) /\ SequenceOf(more[i]) >= SequenceOf(messages[i])
  BY <1>1, <1>2, DatesAreNumbers
<1>4. Covers(more, messages) /\ Has(more, m)
  BY <1>1, <1>3 DEF Covers, Has
<1>5. OnceEach(messages) => OnceEach(more)
  BY <1>3 DEF OnceEach
<1> QED
  BY <1>4, <1>5 DEF AddsTo

(***************************************************************************)
(* Events, and the step that makes one                                     *)
(***************************************************************************)
Carrying == {"MessageAppended", "MessageUpdated"}

(* What an event says of the message it carries.                           *)
Brings(event, m) ==
  /\ event.message = <<m>>
  /\ m.by = event.by
  /\ SequenceOf(m) = event.n
  /\ event.payload = "MessageAppended" => Id(m) = <<event.by, event.n>>

Events ==
  {event \in [by : Executions, n : Nat, payload : Carrying \cup {"StateChanged", "NotSaved"},
              message : Seq(Messages)] :
     IF event.payload \in Carrying
     THEN \E m \in Messages : Brings(event, m)
     ELSE event.message = <<>>}

LEMMA EventFacts ==
  ASSUME NEW event \in Events
  PROVE  /\ event.by \in Executions /\ event.n \in Nat
         /\ event.payload \in Carrying \cup {"StateChanged", "NotSaved"}
         /\ event.payload \in Carrying <=> event.message # <<>>
         /\ event.message # <<>> =>
              /\ Brings(event, event.message[1])
              /\ event.message[1] \in Messages
<1>1. event.payload \in Carrying => \E m \in Messages : Brings(event, m)
  BY DEF Events
<1>2. event.payload \notin Carrying => event.message = <<>>
  BY DEF Events
<1>3. \A m : Brings(event, m) => event.message # <<>> /\ event.message[1] = m
  BY DEF Brings
<1>4. /\ event.by \in Executions /\ event.n \in Nat
      /\ event.payload \in Carrying \cup {"StateChanged", "NotSaved"}
  BY DEF Events
<1> QED
  BY <1>1, <1>2, <1>3, <1>4

LEMMA BareEvent ==
  ASSUME NEW e \in Executions, NEW n \in Nat, NEW payload \in {"StateChanged", "NotSaved"}
  PROVE  /\ Event(e, n, payload, <<>>) \in Events
         /\ Event(e, n, payload, <<>>).by = e /\ Event(e, n, payload, <<>>).n = n
         /\ Event(e, n, payload, <<>>).message = <<>>
BY DEF Event, Events, Carrying

LEMMA CarryingEvent ==
  ASSUME NEW e \in Executions, NEW n \in Nat, NEW payload \in Carrying, NEW m \in Messages,
         m.by = e, SequenceOf(m) = n, payload = "MessageAppended" => Id(m) = <<e, n>>
  PROVE  /\ Event(e, n, payload, <<m>>) \in Events
         /\ Event(e, n, payload, <<m>>).by = e /\ Event(e, n, payload, <<m>>).n = n
         /\ Event(e, n, payload, <<m>>).message = <<m>>
<1> DEFINE event == Event(e, n, payload, <<m>>)
<1>1. event.by = e /\ event.n = n /\ event.payload = payload /\ event.message = <<m>>
  BY DEF Event
<1>2. Brings(event, m)
  BY <1>1 DEF Brings
<1>3. <<m>> \in Seq(Messages)
  OBVIOUS
<1>4. event \in [by : Executions, n : Nat, payload : Carrying \cup {"StateChanged", "NotSaved"},
                 message : Seq(Messages)]
  BY <1>3 DEF Event
<1> HIDE DEF event
<1>5. event \in Events
  BY <1>1, <1>2, <1>4 DEF Events
<1> QED
  BY <1>1, <1>5 DEF event

(* The numbers of a run that were routed to their end.                     *)
Told(e) == saved[e] \cup failed[e]

(* The file takes what an event carries, and no more.                      *)
FileTakes(event) ==
  IF event.message = <<>>
  THEN transcript' = transcript
  ELSE AddsTo(transcript', transcript, event.message[1])

Delivers(e, event) ==
  /\ event \in Events /\ event.by = e /\ event.n # 0
  /\ \A k \in Told(e) : k < event.n
  /\ \A x \in Executions : Told(x) \subseteq Told(x)'
  /\ event.n \in Told(e)'
  /\ pending[e] # <<>> /\ pending' = [pending EXCEPT ![e] = <<>>]
  /\ outbox' = [outbox EXCEPT ![e] = <<event>>]
  /\ FileTakes(event)
  /\ UNCHANGED <<inbox, overlayVars, queryVars, sending>>

LEMMA PersistingDelivers ==
  ASSUME NumberInv, TranscriptInv, NEW e \in Executions, RoutePersists(e)
  PROVE  \E event \in Events : Delivers(e, event)
<1> DEFINE kind == pending[e][1].kind
           n == counter[e]
           event == DurableEvent(e, kind, n)
<1>1. pending[e] # <<>>
  BY DEF RoutePersists
<1>2. /\ kind \in Kinds /\ pending[e][1].n = n /\ n \in Nat /\ n # 0
      /\ kind \in RowKinds /\ e \in Who /\ e # User
      /\ \A k \in Told(e) : k < n
  BY <1>1, RoutingFacts, NamesAreNoExecutions DEF RowKinds, Who, Told
<1>3. /\ transcript' = Folded(event)
      /\ log' = IF kind = "Usage" THEN log ELSE Append(log, <<e, kind, n>>)
      /\ outbox' = [outbox EXCEPT ![e] = <<event>>]
      /\ pending' = [pending EXCEPT ![e] = <<>>]
      /\ saved' = [saved EXCEPT ![e] = @ \cup {n}] /\ failed' = failed
      /\ UNCHANGED <<inbox, overlayVars, queryVars, sending>>
  BY <1>2 DEF RoutePersists
<1>4. Newer(e, n) /\ transcript \in Seq(Messages)
  BY <1>1, NumberIsNew DEF TranscriptInv
<1> HIDE DEF kind, n
<1>5. event \in Events /\ event.by = e /\ event.n = n /\ FileTakes(event)
  <2>1. CASE kind = "Usage"
    <3>1. event = Event(e, n, "StateChanged", <<>>) /\ Folded(event) = transcript
      BY <2>1, WhatIsRecorded
    <3> HIDE DEF event
    <3> QED BY <1>2, <1>3, <3>1, BareEvent DEF FileTakes
  <2>2. CASE Coalesces(e, kind)
    <3> DEFINE m == Last(transcript)
               u == Updated(m, n)
    <3>1. kind = "Note"
      BY <2>2 DEF Coalesces
    <3>2. event = Event(e, n, "MessageUpdated", <<u>>) /\ Folded(event) = [transcript EXCEPT ![Len(transcript)] = u]
      BY <2>2, WhatIsRecorded
    <3>3. Grows(e, n)
      BY <1>2, <1>3, <2>2, <3>1, <3>2 DEF Grows
    <3>4. m \in Messages /\ m.by = e /\ SequenceOf(m) < n /\ transcript' \in Seq(Messages)
      BY <1>2, <1>4, <3>3, MessageGrows
    <3>5. u \in Messages /\ Id(u) = Id(m) /\ SequenceOf(u) = n /\ u.by = e
      <4> HIDE DEF m
      <4> QED BY <1>2, <3>4, UpdatedMessage
    <3>6. Len(transcript) \in DOMAIN transcript /\ m = transcript[Len(transcript)]
      BY <1>4, <2>2 DEF Last, Coalesces
    <3> HIDE DEF u, m, event
    <3>7. /\ DOMAIN transcript' = DOMAIN transcript /\ transcript'[Len(transcript)] = u
          /\ \A i \in DOMAIN transcript : i # Len(transcript) => transcript'[i] = transcript[i]
      BY <1>3, <1>4, <3>2, <3>6
    <3>8. SequenceOf(m) <= SequenceOf(u)
      BY <1>2, <3>4, <3>5, DatesAreNumbers
    <3>9. AddsTo(transcript', transcript, u)
      BY <1>4, <3>4, <3>5, <3>6, <3>7, <3>8, ExchangedAdds
    <3>10. event \in Events /\ event.by = e /\ event.n = n /\ event.message = <<u>>
      BY <1>2, <3>2, <3>5, CarryingEvent DEF Carrying
    <3> QED BY <3>9, <3>10 DEF FileTakes
  <2>3. CASE kind # "Usage" /\ ~Coalesces(e, kind)
    <3> DEFINE m == Message(e, kind, <<n>>)
    <3>1. event = Event(e, n, "MessageAppended", <<m>>) /\ Folded(event) = Append(transcript, m)
      BY <2>3, WhatIsRecorded
    <3>2. m \in Messages /\ Id(m) = <<e, n>> /\ SequenceOf(m) = n /\ m.by = e
      BY <1>2, NewMessage
    <3> HIDE DEF m, event
    <3>3. AddsTo(transcript', transcript, m)
      BY <1>3, <1>4, <3>1, <3>2, AppendedAdds
    <3>4. event \in Events /\ event.by = e /\ event.n = n /\ event.message = <<m>>
      <4>1. "MessageAppended" \in Carrying
        BY DEF Carrying
      <4> QED BY <1>2, <3>1, <3>2, <4>1, CarryingEvent
    <3> QED BY <3>3, <3>4 DEF FileTakes
  <2> QED BY <2>1, <2>2, <2>3
<1> HIDE DEF event
<1>6. saved \in [Executions -> SUBSET Nat]
  BY DEF NumberInv, NumberTypes
<1>7. n \in Told(e)' /\ \A x \in Executions : Told(x) \subseteq Told(x)'
  BY <1>3, <1>6 DEF Told
<1> QED
  BY <1>1, <1>2, <1>3, <1>5, <1>7 DEF Delivers

LEMMA FailingDelivers ==
  ASSUME NumberInv, NEW e \in Executions, RouteWriteFails(e)
  PROVE  \E event \in Events : Delivers(e, event)
<1> DEFINE n == counter[e]
           event == Event(e, n, "NotSaved", <<>>)
<1>1. pending[e] # <<>>
  BY DEF RouteWriteFails
<1>2. pending[e][1].n = n /\ n \in Nat /\ n # 0 /\ \A k \in Told(e) : k < n
  BY <1>1, RoutingFacts DEF Told
<1>3. /\ transcript' = transcript
      /\ outbox' = [outbox EXCEPT ![e] = <<event>>]
      /\ pending' = [pending EXCEPT ![e] = <<>>]
      /\ failed' = [failed EXCEPT ![e] = @ \cup {n}] /\ saved' = saved
      /\ UNCHANGED <<inbox, overlayVars, queryVars, sending>>
  BY <1>2 DEF RouteWriteFails, fileVars
<1>4. event \in Events /\ event.by = e /\ event.n = n /\ event.message = <<>>
  BY <1>2, BareEvent
<1> HIDE DEF event, n
<1>5. failed \in [Executions -> SUBSET Nat]
  BY DEF NumberInv, NumberTypes
<1>6. n \in Told(e)' /\ \A x \in Executions : Told(x) \subseteq Told(x)'
  BY <1>3, <1>5 DEF Told
<1> QED
  BY <1>1, <1>2, <1>3, <1>4, <1>6 DEF Delivers, FileTakes

(***************************************************************************)
(* What is on its way to the window, and what the window holds             *)
(***************************************************************************)

(* Events arrive with the numbers of their run in order, above the last    *)
(* one the overlay took, and each number has been routed to its end.       *)
WayTypes ==
  /\ inbox \in Seq(Events)
  /\ seen \in [Executions -> Nat]
  /\ outbox = [e \in Executions |-> outbox[e]]
  /\ \A e \in Executions :
       outbox[e] = <<>> \/ \E event \in Events : outbox[e] = <<event>> /\ event.by = e

OneInHand == \A e \in Executions : pending[e] # <<>> => outbox[e] = <<>>
SeenIsTold == \A e \in Executions : seen[e] \in Told(e) \cup {0}
InboxIsNew ==
  \A k \in DOMAIN inbox : inbox[k].n \in Told(inbox[k].by) /\ seen[inbox[k].by] < inbox[k].n
InboxIsOrdered ==
  \A k, l \in DOMAIN inbox : k < l /\ inbox[k].by = inbox[l].by => inbox[k].n < inbox[l].n
OutboxIsNewest ==
  \A e \in Executions : outbox[e] # <<>> =>
    /\ outbox[e][1].n \in Told(e) /\ seen[e] < outbox[e][1].n
    /\ \A k \in DOMAIN inbox : inbox[k].by = e => inbox[k].n < outbox[e][1].n

WayInv ==
  WayTypes /\ OneInHand /\ SeenIsTold /\ InboxIsNew /\ InboxIsOrdered /\ OutboxIsNewest

(* Whatever is held or carried is in the file, as new or newer.            *)
Kept(messages, event) == event.message # <<>> => Has(messages, event.message[1])
HeldInv ==
  /\ \A k \in DOMAIN inbox : Kept(transcript, inbox[k])
  /\ \A e \in Executions : outbox[e] # <<>> => Kept(transcript, outbox[e][1])
  /\ Covers(transcript, live) /\ Covers(transcript, shown) /\ Covers(transcript, copy)

WindowTypes == live \in Seq(Messages) /\ shown \in Seq(Messages) /\ copy \in Seq(Messages)
LiveIsSeen ==
  \A i \in DOMAIN live : live[i].by \in Executions /\ SequenceOf(live[i]) <= seen[live[i].by]
QueryGoesForward ==
  /\ fetch = "Read" => Covers(copy, shown)
  /\ ~loaded => shown = <<>>
  /\ fetch = "Idle" \/ sending \/ found => loaded

WindowInv ==
  /\ WindowTypes
  /\ OnceEach(live) /\ OnceEach(shown) /\ OnceEach(copy)
  /\ LiveIsSeen
  /\ QueryGoesForward

(* While the query has the session for an answer, or holds one, nothing of *)
(* the file is missing from it that the overlay has not and that is not on *)
(* its way.                                                                *)
Answer == IF fetch = "Read" THEN copy ELSE shown
Arriving(m) ==
  \/ \E k \in DOMAIN inbox : inbox[k].message = <<m>>
  \/ \E e \in Executions : outbox[e] # <<>> /\ outbox[e][1].message = <<m>>
  \/ sending /\ m.by = User
Reaches(m) == Has(Answer, m) \/ Has(live, m) \/ Arriving(m)
CoverInv ==
  fetch = "Read" \/ (fetch = "Idle" /\ found) => \A i \in DOMAIN transcript : Reaches(transcript[i])

SightInv == WayInv /\ HeldInv /\ WindowInv /\ CoverInv

LEMMA SightAtFirst == Init => SightInv
<1> SUFFICES ASSUME Init PROVE SightInv
  OBVIOUS
<1>1. /\ inbox = <<>> /\ live = <<>> /\ shown = <<>> /\ copy = <<>> /\ transcript = <<>>
      /\ seen = [e \in Executions |-> 0] /\ outbox = [e \in Executions |-> <<>>]
      /\ fetch = "Wanted" /\ sending = FALSE /\ found = FALSE
  BY DEF Init
<1>2. WayInv
  BY <1>1 DEF WayInv, WayTypes, OneInHand, SeenIsTold, InboxIsNew, InboxIsOrdered, OutboxIsNewest
<1>3. HeldInv
  BY <1>1 DEF HeldInv, Covers
<1>4. WindowInv
  BY <1>1 DEF WindowInv, WindowTypes, OnceEach, LiveIsSeen, QueryGoesForward
<1>5. CoverInv
  BY <1>1 DEF CoverInv
<1> QED BY <1>2, <1>3, <1>4, <1>5 DEF SightInv

(* What leaves a part alone keeps it.                                      *)
LEMMA WayRests ==
  ASSUME WayInv, UNCHANGED <<inbox, outbox, seen, saved, failed>>,
         \A e \in Executions : pending'[e] # <<>> => outbox[e] = <<>>
  PROVE  WayInv'
BY DEF WayInv, WayTypes, OneInHand, SeenIsTold, InboxIsNew, InboxIsOrdered, OutboxIsNewest, Told

LEMMA HeldRests ==
  HeldInv /\ UNCHANGED <<transcript, inbox, outbox, live, shown, copy>> => HeldInv'
BY DEF HeldInv, Kept, Covers

LEMMA WindowRests ==
  WindowInv /\ UNCHANGED <<live, seen, shown, copy, fetch, loaded, found, sending>> => WindowInv'
BY DEF WindowInv, WindowTypes, LiveIsSeen, QueryGoesForward, OnceEach, Covers

LEMMA CoverRests ==
  CoverInv /\ UNCHANGED <<transcript, inbox, outbox, live, shown, copy, fetch, found, sending>> => CoverInv'
<1> SUFFICES ASSUME CoverInv,
                    UNCHANGED <<transcript, inbox, outbox, live, shown, copy, fetch, found, sending>>
             PROVE  CoverInv'
  OBVIOUS
<1>1. Answer' = Answer
  BY DEF Answer
<1>2. \A m : Reaches(m) => Reaches(m)'
  BY <1>1 DEF Reaches, Arriving
<1> QED BY <1>2 DEF CoverInv

LEMMA RestingKeepsSight ==
  ASSUME SightInv,
         UNCHANGED <<transcript, outbox, inbox, overlayVars, queryVars, sending, saved, failed>>,
         \A e \in Executions : pending'[e] # <<>> => outbox[e] = <<>>
  PROVE  SightInv'
BY WayRests, HeldRests, WindowRests, CoverRests DEF SightInv, overlayVars, queryVars

(* What is held stays in a file that only grows.                           *)
LEMMA HeldStays ==
  ASSUME WayTypes, WindowTypes, HeldInv, NEW old, NEW more,
         old = transcript, old \in Seq(Messages), more \in Seq(Messages), Covers(more, old)
  PROVE  /\ \A k \in DOMAIN inbox : Kept(more, inbox[k])
         /\ \A e \in Executions : outbox[e] # <<>> => Kept(more, outbox[e][1])
         /\ Covers(more, live) /\ Covers(more, shown) /\ Covers(more, copy)
<1>1. ASSUME NEW event \in Events, Kept(transcript, event) PROVE Kept(more, event)
  BY <1>1, EventFacts, HasStays DEF Kept
<1>2. \A k \in DOMAIN inbox : inbox[k] \in Events
  BY ElementsOf DEF WayTypes
<1>3. \A e \in Executions : outbox[e] # <<>> => outbox[e][1] \in Events
  BY DEF WayTypes
<1>4. Covers(more, live) /\ Covers(more, shown) /\ Covers(more, copy)
  BY CoversStays DEF HeldInv, WindowTypes
<1> QED
  BY <1>1, <1>2, <1>3, <1>4 DEF HeldInv

LEMMA DeliveringKeepsWay ==
  ASSUME NumberInv, WayInv, NEW e \in Executions, NEW event \in Events, Delivers(e, event)
  PROVE  WayInv'
<1>1. /\ event.by = e /\ event.n \in Nat /\ event.n # 0 /\ event.n \in Told(e)'
      /\ \A k \in Told(e) : k < event.n
      /\ \A x \in Executions : Told(x) \subseteq Told(x)'
      /\ pending[e] # <<>> /\ pending' = [pending EXCEPT ![e] = <<>>]
      /\ outbox' = [outbox EXCEPT ![e] = <<event>>]
      /\ inbox' = inbox /\ seen' = seen
  BY EventFacts DEF Delivers, overlayVars
<1>2. /\ outbox'[e] = <<event>> /\ outbox'[e][1] = event
      /\ \A x \in Executions : x # e => outbox'[x] = outbox[x]
      /\ outbox' = [x \in Executions |-> outbox'[x]]
  BY <1>1 DEF WayInv, WayTypes
<1>3. WayTypes'
  BY <1>1, <1>2 DEF WayInv, WayTypes
<1>4. OneInHand'
  <2>1. pending = [x \in Executions |-> pending[x]]
    BY DEF NumberInv, NumberTypes
  <2>2. pending'[e] = <<>> /\ \A x \in Executions : x # e => pending'[x] = pending[x]
    BY <1>1, <2>1
  <2> QED BY <1>2, <2>2 DEF OneInHand, WayInv
<1>5. SeenIsTold'
  BY <1>1 DEF SeenIsTold, WayInv
<1>6. \A k \in DOMAIN inbox : inbox[k].by \in Executions
  BY ElementsOf, EventFacts DEF WayInv, WayTypes
<1>7. InboxIsNew'
  BY <1>1, <1>6 DEF InboxIsNew, WayInv
<1>8. InboxIsOrdered'
  BY <1>1 DEF InboxIsOrdered, WayInv
<1>9. OutboxIsNewest'
  <2>1. ASSUME NEW x \in Executions, x # e, outbox'[x] # <<>>
        PROVE  /\ outbox'[x][1].n \in Told(x)' /\ seen'[x] < outbox'[x][1].n
               /\ \A k \in DOMAIN inbox' : inbox'[k].by = x => inbox'[k].n < outbox'[x][1].n
    BY <1>1, <1>2, <2>1 DEF OutboxIsNewest, WayInv
  <2>2. seen[e] < event.n
    <3>1. seen[e] \in Told(e) \cup {0}
      BY DEF SeenIsTold, WayInv
    <3> QED BY <1>1, <3>1
  <2>3. \A k \in DOMAIN inbox : inbox[k].by = e => inbox[k].n < event.n
    BY <1>1 DEF InboxIsNew, WayInv
  <2> QED
    BY <1>1, <1>2, <2>1, <2>2, <2>3 DEF OutboxIsNewest
<1> QED
  BY <1>3, <1>4, <1>5, <1>7, <1>8, <1>9 DEF WayInv

LEMMA DeliveringKeepsSight ==
  ASSUME NumberInv, TranscriptInv, SightInv,
         NEW e \in Executions, NEW event \in Events, Delivers(e, event)
  PROVE  SightInv'
<1>1. /\ outbox' = [outbox EXCEPT ![e] = <<event>>] /\ FileTakes(event)
      /\ pending[e] # <<>>
      /\ UNCHANGED <<inbox, live, seen, shown, copy, fetch, loaded, found, sending>>
  BY DEF Delivers, overlayVars, queryVars
<1>2. outbox[e] = <<>> /\ outbox = [x \in Executions |-> outbox[x]]
  BY <1>1 DEF SightInv, WayInv, WayTypes, OneInHand
<1>3. outbox'[e] = <<event>> /\ \A x \in Executions : x # e => outbox'[x] = outbox[x]
  BY <1>1, <1>2
<1>4. /\ transcript \in Seq(Messages) /\ transcript' \in Seq(Messages)
      /\ Covers(transcript', transcript) /\ Kept(transcript', event)
  BY <1>1, CoversSelf DEF TranscriptInv, FileTakes, AddsTo, Kept
<1>5. WayInv'
  BY DeliveringKeepsWay DEF SightInv
<1>6. HeldInv'
  <2>1. /\ \A k \in DOMAIN inbox : Kept(transcript', inbox[k])
        /\ \A x \in Executions : outbox[x] # <<>> => Kept(transcript', outbox[x][1])
        /\ Covers(transcript', live) /\ Covers(transcript', shown) /\ Covers(transcript', copy)
    BY <1>4, HeldStays DEF SightInv, WayInv, WindowInv
  <2> QED
    BY <1>1, <1>3, <1>4, <2>1 DEF HeldInv
<1>7. WindowInv'
  BY <1>1, WindowRests DEF SightInv
<1>8. CoverInv'
  <2>1. Answer' = Answer
    BY <1>1 DEF Answer
  <2>2. \A m : Arriving(m) => Arriving(m)'
    BY <1>1, <1>2, <1>3 DEF Arriving
  <2>3. \A m : Reaches(m) => Reaches(m)'
    <3>1. live' = live
      BY <1>1
    <3> QED BY <2>1, <2>2, <3>1 DEF Reaches
  <2>4. \A m : event.message = <<m>> => Reaches(m)'
    BY <1>3 DEF Reaches, Arriving
  <2>5. event.message # <<>> => event.message = <<event.message[1]>>
    BY EventFacts DEF Brings
  <2>6. ASSUME NEW i \in DOMAIN transcript'
        PROVE  \/ \E k \in DOMAIN transcript : transcript'[i] = transcript[k]
               \/ event.message = <<transcript'[i]>>
    BY <1>1, <2>5 DEF FileTakes, AddsTo
  <2> QED
    BY <1>1, <2>3, <2>4, <2>6 DEF CoverInv, SightInv
<1> QED
  BY <1>5, <1>6, <1>7, <1>8 DEF SightInv

LEMMA EmittingKeepsSight ==
  ASSUME SightInv, NEW e \in Executions, Emit(e)
  PROVE  SightInv'
<1> DEFINE event == outbox[e][1]
<1>1. /\ outbox[e] # <<>> /\ outbox' = [outbox EXCEPT ![e] = <<>>]
      /\ \/ inbox' = inbox /\ event.payload = "NotSaved"
         \/ inbox' = Append(inbox, event)
      /\ UNCHANGED <<transcript, pending, live, seen, shown, copy, fetch, loaded, found, sending, saved, failed>>
  BY DEF Emit, fileVars, routeVars, overlayVars, queryVars, ghostVars
<1>2. /\ event \in Events /\ event.by = e /\ event.n \in Nat
      /\ event.payload = "NotSaved" => event.message = <<>>
  <2>1. event \in Events /\ event.by = e
    BY <1>1 DEF SightInv, WayInv, WayTypes
  <2> HIDE DEF event
  <2> QED BY <2>1, EventFacts DEF Carrying
<1>3. /\ event.n \in Told(e) /\ seen[e] < event.n
      /\ \A k \in DOMAIN inbox : inbox[k].by = e => inbox[k].n < event.n
      /\ Kept(transcript, event)
  BY <1>1 DEF SightInv, WayInv, OutboxIsNewest, HeldInv
<1>4. inbox \in Seq(Events) /\ outbox = [x \in Executions |-> outbox[x]]
  BY DEF SightInv, WayInv, WayTypes
<1>5. outbox'[e] = <<>> /\ \A x \in Executions : x # e => outbox'[x] = outbox[x]
  BY <1>1, <1>4
<1>6. \A m : event.message = <<m>> => \E k \in DOMAIN inbox' : inbox'[k].message = <<m>>
  <2>1. CASE inbox' = inbox /\ event.payload = "NotSaved"
    BY <1>2, <2>1
  <2>2. CASE inbox' = Append(inbox, event)
    <3> HIDE DEF event
    <3>1. Len(inbox) + 1 \in DOMAIN inbox' /\ inbox'[Len(inbox) + 1] = event
      BY <1>2, <1>4, <2>2, AppendFacts
    <3> QED BY <3>1
  <2> QED BY <1>1, <2>1, <2>2
<1> HIDE DEF event
<1>7. /\ inbox' \in Seq(Events)
      /\ \A k \in DOMAIN inbox : k \in DOMAIN inbox' /\ inbox'[k] = inbox[k]
      /\ \A k \in DOMAIN inbox' : \/ k \in DOMAIN inbox /\ inbox'[k] = inbox[k]
                                  \/ inbox'[k] = event /\ \A l \in DOMAIN inbox' : l <= k
  <2>1. CASE inbox' = inbox
    BY <1>4, <2>1
  <2>2. CASE inbox' = Append(inbox, event)
    <3>1. /\ Len(inbox) \in Nat /\ DOMAIN inbox = 1..Len(inbox)
          /\ inbox' \in Seq(Events) /\ DOMAIN inbox' = DOMAIN inbox \cup {Len(inbox) + 1}
          /\ inbox'[Len(inbox) + 1] = event
          /\ \A k \in DOMAIN inbox : inbox'[k] = inbox[k]
      BY <1>2, <1>4, <2>2, AppendFacts
    <3>2. \A l \in DOMAIN inbox' : l <= Len(inbox) + 1
      BY <3>1
    <3> QED BY <3>1, <3>2
  <2> QED BY <1>1, <2>1, <2>2
<1>8. WayInv'
  <2>1. WayTypes'
    BY <1>1, <1>4, <1>5, <1>7 DEF SightInv, WayInv, WayTypes
  <2>2. OneInHand'
    BY <1>1, <1>5 DEF SightInv, WayInv, OneInHand
  <2>3. \A x : Told(x)' = Told(x)
    BY <1>1 DEF Told
  <2>4. SeenIsTold'
    BY <1>1, <2>3 DEF SightInv, WayInv, SeenIsTold
  <2>5. InboxIsNew'
    BY <1>1, <1>2, <1>3, <1>7, <2>3 DEF SightInv, WayInv, InboxIsNew
  <2>6. InboxIsOrdered'
    <3> SUFFICES ASSUME NEW k \in DOMAIN inbox', NEW l \in DOMAIN inbox', k < l,
                        inbox'[k].by = inbox'[l].by
                 PROVE  inbox'[k].n < inbox'[l].n
      BY DEF InboxIsOrdered
    <3>1. k \in DOMAIN inbox /\ inbox'[k] = inbox[k]
      <4>1. DOMAIN inbox' \subseteq Int
        BY <1>7
      <4> QED BY <1>7, <4>1
    <3>2. CASE l \in DOMAIN inbox /\ inbox'[l] = inbox[l]
      BY <3>1, <3>2 DEF SightInv, WayInv, InboxIsOrdered
    <3>3. CASE inbox'[l] = event
      BY <1>2, <1>3, <3>1, <3>3
    <3> QED BY <1>7, <3>2, <3>3
  <2>7. OutboxIsNewest'
    <3> SUFFICES ASSUME NEW x \in Executions, outbox'[x] # <<>>
                 PROVE  /\ outbox'[x][1].n \in Told(x)' /\ seen'[x] < outbox'[x][1].n
                        /\ \A k \in DOMAIN inbox' : inbox'[k].by = x => inbox'[k].n < outbox'[x][1].n
      BY DEF OutboxIsNewest
    <3>1. x # e /\ outbox'[x] = outbox[x]
      BY <1>5
    <3> QED
      BY <1>1, <1>2, <1>7, <2>3, <3>1 DEF SightInv, WayInv, OutboxIsNewest
  <2> QED BY <2>1, <2>2, <2>4, <2>5, <2>6, <2>7 DEF WayInv
<1>9. HeldInv'
  <2>1. \A k \in DOMAIN inbox' : Kept(transcript', inbox'[k])
    BY <1>1, <1>3, <1>7 DEF SightInv, HeldInv
  <2>2. \A x \in Executions : outbox'[x] # <<>> => Kept(transcript', outbox'[x][1])
    BY <1>1, <1>5 DEF SightInv, HeldInv
  <2> QED BY <1>1, <2>1, <2>2 DEF SightInv, HeldInv
<1>10. WindowInv'
  BY <1>1, WindowRests DEF SightInv
<1>11. CoverInv'
  <2>1. Answer' = Answer
    BY <1>1 DEF Answer
  <2>2. ASSUME NEW m, Arriving(m) PROVE Arriving(m)'
    <3>1. CASE \E k \in DOMAIN inbox : inbox[k].message = <<m>>
      BY <1>7, <3>1 DEF Arriving
    <3>2. CASE \E x \in Executions : outbox[x] # <<>> /\ outbox[x][1].message = <<m>>
      <4>1. PICK x \in Executions : outbox[x] # <<>> /\ outbox[x][1].message = <<m>>
        BY <3>2
      <4>2. CASE x = e
        BY <1>6, <4>1, <4>2 DEF Arriving, event
      <4>3. CASE x # e
        BY <1>5, <4>1, <4>3 DEF Arriving
      <4> QED BY <4>2, <4>3
    <3>3. CASE sending /\ m.by = User
      BY <1>1, <3>3 DEF Arriving
    <3> QED BY <2>2, <3>1, <3>2, <3>3 DEF Arriving
  <2>3. \A m : Reaches(m) => Reaches(m)'
    BY <1>1, <2>1, <2>2 DEF Reaches
  <2> QED
    BY <1>1, <2>3 DEF SightInv, CoverInv
<1> QED BY <1>8, <1>9, <1>10, <1>11 DEF SightInv

LEMMA SendingKeepsSight ==
  ASSUME TranscriptInv, SightInv, AppendsMessage
  PROVE  SightInv'
<1> DEFINE m == Message(User, "User", <<Len(log) + 1>>)
<1>1. /\ transcript' = Append(transcript, m) /\ sending' = TRUE /\ found /\ loaded
      /\ UNCHANGED <<outbox, inbox, pending, live, seen, shown, copy, fetch, loaded, found, saved, failed>>
  BY DEF AppendsMessage, routeVars, overlayVars, queryVars, SightInv, WindowInv, QueryGoesForward
<1>2. transcript \in Seq(Messages) /\ Len(log) + 1 \in Nat /\ User \in Who /\ "User" \in RowKinds
  BY DEF TranscriptInv, Who, RowKinds
<1>3. m \in Messages /\ m.by = User
  BY <1>2, NewMessage
<1> HIDE DEF m
<1>4. AddsTo(transcript', transcript, m)
  BY <1>1, <1>2, <1>3, AppendedAdds
<1>5. WayInv'
  BY <1>1, WayRests DEF SightInv, WayInv, OneInHand
<1>6. HeldInv'
  <2>1. /\ \A k \in DOMAIN inbox : Kept(transcript', inbox[k])
        /\ \A x \in Executions : outbox[x] # <<>> => Kept(transcript', outbox[x][1])
        /\ Covers(transcript', live) /\ Covers(transcript', shown) /\ Covers(transcript', copy)
    BY <1>2, <1>4, HeldStays DEF SightInv, WayInv, WindowInv, AddsTo
  <2> QED BY <1>1, <2>1 DEF HeldInv
<1>7. WindowInv'
  BY <1>1 DEF SightInv, WindowInv, WindowTypes, LiveIsSeen, QueryGoesForward, OnceEach
<1>8. CoverInv'
  <2>1. Answer' = Answer
    BY <1>1 DEF Answer
  <2>2. sending'
    BY <1>1
  <2>3. \A x : Reaches(x) => Reaches(x)'
    <3>1. \A x : Arriving(x) => Arriving(x)'
      BY <1>1, <2>2, Zenon DEF Arriving
    <3> QED BY <1>1, <2>1, <3>1 DEF Reaches
  <2>4. \A x : x = m => Reaches(x)'
    BY <1>3, <2>2 DEF Reaches, Arriving
  <2>5. \A i \in DOMAIN transcript' : transcript'[i] = m \/ \E k \in DOMAIN transcript : transcript'[i] = transcript[k]
    BY <1>4 DEF AddsTo
  <2> QED
    BY <1>1, <2>3, <2>4, <2>5 DEF SightInv, CoverInv
<1> QED BY <1>5, <1>6, <1>7, <1>8 DEF SightInv

(***************************************************************************)
(* The window's own steps                                                  *)
(***************************************************************************)
LEMMA InvalidateFacts ==
  ASSUME Invalidate
  PROVE  \/ fetch' = "Wanted" /\ copy' = <<>>
         \/ ~loaded /\ fetch \in {"Wanted", "Read"} /\ fetch' = fetch /\ copy' = copy
BY DEF Invalidate

LEMMA HearingKeepsSight ==
  ASSUME SightInv, SenderHears
  PROVE  SightInv'
<1>1. /\ sending /\ ~sending'
      /\ UNCHANGED <<transcript, outbox, inbox, pending, live, seen, shown, loaded, found, saved, failed>>
  BY DEF SenderHears, fileVars, routeVars, overlayVars, ghostVars
<1>2. fetch' = "Wanted" /\ copy' = <<>>
  BY <1>1, InvalidateFacts DEF SenderHears, SightInv, WindowInv, QueryGoesForward
<1>3. WayInv'
  BY <1>1, WayRests DEF SightInv, WayInv, OneInHand
<1>4. HeldInv'
  BY <1>1, <1>2 DEF SightInv, HeldInv, Covers, Kept
<1>5. WindowInv'
  BY <1>1, <1>2 DEF SightInv, WindowInv, WindowTypes, LiveIsSeen, QueryGoesForward, OnceEach
<1>6. CoverInv'
  BY <1>2 DEF CoverInv
<1> QED BY <1>3, <1>4, <1>5, <1>6 DEF SightInv

LEMMA ReadingKeepsSight ==
  ASSUME TranscriptInv, SightInv, FetchReads
  PROVE  SightInv'
<1>1. /\ fetch' = "Read" /\ copy' = transcript /\ fetch = "Wanted"
      /\ UNCHANGED <<transcript, outbox, inbox, pending, live, seen, shown, loaded, found, sending,
                     saved, failed>>
  BY DEF FetchReads, fileVars, routeVars, overlayVars, ghostVars
<1>2. transcript \in Seq(Messages) /\ OnceEach(transcript) /\ Covers(transcript, transcript)
  BY CoversSelf DEF TranscriptInv
<1>3. WayInv'
  BY <1>1, WayRests DEF SightInv, WayInv, OneInHand
<1>4. HeldInv'
  BY <1>1, <1>2 DEF SightInv, HeldInv
<1>5. WindowInv'
  <2>1. Covers(transcript, shown)
    BY DEF SightInv, HeldInv
  <2> QED
    BY <1>1, <1>2, <2>1 DEF SightInv, WindowInv, WindowTypes, LiveIsSeen, QueryGoesForward
<1>6. CoverInv'
  <2>1. \A i \in DOMAIN transcript : Has(transcript, transcript[i])
    BY <1>2 DEF Covers
  <2>2. Answer' = transcript
    BY <1>1 DEF Answer
  <2> QED
    BY <1>1, <2>1, <2>2 DEF CoverInv, Reaches
<1> QED BY <1>3, <1>4, <1>5, <1>6 DEF SightInv

LEMMA AnsweringKeepsSight ==
  ASSUME SightInv, FetchReturns
  PROVE  SightInv'
<1>1. /\ fetch = "Read" /\ fetch' = "Idle" /\ loaded' /\ found' /\ shown' = copy /\ copy' = <<>>
      /\ UNCHANGED <<transcript, outbox, inbox, pending, live, seen, sending, saved, failed>>
  BY DEF FetchReturns, fileVars, routeVars, overlayVars, ghostVars
<1>3. WayInv'
  BY <1>1, WayRests DEF SightInv, WayInv, OneInHand
<1>4. HeldInv'
  BY <1>1 DEF SightInv, HeldInv, Covers
<1>5. WindowInv'
  BY <1>1 DEF SightInv, WindowInv, WindowTypes, LiveIsSeen, QueryGoesForward, OnceEach
<1>6. CoverInv'
  <2>1. Answer' = Answer
    BY <1>1 DEF Answer
  <2>2. \A m : Reaches(m) => Reaches(m)'
    BY <1>1, <2>1 DEF Reaches, Arriving
  <2> QED
    BY <1>1, <2>2 DEF SightInv, CoverInv
<1> QED BY <1>3, <1>4, <1>5, <1>6 DEF SightInv

LEMMA NotAnsweringKeepsSight ==
  ASSUME SightInv, FetchFails
  PROVE  SightInv'
<1>1. /\ fetch' = "Idle" /\ loaded' /\ ~found'
      /\ UNCHANGED <<transcript, outbox, inbox, pending, live, seen, shown, copy, sending,
                     saved, failed>>
  BY DEF FetchFails, fileVars, routeVars, overlayVars, ghostVars
<1>3. WayInv'
  BY <1>1, WayRests DEF SightInv, WayInv, OneInHand
<1>4. HeldInv'
  BY <1>1, HeldRests DEF SightInv
<1>5. WindowInv'
  BY <1>1 DEF SightInv, WindowInv, WindowTypes, LiveIsSeen, QueryGoesForward, OnceEach
<1>6. CoverInv'
  BY <1>1 DEF CoverInv
<1> QED BY <1>3, <1>4, <1>5, <1>6 DEF SightInv

(* What Prune asks: the answer has everything the overlay has.             *)
LEMMA RedundantIsCovered ==
  ASSUME WindowInv, \A i \in DOMAIN live : Redundant(live[i])
  PROVE  Covers(shown, live)
<1> SUFFICES ASSUME NEW i \in DOMAIN live PROVE Has(shown, live[i])
  BY DEF Covers
<1>1. Id(live[i]) \in Ids(shown) /\ SequenceOf(ById(shown, Id(live[i]))) >= SequenceOf(live[i])
  BY DEF Redundant
<1>2. PICK k \in DOMAIN shown : Id(shown[k]) = Id(live[i])
  BY <1>1 DEF Ids
<1>3. \E m \in ToSet(shown) : Id(m) = Id(live[i])
  BY <1>2 DEF ToSet
<1>4. ById(shown, Id(live[i])) \in ToSet(shown) /\ Id(ById(shown, Id(live[i]))) = Id(live[i])
  BY <1>3 DEF ById
<1> QED
  BY <1>1, <1>4 DEF Has, ToSet

LEMMA PruningKeepsSight ==
  ASSUME TranscriptInv, SightInv, Prune
  PROVE  SightInv'
<1>1. /\ found /\ loaded /\ live' = <<>> /\ seen' = [e \in Executions |-> 0]
      /\ UNCHANGED <<transcript, outbox, inbox, pending, shown, copy, fetch, loaded, found, sending,
                     saved, failed>>
  BY DEF Prune, fileVars, routeVars, queryVars, ghostVars, SightInv, WindowInv, QueryGoesForward
<1>2. Covers(shown, live)
  BY RedundantIsCovered DEF Prune, SightInv
<1>3. WayInv'
  <2>1. \A e \in Executions : seen[e] \in Nat /\ seen'[e] = 0 /\ seen' \in [Executions -> Nat]
    BY <1>1 DEF SightInv, WayInv, WayTypes
  <2>2. \A k \in DOMAIN inbox : inbox[k].by \in Executions /\ inbox[k].n \in Nat
    BY ElementsOf, EventFacts DEF SightInv, WayInv, WayTypes
  <2>3. \A e \in Executions : outbox[e] # <<>> => outbox[e][1].n \in Nat
    BY EventFacts DEF SightInv, WayInv, WayTypes
  <2>4. WayTypes' /\ OneInHand'
    BY <1>1 DEF SightInv, WayInv, WayTypes, OneInHand
  <2>5. \A e : Told(e)' = Told(e)
    BY <1>1 DEF Told
  <2>6. SeenIsTold' /\ InboxIsOrdered'
    BY <1>1, <2>1, <2>5 DEF SightInv, WayInv, SeenIsTold, InboxIsOrdered
  <2>7. InboxIsNew'
    BY <1>1, <2>1, <2>2, <2>5 DEF SightInv, WayInv, InboxIsNew
  <2>8. OutboxIsNewest'
    BY <1>1, <2>1, <2>3, <2>5 DEF SightInv, WayInv, OutboxIsNewest
  <2> QED BY <2>4, <2>6, <2>7, <2>8 DEF WayInv
<1>4. HeldInv'
  BY <1>1 DEF SightInv, HeldInv, Covers, Kept
<1>5. WindowInv'
  BY <1>1 DEF SightInv, WindowInv, WindowTypes, LiveIsSeen, QueryGoesForward, OnceEach
<1>6. CoverInv'
  <2> SUFFICES ASSUME fetch = "Read" \/ (fetch = "Idle" /\ found) PROVE CoverInv'
    BY <1>1 DEF CoverInv
  <2>1. Answer' = Answer /\ Answer \in Seq(Messages) /\ Covers(Answer, live) /\ live \in Seq(Messages)
    <3>1. shown \in Seq(Messages) /\ copy \in Seq(Messages) /\ live \in Seq(Messages)
      BY DEF SightInv, WindowInv, WindowTypes
    <3>2. fetch = "Read" => Covers(copy, live)
      BY <1>2, <3>1, CoversStays DEF SightInv, WindowInv, QueryGoesForward
    <3> QED BY <1>1, <1>2, <3>1, <3>2 DEF Answer
  <2>2. \A m \in Messages : Has(live, m) => Has(Answer, m)
    BY <2>1, HasStays
  <2>3. \A m \in Messages : Reaches(m) => Reaches(m)'
    BY <1>1, <2>1, <2>2 DEF Reaches, Arriving
  <2>4. \A i \in DOMAIN transcript : transcript[i] \in Messages
    BY ElementsOf DEF TranscriptInv
  <2> QED
    BY <1>1, <2>3, <2>4 DEF SightInv, CoverInv
<1> QED BY <1>3, <1>4, <1>5, <1>6 DEF SightInv

(* What the overlay makes of the event it is handed: nothing, when it      *)
(* carries no message or one the overlay has, or else all of it.           *)
LEMMA OverlayTakes ==
  ASSUME WindowInv, NEW event \in Events, seen[event.by] < event.n, seen \in [Executions -> Nat],
         ApplyEvent(event)
  PROVE  \/ /\ live' = live /\ seen' = seen
            /\ event.message # <<>> => Has(live, event.message[1])
         \/ /\ event.message # <<>>
            /\ AddsTo(live', live, event.message[1]) /\ OnceEach(live')
            /\ seen' = [seen EXCEPT ![event.by] = event.n]
<1> DEFINE m == event.message[1]
<1>1. /\ event.by \in Executions /\ event.n \in Nat
      /\ event.payload \in {"MessageAppended", "MessageUpdated", "StateChanged", "NotSaved"}
      /\ event.payload \in {"MessageAppended", "MessageUpdated"} <=> event.message # <<>>
      /\ event.message # <<>> => Brings(event, m) /\ m \in Messages
  BY EventFacts DEF Carrying
<1>2. event.message # <<>> =>
        /\ m.by = event.by /\ SequenceOf(m) = event.n
        /\ event.payload = "MessageAppended" => Id(m) = <<event.by, event.n>>
  BY <1>1 DEF Brings
<1>3. ~(event.n <= seen[event.by])
  BY <1>1
<1>4. live \in Seq(Messages) /\ OnceEach(live) /\ LiveIsSeen
  BY DEF WindowInv, WindowTypes
<1>5. \A i \in DOMAIN live : live[i] \in Messages /\ live[i].by \in Executions
  BY <1>4, ElementsOf DEF LiveIsSeen
<1> HIDE DEF m
<1>6. CASE event.payload \in {"StateChanged", "NotSaved"}
  BY <1>1, <1>6 DEF ApplyEvent, overlayVars
<1>7. CASE event.payload = "MessageAppended"
  <2>1. AppliesAppend(event)
    BY <1>7 DEF ApplyEvent
  <2>2. CASE Id(m) \in Ids(live)
    <3>1. live' = live /\ seen' = seen
      BY <2>1, <2>2 DEF AppliesAppend, overlayVars, m
    <3>2. PICK i \in DOMAIN live : Id(live[i]) = Id(m)
      BY <2>2 DEF Ids
    <3>3. Id(live[i]) = <<live[i].by, live[i].parts[1]>> /\ live[i].parts[1] <= SequenceOf(live[i])
      BY <1>5, MessageFacts, NamesAreNoExecutions
    <3>4. live[i].parts[1] = event.n /\ SequenceOf(m) = event.n
      BY <1>1, <1>2, <1>7, <3>2, <3>3
    <3>5. SequenceOf(live[i]) >= SequenceOf(m)
      BY <1>1, <1>5, <3>3, <3>4, DatesAreNumbers
    <3> QED BY <3>1, <3>2, <3>5 DEF Has, m
  <2>3. CASE Id(m) \notin Ids(live)
    <3>1. live' = Append(live, m) /\ seen' = [seen EXCEPT ![event.by] = event.n]
      BY <1>3, <2>1, <2>3 DEF AppliesAppend, Sees, m
    <3>2. m \in Messages /\ event.message # <<>>
      BY <1>1, <1>7
    <3> QED BY <1>4, <2>3, <3>1, <3>2, AppendedAdds DEF m
  <2> QED BY <2>2, <2>3
<1>8. CASE event.payload = "MessageUpdated"
  <2>1. AppliesUpdate(event)
    BY <1>8 DEF ApplyEvent
  <2>2. live' = Replaced(m) /\ seen' = [seen EXCEPT ![event.by] = event.n]
    BY <1>3, <2>1 DEF AppliesUpdate, Sees, m
  <2>3. m \in Messages /\ event.message # <<>>
    BY <1>1, <1>8
  <2>4. CASE Id(m) \in Ids(live)
    <3>1. live' = [i \in DOMAIN live |-> IF Id(live[i]) = Id(m) THEN m ELSE live[i]]
      BY <2>2, <2>4 DEF Replaced
    <3>2. live' \in Seq(Messages) /\ DOMAIN live' = DOMAIN live
      BY <1>4, <2>3, <3>1
    <3>3. \E i \in DOMAIN live : live'[i] = m
      BY <2>4, <3>1 DEF Ids
    <3>4. ASSUME NEW i \in DOMAIN live, Id(live[i]) = Id(m)
          PROVE  SequenceOf(live[i]) <= SequenceOf(m)
      <4>1. /\ Id(live[i]) = <<live[i].by, live[i].parts[1]>>
            /\ Id(m) = <<m.by, m.parts[1]>>
        BY <1>5, <2>3, MessageFacts
      <4>2. <<live[i].by, live[i].parts[1]>> = <<m.by, m.parts[1]>> /\ m.by = event.by
        BY <1>2, <2>3, <3>4, <4>1
      <4>3. live[i].by = event.by
        BY <4>2
      <4>4. SequenceOf(live[i]) <= seen[event.by]
        BY <1>4, <4>3 DEF LiveIsSeen
      <4>5. SequenceOf(live[i]) \in Nat /\ seen[event.by] \in Nat /\ SequenceOf(m) = event.n
        BY <1>1, <1>2, <1>5, <2>3, DatesAreNumbers
      <4> QED BY <1>1, <4>4, <4>5
    <3>5. \A i \in DOMAIN live :
            \/ live'[i] = live[i]
            \/ live'[i] = m /\ Id(live[i]) = Id(m) /\ SequenceOf(live[i]) <= SequenceOf(m)
      BY <3>1, <3>4
    <3>6. AddsTo(live', live, m) /\ OnceEach(live')
      BY <1>4, <2>3, <3>2, <3>3, <3>5, ExchangedAdds
    <3> QED BY <2>2, <2>3, <3>6 DEF m
  <2>5. CASE Id(m) \notin Ids(live)
    <3>1. live' = Append(live, m)
      BY <2>2, <2>5 DEF Replaced
    <3> QED BY <1>4, <2>2, <2>3, <2>5, <3>1, AppendedAdds DEF m
  <2> QED BY <2>4, <2>5
<1> QED BY <1>1, <1>6, <1>7, <1>8

LEMMA TailFacts ==
  ASSUME NEW S, NEW s \in Seq(S), s # <<>>
  PROVE  /\ Head(s) = s[1] /\ 1 \in DOMAIN s
         /\ Tail(s) \in Seq(S)
         /\ \A k \in DOMAIN Tail(s) : k \in Nat /\ k + 1 \in DOMAIN s /\ Tail(s)[k] = s[k + 1] /\ 1 < k + 1
         /\ \A k \in DOMAIN s : k = 1 \/ (k - 1 \in DOMAIN Tail(s) /\ Tail(s)[k - 1] = s[k])
OBVIOUS

LEMMA ReceivingKeepsSight ==
  ASSUME TranscriptInv, SightInv, Receive
  PROVE  SightInv'
<1> DEFINE event == Head(inbox)
<1>1. /\ inbox # <<>> /\ inbox' = Tail(inbox) /\ ApplyEvent(event) /\ Invalidate
      /\ UNCHANGED <<transcript, outbox, pending, loaded, found, shown, sending, saved, failed>>
  BY DEF Receive, fileVars, routeVars, ghostVars
<1>2. inbox \in Seq(Events) /\ seen \in [Executions -> Nat]
  BY DEF SightInv, WayInv, WayTypes
<1>3. /\ event = inbox[1] /\ 1 \in DOMAIN inbox /\ event \in Events
      /\ inbox' \in Seq(Events)
      /\ \A k \in DOMAIN inbox' : k \in Nat /\ k + 1 \in DOMAIN inbox /\ inbox'[k] = inbox[k + 1] /\ 1 < k + 1
      /\ \A k \in DOMAIN inbox : k = 1 \/ \E l \in DOMAIN inbox' : inbox'[l] = inbox[k]
  <2>1. inbox # <<>> /\ inbox' = Tail(inbox)
    BY <1>1
  <2>2. /\ Head(inbox) = inbox[1] /\ 1 \in DOMAIN inbox
        /\ Tail(inbox) \in Seq(Events)
        /\ \A k \in DOMAIN Tail(inbox) : k \in Nat /\ k + 1 \in DOMAIN inbox /\ Tail(inbox)[k] = inbox[k + 1] /\ 1 < k + 1
        /\ \A k \in DOMAIN inbox : k = 1 \/ (k - 1 \in DOMAIN Tail(inbox) /\ Tail(inbox)[k - 1] = inbox[k])
    BY <1>2, <2>1, TailFacts
  <2>3. inbox[1] \in Events
    BY <1>2, <2>2, ElementsOf
  <2>4. \A k \in DOMAIN inbox : k = 1 \/ \E l \in DOMAIN Tail(inbox) : Tail(inbox)[l] = inbox[k]
    BY <2>2
  <2> QED BY <2>1, <2>2, <2>3, <2>4
<1>4. event.by \in Executions /\ event.n \in Nat /\ event.n \in Told(event.by) /\ seen[event.by] < event.n
  BY <1>3, EventFacts DEF SightInv, WayInv, InboxIsNew
<1>5. \/ /\ live' = live /\ seen' = seen
         /\ event.message # <<>> => Has(live, event.message[1])
      \/ /\ event.message # <<>>
         /\ AddsTo(live', live, event.message[1]) /\ OnceEach(live')
         /\ seen' = [seen EXCEPT ![event.by] = event.n]
  BY <1>1, <1>2, <1>3, <1>4, OverlayTakes DEF SightInv
<1>6. /\ Kept(transcript, event)
      /\ event.message # <<>> =>
           /\ event.message[1] \in Messages /\ event.message = <<event.message[1]>>
           /\ event.message[1].by = event.by /\ SequenceOf(event.message[1]) = event.n
  BY <1>3, EventFacts DEF SightInv, HeldInv, Brings
<1> HIDE DEF event
<1>7. live \in Seq(Messages) /\ OnceEach(live) /\ LiveIsSeen
  BY DEF SightInv, WindowInv, WindowTypes
<1>8. /\ live' \in Seq(Messages) /\ OnceEach(live') /\ Covers(live', live)
      /\ event.message # <<>> => Has(live', event.message[1])
      /\ \A i \in DOMAIN live' : \/ event.message # <<>> /\ live'[i] = event.message[1] /\ seen'[event.by] = event.n
                                 \/ \E k \in DOMAIN live : live'[i] = live[k]
  BY <1>2, <1>4, <1>5, <1>7, CoversSelf DEF AddsTo
<1>9. /\ seen' \in [Executions -> Nat]
      /\ \A e \in Executions : /\ seen[e] <= seen'[e] /\ seen[e] \in Nat /\ seen'[e] \in Nat
                               /\ seen'[e] = seen[e] \/ (e = event.by /\ seen'[e] = event.n)
  BY <1>2, <1>4, <1>5
<1>10. \/ fetch' = "Wanted" /\ copy' = <<>>
       \/ ~loaded /\ fetch \in {"Wanted", "Read"} /\ fetch' = fetch /\ copy' = copy
  BY <1>1, InvalidateFacts
<1>11. WayInv'
  <2>1. WayTypes' /\ OneInHand'
    BY <1>1, <1>3, <1>9 DEF SightInv, WayInv, WayTypes, OneInHand
  <2>2. \A e : Told(e)' = Told(e)
    BY <1>1 DEF Told
  <2>3. SeenIsTold'
    BY <1>4, <1>9, <2>2 DEF SightInv, WayInv, SeenIsTold
  <2>4. \A k \in DOMAIN inbox' : inbox'[k].by = event.by => event.n < inbox'[k].n
    BY <1>3 DEF SightInv, WayInv, InboxIsOrdered
  <2>5. InboxIsNew'
    <3> SUFFICES ASSUME NEW k \in DOMAIN inbox'
                 PROVE  /\ inbox'[k].n \in saved[inbox'[k].by] \cup failed[inbox'[k].by]
                        /\ seen'[inbox'[k].by] < inbox'[k].n
      BY <1>1 DEF InboxIsNew, Told
    <3>1. inbox'[k] \in Events
      BY <1>3, ElementsOf
    <3>2. inbox'[k].by \in Executions
      BY <3>1, EventFacts
    <3>3. /\ inbox'[k].n \in saved[inbox'[k].by] \cup failed[inbox'[k].by]
          /\ seen[inbox'[k].by] < inbox'[k].n
      BY <1>3 DEF SightInv, WayInv, InboxIsNew, Told
    <3> QED BY <1>9, <2>4, <3>2, <3>3
  <2>6. InboxIsOrdered'
    <3> SUFFICES ASSUME NEW k \in DOMAIN inbox', NEW l \in DOMAIN inbox', k < l,
                        inbox'[k].by = inbox'[l].by
                 PROVE  inbox'[k].n < inbox'[l].n
      BY DEF InboxIsOrdered
    <3>1. k + 1 < l + 1
      BY <1>3
    <3> QED BY <1>3, <3>1 DEF SightInv, WayInv, InboxIsOrdered
  <2>7. OutboxIsNewest'
    <3> SUFFICES ASSUME NEW e \in Executions, outbox[e] # <<>>
                 PROVE  /\ outbox[e][1].n \in Told(e)' /\ seen'[e] < outbox[e][1].n
                        /\ \A k \in DOMAIN inbox' : inbox'[k].by = e => inbox'[k].n < outbox[e][1].n
      BY <1>1 DEF OutboxIsNewest
    <3>1. /\ outbox[e][1].n \in Told(e) /\ seen[e] < outbox[e][1].n
          /\ \A k \in DOMAIN inbox : inbox[k].by = e => inbox[k].n < outbox[e][1].n
      BY DEF SightInv, WayInv, OutboxIsNewest
    <3>2. seen'[e] < outbox[e][1].n
      BY <1>3, <1>9, <3>1
    <3> QED BY <1>3, <2>2, <3>1, <3>2
  <2> QED BY <2>1, <2>3, <2>5, <2>6, <2>7 DEF WayInv
<1>12. HeldInv'
  <2>1. Covers(transcript, live')
    BY <1>6, <1>8 DEF SightInv, HeldInv, Covers, Kept
  <2>2. \A k \in DOMAIN inbox' : Kept(transcript, inbox'[k])
    BY <1>3 DEF SightInv, HeldInv
  <2>3. Covers(transcript, copy')
    BY <1>10 DEF SightInv, HeldInv, Covers
  <2> QED BY <1>1, <2>1, <2>2, <2>3 DEF SightInv, HeldInv
<1>13. WindowInv'
  <2>1. WindowTypes' /\ OnceEach(copy') /\ OnceEach(shown')
    <3>1. copy' = <<>> \/ copy' = copy
      BY <1>10
    <3>2. shown \in Seq(Messages) /\ copy \in Seq(Messages) /\ OnceEach(copy) /\ OnceEach(shown) /\ shown' = shown
      BY <1>1 DEF SightInv, WindowInv, WindowTypes
    <3>3. copy' \in Seq(Messages) /\ OnceEach(copy')
      <4>1. <<>> \in Seq(Messages) /\ OnceEach(<<>>)
        BY DEF OnceEach
      <4> QED BY <3>1, <3>2, <4>1
    <3> QED BY <1>8, <3>2, <3>3 DEF WindowTypes
  <2>2. LiveIsSeen'
    <3> SUFFICES ASSUME NEW i \in DOMAIN live'
                 PROVE  live'[i].by \in Executions /\ SequenceOf(live'[i]) <= seen'[live'[i].by]
      BY DEF LiveIsSeen
    <3>1. CASE event.message # <<>> /\ live'[i] = event.message[1] /\ seen'[event.by] = event.n
      BY <1>4, <1>6, <3>1
    <3>2. CASE \E k \in DOMAIN live : live'[i] = live[k]
      <4>1. PICK k \in DOMAIN live : live'[i] = live[k]
        BY <3>2
      <4>2. live[k].by \in Executions /\ SequenceOf(live[k]) <= seen[live[k].by]
        BY <1>7 DEF LiveIsSeen
      <4>3. SequenceOf(live[k]) \in Nat
        BY <1>7, ElementsOf, DatesAreNumbers
      <4> QED BY <1>9, <4>1, <4>2, <4>3
    <3> QED BY <1>8, <3>1, <3>2
  <2>3. QueryGoesForward'
    BY <1>1, <1>10 DEF SightInv, WindowInv, QueryGoesForward
  <2> QED BY <1>8, <2>1, <2>2, <2>3 DEF WindowInv
<1>14. CoverInv'
  <2> SUFFICES ASSUME fetch' = fetch, fetch = "Read", copy' = copy PROVE CoverInv'
    BY <1>10 DEF CoverInv
  <2>1. Answer' = Answer
    BY DEF Answer
  <2>2. \A m \in Messages : Has(live, m) => Has(live', m)
    BY <1>7, <1>8, HasStays
  <2>3. ASSUME NEW m \in Messages, Arriving(m) PROVE Has(live', m) \/ Arriving(m)'
    <3>1. CASE \E k \in DOMAIN inbox : inbox[k].message = <<m>>
      <4>1. PICK k \in DOMAIN inbox : inbox[k].message = <<m>>
        BY <3>1
      <4>2. CASE k = 1
        <5>1. event.message = <<m>>
          BY <1>3, <4>1, <4>2
        <5> QED BY <1>8, <5>1
      <4>3. CASE k # 1
        BY <1>3, <4>1, <4>3 DEF Arriving
      <4> QED BY <4>2, <4>3
    <3>2. CASE ~\E k \in DOMAIN inbox : inbox[k].message = <<m>>
      BY <1>1, <2>3, <3>2 DEF Arriving
    <3> QED BY <3>1, <3>2
  <2>4. \A m \in Messages : Reaches(m) => Reaches(m)'
    BY <2>1, <2>2, <2>3 DEF Reaches
  <2>5. \A i \in DOMAIN transcript : transcript[i] \in Messages
    BY ElementsOf DEF TranscriptInv
  <2> QED
    BY <1>1, <2>4, <2>5 DEF SightInv, CoverInv
<1> QED BY <1>11, <1>12, <1>13, <1>14 DEF SightInv

LEMMA SightStep ==
  NumberInv /\ TranscriptInv /\ SightInv /\ [Next]_vars => SightInv'
<1> SUFFICES ASSUME NumberInv, TranscriptInv, SightInv, [Next]_vars PROVE SightInv'
  OBVIOUS
<1>1. \A x \in Executions : pending[x] # <<>> => outbox[x] = <<>>
  BY DEF SightInv, WayInv, OneInHand
<1>2. CASE UNCHANGED vars
  BY <1>1, <1>2, RestingKeepsSight DEF vars, fileVars, routeVars, ghostVars
<1>3. ASSUME NEW e \in Executions, OfExecution(e) PROVE SightInv'
  <2>1. CASE Begin(e) \/ Stop(e) \/ Unlink(e)
    BY <1>1, <2>1, RestingKeepsSight
    DEF Begin, Stop, Unlink, fileVars, ghostVars
  <2>2. CASE \E kind \in Kinds : Say(e, kind)
    <3>1. PICK kind \in Kinds : Say(e, kind)
      BY <2>2
    <3>2. outbox[e] = <<>> /\ \A x \in Executions : x # e => pending'[x] = pending[x]
      BY <3>1 DEF Say, TakesNumber, NumberInv, NumberTypes
    <3> QED BY <1>1, <3>1, <3>2, RestingKeepsSight DEF Say, fileVars, ghostVars
  <2>3. CASE RouteIgnored(e)
    <3>1. outbox[e] = <<>> /\ \A x \in Executions : x # e => pending'[x] = pending[x]
      BY <1>1, <2>3 DEF RouteIgnored, NumberInv, NumberTypes
    <3> QED BY <1>1, <2>3, <3>1, RestingKeepsSight DEF RouteIgnored, fileVars, ghostVars
  <2>4. CASE RoutePersists(e)
    BY <2>4, PersistingDelivers, DeliveringKeepsSight
  <2>5. CASE RouteWriteFails(e)
    BY <2>5, FailingDelivers, DeliveringKeepsSight
  <2>6. CASE Emit(e)
    BY <2>6, EmittingKeepsSight
  <2> QED BY <1>3, <2>1, <2>2, <2>3, <2>4, <2>5, <2>6 DEF OfExecution
<1>4. CASE AppendsMessage
  BY <1>4, SendingKeepsSight
<1>5. CASE OfWindow
  BY <1>5, ReceivingKeepsSight, PruningKeepsSight, ReadingKeepsSight, AnsweringKeepsSight,
     NotAnsweringKeepsSight, HearingKeepsSight
  DEF OfWindow
<1> QED BY <1>2, <1>3, <1>4, <1>5 DEF Next

(***************************************************************************)
(* What the chat shows                                                     *)
(***************************************************************************)

(* Every message of the view is one of the overlay or of the answer, each  *)
(* of those is in the view as new or newer, and none twice.                *)
ViewShowsBoth ==
  /\ \A p \in DOMAIN View : \/ \E i \in DOMAIN live : View[p] = live[i]
                            \/ loaded /\ \E i \in DOMAIN shown : View[p] = shown[i]
  /\ \A i \in DOMAIN live : Has(View, live[i])
  /\ loaded => \A i \in DOMAIN shown : Has(View, shown[i])
  /\ OnceEach(View)

LEMMA ByIdFinds ==
  ASSUME NEW messages, OnceEach(messages), NEW k \in DOMAIN messages
  PROVE  ById(messages, Id(messages[k])) = messages[k]
<1>1. messages[k] \in ToSet(messages)
  BY DEF ToSet
<1>2. \A m \in ToSet(messages) : Id(m) = Id(messages[k]) => m = messages[k]
  BY DEF ToSet, OnceEach
<1> QED
  BY <1>1, <1>2 DEF ById

LEMMA NewestFacts ==
  ASSUME WindowInv, NEW m \in Messages
  PROVE  /\ Newest(m) = m \/ \E k \in DOMAIN live : Newest(m) = live[k]
         /\ Id(Newest(m)) = Id(m)
         /\ SequenceOf(Newest(m)) >= SequenceOf(m)
         /\ \A k \in DOMAIN live : Id(live[k]) = Id(m) => SequenceOf(Newest(m)) >= SequenceOf(live[k])
<1>1. live \in Seq(Messages) /\ OnceEach(live)
  BY DEF WindowInv, WindowTypes
<1>2. SequenceOf(m) \in Nat /\ \A k \in DOMAIN live : SequenceOf(live[k]) \in Nat
  BY <1>1, ElementsOf, DatesAreNumbers
<1>3. CASE Id(m) \notin Ids(live)
  <2>1. Newest(m) = m
    BY <1>3 DEF Newest
  <2>2. \A k \in DOMAIN live : Id(live[k]) # Id(m)
    BY <1>3 DEF Ids
  <2> QED BY <1>2, <2>1, <2>2
<1>4. CASE Id(m) \in Ids(live)
  <2>1. PICK k \in DOMAIN live : Id(live[k]) = Id(m)
    BY <1>4 DEF Ids
  <2>2. ById(live, Id(m)) = live[k]
    BY <1>1, <2>1, ByIdFinds
  <2>3. \A l \in DOMAIN live : Id(live[l]) = Id(m) => l = k
    BY <1>1, <2>1 DEF OnceEach
  <2>4. Newest(m) = IF SequenceOf(live[k]) > SequenceOf(m) THEN live[k] ELSE m
    BY <1>4, <2>2 DEF Newest
  <2> QED BY <1>2, <2>1, <2>3, <2>4
<1> QED BY <1>3, <1>4

LEMMA ViewIsOfBoth == WindowInv => ViewShowsBoth
<1> SUFFICES ASSUME WindowInv PROVE ViewShowsBoth
  OBVIOUS
<1>1. /\ live \in Seq(Messages) /\ OnceEach(live) /\ \A i \in DOMAIN live : live[i] \in Messages
      /\ shown \in Seq(Messages) /\ OnceEach(shown) /\ \A i \in DOMAIN shown : shown[i] \in Messages
  BY ElementsOf DEF WindowInv, WindowTypes
<1>2. CASE ~loaded
  <2>1. View = live
    BY <1>2 DEF View
  <2>2. Covers(live, live)
    BY <1>1, CoversSelf
  <2> QED
    BY <1>1, <1>2, <2>1, <2>2 DEF ViewShowsBoth, Covers
<1>3. CASE loaded
  <2>1. ASSUME NEW p
        PROVE  p \in DOMAIN View <=>
                 \/ \E i \in DOMAIN shown : p = <<"shown", i>>
                 \/ \E i \in DOMAIN live : Id(live[i]) \notin Ids(shown) /\ p = <<"live", i>>
    BY <1>3 DEF View
  <2> DEFINE At(i) == View[<<"shown", i>>]
             Beside(i) == View[<<"live", i>>]
  <2>2. \A i \in DOMAIN shown : At(i) = Newest(shown[i])
    BY <1>3 DEF View
  <2>3. \A i \in DOMAIN live : Id(live[i]) \notin Ids(shown) => Beside(i) = live[i]
    BY <1>3 DEF View
  <2>4. /\ \A i \in DOMAIN shown : <<"shown", i>> \in DOMAIN View /\ View[<<"shown", i>>] = At(i)
        /\ \A i \in DOMAIN live :
             Id(live[i]) \notin Ids(shown) => <<"live", i>> \in DOMAIN View /\ View[<<"live", i>>] = Beside(i)
    BY <2>1
  <2>5. ASSUME NEW p \in DOMAIN View
        PROVE  \/ \E i \in DOMAIN shown : p = <<"shown", i>> /\ View[p] = At(i)
               \/ \E i \in DOMAIN live : Id(live[i]) \notin Ids(shown) /\ p = <<"live", i>> /\ View[p] = Beside(i)
    BY <2>1
  <2> HIDE DEF At, Beside
  <2>6. ASSUME NEW i \in DOMAIN shown
        PROVE  /\ At(i) = shown[i] \/ \E k \in DOMAIN live : At(i) = live[k]
               /\ Id(At(i)) = Id(shown[i])
               /\ SequenceOf(At(i)) >= SequenceOf(shown[i])
               /\ \A k \in DOMAIN live :
                    Id(live[k]) = Id(shown[i]) => SequenceOf(At(i)) >= SequenceOf(live[k])
    BY <1>1, <2>2, NewestFacts
  <2>7. ASSUME NEW p \in DOMAIN View
        PROVE  \/ \E i \in DOMAIN live : View[p] = live[i]
               \/ \E i \in DOMAIN shown : View[p] = shown[i]
    BY <2>3, <2>5, <2>6
  <2>8. ASSUME NEW i \in DOMAIN shown PROVE Has(View, shown[i])
    BY <2>4, <2>6 DEF Has
  <2>9. ASSUME NEW i \in DOMAIN live PROVE Has(View, live[i])
    <3>1. CASE Id(live[i]) \in Ids(shown)
      <4>1. PICK k \in DOMAIN shown : Id(shown[k]) = Id(live[i])
        BY <3>1 DEF Ids
      <4>2. Id(At(k)) = Id(live[i]) /\ SequenceOf(At(k)) >= SequenceOf(live[i])
        BY <2>6, <4>1
      <4> QED BY <2>4, <4>1, <4>2 DEF Has
    <3>2. CASE Id(live[i]) \notin Ids(shown)
      <4>1. SequenceOf(live[i]) >= SequenceOf(live[i])
        BY <1>1, DatesAreNumbers
      <4> QED BY <2>3, <2>4, <3>2, <4>1 DEF Has
    <3> QED BY <3>1, <3>2
  <2>10. OnceEach(View)
    <3> SUFFICES ASSUME NEW p \in DOMAIN View, NEW q \in DOMAIN View, Id(View[p]) = Id(View[q])
                 PROVE  p = q
      BY DEF OnceEach
    <3>1. \A i \in DOMAIN shown : Id(shown[i]) \in Ids(shown)
      BY DEF Ids
    <3>2. ASSUME NEW i \in DOMAIN shown, p = <<"shown", i>>, View[p] = At(i) PROVE p = q
      <4>1. Id(View[q]) = Id(shown[i])
        BY <2>6, <3>2
      <4>2. CASE \E k \in DOMAIN shown : q = <<"shown", k>> /\ View[q] = At(k)
        <5>1. PICK k \in DOMAIN shown : q = <<"shown", k>> /\ View[q] = At(k)
          BY <4>2
        <5>2. Id(shown[k]) = Id(shown[i])
          BY <2>6, <4>1, <5>1
        <5> QED BY <1>1, <3>2, <5>1, <5>2 DEF OnceEach
      <4>3. CASE \E k \in DOMAIN live : Id(live[k]) \notin Ids(shown) /\ View[q] = Beside(k)
        BY <2>3, <3>1, <4>1, <4>3
      <4> QED BY <2>5, <4>2, <4>3
    <3>3. ASSUME NEW i \in DOMAIN live, Id(live[i]) \notin Ids(shown), p = <<"live", i>>, View[p] = Beside(i)
          PROVE  p = q
      <4>1. Id(View[q]) = Id(live[i])
        BY <2>3, <3>3
      <4>2. CASE \E k \in DOMAIN shown : View[q] = At(k)
        BY <2>6, <3>1, <3>3, <4>1, <4>2
      <4>3. CASE \E k \in DOMAIN live : Id(live[k]) \notin Ids(shown) /\ q = <<"live", k>> /\ View[q] = Beside(k)
        <5>1. PICK k \in DOMAIN live : Id(live[k]) \notin Ids(shown) /\ q = <<"live", k>> /\ View[q] = Beside(k)
          BY <4>3
        <5>2. Id(live[k]) = Id(live[i])
          BY <2>3, <4>1, <5>1
        <5> QED BY <1>1, <3>3, <5>1, <5>2 DEF OnceEach
      <4> QED BY <2>5, <4>2, <4>3
    <3> QED BY <2>5, <3>2, <3>3
  <2> QED
    BY <1>3, <2>7, <2>8, <2>9, <2>10 DEF ViewShowsBoth
<1> QED BY <1>2, <1>3

(* With nothing under way, what the file has and what the view has are     *)
(* each covered by the other, and neither has a message twice.             *)
LEMMA QuietShowsTheFile ==
  TranscriptInv /\ SightInv => WindowCatchesUp
<1> SUFFICES ASSUME TranscriptInv, SightInv, Quiescent, found
             PROVE  Dated(View) = Dated(transcript) /\ OnceEach(View)
  BY DEF WindowCatchesUp
<1>1. /\ transcript \in Seq(Messages) /\ OnceEach(transcript)
      /\ \A i \in DOMAIN transcript : transcript[i] \in Messages
  BY ElementsOf DEF TranscriptInv
<1>2. loaded
  BY DEF Quiescent, SightInv, WindowInv, QueryGoesForward
<1>3. ViewShowsBoth
  BY ViewIsOfBoth DEF SightInv
<1>4. /\ live \in Seq(Messages) /\ shown \in Seq(Messages)
      /\ \A i \in DOMAIN live : live[i] \in Messages
      /\ \A i \in DOMAIN shown : shown[i] \in Messages
  BY ElementsOf DEF SightInv, WindowInv, WindowTypes
<1>5. \A p \in DOMAIN View : View[p] \in Messages /\ Has(transcript, View[p])
  BY <1>3, <1>4 DEF ViewShowsBoth, SightInv, HeldInv, Covers
<1>6. ASSUME NEW i \in DOMAIN transcript PROVE Has(View, transcript[i])
  <2>1. ~Arriving(transcript[i])
    BY DEF Quiescent, Arriving
  <2>2. Has(shown, transcript[i]) \/ Has(live, transcript[i])
    BY <2>1 DEF Quiescent, SightInv, CoverInv, Reaches, Answer
  <2>3. ASSUME NEW m \in Messages, Id(m) = Id(transcript[i]), SequenceOf(m) >= SequenceOf(transcript[i]),
               Has(View, m)
        PROVE  Has(View, transcript[i])
    <3>1. PICK p \in DOMAIN View : Id(View[p]) = Id(m) /\ SequenceOf(View[p]) >= SequenceOf(m)
      BY <2>3 DEF Has
    <3>2. SequenceOf(View[p]) \in Nat /\ SequenceOf(m) \in Nat /\ SequenceOf(transcript[i]) \in Nat
      BY <1>1, <1>5, DatesAreNumbers
    <3>3. SequenceOf(View[p]) >= SequenceOf(transcript[i])
      BY <2>3, <3>1, <3>2
    <3> QED BY <2>3, <3>1, <3>3 DEF Has
  <2>4. CASE Has(shown, transcript[i])
    <3>1. PICK k \in DOMAIN shown : Id(shown[k]) = Id(transcript[i]) /\ SequenceOf(shown[k]) >= SequenceOf(transcript[i])
      BY <2>4 DEF Has
    <3>2. Has(View, shown[k])
      BY <1>2, <1>3 DEF ViewShowsBoth
    <3> QED BY <1>4, <2>3, <3>1, <3>2
  <2>5. CASE Has(live, transcript[i])
    <3>1. PICK k \in DOMAIN live : Id(live[k]) = Id(transcript[i]) /\ SequenceOf(live[k]) >= SequenceOf(transcript[i])
      BY <2>5 DEF Has
    <3>2. Has(View, live[k])
      BY <1>3 DEF ViewShowsBoth
    <3> QED BY <1>4, <2>3, <3>1, <3>2
  <2> QED BY <2>2, <2>4, <2>5
<1>7. ASSUME NEW p \in DOMAIN View, NEW i \in DOMAIN transcript, Id(View[p]) = Id(transcript[i])
      PROVE  SequenceOf(View[p]) = SequenceOf(transcript[i])
  <2>1. SequenceOf(transcript[i]) >= SequenceOf(View[p])
    <3>1. PICK k \in DOMAIN transcript : Id(transcript[k]) = Id(View[p]) /\ SequenceOf(transcript[k]) >= SequenceOf(View[p])
      BY <1>5 DEF Has
    <3>2. k = i
      BY <1>1, <1>7, <3>1 DEF OnceEach
    <3> QED BY <3>1, <3>2
  <2>2. SequenceOf(View[p]) >= SequenceOf(transcript[i])
    <3>1. PICK q \in DOMAIN View : Id(View[q]) = Id(transcript[i]) /\ SequenceOf(View[q]) >= SequenceOf(transcript[i])
      BY <1>6 DEF Has
    <3>2. q = p
      BY <1>3, <1>7, <3>1 DEF ViewShowsBoth, OnceEach
    <3> QED BY <3>1, <3>2
  <2>3. SequenceOf(View[p]) \in Nat /\ SequenceOf(transcript[i]) \in Nat
    BY <1>1, <1>5, DatesAreNumbers
  <2> QED BY <2>1, <2>2, <2>3
<1>8. ASSUME NEW p \in DOMAIN View
      PROVE  \E i \in DOMAIN transcript : Id(transcript[i]) = Id(View[p]) /\ SequenceOf(transcript[i]) = SequenceOf(View[p])
  BY <1>5, <1>7 DEF Has
<1>9. ASSUME NEW i \in DOMAIN transcript
      PROVE  \E p \in DOMAIN View : Id(transcript[i]) = Id(View[p]) /\ SequenceOf(transcript[i]) = SequenceOf(View[p])
  BY <1>6, <1>7 DEF Has
<1>10. Dated(View) = Dated(transcript)
  <2>1. \A d : d \in Dated(View) <=> \E p \in DOMAIN View : d = <<Id(View[p]), SequenceOf(View[p])>>
    BY DEF Dated
  <2>2. \A d : d \in Dated(transcript) <=> \E i \in DOMAIN transcript : d = <<Id(transcript[i]), SequenceOf(transcript[i])>>
    BY DEF Dated
  <2> QED BY <1>8, <1>9, <2>1, <2>2
<1> QED
  BY <1>3, <1>10 DEF ViewShowsBoth

(* What the three steps that change what is shown do to it.                *)
LEMMA NothingIsLost ==
  ASSUME TranscriptInv, SightInv, SightInv', [Next]_vars, ~UNCHANGED <<loaded, shown, live>>
  PROVE  /\ \A i \in DOMAIN live : Has(live', live[i]) \/ (loaded' /\ Has(shown', live[i]))
         /\ loaded => loaded' /\ Covers(shown', shown)
<1>1. /\ live \in Seq(Messages) /\ shown \in Seq(Messages)
      /\ Covers(live, live) /\ Covers(shown, shown)
  BY CoversSelf DEF SightInv, WindowInv, WindowTypes
<1>2. Receive \/ Prune \/ FetchReturns \/ FetchFails
  <2>1. ~UNCHANGED vars
    BY DEF vars, overlayVars, queryVars
  <2>2. ASSUME NEW e \in Executions PROVE ~OfExecution(e)
    BY DEF OfExecution, Begin, Stop, Unlink, Say, RouteIgnored, RoutePersists, RouteWriteFails,
           Emit, overlayVars, queryVars
  <2>3. ~AppendsMessage
    BY DEF AppendsMessage, overlayVars, queryVars
  <2>4. ~FetchReads /\ ~SenderHears
    BY DEF FetchReads, SenderHears, overlayVars
  <2> QED BY <2>1, <2>2, <2>3, <2>4 DEF Next, OfWindow
<1>3. CASE Receive
  <2>1. /\ loaded' = loaded /\ shown' = shown /\ inbox # <<>> /\ ApplyEvent(Head(inbox))
        /\ inbox \in Seq(Events) /\ seen \in [Executions -> Nat]
    BY <1>3 DEF Receive, SightInv, WayInv, WayTypes
  <2>2. Head(inbox) = inbox[1] /\ 1 \in DOMAIN inbox /\ Head(inbox) \in Events
    BY <2>1, TailFacts, ElementsOf
  <2>3. seen[Head(inbox).by] < Head(inbox).n
    BY <2>2 DEF SightInv, WayInv, InboxIsNew
  <2>4. live' = live \/ AddsTo(live', live, Head(inbox).message[1])
    BY <2>1, <2>2, <2>3, OverlayTakes DEF SightInv
  <2>5. Covers(live', live)
    BY <1>1, <2>4 DEF AddsTo
  <2> QED BY <1>1, <2>1, <2>5 DEF Covers
<1>4. CASE Prune
  <2>1. loaded /\ loaded' = loaded /\ shown' = shown /\ Covers(shown, live)
    BY <1>4, RedundantIsCovered DEF Prune, queryVars, SightInv, WindowInv, QueryGoesForward
  <2> QED BY <1>1, <2>1 DEF Covers
<1>5. CASE FetchReturns
  <2>1. loaded' /\ live' = live /\ shown' = copy /\ Covers(copy, shown)
    BY <1>5 DEF FetchReturns, overlayVars, SightInv, WindowInv, QueryGoesForward
  <2> QED BY <1>1, <2>1 DEF Covers
<1>6. CASE FetchFails
  BY <1>1, <1>6 DEF FetchFails, overlayVars, Covers
<1> QED BY <1>2, <1>3, <1>4, <1>5, <1>6

(* Only a read that failed takes the chat off the screen.                  *)
LEMMA LeavesOnFailure ==
  SightInv /\ [Next]_vars => (OnScreen /\ ~OnScreen' => ReadsMayFail)
<1> SUFFICES ASSUME SightInv, [Next]_vars, OnScreen, ~OnScreen', ~ReadsMayFail PROVE FALSE
  OBVIOUS
<1>1. ~UNCHANGED <<loaded, found>>
  BY DEF OnScreen
<1>2. ~FetchFails /\ ~FetchReturns
  BY DEF FetchFails, FetchReturns, OnScreen
<1>3. ~UNCHANGED vars /\ ~AppendsMessage
  BY <1>1 DEF vars, AppendsMessage, queryVars
<1>4. ASSUME NEW e \in Executions PROVE ~OfExecution(e)
  BY <1>1 DEF OfExecution, Begin, Stop, Unlink, Say, RouteIgnored, RoutePersists, RouteWriteFails,
         Emit, queryVars
<1>5. ~Receive /\ ~Prune /\ ~FetchReads /\ ~SenderHears
  BY <1>1 DEF Receive, Prune, FetchReads, SenderHears, queryVars
<1> QED BY <1>2, <1>3, <1>4, <1>5 DEF Next, OfWindow

(* Hence each message of the view has its like in the next one.            *)
LEMMA ViewKeepsShowing ==
  ASSUME TranscriptInv, SightInv, SightInv', [Next]_vars, ~UNCHANGED <<loaded, shown, live>>,
         ViewShowsBoth, ViewShowsBoth'
  PROVE  KeepsShowing
<1>1. /\ \A i \in DOMAIN live : Has(live', live[i]) \/ (loaded' /\ Has(shown', live[i]))
      /\ loaded => loaded' /\ Covers(shown', shown)
  BY NothingIsLost
<1>2. /\ \A i \in DOMAIN live : live[i] \in Messages
      /\ \A i \in DOMAIN shown : shown[i] \in Messages
      /\ \A i \in DOMAIN live' : live'[i] \in Messages
      /\ \A i \in DOMAIN shown' : shown'[i] \in Messages
  BY ElementsOf DEF SightInv, WindowInv, WindowTypes
<1>3. /\ \A p \in DOMAIN View : View[p] \in Messages /\ (Has(live', View[p]) \/ (loaded' /\ Has(shown', View[p])))
      /\ \A p \in DOMAIN View' : View'[p] \in Messages
  BY <1>1, <1>2 DEF ViewShowsBoth, Covers
<1>4. ASSUME NEW m \in Messages, NEW x \in Messages, Id(x) = Id(m), SequenceOf(x) >= SequenceOf(m),
             Has(View', x)
      PROVE  Has(View', m)
  <2>1. PICK p \in DOMAIN View' : Id(View'[p]) = Id(x) /\ SequenceOf(View'[p]) >= SequenceOf(x)
    BY <1>4 DEF Has
  <2>2. SequenceOf(View'[p]) \in Nat /\ SequenceOf(x) \in Nat /\ SequenceOf(m) \in Nat
    BY <1>3, DatesAreNumbers
  <2>3. SequenceOf(View'[p]) >= SequenceOf(m)
    BY <1>4, <2>1, <2>2
  <2> QED BY <1>4, <2>1, <2>3 DEF Has
<1>5. ASSUME NEW m \in Messages, Has(live', m) PROVE Has(View', m)
  <2>1. PICK i \in DOMAIN live' : Id(live'[i]) = Id(m) /\ SequenceOf(live'[i]) >= SequenceOf(m)
    BY <1>5 DEF Has
  <2>2. Has(View', live'[i])
    BY DEF ViewShowsBoth
  <2> QED BY <1>2, <1>4, <2>1, <2>2
<1>6. ASSUME NEW m \in Messages, loaded', Has(shown', m) PROVE Has(View', m)
  <2>1. PICK i \in DOMAIN shown' : Id(shown'[i]) = Id(m) /\ SequenceOf(shown'[i]) >= SequenceOf(m)
    BY <1>6 DEF Has
  <2>2. Has(View', shown'[i])
    BY <1>6 DEF ViewShowsBoth
  <2> QED BY <1>2, <1>4, <2>1, <2>2
<1>7. \A p \in DOMAIN View : Has(View', View[p])
  BY <1>3, <1>5, <1>6
<1>8. ASSUME NEW old \in Dated(View)
      PROVE  \E new \in Dated(View') : new[1] = old[1] /\ new[2] >= old[2]
  <2>1. PICK p \in DOMAIN View : old = <<Id(View[p]), SequenceOf(View[p])>>
    BY DEF Dated
  <2>2. PICK q \in DOMAIN View' : Id(View'[q]) = Id(View[p]) /\ SequenceOf(View'[q]) >= SequenceOf(View[p])
    BY <1>7 DEF Has
  <2>3. <<Id(View'[q]), SequenceOf(View'[q])>> \in Dated(View')
    BY DEF Dated
  <2> QED BY <2>1, <2>2, <2>3
<1> QED BY <1>8 DEF KeepsShowing

LEMMA TranscriptAndSight ==
  Spec => [](TranscriptInv /\ SightInv)
<1>1. Init => NumberInv /\ TranscriptInv /\ SightInv
  BY NumbersAtFirst, TranscriptAtFirst, SightAtFirst
<1>2. NumberInv /\ TranscriptInv /\ SightInv /\ [Next]_vars => (NumberInv /\ TranscriptInv /\ SightInv)'
  BY NumbersStep, TranscriptStep, SightStep
<1> QED BY <1>1, <1>2, PTL DEF Spec

(* With nothing under way the window shows the file: every message once,   *)
(* each at its latest, and no other, however the runs wrote, whatever was  *)
(* lost, and whichever answer of the query came when (agentSessionStore.ts *)
(* applyEvent, useAgentSessions.ts mergeSessionMessages).                  *)
THEOREM WindowComesToTheFile == Spec => []WindowCatchesUp
BY TranscriptAndSight, QuietShowsTheFile, PTL

(* A message once shown stays, and never goes back to an older text: a     *)
(* late answer of the query is no older than the one it replaces, and the  *)
(* overlay goes only when the answer has all of it (liveOverlayIsRedundant, *)
(* clearSession).  A read that failed takes the chat off the screen as a   *)
(* whole, and the next one that succeeds brings all of it back.            *)
THEOREM WhatIsShownStays == Spec => NothingDisappears
<1>1. TranscriptInv /\ SightInv => TranscriptInv /\ SightInv /\ ViewShowsBoth
  BY ViewIsOfBoth DEF SightInv
<1>2. /\ TranscriptInv /\ SightInv /\ ViewShowsBoth
      /\ (TranscriptInv /\ SightInv /\ ViewShowsBoth)'
      /\ [Next]_vars
      => [/\ UNCHANGED <<loaded, shown, live>> \/ KeepsShowing
          /\ OnScreen /\ ~OnScreen' => ReadsMayFail]_vars
  BY ViewKeepsShowing, LeavesOnFailure
<1> QED BY TranscriptAndSight, <1>1, <1>2, PTL DEF Spec, NothingDisappears
=============================================================================
