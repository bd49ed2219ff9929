---------------------------- MODULE StationProofs ----------------------------
(***************************************************************************)
(* Theorems about a station, inside and outside its process, each for every*)
(* value of its constants.  Part 1 is the events' way over the buses, part *)
(* 2 the processes.  They share no state.                                  *)
(***************************************************************************)
EXTENDS EventDelivery, Supervision, FiniteSetTheorems, SequenceTheorems, TLAPS

(***************************************************************************)
(* Part 1.  The events, for any number of cameras, sinks and events and any*)
(* capacities: a clean run has handled what its arms published, hides no   *)
(* escalation, and what is put behind the end marker is counted as far as  *)
(* the code can see it.                                                    *)
(***************************************************************************)

-----------------------------------------------------------------------------
(* The invariant.                                                          *)

Contents(b) == { queue[b][i] : i \in DOMAIN queue[b] }
Held(b)     == IF worker[b].at \in {"handle", "forward"} THEN { worker[b].item } ELSE {}

Published(c) == { <<c, n>> : n \in 1 .. published[c] }
Arm(c)       == Contents(c) \cup Held(c)
Station      == Contents(Business) \cup Held(Business) \cup handled

(* An event is in one place, and none is put twice.                        *)
Distinct(q) == \A i, j \in DOMAIN q : q[i] = q[j] => i = j

ArmSound(c) ==
  /\ Arm(c) \ {End} \subseteq Published(c)
  /\ Published(c) \subseteq Arm(c) \cup Station
  /\ Contents(c) \cap Held(c) = {} /\ Arm(c) \cap Station \subseteq {End}
  /\ Station \cap ({c} \X (1 .. EventsPer)) \subseteq Published(c)

Conserved ==
  /\ \A b \in Buses : Distinct(queue[b]) /\ Held(b) \subseteq Event
  /\ \A c \in Cameras : ArmSound(c)
  /\ Contents(Business) \cap Held(Business) = {}
  /\ (Contents(Business) \cup Held(Business)) \cap handled = {}

(* The end marker is put once, after the flag, and is a camera bus's last. *)
MarkersLast ==
  /\ \A b \in Buses : closing[b] \in {"open", "flagged"} => End \notin Contents(b) /\ worker[b].at # "done"
  /\ \A b \in Buses : closing[b] = "drained" => worker[b].at = "done"
  /\ \A c \in Cameras :
       /\ \A i \in DOMAIN queue[c] : queue[c][i] = End => i = Len(queue[c])
       /\ worker[c].at = "done" => queue[c] = <<>>
  /\ worker[Business].at # "forward"

(* Pipelines end before their buses, the cameras' buses before the other.  *)
EndsInOrder ==
  /\ \A c \in Cameras : closing[c] # "open" => ended[c] # "running"
  /\ closing[Business] # "open" => \A c \in Cameras : Returned(c)
  /\ outcome # "running" => Returned(Business) /\ outcome = Verdict

(* What is behind the end marker, or left when the worker has found it.    *)
Undrained  == { c \in Cameras : closing[c] = "undrained" }
Forwarding == { c \in Cameras : worker[c].at = "forward" }

Straggler(x) == x # End /\ \E c \in Undrained : x \in {c} \X (1 .. EventsPer)

Behind ==
  /\ \A i, j \in DOMAIN queue[Business] :
       i < j /\ queue[Business][i] = End => Straggler(queue[Business][j])
  /\ worker[Business].at = "done" => \A x \in Contents(Business) : Straggler(x)
  /\ late > 0 => Undrained # {}

(* Each undrained bus has at most one event that nobody counted.           *)
Counted ==
  closing[Business] # "open" =>
    /\ Cardinality(Forwarding) <= late + Cardinality(Undrained)
    /\ \A i \in DOMAIN queue[Business] :
         queue[Business][i] = End =>
           Cardinality(Forwarding) + Len(queue[Business]) - i <= late + Cardinality(Undrained)
    /\ worker[Business].at = "done" =>
         Cardinality(Forwarding) + Len(queue[Business]) <= late + Cardinality(Undrained)

(* Who raised on what: of the event at hand those who had their turn.      *)
Turned(x, s) == x \in handled \/ (x \in Held(Business) /\ s \notin worker[Business].left)
Missed == { x \in Event \X Sinks : Turned(x[1], x[2]) /\ x[1] \notin got[x[2]] }

SinksAccounted ==
  /\ IsFiniteSet(Missed) /\ sinkErrors = Cardinality(Missed)
  /\ \A s \in Sinks : \A x \in got[s] : Turned(x, s)

IInv ==
  /\ TypeOK /\ Conserved /\ MarkersLast /\ EndsInOrder /\ Behind /\ Counted /\ SinksAccounted

-----------------------------------------------------------------------------
(* The queues.                                                             *)

Item == Event \cup {End}

LEMMA EndIsNone == End \notin Event
  BY DEF End, Event

LEMMA BusinessIsNone == Business \in Buses /\ Business \notin Cameras /\ Cameras \subseteq Buses
  BY DeliveryAssumption DEF Buses

LEMMA QueueTyped ==
  ASSUME TypeOK, NEW b \in Buses
  PROVE  /\ queue[b] \in Seq(Item) /\ Len(queue[b]) \in Nat /\ DOMAIN queue[b] = 1 .. Len(queue[b])
         /\ Contents(b) \subseteq Item
         /\ queue[b] = <<>> <=> Contents(b) = {}
<1>1. queue[b] \in Seq(Item)
  BY DEF TypeOK, Item
<1>2. Len(queue[b]) \in Nat /\ DOMAIN queue[b] = 1 .. Len(queue[b])
  BY <1>1
<1>3. Contents(b) \subseteq Item
  BY <1>1, <1>2 DEF Contents
<1>4. queue[b] = <<>> => Contents(b) = {}
  BY <1>2 DEF Contents
<1>5. queue[b] # <<>> => 1 \in DOMAIN queue[b]
  BY <1>1, <1>2
<1> QED
  BY <1>1, <1>2, <1>3, <1>4, <1>5 DEF Contents

LEMMA OthersContents ==
  ASSUME NEW b, queue'[b] = queue[b]
  PROVE  Contents(b)' = Contents(b)
BY DEF Contents

LEMMA QueueGrows ==
  ASSUME TypeOK, NEW b \in Buses, NEW x \in Item, HasRoom(b), PutOn(b, x)
  PROVE  /\ queue' \in [ Buses -> Seq(Item) ]
         /\ \A d \in Buses : Len(queue'[d]) <= Capacity(d)
         /\ \A d \in Buses : d # b => queue'[d] = queue[d] /\ Contents(d)' = Contents(d)
         /\ Contents(b)' = Contents(b) \cup {x}
         /\ Len(queue'[b]) = Len(queue[b]) + 1 /\ DOMAIN queue'[b] = 1 .. Len(queue[b]) + 1
         /\ \A i \in 1 .. Len(queue[b]) : queue'[b][i] = queue[b][i]
         /\ queue'[b][Len(queue[b]) + 1] = x
         /\ Distinct(queue[b]) /\ x \notin Contents(b) => Distinct(queue'[b])
<1>1. /\ queue \in [ Buses -> Seq(Item) ] /\ queue' = [ queue EXCEPT ![b] = Append(@, x) ]
      /\ \A d \in Buses : Len(queue[d]) <= Capacity(d)
  BY DEF TypeOK, Item, PutOn
<1>2. queue'[b] = Append(queue[b], x) /\ \A d \in Buses : d # b => queue'[d] = queue[d]
  BY <1>1
<1>3. PICK n \in Nat : n = Len(queue[b])
  BY QueueTyped
<1>4. /\ queue'[b] \in Seq(Item) /\ Len(queue'[b]) = n + 1
      /\ \A i \in 1 .. n : queue'[b][i] = queue[b][i]
      /\ queue'[b][n + 1] = x
      /\ DOMAIN queue'[b] = 1 .. n + 1 /\ DOMAIN queue[b] = 1 .. n
  BY <1>1, <1>2, <1>3
<1>5. queue' \in [ Buses -> Seq(Item) ]
  BY <1>1, <1>4
<1>6. 1 .. n + 1 = (1 .. n) \cup {n + 1} /\ n + 1 \notin 1 .. n
  OBVIOUS
<1>7. Contents(b)' = Contents(b) \cup {x}
  <2>1. Contents(b)' = { queue'[b][i] : i \in 1 .. n + 1 }
    BY <1>4 DEF Contents
  <2>2. Contents(b) = { queue[b][i] : i \in 1 .. n }
    BY <1>4 DEF Contents
  <2> QED
    BY <1>4, <1>6, <2>1, <2>2
<1>8. \A d \in Buses : d # b => Contents(d)' = Contents(d)
  BY <1>2, OthersContents
<1>9. \A d \in Buses : Len(queue'[d]) <= Capacity(d)
  <2>1. n < Capacity(b) /\ Capacity(b) \in Nat
    BY <1>3, DeliveryAssumption DEF HasRoom, Capacity
  <2>2. n + 1 <= Capacity(b)
    BY <2>1
  <2> QED
    BY <1>1, <1>2, <1>4, <2>2
<1>10. ASSUME Distinct(queue[b]), x \notin Contents(b)
       PROVE  Distinct(queue'[b])
  <2>1. \A i \in 1 .. n : queue'[b][i] # x
    BY <1>4, <1>10 DEF Contents
  <2> QED
    BY <1>4, <1>6, <1>10, <2>1 DEF Distinct
<1> QED
  BY <1>2, <1>3, <1>4, <1>5, <1>7, <1>8, <1>9, <1>10

LEMMA QueueShrinks ==
  ASSUME TypeOK, NEW b \in Buses, Distinct(queue[b]), queue[b] # <<>>,
         queue' = [ queue EXCEPT ![b] = Tail(@) ]
  PROVE  /\ queue' \in [ Buses -> Seq(Item) ]
         /\ \A d \in Buses : Len(queue'[d]) <= Capacity(d)
         /\ \A d \in Buses : d # b => queue'[d] = queue[d] /\ Contents(d)' = Contents(d)
         /\ Head(queue[b]) \in Item /\ Head(queue[b]) = queue[b][1] /\ 1 \in DOMAIN queue[b]
         /\ Head(queue[b]) \notin Contents(b)'
         /\ Contents(b) = Contents(b)' \cup {Head(queue[b])}
         /\ Len(queue[b]) = Len(queue'[b]) + 1 /\ Len(queue'[b]) \in Nat
         /\ DOMAIN queue'[b] = 1 .. Len(queue'[b])
         /\ \A i \in DOMAIN queue'[b] : i + 1 \in DOMAIN queue[b] /\ queue'[b][i] = queue[b][i + 1]
         /\ Distinct(queue'[b])
<1>1. /\ queue \in [ Buses -> Seq(Item) ] /\ queue' = [ queue EXCEPT ![b] = Tail(@) ]
      /\ \A d \in Buses : Len(queue[d]) <= Capacity(d)
  BY DEF TypeOK, Item
<1>2. queue'[b] = Tail(queue[b]) /\ \A d \in Buses : d # b => queue'[d] = queue[d]
  BY <1>1
<1>3. PICK n \in Nat : n = Len(queue[b])
  BY QueueTyped
<1>4. n > 0 /\ DOMAIN queue[b] = 1 .. n
  BY <1>1, <1>3
<1>5. /\ queue'[b] \in Seq(Item) /\ Len(queue'[b]) = n - 1
      /\ \A i \in 1 .. n - 1 : queue'[b][i] = queue[b][i + 1]
      /\ DOMAIN queue'[b] = 1 .. n - 1
      /\ Head(queue[b]) = queue[b][1]
  BY <1>1, <1>2, <1>3, <1>4
<1>6. queue' \in [ Buses -> Seq(Item) ]
  BY <1>1, <1>5
<1>7. /\ \A i \in 1 .. n - 1 : i + 1 \in 1 .. n /\ i + 1 # 1
      /\ \A j \in 1 .. n : j = 1 \/ (j - 1 \in 1 .. n - 1 /\ (j - 1) + 1 = j)
      /\ 1 \in 1 .. n
  BY <1>4
<1>8. Contents(b) = Contents(b)' \cup {Head(queue[b])}
  <2>1. Contents(b)' = { queue'[b][i] : i \in 1 .. n - 1 }
    BY <1>5 DEF Contents
  <2>2. Contents(b) = { queue[b][i] : i \in 1 .. n }
    BY <1>4 DEF Contents
  <2>3. ASSUME NEW x \in Contents(b), x # queue[b][1]
        PROVE  x \in Contents(b)'
    <3>1. PICK j \in 1 .. n : x = queue[b][j]
      BY <2>2, <2>3
    <3>2. j - 1 \in 1 .. n - 1 /\ (j - 1) + 1 = j
      BY <1>7, <2>3, <3>1
    <3>3. queue'[b][j - 1] = x
      BY <1>5, <3>1, <3>2
    <3> QED
      BY <2>1, <3>2, <3>3
  <2>4. Contents(b)' \subseteq Contents(b) /\ queue[b][1] \in Contents(b)
    BY <1>5, <1>7, <2>1, <2>2
  <2> QED
    BY <1>5, <2>3, <2>4
<1>9. \A i \in 1 .. n - 1 : queue'[b][i] # queue[b][1]
  BY <1>4, <1>5, <1>7 DEF Distinct
<1>10. Head(queue[b]) \notin Contents(b)'
  BY <1>5, <1>9 DEF Contents
<1>11. Distinct(queue'[b])
  <2> SUFFICES ASSUME NEW i \in 1 .. n - 1, NEW j \in 1 .. n - 1, queue'[b][i] = queue'[b][j]
               PROVE  i = j
    BY <1>5 DEF Distinct
  <2>1. i + 1 = j + 1
    BY <1>4, <1>5, <1>7 DEF Distinct
  <2> QED
    BY <2>1
<1>12. \A d \in Buses : d # b => Contents(d)' = Contents(d)
  BY <1>2, OthersContents
<1>13. \A d \in Buses : Len(queue'[d]) <= Capacity(d)
  <2>1. n <= Capacity(b) /\ Capacity(b) \in Nat
    BY <1>1, <1>3, DeliveryAssumption DEF Capacity
  <2>2. n - 1 <= Capacity(b)
    BY <2>1
  <2> QED
    BY <1>1, <1>2, <1>5, <2>2
<1>14. Head(queue[b]) \in Item
  BY <1>4, <1>8, QueueTyped
<1>15. n = (n - 1) + 1 /\ n - 1 \in Nat
  BY <1>4
<1> QED
  BY <1>2, <1>3, <1>4, <1>5, <1>6, <1>7, <1>8, <1>10, <1>11, <1>12, <1>13, <1>14, <1>15

-----------------------------------------------------------------------------
LEMMA InitIInv == Init => IInv
<1> SUFFICES ASSUME Init PROVE IInv
  OBVIOUS
<1> USE DeliveryAssumption
<1>1. /\ \A b \in Buses : /\ queue[b] = <<>> /\ closing[b] = "open"
                          /\ worker[b] = [ at |-> "get", item |-> End, left |-> {} ]
      /\ \A c \in Cameras : published[c] = 0 /\ ended[c] = "running"
      /\ \A s \in Sinks : got[s] = {}
      /\ sinkErrors = 0 /\ handled = {} /\ late = 0 /\ outcome = "running"
  BY DEF Init
<1>2. Business \in Buses /\ \A c \in Cameras : c \in Buses
  BY BusinessIsNone
<1>3. \A b \in Buses : Contents(b) = {} /\ Held(b) = {} /\ worker[b].at = "get"
  BY <1>1 DEF Contents, Held
<1>4. TypeOK
  <2>1. queue \in [ Buses -> Seq(Event \cup {End}) ]
    BY DEF Init
  <2>2. \A b \in Buses : Len(queue[b]) <= Capacity(b)
    BY <1>1 DEF Capacity
  <2>3. worker \in [ Buses -> [ at : {"get", "handle", "forward", "done"},
                               item : Event \cup {End}, left : SUBSET Sinks ] ]
    BY DEF Init
  <2>4. closing \in [ Buses -> {"open", "flagged", "join", "drained", "undrained"} ]
    BY DEF Init
  <2>5. published \in [ Cameras -> 0 .. EventsPer ]
    BY DEF Init
  <2>6. ended \in [ Cameras -> {"running", "stopped", "failed", "escalated"} ]
    BY DEF Init
  <2>7. got \in [ Sinks -> SUBSET Event ] /\ stopAll \in BOOLEAN
    BY DEF Init
  <2> QED
    BY <1>1, <2>1, <2>2, <2>3, <2>4, <2>5, <2>6, <2>7 DEF TypeOK
<1>5. Conserved
  <2>1. \A c \in Cameras : Published(c) = {}
    BY <1>1 DEF Published
  <2>2. \A b \in Buses : Distinct(queue[b])
    BY <1>1 DEF Distinct
  <2>3. Station = {} /\ \A c \in Cameras : Arm(c) = {}
    BY <1>1, <1>2, <1>3 DEF Station, Arm
  <2> QED
    BY <1>1, <1>2, <1>3, <2>1, <2>2, <2>3 DEF Conserved, ArmSound
<1>6. MarkersLast
  BY <1>1, <1>2, <1>3 DEF MarkersLast
<1>7. EndsInOrder
  BY <1>1, <1>2 DEF EndsInOrder
<1>8. Behind /\ Counted
  <2>1. DOMAIN queue[Business] = {}
    BY <1>1, <1>2
  <2> QED
    BY <1>1, <1>2, <1>3, <2>1 DEF Behind, Counted
<1>9. SinksAccounted
  <2>1. Missed = {}
    BY <1>1, <1>2, <1>3 DEF Missed, Turned
  <2> QED
    BY <1>1, <2>1, FS_EmptySet DEF SinksAccounted
<1> QED
  BY <1>4, <1>5, <1>6, <1>7, <1>8, <1>9 DEF IInv

-----------------------------------------------------------------------------
(* What a step leaves alone.                                               *)

LEMMA VerdictStands ==
  ASSUME EndsInOrder, UNCHANGED <<closing, ended, outcome, stopAll>>
  PROVE  EndsInOrder'
<1>1. Verdict' = Verdict
  BY DEF Verdict, Tolerable, ArmFailed, Escalated
<1> QED
  BY <1>1 DEF EndsInOrder, Returned

LEMMA MarkerStands ==
  ASSUME Behind, Counted, UNCHANGED <<closing, late>>, queue'[Business] = queue[Business],
         worker'[Business].at = worker[Business].at, Forwarding' = Forwarding
  PROVE  Behind' /\ Counted'
<1>1. Undrained' = Undrained
  BY DEF Undrained
<1>2. Contents(Business)' = Contents(Business)
  BY OthersContents
<1>3. \A x : Straggler(x)' <=> Straggler(x)
  BY <1>1 DEF Straggler
<1> QED
  BY <1>1, <1>2, <1>3 DEF Behind, Counted

LEMMA SinksStand ==
  ASSUME SinksAccounted, UNCHANGED <<handled, got, sinkErrors>>,
         worker'[Business] = worker[Business]
  PROVE  SinksAccounted'
<1>1. Held(Business)' = Held(Business)
  BY DEF Held
<1>2. \A x, s : Turned(x, s)' <=> Turned(x, s)
  BY <1>1 DEF Turned
<1>3. Missed' = Missed
  BY <1>2 DEF Missed
<1> QED
  BY <1>2, <1>3 DEF SinksAccounted

-----------------------------------------------------------------------------
(* The pipelines.                                                          *)

LEMMA PublishKeeps ==
  ASSUME IInv, NEW c \in Cameras, Publish(c), UNCHANGED stopAll
  PROVE  IInv'
<1> USE DeliveryAssumption
<1> DEFINE x == <<c, published[c] + 1>>
<1>1. /\ ended[c] = "running" /\ published[c] < EventsPer /\ HasRoom(c)
      /\ published' = [ published EXCEPT ![c] = @ + 1 ] /\ PutOn(c, x)
      /\ UNCHANGED <<worker, closing, ended, got, sinkErrors, handled, late, outcome, stopAll>>
  BY DEF Publish
<1>2. c \in Buses /\ Business \in Buses /\ c # Business /\ TypeOK
  BY BusinessIsNone DEF IInv
<1>3. PICK n \in 0 .. EventsPer : n = published[c]
  BY <1>2 DEF TypeOK
<1>4. n < EventsPer /\ n + 1 \in 1 .. EventsPer /\ x = <<c, n + 1>>
  BY <1>1, <1>3
<1>5. x \in Event /\ x \in Item /\ x # End
  BY <1>4, EndIsNone DEF Event, Item
<1>6. /\ Published(c) = { <<c, k>> : k \in 1 .. n }
      /\ \A d \in Cameras : d # c => Published(d)' = Published(d)
      /\ published' \in [ Cameras -> 0 .. EventsPer ] /\ published'[c] = n + 1
  BY <1>1, <1>2, <1>3, <1>4 DEF Published, TypeOK
<1>7. x \notin Published(c) /\ Published(c)' = Published(c) \cup {x}
  <2>1. 1 .. n + 1 = (1 .. n) \cup {n + 1} /\ n + 1 \notin 1 .. n
    OBVIOUS
  <2>2. Published(c)' = { <<c, k>> : k \in 1 .. n + 1 }
    BY <1>6 DEF Published
  <2> QED
    BY <1>4, <1>6, <2>1, <2>2
<1>8. x \in {c} \X (1 .. EventsPer)
  BY <1>4
<1> HIDE DEF x
<1>9. x \notin Arm(c) /\ x \notin Station
  BY <1>2, <1>5, <1>7, <1>8 DEF IInv, Conserved, ArmSound
<1>10. /\ queue' \in [ Buses -> Seq(Item) ] /\ \A d \in Buses : Len(queue'[d]) <= Capacity(d)
       /\ \A d \in Buses : d # c => queue'[d] = queue[d] /\ Contents(d)' = Contents(d)
       /\ Contents(c)' = Contents(c) \cup {x}
       /\ Distinct(queue[c]) /\ x \notin Contents(c) => Distinct(queue'[c])
  BY <1>1, <1>2, <1>5, QueueGrows DEF x
<1>11. TypeOK'
  BY <1>1, <1>6, <1>10 DEF IInv, TypeOK, Item
<1>12. Held(Business)' = Held(Business) /\ \A d \in Buses : Held(d)' = Held(d)
  BY <1>1 DEF Held
<1>13. Station' = Station
  BY <1>1, <1>2, <1>10, <1>12 DEF Station
<1>14. Conserved'
  <2>1. \A d \in Buses : Distinct(queue'[d])
    BY <1>2, <1>9, <1>10 DEF IInv, Conserved, Arm
  <2>2. ASSUME NEW d \in Cameras, d # c
        PROVE  ArmSound(d)'
    <3>1. Arm(d)' = Arm(d) /\ Contents(d)' = Contents(d) /\ Held(d)' = Held(d) /\ ArmSound(d)
      BY <1>10, <1>12, <2>2, BusinessIsNone DEF Arm, IInv, Conserved
    <3> QED
      BY <1>6, <1>13, <2>2, <3>1 DEF ArmSound
  <2>3. ArmSound(c)'
    <3>1. Arm(c)' = Arm(c) \cup {x} /\ Held(c)' = Held(c) /\ ArmSound(c) /\ Held(c) \subseteq Arm(c)
      BY <1>2, <1>10, <1>12 DEF Arm, IInv, Conserved
    <3> QED
      BY <1>7, <1>9, <1>10, <1>13, <3>1 DEF ArmSound
  <2> QED
    BY <1>1, <1>2, <1>10, <1>12, <2>1, <2>2, <2>3 DEF IInv, Conserved
<1>15. MarkersLast'
  <2>1. closing[c] = "open" /\ End \notin Contents(c) /\ worker[c].at # "done"
    BY <1>1, <1>2 DEF IInv, EndsInOrder, MarkersLast
  <2>2. End \notin Contents(c)'
    BY <1>5, <1>10, <2>1
  <2>3. \A i \in DOMAIN queue'[c] : queue'[c][i] # End
    BY <2>2 DEF Contents
  <2> QED
    BY <1>1, <1>2, <1>10, <2>1, <2>2, <2>3, BusinessIsNone DEF IInv, MarkersLast
<1>16. EndsInOrder'
  BY <1>1, VerdictStands DEF IInv
<1>17. Behind' /\ Counted'
  <2>1. Forwarding' = Forwarding
    BY <1>1 DEF Forwarding
  <2> QED
    BY <1>1, <1>2, <1>10, <2>1, MarkerStands DEF IInv
<1>18. SinksAccounted'
  BY <1>1, SinksStand DEF IInv
<1> QED
  BY <1>11, <1>14, <1>15, <1>16, <1>17, <1>18 DEF IInv

LEMMA PipelineEndsKeeps ==
  ASSUME IInv, NEW c \in Cameras, PipelineEnds(c), UNCHANGED stopAll
  PROVE  IInv'
<1>1. /\ ended[c] = "running"
      /\ UNCHANGED <<queue, worker, closing, published, got, sinkErrors, handled, late, outcome,
                     stopAll>>
  BY DEF PipelineEnds
<1>2. PICK how \in {"stopped", "failed", "escalated"} : ended' = [ ended EXCEPT ![c] = how ]
  BY DEF PipelineEnds
<1>3. /\ ended' \in [ Cameras -> {"running", "stopped", "failed", "escalated"} ]
      /\ \A d \in Cameras : ended[d] # "running" => ended'[d] = ended[d]
  BY <1>1, <1>2 DEF IInv, TypeOK
<1>4. TypeOK'
  BY <1>1, <1>3 DEF IInv, TypeOK
<1>5. /\ Station' = Station
      /\ \A b : Contents(b)' = Contents(b) /\ Held(b)' = Held(b) /\ Arm(b)' = Arm(b)
                  /\ Published(b)' = Published(b)
  BY <1>1 DEF Station, Contents, Held, Arm, Published
<1>6. Conserved'
  BY <1>1, <1>5 DEF IInv, Conserved, ArmSound
<1>7. MarkersLast'
  BY <1>1, <1>5 DEF IInv, MarkersLast
<1>8. EndsInOrder'
  <2>1. closing[c] = "open"
    BY <1>1 DEF IInv, EndsInOrder
  <2>2. ~ Returned(c)
    BY <2>1 DEF Returned
  <2>3. closing[Business] = "open" /\ outcome = "running"
    BY <2>2 DEF IInv, EndsInOrder, Returned
  <2> QED
    BY <1>1, <1>3, <2>3 DEF IInv, EndsInOrder
<1>9. Behind' /\ Counted' /\ SinksAccounted'
  <2>1. Forwarding' = Forwarding
    BY <1>1 DEF Forwarding
  <2> QED
    BY <1>1, <2>1, MarkerStands, SinksStand DEF IInv
<1> QED
  BY <1>4, <1>6, <1>7, <1>8, <1>9 DEF IInv

-----------------------------------------------------------------------------
(* The workers of the cameras' buses.                                      *)

Steps == {"get", "handle", "forward", "done"}

LEMMA WorkerMoves ==
  ASSUME TypeOK, NEW b \in Buses, NEW at \in Steps, WorkerGoes(b, at)
  PROVE  /\ worker' \in [ Buses -> [ at : Steps, item : Item, left : SUBSET Sinks ] ]
         /\ \A d \in Buses : d # b => worker'[d] = worker[d] /\ Held(d)' = Held(d)
         /\ worker'[b].at = at /\ worker'[b].item = worker[b].item /\ worker'[b].left = worker[b].left
<1>1. worker \in [ Buses -> [ at : Steps, item : Item, left : SUBSET Sinks ] ]
  BY DEF TypeOK, Steps, Item
<1>2. worker' = [ worker EXCEPT ![b].at = at ]
  BY DEF WorkerGoes
<1>3. \A d \in Buses : d # b => worker'[d] = worker[d]
  BY <1>1, <1>2
<1>4. \A d \in Buses : d # b => Held(d)' = Held(d)
  BY <1>3 DEF Held
<1> QED
  BY <1>1, <1>2, <1>3, <1>4

(* A camera's worker takes its next event, or finds the end.               *)
LEMMA GetArmKeeps ==
  ASSUME IInv, NEW c \in Cameras, Get(c), UNCHANGED stopAll
  PROVE  IInv'
<1> USE DeliveryAssumption
<1> DEFINE item == Head(queue[c])
<1>1. /\ worker[c].at = "get" /\ queue[c] # <<>>
      /\ worker' = [ worker EXCEPT ![c] = [ at |-> IF item = End THEN "done" ELSE "handle",
                                            item |-> item,
                                            left |-> IF c = Business /\ item # End THEN Sinks ELSE {} ] ]
      /\ queue' = [ queue EXCEPT ![c] = Tail(@) ]
      /\ UNCHANGED <<closing, published, ended, got, sinkErrors, handled, late, outcome, stopAll>>
  BY DEF Get
<1>2. c \in Buses /\ Business \in Buses /\ c # Business /\ TypeOK /\ Distinct(queue[c])
  BY BusinessIsNone DEF IInv, Conserved
<1>3. /\ queue' \in [ Buses -> Seq(Item) ] /\ \A d \in Buses : Len(queue'[d]) <= Capacity(d)
      /\ \A d \in Buses : d # c => queue'[d] = queue[d] /\ Contents(d)' = Contents(d)
      /\ item \in Item /\ item = queue[c][1] /\ 1 \in DOMAIN queue[c]
      /\ item \notin Contents(c)' /\ Contents(c) = Contents(c)' \cup {item}
      /\ Len(queue[c]) = Len(queue'[c]) + 1 /\ Len(queue'[c]) \in Nat
      /\ DOMAIN queue'[c] = 1 .. Len(queue'[c])
      /\ \A i \in DOMAIN queue'[c] : i + 1 \in DOMAIN queue[c] /\ queue'[c][i] = queue[c][i + 1]
      /\ Distinct(queue'[c])
  BY <1>1, <1>2, QueueShrinks
<1> HIDE DEF item
<1>4. /\ worker' \in [ Buses -> [ at : Steps, item : Item, left : SUBSET Sinks ] ]
      /\ worker'[c] = [ at |-> IF item = End THEN "done" ELSE "handle", item |-> item, left |-> {} ]
      /\ \A d \in Buses : d # c => worker'[d] = worker[d] /\ Held(d)' = Held(d)
  BY <1>1, <1>2, <1>3 DEF TypeOK, Steps, Item, Held
<1>5. TypeOK'
  BY <1>1, <1>3, <1>4 DEF IInv, TypeOK, Item, Steps
<1>6. Held(c) = {} /\ Held(c)' = IF item = End THEN {} ELSE {item}
  BY <1>1, <1>4 DEF Held
<1>7. Station' = Station /\ \A d : Published(d)' = Published(d)
  BY <1>1, <1>2, <1>3, <1>4 DEF Station, Published
<1>8. Conserved'
  <2>1. \A d \in Buses : Distinct(queue'[d])
    BY <1>3 DEF IInv, Conserved
  <2>2. ASSUME NEW d \in Cameras, d # c
        PROVE  ArmSound(d)'
    <3>1. Arm(d)' = Arm(d) /\ Contents(d)' = Contents(d) /\ Held(d)' = Held(d) /\ ArmSound(d)
      BY <1>3, <1>4, <2>2, BusinessIsNone DEF Arm, IInv, Conserved
    <3> QED
      BY <1>1, <1>7, <2>2, <3>1 DEF ArmSound
  <2>3. ArmSound(c)'
    <3>1. ArmSound(c) /\ Arm(c)' \subseteq Arm(c) /\ Arm(c) \subseteq Arm(c)' \cup {End}
          /\ Contents(c)' \cap Held(c)' = {}
      BY <1>3, <1>6 DEF Arm, IInv, Conserved
    <3>2. End \notin Published(c)
      BY DEF Published, End
    <3> QED
      BY <1>1, <1>7, <3>1, <3>2 DEF ArmSound
  <2>4. \A d \in Buses : Held(d)' \subseteq Event
    BY <1>3, <1>4, <1>6 DEF IInv, Conserved, Item
  <2> QED
    BY <1>1, <1>2, <1>3, <1>4, <2>1, <2>2, <2>3, <2>4 DEF IInv, Conserved
<1>9. MarkersLast'
  <2>1. item = End => closing[c] \notin {"open", "flagged"}
    BY <1>2, <1>3 DEF IInv, MarkersLast
  <2>2. worker'[c].at = "done" => item = End
    BY <1>4
  <2>3. ASSUME item = End
        PROVE  queue'[c] = <<>>
    <3>1. 1 = Len(queue[c])
      BY <1>3, <2>3 DEF IInv, MarkersLast
    <3>2. PICK n \in Nat : n = Len(queue'[c]) /\ 1 = n + 1
      BY <1>3, <3>1
    <3>3. queue'[c] \in Seq(Item) /\ Len(queue'[c]) = 0
      BY <1>2, <1>3, <3>2
    <3> QED
      BY <3>3
  <2>4. ASSUME NEW i \in DOMAIN queue'[c], queue'[c][i] = End
        PROVE  i = Len(queue'[c])
    <3>1. i + 1 = Len(queue[c])
      BY <1>3, <2>4 DEF IInv, MarkersLast
    <3>2. PICK n \in Nat : n = Len(queue'[c]) /\ i + 1 = n + 1 /\ i \in 1 .. n
      BY <1>3, <3>1
    <3> QED
      BY <3>2
  <2>5. closing[c] # "drained"
    BY <1>1, <1>2 DEF IInv, MarkersLast
  <2>6. \A d \in Buses : closing'[d] \in {"open", "flagged"} => End \notin Contents(d)' /\ worker'[d].at # "done"
    BY <1>1, <1>3, <1>4, <2>1, <2>2 DEF IInv, MarkersLast
  <2>7. \A d \in Buses : closing'[d] = "drained" => worker'[d].at = "done"
    BY <1>1, <1>4, <2>5 DEF IInv, MarkersLast
  <2>8. \A d \in Cameras : /\ \A i \in DOMAIN queue'[d] : queue'[d][i] = End => i = Len(queue'[d])
                           /\ worker'[d].at = "done" => queue'[d] = <<>>
    BY <1>3, <1>4, <2>2, <2>3, <2>4, BusinessIsNone DEF IInv, MarkersLast
  <2> QED
    BY <1>2, <1>4, <2>6, <2>7, <2>8 DEF IInv, MarkersLast
<1>10. EndsInOrder'
  BY <1>1, VerdictStands DEF IInv
<1>11. Behind' /\ Counted'
  <2>1. worker[c].at # "forward" /\ worker'[c].at # "forward"
    BY <1>1, <1>4
  <2>2. Forwarding' = Forwarding
    BY <1>4, <2>1, BusinessIsNone DEF Forwarding
  <2> QED
    BY <1>1, <1>2, <1>3, <1>4, <2>2, MarkerStands DEF IInv
<1>12. SinksAccounted'
  BY <1>1, <1>2, <1>4, SinksStand DEF IInv
<1> QED
  BY <1>5, <1>8, <1>9, <1>10, <1>11, <1>12 DEF IInv

LEMMA CamerasCounted ==
  /\ IsFiniteSet(Forwarding) /\ Cardinality(Forwarding) \in Nat
  /\ IsFiniteSet(Undrained) /\ Cardinality(Undrained) \in Nat
<1>1. Forwarding \subseteq Cameras /\ Undrained \subseteq Cameras
  BY DEF Forwarding, Undrained
<1>2. IsFiniteSet(Forwarding) /\ IsFiniteSet(Undrained)
  BY <1>1, FS_Subset, DeliveryAssumption
<1> QED
  BY <1>2, FS_CardinalityType

(* Once the business bus shuts down, a camera's worker that goes on is one *)
(* whose bus was given up.                                                 *)
LEMMA StragglersAreUndrained ==
  ASSUME IInv, NEW c \in Cameras, worker[c].at \in {"handle", "forward"}, closing[Business] # "open"
  PROVE  c \in Undrained
<1>1. Returned(c) /\ c \in Buses
  BY BusinessIsNone DEF IInv, EndsInOrder
<1>2. closing[c] # "drained"
  BY <1>1 DEF IInv, MarkersLast
<1> QED
  BY <1>1, <1>2 DEF Returned, Undrained

LEMMA ForwardKeeps ==
  ASSUME IInv, NEW c \in Cameras, Forward(c), UNCHANGED stopAll
  PROVE  IInv'
<1> USE DeliveryAssumption
<1>1. /\ worker[c].at = "handle" /\ WorkerGoes(c, "forward")
      /\ late' = (IF closing[Business] = "open" THEN late ELSE late + 1)
      /\ UNCHANGED <<queue, closing, published, ended, got, sinkErrors, handled, outcome, stopAll>>
  BY DEF Forward
<1>2. c \in Buses /\ Business \in Buses /\ c # Business /\ TypeOK /\ "forward" \in Steps
  BY BusinessIsNone DEF IInv, Steps
<1>3. /\ worker' \in [ Buses -> [ at : Steps, item : Item, left : SUBSET Sinks ] ]
      /\ \A d \in Buses : d # c => worker'[d] = worker[d] /\ Held(d)' = Held(d)
      /\ worker'[c].at = "forward" /\ worker'[c].item = worker[c].item
  BY <1>1, <1>2, WorkerMoves
<1>4. late \in Nat /\ late' \in Nat
  BY <1>1, <1>2 DEF TypeOK
<1>5. TypeOK'
  BY <1>1, <1>3, <1>4 DEF IInv, TypeOK, Item, Steps
<1>6. \A d \in Buses : Held(d)' = Held(d) /\ Contents(d)' = Contents(d)
  BY <1>1, <1>3 DEF Held, Contents
<1>7. /\ Station' = Station /\ \A d : Published(d)' = Published(d)
      /\ \A d \in Cameras : Arm(d)' = Arm(d)
  BY <1>1, <1>2, <1>6, BusinessIsNone DEF Station, Published, Arm
<1>8. Conserved'
  BY <1>1, <1>2, <1>6, <1>7, BusinessIsNone DEF IInv, Conserved, ArmSound
<1>9. MarkersLast'
  BY <1>1, <1>2, <1>3, <1>6, BusinessIsNone DEF IInv, MarkersLast
<1>10. EndsInOrder'
  BY <1>1, VerdictStands DEF IInv
<1>11. Behind'
  <2>1. Undrained' = Undrained
    BY <1>1 DEF Undrained
  <2>2. \A x : Straggler(x)' <=> Straggler(x)
    BY <2>1 DEF Straggler
  <2>3. late' > 0 => Undrained # {}
    BY <1>1, StragglersAreUndrained DEF IInv, Behind
  <2> QED
    BY <1>1, <1>2, <1>3, <1>6, <2>1, <2>2, <2>3 DEF IInv, Behind
<1>12. Counted'
  <2> SUFFICES ASSUME closing[Business] # "open"
               PROVE  Counted'
    BY <1>1 DEF Counted
  <2>1. Undrained' = Undrained /\ late' = late + 1
    BY <1>1 DEF Undrained
  <2>2. Forwarding' = Forwarding \cup {c} /\ c \notin Forwarding
    BY <1>1, <1>3, BusinessIsNone DEF Forwarding
  <2>3. Cardinality(Forwarding') = Cardinality(Forwarding) + 1
    BY <2>2, CamerasCounted, FS_AddElement
  <2>4. PICK f \in Nat, u \in Nat, n \in Nat :
          f = Cardinality(Forwarding) /\ u = Cardinality(Undrained) /\ n = Len(queue[Business])
    BY <1>2, CamerasCounted, QueueTyped
  <2>5. /\ f <= late + u
        /\ \A i \in DOMAIN queue[Business] : queue[Business][i] = End => f + n - i <= late + u
        /\ worker[Business].at = "done" => f + n <= late + u
    BY <2>4 DEF IInv, Counted
  <2>6. DOMAIN queue[Business] \subseteq Nat
    BY <1>2, QueueTyped
  <2>7. /\ f + 1 <= late + 1 + u
        /\ \A i \in DOMAIN queue[Business] : queue[Business][i] = End => f + 1 + n - i <= late + 1 + u
        /\ worker[Business].at = "done" => f + 1 + n <= late + 1 + u
    BY <1>4, <2>4, <2>5, <2>6
  <2> QED
    BY <1>1, <1>2, <1>3, <2>1, <2>3, <2>4, <2>7 DEF Counted
<1>13. SinksAccounted'
  BY <1>1, <1>2, <1>3, SinksStand DEF IInv
<1> QED
  BY <1>5, <1>8, <1>9, <1>10, <1>11, <1>12, <1>13 DEF IInv

LEMMA ForwardedKeeps ==
  ASSUME IInv, NEW c \in Cameras, Forwarded(c), UNCHANGED stopAll
  PROVE  IInv'
<1> USE DeliveryAssumption
<1> DEFINE x == worker[c].item
<1>1. /\ worker[c].at = "forward" /\ HasRoom(Business) /\ PutOn(Business, x)
      /\ WorkerGoes(c, "get")
      /\ UNCHANGED <<closing, published, ended, got, sinkErrors, handled, late, outcome, stopAll>>
  BY DEF Forwarded
<1>2. c \in Buses /\ Business \in Buses /\ c # Business /\ TypeOK /\ "get" \in Steps
  BY BusinessIsNone DEF IInv, Steps
<1>3. Held(c) = {x}
  BY <1>1 DEF Held
<1>4. /\ worker' \in [ Buses -> [ at : Steps, item : Item, left : SUBSET Sinks ] ]
      /\ \A d \in Buses : d # c => worker'[d] = worker[d] /\ Held(d)' = Held(d)
      /\ worker'[c].at = "get"
  BY <1>1, <1>2, WorkerMoves
<1> HIDE DEF x
<1>5. x \in Event /\ x # End /\ x \in Item
  BY <1>2, <1>3, EndIsNone DEF IInv, Conserved, Item
<1>6. ArmSound(c) /\ x \in Arm(c) /\ x \in Published(c) /\ x \notin Station /\ x \notin Contents(c)
  BY <1>3, <1>5 DEF IInv, Conserved, ArmSound, Arm
<1>7. /\ queue' \in [ Buses -> Seq(Item) ] /\ \A d \in Buses : Len(queue'[d]) <= Capacity(d)
      /\ \A d \in Buses : d # Business => queue'[d] = queue[d] /\ Contents(d)' = Contents(d)
      /\ Contents(Business)' = Contents(Business) \cup {x}
      /\ Len(queue'[Business]) = Len(queue[Business]) + 1
      /\ DOMAIN queue'[Business] = 1 .. Len(queue[Business]) + 1
      /\ \A i \in 1 .. Len(queue[Business]) : queue'[Business][i] = queue[Business][i]
      /\ queue'[Business][Len(queue[Business]) + 1] = x
      /\ Distinct(queue[Business]) /\ x \notin Contents(Business) => Distinct(queue'[Business])
  BY <1>1, <1>2, <1>5, QueueGrows DEF x
<1>8. TypeOK'
  BY <1>1, <1>4, <1>7 DEF IInv, TypeOK, Item, Steps
<1>9. Held(c)' = {} /\ Held(Business)' = Held(Business)
  BY <1>2, <1>4 DEF Held
<1>10. Station' = Station \cup {x} /\ \A d : Published(d)' = Published(d)
  BY <1>1, <1>7, <1>9 DEF Station, Published
<1>11. Conserved'
  <2>1. \A d \in Buses : Distinct(queue'[d])
    BY <1>6, <1>7 DEF IInv, Conserved, Station
  <2>2. ASSUME NEW d \in Cameras, d # c
        PROVE  ArmSound(d)'
    <3>1. Arm(d)' = Arm(d) /\ Contents(d)' = Contents(d) /\ Held(d)' = Held(d) /\ ArmSound(d)
      BY <1>2, <1>4, <1>7, <2>2, BusinessIsNone DEF Arm, IInv, Conserved
    <3>2. x \notin Published(d) /\ x \notin {d} \X (1 .. EventsPer)
      BY <1>6, <2>2 DEF Published
    <3> QED
      BY <1>10, <3>1, <3>2 DEF ArmSound
  <2>3. ArmSound(c)'
    <3>1. Arm(c)' = Contents(c) /\ Contents(c)' = Contents(c) /\ Arm(c) = Contents(c) \cup {x}
      BY <1>2, <1>3, <1>7, <1>9 DEF Arm
    <3> QED
      BY <1>6, <1>9, <1>10, <3>1 DEF ArmSound
  <2>4. \A d \in Buses : Held(d)' \subseteq Event
    BY <1>4, <1>9 DEF IInv, Conserved
  <2>5. x \notin Held(Business) /\ x \notin handled
    BY <1>6 DEF Station
  <2> QED
    BY <1>1, <1>7, <1>9, <2>1, <2>2, <2>3, <2>4, <2>5 DEF IInv, Conserved
<1>12. MarkersLast'
  <2>1. closing[c] # "drained"
    BY <1>1, <1>2 DEF IInv, MarkersLast
  <2> QED
    BY <1>1, <1>2, <1>4, <1>5, <1>7, <2>1, BusinessIsNone DEF IInv, MarkersLast
<1>13. EndsInOrder'
  BY <1>1, VerdictStands DEF IInv
<1>14. PICK n \in Nat : n = Len(queue[Business]) /\ DOMAIN queue[Business] = 1 .. n
  BY <1>2, QueueTyped
<1>15. Behind'
  <2>1. Undrained' = Undrained
    BY <1>1 DEF Undrained
  <2>2. \A y : Straggler(y)' <=> Straggler(y)
    BY <2>1 DEF Straggler
  <2>3. closing[Business] # "open" => Straggler(x)
    <3>1. x \in {c} \X (1 .. EventsPer)
      BY <1>5, <1>6 DEF Published, Event
    <3> QED
      BY <1>1, <1>5, <3>1, StragglersAreUndrained DEF Straggler
  <2>4. ASSUME NEW i \in 1 .. n + 1, NEW j \in 1 .. n + 1, i < j, queue'[Business][i] = End
        PROVE  Straggler(queue'[Business][j])
    <3>1. i \in 1 .. n /\ queue[Business][i] = End
      BY <1>7, <1>14, <2>4
    <3>2. closing[Business] # "open"
      BY <1>2, <1>14, <3>1 DEF IInv, MarkersLast, Contents
    <3>3. CASE j = n + 1
      BY <1>7, <1>14, <2>3, <3>2, <3>3
    <3>4. CASE j \in 1 .. n
      BY <1>7, <1>14, <2>4, <3>1, <3>4 DEF IInv, Behind
    <3> QED
      BY <3>3, <3>4
  <2>5. worker[Business].at = "done" => closing[Business] # "open"
    BY <1>2 DEF IInv, MarkersLast
  <2>6. worker[Business].at = "done" => \A y \in Contents(Business)' : Straggler(y)
    BY <1>7, <2>3, <2>5 DEF IInv, Behind
  <2> QED
    BY <1>1, <1>2, <1>4, <1>7, <1>14, <2>1, <2>2, <2>4, <2>6 DEF IInv, Behind
<1>16. Counted'
  <2> SUFFICES ASSUME closing[Business] # "open"
               PROVE  Counted'
    BY <1>1 DEF Counted
  <2>1. Undrained' = Undrained /\ late \in Nat
    BY <1>1, <1>2 DEF Undrained, TypeOK
  <2>2. Forwarding' = Forwarding \ {c} /\ c \in Forwarding
    BY <1>1, <1>4, BusinessIsNone DEF Forwarding
  <2>3. Cardinality(Forwarding') = Cardinality(Forwarding) - 1
    BY <2>2, CamerasCounted, FS_RemoveElement
  <2>4. PICK f \in Nat, u \in Nat : f = Cardinality(Forwarding) /\ u = Cardinality(Undrained)
    BY CamerasCounted
  <2>5. /\ f <= late + u
        /\ \A i \in 1 .. n : queue[Business][i] = End => f + n - i <= late + u
        /\ worker[Business].at = "done" => f + n <= late + u
    BY <1>14, <2>4 DEF IInv, Counted
  <2>6. f - 1 <= late + u
    BY <2>1, <2>4, <2>5
  <2>7. ASSUME NEW i \in 1 .. n + 1, queue'[Business][i] = End
        PROVE  f - 1 + (n + 1) - i <= late + u
    <3>1. i \in 1 .. n /\ queue[Business][i] = End
      BY <1>5, <1>7, <1>14, <2>7
    <3>2. f + n - i <= late + u
      BY <2>5, <3>1
    <3> QED
      BY <2>1, <2>4, <3>1, <3>2
  <2>8. worker[Business].at = "done" => f - 1 + (n + 1) <= late + u
    BY <2>1, <2>4, <2>5
  <2> QED
    BY <1>1, <1>2, <1>4, <1>7, <1>14, <2>1, <2>3, <2>4, <2>6, <2>7, <2>8 DEF Counted
<1>17. SinksAccounted'
  BY <1>1, <1>2, <1>4, SinksStand DEF IInv
<1> QED
  BY <1>8, <1>11, <1>12, <1>13, <1>15, <1>16, <1>17 DEF IInv

-----------------------------------------------------------------------------
(* The worker of the business bus.                                         *)

LEMMA GetStationKeeps ==
  ASSUME IInv, Get(Business), UNCHANGED stopAll
  PROVE  IInv'
<1> USE DeliveryAssumption
<1> DEFINE b == Business
           item == Head(queue[b])
<1>1. /\ worker[b].at = "get" /\ queue[b] # <<>>
      /\ worker' = [ worker EXCEPT ![b] = [ at |-> IF item = End THEN "done" ELSE "handle",
                                            item |-> item,
                                            left |-> IF b = Business /\ item # End THEN Sinks ELSE {} ] ]
      /\ queue' = [ queue EXCEPT ![b] = Tail(@) ]
      /\ UNCHANGED <<closing, published, ended, got, sinkErrors, handled, late, outcome, stopAll>>
  BY DEF Get
<1>2. b \in Buses /\ TypeOK /\ Distinct(queue[b])
  BY BusinessIsNone DEF IInv, Conserved
<1>3. /\ queue' \in [ Buses -> Seq(Item) ] /\ \A d \in Buses : Len(queue'[d]) <= Capacity(d)
      /\ \A d \in Buses : d # b => queue'[d] = queue[d] /\ Contents(d)' = Contents(d)
      /\ item \in Item /\ item = queue[b][1] /\ 1 \in DOMAIN queue[b]
      /\ item \notin Contents(b)' /\ Contents(b) = Contents(b)' \cup {item}
      /\ Len(queue[b]) = Len(queue'[b]) + 1 /\ Len(queue'[b]) \in Nat
      /\ DOMAIN queue'[b] = 1 .. Len(queue'[b])
      /\ \A i \in DOMAIN queue'[b] : i + 1 \in DOMAIN queue[b] /\ queue'[b][i] = queue[b][i + 1]
      /\ Distinct(queue'[b])
  BY <1>1, <1>2, QueueShrinks
<1> HIDE DEF item
<1>4. /\ worker' \in [ Buses -> [ at : Steps, item : Item, left : SUBSET Sinks ] ]
      /\ worker'[b] = [ at |-> IF item = End THEN "done" ELSE "handle", item |-> item,
                        left |-> IF item # End THEN Sinks ELSE {} ]
      /\ \A d \in Buses : d # b => worker'[d] = worker[d] /\ Held(d)' = Held(d)
  BY <1>1, <1>2, <1>3 DEF TypeOK, Steps, Item, Held
<1>5. TypeOK'
  BY <1>1, <1>3, <1>4 DEF IInv, TypeOK, Item, Steps
<1>6. Held(b) = {} /\ Held(b)' = IF item = End THEN {} ELSE {item}
  BY <1>1, <1>4 DEF Held
<1>7. Station' \subseteq Station /\ Station \subseteq Station' \cup {End}
  BY <1>1, <1>3, <1>6 DEF Station
<1>8. Conserved'
  <2>1. \A d \in Buses : Distinct(queue'[d])
    BY <1>3 DEF IInv, Conserved
  <2>2. ASSUME NEW d \in Cameras
        PROVE  ArmSound(d)'
    <3>1. Arm(d)' = Arm(d) /\ Contents(d)' = Contents(d) /\ Held(d)' = Held(d) /\ ArmSound(d)
          /\ Published(d)' = Published(d)
      BY <1>1, <1>3, <1>4, BusinessIsNone DEF Arm, IInv, Conserved, Published
    <3>2. End \notin Published(d)
      BY DEF Published, End
    <3> QED
      BY <1>7, <3>1, <3>2 DEF ArmSound
  <2>3. \A d \in Buses : Held(d)' \subseteq Event
    BY <1>3, <1>4, <1>6 DEF IInv, Conserved, Item
  <2> QED
    BY <1>1, <1>3, <1>6, <2>1, <2>2, <2>3 DEF IInv, Conserved
<1>9. item = End => closing[b] \notin {"open", "flagged"}
  BY <1>2, <1>3 DEF IInv, MarkersLast
<1>10. worker'[b].at = "done" <=> item = End
  BY <1>4
<1>11. MarkersLast'
  <2>1. closing[b] # "drained"
    BY <1>1, <1>2 DEF IInv, MarkersLast
  <2>2. \A d \in Buses : closing'[d] \in {"open", "flagged"} => End \notin Contents(d)' /\ worker'[d].at # "done"
    BY <1>1, <1>3, <1>4, <1>9, <1>10 DEF IInv, MarkersLast
  <2>3. \A d \in Buses : closing'[d] = "drained" => worker'[d].at = "done"
    BY <1>1, <1>4, <2>1 DEF IInv, MarkersLast
  <2>4. \A d \in Cameras : /\ \A i \in DOMAIN queue'[d] : queue'[d][i] = End => i = Len(queue'[d])
                           /\ worker'[d].at = "done" => queue'[d] = <<>>
    BY <1>3, <1>4, BusinessIsNone DEF IInv, MarkersLast
  <2> QED
    BY <1>4, <2>2, <2>3, <2>4 DEF MarkersLast
<1>12. EndsInOrder'
  BY <1>1, VerdictStands DEF IInv
<1>13. PICK n \in Nat : n = Len(queue'[b]) /\ Len(queue[b]) = n + 1
  BY <1>3
<1>14. DOMAIN queue'[b] = 1 .. n /\ \A i \in 1 .. n : i + 1 \in DOMAIN queue[b] /\ queue'[b][i] = queue[b][i + 1]
  BY <1>3, <1>13
<1>15. Undrained' = Undrained /\ \A y : Straggler(y)' <=> Straggler(y)
  BY <1>1 DEF Undrained, Straggler
<1>16. Behind'
  <2>1. ASSUME NEW i \in 1 .. n, NEW j \in 1 .. n, i < j, queue'[b][i] = End
        PROVE  Straggler(queue'[b][j])
    <3>1. i + 1 < j + 1
      BY <2>1
    <3> QED
      BY <1>14, <2>1, <3>1 DEF IInv, Behind
  <2>2. ASSUME item = End, NEW y \in Contents(b)'
        PROVE  Straggler(y)
    <3>1. PICK j \in 1 .. n : y = queue'[b][j]
      BY <1>14, <2>2 DEF Contents
    <3>2. 1 < j + 1
      OBVIOUS
    <3> QED
      BY <1>3, <1>14, <2>2, <3>1, <3>2 DEF IInv, Behind
  <2> QED
    BY <1>1, <1>10, <1>14, <1>15, <2>1, <2>2 DEF IInv, Behind
<1>17. Counted'
  <2> SUFFICES ASSUME closing[b] # "open"
               PROVE  Counted'
    BY <1>1 DEF Counted
  <2>1. Forwarding' = Forwarding /\ late \in Nat
    BY <1>2, <1>4, BusinessIsNone DEF Forwarding, TypeOK
  <2>2. PICK f \in Nat, u \in Nat : f = Cardinality(Forwarding) /\ u = Cardinality(Undrained)
    BY CamerasCounted
  <2>3. /\ f <= late + u
        /\ \A i \in DOMAIN queue[b] : queue[b][i] = End => f + (n + 1) - i <= late + u
    BY <1>13, <2>2 DEF IInv, Counted
  <2>4. ASSUME NEW i \in 1 .. n, queue'[b][i] = End
        PROVE  f + n - i <= late + u
    <3>1. f + (n + 1) - (i + 1) <= late + u
      BY <1>14, <2>3, <2>4
    <3> QED
      BY <2>1, <2>2, <3>1
  <2>5. ASSUME item = End
        PROVE  f + n <= late + u
    <3>1. f + (n + 1) - 1 <= late + u
      BY <1>3, <2>3, <2>5
    <3> QED
      BY <2>1, <2>2, <3>1
  <2> QED
    BY <1>1, <1>10, <1>13, <1>14, <1>15, <2>1, <2>2, <2>3, <2>4, <2>5 DEF Counted
<1>18. SinksAccounted'
  <2>1. \A x : \A s \in Sinks : Turned(x, s)' <=> Turned(x, s)
    BY <1>1, <1>4, <1>6 DEF Turned
  <2>2. Missed' = Missed
    BY <1>1, <2>1 DEF Missed
  <2> QED
    BY <1>1, <2>1, <2>2 DEF IInv, SinksAccounted
<1> QED
  BY <1>5, <1>8, <1>11, <1>12, <1>16, <1>17, <1>18 DEF IInv

(* One sink has its turn: it takes the event or raises on it.              *)
LEMMA HandleKeeps ==
  ASSUME IInv, NEW s \in Sinks, Handle(s), UNCHANGED stopAll
  PROVE  IInv'
<1> USE DeliveryAssumption
<1> DEFINE x == worker[Business].item
<1>1. /\ worker[Business].at = "handle" /\ s \in worker[Business].left
      /\ worker' = [ worker EXCEPT ![Business].left = @ \ {s} ]
      /\ \/ got' = [ got EXCEPT ![s] = @ \cup {x} ] /\ sinkErrors' = sinkErrors
         \/ got' = got /\ sinkErrors' = sinkErrors + 1
      /\ UNCHANGED <<queue, closing, published, ended, handled, late, outcome, stopAll>>
  BY DEF Handle, SinkTakes, SinkFails
<1>2. Business \in Buses /\ TypeOK
  BY BusinessIsNone DEF IInv
<1>3. /\ worker' \in [ Buses -> [ at : Steps, item : Item, left : SUBSET Sinks ] ]
      /\ \A d \in Buses : d # Business => worker'[d] = worker[d]
      /\ worker'[Business].at = worker[Business].at /\ worker'[Business].item = x
      /\ worker'[Business].left = worker[Business].left \ {s}
  BY <1>1, <1>2 DEF TypeOK, Steps, Item
<1>4. Held(Business) = {x} /\ \A d \in Buses : Held(d)' = Held(d) /\ worker'[d].at = worker[d].at
  BY <1>1, <1>3 DEF Held
<1> HIDE DEF x
<1>5. x \in Event
  BY <1>2, <1>4 DEF IInv, Conserved
<1>6. x \notin handled
  BY <1>4 DEF IInv, Conserved
<1>7. TypeOK'
  <2>1. sinkErrors' \in Nat
    BY <1>1, <1>2 DEF TypeOK
  <2>2. got' \in [ Sinks -> SUBSET Event ]
    BY <1>1, <1>2, <1>5 DEF TypeOK
  <2> QED
    BY <1>1, <1>3, <2>1, <2>2 DEF IInv, TypeOK, Steps, Item
<1>8. /\ Station' = Station /\ \A d \in Buses : Contents(d)' = Contents(d)
      /\ \A d \in Cameras : Arm(d)' = Arm(d) /\ Published(d)' = Published(d)
  BY <1>1, <1>2, <1>4, BusinessIsNone DEF Station, Contents, Arm, Published
<1>9. Conserved'
  BY <1>1, <1>2, <1>4, <1>8, BusinessIsNone DEF IInv, Conserved, ArmSound
<1>10. MarkersLast'
  BY <1>1, <1>2, <1>4, <1>8, BusinessIsNone DEF IInv, MarkersLast
<1>11. EndsInOrder'
  BY <1>1, VerdictStands DEF IInv
<1>12. Behind' /\ Counted'
  <2>1. Forwarding' = Forwarding
    BY <1>4, BusinessIsNone DEF Forwarding
  <2> QED
    BY <1>1, <1>3, <2>1, MarkerStands DEF IInv
<1>13. SinksAccounted'
  <2>1. \A y : \A t \in Sinks : Turned(y, t)' <=> Turned(y, t) \/ (y = x /\ t = s)
    BY <1>1, <1>3, <1>4 DEF Turned
  <2>2. ~ Turned(x, s)
    BY <1>1, <1>6 DEF Turned
  <2>3. x \notin got[s]
    BY <2>2 DEF IInv, SinksAccounted
  <2>4. <<x, s>> \in Event \X Sinks /\ <<x, s>> \notin Missed
    BY <1>5, <2>2 DEF Missed
  <2>5. ASSUME got' = [ got EXCEPT ![s] = @ \cup {x} ], sinkErrors' = sinkErrors
        PROVE  SinksAccounted'
    <3>1. /\ got'[s] = got[s] \cup {x} /\ \A t \in Sinks : t # s => got'[t] = got[t]
      BY <1>2, <2>5 DEF TypeOK
    <3>2. \A y : \A t \in Sinks : Turned(y, t)' /\ y \notin got'[t] <=> Turned(y, t) /\ y \notin got[t]
      BY <2>1, <2>2, <3>1
    <3>3. Missed' = Missed
      BY <3>2 DEF Missed
    <3> QED
      BY <2>1, <2>5, <3>1, <3>3 DEF IInv, SinksAccounted
  <2>6. ASSUME got' = got, sinkErrors' = sinkErrors + 1
        PROVE  SinksAccounted'
    <3>1. Missed' = Missed \cup {<<x, s>>}
      BY <2>1, <2>3, <2>4, <2>6 DEF Missed
    <3>2. IsFiniteSet(Missed') /\ Cardinality(Missed') = Cardinality(Missed) + 1
      BY <2>4, <3>1, FS_AddElement DEF IInv, SinksAccounted
    <3> QED
      BY <2>1, <2>6, <3>2 DEF IInv, SinksAccounted
  <2> QED
    BY <1>1, <2>5, <2>6 DEF x
<1> QED
  BY <1>7, <1>9, <1>10, <1>11, <1>12, <1>13 DEF IInv

LEMMA HandledKeeps ==
  ASSUME IInv, Handled, UNCHANGED stopAll
  PROVE  IInv'
<1> USE DeliveryAssumption
<1> DEFINE x == worker[Business].item
<1>1. /\ worker[Business].at = "handle" /\ worker[Business].left = {}
      /\ handled' = handled \cup {x} /\ WorkerGoes(Business, "get")
      /\ UNCHANGED <<queue, closing, published, ended, got, sinkErrors, late, outcome, stopAll>>
  BY DEF Handled
<1>2. Business \in Buses /\ TypeOK /\ "get" \in Steps
  BY BusinessIsNone DEF IInv, Steps
<1>3. /\ worker' \in [ Buses -> [ at : Steps, item : Item, left : SUBSET Sinks ] ]
      /\ \A d \in Buses : d # Business => worker'[d] = worker[d] /\ Held(d)' = Held(d)
      /\ worker'[Business].at = "get"
  BY <1>1, <1>2, WorkerMoves
<1>4. Held(Business) = {x} /\ Held(Business)' = {}
  BY <1>1, <1>3 DEF Held
<1> HIDE DEF x
<1>5. x \in Event
  BY <1>2, <1>4 DEF IInv, Conserved
<1>6. TypeOK'
  BY <1>1, <1>3, <1>5 DEF IInv, TypeOK, Steps, Item
<1>7. /\ Station' = Station /\ \A d \in Buses : Contents(d)' = Contents(d)
      /\ \A d \in Cameras : Arm(d)' = Arm(d) /\ Published(d)' = Published(d) /\ Held(d)' = Held(d)
  BY <1>1, <1>2, <1>3, <1>4, BusinessIsNone DEF Station, Contents, Arm, Published
<1>8. Conserved'
  <2>1. \A d \in Cameras : ArmSound(d)'
    BY <1>7, BusinessIsNone DEF IInv, Conserved, ArmSound
  <2> QED
    BY <1>1, <1>2, <1>3, <1>4, <1>7, <2>1 DEF IInv, Conserved
<1>9. MarkersLast'
  <2>1. closing[Business] # "drained"
    BY <1>1, <1>2 DEF IInv, MarkersLast
  <2> QED
    BY <1>1, <1>2, <1>3, <1>7, <2>1, BusinessIsNone DEF IInv, MarkersLast
<1>10. EndsInOrder'
  BY <1>1, VerdictStands DEF IInv
<1>11. Behind' /\ Counted'
  <2>1. Forwarding' = Forwarding /\ Undrained' = Undrained
    BY <1>1, <1>3, BusinessIsNone DEF Forwarding, Undrained
  <2>2. \A y : Straggler(y)' <=> Straggler(y)
    BY <2>1 DEF Straggler
  <2> QED
    BY <1>1, <1>2, <1>3, <1>7, <2>1, <2>2 DEF IInv, Behind, Counted
<1>12. SinksAccounted'
  <2>1. \A y : \A t \in Sinks : Turned(y, t)' <=> Turned(y, t)
    BY <1>1, <1>4 DEF Turned
  <2>2. Missed' = Missed
    BY <1>1, <2>1 DEF Missed
  <2> QED
    BY <1>1, <2>1, <2>2 DEF IInv, SinksAccounted
<1> QED
  BY <1>6, <1>8, <1>9, <1>10, <1>11, <1>12 DEF IInv

-----------------------------------------------------------------------------
(* The shutdowns.                                                          *)

States == {"open", "flagged", "join", "drained", "undrained"}

(* While a bus has not shut down, nothing that waits for it has begun.     *)
LEMMA StillRunning ==
  ASSUME EndsInOrder, NEW b \in Buses, ~ Returned(b)
  PROVE  outcome = "running" /\ (b \in Cameras => closing[Business] = "open")
<1>1. CASE b \in Cameras
  <2>1. closing[Business] = "open"
    BY <1>1 DEF EndsInOrder
  <2> QED
    BY <2>1 DEF EndsInOrder, Returned
<1>2. CASE b = Business
  BY <1>2, BusinessIsNone DEF EndsInOrder
<1> QED
  BY <1>1, <1>2 DEF Buses

LEMMA ClosingMoves ==
  ASSUME TypeOK, EndsInOrder, NEW b \in Buses, ~ Returned(b), NEW at \in States, ClosingGoes(b, at),
         at # "open", closing[b] = "open" => MayShutDown(b), UNCHANGED <<ended, outcome>>
  PROVE  /\ closing' \in [ Buses -> States ] /\ closing'[b] = at
         /\ \A d \in Buses : d # b => closing'[d] = closing[d]
         /\ EndsInOrder'
<1>1. closing \in [ Buses -> States ]
  BY DEF TypeOK, States
<1>2. /\ closing' \in [ Buses -> States ] /\ closing'[b] = at
      /\ \A d \in Buses : d # b => closing'[d] = closing[d]
  BY <1>1 DEF ClosingGoes
<1>3. outcome = "running" /\ (b \in Cameras => closing[Business] = "open")
  BY StillRunning
<1>4. \A c \in Cameras : closing'[c] # "open" => ended'[c] # "running"
  BY <1>2, BusinessIsNone DEF EndsInOrder, MayShutDown
<1>5. ASSUME closing'[Business] # "open", NEW c \in Cameras
      PROVE  Returned(c)'
  <2>1. b = Business
    BY <1>2, <1>3, <1>5, BusinessIsNone DEF Buses
  <2>2. Returned(c)
    BY <2>1 DEF EndsInOrder, MayShutDown
  <2> QED
    BY <1>2, <2>1, <2>2, BusinessIsNone DEF Returned
<1> QED
  BY <1>2, <1>3, <1>4, <1>5 DEF EndsInOrder

LEMMA BeginShutdownKeeps ==
  ASSUME IInv, NEW b \in Buses, BeginShutdown(b), UNCHANGED stopAll
  PROVE  IInv'
<1>1. /\ closing[b] = "open" /\ MayShutDown(b) /\ ClosingGoes(b, "flagged")
      /\ UNCHANGED <<queue, worker, published, ended, got, sinkErrors, handled, late, outcome, stopAll>>
  BY DEF BeginShutdown
<1>2. TypeOK /\ EndsInOrder /\ Business \in Buses /\ "flagged" \in States /\ ~ Returned(b)
  BY <1>1, BusinessIsNone DEF IInv, States, Returned
<1>3. /\ closing' \in [ Buses -> States ] /\ closing'[b] = "flagged"
      /\ \A d \in Buses : d # b => closing'[d] = closing[d]
      /\ EndsInOrder'
  BY <1>1, <1>2, ClosingMoves
<1>4. TypeOK'
  BY <1>1, <1>3 DEF IInv, TypeOK, States
<1>5. /\ Station' = Station
      /\ \A d : Contents(d)' = Contents(d) /\ Held(d)' = Held(d) /\ Arm(d)' = Arm(d)
                  /\ Published(d)' = Published(d)
  BY <1>1 DEF Station, Contents, Held, Arm, Published
<1>6. Conserved'
  BY <1>1, <1>5 DEF IInv, Conserved, ArmSound
<1>7. MarkersLast'
  BY <1>1, <1>3, <1>5 DEF IInv, MarkersLast
<1>8. /\ Undrained' = Undrained /\ Forwarding' = Forwarding
      /\ \A y : Straggler(y)' <=> Straggler(y)
  <2>1. Undrained' = Undrained /\ Forwarding' = Forwarding
    BY <1>1, <1>3, BusinessIsNone DEF Undrained, Forwarding
  <2> QED
    BY <2>1 DEF Straggler
<1>9. Behind'
  BY <1>1, <1>5, <1>8 DEF IInv, Behind
<1>10. Counted'
  <2>1. CASE b \in Cameras
    <3>1. closing'[Business] = "open"
      BY <1>2, <1>3, <2>1, StillRunning, BusinessIsNone
    <3> QED
      BY <3>1 DEF Counted
  <2>2. CASE b = Business
    <3>1. \A c \in Cameras : Returned(c)
      BY <1>1, <2>2 DEF MayShutDown
    <3>2. Forwarding \subseteq Undrained
      BY <3>1, BusinessIsNone DEF Forwarding, Undrained, Returned, IInv, MarkersLast
    <3>3. Cardinality(Forwarding) <= Cardinality(Undrained)
      BY <3>2, CamerasCounted, FS_Subset
    <3>4. PICK f \in Nat, u \in Nat : f = Cardinality(Forwarding) /\ u = Cardinality(Undrained)
      BY CamerasCounted
    <3>5. f <= late + u /\ late \in Nat
      BY <1>2, <3>3, <3>4 DEF TypeOK
    <3>6. worker[Business].at # "done" /\ \A i \in DOMAIN queue[Business] : queue[Business][i] # End
      BY <1>1, <2>2, BusinessIsNone DEF IInv, MarkersLast, Contents
    <3> QED
      BY <1>1, <1>8, <3>4, <3>5, <3>6 DEF Counted
  <2> QED
    BY <2>1, <2>2 DEF Buses
<1>11. SinksAccounted'
  BY <1>1, SinksStand DEF IInv
<1> QED
  BY <1>3, <1>4, <1>6, <1>7, <1>9, <1>10, <1>11 DEF IInv

LEMMA PutEndKeeps ==
  ASSUME IInv, NEW b \in Buses, PutEnd(b), UNCHANGED stopAll
  PROVE  IInv'
<1> USE DeliveryAssumption
<1>1. /\ closing[b] = "flagged" /\ HasRoom(b) /\ PutOn(b, End) /\ ClosingGoes(b, "join")
      /\ UNCHANGED <<worker, published, ended, got, sinkErrors, handled, late, outcome, stopAll>>
  BY DEF PutEnd
<1>2. /\ TypeOK /\ EndsInOrder /\ Business \in Buses /\ "join" \in States /\ ~ Returned(b)
      /\ End \in Item
  BY <1>1, BusinessIsNone DEF IInv, States, Returned, Item
<1>3. /\ closing' \in [ Buses -> States ] /\ closing'[b] = "join"
      /\ \A d \in Buses : d # b => closing'[d] = closing[d]
      /\ EndsInOrder'
  BY <1>1, <1>2, ClosingMoves
<1>4. /\ queue' \in [ Buses -> Seq(Item) ] /\ \A d \in Buses : Len(queue'[d]) <= Capacity(d)
      /\ \A d \in Buses : d # b => queue'[d] = queue[d] /\ Contents(d)' = Contents(d)
      /\ Contents(b)' = Contents(b) \cup {End}
      /\ Len(queue'[b]) = Len(queue[b]) + 1 /\ DOMAIN queue'[b] = 1 .. Len(queue[b]) + 1
      /\ \A i \in 1 .. Len(queue[b]) : queue'[b][i] = queue[b][i]
      /\ queue'[b][Len(queue[b]) + 1] = End
      /\ Distinct(queue[b]) /\ End \notin Contents(b) => Distinct(queue'[b])
  BY <1>1, <1>2, QueueGrows
<1>5. End \notin Contents(b) /\ worker[b].at # "done"
  BY <1>1 DEF IInv, MarkersLast
<1>6. PICK n \in Nat : n = Len(queue[b]) /\ DOMAIN queue[b] = 1 .. n
  BY <1>2, QueueTyped
<1>7. \A i \in 1 .. n + 1 : queue'[b][i] = End => i = n + 1
  <2>1. \A i \in 1 .. n : queue'[b][i] # End
    BY <1>4, <1>5, <1>6 DEF Contents
  <2> QED
    BY <2>1
<1>8. TypeOK'
  BY <1>1, <1>3, <1>4 DEF IInv, TypeOK, States, Item
<1>9. /\ \A d \in Buses : Held(d)' = Held(d) /\ End \notin Held(d)
      /\ \A d : Published(d)' = Published(d)
      /\ End \notin handled
  BY <1>1, <1>2, EndIsNone DEF Held, IInv, Conserved, Published, TypeOK
<1>10. Station \subseteq Station' /\ Station' \subseteq Station \cup {End}
  BY <1>1, <1>2, <1>4, <1>9 DEF Station
<1>11. Conserved'
  <2>1. \A d \in Buses : Distinct(queue'[d]) /\ Held(d)' \subseteq Event
    BY <1>4, <1>5, <1>9 DEF IInv, Conserved
  <2>2. ASSUME NEW d \in Cameras
        PROVE  ArmSound(d)'
    <3>1. ArmSound(d) /\ d \in Buses /\ Contents(d) \subseteq Contents(d)'
          /\ Contents(d)' \subseteq Contents(d) \cup {End}
      BY <1>4, BusinessIsNone DEF IInv, Conserved
    <3>2. Held(d)' = Held(d) /\ End \notin Held(d) /\ Published(d)' = Published(d)
      BY <1>9, <3>1
    <3>3. Arm(d) \subseteq Arm(d)' /\ Arm(d)' \subseteq Arm(d) \cup {End}
      BY <3>1, <3>2 DEF Arm
    <3>4. End \notin {d} \X (1 .. EventsPer)
      BY DEF End
    <3> QED
      BY <1>10, <3>1, <3>2, <3>3, <3>4 DEF ArmSound
  <2>3. Contents(Business)' \subseteq Contents(Business) \cup {End}
    BY <1>2, <1>4
  <2> QED
    BY <1>1, <1>2, <1>9, <2>1, <2>2, <2>3 DEF IInv, Conserved
<1>12. MarkersLast'
  <2>1. \A d \in Buses : closing'[d] \in {"open", "flagged"} => End \notin Contents(d)' /\ worker'[d].at # "done"
    BY <1>1, <1>3, <1>4 DEF IInv, MarkersLast
  <2>2. \A d \in Buses : closing'[d] = "drained" => worker'[d].at = "done"
    BY <1>1, <1>3 DEF IInv, MarkersLast
  <2>3. \A d \in Cameras : /\ \A i \in DOMAIN queue'[d] : queue'[d][i] = End => i = Len(queue'[d])
                           /\ worker'[d].at = "done" => queue'[d] = <<>>
    BY <1>1, <1>4, <1>5, <1>6, <1>7, BusinessIsNone DEF IInv, MarkersLast
  <2> QED
    BY <1>1, <2>1, <2>2, <2>3 DEF IInv, MarkersLast
<1>13. /\ Undrained' = Undrained /\ Forwarding' = Forwarding
       /\ \A y : Straggler(y)' <=> Straggler(y)
  <2>1. Undrained' = Undrained /\ Forwarding' = Forwarding
    BY <1>1, <1>3, BusinessIsNone DEF Undrained, Forwarding
  <2> QED
    BY <2>1 DEF Straggler
<1>14. Behind' /\ Counted'
  <2>1. CASE b \in Cameras
    <3>1. closing[Business] = "open" /\ closing'[Business] = "open"
      BY <1>2, <1>3, <2>1, StillRunning, BusinessIsNone
    <3>2. Counted'
      BY <3>1 DEF Counted
    <3>3. queue'[Business] = queue[Business] /\ Contents(Business)' = Contents(Business)
      BY <1>2, <1>4, <2>1, BusinessIsNone
    <3> QED
      BY <1>1, <1>13, <3>2, <3>3 DEF IInv, Behind
  <2>2. CASE b = Business
    <3>1. \A i, j \in 1 .. n + 1 : i < j => queue'[b][i] # End
      BY <1>7
    <3>2. Behind'
      BY <1>1, <1>4, <1>5, <1>6, <1>13, <2>2, <3>1 DEF IInv, Behind
    <3>3. PICK f \in Nat, u \in Nat : f = Cardinality(Forwarding) /\ u = Cardinality(Undrained)
      BY CamerasCounted
    <3>4. f <= late + u /\ late \in Nat
      BY <1>1, <1>2, <2>2, <3>3 DEF IInv, Counted, TypeOK
    <3>5. \A i \in 1 .. n + 1 : queue'[b][i] = End => f + (n + 1) - i <= late + u
      BY <1>7, <3>3, <3>4
    <3> QED
      BY <1>1, <1>4, <1>5, <1>6, <1>13, <2>2, <3>2, <3>3, <3>4, <3>5 DEF Counted
  <2> QED
    BY <2>1, <2>2 DEF Buses
<1>15. SinksAccounted'
  BY <1>1, SinksStand DEF IInv
<1> QED
  BY <1>3, <1>8, <1>11, <1>12, <1>14, <1>15 DEF IInv

LEMMA JoinKeeps ==
  ASSUME IInv, NEW b \in Buses, Join(b), UNCHANGED stopAll
  PROVE  IInv'
<1> DEFINE at == IF worker[b].at = "done" THEN "drained" ELSE "undrained"
<1>1. /\ closing[b] = "join" /\ ClosingGoes(b, at)
      /\ UNCHANGED <<queue, worker, published, ended, got, sinkErrors, handled, late, outcome, stopAll>>
  BY DEF Join
<1>2. /\ TypeOK /\ EndsInOrder /\ Business \in Buses /\ ~ Returned(b)
      /\ at \in States /\ at # "open" /\ at \in {"drained", "undrained"}
      /\ at = "drained" => worker[b].at = "done"
  BY <1>1, BusinessIsNone DEF IInv, States, Returned
<1> HIDE DEF at
<1>3. /\ closing' \in [ Buses -> States ] /\ closing'[b] = at
      /\ \A d \in Buses : d # b => closing'[d] = closing[d]
      /\ EndsInOrder'
  BY <1>1, <1>2, ClosingMoves
<1>4. TypeOK'
  BY <1>1, <1>3 DEF IInv, TypeOK, States
<1>5. /\ Station' = Station
      /\ \A d : Contents(d)' = Contents(d) /\ Held(d)' = Held(d) /\ Arm(d)' = Arm(d)
                  /\ Published(d)' = Published(d)
  BY <1>1 DEF Station, Contents, Held, Arm, Published
<1>6. Conserved'
  BY <1>1, <1>5 DEF IInv, Conserved, ArmSound
<1>7. MarkersLast'
  BY <1>1, <1>2, <1>3, <1>5 DEF IInv, MarkersLast
<1>8. Undrained \subseteq Undrained' /\ Forwarding' = Forwarding
  BY <1>1, <1>3, BusinessIsNone DEF Undrained, Forwarding
<1>9. \A y : Straggler(y) => Straggler(y)'
  BY <1>8 DEF Straggler
<1>10. Behind'
  BY <1>1, <1>5, <1>8, <1>9 DEF IInv, Behind
<1>11. Counted'
  <2>1. CASE b \in Cameras
    <3>1. closing'[Business] = "open"
      BY <1>2, <1>3, <2>1, StillRunning, BusinessIsNone
    <3> QED
      BY <3>1 DEF Counted
  <2>2. CASE b = Business
    <3>1. Undrained' = Undrained
      BY <1>3, <2>2, BusinessIsNone DEF Undrained
    <3> QED
      BY <1>1, <1>8, <2>2, <3>1 DEF IInv, Counted
  <2> QED
    BY <2>1, <2>2 DEF Buses
<1>12. SinksAccounted'
  BY <1>1, SinksStand DEF IInv
<1> QED
  BY <1>3, <1>4, <1>6, <1>7, <1>10, <1>11, <1>12 DEF IInv

LEMMA ConcludeKeeps ==
  ASSUME IInv, Conclude, UNCHANGED stopAll
  PROVE  IInv'
<1>1. /\ Returned(Business) /\ outcome' = Verdict
      /\ UNCHANGED <<queue, worker, closing, published, ended, got, sinkErrors, handled, late, stopAll>>
  BY DEF Conclude
<1>2. TypeOK'
  <2>1. Verdict \in {"clean", "failed", "restart"}
    BY DEF Verdict
  <2> QED
    BY <1>1, <2>1 DEF IInv, TypeOK
<1>3. /\ Station' = Station /\ Forwarding' = Forwarding
      /\ \A d : Contents(d)' = Contents(d) /\ Held(d)' = Held(d) /\ Arm(d)' = Arm(d)
                  /\ Published(d)' = Published(d)
  BY <1>1 DEF Station, Contents, Held, Arm, Published, Forwarding
<1>4. Conserved' /\ MarkersLast'
  BY <1>1, <1>3 DEF IInv, Conserved, ArmSound, MarkersLast
<1>5. EndsInOrder'
  <2>1. Verdict' = Verdict
    BY <1>1 DEF Verdict, Tolerable, ArmFailed, Escalated
  <2> QED
    BY <1>1, <2>1 DEF IInv, EndsInOrder, Returned
<1>6. Behind' /\ Counted' /\ SinksAccounted'
  BY <1>1, <1>3, MarkerStands, SinksStand DEF IInv
<1> QED
  BY <1>2, <1>4, <1>5, <1>6 DEF IInv

-----------------------------------------------------------------------------
LEMMA StepIInv == IInv /\ [Next]_vars => IInv'
<1> SUFFICES ASSUME IInv, [Next]_vars PROVE IInv'
  OBVIOUS
<1>1. CASE UNCHANGED vars
  <2>1. UNCHANGED <<stopAll, queue, worker, closing, published, ended, got, sinkErrors,
                    handled, late, outcome>>
    BY <1>1 DEF vars
  <2>2. /\ Station' = Station /\ Forwarding' = Forwarding
        /\ \A d : Contents(d)' = Contents(d) /\ Held(d)' = Held(d) /\ Arm(d)' = Arm(d)
                    /\ Published(d)' = Published(d)
    BY <2>1 DEF Station, Contents, Held, Arm, Published, Forwarding
  <2>3. TypeOK' /\ Conserved' /\ MarkersLast'
    BY <2>1, <2>2 DEF IInv, TypeOK, Conserved, ArmSound, MarkersLast
  <2>4. EndsInOrder' /\ Behind' /\ Counted' /\ SinksAccounted'
    BY <2>1, <2>2, VerdictStands, MarkerStands, SinksStand DEF IInv
  <2> QED
    BY <2>3, <2>4 DEF IInv
<1>2. ASSUME Step, UNCHANGED stopAll
      PROVE  IInv'
  <2>1. ASSUME NEW c \in Cameras, Publish(c)
        PROVE  IInv'
    BY <1>2, <2>1, PublishKeeps
  <2>2. ASSUME NEW c \in Cameras, PipelineEnds(c)
        PROVE  IInv'
    BY <1>2, <2>2, PipelineEndsKeeps
  <2>3. ASSUME NEW b \in Buses, WorkerStep(b)
        PROVE  IInv'
    <3>1. CASE Get(b)
      BY <1>2, <3>1, GetArmKeeps, GetStationKeeps DEF Buses
    <3>2. CASE b \in Cameras /\ (Forward(b) \/ Forwarded(b))
      BY <1>2, <3>2, ForwardKeeps, ForwardedKeeps
    <3>3. CASE b = Business /\ Handled
      BY <1>2, <3>3, HandledKeeps
    <3> QED
      BY <2>3, <3>1, <3>2, <3>3 DEF WorkerStep
  <2>4. ASSUME NEW b \in Buses, ShutdownStep(b)
        PROVE  IInv'
    BY <1>2, <2>4, BeginShutdownKeeps, PutEndKeeps, JoinKeeps DEF ShutdownStep
  <2>5. CASE SinkStep
    BY <1>2, <2>5, HandleKeeps DEF SinkStep
  <2>6. CASE Conclude
    BY <1>2, <2>6, ConcludeKeeps
  <2> QED
    BY <1>2, <2>1, <2>2, <2>3, <2>4, <2>5, <2>6 DEF Step
<1> QED
  BY <1>1, <1>2 DEF Next, Done

(* Events, end markers and counters are accounted for in every reachable   *)
(* state: an event is published once and is in one place from the arm's    *)
(* queue to the station's sinks.                                           *)
THEOREM DeliveryInvariance == Spec => []IInv
<1> QED
  BY InitIInv, StepIInv, PTL DEF Spec

(* An event of an arm whose bus drained has been handled when the business *)
(* bus has drained: it cannot be in the arm, which is empty, nor behind    *)
(* the end marker, where only undrained arms put.                          *)
LEMMA DrainedArmsAreHandled ==
  ASSUME IInv, NEW c \in Cameras, closing[c] = "drained", closing[Business] = "drained"
  PROVE  Published(c) \subseteq handled
<1>1. c \in Buses /\ c # Business /\ Business \in Buses /\ TypeOK
  BY BusinessIsNone DEF IInv
<1>2. worker[c].at = "done" /\ worker[Business].at = "done"
  BY <1>1 DEF IInv, MarkersLast
<1>3. Arm(c) = {}
  <2>1. Contents(c) = {}
    BY <1>1, <1>2, QueueTyped DEF IInv, MarkersLast
  <2> QED
    BY <1>2, <2>1 DEF Arm, Held
<1>4. Published(c) \subseteq Contents(Business) \cup handled
  BY <1>2, <1>3 DEF IInv, Conserved, ArmSound, Station, Held
<1>5. \A x \in Contents(Business) : x \notin Published(c)
  <2> SUFFICES ASSUME NEW x \in Contents(Business), x \in Published(c)
               PROVE  FALSE
    OBVIOUS
  <2>1. PICK d \in Undrained : x \in {d} \X (1 .. EventsPer)
    BY <1>2 DEF IInv, Behind, Straggler
  <2>2. x[1] = d /\ x[1] = c
    BY <2>1 DEF Published
  <2> QED
    BY <2>2 DEF Undrained
<1> QED
  BY <1>4, <1>5

LEMMA InvariantImpliesDelivery == IInv => CleanRunLostNothing
<1> SUFFICES ASSUME IInv PROVE CleanRunLostNothing
  OBVIOUS
<1>1. ASSUME outcome = "clean", NEW c \in Cameras, stopAll \/ ~ ArmFailed(c)
      PROVE  { <<c, n>> : n \in 1 .. published[c] } \subseteq handled
  <2>1. Verdict = "clean" /\ Returned(Business)
    BY <1>1 DEF IInv, EndsInOrder
  <2>2. closing[Business] = "drained" /\ (stopAll => \A d \in Cameras : ~ ArmFailed(d))
    BY <2>1 DEF Verdict, Tolerable
  <2>3. ~ ArmFailed(c)
    BY <1>1, <2>2
  <2>4. Returned(c)
    BY <2>2 DEF IInv, EndsInOrder
  <2>5. closing[c] = "drained"
    BY <2>3, <2>4 DEF ArmFailed, Returned
  <2> QED
    BY <2>2, <2>5, DrainedArmsAreHandled DEF Published
<1>2. outcome # "running" /\ (\E c \in Cameras : Escalated(c)) => outcome = "restart"
  <2> SUFFICES ASSUME outcome # "running", NEW c \in Cameras, Escalated(c)
               PROVE  outcome = "restart"
    OBVIOUS
  <2>1. ArmFailed(c)
    BY DEF ArmFailed, Escalated
  <2> QED
    BY <2>1 DEF IInv, EndsInOrder, Verdict, Tolerable
<1>3. late > 0 => \E c \in Cameras : closing[c] = "undrained"
  BY DEF IInv, Behind, Undrained
<1>4. ASSUME NEW i \in DOMAIN queue[Business], queue[Business][i] = End
      PROVE  Len(queue[Business]) - i <= late + Cardinality({ c \in Cameras : closing[c] = "undrained" })
  <2>1. closing[Business] # "open"
    BY <1>4, BusinessIsNone DEF IInv, MarkersLast, Contents
  <2>2. PICK f \in Nat, u \in Nat, n \in Nat :
          f = Cardinality(Forwarding) /\ u = Cardinality(Undrained) /\ n = Len(queue[Business])
    BY BusinessIsNone, CamerasCounted, QueueTyped DEF IInv
  <2>3. f + n - i <= late + u /\ i \in Nat /\ late \in Nat
    BY <1>4, <2>1, <2>2, BusinessIsNone, QueueTyped DEF IInv, Counted, TypeOK
  <2>4. n - i <= late + u
    BY <2>2, <2>3
  <2> QED
    BY <2>2, <2>4 DEF Undrained
<1>5. ASSUME worker[Business].at # "handle"
      PROVE  sinkErrors = Cardinality({ x \in handled \X Sinks : x[1] \notin got[x[2]] })
  <2>1. Held(Business) = {} /\ handled \subseteq Event
    BY <1>5 DEF Held, IInv, MarkersLast, TypeOK
  <2>2. { x \in handled \X Sinks : x[1] \notin got[x[2]] } = Missed
    BY <2>1 DEF Missed, Turned
  <2> QED
    BY <2>2 DEF IInv, SinksAccounted
<1> QED
  BY <1>1, <1>2, <1>3, <1>4, <1>5 DEF CleanRunLostNothing

(* A clean run has handled every event its arms published and hides no     *)
(* escalation; what is behind the end marker is counted, but for one of    *)
(* each bus that did not drain; and every sink took or refused every event.*)
THEOREM CleanRunsLoseNothing == Spec => []CleanRunLostNothing
<1> QED
  BY DeliveryInvariance, InvariantImpliesDelivery, PTL

(***************************************************************************)
(* Part 2.  The processes, for any number of supervisors, writers and      *)
(* requests: there is one writer at a time, a stop the script has verified *)
(* is true, and one request never cuts a drain short.                      *)
(***************************************************************************)

SupRec ==
  [ at : {"none", "lock", "startup", "spawn", "watch", "grace", "backoff", "settle"},
    child : Writers \cup {Nobody}, level : 0 .. MaxLevel,
    stop : BOOLEAN, forward : BOOLEAN ]

WriterRec ==
  [ at : {"dead", "start", "construct", "run", "drain", "buried"},
    clean : BOOLEAN, signalled : BOOLEAN, forced : BOOLEAN,
    job : BOOLEAN, parent : Sups \cup {Nobody} ]

Typed ==
  /\ windows \in BOOLEAN /\ latch \in BOOLEAN
  /\ sup \in [ Sups -> SupRec ]
  /\ writer \in [ Writers -> WriterRec ]

(* No two processes hold the writers' lock.                                *)
LockIsExclusive ==
  \A v, w \in Writers : HoldsWriterLock(v) /\ HoldsWriterLock(w) => v = w

(* Where children die with their supervisor, each living writer is the     *)
(* child of a supervisor that watches it.                                  *)
ChildrenAreWatched ==
  windows => \A w \in Writers : Alive(w) =>
    /\ writer[w].job /\ writer[w].parent \in Sups
    /\ sup[writer[w].parent].child = w
    /\ sup[writer[w].parent].at \in {"watch", "grace"}

(* Once the script has gone to wait the latch is there, and a verified     *)
(* stop has left no supervisor that could still spawn.                     *)
LatchIsHeld ==
  /\ script \in {"wait", "wait?", "hard", "kill writer", "kill supervisor",
                 "hard wait", "hard wait?", "stopped"} => latch
  /\ script = "stopped" => \A s \in Sups : sup[s].at \in {"none", "lock", "startup"}

ProcessInv == Typed /\ LockIsExclusive /\ ChildrenAreWatched /\ LatchIsHeld

-----------------------------------------------------------------------------
(* What happens to one writer.                                             *)

(* A signal never makes a writer start, scan or take the lock: it drains a *)
(* running one and ends the others.                                        *)
LEMMA SignalledType ==
  ASSUME NEW r \in WriterRec
  PROVE  /\ Signalled(r) \in WriterRec
         /\ Signalled(r).job = r.job /\ Signalled(r).parent = r.parent
         /\ \/ Signalled(r).at \in {r.at, "dead"}
            \/ r.at \in {"run", "drain"} /\ Signalled(r).at = "drain"
BY DEF WriterRec, Signalled, Dead

(* A kill ends a writer, wherever it is.                                   *)
LEMMA KilledType ==
  ASSUME NEW r \in WriterRec
  PROVE  /\ Killed(r) \in WriterRec
         /\ Killed(r).at \in {"dead", "buried"}
         /\ r.at = "start" => Killed(r).at = "dead"
BY DEF WriterRec, Killed

(* Steps in which no writer gains the lock.                                *)
NoneGains ==
  \A w \in Writers : writer[w].at \in {"dead", "start"} =>
    writer'[w].at \in {"dead", "start"}

(* The lock stays exclusive in a step in which nobody takes it.            *)
LEMMA ExclusionKept ==
  ASSUME Typed, Typed', LockIsExclusive, NoneGains
  PROVE  LockIsExclusive'
BY DEF Typed, LockIsExclusive, NoneGains, HoldsWriterLock, WriterRec

(* Steps after which every living writer has lived, as the same child of a *)
(* supervisor that watches as before.                                      *)
NoneIsBorn ==
  \A w \in Writers : Alive(w)' =>
    /\ Alive(w) /\ writer'[w].job = writer[w].job /\ writer'[w].parent = writer[w].parent
    /\ LET p == writer[w].parent
       IN  p \in Sups => /\ sup'[p].child = sup[p].child
                         /\ sup[p].at \in {"watch", "grace"} => sup'[p].at \in {"watch", "grace"}

(* Children stay watched in a step in which none is born.                  *)
LEMMA WatchKept ==
  ASSUME Typed, Typed', ChildrenAreWatched, NoneIsBorn, windows' = windows
  PROVE  ChildrenAreWatched'
BY DEF Typed, ChildrenAreWatched, NoneIsBorn

-----------------------------------------------------------------------------
(* The end of a supervisor's process.                                      *)
LEMMA SupGoneKeeps ==
  ASSUME Typed, ChildrenAreWatched, NEW s \in Sups, SupGone(s), UNCHANGED <<windows, latch>>
  PROVE  /\ Typed' /\ NoneGains /\ ChildrenAreWatched'
         /\ sup'[s].at = "none"
         /\ \A t \in Sups : t # s => sup'[t] = sup[t]
<1>1. NoSup \in SupRec
  <2>1. 0 \in 0 .. MaxLevel
    BY SupervisionAssumption
  <2> QED
    BY <2>1 DEF NoSup, SupRec
<1>2. sup' \in [ Sups -> SupRec ]
  BY <1>1 DEF SupGone, Typed
<1>3. ASSUME NEW w \in Writers
      PROVE  /\ writer'[w] \in WriterRec
             /\ writer'[w].at = writer[w].at \/ writer'[w].at \in {"dead", "buried"}
             /\ writer[w].at \in {"dead", "start"} => writer'[w].at \in {"dead", "start"}
             /\ writer[w].parent # s => writer'[w] = writer[w]
             /\ writer[w].parent = s /\ Alive(w) /\ writer[w].job => writer'[w].at \in {"dead", "buried"}
  <2> DEFINE orphan == [ writer[w] EXCEPT !.parent = Nobody ]
  <2>1. writer[w] \in WriterRec /\ orphan \in WriterRec /\ orphan.at = writer[w].at
    BY DEF Typed, WriterRec
  <2>2. writer'[w] = IF writer[w].parent # s THEN writer[w]
                     ELSE IF Alive(w) /\ writer[w].job THEN Killed(orphan) ELSE orphan
    BY DEF SupGone
  <2>3. /\ Killed(orphan) \in WriterRec /\ Killed(orphan).at \in {"dead", "buried"}
        /\ orphan.at = "start" => Killed(orphan).at = "dead"
    BY <2>1, KilledType
  <2> HIDE DEF orphan
  <2>4. Alive(w) => writer[w].at # "dead"
    BY DEF Alive, Scanning
  <2> QED
    BY <2>1, <2>2, <2>3, <2>4
<1>4. writer' \in [ Writers -> WriterRec ]
  <2>1. writer' = [ w \in Writers |-> writer'[w] ]
    BY DEF SupGone
  <2> QED
    BY <1>3, <2>1
<1>5. Typed'
  BY <1>2, <1>4 DEF Typed
<1>6. sup'[s].at = "none" /\ \A t \in Sups : t # s => sup'[t] = sup[t]
  BY DEF SupGone, NoSup, Typed
<1>7. ChildrenAreWatched'
  <2> SUFFICES ASSUME windows, NEW w \in Writers, Alive(w)'
               PROVE  /\ writer'[w].job /\ writer'[w].parent \in Sups
                      /\ sup'[writer'[w].parent].child = w
                      /\ sup'[writer'[w].parent].at \in {"watch", "grace"}
    BY DEF ChildrenAreWatched
  <2>1. Alive(w)
    BY <1>3 DEF Alive, Scanning
  <2>2. writer[w].job /\ writer[w].parent # s
    BY <1>3, <2>1 DEF ChildrenAreWatched, Alive, Scanning
  <2> QED
    BY <1>3, <1>6, <2>1, <2>2 DEF ChildrenAreWatched
<1> QED
  BY <1>3, <1>5, <1>6, <1>7 DEF NoneGains

-----------------------------------------------------------------------------
(* Steps of a writer other than taking the lock: it goes on or ends.       *)
LEMMA WriterStepKeeps ==
  ASSUME Typed, ChildrenAreWatched, NEW w \in Writers,
         WriterStep(w) \/ WriterEnds(w) \/ WriterStopFile(w),
         UNCHANGED windows
  PROVE  /\ Typed' /\ ChildrenAreWatched'
         /\ UNCHANGED <<latch, sup, script>>
         /\ NoneGains \/ (~ WriterLockHeld /\ writer' = [ writer EXCEPT ![w].at = "construct" ])
<1>1. UNCHANGED <<latch, sup, script>>
  BY DEF WriterStep, TakeLock, Constructed, Drained, ParentWatch, LockReleased, WriterEnds,
         WriterStopFile, WriterGoes
<1>2. writer[w] \in WriterRec
  BY DEF Typed
<1> DEFINE Good(r) ==
      /\ writer' = [ writer EXCEPT ![w] = r ] /\ r \in WriterRec
      /\ r.job = writer[w].job /\ r.parent = writer[w].parent
      /\ r.at # "start" /\ (r.at \in {"construct", "run", "drain"} => Alive(w))
      /\ \/ writer[w].at \in {"dead", "start"} => r.at = "dead"
         \/ ~ WriterLockHeld /\ r = [ writer[w] EXCEPT !.at = "construct" ]
<1>3. \E r : Good(r)
  <2>1. CASE TakeLock(w)
    <3>1. CASE WriterLockHeld
      <4> DEFINE r == Dead(writer[w], FALSE)
      <4>1. writer' = [ writer EXCEPT ![w] = r ]
        BY <2>1, <3>1 DEF TakeLock
      <4>2. r \in WriterRec /\ r.job = writer[w].job /\ r.parent = writer[w].parent /\ r.at = "dead"
        BY <1>2 DEF Dead, WriterRec
      <4> QED
        BY <4>1, <4>2
    <3>2. CASE ~ WriterLockHeld
      <4> DEFINE r == [ writer[w] EXCEPT !.at = "construct" ]
      <4>1. writer' = [ writer EXCEPT ![w] = r ]
        BY <2>1, <3>2 DEF TakeLock, WriterGoes
      <4>2. /\ r \in WriterRec /\ r.job = writer[w].job /\ r.parent = writer[w].parent
            /\ r.at = "construct" /\ Alive(w)
        BY <1>2, <2>1 DEF WriterRec, TakeLock, Alive
      <4> QED
        BY <3>2, <4>1, <4>2
    <3> QED
      BY <3>1, <3>2
  <2>2. ASSUME NEW at \in {"run", "drain", "dead"}, writer' = [ writer EXCEPT ![w].at = at ],
               writer[w].at \notin {"dead", "start"}, at # "dead" => Alive(w)
        PROVE  \E r : Good(r)
    <3> DEFINE r == [ writer[w] EXCEPT !.at = at ]
    <3>1. writer' = [ writer EXCEPT ![w] = r ]
      BY <2>2
    <3>2. r \in WriterRec /\ r.job = writer[w].job /\ r.parent = writer[w].parent /\ r.at = at
      BY <1>2 DEF WriterRec
    <3> QED
      BY <2>2, <3>1, <3>2
  <2>3. ASSUME NEW clean \in BOOLEAN, writer' = [ writer EXCEPT ![w] = Dead(@, clean) ]
        PROVE  \E r : Good(r)
    <3> DEFINE r == Dead(writer[w], clean)
    <3>1. writer' = [ writer EXCEPT ![w] = r ]
      BY <2>3
    <3>2. r \in WriterRec /\ r.job = writer[w].job /\ r.parent = writer[w].parent /\ r.at = "dead"
      BY <1>2 DEF Dead, WriterRec
    <3> QED
      BY <3>1, <3>2
  <2>4. CASE Constructed(w)
    BY <2>2, <2>4 DEF Constructed, WriterGoes, Alive, Scanning
  <2>5. CASE ParentWatch(w) \/ WriterStopFile(w)
    BY <2>2, <2>5 DEF ParentWatch, WriterStopFile, WriterGoes, Alive, Scanning
  <2>6. CASE LockReleased(w)
    BY <2>2, <2>6 DEF LockReleased, WriterGoes
  <2>7. CASE Drained(w) \/ WriterEnds(w)
    BY <2>3, <2>7 DEF Drained, WriterEnds
  <2> QED
    BY <2>1, <2>4, <2>5, <2>6, <2>7 DEF WriterStep
<1> PICK r : Good(r)
  BY <1>3
<1>4. Typed'
  BY <1>1 DEF Typed
<1>5. NoneIsBorn
  BY <1>1 DEF NoneIsBorn, Alive, Scanning, Typed
<1>6. ChildrenAreWatched'
  BY <1>4, <1>5, WatchKept
<1>7. NoneGains \/ (~ WriterLockHeld /\ writer' = [ writer EXCEPT ![w].at = "construct" ])
  BY DEF NoneGains, Typed
<1> QED
  BY <1>1, <1>4, <1>6, <1>7

-----------------------------------------------------------------------------
(* A supervisor's step that touches no writer.                             *)
LEMMA SupAloneKeeps ==
  ASSUME Typed, ChildrenAreWatched, UNCHANGED <<windows, writer>>, latch' \in BOOLEAN,
         sup' \in [ Sups -> SupRec ],
         \A s \in Sups : sup[s].at \in {"watch", "grace"} /\ sup[s].child \in Writers
                           /\ Alive(sup[s].child) =>
           sup'[s].at \in {"watch", "grace"} /\ sup'[s].child = sup[s].child
  PROVE  Typed' /\ NoneGains /\ ChildrenAreWatched'
<1>1. Typed'
  BY DEF Typed
<1>2. NoneGains
  BY DEF NoneGains
<1>3. ChildrenAreWatched'
  <2> SUFFICES ASSUME windows, NEW w \in Writers, Alive(w)
               PROVE  /\ writer[w].job /\ writer[w].parent \in Sups
                      /\ sup'[writer[w].parent].child = w
                      /\ sup'[writer[w].parent].at \in {"watch", "grace"}
    BY DEF ChildrenAreWatched, Alive, Scanning
  <2> QED
    BY DEF ChildrenAreWatched
<1> QED
  BY <1>1, <1>2, <1>3

(* A signal to the child, by its supervisor or from the terminal.          *)
LEMMA SignalKeeps ==
  ASSUME Typed, ChildrenAreWatched, UNCHANGED <<windows, latch>>, NEW s \in Sups,
         sup' \in [ Sups -> SupRec ],
         \A t \in Sups : /\ sup'[t].child = sup[t].child
                         /\ sup'[t].at = sup[t].at \/ sup'[t].at \in {"watch", "grace"},
         \/ writer' = writer
         \/ writer' = [ writer EXCEPT ![sup[s].child] = Signalled(@) ]
  PROVE  Typed' /\ NoneGains /\ ChildrenAreWatched'
<1>1. ASSUME NEW w \in Writers
      PROVE  /\ writer'[w] \in WriterRec
             /\ writer'[w].job = writer[w].job /\ writer'[w].parent = writer[w].parent
             /\ writer[w].at \in {"dead", "start"} => writer'[w].at \in {"dead", "start"}
             /\ Alive(w)' => Alive(w)
  <2>1. writer[w] \in WriterRec
    BY DEF Typed
  <2>2. writer'[w] \in {writer[w], Signalled(writer[w])}
    BY DEF Typed
  <2> QED
    BY <2>1, <2>2, SignalledType DEF Alive, Scanning
<1>2. Typed'
  <2>1. writer' \in [ Writers -> WriterRec ]
    BY <1>1 DEF Typed
  <2> QED
    BY <2>1 DEF Typed
<1>3. NoneGains
  BY <1>1 DEF NoneGains
<1>4. NoneIsBorn
  BY <1>1 DEF NoneIsBorn
<1> QED
  BY <1>2, <1>3, <1>4, WatchKept

(* Writers that are killed, each of them alive before.                     *)
LEMMA KillKeeps ==
  ASSUME Typed, ChildrenAreWatched, UNCHANGED <<windows, latch, sup>>,
         writer' \in [ Writers -> WriterRec ],
         \A w \in Writers : \/ writer'[w] = writer[w]
                            \/ Alive(w) /\ writer'[w] = Killed(writer[w])
  PROVE  Typed' /\ NoneGains /\ ChildrenAreWatched'
<1>1. ASSUME NEW w \in Writers
      PROVE  /\ writer[w].at \in {"dead", "start"} => writer'[w].at \in {"dead", "start"}
             /\ Alive(w)' => writer'[w] = writer[w]
  <2>1. writer[w] \in WriterRec
    BY DEF Typed
  <2> QED
    BY <2>1, KilledType DEF Alive, Scanning
<1>2. Typed'
  BY DEF Typed
<1>3. NoneGains
  BY <1>1 DEF NoneGains
<1>4. NoneIsBorn
  BY <1>1 DEF NoneIsBorn, Alive, Scanning
<1> QED
  BY <1>2, <1>3, <1>4, WatchKept

(* A spawn: the new writer is the child of the supervisor that watches it, *)
(* and does not hold the lock yet.                                         *)
LEMMA SpawnKeeps ==
  ASSUME Typed, ChildrenAreWatched, UNCHANGED windows, NEW s \in Sups, Spawn(s)
  PROVE  /\ Typed' /\ NoneGains /\ ChildrenAreWatched'
<1> PICK w \in Writers :
      /\ writer[w].at = "dead"
      /\ writer' = [ writer EXCEPT ![w] =
           [ NoWriter EXCEPT !.at = "start", !.job = windows, !.parent = s ] ]
      /\ sup' = [ sup EXCEPT ![s].at = "watch", ![s].child = w ]
  BY DEF Spawn
<1>1. sup[s].at = "spawn" /\ latch' = latch
  BY DEF Spawn
<1>2. /\ writer'[w] \in WriterRec /\ writer'[w].job = windows
      /\ writer'[w].parent = s /\ writer'[w].at = "start"
  BY DEF Typed, NoWriter, WriterRec
<1>3. \A v \in Writers : v # w => writer'[v] = writer[v]
  BY DEF Typed
<1>4. /\ sup'[s].at = "watch" /\ sup'[s].child = w
      /\ \A t \in Sups : t # s => sup'[t] = sup[t]
  BY DEF Typed, SupRec
<1>5. Typed'
  <2>1. writer' \in [ Writers -> WriterRec ]
    BY <1>2, <1>3 DEF Typed
  <2>2. sup' \in [ Sups -> SupRec ]
    BY DEF Typed, SupRec
  <2> QED
    BY <1>1, <2>1, <2>2 DEF Typed
<1>6. NoneGains
  BY <1>2, <1>3 DEF NoneGains
<1>7. ChildrenAreWatched'
  <2> SUFFICES ASSUME windows, NEW v \in Writers, Alive(v)'
               PROVE  /\ writer'[v].job /\ writer'[v].parent \in Sups
                      /\ sup'[writer'[v].parent].child = v
                      /\ sup'[writer'[v].parent].at \in {"watch", "grace"}
    BY DEF ChildrenAreWatched
  <2>1. CASE v = w
    BY <1>2, <1>4, <2>1
  <2>2. CASE v # w
    <3>1. writer'[v] = writer[v] /\ Alive(v)
      BY <1>3, <2>2 DEF Alive, Scanning
    <3>2. /\ writer[v].job /\ writer[v].parent \in Sups
          /\ sup[writer[v].parent].child = v
          /\ sup[writer[v].parent].at \in {"watch", "grace"}
      BY <3>1 DEF ChildrenAreWatched
    <3> QED
      BY <1>1, <1>4, <3>1, <3>2
  <2> QED
    BY <2>1, <2>2
<1> QED
  BY <1>5, <1>6, <1>7

-----------------------------------------------------------------------------
(* Every step but that of a writer, with what it does to the latch and to  *)
(* supervisors that are not up yet.                                        *)
LEMMA SupStepKeeps ==
  ASSUME Typed, ChildrenAreWatched, UNCHANGED windows, NEW s \in Sups,
         \/ SupStep(s) \/ StartSup(s) \/ SpawnFails(s) \/ SupFails(s)
         \/ SupKilled(s) \/ Sigterm(s) \/ CtrlC(s)
  PROVE  /\ Typed' /\ NoneGains /\ ChildrenAreWatched'
         /\ UNCHANGED <<latch, script>>
         /\ \A t \in Sups :
              latch /\ sup[t].at \in {"none", "lock", "startup"} =>
                sup'[t].at \in {"none", "lock", "startup"}
<1> DEFINE Quiet == \A t \in Sups :
              latch /\ sup[t].at \in {"none", "lock", "startup"} =>
                sup'[t].at \in {"none", "lock", "startup"}
<1>1. UNCHANGED <<latch, script>>
  BY DEF SupStep, StartSup, SpawnFails, SupFails, SupKilled, Sigterm, CtrlC, SupLock, Startup, Spawn,
         ChildExited, SeesStop, GraceOver, Kill, BackoffStopped, BackoffOver
<1>2. CASE SupGone(s)
  BY <1>1, <1>2, SupGoneKeeps
<1>3. CASE Spawn(s)
  <2>1. Quiet
    BY <1>3 DEF Spawn, Typed
  <2> QED
    BY <1>1, <1>3, <2>1, SpawnKeeps
<1>4. CASE SeesStop(s) \/ SupFails(s) \/ CtrlC(s)
  <2>a. PICK r \in SupRec : /\ sup' = [ sup EXCEPT ![s] = r ]
                            /\ r.child = sup[s].child
                            /\ r.at = sup[s].at \/ (sup[s].at = "watch" /\ r.at = "grace")
    <3>1. CASE SeesStop(s) \/ SupFails(s)
      <4> DEFINE r == [ sup[s] EXCEPT !.at = "grace" ]
      <4>1. sup' = [ sup EXCEPT ![s] = r ] /\ sup[s].at = "watch"
        BY <3>1 DEF SeesStop, SupFails, StopChild
      <4>2. r \in SupRec /\ r.child = sup[s].child /\ r.at = "grace"
        BY DEF Typed, SupRec
      <4> QED
        BY <4>1, <4>2
    <3>2. CASE CtrlC(s)
      <4> DEFINE r == [ sup[s] EXCEPT !.stop = TRUE, !.forward = windows ]
      <4>1. sup' = [ sup EXCEPT ![s] = r ]
        BY <3>2 DEF CtrlC, Typed
      <4>2. r \in SupRec /\ r.child = sup[s].child /\ r.at = sup[s].at
        BY DEF Typed, SupRec
      <4> QED
        BY <4>1, <4>2
    <3> QED
      BY <1>4, <3>1, <3>2
  <2>1. sup' \in [ Sups -> SupRec ] /\ Quiet
    BY <2>a DEF Typed
  <2>2. \A t \in Sups : /\ sup'[t].child = sup[t].child
                        /\ sup'[t].at = sup[t].at \/ sup'[t].at \in {"watch", "grace"}
    BY <2>a DEF Typed
  <2>3. \/ writer' = writer
        \/ writer' = [ writer EXCEPT ![sup[s].child] = Signalled(@) ]
    BY <1>4 DEF SeesStop, SupFails, CtrlC, StopChild
  <2> QED
    BY <1>1, <2>1, <2>2, <2>3, SignalKeeps
<1>5. CASE Kill(s)
  <2>1. writer' = [ writer EXCEPT ![sup[s].child] = Killed(@) ] /\ sup' = sup
    BY <1>5 DEF Kill
  <2>2. ASSUME NEW w \in Writers
        PROVE  /\ writer'[w] \in WriterRec
               /\ writer'[w] = writer[w] \/ (Alive(w) /\ writer'[w] = Killed(writer[w]))
    <3>1. writer[w] \in WriterRec
      BY DEF Typed
    <3>2. CASE w = sup[s].child
      <4>1. Alive(w)
        BY <1>5, <3>1, <3>2 DEF Kill, ChildOver, Child, Alive, Scanning, WriterRec
      <4> QED
        BY <2>1, <3>1, <3>2, <4>1, KilledType DEF Typed
    <3>3. CASE w # sup[s].child
      <4>1. writer'[w] = writer[w]
        BY <2>1, <3>3 DEF Typed
      <4> QED
        BY <3>1, <4>1
    <3> QED
      BY <3>2, <3>3
  <2>3. writer' \in [ Writers -> WriterRec ]
    BY <2>1, <2>2 DEF Typed
  <2> QED
    BY <1>1, <2>1, <2>2, <2>3, KillKeeps
<1>6. CASE ~ SupGone(s) /\ (StartSup(s) \/ SupLock(s) \/ Startup(s) \/ ChildExited(s) \/ BackoffOver(s) \/ Sigterm(s))
  <2>1. writer' = writer
    BY <1>6 DEF StartSup, SupLock, Startup, ChildExited, BackoffOver, Sigterm
  <2>a. sup[s] \in SupRec
    BY DEF Typed
  <2>2. PICK r \in SupRec :
          /\ sup' = [ sup EXCEPT ![s] = r ]
          /\ latch /\ sup[s].at \in {"none", "lock", "startup"} =>
               r.at \in {"none", "lock", "startup"}
          /\ sup[s].at \in {"watch", "grace"} =>
               \/ ChildOver(s)
               \/ r.at = sup[s].at /\ r.child = sup[s].child
    <3>1. CASE BackoffOver(s)
      <4> DEFINE level == IF sup[s].at = "backoff" /\ sup[s].level < MaxLevel
                          THEN sup[s].level + 1 ELSE sup[s].level
                 r == [ [ sup[s] EXCEPT !.at = "spawn" ] EXCEPT !.level = level ]
      <4>1. level \in 0 .. MaxLevel
        BY <2>a, SupervisionAssumption DEF SupRec
      <4>2. sup' = [ sup EXCEPT ![s] = r ] /\ sup[s].at \in {"backoff", "settle"}
        BY <3>1 DEF BackoffOver, Typed, SupRec
      <4> HIDE DEF level
      <4>3. r \in SupRec
        BY <2>a, <4>1 DEF SupRec
      <4> QED
        BY <4>2, <4>3
    <3>2. CASE ChildExited(s)
      <4>1. PICK stable \in BOOLEAN : sup' = [ sup EXCEPT ![s] = AfterFailure(s, stable) ]
        BY <1>6, <3>2 DEF ChildExited
      <4>2. AfterFailure(s, stable) \in SupRec
        <5>1. 0 \in 0 .. MaxLevel
          BY SupervisionAssumption
        <5> QED
          BY <2>a, <5>1 DEF AfterFailure, SupRec
      <4> QED
        BY <3>2, <4>1, <4>2 DEF ChildExited
    <3>3. ASSUME NEW at \in {"none", "lock", "startup", "spawn"}, SupGoes(s, at),
                 sup[s].at \in {"none", "lock", "startup"}, latch => at # "spawn"
          PROVE  \E r \in SupRec :
                   /\ sup' = [ sup EXCEPT ![s] = r ]
                   /\ latch /\ sup[s].at \in {"none", "lock", "startup"} =>
                        r.at \in {"none", "lock", "startup"}
                   /\ sup[s].at \in {"watch", "grace"} =>
                        \/ ChildOver(s)
                        \/ r.at = sup[s].at /\ r.child = sup[s].child
      <4> DEFINE r == [ sup[s] EXCEPT !.at = at ]
      <4>1. sup' = [ sup EXCEPT ![s] = r ]
        BY <3>3 DEF SupGoes
      <4>2. r \in SupRec /\ r.at = at
        BY <2>a DEF SupRec
      <4> QED
        BY <3>3, <4>1, <4>2
    <3>4. CASE StartSup(s)
      BY <3>3, <3>4 DEF StartSup
    <3>5. CASE SupLock(s)
      BY <3>3, <3>5 DEF SupLock
    <3>6. CASE Startup(s)
      BY <1>6, <3>3, <3>6 DEF Startup
    <3>7. CASE Sigterm(s)
      <4> DEFINE r == [ [ sup[s] EXCEPT !.stop = TRUE ] EXCEPT !.forward = TRUE ]
      <4>1. sup' = [ sup EXCEPT ![s] = r ]
        BY <3>7 DEF Sigterm, Typed, SupRec
      <4>2. r \in SupRec /\ r.at = sup[s].at /\ r.child = sup[s].child
        BY <2>a DEF SupRec
      <4> QED
        BY <4>1, <4>2
    <3> QED
      BY <1>6, <3>1, <3>2, <3>4, <3>5, <3>6, <3>7
  <2>b. sup' \in [ Sups -> SupRec ]
    BY <2>2 DEF Typed
  <2>3. Quiet
    BY <2>2 DEF Typed
  <2>4. ASSUME NEW t \in Sups, sup[t].at \in {"watch", "grace"}, sup[t].child \in Writers,
               Alive(sup[t].child)
        PROVE  sup'[t].at \in {"watch", "grace"} /\ sup'[t].child = sup[t].child
    <3>1. ~ ChildOver(t)
      BY <2>4 DEF ChildOver, Child, Alive, Scanning
    <3> QED
      BY <2>2, <2>4, <3>1 DEF Typed
  <2> QED
    BY <1>1, <2>1, <2>b, <2>3, <2>4, SupAloneKeeps DEF Typed
<1>7. SupGone(s) \/ Spawn(s) \/ SeesStop(s) \/ SupFails(s) \/ CtrlC(s) \/ Kill(s)
        \/ StartSup(s) \/ SupLock(s) \/ Startup(s) \/ ChildExited(s) \/ BackoffOver(s) \/ Sigterm(s)
  BY DEF SupStep, SpawnFails, SupKilled, GraceOver, BackoffStopped
<1> QED
  BY <1>2, <1>3, <1>4, <1>5, <1>6, <1>7

(* A step of the stop script, whatever it kills on the way.                *)
LEMMA ScriptStepKeeps ==
  ASSUME Typed, ChildrenAreWatched, UNCHANGED windows, ScriptStep
  PROVE  /\ Typed' /\ NoneGains /\ ChildrenAreWatched'
         /\ \A t \in Sups :
              sup[t].at \in {"none", "lock", "startup"} => sup'[t].at \in {"none", "lock", "startup"}
<1> DEFINE Quiet == \A t \in Sups :
      sup[t].at \in {"none", "lock", "startup"} => sup'[t].at \in {"none", "lock", "startup"}
<1>1. CASE UNCHANGED <<sup, writer>> /\ latch' \in BOOLEAN
  <2>1. sup' \in [ Sups -> SupRec ]
    BY <1>1 DEF Typed
  <2> QED
    BY <1>1, <2>1, SupAloneKeeps
<1>2. CASE KillHolder
  <2>1. writer' = writer \/ writer' = [ w \in Writers |-> IF Scanning(w) THEN Killed(writer[w]) ELSE writer[w] ]
    BY <1>2 DEF KillHolder
  <2>2. UNCHANGED <<latch, sup>>
    BY <1>2 DEF KillHolder
  <2>3. ASSUME NEW w \in Writers
        PROVE  /\ writer'[w] \in WriterRec
               /\ writer'[w] = writer[w] \/ (Alive(w) /\ writer'[w] = Killed(writer[w]))
    <3>1. writer[w] \in WriterRec
      BY DEF Typed
    <3>2. writer'[w] = writer[w] \/ (Scanning(w) /\ writer'[w] = Killed(writer[w]))
      BY <2>1
    <3> QED
      BY <3>1, <3>2, KilledType DEF Alive
  <2>4. writer' \in [ Writers -> WriterRec ]
    BY <2>1, <2>3 DEF Typed
  <2> QED
    BY <2>2, <2>3, <2>4, KillKeeps
<1>3. CASE HardStop
  <2>1. UNCHANGED latch
    BY <1>3 DEF HardStop
  <2>2. CASE UNCHANGED <<sup, writer>>
    BY <1>1, <2>1, <2>2 DEF Typed
  <2>3. ASSUME NEW s \in Sups, SupGone(s)
        PROVE  Typed' /\ NoneGains /\ ChildrenAreWatched' /\ Quiet
    BY <2>1, <2>3, SupGoneKeeps
  <2> QED
    BY <1>3, <2>2, <2>3 DEF HardStop
<1>4. CASE \/ ProbeWriter \/ LatchAnyway \/ ReportNotRunning \/ RequestStop
           \/ ProbeSup \/ GiveUp \/ Rearm
  BY <1>1, <1>4 DEF ProbeWriter, LatchAnyway, ReportNotRunning, RequestStop, ProbeSup, GiveUp, Rearm,
                    ScriptGoes, Typed
<1> QED
  BY <1>2, <1>3, <1>4 DEF ScriptStep

(* The latch, once the script has written it.                              *)
LEMMA ScriptKeepsLatch ==
  ASSUME Typed, LatchIsHeld, ScriptStep,
         \A t \in Sups :
           sup[t].at \in {"none", "lock", "startup"} => sup'[t].at \in {"none", "lock", "startup"}
  PROVE  LatchIsHeld'
<1>1. CASE ProbeWriter \/ LatchAnyway \/ ReportNotRunning \/ RequestStop \/ GiveUp \/ Rearm
  BY <1>1 DEF LatchIsHeld, ProbeWriter, LatchAnyway, ReportNotRunning, RequestStop, GiveUp, Rearm,
              ScriptGoes, Reports, Typed
<1>2. CASE ProbeSup
  BY <1>2 DEF LatchIsHeld, ProbeSup, ScriptGoes, Typed, SupLockHeld, HoldsSupLock
<1>3. CASE HardStop \/ KillHolder
  BY <1>3 DEF LatchIsHeld, HardStop, KillHolder, Typed
<1> QED
  BY <1>1, <1>2, <1>3 DEF ScriptStep

-----------------------------------------------------------------------------
(* Nothing runs at first.                                                  *)
LEMMA InitProcessInv == SupervisionInit => ProcessInv
<1> SUFFICES ASSUME SupervisionInit PROVE ProcessInv
  OBVIOUS
<1>1. NoSup \in SupRec
  <2>1. 0 \in 0 .. MaxLevel
    BY SupervisionAssumption
  <2> QED
    BY <2>1 DEF NoSup, SupRec
<1>2. NoWriter \in WriterRec
  BY DEF NoWriter, WriterRec
<1>3. Typed
  BY <1>1, <1>2 DEF SupervisionInit, Typed
<1>4. LockIsExclusive /\ ChildrenAreWatched /\ LatchIsHeld
  BY DEF SupervisionInit, LockIsExclusive, HoldsWriterLock, ChildrenAreWatched, Alive, Scanning, LatchIsHeld, NoWriter
<1> QED
  BY <1>3, <1>4 DEF ProcessInv

(* The invariant is inductive: a writer takes the lock when it is free, and *)
(* every other step is one of the above.                                   *)
LEMMA StepProcessInv == ProcessInv /\ [SupervisionNext]_supervisionVars => ProcessInv'
<1> SUFFICES ASSUME ProcessInv, [SupervisionNext]_supervisionVars PROVE ProcessInv'
  OBVIOUS
<1> USE DEF ProcessInv
<1>1. CASE UNCHANGED supervisionVars
  BY <1>1 DEF supervisionVars, Typed, LockIsExclusive, HoldsWriterLock, ChildrenAreWatched, Alive, Scanning, LatchIsHeld
<1>2. ASSUME NEW w \in Writers, WriterStep(w) \/ WriterEnds(w) \/ WriterStopFile(w), UNCHANGED windows
      PROVE  ProcessInv'
  <2>1. /\ Typed' /\ ChildrenAreWatched' /\ UNCHANGED <<latch, sup, script>>
        /\ NoneGains \/ (~ WriterLockHeld /\ writer' = [ writer EXCEPT ![w].at = "construct" ])
    BY <1>2, WriterStepKeeps
  <2>2. LockIsExclusive'
    <3>1. CASE NoneGains
      BY <2>1, <3>1, ExclusionKept
    <3>2. CASE ~ WriterLockHeld /\ writer' = [ writer EXCEPT ![w].at = "construct" ]
      BY <3>2 DEF WriterLockHeld, HoldsWriterLock, LockIsExclusive, Typed, WriterRec
    <3> QED
      BY <2>1, <3>1, <3>2
  <2>3. LatchIsHeld'
    BY <2>1 DEF LatchIsHeld
  <2> QED
    BY <2>1, <2>2, <2>3
<1>3. ASSUME NEW s \in Sups,
             \/ SupStep(s) \/ StartSup(s) \/ SpawnFails(s) \/ SupFails(s)
             \/ SupKilled(s) \/ Sigterm(s) \/ CtrlC(s),
             UNCHANGED windows
      PROVE  ProcessInv'
  <2>1. /\ Typed' /\ NoneGains /\ ChildrenAreWatched' /\ UNCHANGED <<latch, script>>
        /\ \A t \in Sups :
             latch /\ sup[t].at \in {"none", "lock", "startup"} =>
               sup'[t].at \in {"none", "lock", "startup"}
    BY <1>3, SupStepKeeps
  <2>2. LockIsExclusive'
    BY <2>1, ExclusionKept
  <2>3. LatchIsHeld'
    BY <2>1 DEF LatchIsHeld
  <2> QED
    BY <2>1, <2>2, <2>3
<1>4. ASSUME ScriptStep, UNCHANGED windows
      PROVE  ProcessInv'
  <2>1. /\ Typed' /\ NoneGains /\ ChildrenAreWatched'
        /\ \A t \in Sups :
             sup[t].at \in {"none", "lock", "startup"} => sup'[t].at \in {"none", "lock", "startup"}
    BY <1>4, ScriptStepKeeps
  <2>2. LockIsExclusive'
    BY <2>1, ExclusionKept
  <2>3. LatchIsHeld'
    BY <1>4, <2>1, ScriptKeepsLatch
  <2> QED
    BY <2>1, <2>2, <2>3
<1> QED
  BY <1>1, <1>2, <1>3, <1>4 DEF SupervisionNext, SupervisionStep

(* The processes and the stop script keep their invariant, however writers *)
(* and supervisors are started, signalled, killed and orphaned.            *)
THEOREM ProcessInvariance == SupervisionSpec => []ProcessInv
BY InitProcessInv, StepProcessInv, PTL DEF SupervisionSpec

(* For any number of supervisors and writers, killed, restarted and        *)
(* orphaned in whatever order: one writer at a time.                       *)
THEOREM WritersExcludeEachOther == SupervisionSpec => []OneWriter
<1>1. ProcessInv => OneWriter
  <2> SUFFICES ASSUME ProcessInv PROVE OneWriter
    OBVIOUS
  <2> DEFINE holders == { w \in Writers : HoldsWriterLock(w) }
  <2>1. CASE holders = {}
    BY <2>1, FS_EmptySet DEF OneWriter
  <2>2. CASE holders # {}
    <3>1. PICK w \in holders : TRUE
      BY <2>2
    <3>2. holders = {w}
      BY <3>1 DEF ProcessInv, LockIsExclusive
    <3>3. Cardinality({w}) = 1
      BY FS_Singleton
    <3> QED
      BY <3>2, <3>3 DEF OneWriter
  <2> QED
    BY <2>1, <2>2
<1> QED
  BY <1>1, ProcessInvariance, PTL

(* Where the children die with their supervisor, a stop that the script    *)
(* has verified is true, and stays true until the station is rearmed.      *)
THEOREM VerifiedStopIsTrue == SupervisionSpec => []StoppedIsTrue
<1>1. ProcessInv => StoppedIsTrue
  BY DEF ProcessInv, StoppedIsTrue, ChildrenAreWatched, LatchIsHeld, Alive
<1> QED
  BY <1>1, ProcessInvariance, PTL

-----------------------------------------------------------------------------
(* One request, one signal.  Before the first request nothing is stopping, *)
(* and no supervisor that has passed its startup check has seen a latch.   *)
Up == {"spawn", "watch", "backoff", "settle"}

Quiet ==
  /\ script = "idle"
  /\ \A s \in Sups : /\ ~ sup[s].stop /\ sup[s].forward /\ sup[s].at # "grace"
                     /\ sup[s].at \in Up => ~ latch
  /\ \A w \in Writers : ~ writer[w].signalled

(* A supervisor that will forward a stop has a child that had none.        *)
Unsignalled ==
  \A s \in Sups : sup[s].at = "watch" /\ sup[s].forward /\ sup[s].child \in Writers =>
                  ~ writer[sup[s].child].signalled

OwnChildren ==
  \A s, t \in Sups : sup[s].child = sup[t].child /\ sup[s].child \in Writers => s = t

SignalledOnce ==
  /\ requests \in Nat /\ OwnChildren
  /\ requests = 0 => Quiet
  /\ requests <= 1 => OneRequestDrains /\ Unsignalled

LEMMA InitSignalledOnce == SupervisionInit => SignalledOnce
BY SupervisionAssumption DEF SupervisionInit, SignalledOnce, OwnChildren, Quiet, OneRequestDrains, Unsignalled,
   NoSup, NoWriter, Up

(* Only a second signal forces.                                            *)
LEMMA SignalForcesSecond ==
  ASSUME NEW r \in WriterRec
  PROVE  /\ Signalled(r).forced => r.forced \/ r.signalled
         /\ \A clean \in BOOLEAN : /\ Dead(r, clean).signalled = r.signalled
                                   /\ Dead(r, clean).forced = r.forced
         /\ Killed(r).signalled = r.signalled /\ Killed(r).forced = r.forced
BY DEF WriterRec, Signalled, Dead, Killed

NoSignal ==
  \A w \in Writers : /\ writer'[w].signalled => writer[w].signalled
                     /\ writer'[w].forced => writer[w].forced

(* A supervisor goes on without having spawned or been told anything.      *)
GoesOn(s) ==
  /\ sup'[s].child \in {sup[s].child, Nobody}
  /\ sup'[s].at = "watch" => sup[s].at = "watch" /\ sup'[s].forward = sup[s].forward
  /\ sup'[s].at = "grace" => sup[s].at = "grace"
  /\ sup'[s].stop => sup[s].stop
  /\ sup[s].forward => sup'[s].forward
  /\ sup'[s].at \in Up => sup[s].at \in Up \/ ~ latch

LEMMA SilentStep ==
  ASSUME SignalledOnce, UNCHANGED <<requests, latch>>, requests = 0 => script' = script,
         NoSignal, \A s \in Sups : GoesOn(s)
  PROVE  SignalledOnce'
<1>1. OwnChildren'
  BY SupervisionAssumption DEF SignalledOnce, OwnChildren, GoesOn
<1>2. requests = 0 => Quiet'
  BY DEF SignalledOnce, Quiet, GoesOn, NoSignal
<1>3. requests <= 1 => OneRequestDrains' /\ Unsignalled'
  <2> SUFFICES ASSUME requests <= 1 PROVE OneRequestDrains' /\ Unsignalled'
    OBVIOUS
  <2>1. OneRequestDrains /\ Unsignalled
    BY DEF SignalledOnce
  <2>2. OneRequestDrains'
    BY <2>1 DEF OneRequestDrains, NoSignal
  <2>3. Unsignalled'
    BY <2>1, SupervisionAssumption DEF Unsignalled, NoSignal, GoesOn
  <2> QED
    BY <2>2, <2>3
<1> QED
  BY <1>1, <1>2, <1>3 DEF SignalledOnce

(* A request, or the first look at one: of this one supervisor and child.  *)
LEMMA RequestStep ==
  ASSUME Typed, SignalledOnce, NEW s \in Sups, requests' \in Nat, requests' # 0,
         \A t \in Sups : sup'[t].child = sup[t].child,
         \A t \in Sups : t # s => sup'[t] = sup[t],
         \/ writer' = writer
         \/ writer' = [ writer EXCEPT ![sup[s].child] = Signalled(@) ],
         requests' <= 1 =>
           /\ requests <= 1
           /\ writer' = writer \/ (sup[s].child \in Writers => ~ writer[sup[s].child].signalled)
           /\ sup'[s].at = "watch" /\ sup'[s].forward /\ sup[s].child \in Writers =>
                ~ writer'[sup[s].child].signalled
  PROVE  SignalledOnce'
<1>1. OwnChildren'
  BY DEF SignalledOnce, OwnChildren
<1>2. ASSUME requests' <= 1
      PROVE  OneRequestDrains' /\ Unsignalled'
  <2>1. OneRequestDrains /\ Unsignalled /\ OwnChildren /\ requests <= 1
    BY <1>2 DEF SignalledOnce
  <2>2. ASSUME NEW w \in Writers
        PROVE  /\ w # sup[s].child => writer'[w] = writer[w]
               /\ ~ writer'[w].forced
    <3>1. writer[w] \in WriterRec /\ ~ writer[w].forced
      BY <2>1 DEF Typed, OneRequestDrains
    <3>2. writer'[w] = writer[w] \/ (w = sup[s].child /\ writer'[w] = Signalled(writer[w]) /\ ~ writer[w].signalled)
      BY <1>2 DEF Typed
    <3> QED
      BY <3>1, <3>2, SignalForcesSecond
  <2>3. OneRequestDrains'
    BY <2>2 DEF OneRequestDrains
  <2>4. ASSUME NEW t \in Sups, sup'[t].at = "watch", sup'[t].forward, sup'[t].child \in Writers
        PROVE  ~ writer'[sup'[t].child].signalled
    <3>1. CASE t = s
      BY <1>2, <2>4, <3>1
    <3>2. CASE t # s
      <4>1. sup'[t] = sup[t] /\ sup[t].child # sup[s].child
        BY <2>1, <2>4, <3>2 DEF OwnChildren
      <4>2. writer'[sup[t].child] = writer[sup[t].child]
        BY <2>2, <2>4, <4>1
      <4> QED
        BY <2>1, <2>4, <4>1, <4>2 DEF Unsignalled
    <3> QED
      BY <3>1, <3>2
  <2> QED
    BY <2>3, <2>4 DEF Unsignalled
<1> QED
  BY <1>1, <1>2 DEF SignalledOnce

LEMMA SupGoneIsSilent ==
  ASSUME Typed, NEW s \in Sups, SupGone(s)
  PROVE  NoSignal /\ \A t \in Sups : GoesOn(t)
<1>1. \A t \in Sups : sup'[t] = IF t = s THEN NoSup ELSE sup[t]
  BY DEF SupGone, Typed
<1>2. \A t \in Sups : GoesOn(t)
  BY <1>1 DEF GoesOn, NoSup, Up
<1>3. NoSignal
  <2> SUFFICES ASSUME NEW w \in Writers
               PROVE  /\ writer'[w].signalled => writer[w].signalled
                      /\ writer'[w].forced => writer[w].forced
    BY DEF NoSignal
  <2> DEFINE orphan == [ writer[w] EXCEPT !.parent = Nobody ]
  <2>1. orphan \in WriterRec /\ orphan.signalled = writer[w].signalled /\ orphan.forced = writer[w].forced
    BY DEF Typed, WriterRec
  <2>2. writer'[w] \in {writer[w], orphan, Killed(orphan)}
    BY DEF SupGone
  <2> HIDE DEF orphan
  <2> QED
    BY <2>1, <2>2, SignalForcesSecond
<1> QED
  BY <1>2, <1>3

LEMMA WritersAreSilent ==
  ASSUME Typed, NEW w \in Writers, WriterStep(w) \/ WriterEnds(w) \/ WriterStopFile(w)
  PROVE  NoSignal /\ UNCHANGED <<latch, sup, script, requests>>
<1>1. UNCHANGED <<latch, sup, script, requests>>
  BY DEF WriterStep, TakeLock, Constructed, Drained, ParentWatch, LockReleased, WriterEnds,
         WriterStopFile, WriterGoes
<1>2. writer[w] \in WriterRec
  BY DEF Typed
<1>3. \/ \E at \in {"construct", "run", "drain", "dead"} : writer' = [ writer EXCEPT ![w].at = at ]
      \/ \E clean \in BOOLEAN : writer' = [ writer EXCEPT ![w] = Dead(@, clean) ]
  BY DEF WriterStep, TakeLock, Constructed, Drained, ParentWatch, LockReleased, WriterEnds,
         WriterStopFile, WriterGoes
<1>4. /\ \A v \in Writers : v # w => writer'[v] = writer[v]
      /\ \/ \E at \in {"construct", "run", "drain", "dead"} : writer'[w] = [ writer[w] EXCEPT !.at = at ]
         \/ \E clean \in BOOLEAN : writer'[w] = Dead(writer[w], clean)
  BY <1>3 DEF Typed
<1>5. writer'[w].signalled = writer[w].signalled /\ writer'[w].forced = writer[w].forced
  BY <1>2, <1>4, SignalForcesSecond DEF WriterRec
<1> QED
  BY <1>1, <1>4, <1>5 DEF NoSignal

(* A spawned writer is new, and nobody else's.                             *)
LEMMA SpawnIsFresh ==
  ASSUME Typed, SignalledOnce, NEW s \in Sups, Spawn(s)
  PROVE  SignalledOnce'
<1> PICK w \in Writers :
      /\ writer[w].at = "dead" /\ \A t \in Sups : sup[t].child # w
      /\ writer' = [ writer EXCEPT ![w] =
           [ NoWriter EXCEPT !.at = "start", !.job = windows, !.parent = s ] ]
      /\ sup' = [ sup EXCEPT ![s].at = "watch", ![s].child = w ]
  BY DEF Spawn
<1>1. sup[s].at = "spawn" /\ UNCHANGED <<latch, script, requests>>
  BY DEF Spawn
<1>2. /\ ~ writer'[w].signalled /\ ~ writer'[w].forced
      /\ \A v \in Writers : v # w => writer'[v] = writer[v]
  BY DEF NoWriter, Typed
<1>3. /\ sup'[s].child = w /\ sup'[s].at = "watch"
      /\ sup'[s].stop = sup[s].stop /\ sup'[s].forward = sup[s].forward
      /\ \A t \in Sups : t # s => sup'[t] = sup[t]
  BY DEF Typed, SupRec
<1>4. OwnChildren'
  BY <1>3 DEF SignalledOnce, OwnChildren
<1>5. requests = 0 => Quiet'
  BY <1>1, <1>2, <1>3 DEF SignalledOnce, Quiet, Up
<1>6. ASSUME requests <= 1
      PROVE  OneRequestDrains' /\ Unsignalled'
  <2>1. OneRequestDrains /\ Unsignalled
    BY <1>6 DEF SignalledOnce
  <2>2. \A v \in Writers : ~ writer[v].forced
    BY <1>6, <2>1 DEF OneRequestDrains
  <2>3. \A v \in Writers : ~ writer'[v].forced
    BY <1>2, <2>2
  <2>4. OneRequestDrains'
    BY <2>3 DEF OneRequestDrains
  <2>5. Unsignalled'
    BY <1>2, <1>3, <2>1 DEF Unsignalled
  <2> QED
    BY <2>4, <2>5
<1> QED
  BY <1>1, <1>4, <1>5, <1>6 DEF SignalledOnce

(* The steps of a supervisor.                                              *)
LEMMA SupervisorSignalsOnce ==
  ASSUME Typed, SignalledOnce, NEW s \in Sups,
         \/ SupStep(s) \/ StartSup(s) \/ SpawnFails(s) \/ SupFails(s)
         \/ SupKilled(s) \/ Sigterm(s) \/ CtrlC(s)
  PROVE  SignalledOnce'
<1>0. sup[s] \in SupRec /\ requests \in Nat
  BY DEF Typed, SignalledOnce
<1> DEFINE calm == UNCHANGED <<requests, latch, script>>
<1>1. ASSUME SupGone(s), calm
      PROVE  SignalledOnce'
  BY <1>1, SupGoneIsSilent, SilentStep
<1>2. ASSUME calm, UNCHANGED writer,
             \A t \in Sups : t # s => sup'[t] = sup[t],
             GoesOn(s)
      PROVE  SignalledOnce'
  <2>1. NoSignal
    BY <1>2 DEF NoSignal
  <2>2. \A t \in Sups : GoesOn(t)
    BY <1>2 DEF GoesOn
  <2> QED
    BY <1>2, <2>1, <2>2, SilentStep
<1>3. CASE SupLock(s) \/ StartSup(s)
  <2>1. calm /\ UNCHANGED writer /\ \A t \in Sups : t # s => sup'[t] = sup[t]
    BY <1>3 DEF SupLock, StartSup, SupGoes, Typed
  <2>2. GoesOn(s)
    BY <1>0, <1>3 DEF SupLock, StartSup, SupGoes, Typed, SupRec, GoesOn, Up
  <2> QED
    BY <1>2, <2>1, <2>2
<1>4. CASE Startup(s)
  <2>1. CASE latch
    BY <1>1, <1>4, <2>1 DEF Startup
  <2>2. CASE ~ latch
    <3>1. calm /\ UNCHANGED writer /\ \A t \in Sups : t # s => sup'[t] = sup[t]
      BY <1>4, <2>2 DEF Startup, SupGoes, Typed
    <3>2. GoesOn(s)
      BY <1>0, <1>4, <2>2 DEF Startup, SupGoes, Typed, SupRec, GoesOn, Up
    <3> QED
      BY <1>2, <3>1, <3>2
  <2> QED
    BY <2>1, <2>2
<1>5. CASE Spawn(s)
  BY <1>5, SpawnIsFresh
<1>6. CASE ChildExited(s)
  <2>1. CASE SupGone(s)
    BY <1>1, <1>6, <2>1 DEF ChildExited
  <2>2. CASE ~ SupGone(s)
    <3> PICK stable \in BOOLEAN : sup' = [ sup EXCEPT ![s] = AfterFailure(s, stable) ]
      BY <1>6, <2>2 DEF ChildExited
    <3>1. calm /\ UNCHANGED writer /\ \A t \in Sups : t # s => sup'[t] = sup[t]
      BY <1>6, <2>2 DEF ChildExited, Typed
    <3>2. sup'[s] = AfterFailure(s, stable) /\ sup[s].at = "watch"
      BY <1>6 DEF ChildExited, Typed
    <3>3. GoesOn(s)
      BY <1>0, <3>2 DEF AfterFailure, SupRec, GoesOn, Up
    <3> QED
      BY <1>2, <3>1, <3>3
  <2> QED
    BY <2>1, <2>2
<1>7. CASE BackoffOver(s)
  <2>1. calm /\ UNCHANGED writer /\ \A t \in Sups : t # s => sup'[t] = sup[t]
    BY <1>7 DEF BackoffOver, Typed
  <2>2. GoesOn(s)
    BY <1>0, <1>7 DEF BackoffOver, Typed, SupRec, GoesOn, Up
  <2> QED
    BY <1>2, <2>1, <2>2
<1>8. CASE GraceOver(s) \/ BackoffStopped(s) \/ SpawnFails(s) \/ SupKilled(s)
  BY <1>1, <1>8 DEF GraceOver, BackoffStopped, SpawnFails, SupKilled
<1>9. CASE Kill(s)
  <2>1. calm /\ UNCHANGED sup
    BY <1>9 DEF Kill
  <2>2. \A w \in Writers : writer'[w] = writer[w] \/ writer'[w] = Killed(writer[w])
    BY <1>9 DEF Kill, Typed
  <2>3. NoSignal
    BY <2>2, SignalForcesSecond DEF NoSignal, Typed
  <2>4. \A t \in Sups : GoesOn(t)
    BY <2>1 DEF GoesOn
  <2> QED
    BY <2>1, <2>3, <2>4, SilentStep
<1>10. ASSUME sup[s].at = "watch", StopChild(s), requests' \in Nat, requests' # 0,
              requests' <= 1 => requests <= 1
       PROVE  SignalledOnce'
  <2>1. sup'[s].at = "grace" /\ \A t \in Sups : sup'[t].child = sup[t].child
    BY <1>0, <1>10 DEF StopChild, Typed, SupRec
  <2>2. \A t \in Sups : t # s => sup'[t] = sup[t]
    BY <1>10 DEF StopChild, Typed
  <2>3. \/ writer' = writer
        \/ writer' = [ writer EXCEPT ![sup[s].child] = Signalled(@) ] /\ sup[s].forward
    BY <1>10 DEF StopChild
  <2>4. requests' <= 1 => requests <= 1 /\ Unsignalled
    BY <1>10 DEF SignalledOnce
  <2>5. requests' <= 1 =>
          writer' = writer \/ (sup[s].child \in Writers => ~ writer[sup[s].child].signalled)
    BY <1>10, <2>3, <2>4 DEF Unsignalled
  <2> QED
    BY <1>10, <2>1, <2>2, <2>3, <2>4, <2>5, RequestStep
<1>11. CASE SeesStop(s)
  <2>1. sup[s].at = "watch" /\ StopChild(s) /\ requests' = requests /\ (sup[s].stop \/ latch)
    BY <1>11 DEF SeesStop, StopRequested
  <2>2. requests # 0
    BY <2>1 DEF SignalledOnce, Quiet, Up
  <2> QED
    BY <1>0, <1>10, <2>1, <2>2
<1>12. CASE SupFails(s)
  <2>1. sup[s].at = "watch" /\ StopChild(s) /\ requests' = requests + 1
    BY <1>12 DEF SupFails, Request
  <2> QED
    BY <1>0, <1>10, <2>1
<1>13. CASE Sigterm(s) \/ CtrlC(s)
  <2>1. /\ requests' = requests + 1
        /\ \A t \in Sups : sup'[t].child = sup[t].child
        /\ \A t \in Sups : t # s => sup'[t] = sup[t]
    BY <1>0, <1>13 DEF Sigterm, CtrlC, Request, Typed, SupRec
  <2>2. \/ writer' = writer
        \/ writer' = [ writer EXCEPT ![sup[s].child] = Signalled(@) ] /\ ~ sup'[s].forward
    BY <1>0, <1>13 DEF Sigterm, CtrlC, Typed, SupRec
  <2>3. requests' \in Nat /\ requests' # 0 /\ (requests' <= 1 => requests = 0)
    BY <1>0, <2>1
  <2>4. requests' <= 1 => \A w \in Writers : ~ writer[w].signalled
    BY <2>3 DEF SignalledOnce, Quiet
  <2>5. requests' <= 1 => requests <= 1
    BY <2>3
  <2>6. requests' <= 1 =>
          /\ writer' = writer \/ (sup[s].child \in Writers => ~ writer[sup[s].child].signalled)
          /\ sup'[s].at = "watch" /\ sup'[s].forward /\ sup[s].child \in Writers =>
               ~ writer'[sup[s].child].signalled
    BY <2>2, <2>4
  <2> QED
    BY <2>1, <2>2, <2>3, <2>5, <2>6, RequestStep
<1> QED
  BY <1>3, <1>4, <1>5, <1>6, <1>7, <1>8, <1>9, <1>11, <1>12, <1>13 DEF SupStep

(* The script's first step is a request; a kill is no signal.              *)
LEMMA ScriptSignalsOnce ==
  ASSUME Typed, SignalledOnce, ScriptStep
  PROVE  SignalledOnce'
<1>0. requests \in Nat /\ (requests = 0 => script = "idle")
  BY DEF SignalledOnce, Quiet
<1>1. CASE HardStop \/ KillHolder
  <2>1. requests # 0 /\ UNCHANGED <<latch, requests>>
    BY <1>0, <1>1 DEF HardStop, KillHolder
  <2>2. NoSignal /\ \A t \in Sups : GoesOn(t)
    <3>1. CASE \E s \in Sups : SupGone(s)
      BY <3>1, SupGoneIsSilent
    <3>2. CASE ~ \E s \in Sups : SupGone(s)
      <4>1. UNCHANGED sup
        BY <1>1, <3>2 DEF HardStop, KillHolder
      <4>2. \A w \in Writers : writer'[w] = writer[w] \/ writer'[w] = Killed(writer[w])
        BY <1>1, <3>2 DEF HardStop, KillHolder
      <4>3. NoSignal
        BY <4>2, SignalForcesSecond DEF NoSignal, Typed
      <4> QED
        BY <4>1, <4>3 DEF GoesOn
    <3> QED
      BY <3>1, <3>2
  <2> QED
    BY <2>1, <2>2, SilentStep
<1>2. CASE \/ ProbeWriter \/ LatchAnyway \/ ReportNotRunning \/ RequestStop
           \/ ProbeSup \/ GiveUp \/ Rearm
  <2>1. \E at : ScriptGoes(at)
    BY <1>2 DEF ProbeWriter, LatchAnyway, ReportNotRunning, RequestStop, ProbeSup, GiveUp, Rearm
  <2>2. UNCHANGED <<sup, writer>> /\ (IF script = "idle" THEN requests' = requests + 1 ELSE requests' = requests)
    BY <2>1 DEF ScriptGoes, Request
  <2>3. requests' \in Nat /\ requests' # 0 /\ (requests' <= 1 => requests <= 1)
    BY <1>0, <2>2
  <2>4. requests' <= 1 => OneRequestDrains' /\ Unsignalled'
    BY <2>2, <2>3 DEF SignalledOnce, OneRequestDrains, Unsignalled
  <2>5. OwnChildren'
    BY <2>2 DEF SignalledOnce, OwnChildren
  <2> QED
    BY <2>3, <2>4, <2>5 DEF SignalledOnce
<1> QED
  BY <1>1, <1>2 DEF ScriptStep

LEMMA StepSignalledOnce == Typed /\ SignalledOnce /\ [SupervisionNext]_supervisionVars => SignalledOnce'
<1> SUFFICES ASSUME Typed, SignalledOnce, [SupervisionNext]_supervisionVars PROVE SignalledOnce'
  OBVIOUS
<1>1. CASE UNCHANGED supervisionVars
  BY <1>1 DEF supervisionVars, SignalledOnce, OwnChildren, Quiet, OneRequestDrains, Unsignalled
<1>2. CASE SupervisionStep
  <2>1. ASSUME NEW w \in Writers, WriterStep(w) \/ WriterEnds(w) \/ WriterStopFile(w)
        PROVE  SignalledOnce'
    <3>1. NoSignal /\ UNCHANGED <<latch, sup, script, requests>>
      BY <2>1, WritersAreSilent
    <3>2. \A t \in Sups : GoesOn(t)
      BY <3>1 DEF GoesOn
    <3> QED
      BY <3>1, <3>2, SilentStep
  <2> QED
    BY <1>2, <2>1, SupervisorSignalsOnce, ScriptSignalsOnce DEF SupervisionStep
<1> QED
  BY <1>1, <1>2 DEF SupervisionNext

(* One request to stop, of whatever kind, never cuts a drain short: no     *)
(* writer gets the second signal that would force it.                      *)
THEOREM OneSignalNeverForces == SupervisionSpec => []OneRequestDrains
<1>1. SupervisionInit => ProcessInv /\ SignalledOnce
  BY InitProcessInv, InitSignalledOnce
<1>2. (ProcessInv /\ SignalledOnce) /\ [SupervisionNext]_supervisionVars => (ProcessInv /\ SignalledOnce)'
  BY StepProcessInv, StepSignalledOnce DEF ProcessInv
<1>3. SignalledOnce => OneRequestDrains
  BY DEF SignalledOnce, OneRequestDrains
<1> QED
  BY <1>1, <1>2, <1>3, PTL DEF SupervisionSpec
=============================================================================
