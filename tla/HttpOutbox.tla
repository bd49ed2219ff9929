------------------------------ MODULE HttpOutbox ------------------------------
(***************************************************************************)
(* HttpSink: the bus thread stores every event in an outbox table and      *)
(* prunes it to its caps; the uploader thread posts the oldest row until   *)
(* it is acknowledged, and deletes it.  The process may die at any time,   *)
(* the table survives.                                                     *)
(*                                                                         *)
(* Every statement that reads or writes what the other thread writes is a  *)
(* step of its own: an autocommitted SQL statement, the shield that tells  *)
(* the pruner which row is in flight, and each change of the counters.     *)
(*                                                                         *)
(* Abstraction.  An event is its seq; all bodies have the size 1.  The age *)
(* cap takes some prefix of the table.  Backoff is the time an uploader    *)
(* stays where it is.                                                      *)
(***************************************************************************)
EXTENDS Integers, Sequences, FiniteSets, SequencesExt

CONSTANTS
  MaxEvents,     \* bound: events handled in all
  Cap,           \* max_mb, in events
  MaxCrashes     \* bound

ASSUME OutboxAssumption ==
  MaxEvents \in Nat /\ Cap \in Nat /\ MaxCrashes \in Nat

Seqs == 1 .. MaxEvents
None == 0

VARIABLES
  outbox,     \* the table, a set of seqs
  inserted,   \* rows ever inserted
  bus,        \* the bus thread: where, its snapshot of the shield, the size it
              \* reckons with, the row it chose and how many it pruned
  uploader,   \* the uploader thread: where, and its row
  inFlight,   \* _in_flight_seq
  stop,       \* close() has been called
  delivered, dropped,   \* the counters
  received,   \* what the endpoint has seen, first receipts in order
  uncounted,  \* rows of this process deleted by a _prune that then raised
  crashes,
  base        \* of this process: rows it found, events inserted and lost before

counters  == <<delivered, dropped>>
outboxVars == <<outbox, inserted, bus, uploader, inFlight, stop, counters, received,
                uncounted, crashes, base>>

IdleBus == [ at |-> "idle", shield |-> None, size |-> 0, row |-> None, pruned |-> 0 ]
Looking == [ at |-> "select", row |-> None ]

OutboxInit ==
  /\ outbox = {} /\ inserted = 0
  /\ bus = IdleBus /\ uploader = Looking
  /\ inFlight = None /\ stop = FALSE
  /\ delivered = 0 /\ dropped = 0
  /\ received = <<>> /\ uncounted = 0
  /\ crashes = 0
  /\ base = [ rows |-> 0, inserted |-> 0, lost |-> {} ]

(* ORDER BY seq LIMIT 1, for both threads.                                 *)
Oldest(rows) == CHOOSE r \in rows : \A o \in rows : r <= o

-----------------------------------------------------------------------------
(* The bus thread: handle() and _prune().                                  *)

(* Mutant: clamped at zero.                                                *)
Adjusted_Clamped(delta) == IF dropped + delta < 0 THEN 0 ELSE dropped + delta

(* _adjust_dropped, under its lock.                                        *)
Adjusted(delta) == dropped + delta

BusOnly == UNCHANGED <<uploader, inFlight, delivered, received, crashes, base>>

(* INSERT, autocommitted; or it raises and the event is the bus's error.   *)
Insert ==
  /\ bus.at = "idle" /\ ~ stop /\ inserted < MaxEvents
  /\ inserted' = inserted + 1
  /\ outbox' = outbox \cup {inserted + 1}
  /\ bus' = [ bus EXCEPT !.at = "snapshot" ]
  /\ UNCHANGED <<stop, dropped, uncounted>> /\ BusOnly

Snapshot ==
  /\ bus.at = "snapshot"
  /\ bus' = [ bus EXCEPT !.at = "age", !.shield = inFlight ]
  /\ UNCHANGED <<outbox, inserted, stop, dropped, uncounted>> /\ BusOnly

RowCount(rows) == Cardinality(rows)

(* DELETE what is too old; its rowcount is added to dropped later.         *)
AgePrune ==
  /\ bus.at = "age"
  /\ \E n \in 0 .. inserted :
       LET aged == { r \in outbox : r <= n } \ {bus.shield}
       IN  /\ outbox' = outbox \ aged
           /\ bus' = [ bus EXCEPT !.at = "count aged", !.pruned = RowCount(aged) ]
  /\ UNCHANGED <<inserted, stop, dropped, uncounted>> /\ BusOnly

CountDropped ==
  /\ bus.at \in {"count aged", "count"}
  /\ dropped' = Adjusted(bus.pruned)
  /\ bus' = IF bus.at = "count" THEN IdleBus ELSE [ bus EXCEPT !.at = "size", !.pruned = 0 ]
  /\ UNCHANGED <<outbox, inserted, stop, uncounted>> /\ BusOnly

MeasureSize ==
  /\ bus.at = "size"
  /\ bus' = [ bus EXCEPT !.at = "choose", !.size = Cardinality(outbox) ]
  /\ UNCHANGED <<outbox, inserted, stop, dropped, uncounted>> /\ BusOnly

OverCap == bus.size > Cap

(* The oldest row not in flight, while the table is over the cap.          *)
ChooseVictim ==
  /\ bus.at = "choose"
  /\ LET rows == outbox \ {bus.shield}
     IN  bus' = IF OverCap /\ rows # {} THEN [ bus EXCEPT !.at = "delete", !.row = Oldest(rows) ]
                ELSE [ bus EXCEPT !.at = "count" ]
  /\ UNCHANGED <<outbox, inserted, stop, dropped, uncounted>> /\ BusOnly

Taken == IF bus.row \in outbox THEN 1 ELSE 0

(* DELETE it; the uploader may have been first.                            *)
DeleteVictim ==
  /\ bus.at = "delete"
  /\ bus' = [ bus EXCEPT !.at = "choose", !.size = @ - 1, !.row = None, !.pruned = @ + Taken ]
  /\ outbox' = outbox \ {bus.row}
  /\ UNCHANGED <<inserted, stop, dropped, uncounted>> /\ BusOnly

(* A statement of _prune raises; handle() passes it on to the bus, and how *)
(* many rows were pruned is forgotten.                                     *)
PruneFails ==
  /\ bus.at \in {"age", "size", "choose", "delete"}
  /\ bus' = IdleBus
  /\ uncounted' = uncounted + bus.pruned
  /\ UNCHANGED <<outbox, inserted, stop, dropped>> /\ BusOnly

Close ==
  /\ bus.at = "idle" /\ ~ stop
  /\ stop' = TRUE
  /\ UNCHANGED <<outbox, inserted, bus, dropped, uncounted>> /\ BusOnly

-----------------------------------------------------------------------------
(* The uploader thread: _upload_loop().                                    *)

UploaderOnly == UNCHANGED <<inserted, bus, stop, uncounted, crashes, base>>

(* The oldest row; an empty table is looked at again.                      *)
Select ==
  /\ uploader.at = "select"
  /\ IF stop THEN uploader' = [ uploader EXCEPT !.at = "done" ]
     ELSE outbox # {} /\ uploader' = [ at |-> "shield", row |-> Oldest(outbox) ]
  /\ UNCHANGED <<outbox, inFlight, counters, received>> /\ UploaderOnly

Shield ==
  /\ uploader.at = "shield"
  /\ inFlight' = uploader.row
  /\ uploader' = [ uploader EXCEPT !.at = "post" ]
  /\ UNCHANGED <<outbox, counters, received>> /\ UploaderOnly

Reception(r) ==
  received' = IF r \in ToSet(received) THEN received ELSE Append(received, r)

(* A 2xx answer: the endpoint has it.                                      *)
PostAnswered ==
  /\ uploader.at = "post"
  /\ Reception(uploader.row)
  /\ uploader' = [ uploader EXCEPT !.at = "ack" ]
  /\ UNCHANGED <<outbox, inFlight, counters>> /\ UploaderOnly

(* Mutant: a failed attempt ends the thread.                               *)
Retry_Never == [ at |-> "done", row |-> None ]

(* The backoff, and around the loop.                                       *)
Retry == Looking

(* No answer, or another one; the endpoint may have it all the same.  The  *)
(* shield goes before the backoff.                                         *)
PostFails ==
  /\ uploader.at = "post"
  /\ UNCHANGED received \/ Reception(uploader.row)
  /\ inFlight' = None
  /\ uploader' = Retry
  /\ UNCHANGED <<outbox, counters>> /\ UploaderOnly

Ack ==
  /\ uploader.at = "ack"
  /\ outbox' = outbox \ {uploader.row}
  /\ uploader' = [ uploader EXCEPT !.at = IF uploader.row \in outbox THEN "acked" ELSE "pruned" ]
  /\ UNCHANGED <<inFlight, counters, received>> /\ UploaderOnly

(* The DELETE raises: the row will be sent again.                          *)
AckFails ==
  /\ uploader.at = "ack"
  /\ inFlight' = None
  /\ uploader' = Retry
  /\ UNCHANGED <<outbox, counters, received>> /\ UploaderOnly

CountDelivered ==
  /\ uploader.at \in {"acked", "pruned"}
  /\ inFlight' = None
  /\ delivered' = delivered + 1
  /\ uploader' = IF uploader.at = "acked" THEN Looking ELSE [ uploader EXCEPT !.at = "reconcile" ]
  /\ UNCHANGED <<outbox, dropped, received>> /\ UploaderOnly

(* The pruner has counted the row or will; it was delivered, so it is not  *)
(* dropped.                                                                *)
Reconcile ==
  /\ uploader.at = "reconcile"
  /\ dropped' = Adjusted(-1)
  /\ uploader' = Looking
  /\ UNCHANGED <<outbox, inFlight, delivered, received>> /\ UploaderOnly

-----------------------------------------------------------------------------
Lost == (1 .. inserted) \ (outbox \cup ToSet(received))

(* The process dies, or has returned, and another one finds the table.     *)
StartAgain ==
  /\ crashes < MaxCrashes
  /\ crashes' = crashes + 1
  /\ bus' = IdleBus /\ uploader' = Looking
  /\ inFlight' = None /\ stop' = FALSE
  /\ delivered' = 0 /\ dropped' = 0
  /\ base' = [ rows |-> Cardinality(outbox), inserted |-> inserted, lost |-> Lost ]
  /\ uncounted' = 0
  /\ UNCHANGED <<outbox, inserted, received>>

(* close() has joined the uploader.                                        *)
Done ==
  /\ stop /\ uploader.at = "done"
  /\ UNCHANGED outboxVars

BusStep ==
  \/ Snapshot \/ AgePrune \/ CountDropped \/ MeasureSize \/ ChooseVictim
  \/ DeleteVictim \/ PruneFails

UploaderStep ==
  \/ Select \/ Shield \/ PostAnswered \/ PostFails \/ Ack \/ AckFails
  \/ CountDelivered \/ Reconcile

OutboxNext == Insert \/ BusStep \/ Close \/ UploaderStep \/ StartAgain \/ Done

(* Threads run; an endpoint that is asked often enough answers, and the    *)
(* table is not locked for ever.                                           *)
OutboxSpec ==
  /\ OutboxInit /\ [][OutboxNext]_outboxVars
  /\ WF_outboxVars(BusStep) /\ WF_outboxVars(UploaderStep)
  /\ SF_outboxVars(PostAnswered) /\ SF_outboxVars(Ack)

-----------------------------------------------------------------------------
OutboxTypeOK ==
  /\ outbox \subseteq Seqs /\ inserted \in 0 .. MaxEvents
  /\ bus \in [ at : {"idle", "snapshot", "age", "count aged", "size", "choose", "delete", "count"},
               shield : Seqs \cup {None}, size : Int, row : Seqs \cup {None}, pruned : Nat ]
  /\ uploader \in [ at : {"select", "shield", "post", "ack", "acked", "pruned", "reconcile", "done"},
                    row : Seqs \cup {None} ]
  /\ inFlight \in Seqs \cup {None} /\ stop \in BOOLEAN
  /\ delivered \in Nat /\ dropped \in Int
  /\ received \in Seq(Seqs) /\ uncounted \in Nat
  /\ crashes \in 0 .. MaxCrashes
  /\ base \in [ rows : Nat, inserted : 0 .. MaxEvents, lost : SUBSET Seqs ]

(* The ledger: whenever neither thread is between a deletion and its count,*)
(* every row of this process is stored, delivered or dropped, but for the  *)
(* rows a failed prune has forgotten.  "Clamping would absorb the          *)
(* decrement and permanently overcount."  What was delivered arrived in    *)
(* insertion order, through failures, retries, prunes and restarts.        *)
LedgerBalances ==
  /\ bus.at = "idle" /\ uploader.at \notin {"acked", "pruned", "reconcile"} =>
       base.rows + (inserted - base.inserted) =
         Cardinality(outbox) + delivered + dropped + uncounted
  /\ \A i, j \in DOMAIN received : i < j => received[i] < received[j]

(* Refuted, from "counted and logged drops, account-for-everything applies *)
(* to the outbox too": whatever the endpoint never saw is stored or        *)
(* counted.                                                                *)
EveryDropIsCounted ==
  bus.at = "idle" => Cardinality(Lost \ base.lost) <= dropped

(* At least once: a row is not stored for ever, close() excepted.          *)
StoredIsSent ==
  \A r \in Seqs : r \in outbox ~> (r \notin outbox \/ stop)
=============================================================================
