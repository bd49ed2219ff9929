--------------------------- MODULE CrossCameraDedup ---------------------------
(***************************************************************************)
(* CrossCameraDeduper and the store behind it: the passes of all cameras   *)
(* are merged into business passes, every merge is published again with a  *)
(* higher revision, and SqliteSink keeps the newest revision of each.      *)
(*                                                                         *)
(* A submit is two steps: the merge under the lock, and the publication    *)
(* outside it, so that two cameras' publications may overtake each other.  *)
(* The process may die at any time; the next one seeds its windows from    *)
(* the stored rows.                                                        *)
(*                                                                         *)
(* Abstraction.  Time is in ticks.  Source clocks start at 0 with each     *)
(* process, at wall time epoch; what a process has not seen a frame of it  *)
(* cannot have stored, so the next one starts no earlier unless the wall   *)
(* clock is stepped.  Of a pass the payload, its cameras, its last ts, its *)
(* revision and its wall stamp are kept.  What may fail or get lost on the *)
(* way between publish() and the sink is the subject of EventDelivery.     *)
(* "Per-camera event timestamps are monotonic": a camera's passes come in  *)
(* the order of their closes, as single-object tracking emits them.        *)
(***************************************************************************)
EXTENDS Integers, FiniteSets

CONSTANTS
  Cameras,
  Payloads,
  Window,       \* dedup.window_s
  Slack,        \* slack_s of load_restart_seeds
  MaxTracked,   \* _MAX_TRACKED
  Gaps,         \* downtimes of a restart; a negative one is a clock step
  MaxTs,        \* bound: the source time a process reaches
  MaxPasses,    \* bound: passes submitted in all
  MaxRestarts   \* bound

ASSUME DedupAssumption ==
  /\ Cameras # {}
  /\ Window \in Nat /\ Slack \in Nat /\ MaxTracked \in Nat
  /\ Gaps \subseteq Int
  /\ MaxTs \in Nat /\ MaxPasses \in Nat /\ MaxRestarts \in Nat

Ticks  == 0 .. MaxTs
Silent == -1                             \* a high water of minus infinity
Ids    == 1 .. MaxPasses
SeedId == 0                              \* _PayloadState.event is None

VARIABLES
  tracked,     \* _state: the window entries of all payloads
  highWater,   \* _high_waters
  forced,      \* a forced eviction has been counted, in this run or before
  publishing,  \* camera -> the pass its bus thread is publishing, if any
  store,       \* the pass rows of the events table
  clock,       \* camera -> latest close its tracker has emitted
  passes,      \* passes submitted so far
  epoch,       \* wall time of this process's ts 0
  restarts,
  stepped      \* the wall clock has been stepped back between two runs

vars == <<tracked, highWater, forced, publishing, store, clock, passes, epoch,
          restarts, stepped>>

Larger(a, b) == IF a > b THEN a ELSE b
Apart(a, b)  == IF a > b THEN a - b ELSE b - a

Row == [ id : Ids, payload : Payloads, cameras : SUBSET Cameras, last : Ticks,
         revision : 0 .. MaxPasses, wall : Int ]
NoRow == [ id |-> SeedId ]

Init ==
  /\ tracked = {}
  /\ highWater = [ c \in Cameras |-> Silent ]
  /\ forced = FALSE
  /\ publishing = [ c \in Cameras |-> NoRow ]
  /\ store = {}
  /\ clock = [ c \in Cameras |-> 0 ]
  /\ passes = 0 /\ epoch = 0 /\ restarts = 0 /\ stepped = FALSE

-----------------------------------------------------------------------------
(* Eviction.                                                               *)

(* Mutant: the fastest camera's progress evicts.                           *)
Reachable_Fastest(high) ==
  { e \in tracked : \A c \in Cameras : e.anchor >= high[c] - Window }

(* Entries older than the slowest camera's high water less the window go;  *)
(* a camera that has not spoken yet keeps them all.                        *)
Reachable(high) ==
  { e \in tracked : \E c \in Cameras : high[c] = Silent \/ e.anchor >= high[c] - Window }

(* Beyond the cap the oldest go, reachable or not.                         *)
Survivors(high) ==
  LET live == Reachable(high)
      over == Cardinality(live) - MaxTracked
  IN  IF over <= 0 THEN { live }
      ELSE { kept \in SUBSET live :
               /\ Cardinality(kept) = MaxTracked
               /\ \A e \in live \ kept, k \in kept : e.anchor <= k.anchor }

-----------------------------------------------------------------------------
(* submit() of a pass: _absorb, under the lock.                            *)

Noted(c, ts) == [ highWater EXCEPT ![c] = Larger(@, ts) ]

Matches(entries, p, ts) ==
  { e \in entries : e.payload = p /\ Apart(ts, e.anchor) <= Window }

(* The nearest anchor, of two equally near ones the older.                 *)
Nearest(entries, ts) ==
  CHOOSE e \in entries : \A o \in entries :
    \/ Apart(ts, e.anchor) < Apart(ts, o.anchor)
    \/ Apart(ts, e.anchor) = Apart(ts, o.anchor) /\ e.anchor <= o.anchor

(* A pass nobody has seen: its own window entry, appended.                 *)
EmitNew(c, p, ts, kept) ==
  LET row == [ id |-> passes + 1, payload |-> p, cameras |-> {c}, last |-> ts,
               revision |-> 0, wall |-> epoch + ts ]
  IN  /\ tracked' = kept \cup { [ payload |-> p, anchor |-> ts, row |-> row ] }
      /\ publishing' = [ publishing EXCEPT ![c] = row ]

Suppress(kept) == tracked' = kept /\ UNCHANGED publishing

(* Another camera's sighting: same id, next revision, anchor as it was.    *)
Merge(c, e, ts, kept) ==
  LET row == [ e.row EXCEPT !.cameras = @ \cup {c}, !.last = Larger(@, ts), !.revision = @ + 1 ]
  IN  /\ tracked' = (kept \ {e}) \cup { [ e EXCEPT !.row = row ] }
      /\ publishing' = [ publishing EXCEPT ![c] = row ]

Idle(c) == publishing[c] = NoRow

SubmitPass(c, p, ts) ==
  /\ Idle(c) /\ passes < MaxPasses /\ ts >= clock[c]
  /\ passes' = passes + 1
  /\ clock' = [ clock EXCEPT ![c] = ts ]
  /\ highWater' = Noted(c, ts)
  /\ forced' = (forced \/ Cardinality(Reachable(Noted(c, ts))) > MaxTracked)
  /\ \E kept \in Survivors(Noted(c, ts)) :
       LET near == Matches(kept, p, ts)
           e    == Nearest(near, ts)
       IN  \/ near = {} /\ EmitNew(c, p, ts, kept)
           \/ near # {} /\ e.row = NoRow /\ Suppress(kept)
           \/ near # {} /\ e.row # NoRow /\ c \in e.row.cameras /\ Suppress(kept)
           \/ near # {} /\ e.row # NoRow /\ c \notin e.row.cameras /\ Merge(c, e, ts, kept)
  /\ UNCHANGED <<store, epoch, restarts, stepped>>

(* submit() of a miss proves how far the camera is.  Misses wait for their *)
(* evidence, so a miss may be older than the passes already submitted.     *)
SubmitMiss(c, ts) ==
  /\ Idle(c)
  /\ clock' = [ clock EXCEPT ![c] = Larger(@, ts) ]
  /\ highWater' = Noted(c, ts)
  /\ UNCHANGED <<tracked, forced, publishing, store, passes, epoch, restarts, stepped>>

-----------------------------------------------------------------------------
(* publish(), outside the lock, and SqliteSink's upsert.                   *)

(* Mutant: the row written last stays.                                     *)
Upserted_LastWins(row) == { r \in store : r.id # row.id } \cup {row}

(* A stale revision is a no-op.                                            *)
Upserted(row) ==
  IF \E r \in store : r.id = row.id /\ r.revision > row.revision THEN store
  ELSE { r \in store : r.id # row.id } \cup {row}

Publish(c) ==
  /\ ~ Idle(c)
  /\ store' = Upserted(publishing[c])
  /\ publishing' = [ publishing EXCEPT ![c] = NoRow ]
  /\ UNCHANGED <<tracked, highWater, forced, clock, passes, epoch, restarts, stepped>>

-----------------------------------------------------------------------------
(* A crash or an orderly end, and the next process: load_restart_seeds and *)
(* seed().                                                                 *)

(* Stored near this start, and not after it.                               *)
Usable(r, start) == r.wall >= start - Window - Slack /\ r.wall <= start

(* The newest usable row of each payload, on the new source clock.         *)
Seeds(start) ==
  LET rows == { r \in store : Usable(r, start) }
      newest == { r \in rows : \A o \in rows : o.payload = r.payload => o.wall <= r.wall }
  IN  { [ payload |-> r.payload, anchor |-> -Larger(start - r.wall, 0), row |-> NoRow ] :
          r \in newest }

Reached == CHOOSE t \in { clock[c] : c \in Cameras } : \A c \in Cameras : clock[c] <= t

Restart(gap) ==
  LET start == epoch + Reached + gap
  IN  /\ restarts < MaxRestarts
      /\ restarts' = restarts + 1
      /\ epoch' = start
      /\ stepped' = (stepped \/ gap < 0)
      /\ tracked' = Seeds(start)
      /\ highWater' = [ c \in Cameras |-> Silent ]
      /\ publishing' = [ c \in Cameras |-> NoRow ]
      /\ clock' = [ c \in Cameras |-> 0 ]
      /\ UNCHANGED <<forced, store, passes>>

Next ==
  \/ \E c \in Cameras :
       \/ \E ts \in Ticks : SubmitMiss(c, ts) \/ \E p \in Payloads : SubmitPass(c, p, ts)
       \/ Publish(c)
  \/ \E gap \in Gaps : Restart(gap)

Spec == Init /\ [][Next]_vars

-----------------------------------------------------------------------------
Entry == [ payload : Payloads, anchor : Int, row : Row \cup {NoRow} ]

(* Types, and the cap: one more than MaxTracked, because the cap is        *)
(* enforced before the new entry is appended; seeds are one per payload.   *)
TypeOK ==
  /\ tracked \subseteq Entry
  /\ Cardinality(tracked) <= Larger(MaxTracked + 1, Cardinality(Payloads))
  /\ highWater \in [ Cameras -> Ticks \cup {Silent} ]
  /\ publishing \in [ Cameras -> Row \cup {NoRow} ]
  /\ store \subseteq Row
  /\ clock \in [ Cameras -> Ticks ]
  /\ passes \in 0 .. MaxPasses /\ epoch \in Int /\ restarts \in 0 .. MaxRestarts
  /\ forced \in BOOLEAN /\ stepped \in BOOLEAN

(* No pallet pass is counted twice: "anchors of one payload are pairwise   *)
(* more than window_s apart", with merges, lagging cameras, evictions and  *)
(* seeds, and so are two business passes of one payload, stored or about   *)
(* to be, of this run or an earlier one, unless the cap has forced an      *)
(* eviction (counted) or the wall clock was stepped.                       *)
NoDoubleCount ==
  /\ \A e, o \in tracked : e.payload = o.payload /\ e # o => Apart(e.anchor, o.anchor) > Window
  /\ forced \/ stepped \/
       LET rows == store \cup { publishing[c] : c \in { d \in Cameras : ~ Idle(d) } }
       IN  \A r, o \in rows :
             r.payload = o.payload /\ r.id # o.id => Apart(r.wall, o.wall) > Window

(* The store never falls behind the merge: a tracked pass nobody is        *)
(* publishing is stored in its latest revision, whatever overtook what.    *)
(* Merges and repeats do not extend the window (the parked-pallet rule),   *)
(* so a tracked pass ends within the window after its first close.         *)
StoreIsCurrent ==
  \A e \in { t \in tracked : t.row # NoRow } :
    /\ (\A c \in Cameras : publishing[c] = NoRow \/ publishing[c].id # e.row.id)
         => e.row \in store
    /\ e.row.last + epoch <= e.row.wall + Window
=============================================================================
