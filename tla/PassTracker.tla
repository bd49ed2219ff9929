------------------------------ MODULE PassTracker ------------------------------
(***************************************************************************)
(* PassTracker turns motion segments into business events: a segment in    *)
(* which some payload reached the confirmation threshold is a pass (one    *)
(* event per confirmed payload, unless that payload was emitted within the *)
(* dedup window); any other segment is a miss, emitted once its post-roll  *)
(* is complete so that the evidence burst can include it.                  *)
(*                                                                         *)
(* The tracker is called only from the pipeline thread, so like the gate   *)
(* it is a record, and each method an operator from record to record.      *)
(*                                                                         *)
(* Abstraction.  Time is the frame source clock; a frame is its timestamp. *)
(* A segment's decodes are the number of results per payload.  passes,     *)
(* merged and misses are what was emitted, counted and logged so far: the  *)
(* code hands the first and last to the event bus and keeps only their     *)
(* counts.                                                                 *)
(***************************************************************************)
EXTENDS Integers, Sequences, FiniteSets, SequencesExt, Sorting, RollingBuffer

CONSTANTS
  Payloads,        \* the barcode payloads a decode can return
  Confirmations,   \* decodes of one payload that confirm a read
  Window,          \* dedup.window_s
  PreRoll,         \* buffer.pre_s
  PostRoll,        \* buffer.post_s
  ReservoirCap     \* cap of a _FrameReservoir

ASSUME TrackerAssumption ==
  /\ Confirmations \in Nat \ {0}
  /\ Window \in Nat
  /\ PreRoll \in Nat
  /\ PostRoll \in Nat
  /\ ReservoirCap \in Nat \ {0}

(* seeds: payload -> ts of the sightings seed_recent brings over from the  *)
(* previous process, on this process's clock.                              *)
NewTracker(seeds) ==
  [ open    |-> {},
    recent  |-> seeds,
    pending |-> <<>>,
    passes  |-> {},
    merged  |-> {},
    misses  |-> {} ]

-----------------------------------------------------------------------------
(* The evidence of a segment: every stride-th of the frames it was fed.    *)
(* The code keeps the number of those only; the frames are history.        *)

NoFrames == [ fed |-> <<>>, stride |-> 1, frames |-> <<>> ]

EveryOther(s) == [ i \in 1 .. (Len(s) + 1) \div 2 |-> s[2 * i - 1] ]

AddFrame(e, f) ==
  LET kept == IF Len(e.fed) % e.stride = 0 THEN Append(e.frames, f) ELSE e.frames
      full == Len(kept) > ReservoirCap
  IN  [ fed    |-> Append(e.fed, f),
        stride |-> IF full THEN 2 * e.stride ELSE e.stride,
        frames |-> IF full THEN EveryOther(kept) ELSE kept ]

(* What a buffer holds from a time on, fed oldest first.                   *)
PreRolled(buffer, from) ==
  FoldLeft(AddFrame, NoFrames,
           Sorted({ f \in buffer : f >= from }, LAMBDA f, g : f < g))

(* "evenly spaced evidence in bounded memory": the frames are the first of *)
(* every stride up to the last frame fed, all of them until there are more *)
(* than fit, and never fewer than half of what fits after that.            *)
Sampled(e) ==
  /\ Len(e.fed) <= Len(e.frames) * e.stride
  /\ (Len(e.frames) - 1) * e.stride < Len(e.fed)
  /\ \A i \in DOMAIN e.frames : e.frames[i] = e.fed[(i - 1) * e.stride + 1]
  /\ Len(e.frames) <= ReservoirCap
  /\ e.stride = 1 \/ (Len(e.fed) > ReservoirCap /\ 2 * Len(e.frames) > ReservoirCap)

-----------------------------------------------------------------------------
(* Finalizing a segment.                                                   *)

Confirmed(seg) == { p \in Payloads : seg.reads[p] >= Confirmations }

Sighting(seg, p, close) ==
  [ id |-> seg.id, payload |-> p, open |-> seg.open, close |-> close ]

PendingMiss(seg, close) ==
  [ id |-> seg.id, open |-> seg.open, close |-> close,
    deadline |-> close + PostRoll, evidence |-> seg.evidence ]

(* The payload was emitted (or seeded) within the window before close.     *)
IsRepeat(t, p, close) ==
  p \in DOMAIN t.recent /\ close - t.recent[p] <= Window

(* The window is refreshed by an emit only, and entries older than it are  *)
(* dropped after the segment is done.                                      *)
Refresh(recent, emitted, close) ==
  [ p \in { q \in DOMAIN recent \cup emitted :
              q \in emitted \/ recent[q] >= close - Window } |->
      IF p \in emitted THEN close ELSE recent[p] ]

(* Mutant: a segment without a confirmed read just disappears.             *)
FinalizeSegment_DropsMiss(t, seg, close) ==
  LET confirmed == Confirmed(seg)
      emitted   == { p \in confirmed : ~ IsRepeat(t, p, close) }
  IN  [ t EXCEPT
          !.passes = @ \cup { Sighting(seg, p, close) : p \in emitted },
          !.merged = @ \cup { Sighting(seg, p, close) : p \in confirmed \ emitted },
          !.recent = Refresh(@, emitted, close) ]

(* Mutant: a merged sighting refreshes the dedup window too.               *)
FinalizeSegment_RefreshesOnMerge(t, seg, close) ==
  LET confirmed == Confirmed(seg)
      emitted   == { p \in confirmed : ~ IsRepeat(t, p, close) }
  IN  IF confirmed = {}
      THEN [ t EXCEPT !.pending = Append(@, PendingMiss(seg, close)) ]
      ELSE [ t EXCEPT
               !.passes = @ \cup { Sighting(seg, p, close) : p \in emitted },
               !.merged = @ \cup { Sighting(seg, p, close) : p \in confirmed \ emitted },
               !.recent = Refresh(@, confirmed, close) ]

FinalizeSegment(t, seg, close) ==
  LET confirmed == Confirmed(seg)
      emitted   == { p \in confirmed : ~ IsRepeat(t, p, close) }
  IN  IF confirmed = {}
      THEN [ t EXCEPT !.pending = Append(@, PendingMiss(seg, close)) ]
      ELSE [ t EXCEPT
               !.passes = @ \cup { Sighting(seg, p, close) : p \in emitted },
               !.merged = @ \cup { Sighting(seg, p, close) : p \in confirmed \ emitted },
               !.recent = Refresh(@, emitted, close) ]

-----------------------------------------------------------------------------
(* Finalizing misses.  buffer is the rolling buffer when it happens.       *)

(* _harvest_post: the evidence plus the frames of the post-roll.           *)
WithPostRoll(e, close, post, buffer) ==
  Range(e.frames) \cup { f \in buffer : close < f /\ f <= close + post }

Miss(m, buffer) ==
  [ id |-> m.id, open |-> m.open, close |-> m.close, evidence |-> m.evidence,
    frames |-> WithPostRoll(m.evidence, m.close, PostRoll, buffer) ]

FinalizeFirst(t, n, buffer) ==
  [ t EXCEPT !.misses  = @ \cup { Miss(t.pending[i], buffer) : i \in 1 .. n },
             !.pending = SubSeq(@, n + 1, Len(@)) ]

(* Mutant: a miss due exactly now waits for the next frame.                *)
DueCount_Strict(pending, ts) ==
  Cardinality({ n \in 1 .. Len(pending) :
                  \A i \in 1 .. n : pending[i].deadline < ts })

(* The while loop of on_frame_ts pops the head as long as it is due.       *)
DueCount(pending, ts) ==
  Cardinality({ n \in 1 .. Len(pending) :
                  \A i \in 1 .. n : pending[i].deadline <= ts })

OnFrameTs(t, ts, buffer) == FinalizeFirst(t, DueCount(t.pending, ts), buffer)

FlushPending(t, buffer) == FinalizeFirst(t, Len(t.pending), buffer)

-----------------------------------------------------------------------------
(* The methods the pipeline thread calls.                                  *)

OnDecode(t, id, read) ==
  [ t EXCEPT !.open =
      { IF seg.id = id
        THEN [ seg EXCEPT !.reads = [ p \in Payloads |->
                 IF p \in read THEN @[p] + 1 ELSE @[p] ] ]
        ELSE seg : seg \in @ } ]

OnSegmentClose(t, id, close) ==
  LET this == { seg \in t.open : seg.id = id }
      rest == [ t EXCEPT !.open = @ \ this ]
  IN  IF this = {} THEN t
      ELSE FinalizeSegment(rest, CHOOSE seg \in this : TRUE, close)

(* A duplicate id finalizes the segment it would replace; the pre-roll is  *)
(* copied now, because it will have left the buffer by the time it is used.*)
OnSegmentOpen(t, id, open, buffer) ==
  LET seg == [ id |-> id, open |-> open,
               reads    |-> [ p \in Payloads |-> 0 ],
               evidence |-> PreRolled(buffer, open - PreRoll) ]
  IN  [ OnSegmentClose(t, id, open) EXCEPT !.open = @ \cup {seg} ]

(* The frame is evidence for every open segment; then the clock advances.  *)
OnFrame(t, ts, buffer) ==
  OnFrameTs([ t EXCEPT !.open =
                { [ seg EXCEPT !.evidence = AddFrame(@, ts) ] : seg \in @ } ],
            ts, buffer)

-----------------------------------------------------------------------------
(* The tracker's types, and where a segment id can be found in it.         *)

Reservoir ==
  { e \in [ fed : Seq(Nat), stride : Nat \ {0}, frames : Seq(Nat) ] : Sampled(e) }

Segment == [ id : Nat, open : Nat, reads : [Payloads -> Nat], evidence : Reservoir ]
Waiting == [ id : Nat, open : Nat, close : Nat, deadline : Nat, evidence : Reservoir ]
Sighted == [ id : Nat, payload : Payloads, open : Nat, close : Nat ]
Lost    == [ id : Nat, open : Nat, close : Nat, evidence : Reservoir, frames : SUBSET Nat ]

(* payload -> ts for the payloads the dedup window remembers.              *)
IsWindow(r) ==
  /\ r = [ p \in DOMAIN r |-> r[p] ]
  /\ DOMAIN r \subseteq Payloads
  /\ \A p \in DOMAIN r : r[p] \in Int

IsTracker(t) ==
  /\ t \in [ open    : SUBSET Segment,
             recent  : {t.recent},
             pending : Seq(Waiting),
             passes  : SUBSET Sighted,
             merged  : SUBSET Sighted,
             misses  : SUBSET Lost ]
  /\ IsWindow(t.recent)

OpenIds(t)    == { seg.id : seg \in t.open }
PendingIds(t) == { t.pending[i].id : i \in DOMAIN t.pending }
ReadIds(t)    == { s.id : s \in t.passes \cup t.merged }
MissedIds(t)  == { m.id : m \in t.misses }

(* Segments 1 .. n are all there, each in exactly one of the four places.  *)
AccountsFor(t, n) ==
  /\ OpenIds(t) \cup PendingIds(t) \cup ReadIds(t) \cup MissedIds(t) = 1 .. n
  /\ OpenIds(t) \cap (PendingIds(t) \cup ReadIds(t) \cup MissedIds(t)) = {}
  /\ PendingIds(t) \cap (ReadIds(t) \cup MissedIds(t)) = {}
  /\ ReadIds(t) \cap MissedIds(t) = {}

(* An id is waiting at most once and missed at most once.                  *)
NoDoubleMiss(t) ==
  /\ \A i, j \in DOMAIN t.pending : t.pending[i].id = t.pending[j].id => i = j
  /\ \A m, n \in t.misses : m.id = n.id => m = n
=============================================================================
