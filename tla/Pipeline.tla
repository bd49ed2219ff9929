-------------------------------- MODULE Pipeline --------------------------------
(***************************************************************************)
(* The pipeline thread of one camera: frames come off the frame queue one  *)
(* at a time and drive the motion gate, the decoder and the pass tracker.  *)
(* The thread owns all of that state, so one frame is one action; what can *)
(* fail inside a frame (the gate on a malformed image, the decoder) cuts   *)
(* the frame short, is counted, and the loop goes on.                      *)
(*                                                                         *)
(* now, seen and marks are history: the last delivered timestamp, all of   *)
(* them, and those of the frames marked as the first of a new connection.  *)
(***************************************************************************)
EXTENDS MotionGate, PassTracker

CONSTANTS
  HorizonSlack,    \* the 1.0 s the rolling buffer adds to pre- and post-roll
  FrameSteps,      \* how far apart consecutive frames of a connection can be
  GapSteps,        \* how far a reconnect moves the clock
  Seeds,           \* the dedup seeds a start may load from the store
  MaxTs            \* bound: no frame is delivered later than this

ASSUME PipelineAssumption ==
  /\ HorizonSlack \in Nat
  /\ FrameSteps \subseteq Nat \ {0}
  /\ GapSteps \subseteq Nat \ {0}
  /\ \A s \in Seeds : IsWindow(s) /\ \A p \in DOMAIN s : s[p] <= 0
  /\ MaxTs \in Nat

VARIABLES gate, tracker, buffer, now, seen, marks, seeds, done

vars == <<gate, tracker, buffer, now, seen, marks, seeds, done>>

Horizon == PreRoll + PostRoll + HorizonSlack

(* The buffer of every frame so far, as app.py sizes it.                   *)
Buffered(b, ts) == Appended(b, ts, Horizon)

Init ==
  /\ seeds \in Seeds
  /\ gate = NewGate
  /\ tracker = NewTracker(seeds)
  /\ buffer = {}
  /\ now = 0
  /\ seen = {}
  /\ marks = {}
  /\ done = FALSE

(* Where a frame's processing can be cut short by an exception.            *)
Faults == {"none", "gate", "decode"}

CloseIfClosed(t, g, h) ==
  IF Closes(g, h) THEN OnSegmentClose(t, g.openId, g.lastActive) ELSE t

OpenIfOpened(t, g, h, b) ==
  IF Opens(g, h) THEN OnSegmentOpen(t, h.openId, h.backdate, b) ELSE t

(* Mutant: the boundary closes the segment but leaves misses pending.      *)
AtBoundary_KeepsPending(mark) ==
  LET broken == BreakSegment(gate)
  IN  IF mark
      THEN [ gate |-> broken, tracker |-> CloseIfClosed(tracker, gate, broken) ]
      ELSE [ gate |-> gate, tracker |-> tracker ]

(* A marked frame closes the open segment at its last frame before the gap *)
(* and finalizes every pending miss, before it enters the buffer.          *)
AtBoundary(mark) ==
  LET broken == BreakSegment(gate)
  IN  IF mark
      THEN [ gate |-> broken,
             tracker |-> FlushPending(CloseIfClosed(tracker, gate, broken), buffer) ]
      ELSE [ gate |-> gate, tracker |-> tracker ]

(* The decoder runs on the ROI of an active frame while exactly one        *)
(* segment is open, and its results go to the gate's open segment.         *)
DecodeIfActive(t, g, h, moving, read) ==
  IF IsActive(g, moving) /\ Cardinality(t.open) = 1
  THEN OnDecode(t, h.openId, read) ELSE t

(* Mutant: the frame enters the buffer, and evicts, before the deadline    *)
(* work.                                                                   *)
AdvanceClock_BufferFirst(t, ts) == OnFrame(t, ts, Buffered(buffer, ts))

(* The deadline work of a frame runs on the buffer it has not yet entered. *)
AdvanceClock(t, ts) == OnFrame(t, ts, buffer)

ProcessFrame(step, mark, moving, read, fault) ==
  LET ts      == now + step
      at      == AtBoundary(mark)
      clocked == AdvanceClock(at.tracker, ts)
      filled  == Buffered(buffer, ts)
      after   == Update(at.gate, ts, moving)
      opened  == OpenIfOpened(clocked, at.gate, after, filled)
      decoded == DecodeIfActive(opened, at.gate, after, moving, read)
  IN  /\ ~ done
      /\ ts <= MaxTs
      /\ now' = ts
      /\ seen' = seen \cup {ts}
      /\ marks' = IF mark THEN marks \cup {ts} ELSE marks
      /\ buffer' = filled
      /\ \/ /\ fault = "gate"
            /\ gate' = at.gate
            /\ tracker' = clocked
         \/ /\ fault = "decode"
            /\ IsActive(at.gate, moving)
            /\ gate' = after
            /\ tracker' = opened
         \/ /\ fault = "none"
            /\ gate' = after
            /\ tracker' = CloseIfClosed(decoded, at.gate, after)
      /\ UNCHANGED <<seeds, done>>

(* Mutant: the end of the stream leaves misses pending.                    *)
EndOfStream_KeepsPending ==
  LET flushed == Flush(gate)
  IN  /\ ~ done
      /\ done' = TRUE
      /\ gate' = flushed
      /\ tracker' = CloseIfClosed(tracker, gate, flushed)
      /\ UNCHANGED <<buffer, now, seen, marks, seeds>>

(* Sentinel or an exception outside the per-frame guard: both end in the   *)
(* finally block.  gate.flush() has closed the only segment there can be,  *)
(* so the tracker's own flush finds none open and settles the pendings.    *)
EndOfStream ==
  LET flushed == Flush(gate)
  IN  /\ ~ done
      /\ done' = TRUE
      /\ gate' = flushed
      /\ tracker' = FlushPending(CloseIfClosed(tracker, gate, flushed), buffer)
      /\ UNCHANGED <<buffer, now, seen, marks, seeds>>

Next ==
  \/ \E step \in FrameSteps, moving \in BOOLEAN, read \in SUBSET Payloads, fault \in Faults :
       ProcessFrame(step, FALSE, moving, read, fault)
  \/ \E step \in GapSteps, moving \in BOOLEAN, fault \in Faults :
       ProcessFrame(step, TRUE, moving, {}, fault)
  \/ EndOfStream

Spec == Init /\ [][Next]_vars

-----------------------------------------------------------------------------
(* No discontinuity lies in from + 1 .. to.                                *)
SameConnection(from, to) == ~ \E d \in marks : from < d /\ d <= to

TypeOK ==
  /\ gate \in GateType
  /\ IsTracker(tracker)
  /\ IsWindow(seeds)
  /\ buffer \in SUBSET Nat /\ seen \in SUBSET Nat /\ marks \in SUBSET Nat
  /\ now \in Nat
  /\ done \in BOOLEAN

(* on_segment_open/_close, _finalize_segment, _finalize_miss, flush: every *)
(* segment the gate ever opened is in exactly one place - open, waiting    *)
(* for its post-roll, read, or missed - and waits or is missed only once,  *)
(* whatever frames failed on the way; when the stream is over it is read   *)
(* or missed.                                                              *)
EverySegmentAccounted ==
  /\ AccountsFor(tracker, gate.segmentCount)
  /\ NoDoubleMiss(tracker)
  /\ done => OpenIds(tracker) = {} /\ PendingIds(tracker) = {}

(* break_segment and flush_pending before anything else of a marked frame: *)
(* no business event covers both sides of a discontinuity, so a pallet     *)
(* read after a reconnect cannot swallow the miss of the one before it,    *)
(* and no frame from after the gap is evidence of how a pallet left before.*)
NoEventSpansDiscontinuity ==
  /\ \A e \in tracker.passes \cup tracker.merged \cup tracker.misses :
       SameConnection(e.open, e.close)
  /\ \A m \in tracker.misses : \A f \in m.frames :
       f > m.close => SameConnection(m.close, f)

(* The evidence of a segment, against the rolling buffer and the cap of    *)
(* the reservoir.  A segment that opens was fed every frame delivered      *)
(* since its pre-roll, the current one included, that the buffer can hold  *)
(* (on_segment_open), and its reservoir is always an even sample of what   *)
(* it was fed (_FrameReservoir.add).  A miss shows its last active frame   *)
(* and every frame delivered after it up to the deadline, on its side of   *)
(* the next discontinuity (_harvest_post), which depends on the deadline   *)
(* work of a frame running before that frame evicts from the buffer.  Two  *)
(* things excuse a missing frame: its segment lasted for more frames than  *)
(* the reservoir holds, and thinned it; or more frames followed it than    *)
(* the buffer holds.  What was thinned away of the post-roll is there all  *)
(* the same if it is not over the horizon when the miss is emitted.        *)
Fits(f) == f >= now - Horizon /\ ~ Crowded(seen, f, Horizon)

PreRollShown(s) ==
  Range(s.evidence.fed) = { f \in seen : f >= s.open - PreRoll /\ Fits(f) }

Thinned(e, f) == f \in Range(e.fed) /\ Len(e.fed) > ReservoirCap

PostRollShown(m) ==
  \A f \in seen : m.close <= f /\ f < m.close + PostRoll /\ SameConnection(m.close, f)
                    => \/ f \in m.frames
                       \/ Thinned(m.evidence, f)
                       \/ Crowded(seen, f, Horizon)

HeldRestored(m) ==
  \A f \in seen : m.close < f /\ f < m.close + PostRoll /\ Fits(f) => f \in m.frames

EvidenceComplete ==
  [][ /\ \A s \in tracker'.open : s.id \notin OpenIds(tracker) => PreRollShown(s)'
      /\ \A s \in tracker'.open : Sampled(s.evidence)
      /\ \A m \in tracker'.misses : PostRollShown(m)'
      /\ \A m \in tracker'.misses \ tracker.misses : HeldRestored(m) ]_vars

(* on_frame_ts: a frame that reaches the deadline of a waiting miss emits  *)
(* it, although only the head of the list is ever looked at.               *)
EmittedWhenDue ==
  [][ now' # now =>
        \A i \in DOMAIN tracker.pending :
          tracker.pending[i].deadline <= now' =>
            \E m \in tracker'.misses : m.id = tracker.pending[i].id ]_vars

(* The dedup window, from both sides.  Two passes of one payload are       *)
(* emitted for closes more than the window apart, and none within it of a  *)
(* seeded sighting; and the window is refreshed by an emit only, so a      *)
(* merged sighting is within it of one that was emitted or seeded: a       *)
(* pallet parked in view is reported again at least once per window.       *)
PassesKeepTheWindow ==
  /\ \A a, b \in tracker.passes :
       a.payload = b.payload /\ a.close <= b.close /\ a # b
         => b.close - a.close > Window
  /\ \A a \in tracker.passes :
       a.payload \in DOMAIN seeds => a.close - seeds[a.payload] > Window
  /\ \A s \in tracker.merged :
       \/ \E a \in tracker.passes :
            a.payload = s.payload /\ a.close <= s.close /\ s.close - a.close <= Window
       \/ s.payload \in DOMAIN seeds /\ s.close - seeds[s.payload] <= Window

(* The pipeline keeps the promise of SegmentLedger.                        *)
StatusOf(id) ==
  IF id \in OpenIds(tracker) THEN "open"
  ELSE IF id \in PendingIds(tracker) THEN "waiting"
  ELSE IF id \in ReadIds(tracker) THEN "read" ELSE "missed"

Ledger == INSTANCE SegmentLedger
            WITH ledger <- [ id \in 1 .. gate.segmentCount |-> StatusOf(id) ]

ImplementsLedger == Ledger!Spec
=============================================================================
