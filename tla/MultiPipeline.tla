----------------------------- MODULE MultiPipeline -----------------------------
(***************************************************************************)
(* The pipeline thread in multi-object mode with recording on: several     *)
(* segments are open at once, the live tracks of a frame are decoded one   *)
(* after another under one budget, and every finalized segment is also a   *)
(* burst for the recorder.  The thread's work on one frame is one action,  *)
(* cut short where a decode raises; the recorder's writer is a thread of   *)
(* its own.                                                                *)
(*                                                                         *)
(* Abstraction.  As in Pipeline, with a frame's index equal to its         *)
(* timestamp.  now, seen, marks, scene (the mask of the last frame the     *)
(* gate classified) and bursts are history; hits is the timestamp of the   *)
(* last decode of each segment.                                            *)
(***************************************************************************)
EXTENDS MultiGate, PassTracker, SegmentRecorder

CONSTANTS
  RecordPost,      \* recording.post_s
  HorizonSlack,    \* as in Pipeline
  Masks,           \* the motion masks a frame may show
  FrameSteps,      \* how far apart consecutive frames can be
  MaxTs            \* bound: no frame is delivered later than this

ASSUME MultiAssumption ==
  /\ Payloads # {}
  /\ RecordPost \in Nat /\ HorizonSlack \in Nat /\ MaxTs \in Nat
  /\ Masks \subseteq SUBSET Cells
  /\ FrameSteps \subseteq Nat \ {0}

VARIABLES gate, tracker, records, buffer, hits, now, seen, marks, scene, bursts, done

pipelineVars == <<gate, tracker, records, buffer, hits, now, seen, marks, scene, bursts, done>>
vars == <<pipelineVars, recorder>>

(* A burst is harvested over its own post-roll, which may be the longer.   *)
Horizon == PreRoll + Max({PostRoll, RecordPost}) + HorizonSlack

Buffered(b, ts) == Appended(b, ts, Horizon)

Init ==
  /\ gate = NewMultiGate
  /\ tracker = NewTracker([ p \in {} |-> 0 ])
  /\ records = <<>> /\ bursts = {}
  /\ buffer = {} /\ seen = {} /\ marks = {} /\ scene = {}
  /\ hits = [ id \in {} |-> 0 ]
  /\ now = 0
  /\ done = FALSE
  /\ recorder = NewRecorder

-----------------------------------------------------------------------------
(* The tracker with its recordings: a desk is the tracker, the records     *)
(* waiting for their post-roll and the bursts harvested in this step.      *)

Desk == [ tracker |-> tracker, records |-> records, out |-> <<>> ]

(* _finalize_segment: a pass and a miss alike leave a record.              *)
CloseOne(d, id, close) ==
  LET this == { seg \in d.tracker.open : seg.id = id }
  IN  [ d EXCEPT !.tracker = OnSegmentClose(@, id, close),
                 !.records = @ \o IF this = {} THEN <<>> ELSE
                   << [ id |-> id, close |-> close, deadline |-> close + RecordPost,
                        evidence |-> (CHOOSE seg \in this : TRUE).evidence ] >> ]

CloseAll(d, closes) == FoldLeft(LAMBDA e, c : CloseOne(e, c.id, c.ts), d, closes)

(* _finalize_record, on the buffer at that time.                           *)
Burst(r, b) ==
  [ id |-> r.id, close |-> r.close, evidence |-> r.evidence,
    frames |-> WithPostRoll(r.evidence, r.close, RecordPost, b) ]

Harvest(d, n, b) ==
  [ d EXCEPT !.records = SubSeq(@, n + 1, Len(@)),
             !.out = @ \o [ i \in 1 .. n |-> Burst(d.records[i], b) ] ]

(* on_frame: evidence, due misses, due records.                            *)
Clocked(d, ts, b) ==
  Harvest([d EXCEPT !.tracker = OnFrame(@, ts, b)], DueCount(d.records, ts), b)

(* flush_pending.                                                          *)
Settled(d, b) ==
  Harvest([d EXCEPT !.tracker = FlushPending(@, b)], Len(d.records), b)

(* flush: what the gate no longer knows is closed at its last decode.      *)
Flushed(d, b) ==
  LET open == Sorted(d.tracker.open, LAMBDA s, t : s.id < t.id)
      last(s) == IF s.id \in DOMAIN hits THEN hits[s.id] ELSE s.open
  IN  Settled(CloseAll(d, [ i \in DOMAIN open |-> [id |-> open[i].id, ts |-> last(open[i])] ]), b)

OpenAll(d, opens, b) ==
  FoldLeft(LAMBDA e, o : [e EXCEPT !.tracker = OnSegmentOpen(@, o.id, o.ts, b)], d, opens)

(* What the bursts of a step do to the recorder, and the step's result.    *)
Leave(d) ==
  /\ tracker' = d.tracker
  /\ records' = d.records
  /\ bursts' = bursts \cup { d.out[i] : i \in DOMAIN d.out }
  /\ recorder' = FoldLeft(LAMBDA r, x : Submit(r, x.id), recorder, d.out)

-----------------------------------------------------------------------------
(* Decoding: run is what the decodes that completed returned, one after    *)
(* another; it is shorter than the number of live tracks when the budget   *)
(* ran out or the next decode raised.                                      *)

Live(g) == InOrder(g.tracks, { i \in DOMAIN g.tracks : IsLive(g.tracks[i]) })

(* The order of the tracks of a frame starts at the frame's index modulo   *)
(* their number; the index advances with ts, one frame at a time.          *)
Turn(ts, n, k) == (((ts % n) + (k - 1)) % n) + 1

(* The segments of the tracks that gave a read.                            *)
HitIds(live, ts, run) ==
  { live[Turn(ts, Len(live), k)].openId : k \in { j \in DOMAIN run : run[j] } }

(* Mutant: the decodes of a frame go to its primary track.                 *)
Routed_Primary(live, ids) == IF ids = {} THEN {} ELSE {live[1].openId}

(* A decode goes to the segment of the track it was taken from.            *)
Routed(live, ids) == ids

DecodeAll(d, ids) ==
  [ d EXCEPT !.tracker.open =
      { IF s.id \in ids THEN [s EXCEPT !.reads = [p \in Payloads |-> @[p] + 1]] ELSE s : s \in @ } ]

Runs(n) == UNION { [ 1 .. k -> BOOLEAN ] : k \in 0 .. n }

(* The decodes of a frame and its CLOSE events; a decode that raises takes *)
(* the decodes after it and the CLOSE events with it.                      *)
DecodeStep(ts, d, live, closes) ==
  \E run \in Runs(Len(live)), raised \in BOOLEAN :
    LET ids  == HitIds(live, ts, run)
        read == DecodeAll(d, Routed(live, ids))
    IN  /\ IF raised THEN Len(run) < Len(live) ELSE Len(run) > 0 \/ Len(live) = 0
        /\ hits' = [ id \in DOMAIN hits \cup ids |-> IF id \in ids THEN ts ELSE hits[id] ]
        /\ Leave(IF raised THEN read ELSE CloseAll(read, closes))

(* What follows the gate: OPEN events, decodes, CLOSE events.              *)
Classified(ts, d, result) ==
  /\ gate' = result.gate
  /\ DecodeStep(ts, OpenAll(d, result.opens, Buffered(buffer, ts)),
                Live(result.gate), result.closes)

(* A discontinuity closes what the old connection had open, before the     *)
(* frame reaches the buffer.                                               *)
Cut(mark) ==
  IF mark THEN Settled(CloseAll(Desk, BreakMulti(gate).closes), buffer) ELSE Desk

(* _process_frame.                                                         *)
ProcessFrame(step, mark, mask) ==
  LET ts   == now + step
      base == IF mark THEN BreakMulti(gate).gate ELSE gate
  IN  /\ ~ done /\ ts <= MaxTs
      /\ now' = ts /\ seen' = seen \cup {ts} /\ scene' = mask
      /\ marks' = IF mark THEN marks \cup {ts} ELSE marks
      /\ buffer' = Buffered(buffer, ts)
      /\ Classified(ts, Clocked(Cut(mark), ts, buffer), UpdateMulti(base, ts, mask))
      /\ UNCHANGED done

(* The finally block of _pipeline_loop.                                    *)
EndOfStream ==
  /\ ~ done /\ done' = TRUE
  /\ gate' = FlushMulti(gate).gate
  /\ Leave(Flushed(CloseAll(Desk, FlushMulti(gate).closes), buffer))
  /\ UNCHANGED <<buffer, hits, now, seen, marks, scene>>

FrameStep ==
  \E step \in FrameSteps, mark \in BOOLEAN, mask \in Masks : ProcessFrame(step, mark, mask)

RecorderStep ==
  /\ Writer \/ Stopper \/ (done /\ StopBegins)
  /\ UNCHANGED pipelineVars

Next == FrameStep \/ EndOfStream \/ RecorderStep

(* run() reaches the recorder's shutdown, whose waits are bounded; nothing *)
(* is asked of the writer.                                                 *)
Spec ==
  /\ Init /\ [][Next]_vars
  /\ WF_vars(Stopper /\ UNCHANGED pipelineVars)
  /\ WF_vars(done /\ StopBegins /\ UNCHANGED pipelineVars)

-----------------------------------------------------------------------------
SameConnection(from, to) == ~ \E d \in marks : from < d /\ d <= to

RecordIds == { records[i].id : i \in DOMAIN records }

(* on_decode by track id: a segment counts as read exactly when its own    *)
(* track was decoded, so a pallet that was read never swallows the miss of *)
(* the one beside it.                                                      *)
ReadsStayOnTrack ==
  /\ ReadIds(tracker) \subseteq DOMAIN hits
  /\ Confirmations = 1 => MissedIds(tracker) \cap DOMAIN hits = {}

(* _associate: while every track rides an object of its own that stands    *)
(* where it stood, no segment is given up, however close the objects are.  *)
Riding(i) ==
  /\ \E j \in DOMAIN SegmentBlobs(scene') : gate.tracks[i].roi = SegmentBlobs(scene')[j]
  /\ \A k \in DOMAIN gate.tracks : gate.tracks[k].roi = gate.tracks[i].roi => k = i

StandingObjectsKeepTracks ==
  [][ now' # now /\ now' \notin marks' /\ (\A i \in DOMAIN gate.tracks : Riding(i))
        => OpenTracks(gate) \subseteq OpenTracks(gate') ]_vars

(* Refuted, from "A track matched 1:1 to its own distinct blob is NEVER a  *)
(* merge candidate" in _associate: a track keeps its segment when its own  *)
(* object stands where it stood.                                           *)
OwnBlobKeepsTrack ==
  [][ now' # now /\ now' \notin marks' =>
        \A i \in DOMAIN gate.tracks :
          Riding(i) => gate.tracks[i].openId \in OpenTracks(gate') \cup {NoId} ]_vars

(* The debounce of a segment is shorter than the rolling buffer.  Nothing  *)
(* in the code checks it.                                                  *)
DebounceFits == \A step \in FrameSteps : (OpenFrames - 1) * step <= Horizon

(* _harvest_post for misses and recordings: both show every frame from the *)
(* close to their own post-roll on their side of a discontinuity, although *)
(* closes fall due out of order and the two post-rolls differ; except what *)
(* the reservoir thinned of a segment of more frames than it holds, and    *)
(* frames that more others followed than the buffer holds.  A segment that *)
(* was never decoded may close at its backdated opening, so that much must *)
(* still be in the buffer when it opens.                                   *)
Excused(e, f) ==
  \/ f \in Range(e.fed) /\ Len(e.fed) > ReservoirCap
  \/ Crowded(seen, f, Horizon)

PostRollShown(x, post) ==
  \A f \in seen :
    x.close <= f /\ f < x.close + post /\ SameConnection(x.close, f)
      => f \in x.frames \/ Excused(x.evidence, f)

PostRollsComplete ==
  DebounceFits => /\ \A m \in tracker.misses : PostRollShown(m, PostRoll)
                  /\ \A b \in bursts : PostRollShown(b, RecordPost)

(* _finalize_segment, flush, _queue_record, submit and shutdown, with      *)
(* several segments open at a time: each segment the gate opened is in     *)
(* exactly one place, whatever decode raised on the way and took the       *)
(* frame's other closes with it, and read or missed in the end; and each   *)
(* finalized one, read or not, is one record, waiting, queued, written,    *)
(* failed or counted as dropped, never two of them; a shutdown that        *)
(* reports success left nothing behind.                                    *)
RecordsAccounted ==
  /\ AccountsFor(tracker, gate.segmentCount)
  /\ NoDoubleMiss(tracker)
  /\ done => OpenIds(tracker) = {} /\ PendingIds(tracker) = {}
  /\ RecordIds \cup Submitted(recorder) = 1 .. gate.segmentCount \ OpenIds(tracker)
  /\ RecordIds \cap Submitted(recorder) = {}
  /\ recorder.stop = "drained" =>
       RecordIds \cup Queued(recorder) \cup InWriter(recorder) = {}
  /\ PostRollsComplete

(* shutdown() of the recorder comes back although the writer hangs in a    *)
(* write and the queue is full.                                            *)
RecorderStops == done ~> recorder.stop \in {"drained", "abandoned"}

(* Refuted, from "the pallets behind it still need accounting" in the      *)
(* handler of a failed frame: what the gate has closed the tracker closes. *)
ClosedSegmentsSettle == OpenIds(tracker) \subseteq OpenTracks(gate)
=============================================================================
