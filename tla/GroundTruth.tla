---------------------------- MODULE GroundTruth ----------------------------
(***************************************************************************)
(* What the harnesses certify with: sources that plan pallet passes and    *)
(* write down when each was in the picture (SyntheticSource, and           *)
(* CameraInjectionSource, which draws them into a live camera's frames),   *)
(* the capped collector of a run's events, and reconcile_truth, which      *)
(* joins the two.                                                          *)
(*                                                                         *)
(* Abstraction.  A plan is its idle gap and its number of frames; how the  *)
(* pass is drawn is left out.  The pipeline in between is any pipeline: it *)
(* reads a pass, flags it with a miss that is off by a frame at either     *)
(* end, or loses it; what is over at the same frame it judges in any       *)
(* order.  Time is in half ticks of the nominal frame rate, so that a      *)
(* camera's frames need not fall on ticks.                                 *)
(***************************************************************************)
EXTENDS Integers, FiniteSets

CONSTANTS
  IdleGaps,        \* idle_frames_before of a plan
  PassLengths,     \* num_frames of a plan
  NumPasses,       \* num_passes
  TailFrames,      \* the idle frames after the last pass
  MaxConcurrent,   \* the values of max_concurrent
  CollectorCap,    \* events _ListSink keeps
  MaxJitter,       \* bound: half ticks the live frames of a run are late in all
  MaxSegments      \* bound: runs of one soak

ASSUME TruthAssumption ==
  /\ PassLengths \subseteq Nat \ {0, 1} /\ MaxConcurrent \subseteq Nat \ {0}
  /\ NumPasses \in Nat /\ TailFrames \in Nat /\ CollectorCap \in Nat /\ MaxJitter \in Nat /\ MaxSegments \in Nat
  /\ IdleGaps \subseteq Nat \ (0 .. 3)   \* slack plus a frame's wiggle: app.py, reconcile_truth

VARIABLES
  feed,        \* the source's generator
  truth,       \* GroundTruthRecords
  collector,   \* [events, dropped]: the _ListSink
  lost,        \* ghost: the passes the pipeline neither read nor flagged
  soak         \* the report of tools/soak.py, and (ghost) what its segments hid

truthVars == <<feed, truth, collector, lost, soak>>

OneTick == 2
NoFrame == -1

Plans == [ idle : IdleGaps, frames : PassLengths ]

NewFeed(kind, slots, plan0) ==
  [ kind |-> kind, slots |-> slots, pc |-> "running", ts |-> 0, prev |-> NoFrame,
    active |-> {}, next |-> 1, plan |-> plan0, launch_in |-> plan0.idle,
    tail |-> TailFrames, jitter |-> 0 ]

NoEvents == [ events |-> {}, dropped |-> 0 ]

TruthInit ==
  /\ \E kind \in {"synthetic", "inject"}, slots \in MaxConcurrent, plan0 \in Plans :
       /\ kind = "synthetic" => slots = 1
       /\ feed = NewFeed(kind, slots, plan0)
  /\ truth = {} /\ collector = NoEvents /\ lost = {}
  /\ soak = [ segments |-> 0, problems |-> FALSE, lost |-> FALSE, dropped |-> FALSE ]

-----------------------------------------------------------------------------
(* round(ts * fps): half a tick goes to the even one.                      *)
Rounded(ts) ==
  LET down == ts \div OneTick
  IN  IF ts % OneTick = 0 \/ down % 2 = 0 THEN down ELSE down + 1

(* _retire: the record of a pass, its bounds in ticks of the live clock.   *)
Retired(e, last) ==
  [ pass |-> e.id, first_frame |-> Rounded(e.first), last_frame |-> Rounded(last) ]

(* The pipeline's events of passes that are over: read, or flagged by a    *)
(* miss that is a frame too long or too short at both ends.  What a miss   *)
(* is about is a ghost: the event has its window and no more.              *)
Emitted(kind, e, start, end) == [ kind |-> kind, pass |-> e.id, start |-> start, end |-> end ]
EventsOf(e, last) ==
  { Emitted("pass", e, e.first, last), Emitted("miss", e, e.first - OneTick, last + OneTick) } \cup
  { m \in { Emitted("miss", e, e.first + OneTick, last - OneTick) } : m.start <= m.end }

(* _ListSink.handle, for each of these events.                             *)
Handled(events) ==
  \E kept \in SUBSET events :
    LET all == collector.events \cup kept
    IN  /\ Cardinality(all) <= CollectorCap
        /\ kept # events => Cardinality(all) = CollectorCap
        /\ collector' = [ events  |-> all,
                          dropped |-> collector.dropped + Cardinality(events \ kept) ]

(* Whatever becomes of the passes in over, which ended at last.            *)
Judges(over, last) ==
  \E silent \in SUBSET over :
    /\ lost' = lost \cup { e.id : e \in silent }
    /\ \E outcome \in [ over \ silent -> UNION { EventsOf(e, last) : e \in over } ] :
         /\ \A e \in over \ silent : outcome[e] \in EventsOf(e, last)
         /\ Handled({ outcome[e] : e \in over \ silent })

-----------------------------------------------------------------------------
Launched(f) == f.next > NumPasses

(* The plan of pass 0 is rendered once and kept; the others at the launch. *)
Replanned == IF feed.next = 1 THEN {feed.plan} ELSE Plans

(* A pass in flight: its plan, the frames drawn, when it came in.          *)
InFlight(f, plan, k) == [ id |-> f.next, plan |-> plan, k |-> k, first |-> f.ts ]

(* Mutant: the countdown always runs.                                      *)
Launch_AlwaysCounts(f, plan) ==
  LET at == [ f EXCEPT !.launch_in = @ - 1 ]
  IN  IF Launched(f) \/ Cardinality(f.active) >= f.slots \/ at.launch_in > 0 THEN at
      ELSE [ at EXCEPT !.active = @ \cup {InFlight(f, plan, 0)},
                       !.next = @ + 1, !.launch_in = plan.idle ]

(* The countdown runs only while a slot is open.  A pass starts with the   *)
(* plan that was rendered for it and leaves its own idle gap behind.       *)
Launch(f, plan) ==
  LET at == [ f EXCEPT !.launch_in = @ - 1 ]
  IN  IF Launched(f) \/ Cardinality(f.active) >= f.slots THEN f
      ELSE IF at.launch_in > 0 THEN at
      ELSE [ at EXCEPT !.active = @ \cup {InFlight(f, plan, 0)},
                       !.next = @ + 1, !.launch_in = plan.idle ]

Composited(f) == [ f EXCEPT !.active = { [ e EXCEPT !.k = @ + 1 ] : e \in @ } ]

Over(e) == e.k >= e.plan.frames

(* All launched and retired: the tail, and the last frame ends the stream. *)
TailRuns(f) ==
  IF Launched(f) /\ f.active = {}
  THEN [ f EXCEPT !.tail = @ - 1, !.pc = IF f.tail > 1 THEN @ ELSE "ended" ]
  ELSE f

(* frames() of the injection: one live frame, on time, late, or the first  *)
(* after a reconnect, which tears every pass in flight.                    *)
InjectFrame(late, reconnected) ==
  /\ feed.kind = "inject" /\ feed.pc = "running"
  /\ feed.jitter + late <= MaxJitter
  /\ \E plan \in Replanned :
       LET torn  == IF reconnected THEN feed.active ELSE {}
           now   == [ feed EXCEPT !.ts = @ + OneTick + late, !.jitter = @ + late,
                                  !.active = @ \ torn ]
           drawn == Composited(Launch(now, plan))
           over  == { e \in drawn.active : Over(e) }
       IN  /\ feed' = TailRuns([ drawn EXCEPT !.active = @ \ over, !.prev = now.ts ])
           /\ truth' = truth \cup { Retired(e, feed.prev) : e \in torn }
                             \cup { Retired(e, now.ts) : e \in over }
           /\ IF torn # {} THEN Judges(torn, feed.prev) ELSE Judges(over, now.ts)
  /\ UNCHANGED soak

(* frames() of SyntheticSource: the idle gap, the frames of the pass, and  *)
(* its record when the consumer comes back for the next frame.             *)
SyntheticFrame ==
  /\ feed.kind = "synthetic" /\ feed.pc = "running"
  /\ LET over   == { e \in feed.active : Over(e) }
         ending == over # {}
         idle   == [ feed EXCEPT !.active = @ \ over ]
     IN  /\ truth' = truth \cup { Retired(e, feed.prev) : e \in over }
         /\ Judges(over, feed.prev)
         /\ \E plan \in IF ending /\ ~ Launched(feed) THEN Plans ELSE {feed.plan} :
              LET ready == [ idle EXCEPT !.plan = plan,
                                         !.launch_in = IF ending THEN plan.idle ELSE @ ]
                  frame == [ ready EXCEPT !.ts = @ + OneTick, !.prev = @ ]
              IN  feed' =
                    IF ready.active # {} THEN [ Composited(frame) EXCEPT !.prev = frame.ts ]
                    ELSE IF ~ Launched(ready) /\ ready.launch_in = 0
                      THEN [ frame EXCEPT !.active = {InFlight(frame, plan, 1)},
                                          !.next = @ + 1, !.prev = frame.ts ]
                    ELSE IF ~ Launched(ready)
                      THEN [ frame EXCEPT !.launch_in = @ - 1, !.prev = frame.ts ]
                    ELSE IF ready.tail = 0 THEN [ ready EXCEPT !.pc = "ended" ]
                    ELSE [ frame EXCEPT !.tail = @ - 1, !.prev = frame.ts ]
  /\ UNCHANGED soak

(* The stream ends under the passes in flight: they have no record,        *)
(* although the pipeline may flag what it saw of them.                     *)
EndsEarly(pc) ==
  /\ feed.pc = "running"
  /\ feed' = [ feed EXCEPT !.pc = pc, !.active = {} ]
  /\ Judges(feed.active, feed.prev)
  /\ UNCHANGED <<truth, soak>>

(* The deadline's timer, or an operator, stops the runner.                 *)
StopFeed == EndsEarly("stopped")

(* FlakySource raises its InjectedFailure into a synthetic run.            *)
FeedFails == feed.kind = "synthetic" /\ EndsEarly("failed")

-----------------------------------------------------------------------------
(* reconcile_truth, when it is given the rate the ticks were counted in.   *)
Events == collector.events
FrameSlack  == 2 * OneTick

Decodes(rec)  == \E e \in Events : e.kind = "pass" /\ e.pass = rec.pass
Vouches(m, rec) ==
  /\ m.start - FrameSlack <= OneTick * rec.last_frame
  /\ m.end + FrameSlack >= OneTick * rec.first_frame
Misses(rec) == \E e \in Events : e.kind = "miss" /\ Vouches(e, rec)

Unaccounted == { rec.pass : rec \in { r \in truth : ~ Decodes(r) /\ ~ Misses(r) } }

(* run_soak: a run is over, of its own, stopped or failed; the report      *)
(* takes what reconciles badly or was dropped, and a fresh runner goes on. *)
SegmentEnds ==
  /\ feed.pc # "running" /\ soak.segments < MaxSegments
  /\ soak' = [ segments |-> soak.segments + 1,
               problems |-> soak.problems \/ Unaccounted # {} \/ collector.dropped > 0,
               lost     |-> soak.lost \/ \E r \in truth : r.pass \in lost,
               dropped  |-> soak.dropped \/ collector.dropped > 0 ]
  /\ \E plan0 \in Plans : feed' = NewFeed(feed.kind, feed.slots, plan0)
  /\ truth' = {} /\ collector' = NoEvents /\ lost' = {}

TruthNext ==
  \/ InjectFrame(0, FALSE)
  \/ \E late \in {1, 5} : \E reconnected \in BOOLEAN : InjectFrame(late, reconnected)
  \/ SyntheticFrame \/ StopFeed \/ FeedFails \/ SegmentEnds

-----------------------------------------------------------------------------
(* reconcile_truth and its slack, the idle contract of the injection and   *)
(* the truth's time base: each pass drawn that is over has one record,     *)
(* torn or not, unless the run was cut short; a pass that was read or      *)
(* flagged is accounted for, whatever the frames' timing, unless the       *)
(* collector says that it dropped events; and a pass the pipeline lost is  *)
(* reported, no neighbor's miss vouches for it, as long as passes come one *)
(* at a time.  Of the problems in a soak's report two come from here, an   *)
(* unaccounted pass and a collector that overflowed: with neither the soak *)
(* lost nothing it drew, with one it lost a pass or an event.  The other   *)
(* checks of run_soak (errors, memory, restart gap, drift) are left out.   *)
TruthReconciles ==
  /\ \A r, s \in truth : r.pass = s.pass => r = s
  /\ feed.pc \in {"running", "ended"} =>
       { r.pass : r \in truth } = (1 .. (feed.next - 1)) \ { e.id : e \in feed.active }
  /\ collector.dropped = 0 => Unaccounted \subseteq lost
  /\ feed.slots = 1 => lost \cap { r.pass : r \in truth } \subseteq Unaccounted
  /\ feed.slots = 1 /\ soak.lost => soak.problems
  /\ soak.problems => soak.lost \/ soak.dropped
=============================================================================
