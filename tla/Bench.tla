-------------------------------- MODULE Bench --------------------------------
(***************************************************************************)
(* tools/bench.py: the camera bench that counts motion passes and says of  *)
(* each whether it was read.  The capture thread owns the passes, two      *)
(* decode workers add what they read to a pass that is still live, and the *)
(* dashboard's commands are run by the capture thread, without the lock.   *)
(*                                                                         *)
(* Abstraction.  A frame moves or not; the work items kept are those of a  *)
(* frame in a pass.  The rates and the camera's own settings are left out;  *)
(* a lost camera only stops frames; nothing in the tool ever asks its      *)
(* threads to stop.                                                        *)
(***************************************************************************)
EXTENDS Integers, Sequences, FiniteSets

CONSTANTS
  PassOpenFrames, PassQuietFrames,   \* _OPEN_FRAMES, _QUIET_FRAMES
  MinPassFrames,                     \* _MIN_PASS_FRAMES: shorter ones are rejected
  Grace,                             \* _VERDICT_GRACE
  QueueSize,                         \* the work items kept, 6 in the code
  Workers,                           \* the decode threads
  MaxBenchFrames, MaxCommands        \* bounds: frames captured, commands run

ASSUME BenchAssumption ==
  /\ PassOpenFrames \in Nat \ {0} /\ PassQuietFrames \in Nat \ {0}
  /\ MinPassFrames \in Nat /\ Grace \in Nat /\ QueueSize \in Nat \ {0}
  /\ MaxBenchFrames \in Nat /\ MaxCommands \in Nat

VARIABLES
  bench,       \* the Bench object
  workers,     \* what each decode thread is doing
  verdicts,    \* what was said of each pass judged so far
  commands     \* commands run so far

benchVars == <<bench, workers, verdicts, commands>>

NoPass == 0
Resting == [ pc |-> "idle", seg |-> NoPass ]

BenchInit ==
  /\ bench = [ frame_idx |-> 0, track_misses |-> FALSE, active_streak |-> 0,
               quiet_streak |-> 0, open_id |-> NoPass, seg_count |-> 0,
               open_frame |-> 0, live_segs |-> {}, long |-> {}, decoded |-> {},
               pending |-> <<>>,
               passes |-> 0, reads |-> 0, misses |-> 0, rejected |-> 0,
               frame_q |-> <<>> ]
  /\ workers = [ w \in Workers |-> Resting ]
  /\ verdicts = {}
  /\ commands = 0

-----------------------------------------------------------------------------
(* _capture_loop, one frame: the pass opens, goes on or falls quiet.  It   *)
(* counts from the first frame of the streak that opened it.               *)
StartsPass(b) ==
  IF b.open_id = NoPass /\ b.active_streak >= PassOpenFrames
    THEN [ b EXCEPT !.seg_count = @ + 1, !.open_id = b.seg_count + 1,
                    !.open_frame = b.frame_idx - b.active_streak + 1,
                    !.live_segs = @ \cup {b.seg_count + 1} ]
    ELSE b

Moves(b) ==
  LET c == StartsPass([ b EXCEPT !.quiet_streak = 0, !.active_streak = @ + 1 ])
  IN  IF c.open_id # NoPass /\ c.frame_idx - c.open_frame + 1 >= MinPassFrames
        THEN [ c EXCEPT !.long = @ \cup {c.open_id} ]
        ELSE c

Rests(b) ==
  LET c == [ b EXCEPT !.active_streak = 0,
                      !.quiet_streak = IF b.open_id = NoPass THEN @ ELSE @ + 1 ]
  IN  IF c.open_id # NoPass /\ c.quiet_streak >= PassQuietFrames
        THEN [ c EXCEPT !.pending = Append(@, [due |-> c.frame_idx + Grace, id |-> c.open_id]),
                        !.open_id = NoPass, !.quiet_streak = 0 ]
        ELSE c

(* _finalize: a pass toggled away meanwhile is not judged, and one that    *)
(* moved too briefly is rejected, whatever was read in it.  What is said   *)
(* of one changes nothing for another.                                     *)
Verdict(b, id) ==
  CASE id \notin b.long -> "rejected"
    [] id \in b.decoded -> "read"
    [] OTHER            -> "miss"

Finalize(b, ids) ==
  LET judged  == ids \cap b.live_segs
      said(v) == Cardinality({ id \in judged : Verdict(b, id) = v })
  IN  [ b EXCEPT !.live_segs = @ \ judged, !.decoded = @ \ judged, !.long = @ \ judged,
                 !.rejected = @ + said("rejected"),
                 !.passes = @ + said("read") + said("miss"),
                 !.reads = @ + said("read"), !.misses = @ + said("miss") ]

Early(b, id) == \E i \in DOMAIN b.pending : b.pending[i].id = id /\ b.pending[i].due > b.frame_idx

Judged(b, ids) ==
  { [id |-> id, said |-> Verdict(b, id), early |-> Early(b, id)] : id \in ids }

(* The deadlines popped: those in front that are reached.                  *)
DueOf(b) ==
  { i \in DOMAIN b.pending : \A j \in 1 .. i : b.pending[j].due <= b.frame_idx }

IdsAt(b, places) == { b.pending[i].id : i \in places }

(* Mutant: a pass is judged when it closes.                                *)
Verdicts_AtOnce(b) ==
  [ Finalize(b, IdsAt(b, DOMAIN b.pending)) EXCEPT !.pending = <<>> ]

Verdicts(b) ==
  [ Finalize(b, IdsAt(b, DueOf(b))) EXCEPT
      !.pending = SubSeq(@, Cardinality(DueOf(b)) + 1, Len(@)) ]

(* _enqueue: the newest item displaces the oldest.                         *)
Enqueue(b, moving) ==
  IF ~ moving THEN b
  ELSE [ b EXCEPT !.frame_q = Append(IF Len(@) < QueueSize THEN @ ELSE Tail(@), b.open_id) ]

(* One frame under one lock, then the item that goes with it.              *)
CaptureFrame ==
  /\ bench.frame_idx < MaxBenchFrames
  /\ \E moving \in BOOLEAN :
       LET next    == [ bench EXCEPT !.frame_idx = @ + 1 ]
           tracked == IF ~ next.track_misses THEN next
                      ELSE IF moving THEN Moves(next) ELSE Rests(next)
           judged  == IF next.track_misses THEN Verdicts(tracked) ELSE tracked
       IN  /\ bench' = Enqueue(judged, moving)
           /\ verdicts' = verdicts \cup Judged(tracked, tracked.live_segs \ judged.live_segs)
  /\ UNCHANGED <<workers, commands>>

ToggleMisses(b) ==
  [ b EXCEPT !.track_misses = ~ @, !.active_streak = 0, !.quiet_streak = 0,
             !.open_id = NoPass, !.live_segs = {}, !.long = {}, !.decoded = {},
             !.pending = <<>> ]

ResetRate(b) == [ b EXCEPT !.passes = 0, !.reads = 0, !.misses = 0, !.rejected = 0 ]

RunCommand ==
  /\ commands < MaxCommands
  /\ \/ bench' = ToggleMisses(bench) /\ UNCHANGED verdicts
     \/ bench' = ResetRate(bench) /\ verdicts' = {}
  /\ commands' = commands + 1
  /\ UNCHANGED workers

-----------------------------------------------------------------------------
(* _decode_loop.                                                           *)
WorkerTakes(w) ==
  /\ workers[w].pc = "idle" /\ bench.frame_q # <<>>
  /\ workers' = [ workers EXCEPT ![w] = [ pc |-> "decode", seg |-> Head(bench.frame_q) ] ]
  /\ bench' = [ bench EXCEPT !.frame_q = Tail(@) ]
  /\ UNCHANGED <<verdicts, commands>>

(* Under the lock: something was found, and the pass is still live.        *)
WorkerFinds(w) ==
  /\ workers[w].pc = "decode"
  /\ \E found \in BOOLEAN :
       workers' = [ workers EXCEPT ![w] =
         IF found /\ workers[w].seg \in bench.live_segs THEN [ @ EXCEPT !.pc = "add" ]
                                                       ELSE Resting ]
  /\ UNCHANGED <<bench, verdicts, commands>>

(* The lock keeps the frames out meanwhile, not the commands: a pass that  *)
(* was toggled away ends the thread with a KeyError.                       *)
WorkerAdds(w) ==
  /\ workers[w].pc = "add"
  /\ IF workers[w].seg \in bench.live_segs
       THEN /\ bench' = [ bench EXCEPT !.decoded = @ \cup {workers[w].seg} ]
            /\ workers' = [ workers EXCEPT ![w] = Resting ]
       ELSE /\ workers' = [ workers EXCEPT ![w] = [ pc |-> "dead", seg |-> NoPass ] ]
            /\ UNCHANGED bench
  /\ UNCHANGED <<verdicts, commands>>

Locked == \E w \in Workers : workers[w].pc = "add"

BenchNext ==
  \/ ~ Locked /\ CaptureFrame
  \/ RunCommand
  \/ ~ Locked /\ \E w \in Workers : WorkerTakes(w) \/ WorkerFinds(w)
  \/ \E w \in Workers : WorkerAdds(w)

-----------------------------------------------------------------------------
Pending == IdsAt(bench, DOMAIN bench.pending)
JudgedAs(vs) == Cardinality({ v \in verdicts : v.said \in vs })

(* The passes of the bench: every live one is the open one or awaits one   *)
(* verdict (a pass nobody will judge would keep its picture for ever, a    *)
(* verdict on none would end the capture thread), a closed one stays open  *)
(* to a late decode for Grace frames and no longer, and the counters are   *)
(* exactly the verdicts since the last reset: one for each pass, a miss    *)
(* only when no worker has read it in time.                                *)
PassesAreJudged ==
  /\ bench.live_segs = Pending \cup ({bench.open_id} \ {NoPass})
  /\ bench.open_id \notin Pending
  /\ Cardinality(Pending) = Len(bench.pending)
  /\ \A i \in DOMAIN bench.pending : bench.pending[i].due \in
       (bench.frame_idx + 1) .. (bench.frame_idx + Grace)
  /\ \A v \in verdicts : ~ v.early
  /\ bench.decoded \subseteq bench.live_segs
  /\ bench.passes = JudgedAs({"read", "miss"})
  /\ bench.reads = JudgedAs({"read"}) /\ bench.misses = JudgedAs({"miss"})
  /\ bench.rejected = JudgedAs({"rejected"})
  /\ Cardinality(verdicts) = Cardinality({ v.id : v \in verdicts })
=============================================================================
