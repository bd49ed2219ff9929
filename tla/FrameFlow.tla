------------------------------- MODULE FrameFlow -------------------------------
(***************************************************************************)
(* The frames' way from the source thread to the pipeline thread through   *)
(* the bounded frame queue, and how the two threads come to an end.        *)
(*                                                                         *)
(* DroppingQueue is not atomic: evicting the oldest frame, noting that it  *)
(* was marked as the first of a connection, and putting the new frame are  *)
(* three steps of the producer, between which the consumer takes its own.  *)
(*                                                                         *)
(* Abstraction.  A frame is its position in the stream; whether it is      *)
(* marked is decided by the set marks.  What the pipeline does with a      *)
(* frame is the subject of Pipeline.  handed and discarded are history:    *)
(* what get() returned, and how much of it before each marked victim.      *)
(***************************************************************************)
EXTENDS Integers, Sequences, FiniteSets

CONSTANTS
  MaxSize,     \* capacity of the frame queue
  NumFrames    \* bound: frames the source yields at most

ASSUME FlowAssumption ==
  /\ MaxSize \in Nat \ {0}
  /\ NumFrames \in Nat

End == 0                     \* SENTINEL
Frames == 1 .. NumFrames

VARIABLES
  live,        \* source.live: drop the oldest frame, or block the producer
  queue,       \* DroppingQueue._q
  carry,       \* DroppingQueue._pending_discontinuity
  dropped,     \* DroppingQueue.dropped
  source,      \* the source thread: where it is, and the item it is putting
  pipeline,    \* the pipeline thread: where it is, and the item it holds
  pulled,      \* how many frames the source has yielded
  aborted,     \* how many of them the source thread threw away on its way out
  stop, dead,  \* PipelineRunner._stop, _pipeline_dead
  told,        \* the watchdog-wrapped source has been told to close
  marks, handed, discarded

flowVars == <<live, queue, carry, dropped, source, pipeline, pulled, aborted,
              stop, dead, told, marks, handed, discarded>>

queueVars    == <<queue, carry, dropped, discarded>>
sourceVars   == <<source, pulled, aborted>>
pipelineVars == <<pipeline, handed>>
controlVars  == <<live, stop, dead, told, marks>>

FlowInit ==
  /\ live \in BOOLEAN
  /\ queue = <<>> /\ carry = FALSE /\ dropped = 0
  /\ source = [ at |-> "pull", item |-> End ]
  /\ pipeline = [ at |-> "get", item |-> End ]
  /\ pulled = 0 /\ aborted = 0
  /\ stop = FALSE /\ dead = FALSE /\ told = FALSE
  /\ marks \in SUBSET Frames
  /\ handed = <<>>
  /\ discarded = [ d \in {} |-> 0 ]

Put(item)  == source' = [ at |-> "put", item |-> item ]
GoTo(at)   == source' = [ source EXCEPT !.at = at ]
AfterPut   == GoTo(IF source.item = End THEN "close" ELSE "pull")

-----------------------------------------------------------------------------
(* The source thread.                                                      *)

Abort == stop \/ dead

(* The next frame, unless the thread notices that it should stop.          *)
PullFrame ==
  /\ source.at = "pull" /\ pulled < NumFrames
  /\ pulled' = pulled + 1
  /\ IF Abort THEN Put(End) /\ aborted' = aborted + 1
     ELSE Put(pulled + 1) /\ UNCHANGED aborted
  /\ UNCHANGED <<queueVars, pipelineVars, controlVars>>

(* The iterator ends or raises.  A replay ends when it has no more frames, *)
(* a live source when it is closed or its watchdog gives up.               *)
SourceEnds ==
  /\ source.at = "pull"
  /\ live \/ pulled = NumFrames
  /\ Put(End)
  /\ UNCHANGED <<pulled, aborted, queueVars, pipelineVars, controlVars>>

HasRoom == Len(queue) < MaxSize

(* put_nowait or put(timeout) with room in the queue.                      *)
PutFits ==
  /\ source.at = "put" /\ HasRoom
  /\ queue' = Append(queue, source.item)
  /\ AfterPut
  /\ UNCHANGED <<carry, dropped, discarded, pulled, aborted, pipelineVars, controlVars>>

Drops == live

PutFull ==
  /\ Drops /\ source.at = "put" /\ ~ HasRoom
  /\ GoTo("evict")
  /\ UNCHANGED <<pulled, aborted, queueVars, pipelineVars, controlVars>>

(* Mutant: a marked victim is not counted.                                 *)
CountVictim_UnmarkedOnly(victim) ==
  dropped' = IF victim \in marks THEN dropped ELSE dropped + 1

CountVictim(victim) == dropped' = dropped + 1

AfterVictim(victim) == IF victim \in marks THEN "flag" ELSE "put"

(* get_nowait: the consumer may have emptied the queue meanwhile.          *)
Evict ==
  /\ source.at = "evict"
  /\ IF queue = <<>> THEN GoTo("put") /\ UNCHANGED queueVars
     ELSE LET victim == Head(queue)
          IN  /\ queue' = Tail(queue)
              /\ CountVictim(victim)
              /\ GoTo(AfterVictim(victim))
              /\ discarded' = [ d \in DOMAIN discarded \cup ({victim} \cap marks) |->
                                  IF d = victim THEN Len(handed) ELSE discarded[d] ]
              /\ UNCHANGED carry
  /\ UNCHANGED <<pulled, aborted, pipelineVars, controlVars>>

FlagVictim ==
  /\ source.at = "flag"
  /\ carry' = TRUE
  /\ GoTo("put")
  /\ UNCHANGED <<queue, dropped, discarded, pulled, aborted, pipelineVars, controlVars>>

(* A frame is given up when the run is over, the end marker only when      *)
(* nobody is left to read it.                                              *)
Aborted == IF source.item = End THEN dead ELSE Abort

(* put_blocking, after a timeout.                                          *)
GiveUp ==
  /\ ~ Drops /\ source.at = "put" /\ ~ HasRoom
  /\ Aborted
  /\ IF source.item = End THEN GoTo("close") /\ UNCHANGED aborted
     ELSE Put(End) /\ aborted' = aborted + 1
  /\ UNCHANGED <<pulled, queueVars, pipelineVars, controlVars>>

CloseSource ==
  /\ source.at = "close"
  /\ GoTo("done")
  /\ UNCHANGED <<pulled, aborted, queueVars, pipelineVars, controlVars>>

-----------------------------------------------------------------------------
(* The pipeline thread.                                                    *)

HandOut(item, mark) ==
  /\ handed' = Append(handed, [ frame |-> item, mark |-> mark ])
  /\ pipeline' = [ at |-> "work", item |-> item ]

Take ==
  /\ pipeline.at = "get" /\ queue # <<>>
  /\ pipeline' = [ at |-> "taken", item |-> Head(queue) ]
  /\ queue' = Tail(queue)
  /\ UNCHANGED <<carry, dropped, discarded, handed, sourceVars, controlVars>>

(* get() after the take: is there a mark to carry over?                    *)
CheckCarry ==
  /\ pipeline.at = "taken"
  /\ IF pipeline.item = End
     THEN pipeline' = [ pipeline EXCEPT !.at = "done" ] /\ UNCHANGED handed
     ELSE IF carry
     THEN pipeline' = [ pipeline EXCEPT !.at = "mark" ] /\ UNCHANGED handed
     ELSE HandOut(pipeline.item, pipeline.item \in marks)
  /\ UNCHANGED <<queueVars, sourceVars, controlVars>>

MarkItem ==
  /\ pipeline.at = "mark"
  /\ carry' = FALSE
  /\ HandOut(pipeline.item, TRUE)
  /\ UNCHANGED <<queue, dropped, discarded, sourceVars, controlVars>>

(* One frame processed, or failed inside the per-frame guard.              *)
Work ==
  /\ pipeline.at = "work"
  /\ pipeline' = [ pipeline EXCEPT !.at = "get" ]
  /\ UNCHANGED <<handed, queueVars, sourceVars, controlVars>>

(* Mutant: a dying pipeline leaves the source waiting for its camera.      *)
TellSource_Not == UNCHANGED told

(* A source that waits for its camera would never notice by itself.        *)
TellSource == told' = TRUE

(* An exception outside the per-frame guard ends the thread.               *)
PipelineDies ==
  /\ pipeline.at = "work"
  /\ pipeline' = [ pipeline EXCEPT !.at = "done" ]
  /\ dead' = TRUE
  /\ TellSource
  /\ UNCHANGED <<handed, queueVars, sourceVars, live, stop, marks>>

(* stop(), from a signal handler, the station or the stop-file thread.     *)
Stop ==
  /\ ~ stop
  /\ stop' = TRUE
  /\ told' = TRUE
  /\ UNCHANGED <<queueVars, sourceVars, pipelineVars, live, dead, marks>>

-----------------------------------------------------------------------------
SourceStep ==
  PutFits \/ PutFull \/ Evict \/ FlagVictim \/ GiveUp \/ CloseSource

PipelineStep == Take \/ CheckCarry \/ MarkItem \/ Work

Finished == source.at = "done" /\ pipeline.at = "done"

(* run() has joined both threads; what follows is EventBus.                *)
Done == Finished /\ UNCHANGED flowVars

FlowNext ==
  \/ PullFrame \/ SourceEnds \/ SourceStep
  \/ PipelineStep \/ PipelineDies
  \/ Stop
  \/ Done

(* Both threads keep running.  A replay keeps yielding; a camera need not, *)
(* but its iterator ends once it has been told to close.                   *)
Fairness ==
  /\ WF_flowVars(SourceStep)
  /\ WF_flowVars(PipelineStep)
  /\ WF_flowVars(~ live /\ (PullFrame \/ SourceEnds))
  /\ WF_flowVars(told /\ SourceEnds)

FlowSpec == FlowInit /\ [][FlowNext]_flowVars /\ Fairness

-----------------------------------------------------------------------------
Item == Frames \cup {End}

TypeOK ==
  /\ live \in BOOLEAN
  /\ queue \in Seq(Item) /\ Len(queue) <= MaxSize
  /\ carry \in BOOLEAN
  /\ dropped \in Nat /\ pulled \in 0 .. NumFrames /\ aborted \in 0 .. NumFrames
  /\ source \in [ at : {"pull", "put", "evict", "flag", "close", "done"}, item : Item ]
  /\ pipeline \in [ at : {"get", "taken", "mark", "work", "done"}, item : Item ]
  /\ stop \in BOOLEAN /\ dead \in BOOLEAN /\ told \in BOOLEAN
  /\ marks \in SUBSET Frames
  /\ handed \in Seq([ frame : Frames, mark : BOOLEAN ])
  /\ DOMAIN discarded \in SUBSET marks

(* How many frames are under way: queued, or in the hands of a thread.     *)
UnderWay ==
  Cardinality({ i \in DOMAIN queue : queue[i] # End })
    + (IF source.at \in {"put", "evict", "flag"} /\ source.item # End THEN 1 ELSE 0)
    + (IF pipeline.at \in {"taken", "mark"} /\ pipeline.item # End THEN 1 ELSE 0)

(* "Drops are counted, never silent": a frame the source yielded was       *)
(* handed out, is under way, was counted as dropped, or was thrown away by *)
(* a source thread that had been told to stop; none is handed out twice or *)
(* out of order.  Of a finite replay, where a drop would fabricate data    *)
(* loss, nothing is dropped, and one that ran to its end was processed to  *)
(* its end.  Nor is the mark of a dropped frame forgotten: it is still to  *)
(* be carried over, or a frame handed out since has it.                    *)
DropsAreCounted ==
  /\ pulled = Len(handed) + UnderWay + dropped + aborted
  /\ aborted > 0 => stop \/ dead
  /\ \A i, j \in DOMAIN handed : i < j => handed[i].frame < handed[j].frame
  /\ ~ live => dropped = 0
  /\ ~ live /\ Finished /\ ~ stop /\ ~ dead => Len(handed) = NumFrames
  /\ \A d \in DOMAIN discarded :
       \/ carry \/ source.at = "flag" \/ pipeline.at = "mark"
       \/ \E i \in DOMAIN handed : i > discarded[d] /\ handed[i].mark

(* "When a marked item is discarded, the flag rides on the next item       *)
(* handed out instead": whatever is dropped, the first frame the pipeline  *)
(* sees of a connection is marked.                                         *)
ConnectionsAreMarked ==
  \A i \in DOMAIN handed :
    (\E d \in marks : /\ d <= handed[i].frame
                      /\ i = 1 \/ handed[i - 1].frame < d) => handed[i].mark

(* run() joins both threads: a replay ends by itself, any run ends when it *)
(* is stopped, when its source gives up and when its pipeline dies, even   *)
(* in the middle of an outage or with a full queue that nobody reads.      *)
RunEnds == (~ live \/ stop \/ dead \/ source.at = "close") ~> Finished
=============================================================================
