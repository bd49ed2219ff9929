---------------------------- MODULE SegmentRecorder ----------------------------
(***************************************************************************)
(* The recorder of motion segments: the pipeline thread hands finished     *)
(* bursts to a bounded queue without ever waiting, a writer thread stores  *)
(* them, and shutdown() ends the writer within two bounded waits.          *)
(*                                                                         *)
(* Abstraction.  A burst is the id of its segment; storing one succeeds,   *)
(* fails (write_burst raises or reports an error) or never comes back.     *)
(* The counters of the code are kept as the sets of what they count.       *)
(***************************************************************************)
EXTENDS Integers, Sequences, FiniteSets

CONSTANT QueueSize                \* recording.queue_maxsize

ASSUME RecorderAssumption == QueueSize \in Nat \ {0}

VARIABLE recorder

NoBurst == 0                      \* real ids count from 1
EndMark == -1                     \* SENTINEL

NewRecorder ==
  [ queue |-> <<>>, writing |-> NoBurst, wedged |-> FALSE, ended |-> FALSE,
    dropped |-> {}, written |-> {}, failed |-> {}, stop |-> "running" ]

RecorderType ==
  [ queue : Seq(Nat \cup {EndMark}), writing : Nat, wedged : BOOLEAN, ended : BOOLEAN,
    dropped : SUBSET Nat, written : SUBSET Nat, failed : SUBSET Nat,
    stop : {"running", "putting", "joining", "drained", "abandoned"} ]

HasRoom(r) == Len(r.queue) < QueueSize

(* Mutant: the oldest burst makes room and is forgotten.                   *)
Submit_DropsOldest(r, id) ==
  [ r EXCEPT !.queue = Append(IF HasRoom(r) THEN @ ELSE Tail(@), id) ]

(* submit(): a burst that finds the queue full is dropped and counted.     *)
Submit(r, id) ==
  IF HasRoom(r) THEN [ r EXCEPT !.queue = Append(@, id) ]
                ELSE [ r EXCEPT !.dropped = @ \cup {id} ]

-----------------------------------------------------------------------------
(* _run, on the writer thread.                                             *)

WriterTakes ==
  /\ recorder.writing = NoBurst /\ ~ recorder.ended /\ recorder.queue # <<>>
  /\ recorder' =
       LET job == Head(recorder.queue)
       IN  [ recorder EXCEPT !.queue   = Tail(@),
                             !.ended   = job = EndMark,
                             !.writing = IF job = EndMark THEN NoBurst ELSE job ]

WriterEnds ==
  /\ recorder.writing # NoBurst /\ ~ recorder.wedged
  /\ \/ recorder' = [ recorder EXCEPT !.written = @ \cup {recorder.writing}, !.writing = NoBurst ]
     \/ recorder' = [ recorder EXCEPT !.failed  = @ \cup {recorder.writing}, !.writing = NoBurst ]

WriterWedges ==
  /\ recorder.writing # NoBurst /\ ~ recorder.wedged
  /\ recorder' = [ recorder EXCEPT !.wedged = TRUE ]

-----------------------------------------------------------------------------
(* shutdown(), called once the pipeline thread has ended.                  *)

StopBegins ==
  /\ recorder.stop = "running"
  /\ recorder' = [ recorder EXCEPT !.stop = "putting" ]

StopPuts ==
  /\ recorder.stop = "putting" /\ HasRoom(recorder)
  /\ recorder' = [ recorder EXCEPT !.queue = Append(@, EndMark), !.stop = "joining" ]

(* Mutant: the end marker is put with a plain blocking put.                *)
StopGivesUp_Never == FALSE /\ UNCHANGED recorder

(* The queue stayed full for the whole timeout; the marker never lands.    *)
StopGivesUp ==
  /\ recorder.stop = "putting" /\ ~ HasRoom(recorder)
  /\ recorder' = [ recorder EXCEPT !.stop = "joining" ]

(* join(timeout): the thread has ended, or the wait is over without it.    *)
StopJoins ==
  /\ recorder.stop = "joining"
  /\ recorder' = [ recorder EXCEPT !.stop = IF recorder.ended THEN "drained" ELSE "abandoned" ]

Writer  == WriterTakes \/ WriterEnds \/ WriterWedges
Stopper == StopPuts \/ StopGivesUp \/ StopJoins

(* Where the bursts that were submitted are.                               *)
Queued(r)    == { r.queue[i] : i \in DOMAIN r.queue } \ {EndMark}
InWriter(r)  == {r.writing} \ {NoBurst}
Submitted(r) == Queued(r) \cup InWriter(r) \cup r.dropped \cup r.written \cup r.failed
=============================================================================
