------------------------------ MODULE LiveCamera ------------------------------
(***************************************************************************)
(* CameraSource on PyGrabberCapture: connecting, reading, losing and       *)
(* reconnecting one camera, and close() from another thread.               *)
(*                                                                         *)
(* The consumer is the thread that connects and reopens; the reader it     *)
(* starts is folded into it here and has its own model in Watchdog.  The   *)
(* stopper calls WatchdogSource.close() once, at any moment.               *)
(*                                                                         *)
(* Abstraction.  A read fails when its wait is over; how many failures in  *)
(* a row make an error is left open.  The settings are the auto exposure   *)
(* flag and the exposure; gain and brightness take the same way.  The      *)
(* identity guard refuses or not, as DeviceIdentity decides.                *)
(***************************************************************************)
EXTENDS PyGrabber

VARIABLES
  wanted,      \* the configured settings
  camera,      \* CameraSource: its capture, whether it was closed
  consumer,    \* the thread that connects, reads and recovers
  stopper      \* the thread that stops the watchdog

vars == <<captures, controls, wanted, camera, consumer, stopper>>

NoCapture == 0
Settings  == << "auto_exposure", "exposure" >>

Init ==
  /\ captures = <<>>
  /\ wanted \in [ auto : BOOLEAN, exposure : {1} ]
  /\ controls = [ auto |-> ~ wanted.auto, exposure |-> 0 ]
  /\ camera = [ cap |-> NoCapture, closed |-> FALSE ]
  /\ consumer = [ pc |-> "construct", cap |-> NoCapture, todo |-> 1, failed |-> FALSE,
                  doomed |-> NoCapture, next |-> "construct" ]
  /\ stopper = [ pc |-> "idle", doomed |-> NoCapture ]

Stopping == stopper.pc # "idle"

Consumer(pc) == consumer' = [ consumer EXCEPT !.pc = pc ]

(* Release c, then go on at next; nothing to release is fine too.          *)
Releasing(c, next) ==
  [ consumer EXCEPT !.pc = IF c = NoCapture THEN next ELSE "release",
                    !.doomed = c, !.next = next ]

(* Where a connect that failed leads: out of the constructor, or back into *)
(* the loop of retries.                                                    *)
Failed == IF Len(captures) = 1 THEN "done" ELSE "backoff"

-----------------------------------------------------------------------------
(* _connect.                                                               *)

(* The factory builds the capture and starts its owner thread.             *)
Construct ==
  /\ consumer.pc = "construct"
  /\ captures' = Append(captures, NewCapture)
  /\ consumer' = [ consumer EXCEPT !.pc = "open", !.cap = Len(captures) + 1 ]
  /\ UNCHANGED <<controls, wanted, camera, stopper>>

OpenEnds ==
  /\ consumer.pc = "open" /\ Ready(consumer.cap)
  /\ Consumer("check")
  /\ UNCHANGED <<captures, controls, wanted, camera, stopper>>

OpenTimesOut ==
  /\ consumer.pc = "open" /\ ~ Ready(consumer.cap)
  /\ captures' = Stopped(consumer.cap)
  /\ Consumer("check")
  /\ UNCHANGED <<controls, wanted, camera, stopper>>

NotOpened ==
  /\ consumer.pc = "check" /\ ~ captures[consumer.cap].opened
  /\ consumer' = Releasing(consumer.cap, Failed)
  /\ UNCHANGED <<captures, controls, wanted, camera, stopper>>

(* Mutant: the capture is published whether close() has been called or not. *)
Publish_Always ==
  /\ consumer.pc = "check" /\ captures[consumer.cap].opened
  /\ camera' = [ camera EXCEPT !.cap = consumer.cap ]
  /\ consumer' = [ consumer EXCEPT !.pc = "set", !.todo = 1, !.failed = FALSE ]
  /\ UNCHANGED <<captures, controls, wanted, stopper>>

(* Under the lock: close() has come before, or can find the capture now.   *)
Publish ==
  /\ consumer.pc = "check" /\ captures[consumer.cap].opened
  /\ IF camera.closed
       THEN /\ consumer' = Releasing(consumer.cap, Failed)
            /\ UNCHANGED camera
       ELSE /\ camera' = [ camera EXCEPT !.cap = consumer.cap ]
            /\ consumer' = [ consumer EXCEPT !.pc = "set", !.todo = 1, !.failed = FALSE ]
  /\ UNCHANGED <<captures, controls, wanted, stopper>>

(* apply_settings in its order, each set() refused at once for want of a   *)
(* control, answered, or timed out; a control that was not accepted is a   *)
(* failed report.                                                          *)
Value(prop) == IF prop = "auto_exposure" THEN wanted.auto ELSE wanted.exposure

SetAsks ==
  /\ consumer.pc = "set" /\ consumer.todo <= Len(Settings)
  /\ \/ /\ captures' = Queued(consumer.cap, Settings[consumer.todo],
                               Value(Settings[consumer.todo]))
        /\ Consumer("asked")
     \/ /\ consumer' = [ consumer EXCEPT !.failed = TRUE, !.todo = @ + 1 ]
        /\ UNCHANGED captures
  /\ UNCHANGED <<controls, wanted, camera, stopper>>

(* Mutant: whatever was asked for counts as accepted.                      *)
Report_Asserted(accepted) ==
  consumer' = [ consumer EXCEPT !.pc = "set", !.todo = @ + 1 ]

Report(accepted) ==
  consumer' = [ consumer EXCEPT !.pc = "set", !.todo = @ + 1, !.failed = @ \/ ~ accepted ]

SetAnswered ==
  /\ consumer.pc = "asked"
  /\ captures[consumer.cap].hand.state \in {"ok", "rejected"}
  /\ Report(captures[consumer.cap].hand.state = "ok")
  /\ captures' = [ captures EXCEPT ![consumer.cap].hand = NoCall ]
  /\ UNCHANGED <<controls, wanted, camera, stopper>>

SetTimesOut ==
  /\ consumer.pc = "asked"
  /\ captures[consumer.cap].hand.state \notin {"ok", "rejected"}
  /\ captures' = Unheard(consumer.cap)
  /\ Report(FALSE)
  /\ UNCHANGED <<controls, wanted, camera, stopper>>

(* _guard_identity raised: the capture is taken back and released, unless  *)
(* close() has taken it.                                                   *)
GuardRefuses ==
  /\ consumer.pc = "set" /\ consumer.todo > Len(Settings)
  /\ consumer' = Releasing(camera.cap, Failed)
  /\ camera' = [ camera EXCEPT !.cap = NoCapture ]
  /\ UNCHANGED <<captures, controls, wanted, stopper>>

(* The connect is complete unless close() raced it; the watchdog then      *)
(* looks at its own stop before it reads.                                  *)
Completed ==
  /\ consumer.pc = "set" /\ consumer.todo > Len(Settings)
  /\ IF camera.closed THEN Consumer(Failed)
     ELSE IF Stopping /\ Len(captures) > 1 THEN Consumer("close")
     ELSE Consumer("stream")
  /\ UNCHANGED <<captures, controls, wanted, camera, stopper>>

-----------------------------------------------------------------------------
(* frames() and read().                                                    *)

(* A failed read, or one too many: the loop goes on or the stream is lost. *)
ReadBegins ==
  /\ consumer.pc = "stream"
  /\ IF camera.closed THEN Consumer("lost")
     ELSE IF captures[consumer.cap].opened THEN Consumer("reading")
     ELSE Consumer("stream") \/ Consumer("lost")
  /\ UNCHANGED <<captures, controls, wanted, camera, stopper>>

(* A frame that arrives after the capture was replaced is not yielded.     *)
ReadGets ==
  /\ consumer.pc = "reading" /\ captures[consumer.cap].frame = "fresh"
  /\ captures' = [ captures EXCEPT ![consumer.cap].frame = "read" ]
  /\ Consumer(IF camera.closed \/ camera.cap # consumer.cap THEN "lost" ELSE "stream")
  /\ UNCHANGED <<controls, wanted, camera, stopper>>

ReadTimesOut ==
  /\ consumer.pc = "reading" /\ captures[consumer.cap].frame # "fresh"
  /\ Consumer("stream") \/ Consumer("lost")
  /\ UNCHANGED <<captures, controls, wanted, camera, stopper>>

-----------------------------------------------------------------------------
(* WatchdogSource._recover: close the device, wait, reopen.                *)

Recovers ==
  /\ consumer.pc = "lost"
  /\ Consumer(IF Stopping THEN "done" ELSE "close")
  /\ UNCHANGED <<captures, controls, wanted, camera, stopper>>

(* CameraSource.close() on this thread.                                    *)
CameraCloses ==
  /\ consumer.pc = "close"
  /\ consumer' = Releasing(camera.cap, "backoff")
  /\ camera' = [ cap |-> NoCapture, closed |-> TRUE ]
  /\ UNCHANGED <<captures, controls, wanted, stopper>>

BackoffEnds ==
  /\ consumer.pc = "backoff"
  /\ \/ Stopping /\ Consumer("done")
     \/ ~ Stopping /\ Len(captures) < MaxCaptures /\ Consumer("reopen")
  /\ UNCHANGED <<captures, controls, wanted, camera, stopper>>

(* reopen(): the old capture is taken and the camera counts as open again. *)
Reopens ==
  /\ consumer.pc = "reopen"
  /\ consumer' = Releasing(camera.cap, "construct")
  /\ camera' = [ cap |-> NoCapture, closed |-> FALSE ]
  /\ UNCHANGED <<captures, controls, wanted, stopper>>

(* release(): the marks, then a join that ends with the thread or without. *)
Releases ==
  /\ consumer.pc = "release"
  /\ captures' = Stopped(consumer.doomed)
  /\ Consumer("join")
  /\ UNCHANGED <<controls, wanted, camera, stopper>>

Joins ==
  /\ consumer.pc = "join"
  /\ consumer' = [ consumer EXCEPT !.pc = consumer.next, !.doomed = NoCapture ]
  /\ UNCHANGED <<captures, controls, wanted, camera, stopper>>

-----------------------------------------------------------------------------
(* WatchdogSource.close() and CameraSource.close() on the stopping thread. *)

(* The source is in the watchdog's hands once its constructor has returned. *)
StopSets ==
  /\ stopper.pc = "idle"
  /\ \/ Len(captures) > 1
     \/ consumer.pc \in {"stream", "reading", "lost", "close", "backoff", "reopen"}
  /\ stopper' = [ stopper EXCEPT !.pc = "closing" ]
  /\ UNCHANGED <<captures, controls, wanted, camera, consumer>>

CloseMarks ==
  /\ stopper.pc = "closing"
  /\ camera' = [ camera EXCEPT !.closed = TRUE ]
  /\ stopper' = [ stopper EXCEPT !.pc = "taking" ]
  /\ UNCHANGED <<captures, controls, wanted, consumer>>

CloseTakes ==
  /\ stopper.pc = "taking"
  /\ stopper' = [ pc |-> IF camera.cap = NoCapture THEN "done" ELSE "release",
                  doomed |-> camera.cap ]
  /\ camera' = [ camera EXCEPT !.cap = NoCapture ]
  /\ UNCHANGED <<captures, controls, wanted, consumer>>

CloseReleases ==
  /\ stopper.pc = "release"
  /\ captures' = Stopped(stopper.doomed)
  /\ stopper' = [ stopper EXCEPT !.pc = "join" ]
  /\ UNCHANGED <<controls, wanted, camera, consumer>>

CloseJoins ==
  /\ stopper.pc = "join"
  /\ stopper' = [ pc |-> "done", doomed |-> NoCapture ]
  /\ UNCHANGED <<captures, controls, wanted, camera, consumer>>

-----------------------------------------------------------------------------
ConsumerStep ==
  \/ Construct \/ OpenEnds \/ OpenTimesOut \/ NotOpened \/ Publish
  \/ SetAsks \/ SetAnswered \/ SetTimesOut \/ GuardRefuses \/ Completed
  \/ ReadBegins \/ ReadGets \/ ReadTimesOut
  \/ Recovers \/ CameraCloses \/ BackoffEnds \/ Reopens \/ Releases \/ Joins

StopperStep == CloseMarks \/ CloseTakes \/ CloseReleases \/ CloseJoins

Threads(c) == (OwnerStep(c) \/ FrameComes(c)) /\ UNCHANGED <<wanted, camera, consumer, stopper>>

Next ==
  \/ ConsumerStep
  \/ StopSets
  \/ StopperStep
  \/ \E c \in CaptureIds : Threads(c)

OwnerRuns(c) == c \in CaptureIds /\ OwnerStep(c) /\ UNCHANGED <<wanted, camera, consumer, stopper>>

(* Threads that can run do run; a thread hung in the driver need not, and  *)
(* only the captures of Wedging hang for ever.  A timeout is a step of the *)
(* thread that waits, so it comes too.                                     *)
Spec ==
  /\ Init /\ [][Next]_vars
  /\ WF_vars(ConsumerStep)
  /\ WF_vars(StopperStep)
  /\ \A c \in (1 .. MaxCaptures) \ Wedging : WF_vars(OwnerRuns(c))

-----------------------------------------------------------------------------
Alive(c) == captures[c].pc # "gone"

(* _stop and _opened of PyGrabberCapture, and every way out of             *)
(* CameraSource._connect and reopen: a graph that has not been told to     *)
(* stop is the one being connected, one a thread is about to release, or   *)
(* the one the camera holds while its consumer lives or close() is still   *)
(* to come.  A graph nobody holds would keep the exclusive device from     *)
(* every later open.  And a capture that was told to stop never reports    *)
(* itself open again.                                                      *)
NoOrphanGraph ==
  \A c \in CaptureIds :
    /\ Alive(c) /\ ~ captures[c].stop =>
         \/ c = camera.cap /\ (consumer.pc = "done" => stopper.pc \in {"closing", "taking"})
         \/ c = consumer.cap /\ consumer.pc \in {"open", "check"}
         \/ c = consumer.doomed
         \/ c = stopper.doomed
    /\ captures[c].opened => ~ captures[c].stop

(* apply_settings and the reports of _connect: a connect that counted no   *)
(* failed control left the camera with the configured controls, even when  *)
(* commands timed out and were carried out late.                           *)
SettingsAreHonest ==
  consumer.pc \in {"stream", "reading"} /\ ~ consumer.failed =>
    /\ controls.auto = wanted.auto
    /\ ~ wanted.auto => controls.exposure = wanted.exposure

(* close() while the camera is connected, being connected, reopened or     *)
(* torn down: both threads come to an end and every owner thread gives the *)
(* device back, unless the driver never returns to it.                     *)
StopFreesDevice ==
  Stopping ~>
    /\ stopper.pc = "done" /\ consumer.pc = "done"
    /\ \A c \in CaptureIds : c \in Wedging \/ captures[c].pc = "gone"
=============================================================================
