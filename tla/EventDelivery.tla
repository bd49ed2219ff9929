----------------------------- MODULE EventDelivery -----------------------------
(***************************************************************************)
(* The events' way through a station: each camera's pipeline publishes on  *)
(* its own EventBus, whose worker thread forwards to the business EventBus,*)
(* whose worker hands every event to every sink.  And the end of it: each  *)
(* runner shuts its bus down, then the station shuts the business bus      *)
(* down and decides whether the run was clean.                             *)
(*                                                                         *)
(* Abstraction.  An event is a camera and a number.  The deduper between   *)
(* the buses is the subject of CrossCameraDedup, here it forwards what it  *)
(* gets.  A join that times out is a choice: the worker was too slow.      *)
(***************************************************************************)
EXTENDS Integers, Sequences, FiniteSets

CONSTANTS
  Cameras,
  EventsPer,        \* bound: events a pipeline publishes at most
  CameraCapacity,   \* EventBus maxsize of a camera's bus
  StationCapacity,  \* and of the business bus
  Sinks             \* the sinks of the business bus

Business == "business"

ASSUME DeliveryAssumption ==
  /\ IsFiniteSet(Cameras) /\ Business \notin Cameras
  /\ EventsPer \in Nat
  /\ CameraCapacity \in Nat \ {0} /\ StationCapacity \in Nat \ {0}

Buses    == Cameras \cup {Business}
Event    == Cameras \X (1 .. EventsPer)
End      == <<>>                                 \* SENTINEL

Capacity(b) == IF b = Business THEN StationCapacity ELSE CameraCapacity

VARIABLES
  stopAll,     \* station.on_arm_failure: stop_all, or continue_others
  queue,       \* bus -> EventBus.queue
  worker,      \* bus -> where its thread is, and the event it is handling
  closing,     \* bus -> how far its shutdown() is
  published,   \* camera -> events its pipeline has published
  ended,       \* camera -> how its threads ended, or "running"
  got,         \* sink -> events it has taken
  sinkErrors,  \* EventBus.sink_errors of the business bus
  handled,     \* the events the business bus has handled
  late,        \* published_after_shutdown of the business bus
  outcome      \* how StationRunner.run ended, or "running"

vars == <<stopAll, queue, worker, closing, published, ended, got, sinkErrors,
          handled, late, outcome>>

Init ==
  /\ stopAll \in BOOLEAN
  /\ queue = [ b \in Buses |-> <<>> ]
  /\ worker = [ b \in Buses |-> [ at |-> "get", item |-> End, left |-> {} ] ]
  /\ closing = [ b \in Buses |-> "open" ]
  /\ published = [ c \in Cameras |-> 0 ]
  /\ ended = [ c \in Cameras |-> "running" ]
  /\ got = [ s \in Sinks |-> {} ]
  /\ sinkErrors = 0 /\ handled = {} /\ late = 0
  /\ outcome = "running"

HasRoom(b)   == Len(queue[b]) < Capacity(b)
PutOn(b, x)  == queue' = [ queue EXCEPT ![b] = Append(@, x) ]
WorkerGoes(b, at) == worker' = [ worker EXCEPT ![b].at = at ]
ClosingGoes(b, at) == closing' = [ closing EXCEPT ![b] = at ]

Returned(b) == closing[b] \in {"drained", "undrained"}

-----------------------------------------------------------------------------
(* The pipelines.                                                          *)

(* publish(), blocking: a full bus stalls the pipeline.                    *)
Publish(c) ==
  /\ ended[c] = "running" /\ published[c] < EventsPer /\ HasRoom(c)
  /\ published' = [ published EXCEPT ![c] = @ + 1 ]
  /\ PutOn(c, <<c, published[c] + 1>>)
  /\ UNCHANGED <<worker, closing, ended, got, sinkErrors, handled, late, outcome>>

(* Source and pipeline thread are joined: the stream was stopped or over,  *)
(* a thread failed, or the watchdog escalated.                             *)
PipelineEnds(c) ==
  /\ ended[c] = "running"
  /\ ended' = [ ended EXCEPT ![c] = "stopped" ] \/ ended' = [ ended EXCEPT ![c] = "failed" ]
       \/ ended' = [ ended EXCEPT ![c] = "escalated" ]
  /\ UNCHANGED <<queue, worker, closing, published, got, sinkErrors, handled, late, outcome>>

-----------------------------------------------------------------------------
(* The worker threads.                                                     *)

Get(b) ==
  /\ worker[b].at = "get" /\ queue[b] # <<>>
  /\ LET item == Head(queue[b])
     IN  worker' = [ worker EXCEPT ![b] =
           [ at   |-> IF item = End THEN "done" ELSE "handle",
             item |-> item,
             left |-> IF b = Business /\ item # End THEN Sinks ELSE {} ] ]
  /\ queue' = [ queue EXCEPT ![b] = Tail(@) ]
  /\ UNCHANGED <<closing, published, ended, got, sinkErrors, handled, late, outcome>>

(* A camera's only sink publishes on the business bus: look whether it is  *)
(* shutting down, then put, blocking.                                      *)
Forward(c) ==
  /\ worker[c].at = "handle"
  /\ late' = IF closing[Business] = "open" THEN late ELSE late + 1
  /\ WorkerGoes(c, "forward")
  /\ UNCHANGED <<queue, closing, published, ended, got, sinkErrors, handled, outcome>>

Forwarded(c) ==
  /\ worker[c].at = "forward" /\ HasRoom(Business)
  /\ PutOn(Business, worker[c].item)
  /\ WorkerGoes(c, "get")
  /\ UNCHANGED <<closing, published, ended, got, sinkErrors, handled, late, outcome>>

(* A sink raises: it is logged and counted, the next sink is next.         *)
SinkFails(s) ==
  /\ UNCHANGED got
  /\ sinkErrors' = sinkErrors + 1
  /\ worker' = [ worker EXCEPT ![Business].left = @ \ {s} ]

SinkTakes(s) ==
  /\ got' = [ got EXCEPT ![s] = @ \cup {worker[Business].item} ]
  /\ UNCHANGED sinkErrors
  /\ worker' = [ worker EXCEPT ![Business].left = @ \ {s} ]

Handle(s) ==
  /\ worker[Business].at = "handle" /\ s \in worker[Business].left
  /\ SinkTakes(s) \/ SinkFails(s)
  /\ UNCHANGED <<queue, closing, published, ended, handled, late, outcome>>

Handled ==
  /\ worker[Business].at = "handle" /\ worker[Business].left = {}
  /\ handled' = handled \cup {worker[Business].item}
  /\ WorkerGoes(Business, "get")
  /\ UNCHANGED <<queue, closing, published, ended, got, sinkErrors, late, outcome>>

-----------------------------------------------------------------------------
(* shutdown(): raise the flag, put the end marker, blocking, and join.     *)

(* A runner shuts its bus down when its threads are joined, the station    *)
(* the business bus when every runner has returned.                        *)
MayShutDown(b) ==
  IF b = Business THEN \A c \in Cameras : Returned(c) ELSE ended[b] # "running"

BeginShutdown(b) ==
  /\ closing[b] = "open" /\ MayShutDown(b)
  /\ ClosingGoes(b, "flagged")
  /\ UNCHANGED <<queue, worker, published, ended, got, sinkErrors, handled, late, outcome>>

PutEnd(b) ==
  /\ closing[b] = "flagged" /\ HasRoom(b)
  /\ PutOn(b, End)
  /\ ClosingGoes(b, "join")
  /\ UNCHANGED <<worker, published, ended, got, sinkErrors, handled, late, outcome>>

(* Mutant: shutdown() does not look whether the thread is still alive.     *)
Join_Unverified(b) ==
  /\ closing[b] = "join"
  /\ ClosingGoes(b, "drained")
  /\ UNCHANGED <<queue, worker, published, ended, got, sinkErrors, handled, late, outcome>>

Join(b) ==
  /\ closing[b] = "join"
  /\ ClosingGoes(b, IF worker[b].at = "done" THEN "drained" ELSE "undrained")
  /\ UNCHANGED <<queue, worker, published, ended, got, sinkErrors, handled, late, outcome>>

-----------------------------------------------------------------------------
(* StationRunner.run after the drain.                                      *)

Escalated(c) == ended[c] = "escalated"
ArmFailed(c) == ended[c] # "stopped" \/ closing[c] = "undrained"

(* continue_others puts up with a lost arm while another one has a summary,*)
(* never with an escalation or an undrained business bus.                  *)
Tolerable ==
  /\ ~ stopAll
  /\ \E c \in Cameras : ~ ArmFailed(c)
  /\ closing[Business] = "drained"
  /\ \A c \in Cameras : ~ Escalated(c)

(* Exit 0, exit 3 or exit 1.  An escalation is preferred to other errors.  *)
Verdict ==
  IF closing[Business] = "drained" /\ \A c \in Cameras : ~ ArmFailed(c) THEN "clean"
  ELSE IF Tolerable THEN "clean"
  ELSE IF \E c \in Cameras : Escalated(c) THEN "restart" ELSE "failed"

Conclude ==
  /\ outcome = "running" /\ Returned(Business)
  /\ outcome' = Verdict
  /\ UNCHANGED <<queue, worker, closing, published, ended, got, sinkErrors, handled, late>>

-----------------------------------------------------------------------------
(* The station has returned and every thread waits for nothing to come.    *)
Done ==
  /\ outcome # "running"
  /\ UNCHANGED vars

SinkStep == \E s \in Sinks : Handle(s)

WorkerStep(b) ==
  \/ Get(b)
  \/ b \in Cameras /\ (Forward(b) \/ Forwarded(b))
  \/ b = Business /\ Handled

ShutdownStep(b) == BeginShutdown(b) \/ PutEnd(b) \/ Join(b)

Step ==
  \/ \E c \in Cameras : Publish(c) \/ PipelineEnds(c)
  \/ \E b \in Buses : WorkerStep(b) \/ ShutdownStep(b)
  \/ SinkStep
  \/ Conclude

Next ==
  \/ Step /\ UNCHANGED stopAll
  \/ Done

Spec == Init /\ [][Next]_vars

(* In a station that was stopped every thread runs, but a sink may hang    *)
(* for ever.                                                               *)
SpecWedged ==
  /\ Spec
  /\ \A b \in Buses : WF_vars(WorkerStep(b) /\ UNCHANGED stopAll)
                       /\ WF_vars(ShutdownStep(b) /\ UNCHANGED stopAll)
  /\ \A c \in Cameras : WF_vars(PipelineEnds(c) /\ UNCHANGED stopAll)
  /\ WF_vars(Conclude /\ UNCHANGED stopAll)

-----------------------------------------------------------------------------
TypeOK ==
  /\ stopAll \in BOOLEAN
  /\ queue \in [ Buses -> Seq(Event \cup {End}) ]
  /\ \A b \in Buses : Len(queue[b]) <= Capacity(b)
  /\ worker \in [ Buses -> [ at : {"get", "handle", "forward", "done"},
                             item : Event \cup {End}, left : SUBSET Sinks ] ]
  /\ closing \in [ Buses -> {"open", "flagged", "join", "drained", "undrained"} ]
  /\ published \in [ Cameras -> 0 .. EventsPer ]
  /\ ended \in [ Cameras -> {"running", "stopped", "failed", "escalated"} ]
  /\ got \in [ Sinks -> SUBSET Event ]
  /\ sinkErrors \in Nat /\ late \in Nat
  /\ handled \subseteq Event
  /\ outcome \in {"running", "clean", "failed", "restart"}

(* A clean result over a lost event is what the verified drains exclude:   *)
(* "the caller must treat the run as failed" when shutdown() returned      *)
(* False.  A clean run has handled every event any pipeline published, but *)
(* for those of an arm that continue_others has given up; it hides no      *)
(* escalation, which reaches the supervisor as a restart request; an event *)
(* put behind the end marker, which only a camera bus that failed to drain *)
(* can still send, is counted, but for one of each such bus, which may     *)
(* have looked at the flag before it went up; and since "a failing sink is *)
(* logged and isolated so the other sinks keep receiving", each sink has   *)
(* taken each handled event or raised on it itself.                        *)
CleanRunLostNothing ==
  /\ outcome = "clean" =>
       \A c \in Cameras : stopAll \/ ~ ArmFailed(c) =>
         { <<c, n>> : n \in 1 .. published[c] } \subseteq handled
  /\ outcome # "running" /\ (\E c \in Cameras : Escalated(c)) => outcome = "restart"
  /\ late > 0 => \E c \in Cameras : closing[c] = "undrained"
  /\ \A i \in DOMAIN queue[Business] :
       queue[Business][i] = End =>
         Len(queue[Business]) - i <= late + Cardinality({ c \in Cameras : closing[c] = "undrained" })
  /\ worker[Business].at # "handle" =>
       sinkErrors = Cardinality({ x \in handled \X Sinks : x[1] \notin got[x[2]] })

(* Refuted, from "a straggling per-camera bus ... counted + logged, never  *)
(* silent": publish() looks at the flag before its blocking put, so that   *)
(* one event of each undrained bus can land behind the end marker after a  *)
(* look at a flag that was still down.                                     *)
StragglersAreCounted ==
  \A i \in DOMAIN queue[Business] :
    queue[Business][i] = End => Len(queue[Business]) - i <= late

(* "shutdown() returns whether the bus actually drained": it returns.      *)
ShutdownReturns == \A b \in Buses : closing[b] = "flagged" ~> Returned(b)
=============================================================================
