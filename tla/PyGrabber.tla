------------------------------- MODULE PyGrabber -------------------------------
(***************************************************************************)
(* PyGrabberCapture: the capture for cameras only DirectShow can read.     *)
(* Each capture has one owner thread that builds, runs, serves and tears   *)
(* down the whole graph; every other thread sees plain state under a lock. *)
(* The device is exclusive: one graph may run at a time.                   *)
(*                                                                         *)
(* Abstraction.  A call into COM is in flight while pc names it: it        *)
(* returns or raises when the owner steps, and hangs while it does not.    *)
(* The calls of the build up to the connected pins are one pc, since each  *)
(* is followed by the same check.  The sequence numbers of the frames are  *)
(* reduced to what read() compares: no frame yet, the last one read, or    *)
(* one not read yet; a frame need never come.  A timeout may strike at any *)
(* moment of the wait it bounds.  The format is chosen in ModeChoice.      *)
(***************************************************************************)
EXTENDS Integers, Sequences, FiniteSets

CONSTANTS
  MaxCaptures,     \* bound: captures built, hence connections
  Wedging          \* the captures whose COM calls may hang for ever

ASSUME PyGrabberAssumption ==
  /\ MaxCaptures \in Nat \ {0}
  /\ Wedging \subseteq 1 .. MaxCaptures

VARIABLES
  captures,        \* the captures built so far, in order
  controls         \* the controls of the camera itself

CaptureIds == DOMAIN captures
NoCall     == [prop |-> "none", value |-> FALSE, state |-> "none"]

NewCapture ==
  [ pc |-> "build", stop |-> FALSE, opened |-> FALSE, running |-> FALSE,
    frame |-> "none", ae_auto |-> FALSE, cmd_q |-> <<>>, hand |-> NoCall ]

Owner(c, changed) == captures' = [ captures EXCEPT ![c] = changed ]

(* _ready: the attempt to open is over, whichever way.                     *)
Ready(c) == captures[c].pc \notin {"build", "run", "live"}

-----------------------------------------------------------------------------
(* The owner thread, _run.                                                 *)

(* _check_stop, between any two COM calls: go on to the next call, or bail *)
(* out through _StopRequested.                                             *)
Onward(c, next) == IF captures[c].stop THEN "teardown" ELSE next

Builds(c) ==
  /\ captures[c].pc = "build"
  /\ Owner(c, [ captures[c] EXCEPT !.pc = Onward(c, "run") ])
  /\ UNCHANGED controls

(* graph.run() has no check behind it: a stop that comes during the call   *)
(* is seen by the liveness gate.                                           *)
GraphRuns(c) ==
  /\ captures[c].pc = "run"
  /\ \A other \in CaptureIds : ~ captures[other].running
  /\ Owner(c, [ captures[c] EXCEPT !.pc = "live", !.running = TRUE ])
  /\ UNCHANGED controls

(* Any call up to here may raise; run() does while the device is taken.    *)
BuildRaises(c) ==
  /\ captures[c].pc \in {"build", "run"}
  /\ Owner(c, [ captures[c] EXCEPT !.pc = "teardown", !.opened = FALSE ])
  /\ UNCHANGED controls

(* Mutant: a frame is enough, whoever has given up meanwhile.              *)
Proven_FrameOnly(c) == captures[c].frame # "none"

(* The liveness gate, decided under the lock: a frame has come, or stop    *)
(* was set, or the wait is over.                                           *)
Proven(c) == captures[c].frame # "none" /\ ~ captures[c].stop

LiveGate(c) ==
  /\ captures[c].pc = "live"
  /\ Owner(c, [ captures[c] EXCEPT !.opened = Proven(c),
                                   !.pc = IF Proven(c) THEN "serve" ELSE "teardown" ])
  /\ UNCHANGED controls

(* _command_loop looks at stop between two commands; a command can still   *)
(* be taken by the get() that was waiting when stop was set.               *)
ServeEnds(c) ==
  /\ captures[c].pc = "serve" /\ captures[c].stop
  /\ Owner(c, [ captures[c] EXCEPT !.pc = "teardown" ])
  /\ UNCHANGED controls

ServeTakes(c) ==
  /\ captures[c].pc = "serve" /\ captures[c].cmd_q # <<>>
  /\ Owner(c, [ captures[c] EXCEPT !.pc = "control", !.cmd_q = Tail(@),
                                   !.hand = Head(captures[c].cmd_q) ])
  /\ UNCHANGED controls

(* The answer goes to the caller's own event, if the caller still waits.   *)
Replied(cmd, state) == IF cmd.state = "asked" THEN [cmd EXCEPT !.state = state] ELSE NoCall

(* _apply_control reached the device: auto exposure re-asserts the current *)
(* exposure under the new flag, exposure is written under the last flag    *)
(* the device confirmed.                                                   *)
Written(c, cmd) ==
  IF cmd.prop = "auto_exposure"
    THEN [ controls EXCEPT !.auto = cmd.value ]
    ELSE [ auto |-> captures[c].ae_auto, exposure |-> cmd.value ]

ControlApplied(c) ==
  /\ captures[c].pc = "control"
  /\ LET cmd == captures[c].hand
     IN  /\ controls' = Written(c, cmd)
         /\ Owner(c, [ captures[c] EXCEPT
                         !.pc = "serve", !.hand = Replied(cmd, "ok"),
                         !.ae_auto = IF cmd.prop = "auto_exposure" THEN cmd.value ELSE @ ])

(* The driver refused the write, or its read-back raised after the write.  *)
ControlFails(c) ==
  /\ captures[c].pc = "control"
  /\ Owner(c, [ captures[c] EXCEPT !.pc = "serve", !.hand = Replied(@, "rejected") ])
  /\ controls' \in {controls, Written(c, captures[c].hand)}

(* _teardown and the end of the thread.                                    *)
TornDown(c) ==
  /\ captures[c].pc = "teardown"
  /\ Owner(c, [ captures[c] EXCEPT !.pc = "gone", !.running = FALSE ])
  /\ UNCHANGED controls

OwnerStep(c) ==
  \/ Builds(c) \/ GraphRuns(c) \/ BuildRaises(c) \/ LiveGate(c)
  \/ ServeEnds(c) \/ ServeTakes(c) \/ ControlApplied(c) \/ ControlFails(c)
  \/ TornDown(c)

-----------------------------------------------------------------------------
(* DirectShow's streaming thread: BufferCB and _on_frame.                  *)

FrameComes(c) ==
  /\ captures[c].running /\ ~ captures[c].stop
  /\ captures[c].frame # "fresh"
  /\ Owner(c, [ captures[c] EXCEPT !.frame = "fresh" ])
  /\ UNCHANGED controls

-----------------------------------------------------------------------------
(* What other threads do to a capture; each is one step under its lock.    *)

(* __init__ that has waited too long, and release(), leave the same marks. *)
Stopped(c) == [ captures EXCEPT ![c].stop = TRUE, ![c].opened = FALSE ]

(* set(): the command is queued with an event of its own.                  *)
Queued(c, prop, value) ==
  [ captures EXCEPT ![c].cmd_q =
      Append(@, [prop |-> prop, value |-> value, state |-> "asked"]) ]

(* The caller of set() has waited two seconds: whatever becomes of its     *)
(* command, nobody hears of it.                                            *)
Unheard(c) ==
  [ captures EXCEPT
      ![c].cmd_q = [ i \in DOMAIN @ |-> [@[i] EXCEPT !.state = "unheard"] ],
      ![c].hand  = IF captures[c].pc = "control" THEN [@ EXCEPT !.state = "unheard"]
                                                 ELSE NoCall ]
=============================================================================
