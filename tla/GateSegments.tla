---------------------------- MODULE GateSegments ----------------------------
(***************************************************************************)
(* The motion gate driven by an arbitrary finite stream, compared with a   *)
(* reference definition of the segments of that stream.  The gate decides  *)
(* frame by frame with two streak counters; the reference looks at the     *)
(* whole history and says, with no counter, which intervals are segments.  *)
(***************************************************************************)
EXTENDS MotionGate, Sequences, FiniteSetsExt

CONSTANT MaxFrames            \* bound: length of the stream

VARIABLES
  gate,        \* the MotionGate under test
  history,     \* what each delivered frame looked like; frame i has ts i
  opened,      \* the OPEN events so far, a segment id and a ts each
  closed,      \* the CLOSE events so far
  flushed      \* end of stream reached

gateVars == <<gate, history, opened, closed, flushed>>

GateInit ==
  /\ gate = NewGate
  /\ history = <<>>
  /\ opened = {}
  /\ closed = {}
  /\ flushed = FALSE

Event(id, ts)    == [ id |-> id, ts |-> ts ]
CloseEvent(g, h) == IF Closes(g, h) THEN {Event(g.openId, g.lastActive)} ELSE {}
OpenEvent(g, h)  == IF Opens(g, h) THEN {Event(h.openId, h.backdate)} ELSE {}

(* One frame through _process_frame's calls on the gate: a marked frame    *)
(* breaks the segment first, then every frame updates the gate.            *)
Deliver(moving, discontinuity) ==
  LET ts     == Len(history) + 1
      before == IF discontinuity THEN BreakSegment(gate) ELSE gate
      after  == Update(before, ts, moving)
  IN  /\ ~ flushed
      /\ Len(history) < MaxFrames
      /\ history' = Append(history, [moving |-> moving, mark |-> discontinuity])
      /\ gate' = after
      /\ opened' = opened \cup OpenEvent(before, after)
      /\ closed' = closed \cup CloseEvent(gate, before) \cup CloseEvent(before, after)
      /\ UNCHANGED flushed

EndOfStream ==
  /\ ~ flushed
  /\ flushed' = TRUE
  /\ gate' = Flush(gate)
  /\ closed' = closed \cup CloseEvent(gate, Flush(gate))
  /\ UNCHANGED <<history, opened>>

GateNext ==
  \/ \E moving, discontinuity \in BOOLEAN : Deliver(moving, discontinuity)
  \/ EndOfStream

-----------------------------------------------------------------------------
(* The reference definition.                                               *)

(* A frame counts as active when it moved against a reference image of its *)
(* own connection: the first frame of a connection has none.               *)
Active(i) == i > 1 /\ history[i].moving /\ ~ history[i].mark

(* No discontinuity and no QuietFrames consecutive still frames in i .. j. *)
Connected(i, j) ==
  /\ \A k \in (i + 1) .. j : ~ history[k].mark
  /\ \A k \in i .. (j - QuietFrames + 1) :
       \E m \in k .. (k + QuietFrames - 1) : Active(m)

(* A run of at least OpenFrames active frames starts at o.                 *)
RunStart(o) ==
  /\ o + OpenFrames - 1 <= Len(history)
  /\ \A i \in o .. (o + OpenFrames - 1) : Active(i)
  /\ ~ (o > 1 /\ Active(o - 1))

Starts ==
  { o \in 1 .. Len(history) :
      RunStart(o) /\ ~ \E p \in 1 .. (o - 1) : RunStart(p) /\ Connected(p, o) }

Reference ==
  { <<o, Max({ c \in o .. Len(history) : Active(c) /\ Connected(o, c) })>> :
      o \in Starts }

-----------------------------------------------------------------------------
(* What the gate has reported: the closed intervals and, for the segment   *)
(* still open, the interval it would close as if the stream ended now.     *)
IdsOf(events) == { e.id : e \in events }

Reported ==
  (UNION { { <<o.ts, c.ts>> : c \in { d \in closed : d.id = o.id } } : o \in opened }) \cup
  { <<o.ts, gate.lastActive>> : o \in { e \in opened : e.id \notin IdsOf(closed) } }

(* MotionGate.update, flush and break_segment together: the segments the   *)
(* gate reports are exactly those of the stream.  No run of motion long    *)
(* enough to be a pallet goes unreported, no segment is invented, none     *)
(* spans a discontinuity or a quiet stretch, and each is opened at its     *)
(* first and closed at its last active frame.                              *)
SegmentsMatchReference ==
  /\ Reported = Reference
  /\ flushed => IdsOf(closed) = IdsOf(opened)
=============================================================================
