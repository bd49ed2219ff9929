----------------------------- MODULE RollingBuffer -----------------------------
(***************************************************************************)
(* The rolling buffer of a pipeline: the last horizon seconds of frames,   *)
(* and never more than MaxLen of them.  A frame is its timestamp, which    *)
(* every later frame exceeds, so the deque is the set of what it holds and *)
(* its order that of the timestamps.                                       *)
(***************************************************************************)
EXTENDS Integers, FiniteSets

CONSTANT MaxLen    \* maxlen of the deque

ASSUME BufferAssumption == MaxLen \in Nat \ {0}

(* Of the frames S those that a buffer holds at a time: not over the       *)
(* horizon, and with fewer than MaxLen newer ones.                         *)
Newer(S, f) == { g \in S : f < g }

Held(S, at, horizon) ==
  { f \in S : f >= at - horizon /\ Cardinality(Newer(S, f)) < MaxLen }

(* append: the deque drops its oldest frame when it is full, and then what *)
(* the new frame puts over the horizon.                                    *)
Appended(b, ts, horizon) == Held(b \cup {ts}, ts, horizon)

(* So many frames of S came within the horizon of f that it was dropped.   *)
Crowded(S, f, horizon) ==
  Cardinality({ g \in Newer(S, f) : g <= f + horizon }) >= MaxLen
=============================================================================
