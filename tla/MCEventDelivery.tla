---------------------------- MODULE MCEventDelivery ----------------------------
(* Two cameras and two sinks for EventDelivery.                            *)
EXTENDS EventDelivery, TLC

CONSTANTS c1, c2, s1, s2

TwoCameras == {c1, c2}
OneSink    == {s1}
TwoSinks   == {s1, s2}

Interchangeable == Permutations(TwoCameras) \cup Permutations(TwoSinks)
=============================================================================
