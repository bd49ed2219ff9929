-------------------------- MODULE MCCrossCameraDedup --------------------------
(* The two cameras of a station and two payloads for CrossCameraDedup.     *)
EXTENDS CrossCameraDedup, TLC

CONSTANTS c1, c2, p1, p2

TwoCameras  == {c1, c2}
TwoPayloads == {p1, p2}

(* A quick restart, a slower one, and a clock that was stepped back.       *)
Downtimes == {0, 1, -2}

Interchangeable == Permutations(Cameras) \cup Permutations(Payloads)
===============================================================================
