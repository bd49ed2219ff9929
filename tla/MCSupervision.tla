------------------------------ MODULE MCSupervision ------------------------------
(* Slots of Supervision as small numbers.                                  *)
EXTENDS Supervision

TwoSups    == {1, 2}
TwoWriters == {1, 2}
===================================================================================
