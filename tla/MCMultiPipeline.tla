---------------------------- MODULE MCMultiPipeline ----------------------------
(* Two pallets side by side, near enough that each track could take the    *)
(* other's blob: none, either, both apart, both fused into one blob.       *)
EXTENDS MultiPipeline

CONSTANT p1

OnePayload == {p1}
Scene      == 1 .. 4
Quarter    == <<1, 4>>
TwoPallets == { {}, {1, 2}, {4}, {1, 2, 4}, 1 .. 4 }
=============================================================================
