------------------------------ MODULE MCPipeline ------------------------------
(* One payload for Pipeline: at a first start the store is empty, at a     *)
(* restart it was last seen the moment this process began.                 *)
EXTENDS Pipeline

CONSTANT p1

OnePayload       == {p1}
ColdAndWarmStart == { [ p \in {} |-> 0 ], [ p \in {p1} |->  0 ] }
=============================================================================
