--------------------------- MODULE MCEventPipeline ---------------------------
(***************************************************************************)
(* A small instance of EventPipeline.                                      *)
(***************************************************************************)
EXTENDS EventPipeline

ThreeEvents == [a \in Accounts |-> 3]
=============================================================================
