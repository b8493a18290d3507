---------------------------- MODULE MCWindowFrames ----------------------------
(* Bounds for the model checker: a configuration file cannot write a       *)
(* function.                                                               *)
EXTENDS WindowFrames

MCMaxSwapchains == [w \in Windows |-> 3]
=============================================================================
