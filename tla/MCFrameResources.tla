-------------------------- MODULE MCFrameResources ---------------------------
(* The slots of two windows and the bounds for each, for the model checker *)
(* (a configuration file can write neither pairs nor functions).           *)
EXTENDS FrameResources

MCAllocators == {"main", "extra"} \X (0 .. Inflight - 1)
MCMaxSwapchains == [main |-> 2, extra |-> 1]
MCMaxObjects == [main |-> 1, extra |-> 0]
=============================================================================
