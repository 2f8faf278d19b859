----------------------------- MODULE MCPlatform -----------------------------
(* An instance of Platform for TLC. *)
EXTENDS Platform

MCPriority == [a |-> 1, b |-> 2, c |-> 2]
MCOps == [a |-> {"back"}, b |-> {"receive"}, c |-> {"peek"}]
MCKinds == [p |-> {"tx", "read"}, q |-> {"rx", "write"}]

(* One port and the processor: the run on WaitsForDone. *)
MCReads == [p |-> {"read"}]

ASSUME PcmAssumption == Pcm!PcmParameters
ASSUME SpiAssumption == Spi!SpiParameters
=============================================================================
