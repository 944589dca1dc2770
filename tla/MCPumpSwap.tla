----------------------------- MODULE MCPumpSwap -----------------------------
(* The executor of pump.fun swaps for TLC.                                 *)
EXTENDS PumpSwap

OpenAndComplete ==
    {[virtualSol |-> 30, virtualToken |-> 1000, realToken |-> 800, complete |-> b] : b \in BOOLEAN}
=============================================================================
