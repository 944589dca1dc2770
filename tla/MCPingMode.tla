---------------------------- MODULE MCPingMode ----------------------------
(* Orders in ping mode for TLC: two wallets buy a token with SOL, the      *)
(* first of them twice, and it swaps the token for another.                *)
EXTENDS PingMode, TLC

CONSTANTS o1, o2, o3, o4, w1, w2, sol, tokA, tokB

Buy(w, amount) ==
    [wallet |-> w, tin |-> sol, tout |-> tokA, ain |-> amount, left |-> 2, cost |-> amount]

Buys == (o1 :> Buy(w1, 3)) @@ (o2 :> Buy(w1, 2)) @@ (o3 :> Buy(w2, 2)) @@
        (o4 :> [wallet |-> w1, tin |-> tokA, tout |-> tokB, ain |-> 2, left |-> 2, cost |-> 2])

Swaps == [o \in Orders |-> Buys[o]]

OneTier == 1 :> 4
=============================================================================
