--------------------------- MODULE MCCopyService ---------------------------
(* Instances of CopyService for TLC.                                       *)
EXTENDS CopyService, TLC

CONSTANTS o1, o2, o3, w1, w2, A, B

\* w1 buys four A, sells most of them for B, and swaps a token for itself.
BuySell == (o1 :> [wallet |-> w1, tin |-> SOL, tout |-> A, ain |-> 3, aout |-> 4, pre |-> 9]) @@
           (o2 :> [wallet |-> w1, tin |-> A, tout |-> B, ain |-> 3, aout |-> 4, pre |-> 9]) @@
           (o3 :> [wallet |-> w1, tin |-> A, tout |-> A, ain |-> 1, aout |-> 1, pre |-> 9])

\* The whole of a position is sold, bought again and sold again.
RoundTrip == (o1 :> [wallet |-> w1, tin |-> A, tout |-> SOL, ain |-> 4, aout |-> 2, pre |-> 9]) @@
             (o2 :> [wallet |-> w1, tin |-> SOL, tout |-> A, ain |-> 3, aout |-> 4, pre |-> 9]) @@
             (o3 :> [wallet |-> w1, tin |-> A, tout |-> SOL, ain |-> 4, aout |-> 2, pre |-> 9])

\* A second wallet, which may be added later, buys what w1 sells: half of its
\* position, and more than it was ever seen to buy.
TwoWallets == (o1 :> [wallet |-> w2, tin |-> SOL, tout |-> A, ain |-> 3, aout |-> 4, pre |-> 9]) @@
              (o2 :> [wallet |-> w1, tin |-> A, tout |-> SOL, ain |-> 2, aout |-> 2, pre |-> 9]) @@
              (o3 :> [wallet |-> w1, tin |-> A, tout |-> B, ain |-> 6, aout |-> 4, pre |-> 9])

\* One sell of the whole position.
SellAll == (o1 :> [wallet |-> w1, tin |-> A, tout |-> SOL, ain |-> 4, aout |-> 2, pre |-> 9])

Nothing == [k \in Keys |-> NoHistory]

Holding == [k \in Keys |->
    IF k = <<w1, A>>
    THEN [originBuy |-> 4, originSell |-> 0, execBuy |-> 2, execSell |-> 0]
    ELSE NoHistory]
=============================================================================
