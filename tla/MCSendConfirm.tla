--------------------------- MODULE MCSendConfirm ---------------------------
(* Instances of SendConfirm for TLC.                                       *)
EXTENDS SendConfirm, TLC

CONSTANTS t1, t2, a, b, c1, c2

TwoTxns == {t1, t2}
MCSourceOf == (t1 :> a) @@ (t2 :> b)
OneSourceOf == (t1 :> a) @@ (t2 :> a)
DistinctContents == (t1 :> c1) @@ (t2 :> c2)
SameContents == (t1 :> c1) @@ (t2 :> c1)
=============================================================================
