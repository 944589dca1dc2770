---------------------------- MODULE CopyAmounts ----------------------------
(***************************************************************************)
(* The arithmetic of the copy service: how much of a token to sell or how  *)
(* many lamports to spend (services/copy/v2/execution.rs), the share of a  *)
(* buy that is set aside as dust (services/copy/history.rs) and the fee of *)
(* an attempt.  The code computes ratios in f64 and truncates; for amounts *)
(* up to 12, which bounds the instances that TLC checks, the truncated     *)
(* product is the quotient written here.                                   *)
(***************************************************************************)
EXTENDS Naturals

Lesser(a, b) == IF a < b THEN a ELSE b
Greater(a, b) == IF a < b THEN b ELSE a

\* CopyHistory: token volumes bought and sold by the origin wallet and by us.
Volumes == [originBuy : Nat, originSell : Nat, execBuy : Nat, execSell : Nat]

EmptyVolumes == [originBuy |-> 0, originSell |-> 0, execBuy |-> 0, execSell |-> 0]

\* origin_tokens_left == 0, with a saturating subtraction.
NothingLeft(h) == h.originBuy <= h.originSell

\* Mutant: a wallet that sells more than it was seen to buy is taken at its word.
OriginSellTotalUnclamped(h, amount) == h.originSell + amount

OriginSellTotal(h, amount) == Lesser(h.originSell + amount, h.originBuy)

ExecTargetAmount(h, amount) ==
    (OriginSellTotal(h, amount) * h.execBuy) \div h.originBuy

\* What is missing to have sold the same share as the origin wallet.
SellInput(h, amount) ==
    LET target == ExecTargetAmount(h, amount)
    IN  IF target > h.execSell THEN target - h.execSell ELSE 0

\* origin_sell_ratio > 0.95
SoldMost(h, amount) == 100 * OriginSellTotal(h, amount) > 95 * h.originBuy

\* The lamports spent on a buy: more the larger the share of its balance the
\* origin wallet put in.
BuyInput(min, max, fromSOL, amount, preBalance) ==
    LET conviction == (amount * (max - min)) \div preBalance
        scaled == IF fromSOL /\ preBalance # 0 /\ amount < preBalance
                  THEN min + conviction ELSE min
    IN  IF fromSOL THEN Lesser(Lesser(scaled, amount), max) ELSE scaled

\* The part of a buy that is not tracked.
DustVolume(bps, amount) == (bps * amount) \div 10000

\* insert_trade_inner on the entry, or on the default of a missing one.
AddTrade(h, direction, originAmount, execAmount) ==
    IF direction = "buy"
    THEN [h EXCEPT !.originBuy = @ + originAmount, !.execBuy = @ + execAmount]
    ELSE [h EXCEPT !.originSell = @ + originAmount, !.execSell = @ + execAmount]

\* The fee of an attempt: the tip level clamped between the configured limits,
\* plus an increase for each retry of the sending.
FeeLamports(minFee, maxFee, p95, increase, sendRetries) ==
    Lesser(maxFee, Greater(minFee, p95 + 1)) + sendRetries * increase
=============================================================================
