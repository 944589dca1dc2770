------------------------------ MODULE PumpSwap ------------------------------
(***************************************************************************)
(* The executor of pump.fun swaps (swap/pump/executor.rs): a quote from    *)
(* the bonding curve (bonding_curve.rs), then the swap instruction through *)
(* a builder of the generated client.                                      *)
(***************************************************************************)
EXTENDS PumpInstructions, Integers

CONSTANTS
    Mints,          \* the tokens, SOL among them
    Sol,
    Amounts,        \* amounts of a SwapInput
    SlippageBps,    \* its slippage_bps
    FeeBps,         \* Global.fee_basis_points
    Curves          \* bonding curves a token may have: reserves and completeness

VARIABLES
    stage,          \* "new", "quoted", "refused", "panicked" or "built"
    quote,          \* PFQuote
    swapFields      \* the fields that the builder was given

pumpVars == <<stage, quote, swapFields>>

NoQuote == [is_buy |-> FALSE, mint |-> Sol, token |-> 0, sol |-> 0, limit |-> 0]

Init == stage = "new" /\ quote = NoQuote /\ swapFields = {}

MinOf(a, b) == IF a < b THEN a ELSE b

\* BondingCurve::get_buy_price: tokens for an amount of SOL.
BuyPrice(c, amount) ==
    IF amount = 0 THEN 0
    ELSE MinOf(c.realToken, c.virtualToken - ((c.virtualSol * c.virtualToken)
                                                 \div (c.virtualSol + amount) + 1))

\* BondingCurve::get_sell_price: SOL for an amount of tokens, less the fee.
SellPrice(c, amount) ==
    LET n == (amount * c.virtualSol) \div (c.virtualToken + amount)
    IN  IF amount = 0 THEN 0 ELSE n - (n * FeeBps) \div 10000

WithSlippage(amount) == (amount * SlippageBps) \div 10000

Refuse == stage' = "refused" /\ UNCHANGED <<quote, swapFields>>

\* PFExecutor::quote.  A mint, a curve or the configuration that cannot be read
\* is an error, as is a curve that is complete.
Quote(tin, tout, exactIn, amount) ==
    /\ stage = "new"
    /\ \/ /\ tin = tout \/ ~exactIn \/ Sol \notin {tin, tout}
          /\ Refuse
       \/ /\ tin # tout /\ exactIn /\ Sol \in {tin, tout}
          /\ \/ Refuse
             \/ \E c \in Curves :
                   IF c.complete THEN Refuse
                   ELSE /\ stage' = "quoted"
                        /\ quote' =
                             IF tin = Sol
                             THEN [is_buy |-> TRUE, mint |-> tout,
                                   token |-> BuyPrice(c, amount), sol |-> amount,
                                   limit |-> amount + WithSlippage(amount)]
                             ELSE LET sol == SellPrice(c, amount)
                                  IN  [is_buy |-> FALSE, mint |-> tin, token |-> amount,
                                       sol |-> sol, limit |-> sol - WithSlippage(sol)]
                        /\ UNCHANGED swapFields

\* The fields whose setters make_swap calls; PFClient::buy_instruction and
\* sell_instruction call the same ones.
SetBySwap(is_buy) ==
    {"amount", IF is_buy THEN "max_sol_cost" ELSE "min_sol_output", "fee_recipient",
     "mint", "associated_bonding_curve", "associated_user", "user", "global",
     "bonding_curve", "event_authority"}

\* make_swap up to .instruction(), which panics if a field is missing.
MakeSwap ==
    /\ stage = "quoted"
    /\ swapFields' = SetBySwap(quote.is_buy)
    /\ stage' = IF Required(IF quote.is_buy THEN BuyBuilder ELSE SellBuilder) \subseteq swapFields'
                THEN "built" ELSE "panicked"
    /\ UNCHANGED quote

Next ==
    \/ \E tin, tout \in Mints, exactIn \in BOOLEAN, amount \in Amounts :
          Quote(tin, tout, exactIn, amount)
    \/ MakeSwap

Spec == Init /\ [][Next]_pumpVars

-----------------------------------------------------------------------------

\* The instruction of a swap that was quoted is built: the builder finds every
\* field that it expects ("program is not set", generated/pump/instructions).
PumpSwapsBuild == stage # "panicked"
=============================================================================
