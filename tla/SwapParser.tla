----------------------------- MODULE SwapParser -----------------------------
(***************************************************************************)
(* V1Parser::parse_swap_transaction (parser/v1/mod.rs): the swap that a    *)
(* transaction made, from the events that Jupiter and pump.fun emit and    *)
(* from the token balances around a Raydium swap.  The events of pump.fun  *)
(* are read from the logs of the transaction (parser/v1/logs), which name  *)
(* a program only where it is invoked and where it returns.                *)
(***************************************************************************)
EXTENDS Integers, Sequences, SequencesExt, FiniteSets

CONSTANTS
    SOL, A, B,      \* mints
    Texts,          \* what programs may write into the logs
    MaxDeeds,       \* bound: instructions of a transaction
    Cuts            \* bound: lines after which the logs may be truncated

VARIABLES
    pstage,         \* "parse", "logs", "done" or "panicked"
    tx,             \* the transaction, as the network returns it
    todo,           \* instructions still to be tried
    inner,          \* the inner instructions are among them
    line,           \* the next line of the logs
    stack,          \* ProgramCpiStack
    events,         \* events found for the target program
    result          \* what parse_swap_transaction returns

parserVars == <<pstage, tx, todo, inner, line, stack, events, result>>

-----------------------------------------------------------------------------
(* Transactions.  A deed is a swap through pump.fun, Raydium or Jupiter,   *)
(* either as an instruction of its own or invoked by another program, or   *)
(* something else; its hops are the single swaps it consists of.           *)

Swapped(tin, tout, ain, aout) == [tin |-> tin, tout |-> tout, ain |-> ain, aout |-> aout]
NoSwap == Swapped(SOL, SOL, 0, 0)
Pool == {SOL, A}                \* the Raydium pool
VaultBefore == 20               \* what its vaults hold

Hop(amm, tin, tout, ain, aout) == [amm |-> amm, swap |-> Swapped(tin, tout, ain, aout)]
Deed(via, hops, baseIn, wrapped, text) ==
    [via |-> via, hops |-> hops, baseIn |-> baseIn, wrapped |-> wrapped, text |-> text]

Both(amm) == {<<Hop(amm, SOL, A, 5, 3)>>, <<Hop(amm, A, SOL, 4, 6)>>}

\* The last of the routes is split: both of its hops make part of the swap.
Routes ==
    {<<Hop("Raydium", SOL, A, 5, 3)>>, <<Hop("Whirlpool", SOL, A, 5, 3)>>,
     <<Hop("Raydium", SOL, A, 5, 3), Hop("Whirlpool", A, B, 3, 7)>>,
     <<Hop("Whirlpool", B, A, 7, 4), Hop("Raydium", A, SOL, 4, 6)>>,
     <<Hop("Raydium", SOL, A, 5, 3), Hop("Whirlpool", SOL, A, 5, 2)>>}

Deeds ==
    {Deed("Pump", h, TRUE, w, x) : h \in Both("Pump"), w \in BOOLEAN, x \in Texts}
        \cup {Deed("Raydium", h, b, w, "none") : h \in Both("Raydium"), b, w \in BOOLEAN}
        \cup {Deed("Jupiter", h, b, w, "none") : h \in Routes, b, w \in BOOLEAN}
        \cup {Deed("Other", <<>>, TRUE, FALSE, x) : x \in Texts}

Line(kind, program, event) == [kind |-> kind, program |-> program, event |-> event]

\* A program that moves tokens or lamports for another; it logs its name only.
Transfer == <<Line("push", "Token", NoSwap), Line("plain", "Token", NoSwap),
              Line("pop", "Token", NoSwap)>>

\* What the programs of a deed log, with a transfer before the event and one after it.
DeedLogs(d) ==
    LET Text(program) == IF d.text = "none" THEN <<>> ELSE <<Line(d.text, program, NoSwap)>>
        Frame(program, body) ==
            <<Line("push", program, NoSwap)>> \o Text(program) \o body
                \o <<Line("pop", program, NoSwap)>>
        Called(h) ==
            IF d.via = "Jupiter"
            THEN <<Line("push", h.amm, NoSwap)>> \o Transfer \o <<Line("pop", h.amm, NoSwap)>>
            ELSE Transfer \o <<Line("data", d.via, h.swap)>> \o Transfer
        Calls == FlattenSeq([i \in DOMAIN d.hops |-> Called(d.hops[i])])
        direct == Frame(d.via, IF d.via = "Other" THEN <<Line("data", "Other", NoSwap)>> ELSE Calls)
    IN  IF d.wrapped THEN Frame("Other", direct \o <<Line("data", "Other", NoSwap)>>) ELSE direct

AllLogs(deeds) == FlattenSeq([i \in DOMAIN deeds |-> DeedLogs(deeds[i])])

\* A transaction of the wallet.  Its logs may be cut, and a token account of the
\* user that was created and closed in it shows no balance.
IsTransaction(t) ==
    \E n \in 1 .. MaxDeeds : \E deeds \in [1 .. n -> Deeds] :
        LET all == AllLogs(deeds)
        IN  \E k \in {c \in Cuts : c < Len(all)} \cup {Len(all)}, coin \in Pool,
               visible \in SUBSET Pool :
                  t = [deeds |-> deeds, coin |-> coin, visible |-> visible,
                       logs |-> SubSeq(all, 1, k), complete |-> k = Len(all)]

\* An instruction to be tried: its program, its deed, and the hop it makes.
Try(program, i, hop, top) == [program |-> program, deed |-> i, hop |-> hop, top |-> top]

TopLevel(t) ==
    [i \in DOMAIN t.deeds |->
        LET d == t.deeds[i]
        IN  Try(IF d.wrapped THEN "Other" ELSE d.via, i,
                IF d.hops = <<>> THEN NoSwap ELSE d.hops[1].swap, TRUE)]

\* The instructions invoked by the i-th one.
InnerOf(t, i) ==
    LET d == t.deeds[i]
    IN  (IF d.wrapped THEN <<Try(d.via, i, IF d.hops = <<>> THEN NoSwap ELSE d.hops[1].swap, FALSE)>>
         ELSE <<>>)
           \o (IF d.via = "Jupiter"
               THEN [h \in DOMAIN d.hops |-> Try(d.hops[h].amm, i, d.hops[h].swap, FALSE)]
               ELSE <<>>)

-----------------------------------------------------------------------------

ParserInit ==
    /\ pstage = "parse"
    /\ IsTransaction(tx)
    /\ todo = TopLevel(tx) /\ inner = FALSE
    /\ line = 0 /\ stack = <<>> /\ events = <<>>
    /\ result = [kind |-> "none"]

Return(r) ==
    /\ pstage' = "done" /\ result' = r
    /\ UNCHANGED <<tx, todo, inner, line, stack, events>>

Some(tin, tout, ain, aout) ==
    [kind |-> "some", tin |-> tin, tout |-> tout, ain |-> ain, aout |-> aout]

Now == Head(todo)
Continue == todo' = Tail(todo) /\ UNCHANGED <<pstage, tx, inner, line, stack, events, result>>

\* After the instructions of the message the inner ones, in the order of a
\* HashMap; then there is no swap.
TryInner ==
    /\ pstage = "parse" /\ todo = <<>> /\ ~inner
    /\ inner' = TRUE
    /\ \E order \in SetToSeqs(DOMAIN tx.deeds) :
          todo' = FlattenSeq([k \in DOMAIN order |-> InnerOf(tx, order[k])])
    /\ UNCHANGED <<pstage, tx, line, stack, events, result>>

NoSwapFound ==
    /\ pstage = "parse" /\ todo = <<>> /\ inner
    /\ Return([kind |-> "none"])

\* Another program; Jupiter as an inner instruction.
SkipInstruction ==
    /\ pstage = "parse" /\ todo # <<>>
    /\ Now.program \notin {"Pump", "Raydium"} /\ (Now.program = "Jupiter" => ~Now.top)
    /\ Continue

\* merge_jupiter_events: what goes in first, what comes out last.
MergeJupiterEvents(hops) ==
    Some(Head(hops).swap.tin, Last(hops).swap.tout, Head(hops).swap.ain, Last(hops).swap.aout)

\* decode_jupiter: the events are among the inner instructions of this one.
DecodeJupiter ==
    LET hops == tx.deeds[Now.deed].hops
    IN
    /\ pstage = "parse" /\ todo # <<>> /\ Now.program = "Jupiter" /\ Now.top
    /\ IF hops = <<>> THEN Continue ELSE Return(MergeJupiterEvents(hops))

-----------------------------------------------------------------------------
(* The logs, for the events of pump.fun.                                   *)

\* Mutant: the first line is consumed, as the comment on the stack has it.
NewStackConsumes ==
    /\ stack' = IF tx.logs = <<>> THEN <<>> ELSE <<tx.logs[1].program>>
    /\ line' = IF tx.logs = <<>> THEN 1 ELSE 2

\* ProgramCpiStack::new reads the first program, but the loop starts with that
\* line again: the first program is on the stack twice, and stays once.
NewStack ==
    /\ stack' = IF tx.logs = <<>> THEN <<>> ELSE <<tx.logs[1].program>>
    /\ line' = 1

\* decode_pumpfun starts: get_logs_for_program.
StartLogs ==
    /\ pstage = "parse" /\ todo # <<>> /\ Now.program = "Pump"
    /\ pstage' = "logs" /\ events' = <<>>
    /\ NewStack
    /\ UNCHANGED <<tx, todo, inner, result>>

\* handle_program_log for the target program: its texts and data change nothing.
\* handle_system_log for another: what it writes may look like a system log.
Changed(l, target) ==
    IF l.kind = "push" THEN Append(stack, l.program)
    ELSE IF l.kind = "pop" THEN Front(stack)
    ELSE IF l.kind = "invoke" /\ ~target THEN Append(stack, "log:")
    ELSE IF l.kind = "success" /\ ~target THEN Front(stack)
    ELSE stack

ReadLogLine ==
    LET l == tx.logs[line]
        target == Last(stack) = "Pump"
    IN
    /\ pstage = "logs" /\ line <= Len(tx.logs) /\ stack # <<>>
    /\ events' = IF target /\ l.kind = "data" THEN Append(events, l.event) ELSE events
    /\ stack' = Changed(l, target)
    /\ line' = line + 1
    /\ UNCHANGED <<pstage, tx, todo, inner, result>>

\* execution.program() with an empty stack: the assertion fails.
AssertionFails ==
    /\ pstage = "logs" /\ line <= Len(tx.logs) /\ stack = <<>>
    /\ pstage' = "panicked"
    /\ UNCHANGED <<tx, todo, inner, line, stack, events, result>>

\* The rest of decode_pumpfun: the first trade in the whole transaction.
DecodePump ==
    /\ pstage = "logs" /\ line > Len(tx.logs)
    /\ IF events = <<>>
       THEN /\ pstage' = "parse" /\ todo' = Tail(todo)
            /\ UNCHANGED <<tx, inner, line, stack, events, result>>
       ELSE LET e == events[1] IN Return(Some(e.tin, e.tout, e.ain, e.aout))

-----------------------------------------------------------------------------
(* Raydium, from the token balances before and after the transaction.      *)

\* Every swap of the transaction that goes through the pool.
PoolSwaps ==
    FlattenSeq([i \in DOMAIN tx.deeds |->
        LET own == SelectSeq(tx.deeds[i].hops, LAMBDA h : h.amm = "Raydium")
        IN  [k \in DOMAIN own |-> own[k].swap]])

VaultAfter(mint) ==
    FoldLeft(LAMBDA v, s : v + (IF s.tin = mint THEN s.ain ELSE 0)
                             - (IF s.tout = mint THEN s.aout ELSE 0),
             VaultBefore, PoolSwaps)

\* Mutant: the visible account of the user is taken for the source.
CoinToPcOfSource(s) == LET seen == IF s.tin \in tx.visible THEN s.tin ELSE s.tout
                       IN  tx.coin = seen

\* resolve_raydium_accounts: coin_to_pc from the first account of the user that
\* shows a balance, the source before the destination.
CoinToPc(s) ==
    LET isInput == s.tin \in tx.visible
        seen == IF isInput THEN s.tin ELSE s.tout
    IN  (tx.coin = seen) = isInput

\* calc_amount: the decimal amount as a float, multiplied and truncated.
CalcAmount(n, lost) == IF lost /\ n > 0 THEN n - 1 ELSE n

\* decode_raydium_v4.  Of the amounts one is an argument of the instruction, the
\* other the change of a vault.
DecodeRaydium(lostPre, lostPost) ==
    LET s == Now.hop
        pc == CHOOSE mint \in Pool : mint # tx.coin
        tin == IF CoinToPc(s) THEN tx.coin ELSE pc
        tout == IF CoinToPc(s) THEN pc ELSE tx.coin
        Pre == CalcAmount(VaultBefore, lostPre)
        Post(mint) == CalcAmount(VaultAfter(mint), lostPost)
        baseIn == tx.deeds[Now.deed].baseIn
    IN
    /\ pstage = "parse" /\ todo # <<>> /\ Now.program = "Raydium"
    /\ Return(IF \/ tx.visible = {}
                 \/ baseIn /\ Pre < Post(tout)
                 \/ ~baseIn /\ Post(tin) < Pre
              THEN [kind |-> "error"]
              ELSE Some(tin, tout, IF baseIn THEN s.ain ELSE Post(tin) - Pre,
                        IF baseIn THEN Pre - Post(tout) ELSE s.aout))

ParserNext ==
    \/ TryInner \/ NoSwapFound \/ SkipInstruction \/ DecodeJupiter
    \/ StartLogs \/ ReadLogLine \/ AssertionFails \/ DecodePump
    \/ \E lostPre, lostPost \in BOOLEAN : DecodeRaydium(lostPre, lostPost)

-----------------------------------------------------------------------------

Emitted(n) ==
    LET own == SelectSeq(SubSeq(tx.logs, 1, n),
                         LAMBDA l : l.kind = "data" /\ l.program = "Pump")
    IN  [k \in DOMAIN own |-> own[k].event]

\* No program writes a text that ends like the line of a program that returns.
NoFalseReturn == \A i \in DOMAIN tx.deeds : tx.deeds[i].text # "success"

\* Reading the logs (parser/v1/logs/mod.rs) never meets an empty stack, and the events
\* found for pump.fun are those it emitted, in order: whether it is invoked by the
\* wallet or by another program, beside whichever other deeds, with transfers below it
\* around the event, wherever the logs are cut, and whatever these programs write,
\* except that no text ends with "success" and the transfers log plain texts.
EventsAttributed ==
    NoFalseReturn =>
        /\ pstage # "panicked"
        /\ pstage = "logs" => events = Emitted(line - 1)

\* "assert!(!self.stack.is_empty(), ...)" in ProgramCpiStack::program.
StackNeverEmpty == pstage = "logs" /\ line <= Len(tx.logs) => stack # <<>>

Near(a, b) == a - b \in {-1, 0, 1}

\* What the hops of a deed take from the user in a mint, all together.
Spent(d, mint) ==
    FoldLeft(LAMBDA v, h : v + (IF h.swap.tin = mint THEN h.swap.ain ELSE 0)
                             - (IF h.swap.tout = mint THEN h.swap.aout ELSE 0), 0, d.hops)

\* Both hops of a split route start from the same mint.
IsSplit(d) == Len(d.hops) = 2 /\ d.hops[1].swap.tin = d.hops[2].swap.tin

\* What may be returned for a deed: what it took and gave in all; of a split
\* route the mints; for a route that another program makes, a hop of it.
Faithful(d, exact) ==
    IF d.via = "Jupiter" /\ d.wrapped
    THEN \E h \in DOMAIN d.hops :
            LET s == d.hops[h].swap
            IN  /\ result.tin = s.tin /\ result.tout = s.tout
                /\ exact => Near(result.ain, s.ain) /\ Near(result.aout, s.aout)
    ELSE /\ Spent(d, result.tin) > 0 /\ Spent(d, result.tout) < 0
         /\ exact /\ ~IsSplit(d) => /\ Near(result.ain, Spent(d, result.tin))
                                    /\ Near(result.aout, -Spent(d, result.tout))

\* The swap that is returned was made: mints in the right order, amounts up to
\* the unit that a float may lose, however the swap was invoked and whichever
\* accounts of the user show a balance; with several swaps in a transaction the
\* mints are still those of one of them (logs as above).  Without a result, nothing
\* was swapped in a way the parser knows, or the logs were cut.
SwapIsExact ==
    pstage = "done" /\ NoFalseReturn =>
        \/ result.kind = "some" /\ \E i \in DOMAIN tx.deeds :
                                      Faithful(tx.deeds[i], Len(tx.deeds) = 1)
        \/ result.kind = "error" /\ (tx.visible = {} \/ Len(tx.deeds) > 1)
        \/ /\ result.kind = "none"
           /\ \A i \in DOMAIN tx.deeds :
                 LET d == tx.deeds[i]
                 IN  \/ d.hops = <<>>
                     \/ d.via = "Pump" /\ ~tx.complete
                     \/ /\ d.via = "Jupiter" /\ d.wrapped
                        /\ \A h \in DOMAIN d.hops : d.hops[h].amm # "Raydium"
=============================================================================
