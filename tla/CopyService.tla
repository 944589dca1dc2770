---------------------------- MODULE CopyService ----------------------------
(***************************************************************************)
(* The copy service (services/copy/v2/service.rs, execution.rs) for wallets*)
(* in direct mode.  A swap of a tracked wallet becomes an order that goes  *)
(* through the bounded execution queue, a spawned execution task, the      *)
(* output channel, the transaction service and back through the            *)
(* confirmation channel to the main task, which retries it, gives it up or *)
(* enters it in the trade history (services/copy/history.rs).              *)
(*                                                                         *)
(* Channels are sets: whoever feeds them runs concurrently with the other  *)
(* feeders, so their order is arbitrary already.  The transaction service  *)
(* appears as what module SendConfirm shows of it: one report for every    *)
(* transaction sent.                                                       *)
(***************************************************************************)
EXTENDS CopyAmounts, PendingTransactions, Sequences, Functions

CONSTANTS
    Orders,                 \* deliveries of an origin transaction by the stream
    Swap,                   \* its ResolvedSwap: wallet, mints, amounts, balance
    Wallets,                \* wallets that may be copied
    InitWallets,            \* the ones in the file read at the start
    BuyDisabledWallets,     \* the ones whose CopyWallet says buy_disabled
    Tokens, Static, SOL,    \* mints; Static is SOL, USDC and USDT
    MinInput, MaxInput,     \* WalletConfig: lamports spent on a buy
    Yields,                 \* what a buy may bring in (get_amount_out)
    MoonbagBps,             \* config.moonbag_bps
    MinFee, MaxFee, FeeIncrease, Tips,  \* fee limits; Tips: observed p95 levels
    SendJitoDefault,        \* config.send_jito_default
    MaxExecutionQueue,      \* config.max_execution_queue_length
    MaxPending,             \* config.max_pending_queue_length
    ExecutionRetries,       \* config.execution_retries
    SendTxnRetries,         \* config.send_txn_retries
    ConfirmedErrorRetries,  \* config.confirmed_error_retries
    Bootstrap,              \* trade history loaded from the storage
    FalseUnconfirmed,       \* may an executed transaction be reported Unconfirmed
    NoHistory               \* an absent entry of the trade history

Keys == Wallets \X (Tokens \ Static)

ASSUME ConstantsAssumption ==
    /\ Swap \in [Orders -> [wallet : Wallets, tin : Tokens, tout : Tokens,
                            ain : Nat, aout : Nat, pre : Nat]]
    /\ InitWallets \subseteq Wallets /\ BuyDisabledWallets \subseteq Wallets
    /\ SOL \in Static /\ Static \subseteq Tokens
    /\ MinInput \in Nat /\ MaxInput \in Nat /\ MinInput < MaxInput
    /\ Yields \subseteq Nat /\ Tips \subseteq Nat
    /\ MoonbagBps \in 0 .. 10000
    /\ MinFee \in Nat /\ MaxFee \in Nat /\ FeeIncrease \in Nat
    /\ SendJitoDefault \in BOOLEAN /\ FalseUnconfirmed \in BOOLEAN
    /\ MaxExecutionQueue \in Nat \ {0} /\ MaxPending \in Nat
    /\ ExecutionRetries \in Nat /\ SendTxnRetries \in Nat
    /\ ConfirmedErrorRetries \in Nat
    /\ NoHistory \notin Volumes
    /\ Bootstrap \in [Keys -> Volumes \cup {NoHistory}]

VARIABLES
    walletConfig,   \* wallets in the wallet_config map
    execQueue,      \* the execution channel: details waiting for a task
    tasks,          \* running execution tasks
    outputs,        \* the execution_output channel
    pending,        \* the PendingTransactionsMap
    inFlight,       \* transactions given to the transaction service (external)
    reports,        \* the confirmation channel
    nextId,         \* TransactionId::next
    history,        \* HistoricalTrades
    buyDisabled,    \* the buy_disabled flag
    inserts,        \* trades the main task has still to enter in the history
    entry,          \* the copy of an entry that insert_trade_inner works on
    copyOutput,     \* all trades sent to the database task
    fate,           \* where an order ended
    sent,           \* transactions sent for an order
    executed        \* transactions of an order that succeeded on chain

vars == <<walletConfig, execQueue, tasks, outputs, pending, inFlight, reports, nextId,
          history, buyDisabled, inserts, entry, copyOutput, fate, sent, executed>>

Types == {"none", "buy", "sell", "both"}

\* CopyDetails.  next_priority_level is kept by the code but read nowhere.
Details == [order : Orders, sendRetries : 0 .. SendTxnRetries,
            errRetries : 0 .. ConfirmedErrorRetries, jito : BOOLEAN,
            fee : Nat, type : Types, amount : Nat]

NewDetails(o) ==
    [order |-> o, sendRetries |-> 0, errRetries |-> 0, jito |-> SendJitoDefault,
     fee |-> 0, type |-> "none", amount |-> 0]

\* buy_disabled_wallets is built once, from the wallets of the first load.
DisabledWallets == InitWallets \cap BuyDisabledWallets

Init ==
    /\ walletConfig = InitWallets
    /\ execQueue = {} /\ tasks = {} /\ outputs = {}
    /\ pending = {} /\ inFlight = {} /\ reports = {} /\ nextId = 1
    /\ history = Bootstrap /\ buyDisabled = FALSE
    /\ inserts = <<>> /\ entry = NoHistory /\ copyOutput = {}
    /\ fate = [o \in Orders |-> "new"]
    /\ sent = [o \in Orders |-> 0]
    /\ executed = [o \in Orders |-> 0]

HistoryOf(w, t) == IF t \in Static THEN NoHistory ELSE history[<<w, t>>]

\* Where the order goes: "open" while it is under way.
End(o, how) == fate' = [fate EXCEPT ![o] = how]

-----------------------------------------------------------------------------
(* Tasks spawned by handle_wire_txn.                                       *)

\* Stream errors, failed transactions, unknown signers and transactions that
\* are not swaps end here.
IgnoreWireTxn(o) ==
    /\ fate[o] = "new"
    /\ End(o, "ignored")
    /\ UNCHANGED <<walletConfig, execQueue, tasks, outputs, pending, inFlight, reports, nextId,
                   history, buyDisabled, inserts, entry, copyOutput, sent, executed>>

\* try_send: a full channel loses the order.
Enqueue(d) ==
    IF Cardinality(execQueue) < MaxExecutionQueue
    THEN /\ execQueue' = execQueue \cup {d}
         /\ End(d.order, "open")
    ELSE /\ End(d.order, "dropped")
         /\ UNCHANGED execQueue

CopyWireTxn(o) ==
    /\ fate[o] = "new"
    /\ Swap[o].wallet \in walletConfig
    /\ Enqueue(NewDetails(o))
    /\ UNCHANGED <<walletConfig, tasks, outputs, pending, inFlight, reports, nextId,
                   history, buyDisabled, inserts, entry, copyOutput, sent, executed>>

-----------------------------------------------------------------------------
(* The execution task and what it spawns.                                  *)

HandleCommand(d) ==
    /\ d \in execQueue
    /\ execQueue' = execQueue \ {d}
    /\ tasks' = tasks \cup {[d |-> d, pc |-> "input", attempts |-> 0]}
    /\ UNCHANGED <<walletConfig, outputs, pending, inFlight, reports, nextId, history, buyDisabled,
                   inserts, entry, copyOutput, fate, sent, executed>>

taskUnchanged == <<walletConfig, execQueue, pending, inFlight, reports, nextId, buyDisabled,
                   inserts, entry, copyOutput, sent, executed>>

\* An error of get_execution_input ends the task without any output.
InputError(k) ==
    /\ k \in tasks /\ k.pc = "input"
    /\ tasks' = tasks \ {k}
    /\ End(k.d.order, "lost")
    /\ UNCHANGED <<taskUnchanged, outputs, history>>

\* Go on with an input of the given amount, or skip the order if it is zero.
Proceed(k, type, amount, pc) ==
    IF amount = 0 /\ pc = "swap"
    THEN /\ tasks' = tasks \ {k}
         /\ End(k.d.order, "skipped")
    ELSE /\ tasks' = (tasks \ {k}) \cup
                {[k EXCEPT !.pc = pc, !.d = [k.d EXCEPT !.type = type, !.amount = amount]]}
         /\ UNCHANGED fate

SameMint(k) ==
    /\ k \in tasks /\ k.pc = "input"
    /\ Swap[k.d.order].tin = Swap[k.d.order].tout
    /\ tasks' = tasks \ {k}
    /\ End(k.d.order, "skipped")
    /\ UNCHANGED <<taskUnchanged, outputs, history>>

NoBuys(w) == buyDisabled \/ w \in DisabledWallets

\* process_direct for an input token that we hold from copying the wallet.  The
\* entry is cloned and released; its removal is a step of its own.
ProcessSell(k) ==
    LET s == Swap[k.d.order]
        h == HistoryOf(s.wallet, s.tin)
        type == IF s.tout \in Static \/ NoBuys(s.wallet) THEN "sell" ELSE "both"
    IN
    /\ k \in tasks /\ k.pc = "input"
    /\ s.tin # s.tout
    /\ h # NoHistory
    /\ IF NothingLeft(h)
       THEN /\ tasks' = tasks \ {k}
            /\ End(k.d.order, "exhausted")
       ELSE Proceed(k, type, SellInput(h, s.ain),
                    IF SoldMost(h, s.ain) THEN "remove" ELSE "swap")
    /\ UNCHANGED <<taskUnchanged, outputs, history>>

\* Mutant: the reference to the entry is not dropped, and the removal waits for
\* it for ever.
RemoveHistoryDeadlock(k) ==
    /\ k \in tasks /\ k.pc = "remove" /\ HistoryOf(Swap[k.d.order].wallet, Swap[k.d.order].tin) = NoHistory
    /\ Proceed(k, k.d.type, k.d.amount, "swap")
    /\ UNCHANGED <<taskUnchanged, outputs, history>>

\* The origin wallet has sold most of the token: forget it, before the swap.
RemoveHistory(k) ==
    LET s == Swap[k.d.order] IN
    /\ k \in tasks /\ k.pc = "remove"
    /\ history' = [history EXCEPT ![<<s.wallet, s.tin>>] = NoHistory]
    /\ Proceed(k, k.d.type, k.d.amount, "swap")
    /\ UNCHANGED <<taskUnchanged, outputs>>

\* process_direct for an input token that we do not hold.
ProcessBuy(k) ==
    LET s == Swap[k.d.order]
        amount == BuyInput(MinInput, MaxInput, s.tin = SOL, s.ain, s.pre)
    IN
    /\ k \in tasks /\ k.pc = "input"
    /\ s.tin # s.tout
    /\ HistoryOf(s.wallet, s.tin) = NoHistory
    /\ IF NoBuys(s.wallet) \/ s.tout \in Static
       THEN /\ tasks' = tasks \ {k}
            /\ End(k.d.order, "skipped")
       ELSE Proceed(k, "buy", amount, "swap")
    /\ UNCHANGED <<taskUnchanged, outputs, history>>

\* One attempt to get a quote and a transaction; the task gives up after
\* ExecutionRetries of them (at least one).
AttemptOk(k, p95) ==
    LET fee == FeeLamports(MinFee, MaxFee, p95, FeeIncrease, k.d.sendRetries) IN
    /\ k \in tasks /\ k.pc = "swap"
    /\ tasks' = tasks \ {k}
    /\ outputs' = outputs \cup {[ok |-> TRUE, d |-> [k.d EXCEPT !.fee = fee]]}
    /\ UNCHANGED <<taskUnchanged, history, fate>>

\* Mutant: every failed attempt is reported, not only the last.
AttemptErrEach(k) ==
    /\ k \in tasks /\ k.pc = "swap"
    /\ outputs' = outputs \cup {[ok |-> FALSE, d |-> k.d]}
    /\ tasks' = (tasks \ {k}) \cup
           (IF k.attempts < ExecutionRetries THEN {[k EXCEPT !.attempts = @ + 1]} ELSE {})
    /\ UNCHANGED <<taskUnchanged, history, fate>>

AttemptErr(k) ==
    /\ k \in tasks /\ k.pc = "swap"
    /\ IF k.attempts + 1 < ExecutionRetries
       THEN /\ tasks' = (tasks \ {k}) \cup {[k EXCEPT !.attempts = @ + 1]}
            /\ UNCHANGED outputs
       ELSE /\ tasks' = tasks \ {k}
            /\ outputs' = outputs \cup {[ok |-> FALSE, d |-> k.d]}
    /\ UNCHANGED <<taskUnchanged, history, fate>>

-----------------------------------------------------------------------------
(* The main task: one handler at a time, each run to its end.              *)

MainIdle == inserts = <<>>

\* Give the order up.  A sell of a token we hold is added to what the origin
\* wallet has sold, unless the mints' decimals cannot be fetched.
GiveUp(d, resolved) ==
    LET s == Swap[d.order]
        h == HistoryOf(s.wallet, s.tin)
    IN
    /\ End(d.order, "failed")
    /\ history' = IF h # NoHistory /\ resolved
                  THEN [history EXCEPT ![<<s.wallet, s.tin>>].originSell = @ + s.ain]
                  ELSE history

\* send_transaction, then the entry in the pending map; a full map sheds its
\* oldest entries, whose orders are forgotten.
SendOutput(x) ==
    LET e == [id |-> nextId, d |-> x.d]
        shed == pending \ Kept(pending, MaxPending)
    IN
    /\ x \in outputs /\ x.ok /\ MainIdle
    /\ outputs' = outputs \ {x}
    /\ nextId' = nextId + 1
    /\ inFlight' = inFlight \cup {[id |-> nextId, order |-> x.d.order]}
    /\ pending' = InsertPending(pending, MaxPending, e)
    /\ sent' = [sent EXCEPT ![x.d.order] = @ + 1]
    /\ fate' = [o \in Orders |-> IF \E f \in shed : f.d.order = o THEN "shed" ELSE fate[o]]
    /\ UNCHANGED <<walletConfig, execQueue, tasks, reports, history, buyDisabled,
                   inserts, entry, copyOutput, executed>>

\* The sending task is gone.
SendError(x) ==
    /\ x \in outputs /\ x.ok /\ MainIdle
    /\ outputs' = outputs \ {x}
    /\ End(x.d.order, "lost")
    /\ UNCHANGED <<walletConfig, execQueue, tasks, pending, inFlight, reports, nextId,
                   history, buyDisabled, inserts, entry, copyOutput, sent, executed>>

FailureOutput(x, resolved) ==
    /\ x \in outputs /\ ~x.ok /\ MainIdle
    /\ outputs' = outputs \ {x}
    /\ GiveUp(x.d, resolved)
    /\ UNCHANGED <<walletConfig, execQueue, tasks, pending, inFlight, reports, nextId,
                   buyDisabled, inserts, entry, copyOutput, sent, executed>>

\* Mutant: the entry is read but stays in the map.
TakeWithoutRemoval(r) ==
    /\ r \in reports /\ MainIdle
    /\ reports' = reports \ {r}
    /\ UNCHANGED pending

\* handle_confirmation takes a report and, unless it was shed, its entry.
Take(r) ==
    /\ r \in reports /\ MainIdle
    /\ reports' = reports \ {r}
    /\ pending' = RemovePending(pending, r.id)

EntryOf(r) == CHOOSE e \in pending : e.id = r.id

Known(r) == \E e \in pending : e.id = r.id

mainUnchanged == <<walletConfig, tasks, outputs, inFlight, nextId, entry, copyOutput,
                   sent, executed>>

UnknownReport(r) ==
    /\ Take(r) /\ ~Known(r)
    /\ UNCHANGED <<mainUnchanged, execQueue, history, buyDisabled, inserts, fate>>

\* Mutant: the number of error retries is not counted.
ConfirmedErrorUncounted(r, resolved) ==
    LET d == EntryOf(r).d IN
    /\ Take(r) /\ Known(r) /\ r.response = "error"
    /\ Enqueue([d EXCEPT !.sendRetries = 0])
    /\ UNCHANGED <<mainUnchanged, history, buyDisabled, inserts>>

\* Mutant: a confirmation is taken for an error without looking at its status.
ConfirmedErrorAlways(r, resolved) ==
    LET d == EntryOf(r).d IN
    /\ Take(r) /\ Known(r) /\ r.response # "unconfirmed"
    /\ IF d.errRetries < ConfirmedErrorRetries
       THEN /\ Enqueue([d EXCEPT !.sendRetries = 0, !.errRetries = @ + 1])
            /\ UNCHANGED history
       ELSE /\ GiveUp(d, resolved)
            /\ UNCHANGED execQueue
    /\ UNCHANGED <<mainUnchanged, buyDisabled, inserts>>

\* Confirmed with an error: a new round of sending, or give up.
ConfirmedError(r, resolved) ==
    LET d == EntryOf(r).d IN
    /\ Take(r) /\ Known(r) /\ r.response = "error"
    /\ IF d.errRetries < ConfirmedErrorRetries
       THEN /\ Enqueue([d EXCEPT !.sendRetries = 0, !.errRetries = @ + 1])
            /\ UNCHANGED history
       ELSE /\ GiveUp(d, resolved)
            /\ UNCHANGED execQueue
    /\ UNCHANGED <<mainUnchanged, buyDisabled, inserts>>

\* Mutant: one retry too many.
UnconfirmedOnceMore(r, resolved) ==
    LET d == EntryOf(r).d IN
    /\ Take(r) /\ Known(r) /\ r.response = "unconfirmed"
    /\ IF d.sendRetries <= SendTxnRetries
       THEN /\ Enqueue([d EXCEPT !.sendRetries = @ + 1])
            /\ UNCHANGED history
       ELSE /\ GiveUp(d, resolved)
            /\ UNCHANGED execQueue
    /\ UNCHANGED <<mainUnchanged, buyDisabled, inserts>>

\* Mutant: every unconfirmed attempt counts as a failed execution.
UnconfirmedFails(r, resolved) ==
    LET d == EntryOf(r).d
        s == Swap[d.order]
    IN
    /\ Take(r) /\ Known(r) /\ r.response = "unconfirmed"
    /\ history' = IF HistoryOf(s.wallet, s.tin) # NoHistory
                  THEN [history EXCEPT ![<<s.wallet, s.tin>>].originSell = @ + s.ain]
                  ELSE history
    /\ IF d.sendRetries < SendTxnRetries
       THEN Enqueue([d EXCEPT !.sendRetries = @ + 1])
       ELSE /\ End(d.order, "failed")
            /\ UNCHANGED execQueue
    /\ UNCHANGED <<mainUnchanged, buyDisabled, inserts>>

\* Unconfirmed: rebuild and send again, through Jito the last time.
Unconfirmed(r, resolved) ==
    LET d == EntryOf(r).d IN
    /\ Take(r) /\ Known(r) /\ r.response = "unconfirmed"
    /\ IF d.sendRetries < SendTxnRetries
       THEN /\ Enqueue([d EXCEPT !.sendRetries = @ + 1,
                                !.jito = @ \/ d.sendRetries + 1 = SendTxnRetries])
            /\ UNCHANGED history
       ELSE /\ GiveUp(d, resolved)
            /\ UNCHANGED execQueue
    /\ UNCHANGED <<mainUnchanged, buyDisabled, inserts>>

\* The trades that a successful order enters in the history, in this order.
TradesOf(d, yield) ==
    LET s == Swap[d.order]
        dust == DustVolume(MoonbagBps, yield)
        sell == [order |-> d.order, key |-> <<s.wallet, s.tin>>, direction |-> "sell",
                 origin |-> s.ain, exec |-> d.amount, dust |-> 0]
        buy == [order |-> d.order, key |-> <<s.wallet, s.tout>>, direction |-> "buy",
                origin |-> s.aout, exec |-> yield - dust, dust |-> dust]
    IN  (IF d.type \in {"sell", "both"} THEN <<sell>> ELSE <<>>) \o
        (IF d.type \in {"buy", "both"} THEN <<buy>> ELSE <<>>)

\* Confirmed: the transaction's post balance, if it can be fetched, switches
\* buys off or on again.
ConfirmedOk(r, yield, off) ==
    LET d == EntryOf(r).d IN
    /\ Take(r) /\ Known(r) /\ r.response = "ok"
    /\ buyDisabled' = off
    /\ inserts' = TradesOf(d, yield)
    /\ End(d.order, "done")
    /\ UNCHANGED <<mainUnchanged, execQueue, history>>

\* insert_trade_inner copies the entry and writes the copy back: execution
\* tasks on other threads run in between.
ReadEntry ==
    /\ inserts # <<>> /\ entry = NoHistory
    /\ entry' = IF history[Head(inserts).key] = NoHistory
                THEN EmptyVolumes ELSE history[Head(inserts).key]
    /\ UNCHANGED <<walletConfig, execQueue, tasks, outputs, pending, inFlight, reports, nextId,
                   history, buyDisabled, inserts, copyOutput, fate, sent, executed>>

WriteEntry ==
    LET t == Head(inserts) IN
    /\ inserts # <<>> /\ entry # NoHistory
    /\ history' = [history EXCEPT ![t.key] = AddTrade(entry, t.direction, t.origin, t.exec)]
    /\ copyOutput' = copyOutput \cup {[order |-> t.order, direction |-> t.direction,
                                       dust |-> t.dust]}
    /\ inserts' = Tail(inserts)
    /\ entry' = NoHistory
    /\ UNCHANGED <<walletConfig, execQueue, tasks, outputs, pending, inFlight, reports, nextId,
                   buyDisabled, fate, sent, executed>>

\* CopyCommand::CopyAccounts: the wallet enters the map even when watching it
\* fails; the set of disabled wallets that the call returns is not kept.
CopyAccounts(w) ==
    /\ MainIdle
    /\ w \notin walletConfig
    /\ walletConfig' = walletConfig \cup {w}
    /\ UNCHANGED <<execQueue, tasks, outputs, pending, inFlight, reports, nextId, history,
                   buyDisabled, inserts, entry, copyOutput, fate, sent, executed>>

-----------------------------------------------------------------------------
(* The transaction service and the chain (external).                       *)

Reported(f, response, onChain) ==
    /\ f \in inFlight
    /\ response = "ok" => onChain
    /\ response = "error" => ~onChain
    /\ response = "unconfirmed" /\ onChain => FalseUnconfirmed
    /\ inFlight' = inFlight \ {f}
    /\ reports' = reports \cup {[id |-> f.id, response |-> response]}
    /\ executed' = [executed EXCEPT ![f.order] = @ + (IF onChain THEN 1 ELSE 0)]
    /\ UNCHANGED <<walletConfig, execQueue, tasks, outputs, pending, nextId, history,
                   buyDisabled, inserts, entry, copyOutput, fate, sent>>

-----------------------------------------------------------------------------

Responses == {"ok", "error", "unconfirmed"}

ExecutionStep ==
    \/ \E d \in execQueue : HandleCommand(d)
    \/ \E k \in tasks :
          \/ InputError(k) \/ SameMint(k) \/ ProcessSell(k) \/ RemoveHistory(k)
          \/ ProcessBuy(k) \/ AttemptErr(k)
          \/ \E p95 \in Tips : AttemptOk(k, p95)

MainStep ==
    \/ \E x \in outputs :
          SendOutput(x) \/ SendError(x) \/ \E resolved \in BOOLEAN : FailureOutput(x, resolved)
    \/ \E r \in reports :
          \/ UnknownReport(r)
          \/ \E resolved \in BOOLEAN : ConfirmedError(r, resolved) \/ Unconfirmed(r, resolved)
          \/ \E yield \in Yields, off \in BOOLEAN : ConfirmedOk(r, yield, off)
    \/ ReadEntry
    \/ WriteEntry

ServiceStep ==
    \E f \in inFlight, response \in Responses, onChain \in BOOLEAN :
        Reported(f, response, onChain)

Next ==
    \/ \E o \in Orders : IgnoreWireTxn(o) \/ CopyWireTxn(o)
    \/ \E w \in Wallets : CopyAccounts(w)
    \/ ExecutionStep
    \/ MainStep
    \/ ServiceStep

Spec == Init /\ [][Next]_vars

\* The runtime schedules every task that can run, and every transaction that
\* was sent is reported (EventuallyReported of SendConfirm).
FairSpec == Spec /\ WF_vars(ExecutionStep) /\ WF_vars(MainStep) /\ WF_vars(ServiceStep)

-----------------------------------------------------------------------------
(* Properties.                                                             *)

Fates == {"new", "open", "ignored", "dropped", "skipped", "lost", "exhausted",
          "shed", "failed", "done"}

Task == [d : Details, pc : {"input", "remove", "swap"}, attempts : 0 .. ExecutionRetries]

Trade == [order : Orders, key : Keys, direction : {"buy", "sell"},
          origin : Nat, exec : Nat, dust : Nat]

TypeOK ==
    /\ walletConfig \subseteq Wallets
    /\ execQueue \subseteq Details
    /\ tasks \subseteq Task
    /\ outputs \subseteq [ok : BOOLEAN, d : Details]
    /\ pending \subseteq [id : Nat, d : Details]
    /\ inFlight \subseteq [id : Nat, order : Orders]
    /\ reports \subseteq [id : Nat, response : Responses]
    /\ nextId \in Nat
    /\ history \in [Keys -> Volumes \cup {NoHistory}]
    /\ buyDisabled \in BOOLEAN
    /\ inserts \in Seq(Trade)
    /\ entry \in Volumes \cup {NoHistory}
    /\ copyOutput \subseteq [order : Orders, direction : {"buy", "sell"}, dust : Nat]
    /\ fate \in [Orders -> Fates]
    /\ sent \in [Orders -> Nat]
    /\ executed \in [Orders -> Nat]

\* Everything that carries the order through the service.
Carriers(o) ==
    {d \in execQueue : d.order = o} \cup {k \in tasks : k.d.order = o}
        \cup {x \in outputs : x.d.order = o} \cup {e \in pending : e.d.order = o}

\* An order under way is in exactly one of the execution queue, the execution
\* tasks, the output channel and the pending map; an order that has ended is in
\* none.  No retry forks an order and none loses it without a recorded fate.
OnePlace ==
    \A o \in Orders :
        Cardinality(Carriers(o)) = IF fate[o] = "open" THEN 1 ELSE 0

\* Every entry of the pending map waits for a report that is still to come, and
\* a report finds its entry unless that entry was shed: the main task enters a
\* transaction before it looks at the next confirmation.
PendingMatchesService ==
    LET awaited == {f.id : f \in inFlight} \cup {r.id : r \in reports} IN
    /\ \A e \in pending : e.id \in awaited
    /\ \A f \in inFlight :
          \/ \E e \in pending : e.id = f.id /\ e.d.order = f.order
          \/ fate[f.order] = "shed"

\* An order is sent at most once for each combination of the two retry budgets
\* of the configuration.
SendBudget ==
    \A o \in Orders : sent[o] <= (SendTxnRetries + 1) * (ConfirmedErrorRetries + 1)

\* As long as Unconfirmed means not executed, an origin swap is copied on chain
\* at most once, and a copy that was executed ends as done, or as shed when the
\* pending map overflowed: never as failed, skipped or dropped.
CopiedAtMostOnce ==
    ~FalseUnconfirmed =>
        \A o \in Orders :
            /\ executed[o] <= 1
            /\ executed[o] = 1 => fate[o] \in {"open", "done", "shed"}

\* The position that an order sells from, and the one that it buys into.
SellKey(o) == <<Swap[o].wallet, Swap[o].tin>>
BuyKey(o) == <<Swap[o].wallet, Swap[o].tout>>

\* The orders that may have been counted as a sell or as a buy of a position:
\* an origin wallet's sell counts when its copy is given up, too.
SalesOf(k) == {o \in Orders : fate[o] \in {"done", "failed"} /\ SellKey(o) = k}
BuysOf(k) == {o \in Orders : fate[o] = "done" /\ BuyKey(o) = k}

Stored(k) == IF Bootstrap[k] = NoHistory THEN EmptyVolumes ELSE Bootstrap[k]

OriginIn == [o \in Orders |-> Swap[o].ain]
OriginOut == [o \in Orders |-> Swap[o].aout]

\* What the trade history says an origin wallet bought or sold comes from the
\* stored history and from orders that ended, each counted at most once: as an
\* executed copy or as a copy given up, never both and never per retry.
VolumesAccounted ==
    \A k \in Keys : history[k] # NoHistory =>
        /\ history[k].originSell
             <= Stored(k).originSell + SumFunctionOnSet(OriginIn, SalesOf(k))
        /\ history[k].originBuy
             <= Stored(k).originBuy + SumFunctionOnSet(OriginOut, BuysOf(k))

\* Every buy brings in at most y.
YieldsUpTo(y) == \A a \in Yields : a <= y

EachBringsIn(y) == [o \in Orders |-> y]

\* What may have been bought for a position.
Position(k, y) == Stored(k).execBuy + SumFunctionOnSet(EachBringsIn(y), BuysOf(k))

SellFits(d, y) == d.type \in {"sell", "both"} => d.amount <= Position(SellKey(d.order), y)

\* No sell under way or about to be entered is of more than that.
EachSellFits(y) ==
    /\ \A d \in execQueue : SellFits(d, y)
    /\ \A k \in tasks : SellFits(k.d, y)
    /\ \A x \in outputs : SellFits(x.d, y)
    /\ \A e \in pending : SellFits(e.d, y)
    /\ \A i \in DOMAIN inserts : inserts[i].direction = "sell" =>
          inserts[i].exec <= Position(inserts[i].key, y)

\* Whatever a wallet sells, and however often it is seen to sell more than it was
\* seen to buy, a sell that its copy makes is never of more tokens than were bought
\* for the position: get_execution_input clamps the wallet's total before it takes
\* its share of ours.  This holds of each sell alone.  Sells that are prepared close
\* together read the same history and may add up to more.
SellWithinPosition == \A y \in Yields : YieldsUpTo(y) => EachSellFits(y)

\* Every order that entered the service ends.
EveryOrderEnds == \A o \in Orders : (fate[o] = "open") ~> (fate[o] # "open")

\* execution.rs says that a sell which meets an entry with no tokens left "should
\* be impossible".  It is not, even when every other swap of the wallet has been
\* copied and entered, and the wallet sold only what it held.
NeverExhausted ==
    \A k \in tasks :
        LET s == Swap[k.d.order]
            h == HistoryOf(s.wallet, s.tin)
        IN  /\ k.pc = "input" /\ MainIdle /\ h # NoHistory
            /\ \A p \in Orders \ {k.d.order} : fate[p] = "done"
            => ~NothingLeft(h)

\* config.send_txn_retries is how many times sending is retried: the only order
\* of the instance, a sell that was sent, is not skipped when it is retried.
RetryIsNotSkipped == \A o \in Orders : fate[o] = "skipped" => sent[o] = 0
=============================================================================
