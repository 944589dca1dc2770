# Formal model of the Solana copy-trading bot

The repository is a bot that follows wallets on Solana and copies their swaps.
A stream delivers the transactions of the followed wallets. The copy service
turns each swap into an order of its own, sends it through the transaction
service, and keeps a history of what it bought and sold for each wallet.

This directory holds TLA+ modules for the parts in which the bot's decisions are
made, the TLC configurations that check them, and TLAPS proofs.

    tlc -workers 2 -config CopyServiceRound.cfg MCCopyService    # a run
    tlapm SendConfirmProofs.tla                                  # proofs of a module

Source paths below are relative to `src/crates/biscuit/src/`.

## 1. Inventory

### The parts and how they interact

| Part | State | Operations | Talks to |
|---|---|---|---|
| Transaction stream over RPC (`wire/rpc/poll_transactions.rs`) | `accounts_map`; in each watch task `last_seen`, `retry_signatures`, exit signal | watch, drop, quit; poll signatures, fetch, broadcast | copy service (broadcast channel) |
| Transaction stream over gRPC (`wire/geyser/subscribe_transactions.rs`) | watched keys, current subscription | watch, drop; resubscribe, reconnect | copy service |
| Copy service, main task (`services/copy/v2/service.rs`) | wallet configuration, pending map, trade history, `buy_disabled` | one handler per channel: wire transaction, execution output, confirmation, command, ticks | execution task, transaction service, database task |
| Execution handler (`services/copy/v2/execution.rs`) | none of its own; shares the trade history and the flags | prepare an input, ask for a quote and a transaction, retry | main task (output channel), swap executors |
| Trade history (`services/copy/history.rs`) | volumes bought and sold per wallet and token | read, insert, mutate, remove | shared map, no lock across operations |
| Pending map (`services/copy/v2/service.rs`) | orders that wait for a report | insert with shedding, remove | main task only |
| Transaction service (`wire/send_txn/service.rs`) | channel, subscribers, map of unconfirmed transactions | subscribe, send, resend; sending task | confirmation task (shared map), Jito, RPC, leaders |
| Confirmation task (`wire/confirm_txn.rs`) | last height, the round under way | verify, report, expire | every subscriber (channels), RPC |
| Blockhash polling (`wire/rpc/poll_blockhash.rs`) | blockhash and its last valid height, cached height | poll | read by handles and confirmation task |
| Ping tracker (`services/copy/v2/ping.rs`) | pings and executions per token, a snapshot on disk | insert swap, compute input, insert execution, snapshot, restart | execution tasks and main task (shared maps) |
| Storage and dust tracker (`services/copy/storage`, `services/copy/v2/dust.rs`) | trades in files or in Postgres, list of dust | insert, bootstrap; push, sweep in chunks | database task, dust tick |
| Historical transactions (`wire/rpc/historical_transactions.rs`) | one job per request | find a recent signature, page backwards, fetch | tools |
| Price feed (`swap/jupiter/price.rs`) | cached prices with a lifetime | subscribe, refresh, clean up | copy service |
| Slot polling, leader tracker (`wire/rpc/poll_slots.rs`, `poll_slot_leaders.rs`) | slots and their estimate, a window of leaders | poll, notify, time out; track, refresh, `get_leaders` | sending task |
| Block polling (`wire/rpc/poll_blocks.rs`) | queue of slots, retry queue | announce, fetch, replay | tools |
| Transaction parser (`parser/v1`) | none that outlives a call | `parse_swap_transaction`, `parse_instruction` | copy service (`handle_wire_txn`) |
| Generated clients (`parser/generated`) | the fields of a builder | set, make an instruction, invoke | swap executors, parser |
| Pump.fun executor (`swap/pump`) | none | quote, `make_swap` | execution handler |

An order travels in a circle: stream → `handle_wire_txn` (a spawned task) →
bounded execution queue → execution task → output channel → main task →
`send_transaction` and pending map → sending task → chain → confirmation task →
confirmation channel → main task, which enters it in the history, gives it up, or
puts it back in the execution queue.

### What is hard

* *Concurrency.* Every box above is a tokio task of its own; execution tasks are
  spawned without bound and share the trade history with the main task, whose
  insertion is a read followed by a write. The sending task and the confirmation
  task share the map of unconfirmed transactions.
* *Time.* Whether a transaction is lost is decided by comparing a cached height
  with the last valid height of its blockhash, once per round, with requests that
  may fail. A wrong answer costs money: the swap is executed twice.
* *Retries.* Four budgets (execution, sending, confirmed errors, fetching a
  transaction), some of which reset others; a retried order goes through the
  preparation again and meets a history that has moved on.
* *Bounds.* Queue and pending map drop orders when full.
* *Ordering.* Channels have many feeders, and the stream repeats and reorders.

### What makes each part correct

* Transaction service: one truthful report per transmission, in the end.
* Copy service: an order is in one place, ends once, is executed at most once,
  within its budgets; the history counts every swap at most once.
* Pending map: bounded, and sheds only old entries.
* Streams: no silent gap, no repetition or disorder without cause, no orphaned task,
  a change of accounts takes effect, quit completes.
* Ping mode: one buy per ping, a snapshot one can restart from. Executions are meant
  to stay within the tiers; the run `ping_tiers` shows that they do not.
* Storage and dust: what a restart rebuilds was copied, what is tracked is held, dust
  leaves the list only once sent.
* Slots, leaders, blocks: notifications advance, the window of leaders has no hole,
  a block is sent once.
* Parser and clients: an instruction is read back as it was built, and the swap that
  is returned is the swap that was made.

`PROJECT.json` lists every component with its status and every hazard with its
line and the properties that cover it.

## 2. Modules

| Module | Models |
|---|---|
| `TransactionService` | what the transaction service promises: the abstract specification |
| `SendConfirm` | transaction service, confirmation task, blockhash polling, with the chain and the RPC node as external actions; states the refinement |
| `SendConfirmProofs` | the theorems about `SendConfirm`, and that it implements `TransactionService` |
| `CopyAmounts` | amounts to sell and to spend, dust, fees, volumes: operators without state |
| `PendingTransactions` | the pending map as operators on sets of entries |
| `PendingMap` | the pending map as a machine of its own |
| `CopyService` | main task, execution tasks and trade history for wallets in direct mode; extends `CopyAmounts` and `PendingTransactions` |
| `PingMode` | wallets in ping mode: tracker, `process_ping`, snapshots and restart; extends `CopyAmounts` |
| `DustStorage` | history, database task, both stores, dust tracker, crash and restart; extends `CopyAmounts` |
| `PollTransactions` | the RPC stream for one account |
| `HistoricalTransactions` | the paging jobs |
| `GrpcTransactions` | the gRPC stream |
| `SlotFeed` | slot polling and its notifications |
| `SlotLeaders` | the leader tracker; extends `SlotFeed` |
| `BlockStream` | block polling |
| `PriceFeed` | the price feed and its users |
| `InstructionForms` | what the generated clients have in common: the four forms of an instruction |
| `JupiterInstructions`, `WhirlpoolsInstructions`, `PumpInstructions` | the twenty instructions, each in four forms |
| `InstructionDecoding` | `parse_instruction`: accounts read back by position |
| `InstructionBuilding` | the life of an instruction from a builder to the parser; composes the modules above |
| `SwapParser` | `parse_swap_transaction` and the log parser |
| `PumpSwap` | the pump.fun executor, on top of `PumpInstructions` |
| `AmountFacts` | lemmas on the operators of `CopyAmounts`, on sums over finite sets, and on least elements; used by most of the proofs below |
| `CopyServiceProofs` | the theorems about `CopyService` |
| `CopyPartsProofs` | the theorems about `PendingMap` and `PingMode`, the parts of the run `copy_parts` with state of their own |
| `PollTransactionsProofs` | the theorems about the RPC stream and about `HistoricalTransactions` |
| `GrpcTransactionsProofs` | the theorems about the gRPC stream |
| `BlockStreamProofs` | the theorems about `BlockStream`, and about `SlotFeed` with `SlotLeaders` |
| `DustStorageProofs` | the theorems about `DustStorage` |
| `MC...` | instances for TLC |

Definitions whose comment begins with *Mutant* are wrong on purpose: each is a
plausible bug, named in `PROJECT.json` together with the property that it breaks
when it replaces the definition after it. They are part of no specification.

### SendConfirm

A signature is what is signed, a message and a blockhash, the latter represented
by its last valid height. `Push` signs with the current blockhash and feeds the
channel; `SendTask` takes from the channel (a set: the handles feed it
concurrently), enters the map and puts the signature on the wire. `Land` is the
chain: only a wired signature lands, at most once, while its blockhash is valid.
The confirmation task is cut where it waits or shares state: `ConfirmRound`
reads the height and selects what to verify; `StatusesOk`/`StatusesErr` is one
status request of at most `ChunkSize` signatures; `ApplyStatus` removes an entry
and reports it; `CollectExpired`, `ReportExpired` and `EndRound` are the rest of
the round. `Report` panics, as the code does, on a source that is not registered.
`givenUp` and `missed` are history variables for the properties.

`Init` starts the cached height at the last valid height of the first blockhash,
as the binaries do. `Tick` carries one timing assumption: the first blockhash,
valid for about a minute, outlives the spawning of the confirmation task.

A chunk is any subset of the right size, since the code takes chunks in the order
of a hash map. The resend of a transaction id is open to any holder of a handle,
after an Unconfirmed report, as in the copy service's `RetryStrategy::SendRaw`.

### CopyService

An order is one delivery of an origin transaction, with the swap the parser finds
in it (constant `Swap`). The record `Details` is `CopyDetails` without display
data. The actions follow the circle above: `CopyWireTxn`, `HandleCommand`,
`InputError`/`SameMint`/`ProcessSell`/`ProcessBuy` (the results of
`get_execution_input`), `RemoveHistory` (its own step: the entry was cloned and
released before), `AttemptOk`/`AttemptErr`, `SendOutput`/`SendError`/
`FailureOutput`, `ConfirmedOk`/`ConfirmedError`/`Unconfirmed`/`UnknownReport`,
then `ReadEntry` and `WriteEntry` for each trade to insert. The main task runs one
handler at a time (`MainIdle`); execution tasks run between the steps of an
insertion.

The transaction service appears as `Reported`, external: one report for every
transaction sent, which is what `SendConfirm` shows of it. The constant
`FalseUnconfirmed` says whether an executed transaction may be reported
Unconfirmed; `SendConfirm` shows when that happens (a failed status request).

`RetryStrategy::SendRaw` is constructed nowhere, so retries always rebuild. Early
returns of `handle_success_txn` for missing decimals cannot be reached in direct
mode, where `process_direct` has failed on them before.

The code computes shares in `f64` and truncates. `CopyAmounts` writes them as
integer quotients; for all amounts up to 12, which covers every instance, the two
were compared and agree. Overflow of `u64` is out of reach of token supplies.

`fate` records where an order ended: `dropped` (queue full), `skipped`, `lost`
(error without output), `exhausted`, `shed`, `failed`, `done`.

### PendingTransactions and PendingMap

Entries are ordered by id, which grows with the time of insertion. The service
sheds a fifth of the capacity at a time.

### PollTransactions

One account, since accounts share only the broadcast channel. Signatures are
numbered in chain order, so `last_seen` is a number. A watch task fetches its
round concurrently but takes the results in order; the model fetches and
broadcasts one after the other. The retried signatures come in any order (a hash
map), and before the new ones, which come oldest first (`Chronological`).
`HandlesDropped` is the end of the command channel, which leaves the watch tasks
running.

### TransactionService

Three variables: what the sender knows of a transaction, how it has executed, and
which outcomes could not be learnt because a status request failed. `SendConfirm`
maps its own state to them (`Service`): the last report of a transaction, its landed
signatures, and whether one of its signatures is in `missed`.

### GrpcTransactions

The main task keeps one subscription in charge. When the accounts change it starts
another, waits up to a minute for its first message, and only then aborts the old
one; if none comes the change is given up (`gaveUp`). A subscription connects, is
refused, breaks off and is tried again. The server is external; it reports a
transaction to every subscription that streams. An aborted task runs to its next await:
until `Cancelled` it may go on receiving and broadcasting. One timing assumption: it has
come to an await before the one-second delay of the next change is over (`Gone` in
`StartNew`), so that never three subscriptions run.

### HistoricalTransactions

A job looks for a recent signature, unless the request brings one (`Given`), then pages backwards until it has the number
asked for, an empty page, or an error, which counts as an empty page. Results are
fetched concurrently but in order.

### PingMode

An order goes through `InsertSwap` (is this a new ping?), `ProcessPing` (inputs by
share of the position and by tier), `Send`, and `Confirm`, `Fail` or `Retry`. The
main task enters an execution in two steps, volumes and then count, and the snapshot
thread copies the two maps in two steps, at any moment. `Restart` begins from the
last file. `NoBalance` is the error of `process_ping` after `insert_swap`: the ping
stays, the order ends. `executed`, a history variable, counts the buys that were made
of a token for a wallet.

### DustStorage

`kind` is the store in use. The Postgres insertion is three statements, the file
insertion one write that may be torn, by a crash or by an error. The dust tick holds the lock of the
list from its first chunk to the end, so `PushDust` waits. `Crash` may come between
any two steps and loses what is in memory; `BootstrapFile` and `BootstrapPostgres`
rebuild the history in the two ways of the code, which differ in how dust counts
(`FromFiles` subtracts it). `fresh`, a history variable, says that the history in
memory is as rebuilt: the main task, and a crash, clear it. `oversold` is one too: what
the entries of a token that were removed had sold beyond what they had bought.

### SlotFeed, SlotLeaders, BlockStream

The notifier passes new slots on and counts an estimate forward on each timeout; its
channel is bounded, so that a receiver may lag. The leader tracker follows the
notifications, and on a lag takes its own slot for the notified one. The refreshing task
enters the answers slot by slot (`StoreLeader`), reads the tracker's slot once more and
removes what is before it entry by entry (`CleanUp`), while a reader of `get_leaders`
goes through the map slot by slot (`look`). A negative `leader_offset` is left out: the
only caller passes 0.

Block polling has a shared queue of slots, workers, a replay task, and a broadcast
channel all of whose receivers are dropped when the starting function returns; the model
keeps that. The websocket task passes on whatever the node announces, so that a slot
announced again is queued, fetched and broadcast again (constant `SlotOf`): the model
counts broadcasts by announcement. The receiver of the blocks is in the caller's handle.
Once it is dropped (`DropHandle`) a worker that has a confirmed block to send ends with
the failing send (`FetchUnheard`).

### PriceFeed

The task's `select!` is not in a loop: after one tick, `RefreshTick` or
`CleanupTick`, it ends. A price is the number of the market situation it was taken in.

### Instructions

An instruction is its accounts, with flags, and its arguments, in order. The
generated files repeat one scheme; `InstructionForms` states the scheme once and the
three tables state what differs: `X` is the struct, `XBuilder` its builder with the
defaults, `XCpi` and `XCpiBuilder` the same for an invocation from a program.
`InstructionBuilding` fills one in, leaving at most one field unset or giving it the
key of the program or of another account, adds remaining accounts, makes it, and
reads it back. Keys and arguments are named after their fields, so that a value in a
wrong place shows. Byte layouts are not modelled: a discriminator is the name of the
instruction, and serialised arguments are the sequence of their values.

`InstructionDecoding` has one arm per discriminator, a sequence of fields; an
optional account with the program's key reads as absent. For Raydium v4 the repository
has no client; its two swaps are built from the accounts that the parser documents.

### SwapParser

A transaction is a sequence of *deeds*: swaps through pump.fun, Raydium or Jupiter,
direct or invoked by another program, and other instructions. From the deeds follow
the instructions, the inner instructions, the logs (frames of invocation and return,
with data and texts, and with the transfers that pump.fun and the pools call below
themselves before and after their event) and the balances of the Raydium vaults. The parser tries the
instructions in turn, then the inner ones in any order of the deeds (a hash map). For
pump.fun it reads the logs line by line with its stack of programs; for Raydium it
computes the direction from the first account of the user that shows a balance, and
one amount from a vault, which may lose a unit in a float.

A text in the logs is one of: none, plain, one that looks like an invocation, one
that ends like a return. The wallet's programs and the programs that call them write
texts; the token program below them logs its name only. Texts that happen to be base64
are not modelled.

### PumpSwap

The quote of the bonding curve, with its integer arithmetic, and `make_swap` up to
`.instruction()`, which panics on a missing field as `InstructionForms` says.

## 3. Runs

| Run | Instance | Checks |
|---|---|---|
| `send_confirm` | 2 sources, one of them from `subscribe_all`, 2 transactions sent up to twice, 3 heights, validity 1, chunks of 1 | `TypeOK`, `NoFalseUnconfirmed`, `OneTransmission`, `NoDuplicateRemoval`, `PanicsOnlyForBroadcast`, `ImplementsService`, `EventuallyReported` |
| `copy_round` | a buy, a sell of the bought token into another, a swap of a token for itself; both budgets 1, two attempts | `TypeOK`, `SendBudget`, `CopiedAtMostOnce`, `VolumesAccounted` |
| `copy_overload` | 2 wallets, one added at run time, two sells of one position, one of them of more than was bought; queue of 1, pending map of 1 | `OnePlace`, `PendingMatchesService`, `SellWithinPosition`, `EveryOrderEnds` |
| `streams` | RPC: 4 signatures, one of a failed transaction, 2 watch tasks, 2 commands. Pages of 2, 3 wanted, one of two requests with a recent signature. gRPC: 2 accounts, 3 changes, 2 transactions, 1 break | `NoGap`, `DisorderOnlyAfterFailure`, `NoOrphan`, `QuitCompletes`, `PagesJoin`, `AlwaysServed`, `RepeatsOnlyWhileReplacing`, `ChangesApplied` |
| `copy_parts` | ping mode with 3 orders of 2 wallets, one tier, one snapshot, one restart; a map of capacity 6 under 10 insertions; every form of every instruction with up to one remaining account; transactions of up to 2 deeds; 2 slots and a window of 4 for the leaders, offset 1, a channel of 1 | `OneBuyPerPing`, `CountsHaveVolumes`, `ShedOnlyOld`, `DecodedAsBuilt`, `InfosCoverMetas`, `EventsAttributed`, `SwapIsExact`, `LeaderWindow`, `NotificationsAdvance` |
| `background` | two buys and a sell of one token, chunks of 1, one error, one crash, both stores; one slot announced twice, 2 workers, three schemes | `TrackedIsHeld`, `RebuiltFromCopies`, `OnlySentDustLeaves`, `DustIsSwept`, `BlocksOnce`, `WorkersEndByRetries`, `AnnouncedIsFetched` |
| `copy_exhausted` | a position sold, bought again and sold again | `NeverExhausted` is violated |
| `copy_retry` | one sell of a whole position | `RetryIsNotSkipped` is violated |
| `price_feed` | SOL and one token, one move of the market | `StalePricesAreAskedFor` is violated |
| `pump_swap` | 3 mints, 4 amounts, an open and a complete curve | `PumpSwapsBuild` is violated |
| `log_stack` | transactions of up to 2 deeds | `StackNeverEmpty` is violated |
| `ping_tiers` | 2 wallets, one order each, one tier, no restart | `ExecutionsWithinTiers` is violated |

Where a run has several parts (`streams`, `copy_parts`, `background`) a variable of
the MC module says which of them runs; they share no state, as in the program.

*Why the bounds are enough.* Validity 1 and heights 0 to 2 let a blockhash be valid,
just expired and long expired, with a second blockhash for the resend; chunks of 1
make every round of two transactions take two requests, either of which may fail.
Budgets of 1 give every combination of first send, retry and reset. A queue and a
map of capacity 1 overflow at each insertion; with capacity 6 the number shed (a
fifth, 1) is not zero, and ten insertions fill the map repeatedly. Four signatures
allow one to fail, be retried and be given up, each in a round that brings something
new. A slot that is announced twice makes two entries of the queue, one for each worker,
so that both may fail, one after the other, with the replay task gone. Three changes of
the accounts give a subscription that is replaced twice, or
replaced while its replacement was given up. One crash may fall between any two
steps; for any number of them, the theorems of `DustStorageProofs` say what a restart
finds. Two deeds, each possibly
nested and with a text of its own, give every change of the log stack from one
program to the next, and two swaps of one pool whose balances add up. Every bound is
a constant and a guard.

*Deadlock* is not checked: chains and inputs are finite in the models, and after
the last of them the tasks wait, as they should.

*Fairness.* Weak fairness of a task's steps says that the runtime schedules a task
that can run, and that a request returns, with an answer or an error. In
`SendConfirm` the chain goes on making blocks, and strong fairness of
`PollHeight(TRUE)` says that the node does not refuse the height for ever; no
other request need ever succeed. In `CopyService` weak fairness of `ServiceStep`
is `EventuallyReported`. In `GrpcTransactions` a subscription's task gets its
connection or is refused. In `DustStorage` the intervals of the dust tick come round.
Nothing is assumed of inputs: streams, commands and senders may stop.

### What the violated properties show

Each compares the code with a sentence of the repository; `findings` in
`PROJECT.json` quotes it.

* The sell that closes a position removes the history entry, and its confirmation
  brings the entry back with the sold volume alone. After the next buy the wallet
  seems to have nothing left, and its sells are not copied.
* If that closing sell is not confirmed, the retry no longer finds the position
  and is skipped.
* The price feed's task ends after one tick: a price that grows stale later is never
  asked for again.
* The pump.fun executor does not set `program` (nor `associated_token_program` for a
  sell), which the generated builder requires: a quoted swap panics.
* A log line of a program that ends with "success" is taken for its return. With the
  real return that follows, the stack of the log parser is empty, and its assertion
  fails at the next line.
* In ping mode the number of executions is compared with the number of tiers when an
  order is prepared and raised when it has been confirmed: orders that are under way
  together pass the same comparison and exceed the tiers.

### Observations without a run

Seen while modelling; the models keep the behaviour, and the properties allow for it.

* A transaction sent with a `subscribe_all` handle ends the confirmation task, as its
  source is not registered (`PanicsOnlyForBroadcast` says that nothing else does).
* The RPC stream says that it delivers in chronological order
  (`poll_transactions.rs:497`). A transaction whose fetch failed comes late, and, as
  it stays in `retry_signatures`, again in every later round
  (`DisorderOnlyAfterFailure` says that only a failure does this). Failed fetches are
  retried only in a round with new signatures, and a request returns at most 1000.
* In ping mode the retry of an unconfirmed buy is always skipped, although
  `send_txn_retries` is how often such a transaction is sent again (`config.rs:55`): the
  wallet is no longer new to the tracker, so the buy has no input
  (`execution.rs:202`). It is the disagreement of the run `copy_retry` once more;
  `OneBuyPerPing`, which is about the buys that are made, does not depend on it.
* Sells of one position that are prepared before any of them is confirmed may together
  exceed the position (section 4, *Copy service*).
* The error context "should be able to rescheduled for replay" (`poll_blocks.rs:427`)
  disagrees with the schedule queue that has lost its receivers: after the first slot
  to replay, each further one ends a worker (`WorkersEndByRetries`).
* A slot that the node announces again is broadcast again (`poll_blocks.rs:346`).
* A file that a failing write leaves incomplete keeps the service from starting
  (`file.rs:37`), like one torn by a crash.
* A text that contains " invoke", written by a program that runs below pump.fun, would
  hide the event of the swap (`logs/mod.rs:122`).
* `buy_disabled` has no effect for a wallet that is added at run time
  (`service.rs:472` discards the set).
* The increase per retry is added to a fee that was clamped before
  (`execution.rs:534`).
* `order_by_earliest` of the historical transactions leaves the order of the pages,
  newest first.
* Finalized blocks are never sent, because the schedule queue has no receiver.
* Remaining accounts of an invocation are documented as (account, writable, signer)
  and used as (account, signer, writable) in all twenty generated files.
* `ProgramCpiStack` is documented to hold one program at the top level; the first
  program is pushed twice and stays at the bottom.
* A Jupiter route that is split has the input of its first hop and the output of its
  last, not the sums. `10u32.pow(decimals)` overflows from ten decimals on.
* In the parser for Raydium's concentrated liquidity program, `DecreaseLiquidityV2`
  is decoded as `DecreaseLiquidity`. `parse_instruction` has no caller at present.

## 4. Proofs

The theorems hold for all values of the constants that satisfy the named assumptions
of each module: any number of orders, transactions, workers, failures, crashes. Every
module has one inductive invariant, a conjunction of named parts that TLC checked on
the instances before it was proved, and one lemma for each action or each conjunct.
The theorems about a part whose module has no `Spec` of its own are about the
specification made of its `Init` and `Next` (`GrpcSpec`, `MapSpec`, `BlocksSpec`,
`TrackerSpec`); none needs fairness.

| Theorem | States |
|---|---|
| `SendConfirmProofs!TypeCorrect` | `Spec => []TypeOK` |
| `SendConfirmProofs!OneReportPerTransmission` | `Spec => []OneTransmission` |
| `SendConfirmProofs!RemovalFindsItsEntry` | `Spec => []NoDuplicateRemoval` |
| `SendConfirmProofs!UnconfirmedIsFinal` | `Spec => []NoFalseUnconfirmed` |
| `SendConfirmProofs!PanicsAreBroadcast` | `Spec => []PanicsOnlyForBroadcast` |
| `SendConfirmProofs!ServiceRefinement` | `DistinctMessages => (Spec => ImplementsService)` |
| `CopyServiceProofs!TypeCorrect` | `Spec => []TypeOK` |
| `CopyServiceProofs!OrderHasOnePlace` | `Spec => []OnePlace` |
| `CopyServiceProofs!PendingMatches` | `Spec => []PendingMatchesService` |
| `CopyServiceProofs!SendsWithinBudget` | `Spec => []SendBudget` |
| `CopyServiceProofs!OneCopyOnChain` | `Spec => []CopiedAtMostOnce` |
| `CopyServiceProofs!FateIsFinal` | an action property: the end of an order is final |
| `CopyServiceProofs!EndedOrdersAreCounted` | `Spec => []VolumesAccounted` |
| `CopyServiceProofs!SellWithinBought` | `Spec => []SellWithinPosition` |
| `PollTransactionsProofs!NothingSkipped` | `Spec => []NoGap` |
| `PollTransactionsProofs!RestInOrder` | `Spec => []DisorderOnlyAfterFailure` |
| `PollTransactionsProofs!TasksStoppable` | `Spec => []NoOrphan` |
| `PollTransactionsProofs!HistoryJoins` | `HistoricalSpec => []PagesJoin` |
| `GrpcTransactionsProofs!NeverUnserved` | `GrpcSpec => []AlwaysServed` |
| `GrpcTransactionsProofs!RepeatsBounded` | `GrpcSpec => []RepeatsOnlyWhileReplacing` |
| `CopyPartsProofs!OnlyOldShed` | `MapSpec => []ShedOnlyOld` |
| `CopyPartsProofs!PingBuysOnce` | `Spec => []OneBuyPerPing` |
| `CopyPartsProofs!CountsBehindVolumes` | `Spec => []CountsHaveVolumes` |
| `BlockStreamProofs!NoBlockTwice` | `BlocksSpec => []BlocksOnce` |
| `BlockStreamProofs!RetriesEndWorkers` | `BlocksSpec => []WorkersEndByRetries` |
| `BlockStreamProofs!SlotsAdvance` | `TrackerSpec => NotificationsAdvance`, an action property |
| `BlockStreamProofs!LeadersInOrder` | `TrackerSpec => []LeaderWindow` |
| `DustStorageProofs!SentBeforeLeaving` | `Spec => OnlySentDustLeaves`, an action property |
| `DustStorageProofs!StoredAtRestart` | `Spec => []StoredAreCopies` |
| `DustStorageProofs!HistoryRebuilt` | `Spec => []RebuiltFromCopies` |
| `DustStorageProofs!TrackedTokensAreHeld` | `Spec => []TrackedIsHeld` |

### Sums and folds

Volumes are sums over sets of orders, and the node lists signatures in order. The induction theorems of the library are out of the
provers' reach, since they take an operator for a parameter; least elements are not.
`AmountFacts` shows that a set of naturals has a least element (`LeastElement`) and
that among subsets of a finite set one contains no other (`MinimalSubset`), and every
induction is written as a smallest counterexample. In this way the recursive equation
of `SumFunctionOnSet` is shown to have one solution (`SumExists`, `SumUnique`), and
with it what one element, a subset, another function or a renaming of the elements
does to a sum. The enumeration `NewestFirst` is treated in the same way where it is
used.

### Transaction service

All theorems rest on `IInv`, a conjunction of

* `TypeInv`, the type invariant with the fact that a new transaction was not sent;
* `HeightInv`: no cached height is ahead of the chain, except for the first value,
  which no blockhash is below;
* `PlaceInv`: the channel, the map and the wire agree on contents;
* `OneTransmission` itself;
* `RoundInv`: what the expiry loop has selected is still in the map, expired for
  the last round as well as for this one;
* `WiredInv`: a signature on the wire was given up, is in the map, or was reported;
* `RequeueInv`: a signature is queued again only when it was given up;
* `CheckInv`, the heart: whatever landed and had expired by the last check is no
  longer in the map or its request failed; whatever landed and has expired by this
  check is still to be looked at. The window of "recently expired" transactions in
  the two filters keeps it: the heights of consecutive rounds leave nothing between
  them;
* `GivenUpInv`: what was given up is expired on the chain, so nothing lands later.

`NoFalseUnconfirmed` alone is not inductive: it says nothing of a transaction that
landed, expired, and is about to be given up. There is one lemma for each conjunct,
with one step for each action.

`PanicsAreBroadcast` adds `HandleInv` (a source that sends has a handle, and a handle
that is not in the subscribers map is one of `subscribe_all`) and `PanicInv`: the
transaction at which the task panicked is not in the channel either, or a later step
of the sending task would put it back into the map.

`ServiceRefinement`: if no two transactions have the
same message (`DistinctMessages`; with the same message and blockhash they are one
transaction on the chain), `Spec` implies `ImplementsService`. Beyond `IInv` it takes
`LiveInv`: of a transaction at most one signature is on the wire and not given up,
and that one is in the map or has landed. It follows that a transaction executes only
while its report is pending, and not again after an execution its sender could learn
of; each action of `SendConfirm` is then a step of the service or leaves it alone.

### Copy service

`CopyInv` is a conjunction of the type invariant (with `TradeInv`: a carrier never
sells or buys a static token as a position), `OneInv` and `OpenInv` (one carrier for
each open order), `IdInv` (transaction ids are fresh), `MatchInv` (entries and
transactions in flight belong together), `BudgetInv` and `ExecInv`.

`SendBudget` needs a measure, since a confirmed error resets the counter of sends:
`Spent` counts the sends that the two counters of a carrier stand for, and
`sent <= Spent`, with one more while the order is in the pending map.
`CopiedAtMostOnce` needs that an executed copy has a report `ok` to come for an entry
that is still pending, or that its order has ended.

The conjuncts speak of carriers and ids and not of amounts. So the actions are first
shown to be one of eleven *moves* of an order (`Move`: an arrival, the start of a
task, an output, a send, a retry, an end, ...), each of which says only what happens
to the carriers; every conjunct is then proved once for each move. The amounts
(`CopyAmounts`) enter the type invariant through lemmas on quotients: a share of a
position, dust and fees are naturals, and what is subtracted is never larger.

The volumes need an invariant of their own, `VolumeInv`. `InsertInv`: the trades still
to be inserted, at most one of each direction, are of orders that are done, with the
amounts of their swaps; only then is there a copy of an entry (`ReadEntry`).
`AccountInv`: what an entry, or the copy of one, says the wallet bought and sold is
covered by the stored amounts and by the ended orders, without those whose insertion
is still to come (`Covered`). An entry that `RemoveHistory` deletes between the read
and the write of an insertion comes back with the copy, which is covered as well: this
is why the copy has a conjunct of its own.

`SellWithinBought` follows from the same invariant: a sell is computed from one entry
(`SellInputBound`), and what an entry says was bought only grows. It is a bound on each
sell alone. On the sum of the sells that are under way at once there is none: if the
wallet has bought 4 and sold 1, and we have bought 6 and sold 1, three sells of 1 that
are prepared before any of them is confirmed sell 2 each, and 7 in all.

### Streams

`PollInv` says of every watch task (`TaskOK`) that its batch is new to it or failed
before, that what it has broadcast is in order except for what failed, and that what
`last_seen` has passed is accounted for. The state of a task is a record; a step is a
`TaskMove` to another record for which `TaskOK` holds, and the other tasks are left
alone. That the retried signatures come in any order is `SetToSeqs`; `SeqOfSet` says
what such a sequence is. `NoOrphan` is inductive by itself with the types.

`HistoricalInv` says of every job that what it has paged is in descending order and
lists exactly the signatures from `last` up to the one it found that are not ignored
(`Joined`), with `last` the oldest of them. An answer lists what is before `last` down
to some point, so the two join (`AnswerJoins`); a failed page leaves `last` alone, so
the next one starts where the failed one did. Without failures and ignored signatures
the number paged is what was asked for so far, or all there are (`Counted`).

`GrpcInv` says which subscriptions may be alive (`ChargeInv`), and counts, for each
transaction, the broadcasts made and those still owed by the one in charge and by any
other, a replacement or one that was aborted and has not come to its end (`CopiesInv`):
the sum is at most one, or two for a transaction in `overlap`. A step of a subscription is an `InnerMove`, which never increases the sum.

### Pending map and ping mode

`OnlyOldShed` rests on a lemma about `Kept`: the entries removed are the smallest, so
each of them has `Capacity - DropSize` larger ids behind it. Minimum and maximum of a
set of numbers come from the well-ordering of the naturals, in place of an induction.

`PingInv` has one part for each theorem. `OneBuyInv`: a wallet that is not yet known
has not made us buy since the last restart, and a ping under way is the only one of
its wallet and token. `VolumesInv`: the volumes are ahead of the counts in memory, in
the copy that the snapshot thread has taken half of, and in the file.
`EntriesAssumption` says that the absent value is not an entry and that tiers are
finitely many. Nothing is proved about the number of executions and the tiers:
`ExecutionsWithinTiers` does not hold.

### Blocks, slots, leaders

`PlacesInv`: an announcement on its way to a block is in the queue once or with one
worker, and not yet broadcast. `EndsInv`: a filled retry queue, or a replay task that
has ended while the stream runs, was preceded by a push. `RetriesEndWorkers` has the
handle, the websocket and the exit signal among its conditions: each of them ends workers
in its own way. `BlocksAssumption` has finitely many workers.

`FeedInv` bounds the notifier, its estimate and everything in the channels by the chain.
`AskInv` says where the refreshing task stands: it enters answers from the slot that was
asked for, without a gap in the slots to come, and cleans up behind the tracker only.
`LookInv` is about a reader: what it has found is in the order of the slots, and of the
slots it has passed none is missing that was entered when it began (`look.covered`) and
is still to come. It is kept by every step of the other two tasks because the tracker
only advances and the clean-up only takes slots behind it.

### Storage and dust

`DustInv`: a confirmed copy is in one place, on its way to the storage, stored, or
lost (`PlaceInv`); the two rows of a link are of one copy and carry its volumes, and
the rows of the copy being stored are where the database task believes them
(`RowsInv`: it takes its execution row for the last of the table); `process_dust` has
sent the chunks behind it (`SweepInv`, with a lemma that every element of the list is
in one of its chunks); a history just rebuilt has nothing on its way (`FreshInv`).
`StoredAtRestart` is what both ways of rebuilding read. `HistoryRebuilt` adds the sums:
from files they are over the copies themselves, from Postgres over links, and the map
from a link to its copy is one to one and keeps the volumes.

`TrackedTokensAreHeld` takes two inequalities for each token. `BalanceInv`: what was
bought is in the wallet, or left it with a sell or as dust; a restart rebuilds the
history from this. `HeldInv` is the property with all dust on one side and the dust
sent so far on the other: dust that has not been sent is held beside what is tracked,
and without it sending a chunk would not keep the property. The proof showed that the
property did not hold as it was first stated: when a position has sold more than it
bought, which is possible after a restart that lost a buy, and `remove_history`
deletes its entry, the surplus is forgotten with it, and the history later claims
tokens that are gone. The run had no such case; the property now names that share
(`oversold`).

### Only model-checked

* Liveness (`EventuallyReported`, `EveryOrderEnds`, `QuitCompletes`, `ChangesApplied`,
  `DustIsSwept`, `AnnouncedIsFetched`): beyond the prover.
* `DecodedAsBuilt`, `InfosCoverMetas`: statements about the twenty instructions of the
  tables, which TLC enumerates; no constant is left to generalise over but the fields
  that a caller leaves out.
* `EventsAttributed`, `SwapIsExact`: about the transactions that the deeds of
  `SwapParser` describe, with transfers below the swaps and texts of the programs above
  them. For programs that write anything anywhere they do not hold: a text of a program
  below pump.fun that looks like an invocation moves the stack.

## 5. Not modelled, and why

* The executors for Jupiter, Orca and Raydium and the common builder of swap
  transactions: quotes come from a service or from the pool mathematics of external
  crates; to the copy service they are attempts that succeed or fail.
* The arms of the parser for Raydium's concentrated liquidity program and for the
  liquidity instructions of Raydium v4 (they repeat the scheme of the arms that are
  modelled, for programs whose clients are not in the repository), and the second
  version of the parser.
* The account, type and error files of the generated clients: data layouts.
* Volumes in SOL and USD: no decision reads them.
* Files, databases, HTTP, websockets: I/O; their failures are modelled where the
  code handles them. Statistics queries and analytics are reports over stored data.
* The copy simulator is a sequential backtest over recorded swaps; the first version
  of the copy service is commented out; tests and tools are not part of the bot.
* Shards of the concurrent maps and worker threads (`service.rs:758` holds a
  reference into the history across requests): they belong to the library and the
  runtime.
* A page limit of the RPC node for the live stream, forks and changes of commitment
  level: the code does not look at them.

## 6. Plan

1. `CopyService` on top of `TransactionService` in place of its own reports, with the
   refinement of `SendConfirm` in between.
2. Ping mode and direct mode in one module, for wallets that change from one to the
   other at run time.
3. A theorem on the log parser for call trees of any depth in which no program writes
   lines like those of the runtime.
