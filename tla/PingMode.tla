----------------------------- MODULE PingMode -----------------------------
(***************************************************************************)
(* Wallets in ping mode: the ping tracker (services/copy/v2/ping.rs),      *)
(* which buys a token once several wallets have bought it, process_ping    *)
(* (execution.rs), and the part of the main task that enters an executed   *)
(* order (handle_success_txn).  Execution tasks run concurrently with the  *)
(* main task and with the thread that writes the tracker to a file, from   *)
(* which a restart reads it.                                               *)
(***************************************************************************)
EXTENDS CopyAmounts, Sequences, FiniteSets, FiniteSetsExt

CONSTANTS
    Orders,         \* deliveries of an origin transaction by the stream
    SwapOf,         \* its swap: wallet, mints, amounts, lamports it is worth
    Wallets, Tokens, Static,
    Tiers,          \* PingConfig.tiers: number of pings -> lamports
    Yields,         \* what a buy may bring in
    MoonbagBps,     \* config.moonbag_bps
    SendTxnRetries, \* config.send_txn_retries
    MaxRestarts,    \* bound: crashes of the process
    MaxSnapshots,   \* bound: snapshots written
    None            \* an absent entry

Tracked == Tokens \ Static

ASSUME ConstantsAssumption ==
    /\ SwapOf \in [Orders -> [wallet : Wallets, tin : Tokens, tout : Tokens,
                              ain : Nat, left : Nat, cost : Nat]]
    /\ Static \subseteq Tokens
    /\ DOMAIN Tiers \subseteq Nat /\ DOMAIN Tiers # {}
    /\ \A n \in DOMAIN Tiers : Tiers[n] \in Nat
    /\ Yields \subseteq Nat /\ MoonbagBps \in 0 .. 10000
    /\ SendTxnRetries \in Nat /\ MaxRestarts \in Nat /\ MaxSnapshots \in Nat

\* The entries of the tracker's two maps; an absent one is not an entry.
PingEntry == [wallets : SUBSET Wallets, count : Nat, cost : Nat]
ExecutionEntry == [buy : Nat, sell : Nat, n : Nat]

ASSUME EntriesAssumption ==
    /\ None \notin PingEntry /\ None \notin ExecutionEntry
    /\ IsFiniteSet(DOMAIN Tiers)

VARIABLES
    pings,          \* token -> wallets, execution_count, total_lamports_cost
    execution,      \* token -> volumes; n counts the executions in them
    phase,          \* where an order stands
    pinged,         \* what insert_swap returned for it
    retries,        \* how often it was sent again
    input,          \* its SwapInput and copy type
    inserts,        \* insert_execution calls of the main task
    written,        \* the first of them has written its volumes
    snapPC, snap,   \* the snapshot thread and what it has collected
    file,           \* the snapshot on disk
    snapshots, restarts,
    executed        \* history: buys of a token that were made for a wallet

trackVars == <<pings, execution>>
orderVars == <<phase, pinged, retries, input>>
mainVars == <<inserts, written>>
snapVars == <<snapPC, snap, file, snapshots>>
histVars == <<restarts, executed>>
vars == <<trackVars, orderVars, mainVars, snapVars, histVars>>

EmptyPings == [t \in Tracked |-> None]
EmptyFile == [state |-> "none", pings |-> EmptyPings, execution |-> EmptyPings]
NoInput == [type |-> "none", amount |-> 0]

Init ==
    /\ pings = EmptyPings /\ execution = EmptyPings
    /\ phase = [o \in Orders |-> "new"]
    /\ pinged = [o \in Orders |-> FALSE]
    /\ retries = [o \in Orders |-> 0]
    /\ input = [o \in Orders |-> NoInput]
    /\ inserts = <<>> /\ written = FALSE
    /\ snapPC = "pings" /\ snap = EmptyFile /\ file = EmptyFile /\ snapshots = 0
    /\ restarts = 0 /\ executed = [k \in Wallets \X Tracked |-> 0]

Move(o, p) == phase' = [phase EXCEPT ![o] = p]

-----------------------------------------------------------------------------
(* An execution task.                                                      *)

\* A swap of a wallet in ping mode reaches its execution task; one of a token
\* for itself is skipped.
Receive(o) ==
    /\ phase[o] = "new"
    /\ Move(o, IF SwapOf[o].tin = SwapOf[o].tout THEN "skipped" ELSE "insert")
    /\ UNCHANGED <<trackVars, pinged, retries, input, mainVars, snapVars, histVars>>

\* The mints cannot be fetched, or the price of SOL or the decimals are not known.
InsertError(o) ==
    /\ phase[o] = "insert"
    /\ Move(o, "lost")
    /\ UNCHANGED <<trackVars, pinged, retries, input, mainVars, snapVars, histVars>>

\* Mutant: every swap of a wallet counts as a ping.
InsertSwapAgain(o) ==
    LET t == SwapOf[o].tout
        old == IF pings[t] = None THEN [wallets |-> {}, count |-> 0, cost |-> 0] ELSE pings[t]
    IN
    /\ phase[o] = "insert"
    /\ t \notin Static
    /\ pinged' = [pinged EXCEPT ![o] = TRUE]
    /\ pings' = [pings EXCEPT ![t] = [old EXCEPT !.wallets = @ \cup {SwapOf[o].wallet},
                                                 !.cost = @ + SwapOf[o].cost]]
    /\ Move(o, "input")
    /\ UNCHANGED <<execution, retries, input, mainVars, snapVars, histVars>>

\* A wallet pings a token with its first buy of it; the cost of a retried order
\* is added again.
InsertSwap(o) ==
    LET s == SwapOf[o]
        old == IF pings[s.tout] = None THEN [wallets |-> {}, count |-> 0, cost |-> 0]
               ELSE pings[s.tout]
    IN
    /\ phase[o] = "insert"
    /\ IF s.tout \in Static
       THEN /\ pinged' = [pinged EXCEPT ![o] = FALSE]
            /\ UNCHANGED pings
       ELSE /\ pinged' = [pinged EXCEPT ![o] = s.wallet \notin old.wallets]
            /\ pings' = [pings EXCEPT ![s.tout] =
                            [old EXCEPT !.wallets = @ \cup {s.wallet}, !.cost = @ + s.cost]]
    /\ Move(o, "input")
    /\ UNCHANGED <<execution, retries, input, mainVars, snapVars, histVars>>

\* get_token_input: the wallet's share of what we hold, in the ratio of its own
\* sale; None if the wallet has not pinged the token or nothing was executed.
TokenInput(o) ==
    LET s == SwapOf[o]
        share == execution[s.tin].buy - execution[s.tin].sell
    IN  IF s.tin \in Static THEN None
        ELSE IF pings[s.tin] = None THEN None
        ELSE IF s.wallet \notin pings[s.tin].wallets \/ execution[s.tin] = None THEN None
        ELSE (s.ain * ((IF execution[s.tin].buy > execution[s.tin].sell THEN share ELSE 0)
                          \div Cardinality(pings[s.tin].wallets)))
                \div (s.ain + s.left)

\* Between two tiers the one above is taken, beyond the last the last.
TierFor(n) ==
    LET above == {m \in DOMAIN Tiers : m >= n}
    IN  IF n < Min(DOMAIN Tiers) THEN None
        ELSE Tiers[IF above = {} THEN Max(DOMAIN Tiers) ELSE Min(above)]

\* get_lamports_input: "We must not have more executions than we have tiers".
LamportsInput(t) ==
    IF pings[t] = None THEN None
    ELSE LET tier == TierFor(Cardinality(pings[t].wallets)) IN
         IF pings[t].count >= Cardinality(DOMAIN Tiers) \/ tier = None THEN None
         ELSE IF tier < pings[t].cost THEN tier ELSE pings[t].cost

\* The origin transaction has no balance of the input mint: the ping stays, the
\* order ends.
NoBalance(o) ==
    /\ phase[o] = "input"
    /\ Move(o, "lost")
    /\ UNCHANGED <<trackVars, pinged, retries, input, mainVars, snapVars, histVars>>

\* process_ping after insert_swap.  The amount is always that of the buy: a
\* sell without a buy is skipped, and a sell with one sells as many units as
\* the buy has lamports.
ProcessPing(o, disabled) ==
    LET s == SwapOf[o]
        token == TokenInput(o)
        lamports == IF pinged[o] /\ ~disabled THEN LamportsInput(s.tout) ELSE None
    IN
    /\ phase[o] = "input"
    /\ IF lamports = None \/ lamports = 0
       THEN /\ Move(o, "skipped")
            /\ UNCHANGED input
       ELSE /\ Move(o, "swap")
            /\ input' = [input EXCEPT ![o] = [type |-> IF token = None THEN "buy" ELSE "both",
                                              amount |-> lamports]]
    /\ UNCHANGED <<trackVars, pinged, retries, mainVars, snapVars, histVars>>

Send(o) ==
    /\ phase[o] = "swap"
    /\ Move(o, "sent")
    /\ UNCHANGED <<trackVars, pinged, retries, input, mainVars, snapVars, histVars>>

Fail(o) ==
    /\ phase[o] \in {"swap", "sent"}
    /\ Move(o, "failed")
    /\ UNCHANGED <<trackVars, pinged, retries, input, mainVars, snapVars, histVars>>

-----------------------------------------------------------------------------
(* The main task.                                                          *)

\* Unconfirmed: the order is prepared again from the start.
Retry(o) ==
    /\ phase[o] = "sent" /\ inserts = <<>> /\ retries[o] < SendTxnRetries
    /\ retries' = [retries EXCEPT ![o] = @ + 1]
    /\ Move(o, "insert")
    /\ UNCHANGED <<trackVars, pinged, input, mainVars, snapVars, histVars>>

\* Confirmed.  insert_execution refuses a buy when the dust is half of it.
Confirm(o, yield) ==
    LET s == SwapOf[o]
        sell == [order |-> o, token |-> s.tin, dir |-> "sell", volume |-> input[o].amount]
        buy == [order |-> o, token |-> s.tout, dir |-> "buy",
                volume |-> yield - DustVolume(MoonbagBps, yield)]
    IN
    /\ phase[o] = "sent" /\ inserts = <<>>
    /\ inserts' = (IF input[o].type = "both" THEN <<sell>> ELSE <<>>) \o
                  (IF MoonbagBps < 5000 THEN <<buy>> ELSE <<>>)
    /\ Move(o, "confirmed")
    /\ executed' = [executed EXCEPT ![<<s.wallet, s.tout>>] = @ + 1]
    /\ UNCHANGED <<trackVars, pinged, retries, input, written, snapVars, restarts>>

Added(e, i) ==
    LET old == IF e = None THEN [buy |-> 0, sell |-> 0, n |-> 0] ELSE e
    IN  IF i.dir = "buy" THEN [old EXCEPT !.buy = @ + i.volume, !.n = @ + 1]
        ELSE [old EXCEPT !.sell = @ + i.volume, !.n = @ + 1]

\* insert_execution, first half: the volumes.
WriteExecution ==
    LET i == Head(inserts) IN
    /\ inserts # <<>> /\ ~written
    /\ execution' = [execution EXCEPT ![i.token] = Added(@, i)]
    /\ written' = TRUE
    /\ UNCHANGED <<pings, orderVars, inserts, snapVars, histVars>>

\* Second half: the count, for buys and sells alike.
CountExecution ==
    LET i == Head(inserts) IN
    /\ inserts # <<>> /\ written
    /\ pings' = IF pings[i.token] = None THEN pings
                ELSE [pings EXCEPT ![i.token].count = @ + 1]
    /\ written' = FALSE
    /\ inserts' = Tail(inserts)
    /\ IF Tail(inserts) = <<>> THEN Move(i.order, "done") ELSE UNCHANGED phase
    /\ UNCHANGED <<execution, pinged, retries, input, snapVars, histVars>>

-----------------------------------------------------------------------------
(* The snapshot thread, and a restart.                                     *)

SnapStep(from, to) == snapPC = from /\ snapPC' = to

\* Mutant: the volumes are collected before the pings.
SnapshotSwapped ==
    /\ \/ /\ SnapStep("pings", "execution") /\ snapshots < MaxSnapshots
          /\ snap' = [snap EXCEPT !.execution = execution, !.state = "ok"]
          /\ snapshots' = snapshots + 1 /\ UNCHANGED file
       \/ /\ SnapStep("execution", "open")
          /\ snap' = [snap EXCEPT !.pings = pings]
          /\ UNCHANGED <<file, snapshots>>
       \/ /\ SnapStep("open", "write")
          /\ file' = [file EXCEPT !.state = "torn"] /\ UNCHANGED <<snap, snapshots>>
       \/ /\ SnapStep("write", "pings")
          /\ file' = snap /\ UNCHANGED <<snap, snapshots>>
    /\ UNCHANGED <<trackVars, orderVars, mainVars, histVars>>

\* The maps are copied one after the other while the tasks go on; writing the
\* file empties it first.
Snapshot ==
    /\ \/ /\ SnapStep("pings", "execution") /\ snapshots < MaxSnapshots
          /\ snap' = [snap EXCEPT !.pings = pings, !.state = "ok"]
          /\ snapshots' = snapshots + 1 /\ UNCHANGED file
       \/ /\ SnapStep("execution", "open")
          /\ snap' = [snap EXCEPT !.execution = execution]
          /\ UNCHANGED <<file, snapshots>>
       \/ /\ SnapStep("open", "write")
          /\ file' = [file EXCEPT !.state = "torn"] /\ UNCHANGED <<snap, snapshots>>
       \/ /\ SnapStep("write", "pings")
          /\ file' = snap /\ UNCHANGED <<snap, snapshots>>
    /\ UNCHANGED <<trackVars, orderVars, mainVars, histVars>>

\* A crash and PingTracker::start: with a snapshot if there is a file, empty
\* without one.  A file that was being written cannot be parsed, and the
\* service does not start again.
Restart ==
    /\ restarts < MaxRestarts /\ snapPC # "down"
    /\ restarts' = restarts + 1
    /\ phase' = [o \in Orders |-> IF phase[o] \in {"insert", "input", "swap", "sent", "confirmed"}
                                  THEN "lost" ELSE phase[o]]
    /\ inserts' = <<>> /\ written' = FALSE /\ snap' = EmptyFile
    /\ IF file.state = "torn"
       THEN /\ snapPC' = "down" /\ pings' = EmptyPings /\ execution' = EmptyPings
       ELSE /\ snapPC' = "pings" /\ pings' = file.pings /\ execution' = file.execution
    /\ UNCHANGED <<pinged, retries, input, file, snapshots, executed>>

Up == snapPC # "down"

Next ==
    \/ /\ Up
       /\ \E o \in Orders :
             \/ Receive(o) \/ InsertError(o) \/ InsertSwap(o)
             \/ NoBalance(o) \/ \E disabled \in BOOLEAN : ProcessPing(o, disabled)
             \/ Send(o) \/ Fail(o) \/ Retry(o)
             \/ \E yield \in Yields : Confirm(o, yield)
    \/ WriteExecution
    \/ CountExecution
    \/ Snapshot
    \/ Restart

Spec == Init /\ [][Next]_vars

-----------------------------------------------------------------------------
(* Properties.                                                             *)

\* A wallet makes us own a token once: of its orders at most one buy is made, however
\* many of them are under way and however often they are sent again.  Only a restart,
\* which may lose the pings that were not in the snapshot, repeats it.
OneBuyPerPing == \A k \in Wallets \X Tracked : executed[k] <= 1 + restarts

Executions(t) == MapThenSumSet(LAMBDA w : executed[<<w, t>>], Wallets)

\* "We must not have more executions than we have tiers" (get_lamports_input).  Not
\* so: the count is looked at when an order is prepared and raised when it has been
\* confirmed, so orders that are under way together pass the same check.
ExecutionsWithinTiers == \A t \in Tracked : Executions(t) <= Cardinality(DOMAIN Tiers)

\* The count never runs ahead of the volumes, in memory, in the file or after a
\* restart: an execution is counted after its volumes are written, and the
\* pings are copied before them.
CountsHaveVolumes ==
    LET covered(p, e) == \A t \in Tracked :
            p[t] # None => p[t].count <= IF e[t] = None THEN 0 ELSE e[t].n
    IN  covered(pings, execution) /\ covered(file.pings, file.execution)
=============================================================================
