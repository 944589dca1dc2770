---------------------------- MODULE DustStorage ----------------------------
(***************************************************************************)
(* What becomes of a confirmed copy: the trade history in memory           *)
(* (services/copy/history.rs), the database task that stores each trade    *)
(* and hands its dust over (services/copy/v2/service.rs), the storage in   *)
(* files or in Postgres (services/copy/storage), the dust tracker          *)
(* (services/copy/v2/dust.rs), and a crash and restart in between.         *)
(***************************************************************************)
EXTENDS CopyAmounts, Sequences, FiniteSets, FiniteSetsExt

CONSTANTS
    Trades,         \* executed copies that the main task will see confirmed
    Trade,          \* their token, direction and amounts
    Tokens,
    MoonbagBps,     \* config.moonbag_bps
    ChunkSize,      \* transfers in one dust transaction, 7 in the code
    MaxErrors,      \* bound: failing requests and writes
    MaxCrashes      \* bound: crashes of the process

ASSUME ConstantsAssumption ==
    /\ Trade \in [Trades -> [token : Tokens, direction : {"buy", "sell"},
                             origin : Nat, exec : Nat]]
    /\ MoonbagBps \in 0 .. 10000
    /\ ChunkSize \in Nat \ {0} /\ MaxErrors \in Nat /\ MaxCrashes \in Nat

VARIABLES
    kind,       \* the CopyStorage in use
    status,     \* the process: up, down, or unable to start
    memory,     \* HistoricalTrades, by token; one origin wallet
    queue,      \* copy_output channel
    storing,    \* the trade the database task works on, and its next step
    files,      \* FileStorage: trades written whole, and whether one is torn
    rows,       \* Postgres table trade
    links,      \* Postgres table copy_execution: ids of the two trades
    dust,       \* dust_amounts, as the trades the amounts come from
    sweep,      \* 0, or the chunk that process_dust is at; it holds the lock
    done,       \* trades confirmed on chain so far
    balance,    \* tokens in our wallet (external)
    swept,      \* dust transfers handed to the transaction service
    oversold,   \* tokens that removed entries had sold beyond what they had bought
    lost,       \* trades whose storing failed or was cut short
    fresh,      \* memory has just been rebuilt
    restarted, errors, crashes

storeVars == <<files, rows, links>>
ghostVars == <<done, oversold, lost>>
vars == <<kind, status, memory, queue, storing, storeVars, dust, sweep, balance, swept,
          ghostVars, fresh, restarted, errors, crashes>>

None == "none"
Idle == [trade |-> None, step |-> "idle", origin |-> 0]

Dust(i) == IF Trade[i].direction = "buy" THEN DustVolume(MoonbagBps, Trade[i].exec) ELSE 0

\* Amounts of the copies that are added up.
DustOf == [i \in Trades |-> Dust(i)]
NoDust == [i \in Trades |-> 0]
OriginOf == [i \in Trades |-> Trade[i].origin]
ExecOf == [i \in Trades |-> Trade[i].exec]
NetOf(dustOf) == [i \in Trades |-> Trade[i].exec - dustOf[i]]

\* The copies in S of a token, in one direction.
Bought(S, t) == {i \in S : Trade[i].token = t /\ Trade[i].direction = "buy"}
Sold(S, t) == {i \in S : Trade[i].token = t /\ Trade[i].direction = "sell"}

\* Mutant: the dust is counted as ours.
InsertInnerGross(h, i, dustAmount) ==
    AddTrade(h, Trade[i].direction, Trade[i].origin, Trade[i].exec)

\* insert_trade_inner: volumes gross of dust come in, the dust is subtracted.
InsertInner(h, i, dustAmount) ==
    AddTrade(h, Trade[i].direction, Trade[i].origin, Trade[i].exec - dustAmount)

NoVolumes == [t \in Tokens |-> EmptyVolumes]

Init ==
    /\ kind \in {"file", "postgres"} /\ status = "up"
    /\ memory = NoVolumes /\ queue = <<>> /\ storing = Idle
    /\ files = [whole |-> {}, torn |-> FALSE] /\ rows = <<>> /\ links = {}
    /\ dust = <<>> /\ sweep = 0
    /\ done = {} /\ balance = [t \in Tokens |-> 0] /\ swept = [i \in Trades |-> 0]
    /\ oversold = [t \in Tokens |-> 0]
    /\ lost = {} /\ fresh = FALSE /\ restarted = FALSE
    /\ errors = 0 /\ crashes = 0

MainIdle == status = "up" /\ sweep = 0

Fails == errors < MaxErrors /\ errors' = errors + 1

-----------------------------------------------------------------------------
(* The main task.                                                          *)

\* A confirmed copy: insert_trade, then the channel to the database task.
InsertTrade(i) ==
    LET t == Trade[i] IN
    /\ MainIdle /\ i \notin done
    /\ t.direction = "sell" => balance[t.token] >= t.exec
    /\ done' = done \cup {i}
    /\ balance' = [balance EXCEPT ![t.token] =
                       IF t.direction = "buy" THEN @ + t.exec ELSE @ - t.exec]
    /\ memory' = [memory EXCEPT ![t.token] = InsertInner(@, i, Dust(i))]
    /\ queue' = Append(queue, i)
    /\ fresh' = FALSE
    /\ UNCHANGED <<kind, status, storing, storeVars, dust, sweep, swept, oversold, lost,
                   restarted, errors, crashes>>

Beyond(a, b) == IF a > b THEN a - b ELSE 0

\* remove_history of the execution handler and the sell volume that
\* handle_failed_execution adds; neither reaches the storage.
ForgetHistory(t) ==
    /\ status = "up" /\ ~NothingLeft(memory[t])
    /\ memory' = [memory EXCEPT ![t] = EmptyVolumes]
    /\ oversold' = [oversold EXCEPT ![t] = @ + Beyond(memory[t].execSell, memory[t].execBuy)]
    /\ fresh' = FALSE
    /\ UNCHANGED <<kind, status, queue, storing, storeVars, dust, sweep, balance, swept,
                   done, lost, restarted, errors, crashes>>

FailedExecution(t) ==
    /\ MainIdle /\ ~NothingLeft(memory[t])
    /\ memory' = [memory EXCEPT ![t].originSell = @ + 1]
    /\ fresh' = FALSE
    /\ UNCHANGED <<kind, status, queue, storing, storeVars, dust, sweep, balance, swept,
                   ghostVars, restarted, errors, crashes>>

sweepUnchanged == <<kind, status, memory, queue, storing, storeVars, ghostVars, restarted,
                    fresh, crashes>>

\* Mutant: a list shorter than a chunk is left for later.
ProcessDustFull ==
    /\ MainIdle /\ Len(dust) > ChunkSize
    /\ sweep' = 1
    /\ UNCHANGED <<sweepUnchanged, dust, balance, swept, errors>>

\* process_dust takes the write lock and keeps it until it returns.
ProcessDust ==
    /\ MainIdle /\ dust # <<>>
    /\ sweep' = 1
    /\ UNCHANGED <<sweepUnchanged, dust, balance, swept, errors>>

Chunks == (Len(dust) + ChunkSize - 1) \div ChunkSize

Chunk(c) == {dust[j] : j \in {j \in 1 .. Len(dust) : (j - 1) \div ChunkSize = c - 1}}

\* One chunk is simulated and sent.  Its reports go to a receiver that was
\* dropped: whether the transfers land is never looked at.
SendChunk(lands) ==
    LET moved(t) == SumFunctionOnSet(DustOf, Bought(Chunk(sweep), t)) IN
    /\ status = "up" /\ sweep \in 1 .. Chunks
    /\ lands => \A t \in Tokens : moved(t) <= balance[t]
    /\ balance' = [t \in Tokens |-> IF lands THEN balance[t] - moved(t) ELSE balance[t]]
    /\ swept' = [i \in Trades |-> swept[i] + IF i \in Chunk(sweep) THEN 1 ELSE 0]
    /\ sweep' = sweep + 1
    /\ UNCHANGED <<sweepUnchanged, dust, errors>>

\* Mutant: the list is cleared on the way out.
ChunkErrorClears ==
    /\ status = "up" /\ sweep \in 1 .. Chunks
    /\ Fails
    /\ sweep' = 0 /\ dust' = <<>>
    /\ UNCHANGED <<sweepUnchanged, balance, swept>>

\* A failing simulation or send returns with the list as it was.
ChunkError ==
    /\ status = "up" /\ sweep \in 1 .. Chunks
    /\ Fails
    /\ sweep' = 0
    /\ UNCHANGED <<sweepUnchanged, dust, balance, swept>>

ClearDust ==
    /\ status = "up" /\ sweep > Chunks
    /\ sweep' = 0 /\ dust' = <<>>
    /\ UNCHANGED <<sweepUnchanged, balance, swept, errors>>

-----------------------------------------------------------------------------
(* The database task.                                                      *)

storeUnchanged == <<kind, status, memory, sweep, balance, swept, done, oversold,
                    fresh, restarted, crashes>>

ReceiveTrade ==
    /\ status = "up" /\ storing = Idle /\ queue # <<>>
    /\ storing' = [trade |-> Head(queue), step |-> "store", origin |-> 0]
    /\ queue' = Tail(queue)
    /\ UNCHANGED <<storeUnchanged, storeVars, dust, lost, errors>>

\* FileStorage: one file per trade, written in place.
InsertFile ==
    /\ status = "up" /\ kind = "file" /\ storing.step = "store"
    /\ files' = [files EXCEPT !.whole = @ \cup {storing.trade}]
    /\ storing' = [storing EXCEPT !.step = "dust"]
    /\ UNCHANGED <<storeUnchanged, queue, rows, links, dust, lost, errors>>

\* Postgres: origin trade, execution trade and their link are three statements.
InsertOriginRow ==
    /\ status = "up" /\ kind = "postgres" /\ storing.step = "store"
    /\ rows' = Append(rows, [trade |-> storing.trade, volume |-> Trade[storing.trade].origin])
    /\ storing' = [storing EXCEPT !.step = "exec", !.origin = Len(rows) + 1]
    /\ UNCHANGED <<storeUnchanged, queue, files, links, dust, lost, errors>>

InsertExecRow ==
    /\ status = "up" /\ storing.step = "exec"
    /\ rows' = Append(rows, [trade |-> storing.trade, volume |-> Trade[storing.trade].exec])
    /\ storing' = [storing EXCEPT !.step = "link"]
    /\ UNCHANGED <<storeUnchanged, queue, files, links, dust, lost, errors>>

\* The database task is the only writer: its execution row is the last.
InsertLink ==
    /\ status = "up" /\ storing.step = "link"
    /\ links' = links \cup {[exec |-> Len(rows), origin |-> storing.origin]}
    /\ storing' = [storing EXCEPT !.step = "dust"]
    /\ UNCHANGED <<storeUnchanged, queue, files, rows, dust, lost, errors>>

\* An error is logged; what was inserted stays, a file perhaps incomplete, and the
\* dust is pushed all the same.
StoreError(tears) ==
    /\ status = "up" /\ storing.step \in {"store", "exec", "link"}
    /\ Fails
    /\ tears => kind = "file"
    /\ files' = [files EXCEPT !.torn = @ \/ tears]
    /\ lost' = lost \cup {storing.trade}
    /\ storing' = [storing EXCEPT !.step = "dust"]
    /\ UNCHANGED <<storeUnchanged, queue, rows, links, dust>>

\* The push waits for the write lock of the list.
PushDust ==
    /\ status = "up" /\ storing.step = "dust"
    /\ Dust(storing.trade) # 0 => sweep = 0
    /\ dust' = IF Dust(storing.trade) # 0 THEN Append(dust, storing.trade) ELSE dust
    /\ storing' = Idle
    /\ UNCHANGED <<storeUnchanged, queue, storeVars, lost, errors>>

-----------------------------------------------------------------------------
(* Crash and restart.                                                      *)

\* A file that is being written may be left incomplete.
Crash(tears) ==
    LET cut == IF storing.step \in {"store", "exec", "link"} THEN {storing.trade} ELSE {} IN
    /\ status = "up" /\ crashes < MaxCrashes
    /\ tears => kind = "file" /\ storing.step = "store"
    /\ files' = [files EXCEPT !.torn = @ \/ tears]
    /\ lost' = lost \cup cut \cup {queue[j] : j \in 1 .. Len(queue)}
    /\ status' = "down" /\ memory' = NoVolumes /\ queue' = <<>> /\ storing' = Idle
    /\ dust' = <<>> /\ sweep' = 0 /\ fresh' = FALSE /\ crashes' = crashes + 1
    /\ oversold' = [t \in Tokens |-> 0]
    /\ UNCHANGED <<kind, rows, links, balance, swept, done, restarted, errors>>

\* Entering a set of stored copies one by one, in whatever order they are listed.
Rebuild(stored, dustOf) ==
    [t \in Tokens |->
        [originBuy |-> SumFunctionOnSet(OriginOf, Bought(stored, t)),
         originSell |-> SumFunctionOnSet(OriginOf, Sold(stored, t)),
         execBuy |-> SumFunctionOnSet(NetOf(dustOf), Bought(stored, t)),
         execSell |-> SumFunctionOnSet(ExecOf, Sold(stored, t))]]

\* A file keeps the dust of its copy.
FromFiles(stored) == Rebuild(stored, DustOf)

\* bootstrap_history reads every file back; one that does not parse is an error
\* and the service does not start.
BootstrapFile ==
    /\ status = "down" /\ kind = "file"
    /\ IF files.torn
       THEN status' = "failed" /\ UNCHANGED <<memory, fresh, restarted>>
       ELSE /\ status' = "up" /\ memory' = FromFiles(files.whole)
            /\ fresh' = TRUE /\ restarted' = TRUE
    /\ UNCHANGED <<kind, queue, storing, storeVars, dust, sweep, balance, swept, ghostVars,
                   errors, crashes>>

\* Mutant: the execution rows are read, linked or not.
BootstrapPostgresUnjoined ==
    /\ status = "down" /\ kind = "postgres"
    /\ status' = "up"
    /\ memory' = Rebuild({rows[j].trade : j \in 1 .. Len(rows)}, NoDust)
    /\ fresh' = TRUE /\ restarted' = TRUE
    /\ UNCHANGED <<kind, queue, storing, storeVars, dust, sweep, balance, swept, ghostVars,
                   errors, crashes>>

\* The join of copy_execution with the two trades; the volumes of both rows, and
\* no dust, which the database does not keep.
BootstrapPostgres ==
    /\ status = "down" /\ kind = "postgres"
    /\ status' = "up"
    /\ memory' = [t \in Tokens |->
           LET of(d) == {l \in links : /\ Trade[rows[l.origin].trade].token = t
                                       /\ Trade[rows[l.origin].trade].direction = d}
               origins(d) == SumFunctionOnSet([l \in links |-> rows[l.origin].volume], of(d))
               execs(d) == SumFunctionOnSet([l \in links |-> rows[l.exec].volume], of(d))
           IN  [originBuy |-> origins("buy"), originSell |-> origins("sell"),
                execBuy |-> execs("buy"), execSell |-> execs("sell")]]
    /\ fresh' = TRUE /\ restarted' = TRUE
    /\ UNCHANGED <<kind, queue, storing, storeVars, dust, sweep, balance, swept, ghostVars,
                   errors, crashes>>

-----------------------------------------------------------------------------

SweepStep == ProcessDust \/ (\E lands \in BOOLEAN : SendChunk(lands)) \/ ChunkError \/ ClearDust

DatabaseStep ==
    \/ ReceiveTrade \/ InsertFile \/ InsertOriginRow \/ InsertExecRow \/ InsertLink
    \/ (\E tears \in BOOLEAN : StoreError(tears)) \/ PushDust

Next ==
    \/ \E i \in Trades : InsertTrade(i)
    \/ \E t \in Tokens : ForgetHistory(t) \/ FailedExecution(t)
    \/ SweepStep
    \/ DatabaseStep
    \/ \E tears \in BOOLEAN : Crash(tears)
    \/ BootstrapFile
    \/ BootstrapPostgres

\* The runtime polls both tasks, and the interval of the dust tick comes round.
Spec == Init /\ [][Next]_vars /\ WF_vars(SweepStep) /\ WF_vars(DatabaseStep)

-----------------------------------------------------------------------------
(* Properties.                                                             *)

\* What was swept more often than once is lost to the history each further time.
ResentOf == [i \in Trades |-> Dust(i) * (swept[i] - 1)]

\* The tokens that the history says we hold are in our wallet, except for four
\* shares the code loses sight of: what an entry that was removed had sold beyond
\* what it had bought, sells that were not stored before a restart, dust sent once
\* more after a failed chunk, and, from Postgres, dust that a restart counts as
\* tracked again.
TrackedIsHeld ==
    \A t \in Tokens :
        LET resent == {i \in Bought(done, t) : swept[i] > 1}
            lostSells == IF restarted THEN Sold(lost, t) ELSE {}
            lostDust == IF restarted /\ kind = "postgres" THEN Bought(done, t) ELSE {}
        IN  memory[t].execBuy
              <= memory[t].execSell + balance[t] + oversold[t]
                   + SumFunctionOnSet(ResentOf, resent)
                   + SumFunctionOnSet(ExecOf, lostSells)
                   + SumFunctionOnSet(DustOf, lostDust)

\* A rebuilt history is made of the confirmed copies, each once, without those
\* whose storing was cut short: half-inserted rows do not count, removed entries
\* and given-up sells do not return, and dust is subtracted from files only.
RebuiltFromCopies ==
    fresh => memory = IF kind = "file" THEN FromFiles(done \ lost)
                      ELSE Rebuild(done \ lost, NoDust)

Listed(i) == \E j \in 1 .. Len(dust) : dust[j] = i

\* Dust leaves the list because it was sent or because the process crashed: a
\* chunk that fails, and the chunks behind it, stay on it.
OnlySentDustLeaves ==
    [][\A i \in Trades : Listed(i) /\ ~Listed(i)' => swept[i] > 0 \/ status' = "down"]_vars

\* Dust that is on the list leaves it: the database task and the dust tick
\* share the lock of the list and do not starve each other.
DustIsSwept == \A i \in Trades : Listed(i) ~> ~Listed(i)
=============================================================================
