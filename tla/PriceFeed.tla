----------------------------- MODULE PriceFeed -----------------------------
(***************************************************************************)
(* The price feed (swap/jupiter/price.rs) and its two users in the copy    *)
(* service: the main task, which subscribes to SOL for good and asks for   *)
(* its price once, and the execution tasks, which subscribe to the tokens  *)
(* they trade, SOL among them, for a while.  A price is the number of the  *)
(* market situation it was taken in.                                       *)
(***************************************************************************)
EXTENDS Naturals, FiniteSets

CONSTANTS
    Tokens, SOL,
    MaxMoves,       \* bound: changes of the market
    Unpolled        \* TokenPrice::NeverPolled

VARIABLES
    cache,      \* entries of the cache, by token
    market,     \* the situation of the market (external)
    main,       \* the main task: before, during and after its refresh
    task,       \* the feed's own task
    request     \* tokens in the request that is under way, per requester

vars == <<cache, market, main, task, request>>

\* An entry's lifetime counts from its last subscription, not from its price.
Entry(price, lasting) == [price |-> price, lasting |-> lasting, old |-> FALSE]

Cached == DOMAIN cache

Init ==
    /\ cache = [t \in {} |-> Unpolled]
    /\ market = 1 /\ main = "start" /\ task = "wait"
    /\ request = [who \in {"main", "task"} |-> {}]

Put(t, e) == cache' = [u \in Cached \cup {t} |-> IF u = t THEN e ELSE cache[u]]

MarketMoves ==
    /\ market <= MaxMoves
    /\ market' = market + 1
    /\ UNCHANGED <<cache, main, task, request>>

\* An entry outlives its ttl.
Ages(t) ==
    /\ t \in Cached /\ ~cache[t].lasting
    /\ cache' = [cache EXCEPT ![t].old = TRUE]
    /\ UNCHANGED <<market, main, task, request>>

\* subscribe_token keeps the price, and renews the time and the ttl: an
\* execution takes from SOL the unlimited one that the main task gave it.  There
\* are executions once the main task has its prices.
SubscribeToken(t) ==
    /\ main = "running"
    /\ Put(t, Entry(IF t \in Cached THEN cache[t].price ELSE Unpolled, FALSE))
    /\ UNCHANGED <<market, main, task, request>>

StartMain ==
    /\ main = "start"
    /\ Put(SOL, Entry(Unpolled, TRUE))
    /\ main' = "refresh"
    /\ UNCHANGED <<market, task, request>>

-----------------------------------------------------------------------------

\* update_token_prices collects the tokens, and asks for their prices.
AskPrices(who) ==
    /\ IF who = "main" THEN main = "refresh" ELSE task = "refresh"
    /\ request[who] = {} /\ Cached # {}
    /\ request' = [request EXCEPT ![who] = Cached]
    /\ UNCHANGED <<cache, market, main, task>>

Finish(who) ==
    /\ main' = IF who = "main" THEN "running" ELSE main
    /\ task' = IF who = "task" THEN "ended" ELSE task
    /\ request' = [request EXCEPT ![who] = {}]

\* The answer has some of the prices; a failed chunk has none.  Tokens that were
\* removed meanwhile are not entered again.
StorePrices(who, answered) ==
    /\ request[who] # {} /\ answered \subseteq request[who]
    /\ cache' = [t \in Cached |-> IF t \in answered THEN [cache[t] EXCEPT !.price = market]
                                                    ELSE cache[t]]
    /\ Finish(who)
    /\ UNCHANGED market

\* With an empty cache nothing is asked.
NothingToAsk(who) ==
    /\ IF who = "main" THEN main = "refresh" ELSE task = "refresh"
    /\ request[who] = {} /\ Cached = {}
    /\ Finish(who)
    /\ UNCHANGED <<cache, market>>

\* The select! of the task: both intervals tick at once when they are new, and
\* either branch may be taken; after it the task ends.
RefreshTick ==
    /\ task = "wait"
    /\ task' = "refresh"
    /\ UNCHANGED <<cache, market, main, request>>

CleanupTick ==
    /\ task = "wait"
    /\ cache' = [t \in {u \in Cached : ~cache[u].old} |-> cache[t]]
    /\ task' = "ended"
    /\ UNCHANGED <<market, main, request>>

TaskStep ==
    \/ RefreshTick \/ CleanupTick \/ AskPrices("task") \/ NothingToAsk("task")
    \/ \E answered \in SUBSET Tokens : StorePrices("task", answered)

MainStep ==
    \/ StartMain \/ AskPrices("main") \/ NothingToAsk("main")
    \/ \E answered \in SUBSET Tokens : StorePrices("main", answered)

Next ==
    \/ MarketMoves
    \/ \E t \in Tokens : Ages(t) \/ SubscribeToken(t)
    \/ TaskStep \/ MainStep

\* Both tasks are polled by the runtime.
FairSpec == Init /\ [][Next]_vars /\ WF_vars(TaskStep) /\ WF_vars(MainStep)

-----------------------------------------------------------------------------

Stale(t) == t \in Cached /\ cache[t].price \in 1 .. market - 1

\* config.rs documents price_feed_refresh_frequency_ms as how often stale prices
\* are refreshed: a price that is behind the market is asked for again, unless
\* its token leaves the cache.
StalePricesAreAskedFor ==
    \A t \in Tokens : Stale(t) ~> (~Stale(t) \/ \E who \in {"main", "task"} : t \in request[who])
=============================================================================
