------------------------- MODULE GrpcTransactions -------------------------
(***************************************************************************)
(* The transaction stream over gRPC                                        *)
(* (wire/geyser/subscribe_transactions.rs): the handle that adds and drops *)
(* accounts, the main task that replaces the running subscription when the *)
(* accounts change, and the inner tasks, one per subscription, that       *)
(* connect, receive and broadcast.  The gRPC server is external.           *)
(***************************************************************************)
EXTENDS Naturals, Sequences, FiniteSets

CONSTANTS
    Accounts,       \* addresses that may be watched
    MaxTxns,        \* bound: transactions that the server reports
    MaxChanges,     \* bound: calls that change the watched accounts
    MaxBreaks       \* bound: connections that the server breaks or refuses

ASSUME GrpcAssumption ==
    MaxTxns \in Nat /\ MaxChanges \in Nat /\ MaxBreaks \in Nat

VARIABLES
    handle,     \* the GrpcTransactions value has not been dropped
    keys,       \* its set of accounts
    watched,    \* value of the watch channel
    unseen,     \* the channel holds a version that the main task has not seen
    main,       \* where the main task stands
    subs,       \* inner tasks in the order of their start
    inCharge,    \* current_task, 0 before the first
    emitted,    \* number of transactions reported by the server
    copies,     \* how often a transaction was broadcast
    overlap,    \* transactions reported while a subscription was being replaced
    gaveUp,     \* the accounts of a replacement that was abandoned since
    changes, breaks

mainVars == <<main, inCharge, gaveUp>>
keyVars == <<handle, keys, watched, changes>>
txnVars == <<emitted, copies, overlap>>
grpcVars == <<keyVars, unseen, mainVars, subs, txnVars, breaks>>

Ids == 1 .. MaxChanges     \* a change starts at most one task
Txns == 1 .. MaxTxns

GrpcInit ==
    /\ handle = TRUE /\ keys = {} /\ watched = {} /\ unseen = FALSE
    /\ main = "first" /\ subs = <<>> /\ inCharge = 0
    /\ emitted = 0 /\ copies = [t \in Txns |-> 0] /\ overlap = {}
    /\ gaveUp = {} /\ changes = 0 /\ breaks = 0

-----------------------------------------------------------------------------
(* The handle.  A request that changes nothing is not sent on.             *)

Notify(ks) ==
    /\ handle /\ changes < MaxChanges
    /\ ks # keys
    /\ keys' = ks /\ watched' = ks /\ unseen' = TRUE
    /\ changes' = changes + 1 /\ gaveUp' = {}
    /\ UNCHANGED <<handle, main, inCharge, subs, txnVars, breaks>>

WatchAccounts(ks) == Notify(keys \cup ks)

DropAccounts(ks) == Notify(keys \ ks)

\* The channel's sender and its own receiver go with the handle.
DropHandle ==
    /\ handle
    /\ handle' = FALSE
    /\ UNCHANGED <<keys, watched, changes, unseen, mainVars, subs, txnVars, breaks>>

-----------------------------------------------------------------------------
(* The main task.                                                          *)

NewSubscription(ks) == [accounts |-> ks, pc |-> "start", inbox |-> <<>>, started |-> FALSE]

New == Len(subs)

\* An aborted task ends at its next await.  One that has a message at hand may go
\* on until it has dealt with what is there.
Abort(i) == [subs EXCEPT ![i].pc = IF @ = "stream" THEN "aborted" ELSE "dead"]

Gone == \A i \in DOMAIN subs : subs[i].pc # "aborted"

First ==
    /\ main = "first" /\ unseen
    /\ unseen' = FALSE
    /\ subs' = Append(subs, NewSubscription(watched))
    /\ inCharge' = 1
    /\ main' = "idle"
    /\ UNCHANGED <<keyVars, gaveUp, txnVars, breaks>>

\* changed() sees a version before it sees that the sender is gone.
Exit ==
    /\ main \in {"first", "idle"} /\ ~unseen /\ ~handle
    /\ main' = "exited"
    /\ UNCHANGED <<keyVars, unseen, inCharge, gaveUp, subs, txnVars, breaks>>

\* A change starts the delay of one second.
Changed ==
    /\ main = "idle" /\ unseen
    /\ unseen' = FALSE
    /\ main' = "delay"
    /\ UNCHANGED <<keyVars, inCharge, gaveUp, subs, txnVars, breaks>>

\* Mutant: the running subscription is stopped first.
StartNewAfterAbort ==
    /\ main = "delay"
    /\ unseen' = FALSE
    /\ subs' = Append([subs EXCEPT ![inCharge].pc = "dead"], NewSubscription(watched))
    /\ main' = "starting"
    /\ UNCHANGED <<keyVars, inCharge, gaveUp, txnVars, breaks>>

\* Takes what was changed during the delay as well.  A task that was aborted before
\* the delay has ended by now.
StartNew ==
    /\ main = "delay" /\ Gone
    /\ unseen' = FALSE
    /\ subs' = Append(subs, NewSubscription(watched))
    /\ main' = "starting"
    /\ UNCHANGED <<keyVars, inCharge, gaveUp, txnVars, breaks>>

\* Mutant: the old task is left running.
ReplaceOnly ==
    /\ main = "starting" /\ subs[New].started
    /\ inCharge' = New
    /\ main' = "idle"
    /\ UNCHANGED <<keyVars, unseen, gaveUp, subs, txnVars, breaks>>

\* Mutant: the accounts are marked as seen once the new task runs.
ReplaceAndMarkSeen ==
    /\ main = "starting" /\ subs[New].started
    /\ subs' = Abort(inCharge)
    /\ inCharge' = New
    /\ main' = "idle"
    /\ unseen' = FALSE
    /\ UNCHANGED <<keyVars, gaveUp, txnVars, breaks>>

Replace ==
    /\ main = "starting" /\ subs[New].started
    /\ subs' = Abort(inCharge)
    /\ inCharge' = New
    /\ main' = "idle"
    /\ UNCHANGED <<keyVars, unseen, gaveUp, txnVars, breaks>>

\* A minute without a message.  The accounts are not tried again until they
\* change again.
StartTimeout ==
    /\ main = "starting" /\ ~subs[New].started
    /\ subs' = Abort(New)
    /\ gaveUp' = {subs[New].accounts}
    /\ main' = "idle"
    /\ UNCHANGED <<keyVars, unseen, inCharge, txnVars, breaks>>

MainTask == First \/ Exit \/ Changed \/ StartNew \/ Replace \/ StartTimeout

-----------------------------------------------------------------------------
(* An inner task.                                                          *)

Begin(i) ==
    /\ subs[i].pc = "start"
    /\ subs' = [subs EXCEPT ![i].pc = IF subs[i].accounts = {} THEN "dead" ELSE "connect"]
    /\ UNCHANGED <<keyVars, unseen, mainVars, txnVars, breaks>>

\* The connection is lazy, so that one step stands for both requests.
Subscribed(i) ==
    /\ subs[i].pc = "connect"
    /\ subs' = [subs EXCEPT ![i].pc = "stream"]
    /\ UNCHANGED <<keyVars, unseen, mainVars, txnVars, breaks>>

\* A refused connection is retried after a minute, so never within StartTimeout.
Refused(i) ==
    /\ subs[i].pc = "connect" /\ breaks < MaxBreaks
    /\ subs' = [subs EXCEPT ![i].pc = "wait"]
    /\ breaks' = breaks + 1
    /\ UNCHANGED <<keyVars, unseen, mainVars, txnVars>>

Retry(i) ==
    /\ subs[i].pc = "wait"
    /\ ~(main = "starting" /\ i = New)
    /\ subs' = [subs EXCEPT ![i].pc = "connect"]
    /\ UNCHANGED <<keyVars, unseen, mainVars, txnVars, breaks>>

Disconnected(i) ==
    /\ subs[i].pc = "stream" /\ breaks < MaxBreaks
    /\ subs' = [subs EXCEPT ![i].pc = "connect", ![i].inbox = <<>>]
    /\ breaks' = breaks + 1
    /\ UNCHANGED <<keyVars, unseen, mainVars, txnVars>>

\* A ping, or a transaction that ITransaction cannot represent: either shows
\* that the subscription has started.
ReceivePing(i) ==
    /\ subs[i].pc = "stream" /\ ~subs[i].started
    /\ subs' = [subs EXCEPT ![i].started = TRUE]
    /\ UNCHANGED <<keyVars, unseen, mainVars, txnVars, breaks>>

\* Broadcasting fails only when no receiver is left.
ReceiveTransaction(i) ==
    /\ subs[i].pc \in {"stream", "aborted"} /\ subs[i].inbox # <<>>
    /\ subs' = [subs EXCEPT ![i].started = TRUE,
                              ![i].inbox = Tail(@),
                              ![i].pc = IF handle THEN @ ELSE "dead"]
    /\ copies' = IF handle THEN [copies EXCEPT ![Head(subs[i].inbox)] = @ + 1] ELSE copies
    /\ UNCHANGED <<keyVars, unseen, mainVars, emitted, overlap, breaks>>

\* The aborted task comes to an await; its inbox goes with it.
Cancelled(i) ==
    /\ subs[i].pc = "aborted"
    /\ subs' = [subs EXCEPT ![i].pc = "dead", ![i].inbox = <<>>]
    /\ UNCHANGED <<keyVars, unseen, mainVars, txnVars, breaks>>

InnerTask(i) ==
    \/ Begin(i) \/ Subscribed(i) \/ Refused(i) \/ Retry(i)
    \/ Disconnected(i) \/ ReceivePing(i) \/ ReceiveTransaction(i) \/ Cancelled(i)

Streaming == {i \in DOMAIN subs : subs[i].pc \in {"stream", "aborted"}}

\* A second subscription is there: the new one, or an old one not yet gone.
Replacing == main = "starting" \/ ~Gone

\* The server reports a transaction to every subscription for its account.
Report(a) ==
    /\ emitted < MaxTxns
    /\ emitted' = emitted + 1
    /\ subs' = [i \in DOMAIN subs |->
                    IF i \in Streaming /\ a \in subs[i].accounts
                    THEN [subs[i] EXCEPT !.inbox = Append(@, emitted + 1)]
                    ELSE subs[i]]
    /\ overlap' = IF Replacing THEN overlap \cup {emitted + 1} ELSE overlap
    /\ UNCHANGED <<keyVars, unseen, mainVars, copies, breaks>>

GrpcNext ==
    \/ \E a \in Accounts : WatchAccounts({a}) \/ DropAccounts({a}) \/ Report(a)
    \/ DropHandle
    \/ MainTask
    \/ \E i \in DOMAIN subs : InnerTask(i)

\* The runtime schedules the tasks; a connection that may be made is made or
\* refused, and a server that accepts it pings.
GrpcFairness ==
    /\ WF_grpcVars(MainTask)
    /\ \A i \in Ids : WF_grpcVars(i \in DOMAIN subs /\ InnerTask(i))

-----------------------------------------------------------------------------
(* Properties.                                                             *)

\* The old subscription is stopped only when the new one has delivered
\* something: as long as somebody listens, the subscription in charge has neither
\* ended nor been aborted, whatever the server does to the new one.
AlwaysServed ==
    handle /\ inCharge # 0 /\ subs[inCharge].accounts # {} =>
        subs[inCharge].pc \notin {"aborted", "dead"}

\* A transaction is broadcast twice, and then copied twice, only if it came
\* while a subscription was being replaced, the last moments of an aborted task
\* included; never more often than that.
RepeatsOnlyWhileReplacing ==
    \A t \in Txns : copies[t] <= IF t \in overlap THEN 2 ELSE 1

\* Every change of the watched accounts reaches the running subscription in
\* the end, unless the new subscription got no message within a minute: then
\* the change is forgotten (the `continue` after "failed to start").
ChangesApplied ==
    LET served == IF inCharge = 0 THEN {} ELSE subs[inCharge].accounts
    IN  handle /\ keys # served ~> ~handle \/ keys = served \/ keys \in gaveUp
=============================================================================
