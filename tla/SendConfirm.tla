---------------------------- MODULE SendConfirm ----------------------------
(***************************************************************************)
(* The transaction service: SendTransactionService and its handles         *)
(* (wire/send_txn/service.rs), the task that drains the handles' channel   *)
(* into the map of unconfirmed transactions and puts every transaction on  *)
(* the wire, the confirmation task (wire/confirm_txn.rs) and the task that *)
(* refreshes the blockhash and the block height they work with             *)
(* (wire/rpc/poll_blockhash.rs).  The chain and the RPC node are external. *)
(***************************************************************************)
EXTENDS Naturals, FiniteSets

CONSTANTS
    Txns,           \* transaction ids (TransactionId::next)
    Sources,        \* holders of a handle (TransactionSourceId::next)
    Broadcast,      \* the sources that take their handle with subscribe_all
    SourceOf,       \* the source that sends a transaction
    Contents,       \* signed message without its blockhash
    ContentOf,      \* what a transaction carries
    Valid,          \* blocks a blockhash stays valid for
    MaxHeight,      \* bound: the last block of the chain
    MaxSends,       \* bound: how often one transaction id is sent
    ChunkSize,      \* MAX_GET_SIGNATURE_STATUSES_QUERY_ITEMS
    NoTxn           \* an absent entry of the unconfirmed map

ASSUME ConstantsAssumption ==
    /\ Broadcast \subseteq Sources
    /\ SourceOf \in [Txns -> Sources]
    /\ ContentOf \in [Txns -> Contents]
    /\ Valid \in Nat /\ MaxHeight \in Nat
    /\ MaxSends \in Nat \ {0} /\ ChunkSize \in Nat \ {0}
    /\ NoTxn \notin Txns

VARIABLES
    chainHeight,    \* height of the last confirmed block (external)
    landed,         \* what the chain made of a signature (external)
    wired,          \* signatures handed to Jito, the RPC node or the leaders
    validUntil,     \* blockhash_notification: last_valid_block_height
    height,         \* current_block_height, the cached atomic
    pollPC,         \* next request of the polling task
    handles,        \* sources that hold a SendTransactionsHandle
    registered,     \* keys of confirmation_subscribers_map
    newTxns,        \* the channel new_transactions
    unconfirmed,    \* unconfirmed_transactions_map: signature -> transaction
    pc,             \* where the confirmation task stands
    last,           \* its last_block_height
    cur,            \* its current_block_height, shadowed inside the loop
    todo,           \* transactions_to_verify not yet asked for
    batch,          \* statuses of the last answer not yet applied
    expired,        \* expired_txns not yet reported
    sends,          \* how often a transaction id was sent
    state,          \* what its sender knows of a transaction id
    givenUp,        \* signatures reported Unconfirmed
    missed          \* signatures whose status request failed once expired

chainVars == <<chainHeight, landed, wired>>
pollVars == <<validUntil, height, pollPC>>
subVars == <<handles, registered>>
taskVars == <<pc, last, cur, todo, batch, expired>>
histVars == <<sends, state, givenUp, missed>>
vars == <<chainVars, pollVars, subVars, newTxns, unconfirmed, taskVars, histVars>>

Heights == 0 .. (MaxHeight + Valid)

\* A signature is fixed by what is signed: the message and its blockhash.
Signatures == [content : Contents, lvbh : Heights]

Data == [sig : Signatures, txn : Txns]

\* get_blockhash_data_with_retry returns last_valid_block_height for the
\* height as well, and the binaries start the cached height from it.
Init ==
    /\ chainHeight = 0
    /\ landed = [s \in Signatures |-> "no"]
    /\ wired = {}
    /\ validUntil = Valid
    /\ height = Valid
    /\ pollPC = "blockhash"
    /\ handles = {} /\ registered = {}
    /\ newTxns = {}
    /\ unconfirmed = [s \in Signatures |-> NoTxn]
    /\ pc = "start" /\ last = 0 /\ cur = 0
    /\ todo = {} /\ batch = {} /\ expired = {}
    /\ sends = [t \in Txns |-> 0]
    /\ state = [t \in Txns |-> "new"]
    /\ givenUp = {} /\ missed = {}

-----------------------------------------------------------------------------
(* The chain (external).                                                   *)

\* Timing assumption: the first blockhash (about a minute old when it
\* expires) outlives the spawning of the confirmation task.
Tick ==
    /\ chainHeight < MaxHeight
    /\ pc = "start" => chainHeight < Valid
    /\ chainHeight' = chainHeight + 1
    /\ UNCHANGED <<landed, wired, pollVars, subVars, newTxns, unconfirmed, taskVars, histVars>>

\* A block takes a transaction only while its blockhash is valid; the
\* transaction succeeds or fails in it.  A lost transaction never lands.
Land(s, result) ==
    /\ s \in wired
    /\ landed[s] = "no"
    /\ chainHeight <= s.lvbh
    /\ landed' = [landed EXCEPT ![s] = result]
    /\ UNCHANGED <<chainHeight, wired, pollVars, subVars, newTxns, unconfirmed, taskVars, histVars>>

-----------------------------------------------------------------------------
(* The polling task: blockhash, then height, then sleep.  Either request   *)
(* may fail and then leaves its value as it was.                           *)

\* Mutant: the validity of the new blockhash counted from the old one.
PollBlockhashRelative(ok) ==
    /\ pollPC = "blockhash"
    /\ pollPC' = "height"
    /\ validUntil' = IF ok THEN validUntil + Valid ELSE validUntil
    /\ UNCHANGED <<chainVars, height, subVars, newTxns, unconfirmed, taskVars, histVars>>

PollBlockhash(ok) ==
    /\ pollPC = "blockhash"
    /\ pollPC' = "height"
    /\ validUntil' = IF ok THEN chainHeight + Valid ELSE validUntil
    /\ UNCHANGED <<chainVars, height, subVars, newTxns, unconfirmed, taskVars, histVars>>

PollHeight(ok) ==
    /\ pollPC = "height"
    /\ pollPC' = "blockhash"
    /\ height' = IF ok THEN chainHeight ELSE height
    /\ UNCHANGED <<chainVars, validUntil, subVars, newTxns, unconfirmed, taskVars, histVars>>

-----------------------------------------------------------------------------
(* Handles.                                                                *)

\* Mutant: the handle is returned and its channel not entered in the map.
SubscribeUnregistered(src) ==
    /\ src \notin handles \cup Broadcast
    /\ handles' = handles \cup {src}
    /\ UNCHANGED <<chainVars, pollVars, registered, newTxns, unconfirmed, taskVars, histVars>>

Subscribe(src) ==
    /\ src \notin handles \cup Broadcast
    /\ handles' = handles \cup {src}
    /\ registered' = registered \cup {src}
    /\ UNCHANGED <<chainVars, pollVars, newTxns, unconfirmed, taskVars, histVars>>

\* The handle gets a source id that confirmation_subscribers_map never holds.
SubscribeAll(src) ==
    /\ src \in Broadcast \ handles
    /\ handles' = handles \cup {src}
    /\ UNCHANGED <<chainVars, pollVars, registered, newTxns, unconfirmed, taskVars, histVars>>

\* Both calls set the current blockhash, sign, and push to the unbounded channel.
Push(t) ==
    /\ newTxns' = newTxns \cup {[sig |-> [content |-> ContentOf[t], lvbh |-> validUntil],
                                 txn |-> t]}
    /\ sends' = [sends EXCEPT ![t] = @ + 1]
    /\ state' = [state EXCEPT ![t] = "pending"]
    /\ UNCHANGED <<chainVars, pollVars, subVars, unconfirmed, taskVars, givenUp, missed>>

SendTransaction(t) ==
    /\ SourceOf[t] \in handles
    /\ state[t] = "new"
    /\ Push(t)

\* Mutant: a resend that does not wait for the report.
ResendTransactionEarly(t) ==
    /\ state[t] # "new" /\ sends[t] < MaxSends
    /\ Push(t)

\* Keeps the transaction id; its caller answers an Unconfirmed report.
ResendTransaction(t) ==
    /\ state[t] = "unconfirmed" /\ sends[t] < MaxSends
    /\ Push(t)

\* The sending task: the transaction enters the map before it is sent.  An
\* entry that is there already for the signature is overwritten.
SendTask(d) ==
    /\ d \in newTxns
    /\ newTxns' = newTxns \ {d}
    /\ unconfirmed' = [unconfirmed EXCEPT ![d.sig] = d.txn]
    /\ wired' = wired \cup {d.sig}
    /\ UNCHANGED <<chainHeight, landed, pollVars, subVars, taskVars, histVars>>

-----------------------------------------------------------------------------
(* The confirmation task.                                                  *)

Entries == {s \in Signatures : unconfirmed[s] # NoTxn}

IsRecentlyExpired(s, l, c) == l <= s.lvbh /\ c > s.lvbh

\* Mutant: without the round for what has expired since the last one.
ToVerifyUnexpired(l, c) == {s \in Entries : c <= s.lvbh}

ToVerify(l, c) ==
    {s \in Entries : c <= s.lvbh \/ IsRecentlyExpired(s, l, c)}

ExpiredTxns(l, c) ==
    {s \in Entries : c > s.lvbh /\ ~IsRecentlyExpired(s, l, c)}

ConfirmStart ==
    /\ pc = "start"
    /\ pc' = "sleep"
    /\ last' = height
    /\ UNCHANGED <<chainVars, pollVars, subVars, newTxns, unconfirmed,
                   cur, todo, batch, expired, histVars>>

\* One round; an empty map only makes the task sleep again.
ConfirmRound ==
    /\ pc = "sleep"
    /\ Entries # {}
    /\ cur' = height
    /\ todo' = ToVerify(last, height)
    /\ pc' = "verify"
    /\ UNCHANGED <<chainVars, pollVars, subVars, newTxns, unconfirmed,
                   last, batch, expired, histVars>>

IsChunk(C) ==
    /\ C \subseteq todo
    /\ Cardinality(C) = IF Cardinality(todo) < ChunkSize THEN Cardinality(todo) ELSE ChunkSize

\* Mutant: an absent status counts as one.
StatusesOkAbsent(C) ==
    /\ pc = "verify" /\ todo # {} /\ batch = {}
    /\ IsChunk(C)
    /\ todo' = todo \ C
    /\ batch' = C
    /\ UNCHANGED <<chainVars, pollVars, subVars, newTxns, unconfirmed,
                   pc, last, cur, expired, histVars>>

\* get_signature_statuses answers with what the chain holds at that moment.
StatusesOk(C) ==
    /\ pc = "verify" /\ todo # {} /\ batch = {}
    /\ IsChunk(C)
    /\ todo' = todo \ C
    /\ batch' = {s \in C : landed[s] # "no"}
    /\ UNCHANGED <<chainVars, pollVars, subVars, newTxns, unconfirmed,
                   pc, last, cur, expired, histVars>>

\* A failed request is logged and its signatures are not asked for again in
\* this round.
StatusesErr(C) ==
    /\ pc = "verify" /\ todo # {} /\ batch = {}
    /\ IsChunk(C)
    /\ todo' = todo \ C
    /\ missed' = missed \cup {s \in C : cur > s.lvbh}
    /\ UNCHANGED <<chainVars, pollVars, subVars, newTxns, unconfirmed,
                   pc, last, cur, batch, expired, sends, state, givenUp>>

\* Remove the entry and report to its source; a source that is not in the
\* subscribers map makes the task panic.
Report(s, response) ==
    LET t == unconfirmed[s] IN
    /\ unconfirmed' = [unconfirmed EXCEPT ![s] = NoTxn]
    /\ IF SourceOf[t] \in registered
       THEN /\ state' = [state EXCEPT ![t] = response]
            /\ UNCHANGED pc
       ELSE /\ pc' = "panicked"
            /\ UNCHANGED state

ApplyStatus(s) ==
    /\ pc = "verify" /\ s \in batch
    /\ batch' = batch \ {s}
    /\ IF unconfirmed[s] = NoTxn
       THEN UNCHANGED <<unconfirmed, state, pc>>
       ELSE Report(s, "confirmed")
    /\ UNCHANGED <<chainVars, pollVars, subVars, newTxns,
                   last, cur, todo, expired, sends, givenUp, missed>>

CollectExpired ==
    /\ pc = "verify" /\ todo = {} /\ batch = {}
    /\ pc' = "expire"
    /\ expired' = ExpiredTxns(last, cur)
    /\ UNCHANGED <<chainVars, pollVars, subVars, newTxns, unconfirmed,
                   last, cur, todo, batch, histVars>>

\* Mutant: a reported transaction stays in the list.
ReportExpiredAgain(s) ==
    /\ pc = "expire" /\ s \in expired
    /\ IF unconfirmed[s] = NoTxn
       THEN /\ pc' = "unreachable"
            /\ UNCHANGED <<unconfirmed, state, givenUp>>
       ELSE /\ Report(s, "unconfirmed")
            /\ givenUp' = givenUp \cup {s}
    /\ UNCHANGED <<chainVars, pollVars, subVars, newTxns,
                   last, cur, todo, batch, expired, sends, missed>>

\* "attempted duplicate removal" is the unreachable! of the loop.
ReportExpired(s) ==
    /\ pc = "expire" /\ s \in expired
    /\ expired' = expired \ {s}
    /\ IF unconfirmed[s] = NoTxn
       THEN /\ pc' = "unreachable"
            /\ UNCHANGED <<unconfirmed, state, givenUp>>
       ELSE /\ Report(s, "unconfirmed")
            /\ givenUp' = givenUp \cup {s}
    /\ UNCHANGED <<chainVars, pollVars, subVars, newTxns,
                   last, cur, todo, batch, sends, missed>>

\* Mutant: last_block_height is not brought up to date.
EndRoundStale ==
    /\ pc = "expire" /\ expired = {}
    /\ pc' = "sleep"
    /\ UNCHANGED <<chainVars, pollVars, subVars, newTxns, unconfirmed,
                   last, cur, todo, batch, expired, histVars>>

EndRound ==
    /\ pc = "expire" /\ expired = {}
    /\ pc' = "sleep"
    /\ last' = cur
    /\ UNCHANGED <<chainVars, pollVars, subVars, newTxns, unconfirmed,
                   cur, todo, batch, expired, histVars>>

ConfirmTask ==
    \/ ConfirmStart
    \/ ConfirmRound
    \/ \E C \in SUBSET todo : StatusesOk(C) \/ StatusesErr(C)
    \/ \E s \in batch : ApplyStatus(s)
    \/ CollectExpired
    \/ \E s \in expired : ReportExpired(s)
    \/ EndRound

Next ==
    \/ Tick
    \/ \E s \in wired, r \in {"ok", "err"} : Land(s, r)
    \/ \E ok \in BOOLEAN : PollBlockhash(ok) \/ PollHeight(ok)
    \/ \E src \in Sources : Subscribe(src) \/ SubscribeAll(src)
    \/ \E t \in Txns : SendTransaction(t) \/ ResendTransaction(t)
    \/ \E d \in newTxns : SendTask(d)
    \/ ConfirmTask

Spec == Init /\ [][Next]_vars

\* The chain makes blocks, the RPC node answers a height request again and
\* again, and every task that can run is scheduled by the runtime.
Fairness ==
    /\ WF_vars(Tick)
    /\ WF_vars(\E ok \in BOOLEAN : PollBlockhash(ok) \/ PollHeight(ok))
    /\ SF_vars(PollHeight(TRUE))
    /\ WF_vars(\E d \in newTxns : SendTask(d))
    /\ WF_vars(ConfirmTask)

FairSpec == Spec /\ Fairness

-----------------------------------------------------------------------------
(* Properties.                                                             *)

TypeOK ==
    /\ chainHeight \in 0 .. MaxHeight
    /\ landed \in [Signatures -> {"no", "ok", "err"}]
    /\ wired \subseteq Signatures
    /\ validUntil \in Heights /\ height \in Heights
    /\ pollPC \in {"blockhash", "height"}
    /\ handles \subseteq Sources /\ registered \subseteq handles
    /\ newTxns \subseteq Data
    /\ unconfirmed \in [Signatures -> Txns \cup {NoTxn}]
    /\ pc \in {"start", "sleep", "verify", "expire", "panicked", "unreachable"}
    /\ last \in Heights /\ cur \in Heights
    /\ todo \subseteq Signatures /\ batch \subseteq Signatures
    /\ expired \subseteq Signatures
    /\ sends \in [Txns -> 0 .. MaxSends]
    /\ state \in [Txns -> {"new", "pending", "confirmed", "unconfirmed"}]
    /\ givenUp \subseteq Signatures /\ missed \subseteq Signatures

\* Two transaction ids that carry the same message: signed with the same
\* blockhash they have one signature.
Twins(c) == \E t, u \in Txns : t # u /\ ContentOf[t] = c /\ ContentOf[u] = c

\* A transaction reported Unconfirmed has not executed on chain and never
\* will, unless the status request of the round in which it had just expired
\* failed (confirm_txn.rs logs the error and goes on), or another id with the
\* same signature was there before it.  This is what the "recently expired"
\* window of the two filters is for.
NoFalseUnconfirmed ==
    \A s \in givenUp : landed[s] # "no" => s \in missed \/ Twins(s.content)

\* A transaction id is in one place at a time, the channel or the map, and
\* only while its sender waits for the report: no transmission is reported
\* twice, and none is reported after it was resent.
OneTransmission ==
    /\ \A d \in newTxns : state[d.txn] = "pending"
    /\ \A s \in Entries : state[unconfirmed[s]] = "pending"
    /\ \A d, e \in newTxns : d.txn = e.txn => d = e
    /\ \A r, s \in Entries : unconfirmed[r] = unconfirmed[s] => r = s
    /\ \A d \in newTxns, s \in Entries : unconfirmed[s] # d.txn

\* The unreachable! of the expiry loop is unreachable: nobody removes an
\* entry between its selection and its removal.
NoDuplicateRemoval == pc # "unreachable"

\* The confirmation task panics only while it reports a transaction that was
\* sent with a subscribe_all handle, whose source id is not in the subscribers
\* map; a source that subscribed is never the cause, however its
\* subscription, its sends and the rounds interleave.
PanicsOnlyForBroadcast ==
    pc = "panicked" =>
        \E t \in Txns : /\ SourceOf[t] \in Broadcast \ registered
                       /\ state[t] = "pending"
                       /\ \A s \in Entries : unconfirmed[s] # t

\* A transaction that enters the channel is reported to its sender, whatever
\* requests fail: it expires at the latest.  Only a panic of the confirmation
\* task keeps the report from its sender.  (Its blockhash expires before the
\* last block of the model.)
EventuallyReported ==
    \A t \in Txns :
        (\E d \in newTxns : d.txn = t /\ d.sig.lvbh < MaxHeight)
            ~> (state[t] \in {"confirmed", "unconfirmed"} \/ pc = "panicked")

\* The signatures that carry what transaction t carries.
Own(t, S) == {s \in S : s.content = ContentOf[t]}

Service == INSTANCE TransactionService WITH
    Executions <- Signatures,
    status <- state,
    executed <- [t \in Txns |-> {s \in Own(t, wired) : landed[s] # "no"}],
    unknown <- {t \in Txns : Own(t, missed) # {}}

\* For transactions with different messages the tasks together do what
\* TransactionService promises: whatever the order of their steps and
\* whichever requests fail, a transaction executes while it is pending and at
\* most once, and its report is true, unless a status request failed.
ImplementsService == Service!Spec
=============================================================================
