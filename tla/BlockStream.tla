---------------------------- MODULE BlockStream ----------------------------
(***************************************************************************)
(* Block polling (wire/rpc/poll_blocks.rs): a websocket announces          *)
(* confirmed slots, parallel workers fetch their blocks and broadcast      *)
(* them, a replay task is to schedule failed and finalized blocks again,   *)
(* and a slot poller follows the slot notifications.  The caller has a     *)
(* handle, the only receiver of what the workers broadcast.                *)
(*                                                                         *)
(* The replay task and the slot poller send to a broadcast channel whose   *)
(* receivers are all dropped when start_block_polling_tasks returns: the   *)
(* workers do not take theirs along.  The slot notifications are as module *)
(* SlotFeed shows them: they advance, may be missed, and end.              *)
(***************************************************************************)
EXTENDS Naturals, Sequences, FiniteSets

CONSTANTS
    LastSlot,       \* bound: slots of the chain
    LastUpdate,     \* bound: confirmations that the node announces
    SlotOf,         \* slots it announces, in its order, repeats included
    Workers,        \* the parallel tasks
    Schemes,        \* commitment schemes the stream may be started with
    MaxAge          \* slots after which a retry is dropped, 128 in the code

ASSUME BlocksAssumption ==
    /\ LastSlot \in Nat \ {0} /\ LastUpdate \in Nat /\ IsFiniteSet(Workers)
    /\ SlotOf \in [1 .. LastUpdate -> 1 .. LastSlot]
    /\ Schemes \subseteq {"ConfirmedOnly", "FinalizedOnly", "Both"}
    /\ MaxAge \in Nat

VARIABLES
    scheme,         \* commitment_scheme
    returned,       \* start_block_polling_tasks has returned
    websocket,      \* the subscription to slot updates is open
    announced,      \* announcements that arrived, by number
    slotQueue,      \* channel from the websocket task to the workers
    worker,         \* where a worker stands, and the announcement it is at
    retryQueue,     \* slot_retry_queue
    replay,         \* the replay task runs
    slotPoller,     \* the slot poller: start, run or ended
    recentSlot,     \* recent_slot
    shutdown,       \* the exit signal
    handle,         \* the caller keeps RpcBlocksHandle, with the receiver
    blocks,         \* how often the block of an announcement was broadcast
    pushed          \* entries that workers had for the retry queue

blockVars == <<scheme, returned, websocket, announced, slotQueue, worker, retryQueue, replay,
               slotPoller, recentSlot, shutdown, handle, blocks, pushed>>

Updates == 1 .. LastUpdate

Alive == {w \in Workers : worker[w].pc # "ended"}

BlocksInit ==
    /\ scheme \in Schemes /\ returned = FALSE
    /\ websocket = TRUE /\ announced = {} /\ slotQueue = <<>>
    /\ worker = [w \in Workers |-> [pc |-> "receive", slot |-> 0]]
    /\ retryQueue = <<>> /\ replay = TRUE
    /\ slotPoller = "start" /\ recentSlot = 0 /\ shutdown = FALSE /\ handle = TRUE
    /\ blocks = [n \in Updates |-> 0] /\ pushed = 0

\* The last receivers of the schedule queue go with the function's locals.
Return ==
    /\ ~returned
    /\ returned' = TRUE
    /\ UNCHANGED <<shutdown, handle, scheme, websocket, announced, slotQueue, worker, retryQueue, replay,
                   slotPoller, recentSlot, blocks, pushed>>

-----------------------------------------------------------------------------
(* The websocket task and the workers.                                     *)

\* An optimistic confirmation, passed on whether or not its slot was announced
\* before.  Without workers the send fails and the task ends.
Announce(n) ==
    /\ websocket /\ \A a \in announced : a < n
    /\ IF Alive = {} /\ returned
       THEN websocket' = FALSE /\ UNCHANGED <<announced, slotQueue>>
       ELSE /\ announced' = announced \cup {n}
            /\ slotQueue' = Append(slotQueue, n)
            /\ UNCHANGED websocket
    /\ UNCHANGED <<shutdown, handle, scheme, returned, worker, retryQueue, replay, slotPoller, recentSlot,
                   blocks, pushed>>

\* The stream of updates ends; nothing opens it again.
WebsocketEnds ==
    /\ websocket
    /\ websocket' = FALSE
    /\ UNCHANGED <<shutdown, handle, scheme, returned, announced, slotQueue, worker, retryQueue, replay,
                   slotPoller, recentSlot, blocks, pushed>>

workerUnchanged == <<shutdown, handle, scheme, returned, websocket, announced, replay, slotPoller,
                     recentSlot>>

\* The loop looks at the exit signal before it waits for the next slot.
NextRound == IF shutdown THEN "ended" ELSE "receive"

\* Mutant: every worker sees every slot, as from a broadcast channel.
ReceiveSlotBroadcast(w) ==
    /\ worker[w].pc = "receive" /\ slotQueue # <<>>
    /\ worker' = [worker EXCEPT ![w] = [pc |-> "fetch", slot |-> Head(slotQueue)]]
    /\ UNCHANGED <<workerUnchanged, slotQueue, retryQueue, blocks, pushed>>

\* Mutant: the slot is lost between the channel and the request.
ReceiveSlotLost(w) ==
    /\ worker[w].pc = "receive" /\ slotQueue # <<>>
    /\ slotQueue' = Tail(slotQueue)
    /\ worker' = [worker EXCEPT ![w].pc = NextRound]
    /\ UNCHANGED <<workerUnchanged, retryQueue, blocks, pushed>>

ReceiveSlot(w) ==
    /\ worker[w].pc = "receive" /\ slotQueue # <<>>
    /\ slotQueue' = Tail(slotQueue)
    /\ worker' = [worker EXCEPT ![w] = [pc |-> "fetch", slot |-> Head(slotQueue)]]
    /\ UNCHANGED <<workerUnchanged, retryQueue, blocks, pushed>>

ReceiveClosed(w) ==
    /\ worker[w].pc = "receive" /\ slotQueue = <<>> /\ ~websocket
    /\ worker' = [worker EXCEPT ![w].pc = "ended"]
    /\ UNCHANGED <<workerUnchanged, slotQueue, retryQueue, blocks, pushed>>

\* Hand a slot to the replay task; a worker that finds it gone ends as well.
PushRetry(w, commitment) ==
    /\ pushed' = pushed + 1
    /\ IF replay
       THEN /\ retryQueue' = Append(retryQueue, [slot |-> worker[w].slot, at |-> commitment])
            /\ worker' = [worker EXCEPT ![w].pc = NextRound]
       ELSE /\ worker' = [worker EXCEPT ![w].pc = "ended"]
            /\ UNCHANGED retryQueue

SendsConfirmed == scheme \in {"ConfirmedOnly", "Both"}

\* Blocks are always fetched at the confirmed commitment.
FetchOk(w) ==
    /\ worker[w].pc = "fetch" /\ (SendsConfirmed => handle)
    /\ blocks' = IF SendsConfirmed THEN [blocks EXCEPT ![worker[w].slot] = @ + 1] ELSE blocks
    /\ IF scheme \in {"FinalizedOnly", "Both"}
       THEN PushRetry(w, "finalized")
       ELSE /\ worker' = [worker EXCEPT ![w].pc = NextRound]
            /\ UNCHANGED <<retryQueue, pushed>>
    /\ UNCHANGED <<workerUnchanged, slotQueue>>

\* Nobody receives the block, or its transactions, of which it has at least one: the
\* failing send ends the worker before it hands anything to the replay task.
FetchUnheard(w) ==
    /\ worker[w].pc = "fetch" /\ SendsConfirmed /\ ~handle
    /\ worker' = [worker EXCEPT ![w].pc = "ended"]
    /\ UNCHANGED <<workerUnchanged, slotQueue, retryQueue, blocks, pushed>>

\* Mutant: a missing block ends the worker like an error.
FetchNoneEnds(w) ==
    /\ worker[w].pc = "fetch"
    /\ worker' = [worker EXCEPT ![w].pc = "ended"]
    /\ UNCHANGED <<workerUnchanged, slotQueue, retryQueue, blocks, pushed>>

FetchNone(w) ==
    /\ worker[w].pc = "fetch"
    /\ PushRetry(w, "confirmed")
    /\ UNCHANGED <<workerUnchanged, slotQueue, blocks>>

-----------------------------------------------------------------------------
(* The replay task and the slot poller.                                    *)

\* Sending to the schedule queue fails when it has no receiver; what it takes
\* nobody reads.
Scheduled == ~returned

TooOld(r) == recentSlot > SlotOf[r.slot] + MaxAge

Replay ==
    /\ replay /\ retryQueue # <<>>
    /\ retryQueue' = Tail(retryQueue)
    /\ replay' = (~shutdown /\ (TooOld(Head(retryQueue)) \/ Scheduled))
    /\ UNCHANGED <<shutdown, handle, scheme, returned, websocket, announced, slotQueue, worker, slotPoller,
                   recentSlot, blocks, pushed>>

ReplayClosed ==
    /\ replay /\ retryQueue = <<>> /\ Alive = {} /\ returned
    /\ replay' = FALSE
    /\ UNCHANGED <<shutdown, handle, scheme, returned, websocket, announced, slotQueue, worker, retryQueue,
                   slotPoller, recentSlot, blocks, pushed>>

pollerUnchanged == <<scheme, returned, websocket, announced, slotQueue, worker, retryQueue, replay,
                     blocks, pushed>>

StartSlotPoller(slot) ==
    /\ slotPoller = "start"
    /\ slotPoller' = "run" /\ recentSlot' = slot
    /\ UNCHANGED <<shutdown, handle, pollerUnchanged>>

\* The slot is stored and scheduled; the failing send ends the task.
FollowSlot(slot) ==
    /\ slotPoller = "run" /\ slot >= recentSlot
    /\ recentSlot' = slot
    /\ slotPoller' = IF Scheduled THEN "run" ELSE "ended"
    /\ UNCHANGED <<shutdown, handle, pollerUnchanged>>

\* The first request fails, or the receiver lagged behind or was closed.
SlotPollerError ==
    /\ slotPoller # "ended"
    /\ slotPoller' = "ended"
    /\ UNCHANGED <<shutdown, handle, pollerUnchanged, recentSlot>>

\* notify_shutdown
NotifyShutdown ==
    /\ returned /\ handle /\ ~shutdown
    /\ shutdown' = TRUE
    /\ UNCHANGED <<handle, pollerUnchanged, slotPoller, recentSlot>>

\* The last clone of the handle is dropped, and its subscriptions with it.
DropHandle ==
    /\ returned /\ handle
    /\ handle' = FALSE
    /\ UNCHANGED <<shutdown, pollerUnchanged, slotPoller, recentSlot>>

-----------------------------------------------------------------------------

WorkerStep(w) == ReceiveSlot(w) \/ ReceiveClosed(w) \/ FetchOk(w) \/ FetchUnheard(w) \/ FetchNone(w)

ReplayStep == Replay \/ ReplayClosed

SlotPollerStep ==
    SlotPollerError \/ \E slot \in 1 .. LastSlot : StartSlotPoller(slot) \/ FollowSlot(slot)

BlocksStep ==
    \/ Return
    \/ (\E n \in Updates : Announce(n)) \/ WebsocketEnds
    \/ \E w \in Workers : WorkerStep(w)
    \/ ReplayStep \/ SlotPollerStep \/ NotifyShutdown \/ DropHandle

-----------------------------------------------------------------------------

\* An announcement leads to at most one broadcast of its block, however many
\* workers share the queue and whatever they hand to the replay task.  (A slot
\* that the node announces again is broadcast again: nothing looks for repeats.)
BlocksOnce == \A n \in Updates : blocks[n] <= 1

\* While somebody listens, the websocket is open and no exit is signalled, a worker
\* ends for one reason only: it had a slot for the replay task, and the replay task
\* had ended over an earlier one.  The first such slot costs the replay task, and
\* every later one a worker, although rescheduling is expected to succeed.
WorkersEndByRetries ==
    LET ended == Cardinality(Workers \ Alive) IN
    handle /\ ~shutdown /\ websocket => ended = 0 \/ (~replay /\ ended < pushed)

Waiting(n) == \E i \in 1 .. Len(slotQueue) : slotQueue[i] = n

\* Every announced slot is fetched, as long as a worker is left to do it, also
\* while the stream shuts down or nobody listens any more.
AnnouncedIsFetched ==
    \A n \in Updates :
        Waiting(n) ~> Alive = {} \/ \E w \in Workers : worker[w] = [pc |-> "fetch", slot |-> n]
=============================================================================
