------------------------- MODULE BlockStreamProofs -------------------------
(***************************************************************************)
(* Proofs about block polling, for every number of workers and slots, and  *)
(* about the slot notifications with the leader tracker that follows them, *)
(* for every schedule, offset and window, with the leaders it is read for. *)
(***************************************************************************)
EXTENDS BlockStream, SlotLeaders, FiniteSetTheorems, TLAPS

-----------------------------------------------------------------------------
(* Block polling: the invariant.                                           *)

RetryType == [slot : Updates, at : {"confirmed", "finalized"}]
BlocksType == [Updates -> Nat]

\* The type invariant.
BlocksTypeOK ==
    /\ scheme \in Schemes
    /\ announced \in SUBSET Updates /\ slotQueue \in Seq(Updates)
    /\ worker \in [Workers -> [pc : {"receive", "fetch", "ended"}, slot : Nat]]
    /\ retryQueue \in Seq(RetryType) /\ pushed \in Nat
    /\ blocks \in BlocksType

\* The slots with the workers.
Fetching(w, s) == worker[w].pc = "fetch" /\ worker[w].slot = s

\* A slot has one place on its way to the block: announced, in the queue, with one
\* worker, broadcast.
PlacesInv ==
    /\ \A j, k \in DOMAIN slotQueue : slotQueue[j] = slotQueue[k] => j = k
    /\ \A k \in DOMAIN slotQueue :
          /\ slotQueue[k] \in announced /\ blocks[slotQueue[k]] = 0
          /\ \A w \in Workers : ~Fetching(w, slotQueue[k])
    /\ \A w \in Workers : worker[w].pc = "fetch" =>
          worker[w].slot \in announced /\ blocks[worker[w].slot] = 0
    /\ \A v, w \in Workers : worker[v].pc = "fetch" /\ Fetching(w, worker[v].slot) => v = w
    /\ \A s \in Updates : /\ blocks[s] <= 1
                          /\ blocks[s] # 0 => s \in announced

\* A retry, and the end of the replay task, had a worker push something.
EndsInv ==
    /\ WorkersEndByRetries
    /\ retryQueue # <<>> => pushed >= 1
    /\ handle /\ ~shutdown /\ websocket /\ ~replay /\ Workers # {} => pushed >= 1

\* The inductive invariant.
BlocksInv == BlocksTypeOK /\ PlacesInv /\ EndsInv

BlocksSpec == BlocksInit /\ [][BlocksStep]_blockVars

-----------------------------------------------------------------------------
(* Slot notifications and leaders: the invariant.                          *)

\* Notifications of slots up to one.
NotesUpTo(slot) == [processed : 0 .. slot, estimated : Nat]

\* The notifier is not ahead of the chain, its estimate by at most MaxAhead; what
\* was sent is not ahead of the notifier.
FeedInv ==
    /\ chain \in Nat /\ updates \in Seq(0 .. chain)
    /\ notifier \in [pc : {"start", "run", "ended"}, current : 0 .. chain, estimated : Nat]
    /\ notifier.estimated >= notifier.current /\ notifier.estimated <= notifier.current + MaxAhead
    /\ sent \in [processed : Nat, estimated : Nat]
    /\ sent.processed <= notifier.current /\ sent.estimated <= notifier.estimated
    /\ notifier.pc = "start" => sent = Note(0, 0)
    /\ inbox \in [Receivers -> Seq(NotesUpTo(chain))]

\* Where the task that asks for leaders stands: the answers are entered from the slot
\* that was asked for, without a gap in the slots to come, and the clean-up stays
\* behind the tracker.
AskInv ==
    /\ slotUpdate \in Nat /\ leaders \in SUBSET Nat /\ asked \in Nat /\ mark \in Nat
    /\ covered \in Nat /\ lags \in Nat
    /\ asked <= slotUpdate
    /\ asking = "store" => mark >= asked /\ (covered >= mark \/ mark = asked)
    /\ asking = "clean" => mark <= slotUpdate

\* The leaders found up to a slot are in order, and none is there twice.
InOrder(found, at) ==
    \A i \in 1 .. Len(found) :
       /\ found[i] < at
       /\ \A j \in 1 .. Len(found) :
             i < j => found[i] < found[j] /\ LeaderOf[found[i]] # LeaderOf[found[j]]

\* The leader of a slot has been found, at that slot or before.
Covers(found, s) ==
    \E i \in 1 .. Len(found) : found[i] <= s /\ LeaderOf[found[i]] = LeaderOf[s]

\* What a reader has found so far.
LookInv ==
    /\ look \in [run : BOOLEAN, from : Nat, at : Nat, found : Seq(Nat), covered : Nat]
    /\ look.covered <= covered
    /\ InOrder(look.found, look.at)
    /\ \A s \in Nat : s >= look.from /\ s < look.at /\ s >= slotUpdate /\ s < look.covered
                         /\ HasContact(s) => Covers(look.found, s)

LeadersInv == AskInv /\ WindowKept /\ LookInv

-----------------------------------------------------------------------------
(* Block polling: what keeps each part of the invariant.                   *)

\* The slots stay where they are, or leave the workers.
LEMMA PlacesFrame ==
    ASSUME PlacesInv, announced \subseteq announced', slotQueue' = slotQueue, blocks' = blocks,
           \A w \in Workers : worker'[w].pc = "fetch" => worker'[w] = worker[w]
    PROVE  PlacesInv'
<1>1. \A w \in Workers : \A s : Fetching(w, s)' => Fetching(w, s)
  BY DEF Fetching
<1>2. \A w \in Workers : worker'[w].pc = "fetch" =>
          worker'[w].slot \in announced' /\ blocks[worker'[w].slot] = 0
  BY DEF PlacesInv
<1>3. \A v, w \in Workers : worker'[v].pc = "fetch" /\ (worker'[w].pc = "fetch" /\ worker'[w].slot = worker'[v].slot)
                                => v = w
  BY DEF PlacesInv, Fetching
<1>4. \A k \in DOMAIN slotQueue : /\ slotQueue[k] \in announced' /\ blocks[slotQueue[k]] = 0
                                  /\ \A w \in Workers : ~Fetching(w, slotQueue[k])'
  BY <1>1 DEF PlacesInv
<1>5. \A s \in Updates : /\ blocks[s] <= 1
                         /\ blocks[s] # 0 => s \in announced'
  BY DEF PlacesInv
<1>6. \A j, k \in DOMAIN slotQueue : slotQueue[j] = slotQueue[k] => j = k
  BY DEF PlacesInv
<1> QED
  BY <1>2, <1>3, <1>4, <1>5, <1>6 DEF PlacesInv, Fetching

\* Nobody ends while somebody listens, the websocket is open and no exit is signalled.
LEMMA EndsFrame ==
    ASSUME EndsInv, handle' => handle, shutdown => shutdown', websocket' => websocket, pushed' = pushed,
           retryQueue' # <<>> => retryQueue # <<>>, replay' => replay,
           handle' /\ ~shutdown' /\ websocket' /\ ~replay' /\ Workers # {} => ~replay \/ pushed >= 1,
           handle' /\ ~shutdown' /\ websocket' => Workers \ Alive' = Workers \ Alive
    PROVE  EndsInv'
<1>1. retryQueue' # <<>> => pushed' >= 1
  BY DEF EndsInv
<1>2. handle' /\ ~shutdown' /\ websocket' /\ ~replay' /\ Workers # {} => pushed' >= 1
  BY DEF EndsInv
<1>3. WorkersEndByRetries'
  BY DEF EndsInv, WorkersEndByRetries
<1> QED
  BY <1>1, <1>2, <1>3 DEF EndsInv

\* The workers that have ended are finitely many.
LEMMA EndedFinite ==
    /\ IsFiniteSet(Workers \ Alive) /\ Cardinality(Workers \ Alive) \in Nat
    /\ Cardinality(Workers \ Alive) = 0 <=> Workers \ Alive = {}
<1>1. IsFiniteSet(Workers)
  BY BlocksAssumption
<1> DEFINE E == Workers \ Alive
<1>2. E \in SUBSET Workers
  OBVIOUS
<1> HIDE DEF E
<1>3. IsFiniteSet(E) /\ Cardinality(E) \in Nat
  BY <1>1, <1>2, FS_Subset, FS_CardinalityType
<1>4. Cardinality(E) = 0 <=> E = {}
  BY <1>3, FS_EmptySet
<1> QED
  BY <1>3, <1>4 DEF E

-----------------------------------------------------------------------------
(* Block polling: the steps.                                               *)

\* The initial states.
LEMMA BlocksInitial == BlocksInit => BlocksInv
<1> SUFFICES ASSUME BlocksInit PROVE BlocksInv
  OBVIOUS
<1>1. BlocksTypeOK
  BY DEF BlocksInit, BlocksTypeOK, BlocksType
<1>2. PlacesInv
  BY DEF BlocksInit, PlacesInv, Fetching
<1>3. EndsInv
  <2>1. Workers \ Alive = {}
    BY DEF BlocksInit, Alive
  <2>2. WorkersEndByRetries
    BY <2>1, EndedFinite DEF WorkersEndByRetries
  <2> QED
    BY <2>2 DEF BlocksInit, EndsInv
<1> QED
  BY <1>1, <1>2, <1>3 DEF BlocksInv

\* Steps that touch neither the slots nor the workers.
LEMMA OthersKeep ==
    ASSUME BlocksInv, Return \/ WebsocketEnds \/ ReplayStep \/ SlotPollerStep \/ NotifyShutdown \/ DropHandle
    PROVE  BlocksInv'
<1> USE DEF BlocksInv
<1>1. UNCHANGED <<scheme, announced, slotQueue, worker, blocks, pushed>>
  BY DEF Return, WebsocketEnds, ReplayStep, Replay, ReplayClosed, SlotPollerStep, SlotPollerError,
         StartSlotPoller, FollowSlot, NotifyShutdown, DropHandle, pollerUnchanged
<1>2. \/ retryQueue' = retryQueue
      \/ retryQueue # <<>> /\ retryQueue' = Tail(retryQueue)
  BY DEF Return, WebsocketEnds, ReplayStep, Replay, ReplayClosed, SlotPollerStep, SlotPollerError,
         StartSlotPoller, FollowSlot, NotifyShutdown, DropHandle, pollerUnchanged
<1>3. retryQueue' \in Seq(RetryType) /\ (retryQueue' # <<>> => retryQueue # <<>>)
  <2> DEFINE S == RetryType
  <2> HIDE DEF S
  <2>1. retryQueue \in Seq(S)
    BY DEF BlocksTypeOK, S
  <2> QED
    BY <1>2, <2>1 DEF S
<1>4. BlocksTypeOK'
  BY <1>1, <1>3 DEF BlocksTypeOK
<1>5. PlacesInv'
  BY <1>1, PlacesFrame
<1>6. (handle' => handle) /\ (shutdown => shutdown') /\ (websocket' => websocket)
  BY DEF Return, WebsocketEnds, ReplayStep, Replay, ReplayClosed, SlotPollerStep, SlotPollerError,
         StartSlotPoller, FollowSlot, NotifyShutdown, DropHandle, pollerUnchanged
<1>7. \/ replay' = replay
      \/ replay /\ retryQueue # <<>>
      \/ replay /\ Alive = {} /\ ~replay' /\ UNCHANGED <<shutdown, handle, websocket>>
  BY DEF Return, WebsocketEnds, ReplayStep, Replay, ReplayClosed, SlotPollerStep, SlotPollerError,
         StartSlotPoller, FollowSlot, NotifyShutdown, DropHandle, pollerUnchanged
<1>8. handle' /\ ~shutdown' /\ websocket' /\ ~replay' /\ Workers # {} => ~replay \/ pushed >= 1
  <2>1. CASE replay' = replay
    BY <2>1
  <2>2. CASE retryQueue # <<>>
    BY <2>2 DEF EndsInv
  <2>3. CASE replay /\ Alive = {} /\ UNCHANGED <<shutdown, handle, websocket>>
    <3>1. handle /\ ~shutdown /\ websocket => Workers \ Alive = {}
      BY <2>3, EndedFinite DEF EndsInv, WorkersEndByRetries
    <3> QED
      BY <2>3, <3>1
  <2> QED
    BY <1>7, <2>1, <2>2, <2>3
<1>9. Alive' = Alive
  BY <1>1 DEF Alive
<1>10. replay' => replay
  BY <1>7
<1>11. EndsInv'
  BY <1>1, <1>3, <1>6, <1>8, <1>9, <1>10, EndsFrame
<1> QED
  BY <1>4, <1>5, <1>11

\* A slot that is announced is new to the queue, the workers and the blocks.
LEMMA AnnounceKeeps ==
    ASSUME BlocksInv, NEW slot \in Updates, Announce(slot)
    PROVE  BlocksInv'
<1> USE DEF BlocksInv
<1>1. UNCHANGED <<shutdown, handle, scheme, returned, worker, retryQueue, replay, blocks, pushed>>
  BY DEF Announce
<1>2. EndsInv'
  <2>1. Alive' = Alive /\ (websocket' => websocket)
    BY <1>1 DEF Alive, Announce
  <2> QED
    BY <1>1, <2>1, EndsFrame
<1>3. CASE UNCHANGED <<announced, slotQueue>>
  <2>1. BlocksTypeOK'
    BY <1>1, <1>3 DEF BlocksTypeOK
  <2>2. PlacesInv'
    BY <1>1, <1>3, PlacesFrame
  <2> QED
    BY <1>2, <2>1, <2>2
<1>4. CASE announced' = announced \cup {slot} /\ slotQueue' = Append(slotQueue, slot)
  <2>1. slot \notin announced
    <3>1. \A a \in announced : a < slot
      BY DEF Announce
    <3>2. slot \in Nat
      BY BlocksAssumption DEF Updates
    <3> QED
      BY <3>1, <3>2
  <2>2. slotQueue \in Seq(Updates) /\ announced \in SUBSET Updates
    BY DEF BlocksTypeOK
  <2>3. /\ slotQueue' \in Seq(Updates) /\ DOMAIN slotQueue' = DOMAIN slotQueue \cup {Len(slotQueue) + 1}
        /\ slotQueue'[Len(slotQueue) + 1] = slot
        /\ \A k \in DOMAIN slotQueue : slotQueue'[k] = slotQueue[k] /\ k # Len(slotQueue) + 1
    <3> DEFINE S == Updates
    <3> HIDE DEF S
    <3>1. slotQueue \in Seq(S) /\ slot \in S
      BY <2>2 DEF S
    <3> QED
      BY <1>4, <3>1 DEF S
  <2>4. BlocksTypeOK'
    BY <1>1, <1>4, <2>2, <2>3 DEF BlocksTypeOK
  <2>5. blocks[slot] = 0 /\ \A w \in Workers : ~Fetching(w, slot)
    BY <2>1 DEF PlacesInv, Fetching
  <2>6. \A k \in DOMAIN slotQueue : slotQueue[k] # slot
    BY <2>1 DEF PlacesInv
  <2>7. \A j, k \in DOMAIN slotQueue' : slotQueue'[j] = slotQueue'[k] => j = k
    BY <2>3, <2>6 DEF PlacesInv
  <2>8. \A w \in Workers : \A s : Fetching(w, s)' <=> Fetching(w, s)
    BY <1>1 DEF Fetching
  <2>9. \A k \in DOMAIN slotQueue' :
            /\ slotQueue'[k] \in announced' /\ blocks'[slotQueue'[k]] = 0
            /\ \A w \in Workers : ~Fetching(w, slotQueue'[k])
    <3> SUFFICES ASSUME NEW k \in DOMAIN slotQueue'
                 PROVE  /\ slotQueue'[k] \in announced' /\ blocks[slotQueue'[k]] = 0
                        /\ \A w \in Workers : ~Fetching(w, slotQueue'[k])
      BY <1>1
    <3>1. CASE k = Len(slotQueue) + 1
      BY <1>4, <2>3, <2>5, <3>1
    <3>2. CASE k \in DOMAIN slotQueue
      BY <1>4, <2>3, <3>2 DEF PlacesInv
    <3> QED
      BY <2>3, <3>1, <3>2
  <2>10. PlacesInv'
    BY <1>1, <1>4, <2>7, <2>9 DEF PlacesInv, Fetching
  <2> QED
    BY <1>2, <2>4, <2>10
<1> QED
  BY <1>3, <1>4 DEF Announce

\* A slot goes from the queue to one worker.
LEMMA ReceiveSlotKeeps ==
    ASSUME BlocksInv, NEW w \in Workers, ReceiveSlot(w)
    PROVE  BlocksInv'
<1> USE DEF BlocksInv
<1> DEFINE s == Head(slotQueue)
<1>1. /\ worker[w].pc = "receive" /\ slotQueue # <<>> /\ slotQueue' = Tail(slotQueue)
      /\ worker' = [worker EXCEPT ![w] = [pc |-> "fetch", slot |-> s]]
      /\ UNCHANGED <<shutdown, handle, scheme, returned, websocket, announced, replay, retryQueue, blocks, pushed>>
  BY DEF ReceiveSlot, workerUnchanged
<1>2. slotQueue \in Seq(Updates)
  BY DEF BlocksTypeOK
<1>3. /\ s = slotQueue[1] /\ 1 \in DOMAIN slotQueue /\ s \in Updates /\ slotQueue' \in Seq(Updates)
      /\ \A k \in DOMAIN slotQueue' : /\ k \in Nat /\ k # 0 /\ k + 1 \in DOMAIN slotQueue
                                      /\ slotQueue'[k] = slotQueue[k + 1]
  <2> DEFINE S == Updates
  <2> HIDE DEF S
  <2>1. slotQueue \in Seq(S)
    BY <1>2 DEF S
  <2> QED
    BY <1>1, <2>1 DEF S
<1> HIDE DEF s
<1>4. s \in Nat
  BY <1>3, BlocksAssumption DEF Updates
<1>5. \A v \in Workers : worker'[v] = IF v = w THEN [pc |-> "fetch", slot |-> s] ELSE worker[v]
  BY <1>1 DEF BlocksTypeOK
<1>6. BlocksTypeOK'
  BY <1>1, <1>3, <1>4 DEF BlocksTypeOK
<1>7. s \in announced /\ blocks[s] = 0 /\ \A v \in Workers : ~Fetching(v, s)
  BY <1>3 DEF PlacesInv
<1>8. \A k \in DOMAIN slotQueue' : slotQueue'[k] # s
  <2>1. \A k \in DOMAIN slotQueue' : slotQueue[k + 1] # slotQueue[1]
    BY <1>3 DEF PlacesInv
  <2> QED
    BY <1>3, <2>1
<1>9. \A v \in Workers : \A x : worker'[v].pc = "fetch" /\ worker'[v].slot = x
                                => IF v = w THEN x = s ELSE Fetching(v, x)
  BY <1>5 DEF Fetching
<1>10. \A j, k \in DOMAIN slotQueue' : slotQueue'[j] = slotQueue'[k] => j = k
  <2> SUFFICES ASSUME NEW j \in DOMAIN slotQueue', NEW k \in DOMAIN slotQueue', slotQueue'[j] = slotQueue'[k]
               PROVE  j = k
    OBVIOUS
  <2>1. j + 1 = k + 1
    BY <1>3 DEF PlacesInv
  <2> QED
    BY <1>3, <2>1
<1>11. \A k \in DOMAIN slotQueue' :
          /\ slotQueue'[k] \in announced' /\ blocks'[slotQueue'[k]] = 0
          /\ \A v \in Workers : ~(worker'[v].pc = "fetch" /\ worker'[v].slot = slotQueue'[k])
  <2> SUFFICES ASSUME NEW k \in DOMAIN slotQueue'
               PROVE  /\ slotQueue'[k] \in announced /\ blocks[slotQueue'[k]] = 0
                      /\ \A v \in Workers : ~(worker'[v].pc = "fetch" /\ worker'[v].slot = slotQueue'[k])
    BY <1>1
  <2>1. slotQueue[k + 1] # s /\ k + 1 \in DOMAIN slotQueue /\ slotQueue'[k] = slotQueue[k + 1]
    BY <1>3, <1>8
  <2> QED
    BY <1>9, <2>1 DEF PlacesInv
<1>12. \A v \in Workers : worker'[v].pc = "fetch" =>
          worker'[v].slot \in announced' /\ blocks'[worker'[v].slot] = 0
  BY <1>1, <1>5, <1>7 DEF PlacesInv
<1>13. \A u, v \in Workers : worker'[u].pc = "fetch" /\ (worker'[v].pc = "fetch" /\ worker'[v].slot = worker'[u].slot)
                                => u = v
  BY <1>5, <1>7 DEF PlacesInv, Fetching
<1>14. PlacesInv'
  BY <1>1, <1>10, <1>11, <1>12, <1>13 DEF PlacesInv, Fetching
<1>15. EndsInv'
  <2>1. Alive' = Alive
    BY <1>1, <1>5 DEF Alive
  <2> QED
    BY <1>1, <2>1, EndsFrame
<1> QED
  BY <1>6, <1>14, <1>15

\* What a worker's own slot becomes when it leaves the request.
LEMMA LeavesParts ==
    ASSUME BlocksTypeOK, NEW w \in Workers, NEW p \in {"receive", "ended"},
           worker' = [worker EXCEPT ![w].pc = p]
    PROVE  /\ worker' \in [Workers -> [pc : {"receive", "fetch", "ended"}, slot : Nat]]
           /\ \A v \in Workers : v # w => worker'[v] = worker[v]
           /\ worker'[w].pc = p
           /\ \A v \in Workers : worker'[v].pc = "fetch" => worker'[v] = worker[v] /\ v # w
BY DEF BlocksTypeOK

\* The channel of slots is closed and empty.
LEMMA ReceiveClosedKeeps ==
    ASSUME BlocksInv, NEW w \in Workers, ReceiveClosed(w)
    PROVE  BlocksInv'
<1> USE DEF BlocksInv
<1>1. /\ ~websocket /\ worker' = [worker EXCEPT ![w].pc = "ended"]
      /\ UNCHANGED <<shutdown, handle, scheme, returned, websocket, announced, slotQueue, replay, retryQueue, blocks,
                     pushed>>
  BY DEF ReceiveClosed, workerUnchanged
<1>2. /\ worker' \in [Workers -> [pc : {"receive", "fetch", "ended"}, slot : Nat]]
      /\ \A v \in Workers : worker'[v].pc = "fetch" => worker'[v] = worker[v]
  BY <1>1, LeavesParts
<1>3. BlocksTypeOK'
  BY <1>1, <1>2 DEF BlocksTypeOK
<1>4. PlacesInv'
  BY <1>1, <1>2, PlacesFrame
<1>5. EndsInv'
  BY <1>1 DEF EndsInv, WorkersEndByRetries
<1> QED
  BY <1>3, <1>4, <1>5

\* A worker that hands a slot on goes on, or ends when the replay task has ended.
LEMMA PushKeeps ==
    ASSUME BlocksInv, NEW w \in Workers, worker[w].pc = "fetch", NEW at \in {"confirmed", "finalized"},
           PushRetry(w, at), UNCHANGED <<shutdown, handle, websocket, replay>>
    PROVE  /\ EndsInv' /\ retryQueue' \in Seq(RetryType) /\ pushed' \in Nat
           /\ \E p \in {"receive", "ended"} : worker' = [worker EXCEPT ![w].pc = p]
<1> USE DEF BlocksInv
<1>1. pushed \in Nat /\ pushed' = pushed + 1 /\ retryQueue \in Seq(RetryType)
  BY DEF PushRetry, BlocksTypeOK
<1>2. worker[w].slot \in Updates
  BY DEF PlacesInv, BlocksTypeOK
<1> DEFINE r == [slot |-> worker[w].slot, at |-> at]
<1>3. r \in RetryType
  BY <1>2 DEF RetryType
<1>4. w \notin Workers \ Alive
  BY DEF Alive
<1>5. WorkersEndByRetries <=>
          (handle /\ ~shutdown /\ websocket => \/ Cardinality(Workers \ Alive) = 0
                                               \/ ~replay /\ Cardinality(Workers \ Alive) < pushed)
  BY DEF WorkersEndByRetries
<1>6. WorkersEndByRetries' <=>
          (handle /\ ~shutdown /\ websocket => \/ Cardinality(Workers \ Alive') = 0
                                               \/ ~replay /\ Cardinality(Workers \ Alive') < pushed + 1)
  BY <1>1 DEF WorkersEndByRetries
<1>7. CASE replay
  <2>1. retryQueue' = Append(retryQueue, r) /\ worker' = [worker EXCEPT ![w].pc = NextRound]
    BY <1>7 DEF PushRetry
  <2>2. NextRound \in {"receive", "ended"} /\ (~shutdown => NextRound = "receive")
    BY DEF NextRound
  <2> HIDE DEF r
  <2>3. retryQueue' \in Seq(RetryType)
    <3> DEFINE S == RetryType
    <3> HIDE DEF S
    <3>1. retryQueue \in Seq(S) /\ r \in S
      BY <1>1, <1>3 DEF S
    <3> QED
      BY <2>1, <3>1 DEF S
  <2>4. ~shutdown => Alive' = Alive
    <3>1. \A v \in Workers : v # w => worker'[v] = worker[v]
      BY <2>1, <2>2, LeavesParts
    <3>2. worker'[w].pc = NextRound
      BY <2>1, <2>2, LeavesParts
    <3> QED
      BY <2>2, <3>1, <3>2 DEF Alive
  <2>5. WorkersEndByRetries'
    BY <1>5, <1>6, <1>7, <2>4 DEF EndsInv
  <2>6. EndsInv'
    BY <1>1, <1>7, <2>5 DEF EndsInv
  <2>7. pushed' \in Nat
    BY <1>1
  <2>8. \E p \in {"receive", "ended"} : worker' = [worker EXCEPT ![w].pc = p]
    BY <2>1, <2>2, Zenon
  <2> QED
    BY <2>3, <2>6, <2>7, <2>8
<1>8. CASE ~replay
  <2>1. worker' = [worker EXCEPT ![w].pc = "ended"] /\ retryQueue' = retryQueue
    BY <1>8 DEF PushRetry
  <2>2. Workers \ Alive' = (Workers \ Alive) \cup {w}
    <3>1. /\ \A v \in Workers : v # w => worker'[v] = worker[v]
          /\ worker'[w].pc = "ended"
      BY <2>1, LeavesParts
    <3> QED
      BY <3>1 DEF Alive
  <2> DEFINE E == Workers \ Alive
             F == Workers \ Alive'
  <2>3. IsFiniteSet(E) /\ Cardinality(E) \in Nat
    BY EndedFinite
  <2>4. F = E \cup {w} /\ w \notin E
    BY <1>4, <2>2
  <2>5. (handle /\ ~shutdown /\ websocket => Cardinality(E) = 0 \/ Cardinality(E) < pushed)
    BY <1>5 DEF EndsInv
  <2>6. handle /\ ~shutdown /\ websocket => pushed >= 1
    BY <1>8 DEF EndsInv
  <2> HIDE DEF E, F
  <2>7. Cardinality(F) = Cardinality(E) + 1
    BY <2>3, <2>4, FS_AddElement
  <2>8. handle /\ ~shutdown /\ websocket => Cardinality(F) < pushed + 1
    BY <1>1, <2>3, <2>5, <2>6, <2>7
  <2>9. WorkersEndByRetries'
    BY <1>6, <1>8, <2>8 DEF F
  <2>10. EndsInv'
    BY <1>1, <2>9 DEF EndsInv
  <2> QED
    BY <1>1, <2>1, <2>10
<1> QED
  BY <1>7, <1>8

\* The block of a slot that was with one worker is broadcast for the first time.
LEMMA FetchedPlaces ==
    ASSUME BlocksInv, NEW w \in Workers, worker[w].pc = "fetch", NEW p \in {"receive", "ended"},
           worker' = [worker EXCEPT ![w].pc = p], UNCHANGED <<announced, slotQueue>>,
           \A s \in Updates : s # worker[w].slot => blocks'[s] = blocks[s],
           blocks'[worker[w].slot] <= 1
    PROVE  PlacesInv'
<1> USE DEF BlocksInv
<1>1. \A v \in Workers : worker'[v].pc = "fetch" => worker'[v] = worker[v] /\ v # w
  BY LeavesParts
<1>2. \A v \in Workers : worker'[v].pc = "fetch" => worker[v].pc = "fetch" /\ worker[v].slot # worker[w].slot
  BY <1>1 DEF PlacesInv, Fetching
<1>3. worker[w].slot \in announced /\ announced \subseteq Updates /\ slotQueue \in Seq(Updates)
  BY DEF PlacesInv, BlocksTypeOK
<1>4. \A k \in DOMAIN slotQueue : slotQueue[k] # worker[w].slot /\ slotQueue[k] \in Updates
  BY <1>3 DEF PlacesInv, Fetching
<1>5. \A j, k \in DOMAIN slotQueue : slotQueue[j] = slotQueue[k] => j = k
  BY DEF PlacesInv
<1>6. \A k \in DOMAIN slotQueue :
          /\ slotQueue[k] \in announced /\ blocks'[slotQueue[k]] = 0
          /\ \A v \in Workers : ~(worker'[v].pc = "fetch" /\ worker'[v].slot = slotQueue[k])
  BY <1>1, <1>4 DEF PlacesInv, Fetching
<1>7. \A v \in Workers : worker'[v].pc = "fetch" =>
          worker'[v].slot \in announced /\ blocks'[worker'[v].slot] = 0
  BY <1>1, <1>2, <1>3 DEF PlacesInv
<1>8. \A u, v \in Workers : worker'[u].pc = "fetch" /\ (worker'[v].pc = "fetch" /\ worker'[v].slot = worker'[u].slot)
                                => u = v
  BY <1>1 DEF PlacesInv, Fetching
<1>9. \A s \in Updates : /\ blocks'[s] <= 1
                         /\ blocks'[s] # 0 => s \in announced
  BY <1>3 DEF PlacesInv
<1> QED
  BY <1>5, <1>6, <1>7, <1>8, <1>9 DEF PlacesInv, Fetching

\* A block arrives.
LEMMA FetchOkKeeps ==
    ASSUME BlocksInv, NEW w \in Workers, FetchOk(w)
    PROVE  BlocksInv'
<1> USE DEF BlocksInv
<1> DEFINE s == worker[w].slot
<1>1. /\ worker[w].pc = "fetch"
      /\ UNCHANGED <<shutdown, handle, scheme, returned, websocket, announced, slotQueue, replay>>
      /\ \/ PushRetry(w, "finalized")
         \/ worker' = [worker EXCEPT ![w].pc = NextRound] /\ UNCHANGED <<retryQueue, pushed>>
      /\ \/ blocks' = [blocks EXCEPT ![s] = @ + 1]
         \/ blocks' = blocks
  BY DEF FetchOk, workerUnchanged
<1>2. s \in Updates /\ blocks[s] = 0
  BY <1>1 DEF PlacesInv, BlocksTypeOK
<1>3. /\ blocks' \in BlocksType /\ \A x \in Updates : x # s => blocks'[x] = blocks[x]
      /\ blocks'[s] <= 1
  <2>1. CASE blocks' = blocks
    BY <1>2, <2>1 DEF BlocksTypeOK
  <2>2. CASE blocks' = [blocks EXCEPT ![s] = @ + 1]
    <3> HIDE DEF s
    <3> QED
      BY <1>2, <2>2 DEF BlocksTypeOK, BlocksType
  <2> QED
    BY <1>1, <2>1, <2>2
<1>4. /\ EndsInv' /\ retryQueue' \in Seq(RetryType) /\ pushed' \in Nat
      /\ \E p \in {"receive", "ended"} : worker' = [worker EXCEPT ![w].pc = p]
  <2>1. CASE PushRetry(w, "finalized")
    BY <1>1, <2>1, PushKeeps
  <2>2. CASE worker' = [worker EXCEPT ![w].pc = NextRound] /\ UNCHANGED <<retryQueue, pushed>>
    <3>1. NextRound \in {"receive", "ended"} /\ (~shutdown => NextRound = "receive")
      BY DEF NextRound
    <3>2. /\ \A v \in Workers : v # w => worker'[v] = worker[v]
          /\ worker'[w].pc = NextRound
      BY <2>2, <3>1, LeavesParts
    <3>3. ~shutdown => Alive' = Alive
      BY <1>1, <3>1, <3>2 DEF Alive
    <3>4. EndsInv'
      BY <1>1, <2>2, <3>3, EndsFrame
    <3> QED
      BY <2>2, <3>1, <3>4 DEF BlocksTypeOK
  <2> QED
    BY <1>1, <2>1, <2>2
<1>5. PICK p \in {"receive", "ended"} : worker' = [worker EXCEPT ![w].pc = p]
  BY <1>4
<1>6. BlocksTypeOK'
  <2>1. worker' \in [Workers -> [pc : {"receive", "fetch", "ended"}, slot : Nat]]
    BY <1>5, LeavesParts
  <2> QED
    BY <1>1, <1>3, <1>4, <2>1 DEF BlocksTypeOK
<1>7. PlacesInv'
  BY <1>1, <1>3, <1>5, FetchedPlaces
<1> QED
  BY <1>4, <1>6, <1>7

\* Nobody receives what the worker sends.
LEMMA FetchUnheardKeeps ==
    ASSUME BlocksInv, NEW w \in Workers, FetchUnheard(w)
    PROVE  BlocksInv'
<1> USE DEF BlocksInv
<1>1. /\ ~handle /\ worker' = [worker EXCEPT ![w].pc = "ended"]
      /\ UNCHANGED <<shutdown, handle, scheme, returned, websocket, announced, slotQueue, replay,
                     retryQueue, blocks, pushed>>
  BY DEF FetchUnheard, workerUnchanged
<1>2. /\ worker' \in [Workers -> [pc : {"receive", "fetch", "ended"}, slot : Nat]]
      /\ \A v \in Workers : worker'[v].pc = "fetch" => worker'[v] = worker[v]
  BY <1>1, LeavesParts
<1>3. BlocksTypeOK'
  BY <1>1, <1>2 DEF BlocksTypeOK
<1>4. PlacesInv'
  BY <1>1, <1>2, PlacesFrame
<1>5. EndsInv'
  BY <1>1 DEF EndsInv, WorkersEndByRetries
<1> QED
  BY <1>3, <1>4, <1>5

\* No block arrives.
LEMMA FetchNoneKeeps ==
    ASSUME BlocksInv, NEW w \in Workers, FetchNone(w)
    PROVE  BlocksInv'
<1> USE DEF BlocksInv
<1>1. /\ worker[w].pc = "fetch" /\ PushRetry(w, "confirmed")
      /\ UNCHANGED <<shutdown, handle, scheme, returned, websocket, announced, slotQueue, replay, blocks>>
  BY DEF FetchNone, workerUnchanged
<1>2. /\ EndsInv' /\ retryQueue' \in Seq(RetryType) /\ pushed' \in Nat
      /\ \E p \in {"receive", "ended"} : worker' = [worker EXCEPT ![w].pc = p]
  BY <1>1, PushKeeps
<1>3. /\ worker' \in [Workers -> [pc : {"receive", "fetch", "ended"}, slot : Nat]]
      /\ \A v \in Workers : worker'[v].pc = "fetch" => worker'[v] = worker[v]
  BY <1>2, LeavesParts
<1>4. BlocksTypeOK'
  BY <1>1, <1>2, <1>3 DEF BlocksTypeOK
<1>5. PlacesInv'
  BY <1>1, <1>3, PlacesFrame
<1> QED
  BY <1>2, <1>4, <1>5

\* Every step keeps the invariant.
LEMMA BlocksStepKeeps == BlocksInv /\ [BlocksStep]_blockVars => BlocksInv'
<1> SUFFICES ASSUME BlocksInv, [BlocksStep]_blockVars PROVE BlocksInv'
  OBVIOUS
<1>1. CASE UNCHANGED blockVars
  <2>1. UNCHANGED <<scheme, returned, websocket, announced, slotQueue, worker, retryQueue, replay, shutdown,
                    handle, blocks, pushed>>
    BY <1>1 DEF blockVars
  <2>2. BlocksTypeOK'
    BY <2>1 DEF BlocksInv, BlocksTypeOK
  <2>3. PlacesInv'
    BY <2>1, PlacesFrame DEF BlocksInv
  <2>4. EndsInv'
    BY <2>1, EndsFrame DEF BlocksInv, Alive
  <2> QED
    BY <2>2, <2>3, <2>4 DEF BlocksInv
<1>2. CASE BlocksStep
  BY <1>2, OthersKeep, AnnounceKeeps, ReceiveSlotKeeps, ReceiveClosedKeeps, FetchOkKeeps,
     FetchUnheardKeeps, FetchNoneKeeps
     DEF BlocksStep, WorkerStep
<1> QED
  BY <1>1, <1>2

\* The invariant holds of every behaviour of the websocket task, the workers, the
\* replay task and the slot poller.
THEOREM BlocksInvHolds == BlocksSpec => []BlocksInv
BY BlocksInitial, BlocksStepKeeps, PTL DEF BlocksSpec

\* The workers of the block stream share one queue of slots, and no announcement
\* has its block broadcast twice, however many workers there are.
THEOREM NoBlockTwice == BlocksSpec => []BlocksOnce
<1>1. BlocksInv => BlocksOnce
  <2> SUFFICES ASSUME BlocksInv, NEW s \in Updates
               PROVE  blocks[s] <= 1
    BY DEF BlocksOnce
  <2> QED
    BY DEF BlocksInv, PlacesInv
<1> QED
  BY <1>1, BlocksInvHolds, PTL

\* While somebody listens, the websocket is open and no exit is signalled, a worker
\* ends only over a slot that it has for a replay task that ended over an earlier one.
THEOREM RetriesEndWorkers == BlocksSpec => []WorkersEndByRetries
<1>1. BlocksInv => WorkersEndByRetries
  BY DEF BlocksInv, EndsInv
<1> QED
  BY <1>1, BlocksInvHolds, PTL

-----------------------------------------------------------------------------
(* Slot notifications.                                                     *)

\* A step of the notifications.
Advances ==
    /\ sent'.processed >= sent.processed /\ sent'.estimated >= sent.estimated
    /\ sent'.processed <= chain
    /\ sent'.estimated \in sent'.processed .. sent'.processed + MaxAhead

\* Elements are appended to a sequence, taken from it, and looked at.
LEMMA SeqParts ==
    ASSUME NEW S, NEW T, S \subseteq T, NEW q \in Seq(S), NEW x \in T
    PROVE  /\ q \in Seq(T) /\ Append(q, x) \in Seq(T) /\ Tail(Append(q, x)) \in Seq(T) /\ <<>> \in Seq(T)
           /\ q # <<>> => Head(q) \in S /\ q[1] \in S /\ Tail(q) \in Seq(S)
<1>1. q \in Seq(T) /\ <<>> \in Seq(T)
  OBVIOUS
<1>2. Append(q, x) \in Seq(T) /\ Append(q, x) # <<>>
  BY <1>1
<1>3. Tail(Append(q, x)) \in Seq(T)
  BY <1>2
<1>4. q # <<>> => Head(q) \in S /\ q[1] \in S /\ Tail(q) \in Seq(S)
  OBVIOUS
<1> QED
  BY <1>1, <1>2, <1>3, <1>4

\* The numbers of the invariant.
LEMMA FeedParts ==
    ASSUME FeedInv
    PROVE  /\ chain \in Nat /\ notifier.current \in Nat /\ notifier.current <= chain
           /\ notifier.estimated \in Nat /\ sent.processed \in Nat /\ sent.estimated \in Nat
           /\ MaxAhead \in Nat
BY FeedAssumption DEF FeedInv

\* The notifier and its receivers stand still.
LEMMA FeedFrame ==
    ASSUME FeedInv, chain' \in Nat, chain' >= chain, UNCHANGED <<notifier, sent>>,
           updates' \in Seq(0 .. chain'), inbox' \in [Receivers -> Seq(NotesUpTo(chain))]
    PROVE  FeedInv'
<1>1. notifier' \in [pc : {"start", "run", "ended"}, current : 0 .. chain', estimated : Nat]
  BY DEF FeedInv
<1>2. \A r \in Receivers : inbox'[r] \in Seq(NotesUpTo(chain'))
  <2> SUFFICES ASSUME NEW r \in Receivers PROVE inbox'[r] \in Seq(NotesUpTo(chain'))
    OBVIOUS
  <2> DEFINE S == NotesUpTo(chain)
             T == NotesUpTo(chain')
  <2>1. S \subseteq T
    BY DEF NotesUpTo, FeedInv
  <2>2. inbox'[r] \in Seq(S)
    OBVIOUS
  <2> HIDE DEF S, T
  <2>3. inbox'[r] \in Seq(T)
    BY <2>1, <2>2
  <2> QED
    BY <2>3 DEF T
<1>3. inbox' \in [Receivers -> Seq(NotesUpTo(chain'))]
  BY <1>2
<1> QED
  BY <1>1, <1>3 DEF FeedInv

\* A notification that is not behind the last one keeps the order.
LEMMA BroadcastKeeps ==
    ASSUME FeedInv, NEW c \in Nat, NEW e \in Nat, c <= chain, c >= notifier.current,
           e >= notifier.estimated, e >= c, e <= c + MaxAhead,
           Broadcast(c, e), chain' = chain, updates' \in Seq(0 .. chain)
    PROVE  FeedInv' /\ [Advances]_sent
<1>1. notifier' = [pc |-> IF listening = {} THEN "ended" ELSE "run", current |-> c, estimated |-> e]
  BY DEF Broadcast
<1>2. /\ chain \in Nat /\ notifier.current \in Nat /\ notifier.current <= chain
      /\ notifier.estimated \in Nat /\ sent.processed \in Nat /\ sent.estimated \in Nat
      /\ MaxAhead \in Nat /\ sent.processed <= notifier.current /\ sent.estimated <= notifier.estimated
  BY FeedParts DEF FeedInv
<1>3. /\ notifier' \in [pc : {"start", "run", "ended"}, current : 0 .. chain, estimated : Nat]
      /\ notifier'.pc # "start" /\ notifier'.current = c /\ notifier'.estimated = e
  BY <1>1, <1>2
<1>4. CASE listening = {}
  <2>1. UNCHANGED <<inbox, sent>>
    BY <1>4 DEF Broadcast
  <2>2. sent.processed <= c /\ sent.estimated <= e
    BY <1>2
  <2> QED
    BY <1>2, <1>3, <2>1, <2>2 DEF FeedInv
<1>5. CASE listening # {}
  <2>1. /\ sent' = Note(c, e)
        /\ inbox' = [r \in Receivers |->
               IF r \notin listening THEN <<>>
               ELSE IF Len(Append(inbox[r], Note(c, e))) > SlotCapacity
                    THEN Tail(Append(inbox[r], Note(c, e))) ELSE Append(inbox[r], Note(c, e))]
    BY <1>5 DEF Broadcast
  <2>2. sent' \in [processed : Nat, estimated : Nat] /\ sent'.processed = c /\ sent'.estimated = e
    BY <2>1 DEF Note
  <2>3. Note(c, e) \in NotesUpTo(chain)
    BY <1>2 DEF Note, NotesUpTo
  <2>4. \A r \in Receivers : inbox[r] \in Seq(NotesUpTo(chain))
    BY DEF FeedInv
  <2>5. \A r \in Receivers : inbox'[r] \in Seq(NotesUpTo(chain))
    <3> DEFINE S == NotesUpTo(chain)
               n == Note(c, e)
    <3>1. n \in S /\ \A r \in Receivers : inbox[r] \in Seq(S)
      BY <2>3, <2>4
    <3>2. \A r \in Receivers : inbox'[r] \in {<<>>, Append(inbox[r], n), Tail(Append(inbox[r], n))}
      BY <2>1
    <3> HIDE DEF S, n
    <3>3. \A r \in Receivers : inbox'[r] \in Seq(S)
      <4> SUFFICES ASSUME NEW r \in Receivers PROVE inbox'[r] \in Seq(S)
        OBVIOUS
      <4>1. inbox[r] \in Seq(S) /\ S \subseteq S
        BY <3>1
      <4>2. Append(inbox[r], n) \in Seq(S) /\ Tail(Append(inbox[r], n)) \in Seq(S) /\ <<>> \in Seq(S)
        BY <3>1, <4>1, SeqParts
      <4> QED
        BY <3>2, <4>2
    <3> QED
      BY <3>3 DEF S
  <2>6. inbox' \in [Receivers -> Seq(NotesUpTo(chain))]
    BY <2>1, <2>5
  <2>7. Advances
    BY <1>2, <2>2 DEF Advances
  <2>8. FeedInv'
    BY <1>2, <1>3, <2>2, <2>6 DEF FeedInv
  <2> QED
    BY <2>7, <2>8
<1> QED
  BY <1>4, <1>5

\* The initial states.
LEMMA FeedInitial == FeedInit => FeedInv
<1> SUFFICES ASSUME FeedInit PROVE FeedInv
  OBVIOUS
<1>1. chain = 0 /\ updates = <<>> /\ sent = Note(0, 0)
  BY DEF FeedInit
<1>2. notifier = [pc |-> "start", current |-> 0, estimated |-> 0]
  BY DEF FeedInit
<1>3. inbox \in [Receivers -> Seq(NotesUpTo(chain))]
  BY DEF FeedInit
<1>4. sent \in [processed : Nat, estimated : Nat] /\ sent.processed = 0 /\ sent.estimated = 0
  BY <1>1 DEF Note
<1> QED
  BY <1>1, <1>2, <1>3, <1>4, FeedAssumption DEF FeedInv

\* The steps of the poller and of the notifier.
LEMMA FeedStepKeeps ==
    ASSUME FeedInv, FeedStep
    PROVE  FeedInv' /\ [Advances]_sent
<1>0. /\ chain \in Nat /\ updates \in Seq(0 .. chain) /\ inbox \in [Receivers -> Seq(NotesUpTo(chain))]
  BY DEF FeedInv
<1>1. CASE NewSlot
  <2>1. chain' = chain + 1 /\ UNCHANGED <<updates, notifier, inbox, sent>>
    BY <1>1 DEF NewSlot
  <2>2. updates \in Seq(0 .. chain + 1)
    <3> DEFINE S == 0 .. chain
               T == 0 .. chain + 1
    <3>1. S \subseteq T /\ updates \in Seq(S)
      BY <1>0
    <3> HIDE DEF S, T
    <3>2. updates \in Seq(T)
      BY <3>1
    <3> QED
      BY <3>2 DEF T
  <2> QED
    BY <1>0, <2>1, <2>2, FeedFrame
<1>2. CASE PollSlot
  <2>1. UNCHANGED <<chain, notifier, inbox, sent>> /\ updates' \in {updates, Append(updates, chain)}
    BY <1>2 DEF PollSlot
  <2>2. updates' \in Seq(0 .. chain)
    <3> DEFINE S == 0 .. chain
    <3>1. updates \in Seq(S) /\ chain \in S
      BY <1>0
    <3> HIDE DEF S
    <3>2. updates' \in Seq(S)
      BY <2>1, <3>1
    <3> QED
      BY <3>2 DEF S
  <2> QED
    BY <1>0, <2>1, <2>2, FeedFrame
<1>3. CASE PollSlotError \/ StopPoller \/ Shutdown
  <2>1. UNCHANGED <<chain, updates, notifier, inbox, sent>>
    BY <1>3 DEF PollSlotError, StopPoller, Shutdown
  <2> QED
    BY <1>0, <2>1, FeedFrame
<1>4. ASSUME NEW slot \in Slots, StartNotifier(slot) PROVE FeedInv' /\ [Advances]_sent
  <2>1. /\ notifier.pc = "start" /\ slot <= chain /\ UNCHANGED <<chain, updates, inbox, sent>>
        /\ notifier' = [pc |-> "run", current |-> slot, estimated |-> slot]
    BY <1>4 DEF StartNotifier
  <2>2. slot \in Nat /\ slot \in 0 .. chain /\ MaxAhead \in Nat
    BY <1>0, <2>1, FeedAssumption DEF Slots
  <2>3. sent.processed = 0 /\ sent.estimated = 0
    BY <2>1 DEF FeedInv, Note
  <2>4. /\ notifier' \in [pc : {"start", "run", "ended"}, current : 0 .. chain, estimated : Nat]
        /\ notifier'.current = slot /\ notifier'.estimated = slot /\ notifier'.pc # "start"
    BY <2>1, <2>2
  <2> QED
    BY <2>1, <2>2, <2>3, <2>4 DEF FeedInv
<1>5. CASE EndNotifier
  <2>1. notifier' = [notifier EXCEPT !.pc = "ended"] /\ UNCHANGED <<chain, updates, inbox, sent>>
    BY <1>5 DEF EndNotifier
  <2>2. /\ notifier' \in [pc : {"start", "run", "ended"}, current : 0 .. chain, estimated : Nat]
        /\ notifier'.current = notifier.current /\ notifier'.estimated = notifier.estimated
        /\ notifier'.pc # "start"
    BY <2>1 DEF FeedInv
  <2> QED
    BY <2>1, <2>2 DEF FeedInv
<1>6. CASE SlotUpdate
  <2> DEFINE slot == Head(updates)
             e == IF slot > notifier.estimated THEN slot ELSE notifier.estimated
  <2>1. /\ updates # <<>> /\ updates' = Tail(updates) /\ chain' = chain
        /\ IF slot > notifier.current THEN Broadcast(slot, e) ELSE UNCHANGED <<notifier, inbox, lagged, sent>>
    BY <1>6 DEF SlotUpdate
  <2>2. slot \in 0 .. chain /\ updates' \in Seq(0 .. chain)
    <3> DEFINE S == 0 .. chain
    <3>1. updates \in Seq(S)
      BY <1>0
    <3> HIDE DEF S
    <3>2. Head(updates) \in S /\ Tail(updates) \in Seq(S)
      BY <2>1, <3>1
    <3> QED
      BY <2>1, <3>2 DEF S
  <2> HIDE DEF slot
  <2>3. CASE slot > notifier.current
    <3>1. /\ chain \in Nat /\ notifier.current \in Nat /\ notifier.current <= chain
          /\ notifier.estimated \in Nat /\ MaxAhead \in Nat
          /\ notifier.estimated >= notifier.current /\ notifier.estimated <= notifier.current + MaxAhead
      BY FeedParts DEF FeedInv
    <3>2. slot \in Nat /\ slot <= chain
      BY <1>0, <2>2
    <3>3. e \in Nat /\ e >= notifier.estimated /\ e >= slot /\ e <= slot + MaxAhead
      BY <2>3, <3>1, <3>2
    <3>4. Broadcast(slot, e)
      BY <2>1, <2>3
    <3> HIDE DEF e
    <3> QED
      BY <2>1, <2>2, <2>3, <3>1, <3>2, <3>3, <3>4, BroadcastKeeps
  <2>4. CASE ~(slot > notifier.current)
    BY <1>0, <2>1, <2>2, <2>4, FeedFrame
  <2> QED
    BY <2>3, <2>4
<1>7. CASE SlotTimeout
  <2>1. /\ notifier.estimated < notifier.current + MaxAhead /\ UNCHANGED <<chain, updates>>
        /\ Broadcast(notifier.current, notifier.estimated + 1)
    BY <1>7 DEF SlotTimeout
  <2>2. /\ chain \in Nat /\ notifier.current \in Nat /\ notifier.current <= chain
        /\ notifier.estimated \in Nat /\ MaxAhead \in Nat
        /\ notifier.estimated >= notifier.current
    BY FeedParts DEF FeedInv
  <2> DEFINE c == notifier.current
             e == notifier.estimated + 1
  <2>3. /\ c \in Nat /\ e \in Nat /\ c <= chain /\ c >= notifier.current /\ e >= notifier.estimated
        /\ e >= c /\ e <= c + MaxAhead /\ Broadcast(c, e)
    BY <2>1, <2>2
  <2> HIDE DEF c, e
  <2> QED
    BY <1>0, <2>1, <2>3, BroadcastKeeps
<1> QED
  BY <1>1, <1>2, <1>3, <1>4, <1>5, <1>6, <1>7 DEF FeedStep

-----------------------------------------------------------------------------
(* The leader tracker.                                                     *)

\* The slots from one on, as a set and as an interval.
LEMMA WindowSets ==
    ASSUME NEW L \in SUBSET Nat, NEW low \in Nat, NEW high \in Nat,
           \A s \in Nat : s >= low => (s \in L <=> s <= high - 1 /\ HasContact(s))
    PROVE  {s \in L : s >= low} = {s \in low .. high - 1 : HasContact(s)}
<1>1. ASSUME NEW s \in L, s >= low PROVE s \in low .. high - 1 /\ HasContact(s)
  BY <1>1
<1>2. ASSUME NEW s \in low .. high - 1, HasContact(s) PROVE s \in L /\ s >= low
  BY <1>2
<1> QED
  BY <1>1, <1>2

\* The window, slot by slot.
LEMMA WindowSlots ==
    ASSUME AskInv, WindowKept
    PROVE  \A s \in Nat : s >= slotUpdate => (s \in leaders <=> s <= covered - 1 /\ HasContact(s))
<1>1. slotUpdate \in Nat /\ covered \in Nat
  BY DEF AskInv
<1>2. {s \in leaders : s >= slotUpdate} = {s \in slotUpdate .. covered - 1 : HasContact(s)}
  BY DEF WindowKept
<1> QED
  BY <1>1, <1>2

\* The bound on the tracker's slot is a number.
LEMMA BoundType ==
    ASSUME NEW c \in Nat, NEW n \in Nat
    PROVE  /\ Offset \in Nat /\ StartSlot(c) \in Nat /\ n * Offset \in Nat
           /\ (n + 1) * Offset = n * Offset + Offset
<1>1. Offset \in Nat
  BY LeadersAssumption
<1>2. n * Offset \in Nat /\ (n + 1) * Offset = n * Offset + Offset
  BY <1>1
<1> QED
  BY <1>1, <1>2 DEF StartSlot

\* A reader keeps what it has found while the tracker moves on and slots are entered.
LEMMA LookFrame ==
    ASSUME AskInv, LookInv, look' = look, slotUpdate' \in Nat, covered' \in Nat,
           slotUpdate' >= slotUpdate, covered' >= covered
    PROVE  LookInv'
<1>1. slotUpdate \in Nat /\ covered \in Nat /\ look.covered \in Nat /\ look.covered <= covered
  BY DEF AskInv, LookInv
<1>2. look.covered <= covered'
  BY <1>1
<1>3. ASSUME NEW s \in Nat, s >= look.from, s < look.at, s >= slotUpdate', s < look.covered, HasContact(s)
      PROVE  Covers(look.found, s)
  <2>1. s >= slotUpdate
    BY <1>1, <1>3
  <2> QED
    BY <1>3, <2>1 DEF LookInv
<1>4. InOrder(look.found, look.at)
  BY DEF LookInv
<1>5. look \in [run : BOOLEAN, from : Nat, at : Nat, found : Seq(Nat), covered : Nat]
  BY DEF LookInv
<1> QED
  BY <1>2, <1>3, <1>4, <1>5 DEF LookInv, InOrder, Covers, HasContact

\* The tracker moves forward, or the chain does.
LEMMA TrackerMoves ==
    ASSUME LeadersInv, UNCHANGED <<leaders, asking, asked, mark, covered, look>>,
           slotUpdate' \in Nat, slotUpdate' >= slotUpdate, lags' \in Nat,
           slotUpdate' <= StartSlot(chain') + lags' * Offset
    PROVE  LeadersInv'
<1>0. AskInv /\ WindowKept /\ LookInv
  BY DEF LeadersInv
<1>1. slotUpdate \in Nat /\ asked \in Nat /\ mark \in Nat /\ covered \in Nat /\ leaders \in SUBSET Nat
  BY <1>0 DEF AskInv
<1>2. {s \in leaders : s >= slotUpdate'} = {s \in slotUpdate' .. covered - 1 : HasContact(s)}
  <2> DEFINE u == slotUpdate'
  <2>1. u \in Nat /\ u >= slotUpdate
    OBVIOUS
  <2> HIDE DEF u
  <2>2. \A s \in Nat : s >= u => s >= slotUpdate
    BY <1>1, <2>1
  <2>3. {s \in leaders : s >= u} = {s \in u .. covered - 1 : HasContact(s)}
    BY <1>0, <1>1, <2>1, <2>2, WindowSets, WindowSlots
  <2> QED
    BY <2>3 DEF u
<1>3. WindowKept'
  BY <1>2 DEF WindowKept, HasContact, StartSlot
<1>4. asked <= slotUpdate' /\ (asking = "clean" => mark <= slotUpdate')
  BY <1>0, <1>1 DEF AskInv
<1>5. AskInv'
  BY <1>0, <1>4 DEF AskInv
<1>6. LookInv'
  BY <1>0, <1>1, LookFrame
<1> QED
  BY <1>3, <1>5, <1>6 DEF LeadersInv

\* The request and its answer, the start of the clean-up.
LEMMA AskKeeps ==
    ASSUME LeadersInv, AskLeaders \/ AskError \/ LeadersAnswered \/ StartCleanUp
    PROVE  LeadersInv'
<1>0. AskInv /\ WindowKept /\ LookInv
  BY DEF LeadersInv
<1>1. UNCHANGED <<chain, slotUpdate, leaders, covered, lags, look>>
  BY DEF AskLeaders, AskError, LeadersAnswered, StartCleanUp, feedVars
<1>2. WindowKept'
  BY <1>0, <1>1 DEF WindowKept, HasContact, StartSlot
<1>3. slotUpdate \in Nat /\ covered \in Nat
  BY <1>0 DEF AskInv
<1>4. LookInv'
  BY <1>0, <1>1, <1>3, LookFrame
<1>5. AskInv'
  BY <1>0, <1>1, <1>3 DEF AskInv, AskLeaders, AskError, LeadersAnswered, StartCleanUp
<1> QED
  BY <1>2, <1>4, <1>5 DEF LeadersInv

\* An entry closes no gap and opens none.
LEMMA StoreLeaderKeeps ==
    ASSUME LeadersInv, StoreLeader
    PROVE  LeadersInv'
<1>0. AskInv /\ WindowKept /\ LookInv
  BY DEF LeadersInv
<1>1. /\ leaders' = IF HasContact(mark) THEN leaders \cup {mark} ELSE leaders
      /\ mark' = mark + 1 /\ covered' = IF mark < covered THEN covered ELSE mark + 1
      /\ UNCHANGED <<chain, slotUpdate, asking, asked, lags, look>>
  BY DEF StoreLeader, feedVars
<1>2. /\ slotUpdate \in Nat /\ asked \in Nat /\ mark \in Nat /\ covered \in Nat /\ lags \in Nat
      /\ leaders \in SUBSET Nat /\ asked <= slotUpdate
      /\ mark >= asked /\ (covered >= mark \/ mark = asked) /\ asking = "store"
  BY <1>0 DEF AskInv, StoreLeader
<1>3. \A s \in Nat : s >= slotUpdate => (s \in leaders <=> s <= covered - 1 /\ HasContact(s))
  BY <1>0, WindowSlots
<1>4. leaders' \in SUBSET Nat /\ covered' \in Nat /\ covered' >= covered /\ covered' >= mark'
  BY <1>1, <1>2
<1>5. {s \in leaders' : s >= slotUpdate} = {s \in slotUpdate .. covered' - 1 : HasContact(s)}
  <2> DEFINE M == leaders'
             c == covered'
  <2>1. M = (IF HasContact(mark) THEN leaders \cup {mark} ELSE leaders)
    BY <1>1
  <2>2. c = (IF mark < covered THEN covered ELSE mark + 1)
    BY <1>1
  <2>3. M \in SUBSET Nat /\ c \in Nat
    BY <1>4
  <2> HIDE DEF M, c
  <2>4. ASSUME NEW s \in Nat, s >= slotUpdate
        PROVE  s \in M <=> s <= c - 1 /\ HasContact(s)
    <3>1. s \in leaders <=> s <= covered - 1 /\ HasContact(s)
      BY <1>3, <2>4
    <3>2. s \in M <=> s \in leaders \/ (s = mark /\ HasContact(mark))
      BY <2>1
    <3>3. s <= c - 1 <=> s <= covered - 1 \/ s = mark
      BY <1>2, <2>2, <2>4
    <3> QED
      BY <3>1, <3>2, <3>3
  <2>5. {s \in M : s >= slotUpdate} = {s \in slotUpdate .. c - 1 : HasContact(s)}
    BY <1>2, <2>3, <2>4, WindowSets
  <2> QED
    BY <2>5 DEF M, c
<1>6. WindowKept'
  BY <1>0, <1>1, <1>5 DEF WindowKept, HasContact, StartSlot
<1>7. AskInv'
  BY <1>1, <1>2, <1>4 DEF AskInv
<1>8. LookInv'
  BY <1>0, <1>1, <1>2, <1>4, LookFrame
<1> QED
  BY <1>6, <1>7, <1>8 DEF LeadersInv

\* Nothing that is still to come is removed.
LEMMA CleanUpKeeps ==
    ASSUME LeadersInv, CleanUp
    PROVE  LeadersInv'
<1>0. AskInv /\ WindowKept /\ LookInv
  BY DEF LeadersInv
<1>1. UNCHANGED <<chain, slotUpdate, asked, covered, lags, look>> /\ asking = "clean"
  BY DEF CleanUp, feedVars
<1>2. /\ slotUpdate \in Nat /\ asked \in Nat /\ mark \in Nat /\ covered \in Nat /\ lags \in Nat
      /\ leaders \in SUBSET Nat /\ asked <= slotUpdate /\ mark <= slotUpdate
  BY <1>0, <1>1 DEF AskInv
<1>3. LookInv'
  BY <1>0, <1>1, <1>2, LookFrame
<1>4. CASE asking' = "idle" /\ mark' = 0 /\ UNCHANGED leaders
  <2>1. AskInv'
    BY <1>1, <1>2, <1>4 DEF AskInv
  <2>2. WindowKept'
    BY <1>0, <1>1, <1>4 DEF WindowKept, HasContact, StartSlot
  <2> QED
    BY <1>3, <2>1, <2>2 DEF LeadersInv
<1>5. CASE /\ \E s \in leaders : s < mark /\ leaders' = leaders \ {s}
           /\ UNCHANGED <<asking, mark>>
  <2>1. PICK t \in leaders : t < mark /\ leaders' = leaders \ {t}
    BY <1>5
  <2>2. {s \in leaders' : s >= slotUpdate} = {s \in leaders : s >= slotUpdate}
    <3>1. t \in Nat /\ ~(t >= slotUpdate)
      BY <1>2, <2>1
    <3> QED
      BY <2>1, <3>1
  <2>3. WindowKept'
    BY <1>0, <1>1, <2>2 DEF WindowKept, HasContact, StartSlot
  <2>4. AskInv'
    BY <1>1, <1>2, <1>5, <2>1 DEF AskInv
  <2> QED
    BY <1>3, <2>3, <2>4 DEF LeadersInv
<1> QED
  BY <1>4, <1>5 DEF CleanUp

\* A reader has passed one more slot.
LEMMA LookAtSlotKeeps ==
    ASSUME LeadersInv, LookAtSlot
    PROVE  LookInv'
<1>0. AskInv /\ WindowKept /\ LookInv
  BY DEF LeadersInv
<1>1. PICK r : r = look
  OBVIOUS
<1>2. /\ r \in [run : BOOLEAN, from : Nat, at : Nat, found : Seq(Nat), covered : Nat]
      /\ r.covered <= covered /\ InOrder(r.found, r.at)
      /\ \A s \in Nat : s >= r.from /\ s < r.at /\ s >= slotUpdate /\ s < r.covered
                           /\ HasContact(s) => Covers(r.found, s)
  BY <1>0, <1>1 DEF LookInv
<1>3. PICK q : q = (IF r.at \in leaders /\ ~Known(LeaderOf[r.at]) THEN Append(r.found, r.at) ELSE r.found)
  OBVIOUS
<1>4. look' = [r EXCEPT !.at = r.at + 1, !.found = q]
  BY <1>1, <1>3 DEF LookAtSlot
<1>5. PICK n \in Nat : n = r.at
  BY <1>2
<1>6. PICK f \in Seq(Nat) : f = r.found
  BY <1>2
<1>7. PICK m \in Nat : m = Len(f)
  BY <1>6
<1>8. Known(LeaderOf[n]) <=> \E i \in 1 .. m : LeaderOf[f[i]] = LeaderOf[n]
  BY <1>1, <1>5, <1>6, <1>7 DEF Known
<1>9. InOrder(f, n)
  BY <1>2, <1>5, <1>6
<1>10. \A i \in 1 .. m : f[i] \in Nat /\ f[i] < n
  BY <1>6, <1>7, <1>9 DEF InOrder
<1>11. /\ q \in Seq(Nat) /\ InOrder(q, n + 1) /\ (n \in leaders => Covers(q, n))
       /\ \A s \in Nat : Covers(f, s) => Covers(q, s)
  <2>1. CASE q = f /\ (n \in leaders => Known(LeaderOf[n]))
    <3>1. InOrder(f, n + 1)
      BY <1>7, <1>9, <1>10 DEF InOrder
    <3>2. n \in leaders => Covers(f, n)
      BY <1>7, <1>8, <1>10, <2>1 DEF Covers
    <3> QED
      BY <1>6, <2>1, <3>1, <3>2
  <2>2. CASE q = Append(f, n) /\ ~Known(LeaderOf[n])
    <3>1. q \in Seq(Nat) /\ Len(q) = m + 1 /\ q[m + 1] = n /\ \A i \in 1 .. m : q[i] = f[i]
      BY <1>5, <1>6, <1>7, <2>2
    <3>2. InOrder(q, n + 1)
      <4> SUFFICES ASSUME NEW i \in 1 .. m + 1
                   PROVE  /\ q[i] < n + 1
                          /\ \A j \in 1 .. m + 1 :
                                i < j => q[i] < q[j] /\ LeaderOf[q[i]] # LeaderOf[q[j]]
        BY <3>1 DEF InOrder
      <4>1. CASE i = m + 1
        BY <1>5, <1>7, <3>1, <4>1
      <4>2. CASE i \in 1 .. m
        <5>1. q[i] = f[i] /\ f[i] \in Nat /\ f[i] < n /\ LeaderOf[f[i]] # LeaderOf[n]
          BY <1>8, <1>10, <2>2, <3>1, <4>2
        <5>2. ASSUME NEW j \in 1 .. m + 1, i < j
              PROVE  q[i] < q[j] /\ LeaderOf[q[i]] # LeaderOf[q[j]]
          <6>1. CASE j = m + 1
            BY <3>1, <5>1, <6>1
          <6>2. CASE j \in 1 .. m
            <7>1. f[i] < f[j] /\ LeaderOf[f[i]] # LeaderOf[f[j]]
              BY <1>7, <1>9, <4>2, <5>2, <6>2 DEF InOrder
            <7> QED
              BY <3>1, <5>1, <6>2, <7>1
          <6> QED
            BY <1>7, <6>1, <6>2
        <5> QED
          BY <1>5, <5>1, <5>2
      <4> QED
        BY <1>7, <4>1, <4>2
    <3>3. Covers(q, n)
      BY <1>5, <1>7, <3>1 DEF Covers
    <3>4. ASSUME NEW s \in Nat, Covers(f, s) PROVE Covers(q, s)
      <4>1. PICK i \in 1 .. m : f[i] <= s /\ LeaderOf[f[i]] = LeaderOf[s]
        BY <1>7, <3>4 DEF Covers
      <4>2. i \in 1 .. Len(q) /\ q[i] = f[i]
        BY <1>7, <3>1
      <4> QED
        BY <4>1, <4>2 DEF Covers
    <3> QED
      BY <3>1, <3>2, <3>3, <3>4
  <2> QED
    BY <1>3, <1>5, <1>6, <2>1, <2>2
<1>12. PICK a \in Nat : a = r.from
  BY <1>2
<1>13. PICK c \in Nat : c = r.covered
  BY <1>2
<1>14. /\ look'.from = a /\ look'.at = n + 1 /\ look'.found = q /\ look'.covered = c
       /\ look' \in [run : BOOLEAN, from : Nat, at : Nat, found : Seq(Nat), covered : Nat]
  <2>1. PICK b \in BOOLEAN : b = r.run
    BY <1>2
  <2>2. r = [run |-> b, from |-> a, at |-> n, found |-> f, covered |-> c]
    BY <1>2, <1>5, <1>6, <1>12, <1>13, <2>1
  <2>3. look' = [run |-> b, from |-> a, at |-> n + 1, found |-> q, covered |-> c]
    BY <1>4, <2>2
  <2>4. n + 1 \in Nat /\ q \in Seq(Nat)
    BY <1>11
  <2> QED
    BY <2>3, <2>4
<1>15. UNCHANGED <<slotUpdate, covered>> /\ slotUpdate \in Nat /\ covered \in Nat
  BY <1>0 DEF LookAtSlot, lookUnchanged, AskInv
<1>16. ASSUME NEW s \in Nat, s >= a, s < n + 1, s >= slotUpdate, s < c, HasContact(s)
       PROVE  Covers(q, s)
  <2>1. CASE s < n
    <3>1. Covers(f, s)
      BY <1>2, <1>5, <1>6, <1>12, <1>13, <1>16, <2>1
    <3> QED
      BY <1>11, <3>1
  <2>2. CASE s = n
    <3>1. s <= covered - 1
      BY <1>2, <1>13, <1>15, <1>16
    <3>2. n \in leaders
      BY <1>0, <1>16, <2>2, <3>1, WindowSlots
    <3> QED
      BY <1>11, <2>2, <3>2
  <2> QED
    BY <1>16, <2>1, <2>2
<1>17. c <= covered
  BY <1>2, <1>13
<1>18. /\ look'.covered <= covered' /\ InOrder(look'.found, look'.at)
       /\ \A s \in Nat : s >= look'.from /\ s < look'.at /\ s >= slotUpdate' /\ s < look'.covered
                           /\ HasContact(s) => Covers(look'.found, s)
  <2>1. InOrder(q, n + 1)
    BY <1>11
  <2> QED
    BY <1>14, <1>15, <1>16, <1>17, <2>1
<1> QED
  BY <1>14, <1>18 DEF LookInv, InOrder, Covers, HasContact

\* The reader's steps change nothing but what it has found.
LEMMA LookKeeps ==
    ASSUME LeadersInv, StartLook \/ LookAtSlot \/ EndLook
    PROVE  LeadersInv'
<1>0. AskInv /\ WindowKept /\ LookInv
  BY DEF LeadersInv
<1>1. UNCHANGED <<chain, slotUpdate, leaders, asking, asked, mark, covered, lags>>
  BY DEF StartLook, LookAtSlot, EndLook, lookUnchanged, feedVars
<1>2. AskInv' /\ WindowKept'
  BY <1>0, <1>1 DEF AskInv, WindowKept, HasContact, StartSlot
<1>3. LookInv'
  <2>1. CASE StartLook \/ EndLook
    <3>1. PICK a \in Nat, c \in Nat, b \in BOOLEAN :
             look' = [run |-> b, from |-> a, at |-> a, found |-> <<>>, covered |-> c] /\ c <= covered
      <4>1. slotUpdate \in Nat /\ covered \in Nat /\ covered <= covered /\ 0 <= covered
        BY <1>0 DEF AskInv
      <4>2. CASE StartLook
        BY <4>1, <4>2 DEF StartLook
      <4>3. CASE EndLook
        BY <4>1, <4>3 DEF EndLook, NoLook
      <4> QED
        BY <2>1, <4>2, <4>3
    <3>2. <<>> \in Seq(Nat) /\ Len(<<>>) = 0
      OBVIOUS
    <3>3. InOrder(<<>>, a)
      BY <3>2 DEF InOrder
    <3>4. /\ look'.from = a /\ look'.at = a /\ look'.found = <<>> /\ look'.covered = c
          /\ look' \in [run : BOOLEAN, from : Nat, at : Nat, found : Seq(Nat), covered : Nat]
      BY <3>1, <3>2
    <3>5. \A s \in Nat : ~(s >= a /\ s < a)
      OBVIOUS
    <3>6. /\ look'.covered <= covered' /\ InOrder(look'.found, look'.at)
          /\ \A s \in Nat : ~(s >= look'.from /\ s < look'.at)
      BY <1>1, <3>1, <3>3, <3>4, <3>5
    <3> QED
      BY <3>4, <3>6 DEF LookInv, InOrder, Covers, HasContact
  <2>2. CASE LookAtSlot
    BY <2>2, LookAtSlotKeeps
  <2> QED
    BY <2>1, <2>2
<1> QED
  BY <1>2, <1>3 DEF LeadersInv

\* The initial states.
LEMMA LeadersInitial == FeedInit /\ LeadersInit => LeadersInv
<1> SUFFICES ASSUME FeedInit, LeadersInit PROVE LeadersInv
  OBVIOUS
<1>1. /\ slotUpdate = StartSlot(0) /\ asked = StartSlot(0) /\ mark = 0 /\ asking = "idle"
      /\ leaders = {s \in StartSlot(0) .. StartSlot(0) + Window - 1 : HasContact(s)}
      /\ covered = StartSlot(0) + Window /\ lags = 0 /\ chain = 0 /\ look = NoLook
  BY DEF FeedInit, LeadersInit
<1>2. StartSlot(0) \in Nat /\ Window \in Nat /\ Offset \in Nat /\ lags * Offset \in Nat
  BY <1>1, LeadersAssumption, BoundType
<1>3. leaders \in SUBSET Nat
  BY <1>1, <1>2
<1>4. {s \in leaders : s >= slotUpdate} = {s \in slotUpdate .. covered - 1 : HasContact(s)}
  BY <1>1, <1>2
<1>5. WindowKept
  BY <1>1, <1>2, <1>4 DEF WindowKept
<1>6. AskInv
  BY <1>1, <1>2, <1>3 DEF AskInv
<1>7. LookInv
  <2>1. <<>> \in Seq(Nat) /\ Len(<<>>) = 0
    OBVIOUS
  <2>2. /\ look.from = 0 /\ look.at = 0 /\ look.found = <<>> /\ look.covered = 0
        /\ look \in [run : BOOLEAN, from : Nat, at : Nat, found : Seq(Nat), covered : Nat]
    BY <1>1, <2>1 DEF NoLook
  <2>3. InOrder(<<>>, 0)
    BY <2>1 DEF InOrder
  <2>4. look.covered <= covered /\ InOrder(look.found, look.at)
    BY <1>1, <1>2, <2>2, <2>3
  <2>5. \A s \in Nat : ~(s >= look.from /\ s < look.at)
    BY <2>2
  <2> QED
    BY <2>2, <2>4, <2>5 DEF LookInv
<1> QED
  BY <1>5, <1>6, <1>7 DEF LeadersInv

\* The steps of the tracker.
LEMMA LeadersStepKeeps ==
    ASSUME FeedInv, LeadersInv, LeadersStep
    PROVE  FeedInv' /\ LeadersInv' /\ sent' = sent
<1>0. /\ chain \in Nat /\ updates \in Seq(0 .. chain) /\ inbox \in [Receivers -> Seq(NotesUpTo(chain))]
      /\ "leaders" \in Receivers /\ lags \in Nat /\ slotUpdate \in Nat
      /\ slotUpdate <= StartSlot(chain) + lags * Offset
  BY LeadersAssumption DEF FeedInv, LeadersInv, AskInv, WindowKept
<1>1. /\ Offset \in Nat /\ StartSlot(chain) \in Nat /\ lags * Offset \in Nat
      /\ (lags + 1) * Offset = lags * Offset + Offset
  BY <1>0, BoundType
<1>2. CASE TrackSlot
  <2> DEFINE q == inbox["leaders"]
             p == q[1].processed
  <2>1. /\ q # <<>> /\ inbox' = [inbox EXCEPT !["leaders"] = Tail(@)]
        /\ UNCHANGED <<chain, updates, notifier, sent, leaders, asking, asked, mark, covered, lags, look>>
        /\ slotUpdate' = IF StartSlot(p) > slotUpdate THEN StartSlot(p) ELSE slotUpdate
    BY <1>2 DEF TrackSlot, Received, Advance
  <2>2. q[1] \in NotesUpTo(chain) /\ Tail(q) \in Seq(NotesUpTo(chain))
    <3> DEFINE S == NotesUpTo(chain)
    <3>1. q \in Seq(S)
      BY <1>0
    <3> HIDE DEF S, q
    <3>2. q[1] \in S /\ Tail(q) \in Seq(S)
      BY <2>1, <3>1
    <3> QED
      BY <3>2 DEF S
  <2>3. p \in Nat /\ p <= chain
    BY <1>0, <2>2 DEF NotesUpTo
  <2>4. inbox' \in [Receivers -> Seq(NotesUpTo(chain))]
    BY <1>0, <2>1, <2>2
  <2> HIDE DEF q, p
  <2>5. /\ slotUpdate' \in Nat /\ slotUpdate' >= slotUpdate
        /\ slotUpdate' <= StartSlot(chain) + lags * Offset
    <3> DEFINE k == lags * Offset
    <3>1. k \in Nat /\ slotUpdate <= StartSlot(chain) + k
      BY <1>0, <1>1
    <3> HIDE DEF k
    <3>2. /\ slotUpdate' \in Nat /\ slotUpdate' >= slotUpdate
          /\ slotUpdate' <= StartSlot(chain) + k
      BY <1>0, <1>1, <2>1, <2>3, <3>1 DEF StartSlot
    <3> QED
      BY <3>2 DEF k
  <2>6. FeedInv'
    BY <1>0, <2>1, <2>4, FeedFrame
  <2>7. LeadersInv'
    BY <1>0, <2>1, <2>5, TrackerMoves
  <2> QED
    BY <2>1, <2>6, <2>7
<1>3. CASE TrackLag
  <2>1. /\ UNCHANGED <<chain, updates, notifier, inbox, sent, leaders, asking, asked, mark, covered, look>>
        /\ lags' = lags + 1
        /\ slotUpdate' = IF StartSlot(slotUpdate) > slotUpdate THEN StartSlot(slotUpdate) ELSE slotUpdate
    BY <1>3 DEF TrackLag, Lagged, Advance
  <2>2. /\ slotUpdate' \in Nat /\ slotUpdate' >= slotUpdate /\ lags' \in Nat
        /\ slotUpdate' <= StartSlot(chain) + (lags * Offset + Offset)
    BY <1>0, <1>1, <2>1 DEF StartSlot
  <2>3. slotUpdate' <= StartSlot(chain') + lags' * Offset
    BY <1>1, <2>1, <2>2
  <2>4. FeedInv'
    BY <1>0, <2>1, FeedFrame
  <2>5. LeadersInv'
    BY <2>1, <2>2, <2>3, TrackerMoves
  <2> QED
    BY <2>1, <2>4, <2>5
<1>4. CASE TrackClosed
  <2>1. UNCHANGED <<chain, updates, notifier, inbox, sent, leaderVars>>
    BY <1>4 DEF TrackClosed, Closed
  <2>2. UNCHANGED <<slotUpdate, leaders, asking, asked, mark, covered, lags, look>>
    BY <2>1 DEF leaderVars
  <2> QED
    BY <1>0, <2>1, <2>2, FeedFrame, TrackerMoves
<1>5. CASE \/ AskLeaders \/ AskError \/ LeadersAnswered \/ StartCleanUp \/ StoreLeader \/ CleanUp
           \/ StartLook \/ LookAtSlot \/ EndLook
  <2>1. UNCHANGED <<chain, updates, notifier, inbox, sent>>
    BY <1>5 DEF AskLeaders, AskError, LeadersAnswered, StartCleanUp, StoreLeader, CleanUp,
                StartLook, LookAtSlot, EndLook, lookUnchanged, feedVars
  <2>2. LeadersInv'
    BY <1>5, AskKeeps, StoreLeaderKeeps, CleanUpKeeps, LookKeeps
  <2> QED
    BY <1>0, <2>1, <2>2, FeedFrame
<1> QED
  BY <1>2, <1>3, <1>4, <1>5 DEF LeadersStep

\* The notifications and the tracker.
TrackerNext == (FeedStep /\ UNCHANGED leaderVars) \/ LeadersStep

\* Every step keeps both invariants and the order of the notifications.
LEMMA TrackerStep ==
    FeedInv /\ LeadersInv /\ [TrackerNext]_<<feedVars, leaderVars>>
        => FeedInv' /\ LeadersInv' /\ [Advances]_sent
<1> SUFFICES ASSUME FeedInv, LeadersInv, [TrackerNext]_<<feedVars, leaderVars>>
             PROVE  FeedInv' /\ LeadersInv' /\ [Advances]_sent
  OBVIOUS
<1>0. /\ chain \in Nat /\ updates \in Seq(0 .. chain) /\ inbox \in [Receivers -> Seq(NotesUpTo(chain))]
      /\ lags \in Nat /\ slotUpdate \in Nat /\ slotUpdate <= StartSlot(chain) + lags * Offset
  BY DEF FeedInv, LeadersInv, AskInv, WindowKept
<1>1. CASE UNCHANGED <<feedVars, leaderVars>>
  <2>1. UNCHANGED <<chain, updates, notifier, inbox, sent, slotUpdate, leaders, asking, asked, mark,
                  covered, lags, look>>
    BY <1>1 DEF feedVars, leaderVars
  <2> QED
    BY <1>0, <2>1, FeedFrame, TrackerMoves
<1>2. CASE FeedStep /\ UNCHANGED leaderVars
  <2>1. UNCHANGED <<slotUpdate, leaders, asking, asked, mark, covered, lags, look>>
    BY <1>2 DEF leaderVars
  <2>2. FeedInv' /\ [Advances]_sent
    BY <1>2, FeedStepKeeps
  <2>3. chain' \in {chain, chain + 1}
    BY <1>2 DEF FeedStep, NewSlot, PollSlot, PollSlotError, StopPoller, StartNotifier, EndNotifier,
                SlotUpdate, SlotTimeout, Shutdown
  <2>4. slotUpdate <= StartSlot(chain') + lags * Offset
    <3>1. Offset \in Nat /\ lags * Offset \in Nat
      BY <1>0, BoundType
    <3> DEFINE k == lags * Offset
    <3>2. k \in Nat /\ Offset \in Nat /\ chain \in Nat /\ slotUpdate \in Nat /\ slotUpdate <= chain + Offset + k
      BY <1>0, <3>1 DEF StartSlot
    <3> HIDE DEF k
    <3>3. slotUpdate <= chain' + Offset + k
      <4>1. CASE chain' = chain
        BY <3>2, <4>1
      <4>2. CASE chain' = chain + 1
        BY <3>2, <4>2
      <4> QED
        BY <2>3, <4>1, <4>2
    <3> QED
      BY <3>3 DEF k, StartSlot
  <2>5. LeadersInv'
    BY <1>0, <2>1, <2>4, TrackerMoves
  <2> QED
    BY <2>2, <2>5
<1>3. CASE LeadersStep
  BY <1>3, LeadersStepKeeps
<1> QED
  BY <1>1, <1>2, <1>3 DEF TrackerNext

TrackerSpec == FeedInit /\ LeadersInit /\ [][TrackerNext]_<<feedVars, leaderVars>>

\* The invariants hold of every behaviour of the poller, the notifier and the
\* leader tracker.
THEOREM TrackerInvHolds == TrackerSpec => [](FeedInv /\ LeadersInv)
BY FeedInitial, LeadersInitial, TrackerStep, PTL DEF TrackerSpec

\* Slot notifications never go back, whichever of timeouts and updates comes
\* first, and the estimate stays within MaxAhead of a slot the chain has reached.
THEOREM SlotsAdvance == TrackerSpec => NotificationsAdvance
<1>1. FeedInv /\ LeadersInv /\ [TrackerNext]_<<feedVars, leaderVars>>
        => [/\ sent'.processed >= sent.processed /\ sent'.estimated >= sent.estimated
            /\ sent'.processed <= chain
            /\ sent'.estimated \in sent'.processed .. sent'.processed + MaxAhead]_sent
  BY TrackerStep DEF Advances
<1> QED
  BY <1>1, TrackerInvHolds, PTL DEF TrackerSpec, NotificationsAdvance

-----------------------------------------------------------------------------
(* The leaders to forward to.                                              *)

\* What get_leaders finds is right whenever the window is.
LEMMA LeadersFound == LeadersInv => LeaderWindow
<1> SUFFICES ASSUME LeadersInv PROVE LeaderWindow
  OBVIOUS
<1>0. AskInv /\ WindowKept /\ LookInv
  BY DEF LeadersInv
<1>1. /\ look.from \in Nat /\ look.at \in Nat /\ look.found \in Seq(Nat)
      /\ InOrder(look.found, look.at)
      /\ \A s \in Nat : s >= look.from /\ s < look.at /\ s >= slotUpdate /\ s < look.covered
                           /\ HasContact(s) => Covers(look.found, s)
  BY <1>0 DEF LookInv
<1>2. PICK a \in Nat : a = look.from
  BY <1>1
<1>3. PICK n \in Nat : n = look.at
  BY <1>1
<1>4. ASSUME NEW s \in a .. n - 1, s >= slotUpdate, s < look.covered, HasContact(s)
      PROVE  Covers(look.found, s)
  <2>1. s \in Nat /\ s >= a /\ s < n
    OBVIOUS
  <2> QED
    BY <1>1, <1>2, <1>3, <1>4, <2>1
<1>5. \A i, j \in 1 .. Len(look.found) :
         i < j => /\ look.found[i] < look.found[j]
                  /\ LeaderOf[look.found[i]] # LeaderOf[look.found[j]]
  BY <1>1 DEF InOrder
<1> QED
  BY <1>0, <1>2, <1>3, <1>4, <1>5 DEF LeaderWindow, Covers

\* At every moment the window holds the leaders of all slots to come that have been
\* entered, though entries come and go one by one; and a reader that walks over it
\* meanwhile finds leaders in the order of their slots, none twice, and misses none
\* that was there when it began and is still to come.
THEOREM LeadersInOrder == TrackerSpec => []LeaderWindow
<1>1. LeadersInv => LeaderWindow
  BY LeadersFound
<1> QED
  BY <1>1, TrackerInvHolds, PTL
=============================================================================
