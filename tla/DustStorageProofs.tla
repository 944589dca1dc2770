------------------------- MODULE DustStorageProofs -------------------------
(***************************************************************************)
(* Proofs about what becomes of a confirmed copy, for every set of copies, *)
(* size of a dust transaction and number of errors and crashes: what is    *)
(* stored when the process has crashed, and how dust leaves its list.      *)
(***************************************************************************)
EXTENDS DustStorage, AmountFacts, TLAPS

-----------------------------------------------------------------------------
(* The invariant.                                                          *)

StoringType == [trade : Trades \cup {None}, step : {"idle", "store", "exec", "link", "dust"}, origin : Nat]
RowType == [trade : Trades, volume : Nat]

\* The type invariant of what the proofs are about.
DustTypeOK ==
    /\ kind \in {"file", "postgres"} /\ status \in {"up", "down", "failed"}
    /\ queue \in Seq(Trades) /\ storing \in StoringType
    /\ storing.step # "idle" => storing.trade \in Trades
    /\ files \in [whole : SUBSET Trades, torn : BOOLEAN] /\ rows \in Seq(RowType)
    /\ links \in SUBSET [exec : Nat, origin : Nat]
    /\ done \in SUBSET Trades /\ IsFiniteSet(done) /\ lost \in SUBSET Trades
    /\ dust \in Seq(Trades) /\ sweep \in Nat /\ swept \in [Trades -> Nat]

\* The database task is at work on a copy, and has not stored it.
Storing(i) == storing.step \in {"store", "exec", "link"} /\ storing.trade = i

\* A copy is on its way to the storage.
Waiting(i) == Storing(i) \/ \E j \in DOMAIN queue : queue[j] = i

\* A copy is stored: its file is whole, or its two rows are linked.
Stored(i) == IF kind = "file" THEN i \in files.whole ELSE \E l \in links : rows[l.origin].trade = i

\* A confirmed copy is in one place: on its way, stored, or lost.
PlaceInv ==
    /\ \A i \in Trades : i \in done <=> Waiting(i) \/ Stored(i) \/ i \in lost
    /\ \A i \in Trades : /\ ~(Waiting(i) /\ Stored(i))
                         /\ ~(Waiting(i) /\ i \in lost) /\ ~(Stored(i) /\ i \in lost)
    /\ \A j, k \in DOMAIN queue : queue[j] = queue[k] => j = k
    /\ \A j \in DOMAIN queue : ~Storing(queue[j])
    /\ status # "up" => queue = <<>> /\ storing = Idle

\* Two rows that are linked are the two sides of one copy, and a copy has one link.
LinksMatch ==
    /\ \A l \in links :
          /\ l.exec \in DOMAIN rows /\ l.origin \in DOMAIN rows
          /\ rows[l.exec].trade = rows[l.origin].trade
          /\ rows[l.origin].volume = Trade[rows[l.origin].trade].origin
          /\ rows[l.exec].volume = Trade[rows[l.origin].trade].exec
    /\ \A l, m \in links : rows[l.origin].trade = rows[m.origin].trade => l = m

\* The rows of the copy that is being stored.
RowsInv ==
    /\ LinksMatch
    /\ storing.step \in {"exec", "link"} =>
          /\ kind = "postgres" /\ storing.origin \in DOMAIN rows
          /\ rows[storing.origin].trade = storing.trade
          /\ rows[storing.origin].volume = Trade[storing.trade].origin
    /\ storing.step = "link" =>
          /\ rows # <<>> /\ rows[Len(rows)].trade = storing.trade
          /\ rows[Len(rows)].volume = Trade[storing.trade].exec

\* process_dust has sent the chunks behind it.
SweepInv ==
    sweep > 0 => \A j \in DOMAIN dust : (j - 1) \div ChunkSize + 1 < sweep => swept[dust[j]] > 0

\* A history that was just rebuilt has nothing on its way.
FreshInv ==
    fresh => /\ status = "up" /\ queue = <<>> /\ storing = Idle
             /\ RebuiltFromCopies

\* The inductive invariant.
DustInv == DustTypeOK /\ PlaceInv /\ RowsInv /\ SweepInv /\ FreshInv

\* When the process has crashed, what a restart finds stored is what was confirmed
\* and not lost; rows that are linked belong to one copy, and a copy has one link.
StoredAreCopies ==
    status = "down" => (\A i \in Trades : Stored(i) <=> i \in done \ lost) /\ LinksMatch

-----------------------------------------------------------------------------
(* Lemmas about the model's operators.                                     *)

\* Every element of a list is in one of its chunks: the last chunk, Chunks of the
\* model, is not behind it.
LEMMA ChunkOfElement ==
    ASSUME NEW C \in Nat \ {0}, NEW L \in Nat, NEW j \in 1 .. L
    PROVE  /\ (j - 1) \div C \in Nat
           /\ (j - 1) \div C + 1 <= (L + C - 1) \div C
<1>1. /\ (j - 1) \div C \in Nat /\ ((j - 1) % C) \in 0 .. C - 1
      /\ j - 1 = C * ((j - 1) \div C) + ((j - 1) % C)
  OBVIOUS
<1>2. /\ (L + C - 1) \div C \in Nat /\ ((L + C - 1) % C) \in 0 .. C - 1
      /\ L + C - 1 = C * ((L + C - 1) \div C) + ((L + C - 1) % C)
  OBVIOUS
<1> DEFINE a == (j - 1) \div C
           b == (L + C - 1) \div C
           r == (j - 1) % C
           q == (L + C - 1) % C
<1>3. /\ a \in Nat /\ b \in Nat /\ r \in 0 .. C - 1 /\ q \in 0 .. C - 1
      /\ j - 1 = C * a + r /\ L + C - 1 = C * b + q
  BY <1>1, <1>2
<1> HIDE DEF a, b, r, q
<1>4. a + 1 <= b
  <2> SUFFICES ASSUME b <= a PROVE FALSE
    BY <1>3
  <2>1. PICK d \in Nat : a = b + d
    BY <1>3
  <2>2. C * a = C * b + C * d /\ C * d \in Nat /\ C * b \in Nat
    BY <1>3, <2>1
  <2> DEFINE k == C * d
             m == C * b
  <2>3. k \in Nat /\ m \in Nat /\ j - 1 = m + k + r /\ L + C - 1 = m + q
    BY <1>3, <2>2
  <2> HIDE DEF k, m
  <2>4. QED
    BY <1>3, <2>3
<1>5. QED
  BY <1>3, <1>4 DEF a, b

-----------------------------------------------------------------------------
(* The initial states.                                                     *)

LEMMA DustInitial == Init => DustInv
<1> SUFFICES ASSUME Init PROVE DustInv
  OBVIOUS
<1> USE DEF Init
<1>1. DustTypeOK
  BY ConstantsAssumption, FS_EmptySet DEF DustTypeOK, StoringType, Idle
<1>2. PlaceInv
  BY DEF PlaceInv, Waiting, Storing, Stored, Idle
<1>3. RowsInv
  BY DEF RowsInv, LinksMatch, Idle
<1>4. SweepInv /\ FreshInv
  BY DEF SweepInv, FreshInv, RebuiltFromCopies
<1>5. QED
  BY <1>1, <1>2, <1>3, <1>4 DEF DustInv

-----------------------------------------------------------------------------
(* The main task.                                                          *)

LEMMA InsertTradeKeeps ==
    ASSUME DustInv, NEW i \in Trades, InsertTrade(i) PROVE DustInv'
<1> USE DEF DustInv
<1>1. /\ i \in Trades /\ i \notin done /\ status = "up" /\ sweep = 0
      /\ queue' = Append(queue, i) /\ done' = done \cup {i} /\ ~fresh'
      /\ UNCHANGED <<kind, status, storing, files, rows, links, dust, sweep, swept, lost>>
  BY DEF InsertTrade, MainIdle, storeVars
<1>2. DustTypeOK'
  BY <1>1, FS_AddElement DEF DustTypeOK
<1>3. /\ queue \in Seq(Trades)
      /\ \A k \in Trades : Waiting(k)' <=> Waiting(k) \/ k = i
  <2>1. queue \in Seq(Trades)
    BY DEF DustTypeOK
  <2>2. \A k \in Trades : (\E j \in DOMAIN queue' : queue'[j] = k) <=> (\E j \in DOMAIN queue : queue[j] = k) \/ k = i
    <3>1. \A j \in DOMAIN queue : j \in DOMAIN queue' /\ queue'[j] = queue[j]
      BY <1>1, <2>1
    <3>2. Len(queue) + 1 \in DOMAIN queue' /\ queue'[Len(queue) + 1] = i
      BY <1>1, <2>1
    <3>3. \A j \in DOMAIN queue' : j \in DOMAIN queue \/ j = Len(queue) + 1
      BY <1>1, <2>1
    <3>4. QED
      BY <3>1, <3>2, <3>3
  <2>3. \A k : Storing(k)' <=> Storing(k)
    BY <1>1 DEF Storing
  <2>4. QED
    BY <2>1, <2>2, <2>3 DEF Waiting
<1>4. \A k \in Trades : Stored(k)' <=> Stored(k)
  BY <1>1 DEF Stored
<1>5. ~Waiting(i) /\ ~Stored(i) /\ i \notin lost
  BY <1>1 DEF PlaceInv
<1>6. PlaceInv'
  <2>1. \A k \in Trades : k \in done' <=> Waiting(k)' \/ Stored(k)' \/ k \in lost'
    BY <1>1, <1>3, <1>4 DEF PlaceInv
  <2>2. \A k \in Trades : /\ ~(Waiting(k)' /\ Stored(k)')
                          /\ ~(Waiting(k)' /\ k \in lost') /\ ~(Stored(k)' /\ k \in lost')
    BY <1>1, <1>3, <1>4, <1>5 DEF PlaceInv
  <2>3. \A j \in DOMAIN queue : queue[j] # i
    BY <1>5 DEF Waiting
  <2>4. ~Storing(i)
    BY <1>5 DEF Waiting
  <2>5. \A j, k \in DOMAIN queue' : queue'[j] = queue'[k] => j = k
    BY <1>1, <1>3, <2>3 DEF PlaceInv
  <2>6. \A j \in DOMAIN queue' : ~Storing(queue'[j])
    BY <1>1, <1>3, <2>4 DEF PlaceInv
  <2>7. \A j \in DOMAIN queue' : ~Storing(queue[j])'
    BY <1>1, <2>6 DEF Storing
  <2>8. QED
    BY <1>1, <2>1, <2>2, <2>5, <2>7 DEF PlaceInv
<1>7. RowsInv'
  BY <1>1 DEF RowsInv, LinksMatch
<1>8. SweepInv' /\ FreshInv'
  BY <1>1 DEF SweepInv, FreshInv, RebuiltFromCopies
<1>9. QED
  BY <1>2, <1>6, <1>7, <1>8

\* Steps that change neither the storage nor what is on its way to it.
LEMMA PlacesKept ==
    ASSUME PlaceInv, RowsInv,
           UNCHANGED <<kind, status, queue, storing, files, rows, links, done, lost>>
    PROVE  PlaceInv' /\ RowsInv'
<1>1. \A k : (Waiting(k)' <=> Waiting(k)) /\ (Stored(k)' <=> Stored(k)) /\ (Storing(k)' <=> Storing(k))
  BY DEF Waiting, Stored, Storing
<1>2. PlaceInv'
  BY <1>1 DEF PlaceInv, Storing
<1>3. RowsInv'
  BY DEF RowsInv, LinksMatch
<1>4. QED
  BY <1>2, <1>3

\* The history is changed by the main task alone: it is no longer as rebuilt.
LEMMA HistoryKeeps ==
    ASSUME DustInv, NEW t \in Tokens, ForgetHistory(t) \/ FailedExecution(t) PROVE DustInv'
<1> USE DEF DustInv
<1>1. /\ ~fresh'
      /\ UNCHANGED <<kind, status, queue, storing, files, rows, links, done, lost, dust, sweep, swept>>
  BY DEF ForgetHistory, FailedExecution, storeVars, ghostVars
<1>2. DustTypeOK'
  BY <1>1 DEF DustTypeOK
<1>3. SweepInv' /\ FreshInv'
  BY <1>1 DEF SweepInv, FreshInv, RebuiltFromCopies
<1>4. QED
  BY <1>1, <1>2, <1>3, PlacesKept

\* The chunk of an element, counted from one.
ChunkOf(j) == (j - 1) \div ChunkSize + 1

LEMMA ChunkBounds ==
    ASSUME DustTypeOK, NEW j \in DOMAIN dust
    PROVE  /\ (j - 1) \div ChunkSize \in Nat
           /\ ChunkOf(j) \in Nat \ {0} /\ ChunkOf(j) <= Chunks
<1>1. /\ ChunkSize \in Nat \ {0} /\ Len(dust) \in Nat /\ j \in 1 .. Len(dust)
  BY ConstantsAssumption DEF DustTypeOK
<1>2. /\ (j - 1) \div ChunkSize \in Nat
      /\ (j - 1) \div ChunkSize + 1 <= (Len(dust) + ChunkSize - 1) \div ChunkSize
  BY <1>1, ChunkOfElement, Zenon
<1>3. QED
  BY <1>2 DEF ChunkOf, Chunks

\* A chunk that is sent is sent whole.
LEMMA ChunkSent ==
    ASSUME DustTypeOK, NEW lands, SendChunk(lands)
    PROVE  /\ sweep \in Nat \ {0} /\ sweep' = sweep + 1 /\ swept' \in [Trades -> Nat]
           /\ \A i \in Trades : swept'[i] >= swept[i]
           /\ \A j \in DOMAIN dust : ChunkOf(j) = sweep => swept'[dust[j]] > 0
           /\ UNCHANGED <<kind, status, memory, queue, storing, files, rows, links, done, lost, fresh, dust>>
<1>1. /\ sweep \in 1 .. Chunks /\ sweep' = sweep + 1
      /\ swept' = [i \in Trades |-> swept[i] + IF i \in Chunk(sweep) THEN 1 ELSE 0]
      /\ UNCHANGED <<kind, status, memory, queue, storing, files, rows, links, done, lost, fresh, dust>>
  BY DEF SendChunk, sweepUnchanged, storeVars, ghostVars
<1>2. sweep \in Nat /\ swept \in [Trades -> Nat] /\ dust \in Seq(Trades)
  BY DEF DustTypeOK
<1>3. sweep \in Nat \ {0}
  BY <1>1, <1>2
<1>4. swept' \in [Trades -> Nat] /\ \A i \in Trades : swept'[i] >= swept[i]
  BY <1>1, <1>2
<1>5. ASSUME NEW j \in DOMAIN dust, ChunkOf(j) = sweep PROVE swept'[dust[j]] > 0
  <2>1. dust[j] \in Trades /\ j \in 1 .. Len(dust)
    BY <1>2
  <2>2. (j - 1) \div ChunkSize = sweep - 1
    <3>1. (j - 1) \div ChunkSize \in Nat
      BY ChunkBounds
    <3>2. QED
      BY <1>5, <3>1, <1>3 DEF ChunkOf
  <2>3. dust[j] \in Chunk(sweep)
    BY <2>1, <2>2 DEF Chunk
  <2>4. QED
    BY <1>1, <1>2, <2>1, <2>3
<1>6. QED
  BY <1>1, <1>3, <1>4, <1>5

LEMMA SweepKeeps == ASSUME DustInv, SweepStep PROVE DustInv'
<1> USE DEF DustInv
<1>1. UNCHANGED <<kind, status, memory, queue, storing, files, rows, links, done, lost, fresh>>
  BY DEF SweepStep, ProcessDust, SendChunk, ChunkError, ClearDust, sweepUnchanged, storeVars, ghostVars
<1>2. PlaceInv' /\ RowsInv'
  BY <1>1, PlacesKept
<1>3. FreshInv'
  BY <1>1 DEF FreshInv, RebuiltFromCopies
<1>4. /\ dust' \in Seq(Trades) /\ sweep' \in Nat /\ swept' \in [Trades -> Nat]
      /\ SweepInv'
  <2>1. CASE ProcessDust
    <3>1. sweep' = 1 /\ UNCHANGED <<dust, swept>>
      BY <2>1 DEF ProcessDust
    <3>2. \A j \in DOMAIN dust : ~(ChunkOf(j) < 1)
      BY ChunkBounds
    <3>3. QED
      BY <3>1, <3>2 DEF DustTypeOK, SweepInv, ChunkOf
  <2>2. CASE \E lands \in BOOLEAN : SendChunk(lands)
    <3>1. /\ sweep \in Nat \ {0} /\ sweep' = sweep + 1 /\ swept' \in [Trades -> Nat]
          /\ \A i \in Trades : swept'[i] >= swept[i]
          /\ \A j \in DOMAIN dust : ChunkOf(j) = sweep => swept'[dust[j]] > 0
          /\ dust' = dust
      BY <2>2, ChunkSent
    <3>2. swept \in [Trades -> Nat] /\ \A j \in DOMAIN dust : dust[j] \in Trades
      BY DEF DustTypeOK
    <3>3. ASSUME NEW j \in DOMAIN dust, ChunkOf(j) < sweep' PROVE swept'[dust[j]] > 0
      <4>1. ChunkOf(j) \in Nat
        BY ChunkBounds
      <4>2. CASE ChunkOf(j) = sweep
        BY <4>2, <3>1
      <4>3. CASE ChunkOf(j) < sweep
        <5>1. swept[dust[j]] > 0
          BY <4>3, <3>1 DEF SweepInv, ChunkOf
        <5>2. QED
          BY <5>1, <3>1, <3>2
      <4>4. QED
        BY <4>1, <4>2, <4>3, <3>1, <3>3
    <3>4. QED
      BY <3>1, <3>3 DEF DustTypeOK, SweepInv, ChunkOf
  <2>3. CASE ChunkError
    BY <2>3 DEF ChunkError, DustTypeOK, SweepInv
  <2>4. CASE ClearDust
    BY <2>4 DEF ClearDust, DustTypeOK, SweepInv
  <2>5. QED
    BY <2>1, <2>2, <2>3, <2>4 DEF SweepStep
<1>5. DustTypeOK'
  BY <1>1, <1>4 DEF DustTypeOK
<1>6. QED
  BY <1>2, <1>3, <1>4, <1>5

-----------------------------------------------------------------------------
(* The database task.                                                      *)

\* What every step of the database task leaves alone.
LEMMA DatabaseLeaves ==
    DatabaseStep => status = "up" /\ UNCHANGED <<kind, status, memory, sweep, swept, done, fresh>>
BY DEF DatabaseStep, ReceiveTrade, InsertFile, InsertOriginRow, InsertExecRow, InsertLink,
       StoreError, PushDust, storeUnchanged

\* The database task works on a copy only when the history is no longer as rebuilt.
LEMMA NotFresh ==
    ASSUME DustInv, storing # Idle \/ queue # <<>> PROVE ~fresh
BY DEF DustInv, FreshInv

LEMMA ReceiveTradeKeeps == ASSUME DustInv, ReceiveTrade PROVE DustInv'
<1> USE DEF DustInv
<1>1. /\ status = "up" /\ storing = Idle /\ queue # <<>>
      /\ storing' = [trade |-> Head(queue), step |-> "store", origin |-> 0]
      /\ queue' = Tail(queue)
      /\ UNCHANGED <<kind, status, memory, sweep, swept, done, fresh, files, rows, links, dust, lost>>
  BY DEF ReceiveTrade, storeUnchanged, storeVars
<1>2. queue \in Seq(Trades)
  BY DEF DustTypeOK
<1>3. /\ 1 \in DOMAIN queue /\ Head(queue) = queue[1] /\ queue[1] \in Trades
      /\ queue' \in Seq(Trades)
      /\ \A j \in DOMAIN queue' : j + 1 \in DOMAIN queue /\ queue'[j] = queue[j + 1] /\ j \in Nat \ {0}
      /\ \A j \in DOMAIN queue : j = 1 \/ (j - 1 \in DOMAIN queue' /\ queue'[j - 1] = queue[j])
  BY <1>1, <1>2
<1>4. DustTypeOK'
  BY <1>1, <1>3 DEF DustTypeOK, StoringType
<1>5. /\ \A k : ~Storing(k) /\ (Storing(k)' <=> k = queue[1])
  BY <1>1, <1>3 DEF Storing, Idle
<1>6. \A k : Waiting(k)' <=> Waiting(k)
  <2>1. ASSUME NEW k, \E j \in DOMAIN queue' : queue'[j] = k PROVE \E j \in DOMAIN queue : queue[j] = k
    BY <1>3, <2>1
  <2>2. ASSUME NEW k, \E j \in DOMAIN queue : queue[j] = k
        PROVE  k = queue[1] \/ \E j \in DOMAIN queue' : queue'[j] = k
    BY <1>3, <2>2
  <2>3. \E j \in DOMAIN queue : queue[j] = queue[1]
    BY <1>3
  <2>4. QED
    BY <1>5, <2>1, <2>2, <2>3 DEF Waiting
<1>7. \A k : Stored(k)' <=> Stored(k)
  BY <1>1 DEF Stored
<1>8. PlaceInv'
  <2>1. \A j, k \in DOMAIN queue' : queue'[j] = queue'[k] => j = k
    BY <1>3 DEF PlaceInv
  <2>2. \A j \in DOMAIN queue' : queue'[j] # queue[1]
    BY <1>3 DEF PlaceInv
  <2>3. \A j \in DOMAIN queue' : ~Storing(queue[j])'
    BY <1>1, <2>2 DEF Storing, PlaceInv
  <2>4. QED
    BY <1>1, <1>6, <1>7, <2>1, <2>3 DEF PlaceInv
<1>9. RowsInv'
  BY <1>1 DEF RowsInv, LinksMatch
<1>10. SweepInv' /\ FreshInv'
  BY <1>1, NotFresh DEF SweepInv, FreshInv, RebuiltFromCopies
<1>11. QED
  BY <1>4, <1>8, <1>9, <1>10

\* The place of the copy that the database task works on, after a step that keeps
\* it on its way, stores it, or gives it up.
LEMMA PlaceAfterWork ==
    ASSUME PlaceInv, NEW x \in Trades, Storing(x), storing.trade = x, storing'.trade = x,
           status = "up", UNCHANGED <<status, queue, done>>,
           \/ /\ \A k : Storing(k)' <=> Storing(k)
              /\ \A k \in Trades : (Stored(k)' <=> Stored(k)) /\ (k \in lost' <=> k \in lost)
           \/ /\ \A k : ~Storing(k)'
              /\ \A k \in Trades : (Stored(k)' <=> Stored(k) \/ k = x) /\ (k \in lost' <=> k \in lost)
           \/ /\ \A k : ~Storing(k)'
              /\ \A k \in Trades : (Stored(k)' <=> Stored(k)) /\ (k \in lost' <=> k \in lost \/ k = x)
    PROVE  PlaceInv'
<1>1. \A k : Storing(k) <=> k = x
  BY DEF Storing
<1>2. \A k : Waiting(k) <=> k = x \/ \E j \in DOMAIN queue : queue[j] = k
  BY <1>1 DEF Waiting
<1>3. \A k : Waiting(k)' <=> Storing(k)' \/ \E j \in DOMAIN queue : queue[j] = k
  BY DEF Waiting
<1>4. \A j \in DOMAIN queue : queue[j] # x
  BY <1>1 DEF PlaceInv
<1>5. \A j, k \in DOMAIN queue' : queue'[j] = queue'[k] => j = k
  BY DEF PlaceInv
<1>6. \A j \in DOMAIN queue' : ~Storing(queue[j])'
  BY <1>1, <1>4 DEF Storing
<1>7. \A i \in Trades : i \in done' <=> Waiting(i)' \/ Stored(i)' \/ i \in lost'
  BY <1>1, <1>2, <1>3, <1>4 DEF PlaceInv
<1>8. \A i \in Trades : /\ ~(Waiting(i)' /\ Stored(i)')
                        /\ ~(Waiting(i)' /\ i \in lost') /\ ~(Stored(i)' /\ i \in lost')
  BY <1>1, <1>2, <1>3, <1>4 DEF PlaceInv
<1>9. QED
  BY <1>5, <1>6, <1>7, <1>8 DEF PlaceInv

LEMMA IdleType == Idle \in StoringType /\ Idle.step = "idle"
BY DEF Idle, StoringType

\* The copy that the database task works on.
LEMMA AtWork ==
    ASSUME DustTypeOK, storing.step \in {"store", "exec", "link"}
    PROVE  storing.trade \in Trades /\ Storing(storing.trade) /\ storing # Idle
BY DEF DustTypeOK, Storing, Idle

LEMMA InsertFileKeeps == ASSUME DustInv, InsertFile PROVE DustInv'
<1> USE DEF DustInv
<1>1. /\ status = "up" /\ kind = "file" /\ storing.step = "store"
      /\ files' = [files EXCEPT !.whole = @ \cup {storing.trade}]
      /\ storing' = [storing EXCEPT !.step = "dust"]
      /\ UNCHANGED <<kind, status, memory, sweep, swept, done, fresh, queue, rows, links, dust, lost>>
  BY DEF InsertFile, storeUnchanged
<1>2. storing.trade \in Trades /\ Storing(storing.trade) /\ storing # Idle
  BY <1>1, AtWork
<1>3. /\ storing' \in StoringType /\ storing'.trade = storing.trade /\ storing'.step = "dust"
      /\ files' \in [whole : SUBSET Trades, torn : BOOLEAN]
      /\ files'.whole = files.whole \cup {storing.trade}
  BY <1>1, <1>2 DEF DustTypeOK, StoringType
<1>4. DustTypeOK'
  BY <1>1, <1>2, <1>3 DEF DustTypeOK
<1>5. PlaceInv'
  <2>1. \A k : ~Storing(k)'
    BY <1>3 DEF Storing
  <2>2. \A k \in Trades : (Stored(k)' <=> Stored(k) \/ k = storing.trade) /\ (k \in lost' <=> k \in lost)
    BY <1>1, <1>3 DEF Stored
  <2>3. QED
    BY <1>1, <1>2, <1>3, <2>1, <2>2, PlaceAfterWork
<1>6. RowsInv'
  BY <1>1, <1>3 DEF RowsInv, LinksMatch
<1>7. SweepInv' /\ FreshInv'
  BY <1>1, <1>2, NotFresh DEF SweepInv, FreshInv, RebuiltFromCopies
<1>8. QED
  BY <1>4, <1>5, <1>6, <1>7

\* A row more leaves the rows that are linked, and the copies they are of.
LEMMA RowAppended ==
    ASSUME DustTypeOK, LinksMatch, NEW r \in RowType, rows' = Append(rows, r),
           UNCHANGED <<kind, files, links>>
    PROVE  /\ rows' \in Seq(RowType) /\ rows' # <<>>
           /\ Len(rows') = Len(rows) + 1 /\ Len(rows') \in DOMAIN rows' /\ rows'[Len(rows')] = r
           /\ \A j \in DOMAIN rows : j \in DOMAIN rows' /\ rows'[j] = rows[j]
           /\ LinksMatch' /\ \A k \in Trades : Stored(k)' <=> Stored(k)
<1>1. rows \in Seq(RowType)
  BY DEF DustTypeOK
<1>2. /\ rows' \in Seq(RowType) /\ rows' # <<>>
      /\ Len(rows') = Len(rows) + 1 /\ Len(rows') \in DOMAIN rows' /\ rows'[Len(rows')] = r
      /\ \A j \in DOMAIN rows : j \in DOMAIN rows' /\ rows'[j] = rows[j]
  <2> DEFINE S == RowType
  <2>1. rows \in Seq(S) /\ r \in S
    BY <1>1
  <2> HIDE DEF S
  <2>2. /\ rows' \in Seq(S) /\ rows' # <<>>
        /\ Len(rows') = Len(rows) + 1 /\ Len(rows') \in DOMAIN rows' /\ rows'[Len(rows')] = r
        /\ \A j \in DOMAIN rows : j \in DOMAIN rows' /\ rows'[j] = rows[j]
    BY <2>1
  <2>3. QED
    BY <2>2 DEF S
<1>3. LinksMatch'
  BY <1>2 DEF LinksMatch
<1>4. \A k \in Trades : Stored(k)' <=> Stored(k)
  BY <1>2 DEF Stored, LinksMatch
<1>5. QED
  BY <1>2, <1>3, <1>4

LEMMA InsertOriginRowKeeps == ASSUME DustInv, InsertOriginRow PROVE DustInv'
<1> USE DEF DustInv
<1> DEFINE x == storing.trade
           r == [trade |-> x, volume |-> Trade[x].origin]
           n == Len(rows) + 1
<1>1. /\ status = "up" /\ kind = "postgres" /\ storing.step = "store"
      /\ rows' = Append(rows, r)
      /\ storing' = [storing EXCEPT !.step = "exec", !.origin = n]
      /\ UNCHANGED <<kind, status, memory, sweep, swept, done, fresh, queue, files, links, dust, lost>>
  BY DEF InsertOriginRow, storeUnchanged
<1>2. x \in Trades /\ Storing(x) /\ storing # Idle
  BY <1>1, AtWork
<1>3. r \in RowType /\ Trade[x].origin \in Nat
  BY <1>2, ConstantsAssumption DEF RowType
<1>4. rows \in Seq(RowType) /\ n \in Nat
  BY DEF DustTypeOK
<1>5. LinksMatch
  BY DEF RowsInv
<1>6. /\ rows' \in Seq(RowType) /\ rows' # <<>>
      /\ Len(rows') = n /\ Len(rows') \in DOMAIN rows' /\ rows'[Len(rows')] = r
      /\ LinksMatch' /\ \A k \in Trades : Stored(k)' <=> Stored(k)
  BY <1>1, <1>3, <1>5, RowAppended
<1>7. r.trade = x /\ r.volume = Trade[x].origin
  OBVIOUS
<1> HIDE DEF n, r
<1>8. storing' \in StoringType /\ storing'.trade = x /\ storing'.step = "exec" /\ storing'.origin = n
  BY <1>1, <1>4 DEF DustTypeOK, StoringType
<1>9. DustTypeOK'
  BY <1>1, <1>2, <1>6, <1>8 DEF DustTypeOK
<1>10. PlaceInv'
  <2>1. \A k : Storing(k)' <=> Storing(k)
    BY <1>1, <1>8 DEF Storing
  <2>2. QED
    BY <1>1, <1>2, <1>6, <1>8, <2>1, PlaceAfterWork
<1>11. RowsInv'
  BY <1>1, <1>6, <1>7, <1>8 DEF RowsInv
<1>12. SweepInv' /\ FreshInv'
  BY <1>1, <1>2, NotFresh DEF SweepInv, FreshInv, RebuiltFromCopies
<1>13. QED
  BY <1>9, <1>10, <1>11, <1>12

LEMMA InsertExecRowKeeps == ASSUME DustInv, InsertExecRow PROVE DustInv'
<1> USE DEF DustInv
<1> DEFINE x == storing.trade
           r == [trade |-> x, volume |-> Trade[x].exec]
<1>1. /\ status = "up" /\ storing.step = "exec"
      /\ rows' = Append(rows, r)
      /\ storing' = [storing EXCEPT !.step = "link"]
      /\ UNCHANGED <<kind, status, memory, sweep, swept, done, fresh, queue, files, links, dust, lost>>
  BY DEF InsertExecRow, storeUnchanged
<1>2. x \in Trades /\ Storing(x) /\ storing # Idle
  BY <1>1, AtWork
<1>3. r \in RowType /\ Trade[x].exec \in Nat
  BY <1>2, ConstantsAssumption DEF RowType
<1>4. LinksMatch
  BY DEF RowsInv
<1>5. /\ rows' \in Seq(RowType) /\ rows' # <<>> /\ rows'[Len(rows')] = r
      /\ \A j \in DOMAIN rows : j \in DOMAIN rows' /\ rows'[j] = rows[j]
      /\ LinksMatch' /\ \A k \in Trades : Stored(k)' <=> Stored(k)
  BY <1>1, <1>3, <1>4, RowAppended
<1>6. r.trade = x /\ r.volume = Trade[x].exec
  OBVIOUS
<1> HIDE DEF r
<1>7. storing' \in StoringType /\ storing'.trade = x /\ storing'.step = "link" /\ storing'.origin = storing.origin
  BY <1>1 DEF DustTypeOK, StoringType
<1>8. DustTypeOK'
  BY <1>1, <1>2, <1>5, <1>7 DEF DustTypeOK
<1>9. PlaceInv'
  <2>1. \A k : Storing(k)' <=> Storing(k)
    BY <1>1, <1>7 DEF Storing
  <2>2. QED
    BY <1>1, <1>2, <1>5, <1>7, <2>1, PlaceAfterWork
<1>10. RowsInv'
  BY <1>1, <1>5, <1>6, <1>7 DEF RowsInv
<1>11. SweepInv' /\ FreshInv'
  BY <1>1, <1>2, NotFresh DEF SweepInv, FreshInv, RebuiltFromCopies
<1>12. QED
  BY <1>8, <1>9, <1>10, <1>11

LEMMA InsertLinkKeeps == ASSUME DustInv, InsertLink PROVE DustInv'
<1> USE DEF DustInv
<1> DEFINE x == storing.trade
           n == [exec |-> Len(rows), origin |-> storing.origin]
<1>1. /\ status = "up" /\ storing.step = "link"
      /\ links' = links \cup {n}
      /\ storing' = [storing EXCEPT !.step = "dust"]
      /\ UNCHANGED <<kind, status, memory, sweep, swept, done, fresh, queue, files, rows, dust, lost>>
  BY DEF InsertLink, storeUnchanged
<1>2. x \in Trades /\ Storing(x) /\ storing # Idle
  BY <1>1, AtWork
<1>3. /\ kind = "postgres" /\ storing.origin \in DOMAIN rows /\ rows # <<>>
      /\ rows[storing.origin].trade = x /\ rows[storing.origin].volume = Trade[x].origin
      /\ rows[Len(rows)].trade = x /\ rows[Len(rows)].volume = Trade[x].exec
      /\ LinksMatch
  BY <1>1 DEF RowsInv
<1>4. rows \in Seq(RowType) /\ Len(rows) \in DOMAIN rows /\ n \in [exec : Nat, origin : Nat]
  <2>1. rows \in Seq(RowType) /\ storing.origin \in Nat
    BY DEF DustTypeOK, StoringType
  <2>2. QED
    BY <1>3, <2>1
<1>5. n.exec = Len(rows) /\ n.origin = storing.origin
  OBVIOUS
<1> HIDE DEF n
<1>6. storing' \in StoringType /\ storing'.trade = x /\ storing'.step = "dust"
  BY <1>1 DEF DustTypeOK, StoringType
<1>7. DustTypeOK'
  BY <1>1, <1>2, <1>4, <1>6 DEF DustTypeOK
<1>8. PlaceInv'
  <2>1. \A k : ~Storing(k)'
    BY <1>6 DEF Storing
  <2>2. \A k \in Trades : (Stored(k)' <=> Stored(k) \/ k = x) /\ (k \in lost' <=> k \in lost)
    BY <1>1, <1>3, <1>5 DEF Stored
  <2>3. QED
    BY <1>1, <1>2, <1>6, <2>1, <2>2, PlaceAfterWork
<1>9. RowsInv'
  <2>1. \A l \in links : rows[l.origin].trade # x
    <3>1. ~Stored(x)
      BY <1>2 DEF PlaceInv, Waiting
    <3>2. QED
      BY <1>3, <3>1 DEF Stored
  <2>2. \A l \in links' :
          /\ l.exec \in DOMAIN rows /\ l.origin \in DOMAIN rows
          /\ rows[l.exec].trade = rows[l.origin].trade
          /\ rows[l.origin].volume = Trade[rows[l.origin].trade].origin
          /\ rows[l.exec].volume = Trade[rows[l.origin].trade].exec
    BY <1>1, <1>3, <1>4, <1>5 DEF LinksMatch
  <2>3. \A l, m \in links' : rows[l.origin].trade = rows[m.origin].trade => l = m
    BY <1>1, <1>3, <1>5, <2>1 DEF LinksMatch
  <2>4. QED
    BY <1>1, <1>6, <2>2, <2>3 DEF RowsInv, LinksMatch
<1>10. SweepInv' /\ FreshInv'
  BY <1>1, <1>2, NotFresh DEF SweepInv, FreshInv, RebuiltFromCopies
<1>11. QED
  BY <1>7, <1>8, <1>9, <1>10

LEMMA StoreErrorKeeps == ASSUME DustInv, NEW tears \in BOOLEAN, StoreError(tears) PROVE DustInv'
<1> USE DEF DustInv
<1> DEFINE x == storing.trade
<1>1. /\ status = "up" /\ storing.step \in {"store", "exec", "link"}
      /\ lost' = lost \cup {x}
      /\ storing' = [storing EXCEPT !.step = "dust"]
      /\ files' = [files EXCEPT !.torn = @ \/ tears]
      /\ UNCHANGED <<kind, status, memory, sweep, swept, done, fresh, queue, rows, links, dust>>
  BY DEF StoreError, storeUnchanged
<1>2. x \in Trades /\ Storing(x) /\ storing # Idle
  BY <1>1, AtWork
<1>3. storing' \in StoringType /\ storing'.trade = x /\ storing'.step = "dust"
  BY <1>1 DEF DustTypeOK, StoringType
<1>4. files' \in [whole : SUBSET Trades, torn : BOOLEAN] /\ files'.whole = files.whole
  BY <1>1 DEF DustTypeOK
<1>5. DustTypeOK'
  BY <1>1, <1>2, <1>3, <1>4 DEF DustTypeOK
<1>6. PlaceInv'
  <2>1. \A k : ~Storing(k)'
    BY <1>3 DEF Storing
  <2>2. \A k \in Trades : (Stored(k)' <=> Stored(k)) /\ (k \in lost' <=> k \in lost \/ k = x)
    BY <1>1, <1>4 DEF Stored
  <2>3. QED
    BY <1>1, <1>2, <1>3, <2>1, <2>2, PlaceAfterWork
<1>7. RowsInv'
  BY <1>1, <1>3 DEF RowsInv, LinksMatch
<1>8. SweepInv' /\ FreshInv'
  BY <1>1, <1>2, NotFresh DEF SweepInv, FreshInv, RebuiltFromCopies
<1>9. QED
  BY <1>5, <1>6, <1>7, <1>8

LEMMA PushDustKeeps == ASSUME DustInv, PushDust PROVE DustInv'
<1> USE DEF DustInv
<1> DEFINE x == storing.trade
<1>1. /\ status = "up" /\ storing.step = "dust" /\ storing' = Idle
      /\ dust' = dust \/ (sweep = 0 /\ dust' = Append(dust, x))
      /\ UNCHANGED <<kind, status, memory, sweep, swept, done, fresh, queue, files, rows, links, lost>>
  BY DEF PushDust, storeUnchanged, storeVars
<1>2. x \in Trades /\ storing # Idle
  BY <1>1 DEF DustTypeOK, Idle
<1>3. DustTypeOK'
  <2>1. dust \in Seq(Trades) /\ Append(dust, x) \in Seq(Trades)
    BY <1>2 DEF DustTypeOK
  <2>2. dust' \in Seq(Trades)
    BY <1>1, <2>1
  <2>3. QED
    BY <1>1, <2>2, IdleType DEF DustTypeOK
<1>4. PlaceInv'
  <2>1. \A k : ~Storing(k)' /\ ~Storing(k)
    BY <1>1 DEF Storing, Idle
  <2>2. \A k : (Stored(k)' <=> Stored(k)) /\ (Waiting(k)' <=> Waiting(k))
    BY <1>1, <2>1 DEF Stored, Waiting
  <2>3. \A j \in DOMAIN queue' : ~Storing(queue[j])'
    BY <1>1 DEF Storing, Idle
  <2>4. QED
    BY <1>1, <2>2, <2>3 DEF PlaceInv
<1>5. RowsInv'
  BY <1>1 DEF RowsInv, LinksMatch, Idle
<1>6. SweepInv'
  BY <1>1 DEF SweepInv, DustTypeOK
<1>7. FreshInv'
  BY <1>1, <1>2, NotFresh DEF FreshInv, RebuiltFromCopies
<1>8. QED
  BY <1>3, <1>4, <1>5, <1>6, <1>7

LEMMA DatabaseKeeps == ASSUME DustInv, DatabaseStep PROVE DustInv'
BY ReceiveTradeKeeps, InsertFileKeeps, InsertOriginRowKeeps, InsertExecRowKeeps, InsertLinkKeeps,
   StoreErrorKeeps, PushDustKeeps DEF DatabaseStep

-----------------------------------------------------------------------------
(* Crash and restart.                                                      *)

\* A crash loses what is on its way.
LEMMA CrashKeeps == ASSUME DustInv, NEW tears \in BOOLEAN, Crash(tears) PROVE DustInv'
<1> USE DEF DustInv
<1> DEFINE cut == IF storing.step \in {"store", "exec", "link"} THEN {storing.trade} ELSE {}
<1>1. /\ files' = [files EXCEPT !.torn = @ \/ tears]
      /\ lost' = lost \cup cut \cup {queue[j] : j \in 1 .. Len(queue)}
      /\ status' = "down" /\ queue' = <<>> /\ storing' = Idle /\ dust' = <<>> /\ sweep' = 0 /\ ~fresh'
      /\ UNCHANGED <<kind, rows, links, swept, done>>
  BY DEF Crash
<1>2. queue \in Seq(Trades) /\ DOMAIN queue = 1 .. Len(queue)
  BY DEF DustTypeOK
<1>3. \A k : k \in lost' <=> k \in lost \/ Waiting(k)
  BY <1>1, <1>2 DEF Waiting, Storing
<1>4. files' \in [whole : SUBSET Trades, torn : BOOLEAN] /\ files'.whole = files.whole
  BY <1>1 DEF DustTypeOK
<1>5. lost' \in SUBSET Trades
  <2>1. \A k : Waiting(k) => k \in Trades
    BY <1>2 DEF Waiting, Storing, DustTypeOK
  <2>2. QED
    BY <1>3, <2>1 DEF DustTypeOK
<1>6. DustTypeOK'
  <2>1. queue' \in Seq(Trades) /\ dust' \in Seq(Trades) /\ sweep' \in Nat
    BY <1>1
  <2>2. storing' \in StoringType /\ storing'.step = "idle"
    BY <1>1, IdleType
  <2>3. QED
    BY <1>1, <1>4, <1>5, <2>1, <2>2 DEF DustTypeOK
<1>7. PlaceInv'
  <2>1. \A k : Stored(k)' <=> Stored(k)
    BY <1>1, <1>4 DEF Stored
  <2>2. \A k : ~Waiting(k)'
    BY <1>1 DEF Waiting, Storing, Idle
  <2>3. \A i \in Trades : i \in done' <=> Waiting(i)' \/ Stored(i)' \/ i \in lost'
    BY <1>1, <1>3, <2>1, <2>2 DEF PlaceInv
  <2>4. \A i \in Trades : /\ ~(Waiting(i)' /\ Stored(i)')
                          /\ ~(Waiting(i)' /\ i \in lost') /\ ~(Stored(i)' /\ i \in lost')
    BY <1>3, <2>1, <2>2 DEF PlaceInv
  <2>5. QED
    BY <1>1, <2>3, <2>4 DEF PlaceInv
<1>8. RowsInv'
  BY <1>1 DEF RowsInv, LinksMatch, Idle
<1>9. SweepInv' /\ FreshInv'
  BY <1>1 DEF SweepInv, FreshInv, RebuiltFromCopies
<1>10. QED
  BY <1>6, <1>7, <1>8, <1>9

\* What is stored when nothing is on its way.
LEMMA StoredIsKept ==
    ASSUME DustInv, status # "up" PROVE \A i \in Trades : Stored(i) <=> i \in done \ lost
<1>1. \A i : ~Waiting(i)
  BY DEF DustInv, PlaceInv, Waiting, Storing, Idle
<1>2. QED
  BY <1>1 DEF DustInv, PlaceInv

LEMMA BootstrapFileKeeps == ASSUME DustInv, BootstrapFile PROVE DustInv'
<1> USE DEF DustInv
<1>1. /\ status = "down" /\ kind = "file" /\ status' \in {"up", "failed"}
      /\ \/ UNCHANGED fresh
         \/ status' = "up" /\ memory' = FromFiles(files.whole)
      /\ UNCHANGED <<kind, queue, storing, files, rows, links, dust, sweep, swept, done, lost>>
  BY DEF BootstrapFile, storeVars, ghostVars
<1>2. ~fresh /\ queue = <<>> /\ storing = Idle
  BY <1>1 DEF FreshInv, PlaceInv
<1>3. files.whole = done \ lost
  <2>1. files.whole \subseteq Trades /\ done \subseteq Trades
    BY DEF DustTypeOK
  <2>2. \A i \in Trades : i \in files.whole <=> i \in done \ lost
    BY <1>1, StoredIsKept DEF Stored
  <2>3. QED
    BY <2>1, <2>2
<1>4. DustTypeOK'
  BY <1>1 DEF DustTypeOK
<1>5. PlaceInv'
  <2>1. \A k : (Waiting(k)' <=> Waiting(k)) /\ (Stored(k)' <=> Stored(k))
    BY <1>1 DEF Waiting, Stored, Storing
  <2>2. QED
    BY <1>1, <1>2, <2>1 DEF PlaceInv, Storing
<1>6. RowsInv'
  BY <1>1 DEF RowsInv, LinksMatch
<1>7. SweepInv'
  BY <1>1 DEF SweepInv
<1>8. FreshInv'
  BY <1>1, <1>2, <1>3 DEF FreshInv, RebuiltFromCopies
<1>9. QED
  BY <1>4, <1>5, <1>6, <1>7, <1>8

\* The linked rows of one token and direction, and their copies.
LinkedOf(t, d) == {l \in links : /\ Trade[rows[l.origin].trade].token = t
                                 /\ Trade[rows[l.origin].trade].direction = d}

LEMMA RowTrades == ASSUME DustInv PROVE \A j \in DOMAIN rows : rows[j].trade \in Trades
<1> DEFINE S == RowType
<1>1. rows \in Seq(S)
  BY DEF DustInv, DustTypeOK
<1> HIDE DEF S
<1>2. \A j \in DOMAIN rows : rows[j] \in S
  BY <1>1
<1>3. QED
  BY <1>2 DEF S, RowType

\* Adding up a column of the linked rows is adding up the copies that are stored.
LEMMA LinkedSum ==
    ASSUME DustInv, status = "down", kind = "postgres",
           NEW t \in Tokens, NEW d, NEW F, NEW G,
           \A l \in links : F[l] = G[rows[l.origin].trade],
           \A i \in Trades : G[i] \in Nat
    PROVE  SumFunctionOnSet(F, LinkedOf(t, d))
             = SumFunctionOnSet(G, {i \in done \ lost : Trade[i].token = t /\ Trade[i].direction = d})
<1> DEFINE m == [l \in links |-> rows[l.origin].trade]
           S == LinkedOf(t, d)
           C == {i \in done \ lost : Trade[i].token = t /\ Trade[i].direction = d}
<1>1. /\ \A i \in Trades : Stored(i) <=> i \in done \ lost
      /\ LinksMatch
  BY StoredIsKept DEF DustInv, RowsInv
<1>2. \A l \in links : rows[l.origin].trade \in Trades
  <2>2. \A j \in DOMAIN rows : rows[j].trade \in Trades
    BY RowTrades
  <2>3. QED
    BY <1>1, <2>2 DEF LinksMatch
<1>3. \A i \in Trades : Stored(i) <=> \E l \in links : rows[l.origin].trade = i
  BY DEF Stored
<1>4. done \subseteq Trades /\ IsFiniteSet(done)
  BY DEF DustInv, DustTypeOK
<1>5. S \subseteq links
  BY DEF LinkedOf
<1>6. \A x, y \in links : m[x] = m[y] => x = y
  BY <1>1 DEF LinksMatch
<1>7. {m[l] : l \in S} = C
  <2>1. ASSUME NEW l \in S PROVE m[l] \in C
    BY <1>1, <1>2, <1>3 DEF LinkedOf
  <2>2. ASSUME NEW i \in C PROVE \E l \in S : m[l] = i
    BY <1>1, <1>3, <1>4 DEF LinkedOf
  <2> HIDE DEF m, S, C
  <2>3. QED
    BY <2>1, <2>2
<1>8. IsFiniteSet(S)
  <2>1. IsFiniteSet(C)
    BY <1>4, FS_Subset
  <2>2. [l \in S |-> m[l]] \in Injection(S, C)
    <3> HIDE DEF m, S, C
    <3>1. \A l \in S : m[l] \in C
      BY <1>7
    <3>2. QED
      BY <1>5, <1>6, <3>1 DEF Injection, IsInjective
  <2>3. QED
    BY <2>1, <2>2, FS_Injection
<1>9. \A x \in S : F[x] = G[m[x]] /\ F[x] \in Nat
  BY <1>2, <1>5
<1> HIDE DEF m, S
<1>10. SumFunctionOnSet(F, S) = SumFunctionOnSet(G, {m[x] : x \in S})
  BY <1>5, <1>6, <1>8, <1>9, SumRenamed
<1>11. QED
  BY <1>7, <1>10 DEF S

\* What bootstrap_history reads from Postgres is the stored copies, with the dust
\* that the database does not know of.
LEMMA JoinedRows ==
    ASSUME DustInv, BootstrapPostgres PROVE memory' = Rebuild(done \ lost, NoDust)
<1>1. /\ status = "down" /\ kind = "postgres"
      /\ memory' = [t \in Tokens |->
           [originBuy |-> SumFunctionOnSet([l \in links |-> rows[l.origin].volume], LinkedOf(t, "buy")),
            originSell |-> SumFunctionOnSet([l \in links |-> rows[l.origin].volume], LinkedOf(t, "sell")),
            execBuy |-> SumFunctionOnSet([l \in links |-> rows[l.exec].volume], LinkedOf(t, "buy")),
            execSell |-> SumFunctionOnSet([l \in links |-> rows[l.exec].volume], LinkedOf(t, "sell"))]]
  BY Zenon DEF BootstrapPostgres, LinkedOf
<1> DEFINE FO == [l \in links |-> rows[l.origin].volume]
           FE == [l \in links |-> rows[l.exec].volume]
<1>2. \A i \in Trades : /\ OriginOf[i] \in Nat /\ ExecOf[i] \in Nat
                         /\ NetOf(NoDust)[i] = ExecOf[i]
  BY ConstantsAssumption DEF OriginOf, ExecOf, NetOf, NoDust
<1>3. \A l \in links : /\ rows[l.origin].trade \in Trades
                        /\ FO[l] = OriginOf[rows[l.origin].trade]
                        /\ FE[l] = ExecOf[rows[l.origin].trade]
                        /\ FE[l] = NetOf(NoDust)[rows[l.origin].trade]
  <2>2. \A j \in DOMAIN rows : rows[j].trade \in Trades
    BY RowTrades
  <2>3. \A l \in links : /\ l.origin \in DOMAIN rows
                          /\ rows[l.origin].volume = Trade[rows[l.origin].trade].origin
                          /\ rows[l.exec].volume = Trade[rows[l.origin].trade].exec
    BY DEF DustInv, RowsInv, LinksMatch
  <2>4. QED
    BY <1>2, <2>2, <2>3 DEF OriginOf, ExecOf
<1> HIDE DEF FO, FE
<1>4. ASSUME NEW t \in Tokens
      PROVE  /\ SumFunctionOnSet(FO, LinkedOf(t, "buy")) = SumFunctionOnSet(OriginOf, Bought(done \ lost, t))
             /\ SumFunctionOnSet(FO, LinkedOf(t, "sell")) = SumFunctionOnSet(OriginOf, Sold(done \ lost, t))
             /\ SumFunctionOnSet(FE, LinkedOf(t, "buy")) = SumFunctionOnSet(NetOf(NoDust), Bought(done \ lost, t))
             /\ SumFunctionOnSet(FE, LinkedOf(t, "sell")) = SumFunctionOnSet(ExecOf, Sold(done \ lost, t))
  <2>1. SumFunctionOnSet(FO, LinkedOf(t, "buy")) = SumFunctionOnSet(OriginOf, Bought(done \ lost, t))
    BY <1>1, <1>2, <1>3, LinkedSum DEF Bought
  <2>2. SumFunctionOnSet(FO, LinkedOf(t, "sell")) = SumFunctionOnSet(OriginOf, Sold(done \ lost, t))
    BY <1>1, <1>2, <1>3, LinkedSum DEF Sold
  <2>3. SumFunctionOnSet(FE, LinkedOf(t, "buy")) = SumFunctionOnSet(NetOf(NoDust), Bought(done \ lost, t))
    BY <1>1, <1>2, <1>3, LinkedSum DEF Bought
  <2>4. SumFunctionOnSet(FE, LinkedOf(t, "sell")) = SumFunctionOnSet(ExecOf, Sold(done \ lost, t))
    BY <1>1, <1>2, <1>3, LinkedSum DEF Sold
  <2>5. QED
    BY <2>1, <2>2, <2>3, <2>4
<1>5. QED
  BY <1>1, <1>4, Zenon DEF Rebuild, FO, FE

LEMMA BootstrapPostgresKeeps == ASSUME DustInv, BootstrapPostgres PROVE DustInv'
<1> USE DEF DustInv
<1>1. /\ status = "down" /\ kind = "postgres" /\ status' = "up"
      /\ UNCHANGED <<kind, queue, storing, files, rows, links, dust, sweep, swept, done, lost>>
  BY DEF BootstrapPostgres, storeVars, ghostVars
<1>2. queue = <<>> /\ storing = Idle
  BY <1>1 DEF PlaceInv
<1>3. DustTypeOK'
  BY <1>1 DEF DustTypeOK
<1>4. PlaceInv'
  <2>1. \A k : (Waiting(k)' <=> Waiting(k)) /\ (Stored(k)' <=> Stored(k))
    BY <1>1 DEF Waiting, Stored, Storing
  <2>2. QED
    BY <1>1, <1>2, <2>1 DEF PlaceInv, Storing
<1>5. RowsInv'
  BY <1>1 DEF RowsInv, LinksMatch
<1>6. SweepInv'
  BY <1>1 DEF SweepInv
<1>7. FreshInv'
  <2>1. memory' = Rebuild(done \ lost, NoDust)
    BY JoinedRows
  <2>2. QED
    BY <1>1, <1>2, <2>1 DEF FreshInv, RebuiltFromCopies
<1>8. QED
  BY <1>3, <1>4, <1>5, <1>6, <1>7

-----------------------------------------------------------------------------
(* The theorems.                                                           *)

LEMMA DustStep == DustInv /\ [Next]_vars => DustInv'
<1> SUFFICES ASSUME DustInv, [Next]_vars PROVE DustInv'
  OBVIOUS
<1>1. CASE \E i \in Trades : InsertTrade(i)
  BY <1>1, InsertTradeKeeps
<1>2. CASE \E t \in Tokens : ForgetHistory(t) \/ FailedExecution(t)
  BY <1>2, HistoryKeeps
<1>3. CASE SweepStep
  BY <1>3, SweepKeeps
<1>4. CASE DatabaseStep
  BY <1>4, DatabaseKeeps
<1>5. CASE \E tears \in BOOLEAN : Crash(tears)
  BY <1>5, CrashKeeps
<1>6. CASE BootstrapFile
  BY <1>6, BootstrapFileKeeps
<1>7. CASE BootstrapPostgres
  BY <1>7, BootstrapPostgresKeeps
<1>8. CASE UNCHANGED vars
  <2>1. UNCHANGED <<kind, status, memory, queue, storing, files, rows, links, done, lost, dust, sweep, swept, fresh>>
    BY <1>8 DEF vars, storeVars, ghostVars
  <2>2. DustTypeOK' /\ SweepInv' /\ FreshInv'
    BY <2>1 DEF DustInv, DustTypeOK, SweepInv, FreshInv, RebuiltFromCopies
  <2>3. PlaceInv' /\ RowsInv'
    BY <2>1, PlacesKept DEF DustInv
  <2>4. QED
    BY <2>2, <2>3 DEF DustInv
<1>9. QED
  BY <1>1, <1>2, <1>3, <1>4, <1>5, <1>6, <1>7, <1>8 DEF Next

\* DustInv holds in every state that the main task, the database task, crashes
\* and restarts reach.
THEOREM DustInvHolds == Spec => []DustInv
<1>1. Init => DustInv
  BY DustInitial
<1>2. DustInv /\ [Next]_vars => DustInv'
  BY DustStep
<1>3. QED
  BY <1>1, <1>2, PTL DEF Spec

\* A crash at any step of the database task leaves the storage, files or Postgres,
\* with exactly the confirmed copies that were not lost: every link is of the two
\* rows of one copy, with their volumes, and no copy is linked twice.
THEOREM StoredAtRestart == Spec => []StoredAreCopies
<1>1. DustInv => StoredAreCopies
  <2> SUFFICES ASSUME DustInv, status = "down" PROVE (\A i \in Trades : Stored(i) <=> i \in done \ lost) /\ LinksMatch
    BY DEF StoredAreCopies
  <2>1. \A i \in Trades : Stored(i) <=> i \in done \ lost
    BY StoredIsKept
  <2>2. LinksMatch
    BY DEF DustInv, RowsInv
  <2>3. QED
    BY <2>1, <2>2
<1>2. QED
  BY <1>1, DustInvHolds, PTL

\* The history that bootstrap_history rebuilds, from files or from the joined rows
\* of Postgres, is made of the confirmed copies that were stored, each once.
THEOREM HistoryRebuilt == Spec => []RebuiltFromCopies
<1>1. DustInv => RebuiltFromCopies
  BY DEF DustInv, FreshInv, RebuiltFromCopies
<1>2. QED
  BY <1>1, DustInvHolds, PTL

\* The step of OnlySentDustLeaves.
DustLeavesSent ==
    \A i \in Trades : Listed(i) /\ ~Listed(i)' => swept[i] > 0 \/ status' = "down"

LEMMA DustLeaves == DustInv /\ [Next]_vars => DustLeavesSent
<1> SUFFICES ASSUME DustInv, [Next]_vars, NEW i \in Trades, Listed(i), ~Listed(i)', status' # "down"
             PROVE  swept[i] > 0
  BY DEF DustLeavesSent
<1>1. DustTypeOK /\ SweepInv /\ dust \in Seq(Trades)
  BY DEF DustInv, DustTypeOK
<1>2. dust' # dust
  BY DEF Listed
<1>3. ~PushDust
  <2> SUFFICES ASSUME PushDust PROVE FALSE
    OBVIOUS
  <2>1. dust' = Append(dust, storing.trade)
    BY <1>2 DEF PushDust
  <2>2. \A j \in 1 .. Len(dust) : j \in 1 .. Len(dust') /\ dust'[j] = dust[j]
    BY <1>1, <2>1
  <2>3. QED
    BY <2>2 DEF Listed
<1>4. ClearDust
  BY <1>2, <1>3 DEF Next, vars, storeVars, ghostVars, InsertTrade, ForgetHistory, FailedExecution, SweepStep,
     ProcessDust, SendChunk, ChunkError, DatabaseStep, ReceiveTrade, InsertFile, InsertOriginRow,
     InsertExecRow, InsertLink, StoreError, Crash, BootstrapFile, BootstrapPostgres
<1>5. PICK j \in DOMAIN dust : dust[j] = i
  BY <1>1 DEF Listed
<1>6. ChunkOf(j) \in Nat \ {0} /\ ChunkOf(j) <= Chunks
  BY <1>1, ChunkBounds
<1>7. sweep > Chunks /\ sweep \in Nat /\ Chunks \in Int
  <2>1. Len(dust) \in Nat /\ ChunkSize \in Nat \ {0}
    BY <1>1, ConstantsAssumption
  <2>2. QED
    BY <1>1, <1>4, <2>1 DEF ClearDust, DustTypeOK, Chunks
<1>8. sweep > 0 /\ ChunkOf(j) < sweep
  BY <1>6, <1>7
<1>9. QED
  BY <1>1, <1>5, <1>8 DEF SweepInv, ChunkOf

\* process_dust takes dust off the list only when every chunk was sent: a chunk
\* that fails, and the chunks behind it, stay on it for the next tick.
THEOREM SentBeforeLeaving == Spec => OnlySentDustLeaves
<1>1. DustInv /\ [Next]_vars => DustLeavesSent
  BY DustLeaves
<1>2. QED
  BY <1>1, DustInvHolds, PTL DEF Spec, OnlySentDustLeaves, DustLeavesSent

-----------------------------------------------------------------------------
(* What is tracked is held: the invariant.                                 *)

\* Dust that was handed to the transaction service, landed or not.
SweptOf == [i \in Trades |-> Dust(i) * swept[i]]

TotalDust(t) == SumFunctionOnSet(DustOf, Bought(done, t))
SweptDust(t) == SumFunctionOnSet(SweptOf, Bought(done, t))
LostSells(t) == SumFunctionOnSet(ExecOf, IF restarted THEN Sold(lost, t) ELSE {})
LostDust(t) ==
    SumFunctionOnSet(DustOf, IF restarted /\ kind = "postgres" THEN Bought(done, t) ELSE {})

HeldTypeOK ==
    /\ memory \in [Tokens -> Volumes]
    /\ balance \in [Tokens -> Nat] /\ oversold \in [Tokens -> Nat]

\* Dust is of confirmed copies.
DoneInv ==
    /\ storing.step # "idle" => storing.trade \in done
    /\ \A j \in DOMAIN dust : dust[j] \in done
    /\ lost \subseteq done

\* Tokens that were bought are in the wallet, or left it with a sell or as dust.
BalanceInv ==
    \A t \in Tokens : SumFunctionOnSet(ExecOf, Bought(done, t))
                        <= balance[t] + SumFunctionOnSet(ExecOf, Sold(done, t)) + SweptDust(t)

\* TrackedIsHeld with the dust that may still be swept, which is held as well.
HeldInv ==
    /\ status # "up" => memory = NoVolumes
    /\ status = "up" =>
          \A t \in Tokens :
              memory[t].execBuy + TotalDust(t)
                <= memory[t].execSell + balance[t] + oversold[t] + SweptDust(t)
                     + LostSells(t) + LostDust(t)

FullInv == DustInv /\ HeldTypeOK /\ DoneInv /\ BalanceInv /\ HeldInv

\* The amounts of a copy.
LEMMA TradeFacts ==
    ASSUME NEW i \in Trades
    PROVE  /\ Trade[i].token \in Tokens /\ Trade[i].direction \in {"buy", "sell"}
           /\ Trade[i].origin \in Nat /\ Trade[i].exec \in Nat
           /\ Dust(i) \in Nat /\ Dust(i) <= Trade[i].exec
           /\ Trade[i].direction = "sell" => Dust(i) = 0
           /\ DustOf[i] = Dust(i) /\ ExecOf[i] = Trade[i].exec /\ OriginOf[i] = Trade[i].origin
           /\ NetOf(DustOf)[i] = Trade[i].exec - Dust(i)
           /\ NetOf(NoDust)[i] = Trade[i].exec
<1>1. /\ Trade[i].token \in Tokens /\ Trade[i].direction \in {"buy", "sell"}
      /\ Trade[i].origin \in Nat /\ Trade[i].exec \in Nat
  BY ConstantsAssumption
<1>2. DustVolume(MoonbagBps, Trade[i].exec) \in Nat /\ DustVolume(MoonbagBps, Trade[i].exec) <= Trade[i].exec
  <2>1. MoonbagBps \in Nat /\ MoonbagBps <= 10000
    BY ConstantsAssumption
  <2>2. QED
    BY <1>1, <2>1, DustBound
<1>3. Dust(i) \in Nat /\ Dust(i) <= Trade[i].exec /\ (Trade[i].direction = "sell" => Dust(i) = 0)
  BY <1>1, <1>2 DEF Dust
<1>4. DustOf[i] = Dust(i) /\ ExecOf[i] = Trade[i].exec /\ OriginOf[i] = Trade[i].origin
  BY DEF DustOf, ExecOf, OriginOf
<1>5. NetOf(DustOf)[i] = Trade[i].exec - Dust(i)
  BY <1>4 DEF NetOf
<1>6. NetOf(NoDust)[i] = Trade[i].exec
  BY <1>1 DEF NetOf, NoDust
<1>7. QED
  BY <1>1, <1>3, <1>4, <1>5, <1>6

\* Sums over confirmed copies are natural numbers.
LEMMA SumsAreNat ==
    ASSUME NEW S \in SUBSET Trades, IsFiniteSet(S), NEW t
    PROVE  /\ IsFiniteSet(Bought(S, t)) /\ Bought(S, t) \subseteq Trades
           /\ IsFiniteSet(Sold(S, t)) /\ Sold(S, t) \subseteq Trades
           /\ SumFunctionOnSet(DustOf, Bought(S, t)) \in Nat
           /\ SumFunctionOnSet(ExecOf, Bought(S, t)) \in Nat
           /\ SumFunctionOnSet(ExecOf, Sold(S, t)) \in Nat
           /\ SumFunctionOnSet(OriginOf, Bought(S, t)) \in Nat
           /\ SumFunctionOnSet(OriginOf, Sold(S, t)) \in Nat
           /\ SumFunctionOnSet(NetOf(DustOf), Bought(S, t)) \in Nat
           /\ SumFunctionOnSet(NetOf(NoDust), Bought(S, t)) \in Nat
<1>1. /\ IsFiniteSet(Bought(S, t)) /\ Bought(S, t) \subseteq Trades
      /\ IsFiniteSet(Sold(S, t)) /\ Sold(S, t) \subseteq Trades
  BY FS_Subset DEF Bought, Sold
<1>2. \A i \in Trades : /\ DustOf[i] \in Nat /\ ExecOf[i] \in Nat /\ OriginOf[i] \in Nat
                        /\ NetOf(DustOf)[i] \in Nat /\ NetOf(NoDust)[i] \in Nat
  BY TradeFacts
<1>3. /\ SumFunctionOnSet(DustOf, Bought(S, t)) \in Nat
      /\ SumFunctionOnSet(ExecOf, Bought(S, t)) \in Nat
      /\ SumFunctionOnSet(ExecOf, Sold(S, t)) \in Nat
  BY <1>1, <1>2, SumNat
<1>4. /\ SumFunctionOnSet(OriginOf, Bought(S, t)) \in Nat
      /\ SumFunctionOnSet(OriginOf, Sold(S, t)) \in Nat
  BY <1>1, <1>2, SumNat
<1>5. /\ SumFunctionOnSet(NetOf(DustOf), Bought(S, t)) \in Nat
      /\ SumFunctionOnSet(NetOf(NoDust), Bought(S, t)) \in Nat
  BY <1>1, <1>2, SumNat
<1>6. QED
  BY <1>1, <1>3, <1>4, <1>5

\* Every term of the invariant is a natural number.
LEMMA TermsAreNat ==
    ASSUME DustTypeOK, lost \subseteq done, NEW t \in Tokens
    PROVE  /\ TotalDust(t) \in Nat /\ SweptDust(t) \in Nat /\ LostSells(t) \in Nat /\ LostDust(t) \in Nat
           /\ \A i \in Trades : SweptOf[i] \in Nat /\ SweptOf[i] = Dust(i) * swept[i]
<1>1. done \in SUBSET Trades /\ IsFiniteSet(done) /\ lost \in SUBSET Trades /\ swept \in [Trades -> Nat]
  BY DEF DustTypeOK
<1>2. IsFiniteSet(lost)
  BY <1>1, FS_Subset
<1>3. \A i \in Trades : SweptOf[i] \in Nat /\ SweptOf[i] = Dust(i) * swept[i]
  <2> SUFFICES ASSUME NEW i \in Trades PROVE SweptOf[i] \in Nat /\ SweptOf[i] = Dust(i) * swept[i]
    OBVIOUS
  <2>1. Dust(i) \in Nat /\ swept[i] \in Nat
    BY <1>1, TradeFacts
  <2>2. Dust(i) * swept[i] \in Nat
    BY <2>1
  <2>3. SweptOf[i] = Dust(i) * swept[i]
    BY DEF SweptOf
  <2>4. QED
    BY <2>2, <2>3
<1>4. SumFunctionOnSet(ExecOf, Sold(lost, t)) \in Nat
  BY <1>1, <1>2, SumsAreNat
<1>5. /\ IsFiniteSet(Bought(done, t)) /\ Bought(done, t) \subseteq Trades
      /\ SumFunctionOnSet(DustOf, Bought(done, t)) \in Nat
  BY <1>1, SumsAreNat
<1>6. SweptDust(t) \in Nat
  BY <1>3, <1>5, SumNat DEF SweptDust
<1>7. LostSells(t) \in Nat
  BY <1>4, SumEmpty DEF LostSells
<1>8. LostDust(t) \in Nat
  BY <1>5, SumEmpty DEF LostDust
<1>9. QED
  BY <1>3, <1>5, <1>6, <1>7, <1>8 DEF TotalDust

-----------------------------------------------------------------------------
(* What is tracked is held: the steps.                                     *)

\* Lost copies were confirmed.
LEMMA LostAreDone == (DustInv => lost \subseteq done) /\ (DustInv' => lost' \subseteq done')
  BY DEF DustInv, PlaceInv, DustTypeOK

LEMMA DoneStep == ASSUME DustInv, DoneInv, DustInv', [Next]_vars PROVE DoneInv'
<1>1. lost' \subseteq done'
  BY LostAreDone
<1>2. /\ queue \in Seq(Trades) /\ dust \in Seq(Trades) /\ storing \in StoringType
      /\ done \subseteq Trades
  BY DEF DustInv, DustTypeOK
<1>3. done \subseteq done'
  BY DEF Next, vars, storeVars, ghostVars, InsertTrade, ForgetHistory, FailedExecution, SweepStep,
     ProcessDust, SendChunk, ChunkError, ClearDust, sweepUnchanged, DatabaseStep, ReceiveTrade,
     InsertFile, InsertOriginRow, InsertExecRow, InsertLink, StoreError, PushDust, storeUnchanged,
     Crash, BootstrapFile, BootstrapPostgres
<1>4. \/ storing' = storing \/ ReceiveTrade \/ storing' = Idle
      \/ storing.step # "idle" /\ storing'.trade = storing.trade
  <2>1. CASE \/ InsertFile \/ InsertOriginRow \/ InsertExecRow \/ InsertLink
             \/ \E tears \in BOOLEAN : StoreError(tears)
    <3>1. /\ storing.step # "idle"
          /\ \/ storing' = [storing EXCEPT !.step = "dust"]
             \/ storing' = [storing EXCEPT !.step = "link"]
             \/ storing' = [storing EXCEPT !.step = "exec", !.origin = Len(rows) + 1]
      BY <2>1 DEF InsertFile, InsertOriginRow, InsertExecRow, InsertLink, StoreError
    <3>2. QED
      BY <1>2, <3>1 DEF StoringType
  <2>2. CASE ~(\/ InsertFile \/ InsertOriginRow \/ InsertExecRow \/ InsertLink
               \/ \E tears \in BOOLEAN : StoreError(tears))
    BY <2>2 DEF Next, vars, InsertTrade, ForgetHistory, FailedExecution, SweepStep,
       ProcessDust, SendChunk, ChunkError, ClearDust, sweepUnchanged, DatabaseStep,
       PushDust, Crash, BootstrapFile, BootstrapPostgres
  <2>3. QED
    BY <2>1, <2>2
<1>5. storing'.step # "idle" => storing'.trade \in done'
  <2>1. CASE ReceiveTrade
    <3>1. storing'.trade = Head(queue) /\ queue # <<>>
      BY <2>1 DEF ReceiveTrade
    <3>2. 1 \in DOMAIN queue /\ Head(queue) = queue[1] /\ queue[1] \in Trades
      BY <1>2, <3>1
    <3>3. queue[1] \in done
      BY <3>2 DEF DustInv, PlaceInv, Waiting
    <3>4. QED
      BY <1>3, <3>1, <3>2, <3>3
  <2>2. CASE storing' = Idle
    BY <2>2 DEF Idle
  <2>3. QED
    BY <1>3, <1>4, <2>1, <2>2 DEF DoneInv
<1>6. dust' = dust \/ dust' = <<>> \/ (dust' = Append(dust, storing.trade) /\ storing.step # "idle")
  BY DEF Next, vars, InsertTrade, ForgetHistory, FailedExecution, SweepStep,
     ProcessDust, SendChunk, ChunkError, ClearDust, sweepUnchanged, DatabaseStep, ReceiveTrade,
     InsertFile, InsertOriginRow, InsertExecRow, InsertLink, StoreError, PushDust,
     Crash, BootstrapFile, BootstrapPostgres
<1>7. \A j \in DOMAIN dust' : dust'[j] \in done'
  <2>1. CASE dust' = Append(dust, storing.trade) /\ storing.step # "idle"
    <3>1. \A j \in DOMAIN dust' : dust'[j] = storing.trade \/ (j \in DOMAIN dust /\ dust'[j] = dust[j])
      BY <1>2, <2>1
    <3>2. QED
      BY <1>3, <2>1, <3>1 DEF DoneInv
  <2>2. CASE dust' = <<>>
    BY <2>2
  <2>3. CASE dust' = dust
    BY <1>3, <2>3 DEF DoneInv
  <2>4. QED
    BY <1>6, <2>1, <2>2, <2>3
<1>8. QED
  BY <1>1, <1>5, <1>7 DEF DoneInv

\* Steps that confirm and sweep nothing.
LEMMA TermsKept ==
    ASSUME DustTypeOK, lost' \in SUBSET done', lost \subseteq lost', NEW t \in Tokens,
           UNCHANGED <<kind, restarted, done, swept>>
    PROVE  /\ TotalDust(t)' = TotalDust(t) /\ SweptDust(t)' = SweptDust(t)
           /\ LostDust(t)' = LostDust(t) /\ LostSells(t) <= LostSells(t)' /\ LostSells(t)' \in Nat
<1>1. TotalDust(t)' = TotalDust(t) /\ SweptDust(t)' = SweptDust(t) /\ LostDust(t)' = LostDust(t)
  BY DEF TotalDust, SweptDust, LostDust, SweptOf, Bought
<1>2. done \in SUBSET Trades /\ IsFiniteSet(done) /\ lost' \in SUBSET Trades /\ IsFiniteSet(lost')
  BY FS_Subset DEF DustTypeOK
<1>3. /\ IsFiniteSet(Sold(lost', t)) /\ Sold(lost', t) \subseteq Trades
      /\ SumFunctionOnSet(ExecOf, Sold(lost', t)) \in Nat
  BY <1>2, SumsAreNat
<1>4. Sold(lost, t) \in SUBSET Sold(lost', t)
  BY DEF Sold
<1>5. \A i \in Trades : ExecOf[i] \in Nat
  BY TradeFacts
<1>6. SumFunctionOnSet(ExecOf, Sold(lost, t)) <= SumFunctionOnSet(ExecOf, Sold(lost', t))
  BY <1>3, <1>4, <1>5, SumSubset
<1>7. Sold(lost, t)' = Sold(lost', t)
  BY DEF Sold
<1>8. LostSells(t) <= LostSells(t)' /\ LostSells(t)' \in Nat
  BY <1>3, <1>6, <1>7, SumEmpty DEF LostSells
<1>9. QED
  BY <1>1, <1>8

\* Steps of the database task, and the steps of process_dust that send nothing.
LEMMA HeldFrame ==
    ASSUME FullInv, DustInv', lost \subseteq lost',
           UNCHANGED <<kind, status, memory, balance, oversold, restarted, done, swept>>
    PROVE  HeldTypeOK' /\ BalanceInv' /\ HeldInv'
<1>1. lost' \in SUBSET done' /\ lost \subseteq done
  BY LostAreDone DEF FullInv
<1>2. DustTypeOK /\ DustTypeOK'
  BY DEF FullInv, DustInv
<1>3. HeldTypeOK'
  BY DEF FullInv, HeldTypeOK
<1>4. \A t \in Tokens : /\ TotalDust(t)' = TotalDust(t) /\ SweptDust(t)' = SweptDust(t)
                        /\ LostDust(t)' = LostDust(t) /\ LostSells(t) <= LostSells(t)'
                        /\ LostSells(t)' \in Nat
  BY <1>1, <1>2, TermsKept
<1>5. \A t \in Tokens : /\ TotalDust(t) \in Nat /\ SweptDust(t) \in Nat
                        /\ LostSells(t) \in Nat /\ LostDust(t) \in Nat
  BY <1>1, <1>2, TermsAreNat
<1>7. BalanceInv'
  BY <1>4 DEF FullInv, BalanceInv, Bought, Sold
<1>8. HeldInv'
  <2> SUFFICES ASSUME status = "up", NEW t \in Tokens
               PROVE  memory[t].execBuy + TotalDust(t)
                        <= memory[t].execSell + balance[t] + oversold[t] + SweptDust(t)
                             + LostSells(t)' + LostDust(t)
    BY <1>4 DEF FullInv, HeldInv, NoVolumes
  <2>1. memory[t].execBuy \in Nat /\ memory[t].execSell \in Nat /\ balance[t] \in Nat /\ oversold[t] \in Nat
    BY DEF FullInv, HeldTypeOK, Volumes
  <2>2. memory[t].execBuy + TotalDust(t)
          <= memory[t].execSell + balance[t] + oversold[t] + SweptDust(t) + LostSells(t) + LostDust(t)
    BY DEF FullInv, HeldInv
  <2>3. QED
    BY <1>4, <1>5, <2>1, <2>2
<1>9. QED
  BY <1>3, <1>7, <1>8

\* One confirmed copy more, as the sums see it.
LEMMA OneMore ==
    ASSUME DustTypeOK, NEW i \in Trades, i \notin done, NEW t \in Tokens, done' = done \cup {i}
    PROVE  /\ Trade[i].token # t =>
                Bought(done', t) = Bought(done, t) /\ Sold(done', t) = Sold(done, t)
           /\ Trade[i].token = t /\ Trade[i].direction = "sell" =>
                /\ Bought(done', t) = Bought(done, t)
                /\ SumFunctionOnSet(ExecOf, Sold(done', t)) = Trade[i].exec + SumFunctionOnSet(ExecOf, Sold(done, t))
           /\ Trade[i].token = t /\ Trade[i].direction = "buy" =>
                /\ Sold(done', t) = Sold(done, t)
                /\ Bought(done', t) = Bought(done, t) \cup {i} /\ i \notin Bought(done, t)
                /\ SumFunctionOnSet(ExecOf, Bought(done', t)) = Trade[i].exec + SumFunctionOnSet(ExecOf, Bought(done, t))
                /\ SumFunctionOnSet(DustOf, Bought(done', t)) = Dust(i) + SumFunctionOnSet(DustOf, Bought(done, t))
                /\ SumFunctionOnSet(SweptOf, Bought(done', t)) = SweptOf[i] + SumFunctionOnSet(SweptOf, Bought(done, t))
<1>1. done \in SUBSET Trades /\ IsFiniteSet(done)
  BY DEF DustTypeOK
<1>2. /\ IsFiniteSet(Bought(done, t)) /\ Bought(done, t) \subseteq Trades /\ i \notin Bought(done, t)
      /\ IsFiniteSet(Sold(done, t)) /\ Sold(done, t) \subseteq Trades /\ i \notin Sold(done, t)
  BY <1>1, SumsAreNat DEF Bought, Sold
<1>3. \A k \in Trades : DustOf[k] \in Nat /\ ExecOf[k] \in Nat
  BY TradeFacts
<1>4. DustOf[i] = Dust(i) /\ ExecOf[i] = Trade[i].exec
  BY TradeFacts
<1>5. \A k \in Trades : SweptOf[k] \in Nat
  <2> SUFFICES ASSUME NEW k \in Trades PROVE SweptOf[k] \in Nat
    OBVIOUS
  <2>1. Dust(k) \in Nat /\ swept[k] \in Nat
    BY TradeFacts DEF DustTypeOK
  <2>2. Dust(k) * swept[k] \in Nat
    BY <2>1
  <2>3. QED
    BY <2>2 DEF SweptOf
<1>6. CASE Trade[i].token # t
  BY <1>6 DEF Bought, Sold
<1>7. CASE Trade[i].token = t /\ Trade[i].direction = "sell"
  <2>1. Bought(done', t) = Bought(done, t) /\ Sold(done', t) = Sold(done, t) \cup {i}
    BY <1>7 DEF Bought, Sold
  <2>2. SumFunctionOnSet(ExecOf, Sold(done, t) \cup {i}) = ExecOf[i] + SumFunctionOnSet(ExecOf, Sold(done, t))
    BY <1>2, <1>3, SumAdd
  <2>3. QED
    BY <1>4, <1>7, <2>1, <2>2
<1>8. CASE Trade[i].token = t /\ Trade[i].direction = "buy"
  <2>1. Sold(done', t) = Sold(done, t) /\ Bought(done', t) = Bought(done, t) \cup {i}
    BY <1>8 DEF Bought, Sold
  <2>2. SumFunctionOnSet(ExecOf, Bought(done, t) \cup {i}) = ExecOf[i] + SumFunctionOnSet(ExecOf, Bought(done, t))
    BY <1>2, <1>3, SumAdd
  <2>3. SumFunctionOnSet(DustOf, Bought(done, t) \cup {i}) = DustOf[i] + SumFunctionOnSet(DustOf, Bought(done, t))
    BY <1>2, <1>3, SumAdd
  <2>4. SumFunctionOnSet(SweptOf, Bought(done, t) \cup {i}) = SweptOf[i] + SumFunctionOnSet(SweptOf, Bought(done, t))
    BY <1>2, <1>5, SumAdd
  <2>5. QED
    BY <1>2, <1>4, <1>8, <2>1, <2>2, <2>3, <2>4
<1>9. QED
  BY <1>6, <1>7, <1>8, TradeFacts

\* insert_trade_inner on an entry.
LEMMA EntryAfter ==
    ASSUME NEW h \in Volumes, NEW i \in Trades
    PROVE  /\ InsertInner(h, i, Dust(i)) \in Volumes
           /\ Trade[i].direction = "buy" =>
                /\ InsertInner(h, i, Dust(i)).execBuy = h.execBuy + (Trade[i].exec - Dust(i))
                /\ InsertInner(h, i, Dust(i)).execSell = h.execSell
           /\ Trade[i].direction = "sell" =>
                /\ InsertInner(h, i, Dust(i)).execBuy = h.execBuy
                /\ InsertInner(h, i, Dust(i)).execSell = h.execSell + Trade[i].exec
<1> DEFINE o == Trade[i].origin
           e == Trade[i].exec - Dust(i)
<1>1. /\ o \in Nat /\ e \in Nat /\ Trade[i].direction \in {"buy", "sell"}
      /\ Trade[i].direction = "sell" => e = Trade[i].exec
  BY TradeFacts
<1>2. InsertInner(h, i, Dust(i)) = AddTrade(h, Trade[i].direction, o, e)
  BY DEF InsertInner
<1> HIDE DEF o, e
<1>3. QED
  BY <1>1, <1>2, AddTradeFacts DEF e

LEMMA InsertTradeHeld ==
    ASSUME FullInv, NEW i \in Trades, InsertTrade(i)
    PROVE  HeldTypeOK' /\ BalanceInv' /\ HeldInv'
<1> DEFINE u == Trade[i].token
           e == Trade[i].exec
<1>1. /\ status = "up" /\ i \notin done /\ done' = done \cup {i}
      /\ Trade[i].direction = "sell" => balance[u] >= e
      /\ balance' = [balance EXCEPT ![u] = IF Trade[i].direction = "buy" THEN @ + e ELSE @ - e]
      /\ memory' = [memory EXCEPT ![u] = InsertInner(@, i, Dust(i))]
      /\ UNCHANGED <<kind, status, swept, lost, oversold, restarted>>
  BY DEF InsertTrade, MainIdle
<1>2. /\ u \in Tokens /\ e \in Nat /\ Dust(i) \in Nat /\ Dust(i) <= e /\ Trade[i].direction \in {"buy", "sell"}
  BY TradeFacts
<1>3. /\ memory \in [Tokens -> Volumes] /\ balance \in [Tokens -> Nat] /\ oversold \in [Tokens -> Nat]
      /\ DustTypeOK /\ lost \subseteq done
  BY DEF FullInv, HeldTypeOK, DustInv, DoneInv
<1>4. InsertInner(memory[u], i, Dust(i)) \in Volumes
  BY <1>2, <1>3, EntryAfter
<1>5. HeldTypeOK'
  <2>1. memory' \in [Tokens -> Volumes]
    BY <1>1, <1>2, <1>3, <1>4
  <2>2. balance' \in [Tokens -> Nat]
    BY <1>1, <1>2, <1>3
  <2>3. QED
    BY <1>1, <1>3, <2>1, <2>2 DEF HeldTypeOK
<1>6. ASSUME NEW t \in Tokens
      PROVE  /\ SumFunctionOnSet(ExecOf, Bought(done', t))
                  <= balance'[t] + SumFunctionOnSet(ExecOf, Sold(done', t)) + SweptDust(t)'
             /\ memory'[t].execBuy + TotalDust(t)'
                  <= memory'[t].execSell + balance'[t] + oversold[t] + SweptDust(t)'
                       + LostSells(t)' + LostDust(t)'
  <2> DEFINE D == SumFunctionOnSet(DustOf, Bought(done, t))
             W == SumFunctionOnSet(SweptOf, Bought(done, t))
             B == SumFunctionOnSet(ExecOf, Bought(done, t))
             S == SumFunctionOnSet(ExecOf, Sold(done, t))
             eb == memory[t].execBuy
             es == memory[t].execSell
             LS == LostSells(t)
             LD == LostDust(t)
  <2>1. D \in Nat /\ W \in Nat /\ LS \in Nat /\ LD \in Nat /\ SweptOf[i] \in Nat
    BY <1>3, TermsAreNat DEF TotalDust, SweptDust
  <2>2. B \in Nat /\ S \in Nat
    BY <1>3, SumsAreNat DEF DustTypeOK
  <2>3. eb \in Nat /\ es \in Nat /\ balance[t] \in Nat /\ oversold[t] \in Nat
    BY <1>3 DEF Volumes
  <2>4. B <= balance[t] + S + W
    BY DEF FullInv, BalanceInv, SweptDust
  <2>5. eb + D <= es + balance[t] + oversold[t] + W + LS + LD
    BY <1>1 DEF FullInv, HeldInv, TotalDust, SweptDust
  <2>6. /\ TotalDust(t)' = SumFunctionOnSet(DustOf, Bought(done', t))
        /\ SweptDust(t)' = SumFunctionOnSet(SweptOf, Bought(done', t))
        /\ LostSells(t)' = LS
        /\ LostDust(t)' = IF restarted /\ kind = "postgres"
                          THEN SumFunctionOnSet(DustOf, Bought(done', t)) ELSE 0
        /\ LD = IF restarted /\ kind = "postgres" THEN D ELSE 0
    <3>1. SweptOf' = SweptOf
      BY <1>1 DEF SweptOf
    <3>2. Bought(done, t)' = Bought(done', t) /\ Sold(lost, t)' = Sold(lost, t)
      BY <1>1 DEF Bought, Sold
    <3>3. QED
      BY <1>1, <3>1, <3>2, SumEmpty DEF TotalDust, SweptDust, LostSells, LostDust
  <2>7. CASE u # t
    <3>1. Bought(done', t) = Bought(done, t) /\ Sold(done', t) = Sold(done, t)
      BY <1>1, <1>3, <2>7, OneMore
    <3>2. memory'[t] = memory[t] /\ balance'[t] = balance[t]
      BY <1>1, <1>3, <2>7
    <3>3. QED
      BY <2>4, <2>5, <2>6, <3>1, <3>2
  <2>8. CASE u = t /\ Trade[i].direction = "sell"
    <3>1. Bought(done', t) = Bought(done, t) /\ SumFunctionOnSet(ExecOf, Sold(done', t)) = e + S
      BY <1>1, <1>3, <2>8, OneMore
    <3>2. balance'[t] = balance[t] - e /\ balance[t] >= e
      BY <1>1, <1>3, <2>8
    <3>3. memory'[t].execBuy = eb /\ memory'[t].execSell = es + e
      BY <1>1, <1>3, <2>8, EntryAfter
    <3> HIDE DEF D, W, B, S, eb, es, LS, LD, e
    <3>4. B <= balance'[t] + (e + S) + W
      BY <1>2, <2>1, <2>2, <2>3, <2>4, <3>2
    <3>5. eb + D <= (es + e) + balance'[t] + oversold[t] + W + LS + LD
      BY <1>2, <2>1, <2>2, <2>3, <2>5, <3>2
    <3>6. QED
      BY <2>6, <3>1, <3>3, <3>4, <3>5 DEF D, W, B
  <2>9. CASE u = t /\ Trade[i].direction = "buy"
    <3>1. /\ Sold(done', t) = Sold(done, t)
          /\ SumFunctionOnSet(ExecOf, Bought(done', t)) = e + B
          /\ SumFunctionOnSet(DustOf, Bought(done', t)) = Dust(i) + D
          /\ SumFunctionOnSet(SweptOf, Bought(done', t)) = SweptOf[i] + W
      BY <1>1, <1>3, <2>9, OneMore
    <3>2. balance'[t] = balance[t] + e
      BY <1>1, <1>3, <2>9
    <3>3. memory'[t].execBuy = eb + (e - Dust(i)) /\ memory'[t].execSell = es
      BY <1>1, <1>3, <2>9, EntryAfter
    <3> HIDE DEF D, W, B, S, eb, es, LS, LD, e
    <3>4. e + B <= balance'[t] + S + (SweptOf[i] + W)
      BY <1>2, <2>1, <2>2, <2>3, <2>4, <3>2
    <3>5. LostDust(t)' \in Nat /\ LD <= LostDust(t)'
      BY <1>2, <2>1, <2>6, <3>1
    <3>6. eb + (e - Dust(i)) + (Dust(i) + D)
            <= es + balance'[t] + oversold[t] + (SweptOf[i] + W) + LS + LostDust(t)'
      BY <1>2, <2>1, <2>2, <2>3, <2>5, <3>2, <3>5
    <3>7. QED
      BY <2>6, <3>1, <3>3, <3>4, <3>6 DEF S
  <2>10. QED
    BY <1>2, <2>7, <2>8, <2>9
<1>7. BalanceInv'
  <2>1. \A t \in Tokens : Bought(done, t)' = Bought(done', t) /\ Sold(done, t)' = Sold(done', t)
    BY DEF Bought, Sold
  <2>2. QED
    BY <1>6, <2>1 DEF BalanceInv
<1>8. HeldInv'
  BY <1>1, <1>6 DEF HeldInv
<1>9. QED
  BY <1>5, <1>7, <1>8

\* remove_history forgets what was bought with what was sold; handle_failed_execution
\* adds to what the origin wallet sold.
LEMMA HistoryHeld ==
    ASSUME FullInv, NEW u \in Tokens, ForgetHistory(u) \/ FailedExecution(u)
    PROVE  HeldTypeOK' /\ BalanceInv' /\ HeldInv'
<1> DEFINE over == Beyond(memory[u].execSell, memory[u].execBuy)
<1>1. /\ status = "up"
      /\ \/ /\ memory' = [memory EXCEPT ![u] = EmptyVolumes]
            /\ oversold' = [oversold EXCEPT ![u] = @ + over]
         \/ /\ memory' = [memory EXCEPT ![u].originSell = @ + 1] /\ oversold' = oversold
      /\ UNCHANGED <<kind, status, balance, swept, done, lost, restarted>>
  BY DEF ForgetHistory, FailedExecution, MainIdle, ghostVars
<1>2. /\ memory \in [Tokens -> Volumes] /\ balance \in [Tokens -> Nat] /\ oversold \in [Tokens -> Nat]
      /\ DustTypeOK /\ lost \subseteq done
  BY DEF FullInv, HeldTypeOK, DustInv, DoneInv
<1>3. /\ memory[u].execBuy \in Nat /\ memory[u].execSell \in Nat /\ memory[u].originSell \in Nat
      /\ memory[u] \in Volumes
  BY <1>2 DEF Volumes
<1>4. over \in Nat /\ memory[u].execSell <= memory[u].execBuy + over
  BY <1>3 DEF Beyond
<1>5. EmptyVolumes \in Volumes /\ EmptyVolumes.execBuy = 0 /\ EmptyVolumes.execSell = 0
  BY DEF EmptyVolumes, Volumes
<1> HIDE DEF over
<1>6. CASE memory' = [memory EXCEPT ![u].originSell = @ + 1] /\ oversold' = oversold
  <2>1. /\ [memory[u] EXCEPT !.originSell = @ + 1] \in Volumes
        /\ [memory[u] EXCEPT !.originSell = @ + 1].execBuy = memory[u].execBuy
        /\ [memory[u] EXCEPT !.originSell = @ + 1].execSell = memory[u].execSell
    BY <1>3 DEF Volumes
  <2>2. /\ memory' \in [Tokens -> Volumes]
        /\ \A t \in Tokens : memory'[t].execBuy = memory[t].execBuy /\ memory'[t].execSell = memory[t].execSell
    BY <1>2, <1>6, <2>1
  <2>3. QED
    BY <1>1, <1>2, <1>6, <2>2
       DEF FullInv, HeldTypeOK, BalanceInv, HeldInv, TotalDust, SweptDust, LostSells, LostDust, SweptOf,
           Bought, Sold
<1>7. CASE /\ memory' = [memory EXCEPT ![u] = EmptyVolumes]
           /\ oversold' = [oversold EXCEPT ![u] = @ + over]
  <2>1. HeldTypeOK'
    BY <1>1, <1>2, <1>4, <1>5, <1>7 DEF HeldTypeOK
  <2>2. \A t \in Tokens : /\ TotalDust(t)' = TotalDust(t) /\ SweptDust(t)' = SweptDust(t)
                          /\ LostDust(t)' = LostDust(t) /\ LostSells(t)' = LostSells(t)
    BY <1>1 DEF TotalDust, SweptDust, LostSells, LostDust, SweptOf, Bought, Sold
  <2>3. BalanceInv'
    BY <1>1, <2>2 DEF FullInv, BalanceInv, Bought, Sold
  <2>4. ASSUME NEW t \in Tokens
        PROVE  memory'[t].execBuy + TotalDust(t)
                 <= memory'[t].execSell + balance[t] + oversold'[t] + SweptDust(t) + LostSells(t) + LostDust(t)
    <3>1. memory[t].execBuy + TotalDust(t)
            <= memory[t].execSell + balance[t] + oversold[t] + SweptDust(t) + LostSells(t) + LostDust(t)
      BY <1>1 DEF FullInv, HeldInv
    <3>2. CASE t # u
      BY <1>2, <1>7, <3>1, <3>2
    <3>3. CASE t = u
      <4>1. memory'[t].execBuy = 0 /\ memory'[t].execSell = 0 /\ oversold'[t] = oversold[t] + over
        BY <1>2, <1>5, <1>7, <3>3
      <4>2. TotalDust(t) \in Nat /\ SweptDust(t) \in Nat /\ LostSells(t) \in Nat /\ LostDust(t) \in Nat
        BY <1>2, TermsAreNat
      <4>3. balance[t] \in Nat /\ oversold[t] \in Nat
        BY <1>2
      <4>4. QED
        BY <1>3, <1>4, <3>1, <3>3, <4>1, <4>2, <4>3
    <3>4. QED
      BY <3>2, <3>3
  <2>5. HeldInv'
    BY <1>1, <2>2, <2>4 DEF HeldInv
  <2>6. QED
    BY <2>1, <2>3, <2>5
<1>8. QED
  BY <1>1, <1>6, <1>7

\* A chunk of dust leaves the wallet when it lands, and counts as sent in any case.
LEMMA SendChunkHeld ==
    ASSUME FullInv, NEW lands \in BOOLEAN, SendChunk(lands)
    PROVE  HeldTypeOK' /\ BalanceInv' /\ HeldInv'
<1> DEFINE C(t) == Bought(Chunk(sweep), t)
           moved(t) == SumFunctionOnSet(DustOf, C(t))
<1>1. /\ status = "up"
      /\ lands => \A t \in Tokens : moved(t) <= balance[t]
      /\ balance' = [t \in Tokens |-> IF lands THEN balance[t] - moved(t) ELSE balance[t]]
      /\ swept' = [i \in Trades |-> swept[i] + IF i \in Chunk(sweep) THEN 1 ELSE 0]
      /\ UNCHANGED <<kind, status, memory, done, lost, oversold, restarted>>
  BY DEF SendChunk, sweepUnchanged, ghostVars
<1>2. /\ memory \in [Tokens -> Volumes] /\ balance \in [Tokens -> Nat] /\ oversold \in [Tokens -> Nat]
      /\ DustTypeOK /\ lost \subseteq done /\ done \in SUBSET Trades /\ IsFiniteSet(done)
      /\ swept \in [Trades -> Nat]
  BY DEF FullInv, HeldTypeOK, DustInv, DoneInv, DustTypeOK
<1>3. Chunk(sweep) \in SUBSET done /\ IsFiniteSet(Chunk(sweep))
  <2>1. Chunk(sweep) \in SUBSET done
    <3>1. DOMAIN dust = 1 .. Len(dust) /\ \A j \in DOMAIN dust : dust[j] \in done
      BY <1>2 DEF DustTypeOK, FullInv, DoneInv
    <3>2. QED
      BY <3>1 DEF Chunk
  <2>2. QED
    BY <1>2, <2>1, FS_Subset
<1>4. ASSUME NEW t \in Tokens
      PROVE  moved(t) \in Nat /\ SweptDust(t)' = SweptDust(t) + moved(t)
  <2>1. moved(t) \in Nat
    BY <1>2, <1>3, SumsAreNat
  <2>2. C(t) \in SUBSET Bought(done, t) /\ IsFiniteSet(Bought(done, t)) /\ Bought(done, t) \subseteq Trades
    BY <1>2, <1>3, SumsAreNat DEF Bought
  <2>3. \A x \in Bought(done, t) : x \in C(t) <=> x \in Chunk(sweep)
    BY DEF Bought
  <2>4. \A x \in Trades : SweptOf[x] \in Nat /\ DustOf[x] \in Nat
    BY <1>2, TermsAreNat, TradeFacts
  <2>5. ASSUME NEW x \in Trades
        PROVE  SweptOf'[x] = IF x \in Chunk(sweep) THEN SweptOf[x] + DustOf[x] ELSE SweptOf[x]
    <3>1. Dust(x) \in Nat /\ swept[x] \in Nat /\ DustOf[x] = Dust(x)
      BY <1>2, TradeFacts
    <3>2. swept'[x] = IF x \in Chunk(sweep) THEN swept[x] + 1 ELSE swept[x]
      BY <1>1, <1>2
    <3>3. SweptOf'[x] = Dust(x) * swept'[x] /\ SweptOf[x] = Dust(x) * swept[x]
      BY DEF SweptOf
    <3>4. Dust(x) * (swept[x] + 1) = Dust(x) * swept[x] + Dust(x)
      BY <3>1
    <3>5. QED
      BY <3>1, <3>2, <3>3, <3>4
  <2>6. Bought(done, t)' = Bought(done, t)
    BY <1>1 DEF Bought
  <2> HIDE DEF C
  <2>7. SumFunctionOnSet(SweptOf', Bought(done, t))
          = SumFunctionOnSet(SweptOf, Bought(done, t)) + SumFunctionOnSet(DustOf, C(t))
    BY <2>2, <2>3, <2>4, <2>5, SumGrows
  <2>8. QED
    BY <2>1, <2>6, <2>7 DEF SweptDust
<1>5. \A t \in Tokens : /\ TotalDust(t)' = TotalDust(t)
                        /\ LostDust(t)' = LostDust(t) /\ LostSells(t)' = LostSells(t)
  BY <1>1 DEF TotalDust, LostSells, LostDust, Bought, Sold
<1> HIDE DEF moved
<1>6. ASSUME NEW t \in Tokens
      PROVE  balance'[t] \in Nat /\ balance[t] + SweptDust(t) <= balance'[t] + SweptDust(t)'
  <2>1. moved(t) \in Nat /\ balance[t] \in Nat /\ SweptDust(t) \in Nat /\ (lands => moved(t) <= balance[t])
    BY <1>1, <1>2, <1>4, TermsAreNat
  <2>2. balance'[t] = IF lands THEN balance[t] - moved(t) ELSE balance[t]
    BY <1>1
  <2>3. QED
    BY <1>4, <2>1, <2>2
<1>7. HeldTypeOK'
  BY <1>1, <1>2, <1>6 DEF HeldTypeOK
<1>8. ASSUME NEW t \in Tokens
      PROVE  /\ SumFunctionOnSet(ExecOf, Bought(done, t))
                  <= balance'[t] + SumFunctionOnSet(ExecOf, Sold(done, t)) + SweptDust(t)'
             /\ memory[t].execBuy + TotalDust(t)
                  <= memory[t].execSell + balance'[t] + oversold[t] + SweptDust(t)' + LostSells(t) + LostDust(t)
  <2>1. /\ TotalDust(t) \in Nat /\ SweptDust(t) \in Nat /\ LostSells(t) \in Nat /\ LostDust(t) \in Nat
        /\ moved(t) \in Nat /\ SweptDust(t)' = SweptDust(t) + moved(t)
    BY <1>2, <1>4, TermsAreNat
  <2>2. /\ memory[t].execBuy \in Nat /\ memory[t].execSell \in Nat /\ oversold[t] \in Nat /\ balance[t] \in Nat
    BY <1>2 DEF Volumes
  <2>3. SumFunctionOnSet(ExecOf, Bought(done, t)) \in Nat /\ SumFunctionOnSet(ExecOf, Sold(done, t)) \in Nat
    BY <1>2, SumsAreNat
  <2>4. SumFunctionOnSet(ExecOf, Bought(done, t))
          <= balance[t] + SumFunctionOnSet(ExecOf, Sold(done, t)) + SweptDust(t)
    BY DEF FullInv, BalanceInv
  <2>5. memory[t].execBuy + TotalDust(t)
          <= memory[t].execSell + balance[t] + oversold[t] + SweptDust(t) + LostSells(t) + LostDust(t)
    BY <1>1 DEF FullInv, HeldInv
  <2>6. QED
    BY <1>6, <2>1, <2>2, <2>3, <2>4, <2>5
<1>9. BalanceInv'
  <2>1. \A t \in Tokens : Bought(done, t)' = Bought(done, t) /\ Sold(done, t)' = Sold(done, t)
    BY <1>1 DEF Bought, Sold
  <2>2. QED
    BY <1>8, <2>1 DEF BalanceInv
<1>10. HeldInv'
  BY <1>1, <1>5, <1>8 DEF HeldInv
<1>11. QED
  BY <1>7, <1>9, <1>10

LEMMA CrashHeld ==
    ASSUME FullInv, NEW tears \in BOOLEAN, Crash(tears)
    PROVE  HeldTypeOK' /\ BalanceInv' /\ HeldInv'
<1>1. /\ memory' = NoVolumes /\ oversold' = [t \in Tokens |-> 0] /\ status' = "down"
      /\ UNCHANGED <<balance, swept, done>>
  BY DEF Crash
<1>2. NoVolumes \in [Tokens -> Volumes]
  BY DEF NoVolumes, EmptyVolumes, Volumes
<1>3. HeldTypeOK'
  BY <1>1, <1>2 DEF FullInv, HeldTypeOK
<1>4. BalanceInv'
  BY <1>1 DEF FullInv, BalanceInv, SweptDust, SweptOf, Bought, Sold
<1>5. HeldInv'
  BY <1>1 DEF HeldInv, NoVolumes
<1>6. QED
  BY <1>3, <1>4, <1>5

\* A history rebuilt from the stored copies claims no more than the copies that
\* were confirmed brought in; the sells that are missing from it are lost ones.
LEMMA RebuiltHeld ==
    ASSUME FullInv, status = "down", NEW net, net \in {DustOf, NoDust},
           kind = "file" => net = DustOf,
           status' = "up", memory' = Rebuild(done \ lost, net), restarted',
           UNCHANGED <<kind, balance, oversold, swept, done, lost>>
    PROVE  HeldTypeOK' /\ BalanceInv' /\ HeldInv'
<1>1. /\ balance \in [Tokens -> Nat] /\ oversold \in [Tokens -> Nat] /\ swept \in [Trades -> Nat]
      /\ DustTypeOK /\ lost \subseteq done /\ done \in SUBSET Trades /\ IsFiniteSet(done)
      /\ kind \in {"file", "postgres"}
  BY DEF FullInv, HeldTypeOK, DustInv, DoneInv, DustTypeOK
<1>2. done \ lost \in SUBSET Trades /\ IsFiniteSet(done \ lost)
  BY <1>1, FS_Subset
<1>3. ASSUME NEW t \in Tokens
      PROVE  /\ memory'[t] \in Volumes
             /\ memory'[t].execBuy = SumFunctionOnSet(NetOf(net), Bought(done \ lost, t))
             /\ memory'[t].execSell = SumFunctionOnSet(ExecOf, Sold(done \ lost, t))
  <2>1. memory'[t] = [originBuy |-> SumFunctionOnSet(OriginOf, Bought(done \ lost, t)),
                      originSell |-> SumFunctionOnSet(OriginOf, Sold(done \ lost, t)),
                      execBuy |-> SumFunctionOnSet(NetOf(net), Bought(done \ lost, t)),
                      execSell |-> SumFunctionOnSet(ExecOf, Sold(done \ lost, t))]
    BY DEF Rebuild
  <2>2. /\ SumFunctionOnSet(OriginOf, Bought(done \ lost, t)) \in Nat
        /\ SumFunctionOnSet(OriginOf, Sold(done \ lost, t)) \in Nat
        /\ SumFunctionOnSet(ExecOf, Sold(done \ lost, t)) \in Nat
        /\ SumFunctionOnSet(NetOf(net), Bought(done \ lost, t)) \in Nat
    BY <1>2, SumsAreNat
  <2>3. QED
    BY <2>1, <2>2 DEF Volumes
<1>4. HeldTypeOK'
  <2>1. memory' \in [Tokens -> Volumes]
    BY <1>3 DEF Rebuild
  <2>2. QED
    BY <1>1, <2>1 DEF HeldTypeOK
<1>5. BalanceInv'
  BY DEF FullInv, BalanceInv, SweptDust, SweptOf, Bought, Sold
<1>6. ASSUME NEW t \in Tokens
      PROVE  memory'[t].execBuy + TotalDust(t)'
               <= memory'[t].execSell + balance[t] + oversold[t] + SweptDust(t)' + LostSells(t)' + LostDust(t)'
  <2> DEFINE D == SumFunctionOnSet(DustOf, Bought(done, t))
             W == SumFunctionOnSet(SweptOf, Bought(done, t))
             B == SumFunctionOnSet(ExecOf, Bought(done, t))
             S == SumFunctionOnSet(ExecOf, Sold(done, t))
             N == SumFunctionOnSet(NetOf(net), Bought(done, t))
             eb == SumFunctionOnSet(NetOf(net), Bought(done \ lost, t))
             es == SumFunctionOnSet(ExecOf, Sold(done \ lost, t))
             ls == SumFunctionOnSet(ExecOf, Sold(lost, t))
  <2>1. D \in Nat /\ W \in Nat
    BY <1>1, TermsAreNat DEF TotalDust, SweptDust
  <2>2. /\ B \in Nat /\ S \in Nat /\ N \in Nat
        /\ IsFiniteSet(Bought(done, t)) /\ Bought(done, t) \subseteq Trades
        /\ IsFiniteSet(Sold(done, t)) /\ Sold(done, t) \subseteq Trades
    BY <1>1, SumsAreNat
  <2>3. eb \in Nat /\ es \in Nat
    BY <1>2, SumsAreNat
  <2>4. ls \in Nat
    <3>1. lost \in SUBSET Trades /\ IsFiniteSet(lost)
      BY <1>1, FS_Subset
    <3>2. QED
      BY <3>1, SumsAreNat
  <2>5. \A x \in Trades : /\ NetOf(net)[x] \in Nat /\ ExecOf[x] \in Nat /\ DustOf[x] \in Nat
                          /\ net = DustOf => ExecOf[x] = NetOf(net)[x] + DustOf[x]
                          /\ net = NoDust => ExecOf[x] = NetOf(net)[x]
    BY TradeFacts
  <2>6. eb <= N
    <3>1. Bought(done \ lost, t) \in SUBSET Bought(done, t)
      BY DEF Bought
    <3>2. QED
      BY <2>2, <2>5, <3>1, SumSubset
  <2>7. net = DustOf => B = N + D
    <3> SUFFICES ASSUME net = DustOf PROVE B = N + D
      OBVIOUS
    <3>1. \A x \in Bought(done, t) : /\ NetOf(net)[x] \in Nat /\ DustOf[x] \in Nat
                                     /\ ExecOf[x] = NetOf(net)[x] + DustOf[x]
      BY <2>2, <2>5
    <3>2. QED
      BY <2>2, <3>1, SumPlus
  <2>8. net = NoDust => B = N
    <3> SUFFICES ASSUME net = NoDust PROVE B = N
      OBVIOUS
    <3>1. \A x \in Bought(done, t) : ExecOf[x] = NetOf(net)[x]
      BY <2>2, <2>5
    <3>2. QED
      BY <2>2, <3>1, SumSame
  <2>9. S = ls + es
    <3>1. Sold(lost, t) \in SUBSET Sold(done, t) /\ Sold(done, t) \ Sold(lost, t) = Sold(done \ lost, t)
      BY <1>1 DEF Sold
    <3>2. \A x \in Sold(done, t) : ExecOf[x] \in Nat
      BY <2>2, <2>5
    <3>3. SumFunctionOnSet(ExecOf, Sold(done, t))
            = SumFunctionOnSet(ExecOf, Sold(lost, t))
                + SumFunctionOnSet(ExecOf, Sold(done, t) \ Sold(lost, t))
      BY <2>2, <3>1, <3>2, SumSplit
    <3>4. QED
      BY <3>1, <3>3
  <2>10. B <= balance[t] + S + W
    BY DEF FullInv, BalanceInv, SweptDust
  <2>11. /\ TotalDust(t)' = D /\ SweptDust(t)' = W /\ LostSells(t)' = ls
         /\ LostDust(t)' = IF kind = "postgres" THEN D ELSE 0
    BY SumEmpty DEF TotalDust, SweptDust, LostSells, LostDust, SweptOf, Bought, Sold
  <2>12. balance[t] \in Nat /\ oversold[t] \in Nat
    BY <1>1
  <2>13. kind = "postgres" \/ net = DustOf
    BY <1>1
  <2>14. memory'[t].execBuy = eb /\ memory'[t].execSell = es
    BY <1>3
  <2> HIDE DEF D, W, B, S, N, eb, es, ls
  <2>15. eb + D <= es + balance[t] + oversold[t] + W + ls + (IF kind = "postgres" THEN D ELSE 0)
    <3>1. CASE net = DustOf
      <4>1. eb + D <= es + balance[t] + oversold[t] + W + ls
        BY <2>1, <2>2, <2>3, <2>4, <2>6, <2>7, <2>9, <2>10, <2>12, <3>1
      <4>2. QED
        BY <2>1, <2>2, <2>3, <2>4, <2>12, <4>1
    <3>2. CASE net = NoDust /\ kind = "postgres"
      <4>1. eb <= es + balance[t] + oversold[t] + W + ls
        BY <2>1, <2>2, <2>3, <2>4, <2>6, <2>8, <2>9, <2>10, <2>12, <3>2
      <4>2. QED
        BY <2>1, <2>2, <2>3, <2>4, <2>12, <3>2, <4>1
    <3>3. QED
      BY <2>13, <3>1, <3>2
  <2>16. QED
    BY <2>11, <2>14, <2>15
<1>7. HeldInv'
  BY <1>6 DEF HeldInv
<1>8. QED
  BY <1>4, <1>5, <1>7

LEMMA BootstrapHeld ==
    ASSUME FullInv, DustInv', BootstrapFile \/ BootstrapPostgres
    PROVE  HeldTypeOK' /\ BalanceInv' /\ HeldInv'
<1>1. CASE BootstrapPostgres
  <2>1. memory' = Rebuild(done \ lost, NoDust)
    BY <1>1, JoinedRows DEF FullInv
  <2>2. /\ status = "down" /\ kind = "postgres" /\ status' = "up" /\ restarted'
        /\ UNCHANGED <<kind, balance, oversold, swept, done, lost>>
    BY <1>1 DEF BootstrapPostgres, ghostVars
  <2>3. QED
    BY <2>1, <2>2, RebuiltHeld
<1>2. CASE BootstrapFile
  <2>1. /\ status = "down" /\ kind = "file"
        /\ UNCHANGED <<kind, balance, oversold, swept, done, lost>>
        /\ \/ status' = "failed" /\ UNCHANGED <<memory, restarted>>
           \/ status' = "up" /\ memory' = FromFiles(files.whole) /\ fresh' /\ restarted'
    BY <1>2 DEF BootstrapFile, ghostVars
  <2>2. CASE status' = "failed" /\ UNCHANGED <<memory, restarted>>
    <3>1. HeldTypeOK' /\ BalanceInv'
      BY <2>1, <2>2 DEF FullInv, HeldTypeOK, BalanceInv, SweptDust, SweptOf, Bought, Sold
    <3>2. HeldInv'
      BY <2>1, <2>2 DEF FullInv, HeldInv, NoVolumes
    <3>3. QED
      BY <3>1, <3>2
  <2>3. CASE status' = "up" /\ memory' = FromFiles(files.whole) /\ fresh' /\ restarted'
    <3>1. files.whole = done \ lost
      <4>1. files.whole \subseteq Trades /\ done \subseteq Trades
        BY DEF FullInv, DustInv, DustTypeOK
      <4>2. \A i \in Trades : i \in files.whole <=> i \in done \ lost
        BY <2>1, StoredIsKept DEF Stored, FullInv
      <4>3. QED
        BY <4>1, <4>2
    <3>3. memory' = Rebuild(done \ lost, DustOf)
      BY <2>3, <3>1 DEF FromFiles
    <3>2. QED
      BY <2>1, <2>3, <3>3, RebuiltHeld
  <2>4. QED
    BY <2>1, <2>2, <2>3
<1>3. QED
  BY <1>1, <1>2

LEMMA FullStep == FullInv /\ [Next]_vars => FullInv'
<1> SUFFICES ASSUME FullInv, [Next]_vars PROVE FullInv'
  OBVIOUS
<1>1. DustInv'
  BY DustStep DEF FullInv
<1>2. DoneInv'
  BY <1>1, DoneStep DEF FullInv
<1>3. HeldTypeOK' /\ BalanceInv' /\ HeldInv'
  <2>1. CASE \E i \in Trades : InsertTrade(i)
    BY <2>1, InsertTradeHeld
  <2>2. CASE \E t \in Tokens : ForgetHistory(t) \/ FailedExecution(t)
    BY <2>2, HistoryHeld
  <2>3. CASE \E lands \in BOOLEAN : SendChunk(lands)
    BY <2>3, SendChunkHeld
  <2>4. CASE ProcessDust \/ ChunkError \/ ClearDust \/ DatabaseStep \/ UNCHANGED vars
    <3>1. /\ lost \subseteq lost'
          /\ UNCHANGED <<kind, status, memory, balance, oversold, restarted, done, swept>>
      BY <2>4 DEF ProcessDust, ChunkError, ClearDust, sweepUnchanged, ghostVars, DatabaseStep, ReceiveTrade,
         InsertFile, InsertOriginRow, InsertExecRow, InsertLink, StoreError, PushDust, storeUnchanged, vars
    <3>2. QED
      BY <1>1, <3>1, HeldFrame
  <2>5. CASE \E tears \in BOOLEAN : Crash(tears)
    BY <2>5, CrashHeld
  <2>6. CASE BootstrapFile \/ BootstrapPostgres
    BY <1>1, <2>6, BootstrapHeld
  <2>7. QED
    BY <2>1, <2>2, <2>3, <2>4, <2>5, <2>6 DEF Next, SweepStep
<1>4. QED
  BY <1>1, <1>2, <1>3 DEF FullInv

LEMMA FullInitial == Init => FullInv
<1> SUFFICES ASSUME Init PROVE FullInv
  OBVIOUS
<1>1. DustInv
  BY DustInitial
<1>2. HeldTypeOK
  BY DEF Init, HeldTypeOK, NoVolumes, EmptyVolumes, Volumes
<1>3. DoneInv
  BY DEF Init, DoneInv, Idle
<1>4. \A t \in Tokens : Bought(done, t) = {} /\ Sold(done, t) = {} /\ Sold(lost, t) = {}
  BY DEF Init, Bought, Sold
<1>5. \A t \in Tokens : /\ TotalDust(t) = 0 /\ SweptDust(t) = 0 /\ LostSells(t) = 0 /\ LostDust(t) = 0
                        /\ SumFunctionOnSet(ExecOf, Bought(done, t)) = 0
                        /\ SumFunctionOnSet(ExecOf, Sold(done, t)) = 0
  BY <1>4, SumEmpty DEF TotalDust, SweptDust, LostSells, LostDust
<1>6. BalanceInv
  BY <1>5 DEF BalanceInv, Init
<1>7. HeldInv
  BY <1>5 DEF HeldInv, Init, NoVolumes, EmptyVolumes
<1>8. QED
  BY <1>1, <1>2, <1>3, <1>6, <1>7 DEF FullInv

\* What was sent is at most all dust and what was sent again.
LEMMA SweptOrResent ==
    ASSUME FullInv, NEW t \in Tokens
    PROVE  LET again == {i \in Bought(done, t) : swept[i] > 1}
           IN  /\ SumFunctionOnSet(ResentOf, again) \in Nat
               /\ SweptDust(t) <= TotalDust(t) + SumFunctionOnSet(ResentOf, again)
<1> DEFINE S == Bought(done, t)
           C == {i \in S : swept[i] > 1}
           H == [i \in Trades |-> IF i \in C THEN DustOf[i] + ResentOf[i] ELSE DustOf[i]]
<1>1. IsFiniteSet(S) /\ S \subseteq Trades /\ C \in SUBSET S /\ IsFiniteSet(C)
  BY SumsAreNat, FS_Subset DEF FullInv, DustInv, DustTypeOK
<1>2. ASSUME NEW x \in S
      PROVE  /\ DustOf[x] \in Nat /\ SweptOf[x] \in Nat
             /\ x \in C => ResentOf[x] \in Nat /\ SweptOf[x] = DustOf[x] + ResentOf[x]
             /\ x \notin C => SweptOf[x] <= DustOf[x]
  <2>1. x \in Trades
    BY <1>1
  <2>2. Dust(x) \in Nat /\ swept[x] \in Nat /\ DustOf[x] = Dust(x)
    BY <2>1, TradeFacts DEF FullInv, DustInv, DustTypeOK
  <2>3. SweptOf[x] = Dust(x) * swept[x] /\ ResentOf[x] = Dust(x) * (swept[x] - 1)
    BY <2>1 DEF SweptOf, ResentOf
  <2>4. Dust(x) * swept[x] \in Nat
    BY <2>2
  <2>5. CASE swept[x] > 1
    <3>1. PICK n \in Nat : swept[x] = n + 1
      BY <2>2, <2>5
    <3>2. swept[x] - 1 = n /\ Dust(x) * (n + 1) = Dust(x) + Dust(x) * n /\ Dust(x) * n \in Nat
      BY <2>2, <3>1
    <3>3. x \in C
      BY <2>5
    <3>4. QED
      BY <2>2, <2>3, <3>1, <3>2, <3>3
  <2>6. CASE swept[x] \in {0, 1}
    <3>1. x \notin C
      BY <2>6
    <3>2. Dust(x) * swept[x] <= Dust(x)
      BY <2>2, <2>6
    <3>3. QED
      BY <2>2, <2>3, <2>4, <3>1, <3>2
  <2>7. QED
    BY <2>2, <2>5, <2>6
<1>3. \A x \in S : H[x] = IF x \in C THEN DustOf[x] + ResentOf[x] ELSE DustOf[x]
  BY <1>1
<1> HIDE DEF H, C, S
<1>4. SumFunctionOnSet(ResentOf, C) \in Nat
  BY <1>1, <1>2, SumNat
<1>5. SumFunctionOnSet(H, S) = SumFunctionOnSet(DustOf, S) + SumFunctionOnSet(ResentOf, C)
  <2>1. \A x \in S : DustOf[x] \in Nat
    BY <1>1, <1>2
  <2>2. \A x \in C : ResentOf[x] \in Nat /\ H[x] = DustOf[x] + ResentOf[x]
    BY <1>1, <1>2, <1>3
  <2>3. \A x \in S \ C : H[x] = DustOf[x]
    BY <1>1, <1>3
  <2>4. QED
    BY <1>1, <2>1, <2>2, <2>3, SumGrows
<1>6. SumFunctionOnSet(SweptOf, S) <= SumFunctionOnSet(H, S)
  <2>1. \A x \in S : SweptOf[x] \in Nat /\ H[x] \in Nat /\ SweptOf[x] <= H[x]
    BY <1>1, <1>2, <1>3
  <2>2. QED
    BY <1>1, <2>1, SumLeq
<1>7. SweptDust(t) = SumFunctionOnSet(SweptOf, S) /\ TotalDust(t) = SumFunctionOnSet(DustOf, S)
  BY DEF SweptDust, TotalDust, S
<1>8. SweptDust(t) <= TotalDust(t) + SumFunctionOnSet(ResentOf, C)
  BY <1>5, <1>6, <1>7
<1>9. QED
  BY <1>4, <1>8, Zenon DEF C, S

\* Whatever the order of confirmations, sweeps, failing chunks, removals of entries,
\* crashes and restarts, the history claims no token that is not in the wallet but
\* for the four shares that TrackedIsHeld names.
THEOREM TrackedTokensAreHeld == Spec => []TrackedIsHeld
<1>1. FullInv => TrackedIsHeld
  <2> SUFFICES ASSUME FullInv, NEW t \in Tokens
               PROVE  memory[t].execBuy
                        <= memory[t].execSell + balance[t] + oversold[t]
                             + SumFunctionOnSet(ResentOf, {i \in Bought(done, t) : swept[i] > 1})
                             + LostSells(t) + LostDust(t)
    BY DEF TrackedIsHeld, LostSells, LostDust
  <2> DEFINE R == SumFunctionOnSet(ResentOf, {i \in Bought(done, t) : swept[i] > 1})
  <2>1. R \in Nat /\ SweptDust(t) <= TotalDust(t) + R
    BY SweptOrResent
  <2>2. /\ memory[t].execBuy \in Nat /\ memory[t].execSell \in Nat /\ balance[t] \in Nat /\ oversold[t] \in Nat
    BY DEF FullInv, HeldTypeOK, Volumes
  <2>3. TotalDust(t) \in Nat /\ SweptDust(t) \in Nat /\ LostSells(t) \in Nat /\ LostDust(t) \in Nat
    BY TermsAreNat DEF FullInv, DustInv, DoneInv
  <2> HIDE DEF R
  <2>4. CASE status = "up"
    <3>1. memory[t].execBuy + TotalDust(t)
            <= memory[t].execSell + balance[t] + oversold[t] + SweptDust(t) + LostSells(t) + LostDust(t)
      BY <2>4 DEF FullInv, HeldInv
    <3>2. memory[t].execBuy <= memory[t].execSell + balance[t] + oversold[t] + R + LostSells(t) + LostDust(t)
      BY <2>1, <2>2, <2>3, <3>1
    <3>3. QED
      BY <3>2 DEF R
  <2>5. CASE status # "up"
    <3>1. memory[t].execBuy = 0
      BY <2>5 DEF FullInv, HeldInv, NoVolumes, EmptyVolumes
    <3>2. 0 <= memory[t].execSell + balance[t] + oversold[t] + R + LostSells(t) + LostDust(t)
      BY <2>1, <2>2, <2>3
    <3>3. QED
      BY <3>1, <3>2 DEF R
  <2>6. QED
    BY <2>4, <2>5
<1>2. QED
  BY <1>1, FullInitial, FullStep, PTL DEF Spec
=============================================================================
