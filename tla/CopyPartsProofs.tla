-------------------------- MODULE CopyPartsProofs --------------------------
(***************************************************************************)
(* Proofs about two parts of the copy service: the map of pending          *)
(* transactions, for every capacity and number of inserts, and the orders  *)
(* of wallets in ping mode, for every set of orders, wallets and tiers.    *)
(***************************************************************************)
EXTENDS PingMode, PendingMap, AmountFacts, SequenceTheorems, TLAPS

-----------------------------------------------------------------------------
(* Natural numbers.                                                        *)

\* A finite set of natural numbers has a greatest element.
LEMMA GreatestElement ==
    ASSUME NEW S \in SUBSET Nat, S # {}, IsFiniteSet(S)
    PROVE  \E x \in S : \A y \in S : x >= y
<1> DEFINE Bad == {T \in SUBSET S : T # {} /\ ~ \E x \in T : \A y \in T : x >= y}
           Sizes == {Cardinality(T) : T \in Bad}
<1>1. \A T \in SUBSET S : IsFiniteSet(T) /\ Cardinality(T) \in Nat
  BY FS_Subset, FS_CardinalityType
<1> SUFFICES ASSUME Bad # {} PROVE FALSE
  OBVIOUS
<1>2. Sizes \in SUBSET Nat /\ Sizes # {}
  BY <1>1
<1>3. PICK n \in Sizes : \A k \in Sizes : n <= k
  <2> HIDE DEF Sizes
  <2> QED
    BY <1>2, LeastElement
<1>4. PICK T \in Bad : Cardinality(T) = n
  BY <1>3
<1>5. PICK x \in T : TRUE
  BY <1>4
<1> DEFINE U == T \ {x}
<1>6. U \in SUBSET S /\ Cardinality(U) = Cardinality(T) - 1 /\ Cardinality(T) \in Nat
  BY <1>1, <1>4, <1>5, FS_RemoveElement
<1>7. U \notin Bad
  <2> SUFFICES ASSUME U \in Bad PROVE FALSE
    OBVIOUS
  <2>1. Cardinality(U) \in Sizes
    OBVIOUS
  <2>2. n <= Cardinality(U)
    BY <1>3, <2>1
  <2> HIDE DEF U, Bad, Sizes
  <2> QED
    BY <1>4, <1>6, <2>2
<1>8. x \in Nat /\ T \subseteq Nat /\ ~ \E z \in T : \A y \in T : z >= y
  BY <1>4, <1>5
<1>9. CASE U = {}
  <2>1. T = {x}
    BY <1>5, <1>9
  <2> QED
    BY <1>8, <2>1
<1>10. CASE U # {}
  <2>1. PICK z \in U : \A y \in U : z >= y
    BY <1>6, <1>7, <1>10
  <2> HIDE DEF Bad, Sizes
  <2>2. z \in T /\ z \in Nat /\ \A y \in T : y = x \/ z >= y
    BY <1>8, <2>1
  <2>3. CASE z >= x
    BY <1>8, <2>2, <2>3
  <2>4. CASE x >= z
    BY <1>5, <1>8, <2>2, <2>4
  <2> QED
    BY <1>8, <2>2, <2>3, <2>4
<1> QED
  BY <1>9, <1>10

-----------------------------------------------------------------------------
(* The map of pending transactions.                                        *)

\* What stays when a full map sheds its oldest entries: what is shed has many
\* newer entries, and few are left.
LEMMA KeptParts ==
    ASSUME NEW M, NEW last \in Nat, IsFiniteSet(M), NEW c \in Nat, c >= 5, Cardinality(M) <= c,
           \A e \in M : e.id \in 1 .. last, \A e, f \in M : e.id = f.id => e = f
    PROVE  /\ Kept(M, c) \subseteq M /\ Cardinality(Kept(M, c)) < c
           /\ \A e \in M \ Kept(M, c) : last - e.id >= c - DropSize(c)
<1> DEFINE k == c - DropSize(c)
           K == Kept(M, c)
<1>1. k \in Nat /\ k >= 1 /\ k < c
  BY DEF DropSize
<1> HIDE DEF k
<1>2. K \subseteq M
  BY DEF Kept
<1>3. \A e \in M : IsFiniteSet(Newer(M, e)) /\ Cardinality(Newer(M, e)) \in Nat
  BY FS_Subset, FS_CardinalityType DEF Newer
<1>4. Cardinality(M) \in Nat /\ IsFiniteSet(K) /\ Cardinality(K) \in Nat
  BY <1>2, FS_Subset, FS_CardinalityType
<1>5. CASE Cardinality(M) < c
  <2>1. K = M
    BY <1>4, <1>5 DEF Kept
  <2> QED
    BY <1>5, <2>1
<1>6. CASE Cardinality(M) >= c
  <2>1. K = {e \in M : Cardinality(Newer(M, e)) < k}
    BY <1>6 DEF Kept, k
  <2> HIDE DEF K
  <2>2. Cardinality(K) <= k
    <3>1. CASE K = {}
      BY <1>1, <3>1, FS_EmptySet
    <3>2. CASE K # {}
      <4> DEFINE ids == {e.id : e \in K}
      <4>1. ids \in SUBSET Nat /\ ids # {}
        BY <1>2, <3>2
      <4>2. PICK x \in ids : \A y \in ids : x <= y
        <5> HIDE DEF ids
        <5> QED
          BY <4>1, LeastElement
      <4>3. PICK e \in K : e.id = x
        BY <4>2
      <4>4. K \ {e} \subseteq Newer(M, e)
        <5> SUFFICES ASSUME NEW f \in K, f # e PROVE f \in M /\ f.id > e.id
          BY DEF Newer
        <5>1. f \in M /\ e \in M /\ f.id # e.id /\ f.id \in Nat /\ e.id \in Nat
          BY <1>2, <4>3
        <5>2. f.id \in ids
          OBVIOUS
        <5>3. e.id <= f.id
          BY <4>2, <4>3, <5>2
        <5> HIDE DEF ids
        <5> QED
          BY <5>1, <5>3
      <4>5. e \in M /\ Cardinality(Newer(M, e)) < k
        BY <2>1, <4>3
      <4>6. Cardinality(K \ {e}) <= Cardinality(Newer(M, e)) /\ Cardinality(K \ {e}) = Cardinality(K) - 1
        BY <1>3, <1>4, <4>3, <4>4, <4>5, FS_Subset, FS_RemoveElement
      <4> QED
        BY <1>1, <1>3, <1>4, <4>5, <4>6
    <3> QED
      BY <3>1, <3>2
  <2>3. ASSUME NEW e \in M \ K PROVE last - e.id >= k
    <3> DEFINE N == Newer(M, e)
               f == [x \in N |-> x.id]
    <3>1. Cardinality(N) >= k /\ Cardinality(N) \in Nat
      BY <1>1, <1>3, <2>1, <2>3
    <3>2. \A x \in N : x \in M /\ x.id > e.id
      BY DEF Newer
    <3> HIDE DEF N
    <3>3. e.id \in 1 .. last
      OBVIOUS
    <3>4. \A x \in N : x.id \in e.id + 1 .. last
      BY <3>2, <3>3
    <3>5. f \in Injection(N, e.id + 1 .. last)
      BY <3>2, <3>4 DEF Injection, IsInjective
    <3> HIDE DEF f
    <3>6. /\ IsFiniteSet(e.id + 1 .. last)
          /\ Cardinality(e.id + 1 .. last) = IF e.id + 1 > last THEN 0 ELSE last - (e.id + 1) + 1
      <4> DEFINE low == e.id + 1
      <4>1. low \in Int /\ last \in Int
        BY <3>3
      <4> HIDE DEF low
      <4>2. IsFiniteSet(low .. last) /\ Cardinality(low .. last) = IF low > last THEN 0 ELSE last - low + 1
        BY <4>1, FS_Interval
      <4> QED
        BY <4>2 DEF low
    <3>7. Cardinality(N) <= Cardinality(e.id + 1 .. last)
      BY <3>5, <3>6, FS_Injection
    <3> QED
      BY <1>1, <3>1, <3>3, <3>6, <3>7
  <2> QED
    BY <1>1, <1>2, <1>4, <2>2, <2>3 DEF K, k
<1> QED
  BY <1>4, <1>5, <1>6

\* The inductive invariant: the entries are the transactions of distinct ids that
\* were inserted.
MapInv ==
    /\ inserted \in Nat /\ IsFiniteSet(m) /\ m \subseteq [id : 1 .. inserted]
    /\ answered \subseteq 1 .. inserted
    /\ ShedOnlyOld

MapSpec == MapInit /\ [][MapNext]_mapVars

\* An insert keeps it.
LEMMA InsertKeeps ==
    ASSUME MapInv, Insert
    PROVE  MapInv'
<1> DEFINE K == Kept(m, Capacity)
           new == [id |-> inserted + 1]
           k == Capacity - DropSize(Capacity)
<1>1. /\ inserted \in Nat /\ IsFiniteSet(m) /\ m \subseteq [id : 1 .. inserted]
      /\ answered \subseteq 1 .. inserted /\ Cardinality(m) <= Capacity
      /\ \A i \in 1 .. inserted : i \notin answered /\ (\A e \in m : e.id # i) => inserted - i >= k
  BY DEF MapInv, ShedOnlyOld
<1>2. inserted' = inserted + 1 /\ answered' = answered /\ m' = K \cup {new}
  BY DEF Insert, InsertPending
<1>3. \A e \in m : e.id \in 1 .. inserted
  BY <1>1
<1>4. \A e, f \in m : e.id = f.id => e = f
  BY <1>1
<1>5. /\ K \subseteq m /\ Cardinality(K) < Capacity
      /\ \A e \in m \ K : inserted - e.id >= k
  BY <1>1, <1>3, <1>4, KeptParts, CapacityAssumption
<1> HIDE DEF K, k
<1>6. IsFiniteSet(K) /\ Cardinality(K) \in Nat
  BY <1>1, <1>5, FS_Subset, FS_CardinalityType
<1>7. IsFiniteSet(m') /\ Cardinality(m') <= Capacity
  <2>0. IsFiniteSet(m') /\ Cardinality(m') = IF new \in K THEN Cardinality(K) ELSE Cardinality(K) + 1
    <3> HIDE DEF new
    <3> QED
      BY <1>2, <1>6, FS_AddElement
  <2>1. IsFiniteSet(m') /\ Cardinality(m') <= Cardinality(K) + 1
    BY <1>6, <2>0
  <2>2. Cardinality(m') \in Nat
    BY <2>1, FS_CardinalityType
  <2> QED
    BY <1>5, <1>6, <2>1, <2>2, CapacityAssumption
<1>8. m' \subseteq [id : 1 .. inserted']
  BY <1>1, <1>2, <1>5
<1>9. answered' \subseteq 1 .. inserted'
  BY <1>1, <1>2
<1>10. ASSUME NEW i \in 1 .. inserted + 1, i \notin answered, \A e \in m' : e.id # i
       PROVE  inserted + 1 - i >= k
  <2>1. i # inserted + 1
    <3>1. new \in m' /\ new.id = inserted + 1
      BY <1>2
    <3> HIDE DEF new
    <3> QED
      BY <1>10, <3>1
  <2>2. i \in 1 .. inserted
    BY <1>1, <2>1
  <2>3. k \in Nat
    BY CapacityAssumption DEF k, DropSize
  <2>4. inserted - i >= k
    <3>1. CASE \A e \in m : e.id # i
      BY <1>1, <1>10, <2>2, <3>1
    <3>2. ASSUME NEW e \in m, e.id = i PROVE inserted - i >= k
      BY <1>2, <1>5, <1>10, <3>2
    <3> QED
      BY <3>1, <3>2
  <2> QED
    BY <1>1, <2>2, <2>3, <2>4
<1> QED
  BY <1>1, <1>2, <1>7, <1>8, <1>9, <1>10 DEF MapInv, ShedOnlyOld, k

\* A removal keeps it.
LEMMA RemoveKeeps ==
    ASSUME MapInv, NEW id \in 1 .. inserted, RemoveEntry(id)
    PROVE  MapInv'
<1>1. /\ inserted \in Nat /\ IsFiniteSet(m) /\ m \subseteq [id : 1 .. inserted]
      /\ answered \subseteq 1 .. inserted /\ Cardinality(m) <= Capacity
  BY DEF MapInv, ShedOnlyOld
<1>2. inserted' = inserted /\ answered' = answered \cup {id} /\ m' = {e \in m : e.id # id}
  BY DEF RemoveEntry, RemovePending
<1>3. IsFiniteSet(m') /\ Cardinality(m') <= Cardinality(m)
  BY <1>1, <1>2, FS_Subset
<1>4. Cardinality(m') \in Nat /\ Cardinality(m) \in Nat
  BY <1>1, <1>3, FS_CardinalityType
<1>5. Cardinality(m') <= Capacity
  BY <1>1, <1>3, <1>4, CapacityAssumption
<1>6. \A i \in 1 .. inserted : i \notin answered' /\ (\A e \in m' : e.id # i)
                                  => i \notin answered /\ (\A e \in m : e.id # i)
  BY <1>2
<1>7. ShedOnlyOld'
  BY <1>2, <1>5, <1>6 DEF MapInv, ShedOnlyOld
<1> QED
  BY <1>1, <1>2, <1>3, <1>7 DEF MapInv

\* PendingTransactionsMap sheds only entries after which four fifths of its
\* capacity were inserted, and never exceeds its capacity.
THEOREM OnlyOldShed == MapSpec => []ShedOnlyOld
<1>1. MapInit => MapInv
  <2> SUFFICES ASSUME MapInit PROVE MapInv
    OBVIOUS
  <2>1. m = {} /\ inserted = 0 /\ answered = {} /\ IsFiniteSet(m) /\ Cardinality(m) = 0
    BY FS_EmptySet DEF MapInit
  <2>2. \A i \in 1 .. inserted : FALSE
    BY <2>1
  <2>3. ShedOnlyOld
    BY <2>1, <2>2, CapacityAssumption DEF ShedOnlyOld
  <2> QED
    BY <2>1, <2>3 DEF MapInv
<1>2. MapInv /\ [MapNext]_mapVars => MapInv'
  <2> SUFFICES ASSUME MapInv, [MapNext]_mapVars PROVE MapInv'
    OBVIOUS
  <2>1. CASE UNCHANGED mapVars
    BY <2>1 DEF mapVars, MapInv, ShedOnlyOld
  <2>2. CASE MapNext
    BY <2>2, InsertKeeps, RemoveKeeps DEF MapNext
  <2> QED
    BY <2>1, <2>2
<1>3. MapInv => ShedOnlyOld
  BY DEF MapInv
<1> QED
  BY <1>1, <1>2, <1>3, PTL DEF MapSpec

-----------------------------------------------------------------------------
(* Ping mode: the invariant.                                               *)

PingsType == [Tracked -> PingEntry \cup {None}]
ExecutionType == [Tracked -> ExecutionEntry \cup {None}]
FileType == [state : {"none", "ok", "torn"}, pings : PingsType, execution : ExecutionType]
InputType == [type : {"none", "buy", "both"}, amount : Nat]
InsertType == [order : Orders, token : Tokens, dir : {"buy", "sell"}, volume : Nat]

\* The answers of insert_swap, and whether the volumes are written.
FlagsOK == pinged \in [Orders -> BOOLEAN] /\ written \in BOOLEAN

\* The type invariant.
PingTypeOK ==
    /\ FlagsOK
    /\ pings \in PingsType /\ execution \in ExecutionType
    /\ phase \in [Orders -> {"new", "skipped", "insert", "lost", "input", "swap", "sent", "failed",
                             "confirmed", "done"}]
    /\ retries \in [Orders -> Nat] /\ input \in [Orders -> InputType]
    /\ inserts \in Seq(InsertType)
    /\ snapPC \in {"pings", "execution", "open", "write", "down"}
    /\ snap \in FileType /\ file \in FileType /\ snapshots \in Nat
    /\ restarts \in Nat /\ executed \in [Wallets \X Tracked -> Nat]

\* The wallet is known to have bought the token.
Knows(w, t) == pings[t] # None /\ w \in pings[t].wallets

\* The order may still become a buy: insert_swap answered that it is a ping, or the
\* buy is prepared or sent.
Pending(o) == (phase[o] = "input" /\ pinged[o]) \/ phase[o] \in {"swap", "sent"}

\* A wallet that is not known has made us buy at most once before each restart;
\* an order that is under way is the only one of its wallet and token.
OneBuyInv ==
    /\ \A w \in Wallets, t \in Tracked :
          executed[<<w, t>>] <= restarts + 1 /\ (~Knows(w, t) => executed[<<w, t>>] <= restarts)
    /\ \A o \in Orders : Pending(o) =>
          /\ SwapOf[o].tout \in Tracked /\ Knows(SwapOf[o].wallet, SwapOf[o].tout)
          /\ executed[<<SwapOf[o].wallet, SwapOf[o].tout>>] <= restarts
    /\ \A o, q \in Orders :
          Pending(o) /\ Pending(q) /\ SwapOf[o].wallet = SwapOf[q].wallet
                     /\ SwapOf[o].tout = SwapOf[q].tout => o = q

\* The executions in an entry of the map, and whether they cover the counts.
Number(e, t) == IF e[t] = None THEN 0 ELSE e[t].n
Covers(e, p) == \A t \in Tracked : p[t] # None => p[t].count <= Number(e, t)

\* The volumes are ahead of the count in memory, in what the snapshot thread has
\* collected, and in the file.
VolumesInv ==
    /\ Covers(execution, pings) /\ Covers(file.execution, file.pings)
    /\ snapPC = "execution" => Covers(execution, snap.pings)
    /\ snapPC \in {"open", "write"} => Covers(snap.execution, snap.pings)
    /\ written => inserts # <<>>
    /\ written => \A t \in Tracked : t = Head(inserts).token =>
          Number(execution, t) >= 1 /\ (pings[t] # None => pings[t].count + 1 <= Number(execution, t))

\* The inductive invariant.
PingInv == PingTypeOK /\ OneBuyInv /\ VolumesInv

-----------------------------------------------------------------------------
(* Ping mode: constants and amounts.                                       *)

\* The parts of a swap.
LEMMA SwapParts ==
    ASSUME NEW o \in Orders
    PROVE  /\ SwapOf[o].wallet \in Wallets /\ SwapOf[o].tin \in Tokens /\ SwapOf[o].tout \in Tokens
           /\ SwapOf[o].cost \in Nat
BY ConstantsAssumption, SMT

\* A tier is a number of lamports, or there is none.
LEMMA TierType ==
    ASSUME NEW n
    PROVE  TierFor(n) \in Nat \cup {None}
<1> DEFINE D == DOMAIN Tiers
           above == {k \in D : k >= n}
<1>1. D \in SUBSET Nat /\ D # {} /\ IsFiniteSet(D) /\ \A k \in D : Tiers[k] \in Nat
  BY ConstantsAssumption, EntriesAssumption, SMT
<1>2. TierFor(n) \in {None, Tiers[IF above = {} THEN Max(D) ELSE Min(above)]}
  BY DEF TierFor
<1> HIDE DEF D
<1>3. Max(D) \in D
  <2>1. \E x \in D : \A y \in D : x >= y
    BY <1>1, GreatestElement
  <2> QED
    BY <2>1 DEF Max
<1>4. above # {} => Min(above) \in D
  <2> SUFFICES ASSUME above # {} PROVE Min(above) \in D
    OBVIOUS
  <2>1. above \in SUBSET Nat /\ above \subseteq D
    BY <1>1
  <2> HIDE DEF above
  <2>2. \E x \in above : \A y \in above : x <= y
    BY <2>1, LeastElement
  <2>3. Min(above) \in above
    BY <2>2 DEF Min
  <2> QED
    BY <2>1, <2>3
<1> HIDE DEF above
<1> QED
  BY <1>1, <1>2, <1>3, <1>4

\* What get_lamports_input answers is an amount.
LEMMA LamportsParts ==
    ASSUME PingTypeOK, NEW t \in Tracked, LamportsInput(t) # None
    PROVE  LamportsInput(t) \in Nat
<1> DEFINE tier == TierFor(Cardinality(pings[t].wallets))
<1>1. pings[t] # None
  BY DEF LamportsInput
<1>2. pings[t].cost \in Nat
  BY <1>1 DEF PingTypeOK, PingsType, PingEntry
<1>3. tier \in Nat \cup {None}
  BY TierType
<1>4. tier # None /\ LamportsInput(t) = IF tier < pings[t].cost THEN tier ELSE pings[t].cost
  BY <1>1 DEF LamportsInput
<1> HIDE DEF tier
<1> QED
  BY <1>2, <1>3, <1>4

\* The dust is a part of the volume.
LEMMA DustPart ==
    ASSUME NEW yield \in Nat
    PROVE  yield - DustVolume(MoonbagBps, yield) \in Nat
<1>1. MoonbagBps \in Nat /\ MoonbagBps <= 10000
  BY ConstantsAssumption, SMT
<1> QED
  BY <1>1, DustBound

-----------------------------------------------------------------------------
(* Ping mode: what keeps each part of the invariant.                       *)

\* Nothing new is known of the buys.
LEMMA OneBuyFrame ==
    ASSUME OneBuyInv, executed' = executed, restarts' = restarts,
           \A w \in Wallets, t \in Tracked : Knows(w, t) => Knows(w, t)',
           \A o \in Orders : Pending(o)' => Pending(o)
    PROVE  OneBuyInv'
<1>1. ASSUME NEW o \in Orders, Pending(o)'
      PROVE  /\ SwapOf[o].tout \in Tracked /\ Knows(SwapOf[o].wallet, SwapOf[o].tout)'
             /\ executed[<<SwapOf[o].wallet, SwapOf[o].tout>>] <= restarts
  BY <1>1, SwapParts DEF OneBuyInv
<1> QED
  BY <1>1 DEF OneBuyInv

\* Pings are not counted.
LEMMA VolumesFrame ==
    ASSUME PingTypeOK, VolumesInv,
           UNCHANGED <<execution, snapPC, snap, file, inserts, written>>,
           \A t \in Tracked : pings'[t] # None =>
               \/ pings[t] # None /\ pings'[t].count = pings[t].count
               \/ pings'[t].count = 0
    PROVE  VolumesInv'
<1>1. ASSUME NEW t \in Tracked PROVE Number(execution, t) \in Nat
  BY DEF PingTypeOK, ExecutionType, ExecutionEntry, Number
<1>2. Covers(execution, pings')
  BY <1>1 DEF VolumesInv, Covers
<1>3. written => \A t \in Tracked : t = Head(inserts).token => Number(execution, t) >= 1 /\
            (pings'[t] # None => pings'[t].count + 1 <= Number(execution, t))
  BY <1>1 DEF VolumesInv
<1> QED
  BY <1>2, <1>3 DEF VolumesInv

-----------------------------------------------------------------------------
(* Ping mode: the steps.                                                   *)

\* The initial states.
LEMMA PingInitial == Init => PingInv
<1> SUFFICES ASSUME Init PROVE PingInv
  OBVIOUS
<1>1. EmptyPings \in PingsType /\ EmptyPings \in ExecutionType /\ \A t \in Tracked : EmptyPings[t] = None
  BY DEF EmptyPings, PingsType, ExecutionType
<1>2. EmptyFile \in FileType /\ EmptyFile.pings = EmptyPings /\ EmptyFile.execution = EmptyPings
  BY <1>1 DEF EmptyFile, FileType
<1>3. NoInput \in InputType
  BY DEF NoInput, InputType
<1>4. PingTypeOK
  <2>1. FlagsOK
    BY Zenon DEF Init, FlagsOK
  <2> QED
    BY <1>1, <1>2, <1>3, <2>1 DEF Init, PingTypeOK
<1>5. \A o \in Orders : phase[o] = "new"
  BY DEF Init
<1>6. OneBuyInv
  BY <1>5 DEF OneBuyInv, Init, Pending
<1>7. VolumesInv
  <2>1. Covers(EmptyPings, EmptyPings)
    BY <1>1 DEF Covers
  <2> QED
    BY <1>2, <2>1 DEF VolumesInv, Init
<1> QED
  BY <1>4, <1>6, <1>7 DEF PingInv

\* An order moves on, and no buy is made.
LEMMA MoveKeeps ==
    ASSUME PingInv, NEW o \in Orders, NEW p \in {"skipped", "insert", "lost", "sent", "failed"},
           phase' = [phase EXCEPT ![o] = p], p = "sent" => phase[o] = "swap",
           retries' \in [Orders -> Nat],
           UNCHANGED <<trackVars, pinged, input, mainVars, snapVars, histVars>>
    PROVE  PingInv'
<1> USE DEF PingInv
<1>1. PingTypeOK'
  <2>1. FlagsOK'
    BY Zenon DEF PingTypeOK, FlagsOK, mainVars
  <2> QED
    BY <2>1 DEF PingTypeOK, trackVars, mainVars, snapVars, histVars
<1>2. \A q \in Orders : phase'[q] = IF q = o THEN p ELSE phase[q]
  BY DEF PingTypeOK
<1>3. OneBuyInv'
  <2>1. \A q \in Orders : Pending(q)' => Pending(q)
    BY <1>2 DEF Pending
  <2>2. \A w \in Wallets, t \in Tracked : Knows(w, t) => Knows(w, t)'
    BY DEF Knows, trackVars
  <2> QED
    BY <2>1, <2>2, OneBuyFrame DEF histVars
<1>4. VolumesInv'
  BY VolumesFrame DEF trackVars, mainVars, snapVars
<1> QED
  BY <1>1, <1>3, <1>4

\* The orders move on.
LEMMA OrderMoves ==
    ASSUME PingInv, NEW o \in Orders,
           Receive(o) \/ InsertError(o) \/ NoBalance(o) \/ Send(o) \/ Fail(o) \/ Retry(o)
    PROVE  PingInv'
<1>1. UNCHANGED <<trackVars, pinged, input, mainVars, snapVars, histVars>>
  BY DEF Receive, InsertError, NoBalance, Send, Fail, Retry
<1>2. PICK p \in {"skipped", "insert", "lost", "sent", "failed"} :
          /\ phase' = [phase EXCEPT ![o] = p]
          /\ p = "sent" => phase[o] = "swap"
  BY DEF Receive, InsertError, NoBalance, Send, Fail, Retry, Move
<1>3. retries' \in [Orders -> Nat]
  BY DEF PingInv, PingTypeOK, Receive, InsertError, NoBalance, Send, Fail, Retry
<1> QED
  BY <1>1, <1>2, <1>3, MoveKeeps

\* The entry of a token after another of its buys.
NewEntry(old, w, cost) == [old EXCEPT !.wallets = @ \cup {w}, !.cost = @ + cost]

\* It differs in the wallets and the cost.
LEMMA EntryParts ==
    ASSUME NEW old \in PingEntry, NEW w \in Wallets, NEW cost \in Nat
    PROVE  /\ NewEntry(old, w, cost) \in PingEntry
           /\ NewEntry(old, w, cost).wallets = old.wallets \cup {w}
           /\ NewEntry(old, w, cost).count = old.count
<1> DEFINE W == old.wallets \cup {w}
           k == old.cost + cost
<1>1. W \in SUBSET Wallets /\ k \in Nat
  BY DEF PingEntry
<1>2. NewEntry(old, w, cost) = [old EXCEPT !.wallets = W, !.cost = k]
  BY DEF NewEntry
<1>3. NewEntry(old, w, cost) \in PingEntry
  <2> HIDE DEF W, k
  <2> QED
    BY <1>1, <1>2 DEF PingEntry
<1>4. NewEntry(old, w, cost).wallets = W
  BY DEF PingEntry, NewEntry
<1>5. NewEntry(old, w, cost).count = old.count
  BY DEF PingEntry, NewEntry
<1> QED
  BY <1>3, <1>4, <1>5

\* insert_swap: a ping is the first buy of its wallet that is known.
LEMMA InsertSwapKeeps ==
    ASSUME PingInv, NEW o \in Orders, InsertSwap(o)
    PROVE  PingInv'
<1> USE DEF PingInv
<1> DEFINE t == SwapOf[o].tout
           w == SwapOf[o].wallet
           old == IF pings[t] = None THEN [wallets |-> {}, count |-> 0, cost |-> 0] ELSE pings[t]
           new == NewEntry(old, w, SwapOf[o].cost)
           ping == t \in Tracked /\ w \notin old.wallets
<1>1. /\ UNCHANGED <<execution, retries, input, inserts, written, snapPC, snap, file, snapshots,
                     restarts, executed>>
      /\ phase[o] = "insert" /\ phase' = [phase EXCEPT ![o] = "input"]
  BY DEF InsertSwap, Move, mainVars, snapVars, histVars
<1>2. t \in Tokens /\ w \in Wallets /\ SwapOf[o].cost \in Nat
  BY SwapParts
<1>3. \/ t \in Static /\ pings' = pings /\ pinged' = [pinged EXCEPT ![o] = FALSE]
      \/ t \in Tracked /\ pings' = [pings EXCEPT ![t] = new]
            /\ pinged' = [pinged EXCEPT ![o] = w \notin old.wallets]
  BY <1>2 DEF InsertSwap, Tracked, NewEntry
<1>4. t \in Tracked => /\ old \in PingEntry
                       /\ pings[t] # None => old = pings[t]
                       /\ pings[t] = None => old.count = 0 /\ old.wallets = {}
  BY DEF PingTypeOK, PingsType, PingEntry
<1>5. t \in Tracked => new \in PingEntry /\ new.wallets = old.wallets \cup {w} /\ new.count = old.count
  <2> HIDE DEF old
  <2> QED
    BY <1>2, <1>4, EntryParts
<1>6. t \in Static => t \notin Tracked
  BY DEF Tracked
<1> HIDE DEF old, new
<1>7. FlagsOK' /\ \A q \in Orders : (q # o => (pinged'[q] <=> pinged[q])) /\ (q = o => (pinged'[q] <=> ping))
  <2>1. pinged \in [Orders -> BOOLEAN] /\ written \in BOOLEAN
    BY DEF PingTypeOK, FlagsOK
  <2>2. CASE pinged' = [pinged EXCEPT ![o] = FALSE] /\ ~ping
    BY <1>1, <2>1, <2>2, Zenon DEF FlagsOK
  <2>3. CASE pinged' = [pinged EXCEPT ![o] = TRUE] /\ ping
    BY <1>1, <2>1, <2>3, Zenon DEF FlagsOK
  <2>4. CASE t \in Static /\ pinged' = [pinged EXCEPT ![o] = FALSE]
    BY <1>6, <2>2, <2>4
  <2>5. CASE t \in Tracked /\ pinged' = [pinged EXCEPT ![o] = w \notin old.wallets]
    <3>1. CASE w \in old.wallets
      <4>1. (w \notin old.wallets) = FALSE
        BY <3>1
      <4> QED
        BY <2>2, <2>5, <3>1, <4>1, Zenon
    <3>2. CASE w \notin old.wallets
      <4>1. (w \notin old.wallets) = TRUE
        BY <3>2
      <4> QED
        BY <2>3, <2>5, <3>2, <4>1, Zenon
    <3> QED
      BY <3>1, <3>2
  <2> HIDE DEF ping
  <2> QED
    BY <1>3, <2>4, <2>5
<1>8. pings' \in PingsType
  BY <1>3, <1>5 DEF PingTypeOK, PingsType
<1>9. \A x \in Tracked :
          \/ pings'[x] = pings[x]
          \/ x = t /\ pings'[x] = new
  BY <1>3 DEF PingTypeOK, PingsType
<1>10. t \in Tracked => new # None
  BY <1>5, EntriesAssumption
<1>11. \A x \in Tracked : pings[x] # None =>
           pings'[x] # None /\ pings'[x].count = pings[x].count /\ pings[x].wallets \subseteq pings'[x].wallets
  BY <1>4, <1>5, <1>9, <1>10
<1>12. \A x \in Tracked : pings'[x] # None =>
           \/ pings[x] # None /\ pings'[x].count = pings[x].count
           \/ pings'[x].count = 0
  BY <1>4, <1>5, <1>9
<1>13. ping => t \in Tracked /\ ~Knows(w, t) /\ Knows(w, t)'
  <2> SUFFICES ASSUME ping PROVE t \in Tracked /\ ~Knows(w, t) /\ Knows(w, t)'
    OBVIOUS
  <2>1. t \in Tracked /\ pings'[t] = new
    BY <1>3, <1>6 DEF PingTypeOK, PingsType
  <2> QED
    BY <1>4, <1>5, <1>10, <2>1 DEF Knows
<1>14. \A x \in Wallets, y \in Tracked : Knows(x, y) => Knows(x, y)'
  BY <1>11 DEF Knows
<1>15. \A q \in Orders : phase'[q] = IF q = o THEN "input" ELSE phase[q]
  BY <1>1 DEF PingTypeOK
<1>16. \A q \in Orders : Pending(q)' => IF q = o THEN ping ELSE Pending(q)
  BY <1>7, <1>15 DEF Pending
<1>17. PingTypeOK'
  BY <1>1, <1>7, <1>8 DEF PingTypeOK
<1> HIDE DEF ping
<1>18. OneBuyInv'
  <2>1. \A x \in Wallets, y \in Tracked :
            executed'[<<x, y>>] <= restarts' + 1 /\ (~Knows(x, y)' => executed'[<<x, y>>] <= restarts')
    BY <1>1, <1>14 DEF OneBuyInv
  <2>2. ASSUME NEW q \in Orders, Pending(q)'
        PROVE  /\ SwapOf[q].tout \in Tracked /\ Knows(SwapOf[q].wallet, SwapOf[q].tout)'
               /\ executed'[<<SwapOf[q].wallet, SwapOf[q].tout>>] <= restarts'
    <3>1. CASE q = o
      BY <1>1, <1>2, <1>13, <1>16, <2>2, <3>1 DEF OneBuyInv, t, w
    <3>2. CASE q # o
      BY <1>1, <1>14, <1>16, <2>2, <3>2, SwapParts DEF OneBuyInv
    <3> QED
      BY <3>1, <3>2
  <2>3. ASSUME NEW a \in Orders, NEW b \in Orders, Pending(a)', Pending(b)',
               SwapOf[a].wallet = SwapOf[b].wallet, SwapOf[a].tout = SwapOf[b].tout
        PROVE  a = b
    <3>1. \A q \in Orders : Pending(q) => Knows(SwapOf[q].wallet, SwapOf[q].tout)
      BY DEF OneBuyInv
    <3>2. ASSUME NEW q \in Orders, q # o, Pending(q), ping, SwapOf[q].wallet = w, SwapOf[q].tout = t
          PROVE  FALSE
      BY <1>13, <3>1, <3>2
    <3>3. CASE a # o /\ b # o
      BY <1>16, <2>3, <3>3 DEF OneBuyInv
    <3>4. CASE a = o /\ b # o
      BY <1>16, <2>3, <3>2, <3>4 DEF t, w
    <3>5. CASE a # o /\ b = o
      BY <1>16, <2>3, <3>2, <3>5 DEF t, w
    <3> QED
      BY <3>3, <3>4, <3>5
  <2> QED
    BY <2>1, <2>2, <2>3 DEF OneBuyInv
<1>19. VolumesInv'
  BY <1>1, <1>12, VolumesFrame
<1> QED
  BY <1>17, <1>18, <1>19

\* process_ping prepares a buy only for a ping.
LEMMA PrepareKeeps ==
    ASSUME PingInv, NEW o \in Orders, NEW lamports \in Nat, NEW kind \in {"buy", "both"},
           Pending(o), phase' = [phase EXCEPT ![o] = "swap"],
           input' = [input EXCEPT ![o] = [type |-> kind, amount |-> lamports]],
           UNCHANGED <<trackVars, pinged, retries, mainVars, snapVars, histVars>>
    PROVE  PingInv'
<1> USE DEF PingInv
<1>1. FlagsOK'
  BY Zenon DEF PingTypeOK, FlagsOK, mainVars
<1>2. input' \in [Orders -> InputType]
  BY DEF PingTypeOK, InputType
<1>3. PingTypeOK'
  BY <1>1, <1>2 DEF PingTypeOK, trackVars, mainVars, snapVars, histVars
<1>4. \A q \in Orders : phase'[q] = IF q = o THEN "swap" ELSE phase[q]
  BY DEF PingTypeOK
<1>5. OneBuyInv'
  <2>1. \A q \in Orders : Pending(q)' => Pending(q)
    <3>1. ASSUME NEW q \in Orders, Pending(q)', q # o PROVE Pending(q)
      BY <1>4, <3>1 DEF Pending
    <3> QED
      BY <3>1
  <2>2. \A w \in Wallets, t \in Tracked : Knows(w, t) => Knows(w, t)'
    BY DEF Knows, trackVars
  <2> QED
    BY <2>1, <2>2, OneBuyFrame DEF histVars
<1>6. VolumesInv'
  BY VolumesFrame DEF trackVars, mainVars, snapVars
<1> QED
  BY <1>3, <1>5, <1>6

\* process_ping skips the order, or prepares its buy.
LEMMA ProcessPingKeeps ==
    ASSUME PingInv, NEW o \in Orders, NEW disabled \in BOOLEAN, ProcessPing(o, disabled)
    PROVE  PingInv'
<1> DEFINE t == SwapOf[o].tout
           lamports == IF pinged[o] /\ ~disabled THEN LamportsInput(t) ELSE None
           kind == IF TokenInput(o) = None THEN "buy" ELSE "both"
<1>1. phase[o] = "input" /\ UNCHANGED <<trackVars, pinged, retries, mainVars, snapVars, histVars>>
  BY DEF ProcessPing
<1>2. CASE lamports = None \/ lamports = 0
  <2>1. phase' = [phase EXCEPT ![o] = "skipped"] /\ input' = input
    BY <1>2 DEF ProcessPing, Move
  <2>2. retries' \in [Orders -> Nat]
    BY <1>1 DEF PingInv, PingTypeOK
  <2> QED
    BY <1>1, <2>1, <2>2, MoveKeeps
<1>3. CASE ~(lamports = None \/ lamports = 0)
  <2>1. /\ phase' = [phase EXCEPT ![o] = "swap"]
        /\ input' = [input EXCEPT ![o] = [type |-> kind, amount |-> lamports]]
    BY <1>3 DEF ProcessPing, Move
  <2>2. pinged[o] /\ lamports = LamportsInput(t) /\ LamportsInput(t) # None
    BY <1>3
  <2>3. Pending(o)
    BY <1>1, <2>2 DEF Pending
  <2>4. t \in Tracked
    BY <2>3 DEF PingInv, OneBuyInv
  <2>5. lamports \in Nat
    BY <2>2, <2>4, LamportsParts DEF PingInv
  <2>6. kind \in {"buy", "both"}
    OBVIOUS
  <2> HIDE DEF lamports, kind
  <2> QED
    BY <1>1, <2>1, <2>2, <2>3, <2>5, <2>6, PrepareKeeps
<1> QED
  BY <1>2, <1>3

\* A confirmed order: its buy is made, and its executions are those that the main task
\* enters next.
LEMMA ConfirmKeeps ==
    ASSUME PingInv, NEW o \in Orders, NEW yield \in Nat, Confirm(o, yield)
    PROVE  PingInv'
<1> USE DEF PingInv
<1> DEFINE t == SwapOf[o].tout
           w == SwapOf[o].wallet
           v == yield - DustVolume(MoonbagBps, yield)
           sell == [order |-> o, token |-> SwapOf[o].tin, dir |-> "sell", volume |-> input[o].amount]
           buy == [order |-> o, token |-> t, dir |-> "buy", volume |-> v]
<1>1. /\ phase[o] = "sent" /\ inserts = <<>> /\ phase' = [phase EXCEPT ![o] = "confirmed"]
      /\ executed' = [executed EXCEPT ![<<w, t>>] = @ + 1]
      /\ UNCHANGED <<trackVars, pinged, retries, input, written, snapVars, restarts>>
  BY DEF Confirm, Move
<1>2. inserts' = (IF input[o].type = "both" THEN <<sell>> ELSE <<>>) \o
                 (IF MoonbagBps < 5000 THEN <<buy>> ELSE <<>>)
  BY SMT DEF Confirm
<1>3. sell \in InsertType /\ buy \in InsertType
  <2>1. SwapOf[o].tin \in Tokens /\ t \in Tokens /\ input[o].amount \in Nat
    BY SwapParts DEF PingTypeOK, InputType
  <2>2. v \in Nat
    BY DustPart
  <2> HIDE DEF v, t
  <2> QED
    BY <2>1, <2>2 DEF InsertType
<1>4. inserts' \in Seq(InsertType)
  <2> DEFINE x == IF input[o].type = "both" THEN <<sell>> ELSE <<>>
             y == IF MoonbagBps < 5000 THEN <<buy>> ELSE <<>>
             S == InsertType
  <2>1. sell \in S /\ buy \in S /\ inserts' = x \o y
    BY <1>2, <1>3
  <2> HIDE DEF S, sell, buy
  <2>2. x \in Seq(S) /\ y \in Seq(S)
    BY <2>1
  <2> HIDE DEF x, y
  <2>3. inserts' \in Seq(S)
    BY <2>1, <2>2
  <2> QED
    BY <2>3 DEF S
<1> HIDE DEF sell, buy
<1>5. ~written
  BY <1>1 DEF VolumesInv
<1>6. Pending(o)
  BY <1>1 DEF Pending
<1>7. t \in Tracked /\ w \in Wallets /\ Knows(w, t) /\ executed[<<w, t>>] <= restarts
  BY <1>6, SwapParts DEF OneBuyInv
<1>8. /\ executed' \in [Wallets \X Tracked -> Nat] /\ executed'[<<w, t>>] = executed[<<w, t>>] + 1
      /\ \A k \in Wallets \X Tracked : k # <<w, t>> => executed'[k] = executed[k]
  <2> DEFINE S == Wallets \X Tracked
             k == <<w, t>>
  <2>1. k \in S /\ executed \in [S -> Nat] /\ executed' = [executed EXCEPT ![k] = @ + 1]
    BY <1>1, <1>7 DEF PingTypeOK
  <2> HIDE DEF S, k
  <2>2. /\ executed' \in [S -> Nat] /\ executed'[k] = executed[k] + 1
        /\ \A x \in S : x # k => executed'[x] = executed[x]
    BY <2>1
  <2> QED
    BY <2>2 DEF S, k
<1>9. PingTypeOK'
  <2>1. FlagsOK'
    BY <1>1, Zenon DEF PingTypeOK, FlagsOK
  <2> QED
    BY <1>1, <1>4, <1>8, <2>1 DEF PingTypeOK, trackVars, snapVars
<1>10. \A q \in Orders : phase'[q] = IF q = o THEN "confirmed" ELSE phase[q]
  BY <1>1 DEF PingTypeOK
<1>11. OneBuyInv'
  <2>1. \A q \in Orders : Pending(q)' => Pending(q) /\ q # o
    BY <1>1, <1>10 DEF Pending
  <2>2. \A x \in Wallets, y \in Tracked : Knows(x, y)' <=> Knows(x, y)
    BY <1>1 DEF Knows, trackVars
  <2>3. ASSUME NEW x \in Wallets, NEW y \in Tracked
        PROVE  executed'[<<x, y>>] <= restarts' + 1 /\ (~Knows(x, y)' => executed'[<<x, y>>] <= restarts')
    <3>0. restarts \in Nat /\ executed[<<w, t>>] \in Nat
      BY <1>7 DEF PingTypeOK
    <3>1. CASE x = w /\ y = t
      BY <1>1, <1>7, <1>8, <2>2, <3>0, <3>1
    <3>2. CASE ~(x = w /\ y = t)
      <4>1. <<x, y>> \in Wallets \X Tracked /\ <<x, y>> # <<w, t>>
        BY <3>2
      <4>2. executed'[<<x, y>>] = executed[<<x, y>>]
        BY <1>8, <4>1
      <4> QED
        BY <1>1, <2>2, <4>2 DEF OneBuyInv
    <3> QED
      BY <3>1, <3>2
  <2>4. ASSUME NEW q \in Orders, Pending(q)'
        PROVE  /\ SwapOf[q].tout \in Tracked /\ Knows(SwapOf[q].wallet, SwapOf[q].tout)'
               /\ executed'[<<SwapOf[q].wallet, SwapOf[q].tout>>] <= restarts'
    <3>1. /\ SwapOf[q].tout \in Tracked /\ SwapOf[q].wallet \in Wallets
          /\ Knows(SwapOf[q].wallet, SwapOf[q].tout)
          /\ executed[<<SwapOf[q].wallet, SwapOf[q].tout>>] <= restarts
          /\ ~(SwapOf[q].wallet = w /\ SwapOf[q].tout = t)
      BY <1>6, <2>1, <2>4, SwapParts DEF OneBuyInv
    <3> DEFINE k == <<SwapOf[q].wallet, SwapOf[q].tout>>
    <3>2. k \in Wallets \X Tracked /\ k # <<w, t>>
      BY <3>1
    <3>3. executed'[k] = executed[k]
      <4> HIDE DEF k
      <4> QED
        BY <1>8, <3>2
    <3> QED
      BY <1>1, <2>2, <3>1, <3>3
  <2>5. \A a, b \in Orders : Pending(a)' /\ Pending(b)' /\ SwapOf[a].wallet = SwapOf[b].wallet
                                /\ SwapOf[a].tout = SwapOf[b].tout => a = b
    BY <2>1 DEF OneBuyInv
  <2> QED
    BY <2>3, <2>4, <2>5 DEF OneBuyInv
<1>12. VolumesInv'
  BY <1>1, <1>5 DEF VolumesInv, trackVars, snapVars
<1> QED
  BY <1>9, <1>11, <1>12

\* An execution that is added raises the number of executions by one.
LEMMA AddedParts ==
    ASSUME NEW e \in ExecutionEntry \cup {None}, NEW i \in InsertType
    PROVE  /\ Added(e, i) \in ExecutionEntry
           /\ Added(e, i).n = 1 + IF e = None THEN 0 ELSE e.n
<1> DEFINE old == IF e = None THEN [buy |-> 0, sell |-> 0, n |-> 0] ELSE e
           v == i.volume
           b == old.buy + v
           s == old.sell + v
           n == old.n + 1
<1>1. old \in ExecutionEntry /\ old.n = (IF e = None THEN 0 ELSE e.n) /\ v \in Nat
  BY DEF ExecutionEntry, InsertType
<1>2. Added(e, i) \in {[old EXCEPT !.buy = b, !.n = n], [old EXCEPT !.sell = s, !.n = n]}
  BY DEF Added
<1> HIDE DEF old, v
<1>3. b \in Nat /\ s \in Nat /\ n \in Nat
  BY <1>1 DEF ExecutionEntry
<1>4. n = 1 + IF e = None THEN 0 ELSE e.n
  BY <1>1 DEF ExecutionEntry
<1> HIDE DEF b, s, n
<1>5. /\ [old EXCEPT !.buy = b, !.n = n] \in ExecutionEntry /\ [old EXCEPT !.buy = b, !.n = n].n = n
      /\ [old EXCEPT !.sell = s, !.n = n] \in ExecutionEntry /\ [old EXCEPT !.sell = s, !.n = n].n = n
  BY <1>1, <1>3 DEF ExecutionEntry
<1> QED
  BY <1>2, <1>4, <1>5

\* insert_execution writes the volumes.
LEMMA WriteExecutionKeeps ==
    ASSUME PingInv, WriteExecution
    PROVE  PingInv'
<1> USE DEF PingInv
<1> DEFINE i == Head(inserts)
<1>1. /\ inserts # <<>> /\ ~written /\ written'
      /\ execution' = [execution EXCEPT ![i.token] = Added(@, i)]
      /\ UNCHANGED <<pings, orderVars, inserts, snapVars, histVars>>
  BY DEF WriteExecution
<1>2. i \in InsertType
  BY <1>1 DEF PingTypeOK
<1> HIDE DEF i
<1>3. \A t \in Tracked : execution[t] \in ExecutionEntry \cup {None}
  BY DEF PingTypeOK, ExecutionType
<1>4. \A t \in Tracked : execution'[t] = IF t = i.token THEN Added(execution[t], i) ELSE execution[t]
  BY <1>1 DEF PingTypeOK, ExecutionType
<1>5. execution' \in ExecutionType
  <2>1. \A t \in Tracked : Added(execution[t], i) \in ExecutionEntry
    BY <1>2, <1>3, AddedParts
  <2> QED
    BY <1>1, <2>1 DEF PingTypeOK, ExecutionType
<1>6. \A t \in Tracked : /\ Number(execution, t) \in Nat
                         /\ Number(execution', t) = Number(execution, t) + IF t = i.token THEN 1 ELSE 0
  <2> SUFFICES ASSUME NEW t \in Tracked
               PROVE  /\ Number(execution, t) \in Nat
                      /\ Number(execution', t) = Number(execution, t) + IF t = i.token THEN 1 ELSE 0
    OBVIOUS
  <2>1. Number(execution, t) \in Nat
    BY <1>3 DEF Number, ExecutionEntry
  <2>2. CASE t = i.token
    <3>1. Added(execution[t], i) \in ExecutionEntry /\ Added(execution[t], i).n = 1 + Number(execution, t)
      BY <1>2, <1>3, AddedParts DEF Number
    <3>2. Number(execution', t) = Added(execution[t], i).n
      BY <1>4, <2>2, <3>1, EntriesAssumption DEF Number
    <3> QED
      BY <2>1, <2>2, <3>1, <3>2
  <2>3. CASE t # i.token
    BY <1>4, <2>1, <2>3 DEF Number
  <2> QED
    BY <2>1, <2>2, <2>3
<1>7. PingTypeOK'
  <2>1. FlagsOK'
    <3>1. pinged' = pinged /\ pinged \in [Orders -> BOOLEAN]
      BY <1>1, Zenon DEF PingTypeOK, FlagsOK, orderVars
    <3>2. written' = TRUE
      BY DEF WriteExecution
    <3> QED
      BY <3>1, <3>2, Zenon DEF FlagsOK
  <2> QED
    BY <1>1, <1>5, <2>1 DEF PingTypeOK, orderVars, snapVars, histVars
<1>8. OneBuyInv'
  <2>1. \A q \in Orders : Pending(q)' => Pending(q)
    BY <1>1 DEF Pending, orderVars
  <2>2. \A w \in Wallets, t \in Tracked : Knows(w, t) => Knows(w, t)'
    BY <1>1 DEF Knows
  <2> QED
    BY <1>1, <2>1, <2>2, OneBuyFrame DEF histVars
<1>9. VolumesInv'
  <2>1. ASSUME NEW p \in PingsType, Covers(execution, p) PROVE Covers(execution', p)
    <3>1. \A t \in Tracked : p[t] # None => p[t].count \in Nat
      BY DEF PingsType, PingEntry
    <3> QED
      BY <1>6, <2>1, <3>1 DEF Covers
  <2>2. pings \in PingsType /\ snap.pings \in PingsType
    BY DEF PingTypeOK, FileType
  <2>3. Covers(execution', pings) /\ (snapPC = "execution" => Covers(execution', snap.pings))
    BY <2>1, <2>2 DEF VolumesInv
  <2>4. ASSUME NEW t \in Tracked, t = i.token
        PROVE  Number(execution', t) >= 1 /\ (pings[t] # None => pings[t].count + 1 <= Number(execution', t))
    <3>1. pings[t] # None => pings[t].count \in Nat /\ pings[t].count <= Number(execution, t)
      BY DEF PingTypeOK, PingsType, PingEntry, VolumesInv, Covers
    <3> QED
      BY <1>6, <2>4, <3>1
  <2> QED
    BY <1>1, <2>3, <2>4 DEF VolumesInv, snapVars, i
<1> QED
  BY <1>7, <1>8, <1>9

\* The entry of a token after another of its executions.
LEMMA CountParts ==
    ASSUME NEW old \in PingEntry
    PROVE  /\ [old EXCEPT !.count = @ + 1] \in PingEntry
           /\ [old EXCEPT !.count = @ + 1].wallets = old.wallets
           /\ [old EXCEPT !.count = @ + 1].count = old.count + 1 /\ old.count \in Nat
<1> DEFINE c == old.count + 1
<1>1. c \in Nat /\ old.count \in Nat
  BY DEF PingEntry
<1> HIDE DEF c
<1>2. /\ [old EXCEPT !.count = c] \in PingEntry
      /\ [old EXCEPT !.count = c].wallets = old.wallets
      /\ [old EXCEPT !.count = c].count = c
  BY <1>1 DEF PingEntry
<1> QED
  BY <1>1, <1>2 DEF c

\* insert_execution counts.
LEMMA CountExecutionKeeps ==
    ASSUME PingInv, CountExecution
    PROVE  PingInv'
<1> USE DEF PingInv
<1> DEFINE i == Head(inserts)
           tok == i.token
<1>1. /\ inserts # <<>> /\ written /\ ~written' /\ inserts' = Tail(inserts)
      /\ pings' = IF pings[tok] = None THEN pings ELSE [pings EXCEPT ![tok].count = @ + 1]
      /\ IF Tail(inserts) = <<>> THEN phase' = [phase EXCEPT ![i.order] = "done"] ELSE phase' = phase
      /\ UNCHANGED <<execution, pinged, retries, input, snapVars, histVars>>
  BY DEF CountExecution, Move
<1>2. inserts' \in Seq(InsertType)
  <2> DEFINE S == InsertType
  <2>1. inserts \in Seq(S)
    BY DEF PingTypeOK
  <2> HIDE DEF S
  <2>2. inserts' \in Seq(S)
    BY <1>1, <2>1
  <2> QED
    BY <2>2 DEF S
<1> HIDE DEF i
<1>7. \A t \in Tracked : pings[t] \in PingEntry \cup {None}
  BY DEF PingTypeOK, PingsType
<1>8. \A t \in Tracked : pings'[t] = IF t = tok /\ pings[t] # None THEN [pings[t] EXCEPT !.count = @ + 1]
                                     ELSE pings[t]
  BY <1>1 DEF PingTypeOK, PingsType
<1>9. \A t \in Tracked :
          /\ pings[t] = None => pings'[t] = None
          /\ pings[t] # None => /\ pings'[t] \in PingEntry /\ pings'[t] # None
                                /\ pings'[t].wallets = pings[t].wallets /\ pings[t].count \in Nat
                                /\ pings'[t].count = pings[t].count + IF t = tok THEN 1 ELSE 0
  <2> SUFFICES ASSUME NEW t \in Tracked, pings[t] # None
               PROVE  /\ pings'[t] \in PingEntry /\ pings'[t] # None
                      /\ pings'[t].wallets = pings[t].wallets /\ pings[t].count \in Nat
                      /\ pings'[t].count = pings[t].count + IF t = tok THEN 1 ELSE 0
    BY <1>8
  <2>1. pings[t] \in PingEntry
    BY <1>7
  <2>2. /\ [pings[t] EXCEPT !.count = @ + 1] \in PingEntry
        /\ [pings[t] EXCEPT !.count = @ + 1].wallets = pings[t].wallets
        /\ [pings[t] EXCEPT !.count = @ + 1].count = pings[t].count + 1 /\ pings[t].count \in Nat
    BY <2>1, CountParts
  <2>3. CASE t = tok
    BY <1>8, <2>2, <2>3, EntriesAssumption
  <2>4. CASE t # tok
    BY <1>8, <2>1, <2>2, <2>4
  <2> QED
    BY <2>3, <2>4
<1>10. pings' \in PingsType
  <2>1. DOMAIN pings' = Tracked /\ pings' = [t \in Tracked |-> pings'[t]]
    BY <1>1 DEF PingTypeOK, PingsType
  <2>2. \A t \in Tracked : pings'[t] \in PingEntry \cup {None}
    BY <1>9
  <2> QED
    BY <2>1, <2>2 DEF PingsType
<1>12. \A q \in Orders : phase'[q] \in {"done", phase[q]}
  BY <1>1 DEF PingTypeOK
<1>13. PingTypeOK'
  <2>1. FlagsOK'
    <3>1. pinged' = pinged /\ pinged \in [Orders -> BOOLEAN]
      BY <1>1, Zenon DEF PingTypeOK, FlagsOK
    <3>2. written' = FALSE
      BY DEF CountExecution
    <3> QED
      BY <3>1, <3>2, Zenon DEF FlagsOK
  <2> QED
    BY <1>1, <1>2, <1>10, <2>1 DEF PingTypeOK, snapVars, histVars
<1>14. OneBuyInv'
  <2>1. \A q \in Orders : Pending(q)' => Pending(q)
    BY <1>1, <1>12 DEF Pending
  <2>2. \A w \in Wallets, t \in Tracked : Knows(w, t) => Knows(w, t)'
    BY <1>9 DEF Knows
  <2> QED
    BY <1>1, <2>1, <2>2, OneBuyFrame DEF histVars
<1>15. VolumesInv'
  <2>1. \A t \in Tracked : Number(execution, t) \in Nat
    BY DEF PingTypeOK, ExecutionType, ExecutionEntry, Number
  <2>2. \A t \in Tracked : t = tok /\ pings[t] # None => pings[t].count + 1 <= Number(execution, t)
    BY <1>1 DEF VolumesInv, i
  <2>3. Covers(execution, pings')
    BY <1>9, <2>1, <2>2 DEF VolumesInv, Covers
  <2> QED
    BY <1>1, <2>3 DEF VolumesInv, snapVars
<1> QED
  BY <1>13, <1>14, <1>15

\* What the snapshot thread and stuttering leave alone.
LEMMA OrdersUntouched ==
    ASSUME PingInv, UNCHANGED <<trackVars, orderVars, mainVars, histVars>>
    PROVE  OneBuyInv'
<1> USE DEF PingInv, trackVars, orderVars, mainVars, histVars
<1>1. \A q \in Orders : Pending(q)' => Pending(q)
  BY DEF Pending
<1>2. \A w \in Wallets, t \in Tracked : Knows(w, t) => Knows(w, t)'
  BY DEF Knows
<1> QED
  BY <1>1, <1>2, OneBuyFrame

\* The parts of a snapshot.
LEMMA FileParts ==
    ASSUME NEW f \in FileType, NEW p \in PingsType, NEW e \in ExecutionType, NEW st \in {"none", "ok", "torn"}
    PROVE  /\ [f EXCEPT !.pings = p, !.state = st] \in FileType
           /\ [f EXCEPT !.pings = p, !.state = st].pings = p
           /\ [f EXCEPT !.execution = e] \in FileType
           /\ [f EXCEPT !.execution = e].execution = e /\ [f EXCEPT !.execution = e].pings = f.pings
           /\ [f EXCEPT !.state = st] \in FileType
           /\ [f EXCEPT !.state = st].pings = f.pings /\ [f EXCEPT !.state = st].execution = f.execution
BY DEF FileType

\* The snapshot thread copies the pings before the volumes.
LEMMA SnapshotKeeps ==
    ASSUME PingInv, Snapshot
    PROVE  PingInv'
<1> USE DEF PingInv
<1>1. UNCHANGED <<trackVars, orderVars, mainVars, histVars>>
  BY DEF Snapshot
<1>2. snap \in FileType /\ file \in FileType /\ pings \in PingsType /\ execution \in ExecutionType
  BY DEF PingTypeOK
<1>3. FlagsOK'
  BY <1>1, Zenon DEF PingTypeOK, FlagsOK, orderVars, mainVars
<1>4. ASSUME snap' \in FileType, file' \in FileType, snapshots' \in Nat,
             snapPC' \in {"pings", "execution", "open", "write", "down"},
             Covers(file'.execution, file'.pings),
             snapPC' = "execution" => Covers(execution, snap'.pings),
             snapPC' \in {"open", "write"} => Covers(snap'.execution, snap'.pings)
      PROVE  PingInv'
  <2>1. PingTypeOK'
    BY <1>1, <1>3, <1>4 DEF PingTypeOK, trackVars, orderVars, mainVars, histVars
  <2>2. VolumesInv'
    BY <1>1, <1>4 DEF VolumesInv, trackVars, mainVars
  <2> QED
    BY <1>1, <2>1, <2>2, OrdersUntouched
<1>5. CASE /\ SnapStep("pings", "execution") /\ snapshots < MaxSnapshots
           /\ snap' = [snap EXCEPT !.pings = pings, !.state = "ok"]
           /\ snapshots' = snapshots + 1 /\ UNCHANGED file
  <2>1. snap' \in FileType /\ snap'.pings = pings
    BY <1>2, <1>5, FileParts
  <2>2. snapshots' \in Nat /\ snapPC' = "execution" /\ file' = file
    BY <1>5 DEF PingTypeOK, SnapStep
  <2>3. Covers(execution, pings) /\ Covers(file.execution, file.pings)
    BY DEF VolumesInv
  <2> QED
    BY <1>2, <1>4, <2>1, <2>2, <2>3
<1>6. CASE /\ SnapStep("execution", "open")
           /\ snap' = [snap EXCEPT !.execution = execution]
           /\ UNCHANGED <<file, snapshots>>
  <2>1. snap' \in FileType /\ snap'.pings = snap.pings /\ snap'.execution = execution
    BY <1>2, <1>6, FileParts
  <2>2. snapshots' \in Nat /\ snapPC' = "open" /\ file' = file
    BY <1>6 DEF PingTypeOK, SnapStep
  <2>3. Covers(execution, snap.pings) /\ Covers(file.execution, file.pings)
    BY <1>6 DEF VolumesInv, SnapStep
  <2> QED
    BY <1>2, <1>4, <2>1, <2>2, <2>3
<1>7. CASE /\ SnapStep("open", "write")
           /\ file' = [file EXCEPT !.state = "torn"] /\ UNCHANGED <<snap, snapshots>>
  <2>1. file' \in FileType /\ file'.pings = file.pings /\ file'.execution = file.execution
    BY <1>2, <1>7, FileParts
  <2>2. snapshots' \in Nat /\ snapPC' = "write" /\ snap' = snap
    BY <1>7 DEF PingTypeOK, SnapStep
  <2>3. Covers(snap.execution, snap.pings) /\ Covers(file.execution, file.pings)
    BY <1>7 DEF VolumesInv, SnapStep
  <2> QED
    BY <1>2, <1>4, <2>1, <2>2, <2>3
<1>8. CASE /\ SnapStep("write", "pings")
           /\ file' = snap /\ UNCHANGED <<snap, snapshots>>
  <2>1. snapshots' \in Nat /\ snapPC' = "pings" /\ snap' = snap /\ file' = snap
    BY <1>8 DEF PingTypeOK, SnapStep
  <2>2. Covers(snap.execution, snap.pings)
    BY <1>8 DEF VolumesInv, SnapStep
  <2> QED
    BY <1>2, <1>4, <2>1, <2>2
<1> QED
  BY <1>5, <1>6, <1>7, <1>8 DEF Snapshot

\* A restart takes up the maps of the file, or empty ones.
LEMMA RestartKeeps ==
    ASSUME PingInv, Restart
    PROVE  PingInv'
<1> USE DEF PingInv
<1>1. /\ restarts' = restarts + 1 /\ inserts' = <<>> /\ snap' = EmptyFile
      /\ snapPC' \in {"down", "pings"}
      /\ UNCHANGED <<pinged, retries, input, file, snapshots, executed>>
      /\ phase' = [o \in Orders |-> IF phase[o] \in {"insert", "input", "swap", "sent", "confirmed"}
                                    THEN "lost" ELSE phase[o]]
  BY DEF Restart
<1>2. \/ pings' = EmptyPings /\ execution' = EmptyPings
      \/ pings' = file.pings /\ execution' = file.execution
  BY DEF Restart
<1>3. EmptyPings \in PingsType /\ EmptyPings \in ExecutionType /\ Covers(EmptyPings, EmptyPings)
  BY DEF EmptyPings, PingsType, ExecutionType, Covers
<1>4. EmptyFile \in FileType
  BY <1>3 DEF EmptyFile, FileType
<1>5. \A o \in Orders : phase'[o] \in {"new", "skipped", "lost", "failed", "done"}
  BY <1>1 DEF PingTypeOK
<1>6. PingTypeOK'
  <2>1. FlagsOK'
    <3>1. pinged' = pinged /\ pinged \in [Orders -> BOOLEAN]
      BY <1>1, Zenon DEF PingTypeOK, FlagsOK
    <3>2. written' = FALSE
      BY DEF Restart
    <3> QED
      BY <3>1, <3>2, Zenon DEF FlagsOK
  <2>2. pings' \in PingsType /\ execution' \in ExecutionType
    BY <1>2, <1>3 DEF PingTypeOK, FileType
  <2>3. phase' \in [Orders -> {"new", "skipped", "insert", "lost", "input", "swap", "sent", "failed",
                               "confirmed", "done"}]
    BY <1>1, <1>5
  <2>4. inserts' \in Seq(InsertType) /\ restarts' \in Nat
    BY <1>1 DEF PingTypeOK
  <2> QED
    BY <1>1, <1>4, <2>1, <2>2, <2>3, <2>4 DEF PingTypeOK
<1>7. OneBuyInv'
  <2>1. \A o \in Orders : ~Pending(o)'
    BY <1>5 DEF Pending
  <2>2. ASSUME NEW w \in Wallets, NEW t \in Tracked PROVE executed'[<<w, t>>] <= restarts'
    BY <1>1 DEF OneBuyInv
  <2>3. ASSUME NEW w \in Wallets, NEW t \in Tracked PROVE executed'[<<w, t>>] <= restarts' + 1
    <3>1. executed'[<<w, t>>] \in Nat /\ restarts' \in Nat
      BY <1>6 DEF PingTypeOK
    <3> QED
      BY <2>2, <3>1
  <2> QED
    BY <2>1, <2>2, <2>3 DEF OneBuyInv
<1>8. VolumesInv'
  <2>1. Covers(file.execution, file.pings)
    BY DEF VolumesInv
  <2>2. Covers(execution', pings')
    BY <1>2, <1>3, <2>1
  <2>3. ~written'
    BY DEF Restart
  <2> QED
    BY <1>1, <2>1, <2>2, <2>3 DEF VolumesInv
<1> QED
  BY <1>6, <1>7, <1>8

\* Every step keeps the invariant.
LEMMA PingStep == PingInv /\ [Next]_vars => PingInv'
<1> SUFFICES ASSUME PingInv, [Next]_vars PROVE PingInv'
  OBVIOUS
<1>1. CASE UNCHANGED vars
  <2>1. UNCHANGED <<trackVars, orderVars, mainVars, snapVars, histVars>>
    BY <1>1 DEF vars
  <2>2. FlagsOK'
    BY <2>1, Zenon DEF PingInv, PingTypeOK, FlagsOK, orderVars, mainVars
  <2>3. PingTypeOK'
    BY <2>1, <2>2 DEF PingInv, PingTypeOK, trackVars, orderVars, mainVars, snapVars, histVars
  <2>4. VolumesInv'
    BY <2>1, VolumesFrame DEF PingInv, trackVars, mainVars, snapVars
  <2> QED
    BY <2>1, <2>3, <2>4, OrdersUntouched DEF PingInv
<1>2. CASE Next
  <2>1. ASSUME NEW o \in Orders, \E yield \in Yields : Confirm(o, yield) PROVE PingInv'
    <3>1. Yields \subseteq Nat
      BY ConstantsAssumption, SMT
    <3> QED
      BY <2>1, <3>1, ConfirmKeeps
  <2> QED
    BY <1>2, <2>1, OrderMoves, InsertSwapKeeps, ProcessPingKeeps, WriteExecutionKeeps,
       CountExecutionKeeps, SnapshotKeeps, RestartKeeps DEF Next
<1> QED
  BY <1>1, <1>2

\* The invariant holds of every behaviour of the orders, the main task, the
\* snapshot thread and restarts.
THEOREM PingInvHolds == Spec => []PingInv
BY PingInitial, PingStep, PTL DEF Spec

\* insert_swap answers that an order is a ping at most once for a wallet and a
\* token, so a buy is made once for them, and once more after each restart.
THEOREM PingBuysOnce == Spec => []OneBuyPerPing
<1>1. PingInv => OneBuyPerPing
  <2> SUFFICES ASSUME PingInv, NEW k \in Wallets \X Tracked PROVE executed[k] <= 1 + restarts
    BY DEF OneBuyPerPing
  <2>1. PICK w \in Wallets, t \in Tracked : k = <<w, t>>
    OBVIOUS
  <2>2. executed[k] <= restarts + 1 /\ restarts \in Nat
    BY <2>1 DEF PingInv, PingTypeOK, OneBuyInv
  <2> QED
    BY <2>2
<1> QED
  BY <1>1, PingInvHolds, PTL

\* insert_execution writes the volumes before it counts, and the snapshot thread
\* copies the pings before the volumes: no count is ahead of its volumes, in
\* memory, in the file or after a restart.
THEOREM CountsBehindVolumes == Spec => []CountsHaveVolumes
<1>1. PingInv => CountsHaveVolumes
  BY DEF PingInv, VolumesInv, Covers, Number, CountsHaveVolumes
<1> QED
  BY <1>1, PingInvHolds, PTL
=============================================================================
