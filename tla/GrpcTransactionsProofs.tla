----------------------- MODULE GrpcTransactionsProofs -----------------------
(***************************************************************************)
(* Proofs about GrpcTransactions, for any accounts and any number of       *)
(* transactions, changes and broken connections: replacing a subscription  *)
(* never leaves the accounts unserved, and a transaction is broadcast      *)
(* twice only if it came during a replacement.                             *)
(***************************************************************************)
EXTENDS GrpcTransactions, TLAPS

SubType ==
    [accounts : SUBSET Accounts, pc : {"start", "connect", "wait", "stream", "aborted", "dead"},
     inbox : Seq(Txns), started : BOOLEAN]

\* The type invariant.
GrpcTypeOK ==
    /\ handle \in BOOLEAN /\ keys \in SUBSET Accounts /\ watched \in SUBSET Accounts
    /\ main \in {"first", "idle", "delay", "starting", "exited"}
    /\ subs \in Seq(SubType) /\ inCharge \in 0 .. Len(subs)
    /\ emitted \in 0 .. MaxTxns /\ copies \in [Txns -> Nat] /\ overlap \in SUBSET Txns

\* The subscriptions that have not ended are the one in charge and at most one more:
\* the new one while it is being started, or one that was aborted.
ChargeInv ==
    /\ main = "first" => inCharge = 0 /\ subs = <<>>
    /\ main \in {"idle", "delay", "starting"} => inCharge # 0
    /\ main = "starting" => inCharge # New
    /\ main = "starting" => Gone
    /\ inCharge # 0 => subs[inCharge].pc # "aborted"
    /\ \A i, j \in DOMAIN subs : subs[i].pc = "aborted" /\ subs[j].pc = "aborted" => i = j
    /\ \A i \in DOMAIN subs :
          subs[i].pc # "dead" =>
              \/ i = inCharge
              \/ main = "starting" /\ i = New
              \/ main # "starting" /\ subs[i].pc = "aborted"

\* The subscription in charge has not ended while somebody listens.
ChargeLives ==
    handle /\ inCharge # 0 /\ subs[inCharge].accounts # {} => subs[inCharge].pc # "dead"

\* The new subscription ends only if it has no accounts or nobody listens.
ServedInv ==
    /\ ChargeLives
    /\ handle /\ main = "starting" /\ subs[New].accounts # {} => subs[New].pc # "dead"

\* A subscription holds a transaction at most once, and only reported ones.
InboxOK(s, last) ==
    /\ \A k, l \in DOMAIN s.inbox : k < l => s.inbox[k] < s.inbox[l]
    /\ \A k \in DOMAIN s.inbox : s.inbox[k] <= last
    /\ s.pc \notin {"stream", "aborted", "dead"} => s.inbox = <<>>

InboxInv ==
    /\ \A i \in DOMAIN subs : InboxOK(subs[i], emitted)
    /\ \A t \in Txns : t > emitted => copies[t] = 0

\* Whether a subscription, or the i-th of q, will still broadcast the transaction.
Owes(s, t) == s.pc \in {"stream", "aborted"} /\ \E k \in DOMAIN s.inbox : s.inbox[k] = t

Holds(q, i, t) == i \in DOMAIN q /\ Owes(q[i], t)

Limit(t) == IF t \in overlap THEN 2 ELSE 1

\* What was broadcast and what will be, together: by the subscription in charge and
\* by any other.
CopiesInv ==
    \A t \in Txns, x \in Nat : x # inCharge =>
        copies[t] + (IF Holds(subs, inCharge, t) THEN 1 ELSE 0)
            + (IF Holds(subs, x, t) THEN 1 ELSE 0) <= Limit(t)

\* The inductive invariant.
GrpcInv == GrpcTypeOK /\ ChargeInv /\ ServedInv /\ InboxInv /\ CopiesInv

GrpcSpec == GrpcInit /\ [][GrpcNext]_grpcVars

-----------------------------------------------------------------------------
(* Sequences.                                                              *)

\* Replacing one element.
LEMMA UpdateParts ==
    ASSUME NEW S, NEW q \in Seq(S), NEW i \in DOMAIN q, NEW u \in S
    PROVE  LET r == [q EXCEPT ![i] = u]
           IN  /\ r \in Seq(S) /\ Len(r) = Len(q) /\ DOMAIN r = DOMAIN q
               /\ r[i] = u /\ \A j \in DOMAIN q : j # i => r[j] = q[j]
OBVIOUS

\* Appending one.
LEMMA AppendParts ==
    ASSUME NEW S, NEW q \in Seq(S), NEW u \in S
    PROVE  LET r == Append(q, u)
           IN  /\ r \in Seq(S) /\ Len(q) \in Nat /\ Len(r) = Len(q) + 1
               /\ DOMAIN q = 1 .. Len(q) /\ DOMAIN r = 1 .. Len(q) + 1
               /\ r[Len(q) + 1] = u /\ \A j \in DOMAIN q : r[j] = q[j]
OBVIOUS

\* Removing the first.
LEMMA TailParts ==
    ASSUME NEW S, NEW q \in Seq(S), q # <<>>
    PROVE  /\ Tail(q) \in Seq(S) /\ Len(q) \in Nat /\ 1 \in DOMAIN q /\ Head(q) = q[1]
           /\ DOMAIN q = 1 .. Len(q) /\ DOMAIN Tail(q) = 1 .. Len(q) - 1
           /\ \A k \in DOMAIN Tail(q) : k \in Nat /\ k + 1 \in DOMAIN q /\ Tail(q)[k] = q[k + 1]
OBVIOUS

-----------------------------------------------------------------------------
(* The steps.                                                              *)

\* Nothing is subscribed at first.
LEMMA InitGrpcInv == GrpcInit => GrpcInv
<1> SUFFICES ASSUME GrpcInit PROVE GrpcInv
  OBVIOUS
<1>1. subs = <<>> /\ inCharge = 0 /\ DOMAIN subs = {} /\ Len(subs) = 0
  BY DEF GrpcInit
<1>2. GrpcTypeOK
  BY <1>1, GrpcAssumption DEF GrpcInit, GrpcTypeOK, Txns
<1>3. ChargeInv /\ ServedInv
  BY <1>1 DEF GrpcInit, ChargeInv, ServedInv, ChargeLives, Gone
<1>4. InboxInv
  BY <1>1 DEF GrpcInit, InboxInv
<1>5. CopiesInv
  BY <1>1 DEF GrpcInit, CopiesInv, Holds, Limit
<1> QED
  BY <1>2, <1>3, <1>4, <1>5 DEF GrpcInv

\* The handle, and the main task where it starts or ends no subscription.
LEMMA QuietStep ==
    ASSUME GrpcInv,
           \/ \E a \in Accounts : WatchAccounts({a}) \/ DropAccounts({a})
           \/ DropHandle \/ Exit \/ Changed
    PROVE  GrpcInv'
<1>1. /\ subs' = subs /\ inCharge' = inCharge /\ emitted' = emitted /\ copies' = copies
      /\ overlap' = overlap
  BY DEF WatchAccounts, DropAccounts, Notify, DropHandle, Exit, Changed, txnVars, mainVars
<1>2. \/ main' = main
      \/ main \in {"first", "idle"} /\ main' = "exited"
      \/ main = "idle" /\ main' = "delay"
  BY DEF WatchAccounts, DropAccounts, Notify, DropHandle, Exit, Changed, mainVars
<1>3. handle' \in BOOLEAN /\ (handle' => handle)
  <2>1. handle' = handle \/ handle' = FALSE
    BY DEF WatchAccounts, DropAccounts, Notify, DropHandle, Exit, Changed, keyVars
  <2>2. handle \in BOOLEAN
    BY DEF GrpcInv, GrpcTypeOK
  <2>3. CASE handle' = handle
    BY <2>2, <2>3
  <2>4. CASE handle' = FALSE
    BY <2>4
  <2> QED
    BY <2>1, <2>3, <2>4
<1>4. keys' \in SUBSET Accounts /\ watched' \in SUBSET Accounts
  BY DEF WatchAccounts, DropAccounts, Notify, DropHandle, Exit, Changed, keyVars, GrpcInv, GrpcTypeOK
<1>5. main' = "starting" <=> main = "starting"
  BY <1>2
<1>6. GrpcTypeOK'
  BY <1>1, <1>2, <1>3, <1>4 DEF GrpcInv, GrpcTypeOK
<1>7. ChargeInv'
  BY <1>1, <1>2 DEF GrpcInv, ChargeInv, New, Gone
<1>8. ServedInv'
  BY <1>1, <1>3, <1>5 DEF GrpcInv, ServedInv, ChargeLives, New
<1>9. InboxInv'
  BY <1>1 DEF GrpcInv, InboxInv
<1>10. CopiesInv'
  BY <1>1 DEF GrpcInv, CopiesInv, Limit
<1> QED
  BY <1>6, <1>7, <1>8, <1>9, <1>10 DEF GrpcInv

\* A subscription is started.
LEMMA StartStep ==
    ASSUME GrpcInv, First \/ StartNew
    PROVE  GrpcInv'
<1> DEFINE u == NewSubscription(watched)
           n == Len(subs)
<1>1. /\ subs' = Append(subs, u) /\ emitted' = emitted /\ copies' = copies /\ overlap' = overlap
      /\ handle' = handle /\ keys' = keys /\ watched' = watched
      /\ \/ main = "first" /\ main' = "idle" /\ inCharge' = 1
         \/ main = "delay" /\ main' = "starting" /\ inCharge' = inCharge
  BY DEF First, StartNew, txnVars, keyVars
<1>2. GrpcTypeOK /\ ChargeInv /\ ServedInv /\ InboxInv /\ CopiesInv /\ subs \in Seq(SubType)
        /\ watched \in SUBSET Accounts
  BY DEF GrpcInv, GrpcTypeOK
<1>3. u \in SubType /\ u.accounts = watched /\ u.pc = "start" /\ u.inbox = <<>>
  BY <1>2 DEF NewSubscription, SubType
<1> HIDE DEF u
<1>4. /\ subs' \in Seq(SubType) /\ n \in Nat /\ Len(subs') = n + 1 /\ DOMAIN subs = 1 .. n
      /\ DOMAIN subs' = 1 .. n + 1 /\ subs'[n + 1] = u /\ \A j \in DOMAIN subs : subs'[j] = subs[j]
  BY <1>1, <1>2, <1>3, AppendParts
<1>5. inCharge \in 0 .. n
  BY <1>2 DEF GrpcTypeOK
<1>6. main = "first" => n = 0 /\ inCharge = 0
  BY <1>2 DEF ChargeInv
<1>7. main = "delay" => inCharge \in 1 .. n /\ Gone
  BY <1>1, <1>2, <1>5 DEF ChargeInv, StartNew, First
<1> HIDE DEF n
<1>8. GrpcTypeOK'
  <2>1. inCharge' \in 0 .. n + 1
    BY <1>1, <1>4, <1>5
  <2> QED
    BY <1>1, <1>2, <1>4, <2>1 DEF GrpcTypeOK
<1>9. ChargeInv'
  <2>1. ASSUME NEW i \in 1 .. n + 1 PROVE subs'[i].pc # "aborted"
    BY <1>1, <1>3, <1>4, <1>6, <1>7 DEF Gone
  <2>2. ASSUME NEW i \in 1 .. n + 1, subs'[i].pc # "dead"
        PROVE  i = inCharge' \/ (main' = "starting" /\ i = n + 1)
    <3>1. i # n + 1 => i \in 1 .. n /\ subs[i].pc # "dead" /\ subs[i].pc # "aborted"
      BY <1>4, <2>1, <2>2
    <3> QED
      BY <1>1, <1>2, <1>4, <1>6, <3>1 DEF ChargeInv
  <2>3. inCharge' \in 1 .. n + 1 /\ (main' = "starting" => inCharge' # n + 1)
    BY <1>1, <1>4, <1>6, <1>7
  <2>4. main' \in {"idle", "starting"}
    BY <1>1
  <2> QED
    BY <1>4, <2>1, <2>2, <2>3, <2>4 DEF ChargeInv, New, Gone
<1>10. ServedInv'
  <2>1. subs'[n + 1].pc # "dead"
    BY <1>3, <1>4
  <2>2. CASE main = "first"
    BY <1>1, <1>6, <2>1, <2>2 DEF ServedInv, ChargeLives
  <2>3. CASE main = "delay"
    <3>1. subs'[inCharge] = subs[inCharge]
      BY <1>4, <1>7, <2>3
    <3> QED
      BY <1>1, <1>2, <1>4, <2>1, <2>3, <3>1 DEF ServedInv, ChargeLives, New
  <2> QED
    BY <1>1, <2>2, <2>3
<1>11. InboxInv'
  <2>1. InboxOK(u, emitted)
    BY <1>3 DEF InboxOK
  <2>2. \A i \in 1 .. n + 1 : subs'[i] = u \/ (i \in DOMAIN subs /\ subs'[i] = subs[i])
    BY <1>4
  <2> QED
    BY <1>1, <1>2, <1>4, <2>1, <2>2 DEF InboxInv
<1>12. CopiesInv'
  <2> SUFFICES ASSUME NEW t \in Txns, NEW x \in Nat, x # inCharge'
               PROVE  copies[t] + (IF Holds(subs', inCharge', t) THEN 1 ELSE 0)
                        + (IF Holds(subs', x, t) THEN 1 ELSE 0) <= Limit(t)
    BY <1>1 DEF CopiesInv, Limit
  <2>2. Holds(subs', inCharge', t) => Holds(subs, inCharge, t)
    BY <1>1, <1>3, <1>4, <1>6, <1>7 DEF Holds, Owes
  <2>3. ~Holds(subs', x, t)
    <3>1. CASE x = n + 1
      BY <1>3, <1>4, <3>1 DEF Holds, Owes
    <3>2. CASE x \in 1 .. n
      <4>1. main = "delay" /\ inCharge' = inCharge
        BY <1>1, <1>6, <3>2
      <4>2. subs[x].pc = "dead"
        BY <1>2, <1>4, <1>7, <3>2, <4>1 DEF ChargeInv, Gone
      <4> QED
        BY <1>4, <3>2, <4>2 DEF Holds, Owes
    <3> QED
      BY <1>4, <3>1, <3>2 DEF Holds
  <2>4. copies[t] \in Nat /\ Limit(t) \in Nat /\ copies[t] + (IF Holds(subs, inCharge, t) THEN 1 ELSE 0) <= Limit(t)
    <3>1. n + 1 \in Nat /\ n + 1 # inCharge
      BY <1>4, <1>5
    <3>2. copies[t] \in Nat /\ Limit(t) \in Nat
      BY <1>2 DEF GrpcTypeOK, Limit
    <3>3. copies[t] + (IF Holds(subs, inCharge, t) THEN 1 ELSE 0)
            + (IF Holds(subs, n + 1, t) THEN 1 ELSE 0) <= Limit(t)
      BY <1>2, <3>1 DEF CopiesInv
    <3> QED
      BY <3>2, <3>3
  <2> QED
    BY <2>2, <2>3, <2>4
<1> QED
  BY <1>8, <1>9, <1>10, <1>11, <1>12 DEF GrpcInv

\* A subscription is aborted: the old one once the new one has started, or the
\* new one after a minute.  The other one of the two is in charge then.
LEMMA StopStep ==
    ASSUME GrpcInv, Replace \/ StartTimeout
    PROVE  GrpcInv'
<1>1. PICK i \in {inCharge, New} :
        /\ subs' = Abort(i)
        /\ {i, inCharge'} = {inCharge, New} /\ main = "starting" /\ main' = "idle"
        /\ emitted' = emitted /\ copies' = copies /\ overlap' = overlap
        /\ handle' = handle /\ keys' = keys /\ watched' = watched
  BY DEF Replace, StartTimeout, txnVars, keyVars
<1> DEFINE pc == IF subs[i].pc = "stream" THEN "aborted" ELSE "dead"
           u == [subs[i] EXCEPT !.pc = pc]
<1>2. GrpcTypeOK /\ ChargeInv /\ ServedInv /\ InboxInv /\ CopiesInv /\ subs \in Seq(SubType)
  BY DEF GrpcInv, GrpcTypeOK
<1>3. /\ inCharge \in 1 .. Len(subs) /\ New \in 1 .. Len(subs) /\ inCharge # New
      /\ DOMAIN subs = 1 .. Len(subs)
  BY <1>1, <1>2 DEF GrpcTypeOK, ChargeInv, New
<1>4. i \in DOMAIN subs /\ inCharge' \in DOMAIN subs /\ inCharge' # i /\ inCharge' \in {inCharge, New}
  BY <1>1, <1>3
<1>5. /\ u \in SubType /\ u.pc = pc /\ u.inbox = subs[i].inbox /\ u.accounts = subs[i].accounts
      /\ pc \in {"aborted", "dead"} /\ (pc = "aborted" => subs[i].pc = "stream")
  <2>1. subs[i] \in SubType
    BY <1>2, <1>4
  <2> QED
    BY <2>1 DEF SubType
<1>6. subs' = [subs EXCEPT ![i] = u]
  BY <1>1 DEF Abort
<1> HIDE DEF u, pc
<1>7. /\ subs' \in Seq(SubType) /\ Len(subs') = Len(subs) /\ DOMAIN subs' = DOMAIN subs
      /\ subs'[i] = u /\ \A j \in DOMAIN subs : j # i => subs'[j] = subs[j]
  BY <1>2, <1>4, <1>5, <1>6, UpdateParts
<1>8. GrpcTypeOK'
  <2>1. inCharge' \in 0 .. Len(subs)
    BY <1>3, <1>4
  <2> QED
    BY <1>1, <1>2, <1>7, <2>1 DEF GrpcTypeOK
<1>9. ChargeInv'
  <2>1. inCharge' # 0
    BY <1>3, <1>4
  <2>2. ASSUME NEW j \in DOMAIN subs, j # i PROVE subs'[j].pc # "aborted"
    BY <1>1, <1>2, <1>7, <2>2 DEF ChargeInv, Gone
  <2>3. ASSUME NEW j \in DOMAIN subs, j # i, subs'[j].pc # "dead" PROVE j = inCharge'
    <3>1. subs[j].pc # "dead"
      BY <1>7, <2>3
    <3>2. j \in {inCharge, New}
      BY <1>1, <1>2, <3>1 DEF ChargeInv
    <3> QED
      BY <1>1, <2>3, <3>2
  <2>4. subs'[i].pc \in {"aborted", "dead"}
    BY <1>5, <1>7
  <2>5. main' = "idle"
    BY <1>1
  <2> QED
    BY <1>4, <1>7, <2>1, <2>2, <2>3, <2>4, <2>5 DEF ChargeInv
<1>10. ServedInv'
  <2>1. subs'[inCharge'] = subs[inCharge']
    BY <1>4, <1>7
  <2>2. handle /\ subs[inCharge'].accounts # {} => subs[inCharge'].pc # "dead"
    BY <1>1, <1>2, <1>3, <1>4 DEF ServedInv, ChargeLives
  <2> QED
    BY <1>1, <2>1, <2>2 DEF ServedInv, ChargeLives
<1>11. InboxInv'
  <2>1. InboxOK(u, emitted)
    BY <1>2, <1>4, <1>5 DEF InboxInv, InboxOK
  <2> QED
    BY <1>1, <1>2, <1>7, <2>1 DEF InboxInv
<1>12. CopiesInv'
  <2> SUFFICES ASSUME NEW t \in Txns, NEW x \in Nat, x # inCharge'
               PROVE  copies[t] + (IF Holds(subs', inCharge', t) THEN 1 ELSE 0)
                        + (IF Holds(subs', x, t) THEN 1 ELSE 0) <= Limit(t)
    BY <1>1 DEF CopiesInv, Limit
  <2>1. Holds(subs', inCharge', t) => Holds(subs, inCharge', t)
    BY <1>4, <1>7 DEF Holds
  <2>2. Holds(subs', x, t) => x = i /\ Holds(subs, i, t)
    <3>1. CASE x = i
      BY <1>4, <1>5, <1>7, <3>1 DEF Holds, Owes
    <3>2. CASE x \in DOMAIN subs /\ x # i
      <4>1. subs[x].pc = "dead" /\ subs'[x] = subs[x]
        BY <1>1, <1>2, <1>7, <3>2 DEF ChargeInv
      <4> QED
        BY <4>1 DEF Holds, Owes
    <3> QED
      BY <1>7, <3>1, <3>2 DEF Holds
  <2>3. /\ copies[t] \in Nat /\ Limit(t) \in Nat
        /\ copies[t] + (IF Holds(subs, inCharge, t) THEN 1 ELSE 0)
             + (IF Holds(subs, New, t) THEN 1 ELSE 0) <= Limit(t)
    BY <1>2, <1>3 DEF CopiesInv, GrpcTypeOK, Limit
  <2>4. CASE i = inCharge /\ inCharge' = New
    BY <2>1, <2>2, <2>3, <2>4
  <2>5. CASE i = New /\ inCharge' = inCharge
    BY <2>1, <2>2, <2>3, <2>5
  <2> QED
    BY <1>1, <1>4, <2>4, <2>5
<1> QED
  BY <1>8, <1>9, <1>10, <1>11, <1>12 DEF GrpcInv

\* A step of an inner task: it ends only without accounts, without listeners or
\* once it was aborted, and it broadcasts a transaction only by giving it up.
InnerMove(i, u) ==
    /\ u \in SubType /\ u.accounts = subs[i].accounts
    /\ subs' = [subs EXCEPT ![i] = u]
    /\ subs[i].pc # "dead"
    /\ u.pc = "dead" => u.accounts = {} \/ ~handle \/ subs[i].pc = "aborted"
    /\ u.pc = "aborted" => subs[i].pc = "aborted"
    /\ subs[i].pc = "aborted" => u.pc \in {"aborted", "dead"}
    /\ InboxOK(u, emitted)
    /\ copies' \in [Txns -> Nat]
    /\ \A t \in Txns : copies'[t] + (IF Owes(u, t) THEN 1 ELSE 0)
                           <= copies[t] + (IF Owes(subs[i], t) THEN 1 ELSE 0)
    /\ UNCHANGED <<handle, keys, watched, main, inCharge, emitted, overlap>>

\* Such a step keeps the invariant.
LEMMA InnerKeeps ==
    ASSUME GrpcInv, NEW i \in DOMAIN subs, NEW u, InnerMove(i, u)
    PROVE  GrpcInv'
<1>1. GrpcTypeOK /\ ChargeInv /\ ServedInv /\ InboxInv /\ CopiesInv /\ subs \in Seq(SubType)
  BY DEF GrpcInv, GrpcTypeOK
<1>2. /\ u \in SubType /\ u.accounts = subs[i].accounts /\ subs' = [subs EXCEPT ![i] = u]
      /\ subs[i].pc # "dead" /\ InboxOK(u, emitted)
      /\ main' = main /\ inCharge' = inCharge /\ emitted' = emitted /\ overlap' = overlap
      /\ handle' = handle /\ keys' = keys /\ watched' = watched
      /\ u.pc = "dead" => u.accounts = {} \/ ~handle \/ subs[i].pc = "aborted"
      /\ u.pc = "aborted" => subs[i].pc = "aborted"
      /\ subs[i].pc = "aborted" => u.pc \in {"aborted", "dead"}
  BY DEF InnerMove
<1>3. /\ subs' \in Seq(SubType) /\ Len(subs') = Len(subs) /\ DOMAIN subs' = DOMAIN subs
      /\ subs'[i] = u /\ \A j \in DOMAIN subs : j # i => subs'[j] = subs[j]
  BY <1>1, <1>2, UpdateParts
<1>4. GrpcTypeOK'
  BY <1>1, <1>2, <1>3 DEF GrpcTypeOK, InnerMove
<1>5. ChargeInv'
  <2>1. \A j \in DOMAIN subs : /\ subs'[j].pc # "dead" => subs[j].pc # "dead"
                               /\ subs'[j].pc = "aborted" => subs[j].pc = "aborted"
                               /\ subs[j].pc = "aborted" => subs'[j].pc \in {"aborted", "dead"}
    BY <1>2, <1>3
  <2>2. main # "first"
    BY <1>1 DEF ChargeInv
  <2>3. inCharge # 0 => inCharge \in DOMAIN subs
    BY <1>1 DEF GrpcTypeOK
  <2> QED
    BY <1>1, <1>2, <1>3, <2>1, <2>2, <2>3 DEF ChargeInv, New, Gone
<1>6. ServedInv'
  <2>1. ASSUME NEW j \in DOMAIN subs, handle, subs'[j].pc = "dead", subs'[j].accounts # {},
               subs[j].pc # "aborted"
        PROVE  subs[j].pc = "dead" /\ subs[j].accounts # {}
    BY <1>2, <1>3, <2>1
  <2>2. inCharge # 0 => inCharge \in DOMAIN subs
    BY <1>1 DEF GrpcTypeOK
  <2>3. main = "starting" => New \in DOMAIN subs
    BY <1>1 DEF GrpcTypeOK, New, ChargeInv
  <2>4. ChargeLives'
    BY <1>1, <1>2, <2>1, <2>2 DEF ServedInv, ChargeLives, ChargeInv
  <2>5. handle /\ main = "starting" /\ subs'[New].accounts # {} => subs'[New].pc # "dead"
    BY <1>1, <2>1, <2>3 DEF ServedInv, ChargeInv, Gone
  <2> QED
    BY <1>2, <1>3, <2>4, <2>5 DEF ServedInv, New
<1>7. InboxInv'
  <2>1. \A j \in DOMAIN subs' : InboxOK(subs'[j], emitted)
    BY <1>1, <1>2, <1>3 DEF InboxInv
  <2>2. ASSUME NEW t \in Txns, t > emitted PROVE copies'[t] = 0
    <3>1. copies[t] = 0 /\ t \in Nat /\ emitted \in Nat /\ copies'[t] \in Nat
      BY <1>1, <2>2 DEF InboxInv, InnerMove, Txns, GrpcTypeOK
    <3>2. ~Owes(subs[i], t)
      <4>1. \A k \in DOMAIN subs[i].inbox : subs[i].inbox[k] <= emitted
        BY <1>1 DEF InboxInv, InboxOK
      <4> QED
        BY <2>2, <3>1, <4>1 DEF Owes
    <3>3. copies'[t] + (IF Owes(u, t) THEN 1 ELSE 0) <= copies[t] + (IF Owes(subs[i], t) THEN 1 ELSE 0)
      BY DEF InnerMove
    <3> QED
      BY <3>1, <3>2, <3>3
  <2> QED
    BY <1>2, <2>1, <2>2 DEF InboxInv
<1>8. CopiesInv'
  <2> SUFFICES ASSUME NEW t \in Txns, NEW x \in Nat, x # inCharge
               PROVE  copies'[t] + (IF Holds(subs', inCharge, t) THEN 1 ELSE 0)
                        + (IF Holds(subs', x, t) THEN 1 ELSE 0) <= Limit(t)
    BY <1>2 DEF CopiesInv, Limit
  <2>1. /\ copies[t] \in Nat /\ Limit(t) \in Nat /\ copies'[t] \in Nat
        /\ \A y \in Nat : y # inCharge =>
              copies[t] + (IF Holds(subs, inCharge, t) THEN 1 ELSE 0)
                + (IF Holds(subs, y, t) THEN 1 ELSE 0) <= Limit(t)
    BY <1>1 DEF CopiesInv, GrpcTypeOK, Limit, InnerMove
  <2>2. /\ copies'[t] + (IF Owes(u, t) THEN 1 ELSE 0) <= copies[t] + (IF Owes(subs[i], t) THEN 1 ELSE 0)
    BY DEF InnerMove
  <2>3. /\ (Holds(subs', i, t) <=> Owes(u, t)) /\ (Holds(subs, i, t) <=> Owes(subs[i], t))
        /\ \A j : j # i => (Holds(subs', j, t) <=> Holds(subs, j, t))
    BY <1>3 DEF Holds
  <2>4. CASE i = inCharge
    <3>1. (Holds(subs', inCharge, t) <=> Owes(u, t)) /\ (Holds(subs, inCharge, t) <=> Owes(subs[i], t))
      BY <2>3, <2>4
    <3>2. Holds(subs', x, t) <=> Holds(subs, x, t)
      BY <2>3, <2>4
    <3> QED
      BY <2>1, <2>2, <3>1, <3>2
  <2>5. CASE i # inCharge
    <3>1. Holds(subs', inCharge, t) <=> Holds(subs, inCharge, t)
      BY <2>3, <2>5
    <3>2. i \in Nat
      BY <1>1
    <3>3. copies[t] + (IF Holds(subs, inCharge, t) THEN 1 ELSE 0)
            + (IF Owes(subs[i], t) THEN 1 ELSE 0) <= Limit(t)
      BY <2>1, <2>3, <2>5, <3>2
    <3>4. CASE x = i
      BY <2>1, <2>2, <2>3, <3>1, <3>3, <3>4
    <3>5. CASE x # i
      <4>1. x \in DOMAIN subs => subs[x].pc = "dead"
        BY <1>1, <1>2, <2>5, <3>5 DEF ChargeInv, Gone
      <4>2. ~Holds(subs', x, t)
        BY <2>3, <3>5, <4>1 DEF Holds, Owes
      <4> QED
        BY <2>1, <2>2, <3>1, <3>3, <4>2
    <3> QED
      BY <3>4, <3>5
  <2> QED
    BY <2>4, <2>5
<1> QED
  BY <1>4, <1>5, <1>6, <1>7, <1>8 DEF GrpcInv

\* Every action of an inner task is such a step.
LEMMA InnerIsMove ==
    ASSUME GrpcInv, NEW i \in DOMAIN subs, InnerTask(i)
    PROVE  \E u : InnerMove(i, u)
<1> DEFINE s == subs[i]
<1>1. subs \in Seq(SubType) /\ InboxInv /\ copies \in [Txns -> Nat] /\ emitted \in Nat
  BY DEF GrpcInv, GrpcTypeOK
<1>2. s \in SubType /\ InboxOK(s, emitted)
  BY <1>1 DEF InboxInv
\* The state changes, the inbox does not or is emptied, nothing is broadcast.
<1>3. ASSUME NEW u, u \in SubType, u.accounts = s.accounts, subs' = [subs EXCEPT ![i] = u],
             s.pc # "dead", u.pc = "dead" => u.accounts = {} \/ s.pc = "aborted",
             u.pc # "aborted", s.pc = "aborted" => u.pc = "dead", u.inbox \in {s.inbox, <<>>},
             u.pc = "stream" => u.inbox = <<>> \/ s.pc = "stream",
             u.pc \notin {"stream", "dead"} => u.inbox = <<>>,
             UNCHANGED <<handle, keys, watched, main, inCharge, emitted, overlap, copies>>
      PROVE  \E w : InnerMove(i, w)
  <2>1. InboxOK(u, emitted)
    <3>1. CASE u.inbox = <<>>
      BY <3>1 DEF InboxOK
    <3>2. CASE u.inbox = s.inbox
      BY <1>2, <1>3, <3>2 DEF InboxOK
    <3> QED
      BY <1>3, <3>1, <3>2
  <2>2. \A t \in Txns : Owes(u, t) => Owes(s, t)
    BY <1>3 DEF Owes
  <2>3. \A t \in Txns : copies'[t] + (IF Owes(u, t) THEN 1 ELSE 0)
                          <= copies[t] + (IF Owes(s, t) THEN 1 ELSE 0)
    BY <1>1, <1>3, <2>2
  <2>4. InnerMove(i, u)
    BY <1>1, <1>3, <2>1, <2>3 DEF InnerMove
  <2> QED
    BY <2>4
<1>4. ASSUME NEW pc \in {"connect", "wait", "stream", "dead"}, s.pc \in {"start", "connect", "wait"},
             pc = "dead" => s.accounts = {},
             subs' = [subs EXCEPT ![i].pc = pc],
             UNCHANGED <<handle, keys, watched, main, inCharge, emitted, overlap, copies>>
      PROVE  \E w : InnerMove(i, w)
  <2> DEFINE u == [s EXCEPT !.pc = pc]
  <2>1. u \in SubType /\ u.accounts = s.accounts /\ u.pc = pc /\ u.inbox = s.inbox
    BY <1>2, <1>4 DEF SubType
  <2>2. s.inbox = <<>>
    BY <1>2, <1>4 DEF InboxOK
  <2>3. subs' = [subs EXCEPT ![i] = u]
    BY <1>4
  <2> HIDE DEF u, s
  <2> QED
    BY <1>3, <1>4, <2>1, <2>2, <2>3
<1>5. CASE Begin(i)
  <2>1. (IF s.accounts = {} THEN "dead" ELSE "connect") \in {"connect", "wait", "stream", "dead"}
    OBVIOUS
  <2> QED
    BY <1>4, <1>5, <2>1 DEF Begin, keyVars, mainVars, txnVars
<1>6. CASE Subscribed(i)
  BY <1>4, <1>6 DEF Subscribed, keyVars, mainVars, txnVars
<1>7. CASE Refused(i)
  BY <1>4, <1>7 DEF Refused, keyVars, mainVars, txnVars
<1>8. CASE Retry(i)
  BY <1>4, <1>8 DEF Retry, keyVars, mainVars, txnVars
<1>9. CASE Disconnected(i)
  <2> DEFINE u == [s EXCEPT !.pc = "connect", !.inbox = <<>>]
  <2>1. u \in SubType /\ u.accounts = s.accounts /\ u.pc = "connect" /\ u.inbox = <<>>
    <3>1. <<>> \in Seq(Txns)
      OBVIOUS
    <3> QED
      BY <1>2, <3>1 DEF SubType
  <2>2. subs' = [subs EXCEPT ![i] = u]
    BY <1>9 DEF Disconnected
  <2>3. s.pc = "stream" /\ UNCHANGED <<handle, keys, watched, main, inCharge, emitted, overlap, copies>>
    BY <1>9 DEF Disconnected, keyVars, mainVars, txnVars
  <2> HIDE DEF u, s
  <2> QED
    BY <1>3, <2>1, <2>2, <2>3
<1>10. CASE ReceivePing(i)
  <2> DEFINE u == [s EXCEPT !.started = TRUE]
  <2>1. u \in SubType /\ u.accounts = s.accounts /\ u.pc = s.pc /\ u.inbox = s.inbox
    BY <1>2 DEF SubType
  <2>2. subs' = [subs EXCEPT ![i] = u]
    BY <1>10 DEF ReceivePing
  <2>3. s.pc = "stream" /\ UNCHANGED <<handle, keys, watched, main, inCharge, emitted, overlap, copies>>
    BY <1>10 DEF ReceivePing, keyVars, mainVars, txnVars
  <2> HIDE DEF u, s
  <2> QED
    BY <1>3, <2>1, <2>2, <2>3
<1>11. CASE ReceiveTransaction(i)
  <2> DEFINE pc == IF handle THEN s.pc ELSE "dead"
             u == [s EXCEPT !.started = TRUE, !.inbox = Tail(s.inbox), !.pc = pc]
             head == Head(s.inbox)
  <2>1. s.pc \in {"stream", "aborted"} /\ s.inbox # <<>> /\ s.inbox \in Seq(Txns)
    BY <1>2, <1>11 DEF ReceiveTransaction, SubType
  <2>2. /\ Tail(s.inbox) \in Seq(Txns) /\ Len(s.inbox) \in Nat /\ 1 \in DOMAIN s.inbox
        /\ head = s.inbox[1] /\ DOMAIN s.inbox = 1 .. Len(s.inbox)
        /\ DOMAIN Tail(s.inbox) = 1 .. Len(s.inbox) - 1
        /\ \A k \in DOMAIN Tail(s.inbox) :
              k \in Nat /\ k + 1 \in DOMAIN s.inbox /\ Tail(s.inbox)[k] = s.inbox[k + 1]
    BY <2>1, TailParts
  <2>3. subs' = [subs EXCEPT ![i] = u]
    BY <1>11 DEF ReceiveTransaction
  <2>4. /\ UNCHANGED <<handle, keys, watched, main, inCharge, emitted, overlap>>
        /\ copies' = IF handle THEN [copies EXCEPT ![head] = @ + 1] ELSE copies
    BY <1>11 DEF ReceiveTransaction, keyVars, mainVars
  <2>5. pc \in {s.pc, "dead"} /\ (pc = "dead" => ~handle)
    BY <2>1
  <2> HIDE DEF pc
  <2>6. /\ u \in SubType /\ u.accounts = s.accounts /\ u.pc = pc /\ u.inbox = Tail(s.inbox)
    BY <1>2, <2>1, <2>2, <2>5 DEF SubType
  <2> HIDE DEF u, head
  <2>7. \A k, l \in DOMAIN s.inbox : k < l => s.inbox[k] < s.inbox[l]
    BY <1>2 DEF InboxOK
  <2>8. InboxOK(u, emitted)
    <3>1. \A k \in DOMAIN s.inbox : s.inbox[k] <= emitted
      BY <1>2 DEF InboxOK
    <3>2. \A k, l \in DOMAIN u.inbox : k < l => u.inbox[k] < u.inbox[l]
      <4> SUFFICES ASSUME NEW k \in DOMAIN Tail(s.inbox), NEW l \in DOMAIN Tail(s.inbox), k < l
                   PROVE  s.inbox[k + 1] < s.inbox[l + 1]
        BY <2>2, <2>6
      <4>1. k + 1 \in DOMAIN s.inbox /\ l + 1 \in DOMAIN s.inbox /\ k + 1 < l + 1
        BY <2>2
      <4> QED
        BY <2>7, <4>1
    <3>3. \A k \in DOMAIN u.inbox : u.inbox[k] <= emitted
      BY <2>2, <2>6, <3>1
    <3> QED
      BY <2>1, <2>5, <2>6, <3>2, <3>3 DEF InboxOK
  <2>9. head \in Txns /\ head \in Nat
    <3>1. s.inbox[1] \in Txns
      BY <2>1, <2>2
    <3> QED
      BY <2>2, <3>1 DEF Txns
  <2>10. copies' \in [Txns -> Nat]
    BY <1>1, <2>4, <2>9
  <2>11. ASSUME NEW t \in Txns
         PROVE  copies'[t] + (IF Owes(u, t) THEN 1 ELSE 0)
                    <= copies[t] + (IF Owes(s, t) THEN 1 ELSE 0)
    <3>1. Owes(u, t) => Owes(s, t)
      BY <2>1, <2>2, <2>5, <2>6 DEF Owes
    <3>2. Owes(s, head)
      BY <2>1, <2>2 DEF Owes
    <3>3. ~Owes(u, head)
      <4> SUFFICES ASSUME NEW k \in DOMAIN Tail(s.inbox), s.inbox[k + 1] = head PROVE FALSE
        BY <2>2, <2>6 DEF Owes
      <4>1. s.inbox[1] < s.inbox[k + 1]
        BY <2>2, <2>7
      <4> QED
        BY <2>2, <2>9, <4>1
    <3>4. CASE t = head
      BY <1>1, <2>4, <2>9, <3>2, <3>3, <3>4
    <3>5. CASE t # head
      BY <1>1, <2>4, <3>1, <3>5
    <3> QED
      BY <3>4, <3>5
  <2>12. InnerMove(i, u)
    BY <2>1, <2>3, <2>4, <2>5, <2>6, <2>8, <2>10, <2>11 DEF InnerMove
  <2> QED
    BY <2>12
<1>12. CASE Cancelled(i)
  <2> DEFINE u == [s EXCEPT !.pc = "dead", !.inbox = <<>>]
  <2>1. u \in SubType /\ u.accounts = s.accounts /\ u.pc = "dead" /\ u.inbox = <<>>
    <3>1. <<>> \in Seq(Txns)
      OBVIOUS
    <3> QED
      BY <1>2, <3>1 DEF SubType
  <2>2. subs' = [subs EXCEPT ![i] = u]
    BY <1>12 DEF Cancelled
  <2>3. s.pc = "aborted" /\ UNCHANGED <<handle, keys, watched, main, inCharge, emitted, overlap, copies>>
    BY <1>12 DEF Cancelled, keyVars, mainVars, txnVars
  <2> HIDE DEF u, s
  <2> QED
    BY <1>3, <2>1, <2>2, <2>3
<1> QED
  BY <1>5, <1>6, <1>7, <1>8, <1>9, <1>10, <1>11, <1>12 DEF InnerTask

\* A transaction is put in the inbox of some of the subscriptions.
LEMMA ReportStep ==
    ASSUME GrpcInv, NEW a \in Accounts, Report(a)
    PROVE  GrpcInv'
<1> DEFINE e == emitted + 1
           n == Len(subs)
           add(s) == [s EXCEPT !.inbox = Append(s.inbox, e)]
<1>1. GrpcTypeOK /\ ChargeInv /\ ServedInv /\ InboxInv /\ CopiesInv /\ subs \in Seq(SubType)
        /\ emitted \in Nat /\ e \in Txns /\ n \in Nat /\ DOMAIN subs = 1 .. n
  BY GrpcAssumption DEF GrpcInv, GrpcTypeOK, Report, Txns
<1>2. /\ emitted' = e /\ copies' = copies /\ main' = main /\ inCharge' = inCharge
      /\ handle' = handle /\ keys' = keys /\ watched' = watched
      /\ overlap' = IF Replacing THEN overlap \cup {e} ELSE overlap
  BY DEF Report, keyVars, mainVars
<1>3. subs' = [i \in DOMAIN subs |->
                  IF i \in Streaming /\ a \in subs[i].accounts THEN add(subs[i]) ELSE subs[i]]
  BY DEF Report
<1>4. ASSUME NEW i \in DOMAIN subs
      PROVE  /\ subs'[i] \in SubType /\ subs'[i].pc = subs[i].pc
             /\ subs'[i].accounts = subs[i].accounts /\ InboxOK(subs'[i], e)
             /\ \A t \in Txns \ {e} : Owes(subs'[i], t) => Owes(subs[i], t)
  <2>1. subs[i] \in SubType /\ InboxOK(subs[i], emitted)
    BY <1>1 DEF InboxInv
  <2> DEFINE b == subs[i].inbox
             c == Append(b, e)
             m == Len(b)
  <2>2. b \in Seq(Txns) /\ \A k \in DOMAIN b : b[k] \in Nat /\ b[k] <= emitted
    <3>1. b \in Seq(Txns) /\ \A k \in DOMAIN b : b[k] <= emitted
      BY <2>1 DEF SubType, InboxOK
    <3>2. \A k \in DOMAIN b : b[k] \in Txns
      BY <3>1
    <3> QED
      BY <3>1, <3>2 DEF Txns
  <2>3. CASE subs'[i] = subs[i]
    <3>1. InboxOK(subs[i], e)
      <4>1. \A k \in DOMAIN b : b[k] <= e
        BY <1>1, <2>2
      <4> QED
        BY <2>1, <4>1 DEF InboxOK
    <3> QED
      BY <2>1, <2>3, <3>1
  <2>4. CASE subs'[i] = add(subs[i]) /\ subs[i].pc \in {"stream", "aborted"}
    <3>1. /\ c \in Seq(Txns) /\ m \in Nat /\ DOMAIN b = 1 .. m /\ DOMAIN c = 1 .. m + 1
          /\ c[m + 1] = e /\ \A k \in DOMAIN b : c[k] = b[k]
      BY <1>1, <2>2, AppendParts
    <3> HIDE DEF c
    <3>2. /\ subs'[i] \in SubType /\ subs'[i].pc = subs[i].pc /\ subs'[i].inbox = c
          /\ subs'[i].accounts = subs[i].accounts
      BY <2>1, <2>4, <3>1 DEF SubType, c
    <3> HIDE DEF b, m, e
    <3>3. \A k \in DOMAIN c : c[k] <= e
      BY <1>1, <2>2, <3>1 DEF e
    <3>4. ASSUME NEW k \in DOMAIN c, NEW l \in DOMAIN c, k < l PROVE c[k] < c[l]
      <4>1. k \in DOMAIN b /\ c[k] = b[k]
        BY <3>1, <3>4
      <4>2. CASE l \in DOMAIN b
        BY <2>1, <3>1, <3>4, <4>1, <4>2 DEF InboxOK, b
      <4>3. CASE l = m + 1
        BY <1>1, <2>2, <3>1, <4>1, <4>3 DEF e
      <4> QED
        BY <3>1, <4>2, <4>3
    <3>5. InboxOK(subs'[i], e)
      BY <2>4, <3>2, <3>3, <3>4 DEF InboxOK
    <3>6. ASSUME NEW t \in Txns \ {e}, Owes(subs'[i], t) PROVE Owes(subs[i], t)
      <4>1. PICK k \in DOMAIN c : c[k] = t
        BY <3>2, <3>6 DEF Owes
      <4>2. k \in DOMAIN b /\ b[k] = t
        BY <3>1, <3>6, <4>1
      <4> QED
        BY <2>4, <4>2 DEF Owes, b
    <3> QED
      BY <2>4, <3>2, <3>5, <3>6
  <2> QED
    BY <1>3, <2>3, <2>4 DEF Streaming
<1>5. DOMAIN subs' = DOMAIN subs /\ subs' \in Seq(SubType) /\ Len(subs') = n
  <2>1. subs' = [i \in 1 .. n |-> subs'[i]] /\ DOMAIN subs' = DOMAIN subs
    BY <1>1, <1>3
  <2>2. \A i \in 1 .. n : subs'[i] \in SubType
    BY <1>1, <1>4
  <2>3. subs' \in [1 .. n -> SubType]
    BY <2>1, <2>2
  <2>4. subs' \in Seq(SubType) /\ Len(subs') = n
    BY <1>1, <2>1, <2>3
  <2> QED
    BY <2>1, <2>4
<1> HIDE DEF e
<1>6. GrpcTypeOK'
  <2>1. emitted' \in 0 .. MaxTxns
    BY <1>1, <1>2, GrpcAssumption DEF Txns
  <2>2. inCharge' \in 0 .. Len(subs')
    BY <1>1, <1>2, <1>5 DEF GrpcTypeOK
  <2>3. overlap' \in SUBSET Txns /\ copies' \in [Txns -> Nat]
    BY <1>1, <1>2 DEF GrpcTypeOK
  <2> QED
    BY <1>1, <1>2, <1>5, <2>1, <2>2, <2>3 DEF GrpcTypeOK
<1>7. ChargeInv'
  <2>1. main # "first" \/ subs' = <<>>
    BY <1>1, <1>5 DEF ChargeInv
  <2>2. inCharge # 0 => inCharge \in DOMAIN subs
    BY <1>1 DEF GrpcTypeOK
  <2> QED
    BY <1>1, <1>2, <1>4, <1>5, <2>1, <2>2 DEF ChargeInv, New, Gone
<1>8. ServedInv'
  <2>1. inCharge # 0 => inCharge \in DOMAIN subs
    BY <1>1 DEF GrpcTypeOK
  <2>2. main = "starting" => New \in DOMAIN subs
    <3>1. main = "starting" => inCharge \in 1 .. n
      BY <1>1, <2>1 DEF ChargeInv
    <3> QED
      BY <1>1, <3>1 DEF New
  <2>3. ChargeLives'
    BY <1>1, <1>2, <1>4, <2>1 DEF ServedInv, ChargeLives
  <2>4. handle /\ main = "starting" /\ subs'[New].accounts # {} => subs'[New].pc # "dead"
    BY <1>1, <1>4, <2>2 DEF ServedInv
  <2> QED
    BY <1>2, <1>5, <2>3, <2>4 DEF ServedInv, New
<1>9. InboxInv'
  <2>1. \A t \in Txns : t > e => copies[t] = 0
    BY <1>1 DEF InboxInv, Txns, e
  <2> QED
    BY <1>2, <1>4, <1>5, <2>1 DEF InboxInv
<1>10. CopiesInv'
  <2> SUFFICES ASSUME NEW t \in Txns, NEW x \in Nat, x # inCharge
               PROVE  copies[t] + (IF Holds(subs', inCharge, t) THEN 1 ELSE 0)
                        + (IF Holds(subs', x, t) THEN 1 ELSE 0) <= Limit(t)'
    BY <1>2 DEF CopiesInv
  <2>1. copies[t] \in Nat
    BY <1>1 DEF GrpcTypeOK
  <2>2. CASE t = e
    <3>1. copies[t] = 0
      BY <1>1, <2>2 DEF InboxInv, e
    <3>2. Replacing => Limit(t)' = 2
      BY <1>2, <2>2 DEF Limit
    <3>3. Limit(t)' \in {1, 2}
      BY DEF Limit
    <3>4. Holds(subs', x, t) => Replacing
      <4>1. Holds(subs', x, t) => x \in DOMAIN subs /\ subs[x].pc \in {"stream", "aborted"}
        BY <1>4, <1>5 DEF Holds, Owes
      <4> QED
        BY <1>1, <4>1 DEF ChargeInv, Replacing, Gone
    <3> QED
      BY <3>1, <3>2, <3>3, <3>4
  <2>3. CASE t # e
    <3>1. Limit(t)' = Limit(t) /\ Limit(t) \in Nat
      BY <1>2, <2>3 DEF Limit
    <3>2. \A i : Holds(subs', i, t) => Holds(subs, i, t)
      BY <1>4, <1>5, <2>3 DEF Holds
    <3>3. copies[t] + (IF Holds(subs, inCharge, t) THEN 1 ELSE 0)
            + (IF Holds(subs, x, t) THEN 1 ELSE 0) <= Limit(t)
      BY <1>1 DEF CopiesInv
    <3> QED
      BY <2>1, <3>1, <3>2, <3>3
  <2> QED
    BY <2>2, <2>3
<1> QED
  BY <1>6, <1>7, <1>8, <1>9, <1>10 DEF GrpcInv

-----------------------------------------------------------------------------

\* The invariant holds in every state that the stream can reach.
THEOREM GrpcInvHolds == GrpcSpec => []GrpcInv
<1>1. GrpcInit => GrpcInv
  BY InitGrpcInv
<1>2. GrpcInv /\ [GrpcNext]_grpcVars => GrpcInv'
  <2> SUFFICES ASSUME GrpcInv, [GrpcNext]_grpcVars PROVE GrpcInv'
    OBVIOUS
  <2>1. CASE UNCHANGED grpcVars
    <3>1. /\ subs' = subs /\ inCharge' = inCharge /\ main' = main /\ emitted' = emitted
          /\ copies' = copies /\ overlap' = overlap /\ handle' = handle /\ keys' = keys
          /\ watched' = watched
      BY <2>1 DEF grpcVars, keyVars, mainVars, txnVars
    <3>2. GrpcTypeOK' /\ ChargeInv' /\ ServedInv'
      BY <3>1 DEF GrpcInv, GrpcTypeOK, ChargeInv, ServedInv, ChargeLives, New, Gone
    <3>3. InboxInv' /\ CopiesInv'
      BY <3>1 DEF GrpcInv, InboxInv, CopiesInv, Limit
    <3> QED
      BY <3>2, <3>3 DEF GrpcInv
  <2>2. CASE MainTask
    BY <2>2, StartStep, StopStep, QuietStep DEF MainTask
  <2>3. ASSUME NEW i \in DOMAIN subs, InnerTask(i) PROVE GrpcInv'
    BY <2>3, InnerIsMove, InnerKeeps
  <2>4. ASSUME NEW a \in Accounts, Report(a) PROVE GrpcInv'
    BY <2>4, ReportStep
  <2>5. CASE DropHandle \/ \E a \in Accounts : WatchAccounts({a}) \/ DropAccounts({a})
    BY <2>5, QuietStep
  <2> QED
    BY <2>1, <2>2, <2>3, <2>4, <2>5 DEF GrpcNext
<1> QED
  BY <1>1, <1>2, PTL DEF GrpcSpec

\* While somebody listens, the subscription in charge has neither ended nor been
\* aborted: the main task stops the old one only after the new one has delivered.
THEOREM NeverUnserved == GrpcSpec => []AlwaysServed
<1>1. GrpcInv => AlwaysServed
  BY DEF GrpcInv, ServedInv, ChargeInv, ChargeLives, AlwaysServed
<1> QED
  BY <1>1, GrpcInvHolds, PTL

\* A transaction is broadcast at most once, or twice if it was reported while a
\* subscription was being replaced or an aborted one had not come to its end.
THEOREM RepeatsBounded == GrpcSpec => []RepeatsOnlyWhileReplacing
<1>1. GrpcInv => RepeatsOnlyWhileReplacing
  <2> SUFFICES ASSUME GrpcInv, NEW t \in Txns PROVE copies[t] <= IF t \in overlap THEN 2 ELSE 1
    BY DEF RepeatsOnlyWhileReplacing
  <2>1. copies[t] \in Nat /\ inCharge \in Nat
    BY DEF GrpcInv, GrpcTypeOK
  <2>2. inCharge + 1 \in Nat /\ inCharge + 1 # inCharge
    BY <2>1
  <2>3. copies[t] + (IF Holds(subs, inCharge, t) THEN 1 ELSE 0)
          + (IF Holds(subs, inCharge + 1, t) THEN 1 ELSE 0) <= Limit(t)
    BY <2>2 DEF GrpcInv, CopiesInv
  <2> QED
    BY <2>1, <2>3 DEF Limit
<1> QED
  BY <1>1, GrpcInvHolds, PTL
=============================================================================
