------------------------- MODULE CopyServiceProofs -------------------------
(***************************************************************************)
(* Proofs about CopyService, for every set of orders and wallets and every *)
(* configuration: its type invariant, that an order is in one place at a   *)
(* time, that the pending map agrees with the transaction service, that    *)
(* the retry budgets bound what is sent, that a swap is copied on chain at *)
(* most once, that the history counts no order twice and none before its   *)
(* end, and that no sell is of more than was bought for its position.      *)
(***************************************************************************)
EXTENDS CopyService, AmountFacts, TLAPS

\* A trade is entered under the mint that was sold or bought, which is never
\* one of the static ones.
Tradable(d) ==
    /\ d.type \in {"sell", "both"} => Swap[d.order].tin \notin Static
    /\ d.type \in {"buy", "both"} => Swap[d.order].tout \notin Static

TradeInv ==
    /\ \A d \in execQueue : Tradable(d)
    /\ \A k \in tasks : Tradable(k.d)
    /\ \A x \in outputs : Tradable(x.d)
    /\ \A e \in pending : Tradable(e.d)

TypeInv == TypeOK /\ TradeInv

\* No two carriers of one order, the order of a carrier is open, and an open
\* order has a carrier.
OneInv ==
    /\ \A a, b \in execQueue : a.order = b.order => a = b
    /\ \A a, b \in tasks : a.d.order = b.d.order => a = b
    /\ \A a, b \in outputs : a.d.order = b.d.order => a = b
    /\ \A a, b \in pending : a.d.order = b.d.order => a = b
    /\ \A a \in execQueue :
          /\ \A b \in tasks : a.order # b.d.order
          /\ \A b \in outputs : a.order # b.d.order
          /\ \A b \in pending : a.order # b.d.order
    /\ \A a \in tasks :
          /\ \A b \in outputs : a.d.order # b.d.order
          /\ \A b \in pending : a.d.order # b.d.order
    /\ \A a \in outputs : \A b \in pending : a.d.order # b.d.order

OpenInv ==
    /\ \A a \in execQueue : fate[a.order] = "open"
    /\ \A a \in tasks : fate[a.d.order] = "open"
    /\ \A a \in outputs : fate[a.d.order] = "open"
    /\ \A a \in pending : fate[a.d.order] = "open"
    /\ \A o \in Orders : fate[o] = "open" =>
          \/ \E a \in execQueue : a.order = o
          \/ \E a \in tasks : a.d.order = o
          \/ \E a \in outputs : a.d.order = o
          \/ \E a \in pending : a.d.order = o

\* Transaction ids are fresh, and a transaction is in flight or reported.
IdInv ==
    /\ \A e \in pending : e.id < nextId
    /\ \A f \in inFlight : f.id < nextId
    /\ \A r \in reports : r.id < nextId
    /\ \A a, b \in pending : a.id = b.id => a = b
    /\ \A a, b \in inFlight : a.id = b.id => a = b
    /\ \A a, b \in reports : a.id = b.id => a = b
    /\ \A f \in inFlight : \A r \in reports : f.id # r.id

\* An entry of the pending map and the transaction it waits for; one order has
\* one transaction in flight.
MatchInv ==
    /\ \A e \in pending :
          \/ \E f \in inFlight : f.id = e.id /\ f.order = e.d.order
          \/ \E r \in reports : r.id = e.id
    /\ \A f \in inFlight :
          \/ \E e \in pending : e.id = f.id /\ e.d.order = f.order
          \/ fate[f.order] = "shed"
    /\ \A a, b \in inFlight : a.order = b.order => a = b

\* Transactions that the counters of the details account for.
Spent(d) == d.errRetries * (SendTxnRetries + 1) + d.sendRetries

Budget == (SendTxnRetries + 1) * (ConfirmedErrorRetries + 1)

BudgetInv ==
    /\ \A d \in execQueue : sent[d.order] <= Spent(d)
    /\ \A k \in tasks : sent[k.d.order] <= Spent(k.d)
    /\ \A x \in outputs : sent[x.d.order] <= Spent(x.d)
    /\ \A e \in pending : sent[e.d.order] <= Spent(e.d) + 1
    /\ \A o \in Orders : sent[o] <= Budget /\ (fate[o] = "new" => sent[o] = 0)

\* A copy that was executed has its report waiting, or the order has ended.
ExecInv ==
    ~FalseUnconfirmed =>
        /\ \A o \in Orders :
              /\ executed[o] <= 1
              /\ executed[o] = 1 =>
                    \/ fate[o] \in {"done", "shed"}
                    \/ \E e \in pending : \E r \in reports :
                          e.d.order = o /\ r.id = e.id /\ r.response = "ok"
        /\ \A f \in inFlight : executed[f.order] = 0

\* The inductive invariant.
CopyInv == TypeInv /\ OneInv /\ OpenInv /\ IdInv /\ MatchInv /\ BudgetInv /\ ExecInv

-----------------------------------------------------------------------------
(* The types.                                                              *)

\* The parts of the details and of the swap of an order.
LEMMA DetailsParts ==
    ASSUME NEW d \in Details
    PROVE  /\ d.order \in Orders /\ d.sendRetries \in 0 .. SendTxnRetries
           /\ d.errRetries \in 0 .. ConfirmedErrorRetries
           /\ Swap[d.order].wallet \in Wallets
           /\ Swap[d.order].tin \in Tokens /\ Swap[d.order].tout \in Tokens
           /\ Swap[d.order].ain \in Nat /\ Swap[d.order].aout \in Nat
           /\ Swap[d.order].pre \in Nat
<1>1. d.order \in Orders /\ d.sendRetries \in 0 .. SendTxnRetries
          /\ d.errRetries \in 0 .. ConfirmedErrorRetries
  BY DEF Details
<1> QED
  BY <1>1, ConstantsAssumption

\* A history that is present is one of volumes, under a key.
LEMMA HistoryParts ==
    ASSUME TypeOK, NEW d \in Details,
           HistoryOf(Swap[d.order].wallet, Swap[d.order].tin) # NoHistory
    PROVE  /\ Swap[d.order].tin \notin Static
           /\ <<Swap[d.order].wallet, Swap[d.order].tin>> \in Keys
           /\ HistoryOf(Swap[d.order].wallet, Swap[d.order].tin)
                  = history[<<Swap[d.order].wallet, Swap[d.order].tin>>]
           /\ HistoryOf(Swap[d.order].wallet, Swap[d.order].tin) \in Volumes
<1>1. Swap[d.order].tin \notin Static
  BY DEF HistoryOf
<1>2. <<Swap[d.order].wallet, Swap[d.order].tin>> \in Keys
  BY <1>1, DetailsParts DEF Keys
<1>3. history \in [Keys -> Volumes \cup {NoHistory}]
  BY DEF TypeOK
<1> QED
  BY <1>1, <1>2, <1>3 DEF HistoryOf

\* try_send keeps the types of the queue and of the fates.
LEMMA EnqueueType ==
    ASSUME TypeInv, NEW d \in Details, Tradable(d), Enqueue(d)
    PROVE  /\ execQueue' \subseteq Details
           /\ \A a \in execQueue' : Tradable(a)
           /\ fate' \in [Orders -> Fates]
<1>1. execQueue \subseteq Details /\ fate \in [Orders -> Fates]
  BY DEF TypeInv, TypeOK
<1>2. \A a \in execQueue : Tradable(a)
  BY DEF TypeInv, TradeInv
<1>3. execQueue' \subseteq execQueue \cup {d}
  BY DEF Enqueue
<1>4. fate' \in [Orders -> Fates]
  BY <1>1 DEF Enqueue, End, Fates
<1> QED
  BY <1>1, <1>2, <1>3, <1>4

\* Giving an order up keeps the types of the history and of the fates.
LEMMA GiveUpType ==
    ASSUME TypeInv, NEW d \in Details, NEW resolved \in BOOLEAN, GiveUp(d, resolved)
    PROVE  /\ history' \in [Keys -> Volumes \cup {NoHistory}]
           /\ fate' \in [Orders -> Fates]
<1> USE DEF TypeInv
<1> DEFINE s == Swap[d.order]
           h == HistoryOf(s.wallet, s.tin)
<1>1. fate' \in [Orders -> Fates]
  BY DEF GiveUp, End, TypeOK, Fates
<1>2. history \in [Keys -> Volumes \cup {NoHistory}]
  BY DEF TypeOK
<1>3. CASE h # NoHistory /\ resolved
  <2>1. history[<<s.wallet, s.tin>>] \in Volumes /\ s.ain \in Nat
    BY <1>3, HistoryParts, DetailsParts
  <2>2. [history[<<s.wallet, s.tin>>] EXCEPT !.originSell = @ + s.ain] \in Volumes
    BY <2>1 DEF Volumes
  <2>3. history' = [history EXCEPT ![<<s.wallet, s.tin>>] =
                        [history[<<s.wallet, s.tin>>] EXCEPT !.originSell = @ + s.ain]]
    BY <1>3 DEF GiveUp
  <2> QED
    BY <1>1, <1>2, <2>2, <2>3
<1>4. CASE ~(h # NoHistory /\ resolved)
  BY <1>1, <1>2, <1>4 DEF GiveUp
<1> QED
  BY <1>3, <1>4

\* The trades that a confirmed order enters are trades, under keys.
LEMMA TradesType ==
    ASSUME NEW d \in Details, Tradable(d), NEW yield \in Yields
    PROVE  TradesOf(d, yield) \in Seq(Trade)
<1> DEFINE s == Swap[d.order]
           dust == DustVolume(MoonbagBps, yield)
           sell == [order |-> d.order, key |-> <<s.wallet, s.tin>>, direction |-> "sell",
                    origin |-> s.ain, exec |-> d.amount, dust |-> 0]
           buy == [order |-> d.order, key |-> <<s.wallet, s.tout>>, direction |-> "buy",
                   origin |-> s.aout, exec |-> yield - dust, dust |-> dust]
           sells == IF d.type \in {"sell", "both"} THEN <<sell>> ELSE <<>>
           buys == IF d.type \in {"buy", "both"} THEN <<buy>> ELSE <<>>
<1>1. yield \in Nat /\ MoonbagBps \in Nat /\ MoonbagBps <= 10000
  BY ConstantsAssumption
<1>2. dust \in Nat /\ yield - dust \in Nat
  <2>1. dust \in Nat /\ dust <= yield
    BY <1>1, DustBound
  <2> HIDE DEF dust
  <2> QED
    BY <1>1, <2>1
<1>3. d.order \in Orders /\ d.amount \in Nat
  BY DEF Details
<1>4. d.type \in {"sell", "both"} => sell \in Trade
  <2>1. d.type \in {"sell", "both"} => <<s.wallet, s.tin>> \in Keys
    BY DetailsParts DEF Keys, Tradable
  <2> QED
    BY <1>3, <2>1, DetailsParts DEF Trade
<1>5. d.type \in {"buy", "both"} => buy \in Trade
  <2>1. d.type \in {"buy", "both"} => <<s.wallet, s.tout>> \in Keys
    BY DetailsParts DEF Keys, Tradable
  <2> HIDE DEF dust
  <2> QED
    BY <1>2, <1>3, <2>1, DetailsParts DEF Trade
<1>6. TradesOf(d, yield) = sells \o buys
  BY DEF TradesOf
<1> HIDE DEF sell, buy
<1>7. sells \in Seq(Trade) /\ buys \in Seq(Trade)
  BY <1>4, <1>5
<1> HIDE DEF sells, buys
<1> QED
  BY <1>6, <1>7

\* The invariant holds when the service starts: nothing is under way.
LEMMA InitCopyInv == Init => CopyInv
<1> SUFFICES ASSUME Init PROVE CopyInv
  OBVIOUS
<1> USE DEF Init
<1>1. TypeInv
  <2>1. inserts \in Seq(Trade) /\ entry \in Volumes \cup {NoHistory}
    OBVIOUS
  <2>2. fate \in [Orders -> Fates] /\ sent \in [Orders -> Nat] /\ executed \in [Orders -> Nat]
    BY DEF Fates
  <2>3. history \in [Keys -> Volumes \cup {NoHistory}]
    BY ConstantsAssumption
  <2>4. walletConfig \subseteq Wallets
    BY ConstantsAssumption
  <2>5. nextId \in Nat
    OBVIOUS
  <2>6. buyDisabled \in BOOLEAN
    OBVIOUS
  <2> QED
    BY <2>1, <2>2, <2>3, <2>4, <2>5, <2>6 DEF TypeInv, TypeOK, TradeInv
<1>2. OneInv /\ OpenInv /\ IdInv /\ MatchInv
  BY DEF OneInv, OpenInv, IdInv, MatchInv
<1>3. BudgetInv
  <2>1. Budget \in Nat
    BY ConstantsAssumption DEF Budget
  <2> QED
    BY <2>1 DEF BudgetInv
<1>4. ExecInv
  BY DEF ExecInv
<1> QED
  BY <1>1, <1>2, <1>3, <1>4 DEF CopyInv

\* Going on with an input keeps the types of the tasks and of the fates.
LEMMA ProceedType ==
    ASSUME TypeInv, NEW k \in tasks, NEW type \in Types, NEW amount \in Nat,
           NEW pc \in {"remove", "swap"}, Proceed(k, type, amount, pc),
           type \in {"sell", "both"} => Swap[k.d.order].tin \notin Static,
           type \in {"buy", "both"} => Swap[k.d.order].tout \notin Static
    PROVE  /\ tasks' \subseteq Task
           /\ \A a \in tasks' : Tradable(a.d)
           /\ fate' \in [Orders -> Fates]
<1> DEFINE d == [k.d EXCEPT !.type = type, !.amount = amount]
           n == [k EXCEPT !.pc = pc, !.d = d]
<1>1. tasks \subseteq Task /\ fate \in [Orders -> Fates] /\ \A a \in tasks : Tradable(a.d)
  BY DEF TypeInv, TypeOK, TradeInv
<1>2. k \in Task /\ k.d \in Details
  BY <1>1 DEF Task
<1>3. d \in Details /\ Tradable(d)
  BY <1>2 DEF Details, Tradable
<1>4. n \in Task /\ n.d = d
  <2> HIDE DEF d
  <2> QED
    BY <1>2, <1>3 DEF Task
<1>5. tasks' \subseteq tasks \cup {n}
  BY DEF Proceed
<1>6. fate' \in [Orders -> Fates]
  BY <1>1 DEF Proceed, End, Fates
<1> HIDE DEF d, n
<1> QED
  BY <1>1, <1>3, <1>4, <1>5, <1>6

\* What handle_confirmation takes from the pending map has the types of it.
LEMMA TakeType ==
    ASSUME TypeInv, NEW r \in reports, Take(r)
    PROVE  /\ reports' \subseteq [id : Nat, response : Responses]
           /\ pending' \subseteq [id : Nat, d : Details]
           /\ \A e \in pending' : Tradable(e.d)
           /\ Known(r) => /\ EntryOf(r) \in pending /\ EntryOf(r).id = r.id
                          /\ EntryOf(r).d \in Details /\ Tradable(EntryOf(r).d)
<1>1. /\ reports \subseteq [id : Nat, response : Responses]
      /\ pending \subseteq [id : Nat, d : Details]
      /\ \A e \in pending : Tradable(e.d)
  BY DEF TypeInv, TypeOK, TradeInv
<1>2. reports' \subseteq reports /\ pending' \subseteq pending
  BY DEF Take, RemovePending
<1>3. Known(r) => EntryOf(r) \in pending /\ EntryOf(r).id = r.id
  BY DEF Known, EntryOf
<1> QED
  BY <1>1, <1>2, <1>3

\* The details with which an order is tried again after an error on chain, and
\* after it was not confirmed.
AfterError(d) == [d EXCEPT !.sendRetries = 0, !.errRetries = @ + 1]

AfterTimeout(d) ==
    [d EXCEPT !.sendRetries = @ + 1, !.jito = @ \/ d.sendRetries + 1 = SendTxnRetries]

\* Retried details are details, of the same order and with counters within
\* their limits.
LEMMA RetryDetails ==
    ASSUME NEW d \in Details
    PROVE  /\ d.errRetries < ConfirmedErrorRetries =>
                 AfterError(d) \in Details /\ (Tradable(d) => Tradable(AfterError(d)))
           /\ d.sendRetries < SendTxnRetries =>
                 AfterTimeout(d) \in Details /\ (Tradable(d) => Tradable(AfterTimeout(d)))
<1>1. SendTxnRetries \in Nat /\ ConfirmedErrorRetries \in Nat
  BY ConstantsAssumption
<1>2. d.errRetries < ConfirmedErrorRetries => AfterError(d) \in Details
  <2> SUFFICES ASSUME d.errRetries < ConfirmedErrorRetries PROVE AfterError(d) \in Details
    OBVIOUS
  <2> DEFINE e == d.errRetries + 1
  <2>1. 0 \in 0 .. SendTxnRetries /\ e \in 0 .. ConfirmedErrorRetries
    BY <1>1 DEF Details
  <2>2. AfterError(d) = [d EXCEPT !.sendRetries = 0, !.errRetries = e]
    BY DEF AfterError, Details
  <2> HIDE DEF e
  <2> QED
    BY <2>1, <2>2 DEF Details
<1>3. d.sendRetries < SendTxnRetries => AfterTimeout(d) \in Details
  <2> SUFFICES ASSUME d.sendRetries < SendTxnRetries PROVE AfterTimeout(d) \in Details
    OBVIOUS
  <2> DEFINE n == d.sendRetries + 1
             j == d.jito \/ n = SendTxnRetries
  <2>1. n \in 0 .. SendTxnRetries
    BY <1>1 DEF Details
  <2>2. j \in BOOLEAN
    OBVIOUS
  <2>3. AfterTimeout(d) = [d EXCEPT !.sendRetries = n, !.jito = j]
    BY DEF AfterTimeout, Details
  <2> HIDE DEF n, j
  <2> QED
    BY <2>1, <2>2, <2>3 DEF Details
<1>4. Tradable(d) => Tradable(AfterError(d)) /\ Tradable(AfterTimeout(d))
  BY DEF Tradable, AfterError, AfterTimeout, Details
<1> QED
  BY <1>2, <1>3, <1>4

\* The details of a new order are details.
LEMMA NewType ==
    ASSUME NEW o \in Orders
    PROVE  NewDetails(o) \in Details /\ Tradable(NewDetails(o))
<1>1. 0 \in 0 .. SendTxnRetries /\ 0 \in 0 .. ConfirmedErrorRetries
  BY ConstantsAssumption
<1>2. SendJitoDefault \in BOOLEAN
  BY ConstantsAssumption
<1>3. NewDetails(o) \in Details
  BY <1>1, <1>2 DEF NewDetails, Details, Types
<1>4. NewDetails(o).type = "none"
  BY DEF NewDetails
<1> QED
  BY <1>3, <1>4 DEF Tradable

\* A failed attempt that is not the last is counted within the limit.
LEMMA AttemptsType ==
    ASSUME NEW k \in Task, k.attempts + 1 < ExecutionRetries
    PROVE  [k EXCEPT !.attempts = @ + 1] \in Task /\ [k EXCEPT !.attempts = @ + 1].d = k.d
<1>1. ExecutionRetries \in Nat
  BY ConstantsAssumption
<1>2. k.attempts + 1 \in 0 .. ExecutionRetries
  BY <1>1 DEF Task
<1> QED
  BY <1>2 DEF Task

\* insert_trade_inner adds to the volumes.
LEMMA AddTradeType ==
    ASSUME NEW h \in Volumes, NEW t \in Trade
    PROVE  AddTrade(h, t.direction, t.origin, t.exec) \in Volumes
<1>1. t.origin \in Nat /\ t.exec \in Nat
  BY DEF Trade
<1> QED
  BY <1>1, AddTradeFacts

\* What an execution task puts into the output channel has its type.
LEMMA OutputType ==
    ASSUME TypeInv, NEW d \in Details, Tradable(d), NEW ok \in BOOLEAN,
           outputs' = outputs \cup {[ok |-> ok, d |-> d]}
    PROVE  outputs' \subseteq [ok : BOOLEAN, d : Details] /\ \A x \in outputs' : Tradable(x.d)
<1>1. outputs \subseteq [ok : BOOLEAN, d : Details] /\ \A x \in outputs : Tradable(x.d)
  BY DEF TypeInv, TypeOK, TradeInv
<1>2. [ok |-> ok, d |-> d] \in [ok : BOOLEAN, d : Details]
  OBVIOUS
<1> QED
  BY <1>1, <1>2

\* Every step of the wire tasks, the execution tasks, the main task and the
\* transaction service keeps the types.
LEMMA TypeStep == TypeInv /\ [Next]_vars => TypeInv'
<1> SUFFICES ASSUME TypeInv, [Next]_vars PROVE TypeInv'
  OBVIOUS
<1> USE DEF TypeInv, TypeOK, TradeInv
<1>1. ASSUME NEW o \in Orders, IgnoreWireTxn(o) PROVE TypeInv'
  BY <1>1 DEF IgnoreWireTxn, End, Fates
<1>2. ASSUME NEW o \in Orders, CopyWireTxn(o) PROVE TypeInv'
  <2>1. NewDetails(o) \in Details /\ Tradable(NewDetails(o))
    BY NewType
  <2>2. /\ execQueue' \subseteq Details
        /\ \A a \in execQueue' : Tradable(a)
        /\ fate' \in [Orders -> Fates]
    BY <1>2, <2>1, EnqueueType DEF CopyWireTxn
  <2> QED
    BY <1>2, <2>2 DEF CopyWireTxn
<1>3. ASSUME NEW w \in Wallets, CopyAccounts(w) PROVE TypeInv'
  BY <1>3 DEF CopyAccounts
<1>4. ASSUME NEW d \in execQueue, HandleCommand(d) PROVE TypeInv'
  <2>1. [d |-> d, pc |-> "input", attempts |-> 0] \in Task
    BY ConstantsAssumption DEF Task
  <2> QED
    BY <1>4, <2>1 DEF HandleCommand
<1>5. ASSUME NEW k \in tasks, InputError(k) \/ SameMint(k) PROVE TypeInv'
  BY <1>5 DEF InputError, SameMint, End, Fates, taskUnchanged
<1>6. ASSUME NEW k \in tasks, ProcessSell(k) PROVE TypeInv'
  <2> DEFINE s == Swap[k.d.order]
             h == HistoryOf(s.wallet, s.tin)
             type == IF s.tout \in Static \/ NoBuys(s.wallet) THEN "sell" ELSE "both"
             pc == IF SoldMost(h, s.ain) THEN "remove" ELSE "swap"
  <2>1. k.d \in Details /\ s.ain \in Nat
    BY DetailsParts DEF Task
  <2>2. s.tin \notin Static /\ h \in Volumes
    BY <1>6, <2>1, HistoryParts DEF ProcessSell
  <2>3. type \in {"sell", "both"} /\ type \in Types /\ pc \in {"remove", "swap"}
    BY DEF Types
  <2>4. type = "both" => s.tout \notin Static
    OBVIOUS
  <2>5. UNCHANGED <<taskUnchanged, outputs, history>>
    BY <1>6 DEF ProcessSell
  <2>6. /\ tasks' \subseteq Task
        /\ \A a \in tasks' : Tradable(a.d)
        /\ fate' \in [Orders -> Fates]
    <3>1. CASE NothingLeft(h)
      BY <1>6, <3>1 DEF ProcessSell, End, Fates
    <3>2. CASE ~NothingLeft(h)
      <4>1. SellInput(h, s.ain) \in Nat
        BY <2>1, <2>2, <3>2, SellInputBound
      <4>2. Proceed(k, type, SellInput(h, s.ain), pc)
        BY <1>6, <3>2 DEF ProcessSell
      <4> HIDE DEF type, pc, h
      <4> QED
        BY <2>2, <2>3, <2>4, <4>1, <4>2, ProceedType
    <3> QED
      BY <3>1, <3>2
  <2> QED
    BY <2>5, <2>6 DEF taskUnchanged
<1>7. ASSUME NEW k \in tasks, RemoveHistory(k) PROVE TypeInv'
  <2>1. k.d.type \in Types /\ k.d.amount \in Nat /\ Tradable(k.d)
    BY DEF Task, Details
  <2>2. /\ tasks' \subseteq Task
        /\ \A a \in tasks' : Tradable(a.d)
        /\ fate' \in [Orders -> Fates]
    BY <1>7, <2>1, ProceedType DEF RemoveHistory, Tradable
  <2>3. history' \in [Keys -> Volumes \cup {NoHistory}]
    BY <1>7 DEF RemoveHistory
  <2> QED
    BY <1>7, <2>2, <2>3 DEF RemoveHistory, taskUnchanged
<1>8. ASSUME NEW k \in tasks, ProcessBuy(k) PROVE TypeInv'
  <2> DEFINE s == Swap[k.d.order]
             amount == BuyInput(MinInput, MaxInput, s.tin = SOL, s.ain, s.pre)
  <2>1. k.d \in Details /\ s.ain \in Nat /\ s.pre \in Nat
    BY DetailsParts DEF Task
  <2>2. amount \in Nat
    <3>1. (s.tin = SOL) \in BOOLEAN
      OBVIOUS
    <3>2. MinInput \in Nat /\ MaxInput \in Nat /\ MinInput < MaxInput
      BY ConstantsAssumption
    <3> QED
      BY <2>1, <3>1, <3>2, BuyInputBound
  <2>3. UNCHANGED <<taskUnchanged, outputs, history>>
    BY <1>8 DEF ProcessBuy
  <2>4. /\ tasks' \subseteq Task
        /\ \A a \in tasks' : Tradable(a.d)
        /\ fate' \in [Orders -> Fates]
    <3>1. CASE NoBuys(s.wallet) \/ s.tout \in Static
      BY <1>8, <3>1 DEF ProcessBuy, End, Fates
    <3>2. CASE ~(NoBuys(s.wallet) \/ s.tout \in Static)
      <4>1. Proceed(k, "buy", amount, "swap")
        BY <1>8, <3>2 DEF ProcessBuy
      <4> HIDE DEF amount
      <4> QED
        BY <2>2, <3>2, <4>1, ProceedType DEF Types
    <3> QED
      BY <3>1, <3>2
  <2> QED
    BY <2>3, <2>4 DEF taskUnchanged
<1>9. ASSUME NEW k \in tasks, NEW p95 \in Tips, AttemptOk(k, p95) PROVE TypeInv'
  <2> DEFINE fee == FeeLamports(MinFee, MaxFee, p95, FeeIncrease, k.d.sendRetries)
             d == [k.d EXCEPT !.fee = fee]
  <2>1. k.d \in Details /\ Tradable(k.d)
    BY DEF Task
  <2>2. fee \in Nat
    <3>1. k.d.sendRetries \in Nat
      BY <2>1, ConstantsAssumption DEF Details
    <3>2. MinFee \in Nat /\ MaxFee \in Nat /\ FeeIncrease \in Nat /\ p95 \in Nat
      BY ConstantsAssumption
    <3> QED
      BY <3>1, <3>2, FeeNat
  <2> HIDE DEF fee
  <2>3. d \in Details /\ Tradable(d)
    BY <2>1, <2>2 DEF Details, Tradable
  <2>4. outputs' = outputs \cup {[ok |-> TRUE, d |-> d]} /\ tasks' \subseteq tasks
    BY <1>9 DEF AttemptOk, fee
  <2> HIDE DEF d
  <2>5. outputs' \subseteq [ok : BOOLEAN, d : Details] /\ \A x \in outputs' : Tradable(x.d)
    BY <2>3, <2>4, OutputType
  <2> QED
    BY <1>9, <2>4, <2>5 DEF AttemptOk, taskUnchanged
<1>10. ASSUME NEW k \in tasks, AttemptErr(k) PROVE TypeInv'
  <2>1. k \in Task /\ k.d \in Details /\ Tradable(k.d)
    BY DEF Task
  <2>2. CASE k.attempts + 1 < ExecutionRetries
    <3>1. [k EXCEPT !.attempts = @ + 1] \in Task /\ [k EXCEPT !.attempts = @ + 1].d = k.d
      BY <2>1, <2>2, AttemptsType
    <3> QED
      BY <1>10, <2>1, <2>2, <3>1 DEF AttemptErr, taskUnchanged
  <2>3. CASE ~(k.attempts + 1 < ExecutionRetries)
    <3>1. outputs' = outputs \cup {[ok |-> FALSE, d |-> k.d]} /\ tasks' \subseteq tasks
      BY <1>10, <2>3 DEF AttemptErr
    <3>2. outputs' \subseteq [ok : BOOLEAN, d : Details] /\ \A x \in outputs' : Tradable(x.d)
      BY <2>1, <3>1, OutputType
    <3> QED
      BY <1>10, <3>1, <3>2 DEF AttemptErr, taskUnchanged
  <2> QED
    BY <2>2, <2>3
<1>11. ASSUME NEW x \in outputs, SendOutput(x) PROVE TypeInv'
  <2> DEFINE e == [id |-> nextId, d |-> x.d]
  <2>1. x.d \in Details /\ Tradable(x.d) /\ x.d.order \in Orders
    BY DetailsParts
  <2>2. pending' \subseteq pending \cup {e}
    BY <1>11 DEF SendOutput, InsertPending, Kept
  <2>3. e \in [id : Nat, d : Details] /\ Tradable(e.d)
    BY <2>1
  <2>4. inFlight' \subseteq [id : Nat, order : Orders]
    BY <1>11, <2>1 DEF SendOutput
  <2>5. fate' \in [Orders -> Fates]
    BY <1>11 DEF SendOutput, Fates
  <2>6. sent' \in [Orders -> Nat] /\ nextId' \in Nat /\ outputs' \subseteq outputs
    <3>1. outputs' \subseteq outputs /\ nextId' \in Nat
      BY <1>11 DEF SendOutput
    <3>2. sent[x.d.order] + 1 \in Nat
      BY <2>1
    <3>3. sent' = [sent EXCEPT ![x.d.order] = sent[x.d.order] + 1]
      BY <1>11 DEF SendOutput
    <3> QED
      BY <3>1, <3>2, <3>3
  <2> HIDE DEF e
  <2> QED
    BY <1>11, <2>2, <2>3, <2>4, <2>5, <2>6 DEF SendOutput
<1>12. ASSUME NEW x \in outputs, SendError(x) PROVE TypeInv'
  BY <1>12 DEF SendError, End, Fates
<1>13. ASSUME NEW x \in outputs, NEW resolved \in BOOLEAN, FailureOutput(x, resolved)
       PROVE TypeInv'
  <2>1. history' \in [Keys -> Volumes \cup {NoHistory}] /\ fate' \in [Orders -> Fates]
    BY <1>13, GiveUpType DEF FailureOutput
  <2> QED
    BY <1>13, <2>1 DEF FailureOutput
<1>14. ASSUME NEW r \in reports, UnknownReport(r) PROVE TypeInv'
  BY <1>14, TakeType DEF UnknownReport, mainUnchanged
<1>15. ASSUME NEW r \in reports, NEW resolved \in BOOLEAN,
              ConfirmedError(r, resolved) \/ Unconfirmed(r, resolved)
       PROVE TypeInv'
  <2> DEFINE d == EntryOf(r).d
  <2>1. Take(r) /\ Known(r) /\ UNCHANGED <<mainUnchanged, buyDisabled, inserts>>
    BY <1>15 DEF ConfirmedError, Unconfirmed
  <2>2. d \in Details /\ Tradable(d)
    BY <2>1, TakeType
  <2>3. \/ GiveUp(d, resolved) /\ UNCHANGED execQueue
        \/ \E n \in Details : Tradable(n) /\ Enqueue(n) /\ UNCHANGED history
    <3>1. \/ GiveUp(d, resolved) /\ UNCHANGED execQueue
          \/ d.errRetries < ConfirmedErrorRetries /\ Enqueue(AfterError(d)) /\ UNCHANGED history
          \/ d.sendRetries < SendTxnRetries /\ Enqueue(AfterTimeout(d)) /\ UNCHANGED history
      BY <1>15 DEF ConfirmedError, Unconfirmed, AfterError, AfterTimeout
    <3> HIDE DEF d
    <3> QED
      BY <2>2, <3>1, RetryDetails
  <2>4. /\ execQueue' \subseteq Details
        /\ \A a \in execQueue' : Tradable(a)
        /\ history' \in [Keys -> Volumes \cup {NoHistory}]
        /\ fate' \in [Orders -> Fates]
    BY <2>2, <2>3, EnqueueType, GiveUpType
  <2> QED
    BY <2>1, <2>4, TakeType DEF mainUnchanged
<1>16. ASSUME NEW r \in reports, NEW yield \in Yields, NEW off \in BOOLEAN,
              ConfirmedOk(r, yield, off)
       PROVE TypeInv'
  <2>1. Take(r) /\ Known(r)
    BY <1>16 DEF ConfirmedOk
  <2>2. inserts' \in Seq(Trade)
    BY <1>16, <2>1, TakeType, TradesType DEF ConfirmedOk
  <2>3. fate' \in [Orders -> Fates] /\ buyDisabled' \in BOOLEAN
    BY <1>16 DEF ConfirmedOk, End, Fates
  <2> QED
    BY <1>16, <2>1, <2>2, <2>3, TakeType DEF ConfirmedOk, mainUnchanged
<1>17. CASE ReadEntry
  <2>1. Head(inserts) \in Trade
    BY <1>17 DEF ReadEntry
  <2>2. history[Head(inserts).key] \in Volumes \cup {NoHistory}
    BY <2>1 DEF Trade
  <2>3. EmptyVolumes \in Volumes
    BY DEF EmptyVolumes, Volumes
  <2> QED
    BY <1>17, <2>2, <2>3 DEF ReadEntry
<1>18. CASE WriteEntry
  <2> DEFINE t == Head(inserts)
  <2>1. t \in Trade /\ Tail(inserts) \in Seq(Trade) /\ entry \in Volumes
    BY <1>18 DEF WriteEntry
  <2> HIDE DEF t
  <2>2. AddTrade(entry, t.direction, t.origin, t.exec) \in Volumes
    BY <2>1, AddTradeType
  <2>3. [order |-> t.order, direction |-> t.direction, dust |-> t.dust]
            \in [order : Orders, direction : {"buy", "sell"}, dust : Nat]
    BY <2>1 DEF Trade
  <2>4. history' \in [Keys -> Volumes \cup {NoHistory}]
    BY <1>18, <2>2 DEF WriteEntry, t
  <2>5. copyOutput' \subseteq [order : Orders, direction : {"buy", "sell"}, dust : Nat]
    BY <1>18, <2>3 DEF WriteEntry, t
  <2> QED
    BY <1>18, <2>1, <2>4, <2>5 DEF WriteEntry
<1>19. ASSUME NEW f \in inFlight, NEW response \in Responses, NEW onChain \in BOOLEAN,
              Reported(f, response, onChain)
       PROVE TypeInv'
  <2>1. executed' \in [Orders -> Nat]
    BY <1>19 DEF Reported
  <2>2. reports' \subseteq [id : Nat, response : Responses] /\ inFlight' \subseteq inFlight
    BY <1>19 DEF Reported
  <2> QED
    BY <1>19, <2>1, <2>2 DEF Reported
<1>20. CASE UNCHANGED vars
  BY <1>20 DEF vars
<1> QED
  BY <1>1, <1>2, <1>3, <1>4, <1>5, <1>6, <1>7, <1>8, <1>9, <1>10, <1>11, <1>12, <1>13,
     <1>14, <1>15, <1>16, <1>17, <1>18, <1>19, <1>20
     DEF Next, ExecutionStep, MainStep, ServiceStep

-----------------------------------------------------------------------------
(* The steps as moves of an order between its places.                      *)

Ended == Fates \ {"new", "open"}

\* What a step of a task does to the set of tasks: the task ends, with its
\* order, or goes on with the same order.
TaskStep(k) ==
    \/ /\ tasks' = tasks \ {k}
       /\ \E how \in Ended : End(k.d.order, how)
    \/ /\ \E n \in Task : n.d.order = k.d.order /\ Spent(n.d) = Spent(k.d)
                              /\ tasks' = (tasks \ {k}) \cup {n}
       /\ UNCHANGED fate

\* Preparing the input of an order is such a step.
LEMMA ProceedStep ==
    ASSUME TypeInv, NEW k \in tasks, NEW type \in Types, NEW amount \in Nat,
           NEW pc \in {"remove", "swap"}, Proceed(k, type, amount, pc)
    PROVE  TaskStep(k)
<1> DEFINE d == [k.d EXCEPT !.type = type, !.amount = amount]
           n == [k EXCEPT !.pc = pc, !.d = d]
<1>1. k \in Task /\ k.d \in Details
  BY DEF TypeInv, TypeOK, Task
<1>2. d \in Details /\ d.order = k.d.order /\ Spent(d) = Spent(k.d)
  BY <1>1 DEF Details, Spent
<1>3. n \in Task /\ n.d = d
  <2> HIDE DEF d
  <2> QED
    BY <1>1, <1>2 DEF Task
<1>4. CASE amount = 0 /\ pc = "swap"
  <2>1. "skipped" \in Ended
    BY DEF Ended, Fates
  <2> QED
    BY <1>4, <2>1 DEF Proceed, TaskStep
<1>5. CASE ~(amount = 0 /\ pc = "swap")
  <2>1. tasks' = (tasks \ {k}) \cup {n} /\ UNCHANGED fate
    BY <1>5 DEF Proceed
  <2> HIDE DEF d, n
  <2> QED
    BY <1>2, <1>3, <2>1 DEF TaskStep
<1> QED
  BY <1>4, <1>5

\* So is every action by which an execution task prepares its input.
LEMMA InputStep ==
    ASSUME TypeInv, NEW k \in tasks,
           InputError(k) \/ SameMint(k) \/ ProcessSell(k) \/ RemoveHistory(k) \/ ProcessBuy(k)
    PROVE  TaskStep(k) /\ UNCHANGED <<taskUnchanged, outputs>>
<1>1. \A how \in {"lost", "skipped", "exhausted"} : how \in Ended
  BY DEF Ended, Fates
<1>2. k.d \in Details
  BY DEF TypeInv, TypeOK, Task
<1>3. CASE InputError(k) \/ SameMint(k)
  BY <1>1, <1>3 DEF InputError, SameMint, TaskStep
<1>4. CASE ProcessSell(k)
  <2> DEFINE s == Swap[k.d.order]
             h == HistoryOf(s.wallet, s.tin)
             type == IF s.tout \in Static \/ NoBuys(s.wallet) THEN "sell" ELSE "both"
             pc == IF SoldMost(h, s.ain) THEN "remove" ELSE "swap"
  <2>1. type \in Types /\ pc \in {"remove", "swap"}
    BY DEF Types
  <2>2. CASE NothingLeft(h)
    BY <1>1, <1>4, <2>2 DEF ProcessSell, TaskStep
  <2>3. CASE ~NothingLeft(h)
    <3>1. h \in Volumes /\ s.ain \in Nat
      BY <1>2, <1>4, HistoryParts, DetailsParts DEF ProcessSell, TypeInv
    <3>2. SellInput(h, s.ain) \in Nat
      BY <2>3, <3>1, SellInputBound
    <3>3. Proceed(k, type, SellInput(h, s.ain), pc)
      BY <1>4, <2>3 DEF ProcessSell
    <3>4. UNCHANGED <<taskUnchanged, outputs>>
      BY <1>4 DEF ProcessSell
    <3> HIDE DEF type, pc, h
    <3> QED
      BY <2>1, <3>2, <3>3, <3>4, ProceedStep
  <2> QED
    BY <2>2, <2>3
<1>5. CASE RemoveHistory(k)
  <2>1. k.d.type \in Types /\ k.d.amount \in Nat
    BY <1>2 DEF Details
  <2> QED
    BY <1>5, <2>1, ProceedStep DEF RemoveHistory
<1>6. CASE ProcessBuy(k)
  <2> DEFINE s == Swap[k.d.order]
             amount == BuyInput(MinInput, MaxInput, s.tin = SOL, s.ain, s.pre)
  <2>1. CASE NoBuys(s.wallet) \/ s.tout \in Static
    BY <1>1, <1>6, <2>1 DEF ProcessBuy, TaskStep
  <2>2. CASE ~(NoBuys(s.wallet) \/ s.tout \in Static)
    <3>1. s.ain \in Nat /\ s.pre \in Nat /\ (s.tin = SOL) \in BOOLEAN
      BY <1>2, DetailsParts
    <3>2. MinInput \in Nat /\ MaxInput \in Nat /\ MinInput < MaxInput
      BY ConstantsAssumption
    <3>3. amount \in Nat
      BY <3>1, <3>2, BuyInputBound
    <3>4. Proceed(k, "buy", amount, "swap") /\ UNCHANGED <<taskUnchanged, outputs>>
      BY <1>6, <2>2 DEF ProcessBuy
    <3> HIDE DEF amount
    <3> QED
      BY <3>3, <3>4, ProceedStep DEF Types
  <2> QED
    BY <2>1, <2>2
<1> QED
  BY <1>3, <1>4, <1>5, <1>6

\* The variables that the moves are about, by who changes them.
wireUnchanged == <<pending, inFlight, reports, nextId, sent, executed>>

MoveIgnore(o) ==
    /\ fate[o] = "new" /\ End(o, "ignored")
    /\ UNCHANGED <<execQueue, tasks, outputs, wireUnchanged>>

MoveArrive(n) ==
    /\ fate[n.order] = "new" /\ Enqueue(n) /\ Spent(n) = 0
    /\ UNCHANGED <<tasks, outputs, wireUnchanged>>

MoveStart(d) ==
    /\ execQueue' = execQueue \ {d}
    /\ \E n \in Task : n.d = d /\ tasks' = tasks \cup {n}
    /\ UNCHANGED <<outputs, fate, wireUnchanged>>

MoveTask(k) == TaskStep(k) /\ UNCHANGED <<execQueue, outputs, wireUnchanged>>

MoveOutput(k) ==
    /\ tasks' = tasks \ {k}
    /\ \E y \in [ok : BOOLEAN, d : Details] :
          y.d.order = k.d.order /\ Spent(y.d) = Spent(k.d) /\ outputs' = outputs \cup {y}
    /\ UNCHANGED <<execQueue, fate, wireUnchanged>>

MoveSend(x) ==
    /\ outputs' = outputs \ {x}
    /\ nextId' = nextId + 1
    /\ inFlight' = inFlight \cup {[id |-> nextId, order |-> x.d.order]}
    /\ \E kept \in SUBSET pending :
          /\ pending' = kept \cup {[id |-> nextId, d |-> x.d]}
          /\ fate' = [o \in Orders |->
                         IF \E f \in pending \ kept : f.d.order = o THEN "shed" ELSE fate[o]]
    /\ sent' = [sent EXCEPT ![x.d.order] = @ + 1]
    /\ UNCHANGED <<execQueue, tasks, reports, executed>>

MoveDrop(x) ==
    /\ outputs' = outputs \ {x}
    /\ \E how \in Ended : End(x.d.order, how)
    /\ UNCHANGED <<execQueue, tasks, wireUnchanged>>

MoveForget(r) ==
    /\ reports' = reports \ {r}
    /\ \A e \in pending : e.id # r.id
    /\ UNCHANGED <<execQueue, tasks, outputs, pending, inFlight, nextId, fate, sent, executed>>

MoveRetry(r, e, n) ==
    /\ e.id = r.id /\ r.response # "ok"
    /\ reports' = reports \ {r} /\ pending' = RemovePending(pending, r.id)
    /\ n.order = e.d.order /\ Spent(n) >= Spent(e.d) + 1 /\ Enqueue(n)
    /\ UNCHANGED <<tasks, outputs, inFlight, nextId, sent, executed>>

MoveEnd(r, e) ==
    /\ e.id = r.id
    /\ reports' = reports \ {r} /\ pending' = RemovePending(pending, r.id)
    /\ \E how \in {"done", "failed"} :
          (how = "failed" => r.response # "ok") /\ End(e.d.order, how)
    /\ UNCHANGED <<execQueue, tasks, outputs, inFlight, nextId, sent, executed>>

MoveReport(f, response, onChain) ==
    /\ response = "ok" => onChain
    /\ response = "error" => ~onChain
    /\ response = "unconfirmed" /\ onChain => FalseUnconfirmed
    /\ inFlight' = inFlight \ {f}
    /\ reports' = reports \cup {[id |-> f.id, response |-> response]}
    /\ executed' = [executed EXCEPT ![f.order] = @ + (IF onChain THEN 1 ELSE 0)]
    /\ UNCHANGED <<execQueue, tasks, outputs, pending, nextId, fate, sent>>

MoveNothing == UNCHANGED <<execQueue, tasks, outputs, fate, wireUnchanged>>

Move ==
    \/ \E o \in Orders : MoveIgnore(o)
    \/ \E n \in Details : MoveArrive(n)
    \/ \E d \in execQueue : MoveStart(d)
    \/ \E k \in tasks : MoveTask(k) \/ MoveOutput(k)
    \/ \E x \in outputs : MoveSend(x) \/ MoveDrop(x)
    \/ \E r \in reports : MoveForget(r)
    \/ \E r \in reports, e \in pending, n \in Details : MoveRetry(r, e, n)
    \/ \E r \in reports, e \in pending : MoveEnd(r, e)
    \/ \E f \in inFlight, response \in Responses, onChain \in BOOLEAN :
          MoveReport(f, response, onChain)
    \/ MoveNothing

\* What retrying adds to the transactions that the counters account for.
LEMMA SpentRetry ==
    ASSUME NEW d \in Details
    PROVE  /\ Spent(d) \in Nat
           /\ Spent(d) + 1 <= Budget
           /\ Spent(AfterError(d)) >= Spent(d) + 1 /\ AfterError(d).order = d.order
           /\ Spent(AfterTimeout(d)) >= Spent(d) + 1 /\ AfterTimeout(d).order = d.order
<1> DEFINE S == SendTxnRetries
           C == ConfirmedErrorRetries
           e == d.errRetries
           s == d.sendRetries
<1>1. S \in Nat /\ C \in Nat
  BY ConstantsAssumption
<1>2. e \in Nat /\ s \in Nat /\ e <= C /\ s <= S
  BY <1>1 DEF Details
<1>3. AfterError(d).order = d.order /\ AfterTimeout(d).order = d.order
        /\ AfterError(d).errRetries = e + 1 /\ AfterError(d).sendRetries = 0
        /\ AfterTimeout(d).errRetries = e /\ AfterTimeout(d).sendRetries = s + 1
  BY DEF AfterError, AfterTimeout, Details
<1>4. Spent(d) = e * (S + 1) + s /\ Budget = (S + 1) * (C + 1)
        /\ Spent(AfterError(d)) = (e + 1) * (S + 1) + 0
        /\ Spent(AfterTimeout(d)) = e * (S + 1) + (s + 1)
  BY <1>3 DEF Spent, Budget
<1> HIDE DEF S, C, e, s
<1>5. e * (S + 1) \in Nat /\ C * (S + 1) \in Nat /\ e * (S + 1) <= C * (S + 1)
  BY <1>1, <1>2
<1>6. (e + 1) * (S + 1) = e * (S + 1) + S + 1 /\ (S + 1) * (C + 1) = C * (S + 1) + S + 1
  BY <1>1, <1>2
<1> QED
  BY <1>1, <1>2, <1>3, <1>4, <1>5, <1>6

\* Every step of the service is one of the moves.
LEMMA MoveStep == ASSUME TypeInv, [Next]_vars PROVE Move
<1> USE DEF wireUnchanged
<1>1. ASSUME NEW o \in Orders, IgnoreWireTxn(o) PROVE Move
  <2>1. MoveIgnore(o)
    BY <1>1 DEF IgnoreWireTxn, MoveIgnore
  <2> QED
    BY <2>1 DEF Move
<1>2. ASSUME NEW o \in Orders, CopyWireTxn(o) PROVE Move
  <2> DEFINE n == NewDetails(o)
  <2>1. n \in Details
    BY NewType
  <2>2. n.order = o /\ n.errRetries = 0 /\ n.sendRetries = 0
    BY DEF NewDetails
  <2>3. Spent(n) = 0
    BY <2>2, ConstantsAssumption DEF Spent
  <2>4. MoveArrive(n)
    <3> HIDE DEF n
    <3> QED
      BY <1>2, <2>2, <2>3 DEF CopyWireTxn, MoveArrive, n
  <2> QED
    BY <2>1, <2>4 DEF Move
<1>3. ASSUME NEW w \in Wallets, CopyAccounts(w) PROVE Move
  BY <1>3 DEF CopyAccounts, Move, MoveNothing
<1>4. ASSUME NEW d \in execQueue, HandleCommand(d) PROVE Move
  <2> DEFINE n == [d |-> d, pc |-> "input", attempts |-> 0]
  <2>1. d \in Details /\ 0 \in 0 .. ExecutionRetries
    BY ConstantsAssumption DEF TypeInv, TypeOK
  <2>2. n \in Task /\ n.d = d
    BY <2>1 DEF Task
  <2>3. MoveStart(d)
    BY <1>4, <2>2 DEF HandleCommand, MoveStart
  <2> QED
    BY <2>3 DEF Move
<1>5. ASSUME NEW k \in tasks,
             InputError(k) \/ SameMint(k) \/ ProcessSell(k) \/ RemoveHistory(k) \/ ProcessBuy(k)
      PROVE Move
  <2>1. TaskStep(k) /\ UNCHANGED <<taskUnchanged, outputs>>
    BY <1>5, InputStep
  <2>2. MoveTask(k)
    BY <2>1 DEF MoveTask, taskUnchanged
  <2> QED
    BY <2>2 DEF Move
<1>6. ASSUME NEW k \in tasks, NEW p95 \in Tips, AttemptOk(k, p95) PROVE Move
  <2> DEFINE fee == FeeLamports(MinFee, MaxFee, p95, FeeIncrease, k.d.sendRetries)
             d == [k.d EXCEPT !.fee = fee]
             y == [ok |-> TRUE, d |-> d]
  <2>1. k.d \in Details
    BY DEF TypeInv, TypeOK, Task
  <2>2. fee \in Nat
    <3>1. k.d.sendRetries \in Nat
      BY <2>1, ConstantsAssumption DEF Details
    <3>2. MinFee \in Nat /\ MaxFee \in Nat /\ FeeIncrease \in Nat /\ p95 \in Nat
      BY ConstantsAssumption
    <3> QED
      BY <3>1, <3>2, FeeNat
  <2>3. outputs' = outputs \cup {y} /\ tasks' = tasks \ {k} /\ UNCHANGED <<taskUnchanged, fate>>
    BY <1>6 DEF AttemptOk
  <2> HIDE DEF fee
  <2>4. d \in Details /\ d.order = k.d.order /\ Spent(d) = Spent(k.d)
    BY <2>1, <2>2 DEF Details, Spent
  <2> HIDE DEF d
  <2>5. y \in [ok : BOOLEAN, d : Details] /\ y.d = d
    BY <2>4
  <2> HIDE DEF y
  <2>6. MoveOutput(k)
    BY <2>3, <2>4, <2>5 DEF MoveOutput, taskUnchanged
  <2> QED
    BY <2>6 DEF Move
<1>7. ASSUME NEW k \in tasks, AttemptErr(k) PROVE Move
  <2>1. k \in Task /\ k.d \in Details
    BY DEF TypeInv, TypeOK, Task
  <2>2. CASE k.attempts + 1 < ExecutionRetries
    <3> DEFINE n == [k EXCEPT !.attempts = @ + 1]
    <3>1. n \in Task /\ n.d = k.d
      BY <2>1, <2>2, AttemptsType
    <3>2. tasks' = (tasks \ {k}) \cup {n} /\ UNCHANGED <<taskUnchanged, outputs, fate>>
      BY <1>7, <2>2 DEF AttemptErr
    <3> HIDE DEF n
    <3>3. MoveTask(k)
      BY <3>1, <3>2 DEF MoveTask, TaskStep, taskUnchanged
    <3> QED
      BY <3>3 DEF Move
  <2>3. CASE ~(k.attempts + 1 < ExecutionRetries)
    <3> DEFINE y == [ok |-> FALSE, d |-> k.d]
    <3>1. y \in [ok : BOOLEAN, d : Details] /\ y.d = k.d
      BY <2>1
    <3>2. outputs' = outputs \cup {y} /\ tasks' = tasks \ {k} /\ UNCHANGED <<taskUnchanged, fate>>
      BY <1>7, <2>3 DEF AttemptErr
    <3> HIDE DEF y
    <3>3. MoveOutput(k)
      BY <3>1, <3>2 DEF MoveOutput, taskUnchanged
    <3> QED
      BY <3>3 DEF Move
  <2> QED
    BY <2>2, <2>3
<1>8. ASSUME NEW x \in outputs, SendOutput(x) PROVE Move
  <2> DEFINE kept == Kept(pending, MaxPending)
  <2>1. kept \in SUBSET pending
    BY DEF Kept
  <2>2. pending' = kept \cup {[id |-> nextId, d |-> x.d]}
    BY <1>8 DEF SendOutput, InsertPending
  <2>3. fate' = [o \in Orders |->
                    IF \E f \in pending \ kept : f.d.order = o THEN "shed" ELSE fate[o]]
    BY <1>8 DEF SendOutput
  <2> HIDE DEF kept
  <2>4. MoveSend(x)
    BY <1>8, <2>1, <2>2, <2>3 DEF SendOutput, MoveSend
  <2> QED
    BY <2>4 DEF Move
<1>9. ASSUME NEW x \in outputs, NEW resolved \in BOOLEAN,
             SendError(x) \/ FailureOutput(x, resolved)
      PROVE Move
  <2>1. "lost" \in Ended /\ "failed" \in Ended
    BY DEF Ended, Fates
  <2>2. MoveDrop(x)
    BY <1>9, <2>1 DEF SendError, FailureOutput, GiveUp, MoveDrop
  <2> QED
    BY <2>2 DEF Move
<1>10. ASSUME NEW r \in reports, UnknownReport(r) PROVE Move
  <2>1. \A e \in pending : e.id # r.id
    BY <1>10 DEF UnknownReport, Known
  <2>2. pending' = pending
    BY <1>10, <2>1 DEF UnknownReport, Take, RemovePending
  <2>3. MoveForget(r)
    BY <1>10, <2>1, <2>2 DEF UnknownReport, Take, mainUnchanged, MoveForget
  <2> QED
    BY <2>3 DEF Move
<1>11. ASSUME NEW r \in reports, NEW resolved \in BOOLEAN,
              ConfirmedError(r, resolved) \/ Unconfirmed(r, resolved)
       PROVE Move
  <2> DEFINE e == EntryOf(r)
             d == e.d
  <2>1. Take(r) /\ Known(r) /\ r.response # "ok" /\ UNCHANGED mainUnchanged
    BY <1>11 DEF ConfirmedError, Unconfirmed
  <2>2. e \in pending /\ e.id = r.id /\ d \in Details
    BY <2>1, TakeType
  <2>3. \/ GiveUp(d, resolved) /\ UNCHANGED execQueue
        \/ d.errRetries < ConfirmedErrorRetries /\ Enqueue(AfterError(d))
        \/ d.sendRetries < SendTxnRetries /\ Enqueue(AfterTimeout(d))
    BY <1>11 DEF ConfirmedError, Unconfirmed, AfterError, AfterTimeout
  <2> HIDE DEF e
  <2>4. ASSUME NEW n \in Details, n.order = d.order, Spent(n) >= Spent(d) + 1, Enqueue(n)
        PROVE Move
    <3>1. MoveRetry(r, e, n)
      BY <2>1, <2>2, <2>4 DEF MoveRetry, Take, mainUnchanged
    <3> QED
      BY <2>2, <3>1 DEF Move
  <2>5. CASE GiveUp(d, resolved) /\ UNCHANGED execQueue
    <3>1. MoveEnd(r, e)
      BY <2>1, <2>2, <2>5 DEF MoveEnd, GiveUp, Take, mainUnchanged
    <3> QED
      BY <2>2, <3>1 DEF Move
  <2>6. CASE d.errRetries < ConfirmedErrorRetries /\ Enqueue(AfterError(d))
    BY <2>2, <2>4, <2>6, RetryDetails, SpentRetry
  <2>7. CASE d.sendRetries < SendTxnRetries /\ Enqueue(AfterTimeout(d))
    BY <2>2, <2>4, <2>7, RetryDetails, SpentRetry
  <2> QED
    BY <2>3, <2>5, <2>6, <2>7
<1>12. ASSUME NEW r \in reports, NEW yield \in Yields, NEW off \in BOOLEAN,
              ConfirmedOk(r, yield, off)
       PROVE Move
  <2> DEFINE e == EntryOf(r)
  <2>1. Take(r) /\ Known(r)
    BY <1>12 DEF ConfirmedOk
  <2>2. e \in pending /\ e.id = r.id
    BY <2>1, TakeType
  <2>3. End(e.d.order, "done") /\ UNCHANGED <<mainUnchanged, execQueue>>
    BY <1>12 DEF ConfirmedOk
  <2> HIDE DEF e
  <2>4. MoveEnd(r, e)
    BY <2>1, <2>2, <2>3 DEF MoveEnd, Take, mainUnchanged
  <2> QED
    BY <2>2, <2>4 DEF Move
<1>13. CASE ReadEntry \/ WriteEntry
  BY <1>13 DEF ReadEntry, WriteEntry, Move, MoveNothing
<1>14. ASSUME NEW f \in inFlight, NEW response \in Responses, NEW onChain \in BOOLEAN,
              Reported(f, response, onChain)
       PROVE Move
  <2>1. MoveReport(f, response, onChain)
    BY <1>14 DEF Reported, MoveReport
  <2> QED
    BY <2>1 DEF Move
<1>15. CASE UNCHANGED vars
  BY <1>15 DEF vars, Move, MoveNothing
<1> QED
  BY <1>1, <1>2, <1>3, <1>4, <1>5, <1>6, <1>7, <1>8, <1>9, <1>10, <1>11, <1>12, <1>13,
     <1>14, <1>15 DEF Next, ExecutionStep, MainStep, ServiceStep

-----------------------------------------------------------------------------
(* The moves keep the invariant.                                           *)

\* try_send puts an order into the queue or drops it.
LEMMA EnqueueCases ==
    ASSUME TypeOK, NEW n \in Details, Enqueue(n)
    PROVE  /\ \/ execQueue' = execQueue \cup {n} /\ fate'[n.order] = "open"
              \/ execQueue' = execQueue /\ fate'[n.order] = "dropped"
           /\ \A o \in Orders \ {n.order} : fate'[o] = fate[o]
           /\ n.order \in Orders
<1>1. n.order \in Orders /\ fate \in [Orders -> Fates]
  BY DetailsParts DEF TypeOK
<1> QED
  BY <1>1 DEF Enqueue, End

\* The orders of all carriers are orders.
LEMMA CarriersTyped ==
    ASSUME TypeOK
    PROVE  /\ \A d \in execQueue : d \in Details /\ d.order \in Orders
           /\ \A k \in tasks : k.d \in Details /\ k.d.order \in Orders
           /\ \A x \in outputs : x.d \in Details /\ x.d.order \in Orders
           /\ \A e \in pending : e.d \in Details /\ e.d.order \in Orders /\ e.id \in Nat
           /\ \A f \in inFlight : f.order \in Orders /\ f.id \in Nat
           /\ \A r \in reports : r.id \in Nat
<1>1. \A d \in execQueue : d \in Details /\ d.order \in Orders
  BY DetailsParts DEF TypeOK
<1>2. \A k \in tasks : k.d \in Details /\ k.d.order \in Orders
  BY DetailsParts DEF TypeOK, Task
<1>3. \A x \in outputs : x.d \in Details /\ x.d.order \in Orders
  BY DetailsParts DEF TypeOK
<1>4. \A e \in pending : e.d \in Details /\ e.d.order \in Orders /\ e.id \in Nat
  BY DetailsParts DEF TypeOK
<1>5. (\A f \in inFlight : f.order \in Orders /\ f.id \in Nat) /\ \A r \in reports : r.id \in Nat
  BY DEF TypeOK
<1> QED
  BY <1>1, <1>2, <1>3, <1>4, <1>5

\* No move makes a second carrier of an order.
LEMMA OneStep == ASSUME CopyInv, Move PROVE OneInv'
<1> USE DEF OneInv, wireUnchanged
<1>0. TypeOK /\ OneInv /\ OpenInv /\ IdInv
  BY DEF CopyInv, TypeInv
<1>1. ASSUME NEW o \in Orders, MoveIgnore(o) PROVE OneInv'
  BY <1>0, <1>1 DEF MoveIgnore
<1>2. ASSUME NEW n \in Details, MoveArrive(n) PROVE OneInv'
  <2>1. execQueue' \subseteq execQueue \cup {n} /\ fate[n.order] = "new"
          /\ UNCHANGED <<tasks, outputs, pending>>
    BY <1>2 DEF MoveArrive, Enqueue
  <2>2. /\ \A a \in execQueue : a.order # n.order
        /\ \A a \in tasks : a.d.order # n.order
        /\ \A a \in outputs : a.d.order # n.order
        /\ \A a \in pending : a.d.order # n.order
    BY <1>0, <2>1 DEF OpenInv
  <2> QED
    BY <1>0, <2>1, <2>2
<1>3. ASSUME NEW d \in execQueue, MoveStart(d) PROVE OneInv'
  BY <1>0, <1>3 DEF MoveStart
<1>4. ASSUME NEW k \in tasks, MoveTask(k) PROVE OneInv'
  BY <1>0, <1>4 DEF MoveTask, TaskStep
<1>5. ASSUME NEW k \in tasks, MoveOutput(k) PROVE OneInv'
  BY <1>0, <1>5 DEF MoveOutput
<1>6. ASSUME NEW x \in outputs, MoveSend(x) PROVE OneInv'
  <2> DEFINE n == [id |-> nextId, d |-> x.d]
  <2>1. pending' \subseteq pending \cup {n} /\ outputs' = outputs \ {x}
          /\ UNCHANGED <<execQueue, tasks>>
    BY <1>6 DEF MoveSend
  <2>2. n.d = x.d
    OBVIOUS
  <2> HIDE DEF n
  <2> QED
    BY <1>0, <2>1, <2>2
<1>7. ASSUME NEW x \in outputs, MoveDrop(x) PROVE OneInv'
  BY <1>0, <1>7 DEF MoveDrop
<1>8. ASSUME NEW r \in reports, MoveForget(r) PROVE OneInv'
  BY <1>0, <1>8 DEF MoveForget
<1>9. ASSUME NEW r \in reports, NEW e \in pending, NEW n \in Details, MoveRetry(r, e, n)
      PROVE OneInv'
  <2>1. execQueue' \subseteq execQueue \cup {n} /\ n.order = e.d.order
          /\ pending' = pending \ {e} /\ UNCHANGED <<tasks, outputs>>
    BY <1>0, <1>9 DEF MoveRetry, Enqueue, RemovePending, IdInv
  <2> QED
    BY <1>0, <2>1
<1>10. ASSUME NEW r \in reports, NEW e \in pending, MoveEnd(r, e) PROVE OneInv'
  BY <1>0, <1>10 DEF MoveEnd, RemovePending
<1>11. ASSUME NEW f \in inFlight, NEW response \in Responses, NEW onChain \in BOOLEAN,
              MoveReport(f, response, onChain)
       PROVE OneInv'
  BY <1>0, <1>11 DEF MoveReport
<1>12. CASE MoveNothing
  BY <1>0, <1>12 DEF MoveNothing
<1> QED
  BY <1>1, <1>2, <1>3, <1>4, <1>5, <1>6, <1>7, <1>8, <1>9, <1>10, <1>11, <1>12 DEF Move

\* A move records the fate of the order it ends, and of no other.
LEMMA OpenStep == ASSUME CopyInv, Move PROVE OpenInv'
<1> USE DEF OpenInv, OneInv, wireUnchanged
<1>0. TypeOK /\ OneInv /\ OpenInv /\ IdInv /\ fate \in [Orders -> Fates]
  BY DEF CopyInv, TypeInv, TypeOK
<1>T. /\ \A d \in execQueue : d.order \in Orders
      /\ \A k \in tasks : k.d.order \in Orders
      /\ \A x \in outputs : x.d.order \in Orders
      /\ \A e \in pending : e.d.order \in Orders
  BY <1>0, CarriersTyped
<1>E. "open" \notin Ended
  BY DEF Ended
<1>1. ASSUME NEW o \in Orders, MoveIgnore(o) PROVE OpenInv'
  BY <1>0, <1>T, <1>1 DEF MoveIgnore, End
<1>2. ASSUME NEW n \in Details, MoveArrive(n) PROVE OpenInv'
  <2>1. fate[n.order] = "new" /\ UNCHANGED <<tasks, outputs, pending>>
    BY <1>2 DEF MoveArrive
  <2>2. /\ \/ execQueue' = execQueue \cup {n} /\ fate'[n.order] = "open"
           \/ execQueue' = execQueue /\ fate'[n.order] = "dropped"
        /\ \A o \in Orders \ {n.order} : fate'[o] = fate[o]
        /\ n.order \in Orders
    BY <1>0, <1>2, EnqueueCases DEF MoveArrive
  <2> QED
    BY <1>0, <1>T, <2>1, <2>2
<1>3. ASSUME NEW d \in execQueue, MoveStart(d) PROVE OpenInv'
  BY <1>0, <1>3 DEF MoveStart
<1>4. ASSUME NEW k \in tasks, MoveTask(k) PROVE OpenInv'
  BY <1>0, <1>T, <1>E, <1>4 DEF MoveTask, TaskStep, End
<1>5. ASSUME NEW k \in tasks, MoveOutput(k) PROVE OpenInv'
  BY <1>0, <1>5 DEF MoveOutput
<1>6. ASSUME NEW x \in outputs, MoveSend(x) PROVE OpenInv'
  <2> DEFINE n == [id |-> nextId, d |-> x.d]
  <2>1. PICK kept \in SUBSET pending :
          /\ pending' = kept \cup {n}
          /\ fate' = [o \in Orders |->
                         IF \E f \in pending \ kept : f.d.order = o THEN "shed" ELSE fate[o]]
    BY <1>6 DEF MoveSend
  <2>2. outputs' = outputs \ {x} /\ UNCHANGED <<execQueue, tasks>>
    BY <1>6 DEF MoveSend
  <2>3. n.d = x.d
    OBVIOUS
  <2> HIDE DEF n
  <2>4. \A o \in Orders : (\A f \in pending \ kept : f.d.order # o) => fate'[o] = fate[o]
    BY <2>1
  <2>5. \A f \in pending \ kept : fate'[f.d.order] = "shed"
    BY <1>T, <2>1
  <2> QED
    BY <1>0, <1>T, <2>1, <2>2, <2>3, <2>4, <2>5
<1>7. ASSUME NEW x \in outputs, MoveDrop(x) PROVE OpenInv'
  BY <1>0, <1>T, <1>E, <1>7 DEF MoveDrop, End
<1>8. ASSUME NEW r \in reports, MoveForget(r) PROVE OpenInv'
  BY <1>0, <1>8 DEF MoveForget
<1>9. ASSUME NEW r \in reports, NEW e \in pending, NEW n \in Details, MoveRetry(r, e, n)
      PROVE OpenInv'
  <2>1. n.order = e.d.order /\ pending' = pending \ {e} /\ UNCHANGED <<tasks, outputs>>
    BY <1>0, <1>9 DEF MoveRetry, RemovePending, IdInv
  <2>2. /\ \/ execQueue' = execQueue \cup {n} /\ fate'[n.order] = "open"
           \/ execQueue' = execQueue /\ fate'[n.order] = "dropped"
        /\ \A o \in Orders \ {n.order} : fate'[o] = fate[o]
    BY <1>0, <1>9, EnqueueCases DEF MoveRetry
  <2> QED
    BY <1>0, <1>T, <2>1, <2>2
<1>10. ASSUME NEW r \in reports, NEW e \in pending, MoveEnd(r, e) PROVE OpenInv'
  <2>1. pending' = pending \ {e} /\ UNCHANGED <<execQueue, tasks, outputs>>
    BY <1>0, <1>10 DEF MoveEnd, RemovePending, IdInv
  <2>2. fate'[e.d.order] # "open" /\ \A o \in Orders \ {e.d.order} : fate'[o] = fate[o]
    BY <1>0, <1>T, <1>10 DEF MoveEnd, End
  <2> QED
    BY <1>0, <1>T, <2>1, <2>2
<1>11. ASSUME NEW f \in inFlight, NEW response \in Responses, NEW onChain \in BOOLEAN,
              MoveReport(f, response, onChain)
       PROVE OpenInv'
  BY <1>0, <1>11 DEF MoveReport
<1>12. CASE MoveNothing
  BY <1>0, <1>12 DEF MoveNothing
<1> QED
  BY <1>1, <1>2, <1>3, <1>4, <1>5, <1>6, <1>7, <1>8, <1>9, <1>10, <1>11, <1>12 DEF Move

\* Transaction ids stay fresh and unique.
LEMMA IdStep == ASSUME CopyInv, Move PROVE IdInv'
<1> USE DEF IdInv, wireUnchanged
<1>0. TypeOK /\ IdInv /\ nextId \in Nat
  BY DEF CopyInv, TypeInv, TypeOK
<1>T. /\ \A e \in pending : e.id \in Nat
      /\ \A f \in inFlight : f.id \in Nat
      /\ \A r \in reports : r.id \in Nat
  BY <1>0, CarriersTyped
<1>1. CASE UNCHANGED <<pending, inFlight, reports, nextId>>
  BY <1>0, <1>1
<1>2. ASSUME NEW x \in outputs, MoveSend(x) PROVE IdInv'
  <2> DEFINE n == [id |-> nextId, d |-> x.d]
             m == [id |-> nextId, order |-> x.d.order]
  <2>1. /\ pending' \subseteq pending \cup {n} /\ inFlight' = inFlight \cup {m}
        /\ reports' = reports /\ nextId' = nextId + 1
    BY <1>2 DEF MoveSend
  <2>2. n.id = nextId /\ m.id = nextId
    OBVIOUS
  <2> HIDE DEF n, m
  <2> QED
    BY <1>0, <1>T, <2>1, <2>2
<1>3. ASSUME NEW r \in reports, reports' = reports \ {r}, pending' \subseteq pending,
             UNCHANGED <<inFlight, nextId>>
      PROVE IdInv'
  BY <1>0, <1>3
<1>4. ASSUME NEW f \in inFlight, NEW response \in Responses, NEW onChain \in BOOLEAN,
             MoveReport(f, response, onChain)
      PROVE IdInv'
  <2> DEFINE n == [id |-> f.id, response |-> response]
  <2>1. reports' = reports \cup {n} /\ inFlight' = inFlight \ {f} /\ UNCHANGED <<pending, nextId>>
    BY <1>4 DEF MoveReport
  <2>2. n.id = f.id
    OBVIOUS
  <2> HIDE DEF n
  <2> QED
    BY <1>0, <2>1, <2>2
<1> QED
  BY <1>1, <1>2, <1>3, <1>4
     DEF Move, MoveIgnore, MoveArrive, MoveStart, MoveTask, MoveOutput, MoveDrop, MoveForget,
         MoveRetry, MoveEnd, MoveNothing, RemovePending

\* The fate of an order that has ended is final.
LEMMA EndedStays ==
    ASSUME CopyInv, Move, NEW o \in Orders, fate[o] \in Ended PROVE fate'[o] = fate[o]
<1>0. TypeOK /\ OpenInv /\ fate \in [Orders -> Fates]
  BY DEF CopyInv, TypeInv, TypeOK
<1> USE <1>0 DEF Ended, OpenInv, wireUnchanged
<1>1. ASSUME NEW p \in Orders, MoveIgnore(p) PROVE fate'[o] = fate[o]
  BY <1>1 DEF MoveIgnore, End
<1>2. ASSUME NEW n \in Details, MoveArrive(n) PROVE fate'[o] = fate[o]
  BY <1>2, EnqueueCases DEF MoveArrive
<1>3. ASSUME NEW k \in tasks, MoveTask(k) PROVE fate'[o] = fate[o]
  BY <1>3 DEF MoveTask, TaskStep, End
<1>4. ASSUME NEW x \in outputs, MoveSend(x) \/ MoveDrop(x) PROVE fate'[o] = fate[o]
  BY <1>4 DEF MoveSend, MoveDrop, End
<1>5. ASSUME NEW r \in reports, NEW e \in pending, NEW n \in Details, MoveRetry(r, e, n)
      PROVE fate'[o] = fate[o]
  BY <1>5, EnqueueCases DEF MoveRetry
<1>6. ASSUME NEW r \in reports, NEW e \in pending, MoveEnd(r, e) PROVE fate'[o] = fate[o]
  BY <1>6 DEF MoveEnd, End
<1>7. CASE UNCHANGED fate
  BY <1>7
<1> QED
  BY <1>1, <1>2, <1>3, <1>4, <1>5, <1>6, <1>7
     DEF Move, MoveStart, MoveOutput, MoveForget, MoveReport, MoveNothing

\* The pending map and the transaction service stay in step.
LEMMA MatchStep == ASSUME CopyInv, Move PROVE MatchInv'
<1>0. TypeOK /\ OneInv /\ OpenInv /\ IdInv /\ MatchInv /\ fate \in [Orders -> Fates]
  BY DEF CopyInv, TypeInv, TypeOK
<1>T. /\ \A e \in pending : e.d.order \in Orders /\ e.id \in Nat
      /\ \A f \in inFlight : f.order \in Orders /\ f.id \in Nat
      /\ \A x \in outputs : x.d.order \in Orders
  BY <1>0, CarriersTyped
<1>S. \A o \in Orders : fate[o] = "shed" => fate'[o] = "shed"
  BY EndedStays DEF Ended, Fates
<1> USE DEF MatchInv, wireUnchanged
<1>1. CASE UNCHANGED <<pending, inFlight, reports>>
  BY <1>0, <1>T, <1>S, <1>1
<1>2. ASSUME NEW x \in outputs, MoveSend(x) PROVE MatchInv'
  <2> DEFINE n == [id |-> nextId, d |-> x.d]
             m == [id |-> nextId, order |-> x.d.order]
  <2>1. PICK kept \in SUBSET pending :
          /\ pending' = kept \cup {n}
          /\ fate' = [o \in Orders |->
                         IF \E f \in pending \ kept : f.d.order = o THEN "shed" ELSE fate[o]]
    BY <1>2 DEF MoveSend
  <2>2. inFlight' = inFlight \cup {m} /\ reports' = reports
    BY <1>2 DEF MoveSend
  <2>3. n.id = nextId /\ n.d = x.d /\ m.id = nextId /\ m.order = x.d.order
    OBVIOUS
  <2> HIDE DEF n, m
  <2>4. \A f \in pending \ kept : fate'[f.d.order] = "shed"
    BY <1>T, <2>1
  <2>5. \A f \in inFlight : f.order # x.d.order
    <3>1. (\A e \in pending : e.d.order # x.d.order) /\ fate[x.d.order] = "open"
      BY <1>0 DEF OneInv, OpenInv
    <3> QED
      BY <1>0, <3>1
  <2>6. ASSUME NEW f \in inFlight
        PROVE (\E e \in pending' : e.id = f.id /\ e.d.order = f.order) \/ fate'[f.order] = "shed"
    <3>1. CASE fate[f.order] = "shed"
      BY <1>T, <1>S, <3>1
    <3>2. ASSUME NEW e \in pending, e.id = f.id, e.d.order = f.order
          PROVE (\E g \in pending' : g.id = f.id /\ g.d.order = f.order) \/ fate'[f.order] = "shed"
      BY <2>1, <2>4, <3>2
    <3> QED
      BY <1>0, <3>1, <3>2
  <2> QED
    BY <1>0, <2>1, <2>2, <2>3, <2>5, <2>6
<1>3. ASSUME NEW r \in reports, MoveForget(r) PROVE MatchInv'
  BY <1>0, <1>3 DEF MoveForget
<1>4. ASSUME NEW r \in reports, NEW e \in pending, e.id = r.id, reports' = reports \ {r},
             pending' = RemovePending(pending, r.id), UNCHANGED inFlight
      PROVE MatchInv'
  <2>1. pending' = pending \ {e}
    BY <1>0, <1>4 DEF RemovePending, IdInv
  <2>2. \A f \in inFlight : f.id # r.id
    BY <1>0 DEF IdInv
  <2>3. \A g \in pending : g.id = r.id => g = e
    BY <1>0, <1>4 DEF IdInv
  <2> QED
    BY <1>0, <1>T, <1>S, <1>4, <2>1, <2>2, <2>3
<1>5. ASSUME NEW f \in inFlight, NEW response \in Responses, NEW onChain \in BOOLEAN,
             MoveReport(f, response, onChain)
      PROVE MatchInv'
  <2> DEFINE n == [id |-> f.id, response |-> response]
  <2>1. reports' = reports \cup {n} /\ inFlight' = inFlight \ {f} /\ UNCHANGED <<pending, fate>>
    BY <1>5 DEF MoveReport
  <2>2. n.id = f.id
    OBVIOUS
  <2> HIDE DEF n
  <2> QED
    BY <1>0, <2>1, <2>2
<1> QED
  BY <1>1, <1>2, <1>3, <1>4, <1>5
     DEF Move, MoveIgnore, MoveArrive, MoveStart, MoveTask, MoveOutput, MoveDrop,
         MoveRetry, MoveEnd, MoveNothing

\* Every transaction sent is paid for by a counter of its order's details.
LEMMA BudgetStep == ASSUME CopyInv, Move PROVE BudgetInv'
<1>0. TypeOK /\ OneInv /\ OpenInv /\ BudgetInv /\ fate \in [Orders -> Fates]
        /\ sent \in [Orders -> Nat]
  BY DEF CopyInv, TypeInv, TypeOK
<1>T. /\ \A d \in execQueue : d \in Details /\ d.order \in Orders
      /\ \A k \in tasks : k.d \in Details /\ k.d.order \in Orders
      /\ \A x \in outputs : x.d \in Details /\ x.d.order \in Orders
      /\ \A e \in pending : e.d \in Details /\ e.d.order \in Orders
  BY <1>0, CarriersTyped
<1>B. Budget \in Nat
  BY ConstantsAssumption DEF Budget
<1>D. \A d \in Details : Spent(d) \in Nat /\ Spent(d) + 1 <= Budget
  BY SpentRetry
<1>N. "new" \notin Ended
  BY DEF Ended
<1> USE DEF BudgetInv, wireUnchanged
<1>1. ASSUME NEW o \in Orders, MoveIgnore(o) PROVE BudgetInv'
  BY <1>0, <1>1 DEF MoveIgnore, End
<1>2. ASSUME NEW n \in Details, MoveArrive(n) PROVE BudgetInv'
  <2>1. /\ execQueue' \subseteq execQueue \cup {n} /\ n.order \in Orders
        /\ \A o \in Orders : fate'[o] = "new" => fate[o] = "new"
    BY <1>0, <1>2, EnqueueCases DEF MoveArrive
  <2>2. fate[n.order] = "new" /\ Spent(n) = 0 /\ UNCHANGED <<tasks, outputs, pending, sent>>
    BY <1>2 DEF MoveArrive
  <2> QED
    BY <1>0, <2>1, <2>2
<1>3. ASSUME NEW d \in execQueue, MoveStart(d) PROVE BudgetInv'
  BY <1>0, <1>3 DEF MoveStart
<1>4. ASSUME NEW k \in tasks, MoveTask(k) PROVE BudgetInv'
  <2>1. UNCHANGED <<execQueue, outputs, pending, sent>>
    BY <1>4 DEF MoveTask
  <2>2. \A n \in tasks' : sent[n.d.order] <= Spent(n.d)
    BY <1>0, <1>4 DEF MoveTask, TaskStep
  <2>3. \A o \in Orders : fate'[o] = "new" => fate[o] = "new"
    BY <1>0, <1>T, <1>N, <1>4 DEF MoveTask, TaskStep, End
  <2> QED
    BY <1>0, <2>1, <2>2, <2>3
<1>5. ASSUME NEW k \in tasks, MoveOutput(k) PROVE BudgetInv'
  BY <1>0, <1>5 DEF MoveOutput
<1>6. ASSUME NEW x \in outputs, MoveSend(x) PROVE BudgetInv'
  <2> DEFINE n == [id |-> nextId, d |-> x.d]
  <2>1. /\ pending' \subseteq pending \cup {n} /\ outputs' = outputs \ {x}
        /\ UNCHANGED <<execQueue, tasks>>
        /\ sent' = [sent EXCEPT ![x.d.order] = @ + 1]
    BY <1>6 DEF MoveSend
  <2>2. n.d = x.d
    OBVIOUS
  <2>3. \A o \in Orders : fate'[o] = "new" => fate[o] = "new"
    BY <1>6 DEF MoveSend
  <2> HIDE DEF n
  <2>4. /\ \A a \in execQueue : a.order # x.d.order
        /\ \A a \in tasks : a.d.order # x.d.order
        /\ \A a \in outputs : a.d.order = x.d.order => a = x
        /\ \A a \in pending : a.d.order # x.d.order
        /\ fate[x.d.order] = "open"
    BY <1>0 DEF OneInv, OpenInv
  <2>5. \A o \in Orders \ {x.d.order} : sent'[o] = sent[o]
    BY <1>0, <2>1
  <2>6. sent'[x.d.order] = sent[x.d.order] + 1 /\ sent[x.d.order] <= Spent(x.d)
          /\ sent[x.d.order] \in Nat /\ Spent(x.d) \in Nat /\ Spent(x.d) + 1 <= Budget
    BY <1>0, <1>T, <1>D, <2>1
  <2>7. \A a \in pending' : sent'[a.d.order] <= Spent(a.d) + 1
    BY <1>0, <1>T, <2>1, <2>2, <2>4, <2>5, <2>6
  <2>8. /\ \A a \in execQueue' : sent'[a.order] <= Spent(a)
        /\ \A a \in tasks' : sent'[a.d.order] <= Spent(a.d)
        /\ \A a \in outputs' : sent'[a.d.order] <= Spent(a.d)
    BY <1>0, <1>T, <2>1, <2>4, <2>5
  <2>9. \A o \in Orders : sent'[o] <= Budget /\ (fate'[o] = "new" => sent'[o] = 0)
    BY <1>0, <1>T, <1>B, <2>3, <2>4, <2>5, <2>6
  <2> QED
    BY <2>7, <2>8, <2>9
<1>7. ASSUME NEW x \in outputs, MoveDrop(x) PROVE BudgetInv'
  BY <1>0, <1>T, <1>N, <1>7 DEF MoveDrop, End
<1>8. ASSUME NEW r \in reports, NEW e \in pending, NEW n \in Details, MoveRetry(r, e, n)
      PROVE BudgetInv'
  <2>1. /\ execQueue' \subseteq execQueue \cup {n}
        /\ \A o \in Orders : fate'[o] = "new" => fate[o] = "new"
    BY <1>0, <1>8, EnqueueCases DEF MoveRetry
  <2>2. /\ pending' \subseteq pending /\ UNCHANGED <<tasks, outputs, sent>>
        /\ n.order = e.d.order /\ Spent(n) >= Spent(e.d) + 1
    BY <1>8 DEF MoveRetry, RemovePending
  <2>3. sent[n.order] <= Spent(n)
    <3>1. sent[e.d.order] <= Spent(e.d) + 1 /\ Spent(e.d) \in Nat /\ Spent(n) \in Nat
            /\ sent[e.d.order] \in Nat
      BY <1>0, <1>T, <1>D
    <3> QED
      BY <2>2, <3>1
  <2> QED
    BY <1>0, <2>1, <2>2, <2>3
<1>9. ASSUME NEW r \in reports, NEW e \in pending, MoveEnd(r, e) PROVE BudgetInv'
  BY <1>0, <1>T, <1>9 DEF MoveEnd, RemovePending, End
<1>10. CASE UNCHANGED <<execQueue, tasks, outputs, pending, fate, sent>>
  BY <1>0, <1>10
<1> QED
  BY <1>1, <1>2, <1>3, <1>4, <1>5, <1>6, <1>7, <1>8, <1>9, <1>10
     DEF Move, MoveForget, MoveReport, MoveNothing

\* An executed copy keeps its report until the main task marks the order done.
LEMMA ExecStep == ASSUME CopyInv, Move PROVE ExecInv'
<1> SUFFICES ASSUME ~FalseUnconfirmed PROVE ExecInv'
  BY DEF ExecInv
<1>0. TypeOK /\ OneInv /\ OpenInv /\ IdInv /\ MatchInv /\ fate \in [Orders -> Fates]
        /\ executed \in [Orders -> Nat]
  BY DEF CopyInv, TypeInv, TypeOK
<1> DEFINE Awaiting(o) == \E e \in pending : \E r \in reports :
                              e.d.order = o /\ r.id = e.id /\ r.response = "ok"
<1>X. /\ \A o \in Orders : executed[o] <= 1
      /\ \A o \in Orders : executed[o] = 1 => fate[o] \in {"done", "shed"} \/ Awaiting(o)
      /\ \A f \in inFlight : executed[f.order] = 0
  BY DEF CopyInv, ExecInv
<1>G. ASSUME /\ \A o \in Orders : executed'[o] <= 1
             /\ \A o \in Orders : executed'[o] = 1 => fate'[o] \in {"done", "shed"} \/ Awaiting(o)'
             /\ \A f \in inFlight' : executed'[f.order] = 0
      PROVE ExecInv'
  BY <1>G DEF ExecInv
<1>T. /\ \A d \in execQueue : d.order \in Orders
      /\ \A k \in tasks : k.d.order \in Orders
      /\ \A x \in outputs : x.d.order \in Orders
      /\ \A e \in pending : e.d.order \in Orders
      /\ \A f \in inFlight : f.order \in Orders
  BY <1>0, CarriersTyped
<1> USE DEF wireUnchanged
\* Steps that leave the map, the reports and the chain alone end orders that
\* are not waiting for a report.
<1>1. ASSUME UNCHANGED <<pending, reports, inFlight, executed>>,
             \A o \in Orders : fate[o] \in {"done", "shed"} => fate'[o] \in {"done", "shed"}
      PROVE ExecInv'
  BY <1>G, <1>X, <1>1
<1>2. ASSUME NEW o \in Orders, MoveIgnore(o) PROVE ExecInv'
  BY <1>0, <1>1, <1>2 DEF MoveIgnore, End
<1>3. ASSUME NEW n \in Details, MoveArrive(n) PROVE ExecInv'
  <2>1. \A o \in Orders : fate[o] \in {"done", "shed"} => fate'[o] \in {"done", "shed"}
    BY <1>0, <1>3, EnqueueCases DEF MoveArrive
  <2> QED
    BY <1>1, <1>3, <2>1 DEF MoveArrive
<1>4. ASSUME NEW k \in tasks, MoveTask(k) PROVE ExecInv'
  <2>1. \A o \in Orders : fate[o] \in {"done", "shed"} => fate'[o] \in {"done", "shed"}
    BY <1>0, <1>T, <1>4 DEF MoveTask, TaskStep, End, OpenInv
  <2> QED
    BY <1>1, <1>4, <2>1 DEF MoveTask
<1>5. ASSUME NEW x \in outputs, MoveDrop(x) PROVE ExecInv'
  <2>1. \A o \in Orders : fate[o] \in {"done", "shed"} => fate'[o] \in {"done", "shed"}
    BY <1>0, <1>T, <1>5 DEF MoveDrop, End, OpenInv
  <2> QED
    BY <1>1, <1>5, <2>1 DEF MoveDrop
<1>6. CASE UNCHANGED <<pending, reports, inFlight, executed, fate>>
  BY <1>1, <1>6
<1>7. ASSUME NEW x \in outputs, MoveSend(x) PROVE ExecInv'
  <2> DEFINE n == [id |-> nextId, d |-> x.d]
             m == [id |-> nextId, order |-> x.d.order]
  <2>1. PICK kept \in SUBSET pending :
          /\ pending' = kept \cup {n}
          /\ fate' = [o \in Orders |->
                         IF \E f \in pending \ kept : f.d.order = o THEN "shed" ELSE fate[o]]
    BY <1>7 DEF MoveSend
  <2>2. inFlight' = inFlight \cup {m} /\ UNCHANGED <<reports, executed>>
    BY <1>7 DEF MoveSend
  <2>3. m.order = x.d.order
    OBVIOUS
  <2> HIDE DEF n, m
  <2>4. executed[x.d.order] = 0
    <3>1. (\A e \in pending : e.d.order # x.d.order) /\ fate[x.d.order] = "open"
      BY <1>0 DEF OneInv, OpenInv
    <3>2. executed[x.d.order] # 1
      BY <1>T, <1>X, <3>1
    <3> QED
      BY <1>0, <1>T, <1>X, <3>2
  <2>5. ASSUME NEW o \in Orders, executed[o] = 1
        PROVE fate'[o] \in {"done", "shed"} \/ Awaiting(o)'
    <3>1. CASE \E f \in pending \ kept : f.d.order = o
      BY <2>1, <3>1
    <3>2. CASE \A f \in pending \ kept : f.d.order # o
      <4>1. fate'[o] = fate[o]
        BY <2>1, <3>2
      <4>2. Awaiting(o) => Awaiting(o)'
        BY <2>1, <2>2, <3>2
      <4> QED
        BY <1>X, <2>5, <4>1, <4>2
    <3> QED
      BY <3>1, <3>2
  <2> HIDE DEF Awaiting
  <2> QED
    BY <1>G, <1>X, <2>2, <2>3, <2>4, <2>5
<1>8. ASSUME NEW r \in reports, MoveForget(r) PROVE ExecInv'
  <2>1. \A o \in Orders : Awaiting(o) => Awaiting(o)'
    BY <1>8 DEF MoveForget
  <2>2. UNCHANGED <<inFlight, executed, fate>>
    BY <1>8 DEF MoveForget
  <2> HIDE DEF Awaiting
  <2> QED
    BY <1>G, <1>X, <2>1, <2>2
<1>9. ASSUME NEW r \in reports, NEW e \in pending, e.id = r.id,
             reports' = reports \ {r}, pending' = RemovePending(pending, r.id),
             UNCHANGED <<inFlight, executed>>,
             \A o \in Orders \ {e.d.order} : fate'[o] = fate[o],
             r.response = "ok" => fate'[e.d.order] = "done"
      PROVE ExecInv'
  <2>1. pending' = pending \ {e}
    BY <1>0, <1>9 DEF RemovePending, IdInv
  <2>2. \A o \in Orders \ {e.d.order} : Awaiting(o) => Awaiting(o)'
    <3>1. \A g \in pending : g.d.order # e.d.order => g # e /\ g.id # r.id
      BY <1>0, <1>9 DEF IdInv
    <3> QED
      BY <1>9, <2>1, <3>1
  <2>3. executed[e.d.order] = 1 => r.response = "ok"
    <3>1. fate[e.d.order] = "open" /\ \A g \in pending : g.d.order = e.d.order => g = e
      BY <1>0 DEF OneInv, OpenInv
    <3>2. \A q \in reports : q.id = e.id => q = r
      BY <1>0, <1>9 DEF IdInv
    <3> QED
      BY <1>T, <1>X, <3>1, <3>2
  <2>4. executed[e.d.order] = 1 => fate'[e.d.order] = "done"
    BY <1>9, <2>3
  <2> HIDE DEF Awaiting
  <2>5. \A o \in Orders : executed'[o] = 1 => fate'[o] \in {"done", "shed"} \/ Awaiting(o)'
    BY <1>X, <1>9, <2>2, <2>4
  <2> QED
    BY <1>G, <1>X, <1>9, <2>5
<1>10. ASSUME NEW r \in reports, NEW e \in pending, NEW n \in Details, MoveRetry(r, e, n)
       PROVE ExecInv'
  <2>1. \A o \in Orders \ {e.d.order} : fate'[o] = fate[o]
    BY <1>0, <1>10, EnqueueCases DEF MoveRetry
  <2> QED
    BY <1>9, <1>10, <2>1 DEF MoveRetry
<1>11. ASSUME NEW r \in reports, NEW e \in pending, MoveEnd(r, e) PROVE ExecInv'
  <2>1. (\A o \in Orders \ {e.d.order} : fate'[o] = fate[o])
          /\ (r.response = "ok" => fate'[e.d.order] = "done")
    BY <1>0, <1>T, <1>11 DEF MoveEnd, End
  <2> QED
    BY <1>9, <1>11, <2>1 DEF MoveEnd
<1>12. ASSUME NEW f \in inFlight, NEW response \in Responses, NEW onChain \in BOOLEAN,
              MoveReport(f, response, onChain)
       PROVE ExecInv'
  <2> DEFINE n == [id |-> f.id, response |-> response]
  <2>1. reports' = reports \cup {n} /\ inFlight' = inFlight \ {f} /\ UNCHANGED <<pending, fate>>
    BY <1>12 DEF MoveReport
  <2>2. n.id = f.id /\ n.response = response
    OBVIOUS
  <2>3. onChain => response = "ok"
    BY <1>12 DEF MoveReport, Responses
  <2> HIDE DEF n
  <2>4. \A o \in Orders : Awaiting(o) => Awaiting(o)'
    BY <2>1
  <2>5. onChain => fate'[f.order] = "shed" \/ Awaiting(f.order)'
    <3>1. CASE fate[f.order] = "shed"
      BY <2>1, <3>1
    <3>2. ASSUME NEW e \in pending, e.id = f.id, e.d.order = f.order, onChain
          PROVE Awaiting(f.order)'
      BY <2>1, <2>2, <2>3, <3>2
    <3> QED
      BY <1>0, <3>1, <3>2 DEF MatchInv
  <2>6. \A g \in inFlight' : g.order # f.order /\ g \in inFlight
    BY <1>0, <2>1 DEF MatchInv
  <2>7. executed[f.order] = 0 /\ f.order \in Orders
    BY <1>T, <1>X
  <2>8. (\A o \in Orders \ {f.order} : executed'[o] = executed[o])
          /\ (onChain => executed'[f.order] = 1) /\ (~onChain => executed'[f.order] = 0)
    BY <1>0, <1>12, <2>7 DEF MoveReport
  <2> HIDE DEF Awaiting
  <2>9. \A o \in Orders : executed'[o] <= 1
    BY <1>X, <2>8
  <2>10. \A o \in Orders : executed'[o] = 1 => fate'[o] \in {"done", "shed"} \/ Awaiting(o)'
    BY <1>X, <2>1, <2>4, <2>5, <2>8
  <2>11. \A g \in inFlight' : executed'[g.order] = 0
    BY <1>T, <1>X, <2>6, <2>8
  <2> QED
    BY <1>G, <2>9, <2>10, <2>11
<1> HIDE DEF Awaiting
<1> QED
  BY <1>2, <1>3, <1>4, <1>5, <1>6, <1>7, <1>8, <1>10, <1>11, <1>12
     DEF Move, MoveStart, MoveOutput, MoveNothing

-----------------------------------------------------------------------------
(* The theorems.                                                           *)

\* The inductive invariant holds in every reachable state, for every set of
\* orders, every configuration of limits and every stored history.
THEOREM CopyInvHolds == Spec => []CopyInv
<1>1. Init => CopyInv
  BY InitCopyInv
<1>2. CopyInv /\ [Next]_vars => CopyInv'
  <2> SUFFICES ASSUME CopyInv, [Next]_vars PROVE CopyInv'
    OBVIOUS
  <2>1. TypeInv
    BY DEF CopyInv
  <2>2. TypeInv'
    BY <2>1, TypeStep
  <2>3. Move
    BY <2>1, MoveStep
  <2> QED
    BY <2>2, <2>3, OneStep, OpenStep, IdStep, MatchStep, BudgetStep, ExecStep DEF CopyInv
<1> QED
  BY <1>1, <1>2, PTL DEF Spec

\* Every variable of the service keeps its type: the queue, the tasks, the
\* outputs, the pending map, the history, whose volumes never become negative,
\* and the retry counters, which never pass their limits.
THEOREM TypeCorrect == Spec => []TypeOK
<1>1. CopyInv => TypeOK
  BY DEF CopyInv, TypeInv
<1> QED
  BY <1>1, CopyInvHolds, PTL

\* An order under way has exactly one carrier in the queue, the tasks, the
\* output channel and the pending map, an ended one none, whatever the retries,
\* the drops of a full queue and the shedding of a full map do.
THEOREM OrderHasOnePlace == Spec => []OnePlace
<1>1. CopyInv => OnePlace
  <2> SUFFICES ASSUME CopyInv, NEW o \in Orders
               PROVE  Cardinality(Carriers(o)) = IF fate[o] = "open" THEN 1 ELSE 0
    BY DEF OnePlace
  <2>1. OneInv /\ OpenInv
    BY DEF CopyInv
  <2>2. \A c \in Carriers(o) : fate[o] = "open"
    BY <2>1 DEF Carriers, OpenInv
  <2>3. \A b, c \in Carriers(o) : b = c
    <3> DEFINE Q == {d \in execQueue : d.order = o}
               T == {k \in tasks : k.d.order = o}
               X == {x \in outputs : x.d.order = o}
               E == {e \in pending : e.d.order = o}
    <3>1. /\ \A b, c \in Q : b = c
          /\ \A b, c \in T : b = c
          /\ \A b, c \in X : b = c
          /\ \A b, c \in E : b = c
      BY <2>1 DEF OneInv
    <3>2. /\ \A b \in Q : T = {} /\ X = {} /\ E = {}
          /\ \A b \in T : X = {} /\ E = {}
          /\ \A b \in X : E = {}
      BY <2>1 DEF OneInv
    <3>3. Carriers(o) = Q \cup T \cup X \cup E
      BY DEF Carriers
    <3> HIDE DEF Q, T, X, E
    <3> QED
      BY <3>1, <3>2, <3>3
  <2>4. CASE fate[o] = "open"
    <3>1. Carriers(o) # {}
      BY <2>1, <2>4 DEF Carriers, OpenInv
    <3>2. PICK c : c \in Carriers(o)
      BY <3>1
    <3>3. Carriers(o) = {c}
      BY <2>3, <3>2
    <3> QED
      BY <2>4, <3>3, FS_Singleton
  <2>5. CASE fate[o] # "open"
    <3>1. Carriers(o) = {}
      BY <2>2, <2>5
    <3> QED
      BY <2>5, <3>1, FS_EmptySet
  <2> QED
    BY <2>4, <2>5
<1> QED
  BY <1>1, CopyInvHolds, PTL

\* Every entry of the pending map has its report to come, and every transaction
\* in flight its entry, unless the map shed it.
THEOREM PendingMatches == Spec => []PendingMatchesService
<1>1. CopyInv => PendingMatchesService
  BY DEF CopyInv, MatchInv, PendingMatchesService
<1> QED
  BY <1>1, CopyInvHolds, PTL

\* No order is sent more often than the two retry limits allow together.
THEOREM SendsWithinBudget == Spec => []SendBudget
<1>1. CopyInv => SendBudget
  BY DEF CopyInv, BudgetInv, Budget, SendBudget
<1> QED
  BY <1>1, CopyInvHolds, PTL

\* As long as the transaction service reports Unconfirmed only for what was not
\* executed, no origin swap is copied twice, and an executed copy ends as done,
\* or is shed.
THEOREM OneCopyOnChain == Spec => []CopiedAtMostOnce
<1>1. CopyInv => CopiedAtMostOnce
  BY DEF CopyInv, OpenInv, ExecInv, CopiedAtMostOnce
<1> QED
  BY <1>1, CopyInvHolds, PTL

\* The recorded end of an order is final: no later report, retry or delivery
\* revives or relabels it.
THEOREM FateIsFinal == Spec => [][\A o \in Orders : fate[o] \in Ended => fate'[o] = fate[o]]_vars
<1>1. CopyInv /\ [Next]_vars => [\A o \in Orders : fate[o] \in Ended => fate'[o] = fate[o]]_vars
  BY MoveStep, EndedStays DEF CopyInv
<1> QED
  BY <1>1, CopyInvHolds, PTL DEF Spec

-----------------------------------------------------------------------------
(* The volumes of the history.                                             *)

\* The orders that the service has seen, and the ones whose trades the main task
\* has still to enter.
Seen == {o \in Orders : fate[o] # "new"}

Entering(direction) ==
    {inserts[i].order : i \in {j \in DOMAIN inserts : inserts[j].direction = direction}}

\* The volumes h of a position are covered by what was stored, by the sells S and
\* by the buys B.
Covered(h, k, S, B, y) ==
    /\ h.originSell <= Stored(k).originSell + SumFunctionOnSet(OriginIn, S)
    /\ h.originBuy <= Stored(k).originBuy + SumFunctionOnSet(OriginOut, B)
    /\ YieldsUpTo(y) => h.execBuy <= Stored(k).execBuy + SumFunctionOnSet(EachBringsIn(y), B)

\* Trades to enter are of an order that is done, one of each direction, with the
\* amounts of its swap; the main task holds a copy of an entry only for one.
InsertInv ==
    /\ inserts = <<>> => entry = NoHistory
    /\ \A i, j \in DOMAIN inserts : inserts[i].direction = inserts[j].direction => i = j
    /\ \A i \in DOMAIN inserts :
          LET t == inserts[i] IN
          /\ fate[t.order] = "done"
          /\ t.direction = "sell" => t.key = SellKey(t.order) /\ t.origin = Swap[t.order].ain
          /\ t.direction = "buy" => /\ t.key = BuyKey(t.order) /\ t.origin = Swap[t.order].aout
                                    /\ \E a \in Yields : t.exec <= a

\* The entries of the history, and the copy that is about to be written back,
\* are covered without the trades that are still to be entered.
AccountInv(y) ==
    \A k \in Keys :
        /\ history[k] # NoHistory =>
              Covered(history[k], k, SalesOf(k) \ Entering("sell"), BuysOf(k) \ Entering("buy"), y)
        /\ entry # NoHistory /\ Head(inserts).key = k =>
              Covered(entry, k, SalesOf(k) \ Entering("sell"), BuysOf(k) \ Entering("buy"), y)

VolumeInv(y) == CopyInv /\ IsFiniteSet(Seen) /\ InsertInv /\ AccountInv(y)

\* The functions that are summed, and what was stored, are numbers.
LEMMA VolumeTypes ==
    ASSUME NEW y \in Nat
    PROVE  /\ \A o \in Orders : /\ OriginIn[o] \in Nat /\ OriginOut[o] \in Nat
                                /\ EachBringsIn(y)[o] \in Nat
           /\ \A o \in Orders : /\ OriginIn[o] = Swap[o].ain /\ OriginOut[o] = Swap[o].aout
                                /\ EachBringsIn(y)[o] = y
           /\ \A k \in Keys : Stored(k) \in Volumes
<1>1. \A o \in Orders : Swap[o].ain \in Nat /\ Swap[o].aout \in Nat
  BY ConstantsAssumption
<1>2. \A k \in Keys : Bootstrap[k] \in Volumes \cup {NoHistory}
  BY ConstantsAssumption
<1>3. EmptyVolumes \in Volumes
  BY DEF EmptyVolumes, Volumes
<1> QED
  BY <1>1, <1>2, <1>3 DEF OriginIn, OriginOut, EachBringsIn, Stored

\* Sums over a set of orders are numbers, and grow with the set.
LEMMA OrderSums ==
    ASSUME NEW y \in Nat, NEW T \in SUBSET Orders, IsFiniteSet(T), NEW S \in SUBSET T
    PROVE  /\ SumFunctionOnSet(OriginIn, S) \in Nat /\ SumFunctionOnSet(OriginIn, T) \in Nat
           /\ SumFunctionOnSet(OriginOut, S) \in Nat /\ SumFunctionOnSet(OriginOut, T) \in Nat
           /\ SumFunctionOnSet(EachBringsIn(y), S) \in Nat
           /\ SumFunctionOnSet(EachBringsIn(y), T) \in Nat
           /\ SumFunctionOnSet(OriginIn, S) <= SumFunctionOnSet(OriginIn, T)
           /\ SumFunctionOnSet(OriginOut, S) <= SumFunctionOnSet(OriginOut, T)
           /\ SumFunctionOnSet(EachBringsIn(y), S) <= SumFunctionOnSet(EachBringsIn(y), T)
<1>1. IsFiniteSet(S)
  BY FS_Subset
<1>2. ASSUME NEW F, \A o \in Orders : F[o] \in Nat
      PROVE  /\ SumFunctionOnSet(F, S) \in Nat /\ SumFunctionOnSet(F, T) \in Nat
             /\ SumFunctionOnSet(F, S) <= SumFunctionOnSet(F, T)
  <2>1. (\A o \in S : F[o] \in Nat) /\ (\A o \in T : F[o] \in Nat)
    BY <1>2
  <2>2. SumFunctionOnSet(F, S) \in Nat
    BY <1>1, <2>1, SumNat
  <2>3. SumFunctionOnSet(F, T) \in Nat
    BY <2>1, SumNat
  <2>4. SumFunctionOnSet(F, S) <= SumFunctionOnSet(F, T)
    BY <2>1, SumSubset
  <2> QED
    BY <2>2, <2>3, <2>4
<1>3. \A o \in Orders : OriginIn[o] \in Nat
  BY VolumeTypes
<1>4. \A o \in Orders : OriginOut[o] \in Nat
  BY VolumeTypes
<1>5. \A o \in Orders : EachBringsIn(y)[o] \in Nat
  BY VolumeTypes
<1>6. /\ SumFunctionOnSet(OriginIn, S) \in Nat /\ SumFunctionOnSet(OriginIn, T) \in Nat
      /\ SumFunctionOnSet(OriginIn, S) <= SumFunctionOnSet(OriginIn, T)
  BY <1>2, <1>3
<1>7. /\ SumFunctionOnSet(OriginOut, S) \in Nat /\ SumFunctionOnSet(OriginOut, T) \in Nat
      /\ SumFunctionOnSet(OriginOut, S) <= SumFunctionOnSet(OriginOut, T)
  BY <1>2, <1>4
<1>8. /\ SumFunctionOnSet(EachBringsIn(y), S) \in Nat
      /\ SumFunctionOnSet(EachBringsIn(y), T) \in Nat
      /\ SumFunctionOnSet(EachBringsIn(y), S) <= SumFunctionOnSet(EachBringsIn(y), T)
  BY <1>2, <1>5
<1> QED
  BY <1>6, <1>7, <1>8

\* Volumes that are covered stay so when more orders count.
LEMMA CoveredByMore ==
    ASSUME NEW y \in Nat, NEW k \in Keys, NEW h \in Volumes,
           NEW T \in SUBSET Orders, IsFiniteSet(T), NEW S \in SUBSET T,
           NEW C \in SUBSET Orders, IsFiniteSet(C), NEW B \in SUBSET C,
           Covered(h, k, S, B, y)
    PROVE  Covered(h, k, T, C, y)
<1> DEFINE s == SumFunctionOnSet(OriginIn, S)
           t == SumFunctionOnSet(OriginIn, T)
           b == SumFunctionOnSet(OriginOut, B)
           c == SumFunctionOnSet(OriginOut, C)
           e == SumFunctionOnSet(EachBringsIn(y), B)
           f == SumFunctionOnSet(EachBringsIn(y), C)
<1>1. s \in Nat /\ t \in Nat /\ s <= t
  BY OrderSums
<1>2. b \in Nat /\ c \in Nat /\ b <= c /\ e \in Nat /\ f \in Nat /\ e <= f
  BY OrderSums
<1>3. /\ Stored(k).originSell \in Nat /\ Stored(k).originBuy \in Nat /\ Stored(k).execBuy \in Nat
      /\ h.originSell \in Nat /\ h.originBuy \in Nat /\ h.execBuy \in Nat
  BY VolumeTypes DEF Volumes
<1>4. /\ h.originSell <= Stored(k).originSell + s
      /\ h.originBuy <= Stored(k).originBuy + b
      /\ YieldsUpTo(y) => h.execBuy <= Stored(k).execBuy + e
  BY DEF Covered
<1> HIDE DEF s, t, b, c, e, f
<1>5. /\ h.originSell <= Stored(k).originSell + t
      /\ h.originBuy <= Stored(k).originBuy + c
      /\ YieldsUpTo(y) => h.execBuy <= Stored(k).execBuy + f
  BY <1>1, <1>2, <1>3, <1>4
<1> QED
  BY <1>5 DEF Covered, t, c, f

\* One more sell or one more buy covers what its trade adds.
LEMMA CoveredByOneMore ==
    ASSUME NEW y \in Nat, NEW k \in Keys, NEW h \in Volumes, NEW g \in Volumes,
           NEW S \in SUBSET Orders, IsFiniteSet(S), NEW B \in SUBSET Orders, IsFiniteSet(B),
           NEW o \in Orders, Covered(h, k, S, B, y)
    PROVE  /\ /\ o \notin S
              /\ g.originSell = h.originSell + Swap[o].ain
              /\ g.originBuy = h.originBuy /\ g.execBuy = h.execBuy
              => Covered(g, k, S \cup {o}, B, y)
           /\ /\ o \notin B
              /\ g.originSell = h.originSell
              /\ g.originBuy = h.originBuy + Swap[o].aout
              /\ YieldsUpTo(y) => g.execBuy <= h.execBuy + y
              => Covered(g, k, S, B \cup {o}, y)
<1> DEFINE s == SumFunctionOnSet(OriginIn, S)
           b == SumFunctionOnSet(OriginOut, B)
           e == SumFunctionOnSet(EachBringsIn(y), B)
<1>1. s \in Nat /\ b \in Nat /\ e \in Nat
  BY OrderSums
<1>2. /\ Stored(k).originSell \in Nat /\ Stored(k).originBuy \in Nat /\ Stored(k).execBuy \in Nat
      /\ h.originSell \in Nat /\ h.originBuy \in Nat /\ h.execBuy \in Nat
      /\ g.originSell \in Nat /\ g.originBuy \in Nat /\ g.execBuy \in Nat
  BY VolumeTypes DEF Volumes
<1>3. /\ h.originSell <= Stored(k).originSell + s
      /\ h.originBuy <= Stored(k).originBuy + b
      /\ YieldsUpTo(y) => h.execBuy <= Stored(k).execBuy + e
  BY DEF Covered
<1>4. Swap[o].ain \in Nat /\ Swap[o].aout \in Nat
  BY ConstantsAssumption
<1>5. ASSUME o \notin S, g.originSell = h.originSell + Swap[o].ain,
             g.originBuy = h.originBuy, g.execBuy = h.execBuy
      PROVE  Covered(g, k, S \cup {o}, B, y)
  <2>1. \A x \in S \cup {o} : OriginIn[x] \in Nat
    BY VolumeTypes
  <2>2. SumFunctionOnSet(OriginIn, S \cup {o}) = OriginIn[o] + s
    BY <1>5, <2>1, SumAdd
  <2>3. OriginIn[o] = Swap[o].ain
    BY VolumeTypes
  <2> HIDE DEF s, b, e
  <2>4. /\ g.originSell <= Stored(k).originSell + SumFunctionOnSet(OriginIn, S \cup {o})
        /\ g.originBuy <= Stored(k).originBuy + b
        /\ YieldsUpTo(y) => g.execBuy <= Stored(k).execBuy + e
    BY <1>1, <1>2, <1>3, <1>4, <1>5, <2>2, <2>3
  <2> QED
    BY <2>4 DEF Covered, b, e
<1>6. ASSUME o \notin B, g.originSell = h.originSell,
             g.originBuy = h.originBuy + Swap[o].aout,
             YieldsUpTo(y) => g.execBuy <= h.execBuy + y
      PROVE  Covered(g, k, S, B \cup {o}, y)
  <2>1. \A x \in B \cup {o} : OriginOut[x] \in Nat /\ EachBringsIn(y)[x] \in Nat
    BY VolumeTypes
  <2>2. SumFunctionOnSet(OriginOut, B \cup {o}) = OriginOut[o] + b
    BY <1>6, <2>1, SumAdd
  <2>3. SumFunctionOnSet(EachBringsIn(y), B \cup {o}) = EachBringsIn(y)[o] + e
    BY <1>6, <2>1, SumAdd
  <2>4. OriginOut[o] = Swap[o].aout /\ EachBringsIn(y)[o] = y
    BY VolumeTypes
  <2> HIDE DEF s, b, e
  <2>5. /\ g.originSell <= Stored(k).originSell + s
        /\ g.originBuy <= Stored(k).originBuy + SumFunctionOnSet(OriginOut, B \cup {o})
    BY <1>1, <1>2, <1>3, <1>4, <1>6, <2>2, <2>4
  <2>6. ASSUME YieldsUpTo(y)
        PROVE  g.execBuy <= Stored(k).execBuy + SumFunctionOnSet(EachBringsIn(y), B \cup {o})
    BY <1>1, <1>2, <1>3, <1>6, <2>3, <2>4, <2>6
  <2> QED
    BY <2>5, <2>6 DEF Covered, s
<1> QED
  BY <1>5, <1>6

\* What a step does to the history: nothing but remove an entry, ...
HistoryStays ==
    /\ UNCHANGED <<inserts, entry>>
    /\ \A k \in Keys : history'[k] = history[k] \/ history'[k] = NoHistory

\* ... count a sell that was given up, ...
HistoryCounts(d) ==
    /\ inserts = <<>> /\ UNCHANGED <<inserts, entry>>
    /\ fate[d.order] = "open" /\ fate'[d.order] = "failed"
    /\ \A k \in Keys :
          \/ history'[k] = history[k]
          \/ /\ k = SellKey(d.order) /\ history[k] # NoHistory
             /\ history'[k] = [history[k] EXCEPT !.originSell = @ + Swap[d.order].ain]

\* ... or take up the trades of an order that was executed.
HistoryAwaits(d, yield) ==
    /\ inserts = <<>> /\ inserts' = TradesOf(d, yield)
    /\ UNCHANGED <<history, entry>>
    /\ fate[d.order] = "open" /\ fate'[d.order] = "done"

HistoryMove ==
    \/ HistoryStays
    \/ \E d \in Details : HistoryCounts(d)
    \/ \E e \in pending, yield \in Yields : HistoryAwaits(e.d, yield)
    \/ ReadEntry
    \/ WriteEntry

\* Giving an order up counts its sell, if its position has an entry.
LEMMA GiveUpCounts ==
    ASSUME CopyInv, NEW d \in Details, NEW resolved \in BOOLEAN, fate[d.order] = "open",
           GiveUp(d, resolved), inserts = <<>>, UNCHANGED <<inserts, entry>>
    PROVE  HistoryCounts(d)
<1> DEFINE s == Swap[d.order]
           h == HistoryOf(s.wallet, s.tin)
<1>1. TypeOK /\ fate \in [Orders -> Fates] /\ d.order \in Orders
  BY DetailsParts DEF CopyInv, TypeInv, TypeOK
<1>2. fate'[d.order] = "failed"
  BY <1>1 DEF GiveUp, End
<1>3. \A k \in Keys :
          \/ history'[k] = history[k]
          \/ /\ k = SellKey(d.order) /\ history[k] # NoHistory
             /\ history'[k] = [history[k] EXCEPT !.originSell = @ + s.ain]
  <2>1. CASE h # NoHistory /\ resolved
    <3>1. SellKey(d.order) \in Keys /\ h = history[SellKey(d.order)]
      BY <1>1, <2>1, HistoryParts DEF SellKey
    <3>2. history' = [history EXCEPT ![SellKey(d.order)].originSell = @ + s.ain]
      BY <2>1 DEF GiveUp, SellKey
    <3>3. history \in [Keys -> Volumes \cup {NoHistory}]
      BY <1>1 DEF TypeOK
    <3> QED
      BY <2>1, <3>1, <3>2, <3>3
  <2>2. CASE ~(h # NoHistory /\ resolved)
    BY <2>2 DEF GiveUp
  <2> QED
    BY <2>1, <2>2
<1> QED
  BY <1>2, <1>3 DEF HistoryCounts

\* Every step is one of these.
LEMMA HistoryStep == ASSUME CopyInv, [Next]_vars PROVE HistoryMove
<1>0. TypeOK /\ OpenInv /\ history \in [Keys -> Volumes \cup {NoHistory}]
  BY DEF CopyInv, TypeInv, TypeOK
<1>1. ASSUME UNCHANGED <<history, inserts, entry>> PROVE HistoryMove
  BY <1>1 DEF HistoryMove, HistoryStays
<1>2. ASSUME NEW k \in tasks, RemoveHistory(k) PROVE HistoryMove
  <2>1. UNCHANGED <<inserts, entry>>
    BY <1>2 DEF RemoveHistory, taskUnchanged
  <2>2. \A q \in Keys : history'[q] = history[q] \/ history'[q] = NoHistory
    BY <1>0, <1>2 DEF RemoveHistory
  <2> QED
    BY <2>1, <2>2 DEF HistoryMove, HistoryStays
<1>3. ASSUME NEW x \in outputs, NEW resolved \in BOOLEAN, FailureOutput(x, resolved)
      PROVE HistoryMove
  <2>1. x.d \in Details /\ fate[x.d.order] = "open"
    BY <1>0, CarriersTyped DEF OpenInv
  <2>2. HistoryCounts(x.d)
    BY <1>3, <2>1, GiveUpCounts DEF FailureOutput, MainIdle
  <2> QED
    BY <2>1, <2>2 DEF HistoryMove
<1>4. ASSUME NEW r \in reports, NEW resolved \in BOOLEAN,
             ConfirmedError(r, resolved) \/ Unconfirmed(r, resolved)
      PROVE HistoryMove
  <2> DEFINE d == EntryOf(r).d
  <2>1. Take(r) /\ Known(r) /\ UNCHANGED <<mainUnchanged, buyDisabled, inserts>>
    BY <1>4 DEF ConfirmedError, Unconfirmed
  <2>2. EntryOf(r) \in pending /\ d \in Details
    BY <2>1, TakeType DEF CopyInv
  <2>3. fate[d.order] = "open"
    BY <1>0, <2>2 DEF OpenInv
  <2>4. GiveUp(d, resolved) \/ UNCHANGED history
    BY <1>4 DEF ConfirmedError, Unconfirmed
  <2>5. inserts = <<>> /\ UNCHANGED <<inserts, entry>>
    BY <2>1 DEF Take, MainIdle, mainUnchanged
  <2> HIDE DEF d
  <2>6. CASE GiveUp(d, resolved)
    <3>1. HistoryCounts(d)
      BY <2>2, <2>3, <2>5, <2>6, GiveUpCounts
    <3> QED
      BY <2>2, <3>1 DEF HistoryMove
  <2>7. CASE UNCHANGED history
    BY <1>1, <2>5, <2>7
  <2> QED
    BY <2>4, <2>6, <2>7
<1>5. ASSUME NEW r \in reports, NEW yield \in Yields, NEW off \in BOOLEAN,
             ConfirmedOk(r, yield, off)
      PROVE HistoryMove
  <2> DEFINE e == EntryOf(r)
  <2>1. Take(r) /\ Known(r)
    BY <1>5 DEF ConfirmedOk
  <2>2. e \in pending /\ e.d.order \in Orders
    BY <1>0, <2>1, TakeType, CarriersTyped DEF CopyInv
  <2>3. fate[e.d.order] = "open" /\ fate \in [Orders -> Fates]
    BY <1>0, <2>2 DEF OpenInv, TypeOK
  <2>4. /\ End(e.d.order, "done") /\ inserts' = TradesOf(e.d, yield)
        /\ inserts = <<>> /\ UNCHANGED <<history, entry>>
    BY <1>5 DEF ConfirmedOk, Take, MainIdle, mainUnchanged
  <2> HIDE DEF e
  <2>5. HistoryAwaits(e.d, yield)
    BY <2>2, <2>3, <2>4 DEF HistoryAwaits, End
  <2> QED
    BY <2>2, <2>5 DEF HistoryMove
<1>6. CASE ReadEntry \/ WriteEntry
  BY <1>6 DEF HistoryMove
<1>7. ASSUME NEW o \in Orders, IgnoreWireTxn(o) \/ CopyWireTxn(o) PROVE HistoryMove
  BY <1>1, <1>7 DEF IgnoreWireTxn, CopyWireTxn
<1>8. ASSUME NEW w \in Wallets, CopyAccounts(w) PROVE HistoryMove
  BY <1>1, <1>8 DEF CopyAccounts
<1>9. ASSUME NEW d \in execQueue, HandleCommand(d) PROVE HistoryMove
  BY <1>1, <1>9 DEF HandleCommand
<1>10. ASSUME NEW k \in tasks,
              InputError(k) \/ SameMint(k) \/ ProcessSell(k) \/ ProcessBuy(k) \/ AttemptErr(k)
       PROVE HistoryMove
  BY <1>1, <1>10 DEF InputError, SameMint, ProcessSell, ProcessBuy, AttemptErr, taskUnchanged
<1>11. ASSUME NEW k \in tasks, NEW p95 \in Tips, AttemptOk(k, p95) PROVE HistoryMove
  BY <1>1, <1>11 DEF AttemptOk, taskUnchanged
<1>12. ASSUME NEW x \in outputs, SendOutput(x) \/ SendError(x) PROVE HistoryMove
  BY <1>1, <1>12 DEF SendOutput, SendError
<1>13. ASSUME NEW r \in reports, UnknownReport(r) PROVE HistoryMove
  BY <1>1, <1>13 DEF UnknownReport, mainUnchanged
<1>14. ASSUME NEW f \in inFlight, NEW response \in Responses, NEW onChain \in BOOLEAN,
              Reported(f, response, onChain)
       PROVE HistoryMove
  BY <1>1, <1>14 DEF Reported
<1>15. CASE UNCHANGED vars
  BY <1>1, <1>15 DEF vars
<1> QED
  BY <1>2, <1>3, <1>4, <1>5, <1>6, <1>7, <1>8, <1>9, <1>10, <1>11, <1>12, <1>13, <1>14, <1>15
     DEF Next, ExecutionStep, MainStep, ServiceStep

\* Only an order that arrives is seen for the first time.
LEMMA SeenStep == ASSUME CopyInv, Move, IsFiniteSet(Seen) PROVE IsFiniteSet(Seen')
<1>0. TypeOK /\ OpenInv /\ fate \in [Orders -> Fates]
  BY DEF CopyInv, TypeInv, TypeOK
<1>1. ASSUME NEW o \in Orders, \A p \in Orders \ {o} : fate[p] = "new" => fate'[p] = "new"
      PROVE IsFiniteSet(Seen')
  <2>1. Seen' \subseteq Seen \cup {o}
    BY <1>1 DEF Seen
  <2> QED
    BY <2>1, FS_AddElement, FS_Subset
<1>2. ASSUME \A p \in Orders : fate[p] = "new" => fate'[p] = "new" PROVE IsFiniteSet(Seen')
  <2>1. Seen' \subseteq Seen
    BY <1>2 DEF Seen
  <2> QED
    BY <2>1, FS_Subset
<1> USE <1>0 DEF OpenInv, wireUnchanged
<1>3. ASSUME NEW o \in Orders, MoveIgnore(o) PROVE IsFiniteSet(Seen')
  BY <1>1, <1>3 DEF MoveIgnore, End
<1>4. ASSUME NEW n \in Details, MoveArrive(n) PROVE IsFiniteSet(Seen')
  BY <1>1, <1>4, EnqueueCases DEF MoveArrive
<1>5. ASSUME NEW k \in tasks, MoveTask(k) PROVE IsFiniteSet(Seen')
  BY <1>1, <1>5, CarriersTyped DEF MoveTask, TaskStep, End
<1>6. ASSUME NEW x \in outputs, MoveSend(x) PROVE IsFiniteSet(Seen')
  BY <1>2, <1>6 DEF MoveSend
<1>7. ASSUME NEW x \in outputs, MoveDrop(x) PROVE IsFiniteSet(Seen')
  BY <1>1, <1>7, CarriersTyped DEF MoveDrop, End
<1>8. ASSUME NEW r \in reports, NEW e \in pending, NEW n \in Details, MoveRetry(r, e, n)
      PROVE IsFiniteSet(Seen')
  BY <1>1, <1>8, EnqueueCases DEF MoveRetry
<1>9. ASSUME NEW r \in reports, NEW e \in pending, MoveEnd(r, e) PROVE IsFiniteSet(Seen')
  BY <1>1, <1>9, CarriersTyped DEF MoveEnd, End
<1>10. CASE UNCHANGED fate
  BY <1>2, <1>10
<1> QED
  BY <1>3, <1>4, <1>5, <1>6, <1>7, <1>8, <1>9, <1>10
     DEF Move, MoveStart, MoveOutput, MoveForget, MoveReport, MoveNothing

\* The trades of an order: at most one sell and one buy, with its amounts.
LEMMA TradesShape ==
    ASSUME NEW d \in Details, Tradable(d), NEW yield \in Yields, NEW q, q = TradesOf(d, yield)
    PROVE  /\ \A i, j \in DOMAIN q : q[i].direction = q[j].direction => i = j
           /\ \A i \in DOMAIN q :
                 /\ q[i].order = d.order
                 /\ q[i].direction = "sell" =>
                       /\ q[i].key = SellKey(d.order) /\ q[i].origin = Swap[d.order].ain
                       /\ q[i].exec = d.amount /\ d.type \in {"sell", "both"}
                 /\ q[i].direction = "buy" =>
                       /\ q[i].key = BuyKey(d.order) /\ q[i].origin = Swap[d.order].aout
                       /\ q[i].exec <= yield
<1> DEFINE s == Swap[d.order]
           dust == DustVolume(MoonbagBps, yield)
           sell == [order |-> d.order, key |-> <<s.wallet, s.tin>>, direction |-> "sell",
                    origin |-> s.ain, exec |-> d.amount, dust |-> 0]
           buy == [order |-> d.order, key |-> <<s.wallet, s.tout>>, direction |-> "buy",
                   origin |-> s.aout, exec |-> yield - dust, dust |-> dust]
           sells == IF d.type \in {"sell", "both"} THEN <<sell>> ELSE <<>>
           buys == IF d.type \in {"buy", "both"} THEN <<buy>> ELSE <<>>
<1>1. yield \in Nat /\ MoonbagBps \in Nat /\ MoonbagBps <= 10000
  BY ConstantsAssumption
<1>2. yield - dust <= yield
  <2>1. dust \in Nat
    BY <1>1, DustBound
  <2> HIDE DEF dust
  <2> QED
    BY <1>1, <2>1
<1>3. /\ sell.order = d.order /\ sell.direction = "sell" /\ sell.key = SellKey(d.order)
      /\ sell.origin = s.ain /\ sell.exec = d.amount
  BY DEF SellKey
<1>4. /\ buy.order = d.order /\ buy.direction = "buy" /\ buy.key = BuyKey(d.order)
      /\ buy.origin = s.aout /\ buy.exec <= yield
  BY <1>2 DEF BuyKey
<1>5. q = sells \o buys
  BY DEF TradesOf
<1> HIDE DEF sell, buy
<1>6. CASE d.type \in {"sell", "both"} /\ d.type \in {"buy", "both"}
  <2>1. Len(q) = 2 /\ DOMAIN q = 1 .. 2 /\ q[1] = sell /\ q[2] = buy
    BY <1>5, <1>6
  <2> QED
    BY <1>3, <1>4, <1>6, <2>1
<1>7. CASE d.type \in {"sell", "both"} /\ d.type \notin {"buy", "both"}
  <2>1. DOMAIN q = 1 .. 1 /\ q[1] = sell
    BY <1>5, <1>7
  <2> QED
    BY <1>3, <1>7, <2>1
<1>8. CASE d.type \notin {"sell", "both"} /\ d.type \in {"buy", "both"}
  <2>1. DOMAIN q = 1 .. 1 /\ q[1] = buy
    BY <1>5, <1>8
  <2> QED
    BY <1>4, <1>8, <2>1
<1>9. CASE d.type \notin {"sell", "both"} /\ d.type \notin {"buy", "both"}
  <2>1. DOMAIN q = {}
    BY <1>5, <1>9
  <2> QED
    BY <2>1
<1> QED
  BY <1>6, <1>7, <1>8, <1>9

\* The trades that are left when the first has been entered.
LEMMA TailFacts ==
    ASSUME TypeOK, InsertInv, inserts # <<>>, NEW rest, rest = Tail(inserts)
    PROVE  /\ 1 \in DOMAIN inserts /\ Head(inserts) = inserts[1] /\ Head(inserts) \in Trade
           /\ \A i \in DOMAIN rest : /\ i + 1 \in DOMAIN inserts /\ rest[i] = inserts[i + 1]
                                     /\ rest[i].direction # Head(inserts).direction
           /\ \A i, j \in DOMAIN rest : rest[i].direction = rest[j].direction => i = j
<1>1. inserts \in Seq(Trade)
  BY DEF TypeOK
<1>2. 1 \in DOMAIN inserts /\ Head(inserts) = inserts[1] /\ Head(inserts) \in Trade
  BY <1>1
<1>3. \A i \in DOMAIN rest : i \in Nat /\ i >= 1 /\ i + 1 \in DOMAIN inserts /\ rest[i] = inserts[i + 1]
  BY <1>1
<1>4. \A i, j \in DOMAIN inserts : inserts[i].direction = inserts[j].direction => i = j
  BY DEF InsertInv
<1>5. \A i \in DOMAIN rest : rest[i].direction # Head(inserts).direction
  BY <1>2, <1>3, <1>4
<1>6. \A i, j \in DOMAIN rest : rest[i].direction = rest[j].direction => i = j
  BY <1>3, <1>4
<1> QED
  BY <1>2, <1>3, <1>5, <1>6

\* Orders that count go on counting, and there are finitely many of them.
LEMMA SalesGrow ==
    ASSUME CopyInv, Move, IsFiniteSet(Seen), NEW k \in Keys
    PROVE  /\ SalesOf(k) \subseteq SalesOf(k)' /\ BuysOf(k) \subseteq BuysOf(k)'
           /\ SalesOf(k)' \subseteq Orders /\ BuysOf(k)' \subseteq Orders
           /\ IsFiniteSet(SalesOf(k)) /\ IsFiniteSet(BuysOf(k))
           /\ IsFiniteSet(SalesOf(k)') /\ IsFiniteSet(BuysOf(k)')
<1>1. \A o \in Orders : fate[o] \in {"done", "failed"} => fate'[o] = fate[o]
  BY EndedStays DEF Ended, Fates
<1>2. IsFiniteSet(Seen')
  BY SeenStep
<1>3. /\ SalesOf(k) \subseteq Seen /\ BuysOf(k) \subseteq Seen
      /\ SalesOf(k)' \subseteq Seen' /\ BuysOf(k)' \subseteq Seen'
  BY DEF SalesOf, BuysOf, Seen
<1>4. /\ IsFiniteSet(SalesOf(k)) /\ IsFiniteSet(BuysOf(k))
      /\ IsFiniteSet(SalesOf(k)') /\ IsFiniteSet(BuysOf(k)')
  BY <1>2, <1>3, FS_Subset
<1> QED
  BY <1>1, <1>4 DEF SalesOf, BuysOf

\* The trades to enter keep their shape.
LEMMA InsertStep == ASSUME CopyInv, Move, HistoryMove, InsertInv PROVE InsertInv'
<1>0. TypeOK
  BY DEF CopyInv, TypeInv
<1>1. \A o \in Orders : fate[o] = "done" => fate'[o] = "done"
  BY EndedStays DEF Ended, Fates
<1>2. \A i \in DOMAIN inserts : inserts[i].order \in Orders
  <2>1. inserts \in Seq(Trade)
    BY <1>0 DEF TypeOK
  <2>2. \A i \in DOMAIN inserts : inserts[i] \in Trade
    BY <2>1
  <2> QED
    BY <2>2 DEF Trade
<1>3. CASE UNCHANGED inserts /\ (inserts = <<>> => entry' = NoHistory)
  BY <1>1, <1>2, <1>3 DEF InsertInv
<1>4. CASE HistoryStays \/ \E d \in Details : HistoryCounts(d)
  <2>1. UNCHANGED <<inserts, entry>>
    BY <1>4, Zenon DEF HistoryStays, HistoryCounts
  <2> QED
    BY <1>3, <2>1 DEF InsertInv
<1>5. CASE ReadEntry
  BY <1>3, <1>5 DEF ReadEntry
<1>6. ASSUME NEW e \in pending, NEW yield \in Yields, HistoryAwaits(e.d, yield) PROVE InsertInv'
  <2>1. e.d \in Details /\ Tradable(e.d)
    BY CarriersTyped DEF CopyInv, TypeInv, TradeInv
  <2>2. inserts' = TradesOf(e.d, yield) /\ entry' = NoHistory /\ fate'[e.d.order] = "done"
    BY <1>6 DEF HistoryAwaits, InsertInv
  <2>3. /\ \A i, j \in DOMAIN inserts' : inserts'[i].direction = inserts'[j].direction => i = j
        /\ \A i \in DOMAIN inserts' :
                 /\ inserts'[i].order = e.d.order
                 /\ inserts'[i].direction = "sell" =>
                       /\ inserts'[i].key = SellKey(e.d.order)
                       /\ inserts'[i].origin = Swap[e.d.order].ain
                 /\ inserts'[i].direction = "buy" =>
                       /\ inserts'[i].key = BuyKey(e.d.order)
                       /\ inserts'[i].origin = Swap[e.d.order].aout
                       /\ inserts'[i].exec <= yield
    BY <2>1, <2>2, TradesShape
  <2> QED
    BY <2>2, <2>3 DEF InsertInv
<1>7. CASE WriteEntry
  <2>1. inserts # <<>> /\ inserts' = Tail(inserts) /\ entry' = NoHistory
    BY <1>7 DEF WriteEntry
  <2>2. /\ \A i \in DOMAIN inserts' : i + 1 \in DOMAIN inserts /\ inserts'[i] = inserts[i + 1]
        /\ \A i, j \in DOMAIN inserts' : inserts'[i].direction = inserts'[j].direction => i = j
    BY <1>0, <2>1, TailFacts
  <2> QED
    BY <1>1, <1>2, <2>1, <2>2 DEF InsertInv
<1> QED
  BY <1>4, <1>5, <1>6, <1>7 DEF HistoryMove

\* The cover of volumes that do not change is kept by every step that takes up no
\* trade of an order which counts already.
LEMMA CoverStays ==
    ASSUME CopyInv, Move, IsFiniteSet(Seen), NEW y \in Nat, NEW k \in Keys, NEW h \in Volumes,
           Covered(h, k, SalesOf(k) \ Entering("sell"), BuysOf(k) \ Entering("buy"), y),
           \A o \in Entering("sell")' : o \in Entering("sell") \/ o \notin SalesOf(k),
           \A o \in Entering("buy")' : o \in Entering("buy") \/ o \notin BuysOf(k)
    PROVE  Covered(h, k, SalesOf(k)' \ Entering("sell")', BuysOf(k)' \ Entering("buy")', y)
<1> DEFINE S == SalesOf(k) \ Entering("sell")
           T == SalesOf(k)' \ Entering("sell")'
           B == BuysOf(k) \ Entering("buy")
           C == BuysOf(k)' \ Entering("buy")'
<1>1. S \in SUBSET T /\ B \in SUBSET C /\ T \in SUBSET Orders /\ C \in SUBSET Orders
  BY SalesGrow
<1>2. IsFiniteSet(SalesOf(k)') /\ IsFiniteSet(BuysOf(k)')
  BY SalesGrow
<1>3. IsFiniteSet(T) /\ IsFiniteSet(C)
  BY <1>2, FS_Subset
<1>4. Covered(h, k, S, B, y)
  OBVIOUS
<1> HIDE DEF S, T, B, C
<1>5. Covered(h, k, T, C, y)
  BY <1>1, <1>3, <1>4, CoveredByMore
<1> QED
  BY <1>5 DEF T, C

\* Volumes that are present, in the history or in the copy, are volumes.
LEMMA PresentVolumes ==
    ASSUME TypeOK
    PROVE  /\ \A k \in Keys : history[k] # NoHistory => history[k] \in Volumes
           /\ entry # NoHistory => entry \in Volumes
  BY DEF TypeOK

\* Entering the first trade covers it.
LEMMA WriteCovers ==
    ASSUME NEW y \in Nat, VolumeInv(y), Move, WriteEntry
    PROVE  AccountInv(y)'
<1>1. TypeOK /\ CopyInv /\ InsertInv /\ IsFiniteSet(Seen) /\ inserts # <<>> /\ entry # NoHistory
  BY DEF VolumeInv, CopyInv, TypeInv, WriteEntry
<1>t. PICK t \in Trade : t = Head(inserts)
  BY <1>1, TailFacts
<1>q. PICK q \in Keys : q = t.key
  BY DEF Trade
<1>5. /\ t.order \in Orders /\ t.direction \in {"buy", "sell"}
      /\ t.origin \in Nat /\ t.exec \in Nat
  BY DEF Trade
<1>g. PICK g \in Volumes : g = AddTrade(entry, t.direction, t.origin, t.exec)
  BY <1>1, <1>5, AddTradeFacts, PresentVolumes
<1> DEFINE S == SalesOf(q) \ Entering("sell")
           T == SalesOf(q)' \ Entering("sell")'
           B == BuysOf(q) \ Entering("buy")
           C == BuysOf(q)' \ Entering("buy")'
<1>2. /\ inserts' = Tail(inserts) /\ entry' = NoHistory
      /\ history' = [history EXCEPT ![q] = g]
  BY <1>t, <1>q, <1>g DEF WriteEntry
<1>3. /\ 1 \in DOMAIN inserts /\ t = inserts[1]
      /\ \A i \in DOMAIN inserts' : /\ i + 1 \in DOMAIN inserts
                                    /\ inserts'[i] = inserts[i + 1]
                                    /\ inserts'[i].direction # t.direction
  BY <1>1, <1>2, <1>t, TailFacts
<1>4. /\ \A o \in Entering("sell")' : o \in Entering("sell") /\ t.direction # "sell"
      /\ \A o \in Entering("buy")' : o \in Entering("buy") /\ t.direction # "buy"
  BY <1>3 DEF Entering
<1>6. /\ fate[t.order] = "done"
      /\ t.direction = "sell" => q = SellKey(t.order) /\ t.origin = Swap[t.order].ain
      /\ t.direction = "buy" => /\ q = BuyKey(t.order) /\ t.origin = Swap[t.order].aout
                                /\ \E a \in Yields : t.exec <= a
  BY <1>1, <1>3, <1>q DEF InsertInv
<1>7. entry \in Volumes /\ Covered(entry, q, S, B, y)
  BY <1>1, <1>t, <1>q, PresentVolumes DEF VolumeInv, AccountInv
<1>8. /\ t.direction = "buy" => /\ g.originBuy = entry.originBuy + t.origin
                                /\ g.execBuy = entry.execBuy + t.exec
                                /\ g.originSell = entry.originSell
      /\ t.direction # "buy" => /\ g.originSell = entry.originSell + t.origin
                                /\ g.originBuy = entry.originBuy
                                /\ g.execBuy = entry.execBuy
  BY <1>5, <1>7, <1>g, AddTradeFacts
<1>9. /\ S \in SUBSET T /\ B \in SUBSET C /\ T \in SUBSET Orders /\ C \in SUBSET Orders
      /\ IsFiniteSet(T) /\ IsFiniteSet(C) /\ IsFiniteSet(S) /\ IsFiniteSet(B)
  <2>1. /\ SalesOf(q) \subseteq SalesOf(q)' /\ BuysOf(q) \subseteq BuysOf(q)'
        /\ SalesOf(q)' \subseteq Orders /\ BuysOf(q)' \subseteq Orders
        /\ IsFiniteSet(SalesOf(q)') /\ IsFiniteSet(BuysOf(q)')
    BY <1>1, <1>5, SalesGrow
  <2>2. S \in SUBSET T /\ B \in SUBSET C /\ T \in SUBSET Orders /\ C \in SUBSET Orders
    BY <1>4, <2>1
  <2>3. IsFiniteSet(T) /\ IsFiniteSet(C)
    BY <2>1, FS_Subset
  <2> QED
    BY <2>2, <2>3, FS_Subset
<1>10. ASSUME NEW k \in Keys, k # q, history'[k] # NoHistory
       PROVE  Covered(history'[k], k, SalesOf(k)' \ Entering("sell")', BuysOf(k)' \ Entering("buy")', y)
  <2>1. history'[k] = history[k]
    BY <1>1, <1>2, <1>10 DEF TypeOK
  <2>2. /\ history[k] \in Volumes
        /\ Covered(history[k], k, SalesOf(k) \ Entering("sell"), BuysOf(k) \ Entering("buy"), y)
    BY <1>1, <1>10, <2>1, PresentVolumes DEF VolumeInv, AccountInv
  <2> QED
    BY <1>1, <1>4, <2>1, <2>2, CoverStays
<1>11. history'[q] = g
  BY <1>1, <1>2, <1>5 DEF TypeOK
<1>12. ASSUME t.direction = "sell" PROVE Covered(g, q, T, C, y)
  <2>1. t.order \in T /\ t.order \notin S
    <3>1. t.order \in SalesOf(q) /\ t.order \in Entering("sell")
      BY <1>3, <1>5, <1>6, <1>12 DEF SalesOf, Entering
    <3>2. t.order \in SalesOf(q)'
      BY <1>1, <1>5, <3>1, SalesGrow
    <3> QED
      BY <1>4, <1>12, <3>1, <3>2
  <2> HIDE DEF S, T, B, C
  <2>2. Covered(g, q, S \cup {t.order}, B, y)
    <3>1. S \in SUBSET Orders /\ B \in SUBSET Orders
      BY <1>9
    <3>2. /\ g.originSell = entry.originSell + Swap[t.order].ain
          /\ g.originBuy = entry.originBuy /\ g.execBuy = entry.execBuy
      BY <1>6, <1>8, <1>12
    <3> QED
      BY <1>5, <1>7, <1>8, <1>9, <2>1, <3>1, <3>2, CoveredByOneMore
  <2>3. S \cup {t.order} \in SUBSET T
    BY <1>9, <2>1
  <2> QED
    BY <1>5, <1>8, <1>9, <2>2, <2>3, CoveredByMore
<1>13. ASSUME t.direction = "buy" PROVE Covered(g, q, T, C, y)
  <2>1. t.order \in C /\ t.order \notin B
    <3>1. t.order \in BuysOf(q) /\ t.order \in Entering("buy")
      BY <1>3, <1>5, <1>6, <1>13 DEF BuysOf, Entering
    <3>2. t.order \in BuysOf(q)'
      BY <1>1, <1>5, <3>1, SalesGrow
    <3> QED
      BY <1>4, <1>13, <3>1, <3>2
  <2>2. YieldsUpTo(y) => t.exec <= y
    <3> SUFFICES ASSUME YieldsUpTo(y) PROVE t.exec <= y
      OBVIOUS
    <3>1. PICK a \in Yields : t.exec <= a
      BY <1>6, <1>13
    <3>2. a \in Nat /\ a <= y
      BY ConstantsAssumption DEF YieldsUpTo
    <3> QED
      BY <1>5, <3>1, <3>2
  <2> HIDE DEF S, T, B, C
  <2>3. Covered(g, q, S, B \cup {t.order}, y)
    <3>1. S \in SUBSET Orders /\ B \in SUBSET Orders
      BY <1>9
    <3>2. g.originSell = entry.originSell /\ g.originBuy = entry.originBuy + Swap[t.order].aout
      BY <1>6, <1>8, <1>13
    <3>3. YieldsUpTo(y) => g.execBuy <= entry.execBuy + y
      <4>1. g.execBuy = entry.execBuy + t.exec /\ entry.execBuy \in Nat
        BY <1>7, <1>8, <1>13 DEF Volumes
      <4> QED
        BY <1>5, <2>2, <4>1
    <3> QED
      BY <1>5, <1>7, <1>8, <1>9, <2>1, <3>1, <3>2, <3>3, CoveredByOneMore
  <2>4. B \cup {t.order} \in SUBSET C
    BY <1>9, <2>1
  <2> QED
    BY <1>5, <1>8, <1>9, <2>3, <2>4, CoveredByMore
<1>14. Covered(g, q, T, C, y)
  BY <1>5, <1>12, <1>13
<1> QED
  BY <1>2, <1>10, <1>11, <1>14 DEF AccountInv

\* Every step keeps the volumes covered.
LEMMA AccountStep ==
    ASSUME NEW y \in Nat, VolumeInv(y), Move, HistoryMove
    PROVE  AccountInv(y)'
<1>1. TypeOK /\ CopyInv /\ InsertInv /\ IsFiniteSet(Seen) /\ AccountInv(y)
  BY DEF VolumeInv, CopyInv, TypeInv
<1>2. /\ \A k \in Keys : history[k] # NoHistory =>
            /\ history[k] \in Volumes
            /\ Covered(history[k], k, SalesOf(k) \ Entering("sell"), BuysOf(k) \ Entering("buy"), y)
      /\ entry # NoHistory => entry \in Volumes
      /\ \A k \in Keys : entry # NoHistory /\ Head(inserts).key = k =>
            Covered(entry, k, SalesOf(k) \ Entering("sell"), BuysOf(k) \ Entering("buy"), y)
  BY <1>1, PresentVolumes DEF AccountInv
<1>3. CASE HistoryStays
  <2>1. Entering("sell")' = Entering("sell") /\ Entering("buy")' = Entering("buy")
    BY <1>3 DEF HistoryStays, Entering
  <2>2. ASSUME NEW k \in Keys, history'[k] # NoHistory
        PROVE  Covered(history'[k], k, SalesOf(k)' \ Entering("sell")', BuysOf(k)' \ Entering("buy")', y)
    <3>1. history'[k] = history[k]
      BY <1>3, <2>2 DEF HistoryStays
    <3> QED
      BY <1>1, <1>2, <2>1, <2>2, <3>1, CoverStays
  <2>3. ASSUME NEW k \in Keys, entry' # NoHistory, Head(inserts').key = k
        PROVE  Covered(entry', k, SalesOf(k)' \ Entering("sell")', BuysOf(k)' \ Entering("buy")', y)
    <3>1. entry' = entry /\ inserts' = inserts
      BY <1>3 DEF HistoryStays
    <3> QED
      BY <1>1, <1>2, <2>1, <2>3, <3>1, CoverStays
  <2> QED
    BY <2>2, <2>3 DEF AccountInv
<1>4. ASSUME NEW d \in Details, HistoryCounts(d) PROVE AccountInv(y)'
  <2>1. /\ inserts = <<>> /\ inserts' = <<>> /\ entry' = NoHistory
        /\ fate[d.order] = "open" /\ fate'[d.order] = "failed" /\ d.order \in Orders
    <3>1. inserts = <<>> /\ UNCHANGED <<inserts, entry>>
      BY <1>4, Zenon DEF HistoryCounts
    <3>2. fate[d.order] = "open" /\ fate'[d.order] = "failed"
      BY <1>4, Zenon DEF HistoryCounts
    <3> QED
      BY <1>1, <3>1, <3>2, DetailsParts DEF InsertInv
  <2>2. /\ Entering("sell") = {} /\ Entering("buy") = {}
        /\ Entering("sell")' = {} /\ Entering("buy")' = {}
    BY <2>1 DEF Entering
  <2>3. ASSUME NEW k \in Keys, history'[k] # NoHistory
        PROVE  Covered(history'[k], k, SalesOf(k)' \ Entering("sell")', BuysOf(k)' \ Entering("buy")', y)
    <3>1. CASE history'[k] = history[k]
      BY <1>1, <1>2, <2>2, <2>3, <3>1, CoverStays
    <3>2. CASE history'[k] # history[k]
      <4> DEFINE h == history[k]
                 g == [h EXCEPT !.originSell = @ + Swap[d.order].ain]
      <4>1. k = SellKey(d.order) /\ h # NoHistory /\ history'[k] = g
        BY <1>4, <3>2, Zenon DEF HistoryCounts
      <4>2. h \in Volumes /\ Covered(h, k, SalesOf(k), BuysOf(k), y) /\ Swap[d.order].ain \in Nat
        <5>1. SalesOf(k) \ {} = SalesOf(k) /\ BuysOf(k) \ {} = BuysOf(k)
          OBVIOUS
        <5>2. /\ h \in Volumes
              /\ Covered(h, k, SalesOf(k) \ Entering("sell"), BuysOf(k) \ Entering("buy"), y)
          BY <1>2, <4>1
        <5>3. Swap[d.order].ain \in Nat
          BY DetailsParts
        <5> HIDE DEF h
        <5> QED
          BY <2>2, <5>1, <5>2, <5>3
      <4>3. /\ g \in Volumes /\ g.originSell = h.originSell + Swap[d.order].ain
            /\ g.originBuy = h.originBuy /\ g.execBuy = h.execBuy
        <5> HIDE DEF h
        <5> QED
          BY <4>2 DEF Volumes
      <4>4. /\ SalesOf(k) \subseteq SalesOf(k)' /\ BuysOf(k) \subseteq BuysOf(k)'
            /\ SalesOf(k)' \subseteq Orders /\ BuysOf(k)' \subseteq Orders
            /\ IsFiniteSet(SalesOf(k)) /\ IsFiniteSet(BuysOf(k))
            /\ IsFiniteSet(SalesOf(k)') /\ IsFiniteSet(BuysOf(k)')
        BY <1>1, SalesGrow
      <4>5. d.order \notin SalesOf(k) /\ d.order \in SalesOf(k)'
        BY <2>1, <4>1 DEF SalesOf
      <4> HIDE DEF g, h
      <4>6. Covered(g, k, SalesOf(k) \cup {d.order}, BuysOf(k), y)
        <5>1. SalesOf(k) \in SUBSET Orders /\ BuysOf(k) \in SUBSET Orders
          BY <4>4
        <5> QED
          BY <2>1, <4>2, <4>3, <4>4, <4>5, <5>1, CoveredByOneMore
      <4>7. SalesOf(k) \cup {d.order} \in SUBSET (SalesOf(k)')
        BY <4>4, <4>5
      <4>8. Covered(g, k, SalesOf(k)', BuysOf(k)', y)
        BY <4>3, <4>4, <4>6, <4>7, CoveredByMore
      <4>9. SalesOf(k)' \ {} = SalesOf(k)' /\ BuysOf(k)' \ {} = BuysOf(k)'
        OBVIOUS
      <4> QED
        BY <2>2, <4>1, <4>8, <4>9
    <3> QED
      BY <3>1, <3>2
  <2> QED
    BY <2>1, <2>3 DEF AccountInv
<1>5. ASSUME NEW e \in pending, NEW yield \in Yields, HistoryAwaits(e.d, yield)
      PROVE AccountInv(y)'
  <2>1. /\ inserts = <<>> /\ inserts' = TradesOf(e.d, yield) /\ UNCHANGED <<history, entry>>
        /\ fate[e.d.order] = "open"
    BY <1>5 DEF HistoryAwaits
  <2>2. e.d \in Details /\ Tradable(e.d)
    BY <1>1, CarriersTyped DEF CopyInv, TypeInv, TradeInv
  <2>3. \A i \in DOMAIN inserts' : inserts'[i].order = e.d.order
    BY <2>1, <2>2, TradesShape
  <2>4. /\ \A o \in Entering("sell")' : o = e.d.order
        /\ \A o \in Entering("buy")' : o = e.d.order
    BY <2>3 DEF Entering
  <2>5. entry' = NoHistory
    BY <1>1, <2>1 DEF InsertInv
  <2>6. ASSUME NEW k \in Keys, history'[k] # NoHistory
        PROVE  Covered(history'[k], k, SalesOf(k)' \ Entering("sell")', BuysOf(k)' \ Entering("buy")', y)
    <3>1. e.d.order \notin SalesOf(k) /\ e.d.order \notin BuysOf(k)
      BY <2>1 DEF SalesOf, BuysOf
    <3>2. history'[k] = history[k]
      BY <2>1
    <3> QED
      BY <1>1, <1>2, <2>4, <2>6, <3>1, <3>2, CoverStays
  <2> QED
    BY <2>5, <2>6 DEF AccountInv
<1>6. CASE ReadEntry
  <2>1. UNCHANGED <<history, inserts>> /\ inserts # <<>>
        /\ entry' = IF history[Head(inserts).key] = NoHistory
                    THEN EmptyVolumes ELSE history[Head(inserts).key]
    BY <1>6 DEF ReadEntry
  <2>2. Entering("sell")' = Entering("sell") /\ Entering("buy")' = Entering("buy")
    BY <2>1 DEF Entering
  <2>3. ASSUME NEW k \in Keys, history'[k] # NoHistory
        PROVE  Covered(history'[k], k, SalesOf(k)' \ Entering("sell")', BuysOf(k)' \ Entering("buy")', y)
    BY <1>1, <1>2, <2>1, <2>2, <2>3, CoverStays
  <2>4. ASSUME NEW k \in Keys, entry' # NoHistory, Head(inserts').key = k
        PROVE  Covered(entry', k, SalesOf(k)' \ Entering("sell")', BuysOf(k)' \ Entering("buy")', y)
    <3>1. CASE history[k] # NoHistory
      BY <2>1, <2>3, <2>4, <3>1
    <3>2. CASE history[k] = NoHistory
      <4> DEFINE T == SalesOf(k)' \ Entering("sell")'
                 C == BuysOf(k)' \ Entering("buy")'
      <4>1. entry' = EmptyVolumes
        BY <2>1, <2>4, <3>2
      <4>2. T \in SUBSET Orders /\ C \in SUBSET Orders /\ IsFiniteSet(T) /\ IsFiniteSet(C)
        BY <1>1, SalesGrow, FS_Subset
      <4> HIDE DEF T, C
      <4>3. /\ SumFunctionOnSet(OriginIn, T) \in Nat /\ SumFunctionOnSet(OriginOut, C) \in Nat
            /\ SumFunctionOnSet(EachBringsIn(y), C) \in Nat
        BY <4>2, OrderSums
      <4>4. /\ Stored(k).originSell \in Nat /\ Stored(k).originBuy \in Nat
            /\ Stored(k).execBuy \in Nat
        BY VolumeTypes DEF Volumes
      <4>5. Covered(EmptyVolumes, k, T, C, y)
        BY <4>3, <4>4 DEF Covered, EmptyVolumes
      <4> QED
        BY <4>1, <4>5 DEF T, C
    <3> QED
      BY <3>1, <3>2
  <2> QED
    BY <2>3, <2>4 DEF AccountInv
<1>7. CASE WriteEntry
  BY <1>7, WriteCovers
<1> QED
  BY <1>3, <1>4, <1>5, <1>6, <1>7 DEF HistoryMove

\* The invariant of the volumes holds at the start: they are the stored ones.
LEMMA InitVolumeInv == ASSUME NEW y \in Nat PROVE Init => VolumeInv(y)
<1> SUFFICES ASSUME Init PROVE VolumeInv(y)
  OBVIOUS
<1>1. CopyInv
  BY InitCopyInv
<1>2. Seen = {} /\ \A k \in Keys : SalesOf(k) = {} /\ BuysOf(k) = {}
  BY DEF Init, Seen, SalesOf, BuysOf
<1>3. inserts = <<>> /\ entry = NoHistory /\ history = Bootstrap
  BY DEF Init
<1>4. InsertInv
  BY <1>3 DEF InsertInv
<1>5. ASSUME NEW k \in Keys, history[k] # NoHistory
      PROVE  Covered(history[k], k, SalesOf(k) \ Entering("sell"), BuysOf(k) \ Entering("buy"), y)
  <2>1. SalesOf(k) \ Entering("sell") = {} /\ BuysOf(k) \ Entering("buy") = {}
    BY <1>2
  <2>2. /\ SumFunctionOnSet(OriginIn, {}) = 0 /\ SumFunctionOnSet(OriginOut, {}) = 0
        /\ SumFunctionOnSet(EachBringsIn(y), {}) = 0
    BY SumEmpty
  <2>3. Stored(k) = history[k]
    BY <1>3, <1>5 DEF Stored
  <2>4. /\ Stored(k).originSell \in Nat /\ Stored(k).originBuy \in Nat
        /\ Stored(k).execBuy \in Nat
    BY VolumeTypes DEF Volumes
  <2> QED
    BY <2>1, <2>2, <2>3, <2>4 DEF Covered
<1>6. AccountInv(y)
  BY <1>3, <1>5 DEF AccountInv
<1> QED
  BY <1>1, <1>2, <1>4, <1>6, FS_EmptySet DEF VolumeInv

\* Every step keeps it.
LEMMA VolumeStep ==
    ASSUME NEW y \in Nat PROVE VolumeInv(y) /\ [Next]_vars /\ CopyInv' => VolumeInv(y)'
<1> SUFFICES ASSUME VolumeInv(y), [Next]_vars, CopyInv' PROVE VolumeInv(y)'
  OBVIOUS
<1>1. CopyInv /\ TypeInv /\ InsertInv /\ IsFiniteSet(Seen)
  BY DEF VolumeInv, CopyInv
<1>2. Move /\ HistoryMove
  BY <1>1, MoveStep, HistoryStep
<1>3. IsFiniteSet(Seen)'
  BY <1>1, <1>2, SeenStep
<1> QED
  BY <1>1, <1>2, <1>3, InsertStep, AccountStep DEF VolumeInv

\* What the history says of an origin wallet comes from the storage and from
\* orders that ended, each counted once: for every number of orders of a position
\* under way at once, retries, orders given up, and entries that execution tasks
\* remove while insert_trade_inner holds a copy of them.
THEOREM EndedOrdersAreCounted == Spec => []VolumesAccounted
<1>1. VolumeInv(0) => VolumesAccounted
  <2> SUFFICES ASSUME VolumeInv(0), NEW k \in Keys, history[k] # NoHistory
               PROVE  /\ history[k].originSell
                           <= Stored(k).originSell + SumFunctionOnSet(OriginIn, SalesOf(k))
                      /\ history[k].originBuy
                           <= Stored(k).originBuy + SumFunctionOnSet(OriginOut, BuysOf(k))
    BY DEF VolumesAccounted
  <2> DEFINE S == SalesOf(k) \ Entering("sell")
             B == BuysOf(k) \ Entering("buy")
  <2>1. history[k] \in Volumes /\ Covered(history[k], k, S, B, 0)
    BY PresentVolumes DEF VolumeInv, AccountInv, CopyInv, TypeInv
  <2>2. SalesOf(k) \in SUBSET Seen /\ BuysOf(k) \in SUBSET Seen
        /\ SalesOf(k) \in SUBSET Orders /\ BuysOf(k) \in SUBSET Orders
    BY DEF SalesOf, BuysOf, Seen
  <2>3. IsFiniteSet(SalesOf(k)) /\ IsFiniteSet(BuysOf(k))
    BY <2>2, FS_Subset DEF VolumeInv
  <2>4. S \in SUBSET SalesOf(k) /\ B \in SUBSET BuysOf(k)
    OBVIOUS
  <2> HIDE DEF S, B
  <2>5. Covered(history[k], k, SalesOf(k), BuysOf(k), 0)
    BY <2>1, <2>2, <2>3, <2>4, CoveredByMore
  <2> QED
    BY <2>5 DEF Covered
<1>2. Init => VolumeInv(0)
  BY InitVolumeInv
<1>3. VolumeInv(0) /\ [Next]_vars /\ CopyInv' => VolumeInv(0)'
  BY VolumeStep
<1> QED
  BY <1>1, <1>2, <1>3, CopyInvHolds, PTL DEF Spec

\* The details of all orders under way.
Carried == execQueue \cup {k.d : k \in tasks} \cup {x.d : x \in outputs} \cup {e.d : e \in pending}

SameInput(n, d) == n.order = d.order /\ n.type = d.type /\ n.amount = d.amount

\* Details sell nothing, or have the input of details that were there before, or
\* sell at most what the entry of their position says we bought.
InputFrom(n) ==
    \/ n.type \in {"none", "buy"}
    \/ \E d \in Carried : SameInput(n, d)
    \/ /\ SellKey(n.order) \in Keys /\ history[SellKey(n.order)] # NoHistory
       /\ n.amount <= history[SellKey(n.order)].execBuy

\* What Proceed leaves in the tasks.
LEMMA ProceedInput ==
    ASSUME NEW k \in tasks, k \in Task, NEW type, NEW amount, NEW pc, Proceed(k, type, amount, pc),
           NEW a \in tasks', a \notin tasks
    PROVE  a.d.order = k.d.order /\ a.d.type = type /\ a.d.amount = amount
<1> DEFINE d == [k.d EXCEPT !.type = type, !.amount = amount]
           n == [k EXCEPT !.pc = pc, !.d = d]
<1>1. a = n
  BY DEF Proceed
<1>2. d.order = k.d.order /\ d.type = type /\ d.amount = amount
  BY DEF Task, Details
<1>3. n.d = d
  <2> HIDE DEF d
  <2> QED
    BY DEF Task
<1> QED
  BY <1>1, <1>2, <1>3

\* No step makes an input up.
LEMMA InputStepFrom ==
    ASSUME CopyInv, [Next]_vars, NEW n \in Carried'
    PROVE  InputFrom(n)
<1>0. TypeOK /\ TypeInv
  BY DEF CopyInv, TypeInv
<1>1. ASSUME n \in Carried PROVE InputFrom(n)
  BY <1>1 DEF InputFrom, SameInput
<1>2. ASSUME /\ execQueue' \subseteq execQueue /\ tasks' \subseteq tasks
             /\ outputs' \subseteq outputs /\ pending' \subseteq pending
      PROVE InputFrom(n)
  BY <1>1, <1>2 DEF Carried
<1>3. ASSUME NEW m \in Details, Enqueue(m), tasks' \subseteq tasks, outputs' \subseteq outputs,
             pending' \subseteq pending, InputFrom(m)
      PROVE InputFrom(n)
  <2>1. execQueue' \subseteq execQueue \cup {m}
    BY <1>3 DEF Enqueue
  <2>2. n \in Carried \/ n = m
    BY <1>3, <2>1 DEF Carried
  <2> QED
    BY <1>1, <1>3, <2>2
<1>4. ASSUME NEW o \in Orders, IgnoreWireTxn(o) PROVE InputFrom(n)
  BY <1>2, <1>4 DEF IgnoreWireTxn
<1>5. ASSUME NEW o \in Orders, CopyWireTxn(o) PROVE InputFrom(n)
  <2>1. NewDetails(o) \in Details /\ InputFrom(NewDetails(o))
    BY NewType DEF NewDetails, InputFrom
  <2> QED
    BY <1>3, <1>5, <2>1 DEF CopyWireTxn
<1>6. ASSUME NEW w \in Wallets, CopyAccounts(w) PROVE InputFrom(n)
  BY <1>2, <1>6 DEF CopyAccounts
<1>7. ASSUME NEW d \in execQueue, HandleCommand(d) PROVE InputFrom(n)
  <2>1. /\ execQueue' \subseteq execQueue /\ outputs' = outputs /\ pending' = pending
        /\ tasks' = tasks \cup {[d |-> d, pc |-> "input", attempts |-> 0]}
    BY <1>7 DEF HandleCommand
  <2>2. [d |-> d, pc |-> "input", attempts |-> 0].d = d
    OBVIOUS
  <2>3. n \in Carried
    BY <2>1, <2>2 DEF Carried
  <2> QED
    BY <1>1, <2>3
<1>8. ASSUME NEW k \in tasks, InputError(k) \/ SameMint(k) PROVE InputFrom(n)
  BY <1>2, <1>8 DEF InputError, SameMint, taskUnchanged
<1>9. ASSUME NEW k \in tasks, NEW type, NEW amount, NEW pc, Proceed(k, type, amount, pc),
             UNCHANGED <<taskUnchanged, outputs>>,
             \A m : m.order = k.d.order /\ m.type = type /\ m.amount = amount => InputFrom(m)
      PROVE InputFrom(n)
  <2>1. CASE n \in Carried
    BY <1>1, <2>1
  <2>2. CASE n \notin Carried
    <3>1. PICK a \in tasks' : a.d = n /\ a \notin tasks
      BY <1>9, <2>2 DEF Carried, taskUnchanged
    <3>2. k \in Task
      BY <1>0 DEF TypeOK
    <3>3. a.d.order = k.d.order /\ a.d.type = type /\ a.d.amount = amount
      BY <1>9, <3>1, <3>2, ProceedInput
    <3> QED
      BY <1>9, <3>1, <3>3
  <2> QED
    BY <2>1, <2>2
<1>10. ASSUME NEW k \in tasks, ProcessSell(k) PROVE InputFrom(n)
  <2> DEFINE s == Swap[k.d.order]
             h == HistoryOf(s.wallet, s.tin)
             type == IF s.tout \in Static \/ NoBuys(s.wallet) THEN "sell" ELSE "both"
             pc == IF SoldMost(h, s.ain) THEN "remove" ELSE "swap"
             amount == SellInput(h, s.ain)
  <2>1. k.d \in Details /\ s.ain \in Nat /\ UNCHANGED <<taskUnchanged, outputs>>
    BY <1>0, <1>10, CarriersTyped, DetailsParts DEF ProcessSell
  <2>2. h \in Volumes /\ SellKey(k.d.order) \in Keys /\ h = history[SellKey(k.d.order)]
            /\ h # NoHistory
    BY <1>0, <1>10, <2>1, HistoryParts DEF ProcessSell, SellKey
  <2>3. CASE NothingLeft(h)
    BY <1>2, <1>10, <2>1, <2>3 DEF ProcessSell, taskUnchanged
  <2>4. CASE ~NothingLeft(h)
    <3>1. amount <= h.execBuy
      <4>1. amount \in Nat /\ (amount > 0 => amount + h.execSell <= h.execBuy)
        BY <2>1, <2>2, <2>4, SellInputBound
      <4>2. h.execBuy \in Nat /\ h.execSell \in Nat
        BY <2>2 DEF Volumes
      <4> HIDE DEF amount, h
      <4> QED
        BY <4>1, <4>2
    <3>2. Proceed(k, type, amount, pc)
      BY <1>10, <2>4 DEF ProcessSell
    <3> HIDE DEF amount, h, type, pc
    <3>3. \A m : m.order = k.d.order /\ m.type = type /\ m.amount = amount => InputFrom(m)
      BY <2>2, <3>1 DEF InputFrom
    <3> QED
      BY <1>9, <2>1, <3>2, <3>3
  <2> QED
    BY <2>3, <2>4
<1>11. ASSUME NEW k \in tasks, RemoveHistory(k) PROVE InputFrom(n)
  <2>1. k.d \in Carried
    BY DEF Carried
  <2>2. \A m : m.order = k.d.order /\ m.type = k.d.type /\ m.amount = k.d.amount => InputFrom(m)
    BY <2>1 DEF InputFrom, SameInput
  <2> QED
    BY <1>9, <1>11, <2>2 DEF RemoveHistory
<1>12. ASSUME NEW k \in tasks, ProcessBuy(k) PROVE InputFrom(n)
  <2> DEFINE s == Swap[k.d.order]
             amount == BuyInput(MinInput, MaxInput, s.tin = SOL, s.ain, s.pre)
  <2>1. CASE NoBuys(s.wallet) \/ s.tout \in Static
    BY <1>2, <1>12, <2>1 DEF ProcessBuy, taskUnchanged
  <2>2. CASE ~(NoBuys(s.wallet) \/ s.tout \in Static)
    <3>1. Proceed(k, "buy", amount, "swap") /\ UNCHANGED <<taskUnchanged, outputs>>
      BY <1>12, <2>2 DEF ProcessBuy
    <3>2. \A m : m.type = "buy" => InputFrom(m)
      BY DEF InputFrom
    <3> HIDE DEF amount
    <3> QED
      BY <1>9, <3>1, <3>2
  <2> QED
    BY <2>1, <2>2
<1>13. ASSUME NEW k \in tasks, NEW m, SameInput(m, k.d), tasks' \subseteq tasks,
              NEW b, outputs' \subseteq outputs \cup {[ok |-> b, d |-> m]}, UNCHANGED taskUnchanged
       PROVE InputFrom(n)
  <2>1. n \in Carried \/ n = m
    <3>1. [ok |-> b, d |-> m].d = m
      OBVIOUS
    <3> QED
      BY <1>13, <3>1 DEF Carried, taskUnchanged
  <2>2. InputFrom(m)
    BY <1>13 DEF InputFrom, Carried
  <2> QED
    BY <1>1, <2>1, <2>2
<1>14. ASSUME NEW k \in tasks, NEW p95 \in Tips, AttemptOk(k, p95) PROVE InputFrom(n)
  <2> DEFINE fee == FeeLamports(MinFee, MaxFee, p95, FeeIncrease, k.d.sendRetries)
             m == [k.d EXCEPT !.fee = fee]
  <2>1. k.d \in Details
    BY <1>0, CarriersTyped
  <2>2. SameInput(m, k.d)
    BY <2>1 DEF Details, SameInput
  <2>3. /\ outputs' = outputs \cup {[ok |-> TRUE, d |-> m]} /\ tasks' = tasks \ {k}
        /\ UNCHANGED taskUnchanged
    BY <1>14 DEF AttemptOk
  <2> HIDE DEF m
  <2> QED
    BY <1>13, <2>2, <2>3
<1>15. ASSUME NEW k \in tasks, AttemptErr(k) PROVE InputFrom(n)
  <2>1. k \in Task /\ SameInput(k.d, k.d)
    BY <1>0 DEF TypeOK, SameInput
  <2>2. CASE k.attempts + 1 < ExecutionRetries
    <3> DEFINE a == [k EXCEPT !.attempts = @ + 1]
    <3>1. a.d = k.d
      BY <2>1, <2>2, AttemptsType
    <3>2. tasks' = (tasks \ {k}) \cup {a} /\ UNCHANGED <<taskUnchanged, outputs>>
      BY <1>15, <2>2 DEF AttemptErr
    <3> HIDE DEF a
    <3>3. n \in Carried
      BY <3>1, <3>2 DEF Carried, taskUnchanged
    <3> QED
      BY <1>1, <3>3
  <2>3. CASE ~(k.attempts + 1 < ExecutionRetries)
    <3>1. /\ outputs' = outputs \cup {[ok |-> FALSE, d |-> k.d]} /\ tasks' = tasks \ {k}
          /\ UNCHANGED taskUnchanged
      BY <1>15, <2>3 DEF AttemptErr
    <3> QED
      BY <1>13, <2>1, <3>1
  <2> QED
    BY <2>2, <2>3
<1>16. ASSUME NEW x \in outputs, SendOutput(x) PROVE InputFrom(n)
  <2>1. /\ execQueue' = execQueue /\ tasks' = tasks /\ outputs' \subseteq outputs
        /\ pending' \subseteq pending \cup {[id |-> nextId, d |-> x.d]}
    BY <1>16 DEF SendOutput, InsertPending, Kept
  <2>2. [id |-> nextId, d |-> x.d].d = x.d
    OBVIOUS
  <2>3. n \in Carried
    BY <2>1, <2>2 DEF Carried
  <2> QED
    BY <1>1, <2>3
<1>17. ASSUME NEW x \in outputs, NEW resolved \in BOOLEAN,
              SendError(x) \/ FailureOutput(x, resolved)
       PROVE InputFrom(n)
  BY <1>2, <1>17 DEF SendError, FailureOutput
<1>18. ASSUME NEW r \in reports, UnknownReport(r) PROVE InputFrom(n)
  BY <1>2, <1>18 DEF UnknownReport, Take, RemovePending, mainUnchanged
<1>19. ASSUME NEW r \in reports, NEW resolved \in BOOLEAN,
              ConfirmedError(r, resolved) \/ Unconfirmed(r, resolved)
       PROVE InputFrom(n)
  <2> DEFINE d == EntryOf(r).d
  <2>1. Take(r) /\ Known(r) /\ UNCHANGED mainUnchanged
    BY <1>19 DEF ConfirmedError, Unconfirmed
  <2>2. EntryOf(r) \in pending /\ d \in Details
    BY <1>0, <2>1, TakeType
  <2>3. \/ GiveUp(d, resolved) /\ UNCHANGED execQueue
        \/ d.errRetries < ConfirmedErrorRetries /\ Enqueue(AfterError(d))
        \/ d.sendRetries < SendTxnRetries /\ Enqueue(AfterTimeout(d))
    BY <1>19 DEF ConfirmedError, Unconfirmed, AfterError, AfterTimeout
  <2>4. tasks' = tasks /\ outputs' = outputs /\ pending' \subseteq pending
    BY <2>1 DEF Take, RemovePending, mainUnchanged
  <2>5. d \in Carried
    BY <2>2 DEF Carried
  <2> HIDE DEF d
  <2>6. SameInput(AfterError(d), d) /\ SameInput(AfterTimeout(d), d)
    BY <2>2 DEF SameInput, AfterError, AfterTimeout, Details
  <2>7. InputFrom(AfterError(d)) /\ InputFrom(AfterTimeout(d))
    BY <2>5, <2>6 DEF InputFrom
  <2>8. CASE d.errRetries < ConfirmedErrorRetries /\ Enqueue(AfterError(d))
    BY <1>3, <2>2, <2>4, <2>7, <2>8, RetryDetails
  <2>9. CASE d.sendRetries < SendTxnRetries /\ Enqueue(AfterTimeout(d))
    BY <1>3, <2>2, <2>4, <2>7, <2>9, RetryDetails
  <2> QED
    BY <1>2, <2>3, <2>4, <2>8, <2>9
<1>20. ASSUME NEW r \in reports, NEW yield \in Yields, NEW off \in BOOLEAN,
              ConfirmedOk(r, yield, off)
       PROVE InputFrom(n)
  BY <1>2, <1>20 DEF ConfirmedOk, Take, RemovePending, mainUnchanged
<1>21. CASE ReadEntry \/ WriteEntry
  BY <1>2, <1>21 DEF ReadEntry, WriteEntry
<1>22. ASSUME NEW f \in inFlight, NEW response \in Responses, NEW onChain \in BOOLEAN,
              Reported(f, response, onChain)
       PROVE InputFrom(n)
  BY <1>2, <1>22 DEF Reported
<1>23. CASE UNCHANGED vars
  BY <1>2, <1>23 DEF vars
<1> QED
  BY <1>4, <1>5, <1>6, <1>7, <1>8, <1>10, <1>11, <1>12, <1>14, <1>15, <1>16, <1>17, <1>18,
     <1>19, <1>20, <1>21, <1>22, <1>23
     DEF Next, ExecutionStep, MainStep, ServiceStep

\* What may have been bought for a position only grows, and the entry of the
\* position says no more.
LEMMA PositionFacts ==
    ASSUME NEW y \in Nat, YieldsUpTo(y), VolumeInv(y), Move, NEW k \in Keys
    PROVE  /\ Position(k, y) \in Nat /\ Position(k, y)' \in Nat
           /\ Position(k, y) <= Position(k, y)'
           /\ history[k] # NoHistory => history[k].execBuy <= Position(k, y)
<1> DEFINE b == SumFunctionOnSet(EachBringsIn(y), BuysOf(k))
           c == SumFunctionOnSet(EachBringsIn(y), BuysOf(k)')
           B == BuysOf(k) \ Entering("buy")
           e == SumFunctionOnSet(EachBringsIn(y), B)
<1>1. CopyInv /\ TypeOK /\ IsFiniteSet(Seen)
  BY DEF VolumeInv, CopyInv, TypeInv
<1>2. /\ BuysOf(k) \in SUBSET (BuysOf(k)') /\ BuysOf(k)' \in SUBSET Orders
      /\ IsFiniteSet(BuysOf(k)) /\ IsFiniteSet(BuysOf(k)')
  BY <1>1, SalesGrow
<1>3. b \in Nat /\ c \in Nat /\ b <= c
  BY <1>2, OrderSums
<1>4. e \in Nat /\ e <= b
  <2>1. B \in SUBSET BuysOf(k) /\ BuysOf(k) \in SUBSET Orders
    BY <1>2
  <2> HIDE DEF B
  <2> QED
    BY <1>2, <2>1, OrderSums
<1>5. Stored(k).execBuy \in Nat
  BY VolumeTypes DEF Volumes
<1>6. history[k] # NoHistory => /\ history[k].execBuy \in Nat
                                /\ history[k].execBuy <= Stored(k).execBuy + e
  BY <1>1, PresentVolumes DEF VolumeInv, AccountInv, Covered, Volumes
<1>7. Position(k, y) = Stored(k).execBuy + b /\ Position(k, y)' = Stored(k).execBuy + c
  BY DEF Position
<1> HIDE DEF b, c, e
<1> QED
  BY <1>3, <1>4, <1>5, <1>6, <1>7

\* Every step keeps every sell within its position.
LEMMA FitsStep ==
    ASSUME NEW y \in Nat, YieldsUpTo(y), VolumeInv(y), CopyInv', EachSellFits(y), [Next]_vars
    PROVE  EachSellFits(y)'
<1>1. CopyInv /\ TypeOK /\ TypeInv /\ InsertInv /\ IsFiniteSet(Seen)
  BY DEF VolumeInv, CopyInv, TypeInv
<1>2. Move /\ HistoryMove
  BY <1>1, MoveStep, HistoryStep
<1>3. \A k \in Keys : /\ Position(k, y) \in Nat /\ Position(k, y)' \in Nat
                      /\ Position(k, y) <= Position(k, y)'
                      /\ history[k] # NoHistory => history[k].execBuy <= Position(k, y)
  BY <1>2, PositionFacts
<1>4. /\ \A d \in Carried : d \in Details /\ Tradable(d)
      /\ \A d \in Carried' : d \in Details /\ Tradable(d)
  <2>1. TypeOK' /\ TradeInv' /\ TradeInv
    BY <1>1 DEF CopyInv, TypeInv
  <2>2. \A d \in Carried : d \in Details
    BY <1>1, CarriersTyped DEF Carried
  <2>3. \A d \in Carried' : d \in Details
    BY <2>1 DEF Carried, TypeOK, Task
  <2> QED
    BY <2>1, <2>2, <2>3 DEF Carried, TradeInv
<1>5. \A d \in Carried : SellFits(d, y)
  BY DEF EachSellFits, Carried
<1>6. \A d \in Details : Tradable(d) /\ d.type \in {"sell", "both"} =>
          SellKey(d.order) \in Keys /\ d.amount \in Nat
  <2> SUFFICES ASSUME NEW d \in Details, Tradable(d), d.type \in {"sell", "both"}
               PROVE  SellKey(d.order) \in Keys /\ d.amount \in Nat
    OBVIOUS
  <2>1. d.amount \in Nat
    BY DEF Details
  <2> QED
    BY <2>1, DetailsParts DEF SellKey, Keys, Tradable
<1>7. ASSUME NEW n \in Carried' PROVE SellFits(n, y)'
  <2> SUFFICES ASSUME n.type \in {"sell", "both"}
               PROVE  n.amount <= Position(SellKey(n.order), y)'
    BY DEF SellFits
  <2>1. SellKey(n.order) \in Keys /\ n.amount \in Nat
    BY <1>4, <1>6
  <2>2. PICK k \in Keys : k = SellKey(n.order)
    BY <2>1
  <2>3. n.amount <= Position(k, y)
    <3>1. InputFrom(n)
      BY <1>1, InputStepFrom
    <3>2. ASSUME NEW d \in Carried, SameInput(n, d) PROVE n.amount <= Position(k, y)
      BY <1>5, <2>2, <3>2 DEF SellFits, SameInput
    <3>3. ASSUME history[SellKey(n.order)] # NoHistory,
                 n.amount <= history[SellKey(n.order)].execBuy
          PROVE  n.amount <= Position(k, y)
      <4>1. history[k] \in Volumes /\ history[k] # NoHistory
        BY <1>1, <2>2, <3>3, PresentVolumes
      <4>2. history[k].execBuy \in Nat /\ n.amount <= history[k].execBuy
        BY <2>2, <3>3, <4>1 DEF Volumes
      <4>3. history[k].execBuy <= Position(k, y) /\ Position(k, y) \in Nat
        BY <1>3, <4>1
      <4> QED
        BY <2>1, <4>2, <4>3
    <3> QED
      BY <3>1, <3>2, <3>3 DEF InputFrom
  <2>4. n.amount <= Position(k, y)'
    BY <1>3, <2>1, <2>3
  <2> QED
    BY <2>2, <2>4
<1>8. ASSUME NEW i \in DOMAIN inserts', inserts'[i].direction = "sell"
      PROVE  (inserts[i].exec <= Position(inserts[i].key, y))'
  <2>1. PICK t \in Trade : t = inserts'[i]
    <3>1. inserts' \in Seq(Trade)
      BY DEF CopyInv, TypeInv, TypeOK
    <3> QED
      BY <3>1
  <2>2. PICK k \in Keys : k = t.key
    BY DEF Trade
  <2>3. t.exec \in Nat
    BY DEF Trade
  <2>4. t.exec <= Position(k, y)
    <3>1. \A j \in DOMAIN inserts : inserts[j] = t => t.exec <= Position(k, y)
      BY <1>8, <2>1, <2>2 DEF EachSellFits
    <3>2. CASE inserts' = inserts
      BY <2>1, <3>1, <3>2
    <3>3. ASSUME NEW e \in pending, NEW yield \in Yields, HistoryAwaits(e.d, yield)
          PROVE  t.exec <= Position(k, y)
      <4>1. e.d \in Carried
        BY DEF Carried
      <4>2. inserts' = TradesOf(e.d, yield)
        BY <3>3 DEF HistoryAwaits
      <4>3. /\ t.key = SellKey(e.d.order) /\ t.exec = e.d.amount
            /\ e.d.type \in {"sell", "both"}
        BY <1>4, <1>8, <2>1, <4>1, <4>2, TradesShape
      <4> QED
        BY <1>5, <2>2, <4>1, <4>3 DEF SellFits
    <3>4. CASE WriteEntry
      <4>1. inserts # <<>> /\ inserts' = Tail(inserts)
        BY <3>4 DEF WriteEntry
      <4>2. i + 1 \in DOMAIN inserts /\ inserts'[i] = inserts[i + 1]
        BY <1>1, <4>1, TailFacts
      <4> QED
        BY <2>1, <3>1, <4>2
    <3>5. HistoryStays \/ (\E d \in Details : HistoryCounts(d)) \/ ReadEntry => inserts' = inserts
      BY Zenon DEF HistoryStays, HistoryCounts, ReadEntry
    <3> QED
      BY <1>2, <3>2, <3>3, <3>4, <3>5 DEF HistoryMove
  <2>5. t.exec <= Position(k, y)'
    BY <1>3, <2>3, <2>4
  <2> QED
    BY <2>1, <2>2, <2>5
<1> QED
  BY <1>7, <1>8 DEF EachSellFits, Carried

\* The volumes are covered and every sell fits, for the largest yield there is.
FitsInv == \A y \in Yields : YieldsUpTo(y) => VolumeInv(y) /\ EachSellFits(y)

\* Whatever is under way at once and however often it is retried, no single sell
\* is of more than what the service can have bought for the position: the stored
\* amount, and the largest yield for each buy of it that is done.
THEOREM SellWithinBought == Spec => []SellWithinPosition
<1>1. Yields \subseteq Nat
  BY ConstantsAssumption
<1>2. Init => FitsInv
  <2> SUFFICES ASSUME Init, NEW y \in Yields PROVE VolumeInv(y) /\ EachSellFits(y)
    BY DEF FitsInv
  <2>1. VolumeInv(y)
    BY <1>1, InitVolumeInv
  <2>2. EachSellFits(y)
    BY DEF Init, EachSellFits
  <2> QED
    BY <2>1, <2>2
<1>3. FitsInv /\ [Next]_vars /\ CopyInv' => FitsInv'
  <2> SUFFICES ASSUME FitsInv, [Next]_vars, CopyInv', NEW y \in Yields, YieldsUpTo(y)
               PROVE  VolumeInv(y)' /\ EachSellFits(y)'
    BY DEF FitsInv, YieldsUpTo
  <2>1. y \in Nat /\ VolumeInv(y) /\ EachSellFits(y)
    BY <1>1 DEF FitsInv
  <2> QED
    BY <2>1, VolumeStep, FitsStep
<1>4. FitsInv => SellWithinPosition
  BY DEF FitsInv, SellWithinPosition
<1> QED
  BY <1>2, <1>3, <1>4, CopyInvHolds, PTL DEF Spec
=============================================================================
