-------------------------- MODULE SendConfirmProofs -------------------------
(***************************************************************************)
(* Proofs about SendConfirm: its type invariant, that a transaction is in  *)
(* one place at a time, that the unreachable! of the expiry loop is not    *)
(* reached, that a transaction reported Unconfirmed did not execute, what  *)
(* makes the confirmation task panic, and that SendConfirm implements      *)
(* TransactionService.                                                     *)
(***************************************************************************)
EXTENDS SendConfirm, TLAPS

\* The type invariant, with the one fact that bounds the first transmission.
TypeInv ==
    /\ TypeOK
    /\ \A t \in Txns : state[t] = "new" => sends[t] = 0

\* The cached heights never run ahead of the chain, but for the first value,
\* and no blockhash expires before that value.
HeightInv ==
    /\ height <= Valid \/ height <= chainHeight
    /\ last <= Valid \/ last <= chainHeight
    /\ cur <= Valid \/ cur <= chainHeight
    /\ pc = "start" => chainHeight <= Valid /\ height <= Valid /\ last <= Valid
    /\ validUntil >= Valid
    /\ \A d \in newTxns : d.sig.lvbh >= Valid
    /\ \A s \in wired : s.lvbh >= Valid

\* What is in the channel, in the map and on the wire fits together.
PlaceInv ==
    /\ \A d \in newTxns : d.sig.content = ContentOf[d.txn]
    /\ \A s \in Entries : s \in wired /\ s.content = ContentOf[unconfirmed[s]]
    /\ \A s \in Signatures : landed[s] # "no" => s \in wired
    /\ givenUp \subseteq wired

\* What the confirmation task has collected in this round.
RoundInv ==
    /\ pc # "unreachable"
    /\ pc = "expire" => todo = {} /\ batch = {}
    /\ pc = "expire" => \A s \in expired : s \in Entries /\ cur > s.lvbh /\ last > s.lvbh

\* A signature on the wire that is its transaction's own has been given up,
\* is in the map, or was confirmed (or the task died reporting it).
WiredInv ==
    \A t \in Txns : \A s \in wired :
        s.content = ContentOf[t] /\ ~Twins(s.content) =>
            /\ state[t] # "new"
            /\ \/ s \in givenUp
               \/ unconfirmed[s] = t
               \/ state[t] = "confirmed"
               \/ state[t] = "pending" /\ pc = "panicked"

\* Queued again with a signature that was sent before: only after it was
\* given up.
RequeueInv ==
    \A d \in newTxns : d.sig \in wired => d.sig \in givenUp \/ Twins(d.sig.content)

Excused(s) == s \in missed \/ Twins(s.content)

\* What landed and expired before the last check will not be looked at again:
\* it must have been missed.  What landed and expired by this check is still
\* to be looked at.
CheckInv ==
    /\ \A s \in Entries : landed[s] # "no" /\ last > s.lvbh => Excused(s)
    /\ pc \in {"verify", "expire"} =>
         \A s \in Entries : landed[s] # "no" /\ cur > s.lvbh =>
             s \in todo \/ s \in batch \/ Excused(s)

\* Given up means expired on chain.
GivenUpInv ==
    \A s \in givenUp : chainHeight > s.lvbh /\ (landed[s] # "no" => Excused(s))

IInv ==
    /\ TypeInv /\ HeightInv /\ PlaceInv /\ OneTransmission /\ RoundInv
    /\ WiredInv /\ RequeueInv /\ CheckInv /\ GivenUpInv

-----------------------------------------------------------------------------

\* The invariant holds when the service starts: nothing sent, nothing mapped.
LEMMA InitIInv == Init => IInv
<1> SUFFICES ASSUME Init PROVE IInv
  OBVIOUS
<1> USE ConstantsAssumption
<1>1. TypeInv
  BY DEF Init, TypeInv, TypeOK, Heights
<1>2. Entries = {}
  BY DEF Init, Entries
<1>3. HeightInv /\ PlaceInv /\ OneTransmission
  BY <1>2 DEF Init, HeightInv, PlaceInv, OneTransmission
<1>4. RoundInv /\ WiredInv /\ RequeueInv /\ CheckInv /\ GivenUpInv
  BY <1>2 DEF Init, RoundInv, WiredInv, RequeueInv, CheckInv, GivenUpInv
<1> QED
  BY <1>1, <1>3, <1>4 DEF IInv

\* Every step of the handles, the sending task, the polling task and the
\* confirmation task keeps the types.
LEMMA TypeStep == TypeInv /\ [Next]_vars => TypeInv'
<1> SUFFICES ASSUME TypeInv, [Next]_vars PROVE TypeInv'
  OBVIOUS
<1> USE ConstantsAssumption DEF TypeInv, TypeOK
<1> USE DEF chainVars, pollVars, subVars, taskVars, histVars
<1>1. CASE Tick
  BY <1>1 DEF Tick
<1>2. ASSUME NEW s \in wired, NEW r \in {"ok", "err"}, Land(s, r) PROVE TypeInv'
  BY <1>2 DEF Land
<1>3. ASSUME NEW ok \in BOOLEAN, PollBlockhash(ok) PROVE TypeInv'
  BY <1>3 DEF PollBlockhash, Heights
<1>4. ASSUME NEW ok \in BOOLEAN, PollHeight(ok) PROVE TypeInv'
  BY <1>4 DEF PollHeight, Heights
<1>5. ASSUME NEW src \in Sources, Subscribe(src) \/ SubscribeAll(src) PROVE TypeInv'
  BY <1>5 DEF Subscribe, SubscribeAll
<1>6. ASSUME NEW t \in Txns, SendTransaction(t) \/ ResendTransaction(t) PROVE TypeInv'
  <2>1. [sig |-> [content |-> ContentOf[t], lvbh |-> validUntil], txn |-> t] \in Data
    BY DEF Data, Signatures
  <2>2. sends[t] \in 0 .. MaxSends /\ sends[t] < MaxSends
    BY <1>6 DEF SendTransaction, ResendTransaction
  <2> QED
    BY <1>6, <2>1, <2>2 DEF SendTransaction, ResendTransaction, Push
<1>7. ASSUME NEW d \in newTxns, SendTask(d) PROVE TypeInv'
  BY <1>7 DEF SendTask, Data
<1>8. CASE ConfirmTask
  <2>1. CASE ConfirmStart
    BY <2>1 DEF ConfirmStart
  <2>2. CASE ConfirmRound
    BY <2>2 DEF ConfirmRound, ToVerify, Entries
  <2>3. ASSUME NEW C \in SUBSET todo, StatusesOk(C) \/ StatusesErr(C) PROVE TypeInv'
    BY <2>3 DEF StatusesOk, StatusesErr
  <2>4. ASSUME NEW s \in batch, ApplyStatus(s) PROVE TypeInv'
    BY <2>4 DEF ApplyStatus, Report
  <2>5. CASE CollectExpired
    BY <2>5 DEF CollectExpired, ExpiredTxns, Entries
  <2>6. ASSUME NEW s \in expired, ReportExpired(s) PROVE TypeInv'
    BY <2>6 DEF ReportExpired, Report
  <2>7. CASE EndRound
    BY <2>7 DEF EndRound
  <2> QED
    BY <1>8, <2>1, <2>2, <2>3, <2>4, <2>5, <2>6, <2>7 DEF ConfirmTask
<1>9. CASE UNCHANGED vars
  BY <1>9 DEF vars
<1> QED
  BY <1>1, <1>2, <1>3, <1>4, <1>5, <1>6, <1>7, <1>8, <1>9 DEF Next

\* No step lets a cached height run ahead of the chain (poll_blockhash.rs reads
\* it from the chain, confirm_txn.rs copies the cached value).
LEMMA HeightStep == IInv /\ [Next]_vars => HeightInv'
<1> SUFFICES ASSUME IInv, [Next]_vars PROVE HeightInv'
  OBVIOUS
<1> USE ConstantsAssumption DEF IInv, TypeInv, TypeOK, HeightInv
<1> USE DEF chainVars, pollVars, subVars, taskVars, histVars
<1>1. CASE Tick
  BY <1>1 DEF Tick, Heights
<1>2. ASSUME NEW s \in wired, NEW r \in {"ok", "err"}, Land(s, r) PROVE HeightInv'
  BY <1>2 DEF Land
<1>3. ASSUME NEW ok \in BOOLEAN, PollBlockhash(ok) PROVE HeightInv'
  BY <1>3 DEF PollBlockhash, Heights
<1>4. ASSUME NEW ok \in BOOLEAN, PollHeight(ok) PROVE HeightInv'
  BY <1>4 DEF PollHeight, Heights
<1>5. ASSUME NEW src \in Sources, Subscribe(src) \/ SubscribeAll(src) PROVE HeightInv'
  BY <1>5 DEF Subscribe, SubscribeAll
<1>6. ASSUME NEW t \in Txns, SendTransaction(t) \/ ResendTransaction(t) PROVE HeightInv'
  BY <1>6 DEF SendTransaction, ResendTransaction, Push, Heights
<1>7. ASSUME NEW d \in newTxns, SendTask(d) PROVE HeightInv'
  BY <1>7 DEF SendTask
<1>8. CASE ConfirmTask
  <2>1. CASE ConfirmStart
    BY <2>1 DEF ConfirmStart
  <2>2. CASE ConfirmRound
    BY <2>2 DEF ConfirmRound, Heights
  <2>3. ASSUME NEW C \in SUBSET todo, StatusesOk(C) PROVE HeightInv'
    BY <2>3 DEF StatusesOk
  <2>4. ASSUME NEW C \in SUBSET todo, StatusesErr(C) PROVE HeightInv'
    BY <2>4 DEF StatusesErr
  <2>5. ASSUME NEW s \in batch, ApplyStatus(s) PROVE HeightInv'
    BY <2>5 DEF ApplyStatus, Report
  <2>6. CASE CollectExpired
    BY <2>6 DEF CollectExpired
  <2>7. ASSUME NEW s \in expired, ReportExpired(s) PROVE HeightInv'
    BY <2>7 DEF ReportExpired, Report
  <2>8. CASE EndRound
    BY <2>8 DEF EndRound
  <2> QED
    BY <1>8, <2>1, <2>2, <2>3, <2>4, <2>5, <2>6, <2>7, <2>8 DEF ConfirmTask
<1>9. CASE UNCHANGED vars
  BY <1>9 DEF vars
<1> QED
  BY <1>1, <1>2, <1>3, <1>4, <1>5, <1>6, <1>7, <1>8, <1>9 DEF Next

\* No step puts a signature in the map that was not sent, or one of another
\* transaction.
LEMMA PlaceStep == IInv /\ [Next]_vars => PlaceInv'
<1> SUFFICES ASSUME IInv, [Next]_vars PROVE PlaceInv'
  OBVIOUS
<1> USE ConstantsAssumption DEF IInv, TypeInv, TypeOK, PlaceInv, Entries
<1> USE DEF chainVars, pollVars, subVars, taskVars, histVars
<1>1. CASE Tick
  BY <1>1 DEF Tick
<1>2. ASSUME NEW s \in wired, NEW r \in {"ok", "err"}, Land(s, r) PROVE PlaceInv'
  BY <1>2 DEF Land
<1>3. ASSUME NEW ok \in BOOLEAN, PollBlockhash(ok) PROVE PlaceInv'
  BY <1>3 DEF PollBlockhash
<1>4. ASSUME NEW ok \in BOOLEAN, PollHeight(ok) PROVE PlaceInv'
  BY <1>4 DEF PollHeight
<1>5. ASSUME NEW src \in Sources, Subscribe(src) \/ SubscribeAll(src) PROVE PlaceInv'
  BY <1>5 DEF Subscribe, SubscribeAll
<1>6. ASSUME NEW t \in Txns, SendTransaction(t) \/ ResendTransaction(t) PROVE PlaceInv'
  BY <1>6 DEF SendTransaction, ResendTransaction, Push
<1>7. ASSUME NEW d \in newTxns, SendTask(d) PROVE PlaceInv'
  BY <1>7 DEF SendTask
<1>8. CASE ConfirmTask
  <2>1. CASE ConfirmStart
    BY <2>1 DEF ConfirmStart
  <2>2. CASE ConfirmRound
    BY <2>2 DEF ConfirmRound
  <2>3. ASSUME NEW C \in SUBSET todo, StatusesOk(C) PROVE PlaceInv'
    BY <2>3 DEF StatusesOk
  <2>4. ASSUME NEW C \in SUBSET todo, StatusesErr(C) PROVE PlaceInv'
    BY <2>4 DEF StatusesErr
  <2>5. ASSUME NEW s \in batch, ApplyStatus(s) PROVE PlaceInv'
    BY <2>5 DEF ApplyStatus, Report
  <2>6. CASE CollectExpired
    BY <2>6 DEF CollectExpired
  <2>7. ASSUME NEW s \in expired, ReportExpired(s) PROVE PlaceInv'
    BY <2>7 DEF ReportExpired, Report
  <2>8. CASE EndRound
    BY <2>8 DEF EndRound
  <2> QED
    BY <1>8, <2>1, <2>2, <2>3, <2>4, <2>5, <2>6, <2>7, <2>8 DEF ConfirmTask
<1>9. CASE UNCHANGED vars
  BY <1>9 DEF vars
<1> QED
  BY <1>1, <1>2, <1>3, <1>4, <1>5, <1>6, <1>7, <1>8, <1>9 DEF Next

\* No step puts a transaction in two places: service.rs pushes only what its
\* sender does not wait for, and the map entry goes with the report.
LEMMA OneTransmissionStep == IInv /\ [Next]_vars => OneTransmission'
<1> SUFFICES ASSUME IInv, [Next]_vars PROVE OneTransmission'
  OBVIOUS
<1> USE ConstantsAssumption DEF IInv, TypeInv, TypeOK, OneTransmission, Entries, Data
<1> USE DEF chainVars, pollVars, subVars, taskVars, histVars
<1>1. CASE Tick
  BY <1>1 DEF Tick
<1>2. ASSUME NEW s \in wired, NEW r \in {"ok", "err"}, Land(s, r) PROVE OneTransmission'
  BY <1>2 DEF Land
<1>3. ASSUME NEW ok \in BOOLEAN, PollBlockhash(ok) PROVE OneTransmission'
  BY <1>3 DEF PollBlockhash
<1>4. ASSUME NEW ok \in BOOLEAN, PollHeight(ok) PROVE OneTransmission'
  BY <1>4 DEF PollHeight
<1>5. ASSUME NEW src \in Sources, Subscribe(src) \/ SubscribeAll(src) PROVE OneTransmission'
  BY <1>5 DEF Subscribe, SubscribeAll
<1>6. ASSUME NEW t \in Txns, SendTransaction(t) \/ ResendTransaction(t) PROVE OneTransmission'
  BY <1>6 DEF SendTransaction, ResendTransaction, Push
<1>7. ASSUME NEW d \in newTxns, SendTask(d) PROVE OneTransmission'
  BY <1>7 DEF SendTask
<1>8. CASE ConfirmTask
  <2>1. CASE ConfirmStart
    BY <2>1 DEF ConfirmStart
  <2>2. CASE ConfirmRound
    BY <2>2 DEF ConfirmRound
  <2>3. ASSUME NEW C \in SUBSET todo, StatusesOk(C) PROVE OneTransmission'
    BY <2>3 DEF StatusesOk
  <2>4. ASSUME NEW C \in SUBSET todo, StatusesErr(C) PROVE OneTransmission'
    BY <2>4 DEF StatusesErr
  <2>5. ASSUME NEW s \in batch, ApplyStatus(s) PROVE OneTransmission'
    BY <2>5 DEF ApplyStatus, Report
  <2>6. CASE CollectExpired
    BY <2>6 DEF CollectExpired
  <2>7. ASSUME NEW s \in expired, ReportExpired(s) PROVE OneTransmission'
    BY <2>7 DEF ReportExpired, Report
  <2>8. CASE EndRound
    BY <2>8 DEF EndRound
  <2> QED
    BY <1>8, <2>1, <2>2, <2>3, <2>4, <2>5, <2>6, <2>7, <2>8 DEF ConfirmTask
<1>9. CASE UNCHANGED vars
  BY <1>9 DEF vars
<1> QED
  BY <1>1, <1>2, <1>3, <1>4, <1>5, <1>6, <1>7, <1>8, <1>9 DEF Next

\* No step but the expiry loop of confirm_txn.rs removes what that loop has
\* selected.
LEMMA RoundStep == IInv /\ [Next]_vars => RoundInv'
<1> SUFFICES ASSUME IInv, [Next]_vars PROVE RoundInv'
  OBVIOUS
<1> USE ConstantsAssumption DEF IInv, TypeInv, TypeOK, RoundInv, Entries
<1> USE DEF chainVars, pollVars, subVars, taskVars, histVars
<1>1. CASE Tick
  BY <1>1 DEF Tick
<1>2. ASSUME NEW s \in wired, NEW r \in {"ok", "err"}, Land(s, r) PROVE RoundInv'
  BY <1>2 DEF Land
<1>3. ASSUME NEW ok \in BOOLEAN, PollBlockhash(ok) PROVE RoundInv'
  BY <1>3 DEF PollBlockhash
<1>4. ASSUME NEW ok \in BOOLEAN, PollHeight(ok) PROVE RoundInv'
  BY <1>4 DEF PollHeight
<1>5. ASSUME NEW src \in Sources, Subscribe(src) \/ SubscribeAll(src) PROVE RoundInv'
  BY <1>5 DEF Subscribe, SubscribeAll
<1>6. ASSUME NEW t \in Txns, SendTransaction(t) \/ ResendTransaction(t) PROVE RoundInv'
  BY <1>6 DEF SendTransaction, ResendTransaction, Push
<1>7. ASSUME NEW d \in newTxns, SendTask(d) PROVE RoundInv'
  BY <1>7 DEF SendTask, Data
<1>8. CASE ConfirmTask
  <2>1. CASE ConfirmStart
    BY <2>1 DEF ConfirmStart
  <2>2. CASE ConfirmRound
    BY <2>2 DEF ConfirmRound
  <2>3. ASSUME NEW C \in SUBSET todo, StatusesOk(C) PROVE RoundInv'
    BY <2>3 DEF StatusesOk
  <2>4. ASSUME NEW C \in SUBSET todo, StatusesErr(C) PROVE RoundInv'
    BY <2>4 DEF StatusesErr
  <2>5. ASSUME NEW s \in batch, ApplyStatus(s) PROVE RoundInv'
    BY <2>5 DEF ApplyStatus, Report
  <2>6. CASE CollectExpired
    BY <2>6 DEF CollectExpired, ExpiredTxns, IsRecentlyExpired, Signatures, Heights
  <2>7. ASSUME NEW s \in expired, ReportExpired(s) PROVE RoundInv'
    BY <2>7 DEF ReportExpired, Report
  <2>8. CASE EndRound
    BY <2>8 DEF EndRound
  <2> QED
    BY <1>8, <2>1, <2>2, <2>3, <2>4, <2>5, <2>6, <2>7, <2>8 DEF ConfirmTask
<1>9. CASE UNCHANGED vars
  BY <1>9 DEF vars
<1> QED
  BY <1>1, <1>2, <1>3, <1>4, <1>5, <1>6, <1>7, <1>8, <1>9 DEF Next

\* Every step keeps track of what was sent: an entry leaves the map of
\* unconfirmed transactions only with a report.
LEMMA WiredStep == IInv /\ [Next]_vars => WiredInv'
<1> SUFFICES ASSUME IInv, [Next]_vars PROVE WiredInv'
  OBVIOUS
<1> USE ConstantsAssumption DEF IInv, TypeInv, TypeOK, PlaceInv, OneTransmission, WiredInv, Entries
<1> USE DEF chainVars, pollVars, subVars, taskVars, histVars
<1>1. CASE Tick
  BY <1>1 DEF Tick
<1>2. ASSUME NEW s \in wired, NEW r \in {"ok", "err"}, Land(s, r) PROVE WiredInv'
  BY <1>2 DEF Land
<1>3. ASSUME NEW ok \in BOOLEAN, PollBlockhash(ok) PROVE WiredInv'
  BY <1>3 DEF PollBlockhash
<1>4. ASSUME NEW ok \in BOOLEAN, PollHeight(ok) PROVE WiredInv'
  BY <1>4 DEF PollHeight
<1>5. ASSUME NEW src \in Sources, Subscribe(src) \/ SubscribeAll(src) PROVE WiredInv'
  BY <1>5 DEF Subscribe, SubscribeAll
<1>6. ASSUME NEW t \in Txns, SendTransaction(t) \/ ResendTransaction(t) PROVE WiredInv'
  BY <1>6 DEF SendTransaction, ResendTransaction, Push
<1>7. ASSUME NEW d \in newTxns, SendTask(d) PROVE WiredInv'
  BY <1>7 DEF SendTask, Data, Twins
<1>8. CASE ConfirmTask
  <2>1. CASE ConfirmStart
    BY <2>1 DEF ConfirmStart
  <2>2. CASE ConfirmRound
    BY <2>2 DEF ConfirmRound
  <2>3. ASSUME NEW C \in SUBSET todo, StatusesOk(C) PROVE WiredInv'
    BY <2>3 DEF StatusesOk
  <2>4. ASSUME NEW C \in SUBSET todo, StatusesErr(C) PROVE WiredInv'
    BY <2>4 DEF StatusesErr
  <2>5. ASSUME NEW s \in batch, ApplyStatus(s) PROVE WiredInv'
    BY <2>5 DEF ApplyStatus, Report, Twins
  <2>6. CASE CollectExpired
    BY <2>6 DEF CollectExpired
  <2>7. ASSUME NEW s \in expired, ReportExpired(s) PROVE WiredInv'
    BY <2>7 DEF ReportExpired, Report, RoundInv, Twins
  <2>8. CASE EndRound
    BY <2>8 DEF EndRound
  <2> QED
    BY <1>8, <2>1, <2>2, <2>3, <2>4, <2>5, <2>6, <2>7, <2>8 DEF ConfirmTask
<1>9. CASE UNCHANGED vars
  BY <1>9 DEF vars
<1> QED
  BY <1>1, <1>2, <1>3, <1>4, <1>5, <1>6, <1>7, <1>8, <1>9 DEF Next

\* Every step keeps this: a signature is queued again by resend_transaction only
\* after its report.
LEMMA RequeueStep == IInv /\ [Next]_vars => RequeueInv'
<1> SUFFICES ASSUME IInv, [Next]_vars PROVE RequeueInv'
  OBVIOUS
<1> USE ConstantsAssumption DEF IInv, TypeInv, TypeOK, RequeueInv
<1> USE DEF chainVars, pollVars, subVars, taskVars, histVars
<1>1. CASE Tick
  BY <1>1 DEF Tick
<1>2. ASSUME NEW s \in wired, NEW r \in {"ok", "err"}, Land(s, r) PROVE RequeueInv'
  BY <1>2 DEF Land
<1>3. ASSUME NEW ok \in BOOLEAN, PollBlockhash(ok) PROVE RequeueInv'
  BY <1>3 DEF PollBlockhash
<1>4. ASSUME NEW ok \in BOOLEAN, PollHeight(ok) PROVE RequeueInv'
  BY <1>4 DEF PollHeight
<1>5. ASSUME NEW src \in Sources, Subscribe(src) \/ SubscribeAll(src) PROVE RequeueInv'
  BY <1>5 DEF Subscribe, SubscribeAll
<1>6. ASSUME NEW t \in Txns, SendTransaction(t) \/ ResendTransaction(t) PROVE RequeueInv'
  BY <1>6 DEF SendTransaction, ResendTransaction, Push, WiredInv, OneTransmission, Entries, Signatures
<1>7. ASSUME NEW d \in newTxns, SendTask(d) PROVE RequeueInv'
  BY <1>7 DEF SendTask, OneTransmission, PlaceInv, Twins, Data
<1>8. CASE ConfirmTask
  <2>1. CASE ConfirmStart
    BY <2>1 DEF ConfirmStart
  <2>2. CASE ConfirmRound
    BY <2>2 DEF ConfirmRound
  <2>3. ASSUME NEW C \in SUBSET todo, StatusesOk(C) PROVE RequeueInv'
    BY <2>3 DEF StatusesOk
  <2>4. ASSUME NEW C \in SUBSET todo, StatusesErr(C) PROVE RequeueInv'
    BY <2>4 DEF StatusesErr
  <2>5. ASSUME NEW s \in batch, ApplyStatus(s) PROVE RequeueInv'
    BY <2>5 DEF ApplyStatus, Report
  <2>6. CASE CollectExpired
    BY <2>6 DEF CollectExpired
  <2>7. ASSUME NEW s \in expired, ReportExpired(s) PROVE RequeueInv'
    BY <2>7 DEF ReportExpired, Report
  <2>8. CASE EndRound
    BY <2>8 DEF EndRound
  <2> QED
    BY <1>8, <2>1, <2>2, <2>3, <2>4, <2>5, <2>6, <2>7, <2>8 DEF ConfirmTask
<1>9. CASE UNCHANGED vars
  BY <1>9 DEF vars
<1> QED
  BY <1>1, <1>2, <1>3, <1>4, <1>5, <1>6, <1>7, <1>8, <1>9 DEF Next

\* Every step keeps this: the window of recently expired transactions in
\* confirm_txn.rs leaves no landed transaction unchecked.
LEMMA CheckStep == IInv /\ [Next]_vars => CheckInv'
<1> SUFFICES ASSUME IInv, [Next]_vars PROVE CheckInv'
  OBVIOUS
<1> USE ConstantsAssumption DEF IInv, TypeInv, TypeOK, CheckInv, Excused, Entries
<1> USE DEF chainVars, pollVars, subVars, taskVars, histVars
<1>1. CASE Tick
  BY <1>1 DEF Tick
<1>2. ASSUME NEW s \in wired, NEW r \in {"ok", "err"}, Land(s, r) PROVE CheckInv'
  BY <1>2 DEF Land, HeightInv, Signatures, Heights
<1>3. ASSUME NEW ok \in BOOLEAN, PollBlockhash(ok) PROVE CheckInv'
  BY <1>3 DEF PollBlockhash
<1>4. ASSUME NEW ok \in BOOLEAN, PollHeight(ok) PROVE CheckInv'
  BY <1>4 DEF PollHeight
<1>5. ASSUME NEW src \in Sources, Subscribe(src) \/ SubscribeAll(src) PROVE CheckInv'
  BY <1>5 DEF Subscribe, SubscribeAll
<1>6. ASSUME NEW t \in Txns, SendTransaction(t) \/ ResendTransaction(t) PROVE CheckInv'
  BY <1>6 DEF SendTransaction, ResendTransaction, Push
<1>7. ASSUME NEW d \in newTxns, SendTask(d) PROVE CheckInv'
  BY <1>7 DEF SendTask, Data, PlaceInv, RequeueInv, GivenUpInv
<1>8. CASE ConfirmTask
  <2>1. CASE ConfirmStart
    BY <2>1 DEF ConfirmStart, HeightInv, PlaceInv, Signatures, Heights
  <2>2. CASE ConfirmRound
    BY <2>2 DEF ConfirmRound, ToVerify, IsRecentlyExpired, Signatures, Heights
  <2>3. ASSUME NEW C \in SUBSET todo, StatusesOk(C) PROVE CheckInv'
    BY <2>3 DEF StatusesOk
  <2>4. ASSUME NEW C \in SUBSET todo, StatusesErr(C) PROVE CheckInv'
    BY <2>4 DEF StatusesErr
  <2>5. ASSUME NEW s \in batch, ApplyStatus(s) PROVE CheckInv'
    BY <2>5 DEF ApplyStatus, Report
  <2>6. CASE CollectExpired
    BY <2>6 DEF CollectExpired
  <2>7. ASSUME NEW s \in expired, ReportExpired(s) PROVE CheckInv'
    BY <2>7 DEF ReportExpired, Report
  <2>8. CASE EndRound
    BY <2>8 DEF EndRound, RoundInv
  <2> QED
    BY <1>8, <2>1, <2>2, <2>3, <2>4, <2>5, <2>6, <2>7, <2>8 DEF ConfirmTask
<1>9. CASE UNCHANGED vars
  BY <1>9 DEF vars
<1> QED
  BY <1>1, <1>2, <1>3, <1>4, <1>5, <1>6, <1>7, <1>8, <1>9 DEF Next

\* Every step keeps this: the expiry loop gives up only what can land no more.
LEMMA GivenUpStep == IInv /\ [Next]_vars => GivenUpInv'
<1> SUFFICES ASSUME IInv, [Next]_vars PROVE GivenUpInv'
  OBVIOUS
<1> USE ConstantsAssumption DEF IInv, TypeInv, TypeOK, GivenUpInv, Excused
<1> USE DEF chainVars, pollVars, subVars, taskVars, histVars
<1>1. CASE Tick
  BY <1>1 DEF Tick, Signatures, Heights
<1>2. ASSUME NEW s \in wired, NEW r \in {"ok", "err"}, Land(s, r) PROVE GivenUpInv'
  BY <1>2 DEF Land, Signatures, Heights
<1>3. ASSUME NEW ok \in BOOLEAN, PollBlockhash(ok) PROVE GivenUpInv'
  BY <1>3 DEF PollBlockhash
<1>4. ASSUME NEW ok \in BOOLEAN, PollHeight(ok) PROVE GivenUpInv'
  BY <1>4 DEF PollHeight
<1>5. ASSUME NEW src \in Sources, Subscribe(src) \/ SubscribeAll(src) PROVE GivenUpInv'
  BY <1>5 DEF Subscribe, SubscribeAll
<1>6. ASSUME NEW t \in Txns, SendTransaction(t) \/ ResendTransaction(t) PROVE GivenUpInv'
  BY <1>6 DEF SendTransaction, ResendTransaction, Push
<1>7. ASSUME NEW d \in newTxns, SendTask(d) PROVE GivenUpInv'
  BY <1>7 DEF SendTask
<1>8. CASE ConfirmTask
  <2>1. CASE ConfirmStart
    BY <2>1 DEF ConfirmStart
  <2>2. CASE ConfirmRound
    BY <2>2 DEF ConfirmRound
  <2>3. ASSUME NEW C \in SUBSET todo, StatusesOk(C) PROVE GivenUpInv'
    BY <2>3 DEF StatusesOk
  <2>4. ASSUME NEW C \in SUBSET todo, StatusesErr(C) PROVE GivenUpInv'
    BY <2>4 DEF StatusesErr
  <2>5. ASSUME NEW s \in batch, ApplyStatus(s) PROVE GivenUpInv'
    BY <2>5 DEF ApplyStatus, Report
  <2>6. CASE CollectExpired
    BY <2>6 DEF CollectExpired
  <2>7. ASSUME NEW s \in expired, ReportExpired(s) PROVE GivenUpInv'
    BY <2>7 DEF ReportExpired, Report, RoundInv, CheckInv, HeightInv, PlaceInv, Entries, Signatures, Heights, Excused
  <2>8. CASE EndRound
    BY <2>8 DEF EndRound
  <2> QED
    BY <1>8, <2>1, <2>2, <2>3, <2>4, <2>5, <2>6, <2>7, <2>8 DEF ConfirmTask
<1>9. CASE UNCHANGED vars
  BY <1>9 DEF vars
<1> QED
  BY <1>1, <1>2, <1>3, <1>4, <1>5, <1>6, <1>7, <1>8, <1>9 DEF Next

-----------------------------------------------------------------------------

\* The inductive invariant holds in every reachable state.
THEOREM IInvHolds == Spec => []IInv
<1>1. Init => IInv
  BY InitIInv
<1>2. IInv /\ [Next]_vars => IInv'
  <2>1. IInv /\ [Next]_vars => TypeInv'
    BY TypeStep DEF IInv
  <2> QED
    BY <2>1, HeightStep, PlaceStep, OneTransmissionStep, RoundStep, WiredStep,
       RequeueStep, CheckStep, GivenUpStep DEF IInv
<1> QED
  BY <1>1, <1>2, PTL DEF Spec

\* The state of the handles, the channel, the map and both tasks keeps its
\* type: the sending task only ever maps a signature to a sent transaction.
THEOREM TypeCorrect == Spec => []TypeOK
<1>1. IInv => TypeOK
  BY DEF IInv, TypeInv
<1> QED
  BY <1>1, IInvHolds, PTL

\* A transaction that confirm_txn.rs reports as Unconfirmed is not on chain and
\* will not get there, but for the two excuses the property names.
THEOREM UnconfirmedIsFinal == Spec => []NoFalseUnconfirmed
<1>1. IInv => NoFalseUnconfirmed
  BY DEF IInv, GivenUpInv, NoFalseUnconfirmed, Excused
<1> QED
  BY <1>1, IInvHolds, PTL

\* A transaction id is queued or mapped at most once, and only while its sender
\* waits: one report per transmission.
THEOREM OneReportPerTransmission == Spec => []OneTransmission
<1>1. IInv => OneTransmission
  BY DEF IInv
<1> QED
  BY <1>1, IInvHolds, PTL

\* The unreachable! arm of the expiry loop is never taken.
THEOREM RemovalFindsItsEntry == Spec => []NoDuplicateRemoval
<1>1. IInv => NoDuplicateRemoval
  BY DEF IInv, RoundInv, NoDuplicateRemoval
<1> QED
  BY <1>1, IInvHolds, PTL

-----------------------------------------------------------------------------
(* Why the confirmation task panics.                                       *)

\* Who may send: subscribe enters its handle in the subscribers map, subscribe_all
\* does not, and only a handle sends.
HandleInv ==
    /\ registered \cap Broadcast = {} /\ handles \subseteq registered \cup Broadcast
    /\ \A t \in Txns : state[t] # "new" => SourceOf[t] \in handles

\* The transaction at which the task panicked: it is out of the map, it is not in
\* the channel, and its sender waits for it.
PanicInv ==
    pc = "panicked" =>
        \E t \in Txns : /\ SourceOf[t] \in Broadcast \ registered
                        /\ state[t] = "pending"
                        /\ \A s \in Entries : unconfirmed[s] # t
                        /\ \A d \in newTxns : d.txn # t

\* A report that finds its entry ends in a panic only for a handle of subscribe_all.
LEMMA ReportPanics ==
    ASSUME IInv, HandleInv, pc # "panicked", NEW s \in Signatures, NEW response \in {"confirmed", "unconfirmed"},
           unconfirmed[s] # NoTxn, Report(s, response),
           UNCHANGED <<registered, newTxns>>
    PROVE  PanicInv'
<1> DEFINE t == unconfirmed[s]
<1>1. t \in Txns /\ s \in Entries /\ state[t] = "pending" /\ unconfirmed \in [Signatures -> Txns \cup {NoTxn}]
  BY DEF IInv, TypeInv, TypeOK, Entries, OneTransmission
<1>2. (\A d \in newTxns : d.txn # t) /\ (\A r \in Entries : unconfirmed[r] = t => r = s)
  BY <1>1 DEF IInv, OneTransmission
<1>3. CASE SourceOf[t] \in registered
  BY <1>3 DEF Report, PanicInv
<1>4. CASE SourceOf[t] \notin registered
  <2>1. unconfirmed' = [unconfirmed EXCEPT ![s] = NoTxn] /\ UNCHANGED state
    BY <1>4 DEF Report
  <2>2. SourceOf[t] \in Broadcast \ registered
    BY <1>1, <1>4 DEF HandleInv
  <2>3. \A r \in Entries' : r \in Entries /\ unconfirmed'[r] = unconfirmed[r] /\ r # s
    BY <1>1, <2>1 DEF Entries
  <2>4. \A r \in Entries' : unconfirmed'[r] # t
    BY <1>2, <2>3
  <2>5. /\ SourceOf[t] \in Broadcast \ registered'
        /\ state'[t] = "pending"
        /\ \A r \in Entries' : unconfirmed'[r] # t
        /\ \A d \in newTxns' : d.txn # t
    BY <1>1, <1>2, <2>1, <2>2, <2>4
  <2> HIDE DEF t
  <2> QED
    BY <1>1, <2>5 DEF PanicInv
<1> QED
  BY <1>3, <1>4

\* A panic stays what it was while nothing but other transactions moves.
LEMMA PanicStays ==
    ASSUME PanicInv, UNCHANGED <<unconfirmed, state, newTxns, registered>>, pc' = "panicked" => pc = "panicked"
    PROVE  PanicInv'
BY DEF PanicInv, Entries

LEMMA HandleStep == IInv /\ HandleInv /\ [Next]_vars => HandleInv'
<1> SUFFICES ASSUME IInv, HandleInv, [Next]_vars PROVE HandleInv'
  OBVIOUS
<1> USE DEF HandleInv, subVars, histVars
<1>1. ASSUME UNCHANGED <<registered, handles, state>> PROVE HandleInv'
  BY <1>1
<1>2. ASSUME NEW src \in Sources, Subscribe(src) \/ SubscribeAll(src) PROVE HandleInv'
  BY <1>2 DEF Subscribe, SubscribeAll
<1>3. ASSUME NEW t \in Txns, SendTransaction(t) \/ ResendTransaction(t) PROVE HandleInv'
  <2>1. SourceOf[t] \in handles /\ state' = [state EXCEPT ![t] = "pending"] /\ UNCHANGED <<registered, handles>>
    BY <1>3 DEF SendTransaction, ResendTransaction, Push
  <2> QED
    BY <2>1 DEF IInv, TypeInv, TypeOK
<1>4. ASSUME NEW s \in Signatures, NEW response, unconfirmed[s] # NoTxn, Report(s, response),
             UNCHANGED <<registered, handles>>
      PROVE  HandleInv'
  <2>1. unconfirmed[s] \in Txns /\ state[unconfirmed[s]] = "pending"
    BY <1>4 DEF IInv, TypeInv, TypeOK, OneTransmission, Entries
  <2>2. UNCHANGED state \/ state' = [state EXCEPT ![unconfirmed[s]] = response]
    BY <1>4 DEF Report
  <2> QED
    BY <1>4, <2>1, <2>2 DEF IInv, TypeInv, TypeOK
<1>5. ASSUME NEW s \in batch, ApplyStatus(s) PROVE HandleInv'
  <2>1. s \in Signatures
    BY DEF IInv, TypeInv, TypeOK
  <2> QED
    BY <1>1, <1>4, <1>5, <2>1 DEF ApplyStatus
<1>6. ASSUME NEW s \in expired, ReportExpired(s) PROVE HandleInv'
  <2>1. s \in Signatures
    BY DEF IInv, TypeInv, TypeOK
  <2> QED
    BY <1>1, <1>4, <1>6, <2>1 DEF ReportExpired
<1>7. CASE ConfirmTask
  BY <1>1, <1>5, <1>6, <1>7 DEF ConfirmTask, ConfirmStart, ConfirmRound, StatusesOk, StatusesErr, CollectExpired, EndRound
<1> QED
  BY <1>1, <1>2, <1>3, <1>7 DEF Next, Tick, Land, PollBlockhash, PollHeight, SendTask, vars

LEMMA PanicStep == IInv /\ HandleInv /\ PanicInv /\ [Next]_vars => PanicInv'
<1> SUFFICES ASSUME IInv, HandleInv, PanicInv, [Next]_vars PROVE PanicInv'
  OBVIOUS
<1> USE DEF subVars, histVars, taskVars
<1>1. ASSUME NEW src \in Sources, Subscribe(src) \/ SubscribeAll(src) PROVE PanicInv'
  BY <1>1 DEF Subscribe, SubscribeAll, PanicInv, Entries
<1>2. ASSUME NEW t \in Txns, SendTransaction(t) \/ ResendTransaction(t) PROVE PanicInv'
  <2>1. /\ newTxns' = newTxns \cup {[sig |-> [content |-> ContentOf[t], lvbh |-> validUntil], txn |-> t]}
        /\ state' = [state EXCEPT ![t] = "pending"] /\ state[t] # "pending"
        /\ UNCHANGED <<registered, unconfirmed, pc>>
    BY <1>2 DEF SendTransaction, ResendTransaction, Push
  <2> QED
    BY <2>1 DEF PanicInv, Entries, IInv, TypeInv, TypeOK
<1>3. ASSUME NEW d \in newTxns, SendTask(d) PROVE PanicInv'
  BY <1>3 DEF SendTask, PanicInv, Entries, IInv, TypeInv, TypeOK
<1>4. ASSUME NEW s \in batch, ApplyStatus(s) PROVE PanicInv'
  <2>1. s \in Signatures /\ pc # "panicked" /\ UNCHANGED <<registered, newTxns>>
    BY <1>4 DEF IInv, TypeInv, TypeOK, ApplyStatus
  <2> QED
    BY <1>4, <2>1, ReportPanics, PanicStays DEF ApplyStatus
<1>5. ASSUME NEW s \in expired, ReportExpired(s) PROVE PanicInv'
  <2>1. s \in Signatures /\ pc # "panicked" /\ UNCHANGED <<registered, newTxns>>
    BY <1>5 DEF IInv, TypeInv, TypeOK, ReportExpired
  <2> QED
    BY <1>5, <2>1, ReportPanics, PanicStays DEF ReportExpired
<1>6. CASE ConfirmTask
  BY <1>4, <1>5, <1>6, PanicStays
     DEF ConfirmTask, ConfirmStart, ConfirmRound, StatusesOk, StatusesErr, CollectExpired, EndRound
<1> QED
  BY <1>1, <1>2, <1>3, <1>6, PanicStays DEF Next, Tick, Land, PollBlockhash, PollHeight, vars

\* The confirmation task panics only at a transaction of a subscribe_all handle,
\* however subscriptions, sends and rounds interleave: subscribe enters the source
\* in the map before its handle can send.
THEOREM PanicsAreBroadcast == Spec => []PanicsOnlyForBroadcast
<1>1. Init => HandleInv /\ PanicInv
  BY DEF Init, HandleInv, PanicInv
<1>2. IInv /\ HandleInv /\ PanicInv /\ [Next]_vars => HandleInv' /\ PanicInv'
  BY HandleStep, PanicStep
<1>3. PanicInv => PanicsOnlyForBroadcast
  BY DEF PanicInv, PanicsOnlyForBroadcast
<1> QED
  BY <1>1, <1>2, <1>3, IInvHolds, PTL DEF Spec

-----------------------------------------------------------------------------
(* SendConfirm implements TransactionService, for transactions with        *)
(* different messages.  Beyond the invariant above it takes that a         *)
(* transaction has at most one signature on the wire that was not given    *)
(* up, and that such a signature is mapped or has landed.                  *)

DistinctMessages == \A t, u \in Txns : ContentOf[t] = ContentOf[u] => t = u

LiveInv ==
    /\ \A s \in wired : \E t \in Txns : s.content = ContentOf[t]
    /\ \A r, s \in wired \ givenUp : r.content = s.content => r = s
    /\ \A d \in newTxns, s \in wired \ givenUp : s.content # d.sig.content
    /\ \A t \in Txns : \A s \in Own(t, wired \ givenUp) :
           unconfirmed[s] = t \/ landed[s] # "no"
    /\ \A s \in batch : s \in wired /\ landed[s] # "no"
    /\ todo \subseteq wired /\ missed \subseteq wired

RInv == IInv /\ LiveInv

-----------------------------------------------------------------------------

\* Different messages leave no twins.
LEMMA NoTwins == ASSUME DistinctMessages, NEW c PROVE ~Twins(c)
  BY DEF DistinctMessages, Twins

\* When a transaction is sent, or sent again, every earlier signature of it
\* was given up: resend_transaction is called on an Unconfirmed report.
LEMMA EarlierGivenUp ==
    ASSUME DistinctMessages, IInv, NEW t \in Txns, state[t] \in {"new", "unconfirmed"},
           NEW s \in wired, s.content = ContentOf[t]
    PROVE  s \in givenUp
<1>1. ~Twins(s.content)
  BY NoTwins
<1>2. state[t] # "new" /\ (s \in givenUp \/ unconfirmed[s] = t)
  BY <1>1 DEF IInv, WiredInv
<1>3. ASSUME unconfirmed[s] = t PROVE FALSE
  <2>1. s \in Entries
    BY <1>3, ConstantsAssumption DEF Entries, IInv, TypeInv, TypeOK
  <2> QED
    BY <2>1, <1>3 DEF IInv, OneTransmission
<1> QED
  BY <1>2, <1>3

\* Sending a transaction keeps its earlier signatures apart from the new one.
LEMMA LivePush ==
    ASSUME DistinctMessages, RInv, NEW t \in Txns, SendTransaction(t) \/ ResendTransaction(t)
    PROVE  LiveInv'
<1> USE DEF chainVars, pollVars, subVars, taskVars, histVars
<1> DEFINE d == [sig |-> [content |-> ContentOf[t], lvbh |-> validUntil], txn |-> t]
<1>1. newTxns' = newTxns \cup {d}
  BY DEF SendTransaction, ResendTransaction, Push
<1>2. UNCHANGED <<wired, givenUp, landed, unconfirmed, batch, todo, missed>>
  BY DEF SendTransaction, ResendTransaction, Push
<1>3. \A s \in wired : s.content = ContentOf[t] => s \in givenUp
  BY EarlierGivenUp DEF RInv, SendTransaction, ResendTransaction
<1>4. \A e \in newTxns', s \in (wired \ givenUp)' : s.content # e.sig.content
  BY <1>1, <1>2, <1>3 DEF RInv, LiveInv
<1> QED
  BY <1>2, <1>4 DEF RInv, LiveInv, Own

\* The sending task puts a signature on the wire whose predecessors were given
\* up, and maps it.
LEMMA LiveSendTask ==
    ASSUME DistinctMessages, RInv, NEW d \in newTxns, SendTask(d)
    PROVE  LiveInv'
<1> USE DEF chainVars, pollVars, subVars, taskVars, histVars
<1>1. d \in Data /\ d.sig.content = ContentOf[d.txn] /\ d.txn \in Txns /\ d.sig \in Signatures
  BY DEF RInv, IInv, TypeInv, TypeOK, PlaceInv, Data
<1>2. /\ newTxns' = newTxns \ {d}
      /\ unconfirmed' = [unconfirmed EXCEPT ![d.sig] = d.txn]
      /\ wired' = wired \cup {d.sig}
      /\ UNCHANGED <<landed, givenUp, batch, todo, missed>>
  BY DEF SendTask
<1>3. \A s \in wired' : \E t \in Txns : s.content = ContentOf[t]
  BY <1>1, <1>2 DEF RInv, LiveInv
<1>4. \A r, s \in (wired \ givenUp)' : r.content = s.content => r = s
  BY <1>2 DEF RInv, LiveInv
<1>5. ASSUME NEW e \in newTxns', NEW s \in (wired \ givenUp)'
      PROVE  s.content # e.sig.content
  <2>1. CASE s = d.sig
    <3>1. e \in newTxns /\ e # d
      BY <1>2, <1>5
    <3>2. e.txn \in Txns /\ e.sig.content = ContentOf[e.txn]
      BY <3>1 DEF RInv, IInv, TypeInv, TypeOK, PlaceInv, Data
    <3>3. e.txn # d.txn
      BY <3>1 DEF RInv, IInv, OneTransmission
    <3> QED
      BY <1>1, <2>1, <3>2, <3>3 DEF DistinctMessages
  <2>2. CASE s # d.sig
    BY <1>2, <1>5, <2>2 DEF RInv, LiveInv
  <2> QED
    BY <2>1, <2>2
<1>6. ASSUME NEW t \in Txns, NEW s \in Own(t, wired \ givenUp)'
      PROVE  (unconfirmed[s] = t \/ landed[s] # "no")'
  <2>1. s.content = ContentOf[t] /\ s \in wired' /\ s \notin givenUp
    BY <1>2, <1>6 DEF Own
  <2>2. CASE s = d.sig
    <3>1. t = d.txn
      BY <1>1, <2>1, <2>2 DEF DistinctMessages
    <3>2. unconfirmed \in [Signatures -> Txns \cup {NoTxn}]
      BY DEF RInv, IInv, TypeInv, TypeOK
    <3> QED
      BY <1>1, <1>2, <2>2, <3>1, <3>2
  <2>3. CASE s # d.sig
    <3>1. s \in wired \ givenUp /\ s \in Signatures
      BY <1>2, <2>1, <2>3 DEF RInv, IInv, TypeInv, TypeOK
    <3>2. unconfirmed[s] = t \/ landed[s] # "no"
      BY <3>1, <2>1 DEF RInv, LiveInv, Own
    <3>3. unconfirmed'[s] = unconfirmed[s]
      BY <1>2, <2>3, <3>1 DEF RInv, IInv, TypeInv, TypeOK
    <3> QED
      BY <1>2, <3>2, <3>3
  <2> QED
    BY <2>2, <2>3
<1>7. (\A s \in batch : s \in wired /\ landed[s] # "no")' /\ (todo \subseteq wired /\ missed \subseteq wired)'
  BY <1>2 DEF RInv, LiveInv
<1> QED
  BY <1>3, <1>4, <1>5, <1>6, <1>7 DEF LiveInv

\* Removing a mapped signature that landed or is given up.
LEMMA LiveReport ==
    ASSUME RInv, NEW s \in Signatures, unconfirmed' = [unconfirmed EXCEPT ![s] = NoTxn],
           \/ landed[s] # "no" /\ givenUp' = givenUp
           \/ givenUp' = givenUp \cup {s},
           UNCHANGED <<wired, newTxns, landed, todo, missed>>, batch' \subseteq batch
    PROVE  LiveInv'
<1>1. ASSUME NEW t \in Txns, NEW r \in Own(t, wired \ givenUp)'
      PROVE  (unconfirmed[r] = t \/ landed[r] # "no")'
  <2>1. r \in Own(t, wired \ givenUp) /\ r \in Signatures
    BY <1>1 DEF Own, RInv, IInv, TypeInv, TypeOK
  <2>2. unconfirmed[r] = t \/ landed[r] # "no"
    BY <2>1 DEF RInv, LiveInv
  <2>3. CASE r = s
    BY <1>1, <2>3 DEF Own
  <2>4. CASE r # s
    BY <2>1, <2>2, <2>4 DEF RInv, IInv, TypeInv, TypeOK
  <2> QED
    BY <2>3, <2>4
<1> QED
  BY <1>1 DEF RInv, LiveInv

\* Every step keeps what the refinement needs.
LEMMA LiveStep == ASSUME DistinctMessages, RInv, [Next]_vars PROVE LiveInv'
<1> USE DEF chainVars, pollVars, subVars, taskVars, histVars
<1>1. CASE Tick
  BY <1>1 DEF Tick, RInv, LiveInv, Own
<1>2. ASSUME NEW s \in wired, NEW r \in {"ok", "err"}, Land(s, r) PROVE LiveInv'
  <2>1. \A q \in Signatures : landed[q] # "no" => landed'[q] # "no"
    BY <1>2 DEF Land, RInv, IInv, TypeInv, TypeOK
  <2>2. wired \subseteq Signatures /\ batch \subseteq Signatures
    BY DEF RInv, IInv, TypeInv, TypeOK
  <2>3. UNCHANGED <<wired, givenUp, newTxns, unconfirmed, batch, todo, missed>>
    BY <1>2 DEF Land
  <2> QED
    BY <2>1, <2>2, <2>3 DEF RInv, LiveInv, Own
<1>3. ASSUME NEW ok \in BOOLEAN, PollBlockhash(ok) \/ PollHeight(ok) PROVE LiveInv'
  BY <1>3 DEF PollBlockhash, PollHeight, RInv, LiveInv, Own
<1>4. ASSUME NEW src \in Sources, Subscribe(src) \/ SubscribeAll(src) PROVE LiveInv'
  BY <1>4 DEF Subscribe, SubscribeAll, RInv, LiveInv, Own
<1>5. ASSUME NEW t \in Txns, SendTransaction(t) \/ ResendTransaction(t) PROVE LiveInv'
  BY <1>5, LivePush
<1>6. ASSUME NEW d \in newTxns, SendTask(d) PROVE LiveInv'
  BY <1>6, LiveSendTask
<1>7. CASE ConfirmTask
  <2>1. CASE ConfirmStart
    BY <2>1 DEF ConfirmStart, RInv, LiveInv, Own
  <2>2. CASE ConfirmRound
    <3>1. todo' \subseteq wired
      BY <2>2 DEF ConfirmRound, ToVerify, RInv, IInv, PlaceInv
    <3> QED
      BY <2>2, <3>1 DEF ConfirmRound, RInv, LiveInv, Own
  <2>3. ASSUME NEW C \in SUBSET todo, StatusesOk(C) PROVE LiveInv'
    BY <2>3 DEF StatusesOk, RInv, LiveInv, Own
  <2>4. ASSUME NEW C \in SUBSET todo, StatusesErr(C) PROVE LiveInv'
    BY <2>4 DEF StatusesErr, RInv, LiveInv, Own
  <2>5. ASSUME NEW s \in batch, ApplyStatus(s) PROVE LiveInv'
    <3>1. s \in Signatures /\ landed[s] # "no"
      BY <2>5 DEF RInv, IInv, TypeInv, TypeOK, LiveInv
    <3>2. UNCHANGED <<wired, newTxns, landed, todo, missed, givenUp>> /\ batch' \subseteq batch
      BY <2>5 DEF ApplyStatus
    <3>3. CASE unconfirmed[s] = NoTxn
      BY <2>5, <3>2, <3>3 DEF ApplyStatus, RInv, LiveInv, Own
    <3>4. CASE unconfirmed[s] # NoTxn
      BY <2>5, <3>1, <3>2, <3>4, LiveReport DEF ApplyStatus, Report
    <3> QED
      BY <3>3, <3>4
  <2>6. CASE CollectExpired
    BY <2>6 DEF CollectExpired, RInv, LiveInv, Own
  <2>7. ASSUME NEW s \in expired, ReportExpired(s) PROVE LiveInv'
    <3>1. s \in Signatures /\ unconfirmed[s] # NoTxn
      BY <2>7 DEF ReportExpired, RInv, IInv, TypeInv, TypeOK, RoundInv, Entries
    <3> QED
      BY <2>7, <3>1, LiveReport DEF ReportExpired, Report
  <2>8. CASE EndRound
    BY <2>8 DEF EndRound, RInv, LiveInv, Own
  <2> QED
    BY <1>7, <2>1, <2>2, <2>3, <2>4, <2>5, <2>6, <2>7, <2>8 DEF ConfirmTask
<1>8. CASE UNCHANGED vars
  BY <1>8 DEF vars, RInv, LiveInv, Own
<1> QED
  BY <1>1, <1>2, <1>3, <1>4, <1>5, <1>6, <1>7, <1>8 DEF Next

-----------------------------------------------------------------------------

Ex(t) == {s \in Own(t, wired) : landed[s] # "no"}
Unknown == {t \in Txns : Own(t, missed) # {}}

\* What a transaction has executed without a report of it, its sender cannot
\* know: every earlier execution of a pending transaction was missed.
LEMMA EarlierUnknown ==
    ASSUME DistinctMessages, RInv, NEW t \in Txns,
           NEW s \in Signatures, unconfirmed[s] = t, pc # "panicked" \/ s \notin givenUp,
           NEW r \in Ex(t), r # s
    PROVE  t \in Unknown
<1>1. r \in wired /\ r.content = ContentOf[t] /\ landed[r] # "no" /\ ~Twins(r.content)
  BY NoTwins DEF Ex, Own
<1>2. s \in Entries /\ s \in wired /\ s.content = ContentOf[t] /\ state[t] = "pending"
  BY ConstantsAssumption DEF Entries, RInv, IInv, PlaceInv, OneTransmission
<1>3. r \in givenUp
  <2>1. r \in givenUp \/ unconfirmed[r] = t \/ pc = "panicked"
    BY <1>1, <1>2 DEF RInv, IInv, WiredInv
  <2>2. unconfirmed[r] # t
    <3>1. r \in Signatures
      BY <1>1 DEF RInv, IInv, TypeInv, TypeOK
    <3> QED
      BY <1>2, <3>1, ConstantsAssumption DEF RInv, IInv, OneTransmission, Entries
  <2>3. pc = "panicked" /\ s \notin givenUp => r \in givenUp
    BY <1>1, <1>2 DEF RInv, LiveInv
  <2> QED
    BY <2>1, <2>2, <2>3
<1>4. r \in missed
  BY <1>1, <1>3 DEF RInv, IInv, GivenUpInv, Excused
<1> QED
  BY <1>1, <1>4 DEF Unknown, Own

\* The abstract state before the first step.
LEMMA RefInit == Init => Service!Init /\ LiveInv
<1> SUFFICES ASSUME Init PROVE Service!Init /\ LiveInv
  OBVIOUS
<1>1. LiveInv
  BY DEF Init, LiveInv, Own
<1>2. Service!Init
  BY DEF Init, Service!Init, Own
<1> QED
  BY <1>1, <1>2

\* A block takes a transaction: the abstract Execute.
LEMMA RefLand ==
    ASSUME DistinctMessages, RInv, NEW s \in wired, NEW r \in {"ok", "err"}, Land(s, r)
    PROVE  Service!Next
<1>1. PICK t \in Txns : s.content = ContentOf[t]
  BY DEF RInv, LiveInv
<1>2. s \in Signatures /\ landed[s] = "no" /\ s \notin givenUp /\ chainHeight <= s.lvbh
  <2>1. s \in Signatures /\ landed[s] = "no" /\ chainHeight <= s.lvbh
    BY DEF Land, RInv, IInv, TypeInv, TypeOK
  <2>2. chainHeight \in Nat /\ s.lvbh \in Nat
    BY <2>1, ConstantsAssumption DEF RInv, IInv, TypeInv, TypeOK, Signatures, Heights
  <2> QED
    BY <2>1, <2>2 DEF RInv, IInv, GivenUpInv
<1>3. unconfirmed[s] = t
  BY <1>1, <1>2 DEF RInv, LiveInv, Own
<1>4. state[t] = "pending"
  BY <1>2, <1>3, ConstantsAssumption DEF RInv, IInv, OneTransmission, Entries
<1>5. s \notin Ex(t) /\ (Ex(t) = {} \/ t \in Unknown)
  BY <1>2, <1>3, EarlierUnknown DEF Ex
<1>6. \A u \in Txns : Ex(u)' = IF u = t THEN Ex(t) \cup {s} ELSE Ex(u)
  <2>1. wired' = wired /\ landed' = [landed EXCEPT ![s] = r]
    BY DEF Land, chainVars, pollVars, subVars, taskVars, histVars
  <2>2. wired \subseteq Signatures /\ landed \in [Signatures -> {"no", "ok", "err"}]
    BY DEF RInv, IInv, TypeInv, TypeOK
  <2>3. \A q \in wired : landed'[q] # "no" <=> (landed[q] # "no" \/ q = s)
    BY <2>1, <2>2, <1>2
  <2>4. \A u \in Txns : s.content = ContentOf[u] => u = t
    BY <1>1 DEF DistinctMessages
  <2> QED
    BY <2>1, <2>3, <2>4, <1>1 DEF Ex, Own
<1>7. UNCHANGED <<state, missed>>
  BY DEF Land, histVars
<1>8. Service!Execute(t)
  <2>1. [u \in Txns |-> Ex(u)]' = [[u \in Txns |-> Ex(u)] EXCEPT ![t] = @ \cup {s}]
    BY <1>6
  <2> QED
    BY <1>2, <1>4, <1>5, <1>7, <2>1 DEF Service!Execute, Ex, Unknown, Own
<1> QED
  BY <1>8 DEF Service!Next

\* Sending is Send, a failed status request is Lose, the two reports are
\* Confirm and Expire, landing is Execute, and nothing else shows.
LEMMA RefStep ==
    ASSUME DistinctMessages, RInv, [Next]_vars
    PROVE  Service!Next \/ UNCHANGED Service!serviceVars
<1> USE DEF chainVars, pollVars, subVars, taskVars, histVars
<1>0. ASSUME UNCHANGED <<state, wired, landed, missed>>
      PROVE  UNCHANGED Service!serviceVars
  BY <1>0 DEF Service!serviceVars, Own
<1>1. CASE Tick
  BY <1>0, <1>1 DEF Tick
<1>2. ASSUME NEW s \in wired, NEW r \in {"ok", "err"}, Land(s, r) PROVE Service!Next
  BY <1>2, RefLand
<1>3. ASSUME NEW ok \in BOOLEAN, PollBlockhash(ok) \/ PollHeight(ok)
      PROVE  UNCHANGED Service!serviceVars
  BY <1>0, <1>3 DEF PollBlockhash, PollHeight
<1>4. ASSUME NEW src \in Sources, Subscribe(src) \/ SubscribeAll(src)
      PROVE  UNCHANGED Service!serviceVars
  BY <1>0, <1>4 DEF Subscribe, SubscribeAll
<1>5. ASSUME NEW t \in Txns, SendTransaction(t) \/ ResendTransaction(t)
      PROVE  Service!Next
  BY <1>5 DEF SendTransaction, ResendTransaction, Push, Service!Next, Service!Send, Own
<1>6. ASSUME NEW d \in newTxns, SendTask(d) PROVE UNCHANGED Service!serviceVars
  <2>1. d.sig \in Signatures /\ (landed[d.sig] # "no" => d.sig \in wired)
    BY DEF RInv, IInv, TypeInv, TypeOK, PlaceInv, Data
  <2>2. /\ wired' = wired \cup {d.sig}
        /\ UNCHANGED <<state, landed, missed>>
    BY <1>6 DEF SendTask
  <2> QED
    BY <2>1, <2>2 DEF Service!serviceVars, Own
<1>7. CASE ConfirmTask
  <2>1. CASE ConfirmStart \/ ConfirmRound \/ CollectExpired \/ EndRound
    BY <1>0, <2>1 DEF ConfirmStart, ConfirmRound, CollectExpired, EndRound
  <2>2. ASSUME NEW C \in SUBSET todo, StatusesOk(C) PROVE UNCHANGED Service!serviceVars
    BY <1>0, <2>2 DEF StatusesOk
  <2>3. ASSUME NEW C \in SUBSET todo, StatusesErr(C) PROVE Service!Next
    <3>1. missed \subseteq missed' /\ UNCHANGED <<state, wired, landed>>
      BY <2>3 DEF StatusesErr
    <3>2. Unknown' \ Unknown \in SUBSET (Txns \ Unknown) /\ Unknown' = Unknown \cup (Unknown' \ Unknown)
      BY <3>1 DEF Unknown, Own
    <3>3. Service!Lose(Unknown' \ Unknown)
      BY <3>1, <3>2 DEF Service!Lose, Unknown, Own
    <3> QED
      BY <3>2, <3>3 DEF Service!Next, Unknown
  <2>4. ASSUME NEW s \in batch, ApplyStatus(s)
        PROVE  Service!Next \/ UNCHANGED Service!serviceVars
    <3>1. CASE unconfirmed[s] = NoTxn
      BY <1>0, <2>4, <3>1 DEF ApplyStatus
    <3>2. CASE unconfirmed[s] # NoTxn /\ SourceOf[unconfirmed[s]] \notin registered
      BY <1>0, <2>4, <3>2 DEF ApplyStatus, Report
    <3>3. CASE unconfirmed[s] # NoTxn /\ SourceOf[unconfirmed[s]] \in registered
      <4> DEFINE t == unconfirmed[s]
      <4>1. /\ s \in Entries /\ s \in wired /\ landed[s] # "no" /\ t \in Txns
            /\ state[t] = "pending" /\ s.content = ContentOf[t]
        BY <2>4, <3>3 DEF RInv, LiveInv, IInv, TypeInv, TypeOK, PlaceInv, OneTransmission, Entries
      <4>2. state' = [state EXCEPT ![t] = "confirmed"] /\ UNCHANGED <<wired, landed, missed>>
        BY <2>4, <3>3 DEF ApplyStatus, Report
      <4>3. Service!Confirm(t)
        BY <4>1, <4>2 DEF Service!Confirm, Own
      <4> QED
        BY <4>1, <4>3 DEF Service!Next
    <3> QED
      BY <3>1, <3>2, <3>3
  <2>5. ASSUME NEW s \in expired, ReportExpired(s)
        PROVE  Service!Next \/ UNCHANGED Service!serviceVars
    <3>1. s \in Entries /\ last > s.lvbh /\ pc = "expire"
      BY <2>5 DEF ReportExpired, RInv, IInv, RoundInv
    <3>2. CASE SourceOf[unconfirmed[s]] \notin registered
      BY <1>0, <2>5, <3>1, <3>2 DEF ReportExpired, Report, Entries
    <3>3. CASE SourceOf[unconfirmed[s]] \in registered
      <4> DEFINE t == unconfirmed[s]
      <4>1. /\ s \in Signatures /\ t \in Txns /\ state[t] = "pending"
            /\ s \in wired /\ s.content = ContentOf[t]
        BY <3>1 DEF RInv, IInv, TypeInv, TypeOK, PlaceInv, OneTransmission, Entries
      <4>2. state' = [state EXCEPT ![t] = "unconfirmed"] /\ UNCHANGED <<wired, landed, missed>>
        BY <2>5, <3>1, <3>3 DEF ReportExpired, Report, Entries
      <4>3. landed[s] # "no" => t \in Unknown
        <5>1. landed[s] # "no" => s \in missed
          BY <3>1, NoTwins DEF RInv, IInv, CheckInv, Excused
        <5> QED
          BY <4>1, <5>1 DEF Unknown, Own
      <4>4. Ex(t) = {} \/ t \in Unknown
        BY <3>1, <4>1, <4>3, EarlierUnknown DEF Ex
      <4>5. Service!Expire(t)
        BY <4>1, <4>2, <4>4 DEF Service!Expire, Ex, Unknown, Own
      <4> QED
        BY <4>1, <4>5 DEF Service!Next
    <3> QED
      BY <3>2, <3>3
  <2> QED
    BY <1>7, <2>1, <2>2, <2>3, <2>4, <2>5 DEF ConfirmTask
<1>8. CASE UNCHANGED vars
  BY <1>0, <1>8 DEF vars
<1> QED
  BY <1>1, <1>2, <1>3, <1>4, <1>5, <1>6, <1>7, <1>8 DEF Next

\* The handles, the sending task, the polling task and the confirmation task
\* together implement the abstract service, for any number of transactions,
\* blocks and resends, if no two transactions carry one message.
THEOREM ServiceRefinement ==
    ASSUME DistinctMessages PROVE Spec => ImplementsService
<1>1. Init => IInv /\ LiveInv
  BY InitIInv, RefInit
<1>2. RInv /\ [Next]_vars => LiveInv'
  BY LiveStep
<1>3. Spec => []RInv
  <2>1. Init => LiveInv
    BY <1>1
  <2>2. IInv /\ LiveInv /\ [Next]_vars => LiveInv'
    BY <1>2 DEF RInv
  <2>3. IInv /\ LiveInv => RInv
    BY DEF RInv
  <2> QED
    BY <2>1, <2>2, <2>3, IInvHolds, PTL DEF Spec
<1>4. Init => Service!Init
  BY RefInit
<1>5. RInv /\ [Next]_vars => [Service!Next]_(Service!serviceVars)
  BY RefStep
<1> QED
  BY <1>3, <1>4, <1>5, PTL DEF Spec, ImplementsService, Service!Spec
=============================================================================
