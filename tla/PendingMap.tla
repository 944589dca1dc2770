---------------------------- MODULE PendingMap -----------------------------
(***************************************************************************)
(* PendingTransactionsMap of services/copy/v2/service.rs as a component of *)
(* its own: what a capacity of at least five, as in the default            *)
(* configuration, guarantees to the transactions that wait in it.          *)
(***************************************************************************)
EXTENDS PendingTransactions

CONSTANTS
    Capacity,       \* config.max_pending_queue_length
    MaxInserts      \* bound: transactions inserted

ASSUME CapacityAssumption == Capacity \in Nat /\ Capacity >= 5

ASSUME MaxInsertsAssumption == MaxInserts \in Nat

VARIABLES
    m,          \* the map
    inserted,   \* number of transactions inserted; the ids are 1 .. inserted
    answered    \* ids that were removed because their report came

mapVars == <<m, inserted, answered>>

MapInit == m = {} /\ inserted = 0 /\ answered = {}

Insert ==
    /\ inserted < MaxInserts
    /\ inserted' = inserted + 1
    /\ m' = InsertPending(m, Capacity, [id |-> inserted + 1])
    /\ UNCHANGED answered

\* remove, which finds nothing when the entry was shed.
RemoveEntry(id) ==
    /\ id \notin answered
    /\ m' = RemovePending(m, id)
    /\ answered' = answered \cup {id}
    /\ UNCHANGED inserted

MapNext == Insert \/ \E id \in 1 .. inserted : RemoveEntry(id)

-----------------------------------------------------------------------------

\* Only an old entry is shed: one that waits for its report is in the map unless
\* at least four fifths of the capacity were inserted after it.  And with a
\* capacity of at least five the map never holds more entries than its capacity,
\* however inserts and removals alternate.
ShedOnlyOld ==
    /\ Cardinality(m) <= Capacity
    /\ \A i \in 1 .. inserted :
           i \notin answered /\ (\A e \in m : e.id # i)
               => inserted - i >= Capacity - DropSize(Capacity)
=============================================================================
