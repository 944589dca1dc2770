------------------------ MODULE PendingTransactions ------------------------
(***************************************************************************)
(* PendingTransactionsMap of services/copy/v2/service.rs, as operators on  *)
(* the set of its entries.  An entry is a record with an id; ids grow with *)
(* the time of insertion, so the oldest entry is the one with the least id.*)
(***************************************************************************)
EXTENDS Naturals, FiniteSets

\* The service passes a fifth of the capacity as the number to drop.
DropSize(capacity) == capacity \div 5

Newer(m, e) == {f \in m : f.id > e.id}

\* Mutant: sorted the other way, the newest entries are dropped.
KeptOldest(m, capacity) ==
    IF Cardinality(m) >= capacity
    THEN {e \in m : Cardinality({f \in m : f.id < e.id}) < capacity - DropSize(capacity)}
    ELSE m

\* When full, sort by age and drop what follows the first capacity - n.
Kept(m, capacity) ==
    IF Cardinality(m) >= capacity
    THEN {e \in m : Cardinality(Newer(m, e)) < capacity - DropSize(capacity)}
    ELSE m

InsertPending(m, capacity, e) == Kept(m, capacity) \cup {e}

RemovePending(m, id) == {e \in m : e.id # id}
=============================================================================
