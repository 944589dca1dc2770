------------------------ MODULE TransactionService ------------------------
(***************************************************************************)
(* What the transaction service promises whoever sends with it, without    *)
(* blocks, channels, maps and tasks: a transaction that is sent executes   *)
(* at most once and only until its report, and the report says what        *)
(* happened, unless the RPC node failed to answer the one request that     *)
(* would have told.  SendConfirm implements it (its ImplementsService).    *)
(***************************************************************************)
CONSTANTS
    Txns,           \* transaction ids
    Executions      \* ways in which a transaction can have executed

VARIABLES
    status,         \* what the sender knows of a transaction
    executed,       \* how a transaction has executed so far
    unknown         \* transactions whose outcome could not be learnt

serviceVars == <<status, executed, unknown>>

Init ==
    /\ status = [t \in Txns |-> "new"]
    /\ executed = [t \in Txns |-> {}]
    /\ unknown = {}

\* The first transmission, or another one after an Unconfirmed report.
Send(t) ==
    /\ status[t] \in {"new", "unconfirmed"}
    /\ status' = [status EXCEPT ![t] = "pending"]
    /\ UNCHANGED <<executed, unknown>>

\* Only what waits for its report executes, and it has not executed before,
\* in this or an earlier transmission, if the sender can know of it.
Execute(t) ==
    /\ status[t] = "pending"
    /\ executed[t] = {} \/ t \in unknown
    /\ \E e \in Executions \ executed[t] :
            executed' = [executed EXCEPT ![t] = @ \cup {e}]
    /\ UNCHANGED <<status, unknown>>

Lose(T) ==
    /\ unknown' = unknown \cup T
    /\ UNCHANGED <<status, executed>>

Confirm(t) ==
    /\ status[t] = "pending"
    /\ status' = [status EXCEPT ![t] = "confirmed"]
    /\ executed[t] # {}
    /\ UNCHANGED <<executed, unknown>>

Expire(t) ==
    /\ status[t] = "pending"
    /\ status' = [status EXCEPT ![t] = "unconfirmed"]
    /\ executed[t] = {} \/ t \in unknown
    /\ UNCHANGED <<executed, unknown>>

Next ==
    \/ \E t \in Txns : Send(t) \/ Execute(t) \/ Confirm(t) \/ Expire(t)
    \/ \E T \in SUBSET (Txns \ unknown) : Lose(T)

Spec == Init /\ [][Next]_serviceVars
=============================================================================
