----------------------------- MODULE MCStreams -----------------------------
(* The three transaction streams for TLC: a process runs one of them.      *)
EXTENDS PollTransactions, HistoricalTransactions, GrpcTransactions

VARIABLE stream

\* The second request for past transactions says where to start.
OneGiven == <<0, 4>>

MCVars == <<vars, historicalVars, grpcVars, stream>>

MCInit ==
    /\ Init /\ HistoricalInit /\ GrpcInit
    /\ stream \in {"poll", "historical", "grpc"}

MCNext ==
    /\ UNCHANGED stream
    /\ \/ stream = "poll" /\ Next /\ UNCHANGED <<historicalVars, grpcVars>>
       \/ stream = "historical" /\ HistoricalNext /\ UNCHANGED <<vars, grpcVars>>
       \/ stream = "grpc" /\ GrpcNext /\ UNCHANGED <<vars, historicalVars>>

MCSpec ==
    /\ MCInit /\ [][MCNext]_MCVars
    /\ WF_vars(stream = "poll" /\ Manager)
    /\ \A g \in 1 .. MaxTasks : WF_vars(stream = "poll" /\ Watch(g))
    /\ GrpcFairness
=============================================================================
