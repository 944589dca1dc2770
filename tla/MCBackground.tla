---------------------------- MODULE MCBackground ----------------------------
(* Two parts in the background for TLC, one at a time: the storage of      *)
(* confirmed copies and their dust, and the stream of blocks.  Two buys of *)
(* A and a sell that takes more than the first of them left in the         *)
(* history, nothing in B; the node announces a slot a second time.         *)
EXTENDS DustStorage, BlockStream, TLC

CONSTANTS b1, b2, s1, A, B

VARIABLE part

Copies == (b1 :> [token |-> A, direction |-> "buy", origin |-> 3, exec |-> 4]) @@
          (b2 :> [token |-> A, direction |-> "buy", origin |-> 2, exec |-> 2]) @@
          (s1 :> [token |-> A, direction |-> "sell", origin |-> 2, exec |-> 3])

Announcements == <<1, 1>>

MCInit ==
    /\ Init /\ BlocksInit
    /\ \/ part = "storage" /\ scheme = "Both"
       \/ part = "blocks" /\ kind = "file"

MCNext ==
    /\ UNCHANGED part
    /\ \/ part = "storage" /\ Next /\ UNCHANGED blockVars
       \/ part = "blocks" /\ BlocksStep /\ UNCHANGED vars

\* A part that is not run has nothing to do: its tasks are fair in their own part.
Fair ==
    /\ WF_vars(SweepStep) /\ WF_vars(DatabaseStep)
    /\ WF_blockVars(part = "blocks" /\ Return)
    /\ WF_blockVars(part = "blocks" /\ ReplayStep)
    /\ \A w \in Workers : WF_blockVars(part = "blocks" /\ WorkerStep(w))

MCSpec == MCInit /\ [][MCNext]_<<vars, blockVars, part>> /\ Fair
=============================================================================
