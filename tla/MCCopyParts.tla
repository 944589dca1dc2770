---------------------------- MODULE MCCopyParts ----------------------------
(* Parts that stand by themselves for TLC, one at a time: the orders of    *)
(* wallets in ping mode, the map of pending transactions, the parser of    *)
(* swaps, instructions from their builder to the parser, and the slot      *)
(* notifications with the leader tracker.                                  *)
EXTENDS MCPingMode, PendingMap, InstructionBuilding, SwapParser, SlotLeaders

VARIABLE part

\* Leaders have two slots in a row.
Schedule == [s \in 0 .. 20 |-> (s \div 2) % 3]

\* Where there is nothing to parse.
ParserIdle ==
    /\ pstage = "idle" /\ tx = [deeds |-> <<>>] /\ todo = <<>> /\ inner = FALSE /\ line = 0
    /\ stack = <<>> /\ events = <<>> /\ result = [kind |-> "none"]

MCInit ==
    /\ Init /\ MapInit /\ BuildInit /\ FeedInit /\ LeadersInit
    /\ \/ part = "parser" /\ ParserInit
       \/ part \in {"ping", "map", "build", "leaders"} /\ ParserIdle

slotVars == <<feedVars, leaderVars>>

MCNext ==
    /\ UNCHANGED part
    /\ \/ part = "ping" /\ Next /\ UNCHANGED <<mapVars, ixVars, parserVars, slotVars>>
       \/ part = "map" /\ MapNext /\ UNCHANGED <<vars, ixVars, parserVars, slotVars>>
       \/ part = "build" /\ BuildNext /\ UNCHANGED <<vars, mapVars, parserVars, slotVars>>
       \/ part = "parser" /\ ParserNext /\ UNCHANGED <<vars, mapVars, ixVars, slotVars>>
       \/ /\ part = "leaders" /\ UNCHANGED <<vars, mapVars, ixVars, parserVars>>
          /\ (FeedStep /\ UNCHANGED leaderVars) \/ LeadersStep

MCSpec == MCInit /\ [][MCNext]_<<vars, mapVars, ixVars, parserVars, slotVars, part>>
=============================================================================
