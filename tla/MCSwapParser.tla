---------------------------- MODULE MCSwapParser ----------------------------
(* The parser of swaps by itself, for TLC.                                 *)
EXTENDS SwapParser

MCSpec == ParserInit /\ [][ParserNext]_parserVars
=============================================================================
