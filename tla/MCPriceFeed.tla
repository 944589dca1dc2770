---------------------------- MODULE MCPriceFeed ----------------------------
(* Instance of PriceFeed for TLC.                                          *)
EXTENDS PriceFeed
=============================================================================
