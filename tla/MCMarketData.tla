---------------------------- MODULE MCMarketData ----------------------------
(* A few orders at two prices, and a pool smaller than the orders of a day. *)
EXTENDS MarketData
=============================================================================
