--------------------------- MODULE MCTradeService ---------------------------
(* Small instances of TradeService. *)
EXTENDS TradeService
=============================================================================
