--------------------------- MODULE MCTradeSession ---------------------------
(* TradeSession on small instances. *)
EXTENDS TradeSession
=============================================================================
