--------------------------- MODULE MCTradePolling ---------------------------
(* Two trades the client sends, so that one may be processed while the     *)
(* other's sender waits, is cancelled or has not started.  A received one  *)
(* has nobody waiting for it: it matters to what is polled only.  One of   *)
(* them may be fetched by fetch_trade, the other shows what that costs it. *)
EXTENDS TradePolling

CONSTANTS s1, s2

MCSent == {s1, s2}
MCNoTrades == {}
MCFetchable == {s1}
=============================================================================
