--------------------------- MODULE MCMarketStream ---------------------------
(* One candle key and one other, two readers of which one never unsubscribes, *)
(* a table that holds both keys, one reconnection attempt.                    *)
EXTENDS MarketStream

CONSTANTS c1, c2, candles, ticks
=============================================================================
