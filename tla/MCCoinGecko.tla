----------------------------- MODULE MCCoinGecko -----------------------------
(* Instance of CoinGecko for TLC: one currency name and two symbols, so a *)
(* lookup can pick the wrong level or the wrong symbol; configured paths  *)
(* of up to three characters, which include "/", "/v" and "/v/".          *)
EXTENDS CoinGecko

MCIds == {"bitcoin"}
MCSymbols == {"usd", "dot"}
=============================================================================
