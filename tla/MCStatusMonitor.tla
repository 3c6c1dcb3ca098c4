--------------------------- MODULE MCStatusMonitor ---------------------------
(* Instance of StatusMonitor for TLC: a two-block Bitcoin main chain, one *)
(* fork block, this relayer and one other.                                *)
EXTENDS StatusMonitor

CONSTANTS b1, b2, f1, r1

MCMainChain == <<b1, b2>>
MCForkHashes == {f1}
MCOthers == {r1}
=============================================================================
