----------------------------- MODULE MCProvider -----------------------------
(* Instance of Provider for TLC: two concurrent callers with two calls    *)
(* each (an extrinsic or get_address), one failure, and a 2-bit target   *)
(* width with one rate that fits and one that does not.                  *)
EXTENDS Provider

CONSTANTS t1, t2

MCTasks == {t1, t2}
=============================================================================
