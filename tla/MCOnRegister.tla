---------------------------- MODULE MCOnRegister ----------------------------
(* Instance of OnRegister for TLC: two vaults, so an event can follow an  *)
(* error item, and one subscription error.                                *)
EXTENDS OnRegister

CONSTANTS v1, v2

MCVaults == {v1, v2}
=============================================================================
