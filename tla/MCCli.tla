-------------------------------- MODULE MCCli --------------------------------
(* Instance of Cli for TLC: hex digits "0" and "a", non-hex "x" and "w",  *)
(* one-byte seeds (two hex digits, four with "0x"), key strings up to six *)
(* characters so that "0x0x" followed by a seed is included, and 8-bit    *)
(* arithmetic standing for u64.                                           *)
EXTENDS Cli

MCHexChars == {"0", "a"}
MCOtherChars == {"x", "w"}
MCPhrase == <<"w", "w">>
=============================================================================
