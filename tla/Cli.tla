-------------------------------- MODULE Cli --------------------------------
(***************************************************************************)
(* Key selection and argument parsers of src/runtime/src/cli.rs.          *)
(*                                                                         *)
(*  - which key source `ProviderUserOpts::get_key_pair` uses for the      *)
(*    option combinations that clap's attributes let through;             *)
(*  - how `get_pair_from_uri` and `get_credentials_from_file` read a key  *)
(*    string: hex seed (with or without "0x") or mnemonic;                *)
(*  - `parse_duration_minutes`, whose `* 60` is u64 arithmetic.           *)
(*                                                                         *)
(* The functions are pure; a behaviour picks one input (an option         *)
(* combination, a key string or a number) and makes one call on it, so   *)
(* each invariant is checked for every input of the bounded sets.         *)
(***************************************************************************)
EXTENDS Naturals, Sequences, SequencesExt

CONSTANTS
    HexChars,     \* characters with `is_ascii_hexdigit`
    OtherChars,   \* other characters (including "x")
    SeedBytes,    \* length of a secret seed in bytes (32 in the code)
    MaxKeyLen,    \* longest key string enumerated
    Phrase,       \* a valid mnemonic phrase (a character sequence)
    Width         \* bit width of the duration arithmetic (u64 in the code)

ASSUME "0" \in HexChars /\ "x" \in OtherChars

VARIABLES input, result

Opts == [keyfile : BOOLEAN, keyname : BOOLEAN, keyring : BOOLEAN, keyuri : BOOLEAN]
KeyStrings == BoundedSeq(HexChars \cup OtherChars, MaxKeyLen)
U64 == 0..(2^Width - 1)
Inputs ==
    [opts : Opts] \cup [key : KeyStrings] \cup [minutes : U64]

\* Key pairs, by what they are derived from.
Seed(hex) == [kind |-> "seed", hex |-> hex]
PhraseKey == [kind |-> "phrase", hex |-> << >>]
Invalid == [kind |-> "invalid", hex |-> << >>]

(***************************************************************************)
(* clap's `conflicts_with`, `requires` and `required_unless_present*`     *)
(* attributes of ProviderUserOpts: the option combinations that reach     *)
(* `get_key_pair`.                                                         *)
(***************************************************************************)
ClapAccepts(o) ==
    /\ o.keyring => ~o.keyfile /\ ~o.keyuri /\ ~o.keyname
    /\ o.keyfile => o.keyname
    /\ o.keyuri => o.keyname
    /\ ~o.keyname => o.keyring
    /\ ~o.keyfile => o.keyring \/ o.keyuri
    /\ ~o.keyuri => o.keyring \/ o.keyfile

\* The arms of the `match` in `get_key_pair`, in order.
KeySource(o) ==
    CASE o.keyfile /\ o.keyname /\ ~o.keyring /\ ~o.keyuri -> "file"
      [] ~o.keyfile /\ o.keyname /\ ~o.keyring /\ o.keyuri -> "uri"
      [] o.keyfile /\ o.keyname /\ ~o.keyring /\ o.keyuri -> "uri"
      [] ~o.keyfile /\ ~o.keyname /\ o.keyring /\ ~o.keyuri -> "keyring"
      [] OTHER -> "KeyringArgumentError"

AllHex(s) == \A i \in 1..Len(s) : s[i] \in HexChars
StartsWith0x(s) == IsPrefix(<<"0", "x">>, s)
Drop0x(s) == SubSeq(s, 3, Len(s))
SeedChars == 2 * SeedBytes

\* `str::trim_start_matches("0x")`: removes every leading "0x".
RECURSIVE TrimStart0x(_)
TrimStart0x(s) == IF StartsWith0x(s) THEN TrimStart0x(Drop0x(s)) ELSE s

\* `hex::decode` succeeds: an even number of hex digits.
HexDecodes(s) == AllHex(s) /\ Len(s) % 2 = 0

(***************************************************************************)
(* `get_pair_from_hex_seed`: trim, `hex::decode`, the 32-byte check, then *)
(* `from_seed_slice`; every failure is InvalidFormat.                     *)
(***************************************************************************)
GetPairFromHexSeed(s) ==
    LET clean == TrimStart0x(s)
    IN IF HexDecodes(clean) /\ Len(clean) \div 2 = SeedBytes
         THEN Seed(clean) ELSE Invalid

(***************************************************************************)
(* `sr25519::Pair::from_string(s, None)` of sp_core (outside this          *)
(* repository): a "0x"-prefixed string is a hex seed, anything else a     *)
(* mnemonic phrase.                                                       *)
(***************************************************************************)
FromString(s) ==
    IF StartsWith0x(s)
      THEN IF HexDecodes(Drop0x(s)) /\ Len(Drop0x(s)) \div 2 = SeedBytes
             THEN Seed(Drop0x(s)) ELSE Invalid
      ELSE IF s = Phrase THEN PhraseKey ELSE Invalid

\* `get_pair_from_uri`: 64 hex digits, or "0x" and 64 hex digits, is a hex
\* seed; anything else goes to `from_string`.
GetPairFromUri(s) ==
    IF \/ Len(s) = SeedChars /\ AllHex(s)
       \/ StartsWith0x(s) /\ Len(s) = SeedChars + 2 /\ AllHex(Drop0x(s))
      THEN GetPairFromHexSeed(s)
      ELSE FromString(s)

\* `get_credentials_from_file` for the entry `keyname` maps to: a hex seed
\* if it starts with "0x", otherwise `from_string`.
GetCredentialsFromFile(s) ==
    IF StartsWith0x(s) THEN GetPairFromHexSeed(s) ELSE FromString(s)

(***************************************************************************)
(* `parse_duration_minutes`: `src.parse::<u64>()? * 60`.  Without         *)
(* overflow checks (release builds) the product wraps; with them (debug)  *)
(* it panics.                                                             *)
(***************************************************************************)
ParseDurationMinutes(n) ==
    {[panic |-> FALSE, secs |-> (n * 60) % 2^Width]}
    \cup (IF n * 60 >= 2^Width THEN {[panic |-> TRUE, secs |-> 0]} ELSE {})

-----------------------------------------------------------------------------
(* The reference: what "supports both mnemonic and hex seed" means.       *)

HexSeeds == {s \in KeyStrings : Len(s) = SeedChars /\ AllHex(s)}

\* A key string is a hex seed, bare or after one "0x", or a mnemonic.
RefKey(s) ==
    IF s \in HexSeeds THEN Seed(s)
    ELSE IF StartsWith0x(s) /\ Drop0x(s) \in HexSeeds THEN Seed(Drop0x(s))
    ELSE IF s = Phrase THEN PhraseKey
    ELSE Invalid

Is(field) == field \in DOMAIN input
NoResult == [op |-> "none", out |-> "none"]

Init == input \in Inputs /\ result = NoResult

\* The program parses its options (clap rejects what the attributes forbid)
\* and calls `get_key_pair`.
GetKeyPair ==
    /\ Is("opts") /\ result = NoResult
    /\ result' = [op |-> "key_pair",
                  out |-> IF ClapAccepts(input.opts) THEN KeySource(input.opts)
                          ELSE "ClapError"]
    /\ UNCHANGED input

\* --keyuri given: `get_pair_from_uri`.
LoadKeyUri ==
    /\ Is("key") /\ result = NoResult
    /\ result' = [op |-> "uri", out |-> GetPairFromUri(input.key)]
    /\ UNCHANGED input

\* --keyfile given and the entry found: `get_credentials_from_file`.
LoadKeyFile ==
    /\ Is("key") /\ result = NoResult
    /\ result' = [op |-> "file", out |-> GetCredentialsFromFile(input.key)]
    /\ UNCHANGED input

\* A minutes option parsed by `parse_duration_minutes`.
ParseMinutes ==
    /\ Is("minutes") /\ result = NoResult
    /\ \E r \in ParseDurationMinutes(input.minutes) :
           result' = [op |-> "minutes", out |-> r]
    /\ UNCHANGED input

Next == GetKeyPair \/ LoadKeyUri \/ LoadKeyFile \/ ParseMinutes

Spec == Init /\ [][Next]_<<input, result>>

-----------------------------------------------------------------------------
(* Properties                                                              *)

(***************************************************************************)
(* `get_credentials_from_file` reads a keyfile entry the same way ("supports *)
(* both mnemonic and hex seed", like `get_pair_from_uri`).                *)
(***************************************************************************)
FileKeyMatchesReference ==
    result.op = "file" => result.out = RefKey(input.key)

(***************************************************************************)
(* `parse_duration_minutes(n)` either fails or is n minutes long.         *)
(***************************************************************************)
DurationMinutesExact ==
    result.op = "minutes" =>
        result.out.panic \/ result.out.secs = input.minutes * 60

=============================================================================
