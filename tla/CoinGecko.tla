------------------------------ MODULE CoinGecko ------------------------------
(***************************************************************************)
(* The CoinGecko price feed of src/oracle/src/feeds/coingecko.rs.          *)
(*                                                                         *)
(* The oracle builds a feed from its options (`from_opts`), then asks it   *)
(* for the price of a currency pair (`get_price`).  `get_exchange_rate`    *)
(* appends "/simple/price" to the configured URL's path, replaces the      *)
(* query with ids and vs_currencies, appends the API key if there is one, *)
(* fetches the JSON and looks up value[base][quote].                       *)
(*                                                                         *)
(* A URL path is a character sequence over "/" and a segment character;   *)
(* the fixed suffix "/simple/price" is <<"/", "s", "/", "p">>.  A query   *)
(* is a sequence of <<name, value>> pairs.  The JSON answer is a function *)
(* from some <<key, key>> pairs to numbers (a two-level object) in an    *)
(* "ok" answer, or an HTTP error.                                          *)
(***************************************************************************)
EXTENDS Naturals, Sequences, SequencesExt

CONSTANTS
    SegChar,      \* a character of a path segment
    MaxPathLen,   \* longest configured path enumerated
    Ids,          \* lower-cased currency names (`base.name()`)
    Symbols,      \* lower-cased currency symbols (`quote.symbol()`)
    Key,          \* an API key
    Prices,       \* numbers the answer may hold (model values)
    None          \* an absent option

VARIABLES
    phase,    \* "start", "built" (after `from_opts`), "fetched" (after `get_price`)
    opts,     \* the parsed CoinGeckoCli
    api,      \* the Option<CoinGeckoApi> from `from_opts`
    pair,     \* the currency pair asked for
    request,  \* the URL `get_exchange_rate` fetched, or None
    answer,   \* what the fetch returned
    price     \* what `get_price` returned: a number, an error, or None

vars == <<phase, opts, api, pair, request, answer, price>>

\* `Url::path()` of a parsed http(s) URL: never empty, starts with "/".
Paths == {<<"/">> \o s : s \in BoundedSeq({"/", SegChar}, MaxPathLen - 1)}
Urls == [path : Paths]
Suffix == <<"/", "s", "/", "p">>
Pairs == Ids \X Symbols
\* Object keys at either level: the answer may nest the levels either way.
JsonKeys == (Ids \X Symbols) \cup (Symbols \X Ids)
Answers == {[status |-> "err"]} \cup
           {[status |-> "ok", json |-> j] :
              j \in UNION {[D -> Prices] : D \in SUBSET JsonKeys}}

Init ==
    /\ opts \in [url : Urls \cup {None}, key : {Key, None}]
    /\ phase = "start"
    /\ api = None
    /\ pair \in Pairs
    /\ request = None
    /\ answer = None
    /\ price = None

\* `from_opts`, with `new` and `with_key`: a feed only if a URL was given.
FromOpts ==
    /\ phase = "start" /\ phase' = "built"
    /\ api' = IF opts.url = None THEN None
              ELSE [url |-> opts.url, apiKey |-> opts.key]
    /\ UNCHANGED <<opts, pair, request, answer, price>>

\* `extract_response`: value.get(base)?.get(quote)?.as_f64().
ExtractResponse(value, base, quote) ==
    IF <<base, quote>> \in DOMAIN value THEN value[<<base, quote>>] ELSE None

\* The URL `get_exchange_rate` builds: `set_path`, `set_query`, then
\* `append_pair` of the key.
RequestUrl(a, base, quote) ==
    [path |-> a.url.path \o Suffix,
     query |-> <<<<"ids", base>>, <<"vs_currencies", quote>>>>
               \o (IF a.apiKey = None THEN << >>
                   ELSE <<<<"x_cg_pro_api_key", a.apiKey>>>>)]

(***************************************************************************)
(* `get_price` and the `get_exchange_rate` it awaits, in one step: the     *)
(* fetch answer is the environment's choice.  An HTTP error and a missing *)
(* entry are errors (`?` and `ok_or(InvalidResponse)`).                    *)
(***************************************************************************)
GetPrice ==
    /\ phase = "built" /\ phase' = "fetched"
    /\ api # None
    /\ request' = RequestUrl(api, pair[1], pair[2])
    /\ \E a \in Answers :
         /\ answer' = a
         /\ price' = CASE a.status = "err" -> "http_err"
                       [] ExtractResponse(a.json, pair[1], pair[2]) = None
                            -> "InvalidResponse"
                       [] OTHER -> ExtractResponse(a.json, pair[1], pair[2])
    /\ UNCHANGED <<opts, api, pair>>

Next == FromOpts \/ GetPrice

Spec == Init /\ [][Next]_vars

-----------------------------------------------------------------------------
(* Properties                                                              *)

(***************************************************************************)
(* The request path has no empty segment: `set_path` of path + "/simple/  *)
(* price" adds the separator itself, so a configured URL ending in "/" -- *)
(* the form the option's help text shows -- yields ".../v3//simple/price".*)
(***************************************************************************)
RequestPathHasNoEmptySegment ==
    request # None =>
        \A i \in 1..(Len(request.path) - 1) :
            ~(request.path[i] = "/" /\ request.path[i + 1] = "/")

=============================================================================
