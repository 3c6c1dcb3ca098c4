------------------------------ MODULE OnRegister ------------------------------
(***************************************************************************)
(* `Provider::on_register` of src/staked-relayer/src/rpc/mod.rs: the loop  *)
(* over the event subscription, filtered to RegisterVault events.  For     *)
(* each item it                                                            *)
(*   - logs a subscription error and goes on;                             *)
(*   - decodes the event (`?`: an error ends the loop and the call);       *)
(*   - awaits `vaults(account_id)` (`?` likewise);                         *)
(*   - hands the vault to the callback.                                   *)
(* The stream ends (Ok) when the subscription closes.                     *)
(*                                                                         *)
(* The chain's RegisterVault events arrive in block order in `stream`;     *)
(* an event the decoder cannot read, a failed lookup and a subscription   *)
(* error are faults of the environment.                                   *)
(***************************************************************************)
EXTENDS Naturals, Sequences

CONSTANTS
    Vaults,          \* accounts that may register
    MaxSubErrors,    \* subscription errors delivered
    MaxFaults,       \* undecodable events and failed lookups
    LookupMayFail    \* whether `vaults(account_id)` may fail

VARIABLES
    registered,   \* vaults the chain has registered (events emitted)
    stream,       \* subscription items not yet read by `sub.next()`
    pc,           \* "listening", "lookup", "ended_ok" or "ended_err"
    cur,          \* the account whose vault is being looked up
    delivered,    \* vaults handed to the callback
    subErrors,
    faults,
    closed,       \* the subscription has ended
    decoded       \* vaults whose RegisterVault event reached the stream decodable

vars == <<registered, stream, pc, cur, delivered, subErrors, faults, closed, decoded>>

Item == [kind : {"event", "undecodable"}, vault : Vaults] \cup [kind : {"sub_err"}]

TypeOK ==
    /\ registered \subseteq Vaults /\ delivered \subseteq Vaults
    /\ decoded \subseteq registered
    /\ stream \in Seq(Item)
    /\ pc \in {"listening", "lookup", "ended_ok", "ended_err"}

Init ==
    /\ registered = {}
    /\ stream = << >>
    /\ pc = "listening"
    /\ cur = CHOOSE v \in Vaults : TRUE
    /\ delivered = {}
    /\ subErrors = 0
    /\ faults = 0
    /\ closed = FALSE
    /\ decoded = {}

Fault == faults < MaxFaults /\ faults' = faults + 1

\* `sub.next()` yields an item: an error is logged, an event is decoded
\* (an error returns from `on_register`), then its vault is looked up.
OnRegisterNext ==
    /\ pc = "listening" /\ stream # << >>
    /\ stream' = Tail(stream)
    /\ LET item == Head(stream) IN
         CASE item.kind = "sub_err" -> UNCHANGED <<pc, cur>>
           [] item.kind = "undecodable" -> pc' = "ended_err" /\ UNCHANGED cur
           [] OTHER -> pc' = "lookup" /\ cur' = item.vault
    /\ UNCHANGED <<registered, delivered, subErrors, faults, closed, decoded>>

\* `self.client.vaults(event.account_id, None).await?`, then `cb(account)`.
LookupDone ==
    /\ pc = "lookup"
    /\ \/ delivered' = delivered \cup {cur} /\ pc' = "listening" /\ UNCHANGED faults
       \/ LookupMayFail /\ Fault /\ pc' = "ended_err" /\ UNCHANGED delivered
    /\ UNCHANGED <<registered, stream, cur, subErrors, closed, decoded>>

\* `while let Some(..) = sub.next().await` ends: the stream is closed and read.
StreamEnds ==
    /\ pc = "listening" /\ closed /\ stream = << >>
    /\ pc' = "ended_ok"
    /\ UNCHANGED <<registered, stream, cur, delivered, subErrors, faults, closed, decoded>>

\* A vault registers; its event reaches the subscription, possibly in a
\* form the decoder cannot read.
Register ==
    /\ ~closed
    /\ \E v \in Vaults \ registered :
         /\ registered' = registered \cup {v}
         /\ \/ stream' = Append(stream, [kind |-> "event", vault |-> v])
               /\ decoded' = decoded \cup {v}
               /\ UNCHANGED faults
            \/ /\ Fault /\ stream' = Append(stream, [kind |-> "undecodable", vault |-> v])
               /\ UNCHANGED decoded
    /\ UNCHANGED <<pc, cur, delivered, subErrors, closed>>

\* The subscription delivers an error item.
SubError ==
    /\ ~closed /\ subErrors < MaxSubErrors
    /\ subErrors' = subErrors + 1
    /\ stream' = Append(stream, [kind |-> "sub_err"])
    /\ UNCHANGED <<registered, pc, cur, delivered, faults, closed, decoded>>

\* The node closes the subscription.
Close ==
    /\ ~closed /\ closed' = TRUE
    /\ UNCHANGED <<registered, stream, pc, cur, delivered, subErrors, faults, decoded>>

Next ==
    \/ OnRegisterNext \/ LookupDone \/ StreamEnds
    \/ Register \/ SubError \/ Close

\* The task is polled whenever an item is ready or a lookup answered.
Fairness == WF_vars(OnRegisterNext) /\ WF_vars(LookupDone) /\ WF_vars(StreamEnds)

Spec == Init /\ [][Next]_vars /\ Fairness

-----------------------------------------------------------------------------
(* Properties                                                              *)

(***************************************************************************)
(* Every vault whose RegisterVault event reaches the subscription in a    *)
(* form the decoder reads is eventually handed to the callback.  The      *)
(* vault's own event is readable, so only the handling of OTHER items can *)
(* lose it: subscription errors are logged and skipped, but the `?` on    *)
(* another vault's undecodable event ends `on_register` and with it every *)
(* registration queued behind that event.                                 *)
(***************************************************************************)
EveryDecodedRegistrationDelivered ==
    \A v \in Vaults : v \in decoded ~> v \in delivered

=============================================================================
