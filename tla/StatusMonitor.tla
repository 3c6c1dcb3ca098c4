---------------------------- MODULE StatusMonitor ----------------------------
(***************************************************************************)
(* The staked relayer's two status monitors, src/staked-relayer/src/      *)
(* status.rs, against the parachain and the relayer's own Bitcoin node.   *)
(*                                                                         *)
(*  - `listen_for_blocks_stored` runs `RelayMonitor::on_store_block` for  *)
(*    every header the BTC-relay stores: a staked relayer whose node has  *)
(*    no block at that height suggests a NO_DATA status update.           *)
(*  - `listen_for_status_updates` runs                                    *)
(*    `StatusUpdateMonitor::on_status_update_suggested` for every         *)
(*    suggested status update: for NO_DATA it votes to reject if its node *)
(*    knows the block hash and to approve if it does not.                 *)
(*                                                                         *)
(* The two listeners are separate tasks and interleave; each handles its  *)
(* events one at a time, in order.  A listener's step is the code between *)
(* two awaits: the stake read with the synchronous Bitcoin-node query     *)
(* after it, then the extrinsic (suggest or vote) being included.  The    *)
(* Bitcoin node lags behind Bitcoin and catches up one block at a time.   *)
(***************************************************************************)
EXTENDS Naturals, Sequences, FiniteSets

CONSTANTS
    Self,          \* this relayer's account
    Others,        \* other staked relayers
    MainChain,     \* the Bitcoin main chain: a sequence of block hashes
    ForkHashes,    \* hashes of blocks not on the main chain
    NoHash,        \* a status update without a block hash
    MaxStores,     \* headers the relay stores
    MaxOtherSuggestions,
    MaxStakeChanges,
    MaxFaults      \* RPC errors of the parachain or Bitcoin node

Hashes == {MainChain[i] : i \in 1..Len(MainChain)} \cup ForkHashes
Heights == 1..Len(MainChain)
\* `ErrorCode` of a suggestion: NoDataBTCRelay, another code, or none.
AddErrors == {"NoData", "Other", "None"}

VARIABLES
    nodeHeight,  \* the Bitcoin node knows MainChain[1..nodeHeight]
    staked,      \* get_stake() >= MINIMUM_STAKE on the parachain
    storeQ,      \* stored-block events not yet handled: [height, hash]
    updates,     \* suggested status updates, in id order
    suggestQ,    \* ids of status-update-suggested events not yet handled
    votes,       \* votes of Self on the chain: [id, approve]
    relayed,     \* hashes of the headers stored in the BTC-relay
    pcB, curB,   \* blocks listener: where it is, the pending suggestion
    pcA, curA,   \* status-update listener: where it is, the pending vote
    stores, otherSuggestions, stakeChanges, faults

chainVars == <<storeQ, updates, suggestQ, votes, relayed>>
envVars   == <<nodeHeight, staked, stores, otherSuggestions, stakeChanges, faults>>
vars      == <<chainVars, envVars, pcB, curB, pcA, curA>>

StoreEvents == [height : Heights, hash : Hashes]
Updates == [by : {Self} \cup Others, addError : AddErrors, hash : Hashes \cup {NoHash}]
NoVote == [id |-> 0, approve |-> FALSE]

\* `btc_rpc.get_block_hash(height)` succeeds.
NodeHasHeight(h) == h <= nodeHeight
\* `convert_block_hash`: EventNoBlockHash for an event without a hash; a
\* 32-byte H256Le always converts.
HasBlockHash(u) == u.hash # NoHash
\* `btc_rpc.is_block_known(hash)`.
NodeKnows(hash) == \E i \in 1..nodeHeight : MainChain[i] = hash

TypeOK ==
    /\ nodeHeight \in 0..Len(MainChain)
    /\ staked \in BOOLEAN
    /\ storeQ \in Seq(StoreEvents)
    /\ updates \in Seq(Updates)
    /\ suggestQ \in Seq(Nat)
    /\ votes \subseteq [id : DOMAIN updates, approve : BOOLEAN]
    /\ relayed \subseteq Hashes
    /\ pcB \in {"idle", "suggesting"} /\ curB \in StoreEvents
    /\ pcA \in {"idle", "voting"} /\ curA \in [id : Nat, approve : BOOLEAN]
    /\ pcA = "voting" => curA.id \in DOMAIN updates
    /\ faults \in 0..MaxFaults

Init ==
    /\ nodeHeight \in 0..Len(MainChain)
    /\ staked = TRUE
    /\ storeQ = << >> /\ updates = << >> /\ suggestQ = << >> /\ votes = {}
    /\ relayed = {}
    /\ pcB = "idle" /\ curB = [height |-> 1, hash |-> MainChain[1]]
    /\ pcA = "idle" /\ curA = NoVote
    /\ stores = 0 /\ otherSuggestions = 0 /\ stakeChanges = 0 /\ faults = 0

\* Charge n RPC failures to the fault budget.
Charge(n) == faults + n <= MaxFaults /\ faults' = faults + n

\* A new status update enters the chain and its event is emitted.
Suggest(u) ==
    /\ updates' = Append(updates, u)
    /\ suggestQ' = Append(suggestQ, Len(updates) + 1)

(***************************************************************************)
(* Answers of the calls the handlers make.  `get_stake().await?` compared *)
(* with MINIMUM_STAKE: an RPC error, at least the minimum, or below it.    *)
(* `get_block_hash(height)`: Ok if the node has the height, Err if not or *)
(* on an RPC error.  `is_block_known(hash)`: Ok(true), Ok(false) or Err.   *)
(***************************************************************************)
StakeAnswers == {"err", IF staked THEN "ok" ELSE "below"}
BlockHashAnswers(h) == {"err"} \cup (IF NodeHasHeight(h) THEN {"ok"} ELSE {})
BlockKnownAnswers(hash) == {"err", IF NodeKnows(hash) THEN "true" ELSE "false"}

-----------------------------------------------------------------------------
(* RelayMonitor::on_store_block                                            *)

(***************************************************************************)
(* What `on_store_block` does with the answers it gets: `get_stake()?`     *)
(* returns the error; a stake below MINIMUM_STAKE returns Ok; Ok of        *)
(* `get_block_hash(height)` logs "Block exists"; any Err of it, whether    *)
(* the node lacks the height or its RPC failed, submits                   *)
(* `suggest_status_update(.., Error, Some(NoDataBTCRelay), None,          *)
(* Some(hash))`.                                                          *)
(***************************************************************************)
StoreBlockOutcome(stake, bh) ==
    CASE stake = "err"   -> "err"
      [] stake = "below" -> "ok"
      [] bh = "ok"       -> "ok"
      [] OTHER           -> "suggest"

\* The handler for the next stored header, up to the suggestion's await.
OnStoreBlock ==
    /\ pcB = "idle" /\ storeQ # << >>
    /\ LET ev == Head(storeQ) IN
       \E stake \in StakeAnswers, bh \in BlockHashAnswers(ev.height) :
          /\ storeQ' = Tail(storeQ)
          /\ Charge((IF stake = "err" THEN 1 ELSE 0)
                    + (IF stake = "ok" /\ bh = "err" /\ NodeHasHeight(ev.height)
                       THEN 1 ELSE 0))
          /\ IF StoreBlockOutcome(stake, bh) = "suggest"
               THEN pcB' = "suggesting" /\ curB' = ev
               ELSE UNCHANGED <<pcB, curB>>
    /\ UNCHANGED <<updates, suggestQ, votes, relayed, pcA, curA>>
    /\ UNCHANGED <<nodeHeight, staked, stores, otherSuggestions, stakeChanges>>

(***************************************************************************)
(* `suggest_status_update_and_watch` ends: the update is on the chain, or *)
(* the extrinsic failed and the error is logged by the listener closure.  *)
(***************************************************************************)
SuggestDone ==
    /\ pcB = "suggesting"
    /\ pcB' = "idle"
    /\ \/ /\ Suggest([by |-> Self, addError |-> "NoData", hash |-> curB.hash])
          /\ UNCHANGED faults
       \/ Charge(1) /\ UNCHANGED <<updates, suggestQ>>
    /\ UNCHANGED <<storeQ, votes, relayed, curB, pcA, curA>>
    /\ UNCHANGED <<nodeHeight, staked, stores, otherSuggestions, stakeChanges>>

-----------------------------------------------------------------------------
(* StatusUpdateMonitor::on_status_update_suggested                         *)

\* Mutant: the approve flag inverted (Ok(true) votes to approve).
StatusSuggestedOutcomeSwapped(stake, u, known) ==
    CASE stake = "err"         -> "err"
      [] stake = "below"       -> "ok"
      [] u.addError # "NoData" -> "ok"
      [] ~HasBlockHash(u)      -> "err"
      [] known = "err"         -> "ok"
      [] known = "true"        -> "vote_approve"
      [] OTHER                 -> "vote_reject"

(***************************************************************************)
(* What `on_status_update_suggested` does with the answers it gets: stake *)
(* check as above; only NoDataBTCRelay is handled; `convert_block_hash`    *)
(* fails with EventNoBlockHash when the event has no hash;                *)
(* `is_block_known` Ok(true) votes to reject, Ok(false) to approve, and   *)
(* Err is logged.  No check of who suggested it ("TODO: ignore self        *)
(* submitted").                                                           *)
(***************************************************************************)
StatusSuggestedOutcome(stake, u, known) ==
    CASE stake = "err"         -> "err"
      [] stake = "below"       -> "ok"
      [] u.addError # "NoData" -> "ok"
      [] ~HasBlockHash(u)      -> "err"
      [] known = "err"         -> "ok"
      [] known = "true"        -> "vote_reject"
      [] OTHER                 -> "vote_approve"

\* The RPC failures among the answers the handler actually asked for.
SuggestedFailures(stake, u, known) ==
    IF stake = "err" THEN 1
    ELSE IF stake = "ok" /\ u.addError = "NoData" /\ HasBlockHash(u) /\ known = "err"
         THEN 1 ELSE 0

\* Mutant: a handler error ends the listener instead of being logged.
OnStatusUpdateSuggestedStopOnError ==
    /\ pcA = "idle" /\ suggestQ # << >>
    /\ LET id == Head(suggestQ)
           u  == updates[id]
       IN \E stake \in StakeAnswers, known \in BlockKnownAnswers(u.hash) :
          LET out == StatusSuggestedOutcome(stake, u, known) IN
          /\ suggestQ' = Tail(suggestQ)
          /\ Charge(SuggestedFailures(stake, u, known))
          /\ CASE out \in {"vote_reject", "vote_approve"} ->
                    pcA' = "voting" /\ curA' = [id |-> id, approve |-> out = "vote_approve"]
               [] out = "err" -> pcA' = "stopped" /\ UNCHANGED curA
               [] OTHER -> UNCHANGED <<pcA, curA>>
    /\ UNCHANGED <<storeQ, updates, votes, relayed, pcB, curB>>
    /\ UNCHANGED <<nodeHeight, staked, stores, otherSuggestions, stakeChanges>>

\* Mutant: the vote names the suggester's account, not the update id.
OnStatusUpdateSuggestedWrongId ==
    /\ pcA = "idle" /\ suggestQ # << >>
    /\ LET id == Head(suggestQ)
           u  == updates[id]
       IN \E stake \in StakeAnswers, known \in BlockKnownAnswers(u.hash) :
          LET out == StatusSuggestedOutcome(stake, u, known) IN
          /\ suggestQ' = Tail(suggestQ)
          /\ Charge(SuggestedFailures(stake, u, known))
          /\ IF out \in {"vote_reject", "vote_approve"}
               THEN pcA' = "voting" /\ curA' = [id |-> u.by, approve |-> out = "vote_approve"]
               ELSE UNCHANGED <<pcA, curA>>
    /\ UNCHANGED <<storeQ, updates, votes, relayed, pcB, curB>>
    /\ UNCHANGED <<nodeHeight, staked, stores, otherSuggestions, stakeChanges>>

\* The handler for the next suggested status update, up to the vote's await;
\* an Err it returns is logged by the listener closure.
OnStatusUpdateSuggested ==
    /\ pcA = "idle" /\ suggestQ # << >>
    /\ LET id == Head(suggestQ)
           u  == updates[id]
       IN \E stake \in StakeAnswers, known \in BlockKnownAnswers(u.hash) :
          LET out == StatusSuggestedOutcome(stake, u, known) IN
          /\ suggestQ' = Tail(suggestQ)
          /\ Charge(SuggestedFailures(stake, u, known))
          /\ IF out \in {"vote_reject", "vote_approve"}
               THEN pcA' = "voting" /\ curA' = [id |-> id, approve |-> out = "vote_approve"]
               ELSE UNCHANGED <<pcA, curA>>
    /\ UNCHANGED <<storeQ, updates, votes, relayed, pcB, curB>>
    /\ UNCHANGED <<nodeHeight, staked, stores, otherSuggestions, stakeChanges>>

\* `vote_on_status_update(id, approve).await?` ends: the vote is recorded,
\* or the error is logged.
VoteDone ==
    /\ pcA = "voting"
    /\ pcA' = "idle"
    /\ \/ votes' = votes \cup {curA} /\ UNCHANGED faults
       \/ Charge(1) /\ UNCHANGED votes
    /\ UNCHANGED <<storeQ, updates, suggestQ, relayed, curA, pcB, curB>>
    /\ UNCHANGED <<nodeHeight, staked, stores, otherSuggestions, stakeChanges>>

-----------------------------------------------------------------------------
(* The environment                                                         *)

\* The relayer's Bitcoin node learns the next main-chain block.
NodeSync ==
    /\ nodeHeight < Len(MainChain)
    /\ nodeHeight' = nodeHeight + 1
    /\ UNCHANGED <<chainVars, staked, stores, otherSuggestions, stakeChanges, faults>>
    /\ UNCHANGED <<pcB, curB, pcA, curA>>

\* Some relayer stores a header in the BTC-relay: a main-chain block or a
\* block the Bitcoin main chain does not contain.
RelayStore ==
    /\ stores < MaxStores
    /\ \E h \in Heights : \E hash \in {MainChain[h]} \cup ForkHashes :
         /\ storeQ' = Append(storeQ, [height |-> h, hash |-> hash])
         /\ relayed' = relayed \cup {hash}
    /\ stores' = stores + 1
    /\ UNCHANGED <<updates, suggestQ, votes, nodeHeight, staked>>
    /\ UNCHANGED <<otherSuggestions, stakeChanges, faults, pcB, curB, pcA, curA>>

\* Another staked relayer suggests a status update.
OtherSuggest ==
    /\ otherSuggestions < MaxOtherSuggestions
    /\ \E by \in Others, e \in AddErrors, hash \in Hashes \cup {NoHash} :
         Suggest([by |-> by, addError |-> e, hash |-> hash])
    /\ otherSuggestions' = otherSuggestions + 1
    /\ UNCHANGED <<storeQ, votes, relayed, nodeHeight, staked, stores, stakeChanges, faults>>
    /\ UNCHANGED <<pcB, curB, pcA, curA>>

\* The relayer's stake moves across MINIMUM_STAKE (slashing, deregistering).
StakeChange ==
    /\ stakeChanges < MaxStakeChanges
    /\ staked' = ~staked
    /\ stakeChanges' = stakeChanges + 1
    /\ UNCHANGED <<chainVars, nodeHeight, stores, otherSuggestions, faults>>
    /\ UNCHANGED <<pcB, curB, pcA, curA>>

Next ==
    \/ OnStoreBlock \/ SuggestDone \/ OnStatusUpdateSuggested \/ VoteDone
    \/ NodeSync \/ RelayStore \/ OtherSuggest \/ StakeChange

(***************************************************************************)
(* Each listener is a task the tokio runtime keeps polling, and the node  *)
(* keeps syncing; the other relayers, the relay and the stake are the     *)
(* environment and get no fairness.                                       *)
(***************************************************************************)
Fairness ==
    /\ WF_vars(OnStoreBlock) /\ WF_vars(SuggestDone)
    /\ WF_vars(OnStatusUpdateSuggested) /\ WF_vars(VoteDone)
    /\ WF_vars(NodeSync)

Spec == Init /\ [][Next]_vars /\ Fairness

-----------------------------------------------------------------------------
(* Properties                                                              *)

(***************************************************************************)
(* A relayer whose Bitcoin node has caught up votes right on NO_DATA:     *)
(* approve exactly when the block is not on the Bitcoin main chain.  Only *)
(* a lagging node may misjudge (is_block_known, then the approve flag     *)
(* `true` for an unknown block, `false` for a known one).                 *)
(***************************************************************************)
SyncedVoteCorrect ==
    [][ pcA = "idle" /\ pcA' = "voting" /\ nodeHeight = Len(MainChain)
        => (curA'.approve <=> updates[curA'.id].hash \in ForkHashes) ]_vars

(***************************************************************************)
(* Neither listener is ended by a failing event: the closures passed to   *)
(* `on_store_block` and `on_status_update_suggested` log the handler's    *)
(* Err and go on, so once the environment is quiet every stored header    *)
(* and every suggested update has been handled.                           *)
(***************************************************************************)
AllEventsHandled ==
    <>[](storeQ = << >> /\ suggestQ = << >> /\ pcA = "idle" /\ pcB = "idle")

(***************************************************************************)
(* The relayer does not vote on status updates it suggested itself        *)
(* (status.rs: "TODO: ignore self submitted").                            *)
(***************************************************************************)
NoVoteOnOwnSuggestion == \A v \in votes : updates[v.id].by # Self

(***************************************************************************)
(* Every header the relay stores that is not on the Bitcoin main chain is *)
(* eventually reported as NO_DATA by a staked relayer: on_store_block      *)
(* logs "Block exists" only for a block its node has (test                *)
(* `test_on_store_block_exists`), and the vote side judges blocks by hash.  *)
(***************************************************************************)
UnknownBlocksReported ==
    \A f \in ForkHashes :
        f \in relayed ~> \E i \in 1..Len(updates) :
                            /\ updates[i] = [by |-> Self, addError |-> "NoData", hash |-> f]

=============================================================================
