------------------------------- MODULE Provider -------------------------------
(***************************************************************************)
(* The extrinsic path and the exchange-rate read of the staked relayer's   *)
(* RPC provider, src/staked-relayer/src/rpc/mod.rs.                        *)
(*                                                                         *)
(* Every extrinsic method (`initialize_btc_relay`, `store_block_header`,  *)
(* `register_vault`, `register_staked_relayer`,                            *)
(* `deregister_staked_relayer`, `suggest_status_update`) has the form      *)
(*     self.client.X_and_watch(&*self.signer.lock().await, ..).await?      *)
(* The guard of the shared `Mutex<PairSigner>` is a temporary of the whole *)
(* statement, so it is held while the library signs the extrinsic (which  *)
(* awaits `system_accountNextIndex`), submits it and watches it into a    *)
(* block.  Tasks are the provider's callers running concurrently (the two *)
(* status listeners of status.rs, the relay loop); the call they make is  *)
(* one of those methods, all of which behave alike here, or               *)
(* `get_address`, which locks the same mutex only to read the public key. *)
(*                                                                         *)
(* The tokio Mutex hands the lock to waiters in FIFO order, which the     *)
(* queue `waiters` models.  The next index the node reports is the        *)
(* account's on-chain nonce advanced over its ready pooled transactions.  *)
(***************************************************************************)
EXTENDS Naturals, Sequences, FiniteSets

CONSTANTS
    Tasks,       \* concurrent callers of the provider
    NoTask,      \* nobody holds the lock
    MaxCalls,    \* extrinsic calls per task
    MaxFaults,   \* submissions or watches that fail
    Rates,       \* exchange-rate values the chain may store (u128)
    RateWidth    \* width of the target integer of `try_into` (u64)

ASSUME NoTask \notin Tasks

VARIABLES
    lock,        \* holder of the signer mutex
    waiters,     \* tasks queued on the mutex, in arrival order
    tstate,      \* per task: idle, waiting, signing, submitting, watching
    calls,       \* per task: provider calls made
    method,      \* per task: "extrinsic" or "get_address"
    mine,        \* per task: the transaction it signed
    chainNonce,  \* the account's nonce on chain
    pool,        \* the account's transactions in the pool
    included,    \* transactions included in a block
    dropped,     \* transactions removed from the pool without inclusion
    faults,
    rate,        \* ExchangeRateOracle::ExchangeRate on chain
    rateInfo     \* what the last `get_exchange_rate_info` returned

vars == <<lock, waiters, tstate, calls, method, mine, chainNonce, pool,
          included, dropped, faults, rate, rateInfo>>

Tx == [task : Tasks, call : 1..MaxCalls, nonce : Nat]
NoTx == [task |-> NoTask, call |-> 0, nonce |-> 0]
U64Max == 2^RateWidth - 1

TypeOK ==
    /\ lock \in Tasks \cup {NoTask}
    /\ tstate \in [Tasks -> {"idle", "waiting", "signing", "submitting", "watching"}]
    /\ calls \in [Tasks -> 0..MaxCalls]
    /\ method \in [Tasks -> {"extrinsic", "get_address"}]
    /\ pool \subseteq Tx /\ included \subseteq Tx /\ dropped \subseteq Tx
    /\ rate \in Rates

Init ==
    /\ lock = NoTask
    /\ waiters = << >>
    /\ tstate = [t \in Tasks |-> "idle"]
    /\ calls = [t \in Tasks |-> 0]
    /\ method = [t \in Tasks |-> "extrinsic"]
    /\ mine = [t \in Tasks |-> NoTx]
    /\ chainNonce = 0
    /\ pool = {}
    /\ included = {}
    /\ dropped = {}
    /\ faults = 0
    /\ rate \in Rates
    /\ rateInfo = [status |-> "none"]

Fault == faults < MaxFaults /\ faults' = faults + 1

signerVars == <<lock, waiters, tstate, calls, method, mine>>
chainVars == <<chainNonce, pool, included, dropped>>
rateVars == <<rate, rateInfo>>

\* A provider method is called: `self.signer.lock()` queues on the mutex.
Call(t) ==
    /\ tstate[t] = "idle" /\ calls[t] < MaxCalls
    /\ tstate' = [tstate EXCEPT ![t] = "waiting"]
    /\ calls' = [calls EXCEPT ![t] = @ + 1]
    /\ \E m \in {"extrinsic", "get_address"} : method' = [method EXCEPT ![t] = m]
    /\ waiters' = Append(waiters, t)
    /\ UNCHANGED <<lock, mine, chainVars, faults, rateVars>>

\* The mutex is free and t is first in line: the `.await` on the lock ends.
LockGranted(t) == lock = NoTask /\ waiters # << >> /\ Head(waiters) = t

\* An extrinsic method gets the guard and goes on to sign.
Acquire(t) ==
    /\ LockGranted(t) /\ method[t] = "extrinsic"
    /\ lock' = t
    /\ waiters' = Tail(waiters)
    /\ tstate' = [tstate EXCEPT ![t] = "signing"]
    /\ UNCHANGED <<calls, method, mine, chainVars, faults, rateVars>>

\* `get_address`: `self.signer.lock().await.signer().public().into()`; the
\* guard is a temporary dropped at the end of the statement, with no await
\* in between, so taking and releasing the lock is one step.
GetAddress(t) ==
    /\ LockGranted(t) /\ method[t] = "get_address"
    /\ waiters' = Tail(waiters)
    /\ tstate' = [tstate EXCEPT ![t] = "idle"]
    /\ UNCHANGED <<lock, calls, method, mine, chainVars, faults, rateVars>>

PoolNonces == {x.nonce : x \in pool}

(***************************************************************************)
(* `system_accountNextIndex`, answered by the node: the on-chain nonce     *)
(* advanced over the pooled transactions that are ready, those whose       *)
(* nonces follow it without a gap; one behind a gap is not counted.        *)
(***************************************************************************)
NextIndex ==
    CHOOSE k \in chainNonce..(chainNonce + Cardinality(pool)) :
        /\ k \notin PoolNonces
        /\ \A j \in chainNonce..(k - 1) : j \in PoolNonces

\* Mutant: the signer is cloned out of the mutex and the guard dropped
\* before the extrinsic is submitted.
SignUnlocked(t) ==
    /\ tstate[t] = "signing"
    /\ mine' = [mine EXCEPT ![t] = [task |-> t, call |-> calls[t], nonce |-> NextIndex]]
    /\ tstate' = [tstate EXCEPT ![t] = "submitting"]
    /\ lock' = NoTask
    /\ UNCHANGED <<waiters, calls, method, chainVars, faults, rateVars>>

\* The library signs the extrinsic with the nonce the node reports.
Sign(t) ==
    /\ tstate[t] = "signing"
    /\ mine' = [mine EXCEPT ![t] = [task |-> t, call |-> calls[t], nonce |-> NextIndex]]
    /\ tstate' = [tstate EXCEPT ![t] = "submitting"]
    /\ UNCHANGED <<lock, waiters, calls, method, chainVars, faults, rateVars>>

\* The guard is dropped when the statement ends, by `Ok(())` or by `?`.
Release(t) ==
    /\ tstate' = [tstate EXCEPT ![t] = "idle"]
    /\ lock' = NoTask

\* `author_submitAndWatchExtrinsic`: the pool takes it, or rejects it (`?`).
Submit(t) ==
    /\ tstate[t] = "submitting"
    /\ \/ /\ pool' = pool \cup {mine[t]}
          /\ tstate' = [tstate EXCEPT ![t] = "watching"]
          /\ UNCHANGED <<lock, faults>>
       \/ Fault /\ Release(t) /\ UNCHANGED pool
    /\ UNCHANGED <<waiters, calls, method, mine, chainNonce, included, dropped, rateVars>>

\* Mutant: the watch ends only when the transaction is in a block.
FinishIncludedOnly(t) ==
    /\ tstate[t] = "watching"
    /\ \/ mine[t] \in included /\ UNCHANGED faults
       \/ mine[t] \in pool /\ Fault
    /\ Release(t)
    /\ UNCHANGED <<waiters, calls, method, mine, chainVars, rateVars>>

\* The watch ends: the transaction is in a block or was dropped; or the
\* subscription fails first and the transaction stays in the pool.
Finish(t) ==
    /\ tstate[t] = "watching"
    /\ \/ mine[t] \in included \cup dropped /\ UNCHANGED faults
       \/ mine[t] \in pool /\ Fault
    /\ Release(t)
    /\ UNCHANGED <<waiters, calls, method, mine, chainVars, rateVars>>

\* The chain includes the pooled transaction whose nonce is next; others
\* with the same nonce become stale and leave the pool.
Include ==
    \E x \in pool :
        /\ x.nonce = chainNonce
        /\ chainNonce' = chainNonce + 1
        /\ included' = included \cup {x}
        /\ dropped' = dropped \cup {y \in pool : y # x /\ y.nonce = chainNonce}
        /\ pool' = {y \in pool : y.nonce > chainNonce}
        /\ UNCHANGED <<signerVars, faults, rateVars>>

\* The pool drops a transaction (invalid or evicted).
Drop ==
    \E x \in pool :
        /\ Fault
        /\ pool' = pool \ {x}
        /\ dropped' = dropped \cup {x}
        /\ UNCHANGED <<signerVars, chainNonce, included, rateVars>>

-----------------------------------------------------------------------------
(* `get_exchange_rate_info`                                                *)

\* `rate.try_into()?`: the u128 rate if it fits in u64, else an error.
Narrow(r) ==
    IF r <= U64Max THEN [status |-> "ok", rate |-> r, read |-> r]
    ELSE [status |-> "TryFromIntError", read |-> r]

\* The three reads are joined; any failure is ExchangeRateInfo.
GetExchangeRateInfo ==
    /\ \/ rateInfo' = Narrow(rate) /\ UNCHANGED faults
       \/ Fault /\ rateInfo' = [status |-> "ExchangeRateInfo", read |-> rate]
    /\ UNCHANGED <<signerVars, chainVars, rate>>

\* The oracle stores a new exchange rate.
SetRate ==
    /\ \E r \in Rates : rate' = r
    /\ UNCHANGED <<signerVars, chainVars, faults, rateInfo>>

TaskStep(t) == Call(t) \/ Acquire(t) \/ GetAddress(t) \/ Sign(t) \/ Submit(t) \/ Finish(t)

Next ==
    \/ \E t \in Tasks : TaskStep(t)
    \/ Include \/ Drop
    \/ GetExchangeRateInfo \/ SetRate

\* Tasks are polled by tokio and the chain keeps producing blocks.
Fairness ==
    /\ \A t \in Tasks : WF_vars(Acquire(t) \/ GetAddress(t) \/ Sign(t) \/ Submit(t) \/ Finish(t))
    /\ WF_vars(Include)

Spec == Init /\ [][Next]_vars /\ Fairness

-----------------------------------------------------------------------------
(* Properties                                                              *)

(***************************************************************************)
(* No two transactions of the relayer's account are in the pool with the   *)
(* same nonce: the signer guard held across signing, submission and watch *)
(* makes the nonce read and the submission one step for the other tasks.  *)
(* A clash would make the node reject or replace one of the extrinsics.   *)
(***************************************************************************)
NoNonceClash ==
    \A x, y \in pool : x.nonce = y.nonce => x = y

(***************************************************************************)
(* Every extrinsic call returns: a task queued on the signer mutex gets   *)
(* it (FIFO) and its watch ends, however the others' calls interleave.    *)
(***************************************************************************)
EveryCallReturns ==
    \A t \in Tasks : tstate[t] = "waiting" ~> tstate[t] = "idle"

=============================================================================
