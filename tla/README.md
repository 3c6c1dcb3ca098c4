# TLA+ models of interbtc-clients

This directory holds TLA+ models of the repository's source, the TLC
configurations that check them, and `PROJECT.json`. `PROJECT.json` lists the
components, runs, mutants, the source lines each definition models, the
findings and the hazards.

## 1. Inventory

### Components

| Component | Source | State | Operations |
|---|---|---|---|
| **Runner**: the self-updating supervisor | `src/runner/src/runner.rs` | `child_proc`, `downloaded_release`, `download_path`, `vault_args`, RPC client | `run`, `auto_update`, `download_binary`, `delete_downloaded_release`, `terminate_proc_and_wait`, `run_binary`, `try_get_release`, `read_chain_storage`, `query_storage`, `get_request_bytes`, `uri_to_bin_path`, `compute_storage_key` |
| Retry harness | `runner.rs` 437-470 | a backoff value per call | `custom_retry_config`, `retry_with_log`, `retry_with_log_async` |
| Staked-relayer status monitors | `src/staked-relayer/src/status.rs` | none of its own; reads the stake, the Bitcoin node and chain events | `on_store_block`, `on_status_update_suggested`, the two `listen_for_*` loops |
| Staked-relayer RPC provider | `src/staked-relayer/src/rpc/mod.rs` | client and a signer behind a mutex | storage reads, extrinsics, the `on_register` subscription loop, `get_exchange_rate_info` |
| Relayer errors and retry policy | `src/staked-relayer/src/error.rs` | none | `get_retry_policy` (doubling, 10 min cap, 24 h budget) |
| Runtime CLI key selection | `src/runtime/src/cli.rs` | CLI options | `get_key_pair`, `get_pair_from_uri`, `get_pair_from_hex_seed`, `get_credentials_from_file`, parsers |
| Replace pallet bindings | `src/runtime/src/pallets/replace.rs` | none | type declarations only |
| Testdata-gen errors | `src/testdata-gen/src/error.rs` | none | enum only |
| Oracle CoinGecko feed | `src/oracle/src/feeds/coingecko.rs` | URL and API key | `from_opts`, `get_exchange_rate`, `extract_response`, `get_price` |

### How the Runner's parts interact

`Runner::run` races two branches on one tokio task with `select!`: the next
OS signal, and the `auto_update` future. `auto_update` does the following in
order:

1. It creates the download directory.
2. It reads `VaultRegistry::CurrentClientRelease` through the retry harness.
   The call chain is `try_get_release`, then `read_chain_storage`, then
   `query_storage`.
3. It downloads the binary in `download_binary`. This derives the path, opens
   the file, awaits the HTTP fetch, writes the bytes and records the release.
4. It spawns the binary with `run_binary`.
5. It then loops: poll the chain; on a new URI, run `terminate_proc_and_wait`
   (SIGTERM, then a blocking `wait`), then `delete_downloaded_release`, then
   download, then spawn; then sleep 6 s.

The signal branch can win only at an `.await` of `auto_update`:

- the chain read;
- the HTTP fetch (the file is already open at that point);
- the sleep.

Everything between two awaits runs without interruption, and that includes
the blocking `wait`. When the signal branch wins, `run` calls
`terminate_proc_and_wait`. When `auto_update` returns, `run` returns
`AutoUpdaterTerminated` and does not touch the worker.

Outside the runner's memory, three kinds of state persist:

- the worker processes, which are not killed when their `Child` is dropped;
- the files in the download directory;
- the chain.

The host process manager restarts the runner after it exits (spec 1).

### What is hard

- **Cancellation.** The signal can win at any await, for example between
  terminating the old worker and spawning the new one.
- **Partial failure.** Any step of terminate, delete, download, spawn can
  fail after the earlier steps have happened.
- **Restart.** The runner's memory is lost on exit, but files and orphaned
  workers survive.
- **Timing in the OS.** A worker exits asynchronously after SIGTERM; a file
  a process executes cannot be opened for writing (ETXTBSY); pids are a
  finite resource.
- **Error handling in the chain read.** A transport error is swallowed into
  None; a decode error is retried until the 60 s cap.
  `retry_with_log_async` marks every error as transient, so a value that
  never decodes is retried as long as one that might. `auto_update` then
  reports `ProcessTerminationFailure` whatever the cause.
- **Blocking retries.** `retry_with_log` (used by
  `delete_downloaded_release`) sleeps the thread between attempts. It runs
  inside the future that `run`'s `select!` polls next to the signal stream,
  so a signal waits until the retries end. The model takes the retried call
  as one step, which keeps the order of events but not the delay.

### What makes each component correct

- **Runner.**
  - At most one worker is alive on the host.
  - A held handle refers to the held release's live or unreaped process.
  - A live worker's binary is never removed or rewritten.
  - The downloaded file holds exactly the fetched bytes.
  - When the runner exits it leaves no worker behind.
  - Once the chain settles, the announced release runs.
  - A signal-driven shutdown terminates the worker and returns success.
- **Status monitors.**
  - The relayer votes "approve NO_DATA" only for blocks its Bitcoin node
    does not know.
  - It suggests NO_DATA only for blocks that are missing.
  - It acts only while staked.
- **CLI key selection.** Exactly one key source is used, combinations that
  are not allowed are rejected, and a key string is read as a hex seed or a
  mnemonic the same way wherever it comes from.
- **RPC provider.** Concurrent extrinsics of the one relayer account never
  share a nonce, every call returns, and every registration whose event decodes reaches the
  callback.
- **CoinGecko feed.** The request names the endpoint and the pair asked for.

## 2. Modules

### Runner

`Runner.tla` has one variable per piece of state:

| Variable | Code |
|---|---|
| `pc` | where the task is parked: `getFirst` (first `try_get_release`), `fetching` (`get_request_bytes` in `download_binary`), `poll` (loop read or sleep), `waitChild` (blocking `wait` in the loop), `shutdownWait` (blocking `wait` in `run`), `exited` |
| `child` | `Runner.child_proc` |
| `downloaded` | `Runner.downloaded_release` (the path is `BinName[uri]`) |
| `target` | the release being downloaded |
| `attempts` | failed decode attempts of the retry harness |
| `sigPending` | a signal queued in `SignalsInfo` |
| `exit` | how `run` ended: Ok, Err from the signal branch, `AutoUpdaterTerminated`, or the startup panic |
| `proc`, `runs` | the OS process table: free, running, stopping (SIGTERM received), or zombie; and the release each process executes |
| `files` | the download directory, with contents as byte sequences |
| `chain` | `CurrentClientRelease`: a release record `[uri, hash]`, none, or an undecodable value |

Each runner action is the stretch of code between two awaits:

| Action | Code |
|---|---|
| `ReadFirst` | the first read; a release continues in `StartDownload`, None panics, an undecodable value goes to `RetryOrGiveUp` |
| `StartDownload` | the synchronous head of `download_binary`: path derivation and the create-open without truncate; ETXTBSY if a live process executes the file |
| `Poll` | a loop read; on a new URI it sends SIGTERM and blocks in `wait` |
| `WaitChild` | the reap, `delete_downloaded_release`, then `StartDownload` |
| `FetchDone` | the answer of `get_request_bytes` (`GetRequestBytes`: the release's bytes, an HTTP error page, or a transport error), `write_all` (`WriteAll`: overwrite a prefix, keep the tail), then `RunBinary` |
| `Shutdown`, `ShutdownReap` | the signal branch of `run` |
| `Exit` | `run` returning (or a panic): memory is lost, the held child is orphaned, and init reaps a zombie |
| `Restart` | the host process manager |

The environment actions are `ChainUpdate`, `DeliverSignal`, `WorkerStop`
(exit after SIGTERM) and `WorkerCrash`. A `Fault` is one transient failure
that outlasts the retry harness: a transport error read as None, a failed
fetch, remove or spawn.

`reqwest::get` returns Ok for an HTTP error status, so the retry harness
retries only transport errors. An error page (`ErrorBody`, longer than
either binary) is written like a binary; spawning it fails on every retry
attempt, and `auto_update` ends with the page on disk.

`ReadChainStorage` is `read_chain_storage`'s three outcomes (a release,
None, a decode error), on which `ReadFirst` and `Poll` branch.

Fairness: each runner action is weakly fair, because tokio keeps polling the
single task. `Restart` is weakly fair, because the host process manager
restarts the runner. `WorkerStop` is weakly fair, because a worker that
honours SIGTERM exits. Chain updates, signals, faults and crashes have no
fairness: they are the environment's choices, and each is bounded.

### StatusMonitor

`StatusMonitor.tla` models the two listener tasks of `status.rs` with the
chain's event queues and a Bitcoin node that lags behind the relay.

| Action | Code |
|---|---|
| `OnStoreBlock`, `SuggestDone` | `RelayMonitor::on_store_block`: stake check, `get_block_hash(height)`, and the NO_DATA suggestion when the node has no block there |
| `OnStatusUpdateSuggested`, `VoteDone` | `StatusUpdateMonitor::on_status_update_suggested`: stake check, skip unless NO_DATA with a hash, vote `approve = !is_block_known(hash)` |
| `NodeSync`, `RelayStore`, `OtherSuggest`, `StakeChange` | the environment: the node catches up, relayers store headers (main chain or fork), other relayers suggest, the stake changes |

Each handler's decision is a pure operator over the answers it gets:
`StoreBlockOutcome(stake, blockHash)` and
`StatusSuggestedOutcome(stake, event, known)`. The actions choose the
answers from `StakeAnswers`, `BlockHashAnswers(height)` and
`BlockKnownAnswers(hash)`, which the stake and the node's height determine,
plus an RPC error charged to the fault budget (`Charge`). An Err of
`is_block_known` is logged without a vote. The listeners log a handler's Err and go on, as
`listen_for_*` do. The listener steps and `NodeSync` are weakly fair. The
listeners wait on their subscriptions once the bounded environment is done,
so the runs set `CHECK_DEADLOCK FALSE`.

### Provider and OnRegister

`Provider.tla` models the six extrinsic methods of `rpc/mod.rs`. Each is one
statement, `X_and_watch(&*self.signer.lock().await, ..).await?`, whose mutex
guard lives until the watch ends. The actions are the pieces of that shared
statement; `PROJECT.json` maps each piece to one of the six methods:

- `Call` and `Acquire`: queueing on and taking the tokio mutex, which is FIFO.
  A call is an extrinsic or `get_address`. `get_address` takes the same
  mutex and drops the guard at once (`GetAddress`), so it waits behind a
  running watch.
- `Sign`: the library reads `system_accountNextIndex` (`NextIndex`). The
  node answers the on-chain nonce, advanced over the ready pooled
  transactions that follow it without a gap.
- `Submit`: the submission.
- `Finish` and `Release`: the watch ends and the guard drops.

`Include` and `Drop` are the node. `GetExchangeRateInfo` is the join of three
reads with the `try_into` narrowing. Task steps and `Include` are weakly
fair: tokio polls the tasks, and the chain keeps producing blocks.

`OnRegister.tla` models the `on_register` loop:

- `OnRegisterNext`: a subscription error is logged; an event is decoded, and
  a decode error returns.
- `LookupDone`: the `vaults` lookup, whose error returns; then the callback.
- `StreamEnds`: the loop ends when the stream closes.

`Register` is the chain: a vault registers, and its event reaches the stream
either decodable (the vault joins `decoded`) or undecodable (a fault).
`LookupMayFail` says whether the `vaults` lookup may fail.

### Cli and CoinGecko

These two are pure functions, so a behaviour picks one input and makes one
call on it.

`Cli.tla` covers:

- the clap attributes (`ClapAccepts`) and `get_key_pair`'s match
  (`KeySource`);
- `get_pair_from_uri` and `get_pair_from_hex_seed`, with
  `trim_start_matches` as the RECURSIVE `TrimStart0x`;
- `get_credentials_from_file` after the map lookup;
- `parse_duration_minutes` at a fixed integer width.

`RefKey` is the reference reading of a key string. `sp_core`'s
`from_string` is outside the repository; `FromString` keeps its behaviour:
"0x"-prefixed hex is a seed, anything else a mnemonic.

`CoinGecko.tla` covers `from_opts`, the URL `get_exchange_rate` builds
(`RequestUrl`: path join, query, key), `extract_response` and `get_price`.
`get_http` is an environment choice of an HTTP error or a JSON object.

## 3. Runs

| Run | Module | Expect | Checks | States |
|---|---|---|---|---|
| `runner_safety` | `MCRunner` | pass | `AtMostOneWorker`, `HandleMatchesRelease`, `LiveBinaryUntouched`, `EventuallyUpToDate`, `SignalLeadsToExit` | 480k |
| `runner_env` | `MCRunner` | pass | `TypeOK`, `HandleMatchesRelease`, `LiveBinaryUntouched` | 16k |
| `runner_truncate` | `MCRunner` | violation | `DownloadedBinaryIntact` | |
| `runner_signal` | `MCRunner` | violation | `SignalShutdownSucceeds` | |
| `runner_two_workers` | `MCRunner` | violation | `AtMostOneWorker` | |
| `status_safety` | `MCStatusMonitor` | pass | `TypeOK`, `SyncedVoteCorrect`, `AllEventsHandled` | 334k |
| `status_fork` | `MCStatusMonitor` | violation | `UnknownBlocksReported` | |
| `provider_signer` | `MCProvider` | pass | `NoNonceClash`, `EveryCallReturns` | 20k |
| `provider_stuck` | `MCProvider` | violation | `EveryCallReturns` | |
| `register_fault` | `MCOnRegister` | violation | `EveryDecodedRegistrationDelivered` | |
| `cli_keyfile` | `MCCli` | violation | `FileKeyMatchesReference` | |
| `coingecko_path` | `MCCoinGecko` | violation | `RequestPathHasNoEmptySegment` | |

### Bounds

- **Runner runs** (`MCRunner.tla`):
  - URIs `u1` and `u2` share the file name `n1`, like the repository's
    versioned release URIs; `u2` is also republished with a new hash.
  - `u3` has no usable last segment; `u4` names `n2`.
  - `R1`'s payload is longer than the others, and an HTTP error page is
    longer than either.
  - `runner_safety` has 2 pids, 3 chain updates, 1 signal, 2 faults and
    retry limit 2. That is enough for a signal at every await point, a fault
    at every step, and a restart after every kind of exit. The third update
    lets the chain move on again while a change-over is in progress. The
    second fault lets a failed restart fail again. The run takes about 30 s.
  - `runner_env` adds undecodable chain values, worker crashes and a one-pid
    host.
- **Status runs**:
  - a two-block main chain and one fork hash;
  - 2 stores, 1 other relayer's suggestion, 1 stake change and 2 faults.
    Two faults let both listeners fail in one behaviour.
  - A second suggestion by another relayer reaches 10.7M states in over
    6 minutes. A third store reaches 2.3M states in over a minute and adds
    no new order of events.
  - This covers a vote before and after the node syncs, and the stake
    changing between the check and the call.
- **Provider runs**:
  - two callers with two calls each, and 1 fault (2 in `provider_stuck`);
    each call is an extrinsic or `get_address`. Three callers give the same
    interleavings of mutex hand-over in 950k states and take over a
    minute and a half, without a new kind of order;
  - a 2-bit narrowing width, with the rates 1 and 4.
- **OnRegister**: two vaults, 1 subscription error and 1 fault.
- **Cli**: hex digits `0` and `a`, the non-hex characters `x` and `w`, a
  one-byte seed, and key strings of up to 6 characters. That includes
  "0x0x" followed by a seed.
- **CoinGecko**: paths of up to 3 characters, and one name and two symbols.

### What the runs show

- **runner_safety**: the terminate-wait-delete-download-spawn order does all
  of the following:
  - it never lets two workers run at once;
  - it never touches a live worker's binary;
  - it keeps the handle matching the release;
  - it runs the announced URI once the chain settles.

  A signal always ends in the runner's exit.
- **runner_env**: the handle and live-binary properties still hold with
  orphans, ETXTBSY at startup and spawn failures for lack of a pid.
- **status_safety**:
  - a vote cast while the node is synced approves NO_DATA exactly for fork
    hashes;
  - both listeners drain their queues despite RPC failures.
- **provider_signer**:
  - The mutex guard held across sign, submit and watch keeps nonces
    distinct.
  - FIFO hand-over makes every call return.

Every property of a passing run has a mutant in `PROJECT.json`, a plausible
bug in the mapped code that TLC catches. Examples:

- shutdown without kill;
- `wait` skipped;
- the spawn of the release recorded before the download;
- a vote naming the suggester's account instead of the update;
- the approve flag of a vote inverted;
- the signer cloned out of the mutex before submission;
- a watch that ends only on inclusion.

### Findings (violation runs)

- **runner_two_workers** (`runner.rs:228`, `:253`):
  - When `auto_update` gives up, `run` returns without terminating the
    worker (spec 4.G, 7).
  - The restarted runner then spawns a second worker next to the orphan.
  - This contradicts the comment that terminate-and-wait prevents two vault
    processes.
- **runner_truncate** (`runner.rs:107-117`): a binary is opened without
  truncate. A longer file of the same name left by an earlier run keeps its
  tail.
- **runner_signal** (`runner.rs:226`): a signal while no child is held
  makes `run` return `NoChildProcess`, where spec 6 says it returns success.
- **status_fork** (`status.rs:95`): `on_store_block` checks only that the
  node has a block at the height. A fork header at a height the node has is
  logged as existing and never reported.
- **provider_stuck** (`rpc/mod.rs:148`): the following sequence blocks the
  relayer for good:
  1. A watch fails and its transaction stays pooled.
  2. The next call signs the following nonce.
  3. The pool drops the first transaction.
  4. The second transaction can never be included, and its watch has no
     timeout.
  5. The mutex stays held, so every extrinsic of the relayer waits forever.
- **register_fault** (`rpc/mod.rs:214`): one undecodable RegisterVault event
  ends `on_register` through `?`. A later vault whose event decodes fine is
  never handed to the callback. The run sets `LookupMayFail = FALSE`, so the
  trace shows the decode failure alone; a failed `vaults` lookup ends the
  loop the same way.
- **cli_keyfile** (`cli.rs:100`): a keyfile entry that is a bare hex seed is
  passed to `from_string` and fails. "0x0x" followed by a seed is accepted.
  The doc comment promises hex seeds, as `--keyuri` accepts them.
- **coingecko_path** (`coingecko.rs:63`): the path join always adds "/". The
  base URL as the option's help text writes it (trailing slash) gives
  `/api/v3//simple/price`.

### Observations without a run

The project keeps at most twelve runs. The following properties are stated
in the modules. TLC found each of them violated under the listed constant
changes to the runs' configurations, but none has a run of its own:

- `ExitLeavesNoWorker` (Runner): the orphan of `runner_two_workers`, seen at
  the runner's exit.
- `SignalLeadsToExit` with `WorkerHonoursSigterm = FALSE`: the blocking
  `wait` without SIGKILL never returns (`runner.rs:167`).
- `EventuallyUpToDate` with `WorkerMayCrash = TRUE`: a crashed worker is not
  restarted until the chain announces a new URI (`runner.rs:247`).
- `NoVoteOnOwnSuggestion` (StatusMonitor): the relayer votes on its own
  NO_DATA suggestion, against the comment at `status.rs:27`.
- HTTP error status (`runner.rs:375`): `reqwest::get` is Ok for a 404 or
  503, so the retry harness does not retry it. Spec 4.D says transient HTTP
  errors are retried. The model writes the page in place of the binary, and
  `auto_update` ends with an error. `runner_safety` shows that the restarted
  runner still reaches the announced release (`EventuallyUpToDate`).
- `DurationMinutesExact` (Cli): `parse_duration_minutes` wraps (release
  build) or panics (debug build) for large inputs (`cli.rs:117`).

## 4. Not modelled, and abstractions

- **Storage key** (`compute_storage_key`): a constant twox128 hash.
- **SCALE decoding**: reduced to "decodes or not".
- **HTTP and reqwest**: reduced to three fetch outcomes (bytes, an error
  status with its page, a transport error after retries). The oracle's
  `get_http` is reduced to an HTTP error or a JSON object.
- **Retry timing**:
  - For the chain read it is reduced to a bound on attempts
    (`RetryLimit`).
  - For the idempotent synchronous operations (remove, kill, spawn) only the
    final outcome is kept.
  - The interval and elapsed-time arithmetic belongs to the `backoff`
    crate, which is not in this repository; `custom_retry_config` only sets
    its constants (1 s, constant, 60 s cap).
  - The relayer's `get_retry_policy` (`error.rs`) is a constant
    configuration used by code outside this repository.
- **The kill call**: its own error is discarded, so the model sends SIGTERM
  without a failure branch.
- **`create_dir_all`, the 6 s sleep and file mode 0700**: there is no
  behaviour to distinguish, so they are not modelled.
- **Provider getters** (`get_time_now` to `get_status_update`): single
  awaited reads with no state of their own.
- **Key derivation and JSON file reading**: reduced to which seed or phrase
  a key comes from. The keyfile map lookup is assumed to succeed.
- **replace.rs and the error enums**: declarations only, with no behaviour.
  Nothing in `src` calls the replace bindings, and `get_retry_policy` has no
  caller either.
- **Provider getters**: `get_address` is modelled for its wait on the signer
  mutex; its result (the public key) is not.
