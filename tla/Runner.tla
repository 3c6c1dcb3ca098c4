------------------------------- MODULE Runner -------------------------------
(***************************************************************************)
(* The self-updating client supervisor of src/runner/src/runner.rs.       *)
(*                                                                         *)
(* One runner process (the task driving `Runner::run`, which races the    *)
(* signal stream against `auto_update`) supervises worker processes whose *)
(* binary is named by the chain's `CurrentClientRelease`.  The model      *)
(* keeps three kinds of state apart:                                      *)
(*   - the runner's memory (`pc`, `child`, `downloaded`, ...), lost when  *)
(*     the runner exits and the host process manager starts it again;     *)
(*   - the host: worker processes (`proc`, `runs`) and the files of the   *)
(*     download directory (`files`), which outlive the runner;            *)
(*   - the chain value the runner polls (`chain`).                        *)
(* Code between two `.await`s runs without interruption on the single     *)
(* task, so each runner action is one such stretch; the `tokio::select!`  *)
(* in `run` can only pick the signal branch at an await point.            *)
(***************************************************************************)
EXTENDS Naturals, Sequences, FiniteSets

CONSTANTS
    URIs,          \* release URIs (model values)
    Releases,      \* set of records [uri |-> u, hash |-> h] the chain may hold
    Names,         \* binary file names in the download directory
    NoName,        \* `uri_to_bin_path` fails: no non-empty last path segment
    BinName,       \* [URIs -> Names \cup {NoName}], the last path segment
    Payload,       \* [Releases -> Seq(Nat)], bytes served for the release URI
    ErrorBody,     \* bytes of an HTTP error page (not an executable)
    Pids,          \* process ids of the host
    NoPid, NoRelease, NoFile,
    Garbled,       \* a chain value that does not decode as ClientRelease
    ChainValues,   \* values `CurrentClientRelease` may take
    MaxChainUpdates, MaxSignals, MaxFaults,
    RetryLimit,    \* attempts the retry harness makes within RETRY_TIMEOUT_MS
    WorkerHonoursSigterm, \* a worker exits after SIGTERM
    WorkerMayCrash        \* a worker may exit without being asked

ASSUME /\ BinName \in [URIs -> Names \cup {NoName}]
       /\ \A r \in Releases : r.uri \in URIs
       /\ ChainValues \subseteq Releases \cup {NoRelease, Garbled}
       /\ RetryLimit \in Nat \ {0}

VARIABLES
    pc,          \* where the runner task is parked
    child,       \* Runner.child_proc
    downloaded,  \* Runner.downloaded_release (its path is BinName[uri])
    target,      \* release being fetched / about to replace `downloaded`
    attempts,    \* failed attempts of the current try_get_release
    sigPending,  \* a shutdown signal is queued in `shutdown_signals`
    exit,        \* how the runner process last ended
    proc,        \* [Pids -> {"free","running","stopping","zombie"}]
    runs,        \* [Pids -> Releases \cup {NoRelease}]: what a process executes
    files,       \* [Names -> Seq(Nat) \cup {NoFile}]: the download directory
    chain,       \* the value of VaultRegistry::CurrentClientRelease
    chainUpdates, signals, faults

runnerVars == <<pc, child, downloaded, target, attempts, sigPending, exit>>
hostVars   == <<proc, runs, files>>
envVars    == <<chain, chainUpdates, signals, faults>>
vars       == <<runnerVars, hostVars, envVars>>

\* await points of `auto_update` at which `select!` may drop it
AwaitPoints == {"getFirst", "fetching", "poll"}
Live(p) == proc[p] \in {"running", "stopping"}
LivePids == {p \in Pids : Live(p)}
PathOf(r) == BinName[r.uri]

(***************************************************************************)
(* `file.write_all(&bytes)` on a file opened without `truncate(true)`:     *)
(* the new bytes overwrite a prefix and an older, longer tail survives.    *)
(***************************************************************************)
WriteAll(old, bytes) == bytes \o SubSeq(old, Len(bytes) + 1, Len(old))

TypeOK ==
    /\ pc \in {"getFirst", "fetching", "poll", "waitChild", "shutdownWait", "exited"}
    /\ child \in Pids \cup {NoPid}
    /\ downloaded \in Releases \cup {NoRelease}
    /\ target \in Releases \cup {NoRelease}
    /\ attempts \in 0..RetryLimit
    /\ sigPending \in BOOLEAN
    /\ exit \in {"none", "shutdown_ok", "shutdown_err", "updater_err", "panic"}
    /\ proc \in [Pids -> {"free", "running", "stopping", "zombie"}]
    /\ runs \in [Pids -> Releases \cup {NoRelease}]
    /\ \A n \in Names : files[n] = NoFile \/ files[n] \in Seq(Nat)
    /\ chain \in ChainValues
    /\ chainUpdates \in 0..MaxChainUpdates
    /\ signals \in 0..MaxSignals
    /\ faults \in 0..MaxFaults

Init ==
    /\ pc = "getFirst"
    /\ child = NoPid
    /\ downloaded = NoRelease
    /\ target = NoRelease
    /\ attempts = 0
    /\ sigPending = FALSE
    /\ exit = "none"
    /\ proc = [p \in Pids |-> "free"]
    /\ runs = [p \in Pids |-> NoRelease]
    /\ files = [n \in Names |-> NoFile]
    /\ chain \in ChainValues \ {Garbled}
    /\ chainUpdates = 0 /\ signals = 0 /\ faults = 0

\* One environment fault (transport error, failed fetch/remove/spawn).
Fault == faults < MaxFaults /\ faults' = faults + 1

(***************************************************************************)
(* The runner process ends: `run` returns or `main` panics.  Its memory is *)
(* gone; the worker it held is orphaned (std's Child is not killed on      *)
(* drop), and init reaps it if it has already exited.                     *)
(***************************************************************************)
Exit(how) ==
    /\ pc' = "exited"
    /\ exit' = how
    /\ child' = NoPid
    /\ downloaded' = NoRelease
    /\ target' = NoRelease
    /\ attempts' = 0
    /\ proc' = IF child # NoPid /\ proc[child] = "zombie"
                 THEN [proc EXCEPT ![child] = "free"] ELSE proc

(***************************************************************************)
(* The answer of one `try_get_release(false)` attempt.  `query_storage`   *)
(* turns any transport error into None (`.ok()`), so a reply is the chain *)
(* value or, on a fault, NoRelease.                                        *)
(***************************************************************************)
Replies == {chain} \cup (IF chain # NoRelease /\ faults < MaxFaults
                           THEN {NoRelease} ELSE {})
\* `read_chain_storage`: the reply decoded and transposed: Ok(Some(release)),
\* Ok(None) for an absent value, Err for a value that does not decode.
ReadChainStorage(reply) ==
    CASE reply = Garbled   -> "decode_err"
      [] reply = NoRelease -> "none"
      [] OTHER             -> "some"

ChargeReply(reply) ==
    IF reply # chain THEN faults' = faults + 1 ELSE UNCHANGED faults

\* Mutant: the elapsed-time cap checked one attempt too late.
RetryOrGiveUpOffByOne ==
    \/ /\ attempts <= RetryLimit
       /\ attempts' = attempts + 1
       /\ UNCHANGED <<pc, child, downloaded, target, exit, proc>>
    \/ /\ attempts > RetryLimit
       /\ Exit("updater_err")

\* A decode failure: the retry harness sleeps and tries again until its
\* elapsed-time cap, then `auto_update` returns Err and `run` returns
\* AutoUpdaterTerminated without touching the worker.
RetryOrGiveUp ==
    \/ /\ attempts + 1 < RetryLimit
       /\ attempts' = attempts + 1
       /\ UNCHANGED <<pc, child, downloaded, target, exit, proc>>
    \/ /\ attempts + 1 >= RetryLimit
       /\ Exit("updater_err")

(***************************************************************************)
(* The synchronous head of `download_binary`, with the download directory *)
(* `fs` and process table `ps` as this stretch of code left them: derive  *)
(* the path, then open it with create, read, write and mode 0700 (no      *)
(* truncate).  Opening for writing a file that a live process executes    *)
(* fails with ETXTBSY.  Then the task parks on `get_request_bytes`.       *)
(***************************************************************************)
StartDownload(r, fs, ps) ==
    \/ /\ PathOf(r) = NoName
       /\ Exit("updater_err") /\ files' = fs
    \/ /\ PathOf(r) # NoName
       /\ \E p \in LivePids : PathOf(runs[p]) = PathOf(r)
       /\ Exit("updater_err") /\ files' = fs
    \/ /\ PathOf(r) # NoName
       /\ \A p \in LivePids : PathOf(runs[p]) # PathOf(r)
       /\ files' = IF fs[PathOf(r)] = NoFile
                     THEN [fs EXCEPT ![PathOf(r)] = << >>] ELSE fs
       /\ pc' = "fetching"
       /\ target' = r
       /\ attempts' = 0
       /\ child' = NoPid /\ downloaded' = NoRelease /\ proc' = ps
       /\ UNCHANGED exit

(***************************************************************************)
(* auto_update, start: the first `try_get_release(false)`.  None makes    *)
(* `.expect("No current release")` panic.                                  *)
(***************************************************************************)
ReadFirst ==
    /\ pc = "getFirst"
    /\ \E reply \in Replies :
         /\ ChargeReply(reply)
         /\ \/ ReadChainStorage(reply) = "some" /\ StartDownload(reply, files, proc) /\ UNCHANGED runs
            \/ ReadChainStorage(reply) = "none" /\ Exit("panic") /\ UNCHANGED <<runs, files>>
            \/ ReadChainStorage(reply) = "decode_err" /\ RetryOrGiveUp /\ UNCHANGED <<runs, files>>
    /\ UNCHANGED <<sigPending, chain, chainUpdates, signals>>

\* Mutant: the old release is deleted before its worker is terminated.
PollDeleteFirst ==
    /\ pc = "poll"
    /\ \E reply \in Replies :
         /\ ChargeReply(reply)
         /\ \/ /\ reply \in Releases
               /\ reply.uri # downloaded.uri
               /\ pc' = "waitChild"
               /\ target' = reply
               /\ attempts' = 0
               /\ files' = [files EXCEPT ![PathOf(downloaded)] = NoFile]
               /\ proc' = IF proc[child] = "running"
                            THEN [proc EXCEPT ![child] = "stopping"] ELSE proc
               /\ UNCHANGED <<child, downloaded, exit>>
            \/ /\ ~(reply \in Releases /\ reply.uri # downloaded.uri)
               /\ attempts' = 0
               /\ UNCHANGED <<pc, child, downloaded, target, exit, proc, files>>
    /\ UNCHANGED <<sigPending, runs, chain, chainUpdates, signals>>

\* Mutant: releases compared by code_hash instead of URI.
PollCompareHash ==
    /\ pc = "poll"
    /\ \E reply \in Replies :
         /\ ChargeReply(reply)
         /\ \/ /\ reply \in Releases
               /\ reply.hash # downloaded.hash
               /\ pc' = "waitChild"
               /\ target' = reply
               /\ attempts' = 0
               /\ proc' = IF proc[child] = "running"
                            THEN [proc EXCEPT ![child] = "stopping"] ELSE proc
               /\ UNCHANGED <<child, downloaded, exit>>
            \/ /\ ~(reply \in Releases /\ reply.hash # downloaded.hash)
               /\ attempts' = 0
               /\ UNCHANGED <<pc, child, downloaded, target, exit, proc>>
    /\ UNCHANGED <<sigPending, runs, files, chain, chainUpdates, signals>>

(***************************************************************************)
(* auto_update, loop body: poll the chain; on a new URI, SIGTERM the      *)
(* child (`signal::kill`, whose own error is discarded) and block in      *)
(* `child_proc.wait()`.  Otherwise sleep BLOCK_TIME and poll again.       *)
(***************************************************************************)
Poll ==
    /\ pc = "poll"
    /\ \E reply \in Replies :
         /\ ChargeReply(reply)
         /\ \/ /\ ReadChainStorage(reply) = "some"
               /\ reply.uri # downloaded.uri
               /\ pc' = "waitChild"
               /\ target' = reply
               /\ attempts' = 0
               /\ proc' = IF proc[child] = "running"
                            THEN [proc EXCEPT ![child] = "stopping"] ELSE proc
               /\ UNCHANGED <<child, downloaded, exit>>
            \/ /\ ReadChainStorage(reply) = "some" /\ reply.uri = downloaded.uri
               /\ attempts' = 0
               /\ UNCHANGED <<pc, child, downloaded, target, exit, proc>>
            \/ /\ ReadChainStorage(reply) = "none"
               /\ attempts' = 0
               /\ UNCHANGED <<pc, child, downloaded, target, exit, proc>>
            \/ ReadChainStorage(reply) = "decode_err" /\ RetryOrGiveUp
    /\ UNCHANGED <<sigPending, runs, files, chain, chainUpdates, signals>>

\* Mutant: `wait` skipped; the handle is dropped while the worker lives.
WaitChildNoWait ==
    /\ pc = "waitChild"
    /\ \/ /\ Fault
          /\ Exit("updater_err")
          /\ UNCHANGED files
       \/ /\ UNCHANGED faults
          /\ StartDownload(target, [files EXCEPT ![PathOf(downloaded)] = NoFile], proc)
    /\ UNCHANGED <<sigPending, runs, chain, chainUpdates, signals>>

(***************************************************************************)
(* The child has exited: `wait` reaps it and `terminate_proc_and_wait`    *)
(* clears the handle; `delete_downloaded_release` removes the old binary  *)
(* (retried; a failure that outlasts the harness, e.g. EACCES, ends       *)
(* auto_update) and forgets it; then                                      *)
(* the new release's download starts.  All synchronous.                    *)
(***************************************************************************)
WaitChild ==
    /\ pc = "waitChild"
    /\ proc[child] = "zombie"
    /\ LET old == PathOf(downloaded)
       IN \/ /\ Fault
             /\ Exit("updater_err")
             /\ UNCHANGED files
          \/ /\ UNCHANGED faults
             /\ StartDownload(target, [files EXCEPT ![old] = NoFile],
                              [proc EXCEPT ![child] = "free"])
    /\ UNCHANGED <<sigPending, runs, chain, chainUpdates, signals>>

(***************************************************************************)
(* `get_request_bytes(uri)`: `reqwest::get` through the retry harness,     *)
(* then `.bytes().await?`.  The harness retries only an Err of the GET, a *)
(* transport failure, and gives up after its elapsed-time cap; a response *)
(* with an error status (5xx, 404) is Ok, and its body is returned as the *)
(* binary.                                                                *)
(***************************************************************************)
GetRequestBytes(r) ==
    {[status |-> "ok", body |-> Payload[r]],
     [status |-> "http_error", body |-> ErrorBody],
     [status |-> "transport_error", body |-> << >>]}

\* Mutant: the spawn reads the release recorded before the download.
RunBinaryStale(fs) ==
    /\ child = NoPid
    /\ files' = fs
    /\ \/ /\ UNCHANGED faults
          /\ \E p \in Pids :
               /\ proc[p] = "free"
               /\ proc' = [proc EXCEPT ![p] = "running"]
               /\ runs' = [runs EXCEPT ![p] = downloaded]
               /\ child' = p
          /\ downloaded' = target
          /\ pc' = "poll"
          /\ UNCHANGED <<target, attempts, exit>>
       \/ /\ \/ Fault
             \/ \A p \in Pids : proc[p] # "free" /\ UNCHANGED faults
          /\ Exit("updater_err")
          /\ UNCHANGED runs

(***************************************************************************)
(* `run_binary` for the release just written, with the directory `fs`:   *)
(* its ChildProcessExists check needs `child = NoPid`, which holds at     *)
(* every download; the spawn (retried) takes a free pid, and the runner   *)
(* records the handle.  A spawn that keeps failing, or a host without a  *)
(* free pid, ends auto_update.                                            *)
(***************************************************************************)
RunBinary(fs) ==
    /\ child = NoPid
    /\ files' = fs
    /\ \/ /\ UNCHANGED faults
          /\ \E p \in Pids :
               /\ proc[p] = "free"
               /\ proc' = [proc EXCEPT ![p] = "running"]
               /\ runs' = [runs EXCEPT ![p] = target]
               /\ child' = p
          /\ downloaded' = target
          /\ pc' = "poll"
          /\ UNCHANGED <<target, attempts, exit>>
       \/ /\ \/ Fault
             \/ \A p \in Pids : proc[p] # "free" /\ UNCHANGED faults
          /\ Exit("updater_err")
          /\ UNCHANGED runs

(***************************************************************************)
(* `get_request_bytes` answers.  On success `write_all` and `sync_all`    *)
(* store the bytes, the release is recorded and run.  A failed fetch      *)
(* ends auto_update with the opened file left behind.  An error page is   *)
(* written like a binary; spawning it fails (ENOEXEC) on every attempt of *)
(* the retry harness, and auto_update ends with the page on disk.         *)
(***************************************************************************)
FetchDone ==
    /\ pc = "fetching"
    /\ \E a \in GetRequestBytes(target) :
         LET written == [files EXCEPT ![PathOf(target)] =
                            WriteAll(files[PathOf(target)], a.body)]
         IN \/ a.status = "ok" /\ RunBinary(written)
            \/ a.status = "http_error" /\ Fault
               /\ Exit("updater_err") /\ files' = written /\ UNCHANGED runs
            \/ a.status = "transport_error" /\ Fault
               /\ Exit("updater_err") /\ UNCHANGED <<files, runs>>
    /\ UNCHANGED <<sigPending, chain, chainUpdates, signals>>

\* Mutant: the signal branch returns Ok without terminating the worker.
ShutdownNoWait ==
    /\ sigPending
    /\ pc \in AwaitPoints
    /\ sigPending' = FALSE
    /\ \/ /\ child = NoPid
          /\ Exit("shutdown_err")
       \/ /\ child # NoPid
          /\ Exit("shutdown_ok")
    /\ UNCHANGED <<runs, files, envVars>>

\* Mutant: the signal branch waits for the child without sending SIGTERM.
ShutdownNoKill ==
    /\ sigPending
    /\ pc \in AwaitPoints
    /\ sigPending' = FALSE
    /\ \/ /\ child = NoPid
          /\ Exit("shutdown_err")
          /\ UNCHANGED <<runs, files>>
       \/ /\ child # NoPid
          /\ pc' = "shutdownWait"
          /\ UNCHANGED <<proc, child, downloaded, target, attempts, exit, runs, files>>
    /\ UNCHANGED envVars

(***************************************************************************)
(* `run`: the signal branch of `select!` wins at an await point of        *)
(* auto_update, which is dropped.  `terminate_proc_and_wait()?` fails     *)
(* with NoChildProcess when no child is held; otherwise it sends SIGTERM  *)
(* and blocks in `wait`.                                                  *)
(***************************************************************************)
Shutdown ==
    /\ sigPending
    /\ pc \in AwaitPoints
    /\ sigPending' = FALSE
    /\ \/ /\ child = NoPid
          /\ Exit("shutdown_err")
          /\ UNCHANGED <<runs, files>>
       \/ /\ child # NoPid
          /\ pc' = "shutdownWait"
          /\ proc' = IF proc[child] = "running"
                       THEN [proc EXCEPT ![child] = "stopping"] ELSE proc
          /\ UNCHANGED <<child, downloaded, target, attempts, exit, runs, files>>
    /\ UNCHANGED envVars

\* The child is reaped, the handle cleared, and `run` returns Ok(()).
ShutdownReap ==
    /\ pc = "shutdownWait"
    /\ proc[child] = "zombie"
    /\ Exit("shutdown_ok")
    /\ UNCHANGED <<sigPending, runs, files>>
    /\ UNCHANGED envVars

\* The host process manager starts the runner again, with fresh memory and
\* a new signal stream.
Restart ==
    /\ pc = "exited"
    /\ pc' = "getFirst"
    /\ sigPending' = FALSE
    /\ UNCHANGED <<child, downloaded, target, attempts, exit>>
    /\ UNCHANGED <<hostVars, envVars>>

-----------------------------------------------------------------------------
(* The environment: the chain, the OS delivering signals, the workers.    *)

ChainUpdate ==
    /\ chainUpdates < MaxChainUpdates
    /\ \E v \in ChainValues \ {chain} : chain' = v
    /\ chainUpdates' = chainUpdates + 1
    /\ UNCHANGED <<runnerVars, hostVars, signals, faults>>

\* SIGHUP, SIGTERM, SIGINT or SIGQUIT reaches the running runner.
DeliverSignal ==
    /\ pc # "exited"
    /\ ~sigPending
    /\ signals < MaxSignals
    /\ sigPending' = TRUE
    /\ signals' = signals + 1
    /\ UNCHANGED <<pc, child, downloaded, target, attempts, exit>>
    /\ UNCHANGED <<hostVars, chain, chainUpdates, faults>>

\* A worker ends; the runner's own child stays a zombie until `wait`,
\* an orphan is reaped by init at once.
WorkerEnds(p) ==
    /\ proc' = [proc EXCEPT ![p] = IF p = child THEN "zombie" ELSE "free"]
    /\ UNCHANGED <<runnerVars, runs, files, envVars>>

WorkerStop(p) ==
    /\ WorkerHonoursSigterm
    /\ proc[p] = "stopping"
    /\ WorkerEnds(p)

WorkerCrash(p) ==
    /\ WorkerMayCrash
    /\ proc[p] = "running"
    /\ WorkerEnds(p)

RunnerStep ==
    \/ ReadFirst \/ Poll \/ WaitChild \/ FetchDone
    \/ Shutdown \/ ShutdownReap \/ Restart

Next ==
    \/ RunnerStep
    \/ ChainUpdate \/ DeliverSignal
    \/ \E p \in Pids : WorkerStop(p) \/ WorkerCrash(p)

(***************************************************************************)
(* Fairness.  The tokio runtime keeps polling the single runner task, the *)
(* host process manager restarts an exited runner, and a worker that      *)
(* honours SIGTERM exits.  The chain, signals, faults and crashes are the *)
(* environment's choices and get no fairness.                             *)
(***************************************************************************)
Fairness ==
    /\ WF_vars(ReadFirst) /\ WF_vars(Poll) /\ WF_vars(WaitChild)
    /\ WF_vars(FetchDone) /\ WF_vars(Shutdown) /\ WF_vars(ShutdownReap)
    /\ WF_vars(Restart)
    /\ \A p \in Pids : WF_vars(WorkerStop(p))

Spec == Init /\ [][Next]_vars /\ Fairness

-----------------------------------------------------------------------------
(* Properties                                                              *)

(***************************************************************************)
(* At most one worker is alive on the host (spec 3, 8).  The update loop  *)
(* must not spawn the new release before `wait` has reaped the old child  *)
(* (runner.rs: "Wait for child process to finish completely").            *)
(***************************************************************************)
AtMostOneWorker == Cardinality(LivePids) <= 1

(***************************************************************************)
(* A held child handle belongs to the held downloaded release: the        *)
(* process executes that release and has not been reaped (spec 3).  Breaks *)
(* if the handle outlives `terminate_proc_and_wait`, or the release is    *)
(* forgotten while its process is still held.                             *)
(***************************************************************************)
HandleMatchesRelease ==
    child # NoPid =>
        /\ downloaded # NoRelease
        /\ runs[child] = downloaded
        /\ proc[child] # "free"

(***************************************************************************)
(* The binary of a live worker is never removed or rewritten: the update  *)
(* loop deletes the old release only after its process is gone, and a     *)
(* download never writes over a file a live process executes.             *)
(***************************************************************************)
LiveBinaryUntouched ==
    [][\A p \in LivePids : files'[PathOf(runs[p])] = files[PathOf(runs[p])]]_vars

(***************************************************************************)
(* Once the chain settles on a release with a usable file name, the host  *)
(* ends up running a worker for that release's URI for good (spec 1: the  *)
(* runner keeps the announced binary running).                            *)
(***************************************************************************)
UpToDate ==
    chain \in Releases /\ PathOf(chain) # NoName =>
        \E p \in Pids : proc[p] = "running" /\ runs[p].uri = chain.uri
EventuallyUpToDate == <>[]UpToDate

(***************************************************************************)
(* A delivered shutdown signal ends the runner process (spec 6: `run`     *)
(* returns "within a bounded time").  `run` acts on the signal only at an *)
(* await point of auto_update, then blocks in `wait` until the SIGTERMed  *)
(* worker has exited; no SIGKILL follows if it never does.                *)
(***************************************************************************)
SignalLeadsToExit == sigPending ~> pc = "exited"

(***************************************************************************)
(* A signal-driven shutdown returns success (spec 6, and section 6: "exit *)
(* code is 0 on signal-driven shutdown").  `terminate_proc_and_wait()?`   *)
(* in the signal branch of `run` turns a missing child into an error.     *)
(***************************************************************************)
SignalShutdownSucceeds == exit # "shutdown_err"

(***************************************************************************)
(* When the runner process has ended, it leaves no worker of its own      *)
(* alive: spec 4.G and 7 say the coordinator terminates the worker on the *)
(* way out even when the update loop failed.                              *)
(***************************************************************************)
ExitLeavesNoWorker == pc = "exited" => LivePids = {}

(***************************************************************************)
(* The file of the held downloaded release holds exactly the bytes the    *)
(* fetch returned (spec 3, DownloadedRelease invariant; 4.E: an existing  *)
(* file "is overwritten").                                                *)
(***************************************************************************)
DownloadedBinaryIntact ==
    downloaded # NoRelease => files[PathOf(downloaded)] = Payload[downloaded]

=============================================================================
