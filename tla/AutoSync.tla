------------------------------- MODULE AutoSync -------------------------------
(***************************************************************************)
(* The automatic sync engine of one process (packages/sync/src/auto.ts):   *)
(* when writes, timers, wakes and manual operations turn into pushes and   *)
(* pulls, and what its status claims meanwhile.                            *)
(*                                                                         *)
(* Operations run one at a time from a queue (chain).  An operation is cut *)
(* at each await: between two of its steps the process may write to the    *)
(* vault, and the save hook ignores that write while inOwnOperation is     *)
(* set.  The transfer itself is VaultSync's subject; here the server is    *)
(* one versioned blob, and a request may fail before it lands, land and    *)
(* lose its answer, or meet an unpaid account.                             *)
(*                                                                         *)
(* A vault's bytes are the number of this machine's writes and of the      *)
(* other devices' pushes they include, and the sealed sync generation.     *)
(* Time is abstract: an armed timer fires at some later moment.            *)
(***************************************************************************)
EXTENDS Integers, Sequences

CONSTANTS
    MaxWrites,   \* bound: this machine's writes
    MaxOthers,   \* bound: the other devices' pushes
    MaxFaults,   \* bound: failed requests, lapses of payment, locks, restarts, restores
    MaxQueue,    \* bound: wakes, flushes and manual operations queue below this length
    MaxGen       \* bound: and only while the vault's generation is below this

ASSUME AutoAssumption ==
    /\ MaxWrites \in Nat /\ MaxOthers \in Nat /\ MaxFaults \in Nat
    /\ MaxQueue \in Nat /\ MaxGen \in Nat

Blob == [mine: Nat, theirs: Nat, gen: Nat]
Nothing == [mine |-> 0, theirs |-> 0, gen |-> 0]
Copy == [ver: Nat, blob: Blob]

Phases == {"idle", "pending", "syncing", "synced", "error", "paused"}
Jobs == {"push", "flush", "wake", "manualPush", "manualPull"}

\* retry: what the backoff timer will run; old: the pause has outlasted
\* pauseRetryMs.
Engine == [phase: Phases, pushPending: BOOLEAN, inOwnOperation: BOOLEAN,
           debounce: BOOLEAN, retry: {"none", "flush", "wake"},
           paused: BOOLEAN, old: BOOLEAN]
NewEngine == [phase |-> "idle", pushPending |-> FALSE, inOwnOperation |-> FALSE,
              debounce |-> FALSE, retry |-> "none", paused |-> FALSE, old |-> FALSE]

\* The operation in progress.  at: the await it is in; why: what its status
\* request is for; blob: the local bytes it uploads or decided on.
Awaits == {"none", "lock", "upload", "landed", "refused", "status", "answered",
           "download", "downloaded"}
Run == [at: Awaits, job: Jobs, why: {"wake", "refused", "changed"},
        again: BOOLEAN, blob: Blob, remote: Copy]
NoRun == [at |-> "none", job |-> "push", why |-> "wake", again |-> FALSE,
          blob |-> Nothing, remote |-> [ver |-> 0, blob |-> Nothing]]

VARIABLES
    local,    \* the vault file
    server,   \* the server's copy; version 0 is none
    record,   \* sync.json: lastVersion and the bytes lastSha names
    key,      \* is the vault unlocked?
    paying,   \* does the server accept the account?
    faults,   \* how many faults have happened
    eng,      \* the engine's fields
    queue,    \* operations waiting in the chain
    run       \* the operation in progress

autoVars == <<local, server, record, key, paying, faults, eng, queue, run>>
world == <<key, paying, faults>>

AutoInit ==
    /\ local = [Nothing EXCEPT !.mine = 1]
    /\ server = [ver |-> 0, blob |-> Nothing]
    /\ record = [ver |-> 0, blob |-> Nothing]
    /\ key = FALSE /\ paying = TRUE /\ faults = 0
    /\ eng = NewEngine /\ queue = <<>> /\ run = NoRun

-----------------------------------------------------------------------------
(* The engine's small methods, as functions of its fields *)

\* matchesRecordedSha; no baseline never matches.
Matches == record.ver > 0 /\ record.blob = local

ResumeUnarmed(e) ==
    IF ~e.paused THEN e
    ELSE [e EXCEPT !.paused = FALSE, !.old = FALSE,
                   !.phase = IF e.pushPending THEN "pending" ELSE "idle"]
Resume(e) ==
    IF ~e.paused THEN e
    ELSE [e EXCEPT !.paused = FALSE, !.old = FALSE, !.debounce = e.debounce \/ e.pushPending,
                   !.phase = IF e.pushPending THEN "pending" ELSE "idle"]
ExpirePause(e) == IF e.paused /\ e.old THEN Resume(e) ELSE e

NotifyWrite(e) ==
    IF e.inOwnOperation THEN e
    ELSE LET p == ExpirePause([e EXCEPT !.pushPending = TRUE]) IN
         IF p.paused THEN p
         ELSE [p EXCEPT !.debounce = TRUE,
                        !.phase = IF p.phase = "syncing" THEN p.phase ELSE "pending"]

Settle(e) == [e EXCEPT !.retry = "none", !.phase = IF e.pushPending THEN "pending" ELSE "synced"]
Clean(e) == Settle([e EXCEPT !.pushPending = FALSE])
ReportState(e, state) ==
    [e EXCEPT !.retry = "none",
              !.phase = IF state = "diverged" THEN "error"
                        ELSE IF e.pushPending THEN "pending" ELSE "idle"]
ReportPullRefused(e) == [e EXCEPT !.retry = "none", !.phase = "error"]
Fail(e, retry) == [e EXCEPT !.phase = "error", !.retry = retry]
Pause(e) == [e EXCEPT !.paused = TRUE, !.old = FALSE, !.phase = "paused",
                      !.debounce = FALSE, !.retry = "none"]
RearmAfterManual(e) == [e EXCEPT !.pushPending = TRUE, !.phase = "pending", !.debounce = TRUE]

\* afterPush: a write that landed during the upload is pending again.
AfterPushTrusting(e, blob) == Clean(e)
AfterPushUnarmed(e, blob) ==
    IF local = blob THEN Clean(e) ELSE Settle([e EXCEPT !.pushPending = TRUE])
AfterPush(e, blob) ==
    IF local = blob THEN Clean(e)
    ELSE [Settle([e EXCEPT !.pushPending = TRUE]) EXCEPT !.debounce = TRUE]

\* How runManual ends: its operation returned, or threw.
ManualReturned(e) == IF Matches THEN Clean(e) ELSE RearmAfterManual(e)
ManualThrew(e) ==
    IF Matches THEN [e EXCEPT !.phase = IF e.pushPending THEN "pending" ELSE "idle"]
    ELSE RearmAfterManual(e)

Manual == run.job \in {"manualPush", "manualPull"}

\* The operation ends with engine fields e; its finally clears inOwnOperation.
End(e) ==
    /\ eng' = [e EXCEPT !.inOwnOperation = FALSE]
    /\ run' = NoRun
AwaitAt(at) == run' = [run EXCEPT !.at = at]

-----------------------------------------------------------------------------
(* Starting operations *)

Enqueue(job) == queue' = Append(queue, job)
Room == Len(queue) < MaxQueue /\ local.gen < MaxGen

\* runPush up to its first await.  from: the engine fields when it starts.
RunPush(from, ignoreBackoff) ==
    IF ~from.pushPending \/ from.paused \/ (~ignoreBackoff /\ from.retry # "none")
    THEN End(from)
    ELSE IF ~key THEN End([from EXCEPT !.phase = "pending"])
    ELSE IF Matches THEN End(Clean(from))
    ELSE /\ eng' = [from EXCEPT !.phase = "syncing", !.inOwnOperation = TRUE]
         /\ run' = [NoRun EXCEPT !.at = "lock", !.job = "flush"]

StartPush ==
    /\ run.at = "none" /\ queue # <<>> /\ Head(queue) \in {"push", "flush"}
    /\ queue' = Tail(queue)
    /\ RunPush(eng, Head(queue) = "flush")
    /\ UNCHANGED <<local, server, record, world>>

StartWake ==
    /\ run.at = "none" /\ queue # <<>> /\ Head(queue) = "wake"
    /\ queue' = Tail(queue)
    /\ IF eng.paused \/ ~key THEN UNCHANGED <<eng, run>>
       ELSE /\ eng' = [eng EXCEPT !.phase = "syncing", !.inOwnOperation = TRUE]
            /\ run' = [NoRun EXCEPT !.at = "status", !.job = "wake"]
    /\ UNCHANGED <<local, server, record, world>>

StartManual ==
    /\ run.at = "none" /\ queue # <<>> /\ Head(queue) \in {"manualPush", "manualPull"}
    /\ queue' = Tail(queue)
    /\ eng' = [eng EXCEPT !.phase = "syncing", !.inOwnOperation = TRUE]
    /\ run' = [NoRun EXCEPT !.job = Head(queue),
                  !.at = IF Head(queue) = "manualPush" THEN "lock" ELSE "download"]
    /\ UNCHANGED <<local, server, record, world>>

-----------------------------------------------------------------------------
(* Pushing: pushVault, then afterPush or the 409 branch *)

\* One stamp per logical push: only a file not ahead of the record is stamped.
Stamped ==
    IF record.ver > 0 /\ local.gen > record.blob.gen THEN local
    ELSE [local EXCEPT !.gen = IF record.ver = 0 THEN local.gen + 1 ELSE record.blob.gen + 1]

\* The vault lock is held: the file is stamped and read.
PushSnapshot ==
    /\ run.at = "lock"
    /\ local' = Stamped
    /\ run' = [run EXCEPT !.at = "upload", !.blob = Stamped]
    /\ UNCHANGED <<server, record, world, eng, queue>>

UploadServed ==
    /\ run.at = "upload" /\ paying
    /\ IF server.ver = record.ver
       THEN /\ server' = [ver |-> server.ver + 1, blob |-> run.blob]
            /\ AwaitAt("landed")
       ELSE UNCHANGED server /\ AwaitAt("refused")
    /\ UNCHANGED <<local, record, world, eng, queue>>

PushLanded ==
    /\ run.at = "landed"
    /\ record' = [ver |-> record.ver + 1, blob |-> run.blob]
    /\ End(IF ~Manual THEN AfterPush(eng, run.blob)
           ELSE IF local = run.blob THEN Clean(eng) ELSE RearmAfterManual(eng))
    /\ UNCHANGED <<local, server, world, queue>>

\* 409.  A second refusal in a row is an error; the first asks where we stand.
PushRefused ==
    /\ run.at = "refused"
    /\ IF Manual THEN End(ManualReturned(eng))
       ELSE IF run.again THEN End(Fail([eng EXCEPT !.pushPending = TRUE], "flush"))
       ELSE run' = [run EXCEPT !.at = "status", !.why = "refused"] /\ UNCHANGED eng
    /\ UNCHANGED <<local, server, record, world, queue>>

-----------------------------------------------------------------------------
(* Asking and deciding *)

StatusServed ==
    /\ run.at = "status" /\ paying
    /\ run' = [run EXCEPT !.at = "answered", !.remote = server]
    /\ UNCHANGED <<local, server, record, world, eng, queue>>

\* syncState, from the server's answer and the local file as it is now.
SyncState ==
    LET edited == ~Matches IN
    CASE run.remote.ver = 0 -> "no-remote"
      [] run.remote.ver > 0 /\ run.remote.blob = local -> "in-sync"
      [] run.remote.ver > 0 /\ run.remote.blob # local ->
            IF run.remote.ver <= record.ver THEN "ahead"
            ELSE IF edited THEN "diverged" ELSE "behind"

\* repairRecord adopts what the server reported.
RepairRecord == record' = run.remote

DecideAfterRefusal ==
    /\ run.at = "answered" /\ run.why = "refused"
    /\ CASE SyncState = "in-sync" -> RepairRecord /\ End(Clean(eng))
         [] SyncState \in {"ahead", "no-remote"} ->
              /\ run' = [run EXCEPT !.at = "lock", !.again = TRUE]
              /\ UNCHANGED <<record, eng>>
         [] SyncState \in {"behind", "diverged"} ->
              /\ End(ReportState([eng EXCEPT !.pushPending = TRUE], SyncState))
              /\ UNCHANGED record
    /\ UNCHANGED <<local, server, world, queue>>

DecideWake ==
    /\ run.at = "answered" /\ run.why = "wake"
    /\ CASE SyncState = "behind" ->
              /\ run' = [run EXCEPT !.at = "download", !.blob = local]
              /\ UNCHANGED <<record, eng>>
         [] SyncState \in {"ahead", "no-remote"} ->
              RunPush([eng EXCEPT !.pushPending = TRUE], TRUE) /\ UNCHANGED record
         [] SyncState = "in-sync" -> RepairRecord /\ End(Settle(eng))
         [] SyncState = "diverged" -> End(ReportState(eng, "diverged")) /\ UNCHANGED record
    /\ UNCHANGED <<local, server, world, queue>>

-----------------------------------------------------------------------------
(* Pulling: pullVault with expectLocalSha and refuseDrops, or by hand *)

DownloadServed ==
    /\ run.at = "download" /\ paying /\ server.ver > 0
    /\ run' = [run EXCEPT !.at = "downloaded", !.remote = server,
                          !.blob = IF Manual THEN local ELSE run.blob]
    /\ UNCHANGED <<local, server, record, world, eng, queue>>

\* LocalChangedError: the file is not the one the pull was decided on.
Moved == local # run.blob

WouldDropNothing == FALSE
WouldDrop == run.remote.blob.mine < local.mine

InstallPull ==
    /\ run.at = "downloaded" /\ ~Moved
    /\ Manual \/ ~WouldDrop
    /\ local' = run.remote.blob
    /\ record' = run.remote
    /\ End(IF Manual THEN Clean(eng) ELSE Settle(eng))
    /\ UNCHANGED <<server, world, queue>>

\* refuseDrops; by hand the dry pass answers with its report instead.
RefusePull ==
    /\ run.at = "downloaded" /\ ~Moved /\ WouldDrop
    /\ End(IF Manual THEN ManualReturned(eng) ELSE ReportPullRefused(eng))
    /\ UNCHANGED <<local, server, record, world, queue>>

PullMoved ==
    /\ run.at = "downloaded" /\ Moved
    /\ IF Manual THEN End(ManualThrew(eng))
       ELSE run' = [run EXCEPT !.at = "status", !.why = "changed"] /\ UNCHANGED eng
    /\ UNCHANGED <<local, server, record, world, queue>>

DecideAfterMove ==
    /\ run.at = "answered" /\ run.why = "changed"
    /\ IF SyncState = "ahead" THEN RunPush([eng EXCEPT !.pushPending = TRUE], TRUE)
       ELSE End(ReportState(eng, SyncState))
    /\ UNCHANGED <<local, server, record, world, queue>>

-----------------------------------------------------------------------------
(* Failing requests *)

RetryJob == IF run.job = "wake" THEN "wake" ELSE "flush"

\* A request times out, before the server served it or after (landed).
RequestFails ==
    /\ run.at \in {"upload", "landed", "status", "download"}
    /\ faults < MaxFaults /\ faults' = faults + 1
    /\ End(IF Manual THEN ManualThrew(eng) ELSE Fail(eng, RetryJob))
    /\ UNCHANGED <<local, server, record, key, paying, queue>>

\* 402 or 403: the engine pauses; a manual operation only reports it.
RequestUnpaid ==
    /\ run.at \in {"upload", "status", "download"} /\ ~paying
    /\ End(IF Manual THEN ManualThrew(eng) ELSE Pause(eng))
    /\ UNCHANGED <<local, server, record, world, queue>>

NoRemote ==
    /\ run.at = "download" /\ paying /\ server.ver = 0
    /\ End(IF Manual THEN ManualReturned(eng) ELSE Settle(eng))
    /\ UNCHANGED <<local, server, record, world, queue>>

-----------------------------------------------------------------------------
(* Timers, the user and the other devices *)

FireDebounce ==
    /\ eng.debounce /\ Enqueue("push")
    /\ eng' = [eng EXCEPT !.debounce = FALSE]
    /\ UNCHANGED <<local, server, record, world, run>>

FireRetry ==
    /\ eng.retry # "none" /\ Enqueue(eng.retry)
    /\ eng' = [eng EXCEPT !.retry = "none"]
    /\ UNCHANGED <<local, server, record, world, run>>

PauseAges ==
    /\ eng.paused /\ ~eng.old /\ local.gen < MaxGen
    /\ eng' = [eng EXCEPT !.old = TRUE]
    /\ UNCHANGED <<local, server, record, world, queue, run>>

\* Vault.save in this process; the bytes always differ from any earlier ones.
Write ==
    /\ key /\ local.mine < MaxWrites
    /\ local' = [local EXCEPT !.mine = local.mine + 1]
    /\ eng' = NotifyWrite(eng)
    /\ UNCHANGED <<server, record, world, queue, run>>

\* Launch, unlock, foreground.
Wake ==
    /\ key /\ Room /\ Enqueue("wake")
    /\ eng' = ExpirePause(eng)
    /\ UNCHANGED <<local, server, record, world, run>>

Unlock ==
    /\ ~key /\ Enqueue("wake")
    /\ key' = TRUE
    /\ eng' = ExpirePause(eng)
    /\ UNCHANGED <<local, server, record, paying, faults, run>>

LockVault ==
    /\ key /\ faults < MaxFaults
    /\ key' = FALSE /\ faults' = faults + 1
    /\ UNCHANGED <<local, server, record, paying, eng, queue, run>>

\* close() gives a pending write one chance; the process may end at any point.
Flush ==
    /\ eng.pushPending /\ Room /\ Enqueue("flush")
    /\ eng' = [eng EXCEPT !.debounce = FALSE]
    /\ UNCHANGED <<local, server, record, world, run>>

Restart ==
    /\ faults < MaxFaults /\ faults' = faults + 1
    /\ key' = FALSE /\ eng' = NewEngine /\ queue' = <<>> /\ run' = NoRun
    /\ UNCHANGED <<local, server, record, paying>>

RunManual ==
    /\ key /\ Room
    /\ Enqueue("manualPush") \/ Enqueue("manualPull")
    /\ eng' = Resume(eng)
    /\ UNCHANGED <<local, server, record, world, run>>

\* The server-config route lifts the pause and starts nothing.
ChangeServer ==
    /\ eng.paused /\ local.gen < MaxGen
    /\ eng' = Resume(eng)
    /\ UNCHANGED <<local, server, record, world, queue, run>>

Lapse ==
    /\ paying /\ faults < MaxFaults
    /\ paying' = FALSE /\ faults' = faults + 1
    /\ UNCHANGED <<local, server, record, key, eng, queue, run>>
Pay ==
    /\ ~paying /\ paying' = TRUE
    /\ UNCHANGED <<local, server, record, key, faults, eng, queue, run>>

\* Another device pushes on top of the server's copy; the phone's
\* last-writer-wins push may leave out writes of ours.
OtherPush ==
    /\ server.ver > 0 /\ server.blob.theirs < MaxOthers
    /\ \E k \in 0..server.blob.mine :
          server' = [ver |-> server.ver + 1,
                     blob |-> [mine |-> k, theirs |-> server.blob.theirs + 1,
                               gen |-> server.blob.gen + 1]]
    /\ UNCHANGED <<local, record, world, eng, queue, run>>

\* The server is wiped or restored from a backup that lacks this machine's
\* latest write.
ServerReset ==
    /\ server.ver > 0 /\ faults < MaxFaults /\ faults' = faults + 1
    /\ \/ server' = [ver |-> 0, blob |-> Nothing]
       \/ /\ server.ver > 1 /\ server.blob.mine > 0
          /\ server' = [ver |-> server.ver - 1,
                        blob |-> [server.blob EXCEPT !.mine = server.blob.mine - 1]]
    /\ UNCHANGED <<local, record, key, paying, eng, queue, run>>

-----------------------------------------------------------------------------

Start == StartPush \/ StartWake \/ StartManual
Push == PushSnapshot \/ UploadServed \/ PushLanded \/ PushRefused
Decide == StatusServed \/ DecideAfterRefusal \/ DecideWake \/ DecideAfterMove
Pull == DownloadServed \/ InstallPull \/ RefusePull \/ PullMoved \/ NoRemote
Timers == FireDebounce \/ FireRetry \/ PauseAges
EngineStep == Start \/ Push \/ Decide \/ Pull \/ Timers \/ RequestUnpaid
User == Write \/ Wake \/ Unlock \/ LockVault \/ Flush \/ Restart \/ RunManual \/ ChangeServer
Outside == RequestFails \/ Lapse \/ Pay \/ OtherPush \/ ServerReset

AutoNext == EngineStep \/ User \/ Outside

AutoSpec == AutoInit /\ [][AutoNext]_autoVars

\* Promises settle and timers fire while the process lives, and a user who
\* locked the vault opens it again.
FairAutoSpec ==
    /\ AutoSpec
    /\ WF_autoVars(Start)
    /\ WF_autoVars(Push \/ Decide \/ Pull \/ RequestUnpaid)
    /\ WF_autoVars(FireDebounce) /\ WF_autoVars(FireRetry)
    /\ WF_autoVars(Unlock)

-----------------------------------------------------------------------------
(* Properties *)

AutoTypeOK ==
    /\ local \in Blob /\ server \in Copy /\ record \in Copy
    /\ key \in BOOLEAN /\ paying \in BOOLEAN /\ faults \in 0..MaxFaults
    /\ eng \in Engine /\ queue \in Seq(Jobs) /\ run \in Run
    /\ eng.inOwnOperation <=> run.at # "none"

AtRest == run.at = "none" /\ queue = <<>>
Unsynced == ~Matches
\* A wake whose download finds the server wiped since its answer settles
\* without looking at the file; the properties leave an empty server out.
Wiped == record.ver > 0 /\ server.ver = 0

\* The status never claims "synced" over bytes the server was not given: a
\* write that inOwnOperation swallowed is found again however the operation
\* ends.  (A manual operation that ran although a pause began while it was
\* queued leaves "synced" with the pause in force.)
SyncedMeansSynced ==
    (AtRest /\ eng.phase = "synced" /\ ~eng.paused /\ ~Wiped) => Matches

\* A write the engine knows of is never parked: a timer is armed for it, or
\* it waits for an unlock or a payment, or the user has been told why.
PendingIsArmed ==
    (AtRest /\ eng.pushPending /\ Unsynced) =>
        \/ eng.debounce \/ eng.retry # "none"
        \/ ~key \/ eng.paused \/ eng.phase = "error" \/ Wiped

\* The engine's fields stay sound: typed, and no known write without a timer.
AutoInv == AutoTypeOK /\ PendingIsArmed

\* An automatic pull never removes a write of this machine: it replaces only
\* bytes the server was given, so none made during the download, and what it
\* installs has every write, so none another device's push left out.
AutoPullKeepsWrites ==
    [][(InstallPull /\ ~Manual) => Matches /\ local'.mine >= local.mine]_autoVars

\* Every unsynced write is pushed in the end, or the engine says why it is
\* not (idle: it claims nothing).
WritesAreSynced ==
    Unsynced ~> (Matches \/ eng.paused \/ eng.phase \in {"error", "idle"} \/ Wiped)
=============================================================================
