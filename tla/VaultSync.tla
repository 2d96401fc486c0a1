----------------------------- MODULE VaultSync ------------------------------
(***************************************************************************)
(* Whole-vault sync of several machines through one compare-and-set blob   *)
(* per server (packages/sync/src/client.ts, config.ts and the decisions of *)
(* auto.ts).                                                               *)
(*                                                                         *)
(* A machine holds a vault file, a held download and sync.json; each of    *)
(* its processes (CLI, desktop, MCP host) runs one sync operation at a     *)
(* time.  The sync lock admits one push or pull per machine; the vault     *)
(* lock is held only where the code holds it, so other processes write     *)
(* between the phases.  A PUT may be lost, answered to nobody, or applied  *)
(* long after its client gave up.  A process may die between two steps.    *)
(*                                                                         *)
(* The bytes of a vault file are abstracted to the edits it contains, its  *)
(* sync generation, and the machine whose save sealed it (each save uses a *)
(* fresh nonce, so two machines never seal equal bytes).  A sha256 is      *)
(* modelled by the bytes it names.  An edit is a new row or a forget; a    *)
(* mark is a scope's shared/private mark, which the drop report shows but  *)
(* never counts.                                                           *)
(***************************************************************************)
EXTENDS Integers, Sequences

CONSTANTS
    Machines, Procs,
    Home,        \* Home[p]: the machine process p runs on
    Origin,      \* the machine whose vault was created by init
    Servers,
    Edits,       \* what can be written, each once
    Marks,       \* the edits that only change a scope mark
    CanCrash,
    Reviewers,   \* the processes whose users start reviewed pulls
    MaxVersion,  \* bound: server versions
    MaxGen       \* bound: sync generations

Nobody == "nobody"

ASSUME SyncAssumption ==
    /\ Home \in [Procs -> Machines]
    /\ Origin \in Machines
    /\ Servers # {}
    /\ Nobody \notin Machines \cup Procs
    /\ Marks \subseteq Edits
    /\ CanCrash \in BOOLEAN
    /\ Reviewers \subseteq Procs
    /\ MaxVersion \in Nat
    /\ MaxGen \in Nat

Blob == [edits: SUBSET Edits, gen: Nat, by: Machines]
NoBlob == [edits |-> {}, gen |-> 0, by |-> Nobody]
MaybeBlob == Blob \cup {NoBlob}

\* null in lastGeneration; NoBlob is the null of lastSha.
NoGen == -1
Config == [url: Servers, ver: Nat, sha: MaybeBlob, gen: Nat \cup {NoGen}]
FirstServer == CHOOSE s \in Servers : TRUE
NeverSynced == [url |-> FirstServer, ver |-> 0, sha |-> NoBlob, gen |-> NoGen]

\* A PUT on the wire; live while its client still waits.
Request == [from: Procs, url: Servers, base: Nat, blob: Blob, live: BOOLEAN]

\* The download a preview keeps for the confirmation, one per machine.
Hold == [ver: Nat, blob: MaybeBlob, local: MaybeBlob]
NoHold == [ver |-> 0, blob |-> NoBlob, local |-> NoBlob]

\* What a process remembers between the steps of its operation: ver and blob
\* are the server copy in hand, expect the local bytes it decided on, config
\* the sync.json it read, shown what the user was told a pull would drop.
Labels == {"idle", "sent", "record", "conflict", "status", "decide", "push",
           "pull", "repair", "install", "held", "installed", "preview", "reviewing"}
Reasons == {"wake", "refused", "changed", "manual", "fresh", "confirm"}
Operation == [pc: Labels, why: Reasons, ver: Nat, blob: MaybeBlob,
              expect: MaybeBlob, config: Config, shown: SUBSET Edits]
Idle == [pc |-> "idle", why |-> "manual", ver |-> 0, blob |-> NoBlob,
         expect |-> NoBlob, config |-> NeverSynced, shown |-> {}]

VARIABLES
    hist,       \* hist[s][v]: the blob installed at server s as version v
    net,        \* PUT requests the server has not seen yet
    vault,      \* vault[m]: the file, or NoBlob before the first pull
    cfg,        \* cfg[m]: sync.json
    hold,       \* hold[m]: the previewed download
    syncLock,   \* syncLock[m]: the process inside withSyncLock, or Nobody
    op,         \* op[p]: the operation of process p
    written,    \* edits written so far, anywhere
    discarded   \* edits a user agreed to lose in a confirmed pull

syncVars == <<hist, net, vault, cfg, hold, syncLock, op, written, discarded>>
serverVars == <<hist, net>>
files == <<vault, cfg, hold>>
ghosts == <<written, discarded>>

SyncInit ==
    /\ hist = [s \in Servers |-> <<>>]
    /\ net = {}
    /\ vault = [m \in Machines |->
                  IF m = Origin THEN [edits |-> {}, gen |-> 0, by |-> m] ELSE NoBlob]
    /\ cfg = [m \in Machines |-> NeverSynced]
    /\ hold = [m \in Machines |-> NoHold]
    /\ syncLock = [m \in Machines |-> Nobody]
    /\ op = [p \in Procs |-> Idle]
    /\ written = {}
    /\ discarded = {}

-----------------------------------------------------------------------------
(* Helpers *)

At(p, label) == op[p].pc = label
Become(p, o) == op' = [op EXCEPT ![p] = o]
Goto(p, label) == Become(p, [op[p] EXCEPT !.pc = label])
Finish(p) == Become(p, Idle)

\* remoteStatus: the version and the bytes server s holds now.
RemoteVersion(s) == Len(hist[s])
RemoteBlob(s) == IF hist[s] = <<>> THEN NoBlob ELSE hist[s][Len(hist[s])]

TakeLock(p) ==
    /\ syncLock[Home[p]] = Nobody
    /\ syncLock' = [syncLock EXCEPT ![Home[p]] = p]

DropLock(p) ==
    syncLock' = [syncLock EXCEPT ![Home[p]] = IF @ = p THEN Nobody ELSE @]

\* The vault lock spans the rename and the write of sync.json in installBlob.
VaultLocked(m) == \E p \in Procs : Home[p] = m /\ At(p, "installed")

\* Vault.save and the swap of a pull: a temp file renamed over the vault.
Save(m, b) == vault' = [vault EXCEPT ![m] = b]

Dropped(local, pulled) == local.edits \ pulled.edits

\* pullWouldDrop(computeDropReport(local, pulled)): marks are information only.
WouldDrop(local, pulled) == ~(Dropped(local, pulled) \subseteq Marks)

\* Mutant of IsReplay: the file's own stamp is the yardstick.
ReplayAgainstLocalStamp(m, pulled) == pulled.gen < vault[m].gen

\* The replay check of installBlob.
IsReplay(m, pulled) == pulled.gen < (IF cfg[m].gen = NoGen THEN 0 ELSE cfg[m].gen)

\* syncState, from the config and the status read earlier and the local file
\* read now.  (A server that reports no hash, an older one, is left out.)
SyncStateOf(config, remoteVer, remote, local) ==
    IF remoteVer = 0 THEN "no-remote"
    ELSE IF local = NoBlob THEN "no-local"
    ELSE IF local = remote THEN "in-sync"
    ELSE IF remoteVer <= config.ver THEN "ahead"
    ELSE IF config.sha = NoBlob \/ local # config.sha THEN "diverged" ELSE "behind"

\* saveSyncConfig: a temp file renamed over sync.json.
Record(m, c) == cfg' = [cfg EXCEPT ![m] = c]

-----------------------------------------------------------------------------
(* Writing *)

\* Any process of m writes through withVault: open, mutate, save.
LocalWrite(m, e) ==
    /\ vault[m] # NoBlob
    /\ ~VaultLocked(m)
    /\ e \notin written
    /\ Save(m, [edits |-> vault[m].edits \cup {e}, gen |-> vault[m].gen, by |-> m])
    /\ written' = written \cup {e}
    /\ UNCHANGED <<serverVars, cfg, hold, syncLock, op, discarded>>

-----------------------------------------------------------------------------
(* Pushing *)

\* Mutant of StampFor: a null baseline is read as a number.
StampIgnoresNull(m) == cfg[m].gen

\* One bump per logical push: a file already ahead of lastGeneration was
\* stamped by an attempt that never landed.
StampFor(m) ==
    LET last == cfg[m].gen  current == vault[m].gen IN
    IF last = NoGen THEN current + 1
    ELSE IF current <= last THEN last + 1 ELSE current

Stamped(m) ==
    IF StampFor(m) = vault[m].gen THEN vault[m]
    ELSE [edits |-> vault[m].edits, gen |-> StampFor(m), by |-> m]

\* The debounce after a write: runPush without asking the server first.
Debounced(p) ==
    /\ At(p, "idle")
    /\ vault[Home[p]] # NoBlob
    /\ Become(p, [op[p] EXCEPT !.pc = "push", !.why = "wake"])
    /\ UNCHANGED <<serverVars, files, syncLock, ghosts>>

\* Phase 1 of pushVault, under the vault lock, and the PUT leaving.
PushSnapshot(p) ==
    LET m == Home[p]  b == Stamped(m) IN
    /\ op[p].pc \in {"idle", "push"}
    /\ vault[m] # NoBlob
    /\ ~VaultLocked(m)
    /\ StampFor(m) <= MaxGen
    /\ TakeLock(p)
    /\ IF b = vault[m] THEN UNCHANGED vault ELSE Save(m, b)
    /\ net' = net \cup {[from |-> p, url |-> cfg[m].url, base |-> cfg[m].ver,
                         blob |-> b, live |-> TRUE]}
    /\ Become(p, [op[p] EXCEPT !.pc = "sent", !.blob = b])
    /\ UNCHANGED <<hist, cfg, hold, ghosts>>

\* runPush: the file still hashes to lastSha, so there is nothing to upload.
PushNothing(p) ==
    /\ At(p, "push")
    /\ op[p].why # "refused"
    /\ cfg[Home[p]].sha = vault[Home[p]]
    /\ Finish(p)
    /\ UNCHANGED <<serverVars, files, syncLock, ghosts>>

\* The wait for a lock runs out (SyncBusyError), or the vault cannot be read:
\* nothing was sent.
PushFails(p) ==
    /\ At(p, "push")
    /\ Finish(p)
    /\ UNCHANGED <<serverVars, files, syncLock, ghosts>>

\* Mutant of Accepts: the base is not compared.
AcceptsAnything(r) == RemoteVersion(r.url) >= r.base

\* PUT /api/blob installs only over the version the client named.
Accepts(r) == RemoteVersion(r.url) = r.base

Waiting(p) == {r \in net : r.from = p /\ r.live}

\* The server installs, or answers 409.  The answer reaches the client only
\* if it still waits and the network delivers it.
Serve(r, delivered) ==
    /\ r \in net
    /\ Accepts(r) => RemoteVersion(r.url) < MaxVersion
    /\ delivered => r.live
    /\ net' = net \ {r}
    /\ hist' = IF Accepts(r) THEN [hist EXCEPT ![r.url] = Append(@, r.blob)] ELSE hist
    /\ IF ~delivered THEN UNCHANGED op
       ELSE IF Accepts(r)
       THEN Become(r.from, [op[r.from] EXCEPT !.pc = "record",
                                              !.ver = RemoteVersion(r.url) + 1])
       ELSE Goto(r.from, "conflict")
    /\ UNCHANGED <<files, syncLock, ghosts>>

GiveUp(p) ==
    net' = (net \ Waiting(p)) \cup {[r EXCEPT !.live = FALSE] : r \in Waiting(p)}

\* AbortSignal.timeout, or the connection breaks: the request may still be
\* on its way.
PushTimeout(p) ==
    /\ At(p, "sent")
    /\ GiveUp(p)
    /\ DropLock(p)
    /\ Finish(p)
    /\ UNCHANGED <<hist, files, ghosts>>

LoseRequest(r) ==
    /\ r \in net
    /\ ~r.live
    /\ net' = net \ {r}
    /\ UNCHANGED <<hist, files, syncLock, op, ghosts>>

\* Mutant of PushRecord: the record hashes the file as it is by now.
RecordCurrentFile(p) ==
    LET m == Home[p] IN
    /\ At(p, "record")
    /\ ~VaultLocked(m)
    /\ Record(m, [cfg[m] EXCEPT !.ver = op[p].ver, !.sha = vault[m],
                          !.gen = op[p].blob.gen])
    /\ DropLock(p)
    /\ Finish(p)
    /\ UNCHANGED <<serverVars, vault, hold, ghosts>>

\* Phase 3: record what was uploaded, not what the file holds by now.
PushRecord(p) ==
    LET m == Home[p] IN
    /\ At(p, "record")
    /\ ~VaultLocked(m)
    /\ Record(m, [cfg[m] EXCEPT !.ver = op[p].ver, !.sha = op[p].blob,
                          !.gen = op[p].blob.gen])
    /\ DropLock(p)
    /\ Finish(p)
    /\ UNCHANGED <<serverVars, vault, hold, ghosts>>

\* 409: a manual push reports it, and so does the engine's second attempt;
\* its first one asks the server where it stands.
PushRefused(p) ==
    /\ At(p, "conflict")
    /\ DropLock(p)
    /\ IF op[p].why \in {"wake", "changed"}
       THEN Become(p, [Idle EXCEPT !.pc = "status", !.why = "refused",
                                                 !.config = cfg[Home[p]]])
       ELSE Finish(p)
    /\ UNCHANGED <<serverVars, files, ghosts>>

-----------------------------------------------------------------------------
(* The engine: syncState, then act *)

WakeStart(p) ==
    /\ At(p, "idle")
    /\ Become(p, [op[p] EXCEPT !.pc = "status", !.why = "wake", !.config = cfg[Home[p]]])
    /\ UNCHANGED <<serverVars, files, syncLock, ghosts>>

WakeStatus(p) ==
    LET s == op[p].config.url IN
    /\ At(p, "status")
    /\ Become(p, [op[p] EXCEPT !.pc = "decide", !.ver = RemoteVersion(s),
                        !.blob = RemoteBlob(s)])
    /\ UNCHANGED <<serverVars, files, syncLock, ghosts>>

\* What the engine does with the answer, by the reason it asked; every other
\* answer is reported to the user.
NextAfter(state, why) ==
    IF state = "behind" /\ why = "wake" THEN "pull"
    ELSE IF state = "ahead" \/ (state = "no-remote" /\ why # "changed") THEN "push"
    ELSE IF state = "in-sync" /\ why # "changed" THEN "repair"
    ELSE "idle"

\* The local file is read here, without a lock.
WakeDecide(p) ==
    LET m == Home[p]
        o == op[p]
        next == NextAfter(SyncStateOf(o.config, o.ver, o.blob, vault[m]), o.why)
        recorded == cfg[m].ver = o.ver /\ cfg[m].sha = o.blob
    IN
    /\ At(p, "decide")
    /\ IF next = "idle" \/ vault[m] = NoBlob \/ (next = "repair" /\ recorded)
       THEN Finish(p)
       ELSE Become(p, [op[p] EXCEPT !.pc = next, !.expect = vault[m], !.config = cfg[m]])
    /\ UNCHANGED <<serverVars, files, syncLock, ghosts>>

\* repairRecord: a push landed and its record was lost.  The generation is
\* read from the file, and sync.json is written without a lock.
RepairSave(p) ==
    LET m == Home[p] IN
    /\ At(p, "repair")
    /\ Record(m, [op[p].config EXCEPT
                 !.ver = op[p].ver, !.sha = op[p].blob, !.gen = vault[m].gen])
    /\ Finish(p)
    /\ UNCHANGED <<serverVars, vault, hold, syncLock, ghosts>>

-----------------------------------------------------------------------------
(* Pulling *)

\* pullVault: the engine's fast-forward, or the first pull of a machine
\* without a vault.
Download(p) ==
    LET m == Home[p]  s == cfg[m].url IN
    /\ At(p, "pull") \/ (At(p, "idle") /\ vault[m] = NoBlob)
    /\ RemoteVersion(s) > 0
    /\ TakeLock(p)
    /\ Become(p, [op[p] EXCEPT !.pc = "install", !.ver = RemoteVersion(s),
                        !.blob = RemoteBlob(s),
                        !.why = IF vault[m] = NoBlob THEN "fresh" ELSE @])
    /\ UNCHANGED <<serverVars, files, ghosts>>

\* Mutant of MovedSince: the pull trusts its earlier decision.
NeverMoved(p) == FALSE

\* expectLocalSha, re-checked under the vault lock.
MovedSince(p) == vault[Home[p]] # op[p].expect

\* LocalChangedError: the engine decides again from the new bytes.
InstallMoved(p) ==
    /\ At(p, "install")
    /\ op[p].why = "wake"
    /\ ~VaultLocked(Home[p])
    /\ MovedSince(p)
    /\ DropLock(p)
    /\ Become(p, [Idle EXCEPT !.pc = "status", !.why = "changed",
                                            !.config = cfg[Home[p]]])
    /\ UNCHANGED <<serverVars, files, ghosts>>

\* PullWouldDropError or the replay check: nothing is replaced.
InstallRefused(p) ==
    LET m == Home[p] IN
    /\ At(p, "install")
    /\ op[p].why = "wake"
    /\ ~VaultLocked(m)
    /\ ~MovedSince(p)
    /\ WouldDrop(vault[m], op[p].blob) \/ IsReplay(m, op[p].blob)
    /\ DropLock(p)
    /\ Finish(p)
    /\ UNCHANGED <<serverVars, files, ghosts>>

\* The automatic swap.
InstallAuto(p) ==
    LET m == Home[p] IN
    /\ At(p, "install")
    /\ op[p].why = "wake"
    /\ ~VaultLocked(m)
    /\ ~MovedSince(p)
    /\ ~WouldDrop(vault[m], op[p].blob)
    /\ ~IsReplay(m, op[p].blob)
    /\ Save(m, op[p].blob)
    /\ Goto(p, "installed")
    /\ UNCHANGED <<serverVars, cfg, hold, syncLock, ghosts>>

\* A fresh machine has nothing to protect.
InstallFresh(p) ==
    LET m == Home[p] IN
    /\ At(p, "install")
    /\ op[p].why = "fresh"
    /\ Save(m, op[p].blob)
    /\ Goto(p, "installed")
    /\ UNCHANGED <<serverVars, cfg, hold, syncLock, ghosts>>

\* Mutant of InstallRecord: the generation of the replaced copy stays.
RecordKeepsGeneration(p) ==
    LET m == Home[p] IN
    /\ At(p, "installed")
    /\ Record(m, [cfg[m] EXCEPT !.ver = op[p].ver, !.sha = vault[m]])
    /\ hold' = [hold EXCEPT ![m] = IF op[p].why = "confirm" THEN NoHold ELSE @]
    /\ DropLock(p)
    /\ Finish(p)
    /\ UNCHANGED <<serverVars, vault, ghosts>>

\* Still under the vault lock: sync.json names the bytes now on disk.  The
\* first pull of the CLI carries no key, so it cannot read the generation.
InstallRecord(p) ==
    LET m == Home[p] IN
    /\ At(p, "installed")
    /\ Record(m, [cfg[m] EXCEPT !.ver = op[p].ver, !.sha = vault[m],
                 !.gen = IF op[p].why = "fresh" THEN NoGen ELSE vault[m].gen])
    /\ hold' = [hold EXCEPT ![m] = IF op[p].why = "confirm" THEN NoHold ELSE @]
    /\ DropLock(p)
    /\ Finish(p)
    /\ UNCHANGED <<serverVars, vault, ghosts>>

-----------------------------------------------------------------------------
(* The reviewed pull: previewPull, a human, confirmPull *)

PreviewDownload(p) ==
    LET s == cfg[Home[p]].url IN
    /\ p \in Reviewers
    /\ At(p, "idle")
    /\ vault[Home[p]] # NoBlob
    /\ RemoteVersion(s) > 0
    /\ TakeLock(p)
    /\ Become(p, [op[p] EXCEPT !.pc = "preview", !.ver = RemoteVersion(s),
                        !.blob = RemoteBlob(s)])
    /\ UNCHANGED <<serverVars, files, ghosts>>

\* Under the vault lock: compute the report, keep the bytes, the server's
\* version and the local hash.
PreviewHold(p) ==
    LET m == Home[p]  o == op[p] IN
    /\ At(p, "preview")
    /\ ~VaultLocked(m)
    /\ hold' = [hold EXCEPT ![m] = [ver |-> o.ver, blob |-> o.blob, local |-> vault[m]]]
    /\ Become(p, [op[p] EXCEPT !.pc = "reviewing", !.shown = Dropped(vault[m], o.blob)])
    /\ DropLock(p)
    /\ UNCHANGED <<serverVars, vault, cfg, ghosts>>

ReviewCancel(p) ==
    /\ At(p, "reviewing")
    /\ Finish(p)
    /\ UNCHANGED <<serverVars, files, syncLock, ghosts>>

\* The hold is still the one reviewed and the server still holds it.
HoldCurrent(p) ==
    LET m == Home[p]  s == cfg[m].url IN
    /\ hold[m].ver = op[p].ver /\ hold[m].blob = op[p].blob
    /\ RemoteVersion(s) = op[p].ver /\ RemoteBlob(s) = op[p].blob

\* RemoteChangedError: the hold is discarded.
ConfirmRefused(p) ==
    /\ At(p, "reviewing")
    /\ syncLock[Home[p]] = Nobody
    /\ ~HoldCurrent(p)
    /\ hold' = [hold EXCEPT ![Home[p]] = NoHold]
    /\ Finish(p)
    /\ UNCHANGED <<serverVars, vault, cfg, syncLock, ghosts>>

ConfirmStart(p) ==
    /\ At(p, "reviewing")
    /\ HoldCurrent(p)
    /\ TakeLock(p)
    /\ Become(p, [op[p] EXCEPT !.pc = "held", !.why = "confirm",
                        !.expect = hold[Home[p]].local])
    /\ UNCHANGED <<serverVars, files, ghosts>>

\* LocalChangedError or the replay check: the hold is discarded.
HeldRefused(p) ==
    LET m == Home[p] IN
    /\ At(p, "held")
    /\ ~VaultLocked(m)
    /\ MovedSince(p) \/ IsReplay(m, op[p].blob)
    /\ hold' = [hold EXCEPT ![m] = NoHold]
    /\ DropLock(p)
    /\ Finish(p)
    /\ UNCHANGED <<serverVars, vault, cfg, ghosts>>

InstallHeld(p) ==
    LET m == Home[p] IN
    /\ At(p, "held")
    /\ ~VaultLocked(m)
    /\ ~MovedSince(p)
    /\ ~IsReplay(m, op[p].blob)
    /\ Save(m, op[p].blob)
    /\ discarded' = discarded \cup Dropped(vault[m], op[p].blob)
    /\ Goto(p, "installed")
    /\ UNCHANGED <<serverVars, cfg, hold, syncLock, written>>

-----------------------------------------------------------------------------
(* Configuration and crashes *)

\* setSyncServer: the account id derives from the device secret, so it is
\* always this machine's own and the baseline is kept.
SetServer(m, s) ==
    /\ s # cfg[m].url
    /\ Record(m, [cfg[m] EXCEPT !.url = s])
    /\ UNCHANGED <<serverVars, vault, hold, syncLock, op, ghosts>>

\* The process dies; the next one clears the dead owner's lock.
Crash(p) ==
    /\ CanCrash
    /\ ~At(p, "idle")
    /\ GiveUp(p)
    /\ DropLock(p)
    /\ Finish(p)
    /\ UNCHANGED <<hist, files, ghosts>>

Push(p) == \/ Debounced(p) \/ PushSnapshot(p) \/ PushNothing(p) \/ PushFails(p) \/ PushTimeout(p)
           \/ PushRecord(p) \/ PushRefused(p)
Engine(p) == WakeStart(p) \/ WakeStatus(p) \/ WakeDecide(p) \/ RepairSave(p)
Pull(p) == \/ Download(p) \/ InstallMoved(p) \/ InstallRefused(p)
           \/ InstallAuto(p) \/ InstallFresh(p) \/ InstallRecord(p)
Review(p) == \/ PreviewDownload(p) \/ PreviewHold(p) \/ ReviewCancel(p)
             \/ ConfirmRefused(p) \/ ConfirmStart(p) \/ HeldRefused(p)
             \/ InstallHeld(p)

Network ==
    \E r \in net : LoseRequest(r) \/ \E delivered \in BOOLEAN : Serve(r, delivered)

SyncNext ==
    \/ Network
    \/ \E m \in Machines, e \in Edits : LocalWrite(m, e)
    \/ \E m \in Machines, s \in Servers : SetServer(m, s)
    \/ \E p \in Procs : Push(p) \/ Engine(p) \/ Pull(p) \/ Review(p) \/ Crash(p)

SyncSpec == SyncInit /\ [][SyncNext]_syncVars

-----------------------------------------------------------------------------
(* Properties *)

SyncTypeOK ==
    /\ hist \in [Servers -> Seq(Blob)]
    /\ net \subseteq Request
    /\ vault \in [Machines -> MaybeBlob]
    /\ cfg \in [Machines -> Config]
    /\ hold \in [Machines -> Hold]
    /\ syncLock \in [Machines -> Procs \cup {Nobody}]
    /\ op \in [Procs -> Operation]
    /\ written \subseteq Edits
    /\ discarded \subseteq Edits

\* No version of the server loses an edit its predecessor had, unless a user
\* confirmed a pull whose report named it: concurrent pushers, retries,
\* delayed PUTs and lost records never overwrite work the pusher has not seen.
NoLostUpdate ==
    \A s \in Servers : \A v \in 1..(Len(hist[s]) - 1) :
        hist[s][v].edits \subseteq hist[s][v + 1].edits \cup discarded

\* The generation sealed in the server's copies strictly increases, so a
\* replayed older copy is recognisable by its stamp alone.
GenerationsIncrease ==
    \A s \in Servers : \A v \in 1..(Len(hist[s]) - 1) :
        hist[s][v].gen < hist[s][v + 1].gen

\* The replay check never refuses what the server honestly holds: no machine
\* records a generation above the server's copy (the wedge of ADR 0044's
\* fourth review).
HonestCopyNeverRefused ==
    \A m \in Machines :
        LET s == cfg[m].url IN
        Len(hist[s]) > 0 => ~IsReplay(m, RemoteBlob(s))

\* lastGeneration is the generation sealed in the bytes lastSha names.
RecordedGenerationIsOfRecordedBytes ==
    \A m \in Machines :
        cfg[m].sha # NoBlob /\ cfg[m].gen # NoGen => cfg[m].gen = cfg[m].sha.gen

\* sync.json describes one moment: the recorded hash is the bytes the server
\* held at the recorded version.
BaselineNamesOneVersion ==
    \A m \in Machines :
        LET c == cfg[m] IN
        c.ver > 0 => c.ver <= Len(hist[c.url]) /\ c.sha = hist[c.url][c.ver]

\* An automatic pull only replaces bytes whose every edit, marks included,
\* already reached a server.
AutoPullBuriesNothing ==
    [][\A p \in Procs : InstallAuto(p) =>
          \E s \in Servers : \E v \in 1..Len(hist[s]) :
             vault[Home[p]].edits \subseteq hist[s][v].edits]_syncVars

\* A confirmed pull removes nothing its own user was not shown.
ConfirmDropsOnlyWhatWasShown ==
    [][\A p \in Procs : InstallHeld(p) =>
          Dropped(vault[Home[p]], op[p].blob) \subseteq op[p].shown]_syncVars
-----------------------------------------------------------------------------
(* Why no update is lost: the inductive invariant of VaultSyncProofs *)

\* b holds every edit of version v of server s, but what a user gave up.
Covers(b, s, v) == hist[s][v].edits \subseteq b.edits \cup discarded

HistoryCovers ==
    \A s \in Servers : \A u, v \in 1..Len(hist[s]) : u < v =>
        Covers(hist[s][v], s, u) /\ hist[s][u].gen < hist[s][v].gen

\* A request on the wire builds on the version it names, and a process waits
\* for one at a time.
RequestsCover ==
    /\ \A r \in net :
        /\ r.base <= Len(hist[r.url])
        /\ r.base > 0 => Covers(r.blob, r.url, r.base) /\ hist[r.url][r.base].gen < r.blob.gen
        /\ r.live => At(r.from, "sent") /\ op[r.from].blob = r.blob
    /\ \A r, q \in net : r.live /\ q.live /\ r.from = q.from => r = q

\* A vault b builds on the version its sync.json c records.
RecordCovers(c, b) ==
    /\ c.ver = 0 => c.sha = NoBlob /\ c.gen = NoGen
    /\ c.ver > 0 =>
         /\ c.ver <= Len(hist[c.url])
         /\ b # NoBlob
         /\ c.sha = hist[c.url][c.ver]
         /\ Covers(b, c.url, c.ver)
         /\ IF c.gen = NoGen THEN hist[c.url][c.ver].gen <= b.gen
            ELSE c.gen = hist[c.url][c.ver].gen

\* What an operation o has in hand is a version of the server, and one its
\* next step may record.
InHand == {"record", "repair", "install", "preview", "reviewing", "held", "installed"}
OperationCovers(o, c, b) ==
    /\ o.config.url = c.url
    /\ o.pc \in {"sent", "record", "repair", "installed"} => b # NoBlob
    /\ o.pc \in {"sent", "record", "repair"} => o.blob.edits \subseteq b.edits
    /\ o.pc = "decide" /\ o.ver > 0 => o.ver <= Len(hist[c.url]) /\ o.blob = hist[c.url][o.ver]
    /\ o.pc \in InHand => o.ver \in 1..Len(hist[c.url]) /\ o.blob = hist[c.url][o.ver]
    /\ o.pc \in InHand \ {"record", "repair"} => c.ver <= o.ver
    /\ o.pc = "repair" => b.gen = o.blob.gen
    /\ o.pc = "installed" => b = o.blob

SyncInv ==
    /\ HistoryCovers
    /\ RequestsCover
    /\ \A m \in Machines : RecordCovers(cfg[m], vault[m])
    /\ \A p \in Procs : OperationCovers(op[p], cfg[Home[p]], vault[Home[p]])
=============================================================================
