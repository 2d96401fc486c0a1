# NorthKeep in TLA+

NorthKeep keeps a person's notes and facts in one encrypted file, the vault, on
each of their devices. A server that cannot read it stores one sealed copy per
account; each device pushes its whole vault with a compare-and-set on the
version and pulls the whole vault back. A second server, the connector, holds
the entries the user chose to share with hosted AI clients. This directory
models the parts of that system where the order of events decides whether a
write survives, checks them with TLC, and proves the central ones with TLAPS.

Contents: [1 The system](#1-the-system) · [2 Modules](#2-modules) ·
[3 Runs](#3-runs-and-bounds) · [4 Fairness](#4-fairness) ·
[5 Proofs](#5-proofs) · [6 Findings](#6-findings-and-deviations) ·
[7 Abstractions](#7-abstractions) · [8 Not modelled](#8-not-modelled) ·
[9 Plan](#9-plan)

## 1 The system

### Inventory

| component | state | operations | modelled in |
|---|---|---|---|
| Vault file lock (`packages/core/src/lock.ts`) | the lock file: existence, token, mtime | `withFileLock` | `FileLock` |
| Sync client (`packages/sync/src/client.ts`, `config.ts`) | vault file, its `.bak`, `sync.json` (server, lastVersion, lastSha, lastGeneration), the held download of a dry pass | `pushVault`, `pullVault`, `previewPull`, `confirmPull`, `syncState`, `setSyncServer`, `importVault` | `VaultSync` |
| Automatic sync (`packages/sync/src/auto.ts`) | phase, pushPending, timers, backoff, sticky pause, the single-flight chain | `notifyWrite`, `wake`, `flush`, `runManual`, `resume`, `stop` | `AutoSync` |
| Mobile sync (`apps/mobile/src/lib/sync.ts`, `sync-flow.ts`, `wake.ts`, `vault.ts`, `stash.ts`) | vault file, open session, baseline, dirty flag, pending push, conflict stash | save and push, conflict recovery, wake, repairs, pull to refresh, lock | `PhoneSync` |
| Sync server (`apps/sync-server/src/handler.ts`, `storage.ts`, `neon-storage.ts`, `parts.ts`) | the account's row, uploads and their parts | every `/v1/*` storage route, over memory or PostgreSQL | `SyncServer`, `VersionedRegister` |
| Billing (`apps/sync-server/src/billing.ts`) | one subscription row per account | checkout, the webhooks, the paid gate | `Billing` |
| Connector entitlement (both `entitlement.ts`, the gate of `create-server.ts`) | nonce bindings, each account's `entitled_until` | mint, bind, stamp, gate | `Entitlement` |
| Connector store and tools (`apps/connector-server/src/storage.ts`, `neon-storage.ts`, `tombstones.ts`, `mcp.ts`, the `/client` routes of `create-server.ts`) | shared rows, scope counters, the accepted vault version, tombstones, pending rows and forgets, OAuth codes and tokens | push, unshare, an app's writes, acks, discards, forgets, lists; token exchange | `ConnectorDocs` (a project's document), `ConnectorShare` (a scope of memories); tokens not modelled |
| Connector client (`packages/sync/src/connector-*.ts`, `packages/core/src/vault.ts` for what a delivery changes) | fingerprint of the last push, sticky pause, timers | automatic and manual push, down-sync, resolving a conflict, share, unshare | the same two, without the timers |
| Vault ledger (`packages/core/src/vault.ts`) | entries, tombstones, scope marks, consolidations | remember, forget, edit, share, consolidate | planned |
| Keep Watch (`apps/web/src/keep-watch.ts`, `apps/desktop/keep-watch-helper/main.c`) | controller state, `busy`, heartbeat file, marker file, macOS's `SleepDisabled` | turn on, turn off, force off, update and remove the helper, the timer, the helper's run | `KeepWatch` |
| Notes store, project export, assistant budget | one SQLite table; a Git repository under its own lock; a daily counter | insert/replay/prune; export and commit; reserve | planned |
| Web, CLI, desktop and mobile front ends, importers, librarian, redaction, site, scripts | none that the above does not hold | requests and answers | not modelled (section 8) |

### How the parts interact

```
 CLI  desktop app  MCP hosts            phone
   \      |       /                      |
    \  withFileLock (vault.lock, sync.lock)
     vault file  <- AutoSync decides ->  vault file + open session + stash
          |    pushVault / pullVault         |  pushWithRecovery / wake
          +-------------+--------------------+
                  compare-and-set PUT, GET, parts
                        |
                  sync server -- Stripe webhooks --> subscription row
                        | attestation (window, nonce)
                  connector server <-- shared entries -- connector client
```

The vault lock serialises saves of one file by several processes; the sync lock
serialises push and pull on one machine. Nothing is locked across a network
call: the vault lock is released between the snapshot of a push and the record
of its answer, so other processes write in between, and a PUT may be applied
long after its client stopped waiting. The server orders devices by the version
in `If-Match` only.

The connector is fed by every desktop that shares: a push replaces the rows of
the shared scopes and carries the vault version it was read at; a down-sync
fetches what AI apps wrote, saves it in the vault under the vault lock, and acks
it. Keep Watch stands apart: the local server, an administrator prompt and a
root helper that launchd starts communicate through two files and one bit of
macOS.

### What is hard, and what makes each part correct

* **Lock.** Every filesystem call may be followed by another process's. A
  waiter judges a lock abandoned from what it read earlier. Correct: one holder
  at a time unless a living owner's file was taken; a holder that was stolen from
  does not remove its successor's file; a dead owner's lock is cleared.
* **Sync client.** Lost answers, late PUTs, crashes between save and record,
  two processes over one `sync.json`, two servers. Correct: no accepted version
  loses an edit of its predecessor unless a user discarded it; generations
  increase; the replay check never refuses the honest copy; an unattended pull
  buries no write; a confirmed pull drops only what the report named.
* **Engine.** Timers, a wake during a push, manual operations, pauses, a lock
  that takes the key away. Correct: a write is eventually pushed, and the
  status never says "synced" while it is not.
* **Phone.** Two push sequences and a wake share three small files that can
  each fail to be written, with the OS killing the app between any two.
  Correct: an unpushed edit stays flagged or on the server; what a conflict
  push displaces is stashed.
* **Server.** A pushed blob becomes current through several statements that
  other requests and a pruner interleave with. Correct: it is one
  compare-and-set register, and its current version can be read.
* **Billing.** Webhooks are late, repeated and out of order; one attestation
  can be presented by several accounts. Correct: the row settles on the truth,
  access was paid for, the customer is billed twice only through a checkout
  begun while another was under way, a window admits one account, the grace
  after a lapse is bounded.
* **Connector.** A push reads its stamp, the entries and the shared scopes in
  three awaits while the vault moves on; two devices and an app act on the same
  rows; an ack is lost after the vault was saved; an unshare meets a push
  prepared before it. Correct: a change an app was told is saved is in the
  connector or in a vault; no local edit is overwritten by a version that does
  not contain it; an app's update is a compare-and-set; older entries never
  outrank newer ones; an unshared scope stays unshared.
* **Keep Watch.** A prompt is answered minutes after the request that showed it,
  perhaps by a server that has died; the helper decides on what it read and
  removes the marker later. Correct: the mode is on only with a marker that tells
  the helper of it (but for two cases in section 6, while they last), and goes
  off when nobody wants it any more.

`PROJECT.json` lists each hazard at its line with the properties that cover it.

## 2 Modules

| module | models | correspondence |
|---|---|---|
| `FileLock` | `withFileLock` | one action per filesystem call: `Create`, `WriteToken`, `Stat`, `ReadToken`, `Steal`, `Retry`, `TimeOut`, `CheckOurs`, `Unlink`; `GrowOld` and `Crash` are the environment; `Touch` is the owner refreshing its mtime |
| `VaultSync` | the sync client of several machines | `op[p]` is the program counter of process p's one operation; the three phases of a push are `PushSnapshot`, the request in `net`, `PushRecord`; `WakeStart/Status/Decide` are the engine's use of `syncState`; `Download/Install*` a pull; `Preview*`, `Confirm*`, `InstallHeld` the reviewed pull; `Serve`, `LoseRequest`, `GiveUp` the network |
| `VaultSyncProofs` | its theorems | |
| `AutoSync` | one engine | `eng` is the object's fields, `queue` the chain, `run` the operation at the head and the await it stands at; `Settle`, `Clean`, `Pause`, `Fail` are the methods of those names; `Decide*` are the branches of `runPush` and `runWake` |
| `ProcessProofs` | theorems of `FileLock` and `AutoSync`: what one process keeps in order | |
| `PhoneSync` | one phone | `push[s]` a push sequence, `wake` the wake; each persisted file is a variable; a save gated by the vault mutex is one action |
| `PhoneSyncProofs` | its theorems | |
| `SyncServer` | handlers and both storages | `requests` are handlers between two statements; `stage` names the next statement; `Visible(r)` is what the statement reads: the present in memory, on PostgreSQL a snapshot taken when the statement began, re-checked on the rows it waits for |
| `VersionedRegister` | what the server promises | a log of values; `Install` appends when the base equals the length; a call returns what one moment of its duration justifies; `InstallLate` applies a write whose caller has left |
| `SyncServerProofs` | its theorems | |
| `Billing` | one account's row and Stripe | `truth` is Stripe's side, `events` deliveries, `handlers` the webhooks that retrieved and have not written |
| `Entitlement` | extends `Billing` | attestation `Mint` in the sync server, `Bind` and `Stamp` in the connector |
| `EntitlementProofs` | theorems of `Billing` and `Entitlement` | |
| `ConnectorDocs` | one shared document: an app, the connector, the devices | `ReadSeq`, `ReadRows`, `WriteRows` are the three storage calls of an app's write; `Down*`, `ApplyDown`, `TakeTheirs`, `KeepMine`, `DiscardPending`, `AckEntry` a down-sync and the resolution of a conflict; `AutoPush`/`ManualPush`, `PushSnapshot`, `PutAccepted` a push; `vault[d].head` is the document's live entry on a device |
| `ConnectorDocsProofs` | its theorems: rows, counter and stamp; then texts | |
| `ConnectorShare` | one scope of memories, shared and unshared | `Remember*`, `Forget*`, `List*` are the tools; `ShareMark`/`ShareRollback`, `UnshareServer`/`UnshareLocal` the owner; `Down*`, `ApplyDown`, `AckEntries`, `AckForgets` a down-sync; `mem` names the memory each id stands for |
| `ConnectorShareProofs` | its theorems | |
| `KeepWatch` | controller, administrator commands, helper | `call` is a request between two awaits, `root` what is left of its administrator command, `tick` a timer run, `run` the helper's run; `Root*` are the command's lines, `Helper*` the helper's system calls |
| `KeepWatchProofs` | its theorems | |

`MC*` modules give the constants their values. Operators beside an action with
a similar name (`CreateNotExclusive` beside `Create`, `LatestLessOne` beside
`Latest`) are plausible bugs; each property is shown to fail when one of them
takes the action's place.

`SyncServer` is composed with `VersionedRegister` by refinement: `VaultSync`
and `PhoneSync` use the server as that register (`Serve`, `Answer`), so
`ImplementsRegister` is what justifies their one-step PUT. `FileLock` is what
justifies the single-action locked sections of the same two modules, up to the
steal it reports (section 6). `Entitlement` is `Billing` composed with the
connector's gate on one clock. `ConnectorDocs` and `ConnectorShare` take the
sync server as what `VaultSync` shows it to be, one versioned copy of the vault:
the two differ in what a row may be (a document with a head and conflicts; a
memory that can be forgotten), and one down-sync handles both under one hold of
the vault lock.

## 3 Runs and bounds

| run | question | bounds |
|---|---|---|
| `lock_recovery` | is exclusion lost only through a steal, does one that was stolen from spare its successor, is a dead owner cleared? | 3 contenders (two stealers and a bystander), crashes and overruns |
| `sync_machines` | do two machines lose an update, bury a write, refuse an honest copy? Also `SyncInv`, the invariant of the proofs | one process each, an edit and a mark, 2 versions, generation 2, crashes |
| `sync_servers` | is the record right when the server is changed back and forth, and does a reviewed pull drop only what its report named? | one machine, 2 servers, 1 edit, 2 versions, one reviewer |
| `server_storages` | is each storage one register; is the current version readable, and a slow download not cut off? | 2 devices, a one-part and a multi-part blob, 2 uploads; in memory 2 versions and one lost request, on PostgreSQL 3 versions and none |
| `auto_engine` | is every write pushed, is the status honest? | 2 writes, another device's push, 2 faults, one queued operation, generation 2 |
| `phone_wakes` | does an edit stay flagged, is what a push displaces stashed? | 2 push sequences, 2 edits, one foreign push, one trouble, 3 events |
| `phone_torn_session` | finding: a pull whose bookkeeping fails | 1 push sequence, the same budgets |
| `phone_three_saves` | finding: what a conflict push displaces when three are in flight | 3 push sequences, 3 edits, 2 foreign pushes, no wake and no trouble |
| `entitlement` | does the row settle on the truth, is access paid, is nobody billed twice, is the grace bounded? | 2 subscriptions, 3 webhook events, 2 concurrent handlers, 2 connector accounts, 3 ticks |
| `connector_docs` | is an app's saved change kept, a local edit never overwritten unseen, a stamp true? | 2 devices, 1 app, 4 versions of the document, 2 of the vault, pushes start below counter 2, 2 calls at once |
| `connector_share` | does an unshare stay in force, is a memory kept, delivered once? | 2 devices, 1 app, 3 ids, 2 vault versions, 3 shares or unshares, 1 forget, 2 calls at once |
| `keep_watch` | is the mode marked, through failed commands too; does an unwanted mode end? | 2 requests, 1 tick |

Small invariants of one module that a run checks together have one name:
`ServerInv` (types, one open upload, current version readable), `AutoInv` (types,
`PendingIsArmed`), `PhoneInv` (types, `UnpushedIsFlagged`,
`BaselineNamesOneVersion`), `EntitlementInv` (types, `GraceIsBounded`), `DocsInv`
(types, `NeverSeveral`), `KeepWatchInv` (types, `AwakeIsMarked`), and `SyncInv`,
from which the proofs derive `NoLostUpdate` and the rest.

Why these are enough for the interesting cases: a lost update needs two writers
and one version between them; a torn record needs a save, a PUT and one crash; a
conflict needs one foreign version; a replay needs one older stamp, and
generation 2 gives it. Two handlers are what a read-then-write race needs. In
the connector, a second device, one more version of the vault and an app that
wrote before and writes again are what a stale push, a lost ack or a stale base
needs: four document ids are two edits of devices and two of the app, and three
clock values are share, unshare, share. Two requests are what Keep Watch's
`busy` race needs. Each property is violated under these same bounds when its bug
is put in, which is the evidence that the case does occur. Symmetry is used where the permuted
values are interchangeable and the run has no liveness property
(`server_storages`, the three phone runs, `entitlement`, the two connector runs).

`CHECK_DEADLOCK FALSE` stands in three configurations. In `AutoSync_engine` the
engine rests once the budgets of writes and faults are spent and everything is
synced. In `Entitlement_billing` an account rests at the end of the clock with
every event acknowledged. In `PhoneSync_three_saves` the saves and pushes run out.

No run has two processes over one machine's files. What holds of them, and of
any number, is proved (section 5); what fails with two is listed in section 6.

The largest runs take a few minutes with two workers: 6 million states for
`phone_wakes`, 5 million for `connector_share`, 3.7 million for `entitlement`, 3.5
million for `connector_docs`, 1.4 million with liveness for `keep_watch`. Three
events are what a failed payment and its recovery need, or a second subscription
beside a first payment made late; `entitlement` also passes with 4 events and 2
ticks (12 million states).

## 4 Fairness

* `FairLockSpec`: weak fairness of each contender's acquiring loop (`LoopStep`).
  The loop is a `for (;;)` with a sleep; nothing but its process's death stops
  it. The critical section and the release are given no fairness.
* `FairAutoSpec`: weak fairness of the start of a queued operation, of the steps
  of the one that runs, and of the debounce and retry timers: resolved promises
  and armed timers of a living process. Faults are bounded, so the network works
  eventually. Weak fairness of `Unlock` is an assumption about the user: who
  locks the vault opens it again. Without it a locked engine may wait for ever,
  which is what it should do. Excusing every locked state in the property
  instead would hide an engine that forgets its timer across the lock. Wakes,
  payments, manual operations and other devices are given no fairness.
* `KeepWatchSpec`: weak fairness of the helper's steps (launchd starts it every
  15 seconds, and each system call it makes is bounded by an alarm), strong
  fairness of its `pmset` answering in time (a run may time out and be started
  again, so the step is enabled again and again and not continuously), and weak
  fairness of the heartbeat growing old. Nothing is assumed of the controller,
  which may be dead: that is what the helper is for.

## 5 Proofs

TLC finds out whether a formula holds on a small instance; TLAPS proves it for
every value of the constants: 15,313 obligations in eight modules.
`PROJECT.json` lists the theorems a reader should know of.

**`ProcessProofs`, the lock.** For any set of contenders and any crashes and
overruns:

* `LockTypeCorrect`: `LockTypeOK`.
* `LockExcludesUntilStolen`: at most one contender is between its open and its
  unlink until a rename has taken a living owner's file. The inductive invariant
  `LockInv` says that, until then, whoever is inside is the file's `owner`.
  Exclusion alone is not inductive: it does not say that the file exists while
  someone is inside, so `Create` could admit a second.
* `LockReleaseSafe`: before and after any steals, a release unlinks the
  releaser's own file, unless that was taken after the releaser had read its
  token. `LockInv` has for it that a contender at its unlink is the owner, or has
  lost its file since.
* `LockExcludes`: with neither crash nor overrun nothing is ever stolen
  (`CalmInv`: nothing is stolen, no owner is dead, no file is or was seen old),
  so `MutualExclusion` holds outright.

**`ProcessProofs`, the engine.** For any schedule of writes, wakes, timers,
manual operations, faults, restarts and pushes of other devices, and any bounds
(`AutoSyncInvariant`): `PendingWritesAreArmed` (`AutoInv`),
`SyncedIsNeverClaimedFalsely` (`SyncedMeansSynced`), `AutomaticPullsKeepWrites`
(`AutoPullKeepsWrites`). `AutoSyncInv` adds to the types what each wait knows
(`TransferInv`: the server is never behind the record or an answer still to be
used, an upload is stamped later than the record, an automatic pull was decided
over a vault that matched the record) and that `EngineInv` holds whenever
nothing runs: "synced" means the vault matches, a pending write is armed, queued
or excused. Each ending of an operation (`Settle`, `Clean`, `Fail`, `Pause`, the
re-arming after a manual one) is one line of the lemma `Endings`.

**`VaultSyncProofs`.** Each theorem has the weakest hypothesis it holds under.

| theorem | property | machines | processes of one machine | servers |
|---|---|---|---|---|
| `SyncTypeCorrect` | `SyncTypeOK` | any | any | any |
| `AutoPullsBuryNothing` | `AutoPullBuriesNothing` | any | any | any |
| `BaselinesNameOneVersion` | `BaselineNamesOneVersion` | any | any | one |
| `ProcessesLoseNoUpdate` | no edit but a mark is lost; `NoLostUpdate` when there are no marks | any | any | one |
| `SyncLosesNoUpdate` | `NoLostUpdate` with marks, `GenerationsIncrease` | any | one syncs | one |
| `SyncInvCorrect`, `HonestCopiesAreAccepted` | `SyncInv`, `HonestCopyNeverRefused` | any | one syncs | one |
| `RecordedStampsAreTrue` | `RecordedGenerationIsOfRecordedBytes` | any | one syncs | any |
| `ConfirmsDropOnlyWhatWasShown` | the property of that name | any | any, one reviews | any |

The hypotheses `OneServer`, `OneProcessEach` and `OneReviewerEach` are not there
for the provers' sake: TLC refutes `NoLostUpdate` with two servers,
`RecordedGenerationIsOfRecordedBytes` with two processes and
`ConfirmDropsOnlyWhatWasShown` with two reviewers (section 6, Deviations).

`NoLostUpdate` is not inductive, since it says nothing of what is on its way to
the server. `SyncInv` adds, for everything that may later become a version, that
it covers the version it names as its base: the requests in flight
(`RequestsCover`), what the record and the local vault say (`RecordCovers`), and
what each operation holds between two steps (`OperationCovers`), above
`HistoryCovers`. "Covers" means holding the edits and a generation at least as
new. With it `Serve` preserves `HistoryCovers` because it accepts only at the
current base.

With several processes a record is no longer the work of the process that reads
it, and stamps may come from different saves, so `SyncInv` fails. What stays
true does not speak of stamps. `ProcessInv` (any instance): the sync lock has
one holder, a live request belongs to the process that waits for it
(`AnswersAwaited`), and every hash in a record or a decision names bytes some
server held (`NamesHeld`); an automatic pull replaces only bytes so named.
`KeepInv` (one server): every step keeps a vault's edits, but for marks an
automatic pull leaves out and what a user gives up, and therefore a vault goes
on holding the edits of whatever version its record, a request or an operation
names, whoever put it there (`RecordsKeep`, `RequestsKeep`, `OperationsKeep`,
`HistoryKeeps`). A pull's record names the bytes in place because the vault lock
spans the rename and the record. `StampInv` and `ReviewInv` follow one process
of a machine from its comparison to its record, and one reviewer from the dry
pass to the confirmation.

**`SyncServerProofs`.** For any devices, blobs, part counts and uploads, over
either storage:

* `ServerSound`: `ServerInv`; one handler to a push and to an upload (`Unique`);
  an upload holds only what its own request sent (`UploadsOwned`).
* `ServerImplementsRegister`: `ImplementsRegister`, the refinement of
  `VersionedRegister` (safety; it has no liveness). This is what allows the
  other modules to take the sync server as one register.
* `SlowPullsFinish`: `SlowPullFinishes`, in memory.

A step of a handler does one of three things to its request: it goes on, it
installs a version or it ends with an answer (`Goes`, `Installs`, `Leaves`). The
invariant for both storages, `BaseInv`, says that the row is the last entry of
the log (`RowInv`), every push has one request and every upload one owner
(`Unique`, `Waits`, `RequestInv`), an upload holds slices of its owner's blob
and of nothing else (`Owned`), even after PostgreSQL let a prune delete it, and
a download holds slices of the version it was promised (`DownloadInv`). In
memory `MemoryInv` adds that one upload is open, that the current one is there,
and that what a claim is about to install is complete. The refinement has one
lemma per action of the register; a write whose client left is its
`InstallLate`. For slow downloads `SinceInv` says that a retired upload names
the version that replaced it, so the `KeepMax` uploads a prune prefers to a
promised one are that many later versions (an injection into an interval).

**`PhoneSyncProofs`.** For any push sequences and bounds, failed writes, deaths,
locks and pulls by hand at any step (`PhoneSyncInvariant`): `PhoneStaysSound`
(`PhoneInv`) and `WakesBuryNothing` (`WakeBuriesNothing`). The flag comes off
only over bytes the server has held. For that everything recorded, or about to
be, must be a version under its own number (`HeldInv`); a live request must be
the one its sequence waits for, with its bytes and base (`NetInv`); the rows of
the open session, which a restamp saves again, must be the file's or have landed
themselves (`RowsInv`); a wake must be about to replace landed bytes (`CurInv`);
and nothing unpushed may be unflagged (`FlagInv`). The last three hold until a
pull by hand loses its reopen (`FlagsHold`).

`RepushesDisplaceStashed` (`RepushDisplacesStashed`) has the hypothesis that at
most two sequences are in flight. `StashInv` says that while one may still
replace the newest version, that version is in `.conflict.bak`, or in
`.conflict.bak.bak` with no stale copy left to stash over it. With three
sequences it is false: `phone_three_saves` (section 6).

**`EntitlementProofs`.** For any subscriptions, events, handlers, accounts and
lengths of tokens, windows and grace: `AccessWasPaid`, `NotBilledTwice`,
`QuietRowIsTrue`, `EntitlementInv`, `OneAccountPerWindow`. The row is an old
statement of Stripe's side; what makes it usable is that Stripe never leaves an
ended status (nor goes back from billing to a first payment) and that each
change is an event which stays until a handler that retrieved afterwards has
written. So an old statement that a subscription has ended, or has begun to
bill, is still true (`PaidInv`, `HonestInv`). `SettleInv` has two parts.
`Settling`, without overlapping handlers: the row or an event due says the
truth. `Naming`, when no checkout was begun while another was under way either:
the row names what is open, or its completion is due; no handler is about to
displace it; and what the row has once said to bill (`seen`) it goes on naming
until that has ended. From these `OneLive`, that `~raced` leaves one subscription that is
offered, unpaid or billing; with overlapping handlers too, since `raced` then
counts what they unsaid. Every step of `EntitlementSpec` is a step of `Billing` or leaves
it alone, so the invariants carry over. `OneAccountPerWindow` rests on
`BindingsOutlive`: a binding outlives the attestation it was made for by a
window, so no valid attestation finds its nonce bound and expired.

**`ConnectorDocsProofs`.** For any devices, apps and bounds: `DocsInv`,
`StampIsTruthful`, `UpdateBuildsOnServedHead`, `CloudWritesSurvive`,
`ReplaceKeepsLocalEdits`. The scope's counter bounds every row and no two pushed
rows share a value, so one pushed row is the newest (`Counted`); a push holds a
version its device has read, and reads its stamp before its entries. For the
texts: an id names one text for good wherever it is met, in a row, a vault, the
cloud copy or a request (`Told`); vaults keep what they held (`VaultsKeep`); and
whatever a push or an ack takes out of the connector is in a vault already.

**`KeepWatchProofs`.** For any requests and ticks: `KeepWatchInv`. That the mode is marked is not inductive. A removal reaches its
`rm` only with the mode off, or after its `pmset` failed (`UnmarkingIsAsleep`,
`HelperUnmarksAsleep`), and a turn-on about to wake the machine still has its
marker (`WakingIsMarked`). Both exceptions end when the mode is turned off (with
no turn-on or `rm` still under way) or marked anew, and the proof shows that the
three facts hold again from there.

**`ConnectorShareProofs`.** For any devices, apps and bounds: `ShareTypeCorrect`
(`ShareTypeOK`), `UnsharedScopeStaysEmpty` (`TombstonedScopeIsEmpty`),
`WrittenMemoriesAreKept` (`WrittenMemoryKept`), `MemoriesAreDeliveredOnce`
(`DeliveredOnce`), `RevokedScopeStaysHidden` (`RevokedStaysHidden`). The types
include that every id in use was given out, so no id is given twice. `KeptInv`:
a memory an app was told is saved waits at the connector or is in a vault
(`OwedIsKept`), because a device acks only what its vault was saved with
(`AcksAreSaved`), a vault that names the sync server's version holds its entries
(`VersionsKnown`), and what a tombstone or a forget removes is not owed
(`WaitingIsLate`, `ForgetsNotOwed`). `RowsInv`: a row fetched before an unshare
is no longer there to be acked (`AcksAreStale`). `MarksInv`: a mark made before
an unshare is earlier than its tombstone, so no late push lifts it, and a list
begun since has read the tombstone.

**Only model-checked.** All liveness (`DeadOwnerLockCleared`, `WritesAreSynced`,
`UnwantedWakeEnds`): fairness and `ENABLED` are out of TLAPS's reach. Of the
safety properties, `PushKeepsWhatItReplaces` of the phone, whose invariant has
to follow every version's edits through file, session and requests.
`SyncServer`'s `SlowPullFinishes` is proved for the memory storage, which is all
it speaks of.

## 6 Findings and deviations

### Findings

Two runs expect a violation, of a sentence in the repository's comments: "Either
way no data is lost: one version is live, the other is in a recoverable .bak"
(`apps/mobile/src/lib/sync-flow.ts:30`).

* `phone_torn_session`: a pull installed with its bookkeeping half written leaves
  the session on the old rows; the next edit removes the other device's write
  from the server unstashed (`apps/mobile/src/lib/sync.ts:501`).
* `phone_three_saves`: `pushAfterSave` starts a sequence for every save without
  waiting for the one before. With three past their own 409 and fetch, the copy
  the newest one stashed is pushed out of `.conflict.bak` and
  `.conflict.bak.bak` by the two staler stashes, and its repush then replaces
  that version (`apps/mobile/src/lib/sync.ts:712`).

### Deviations

Further behaviours met while modelling, many of them as TLC counterexamples to a
stronger form of a property above; none has a run of its own.

* **Lock.** Two waiters judge the same dead lock; the second rename takes the
  first one's live lock, though the rename is there so that "exactly one
  contender wins" (`lock.ts:81` against `:76`). A release reads its token and
  unlinks in two calls: a holder whose file is stolen in between removes its
  successor's ("Only remove the lock if it is still OURS", `lock.ts:98`).
* **Two reviewers.** The held download has no owner, so one process's dry pass
  moves the local hash another user's confirmation relies on: a write made
  since the review is not refused (`client.ts:908` against `:867`).
* **Two servers.** `setSyncServer` keeps the whole baseline (version, hash and
  generation) when the account id is the same, and the account id derives from
  the device secret, so it always is. A base earned at one server is used
  against the other and `NoLostUpdate` fails with two servers; the comment at
  `config.ts:24` says a hash is null "on a server change".
* **Two processes.** `repairRecord` reads the generation of the file as it is,
  not as it was when its hash was compared, so the record can pair a hash with
  another save's generation (`config.ts:28`).
* **Engine.** A wake that finds the machine in sync repairs the record and
  settles without clearing `pushPending`, unlike a push; the status stays
  "pending" with nothing to push, and the retry is cancelled (`auto.ts:166`).
  After a server change `resume` leaves an unsynced vault "idle" until the next
  wake. A manual operation queued before a pause ends "synced" with the pause in
  force. A first push whose answer is lost restamps from a null lastGeneration,
  so the machine's own earlier copy reads as diverged. A wake that finds the
  server wiped settles without hashing the file again.
* **Phone.** After a pull by hand whose bookkeeping fails, a conflict's restamp
  saves rows the user gave up under no flag; `UnpushedIsFlagged` and
  `WakeBuriesNothing` except that (`FlagsHold`). A lost
  answer to a conflict re-push makes the stash hold the phone's own upload; a
  retry after a lost answer can roll back another device's write though the edit
  had already landed; the recorded generation may differ from the sealed one;
  each conflict retry raises the generation again.
* **PostgreSQL.** A prune deletes an upload that a commit made current after the
  prune selected it (`neon-storage.ts:312`; `storage.ts:96` says "Drops expired,
  replaced and superseded uploads"). Two uploads of one account can be open at
  once (`storage.ts`, "any other open upload becomes replaced"). In the
  connector, an unshare that lands between a push's tombstone re-check and its
  commit leaves the rows beside the newer tombstone, where lists hide them.
* **Billing.** With two overlapping webhook handlers the later write may carry
  the earlier retrieval: a canceled account keeps syncing to its period's end,
  or a paying one is shown past due ("Write what Stripe says now"). A redelivered
  completion of an incomplete first subscription replaces a live second one.
  `QuietRowIsTrue` is therefore stated without overlapping handlers
  (`overlapped`), and that the row names the one that bills also without
  checkouts begun over one another (`raced`).

  A second checkout bills the customer twice in four windows, against
  `billing.test.ts:391` ("so nobody pays twice"); `NotBilledTwice` excepts them
  through `raced`, which a checkout sets when it begins in one. Another checkout
  is still open. The first payment of another subscription is not made yet: the
  row says `incomplete` and lets the checkout start, and the first payment can
  still be made within its day, after which both bill (`billing.ts:67`: "Stripe
  expires it within a day and never bills it"). A subscription bills already and
  the row has never said so, because its events are late (`seen`). Overlapping
  handlers have put `incomplete`, or another subscription, back into a row that
  did say so. A row that has said so and lags behind a failed payment, a recovery
  or a cancellation is no such window.
* **Connector.** `mcp.ts` says of a forget that "the memory ends up forgotten,
  never orphaned" and "it never comes back": when the ack of a delivery is lost
  and an app forgets the row, the next down-sync forgets by an id the vault does
  not have, the delivered copy stays live and is pushed again. Two devices that
  take down the same row each keep a copy under an id of their own. A share
  whose push was accepted and whose answer was lost rolls its mark back: the
  vault says private while the connector serves the rows (`apps/web/src/api.ts`
  from 1101: "a scope the server never accepted"). A list reads the forgets
  before the entries, so an ack that renames a row in between shows a forgotten
  memory once. A device whose clock runs ahead of the server's can outrank a
  later unshare with an older push.
* **Keep Watch** (`docs/design/adr-0080-keep-watch.md`). The helper compares the
  marker's inode and mtime and removes it in a later call, so a turn-on between
  the two loses its marker (line 63: "a turn-on that rewrote the marker meanwhile
  keeps its marker"). `busy` is tested before several awaits and set after them,
  so a turn-on and a removal can run their commands together and leave the mode
  on with no marker or no helper. `AwakeIsMarked` and `UnwantedWakeEnds` except
  these two (`overtaken`), the first only until the mode is next turned off or
  marked, the second while the marker or the helper is missing. A password typed
  after more than 90 seconds meets a stale heartbeat (line 72: "cannot make the
  next helper run see it as stale"). The command that removes the helper has no `set -e` (line 70: "Each root
  command starts with `set -e`, so a failed step stops the rest"): when its
  `pmset` fails it goes on to remove the marker and the helper and ends well, and
  the controller says "off" with the mode on and nothing left to turn it off
  (`keep-watch.ts:143`); `AwakeIsMarked` excepts that (`unslept`), again until the
  mode is next turned off or marked. Forcing off removes the marker (line 13: "Only
  the helper removes it").

## 7 Abstractions

* **Bytes.** A sealed vault is the set of edits it contains, its generation and
  the machine that sealed it (on the phone, the save that did). A SHA-256 is the
  blob it names. Saves use a fresh nonce, so two machines' blobs are never equal.
* **Installation.** Writing `.bak` and renaming are one step: a crash between
  them leaves the vault as before with a spare copy.
* **Locked sections** are one action where the code holds the lock throughout.
* **One account.** Every statement of the servers is keyed by the account, so
  accounts do not interact, except in `Entitlement`, which has two.
* **PostgreSQL** runs at READ COMMITTED: each statement reads a snapshot, and an
  UPDATE or DELETE that waits for a row re-checks only that row.
* **Time.** In `FileLock` a file is old or is not; in `AutoSync` timers are set
  or fire, and their lengths, the debounce's maximum wait and the backoff's
  growth are left out; in `Billing` a tick is an hour, and no handler or gate
  request lasts across one.
* **Stripe** signs correctly, and customers and prices are one each; the
  connector's allowlist is empty. A first payment may be made while its
  subscription's period runs; a payment that fails later may always be made good.
  A live binding of the account's own is extended, as `NeonStorage` does;
  `InMemoryStorage` (`storage.ts:462`) leaves it as it is.
* **Sync server versions.** `syncState` of a server too old to report a hash
  (`client.ts:897`, `:1006`) is left out.
* **Connector documents.** A text is the set of edits it contains; merging and
  rolling are left out. Left out too: the reset flag, rows of older servers,
  tombstones (`ConnectorShare` has them), entries deleted on a device, several
  local heads, the phone's additive mode, milestone rows, and the skip of an
  unchanged push and the sticky pause, so a push may happen more often than in
  the code. The second read of the pending rows and the planning are one step.
* **Connector memories.** The purge and the forgets are read together; the acks
  of one down-sync are one step per kind; the assertion that a scope may be
  shared and its mark are one step. Entries forgotten or added on a device, caps
  on tombstones, more than one scope in a push and two pending rows of equal
  text are left out. A push is accepted in one step, as in memory; PostgreSQL
  takes several statements (section 6). Clocks agree. `enforce` is the deployment's flag, both ways.
* **Keep Watch.** Readings (charger, battery, heat, timer, ceiling) are choices;
  what is not a choice is a missing or stale heartbeat, which the helper always
  acts on. Whether the user types the password shows in whether the command's
  first step happens. A failing step ends a command with `set -e`; of the one
  without, the failing `pmset` is modelled, its failing `rm` and `bootout` are
  not, nor is `launchctl` failing for a loaded helper. The helper's check and
  decision are one step, and so are a tick's two looks at helper and marker; its
  `pmset` is another. A marker's inode and mtime are told apart only where the
  helper does: `run.same` says that the marker is still the file its run began with.
* **Ghosts.** `stolen`, `lost`, `discarded`, `excused`, `overlapped`, `seen`,
  `raced`, `from`, `saved`, `marked`, `owed`, `forgotten`, `overtaken` and
  `unslept` record history for the properties. `forgotten` is also a bound; no
  other guard of a modelled step reads one.
* **Bounds.** Each `Max...` constant caps a counter in the guards and is named
  at its declaration. `Wiped` exempts an emptied server from the engine's
  properties, because only a person can decide what to do then.

## 8 Not modelled

`PROJECT.json` lists every part with its reason. In short: front ends (web, CLI,
desktop, mobile screens, MCP tool formatting) turn one request into one of the
modelled operations; importers, extraction, redaction and project documents are
text in, text out; cryptography and platform adapters are sequential; rate
limiters hold no durable state; the site, integrations, scripts and end-to-end
tests are not the program. By length most of the source is one generated table,
`packages/redact/src/data.gen.ts` (193,104 lines of names and patterns), which
has no behaviour to model. `importVault` is a straight-line download onto a
machine without a vault.

## 9 Plan

In order of importance; the first eight are done.

1. `FileLock` and proofs. 2. `VaultSync` and proofs. 3. `SyncServer` against
`VersionedRegister`, and proofs. 4. `AutoSync` and proofs. 5. `PhoneSync` and
proofs. 6. `Billing` and `Entitlement`, and proofs. 7. `ConnectorDocs` and
`ConnectorShare`, and proofs. 8. `KeepWatch` and proofs.

Left, in this order:

* `VaultLedger`, with consolidation and curation: proposals made on one snapshot
  of the vault and applied on another.
* Notes store (insert, replay by client id, prune, readers' cursors), export lock
  (against `FileLock`'s properties), assistant budget and approvals.
* The connector's OAuth front: single-use codes and rotating refresh tokens.
* Proofs: `PhoneSync`'s `PushKeepsWhatItReplaces`. Its invariant: whichever number
  the baseline, a wake or a sequence knows, if it is the server's newest version
  the file (or the bytes prepared) holds that version's edits; for which an
  install older than the record must be refused as a replay, so stamps must be
  shown to grow with the versions. Then, that what `FileLock` shows is what the
  locked sections of `VaultSync` assume.
