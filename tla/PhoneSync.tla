----------------------------- MODULE PhoneSync ------------------------------
(***************************************************************************)
(* Sync on the phone (apps/mobile/src/lib: sync-flow.ts, sync.ts,          *)
(* vault-session.tsx, vault-gate.ts, secure-store.ts).                     *)
(*                                                                         *)
(* Every section that touches the vault file runs alone, in order, under   *)
(* the vault gate: it is one action here.  Network calls and the reads a   *)
(* wake decides on run outside the gate, between any two sections.  Each   *)
(* saved edit starts a push sequence of its own and several may be in      *)
(* flight; one wake runs at a time.  On a 409 a sequence fetches the       *)
(* server's copy, stashes it, and pushes the phone's copy over it: the     *)
(* last writer wins.  The user may also pull by hand.                      *)
(*                                                                         *)
(* The session keeps an open Vault: a save writes the session's rows and   *)
(* not the file's, so the two must agree.  The other devices are one       *)
(* honest writer that always pulls before it pushes.  The phone starts     *)
(* linked and holding version 1.                                           *)
(***************************************************************************)
EXTENDS Integers, Sequences

CONSTANTS
    Pushes,      \* the push sequences that may be in flight together
    MaxEdits,    \* bound: edits on the phone
    MaxOthers,   \* bound: pushes by other devices
    MaxTroubles, \* bound: failures, deaths of the app and pulls by hand together
    MaxEvents,   \* bound: edits, other devices' pushes and troubles together
    CanTear,     \* may a bookkeeping write fail after the file moved?
    CanPull      \* may the user pull by hand?

ASSUME PhoneAssumption ==
    /\ Pushes # {}
    /\ {MaxEdits, MaxOthers, MaxTroubles, MaxEvents} \subseteq Nat
    /\ {CanTear, CanPull} \subseteq BOOLEAN

\* Edits of the phone are positive numbers, those of other devices negative.
\* Every save uses a fresh nonce, so id tells apart equal rows sealed twice;
\* a sha256 is modelled by the bytes it names.
PhoneEdits == 1..MaxEdits
OtherEdits == {-k : k \in 1..MaxOthers}
Blob == [edits: SUBSET (PhoneEdits \cup OtherEdits), gen: Nat, id: Nat]
NoBlob == [edits |-> {}, gen |-> 0, id |-> -1]
MaybeBlob == Blob \cup {NoBlob}
FirstVault == [edits |-> {}, gen |-> 1, id |-> 0]

\* SyncBaseline: gen is null after a pull that had no key to read it with, sha
\* is null on a phone that synced before the hash existed.
NoGen == -1
Baseline == [ver: Nat, sha: MaybeBlob, gen: Nat \cup {NoGen}, pending: MaybeBlob]

Request == [from: Pushes, base: Nat, blob: Blob, again: BOOLEAN, live: BOOLEAN]

PushLabels == {"idle", "saved", "flagged", "based", "prepared", "sent", "record",
               "conflict", "fetched", "stashed", "stamp", "restamped"}
\* base: the X-Base-Version to send; blob: the bytes prepared; gen: the
\* generation to record once they land; remote: the server's copy fetched.
Sequence == [pc: PushLabels, why: {"save", "wake", "establish"}, base: Nat,
             ver: Nat, blob: MaybeBlob, gen: Nat, remote: MaybeBlob]
NoPush == [pc |-> "idle", why |-> "save", base |-> 0, ver |-> 0,
           blob |-> NoBlob, gen |-> 0, remote |-> NoBlob]

WakeLabels == {"idle", "sha", "file", "dirty", "status", "clear", "push",
               "establish", "pushing", "repair", "repairing", "download", "install"}
Unknown == -1
\* ver, sha and cur are what the wake read of the baseline and the file, rem
\* the version the server reported, got the download and its version.
Wake == [pc: WakeLabels, stage: {"first", "asked", "moved", "repair"}, ver: Nat,
         sha: MaybeBlob, cur: MaybeBlob, rem: Nat \cup {Unknown},
         got: MaybeBlob, gotVer: Nat]
NoWake == [pc |-> "idle", stage |-> "first", ver |-> 0, sha |-> NoBlob,
           cur |-> NoBlob, rem |-> Unknown, got |-> NoBlob, gotVer |-> 0]

\* A bookkeeping write failed, after a push or a pull of the wake or after a
\* pull by hand; a pull was begun by hand.
Excuses == {"torn", "torn by hand", "pulled"}
Budget == [edits: 0..MaxEdits, others: 0..MaxOthers, troubles: 0..MaxTroubles]

VARIABLES
    hist,      \* hist[v]: the blob installed at the server as version v
    net,       \* PUT requests the server has not seen yet
    file,      \* the vault file
    session,   \* the rows and generation of the open Vault
    dirty,     \* nk.sync_local_dirty
    baseline,  \* nk.sync_baseline
    stash,     \* .conflict.bak
    stashBak,  \* .conflict.bak.bak, left by the stash's atomic write
    push,      \* push[s]: the push sequence s
    wake,      \* the wake in flight
    manual,    \* the download of a pull by hand, with its version
    saves,     \* ids used: Vault saves so far
    used,      \* how much of each bound is used
    excused    \* which excuses a property grants have happened

phoneVars == <<hist, net, file, session, dirty, baseline, stash, stashBak,
               push, wake, manual, saves, used, excused>>
server == <<hist, net>>
vaultFiles == <<file, session, saves>>
budget == <<used, excused>>
record == <<dirty, baseline>>
stashes == <<stash, stashBak>>

Session == [edits: SUBSET (PhoneEdits \cup OtherEdits), gen: Nat]
OpenedFrom(b) == [edits |-> b.edits, gen |-> b.gen]
NoDownload == [ver |-> 0, blob |-> NoBlob]

PhoneInit ==
    /\ hist = <<FirstVault>>
    /\ net = {}
    /\ file = FirstVault
    /\ session = OpenedFrom(FirstVault)
    /\ dirty = FALSE
    /\ baseline \in {[ver |-> 1, sha |-> FirstVault, gen |-> g, pending |-> NoBlob] :
                        g \in {1, NoGen}}
                    \cup {[ver |-> 1, sha |-> NoBlob, gen |-> NoGen, pending |-> NoBlob]}
    /\ stash = NoBlob
    /\ stashBak = NoBlob
    /\ push = [s \in Pushes |-> NoPush]
    /\ wake = NoWake
    /\ manual = NoDownload
    /\ saves = 0
    /\ used = [edits |-> 0, others |-> 0, troubles |-> 0]
    /\ excused = {}

-----------------------------------------------------------------------------
(* Helpers *)

RemoteVersion == Len(hist)
RemoteBlob == hist[Len(hist)]

At(s, label) == push[s].pc = label
Become(s, p) == push' = [push EXCEPT ![s] = p]

\* trackPush: counted from the start of pushAfterSave to its end.
PushInFlight == \E s \in Pushes : push[s].pc \notin {"idle", "saved"}

\* The sequence ends; a wake that started it ends with it.
Finish(s) ==
    /\ Become(s, NoPush)
    /\ wake' = IF push[s].why = "save" THEN wake ELSE NoWake

Use(what, bound) ==
    /\ used[what] < bound
    /\ used.edits + used.others + used.troubles < MaxEvents
    /\ used' = [used EXCEPT ![what] = @ + 1]
Trouble == Use("troubles", MaxTroubles)

\* Vault.save of rows e at generation g: a fresh nonce each time.
Save(e, g) ==
    /\ file' = [edits |-> e, gen |-> g, id |-> saves + 1]
    /\ saves' = saves + 1

IsReplay(b) == b.gen < baseline.gen

\* The bookkeeping after a landed copy: the flag, then the baseline b, then
\* the time of the sync.  Any of the three writes may fail and ends it.  clears
\* says whether the copy that landed is still the file, excuse names a failure.
Bookkeeping(clears, b, excuse) ==
    LET cleared == dirty /\ ~clears IN
    \/ /\ dirty' = cleared
       /\ baseline' = b
       /\ UNCHANGED budget
    \/ /\ CanTear
       /\ Trouble
       /\ \E written \in 0..2 : /\ dirty' = IF written > 0 THEN cleared ELSE dirty
                                /\ baseline' = IF written > 1 THEN b ELSE baseline
       /\ excused' = excused \cup {excuse}

-----------------------------------------------------------------------------
(* The user's writes, and the push sequence each one starts *)

\* addMemory, editMemory, forgetMemory: one gated section flags the write and
\* saves the session's rows.
Edit(s) ==
    /\ At(s, "idle")
    /\ dirty' = TRUE
    /\ Save(session.edits \cup {used.edits + 1}, session.gen)
    /\ session' = OpenedFrom(file')
    /\ Become(s, [NoPush EXCEPT !.pc = "saved"])
    /\ Use("edits", MaxEdits)
    /\ UNCHANGED <<server, baseline, stashes, wake, manual, excused>>

\* pushAfterSave flags again, outside the gate.
BeginPush(s) ==
    /\ At(s, "saved")
    /\ dirty' = TRUE
    /\ Become(s, [push[s] EXCEPT !.pc = "flagged"])
    /\ UNCHANGED <<server, vaultFiles, baseline, stashes, wake, manual, budget>>

LoadBaseVersion(s) ==
    /\ At(s, "flagged")
    /\ Become(s, [push[s] EXCEPT !.pc = "based", !.base = baseline.ver])
    /\ UNCHANGED <<server, vaultFiles, record, stashes, wake, manual, budget>>

\* nextPushGenerationWithPending: the generation to stamp, or the file's own
\* when an earlier attempt already stamped it.
NextPushGeneration ==
    IF baseline.gen = NoGen
    THEN IF baseline.pending = file THEN file.gen ELSE file.gen + 1
    ELSE IF file.gen <= baseline.gen THEN baseline.gen + 1 ELSE file.gen

\* preparePushMobile: stamp, read and hash in one gated section.
Prepare(s) ==
    LET g == NextPushGeneration IN
    /\ At(s, "based")
    /\ IF g = file.gen THEN UNCHANGED <<file, saves>> ELSE Save(file.edits, g)
    /\ baseline' = IF baseline.gen = NoGen THEN [baseline EXCEPT !.pending = file'] ELSE baseline
    /\ Become(s, [push[s] EXCEPT !.pc = "prepared", !.blob = file', !.gen = g])
    /\ UNCHANGED <<server, session, dirty, stashes, wake, manual, budget>>

Put(s, base, blob, again) ==
    net' = net \cup {[from |-> s, base |-> base, blob |-> blob, again |-> again, live |-> TRUE]}

\* The session adopts the stamp once the gate is released, then the PUT goes
\* out; an establish push adopts only after it landed.
Upload(s) ==
    /\ At(s, "prepared")
    /\ session' = IF push[s].why = "establish" THEN session
                  ELSE [session EXCEPT !.gen = push[s].gen]
    /\ Put(s, push[s].base, push[s].blob, FALSE)
    /\ Become(s, [push[s] EXCEPT !.pc = "sent"])
    /\ UNCHANGED <<hist, file, saves, record, stashes, wake, manual, budget>>

Accepts(r) == RemoteVersion = r.base

\* The server installs or answers 409, and the answer arrives.  A first push
\* that was refused goes on to recover, unless it was an establish push; a
\* second refusal ends the sequence.
Answer(r) ==
    LET s == r.from IN
    /\ r \in net
    /\ r.live
    /\ net' = net \ {r}
    /\ IF Accepts(r)
       THEN /\ hist' = Append(hist, r.blob)
            /\ Become(s, [push[s] EXCEPT !.pc = "record", !.ver = RemoteVersion + 1,
                                             !.base = 0])
            /\ session' = IF r.again THEN session ELSE [session EXCEPT !.gen = push[s].gen]
            /\ UNCHANGED wake
       ELSE /\ UNCHANGED <<hist, session>>
            /\ IF r.again \/ push[s].why = "establish"
               THEN Finish(s)
               ELSE /\ Become(s, [push[s] EXCEPT !.pc = "conflict", !.base = RemoteVersion,
                                                      !.blob = NoBlob])
                    /\ UNCHANGED wake
    /\ UNCHANGED <<file, saves, record, stashes, manual, budget>>

\* A request nobody waits for any more is applied late or never.
LateArrival(r) ==
    /\ r \in net
    /\ ~r.live
    /\ net' = net \ {r}
    /\ hist' \in {hist} \cup (IF Accepts(r) THEN {Append(hist, r.blob)} ELSE {})
    /\ UNCHANGED <<vaultFiles, record, stashes, push, wake, manual, budget>>

Abandoned(requests) == {[r EXCEPT !.live = FALSE] : r \in requests}

\* The deadline passes, the connection breaks, or the key is gone by the time
\* the sequence needs it: it ends with an error and the edit stays flagged.
GiveUp(s) ==
    /\ push[s].pc \notin {"idle", "saved", "record"}
    /\ Trouble
    /\ LET mine == {r \in net : r.from = s /\ r.live} IN
       net' = (net \ mine) \cup Abandoned(mine)
    /\ Finish(s)
    /\ UNCHANGED <<hist, vaultFiles, record, stashes, manual, excused>>

\* Mutant of Record: the flag is cleared whatever the file holds by now.
RecordAlwaysClears(s) ==
    /\ At(s, "record")
    /\ Bookkeeping(TRUE, [ver |-> push[s].ver, sha |-> push[s].blob,
                          gen |-> push[s].gen, pending |-> NoBlob], "torn")
    /\ Finish(s)
    /\ UNCHANGED <<server, vaultFiles, stashes, manual>>

\* saveBaseVersion: the flag goes only if the accepted bytes are still the file.
Record(s) ==
    /\ At(s, "record")
    /\ Bookkeeping(file = push[s].blob, [ver |-> push[s].ver, sha |-> push[s].blob,
                                         gen |-> push[s].gen, pending |-> NoBlob], "torn")
    /\ Finish(s)
    /\ UNCHANGED <<server, vaultFiles, stashes, manual>>

-----------------------------------------------------------------------------
(* Conflict recovery: fetch, verify, stash, restamp, push again *)

FetchRemote(s) ==
    /\ At(s, "conflict")
    /\ Become(s, [push[s] EXCEPT !.pc = "fetched", !.remote = RemoteBlob])
    /\ UNCHANGED <<server, vaultFiles, record, stashes, wake, manual, budget>>

StashRemote(s) ==
    /\ At(s, "fetched")
    /\ stash' = push[s].remote
    /\ stashBak' = stash
    /\ Become(s, [push[s] EXCEPT !.pc = "stashed"])
    /\ UNCHANGED <<server, vaultFiles, record, wake, manual, budget>>

\* localSyncGeneration, gated; then conflictRepushSyncGeneration.
ChooseGeneration(s) ==
    LET local == file.gen  remote == push[s].remote.gen IN
    /\ At(s, "stashed")
    /\ Become(s, [push[s] EXCEPT !.pc = "stamp", !.remote = NoBlob,
                                 !.gen = (IF local > remote THEN local ELSE remote) + 1])
    /\ UNCHANGED <<server, vaultFiles, record, stashes, wake, manual, budget>>

\* applyConflictRepushGeneration saves through the session's vault.
Restamp(s) ==
    /\ At(s, "stamp")
    /\ Save(session.edits, push[s].gen)
    /\ session' = OpenedFrom(file')
    /\ Become(s, [push[s] EXCEPT !.pc = "restamped"])
    /\ UNCHANGED <<server, record, stashes, wake, manual, budget>>

\* Mutant of RepushBase: over whatever the server holds by now.
RepushOverCurrent(s) == RemoteVersion

\* conflictRepushBaseVersion: the version the 409 named.
RepushBase(s) == push[s].base

\* The second PUT reads the file as it is and does not bump it.
Repush(s) ==
    /\ At(s, "restamped")
    /\ Put(s, RepushBase(s), file, TRUE)
    /\ Become(s, [push[s] EXCEPT !.pc = "sent", !.blob = file])
    /\ UNCHANGED <<hist, vaultFiles, record, stashes, wake, manual, budget>>

-----------------------------------------------------------------------------
(* The wake: read, ask the server, decide, act *)

WakeAt(label) == wake.pc = label
unlessWake == <<server, vaultFiles, record, stashes, push, manual, budget>>

\* The version is read once and used to the end; gather reads the hash, the
\* file and the flag one after another, none of them gated.
WakeStart ==
    /\ WakeAt("idle")
    /\ wake' = [NoWake EXCEPT !.pc = "file", !.ver = baseline.ver, !.sha = baseline.sha]
    /\ UNCHANGED unlessWake

ReadSha ==
    /\ WakeAt("sha")
    /\ wake' = [wake EXCEPT !.pc = "file", !.sha = baseline.sha]
    /\ UNCHANGED unlessWake

ReadFile ==
    /\ WakeAt("file")
    /\ wake' = [wake EXCEPT !.pc = "dirty", !.cur = file]
    /\ UNCHANGED unlessWake

\* decideWakeAction, once the status and the settings allow an action at all.
WakeAction ==
    LET changed == wake.sha # wake.cur  known == wake.sha # NoBlob IN
    IF dirty THEN IF changed THEN "push" ELSE "clear"
    ELSE IF ~known
    THEN IF wake.rem = Unknown THEN "status"
         ELSE IF wake.rem = wake.ver THEN "establish" ELSE "idle"
    ELSE IF changed THEN "repair"
    ELSE IF wake.rem = Unknown THEN "status"
    ELSE IF wake.rem > wake.ver THEN "download" ELSE "idle"

\* A wake that refused to install over a moved file only pushes; any other
\* stands back while the page shows a push, a flag that may lag either way.
Decide ==
    /\ WakeAt("dirty")
    /\ \/ IF WakeAction = "idle" \/ (wake.stage = "moved" /\ WakeAction \notin {"push", "establish"})
          THEN wake' = NoWake
          ELSE wake' = [wake EXCEPT !.pc = WakeAction, !.sha = NoBlob,
                                    !.cur = IF WakeAction = "download" THEN @ ELSE NoBlob]
       \/ /\ wake.stage # "moved"
          /\ PushInFlight
          /\ wake' = NoWake
    /\ UNCHANGED unlessWake

AskStatus ==
    /\ WakeAt("status")
    /\ wake' = [wake EXCEPT !.pc = "sha", !.stage = "asked", !.rem = RemoteVersion]
    /\ UNCHANGED unlessWake

\* A wake never starts a push beside another: pushNow and establishBaseline.
WakePushes(s) ==
    /\ wake.pc \in {"push", "establish"}
    /\ ~PushInFlight
    /\ At(s, "idle")
    /\ Become(s, IF WakeAt("push") THEN [NoPush EXCEPT !.pc = "flagged", !.why = "wake"]
                 ELSE [NoPush EXCEPT !.pc = "based", !.why = "establish", !.base = wake.ver])
    /\ wake' = [NoWake EXCEPT !.pc = "pushing"]
    /\ UNCHANGED <<server, vaultFiles, record, stashes, manual, budget>>

WakeStandsBack ==
    /\ wake.pc \in {"push", "establish", "repair"}
    /\ PushInFlight
    /\ wake' = NoWake
    /\ UNCHANGED unlessWake

\* clear-dirty: decided outside the gate, checked again inside.
ClearDirty ==
    /\ WakeAt("clear")
    /\ dirty' = (dirty /\ baseline.sha # file)
    /\ wake' = NoWake
    /\ UNCHANGED <<server, vaultFiles, baseline, stashes, push, manual, budget>>

\* repair: the status first, then a gated look at what is on disk now.
AskForRepair ==
    /\ WakeAt("repair")
    /\ ~PushInFlight
    /\ wake' = [wake EXCEPT !.pc = "repairing", !.rem = RemoteVersion, !.got = RemoteBlob]
    /\ UNCHANGED unlessWake

RepairLeavesEdit ==
    /\ WakeAt("repairing")
    /\ dirty
    /\ wake' = NoWake
    /\ UNCHANGED unlessWake

\* The server holds the file: only the baseline is written.
RepairRecords ==
    /\ WakeAt("repairing")
    /\ ~dirty
    /\ wake.got = file
    /\ baseline' = [ver |-> wake.rem, sha |-> file, gen |-> file.gen, pending |-> NoBlob]
    /\ wake' = NoWake
    /\ UNCHANGED <<server, vaultFiles, dirty, stashes, push, manual, budget>>

RepairFastForwards ==
    /\ WakeAt("repairing")
    /\ ~dirty
    /\ wake.got # file
    /\ wake' = [wake EXCEPT !.pc = "download", !.stage = "repair", !.cur = file,
                              !.got = NoBlob]
    /\ UNCHANGED unlessWake

Download ==
    /\ WakeAt("download")
    /\ wake' = [wake EXCEPT !.pc = "install", !.got = RemoteBlob, !.gotVer = RemoteVersion]
    /\ UNCHANGED unlessWake

\* Mutant of BytesMoved: the check is made once, before the download.
NeverMoved(expected) == FALSE

\* localBytesMoved, inside the gate.
BytesMoved(expected) == file # expected

\* Mutant of Reopened: the open Vault is kept across the install.
KeptOpen(b) == UNCHANGED session

\* afterInstall: the session's vault is opened again from the new file.
Reopened(b) == session' = OpenedFrom(b)

\* installPulledBlob from the write on.  If a bookkeeping write
\* fails, the reopen after it never runs.
PutInPlace(b, version, excuse) ==
    /\ file' = b
    /\ UNCHANGED saves
    /\ Bookkeeping(TRUE, [ver |-> version, sha |-> b, gen |-> b.gen, pending |-> NoBlob],
                   excuse)
    /\ IF used' = used THEN Reopened(b) ELSE UNCHANGED session

Install ==
    /\ WakeAt("install")
    /\ ~IsReplay(wake.got)
    /\ ~BytesMoved(wake.cur)
    /\ PutInPlace(wake.got, wake.gotVer, "torn")
    /\ wake' = NoWake
    /\ UNCHANGED <<server, stashes, push, manual>>

\* The replay check comes first and ends the wake; LocalChangedError makes a
\* pull decide once more from the new bytes and ends a repair.
InstallRefused ==
    /\ WakeAt("install")
    /\ IsReplay(wake.got) \/ BytesMoved(wake.cur)
    /\ wake' = IF IsReplay(wake.got) \/ wake.stage = "repair" THEN NoWake
               ELSE [wake EXCEPT !.pc = "sha", !.stage = "moved", !.got = NoBlob, !.gotVer = 0]
    /\ UNCHANGED unlessWake

\* The request fails, or the app is locked before the wake needs the key.
WakeFails ==
    /\ wake.pc \in {"status", "repair", "download", "install"}
    /\ Trouble
    /\ wake' = NoWake
    /\ UNCHANGED <<server, vaultFiles, record, stashes, push, manual, excused>>

-----------------------------------------------------------------------------
(* Pull to refresh, locking, the other devices, the app's death *)

\* onRefresh: the user has confirmed, if anything was unpushed at that moment.
ManualDownload ==
    /\ manual = NoDownload
    /\ CanPull
    /\ Trouble
    /\ manual' = [ver |-> RemoteVersion, blob |-> RemoteBlob]
    /\ excused' = excused \cup {"pulled"}
    /\ UNCHANGED <<server, vaultFiles, record, stashes, push, wake>>

\* No hash is expected: whatever the file holds by now is replaced.
ManualInstall ==
    /\ manual # NoDownload
    /\ IF IsReplay(manual.blob)
       THEN UNCHANGED <<vaultFiles, record, budget>>
       ELSE PutInPlace(manual.blob, manual.ver, "torn by hand")
    /\ manual' = NoDownload
    /\ UNCHANGED <<server, stashes, push, wake>>

\* Lock and unlock: the vault is opened again from the file.
Relock ==
    /\ session # OpenedFrom(file)
    /\ session' = OpenedFrom(file)
    /\ UNCHANGED <<server, file, saves, record, stashes, push, wake, manual, budget>>

OtherDevicePushes ==
    /\ hist' = Append(hist, [edits |-> RemoteBlob.edits \cup {-(used.others + 1)},
                             gen |-> RemoteBlob.gen + 1, id |-> 0])
    /\ Use("others", MaxOthers)
    /\ UNCHANGED <<net, vaultFiles, record, stashes, push, wake, manual, excused>>

\* The app is killed: what was in memory is gone, what was sent is not.  An
\* edit may die after its flag and before its save.
Killed ==
    /\ Trouble
    /\ dirty' \in {dirty, TRUE}
    /\ session' = OpenedFrom(file)
    /\ net' = Abandoned(net)
    /\ push' = [s \in Pushes |-> NoPush]
    /\ wake' = NoWake
    /\ manual' = NoDownload
    /\ UNCHANGED <<hist, file, saves, baseline, stashes, excused>>

PushStep(s) ==
    \/ BeginPush(s) \/ LoadBaseVersion(s) \/ Prepare(s) \/ Upload(s) \/ Record(s)
    \/ FetchRemote(s) \/ StashRemote(s) \/ ChooseGeneration(s) \/ Restamp(s) \/ Repush(s)

WakeStep ==
    \/ ReadSha \/ ReadFile \/ Decide \/ AskStatus \/ WakeStandsBack \/ ClearDirty
    \/ AskForRepair \/ RepairLeavesEdit \/ RepairRecords \/ RepairFastForwards
    \/ Download \/ Install \/ InstallRefused
    \/ \E s \in Pushes : WakePushes(s)

Network == \E r \in net : Answer(r) \/ LateArrival(r)

Failure == Killed \/ WakeFails \/ \E s \in Pushes : GiveUp(s)

PhoneNext ==
    \/ \E s \in Pushes : Edit(s) \/ PushStep(s)
    \/ WakeStart \/ WakeStep
    \/ ManualDownload \/ ManualInstall \/ Relock
    \/ Network \/ OtherDevicePushes \/ Failure

PhoneSpec == PhoneInit /\ [][PhoneNext]_phoneVars

-----------------------------------------------------------------------------
(* Properties *)

\* Every variable keeps its type.
PhoneTypeOK ==
    /\ hist \in Seq(Blob)
    /\ net \subseteq Request
    /\ file \in Blob
    /\ session \in Session
    /\ dirty \in BOOLEAN
    /\ baseline \in Baseline
    /\ {stash, stashBak} \subseteq MaybeBlob
    /\ push \in [Pushes -> Sequence]
    /\ wake \in Wake
    /\ manual \in [ver: Nat, blob: MaybeBlob]
    /\ saves \in Nat
    /\ used \in Budget
    /\ excused \subseteq Excuses

Landed == UNION {hist[v].edits : v \in 1..Len(hist)}

\* An edit the server has never held is flagged: without the flag the next
\* wake takes the moved bytes for a torn baseline and pulls over them
\* (saveLocalDirty under the gate, before the save; saveBaseVersion).  A pull by
\* hand that loses its reopen is excepted: the session keeps the rows the user
\* gave up, and a conflict's restamp saves them again under no flag.
FlagsHold == "torn by hand" \notin excused
UnpushedIsFlagged == (~dirty /\ FlagsHold) => file.edits \subseteq Landed

\* No install of a wake removes from the file an edit the server has never
\* held, whatever was saved, pushed or lost while it asked and downloaded
\* (expectLocalSha, decideRepair).
WakeBuriesNothing ==
    [][(WakeAt("install") /\ wake' # wake /\ file' # file /\ FlagsHold)
          => file.edits \subseteq Landed]_phoneVars

\* The version a second push replaces is the one its sequence fetched and
\* stashed, and it is in .conflict.bak or the copy beside it at that moment,
\* however long the request took and whatever other sequences stashed since.
RepushDisplacesStashed ==
    [][\A r \in net :
          (r \notin net' /\ r.again /\ hist' # hist)
             => {RemoteBlob} \subseteq {stash, stashBak}]_phoneVars

\* The baseline's version and hash name one server version: a push or pull
\* that failed half way, or answers out of order, never mix two.
BaselineNamesOneVersion ==
    /\ baseline.ver \in 1..Len(hist)
    /\ baseline.sha # NoBlob => baseline.sha = hist[baseline.ver]

\* The phone's small files stay sound: typed, with a flag over every edit the
\* server never held and a baseline of one version.
PhoneInv == PhoneTypeOK /\ UnpushedIsFlagged /\ BaselineNamesOneVersion

\* Every edit of the version an accepted first push replaces is in what
\* replaces it.
FirstPushKeeps(r) == RemoteBlob.edits \subseteq r.blob.edits

\* A push that meets no conflict never removes another device's write from
\* the server, as long as no bookkeeping write failed and nothing was pulled
\* by hand.
PushKeepsWhatItReplaces ==
    [][\A r \in net :
          (r \notin net' /\ ~r.again /\ hist' # hist /\ excused = {})
             => FirstPushKeeps(r)]_phoneVars

\* The same with no exception: "Either way no data is lost: one version is
\* live, the other is in a recoverable .bak" (sync-flow.ts).
NothingLeavesTheServerUnstashed ==
    [][\A r \in net :
          (r \notin net' /\ ~r.again /\ hist' # hist) => FirstPushKeeps(r)]_phoneVars
=============================================================================
