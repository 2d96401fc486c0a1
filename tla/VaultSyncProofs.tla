--------------------------- MODULE VaultSyncProofs ---------------------------
(***************************************************************************)
(* Proofs about VaultSync, each from the weakest hypothesis it holds       *)
(* under.  Types, sync locks and automatic pulls: any machines, processes  *)
(* and servers.  Baselines and lost edits: any processes, one server (with *)
(* two servers TLC refutes NoLostUpdate).  Recorded stamps: any servers,   *)
(* one syncing process on each machine (with two TLC refutes               *)
(* RecordedGenerationIsOfRecordedBytes).  Scope marks, stamps that         *)
(* increase and honest copies accepted: both.  Confirmed pulls: one        *)
(* reviewer on each machine.                                               *)
(***************************************************************************)
EXTENDS VaultSync, TLAPS

-----------------------------------------------------------------------------
(* Types *)

LEMMA BlobsAreSealed ==
  ASSUME NEW b \in MaybeBlob, b # NoBlob
  PROVE  b \in Blob
BY DEF MaybeBlob

LEMMA BlobParts ==
  ASSUME NEW b \in MaybeBlob
  PROVE  b.edits \subseteq Edits /\ b.gen \in Nat
BY DEF MaybeBlob, Blob, NoBlob

LEMMA RemoteType ==
  ASSUME SyncTypeOK, NEW s \in Servers
  PROVE  RemoteVersion(s) \in Nat /\ RemoteBlob(s) \in MaybeBlob
BY DEF SyncTypeOK, RemoteVersion, RemoteBlob, MaybeBlob

LEMMA OperationType ==
  ASSUME SyncTypeOK, NEW p \in Procs
  PROVE  /\ op[p].ver \in Nat /\ op[p].blob \in MaybeBlob /\ op[p].expect \in MaybeBlob
         /\ op[p].config \in Config /\ op[p].shown \subseteq Edits
         /\ Home[p] \in Machines
BY SyncAssumption DEF SyncTypeOK, Operation

LEMMA MachineType ==
  ASSUME SyncTypeOK, NEW m \in Machines
  PROVE  /\ vault[m] \in MaybeBlob
         /\ cfg[m] \in Config /\ cfg[m].url \in Servers /\ cfg[m].ver \in Nat
         /\ hold[m] \in Hold
BY DEF SyncTypeOK, Config

LEMMA NothingTypes == NoBlob \in MaybeBlob /\ NeverSynced \in Config
                      /\ Idle \in Operation /\ NoHold \in Hold
<1>1. FirstServer \in Servers
  BY SyncAssumption DEF FirstServer
<1>2. NoBlob \in MaybeBlob
  BY DEF MaybeBlob
<1>3. NeverSynced \in Config
  BY <1>1, <1>2 DEF NeverSynced, Config
<1>4. Idle \in Operation
  BY <1>2, <1>3 DEF Idle, Operation, Labels, Reasons
<1>5. NoHold \in Hold
  BY <1>2 DEF NoHold, Hold
<1> QED
  BY <1>2, <1>3, <1>4, <1>5

LEMMA BecomeType ==
  ASSUME SyncTypeOK, NEW p \in Procs, NEW o \in Operation, Become(p, o)
  PROVE  op' \in [Procs -> Operation]
BY DEF Become, SyncTypeOK

LEMMA FinishType ==
  ASSUME SyncTypeOK, NEW p \in Procs, Finish(p)
  PROVE  op' \in [Procs -> Operation]
BY NothingTypes, BecomeType DEF Finish

LEMMA GotoType ==
  ASSUME SyncTypeOK, NEW p \in Procs, NEW label \in Labels, Goto(p, label)
  PROVE  op' \in [Procs -> Operation]
<1>1. [op[p] EXCEPT !.pc = label] \in Operation
  BY DEF SyncTypeOK, Operation
<1> QED
  BY <1>1, BecomeType DEF Goto

LEMMA RecordType ==
  ASSUME SyncTypeOK, NEW m \in Machines, NEW c \in Config, Record(m, c)
  PROVE  cfg' \in [Machines -> Config]
BY DEF Record, SyncTypeOK

LEMMA SaveType ==
  ASSUME SyncTypeOK, NEW m \in Machines, NEW b \in MaybeBlob, Save(m, b)
  PROVE  vault' \in [Machines -> MaybeBlob]
BY DEF Save, SyncTypeOK

LEMMA LockTypes ==
  ASSUME SyncTypeOK, NEW p \in Procs, TakeLock(p) \/ DropLock(p)
  PROVE  syncLock' \in [Machines -> Procs \cup {Nobody}]
BY SyncAssumption DEF TakeLock, DropLock, SyncTypeOK

LEMMA GiveUpType ==
  ASSUME SyncTypeOK, NEW p \in Procs, GiveUp(p)
  PROVE  net' \subseteq Request
<1>1. ASSUME NEW r \in Request
      PROVE  [r EXCEPT !.live = FALSE] \in Request
  BY DEF Request
<1> QED
  BY <1>1 DEF GiveUp, Waiting, SyncTypeOK

\* The bytes a push uploads are sealed by this machine over all its edits.
LEMMA StampedType ==
  ASSUME SyncTypeOK, NEW m \in Machines, vault[m] # NoBlob
  PROVE  /\ StampFor(m) \in Nat /\ Stamped(m) \in Blob
         /\ Stamped(m).edits = vault[m].edits /\ Stamped(m).gen = StampFor(m)
<1>1. vault[m] \in Blob /\ vault[m].gen \in Nat /\ vault[m].edits \subseteq Edits
  BY BlobsAreSealed, MachineType DEF Blob
<1>2. cfg[m].gen \in Nat \cup {NoGen}
  BY MachineType DEF Config
<1>3. StampFor(m) \in Nat
  BY <1>1, <1>2 DEF StampFor, NoGen
<1> QED
  BY <1>1, <1>3 DEF Stamped, Blob

LEMMA PushTypes ==
  ASSUME SyncTypeOK, NEW p \in Procs, Push(p)
  PROVE  SyncTypeOK'
<1>0. Home[p] \in Machines /\ op[p] \in Operation
  BY OperationType DEF SyncTypeOK
<1>1. CASE Debounced(p)
  <2>1. [op[p] EXCEPT !.pc = "push", !.why = "wake"] \in Operation
    BY <1>0 DEF Operation, Labels, Reasons
  <2> QED
    BY <1>1, <2>1, BecomeType DEF Debounced, SyncTypeOK, serverVars, files, ghosts
<1>2. CASE PushSnapshot(p)
  <2>1. Stamped(Home[p]) \in Blob /\ Stamped(Home[p]) \in MaybeBlob
    BY <1>0, <1>2, StampedType DEF PushSnapshot, MaybeBlob
  <2>2. net' \subseteq Request
    <3>1. [from |-> p, url |-> cfg[Home[p]].url, base |-> cfg[Home[p]].ver,
           blob |-> Stamped(Home[p]), live |-> TRUE] \in Request
      BY <1>0, <2>1, MachineType DEF Request
    <3> QED
      BY <1>2, <3>1 DEF PushSnapshot, SyncTypeOK
  <2>3. vault' \in [Machines -> MaybeBlob]
    BY <1>0, <1>2, <2>1, SaveType DEF PushSnapshot, SyncTypeOK
  <2>4. [op[p] EXCEPT !.pc = "sent", !.blob = Stamped(Home[p])] \in Operation
    BY <1>0, <2>1 DEF Operation, Labels
  <2> QED
    BY <1>2, <2>2, <2>3, <2>4, BecomeType, LockTypes DEF PushSnapshot, SyncTypeOK, ghosts
<1>3. CASE PushNothing(p) \/ PushFails(p)
  BY <1>3, FinishType DEF PushNothing, PushFails, SyncTypeOK, serverVars, files, ghosts
<1>4. CASE PushTimeout(p)
  BY <1>4, FinishType, LockTypes, GiveUpType DEF PushTimeout, SyncTypeOK, files, ghosts
<1>5. CASE PushRecord(p)
  <2>1. [cfg[Home[p]] EXCEPT !.ver = op[p].ver, !.sha = op[p].blob,
                             !.gen = op[p].blob.gen] \in Config
    BY <1>0, MachineType, OperationType, BlobParts DEF Config
  <2> QED
    BY <1>0, <1>5, <2>1, RecordType, FinishType, LockTypes
    DEF PushRecord, SyncTypeOK, serverVars, ghosts
<1>6. CASE PushRefused(p)
  <2>1. [Idle EXCEPT !.pc = "status", !.why = "refused", !.config = cfg[Home[p]]] \in Operation
    BY <1>0, NothingTypes, MachineType DEF Operation, Labels, Reasons
  <2>2. op' \in [Procs -> Operation]
    BY <1>6, <2>1, BecomeType, FinishType DEF PushRefused
  <2> QED
    BY <1>6, <2>2, LockTypes DEF PushRefused, SyncTypeOK, serverVars, files, ghosts
<1> QED
  BY <1>1, <1>2, <1>3, <1>4, <1>5, <1>6 DEF Push

LEMMA EngineTypes ==
  ASSUME SyncTypeOK, NEW p \in Procs, Engine(p)
  PROVE  SyncTypeOK'
<1>0. Home[p] \in Machines /\ op[p] \in Operation /\ op[p].config.url \in Servers
  BY OperationType DEF SyncTypeOK, Config
<1>1. CASE WakeStart(p)
  <2>1. [op[p] EXCEPT !.pc = "status", !.why = "wake", !.config = cfg[Home[p]]] \in Operation
    BY <1>0, MachineType DEF Operation, Labels, Reasons
  <2> QED
    BY <1>1, <2>1, BecomeType DEF WakeStart, SyncTypeOK, serverVars, files, ghosts
<1>2. CASE WakeStatus(p)
  <2>1. [op[p] EXCEPT !.pc = "decide", !.ver = RemoteVersion(op[p].config.url),
                      !.blob = RemoteBlob(op[p].config.url)] \in Operation
    BY <1>0, RemoteType DEF Operation, Labels
  <2> QED
    BY <1>2, <2>1, BecomeType DEF WakeStatus, SyncTypeOK, serverVars, files, ghosts
<1>3. CASE WakeDecide(p)
  <2> DEFINE m == Home[p]
             next == NextAfter(SyncStateOf(op[p].config, op[p].ver, op[p].blob, vault[m]),
                               op[p].why)
  <2>1. next \in Labels
    BY DEF NextAfter, Labels
  <2>2. [op[p] EXCEPT !.pc = next, !.expect = vault[m], !.config = cfg[m]] \in Operation
    BY <1>0, <2>1, MachineType DEF Operation
  <2>3. op' \in [Procs -> Operation]
    BY <1>3, <2>2, BecomeType, FinishType DEF WakeDecide
  <2> QED
    BY <1>3, <2>3 DEF WakeDecide, SyncTypeOK, serverVars, files, ghosts
<1>4. CASE RepairSave(p)
  <2>1. [op[p].config EXCEPT !.ver = op[p].ver, !.sha = op[p].blob,
                             !.gen = vault[Home[p]].gen] \in Config
    BY <1>0, MachineType, OperationType, BlobParts DEF Config
  <2> QED
    BY <1>0, <1>4, <2>1, RecordType, FinishType DEF RepairSave, SyncTypeOK, serverVars, ghosts
<1> QED
  BY <1>1, <1>2, <1>3, <1>4 DEF Engine

LEMMA PullTypes ==
  ASSUME SyncTypeOK, NEW p \in Procs, Pull(p)
  PROVE  SyncTypeOK'
<1>0. Home[p] \in Machines /\ op[p] \in Operation /\ op[p].blob \in MaybeBlob
  BY OperationType DEF SyncTypeOK
<1>1. CASE Download(p)
  <2>1. [op[p] EXCEPT !.pc = "install", !.ver = RemoteVersion(cfg[Home[p]].url),
                      !.blob = RemoteBlob(cfg[Home[p]].url),
                      !.why = IF vault[Home[p]] = NoBlob THEN "fresh" ELSE @] \in Operation
    BY <1>0, MachineType, RemoteType DEF Operation, Labels, Reasons
  <2> QED
    BY <1>1, <2>1, BecomeType, LockTypes DEF Download, SyncTypeOK, serverVars, files, ghosts
<1>2. CASE InstallMoved(p)
  <2>1. [Idle EXCEPT !.pc = "status", !.why = "changed", !.config = cfg[Home[p]]] \in Operation
    BY <1>0, NothingTypes, MachineType DEF Operation, Labels, Reasons
  <2> QED
    BY <1>2, <2>1, BecomeType, LockTypes DEF InstallMoved, SyncTypeOK, serverVars, files, ghosts
<1>3. CASE InstallRefused(p)
  BY <1>3, FinishType, LockTypes DEF InstallRefused, SyncTypeOK, serverVars, files, ghosts
<1>4. CASE InstallAuto(p)
  <2>1. op' \in [Procs -> Operation]
    BY <1>4, GotoType DEF InstallAuto, Labels
  <2> QED
    BY <1>0, <1>4, <2>1, SaveType DEF InstallAuto, SyncTypeOK, serverVars, ghosts
<1>5. CASE InstallFresh(p)
  <2>1. op' \in [Procs -> Operation]
    BY <1>5, GotoType DEF InstallFresh, Labels
  <2> QED
    BY <1>0, <1>5, <2>1, SaveType DEF InstallFresh, SyncTypeOK, serverVars, ghosts
<1>6. CASE InstallRecord(p)
  <2>1. [cfg[Home[p]] EXCEPT !.ver = op[p].ver, !.sha = vault[Home[p]],
           !.gen = IF op[p].why = "fresh" THEN NoGen ELSE vault[Home[p]].gen] \in Config
    BY <1>0, MachineType, OperationType, BlobParts DEF Config
  <2>2. hold' \in [Machines -> Hold]
    BY <1>6, NothingTypes DEF InstallRecord, SyncTypeOK
  <2> QED
    BY <1>0, <1>6, <2>1, <2>2, RecordType, FinishType, LockTypes
    DEF InstallRecord, SyncTypeOK, serverVars, ghosts
<1> QED
  BY <1>1, <1>2, <1>3, <1>4, <1>5, <1>6 DEF Pull

LEMMA ReviewTypes ==
  ASSUME SyncTypeOK, NEW p \in Procs, Review(p)
  PROVE  SyncTypeOK'
<1>0. /\ Home[p] \in Machines /\ op[p] \in Operation /\ op[p].blob \in MaybeBlob
      /\ op[p].ver \in Nat
  BY OperationType DEF SyncTypeOK
<1>00. Dropped(vault[Home[p]], op[p].blob) \subseteq Edits
  BY <1>0, MachineType, BlobParts DEF Dropped
<1>1. CASE PreviewDownload(p)
  <2>1. [op[p] EXCEPT !.pc = "preview", !.ver = RemoteVersion(cfg[Home[p]].url),
                      !.blob = RemoteBlob(cfg[Home[p]].url)] \in Operation
    BY <1>0, MachineType, RemoteType DEF Operation, Labels
  <2> QED
    BY <1>1, <2>1, BecomeType, LockTypes DEF PreviewDownload, SyncTypeOK, serverVars, files, ghosts
<1>2. CASE PreviewHold(p)
  <2>1. [op[p] EXCEPT !.pc = "reviewing",
                      !.shown = Dropped(vault[Home[p]], op[p].blob)] \in Operation
    BY <1>0, <1>00 DEF Operation, Labels
  <2>2. [ver |-> op[p].ver, blob |-> op[p].blob, local |-> vault[Home[p]]] \in Hold
    BY <1>0, MachineType DEF Hold
  <2>3. hold' \in [Machines -> Hold]
    BY <1>2, <2>2 DEF PreviewHold, SyncTypeOK
  <2> QED
    BY <1>2, <2>1, <2>3, BecomeType, LockTypes DEF PreviewHold, SyncTypeOK, serverVars, ghosts
<1>3. CASE ReviewCancel(p)
  BY <1>3, FinishType DEF ReviewCancel, SyncTypeOK, serverVars, files, ghosts
<1>4. CASE ConfirmRefused(p)
  <2>1. hold' \in [Machines -> Hold]
    BY <1>4, NothingTypes DEF ConfirmRefused, SyncTypeOK
  <2> QED
    BY <1>4, <2>1, FinishType DEF ConfirmRefused, SyncTypeOK, serverVars, ghosts
<1>5. CASE ConfirmStart(p)
  <2>1. [op[p] EXCEPT !.pc = "held", !.why = "confirm",
                      !.expect = hold[Home[p]].local] \in Operation
    BY <1>0, MachineType DEF Operation, Labels, Reasons, Hold
  <2> QED
    BY <1>5, <2>1, BecomeType, LockTypes DEF ConfirmStart, SyncTypeOK, serverVars, files, ghosts
<1>6. CASE HeldRefused(p)
  <2>1. hold' \in [Machines -> Hold]
    BY <1>6, NothingTypes DEF HeldRefused, SyncTypeOK
  <2> QED
    BY <1>6, <2>1, FinishType, LockTypes DEF HeldRefused, SyncTypeOK, serverVars, ghosts
<1>7. CASE InstallHeld(p)
  <2>1. op' \in [Procs -> Operation]
    BY <1>7, GotoType DEF InstallHeld, Labels
  <2>2. discarded' \subseteq Edits
    BY <1>7, <1>00 DEF InstallHeld, SyncTypeOK
  <2> QED
    BY <1>0, <1>7, <2>1, <2>2, SaveType DEF InstallHeld, SyncTypeOK, serverVars
<1> QED
  BY <1>1, <1>2, <1>3, <1>4, <1>5, <1>6, <1>7 DEF Review

LEMMA WorldTypes ==
  ASSUME SyncTypeOK,
         \/ Network
         \/ \E m \in Machines, e \in Edits : LocalWrite(m, e)
         \/ \E m \in Machines, s \in Servers : SetServer(m, s)
         \/ \E p \in Procs : Crash(p)
  PROVE  SyncTypeOK'
<1>1. ASSUME NEW r \in net, NEW delivered \in BOOLEAN, Serve(r, delivered)
      PROVE  SyncTypeOK'
  <2>1. /\ r.from \in Procs /\ r.url \in Servers /\ r.blob \in Blob
        /\ op[r.from] \in Operation
    BY DEF SyncTypeOK, Request
  <2>2. hist' \in [Servers -> Seq(Blob)]
    BY <1>1, <2>1 DEF Serve, SyncTypeOK
  <2>3. [op[r.from] EXCEPT !.pc = "record", !.ver = RemoteVersion(r.url) + 1] \in Operation
    <3>1. RemoteVersion(r.url) + 1 \in Nat
      BY <2>1, RemoteType
    <3> QED
      BY <2>1, <3>1 DEF Operation, Labels
  <2>4. op' \in [Procs -> Operation]
    <3>1. "conflict" \in Labels
      BY DEF Labels
    <3>2. CASE ~delivered
      BY <1>1, <3>2 DEF Serve, SyncTypeOK
    <3>3. CASE delivered /\ Accepts(r)
      BY <1>1, <2>1, <2>3, <3>3, BecomeType DEF Serve
    <3>4. CASE delivered /\ ~Accepts(r)
      BY <1>1, <2>1, <3>1, <3>4, GotoType DEF Serve
    <3> QED
      BY <3>2, <3>3, <3>4
  <2> QED
    BY <1>1, <2>2, <2>4 DEF Serve, SyncTypeOK, files, ghosts
<1>2. ASSUME NEW r \in net, LoseRequest(r)
      PROVE  SyncTypeOK'
  BY <1>2 DEF LoseRequest, SyncTypeOK, files, ghosts
<1>3. ASSUME NEW m \in Machines, NEW e \in Edits, LocalWrite(m, e)
      PROVE  SyncTypeOK'
  <2>1. [edits |-> vault[m].edits \cup {e}, gen |-> vault[m].gen, by |-> m] \in MaybeBlob
    BY MachineType, BlobParts DEF MaybeBlob, Blob
  <2> QED
    BY <1>3, <2>1, SaveType DEF LocalWrite, SyncTypeOK, serverVars
<1>4. ASSUME NEW m \in Machines, NEW s \in Servers, SetServer(m, s)
      PROVE  SyncTypeOK'
  <2>1. [cfg[m] EXCEPT !.url = s] \in Config
    BY MachineType DEF Config
  <2> QED
    BY <1>4, <2>1, RecordType DEF SetServer, SyncTypeOK, serverVars, ghosts
<1>5. ASSUME NEW p \in Procs, Crash(p)
      PROVE  SyncTypeOK'
  BY <1>5, FinishType, LockTypes, GiveUpType DEF Crash, SyncTypeOK, files, ghosts
<1> QED
  BY <1>1, <1>2, <1>3, <1>4, <1>5 DEF Network

\* Every variable keeps its type, whatever the machines and servers do.
THEOREM SyncTypeCorrect == SyncSpec => []SyncTypeOK
<1>1. SyncInit => SyncTypeOK
  <2>1. ASSUME NEW m \in Machines
        PROVE  [edits |-> {}, gen |-> 0, by |-> m] \in MaybeBlob
    BY DEF MaybeBlob, Blob
  <2> QED
    BY <2>1, NothingTypes DEF SyncInit, SyncTypeOK
<1>2. SyncTypeOK /\ [SyncNext]_syncVars => SyncTypeOK'
  <2> SUFFICES ASSUME SyncTypeOK, [SyncNext]_syncVars
               PROVE  SyncTypeOK'
    OBVIOUS
  <2>1. CASE UNCHANGED syncVars
    BY <2>1 DEF syncVars, SyncTypeOK
  <2>2. CASE SyncNext
    BY <2>2, PushTypes, EngineTypes, PullTypes, ReviewTypes, WorldTypes DEF SyncNext
  <2> QED
    BY <2>1, <2>2
<1> QED
  BY <1>1, <1>2, PTL DEF SyncSpec

-----------------------------------------------------------------------------
(* No update is lost *)

OneProcessEach == \A p, q \in Procs : Home[p] = Home[q] => p = q
OneServer == \A s, t \in Servers : s = t

\* A version of the server is a real blob.
LEMMA VersionType ==
  ASSUME SyncTypeOK, NEW s \in Servers
  PROVE  /\ Len(hist[s]) \in Nat
         /\ \A v \in 1..Len(hist[s]) :
              /\ hist[s][v] \in MaybeBlob /\ hist[s][v] # NoBlob
              /\ hist[s][v].gen \in Nat
<1>1. hist[s] \in Seq(Blob)
  BY DEF SyncTypeOK
<1>2. ASSUME NEW b \in Blob PROVE b \in MaybeBlob /\ b # NoBlob /\ b.gen \in Nat
  BY SyncAssumption DEF MaybeBlob, Blob, NoBlob
<1> QED
  BY <1>1, <1>2

\* A later version covers an earlier one, and itself.
LEMMA CoversBetween ==
  ASSUME SyncTypeOK, HistoryCovers, NEW s \in Servers,
         NEW u \in 1..Len(hist[s]), NEW v \in 1..Len(hist[s]), u <= v
  PROVE  Covers(hist[s][v], s, u) /\ hist[s][u].gen <= hist[s][v].gen
<1>1. hist[s][u].gen \in Nat /\ hist[s][v].gen \in Nat
  BY VersionType
<1>2. CASE u = v
  <2>1. Covers(hist[s][u], s, u)
    BY DEF Covers
  <2> QED
    BY <1>1, <1>2, <2>1
<1>3. CASE u < v
  BY <1>1, <1>3 DEF HistoryCovers
<1>4. u \in Nat /\ v \in Nat
  BY VersionType
<1> QED
  BY <1>2, <1>3, <1>4

\* A step of p changes only its own machine: what must be shown of it.
LEMMA MachineStep ==
  ASSUME OneProcessEach, SyncTypeOK, SyncInv, NEW p \in Procs,
         hist' = hist, discarded \subseteq discarded', RequestsCover',
         \A m \in Machines \ {Home[p]} : cfg'[m] = cfg[m] /\ vault'[m] = vault[m],
         \A q \in Procs \ {p} : op'[q] = op[q],
         RecordCovers(cfg'[Home[p]], vault'[Home[p]]),
         OperationCovers(op'[p], cfg'[Home[p]], vault'[Home[p]])
  PROVE  SyncInv'
<1>1. ASSUME NEW b, NEW s, NEW v, Covers(b, s, v)
      PROVE  Covers(b, s, v)'
  BY <1>1 DEF Covers
<1>2. HistoryCovers'
  BY <1>1 DEF SyncInv, HistoryCovers, Covers
<1>3. ASSUME NEW m \in Machines PROVE RecordCovers(cfg[m], vault[m])'
  <2>1. RecordCovers(cfg'[m], vault'[m])
    <3>1. CASE m = Home[p]
      BY <3>1
    <3>2. CASE m # Home[p]
      BY <3>2 DEF SyncInv
    <3> QED
      BY <3>1, <3>2
  <2> QED
    BY <2>1 DEF RecordCovers, Covers
<1>4. ASSUME NEW q \in Procs PROVE OperationCovers(op[q], cfg[Home[q]], vault[Home[q]])'
  <2>1. OperationCovers(op'[q], cfg'[Home[q]], vault'[Home[q]])
    <3>1. CASE q = p
      BY <3>1
    <3>2. CASE q # p
      <4>1. Home[q] \in Machines /\ Home[q] # Home[p]
        BY <3>2, OperationType DEF OneProcessEach
      <4> QED
        BY <3>2, <4>1 DEF SyncInv
    <3> QED
      BY <3>1, <3>2
  <2> QED
    BY <2>1 DEF OperationCovers
<1> QED
  BY <1>2, <1>3, <1>4 DEF SyncInv

\* A step that only moves p's operation on, when p waits for no answer.
LEMMA OperationStep ==
  ASSUME OneProcessEach, SyncTypeOK, SyncInv, NEW p \in Procs, NEW o, Become(p, o),
         UNCHANGED <<hist, net, vault, cfg, discarded>>, ~At(p, "sent"),
         OperationCovers(o, cfg[Home[p]], vault[Home[p]])
  PROVE  SyncInv'
<1>1. /\ op'[p] = o
      /\ \A q \in Procs \ {p} : op'[q] = op[q]
      /\ Home[p] \in Machines
  BY OperationType DEF Become, SyncTypeOK
<1>2. RequestsCover'
  <2>1. ASSUME NEW r \in net, r.live
        PROVE  op'[r.from] = op[r.from]
    BY <1>1, <2>1 DEF SyncInv, RequestsCover, SyncTypeOK, Request
  <2> QED
    BY <2>1 DEF SyncInv, RequestsCover, Covers, At
<1> QED
  BY <1>1, <1>2, MachineStep DEF SyncInv

\* An operation that ends needs nothing.
LEMMA IdleCovers ==
  ASSUME OneServer, NEW c, c.url \in Servers, NEW b
  PROVE  OperationCovers(Idle, c, b)
<1>1. FirstServer \in Servers
  BY SyncAssumption DEF FirstServer
<1> QED
  BY <1>1 DEF OneServer, OperationCovers, Idle, NeverSynced, InHand

\* The steps that move an operation on and touch nothing else of its machine.
LEMMA QuietSteps ==
  ASSUME OneProcessEach, OneServer, SyncTypeOK, SyncInv, NEW p \in Procs,
         \/ Debounced(p) \/ PushNothing(p) \/ PushFails(p) \/ PushRefused(p)
         \/ WakeStart(p) \/ WakeStatus(p) \/ WakeDecide(p)
         \/ Download(p) \/ InstallMoved(p) \/ InstallRefused(p)
         \/ PreviewDownload(p) \/ PreviewHold(p) \/ ReviewCancel(p)
         \/ ConfirmRefused(p) \/ ConfirmStart(p) \/ HeldRefused(p)
  PROVE  SyncInv'
<1> DEFINE m == Home[p]  c == cfg[m]  b == vault[m]  s == c.url
<1>0. /\ m \in Machines /\ s \in Servers /\ c.ver \in Nat /\ op[p].ver \in Nat
      /\ op[p] \in Operation /\ op[p].config.url = s
      /\ OperationCovers(op[p], c, b) /\ RecordCovers(c, b)
  BY OperationType, MachineType DEF SyncInv, SyncTypeOK, OperationCovers
<1>1. OperationCovers(Idle, c, b)
  BY <1>0, IdleCovers
<1>2. CASE \/ PushNothing(p) \/ PushFails(p) \/ InstallRefused(p)
           \/ ReviewCancel(p) \/ ConfirmRefused(p) \/ HeldRefused(p)
  <2>1. UNCHANGED <<hist, net, vault, cfg, discarded>> /\ ~At(p, "sent") /\ Become(p, Idle)
    BY <1>2 DEF PushNothing, PushFails, InstallRefused, ReviewCancel, ConfirmRefused,
       HeldRefused, Finish, At, serverVars, files, ghosts
  <2> QED
    BY <1>1, <2>1, OperationStep
<1>3. CASE Debounced(p)
  <2> DEFINE o == [op[p] EXCEPT !.pc = "push", !.why = "wake"]
  <2>1. OperationCovers(o, c, b)
    BY <1>0 DEF OperationCovers, InHand, Operation
  <2> QED
    BY <1>3, <2>1, OperationStep DEF Debounced, At, serverVars, files, ghosts
<1>4. CASE PushRefused(p) \/ InstallMoved(p)
  <2>1. ASSUME NEW w PROVE OperationCovers([Idle EXCEPT !.pc = "status", !.why = w, !.config = c], c, b)
    BY DEF OperationCovers, InHand, Idle
  <2>2. PICK o : Become(p, o) /\ OperationCovers(o, c, b)
    BY <1>1, <1>4, <2>1 DEF PushRefused, InstallMoved, Finish
  <2>3. UNCHANGED <<hist, net, vault, cfg, discarded>> /\ ~At(p, "sent")
    BY <1>4 DEF PushRefused, InstallMoved, At, serverVars, files, ghosts
  <2> QED
    BY <2>2, <2>3, OperationStep
<1>5. CASE WakeStart(p)
  <2> DEFINE o == [op[p] EXCEPT !.pc = "status", !.why = "wake", !.config = c]
  <2>1. OperationCovers(o, c, b)
    BY <1>0 DEF OperationCovers, InHand, Operation
  <2> QED
    BY <1>5, <2>1, OperationStep DEF WakeStart, At, serverVars, files, ghosts
<1>6. CASE WakeStatus(p)
  <2> DEFINE o == [op[p] EXCEPT !.pc = "decide", !.ver = RemoteVersion(op[p].config.url),
                                !.blob = RemoteBlob(op[p].config.url)]
  <2>1. Len(hist[s]) \in Nat
    BY <1>0, VersionType
  <2>2. OperationCovers(o, c, b)
    BY <1>0, <2>1 DEF OperationCovers, InHand, Operation, RemoteVersion, RemoteBlob
  <2> QED
    BY <1>6, <2>2, OperationStep DEF WakeStatus, At, serverVars, files, ghosts
<1>7. CASE WakeDecide(p)
  <2> DEFINE next == NextAfter(SyncStateOf(op[p].config, op[p].ver, op[p].blob, b), op[p].why)
             o == [op[p] EXCEPT !.pc = next, !.expect = b, !.config = c]
  <2>1. UNCHANGED <<hist, net, vault, cfg, discarded>> /\ ~At(p, "sent") /\ At(p, "decide")
    BY <1>7 DEF WakeDecide, At, serverVars, files, ghosts
  <2>2. CASE Finish(p)
    BY <1>1, <2>1, <2>2, OperationStep DEF Finish
  <2>3. CASE b # NoBlob /\ Become(p, o)
    <3>1. next = "repair" => op[p].ver # 0 /\ b = op[p].blob
      BY DEF NextAfter, SyncStateOf
    <3>2. next \in {"pull", "push", "repair", "idle"}
      BY DEF NextAfter
    <3>3. o.pc = next /\ o.ver = op[p].ver /\ o.blob = op[p].blob /\ o.config = c
      BY <1>0 DEF Operation
    <3>4. /\ OperationCovers(op[p], c, b) /\ op[p].pc = "decide"
          /\ op[p].ver = 0 \/ op[p].ver \in Nat \ {0}
      BY <1>0, <2>1 DEF At, Operation
    <3>5. OperationCovers(o, c, b)
      <4> HIDE DEF o, next, c, b
      <4>1. CASE next = "repair"
        <5>1. op[p].ver \in 1..Len(hist[c.url]) /\ op[p].blob = hist[c.url][op[p].ver]
          BY <3>1, <3>4, <4>1 DEF OperationCovers
        <5> QED
          BY <2>3, <3>1, <3>3, <4>1, <5>1 DEF OperationCovers, InHand
      <4>2. CASE next # "repair"
        BY <3>2, <3>3, <4>2 DEF OperationCovers, InHand
      <4> QED
        BY <4>1, <4>2
    <3> QED
      BY <2>1, <2>3, <3>5, OperationStep
  <2> QED
    BY <1>7, <2>2, <2>3 DEF WakeDecide
<1>8. CASE Download(p) \/ PreviewDownload(p)
  <2>1. Len(hist[s]) \in Nat /\ c.ver <= Len(hist[s])
    BY <1>0, VersionType DEF RecordCovers
  <2>2. RemoteVersion(s) > 0 /\ RemoteBlob(s) = hist[s][RemoteVersion(s)]
        /\ RemoteVersion(s) = Len(hist[s])
    BY <1>8, <2>1 DEF Download, PreviewDownload, RemoteVersion, RemoteBlob
  <2>3. ASSUME NEW pc \in {"install", "preview"}, NEW w
        PROVE  OperationCovers([op[p] EXCEPT !.pc = pc, !.ver = RemoteVersion(s),
                                             !.blob = RemoteBlob(s), !.why = w], c, b)
    <3> DEFINE o == [op[p] EXCEPT !.pc = pc, !.ver = RemoteVersion(s),
                                  !.blob = RemoteBlob(s), !.why = w]
    <3>1. /\ o.pc = pc /\ o.ver = RemoteVersion(s) /\ o.blob = RemoteBlob(s)
          /\ o.config = op[p].config
      BY <1>0 DEF Operation
    <3>2. op[p].config.url = c.url /\ s = c.url
      BY <1>0
    <3> HIDE DEF o, c, s, b
    <3>3. o.ver \in 1..Len(hist[c.url]) /\ o.blob = hist[c.url][o.ver] /\ c.ver <= o.ver
      BY <1>0, <2>1, <2>2, <3>1, <3>2
    <3>4. OperationCovers(o, c, b)
      BY <3>1, <3>2, <3>3 DEF OperationCovers, InHand
    <3> QED
      BY <3>4 DEF o
  <2>4. PICK o : Become(p, o) /\ OperationCovers(o, c, b)
    <3>1. CASE Download(p)
      BY <2>3, <3>1 DEF Download
    <3>2. CASE PreviewDownload(p)
      <4>1. [op[p] EXCEPT !.pc = "preview", !.ver = RemoteVersion(s), !.blob = RemoteBlob(s)]
            = [op[p] EXCEPT !.pc = "preview", !.ver = RemoteVersion(s),
                            !.blob = RemoteBlob(s), !.why = op[p].why]
        BY <1>0 DEF Operation
      <4> QED
        BY <2>3, <3>2, <4>1 DEF PreviewDownload
    <3> QED
      BY <1>8, <3>1, <3>2
  <2>5. UNCHANGED <<hist, net, vault, cfg, discarded>> /\ ~At(p, "sent")
    BY <1>8 DEF Download, PreviewDownload, At, serverVars, files, ghosts
  <2> QED
    BY <2>4, <2>5, OperationStep
<1>9. CASE PreviewHold(p)
  <2> DEFINE o == [op[p] EXCEPT !.pc = "reviewing", !.shown = Dropped(b, op[p].blob)]
  <2>1. OperationCovers(o, c, b)
    BY <1>0, <1>9 DEF PreviewHold, At, OperationCovers, InHand, Operation
  <2> QED
    BY <1>9, <2>1, OperationStep DEF PreviewHold, At, serverVars, ghosts
<1>10. CASE ConfirmStart(p)
  <2> DEFINE o == [op[p] EXCEPT !.pc = "held", !.why = "confirm", !.expect = hold[m].local]
  <2>1. OperationCovers(o, c, b)
    BY <1>0, <1>10 DEF ConfirmStart, At, OperationCovers, InHand, Operation
  <2> QED
    BY <1>10, <2>1, OperationStep DEF ConfirmStart, At, serverVars, files, ghosts
<1> QED
  BY <1>2, <1>3, <1>4, <1>5, <1>6, <1>7, <1>8, <1>9, <1>10

\* A push uploads every edit of the version it names, under a higher stamp.
LEMMA PushSnapshotSafe ==
  ASSUME OneProcessEach, OneServer, SyncTypeOK, SyncInv, NEW p \in Procs, PushSnapshot(p)
  PROVE  SyncInv'
<1> DEFINE m == Home[p]  c == cfg[m]  s == c.url  x == Stamped(m)
           o == [op[p] EXCEPT !.pc = "sent", !.blob = x]
           r == [from |-> p, url |-> s, base |-> c.ver, blob |-> x, live |-> TRUE]
<1>1. /\ m \in Machines /\ s \in Servers /\ c.ver \in Nat
      /\ op[p] \in Operation /\ op[p].config.url = s
      /\ vault[m] # NoBlob /\ vault[m].gen \in Nat
      /\ RecordCovers(c, vault[m])
  BY OperationType, MachineType, BlobParts
  DEF SyncInv, SyncTypeOK, OperationCovers, PushSnapshot
<1>2. /\ x \in Blob /\ x # NoBlob /\ x.edits = vault[m].edits
      /\ x.gen = StampFor(m) /\ x.gen \in Nat
  <2>1. x \in Blob /\ x.edits = vault[m].edits /\ x.gen = StampFor(m) /\ x.gen \in Nat
    BY <1>1, StampedType
  <2> QED
    BY <2>1, SyncAssumption DEF Blob, NoBlob
<1>3. op' = [op EXCEPT ![p] = o] /\ net' = net \cup {r} /\ hist' = hist /\ cfg' = cfg
      /\ discarded' = discarded /\ ~At(p, "sent")
  BY DEF PushSnapshot, Become, ghosts, At
<1>4. vault'[m] = x /\ \A n \in Machines \ {m} : vault'[n] = vault[n]
  BY <1>1 DEF PushSnapshot, Save, SyncTypeOK
<1>5. c.gen \in Nat \cup {NoGen}
  BY <1>1, MachineType DEF Config
<1>6. c.ver > 0 => /\ c.ver \in 1..Len(hist[s]) /\ hist[s][c.ver].gen \in Nat
                   /\ hist[s][c.ver].gen < x.gen /\ Covers(x, s, c.ver)
  <2> SUFFICES ASSUME c.ver > 0
               PROVE  /\ c.ver \in 1..Len(hist[s]) /\ hist[s][c.ver].gen \in Nat
                      /\ hist[s][c.ver].gen < x.gen /\ Covers(x, s, c.ver)
    OBVIOUS
  <2>1. c.ver \in 1..Len(hist[s]) /\ hist[s][c.ver].gen \in Nat
    BY <1>1, VersionType DEF RecordCovers
  <2>2. Covers(x, s, c.ver)
    BY <1>1, <1>2 DEF RecordCovers, Covers
  <2>3. hist[s][c.ver].gen < x.gen
    <3>1. CASE c.gen = NoGen
      BY <1>1, <1>2, <2>1, <3>1 DEF RecordCovers, StampFor
    <3>2. CASE c.gen # NoGen
      BY <1>1, <1>2, <1>5, <2>1, <3>2 DEF RecordCovers, StampFor
    <3> QED
      BY <3>1, <3>2
  <2> QED
    BY <2>1, <2>2, <2>3
<1>7. RequestsCover'
  <2>1. ASSUME NEW q \in net, q.live
        PROVE  op'[q.from] = op[q.from] /\ q.from # p
    BY <1>3, <2>1 DEF SyncInv, RequestsCover, SyncTypeOK, Request
  <2>2. op'[p] = o /\ o.pc = "sent" /\ o.blob = x
    BY <1>1, <1>3 DEF SyncTypeOK, Operation
  <2>3. c.ver <= Len(hist[s])
    BY <1>1, <1>6, VersionType
  <2>4. ASSUME NEW q \in net'
        PROVE  /\ q.base <= Len(hist[q.url])
               /\ q.base > 0 => Covers(q.blob, q.url, q.base) /\ hist[q.url][q.base].gen < q.blob.gen
               /\ q.live => op'[q.from].pc = "sent" /\ op'[q.from].blob = q.blob
    <3>1. CASE q \in net
      BY <2>1, <3>1 DEF SyncInv, RequestsCover, At
    <3>2. CASE q = r
      BY <1>6, <2>2, <2>3, <3>2
    <3> QED
      BY <1>3, <3>1, <3>2
  <2>5. ASSUME NEW q \in net', NEW y \in net', q.live, y.live, q.from = y.from
        PROVE  q = y
    <3>1. r.from = p
      OBVIOUS
    <3>2. CASE q \in net /\ y \in net
      BY <2>5, <3>2 DEF SyncInv, RequestsCover
    <3>3. CASE q = r \/ y = r
      BY <1>3, <2>1, <2>5, <3>1, <3>3
    <3> QED
      BY <1>3, <3>2, <3>3
  <2> QED
    BY <1>3, <2>4, <2>5 DEF RequestsCover, Covers, At
<1>8. RecordCovers(c, x)
  <2>1. CASE c.ver = 0
    BY <1>1, <2>1 DEF RecordCovers
  <2>2. CASE c.ver > 0
    <3>1. /\ c.sha = hist[s][c.ver] /\ c.ver <= Len(hist[s])
          /\ c.gen # NoGen => c.gen = hist[s][c.ver].gen
      BY <1>1, <2>2 DEF RecordCovers
    <3>2. x # NoBlob /\ x.gen \in Nat
      BY <1>2
    <3>3. s = c.url
      OBVIOUS
    <3>4. Covers(x, s, c.ver) /\ hist[s][c.ver].gen \in Nat /\ hist[s][c.ver].gen < x.gen
      BY <1>6, <2>2
    <3> HIDE DEF c, s, x
    <3> QED
      BY <2>2, <3>1, <3>2, <3>3, <3>4 DEF RecordCovers
  <2> QED
    BY <1>1, <2>1, <2>2
<1>9. OperationCovers(o, c, x)
  BY <1>1, <1>2 DEF OperationCovers, InHand, Operation
<1>10. op'[p] = o /\ \A q \in Procs \ {p} : op'[q] = op[q]
  BY <1>3 DEF SyncTypeOK
<1> QED
  BY <1>3, <1>4, <1>7, <1>8, <1>9, <1>10, MachineStep

\* Giving up leaves a request that still covers what it builds on.
LEMMA GiveUpSafe ==
  ASSUME OneProcessEach, OneServer, SyncTypeOK, SyncInv, NEW p \in Procs,
         PushTimeout(p) \/ Crash(p)
  PROVE  SyncInv'
<1>1. /\ GiveUp(p) /\ op' = [op EXCEPT ![p] = Idle] /\ Home[p] \in Machines
      /\ UNCHANGED <<hist, vault, cfg, discarded>>
  BY OperationType DEF PushTimeout, Crash, Finish, Become, files, ghosts
<1>2. op'[p] = Idle /\ \A q \in Procs \ {p} : op'[q] = op[q]
  BY <1>1 DEF SyncTypeOK
<1>3. RequestsCover'
  <2>1. ASSUME NEW r \in net'
        PROVE  /\ r.base <= Len(hist[r.url])
               /\ r.base > 0 => Covers(r.blob, r.url, r.base) /\ hist[r.url][r.base].gen < r.blob.gen
               /\ r.live => r \in net /\ r.from # p
    <3>1. CASE r \in net \ Waiting(p)
      BY <3>1 DEF Waiting, SyncInv, RequestsCover
    <3>2. ASSUME NEW q \in Waiting(p), r = [q EXCEPT !.live = FALSE]
          PROVE  /\ q \in net
                 /\ r.base = q.base /\ r.url = q.url /\ r.blob = q.blob /\ r.live = FALSE
      BY <3>2 DEF Waiting, SyncTypeOK, Request
    <3> QED
      BY <1>1, <3>1, <3>2 DEF GiveUp, SyncInv, RequestsCover
  <2>2. ASSUME NEW r \in net', r.live
        PROVE  op'[r.from] = op[r.from] /\ r \in net
    BY <1>2, <2>1, <2>2 DEF SyncTypeOK, Request
  <2> QED
    BY <1>1, <2>1, <2>2 DEF SyncInv, RequestsCover, Covers, At
<1>4. OperationCovers(Idle, cfg[Home[p]], vault[Home[p]])
  BY <1>1, MachineType, IdleCovers
<1> QED
  BY <1>1, <1>2, <1>3, <1>4, MachineStep DEF SyncInv

\* A record that names a version whose edits the vault holds.
LEMMA RecordOf ==
  ASSUME NEW c, NEW b, c.ver \in Nat \ {0}, c.ver <= Len(hist[c.url]), b # NoBlob,
         c.sha = hist[c.url][c.ver], c.sha.gen \in Nat, c.sha.edits \subseteq b.edits,
         c.gen = c.sha.gen \/ (c.gen = NoGen /\ c.sha.gen <= b.gen)
  PROVE  RecordCovers(c, b)
BY DEF RecordCovers, Covers, NoGen

\* What a finished push or a repair records is a version the vault builds on.
LEMMA RecordSafe ==
  ASSUME OneProcessEach, OneServer, SyncTypeOK, SyncInv, NEW p \in Procs,
         PushRecord(p) \/ RepairSave(p) \/ InstallRecord(p)
  PROVE  SyncInv'
<1> DEFINE m == Home[p]  s == cfg[m].url  b == vault[m]
<1>1. /\ m \in Machines /\ s \in Servers /\ op[p] \in Operation /\ cfg[m] \in Config
      /\ op[p].config \in Config /\ OperationCovers(op[p], cfg[m], b)
  BY OperationType, MachineType DEF SyncInv, SyncTypeOK
<1>2. /\ op' = [op EXCEPT ![p] = Idle] /\ ~At(p, "sent") /\ op[p].pc \in InHand
      /\ UNCHANGED <<hist, net, vault, discarded>>
  BY DEF PushRecord, RepairSave, InstallRecord, Finish, Become, At, InHand, serverVars, ghosts
<1>3. /\ op[p].ver \in 1..Len(hist[s]) /\ op[p].blob = hist[s][op[p].ver]
      /\ op[p].ver \in Nat /\ op[p].ver > 0 /\ op[p].config.url = s
      /\ op[p].blob.gen \in Nat /\ op[p].blob # NoBlob
  BY <1>1, <1>2, VersionType DEF OperationCovers
<1>4. \A n \in Machines \ {m} : cfg'[n] = cfg[n]
  BY DEF PushRecord, RepairSave, InstallRecord, Record, SyncTypeOK
<1>5. cfg'[m].url = s /\ RecordCovers(cfg'[m], b)
  <2>1. CASE PushRecord(p)
    <3> DEFINE c == [cfg[m] EXCEPT !.ver = op[p].ver, !.sha = op[p].blob, !.gen = op[p].blob.gen]
    <3>1. cfg'[m] = c
      BY <1>1, <2>1 DEF PushRecord, Record, SyncTypeOK
    <3>2. c.url = s /\ c.ver = op[p].ver /\ c.sha = op[p].blob /\ c.gen = op[p].blob.gen
      BY <1>1 DEF Config
    <3>3. b # NoBlob /\ op[p].blob.edits \subseteq b.edits
      BY <1>1, <2>1 DEF PushRecord, At, OperationCovers
    <3> HIDE DEF c
    <3>4. c.sha = hist[c.url][c.ver] /\ c.ver \in Nat \ {0} /\ c.ver <= Len(hist[c.url])
      BY <1>3, <3>2
    <3>5. c.sha.gen \in Nat /\ c.gen = c.sha.gen /\ c.sha.edits \subseteq b.edits
      BY <1>3, <3>2, <3>3
    <3>6. RecordCovers(c, b)
      BY <3>3, <3>4, <3>5, RecordOf
    <3> QED
      BY <3>1, <3>2, <3>6
  <2>2. CASE RepairSave(p)
    <3> DEFINE c == [op[p].config EXCEPT !.ver = op[p].ver, !.sha = op[p].blob, !.gen = b.gen]
    <3>1. cfg'[m] = c
      BY <1>1, <2>2 DEF RepairSave, Record, SyncTypeOK
    <3>2. c.url = s /\ c.ver = op[p].ver /\ c.sha = op[p].blob /\ c.gen = b.gen
      BY <1>1, <1>3 DEF Config
    <3>3. b # NoBlob /\ op[p].blob.edits \subseteq b.edits /\ b.gen = op[p].blob.gen
      BY <1>1, <2>2 DEF RepairSave, At, OperationCovers
    <3> HIDE DEF c
    <3>4. c.sha = hist[c.url][c.ver] /\ c.ver \in Nat \ {0} /\ c.ver <= Len(hist[c.url])
      BY <1>3, <3>2
    <3>5. c.sha.gen \in Nat /\ c.gen = c.sha.gen /\ c.sha.edits \subseteq b.edits
      BY <1>3, <3>2, <3>3
    <3>6. RecordCovers(c, b)
      BY <3>3, <3>4, <3>5, RecordOf
    <3> QED
      BY <3>1, <3>2, <3>6
  <2>3. CASE InstallRecord(p)
    <3> DEFINE g == IF op[p].why = "fresh" THEN NoGen ELSE b.gen
               c == [cfg[m] EXCEPT !.ver = op[p].ver, !.sha = b, !.gen = g]
    <3>1. cfg'[m] = c
      BY <1>1, <2>3 DEF InstallRecord, Record, SyncTypeOK
    <3>2. c.url = s /\ c.ver = op[p].ver /\ c.sha = b /\ c.gen = g
      BY <1>1 DEF Config
    <3>3. b = op[p].blob
      BY <1>1, <2>3 DEF InstallRecord, At, OperationCovers
    <3> HIDE DEF c
    <3>4. c.sha = hist[c.url][c.ver] /\ c.ver \in Nat \ {0} /\ c.ver <= Len(hist[c.url])
      BY <1>3, <3>2, <3>3
    <3>5. c.sha.gen \in Nat /\ c.sha.edits \subseteq b.edits /\ b # NoBlob
      BY <1>3, <3>2, <3>3
    <3>6. c.gen = c.sha.gen \/ (c.gen = NoGen /\ c.sha.gen <= b.gen)
      BY <3>2, <3>5
    <3>7. RecordCovers(c, b)
      BY <3>4, <3>5, <3>6, RecordOf
    <3> QED
      BY <3>1, <3>2, <3>7
  <2> QED
    BY <2>1, <2>2, <2>3
<1>6. op'[p] = Idle /\ \A q \in Procs \ {p} : op'[q] = op[q]
  BY <1>2 DEF SyncTypeOK
<1>7. RequestsCover'
  <2>1. ASSUME NEW r \in net, r.live
        PROVE  op'[r.from] = op[r.from]
    BY <1>2, <1>6, <2>1 DEF SyncInv, RequestsCover, SyncTypeOK, Request
  <2> QED
    BY <1>2, <2>1 DEF SyncInv, RequestsCover, Covers, At
<1>8. OperationCovers(Idle, cfg'[m], b)
  BY <1>1, <1>5, IdleCovers
<1> QED
  BY <1>2, <1>4, <1>5, <1>6, <1>7, <1>8, MachineStep

\* What a pull installs covers the version recorded before it.
LEMMA InstallSafe ==
  ASSUME OneProcessEach, OneServer, SyncTypeOK, SyncInv, NEW p \in Procs,
         InstallAuto(p) \/ InstallFresh(p) \/ InstallHeld(p)
  PROVE  SyncInv'
<1> DEFINE m == Home[p]  c == cfg[m]  s == c.url  x == op[p].blob
           o == [op[p] EXCEPT !.pc = "installed"]
<1>1. /\ m \in Machines /\ s \in Servers /\ op[p] \in Operation /\ c.ver \in Nat
      /\ OperationCovers(op[p], c, vault[m]) /\ RecordCovers(c, vault[m])
  BY OperationType, MachineType DEF SyncInv, SyncTypeOK
<1>2. /\ op[p].pc \in InHand \ {"record", "repair"}
      /\ op' = [op EXCEPT ![p] = o] /\ vault' = [vault EXCEPT ![m] = x]
      /\ UNCHANGED <<hist, net, cfg>> /\ discarded \subseteq discarded' /\ ~At(p, "sent")
  BY DEF InstallAuto, InstallFresh, InstallHeld, Save, Goto, Become, At, InHand, serverVars, ghosts
<1>3. /\ op[p].ver \in 1..Len(hist[s]) /\ x = hist[s][op[p].ver] /\ c.ver <= op[p].ver
      /\ x.gen \in Nat /\ x # NoBlob
  BY <1>1, <1>2, VersionType DEF OperationCovers
<1>4. RecordCovers(c, x)
  <2>1. CASE c.ver = 0
    BY <1>1, <2>1 DEF RecordCovers
  <2>2. CASE c.ver > 0
    <3>1. c.ver \in 1..Len(hist[s])
      BY <1>1, <2>2, VersionType DEF RecordCovers
    <3>2. op[p].ver \in 1..Len(hist[s])
      BY <1>3
    <3>3. Covers(x, s, c.ver) /\ hist[s][c.ver].gen <= x.gen
      <4>1. Covers(hist[s][op[p].ver], s, c.ver) /\ hist[s][c.ver].gen <= hist[s][op[p].ver].gen
        <5> HIDE DEF c, s
        <5> QED
          BY <1>1, <1>3, <3>1, <3>2, CoversBetween DEF SyncInv
      <4>2. x = hist[s][op[p].ver]
        BY <1>3
      <4> HIDE DEF c, s, x
      <4> QED
        BY <4>1, <4>2
    <3>4. /\ c.sha = hist[s][c.ver]
          /\ c.gen # NoGen => c.gen = hist[s][c.ver].gen
          /\ c.ver <= Len(hist[s])
      BY <1>1, <2>2 DEF RecordCovers
    <3>5. x # NoBlob
      BY <1>3
    <3> HIDE DEF c, s, x
    <3>6. s = c.url
      BY DEF s
    <3> QED
      BY <2>2, <3>3, <3>4, <3>5, <3>6 DEF RecordCovers
  <2> QED
    BY <1>1, <2>1, <2>2
<1>5. OperationCovers(o, c, x)
  BY <1>1, <1>2, <1>3 DEF OperationCovers, InHand, Operation
<1>6. op'[p] = o /\ \A q \in Procs \ {p} : op'[q] = op[q]
  BY <1>2 DEF SyncTypeOK
<1>7. vault'[m] = x /\ \A n \in Machines \ {m} : vault'[n] = vault[n]
  BY <1>1, <1>2 DEF SyncTypeOK
<1>8. RequestsCover'
  <2>1. ASSUME NEW r \in net, r.live
        PROVE  op'[r.from] = op[r.from]
    BY <1>2, <1>6, <2>1 DEF SyncInv, RequestsCover, SyncTypeOK, Request
  <2> QED
    BY <1>2, <2>1 DEF SyncInv, RequestsCover, Covers, At
<1> QED
  BY <1>2, <1>4, <1>5, <1>6, <1>7, <1>8, MachineStep

\* The server installs a request only over the version it builds on.
LEMMA ServeSafe ==
  ASSUME OneProcessEach, OneServer, SyncTypeOK, SyncInv,
         NEW r \in net, NEW delivered \in BOOLEAN, Serve(r, delivered)
  PROVE  SyncInv'
<1> DEFINE s == r.url  p == r.from
<1>1. /\ p \in Procs /\ s \in Servers /\ r.blob \in Blob /\ r.blob.gen \in Nat
      /\ op[p] \in Operation /\ hist[s] \in Seq(Blob) /\ Len(hist[s]) \in Nat
      /\ r.base \in Nat
  <2>1. p \in Procs /\ s \in Servers /\ r.blob \in Blob /\ r.base \in Nat
    BY DEF SyncTypeOK, Request
  <2>2. r.blob.gen \in Nat
    BY <2>1 DEF Blob
  <2>3. op[p] \in Operation /\ hist[s] \in Seq(Blob)
    BY <2>1 DEF SyncTypeOK
  <2> QED
    BY <2>1, <2>2, <2>3
<1>2. /\ net' = net \ {r} /\ UNCHANGED <<vault, cfg, discarded>>
  BY DEF Serve, files, ghosts
\* Every version there was is still there.
<1>3. ASSUME NEW t \in Servers
      PROVE  /\ Len(hist[t]) <= Len(hist'[t]) /\ Len(hist[t]) \in Nat /\ Len(hist'[t]) \in Nat
             /\ \A v \in 1..Len(hist[t]) : hist'[t][v] = hist[t][v]
  <2>0. hist[t] \in Seq(Blob)
    BY DEF SyncTypeOK
  <2>1. CASE hist' = hist
    BY <2>0, <2>1
  <2>2. CASE hist' = [hist EXCEPT ![s] = Append(@, r.blob)] /\ t = s
    <3>1. hist'[t] = Append(hist[t], r.blob)
      BY <1>1, <2>2 DEF SyncTypeOK
    <3> QED
      BY <1>1, <2>0, <3>1
  <2>3. CASE hist' = [hist EXCEPT ![s] = Append(@, r.blob)] /\ t # s
    BY <1>1, <2>0, <2>3 DEF SyncTypeOK
  <2> QED
    BY <2>1, <2>2, <2>3 DEF Serve
<1>4. HistoryCovers'
  <2>1. CASE ~Accepts(r)
    BY <1>2, <2>1 DEF Serve, SyncInv, HistoryCovers, Covers
  <2>2. CASE Accepts(r)
    <3>1. /\ hist'[s] = Append(hist[s], r.blob) /\ Len(hist[s]) = r.base
          /\ \A t \in Servers : t = s
      BY <1>1, <2>2 DEF Serve, SyncTypeOK, Accepts, RemoteVersion, OneServer
    <3>2. Len(hist'[s]) = r.base + 1 /\ hist'[s][r.base + 1] = r.blob
      BY <1>1, <3>1
    <3>3. ASSUME NEW u \in 1..r.base
          PROVE  /\ hist[s][u].edits \subseteq r.blob.edits \cup discarded
                 /\ hist[s][u].gen < r.blob.gen
      <4>1. /\ hist[s][r.base].edits \subseteq r.blob.edits \cup discarded
            /\ hist[s][r.base].gen < r.blob.gen
            /\ hist[s][r.base].gen \in Nat /\ hist[s][u].gen \in Nat
        BY <1>1, <3>1, VersionType DEF SyncInv, RequestsCover, Covers
      <4>2. CASE u = r.base
        BY <4>1, <4>2
      <4>3. CASE u < r.base
        <5>1. /\ hist[s][u].edits \subseteq hist[s][r.base].edits \cup discarded
              /\ hist[s][u].gen < hist[s][r.base].gen
          <6>1. u \in 1..Len(hist[s]) /\ r.base \in 1..Len(hist[s])
            BY <1>1, <3>1, <4>3
          <6>2. HistoryCovers
            BY DEF SyncInv
          <6> HIDE DEF s
          <6> QED
            BY <1>1, <4>3, <6>1, <6>2 DEF HistoryCovers, Covers
        <5> QED
          BY <1>1, <4>1, <5>1
      <4> QED
        BY <1>1, <4>2, <4>3
    <3>4. ASSUME NEW u \in 1..Len(hist'[s]), NEW v \in 1..Len(hist'[s]), u < v
          PROVE  /\ hist'[s][u].edits \subseteq hist'[s][v].edits \cup discarded
                 /\ hist'[s][u].gen < hist'[s][v].gen
      <4>1. u \in 1..r.base /\ hist'[s][u] = hist[s][u]
        BY <1>1, <1>3, <3>1, <3>2, <3>4
      <4>2. CASE v = r.base + 1
        BY <3>2, <3>3, <4>1, <4>2
      <4>3. CASE v # r.base + 1
        <5>1. v \in 1..r.base /\ hist'[s][v] = hist[s][v]
          BY <1>1, <1>3, <3>1, <3>2, <4>3
        <5> QED
          BY <1>1, <3>1, <3>4, <4>1, <5>1 DEF SyncInv, HistoryCovers, Covers
      <4> QED
        BY <4>2, <4>3
    <3> QED
      BY <1>2, <3>1, <3>4 DEF HistoryCovers, Covers
  <2> QED
    BY <2>1, <2>2
<1>5. \A q \in Procs \ {p} : op'[q] = op[q]
  <2>1. CASE op' = op
    BY <2>1
  <2>2. ASSUME NEW o, op' = [op EXCEPT ![p] = o]
        PROVE  \A q \in Procs \ {p} : op'[q] = op[q]
    BY <2>2 DEF SyncTypeOK
  <2>3. op' = op \/ (\E o : op' = [op EXCEPT ![p] = o])
    <3>1. CASE ~delivered
      BY <3>1 DEF Serve
    <3>2. CASE delivered /\ Accepts(r)
      BY <3>2 DEF Serve, Become
    <3>3. CASE delivered /\ ~Accepts(r)
      BY <3>3 DEF Serve, Goto, Become
    <3> QED
      BY <3>1, <3>2, <3>3
  <2> QED
    BY <2>1, <2>2, <2>3
<1>6. delivered => r.live /\ At(p, "sent") /\ op[p].blob = r.blob
  BY DEF Serve, SyncInv, RequestsCover
<1>7. delivered => \A q \in net' : q.live => q.from # p
  BY <1>2, <1>6 DEF SyncInv, RequestsCover
<1>8. RequestsCover'
  <2>1. ASSUME NEW q \in net', q.live
        PROVE  op'[q.from] = op[q.from]
    <3>1. q.from \in Procs
      BY <1>2 DEF SyncTypeOK, Request
    <3>2. CASE delivered
      BY <1>5, <1>7, <2>1, <3>1, <3>2
    <3>3. CASE ~delivered
      BY <3>3 DEF Serve
    <3> QED
      BY <3>2, <3>3
  <2>2. ASSUME NEW q \in net'
        PROVE  /\ q.base <= Len(hist'[q.url])
               /\ q.base > 0 => /\ hist'[q.url][q.base].edits \subseteq q.blob.edits \cup discarded
                                /\ hist'[q.url][q.base].gen < q.blob.gen
    <3>1. q \in net /\ q.url \in Servers /\ q.base \in Nat
      BY <1>2 DEF SyncTypeOK, Request
    <3>2. q.base <= Len(hist[q.url])
      BY <3>1 DEF SyncInv, RequestsCover
    <3>3. q.base > 0 => hist'[q.url][q.base] = hist[q.url][q.base]
      BY <1>3, <3>1, <3>2
    <3> QED
      BY <1>3, <3>1, <3>2, <3>3 DEF SyncInv, RequestsCover, Covers
  <2> QED
    BY <1>2, <2>1, <2>2 DEF SyncInv, RequestsCover, Covers, At
<1>9. ASSUME NEW m \in Machines PROVE RecordCovers(cfg[m], vault[m])'
  <2>1. /\ cfg[m].url \in Servers /\ cfg[m].ver \in Nat /\ RecordCovers(cfg[m], vault[m])
    BY MachineType DEF SyncInv
  <2>2. cfg[m].ver > 0 => /\ cfg[m].ver <= Len(hist'[cfg[m].url])
                          /\ hist'[cfg[m].url][cfg[m].ver] = hist[cfg[m].url][cfg[m].ver]
    BY <1>3, <2>1 DEF RecordCovers
  <2> QED
    BY <1>2, <2>1, <2>2 DEF RecordCovers, Covers
<1>10. ASSUME NEW q \in Procs PROVE OperationCovers(op[q], cfg[Home[q]], vault[Home[q]])'
  <2> DEFINE c == cfg[Home[q]]  b == vault[Home[q]]
  <2>1. /\ c.url \in Servers /\ op[q].ver \in Nat /\ OperationCovers(op[q], c, b)
        /\ op[q] \in Operation
    BY OperationType, MachineType DEF SyncInv, SyncTypeOK
  <2>2. CASE op'[q] = op[q]
    <3>1. op[q].ver \in 1..Len(hist[c.url]) =>
             /\ op[q].ver \in 1..Len(hist'[c.url])
             /\ hist'[c.url][op[q].ver] = hist[c.url][op[q].ver]
      BY <1>3, <2>1
    <3>2. op[q].ver > 0 /\ op[q].ver <= Len(hist[c.url]) => op[q].ver \in 1..Len(hist[c.url])
      BY <1>3, <2>1
    <3> QED
      BY <1>2, <1>3, <2>1, <2>2, <3>1, <3>2 DEF OperationCovers
  <2>3. CASE q = p /\ delivered /\ ~Accepts(r)
    <3>1. op'[q] = [op[q] EXCEPT !.pc = "conflict"]
      BY <2>3 DEF Serve, Goto, Become, SyncTypeOK
    <3> QED
      BY <1>2, <2>1, <3>1 DEF OperationCovers, InHand, Operation
  <2>4. CASE q = p /\ delivered /\ Accepts(r)
    <3> DEFINE o == [op[q] EXCEPT !.pc = "record", !.ver = Len(hist[s]) + 1]
    <3>1. op'[q] = o
      BY <2>4 DEF Serve, Become, SyncTypeOK, RemoteVersion
    <3>2. /\ o.pc = "record" /\ o.ver = Len(hist[s]) + 1 /\ o.blob = op[q].blob
          /\ o.config = op[q].config
      BY <2>1 DEF Operation
    <3>3. c.url = s /\ Len(hist'[s]) = Len(hist[s]) + 1 /\ hist'[s][Len(hist[s]) + 1] = r.blob
      <4>1. c.url = s
        BY <1>1, <2>1 DEF OneServer
      <4>2. hist'[s] = Append(hist[s], r.blob)
        BY <1>1, <2>4 DEF Serve, SyncTypeOK
      <4> QED
        BY <1>1, <4>1, <4>2
    <3>4. b # NoBlob /\ r.blob.edits \subseteq b.edits /\ op[q].config.url = c.url /\ op[q].blob = r.blob
      BY <1>6, <2>1, <2>4 DEF OperationCovers, At
    <3> HIDE DEF o
    <3>5. op'[q].ver \in 1..Len(hist'[c.url]) /\ op'[q].blob = hist'[c.url][op'[q].ver]
      BY <1>1, <3>1, <3>2, <3>3, <3>4
    <3> QED
      BY <1>2, <3>1, <3>2, <3>4, <3>5 DEF OperationCovers, InHand
  <2> QED
    BY <1>5, <2>2, <2>3, <2>4 DEF Serve
<1> QED
  BY <1>4, <1>8, <1>9, <1>10 DEF SyncInv

\* A local write only adds to the vault.
LEMMA LocalWriteSafe ==
  ASSUME SyncTypeOK, SyncInv, NEW m \in Machines, NEW e \in Edits, LocalWrite(m, e)
  PROVE  SyncInv'
<1> DEFINE x == [edits |-> vault[m].edits \cup {e}, gen |-> vault[m].gen, by |-> m]
<1>1. /\ vault' = [vault EXCEPT ![m] = x] /\ vault[m] # NoBlob /\ x # NoBlob /\ ~VaultLocked(m)
      /\ UNCHANGED <<hist, net, cfg, op, discarded>>
  BY SyncAssumption DEF LocalWrite, Save, serverVars, NoBlob
<1>2. ASSUME NEW n \in Machines
      PROVE  /\ vault[n] # NoBlob => vault'[n] # NoBlob
             /\ vault[n].edits \subseteq vault'[n].edits /\ vault'[n].gen = vault[n].gen
             /\ n # m => vault'[n] = vault[n]
  BY <1>1 DEF SyncTypeOK
<1>3. UNCHANGED <<hist, net, op, discarded>>
  BY <1>1
<1>4. HistoryCovers' /\ RequestsCover'
  <2> HIDE DEF x
  <2>1. HistoryCovers'
    BY <1>3 DEF SyncInv, HistoryCovers, Covers
  <2>2. RequestsCover'
    BY <1>3 DEF SyncInv, RequestsCover, Covers, At
  <2> QED
    BY <2>1, <2>2
<1>5. ASSUME NEW n \in Machines PROVE RecordCovers(cfg[n], vault[n])'
  <2>1. RecordCovers(cfg[n], vault[n])
    BY DEF SyncInv
  <2>2. cfg'[n] = cfg[n] /\ hist' = hist /\ discarded' = discarded
    BY <1>1
  <2> HIDE DEF x
  <2>3. /\ vault[n] # NoBlob => vault'[n] # NoBlob
        /\ vault[n].edits \subseteq vault'[n].edits /\ vault'[n].gen = vault[n].gen
    BY <1>2
  <2>4. RecordCovers(cfg[n], vault'[n])
    BY <2>1, <2>3 DEF RecordCovers, Covers
  <2> QED
    BY <2>2, <2>4 DEF RecordCovers, Covers
<1>6. ASSUME NEW q \in Procs PROVE OperationCovers(op[q], cfg[Home[q]], vault[Home[q]])'
  <2>1. OperationCovers(op[q], cfg[Home[q]], vault[Home[q]]) /\ Home[q] \in Machines
    BY OperationType DEF SyncInv
  <2>2. op[q].pc = "installed" => Home[q] # m
    BY <1>1 DEF VaultLocked, At
  <2> HIDE DEF x
  <2>3. OperationCovers(op[q], cfg[Home[q]], vault'[Home[q]])
    <3>1. CASE Home[q] = m
      BY <1>2, <2>1, <2>2, <3>1 DEF OperationCovers
    <3>2. CASE Home[q] # m
      BY <1>2, <2>1, <3>2
    <3> QED
      BY <3>1, <3>2
  <2>4. UNCHANGED <<hist, cfg, op>>
    BY <1>1
  <2> QED
    BY <2>3, <2>4 DEF OperationCovers
<1> QED
  BY <1>4, <1>5, <1>6 DEF SyncInv

\* Losing requests, or nothing, disturbs no conjunct.
LEMMA NetShrinks ==
  ASSUME SyncInv, net' \subseteq net, UNCHANGED <<hist, vault, cfg, op, discarded>>
  PROVE  SyncInv'
<1>1. HistoryCovers'
  BY DEF SyncInv, HistoryCovers, Covers
<1>2. RequestsCover'
  BY DEF SyncInv, RequestsCover, Covers, At
<1>3. ASSUME NEW n \in Machines PROVE RecordCovers(cfg[n], vault[n])'
  <2>1. RecordCovers(cfg[n], vault[n])
    BY DEF SyncInv
  <2> QED
    BY <2>1 DEF RecordCovers, Covers
<1>4. ASSUME NEW q \in Procs PROVE OperationCovers(op[q], cfg[Home[q]], vault[Home[q]])'
  <2>1. OperationCovers(op[q], cfg[Home[q]], vault[Home[q]])
    BY DEF SyncInv
  <2> QED
    BY <2>1 DEF OperationCovers
<1> QED
  BY <1>1, <1>2, <1>3, <1>4 DEF SyncInv

LEMMA SyncInvStep ==
  ASSUME OneProcessEach, OneServer, SyncTypeOK, SyncInv, [SyncNext]_syncVars
  PROVE  SyncInv'
<1>1. CASE UNCHANGED syncVars
  BY <1>1, NetShrinks DEF syncVars
<1>2. CASE Network
  <2>1. ASSUME NEW r \in net, LoseRequest(r)
        PROVE  SyncInv'
    BY <2>1, NetShrinks DEF LoseRequest, files, ghosts
  <2> QED
    BY <1>2, <2>1, ServeSafe DEF Network
<1>3. ASSUME NEW m \in Machines, NEW e \in Edits, LocalWrite(m, e)
      PROVE  SyncInv'
  BY <1>3, LocalWriteSafe
<1>4. ASSUME NEW m \in Machines, NEW s \in Servers, SetServer(m, s)
      PROVE  SyncInv'
  BY <1>4, MachineType DEF SetServer, OneServer
<1>5. ASSUME NEW p \in Procs, Push(p) \/ Engine(p) \/ Pull(p) \/ Review(p) \/ Crash(p)
      PROVE  SyncInv'
  <2>1. CASE PushSnapshot(p)
    BY <2>1, PushSnapshotSafe
  <2>2. CASE PushTimeout(p) \/ Crash(p)
    BY <2>2, GiveUpSafe
  <2>3. CASE PushRecord(p) \/ RepairSave(p) \/ InstallRecord(p)
    BY <2>3, RecordSafe
  <2>4. CASE InstallAuto(p) \/ InstallFresh(p) \/ InstallHeld(p)
    BY <2>4, InstallSafe
  <2> QED
    BY <1>5, <2>1, <2>2, <2>3, <2>4, QuietSteps DEF Push, Engine, Pull, Review
<1> QED
  BY <1>1, <1>2, <1>3, <1>4, <1>5 DEF SyncNext

\* SyncInv holds of every number of machines that share one server, with one
\* syncing process each.
THEOREM SyncInvCorrect ==
  ASSUME OneProcessEach, OneServer
  PROVE  SyncSpec => []SyncInv
<1>1. SyncInit => SyncInv
  <2> SUFFICES ASSUME SyncInit PROVE SyncInv
    OBVIOUS
  <2>1. FirstServer \in Servers
    BY SyncAssumption DEF FirstServer
  <2>2. HistoryCovers /\ RequestsCover
    BY DEF SyncInit, HistoryCovers, RequestsCover
  <2>3. ASSUME NEW m \in Machines PROVE RecordCovers(cfg[m], vault[m])
    BY DEF SyncInit, RecordCovers, NeverSynced
  <2>4. ASSUME NEW p \in Procs PROVE OperationCovers(op[p], cfg[Home[p]], vault[Home[p]])
    BY <2>1, SyncAssumption, IdleCovers DEF SyncInit, NeverSynced
  <2> QED
    BY <2>2, <2>3, <2>4 DEF SyncInv
<1>2. SyncTypeOK /\ SyncInv /\ [SyncNext]_syncVars => SyncInv'
  BY SyncInvStep
<1> QED
  BY <1>1, <1>2, SyncTypeCorrect, PTL DEF SyncSpec

\* No version of the server loses an edit its predecessor had.
THEOREM SyncLosesNoUpdate ==
  ASSUME OneProcessEach, OneServer
  PROVE  SyncSpec => [](NoLostUpdate /\ GenerationsIncrease)
<1>1. SyncTypeOK /\ SyncInv => NoLostUpdate /\ GenerationsIncrease
  <2> SUFFICES ASSUME SyncTypeOK, SyncInv, NEW s \in Servers, NEW v \in 1..(Len(hist[s]) - 1)
               PROVE  /\ hist[s][v].edits \subseteq hist[s][v + 1].edits \cup discarded
                      /\ hist[s][v].gen < hist[s][v + 1].gen
    BY DEF NoLostUpdate, GenerationsIncrease
  <2>1. v \in 1..Len(hist[s]) /\ v + 1 \in 1..Len(hist[s]) /\ v < v + 1
    BY VersionType
  <2> QED
    BY <2>1 DEF SyncInv, HistoryCovers, Covers
<1> QED
  BY <1>1, SyncTypeCorrect, SyncInvCorrect, PTL

\* The replay check accepts what the server honestly holds.
THEOREM HonestCopiesAreAccepted ==
  ASSUME OneProcessEach, OneServer
  PROVE  SyncSpec => []HonestCopyNeverRefused
<1>1. ASSUME SyncTypeOK, SyncInv, NEW m \in Machines
      PROVE  /\ cfg[m].url \in Servers /\ cfg[m].ver \in Nat /\ RecordCovers(cfg[m], vault[m])
             /\ Len(hist[cfg[m].url]) \in Nat
  BY <1>1, MachineType, VersionType DEF SyncInv
<1>2. SyncTypeOK /\ SyncInv => HonestCopyNeverRefused
  <2> SUFFICES ASSUME SyncTypeOK, SyncInv, NEW m \in Machines, Len(hist[cfg[m].url]) > 0
               PROVE  ~IsReplay(m, RemoteBlob(cfg[m].url))
    BY DEF HonestCopyNeverRefused
  <2> DEFINE h == hist[cfg[m].url]  c == cfg[m]
  <2>1. Len(h) \in 1..Len(h) /\ RemoteBlob(c.url) = h[Len(h)] /\ h[Len(h)].gen \in Nat
    BY <1>1, VersionType DEF RemoteBlob
  <2>2. CASE c.gen = NoGen
    BY <2>1, <2>2 DEF IsReplay
  <2>3. CASE c.gen # NoGen
    <3>1. c.ver \in 1..Len(h) /\ c.gen = h[c.ver].gen
      BY <1>1, <2>3 DEF RecordCovers
    <3>2. CASE c.ver = Len(h)
      BY <2>1, <2>3, <3>1, <3>2 DEF IsReplay
    <3>3. CASE c.ver < Len(h)
      <4>1. h[c.ver].gen < h[Len(h)].gen /\ h[c.ver].gen \in Nat
        BY <1>1, <2>1, <3>1, <3>3, VersionType DEF SyncInv, HistoryCovers
      <4> QED
        BY <2>1, <2>3, <3>1, <4>1 DEF IsReplay
    <3> QED
      BY <3>1, <3>2, <3>3
  <2> QED
    BY <2>2, <2>3
<1> QED
  BY <1>2, SyncTypeCorrect, SyncInvCorrect, PTL

-----------------------------------------------------------------------------
(* What a step moves *)

ProcessStep(p) == Push(p) \/ Engine(p) \/ Pull(p) \/ Review(p) \/ Crash(p)

\* The shapes of a step in the operation of its process.
Rests(p) ==
    /\ op'[p].pc \in {"idle", "push", "status"}
    /\ op'[p].config \in {op[p].config, cfg[Home[p]], NeverSynced}
Asks(p) ==
    /\ WakeStatus(p)
    /\ op'[p].pc = "decide" /\ op'[p].config = op[p].config
    /\ op'[p].ver = RemoteVersion(op[p].config.url)
    /\ op'[p].blob = RemoteBlob(op[p].config.url)
Decides(p) ==
    /\ WakeDecide(p)
    /\ op[p].pc = "decide" /\ op'[p].pc \in {"pull", "push", "repair"}
    /\ op'[p].config = cfg[Home[p]] /\ op'[p].expect = vault[Home[p]]
    /\ op'[p].ver = op[p].ver /\ op'[p].blob = op[p].blob
    /\ op'[p].pc = "pull" => /\ op'[p].why = "wake" /\ op[p].config.sha # NoBlob
                             /\ vault[Home[p]] = op[p].config.sha
    /\ op'[p].pc = "repair" => op[p].ver # 0 /\ vault[Home[p]] = op[p].blob
Sends(p) ==
    /\ PushSnapshot(p)
    /\ op'[p].pc = "sent" /\ op'[p].blob = Stamped(Home[p]) /\ op'[p].config = op[p].config
Fetches(p) ==
    LET s == cfg[Home[p]].url IN
    /\ \/ /\ Download(p) /\ op'[p].pc = "install"
          /\ IF vault[Home[p]] = NoBlob THEN op'[p].why = "fresh"
             ELSE op[p].pc = "pull" /\ op'[p].why = op[p].why
       \/ PreviewDownload(p) /\ op'[p].pc = "preview"
    /\ RemoteVersion(s) > 0
    /\ op'[p].ver = RemoteVersion(s) /\ op'[p].blob = RemoteBlob(s)
    /\ op'[p].config = op[p].config /\ op'[p].expect = op[p].expect
Goes(p) ==
    /\ op'[p].ver = op[p].ver /\ op'[p].blob = op[p].blob /\ op'[p].config = op[p].config
    /\ \/ /\ PreviewHold(p) /\ op[p].pc = "preview" /\ op'[p].pc = "reviewing"
          /\ op'[p].shown = Dropped(vault[Home[p]], op[p].blob)
       \/ /\ ConfirmStart(p) /\ op[p].pc = "reviewing" /\ op'[p].pc = "held"
          /\ op'[p].expect = hold[Home[p]].local /\ op'[p].shown = op[p].shown
       \/ /\ InstallAuto(p) \/ InstallFresh(p) \/ InstallHeld(p)
          /\ op[p].pc \in {"install", "held"} /\ op'[p].pc = "installed"

LEMMA OperationMoves ==
  ASSUME SyncTypeOK, NEW p \in Procs, ProcessStep(p)
  PROVE  Rests(p) \/ Asks(p) \/ Decides(p) \/ Sends(p) \/ Fetches(p) \/ Goes(p)
<1>0. op \in [Procs -> Operation] /\ op[p] \in Operation /\ Home[p] \in Machines
  BY OperationType DEF SyncTypeOK
<1>1. ASSUME NEW o, Become(p, o) PROVE op'[p] = o
  BY <1>0, <1>1 DEF Become
<1>2. ASSUME Finish(p) PROVE Rests(p)
  BY <1>1, <1>2 DEF Finish, Rests, Idle
<1>3. CASE \/ PushNothing(p) \/ PushFails(p) \/ PushTimeout(p) \/ PushRecord(p)
           \/ RepairSave(p) \/ InstallRefused(p) \/ InstallRecord(p) \/ ReviewCancel(p)
           \/ ConfirmRefused(p) \/ HeldRefused(p) \/ Crash(p)
  BY <1>2, <1>3 DEF PushNothing, PushFails, PushTimeout, PushRecord, RepairSave,
     InstallRefused, InstallRecord, ReviewCancel, ConfirmRefused, HeldRefused, Crash
<1>4. CASE Debounced(p) \/ WakeStart(p)
  <2>1. op'[p] = [op[p] EXCEPT !.pc = "push", !.why = "wake"]
        \/ op'[p] = [op[p] EXCEPT !.pc = "status", !.why = "wake", !.config = cfg[Home[p]]]
    BY <1>1, <1>4 DEF Debounced, WakeStart
  <2> QED
    BY <1>0, <2>1 DEF Rests, Operation
<1>5. CASE PushRefused(p) \/ InstallMoved(p)
  <2>1. ASSUME NEW w, Become(p, [Idle EXCEPT !.pc = "status", !.why = w, !.config = cfg[Home[p]]])
        PROVE  Rests(p)
    <3>1. op'[p] = [Idle EXCEPT !.pc = "status", !.why = w, !.config = cfg[Home[p]]]
      BY <1>1, <2>1
    <3> QED
      BY <3>1 DEF Rests, Idle
  <2> QED
    BY <1>2, <1>5, <2>1 DEF PushRefused, InstallMoved
<1>6. CASE WakeStatus(p)
  BY <1>0, <1>1, <1>6 DEF WakeStatus, Asks, Operation
<1>7. CASE WakeDecide(p)
  <2> DEFINE b == vault[Home[p]]
             next == NextAfter(SyncStateOf(op[p].config, op[p].ver, op[p].blob, b), op[p].why)
             o == [op[p] EXCEPT !.pc = next, !.expect = b, !.config = cfg[Home[p]]]
  <2>1. CASE Finish(p)
    BY <1>2, <2>1
  <2>2. CASE ~Finish(p)
    <3>1. op'[p] = o /\ next # "idle" /\ op[p].pc = "decide"
      BY <1>1, <1>7, <2>2 DEF WakeDecide, At
    <3>2. /\ o.pc = next /\ o.ver = op[p].ver /\ o.blob = op[p].blob /\ o.expect = b
          /\ o.config = cfg[Home[p]] /\ o.why = op[p].why
      BY <1>0 DEF Operation
    <3>3. next \in {"pull", "push", "repair", "idle"}
      BY DEF NextAfter
    <3>4. next = "repair" => op[p].ver # 0 /\ b = op[p].blob
      BY DEF NextAfter, SyncStateOf
    <3>5. next = "pull" => b = op[p].config.sha /\ op[p].config.sha # NoBlob /\ op[p].why = "wake"
      BY DEF NextAfter, SyncStateOf
    <3> HIDE DEF o, next
    <3> QED
      BY <1>7, <3>1, <3>2, <3>3, <3>4, <3>5 DEF Decides
  <2> QED
    BY <2>1, <2>2
<1>8. CASE PushSnapshot(p)
  BY <1>0, <1>1, <1>8 DEF PushSnapshot, Sends, Operation
<1>9. CASE Download(p)
  BY <1>0, <1>1, <1>9 DEF Download, Fetches, Operation, At
<1>10. CASE PreviewDownload(p)
  BY <1>0, <1>1, <1>10 DEF PreviewDownload, Fetches, Operation
<1>11. CASE PreviewHold(p) \/ ConfirmStart(p)
  BY <1>0, <1>1, <1>11 DEF PreviewHold, ConfirmStart, Goes, Operation, At
<1>12. CASE InstallAuto(p) \/ InstallFresh(p) \/ InstallHeld(p)
  BY <1>0, <1>1, <1>12 DEF InstallAuto, InstallFresh, InstallHeld, Goto, Goes, Operation, At
<1> QED
  BY <1>3, <1>4, <1>5, <1>6, <1>7, <1>8, <1>9, <1>10, <1>11, <1>12
  DEF ProcessStep, Push, Engine, Pull, Review

\* A process moves its own machine only, and takes its lock or gives it up.
LEMMA ProcessMoves ==
  ASSUME SyncTypeOK, NEW p \in Procs, ProcessStep(p)
  PROVE  /\ hist' = hist /\ discarded \subseteq discarded'
         /\ \A q \in Procs \ {p} : op'[q] = op[q]
         /\ \A m \in Machines \ {Home[p]} :
              vault'[m] = vault[m] /\ cfg'[m] = cfg[m] /\ hold'[m] = hold[m]
              /\ syncLock'[m] = syncLock[m]
         /\ \/ syncLock'[Home[p]] = syncLock[Home[p]]
            \/ syncLock[Home[p]] = Nobody
            \/ syncLock[Home[p]] = p
<1>0. /\ Home[p] \in Machines /\ op \in [Procs -> Operation]
      /\ \A m \in Machines \ {Home[p]} : m # Home[p]
  BY OperationType DEF SyncTypeOK
<1>1. hist' = hist /\ discarded \subseteq discarded'
  BY DEF ProcessStep, Push, Engine, Pull, Review, Crash, Debounced, PushSnapshot, PushNothing,
     PushFails, PushTimeout, PushRecord, PushRefused, WakeStart, WakeStatus, WakeDecide,
     RepairSave, Download, InstallMoved, InstallRefused, InstallAuto, InstallFresh,
     InstallRecord, PreviewDownload, PreviewHold, ReviewCancel, ConfirmRefused, ConfirmStart,
     HeldRefused, InstallHeld, serverVars, ghosts
<1>2. \A q \in Procs \ {p} : op'[q] = op[q]
  <2>1. \E o : op' = [op EXCEPT ![p] = o]
    BY DEF ProcessStep, Push, Engine, Pull, Review, Crash, Debounced, PushSnapshot, PushNothing,
     PushFails, PushTimeout, PushRecord, PushRefused, WakeStart, WakeStatus, WakeDecide,
     RepairSave, Download, InstallMoved, InstallRefused, InstallAuto, InstallFresh,
     InstallRecord, PreviewDownload, PreviewHold, ReviewCancel, ConfirmRefused, ConfirmStart,
     HeldRefused, InstallHeld, Finish, Goto, Become
  <2> QED
    BY <1>0, <2>1
<1>3. ASSUME NEW m \in Machines \ {Home[p]} PROVE vault'[m] = vault[m]
  <2>1. vault' = vault \/ \E b : vault' = [vault EXCEPT ![Home[p]] = b]
    BY DEF ProcessStep, Push, Engine, Pull, Review, Crash, Debounced, PushSnapshot, PushNothing,
     PushFails, PushTimeout, PushRecord, PushRefused, WakeStart, WakeStatus, WakeDecide,
     RepairSave, Download, InstallMoved, InstallRefused, InstallAuto, InstallFresh,
     InstallRecord, PreviewDownload, PreviewHold, ReviewCancel, ConfirmRefused, ConfirmStart,
     HeldRefused, InstallHeld, Save, files
  <2> QED
    BY <1>0, <2>1 DEF SyncTypeOK
<1>4. ASSUME NEW m \in Machines \ {Home[p]} PROVE cfg'[m] = cfg[m]
  <2>1. cfg' = cfg \/ \E c : cfg' = [cfg EXCEPT ![Home[p]] = c]
    BY DEF ProcessStep, Push, Engine, Pull, Review, Crash, Debounced, PushSnapshot, PushNothing,
     PushFails, PushTimeout, PushRecord, PushRefused, WakeStart, WakeStatus, WakeDecide,
     RepairSave, Download, InstallMoved, InstallRefused, InstallAuto, InstallFresh,
     InstallRecord, PreviewDownload, PreviewHold, ReviewCancel, ConfirmRefused, ConfirmStart,
     HeldRefused, InstallHeld, Record, files
  <2> QED
    BY <1>0, <2>1 DEF SyncTypeOK
<1>5. ASSUME NEW m \in Machines \ {Home[p]} PROVE hold'[m] = hold[m]
  <2>1. hold' = hold \/ \E h : hold' = [hold EXCEPT ![Home[p]] = h]
    BY DEF ProcessStep, Push, Engine, Pull, Review, Crash, Debounced, PushSnapshot, PushNothing,
     PushFails, PushTimeout, PushRecord, PushRefused, WakeStart, WakeStatus, WakeDecide,
     RepairSave, Download, InstallMoved, InstallRefused, InstallAuto, InstallFresh,
     InstallRecord, PreviewDownload, PreviewHold, ReviewCancel, ConfirmRefused, ConfirmStart,
     HeldRefused, InstallHeld, files
  <2> QED
    BY <1>0, <2>1 DEF SyncTypeOK
<1>6. /\ \A m \in Machines \ {Home[p]} : syncLock'[m] = syncLock[m]
      /\ \/ syncLock'[Home[p]] = syncLock[Home[p]]
         \/ syncLock[Home[p]] = Nobody
         \/ syncLock[Home[p]] = p
  <2>1. syncLock' = syncLock \/ TakeLock(p) \/ DropLock(p)
    BY DEF ProcessStep, Push, Engine, Pull, Review, Crash, Debounced, PushSnapshot, PushNothing,
     PushFails, PushTimeout, PushRecord, PushRefused, WakeStart, WakeStatus, WakeDecide,
     RepairSave, Download, InstallMoved, InstallRefused, InstallAuto, InstallFresh,
     InstallRecord, PreviewDownload, PreviewHold, ReviewCancel, ConfirmRefused, ConfirmStart,
     HeldRefused, InstallHeld, files
  <2> QED
    BY <1>0, <2>1 DEF SyncTypeOK, TakeLock, DropLock
<1> QED
  BY <1>1, <1>2, <1>3, <1>4, <1>5, <1>6

\* sync.json is written by a push or pull that lands, or by a repair.
LEMMA ConfigMoves ==
  ASSUME NEW p \in Procs, ProcessStep(p)
  PROVE  cfg' = cfg \/ PushRecord(p) \/ RepairSave(p) \/ InstallRecord(p)
BY DEF ProcessStep, Push, Engine, Pull, Review, Crash, Debounced, PushSnapshot, PushNothing,
   PushFails, PushTimeout, PushRefused, WakeStart, WakeStatus, WakeDecide, Download,
   InstallMoved, InstallRefused, InstallAuto, InstallFresh, PreviewDownload, PreviewHold,
   ReviewCancel, ConfirmRefused, ConfirmStart, HeldRefused, InstallHeld, files

\* The file is written by a push's stamp, or put in place by a pull.
LEMMA VaultMoves ==
  ASSUME NEW p \in Procs, ProcessStep(p)
  PROVE  vault' = vault \/ PushSnapshot(p) \/ InstallAuto(p) \/ InstallFresh(p) \/ InstallHeld(p)
BY DEF ProcessStep, Push, Engine, Pull, Review, Crash, Debounced, PushNothing,
   PushFails, PushTimeout, PushRecord, PushRefused, WakeStart, WakeStatus, WakeDecide,
   RepairSave, Download, InstallMoved, InstallRefused, InstallRecord, PreviewDownload,
   PreviewHold, ReviewCancel, ConfirmRefused, ConfirmStart, HeldRefused, files

-----------------------------------------------------------------------------
(* Locks, answers and names: what holds on every instance *)

\* One push or pull of a machine at a time holds its sync lock.
Guarded == {"sent", "record", "conflict", "install", "preview", "held", "installed"}
LocksHeld == \A p \in Procs : op[p].pc \in Guarded => syncLock[Home[p]] = p

\* A live request belongs to the process that waits for its answer.
AnswersAwaited ==
    /\ \A r \in net : r.live => At(r.from, "sent") /\ op[r.from].blob = r.blob
    /\ \A r, q \in net : r.live /\ q.live /\ r.from = q.from => r = q

\* Bytes that are, or were, a server's copy; and null, which names none.
Pushed(b) == \E s \in Servers : \E v \in 1..Len(hist[s]) : b = hist[s][v]
Named(b) == b = NoBlob \/ Pushed(b)

\* What sync.json and a decision name was on a server, and an automatic pull
\* waits to replace such bytes only.
NamesHeld ==
    /\ \A m \in Machines : Named(cfg[m].sha)
    /\ \A p \in Procs :
         /\ Named(op[p].config.sha)
         /\ op[p].pc \in InHand \cup {"decide"} => Named(op[p].blob)
         /\ op[p].pc \in {"pull", "install"} /\ op[p].why = "wake" => Pushed(op[p].expect)
         /\ op[p].pc = "installed" => vault[Home[p]] = op[p].blob

ProcessInv == LocksHeld /\ AnswersAwaited /\ NamesHeld

\* A server's history is only appended to.
LEMMA HistoryGrows ==
  ASSUME SyncTypeOK, [SyncNext]_syncVars, NEW s \in Servers
  PROVE  /\ Len(hist[s]) \in Nat /\ Len(hist'[s]) \in Nat /\ Len(hist[s]) <= Len(hist'[s])
         /\ \A v \in 1..Len(hist[s]) : v \in 1..Len(hist'[s]) /\ hist'[s][v] = hist[s][v]
<1>0. hist[s] \in Seq(Blob) /\ Len(hist[s]) \in Nat
  BY DEF SyncTypeOK
<1>1. CASE hist' = hist
  BY <1>0, <1>1
<1>2. ASSUME NEW r \in net, hist' = [hist EXCEPT ![r.url] = Append(@, r.blob)]
      PROVE  /\ Len(hist'[s]) \in Nat /\ Len(hist[s]) <= Len(hist'[s])
             /\ \A v \in 1..Len(hist[s]) : v \in 1..Len(hist'[s]) /\ hist'[s][v] = hist[s][v]
  <2>1. r.url \in Servers /\ r.blob \in Blob
    BY DEF SyncTypeOK, Request
  <2>2. hist'[s] = hist[s] \/ hist'[s] = Append(hist[s], r.blob)
    BY <1>2, <2>1 DEF SyncTypeOK
  <2> QED
    BY <1>0, <2>1, <2>2
<1>3. hist' = hist \/ \E r \in net : hist' = [hist EXCEPT ![r.url] = Append(@, r.blob)]
  <2>1. ASSUME NEW p \in Procs, ProcessStep(p) PROVE hist' = hist
    BY <2>1, ProcessMoves
  <2> QED
    BY <2>1 DEF SyncNext, ProcessStep, Network, LoseRequest, Serve, LocalWrite, SetServer,
       serverVars, syncVars
<1> QED
  BY <1>0, <1>1, <1>2, <1>3

\* What was on a server stays there.
LEMMA PushedStays ==
  ASSUME SyncTypeOK, [SyncNext]_syncVars, NEW b
  PROVE  /\ Pushed(b) => Pushed(b)'
         /\ Named(b) => Named(b)'
BY HistoryGrows DEF Pushed, Named

LEMMA RemoteNamed ==
  ASSUME SyncTypeOK, NEW s \in Servers
  PROVE  Named(RemoteBlob(s))
<1>1. hist[s] \in Seq(Blob)
  BY DEF SyncTypeOK
<1>2. CASE hist[s] = <<>>
  BY <1>2 DEF RemoteBlob, Named
<1>3. CASE hist[s] # <<>>
  <2>1. Len(hist[s]) \in 1..Len(hist[s]) /\ RemoteBlob(s) = hist[s][Len(hist[s])]
    BY <1>1, <1>3 DEF RemoteBlob
  <2> QED
    BY <2>1 DEF Named, Pushed
<1> QED
  BY <1>2, <1>3

\* What the server does with a request: the answer moves its sender only.
LEMMA ServeMoves ==
  ASSUME SyncTypeOK, ProcessInv, NEW r \in net, NEW delivered \in BOOLEAN, Serve(r, delivered)
  PROVE  /\ r.from \in Procs /\ r.url \in Servers /\ r.blob \in Blob
         /\ net' = net \ {r}
         /\ UNCHANGED <<vault, cfg, hold, syncLock, written, discarded>>
         /\ \A q \in Procs \ {r.from} : op'[q] = op[q]
         /\ ~delivered => op' = op
         /\ delivered => /\ r.live /\ At(r.from, "sent") /\ op[r.from].blob = r.blob
                         /\ op'[r.from].pc \in {"record", "conflict"}
                         /\ op'[r.from].blob = r.blob
                         /\ op'[r.from].config = op[r.from].config
         /\ delivered /\ op'[r.from].pc = "record" =>
              Accepts(r) /\ op'[r.from].ver = RemoteVersion(r.url) + 1
         /\ hist' = IF Accepts(r) THEN [hist EXCEPT ![r.url] = Append(@, r.blob)] ELSE hist
<1>1. /\ r.from \in Procs /\ r.url \in Servers /\ r.blob \in Blob
      /\ op \in [Procs -> Operation] /\ op[r.from] \in Operation
  BY DEF SyncTypeOK, Request
<1>2. /\ net' = net \ {r} /\ UNCHANGED <<vault, cfg, hold, syncLock, written, discarded>>
      /\ hist' = IF Accepts(r) THEN [hist EXCEPT ![r.url] = Append(@, r.blob)] ELSE hist
      /\ ~delivered => op' = op
  BY DEF Serve, files, ghosts
<1>3. delivered => r.live /\ At(r.from, "sent") /\ op[r.from].blob = r.blob
  BY DEF Serve, ProcessInv, AnswersAwaited
<1>4. CASE ~delivered
  BY <1>1, <1>2, <1>4
<1>5. CASE delivered /\ Accepts(r)
  <2>1. op' = [op EXCEPT ![r.from] = [op[r.from] EXCEPT !.pc = "record", !.ver = RemoteVersion(r.url) + 1]]
    BY <1>5 DEF Serve, Become
  <2> QED
    BY <1>1, <1>2, <1>3, <1>5, <2>1 DEF Operation
<1>6. CASE delivered /\ ~Accepts(r)
  <2>1. op' = [op EXCEPT ![r.from] = [op[r.from] EXCEPT !.pc = "conflict"]]
    BY <1>6 DEF Serve, Goto, Become
  <2> QED
    BY <1>1, <1>2, <1>3, <1>6, <2>1 DEF Operation
<1> QED
  BY <1>4, <1>5, <1>6

-----------------------------------------------------------------------------
(* The locks, answers and names are kept *)

\* A process is guarded only by its own lock, taken free.
LEMMA LocksStayHeld ==
  ASSUME SyncTypeOK, ProcessInv, [SyncNext]_syncVars
  PROVE  LocksHeld'
<1> SUFFICES ASSUME NEW q \in Procs, op'[q].pc \in Guarded
             PROVE  syncLock'[Home[q]] = q
  BY DEF LocksHeld
<1>0. Home[q] \in Machines /\ q # Nobody
  BY OperationType, SyncAssumption
<1>1. CASE op'[q].pc \in Guarded /\ op[q] = op'[q] /\ syncLock' = syncLock
  BY <1>1 DEF ProcessInv, LocksHeld
<1>2. ASSUME NEW p \in Procs, ProcessStep(p), p # q
      PROVE  syncLock'[Home[q]] = q
  <2>1. op[q].pc \in Guarded /\ syncLock[Home[q]] = q
    BY <1>2, ProcessMoves DEF ProcessInv, LocksHeld
  <2> QED
    BY <1>0, <1>2, <2>1, ProcessMoves
<1>3. ASSUME ProcessStep(q)
      PROVE  syncLock'[Home[q]] = q
  <2>0. syncLock \in [Machines -> Procs \cup {Nobody}]
    BY DEF SyncTypeOK
  <2>1. CASE Rests(q) \/ Asks(q) \/ Decides(q)
    BY <2>1 DEF Rests, Asks, Decides, Guarded
  <2>2. CASE Sends(q) \/ Fetches(q)
    <3>1. PushSnapshot(q) \/ Download(q) \/ PreviewDownload(q)
      BY <2>2 DEF Sends, Fetches
    <3>2. TakeLock(q)
      BY <3>1 DEF PushSnapshot, Download, PreviewDownload
    <3> QED
      BY <1>0, <2>0, <3>2 DEF TakeLock
  <2>3. CASE Goes(q)
    <3>1. CASE PreviewHold(q)
      <4>1. op'[q].pc = "reviewing"
        BY <2>3, <3>1 DEF Goes, PreviewHold, ConfirmStart, InstallAuto, InstallFresh, InstallHeld, At
      <4> QED
        BY <4>1 DEF Guarded
    <3>2. CASE ConfirmStart(q)
      BY <1>0, <2>0, <3>2 DEF ConfirmStart, TakeLock
    <3>3. CASE InstallAuto(q) \/ InstallFresh(q) \/ InstallHeld(q)
      <4>1. syncLock' = syncLock /\ op[q].pc \in Guarded
        BY <3>3 DEF InstallAuto, InstallFresh, InstallHeld, At, Guarded
      <4> QED
        BY <4>1 DEF ProcessInv, LocksHeld
    <3> QED
      BY <2>3, <3>1, <3>2, <3>3 DEF Goes
  <2> QED
    BY <1>3, <2>1, <2>2, <2>3, OperationMoves
<1>4. ASSUME NEW r \in net, NEW delivered \in BOOLEAN, Serve(r, delivered)
      PROVE  syncLock'[Home[q]] = q
  <2>1. op[q].pc \in Guarded /\ syncLock' = syncLock
    BY <1>4, ServeMoves DEF At, Guarded
  <2> QED
    BY <2>1 DEF ProcessInv, LocksHeld
<1> QED
  <2>1. ASSUME op' = op, syncLock' = syncLock PROVE syncLock'[Home[q]] = q
    BY <1>1, <2>1
  <2> QED
    BY <1>2, <1>3, <1>4, <2>1 DEF SyncNext, ProcessStep, Network, LoseRequest, LocalWrite,
       SetServer, syncVars, files

\* A process that sends waits for that one answer; one that leaves has given
\* its request up.
LEMMA AnswersStayAwaited ==
  ASSUME SyncTypeOK, ProcessInv, [SyncNext]_syncVars
  PROVE  AnswersAwaited'
<1>0. ASSUME NEW r \in net PROVE r.from \in Procs
  BY DEF SyncTypeOK, Request
<1>a. /\ \A r \in net : r.live => At(r.from, "sent") /\ op[r.from].blob = r.blob
      /\ \A r, q \in net : r.live /\ q.live /\ r.from = q.from => r = q
  BY DEF ProcessInv, AnswersAwaited
<1>1. ASSUME op' = op, net' \subseteq net PROVE AnswersAwaited'
  BY <1>1, <1>a DEF AnswersAwaited, At
<1>2. ASSUME NEW p \in Procs, ProcessStep(p) PROVE AnswersAwaited'
  <2>0. \A q \in Procs \ {p} : op'[q] = op[q]
    BY <1>2, ProcessMoves
  <2>1. CASE PushSnapshot(p)
    <3> DEFINE x == [from |-> p, url |-> cfg[Home[p]].url, base |-> cfg[Home[p]].ver,
                     blob |-> Stamped(Home[p]), live |-> TRUE]
    <3>1. net' = net \cup {x} /\ op[p].pc # "sent"
      BY <2>1 DEF PushSnapshot
    <3>2. op'[p] = [op[p] EXCEPT !.pc = "sent", !.blob = Stamped(Home[p])] /\ op[p] \in Operation
      BY <2>1 DEF PushSnapshot, Become, SyncTypeOK
    <3>3. op'[p].pc = "sent" /\ op'[p].blob = Stamped(Home[p])
      BY <3>2 DEF Operation
    <3>4. x.from = p /\ x.blob = Stamped(Home[p]) /\ x.live
      OBVIOUS
    <3> HIDE DEF x
    <3>5. ASSUME NEW r \in net, r.live PROVE r.from # p
      BY <1>a, <3>1, <3>5 DEF At
    <3> QED
      BY <1>0, <1>a, <2>0, <3>1, <3>3, <3>4, <3>5 DEF AnswersAwaited, At
  <2>2. CASE PushTimeout(p) \/ Crash(p)
    <3>1. net' = (net \ Waiting(p)) \cup {[r EXCEPT !.live = FALSE] : r \in Waiting(p)}
      BY <2>2 DEF PushTimeout, Crash, GiveUp
    <3>2. ASSUME NEW r \in net', r.live PROVE r \in net /\ r.from # p
      <4>1. ASSUME NEW q \in net PROVE ~[q EXCEPT !.live = FALSE].live
        BY DEF SyncTypeOK, Request
      <4> QED
        BY <3>1, <3>2, <4>1 DEF Waiting
    <3> QED
      BY <1>0, <1>a, <2>0, <3>2 DEF AnswersAwaited, At
  <2>3. CASE ~PushSnapshot(p) /\ ~PushTimeout(p) /\ ~Crash(p)
    <3>1. net' = net /\ op[p].pc # "sent"
      BY <1>2, <2>3 DEF ProcessStep, Push, Engine, Pull, Review, Debounced, PushNothing,
         PushFails, PushRecord, PushRefused, WakeStart, WakeStatus, WakeDecide,
         RepairSave, Download, InstallMoved, InstallRefused, InstallAuto, InstallFresh,
         InstallRecord, PreviewDownload, PreviewHold, ReviewCancel, ConfirmRefused, ConfirmStart,
         HeldRefused, InstallHeld, At, serverVars
    <3>2. ASSUME NEW r \in net, r.live PROVE op'[r.from] = op[r.from]
      BY <1>0, <1>a, <2>0, <3>1, <3>2 DEF At
    <3> QED
      BY <1>a, <3>1, <3>2 DEF AnswersAwaited, At
  <2> QED
    BY <2>1, <2>2, <2>3
<1>3. ASSUME NEW r \in net, NEW delivered \in BOOLEAN, Serve(r, delivered) PROVE AnswersAwaited'
  <2>1. /\ net' = net \ {r} /\ (~delivered => op' = op)
        /\ \A q \in Procs \ {r.from} : op'[q] = op[q]
        /\ delivered => r.live
    BY <1>3, ServeMoves
  <2>2. ASSUME NEW q \in net', q.live PROVE op'[q.from] = op[q.from]
    BY <1>0, <1>a, <2>1, <2>2
  <2> QED
    BY <1>a, <2>1, <2>2 DEF AnswersAwaited, At
<1> QED
  BY <1>1, <1>2, <1>3 DEF SyncNext, ProcessStep, Network, LoseRequest, LocalWrite,
     SetServer, syncVars, files, serverVars

\* sync.json records what the server installed, or named in its answer.
LEMMA RecordOfStep ==
  ASSUME SyncTypeOK, NEW p \in Procs, PushRecord(p) \/ RepairSave(p) \/ InstallRecord(p)
  PROVE  LET c == cfg'[Home[p]] IN
         /\ c.url = (IF RepairSave(p) THEN op[p].config ELSE cfg[Home[p]]).url
         /\ c.ver = op[p].ver
         /\ PushRecord(p) \/ RepairSave(p) => c.sha = op[p].blob
         /\ PushRecord(p) => c.gen = op[p].blob.gen
         /\ RepairSave(p) => c.gen = vault[Home[p]].gen
         /\ InstallRecord(p) => /\ c.sha = vault[Home[p]]
                                /\ c.gen \in {NoGen, vault[Home[p]].gen}
         /\ op[p].pc = (IF PushRecord(p) THEN "record" ELSE
                        IF RepairSave(p) THEN "repair" ELSE "installed")
         /\ vault' = vault
<1>0. /\ Home[p] \in Machines /\ cfg \in [Machines -> Config] /\ cfg[Home[p]] \in Config
      /\ op[p].config \in Config
  BY OperationType, MachineType DEF SyncTypeOK
<1>1. CASE PushRecord(p)
  <2>1. cfg'[Home[p]] = [cfg[Home[p]] EXCEPT !.ver = op[p].ver, !.sha = op[p].blob,
                                             !.gen = op[p].blob.gen]
        /\ op[p].pc = "record" /\ vault' = vault
    BY <1>0, <1>1 DEF PushRecord, Record, At
  <2>2. ~RepairSave(p) /\ ~InstallRecord(p)
    BY <2>1 DEF RepairSave, InstallRecord, At
  <2> QED
    BY <1>0, <1>1, <2>1, <2>2 DEF Config
<1>2. CASE RepairSave(p)
  <2>1. cfg'[Home[p]] = [op[p].config EXCEPT !.ver = op[p].ver, !.sha = op[p].blob,
                                             !.gen = vault[Home[p]].gen]
        /\ op[p].pc = "repair" /\ vault' = vault
    BY <1>0, <1>2 DEF RepairSave, Record, At
  <2>2. ~PushRecord(p) /\ ~InstallRecord(p)
    BY <2>1 DEF PushRecord, InstallRecord, At
  <2> QED
    BY <1>0, <1>2, <2>1, <2>2 DEF Config
<1>3. CASE InstallRecord(p)
  <2>1. cfg'[Home[p]] = [cfg[Home[p]] EXCEPT !.ver = op[p].ver, !.sha = vault[Home[p]],
             !.gen = IF op[p].why = "fresh" THEN NoGen ELSE vault[Home[p]].gen]
        /\ op[p].pc = "installed" /\ vault' = vault
    BY <1>0, <1>3 DEF InstallRecord, Record, At
  <2>2. ~PushRecord(p) /\ ~RepairSave(p)
    BY <2>1 DEF PushRecord, RepairSave, At
  <2> QED
    BY <1>0, <1>3, <2>1, <2>2 DEF Config
<1> QED
  BY <1>1, <1>2, <1>3

\* A file in place is not touched until sync.json names it.
LEMMA InstalledStays ==
  ASSUME SyncTypeOK, ProcessInv, [SyncNext]_syncVars,
         NEW q \in Procs, At(q, "installed"), op'[q] = op[q]
  PROVE  vault'[Home[q]] = vault[Home[q]]
<1>0. Home[q] \in Machines /\ VaultLocked(Home[q]) /\ syncLock[Home[q]] = q /\ q # Nobody
  BY OperationType, SyncAssumption DEF VaultLocked, ProcessInv, LocksHeld, At, Guarded
<1>1. ASSUME NEW m \in Machines, NEW e \in Edits, LocalWrite(m, e)
      PROVE  vault'[Home[q]] = vault[Home[q]]
  <2>1. m # Home[q]
    BY <1>0, <1>1 DEF LocalWrite
  <2> QED
    BY <1>0, <1>1, <2>1 DEF LocalWrite, Save, SyncTypeOK
<1>2. ASSUME NEW p \in Procs, ProcessStep(p)
      PROVE  vault'[Home[q]] = vault[Home[q]]
  <2>1. CASE Home[p] # Home[q]
    BY <1>0, <1>2, <2>1, ProcessMoves
  <2>2. CASE Home[p] = Home[q] /\ PushSnapshot(p)
    BY <1>0, <2>2 DEF PushSnapshot
  <2>3. CASE Home[p] = Home[q] /\ (InstallAuto(p) \/ InstallFresh(p) \/ InstallHeld(p))
    <3>1. op[p].pc \in {"install", "held"}
      BY <2>3 DEF InstallAuto, InstallFresh, InstallHeld, At
    <3>2. syncLock[Home[p]] = p
      BY <3>1 DEF ProcessInv, LocksHeld, Guarded
    <3> QED
      BY <1>0, <2>3, <3>1, <3>2 DEF At
  <2> QED
    BY <1>2, <2>1, <2>2, <2>3, VaultMoves
<1> QED
  BY <1>1, <1>2 DEF SyncNext, ProcessStep, Network, LoseRequest, Serve, SetServer, syncVars, files

\* Nothing that names bytes is set to bytes no server held.
LEMMA NamesStayHeld ==
  ASSUME SyncTypeOK, ProcessInv, [SyncNext]_syncVars
  PROVE  NamesHeld'
<1> DEFINE Good(q) == /\ Named(op[q].config.sha)
                      /\ op[q].pc \in InHand \cup {"decide"} => Named(op[q].blob)
                      /\ op[q].pc \in {"pull", "install"} /\ op[q].why = "wake" => Pushed(op[q].expect)
<1>a. /\ \A m \in Machines : Named(cfg[m].sha)
      /\ \A p \in Procs : Good(p)
      /\ \A p \in Procs : op[p].pc = "installed" => vault[Home[p]] = op[p].blob
      /\ \A p \in Procs : op[p] \in Operation /\ Home[p] \in Machines
      /\ Named(NeverSynced.sha)
  BY OperationType DEF ProcessInv, NamesHeld, SyncTypeOK, Named, NeverSynced
<1>b. ASSUME NEW q \in Procs, Home[q] \in Machines,
             op'[q].pc = op[q].pc /\ op'[q].why = op[q].why /\ op'[q].blob = op[q].blob
             /\ op'[q].expect = op[q].expect /\ op'[q].config = op[q].config
      PROVE  Good(q)'
  <2>1. Good(q)
    BY <1>a
  <2> QED
    BY <1>b, <2>1, PushedStays
<1>1. ASSUME NEW m \in Machines PROVE Named(cfg[m].sha)'
  <2>1. CASE cfg'[m].sha = cfg[m].sha
    BY <1>a, <2>1, PushedStays
  <2>2. ASSUME NEW p \in Procs, ProcessStep(p) PROVE Named(cfg[m].sha)'
    <3>1. CASE m # Home[p] \/ cfg' = cfg
      BY <2>1, <2>2, <3>1, ProcessMoves
    <3>2. CASE m = Home[p] /\ (PushRecord(p) \/ RepairSave(p) \/ InstallRecord(p))
      <4>1. cfg'[m].sha = op[p].blob /\ op[p].pc \in InHand
        BY <1>a, <3>2, RecordOfStep DEF InHand
      <4> QED
        BY <1>a, <4>1, PushedStays
    <3> QED
      BY <2>2, <3>1, <3>2, ConfigMoves
  <2>3. ASSUME NEW n \in Machines, NEW s \in Servers, SetServer(n, s) PROVE cfg'[m].sha = cfg[m].sha
    <3>1. cfg' = [cfg EXCEPT ![n] = [cfg[n] EXCEPT !.url = s]] /\ cfg \in [Machines -> Config]
          /\ cfg[n] \in Config
      BY <2>3 DEF SetServer, Record, SyncTypeOK
    <3> QED
      BY <3>1 DEF Config
  <2> QED
    BY <2>1, <2>2, <2>3 DEF SyncNext, ProcessStep, Network, LoseRequest, Serve, LocalWrite,
       syncVars, files
<1>2. ASSUME NEW q \in Procs PROVE Good(q)'
  <2>1. CASE op'[q] = op[q]
    BY <1>a, <1>b, <2>1
  <2>2. CASE ProcessStep(q)
    <3>1. CASE Rests(q)
      <4>1. Named(op'[q].config.sha)
        BY <1>a, <3>1 DEF Rests
      <4> QED
        BY <3>1, <4>1, PushedStays DEF Rests, InHand
    <3>2. CASE Asks(q)
      <4>1. op[q].config.url \in Servers
        BY OperationType DEF Config
      <4>2. Named(op'[q].blob) /\ Named(op'[q].config.sha) /\ op'[q].pc = "decide"
        BY <1>a, <3>2, <4>1, RemoteNamed DEF Asks
      <4> QED
        BY <4>2, PushedStays
    <3>3. CASE Decides(q)
      <4>1. op[q].pc = "decide" /\ op'[q].pc \in {"pull", "push", "repair"} /\ op'[q].blob = op[q].blob
            /\ op'[q].config = cfg[Home[q]]
        BY <3>3 DEF Decides
      <4>2. Named(op'[q].blob) /\ Named(op'[q].config.sha)
        BY <1>a, <4>1
      <4>3. op'[q].pc = "pull" => Pushed(op'[q].expect)
        BY <1>a, <3>3 DEF Decides, Named
      <4>4. op'[q].pc # "install"
        BY <4>1
      <4> QED
        BY <4>2, <4>3, <4>4, PushedStays
    <3>4. CASE Sends(q)
      BY <1>a, <3>4, PushedStays DEF Sends, InHand
    <3>5. CASE Fetches(q)
      <4>1. cfg[Home[q]].url \in Servers
        BY <1>a, MachineType
      <4>2. Named(op'[q].blob) /\ Named(op'[q].config.sha)
        BY <1>a, <3>5, <4>1, RemoteNamed DEF Fetches
      <4>3. op'[q].pc # "pull" /\ op'[q].expect = op[q].expect
            /\ (op'[q].pc = "install" /\ op'[q].why = "wake" => op[q].pc = "pull" /\ op[q].why = "wake")
        BY <3>5 DEF Fetches
      <4> QED
        BY <1>a, <4>2, <4>3, PushedStays
    <3>6. CASE Goes(q)
      <4>1. op'[q].blob = op[q].blob /\ op'[q].config = op[q].config /\ op[q].pc \in InHand
            /\ op'[q].pc \notin {"pull", "install"}
        BY <3>6 DEF Goes, InHand
      <4> QED
        BY <1>a, <4>1, PushedStays
    <3> HIDE DEF Good
    <3> QED
      BY <2>2, <3>1, <3>2, <3>3, <3>4, <3>5, <3>6, OperationMoves
  <2>3. ASSUME NEW r \in net, NEW delivered \in BOOLEAN, Serve(r, delivered), delivered, q = r.from
        PROVE  Good(q)'
    <3>1. /\ op'[q].pc \in {"record", "conflict"} /\ op'[q].blob = r.blob
          /\ op'[q].config = op[q].config /\ r.url \in Servers
          /\ op'[q].pc = "record" => Accepts(r)
      BY <2>3, ServeMoves
    <3>2. op'[q].pc = "record" => Pushed(r.blob)'
      <4> SUFFICES ASSUME Accepts(r) PROVE Pushed(r.blob)'
        BY <3>1
      <4>1. hist'[r.url] = Append(hist[r.url], r.blob) /\ hist[r.url] \in Seq(Blob)
        BY <2>3, <3>1, ServeMoves DEF SyncTypeOK
      <4>2. Len(hist[r.url]) + 1 \in 1..Len(hist'[r.url])
            /\ hist'[r.url][Len(hist[r.url]) + 1] = r.blob
        BY <4>1
      <4> QED
        BY <3>1, <4>2 DEF Pushed
    <3> QED
      BY <1>a, <3>1, <3>2, PushedStays DEF InHand, Named
  <2> HIDE DEF Good
  <2>4. ASSUME NEW p \in Procs, ProcessStep(p) PROVE Good(q)'
    BY <2>1, <2>2, <2>4, ProcessMoves
  <2>5. ASSUME NEW r \in net, NEW delivered \in BOOLEAN, Serve(r, delivered) PROVE Good(q)'
    BY <2>1, <2>3, <2>5, ServeMoves
  <2> QED
    BY <2>1, <2>4, <2>5 DEF SyncNext, ProcessStep, Network, LoseRequest, LocalWrite,
       SetServer, syncVars, files
<1>3. ASSUME NEW q \in Procs, op'[q].pc = "installed" PROVE vault'[Home[q]] = op'[q].blob
  <2>1. CASE op'[q] = op[q]
    BY <1>a, <1>3, <2>1, InstalledStays DEF At
  <2>2. CASE ProcessStep(q)
    <3>1. CASE Goes(q)
      <4>1. InstallAuto(q) \/ InstallFresh(q) \/ InstallHeld(q)
        BY <1>3, <3>1 DEF Goes
      <4>2. vault' = [vault EXCEPT ![Home[q]] = op[q].blob] /\ op'[q].blob = op[q].blob
        BY <3>1, <4>1 DEF Goes, InstallAuto, InstallFresh, InstallHeld, Save
      <4> QED
        BY <1>a, <4>2 DEF SyncTypeOK
    <3>2. CASE Rests(q) \/ Asks(q) \/ Decides(q) \/ Sends(q) \/ Fetches(q)
      BY <1>3, <3>2 DEF Rests, Asks, Decides, Sends, Fetches
    <3> QED
      BY <2>2, <3>1, <3>2, OperationMoves
  <2>3. ASSUME NEW p \in Procs, ProcessStep(p) PROVE vault'[Home[q]] = op'[q].blob
    BY <2>1, <2>2, <2>3, ProcessMoves
  <2>4. ASSUME NEW r \in net, NEW delivered \in BOOLEAN, Serve(r, delivered)
        PROVE  vault'[Home[q]] = op'[q].blob
    BY <1>3, <2>1, <2>4, ServeMoves
  <2> QED
    BY <2>1, <2>3, <2>4 DEF SyncNext, ProcessStep, Network, LoseRequest, LocalWrite,
       SetServer, syncVars, files
<1> QED
  <2>1. \A q \in Procs : Good(q)'
    BY <1>2
  <2> QED
    BY <1>1, <1>3, <2>1 DEF NamesHeld

\* Sync locks, answers and names are sound on every instance.
LEMMA ProcessInvCorrect == SyncSpec => []ProcessInv
<1>1. SyncInit => ProcessInv
  BY DEF SyncInit, ProcessInv, LocksHeld, AnswersAwaited, NamesHeld, Named, Idle, NeverSynced,
     Guarded, InHand
<1>2. SyncTypeOK /\ ProcessInv /\ [SyncNext]_syncVars => ProcessInv'
  BY LocksStayHeld, AnswersStayAwaited, NamesStayHeld DEF ProcessInv
<1> QED
  BY <1>1, <1>2, SyncTypeCorrect, PTL DEF SyncSpec

\* An automatic pull replaces only bytes that a server holds or held, so each
\* of their edits, marks included, has left the machine: for any machines,
\* processes, servers and crashes.
THEOREM AutoPullsBuryNothing == SyncSpec => AutoPullBuriesNothing
<1>1. SyncTypeOK /\ ProcessInv /\ [SyncNext]_syncVars =>
        [\A p \in Procs : InstallAuto(p) =>
            \E s \in Servers : \E v \in 1..Len(hist[s]) :
               vault[Home[p]].edits \subseteq hist[s][v].edits]_syncVars
  <2> SUFFICES ASSUME ProcessInv, NEW p \in Procs, InstallAuto(p)
               PROVE  \E s \in Servers : \E v \in 1..Len(hist[s]) :
                         vault[Home[p]].edits \subseteq hist[s][v].edits
    OBVIOUS
  <2>1. vault[Home[p]] = op[p].expect /\ Pushed(op[p].expect)
    BY DEF InstallAuto, MovedSince, At, ProcessInv, NamesHeld
  <2> QED
    BY <2>1 DEF Pushed
<1> QED
  BY <1>1, SyncTypeCorrect, ProcessInvCorrect, PTL DEF SyncSpec, AutoPullBuriesNothing

-----------------------------------------------------------------------------
(* Several processes of a machine lose no update *)

\* Every edit of x but the marks is in y, or was given up.
Kept(x, y, gone) == x.edits \ Marks \subseteq y.edits \cup gone
Keeps(x, y) == Kept(x, y, discarded)

HistoryKeeps ==
    \A s \in Servers : \A u, v \in 1..Len(hist[s]) : u < v => Keeps(hist[s][u], hist[s][v])
RequestsKeep ==
    \A r \in net, s \in Servers :
        /\ r.base <= Len(hist[s])
        /\ r.base > 0 => Keeps(hist[s][r.base], r.blob)
RecordsKeep ==
    \A m \in Machines, s \in Servers :
        cfg[m].ver > 0 => /\ cfg[m].ver <= Len(hist[s])
                          /\ cfg[m].sha = hist[s][cfg[m].ver]
                          /\ Keeps(cfg[m].sha, vault[m])
OperationsKeep ==
    \A p \in Procs, s \in Servers :
        /\ op[p].pc \in {"sent", "record", "repair"} => Keeps(op[p].blob, vault[Home[p]])
        /\ op[p].pc \in InHand \/ (op[p].pc = "decide" /\ op[p].ver > 0) =>
             op[p].ver \in 1..Len(hist[s]) /\ op[p].blob = hist[s][op[p].ver]
FreshHasNothing ==
    \A p \in Procs :
        /\ op[p].pc = "pull" => op[p].why = "wake"
        /\ op[p].pc = "install" /\ op[p].why = "fresh" => vault[Home[p]] = NoBlob
KeepInv == HistoryKeeps /\ RequestsKeep /\ RecordsKeep /\ OperationsKeep /\ FreshHasNothing

LEMMA KeptBetween ==
  ASSUME NEW x, NEW y, NEW z, NEW d, NEW e, d \subseteq e, Kept(x, y, d), Kept(y, z, e)
  PROVE  Kept(x, z, e)
BY DEF Kept

LEMMA KeptSame ==
  ASSUME NEW x, NEW y, NEW d, x.edits \subseteq y.edits
  PROVE  Kept(x, y, d)
BY DEF Kept

\* A machine without a vault gets one from its first pull only.
LEMMA FreshStays ==
  ASSUME SyncTypeOK, ProcessInv, FreshHasNothing, [SyncNext]_syncVars
  PROVE  FreshHasNothing'
<1> SUFFICES ASSUME NEW q \in Procs
             PROVE  /\ op'[q].pc = "pull" => op'[q].why = "wake"
                    /\ op'[q].pc = "install" /\ op'[q].why = "fresh" => vault'[Home[q]] = NoBlob
  BY DEF FreshHasNothing
<1>0. Home[q] \in Machines /\ q # Nobody
  BY OperationType, SyncAssumption
<1>1. CASE op'[q] = op[q]
  <2> SUFFICES ASSUME op[q].pc = "install", op[q].why = "fresh"
               PROVE  vault'[Home[q]] = NoBlob
    BY <1>1 DEF FreshHasNothing
  <2>1. vault[Home[q]] = NoBlob /\ syncLock[Home[q]] = q
    BY DEF FreshHasNothing, ProcessInv, LocksHeld, Guarded
  <2>2. ASSUME NEW m \in Machines, NEW e \in Edits, LocalWrite(m, e)
        PROVE  vault'[Home[q]] = NoBlob
    <3>1. m # Home[q]
      BY <2>1, <2>2 DEF LocalWrite
    <3> QED
      BY <1>0, <2>1, <2>2, <3>1 DEF LocalWrite, Save, SyncTypeOK
  <2>3. ASSUME NEW p \in Procs, ProcessStep(p) PROVE vault'[Home[q]] = NoBlob
    <3>1. CASE Home[p] # Home[q] \/ vault' = vault
      BY <1>0, <2>1, <2>3, <3>1, ProcessMoves
    <3>2. CASE Home[p] = Home[q] /\ PushSnapshot(p)
      BY <2>1, <3>2 DEF PushSnapshot
    <3>3. CASE Home[p] = Home[q] /\ (InstallAuto(p) \/ InstallFresh(p) \/ InstallHeld(p))
      <4>1. op[p].pc \in {"install", "held"} /\ op'[p].pc = "installed"
        BY <3>3, OperationType DEF InstallAuto, InstallFresh, InstallHeld, At, Goto, Become,
           SyncTypeOK, Operation
      <4>2. p = q
        BY <2>1, <3>3, <4>1 DEF ProcessInv, LocksHeld, Guarded
      <4> QED
        BY <1>1, <4>1, <4>2
    <3> QED
      BY <2>3, <3>1, <3>2, <3>3, VaultMoves
  <2> QED
    BY <2>1, <2>2, <2>3 DEF SyncNext, ProcessStep, Network, LoseRequest, Serve, SetServer,
       syncVars, files
<1>2. CASE ProcessStep(q)
  <2>1. CASE Rests(q) \/ Asks(q) \/ Sends(q) \/ Goes(q)
    BY <2>1 DEF Rests, Asks, Sends, Goes
  <2>2. CASE Decides(q)
    BY <2>2 DEF Decides
  <2>3. CASE Fetches(q)
    <3>1. CASE Download(q)
      <4>1. vault' = vault /\ op'[q].pc # "pull"
        BY <2>3, <3>1 DEF Fetches, Download, files
      <4>2. CASE vault[Home[q]] = NoBlob
        BY <4>1, <4>2
      <4>3. CASE vault[Home[q]] # NoBlob
        <5>1. PreviewDownload(q) \/ (op[q].pc = "pull" /\ op'[q].why = op[q].why)
          BY <2>3, <4>3 DEF Fetches
        <5>2. ~PreviewDownload(q) \/ op'[q].pc = "preview"
          BY <2>3, <4>3 DEF Fetches, FreshHasNothing, Download, PreviewDownload, At
        <5> QED
          BY <4>1, <5>1, <5>2 DEF FreshHasNothing
      <4> QED
        BY <4>2, <4>3
    <3>2. CASE ~Download(q)
      BY <2>3, <3>2 DEF Fetches
    <3> QED
      BY <3>1, <3>2
  <2> QED
    BY <1>2, <2>1, <2>2, <2>3, OperationMoves
<1>3. ASSUME NEW p \in Procs, ProcessStep(p)
      PROVE  op'[q] = op[q] \/ ProcessStep(q)
  BY <1>3, ProcessMoves
<1>4. ASSUME NEW r \in net, NEW delivered \in BOOLEAN, Serve(r, delivered)
      PROVE  op'[q] = op[q] \/ op'[q].pc \in {"record", "conflict"}
  BY <1>4, ServeMoves
<1> QED
  BY <1>1, <1>2, <1>3, <1>4 DEF SyncNext, ProcessStep, Network, LoseRequest, LocalWrite,
     SetServer, syncVars, files

\* A vault keeps its edits at every step, but marks an automatic pull leaves
\* out and what a user gives up.
LEMMA VaultKeeps ==
  ASSUME SyncTypeOK, FreshHasNothing, [SyncNext]_syncVars, NEW m \in Machines
  PROVE  discarded \subseteq discarded' /\ Kept(vault[m], vault'[m], discarded')
<1>1. CASE vault'[m] = vault[m] /\ discarded' = discarded
  BY <1>1, KeptSame
<1>2. ASSUME NEW n \in Machines, NEW e \in Edits, LocalWrite(n, e)
      PROVE  discarded \subseteq discarded' /\ Kept(vault[m], vault'[m], discarded')
  <2>1. /\ vault' = [vault EXCEPT ![n] = [edits |-> vault[n].edits \cup {e}, gen |-> vault[n].gen, by |-> n]]
        /\ vault \in [Machines -> MaybeBlob] /\ discarded' = discarded
    BY <1>2 DEF LocalWrite, Save, SyncTypeOK
  <2>2. vault[m].edits \subseteq vault'[m].edits
    BY <2>1
  <2> QED
    BY <2>1, <2>2, KeptSame
<1>3. ASSUME NEW p \in Procs, ProcessStep(p)
      PROVE  discarded \subseteq discarded' /\ Kept(vault[m], vault'[m], discarded')
  <2>0. discarded \subseteq discarded' /\ vault \in [Machines -> MaybeBlob] /\ Home[p] \in Machines
    BY <1>3, ProcessMoves, OperationType DEF SyncTypeOK
  <2>1. CASE m # Home[p] \/ vault' = vault
    BY <1>3, <2>0, <2>1, ProcessMoves, KeptSame
  <2>2. CASE m = Home[p] /\ PushSnapshot(p)
    <3>1. vault'[m] = Stamped(m) /\ vault[m] # NoBlob
      BY <2>0, <2>2 DEF PushSnapshot, Save
    <3> QED
      BY <2>0, <3>1, StampedType, KeptSame
  <2>3. CASE m = Home[p] /\ InstallAuto(p)
    <3>1. vault'[m] = op[p].blob /\ Dropped(vault[m], op[p].blob) \subseteq Marks
      BY <2>0, <2>3 DEF InstallAuto, Save, WouldDrop
    <3> QED
      BY <2>0, <3>1 DEF Kept, Dropped
  <2>4. CASE m = Home[p] /\ InstallFresh(p)
    <3>1. vault[m] = NoBlob
      BY <2>4 DEF InstallFresh, At, FreshHasNothing
    <3> QED
      BY <2>0, <3>1 DEF Kept, NoBlob
  <2>5. CASE m = Home[p] /\ InstallHeld(p)
    <3>1. vault'[m] = op[p].blob /\ discarded' = discarded \cup Dropped(vault[m], op[p].blob)
      BY <2>0, <2>5 DEF InstallHeld, Save
    <3> QED
      BY <2>0, <3>1 DEF Kept, Dropped
  <2> QED
    BY <1>3, <2>1, <2>2, <2>3, <2>4, <2>5, VaultMoves
<1> QED
  BY <1>1, <1>2, <1>3 DEF SyncNext, ProcessStep, Network, LoseRequest, Serve, SetServer,
     syncVars, files, ghosts

\* A request is a new push's, or one that was already on its way.
LEMMA NetMoves ==
  ASSUME SyncTypeOK, [SyncNext]_syncVars, NEW r \in net'
  PROVE  \/ \E x \in net : x.base = r.base /\ x.blob = r.blob
         \/ \E p \in Procs : /\ PushSnapshot(p)
                             /\ r.base = cfg[Home[p]].ver /\ r.blob = Stamped(Home[p])
<1>1. CASE net' \subseteq net
  BY <1>1
<1>2. ASSUME NEW p \in Procs, GiveUp(p)
      PROVE  \E x \in net : x.base = r.base /\ x.blob = r.blob
  <2>1. ASSUME NEW x \in net
        PROVE  [x EXCEPT !.live = FALSE].base = x.base /\ [x EXCEPT !.live = FALSE].blob = x.blob
    BY DEF SyncTypeOK, Request
  <2>2. r \in net \/ \E x \in net : r = [x EXCEPT !.live = FALSE]
    BY <1>2 DEF GiveUp, Waiting
  <2> QED
    BY <2>1, <2>2
<1>3. ASSUME NEW p \in Procs, PushSnapshot(p)
      PROVE  r \in net \/ (r.base = cfg[Home[p]].ver /\ r.blob = Stamped(Home[p]))
  BY <1>3 DEF PushSnapshot
<1>4. ASSUME NEW p \in Procs, ProcessStep(p)
      PROVE  net' \subseteq net \/ GiveUp(p) \/ PushSnapshot(p)
  BY <1>4 DEF ProcessStep, Push, Engine, Pull, Review, Debounced, PushNothing,
     PushFails, PushTimeout, PushRecord, PushRefused, WakeStart, WakeStatus, WakeDecide,
     RepairSave, Download, InstallMoved, InstallRefused, InstallAuto, InstallFresh,
     InstallRecord, PreviewDownload, PreviewHold, ReviewCancel, ConfirmRefused, ConfirmStart,
     HeldRefused, InstallHeld, Crash, serverVars
<1> QED
  BY <1>1, <1>2, <1>3, <1>4 DEF SyncNext, ProcessStep, Network, LoseRequest, Serve, LocalWrite,
     SetServer, syncVars, files, serverVars

\* A push builds on the version its machine last recorded.
LEMMA RequestsStillKeep ==
  ASSUME OneServer, SyncTypeOK, ProcessInv, KeepInv, [SyncNext]_syncVars
  PROVE  RequestsKeep'
<1> SUFFICES ASSUME NEW r \in net', NEW s \in Servers
             PROVE  /\ r.base <= Len(hist'[s])
                    /\ r.base > 0 => Kept(hist'[s][r.base], r.blob, discarded')
  BY DEF RequestsKeep, Keeps
<1>0. discarded \subseteq discarded'
  <2>1. PICK m : m \in Machines
    BY SyncAssumption
  <2> QED
    BY <2>1, VaultKeeps DEF KeepInv
<1>1. /\ r.base \in Nat /\ r.base <= Len(hist[s])
      /\ r.base > 0 => Kept(hist[s][r.base], r.blob, discarded)
  <2>1. CASE \E x \in net : x.base = r.base /\ x.blob = r.blob
    BY <2>1 DEF KeepInv, RequestsKeep, Keeps, SyncTypeOK, Request
  <2>2. ASSUME NEW p \in Procs, PushSnapshot(p),
               r.base = cfg[Home[p]].ver, r.blob = Stamped(Home[p])
        PROVE  /\ r.base \in Nat /\ r.base <= Len(hist[s])
               /\ r.base > 0 => Kept(hist[s][r.base], r.blob, discarded)
    <3>1. Home[p] \in Machines /\ vault[Home[p]] # NoBlob
      BY <2>2, OperationType DEF PushSnapshot
    <3>2. r.blob.edits = vault[Home[p]].edits /\ r.base \in Nat
      BY <2>2, <3>1, StampedType, MachineType
    <3>3. Len(hist[s]) \in Nat
      BY HistoryGrows
    <3> QED
      BY <2>2, <3>1, <3>2, <3>3 DEF KeepInv, RecordsKeep, Keeps, Kept
  <2> QED
    BY <2>1, <2>2, NetMoves
<1>2. /\ Len(hist[s]) \in Nat /\ Len(hist'[s]) \in Nat /\ Len(hist[s]) <= Len(hist'[s])
      /\ \A v \in 1..Len(hist[s]) : hist'[s][v] = hist[s][v]
  BY HistoryGrows
<1>3. r.base > 0 => r.base \in 1..Len(hist[s])
  BY <1>1, <1>2
<1> QED
  BY <1>0, <1>1, <1>2, <1>3 DEF Kept

\* What the server installs keeps the version it replaces, so all before it.
LEMMA HistoryStillKeeps ==
  ASSUME OneServer, SyncTypeOK, ProcessInv, KeepInv, [SyncNext]_syncVars
  PROVE  HistoryKeeps'
<1> SUFFICES ASSUME NEW s \in Servers, NEW u \in 1..Len(hist'[s]), NEW v \in 1..Len(hist'[s]), u < v
             PROVE  Kept(hist'[s][u], hist'[s][v], discarded')
  BY DEF HistoryKeeps, Keeps
<1>0. discarded \subseteq discarded'
  <2>1. PICK m : m \in Machines
    BY SyncAssumption
  <2> QED
    BY <2>1, VaultKeeps DEF KeepInv
<1>1. CASE v \in 1..Len(hist[s])
  <2>1. /\ u \in 1..Len(hist[s]) /\ hist'[s][u] = hist[s][u] /\ hist'[s][v] = hist[s][v]
    BY <1>1, HistoryGrows
  <2>2. Kept(hist[s][u], hist[s][v], discarded)
    BY <1>1, <2>1 DEF KeepInv, HistoryKeeps, Keeps
  <2> QED
    BY <1>0, <2>1, <2>2 DEF Kept
<1>2. CASE hist' = hist
  BY <1>1, <1>2
<1>3. ASSUME NEW r \in net, Accepts(r), hist' = [hist EXCEPT ![r.url] = Append(@, r.blob)],
             v \notin 1..Len(hist[s])
      PROVE  Kept(hist'[s][u], hist'[s][v], discarded')
  <2>1. /\ r.url = s /\ hist[s] \in Seq(Blob) /\ r.base = Len(hist[s]) /\ r.blob \in Blob
    BY <1>3 DEF OneServer, SyncTypeOK, Request, Accepts, RemoteVersion
  <2>2. hist'[s] = Append(hist[s], r.blob)
    BY <1>3, <2>1 DEF SyncTypeOK
  <2>3. /\ v = Len(hist[s]) + 1 /\ hist'[s][v] = r.blob
        /\ u \in 1..Len(hist[s]) /\ hist'[s][u] = hist[s][u] /\ r.base \in 1..Len(hist[s])
    BY <1>3, <2>1, <2>2
  <2>4. Kept(hist[s][r.base], r.blob, discarded)
    BY <2>1, <2>3 DEF KeepInv, RequestsKeep, Keeps
  <2>5. Kept(hist[s][u], hist[s][r.base], discarded)
    <3>1. CASE u = r.base
      BY <3>1, KeptSame
    <3>2. CASE u < r.base
      BY <2>3, <3>2 DEF KeepInv, HistoryKeeps, Keeps
    <3> QED
      BY <2>1, <2>3, <3>1, <3>2
  <2> QED
    BY <1>0, <2>3, <2>4, <2>5 DEF Kept
<1>4. hist' = hist \/ \E r \in net : Accepts(r) /\ hist' = [hist EXCEPT ![r.url] = Append(@, r.blob)]
  <2>1. ASSUME NEW p \in Procs, ProcessStep(p) PROVE hist' = hist
    BY <2>1, ProcessMoves
  <2> QED
    BY <2>1 DEF SyncNext, ProcessStep, Network, LoseRequest, Serve, LocalWrite, SetServer,
       serverVars, syncVars
<1> QED
  BY <1>1, <1>2, <1>3, <1>4

\* A record is of a version in hand, and the file keeps what it names.
LEMMA RecordsStillKeep ==
  ASSUME OneServer, SyncTypeOK, ProcessInv, KeepInv, [SyncNext]_syncVars
  PROVE  RecordsKeep'
<1> SUFFICES ASSUME NEW m \in Machines, NEW s \in Servers, cfg'[m].ver > 0
             PROVE  /\ cfg'[m].ver <= Len(hist'[s])
                    /\ cfg'[m].sha = hist'[s][cfg'[m].ver]
                    /\ Kept(cfg'[m].sha, vault'[m], discarded')
  BY DEF RecordsKeep, Keeps
<1>0. /\ cfg[m].ver \in Nat /\ discarded \subseteq discarded'
      /\ Kept(vault[m], vault'[m], discarded')
      /\ Len(hist[s]) \in Nat /\ Len(hist'[s]) \in Nat /\ Len(hist[s]) <= Len(hist'[s])
      /\ \A v \in 1..Len(hist[s]) : hist'[s][v] = hist[s][v]
  BY MachineType, VaultKeeps, HistoryGrows DEF KeepInv
<1>a. ASSUME NEW v \in 1..Len(hist[s]), NEW b, b = hist[s][v], Kept(b, vault[m], discarded),
             cfg'[m].ver = v, cfg'[m].sha = b
      PROVE  /\ cfg'[m].ver <= Len(hist'[s])
             /\ cfg'[m].sha = hist'[s][cfg'[m].ver]
             /\ Kept(cfg'[m].sha, vault'[m], discarded')
  <2>1. Kept(b, vault'[m], discarded')
    BY <1>0, <1>a, KeptBetween
  <2> QED
    BY <1>0, <1>a, <2>1
<1>1. CASE cfg'[m].ver = cfg[m].ver /\ cfg'[m].sha = cfg[m].sha
  <2>1. cfg[m].ver \in 1..Len(hist[s]) /\ cfg[m].sha = hist[s][cfg[m].ver]
        /\ Kept(cfg[m].sha, vault[m], discarded)
    BY <1>0, <1>1 DEF KeepInv, RecordsKeep, Keeps
  <2> QED
    BY <1>1, <1>a, <2>1
<1>2. ASSUME NEW p \in Procs, Home[p] = m, PushRecord(p) \/ RepairSave(p) \/ InstallRecord(p)
      PROVE  /\ cfg'[m].ver <= Len(hist'[s])
             /\ cfg'[m].sha = hist'[s][cfg'[m].ver]
             /\ Kept(cfg'[m].sha, vault'[m], discarded')
  <2>1. /\ op[p].pc \in {"record", "repair", "installed"} /\ cfg'[m].ver = op[p].ver
        /\ PushRecord(p) \/ RepairSave(p) => cfg'[m].sha = op[p].blob /\ op[p].pc # "installed"
        /\ InstallRecord(p) => cfg'[m].sha = vault[m] /\ op[p].pc = "installed"
    BY <1>2, RecordOfStep DEF PushRecord, RepairSave, InstallRecord, At
  <2>2. op[p].ver \in 1..Len(hist[s]) /\ op[p].blob = hist[s][op[p].ver]
    BY <2>1 DEF KeepInv, OperationsKeep, InHand
  <2>3. op[p].pc = "installed" => vault[m] = op[p].blob
    BY <1>2 DEF ProcessInv, NamesHeld
  <2>4. cfg'[m].sha = op[p].blob
    BY <1>2, <2>1, <2>3
  <2>5. Kept(op[p].blob, vault[m], discarded)
    <3>1. CASE op[p].pc = "installed"
      BY <2>3, <3>1, KeptSame
    <3>2. CASE op[p].pc # "installed"
      BY <1>2, <2>1, <3>2 DEF KeepInv, OperationsKeep, Keeps
    <3> QED
      BY <3>1, <3>2
  <2> QED
    BY <1>a, <2>1, <2>2, <2>4, <2>5
<1>3. ASSUME NEW p \in Procs, ProcessStep(p)
      PROVE  \/ cfg'[m] = cfg[m]
             \/ Home[p] = m /\ (PushRecord(p) \/ RepairSave(p) \/ InstallRecord(p))
  BY <1>3, ProcessMoves, ConfigMoves
<1>4. ASSUME NEW n \in Machines, NEW t \in Servers, SetServer(n, t) PROVE FALSE
  BY <1>4, MachineType DEF SetServer, OneServer
<1> QED
  BY <1>1, <1>2, <1>3, <1>4 DEF SyncNext, ProcessStep, Network, LoseRequest, Serve, LocalWrite,
     syncVars, files

\* What an operation has in hand is a version, and the file keeps what it
\* will record.
LEMMA OperationsStillKeep ==
  ASSUME OneServer, SyncTypeOK, ProcessInv, KeepInv, [SyncNext]_syncVars
  PROVE  OperationsKeep'
<1> SUFFICES ASSUME NEW q \in Procs, NEW s \in Servers
             PROVE  /\ op'[q].pc \in {"sent", "record", "repair"} =>
                         Kept(op'[q].blob, vault'[Home[q]], discarded')
                    /\ op'[q].pc \in InHand \/ (op'[q].pc = "decide" /\ op'[q].ver > 0) =>
                         op'[q].ver \in 1..Len(hist'[s]) /\ op'[q].blob = hist'[s][op'[q].ver]
  BY DEF OperationsKeep, Keeps
<1> DEFINE m == Home[q]
           File == op'[q].pc \in {"sent", "record", "repair"} =>
                      Kept(op'[q].blob, vault'[m], discarded')
           Hand == op'[q].pc \in InHand \/ (op'[q].pc = "decide" /\ op'[q].ver > 0) =>
                      op'[q].ver \in 1..Len(hist'[s]) /\ op'[q].blob = hist'[s][op'[q].ver]
<1>0. /\ m \in Machines /\ op[q] \in Operation /\ op[q].ver \in Nat /\ discarded \subseteq discarded'
      /\ Kept(vault[m], vault'[m], discarded')
      /\ Len(hist[s]) \in Nat /\ Len(hist'[s]) \in Nat /\ Len(hist[s]) <= Len(hist'[s])
      /\ \A v \in 1..Len(hist[s]) : v \in 1..Len(hist'[s]) /\ hist'[s][v] = hist[s][v]
      /\ hist[s] \in Seq(Blob)
  BY OperationType, VaultKeeps, HistoryGrows DEF KeepInv, SyncTypeOK
<1>a. /\ op[q].pc \in {"sent", "record", "repair"} => Kept(op[q].blob, vault[m], discarded)
      /\ op[q].pc \in InHand \/ (op[q].pc = "decide" /\ op[q].ver > 0) =>
            op[q].ver \in 1..Len(hist[s]) /\ op[q].blob = hist[s][op[q].ver]
  BY DEF KeepInv, OperationsKeep, Keeps
<1>b. ASSUME NEW b, Kept(b, vault[m], discarded) PROVE Kept(b, vault'[m], discarded')
  BY <1>0, <1>b, KeptBetween
<1>1. ASSUME op'[q] = op[q] PROVE File /\ Hand
  BY <1>0, <1>1, <1>a, <1>b
<1>2. ASSUME ProcessStep(q) PROVE File /\ Hand
  <2>0. hist' = hist
    BY <1>2, ProcessMoves
  <2>1. CASE Rests(q)
    BY <2>1 DEF Rests, InHand
  <2>2. CASE Asks(q)
    <3>1. op[q].config.url = s
      BY OperationType DEF OneServer, Config
    <3>2. op'[q].pc = "decide" /\ op'[q].ver = Len(hist[s])
          /\ op'[q].blob = IF hist[s] = <<>> THEN NoBlob ELSE hist[s][Len(hist[s])]
      BY <2>2, <3>1 DEF Asks, RemoteVersion, RemoteBlob
    <3> QED
      BY <1>0, <2>0, <3>2 DEF InHand
  <2>3. CASE Decides(q)
    <3>1. /\ op[q].pc = "decide" /\ op'[q].pc \in {"pull", "push", "repair"}
          /\ op'[q].ver = op[q].ver /\ op'[q].blob = op[q].blob
          /\ op'[q].pc = "repair" => op[q].ver # 0 /\ vault[m] = op[q].blob
      BY <2>3 DEF Decides
    <3>2. op'[q].pc = "repair" => Kept(op[q].blob, vault[m], discarded)
      BY <3>1, KeptSame
    <3>3. op'[q].pc = "repair" => op[q].ver > 0
      BY <1>0, <3>1
    <3> QED
      BY <1>0, <1>a, <1>b, <3>1, <3>2, <3>3 DEF InHand
  <2>4. CASE Sends(q)
    <3>1. op'[q].pc = "sent" /\ op'[q].blob = vault'[m]
      <4>1. vault'[m] = Stamped(m)
        BY <1>0, <2>4 DEF Sends, PushSnapshot, Save, SyncTypeOK
      <4> QED
        BY <2>4, <4>1 DEF Sends
    <3> QED
      BY <3>1, KeptSame DEF InHand
  <2>5. CASE Fetches(q)
    <3>1. cfg[m].url = s
      BY <1>0, MachineType DEF OneServer
    <3>2. /\ op'[q].pc \in {"install", "preview"} /\ Len(hist[s]) > 0
          /\ op'[q].ver = Len(hist[s])
          /\ op'[q].blob = IF hist[s] = <<>> THEN NoBlob ELSE hist[s][Len(hist[s])]
      BY <2>5, <3>1 DEF Fetches, RemoteVersion, RemoteBlob
    <3> QED
      BY <1>0, <2>0, <3>2
  <2>6. CASE Goes(q)
    <3>1. /\ op'[q].ver = op[q].ver /\ op'[q].blob = op[q].blob /\ op[q].pc \in InHand
          /\ op'[q].pc \in {"reviewing", "held", "installed"}
      BY <2>6 DEF Goes, InHand
    <3> QED
      BY <1>0, <1>a, <3>1
  <2> QED
    BY <1>2, <2>1, <2>2, <2>3, <2>4, <2>5, <2>6, OperationMoves
<1>3. ASSUME NEW r \in net, NEW delivered \in BOOLEAN, Serve(r, delivered), delivered, q = r.from
      PROVE  File /\ Hand
  <2>1. /\ At(q, "sent") /\ op[q].blob = r.blob /\ op'[q].pc \in {"record", "conflict"}
        /\ op'[q].blob = r.blob
        /\ op'[q].pc = "record" => Accepts(r) /\ op'[q].ver = RemoteVersion(r.url) + 1
        /\ r.url \in Servers
    BY <1>3, ServeMoves
  <2>2. r.url = s
    BY <2>1 DEF OneServer
  <2>3. File
    BY <1>a, <1>b, <2>1 DEF At
  <2>4. Accepts(r) => hist'[s] = Append(hist[s], r.blob)
    BY <1>3, <2>1, <2>2, ServeMoves DEF SyncTypeOK
  <2>5. Hand
    BY <1>0, <2>1, <2>2, <2>4 DEF InHand, RemoteVersion
  <2> QED
    BY <2>3, <2>5
<1> HIDE DEF File, Hand
<1>4. ASSUME NEW p \in Procs, ProcessStep(p) PROVE op'[q] = op[q] \/ ProcessStep(q)
  BY <1>4, ProcessMoves
<1>5. ASSUME NEW r \in net, NEW delivered \in BOOLEAN, Serve(r, delivered)
      PROVE  op'[q] = op[q] \/ (delivered /\ q = r.from)
  BY <1>5, ServeMoves
<1>6. File /\ Hand
  BY <1>1, <1>2, <1>3, <1>4, <1>5 DEF SyncNext, ProcessStep, Network, LoseRequest, LocalWrite,
     SetServer, syncVars, files
<1> QED
  BY <1>6 DEF File, Hand

\* The inductive invariant of one server and any number of processes.
LEMMA KeepInvCorrect ==
  ASSUME OneServer
  PROVE  SyncSpec => []KeepInv
<1>1. SyncInit => KeepInv
  <2> SUFFICES ASSUME SyncInit PROVE KeepInv
    OBVIOUS
  <2>1. HistoryKeeps /\ RequestsKeep /\ RecordsKeep
    BY DEF SyncInit, HistoryKeeps, RequestsKeep, RecordsKeep, NeverSynced
  <2>2. \A p \in Procs : op[p].pc = "idle"
    BY DEF SyncInit, Idle
  <2> QED
    BY <2>1, <2>2 DEF KeepInv, OperationsKeep, FreshHasNothing, InHand
<1>2. SyncTypeOK /\ ProcessInv /\ KeepInv /\ [SyncNext]_syncVars => KeepInv'
  BY HistoryStillKeeps, RequestsStillKeep, RecordsStillKeep, OperationsStillKeep, FreshStays
  DEF KeepInv
<1> QED
  BY <1>1, <1>2, SyncTypeCorrect, ProcessInvCorrect, PTL DEF SyncSpec

\* sync.json describes one moment: however many processes of a machine push,
\* pull, repair and die at once, the recorded hash is the bytes the server
\* held at the recorded version.
THEOREM BaselinesNameOneVersion ==
  ASSUME OneServer
  PROVE  SyncSpec => []BaselineNamesOneVersion
<1>1. SyncTypeOK /\ KeepInv => BaselineNamesOneVersion
  BY MachineType DEF KeepInv, RecordsKeep, BaselineNamesOneVersion
<1> QED
  BY <1>1, SyncTypeCorrect, KeepInvCorrect, PTL

\* No version of the server loses an edit but a scope mark, whatever the
\* processes of its machines do at once.
NoEditLost ==
    \A s \in Servers : \A v \in 1..(Len(hist[s]) - 1) :
        hist[s][v].edits \ Marks \subseteq hist[s][v + 1].edits \cup discarded

\* Two processes of one machine, a confirmed pull of one between any steps of
\* the other, lost answers and deaths: no edit of a version is lost by the
\* next, and with no marks among the edits that is NoLostUpdate.
THEOREM ProcessesLoseNoUpdate ==
  ASSUME OneServer
  PROVE  SyncSpec => [](NoEditLost /\ (Marks = {} => NoLostUpdate))
<1>1. SyncTypeOK /\ KeepInv => NoEditLost
  <2> SUFFICES ASSUME SyncTypeOK, KeepInv, NEW s \in Servers, NEW v \in 1..(Len(hist[s]) - 1)
               PROVE  hist[s][v].edits \ Marks \subseteq hist[s][v + 1].edits \cup discarded
    BY DEF NoEditLost
  <2>1. v \in 1..Len(hist[s]) /\ v + 1 \in 1..Len(hist[s]) /\ v < v + 1
    BY VersionType
  <2> QED
    BY <2>1 DEF KeepInv, HistoryKeeps, Keeps, Kept
<1>2. NoEditLost /\ Marks = {} => NoLostUpdate
  BY DEF NoEditLost, NoLostUpdate
<1> QED
  BY <1>1, <1>2, SyncTypeCorrect, KeepInvCorrect, PTL

-----------------------------------------------------------------------------
(* What sync.json records and what a review shows *)

StampInv ==
    /\ RecordedGenerationIsOfRecordedBytes
    /\ \A p \in Procs : At(p, "repair") => vault[Home[p]].gen = op[p].blob.gen

OneReviewerEach == \A p, q \in Reviewers : Home[p] = Home[q] => p = q
ReviewInv ==
    \A p \in Procs :
        /\ op[p].pc \in {"preview", "reviewing", "held"} => p \in Reviewers
        /\ At(p, "reviewing") =>
             Dropped(hold[Home[p]].local, hold[Home[p]].blob) \subseteq op[p].shown
        /\ At(p, "held") => Dropped(op[p].expect, op[p].blob) \subseteq op[p].shown

\* An answer moves the process that waits for it to its next step.
LEMMA AnswerMoves ==
  ASSUME SyncTypeOK, NEW r \in net, NEW delivered \in BOOLEAN, Serve(r, delivered), NEW q \in Procs
  PROVE  op'[q] = op[q] \/ op'[q].pc \in {"record", "conflict"}
<1>1. op \in [Procs -> Operation] /\ r.from \in Procs /\ op[r.from] \in Operation
  BY DEF SyncTypeOK, Request
<1>2. CASE ~delivered
  BY <1>2 DEF Serve
<1>3. CASE delivered /\ Accepts(r)
  <2>1. op' = [op EXCEPT ![r.from] = [op[r.from] EXCEPT !.pc = "record", !.ver = RemoteVersion(r.url) + 1]]
    BY <1>3 DEF Serve, Become
  <2> QED
    BY <1>1, <2>1 DEF Operation
<1>4. CASE delivered /\ ~Accepts(r)
  <2>1. op' = [op EXCEPT ![r.from] = [op[r.from] EXCEPT !.pc = "conflict"]]
    BY <1>4 DEF Serve, Goto, Become
  <2> QED
    BY <1>1, <2>1 DEF Operation
<1> QED
  BY <1>2, <1>3, <1>4

\* A repair reads the stamp from the file it compared: nothing restamps it in
\* between when no other process of the machine syncs.
LEMMA StampsStay ==
  ASSUME OneProcessEach, SyncTypeOK, StampInv, [SyncNext]_syncVars
  PROVE  StampInv'
<1>1. ASSUME NEW m \in Machines, cfg'[m].sha # NoBlob, cfg'[m].gen # NoGen
      PROVE  cfg'[m].gen = cfg'[m].sha.gen
  <2>1. CASE cfg'[m].sha = cfg[m].sha /\ cfg'[m].gen = cfg[m].gen
    BY <1>1, <2>1 DEF StampInv, RecordedGenerationIsOfRecordedBytes
  <2>2. ASSUME NEW p \in Procs, Home[p] = m, PushRecord(p) \/ RepairSave(p) \/ InstallRecord(p)
        PROVE  cfg'[m].gen = cfg'[m].sha.gen
    <3>1. CASE PushRecord(p)
      BY <2>2, <3>1, RecordOfStep
    <3>2. CASE RepairSave(p)
      <4>1. vault[m].gen = op[p].blob.gen
        BY <2>2, <3>2 DEF RepairSave, StampInv
      <4> QED
        BY <2>2, <3>2, <4>1, RecordOfStep
    <3>3. CASE InstallRecord(p)
      BY <1>1, <2>2, <3>3, RecordOfStep
    <3> QED
      BY <2>2, <3>1, <3>2, <3>3
  <2>3. ASSUME NEW p \in Procs, ProcessStep(p)
        PROVE  \/ cfg'[m] = cfg[m]
               \/ Home[p] = m /\ (PushRecord(p) \/ RepairSave(p) \/ InstallRecord(p))
    BY <2>3, ProcessMoves, ConfigMoves
  <2>4. ASSUME NEW n \in Machines, NEW s \in Servers, SetServer(n, s)
        PROVE  cfg'[m].sha = cfg[m].sha /\ cfg'[m].gen = cfg[m].gen
    <3>1. cfg' = [cfg EXCEPT ![n] = [cfg[n] EXCEPT !.url = s]] /\ cfg \in [Machines -> Config]
          /\ cfg[n] \in Config
      BY <2>4 DEF SetServer, Record, SyncTypeOK
    <3> QED
      BY <3>1 DEF Config
  <2> QED
    BY <2>1, <2>2, <2>3, <2>4 DEF SyncNext, ProcessStep, Network, LoseRequest, Serve, LocalWrite,
       syncVars, files
<1>2. ASSUME NEW q \in Procs, op'[q].pc = "repair"
      PROVE  vault'[Home[q]].gen = op'[q].blob.gen
  <2>0. Home[q] \in Machines
    BY OperationType
  <2>1. CASE op'[q] = op[q] /\ vault'[Home[q]].gen = vault[Home[q]].gen
    BY <1>2, <2>1 DEF StampInv, At
  <2>2. CASE ProcessStep(q)
    <3>1. CASE Decides(q)
      <4>1. vault' = vault
        BY <3>1 DEF Decides, WakeDecide, files
      <4> QED
        BY <1>2, <3>1, <4>1 DEF Decides
    <3>2. CASE Rests(q) \/ Asks(q) \/ Sends(q) \/ Fetches(q) \/ Goes(q)
      BY <1>2, <3>2 DEF Rests, Asks, Sends, Fetches, Goes
    <3> QED
      BY <2>2, <3>1, <3>2, OperationMoves
  <2>3. ASSUME NEW p \in Procs, ProcessStep(p)
        PROVE  ProcessStep(q) \/ (op'[q] = op[q] /\ vault'[Home[q]] = vault[Home[q]])
    <3>1. CASE p = q
      BY <2>3, <3>1
    <3>2. CASE p # q
      <4>1. Home[q] \in Machines \ {Home[p]}
        BY <2>0, <3>2 DEF OneProcessEach
      <4> QED
        BY <2>3, <3>2, <4>1, ProcessMoves
    <3> QED
      BY <3>1, <3>2
  <2>4. ASSUME NEW m \in Machines, NEW e \in Edits, LocalWrite(m, e)
        PROVE  op' = op /\ vault'[Home[q]].gen = vault[Home[q]].gen
    BY <2>0, <2>4 DEF LocalWrite, Save, SyncTypeOK
  <2>5. ASSUME NEW r \in net, NEW delivered \in BOOLEAN, Serve(r, delivered)
        PROVE  op'[q] = op[q] /\ vault' = vault
    BY <1>2, <2>5, AnswerMoves DEF Serve, files
  <2> QED
    BY <2>1, <2>2, <2>3, <2>4, <2>5 DEF SyncNext, ProcessStep, Network, LoseRequest, SetServer,
       syncVars, files
<1> QED
  BY <1>1, <1>2 DEF StampInv, RecordedGenerationIsOfRecordedBytes, At

\* What sync.json records of a copy is true of that copy, at any number of
\* servers: lastGeneration is the stamp sealed in the bytes lastSha names.
THEOREM RecordedStampsAreTrue ==
  ASSUME OneProcessEach
  PROVE  SyncSpec => []RecordedGenerationIsOfRecordedBytes
<1>1. SyncInit => StampInv
  <2> SUFFICES ASSUME SyncInit PROVE StampInv
    OBVIOUS
  <2>1. \A p \in Procs : op[p].pc = "idle"
    BY DEF SyncInit, Idle
  <2> QED
    BY <2>1 DEF SyncInit, StampInv, RecordedGenerationIsOfRecordedBytes, NeverSynced, At
<1>2. SyncTypeOK /\ StampInv /\ [SyncNext]_syncVars => StampInv'
  BY StampsStay
<1>3. StampInv => RecordedGenerationIsOfRecordedBytes
  BY DEF StampInv
<1> QED
  BY <1>1, <1>2, <1>3, SyncTypeCorrect, PTL DEF SyncSpec

\* The hold a reviewer confirms is the one its report was made from.
LEMMA ReviewsStay ==
  ASSUME OneReviewerEach, SyncTypeOK, ReviewInv, [SyncNext]_syncVars
  PROVE  ReviewInv'
<1> SUFFICES ASSUME NEW q \in Procs
             PROVE  /\ op'[q].pc \in {"preview", "reviewing", "held"} => q \in Reviewers
                    /\ op'[q].pc = "reviewing" =>
                         Dropped(hold'[Home[q]].local, hold'[Home[q]].blob) \subseteq op'[q].shown
                    /\ op'[q].pc = "held" => Dropped(op'[q].expect, op'[q].blob) \subseteq op'[q].shown
  BY DEF ReviewInv, At, Dropped
<1>0. Home[q] \in Machines /\ op[q] \in Operation /\ hold \in [Machines -> Hold]
  BY OperationType DEF SyncTypeOK
<1>a. /\ op[q].pc \in {"preview", "reviewing", "held"} => q \in Reviewers
      /\ op[q].pc = "reviewing" =>
            Dropped(hold[Home[q]].local, hold[Home[q]].blob) \subseteq op[q].shown
      /\ op[q].pc = "held" => Dropped(op[q].expect, op[q].blob) \subseteq op[q].shown
  BY DEF ReviewInv, At
<1>1. CASE op'[q] = op[q] /\ (hold'[Home[q]] = hold[Home[q]] \/ hold'[Home[q]] = NoHold)
  BY <1>1, <1>a DEF Dropped, NoHold, NoBlob
<1>2. CASE op'[q] = op[q] /\ q \notin Reviewers
  BY <1>2, <1>a
<1>3. CASE ProcessStep(q)
  <2>1. CASE Rests(q) \/ Asks(q) \/ Decides(q) \/ Sends(q)
    BY <2>1 DEF Rests, Asks, Decides, Sends
  <2>2. CASE Fetches(q)
    BY <2>2 DEF Fetches, PreviewDownload
  <2>3. CASE Goes(q)
    <3>1. CASE PreviewHold(q)
      <4>1. /\ op[q].pc = "preview" /\ op'[q].pc = "reviewing"
            /\ op'[q].shown = Dropped(vault[Home[q]], op[q].blob)
        BY <2>3, <3>1 DEF Goes, PreviewHold, ConfirmStart, InstallAuto, InstallFresh, InstallHeld, At
      <4>2. hold'[Home[q]] = [ver |-> op[q].ver, blob |-> op[q].blob, local |-> vault[Home[q]]]
        BY <1>0, <3>1 DEF PreviewHold
      <4> QED
        BY <1>a, <4>1, <4>2
    <3>2. CASE ConfirmStart(q)
      <4>1. /\ op[q].pc = "reviewing" /\ op'[q].pc = "held" /\ op'[q].blob = op[q].blob
            /\ op'[q].expect = hold[Home[q]].local /\ op'[q].shown = op[q].shown
        BY <2>3, <3>2 DEF Goes, PreviewHold, ConfirmStart, InstallAuto, InstallFresh, InstallHeld, At
      <4>2. hold[Home[q]].blob = op[q].blob
        BY <3>2 DEF ConfirmStart, HoldCurrent
      <4> QED
        BY <1>a, <4>1, <4>2
    <3>3. CASE InstallAuto(q) \/ InstallFresh(q) \/ InstallHeld(q)
      <4>1. op'[q].pc = "installed"
        BY <2>3, <3>3 DEF Goes, PreviewHold, ConfirmStart, InstallAuto, InstallFresh, InstallHeld, At
      <4> QED
        BY <4>1
    <3> QED
      BY <2>3, <3>1, <3>2, <3>3 DEF Goes
  <2> QED
    BY <1>3, <2>1, <2>2, <2>3, OperationMoves
<1>4. ASSUME NEW p \in Procs, ProcessStep(p), p # q
      PROVE  /\ op'[q] = op[q]
             /\ hold'[Home[q]] = hold[Home[q]] \/ hold'[Home[q]] = NoHold \/ q \notin Reviewers
  <2>1. op'[q] = op[q] /\ (Home[p] # Home[q] => hold'[Home[q]] = hold[Home[q]])
    BY <1>0, <1>4, ProcessMoves
  <2>2. CASE PreviewHold(p)
    <3>1. p \in Reviewers
      BY <2>2 DEF PreviewHold, At, ReviewInv
    <3> QED
      BY <1>4, <2>1, <3>1 DEF OneReviewerEach
  <2>3. CASE ~PreviewHold(p)
    <3>1. hold' = hold \/ \E h \in {NoHold, hold[Home[p]]} : hold' = [hold EXCEPT ![Home[p]] = h]
      <4>1. CASE InstallRecord(p)
        BY <4>1 DEF InstallRecord
      <4> QED
        BY <1>4, <2>3, <4>1 DEF ProcessStep, Push, Engine, Pull, Review, Crash, Debounced, PushSnapshot,
           PushNothing, PushFails, PushTimeout, PushRecord, PushRefused, WakeStart, WakeStatus,
           WakeDecide, RepairSave, Download, InstallMoved, InstallRefused, InstallAuto,
           InstallFresh, PreviewDownload, ReviewCancel, ConfirmRefused, ConfirmStart,
           HeldRefused, InstallHeld, files
    <3> QED
      BY <1>0, <2>1, <3>1
  <2> QED
    BY <2>2, <2>3
<1>5. ASSUME NEW r \in net, NEW delivered \in BOOLEAN, Serve(r, delivered)
      PROVE  hold' = hold /\ (op'[q] = op[q] \/ op'[q].pc \in {"record", "conflict"})
  BY <1>5, AnswerMoves DEF Serve, files
<1> QED
  BY <1>1, <1>2, <1>3, <1>4, <1>5 DEF SyncNext, ProcessStep, Network, LoseRequest, LocalWrite,
     SetServer, syncVars, files

\* With one reviewer on a machine, a confirmed pull removes nothing its user
\* was not shown, whatever other processes write, pull or push while the user
\* reads the report.
THEOREM ConfirmsDropOnlyWhatWasShown ==
  ASSUME OneReviewerEach
  PROVE  SyncSpec => ConfirmDropsOnlyWhatWasShown
<1>1. SyncInit => ReviewInv
  <2> SUFFICES ASSUME SyncInit PROVE ReviewInv
    OBVIOUS
  <2>1. \A p \in Procs : op[p].pc = "idle"
    BY DEF SyncInit, Idle
  <2> QED
    BY <2>1 DEF ReviewInv, At
<1>2. SyncTypeOK /\ ReviewInv /\ [SyncNext]_syncVars => ReviewInv'
  BY ReviewsStay
<1>3. ReviewInv /\ [SyncNext]_syncVars =>
        [\A p \in Procs : InstallHeld(p) =>
            Dropped(vault[Home[p]], op[p].blob) \subseteq op[p].shown]_syncVars
  BY DEF ReviewInv, InstallHeld, MovedSince
<1> QED
  BY <1>1, <1>2, <1>3, SyncTypeCorrect, PTL DEF SyncSpec, ConfirmDropsOnlyWhatWasShown
=============================================================================
