-------------------------- MODULE SyncServerProofs --------------------------
(***************************************************************************)
(* Why the handlers, over either storage, are one compare-and-set          *)
(* register, for any devices, blobs, part counts, uploads and bounds.      *)
(*                                                                         *)
(* A handler's step does one of three things to its request: it goes on to *)
(* the next statement, it installs a version, or it ends with an answer    *)
(* (Goes, Installs, Leaves).  Every upload has one request and holds parts *)
(* of that request's blob only (Owned), even after PostgreSQL let another  *)
(* handler prune it: so what a download reads is the blob it was promised, *)
(* or nothing.                                                             *)
(***************************************************************************)
EXTENDS SyncServer, FiniteSetTheorems, TLAPS

-----------------------------------------------------------------------------
(* The invariant.                                                          *)

\* Upload u holds slices of x and of nothing else.
Owned(u, x) == \A n \in PartIndexes : uploads[u].parts[n] \in {NoBlob, x}

CountInv ==
    /\ IsFiniteSet(requests)
    /\ nextId + Cardinality(Opening) <= MaxUploads + 1

RowInv ==
    /\ row.version = Len(log)
    /\ row.version > 0 => row.sha = log[row.version]
    /\ row.upload # NoUpload =>
         row.version > 0 /\ row.parts = PartsOf[row.sha] /\ row.upload < nextId /\ Owned(row.upload, row.sha)

\* A request belongs to the push that waits for it, and its upload to it.
RequestOK(r) ==
    /\ r.live => op[r.from].pc = "pushing" /\ op[r.from].sha = r.sha /\ op[r.from].base = r.base
    /\ r.base <= Len(log)
    /\ r.stage = "after" => r.version \in 1..Len(log)
    /\ r.id < nextId
    /\ r.stage \in {"write", "read", "claim", "why"} => r.id # NoUpload
    /\ r.stage = "write" => r.n < PartsOf[r.sha]
    /\ r.id # NoUpload => Owned(r.id, r.sha)
    /\ r.id # NoUpload /\ r.stage # "after" =>
         r.id # row.upload /\ \A d \in Devices : op[d].pc = "parts" => op[d].id # r.id
RequestInv == \A r \in requests : RequestOK(r)

\* A push waits for one request, and an upload has one handler.
Unique ==
    \A r, q \in requests :
        (r.live /\ q.live /\ r.from = q.from) \/ (r.id = q.id /\ r.id # NoUpload) => r = q

\* The upload a request writes holds slices of that request's blob only.
UploadsOwned == \A r \in requests : r.id # NoUpload => Owned(r.id, r.sha)

\* A push waits for a request.
Waits == \A d \in Devices : op[d].pc = "pushing" => \E r \in requests : r.live /\ r.from = d

\* A download holds slices of the version it was promised.
DownloadOK(o) ==
    /\ o.pc \in {"status", "blob", "parts"} => o.low <= Len(log)
    /\ o.pc = "blob" => Len(log) > 0
    /\ o.pc = "parts" =>
         /\ o.version \in 1..Len(log) /\ o.low <= o.version /\ o.sha = log[o.version]
         /\ o.id \in UploadIds /\ o.id < nextId /\ o.parts = PartsOf[o.sha] /\ Owned(o.id, o.sha)
         /\ Len(o.got) < o.parts /\ \A n \in 1..Len(o.got) : o.got[n] = o.sha
DownloadInv == \A d \in Devices : DownloadOK(op[d]) /\ known[d] <= Len(log)

\* In memory a storage call is one step.
Single == \A u, w \in OpenUploads : u = w
ClaimsComplete ==
    \A r \in requests : r.stage = "claim" /\ uploads[r.id].state = "open" => Complete(r.id, r.sha)
MemoryInv == ~postgres => Single /\ CurrentReadable /\ ClaimsComplete

BaseInv == ServerTypeOK /\ CountInv /\ RowInv /\ RequestInv /\ Unique /\ Waits /\ DownloadInv
IInv == BaseInv /\ MemoryInv

-----------------------------------------------------------------------------
(* Types.                                                                  *)

LEMMA ConstantFacts ==
    /\ MaxUploads \in Nat
    /\ \A x \in Blobs : PartsOf[x] \in Nat /\ PartsOf[x] > 0
    /\ \A x \in Blobs : 0..(PartsOf[x] - 1) \subseteq PartIndexes
    /\ PartIndexes \subseteq Nat
    /\ NoBlob \notin Blobs /\ NoUpload \notin UploadIds /\ UploadIds \subseteq Nat
<1>1. \A x \in Blobs : PartsOf[x] \in Nat /\ PartsOf[x] > 0
  BY ServerAssumption
<1>2. \A x \in Blobs : 0..(PartsOf[x] - 1) \subseteq Nat
  BY <1>1
<1> QED
  BY <1>1, <1>2, ServerAssumption DEF PartIndexes, NoUpload, UploadIds

LEMMA IdTypes == \A id \in MaybeUpload : id \in Nat /\ (id # NoUpload => id \in UploadIds)
BY DEF MaybeUpload, UploadIds, NoUpload

LEMMA RequestTypes ==
    ASSUME ServerTypeOK, NEW r \in requests
    PROVE  /\ r \in Request /\ r.from \in Devices /\ r.live \in BOOLEAN /\ r.stage \in Stages
           /\ r.id \in MaybeUpload /\ r.n \in Nat /\ r.sha \in Blobs /\ r.base \in Nat
           /\ r.version \in Nat /\ r.saw \in Seen \cup {NotYet}
BY DEF ServerTypeOK, Request

LEMMA StorageTypes ==
    ASSUME ServerTypeOK
    PROVE  /\ row.version \in Nat /\ row.sha \in MaybeBlobs /\ row.upload \in MaybeUpload /\ row.parts \in Nat
           /\ Len(log) \in Nat /\ nextId \in Nat /\ log \in Seq(Blobs)
           /\ \A u \in UploadIds : /\ uploads[u] \in Upload
                                   /\ uploads[u].parts \in [PartIndexes -> MaybeBlobs]
           /\ \A v \in 1..Len(log) : log[v] \in Blobs
BY ConstantFacts DEF ServerTypeOK, Row, Upload

LEMMA DeviceTypes ==
    ASSUME ServerTypeOK, NEW d \in Devices
    PROVE  /\ op[d] \in Operation /\ op[d].low \in Nat /\ op[d].version \in Nat /\ op[d].parts \in Nat
           /\ op[d].got \in Seq(MaybeBlobs) /\ op[d].base \in Nat /\ op[d].sha \in MaybeBlobs
           /\ op[d].id \in MaybeUpload /\ op[d].tries \in Nat /\ known[d] \in Nat
BY DEF ServerTypeOK, Operation

-----------------------------------------------------------------------------
(* What a handler's step does to its request.                              *)

Turns(r, q) ==
    /\ requests' = (requests \ {r}) \cup {q}
    /\ q \in Request
    /\ q.from = r.from /\ q.live = r.live /\ q.sha = r.sha /\ q.base = r.base
    /\ UNCHANGED clients

Goes(r, q) ==
    /\ Turns(r, q) /\ UNCHANGED <<row, log>>
    /\ q.stage = "after" <=> r.stage = "after"
    /\ q.stage = "after" => q.version = r.version
    /\ \/ q.id = r.id /\ nextId' = nextId
       \/ /\ r.stage = "create" /\ q.id = nextId /\ nextId' = nextId + 1
          /\ uploads'[q.id].parts = Unused.parts
    /\ q.stage \in {"write", "read", "claim", "why"} => q.id # NoUpload
    /\ q.stage = "write" => q.n < PartsOf[q.sha]
    /\ q.stage \in {"prune", "create"} => r.stage \in {"prune", "create"} /\ nextId' = nextId
    /\ MayLand(q) => MayLand(r)
    /\ ~postgres /\ q.stage = "claim" => Complete(q.id, q.sha) /\ uploads' = uploads

Installs(r, q) ==
    /\ Turns(r, q) /\ UNCHANGED nextId
    /\ r.stage \in {"put", "claim"} /\ q.stage = "after" /\ q.id = r.id /\ q.version = Len(log) + 1
    /\ r.base = Len(log)
    /\ log' = Append(log, r.sha)
    /\ \/ row' = [version |-> Len(log) + 1, sha |-> r.sha, upload |-> NoUpload, parts |-> 0]
       \/ /\ r.stage = "claim"
          /\ row' = [version |-> Len(log) + 1, sha |-> r.sha, upload |-> r.id, parts |-> PartsOf[r.sha]]

Says(r, kind, version, value) ==
    /\ op' = [op EXCEPT ![r.from] = Idle]
    /\ answer' = [answer EXCEPT ![r.from] = [kind |-> kind, version |-> version, value |-> value]]
    /\ known' = IF kind = "written" THEN [known EXCEPT ![r.from] = version] ELSE known

Leaves(r) ==
    /\ requests' = requests \ {r}
    /\ UNCHANGED <<row, log>>
    /\ nextId' = nextId \/ (r.stage = "create" /\ nextId' = nextId + 1)
    /\ r.live => \/ r.stage = "after" /\ Says(r, "written", r.version, r.sha)
                 \/ r.base # Len(log) /\ r.stage # "after" /\ Says(r, "conflict", Len(log), NoBlob)
                 \/ Says(r, "failed", 0, NoBlob)
    /\ ~r.live => UNCHANGED clients

\* Uploads lose their parts, and the one being written gains parts of its blob.
Holds(r) ==
    \A u \in UploadIds : u < nextId =>
        \A n \in PartIndexes :
            \/ uploads'[u].parts[n] \in {NoBlob, uploads[u].parts[n]}
            \/ u = r.id /\ r.stage = "write" /\ uploads'[u].parts[n] = r.sha

Effect(r) == Holds(r) /\ (Leaves(r) \/ \E q : Goes(r, q) \/ Installs(r, q))

LEMMA HoldsWhenSame == ASSUME NEW r, uploads' = uploads PROVE Holds(r)
BY DEF Holds

\* Awaiting the next statement.
LEMMA AwaitTurns ==
    ASSUME ServerTypeOK, NEW r \in requests, NEW s \in Stages, Await(r, s), UNCHANGED clients
    PROVE  \E q : /\ Turns(r, q) /\ q.stage = s /\ q.id = r.id /\ q.n = r.n /\ q.version = r.version
<1> DEFINE q == [r EXCEPT !.stage = s, !.saw = NotYet]
<1>1. q \in Request /\ q.from = r.from /\ q.live = r.live /\ q.sha = r.sha /\ q.base = r.base
      /\ q.stage = s /\ q.id = r.id /\ q.n = r.n /\ q.version = r.version
  BY RequestTypes DEF Request
<1>2. requests' = (requests \ {r}) \cup {q}
  BY DEF Await
<1> QED
  BY <1>1, <1>2 DEF Turns

LEMMA AwaitGoes ==
    ASSUME ServerTypeOK, RequestInv, NEW r \in requests, NEW s \in Stages, Await(r, s), UNCHANGED clients,
           UNCHANGED <<row, log, nextId>>, r.stage # "after", s # "after", s # "write",
           s \in {"read", "claim", "why"} => r.id # NoUpload,
           s \in {"prune", "create"} => r.stage \in {"prune", "create"},
           s \in {"put", "read", "claim"} => r.stage \in {"put", "read", "claim"},
           s = "claim" /\ ~postgres => Complete(r.id, r.sha) /\ uploads' = uploads
    PROVE  \E q : Goes(r, q)
<1>1. PICK q : Turns(r, q) /\ q.stage = s /\ q.id = r.id /\ q.n = r.n /\ q.version = r.version
  BY AwaitTurns
<1>2. q.live = r.live /\ q.sha = r.sha
  BY <1>1 DEF Turns
<1>3. Goes(r, q)
  BY <1>1, <1>2 DEF Goes, MayLand
<1> QED
  BY <1>3

LEMMA ReplyLeaves ==
    ASSUME NEW r, NEW kind, NEW version, Reply(r, kind, version), UNCHANGED <<row, log, nextId>>,
           r.live \in BOOLEAN,
           \/ kind = "written" /\ r.stage = "after" /\ version = r.version
           \/ kind = "conflict" /\ version = Len(log) /\ r.base # Len(log) /\ r.stage # "after"
           \/ kind = "failed" /\ version = 0
    PROVE  Leaves(r)
BY DEF Leaves, Reply, Ended, Says

\* The next part, or the commit.
LEMMA ReplyNextMoves ==
    ASSUME ServerTypeOK, NEW r \in requests, NEW id \in UploadIds, NEW n \in Nat, ReplyNext(r, id, n),
           UNCHANGED <<row, log>>, r.stage # "after",
           \/ id = r.id /\ nextId' = nextId
           \/ r.stage = "create" /\ id = nextId /\ nextId' = nextId + 1 /\ uploads'[id].parts = Unused.parts
    PROVE  Leaves(r) \/ \E q : Goes(r, q)
<1>1. CASE ~r.live
  BY <1>1 DEF ReplyNext, Leaves
<1>2. CASE r.live
  <2> DEFINE q == NewRequest(r.from, IF n < PartsOf[r.sha] THEN "write" ELSE "read", id, n, r.sha, r.base)
  <2>1. requests' = (requests \ {r}) \cup {q} /\ UNCHANGED clients
    BY <1>2 DEF ReplyNext
  <2>2. /\ q \in Request /\ q.from = r.from /\ q.live /\ q.live = r.live /\ q.sha = r.sha /\ q.base = r.base
        /\ q.id = id /\ q.n = n /\ q.stage = (IF n < PartsOf[r.sha] THEN "write" ELSE "read")
    <3>1. /\ r.from \in Devices /\ r.sha \in Blobs /\ r.base \in Nat
      BY RequestTypes
    <3>2. (IF n < PartsOf[r.sha] THEN "write" ELSE "read") \in Stages /\ id \in MaybeUpload /\ r.live = TRUE
      BY <1>2, RequestTypes DEF Stages, MaybeUpload
    <3> QED
      BY <3>1, <3>2 DEF NewRequest, Request
  <2> HIDE DEF q
  <2>3. id # NoUpload
    BY ConstantFacts
  <2>4. Turns(r, q)
    BY <2>1, <2>2 DEF Turns
  <2>5. q.stage = "write" \/ q.stage = "read"
    BY <2>2
  <2>6. q.stage = "write" => n < PartsOf[r.sha]
    BY <2>2
  <2>7. Goes(r, q)
    BY <1>2, <2>2, <2>3, <2>4, <2>5, <2>6 DEF Goes, MayLand
  <2> QED
    BY <2>7
<1> QED
  BY <1>1, <1>2, RequestTypes

-----------------------------------------------------------------------------
(* Every step of a handler is one of the three.                            *)

LEMMA SelectedTypes ==
    ASSUME NEW r, NEW seen \in Selected(r)
    PROVE  seen \in Seen /\ (r.stage \in {"prune", "after"} => seen.ids \in Prunable)
<1>1. CASE r.stage \in {"prune", "after"}
  <2>1. PICK s \in Prunable : seen = [ok |-> TRUE, ids |-> s]
    BY <1>1 DEF Selected
  <2>2. s \subseteq UploadIds
    BY <2>1 DEF Prunable, Retired
  <2> QED
    BY <2>1, <2>2 DEF Seen
<1>2. CASE r.stage = "create"
  <2>1. seen = [ok |-> TRUE, ids |-> OpenUploads]
    BY <1>2 DEF Selected
  <2>2. OpenUploads \subseteq UploadIds
    BY DEF OpenUploads
  <2> QED
    BY <1>2, <2>1, <2>2 DEF Seen
<1>3. CASE r.stage \in {"write", "put", "claim"}
  <2>1. (uploads[r.id].state = "open") \in BOOLEAN /\ AtBase(r) \in BOOLEAN /\ Claimable(r) \in BOOLEAN
    BY DEF AtBase, Claimable
  <2>2. seen \in {[ok |-> b, ids |-> {}] : b \in BOOLEAN}
    <3>1. CASE r.stage = "write"
      BY <2>1, <3>1 DEF Selected
    <3>2. CASE r.stage = "put"
      BY <2>1, <3>2 DEF Selected
    <3>3. CASE r.stage = "claim"
      BY <2>1, <3>3 DEF Selected
    <3> QED
      BY <1>3, <3>1, <3>2, <3>3
  <2> QED
    BY <1>3, <2>2 DEF Seen
<1>4. CASE r.stage \notin {"prune", "after", "create", "write", "put", "claim"}
  BY <1>4 DEF Selected
<1> QED
  BY <1>1, <1>2, <1>3, <1>4

LEMMA VisibleTypes ==
    ASSUME ServerTypeOK, NEW r \in requests, NEW seen \in Visible(r)
    PROVE  seen.ids \subseteq UploadIds /\ seen.ok \in BOOLEAN
<1>1. seen \in Seen
  BY SelectedTypes, RequestTypes DEF Visible
<1> QED
  BY <1>1 DEF Seen

LEMMA SnapshotEffect ==
    ASSUME ServerTypeOK, RequestInv, NEW r \in requests, Snapshot(r)
    PROVE  Effect(r)
<1>1. PICK seen \in Selected(r) : requests' = (requests \ {r}) \cup {[r EXCEPT !.saw = seen]}
  BY DEF Snapshot
<1> DEFINE q == [r EXCEPT !.saw = seen]
<1>2. q \in Request /\ q.from = r.from /\ q.live = r.live /\ q.sha = r.sha /\ q.base = r.base
      /\ q.stage = r.stage /\ q.id = r.id /\ q.n = r.n /\ q.version = r.version
  BY SelectedTypes, RequestTypes DEF Request
<1>3. postgres /\ UNCHANGED <<row, log, nextId, uploads, clients>>
  BY DEF Snapshot, storage
<1> HIDE DEF q
<1>4. Turns(r, q)
  BY <1>1, <1>2, <1>3 DEF Turns, q
<1>5. Goes(r, q)
  BY <1>2, <1>3, <1>4 DEF Goes, MayLand, RequestInv, RequestOK
<1> QED
  BY <1>3, <1>5, HoldsWhenSame DEF Effect

LEMMA PruneEffect ==
    ASSUME ServerTypeOK, RequestInv, NEW r \in requests, Prune(r)
    PROVE  Effect(r)
<1>1. PICK seen \in Visible(r) : uploads' = Delete(seen.ids)
  BY DEF Prune
<1>2. Holds(r)
  BY <1>1 DEF Delete, Unused, Holds
<1>3. r.stage \in {"prune", "after"} /\ UNCHANGED <<row, log, nextId>>
  BY DEF Prune
<1>4. CASE r.stage = "prune"
  <2>1. Await(r, "create") /\ UNCHANGED clients
    BY <1>4 DEF Prune
  <2>2. \E q : Goes(r, q)
    BY <1>3, <1>4, <2>1, AwaitGoes DEF Stages
  <2> QED
    BY <1>2, <2>2 DEF Effect
<1>5. CASE r.stage = "after"
  <2>1. Reply(r, "written", r.version)
    BY <1>5 DEF Prune
  <2>2. Leaves(r)
    BY <1>3, <1>5, <2>1, ReplyLeaves, RequestTypes
  <2> QED
    BY <1>2, <2>2 DEF Effect
<1> QED
  BY <1>3, <1>4, <1>5

LEMMA CreateEffect ==
    ASSUME ServerTypeOK, RequestInv, NEW r \in requests, CreateUpload(r), nextId \in UploadIds
    PROVE  Effect(r)
<1>1. PICK seen \in Visible(r) :
         uploads' = [u \in UploadIds |->
             IF u = nextId THEN [Unused EXCEPT !.state = "open"]
             ELSE IF u \in seen.ids \cap OpenUploads
                  THEN [uploads[u] EXCEPT !.state = "replaced"]
             ELSE uploads[u]]
  BY DEF CreateUpload
<1>2. \A u \in UploadIds : u # nextId => uploads'[u].parts = uploads[u].parts
  BY <1>1, StorageTypes DEF Upload
<1>3. Holds(r)
  BY <1>2, StorageTypes DEF Holds
<1>4. uploads'[nextId].parts = Unused.parts
  BY <1>1 DEF Unused
<1>5. r.stage = "create" /\ nextId' = nextId + 1 /\ ReplyNext(r, nextId, 0) /\ UNCHANGED <<row, log>>
  BY DEF CreateUpload
<1>6. Leaves(r) \/ \E q : Goes(r, q)
  BY <1>4, <1>5, ReplyNextMoves
<1> QED
  BY <1>3, <1>6 DEF Effect

LEMMA PutPartEffect ==
    ASSUME ServerTypeOK, RequestInv, NEW r \in requests, PutPart(r)
    PROVE  Effect(r)
<1>1. r.stage = "write" /\ r.id \in UploadIds /\ r.n \in PartIndexes /\ r.sha \in Blobs
      /\ UNCHANGED <<row, log, nextId>>
  <2>1. r.stage = "write" /\ UNCHANGED <<row, log, nextId>>
    BY DEF PutPart
  <2>2. r.id # NoUpload /\ r.n < PartsOf[r.sha] /\ r.n \in Nat /\ r.sha \in Blobs /\ r.id \in MaybeUpload
    BY <2>1, RequestTypes DEF RequestInv, RequestOK
  <2>3. r.n \in 0..(PartsOf[r.sha] - 1)
    BY <2>2, ConstantFacts
  <2> QED
    BY <2>1, <2>2, <2>3, ConstantFacts DEF MaybeUpload
<1>2. \/ uploads' = uploads
      \/ uploads' = [uploads EXCEPT ![r.id].parts[r.n] = r.sha]
  BY DEF PutPart
<1>3. Holds(r)
  <2>1. CASE uploads' = uploads
    BY <2>1, HoldsWhenSame
  <2>2. CASE uploads' = [uploads EXCEPT ![r.id].parts[r.n] = r.sha]
    <3>1. \A u \in UploadIds : u # r.id => uploads'[u] = uploads[u]
      BY <1>1, <2>2 DEF ServerTypeOK
    <3>2. uploads'[r.id].parts = [uploads[r.id].parts EXCEPT ![r.n] = r.sha]
      BY <1>1, <2>2, StorageTypes DEF ServerTypeOK, Upload
    <3>3. \A n \in PartIndexes : uploads'[r.id].parts[n] \in {uploads[r.id].parts[n], r.sha}
      BY <1>1, <3>2, StorageTypes
    <3> QED
      BY <1>1, <3>1, <3>3 DEF Holds
  <2> QED
    BY <1>2, <2>1, <2>2
<1>4. ReplyNext(r, r.id, r.n + 1) \/ Reply(r, "failed", 0)
  BY DEF PutPart
<1>5. CASE ReplyNext(r, r.id, r.n + 1)
  <2>1. Leaves(r) \/ \E q : Goes(r, q)
    BY <1>1, <1>5, ReplyNextMoves, ConstantFacts
  <2> QED
    BY <1>3, <2>1 DEF Effect
<1>6. CASE Reply(r, "failed", 0)
  <2>1. Leaves(r)
    BY <1>1, <1>6, ReplyLeaves, RequestTypes
  <2> QED
    BY <1>3, <2>1 DEF Effect
<1> QED
  BY <1>4, <1>5, <1>6

LEMMA InstalledTurns ==
    ASSUME ServerTypeOK, RowInv, NEW r \in requests, Installed(r), UNCHANGED clients
    PROVE  \E q : Turns(r, q) /\ q.stage = "after" /\ q.id = r.id /\ q.version = Len(log) + 1
<1> DEFINE q == [r EXCEPT !.stage = "after", !.version = row.version + 1, !.saw = NotYet]
<1>1. "after" \in Stages /\ row.version + 1 \in Nat /\ row.version = Len(log)
  BY StorageTypes DEF Stages, RowInv
<1>2. /\ q \in Request /\ q.from = r.from /\ q.live = r.live /\ q.sha = r.sha /\ q.base = r.base
      /\ q.stage = "after" /\ q.id = r.id /\ q.version = row.version + 1
  BY <1>1, RequestTypes DEF Request
<1>3. requests' = (requests \ {r}) \cup {q}
  BY DEF Installed
<1> QED
  BY <1>1, <1>2, <1>3 DEF Turns

LEMMA PutBlobEffect ==
    ASSUME ServerTypeOK, RowInv, RequestInv, NEW r \in requests, PutBlob(r)
    PROVE  Effect(r)
<1>1. r.stage = "put" /\ UNCHANGED <<postgres, nextId>>
  BY DEF PutBlob
<1>2. PICK seen \in Visible(r) :
         \/ /\ AtBase(r) /\ InstallRow(r.sha, NoUpload) /\ uploads' = Superseded(uploads)
            /\ Installed(r) /\ UNCHANGED clients
         \/ /\ ~(AtBase(r) /\ (r.base = 0 \/ seen.ok))
            /\ Refused(r) /\ UNCHANGED <<row, uploads, log>>
  BY DEF PutBlob
<1>3. CASE /\ AtBase(r) /\ InstallRow(r.sha, NoUpload) /\ uploads' = Superseded(uploads)
           /\ Installed(r) /\ UNCHANGED clients
  <2>1. Holds(r)
    BY <1>3, StorageTypes DEF Superseded, Upload, Holds
  <2>2. PICK q : Turns(r, q) /\ q.stage = "after" /\ q.id = r.id /\ q.version = Len(log) + 1
    BY <1>3, InstalledTurns
  <2>5. r.base = Len(log) /\ row.version = Len(log)
    BY <1>3 DEF AtBase, RowInv
  <2>6. log' = Append(log, r.sha)
        /\ row' = [version |-> Len(log) + 1, sha |-> r.sha, upload |-> NoUpload, parts |-> 0]
    BY <1>3, <2>5 DEF InstallRow
  <2>7. Installs(r, q)
    BY <1>1, <2>2, <2>5, <2>6 DEF Installs
  <2> QED
    BY <2>1, <2>7 DEF Effect
<1>4. CASE /\ ~(AtBase(r) /\ (r.base = 0 \/ seen.ok))
           /\ Refused(r) /\ UNCHANGED <<row, uploads, log>>
  <2>1. CASE postgres
    <3>1. Await(r, "version") /\ UNCHANGED clients
      BY <1>4, <2>1 DEF Refused
    <3>2. \E q : Goes(r, q)
      BY <1>1, <1>4, <3>1, AwaitGoes DEF Stages
    <3> QED
      BY <1>4, <3>2, HoldsWhenSame DEF Effect
  <2>2. CASE ~postgres
    <3>1. seen.ok = AtBase(r)
      BY <1>1, <2>2 DEF Visible, Selected
    <3>2. r.base # Len(log) /\ Reply(r, "conflict", row.version) /\ row.version = Len(log)
      BY <1>4, <2>2, <3>1 DEF Refused, AtBase, RowInv
    <3>3. Leaves(r)
      BY <1>1, <1>4, <3>2, ReplyLeaves, RequestTypes
    <3> QED
      BY <1>4, <3>3, HoldsWhenSame DEF Effect
  <2> QED
    BY <2>1, <2>2
<1> QED
  BY <1>2, <1>3, <1>4

LEMMA ReadOpenPartsEffect ==
    ASSUME ServerTypeOK, RequestInv, NEW r \in requests, ReadOpenParts(r)
    PROVE  Effect(r)
<1>1. r.stage = "read" /\ UNCHANGED <<row, log, nextId, uploads, postgres>> /\ r.id # NoUpload
  BY DEF ReadOpenParts, storage, RequestInv, RequestOK
<1>2. CASE Complete(r.id, r.sha) /\ Await(r, "claim") /\ UNCHANGED clients
  <2>1. \E q : Goes(r, q)
    BY <1>1, <1>2, AwaitGoes DEF Stages
  <2> QED
    BY <1>1, <2>1, HoldsWhenSame DEF Effect
<1>3. CASE Reply(r, "failed", 0)
  <2>1. Leaves(r)
    BY <1>1, <1>3, ReplyLeaves, RequestTypes
  <2> QED
    BY <1>1, <2>1, HoldsWhenSame DEF Effect
<1> QED
  BY <1>2, <1>3 DEF ReadOpenParts

LEMMA CompleteCounts ==
    ASSUME NEW u, NEW x \in Blobs, Complete(u, x)
    PROVE  PartCount(u) = PartsOf[x]
<1>1. PartsOf[x] \in Nat /\ PartsOf[x] > 0 /\ 0..(PartsOf[x] - 1) \subseteq PartIndexes /\ PartIndexes \subseteq Nat
      /\ NoBlob # x
  BY ConstantFacts
<1>2. \A n \in PartIndexes : uploads[u].parts[n] # NoBlob <=> n < PartsOf[x]
  BY <1>1 DEF Complete
<1> DEFINE S == {n \in PartIndexes : uploads[u].parts[n] # NoBlob}
<1>4. S = 0..(PartsOf[x] - 1)
  <2>1. \A n \in S : n \in 0..(PartsOf[x] - 1)
    BY <1>1, <1>2
  <2>2. \A n \in 0..(PartsOf[x] - 1) : n \in S
    BY <1>1, <1>2
  <2> QED
    BY <2>1, <2>2
<1>3. Cardinality(0..(PartsOf[x] - 1)) = PartsOf[x]
  BY <1>1, FS_Interval
<1> QED
  BY <1>3, <1>4 DEF PartCount

\* What claiming an upload does to the table.
Claimed(r) == [uploads EXCEPT ![r.id].state = "committed",
                              ![r.id].since = row.version, ![r.id].aged = FALSE]

LEMMA ClaimedUploads ==
    ASSUME ServerTypeOK, NEW r \in requests, r.id \in UploadIds
    PROVE  /\ Claimed(r) \in [UploadIds -> Upload]
           /\ \A u \in UploadIds : u # r.id => Claimed(r)[u] = uploads[u]
           /\ Claimed(r)[r.id] = [state |-> "committed", parts |-> uploads[r.id].parts,
                                  since |-> row.version, aged |-> FALSE]
<1>1. uploads[r.id] = [state |-> uploads[r.id].state, parts |-> uploads[r.id].parts,
                       since |-> uploads[r.id].since, aged |-> uploads[r.id].aged]
      /\ uploads[r.id].parts \in [PartIndexes -> MaybeBlobs] /\ row.version \in Nat
  BY StorageTypes DEF Upload
<1>2. \A u \in UploadIds : u # r.id => Claimed(r)[u] = uploads[u]
  BY DEF ServerTypeOK, Claimed
<1>3. Claimed(r)[r.id] = [state |-> "committed", parts |-> uploads[r.id].parts,
                          since |-> row.version, aged |-> FALSE]
  BY <1>1 DEF ServerTypeOK, Claimed
<1>4. DOMAIN Claimed(r) = UploadIds /\ Claimed(r) = [u \in UploadIds |-> Claimed(r)[u]]
  BY DEF ServerTypeOK, Claimed
<1>5. \A u \in UploadIds : Claimed(r)[u] \in Upload
  <2> HIDE DEF Claimed
  <2>1. [state |-> "committed", parts |-> uploads[r.id].parts, since |-> row.version, aged |-> FALSE] \in Upload
    BY <1>1 DEF Upload
  <2> QED
    BY <1>2, <1>3, <2>1, StorageTypes
<1> HIDE DEF Claimed
<1> QED
  BY <1>2, <1>3, <1>4, <1>5

LEMMA CommitEffect ==
    ASSUME ServerTypeOK, RowInv, RequestInv, ~postgres => ClaimsComplete, NEW r \in requests, CommitUpload(r)
    PROVE  Effect(r)
<1>1. /\ r.stage = "claim" /\ UNCHANGED <<postgres, nextId>> /\ r.id # NoUpload /\ r.id \in UploadIds
      /\ row.version = Len(log) /\ r.sha \in Blobs
  BY RequestTypes DEF CommitUpload, RequestInv, RequestOK, RowInv, MaybeUpload
<1>2. PICK seen \in Visible(r) :
         LET claimed == seen.ok /\ uploads[r.id].state = "open"
         IN \/ /\ claimed /\ AtBase(r)
               /\ InstallRow(r.sha, r.id)
               /\ uploads' = Superseded(Claimed(r))
               /\ Installed(r)
               /\ UNCHANGED clients
            \/ /\ claimed /\ ~AtBase(r)
               /\ uploads' = Claimed(r)
               /\ Await(r, "version")
               /\ UNCHANGED <<row, log, clients>>
            \/ /\ ~claimed
               /\ IF postgres THEN Await(r, "why") /\ UNCHANGED clients
                  ELSE IF uploads[r.id].state = "open" THEN Reply(r, "conflict", row.version)
                  ELSE Reply(r, "failed", 0)
               /\ UNCHANGED <<row, uploads, log>>
  BY DEF CommitUpload, Claimed
<1>3. \A u \in UploadIds : Claimed(r)[u].parts = uploads[u].parts /\ Claimed(r)[u] \in Upload
  <2>0. Claimed(r)[r.id] = [state |-> "committed", parts |-> uploads[r.id].parts,
                            since |-> row.version, aged |-> FALSE]
    BY <1>1, ClaimedUploads, Zenon
  <2>1. Claimed(r)[r.id].parts = uploads[r.id].parts
    BY <2>0
  <2>2. \A u \in UploadIds : Claimed(r)[u] \in Upload
    BY <1>1, ClaimedUploads
  <2> QED
    BY <1>1, <2>1, <2>2, ClaimedUploads
<1>4. CASE /\ AtBase(r) /\ InstallRow(r.sha, r.id) /\ uploads' = Superseded(Claimed(r))
           /\ Installed(r) /\ UNCHANGED clients
  <2>1. Holds(r)
    <3>1. \A u \in UploadIds : uploads'[u].parts = Claimed(r)[u].parts
      BY <1>3, <1>4 DEF Superseded, Upload
    <3> QED
      BY <1>3, <3>1 DEF Holds
  <2>2. PICK q : Turns(r, q) /\ q.stage = "after" /\ q.id = r.id /\ q.version = Len(log) + 1
    BY <1>4, InstalledTurns
  <2>3. /\ r.base = Len(log) /\ log' = Append(log, r.sha)
        /\ row' = [version |-> Len(log) + 1, sha |-> r.sha, upload |-> r.id, parts |-> PartsOf[r.sha]]
    BY <1>1, <1>4 DEF AtBase, InstallRow
  <2>4. Installs(r, q)
    BY <1>1, <2>2, <2>3 DEF Installs
  <2> QED
    BY <2>1, <2>4 DEF Effect
<1>5. CASE uploads' = Claimed(r) /\ Await(r, "version") /\ UNCHANGED <<row, log, clients>>
  <2>1. Holds(r)
    BY <1>3, <1>5 DEF Holds
  <2>2. \E q : Goes(r, q)
    BY <1>1, <1>5, AwaitGoes DEF Stages
  <2> QED
    BY <2>1, <2>2 DEF Effect
<1>6. CASE /\ ~(seen.ok /\ uploads[r.id].state = "open") /\ UNCHANGED <<row, uploads, log>>
           /\ IF postgres THEN Await(r, "why") /\ UNCHANGED clients
              ELSE IF uploads[r.id].state = "open" THEN Reply(r, "conflict", row.version)
              ELSE Reply(r, "failed", 0)
  <2>1. CASE postgres
    <3>1. \E q : Goes(r, q)
      BY <1>1, <1>6, <2>1, AwaitGoes DEF Stages
    <3> QED
      BY <1>6, <3>1, HoldsWhenSame DEF Effect
  <2>2. CASE ~postgres /\ uploads[r.id].state = "open"
    <3>1. seen.ok = Claimable(r)
      BY <1>1, <2>2 DEF Visible, Selected
    <3>2. PartCount(r.id) = PartsOf[r.sha]
      BY <1>1, <2>2, CompleteCounts DEF ClaimsComplete
    <3>3. r.base # Len(log) /\ Reply(r, "conflict", Len(log))
      BY <1>1, <1>6, <2>2, <3>1, <3>2 DEF Claimable, AtBase
    <3>4. Leaves(r)
      BY <1>1, <1>6, <3>3, ReplyLeaves, RequestTypes
    <3> QED
      BY <1>6, <3>4, HoldsWhenSame DEF Effect
  <2>3. CASE ~postgres /\ uploads[r.id].state # "open"
    <3>1. Leaves(r)
      BY <1>1, <1>6, <2>3, ReplyLeaves, RequestTypes
    <3> QED
      BY <1>6, <3>1, HoldsWhenSame DEF Effect
  <2> QED
    BY <2>1, <2>2, <2>3
<1> QED
  BY <1>2, <1>4, <1>5, <1>6

LEMMA AnswerEffect ==
    ASSUME ServerTypeOK, RowInv, RequestInv, NEW r \in requests, ExplainClaim(r) \/ CurrentVersion(r)
    PROVE  Effect(r)
<1>1. UNCHANGED <<row, log, nextId, uploads, postgres>> /\ r.stage \in {"why", "version"} /\ row.version = Len(log)
  BY DEF ExplainClaim, CurrentVersion, storage, RowInv
<1>2. CASE r.stage = "why" /\ Await(r, "version") /\ UNCHANGED clients
  <2>1. \E q : Goes(r, q)
    BY <1>1, <1>2, AwaitGoes DEF Stages
  <2> QED
    BY <1>1, <2>1, HoldsWhenSame DEF Effect
<1>3. CASE Reply(r, "failed", 0) \/ (r.base # Len(log) /\ Reply(r, "conflict", Len(log)))
  <2>1. Leaves(r)
    BY <1>1, <1>3, ReplyLeaves, RequestTypes
  <2> QED
    BY <1>1, <2>1, HoldsWhenSame DEF Effect
<1>4. \/ r.stage = "why" /\ Await(r, "version") /\ UNCHANGED clients
      \/ Reply(r, "failed", 0)
      \/ r.base # Len(log) /\ Reply(r, "conflict", Len(log))
  BY <1>1 DEF ExplainClaim, CurrentVersion, AtBase
<1> QED
  BY <1>2, <1>3, <1>4

LEMMA LoseEffect ==
    ASSUME NEW r \in requests, LoseRequest(r)
    PROVE  Effect(r)
<1>1. Leaves(r)
  BY DEF LoseRequest, Leaves, storage
<1> QED
  BY <1>1, HoldsWhenSame DEF Effect, LoseRequest, storage

LEMMA HandleEffect ==
    ASSUME ServerTypeOK, CountInv, RowInv, RequestInv, ~postgres => ClaimsComplete,
           NEW r \in requests, Handle(r)
    PROVE  Effect(r)
<1>1. CASE CreateUpload(r)
  <2>1. r \in Opening
    BY <1>1 DEF CreateUpload, Opening
  <2>2. IsFiniteSet(Opening) /\ Cardinality(Opening) \in Nat /\ Cardinality(Opening) # 0
    BY <2>1, FS_Subset, FS_EmptySet, FS_CardinalityType DEF CountInv, Opening
  <2>3. nextId \in UploadIds
    <3>1. nextId \in Nat /\ nextId >= 1 /\ MaxUploads \in Nat
      BY ServerAssumption DEF ServerTypeOK
    <3> QED
      BY <2>2, <3>1 DEF CountInv, UploadIds
  <2> QED
    BY <1>1, <2>3, CreateEffect
<1> QED
  BY <1>1, SnapshotEffect, PruneEffect, PutPartEffect, PutBlobEffect, ReadOpenPartsEffect, CommitEffect,
     AnswerEffect, LoseEffect DEF Handle

-----------------------------------------------------------------------------
(* The uploads keep their type.                                            *)

LEMMA UnusedType == Unused \in Upload /\ Unused.parts \in [PartIndexes -> MaybeBlobs]
                    /\ \A n \in PartIndexes : Unused.parts[n] = NoBlob
BY DEF Unused, Upload, MaybeBlobs

LEMMA SupersededTypes ==
    ASSUME ServerTypeOK, NEW ups \in [UploadIds -> Upload]
    PROVE  Superseded(ups) \in [UploadIds -> Upload]
<1>1. row.version + 1 \in Nat
  BY StorageTypes
<1>2. \A u \in UploadIds : [ups[u] EXCEPT !.since = row.version + 1, !.aged = FALSE] \in Upload
  BY <1>1 DEF Upload
<1> QED
  BY <1>2 DEF Superseded

LEMMA DeleteTypes ==
    ASSUME ServerTypeOK, NEW ids
    PROVE  Delete(ids) \in [UploadIds -> Upload]
<1>1. \A u \in UploadIds : uploads[u].aged \in BOOLEAN
  BY StorageTypes DEF Upload
<1>2. \A u \in UploadIds : [Unused EXCEPT !.state = "deleted", !.aged = uploads[u].aged] \in Upload
  BY <1>1 DEF Unused, Upload, MaybeBlobs
<1> QED
  BY <1>2, StorageTypes DEF Delete

LEMMA UploadTypes ==
    ASSUME ServerTypeOK, RequestInv, [ServerNext]_serverVars
    PROVE  uploads' \in [UploadIds -> Upload]
<1>1. ASSUME NEW r \in requests, Handle(r)
      PROVE  uploads' \in [UploadIds -> Upload]
  <2>1. CASE UNCHANGED uploads
    BY <2>1 DEF ServerTypeOK
  <2>2. CASE Prune(r)
    BY <2>2, DeleteTypes DEF Prune
  <2>3. CASE CreateUpload(r)
    <3>1. [Unused EXCEPT !.state = "open"] \in Upload
      BY DEF Unused, Upload, MaybeBlobs
    <3>2. \A u \in UploadIds : [uploads[u] EXCEPT !.state = "replaced"] \in Upload
      BY StorageTypes DEF Upload
    <3> QED
      BY <2>3, <3>1, <3>2, StorageTypes DEF CreateUpload
  <2>4. CASE PutPart(r) /\ ~UNCHANGED uploads
    <3>1. uploads' = [uploads EXCEPT ![r.id].parts[r.n] = r.sha] /\ r.sha \in Blobs
      BY <2>4, RequestTypes DEF PutPart
    <3>2. r.id # NoUpload /\ r.id \in UploadIds
      BY <2>4, RequestTypes DEF PutPart, RequestInv, RequestOK, MaybeUpload
    <3>3. /\ [uploads[r.id].parts EXCEPT ![r.n] = r.sha] \in [PartIndexes -> MaybeBlobs]
      BY <3>1, <3>2, StorageTypes DEF MaybeBlobs
    <3>4. uploads'[r.id] = [uploads[r.id] EXCEPT !.parts = [uploads[r.id].parts EXCEPT ![r.n] = r.sha]]
      BY <3>1, <3>2, StorageTypes DEF ServerTypeOK, Upload
    <3>5. uploads'[r.id] \in Upload
      BY <3>2, <3>3, <3>4, StorageTypes DEF Upload
    <3>6. \A u \in UploadIds : u # r.id => uploads'[u] = uploads[u]
      BY <3>1, <3>2 DEF ServerTypeOK
    <3>7. uploads' = [u \in UploadIds |-> uploads'[u]]
      BY <3>1 DEF ServerTypeOK
    <3> QED
      BY <3>5, <3>6, <3>7, StorageTypes
  <2>5. CASE PutBlob(r)
    BY <2>5, SupersededTypes DEF PutBlob, ServerTypeOK
  <2>6. CASE CommitUpload(r)
    <3>1. r.id \in UploadIds
      BY <2>6, RequestTypes DEF CommitUpload, RequestInv, RequestOK, MaybeUpload
    <3>2. Claimed(r) \in [UploadIds -> Upload]
      BY <3>1, ClaimedUploads
    <3>3. uploads' \in {uploads, Claimed(r), Superseded(Claimed(r))}
      BY <2>6 DEF CommitUpload, Claimed
    <3> QED
      BY <3>2, <3>3, SupersededTypes DEF ServerTypeOK
  <2> QED
    BY <1>1, <2>1, <2>2, <2>3, <2>4, <2>5, <2>6
       DEF Handle, Snapshot, ReadOpenParts, ExplainClaim, CurrentVersion, LoseRequest, storage
<1>2. ASSUME NEW d \in Devices, Device(d)
      PROVE  UNCHANGED uploads
  BY <1>2 DEF Device, Push, GiveUp, Pull, ReadStatus, GetBlob, GetPart, storage
<1>3. ASSUME NEW u \in UploadIds, Age(u)
      PROVE  uploads' \in [UploadIds -> Upload]
  <2>1. [uploads[u] EXCEPT !.aged = TRUE] \in Upload
    BY StorageTypes DEF Upload
  <2>2. uploads' = [w \in UploadIds |-> IF w = u THEN [uploads[u] EXCEPT !.aged = TRUE] ELSE uploads[w]]
    BY <1>3 DEF Age, ServerTypeOK
  <2> QED
    BY <2>1, <2>2, StorageTypes
<1> QED
  BY <1>1, <1>2, <1>3 DEF ServerNext, serverVars, ServerTypeOK

-----------------------------------------------------------------------------
(* The handlers keep the invariant of both storages.                       *)

LEMMA WithoutOne ==
    ASSUME NEW S, NEW x, IsFiniteSet(S)
    PROVE  /\ IsFiniteSet(S \ {x}) /\ Cardinality(S \ {x}) \in Nat /\ Cardinality(S \ {x}) <= Cardinality(S)
           /\ x \in S => Cardinality(S \ {x}) = Cardinality(S) - 1
<1>1. IsFiniteSet(S \ {x})
  BY FS_RemoveElement
<1>2. Cardinality(S \ {x}) = IF x \in S THEN Cardinality(S) - 1 ELSE Cardinality(S)
  BY FS_RemoveElement
<1>3. Cardinality(S) \in Nat /\ Cardinality(S \ {x}) \in Nat
  BY <1>1, FS_CardinalityType
<1> QED
  BY <1>1, <1>2, <1>3

LEMMA WithOne ==
    ASSUME NEW S, NEW x, IsFiniteSet(S)
    PROVE  /\ IsFiniteSet(S \cup {x}) /\ Cardinality(S \cup {x}) \in Nat
           /\ Cardinality(S \cup {x}) <= Cardinality(S) + 1
<1>1. IsFiniteSet(S \cup {x})
  BY FS_AddElement
<1>2. Cardinality(S \cup {x}) = IF x \in S THEN Cardinality(S) ELSE Cardinality(S) + 1
  BY FS_AddElement
<1>3. Cardinality(S) \in Nat /\ Cardinality(S \cup {x}) \in Nat
  BY <1>1, FS_CardinalityType
<1> QED
  BY <1>1, <1>2, <1>3

LEMMA CountKeeps ==
    ASSUME ServerTypeOK, CountInv, NEW r \in requests, Effect(r)
    PROVE  CountInv'
<1> DEFINE A == Opening \ {r}
<1>1. IsFiniteSet(requests) /\ IsFiniteSet(Opening) /\ Cardinality(Opening) \in Nat
      /\ nextId \in Nat /\ MaxUploads \in Nat /\ nextId + Cardinality(Opening) <= MaxUploads + 1
  BY FS_Subset, FS_CardinalityType, StorageTypes, ConstantFacts DEF CountInv, Opening
<1>2. /\ IsFiniteSet(A) /\ Cardinality(A) \in Nat /\ Cardinality(A) <= Cardinality(Opening)
      /\ r \in Opening => Cardinality(A) = Cardinality(Opening) - 1
  BY <1>1, WithoutOne
<1>3. IsFiniteSet(requests \ {r})
  BY <1>1, FS_RemoveElement
<1>4. ASSUME IsFiniteSet(requests'), NEW B, Opening' \subseteq B, IsFiniteSet(B),
             nextId' + Cardinality(B) <= MaxUploads + 1, nextId' \in Nat
      PROVE  CountInv'
  <2>1. Cardinality(Opening') <= Cardinality(B) /\ Cardinality(Opening') \in Nat /\ Cardinality(B) \in Nat
    BY <1>4, FS_Subset, FS_CardinalityType
  <2> QED
    BY <1>1, <1>4, <2>1 DEF CountInv
<1>5. CASE Leaves(r)
  <2>1. requests' = requests \ {r} /\ Opening' \subseteq A
    BY <1>5 DEF Leaves, Opening
  <2>2. nextId' = nextId \/ (r \in Opening /\ nextId' = nextId + 1)
    BY <1>5 DEF Leaves, Opening
  <2>3. nextId' + Cardinality(A) <= MaxUploads + 1 /\ nextId' \in Nat
    BY <1>1, <1>2, <2>2
  <2> QED
    BY <1>2, <1>3, <1>4, <2>1, <2>3
<1>6. ASSUME NEW q, Goes(r, q) \/ Installs(r, q)
      PROVE  CountInv'
  <2>1. requests' = (requests \ {r}) \cup {q} /\ IsFiniteSet(requests')
    BY <1>3, <1>6, FS_AddElement DEF Goes, Installs, Turns
  <2>2. CASE q.stage \in {"prune", "create"}
    <3>1. r \in Opening /\ nextId' = nextId /\ Opening' \subseteq A \cup {q}
      BY <1>6, <2>1, <2>2 DEF Goes, Installs, Opening
    <3>2. IsFiniteSet(A \cup {q}) /\ Cardinality(A \cup {q}) <= Cardinality(Opening)
          /\ Cardinality(A \cup {q}) \in Nat
      <4>1. /\ IsFiniteSet(A \cup {q}) /\ Cardinality(A \cup {q}) \in Nat
            /\ Cardinality(A \cup {q}) <= Cardinality(A) + 1
        BY <1>2, WithOne
      <4> HIDE DEF A
      <4> QED
        BY <1>1, <1>2, <3>1, <4>1
    <3>3. nextId' + Cardinality(A \cup {q}) <= MaxUploads + 1
      BY <1>1, <3>1, <3>2
    <3> QED
      BY <1>1, <1>4, <2>1, <3>1, <3>2, <3>3
  <2>3. CASE q.stage \notin {"prune", "create"}
    <3>1. Opening' \subseteq A
      BY <2>1, <2>3 DEF Opening
    <3>2. nextId' = nextId \/ (r \in Opening /\ nextId' = nextId + 1)
      BY <1>6 DEF Goes, Installs, Opening
    <3>3. nextId' + Cardinality(A) <= MaxUploads + 1 /\ nextId' \in Nat
      BY <1>1, <1>2, <3>2
    <3> QED
      BY <1>2, <1>4, <2>1, <3>1, <3>3
  <2> QED
    BY <2>2, <2>3
<1> QED
  BY <1>5, <1>6 DEF Effect

\* The counter stays in its range.
LEMMA CountType ==
    ASSUME CountInv', nextId \in 1..(MaxUploads + 1), nextId' \in {nextId, nextId + 1}
    PROVE  nextId' \in 1..(MaxUploads + 1)
<1>1. IsFiniteSet(requests') /\ Opening' \subseteq requests'
  BY DEF CountInv, Opening
<1>2. Cardinality(Opening') \in Nat
  BY <1>1, FS_Subset, FS_CardinalityType
<1>3. nextId' + Cardinality(Opening') <= MaxUploads + 1 /\ MaxUploads \in Nat
  BY ConstantFacts DEF CountInv
<1> QED
  BY <1>2, <1>3

LEMMA TypeKeeps ==
    ASSUME ServerTypeOK, CountInv', NEW r \in requests, Effect(r), postgres' = postgres,
           uploads' \in [UploadIds -> Upload]
    PROVE  ServerTypeOK'
<1>1. nextId' \in 1..(MaxUploads + 1)
  BY CountType DEF ServerTypeOK, Effect, Leaves, Goes, Installs
<1>2. /\ r \in Request /\ r.from \in Devices /\ r.version \in Nat /\ r.sha \in Blobs
      /\ r.id \in MaybeUpload /\ Len(log) \in Nat /\ log \in Seq(Blobs) /\ PartsOf[r.sha] \in Nat
  BY RequestTypes, StorageTypes, ConstantFacts
<1>3. Idle \in Operation
  BY DEF Idle, Operation, MaybeBlobs, MaybeUpload
<1>4. CASE Leaves(r)
  <2>1. requests' \subseteq Request /\ row' \in Row /\ log' \in Seq(Blobs)
    BY <1>4 DEF Leaves, ServerTypeOK
  <2>2. op' \in [Devices -> Operation] /\ known' \in [Devices -> Nat]
    BY <1>2, <1>3, <1>4, RequestTypes DEF Leaves, Says, ServerTypeOK, clients
  <2>3. answer' \in [Devices -> Answer]
    <3>1. \A v \in Nat : /\ [kind |-> "written", version |-> v, value |-> r.sha] \in Answer
                         /\ [kind |-> "conflict", version |-> v, value |-> NoBlob] \in Answer
                         /\ [kind |-> "failed", version |-> v, value |-> NoBlob] \in Answer
      BY <1>2 DEF Answer, MaybeBlobs
    <3>2. r.live => answer' = answer \/ \E a \in Answer : answer' = [answer EXCEPT ![r.from] = a]
      <4>1. CASE r.stage = "after" /\ Says(r, "written", r.version, r.sha)
        BY <1>2, <3>1, <4>1 DEF Says
      <4>2. CASE Says(r, "conflict", Len(log), NoBlob)
        BY <1>2, <3>1, <4>2 DEF Says
      <4>3. CASE Says(r, "failed", 0, NoBlob)
        BY <3>1, <4>3 DEF Says
      <4> QED
        BY <1>4, <4>1, <4>2, <4>3 DEF Leaves
    <3>3. ~r.live => answer' = answer
      BY <1>4 DEF Leaves, clients
    <3> QED
      BY <1>2, <3>2, <3>3, RequestTypes DEF ServerTypeOK
  <2> QED
    BY <1>1, <2>1, <2>2, <2>3 DEF ServerTypeOK
<1>5. ASSUME NEW q, Goes(r, q) \/ Installs(r, q)
      PROVE  ServerTypeOK'
  <2>1. requests' \subseteq Request /\ UNCHANGED clients
    BY <1>5 DEF Goes, Installs, Turns, ServerTypeOK
  <2>2. row' \in Row /\ log' \in Seq(Blobs)
    <3>1. CASE Goes(r, q)
      BY <3>1 DEF Goes, ServerTypeOK
    <3>2. CASE Installs(r, q)
      BY <1>2, <3>2 DEF Installs, Row, MaybeBlobs, MaybeUpload
    <3> QED
      BY <1>5, <3>1, <3>2
  <2> QED
    BY <1>1, <2>1, <2>2 DEF ServerTypeOK, clients
<1> QED
  BY <1>4, <1>5 DEF Effect

\* What the table held for u it still holds, when nobody writes u.
LEMMA OwnedKeeps ==
    ASSUME NEW r, Holds(r), NEW u \in UploadIds, u < nextId, NEW x, Owned(u, x),
           u # r.id \/ r.stage # "write" \/ x = r.sha
    PROVE  \A n \in PartIndexes : uploads'[u].parts[n] \in {NoBlob, x}
BY DEF Holds, Owned

LEMMA RowKeeps ==
    ASSUME ServerTypeOK, RowInv, RequestInv, NEW r \in requests, Effect(r), ServerTypeOK'
    PROVE  RowInv'
<1>1. nextId \in Nat /\ nextId' \in Nat /\ nextId <= nextId' /\ row.upload \in MaybeUpload /\ log \in Seq(Blobs)
      /\ r.id \in MaybeUpload /\ r.sha \in Blobs
  BY StorageTypes, RequestTypes DEF Effect, Leaves, Goes, Installs
<1>2. CASE UNCHANGED <<row, log>>
  <2>1. row.upload # NoUpload => \A n \in PartIndexes : uploads'[row.upload].parts[n] \in {NoBlob, row.sha}
    BY <1>1, OwnedKeeps DEF Effect, RowInv, RequestInv, RequestOK, MaybeUpload
  <2> QED
    BY <1>1, <1>2, <2>1 DEF RowInv, Owned, MaybeUpload, UploadIds
<1>3. ASSUME NEW q, Installs(r, q)
      PROVE  RowInv'
  <2>1. Len(log') = Len(log) + 1 /\ log'[Len(log) + 1] = r.sha /\ Len(log) \in Nat /\ row'.version = Len(log) + 1
        /\ row'.sha = r.sha
    BY <1>1, <1>3 DEF Installs
  <2>2. row'.upload # NoUpload =>
          /\ row'.parts = PartsOf[row'.sha] /\ row'.upload = r.id /\ r.id < nextId' /\ r.id \in UploadIds
    BY <1>1, <1>3 DEF Installs, RequestInv, RequestOK, MaybeUpload
  <2>3. row'.upload # NoUpload => \A n \in PartIndexes : uploads'[row'.upload].parts[n] \in {NoBlob, row'.sha}
    BY <1>3, <2>1, <2>2, OwnedKeeps DEF Effect, Installs, RequestInv, RequestOK
  <2> QED
    BY <2>1, <2>2, <2>3 DEF RowInv, Owned
<1> QED
  BY <1>2, <1>3 DEF Effect, Leaves, Goes

\* Nothing a handler does takes back what was there.
LEMMA Grows ==
    ASSUME ServerTypeOK, RowInv, RequestInv, NEW r \in requests, Effect(r)
    PROVE  /\ nextId \in Nat /\ nextId' \in Nat /\ nextId <= nextId' /\ log \in Seq(Blobs)
           /\ Len(log) \in Nat /\ Len(log') \in Nat /\ Len(log) <= Len(log')
           /\ \A v \in 1..Len(log) : log'[v] = log[v]
           /\ row'.upload \in {row.upload, NoUpload, r.id} /\ (row'.upload # row.upload => r.stage # "after")
<1>1. nextId \in Nat /\ log \in Seq(Blobs) /\ Len(log) \in Nat /\ r.sha \in Blobs
  BY StorageTypes, RequestTypes
<1>2. nextId' \in {nextId, nextId + 1}
  BY DEF Effect, Leaves, Goes, Installs
<1>3. CASE UNCHANGED <<row, log>>
  BY <1>1, <1>2, <1>3
<1>4. ASSUME NEW q, Installs(r, q)
      PROVE  /\ Len(log') = Len(log) + 1 /\ (\A v \in 1..Len(log) : log'[v] = log[v])
             /\ row'.upload \in {NoUpload, r.id} /\ r.stage # "after"
  BY <1>1, <1>4 DEF Installs
<1> QED
  BY <1>1, <1>2, <1>3, <1>4 DEF Effect, Leaves, Goes

\* A client moves only when its own request ends.
LEMMA ClientMoves ==
    ASSUME ServerTypeOK, NEW r \in requests, Effect(r)
    PROVE  \/ UNCHANGED clients
           \/ /\ r.live /\ Leaves(r)
              /\ op' = [op EXCEPT ![r.from] = Idle]
              /\ known' = known \/ (r.stage = "after" /\ known' = [known EXCEPT ![r.from] = r.version])
BY RequestTypes DEF Effect, Leaves, Goes, Installs, Turns, Says

LEMMA OpMoves ==
    ASSUME ServerTypeOK, NEW r \in requests, Effect(r), NEW d \in Devices
    PROVE  op'[d] = op[d] \/ (r.live /\ d = r.from /\ Leaves(r) /\ op'[d] = Idle)
BY ClientMoves, RequestTypes DEF ServerTypeOK, clients

LEMMA OthersStay ==
    ASSUME BaseInv, NEW r \in requests, Effect(r), ServerTypeOK', NEW p \in requests, p # r
    PROVE  RequestOK(p)'
<1>0. ServerTypeOK /\ RowInv /\ RequestInv /\ Unique /\ RequestOK(p)
  BY DEF BaseInv, RequestInv
<1>1. /\ p.from \in Devices /\ p.id \in MaybeUpload /\ p.base \in Nat /\ p.version \in Nat /\ p.live \in BOOLEAN
      /\ r.from \in Devices /\ r.live \in BOOLEAN
  BY <1>0, RequestTypes
<1>2. /\ nextId \in Nat /\ nextId' \in Nat /\ nextId <= nextId'
      /\ Len(log) \in Nat /\ Len(log') \in Nat /\ Len(log) <= Len(log')
      /\ row'.upload \in {row.upload, NoUpload, r.id}
  BY <1>0, Grows
<1>3. p.live => op'[p.from] = op[p.from]
  BY <1>0, <1>1, OpMoves DEF Unique
<1>4. p.id # NoUpload => p.id # r.id /\ p.id \in UploadIds
  BY <1>0, <1>1 DEF Unique, MaybeUpload
<1>5. p.id # NoUpload => \A n \in PartIndexes : uploads'[p.id].parts[n] \in {NoBlob, p.sha}
  BY <1>0, <1>4, OwnedKeeps DEF Effect, RequestOK
<1>6. p.id # NoUpload /\ p.stage # "after" =>
         p.id # row'.upload /\ \A d \in Devices : op'[d].pc = "parts" => op'[d].id # p.id
  BY <1>0, <1>2, <1>4, OpMoves DEF RequestOK, Idle
<1>7. p.base <= Len(log') /\ p.id < nextId' /\ (p.stage = "after" => p.version \in 1..Len(log'))
  <2>1. p.id \in Nat
    BY <1>1, IdTypes
  <2> QED
    BY <1>0, <1>1, <1>2, <2>1 DEF RequestOK
<1> QED
  BY <1>0, <1>3, <1>5, <1>6, <1>7 DEF RequestOK, Owned

LEMMA GoesStays ==
    ASSUME BaseInv, NEW r \in requests, Holds(r), NEW q, Goes(r, q), ServerTypeOK'
    PROVE  RequestOK(q)'
<1>0. ServerTypeOK /\ RowInv /\ RequestInv /\ RequestOK(r) /\ DownloadInv
  BY DEF BaseInv, RequestInv
<1>1. /\ r.id \in MaybeUpload /\ r.sha \in Blobs /\ nextId \in Nat /\ q.id \in MaybeUpload
  BY <1>0, RequestTypes, StorageTypes DEF Goes, Turns, Request
<1>2. q.id \in Nat /\ r.id \in Nat /\ (q.id # NoUpload => q.id \in UploadIds)
  BY <1>1, IdTypes
<1>3. q.from = r.from /\ q.live = r.live /\ q.sha = r.sha /\ q.base = r.base /\ UNCHANGED <<row, log, op>>
  BY DEF Goes, Turns, clients
<1>4. CASE q.id = r.id /\ nextId' = nextId
  <2>1. q.id # NoUpload => \A n \in PartIndexes : uploads'[q.id].parts[n] \in {NoBlob, q.sha}
    BY <1>0, <1>2, <1>3, <1>4, OwnedKeeps DEF RequestOK
  <2> QED
    BY <1>0, <1>3, <1>4, <2>1 DEF RequestOK, Owned, Goes
<1>5. CASE r.stage = "create" /\ q.id = nextId /\ nextId' = nextId + 1 /\ uploads'[q.id].parts = Unused.parts
  <2>1. \A n \in PartIndexes : uploads'[q.id].parts[n] \in {NoBlob, q.sha}
    BY <1>5, UnusedType
  <2>2. row.upload # NoUpload => row.upload < nextId
    BY <1>0 DEF RowInv
  <2>3. \A d \in Devices : op[d].pc = "parts" => op[d].id # q.id
    <3>1. \A d \in Devices : op[d].pc = "parts" => op[d].id < nextId
      BY <1>0 DEF DownloadInv, DownloadOK
    <3> QED
      BY <1>1, <1>5, <3>1
  <2>4. q.id # NoUpload => q.id # row.upload
    BY <1>1, <1>5, <2>2
  <2> QED
    BY <1>0, <1>1, <1>3, <1>5, <2>1, <2>3, <2>4 DEF RequestOK, Owned, Goes
<1> QED
  BY <1>4, <1>5 DEF Goes

LEMMA InstallsStays ==
    ASSUME BaseInv, NEW r \in requests, Holds(r), NEW q, Installs(r, q), ServerTypeOK'
    PROVE  RequestOK(q)'
<1>0. ServerTypeOK /\ RequestOK(r)
  BY DEF BaseInv, RequestInv
<1>1. r.id \in MaybeUpload /\ r.sha \in Blobs /\ nextId \in Nat /\ log \in Seq(Blobs) /\ Len(log) \in Nat
  BY <1>0, RequestTypes, StorageTypes
<1>2. q.from = r.from /\ q.live = r.live /\ q.sha = r.sha /\ q.base = r.base /\ UNCHANGED <<op, nextId>>
  BY DEF Installs, Turns, clients
<1>3. Len(log') = Len(log) + 1 /\ q.version = Len(log) + 1 /\ q.stage = "after" /\ q.id = r.id
  BY <1>1 DEF Installs
<1>4. q.id # NoUpload => \A n \in PartIndexes : uploads'[q.id].parts[n] \in {NoBlob, q.sha}
  BY <1>0, <1>1, <1>2, <1>3, OwnedKeeps DEF RequestOK, MaybeUpload
<1> QED
  BY <1>0, <1>1, <1>2, <1>3, <1>4 DEF RequestOK, Owned, Installs

LEMMA RequestsKeep ==
    ASSUME BaseInv, NEW r \in requests, Effect(r), ServerTypeOK'
    PROVE  RequestInv'
<1>1. CASE Leaves(r)
  BY <1>1, OthersStay DEF Leaves, RequestInv
<1>2. ASSUME NEW q, Goes(r, q) \/ Installs(r, q)
      PROVE  RequestInv'
  <2>1. requests' = (requests \ {r}) \cup {q}
    BY <1>2 DEF Goes, Installs, Turns
  <2>2. RequestOK(q)'
    BY <1>2, GoesStays, InstallsStays DEF Effect
  <2> QED
    BY <2>1, <2>2, OthersStay DEF RequestInv
<1> QED
  BY <1>1, <1>2 DEF Effect

LEMMA UniqueKeeps ==
    ASSUME BaseInv, NEW r \in requests, Effect(r)
    PROVE  Unique'
<1>0. ServerTypeOK /\ Unique
  BY DEF BaseInv
<1>1. CASE Leaves(r)
  BY <1>0, <1>1 DEF Leaves, Unique
<1>2. ASSUME NEW q, Goes(r, q) \/ Installs(r, q)
      PROVE  Unique'
  <2>1. requests' = (requests \ {r}) \cup {q} /\ q.from = r.from /\ q.live = r.live
    BY <1>2 DEF Goes, Installs, Turns
  <2>2. q.id = r.id \/ q.id = nextId
    BY <1>2 DEF Goes, Installs
  <2>3. \A p \in requests : p.id # nextId
    <3>1. \A p \in requests : p.id < nextId /\ nextId \in Nat
      BY <1>0, StorageTypes DEF BaseInv, RequestInv, RequestOK
    <3> QED
      BY <3>1
  <2> QED
    BY <1>0, <2>1, <2>2, <2>3 DEF Unique
<1> QED
  BY <1>1, <1>2 DEF Effect

LEMMA WaitsKeeps ==
    ASSUME BaseInv, NEW r \in requests, Effect(r)
    PROVE  Waits'
<1>0. ServerTypeOK /\ Waits
  BY DEF BaseInv
<1>1. SUFFICES ASSUME NEW d \in Devices, op'[d].pc = "pushing"
               PROVE  \E p \in requests' : p.live /\ p.from = d
  BY DEF Waits
<1>2. op'[d] = op[d]
  BY <1>0, <1>1, OpMoves DEF Idle
<1>3. PICK p \in requests : p.live /\ p.from = d
  BY <1>0, <1>1, <1>2 DEF Waits
<1>4. CASE Leaves(r)
  <2>1. p # r
    <3>1. r.live => op'[r.from] = Idle
      BY <1>0, <1>4, RequestTypes DEF Leaves, Says, ServerTypeOK
    <3> QED
      BY <1>1, <1>3, <3>1 DEF Idle
  <2> QED
    BY <1>3, <1>4, <2>1 DEF Leaves
<1>5. ASSUME NEW q, Goes(r, q) \/ Installs(r, q)
      PROVE  \E p1 \in requests' : p1.live /\ p1.from = d
  BY <1>3, <1>5 DEF Goes, Installs, Turns
<1> QED
  BY <1>4, <1>5 DEF Effect

LEMMA DownloadsKeep ==
    ASSUME BaseInv, NEW r \in requests, Effect(r)
    PROVE  DownloadInv'
<1>0. ServerTypeOK /\ RowInv /\ RequestInv /\ DownloadInv /\ RequestOK(r)
  BY DEF BaseInv, RequestInv
<1>1. /\ nextId \in Nat /\ nextId' \in Nat /\ nextId <= nextId'
      /\ Len(log) \in Nat /\ Len(log') \in Nat /\ Len(log) <= Len(log')
      /\ \A v \in 1..Len(log) : log'[v] = log[v]
  BY <1>0, Grows
<1>2. SUFFICES ASSUME NEW d \in Devices
               PROVE  DownloadOK(op[d])' /\ known'[d] <= Len(log')
  BY DEF DownloadInv
<1>3. op[d].low \in Nat /\ op[d].version \in Nat /\ known[d] \in Nat /\ DownloadOK(op[d]) /\ known[d] <= Len(log)
  BY <1>0, DeviceTypes DEF DownloadInv
<1>4. known'[d] <= Len(log')
  <2>1. known'[d] = known[d] \/ (r.stage = "after" /\ known'[d] = r.version)
    BY <1>0, ClientMoves DEF ServerTypeOK, clients
  <2> QED
    BY <1>0, <1>1, <1>3, <2>1 DEF RequestOK
<1>5. CASE op'[d] = Idle
  BY <1>4, <1>5 DEF DownloadOK, Idle
<1>6. CASE op'[d] = op[d]
  <2>1. op[d].pc = "parts" => \A n \in PartIndexes : uploads'[op[d].id].parts[n] \in {NoBlob, op[d].sha}
    BY <1>0, <1>3, OwnedKeeps DEF Effect, DownloadOK, RequestOK
  <2>2. op[d].pc = "parts" => op[d].id < nextId'
    <3>1. op[d].id \in UploadIds => op[d].id \in Nat
      BY ConstantFacts
    <3> QED
      BY <1>1, <1>3, <3>1 DEF DownloadOK
  <2> QED
    BY <1>1, <1>3, <1>4, <1>6, <2>1, <2>2 DEF DownloadOK, Owned
<1> QED
  BY <1>0, <1>4, <1>5, <1>6, OpMoves

LEMMA HandlersKeepBase ==
    ASSUME BaseInv, ~postgres => ClaimsComplete, NEW r \in requests, Handle(r),
           uploads' \in [UploadIds -> Upload]
    PROVE  BaseInv'
<1>1. Effect(r) /\ postgres' = postgres
  <2>1. Effect(r)
    BY HandleEffect DEF BaseInv
  <2>2. postgres' = postgres
    BY DEF Handle, Snapshot, Prune, CreateUpload, PutPart, PutBlob, ReadOpenParts, CommitUpload,
           ExplainClaim, CurrentVersion, LoseRequest, storage
  <2> QED
    BY <2>1, <2>2
<1>2. CountInv'
  BY <1>1, CountKeeps DEF BaseInv
<1>3. ServerTypeOK'
  BY <1>1, <1>2, TypeKeeps DEF BaseInv
<1>4. RowInv'
  BY <1>1, <1>3, RowKeeps DEF BaseInv
<1> QED
  BY <1>1, <1>2, <1>3, <1>4, RequestsKeep, UniqueKeeps, WaitsKeeps, DownloadsKeep DEF BaseInv

-----------------------------------------------------------------------------
(* The devices and time keep it.                                           *)

\* A push opens one request, with no upload yet.
LEMMA PushKeepsBase ==
    ASSUME BaseInv, NEW d \in Devices, Push(d)
    PROVE  BaseInv'
<1>0. ServerTypeOK /\ CountInv /\ RowInv /\ RequestInv /\ Unique /\ Waits /\ DownloadInv
  BY DEF BaseInv
<1>1. PICK x \in Blobs :
        /\ PartsOf[x] > 1 => nextId + Cardinality(Opening) \in UploadIds
        /\ op' = [op EXCEPT ![d] = [Idle EXCEPT !.pc = "pushing", !.sha = x, !.base = known[d]]]
        /\ requests' = requests \cup
             {NewRequest(d, IF PartsOf[x] = 1 THEN "put" ELSE "prune", NoUpload, 0, x, known[d])}
  BY DEF Push
<1>q. PICK q : q = NewRequest(d, IF PartsOf[x] = 1 THEN "put" ELSE "prune", NoUpload, 0, x, known[d])
  OBVIOUS
<1>2. /\ q.from = d /\ q.live = TRUE /\ q.id = NoUpload /\ q.sha = x /\ q.base = known[d]
      /\ q.stage = (IF PartsOf[x] = 1 THEN "put" ELSE "prune")
  BY <1>q DEF NewRequest
<1>3. q \in Request
  <2>1. known[d] \in Nat /\ NoUpload \in MaybeUpload
    BY <1>0, DeviceTypes DEF MaybeUpload
  <2>2. (IF PartsOf[x] = 1 THEN "put" ELSE "prune") \in Stages
    BY DEF Stages
  <2> QED
    BY <1>q, <2>1, <2>2 DEF NewRequest, Request
<1>4. requests' = requests \cup {q}
  BY <1>1, <1>q
<1>5. op[d].pc = "idle" /\ UNCHANGED <<postgres, row, uploads, nextId, known, log>>
      /\ answer' = [answer EXCEPT ![d] = NoAnswer]
  BY DEF Push, storage
<1>6. \A e \in Devices : e # d => op'[e] = op[e]
  BY <1>0, <1>1 DEF ServerTypeOK
<1>7. op'[d].pc = "pushing" /\ op'[d].sha = x /\ op'[d].base = known[d]
  BY <1>0, <1>1 DEF ServerTypeOK, Idle
<1>8. \A p \in requests : ~(p.live /\ p.from = d)
  BY <1>0, <1>5 DEF RequestInv, RequestOK
<1>9. ServerTypeOK'
  <2>1. [Idle EXCEPT !.pc = "pushing", !.sha = x, !.base = known[d]] \in Operation
    <3>1. Idle \in Operation
      BY DEF Idle, Operation, MaybeBlobs, MaybeUpload
    <3>2. known[d] \in Nat /\ x \in MaybeBlobs
      BY <1>0, DeviceTypes DEF MaybeBlobs
    <3> QED
      BY <3>1, <3>2 DEF Operation
  <2>2. NoAnswer \in Answer
    BY DEF NoAnswer, Answer, MaybeBlobs
  <2>3. op' \in [Devices -> Operation]
    BY <1>0, <1>1, <2>1 DEF ServerTypeOK
  <2> QED
    BY <1>0, <1>3, <1>4, <1>5, <2>2, <2>3 DEF ServerTypeOK
<1>10. CountInv'
  <2>1. IsFiniteSet(requests') /\ IsFiniteSet(Opening) /\ Cardinality(Opening) \in Nat
    BY <1>0, <1>4, FS_AddElement, FS_Subset, FS_CardinalityType DEF CountInv, Opening
  <2>2. nextId \in Nat /\ MaxUploads \in Nat /\ nextId + Cardinality(Opening) <= MaxUploads + 1
    BY <1>0, StorageTypes, ConstantFacts DEF CountInv
  <2>3. CASE PartsOf[x] = 1
    <3>1. Opening' = Opening
      BY <1>2, <1>4, <2>3 DEF Opening
    <3> QED
      BY <1>5, <2>1, <2>2, <3>1 DEF CountInv
  <2>4. CASE PartsOf[x] # 1
    <3>1. Opening' \subseteq Opening \cup {q}
      BY <1>4 DEF Opening
    <3>2. /\ IsFiniteSet(Opening \cup {q}) /\ Cardinality(Opening \cup {q}) \in Nat
          /\ Cardinality(Opening \cup {q}) <= Cardinality(Opening) + 1
      BY <2>1, WithOne
    <3>3. Cardinality(Opening') <= Cardinality(Opening \cup {q}) /\ Cardinality(Opening') \in Nat
      BY <3>1, <3>2, FS_Subset, FS_CardinalityType
    <3>4. PartsOf[x] > 1
      BY <2>4, ConstantFacts
    <3>5. nextId + Cardinality(Opening) <= MaxUploads
      BY <1>1, <2>1, <2>2, <3>4 DEF UploadIds
    <3>6. nextId + Cardinality(Opening') <= MaxUploads + 1
      BY <2>1, <2>2, <3>2, <3>3, <3>5
    <3> QED
      BY <1>5, <2>1, <3>6 DEF CountInv
  <2> QED
    BY <2>3, <2>4
<1>11. RowInv'
  BY <1>0, <1>5 DEF RowInv, Owned
<1>12. RequestInv'
  <2>1. ASSUME NEW p \in requests
        PROVE  RequestOK(p)'
    BY <1>0, <1>5, <1>6, <1>7, <1>8, <2>1, RequestTypes DEF RequestInv, RequestOK, Owned
  <2>2. RequestOK(q)'
    <3>1. known[d] <= Len(log) /\ nextId > 0
      BY <1>0 DEF DownloadInv, ServerTypeOK
    <3> QED
      BY <1>2, <1>5, <1>7, <3>1 DEF RequestOK, Owned, NoUpload
  <2> QED
    BY <1>4, <2>1, <2>2 DEF RequestInv
<1>13. Unique'
  BY <1>0, <1>2, <1>4, <1>8 DEF Unique
<1>14. Waits'
  BY <1>0, <1>2, <1>4, <1>6 DEF Waits
<1>15. DownloadInv'
  BY <1>0, <1>5, <1>6, <1>7 DEF DownloadInv, DownloadOK, Owned
<1> QED
  BY <1>9, <1>10, <1>11, <1>12, <1>13, <1>14, <1>15 DEF BaseInv

\* Giving up leaves one request behind, with nobody waiting.
LEMMA GiveUpTurns ==
    ASSUME ServerTypeOK, Unique, Waits, NEW d \in Devices, GiveUp(d)
    PROVE  \E r \in requests :
             /\ r.live /\ r.from = d
             /\ requests' = (requests \ {r}) \cup {[r EXCEPT !.live = FALSE]}
<1>1. PICK r \in requests : r.live /\ r.from = d
  BY DEF GiveUp, Waits
<1>2. \A p \in requests : p # r => (IF p.from = d THEN [p EXCEPT !.live = FALSE] ELSE p) = p
  <2>1. ASSUME NEW p \in requests, p # r, p.from = d
        PROVE  [p EXCEPT !.live = FALSE] = p
    <3>1. p.live = FALSE
      BY <1>1, <2>1, RequestTypes DEF Unique
    <3>2. p \in Request
      BY RequestTypes
    <3> QED
      BY <3>1, <3>2 DEF Request
  <2> QED
    BY <2>1
<1>3. requests' = {IF p.from = d THEN [p EXCEPT !.live = FALSE] ELSE p : p \in requests}
  BY DEF GiveUp
<1> DEFINE f(p) == IF p.from = d THEN [p EXCEPT !.live = FALSE] ELSE p
<1>4. f(r) = [r EXCEPT !.live = FALSE] /\ \A p \in requests : p # r => f(p) = p
  BY <1>1, <1>2
<1>5. requests' = {f(p) : p \in requests}
  BY <1>3
<1> HIDE DEF f
<1>6. requests' = (requests \ {r}) \cup {[r EXCEPT !.live = FALSE]}
  BY <1>4, <1>5
<1> QED
  BY <1>1, <1>6

LEMMA GiveUpKeepsBase ==
    ASSUME BaseInv, NEW d \in Devices, GiveUp(d)
    PROVE  BaseInv'
<1>0. ServerTypeOK /\ CountInv /\ RowInv /\ RequestInv /\ Unique /\ Waits /\ DownloadInv
  BY DEF BaseInv
<1>1. PICK r \in requests :
         /\ r.live /\ r.from = d
         /\ requests' = (requests \ {r}) \cup {[r EXCEPT !.live = FALSE]}
  BY <1>0, GiveUpTurns
<1> DEFINE q == [r EXCEPT !.live = FALSE]
<1>2. /\ q \in Request /\ q.from = d /\ q.live = FALSE /\ q.id = r.id /\ q.sha = r.sha /\ q.base = r.base
      /\ q.stage = r.stage /\ q.n = r.n /\ q.version = r.version
  BY <1>0, <1>1, RequestTypes DEF Request
<1> HIDE DEF q
<1>3. requests' = (requests \ {r}) \cup {q}
  BY <1>1 DEF q
<1>4. /\ UNCHANGED <<postgres, row, uploads, nextId, known, log>> /\ op' = [op EXCEPT ![d] = Idle]
      /\ answer' = [answer EXCEPT ![d] = [kind |-> "failed", version |-> 0, value |-> NoBlob]]
  BY DEF GiveUp, Ended, storage
<1>5. op'[d] = Idle /\ \A e \in Devices : e # d => op'[e] = op[e]
  BY <1>0, <1>4 DEF ServerTypeOK
<1>6. ServerTypeOK'
  <2>1. Idle \in Operation /\ [kind |-> "failed", version |-> 0, value |-> NoBlob] \in Answer
    BY DEF Idle, Operation, MaybeBlobs, MaybeUpload, Answer
  <2> QED
    BY <1>0, <1>2, <1>3, <1>4, <2>1 DEF ServerTypeOK
<1>7. CountInv'
  <2>1. /\ IsFiniteSet(requests) /\ IsFiniteSet(Opening) /\ Cardinality(Opening) \in Nat /\ nextId \in Nat
        /\ MaxUploads \in Nat /\ nextId + Cardinality(Opening) <= MaxUploads + 1
    BY <1>0, FS_Subset, FS_CardinalityType, StorageTypes, ConstantFacts DEF CountInv, Opening
  <2>2. IsFiniteSet(requests')
    BY <1>3, <2>1, FS_RemoveElement, FS_AddElement
  <2>3. Cardinality(Opening') \in Nat /\ Cardinality(Opening') <= Cardinality(Opening)
    <3>1. CASE r \in Opening
      <4>1. Opening' \subseteq (Opening \ {r}) \cup {q}
        BY <1>3 DEF Opening
      <4>2. /\ IsFiniteSet(Opening \ {r}) /\ Cardinality(Opening \ {r}) = Cardinality(Opening) - 1
        BY <2>1, <3>1, WithoutOne
      <4>3. /\ IsFiniteSet((Opening \ {r}) \cup {q}) /\ Cardinality((Opening \ {r}) \cup {q}) \in Nat
            /\ Cardinality((Opening \ {r}) \cup {q}) <= Cardinality(Opening \ {r}) + 1
        BY <4>2, WithOne
      <4>4. Cardinality(Opening') <= Cardinality((Opening \ {r}) \cup {q}) /\ Cardinality(Opening') \in Nat
        BY <4>1, <4>3, FS_Subset, FS_CardinalityType
      <4> QED
        BY <2>1, <4>2, <4>3, <4>4
    <3>2. CASE r \notin Opening
      <4>1. Opening' \subseteq Opening
        BY <1>2, <1>3, <3>2 DEF Opening
      <4> QED
        BY <2>1, <4>1, FS_Subset, FS_CardinalityType
    <3> QED
      BY <3>1, <3>2
  <2>4. nextId + Cardinality(Opening') <= MaxUploads + 1
    BY <2>1, <2>3
  <2> QED
    BY <1>4, <2>2, <2>4 DEF CountInv
<1>8. RowInv'
  BY <1>0, <1>4 DEF RowInv, Owned
<1>9. RequestInv'
  <2>1. ASSUME NEW p \in requests, p # r
        PROVE  RequestOK(p)'
    <3>1. p.live => p.from # d
      BY <1>0, <1>1, <2>1 DEF Unique
    <3>2. p.from \in Devices
      BY <1>0, RequestTypes
    <3>3. RequestOK(p)
      BY <1>0 DEF RequestInv
    <3> QED
      BY <1>4, <1>5, <3>1, <3>2, <3>3 DEF RequestOK, Owned, Idle
  <2>2. RequestOK(q)'
    <3>1. RequestOK(r)
      BY <1>0 DEF RequestInv
    <3> QED
      BY <1>2, <1>4, <1>5, <3>1 DEF RequestOK, Owned, Idle
  <2> QED
    BY <1>3, <2>1, <2>2 DEF RequestInv
<1>10. Unique'
  BY <1>0, <1>2, <1>3 DEF Unique
<1>11. Waits'
  BY <1>0, <1>1, <1>3, <1>5 DEF Waits, Idle
<1>12. DownloadInv'
  BY <1>0, <1>4, <1>5 DEF DownloadInv, DownloadOK, Owned, Idle
<1> QED
  BY <1>6, <1>7, <1>8, <1>9, <1>10, <1>11, <1>12 DEF BaseInv

\* A download moves its own device only.
LEMMA DownloadStep ==
    ASSUME BaseInv, NEW d \in Devices, NEW o \in Operation,
           UNCHANGED <<storage, requests, log>>,
           op[d].pc # "pushing", op' = [op EXCEPT ![d] = o], o.pc # "pushing", DownloadOK(o),
           o.pc = "parts" => \A r \in requests : r.id # NoUpload /\ r.stage # "after" => o.id # r.id,
           NEW v \in Nat, v <= Len(log), known' = known \/ known' = [known EXCEPT ![d] = v],
           NEW a \in Answer, answer' = answer \/ answer' = [answer EXCEPT ![d] = a]
    PROVE  BaseInv'
<1>0. ServerTypeOK /\ CountInv /\ RowInv /\ RequestInv /\ Unique /\ Waits /\ DownloadInv
      /\ UNCHANGED <<postgres, row, uploads, nextId, requests, log>>
  BY DEF BaseInv, storage
<1>1. op'[d] = o /\ \A e \in Devices : e # d => op'[e] = op[e]
  BY <1>0 DEF ServerTypeOK
<1>2. \A e \in Devices : known'[e] = known[e] \/ known'[e] = v
  BY <1>0 DEF ServerTypeOK
<1>3. ServerTypeOK'
  BY <1>0 DEF ServerTypeOK
<1>4. CountInv' /\ RowInv' /\ Unique'
  BY <1>0 DEF CountInv, Opening, RowInv, Owned, Unique
<1>5. RequestInv'
  <2>1. ASSUME NEW p \in requests
        PROVE  RequestOK(p)'
    <3>1. RequestOK(p)
      BY <1>0 DEF RequestInv
    <3>2. p.live => op'[p.from] = op[p.from]
      BY <1>0, <1>1, <3>1, RequestTypes DEF RequestOK
    <3>3. p.id # NoUpload /\ p.stage # "after" => \A e \in Devices : op'[e].pc = "parts" => op'[e].id # p.id
      BY <1>1, <3>1 DEF RequestOK
    <3> QED
      BY <1>0, <3>1, <3>2, <3>3 DEF RequestOK, Owned
  <2> QED
    BY <1>0, <2>1 DEF RequestInv
<1>6. Waits'
  BY <1>0, <1>1 DEF Waits
<1>7. DownloadInv'
  <2>1. ASSUME NEW e \in Devices
        PROVE  DownloadOK(op[e])'
    <3>1. op'[e] = o \/ op'[e] = op[e]
      BY <1>1
    <3>2. DownloadOK(op[e])
      BY <1>0 DEF DownloadInv
    <3>3. CASE op'[e] = op[e]
      BY <1>0, <3>2, <3>3 DEF DownloadOK, Owned
    <3>4. CASE op'[e] = o
      BY <1>0, <3>4 DEF DownloadOK, Owned
    <3> QED
      BY <3>1, <3>3, <3>4
  <2>2. \A e \in Devices : known'[e] <= Len(log')
    BY <1>0, <1>2 DEF DownloadInv
  <2> QED
    BY <2>1, <2>2 DEF DownloadInv
<1> QED
  BY <1>3, <1>4, <1>5, <1>6, <1>7 DEF BaseInv

\* What a download's step makes of its operation and of the answer.
LEMMA PullMoves ==
    ASSUME BaseInv, NEW d \in Devices, Pull(d)
    PROVE  BaseInv'
<1> DEFINE o == [Idle EXCEPT !.pc = "status", !.low = Len(log)]
<1>0. ServerTypeOK /\ Len(log) \in Nat
  BY StorageTypes DEF BaseInv
<1>1. Idle \in Operation /\ NoAnswer \in Answer
  BY DEF Idle, Operation, MaybeBlobs, MaybeUpload, NoAnswer, Answer
<1>2. o \in Operation /\ o.pc = "status" /\ o.low = Len(log)
  BY <1>0, <1>1 DEF Operation
<1>3. /\ op' = [op EXCEPT ![d] = o] /\ op[d].pc = "idle" /\ UNCHANGED <<storage, requests, known, log>>
      /\ answer' = [answer EXCEPT ![d] = NoAnswer]
  BY DEF Pull
<1> HIDE DEF o
<1>4. DownloadOK(o)
  BY <1>0, <1>2 DEF DownloadOK
<1>5. op[d].pc # "pushing" /\ o.pc # "pushing" /\ o.pc # "parts" /\ Len(log) <= Len(log)
  BY <1>0, <1>2, <1>3
<1>6. known' = known
  BY <1>3
<1> QED
  BY <1>0, <1>1, <1>2, <1>3, <1>4, <1>5, <1>6, DownloadStep

LEMMA EndedKeepsBase ==
    ASSUME BaseInv, NEW d \in Devices, UNCHANGED <<storage, requests, log>>, op[d].pc # "pushing",
           NEW v \in Nat, v <= Len(log), known' = known \/ known' = [known EXCEPT ![d] = v],
           NEW kind \in {"value", "empty", "failed", "corrupt"}, NEW w \in Nat, NEW x \in MaybeBlobs,
           Ended(d, kind, w, x)
    PROVE  BaseInv'
<1>1. Idle \in Operation /\ [kind |-> kind, version |-> w, value |-> x] \in Answer
  BY DEF Idle, Operation, MaybeBlobs, MaybeUpload, Answer
<1>2. Idle.pc = "idle" /\ DownloadOK(Idle)
  BY DEF Idle, DownloadOK
<1>3. op' = [op EXCEPT ![d] = Idle]
      /\ answer' = [answer EXCEPT ![d] = [kind |-> kind, version |-> w, value |-> x]]
  BY DEF Ended
<1> QED
  BY <1>1, <1>2, <1>3, DownloadStep

LEMMA StartOverKeepsBase ==
    ASSUME BaseInv, NEW d \in Devices, UNCHANGED <<storage, requests, log, known>>,
           op[d].pc \in {"blob", "parts"}, StartOver(d)
    PROVE  BaseInv'
<1>0. ServerTypeOK /\ op[d].low \in Nat /\ op[d].tries \in Nat /\ op[d].low <= Len(log) /\ Len(log) \in Nat
  BY DeviceTypes, StorageTypes DEF BaseInv, DownloadInv, DownloadOK
<1>1. CASE Ended(d, "failed", 0, NoBlob)
  BY <1>0, <1>1, EndedKeepsBase DEF MaybeBlobs
<1>2. CASE /\ op' = [op EXCEPT ![d] = [Idle EXCEPT !.pc = "status", !.low = op[d].low, !.tries = op[d].tries + 1]]
           /\ UNCHANGED answer
  <2> DEFINE o == [Idle EXCEPT !.pc = "status", !.low = op[d].low, !.tries = op[d].tries + 1]
  <2>1. Idle \in Operation /\ NoAnswer \in Answer
    BY DEF Idle, Operation, MaybeBlobs, MaybeUpload, NoAnswer, Answer
  <2>2. o \in Operation /\ o.pc = "status" /\ o.low = op[d].low
    <3>1. \A low, tries \in Nat :
             LET p == [Idle EXCEPT !.pc = "status", !.low = low, !.tries = tries]
             IN  p \in Operation /\ p.pc = "status" /\ p.low = low
      BY <2>1 DEF Operation
    <3>2. op[d].tries + 1 \in Nat
      BY <1>0
    <3> QED
      BY <1>0, <3>1, <3>2
  <2>3. op' = [op EXCEPT ![d] = o]
    BY <1>2
  <2> HIDE DEF o
  <2>4. DownloadOK(o)
    BY <1>0, <2>2 DEF DownloadOK
  <2> QED
    BY <1>0, <1>2, <2>1, <2>2, <2>3, <2>4, DownloadStep
<1> QED
  BY <1>1, <1>2 DEF StartOver

\* The operation of a download that was told what the current version is.
Reading(o, pc, v, x, id, parts, got) ==
    [o EXCEPT !.pc = pc, !.version = v, !.sha = x, !.id = id, !.parts = parts, !.got = got]

Told(o, new, pc, v, x, id, parts, got) ==
    /\ new \in Operation /\ new.pc = pc /\ new.low = o.low /\ new.version = v
    /\ new.sha = x /\ new.id = id /\ new.parts = parts /\ new.got = got

LEMMA ReadingType ==
    ASSUME NEW o \in Operation, NEW pc \in {"blob", "parts"}, NEW v \in Nat, NEW x \in MaybeBlobs,
           NEW id \in MaybeUpload, NEW parts \in Nat, NEW got \in Seq(MaybeBlobs)
    PROVE  Told(o, Reading(o, pc, v, x, id, parts, got), pc, v, x, id, parts, got)
BY DEF Operation, Reading, Told

LEMMA ReadStatusKeepsBase ==
    ASSUME BaseInv, NEW d \in Devices, ReadStatus(d)
    PROVE  BaseInv'
<1>0. ServerTypeOK /\ RowInv /\ RequestInv /\ op[d].pc = "status" /\ UNCHANGED <<storage, requests, known, log>>
  BY DEF BaseInv, ReadStatus
<1>1. /\ op[d] \in Operation /\ op[d].low \in Nat /\ op[d].low <= Len(log) /\ Len(log) \in Nat
      /\ row \in Row /\ row.version = Len(log) /\ op \in [Devices -> Operation]
  BY <1>0, DeviceTypes, StorageTypes DEF BaseInv, DownloadInv, DownloadOK, ServerTypeOK, RowInv
<1>2. CASE row.version = 0
  BY <1>0, <1>1, <1>2, EndedKeepsBase DEF ReadStatus, MaybeBlobs
<1>3. CASE row.version # 0
  <2> DEFINE pc == IF row.upload = NoUpload THEN "blob" ELSE "parts"
             o == Reading(op[d], pc, row.version, row.sha, row.upload, row.parts, <<>>)
  <2>1. /\ op' = [op EXCEPT ![d].pc = IF row.upload = NoUpload THEN "blob" ELSE "parts",
                            ![d].version = row.version, ![d].sha = row.sha,
                            ![d].id = row.upload, ![d].parts = row.parts, ![d].got = <<>>]
        /\ UNCHANGED answer
    BY <1>3 DEF ReadStatus
  <2>2. op' = [op EXCEPT ![d] = o]
    BY <1>1, <2>1 DEF Operation, Reading
  <2>3. /\ o \in Operation /\ o.pc = (IF row.upload = NoUpload THEN "blob" ELSE "parts") /\ o.low = op[d].low
        /\ o.version = row.version /\ o.sha = row.sha /\ o.id = row.upload /\ o.parts = row.parts /\ o.got = <<>>
    <3>1. pc \in {"blob", "parts"}
      OBVIOUS
    <3>2. <<>> \in Seq(MaybeBlobs)
      OBVIOUS
    <3> HIDE DEF pc
    <3>3. row.version \in Nat /\ row.sha \in MaybeBlobs /\ row.upload \in MaybeUpload /\ row.parts \in Nat
      BY <1>0, StorageTypes
    <3>4. op[d] \in Operation
      BY <1>1
    <3>5. Told(op[d], o, pc, row.version, row.sha, row.upload, row.parts, <<>>)
      BY <3>1, <3>2, <3>3, <3>4, ReadingType
    <3> QED
      BY <3>5 DEF Told, pc
  <2> HIDE DEF o
  <2>4. row.version \in 1..Len(log) /\ row.sha = log[row.version] /\ row.sha \in Blobs
    <3>1. row.version \in 1..Len(log)
      BY <1>1, <1>3
    <3> QED
      BY <1>0, <1>1, <3>1, StorageTypes DEF RowInv
  <2>5. o.pc = "parts" =>
          /\ row.upload \in UploadIds /\ row.upload < nextId /\ row.parts = PartsOf[row.sha]
          /\ Owned(row.upload, row.sha) /\ PartsOf[row.sha] > 0
    BY <1>0, <2>3, <2>4, StorageTypes, IdTypes, ConstantFacts DEF RowInv
  <2>6. DownloadOK(o)
    <3>1. Len(o.got) = 0
      BY <2>3
    <3> QED
      BY <1>1, <2>3, <2>4, <2>5, <3>1 DEF DownloadOK
  <2>7. \A r \in requests : r.id # NoUpload /\ r.stage # "after" => o.id # r.id
    BY <1>0, <2>3 DEF RequestInv, RequestOK
  <2>8. NoAnswer \in Answer
    BY DEF NoAnswer, Answer, MaybeBlobs
  <2>9. o.pc # "pushing"
    BY <2>3
  <2> QED
    BY <1>0, <1>1, <2>1, <2>2, <2>3, <2>6, <2>7, <2>8, <2>9, DownloadStep
<1> QED
  BY <1>2, <1>3

LEMMA DownloadedKeepsBase ==
    ASSUME BaseInv, NEW d \in Devices, UNCHANGED <<storage, requests, log>>, op[d].pc # "pushing",
           NEW v \in Nat, v <= Len(log), NEW x \in MaybeBlobs, NEW got, Downloaded(d, v, x, got)
    PROVE  BaseInv'
<1>1. known' = [known EXCEPT ![d] = v]
  BY DEF Downloaded
<1>2. Ended(d, "value", v, x) \/ Ended(d, "corrupt", v, NoBlob)
  BY DEF Downloaded
<1>3. NoBlob \in MaybeBlobs
  BY DEF MaybeBlobs
<1> QED
  BY <1>1, <1>2, <1>3, EndedKeepsBase

LEMMA GetBlobKeepsBase ==
    ASSUME BaseInv, NEW d \in Devices, GetBlob(d)
    PROVE  BaseInv'
<1>1. op[d].pc = "blob" /\ UNCHANGED <<storage, requests, log>>
  BY DEF GetBlob
<1>2. row.version \in Nat /\ row.version <= Len(log) /\ row.sha \in MaybeBlobs
  BY StorageTypes DEF BaseInv, RowInv
<1>3. CASE StartOver(d) /\ UNCHANGED known
  BY <1>1, <1>3, StartOverKeepsBase
<1>4. CASE Downloaded(d, row.version, row.sha, <<row.sha>>)
  BY <1>1, <1>2, <1>4, DownloadedKeepsBase
<1> QED
  BY <1>3, <1>4 DEF GetBlob

\* The part a download reads is the one it was promised.
LEMMA PartIsPromised ==
    ASSUME ServerTypeOK, NEW d \in Devices, op[d].pc = "parts", DownloadOK(op[d]),
           uploads[op[d].id].parts[Len(op[d].got)] # NoBlob
    PROVE  /\ uploads[op[d].id].parts[Len(op[d].got)] = op[d].sha /\ op[d].sha \in Blobs
           /\ op[d].id \in UploadIds /\ op[d].version \in 1..Len(log)
           /\ Append(op[d].got, op[d].sha) \in Seq(MaybeBlobs)
           /\ Len(Append(op[d].got, op[d].sha)) = Len(op[d].got) + 1 /\ Len(op[d].got) \in Nat
           /\ \A n \in 1..(Len(op[d].got) + 1) : Append(op[d].got, op[d].sha)[n] = op[d].sha
<1>1. /\ op[d].got \in Seq(MaybeBlobs) /\ Len(op[d].got) \in Nat
  BY DeviceTypes
<1>2. /\ op[d].id \in UploadIds /\ op[d].version \in 1..Len(log) /\ op[d].sha = log[op[d].version]
      /\ Len(op[d].got) < PartsOf[op[d].sha] /\ Owned(op[d].id, op[d].sha)
      /\ \A n \in 1..Len(op[d].got) : op[d].got[n] = op[d].sha
  BY DEF DownloadOK
<1>3. op[d].sha \in Blobs
  BY <1>2, StorageTypes
<1>4. Len(op[d].got) \in PartIndexes
  <2>1. Len(op[d].got) \in 0..(PartsOf[op[d].sha] - 1)
    BY <1>1, <1>2, <1>3, ConstantFacts
  <2> QED
    BY <1>3, <2>1, ConstantFacts
<1>5. uploads[op[d].id].parts[Len(op[d].got)] = op[d].sha
  BY <1>2, <1>4 DEF Owned
<1>6. op[d].sha \in MaybeBlobs
  BY <1>3 DEF MaybeBlobs
<1> QED
  BY <1>1, <1>2, <1>3, <1>5, <1>6

LEMMA GetPartKeepsBase ==
    ASSUME BaseInv, NEW d \in Devices, GetPart(d)
    PROVE  BaseInv'
<1>0. ServerTypeOK /\ RequestInv /\ op[d].pc = "parts" /\ UNCHANGED <<storage, requests, log>> /\ DownloadOK(op[d])
      /\ op[d] \in Operation /\ op \in [Devices -> Operation]
  BY DeviceTypes DEF BaseInv, GetPart, DownloadInv, ServerTypeOK
<1>1. CASE StartOver(d) /\ UNCHANGED known
  BY <1>0, <1>1, StartOverKeepsBase
<1>2. CASE /\ uploads[op[d].id].parts[Len(op[d].got)] # NoBlob
           /\ Downloaded(d, op[d].version, op[d].sha, Append(op[d].got, uploads[op[d].id].parts[Len(op[d].got)]))
  <2>1. op[d].version \in Nat /\ op[d].version <= Len(log) /\ op[d].sha \in MaybeBlobs
    BY <1>0, DeviceTypes DEF DownloadOK
  <2> QED
    BY <1>0, <1>2, <2>1, DownloadedKeepsBase
<1>3. CASE /\ uploads[op[d].id].parts[Len(op[d].got)] # NoBlob /\ Len(op[d].got) + 1 < op[d].parts
           /\ op' = [op EXCEPT ![d].got = Append(op[d].got, uploads[op[d].id].parts[Len(op[d].got)])]
           /\ UNCHANGED <<known, answer>>
  <2> DEFINE got == Append(op[d].got, op[d].sha)
  <2>1. /\ uploads[op[d].id].parts[Len(op[d].got)] = op[d].sha /\ got \in Seq(MaybeBlobs)
        /\ Len(got) < op[d].parts /\ \A n \in 1..Len(got) : got[n] = op[d].sha
    BY <1>0, <1>3, PartIsPromised
  <2> HIDE DEF got
  <2> DEFINE o == [op[d] EXCEPT !.got = got]
  <2>2. op' = [op EXCEPT ![d] = o]
    BY <1>0, <1>3, <2>1 DEF Operation, got
  <2>3. /\ o \in Operation /\ o.pc = "parts" /\ o.version = op[d].version /\ o.low = op[d].low
        /\ o.sha = op[d].sha /\ o.id = op[d].id /\ o.parts = op[d].parts /\ o.got = got
    BY <1>0, <2>1 DEF Operation
  <2> HIDE DEF o
  <2>4. DownloadOK(o)
    BY <1>0, <2>1, <2>3 DEF DownloadOK
  <2>5. \A r \in requests : r.id # NoUpload /\ r.stage # "after" => o.id # r.id
    BY <1>0, <2>3 DEF RequestInv, RequestOK
  <2>6. NoAnswer \in Answer /\ 0 \in Nat /\ 0 <= Len(log)
    BY <1>0, StorageTypes DEF NoAnswer, Answer, MaybeBlobs
  <2> QED
    BY <1>0, <1>3, <2>2, <2>3, <2>4, <2>5, <2>6, DownloadStep
<1> QED
  BY <1>1, <1>2, <1>3 DEF GetPart

LEMMA AgeKeepsBase ==
    ASSUME BaseInv, NEW u \in UploadIds, Age(u), uploads' \in [UploadIds -> Upload]
    PROVE  BaseInv' /\ \A w \in UploadIds : uploads'[w].parts = uploads[w].parts /\ uploads'[w].state = uploads[w].state
<1>0. ServerTypeOK /\ CountInv /\ RowInv /\ RequestInv /\ Unique /\ Waits /\ DownloadInv
      /\ UNCHANGED <<postgres, row, nextId, requests, op, known, answer, log>>
  BY DEF BaseInv, Age, clients
<1>1. \A w \in UploadIds : uploads'[w].parts = uploads[w].parts /\ uploads'[w].state = uploads[w].state
  <2>1. uploads' = [uploads EXCEPT ![u].aged = TRUE]
    BY DEF Age
  <2> QED
    BY <1>0, <2>1, StorageTypes DEF ServerTypeOK, Upload
<1>2. ServerTypeOK'
  BY <1>0 DEF ServerTypeOK
<1>3. CountInv' /\ Unique' /\ Waits'
  BY <1>0 DEF CountInv, Opening, Unique, Waits
<1>4. RowInv'
  BY <1>0, <1>1, StorageTypes, IdTypes DEF RowInv, Owned
<1>5. RequestInv'
  <2>1. \A p \in requests : p.id \in MaybeUpload
    BY <1>0, RequestTypes
  <2> QED
    BY <1>0, <1>1, <2>1, IdTypes DEF RequestInv, RequestOK, Owned
<1>6. DownloadInv'
  BY <1>0, <1>1 DEF DownloadInv, DownloadOK, Owned
<1> QED
  BY <1>1, <1>2, <1>3, <1>4, <1>5, <1>6 DEF BaseInv

LEMMA NextKeepsBase ==
    ASSUME BaseInv, ~postgres => ClaimsComplete, [ServerNext]_serverVars
    PROVE  BaseInv'
<1>1. uploads' \in [UploadIds -> Upload]
  BY UploadTypes DEF BaseInv
<1>2. ASSUME NEW r \in requests, Handle(r)
      PROVE  BaseInv'
  BY <1>1, <1>2, HandlersKeepBase
<1>3. ASSUME NEW d \in Devices, Device(d)
      PROVE  BaseInv'
  BY <1>3, PushKeepsBase, GiveUpKeepsBase, PullMoves, ReadStatusKeepsBase, GetBlobKeepsBase, GetPartKeepsBase DEF Device
<1>4. ASSUME NEW u \in UploadIds, Age(u)
      PROVE  BaseInv'
  BY <1>1, <1>4, AgeKeepsBase
<1>5. CASE UNCHANGED serverVars
  BY <1>5 DEF serverVars, BaseInv, ServerTypeOK, CountInv, Opening, RowInv, Owned, RequestInv, RequestOK, Unique,
              Waits, DownloadInv, DownloadOK
<1> QED
  BY <1>2, <1>3, <1>4, <1>5 DEF ServerNext

-----------------------------------------------------------------------------
(* In memory, where a storage call is one step.                            *)

\* What a handler leaves of the table: an upload is open because it was, or
\* alone and new; one that can still be read keeps its parts, but for the one
\* being written; the current one stays; a new current one was open.
Table(r) ==
    /\ \A u \in UploadIds : uploads'[u].state = "open" =>
          \/ uploads[u].state = "open"
          \/ u = nextId /\ \A w \in UploadIds : uploads'[w].state = "open" => w = u
    /\ \A u \in UploadIds : u < nextId /\ uploads'[u].state \in {"open", "committed"} =>
          \/ uploads'[u].parts = uploads[u].parts
          \/ u = r.id /\ r.stage = "write" /\ uploads[u].state = "open"
    /\ \A u \in UploadIds : u = row.upload /\ uploads[u].state = "committed" => uploads'[u].state = "committed"
    /\ row'.upload # row.upload /\ row'.upload # NoUpload =>
          /\ row'.upload = r.id /\ row'.sha = r.sha /\ r.stage = "claim"
          /\ uploads[r.id].state = "open" /\ uploads'[r.id].state = "committed"
    /\ row'.upload = row.upload => row'.sha = row.sha \/ row.upload = NoUpload

LEMMA TableSame == ASSUME NEW r, UNCHANGED <<uploads, row>> PROVE Table(r)
BY DEF Table

LEMMA PruneTable ==
    ASSUME BaseInv, ~postgres, NEW r \in requests, Prune(r)
    PROVE  Table(r)
<1>1. PICK seen \in Visible(r) : uploads' = Delete(seen.ids)
  BY DEF Prune
<1>2. r.stage \in {"prune", "after"} /\ UNCHANGED row
  BY DEF Prune
<1>3. seen.ids \in Prunable
  BY <1>1, <1>2, SelectedTypes DEF Visible
<1>4. row.upload \notin seen.ids
  BY <1>3 DEF Prunable, Retired
<1>5. \A u \in UploadIds : \/ uploads'[u] = uploads[u]
                           \/ u \in seen.ids /\ uploads'[u].state = "deleted"
  BY <1>1 DEF Delete, Unused
<1> QED
  BY <1>2, <1>4, <1>5 DEF Table

LEMMA CreateTable ==
    ASSUME BaseInv, ~postgres, NEW r \in requests, CreateUpload(r)
    PROVE  Table(r)
<1>0. ServerTypeOK /\ RowInv
  BY DEF BaseInv
<1>1. PICK seen \in Visible(r) :
         uploads' = [u \in UploadIds |->
             IF u = nextId THEN [Unused EXCEPT !.state = "open"]
             ELSE IF u \in seen.ids \cap OpenUploads
                  THEN [uploads[u] EXCEPT !.state = "replaced"]
             ELSE uploads[u]]
  BY DEF CreateUpload
<1>2. r.stage = "create" /\ UNCHANGED row
  BY DEF CreateUpload
<1>3. seen.ids = OpenUploads
  BY <1>1, <1>2 DEF Visible, Selected
<1>4. \A u \in UploadIds : u # nextId /\ uploads[u].state = "open" => uploads'[u].state = "replaced"
  BY <1>0, <1>1, <1>3, StorageTypes DEF OpenUploads, Upload
<1>5. \A u \in UploadIds : u # nextId /\ uploads[u].state # "open" => uploads'[u] = uploads[u]
  BY <1>1, <1>3 DEF OpenUploads
<1>6. row.upload # nextId
  BY <1>0, StorageTypes DEF RowInv, ServerTypeOK, NoUpload
<1> QED
  BY <1>0, <1>2, <1>4, <1>5, <1>6, StorageTypes DEF Table

LEMMA PutPartTable ==
    ASSUME BaseInv, ~postgres, NEW r \in requests, PutPart(r)
    PROVE  Table(r)
<1>0. ServerTypeOK /\ RequestInv
  BY DEF BaseInv
<1>1. r.stage = "write" /\ UNCHANGED row /\ r.id \in UploadIds
  BY <1>0, RequestTypes, IdTypes DEF PutPart, RequestInv, RequestOK
<1>2. CASE uploads' = uploads
  BY <1>1, <1>2, TableSame
<1>3. CASE uploads' # uploads
  <2>1. PICK seen \in Visible(r) : seen.ok /\ uploads' = [uploads EXCEPT ![r.id].parts[r.n] = r.sha]
    BY <1>3 DEF PutPart
  <2>2. uploads[r.id].state = "open"
    <3>1. Selected(r) = {[ok |-> uploads[r.id].state = "open", ids |-> {}]}
      BY <1>1 DEF Selected
    <3>2. seen = [ok |-> uploads[r.id].state = "open", ids |-> {}]
      BY <3>1 DEF Visible
    <3>3. seen.ok = (uploads[r.id].state = "open")
      BY <3>2
    <3> QED
      BY <2>1, <3>3, Zenon
  <2>3. \A u \in UploadIds : u # r.id => uploads'[u] = uploads[u]
    BY <1>0, <1>1, <2>1 DEF ServerTypeOK
  <2>4. uploads'[r.id].state = uploads[r.id].state
    BY <1>0, <1>1, <2>1, StorageTypes DEF ServerTypeOK, Upload
  <2> QED
    BY <1>1, <2>2, <2>3, <2>4 DEF Table
<1> QED
  BY <1>2, <1>3

LEMMA SupersededKeeps ==
    ASSUME NEW ups \in [UploadIds -> Upload], NEW u \in UploadIds
    PROVE  Superseded(ups)[u].state = ups[u].state /\ Superseded(ups)[u].parts = ups[u].parts
BY DEF Superseded, Upload

LEMMA PutBlobTable ==
    ASSUME BaseInv, ~postgres, NEW r \in requests, PutBlob(r)
    PROVE  Table(r)
<1>0. ServerTypeOK /\ uploads \in [UploadIds -> Upload]
  BY DEF BaseInv, ServerTypeOK
<1>1. CASE UNCHANGED <<uploads, row>>
  BY <1>1, TableSame
<1>2. CASE InstallRow(r.sha, NoUpload) /\ uploads' = Superseded(uploads)
  <2>1. row'.upload = NoUpload
    BY <1>2 DEF InstallRow
  <2>2. \A u \in UploadIds : uploads'[u].state = uploads[u].state /\ uploads'[u].parts = uploads[u].parts
    BY <1>0, <1>2, SupersededKeeps
  <2> QED
    BY <2>1, <2>2 DEF Table
<1> QED
  BY <1>1, <1>2 DEF PutBlob

LEMMA CommitTable ==
    ASSUME BaseInv, ~postgres, NEW r \in requests, CommitUpload(r)
    PROVE  Table(r)
<1>0. ServerTypeOK /\ RequestInv
  BY DEF BaseInv
<1>1. r.stage = "claim" /\ r.id \in UploadIds /\ r.id # row.upload
  BY <1>0, RequestTypes, IdTypes DEF CommitUpload, RequestInv, RequestOK
<1>2. Claimed(r) \in [UploadIds -> Upload] /\ \A u \in UploadIds : u # r.id => Claimed(r)[u] = uploads[u]
  BY <1>0, <1>1, ClaimedUploads
<1>3. Claimed(r)[r.id].state = "committed" /\ Claimed(r)[r.id].parts = uploads[r.id].parts
  <2>1. Claimed(r)[r.id] = [state |-> "committed", parts |-> uploads[r.id].parts,
                            since |-> row.version, aged |-> FALSE]
    BY <1>0, <1>1, ClaimedUploads, Zenon
  <2> QED
    BY <2>1
<1>4. \A u \in UploadIds : Claimed(r)[u].parts = uploads[u].parts
  BY <1>2, <1>3
<1>5. CASE UNCHANGED <<uploads, row>>
  BY <1>5, TableSame
<1>6. CASE uploads' = Claimed(r) /\ UNCHANGED row
  BY <1>1, <1>2, <1>3, <1>4, <1>6 DEF Table
<1>7. CASE uploads[r.id].state = "open" /\ InstallRow(r.sha, r.id) /\ uploads' = Superseded(Claimed(r))
  <2>1. row'.upload = r.id /\ row'.sha = r.sha
    BY <1>7 DEF InstallRow
  <2>2. \A u \in UploadIds : uploads'[u].state = Claimed(r)[u].state /\ uploads'[u].parts = Claimed(r)[u].parts
    BY <1>2, <1>7, SupersededKeeps
  <2> QED
    BY <1>1, <1>2, <1>3, <1>4, <1>7, <2>1, <2>2 DEF Table
<1> QED
  BY <1>5, <1>6, <1>7 DEF CommitUpload, Claimed

LEMMA HandleTable ==
    ASSUME BaseInv, ~postgres, NEW r \in requests, Handle(r)
    PROVE  Table(r)
<1>1. CASE Snapshot(r) \/ ReadOpenParts(r) \/ ExplainClaim(r) \/ CurrentVersion(r) \/ LoseRequest(r)
  <2>1. UNCHANGED <<uploads, row>>
    BY <1>1 DEF Snapshot, ReadOpenParts, ExplainClaim, CurrentVersion, LoseRequest, storage
  <2> QED
    BY <2>1, TableSame
<1> QED
  BY <1>1, PruneTable, CreateTable, PutPartTable, PutBlobTable, CommitTable DEF Handle

LEMMA HandlersKeepMemory ==
    ASSUME BaseInv, ~postgres, Single, CurrentReadable, ClaimsComplete, BaseInv',
           NEW r \in requests, Handle(r)
    PROVE  Single' /\ CurrentReadable' /\ ClaimsComplete'
<1>0. ServerTypeOK /\ RowInv /\ RequestInv /\ Unique /\ Table(r) /\ Effect(r) /\ RequestInv' /\ ServerTypeOK' /\ RowInv'
  BY HandleTable, HandleEffect DEF BaseInv
<1>1. /\ nextId \in Nat /\ row.upload \in MaybeUpload /\ row'.upload \in MaybeUpload /\ r.id \in MaybeUpload
  BY <1>0, StorageTypes, RequestTypes DEF ServerTypeOK, Row
<1>2. Single'
  BY <1>0 DEF Single, OpenUploads, Table
<1>3. CurrentReadable'
  <2>1. SUFFICES ASSUME row'.upload # NoUpload
                 PROVE  uploads'[row'.upload].state = "committed" /\ Complete(row.upload, row.sha)'
    BY DEF CurrentReadable
  <2>2. row'.upload \in UploadIds
    BY <1>1, <2>1, IdTypes
  <2>3. CASE row'.upload = row.upload
    <3>1. uploads'[row.upload].state = "committed" /\ row.upload < nextId /\ row'.sha = row.sha
      BY <1>0, <2>1, <2>2, <2>3 DEF CurrentReadable, Table, RowInv
    <3>2. uploads'[row.upload].parts = uploads[row.upload].parts
      BY <1>0, <2>1, <2>2, <2>3, <3>1 DEF Table, RequestInv, RequestOK
    <3>3. Complete(row.upload, row.sha)
      BY <2>1, <2>3 DEF CurrentReadable
    <3> QED
      BY <2>3, <3>1, <3>2, <3>3 DEF Complete
  <2>4. CASE row'.upload # row.upload
    <3>1. /\ row'.upload = r.id /\ row'.sha = r.sha /\ r.stage = "claim"
          /\ uploads[r.id].state = "open" /\ uploads'[r.id].state = "committed"
      BY <1>0, <2>1, <2>4 DEF Table
    <3>2. r.id < nextId /\ Complete(r.id, r.sha)
      BY <1>0, <3>1 DEF RequestInv, RequestOK, ClaimsComplete
    <3>3. uploads'[r.id].parts = uploads[r.id].parts
      BY <1>0, <2>2, <3>1, <3>2 DEF Table
    <3> QED
      BY <3>1, <3>2, <3>3 DEF Complete
  <2> QED
    BY <2>3, <2>4
<1>4. ClaimsComplete'
  <2>1. SUFFICES ASSUME NEW p \in requests', p.stage = "claim", uploads'[p.id].state = "open"
                 PROVE  Complete(p.id, p.sha)'
    BY DEF ClaimsComplete
  <2>2. CASE p \in requests /\ p # r
    <3>1. p.id \in UploadIds /\ p.id < nextId /\ p.id # r.id
      BY <1>0, <2>1, <2>2, RequestTypes, IdTypes DEF RequestInv, RequestOK, Unique
    <3>2. uploads[p.id].state = "open" /\ uploads'[p.id].parts = uploads[p.id].parts
      BY <1>0, <1>1, <2>1, <3>1 DEF Table
    <3>3. Complete(p.id, p.sha)
      BY <2>1, <2>2, <3>2 DEF ClaimsComplete
    <3> QED
      BY <3>2, <3>3 DEF Complete
  <2>3. ASSUME ~(p \in requests /\ p # r)
        PROVE  Complete(p.id, p.sha) /\ uploads' = uploads
    <3>1. ~Leaves(r)
      BY <2>1, <2>3 DEF Leaves
    <3>2. PICK q : Goes(r, q) \/ Installs(r, q)
      BY <1>0, <3>1 DEF Effect
    <3>3. p = q
      BY <2>1, <2>3, <3>2 DEF Goes, Installs, Turns
    <3> QED
      BY <2>1, <3>2, <3>3 DEF Goes, Installs
  <2> QED
    BY <2>2, <2>3 DEF Complete
<1> QED
  BY <1>2, <1>3, <1>4

LEMMA NextKeepsMemory ==
    ASSUME IInv, [ServerNext]_serverVars, BaseInv'
    PROVE  MemoryInv'
<1>0. BaseInv /\ (~postgres => Single /\ CurrentReadable /\ ClaimsComplete)
  BY DEF IInv, MemoryInv
<1>1. ASSUME NEW r \in requests, Handle(r)
      PROVE  MemoryInv'
  <2>1. postgres' = postgres
    BY <1>1 DEF Handle, Snapshot, Prune, CreateUpload, PutPart, PutBlob, ReadOpenParts, CommitUpload,
                ExplainClaim, CurrentVersion, LoseRequest, storage
  <2> QED
    BY <1>0, <1>1, <2>1, HandlersKeepMemory DEF MemoryInv
<1>2. ASSUME NEW d \in Devices, Device(d)
      PROVE  MemoryInv'
  <2>1. UNCHANGED <<postgres, row, uploads>>
    BY <1>2 DEF Device, Push, GiveUp, Pull, ReadStatus, GetBlob, GetPart, storage
  <2>2. ASSUME NEW p \in requests', p.stage = "claim"
        PROVE  \E r \in requests : r.stage = "claim" /\ r.id = p.id /\ r.sha = p.sha
    <3>1. CASE UNCHANGED requests
      BY <2>2, <3>1
    <3>2. CASE Push(d)
      BY <2>2, <3>2 DEF Push, NewRequest
    <3>3. CASE GiveUp(d)
      <4>1. PICK r \in requests : requests' = (requests \ {r}) \cup {[r EXCEPT !.live = FALSE]}
        BY <1>0, <3>3, GiveUpTurns DEF BaseInv
      <4>2. LET q == [r EXCEPT !.live = FALSE] IN q.stage = r.stage /\ q.id = r.id /\ q.sha = r.sha
        BY <1>0, RequestTypes DEF BaseInv, Request
      <4> QED
        BY <2>2, <4>1, <4>2
    <3> QED
      BY <1>2, <3>1, <3>2, <3>3 DEF Device, Pull, ReadStatus, GetBlob, GetPart
  <2> QED
    BY <1>0, <2>1, <2>2 DEF MemoryInv, Single, OpenUploads, CurrentReadable, ClaimsComplete, Complete
<1>3. ASSUME NEW u \in UploadIds, Age(u)
      PROVE  MemoryInv'
  <2>1. \A w \in UploadIds : uploads'[w].parts = uploads[w].parts /\ uploads'[w].state = uploads[w].state
    BY <1>0, <1>3, AgeKeepsBase, UploadTypes DEF BaseInv
  <2>2. UNCHANGED <<postgres, row, requests>>
    BY <1>3 DEF Age
  <2>3. row.upload \in MaybeUpload /\ \A p \in requests : p.stage = "claim" => p.id \in UploadIds
    BY <1>0, StorageTypes, RequestTypes, IdTypes DEF BaseInv, RequestInv, RequestOK
  <2> QED
    BY <1>0, <2>1, <2>2, <2>3, IdTypes DEF MemoryInv, Single, OpenUploads, CurrentReadable, ClaimsComplete, Complete
<1>4. CASE UNCHANGED serverVars
  BY <1>0, <1>4 DEF serverVars, MemoryInv, Single, OpenUploads, CurrentReadable, ClaimsComplete, Complete
<1> QED
  BY <1>1, <1>2, <1>3, <1>4 DEF ServerNext

LEMMA InitIInv == ServerInit => IInv
<1> SUFFICES ASSUME ServerInit
             PROVE  IInv
  OBVIOUS
<1>1. ServerTypeOK
  <2>1. row \in Row /\ Idle \in Operation /\ NoAnswer \in Answer
    BY DEF ServerInit, NoRow, Row, Idle, Operation, NoAnswer, Answer, MaybeBlobs, MaybeUpload
  <2>2. uploads \in [UploadIds -> Upload] /\ nextId \in 1..(MaxUploads + 1)
    BY UnusedType, ConstantFacts DEF ServerInit
  <2> QED
    BY <2>1, <2>2 DEF ServerInit, ServerTypeOK
<1>2. CountInv
  <2>1. IsFiniteSet(requests) /\ Opening = {} /\ Cardinality({}) = 0
    BY FS_EmptySet DEF ServerInit, Opening
  <2> QED
    BY <2>1, ConstantFacts DEF ServerInit, CountInv
<1>3. RowInv /\ RequestInv /\ Unique
  BY DEF ServerInit, RowInv, NoRow, RequestInv, Unique
<1>4. Waits /\ DownloadInv
  BY DEF ServerInit, Waits, DownloadInv, DownloadOK, Idle
<1>5. MemoryInv
  BY DEF ServerInit, MemoryInv, Single, OpenUploads, Unused, CurrentReadable, NoRow, ClaimsComplete
<1> QED
  BY <1>1, <1>2, <1>3, <1>4, <1>5 DEF IInv, BaseInv

LEMMA NextIInv == IInv /\ [ServerNext]_serverVars => IInv'
<1> SUFFICES ASSUME IInv, [ServerNext]_serverVars
             PROVE  IInv'
  OBVIOUS
<1>1. BaseInv'
  BY NextKeepsBase DEF IInv, MemoryInv
<1> QED
  BY <1>1, NextKeepsMemory DEF IInv

LEMMA Invariance == ServerSpec => []IInv
BY InitIInv, NextIInv, PTL DEF ServerSpec

\* The state of the account is sound, whatever the other handlers replace,
\* commit or prune meanwhile (readOpenParts, commitUpload, pruneUploads).  Over
\* either storage: typed, one handler to a push and to an upload, and in a
\* handler's upload nothing but what its own request sent.  In memory also: one
\* open upload, and a current version that can be downloaded.
THEOREM ServerSound == ServerSpec => [](ServerInv /\ Unique /\ UploadsOwned)
<1>1. IInv => ServerInv /\ Unique /\ UploadsOwned
  <2> SUFFICES ASSUME IInv
               PROVE  ServerInv /\ Unique /\ UploadsOwned
    OBVIOUS
  <2>1. OneOpenUpload
    <3>1. CASE OpenUploads = {}
      BY <3>1, FS_EmptySet DEF OneOpenUpload
    <3>2. ASSUME NEW u \in OpenUploads, ~postgres
          PROVE  Cardinality(OpenUploads) <= 1
      <4>1. OpenUploads = {u}
        BY <3>2 DEF IInv, MemoryInv, Single
      <4>2. Cardinality({u}) = 1
        BY FS_Singleton
      <4> QED
        BY <4>1, <4>2
    <3> QED
      BY <3>1, <3>2 DEF OneOpenUpload
  <2>2. Unique /\ UploadsOwned
    BY DEF IInv, BaseInv, RequestInv, RequestOK, UploadsOwned
  <2> QED
    BY <2>1, <2>2 DEF IInv, BaseInv, MemoryInv, ServerInv, CurrentReadableInMemory
<1> QED
  BY <1>1, Invariance, PTL

-----------------------------------------------------------------------------
(* One register.                                                           *)

Calls == [d \in Devices |-> CallOf(d)]
Late == {[base |-> r.base, value |-> r.sha] : r \in {q \in requests : MayLand(q)}}

\* The call of device c becomes x.
Becomes(c, x) == Calls' = [Calls EXCEPT ![c] = x]

LEMMA MapsInstall ==
    ASSUME NEW c \in Devices, NEW x \in Blobs, log \in Seq(Blobs), log' = Append(log, x),
           Calls[c] = [kind |-> "write", base |-> Len(log), value |-> x],
           Becomes(c, [kind |-> "written", base |-> Len(log) + 1, value |-> x]),
           answer' = answer, Late' = Late
    PROVE  Register!RegisterNext
<1>1. Len(log') = Len(log) + 1
  OBVIOUS
<1>2. Calls' = [Calls EXCEPT ![c] = [kind |-> "written", base |-> Len(log'), value |-> Calls[c].value]]
  BY <1>1 DEF Becomes
<1>3. Register!Install(c)
  BY <1>2 DEF Register!Install, Calls, Late
<1> QED
  BY <1>3 DEF Register!RegisterNext

LEMMA MapsInstallLate ==
    ASSUME NEW w \in Late, w.base = Len(log), log' = Append(log, w.value),
           Calls' = Calls, answer' = answer, Late' \in {Late, Late \ {w}}
    PROVE  Register!RegisterNext
<1>1. Register!InstallLate(w)
  BY DEF Register!InstallLate, Calls, Late
<1> QED
  BY <1>1 DEF Register!RegisterNext, Late

LEMMA MapsDrop ==
    ASSUME Calls' = Calls, Late' \subseteq Late, UNCHANGED <<log, answer>>
    PROVE  Register!RegisterNext
<1>1. Register!DropLate
  BY DEF Register!DropLate, Calls, Late
<1> QED
  BY <1>1 DEF Register!RegisterNext

LEMMA MapsBeginRead ==
    ASSUME NEW c \in Devices, Calls[c].kind = "idle",
           Becomes(c, [kind |-> "read", base |-> Len(log), value |-> NoBlob]),
           answer' = [answer EXCEPT ![c] = NoAnswer], Late' = Late, log' = log
    PROVE  Register!RegisterNext
<1>1. Register!BeginRead(c)
  BY DEF Becomes, Register!BeginRead, Register!Begin, Register!NoAnswer, NoAnswer, Calls, Late
<1> QED
  BY <1>1 DEF Register!RegisterNext

LEMMA MapsBeginWrite ==
    ASSUME NEW c \in Devices, NEW base \in 0..Len(log), NEW x \in Blobs, Calls[c].kind = "idle",
           Becomes(c, [kind |-> "write", base |-> base, value |-> x]),
           answer' = [answer EXCEPT ![c] = NoAnswer], Late' = Late, log' = log
    PROVE  Register!RegisterNext
<1>1. Register!BeginWrite(c, base, x)
  BY DEF Becomes, Register!BeginWrite, Register!Begin, Register!NoAnswer, NoAnswer, Calls, Late
<1> QED
  BY <1>1 DEF Register!RegisterNext

NoCall == [kind |-> "idle", base |-> 0, value |-> NoBlob]

\* A call ends.
Returns(c, kind, v, x) ==
    /\ Becomes(c, NoCall)
    /\ answer' = [answer EXCEPT ![c] = [kind |-> kind, version |-> v, value |-> x]]
    /\ log' = log

LEMMA ReturnsReturn ==
    ASSUME NEW c, NEW kind, NEW v, NEW x, Returns(c, kind, v, x)
    PROVE  Register!Return(c, kind, v, x)
BY DEF Returns, Becomes, NoCall, Register!Return, Register!NoCall, Calls

LEMMA MapsValue ==
    ASSUME NEW c \in Devices, NEW v \in 1..Len(log), Returns(c, "value", v, log[v]),
           Calls[c].kind = "read", v >= Calls[c].base, Late' = Late
    PROVE  Register!RegisterNext
<1>1. Register!ReturnValue(c, v)
  BY ReturnsReturn DEF Register!ReturnValue, Calls, Late
<1> QED
  BY <1>1 DEF Register!RegisterNext

LEMMA MapsEmpty ==
    ASSUME NEW c \in Devices, Returns(c, "empty", 0, NoBlob),
           Calls[c].kind = "read", Calls[c].base = 0, Late' = Late
    PROVE  Register!RegisterNext
<1>1. Register!ReturnEmpty(c)
  BY ReturnsReturn DEF Register!ReturnEmpty, Calls, Late
<1> QED
  BY <1>1 DEF Register!RegisterNext

LEMMA MapsWritten ==
    ASSUME NEW c \in Devices, Returns(c, "written", Calls[c].base, Calls[c].value),
           Calls[c].kind = "written", Late' = Late
    PROVE  Register!RegisterNext
<1>1. Register!ReturnWritten(c)
  BY ReturnsReturn DEF Register!ReturnWritten, Calls, Late
<1> QED
  BY <1>1 DEF Register!RegisterNext

LEMMA MapsConflict ==
    ASSUME NEW c \in Devices, Len(log) \in Nat, Returns(c, "conflict", Len(log), NoBlob),
           Calls[c].kind = "write", Calls[c].base # Len(log), Late' = Late
    PROVE  Register!RegisterNext
<1>1. Register!ReturnConflict(c, Len(log))
  BY ReturnsReturn DEF Register!ReturnConflict, Calls, Late
<1>2. Len(log) \in 0..Len(log)
  OBVIOUS
<1> QED
  BY <1>1, <1>2 DEF Register!RegisterNext

LEMMA MapsFail ==
    ASSUME NEW c \in Devices, Returns(c, "failed", 0, NoBlob), Calls[c].kind # "idle",
           \/ Late' = Late
           \/ /\ Calls[c].kind = "write"
              /\ Late' = Late \cup {[base |-> Calls[c].base, value |-> Calls[c].value]}
    PROVE  Register!RegisterNext
<1>1. Register!Fail(c)
  BY ReturnsReturn DEF Register!Fail, Calls, Late
<1> QED
  BY <1>1 DEF Register!RegisterNext

-----------------------------------------------------------------------------
(* What each device is calling.                                            *)

ReadCall(low) == [kind |-> "read", base |-> low, value |-> NoBlob]
WriteCall(r) ==
    IF r.stage = "after" THEN [kind |-> "written", base |-> r.version, value |-> r.sha]
    ELSE [kind |-> "write", base |-> r.base, value |-> r.sha]

CallsKnown ==
    \A d \in Devices :
        /\ op[d].pc = "idle" => Calls[d] = NoCall
        /\ op[d].pc \in {"status", "blob", "parts"} => Calls[d] = ReadCall(op[d].low)
        /\ \A r \in requests : r.live /\ r.from = d => Calls[d] = WriteCall(r)

LEMMA Known == BaseInv => CallsKnown
<1> SUFFICES ASSUME BaseInv, NEW d \in Devices
             PROVE  /\ op[d].pc = "idle" => CallOf(d) = NoCall
                    /\ op[d].pc \in {"status", "blob", "parts"} => CallOf(d) = ReadCall(op[d].low)
                    /\ \A r \in requests : r.live /\ r.from = d => CallOf(d) = WriteCall(r)
  BY DEF CallsKnown, Calls
<1>1. op[d].pc = "idle" => CallOf(d) = NoCall
  BY DEF CallOf, NoCall
<1>2. op[d].pc \in {"status", "blob", "parts"} => CallOf(d) = ReadCall(op[d].low)
  BY DEF CallOf, ReadCall
<1>3. ASSUME NEW r \in requests, r.live, r.from = d
      PROVE  CallOf(d) = WriteCall(r)
  <2> DEFINE done == {p \in requests : p.from = d /\ p.live /\ p.stage = "after"}
  <2>1. op[d].pc = "pushing" /\ op[d].sha = r.sha /\ op[d].base = r.base
    BY <1>3 DEF BaseInv, RequestInv, RequestOK
  <2>2. \A p \in done : p = r
    BY <1>3 DEF BaseInv, Unique
  <2>3. CASE r.stage = "after"
    <3>1. done = {r} /\ (CHOOSE p \in done : TRUE) = r
      BY <1>3, <2>2, <2>3
    <3> QED
      BY <2>1, <2>3, <3>1 DEF CallOf, WriteCall
  <2>4. CASE r.stage # "after"
    <3>1. done = {}
      BY <2>2, <2>4
    <3> QED
      BY <2>1, <2>4, <3>1 DEF CallOf, WriteCall
  <2> QED
    BY <2>3, <2>4
<1> QED
  BY <1>1, <1>2, <1>3

\* A device whose client and requests stay as they were calls as it did.
LEMMA CallStays ==
    ASSUME BaseInv, CallsKnown, CallsKnown', NEW d \in Devices, op'[d] = op[d],
           \A r \in requests : r.live /\ r.from = d =>
              \E q \in requests' : /\ q.live /\ q.from = d /\ q.sha = r.sha /\ q.base = r.base
                                   /\ q.stage = "after" <=> r.stage = "after"
                                   /\ r.stage = "after" => q.version = r.version
    PROVE  Calls'[d] = Calls[d]
<1>1. CASE op[d].pc = "idle"
  BY <1>1 DEF CallsKnown, NoCall
<1>2. CASE op[d].pc \in {"status", "blob", "parts"}
  BY <1>2 DEF CallsKnown
<1>3. CASE op[d].pc = "pushing"
  <2>1. PICK r \in requests : r.live /\ r.from = d
    BY <1>3 DEF BaseInv, Waits
  <2>2. PICK q \in requests' : /\ q.live /\ q.from = d /\ q.sha = r.sha /\ q.base = r.base
                               /\ q.stage = "after" <=> r.stage = "after"
                               /\ r.stage = "after" => q.version = r.version
    BY <2>1
  <2>3. WriteCall(q) = WriteCall(r)
    BY <2>2 DEF WriteCall
  <2> QED
    BY <2>1, <2>2, <2>3 DEF CallsKnown
<1> QED
  BY <1>1, <1>2, <1>3, DeviceTypes DEF BaseInv, Operation

LEMMA AllStay == ASSUME \A d \in Devices : Calls'[d] = Calls[d] PROVE Calls' = Calls
BY DEF Calls

LEMMA OneBecomes ==
    ASSUME NEW c \in Devices, NEW x, Calls'[c] = x, \A d \in Devices \ {c} : Calls'[d] = Calls[d]
    PROVE  Becomes(c, x)
BY DEF Becomes, Calls

-----------------------------------------------------------------------------
(* Every step is a step of the register.                                   *)

\* The devices whose request does not move call as before.
LEMMA OthersCall ==
    ASSUME BaseInv, CallsKnown, CallsKnown', NEW r \in requests, Effect(r),
           NEW d \in Devices, ~(r.live /\ r.from = d)
    PROVE  Calls'[d] = Calls[d]
<1>1. op'[d] = op[d]
  BY OpMoves DEF BaseInv
<1>2. \A p \in requests : p.live /\ p.from = d => p \in requests'
  BY DEF Effect, Leaves, Goes, Installs, Turns
<1> QED
  BY <1>1, <1>2, CallStays

LEMMA MapsGoes ==
    ASSUME BaseInv, CallsKnown, CallsKnown', NEW r \in requests, Effect(r), NEW q, Goes(r, q)
    PROVE  Register!RegisterNext
<1>1. /\ requests' = (requests \ {r}) \cup {q} /\ q.from = r.from /\ q.live = r.live /\ q.sha = r.sha
      /\ q.base = r.base /\ UNCHANGED <<op, answer, log>>
      /\ q.stage = "after" <=> r.stage = "after"
      /\ q.stage = "after" => q.version = r.version
      /\ MayLand(q) => MayLand(r)
  BY DEF Goes, Turns, clients
<1>2. \A d \in Devices : Calls'[d] = Calls[d]
  <2>1. ASSUME NEW d \in Devices, r.live, r.from = d
        PROVE  Calls'[d] = Calls[d]
    <3>2. q \in requests' /\ q.live /\ q.from = d
      BY <1>1, <2>1
    <3>4. WriteCall(q) = WriteCall(r)
      BY <1>1 DEF WriteCall
    <3> QED
      BY <2>1, <3>2, <3>4 DEF CallsKnown
  <2> QED
    BY <2>1, OthersCall
<1>3. Late' \subseteq Late
  BY <1>1 DEF Late, MayLand
<1> QED
  BY <1>1, <1>2, <1>3, AllStay, MapsDrop

LEMMA MapsInstalls ==
    ASSUME BaseInv, CallsKnown, CallsKnown', NEW r \in requests, Effect(r), NEW q, Installs(r, q)
    PROVE  Register!RegisterNext
<1>1. /\ requests' = (requests \ {r}) \cup {q} /\ q.from = r.from /\ q.live = r.live /\ q.sha = r.sha
      /\ q.stage = "after" /\ q.version = Len(log) + 1 /\ r.stage \in {"put", "claim"} /\ r.base = Len(log)
      /\ log' = Append(log, r.sha) /\ answer' = answer /\ r.sha \in Blobs /\ log \in Seq(Blobs) /\ r.from \in Devices
  BY RequestTypes, StorageTypes DEF BaseInv, Installs, Turns, clients
<1>2. Late' = {[base |-> p.base, value |-> p.sha] : p \in {z \in requests \ {r} : MayLand(z)}}
  <2>1. \A p : MayLand(p)' <=> MayLand(p)
    BY DEF MayLand
  <2>2. {z \in requests' : MayLand(z)} = {z \in requests \ {r} : MayLand(z)}
    BY <1>1 DEF MayLand
  <2> QED
    BY <2>2 DEF Late, MayLand
<1>3. CASE r.live
  <2>1. Late' = Late
    BY <1>2, <1>3 DEF Late, MayLand
  <2>2. Calls[r.from] = WriteCall(r) /\ Calls'[r.from] = WriteCall(q)
    BY <1>1, <1>3 DEF CallsKnown
  <2>3. /\ WriteCall(r) = [kind |-> "write", base |-> Len(log), value |-> r.sha]
        /\ WriteCall(q) = [kind |-> "written", base |-> Len(log) + 1, value |-> r.sha]
    BY <1>1 DEF WriteCall
  <2>4. Becomes(r.from, WriteCall(q))
    BY <1>1, <2>2, OthersCall, OneBecomes
  <2> QED
    BY <1>1, <2>1, <2>2, <2>3, <2>4, MapsInstall
<1>4. CASE ~r.live
  <2>1. Calls' = Calls
    BY <1>4, OthersCall, AllStay
  <2> DEFINE w == [base |-> r.base, value |-> r.sha]
  <2>2. w \in Late
    BY <1>1, <1>4 DEF Late, MayLand
  <2>3. Late \ {w} \subseteq Late' /\ Late' \subseteq Late
    BY <1>2 DEF Late
  <2>4. Late' \in {Late, Late \ {w}}
    BY <2>2, <2>3
  <2>5. w.base = Len(log) /\ log' = Append(log, w.value)
    BY <1>1
  <2> HIDE DEF w
  <2> QED
    BY <1>1, <2>1, <2>2, <2>4, <2>5, MapsInstallLate
<1> QED
  BY <1>3, <1>4, RequestTypes DEF BaseInv

LEMMA MapsLeaves ==
    ASSUME BaseInv, CallsKnown, CallsKnown', NEW r \in requests, Effect(r), Leaves(r)
    PROVE  Register!RegisterNext
<1>1. requests' = requests \ {r} /\ log' = log /\ r.from \in Devices /\ Len(log) \in Nat
  BY RequestTypes, StorageTypes DEF BaseInv, Leaves
<1>2. CASE ~r.live
  <2>1. Calls' = Calls
    BY <1>2, OthersCall, AllStay
  <2>2. Late' \subseteq Late
    BY <1>1 DEF Late, MayLand
  <2> QED
    BY <1>1, <1>2, <2>1, <2>2, MapsDrop DEF Leaves, clients
<1>3. CASE r.live
  <2>1. Late' = Late
    BY <1>1, <1>3 DEF Late, MayLand
  <2>2. op'[r.from] = Idle
    BY <1>1, <1>3 DEF Leaves, Says, BaseInv, ServerTypeOK
  <2>3. Calls'[r.from] = NoCall
    BY <1>1, <2>2 DEF CallsKnown, Idle
  <2>4. Becomes(r.from, NoCall)
    BY <1>1, <2>3, OthersCall, OneBecomes
  <2>5. Calls[r.from] = WriteCall(r)
    BY <1>1, <1>3 DEF CallsKnown
  <2>6. CASE r.stage = "after" /\ Says(r, "written", r.version, r.sha)
    <3>1. Calls[r.from].kind = "written" /\ Calls[r.from].base = r.version /\ Calls[r.from].value = r.sha
      BY <2>5, <2>6 DEF WriteCall
    <3>2. Returns(r.from, "written", Calls[r.from].base, Calls[r.from].value)
      BY <1>1, <2>4, <2>6, <3>1 DEF Returns, Says
    <3> QED
      BY <1>1, <2>1, <3>1, <3>2, MapsWritten
  <2>7. CASE r.base # Len(log) /\ r.stage # "after" /\ Says(r, "conflict", Len(log), NoBlob)
    <3>1. Calls[r.from].kind = "write" /\ Calls[r.from].base = r.base
      BY <2>5, <2>7 DEF WriteCall
    <3>2. Returns(r.from, "conflict", Len(log), NoBlob)
      BY <1>1, <2>4, <2>7 DEF Returns, Says
    <3> QED
      BY <1>1, <2>1, <2>7, <3>1, <3>2, MapsConflict
  <2>8. CASE Says(r, "failed", 0, NoBlob)
    <3>1. Calls[r.from].kind # "idle"
      BY <2>5 DEF WriteCall
    <3>2. Returns(r.from, "failed", 0, NoBlob)
      BY <1>1, <2>4, <2>8 DEF Returns, Says
    <3> QED
      BY <1>1, <2>1, <3>1, <3>2, MapsFail
  <2> QED
    BY <1>3, <2>6, <2>7, <2>8 DEF Leaves
<1> QED
  BY <1>2, <1>3, RequestTypes DEF BaseInv

LEMMA MapsPush ==
    ASSUME BaseInv, CallsKnown, CallsKnown', NEW d \in Devices, Push(d)
    PROVE  Register!RegisterNext
<1>1. PICK x \in Blobs :
        /\ op' = [op EXCEPT ![d] = [Idle EXCEPT !.pc = "pushing", !.sha = x, !.base = known[d]]]
        /\ requests' = requests \cup
             {NewRequest(d, IF PartsOf[x] = 1 THEN "put" ELSE "prune", NoUpload, 0, x, known[d])}
  BY DEF Push
<1>2. PICK q : q = NewRequest(d, IF PartsOf[x] = 1 THEN "put" ELSE "prune", NoUpload, 0, x, known[d])
  OBVIOUS
<1>3. q.from = d /\ q.live = TRUE /\ q.sha = x /\ q.base = known[d] /\ q.stage # "after"
  BY <1>2 DEF NewRequest
<1>4. requests' = requests \cup {q}
  BY <1>1, <1>2
<1>5. op[d].pc = "idle" /\ answer' = [answer EXCEPT ![d] = NoAnswer] /\ log' = log
  BY DEF Push
<1>6. Calls[d].kind = "idle" /\ Calls'[d] = [kind |-> "write", base |-> known[d], value |-> x]
  <2>1. Calls'[d] = WriteCall(q)
    BY <1>3, <1>4 DEF CallsKnown
  <2>2. Calls[d] = NoCall
    BY <1>5 DEF CallsKnown
  <2> QED
    BY <1>3, <2>1, <2>2 DEF WriteCall, NoCall
<1>7. \A e \in Devices \ {d} : Calls'[e] = Calls[e]
  <2>1. \A e \in Devices \ {d} : op'[e] = op[e]
    BY <1>1 DEF BaseInv, ServerTypeOK
  <2> QED
    BY <1>4, <2>1, CallStays
<1>8. Late' = Late
  BY <1>3, <1>4 DEF Late, MayLand
<1>9. known[d] \in 0..Len(log)
  BY DeviceTypes, StorageTypes DEF BaseInv, DownloadInv
<1>10. Becomes(d, [kind |-> "write", base |-> known[d], value |-> x])
  BY <1>6, <1>7, OneBecomes
<1> QED
  BY <1>5, <1>6, <1>8, <1>9, <1>10, MapsBeginWrite

LEMMA MapsGiveUp ==
    ASSUME BaseInv, CallsKnown, CallsKnown', NEW d \in Devices, GiveUp(d)
    PROVE  Register!RegisterNext
<1>1. PICK r \in requests : r.live /\ r.from = d /\ requests' = (requests \ {r}) \cup {[r EXCEPT !.live = FALSE]}
  BY GiveUpTurns DEF BaseInv
<1>2. PICK q : q = [r EXCEPT !.live = FALSE]
  OBVIOUS
<1>3. q.live = FALSE /\ q.sha = r.sha /\ q.base = r.base /\ q.stage = r.stage
  BY <1>2, RequestTypes DEF BaseInv, Request
<1>4. requests' = (requests \ {r}) \cup {q}
  BY <1>1, <1>2
<1>5. /\ op' = [op EXCEPT ![d] = Idle] /\ log' = log
      /\ answer' = [answer EXCEPT ![d] = [kind |-> "failed", version |-> 0, value |-> NoBlob]]
  BY DEF GiveUp, Ended
<1>6. Becomes(d, NoCall)
  <2>1. op'[d] = Idle /\ \A e \in Devices \ {d} : op'[e] = op[e]
    BY <1>5 DEF BaseInv, ServerTypeOK
  <2>2. Calls'[d] = NoCall
    BY <2>1 DEF CallsKnown, Idle
  <2>3. \A e \in Devices \ {d} : Calls'[e] = Calls[e]
    BY <1>1, <1>4, <2>1, CallStays
  <2> QED
    BY <2>2, <2>3, OneBecomes
<1>7. Returns(d, "failed", 0, NoBlob)
  BY <1>5, <1>6 DEF Returns
<1>8. Calls[d] = WriteCall(r)
  BY <1>1 DEF CallsKnown
<1>9. CASE ~MayLand(q)
  <2>1. Late' = Late
    BY <1>1, <1>4, <1>9 DEF Late, MayLand
  <2>2. Calls[d].kind # "idle"
    BY <1>8 DEF WriteCall
  <2> QED
    BY <1>7, <2>1, <2>2, MapsFail
<1>10. CASE MayLand(q)
  <2>1. Calls[d].kind = "write" /\ Calls[d].base = r.base /\ Calls[d].value = r.sha
    BY <1>3, <1>8, <1>10 DEF WriteCall, MayLand
  <2>2. Late' = Late \cup {[base |-> q.base, value |-> q.sha]}
    <3>1. {z \in requests' : MayLand(z)} = {z \in requests : MayLand(z)} \cup {q}
      BY <1>1, <1>4, <1>10 DEF MayLand
    <3> QED
      BY <3>1 DEF Late, MayLand
  <2>3. Late' = Late \cup {[base |-> Calls[d].base, value |-> Calls[d].value]}
    BY <1>3, <2>1, <2>2
  <2> QED
    BY <1>7, <2>1, <2>3, MapsFail
<1> QED
  BY <1>9, <1>10

LEMMA MapsPull ==
    ASSUME BaseInv, CallsKnown, CallsKnown', NEW d \in Devices, Pull(d)
    PROVE  Register!RegisterNext
<1>1. /\ op' = [op EXCEPT ![d] = [Idle EXCEPT !.pc = "status", !.low = Len(log)]] /\ op[d].pc = "idle"
      /\ answer' = [answer EXCEPT ![d] = NoAnswer] /\ requests' = requests /\ log' = log /\ Len(log) \in Nat
  BY StorageTypes DEF Pull, BaseInv
<1>2. op'[d].pc = "status" /\ op'[d].low = Len(log) /\ \A e \in Devices \ {d} : op'[e] = op[e]
  BY <1>1 DEF BaseInv, ServerTypeOK, Idle
<1>3. Calls[d] = NoCall /\ Calls'[d] = ReadCall(Len(log))
  BY <1>1, <1>2 DEF CallsKnown
<1>4. \A e \in Devices \ {d} : Calls'[e] = Calls[e]
  BY <1>1, <1>2, CallStays
<1>5. Becomes(d, ReadCall(Len(log)))
  BY <1>3, <1>4, OneBecomes
<1>6. Late' = Late
  BY <1>1 DEF Late, MayLand
<1>7. Calls[d].kind = "idle" /\ Becomes(d, [kind |-> "read", base |-> Len(log), value |-> NoBlob])
  BY <1>3, <1>5 DEF NoCall, ReadCall
<1> QED
  BY <1>1, <1>6, <1>7, MapsBeginRead

\* A step of a read that goes on is no step of the register.
LEMMA ReadGoesOn ==
    ASSUME BaseInv, CallsKnown, CallsKnown', NEW d \in Devices, op[d].pc \in {"status", "blob", "parts"},
           UNCHANGED <<requests, answer, log>>, NEW o, op' = [op EXCEPT ![d] = o],
           o.pc \in {"status", "blob", "parts"}, o.low = op[d].low
    PROVE  UNCHANGED <<log, Calls, answer, Late>>
<1>1. op'[d] = o /\ \A e \in Devices \ {d} : op'[e] = op[e]
  BY DEF BaseInv, ServerTypeOK
<1>2. Calls'[d] = Calls[d]
  BY <1>1 DEF CallsKnown
<1>3. \A e \in Devices \ {d} : Calls'[e] = Calls[e]
  BY <1>1, CallStays
<1>4. Calls' = Calls
  BY <1>2, <1>3, AllStay
<1>5. Late' = Late
  BY DEF Late, MayLand
<1> QED
  BY <1>4, <1>5

\* The end of a read.
LEMMA ReadEnds ==
    ASSUME BaseInv, CallsKnown, CallsKnown', NEW d \in Devices, op[d].pc \in {"status", "blob", "parts"},
           UNCHANGED <<requests, log>>, NEW kind, NEW v, NEW x, Ended(d, kind, v, x)
    PROVE  /\ Returns(d, kind, v, x) /\ Late' = Late
           /\ Calls[d].kind = "read" /\ Calls[d].base = op[d].low
<1>1. op' = [op EXCEPT ![d] = Idle] /\ answer' = [answer EXCEPT ![d] = [kind |-> kind, version |-> v, value |-> x]]
  BY DEF Ended
<1>2. op'[d] = Idle /\ \A e \in Devices \ {d} : op'[e] = op[e]
  BY <1>1 DEF BaseInv, ServerTypeOK
<1>3. Calls'[d] = NoCall
  BY <1>2 DEF CallsKnown, Idle
<1>4. \A e \in Devices \ {d} : Calls'[e] = Calls[e]
  BY <1>2, CallStays
<1>5. Becomes(d, NoCall)
  BY <1>3, <1>4, OneBecomes
<1>6. Returns(d, kind, v, x)
  BY <1>1, <1>5 DEF Returns
<1>7. Late' = Late
  BY DEF Late, MayLand
<1>8. Calls[d] = ReadCall(op[d].low)
  BY DEF CallsKnown
<1> QED
  BY <1>6, <1>7, <1>8 DEF ReadCall

RegisterStep == Register!RegisterNext \/ UNCHANGED <<log, Calls, answer, Late>>

LEMMA MapsStartOver ==
    ASSUME BaseInv, CallsKnown, CallsKnown', NEW d \in Devices, op[d].pc \in {"blob", "parts"},
           UNCHANGED <<requests, log>>, StartOver(d)
    PROVE  RegisterStep
<1>1. CASE Ended(d, "failed", 0, NoBlob)
  <2>1. Returns(d, "failed", 0, NoBlob) /\ Late' = Late /\ Calls[d].kind = "read"
    BY <1>1, ReadEnds
  <2> QED
    BY <2>1, MapsFail DEF RegisterStep
<1>2. CASE /\ op' = [op EXCEPT ![d] = [Idle EXCEPT !.pc = "status", !.low = op[d].low, !.tries = op[d].tries + 1]]
           /\ UNCHANGED answer
  <2>1. PICK o : o = [Idle EXCEPT !.pc = "status", !.low = op[d].low, !.tries = op[d].tries + 1]
    OBVIOUS
  <2>2. o.pc = "status" /\ o.low = op[d].low
    BY <2>1 DEF Idle
  <2>3. op' = [op EXCEPT ![d] = o]
    BY <1>2, <2>1
  <2> QED
    BY <1>2, <2>2, <2>3, ReadGoesOn DEF RegisterStep
<1> QED
  BY <1>1, <1>2 DEF StartOver

LEMMA MapsReadStatus ==
    ASSUME BaseInv, CallsKnown, CallsKnown', NEW d \in Devices, ReadStatus(d)
    PROVE  RegisterStep
<1>1. op[d].pc = "status" /\ requests' = requests /\ log' = log /\ op[d] \in Operation /\ op \in [Devices -> Operation]
  BY DeviceTypes DEF ReadStatus, BaseInv, ServerTypeOK
<1>2. CASE row.version = 0
  <2>1. Ended(d, "empty", 0, NoBlob)
    BY <1>2 DEF ReadStatus
  <2>2. Returns(d, "empty", 0, NoBlob) /\ Late' = Late /\ Calls[d].kind = "read" /\ Calls[d].base = op[d].low
    BY <1>1, <2>1, ReadEnds
  <2>3. op[d].low = 0
    BY <1>1, <1>2, DeviceTypes DEF BaseInv, RowInv, DownloadInv, DownloadOK
  <2> QED
    BY <2>2, <2>3, MapsEmpty DEF RegisterStep
<1>3. CASE row.version # 0
  <2>1. PICK o : o = [op[d] EXCEPT !.pc = IF row.upload = NoUpload THEN "blob" ELSE "parts",
                                   !.version = row.version, !.sha = row.sha,
                                   !.id = row.upload, !.parts = row.parts, !.got = <<>>]
    OBVIOUS
  <2>2. op' = [op EXCEPT ![d] = o] /\ answer' = answer
    BY <1>1, <1>3, <2>1 DEF ReadStatus, Operation
  <2>3. o.pc \in {"blob", "parts"} /\ o.low = op[d].low
    BY <1>1, <2>1 DEF Operation
  <2> QED
    BY <1>1, <2>2, <2>3, ReadGoesOn DEF RegisterStep
<1> QED
  BY <1>2, <1>3

LEMMA MapsGetBlob ==
    ASSUME BaseInv, CallsKnown, CallsKnown', NEW d \in Devices, GetBlob(d)
    PROVE  RegisterStep
<1>1. op[d].pc = "blob" /\ requests' = requests /\ log' = log
  BY DEF GetBlob
<1>2. CASE StartOver(d)
  BY <1>1, <1>2, MapsStartOver
<1>3. CASE Downloaded(d, row.version, row.sha, <<row.sha>>)
  <2>1. Ended(d, "value", row.version, row.sha)
    BY <1>3 DEF Downloaded
  <2>2. /\ Returns(d, "value", row.version, row.sha) /\ Late' = Late
        /\ Calls[d].kind = "read" /\ Calls[d].base = op[d].low
    BY <1>1, <2>1, ReadEnds
  <2>3. row.version \in 1..Len(log) /\ row.sha = log[row.version] /\ row.version >= op[d].low
    BY <1>1, StorageTypes, DeviceTypes DEF BaseInv, RowInv, DownloadInv, DownloadOK
  <2> QED
    BY <2>2, <2>3, MapsValue DEF RegisterStep
<1> QED
  BY <1>2, <1>3 DEF GetBlob

LEMMA MapsGetPart ==
    ASSUME BaseInv, CallsKnown, CallsKnown', NEW d \in Devices, GetPart(d)
    PROVE  RegisterStep
<1>1. /\ op[d].pc = "parts" /\ requests' = requests /\ log' = log /\ ServerTypeOK /\ DownloadOK(op[d])
      /\ op[d] \in Operation /\ op \in [Devices -> Operation]
  BY DeviceTypes DEF GetPart, BaseInv, DownloadInv, ServerTypeOK
<1>2. CASE StartOver(d)
  BY <1>1, <1>2, MapsStartOver
<1>3. CASE /\ uploads[op[d].id].parts[Len(op[d].got)] # NoBlob
           /\ op' = [op EXCEPT ![d].got = Append(op[d].got, uploads[op[d].id].parts[Len(op[d].got)])]
           /\ UNCHANGED answer
  <2>1. PICK o : o = [op[d] EXCEPT !.got = Append(op[d].got, uploads[op[d].id].parts[Len(op[d].got)])]
    OBVIOUS
  <2>2. op' = [op EXCEPT ![d] = o]
    BY <1>1, <1>3, <2>1 DEF Operation
  <2>3. o.pc = "parts" /\ o.low = op[d].low
    BY <1>1, <2>1 DEF Operation
  <2> QED
    BY <1>1, <1>3, <2>2, <2>3, ReadGoesOn DEF RegisterStep
<1>4. CASE /\ uploads[op[d].id].parts[Len(op[d].got)] # NoBlob
           /\ Downloaded(d, op[d].version, op[d].sha, Append(op[d].got, uploads[op[d].id].parts[Len(op[d].got)]))
  <2>1. Ended(d, "value", op[d].version, op[d].sha)
    BY <1>1, <1>4, PartIsPromised DEF Downloaded
  <2>2. /\ Returns(d, "value", op[d].version, op[d].sha) /\ Late' = Late
        /\ Calls[d].kind = "read" /\ Calls[d].base = op[d].low
    BY <1>1, <2>1, ReadEnds
  <2>3. op[d].version \in 1..Len(log) /\ op[d].sha = log[op[d].version] /\ op[d].version >= op[d].low
    BY <1>1, DeviceTypes DEF DownloadOK
  <2> QED
    BY <2>2, <2>3, MapsValue DEF RegisterStep
<1> QED
  BY <1>2, <1>3, <1>4 DEF GetPart

LEMMA StepMaps ==
    ASSUME IInv, IInv', CallsKnown, CallsKnown', [ServerNext]_serverVars
    PROVE  [Register!RegisterNext]_Register!registerVars
<1>0. BaseInv
  BY DEF IInv
<1>1. ASSUME NEW r \in requests, Handle(r)
      PROVE  RegisterStep
  <2>1. Effect(r)
    BY <1>1, HandleEffect DEF IInv, BaseInv, MemoryInv
  <2>2. Leaves(r) \/ \E q : Goes(r, q) \/ Installs(r, q)
    BY <2>1 DEF Effect
  <2> QED
    BY <1>0, <2>1, <2>2, MapsLeaves, MapsGoes, MapsInstalls DEF RegisterStep
<1>2. ASSUME NEW d \in Devices, Device(d)
      PROVE  RegisterStep
  BY <1>0, <1>2, MapsPush, MapsGiveUp, MapsPull, MapsReadStatus, MapsGetBlob, MapsGetPart DEF Device, RegisterStep
<1>3. CASE UNCHANGED <<row, requests, op, answer, log>>
  <2>1. \A d \in Devices : Calls'[d] = Calls[d]
    BY <1>0, <1>3, CallStays
  <2>2. Late' = Late
    BY <1>3 DEF Late, MayLand
  <2> QED
    BY <1>3, <2>1, <2>2, AllStay DEF Register!registerVars, Calls, Late
<1>4. CASE RegisterStep
  BY <1>4 DEF RegisterStep, Register!registerVars, Calls, Late
<1>5. ASSUME NEW u \in UploadIds, Age(u)
      PROVE  UNCHANGED <<row, requests, op, answer, log>>
  BY <1>5 DEF Age, clients
<1>6. UNCHANGED serverVars => UNCHANGED <<row, requests, op, answer, log>>
  BY DEF serverVars
<1> QED
  BY <1>1, <1>2, <1>3, <1>4, <1>5, <1>6 DEF ServerNext

LEMMA InitMaps == ServerInit => Register!RegisterInit
<1> SUFFICES ASSUME ServerInit
             PROVE  Register!RegisterInit
  OBVIOUS
<1>1. \A d \in Devices : CallOf(d) = Register!NoCall
  BY DEF ServerInit, CallOf, Idle, Register!NoCall
<1>2. {q \in requests : MayLand(q)} = {}
  BY DEF ServerInit
<1>3. NoAnswer = Register!NoAnswer
  BY DEF NoAnswer, Register!NoAnswer
<1> QED
  BY <1>1, <1>2, <1>3 DEF ServerInit, Register!RegisterInit

\* Every answer a device gets, over either storage, with requests lost,
\* abandoned or overtaken, is one that a compare-and-set register could give
\* (handler.ts, neon-storage.ts and the client's pull and push).
THEOREM ServerImplementsRegister == ServerSpec => ImplementsRegister
<1>1. IInv => BaseInv
  BY DEF IInv
<1>2. IInv /\ IInv' /\ CallsKnown /\ CallsKnown' /\ [ServerNext]_serverVars
        => [Register!RegisterNext]_Register!registerVars
  BY StepMaps
<1>3. ServerSpec => [](IInv /\ CallsKnown)
  BY <1>1, Invariance, Known, PTL
<1> QED
  BY <1>2, <1>3, InitMaps, PTL DEF ServerSpec, ImplementsRegister, Register!RegisterSpec

-----------------------------------------------------------------------------
(* How long a download can take, in memory.  A retired upload names the    *)
(* version that replaced it, so the uploads a prune keeps in preference to *)
(* one promised to a reader are counted by the versions since.             *)

SinceInv ==
    /\ \A u \in Retired : uploads[u].since \in 1..row.version
    /\ \A u, w \in Retired : uploads[u].since = uploads[w].since => u = w
    /\ \A d \in Devices : op[d].pc = "parts" =>
         \/ op[d].id = row.upload /\ op[d].version = row.version
         \/ /\ op[d].id # row.upload
            /\ uploads[op[d].id].state = "committed" => uploads[op[d].id].since = op[d].version + 1
PullInv == ~postgres => SinceInv /\ SlowPullFinishes

\* More than KeepMax versions pass before a prune drops a version that is not
\* past its window.
LEMMA PrunedLate ==
    ASSUME ServerTypeOK, SinceInv, NEW s \in Prunable, NEW u \in s,
           uploads[u].state = "committed", ~uploads[u].aged, NEW v \in Nat, uploads[u].since = v + 1
    PROVE  v + KeepMax < row.version
<1>1. PICK k \in Latest : u \in Retired /\ u \notin k
  BY DEF Prunable, Retired
<1>2. /\ k \subseteq Retired /\ Cardinality(k) <= KeepMax
      /\ Cardinality(k) < KeepMax => k = Retired
      /\ \A w \in k : uploads[w].since >= uploads[u].since
  BY <1>1 DEF Latest, LatestOf
<1>3. KeepMax \in Nat \ {0} /\ row.version \in Nat
  BY ServerAssumption, StorageTypes
<1>4. IsFiniteSet(k) /\ Cardinality(k) \in Nat
  <2>1. IsFiniteSet(UploadIds)
    BY FS_Interval, ConstantFacts DEF UploadIds
  <2>2. k \subseteq UploadIds
    BY <1>2 DEF Retired
  <2> QED
    BY <2>1, <2>2, FS_Subset, FS_CardinalityType
<1>5. Cardinality(k) = KeepMax
  BY <1>1, <1>2, <1>3, <1>4
<1>6. \A w \in k : uploads[w].since \in (v + 2)..row.version
  BY <1>1, <1>2, <1>3 DEF SinceInv
<1> DEFINE f == [w \in k |-> uploads[w].since]
<1>7. f \in Injection(k, (v + 2)..row.version)
  <2>1. f \in [k -> (v + 2)..row.version]
    BY <1>6
  <2>2. \A w, x \in k : f[w] = f[x] => w = x
    BY <1>2 DEF SinceInv
  <2> QED
    BY <2>1, <2>2 DEF Injection, IsInjective
<1>8. IsFiniteSet((v + 2)..row.version)
      /\ Cardinality((v + 2)..row.version) = IF v + 2 > row.version THEN 0 ELSE row.version - (v + 2) + 1
  <2>1. v + 2 \in Int /\ row.version \in Int
    BY <1>3
  <2> QED
    BY <2>1, FS_Interval, Zenon
<1> HIDE DEF f
<1>9. Cardinality(k) <= Cardinality((v + 2)..row.version)
  BY <1>7, <1>8, FS_Injection
<1> QED
  BY <1>3, <1>5, <1>8, <1>9

\* What a handler leaves of the windows: an upload is retired when it stops
\* being the current one, at the version that replaces it, and leaves only by
\* a prune; its window starts then and at no other time.
Windows(r) ==
    /\ row' # row =>
         /\ row'.version = row.version + 1
         /\ \/ row'.upload = NoUpload
            \/ row'.upload = r.id /\ r.stage = "claim" /\ r.id # row.upload
    /\ \A u \in UploadIds : uploads'[u].state = "committed" /\ u # row'.upload =>
         \/ u \in Retired /\ uploads'[u].since = uploads[u].since
         \/ u = row.upload /\ row' # row /\ uploads'[u].since = row'.version
    /\ \A u \in UploadIds : u < nextId =>
         \/ uploads'[u].aged = uploads[u].aged
         \/ u = row.upload
         \/ u = r.id /\ r.stage = "claim"
    /\ \A u \in UploadIds : u < nextId /\ uploads[u].state = "committed" =>
         \/ uploads'[u].state = "committed"
         \/ row' = row /\ \E s \in Prunable : u \in s

LEMMA WindowsSame == ASSUME NEW r, UNCHANGED <<uploads, row>> PROVE Windows(r)
BY DEF Windows, Retired

LEMMA PruneWindows ==
    ASSUME BaseInv, ~postgres, NEW r \in requests, Prune(r)
    PROVE  Windows(r)
<1>1. PICK seen \in Visible(r) : uploads' = Delete(seen.ids)
  BY DEF Prune
<1>2. r.stage \in {"prune", "after"} /\ UNCHANGED row
  BY DEF Prune
<1>3. seen.ids \in Prunable
  BY <1>1, <1>2, SelectedTypes DEF Visible
<1>4. \A u \in UploadIds : \/ uploads'[u] = uploads[u]
                           \/ /\ u \in seen.ids /\ uploads'[u].state = "deleted"
                              /\ uploads'[u].aged = uploads[u].aged
  BY <1>1 DEF Delete, Unused
<1> QED
  BY <1>2, <1>3, <1>4 DEF Windows, Retired

LEMMA CreateWindows ==
    ASSUME BaseInv, ~postgres, NEW r \in requests, CreateUpload(r)
    PROVE  Windows(r)
<1>0. ServerTypeOK /\ UNCHANGED row
  BY DEF BaseInv, CreateUpload
<1>1. PICK seen \in Visible(r) :
         uploads' = [u \in UploadIds |->
             IF u = nextId THEN [Unused EXCEPT !.state = "open"]
             ELSE IF u \in seen.ids \cap OpenUploads
                  THEN [uploads[u] EXCEPT !.state = "replaced"]
             ELSE uploads[u]]
  BY DEF CreateUpload
<1>2. \A u \in UploadIds :
        \/ u = nextId /\ uploads'[u].state = "open"
        \/ /\ uploads[u].state = "open" /\ uploads'[u].state = "replaced"
           /\ uploads'[u].aged = uploads[u].aged
        \/ uploads'[u] = uploads[u]
  BY <1>0, <1>1, StorageTypes DEF OpenUploads, Upload, Unused
<1> QED
  BY <1>0, <1>2, StorageTypes DEF Windows, Retired

LEMMA PutPartWindows ==
    ASSUME BaseInv, ~postgres, NEW r \in requests, PutPart(r)
    PROVE  Windows(r)
<1>0. ServerTypeOK /\ RequestInv
  BY DEF BaseInv
<1>1. UNCHANGED row /\ r.id \in UploadIds
  BY <1>0, RequestTypes, IdTypes DEF PutPart, RequestInv, RequestOK
<1>2. uploads' = uploads \/ uploads' = [uploads EXCEPT ![r.id].parts[r.n] = r.sha]
  BY DEF PutPart
<1>3. \A u \in UploadIds : /\ uploads'[u].state = uploads[u].state /\ uploads'[u].since = uploads[u].since
                           /\ uploads'[u].aged = uploads[u].aged
  <2>1. CASE uploads' = uploads
    BY <2>1
  <2>2. CASE uploads' = [uploads EXCEPT ![r.id].parts[r.n] = r.sha]
    <3>1. \A u \in UploadIds : u # r.id => uploads'[u] = uploads[u]
      BY <1>0, <1>1, <2>2 DEF ServerTypeOK
    <3>2. uploads'[r.id] = [uploads[r.id] EXCEPT !.parts[r.n] = r.sha]
      BY <1>0, <1>1, <2>2 DEF ServerTypeOK
    <3>3. uploads[r.id] \in Upload
      BY <1>0, <1>1, StorageTypes
    <3>4. /\ uploads'[r.id].state = uploads[r.id].state /\ uploads'[r.id].since = uploads[r.id].since
          /\ uploads'[r.id].aged = uploads[r.id].aged
      BY <3>2, <3>3 DEF Upload
    <3> QED
      BY <3>1, <3>4
  <2> QED
    BY <1>2, <2>1, <2>2
<1> QED
  BY <1>1, <1>3 DEF Windows, Retired

\* What Superseded says of the windows.
LEMMA SupersededWindows ==
    ASSUME ServerTypeOK, NEW ups \in [UploadIds -> Upload], NEW u \in UploadIds
    PROVE  /\ Superseded(ups)[u].state = ups[u].state
           /\ u = row.upload => Superseded(ups)[u].since = row.version + 1
           /\ u # row.upload => Superseded(ups)[u].since = ups[u].since /\ Superseded(ups)[u].aged = ups[u].aged
BY DEF Superseded, Upload

LEMMA PutBlobWindows ==
    ASSUME BaseInv, ~postgres, NEW r \in requests, PutBlob(r)
    PROVE  Windows(r)
<1>0. ServerTypeOK /\ uploads \in [UploadIds -> Upload] /\ row.version \in Nat
  BY StorageTypes DEF BaseInv, ServerTypeOK
<1>1. CASE UNCHANGED <<uploads, row>>
  BY <1>1, WindowsSame
<1>2. CASE InstallRow(r.sha, NoUpload) /\ uploads' = Superseded(uploads)
  <2>1. row'.upload = NoUpload /\ row'.version = row.version + 1 /\ row' # row
    BY <1>0, <1>2 DEF InstallRow
  <2> QED
    BY <1>0, <1>2, <2>1, SupersededWindows DEF Windows, Retired
<1> QED
  BY <1>1, <1>2 DEF PutBlob

LEMMA CommitWindows ==
    ASSUME BaseInv, ~postgres, NEW r \in requests, CommitUpload(r)
    PROVE  Windows(r)
<1>0. ServerTypeOK /\ RequestInv /\ row.version \in Nat
  BY StorageTypes DEF BaseInv
<1>1. r.stage = "claim" /\ r.id \in UploadIds /\ r.id # row.upload
  BY <1>0, RequestTypes, IdTypes DEF CommitUpload, RequestInv, RequestOK
<1>2. Claimed(r) \in [UploadIds -> Upload] /\ \A u \in UploadIds : u # r.id => Claimed(r)[u] = uploads[u]
  BY <1>0, <1>1, ClaimedUploads
<1>3. Claimed(r)[r.id].state = "committed"
  <2>1. Claimed(r)[r.id] = [state |-> "committed", parts |-> uploads[r.id].parts,
                            since |-> row.version, aged |-> FALSE]
    BY <1>0, <1>1, ClaimedUploads, Zenon
  <2> QED
    BY <2>1
<1>4. CASE UNCHANGED <<uploads, row>>
  BY <1>4, WindowsSame
<1>5. CASE uploads[r.id].state = "open" /\ InstallRow(r.sha, r.id) /\ uploads' = Superseded(Claimed(r))
  <2>1. row'.upload = r.id /\ row'.version = row.version + 1 /\ row' # row
    BY <1>0, <1>5 DEF InstallRow
  <2>2. \A u \in UploadIds :
          /\ uploads'[u].state = Claimed(r)[u].state
          /\ u = row.upload => uploads'[u].since = row.version + 1
          /\ u # row.upload => uploads'[u].since = Claimed(r)[u].since /\ uploads'[u].aged = Claimed(r)[u].aged
    BY <1>0, <1>2, <1>5, SupersededWindows
  <2> QED
    BY <1>0, <1>1, <1>2, <1>3, <1>5, <2>1, <2>2 DEF Windows, Retired
<1>6. ASSUME NEW seen \in Visible(r), seen.ok
      PROVE  AtBase(r)
  <2>1. Selected(r) = {[ok |-> Claimable(r), ids |-> {}]}
    BY <1>1 DEF Selected
  <2>2. seen = [ok |-> Claimable(r), ids |-> {}]
    BY <1>6, <2>1 DEF Visible
  <2>3. seen.ok = Claimable(r)
    BY <2>2
  <2>4. Claimable(r)
    BY <1>6, <2>3, Zenon
  <2> QED
    BY <2>4 DEF Claimable
<1> QED
  BY <1>4, <1>5, <1>6 DEF CommitUpload, Claimed

LEMMA HandleWindows ==
    ASSUME BaseInv, ~postgres, NEW r \in requests, Handle(r)
    PROVE  Windows(r)
<1>1. CASE Snapshot(r) \/ ReadOpenParts(r) \/ ExplainClaim(r) \/ CurrentVersion(r) \/ LoseRequest(r)
  <2>1. UNCHANGED <<uploads, row>>
    BY <1>1 DEF Snapshot, ReadOpenParts, ExplainClaim, CurrentVersion, LoseRequest, storage
  <2> QED
    BY <2>1, WindowsSame
<1> QED
  BY <1>1, PruneWindows, CreateWindows, PutPartWindows, PutBlobWindows, CommitWindows DEF Handle

LEMMA HandlersKeepPulls ==
    ASSUME IInv, ~postgres, SinceInv, SlowPullFinishes, BaseInv', NEW r \in requests, Handle(r)
    PROVE  SinceInv' /\ SlowPullFinishes'
<1>0. /\ BaseInv /\ ServerTypeOK /\ RowInv /\ RequestInv /\ DownloadInv /\ CurrentReadable /\ Windows(r) /\ Effect(r)
      /\ row.version \in Nat /\ row.upload \in MaybeUpload /\ KeepMax \in Nat
  BY HandleWindows, HandleEffect, StorageTypes, ServerAssumption DEF IInv, BaseInv, MemoryInv
<1>1. row'.version \in Nat /\ row.version <= row'.version /\ (row' # row => row'.version = row.version + 1)
  BY <1>0 DEF Windows
<1>2. \A u \in Retired' : /\ u \in UploadIds
                         /\ \/ u \in Retired /\ uploads'[u].since = uploads[u].since
                            \/ u = row.upload /\ row' # row /\ uploads'[u].since = row'.version
  BY <1>0 DEF Retired, Windows
\* A download that goes on names what it named.
<1>3. ASSUME NEW d \in Devices, op'[d].pc = "parts"
      PROVE  /\ op[d].pc = "parts" /\ op'[d].id = op[d].id /\ op'[d].version = op[d].version
             /\ op[d].id \in UploadIds /\ op[d].id < nextId /\ op[d].version \in 1..row.version
             /\ ~(op[d].id = r.id /\ r.stage = "claim")
  <2>1. op'[d] = op[d]
    BY <1>0, <1>3, OpMoves DEF Idle
  <2> QED
    BY <1>0, <1>3, <2>1 DEF DownloadInv, DownloadOK, RowInv, RequestInv, RequestOK, NoUpload, UploadIds
<1>4. \A u \in Retired' : uploads'[u].since \in 1..row'.version
  <2>1. \A u \in Retired : uploads[u].since \in 1..row.version
    BY DEF SinceInv
  <2> SUFFICES ASSUME NEW u \in Retired'
               PROVE  uploads'[u].since \in 1..row'.version
    OBVIOUS
  <2>2. CASE u \in Retired /\ uploads'[u].since = uploads[u].since
    BY <1>0, <1>1, <2>1, <2>2
  <2>3. CASE row' # row /\ uploads'[u].since = row'.version
    BY <1>0, <1>1, <2>3
  <2> QED
    BY <1>2, <2>2, <2>3
<1>5. \A u, w \in Retired' : uploads'[u].since = uploads'[w].since => u = w
  <2>1. \A u \in Retired : uploads[u].since \in 1..row.version
    BY DEF SinceInv
  <2> QED
    BY <1>0, <1>1, <1>2, <2>1 DEF SinceInv
<1>6. ASSUME NEW d \in Devices, op'[d].pc = "parts"
      PROVE  \/ op'[d].id = row'.upload /\ op'[d].version = row'.version
             \/ /\ op'[d].id # row'.upload
                /\ uploads'[op'[d].id].state = "committed" => uploads'[op'[d].id].since = op'[d].version + 1
  <2> DEFINE u == op[d].id
  <2>1. u \in UploadIds /\ op'[d].id = u /\ op'[d].version = op[d].version /\ op[d].pc = "parts"
        /\ ~(u = r.id /\ r.stage = "claim")
    BY <1>3, <1>6
  <2>2. CASE u = row'.upload
    <3>1. row' = row
      BY <1>0, <2>1, <2>2, IdTypes DEF Windows, NoUpload, UploadIds
    <3> QED
      BY <2>1, <2>2, <3>1 DEF SinceInv
  <2>3. CASE u # row'.upload /\ uploads'[u].state = "committed"
    <3>1. CASE u \in Retired /\ uploads'[u].since = uploads[u].since
      BY <2>1, <2>3, <3>1 DEF SinceInv, Retired
    <3>2. CASE u = row.upload /\ row' # row /\ uploads'[u].since = row'.version
      BY <1>1, <2>1, <2>3, <3>2 DEF SinceInv
    <3> QED
      BY <1>0, <2>1, <2>3, <3>1, <3>2 DEF Windows
  <2> QED
    BY <2>1, <2>2, <2>3
<1>7. SlowPullFinishes'
  <2>1. SUFFICES ASSUME NEW d \in Devices, op'[d].pc = "parts", op'[d].version + KeepMax >= row'.version,
                        ~uploads'[op'[d].id].aged
                 PROVE  uploads'[op'[d].id].state = "committed"
    BY DEF SlowPullFinishes
  <2>2. PICK u \in UploadIds : u = op[d].id
    BY <1>3, <2>1
  <2>3. /\ op'[d].id = u /\ op'[d].version = op[d].version /\ op[d].pc = "parts" /\ u < nextId
        /\ op[d].version \in Nat /\ op[d].version + KeepMax >= row.version /\ u # NoUpload
        /\ ~(u = r.id /\ r.stage = "claim")
    BY <1>0, <1>1, <1>3, <2>1, <2>2 DEF NoUpload, UploadIds
  <2>4. uploads[u].state = "committed"
    <3>1. CASE u = row.upload
      BY <1>0, <2>3, <3>1 DEF CurrentReadable
    <3>2. CASE u # row.upload
      <4>1. uploads'[u].aged = uploads[u].aged
        BY <1>0, <2>3, <3>2 DEF Windows
      <4>2. ~uploads[u].aged
        BY <2>1, <2>3, <4>1, Zenon
      <4> QED
        BY <2>2, <2>3, <4>2 DEF SlowPullFinishes
    <3> QED
      BY <3>1, <3>2
  <2>5. ASSUME NEW s \in Prunable, u \in s
        PROVE  FALSE
    <3>1. u # row.upload
      BY <2>5 DEF Prunable, Retired
    <3>2. ~uploads[u].aged
      <4>1. uploads'[u].aged = uploads[u].aged
        BY <1>0, <2>3, <3>1 DEF Windows
      <4> QED
        BY <2>1, <2>3, <4>1, Zenon
    <3>3. uploads[u].since = op[d].version + 1
      BY <2>2, <2>3, <2>4, <3>1 DEF SinceInv
    <3>4. op[d].version + KeepMax < row.version
      BY <1>0, <2>3, <2>4, <2>5, <3>2, <3>3, PrunedLate
    <3> QED
      BY <1>0, <2>3, <3>4
  <2> QED
    BY <1>0, <2>3, <2>4, <2>5 DEF Windows
<1> QED
  BY <1>4, <1>5, <1>6, <1>7 DEF SinceInv

LEMMA DevicesKeepPulls ==
    ASSUME IInv, ~postgres, SinceInv, SlowPullFinishes, NEW d \in Devices, Device(d)
    PROVE  SinceInv' /\ SlowPullFinishes'
<1>0. ServerTypeOK /\ CurrentReadable /\ op \in [Devices -> Operation] /\ UNCHANGED <<row, uploads>>
  BY DEF IInv, BaseInv, MemoryInv, ServerTypeOK, Device, Push, GiveUp, Pull, ReadStatus, GetBlob, GetPart, storage
<1>1. ASSUME NEW e \in Devices, op'[e].pc = "parts"
      PROVE  \/ op[e].pc = "parts" /\ op'[e].id = op[e].id /\ op'[e].version = op[e].version
             \/ op'[e].id = row.upload /\ op'[e].version = row.version /\ row.upload # NoUpload
  <2>1. CASE e # d
    <3>1. op'[e] = op[e]
      BY <1>0, <2>1 DEF Device, Push, GiveUp, Pull, ReadStatus, GetBlob, GetPart, Ended, StartOver, Downloaded
    <3> QED
      BY <1>1, <3>1
  <2>2. CASE e = d
    <3>0. /\ \A kind, v, x : Ended(d, kind, v, x) => op'[d].pc = "idle"
          /\ StartOver(d) => op'[d].pc # "parts"
      <4>1. \A kind, v, x : Ended(d, kind, v, x) => op'[d] = Idle
        BY <1>0 DEF Ended
      <4>2. Idle.pc = "idle"
        BY DEF Idle
      <4>3. ASSUME op' = [op EXCEPT ![d] = [Idle EXCEPT !.pc = "status", !.low = op[d].low,
                                                        !.tries = op[d].tries + 1]]
            PROVE  op'[d].pc = "status"
        BY <1>0, <4>3 DEF Idle
      <4> QED
        BY <4>1, <4>2, <4>3 DEF StartOver
    <3>1. CASE Push(d) \/ GiveUp(d) \/ Pull(d) \/ GetBlob(d)
      <4>1. CASE Push(d) \/ Pull(d)
        BY <1>0, <1>1, <2>2, <4>1 DEF Push, Pull, Idle
      <4>2. CASE GiveUp(d)
        BY <1>1, <2>2, <3>0, <4>2 DEF GiveUp
      <4>3. CASE GetBlob(d)
        BY <1>1, <2>2, <3>0, <4>3 DEF GetBlob, Downloaded
      <4> QED
        BY <3>1, <4>1, <4>2, <4>3
    <3>2. CASE ReadStatus(d)
      BY <1>0, <1>1, <2>2, <3>2 DEF ReadStatus, Ended, Idle, Operation
    <3>3. CASE GetPart(d)
      <4>1. CASE \E got : op' = [op EXCEPT ![d].got = got]
        <5>1. PICK got : op' = [op EXCEPT ![d].got = got]
          BY <4>1
        <5>2. op'[d] = [op[d] EXCEPT !.got = got] /\ op[d] \in Operation
          BY <1>0, <5>1
        <5> QED
          BY <1>1, <2>2, <3>3, <5>2 DEF GetPart, Operation
      <4>2. CASE StartOver(d) \/ \E v, x, got : Downloaded(d, v, x, got)
        BY <1>1, <2>2, <3>0, <4>2 DEF Downloaded
      <4> QED
        BY <3>3, <4>1, <4>2 DEF GetPart
    <3> QED
      BY <1>1, <3>1, <3>2, <3>3, <2>2 DEF Device
  <2> QED
    BY <2>1, <2>2
<1>2. SinceInv'
  BY <1>0, <1>1 DEF SinceInv, Retired
<1>3. SlowPullFinishes'
  BY <1>0, <1>1 DEF SlowPullFinishes, CurrentReadable
<1> QED
  BY <1>2, <1>3

LEMMA AgeKeepsPulls ==
    ASSUME IInv, ~postgres, SinceInv, SlowPullFinishes, NEW u \in UploadIds, Age(u)
    PROVE  SinceInv' /\ SlowPullFinishes'
<1>0. ServerTypeOK /\ DownloadInv /\ UNCHANGED <<postgres, row, op>>
  BY DEF IInv, BaseInv, Age, clients
<1>1. \A w \in UploadIds : w # u => uploads'[w] = uploads[w]
  BY <1>0 DEF Age, ServerTypeOK
<1>2. /\ uploads'[u].state = uploads[u].state /\ uploads'[u].since = uploads[u].since
      /\ uploads'[u].aged = TRUE
  <2>1. uploads'[u] = [uploads[u] EXCEPT !.aged = TRUE]
    BY <1>0 DEF Age, ServerTypeOK
  <2>2. uploads[u] \in Upload
    BY <1>0, StorageTypes
  <2> QED
    BY <2>1, <2>2 DEF Upload
<1>3. \A w \in UploadIds : uploads'[w].state = uploads[w].state /\ uploads'[w].since = uploads[w].since
  BY <1>1, <1>2
<1>4. \A d \in Devices : op[d].pc = "parts" => op[d].id \in UploadIds
  BY <1>0 DEF DownloadInv, DownloadOK
<1>5. SinceInv'
  BY <1>0, <1>3, <1>4 DEF SinceInv, Retired
<1>6. SlowPullFinishes'
  <2>1. SUFFICES ASSUME NEW d \in Devices, op[d].pc = "parts", op[d].version + KeepMax >= row.version,
                        ~uploads'[op[d].id].aged
                 PROVE  uploads'[op[d].id].state = "committed"
    BY <1>0 DEF SlowPullFinishes
  <2>2. op[d].id # u
    BY <1>2, <2>1, Zenon
  <2>3. uploads'[op[d].id] = uploads[op[d].id]
    BY <1>1, <1>4, <2>1, <2>2
  <2>4. ~uploads[op[d].id].aged
    BY <2>1, <2>3, Zenon
  <2> QED
    BY <2>1, <2>3, <2>4 DEF SlowPullFinishes
<1> QED
  BY <1>5, <1>6

LEMMA InitPulls == ServerInit => PullInv
BY DEF ServerInit, PullInv, SinceInv, SlowPullFinishes, Retired, Unused, Idle

LEMMA NextPulls == IInv /\ IInv' /\ PullInv /\ [ServerNext]_serverVars => PullInv'
<1> SUFFICES ASSUME IInv, IInv', PullInv, [ServerNext]_serverVars, ~postgres'
             PROVE  SinceInv' /\ SlowPullFinishes'
  BY DEF PullInv
<1>1. ~postgres /\ SinceInv /\ SlowPullFinishes
  <2>1. UNCHANGED postgres
    BY DEF ServerNext, Handle, Device, Snapshot, Prune, CreateUpload, PutPart, PutBlob, ReadOpenParts, CommitUpload,
           ExplainClaim, CurrentVersion, LoseRequest, Push, GiveUp, Pull, ReadStatus, GetBlob, GetPart, Age,
           storage, serverVars
  <2> QED
    BY <2>1 DEF PullInv
<1>2. ASSUME NEW r \in requests, Handle(r)
      PROVE  SinceInv' /\ SlowPullFinishes'
  BY <1>1, <1>2, HandlersKeepPulls DEF IInv
<1>3. ASSUME NEW d \in Devices, Device(d)
      PROVE  SinceInv' /\ SlowPullFinishes'
  BY <1>1, <1>3, DevicesKeepPulls
<1>4. ASSUME NEW u \in UploadIds, Age(u)
      PROVE  SinceInv' /\ SlowPullFinishes'
  BY <1>1, <1>4, AgeKeepsPulls
<1>5. CASE UNCHANGED serverVars
  BY <1>1, <1>5 DEF serverVars, SinceInv, SlowPullFinishes, Retired
<1> QED
  BY <1>2, <1>3, <1>4, <1>5 DEF ServerNext

\* In memory a version named to a reader stays downloadable until its window
\* passes or KeepMax later versions have themselves been replaced, however
\* many devices push meanwhile (pruneUploads, SUPERSEDED_KEEP_MAX).
THEOREM SlowPullsFinish == ServerSpec => []SlowPullFinishes
<1>1. PullInv => SlowPullFinishes
  BY DEF PullInv, SlowPullFinishes
<1> QED
  BY <1>1, Invariance, InitPulls, NextPulls, PTL DEF ServerSpec
=============================================================================
