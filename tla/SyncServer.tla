------------------------------ MODULE SyncServer ------------------------------
(***************************************************************************)
(* One account of the sync server (apps/sync-server/src/handler.ts over a  *)
(* Storage) and the transport of its clients (packages/sync/src/client.ts  *)
(* pullBlob, pullParts, pushBlob, pushParts).                              *)
(*                                                                         *)
(* A vault of one part travels in a single PUT.  A larger one opens an     *)
(* upload, sends its parts and commits them.  A request handler awaits its *)
(* storage calls one by one, so the handlers of several devices interleave *)
(* between any two of them, and a handler runs on after its client has     *)
(* given up.  InMemoryStorage makes every storage call one step.           *)
(* NeonStorage makes it one statement at PostgreSQL's READ COMMITTED: it   *)
(* selects rows from the snapshot it starts with, and re-checks only the   *)
(* columns of the rows it then writes.                                     *)
(*                                                                         *)
(* A vault's bytes are a model value; slice n of vault x is stored as x at *)
(* index n, and a sha256 is the bytes it names.                            *)
(***************************************************************************)
EXTENDS Integers, Sequences, FiniteSets

CONSTANTS
    Devices,
    Blobs,       \* the vaults that can be pushed
    PartsOf,     \* PartsOf[x]: how many parts blob x takes; one means a single PUT
    KeepMax,     \* SUPERSEDED_KEEP_MAX
    MaxUploads,  \* bound: uploads ever opened
    MaxVersion,  \* bound: versions, for each storage
    MaxLost      \* bound: requests whose client gave up, at a time, for each storage

NoBlob == "no blob"

ASSUME ServerAssumption ==
    /\ PartsOf \in [Blobs -> Nat \ {0}]
    /\ KeepMax \in Nat \ {0}
    /\ NoBlob \notin Blobs
    /\ MaxUploads \in Nat
    /\ {MaxVersion, MaxLost} \subseteq [BOOLEAN -> Nat]

UploadIds == 1..MaxUploads
NoUpload == 0
MaybeUpload == UploadIds \cup {NoUpload}
MaybeBlobs == Blobs \cup {NoBlob}
PartIndexes == UNION {0..(PartsOf[x] - 1) : x \in Blobs}
MaxTries == 3

\* An upload: the slices it holds, the version current when it stopped being
\* current or was claimed in vain, and whether its time to live has passed.
Upload == [state: {"unused", "open", "replaced", "committed", "deleted"},
           parts: [PartIndexes -> MaybeBlobs], since: Nat, aged: BOOLEAN]
Unused == [state |-> "unused", parts |-> [n \in PartIndexes |-> NoBlob],
           since |-> 0, aged |-> FALSE]

\* The account's row of sync_blobs; upload is NoUpload for a single-row blob.
Row == [version: Nat, sha: MaybeBlobs, upload: MaybeUpload, parts: Nat]
NoRow == [version |-> 0, sha |-> NoBlob, upload |-> NoUpload, parts |-> 0]

\* A request being handled.  live: its client still waits.  saw: what the
\* statement in progress selected; version: what the handler will answer.
Seen == [ok: BOOLEAN, ids: SUBSET UploadIds]
NotYet == [ok |-> FALSE, ids |-> {NoUpload}]
Stages == {"prune", "create", "write", "put", "read", "claim", "why", "version", "after"}
Request == [from: Devices, live: BOOLEAN, stage: Stages, id: MaybeUpload, n: Nat,
            sha: Blobs, base: Nat, version: Nat, saw: Seen \cup {NotYet}]

\* A client's push or pull.  low: the version current when a pull began.
Operation == [pc: {"idle", "pushing", "status", "blob", "parts"}, sha: MaybeBlobs,
              base: Nat, id: MaybeUpload, version: Nat, parts: Nat,
              got: Seq(MaybeBlobs), tries: Nat, low: Nat]
Idle == [pc |-> "idle", sha |-> NoBlob, base |-> 0, id |-> NoUpload, version |-> 0,
         parts |-> 0, got |-> <<>>, tries |-> 0, low |-> 0]

Answer == [kind: {"none", "value", "empty", "written", "conflict", "failed", "corrupt"},
           version: Nat, value: MaybeBlobs]
NoAnswer == [kind |-> "none", version |-> 0, value |-> NoBlob]

VARIABLES
    postgres,              \* TRUE: NeonStorage, FALSE: InMemoryStorage
    row, uploads, nextId,  \* the account's storage
    requests,              \* the requests being handled
    op,                    \* op[d]: the operation of device d
    known,                 \* known[d]: lastVersion of its sync.json
    answer,                \* answer[d]: how its last operation ended
    log                    \* log[v]: the blob installed as version v

storage == <<postgres, row, uploads, nextId>>
clients == <<op, known, answer>>
serverVars == <<postgres, row, uploads, nextId, requests, op, known, answer, log>>

ServerInit ==
    /\ postgres \in BOOLEAN
    /\ row = NoRow
    /\ uploads = [u \in UploadIds |-> Unused]
    /\ nextId = 1
    /\ requests = {}
    /\ op = [d \in Devices |-> Idle]
    /\ known = [d \in Devices |-> 0]
    /\ answer = [d \in Devices |-> NoAnswer]
    /\ log = <<>>

-----------------------------------------------------------------------------
(* What the statements select *)

OpenUploads == {u \in UploadIds : uploads[u].state = "open"}

\* Committed uploads that are not the current version.
RetiredOrCurrent == {u \in UploadIds : uploads[u].state = "committed"}
Retired == {u \in UploadIds : uploads[u].state = "committed" /\ u # row.upload}

\* The KeepMax latest of them; equal times rank either way.
LatestOf(max) ==
    {k \in SUBSET Retired :
        /\ Cardinality(k) <= max
        /\ Cardinality(k) < max => k = Retired
        /\ \A u \in k, w \in Retired \ k : uploads[u].since >= uploads[w].since}
LatestLessOne == LatestOf(KeepMax - 1)
Latest == LatestOf(KeepMax)

\* What pruneUploads drops: replaced and abandoned uploads, and retired ones
\* that are past their window or not among the KeepMax latest.
Prunable ==
    LET spent == {u \in UploadIds : /\ u # row.upload
                                    /\ \/ uploads[u].state = "replaced"
                                       \/ uploads[u].state = "open" /\ uploads[u].aged}
    IN  {spent \cup (Retired \ k) \cup {u \in Retired : uploads[u].aged} : k \in Latest}

PartCount(u) == Cardinality({n \in PartIndexes : uploads[u].parts[n] # NoBlob})

\* checkParts: contiguous from 0, and hashing to the stated sha256.
Complete(u, x) ==
    \A n \in PartIndexes : uploads[u].parts[n] = IF n < PartsOf[x] THEN x ELSE NoBlob

\* The compare of the compare-and-set.
AtAnyBase(r) == TRUE
AtBase(r) == row.version = r.base

\* commitUpload asks for the open upload, its part count and the base.
Claimable(r) ==
    /\ uploads[r.id].state = "open"
    /\ PartCount(r.id) = PartsOf[r.sha]
    /\ AtBase(r)

Selected(r) ==
    CASE r.stage \in {"prune", "after"} -> {[ok |-> TRUE, ids |-> s] : s \in Prunable}
      [] r.stage = "create" -> {[ok |-> TRUE, ids |-> OpenUploads]}
      [] r.stage = "write" -> {[ok |-> uploads[r.id].state = "open", ids |-> {}]}
      [] r.stage = "put" -> {[ok |-> AtBase(r), ids |-> {}]}
      [] r.stage = "claim" -> {[ok |-> Claimable(r), ids |-> {}]}
      [] OTHER -> {}

\* PostgreSQL takes the snapshot first and writes later; in memory the two
\* are one step.
Snapshot(r) ==
    /\ postgres /\ r.saw = NotYet
    /\ \E seen \in Selected(r) :
          requests' = (requests \ {r}) \cup {[r EXCEPT !.saw = seen]}
    /\ UNCHANGED <<storage, clients, log>>

Visible(r) == IF postgres THEN {r.saw} \ {NotYet} ELSE Selected(r)

-----------------------------------------------------------------------------
(* Answers, as the client takes them *)

Await(r, stage) == requests' = (requests \ {r}) \cup {[r EXCEPT !.stage = stage, !.saw = NotYet]}

NewRequest(d, stage, id, n, sha, base) ==
    [from |-> d, live |-> TRUE, stage |-> stage, id |-> id, n |-> n, sha |-> sha,
     base |-> base, version |-> 0, saw |-> NotYet]

Ended(d, kind, version, value) ==
    /\ op' = [op EXCEPT ![d] = Idle]
    /\ answer' = [answer EXCEPT ![d] = [kind |-> kind, version |-> version, value |-> value]]

\* The request ends and so does the push that waits for it, if any.
Reply(r, kind, version) ==
    /\ requests' = requests \ {r}
    /\ IF r.live
       THEN /\ Ended(r.from, kind, version, IF kind = "written" THEN r.sha ELSE NoBlob)
            /\ known' = IF kind = "written" THEN [known EXCEPT ![r.from] = version] ELSE known
       ELSE UNCHANGED clients

\* The request ends and the push goes on with part n of upload id, or commits.
ReplyNext(r, id, n) ==
    /\ requests' = (requests \ {r}) \cup
         (IF ~r.live THEN {}
          ELSE {NewRequest(r.from, IF n < PartsOf[r.sha] THEN "write" ELSE "read",
                           id, n, r.sha, r.base)})
    /\ UNCHANGED clients

-----------------------------------------------------------------------------
(* The storage calls of the handlers, one action each *)

Delete(ids) == [u \in UploadIds |->
    IF u \in ids THEN [Unused EXCEPT !.state = "deleted", !.aged = uploads[u].aged]
    ELSE uploads[u]]

\* pruneUploads, before an upload is created and after a version is installed.
\* A DELETE re-checks that the row still exists and nothing else.
Prune(r) ==
    /\ r.stage \in {"prune", "after"}
    /\ \E seen \in Visible(r) : uploads' = Delete(seen.ids)
    /\ IF r.stage = "prune" THEN Await(r, "create") /\ UNCHANGED clients
       ELSE Reply(r, "written", r.version)
    /\ UNCHANGED <<postgres, row, nextId, log>>

\* createUpload: every other open upload becomes replaced.
CreateUpload(r) ==
    /\ r.stage = "create"
    /\ \E seen \in Visible(r) :
          uploads' = [u \in UploadIds |->
             IF u = nextId THEN [Unused EXCEPT !.state = "open"]
             ELSE IF u \in seen.ids \cap OpenUploads
                  THEN [uploads[u] EXCEPT !.state = "replaced"]
             ELSE uploads[u]]
    /\ nextId' = nextId + 1
    /\ ReplyNext(r, nextId, 0)
    /\ UNCHANGED <<postgres, row, log>>

\* putPart: write-once.  A deleted upload fails the part's foreign key.
PutPart(r) ==
    /\ r.stage = "write"
    /\ \E seen \in Visible(r) :
          IF seen.ok /\ uploads[r.id].state # "deleted"
          THEN /\ uploads' = IF uploads[r.id].parts[r.n] # NoBlob THEN uploads
                             ELSE [uploads EXCEPT ![r.id].parts[r.n] = r.sha]
               /\ ReplyNext(r, r.id, r.n + 1)
          ELSE /\ UNCHANGED uploads
               /\ Reply(r, "failed", 0)
    /\ UNCHANGED <<postgres, row, nextId, log>>

\* A new version: the upload it supersedes starts its readable window.
Superseded(ups) ==
    [u \in UploadIds |-> IF u = row.upload
                         THEN [ups[u] EXCEPT !.since = row.version + 1, !.aged = FALSE]
                         ELSE ups[u]]
InstallRow(x, id) ==
    /\ row' = [version |-> row.version + 1, sha |-> x, upload |-> id,
               parts |-> IF id = NoUpload THEN 0 ELSE PartsOf[x]]
    /\ log' = Append(log, x)

Installed(r) == requests' = (requests \ {r}) \cup
    {[r EXCEPT !.stage = "after", !.version = row.version + 1, !.saw = NotYet]}

\* A refused write answers with the current version, which NeonStorage reads
\* in a statement of its own.
Refused(r) == IF postgres THEN Await(r, "version") /\ UNCHANGED clients
              ELSE Reply(r, "conflict", row.version)

\* put: a first version is inserted if there is none, a later one replaces
\* the version it names.
PutBlob(r) ==
    /\ r.stage = "put"
    /\ \E seen \in Visible(r) :
          IF AtBase(r) /\ (r.base = 0 \/ seen.ok)
          THEN /\ InstallRow(r.sha, NoUpload)
               /\ uploads' = Superseded(uploads)
               /\ Installed(r)
               /\ UNCHANGED clients
          ELSE Refused(r) /\ UNCHANGED <<row, uploads, log>>
    /\ UNCHANGED <<postgres, nextId>>

\* readOpenParts and checkParts.
ReadOpenParts(r) ==
    /\ r.stage = "read"
    /\ IF uploads[r.id].state = "open" /\ Complete(r.id, r.sha)
       THEN Await(r, "claim") /\ UNCHANGED clients
       ELSE Reply(r, "failed", 0)
    /\ UNCHANGED <<storage, log>>

\* commitUpload: claim the open upload, then install it if the account is
\* still at the base.  A claim that loses that race stays committed.
CommitUpload(r) ==
    /\ r.stage = "claim"
    /\ \E seen \in Visible(r) :
          LET claimed == seen.ok /\ uploads[r.id].state = "open"
              claim == [uploads EXCEPT ![r.id].state = "committed",
                                       ![r.id].since = row.version, ![r.id].aged = FALSE]
          IN \/ /\ claimed /\ AtBase(r)
                /\ InstallRow(r.sha, r.id)
                /\ uploads' = Superseded(claim)
                /\ Installed(r)
                /\ UNCHANGED clients
             \/ /\ claimed /\ ~AtBase(r)
                /\ uploads' = claim
                /\ Await(r, "version")
                /\ UNCHANGED <<row, log, clients>>
             \/ /\ ~claimed
                /\ IF postgres THEN Await(r, "why") /\ UNCHANGED clients
                   ELSE IF uploads[r.id].state = "open" THEN Reply(r, "conflict", row.version)
                   ELSE Reply(r, "failed", 0)
                /\ UNCHANGED <<row, uploads, log>>
    /\ UNCHANGED <<postgres, nextId>>

\* Why nothing was claimed: the upload is no longer open, or else the base.
ExplainClaim(r) ==
    /\ r.stage = "why"
    /\ IF uploads[r.id].state # "open" THEN Reply(r, "failed", 0)
       ELSE Await(r, "version") /\ UNCHANGED clients
    /\ UNCHANGED <<storage, log>>

CurrentVersion(r) ==
    /\ r.stage = "version"
    /\ IF AtBase(r) THEN Reply(r, "failed", 0)
       ELSE Reply(r, "conflict", row.version)
    /\ UNCHANGED <<storage, log>>

-----------------------------------------------------------------------------
(* The clients *)

Opening == {r \in requests : r.stage \in {"prune", "create"}}

Push(d) ==
    /\ op[d].pc = "idle"
    /\ known[d] < MaxVersion[postgres]
    /\ \E x \in Blobs :
        /\ PartsOf[x] > 1 => nextId + Cardinality(Opening) \in UploadIds
        /\ op' = [op EXCEPT ![d] = [Idle EXCEPT !.pc = "pushing", !.sha = x, !.base = known[d]]]
        /\ requests' = requests \cup
             {NewRequest(d, IF PartsOf[x] = 1 THEN "put" ELSE "prune", NoUpload, 0, x, known[d])}
    /\ answer' = [answer EXCEPT ![d] = NoAnswer]
    /\ UNCHANGED <<storage, known, log>>

\* The client's timeout: the push fails, the request goes on without it.
GiveUp(d) ==
    /\ op[d].pc = "pushing"
    /\ Cardinality({r \in requests : ~r.live}) < MaxLost[postgres]
    /\ requests' = {IF r.from = d THEN [r EXCEPT !.live = FALSE] ELSE r : r \in requests}
    /\ Ended(d, "failed", 0, NoBlob)
    /\ UNCHANGED <<storage, known, log>>

\* A request, or the server with it, is lost before its next storage call.
LoseRequest(r) ==
    /\ ~r.live
    /\ requests' = requests \ {r}
    /\ UNCHANGED <<storage, clients, log>>

Pull(d) ==
    /\ op[d].pc = "idle"
    /\ op' = [op EXCEPT ![d] = [Idle EXCEPT !.pc = "status", !.low = Len(log)]]
    /\ answer' = [answer EXCEPT ![d] = NoAnswer]
    /\ UNCHANGED <<storage, requests, known, log>>

\* GET /api/status names a fixed upload, or a blob in a single row.
ReadStatus(d) ==
    /\ op[d].pc = "status"
    /\ IF row.version = 0 THEN Ended(d, "empty", 0, NoBlob)
       ELSE /\ op' = [op EXCEPT ![d].pc = IF row.upload = NoUpload THEN "blob" ELSE "parts",
                                ![d].version = row.version, ![d].sha = row.sha,
                                ![d].id = row.upload, ![d].parts = row.parts, ![d].got = <<>>]
            /\ UNCHANGED answer
    /\ UNCHANGED <<storage, requests, known, log>>

\* A 409 or 410 starts the download again, at most MaxTries times.
StartOver(d) ==
    IF op[d].tries + 1 = MaxTries THEN Ended(d, "failed", 0, NoBlob)
    ELSE /\ op' = [op EXCEPT ![d] = [Idle EXCEPT !.pc = "status", !.low = op[d].low,
                                                 !.tries = op[d].tries + 1]]
         /\ UNCHANGED answer

Downloaded(d, version, sha, got) ==
    /\ known' = [known EXCEPT ![d] = version]
    /\ IF \A n \in 1..Len(got) : got[n] = sha THEN Ended(d, "value", version, sha)
       ELSE Ended(d, "corrupt", version, NoBlob)

GetBlob(d) ==
    /\ op[d].pc = "blob"
    /\ IF row.upload # NoUpload THEN StartOver(d) /\ UNCHANGED known
       ELSE Downloaded(d, row.version, row.sha, <<row.sha>>)
    /\ UNCHANGED <<storage, requests, log>>

\* getPart reads a committed upload by its id; part n is one past those got.
GetPart(d) ==
    LET o == op[d]
        n == Len(o.got)
        got == Append(o.got, uploads[o.id].parts[n])
    IN /\ o.pc = "parts"
       /\ IF uploads[o.id].state # "committed" \/ uploads[o.id].parts[n] = NoBlob
          THEN StartOver(d) /\ UNCHANGED known
          ELSE IF n + 1 < o.parts
               THEN op' = [op EXCEPT ![d].got = got] /\ UNCHANGED <<known, answer>>
               ELSE Downloaded(d, o.version, o.sha, got)
       /\ UNCHANGED <<storage, requests, log>>

-----------------------------------------------------------------------------
(* Time *)

\* An open upload passes OPEN_UPLOAD_TTL_MS; a retired one passes
\* SUPERSEDED_READABLE_MS, the earliest first.
Age(u) ==
    /\ ~uploads[u].aged
    /\ \/ uploads[u].state = "open"
       \/ /\ u \in Retired
          /\ \A w \in Retired : uploads[w].since < uploads[u].since => uploads[w].aged
    /\ uploads' = [uploads EXCEPT ![u].aged = TRUE]
    /\ UNCHANGED <<postgres, row, nextId, requests, clients, log>>

Handle(r) ==
    \/ Snapshot(r) \/ Prune(r) \/ CreateUpload(r) \/ PutPart(r) \/ PutBlob(r)
    \/ ReadOpenParts(r) \/ CommitUpload(r) \/ ExplainClaim(r) \/ CurrentVersion(r)
    \/ LoseRequest(r)

Device(d) ==
    \/ Push(d) \/ GiveUp(d) \/ Pull(d) \/ ReadStatus(d) \/ GetBlob(d) \/ GetPart(d)

ServerNext ==
    \/ \E r \in requests : Handle(r)
    \/ \E d \in Devices : Device(d)
    \/ \E u \in UploadIds : Age(u)

ServerSpec == ServerInit /\ [][ServerNext]_serverVars

-----------------------------------------------------------------------------
(* Properties *)

ServerTypeOK ==
    /\ postgres \in BOOLEAN
    /\ row \in Row
    /\ uploads \in [UploadIds -> Upload]
    /\ nextId \in 1..(MaxUploads + 1)
    /\ requests \subseteq Request
    /\ op \in [Devices -> Operation]
    /\ known \in [Devices -> Nat]
    /\ answer \in [Devices -> Answer]
    /\ log \in Seq(Blobs)

\* The current version can be downloaded: its upload is committed and holds
\* exactly the slices of the bytes the row's sha256 names, whatever other
\* devices' handlers replace, commit or prune meanwhile (storage.ts: a prune
\* drops "expired, replaced and superseded uploads").
CurrentReadable ==
    row.upload # NoUpload => /\ uploads[row.upload].state = "committed"
                             /\ Complete(row.upload, row.sha)

\* The same, while storage calls are atomic: between the handler's calls
\* nothing makes it false (readOpenParts, commitUpload, pruneUploads).
CurrentReadableInMemory == ~postgres => CurrentReadable

\* createUpload: "any other open upload becomes replaced".
OneOpenUpload == ~postgres => Cardinality(OpenUploads) <= 1

\* The state is sound: typed, one open upload, and a current version that can
\* be downloaded.
ServerInv == ServerTypeOK /\ OneOpenUpload /\ CurrentReadableInMemory

\* A version named to a reader stays downloadable until its window passes or
\* KeepMax later versions have themselves been replaced: a pull that spans
\* fewer pushes than that is never cut off, while storage calls are atomic.
SlowPullFinishes ==
    \A d \in Devices :
        ~postgres /\ op[d].pc = "parts" /\ op[d].version + KeepMax >= row.version
            /\ ~uploads[op[d].id].aged
        => uploads[op[d].id].state = "committed"

\* Together, handlers, uploads and downloads are one register.
MayLand(r) == ~r.live /\ r.stage \in {"put", "read", "claim"}
CallOf(d) ==
    LET done == {r \in requests : r.from = d /\ r.live /\ r.stage = "after"} IN
    CASE op[d].pc = "idle" -> [kind |-> "idle", base |-> 0, value |-> NoBlob]
      [] op[d].pc = "pushing" /\ done = {} ->
            [kind |-> "write", base |-> op[d].base, value |-> op[d].sha]
      [] op[d].pc = "pushing" /\ done # {} ->
            [kind |-> "written", base |-> (CHOOSE r \in done : TRUE).version, value |-> op[d].sha]
      [] OTHER -> [kind |-> "read", base |-> op[d].low, value |-> NoBlob]

Register == INSTANCE VersionedRegister WITH
    Clients <- Devices, Values <- Blobs, NoValue <- NoBlob, log <- log,
    call <- [d \in Devices |-> CallOf(d)], answer <- answer,
    late <- {[base |-> r.base, value |-> r.sha] : r \in {q \in requests : MayLand(q)}}

\* Every answer a device gets is one the register could give: reads return
\* whole versions no older than the read's start, a write is acknowledged
\* only if it was installed exactly once on its base, a conflict only if the
\* base was passed, and a failed or abandoned push installs at most once.
ImplementsRegister == Register!RegisterSpec
=============================================================================
