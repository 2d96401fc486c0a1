---------------------------- MODULE ConnectorDocs ----------------------------
(***************************************************************************)
(* One shared project document between the connected AI apps, the          *)
(* connector server and the user's devices (ADR 0063 in the code's         *)
(* comments): which row the connector serves, how an app's update is a     *)
(* compare-and-set, how a device takes a cloud version down, and how the   *)
(* newest vault is pushed back up.                                         *)
(*                                                                         *)
(* A document is named by its id; its text is the set of the edits it      *)
(* contains, and an edit is named by the id of the version that first      *)
(* carried it.  Two versions have the same text exactly when they contain  *)
(* the same edits.  The server's storage calls are atomic, as the          *)
(* in-memory store's are; the calls of one request are separate steps.     *)
(* A device holds the vault lock from the fetch of the pending rows to the *)
(* ack, but no lock while it pushes.  The sync server is one versioned     *)
(* copy of the vault (VaultSync has its protocol).                         *)
(***************************************************************************)
EXTENDS Naturals, FiniteSets

CONSTANTS
    Devices,   \* desktops that sync the vault and push to the connector
    Apps,      \* connected AI app sessions
    MaxId,     \* bound: versions of the document ever written
    MaxVer,    \* bound: versions of the vault on the sync server
    MaxSeq,    \* bound: a push starts below this value of the counter
    MaxCalls   \* bound: app calls, down-syncs and pushes in progress at once

ASSUME DocsAssumption ==
    /\ IsFiniteSet(Devices)
    /\ MaxId \in Nat \ {0} /\ MaxVer \in Nat /\ MaxSeq \in Nat /\ MaxCalls \in Nat

\* No document; also BASE_NEW, the base of a document created in the cloud.
NoDoc == 0
Ids == 1..MaxId
Texts == SUBSET Ids

\* A row of the project's scope: pending until a device acks it, base the
\* pushed document it was written against, seq the scope counter's value.
Row == [text: Texts, pending: BOOLEAN, base: Ids \cup {NoDoc}, seq: Nat]
NoRow == [text |-> {}, pending |-> FALSE, base |-> NoDoc, seq |-> 0]
IsRows(r) == DOMAIN r \subseteq Ids /\ r \in [DOMAIN r -> Row]

\* kept: every edit the vault holds, in a superseded version or a memory too;
\* notes: the cloud versions it saved as memories.
Vault == [head: Ids \cup {NoDoc}, text: Texts, kept: Texts, notes: SUBSET Ids,
          ver: Nat, dirty: BOOLEAN]
Cloud == [head: Ids \cup {NoDoc}, text: Texts, kept: Texts, notes: SUBSET Ids, ver: Nat]

VARIABLES
    rows,       \* the connector's rows, by id
    seq,        \* scope_seq
    order,      \* vault_version: the newest vault version a push was accepted with
    from,       \* history: the vault version the accepted rows were read from
    app,        \* each app session's call in progress
    vault,      \* each device's vault file
    cloud,      \* the sync server's copy
    down,       \* each device's down-sync in progress
    push,       \* each device's push in progress
    lastId,     \* ids given out so far
    saved,      \* edits an app was told are saved
    discarded   \* edits the user gave up by taking another device's vault

server == <<rows, seq, order, from>>
device == <<vault, cloud, down, push>>
vars == <<server, app, device, lastId, saved, discarded>>

IdleApp == [pc |-> "idle", seq |-> 0, head |-> NoDoc, row |-> NoRow]
IdleDown == [pc |-> "idle", goal |-> "sync", row |-> [i \in {} |-> NoRow],
             acked |-> NoDoc, local |-> NoDoc, discards |-> {}]
IdlePush == [pc |-> "idle", stamp |-> 0, head |-> NoDoc, text |-> {}, from |-> 0]

IsDown(o) ==
    /\ o \in [pc : {"idle", "fetch", "plan", "discard", "ack"},
              goal : {"sync", "theirs", "mine"}, row : {o.row},
              acked : Ids \cup {NoDoc}, local : Ids \cup {NoDoc}, discards : SUBSET Ids]
    /\ IsRows(o.row)

\* The vault starts shared and in step everywhere, or with no project at all.
DocsInit ==
    /\ \E first \in {NoDoc, 1} :
         LET text == IF first = NoDoc THEN {} ELSE {1} IN
         /\ rows = [i \in text |-> [text |-> text, pending |-> FALSE,
                                    base |-> NoDoc, seq |-> 1]]
         /\ seq = first
         /\ vault = [d \in Devices |-> [head |-> first, text |-> text, kept |-> text,
                                        notes |-> {}, ver |-> 1, dirty |-> FALSE]]
         /\ cloud = [head |-> first, text |-> text, kept |-> text, notes |-> {}, ver |-> 1]
    /\ order = 1 /\ from = 1 /\ lastId = 1
    /\ app = [a \in Apps |-> IdleApp]
    /\ down = [d \in Devices |-> IdleDown]
    /\ push = [d \in Devices |-> IdlePush]
    /\ saved = {} /\ discarded = {}

Calls == Cardinality({a \in Apps : app[a].pc # "idle"})
         + Cardinality({d \in Devices : down[d].pc # "idle"})
         + Cardinality({d \in Devices : push[d].pc # "idle"})
CanCall == Calls < MaxCalls

-----------------------------------------------------------------------------
(* What the connector serves.                                              *)

Pushed(r) == {i \in DOMAIN r : ~r[i].pending}
Newest(r, S) == {i \in S : \A j \in S : r[j].seq <= r[i].seq}

\* Two pushed documents share the top counter value.
Several(r) == Cardinality(Newest(r, Pushed(r))) > 1

\* The pushed document.
PushedDoc(r) == IF Pushed(r) = {} THEN NoDoc
                ELSE CHOOSE i \in Newest(r, Pushed(r)) : TRUE

Current(r) == {i \in DOMAIN r : r[i].pending /\ r[i].base = PushedDoc(r)}

\* The head project_get returns, NoDoc when there is none or several.
Served(r) == CASE Several(r) -> NoDoc
               [] ~Several(r) /\ Current(r) = {} -> PushedDoc(r)
               [] OTHER -> CHOOSE i \in Newest(r, Current(r)) : TRUE

Without(r, S) == [i \in DOMAIN r \ S |-> r[i]]
With(r, id, row) == [i \in DOMAIN r \cup {id} |-> IF i = id THEN row ELSE r[i]]

-----------------------------------------------------------------------------
(* The connected apps: project_create and project_update.  The counter is  *)
(* read before the rows the decision rests on.                             *)

Next_ == lastId + 1
CanName == lastId < MaxId

ReadSeq(a) ==
    /\ app[a].pc = "idle" /\ CanName /\ CanCall
    /\ app' = [app EXCEPT ![a] = [IdleApp EXCEPT !.pc = "rows", !.seq = seq]]
    /\ UNCHANGED <<server, device, lastId, saved, discarded>>

\* The rows after the counter: an update needs a served head, a create needs
\* that no row of the scope is a document.  Anything else is refused.
ReadRows(a) ==
    /\ app[a].pc = "rows"
    /\ LET head == Served(rows) IN
       \/ /\ head # NoDoc
          /\ app' = [app EXCEPT ![a] = [@ EXCEPT !.pc = "write", !.head = head,
                                                 !.row = rows[head]]]
       \/ /\ DOMAIN rows = {}
          /\ app' = [app EXCEPT ![a].pc = "write"]
       \/ app' = [app EXCEPT ![a] = IdleApp]
    /\ UNCHANGED <<server, device, lastId, saved, discarded>>

\* A pending head is replaced and its base inherited; a pushed head stays and
\* is the new row's base.
BaseFor(o) == IF o.row.pending THEN o.row.base ELSE o.head

WriteRows(a) ==
    /\ app[a].pc = "write" /\ app[a].seq = seq /\ CanName
    /\ LET o == app[a]
           gone == IF o.row.pending /\ o.head \in DOMAIN rows /\ rows[o.head].pending
                   THEN {o.head} ELSE {}
           row == [text |-> o.row.text \cup {Next_}, pending |-> TRUE,
                   base |-> BaseFor(o), seq |-> seq + 1]
       IN rows' = With(Without(rows, gone), Next_, row)
    /\ seq' = seq + 1
    /\ lastId' = Next_
    /\ saved' = saved \cup {Next_}
    /\ app' = [app EXCEPT ![a] = IdleApp]
    /\ UNCHANGED <<order, from, device, discarded>>

\* The counter moved: nothing is written and the app is told to read again.
WriteRefused(a) ==
    /\ app[a].pc = "write" /\ app[a].seq # seq
    /\ app' = [app EXCEPT ![a] = IdleApp]
    /\ UNCHANGED <<server, device, lastId, saved, discarded>>

-----------------------------------------------------------------------------
(* The vault on its device, and the vault sync between devices.            *)

Locked(d) == down[d].pc \in {"plan", "discard", "ack"}
InSync(d) == ~vault[d].dirty /\ vault[d].ver = cloud.ver
CanPush(d) == vault[d].ver = cloud.ver

\* A new head in the vault, saved.
Installed(v, id, text) ==
    [v EXCEPT !.head = id, !.text = text, !.kept = @ \cup text, !.dirty = TRUE]

LocalEdit(d) ==
    /\ ~Locked(d) /\ CanName
    /\ vault' = [vault EXCEPT ![d] = Installed(@, Next_, @.text \cup {Next_})]
    /\ lastId' = Next_
    /\ UNCHANGED <<server, app, cloud, down, push, saved, discarded>>

Uploaded(d) ==
    LET v == vault[d] IN
    /\ cloud.ver < MaxVer
    /\ cloud' = [head |-> v.head, text |-> v.text, kept |-> v.kept, notes |-> v.notes,
                 ver |-> cloud.ver + 1]
    /\ vault' = [vault EXCEPT ![d] = [@ EXCEPT !.ver = cloud.ver + 1, !.dirty = FALSE]]

SyncPush(d) ==
    /\ ~Locked(d) /\ vault[d].dirty /\ CanPush(d)
    /\ Uploaded(d)
    /\ UNCHANGED <<server, app, down, push, lastId, saved, discarded>>

Adopt(d) ==
    vault' = [vault EXCEPT ![d] = [head |-> cloud.head, text |-> cloud.text,
                                   kept |-> cloud.kept, notes |-> cloud.notes,
                                   ver |-> cloud.ver, dirty |-> FALSE]]

SyncPull(d) ==
    /\ ~Locked(d) /\ ~vault[d].dirty /\ vault[d].ver < cloud.ver
    /\ Adopt(d)
    /\ UNCHANGED <<server, app, cloud, down, push, lastId, saved, discarded>>

\* Diverged: the user takes the other devices' vault in a reviewed pull.
TakeOtherVault(d) ==
    /\ ~Locked(d) /\ vault[d].dirty /\ vault[d].ver < cloud.ver
    /\ Adopt(d)
    /\ discarded' = discarded \cup (vault[d].kept \ cloud.kept)
    /\ UNCHANGED <<server, app, cloud, down, push, lastId, saved>>

-----------------------------------------------------------------------------
(* A device takes the cloud's versions down.                               *)

\* assertDeviceCanPush, before the lock is taken.
DownStart(d, goal) ==
    /\ down[d].pc = "idle" /\ CanPush(d) /\ CanCall
    /\ down' = [down EXCEPT ![d] = [IdleDown EXCEPT !.pc = "fetch", !.goal = goal]]
    /\ UNCHANGED <<server, app, vault, cloud, push, lastId, saved, discarded>>

\* GET /client/pending lists the pending rows ...
DownFetch(d) ==
    /\ down[d].pc = "fetch"
    /\ down' = [down EXCEPT ![d] = [@ EXCEPT !.pc = "plan",
                  !.row = Without(rows, Pushed(rows))]]
    /\ UNCHANGED <<server, app, vault, cloud, push, lastId, saved, discarded>>

\* ... and reads the rows again to say which one it still serves; the others
\* are stale.  The device sorts them against its head.
Waiting(d) == DOMAIN down[d].row
Same(d, i) == vault[d].head # NoDoc /\ down[d].row[i].text = vault[d].text
Fresh(i) == i = Served(rows)
FastForwardServed(d, i) == ~Same(d, i) /\ Fresh(i)
FastForward(d, i) == ~Same(d, i) /\ Fresh(i) /\ down[d].row[i].base = vault[d].head
Conflicts(d) == {i \in Waiting(d) : ~Same(d, i) /\ ~FastForward(d, i)}
Dedupes(d) == {i \in Waiting(d) : Same(d, i) /\ Fresh(i)}
Discards(d) == {i \in Waiting(d) : Same(d, i) /\ ~Fresh(i)}

\* An empty discard or ack sends no request.
AfterSave(discards) == IF discards = {} THEN "ack" ELSE "discard"

Planned(d, goal) == down[d].pc = "plan" /\ down[d].goal = goal

\* The fast-forward is applied: always when it creates the project, and when
\* the user approved it otherwise.
ApplyDown(d, i) ==
    /\ Planned(d, "sync") /\ CanName
    /\ i \in Waiting(d) /\ FastForward(d, i)
    /\ vault' = [vault EXCEPT ![d] = Installed(@, Next_, down[d].row[i].text)]
    /\ lastId' = Next_
    /\ down' = [down EXCEPT ![d] = [@ EXCEPT !.pc = AfterSave(Discards(d)),
                  !.acked = i, !.local = Next_, !.discards = Discards(d)]]
    /\ UNCHANGED <<server, app, cloud, push, saved, discarded>>

\* Nothing is applied; a row equal to the head is acked against it, a stale one
\* equal to it is discarded.
SettleDown(d) ==
    /\ Planned(d, "sync")
    /\ \A i \in Waiting(d) : FastForward(d, i) => vault[d].head # NoDoc
    /\ down' = [down EXCEPT ![d] = [@ EXCEPT !.pc = AfterSave(Discards(d)),
                  !.acked = IF Dedupes(d) = {} THEN NoDoc ELSE Served(rows),
                  !.local = vault[d].head, !.discards = Discards(d)]]
    /\ UNCHANGED <<server, app, vault, cloud, push, lastId, saved, discarded>>

\* resolveConflict: the owner puts one waiting version over the head ...
TakeTheirs(d, i) ==
    /\ Planned(d, "theirs") /\ CanName /\ i \in Conflicts(d)
    /\ vault' = [vault EXCEPT ![d] = Installed(@, Next_, down[d].row[i].text)]
    /\ lastId' = Next_
    /\ down' = [down EXCEPT ![d] = [@ EXCEPT !.pc = AfterSave({}), !.acked = i,
                  !.local = Next_]]
    /\ UNCHANGED <<server, app, cloud, push, saved, discarded>>

\* ... or keeps the head, the waiting versions saved as memories, each once.
KeepMine(d) ==
    /\ Planned(d, "mine") /\ Conflicts(d) # {}
    /\ LET v == vault[d]
           new == Conflicts(d) \ v.notes
       IN vault' = [vault EXCEPT ![d] =
                      [v EXCEPT !.dirty = v.dirty \/ new # {}, !.notes = v.notes \cup new,
                                !.kept = v.kept \cup UNION {down[d].row[i].text : i \in new}]]
    /\ down' = [down EXCEPT ![d] = [@ EXCEPT !.pc = "discard", !.discards = Conflicts(d)]]
    /\ UNCHANGED <<server, app, cloud, push, lastId, saved, discarded>>

\* POST /client/discard: exactly these rows, if still pending.
DiscardPending(d) ==
    /\ down[d].pc = "discard"
    /\ LET doomed == {i \in down[d].discards \cap DOMAIN rows : rows[i].pending} IN
       /\ rows' = Without(rows, doomed)
       /\ seq' = IF doomed = {} THEN seq ELSE seq + 1
    /\ down' = [down EXCEPT ![d].pc = "ack"]
    /\ UNCHANGED <<order, from, app, vault, cloud, push, lastId, saved, discarded>>

\* ackEntry: the row takes the local id, stops being pending and moves to the
\* top of the counter.  A row that is gone stays gone.
AckedRows(r, id, local, n) ==
    IF id \in DOMAIN r
    THEN With(Without(r, {id}), local, [r[id] EXCEPT !.pending = FALSE, !.seq = n])
    ELSE r

\* As AckEntry, at the counter's present value.
AckEntryInPlace(d) ==
    /\ down[d].pc = "ack"
    /\ rows' = AckedRows(rows, down[d].acked, down[d].local, seq)
    /\ down' = [down EXCEPT ![d] = IdleDown]
    /\ UNCHANGED <<seq, order, from, app, vault, cloud, push, lastId, saved, discarded>>

AckEntry(d) ==
    /\ down[d].pc = "ack"
    /\ LET o == down[d] IN
       /\ rows' = AckedRows(rows, o.acked, o.local, seq + 1)
       /\ seq' = IF o.acked \in DOMAIN rows THEN seq + 1 ELSE seq
    /\ down' = [down EXCEPT ![d] = IdleDown]
    /\ UNCHANGED <<order, from, app, vault, cloud, push, lastId, saved, discarded>>

\* The process dies, a request fails, or there was nothing to resolve: what
\* was saved stays saved, the rest is left for the next run.
DownStop(d) ==
    /\ down[d].pc # "idle"
    /\ down' = [down EXCEPT ![d] = IdleDown]
    /\ UNCHANGED <<server, app, vault, cloud, push, lastId, saved, discarded>>

-----------------------------------------------------------------------------
(* The newest vault goes up.                                               *)

PushStart(d) ==
    /\ push[d].pc = "idle" /\ CanPush(d) /\ CanCall /\ seq < MaxSeq
    /\ push' = [push EXCEPT ![d] = [IdlePush EXCEPT !.pc = "snapshot", !.stamp = cloud'.ver]]
    /\ UNCHANGED <<server, app, down, lastId, saved, discarded>>

\* The automatic push: only from a device that is exactly in sync.
AutoPush(d) ==
    /\ InSync(d)
    /\ UNCHANGED <<vault, cloud>>
    /\ PushStart(d)

\* The user's push: the vault goes to the sync server first when it is ahead.
ManualPush(d) ==
    /\ ~Locked(d) /\ vault[d].dirty
    /\ Uploaded(d)
    /\ PushStart(d)

\* The entries are read under the lock, after the version they are stamped
\* with.  Nothing shared, nothing to push.
PushSnapshot(d) ==
    /\ push[d].pc = "snapshot" /\ ~Locked(d)
    /\ push' = [push EXCEPT ![d] =
                  IF vault[d].head = NoDoc THEN IdlePush
                  ELSE [@ EXCEPT !.pc = "put", !.head = vault[d].head,
                                 !.text = vault[d].text, !.from = vault[d].ver]]
    /\ UNCHANGED <<server, app, vault, cloud, down, lastId, saved, discarded>>

\* acceptVaultClaim: refuse a claim older than the recorded one.
Accepts(stamp) == order <= stamp

\* As Replaced, the pending rows included.
ReplacedAll(o) == With(Without(rows, DOMAIN rows), o.head,
                       [text |-> o.text, pending |-> FALSE, base |-> NoDoc, seq |-> seq + 1])

\* replaceScopes: every row but the pending ones gives way to the snapshot.
Replaced(o) == With(Without(rows, Pushed(rows)), o.head,
                    [text |-> o.text, pending |-> FALSE, base |-> NoDoc, seq |-> seq + 1])

\* As PutAccepted, the counter left alone.
PutAcceptedSilently(d) ==
    LET o == push[d] IN
    /\ o.pc = "put" /\ Accepts(o.stamp)
    /\ rows' = Replaced(o)
    /\ seq' = seq
    /\ order' = o.stamp
    /\ from' = o.from
    /\ push' = [push EXCEPT ![d] = IdlePush]
    /\ UNCHANGED <<app, vault, cloud, down, lastId, saved, discarded>>

\* As PutAccepted, the version read when the request is sent.
PutAcceptedLateStamp(d) ==
    LET o == push[d] IN
    /\ o.pc = "put" /\ Accepts(cloud.ver)
    /\ rows' = Replaced(o)
    /\ seq' = seq + 1
    /\ order' = cloud.ver
    /\ from' = o.from
    /\ push' = [push EXCEPT ![d] = IdlePush]
    /\ UNCHANGED <<app, vault, cloud, down, lastId, saved, discarded>>

PutAccepted(d) ==
    LET o == push[d] IN
    /\ o.pc = "put" /\ Accepts(o.stamp)
    /\ rows' = Replaced(o)
    /\ seq' = seq + 1
    /\ order' = o.stamp
    /\ from' = o.from
    /\ push' = [push EXCEPT ![d] = IdlePush]
    /\ UNCHANGED <<app, vault, cloud, down, lastId, saved, discarded>>

\* The claim is stale, the request fails or the process dies.
PushStop(d) ==
    /\ push[d].pc # "idle"
    /\ push' = [push EXCEPT ![d] = IdlePush]
    /\ UNCHANGED <<server, app, vault, cloud, down, lastId, saved, discarded>>

-----------------------------------------------------------------------------
AppStep(a) == ReadSeq(a) \/ ReadRows(a) \/ WriteRows(a) \/ WriteRefused(a)

DownStep(d) ==
    \/ \E goal \in {"sync", "theirs", "mine"} : DownStart(d, goal)
    \/ DownFetch(d) \/ SettleDown(d) \/ KeepMine(d)
    \/ \E i \in Waiting(d) : ApplyDown(d, i) \/ TakeTheirs(d, i)
    \/ DiscardPending(d) \/ AckEntry(d) \/ DownStop(d)

PushStep(d) == AutoPush(d) \/ ManualPush(d) \/ PushSnapshot(d) \/ PutAccepted(d) \/ PushStop(d)

SyncStep(d) == LocalEdit(d) \/ SyncPush(d) \/ SyncPull(d) \/ TakeOtherVault(d)

DocsNext ==
    \/ \E a \in Apps : AppStep(a)
    \/ \E d \in Devices : SyncStep(d) \/ DownStep(d) \/ PushStep(d)

DocsSpec == DocsInit /\ [][DocsNext]_vars
-----------------------------------------------------------------------------
(* Properties.                                                             *)

\* The state keeps its types: rows, vaults, and every call in progress.
DocsTypeOK ==
    /\ IsRows(rows)
    /\ seq \in Nat /\ order \in Nat /\ from \in Nat
    /\ app \in [Apps -> [pc : {"idle", "rows", "write"}, seq : Nat,
                         head : Ids \cup {NoDoc}, row : Row]]
    /\ vault \in [Devices -> Vault] /\ cloud \in Cloud
    /\ DOMAIN down = Devices /\ \A d \in Devices : IsDown(down[d])
    /\ push \in [Devices -> [pc : {"idle", "snapshot", "put"}, stamp : Nat,
                             head : Ids \cup {NoDoc}, text : Texts, from : Nat]]
    /\ lastId \in Ids
    /\ saved \in Texts /\ discarded \in Texts

Kept == cloud.kept \cup (UNION {rows[i].text : i \in DOMAIN rows})
                   \cup (UNION {vault[d].kept : d \in Devices})

\* A change an app was told is saved is on the connector or in a vault, as a
\* document, a superseded version or a memory, until the user gives up the
\* vault holding it: no push, ack, discard, second device or crash between
\* the vault's save and the ack drops it.
CloudWritesSurvive == saved \subseteq Kept \cup discarded

\* A cloud version put over a device's head in a plain down-sync contains
\* every edit of the head it replaces: the base recorded when an app wrote it
\* still names what the device holds.
ReplaceKeepsLocalEdits ==
    [][\A d \in Devices :
         (down[d].pc = "plan" /\ down[d].goal = "sync" /\ vault'[d].head # vault[d].head)
         => vault[d].text \subseteq vault'[d].text]_vars

\* A write that succeeds contains the text of the head the connector serves at
\* that very moment: every request that moves the served head (an ack, a
\* discard, a push, another write) fails the write that read before it.
UpdateBuildsOnServedHead ==
    [][saved' # saved =>
         \E i \in DOMAIN rows' \ DOMAIN rows :
           Served(rows) # NoDoc => rows[Served(rows)].text \subseteq rows'[i].text]_vars

\* The connector never has two pushed documents to choose between, whatever
\* acks and pushes of several devices arrive in whatever order.
NeverSeveral == ~Several(rows)

\* The entries the connector serves are at least as new as the vault version
\* they are ordered by: a push that read old entries never outranks a push of
\* newer ones.
StampIsTruthful == order <= from

\* The connector's rows stay sound: typed, with at most one pushed document.
DocsInv == DocsTypeOK /\ NeverSeveral
=============================================================================
