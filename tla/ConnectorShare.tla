--------------------------- MODULE ConnectorShare ---------------------------
(***************************************************************************)
(* One shared scope of memories between the connected AI apps, the         *)
(* connector server and the user's devices: an app remembers, forgets and  *)
(* lists; a device shares and unshares the scope, takes the apps' memories *)
(* and forgets down, and pushes its live memories up.  Unsharing leaves a  *)
(* tombstone, which a later share replaces.                                *)
(*                                                                         *)
(* A memory is named by the first id given to it; every entry of a vault   *)
(* and every row of the connector has an id of its own, and mem says which *)
(* memory it holds.  Storage calls are atomic, the calls of one request    *)
(* are separate steps.  A device holds its vault lock through a down-sync  *)
(* and through an unshare, not while it pushes.  The devices' clocks and   *)
(* the server's agree.                                                     *)
(***************************************************************************)
EXTENDS Naturals, FiniteSets, Sequences

CONSTANTS
    Devices,   \* desktops that sync the vault and share from it
    Apps,      \* connected AI app sessions
    MaxId,     \* bound: ids ever given to an entry or a row
    MaxVer,    \* bound: versions of the vault on the sync server
    MaxClock,  \* bound: shares and unshares
    MaxForgets, \* bound: memories the apps forget
    MaxCalls   \* bound: calls in progress at once

ASSUME ShareAssumption ==
    /\ IsFiniteSet(Devices)
    /\ MaxId \in Nat \ {0} /\ MaxVer \in Nat /\ MaxClock \in Nat
    /\ MaxForgets \in Nat /\ MaxCalls \in Nat

Ids == 1..MaxId
Never == 0

\* live, gone: the scope's entries, kept and forgotten; sharedAt: when the
\* scope was marked shared, Never while it is private.
Vault == [live: SUBSET Ids, gone: SUBSET Ids, sharedAt: Nat, ver: Nat, dirty: BOOLEAN]

VARIABLES
    enforce,   \* the deployment's CONNECTOR_TOMBSTONE_ENFORCE
    waiting,   \* the connector's rows no device has acked
    held,      \* its rows a device pushed or acked
    forgets,   \* ids queued to be forgotten
    tomb,      \* unshared_at of the scope's tombstone, Never without one
    order,     \* vault_version of the last accepted push
    mem,       \* the memory each id given out holds
    app,       \* each app session's call in progress
    vault,     \* each device's vault file
    cloud,     \* the sync server's copy
    down,      \* each device's call under its vault lock
    push,      \* each device's push in progress
    now,       \* the time of the last share or unshare
    marked,    \* history: when a device last marked the scope shared
    owed,      \* history: memories an app was told are saved, until it forgets
               \* them, an unshare deletes them or the user gives up their vault
    forgotten  \* history: how many memories the apps forgot

server == <<enforce, waiting, held, forgets, tomb, order>>
device == <<vault, cloud, down, push>>
history == <<now, marked, owed, forgotten>>
vars == <<server, mem, app, device, history>>

IdleApp == [pc |-> "idle", id |-> Never, hidden |-> {}, closed |-> FALSE, since |-> Never]
IdleDown == [pc |-> "idle", fetched |-> {}, unshared |-> FALSE, asked |-> {},
             local |-> [i \in {} |-> i], settled |-> {}]
IdlePush == [pc |-> "idle", share |-> FALSE, stamp |-> 0, live |-> {}, sharedAt |-> Never]

\* The scope is shared in every vault; the user removed its older memories,
\* and its one memory waits to be taken down.
ShareInit ==
    /\ enforce \in BOOLEAN
    /\ vault = [d \in Devices |-> [live |-> {}, gone |-> {}, sharedAt |-> 1,
                                   ver |-> 1, dirty |-> FALSE]]
    /\ cloud = [live |-> {}, gone |-> {}, sharedAt |-> 1, ver |-> 1]
    /\ waiting = {1} /\ held = {} /\ owed = {1}
    /\ forgets = {} /\ tomb = Never /\ order = 1 /\ mem = <<1>>
    /\ app = [a \in Apps |-> IdleApp]
    /\ down = [d \in Devices |-> IdleDown]
    /\ push = [d \in Devices |-> IdlePush]
    /\ now = 1 /\ marked = 1 /\ forgotten = 0

Calls == Cardinality({a \in Apps : app[a].pc # "idle"})
         + Cardinality({d \in Devices : down[d].pc # "idle"})
         + Cardinality({d \in Devices : push[d].pc # "idle"})
CanCall == Calls < MaxCalls

\* The memories some ids hold.
Held(S) == {mem[i] : i \in S}
NextId == Len(mem) + 1
CanName(n) == Len(mem) + n <= MaxId

-----------------------------------------------------------------------------
(* The connected apps.                                                     *)

AppIs(a, pc) == app[a].pc = pc
AppGoes(a, o) == app' = [app EXCEPT ![a] = o]
\* An app reads: nothing else changes.
AppReads(a, o) == AppGoes(a, o) /\ UNCHANGED <<server, mem, device, history>>

\* memory_remember reads the tombstones, then the rows, then writes.
RememberStart(a) ==
    /\ AppIs(a, "idle") /\ CanCall /\ tomb = Never
    /\ AppReads(a, [IdleApp EXCEPT !.pc = "rows"])

\* The scope is writable when it holds a row a device pushed or acked.
RememberCheck(a) ==
    /\ AppIs(a, "rows")
    /\ AppReads(a, IF held = {} THEN IdleApp ELSE [IdleApp EXCEPT !.pc = "write"])

RememberWrite(a) ==
    /\ AppIs(a, "write") /\ CanName(1)
    /\ waiting' = waiting \cup {NextId}
    /\ mem' = Append(mem, NextId)
    /\ owed' = IF tomb = Never THEN owed \cup {NextId} ELSE owed
    /\ AppGoes(a, IdleApp)
    /\ UNCHANGED <<enforce, held, forgets, tomb, order, device,
                   now, marked, forgotten>>

\* memory_forget finds the row, then queues its id.
ForgetFind(a) ==
    /\ AppIs(a, "idle") /\ CanCall /\ forgotten < MaxForgets
    /\ \E i \in waiting \cup held : AppReads(a, [IdleApp EXCEPT !.pc = "forget", !.id = i])

ForgetQueue(a) ==
    /\ AppIs(a, "forget")
    /\ forgets' = forgets \cup {app[a].id}
    /\ forgotten' = forgotten + 1
    /\ owed' = owed \ {mem[app[a].id]}
    /\ AppGoes(a, IdleApp)
    /\ UNCHANGED <<enforce, waiting, held, tomb, order, mem, device,
                   now, marked>>

\* An unshare has reached the connector since the scope was last marked.
Revoked == marked < now

\* visibleEntries reads the forgets, then the tombstones, then the rows.
ListForgets(a) ==
    /\ AppIs(a, "idle") /\ CanCall
    /\ AppReads(a, [IdleApp EXCEPT !.pc = "tombs", !.hidden = forgets,
                                !.since = IF Revoked THEN marked ELSE Never])

ListTombs(a) ==
    /\ AppIs(a, "tombs")
    /\ AppReads(a, IF tomb # Never THEN [IdleApp EXCEPT !.pc = "list", !.closed = TRUE]
                   ELSE [app[a] EXCEPT !.pc = "list"])

Visible(a) == IF app[a].closed THEN {} ELSE (waiting \cup held) \ app[a].hidden

ListRows(a) ==
    /\ AppIs(a, "list")
    /\ AppReads(a, IdleApp)

-----------------------------------------------------------------------------
(* The vault on its device, and the vault sync between devices.            *)

Locked(d) == down[d].pc \notin {"idle", "start"}
InSync(d) == ~vault[d].dirty /\ vault[d].ver = cloud.ver
CanPush(d) == vault[d].ver = cloud.ver
Saved(d, v) == vault' = [vault EXCEPT ![d] = [v EXCEPT !.dirty = TRUE]]

Uploaded(d) ==
    LET v == vault[d] IN
    /\ v.dirty /\ CanPush(d) /\ cloud.ver < MaxVer
    /\ cloud' = [live |-> v.live, gone |-> v.gone, sharedAt |-> v.sharedAt,
                 ver |-> cloud.ver + 1]
    /\ vault' = [vault EXCEPT ![d] = [@ EXCEPT !.ver = cloud.ver + 1, !.dirty = FALSE]]

SyncPush(d) ==
    /\ ~Locked(d) /\ Uploaded(d)
    /\ UNCHANGED <<server, mem, app, down, push, history>>

\* A pull installs the sync server's copy; when the device diverged, the user
\* reviewed what it drops.
SyncPull(d) ==
    /\ ~Locked(d) /\ vault[d].ver < cloud.ver
    /\ vault' = [vault EXCEPT ![d] = [live |-> cloud.live, gone |-> cloud.gone,
                   sharedAt |-> cloud.sharedAt, ver |-> cloud.ver, dirty |-> FALSE]]
    /\ owed' = owed \ Held((vault[d].live \cup vault[d].gone) \ (cloud.live \cup cloud.gone))
    /\ UNCHANGED <<server, mem, app, cloud, down, push, now, marked, forgotten>>

-----------------------------------------------------------------------------
(* Sharing and unsharing the scope.                                        *)

CanTick == now < MaxClock

\* share add marks a private scope and saves, then pushes.
ShareMark(d) ==
    /\ push[d].pc = "idle" /\ CanCall /\ ~Locked(d) /\ CanPush(d) /\ CanTick
    /\ vault[d].sharedAt = Never
    /\ now' = now + 1 /\ marked' = now + 1
    /\ Saved(d, [vault[d] EXCEPT !.sharedAt = now + 1])
    /\ push' = [push EXCEPT ![d] = [IdlePush EXCEPT !.pc = "stamp", !.share = TRUE]]
    /\ UNCHANGED <<server, mem, app, cloud, down, owed, forgotten>>

\* The push failed, or its answer was lost: the mark is taken back.
ShareRollback(d) ==
    /\ push[d].pc = "rollback" /\ ~Locked(d)
    /\ Saved(d, [vault[d] EXCEPT !.sharedAt = Never])
    /\ push' = [push EXCEPT ![d] = IdlePush]
    /\ UNCHANGED <<server, mem, app, cloud, down, history>>

\* DELETE /client/scope: the rows go and the tombstone stays.
UnshareServer(d) ==
    /\ down[d].pc = "idle" /\ CanCall /\ CanTick
    /\ owed' = owed \ Held(waiting)
    /\ waiting' = {} /\ held' = {}
    /\ now' = now + 1 /\ tomb' = now + 1
    /\ down' = [down EXCEPT ![d] = [IdleDown EXCEPT !.pc = "unmark"]]
    /\ UNCHANGED <<enforce, forgets, order, mem, app, vault, cloud, push,
                   marked, forgotten>>

\* ... and only then the mark of the open vault.
UnshareLocal(d) ==
    /\ down[d].pc = "unmark"
    /\ Saved(d, [vault[d] EXCEPT !.sharedAt = Never])
    /\ down' = [down EXCEPT ![d] = IdleDown]
    /\ UNCHANGED <<server, mem, app, cloud, push, history>>

-----------------------------------------------------------------------------
(* A device takes the apps' memories and forgets down.                     *)

DownGoes(d, o) == down' = [down EXCEPT ![d] = o]

DownStart(d) ==
    /\ down[d].pc = "idle" /\ CanPush(d) /\ CanCall
    /\ DownGoes(d, [IdleDown EXCEPT !.pc = "start"])
    /\ UNCHANGED <<server, mem, app, vault, cloud, push, history>>

\* GET /client/pending reads the pending rows, then the tombstones ...
DownPending(d) ==
    /\ down[d].pc = "start"
    /\ DownGoes(d, [down[d] EXCEPT !.pc = "tombs", !.fetched = waiting])
    /\ UNCHANGED <<server, mem, app, vault, cloud, push, history>>

DownTombs(d) ==
    /\ down[d].pc = "tombs"
    /\ DownGoes(d, [down[d] EXCEPT !.pc = "forgets", !.unshared = tomb # Never])
    /\ UNCHANGED <<server, mem, app, vault, cloud, push, history>>

\* ... then the forgets; it drops the rows it read of an unshared scope and
\* withholds the ones queued to be forgotten.
Purged(d) == IF down[d].unshared THEN down[d].fetched ELSE {}

\* As DownForgets, but it drops whatever waits in the scope by then.
DownForgetsByScope(d) ==
    /\ down[d].pc = "forgets"
    /\ waiting' = IF down[d].unshared THEN {} ELSE waiting
    /\ DownGoes(d, [down[d] EXCEPT !.pc = "plan", !.asked = forgets,
                      !.unshared = FALSE, !.fetched = (@ \ Purged(d)) \ forgets])
    /\ UNCHANGED <<enforce, held, forgets, tomb, order, mem, app, vault, cloud, push, history>>

DownForgets(d) ==
    /\ down[d].pc = "forgets"
    /\ waiting' = waiting \ Purged(d)
    /\ DownGoes(d, [down[d] EXCEPT !.pc = "plan", !.asked = forgets,
                      !.unshared = FALSE, !.fetched = (@ \ Purged(d)) \ forgets])
    /\ UNCHANGED <<enforce, held, forgets, tomb, order, mem, app, vault, cloud, push, history>>

\* A fetched memory the vault already has is acked against the entry it has.
Present(d, i) == {j \in vault[d].live : mem[j] = mem[i]}
NewWithoutLooking(d) == down[d].fetched
New(d) == {i \in down[d].fetched : Present(d, i) = {}}
\* New entries take the next ids, in the order of the fetched ones.
Rank(S, i) == Cardinality({j \in S : j <= i})
LocalIdOfNew(d, i) == IF i \in New(d) THEN Len(mem) + Rank(New(d), i) ELSE Never
LocalId(d, i) == IF i \in New(d) THEN Len(mem) + Rank(New(d), i)
                 ELSE CHOOSE j \in Present(d, i) : TRUE

\* The memories are added and the approved forgets applied, in one save.
ApplyDown(d) ==
    /\ down[d].pc = "plan"
    /\ LET new == New(d)
           v == vault[d]
           added == {LocalId(d, i) : i \in new}
       IN \E approved \in SUBSET (down[d].asked \cap v.live) :
            /\ CanName(Cardinality(new))
            /\ mem' = [n \in 1..(Len(mem) + Cardinality(new)) |->
                         IF n <= Len(mem) THEN mem[n]
                         ELSE mem[CHOOSE i \in new : LocalId(d, i) = n]]
            /\ vault' = [vault EXCEPT ![d] =
                           [v EXCEPT !.live = (v.live \ approved) \cup added,
                                     !.gone = v.gone \cup approved,
                                     !.dirty = v.dirty \/ added # {} \/ approved # {}]]
            /\ DownGoes(d, [IdleDown EXCEPT !.pc = "ack",
                              !.local = [i \in down[d].fetched |-> LocalId(d, i)],
                              !.settled = (down[d].asked \ v.live) \cup approved])
    /\ UNCHANGED <<server, app, cloud, push, history>>

\* As AckEntries, but a row that is gone is put back.
AckEntriesUpserting(d) ==
    /\ down[d].pc = "ack"
    /\ LET local == down[d].local
           acked == DOMAIN local
       IN /\ forgets' = (forgets \ acked) \cup {local[i] : i \in acked \cap forgets}
          /\ waiting' = waiting \ acked
          /\ held' = (held \ acked) \cup {local[i] : i \in acked}
    /\ DownGoes(d, [IdleDown EXCEPT !.pc = "settle", !.settled = down[d].settled])
    /\ UNCHANGED <<enforce, tomb, order, mem, app, vault, cloud, push, history>>

\* POST /client/ack: each acked row takes its local id and is held; a forget
\* queued against it is moved to that id ...
AckEntries(d) ==
    /\ down[d].pc = "ack"
    /\ LET local == down[d].local
           acked == DOMAIN local
           rows == acked \cap (waiting \cup held)
       IN /\ forgets' = (forgets \ acked) \cup {local[i] : i \in acked \cap forgets}
          /\ waiting' = waiting \ rows
          /\ held' = (held \ rows) \cup {local[i] : i \in rows}
    /\ DownGoes(d, [IdleDown EXCEPT !.pc = "settle", !.settled = down[d].settled])
    /\ UNCHANGED <<enforce, tomb, order, mem, app, vault, cloud, push, history>>

\* ... and the settled forgets leave the queue with their rows.
AckForgets(d) ==
    /\ down[d].pc = "settle"
    /\ forgets' = forgets \ down[d].settled
    /\ waiting' = waiting \ down[d].settled
    /\ held' = held \ down[d].settled
    /\ DownGoes(d, IdleDown)
    /\ UNCHANGED <<enforce, tomb, order, mem, app, vault, cloud, push, history>>

\* The process dies or a request fails; what was saved stays saved.
DownStop(d) ==
    /\ down[d].pc # "idle"
    /\ DownGoes(d, IdleDown)
    /\ UNCHANGED <<server, mem, app, vault, cloud, push, history>>

-----------------------------------------------------------------------------
(* A device pushes its live memories.                                      *)

PushGoes(d, o) == push' = [push EXCEPT ![d] = o]

\* The automatic push: only while unshares are enforced, and exactly in sync.
AutoPush(d) ==
    /\ push[d].pc = "idle" /\ CanCall /\ enforce /\ InSync(d)
    /\ PushGoes(d, [IdlePush EXCEPT !.pc = "snapshot", !.stamp = cloud.ver])
    /\ UNCHANGED <<server, mem, app, vault, cloud, down, history>>

ManualPush(d) ==
    /\ push[d].pc = "idle" /\ CanCall
    /\ PushGoes(d, [IdlePush EXCEPT !.pc = "stamp"])
    /\ UNCHANGED <<server, mem, app, vault, cloud, down, history>>

\* manualVaultStamp: the vault goes to the sync server first when it is ahead.
PushStamp(d) ==
    /\ push[d].pc = "stamp"
    /\ \/ InSync(d) /\ UNCHANGED <<vault, cloud>>
       \/ ~Locked(d) /\ Uploaded(d)
    /\ PushGoes(d, [push[d] EXCEPT !.pc = "snapshot", !.stamp = cloud'.ver])
    /\ UNCHANGED <<server, mem, app, down, history>>

PushSnapshot(d) ==
    /\ push[d].pc = "snapshot" /\ ~Locked(d)
    /\ PushGoes(d, IF vault[d].sharedAt = Never THEN IdlePush
                   ELSE [push[d] EXCEPT !.pc = "put", !.live = vault[d].live,
                                        !.sharedAt = vault[d].sharedAt])
    /\ UNCHANGED <<server, mem, app, vault, cloud, down, history>>

\* findTombstoneConflicts: the share is not later than the unshare.
ConflictWhenUnmarked(at) == tomb # Never /\ at = Never
Conflict(at) == tomb # Never /\ at <= tomb
Accepts(stamp) == order <= stamp

\* PUT /client/entries.  A conflicting push is refused when unshares are
\* enforced, and otherwise replaces the rows beside the tombstone.  One step, as
\* in InMemoryStorage.
PutAccepted(d) ==
    LET o == push[d] IN
    /\ o.pc = "put" /\ Accepts(o.stamp) /\ (enforce => ~Conflict(o.sharedAt))
    /\ held' = o.live
    /\ tomb' = IF Conflict(o.sharedAt) THEN tomb ELSE Never
    /\ order' = o.stamp
    /\ \/ PushGoes(d, IdlePush)
       \/ o.share /\ PushGoes(d, [IdlePush EXCEPT !.pc = "rollback"])
    /\ UNCHANGED <<enforce, waiting, forgets, mem, app, vault, cloud, down, history>>

\* The push is refused or fails, which undoes the mark of a share, or the
\* process dies, which does not.
PushStop(d) ==
    /\ push[d].pc # "idle"
    /\ \/ PushGoes(d, IdlePush)
       \/ push[d].share /\ PushGoes(d, [IdlePush EXCEPT !.pc = "rollback"])
    /\ UNCHANGED <<server, mem, app, vault, cloud, down, history>>

-----------------------------------------------------------------------------
AppStep(a) ==
    \/ RememberStart(a) \/ RememberCheck(a) \/ RememberWrite(a)
    \/ ForgetFind(a) \/ ForgetQueue(a)
    \/ ListForgets(a) \/ ListTombs(a) \/ ListRows(a)

ScopeStep(d) == ShareMark(d) \/ ShareRollback(d) \/ UnshareServer(d) \/ UnshareLocal(d)

DownStep(d) ==
    \/ DownStart(d) \/ DownPending(d) \/ DownTombs(d) \/ DownForgets(d)
    \/ ApplyDown(d) \/ AckEntries(d) \/ AckForgets(d) \/ DownStop(d)

PushStep(d) ==
    \/ AutoPush(d) \/ ManualPush(d) \/ PushStamp(d) \/ PushSnapshot(d)
    \/ PutAccepted(d) \/ PushStop(d)

SyncStep(d) == SyncPush(d) \/ SyncPull(d)

ShareNext ==
    \/ \E a \in Apps : AppStep(a)
    \/ \E d \in Devices : SyncStep(d) \/ ScopeStep(d) \/ DownStep(d) \/ PushStep(d)

ShareSpec == ShareInit /\ [][ShareNext]_vars

-----------------------------------------------------------------------------
(* Properties.                                                             *)

Down == [pc : {"idle", "start", "tombs", "forgets", "plan", "ack", "settle", "unmark"},
         fetched : SUBSET Ids, unshared : BOOLEAN, asked : SUBSET Ids,
         local : UNION {[S -> Ids] : S \in SUBSET Ids}, settled : SUBSET Ids]

\* The state keeps its types: rows, vaults, and every call in progress.
ShareTypeOK ==
    /\ enforce \in BOOLEAN
    /\ waiting \subseteq Ids /\ held \subseteq Ids /\ forgets \subseteq Ids
    /\ tomb \in Nat /\ order \in Nat
    /\ mem \in Seq(Ids) /\ Len(mem) <= MaxId
    /\ app \in [Apps -> [pc : {"idle", "rows", "write", "forget", "tombs", "list"},
                         id : Ids \cup {Never}, hidden : SUBSET Ids, closed : BOOLEAN,
                         since : Nat]]
    /\ vault \in [Devices -> Vault]
    /\ cloud \in [live : SUBSET Ids, gone : SUBSET Ids, sharedAt : Nat, ver : Nat]
    /\ down \in [Devices -> Down]
    /\ push \in [Devices -> [pc : {"idle", "stamp", "snapshot", "put", "rollback"},
                             share : BOOLEAN, stamp : Nat, live : SUBSET Ids, sharedAt : Nat]]
    /\ now \in Nat /\ marked \in Nat
    /\ owed \subseteq Ids /\ forgotten \in Nat

\* A list begun after an unshare reached the connector shows nothing of the
\* scope until it is shared again, whatever stale pushes and app writes were
\* already under way, and whether or not unshares are enforced on pushes.
RevokedStaysHidden ==
    [][\A a \in Apps :
         (app[a].pc = "list" /\ app'[a].pc = "idle" /\ Visible(a) # {})
         => ~(Revoked /\ app[a].since = marked)]_vars

\* While a tombstone stands and unshares are enforced, no pushed or acked row
\* lies beside it: a push prepared before the unshare, or an ack of a row
\* fetched before it, does not bring the scope back.  So it is in InMemoryStorage;
\* NeonStorage checks and commits a push in several statements, and an unshare
\* that lands between them leaves the push's rows beside its tombstone.
TombstonedScopeIsEmpty == enforce /\ tomb # Never => held = {}

\* A memory an app was told is saved is on the connector or in a vault until
\* an app forgets it, an unshare deletes it, or the user gives up the vault
\* holding it: no push, purge, ack, second device or crash drops it.
WrittenMemoryKept ==
    owed \subseteq Held(waiting \cup held \cup cloud.live \cup cloud.gone
                        \cup UNION {vault[d].live \cup vault[d].gone : d \in Devices})

\* A memory is live at most once in a vault, however often its row is
\* delivered because an ack was lost or another device acked it.
DeliveredOnce ==
    \A d \in Devices : \A i, j \in vault[d].live : mem[i] = mem[j] => i = j
=============================================================================
