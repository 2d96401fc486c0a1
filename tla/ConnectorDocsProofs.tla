------------------------- MODULE ConnectorDocsProofs -------------------------
(***************************************************************************)
(* Why the connector's rows stay sound and an app's write is a real        *)
(* compare-and-set: the counter bounds the rows and no two pushed rows     *)
(* share its value, a push holds a version its device has read, and an     *)
(* app whose counter is still the scope's holds the head it serves.        *)
(*                                                                         *)
(* Then what the versions say: every id names one text for good, wherever  *)
(* it is met, and what leaves the connector is in a vault.                 *)
(***************************************************************************)
EXTENDS ConnectorDocs, FiniteSetTheorems, TLAPS

-----------------------------------------------------------------------------
(* The rows and their counter.                                             *)

\* Any rows picked from r have a newest one.
HasNewest(r) == \A S \in SUBSET DOMAIN r : S # {} => Newest(r, S) # {}

\* The counter n bounds the rows, and no two pushed rows share its value.
Counted(r, n) ==
    /\ HasNewest(r)
    /\ \A i \in DOMAIN r : r[i].seq <= n
    /\ \A i, j \in Pushed(r) : r[i].seq = r[j].seq => i = j

LEMMA WithoutRows ==
    ASSUME NEW r, NEW S, IsRows(r)
    PROVE  /\ DOMAIN Without(r, S) = DOMAIN r \ S
           /\ \A i \in DOMAIN r \ S : Without(r, S)[i] = r[i]
           /\ IsRows(Without(r, S))
BY DEF Without, IsRows

LEMMA WithRow ==
    ASSUME NEW r, NEW id \in Ids, NEW row \in Row, IsRows(r)
    PROVE  /\ DOMAIN With(r, id, row) = DOMAIN r \cup {id}
           /\ With(r, id, row)[id] = row
           /\ \A i \in DOMAIN r \ {id} : With(r, id, row)[i] = r[i]
           /\ IsRows(With(r, id, row))
BY DEF With, IsRows

LEMMA RowsHaveSeq ==
    ASSUME NEW r, IsRows(r), NEW i \in DOMAIN r
    PROVE  i \in Ids /\ r[i] \in Row /\ r[i].seq \in Nat
BY DEF IsRows, Row

LEMMA WithoutCounted ==
    ASSUME NEW r, NEW S, NEW n \in Nat, NEW k \in Nat, n <= k, IsRows(r), Counted(r, n)
    PROVE  Counted(Without(r, S), k)
<1> DEFINE w == Without(r, S)
<1>1. /\ DOMAIN w = DOMAIN r \ S
      /\ \A i \in DOMAIN r \ S : w[i] = r[i]
  BY WithoutRows
<1> HIDE DEF w
<1>2. HasNewest(w)
  <2>1. SUFFICES ASSUME NEW T \in SUBSET DOMAIN w, T # {}
                 PROVE  Newest(w, T) # {}
    BY DEF HasNewest
  <2>2. T \in SUBSET DOMAIN r /\ Newest(r, T) # {}
    BY <1>1, <2>1 DEF Counted, HasNewest
  <2>3. \A i \in T : w[i] = r[i]
    BY <1>1
  <2> QED
    BY <2>2, <2>3 DEF Newest
<1>3. \A i \in DOMAIN w : w[i].seq <= k
  BY <1>1, RowsHaveSeq DEF Counted
<1>4. Pushed(w) \subseteq Pushed(r)
  BY <1>1 DEF Pushed
<1>5. \A i, j \in Pushed(w) : w[i].seq = w[j].seq => i = j
  BY <1>1, <1>4 DEF Counted, Pushed
<1> QED
  BY <1>2, <1>3, <1>5 DEF Counted, w

LEMMA WithCounted ==
    ASSUME NEW r, NEW id \in Ids, NEW row \in Row, NEW n \in Nat, IsRows(r), Counted(r, n),
           row.seq = n + 1
    PROVE  Counted(With(r, id, row), n + 1)
<1> DEFINE w == With(r, id, row)
<1>1. /\ DOMAIN w = DOMAIN r \cup {id}
      /\ w[id] = row
      /\ \A i \in DOMAIN r \ {id} : w[i] = r[i]
  BY DEF With
<1> HIDE DEF w
<1>2. \A i \in DOMAIN w : w[i].seq \in Nat /\ w[i].seq <= w[id].seq
                          /\ (i # id => w[i].seq <= n)
  BY <1>1, RowsHaveSeq DEF Counted, Row
<1>3. HasNewest(w)
  <2>1. SUFFICES ASSUME NEW T \in SUBSET DOMAIN w, T # {}
                 PROVE  Newest(w, T) # {}
    BY DEF HasNewest
  <2>2. CASE id \in T
    <3>1. \A j \in T : w[j].seq <= w[id].seq
      BY <1>2
    <3> QED
      BY <2>2, <3>1 DEF Newest
  <2>3. CASE id \notin T
    <3>1. T \in SUBSET DOMAIN r /\ Newest(r, T) # {}
      BY <1>1, <2>1, <2>3 DEF Counted, HasNewest
    <3>2. \A i \in T : w[i] = r[i]
      BY <1>1, <2>3
    <3> QED
      BY <3>1, <3>2 DEF Newest
  <2> QED
    BY <2>2, <2>3
<1>4. \A i \in DOMAIN w : w[i].seq <= n + 1
  BY <1>1, <1>2
<1>5. ASSUME NEW i \in Pushed(w), NEW j \in Pushed(w), w[i].seq = w[j].seq
      PROVE  i = j
  <2>1. i \in DOMAIN w /\ j \in DOMAIN w
    BY DEF Pushed
  <2>2. CASE i = id \/ j = id
    BY <1>1, <1>2, <1>5, <2>1, <2>2
  <2>3. CASE i # id /\ j # id
    BY <1>1, <1>5, <2>1, <2>3 DEF Pushed, Counted
  <2> QED
    BY <2>2, <2>3
<1> QED
  BY <1>3, <1>4, <1>5 DEF Counted, w

\* Rows go, and the counter stays or goes up by one.
LEMMA DropRows ==
    ASSUME NEW r, NEW S, NEW n \in Nat, IsRows(r), Counted(r, n)
    PROVE  /\ IsRows(Without(r, S))
           /\ Counted(Without(r, S), n) /\ Counted(Without(r, S), n + 1)
<1>1. IsRows(Without(r, S))
  BY WithoutRows
<1>2. n <= n /\ n <= n + 1 /\ n + 1 \in Nat
  OBVIOUS
<1>3. Counted(Without(r, S), n)
  BY <1>2, WithoutCounted
<1>4. Counted(Without(r, S), n + 1)
  BY <1>2, WithoutCounted
<1> QED
  BY <1>1, <1>3, <1>4

\* Rows give way to one row at the counter's next value.
LEMMA ReplaceRows ==
    ASSUME NEW r, NEW S, NEW n \in Nat, NEW id \in Ids, NEW row \in Row,
           IsRows(r), Counted(r, n), row.seq = n + 1
    PROVE  IsRows(With(Without(r, S), id, row)) /\ Counted(With(Without(r, S), id, row), n + 1)
<1> DEFINE w == Without(r, S)
<1>1. IsRows(w) /\ Counted(w, n)
  BY DropRows
<1> HIDE DEF w
<1>2. IsRows(With(w, id, row)) /\ Counted(With(w, id, row), n + 1)
  BY <1>1, WithRow, WithCounted
<1> QED
  BY <1>2 DEF w

\* Rows so counted never hold two pushed documents to choose between.
LEMMA CountedIsOne ==
    ASSUME NEW r, NEW n \in Nat, IsRows(r), Counted(r, n)
    PROVE  ~Several(r)
<1> DEFINE N == Newest(r, Pushed(r))
<1>1. \A i, j \in N : i = j
  <2>1. SUFFICES ASSUME NEW i \in N, NEW j \in N
                 PROVE  i = j
    OBVIOUS
  <2>2. i \in Pushed(r) /\ j \in Pushed(r) /\ r[i].seq <= r[j].seq /\ r[j].seq <= r[i].seq
    BY DEF Newest
  <2>3. r[i].seq \in Nat /\ r[j].seq \in Nat
    BY <2>2, RowsHaveSeq DEF Pushed
  <2> QED
    BY <2>2, <2>3 DEF Counted
<1>2. CASE N = {}
  <2>1. Cardinality(N) = 0
    BY <1>2, FS_EmptySet
  <2> QED
    BY <2>1 DEF Several
<1>3. CASE N # {}
  <2>1. PICK i : N = {i}
    BY <1>1, <1>3
  <2>2. Cardinality(N) = 1
    BY <2>1, FS_Singleton
  <2> QED
    BY <2>2 DEF Several
<1> QED
  BY <1>2, <1>3

\* The head the connector serves is one of its rows.
LEMMA ServedIsRow ==
    ASSUME NEW r, NEW n \in Nat, IsRows(r), Counted(r, n)
    PROVE  Served(r) = NoDoc \/ Served(r) \in DOMAIN r
<1>1. PushedDoc(r) = NoDoc \/ PushedDoc(r) \in DOMAIN r
  <2>1. Pushed(r) \in SUBSET DOMAIN r
    BY DEF Pushed
  <2>2. Pushed(r) # {} => Newest(r, Pushed(r)) # {}
    BY <2>1 DEF Counted, HasNewest
  <2>3. \A i \in Newest(r, Pushed(r)) : i \in DOMAIN r
    BY <2>1 DEF Newest
  <2> QED
    BY <2>2, <2>3 DEF PushedDoc
<1>2. Current(r) # {} => (CHOOSE i \in Newest(r, Current(r)) : TRUE) \in DOMAIN r
  <2>1. Current(r) \in SUBSET DOMAIN r
    BY DEF Current
  <2>2. Current(r) # {} => Newest(r, Current(r)) # {}
    BY <2>1 DEF Counted, HasNewest
  <2>3. \A i \in Newest(r, Current(r)) : i \in DOMAIN r
    BY <2>1 DEF Newest
  <2> QED
    BY <2>2, <2>3
<1> QED
  BY <1>1, <1>2 DEF Served

-----------------------------------------------------------------------------
(* Types, the counter, and the versions.                                   *)

\* A call in progress names what it will need.
CallsOK ==
    /\ \A d \in Devices : down[d].acked # NoDoc => down[d].local # NoDoc
    /\ \A d \in Devices : push[d].pc = "put" => push[d].head # NoDoc

\* A push holds a version its device has read, and the connector's order is
\* one such version.
VersionsRead ==
    /\ order <= from
    /\ \A d \in Devices :
         /\ vault[d].ver <= cloud.ver
         /\ push[d].pc = "snapshot" => push[d].stamp <= vault[d].ver
         /\ push[d].pc = "put" => push[d].stamp <= push[d].from

TypeInv == DocsTypeOK /\ CallsOK /\ Counted(rows, seq)

LEMMA InitTypes == DocsInit => TypeInv /\ VersionsRead
<1> SUFFICES ASSUME DocsInit PROVE TypeInv /\ VersionsRead
  OBVIOUS
<1> USE DocsAssumption
<1>1. PICK first \in {NoDoc, 1} :
         LET text == IF first = NoDoc THEN {} ELSE {1} IN
         /\ rows = [i \in text |-> [text |-> text, pending |-> FALSE,
                                    base |-> NoDoc, seq |-> 1]]
         /\ seq = first
         /\ vault = [d \in Devices |-> [head |-> first, text |-> text, kept |-> text,
                                        notes |-> {}, ver |-> 1, dirty |-> FALSE]]
         /\ cloud = [head |-> first, text |-> text, kept |-> text, notes |-> {}, ver |-> 1]
  BY DEF DocsInit
<1> DEFINE text == IF first = NoDoc THEN {} ELSE {1}
<1>2. text \in Texts /\ first \in Ids \cup {NoDoc} /\ {} \in Texts /\ NoDoc = 0
  BY DEF Texts, Ids, NoDoc
<1>3. IsRows(rows)
  BY <1>1, <1>2 DEF IsRows, Row, Texts, Ids, NoDoc
<1>4. seq \in Nat /\ order \in Nat /\ from \in Nat /\ lastId \in Ids /\ saved \in Texts
      /\ discarded \in Texts
  BY <1>1, <1>2 DEF DocsInit, Ids
<1>5. vault \in [Devices -> Vault] /\ cloud \in Cloud
  BY <1>1, <1>2 DEF Vault, Cloud, Texts, Ids
<1>6. app \in [Apps -> [pc : {"idle", "rows", "write"}, seq : Nat,
                        head : Ids \cup {NoDoc}, row : Row]]
  BY <1>2 DEF DocsInit, IdleApp, NoRow, Row
<1>7. push \in [Devices -> [pc : {"idle", "snapshot", "put"}, stamp : Nat,
                           head : Ids \cup {NoDoc}, text : Texts, from : Nat]]
  BY <1>2 DEF DocsInit, IdlePush
<1>8. /\ DOMAIN down = Devices
      /\ \A d \in Devices : down[d] = IdleDown
      /\ IsDown(IdleDown)
  BY DEF DocsInit, IdleDown, IsRows, IsDown
<1>9. DocsTypeOK
  BY <1>2, <1>3, <1>4, <1>5, <1>6, <1>7, <1>8 DEF DocsTypeOK
<1>10. CallsOK
  BY <1>8 DEF DocsInit, CallsOK, IdleDown, IdlePush
<1>11. Counted(rows, seq)
  BY <1>1, <1>2 DEF Counted, HasNewest, Newest, Pushed
<1>12. VersionsRead
  BY <1>1 DEF DocsInit, VersionsRead, IdlePush
<1> QED
  BY <1>9, <1>10, <1>11, <1>12 DEF TypeInv

LEMMA NextName == DocsTypeOK /\ CanName => Next_ \in Ids /\ Next_ = lastId + 1
BY DocsAssumption DEF DocsTypeOK, CanName, Next_, Ids

LEMMA InstalledIsVault ==
    ASSUME NEW v \in Vault, NEW id \in Ids, NEW text \in Texts
    PROVE  Installed(v, id, text) \in Vault
BY DEF Installed, Vault, Texts

LEMMA UploadTypes ==
    ASSUME DocsTypeOK, NEW d \in Devices, Uploaded(d)
    PROVE  vault' \in [Devices -> Vault] /\ cloud' \in Cloud
<1>1. /\ vault[d] \in Vault /\ cloud.ver + 1 \in Nat
      /\ vault \in [Devices -> Vault]
  BY DEF DocsTypeOK, Cloud
<1>2. [vault[d] EXCEPT !.ver = cloud.ver + 1, !.dirty = FALSE] \in Vault
  BY <1>1 DEF Vault
<1>3. cloud' \in Cloud
  BY <1>1 DEF Uploaded, Vault, Cloud
<1> QED
  BY <1>1, <1>2, <1>3 DEF Uploaded

LEMMA AdoptTypes ==
    ASSUME DocsTypeOK, NEW d \in Devices, Adopt(d)
    PROVE  vault' \in [Devices -> Vault]
BY DEF Adopt, DocsTypeOK, Vault, Cloud

LEMMA AppTypes ==
    ASSUME TypeInv, NEW a \in Apps, AppStep(a)
    PROVE  TypeInv'
<1> USE DEF TypeInv
<1> DEFINE AppType == [pc : {"idle", "rows", "write"}, seq : Nat,
                       head : Ids \cup {NoDoc}, row : Row]
<1>0. /\ IdleApp \in AppType /\ NoRow \in Row
      /\ app \in [Apps -> AppType] /\ IsRows(rows) /\ seq \in Nat
  BY DEF IdleApp, NoRow, Row, Texts, DocsTypeOK
<1>1. CASE ReadSeq(a)
  <2>1. app' \in [Apps -> AppType]
    BY <1>0, <1>1 DEF ReadSeq, IdleApp
  <2> QED
    BY <1>1, <2>1 DEF ReadSeq, server, device, DocsTypeOK, CallsOK, Counted, IsRows, IsDown
<1>2. CASE ReadRows(a)
  <2>1. app' \in [Apps -> AppType]
    <3>1. CASE app' = [app EXCEPT ![a] = IdleApp] \/ app' = [app EXCEPT ![a].pc = "write"]
      BY <1>0, <3>1
    <3>2. CASE Served(rows) # NoDoc /\ app' = [app EXCEPT ![a] = [@ EXCEPT !.pc = "write",
                                       !.head = Served(rows), !.row = rows[Served(rows)]]]
      <4>1. Served(rows) \in Ids /\ rows[Served(rows)] \in Row
        BY <1>0, <3>2, ServedIsRow, RowsHaveSeq
      <4> QED
        BY <1>0, <3>2, <4>1
    <3> QED
      BY <1>2, <3>1, <3>2 DEF ReadRows
  <2> QED
    BY <1>2, <2>1 DEF ReadRows, server, device, DocsTypeOK, CallsOK, Counted, IsRows, IsDown
<1>3. CASE WriteRows(a)
  <2>1. Next_ \in Ids
    BY <1>3, NextName DEF WriteRows
  <2> DEFINE o == app[a]
             gone == IF o.row.pending /\ o.head \in DOMAIN rows /\ rows[o.head].pending
                     THEN {o.head} ELSE {}
             row == [text |-> o.row.text \cup {Next_}, pending |-> TRUE,
                     base |-> BaseFor(o), seq |-> seq + 1]
  <2>2. rows' = With(Without(rows, gone), Next_, row) /\ seq' = seq + 1
    BY <1>3 DEF WriteRows
  <2>3. row \in Row /\ row.seq = seq + 1
    <3>1. o.row \in Row /\ o.head \in Ids \cup {NoDoc}
      BY <1>0
    <3> QED
      BY <1>0, <2>1, <3>1 DEF Row, BaseFor, Texts
  <2> HIDE DEF gone, row
  <2>4. Counted(rows, seq)
    OBVIOUS
  <2>5. IsRows(rows') /\ Counted(rows', seq') /\ seq' \in Nat
    BY <1>0, <2>1, <2>2, <2>3, <2>4, ReplaceRows
  <2>6. lastId' \in Ids /\ saved' \in Texts /\ app' \in [Apps -> AppType]
    BY <1>0, <1>3, <2>1 DEF WriteRows, DocsTypeOK, Texts
  <2> QED
    BY <1>3, <2>5, <2>6 DEF WriteRows, device, DocsTypeOK, CallsOK
<1>4. CASE WriteRefused(a)
  <2>1. app' \in [Apps -> AppType]
    BY <1>0, <1>4 DEF WriteRefused
  <2> QED
    BY <1>4, <2>1 DEF WriteRefused, server, device, DocsTypeOK, CallsOK, Counted, IsRows, IsDown
<1> QED
  BY <1>1, <1>2, <1>3, <1>4 DEF AppStep

LEMMA SyncTypes ==
    ASSUME TypeInv, NEW d \in Devices, SyncStep(d)
    PROVE  TypeInv'
<1> USE DEF TypeInv
<1>1. vault' \in [Devices -> Vault] /\ cloud' \in Cloud /\ lastId' \in Ids /\ discarded' \in Texts
  <2>1. CASE LocalEdit(d)
    <3>1. vault[d] \in Vault /\ Next_ \in Ids /\ vault[d].text \cup {Next_} \in Texts
      BY <2>1, NextName DEF LocalEdit, DocsTypeOK, Vault, Texts
    <3>2. Installed(vault[d], Next_, vault[d].text \cup {Next_}) \in Vault
      BY <3>1, InstalledIsVault
    <3> QED
      BY <2>1, <3>1, <3>2 DEF LocalEdit, DocsTypeOK
  <2>2. CASE SyncPush(d)
    BY <2>2, UploadTypes DEF SyncPush, DocsTypeOK
  <2>3. CASE SyncPull(d)
    BY <2>3, AdoptTypes DEF SyncPull, DocsTypeOK
  <2>4. CASE TakeOtherVault(d)
    BY <2>4, AdoptTypes DEF TakeOtherVault, DocsTypeOK, Vault, Cloud, Texts
  <2> QED
    BY <2>1, <2>2, <2>3, <2>4 DEF SyncStep
<1>2. UNCHANGED <<server, app, down, push, saved>>
  BY DEF SyncStep, LocalEdit, SyncPush, SyncPull, TakeOtherVault
<1> QED
  BY <1>1, <1>2 DEF server, DocsTypeOK, CallsOK, Counted, IsRows, IsDown

\* q is a down-sync in progress, about to ack one row under one name.
DownIs(q, acked, local) == IsDown(q) /\ q.acked = acked /\ q.local = local

\* A down-sync that goes on with new fields keeps its type.
LEMMA DownGoesOn ==
    ASSUME NEW o, IsDown(o), NEW pc \in {"idle", "fetch", "plan", "discard", "ack"},
           NEW acked \in Ids \cup {NoDoc}, NEW local \in Ids \cup {NoDoc},
           NEW discards \in SUBSET Ids, NEW row, IsRows(row)
    PROVE  /\ DownIs([o EXCEPT !.pc = pc], o.acked, o.local)
           /\ DownIs([o EXCEPT !.pc = pc, !.row = row], o.acked, o.local)
           /\ DownIs([o EXCEPT !.pc = pc, !.discards = discards], o.acked, o.local)
           /\ DownIs([o EXCEPT !.pc = pc, !.acked = acked, !.local = local], acked, local)
           /\ DownIs([o EXCEPT !.pc = pc, !.acked = acked, !.local = local,
                               !.discards = discards], acked, local)
BY DEF DownIs, IsDown

LEMMA StartIsDown ==
    \A goal \in {"sync", "theirs", "mine"} :
        /\ DownIs(IdleDown, NoDoc, NoDoc)
        /\ DownIs([IdleDown EXCEPT !.pc = "fetch", !.goal = goal], NoDoc, NoDoc)
BY DEF DownIs, IsDown, IdleDown, IsRows

\* What a plan finds waiting has a name and a text.
LEMMA PlanNames ==
    ASSUME DocsTypeOK, NEW d \in Devices
    PROVE  /\ Discards(d) \in SUBSET Ids /\ Conflicts(d) \in SUBSET Ids
           /\ AfterSave({}) \in {"discard", "ack"} /\ AfterSave(Discards(d)) \in {"discard", "ack"}
           /\ Dedupes(d) # {} => Served(rows) \in Ids /\ vault[d].head \in Ids
           /\ vault[d] \in Vault /\ vault[d].head \in Ids \cup {NoDoc} /\ IsDown(down[d])
           /\ \A i \in Waiting(d) : i \in Ids /\ down[d].row[i].text \in Texts
<1>1. IsDown(down[d]) /\ vault[d] \in Vault
  BY DEF DocsTypeOK
<1>2. \A i \in Waiting(d) : i \in Ids /\ down[d].row[i].text \in Texts
  BY <1>1, RowsHaveSeq DEF IsDown, Waiting, Row
<1>3. vault[d].head \in Ids \cup {NoDoc}
  BY <1>1 DEF Vault
<1>4. Dedupes(d) # {} => Served(rows) \in Ids /\ vault[d].head \in Ids
  BY <1>2, <1>3 DEF Dedupes, Same, Fresh
<1> QED
  BY <1>1, <1>2, <1>3, <1>4 DEF Discards, Conflicts, AfterSave

\* An ack renames a row to a name the vault gave it.
LEMMA AckTypes ==
    ASSUME TypeInv, NEW d \in Devices, AckEntry(d)
    PROVE  IsRows(rows') /\ Counted(rows', seq') /\ seq' \in Nat
<1> DEFINE o == down[d]
           row == [rows[o.acked] EXCEPT !.pending = FALSE, !.seq = seq + 1]
<1>1. IsRows(rows) /\ seq \in Nat /\ Counted(rows, seq)
  BY DEF TypeInv, DocsTypeOK
<1>2. CASE o.acked \notin DOMAIN rows
  BY <1>1, <1>2 DEF AckEntry, AckedRows
<1>3. CASE o.acked \in DOMAIN rows
  <2>1. o.acked # NoDoc
    BY <1>1, <1>3, DocsAssumption, RowsHaveSeq DEF Ids, NoDoc
  <2>2. o.local \in Ids
    BY <2>1 DEF TypeInv, DocsTypeOK, CallsOK, IsDown
  <2>3. row \in Row /\ row.seq = seq + 1
    <3>1. rows[o.acked] \in Row /\ seq + 1 \in Nat
      BY <1>1, <1>3, RowsHaveSeq
    <3> QED
      BY <3>1 DEF Row
  <2>4. rows' = With(Without(rows, {o.acked}), o.local, row) /\ seq' = seq + 1
    BY <1>3 DEF AckEntry, AckedRows
  <2> HIDE DEF row, o
  <2> QED
    BY <1>1, <2>2, <2>3, <2>4, ReplaceRows
<1> QED
  BY <1>2, <1>3

LEMMA DownTypes ==
    ASSUME TypeInv, NEW d \in Devices, DownStep(d)
    PROVE  TypeInv'
<1> DEFINE Rows == IsRows(rows') /\ Counted(rows', seq') /\ seq' \in Nat
           Downs == /\ DOMAIN down' = Devices
                    /\ \A e \in Devices : IsDown(down'[e])
                    /\ \A e \in Devices : down'[e].acked # NoDoc => down'[e].local # NoDoc
           Rest == vault' \in [Devices -> Vault] /\ lastId' \in Ids
<1>1. /\ IsRows(rows) /\ Counted(rows, seq) /\ seq \in Nat
      /\ DOMAIN down = Devices /\ \A e \in Devices : IsDown(down[e])
      /\ \A e \in Devices : down[e].acked # NoDoc => down[e].local # NoDoc
      /\ vault \in [Devices -> Vault] /\ lastId \in Ids
  BY DEF TypeInv, DocsTypeOK, CallsOK
<1>2. DocsTypeOK
  BY DEF TypeInv
<1>3. ASSUME NEW o, NEW acked, NEW local, down' = [down EXCEPT ![d] = o],
             DownIs(o, acked, local), acked # NoDoc => local # NoDoc
      PROVE  Downs
  BY <1>1, <1>3 DEF DownIs
<1>4. ASSUME NEW goal \in {"sync", "theirs", "mine"}, DownStart(d, goal)
      PROVE  Downs /\ UNCHANGED <<rows, seq, vault, lastId>>
  <2> DEFINE o == [IdleDown EXCEPT !.pc = "fetch", !.goal = goal]
  <2>1. DownIs(o, NoDoc, NoDoc)
    BY StartIsDown
  <2> QED
    BY <1>3, <1>4, <2>1 DEF DownStart, server
<1>5. ASSUME DownFetch(d)
      PROVE  Downs /\ UNCHANGED <<rows, seq, vault, lastId>>
  <2> DEFINE o == [down[d] EXCEPT !.pc = "plan", !.row = Without(rows, Pushed(rows))]
  <2>1. IsRows(Without(rows, Pushed(rows)))
    BY <1>1, WithoutRows
  <2>2. DownIs(o, down[d].acked, down[d].local)
    BY <1>1, <2>1, DownGoesOn
  <2>3. Downs
    BY <1>1, <1>3, <1>5, <2>2 DEF DownFetch
  <2> QED
    BY <1>5, <2>3 DEF DownFetch, server
<1>6. ASSUME SettleDown(d)
      PROVE  Downs /\ UNCHANGED <<rows, seq, vault, lastId>>
  <2> DEFINE acked == IF Dedupes(d) = {} THEN NoDoc ELSE Served(rows)
             o == [down[d] EXCEPT !.pc = AfterSave(Discards(d)), !.acked = acked,
                                  !.local = vault[d].head, !.discards = Discards(d)]
  <2>1. acked \in Ids \cup {NoDoc} /\ (acked # NoDoc => vault[d].head # NoDoc)
    BY <1>2, PlanNames, DocsAssumption DEF Ids, NoDoc
  <2>2. DownIs(o, acked, vault[d].head)
    <3>1. /\ IsDown(down[d]) /\ Discards(d) \in SUBSET Ids
          /\ AfterSave(Discards(d)) \in {"idle", "fetch", "plan", "discard", "ack"}
          /\ acked \in Ids \cup {NoDoc} /\ vault[d].head \in Ids \cup {NoDoc}
      BY <1>2, <2>1, PlanNames
    <3> HIDE DEF acked
    <3> QED
      BY <1>1, <3>1, DownGoesOn
  <2>3. Downs
    BY <1>3, <1>6, <2>1, <2>2 DEF SettleDown
  <2> QED
    BY <1>6, <2>3 DEF SettleDown, server
<1>7. ASSUME KeepMine(d)
      PROVE  Downs /\ Rest /\ UNCHANGED <<rows, seq>>
  <2> DEFINE o == [down[d] EXCEPT !.pc = "discard", !.discards = Conflicts(d)]
             new == Conflicts(d) \ vault[d].notes
             v == [vault[d] EXCEPT !.dirty = vault[d].dirty \/ new # {},
                                   !.notes = vault[d].notes \cup new,
                                   !.kept = vault[d].kept
                                            \cup UNION {down[d].row[i].text : i \in new}]
  <2>1. DownIs(o, down[d].acked, down[d].local)
    <3>1. /\ IsDown(down[d]) /\ Conflicts(d) \in SUBSET Ids
          /\ "discard" \in {"idle", "fetch", "plan", "discard", "ack"}
      BY <1>2, PlanNames
    <3> QED
      BY <1>1, <3>1, DownGoesOn
  <2>2. Downs
    BY <1>1, <1>3, <1>7, <2>1 DEF KeepMine
  <2>3. new \in SUBSET Ids /\ UNION {down[d].row[i].text : i \in new} \in Texts
    BY <1>2, PlanNames DEF Texts, Conflicts
  <2>4. vault' = [vault EXCEPT ![d] = v]
    BY ONLY <1>7, ZenonT(20) DEF KeepMine
  <2> DEFINE K == UNION {down[d].row[i].text : i \in new}
  <2> HIDE DEF new, K
  <2>5. v \in Vault
    BY <1>1, <2>3 DEF Vault, Texts
  <2> QED
    BY <1>1, <1>7, <2>2, <2>4, <2>5 DEF KeepMine, server
<1>8. ASSUME NEW i \in Waiting(d), ApplyDown(d, i) \/ TakeTheirs(d, i)
      PROVE  Downs /\ Rest /\ UNCHANGED <<rows, seq>>
  <2>1. /\ Next_ \in Ids /\ i \in Ids /\ Next_ # NoDoc
        /\ vault[d] \in Vault /\ down[d].row[i].text \in Texts
    BY <1>2, <1>8, NextName, PlanNames, DocsAssumption DEF ApplyDown, TakeTheirs, Ids, NoDoc
  <2>2. Installed(vault[d], Next_, down[d].row[i].text) \in Vault
    BY <2>1, InstalledIsVault
  <2>3. Rest /\ UNCHANGED <<rows, seq>>
    BY <1>1, <1>8, <2>1, <2>2 DEF ApplyDown, TakeTheirs, server
  <2>4. CASE ApplyDown(d, i)
    <3> DEFINE o == [down[d] EXCEPT !.pc = AfterSave(Discards(d)), !.acked = i,
                                    !.local = Next_, !.discards = Discards(d)]
    <3>1. DownIs(o, i, Next_)
      <4>1. /\ IsDown(down[d]) /\ Discards(d) \in SUBSET Ids
            /\ AfterSave(Discards(d)) \in {"idle", "fetch", "plan", "discard", "ack"}
            /\ i \in Ids \cup {NoDoc} /\ Next_ \in Ids \cup {NoDoc}
        BY <1>2, <2>1, PlanNames
      <4> QED
        BY <1>1, <4>1, DownGoesOn
    <3> QED
      BY <1>3, <2>1, <2>3, <2>4, <3>1 DEF ApplyDown
  <2>5. CASE TakeTheirs(d, i)
    <3> DEFINE o == [down[d] EXCEPT !.pc = AfterSave({}), !.acked = i, !.local = Next_]
    <3>1. DownIs(o, i, Next_)
      <4>1. /\ IsDown(down[d])
            /\ AfterSave({}) \in {"idle", "fetch", "plan", "discard", "ack"}
            /\ i \in Ids \cup {NoDoc} /\ Next_ \in Ids \cup {NoDoc}
        BY <1>2, <2>1, PlanNames
      <4> QED
        BY <1>1, <4>1, DownGoesOn
    <3> QED
      BY <1>3, <2>1, <2>3, <2>5, <3>1 DEF TakeTheirs
  <2> QED
    BY <1>8, <2>4, <2>5
<1>9. ASSUME DiscardPending(d)
      PROVE  Downs /\ Rows /\ UNCHANGED <<vault, lastId>>
  <2> DEFINE o == [down[d] EXCEPT !.pc = "ack"]
  <2>1. DownIs(o, down[d].acked, down[d].local)
    BY <1>1, DownGoesOn
  <2>2. Downs
    BY <1>1, <1>3, <1>9, <2>1 DEF DiscardPending
  <2>3. Rows
    BY <1>1, <1>9, DropRows DEF DiscardPending
  <2> QED
    BY <1>9, <2>2, <2>3 DEF DiscardPending
<1>10. ASSUME AckEntry(d) \/ DownStop(d)
      PROVE  Downs /\ Rows /\ UNCHANGED <<vault, lastId>>
  <2>1. DownIs(IdleDown, NoDoc, NoDoc)
    BY StartIsDown
  <2>2. Downs
    BY <1>3, <1>10, <2>1 DEF AckEntry, DownStop
  <2>3. Rows
    BY <1>1, <1>10, AckTypes DEF DownStop, server
  <2> QED
    BY <1>10, <2>2, <2>3 DEF AckEntry, DownStop
<1> HIDE DEF Rows, Downs, Rest
<1>11. /\ UNCHANGED <<order, from, app, cloud, push, saved, discarded>>
  BY DEF DownStep, DownStart, DownFetch, SettleDown, KeepMine, ApplyDown, TakeTheirs,
         DiscardPending, AckEntry, DownStop, server
<1>12. Downs /\ (Rows \/ UNCHANGED <<rows, seq>>) /\ (Rest \/ UNCHANGED <<vault, lastId>>)
  BY <1>4, <1>5, <1>6, <1>7, <1>8, <1>9, <1>10
     DEF DownStep, KeepMine, DiscardPending, AckEntry, DownStop, DownFetch, SettleDown, server, Rest
<1> QED
  BY <1>1, <1>11, <1>12 DEF TypeInv, DocsTypeOK, CallsOK, Rows, Downs, Rest, Counted

LEMMA PushTypes ==
    ASSUME TypeInv, NEW d \in Devices, PushStep(d)
    PROVE  TypeInv'
<1> DEFINE PushType == [pc : {"idle", "snapshot", "put"}, stamp : Nat,
                        head : Ids \cup {NoDoc}, text : Texts, from : Nat]
           Pushes == /\ push' \in [Devices -> PushType]
                     /\ \A e \in Devices : push'[e].pc = "put" => push'[e].head # NoDoc
           Vaults == vault' \in [Devices -> Vault] /\ cloud' \in Cloud
           Rows == IsRows(rows') /\ Counted(rows', seq') /\ seq' \in Nat
                   /\ order' \in Nat /\ from' \in Nat
<1>1. /\ IsRows(rows) /\ Counted(rows, seq) /\ seq \in Nat /\ order \in Nat /\ from \in Nat
      /\ push \in [Devices -> PushType] /\ IdlePush \in PushType
      /\ \A e \in Devices : push[e].pc = "put" => push[e].head # NoDoc
      /\ vault \in [Devices -> Vault] /\ cloud \in Cloud
  BY DEF TypeInv, DocsTypeOK, CallsOK, IdlePush, Texts
<1>2. ASSUME NEW o \in PushType, push' = [push EXCEPT ![d] = o],
             o.pc = "put" => o.head # NoDoc
      PROVE  Pushes
  BY <1>1, <1>2
<1>3. ASSUME PushStart(d), Vaults
      PROVE  Pushes
  <2> DEFINE o == [IdlePush EXCEPT !.pc = "snapshot", !.stamp = cloud'.ver]
  <2>1. o \in PushType /\ o.pc # "put"
    BY <1>3 DEF IdlePush, Cloud, Texts
  <2> QED
    BY <1>2, <1>3, <2>1 DEF PushStart
<1>4. ASSUME AutoPush(d) \/ ManualPush(d)
      PROVE  Pushes /\ Vaults /\ UNCHANGED server
  <2>1. DocsTypeOK
    BY DEF TypeInv
  <2>2. Vaults
    BY <1>1, <1>4, <2>1, UploadTypes DEF AutoPush, ManualPush
  <2> HIDE DEF Vaults, Pushes
  <2> QED
    BY <1>3, <1>4, <2>2 DEF AutoPush, ManualPush, PushStart
<1>5. ASSUME PushSnapshot(d)
      PROVE  Pushes /\ UNCHANGED <<server, vault, cloud>>
  <2> DEFINE o == [push[d] EXCEPT !.pc = "put", !.head = vault[d].head,
                                  !.text = vault[d].text, !.from = vault[d].ver]
  <2>1. vault[d] \in Vault /\ push[d] \in PushType
    BY <1>1
  <2>2. o \in PushType /\ o.head = vault[d].head
    BY <2>1 DEF Vault
  <2>3. IdlePush.pc # "put"
    BY DEF IdlePush
  <2> HIDE DEF PushType, Pushes
  <2> QED
    BY <1>1, <1>2, <1>5, <2>2, <2>3 DEF PushSnapshot
<1>6. ASSUME PutAccepted(d)
      PROVE  Pushes /\ Rows /\ UNCHANGED <<vault, cloud>>
  <2> DEFINE o == push[d]
             row == [text |-> o.text, pending |-> FALSE, base |-> NoDoc, seq |-> seq + 1]
  <2>1. o \in PushType /\ o.head \in Ids
    BY <1>1, <1>6 DEF PutAccepted
  <2>2. row \in Row /\ row.seq = seq + 1
    BY <1>1, <2>1 DEF Row
  <2>3. /\ rows' = With(Without(rows, Pushed(rows)), o.head, row)
        /\ seq' = seq + 1 /\ order' = o.stamp /\ from' = o.from
    BY <1>6 DEF PutAccepted, Replaced
  <2>4. Rows
    <3> HIDE DEF row
    <3>1. IsRows(rows') /\ Counted(rows', seq')
      BY <1>1, <2>1, <2>2, <2>3, ReplaceRows
    <3> QED
      BY <1>1, <2>1, <2>3, <3>1
  <2>5. IdlePush.pc # "put"
    BY DEF IdlePush
  <2> HIDE DEF PushType, Pushes, Rows
  <2> QED
    BY <1>1, <1>2, <1>6, <2>4, <2>5 DEF PutAccepted
<1>7. ASSUME PushStop(d)
      PROVE  Pushes /\ UNCHANGED <<server, vault, cloud>>
  <2>1. IdlePush.pc # "put"
    BY DEF IdlePush
  <2> HIDE DEF PushType, Pushes
  <2> QED
    BY <1>1, <1>2, <1>7, <2>1 DEF PushStop
<1>8. UNCHANGED <<app, down, lastId, saved, discarded>>
  BY DEF PushStep, AutoPush, ManualPush, PushStart, PushSnapshot, PutAccepted, PushStop
<1> HIDE DEF Pushes, Vaults, Rows
<1>9. Pushes /\ (Vaults \/ UNCHANGED <<vault, cloud>>) /\ (Rows \/ UNCHANGED server)
  BY <1>4, <1>5, <1>6, <1>7 DEF PushStep
<1> QED
  BY <1>1, <1>8, <1>9 DEF TypeInv, DocsTypeOK, CallsOK, Pushes, Vaults, Rows, server, Counted

\* No step breaks the types or the count.
LEMMA NextTypes == TypeInv /\ [DocsNext]_vars => TypeInv'
<1> SUFFICES ASSUME TypeInv, [DocsNext]_vars PROVE TypeInv'
  OBVIOUS
<1>1. CASE UNCHANGED vars
  BY <1>1 DEF vars, server, device, TypeInv, DocsTypeOK, CallsOK, Counted, HasNewest, Newest,
              Pushed, IsRows, IsDown
<1>2. CASE DocsNext
  BY <1>2, AppTypes, SyncTypes, DownTypes, PushTypes DEF DocsNext
<1> QED
  BY <1>1, <1>2

\* In every reachable state the connector's rows are typed and it has at most
\* one pushed document to serve: acks, discards and pushes of any number of
\* devices give every pushed row a counter value of its own.
THEOREM RowsAreSound == DocsSpec => []DocsInv
<1>1. TypeInv => DocsInv
  BY CountedIsOne DEF TypeInv, DocsTypeOK, DocsInv, NeverSeveral
<1> QED
  BY <1>1, InitTypes, NextTypes, PTL DEF DocsSpec

-----------------------------------------------------------------------------
(* The order of the pushes.                                                *)

VersionsGrow ==
    /\ cloud'.ver \in Nat /\ cloud.ver <= cloud'.ver
    /\ \A e \in Devices : vault[e].ver <= vault'[e].ver /\ vault'[e].ver <= cloud'.ver

\* Versions only grow, and a device is never ahead of the sync server.
LEMMA StepVersionsGrow ==
    ASSUME TypeInv, VersionsRead, [DocsNext]_vars
    PROVE  VersionsGrow
<1>1. /\ cloud.ver \in Nat /\ \A e \in Devices : vault[e] \in Vault /\ vault[e].ver \in Nat
      /\ vault \in [Devices -> Vault]
      /\ \A e \in Devices : vault[e].ver <= cloud.ver
  BY DEF TypeInv, DocsTypeOK, Vault, Cloud, VersionsRead
<1>2. CASE UNCHANGED <<vault, cloud>>
  BY <1>1, <1>2 DEF VersionsGrow
<1>3. ASSUME NEW d \in Devices, NEW v, v.ver = vault[d].ver, UNCHANGED cloud,
             vault' = [vault EXCEPT ![d] = v]
      PROVE  VersionsGrow
  BY <1>1, <1>3 DEF VersionsGrow
<1>4. ASSUME NEW d \in Devices, Uploaded(d)
      PROVE  VersionsGrow
  <2>1. cloud'.ver = cloud.ver + 1
    BY <1>4 DEF Uploaded
  <2>2. \A e \in Devices : vault'[e].ver = IF e = d THEN cloud.ver + 1 ELSE vault[e].ver
    BY <1>1, <1>4 DEF Uploaded, Vault
  <2> QED
    BY <1>1, <2>1, <2>2 DEF VersionsGrow
<1>5. ASSUME NEW d \in Devices, Adopt(d), UNCHANGED cloud
      PROVE  VersionsGrow
  BY <1>1, <1>5 DEF Adopt, VersionsGrow
<1>6. ASSUME NEW v \in Vault, NEW id, NEW text
      PROVE  Installed(v, id, text).ver = v.ver
  BY DEF Installed, Vault
<1>7. ASSUME NEW d \in Devices, SyncStep(d)
      PROVE  VersionsGrow
  BY <1>1, <1>3, <1>4, <1>5, <1>6, <1>7
     DEF SyncStep, LocalEdit, SyncPush, SyncPull, TakeOtherVault
<1>8. ASSUME NEW d \in Devices, DownStep(d)
      PROVE  VersionsGrow
  <2>1. CASE KeepMine(d)
    <3> DEFINE new == Conflicts(d) \ vault[d].notes
               v == [vault[d] EXCEPT !.dirty = vault[d].dirty \/ new # {},
                                     !.notes = vault[d].notes \cup new,
                                     !.kept = vault[d].kept
                                              \cup UNION {down[d].row[i].text : i \in new}]
    <3>1. vault' = [vault EXCEPT ![d] = v] /\ UNCHANGED cloud
      BY ONLY <2>1, ZenonT(20) DEF KeepMine
    <3>2. v.ver = vault[d].ver
      BY <1>1 DEF Vault
    <3> HIDE DEF v
    <3> QED
      BY <1>3, <3>1, <3>2
  <2>2. ASSUME NEW i \in Waiting(d), ApplyDown(d, i) \/ TakeTheirs(d, i)
        PROVE  VersionsGrow
    BY <1>1, <1>3, <1>6, <2>2 DEF ApplyDown, TakeTheirs
  <2> QED
    BY <1>2, <1>8, <2>1, <2>2
       DEF DownStep, DownStart, DownFetch, SettleDown, DiscardPending, AckEntry, DownStop
<1>9. ASSUME NEW d \in Devices, PushStep(d)
      PROVE  VersionsGrow
  BY <1>2, <1>4, <1>9
     DEF PushStep, AutoPush, ManualPush, PushSnapshot, PutAccepted, PushStop
<1>10. CASE (\E a \in Apps : AppStep(a)) \/ UNCHANGED vars
  BY <1>2, <1>10 DEF AppStep, ReadSeq, ReadRows, WriteRows, WriteRefused, device, vars
<1> QED
  BY <1>7, <1>8, <1>9, <1>10 DEF DocsNext

\* No step leaves a push, or the connector's order, with a version that was
\* not read.
LEMMA VersionsKept ==
    ASSUME TypeInv, VersionsRead, [DocsNext]_vars
    PROVE  VersionsRead'
<1>1. VersionsGrow
  BY StepVersionsGrow
<1>2. /\ order \in Nat /\ from \in Nat /\ cloud.ver \in Nat
      /\ \A d \in Devices : vault[d].ver \in Nat /\ vault'[d].ver \in Nat
                            /\ push[d].stamp \in Nat /\ push[d].from \in Nat
      /\ DOMAIN push = Devices
  <2>1. TypeInv'
    BY NextTypes
  <2> QED
    BY <2>1 DEF TypeInv, DocsTypeOK, Vault, Cloud
<1>3. CASE UNCHANGED <<order, from, push>>
  BY <1>1, <1>2, <1>3 DEF VersionsRead, VersionsGrow
<1>4. ASSUME NEW d \in Devices, PushStep(d)
      PROVE  VersionsRead'
  <2> DEFINE PushOK(q, v) == /\ q.pc = "snapshot" => q.stamp <= v.ver
                             /\ q.pc = "put" => q.stamp <= q.from
  <2>1. ASSUME NEW o, push' = [push EXCEPT ![d] = o], PushOK(o, vault'[d]), order' <= from'
        PROVE  VersionsRead'
    BY <1>1, <1>2, <2>1 DEF VersionsRead, VersionsGrow
  <2>2. PushOK(IdlePush, vault'[d]) /\ order <= from
    BY DEF IdlePush, VersionsRead
  <2>3. CASE AutoPush(d) \/ ManualPush(d)
    <3>1. vault'[d].ver = cloud'.ver
      <4>1. CASE Uploaded(d)
        <5>1. vault[d] \in Vault /\ DOMAIN vault = Devices
          BY DEF TypeInv, DocsTypeOK
        <5> QED
          BY <4>1, <5>1 DEF Uploaded, Vault
      <4>2. CASE InSync(d) /\ UNCHANGED <<vault, cloud>>
        BY <4>2 DEF InSync
      <4> QED
        BY <2>3, <4>1, <4>2 DEF AutoPush, ManualPush
    <3>2. push' = [push EXCEPT ![d] = [IdlePush EXCEPT !.pc = "snapshot", !.stamp = cloud'.ver]]
          /\ UNCHANGED <<order, from>>
      BY <2>3 DEF AutoPush, ManualPush, PushStart, server
    <3>3. PushOK([IdlePush EXCEPT !.pc = "snapshot", !.stamp = cloud'.ver], vault'[d])
      BY <1>2, <3>1 DEF IdlePush
    <3> HIDE DEF PushOK
    <3> QED
      BY <2>1, <2>2, <3>2, <3>3
  <2>4. CASE PushSnapshot(d)
    <3> DEFINE o == [push[d] EXCEPT !.pc = "put", !.head = vault[d].head,
                                    !.text = vault[d].text, !.from = vault[d].ver]
    <3>1. push' = [push EXCEPT ![d] = IdlePush] \/ push' = [push EXCEPT ![d] = o]
      BY <2>4 DEF PushSnapshot
    <3>2. PushOK(o, vault'[d])
      <4>1. push[d].pc = "snapshot" /\ push[d].stamp <= vault[d].ver
        BY <2>4 DEF PushSnapshot, VersionsRead
      <4>2. push[d] \in [pc : {"idle", "snapshot", "put"}, stamp : Nat,
                         head : Ids \cup {NoDoc}, text : Texts, from : Nat]
        BY DEF TypeInv, DocsTypeOK
      <4> QED
        BY <4>1, <4>2
    <3>3. order' <= from'
      BY <2>2, <2>4 DEF PushSnapshot, server
    <3> HIDE DEF PushOK, o
    <3> QED
      BY <2>1, <2>2, <3>1, <3>2, <3>3
  <2>5. CASE PutAccepted(d)
    <3>1. order' <= from' /\ push' = [push EXCEPT ![d] = IdlePush]
      BY <2>5 DEF PutAccepted, VersionsRead
    <3> HIDE DEF PushOK
    <3> QED
      BY <2>1, <2>2, <3>1
  <2>6. CASE PushStop(d)
    <3>1. order' <= from' /\ push' = [push EXCEPT ![d] = IdlePush]
      BY <2>2, <2>6 DEF PushStop, server
    <3> HIDE DEF PushOK
    <3> QED
      BY <2>1, <2>2, <3>1
  <2> QED
    BY <1>4, <2>3, <2>4, <2>5, <2>6 DEF PushStep
<1>5. ASSUME NEW a \in Apps, AppStep(a)
      PROVE  UNCHANGED <<order, from, push>>
  BY <1>5 DEF AppStep, ReadSeq, ReadRows, WriteRows, WriteRefused, server, device
<1>6. ASSUME NEW d \in Devices, SyncStep(d)
      PROVE  UNCHANGED <<order, from, push>>
  BY <1>6 DEF SyncStep, LocalEdit, SyncPush, SyncPull, TakeOtherVault, server
<1>7. ASSUME NEW d \in Devices, DownStep(d)
      PROVE  UNCHANGED <<order, from, push>>
  BY <1>7 DEF DownStep, DownStart, DownFetch, SettleDown, KeepMine, ApplyDown, TakeTheirs,
              DiscardPending, AckEntry, DownStop, server
<1>8. CASE UNCHANGED vars
  BY <1>3, <1>8 DEF vars, server, device
<1> QED
  BY <1>3, <1>4, <1>5, <1>6, <1>7, <1>8 DEF DocsNext

\* The entries the connector serves were read from a vault at least as new as
\* the version they are ordered by.
THEOREM StampsAreTruthful == DocsSpec => []StampIsTruthful
<1>1. VersionsRead => StampIsTruthful
  BY DEF VersionsRead, StampIsTruthful
<1> QED
  BY <1>1, InitTypes, NextTypes, VersionsKept, PTL DEF DocsSpec

-----------------------------------------------------------------------------
(* An app's write and the head it read.                                    *)

\* Rows, vaults and requests carry names already given out.
NamesUsed ==
    /\ DOMAIN rows \subseteq 1..lastId
    /\ cloud.head <= lastId
    /\ \A d \in Devices : vault[d].head <= lastId /\ down[d].local <= lastId
                          /\ push[d].head <= lastId

\* An app whose counter is still the scope's holds the head the scope serves.
HeadsRead ==
    \A a \in Apps :
        /\ app[a].seq <= seq
        /\ app[a].pc = "rows" => app[a].head = NoDoc
        /\ app[a].head = NoDoc => app[a].row = NoRow
        /\ (app[a].pc = "write" /\ app[a].seq = seq) =>
             \/ app[a].head = NoDoc /\ DOMAIN rows = {}
             \/ app[a].head = Served(rows) /\ app[a].row = rows[Served(rows)]

\* What a device does changes no app's call and no promise made to an app.
LEMMA DevicesLeaveApps ==
    ASSUME NEW d \in Devices, SyncStep(d) \/ DownStep(d) \/ PushStep(d)
    PROVE  UNCHANGED <<app, saved>>
<1>1. CASE SyncStep(d)
  BY <1>1 DEF SyncStep, LocalEdit, SyncPush, SyncPull, TakeOtherVault
<1>2. CASE DownStep(d)
  BY <1>2 DEF DownStep, DownStart, DownFetch, SettleDown, KeepMine, ApplyDown, TakeTheirs,
              DiscardPending, AckEntry, DownStop
<1>3. CASE PushStep(d)
  BY <1>3 DEF PushStep, AutoPush, ManualPush, PushStart, PushSnapshot, PutAccepted, PushStop
<1> QED
  BY <1>1, <1>2, <1>3

LEMMA InitNames == DocsInit => NamesUsed /\ HeadsRead
<1> SUFFICES ASSUME DocsInit PROVE NamesUsed /\ HeadsRead
  OBVIOUS
<1>1. PICK first \in {NoDoc, 1} :
         LET text == IF first = NoDoc THEN {} ELSE {1} IN
         /\ rows = [i \in text |-> [text |-> text, pending |-> FALSE,
                                    base |-> NoDoc, seq |-> 1]]
         /\ seq = first
         /\ vault = [d \in Devices |-> [head |-> first, text |-> text, kept |-> text,
                                        notes |-> {}, ver |-> 1, dirty |-> FALSE]]
         /\ cloud = [head |-> first, text |-> text, kept |-> text, notes |-> {}, ver |-> 1]
  BY DEF DocsInit
<1>2. first \in {0, 1} /\ lastId = 1
  BY <1>1 DEF NoDoc, DocsInit
<1>3. DOMAIN rows \subseteq {1}
  BY <1>1
<1>4. \A d \in Devices : down[d].local = 0 /\ push[d].head = 0 /\ vault[d].head = first
  BY <1>1 DEF DocsInit, IdleDown, IdlePush, NoDoc
<1>5. \A a \in Apps : app[a].seq = 0 /\ app[a].pc = "idle" /\ app[a].row = NoRow
  BY DEF DocsInit, IdleApp
<1>6. cloud.head = first /\ seq \in Nat
  BY <1>1, <1>2
<1> QED
  BY <1>2, <1>3, <1>4, <1>5, <1>6 DEF NamesUsed, HeadsRead

\* The rows change only with the counter.
LEMMA RowsMoveWithSeq ==
    ASSUME TypeInv, [DocsNext]_vars
    PROVE  UNCHANGED <<rows, seq>> \/ seq' = seq + 1
<1>1. IsRows(rows)
  BY DEF TypeInv, DocsTypeOK
<1>2. ASSUME NEW d \in Devices, DiscardPending(d)
      PROVE  UNCHANGED <<rows, seq>> \/ seq' = seq + 1
  <2>1. Without(rows, {}) = rows
    BY <1>1 DEF Without, IsRows
  <2> QED
    BY <1>2, <2>1 DEF DiscardPending
<1>3. ASSUME NEW d \in Devices, AckEntry(d)
      PROVE  UNCHANGED <<rows, seq>> \/ seq' = seq + 1
  BY <1>3 DEF AckEntry, AckedRows
<1>4. ASSUME NEW a \in Apps, AppStep(a)
      PROVE  UNCHANGED <<rows, seq>> \/ seq' = seq + 1
  BY <1>4 DEF AppStep, ReadSeq, ReadRows, WriteRows, WriteRefused, server
<1>5. ASSUME NEW d \in Devices, SyncStep(d) \/ DownStep(d) \/ PushStep(d)
      PROVE  UNCHANGED <<rows, seq>> \/ seq' = seq + 1
  BY <1>2, <1>3, <1>5
     DEF server, SyncStep, LocalEdit, SyncPush, SyncPull, TakeOtherVault, DownStep, DownStart,
         DownFetch, SettleDown, KeepMine, ApplyDown, TakeTheirs, DownStop, PushStep, AutoPush,
         ManualPush, PushStart, PushSnapshot, PutAccepted, PushStop
<1>6. CASE UNCHANGED vars
  BY <1>6 DEF vars, server
<1> QED
  BY <1>4, <1>5, <1>6 DEF DocsNext

LEMMA HeadsKept ==
    ASSUME TypeInv, HeadsRead, [DocsNext]_vars
    PROVE  HeadsRead'
<1>1. /\ DOMAIN app = Apps /\ seq \in Nat /\ \A a \in Apps : app[a].seq \in Nat
      /\ app \in [Apps -> [pc : {"idle", "rows", "write"}, seq : Nat,
                           head : Ids \cup {NoDoc}, row : Row]]
  BY DEF TypeInv, DocsTypeOK
<1>2. UNCHANGED <<rows, seq>> \/ seq' = seq + 1
  BY RowsMoveWithSeq
<1>3. CASE UNCHANGED app
  BY <1>1, <1>2, <1>3 DEF HeadsRead
<1>4. ASSUME NEW a \in Apps, AppStep(a)
      PROVE  HeadsRead'
  <2> DEFINE Good(o) == /\ o.seq <= seq
                        /\ o.pc = "rows" => o.head = NoDoc
                        /\ o.head = NoDoc => o.row = NoRow
                        /\ (o.pc = "write" /\ o.seq = seq) =>
                             \/ o.head = NoDoc /\ DOMAIN rows = {}
                             \/ o.head = Served(rows) /\ o.row = rows[Served(rows)]
  <2>1. ASSUME NEW o, app' = [app EXCEPT ![a] = o], o.pc = "write" => UNCHANGED <<rows, seq>>,
               o.seq \in Nat, Good(o)
        PROVE  HeadsRead'
    BY <1>1, <1>2, <2>1 DEF HeadsRead
  <2>2. IdleApp.pc # "write" /\ IdleApp.seq = 0 /\ Good(IdleApp)
    BY <1>1 DEF IdleApp
  <2>3. CASE ReadSeq(a)
    <3> DEFINE o == [IdleApp EXCEPT !.pc = "rows", !.seq = seq]
    <3>1. o.pc = "rows" /\ o.seq = seq /\ Good(o)
      BY <1>1 DEF IdleApp
    <3>2. app' = [app EXCEPT ![a] = o]
      BY <2>3 DEF ReadSeq
    <3> HIDE DEF o, Good
    <3> QED
      BY <1>1, <2>1, <3>1, <3>2
  <2>4. CASE ReadRows(a)
    <3>1. UNCHANGED <<rows, seq>>
      BY <2>4 DEF ReadRows, server
    <3>2. CASE app' = [app EXCEPT ![a] = IdleApp]
      <4>1. IdleApp.seq \in Nat
        BY <2>2
      <4> HIDE DEF Good
      <4> QED
        BY <2>1, <2>2, <3>2, <4>1
    <3>3. CASE Served(rows) # NoDoc /\ app' = [app EXCEPT ![a] =
                 [@ EXCEPT !.pc = "write", !.head = Served(rows), !.row = rows[Served(rows)]]]
      <4> DEFINE o == [app[a] EXCEPT !.pc = "write", !.head = Served(rows),
                                     !.row = rows[Served(rows)]]
      <4>1. o.seq = app[a].seq /\ o.head = Served(rows) /\ o.row = rows[Served(rows)]
        BY <1>1
      <4>2. Good(o) /\ o.seq \in Nat
        BY <1>1, <3>3, <4>1 DEF HeadsRead
      <4> HIDE DEF o, Good
      <4> QED
        BY <2>1, <3>1, <3>3, <4>2 DEF o
    <3>4. CASE DOMAIN rows = {} /\ app' = [app EXCEPT ![a].pc = "write"]
      <4>1. \A b \in Apps : app'[b].seq = app[b].seq /\ app'[b].head = app[b].head
                            /\ app'[b].row = app[b].row /\ (b # a => app'[b] = app[b])
        BY <1>1, <3>4
      <4>2. app[a].head = NoDoc
        BY <2>4 DEF ReadRows, HeadsRead
      <4> QED
        BY <3>1, <3>4, <4>1, <4>2 DEF HeadsRead
    <3> QED
      BY <2>4, <3>2, <3>3, <3>4 DEF ReadRows
  <2>5. CASE WriteRows(a) \/ WriteRefused(a)
    BY <2>1, <2>2, <2>5 DEF WriteRows, WriteRefused
  <2> QED
    BY <1>4, <2>3, <2>4, <2>5 DEF AppStep
<1>5. CASE ~\E a \in Apps : AppStep(a)
  <2>1. UNCHANGED app
    BY <1>5, DevicesLeaveApps DEF DocsNext, vars
  <2> QED
    BY <1>3, <2>1
<1> QED
  BY <1>4, <1>5

\* The names move on together: no step uses one that was not given out.
LEMMA NamesKept ==
    ASSUME TypeInv, NamesUsed, [DocsNext]_vars
    PROVE  NamesUsed'
<1> USE DocsAssumption
<1>1. /\ IsRows(rows) /\ IsRows(rows') /\ lastId \in Ids /\ lastId' \in Ids /\ Ids \subseteq Nat
      /\ cloud.head \in Nat /\ cloud'.head \in Nat
      /\ \A d \in Devices : /\ vault[d].head \in Nat /\ down[d].local \in Nat /\ push[d].head \in Nat
                            /\ vault'[d].head \in Nat /\ down'[d].local \in Nat
                            /\ push'[d].head \in Nat
                            /\ vault[d] \in Vault
      /\ DOMAIN vault = Devices /\ DOMAIN down = Devices /\ DOMAIN push = Devices
  <2>1. TypeInv'
    BY NextTypes
  <2>2. Ids \subseteq Nat /\ NoDoc \in Nat
    BY DEF Ids, NoDoc
  <2>3. /\ IsRows(rows) /\ lastId \in Ids /\ cloud.head \in Nat
        /\ \A d \in Devices : /\ vault[d].head \in Nat /\ push[d].head \in Nat /\ vault[d] \in Vault
                              /\ IsDown(down[d])
        /\ DOMAIN vault = Devices /\ DOMAIN down = Devices /\ DOMAIN push = Devices
    BY <2>2 DEF TypeInv, DocsTypeOK, Vault, Cloud
  <2>4. /\ IsRows(rows') /\ lastId' \in Ids /\ cloud'.head \in Nat
        /\ \A d \in Devices : vault'[d].head \in Nat /\ push'[d].head \in Nat /\ IsDown(down'[d])
    <3>1. DocsTypeOK'
      BY <2>1 DEF TypeInv
    <3> QED
      BY <2>2, <3>1 DEF DocsTypeOK, Vault, Cloud
  <2>5. \A q : IsDown(q) => q.local \in Nat
    BY <2>2 DEF IsDown
  <2> QED
    BY <2>2, <2>3, <2>4, <2>5
<1>2. ASSUME lastId <= lastId', DOMAIN rows' \subseteq 1..lastId', cloud'.head <= lastId',
             \A d \in Devices : vault'[d].head <= lastId' /\ down'[d].local <= lastId'
                                /\ push'[d].head <= lastId'
      PROVE  NamesUsed'
  BY <1>2 DEF NamesUsed
<1>3. CASE UNCHANGED vars
  BY <1>3 DEF vars, server, device, NamesUsed
<1>4. ASSUME NEW a \in Apps, AppStep(a)
      PROVE  NamesUsed'
  <2>1. UNCHANGED device
    BY <1>4 DEF AppStep, ReadSeq, ReadRows, WriteRows, WriteRefused
  <2>2. CASE UNCHANGED <<rows, lastId>>
    BY <2>1, <2>2 DEF device, NamesUsed
  <2>3. CASE WriteRows(a)
    <3>1. lastId' = lastId + 1
      BY <2>3 DEF WriteRows, Next_
    <3>2. DOMAIN rows' \subseteq DOMAIN rows \cup {lastId'}
      BY <2>3, <3>1 DEF WriteRows, With, Without, Next_
    <3> QED
      BY <1>1, <1>2, <2>1, <3>1, <3>2 DEF device, NamesUsed
  <2> QED
    BY <1>4, <2>2, <2>3 DEF AppStep, ReadSeq, ReadRows, WriteRefused, server
<1>5. ASSUME NEW d \in Devices, SyncStep(d)
      PROVE  NamesUsed'
  <2>1. UNCHANGED <<rows, down, push>>
    BY <1>5 DEF SyncStep, LocalEdit, SyncPush, SyncPull, TakeOtherVault, server
  <2>2. CASE LocalEdit(d)
    <3>1. lastId' = lastId + 1 /\ UNCHANGED cloud
      BY <2>2 DEF LocalEdit, Next_
    <3>2. \A e \in Devices : vault'[e].head \in {vault[e].head, lastId'}
      BY <1>1, <2>2, <3>1 DEF LocalEdit, Installed, Vault, Next_
    <3> QED
      BY <1>1, <1>2, <2>1, <3>1, <3>2 DEF NamesUsed
  <2>3. CASE Uploaded(d) /\ UNCHANGED lastId
    <3>1. cloud'.head = vault[d].head /\ \A e \in Devices : vault'[e].head = vault[e].head
      BY <1>1, <2>3 DEF Uploaded, Vault
    <3> QED
      BY <1>1, <1>2, <2>1, <2>3, <3>1 DEF NamesUsed
  <2>4. CASE Adopt(d) /\ UNCHANGED <<cloud, lastId>>
    <3>1. \A e \in Devices : vault'[e].head \in {vault[e].head, cloud.head}
      BY <1>1, <2>4 DEF Adopt
    <3> QED
      BY <1>1, <1>2, <2>1, <2>4, <3>1 DEF NamesUsed
  <2> QED
    BY <1>5, <2>2, <2>3, <2>4 DEF SyncStep, SyncPush, SyncPull, TakeOtherVault
<1>6. ASSUME NEW d \in Devices, DownStep(d)
      PROVE  NamesUsed'
  <2>1. UNCHANGED <<cloud, push>>
    BY <1>6 DEF DownStep, DownStart, DownFetch, SettleDown, KeepMine, ApplyDown, TakeTheirs,
                DiscardPending, AckEntry, DownStop
  <2>2. ASSUME NEW o, down' = [down EXCEPT ![d] = o], o.local \in {NoDoc, down[d].local, vault[d].head},
               UNCHANGED lastId, \A e \in Devices : vault'[e].head = vault[e].head,
               DOMAIN rows' \subseteq DOMAIN rows \cup {down[d].local}
        PROVE  NamesUsed'
    <3>1. \A e \in Devices : down'[e].local <= lastId
      BY <1>1, <2>2 DEF NamesUsed, NoDoc
    <3>2. DOMAIN rows' \subseteq 1..lastId
      BY <1>1, <2>2 DEF NamesUsed, IsRows, Ids
    <3> QED
      BY <1>1, <1>2, <2>1, <2>2, <3>1, <3>2 DEF NamesUsed
  <2> HIDE DEF DownStep
  <2>3. ASSUME NEW goal, DownStart(d, goal)
        PROVE  NamesUsed'
    <3>1. [IdleDown EXCEPT !.pc = "fetch", !.goal = goal].local = NoDoc
      BY DEF IdleDown
    <3> QED
      BY <2>2, <2>3, <3>1 DEF DownStart, server
  <2>4. CASE DownFetch(d)
    <3> DEFINE o == [down[d] EXCEPT !.pc = "plan", !.row = Without(rows, Pushed(rows))]
    <3>1. o.local = down[d].local
      BY <1>6 DEF TypeInv, DocsTypeOK, IsDown
    <3> HIDE DEF o
    <3> QED
      BY <2>2, <2>4, <3>1 DEF DownFetch, server, o
  <2>5. CASE SettleDown(d)
    <3> DEFINE o == [down[d] EXCEPT !.pc = AfterSave(Discards(d)),
                  !.acked = IF Dedupes(d) = {} THEN NoDoc ELSE Served(rows),
                  !.local = vault[d].head, !.discards = Discards(d)]
    <3>1. o.local = vault[d].head
      BY DEF TypeInv, DocsTypeOK, IsDown
    <3> HIDE DEF o
    <3> QED
      BY <2>2, <2>5, <3>1 DEF SettleDown, server, o
  <2>6. CASE KeepMine(d)
    <3> DEFINE o == [down[d] EXCEPT !.pc = "discard", !.discards = Conflicts(d)]
               new == Conflicts(d) \ vault[d].notes
               v == [vault[d] EXCEPT !.dirty = vault[d].dirty \/ new # {},
                                     !.notes = vault[d].notes \cup new,
                                     !.kept = vault[d].kept
                                              \cup UNION {down[d].row[i].text : i \in new}]
    <3>1. vault' = [vault EXCEPT ![d] = v] /\ down' = [down EXCEPT ![d] = o]
      BY ONLY <2>6, ZenonT(20) DEF KeepMine
    <3>2. v.head = vault[d].head
      BY <1>1 DEF Vault
    <3>3. o.local = down[d].local
      BY DEF TypeInv, DocsTypeOK, IsDown
    <3>4. UNCHANGED <<rows, lastId>>
      BY <2>6 DEF KeepMine, server
    <3> HIDE DEF v, o
    <3>5. \A e \in Devices : vault'[e].head = vault[e].head
      BY <1>1, <3>1, <3>2
    <3> QED
      BY <2>2, <3>1, <3>3, <3>4, <3>5
  <2>7. ASSUME NEW i, ApplyDown(d, i) \/ TakeTheirs(d, i)
        PROVE  NamesUsed'
    <3>1. lastId' = lastId + 1 /\ UNCHANGED rows
      BY <2>7 DEF ApplyDown, TakeTheirs, Next_, server
    <3>2. \A e \in Devices : vault'[e].head \in {vault[e].head, lastId'}
      <4>1. ASSUME NEW text
            PROVE  Installed(vault[d], Next_, text).head = Next_
        BY <1>1 DEF Installed, Vault
      <4>2. lastId' = Next_ /\ \A e \in Devices \ {d} : vault'[e] = vault[e]
        BY <1>1, <2>7, <3>1 DEF ApplyDown, TakeTheirs, Next_
      <4> HIDE DEF Next_
      <4>3. vault'[d].head = Next_
        BY <1>1, <2>7, <4>1 DEF ApplyDown, TakeTheirs
      <4> QED
        BY <4>2, <4>3
    <3>3. \A e \in Devices : down'[e].local \in {down[e].local, lastId'}
      <4> DEFINE o == [down[d] EXCEPT !.pc = AfterSave(Discards(d)), !.acked = i,
                                      !.local = Next_, !.discards = Discards(d)]
                 p == [down[d] EXCEPT !.pc = AfterSave({}), !.acked = i, !.local = Next_]
      <4>1. IsDown(down[d])
        BY DEF TypeInv, DocsTypeOK
      <4>2. o.local = Next_ /\ p.local = Next_
        BY <4>1 DEF IsDown
      <4>3. down' = [down EXCEPT ![d] = o] \/ down' = [down EXCEPT ![d] = p]
        BY <2>7 DEF ApplyDown, TakeTheirs
      <4>4. lastId' = Next_
        BY <3>1 DEF Next_
      <4> HIDE DEF o, p
      <4> QED
        BY <1>1, <4>2, <4>3, <4>4
    <3> QED
      BY <1>1, <1>2, <2>1, <3>1, <3>2, <3>3 DEF NamesUsed
  <2>8. CASE DiscardPending(d)
    <3>1. [down[d] EXCEPT !.pc = "ack"].local = down[d].local
      BY DEF TypeInv, DocsTypeOK, IsDown
    <3>2. DOMAIN rows' \subseteq DOMAIN rows
      BY <2>8 DEF DiscardPending, Without
    <3> QED
      BY <2>2, <2>8, <3>1, <3>2 DEF DiscardPending
  <2>9. CASE AckEntry(d) \/ DownStop(d)
    <3>1. IdleDown.local = NoDoc
      BY DEF IdleDown
    <3>2. DOMAIN rows' \subseteq DOMAIN rows \cup {down[d].local}
      BY <2>9 DEF AckEntry, AckedRows, With, Without, DownStop, server
    <3> QED
      BY <2>2, <2>9, <3>1, <3>2 DEF AckEntry, DownStop
  <2> QED
    BY <1>6, <2>3, <2>4, <2>5, <2>6, <2>7, <2>8, <2>9 DEF DownStep
<1>7. ASSUME NEW d \in Devices, PushStep(d)
      PROVE  NamesUsed'
  <2>1. UNCHANGED <<down, lastId>>
    BY <1>7 DEF PushStep, AutoPush, ManualPush, PushStart, PushSnapshot, PutAccepted, PushStop
  <2>2. ASSUME NEW o, push' = [push EXCEPT ![d] = o], o.head \in {NoDoc, vault[d].head},
               \A e \in Devices : vault'[e].head = vault[e].head,
               cloud'.head \in {cloud.head, vault[d].head},
               DOMAIN rows' \subseteq DOMAIN rows \cup {push[d].head}
        PROVE  NamesUsed'
    <3>1. \A e \in Devices : push'[e].head <= lastId
      BY <1>1, <2>2 DEF NamesUsed, NoDoc
    <3>2. DOMAIN rows' \subseteq 1..lastId
      BY <1>1, <2>2 DEF NamesUsed, IsRows, Ids
    <3> QED
      BY <1>1, <1>2, <2>1, <2>2, <3>1, <3>2 DEF NamesUsed
  <2>3. IdlePush.head = NoDoc
    BY DEF IdlePush
  <2>4. CASE AutoPush(d) \/ ManualPush(d)
    <3>1. UNCHANGED rows
      BY <2>4 DEF AutoPush, ManualPush, PushStart, server
    <3>2. [IdlePush EXCEPT !.pc = "snapshot", !.stamp = cloud'.ver].head = NoDoc
      BY DEF IdlePush
    <3>3. /\ \A e \in Devices : vault'[e].head = vault[e].head
          /\ cloud'.head \in {cloud.head, vault[d].head}
      <4>1. CASE Uploaded(d)
        BY <1>1, <4>1 DEF Uploaded, Vault
      <4>2. CASE UNCHANGED <<vault, cloud>>
        BY <4>2
      <4> QED
        BY <2>4, <4>1, <4>2 DEF AutoPush, ManualPush
    <3> QED
      BY <2>2, <2>4, <3>1, <3>2, <3>3 DEF AutoPush, ManualPush, PushStart
  <2>5. CASE PushSnapshot(d)
    <3> DEFINE o == [push[d] EXCEPT !.pc = "put", !.head = vault[d].head,
                                    !.text = vault[d].text, !.from = vault[d].ver]
    <3>1. o.head = vault[d].head
      BY DEF TypeInv, DocsTypeOK
    <3>2. push' = [push EXCEPT ![d] = IdlePush] \/ push' = [push EXCEPT ![d] = o]
      BY <2>5 DEF PushSnapshot
    <3>3. UNCHANGED <<rows, vault, cloud>>
      BY <2>5 DEF PushSnapshot, server
    <3> HIDE DEF o
    <3> QED
      BY <2>2, <2>3, <3>1, <3>2, <3>3
  <2>6. CASE PutAccepted(d) \/ PushStop(d)
    <3>1. DOMAIN rows' \subseteq DOMAIN rows \cup {push[d].head}
      BY <2>6 DEF PutAccepted, Replaced, With, Without, PushStop, server
    <3> QED
      BY <2>2, <2>3, <2>6, <3>1 DEF PutAccepted, PushStop
  <2> QED
    BY <1>7, <2>4, <2>5, <2>6 DEF PushStep
<1> QED
  BY <1>3, <1>4, <1>5, <1>6, <1>7 DEF DocsNext

\* A saved change is written over the very head the connector serves then: an
\* app's write that reads one head and replaces another is refused.
THEOREM UpdatesBuildOnTheServedHead == DocsSpec => UpdateBuildsOnServedHead
<1> DEFINE Inv == TypeInv /\ NamesUsed /\ HeadsRead
           Builds == saved' # saved =>
                       \E i \in DOMAIN rows' \ DOMAIN rows :
                         Served(rows) # NoDoc => rows[Served(rows)].text \subseteq rows'[i].text
<1>1. DocsInit => Inv
  BY InitTypes, InitNames
<1>2. Inv /\ [DocsNext]_vars => Inv'
  BY NextTypes, NamesKept, HeadsKept
<1>3. Inv /\ [DocsNext]_vars => [Builds]_vars
  <2> SUFFICES ASSUME Inv, [DocsNext]_vars, saved' # saved
               PROVE  Builds
    OBVIOUS
  <2>1. PICK a \in Apps : WriteRows(a)
    <3>1. saved' = saved \/ \E a \in Apps : AppStep(a)
      BY DevicesLeaveApps DEF DocsNext, vars
    <3> QED
      BY <3>1 DEF AppStep, ReadSeq, ReadRows, WriteRefused
  <2> DEFINE o == app[a]
             gone == IF o.row.pending /\ o.head \in DOMAIN rows /\ rows[o.head].pending
                     THEN {o.head} ELSE {}
             row == [text |-> o.row.text \cup {Next_}, pending |-> TRUE,
                     base |-> BaseFor(o), seq |-> seq + 1]
  <2>2. rows' = With(Without(rows, gone), Next_, row)
    BY <2>1 DEF WriteRows
  <2>3. Next_ \in DOMAIN rows' /\ rows'[Next_] = row
    BY <2>2 DEF With
  <2>4. Next_ \notin DOMAIN rows
    <3>1. lastId \in Nat /\ DOMAIN rows \subseteq 1..lastId
      BY DocsAssumption DEF TypeInv, DocsTypeOK, Ids, NamesUsed
    <3> QED
      BY <3>1 DEF Next_
  <2>5. ASSUME Served(rows) # NoDoc
        PROVE  rows[Served(rows)].text \subseteq row.text
    <3>1. DOMAIN rows # {}
      BY <2>5, ServedIsRow DEF TypeInv, DocsTypeOK
    <3>2. o.row = rows[Served(rows)]
      BY <2>1, <3>1 DEF WriteRows, HeadsRead
    <3> QED
      BY <3>2
  <2> QED
    BY <2>3, <2>4, <2>5
<1> QED
  BY <1>1, <1>2, <1>3, PTL DEF DocsSpec, UpdateBuildsOnServedHead

-----------------------------------------------------------------------------
(* The vaults keep what they ever held.                                    *)

\* The edits in some vault, or given up by the user.
Safe == cloud.kept \cup discarded \cup (UNION {vault[d].kept : d \in Devices})

VaultsKeep ==
    /\ cloud.text \subseteq cloud.kept
    /\ cloud.head = NoDoc => cloud.text = {}
    /\ \A d \in Devices :
         /\ vault[d].text \subseteq vault[d].kept
         /\ vault[d].head = NoDoc => vault[d].text = {}
         /\ ~vault[d].dirty => vault[d].kept \subseteq cloud.kept
         /\ vault[d].ver = cloud.ver => cloud.kept \subseteq vault[d].kept

Keeps == VaultsKeep' /\ Safe \subseteq Safe'

\* A vault file goes on from v to w on its device.
GoesOn(v, w) ==
    /\ w.ver = v.ver
    /\ v.kept \subseteq w.kept /\ w.text \subseteq w.kept
    /\ w.head = NoDoc => w.text = {}
    /\ w.dirty \/ (~v.dirty /\ w.kept = v.kept)

LEMMA InitKeeps == DocsInit => VaultsKeep
<1> SUFFICES ASSUME DocsInit PROVE VaultsKeep
  OBVIOUS
<1>1. PICK first \in {NoDoc, 1} :
         LET text == IF first = NoDoc THEN {} ELSE {1} IN
         /\ vault = [d \in Devices |-> [head |-> first, text |-> text, kept |-> text,
                                        notes |-> {}, ver |-> 1, dirty |-> FALSE]]
         /\ cloud = [head |-> first, text |-> text, kept |-> text, notes |-> {}, ver |-> 1]
  BY DEF DocsInit
<1> QED
  BY <1>1 DEF VaultsKeep

LEMMA InstalledGoesOn ==
    ASSUME NEW v \in Vault, NEW id, NEW text, id # NoDoc
    PROVE  GoesOn(v, Installed(v, id, text))
<1>1. /\ Installed(v, id, text).ver = v.ver /\ Installed(v, id, text).head = id
      /\ Installed(v, id, text).kept = v.kept \cup text /\ Installed(v, id, text).text = text
      /\ Installed(v, id, text).dirty = TRUE
  BY DEF Installed, Vault
<1> QED
  BY <1>1 DEF GoesOn

LEMMA GoingOnKeeps ==
    ASSUME TypeInv, VaultsKeep, NEW d \in Devices, NEW v, GoesOn(vault[d], v),
           vault' = [vault EXCEPT ![d] = v], UNCHANGED <<cloud, discarded>>
    PROVE  Keeps
<1>1. DOMAIN vault = Devices
  BY DEF TypeInv, DocsTypeOK
<1>2. vault'[d] = v /\ \A e \in Devices \ {d} : vault'[e] = vault[e]
  BY <1>1
<1>3. VaultsKeep'
  BY <1>2 DEF VaultsKeep, GoesOn
<1>4. \A e \in Devices : vault[e].kept \subseteq vault'[e].kept
  BY <1>2 DEF GoesOn
<1>5. Safe \subseteq Safe'
  BY <1>4 DEF Safe
<1> QED
  BY <1>3, <1>5 DEF Keeps

LEMMA UploadKeeps ==
    ASSUME TypeInv, VersionsRead, VaultsKeep, NEW d \in Devices, Uploaded(d), CanPush(d),
           UNCHANGED discarded
    PROVE  Keeps
<1>1. /\ DOMAIN vault = Devices /\ vault[d] \in Vault /\ cloud.ver \in Nat
      /\ \A e \in Devices : vault[e].ver \in Nat /\ vault[e].ver <= cloud.ver
  BY DEF TypeInv, DocsTypeOK, VersionsRead, Vault, Cloud
<1>2. /\ cloud'.head = vault[d].head /\ cloud'.text = vault[d].text /\ cloud'.kept = vault[d].kept
      /\ cloud'.ver = cloud.ver + 1
  BY DEF Uploaded
<1>3. /\ \A e \in Devices \ {d} : vault'[e] = vault[e]
      /\ vault'[d].head = vault[d].head /\ vault'[d].text = vault[d].text
      /\ vault'[d].kept = vault[d].kept
  BY <1>1 DEF Uploaded, Vault
<1>4. cloud.kept \subseteq vault[d].kept
  BY DEF CanPush, VaultsKeep
<1>5. VaultsKeep'
  BY <1>1, <1>2, <1>3, <1>4 DEF VaultsKeep
<1>6. Safe \subseteq Safe'
  <2>1. \A e \in Devices : vault'[e].kept = vault[e].kept
    BY <1>3
  <2> QED
    BY <1>2, <1>4, <2>1 DEF Safe
<1> QED
  BY <1>5, <1>6 DEF Keeps

LEMMA AdoptKeeps ==
    ASSUME TypeInv, VaultsKeep, NEW d \in Devices, Adopt(d), UNCHANGED cloud,
           \/ ~vault[d].dirty /\ UNCHANGED discarded
           \/ discarded' = discarded \cup (vault[d].kept \ cloud.kept)
    PROVE  Keeps
<1>1. DOMAIN vault = Devices
  BY DEF TypeInv, DocsTypeOK
<1>2. /\ \A e \in Devices \ {d} : vault'[e] = vault[e]
      /\ vault'[d].head = cloud.head /\ vault'[d].text = cloud.text
      /\ vault'[d].kept = cloud.kept
  BY <1>1 DEF Adopt
<1>3. VaultsKeep'
  BY <1>2 DEF VaultsKeep
<1>4. vault[d].kept \subseteq cloud.kept \cup discarded'
  BY DEF VaultsKeep
<1>5. discarded \subseteq discarded'
  OBVIOUS
<1>6. Safe \subseteq Safe'
  <2>1. cloud.kept \subseteq Safe' /\ discarded' \subseteq Safe'
    BY DEF Safe
  <2>2. \A e \in Devices : vault'[e].kept \subseteq Safe'
    BY DEF Safe
  <2>3. \A e \in Devices : vault[e].kept \subseteq Safe'
    BY <1>2, <1>4, <2>1, <2>2
  <2> QED
    BY <1>5, <2>1, <2>3 DEF Safe
<1> QED
  BY <1>3, <1>6 DEF Keeps

LEMMA UnchangedKeeps ==
    ASSUME VaultsKeep, UNCHANGED <<vault, cloud, discarded>>
    PROVE  Keeps
BY DEF VaultsKeep, Keeps, Safe

\* No step takes an edit out of the vaults unless the user gives it up.
LEMMA StepKeeps ==
    ASSUME TypeInv, VersionsRead, VaultsKeep, [DocsNext]_vars
    PROVE  Keeps
<1>1. CASE (\E a \in Apps : AppStep(a)) \/ UNCHANGED vars
  BY <1>1, UnchangedKeeps DEF AppStep, ReadSeq, ReadRows, WriteRows, WriteRefused, device, vars
<1>2. \A d \in Devices : vault[d] \in Vault
  BY DEF TypeInv, DocsTypeOK
<1>3. CanName => Next_ # NoDoc
  BY NextName, DocsAssumption DEF TypeInv, Ids, NoDoc
<1>4. ASSUME NEW d \in Devices, SyncStep(d)
      PROVE  Keeps
  <2>1. CASE LocalEdit(d)
    <3> HIDE DEF Next_
    <3>1. /\ vault' = [vault EXCEPT ![d] = Installed(vault[d], Next_, vault[d].text \cup {Next_})]
          /\ Next_ # NoDoc /\ UNCHANGED <<cloud, discarded>>
      BY <1>3, <2>1 DEF LocalEdit
    <3>2. GoesOn(vault[d], Installed(vault[d], Next_, vault[d].text \cup {Next_}))
      BY <1>2, <3>1, InstalledGoesOn
    <3> QED
      BY <3>1, <3>2, GoingOnKeeps
  <2>2. CASE SyncPush(d)
    BY <2>2, UploadKeeps DEF SyncPush
  <2>3. CASE SyncPull(d)
    BY <2>3, AdoptKeeps DEF SyncPull
  <2>4. CASE TakeOtherVault(d)
    BY <2>4, AdoptKeeps DEF TakeOtherVault
  <2> QED
    BY <1>4, <2>1, <2>2, <2>3, <2>4 DEF SyncStep
<1>5. ASSUME NEW d \in Devices, DownStep(d)
      PROVE  Keeps
  <2>1. CASE KeepMine(d)
    <3> DEFINE new == Conflicts(d) \ vault[d].notes
               v == [vault[d] EXCEPT !.dirty = vault[d].dirty \/ new # {},
                                     !.notes = vault[d].notes \cup new,
                                     !.kept = vault[d].kept
                                              \cup UNION {down[d].row[i].text : i \in new}]
    <3>1. vault' = [vault EXCEPT ![d] = v]
      BY ONLY <2>1, ZenonT(20) DEF KeepMine
    <3>2. UNCHANGED <<cloud, discarded>>
      BY <2>1 DEF KeepMine
    <3>3. GoesOn(vault[d], v)
      <4> DEFINE K == UNION {down[d].row[i].text : i \in new}
      <4>1. /\ v.ver = vault[d].ver /\ v.text = vault[d].text /\ v.head = vault[d].head
            /\ v.kept = vault[d].kept \cup K
        BY <1>2 DEF Vault
      <4>2. v.dirty = (vault[d].dirty \/ new # {})
        BY <1>2, ZenonT(20) DEF Vault
      <4>3. new = {} => K = {}
        OBVIOUS
      <4> HIDE DEF v, K, new
      <4> QED
        BY <4>1, <4>2, <4>3 DEF GoesOn, VaultsKeep
    <3> HIDE DEF v
    <3> QED
      BY <3>1, <3>2, <3>3, GoingOnKeeps
  <2>2. ASSUME NEW i \in Waiting(d), ApplyDown(d, i) \/ TakeTheirs(d, i)
        PROVE  Keeps
    <3> HIDE DEF Next_
    <3> DEFINE v == Installed(vault[d], Next_, down[d].row[i].text)
    <3>1. /\ vault' = [vault EXCEPT ![d] = v]
          /\ Next_ # NoDoc /\ UNCHANGED <<cloud, discarded>>
      BY <1>3, <2>2 DEF ApplyDown, TakeTheirs
    <3>2. GoesOn(vault[d], v)
      BY <1>2, <3>1, InstalledGoesOn
    <3> HIDE DEF v
    <3> QED
      BY <3>1, <3>2, GoingOnKeeps
  <2> QED
    BY <1>5, <2>1, <2>2, UnchangedKeeps
       DEF DownStep, DownStart, DownFetch, SettleDown, DiscardPending, AckEntry, DownStop
<1>6. ASSUME NEW d \in Devices, PushStep(d)
      PROVE  Keeps
  <2>1. CASE ManualPush(d)
    BY <2>1, UploadKeeps DEF ManualPush, PushStart
  <2> QED
    BY <1>6, <2>1, UnchangedKeeps DEF PushStep, AutoPush, PushStart, PushSnapshot, PutAccepted, PushStop
<1> QED
  BY <1>1, <1>4, <1>5, <1>6 DEF DocsNext

-----------------------------------------------------------------------------
(* One text for every id, for good.  T gives it for the ids up to n, and S *)
(* holds the edits that are safe.                                          *)

RowsTold(r, T, n) ==
    \A i \in DOMAIN r :
        /\ i <= n /\ r[i].text = T[i]
        /\ r[i].base # NoDoc => r[i].base <= n /\ T[r[i].base] \subseteq T[i]

PushedTold(r, T, S) == \A i \in Pushed(r) : T[i] \subseteq S

VaultTold(v, T, n) ==
    /\ v.head # NoDoc => v.head <= n /\ v.text = T[v.head]
    /\ \A k \in v.notes : k <= n /\ T[k] \subseteq v.kept

DownTold(q, T, n, S) ==
    /\ RowsTold(q.row, T, n)
    /\ \A i \in q.discards : i <= n /\ T[i] \subseteq S
    /\ q.acked # NoDoc => /\ q.acked <= n /\ q.local <= n
                          /\ T[q.acked] = T[q.local] /\ T[q.acked] \subseteq S

PushTold(q, T, n, S) ==
    q.head # NoDoc => q.head <= n /\ q.text = T[q.head] /\ q.text \subseteq S

Told(T, n, S) ==
    /\ RowsTold(rows, T, n) /\ PushedTold(rows, T, S)
    /\ VaultTold(cloud, T, n)
    /\ \A d \in Devices : /\ VaultTold(vault[d], T, n)
                          /\ DownTold(down[d], T, n, S)
                          /\ PushTold(push[d], T, n, S)

Texting == [Ids -> Texts]
TextInv == \E T \in Texting : Told(T, lastId, Safe)

Agree(T, U, n) == \A i \in Ids : i <= n => U[i] = T[i]

LEMMA InitTold == DocsInit => TextInv
<1> SUFFICES ASSUME DocsInit PROVE TextInv
  OBVIOUS
<1>1. PICK first \in {NoDoc, 1} :
         LET text == IF first = NoDoc THEN {} ELSE {1} IN
         /\ rows = [i \in text |-> [text |-> text, pending |-> FALSE,
                                    base |-> NoDoc, seq |-> 1]]
         /\ vault = [d \in Devices |-> [head |-> first, text |-> text, kept |-> text,
                                        notes |-> {}, ver |-> 1, dirty |-> FALSE]]
         /\ cloud = [head |-> first, text |-> text, kept |-> text, notes |-> {}, ver |-> 1]
  BY DEF DocsInit
<1> DEFINE text == IF first = NoDoc THEN {} ELSE {1}
           T == [i \in Ids |-> text]
<1>2. T \in Texting /\ (first # NoDoc => first \in Ids /\ T[first] = text) /\ lastId = 1
  BY <1>1, DocsAssumption DEF Texting, Texts, Ids, NoDoc, DocsInit
<1>3. text \subseteq Safe
  BY <1>1 DEF Safe
<1>4. \A i \in text : i = 1 /\ i \in Ids /\ T[i] = text
  BY <1>1, <1>2
<1> HIDE DEF T
<1>5. RowsTold(rows, T, 1)
  BY <1>1, <1>4 DEF RowsTold
<1>6. PushedTold(rows, T, Safe)
  BY <1>1, <1>3, <1>4 DEF PushedTold, Pushed
<1>7. VaultTold(cloud, T, 1) /\ \A d \in Devices : VaultTold(vault[d], T, 1)
  BY <1>1, <1>2, <1>4 DEF VaultTold, NoDoc
<1>8. \A d \in Devices : DownTold(down[d], T, 1, Safe) /\ PushTold(push[d], T, 1, Safe)
  BY DEF DocsInit, IdleDown, IdlePush, DownTold, PushTold, RowsTold
<1> QED
  BY <1>2, <1>5, <1>6, <1>7, <1>8 DEF TextInv, Told

LEMMA RetellRows ==
    ASSUME NEW r, IsRows(r), NEW T, NEW U, NEW n \in Nat, NEW k \in Nat, n <= k,
           Agree(T, U, n), RowsTold(r, T, n)
    PROVE  RowsTold(r, U, k)
<1> SUFFICES ASSUME NEW i \in DOMAIN r
             PROVE  /\ i <= k /\ r[i].text = U[i]
                    /\ r[i].base # NoDoc => r[i].base <= k /\ U[r[i].base] \subseteq U[i]
  BY DEF RowsTold
<1>1. i \in Ids /\ r[i].base \in Ids \cup {NoDoc} /\ Ids \subseteq Nat
  BY DEF IsRows, Row, Ids
<1>2. /\ i <= n /\ r[i].text = T[i]
      /\ r[i].base # NoDoc => r[i].base <= n /\ T[r[i].base] \subseteq T[i]
  BY DEF RowsTold
<1> QED
  BY <1>1, <1>2 DEF Agree

\* The same holds of later texts, ids and safe edits.
LEMMA Retell ==
    ASSUME TypeInv, NEW T, NEW U, NEW n \in Nat, NEW k \in Nat, n <= k, NEW S, NEW R, S \subseteq R,
           Agree(T, U, n), Told(T, n, S)
    PROVE  Told(U, k, R)
<1>1. /\ IsRows(rows) /\ cloud \in Cloud /\ Ids \subseteq Nat /\ DOMAIN rows \subseteq Ids
      /\ \A d \in Devices :
           /\ vault[d] \in Vault /\ IsDown(down[d]) /\ push[d].head \in Ids \cup {NoDoc}
           /\ down[d].acked # NoDoc => down[d].local # NoDoc
  BY DEF TypeInv, DocsTypeOK, Ids, IsRows, CallsOK
<1>0. \A i \in Ids : i <= n => i <= k /\ U[i] = T[i]
  <2>1. \A i \in Ids : i <= n => U[i] = T[i]
    BY DEF Agree
  <2>2. \A i \in Nat : i <= n => i <= k
    OBVIOUS
  <2> QED
    BY ONLY <2>1, <2>2, <1>1
<1>2. RowsTold(rows, U, k)
  BY <1>1, RetellRows DEF Told
<1>3. PushedTold(rows, U, R)
  <2>1. \A i \in Pushed(rows) : i \in Ids /\ i <= n /\ T[i] \subseteq S
    BY <1>1 DEF Told, PushedTold, RowsTold, Pushed
  <2> QED
    BY <1>0, <2>1 DEF PushedTold
<1>4. ASSUME NEW v, v.head \in Ids \cup {NoDoc}, v.notes \subseteq Ids, VaultTold(v, T, n)
      PROVE  VaultTold(v, U, k)
  <2>1. v.head # NoDoc => v.head <= k /\ v.text = U[v.head]
    BY <1>0, <1>4 DEF VaultTold
  <2>2. \A i \in v.notes : i <= k /\ U[i] \subseteq v.kept
    BY <1>0, <1>4 DEF VaultTold
  <2> QED
    BY <2>1, <2>2 DEF VaultTold
<1>5. VaultTold(cloud, U, k) /\ \A d \in Devices : VaultTold(vault[d], U, k)
  <2>1. /\ cloud.head \in Ids \cup {NoDoc} /\ cloud.notes \subseteq Ids
        /\ \A d \in Devices : vault[d].head \in Ids \cup {NoDoc} /\ vault[d].notes \subseteq Ids
    BY <1>1 DEF Vault, Cloud
  <2> QED
    BY <1>4, <2>1 DEF Told
<1>6. ASSUME NEW d \in Devices
      PROVE  DownTold(down[d], U, k, R)
  <2> DEFINE q == down[d]
  <2>1. /\ IsRows(q.row) /\ q.discards \subseteq Ids
        /\ q.acked \in Ids \cup {NoDoc} /\ q.local \in Ids \cup {NoDoc}
        /\ q.acked # NoDoc => q.local # NoDoc
        /\ DownTold(q, T, n, S)
    BY <1>1 DEF IsDown, Told
  <2> HIDE DEF q
  <2>2. RowsTold(q.row, U, k)
    BY <2>1, RetellRows DEF DownTold
  <2>3. \A i \in q.discards : i <= k /\ U[i] \subseteq R
    BY <1>0, <2>1 DEF DownTold
  <2>4. q.acked # NoDoc => /\ q.acked <= k /\ q.local <= k
                           /\ U[q.acked] = U[q.local] /\ U[q.acked] \subseteq R
    BY <1>0, <2>1 DEF DownTold
  <2> QED
    BY <2>2, <2>3, <2>4 DEF DownTold, q
<1>7. ASSUME NEW d \in Devices
      PROVE  PushTold(push[d], U, k, R)
  <2>1. push[d].head \in Ids \cup {NoDoc} /\ PushTold(push[d], T, n, S)
    BY <1>1 DEF Told
  <2> QED
    BY <1>0, <2>1 DEF PushTold
<1> QED
  BY <1>2, <1>3, <1>5, <1>6, <1>7 DEF Told

\* What U tells holds of the next state too, and a row that leaves the
\* connector is safe or contained in one that stays.
ToldNext(U) ==
    /\ RowsTold(rows', U, lastId') /\ PushedTold(rows', U, Safe')
    /\ VaultTold(cloud', U, lastId')
    /\ \A d \in Devices : /\ VaultTold(vault'[d], U, lastId')
                          /\ DownTold(down'[d], U, lastId', Safe')
                          /\ PushTold(push'[d], U, lastId', Safe')

RowsGoOn(U) ==
    \A i \in DOMAIN rows : U[i] \subseteq Safe' \/ \E j \in DOMAIN rows' : U[i] \subseteq U[j]

TellsOn == \E U \in Texting : Told(U, lastId', Safe') /\ ToldNext(U) /\ RowsGoOn(U)

AllInv == TypeInv /\ VersionsRead /\ NamesUsed /\ HeadsRead /\ VaultsKeep

\* A step that names nothing goes on with the same texts.
LEMMA SameTexts ==
    ASSUME TypeInv, NEW T \in Texting, Told(T, lastId, Safe), lastId' = lastId, Safe \subseteq Safe'
    PROVE  Told(T, lastId', Safe')
<1>1. lastId \in Nat /\ lastId <= lastId' /\ lastId' \in Nat
  BY DEF TypeInv, DocsTypeOK, Ids
<1>2. Agree(T, T, lastId)
  BY DEF Agree
<1> QED
  BY <1>1, <1>2, Retell

\* A step that names a version gives its text to the new name.
LEMMA NewText ==
    ASSUME TypeInv, NEW T \in Texting, Told(T, lastId, Safe), CanName, lastId' = Next_,
           Safe \subseteq Safe', NEW text \in Texts
    PROVE  \E U \in Texting : Told(U, lastId', Safe') /\ U[Next_] = text
                              /\ \A i \in Ids : i <= lastId => U[i] = T[i]
<1> DEFINE U == [T EXCEPT ![Next_] = text]
<1>1. Next_ \in Ids /\ Next_ = lastId + 1 /\ lastId \in Nat
  BY NextName DEF TypeInv, DocsTypeOK, Ids
<1> HIDE DEF Next_
<1>2. U \in Texting /\ U[Next_] = text
  BY <1>1 DEF Texting
<1>3. \A i \in Ids : i <= lastId => U[i] = T[i]
  <2>1. \A i \in Ids : i <= lastId => i # Next_
    BY <1>1 DEF Ids
  <2> QED
    BY <2>1 DEF Texting
<1>4. Agree(T, U, lastId)
  BY <1>3 DEF Agree
<1> HIDE DEF U
<1>5. Told(U, lastId', Safe')
  BY <1>1, <1>4, Retell
<1> QED
  BY <1>2, <1>3, <1>5

LEMMA StayedTold ==
    ASSUME NEW U, Told(U, lastId', Safe'), UNCHANGED <<rows, device>>
    PROVE  ToldNext(U) /\ RowsGoOn(U)
<1>1. UNCHANGED <<rows, vault, cloud, down, push>>
  BY DEF device
<1>2. ToldNext(U)
  BY <1>1 DEF Told, ToldNext
<1>3. RowsGoOn(U)
  BY <1>1 DEF RowsGoOn
<1> QED
  BY <1>2, <1>3

LEMMA AppTellsOn ==
    ASSUME AllInv, Safe \subseteq Safe', NEW T \in Texting, Told(T, lastId, Safe),
           NEW a \in Apps, AppStep(a)
    PROVE  /\ TellsOn
           /\ \/ saved' = saved
              \/ \E j \in DOMAIN rows' : /\ saved' = saved \cup {lastId'}
                                        /\ lastId' \in rows'[j].text
<1> USE DEF AllInv
<1>1. CASE UNCHANGED <<rows, device, lastId, saved>>
  BY <1>1, SameTexts, StayedTold DEF TellsOn
<1>2. CASE WriteRows(a)
  <2> DEFINE o == app[a]
             gone == IF o.row.pending /\ o.head \in DOMAIN rows /\ rows[o.head].pending
                     THEN {o.head} ELSE {}
             row == [text |-> o.row.text \cup {Next_}, pending |-> TRUE,
                     base |-> BaseFor(o), seq |-> seq + 1]
  <2>1. /\ rows' = With(Without(rows, gone), Next_, row) /\ lastId' = Next_ /\ CanName
        /\ saved' = saved \cup {Next_} /\ UNCHANGED device
    BY <1>2 DEF WriteRows
  <2>2. /\ Next_ \in Ids /\ lastId <= Next_ /\ IsRows(rows) /\ Ids \subseteq Nat /\ lastId \in Nat
        /\ o.row \in Row /\ o.head \in Ids \cup {NoDoc} /\ NoDoc \notin Ids
    BY <2>1, NextName DEF TypeInv, DocsTypeOK, Ids, NoDoc
  <2>3. row.text \in Texts
    BY <2>2 DEF Row, Texts
  <2>4. PICK U \in Texting : Told(U, lastId', Safe') /\ U[Next_] = row.text
    BY <2>1, <2>3, NewText
  <2>5. \/ o.head = NoDoc /\ o.row = NoRow
        \/ o.head \in DOMAIN rows /\ o.row = rows[o.head]
    <3>1. \/ o.head = NoDoc /\ DOMAIN rows = {}
          \/ o.head = Served(rows) /\ o.row = rows[Served(rows)]
      BY <1>2 DEF WriteRows, HeadsRead
    <3>2. Served(rows) = NoDoc \/ Served(rows) \in DOMAIN rows
      BY ServedIsRow DEF TypeInv, DocsTypeOK
    <3> QED
      BY <3>1, <3>2 DEF HeadsRead
  <2>6. RowsTold(rows, U, lastId') /\ PushedTold(rows, U, Safe')
    BY <2>4 DEF Told
  <2>7. /\ o.row.text \subseteq U[Next_]
        /\ row.base # NoDoc => row.base <= Next_ /\ U[row.base] \subseteq U[Next_]
    <3>1. o.row.text \subseteq U[Next_]
      BY <2>4
    <3>2. CASE o.head = NoDoc /\ o.row = NoRow
      BY <3>2 DEF BaseFor, NoRow
    <3>3. CASE o.head \in DOMAIN rows /\ o.row = rows[o.head]
      <4>1. /\ o.row.text = U[o.head] /\ o.head <= lastId'
            /\ o.row.base # NoDoc => o.row.base <= lastId' /\ U[o.row.base] \subseteq U[o.head]
        BY <2>6, <3>3 DEF RowsTold
      <4>2. row.base = IF o.row.pending THEN o.row.base ELSE o.head
        BY DEF BaseFor
      <4> HIDE DEF row
      <4> QED
        BY <2>1, <3>1, <4>1, <4>2
    <3> QED
      BY <2>5, <3>1, <3>2, <3>3
  <2> HIDE DEF row, gone, o
  <2>8. /\ RowsTold(rows', U, lastId')
        /\ DOMAIN rows' = (DOMAIN rows \ gone) \cup {Next_} /\ rows'[Next_] = row
        /\ \A i \in (DOMAIN rows \ gone) \ {Next_} : rows'[i] = rows[i]
    <3>1. Next_ <= lastId'
      BY <2>1, <2>2
    <3>2. row.text = U[Next_]
      BY <2>4
    <3>3. row.base # NoDoc => row.base <= lastId' /\ U[row.base] \subseteq U[Next_]
      BY <2>1, <2>7
    <3> DEFINE w == With(Without(rows, gone), Next_, row)
    <3>4. /\ DOMAIN w = (DOMAIN rows \ gone) \cup {Next_} /\ w[Next_] = row
          /\ \A i \in (DOMAIN rows \ gone) \ {Next_} : w[i] = rows[i]
      BY DEF With, Without
    <3> HIDE DEF w
    <3>5. RowsTold(w, U, lastId')
      BY <2>6, <3>1, <3>2, <3>3, <3>4 DEF RowsTold
    <3> QED
      BY <2>1, <3>4, <3>5 DEF w
  <2>9. PushedTold(rows', U, Safe')
    <3>1. row.pending
      BY DEF row
    <3>2. Pushed(rows') \subseteq Pushed(rows)
      BY <2>8, <3>1 DEF Pushed
    <3> QED
      BY <2>6, <3>2 DEF PushedTold
  <2>10. ToldNext(U)
    <3>1. UNCHANGED <<vault, cloud, down, push>>
      BY <2>1 DEF device
    <3> QED
      BY <2>4, <2>8, <2>9, <3>1 DEF ToldNext, Told
  <2>11. RowsGoOn(U)
    <3>1. \A i \in gone : i = o.head /\ o.head \in DOMAIN rows
      BY DEF gone
    <3>2. NoDoc \notin DOMAIN rows
      BY <2>2 DEF IsRows
    <3>3. o.head \in DOMAIN rows => U[o.head] = o.row.text
      BY <2>5, <2>6, <3>2 DEF RowsTold
    <3>4. \A i \in gone : U[i] \subseteq U[Next_]
      BY <2>7, <3>1, <3>3
    <3> QED
      BY <2>8, <3>4 DEF RowsGoOn
  <2>12. Next_ \in rows'[Next_].text
    BY <2>8 DEF row
  <2> QED
    BY <2>1, <2>4, <2>8, <2>10, <2>11, <2>12 DEF TellsOn
<1> QED
  BY <1>1, <1>2 DEF AppStep, ReadSeq, ReadRows, WriteRefused, server

LEMMA InstalledTold ==
    ASSUME NEW v \in Vault, NEW U, NEW n, VaultTold(v, U, n), NEW id, id <= n, NEW text, text = U[id]
    PROVE  VaultTold(Installed(v, id, text), U, n)
<1> DEFINE w == Installed(v, id, text)
<1>1. w.head = id /\ w.text = text /\ w.notes = v.notes /\ w.kept = v.kept \cup text
  BY DEF Installed, Vault
<1> HIDE DEF w
<1>2. VaultTold(w, U, n)
  BY <1>1 DEF VaultTold
<1> QED
  BY <1>2 DEF w

LEMMA VaultsTell ==
    ASSUME NEW U, Told(U, lastId', Safe'), UNCHANGED <<rows, down, push>>,
           VaultTold(cloud', U, lastId'), \A e \in Devices : VaultTold(vault'[e], U, lastId')
    PROVE  ToldNext(U) /\ RowsGoOn(U)
<1>1. ToldNext(U)
  BY DEF Told, ToldNext
<1>2. RowsGoOn(U)
  BY DEF RowsGoOn
<1> QED
  BY <1>1, <1>2

LEMMA UploadTold ==
    ASSUME TypeInv, NEW U, NEW n, NEW d \in Devices, Uploaded(d),
           \A e \in Devices : VaultTold(vault[e], U, n)
    PROVE  VaultTold(cloud', U, n) /\ \A e \in Devices : VaultTold(vault'[e], U, n)
<1>1. DOMAIN vault = Devices /\ vault[d] \in Vault
  BY DEF TypeInv, DocsTypeOK
<1>2. /\ cloud'.head = vault[d].head /\ cloud'.text = vault[d].text /\ cloud'.kept = vault[d].kept
      /\ cloud'.notes = vault[d].notes
  BY DEF Uploaded
<1>3. /\ \A e \in Devices \ {d} : vault'[e] = vault[e]
      /\ vault'[d].head = vault[d].head /\ vault'[d].text = vault[d].text
      /\ vault'[d].kept = vault[d].kept /\ vault'[d].notes = vault[d].notes
  BY <1>1 DEF Uploaded, Vault
<1>4. VaultTold(cloud', U, n)
  BY <1>2 DEF VaultTold
<1>5. VaultTold(vault'[d], U, n)
  BY <1>3 DEF VaultTold
<1> QED
  BY <1>3, <1>4, <1>5

LEMMA SyncTellsOn ==
    ASSUME AllInv, Safe \subseteq Safe', NEW T \in Texting, Told(T, lastId, Safe),
           NEW d \in Devices, SyncStep(d)
    PROVE  TellsOn
<1>1. TypeInv /\ DOMAIN vault = Devices /\ vault[d] \in Vault
  BY DEF AllInv, TypeInv, DocsTypeOK
<1>2. UNCHANGED <<rows, down, push>>
  BY DEF SyncStep, LocalEdit, SyncPush, SyncPull, TakeOtherVault, server
<1>3. ASSUME lastId' = lastId, VaultTold(cloud', T, lastId'),
             \A e \in Devices : VaultTold(vault'[e], T, lastId')
      PROVE  TellsOn
  BY <1>1, <1>2, <1>3, SameTexts, VaultsTell DEF TellsOn
<1>4. VaultTold(cloud, T, lastId) /\ \A e \in Devices : VaultTold(vault[e], T, lastId)
  BY DEF Told
<1>5. CASE LocalEdit(d)
  <2> DEFINE text == vault[d].text \cup {Next_}
  <2>1. CanName /\ lastId' = Next_ /\ Next_ \in Ids /\ Next_ \in Nat
    BY <1>1, <1>5, NextName DEF LocalEdit, TypeInv, Ids
  <2>2. text \in Texts
    BY <1>1, <2>1 DEF Vault, Texts
  <2> HIDE DEF text, Next_
  <2>3. PICK U \in Texting : Told(U, lastId', Safe') /\ U[Next_] = text
    BY <1>1, <2>1, <2>2, NewText
  <2>4. VaultTold(cloud, U, lastId') /\ \A e \in Devices : VaultTold(vault[e], U, lastId')
    BY <2>3 DEF Told
  <2>5. UNCHANGED cloud /\ vault' = [vault EXCEPT ![d] = Installed(vault[d], Next_, text)]
    BY <1>5 DEF LocalEdit, text
  <2>6. VaultTold(Installed(vault[d], Next_, text), U, lastId')
    <3>1. Next_ <= lastId'
      BY <2>1
    <3> QED
      BY <1>1, <2>3, <2>4, <3>1, InstalledTold
  <2>7. \A e \in Devices : VaultTold(vault'[e], U, lastId')
    BY <1>1, <2>4, <2>5, <2>6
  <2> QED
    BY <1>2, <2>3, <2>4, <2>5, <2>7, VaultsTell DEF TellsOn
<1>6. CASE SyncPush(d)
  <2>1. lastId' = lastId /\ Uploaded(d)
    BY <1>6 DEF SyncPush
  <2> QED
    BY <1>1, <1>3, <1>4, <2>1, UploadTold
<1>7. CASE SyncPull(d) \/ TakeOtherVault(d)
  <2>1. lastId' = lastId /\ Adopt(d) /\ UNCHANGED cloud
    BY <1>7 DEF SyncPull, TakeOtherVault
  <2>2. /\ \A e \in Devices \ {d} : vault'[e] = vault[e]
        /\ vault'[d].head = cloud.head /\ vault'[d].text = cloud.text
        /\ vault'[d].kept = cloud.kept /\ vault'[d].notes = cloud.notes
    BY <1>1, <2>1 DEF Adopt
  <2>3. VaultTold(vault'[d], T, lastId)
    BY <1>4, <2>2 DEF VaultTold
  <2> QED
    BY <1>3, <1>4, <2>1, <2>2, <2>3
<1> QED
  BY <1>5, <1>6, <1>7 DEF SyncStep

LEMMA PushTellsOn ==
    ASSUME AllInv, Safe \subseteq Safe', NEW T \in Texting, Told(T, lastId, Safe),
           NEW d \in Devices, PushStep(d)
    PROVE  TellsOn
<1>1. /\ TypeInv /\ DOMAIN push = Devices /\ DOMAIN vault = Devices /\ vault[d] \in Vault
      /\ IsRows(rows)
      /\ push[d] \in [pc : {"idle", "snapshot", "put"}, stamp : Nat,
                      head : Ids \cup {NoDoc}, text : Texts, from : Nat]
  BY DEF AllInv, TypeInv, DocsTypeOK
<1>2. UNCHANGED <<down, lastId>>
  BY DEF PushStep, AutoPush, ManualPush, PushStart, PushSnapshot, PutAccepted, PushStop
<1>3. Told(T, lastId', Safe')
  BY <1>1, <1>2, SameTexts
<1>4. /\ RowsTold(rows, T, lastId') /\ PushedTold(rows, T, Safe') /\ VaultTold(cloud, T, lastId')
      /\ \A e \in Devices : /\ VaultTold(vault[e], T, lastId') /\ DownTold(down[e], T, lastId', Safe')
                            /\ PushTold(push[e], T, lastId', Safe')
  BY <1>3 DEF Told
<1>5. ASSUME NEW o, push' = [push EXCEPT ![d] = o], PushTold(o, T, lastId', Safe'),
             RowsTold(rows', T, lastId'), PushedTold(rows', T, Safe'), RowsGoOn(T),
             VaultTold(cloud', T, lastId'), \A e \in Devices : VaultTold(vault'[e], T, lastId')
      PROVE  TellsOn
  <2>1. \A e \in Devices : PushTold(push'[e], T, lastId', Safe')
    BY <1>1, <1>4, <1>5
  <2>2. \A e \in Devices : DownTold(down'[e], T, lastId', Safe')
    BY <1>2, <1>4
  <2>3. ToldNext(T)
    BY <1>5, <2>1, <2>2 DEF ToldNext
  <2> QED
    BY <1>3, <1>5, <2>3 DEF TellsOn
<1>6. PushTold(IdlePush, T, lastId', Safe')
  BY DEF IdlePush, PushTold
<1>7. UNCHANGED rows => RowsGoOn(T)
  BY DEF RowsGoOn
<1>8. CASE AutoPush(d) \/ ManualPush(d)
  <2> DEFINE o == [IdlePush EXCEPT !.pc = "snapshot", !.stamp = cloud'.ver]
  <2>1. push' = [push EXCEPT ![d] = o] /\ UNCHANGED rows
    BY <1>8 DEF AutoPush, ManualPush, PushStart, server
  <2>2. PushTold(o, T, lastId', Safe')
    BY DEF IdlePush, PushTold
  <2>3. VaultTold(cloud', T, lastId') /\ \A e \in Devices : VaultTold(vault'[e], T, lastId')
    <3>1. CASE Uploaded(d)
      BY <1>1, <1>4, <3>1, UploadTold
    <3>2. CASE UNCHANGED <<vault, cloud>>
      BY <1>4, <3>2
    <3> QED
      BY <1>8, <3>1, <3>2 DEF AutoPush, ManualPush
  <2> HIDE DEF o
  <2> QED
    BY <1>4, <1>5, <1>7, <2>1, <2>2, <2>3
<1>9. CASE PushSnapshot(d)
  <2> DEFINE o == [push[d] EXCEPT !.pc = "put", !.head = vault[d].head,
                                  !.text = vault[d].text, !.from = vault[d].ver]
  <2>1. push' = [push EXCEPT ![d] = IdlePush] \/ push' = [push EXCEPT ![d] = o]
    BY <1>9 DEF PushSnapshot
  <2>2. UNCHANGED <<rows, vault, cloud>>
    BY <1>9 DEF PushSnapshot, server
  <2>3. o.head = vault[d].head /\ o.text = vault[d].text
    BY <1>1
  <2>4. vault[d].text \subseteq Safe'
    BY DEF AllInv, VaultsKeep, Safe
  <2> HIDE DEF o
  <2>5. PushTold(o, T, lastId', Safe')
    BY <1>4, <2>3, <2>4 DEF PushTold, VaultTold
  <2> QED
    BY <1>4, <1>5, <1>6, <1>7, <2>1, <2>2, <2>5
<1>10. CASE PutAccepted(d)
  <2> DEFINE o == push[d]
             row == [text |-> o.text, pending |-> FALSE, base |-> NoDoc, seq |-> seq + 1]
  <2>1. /\ rows' = With(Without(rows, Pushed(rows)), o.head, row)
        /\ push' = [push EXCEPT ![d] = IdlePush] /\ UNCHANGED <<vault, cloud>> /\ o.pc = "put"
    BY <1>10 DEF PutAccepted, Replaced
  <2>0. row.text = o.text /\ row.base = NoDoc /\ ~row.pending
    OBVIOUS
  <2> HIDE DEF row
  <2>2. /\ DOMAIN rows' = (DOMAIN rows \ Pushed(rows)) \cup {o.head} /\ rows'[o.head] = row
        /\ \A i \in (DOMAIN rows \ Pushed(rows)) \ {o.head} : rows'[i] = rows[i]
    BY <2>1 DEF With, Without
  <2>3. o.head <= lastId' /\ o.text = T[o.head] /\ o.text \subseteq Safe'
    BY <1>4, <2>1 DEF PushTold, AllInv, TypeInv, CallsOK
  <2> HIDE DEF o
  <2>5. RowsTold(rows', T, lastId')
    BY <1>4, <2>0, <2>2, <2>3 DEF RowsTold
  <2>6. PushedTold(rows', T, Safe')
    <3>1. Pushed(rows') = {o.head}
      BY <2>0, <2>2 DEF Pushed
    <3> QED
      BY <2>3, <3>1 DEF PushedTold
  <2>7. RowsGoOn(T)
    <3>1. \A i \in DOMAIN rows : i \in Pushed(rows) \/ i \in DOMAIN rows'
      BY <2>2
    <3> QED
      BY <1>4, <3>1 DEF RowsGoOn, PushedTold
  <2> QED
    BY <1>4, <1>5, <1>6, <2>1, <2>5, <2>6, <2>7
<1>11. CASE PushStop(d)
  BY <1>4, <1>5, <1>6, <1>7, <1>11 DEF PushStop, server
<1> QED
  BY <1>8, <1>9, <1>10, <1>11 DEF PushStep

\* A device's call goes on as o.
LEMMA DownGoesOnTold ==
    ASSUME TypeInv, NEW U \in Texting, Told(U, lastId', Safe'), NEW d \in Devices, NEW o,
           down' = [down EXCEPT ![d] = o], DownTold(o, U, lastId', Safe'),
           RowsTold(rows', U, lastId'), PushedTold(rows', U, Safe'), RowsGoOn(U),
           \A e \in Devices : VaultTold(vault'[e], U, lastId'), UNCHANGED <<cloud, push>>
    PROVE  TellsOn
<1>1. DOMAIN down = Devices
  BY DEF TypeInv, DocsTypeOK
<1>2. \A e \in Devices : DownTold(down'[e], U, lastId', Safe')
  BY <1>1 DEF Told
<1>3. ToldNext(U)
  BY <1>2 DEF Told, ToldNext
<1> QED
  BY <1>3 DEF TellsOn

\* What a plan discards is equal to the head, and so is what it acks unapplied.
LEMMA PlanTold ==
    ASSUME TypeInv, NEW U, NEW n, NEW S, NEW d \in Devices, VaultTold(vault[d], U, n),
           RowsTold(down[d].row, U, n), vault[d].text \subseteq S
    PROVE  /\ \A i \in Discards(d) : i <= n /\ U[i] \subseteq S
           /\ Dedupes(d) # {} => /\ Served(rows) <= n /\ vault[d].head <= n
                                 /\ U[Served(rows)] = U[vault[d].head]
                                 /\ U[Served(rows)] \subseteq S
<1>1. \A i \in Waiting(d) : i <= n /\ down[d].row[i].text = U[i]
  BY DEF RowsTold, Waiting
<1>2. \A i \in Waiting(d) : Same(d, i) => /\ vault[d].head # NoDoc /\ U[i] = vault[d].text
  BY <1>1 DEF Same
<1>3. \A i \in Dedupes(d) : i \in Waiting(d) /\ Same(d, i) /\ i = Served(rows)
  BY DEF Dedupes, Fresh
<1>4. \A i \in Discards(d) : i \in Waiting(d) /\ Same(d, i)
  BY DEF Discards
<1>5. vault[d].head # NoDoc => vault[d].head <= n /\ vault[d].text = U[vault[d].head]
  BY DEF VaultTold
<1>6. \A i \in Discards(d) : i <= n /\ U[i] \subseteq S
  BY <1>1, <1>2, <1>4
<1>7. ASSUME NEW i \in Dedupes(d)
      PROVE  /\ Served(rows) <= n /\ vault[d].head <= n
             /\ U[Served(rows)] = U[vault[d].head] /\ U[Served(rows)] \subseteq S
  BY <1>1, <1>2, <1>3, <1>5
<1> QED
  BY <1>6, <1>7

LEMMA DownTellsOn ==
    ASSUME AllInv, Safe \subseteq Safe', NEW T \in Texting, Told(T, lastId, Safe),
           NEW d \in Devices, DownStep(d)
    PROVE  TellsOn
<1>1. /\ TypeInv /\ DOMAIN vault = Devices /\ vault[d] \in Vault /\ IsDown(down[d])
      /\ IsRows(rows) /\ lastId \in Nat
  BY DEF AllInv, TypeInv, DocsTypeOK, Ids
<1>2. vault[d].text \subseteq Safe /\ vault[d].kept \subseteq Safe
  BY DEF AllInv, VaultsKeep, Safe
<1>3. RowsTold(IdleDown.row, T, lastId') /\ IdleDown.discards = {} /\ IdleDown.acked = NoDoc
  BY DEF IdleDown, RowsTold
<1>4. ASSUME NEW goal, DownStart(d, goal)
      PROVE  TellsOn
  <2> DEFINE o == [IdleDown EXCEPT !.pc = "fetch", !.goal = goal]
  <2>1. o.row = IdleDown.row /\ o.discards = IdleDown.discards /\ o.acked = IdleDown.acked
    BY DEF IdleDown
  <2>2. DownTold(o, T, lastId', Safe')
    <3> HIDE DEF o
    <3> QED
      BY <1>3, <2>1 DEF DownTold
  <2>3. down' = [down EXCEPT ![d] = o] /\ UNCHANGED <<rows, vault, cloud, push, lastId>>
    BY <1>4 DEF DownStart, server
  <2>4. Told(T, lastId', Safe')
    BY <1>1, <2>3, SameTexts
  <2> HIDE DEF o
  <2> QED
    BY <1>1, <2>2, <2>3, <2>4, DownGoesOnTold DEF Told, RowsGoOn
<1>5. CASE DownFetch(d)
  <2> DEFINE o == [down[d] EXCEPT !.pc = "plan", !.row = Without(rows, Pushed(rows))]
  <2>1. o.row = Without(rows, Pushed(rows)) /\ o.discards = down[d].discards
        /\ o.acked = down[d].acked /\ o.local = down[d].local
    BY <1>1 DEF IsDown
  <2>3. down' = [down EXCEPT ![d] = o] /\ UNCHANGED <<rows, vault, cloud, push, lastId>>
    BY <1>5 DEF DownFetch, server
  <2>4. Told(T, lastId', Safe')
    BY <1>1, <2>3, SameTexts
  <2>5. RowsTold(Without(rows, Pushed(rows)), T, lastId')
    BY <2>4 DEF Told, RowsTold, Without
  <2> HIDE DEF o
  <2>6. DownTold(o, T, lastId', Safe')
    BY <2>1, <2>4, <2>5 DEF DownTold, Told
  <2> QED
    BY <1>1, <2>3, <2>4, <2>6, DownGoesOnTold DEF Told, RowsGoOn
<1>6. CASE SettleDown(d)
  <2> DEFINE acked == IF Dedupes(d) = {} THEN NoDoc ELSE Served(rows)
             o == [down[d] EXCEPT !.pc = AfterSave(Discards(d)), !.acked = acked,
                                  !.local = vault[d].head, !.discards = Discards(d)]
  <2>1. o.row = down[d].row /\ o.discards = Discards(d)
        /\ o.acked = acked /\ o.local = vault[d].head
    BY <1>1 DEF IsDown
  <2>3. down' = [down EXCEPT ![d] = o] /\ UNCHANGED <<rows, vault, cloud, push, lastId>>
    BY <1>6 DEF SettleDown, server
  <2>4. Told(T, lastId', Safe')
    BY <1>1, <2>3, SameTexts
  <2>5. VaultTold(vault[d], T, lastId') /\ RowsTold(down[d].row, T, lastId')
    BY <2>4 DEF Told, DownTold
  <2>6. vault[d].text \subseteq Safe'
    BY <1>2
  <2>7. /\ \A i \in Discards(d) : i <= lastId' /\ T[i] \subseteq Safe'
        /\ acked # NoDoc => /\ acked <= lastId' /\ vault[d].head <= lastId'
                            /\ T[acked] = T[vault[d].head] /\ T[acked] \subseteq Safe'
    BY <1>1, <2>5, <2>6, PlanTold
  <2> HIDE DEF o, acked
  <2>8. DownTold(o, T, lastId', Safe')
    BY <2>1, <2>5, <2>7 DEF DownTold
  <2> QED
    BY <1>1, <2>3, <2>4, <2>8, DownGoesOnTold DEF Told, RowsGoOn
<1>7. CASE KeepMine(d)
  <2> DEFINE o == [down[d] EXCEPT !.pc = "discard", !.discards = Conflicts(d)]
             new == Conflicts(d) \ vault[d].notes
             K == UNION {down[d].row[i].text : i \in new}
             v == [vault[d] EXCEPT !.dirty = vault[d].dirty \/ new # {},
                                   !.notes = vault[d].notes \cup new,
                                   !.kept = vault[d].kept \cup K]
  <2>1. vault' = [vault EXCEPT ![d] = v]
    BY ONLY <1>7, ZenonT(20) DEF KeepMine
  <2>2. o.row = down[d].row /\ o.discards = Conflicts(d)
        /\ o.acked = down[d].acked /\ o.local = down[d].local
    BY <1>1 DEF IsDown
  <2>3. down' = [down EXCEPT ![d] = o] /\ UNCHANGED <<rows, cloud, push, lastId>>
    BY <1>7 DEF KeepMine, server
  <2>4. Told(T, lastId', Safe')
    BY <1>1, <2>3, SameTexts
  <2>5. /\ VaultTold(vault[d], T, lastId') /\ DownTold(down[d], T, lastId', Safe')
        /\ \A e \in Devices : VaultTold(vault[e], T, lastId')
    BY <2>4 DEF Told
  <2>6. \A i \in new : i <= lastId' /\ T[i] \subseteq K
    <3>1. \A i \in new : i \in DOMAIN down[d].row
      BY DEF Conflicts, Waiting
    <3>2. \A i \in new : i <= lastId' /\ down[d].row[i].text = T[i]
      BY <2>5, <3>1 DEF DownTold, RowsTold
    <3> QED
      BY <3>2
  <2>7. /\ v.head = vault[d].head /\ v.text = vault[d].text
        /\ v.notes = vault[d].notes \cup new /\ v.kept = vault[d].kept \cup K
    BY <1>1 DEF Vault
  <2>8. Conflicts(d) \subseteq vault[d].notes \cup new
    OBVIOUS
  <2> HIDE DEF o, new, K, v
  <2>9. VaultTold(v, T, lastId')
    BY <2>5, <2>6, <2>7 DEF VaultTold
  <2>10. \A e \in Devices : VaultTold(vault'[e], T, lastId')
    BY <1>1, <2>1, <2>5, <2>9
  <2>11. v.kept \subseteq Safe'
    <3>1. vault'[d] = v
      BY <1>1, <2>1
    <3>2. vault'[d].kept \subseteq Safe'
      BY DEF Safe
    <3> QED
      BY <3>1, <3>2
  <2>12. \A i \in Conflicts(d) : i <= lastId' /\ T[i] \subseteq Safe'
    BY <2>7, <2>8, <2>9, <2>11 DEF VaultTold
  <2>13. DownTold(o, T, lastId', Safe')
    BY <2>2, <2>5, <2>12 DEF DownTold
  <2> QED
    BY <1>1, <2>3, <2>4, <2>10, <2>13, DownGoesOnTold DEF Told, RowsGoOn
<1>8. ASSUME NEW i \in Waiting(d), ApplyDown(d, i) \/ TakeTheirs(d, i)
      PROVE  TellsOn
  <2> DEFINE text == down[d].row[i].text
             v == Installed(vault[d], Next_, text)
             o == [down[d] EXCEPT !.pc = AfterSave(Discards(d)), !.acked = i,
                                  !.local = Next_, !.discards = Discards(d)]
             p == [down[d] EXCEPT !.pc = AfterSave({}), !.acked = i, !.local = Next_]
  <2>1. /\ vault' = [vault EXCEPT ![d] = v] /\ lastId' = Next_ /\ CanName
        /\ UNCHANGED <<rows, cloud, push>>
        /\ down' = [down EXCEPT ![d] = o] \/ down' = [down EXCEPT ![d] = p]
    BY <1>8 DEF ApplyDown, TakeTheirs, server
  <2>2. /\ o.row = down[d].row /\ o.discards = Discards(d) /\ o.acked = i /\ o.local = Next_
        /\ p.row = down[d].row /\ p.discards = down[d].discards /\ p.acked = i /\ p.local = Next_
    BY <1>1 DEF IsDown
  <2>3. /\ Next_ \in Ids /\ Next_ = lastId + 1 /\ Ids \subseteq Nat /\ i \in Ids /\ text \in Texts
    BY <1>1, <2>1, NextName, PlanNames DEF TypeInv, Ids
  <2>4. v.kept = vault[d].kept \cup text
    BY <1>1 DEF Installed, Vault
  <2> HIDE DEF o, p, v, text, Next_
  <2>5. PICK U \in Texting : /\ Told(U, lastId', Safe') /\ U[Next_] = text
                             /\ \A j \in Ids : j <= lastId => U[j] = T[j]
    BY <1>1, <2>1, <2>3, NewText
  <2>6. /\ VaultTold(vault[d], U, lastId') /\ DownTold(down[d], U, lastId', Safe')
        /\ \A e \in Devices : VaultTold(vault[e], U, lastId')
    BY <2>5 DEF Told
  <2>7. VaultTold(v, U, lastId')
    <3>1. Next_ <= lastId'
      BY <2>1, <2>3
    <3> QED
      BY <1>1, <2>5, <2>6, <3>1, InstalledTold DEF v
  <2>8. \A e \in Devices : VaultTold(vault'[e], U, lastId')
    BY <1>1, <2>1, <2>6, <2>7
  <2>9. text \subseteq Safe'
    <3>1. vault'[d] = v
      BY <1>1, <2>1
    <3>2. vault'[d].kept \subseteq Safe'
      BY DEF Safe
    <3> QED
      BY <2>4, <3>1, <3>2
  <2>10. U[i] = text /\ i <= lastId' /\ Next_ <= lastId'
    <3>1. i \in DOMAIN down[d].row
      BY DEF Waiting
    <3> QED
      BY <2>1, <2>3, <2>6, <3>1 DEF DownTold, RowsTold, text
  <2>11. \A j \in Discards(d) : j <= lastId' /\ U[j] \subseteq Safe'
    <3>1. RowsTold(down[d].row, U, lastId')
      BY <2>6 DEF DownTold
    <3>2. vault[d].text \subseteq Safe'
      BY <1>2
    <3> QED
      BY <1>1, <2>6, <3>1, <3>2, PlanTold
  <2>12. DownTold(o, U, lastId', Safe')
    BY <2>2, <2>5, <2>6, <2>9, <2>10, <2>11 DEF DownTold
  <2>13. DownTold(p, U, lastId', Safe')
    BY <2>2, <2>5, <2>6, <2>9, <2>10 DEF DownTold
  <2>14. RowsTold(rows', U, lastId') /\ PushedTold(rows', U, Safe') /\ RowsGoOn(U)
    BY <2>1, <2>5 DEF Told, RowsGoOn
  <2> QED
    BY <1>1, <2>1, <2>5, <2>8, <2>12, <2>13, <2>14, DownGoesOnTold
<1>9. CASE DiscardPending(d)
  <2> DEFINE o == [down[d] EXCEPT !.pc = "ack"]
             doomed == {i \in down[d].discards \cap DOMAIN rows : rows[i].pending}
  <2>1. /\ down' = [down EXCEPT ![d] = o] /\ UNCHANGED <<vault, cloud, push, lastId>>
        /\ rows' = Without(rows, doomed)
    BY <1>9 DEF DiscardPending
  <2>2. o.row = down[d].row /\ o.discards = down[d].discards
        /\ o.acked = down[d].acked /\ o.local = down[d].local
    BY <1>1 DEF IsDown
  <2>3. Told(T, lastId', Safe')
    BY <1>1, <2>1, SameTexts
  <2>4. doomed \subseteq down[d].discards
    OBVIOUS
  <2> HIDE DEF o, doomed
  <2>5. DownTold(down[d], T, lastId', Safe')
    BY <2>3 DEF Told
  <2>6. DownTold(o, T, lastId', Safe')
    BY <2>2, <2>5 DEF DownTold
  <2>7. DOMAIN rows' = DOMAIN rows \ doomed /\ \A i \in DOMAIN rows' : rows'[i] = rows[i]
    BY <2>1 DEF Without
  <2>8. RowsTold(rows', T, lastId') /\ PushedTold(rows', T, Safe')
    BY <2>3, <2>7 DEF Told, RowsTold, PushedTold, Pushed
  <2>9. RowsGoOn(T)
    <3>1. \A i \in doomed : T[i] \subseteq Safe'
      BY <2>4, <2>5 DEF DownTold
    <3> QED
      BY <2>7, <3>1 DEF RowsGoOn
  <2>10. \A e \in Devices : VaultTold(vault'[e], T, lastId')
    BY <2>1, <2>3 DEF Told
  <2> QED
    BY <1>1, <2>1, <2>3, <2>6, <2>8, <2>9, <2>10, DownGoesOnTold
<1>10. CASE AckEntry(d) \/ DownStop(d)
  <2>1. /\ down' = [down EXCEPT ![d] = IdleDown] /\ UNCHANGED <<vault, cloud, push, lastId>>
        /\ \/ UNCHANGED rows
           \/ /\ down[d].acked \in DOMAIN rows
              /\ rows' = AckedRows(rows, down[d].acked, down[d].local, seq + 1)
    BY <1>10 DEF AckEntry, AckedRows, DownStop, server
  <2>2. Told(T, lastId', Safe')
    BY <1>1, <2>1, SameTexts
  <2>3. DownTold(IdleDown, T, lastId', Safe')
    BY <1>3 DEF DownTold
  <2>4. \A e \in Devices : VaultTold(vault'[e], T, lastId')
    BY <2>1, <2>2 DEF Told
  <2>5. RowsTold(rows, T, lastId') /\ PushedTold(rows, T, Safe')
        /\ DownTold(down[d], T, lastId', Safe')
    BY <2>2 DEF Told
  <2>6. RowsTold(rows', T, lastId') /\ PushedTold(rows', T, Safe') /\ RowsGoOn(T)
    <3>1. CASE UNCHANGED rows
      BY <2>5, <3>1 DEF RowsGoOn
    <3>2. CASE /\ down[d].acked \in DOMAIN rows
               /\ rows' = AckedRows(rows, down[d].acked, down[d].local, seq + 1)
      <4> DEFINE a == down[d].acked
                 l == down[d].local
                 row == [rows[a] EXCEPT !.pending = FALSE, !.seq = seq + 1]
      <4>1. rows[a] \in Row /\ a # NoDoc
        BY <1>1, <3>2, DocsAssumption DEF IsRows, Ids, NoDoc
      <4>2. row.text = rows[a].text /\ row.base = rows[a].base /\ ~row.pending
        BY <4>1 DEF Row
      <4>3. rows' = With(Without(rows, {a}), l, row)
        BY <3>2 DEF AckedRows
      <4>4. l <= lastId' /\ T[a] = T[l] /\ T[a] \subseteq Safe'
        BY <2>5, <4>1 DEF DownTold
      <4>5. rows[a].text = T[a] /\ (rows[a].base # NoDoc => rows[a].base <= lastId'
                                                            /\ T[rows[a].base] \subseteq T[a])
        BY <2>5, <3>2 DEF RowsTold
      <4> HIDE DEF row, a, l
      <4>6. /\ DOMAIN rows' = (DOMAIN rows \ {a}) \cup {l} /\ rows'[l] = row
            /\ \A i \in (DOMAIN rows \ {a}) \ {l} : rows'[i] = rows[i]
        BY <4>3 DEF With, Without
      <4>7. RowsTold(rows', T, lastId')
        BY <2>5, <4>2, <4>4, <4>5, <4>6 DEF RowsTold
      <4>8. PushedTold(rows', T, Safe')
        BY <2>5, <4>4, <4>6 DEF PushedTold, Pushed
      <4>9. RowsGoOn(T)
        BY <4>4, <4>6 DEF RowsGoOn
      <4> QED
        BY <4>7, <4>8, <4>9
    <3> QED
      BY <2>1, <3>1, <3>2
  <2> QED
    BY <1>1, <2>1, <2>2, <2>3, <2>4, <2>6, DownGoesOnTold
<1> HIDE DEF DownStep
<1> QED
  BY <1>4, <1>5, <1>6, <1>7, <1>8, <1>9, <1>10 DEF DownStep

-----------------------------------------------------------------------------
(* The theorems.                                                           *)

DocsIInv == AllInv /\ TextInv

\* What the connector's rows say is safe.
Held(e) == e \in Safe \/ \E i \in DOMAIN rows : e \in rows[i].text

LEMMA SavedIsHeld == CloudWritesSurvive <=> \A e \in saved : Held(e)
BY DEF CloudWritesSurvive, Kept, Held, Safe

LEMMA InitIInv == DocsInit => DocsIInv
BY InitTypes, InitNames, InitKeeps, InitTold DEF DocsIInv, AllInv

LEMMA NextTells ==
    ASSUME AllInv, Safe \subseteq Safe', DocsNext, NEW T \in Texting, Told(T, lastId, Safe)
    PROVE  TellsOn
<1>1. ASSUME NEW a \in Apps, AppStep(a)
      PROVE  TellsOn
  BY <1>1, AppTellsOn
<1>2. ASSUME NEW d \in Devices, SyncStep(d) \/ DownStep(d) \/ PushStep(d)
      PROVE  TellsOn
  BY <1>2, SyncTellsOn, DownTellsOn, PushTellsOn
<1> QED
  BY <1>1, <1>2 DEF DocsNext

LEMMA NextIInv == DocsIInv /\ [DocsNext]_vars => DocsIInv'
<1> SUFFICES ASSUME DocsIInv, [DocsNext]_vars PROVE DocsIInv'
  OBVIOUS
<1>1. TypeInv' /\ VersionsRead' /\ NamesUsed' /\ HeadsRead'
  BY NextTypes, VersionsKept, NamesKept, HeadsKept DEF DocsIInv, AllInv
<1>2. VaultsKeep' /\ Safe \subseteq Safe'
  BY StepKeeps DEF DocsIInv, AllInv, Keeps
<1>3. TextInv'
  <2>1. CASE UNCHANGED vars
    BY <2>1 DEF vars, server, device, DocsIInv, TextInv, Told, RowsTold, PushedTold, Pushed,
                VaultTold, DownTold, PushTold, Safe
  <2>2. CASE DocsNext
    <3>1. PICK T \in Texting : Told(T, lastId, Safe)
      BY DEF DocsIInv, TextInv
    <3>2. PICK U \in Texting : ToldNext(U)
      BY <1>2, <2>2, <3>1, NextTells DEF DocsIInv, TellsOn
    <3>3. Told(U, lastId, Safe)'
      BY <3>2 DEF Told, ToldNext
    <3> QED
      BY <3>3 DEF TextInv
  <2> QED
    BY <2>1, <2>2
<1> QED
  BY <1>1, <1>2, <1>3 DEF DocsIInv, AllInv

\* An edit that is held stays held, and a new promise is held too.
LEMMA NextHolds ==
    ASSUME DocsIInv, [DocsNext]_vars, \A e \in saved : Held(e)
    PROVE  \A e \in saved' : Held(e)'
<1>1. AllInv /\ Safe \subseteq Safe'
  BY StepKeeps DEF DocsIInv, AllInv, Keeps
<1>2. CASE UNCHANGED vars
  BY <1>2 DEF vars, server, device, Held, Safe
<1>3. CASE DocsNext
  <2>1. PICK T \in Texting : Told(T, lastId, Safe)
    BY DEF DocsIInv, TextInv
  <2>2. PICK U \in Texting : Told(U, lastId', Safe') /\ ToldNext(U) /\ RowsGoOn(U)
    BY <1>1, <1>3, <2>1, NextTells DEF TellsOn
  <2>3. \A i \in DOMAIN rows : rows[i].text = U[i]
    BY <2>2 DEF Told, RowsTold
  <2>4. \A j \in DOMAIN rows' : rows'[j].text = U[j]
    BY <2>2 DEF ToldNext, RowsTold
  <2>5. ASSUME NEW e, Held(e)
        PROVE  Held(e)'
    <3>1. CASE e \in Safe
      BY <1>1, <3>1 DEF Held
    <3>2. ASSUME NEW i \in DOMAIN rows, e \in rows[i].text
          PROVE  Held(e)'
      BY <2>2, <2>3, <2>4, <3>2 DEF RowsGoOn, Held
    <3> QED
      BY <2>5, <3>1, <3>2 DEF Held
  <2>6. \/ saved' = saved
        \/ \E j \in DOMAIN rows' : saved' = saved \cup {lastId'} /\ lastId' \in rows'[j].text
    <3>1. (\E a \in Apps : AppStep(a)) \/ saved' = saved
      BY <1>3, DevicesLeaveApps DEF DocsNext
    <3> QED
      BY <1>1, <2>1, <3>1, AppTellsOn
  <2> QED
    BY <2>5, <2>6 DEF Held
<1> QED
  BY <1>2, <1>3

\* A change an app was told is saved is on the connector, in a vault or given
\* up by the user with the vault that held it, in every reachable state: no
\* push, ack, discard, second device or crash in between loses it.
THEOREM CloudWritesAreKept == DocsSpec => []CloudWritesSurvive
<1> DEFINE Inv == DocsIInv /\ \A e \in saved : Held(e)
<1>1. DocsInit => Inv
  BY InitIInv DEF DocsInit
<1>2. Inv /\ [DocsNext]_vars => Inv'
  BY NextIInv, NextHolds
<1>3. Inv => CloudWritesSurvive
  BY SavedIsHeld
<1> QED
  BY <1>1, <1>2, <1>3, PTL DEF DocsSpec

\* Only the fast-forward changes the head of a vault that a plain down-sync
\* has locked.
LEMMA OnlyApplyMovesHead ==
    ASSUME TypeInv, [DocsNext]_vars, NEW d \in Devices, Planned(d, "sync"),
           vault'[d].head # vault[d].head
    PROVE  \E i \in Waiting(d) : ApplyDown(d, i)
<1>1. DOMAIN vault = Devices /\ Locked(d) /\ vault' # vault
  BY DEF TypeInv, DocsTypeOK, Locked, Planned
<1>2. \A e \in Devices : vault' = [vault EXCEPT ![e] = vault'[e]] => e = d
  BY <1>1
<1>3. \A e \in Devices : vault[e] \in Vault
  BY DEF TypeInv, DocsTypeOK
<1>4. ASSUME NEW a \in Apps, AppStep(a)
      PROVE  FALSE
  BY <1>1, <1>4 DEF AppStep, ReadSeq, ReadRows, WriteRows, WriteRefused, device
<1>5. ASSUME NEW e \in Devices, SyncStep(e)
      PROVE  FALSE
  <2>1. ~Locked(e) /\ \A x \in Devices \ {e} : vault'[x] = vault[x]
    BY <1>1, <1>5 DEF SyncStep, LocalEdit, SyncPush, Uploaded, SyncPull, TakeOtherVault, Adopt
  <2> QED
    BY <1>1, <2>1
<1>6. ASSUME NEW e \in Devices, PushStep(e)
      PROVE  FALSE
  <2>1. CASE ManualPush(e)
    <3>1. ~Locked(e) /\ \A x \in Devices \ {e} : vault'[x] = vault[x]
      BY <1>1, <2>1 DEF ManualPush, Uploaded
    <3> QED
      BY <1>1, <3>1
  <2> QED
    BY <1>1, <1>6, <2>1 DEF PushStep, AutoPush, PushSnapshot, PutAccepted, PushStop
<1>7. ASSUME NEW e \in Devices, KeepMine(e)
      PROVE  FALSE
  <2>1. /\ \A x \in Devices \ {e} : vault'[x] = vault[x]
        /\ down[e].goal = "mine"
    BY <1>1, <1>7 DEF KeepMine, Planned
  <2> QED
    BY <1>1, <2>1 DEF Planned
<1>8. ASSUME NEW e \in Devices, NEW i \in Waiting(e), ApplyDown(e, i) \/ TakeTheirs(e, i)
      PROVE  e = d /\ ApplyDown(e, i)
  <2>1. \A x \in Devices \ {e} : vault'[x] = vault[x]
    BY <1>1, <1>8 DEF ApplyDown, TakeTheirs
  <2>2. e = d
    BY <2>1
  <2> QED
    BY <1>8, <2>2 DEF TakeTheirs, Planned
<1>9. ASSUME NEW e \in Devices, DownStep(e)
      PROVE  \E i \in Waiting(d) : ApplyDown(d, i)
  BY <1>1, <1>7, <1>8, <1>9
     DEF DownStep, DownStart, DownFetch, SettleDown, DiscardPending, AckEntry, DownStop
<1>10. ~UNCHANGED vars
  BY <1>1 DEF vars, device
<1> QED
  BY <1>4, <1>5, <1>6, <1>9, <1>10 DEF DocsNext

\* A cloud version put over a device's head contains the head's every edit:
\* the base an app's write recorded names what the device holds, and a base's
\* text is part of the version written on it.
THEOREM ReplacesKeepLocalEdits == DocsSpec => ReplaceKeepsLocalEdits
<1> DEFINE Contains(d) ==
             (down[d].pc = "plan" /\ down[d].goal = "sync" /\ vault'[d].head # vault[d].head)
             => vault[d].text \subseteq vault'[d].text
<1>1. DocsIInv /\ [DocsNext]_vars => [\A d \in Devices : Contains(d)]_vars
  <2> SUFFICES ASSUME DocsIInv, [DocsNext]_vars, NEW d \in Devices, Planned(d, "sync"),
                      vault'[d].head # vault[d].head
               PROVE  vault[d].text \subseteq vault'[d].text
    BY DEF Planned
  <2>1. TypeInv /\ DOMAIN vault = Devices /\ vault[d] \in Vault
    BY DEF DocsIInv, AllInv, TypeInv, DocsTypeOK
  <2>2. PICK i \in Waiting(d) : ApplyDown(d, i)
    BY <2>1, OnlyApplyMovesHead
  <2>3. PICK T \in Texting : Told(T, lastId, Safe)
    BY DEF DocsIInv, TextInv
  <2>4. /\ i \in DOMAIN down[d].row /\ down[d].row[i].base = vault[d].head
        /\ vault' = [vault EXCEPT ![d] = Installed(vault[d], Next_, down[d].row[i].text)]
    BY <2>2 DEF ApplyDown, FastForward, Waiting
  <2>5. vault'[d].text = down[d].row[i].text
    BY <2>1, <2>4 DEF Installed, Vault
  <2>6. CASE vault[d].head = NoDoc
    BY <2>6 DEF DocsIInv, AllInv, VaultsKeep
  <2>7. CASE vault[d].head # NoDoc
    <3>1. vault[d].text = T[vault[d].head]
      BY <2>3, <2>7 DEF Told, VaultTold
    <3>2. down[d].row[i].text = T[i] /\ T[down[d].row[i].base] \subseteq T[i]
      BY <2>3, <2>4, <2>7 DEF Told, DownTold, RowsTold
    <3> QED
      BY <2>4, <2>5, <3>1, <3>2
  <2> QED
    BY <2>6, <2>7
<1> QED
  BY <1>1, InitIInv, NextIInv, PTL DEF DocsSpec, ReplaceKeepsLocalEdits
=============================================================================
