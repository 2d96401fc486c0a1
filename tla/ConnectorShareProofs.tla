------------------------ MODULE ConnectorShareProofs ------------------------
(***************************************************************************)
(* Why an unshare stays in force and no saved memory is lost, for any      *)
(* devices, apps and bounds.                                               *)
(*                                                                         *)
(* A memory an app was told is saved waits at the connector or is in a     *)
(* vault: no row a device pushed or acked is ever its only copy, because a *)
(* device acks only what its vault was saved with, and no upload replaces  *)
(* a version its vault was not built on.  A row a device may still ack     *)
(* after an unshare is no longer there, since ids are never given twice;   *)
(* and a mark made before an unshare is not later than its tombstone.      *)
(***************************************************************************)
EXTENDS ConnectorShare, FiniteSetTheorems, FunctionTheorems, TLAPS

-----------------------------------------------------------------------------
(* Types.  Every id in use has been given out.                             *)

\* The ids given out.  A memory's name is one of them.
Given == 1..Len(mem)

AppCall == [pc : {"idle", "rows", "write", "forget", "tombs", "list"},
            id : Ids \cup {Never}, hidden : SUBSET Ids, closed : BOOLEAN, since : Nat]
PushCall == [pc : {"idle", "stamp", "snapshot", "put", "rollback"},
             share : BOOLEAN, stamp : Nat, live : SUBSET Ids, sharedAt : Nat]
Copy == [live : SUBSET Ids, gone : SUBSET Ids, sharedAt : Nat, ver : Nat]

\* A vault's entries, kept and forgotten.
Entries(v) == v.live \cup v.gone

\* The same of one call, vault or copy, when the ids G have been given out.
AppOK(o, G) == o \in AppCall /\ (o.pc = "forget" => o.id \in G)
VaultOK(v, G) == v \in Vault /\ Entries(v) \subseteq G
CopyOK(c, G) == c \in Copy /\ Entries(c) \subseteq G
PushOK(o, G) == o \in PushCall /\ o.live \subseteq G
DownOK(o, G) ==
    /\ o \in Down
    /\ o.fetched \cup o.asked \cup o.settled \cup DOMAIN o.local \subseteq G
    /\ \A i \in DOMAIN o.local : o.local[i] \in G

NumbersOK ==
    /\ enforce \in BOOLEAN
    /\ tomb \in Nat /\ order \in Nat /\ now \in Nat /\ marked \in Nat /\ forgotten \in Nat
MemOK ==
    /\ mem \in Seq(Ids) /\ Len(mem) <= MaxId
    /\ \A i \in Given : mem[i] \in Given
RowsOK == waiting \cup held \cup forgets \cup owed \subseteq Given
AppsOK == app \in [Apps -> AppCall] /\ \A a \in Apps : AppOK(app[a], Given)
VaultsOK == vault \in [Devices -> Vault] /\ \A d \in Devices : VaultOK(vault[d], Given)
CloudOK == CopyOK(cloud, Given)
DownsOK == down \in [Devices -> Down] /\ \A d \in Devices : DownOK(down[d], Given)
PushesOK == push \in [Devices -> PushCall] /\ \A d \in Devices : PushOK(push[d], Given)

TypeInv ==
    NumbersOK /\ MemOK /\ RowsOK /\ AppsOK /\ VaultsOK /\ CloudOK /\ DownsOK /\ PushesOK

LEMMA GivenAreIds == MemOK => Given \subseteq Ids /\ Len(mem) \in Nat
BY ShareAssumption DEF MemOK, Given, Ids

LEMMA TypesFollow == TypeInv => ShareTypeOK
BY GivenAreIds DEF TypeInv, ShareTypeOK, NumbersOK, MemOK, RowsOK, AppsOK, VaultsOK, CloudOK,
   CopyOK, Copy, DownsOK, PushesOK, AppCall, PushCall

\* The idle calls.
LEMMA IdleOK ==
    ASSUME NEW G
    PROVE  AppOK(IdleApp, G) /\ DownOK(IdleDown, G) /\ PushOK(IdlePush, G)
<1>1. IdleApp \in AppCall /\ IdleApp.pc = "idle"
  BY DEF IdleApp, AppCall, Never
<1>2. IdlePush \in PushCall /\ IdlePush.live = {}
  BY DEF IdlePush, PushCall, Never
<1>3. IdleDown \in Down /\ DownOK(IdleDown, G)
  <2>1. IdleDown.local \in [{} -> Ids] /\ DOMAIN IdleDown.local = {}
    BY DEF IdleDown
  <2>2. IdleDown.local \in UNION {[S -> Ids] : S \in SUBSET Ids}
    BY <2>1
  <2> QED BY <2>1, <2>2 DEF IdleDown, Down, DownOK
<1> QED BY <1>1, <1>2, <1>3 DEF AppOK, PushOK

\* One call or vault changes.
LEMMA AppMoves ==
    ASSUME AppsOK, NEW a \in Apps, NEW o, AppGoes(a, o), AppOK(o, Given), UNCHANGED mem
    PROVE  AppsOK'
BY DEF AppsOK, AppGoes, AppOK, Given

LEMMA VaultMoves ==
    ASSUME VaultsOK, NEW d \in Devices, NEW v, vault' = [vault EXCEPT ![d] = v],
           VaultOK(v, Given), UNCHANGED mem
    PROVE  VaultsOK'
BY DEF VaultsOK, VaultOK, Given

LEMMA DownMoves ==
    ASSUME DownsOK, NEW d \in Devices, NEW o, DownGoes(d, o), DownOK(o, Given), UNCHANGED mem
    PROVE  DownsOK'
BY DEF DownsOK, DownGoes, DownOK, Given

LEMMA PushMoves ==
    ASSUME PushesOK, NEW d \in Devices, NEW o, push' = [push EXCEPT ![d] = o],
           PushOK(o, Given), UNCHANGED mem
    PROVE  PushesOK'
BY DEF PushesOK, PushOK, Given

\* Nothing changes but, perhaps, that more ids are given out.
LEMMA Untouched ==
    ASSUME MemOK, MemOK', Len(mem) <= Len(mem')
    PROVE  /\ Given \subseteq Given'
           /\ RowsOK /\ UNCHANGED <<waiting, held, forgets, owed>> => RowsOK'
           /\ AppsOK /\ UNCHANGED app => AppsOK'
           /\ VaultsOK /\ UNCHANGED vault => VaultsOK'
           /\ CloudOK /\ UNCHANGED cloud => CloudOK'
           /\ DownsOK /\ UNCHANGED down => DownsOK'
           /\ PushesOK /\ UNCHANGED push => PushesOK'
<1>1. Given \subseteq Given'
  BY DEF MemOK, Given
<1> QED
  BY <1>1 DEF RowsOK, AppsOK, VaultsOK, CloudOK, DownsOK, PushesOK, AppOK, VaultOK, CopyOK,
     DownOK, PushOK

-----------------------------------------------------------------------------
(* The ids a down-sync gives to what it adds.                              *)

\* The ranks of a finite set of numbers count it through.
LEMMA RankFacts ==
    ASSUME NEW S \in SUBSET Nat, IsFiniteSet(S)
    PROVE  /\ Cardinality(S) \in Nat
           /\ \A i \in S : Rank(S, i) \in 1..Cardinality(S)
           /\ \A i, j \in S : Rank(S, i) = Rank(S, j) => i = j
           /\ \A n \in 1..Cardinality(S) : \E i \in S : Rank(S, i) = n
<1> DEFINE UpTo(i) == {j \in S : j <= i}
           rank == [i \in S |-> Rank(S, i)]
           N == 1..Cardinality(S)
<1>1. Cardinality(S) \in Nat
  BY FS_CardinalityType
<1>2. ASSUME NEW i \in S
      PROVE  /\ IsFiniteSet(UpTo(i)) /\ Cardinality(UpTo(i)) \in Nat
             /\ Rank(S, i) \in N
  <2>1. UpTo(i) \in SUBSET S /\ i \in UpTo(i)
    OBVIOUS
  <2>2. IsFiniteSet(UpTo(i)) /\ Cardinality(UpTo(i)) <= Cardinality(S)
    BY <2>1, FS_Subset
  <2>3. Cardinality(UpTo(i)) \in Nat /\ Cardinality(UpTo(i)) # 0
    BY <2>1, <2>2, FS_CardinalityType, FS_EmptySet
  <2> QED BY <1>1, <2>2, <2>3 DEF Rank
<1>3. ASSUME NEW i \in S, NEW j \in S, i < j PROVE Rank(S, i) # Rank(S, j)
  <2>1. \A k \in S : k <= i => k <= j
    BY <1>3
  <2>2. UpTo(i) \in SUBSET UpTo(j) /\ j \in UpTo(j)
    <3>1. \A k \in UpTo(i) : k \in UpTo(j)
      BY <2>1
    <3>2. j \in Nat /\ j <= j
      OBVIOUS
    <3> QED BY <3>1, <3>2
  <2>3. j \notin UpTo(i)
    BY <1>3
  <2>4. Cardinality(UpTo(i)) # Cardinality(UpTo(j))
    BY <1>2, <2>2, <2>3, FS_Subset
  <2> QED BY <2>4 DEF Rank
<1>4. \A i, j \in S : Rank(S, i) = Rank(S, j) => i = j
  <2> SUFFICES ASSUME NEW i \in S, NEW j \in S, i # j PROVE Rank(S, i) # Rank(S, j)
    OBVIOUS
  <2>1. i < j \/ j < i
    OBVIOUS
  <2> QED BY <2>1, <1>3
<1>5. rank \in Injection(S, N)
  BY <1>2, <1>4, Fun_IsInj
<1>6. IsFiniteSet(N) /\ Cardinality(N) = Cardinality(S)
  BY <1>1, FS_Interval
<1>7. rank \in Surjection(S, N)
  BY <1>5, <1>6, FS_Injection
<1>8. \A n \in N : \E i \in S : rank[i] = n
  <2> HIDE DEF rank, N
  <2> QED BY <1>7, Fun_SurjectionProperties
<1> QED BY <1>1, <1>2, <1>4, <1>8

\* What a down-sync adds gets an id of its own, and each id it acks with
\* holds the memory of the row.
LEMMA Applied ==
    ASSUME TypeInv, NEW d \in Devices, ApplyDown(d)
    PROVE  /\ MemOK' /\ Len(mem) <= Len(mem')
           /\ \A i \in Given : mem'[i] = mem[i]
           /\ \A i \in down[d].fetched :
                /\ LocalId(d, i) \in Given'
                /\ mem'[LocalId(d, i)] = mem[i]
           /\ \A i \in New(d) : LocalId(d, i) \notin Given
           /\ \A i \in down[d].fetched \ New(d) : LocalId(d, i) \in vault[d].live
<1> DEFINE new == New(d)
           L == Len(mem)
           K == L + Cardinality(new)
           From(n) == CHOOSE i \in new : LocalId(d, i) = n
<1>1. /\ L \in Nat /\ Given = 1..L /\ mem \in Seq(Ids) /\ \A i \in Given : mem[i] \in Given
      /\ down[d].fetched \subseteq Given /\ vault[d].live \subseteq Given
  BY DEF TypeInv, MemOK, Given, DownsOK, DownOK, VaultsOK, VaultOK, Entries
<1>2. new \in SUBSET Nat /\ IsFiniteSet(new) /\ new \subseteq down[d].fetched
  <2>1. new \in SUBSET (1..L)
    BY <1>1 DEF New
  <2>2. IsFiniteSet(1..L)
    BY <1>1, FS_Interval
  <2>3. IsFiniteSet(new)
    BY <2>1, <2>2, FS_Subset
  <2> QED BY <2>1, <2>3 DEF New
<1>3. /\ Cardinality(new) \in Nat
      /\ \A i \in new : Rank(new, i) \in 1..Cardinality(new)
      /\ \A i, j \in new : Rank(new, i) = Rank(new, j) => i = j
      /\ \A n \in 1..Cardinality(new) : \E i \in new : Rank(new, i) = n
  BY <1>2, RankFacts
<1>4. \A i \in new : LocalId(d, i) = L + Rank(new, i)
  BY DEF LocalId
<1>5. \A n \in (L + 1)..K : \E i \in new : LocalId(d, i) = n
  <2> SUFFICES ASSUME NEW n \in (L + 1)..K PROVE \E i \in new : LocalId(d, i) = n
    OBVIOUS
  <2>1. n - L \in 1..Cardinality(new)
    BY <1>1, <1>3
  <2>2. PICK i \in new : Rank(new, i) = n - L
    BY <2>1, <1>3
  <2> QED BY <2>2, <1>1, <1>3, <1>4
<1>6. \A i, j \in new : LocalId(d, i) = LocalId(d, j) => i = j
  BY <1>1, <1>3, <1>4
<1>7. K <= MaxId
  BY DEF ApplyDown, CanName
<1>8. mem' = [n \in 1..K |-> IF n <= L THEN mem[n] ELSE mem[From(n)]]
  BY DEF ApplyDown
<1>9. \A n \in (L + 1)..K : mem'[n] \in Given
  BY <1>1, <1>2, <1>5, <1>8
<1>10. \A n \in Given : mem'[n] = mem[n]
  BY <1>1, <1>3, <1>8
<1>11. mem' \in [1..K -> Ids] /\ \A n \in 1..K : mem'[n] \in 1..K
  <2>1. \A n \in 1..K : mem'[n] \in Given
    BY <1>1, <1>3, <1>9, <1>10
  <2>2. Given \subseteq Ids /\ Given \subseteq 1..K
    BY <1>1, <1>3, GivenAreIds DEF TypeInv
  <2> QED BY <2>1, <2>2, <1>8
<1>12. mem' \in Seq(Ids) /\ Len(mem') = K
  <2>1. K \in Nat
    BY <1>1, <1>3
  <2> HIDE DEF K
  <2> QED BY <2>1, <1>11
<1>13. MemOK' /\ L <= Len(mem') /\ Given' = 1..K
  BY <1>1, <1>3, <1>7, <1>11, <1>12 DEF MemOK, Given
<1>14. ASSUME NEW i \in new
       PROVE  LocalId(d, i) \in 1..K /\ LocalId(d, i) \notin Given /\ mem'[LocalId(d, i)] = mem[i]
  <2>1. LocalId(d, i) \in (L + 1)..K
    BY <1>1, <1>3, <1>4
  <2>2. From(LocalId(d, i)) = i
    BY <1>6
  <2>3. LocalId(d, i) \in 1..K /\ ~(LocalId(d, i) <= L)
    BY <2>1, <1>1, <1>3
  <2> HIDE DEF new, K, From
  <2> QED BY <2>2, <2>3, <1>1, <1>8
<1>15. ASSUME NEW i \in down[d].fetched \ new
       PROVE  LocalId(d, i) \in vault[d].live /\ mem[LocalId(d, i)] = mem[i]
  <2>1. Present(d, i) # {} /\ LocalId(d, i) = CHOOSE j \in Present(d, i) : TRUE
    BY DEF LocalId, New
  <2>2. LocalId(d, i) \in Present(d, i)
    BY <2>1
  <2> QED BY <2>2 DEF Present
<1>16. ASSUME NEW i \in down[d].fetched
       PROVE  LocalId(d, i) \in Given' /\ mem'[LocalId(d, i)] = mem[i]
  <2>1. CASE i \in new
    BY <2>1, <1>13, <1>14
  <2>2. CASE i \notin new
    <3>1. LocalId(d, i) \in Given /\ mem[LocalId(d, i)] = mem[i]
      BY <2>2, <1>1, <1>15
    <3> QED BY <3>1, <1>1, <1>3, <1>10, <1>13
  <2> QED BY <2>1, <2>2
<1> HIDE DEF K
<1> QED BY <1>10, <1>13, <1>14, <1>15, <1>16

-----------------------------------------------------------------------------
(* Types of every step.                                                    *)

LEMMA InitTyped == ShareInit => TypeInv
<1> SUFFICES ASSUME ShareInit PROVE TypeInv
  OBVIOUS
<1>1. mem = <<1>> /\ 1 \in Ids /\ Given = {1}
  BY ShareAssumption DEF ShareInit, Ids, Given
<1>2. NumbersOK /\ MemOK /\ RowsOK
  BY <1>1, ShareAssumption DEF ShareInit, NumbersOK, MemOK, RowsOK, Never
<1>3. VaultsOK /\ CloudOK
  BY DEF ShareInit, VaultsOK, VaultOK, CloudOK, CopyOK, Copy, Vault, Entries
<1>4. AppsOK /\ DownsOK /\ PushesOK
  BY IdleOK DEF ShareInit, AppsOK, AppOK, DownsOK, DownOK, PushesOK, PushOK
<1> QED BY <1>2, <1>3, <1>4 DEF TypeInv

LEMMA AppTyped == ASSUME TypeInv, NEW a \in Apps, AppStep(a) PROVE TypeInv'
<1> USE DEF TypeInv
<1>1. AppOK(app[a], Given)
  BY DEF AppsOK
<1>2. ASSUME NEW o, AppReads(a, o), AppOK(o, Given) PROVE TypeInv'
  BY <1>2, AppMoves, Untouched DEF AppReads, server, device, history, NumbersOK, MemOK, Given
<1>3. CASE RememberStart(a)
  <2>1. AppOK([IdleApp EXCEPT !.pc = "rows"], Given)
    BY DEF AppOK, AppCall, IdleApp, Never
  <2> QED BY <1>2, <1>3, <2>1 DEF RememberStart
<1>4. CASE RememberCheck(a)
  <2>1. AppOK([IdleApp EXCEPT !.pc = "write"], Given)
    BY DEF AppOK, AppCall, IdleApp, Never
  <2>2. AppOK(IF held = {} THEN IdleApp ELSE [IdleApp EXCEPT !.pc = "write"], Given)
    BY <2>1, IdleOK
  <2> QED BY <1>2, <1>4, <2>2 DEF RememberCheck
<1>5. CASE RememberWrite(a)
  <2>1. mem' = Append(mem, NextId) /\ NextId = Len(mem) + 1 /\ NextId <= MaxId
    BY <1>5, GivenAreIds DEF RememberWrite, CanName, NextId
  <2>2. /\ MemOK' /\ Len(mem) <= Len(mem') /\ NextId \in Given'
    <3>1. Len(mem) \in Nat /\ NextId \in Ids
      BY <2>1, GivenAreIds DEF Ids
    <3>2. mem' \in Seq(Ids) /\ Len(mem') = Len(mem) + 1
      BY <2>1, <3>1 DEF MemOK
    <3>3. \A i \in Given' : mem'[i] \in Given'
      <4> SUFFICES ASSUME NEW i \in Given' PROVE mem'[i] \in Given'
        OBVIOUS
      <4>1. CASE i \in Given
        BY <2>1, <3>1, <3>2, <4>1 DEF MemOK, Given
      <4>2. CASE i = NextId
        BY <2>1, <3>1, <3>2, <4>2 DEF MemOK, Given
      <4> QED BY <2>1, <3>1, <3>2, <4>1, <4>2 DEF Given
    <3> QED BY <2>1, <3>1, <3>2, <3>3 DEF MemOK, Given
  <2>3. RowsOK'
    BY <1>5, <2>2, Untouched DEF RememberWrite, RowsOK
  <2>4. NumbersOK' /\ UNCHANGED <<vault, cloud, down, push>>
    BY <1>5 DEF RememberWrite, NumbersOK, device
  <2>5. AppsOK'
    <3>1. app' = [app EXCEPT ![a] = IdleApp]
      BY <1>5 DEF RememberWrite, AppGoes
    <3> QED BY <3>1, <2>2, IdleOK, Untouched DEF AppsOK, AppOK
  <2> QED BY <2>2, <2>3, <2>4, <2>5, Untouched
<1>6. CASE ForgetFind(a)
  <2>1. PICK i \in waiting \cup held : AppReads(a, [IdleApp EXCEPT !.pc = "forget", !.id = i])
    BY <1>6 DEF ForgetFind
  <2>2. i \in Given /\ i \in Ids
    BY GivenAreIds DEF RowsOK
  <2>3. AppOK([IdleApp EXCEPT !.pc = "forget", !.id = i], Given)
    BY <2>2 DEF AppOK, AppCall, IdleApp, Never
  <2> QED BY <1>2, <2>1, <2>3
<1>7. CASE ForgetQueue(a)
  <2>1. app[a].id \in Given
    BY <1>1, <1>7 DEF AppOK, ForgetQueue, AppIs
  <2>2. RowsOK' /\ NumbersOK' /\ MemOK'
    BY <1>7, <2>1 DEF ForgetQueue, RowsOK, NumbersOK, MemOK, Given
  <2>3. AppsOK'
    BY <1>7, AppMoves, IdleOK DEF ForgetQueue
  <2>4. UNCHANGED <<mem, vault, cloud, down, push>> /\ Len(mem) <= Len(mem')
    BY <1>7, GivenAreIds DEF ForgetQueue, device
  <2> QED BY <2>2, <2>3, <2>4, Untouched
<1>8. CASE ListForgets(a)
  <2>1. forgets \subseteq Ids
    BY GivenAreIds DEF RowsOK
  <2>2. AppOK([IdleApp EXCEPT !.pc = "tombs", !.hidden = forgets,
                              !.since = IF Revoked THEN marked ELSE Never], Given)
    BY <2>1 DEF AppOK, AppCall, IdleApp, Never, NumbersOK
  <2> QED BY <1>2, <1>8, <2>2 DEF ListForgets
<1>9. CASE ListTombs(a)
  <2>1. AppOK([IdleApp EXCEPT !.pc = "list", !.closed = TRUE], Given)
    BY DEF AppOK, AppCall, IdleApp, Never
  <2>2. AppOK([app[a] EXCEPT !.pc = "list"], Given)
    BY <1>1 DEF AppOK, AppCall
  <2>3. CASE tomb # Never
    BY <1>2, <1>9, <2>1, <2>3 DEF ListTombs
  <2>4. CASE tomb = Never
    BY <1>2, <1>9, <2>2, <2>4 DEF ListTombs
  <2> QED BY <2>3, <2>4
<1>10. CASE ListRows(a)
  BY <1>2, <1>10, IdleOK DEF ListRows
<1> QED BY <1>3, <1>4, <1>5, <1>6, <1>7, <1>8, <1>9, <1>10 DEF AppStep

\* What a step that gives out no id has to show.
LEMMA StepTyped ==
    ASSUME TypeInv, UNCHANGED <<mem, app>>,
           RowsOK', NumbersOK', VaultsOK', CloudOK', DownsOK', PushesOK'
    PROVE  TypeInv'
<1>1. MemOK' /\ Len(mem) <= Len(mem')
  BY GivenAreIds DEF TypeInv, MemOK, Given
<1> QED BY <1>1, Untouched DEF TypeInv

LEMMA Stays ==
    ASSUME TypeInv, UNCHANGED mem
    PROVE  /\ UNCHANGED <<waiting, held, forgets, owed>> => RowsOK'
           /\ UNCHANGED vault => VaultsOK'
           /\ UNCHANGED cloud => CloudOK'
           /\ UNCHANGED down => DownsOK'
           /\ UNCHANGED push => PushesOK'
           /\ UNCHANGED <<enforce, tomb, order, now, marked, forgotten>> => NumbersOK'
<1>1. MemOK' /\ Len(mem) <= Len(mem')
  BY GivenAreIds DEF TypeInv, MemOK, Given
<1> QED BY <1>1, Untouched DEF TypeInv, NumbersOK

\* An upload makes the sync server's copy of the vault.
LEMMA UploadTyped ==
    ASSUME TypeInv, NEW d \in Devices, Uploaded(d), UNCHANGED mem
    PROVE  VaultsOK' /\ CloudOK'
<1> DEFINE v == [vault[d] EXCEPT !.ver = cloud.ver + 1, !.dirty = FALSE]
<1>1. vault[d] \in Vault /\ VaultOK(vault[d], Given) /\ cloud \in Copy
  BY DEF TypeInv, VaultsOK, CloudOK, CopyOK
<1>2. VaultOK(v, Given)
  <2>1. cloud.ver + 1 \in Nat
    BY <1>1 DEF Copy
  <2> QED BY <1>1, <2>1 DEF VaultOK, Vault, Entries
<1>3. vault' = [vault EXCEPT ![d] = v]
  BY DEF Uploaded
<1>4. VaultsOK'
  BY <1>2, <1>3, VaultMoves DEF TypeInv
<1>5. CloudOK'
  <2>1. cloud' = [live |-> vault[d].live, gone |-> vault[d].gone,
                  sharedAt |-> vault[d].sharedAt, ver |-> cloud.ver + 1]
    BY DEF Uploaded
  <2>2. cloud' \in Copy
    BY <1>1, <2>1 DEF Copy, Vault
  <2>3. Entries(cloud') \subseteq Given
    BY <1>1, <2>1 DEF Entries, VaultOK
  <2> QED BY <2>2, <2>3 DEF CloudOK, CopyOK, Given
<1> QED BY <1>4, <1>5

LEMMA SavedTyped ==
    ASSUME TypeInv, NEW d \in Devices, NEW t \in Nat, UNCHANGED mem,
           Saved(d, [vault[d] EXCEPT !.sharedAt = t])
    PROVE  VaultsOK'
<1> DEFINE v == [[vault[d] EXCEPT !.sharedAt = t] EXCEPT !.dirty = TRUE]
<1>1. VaultOK(vault[d], Given)
  BY DEF TypeInv, VaultsOK
<1>2. VaultOK(v, Given) /\ vault' = [vault EXCEPT ![d] = v]
  BY <1>1 DEF VaultOK, Vault, Entries, Saved
<1> QED BY <1>2, VaultMoves DEF TypeInv

LEMMA SyncTyped == ASSUME TypeInv, NEW d \in Devices, SyncStep(d) PROVE TypeInv'
<1>1. CASE SyncPush(d)
  BY <1>1, Stays, UploadTyped, StepTyped DEF SyncPush, server, history
<1>2. CASE SyncPull(d)
  <2> DEFINE v == [live |-> cloud.live, gone |-> cloud.gone,
                   sharedAt |-> cloud.sharedAt, ver |-> cloud.ver, dirty |-> FALSE]
  <2>1. VaultOK(v, Given)
    BY DEF TypeInv, CloudOK, CopyOK, Copy, VaultOK, Vault, Entries
  <2>2. VaultsOK'
    BY <1>2, <2>1, VaultMoves DEF SyncPull, TypeInv
  <2>3. RowsOK'
    BY <1>2 DEF SyncPull, server, TypeInv, RowsOK, Given
  <2> QED BY <1>2, <2>2, <2>3, Stays, StepTyped DEF SyncPull, server
<1> QED BY <1>1, <1>2 DEF SyncStep

LEMMA ScopeTyped == ASSUME TypeInv, NEW d \in Devices, ScopeStep(d) PROVE TypeInv'
<1>1. now \in Nat /\ now + 1 \in Nat /\ Never \in Nat
  BY DEF TypeInv, NumbersOK, Never
<1>2. CASE ShareMark(d)
  <2>1. VaultsOK'
    BY <1>1, <1>2, SavedTyped DEF ShareMark
  <2>2. PushOK([IdlePush EXCEPT !.pc = "stamp", !.share = TRUE], Given)
    BY DEF PushOK, PushCall, IdlePush, Never
  <2>3. PushesOK'
    BY <1>2, <2>2, PushMoves DEF ShareMark, TypeInv
  <2>4. NumbersOK'
    BY <1>1, <1>2 DEF ShareMark, server, TypeInv, NumbersOK
  <2> QED BY <1>2, <2>1, <2>3, <2>4, Stays, StepTyped DEF ShareMark, server
<1>3. CASE ShareRollback(d)
  <2>1. VaultsOK'
    BY <1>1, <1>3, SavedTyped DEF ShareRollback
  <2>2. PushesOK'
    BY <1>3, IdleOK, PushMoves DEF ShareRollback, TypeInv
  <2> QED BY <1>3, <2>1, <2>2, Stays, StepTyped DEF ShareRollback, server, history
<1>4. CASE UnshareServer(d)
  <2>1. DownOK([IdleDown EXCEPT !.pc = "unmark"], Given)
    <3>1. DownOK(IdleDown, Given)
      BY IdleOK
    <3> QED BY <3>1 DEF DownOK, Down
  <2>2. DownsOK'
    BY <1>4, <2>1, DownMoves DEF UnshareServer, TypeInv, DownGoes
  <2>3. NumbersOK' /\ RowsOK'
    BY <1>1, <1>4 DEF UnshareServer, TypeInv, NumbersOK, RowsOK, Given
  <2> QED BY <1>4, <2>2, <2>3, Stays, StepTyped DEF UnshareServer
<1>5. CASE UnshareLocal(d)
  <2>1. VaultsOK'
    BY <1>1, <1>5, SavedTyped DEF UnshareLocal
  <2>2. DownsOK'
    BY <1>5, IdleOK, DownMoves DEF UnshareLocal, TypeInv, DownGoes
  <2> QED BY <1>5, <2>1, <2>2, Stays, StepTyped DEF UnshareLocal, server, history
<1> QED BY <1>2, <1>3, <1>4, <1>5 DEF ScopeStep

LEMMA DownTyped == ASSUME TypeInv, NEW d \in Devices, DownStep(d) PROVE TypeInv'
<1>1. DownOK(down[d], Given) /\ waiting \subseteq Ids /\ held \subseteq Ids /\ forgets \subseteq Ids
  BY GivenAreIds DEF TypeInv, DownsOK, RowsOK
<1>2. ASSUME NEW o, DownGoes(d, o), DownOK(o, Given), UNCHANGED <<mem, app>>
      PROVE  DownsOK'
  BY <1>2, DownMoves DEF TypeInv
<1>3. CASE DownStart(d)
  <2>1. DownOK(IdleDown, Given)
    BY IdleOK
  <2>2. DownOK([IdleDown EXCEPT !.pc = "start"], Given)
    BY <2>1 DEF DownOK, Down
  <2> QED BY <1>2, <1>3, <2>2, Stays, StepTyped DEF DownStart, server, history
<1>4. CASE DownPending(d)
  <2>1. DownOK([down[d] EXCEPT !.pc = "tombs", !.fetched = waiting], Given)
    BY <1>1 DEF DownOK, Down, TypeInv, RowsOK
  <2> QED BY <1>2, <1>4, <2>1, Stays, StepTyped DEF DownPending, server, history
<1>5. CASE DownTombs(d)
  <2>1. DownOK([down[d] EXCEPT !.pc = "forgets", !.unshared = tomb # Never], Given)
    BY <1>1 DEF DownOK, Down
  <2> QED BY <1>2, <1>5, <2>1, Stays, StepTyped DEF DownTombs, server, history
<1>6. CASE DownForgets(d)
  <2>1. DownOK([down[d] EXCEPT !.pc = "plan", !.asked = forgets, !.unshared = FALSE,
                               !.fetched = (@ \ Purged(d)) \ forgets], Given)
    BY <1>1 DEF DownOK, Down, TypeInv, RowsOK
  <2>2. RowsOK'
    BY <1>6 DEF DownForgets, TypeInv, RowsOK, Given, history
  <2> QED BY <1>2, <1>6, <2>1, <2>2, Stays, StepTyped DEF DownForgets, history
<1>7. CASE ApplyDown(d)
  <2>1. /\ MemOK' /\ Len(mem) <= Len(mem') /\ Given \subseteq Given' /\ Given' \subseteq Ids
        /\ \A i \in down[d].fetched : LocalId(d, i) \in Given'
    <3>1. MemOK' /\ Len(mem) <= Len(mem') /\ \A i \in down[d].fetched : LocalId(d, i) \in Given'
      BY <1>7, Applied
    <3>2. Given' \subseteq Ids
      BY <3>1, ShareAssumption DEF MemOK, Given, Ids
    <3> QED BY <3>1, <3>2, Untouched DEF TypeInv
  <2>2. UNCHANGED <<enforce, waiting, held, forgets, tomb, order, app, cloud, push, now, marked,
                    owed, forgotten>>
    BY <1>7 DEF ApplyDown, server, history
  <2>3. PICK approved \in SUBSET (down[d].asked \cap vault[d].live) :
          LET added == {LocalId(d, i) : i \in New(d)}  v == vault[d] IN
          /\ vault' = [vault EXCEPT ![d] =
                           [v EXCEPT !.live = (v.live \ approved) \cup added,
                                     !.gone = v.gone \cup approved,
                                     !.dirty = v.dirty \/ added # {} \/ approved # {}]]
          /\ DownGoes(d, [IdleDown EXCEPT !.pc = "ack",
                              !.local = [i \in down[d].fetched |-> LocalId(d, i)],
                              !.settled = (down[d].asked \ v.live) \cup approved])
    BY <1>7 DEF ApplyDown
  <2>4. down[d].fetched \subseteq Given /\ down[d].asked \subseteq Given /\ Given \subseteq Ids
    BY <1>1, GivenAreIds DEF DownOK, TypeInv
  <2>5. DownsOK'
    <3> DEFINE f == [i \in down[d].fetched |-> LocalId(d, i)]
               settled == (down[d].asked \ vault[d].live) \cup approved
               o == [IdleDown EXCEPT !.pc = "ack", !.local = f, !.settled = settled]
    <3>1. f \in [down[d].fetched -> Ids] /\ DOMAIN f = down[d].fetched
          /\ \A i \in DOMAIN f : f[i] \in Given'
      BY <2>1
    <3>2. f \in UNION {[S -> Ids] : S \in SUBSET Ids}
      BY <3>1, <2>4
    <3>3. settled \subseteq Given
      BY <2>4
    <3> HIDE DEF f, settled
    <3>4. o \in Down /\ o.fetched = {} /\ o.asked = {} /\ o.settled = settled /\ o.local = f
      BY <3>2, <3>3, <2>4 DEF Down, IdleDown
    <3>5. DownOK(o, Given')
      BY <3>1, <3>3, <3>4, <2>1, <2>4 DEF DownOK
    <3>6. down' = [down EXCEPT ![d] = o]
      BY <2>3 DEF DownGoes, f, settled
    <3> HIDE DEF o
    <3>7. \A e \in Devices : DownOK(down[e], Given')
      BY <2>1 DEF TypeInv, DownsOK, DownOK
    <3> QED BY <3>4, <3>5, <3>6, <3>7 DEF TypeInv, DownsOK
  <2>6. VaultsOK'
    <3> DEFINE added == {LocalId(d, i) : i \in New(d)}
               v == vault[d]
               w == [v EXCEPT !.live = (v.live \ approved) \cup added,
                              !.gone = v.gone \cup approved,
                              !.dirty = v.dirty \/ added # {} \/ approved # {}]
    <3>1. added \subseteq Given'
      BY <2>1 DEF New
    <3>2. vault' = [vault EXCEPT ![d] = w]
      BY <2>3
    <3>3. v \in Vault /\ Entries(v) \subseteq Given /\ approved \subseteq Given
      BY <2>4 DEF TypeInv, VaultsOK, VaultOK
    <3> HIDE DEF added
    <3>4. w \in Vault /\ Entries(w) \subseteq Given'
      BY <3>1, <3>3, <2>1, <2>4 DEF Vault, Entries
    <3>5. \A e \in Devices : VaultOK(vault[e], Given')
      BY <2>1 DEF TypeInv, VaultsOK, VaultOK
    <3> HIDE DEF w
    <3> QED BY <3>2, <3>4, <3>5 DEF TypeInv, VaultsOK, VaultOK
  <2> QED BY <2>1, <2>2, <2>5, <2>6, Untouched DEF TypeInv, NumbersOK
<1>8. CASE AckEntries(d)
  <2>1. DownOK([IdleDown EXCEPT !.pc = "settle", !.settled = down[d].settled], Given)
    BY <1>1, IdleOK DEF DownOK, Down
  <2>2. RowsOK'
    BY <1>1, <1>8 DEF AckEntries, DownOK, TypeInv, RowsOK, Given, history
  <2> QED BY <1>2, <1>8, <2>1, <2>2, Stays, StepTyped DEF AckEntries, history
<1>9. CASE AckForgets(d)
  <2>1. RowsOK'
    BY <1>9 DEF AckForgets, TypeInv, RowsOK, Given, history
  <2> QED BY <1>2, <1>9, IdleOK, <2>1, Stays, StepTyped DEF AckForgets, history
<1>10. CASE DownStop(d)
  BY <1>2, <1>10, IdleOK, Stays, StepTyped DEF DownStop, server, history
<1> QED BY <1>3, <1>4, <1>5, <1>6, <1>7, <1>8, <1>9, <1>10 DEF DownStep

LEMMA PushTyped == ASSUME TypeInv, NEW d \in Devices, PushStep(d) PROVE TypeInv'
<1>1. /\ PushOK(push[d], Given) /\ VaultOK(vault[d], Given) /\ cloud \in Copy /\ CloudOK
  BY DEF TypeInv, PushesOK, VaultsOK, CloudOK, CopyOK
<1>2. ASSUME NEW o, PushGoes(d, o), PushOK(o, Given), UNCHANGED mem PROVE PushesOK'
  BY <1>2, PushMoves DEF TypeInv, PushGoes
<1>3. PushOK([IdlePush EXCEPT !.pc = "rollback"], Given) /\ PushOK(IdlePush, Given)
  BY IdleOK DEF PushOK, PushCall
<1>4. CASE AutoPush(d)
  <2>1. PushOK([IdlePush EXCEPT !.pc = "snapshot", !.stamp = cloud.ver], Given)
    BY <1>1, IdleOK DEF PushOK, PushCall, Copy
  <2> QED BY <1>2, <1>4, <2>1, Stays, StepTyped DEF AutoPush, server, history
<1>5. CASE ManualPush(d)
  <2>1. PushOK([IdlePush EXCEPT !.pc = "stamp"], Given)
    BY IdleOK DEF PushOK, PushCall
  <2> QED BY <1>2, <1>5, <2>1, Stays, StepTyped DEF ManualPush, server, history
<1>6. CASE PushStamp(d)
  <2>1. UNCHANGED mem /\ VaultsOK' /\ CloudOK'
    BY <1>6, Stays, UploadTyped DEF PushStamp
  <2>2. PushOK([push[d] EXCEPT !.pc = "snapshot", !.stamp = cloud'.ver], Given)
    BY <1>1, <2>1 DEF PushOK, PushCall, CloudOK, CopyOK, Copy
  <2> QED BY <1>2, <1>6, <2>1, <2>2, Stays, StepTyped DEF PushStamp, server, history
<1>7. CASE PushSnapshot(d)
  <2>1. PushOK([push[d] EXCEPT !.pc = "put", !.live = vault[d].live,
                               !.sharedAt = vault[d].sharedAt], Given)
    BY <1>1 DEF PushOK, PushCall, VaultOK, Vault, Entries
  <2>2. PushesOK'
    BY <1>2, <1>3, <1>7, <2>1 DEF PushSnapshot
  <2> QED BY <1>7, <2>2, Stays, StepTyped DEF PushSnapshot, server, history
<1>8. CASE PutAccepted(d)
  <2>1. PushesOK'
    BY <1>2, <1>3, <1>8 DEF PutAccepted
  <2>2. RowsOK' /\ NumbersOK'
    BY <1>1, <1>8 DEF PutAccepted, PushOK, PushCall, TypeInv, RowsOK, NumbersOK, Given, history, Never
  <2> QED BY <1>8, <2>1, <2>2, Stays, StepTyped DEF PutAccepted
<1>9. CASE PushStop(d)
  <2>1. PushesOK'
    BY <1>2, <1>3, <1>9 DEF PushStop
  <2> QED BY <1>9, <2>1, Stays, StepTyped DEF PushStop, server, history
<1> QED BY <1>4, <1>5, <1>6, <1>7, <1>8, <1>9 DEF PushStep

LEMMA NextTyped == TypeInv /\ [ShareNext]_vars => TypeInv'
<1> SUFFICES ASSUME TypeInv, [ShareNext]_vars PROVE TypeInv'
  OBVIOUS
<1>1. CASE UNCHANGED vars
  BY <1>1, Stays, StepTyped DEF vars, server, device, history
<1> QED BY <1>1, AppTyped, SyncTyped, ScopeTyped, DownTyped, PushTyped DEF ShareNext

-----------------------------------------------------------------------------
(* The invariant.                                                          *)

InVaults == Entries(cloud) \cup UNION {Entries(vault[d]) : d \in Devices}

\* An unacked row names its own memory.
Originals ==
    /\ \A i \in waiting : mem[i] = i
    /\ \A d \in Devices : \A i \in down[d].fetched \cup DOMAIN down[d].local : mem[i] = i

\* A vault that names the sync server's version holds that version's entries.
VersionsKnown ==
    \A d \in Devices :
        /\ vault[d].ver <= cloud.ver
        /\ vault[d].ver = cloud.ver => Entries(cloud) \subseteq Entries(vault[d])

\* What a device is about to ack is in its vault, under the id it acks with.
AcksAreSaved ==
    \A d \in Devices :
        /\ DOMAIN down[d].local # {} => down[d].pc = "ack"
        /\ \A i \in DOMAIN down[d].local :
              /\ down[d].local[i] \in Entries(vault[d])
              /\ mem[down[d].local[i]] = mem[i]

\* Nothing owed is queued to be forgotten.
ForgetsNotOwed ==
    /\ Held(forgets) \cap owed = {}
    /\ \A d \in Devices : Held(down[d].asked \cup down[d].settled) \cap owed = {}

\* What waits beside a tombstone was written after the unshare, and so is
\* what a device will drop for a tombstone it has read.
WaitingIsLate ==
    /\ tomb # Never => waiting \cap owed = {}
    /\ \A d \in Devices :
         down[d].unshared => /\ down[d].pc = "forgets"
                             /\ down[d].fetched \cap waiting \cap owed = {}

\* Beside a tombstone, no row that a device will ack is still there.
AcksAreStale ==
    tomb # Never =>
        \A d \in Devices :
            /\ down[d].pc = "tombs" \/ down[d].unshared \/ down[d].fetched \cap waiting = {}
            /\ DOMAIN down[d].local \cap waiting = {}

\* A saved memory waits at the connector, or is in a vault: a row that was
\* pushed or acked is never its only copy.
OwedIsKept == owed \subseteq waiting \cup Held(InVaults)

Distinct(S) == \A i, j \in S : mem[i] = mem[j] => i = j
LiveOnce == Distinct(cloud.live) /\ \A d \in Devices : Distinct(vault[d].live)

\* No mark is later than now, and a mark that was revoked is earlier than the
\* tombstone: no push that carries it lifts the tombstone.
MarksAreOld ==
    /\ 1 <= marked /\ marked <= now
    /\ cloud.sharedAt <= now
    /\ \A d \in Devices : vault[d].sharedAt <= now /\ push[d].sharedAt <= now
    /\ Revoked => tomb = now

\* A list begun after the unshare has read the tombstone.
ListsAreClosed ==
    \A a \in Apps :
        /\ app[a].since <= marked
        /\ app[a].since = marked => Revoked
        /\ app[a].pc = "list" /\ app[a].since = marked => app[a].closed

RowsInv == Originals /\ AcksAreStale /\ TombstonedScopeIsEmpty
KeptInv == VersionsKnown /\ AcksAreSaved /\ ForgetsNotOwed /\ WaitingIsLate /\ OwedIsKept
MarksInv == MarksAreOld /\ ListsAreClosed


-----------------------------------------------------------------------------
(* What the steps on a vault do to it.                                     *)

LEMMA UploadedFacts ==
    ASSUME TypeInv, NEW d \in Devices, Uploaded(d)
    PROVE  /\ \A e \in Devices : /\ vault'[e].live = vault[e].live
                                 /\ vault'[e].gone = vault[e].gone
                                 /\ vault'[e].sharedAt = vault[e].sharedAt
                                 /\ e # d => vault'[e].ver = vault[e].ver
           /\ vault[d].ver = cloud.ver
           /\ vault'[d].ver = cloud.ver + 1 /\ cloud'.ver = cloud.ver + 1
           /\ cloud'.live = vault[d].live /\ cloud'.gone = vault[d].gone
           /\ cloud'.sharedAt = vault[d].sharedAt
<1>1. vault \in [Devices -> Vault]
  BY DEF TypeInv, VaultsOK
<1> QED BY <1>1 DEF Uploaded, CanPush, Vault

LEMMA SavedFacts ==
    ASSUME TypeInv, NEW d \in Devices, NEW t, Saved(d, [vault[d] EXCEPT !.sharedAt = t])
    PROVE  \A e \in Devices : /\ vault'[e].live = vault[e].live
                              /\ vault'[e].gone = vault[e].gone
                              /\ vault'[e].sharedAt = IF e = d THEN t ELSE vault[e].sharedAt
                              /\ vault'[e].ver = vault[e].ver
<1>1. vault \in [Devices -> Vault]
  BY DEF TypeInv, VaultsOK
<1> QED BY <1>1 DEF Saved, Vault

LEMMA PulledFacts ==
    ASSUME TypeInv, NEW d \in Devices, SyncPull(d)
    PROVE  \A e \in Devices : /\ vault'[e].live = IF e = d THEN cloud.live ELSE vault[e].live
                              /\ vault'[e].gone = IF e = d THEN cloud.gone ELSE vault[e].gone
                              /\ vault'[e].sharedAt = IF e = d THEN cloud.sharedAt
                                                      ELSE vault[e].sharedAt
                              /\ vault'[e].ver = IF e = d THEN cloud.ver ELSE vault[e].ver
<1>1. vault \in [Devices -> Vault]
  BY DEF TypeInv, VaultsOK
<1> QED BY <1>1 DEF SyncPull

LEMMA AppliedFacts ==
    ASSUME TypeInv, NEW d \in Devices, ApplyDown(d)
    PROVE  \E approved \in SUBSET (down[d].asked \cap vault[d].live) :
             /\ \A e \in Devices :
                  /\ vault'[e].live = IF e = d
                                      THEN (vault[d].live \ approved)
                                           \cup {LocalId(d, i) : i \in New(d)}
                                      ELSE vault[e].live
                  /\ vault'[e].gone = IF e = d THEN vault[d].gone \cup approved
                                      ELSE vault[e].gone
                  /\ vault'[e].sharedAt = vault[e].sharedAt
                  /\ vault'[e].ver = vault[e].ver
             /\ \A e \in Devices : e # d => down'[e] = down[e]
             /\ down'[d].pc = "ack" /\ ~down'[d].unshared
             /\ down'[d].fetched = {} /\ down'[d].asked = {}
             /\ DOMAIN down'[d].local = down[d].fetched
             /\ \A i \in down[d].fetched : down'[d].local[i] = LocalId(d, i)
             /\ down'[d].settled = (down[d].asked \ vault[d].live) \cup approved
<1> DEFINE added == {LocalId(d, i) : i \in New(d)}
           f == [i \in down[d].fetched |-> LocalId(d, i)]
<1>1. PICK approved \in SUBSET (down[d].asked \cap vault[d].live) :
          LET v == vault[d] IN
          /\ vault' = [vault EXCEPT ![d] =
                           [v EXCEPT !.live = (v.live \ approved) \cup added,
                                     !.gone = v.gone \cup approved,
                                     !.dirty = v.dirty \/ added # {} \/ approved # {}]]
          /\ DownGoes(d, [IdleDown EXCEPT !.pc = "ack", !.local = f,
                              !.settled = (down[d].asked \ v.live) \cup approved])
  BY DEF ApplyDown
<1> HIDE DEF added
<1>2. vault \in [Devices -> Vault] /\ down \in [Devices -> Down]
  BY DEF TypeInv, VaultsOK, DownsOK
<1>3. \A e \in Devices :
        /\ vault'[e].live = IF e = d THEN (vault[d].live \ approved) \cup added ELSE vault[e].live
        /\ vault'[e].gone = IF e = d THEN vault[d].gone \cup approved ELSE vault[e].gone
        /\ vault'[e].sharedAt = vault[e].sharedAt
        /\ vault'[e].ver = vault[e].ver
  BY <1>1, <1>2 DEF Vault
<1>4. DOMAIN f = down[d].fetched /\ \A i \in down[d].fetched : f[i] = LocalId(d, i)
  OBVIOUS
<1> HIDE DEF f
<1>5. /\ \A e \in Devices : e # d => down'[e] = down[e]
      /\ down'[d].pc = "ack" /\ ~down'[d].unshared
      /\ down'[d].fetched = {} /\ down'[d].asked = {} /\ down'[d].local = f
      /\ down'[d].settled = (down[d].asked \ vault[d].live) \cup approved
  BY <1>1, <1>2 DEF DownGoes, IdleDown
<1> USE DEF added
<1> QED BY <1>3, <1>4, <1>5

-----------------------------------------------------------------------------
(* Marks, tombstones and lists.                                            *)

LEMMA MarksStay ==
    ASSUME MarksInv, UNCHANGED <<app, now, marked>>, Revoked => tomb' = tomb,
           cloud'.sharedAt <= now,
           \A d \in Devices : vault'[d].sharedAt <= now /\ push'[d].sharedAt <= now
    PROVE  MarksInv'
BY DEF MarksInv, MarksAreOld, ListsAreClosed, Revoked

LEMMA MarksKept == TypeInv /\ MarksInv /\ [ShareNext]_vars => MarksInv'
<1> SUFFICES ASSUME TypeInv, MarksInv, [ShareNext]_vars PROVE MarksInv'
  OBVIOUS
<1>1. /\ now \in Nat /\ marked \in Nat /\ tomb \in Nat /\ cloud.sharedAt \in Nat
      /\ \A d \in Devices : /\ push[d].sharedAt \in Nat /\ vault[d].sharedAt \in Nat
                            /\ vault[d] \in Vault
      /\ app \in [Apps -> AppCall] /\ push \in [Devices -> PushCall]
  BY DEF TypeInv, NumbersOK, CloudOK, CopyOK, Copy, VaultsOK, Vault, PushesOK, PushCall, AppsOK
<1>2. /\ 1 <= marked /\ marked <= now /\ cloud.sharedAt <= now
      /\ \A d \in Devices : vault[d].sharedAt <= now /\ push[d].sharedAt <= now
      /\ Revoked => tomb = now
      /\ \A a \in Apps : /\ app[a].since <= marked
                         /\ app[a].since = marked => Revoked
                         /\ app[a].pc = "list" /\ app[a].since = marked => app[a].closed
  BY DEF MarksInv, MarksAreOld, ListsAreClosed
<1>3. ASSUME UNCHANGED <<server, device, history>>, NEW a \in Apps, NEW o \in AppCall,
             AppGoes(a, o), o.since \in {Never, marked},
             o.since = marked => Revoked /\ (o.pc = "list" => o.closed)
      PROVE  MarksInv'
  BY <1>1, <1>2, <1>3 DEF AppGoes, server, device, history, MarksInv, MarksAreOld,
     ListsAreClosed, Revoked, Never
<1>4. ASSUME NEW a \in Apps, AppStep(a) PROVE MarksInv'
  <2>1. ASSUME NEW o \in AppCall, AppGoes(a, o), o.since = Never, UNCHANGED <<now, marked, tomb, device>>
        PROVE  MarksInv'
    BY <1>1, <1>2, <2>1 DEF AppGoes, device, MarksInv, MarksAreOld, ListsAreClosed, Revoked, Never
  <2>2. IdleApp \in AppCall /\ IdleApp.since = Never
    BY DEF IdleApp, AppCall, Never
  <2>3. CASE RememberStart(a)
    BY <2>1, <2>2, <2>3 DEF RememberStart, AppReads, server, history, AppCall
  <2>4. CASE RememberCheck(a)
    BY <2>1, <2>2, <2>4 DEF RememberCheck, AppReads, server, history, AppCall
  <2>5. CASE RememberWrite(a)
    BY <2>1, <2>2, <2>5 DEF RememberWrite
  <2>6. CASE ForgetFind(a)
    <3>1. PICK i \in waiting \cup held : AppReads(a, [IdleApp EXCEPT !.pc = "forget", !.id = i])
      BY <2>6 DEF ForgetFind
    <3>2. i \in Ids
      BY GivenAreIds DEF TypeInv, RowsOK
    <3> QED BY <2>1, <2>2, <3>1, <3>2 DEF AppReads, server, history, AppCall
  <2>7. CASE ForgetQueue(a)
    BY <2>1, <2>2, <2>7 DEF ForgetQueue
  <2>8. CASE ListForgets(a)
    <3> DEFINE o == [IdleApp EXCEPT !.pc = "tombs", !.hidden = forgets,
                                    !.since = IF Revoked THEN marked ELSE Never]
    <3>1. o \in AppCall /\ o.pc = "tombs" /\ o.since = IF Revoked THEN marked ELSE Never
      BY <1>1, <2>2, GivenAreIds DEF TypeInv, RowsOK, AppCall, IdleApp, Never
    <3>2. AppGoes(a, o) /\ UNCHANGED <<server, device, history>>
      BY <2>8 DEF ListForgets, AppReads
    <3> HIDE DEF o
    <3> QED BY <1>1, <1>2, <1>3, <3>1, <3>2 DEF Never
  <2>9. CASE ListTombs(a)
    <3>1. CASE tomb # Never
      BY <2>1, <2>2, <2>9, <3>1 DEF ListTombs, AppReads, server, history, AppCall
    <3>2. CASE tomb = Never
      <4>1. ~Revoked /\ app[a].since # marked
        BY <1>1, <1>2, <3>2 DEF Never
      <4> DEFINE o == [app[a] EXCEPT !.pc = "list"]
      <4>2. o \in AppCall /\ o.since = app[a].since
        BY <1>1 DEF AppCall
      <4>3. AppGoes(a, o) /\ UNCHANGED <<server, device, history>>
        BY <2>9, <3>2 DEF ListTombs, AppReads
      <4> HIDE DEF o
      <4> QED BY <1>1, <1>2, <4>1, <4>2, <4>3 DEF AppGoes, server, device, history, MarksInv,
                 MarksAreOld, ListsAreClosed, Revoked
    <3> QED BY <3>1, <3>2
  <2>10. CASE ListRows(a)
    BY <2>1, <2>2, <2>10 DEF ListRows, AppReads, server, history
  <2> QED BY <1>4, <2>3, <2>4, <2>5, <2>6, <2>7, <2>8, <2>9, <2>10 DEF AppStep
<1>5. ASSUME NEW d \in Devices, SyncStep(d) PROVE MarksInv'
  <2>1. CASE SyncPush(d)
    BY <1>2, <2>1, UploadedFacts, MarksStay DEF SyncPush, server, history
  <2>2. CASE SyncPull(d)
    BY <1>2, <2>2, PulledFacts, MarksStay DEF SyncPull, server
  <2> QED BY <1>5, <2>1, <2>2 DEF SyncStep
<1>6. ASSUME NEW d \in Devices, ScopeStep(d) PROVE MarksInv'
  <2>1. CASE ShareMark(d)
    <3>1. /\ now' = now + 1 /\ marked' = now + 1 /\ cloud' = cloud /\ app' = app
          /\ \A e \in Devices : vault'[e].sharedAt <= now + 1 /\ push'[e].sharedAt <= now + 1
      <4>1. Saved(d, [vault[d] EXCEPT !.sharedAt = now + 1])
        BY <2>1 DEF ShareMark
      <4>2. \A e \in Devices : vault'[e].sharedAt \in {vault[e].sharedAt, now + 1}
        BY <4>1, SavedFacts
      <4>3. \A e \in Devices : push'[e].sharedAt \in {push[e].sharedAt, Never}
        BY <1>1, <2>1 DEF ShareMark, IdlePush
      <4> QED BY <1>1, <1>2, <2>1, <4>2, <4>3 DEF ShareMark, Never
    <3>2. \A a \in Apps : app[a].since \in Nat
      BY <1>1 DEF AppCall
    <3>3. ~Revoked' /\ MarksAreOld'
      BY <1>1, <1>2, <3>1 DEF MarksAreOld, Revoked
    <3>4. ListsAreClosed'
      BY <1>1, <1>2, <3>1, <3>2 DEF ListsAreClosed
    <3> QED BY <3>3, <3>4 DEF MarksInv
  <2>2. CASE ShareRollback(d)
    <3>1. \A e \in Devices : vault'[e].sharedAt <= now /\ push'[e].sharedAt <= now
      <4>1. Saved(d, [vault[d] EXCEPT !.sharedAt = Never])
        BY <2>2 DEF ShareRollback
      <4>2. \A e \in Devices : vault'[e].sharedAt \in {vault[e].sharedAt, Never}
        BY <4>1, SavedFacts
      <4>3. \A e \in Devices : push'[e].sharedAt \in {push[e].sharedAt, Never}
        BY <1>1, <2>2 DEF ShareRollback, IdlePush
      <4> QED BY <1>1, <1>2, <4>2, <4>3 DEF Never
    <3> QED BY <1>2, <2>2, <3>1, MarksStay DEF ShareRollback, server, history
  <2>3. CASE UnshareServer(d)
    <3>1. /\ now' = now + 1 /\ tomb' = now + 1 /\ UNCHANGED <<marked, app, cloud, vault, push>>
      BY <2>3 DEF UnshareServer
    <3> QED BY <1>1, <1>2, <3>1 DEF MarksInv, MarksAreOld, ListsAreClosed, Revoked
  <2>4. CASE UnshareLocal(d)
    <3>1. \A e \in Devices : vault'[e].sharedAt <= now
      <4>1. Saved(d, [vault[d] EXCEPT !.sharedAt = Never])
        BY <2>4 DEF UnshareLocal
      <4>2. \A e \in Devices : vault'[e].sharedAt \in {vault[e].sharedAt, Never}
        BY <4>1, SavedFacts
      <4> QED BY <1>1, <1>2, <4>2 DEF Never
    <3> QED BY <1>2, <2>4, <3>1, MarksStay DEF UnshareLocal, server, history
  <2> QED BY <1>6, <2>1, <2>2, <2>3, <2>4 DEF ScopeStep
<1>7. ASSUME NEW d \in Devices, DownStep(d) PROVE MarksInv'
  <2>1. UNCHANGED <<app, now, marked, tomb, cloud, push>>
    BY <1>7 DEF DownStep, DownStart, DownPending, DownTombs, DownForgets, ApplyDown, AckEntries,
       AckForgets, DownStop, server, history
  <2>2. \A e \in Devices : vault'[e].sharedAt = vault[e].sharedAt
    <3>1. CASE ApplyDown(d)
      BY <3>1, AppliedFacts
    <3> QED BY <1>7, <3>1 DEF DownStep, DownStart, DownPending, DownTombs, DownForgets,
               AckEntries, AckForgets, DownStop
  <2> QED BY <1>2, <2>1, <2>2, MarksStay
<1>8. ASSUME NEW d \in Devices, PushStep(d) PROVE MarksInv'
  <2>1. UNCHANGED <<app, now, marked>>
    BY <1>8 DEF PushStep, AutoPush, ManualPush, PushStamp, PushSnapshot, PutAccepted, PushStop,
       history
  <2>2. Revoked => tomb' = tomb
    <3>1. CASE PutAccepted(d)
      BY <1>1, <1>2, <3>1 DEF PutAccepted, Conflict, Never
    <3> QED BY <1>8, <3>1 DEF PushStep, AutoPush, ManualPush, PushStamp, PushSnapshot, PushStop,
               server
  <2>3. cloud'.sharedAt <= now /\ \A e \in Devices : vault'[e].sharedAt <= now
    <3>1. CASE PushStamp(d)
      BY <1>2, <3>1, UploadedFacts DEF PushStamp
    <3> QED BY <1>2, <1>8, <3>1 DEF PushStep, AutoPush, ManualPush, PushSnapshot, PutAccepted,
               PushStop
  <2>4. \A e \in Devices : push'[e].sharedAt <= now
    <3>1. IdlePush.sharedAt <= now
      BY <1>1 DEF IdlePush, Never
    <3>2. push \in [Devices -> PushCall]
      BY <1>1
    <3>3. \/ push' = push
          \/ \E o : PushGoes(d, o) /\ o.sharedAt <= now
      <4>1. CASE AutoPush(d) \/ ManualPush(d)
        <5>1. /\ [IdlePush EXCEPT !.pc = "snapshot", !.stamp = cloud.ver].sharedAt <= now
              /\ [IdlePush EXCEPT !.pc = "stamp"].sharedAt <= now
          BY <3>1 DEF IdlePush
        <5> QED BY <4>1, <5>1 DEF AutoPush, ManualPush
      <4>2. CASE PushStamp(d)
        <5>1. [push[d] EXCEPT !.pc = "snapshot", !.stamp = cloud'.ver].sharedAt <= now
          BY <1>2, <3>2 DEF PushCall
        <5> QED BY <4>2, <5>1 DEF PushStamp
      <4>3. CASE PushSnapshot(d)
        <5>1. [push[d] EXCEPT !.pc = "put", !.live = vault[d].live,
                              !.sharedAt = vault[d].sharedAt].sharedAt <= now
          BY <1>2, <3>2 DEF PushCall
        <5> QED BY <3>1, <4>3, <5>1 DEF PushSnapshot
      <4>4. CASE PutAccepted(d) \/ PushStop(d)
        <5>1. [IdlePush EXCEPT !.pc = "rollback"].sharedAt <= now
          BY <3>1 DEF IdlePush
        <5> QED BY <3>1, <4>4, <5>1 DEF PutAccepted, PushStop
      <4> QED BY <1>8, <4>1, <4>2, <4>3, <4>4 DEF PushStep
    <3> QED BY <1>2, <3>2, <3>3 DEF PushGoes
  <2> QED BY <2>1, <2>2, <2>3, <2>4, MarksStay
<1>9. CASE UNCHANGED vars
  BY <1>9 DEF vars, server, device, history, MarksInv, MarksAreOld, ListsAreClosed, Revoked
<1> QED BY <1>4, <1>5, <1>6, <1>7, <1>8, <1>9 DEF ShareNext

-----------------------------------------------------------------------------
(* Rows, tombstones and the memories owed.                                 *)

\* A device that holds nothing of the connector's.
Empty(o) ==
    /\ o.fetched = {} /\ o.asked = {} /\ o.settled = {} /\ DOMAIN o.local = {}
    /\ ~o.unshared

LEMMA IdleIsEmpty ==
    /\ Empty(IdleDown)
    /\ \A pc \in {"start", "unmark"} : Empty([IdleDown EXCEPT !.pc = pc])
BY DEF Empty, IdleDown

\* A step that leaves the rows, the forgets, the tombstone and the entries of
\* every vault alone; a device may give up what it holds.
LEMMA RowsStay ==
    ASSUME RowsInv, UNCHANGED <<waiting, held, enforce, tomb, mem>>,
           \A e \in Devices : down'[e] = down[e] \/ Empty(down'[e])
    PROVE  RowsInv'
BY DEF RowsInv, Originals, AcksAreStale, TombstonedScopeIsEmpty, Empty

LEMMA KeptStay ==
    ASSUME KeptInv, UNCHANGED <<waiting, forgets, tomb, mem, owed, cloud>>,
           \A e \in Devices : down'[e] = down[e] \/ Empty(down'[e]),
           \A e \in Devices : /\ vault'[e].live = vault[e].live
                              /\ vault'[e].gone = vault[e].gone
                              /\ vault'[e].ver = vault[e].ver
    PROVE  KeptInv'
<1>1. \A e \in Devices : Entries(vault'[e]) = Entries(vault[e])
  BY DEF Entries
<1>2. InVaults' = InVaults
  BY <1>1 DEF InVaults
<1>3. VersionsKnown'
  BY <1>1 DEF KeptInv, VersionsKnown
<1>4. AcksAreSaved'
  BY <1>1 DEF KeptInv, AcksAreSaved, Empty
<1>5. ForgetsNotOwed'
  BY DEF KeptInv, ForgetsNotOwed, Empty, Held
<1>6. WaitingIsLate'
  BY DEF KeptInv, WaitingIsLate, Empty
<1>7. OwedIsKept'
  BY <1>2 DEF KeptInv, OwedIsKept, Held
<1> QED BY <1>3, <1>4, <1>5, <1>6, <1>7 DEF KeptInv

LEMMA OnceStay ==
    ASSUME LiveOnce, UNCHANGED mem, cloud'.live = cloud.live,
           \A e \in Devices : vault'[e].live = vault[e].live
    PROVE  LiveOnce'
BY DEF LiveOnce, Distinct

Safe == RowsInv /\ KeptInv /\ LiveOnce

\* An upload puts nothing out of every vault.
LEMMA UploadSafe ==
    ASSUME TypeInv, Safe, NEW d \in Devices, Uploaded(d), UNCHANGED <<server, mem, owed, down>>
    PROVE  Safe'
<1>1. /\ \A e \in Devices : Entries(vault'[e]) = Entries(vault[e])
      /\ Entries(cloud') = Entries(vault[d])
      /\ Entries(cloud) \subseteq Entries(vault[d])
  BY UploadedFacts DEF Entries, Safe, KeptInv, VersionsKnown
<1>2. InVaults' = InVaults
  BY <1>1 DEF InVaults
<1>3. RowsInv'
  BY RowsStay DEF Safe, server
<1>4. VersionsKnown'
  <2>1. cloud.ver \in Nat
    BY DEF TypeInv, CloudOK, CopyOK, Copy
  <2>2. \A e \in Devices : vault[e].ver \in Nat /\ vault[e].ver <= cloud.ver
    BY DEF TypeInv, VaultsOK, Vault, Safe, KeptInv, VersionsKnown
  <2> QED BY <1>1, <2>1, <2>2, UploadedFacts DEF VersionsKnown
<1>5. AcksAreSaved'
  BY <1>1 DEF Safe, KeptInv, AcksAreSaved
<1>6. ForgetsNotOwed' /\ WaitingIsLate'
  BY DEF Safe, KeptInv, ForgetsNotOwed, WaitingIsLate, Held, server
<1>7. OwedIsKept'
  BY <1>2 DEF Safe, KeptInv, OwedIsKept, Held, server
<1>8. LiveOnce'
  BY UploadedFacts DEF Safe, LiveOnce, Distinct
<1> QED BY <1>3, <1>4, <1>5, <1>6, <1>7, <1>8 DEF Safe, KeptInv

LEMMA SyncSafe == ASSUME TypeInv, Safe, NEW d \in Devices, SyncStep(d) PROVE Safe'
<1>1. CASE SyncPush(d)
  BY <1>1, UploadSafe DEF SyncPush, history
<1>2. CASE SyncPull(d)
  <2> DEFINE dropped == (vault[d].live \cup vault[d].gone) \ (cloud.live \cup cloud.gone)
  <2>1. /\ UNCHANGED <<server, mem, cloud, down>> /\ owed' = owed \ Held(dropped)
        /\ down[d].pc \in {"idle", "start"}
    BY <1>2 DEF SyncPull, Locked
  <2>2. \A e \in Devices : /\ Entries(vault'[e]) = IF e = d THEN Entries(cloud) ELSE Entries(vault[e])
                           /\ vault'[e].ver = IF e = d THEN cloud.ver ELSE vault[e].ver
                           /\ vault'[e].live = IF e = d THEN cloud.live ELSE vault[e].live
    BY <1>2, PulledFacts DEF Entries
  <2>3. RowsInv'
    BY <2>1, RowsStay DEF Safe, server
  <2>4. VersionsKnown'
    BY <2>1, <2>2 DEF Safe, KeptInv, VersionsKnown, TypeInv, CloudOK, CopyOK, Copy
  <2>5. AcksAreSaved'
    <3>1. DOMAIN down[d].local = {}
      BY <2>1 DEF Safe, KeptInv, AcksAreSaved
    <3> QED BY <2>1, <2>2, <3>1 DEF Safe, KeptInv, AcksAreSaved
  <2>6. ForgetsNotOwed' /\ WaitingIsLate'
    BY <2>1 DEF Safe, KeptInv, ForgetsNotOwed, WaitingIsLate, Held, server
  <2>7. OwedIsKept'
    <3> SUFFICES ASSUME NEW m \in owed', m \notin waiting
                 PROVE  \E i \in InVaults' : mem[i] = m
      BY <2>1 DEF OwedIsKept, Held, server
    <3>1. PICK i \in InVaults : mem[i] = m
      BY <2>1 DEF Safe, KeptInv, OwedIsKept, Held
    <3>2. i \notin dropped
      BY <2>1, <3>1 DEF Held
    <3>3. i \in InVaults'
      BY <2>1, <2>2, <3>2 DEF InVaults, Entries
    <3> QED BY <3>1, <3>3
  <2>8. LiveOnce'
    BY <2>1, <2>2 DEF Safe, LiveOnce, Distinct
  <2> QED BY <2>3, <2>4, <2>5, <2>6, <2>7, <2>8 DEF Safe, KeptInv
<1> QED BY <1>1, <1>2 DEF SyncStep

LEMMA ScopeSafe == ASSUME TypeInv, Safe, NEW d \in Devices, ScopeStep(d) PROVE Safe'
<1>1. ASSUME NEW t, Saved(d, [vault[d] EXCEPT !.sharedAt = t]), UNCHANGED <<server, mem, owed, cloud>>,
             \A e \in Devices : down'[e] = down[e] \/ Empty(down'[e])
      PROVE  Safe'
  BY <1>1, SavedFacts, RowsStay, KeptStay, OnceStay DEF Safe, server
<1>2. CASE ShareMark(d)
  BY <1>1, <1>2 DEF ShareMark
<1>3. CASE ShareRollback(d)
  BY <1>1, <1>3 DEF ShareRollback, history
<1>4. CASE UnshareServer(d)
  <2>1. /\ owed' = owed \ Held(waiting) /\ waiting' = {} /\ held' = {}
        /\ UNCHANGED <<enforce, forgets, mem, vault, cloud>>
        /\ \A e \in Devices : down'[e] = down[e] \/ Empty(down'[e])
    BY <1>4, IdleIsEmpty DEF UnshareServer, TypeInv, DownsOK
  <2>2. RowsInv'
    BY <2>1 DEF Safe, RowsInv, Originals, AcksAreStale, TombstonedScopeIsEmpty, Empty
  <2>3. VersionsKnown' /\ LiveOnce'
    BY <2>1 DEF Safe, KeptInv, VersionsKnown, LiveOnce, Distinct
  <2>4. AcksAreSaved'
    BY <2>1 DEF Safe, KeptInv, AcksAreSaved, Empty
  <2>5. ForgetsNotOwed' /\ WaitingIsLate'
    BY <2>1 DEF Safe, KeptInv, ForgetsNotOwed, WaitingIsLate, Held, Empty
  <2>6. OwedIsKept'
    <3>1. InVaults' = InVaults
      BY <2>1 DEF InVaults
    <3>2. \A m \in waiting : m \in Held(waiting)
      BY DEF Safe, RowsInv, Originals, Held
    <3> QED BY <2>1, <3>1, <3>2 DEF Safe, KeptInv, OwedIsKept, Held
  <2> QED BY <2>2, <2>3, <2>4, <2>5, <2>6 DEF Safe, KeptInv
<1>5. CASE UnshareLocal(d)
  <2>1. \A e \in Devices : down'[e] = down[e] \/ Empty(down'[e])
    BY <1>5, IdleIsEmpty DEF UnshareLocal, TypeInv, DownsOK
  <2> QED BY <1>1, <1>5, <2>1 DEF UnshareLocal, history
<1> QED BY <1>2, <1>3, <1>4, <1>5 DEF ScopeStep

LEMMA PushSafe == ASSUME TypeInv, Safe, NEW d \in Devices, PushStep(d) PROVE Safe'
<1>1. CASE PushStamp(d) /\ Uploaded(d)
  BY <1>1, UploadSafe DEF PushStamp, history
<1>2. CASE PutAccepted(d)
  <2>1. /\ UNCHANGED <<enforce, waiting, forgets, mem, vault, cloud, down, owed>>
        /\ tomb' \in {tomb, Never} /\ (enforce => tomb' = Never)
    BY <1>2 DEF PutAccepted, history
  <2>2. RowsInv'
    BY <2>1 DEF Safe, RowsInv, Originals, AcksAreStale, TombstonedScopeIsEmpty
  <2>3. VersionsKnown' /\ LiveOnce'
    BY <2>1 DEF Safe, KeptInv, VersionsKnown, LiveOnce, Distinct
  <2>4. AcksAreSaved' /\ ForgetsNotOwed' /\ WaitingIsLate'
    BY <2>1 DEF Safe, KeptInv, AcksAreSaved, ForgetsNotOwed, WaitingIsLate, Held
  <2>5. OwedIsKept'
    BY <2>1 DEF Safe, KeptInv, OwedIsKept, Held, InVaults
  <2> QED BY <2>2, <2>3, <2>4, <2>5 DEF Safe, KeptInv
<1>3. CASE UNCHANGED <<server, mem, vault, cloud, down, owed>>
  BY <1>3, RowsStay, KeptStay, OnceStay DEF Safe, server
<1> QED
  BY <1>1, <1>2, <1>3 DEF PushStep, AutoPush, ManualPush, PushStamp, PushSnapshot, PushStop, history

LEMMA AppSafe == ASSUME TypeInv, Safe, NEW a \in Apps, AppStep(a) PROVE Safe'
<1>1. /\ waiting \subseteq Given /\ owed \subseteq Given /\ InVaults \subseteq Given
      /\ forgets \subseteq Given /\ Len(mem) \in Nat /\ NextId \notin Given
      /\ \A d \in Devices : /\ down[d].fetched \cup down[d].asked \cup down[d].settled
                                 \cup DOMAIN down[d].local \subseteq Given
                            /\ \A i \in DOMAIN down[d].local : down[d].local[i] \in Given
                            /\ Entries(vault[d]) \subseteq Given
      /\ Entries(cloud) \subseteq Given
  BY GivenAreIds DEF TypeInv, RowsOK, InVaults, VaultsOK, VaultOK, CloudOK, CopyOK, DownsOK,
     DownOK, NextId, Given
<1>2. CASE RememberWrite(a)
  <2>1. /\ waiting' = waiting \cup {NextId} /\ mem' = Append(mem, NextId)
        /\ owed' = IF tomb = Never THEN owed \cup {NextId} ELSE owed
        /\ UNCHANGED <<enforce, held, forgets, tomb, vault, cloud, down>>
    BY <1>2 DEF RememberWrite, device
  <2>2. mem'[NextId] = NextId /\ \A i \in Given : mem'[i] = mem[i] /\ mem[i] \in Given
    BY <1>1, <2>1 DEF TypeInv, MemOK, Given, NextId
  <2>3. RowsInv'
    <3>1. Originals'
      BY <1>1, <2>1, <2>2 DEF Safe, RowsInv, Originals
    <3>2. AcksAreStale'
      BY <1>1, <2>1 DEF Safe, RowsInv, AcksAreStale
    <3>3. TombstonedScopeIsEmpty'
      BY <2>1 DEF Safe, RowsInv, TombstonedScopeIsEmpty
    <3> QED BY <3>1, <3>2, <3>3 DEF RowsInv
  <2>4. VersionsKnown'
    BY <2>1 DEF Safe, KeptInv, VersionsKnown
  <2>5. AcksAreSaved'
    <3>1. \A d \in Devices :
             /\ DOMAIN down[d].local # {} => down[d].pc = "ack"
             /\ \A i \in DOMAIN down[d].local :
                   /\ i \in Given /\ down[d].local[i] \in Given
                   /\ down[d].local[i] \in Entries(vault[d])
                   /\ mem[down[d].local[i]] = mem[i]
      BY <1>1 DEF Safe, KeptInv, AcksAreSaved
    <3>2. \A i \in Given : mem'[i] = mem[i]
      BY <2>2
    <3>3. \A d \in Devices : \A i \in DOMAIN down[d].local : mem'[down[d].local[i]] = mem'[i]
      BY <3>1, <3>2
    <3>4. vault' = vault /\ down' = down
      BY <2>1
    <3> QED BY <3>1, <3>3, <3>4 DEF AcksAreSaved, Entries
  <2>6. ForgetsNotOwed'
    <3>1. \A S \in SUBSET Given : Held(S) \cap owed = {} => {mem'[i] : i \in S} \cap owed' = {}
      <4> SUFFICES ASSUME NEW S \in SUBSET Given, Held(S) \cap owed = {}, NEW i \in S
                   PROVE  mem'[i] \notin owed'
        OBVIOUS
      <4>1. mem[i] \notin owed /\ mem[i] \in Given
        BY <2>2 DEF Held
      <4> QED BY <1>1, <2>1, <2>2, <4>1
    <3>2. \A e \in Devices : down[e].asked \cup down[e].settled \in SUBSET Given
      BY <1>1
    <3> QED BY <1>1, <2>1, <3>1, <3>2 DEF Safe, KeptInv, ForgetsNotOwed, Held
  <2>7. WaitingIsLate'
    BY <1>1, <2>1 DEF Safe, KeptInv, WaitingIsLate
  <2>8. OwedIsKept'
    <3>1. InVaults' = InVaults
      BY <2>1 DEF InVaults
    <3>2. \A m \in Held(InVaults) : \E i \in InVaults : mem'[i] = m
      BY <1>1, <2>2 DEF Held
    <3> QED BY <2>1, <3>1, <3>2 DEF Safe, KeptInv, OwedIsKept, Held
  <2>9. LiveOnce'
    <3>1. cloud.live \subseteq Given /\ \A e \in Devices : vault[e].live \subseteq Given
      BY <1>1 DEF Entries
    <3>2. \A S \in SUBSET Given : Distinct(S) => \A i, j \in S : mem'[i] = mem'[j] => i = j
      BY <2>2 DEF Distinct
    <3>3. Distinct(cloud.live) /\ \A e \in Devices : Distinct(vault[e].live)
      BY DEF Safe, LiveOnce
    <3>4. /\ \A i, j \in cloud.live : mem'[i] = mem'[j] => i = j
          /\ \A e \in Devices : \A i, j \in vault[e].live : mem'[i] = mem'[j] => i = j
      BY <3>1, <3>2, <3>3
    <3> QED BY <2>1, <3>4 DEF LiveOnce, Distinct
  <2> QED BY <2>3, <2>4, <2>5, <2>6, <2>7, <2>8, <2>9 DEF Safe, KeptInv
<1>3. CASE ForgetQueue(a)
  <2>1. /\ forgets' = forgets \cup {app[a].id} /\ owed' = owed \ {mem[app[a].id]}
        /\ UNCHANGED <<enforce, waiting, held, tomb, mem, vault, cloud, down>>
    BY <1>3 DEF ForgetQueue, device
  <2>2. RowsInv' /\ LiveOnce'
    BY <2>1, RowsStay, OnceStay DEF Safe
  <2>3. VersionsKnown' /\ AcksAreSaved' /\ WaitingIsLate'
    BY <2>1 DEF Safe, KeptInv, VersionsKnown, AcksAreSaved, WaitingIsLate
  <2>4. ForgetsNotOwed'
    BY <2>1 DEF Safe, KeptInv, ForgetsNotOwed, Held
  <2>5. OwedIsKept'
    BY <2>1 DEF Safe, KeptInv, OwedIsKept, Held, InVaults
  <2> QED BY <2>2, <2>3, <2>4, <2>5 DEF Safe, KeptInv
<1>4. CASE UNCHANGED <<server, mem, device, history>>
  BY <1>4, RowsStay, KeptStay, OnceStay DEF Safe, server, device, history
<1> QED
  BY <1>2, <1>3, <1>4 DEF AppStep, RememberStart, RememberCheck, ForgetFind, ListForgets,
     ListTombs, ListRows, AppReads

LEMMA DownSafe == ASSUME TypeInv, Safe, NEW d \in Devices, DownStep(d) PROVE Safe'
<1>1. /\ waiting \subseteq Given /\ owed \subseteq Given /\ InVaults \subseteq Given
      /\ down \in [Devices -> Down]
      /\ \A e \in Devices : /\ down[e].fetched \cup down[e].asked \cup down[e].settled
                                 \cup DOMAIN down[e].local \subseteq Given
                            /\ \A i \in DOMAIN down[e].local : down[e].local[i] \in Given
                            /\ Entries(vault[e]) \subseteq Given
      /\ Entries(cloud) \subseteq Given
  BY DEF TypeInv, RowsOK, InVaults, VaultsOK, VaultOK, CloudOK, CopyOK, DownsOK, DownOK
<1>2. CASE DownStart(d) \/ DownStop(d)
  <2>1. \A e \in Devices : down'[e] = down[e] \/ Empty(down'[e])
    BY <1>1, <1>2, IdleIsEmpty DEF DownStart, DownStop, DownGoes
  <2> QED BY <1>2, <2>1, RowsStay, KeptStay, OnceStay DEF DownStart, DownStop, Safe, server, history
<1>3. CASE DownPending(d)
  <2>1. /\ UNCHANGED <<server, mem, vault, cloud, owed>> /\ down[d].pc = "start"
        /\ \A e \in Devices : e # d => down'[e] = down[e]
        /\ down'[d].pc = "tombs" /\ down'[d].fetched = waiting
        /\ down'[d].asked = down[d].asked /\ down'[d].settled = down[d].settled
        /\ down'[d].local = down[d].local /\ down'[d].unshared = down[d].unshared
    BY <1>1, <1>3 DEF DownPending, DownGoes, Down, history
  <2>2. DOMAIN down[d].local = {} /\ ~down[d].unshared
    BY <2>1 DEF Safe, KeptInv, AcksAreSaved, WaitingIsLate
  <2>3. RowsInv'
    BY <2>1, <2>2 DEF Safe, RowsInv, Originals, AcksAreStale, TombstonedScopeIsEmpty, server
  <2>4. VersionsKnown' /\ LiveOnce'
    BY <2>1 DEF Safe, KeptInv, VersionsKnown, LiveOnce, Distinct
  <2>5. AcksAreSaved'
    BY <2>1, <2>2 DEF Safe, KeptInv, AcksAreSaved
  <2>6. ForgetsNotOwed'
    BY <2>1 DEF Safe, KeptInv, ForgetsNotOwed, Held, server
  <2>7. WaitingIsLate'
    BY <2>1, <2>2 DEF Safe, KeptInv, WaitingIsLate, server
  <2>8. OwedIsKept'
    BY <2>1 DEF Safe, KeptInv, OwedIsKept, Held, InVaults, server
  <2> QED BY <2>3, <2>4, <2>5, <2>6, <2>7, <2>8 DEF Safe, KeptInv
<1>4. CASE DownTombs(d)
  <2>1. /\ UNCHANGED <<server, mem, vault, cloud, owed>> /\ down[d].pc = "tombs"
        /\ \A e \in Devices : e # d => down'[e] = down[e]
        /\ down'[d].pc = "forgets" /\ down'[d].fetched = down[d].fetched
        /\ down'[d].asked = down[d].asked /\ down'[d].settled = down[d].settled
        /\ down'[d].local = down[d].local /\ down'[d].unshared = (tomb # Never)
    BY <1>1, <1>4 DEF DownTombs, DownGoes, Down, history
  <2>2. DOMAIN down[d].local = {}
    BY <2>1 DEF Safe, KeptInv, AcksAreSaved
  <2>3. RowsInv'
    BY <2>1, <2>2 DEF Safe, RowsInv, Originals, AcksAreStale, TombstonedScopeIsEmpty, server
  <2>4. VersionsKnown' /\ LiveOnce'
    BY <2>1 DEF Safe, KeptInv, VersionsKnown, LiveOnce, Distinct
  <2>5. AcksAreSaved'
    BY <2>1, <2>2 DEF Safe, KeptInv, AcksAreSaved
  <2>6. ForgetsNotOwed'
    BY <2>1 DEF Safe, KeptInv, ForgetsNotOwed, Held, server
  <2>7. WaitingIsLate'
    BY <2>1, <2>2 DEF Safe, KeptInv, WaitingIsLate, server
  <2>8. OwedIsKept'
    BY <2>1 DEF Safe, KeptInv, OwedIsKept, Held, InVaults, server
  <2> QED BY <2>3, <2>4, <2>5, <2>6, <2>7, <2>8 DEF Safe, KeptInv
<1>5. CASE DownForgets(d)
  <2>1. /\ UNCHANGED <<enforce, held, forgets, tomb, mem, vault, cloud, owed>>
        /\ waiting' = waiting \ Purged(d) /\ down[d].pc = "forgets"
        /\ \A e \in Devices : e # d => down'[e] = down[e]
        /\ down'[d].pc = "plan" /\ down'[d].fetched = (down[d].fetched \ Purged(d)) \ forgets
        /\ down'[d].asked = forgets /\ down'[d].settled = down[d].settled
        /\ down'[d].local = down[d].local /\ ~down'[d].unshared
    BY <1>1, <1>5 DEF DownForgets, DownGoes, Down, history
  <2>2. /\ DOMAIN down[d].local = {}
        /\ down[d].unshared => Purged(d) = down[d].fetched /\ down[d].fetched \cap waiting \cap owed = {}
        /\ ~down[d].unshared => Purged(d) = {}
    BY <2>1 DEF Safe, KeptInv, AcksAreSaved, WaitingIsLate, Purged
  <2>3. Originals' /\ TombstonedScopeIsEmpty'
    BY <2>1, <2>2 DEF Safe, RowsInv, Originals, TombstonedScopeIsEmpty
  <2>4. AcksAreStale'
    BY <2>1, <2>2 DEF Safe, RowsInv, AcksAreStale
  <2>5. VersionsKnown' /\ LiveOnce'
    BY <2>1 DEF Safe, KeptInv, VersionsKnown, LiveOnce, Distinct
  <2>6. AcksAreSaved'
    BY <2>1, <2>2 DEF Safe, KeptInv, AcksAreSaved
  <2>7. ForgetsNotOwed'
    BY <2>1 DEF Safe, KeptInv, ForgetsNotOwed, Held
  <2>8. WaitingIsLate'
    BY <2>1, <2>2 DEF Safe, KeptInv, WaitingIsLate
  <2>9. OwedIsKept'
    BY <2>1, <2>2 DEF Safe, KeptInv, OwedIsKept, Held, InVaults
  <2> QED BY <2>3, <2>4, <2>5, <2>6, <2>7, <2>8, <2>9 DEF Safe, RowsInv, KeptInv
<1>6. CASE ApplyDown(d)
  <2> DEFINE added == {LocalId(d, i) : i \in New(d)}
  <2>1. PICK approved \in SUBSET (down[d].asked \cap vault[d].live) :
             /\ \A e \in Devices :
                  /\ vault'[e].live = IF e = d THEN (vault[d].live \ approved) \cup added
                                      ELSE vault[e].live
                  /\ vault'[e].gone = IF e = d THEN vault[d].gone \cup approved
                                      ELSE vault[e].gone
                  /\ vault'[e].sharedAt = vault[e].sharedAt
                  /\ vault'[e].ver = vault[e].ver
             /\ \A e \in Devices : e # d => down'[e] = down[e]
             /\ down'[d].pc = "ack" /\ ~down'[d].unshared
             /\ down'[d].fetched = {} /\ down'[d].asked = {}
             /\ DOMAIN down'[d].local = down[d].fetched
             /\ \A i \in down[d].fetched : down'[d].local[i] = LocalId(d, i)
             /\ down'[d].settled = (down[d].asked \ vault[d].live) \cup approved
    BY <1>6, AppliedFacts
  <2>2. /\ Len(mem) <= Len(mem') /\ \A i \in Given : mem'[i] = mem[i]
        /\ \A i \in down[d].fetched : /\ LocalId(d, i) \in Given'
                                      /\ mem'[LocalId(d, i)] = mem[i]
        /\ \A i \in New(d) : LocalId(d, i) \notin Given
        /\ \A i \in down[d].fetched \ New(d) : LocalId(d, i) \in vault[d].live
        /\ New(d) \subseteq down[d].fetched
    BY <1>6, Applied DEF New
  <2>3. /\ UNCHANGED <<enforce, waiting, held, forgets, tomb, cloud, owed>> /\ down[d].pc = "plan"
    BY <1>6 DEF ApplyDown, server, history
  <2>4. ~down[d].unshared /\ DOMAIN down[d].local = {}
    BY <2>3 DEF Safe, KeptInv, WaitingIsLate, AcksAreSaved
  <2>5. /\ \A e \in Devices : Entries(vault[e]) \subseteq Entries(vault'[e])
        /\ \A i \in down[d].fetched : LocalId(d, i) \in Entries(vault'[d])
    BY <2>1, <2>2 DEF Entries
  <2> HIDE DEF added
  <2>6. Originals'
    BY <1>1, <2>1, <2>2, <2>3 DEF Safe, RowsInv, Originals
  <2>7. AcksAreStale' /\ TombstonedScopeIsEmpty'
    BY <2>1, <2>3, <2>4 DEF Safe, RowsInv, AcksAreStale, TombstonedScopeIsEmpty
  <2>8. VersionsKnown'
    BY <2>1, <2>3, <2>5 DEF Safe, KeptInv, VersionsKnown
  <2>9. AcksAreSaved'
    <3> SUFFICES ASSUME NEW e \in Devices
                 PROVE  /\ DOMAIN down'[e].local # {} => down'[e].pc = "ack"
                        /\ \A i \in DOMAIN down'[e].local :
                              /\ down'[e].local[i] \in Entries(vault'[e])
                              /\ mem'[down'[e].local[i]] = mem'[i]
      BY DEF AcksAreSaved
    <3>1. CASE e = d
      BY <1>1, <2>1, <2>2, <2>5, <3>1
    <3>2. CASE e # d
      <4>1. down'[e] = down[e] /\ Entries(vault[e]) \subseteq Entries(vault'[e])
        BY <2>1, <2>5, <3>2
      <4>2. /\ DOMAIN down[e].local # {} => down[e].pc = "ack"
            /\ \A i \in DOMAIN down[e].local :
                  /\ down[e].local[i] \in Entries(vault[e])
                  /\ mem[down[e].local[i]] = mem[i]
        BY DEF Safe, KeptInv, AcksAreSaved
      <4>3. \A i \in DOMAIN down[e].local :
               mem'[i] = mem[i] /\ mem'[down[e].local[i]] = mem[down[e].local[i]]
        BY <1>1, <2>2
      <4> QED BY <4>1, <4>2, <4>3
    <3> QED BY <3>1, <3>2
  <2>10. ForgetsNotOwed'
    <3>1. \A S \in SUBSET Given : Held(S) \cap owed = {} => {mem'[i] : i \in S} \cap owed = {}
      BY <2>2 DEF Held
    <3>2. /\ forgets \in SUBSET Given /\ Held(forgets) \cap owed = {}
          /\ \A e \in Devices : /\ down[e].asked \cup down[e].settled \in SUBSET Given
                                /\ Held(down[e].asked \cup down[e].settled) \cap owed = {}
      BY <1>1 DEF Safe, KeptInv, ForgetsNotOwed, TypeInv, RowsOK
    <3>3. /\ {mem'[i] : i \in forgets} \cap owed = {}
          /\ \A e \in Devices : {mem'[i] : i \in down[e].asked \cup down[e].settled} \cap owed = {}
      BY <3>1, <3>2
    <3>4. down'[d].asked \cup down'[d].settled \subseteq down[d].asked
      BY <2>1
    <3> QED BY <2>1, <2>3, <3>3, <3>4 DEF ForgetsNotOwed, Held
  <2>11. WaitingIsLate'
    BY <2>1, <2>3 DEF Safe, KeptInv, WaitingIsLate
  <2>12. OwedIsKept'
    <3>1. InVaults \subseteq InVaults'
      BY <2>3, <2>5 DEF InVaults
    <3>2. \A m \in Held(InVaults) : \E i \in InVaults' : mem'[i] = m
      BY <1>1, <2>2, <3>1 DEF Held
    <3> QED BY <2>3, <3>2 DEF Safe, KeptInv, OwedIsKept, Held
  <2>13. LiveOnce'
    <3>1. /\ cloud.live \subseteq Given /\ \A e \in Devices : vault[e].live \subseteq Given
          /\ Distinct(cloud.live) /\ \A e \in Devices : Distinct(vault[e].live)
      BY <1>1 DEF Entries, Safe, LiveOnce
    <3>2. /\ \A i, j \in cloud.live : mem'[i] = mem'[j] => i = j
          /\ \A e \in Devices : \A i, j \in vault[e].live : mem'[i] = mem'[j] => i = j
      BY <2>2, <3>1 DEF Distinct
    <3>3. \A i, j \in vault'[d].live : mem'[i] = mem'[j] => i = j
      <4>1. \A i \in vault'[d].live : i \in vault[d].live \/ \E k \in New(d) : i = LocalId(d, k)
        <5>1. \A i \in added : \E k \in New(d) : i = LocalId(d, k)
          BY DEF added
        <5> QED BY <2>1, <5>1
      <4>2. \A i \in vault[d].live : \A k \in New(d) : mem'[i] # mem'[LocalId(d, k)]
        <5> SUFFICES ASSUME NEW i \in vault[d].live, NEW k \in New(d)
                     PROVE  mem'[i] # mem'[LocalId(d, k)]
          OBVIOUS
        <5>1. mem[i] # mem[k]
          BY DEF New, Present
        <5> QED BY <2>2, <3>1, <5>1
      <4>3. \A k, l \in New(d) : mem'[LocalId(d, k)] = mem'[LocalId(d, l)] => k = l
        <5>1. \A k \in down[d].fetched : mem[k] = k
          BY DEF Safe, RowsInv, Originals
        <5> QED BY <2>2, <5>1
      <4> QED BY <3>2, <4>1, <4>2, <4>3
    <3> QED BY <2>1, <2>3, <3>2, <3>3 DEF LiveOnce, Distinct
  <2> QED BY <2>6, <2>7, <2>8, <2>9, <2>10, <2>11, <2>12, <2>13 DEF Safe, RowsInv, KeptInv
<1>7. CASE AckEntries(d)
  <2> DEFINE local == down[d].local
             acked == DOMAIN local
             rows == acked \cap (waiting \cup held)
  <2>1. /\ UNCHANGED <<enforce, tomb, mem, vault, cloud, owed>> /\ down[d].pc = "ack"
        /\ forgets' = (forgets \ acked) \cup {local[i] : i \in acked \cap forgets}
        /\ waiting' = waiting \ rows
        /\ held' = (held \ rows) \cup {local[i] : i \in rows}
        /\ \A e \in Devices : e # d => down'[e] = down[e]
        /\ down'[d].fetched = {} /\ down'[d].asked = {} /\ DOMAIN down'[d].local = {}
        /\ ~down'[d].unshared /\ down'[d].settled = down[d].settled
    BY <1>1, <1>7 DEF AckEntries, DownGoes, IdleDown, history
  <2>2. \A i \in acked : /\ local[i] \in Entries(vault[d]) /\ mem[local[i]] = mem[i]
                         /\ mem[i] = i
    BY DEF Safe, KeptInv, AcksAreSaved, RowsInv, Originals
  <2>3. enforce /\ tomb # Never => rows = {}
    BY DEF Safe, RowsInv, AcksAreStale, TombstonedScopeIsEmpty
  <2> HIDE DEF local, acked, rows
  <2>4. Originals' /\ AcksAreStale'
    BY <2>1 DEF Safe, RowsInv, Originals, AcksAreStale
  <2>5. TombstonedScopeIsEmpty'
    BY <2>1, <2>3 DEF Safe, RowsInv, TombstonedScopeIsEmpty
  <2>6. VersionsKnown' /\ LiveOnce'
    BY <2>1 DEF Safe, KeptInv, VersionsKnown, LiveOnce, Distinct
  <2>7. AcksAreSaved'
    BY <2>1 DEF Safe, KeptInv, AcksAreSaved
  <2>8. ForgetsNotOwed'
    BY <2>1, <2>2 DEF Safe, KeptInv, ForgetsNotOwed, Held
  <2>9. WaitingIsLate'
    BY <2>1 DEF Safe, KeptInv, WaitingIsLate
  <2>10. OwedIsKept'
    <3>1. \A i \in acked : i \in Held(InVaults)
      BY <2>2 DEF Held, InVaults
    <3> QED BY <2>1, <3>1 DEF Safe, KeptInv, OwedIsKept, Held, InVaults, rows
  <2> QED BY <2>4, <2>5, <2>6, <2>7, <2>8, <2>9, <2>10 DEF Safe, RowsInv, KeptInv
<1>8. CASE AckForgets(d)
  <2>1. /\ UNCHANGED <<enforce, tomb, mem, vault, cloud, owed>>
        /\ forgets' \subseteq forgets /\ held' \subseteq held
        /\ waiting' = waiting \ down[d].settled
        /\ \A e \in Devices : down'[e] = down[e] \/ Empty(down'[e])
    BY <1>1, <1>8, IdleIsEmpty DEF AckForgets, DownGoes, history
  <2>2. RowsInv'
    BY <2>1 DEF Safe, RowsInv, Originals, AcksAreStale, TombstonedScopeIsEmpty, Empty
  <2>3. VersionsKnown' /\ LiveOnce'
    BY <2>1 DEF Safe, KeptInv, VersionsKnown, LiveOnce, Distinct
  <2>4. AcksAreSaved' /\ WaitingIsLate'
    BY <2>1 DEF Safe, KeptInv, AcksAreSaved, WaitingIsLate, Empty
  <2>5. ForgetsNotOwed'
    BY <2>1 DEF Safe, KeptInv, ForgetsNotOwed, Held, Empty
  <2>6. OwedIsKept'
    <3>1. \A i \in down[d].settled \cap waiting : i \notin owed
      BY DEF Safe, RowsInv, Originals, KeptInv, ForgetsNotOwed, Held
    <3> QED BY <2>1, <3>1 DEF Safe, KeptInv, OwedIsKept, Held, InVaults
  <2> QED BY <2>2, <2>3, <2>4, <2>5, <2>6 DEF Safe, KeptInv
<1> QED BY <1>2, <1>3, <1>4, <1>5, <1>6, <1>7, <1>8 DEF DownStep

-----------------------------------------------------------------------------
(* The theorems.                                                           *)

ShareInv == TypeInv /\ Safe /\ MarksInv

LEMMA InitHolds == ShareInit => ShareInv
<1> SUFFICES ASSUME ShareInit PROVE ShareInv
  OBVIOUS
<1>1. \A d \in Devices : down[d] = IdleDown /\ Empty(IdleDown)
  BY IdleIsEmpty DEF ShareInit
<1>2. /\ waiting = {1} /\ held = {} /\ owed = {1} /\ mem = <<1>> /\ tomb = Never /\ forgets = {}
      /\ cloud = [live |-> {}, gone |-> {}, sharedAt |-> 1, ver |-> 1] /\ now = 1 /\ marked = 1
      /\ \A d \in Devices : vault[d] = [live |-> {}, gone |-> {}, sharedAt |-> 1, ver |-> 1,
                                        dirty |-> FALSE]
      /\ \A d \in Devices : push[d] = IdlePush
      /\ \A a \in Apps : app[a] = IdleApp
  BY DEF ShareInit
<1>3. RowsInv
  BY <1>1, <1>2 DEF RowsInv, Originals, AcksAreStale, TombstonedScopeIsEmpty, Empty
<1>4. KeptInv
  BY <1>1, <1>2 DEF KeptInv, VersionsKnown, AcksAreSaved, ForgetsNotOwed, WaitingIsLate, OwedIsKept,
     Held, Entries, Empty
<1>5. LiveOnce
  BY <1>2 DEF LiveOnce, Distinct
<1>6. MarksInv
  BY <1>2 DEF MarksInv, MarksAreOld, ListsAreClosed, Revoked, IdlePush, IdleApp, Never
<1> QED BY <1>3, <1>4, <1>5, <1>6, InitTyped DEF ShareInv, Safe

LEMMA StepHolds == ShareInv /\ [ShareNext]_vars => ShareInv'
<1> SUFFICES ASSUME ShareInv, [ShareNext]_vars PROVE ShareInv'
  OBVIOUS
<1>1. TypeInv /\ Safe /\ MarksInv
  BY DEF ShareInv
<1>2. Safe'
  <2>1. CASE UNCHANGED vars
    BY <1>1, <2>1, RowsStay, KeptStay, OnceStay DEF vars, server, device, history, Safe
  <2> QED BY <1>1, <2>1, AppSafe, SyncSafe, ScopeSafe, DownSafe, PushSafe DEF ShareNext
<1> QED BY <1>1, <1>2, NextTyped, MarksKept DEF ShareInv

LEMMA ShareInvHolds == ShareSpec => []ShareInv
BY InitHolds, StepHolds, PTL DEF ShareSpec

\* Rows, forgets, vaults and every call of the connector's routes and of the
\* device that talks to them keep their types, for any devices and apps.
THEOREM ShareTypeCorrect == ShareSpec => []ShareTypeOK
<1>1. ShareInv => ShareTypeOK
  BY TypesFollow DEF ShareInv
<1> QED BY <1>1, ShareInvHolds, PTL

\* With unshares enforced (findTombstoneConflicts), no push prepared before an
\* unshare and no ack of a row fetched before it brings the scope back.
THEOREM UnsharedScopeStaysEmpty == ShareSpec => []TombstonedScopeIsEmpty
<1>1. ShareInv => TombstonedScopeIsEmpty
  BY DEF ShareInv, Safe, RowsInv
<1> QED BY <1>1, ShareInvHolds, PTL

\* No push, purge, ack, second device or crash loses a memory that
\* memory_remember has answered for.
THEOREM WrittenMemoriesAreKept == ShareSpec => []WrittenMemoryKept
<1>1. ShareInv => WrittenMemoryKept
  <2> SUFFICES ASSUME ShareInv PROVE WrittenMemoryKept
    OBVIOUS
  <2>1. \A i \in waiting : mem[i] = i
    BY DEF ShareInv, Safe, RowsInv, Originals
  <2>2. InVaults \subseteq cloud.live \cup cloud.gone
                           \cup UNION {vault[d].live \cup vault[d].gone : d \in Devices}
    BY DEF InVaults, Entries
  <2> QED BY <2>1, <2>2 DEF ShareInv, Safe, KeptInv, OwedIsKept, WrittenMemoryKept, Held
<1> QED BY <1>1, ShareInvHolds, PTL

\* However often a row is delivered (applyDownSync after a lost ack), a vault
\* takes its memory once.
THEOREM MemoriesAreDeliveredOnce == ShareSpec => []DeliveredOnce
<1>1. ShareInv => DeliveredOnce
  BY DEF ShareInv, Safe, LiveOnce, Distinct, DeliveredOnce
<1> QED BY <1>1, ShareInvHolds, PTL

\* A list begun after an unshare (visibleEntries) shows nothing of the scope
\* until it is marked shared again, enforced or not.
THEOREM RevokedScopeStaysHidden == ShareSpec => RevokedStaysHidden
<1> DEFINE Quiet == \A a \in Apps :
              (app[a].pc = "list" /\ app'[a].pc = "idle" /\ Visible(a) # {})
              => ~(Revoked /\ app[a].since = marked)
<1>1. ShareInv => Quiet
  BY DEF ShareInv, MarksInv, ListsAreClosed, Visible
<1>2. ShareInv => [Quiet]_vars
  BY <1>1
<1> QED BY <1>2, ShareInvHolds, PTL DEF RevokedStaysHidden
=============================================================================
