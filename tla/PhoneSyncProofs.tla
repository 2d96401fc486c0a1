-------------------------- MODULE PhoneSyncProofs ---------------------------
(***************************************************************************)
(* Why the phone buries no edit the server has never held, for any number  *)
(* of push sequences, any bounds, and failures, deaths and pulls by hand   *)
(* at any moment.                                                          *)
(*                                                                         *)
(* The flag comes off only over bytes the server has held, and a wake      *)
(* replaces only bytes that were not flagged or that matched a recorded    *)
(* hash.  For that, everything recorded must be a version of the server    *)
(* under its own number (HeldInv), a request must be the one its sequence  *)
(* waits for (NetInv), and the rows of the open session, which a restamp   *)
(* saves, must be the file's or landed themselves (RowsInv).               *)
(*                                                                         *)
(* The last theorem is about the last writer wins of a conflict: with at   *)
(* most two saves in flight, what a second push replaces is stashed.       *)
(***************************************************************************)
EXTENDS PhoneSync, TLAPS

\* The server installed b as version v.
Holds(v, b) == v \in 1..Len(hist) /\ hist[v] = b
Versions == {hist[v] : v \in 1..Len(hist)}

\* Prepared bytes are bytes, and the server always holds a version.
BytesInv ==
    /\ hist # <<>>
    /\ \A s \in Pushes : push[s].pc \in {"prepared", "sent", "record"} => push[s].blob \in Blob

\* A live request is the one PUT its sequence waits for, with its bytes and base.
NetInv ==
    /\ \A r \in net : r.live => /\ push[r.from].pc = "sent" /\ push[r.from].blob = r.blob
                                /\ push[r.from].base = r.base
    /\ \A r1, r2 \in net : (r1.live /\ r2.live /\ r1.from = r2.from) => r1 = r2

\* What is recorded, or about to be, is a version of the server under its own
\* number: of a landed push, a repair, a download, a baseline.
HeldInv ==
    /\ \A s \in Pushes : push[s].pc = "record" => Holds(push[s].ver, push[s].blob)
    /\ wake.pc = "repairing" => Holds(wake.rem, wake.got)
    /\ wake.pc = "install" => Holds(wake.gotVer, wake.got)
    /\ (wake.pc \in {"file", "dirty"} /\ wake.sha # NoBlob) => wake.sha \in Versions
    /\ manual # NoDownload => Holds(manual.ver, manual.blob)
    /\ BaselineNamesOneVersion

\* Saving the session brings back nothing the server never held: its rows are
\* the file's, or the server has held both.
RowsInv ==
    \/ session.edits = file.edits
    \/ session.edits \subseteq Landed /\ file.edits \subseteq Landed

\* The bytes a wake expects to replace are ones the server has held.
CurInv == wake.pc \in {"download", "install"} => wake.cur.edits \subseteq Landed

\* Nothing unpushed is unflagged, and stays so through restamps and installs.
FlagInv == FlagsHold => (~dirty => file.edits \subseteq Landed) /\ RowsInv /\ CurInv

\* Bytes, and what is none.
LEMMA BlobFacts ==
  /\ FirstVault \in Blob /\ NoBlob \notin Blob /\ NoBlob \in MaybeBlob
  /\ Blob \subseteq MaybeBlob /\ NoGen \notin Nat
  BY DEF FirstVault, NoBlob, Blob, MaybeBlob, NoGen

\* The parts of bytes.
LEMMA BlobFields ==
  ASSUME NEW b \in MaybeBlob
  PROVE  b.gen \in Nat /\ b.edits \subseteq PhoneEdits \cup OtherEdits
  BY DEF MaybeBlob, Blob, NoBlob

\* The parts of a sequence.
LEMMA SequenceFields ==
  ASSUME NEW q \in Sequence
  PROVE  /\ q.pc \in PushLabels /\ q.why \in {"save", "wake", "establish"} /\ q.base \in Nat
         /\ q.ver \in Nat /\ q.blob \in MaybeBlob /\ q.gen \in Nat /\ q.remote \in MaybeBlob
  BY DEF Sequence

\* The parts of a wake.
LEMMA WakeFields ==
  ASSUME NEW w \in Wake
  PROVE  /\ w.pc \in WakeLabels /\ w.stage \in {"first", "asked", "moved", "repair"}
         /\ w.ver \in Nat /\ w.sha \in MaybeBlob /\ w.cur \in MaybeBlob
         /\ w.rem \in Nat \cup {Unknown} /\ w.got \in MaybeBlob /\ w.gotVer \in Nat
  BY DEF Wake

\* The idle values have their types.
LEMMA Constants ==
  NoPush \in Sequence /\ NoWake \in Wake /\ NoDownload \in [ver: Nat, blob: MaybeBlob]
  BY BlobFacts DEF NoPush, Sequence, PushLabels, NoWake, Wake, WakeLabels, Unknown, NoDownload

\* What a bounded event uses and how it names an edit.
LEMMA Budgets ==
  ASSUME used \in Budget
  PROVE  /\ Use("edits", MaxEdits) => used' \in Budget /\ used.edits + 1 \in PhoneEdits
         /\ Use("others", MaxOthers) => used' \in Budget /\ -(used.others + 1) \in OtherEdits
         /\ Trouble => used' \in Budget /\ used' # used
<1> USE PhoneAssumption DEF Budget
<1>1. ASSUME Use("edits", MaxEdits) PROVE used' \in Budget /\ used.edits + 1 \in PhoneEdits
  BY <1>1 DEF Use, PhoneEdits
<1>2. ASSUME Use("others", MaxOthers) PROVE used' \in Budget /\ -(used.others + 1) \in OtherEdits
  BY <1>2 DEF Use, OtherEdits
<1>3. ASSUME Trouble PROVE used' \in Budget /\ used' # used
  BY <1>3 DEF Use, Trouble
<1> QED
  BY <1>1, <1>2, <1>3

\* Of the bookkeeping after a landed copy: the baseline is the old one or
\* the new one, and the flag goes only with the new bytes in the file.
LEMMA BookkeepingWrites ==
  ASSUME used \in Budget, dirty \in BOOLEAN, NEW c \in BOOLEAN, NEW b, NEW x,
         Bookkeeping(c, b, x)
  PROVE  /\ dirty' \in BOOLEAN /\ used' \in Budget /\ baseline' \in {baseline, b}
         /\ excused' \in {excused, excused \cup {x}}
         /\ ~dirty' => ~dirty \/ c
         /\ used' = used => excused' = excused
         /\ used' # used => x \in excused'
<1>1. CASE /\ dirty' = (dirty /\ ~c) /\ baseline' = b /\ UNCHANGED budget
  BY <1>1 DEF budget
<1>2. CASE /\ Trouble
           /\ \E written \in 0..2 : /\ dirty' = IF written > 0 THEN dirty /\ ~c ELSE dirty
                                    /\ baseline' = IF written > 1 THEN b ELSE baseline
           /\ excused' = excused \cup {x}
  <2>1. used' \in Budget /\ used' # used
    BY <1>2, Budgets
  <2> QED
    BY <1>2, <2>1
<1> QED
  BY <1>1, <1>2 DEF Bookkeeping

\* The server's newest version, and what one more leaves of the others.
LEMMA HistFacts ==
  ASSUME hist \in Seq(Blob), hist # <<>>
  PROVE  /\ RemoteVersion \in Nat /\ RemoteVersion >= 1 /\ RemoteVersion = Len(hist)
         /\ RemoteBlob \in Blob /\ Holds(RemoteVersion, RemoteBlob)
         /\ \A b \in Blob : /\ Append(hist, b) \in Seq(Blob) /\ Append(hist, b) # <<>>
                            /\ Len(Append(hist, b)) = Len(hist) + 1
                            /\ Append(hist, b)[Len(hist) + 1] = b
                            /\ \A v \in 1..Len(hist) : Append(hist, b)[v] = hist[v]
<1>1. Len(hist) \in Nat /\ Len(hist) >= 1
  OBVIOUS
<1>2. hist[Len(hist)] \in Blob
  BY <1>1
<1>3. ASSUME NEW b \in Blob
      PROVE  /\ Append(hist, b) \in Seq(Blob) /\ Append(hist, b) # <<>>
             /\ Len(Append(hist, b)) = Len(hist) + 1
             /\ Append(hist, b)[Len(hist) + 1] = b
             /\ \A v \in 1..Len(hist) : Append(hist, b)[v] = hist[v]
  OBVIOUS
<1> QED
  BY <1>1, <1>2, <1>3 DEF RemoteVersion, RemoteBlob, Holds

-----------------------------------------------------------------------------
(* Types *)

\* The types, and what they need of the bytes in flight.
TypeInv == PhoneTypeOK /\ BytesInv

\* The types of the variables, cited instead of expanded.
LEMMA Types ==
  ASSUME TypeInv
  PROVE  /\ hist \in Seq(Blob) /\ hist # <<>> /\ net \subseteq Request
         /\ file \in Blob /\ session \in Session /\ dirty \in BOOLEAN /\ baseline \in Baseline
         /\ stash \in MaybeBlob /\ stashBak \in MaybeBlob
         /\ push \in [Pushes -> Sequence] /\ wake \in Wake
         /\ manual \in [ver: Nat, blob: MaybeBlob] /\ saves \in Nat /\ used \in Budget
         /\ excused \subseteq Excuses
  BY DEF TypeInv, PhoneTypeOK, BytesInv

\* A step of one sequence.
LEMMA Becomes ==
  ASSUME push \in [Pushes -> Sequence], NEW s \in Pushes, NEW q, Become(s, q)
  PROVE  /\ push'[s] = q
         /\ \A t \in Pushes : t # s => push'[t] = push[t]
         /\ q \in Sequence => push' \in [Pushes -> Sequence]
  BY DEF Become

\* The end of one.
LEMMA Finishes ==
  ASSUME push \in [Pushes -> Sequence], NEW s \in Pushes, Finish(s)
  PROVE  /\ push' \in [Pushes -> Sequence] /\ push'[s] = NoPush
         /\ \A t \in Pushes : t # s => push'[t] = push[t]
         /\ wake' \in {wake, NoWake}
  BY Becomes, Constants DEF Finish

\* What the bytes of prepared pushes ask of a step that moves one sequence.
LEMMA BytesMove ==
  ASSUME BytesInv, NEW s \in Pushes,
         \A t \in Pushes : t # s => push'[t] = push[t],
         push'[s].pc \in {"prepared", "sent", "record"} => push'[s].blob \in Blob,
         hist' # <<>>
  PROVE  BytesInv'
  BY DEF BytesInv

\* What saves and reopened sessions hold.
LEMMA Rows ==
  ASSUME file \in Blob, session \in Session, saves \in Nat
  PROVE  /\ \A e \in SUBSET (PhoneEdits \cup OtherEdits), g \in Nat :
              Save(e, g) => /\ file' \in Blob /\ saves' \in Nat
                            /\ file'.edits = e /\ file'.gen = g /\ file'.id = saves + 1
         /\ \A b \in Blob : OpenedFrom(b) \in Session /\ OpenedFrom(b).edits = b.edits
         /\ file.edits \subseteq PhoneEdits \cup OtherEdits /\ file.gen \in Nat
         /\ session.edits \subseteq PhoneEdits \cup OtherEdits /\ session.gen \in Nat
         /\ \A g \in Nat : /\ [session EXCEPT !.gen = g] \in Session
                           /\ [session EXCEPT !.gen = g].edits = session.edits
  BY DEF Save, Blob, Session, OpenedFrom

\* Each action keeps the types.
LEMMA EditTypes == ASSUME TypeInv, NEW s \in Pushes, Edit(s) PROVE TypeInv'
<1> USE Types
<1>1. session.edits \cup {used.edits + 1} \in SUBSET (PhoneEdits \cup OtherEdits) /\ used' \in Budget
  BY Budgets, Rows DEF Edit
<1>2. file' \in Blob /\ saves' \in Nat /\ session' \in Session
  BY <1>1, Rows DEF Edit
<1>3. [NoPush EXCEPT !.pc = "saved"] \in Sequence /\ [NoPush EXCEPT !.pc = "saved"].pc = "saved"
  BY BlobFacts DEF NoPush, Sequence, PushLabels
<1>4. push' \in [Pushes -> Sequence] /\ BytesInv'
  BY <1>3, Becomes, BytesMove DEF Edit, server, TypeInv, BytesInv
<1> QED
  BY <1>1, <1>2, <1>4 DEF TypeInv, PhoneTypeOK, Edit, server, stashes

LEMMA BeginPushTypes == ASSUME TypeInv, NEW s \in Pushes, BeginPush(s) PROVE TypeInv'
<1> USE Types
<1>1. [push[s] EXCEPT !.pc = "flagged"] \in Sequence /\ [push[s] EXCEPT !.pc = "flagged"].pc = "flagged"
  BY DEF Sequence, PushLabels
<1>2. push' \in [Pushes -> Sequence] /\ BytesInv'
  BY <1>1, Becomes, BytesMove DEF BeginPush, server, TypeInv, BytesInv
<1> QED
  BY <1>2 DEF TypeInv, PhoneTypeOK, BeginPush, server, vaultFiles, stashes, budget

LEMMA LoadBaseVersionTypes == ASSUME TypeInv, NEW s \in Pushes, LoadBaseVersion(s) PROVE TypeInv'
<1> USE Types
<1> DEFINE q == [push[s] EXCEPT !.pc = "based", !.base = baseline.ver]
<1>1. q \in Sequence /\ q.pc = "based"
  BY DEF Sequence, PushLabels, Baseline
<1>2. push' \in [Pushes -> Sequence] /\ BytesInv'
  BY <1>1, Becomes, BytesMove DEF LoadBaseVersion, server, TypeInv, BytesInv
<1> QED
  BY <1>2 DEF TypeInv, PhoneTypeOK, LoadBaseVersion, server, vaultFiles, record, stashes, budget

\* The generation to stamp is a number.
LEMMA GenerationType ==
  ASSUME TypeInv
  PROVE  NextPushGeneration \in Nat
  BY Types, Rows DEF NextPushGeneration, Baseline, NoGen

\* What a stamp leaves: the same rows.
LEMMA Prepares ==
  ASSUME TypeInv, NEW s \in Pushes, Prepare(s)
  PROVE  /\ file' \in Blob /\ saves' \in Nat /\ file'.edits = file.edits
         /\ file'.gen = NextPushGeneration
         /\ file' = file \/ file'.id = saves + 1
         /\ baseline' \in {baseline, [baseline EXCEPT !.pending = file']}
         /\ push'[s] = [push[s] EXCEPT !.pc = "prepared", !.blob = file', !.gen = NextPushGeneration]
         /\ push'[s] \in Sequence /\ push'[s].pc = "prepared" /\ push'[s].blob = file'
         /\ push'[s].base = push[s].base /\ push'[s].gen = NextPushGeneration
<1> USE Types
<1>1. file' \in Blob /\ saves' \in Nat /\ file'.edits = file.edits /\ file'.gen = NextPushGeneration
      /\ (file' = file \/ file'.id = saves + 1)
  <2>1. CASE NextPushGeneration = file.gen
    BY <2>1 DEF Prepare
  <2>2. CASE NextPushGeneration # file.gen
    BY <2>2, Rows, GenerationType DEF Prepare
  <2> QED
    BY <2>1, <2>2
<1>2. push'[s] = [push[s] EXCEPT !.pc = "prepared", !.blob = file', !.gen = NextPushGeneration]
  BY Becomes DEF Prepare
<1>3. file' \in MaybeBlob
  BY <1>1, BlobFacts
<1>4. /\ push'[s] \in Sequence /\ push'[s].pc = "prepared" /\ push'[s].blob = file'
      /\ push'[s].base = push[s].base /\ push'[s].gen = NextPushGeneration
  <2> HIDE DEF NextPushGeneration
  <2>1. push[s] \in Sequence /\ NextPushGeneration \in Nat
    BY GenerationType
  <2> QED
    BY <1>2, <1>3, <2>1 DEF Sequence, PushLabels
<1>5. baseline' \in {baseline, [baseline EXCEPT !.pending = file']}
  BY DEF Prepare
<1> QED
  BY <1>1, <1>2, <1>4, <1>5

LEMMA PrepareTypes == ASSUME TypeInv, NEW s \in Pushes, Prepare(s) PROVE TypeInv'
<1> USE Types
<1>1. push' \in [Pushes -> Sequence] /\ BytesInv'
  <2> DEFINE q == [push[s] EXCEPT !.pc = "prepared", !.blob = file', !.gen = NextPushGeneration]
  <2>1. Become(s, q)
    BY DEF Prepare
  <2> HIDE DEF q
  <2>2. push'[s] \in Sequence
    BY Prepares
  <2>3. push' \in [Pushes -> Sequence] /\ \A t \in Pushes : t # s => push'[t] = push[t]
    <3>1. push \in [Pushes -> Sequence]
      OBVIOUS
    <3> QED
      BY <2>1, <2>2, <3>1, Becomes
  <2>4. hist' # <<>> /\ push'[s].blob \in Blob
    BY Prepares DEF Prepare, server
  <2> QED
    BY <2>3, <2>4, BytesMove DEF TypeInv
<1>2. baseline' \in Baseline
  BY Prepares, BlobFacts DEF Baseline
<1> QED
  BY <1>1, <1>2, Prepares DEF TypeInv, PhoneTypeOK, Prepare, server, stashes, budget

\* A PUT is a request.
LEMMA PutTypes ==
  ASSUME net \subseteq Request, NEW s \in Pushes, NEW base \in Nat, NEW b \in Blob,
         NEW again \in BOOLEAN, Put(s, base, b, again)
  PROVE  net' \subseteq Request
<1>1. [from |-> s, base |-> base, blob |-> b, again |-> again, live |-> TRUE] \in Request
  BY DEF Request
<1> QED
  BY <1>1 DEF Put

LEMMA UploadTypes == ASSUME TypeInv, NEW s \in Pushes, Upload(s) PROVE TypeInv'
<1> USE Types
<1> DEFINE q == [push[s] EXCEPT !.pc = "sent"]
<1>1. q \in Sequence /\ q.pc = "sent" /\ q.blob = push[s].blob
  BY DEF Sequence, PushLabels
<1>2. push[s].blob \in Blob /\ push[s].base \in Nat /\ push[s].gen \in Nat
  BY SequenceFields DEF Upload, At, TypeInv, BytesInv
<1>3. push' \in [Pushes -> Sequence] /\ BytesInv'
  BY <1>1, <1>2, Becomes, BytesMove DEF Upload, TypeInv, BytesInv
<1>4. net' \subseteq Request /\ session' \in Session
  BY <1>2, PutTypes, Rows DEF Upload
<1> QED
  BY <1>3, <1>4 DEF TypeInv, PhoneTypeOK, Upload, record, stashes, budget

LEMMA AnswerTypes == ASSUME TypeInv, NetInv, NEW r \in net, Answer(r) PROVE TypeInv'
<1> USE Types
<1>r. r.from \in Pushes /\ r.blob \in Blob /\ net' \subseteq Request
  BY DEF Request, Answer
<1>s. push[r.from] \in Sequence /\ session \in Session
  BY <1>r
<1>h. /\ RemoteVersion \in Nat
      /\ Append(hist, r.blob) \in Seq(Blob) /\ Append(hist, r.blob) # <<>>
  BY <1>r, HistFacts
<1>1. CASE Accepts(r)
  <2>0. r.live /\ push[r.from].pc = "sent" /\ push[r.from].blob \in Blob
    BY <1>r DEF TypeInv, BytesInv, Answer, NetInv
  <2> DEFINE q == [push[r.from] EXCEPT !.pc = "record", !.ver = RemoteVersion + 1, !.base = 0]
  <2>1. q \in Sequence /\ q.blob = push[r.from].blob
    <3>1. RemoteVersion + 1 \in Nat /\ 0 \in Nat
      BY <1>h
    <3> HIDE DEF RemoteVersion
    <3> QED
      BY <1>s, <3>1 DEF Sequence, PushLabels
  <2>2. push' \in [Pushes -> Sequence] /\ BytesInv'
    BY <1>1, <2>0, <2>1, <1>r, <1>h, Becomes, BytesMove DEF Answer, TypeInv
  <2>3. session' \in Session
    BY <1>1, <1>s, <1>r, Rows, SequenceFields DEF Answer
  <2> QED
    BY <1>1, <2>2, <2>3, <1>r, <1>h DEF TypeInv, PhoneTypeOK, Answer, record, stashes, budget
<1>2. CASE ~Accepts(r)
  <2>1. hist' = hist /\ session' = session
    BY <1>2 DEF Answer
  <2>2. CASE r.again \/ push[r.from].why = "establish"
    <3>1. Finish(r.from)
      BY <1>2, <2>2 DEF Answer
    <3>2. push' \in [Pushes -> Sequence] /\ BytesInv' /\ wake' \in Wake
      BY <3>1, <2>1, <1>r, Finishes, BytesMove, Constants DEF TypeInv, BytesInv, NoPush
    <3> QED
      BY <3>2, <2>1, <1>r DEF TypeInv, PhoneTypeOK, Answer, record, stashes, budget
  <2>3. CASE ~(r.again \/ push[r.from].why = "establish")
    <3> DEFINE q == [push[r.from] EXCEPT !.pc = "conflict", !.base = RemoteVersion, !.blob = NoBlob]
    <3>1. q \in Sequence /\ q.pc = "conflict"
      BY <1>s, <1>h, BlobFacts DEF Sequence, PushLabels
    <3>2. push' \in [Pushes -> Sequence] /\ BytesInv' /\ wake' = wake
      BY <1>2, <2>3, <3>1, <2>1, <1>r, Becomes, BytesMove DEF Answer, TypeInv, BytesInv
    <3> QED
      BY <3>2, <2>1, <1>r DEF TypeInv, PhoneTypeOK, Answer, record, stashes, budget
  <2> QED
    BY <2>2, <2>3
<1> QED
  BY <1>1, <1>2

LEMMA LateArrivalTypes == ASSUME TypeInv, NEW r \in net, LateArrival(r) PROVE TypeInv'
<1> USE Types
<1>1. r.blob \in Blob /\ net' \subseteq Request
  BY DEF Request, LateArrival
<1>2. hist' \in Seq(Blob) /\ hist' # <<>>
  BY <1>1, HistFacts DEF LateArrival
<1> QED
  BY <1>1, <1>2 DEF TypeInv, PhoneTypeOK, BytesInv, LateArrival, vaultFiles, record, stashes, budget

\* So is one nobody waits for.
LEMMA AbandonedTypes ==
  ASSUME net \subseteq Request, NEW R \in SUBSET net
  PROVE  Abandoned(R) \subseteq Request
<1>1. ASSUME NEW r \in R PROVE [r EXCEPT !.live = FALSE] \in Request
  BY DEF Request
<1> QED
  BY <1>1 DEF Abandoned

LEMMA GiveUpTypes == ASSUME TypeInv, NEW s \in Pushes, GiveUp(s) PROVE TypeInv'
<1> USE Types
<1>1. net' \subseteq Request
  <2> DEFINE mine == {r \in net : r.from = s /\ r.live}
  <2>1. net' = (net \ mine) \cup Abandoned(mine)
    BY DEF GiveUp
  <2>2. Abandoned(mine) \subseteq Request
    BY AbandonedTypes
  <2> QED
    BY <2>1, <2>2
<1>2. used' \in Budget
  BY Budgets DEF GiveUp
<1>3. push' \in [Pushes -> Sequence] /\ BytesInv' /\ wake' \in Wake
  BY Finishes, BytesMove, Constants DEF GiveUp, TypeInv, BytesInv, NoPush
<1> QED
  BY <1>1, <1>2, <1>3 DEF TypeInv, PhoneTypeOK, GiveUp, vaultFiles, record, stashes

LEMMA RecordTypes == ASSUME TypeInv, NEW s \in Pushes, Record(s) PROVE TypeInv'
<1> USE Types
<1> DEFINE b == [ver |-> push[s].ver, sha |-> push[s].blob, gen |-> push[s].gen, pending |-> NoBlob]
<1>1. b \in Baseline
  BY SequenceFields, BlobFacts DEF Baseline
<1>2. Bookkeeping(file = push[s].blob, b, "torn")
  BY DEF Record
<1>3. dirty' \in BOOLEAN /\ used' \in Budget /\ baseline' \in Baseline /\ excused' \subseteq Excuses
  <2> HIDE DEF b
  <2>1. dirty' \in BOOLEAN /\ used' \in Budget /\ baseline' \in {baseline, b}
        /\ excused' \in {excused, excused \cup {"torn"}}
    BY <1>2, BookkeepingWrites
  <2> QED
    BY <1>1, <2>1 DEF Excuses
<1>4. push' \in [Pushes -> Sequence] /\ BytesInv' /\ wake' \in Wake
  BY Finishes, BytesMove, Constants DEF Record, server, TypeInv, BytesInv, NoPush
<1> QED
  BY <1>3, <1>4 DEF TypeInv, PhoneTypeOK, Record, server, vaultFiles, stashes

LEMMA FetchRemoteTypes == ASSUME TypeInv, NEW s \in Pushes, FetchRemote(s) PROVE TypeInv'
<1> USE Types
<1> DEFINE q == [push[s] EXCEPT !.pc = "fetched", !.remote = RemoteBlob]
<1>1. q \in Sequence /\ q.pc = "fetched"
  <2>1. RemoteBlob \in MaybeBlob
    BY HistFacts, BlobFacts
  <2> HIDE DEF RemoteBlob
  <2> QED
    BY <2>1 DEF Sequence, PushLabels
<1>2. push' \in [Pushes -> Sequence] /\ BytesInv'
  BY <1>1, Becomes, BytesMove DEF FetchRemote, server, TypeInv, BytesInv
<1> QED
  BY <1>2 DEF TypeInv, PhoneTypeOK, FetchRemote, server, vaultFiles, record, stashes, budget

LEMMA StashRemoteTypes == ASSUME TypeInv, NEW s \in Pushes, StashRemote(s) PROVE TypeInv'
<1> USE Types
<1> DEFINE q == [push[s] EXCEPT !.pc = "stashed"]
<1>1. q \in Sequence /\ q.pc = "stashed"
  BY DEF Sequence, PushLabels
<1>2. push' \in [Pushes -> Sequence] /\ BytesInv'
  BY <1>1, Becomes, BytesMove DEF StashRemote, server, TypeInv, BytesInv
<1>3. stash' \in MaybeBlob /\ stashBak' \in MaybeBlob
  BY SequenceFields DEF StashRemote
<1> QED
  BY <1>2, <1>3 DEF TypeInv, PhoneTypeOK, StashRemote, server, vaultFiles, record, budget

LEMMA ChooseGenerationTypes == ASSUME TypeInv, NEW s \in Pushes, ChooseGeneration(s) PROVE TypeInv'
<1> USE Types
<1> DEFINE g == (IF file.gen > push[s].remote.gen THEN file.gen ELSE push[s].remote.gen) + 1
           q == [push[s] EXCEPT !.pc = "stamp", !.remote = NoBlob, !.gen = g]
<1>1. g \in Nat
  BY SequenceFields, BlobFields, Rows
<1>2. q \in Sequence /\ q.pc = "stamp"
  <2> HIDE DEF g
  <2> QED
    BY <1>1, BlobFacts DEF Sequence, PushLabels
<1>3. Become(s, q)
  BY DEF ChooseGeneration
<1>4. push' \in [Pushes -> Sequence] /\ BytesInv'
  <2> HIDE DEF q
  <2> QED
    BY <1>2, <1>3, Becomes, BytesMove DEF ChooseGeneration, server, TypeInv, BytesInv
<1> QED
  BY <1>4 DEF TypeInv, PhoneTypeOK, ChooseGeneration, server, vaultFiles, record, stashes, budget

LEMMA RestampTypes == ASSUME TypeInv, NEW s \in Pushes, Restamp(s) PROVE TypeInv'
<1> USE Types
<1>1. file' \in Blob /\ saves' \in Nat /\ session' \in Session
  BY Rows, SequenceFields DEF Restamp
<1> DEFINE q == [push[s] EXCEPT !.pc = "restamped"]
<1>2. q \in Sequence /\ q.pc = "restamped"
  BY DEF Sequence, PushLabels
<1>3. push' \in [Pushes -> Sequence] /\ BytesInv'
  BY <1>2, Becomes, BytesMove DEF Restamp, server, TypeInv, BytesInv
<1> QED
  BY <1>1, <1>3 DEF TypeInv, PhoneTypeOK, Restamp, server, record, stashes, budget

LEMMA RepushTypes == ASSUME TypeInv, NEW s \in Pushes, Repush(s) PROVE TypeInv'
<1> USE Types
<1> DEFINE q == [push[s] EXCEPT !.pc = "sent", !.blob = file]
<1>1. q \in Sequence /\ q.pc = "sent" /\ q.blob = file
  BY BlobFacts DEF Sequence, PushLabels
<1>2. push' \in [Pushes -> Sequence] /\ BytesInv'
  BY <1>1, Becomes, BytesMove DEF Repush, TypeInv, BytesInv
<1>3. net' \subseteq Request
  BY PutTypes, SequenceFields DEF Repush, RepushBase
<1> QED
  BY <1>2, <1>3 DEF TypeInv, PhoneTypeOK, Repush, vaultFiles, record, stashes, budget

\* A step of the wake that touches nothing else.
LEMMA WakeOnlyTypes ==
  ASSUME TypeInv, wake' \in Wake, UNCHANGED unlessWake
  PROVE  TypeInv'
  BY DEF TypeInv, PhoneTypeOK, BytesInv, unlessWake, server, vaultFiles, record, stashes, budget

\* A read or a decision of the wake changes the wake alone.
LEMMA WakeReads ==
  ASSUME TypeInv, WakeStart \/ ReadSha \/ ReadFile \/ Decide \/ AskStatus \/ WakeStandsBack
                  \/ AskForRepair \/ RepairLeavesEdit \/ RepairFastForwards \/ Download \/ InstallRefused
  PROVE  wake' \in Wake /\ UNCHANGED unlessWake
<1> USE Types, WakeFields, Constants
<1>r. RemoteVersion \in Nat /\ RemoteBlob \in MaybeBlob /\ baseline.sha \in MaybeBlob /\ baseline.ver \in Nat
      /\ file \in MaybeBlob /\ NoBlob \in MaybeBlob
  BY HistFacts, BlobFacts DEF Baseline
<1> HIDE DEF RemoteVersion, RemoteBlob
<1>1. CASE WakeStart
  BY <1>1, <1>r DEF WakeStart, NoWake, Wake, WakeLabels, Unknown
<1>2. CASE ReadSha
  BY <1>2, <1>r DEF ReadSha, Wake, WakeLabels
<1>3. CASE ReadFile
  BY <1>3, <1>r DEF ReadFile, Wake, WakeLabels
<1>4. CASE Decide
  <2>1. CASE wake' = NoWake
    BY <1>4, <2>1 DEF Decide
  <2>2. CASE wake' = [wake EXCEPT !.pc = WakeAction, !.sha = NoBlob,
                                  !.cur = IF WakeAction = "download" THEN @ ELSE NoBlob]
    <3>1. WakeAction \in WakeLabels
      BY DEF WakeAction, WakeLabels
    <3> HIDE DEF WakeAction
    <3> QED
      BY <1>4, <2>2, <3>1, <1>r DEF Decide, Wake
  <2> QED
    BY <1>4, <2>1, <2>2 DEF Decide
<1>5. CASE AskStatus
  BY <1>5, <1>r DEF AskStatus, Wake, WakeLabels
<1>6. CASE WakeStandsBack
  BY <1>6 DEF WakeStandsBack
<1>7. CASE AskForRepair
  BY <1>7, <1>r DEF AskForRepair, Wake, WakeLabels
<1>8. CASE RepairLeavesEdit
  BY <1>8 DEF RepairLeavesEdit
<1>9. CASE RepairFastForwards
  BY <1>9, <1>r DEF RepairFastForwards, Wake, WakeLabels
<1>10. CASE Download
  BY <1>10, <1>r DEF Download, Wake, WakeLabels
<1>11. CASE InstallRefused
  BY <1>11, <1>r DEF InstallRefused, Wake, WakeLabels
<1> QED
  BY <1>1, <1>2, <1>3, <1>4, <1>5, <1>6, <1>7, <1>8, <1>9, <1>10, <1>11

LEMMA WakePushesTypes == ASSUME TypeInv, NEW s \in Pushes, WakePushes(s) PROVE TypeInv'
<1> USE Types, WakeFields
<1> DEFINE q == IF WakeAt("push") THEN [NoPush EXCEPT !.pc = "flagged", !.why = "wake"]
                ELSE [NoPush EXCEPT !.pc = "based", !.why = "establish", !.base = wake.ver]
<1>1. q \in Sequence /\ q.pc \in {"flagged", "based"}
  BY BlobFacts DEF NoPush, Sequence, PushLabels
<1>2. push' \in [Pushes -> Sequence] /\ BytesInv'
  BY <1>1, Becomes, BytesMove DEF WakePushes, server, TypeInv, BytesInv
<1>3. wake' \in Wake
  BY BlobFacts DEF WakePushes, NoWake, Wake, WakeLabels, Unknown
<1> QED
  BY <1>2, <1>3 DEF TypeInv, PhoneTypeOK, WakePushes, server, vaultFiles, record, stashes, budget

LEMMA ClearDirtyTypes == ASSUME TypeInv, ClearDirty PROVE TypeInv'
  BY Types, Constants DEF TypeInv, PhoneTypeOK, BytesInv, ClearDirty, server, vaultFiles, stashes, budget

LEMMA RepairRecordsTypes == ASSUME TypeInv, HeldInv, RepairRecords PROVE TypeInv'
<1> USE Types
<1>1. [ver |-> wake.rem, sha |-> file, gen |-> file.gen, pending |-> NoBlob] \in Baseline
  <2>1. wake.rem \in 1..Len(hist)
    BY DEF RepairRecords, WakeAt, HeldInv, Holds
  <2>2. wake.rem \in Nat
    BY <2>1
  <2> QED
    BY <2>2, BlobFacts, Rows DEF Baseline
<1> QED
  BY <1>1, Constants DEF TypeInv, PhoneTypeOK, BytesInv, RepairRecords, server, vaultFiles, stashes, budget

\* What an install writes.
LEMMA PutsInPlace ==
  ASSUME TypeInv, NEW b \in Blob, NEW v \in Nat, NEW x \in Excuses, PutInPlace(b, v, x)
  PROVE  /\ file' = b /\ saves' = saves /\ session' \in {session, OpenedFrom(b)} /\ session' \in Session
         /\ dirty' \in BOOLEAN /\ used' \in Budget /\ excused' \subseteq Excuses
         /\ baseline' \in {baseline, [ver |-> v, sha |-> b, gen |-> b.gen, pending |-> NoBlob]}
         /\ baseline' \in Baseline
         /\ excused' \in {excused, excused \cup {x}}
         /\ used' # used => x \in excused'
         /\ used' = used => session' = OpenedFrom(b) /\ excused' = excused
<1> DEFINE base == [ver |-> v, sha |-> b, gen |-> b.gen, pending |-> NoBlob]
<1>1. base \in Baseline
  BY BlobFacts, BlobFields DEF Baseline
<1>2. Bookkeeping(TRUE, base, x)
  BY DEF PutInPlace
<1> HIDE DEF base
<1>3. dirty' \in BOOLEAN /\ used' \in Budget /\ baseline' \in {baseline, base}
      /\ excused' \in {excused, excused \cup {x}}
      /\ (used' = used => excused' = excused) /\ (used' # used => x \in excused')
  BY <1>2, BookkeepingWrites, Types
<1>4. session' = (IF used' = used THEN OpenedFrom(b) ELSE session) /\ file' = b /\ saves' = saves
  BY DEF PutInPlace, Reopened
<1> QED
  BY <1>1, <1>3, <1>4, Types, Rows DEF base

LEMMA InstallTypes == ASSUME TypeInv, HeldInv, Install PROVE TypeInv'
<1> USE Types
<1>1. wake.got \in Blob /\ wake.gotVer \in Nat
  BY WakeFields DEF Install, WakeAt, HeldInv, Holds
<1>2. PutInPlace(wake.got, wake.gotVer, "torn") /\ "torn" \in Excuses
  BY DEF Install, Excuses
<1> QED
  BY <1>1, <1>2, PutsInPlace, Constants DEF TypeInv, PhoneTypeOK, BytesInv, Install, server, stashes

LEMMA ManualTypes == ASSUME TypeInv, HeldInv, ManualDownload \/ ManualInstall PROVE TypeInv'
<1> USE Types
<1>1. CASE ManualDownload
  <2>1. manual' \in [ver: Nat, blob: MaybeBlob]
    BY <1>1, HistFacts, BlobFacts DEF ManualDownload
  <2>2. used' \in Budget /\ excused' \subseteq Excuses
    BY <1>1, Budgets DEF ManualDownload, Excuses
  <2> QED
    BY <1>1, <2>1, <2>2 DEF TypeInv, PhoneTypeOK, BytesInv, ManualDownload, server, vaultFiles, record, stashes
<1>2. CASE ManualInstall /\ IsReplay(manual.blob)
  BY <1>2, Constants DEF TypeInv, PhoneTypeOK, BytesInv, ManualInstall, server, vaultFiles, record, stashes, budget
<1>3. CASE ManualInstall /\ ~IsReplay(manual.blob)
  <2>1. manual.blob \in Blob /\ manual.ver \in Nat
    <3>1. manual.ver \in 1..Len(hist) /\ manual.blob = hist[manual.ver]
      BY <1>3 DEF ManualInstall, HeldInv, Holds
    <3> QED
      BY <3>1
  <2>2. PutInPlace(manual.blob, manual.ver, "torn by hand") /\ "torn by hand" \in Excuses
    BY <1>3 DEF ManualInstall, Excuses
  <2> QED
    BY <1>3, <2>1, <2>2, PutsInPlace, Constants DEF TypeInv, PhoneTypeOK, BytesInv, ManualInstall, server, stashes
<1> QED
  BY <1>1, <1>2, <1>3

LEMMA RelockTypes == ASSUME TypeInv, Relock PROVE TypeInv'
  BY Types, Rows DEF TypeInv, PhoneTypeOK, BytesInv, Relock, server, record, stashes, budget

LEMMA OtherDeviceTypes == ASSUME TypeInv, OtherDevicePushes PROVE TypeInv'
<1> USE Types
<1> DEFINE b == [edits |-> RemoteBlob.edits \cup {-(used.others + 1)}, gen |-> RemoteBlob.gen + 1, id |-> 0]
<1>1. RemoteBlob \in Blob /\ -(used.others + 1) \in OtherEdits /\ used' \in Budget
  BY HistFacts, Budgets DEF OtherDevicePushes
<1>2. b \in Blob
  BY <1>1 DEF Blob
<1>3. hist' \in Seq(Blob) /\ hist' # <<>>
  BY <1>2, HistFacts DEF OtherDevicePushes
<1> QED
  BY <1>1, <1>3 DEF TypeInv, PhoneTypeOK, BytesInv, OtherDevicePushes, vaultFiles, record, stashes

LEMMA KilledTypes == ASSUME TypeInv, Killed PROVE TypeInv'
<1> USE Types
<1>1. used' \in Budget /\ session' \in Session /\ net' \subseteq Request
  BY Budgets, Rows, AbandonedTypes DEF Killed
<1>2. push' \in [Pushes -> Sequence] /\ \A s \in Pushes : push'[s].pc = "idle"
  BY Constants DEF Killed, NoPush
<1> QED
  BY <1>1, <1>2, Constants DEF TypeInv, PhoneTypeOK, BytesInv, Killed, stashes

LEMMA WakeFailsTypes == ASSUME TypeInv, WakeFails PROVE TypeInv'
  BY Types, Budgets, Constants DEF TypeInv, PhoneTypeOK, BytesInv, WakeFails, server, vaultFiles, record, stashes

\* No step breaks a type.
LEMMA TypeStep ==
  ASSUME TypeInv, NetInv, HeldInv, [PhoneNext]_phoneVars
  PROVE  TypeInv'
<1>1. ASSUME NEW s \in Pushes, Edit(s) \/ PushStep(s) PROVE TypeInv'
  BY <1>1, EditTypes, BeginPushTypes, LoadBaseVersionTypes, PrepareTypes, UploadTypes, RecordTypes,
     FetchRemoteTypes, StashRemoteTypes, ChooseGenerationTypes, RestampTypes, RepushTypes DEF PushStep
<1>2. ASSUME WakeStart \/ WakeStep PROVE TypeInv'
  BY <1>2, WakeReads, WakeOnlyTypes, WakePushesTypes, ClearDirtyTypes, RepairRecordsTypes, InstallTypes
     DEF WakeStep
<1>3. ASSUME ManualDownload \/ ManualInstall \/ Relock PROVE TypeInv'
  BY <1>3, ManualTypes, RelockTypes
<1>4. ASSUME NEW r \in net, Answer(r) \/ LateArrival(r) PROVE TypeInv'
  BY <1>4, AnswerTypes, LateArrivalTypes
<1>5. ASSUME OtherDevicePushes \/ Failure PROVE TypeInv'
  BY <1>5, OtherDeviceTypes, KilledTypes, WakeFailsTypes, GiveUpTypes DEF Failure
<1>6. ASSUME UNCHANGED phoneVars PROVE TypeInv'
  BY <1>6 DEF phoneVars, TypeInv, PhoneTypeOK, BytesInv
<1> QED
  BY <1>1, <1>2, <1>3, <1>4, <1>5, <1>6 DEF PhoneNext, Network

\* The server's history only grows.
Grown == hist' = hist \/ \E b \in Blob : hist' = Append(hist, b)

\* No action takes a version back.
LEMMA HistStep ==
  ASSUME TypeInv, [PhoneNext]_phoneVars
  PROVE  Grown
<1> USE Types
<1>1. ASSUME NEW s \in Pushes, Edit(s) \/ PushStep(s) PROVE hist' = hist
  BY <1>1 DEF PushStep, Edit, BeginPush, LoadBaseVersion, Prepare, Upload, Record, FetchRemote,
              StashRemote, ChooseGeneration, Restamp, Repush, server
<1>2. ASSUME WakeStart \/ WakeStep PROVE hist' = hist
  <2>1. ASSUME UNCHANGED unlessWake PROVE hist' = hist
    BY <2>1 DEF unlessWake, server
  <2>2. ASSUME ClearDirty \/ RepairRecords \/ Install \/ \E s \in Pushes : WakePushes(s) PROVE hist' = hist
    BY <2>2 DEF ClearDirty, RepairRecords, Install, WakePushes, server
  <2> QED
    BY <1>2, <2>1, <2>2, WakeReads DEF WakeStep
<1>3. ASSUME ManualDownload \/ ManualInstall \/ Relock PROVE hist' = hist
  BY <1>3 DEF ManualDownload, ManualInstall, Relock, server
<1>4. ASSUME NEW r \in net, Answer(r) \/ LateArrival(r) PROVE Grown
  <2>1. r.blob \in Blob
    BY DEF Request
  <2> QED
    BY <1>4, <2>1 DEF Grown, Answer, LateArrival
<1>5. ASSUME OtherDevicePushes PROVE Grown
  <2>1. hist'[Len(hist')] \in Blob /\ hist' # <<>>
    BY <1>5, OtherDeviceTypes, HistFacts DEF TypeInv, PhoneTypeOK, BytesInv
  <2> DEFINE b == [edits |-> RemoteBlob.edits \cup {-(used.others + 1)}, gen |-> RemoteBlob.gen + 1, id |-> 0]
  <2>2. RemoteBlob \in Blob /\ -(used.others + 1) \in OtherEdits
    BY <1>5, HistFacts, Budgets DEF OtherDevicePushes
  <2>3. b \in Blob
    BY <2>2 DEF Blob
  <2> QED
    BY <1>5, <2>3 DEF OtherDevicePushes, Grown
<1>6. ASSUME Failure PROVE hist' = hist
  BY <1>6 DEF Failure, Killed, WakeFails, GiveUp, server
<1> QED
  BY <1>1, <1>2, <1>3, <1>4, <1>5, <1>6 DEF PhoneNext, Network, phoneVars, Grown

\* What the server has held it has held ever after.
LEMMA Monotone ==
  ASSUME TypeInv, Grown
  PROVE  /\ \A v, b : Holds(v, b) => Holds(v, b)'
         /\ Versions \subseteq Versions' /\ Landed \subseteq Landed'
         /\ RemoteVersion' \in Nat /\ RemoteVersion' >= RemoteVersion
         /\ RemoteVersion' = RemoteVersion => hist' = hist
<1>1. /\ Len(hist) \in Nat /\ Len(hist') \in Nat /\ Len(hist') >= Len(hist)
      /\ Len(hist') = Len(hist) => hist' = hist
      /\ \A v \in 1..Len(hist) : v \in 1..Len(hist') /\ hist'[v] = hist[v]
  <2>1. CASE hist' = hist
    BY <2>1, Types
  <2>2. CASE hist' # hist
    <3>1. PICK b \in Blob : hist' = Append(hist, b)
      BY <2>2 DEF Grown
    <3>2. Len(hist) \in Nat /\ Len(hist') = Len(hist) + 1 /\ \A v \in 1..Len(hist) : hist'[v] = hist[v]
      BY <3>1, Types, HistFacts
    <3> QED
      BY <3>2
  <2> QED
    BY <2>1, <2>2
<1>2. \A v, b : Holds(v, b) => Holds(v, b)'
  BY <1>1 DEF Holds
<1>3. Versions \subseteq Versions'
  BY <1>1 DEF Versions
<1>4. Landed \subseteq Landed'
  <2> SUFFICES ASSUME NEW e \in Landed PROVE e \in Landed'
    OBVIOUS
  <2>1. PICK v \in 1..Len(hist) : e \in hist[v].edits
    BY DEF Landed
  <2> QED
    BY <1>1, <2>1 DEF Landed
<1> QED
  BY <1>1, <1>2, <1>3, <1>4 DEF RemoteVersion

\* The edits of a version have landed.
LEMMA VersionsLanded ==
  ASSUME NEW b \in Versions
  PROVE  b.edits \subseteq Landed
  BY DEF Versions, Landed

\* Bytes installed under a number are a version.
LEMMA HeldIsVersion ==
  ASSUME NEW v, NEW b, Holds(v, b)
  PROVE  b \in Versions /\ b.edits \subseteq Landed
  BY DEF Holds, Versions, Landed

-----------------------------------------------------------------------------
(* A live request is the one PUT its sequence waits for *)

\* The steps of one sequence that send nothing and wait for nothing.
Local(s) ==
    \/ Edit(s) \/ BeginPush(s) \/ LoadBaseVersion(s) \/ Prepare(s) \/ Record(s) \/ FetchRemote(s)
    \/ StashRemote(s) \/ ChooseGeneration(s) \/ Restamp(s) \/ WakePushes(s)

\* Such a step leaves the requests, and its sequence neither waited for one
\* nor does so now, nor has it landed.
LEMMA LocalSteps ==
  ASSUME TypeInv, NEW s \in Pushes, Local(s)
  PROVE  /\ net' = net /\ hist' = hist /\ push[s].pc # "sent"
         /\ push'[s].pc \notin {"sent", "record"}
         /\ \A t \in Pushes : t # s => push'[t] = push[t]
<1> USE Types
<1>1. CASE Edit(s) \/ BeginPush(s) \/ LoadBaseVersion(s)
  <2>1. PICK q : Become(s, q) /\ q.pc \in {"saved", "flagged", "based"}
    <3>1. CASE Edit(s)
      BY <3>1 DEF Edit, NoPush
    <3>2. CASE BeginPush(s)
      BY <3>2 DEF BeginPush, Sequence
    <3>3. CASE LoadBaseVersion(s)
      <4>1. [push[s] EXCEPT !.pc = "based", !.base = baseline.ver].pc = "based"
        BY DEF Sequence
      <4> QED
        BY <3>3, <4>1 DEF LoadBaseVersion
    <3> QED
      BY <1>1, <3>1, <3>2, <3>3
  <2> QED
    BY <1>1, <2>1, Becomes DEF Edit, BeginPush, LoadBaseVersion, server, At
<1>2. CASE Prepare(s)
  <2>1. PICK q : Become(s, q)
    BY <1>2 DEF Prepare
  <2> QED
    BY <1>2, <2>1, Prepares, Becomes DEF Prepare, server, At
<1>3. CASE Record(s)
  BY <1>3, Finishes DEF Record, server, At, NoPush
<1>4. CASE FetchRemote(s) \/ StashRemote(s) \/ ChooseGeneration(s) \/ Restamp(s)
  <2>1. PICK q : Become(s, q) /\ q.pc \in {"fetched", "stashed", "stamp", "restamped"}
    <3>1. CASE FetchRemote(s)
      <4>1. [push[s] EXCEPT !.pc = "fetched", !.remote = RemoteBlob].pc = "fetched"
        <5> HIDE DEF RemoteBlob
        <5> QED
          BY DEF Sequence
      <4> QED
        BY <3>1, <4>1 DEF FetchRemote
    <3>2. CASE StashRemote(s)
      BY <3>2 DEF StashRemote, Sequence
    <3>3. CASE ChooseGeneration(s)
      <4> DEFINE g == (IF file.gen > push[s].remote.gen THEN file.gen ELSE push[s].remote.gen) + 1
      <4>1. Become(s, [push[s] EXCEPT !.pc = "stamp", !.remote = NoBlob, !.gen = g])
        BY <3>3 DEF ChooseGeneration
      <4> HIDE DEF g
      <4>2. [push[s] EXCEPT !.pc = "stamp", !.remote = NoBlob, !.gen = g].pc = "stamp"
        BY DEF Sequence
      <4> QED
        BY <4>1, <4>2
    <3>4. CASE Restamp(s)
      BY <3>4 DEF Restamp, Sequence
    <3> QED
      BY <1>4, <3>1, <3>2, <3>3, <3>4
  <2> QED
    BY <1>4, <2>1, Becomes DEF FetchRemote, StashRemote, ChooseGeneration, Restamp, server, At
<1>5. CASE WakePushes(s)
  <2>1. PICK q : Become(s, q) /\ q.pc \in {"flagged", "based"}
    <3> DEFINE q == IF WakeAt("push") THEN [NoPush EXCEPT !.pc = "flagged", !.why = "wake"]
                    ELSE [NoPush EXCEPT !.pc = "based", !.why = "establish", !.base = wake.ver]
    <3>1. q.pc \in {"flagged", "based"}
      BY DEF NoPush
    <3>2. Become(s, q)
      BY <1>5 DEF WakePushes
    <3> QED
      BY <3>1, <3>2
  <2> QED
    BY <1>5, <2>1, Becomes DEF WakePushes, server, At
<1> QED
  BY <1>1, <1>2, <1>3, <1>4, <1>5 DEF Local

\* The steps that leave every sequence and request as they are.
Aside ==
    \/ WakeStart \/ ReadSha \/ ReadFile \/ Decide \/ AskStatus \/ WakeStandsBack \/ ClearDirty
    \/ AskForRepair \/ RepairLeavesEdit \/ RepairRecords \/ RepairFastForwards
    \/ Download \/ Install \/ InstallRefused \/ ManualDownload \/ ManualInstall \/ Relock
    \/ OtherDevicePushes \/ WakeFails

\* The wake's own steps, the user's pulls and locks and the other devices
\* touch no sequence and no request.
LEMMA AsideSteps ==
  ASSUME TypeInv, Aside
  PROVE  net' = net /\ push' = push
<1>1. ASSUME UNCHANGED unlessWake PROVE net' = net /\ push' = push
  BY <1>1 DEF unlessWake, server
<1>2. ASSUME ClearDirty \/ RepairRecords \/ Install PROVE net' = net /\ push' = push
  BY <1>2 DEF ClearDirty, RepairRecords, Install, server
<1>3. ASSUME ManualDownload \/ ManualInstall \/ Relock PROVE net' = net /\ push' = push
  BY <1>3 DEF ManualDownload, ManualInstall, Relock, server
<1>4. ASSUME OtherDevicePushes \/ WakeFails PROVE net' = net /\ push' = push
  BY <1>4 DEF OtherDevicePushes, WakeFails, server
<1> QED
  BY <1>1, <1>2, <1>3, <1>4, WakeReads DEF Aside

\* Every step is one of these.
LEMMA EveryStep ==
  ASSUME [PhoneNext]_phoneVars
  PROVE  \/ \E s \in Pushes : Local(s) \/ Upload(s) \/ Repush(s) \/ GiveUp(s)
         \/ \E r \in net : Answer(r) \/ LateArrival(r)
         \/ Killed \/ Aside \/ UNCHANGED phoneVars
  BY DEF PhoneNext, PushStep, WakeStep, Network, Failure, Local, Aside

\* The first PUT of a sequence.
LEMMA Uploads ==
  ASSUME TypeInv, NEW s \in Pushes, Upload(s)
  PROVE  /\ push[s].pc = "prepared" /\ push'[s] = [push[s] EXCEPT !.pc = "sent"]
         /\ push'[s].pc = "sent" /\ push'[s].base = push[s].base /\ push'[s].blob = push[s].blob
         /\ push[s].blob \in Blob /\ hist' = hist
         /\ \A t \in Pushes : t # s => push'[t] = push[t]
         /\ net' = net \cup {[from |-> s, base |-> push[s].base, blob |-> push[s].blob,
                              again |-> FALSE, live |-> TRUE]}
<1> USE Types
<1>1. Become(s, [push[s] EXCEPT !.pc = "sent"])
  BY DEF Upload
<1>2. push'[s] = [push[s] EXCEPT !.pc = "sent"] /\ \A t \in Pushes : t # s => push'[t] = push[t]
  BY <1>1, Becomes
<1>3. push'[s].pc = "sent" /\ push'[s].base = push[s].base /\ push'[s].blob = push[s].blob
  BY <1>2 DEF Sequence
<1> QED
  BY <1>2, <1>3 DEF Upload, At, Put, TypeInv, BytesInv

\* Its second, over the file as it is.
LEMMA Repushes ==
  ASSUME TypeInv, NEW s \in Pushes, Repush(s)
  PROVE  /\ push[s].pc = "restamped"
         /\ push'[s].pc = "sent" /\ push'[s].base = push[s].base /\ push'[s].blob = file
         /\ hist' = hist
         /\ \A t \in Pushes : t # s => push'[t] = push[t]
         /\ net' = net \cup {[from |-> s, base |-> push[s].base, blob |-> file,
                              again |-> TRUE, live |-> TRUE]}
<1> USE Types
<1>1. Become(s, [push[s] EXCEPT !.pc = "sent", !.blob = file])
  BY DEF Repush
<1>2. push'[s] = [push[s] EXCEPT !.pc = "sent", !.blob = file] /\ \A t \in Pushes : t # s => push'[t] = push[t]
  BY <1>1, Becomes
<1>3. push'[s].pc = "sent" /\ push'[s].base = push[s].base /\ push'[s].blob = file
  BY <1>2 DEF Sequence
<1> QED
  BY <1>2, <1>3 DEF Repush, RepushBase, At, Put

\* What an answer does to the sequence that waits for it.
LEMMA Answers ==
  ASSUME TypeInv, NetInv, NEW r \in net, Answer(r)
  PROVE  /\ r.from \in Pushes /\ r.blob \in Blob /\ r.live /\ r.base \in Nat
         /\ push[r.from].pc = "sent" /\ push[r.from].blob = r.blob /\ push[r.from].base = r.base
         /\ net' = net \ {r}
         /\ \A t \in Pushes : t # r.from => push'[t] = push[t]
         /\ Accepts(r) => /\ hist' = Append(hist, r.blob) /\ wake' = wake
                          /\ push'[r.from].pc = "record" /\ push'[r.from].blob = r.blob
                          /\ push'[r.from].ver = RemoteVersion + 1
                          /\ push'[r.from].base = 0
         /\ ~Accepts(r) => /\ hist' = hist /\ session' = session /\ wake' \in {wake, NoWake}
                           /\ \/ push'[r.from] = NoPush
                              \/ ~r.again /\ push'[r.from].pc = "conflict" /\ push'[r.from].base = RemoteVersion
<1> USE Types
<1>1. r.from \in Pushes /\ r.blob \in Blob /\ r.live /\ r.base \in Nat
      /\ push[r.from].pc = "sent" /\ push[r.from].blob = r.blob /\ push[r.from].base = r.base /\ net' = net \ {r}
  BY DEF Request, Answer, NetInv
<1>2. push[r.from] \in Sequence
  BY <1>1
<1>3. CASE Accepts(r)
  <2>1. Become(r.from, [push[r.from] EXCEPT !.pc = "record", !.ver = RemoteVersion + 1, !.base = 0])
    BY <1>3 DEF Answer
  <2>2. push'[r.from] = [push[r.from] EXCEPT !.pc = "record", !.ver = RemoteVersion + 1, !.base = 0]
        /\ \A t \in Pushes : t # r.from => push'[t] = push[t]
    BY <1>1, <2>1, Becomes
  <2>3. push'[r.from].pc = "record" /\ push'[r.from].blob = r.blob /\ push'[r.from].ver = RemoteVersion + 1
        /\ push'[r.from].base = 0
    <3> HIDE DEF RemoteVersion
    <3> QED
      BY <1>1, <1>2, <2>2 DEF Sequence
  <2> QED
    BY <1>1, <1>3, <2>2, <2>3 DEF Answer
<1>4. CASE ~Accepts(r)
  <2>1. CASE r.again \/ push[r.from].why = "establish"
    <3>1. Finish(r.from)
      BY <1>4, <2>1 DEF Answer
    <3> QED
      BY <1>1, <1>4, <3>1, Finishes DEF Answer
  <2>2. CASE ~(r.again \/ push[r.from].why = "establish")
    <3>1. Become(r.from, [push[r.from] EXCEPT !.pc = "conflict", !.base = RemoteVersion, !.blob = NoBlob])
      BY <1>4, <2>2 DEF Answer
    <3>2. push'[r.from] = [push[r.from] EXCEPT !.pc = "conflict", !.base = RemoteVersion, !.blob = NoBlob]
          /\ \A t \in Pushes : t # r.from => push'[t] = push[t]
      BY <1>1, <3>1, Becomes
    <3>3. push'[r.from].pc = "conflict" /\ push'[r.from].base = RemoteVersion
      <4> HIDE DEF RemoteVersion
      <4> QED
        BY <1>2, <3>2 DEF Sequence
    <3> QED
      BY <1>1, <1>4, <2>2, <3>2, <3>3 DEF Answer
  <2> QED
    BY <2>1, <2>2
<1> QED
  BY <1>3, <1>4

\* A sequence is given up: what it sent is nobody's now.
LEMMA GivesUp ==
  ASSUME TypeInv, NEW s \in Pushes, GiveUp(s)
  PROVE  /\ hist' = hist /\ push'[s] = NoPush /\ \A t \in Pushes : t # s => push'[t] = push[t]
         /\ \A r \in net' : r.live => r \in net /\ r.from # s
         /\ \A r \in net' : \E q \in net : r.from = q.from /\ r.base = q.base /\ r.again = q.again
         /\ wake' \in {wake, NoWake}
<1> USE Types
<1> DEFINE mine == {r \in net : r.from = s /\ r.live}
<1>1. net' = (net \ mine) \cup Abandoned(mine) /\ Finish(s) /\ hist' = hist
  BY DEF GiveUp
<1>2. ASSUME NEW r \in Abandoned(mine)
      PROVE  ~r.live /\ \E q \in net : r.from = q.from /\ r.base = q.base /\ r.again = q.again
  <2>1. PICK q \in mine : r = [q EXCEPT !.live = FALSE]
    BY DEF Abandoned
  <2>2. q \in Request /\ q \in net
    BY <2>1
  <2>3. ~r.live /\ r.from = q.from /\ r.base = q.base /\ r.again = q.again
    BY <2>1, <2>2 DEF Request
  <2> QED
    BY <2>2, <2>3
<1> HIDE DEF mine
<1>3. ASSUME NEW r \in net', r.live PROVE r \in net /\ r.from # s
  BY <1>1, <1>2, <1>3 DEF mine
<1>4. ASSUME NEW r \in net' PROVE \E q \in net : r.from = q.from /\ r.base = q.base /\ r.again = q.again
  BY <1>1, <1>2
<1> QED
  BY <1>1, <1>3, <1>4, Finishes

\* The app dies: every sequence is gone, every request is nobody's.
LEMMA Deaths ==
  ASSUME TypeInv, Killed
  PROVE  /\ hist' = hist /\ file' = file /\ wake' = NoWake
         /\ \A s \in Pushes : push'[s] = NoPush
         /\ \A r \in net' : ~r.live /\ \E q \in net : r.from = q.from /\ r.base = q.base /\ r.again = q.again
<1>1. ASSUME NEW r \in Abandoned(net)
      PROVE  ~r.live /\ \E q \in net : r.from = q.from /\ r.base = q.base /\ r.again = q.again
  <2>1. PICK q \in net : r = [q EXCEPT !.live = FALSE]
    BY DEF Abandoned
  <2>2. q \in Request
    BY Types
  <2> QED
    BY <2>1, <2>2 DEF Request
<1> QED
  BY <1>1 DEF Killed

\* A request in flight and its sequence stay in agreement.
LEMMA NetStep ==
  ASSUME TypeInv, NetInv, [PhoneNext]_phoneVars
  PROVE  NetInv'
<1> USE Types
<1>r. \A r \in net : r.from \in Pushes
  BY DEF Request
\* The requests in flight thin out and the sequences they belong to wait.
<1>0. ASSUME \A r \in net' : r.live => r \in net /\ push'[r.from] = push[r.from]
      PROVE  NetInv'
  BY <1>0 DEF NetInv
<1>1. ASSUME NEW s \in Pushes, Local(s) PROVE NetInv'
  BY <1>0, <1>1, <1>r, LocalSteps DEF NetInv
<1>2. ASSUME NEW s \in Pushes, NEW q, q.from = s, q.live,
             push[s].pc # "sent", net' = net \cup {q},
             push'[s].pc = "sent", push'[s].blob = q.blob, push'[s].base = q.base,
             \A t \in Pushes : t # s => push'[t] = push[t]
      PROVE  NetInv'
  <2>1. \A r \in net : r.live => r.from # s /\ push'[r.from] = push[r.from]
    BY <1>2, <1>r DEF NetInv
  <2> QED
    BY <1>2, <2>1 DEF NetInv
<1>3. ASSUME NEW s \in Pushes, Upload(s) PROVE NetInv'
  <2> DEFINE q == [from |-> s, base |-> push[s].base, blob |-> push[s].blob, again |-> FALSE, live |-> TRUE]
  <2>1. q.from = s /\ q.live /\ q.blob = push[s].blob /\ q.base = push[s].base
    OBVIOUS
  <2> HIDE DEF q
  <2>2. net' = net \cup {q}
    BY <1>3, Uploads DEF q
  <2> QED
    BY <1>2, <1>3, <2>1, <2>2, Uploads
<1>4. ASSUME NEW s \in Pushes, Repush(s) PROVE NetInv'
  <2> DEFINE q == [from |-> s, base |-> push[s].base, blob |-> file, again |-> TRUE, live |-> TRUE]
  <2>1. q.from = s /\ q.live /\ q.blob = file /\ q.base = push[s].base
    OBVIOUS
  <2> HIDE DEF q
  <2>2. net' = net \cup {q}
    BY <1>4, Repushes DEF q
  <2> QED
    BY <1>2, <1>4, <2>1, <2>2, Repushes
<1>5. ASSUME NEW r \in net, Answer(r) PROVE NetInv'
  <2>1. \A q \in net' : q.live => q.from # r.from
    BY <1>5, Answers DEF NetInv
  <2> QED
    BY <1>0, <1>5, <1>r, <2>1, Answers
<1>6. ASSUME NEW r \in net, LateArrival(r) PROVE NetInv'
  BY <1>0, <1>6 DEF LateArrival
<1>7. ASSUME NEW s \in Pushes, GiveUp(s) PROVE NetInv'
  BY <1>0, <1>7, <1>r, GivesUp
<1>8. ASSUME Killed PROVE NetInv'
  BY <1>0, <1>8, Deaths
<1>9. ASSUME Aside \/ UNCHANGED phoneVars PROVE NetInv'
  BY <1>0, <1>9, AsideSteps DEF phoneVars
<1> QED
  BY <1>1, <1>3, <1>4, <1>5, <1>6, <1>7, <1>8, <1>9, EveryStep

-----------------------------------------------------------------------------
(* What is recorded or about to be recorded is a version of the server *)

\* A sequence records the version its bytes were given.
LEMMA RecordHeldStep ==
  ASSUME TypeInv, NetInv, HeldInv, [PhoneNext]_phoneVars,
         NEW t \in Pushes, push'[t].pc = "record"
  PROVE  Holds(push[t].ver, push[t].blob)'
<1> USE Types
<1>m. \A v, b : Holds(v, b) => Holds(v, b)'
  BY HistStep, Monotone
<1>0. ASSUME push'[t] = push[t] PROVE Holds(push[t].ver, push[t].blob)'
  BY <1>0, <1>m DEF HeldInv
<1>1. ASSUME NEW s \in Pushes, Local(s) PROVE push'[t] = push[t]
  BY <1>1, LocalSteps
<1>2. ASSUME NEW s \in Pushes, Upload(s) PROVE push'[t] = push[t]
  BY <1>2, Uploads
<1>3. ASSUME NEW s \in Pushes, Repush(s) PROVE push'[t] = push[t]
  BY <1>3, Repushes
<1>4. ASSUME NEW r \in net, Answer(r), t # r.from \/ ~Accepts(r) PROVE push'[t] = push[t]
  BY <1>4, Answers DEF NoPush
<1>5. ASSUME NEW r \in net, Answer(r), t = r.from, Accepts(r)
      PROVE  Holds(push[t].ver, push[t].blob)'
  <2>1. push'[t].ver = Len(hist) + 1 /\ push'[t].blob = r.blob /\ hist' = Append(hist, r.blob) /\ r.blob \in Blob
    BY <1>5, Answers DEF RemoteVersion
  <2>2. Len(hist) \in Nat /\ Len(hist') = Len(hist) + 1 /\ hist'[Len(hist) + 1] = r.blob
    BY <2>1, HistFacts
  <2>3. Len(hist) + 1 \in 1..Len(hist')
    BY <2>2
  <2> QED
    BY <2>1, <2>2, <2>3 DEF Holds
<1>6. ASSUME NEW r \in net, LateArrival(r) PROVE push'[t] = push[t]
  BY <1>6 DEF LateArrival
<1>7. ASSUME NEW s \in Pushes, GiveUp(s) PROVE push'[t] = push[t]
  BY <1>7, GivesUp DEF NoPush
<1>8. ASSUME Killed PROVE FALSE
  BY <1>8, Deaths DEF NoPush
<1>9. ASSUME Aside \/ UNCHANGED phoneVars PROVE push'[t] = push[t]
  BY <1>9, AsideSteps DEF phoneVars
<1> QED
  BY <1>0, <1>1, <1>2, <1>3, <1>4, <1>5, <1>6, <1>7, <1>8, <1>9, EveryStep

\* A baseline's hash, when there is one, names a version.
LEMMA BaselineFacts ==
  ASSUME HeldInv
  PROVE  baseline.sha # NoBlob => Holds(baseline.ver, baseline.sha) /\ baseline.sha \in Versions
  BY DEF HeldInv, BaselineNamesOneVersion, Holds, Versions

\* The wake as a step leaves it.
LEMMA WakeMoves ==
  ASSUME TypeInv, NetInv, [PhoneNext]_phoneVars
  PROVE  \/ wake' = wake \/ wake' = NoWake
         \/ WakeStart \/ ReadSha \/ ReadFile \/ Decide \/ AskStatus \/ AskForRepair
         \/ RepairFastForwards \/ Download \/ InstallRefused
         \/ \E s \in Pushes : WakePushes(s)
<1> USE Types
<1>1. ASSUME NEW s \in Pushes, Edit(s) \/ PushStep(s) PROVE wake' = wake \/ wake' = NoWake
  <2>1. ASSUME Record(s) PROVE wake' = wake \/ wake' = NoWake
    BY <2>1 DEF Record, Finish
  <2> QED
    BY <1>1, <2>1 DEF PushStep, Edit, BeginPush, LoadBaseVersion, Prepare, Upload, FetchRemote,
                StashRemote, ChooseGeneration, Restamp, Repush
<1>2. ASSUME WakeStandsBack \/ ClearDirty \/ RepairLeavesEdit \/ RepairRecords \/ Install
      PROVE wake' = wake \/ wake' = NoWake
  BY <1>2 DEF WakeStandsBack, ClearDirty, RepairLeavesEdit, RepairRecords, Install
<1>3. ASSUME ManualDownload \/ ManualInstall \/ Relock PROVE wake' = wake
  BY <1>3 DEF ManualDownload, ManualInstall, Relock
<1>4. ASSUME NEW r \in net, Answer(r) PROVE wake' = wake \/ wake' = NoWake
  BY <1>4, Answers
<1>5. ASSUME NEW r \in net, LateArrival(r) PROVE wake' = wake \/ wake' = NoWake
  BY <1>5 DEF LateArrival
<1>6. ASSUME OtherDevicePushes \/ Killed \/ WakeFails PROVE wake' = wake \/ wake' = NoWake
  BY <1>6 DEF OtherDevicePushes, Killed, WakeFails
<1>7. ASSUME NEW s \in Pushes, GiveUp(s) PROVE wake' = wake \/ wake' = NoWake
  BY <1>7, GivesUp
<1>8. ASSUME UNCHANGED phoneVars PROVE wake' = wake
  BY <1>8 DEF phoneVars
<1> QED
  BY <1>1, <1>2, <1>3, <1>4, <1>5, <1>6, <1>7, <1>8 DEF PhoneNext, WakeStep, Network, Failure

\* The part of HeldInv about the wake.
WakeHeld ==
    /\ wake.pc = "repairing" => Holds(wake.rem, wake.got)
    /\ wake.pc = "install" => Holds(wake.gotVer, wake.got)
    /\ (wake.pc \in {"file", "dirty"} /\ wake.sha # NoBlob) => wake.sha \in Versions

\* What a wake repairs or installs is a version under its own number.
LEMMA WakeHeldStep ==
  ASSUME TypeInv, NetInv, HeldInv, [PhoneNext]_phoneVars
  PROVE  WakeHeld'
<1> USE Types, WakeFields
<1>m. (\A v, b : Holds(v, b) => Holds(v, b)') /\ Versions \subseteq Versions'
  BY HistStep, Monotone
<1>n. Holds(RemoteVersion, RemoteBlob)
  BY HistFacts
<1>1. CASE wake' = wake
  BY <1>1, <1>m DEF WakeHeld, HeldInv
<1>2. CASE wake' = NoWake
  BY <1>2 DEF WakeHeld, NoWake
<1> HIDE DEF RemoteVersion, RemoteBlob
<1>3. CASE WakeStart
  <2>1. wake'.pc = "file" /\ wake'.sha = baseline.sha
    BY <1>3 DEF WakeStart, NoWake
  <2> QED
    BY <1>m, <2>1, BaselineFacts DEF WakeHeld
<1>4. CASE ReadSha
  <2>1. wake'.pc = "file" /\ wake'.sha = baseline.sha
    BY <1>4 DEF ReadSha, Wake
  <2> QED
    BY <1>m, <2>1, BaselineFacts DEF WakeHeld
<1>5. CASE ReadFile
  <2>1. wake.pc = "file" /\ wake'.pc = "dirty" /\ wake'.sha = wake.sha
    BY <1>5 DEF ReadFile, Wake, WakeAt
  <2> QED
    BY <1>m, <2>1 DEF WakeHeld, HeldInv
<1>6. CASE Decide
  <2>1. wake' = NoWake \/ wake'.pc = WakeAction
    <3> HIDE DEF WakeAction
    <3> QED
      BY <1>6 DEF Decide, Wake
  <2>2. WakeAction \notin {"repairing", "install", "file", "dirty"}
    BY DEF WakeAction
  <2> QED
    BY <1>2, <2>1, <2>2 DEF WakeHeld
<1>7. CASE AskStatus
  <2>1. wake'.pc = "sha"
    BY <1>7 DEF AskStatus, Wake
  <2> QED
    BY <2>1 DEF WakeHeld
<1>8. CASE AskForRepair
  <2>1. wake'.pc = "repairing" /\ wake'.rem = RemoteVersion /\ wake'.got = RemoteBlob
    BY <1>8 DEF AskForRepair, Wake
  <2> QED
    BY <1>m, <1>n, <2>1 DEF WakeHeld
<1>9. CASE RepairFastForwards
  <2>1. wake'.pc = "download"
    BY <1>9 DEF RepairFastForwards, Wake
  <2> QED
    BY <2>1 DEF WakeHeld
<1>10. CASE Download
  <2>1. wake'.pc = "install" /\ wake'.gotVer = RemoteVersion /\ wake'.got = RemoteBlob
    BY <1>10 DEF Download, Wake
  <2> QED
    BY <1>m, <1>n, <2>1 DEF WakeHeld
<1>11. CASE InstallRefused
  <2>1. wake' = NoWake \/ wake'.pc = "sha"
    BY <1>11 DEF InstallRefused, Wake
  <2> QED
    BY <1>2, <2>1 DEF WakeHeld
<1>12. CASE \E s \in Pushes : WakePushes(s)
  <2>1. wake'.pc = "pushing"
    BY <1>12 DEF WakePushes, NoWake
  <2> QED
    BY <2>1 DEF WakeHeld
<1> QED
  BY <1>1, <1>2, <1>3, <1>4, <1>5, <1>6, <1>7, <1>8, <1>9, <1>10, <1>11, <1>12, WakeMoves

\* So is what a pull by hand has downloaded.
LEMMA ManualHeldStep ==
  ASSUME TypeInv, HeldInv, [PhoneNext]_phoneVars, manual' # NoDownload
  PROVE  Holds(manual.ver, manual.blob)'
<1>m. \A v, b : Holds(v, b) => Holds(v, b)'
  BY HistStep, Monotone
<1>1. CASE manual' = manual
  BY <1>1, <1>m DEF HeldInv
<1>2. CASE ManualDownload
  <2>1. manual'.ver = RemoteVersion /\ manual'.blob = RemoteBlob
    BY <1>2 DEF ManualDownload
  <2> QED
    BY <1>m, <2>1, HistFacts, Types
<1>3. ASSUME NEW s \in Pushes, Edit(s) \/ PushStep(s) \/ GiveUp(s) \/ WakePushes(s) PROVE manual' = manual
  BY <1>3 DEF PushStep, Edit, BeginPush, LoadBaseVersion, Prepare, Upload, Record, FetchRemote,
              StashRemote, ChooseGeneration, Restamp, Repush, GiveUp, WakePushes
<1>4. ASSUME UNCHANGED unlessWake PROVE manual' = manual
  BY <1>4 DEF unlessWake
<1>5. ASSUME ClearDirty \/ RepairRecords \/ Install \/ Relock \/ OtherDevicePushes \/ WakeFails
      PROVE manual' = manual
  BY <1>5 DEF ClearDirty, RepairRecords, Install, Relock, OtherDevicePushes, WakeFails
<1>6. ASSUME NEW r \in net, Answer(r) \/ LateArrival(r) PROVE manual' = manual
  BY <1>6 DEF Answer, LateArrival
<1>7. ASSUME Killed \/ ManualInstall PROVE FALSE
  BY <1>7 DEF Killed, ManualInstall
<1>8. ASSUME UNCHANGED phoneVars PROVE manual' = manual
  BY <1>8 DEF phoneVars
<1> QED
  BY <1>1, <1>2, <1>3, <1>4, <1>5, <1>6, <1>7, <1>8, WakeReads
     DEF PhoneNext, WakeStep, Network, Failure

\* Who writes the baseline.
LEMMA BaselineMoves ==
  ASSUME TypeInv, [PhoneNext]_phoneVars
  PROVE  \/ baseline' = baseline
         \/ \E s \in Pushes : Prepare(s) \/ Record(s)
         \/ RepairRecords \/ Install \/ ManualInstall
<1>1. ASSUME NEW s \in Pushes, Edit(s) \/ PushStep(s) \/ GiveUp(s) \/ WakePushes(s)
      PROVE  baseline' = baseline \/ Prepare(s) \/ Record(s)
  BY <1>1 DEF PushStep, Edit, BeginPush, LoadBaseVersion, Upload, FetchRemote, record,
              StashRemote, ChooseGeneration, Restamp, Repush, GiveUp, WakePushes
<1>4. ASSUME UNCHANGED unlessWake PROVE baseline' = baseline
  BY <1>4 DEF unlessWake, record
<1>5. ASSUME ClearDirty \/ Relock \/ OtherDevicePushes \/ WakeFails \/ ManualDownload \/ Killed
      PROVE baseline' = baseline
  BY <1>5 DEF ClearDirty, Relock, OtherDevicePushes, WakeFails, ManualDownload, Killed, record
<1>6. ASSUME NEW r \in net, Answer(r) \/ LateArrival(r) PROVE baseline' = baseline
  BY <1>6 DEF Answer, LateArrival, record
<1>8. ASSUME UNCHANGED phoneVars PROVE baseline' = baseline
  BY <1>8 DEF phoneVars
<1> QED
  BY <1>1, <1>4, <1>5, <1>6, <1>8, WakeReads
     DEF PhoneNext, WakeStep, Network, Failure

\* The baseline names one version, whichever of its writes fails.
LEMMA BaselineStep ==
  ASSUME TypeInv, NetInv, HeldInv, [PhoneNext]_phoneVars
  PROVE  BaselineNamesOneVersion'
<1> USE Types
<1>m. \A v, b : Holds(v, b) => Holds(v, b)'
  BY HistStep, Monotone
<1>b. baseline \in Baseline /\ BaselineNamesOneVersion
  BY DEF HeldInv
\* A baseline made of one version.
<1>0. ASSUME Holds(baseline'.ver, baseline'.sha) PROVE BaselineNamesOneVersion'
  BY <1>0, <1>m DEF BaselineNamesOneVersion, Holds
<1>1. ASSUME baseline'.ver = baseline.ver, baseline'.sha = baseline.sha
      PROVE  BaselineNamesOneVersion'
  <2>1. Holds(baseline.ver, hist[baseline.ver])
    BY <1>b DEF BaselineNamesOneVersion, Holds
  <2>2. baseline'.ver \in 1..Len(hist') /\ hist'[baseline.ver] = hist[baseline.ver]
    BY <1>1, <1>m, <2>1 DEF Holds
  <2> QED
    BY <1>1, <1>b, <2>2 DEF BaselineNamesOneVersion
<1>2. ASSUME NEW s \in Pushes, Prepare(s) PROVE BaselineNamesOneVersion'
  <2>1. baseline'.ver = baseline.ver /\ baseline'.sha = baseline.sha
    BY <1>2, Prepares DEF Baseline
  <2> QED
    BY <1>1, <2>1
<1>3. ASSUME NEW s \in Pushes, Record(s) PROVE BaselineNamesOneVersion'
  <2> DEFINE b == [ver |-> push[s].ver, sha |-> push[s].blob, gen |-> push[s].gen, pending |-> NoBlob]
  <2>1. Holds(b.ver, b.sha)
    BY <1>3 DEF Record, At, HeldInv
  <2>2. Bookkeeping(file = push[s].blob, b, "torn")
    BY <1>3 DEF Record
  <2> HIDE DEF b
  <2>3. baseline' \in {baseline, b}
    BY <2>2, BookkeepingWrites
  <2> QED
    BY <1>0, <1>1, <2>1, <2>3
<1>4. ASSUME RepairRecords PROVE BaselineNamesOneVersion'
  <2>1. Holds(wake.rem, file) /\ baseline'.ver = wake.rem /\ baseline'.sha = file
    BY <1>4 DEF RepairRecords, WakeAt, HeldInv
  <2> QED
    BY <1>0, <2>1
<1>5. ASSUME NEW b \in Blob, NEW v \in Nat, NEW x \in Excuses, PutInPlace(b, v, x), Holds(v, b)
      PROVE  BaselineNamesOneVersion'
  <2> DEFINE base == [ver |-> v, sha |-> b, gen |-> b.gen, pending |-> NoBlob]
  <2>1. base.ver = v /\ base.sha = b
    OBVIOUS
  <2>2. baseline' \in {baseline, base}
    BY <1>5, PutsInPlace
  <2> HIDE DEF base
  <2> QED
    BY <1>0, <1>1, <1>5, <2>1, <2>2
<1>6. ASSUME Install PROVE BaselineNamesOneVersion'
  <2>1. Holds(wake.gotVer, wake.got)
    BY <1>6 DEF Install, WakeAt, HeldInv
  <2>2. wake.got \in Blob /\ wake.gotVer \in Nat
    BY <2>1, WakeFields DEF Holds
  <2> QED
    BY <1>5, <1>6, <2>1, <2>2 DEF Install, Excuses
<1>7. ASSUME ManualInstall PROVE BaselineNamesOneVersion'
  <2>1. CASE IsReplay(manual.blob)
    BY <1>1, <1>7, <2>1 DEF ManualInstall, record
  <2>2. CASE ~IsReplay(manual.blob)
    <3>1. Holds(manual.ver, manual.blob)
      BY <1>7 DEF ManualInstall, HeldInv
    <3>2. manual.blob \in Blob /\ manual.ver \in Nat
      BY <3>1 DEF Holds
    <3> QED
      BY <1>5, <1>7, <2>2, <3>1, <3>2 DEF ManualInstall, Excuses
  <2> QED
    BY <2>1, <2>2
<1> QED
  BY <1>1, <1>2, <1>3, <1>4, <1>6, <1>7, BaselineMoves

\* Nothing is recorded but versions of the server.
LEMMA HeldStep ==
  ASSUME TypeInv, NetInv, HeldInv, [PhoneNext]_phoneVars
  PROVE  HeldInv'
<1>1. \A t \in Pushes : (push[t].pc = "record")' => Holds(push[t].ver, push[t].blob)'
  BY RecordHeldStep
<1> QED
  BY <1>1, WakeHeldStep, ManualHeldStep, BaselineStep DEF HeldInv, WakeHeld

-----------------------------------------------------------------------------
(* The flag, the rows and the bytes a wake expects *)

\* An excuse stays.
LEMMA ExcusesGrow ==
  ASSUME TypeInv, [PhoneNext]_phoneVars
  PROVE  excused \subseteq excused'
<1>1. ASSUME NEW s \in Pushes, Edit(s) \/ PushStep(s) \/ GiveUp(s) \/ WakePushes(s)
      PROVE excused \subseteq excused'
  <2>1. ASSUME Record(s) PROVE excused \subseteq excused'
    <3> DEFINE c == file = push[s].blob
               b == [ver |-> push[s].ver, sha |-> push[s].blob,
                     gen |-> push[s].gen, pending |-> NoBlob]
    <3>1. Bookkeeping(c, b, "torn") /\ c \in BOOLEAN
      BY <2>1 DEF Record
    <3> HIDE DEF c, b
    <3> QED
      BY <3>1, BookkeepingWrites, Types
  <2> QED
    BY <1>1, <2>1 DEF PushStep, Edit, BeginPush, LoadBaseVersion, Prepare, Upload, FetchRemote,
              StashRemote, ChooseGeneration, Restamp, Repush, GiveUp, WakePushes, budget
<1>2. ASSUME UNCHANGED unlessWake PROVE excused \subseteq excused'
  BY <1>2 DEF unlessWake, budget
<1>3. ASSUME NEW b, NEW v, NEW x, PutInPlace(b, v, x) PROVE excused \subseteq excused'
  <2>1. Bookkeeping(TRUE, [ver |-> v, sha |-> b, gen |-> b.gen, pending |-> NoBlob], x)
    BY <1>3 DEF PutInPlace
  <2> QED
    BY <2>1, BookkeepingWrites, Types
<1>4. ASSUME Install \/ ManualInstall PROVE excused \subseteq excused'
  BY <1>3, <1>4 DEF Install, ManualInstall, budget
<1>5. ASSUME ClearDirty \/ RepairRecords \/ ManualDownload \/ Relock \/ OtherDevicePushes \/ WakeFails \/ Killed
      PROVE excused \subseteq excused'
  BY <1>5 DEF ClearDirty, RepairRecords, ManualDownload, Relock, OtherDevicePushes, WakeFails, Killed, budget
<1>6. ASSUME NEW r \in net, Answer(r) \/ LateArrival(r) PROVE excused \subseteq excused'
  BY <1>6 DEF Answer, LateArrival, budget
<1>7. ASSUME UNCHANGED phoneVars PROVE excused \subseteq excused'
  BY <1>7 DEF phoneVars
<1> QED
  BY <1>1, <1>2, <1>4, <1>5, <1>6, <1>7, WakeReads
     DEF PhoneNext, WakeStep, Network, Failure

\* Who writes the file, the session's rows, or takes the flag away.
LEMMA FileMoves ==
  ASSUME TypeInv, NetInv, [PhoneNext]_phoneVars
  PROVE  \/ file' = file /\ session'.edits = session.edits /\ (~dirty' => ~dirty)
         \/ \E s \in Pushes : Edit(s) \/ Prepare(s) \/ Restamp(s) \/ Record(s)
         \/ ClearDirty \/ Install \/ ManualInstall \/ Relock \/ Killed
<1> USE Types
<1> DEFINE Still == file' = file /\ session'.edits = session.edits /\ (~dirty' => ~dirty)
<1>1. ASSUME NEW s \in Pushes, BeginPush(s) \/ LoadBaseVersion(s) \/ FetchRemote(s)
                  \/ StashRemote(s) \/ ChooseGeneration(s) \/ Repush(s) \/ GiveUp(s) \/ WakePushes(s)
      PROVE Still
  BY <1>1 DEF BeginPush, LoadBaseVersion, FetchRemote, StashRemote, ChooseGeneration, Repush, GiveUp,
              WakePushes, vaultFiles, record
<1>2. ASSUME NEW s \in Pushes, Upload(s) PROVE Still
  <2>1. push[s].gen \in Nat /\ session' \in {session, [session EXCEPT !.gen = push[s].gen]}
    BY <1>2, SequenceFields DEF Upload
  <2>2. session'.edits = session.edits
    BY <2>1 DEF Session
  <2> QED
    BY <1>2, <2>2 DEF Upload, record
<1>3. ASSUME NEW r \in net, Answer(r) PROVE Still
  <2>1. push[r.from].gen \in Nat
    BY <1>3, Answers, SequenceFields
  <2>2. session' \in {session, [session EXCEPT !.gen = push[r.from].gen]}
    BY <1>3 DEF Answer
  <2>3. session'.edits = session.edits
    BY <2>1, <2>2 DEF Session
  <2> QED
    BY <1>3, <2>3 DEF Answer, record
<1>4. ASSUME NEW r \in net, LateArrival(r) PROVE Still
  BY <1>4 DEF LateArrival, vaultFiles, record
<1>5. ASSUME UNCHANGED unlessWake PROVE Still
  BY <1>5 DEF unlessWake, vaultFiles, record
<1>6. ASSUME RepairRecords \/ ManualDownload \/ OtherDevicePushes \/ WakeFails PROVE Still
  BY <1>6 DEF RepairRecords, ManualDownload, OtherDevicePushes, WakeFails, vaultFiles, record
<1>7. ASSUME UNCHANGED phoneVars PROVE Still
  BY <1>7 DEF phoneVars
<1> HIDE DEF Still
<1>8. \/ Still
      \/ \E s \in Pushes : Edit(s) \/ Prepare(s) \/ Restamp(s) \/ Record(s)
      \/ ClearDirty \/ Install \/ ManualInstall \/ Relock \/ Killed
  BY <1>1, <1>2, <1>3, <1>4, <1>5, <1>6, <1>7, WakeReads
     DEF PhoneNext, PushStep, WakeStep, Network, Failure
<1> QED
  BY <1>8 DEF Still

\* UnpushedIsFlagged where the flag can be trusted.
FlagKept == ~dirty => file.edits \subseteq Landed

\* The flag and the rows, action by action: an edit flags before it saves,
\* a restamp saves rows that are the file's or landed, the flag is taken
\* away only over landed bytes, and an install leaves the session reopened
\* or landed.
LEMMA FlagAndRowsStep ==
  ASSUME TypeInv, NetInv, HeldInv, FlagInv, FlagsHold, FlagsHold', [PhoneNext]_phoneVars
  PROVE  FlagKept' /\ RowsInv'
<1> USE Types
<1>f. FlagKept /\ RowsInv /\ CurInv
  BY DEF FlagInv, FlagKept
<1>l. Landed \subseteq Landed'
  BY HistStep, Monotone
<1>1. CASE file' = file /\ session'.edits = session.edits /\ (~dirty' => ~dirty)
  BY <1>1, <1>f, <1>l DEF FlagKept, RowsInv
<1>2. ASSUME NEW s \in Pushes, Edit(s) PROVE FlagKept' /\ RowsInv'
  <2>1. session.edits \cup {used.edits + 1} \in SUBSET (PhoneEdits \cup OtherEdits)
    BY <1>2, Budgets, Rows DEF Edit
  <2>2. file' \in Blob
    BY <1>2, <2>1, Rows DEF Edit
  <2> QED
    BY <1>2, <2>2 DEF Edit, FlagKept, RowsInv, OpenedFrom
<1>3. ASSUME NEW s \in Pushes, Prepare(s) PROVE FlagKept' /\ RowsInv'
  <2>1. file'.edits = file.edits /\ session' = session /\ dirty' = dirty
    BY <1>3, Prepares DEF Prepare
  <2> QED
    BY <1>f, <1>l, <2>1 DEF FlagKept, RowsInv
<1>4. ASSUME NEW s \in Pushes, Restamp(s) PROVE FlagKept' /\ RowsInv'
  <2>1. file'.edits = session.edits /\ session' = OpenedFrom(file') /\ dirty' = dirty
    BY <1>4, Rows, SequenceFields DEF Restamp, record
  <2> QED
    BY <1>f, <1>l, <2>1 DEF FlagKept, RowsInv, OpenedFrom
<1>5. ASSUME NEW s \in Pushes, Record(s) PROVE FlagKept' /\ RowsInv'
  <2>1. file' = file /\ session' = session
    BY <1>5 DEF Record, vaultFiles
  <2>2. push[s].blob.edits \subseteq Landed
    BY <1>5, HeldIsVersion DEF Record, At, HeldInv
  <2>3. PICK b : Bookkeeping(file = push[s].blob, b, "torn")
    BY <1>5 DEF Record
  <2>4. ~dirty' => ~dirty \/ file = push[s].blob
    BY <2>3, BookkeepingWrites
  <2> QED
    BY <1>f, <1>l, <2>1, <2>2, <2>4 DEF FlagKept, RowsInv
<1>6. ASSUME ClearDirty PROVE FlagKept' /\ RowsInv'
  <2>1. file' = file /\ session' = session /\ (~dirty' => ~dirty \/ baseline.sha = file)
    BY <1>6 DEF ClearDirty, vaultFiles
  <2>2. baseline.sha = file => file.edits \subseteq Landed
    BY BaselineFacts, BlobFacts, HeldIsVersion
  <2> QED
    BY <1>f, <1>l, <2>1, <2>2 DEF FlagKept, RowsInv
<1>7. ASSUME Install PROVE FlagKept' /\ RowsInv'
  <2>1. Holds(wake.gotVer, wake.got) /\ file = wake.cur /\ wake.pc = "install"
    BY <1>7 DEF Install, WakeAt, BytesMoved, HeldInv
  <2>2. wake.got \in Blob /\ wake.gotVer \in Nat /\ wake.got.edits \subseteq Landed
    BY <2>1, HeldIsVersion, WakeFields DEF Holds
  <2>3. file.edits \subseteq Landed /\ session.edits \subseteq Landed
    BY <1>f, <2>1 DEF CurInv, RowsInv
  <2>4. PutInPlace(wake.got, wake.gotVer, "torn") /\ "torn" \in Excuses
    BY <1>7 DEF Install, Excuses
  <2>5. file' = wake.got /\ session' \in {session, OpenedFrom(wake.got)}
    BY <2>2, <2>4, PutsInPlace
  <2> QED
    BY <1>l, <2>2, <2>3, <2>5 DEF FlagKept, RowsInv, OpenedFrom
<1>8. ASSUME ManualInstall PROVE FlagKept' /\ RowsInv'
  <2>1. CASE IsReplay(manual.blob)
    BY <1>1, <1>8, <2>1 DEF ManualInstall, vaultFiles, record
  <2>2. CASE ~IsReplay(manual.blob)
    <3>1. Holds(manual.ver, manual.blob)
      BY <1>8 DEF ManualInstall, HeldInv
    <3>2. manual.blob \in Blob /\ manual.ver \in Nat /\ manual.blob.edits \subseteq Landed
      BY <3>1, HeldIsVersion DEF Holds
    <3>3. PutInPlace(manual.blob, manual.ver, "torn by hand") /\ "torn by hand" \in Excuses
      BY <1>8, <2>2 DEF ManualInstall, Excuses
    <3>4. file' = manual.blob /\ session' = OpenedFrom(manual.blob)
      BY <3>2, <3>3, PutsInPlace DEF FlagsHold
    <3> QED
      BY <1>l, <3>2, <3>4 DEF FlagKept, RowsInv, OpenedFrom
  <2> QED
    BY <2>1, <2>2
<1>9. ASSUME Relock \/ Killed PROVE FlagKept' /\ RowsInv'
  <2>1. file' = file /\ session' = OpenedFrom(file) /\ (~dirty' => ~dirty)
    BY <1>9 DEF Relock, Killed, record
  <2> QED
    BY <1>f, <1>l, <2>1 DEF FlagKept, RowsInv, OpenedFrom
<1> QED
  BY <1>1, <1>2, <1>3, <1>4, <1>5, <1>6, <1>7, <1>8, <1>9, FileMoves

\* A wake goes to download only over unflagged bytes or a landed hash.
LEMMA CurStep ==
  ASSUME TypeInv, NetInv, HeldInv, FlagKept, CurInv, [PhoneNext]_phoneVars
  PROVE  CurInv'
<1> USE Types, WakeFields
<1>l. Landed \subseteq Landed'
  BY HistStep, Monotone
<1>1. CASE wake' = wake
  BY <1>1, <1>l DEF CurInv
<1>2. CASE wake' = NoWake
  BY <1>2 DEF CurInv, NoWake
<1> HIDE DEF RemoteVersion, RemoteBlob
<1>3. CASE WakeStart \/ ReadSha \/ ReadFile \/ AskStatus \/ AskForRepair \/ \E s \in Pushes : WakePushes(s)
  <2>1. wake'.pc \notin {"download", "install"}
    <3>1. CASE WakeStart
      BY <3>1 DEF WakeStart, NoWake
    <3>2. CASE ReadSha
      BY <3>2 DEF ReadSha, Wake
    <3>3. CASE ReadFile
      BY <3>3 DEF ReadFile, Wake
    <3>4. CASE AskStatus
      BY <3>4 DEF AskStatus, Wake
    <3>5. CASE AskForRepair
      BY <3>5 DEF AskForRepair, Wake
    <3>6. CASE \E s \in Pushes : WakePushes(s)
      BY <3>6 DEF WakePushes, NoWake
    <3> QED
      BY <1>3, <3>1, <3>2, <3>3, <3>4, <3>5, <3>6
  <2> QED
    BY <2>1 DEF CurInv
<1>4. CASE Decide
  <2>1. CASE wake' = [wake EXCEPT !.pc = WakeAction, !.sha = NoBlob,
                                  !.cur = IF WakeAction = "download" THEN @ ELSE NoBlob]
    <3>1. wake'.pc = WakeAction /\ (WakeAction = "download" => wake'.cur = wake.cur)
      <4> HIDE DEF WakeAction
      <4> QED
        BY <2>1 DEF Wake
    <3>2. WakeAction = "download" => wake.sha # NoBlob /\ wake.sha = wake.cur
      BY DEF WakeAction
    <3>3. WakeAction # "install"
      BY DEF WakeAction
    <3>4. WakeAction = "download" => wake.cur.edits \subseteq Landed
      BY <1>4, <3>2, VersionsLanded DEF Decide, WakeAt, HeldInv
    <3> QED
      BY <1>l, <3>1, <3>3, <3>4 DEF CurInv
  <2> QED
    BY <1>2, <1>4, <2>1 DEF Decide
<1>5. CASE RepairFastForwards
  <2>1. wake'.cur = file /\ ~dirty
    BY <1>5 DEF RepairFastForwards, Wake
  <2> QED
    BY <1>l, <2>1 DEF CurInv, FlagKept
<1>6. CASE Download
  <2>1. wake.pc = "download" /\ wake'.cur = wake.cur
    BY <1>6 DEF Download, Wake, WakeAt
  <2> QED
    BY <1>l, <2>1 DEF CurInv
<1>7. CASE InstallRefused
  <2>1. wake' = NoWake \/ wake'.pc = "sha"
    BY <1>7 DEF InstallRefused, Wake
  <2> QED
    BY <1>2, <2>1 DEF CurInv
<1> QED
  BY <1>1, <1>2, <1>3, <1>4, <1>5, <1>6, <1>7, WakeMoves

\* All three, until a pull by hand is torn.
LEMMA FlagStep ==
  ASSUME TypeInv, NetInv, HeldInv, FlagInv, [PhoneNext]_phoneVars
  PROVE  FlagInv'
<1>1. FlagsHold' => FlagsHold
  BY ExcusesGrow DEF FlagsHold
<1>2. FlagsHold' => FlagKept' /\ RowsInv' /\ CurInv'
  BY <1>1, FlagAndRowsStep, CurStep DEF FlagInv, FlagKept
<1> QED
  BY <1>2 DEF FlagInv, FlagKept

\* The inductive invariant.
PhoneSyncInv == TypeInv /\ NetInv /\ HeldInv /\ FlagInv

\* The phone starts linked, in step with version 1.
LEMMA PhoneSyncInvStart ==
  PhoneInit => PhoneSyncInv
<1> SUFFICES ASSUME PhoneInit PROVE PhoneSyncInv
  OBVIOUS
<1> USE DEF PhoneInit
<1>1. hist \in Seq(Blob) /\ hist # <<>> /\ Len(hist) = 1 /\ hist[1] = FirstVault /\ 1 \in 1..Len(hist)
  BY BlobFacts
<1>2. session \in Session /\ session.edits = file.edits
  BY BlobFacts DEF OpenedFrom, Session, FirstVault
<1>3. baseline \in Baseline
  BY BlobFacts DEF Baseline
<1>4. used \in Budget
  BY PhoneAssumption DEF Budget
<1>5. push \in [Pushes -> Sequence] /\ \A s \in Pushes : push[s] = NoPush
  BY Constants
<1>6. TypeInv
  BY <1>1, <1>2, <1>3, <1>4, <1>5, BlobFacts, Constants DEF TypeInv, PhoneTypeOK, BytesInv, NoPush
<1>7. NetInv
  BY DEF NetInv
<1>8. HeldInv
  <2>1. BaselineNamesOneVersion
    BY <1>1 DEF BaselineNamesOneVersion
  <2> QED
    BY <1>5, <2>1 DEF HeldInv, NoPush, NoWake
<1>9. FlagInv
  <2>1. file.edits = {}
    BY DEF FirstVault
  <2> QED
    BY <1>2, <2>1 DEF FlagInv, RowsInv, CurInv, NoWake
<1> QED
  BY <1>6, <1>7, <1>8, <1>9 DEF PhoneSyncInv

\* Every step keeps the invariant.
LEMMA PhoneSyncInvStep ==
  PhoneSyncInv /\ [PhoneNext]_phoneVars => PhoneSyncInv'
  BY TypeStep, NetStep, HeldStep, FlagStep DEF PhoneSyncInv

\* It holds always, for any number of push sequences, failures at any step,
\* deaths of the app, pulls by hand and other devices.
THEOREM PhoneSyncInvariant == PhoneSpec => []PhoneSyncInv
  BY PhoneSyncInvStart, PhoneSyncInvStep, PTL DEF PhoneSpec

\* An edit the server has never held is flagged and the baseline names one
\* version, whatever fails half way (saveLocalDirty before the save,
\* saveBaseVersion, installPulledBlob; sync.ts, vault-session.tsx).
THEOREM PhoneStaysSound == PhoneSpec => []PhoneInv
<1>1. PhoneSyncInv => PhoneInv
  BY DEF PhoneSyncInv, PhoneInv, TypeInv, UnpushedIsFlagged, FlagInv, HeldInv
<1> QED
  BY <1>1, PhoneSyncInvariant, PTL

\* No install of a wake removes an edit the server has never held from the
\* file (expectLocalSha, sync.ts; decideRepair, sync-flow.ts).
THEOREM WakesBuryNothing == PhoneSpec => WakeBuriesNothing
<1>1. ASSUME PhoneSyncInv, [PhoneNext]_phoneVars,
             WakeAt("install"), wake' # wake, file' # file, FlagsHold
      PROVE  file.edits \subseteq Landed
  <2>1. TypeInv /\ NetInv
    BY <1>1 DEF PhoneSyncInv
  <2>2. ASSUME NEW s \in Pushes, Edit(s) \/ Prepare(s) \/ Restamp(s) PROVE FALSE
    BY <1>1, <2>2 DEF Edit, Prepare, Restamp
  <2>3. ASSUME NEW s \in Pushes, Record(s) PROVE FALSE
    BY <1>1, <2>3 DEF Record, vaultFiles
  <2>4. ASSUME ClearDirty \/ ManualInstall \/ Relock \/ Killed PROVE FALSE
    BY <1>1, <2>4 DEF ClearDirty, ManualInstall, Relock, Killed, vaultFiles
  <2>5. Install
    BY <1>1, <2>1, <2>2, <2>3, <2>4, FileMoves
  <2> QED
    BY <1>1, <2>5 DEF Install, BytesMoved, WakeAt, PhoneSyncInv, FlagInv, CurInv
<1>2. PhoneSyncInv /\ [PhoneNext]_phoneVars
        => [(WakeAt("install") /\ wake' # wake /\ file' # file /\ FlagsHold) => file.edits \subseteq Landed]_phoneVars
  BY <1>1
<1> QED
  BY <1>2, PhoneSyncInvariant, PTL DEF PhoneSpec, WakeBuriesNothing

-----------------------------------------------------------------------------
(* The version a second push replaces is stashed, while at most two        *)
(* sequences are in flight                                                 *)

\* Two saves in flight at most.
AtMostTwo == \A a, b, c \in Pushes : a = b \/ b = c \/ a = c

\* No sequence, request or wake knows of more versions than there are, and a
\* copy fetched at the newest version is that version.
BasesInv ==
    /\ wake.ver <= RemoteVersion
    /\ \A s \in Pushes : push[s].base <= RemoteVersion
    /\ \A r \in net : r.base <= RemoteVersion
    /\ \A s \in Pushes : (push[s].pc = "fetched" /\ push[s].base = RemoteVersion)
                            => push[s].remote = RemoteBlob

\* After the stash and before the second PUT.
Recovering == {"stashed", "stamp", "restamped"}

\* A fetched copy the server has moved past; a sequence about to replace the
\* server's newest version; that version is in a stash no other will push out.
Stale(s) == push[s].pc = "fetched" /\ push[s].remote # RemoteBlob
Replacing(s) ==
    \/ push[s].pc \in {"stashed", "stamp", "restamped"} /\ push[s].base = RemoteVersion
    \/ \E r \in net : r.from = s /\ r.again /\ r.base = RemoteVersion
Kept == stash = RemoteBlob \/ (stashBak = RemoteBlob /\ \A s \in Pushes : ~Stale(s))
\* Whatever replaces the newest version is over a stashed copy of it.
StashInv == \A s \in Pushes : Replacing(s) => ~Stale(s) /\ Kept

\* What a local step does to what its sequence knows of the server.
LEMMA LocalBases ==
  ASSUME TypeInv, HeldInv, wake.ver <= RemoteVersion, NEW s \in Pushes, push[s].base <= RemoteVersion, Local(s)
  PROVE  /\ push'[s].base <= RemoteVersion
         /\ push'[s].pc = "fetched" => push'[s].remote = RemoteBlob
         /\ push'[s].pc \in Recovering =>
                /\ push'[s].base = push[s].base
                /\ StashRemote(s) \/ push[s].pc \in Recovering
<1> USE Types
<1>v. RemoteVersion \in Nat /\ baseline.ver <= RemoteVersion /\ push[s] \in Sequence
  BY HistFacts DEF HeldInv, BaselineNamesOneVersion, RemoteVersion
<1> HIDE DEF RemoteVersion, RemoteBlob
<1>1. CASE Edit(s)
  <2>1. push'[s] = [NoPush EXCEPT !.pc = "saved"]
    BY <1>1, Becomes DEF Edit
  <2>2. push'[s].base = 0 /\ push'[s].pc = "saved"
    BY <2>1 DEF NoPush
  <2> QED
    BY <1>v, <2>2 DEF Recovering
<1>2. CASE BeginPush(s)
  <2>1. push'[s] = [push[s] EXCEPT !.pc = "flagged"]
    BY <1>2, Becomes DEF BeginPush
  <2>2. push'[s].base = push[s].base /\ push'[s].pc = "flagged"
    BY <1>v, <2>1 DEF Sequence
  <2> QED
    BY <2>2 DEF Recovering
<1>3. CASE LoadBaseVersion(s)
  <2>1. push'[s] = [push[s] EXCEPT !.pc = "based", !.base = baseline.ver]
    BY <1>3, Becomes DEF LoadBaseVersion
  <2>2. push'[s].base = baseline.ver /\ push'[s].pc = "based"
    BY <1>v, <2>1 DEF Sequence
  <2> QED
    BY <1>v, <2>2 DEF Recovering
<1>4. CASE Prepare(s)
  BY <1>4, Prepares DEF Recovering
<1>5. CASE Record(s)
  <2>1. push'[s].base = 0 /\ push'[s].pc = "idle"
    BY <1>5, Finishes DEF Record, NoPush
  <2> QED
    BY <1>v, <2>1 DEF Recovering
<1>6. CASE FetchRemote(s)
  <2>1. push'[s] = [push[s] EXCEPT !.pc = "fetched", !.remote = RemoteBlob]
    BY <1>6, Becomes DEF FetchRemote
  <2>2. push'[s].base = push[s].base /\ push'[s].pc = "fetched" /\ push'[s].remote = RemoteBlob
    BY <1>v, <2>1 DEF Sequence
  <2> QED
    BY <2>2 DEF Recovering
<1>7. CASE StashRemote(s)
  <2>1. push'[s] = [push[s] EXCEPT !.pc = "stashed"]
    BY <1>7, Becomes DEF StashRemote
  <2>2. push'[s].base = push[s].base /\ push'[s].pc = "stashed"
    BY <1>v, <2>1 DEF Sequence
  <2> QED
    BY <1>7, <2>2
<1>8. CASE ChooseGeneration(s)
  <2> DEFINE g == (IF file.gen > push[s].remote.gen THEN file.gen ELSE push[s].remote.gen) + 1
  <2>1. Become(s, [push[s] EXCEPT !.pc = "stamp", !.remote = NoBlob, !.gen = g])
    BY <1>8 DEF ChooseGeneration
  <2> HIDE DEF g
  <2>2. push'[s] = [push[s] EXCEPT !.pc = "stamp", !.remote = NoBlob, !.gen = g]
    BY <2>1, Becomes
  <2>3. push'[s].base = push[s].base /\ push'[s].pc = "stamp"
    BY <1>v, <2>2 DEF Sequence
  <2> QED
    BY <1>8, <2>3 DEF ChooseGeneration, At, Recovering
<1>9. CASE Restamp(s)
  <2>1. push'[s] = [push[s] EXCEPT !.pc = "restamped"]
    BY <1>9, Becomes DEF Restamp
  <2>2. push'[s].base = push[s].base /\ push'[s].pc = "restamped"
    BY <1>v, <2>1 DEF Sequence
  <2> QED
    BY <1>9, <2>2 DEF Restamp, At, Recovering
<1>10. CASE WakePushes(s)
  <2> DEFINE q == IF WakeAt("push") THEN [NoPush EXCEPT !.pc = "flagged", !.why = "wake"]
                  ELSE [NoPush EXCEPT !.pc = "based", !.why = "establish", !.base = wake.ver]
  <2>1. q.base \in {0, wake.ver} /\ q.pc \in {"flagged", "based"}
    BY DEF NoPush
  <2>2. Become(s, q)
    BY <1>10 DEF WakePushes
  <2> HIDE DEF q
  <2>3. push'[s] = q
    BY <2>2, Becomes
  <2> QED
    BY <1>v, <2>1, <2>3 DEF Recovering
<1> QED
  BY <1>1, <1>2, <1>3, <1>4, <1>5, <1>6, <1>7, <1>8, <1>9, <1>10 DEF Local

\* The version a wake has read never runs ahead of the server.
LEMMA WakeVersionStep ==
  ASSUME TypeInv, NetInv, HeldInv, wake.ver <= RemoteVersion, [PhoneNext]_phoneVars
  PROVE  (wake.ver <= RemoteVersion)'
<1> USE Types, WakeFields
<1>v. RemoteVersion \in Nat /\ baseline.ver <= RemoteVersion /\ RemoteVersion' \in Nat /\ RemoteVersion' >= RemoteVersion
  BY HistFacts, HistStep, Monotone DEF HeldInv, BaselineNamesOneVersion, RemoteVersion
<1>1. wake'.ver \in {wake.ver, 0, baseline.ver}
  <2> HIDE DEF RemoteVersion, RemoteBlob, WakeAction
  <2>1. CASE wake' = wake
    BY <2>1
  <2>2. CASE wake' = NoWake
    BY <2>2 DEF NoWake
  <2>3. CASE WakeStart
    BY <2>3 DEF WakeStart, NoWake
  <2>4. CASE ReadSha \/ ReadFile \/ AskStatus \/ AskForRepair \/ RepairFastForwards \/ Download
    BY <2>4 DEF ReadSha, ReadFile, AskStatus, AskForRepair, RepairFastForwards, Download, Wake
  <2>5. CASE Decide
    BY <2>2, <2>5 DEF Decide, Wake
  <2>6. CASE InstallRefused
    BY <2>2, <2>6 DEF InstallRefused, Wake
  <2>7. CASE \E s \in Pushes : WakePushes(s)
    BY <2>7 DEF WakePushes, NoWake
  <2> QED
    BY <2>1, <2>2, <2>3, <2>4, <2>5, <2>6, <2>7, WakeMoves
<1>2. wake.ver \in Nat /\ baseline.ver \in Nat
  BY DEF Baseline
<1>3. wake'.ver <= RemoteVersion
  <2> HIDE DEF RemoteVersion
  <2> QED
    BY <1>v, <1>1, <1>2
<1>4. wake'.ver \in Nat
  BY <1>1, <1>2
<1> HIDE DEF RemoteVersion
<1> QED
  BY <1>v, <1>3, <1>4

\* Facts of a step about the bases of sequences and requests.
LEMMA BasesStep ==
  ASSUME TypeInv, NetInv, HeldInv, BasesInv, [PhoneNext]_phoneVars
  PROVE  BasesInv'
<1> USE Types
<1>r. \A r \in net : r.from \in Pushes /\ r.base \in Nat
  BY DEF Request
<1>s. \A s \in Pushes : push[s].base \in Nat
  BY SequenceFields
<1>g. /\ RemoteVersion \in Nat /\ RemoteVersion' \in Nat /\ RemoteVersion' >= RemoteVersion
      /\ RemoteVersion' = RemoteVersion => RemoteBlob' = RemoteBlob
  BY HistStep, HistFacts, Monotone DEF RemoteBlob
<1>w. (wake.ver <= RemoteVersion)'
  BY WakeVersionStep DEF BasesInv
<1> HIDE DEF RemoteVersion, RemoteBlob
\* A sequence keeps its base and its copy, or knows no more than the server.
<1>0. ASSUME \A s \in Pushes : \/ push'[s] = push[s]
                               \/ /\ push'[s].base \in Nat /\ push'[s].base <= RemoteVersion
                                  /\ push'[s].pc = "fetched" => push'[s].remote = RemoteBlob /\ hist' = hist,
             \A r \in net' : \E q \in net : r.base = q.base
      PROVE  BasesInv'
  <2>1. \A r \in net' : r.base <= RemoteVersion'
    BY <1>0, <1>g, <1>r DEF BasesInv
  <2>2. \A s \in Pushes : push'[s].base <= RemoteVersion'
    BY <1>0, <1>g, <1>s DEF BasesInv
  <2>3. hist' = hist => RemoteBlob' = RemoteBlob
    BY DEF RemoteBlob
  <2>4. ASSUME NEW s \in Pushes, push'[s].pc = "fetched", push'[s].base = RemoteVersion'
        PROVE  push'[s].remote = RemoteBlob'
    <3>1. CASE push'[s] = push[s]
      <4>1. push[s].base <= RemoteVersion
        BY DEF BasesInv
      <4>2. RemoteVersion' = RemoteVersion
        BY <1>g, <1>s, <2>4, <3>1, <4>1
      <4> QED
        BY <1>g, <2>4, <3>1, <4>2 DEF BasesInv
    <3>2. CASE push'[s] # push[s]
      BY <1>0, <2>3, <2>4, <3>2
    <3> QED
      BY <3>1, <3>2
  <2> QED
    BY <1>w, <2>1, <2>2, <2>4 DEF BasesInv
<1>t. \A s \in Pushes : push'[s].base \in Nat
  <2>1. push' \in [Pushes -> Sequence]
    BY TypeStep DEF TypeInv, PhoneTypeOK
  <2> QED
    BY <2>1 DEF Sequence
<1>1. ASSUME NEW s \in Pushes, Local(s) PROVE BasesInv'
  <2>1. push'[s].base <= RemoteVersion /\ (push'[s].pc = "fetched" => push'[s].remote = RemoteBlob)
    BY <1>1, LocalBases DEF BasesInv
  <2> QED
    BY <1>0, <1>1, <1>t, <2>1, LocalSteps
\* A new request carries its sequence's base.
<1>2. ASSUME NEW s \in Pushes, NEW q, q.base = push[s].base, net' = net \cup {q}, hist' = hist,
             push'[s].base = push[s].base, push'[s].pc = "sent",
             \A t \in Pushes : t # s => push'[t] = push[t]
      PROVE  BasesInv'
  <2>1. RemoteVersion' = RemoteVersion /\ RemoteBlob' = RemoteBlob
    BY <1>2 DEF RemoteVersion, RemoteBlob
  <2> QED
    BY <1>2, <1>w, <2>1 DEF BasesInv
<1>3. ASSUME NEW s \in Pushes, Upload(s) PROVE BasesInv'
  <2> DEFINE q == [from |-> s, base |-> push[s].base, blob |-> push[s].blob, again |-> FALSE, live |-> TRUE]
  <2>1. q.base = push[s].base
    OBVIOUS
  <2>2. net' = net \cup {q}
    BY <1>3, Uploads
  <2> HIDE DEF q
  <2> QED
    BY <1>2, <1>3, <2>1, <2>2, Uploads
<1>4. ASSUME NEW s \in Pushes, Repush(s) PROVE BasesInv'
  <2> DEFINE q == [from |-> s, base |-> push[s].base, blob |-> file, again |-> TRUE, live |-> TRUE]
  <2>1. q.base = push[s].base
    OBVIOUS
  <2>2. net' = net \cup {q}
    BY <1>4, Repushes
  <2> HIDE DEF q
  <2> QED
    BY <1>2, <1>4, <2>1, <2>2, Repushes
<1>5. ASSUME NEW r \in net, Answer(r) PROVE BasesInv'
  <2>1. push'[r.from].base <= RemoteVersion /\ push'[r.from].pc # "fetched"
    BY <1>5, <1>g, Answers DEF NoPush
  <2> QED
    BY <1>0, <1>5, <1>t, <2>1, Answers
<1>6. ASSUME NEW r \in net, LateArrival(r) PROVE BasesInv'
  BY <1>0, <1>6 DEF LateArrival
<1>7. ASSUME NEW s \in Pushes, GiveUp(s) PROVE BasesInv'
  <2>1. push'[s].base = 0 /\ push'[s].pc = "idle"
    BY <1>7, GivesUp DEF NoPush
  <2> QED
    BY <1>0, <1>7, <1>g, <2>1, GivesUp
<1>8. ASSUME Killed PROVE BasesInv'
  <2>1. \A s \in Pushes : push'[s].base = 0 /\ push'[s].pc = "idle"
    BY <1>8, Deaths DEF NoPush
  <2> QED
    BY <1>0, <1>8, <1>g, <2>1, Deaths
<1>9. ASSUME Aside \/ UNCHANGED phoneVars PROVE BasesInv'
  BY <1>0, <1>9, AsideSteps DEF phoneVars
<1> QED
  BY <1>1, <1>3, <1>4, <1>5, <1>6, <1>7, <1>8, <1>9, EveryStep

\* Only the stash writes .conflict.bak.
LEMMA StashesStay ==
  /\ (Aside \/ UNCHANGED phoneVars) => UNCHANGED stashes
  /\ \A s \in Pushes : (Local(s) /\ ~StashRemote(s)) => UNCHANGED stashes
<1>1. ASSUME UNCHANGED phoneVars PROVE UNCHANGED stashes
  BY <1>1 DEF phoneVars, stashes
<1>2. ASSUME UNCHANGED unlessWake PROVE UNCHANGED stashes
  BY <1>2 DEF unlessWake
<1>3. ASSUME Aside PROVE UNCHANGED stashes
  BY <1>2, <1>3 DEF Aside, WakeStart, ReadSha, ReadFile, Decide, AskStatus, WakeStandsBack, ClearDirty,
     AskForRepair, RepairLeavesEdit, RepairRecords, RepairFastForwards, Download, Install, InstallRefused,
     ManualDownload, ManualInstall, Relock, OtherDevicePushes, WakeFails
<1>4. ASSUME NEW s \in Pushes, Local(s), ~StashRemote(s) PROVE UNCHANGED stashes
  BY <1>4 DEF Local, Edit, BeginPush, LoadBaseVersion, Prepare, Record, FetchRemote,
              ChooseGeneration, Restamp, WakePushes
<1> QED
  BY <1>1, <1>3, <1>4

\* While two sequences at most are in flight, the newest version stays in
\* one of the two stash files for as long as a second push may replace it:
\* the other sequence can push it out of .conflict.bak once, and only by
\* stashing a staler copy, which it then no longer holds.
LEMMA StashStep ==
  ASSUME AtMostTwo, TypeInv, NetInv, HeldInv, BasesInv, StashInv, [PhoneNext]_phoneVars
  PROVE  StashInv'
<1> USE Types
<1>r. \A r \in net : r.from \in Pushes /\ r.base \in Nat /\ r.base <= RemoteVersion
  BY DEF Request, BasesInv
<1>g. /\ RemoteVersion \in Nat /\ RemoteVersion' \in Nat /\ RemoteVersion' >= RemoteVersion
      /\ RemoteVersion' = RemoteVersion => hist' = hist
      /\ hist' = hist => RemoteVersion' = RemoteVersion /\ RemoteBlob' = RemoteBlob
  BY HistStep, HistFacts, Monotone DEF RemoteVersion, RemoteBlob
<1> HIDE DEF RemoteVersion, RemoteBlob
\* Once the server moves on, nothing in flight replaces its newest version.
<1>m. ASSUME hist' # hist PROVE StashInv'
  <2>1. RemoteVersion' > RemoteVersion
    BY <1>g, <1>m
  <2>2. \A s \in Pushes : push'[s] = push[s] \/ push'[s].pc \notin Recovering
    <3>1. CASE \E r \in net : Answer(r)
      <4>1. PICK r \in net : Answer(r)
        BY <3>1
      <4>2. push'[r.from].pc = "record" /\ \A t \in Pushes : t # r.from => push'[t] = push[t]
        BY <1>m, <4>1, Answers
      <4> QED
        BY <4>2 DEF Recovering
    <3>2. CASE \E r \in net : LateArrival(r)
      BY <3>2 DEF LateArrival
    <3>3. CASE Aside
      BY <3>3, AsideSteps
    <3>4. ~(\E s \in Pushes : Local(s) \/ Upload(s) \/ Repush(s) \/ GiveUp(s)) /\ ~Killed /\ ~UNCHANGED phoneVars
      BY <1>m, LocalSteps, Uploads, Repushes, GivesUp, Deaths DEF phoneVars
    <3> QED
      BY <3>1, <3>2, <3>3, <3>4, EveryStep
  <2>3. \A r \in net' : r \in net
    <3>1. CASE \E r \in net : Answer(r)
      BY <3>1, Answers
    <3>2. CASE \E r \in net : LateArrival(r)
      BY <3>2 DEF LateArrival
    <3>3. CASE Aside
      BY <3>3, AsideSteps
    <3>4. ~(\E s \in Pushes : Local(s) \/ Upload(s) \/ Repush(s) \/ GiveUp(s)) /\ ~Killed /\ ~UNCHANGED phoneVars
      BY <1>m, LocalSteps, Uploads, Repushes, GivesUp, Deaths DEF phoneVars
    <3> QED
      BY <3>1, <3>2, <3>3, <3>4, EveryStep
  <2>4. \A s \in Pushes : push[s].base \in Nat /\ push[s].base <= RemoteVersion
    BY SequenceFields DEF BasesInv
  <2>5. ASSUME NEW s \in Pushes PROVE ~Replacing(s)'
    <3>1. ~(push'[s].pc \in Recovering /\ push'[s].base = RemoteVersion')
      BY <1>g, <2>1, <2>2, <2>4
    <3>2. \A q \in net' : q.base # RemoteVersion'
      BY <1>g, <1>r, <2>1, <2>3
    <3> QED
      BY <3>1, <3>2 DEF Replacing, Recovering
  <2> QED
    BY <2>5 DEF StashInv
\* Nothing new is stale or replaces.
<1>0. ASSUME hist' = hist, UNCHANGED stashes,
             \A s \in Pushes : (Replacing(s)' => Replacing(s)) /\ (Stale(s)' => Stale(s))
      PROVE  StashInv'
  BY <1>g, <1>0 DEF StashInv, Kept, stashes
\* One sequence moves and the requests are the same, give or take their life.
<1>1. ASSUME hist' = hist, UNCHANGED stashes, NEW s \in Pushes,
             \A t \in Pushes : t # s => push'[t] = push[t],
             push'[s].pc \in Recovering => push[s].pc \in Recovering /\ push'[s].base = push[s].base,
             push'[s].pc = "fetched" => push'[s].remote = RemoteBlob,
             \A r \in net' : \E q \in net : r.from = q.from /\ r.base = q.base /\ r.again = q.again
      PROVE  StashInv'
  <2>1. ASSUME NEW t \in Pushes PROVE Replacing(t)' => Replacing(t)
    BY <1>g, <1>1 DEF Replacing, Recovering
  <2>2. ASSUME NEW t \in Pushes PROVE Stale(t)' => Stale(t)
    BY <1>g, <1>1 DEF Stale
  <2> QED
    BY <1>0, <1>1, <2>1, <2>2
<1>2. ASSUME NEW s \in Pushes, Local(s), ~StashRemote(s), UNCHANGED stashes PROVE StashInv'
  <2>1. wake.ver <= RemoteVersion /\ push[s].base <= RemoteVersion
    BY DEF BasesInv
  <2> QED
    BY <1>1, <1>2, <2>1, LocalSteps, LocalBases
\* The new request replaces what its sequence already had stashed.
<1>3. ASSUME NEW s \in Pushes, NEW q, q.from = s, q.base = push[s].base, net' = net \cup {q}, hist' = hist,
             q.again => push[s].pc = "restamped",
             push'[s].pc = "sent", \A t \in Pushes : t # s => push'[t] = push[t],
             UNCHANGED stashes
      PROVE  StashInv'
  <2>1. ASSUME NEW t \in Pushes PROVE Replacing(t)' => Replacing(t)
    BY <1>g, <1>3 DEF Replacing, Recovering
  <2>2. ASSUME NEW t \in Pushes PROVE Stale(t)' => Stale(t)
    BY <1>g, <1>3 DEF Stale
  <2> QED
    BY <1>0, <1>3, <2>1, <2>2
<1>4. ASSUME NEW s \in Pushes, Upload(s) PROVE StashInv'
  <2> DEFINE q == [from |-> s, base |-> push[s].base, blob |-> push[s].blob, again |-> FALSE, live |-> TRUE]
  <2>1. q.base = push[s].base /\ q.from = s /\ ~q.again
    OBVIOUS
  <2>2. net' = net \cup {q} /\ UNCHANGED stashes
    BY <1>4, Uploads DEF Upload
  <2> HIDE DEF q
  <2> QED
    BY <1>3, <1>4, <2>1, <2>2, Uploads
<1>5. ASSUME NEW s \in Pushes, Repush(s) PROVE StashInv'
  <2> DEFINE q == [from |-> s, base |-> push[s].base, blob |-> file, again |-> TRUE, live |-> TRUE]
  <2>1. q.base = push[s].base /\ q.from = s
    OBVIOUS
  <2>2. net' = net \cup {q} /\ UNCHANGED stashes
    BY <1>5, Repushes DEF Repush
  <2> HIDE DEF q
  <2> QED
    BY <1>3, <1>5, <2>1, <2>2, Repushes
<1>6. ASSUME NEW r \in net, Answer(r), ~Accepts(r) PROVE StashInv'
  <2>1. push'[r.from].pc \notin Recovering /\ push'[r.from].pc # "fetched"
    BY <1>6, Answers DEF Recovering, NoPush
  <2>2. UNCHANGED stashes
    BY <1>6 DEF Answer
  <2> QED
    BY <1>1, <1>6, <2>1, <2>2, Answers
<1>7. ASSUME NEW r \in net, LateArrival(r), hist' = hist PROVE StashInv'
  <2>1. UNCHANGED stashes /\ push' = push /\ net' \subseteq net
    BY <1>7 DEF LateArrival
  <2> QED
    BY <1>0, <1>7, <1>g, <2>1 DEF Replacing, Stale
<1>8. ASSUME NEW s \in Pushes, GiveUp(s) PROVE StashInv'
  <2>1. push'[s].pc = "idle" /\ UNCHANGED stashes
    BY <1>8, GivesUp DEF NoPush, GiveUp
  <2> QED
    BY <1>1, <1>8, <2>1, GivesUp DEF Recovering
<1>9. ASSUME Killed PROVE StashInv'
  <2>1. \A t \in Pushes : push'[t].pc = "idle"
    BY <1>9, Deaths DEF NoPush
  <2>2. UNCHANGED stashes /\ hist' = hist
    BY <1>9 DEF Killed
  <2>3. ASSUME NEW t \in Pushes PROVE (Replacing(t)' => Replacing(t)) /\ ~Stale(t)'
    BY <1>9, <1>g, <2>1, <2>2, Deaths DEF Replacing, Stale
  <2> QED
    BY <1>0, <2>2, <2>3
<1>10. ASSUME Aside \/ UNCHANGED phoneVars, hist' = hist PROVE StashInv'
  <2>1. push' = push /\ net' = net
    BY <1>10, AsideSteps DEF phoneVars
  <2>2. UNCHANGED stashes
    BY <1>10, StashesStay
  <2> QED
    BY <1>0, <1>10, <1>g, <2>1, <2>2 DEF Replacing, Stale
<1>11. ASSUME NEW s \in Pushes, StashRemote(s) PROVE StashInv'
  <2>1. /\ hist' = hist /\ net' = net /\ push[s].pc = "fetched"
        /\ push'[s].pc = "stashed" /\ push'[s].base = push[s].base
        /\ \A t \in Pushes : t # s => push'[t] = push[t]
        /\ stash' = push[s].remote /\ stashBak' = stash
    <3>1. push'[s] = [push[s] EXCEPT !.pc = "stashed"]
      BY <1>11, Becomes DEF StashRemote
    <3>2. push'[s].pc = "stashed" /\ push'[s].base = push[s].base
      BY <3>1 DEF Sequence
    <3>3. wake.ver <= RemoteVersion /\ push[s].base <= RemoteVersion
      BY DEF BasesInv
    <3> QED
      BY <1>11, <3>2, LocalSteps DEF StashRemote, At, Local, server
  <2>2. RemoteBlob' = RemoteBlob /\ RemoteVersion' = RemoteVersion
    BY <1>g, <2>1
  <2> SUFFICES ASSUME NEW t \in Pushes, Replacing(t)' PROVE ~Stale(t)' /\ Kept'
    BY DEF StashInv
  <2>3. ~Stale(s)'
    BY <2>1 DEF Stale
  <2>4. CASE push[s].base = RemoteVersion
    <3>1. stash' = RemoteBlob'
      BY <2>1, <2>2, <2>4 DEF BasesInv
    <3>2. t # s => Replacing(t)
      BY <2>1, <2>2 DEF Replacing
    <3>3. t # s => ~Stale(t)'
      BY <2>1, <2>2, <3>2 DEF StashInv, Stale
    <3> QED
      BY <2>3, <3>1, <3>3 DEF Kept
  <2>5. CASE push[s].base # RemoteVersion
    <3>1. Replacing(t)
      BY <2>1, <2>2, <2>5 DEF Replacing
    <3>2. ~Stale(t) /\ Kept
      BY <3>1 DEF StashInv
    <3>3. ~Stale(t)'
      BY <2>1, <2>2, <2>3, <3>2 DEF Stale
    <3>4. CASE push[s].remote = RemoteBlob
      BY <2>1, <2>2, <3>3, <3>4 DEF Kept
    <3>5. CASE push[s].remote # RemoteBlob
      <4>1. Stale(s) /\ t # s /\ stash = RemoteBlob
        BY <2>1, <3>2, <3>5 DEF Stale, Kept
      <4>2. \A u \in Pushes : u = s \/ u = t
        BY <4>1 DEF AtMostTwo
      <4> QED
        BY <2>1, <2>2, <2>3, <3>3, <4>1, <4>2 DEF Kept
    <3> QED
      BY <3>4, <3>5
  <2> QED
    BY <2>4, <2>5
<1> QED
  <2>1. ASSUME NEW s \in Pushes, Local(s) PROVE StashInv'
    <3>1. CASE StashRemote(s)
      BY <1>11, <3>1
    <3>2. CASE ~StashRemote(s)
      BY <1>2, <2>1, <3>2, StashesStay
    <3> QED
      BY <3>1, <3>2
  <2>2. ASSUME NEW r \in net, Answer(r) PROVE StashInv'
    BY <1>6, <1>m, <2>2, Answers
  <2> QED
    BY <1>4, <1>5, <1>7, <1>8, <1>9, <1>10, <1>m, <2>1, <2>2, EveryStep

\* At the start nothing is replaced.
LEMMA StashInvStart ==
  PhoneInit => BasesInv /\ StashInv
<1> SUFFICES ASSUME PhoneInit PROVE BasesInv /\ StashInv
  OBVIOUS
<1>1. RemoteVersion = 1
  BY DEF PhoneInit, RemoteVersion
<1>2. \A s \in Pushes : push[s].base = 0 /\ push[s].pc = "idle"
  BY DEF PhoneInit, NoPush
<1>3. wake.ver = 0 /\ net = {}
  BY DEF PhoneInit, NoWake
<1> QED
  BY <1>1, <1>2, <1>3 DEF BasesInv, StashInv, Replacing

\* With at most two saves in flight, the version a second push replaces is
\* in .conflict.bak or the copy beside it when it is replaced
\* (handlePushConflict, stashRecoverableBak). With three it need not be:
\* the run phone_three_saves.
THEOREM RepushesDisplaceStashed ==
  ASSUME AtMostTwo
  PROVE  PhoneSpec => RepushDisplacesStashed
<1> DEFINE Inv == PhoneSyncInv /\ BasesInv /\ StashInv
<1>1. PhoneInit => Inv
  BY PhoneSyncInvStart, StashInvStart
<1>2. Inv /\ [PhoneNext]_phoneVars => Inv'
  BY PhoneSyncInvStep, BasesStep, StashStep DEF PhoneSyncInv
<1>3. ASSUME Inv, [PhoneNext]_phoneVars, NEW r \in net, r \notin net', r.again, hist' # hist
      PROVE  {RemoteBlob} \subseteq {stash, stashBak}
  <2>1. TypeInv /\ NetInv
    BY <1>3 DEF PhoneSyncInv
  <2>2. r.base = RemoteVersion
    <3>1. CASE \E q \in net : Answer(q)
      <4>1. PICK q \in net : Answer(q)
        BY <3>1
      <4>2. q = r /\ Accepts(q)
        BY <1>3, <2>1, <4>1, Answers
      <4> QED
        BY <4>2 DEF Accepts
    <3>2. CASE \E q \in net : LateArrival(q)
      BY <1>3, <3>2 DEF LateArrival, Accepts
    <3>3. ~Aside
      BY <1>3, <2>1, AsideSteps
    <3>4. ~(\E s \in Pushes : Local(s) \/ Upload(s) \/ Repush(s) \/ GiveUp(s)) /\ ~Killed /\ ~UNCHANGED phoneVars
      BY <1>3, <2>1, LocalSteps, Uploads, Repushes, GivesUp, Deaths DEF phoneVars
    <3> QED
      BY <1>3, <3>1, <3>2, <3>3, <3>4, EveryStep
  <2>3. r.from \in Pushes
    BY <2>1, Types DEF Request
  <2>4. Replacing(r.from)
    BY <1>3, <2>2 DEF Replacing
  <2> QED
    BY <1>3, <2>3, <2>4 DEF StashInv, Kept
<1>4. Inv /\ [PhoneNext]_phoneVars
        => [\A r \in net : (r \notin net' /\ r.again /\ hist' # hist)
                              => {RemoteBlob} \subseteq {stash, stashBak}]_phoneVars
  <2> HIDE DEF Inv
  <2> QED
    BY <1>3
<1> QED
  BY <1>1, <1>2, <1>4, PTL DEF PhoneSpec, RepushDisplacesStashed
=============================================================================
