--------------------------- MODULE ProcessProofs ----------------------------
(***************************************************************************)
(* What one process on one machine keeps in order: the vault file lock it  *)
(* takes and the automatic sync engine it runs, for any bounds.            *)
(*                                                                         *)
(* For any number of contenders, with crashes and overruns, the lock file  *)
(* excludes until a rename takes a living owner's file; and without them   *)
(* no rename ever does.                                                    *)
(*                                                                         *)
(* The engine is proved from what each of its waits knows: the server is   *)
(* never behind the record or an answer still to be used, an automatic     *)
(* pull is decided over a vault that matches the record and the server's   *)
(* copy is stamped later than it, and every way an operation can end       *)
(* either matches the record or leaves the pending write armed.            *)
(***************************************************************************)
EXTENDS FileLock, AutoSync, TLAPS

-----------------------------------------------------------------------------
(* The vault file lock *)

LEMMA LockTypeStep == LockTypeOK /\ [LockNext]_lockVars => LockTypeOK'
<1> SUFFICES ASSUME LockTypeOK, [LockNext]_lockVars
             PROVE  LockTypeOK'
  OBVIOUS
<1> USE LockAssumption DEF LockTypeOK, Labels, Goto, RemoveFile, NoFile
<1>1. ASSUME NEW p \in Contenders, LoopStep(p)
      PROVE  LockTypeOK'
  <2>1. CASE Create(p)
    BY <2>1 DEF Create
  <2>5. CASE CreateExists(p)
    BY <2>5 DEF CreateExists
  <2>6. CASE WriteToken(p)
    BY <2>6 DEF WriteToken
  <2>2. CASE Stat(p)
    BY <2>2 DEF Stat
  <2>3. CASE ReadToken(p)
    BY <2>3 DEF ReadToken
  <2>4. CASE Steal(p)
    BY <2>4 DEF Steal
  <2>7. CASE Retry(p)
    BY <2>7 DEF Retry
  <2>8. CASE TimeOut(p)
    BY <2>8 DEF TimeOut
  <2> QED
    BY <1>1, <2>1, <2>2, <2>3, <2>4, <2>5, <2>6, <2>7, <2>8 DEF LoopStep
<1>2. ASSUME NEW p \in Contenders, ReleaseStep(p)
      PROVE  LockTypeOK'
  <2>1. CASE FnReturns(p)
    BY <2>1 DEF FnReturns
  <2>2. CASE CheckOurs(p)
    BY <2>2 DEF CheckOurs
  <2>3. CASE Unlink(p)
    BY <2>3 DEF Unlink
  <2> QED
    BY <1>2, <2>1, <2>2, <2>3 DEF ReleaseStep
<1>3. ASSUME NEW p \in Contenders, Begin(p) \/ Touch(p)
      PROVE  LockTypeOK'
  <2>1. CASE Begin(p)
    BY <2>1 DEF Begin
  <2>2. CASE Touch(p)
    BY <2>2 DEF Touch
  <2> QED
    BY <1>3, <2>1, <2>2
<1>4. ASSUME NEW p \in Contenders, Crash(p)
      PROVE  LockTypeOK'
  BY <1>4 DEF Crash
<1>5. CASE GrowOld
  BY <1>5 DEF GrowOld
<1>6. CASE UNCHANGED lockVars
  BY <1>6 DEF lockVars
<1> QED
  BY <1>1, <1>2, <1>3, <1>4, <1>5, <1>6 DEF LockNext, LockStep

\* Every variable of the lock keeps its type, crashes and overruns included.
THEOREM LockTypeCorrect == LockSpec => []LockTypeOK
<1>1. LockInit => LockTypeOK
  BY DEF LockInit, LockTypeOK, Labels, NoFile
<1> QED
  BY <1>1, LockTypeStep, PTL DEF LockSpec

\* Until a living owner's file is stolen, whoever holds owns the file; whoever
\* is about to unlink does as long as its file was not taken.
LEMMA LockInvStep ==
  ASSUME LockInv, [LockNext]_lockVars
  PROVE  LockInv'
<1>0. LockTypeOK'
  BY LockTypeStep DEF LockInv
<1> DEFINE Owns(q) == /\ ~stolen' /\ Holding(q)' => owner' = q
                      /\ pc'[q] = "unlink" => owner' = q \/ q \in lost'
<1> SUFFICES ASSUME NEW q \in Contenders
             PROVE  Owns(q)
  BY <1>0 DEF LockInv
<1> USE LockAssumption DEF LockInv, LockTypeOK, Goto, RemoveFile, NoFile, Holding
<1>1. ASSUME NEW p \in Contenders, Begin(p) \/ CreateExists(p) \/ Retry(p)
                                   \/ TimeOut(p) \/ Touch(p) \/ FnReturns(p)
      PROVE  Owns(q)
  <2>1. CASE Begin(p) \/ CreateExists(p)
    BY <2>1 DEF Begin, CreateExists
  <2>2. CASE Retry(p) \/ TimeOut(p)
    BY <2>2 DEF Retry, TimeOut
  <2>3. CASE Touch(p) \/ FnReturns(p)
    BY <2>3 DEF Touch, FnReturns
  <2> QED
    BY <1>1, <2>1, <2>2, <2>3
<1>2. ASSUME NEW p \in Contenders, Create(p)
      PROVE  Owns(q)
  BY <1>2 DEF Create
<1>3. ASSUME NEW p \in Contenders, WriteToken(p)
      PROVE  Owns(q)
  BY <1>3 DEF WriteToken
<1>4. ASSUME NEW p \in Contenders, Stat(p) \/ ReadToken(p)
      PROVE  Owns(q)
  <2>1. CASE Stat(p)
    BY <2>1 DEF Stat
  <2>2. CASE ReadToken(p)
    BY <2>2 DEF ReadToken
  <2> QED
    BY <1>4, <2>1, <2>2
<1>5. ASSUME NEW p \in Contenders, Steal(p)
      PROVE  Owns(q)
  BY <1>5 DEF Steal
<1>6. ASSUME NEW p \in Contenders, Crash(p)
      PROVE  Owns(q)
  BY <1>6 DEF Crash
<1>7. ASSUME NEW p \in Contenders, CheckOurs(p)
      PROVE  Owns(q)
  BY <1>7 DEF CheckOurs
<1>8. ASSUME NEW p \in Contenders, Unlink(p)
      PROVE  Owns(q)
  BY <1>8 DEF Unlink
<1>9. CASE GrowOld \/ UNCHANGED lockVars
  BY <1>9 DEF GrowOld, lockVars
<1> QED
  BY <1>1, <1>2, <1>3, <1>4, <1>5, <1>6, <1>7, <1>8, <1>9
  DEF LockNext, LockStep, LoopStep, ReleaseStep

LEMMA LockInvHolds == LockSpec => []LockInv
<1>1. LockInit => LockInv
  BY LockAssumption DEF LockInit, LockInv, LockTypeOK, Labels, Holding, NoFile
<1> QED
  BY <1>1, LockInvStep, PTL DEF LockSpec

\* Exclusion is lost only through a rename of a living owner's file, for any
\* set of contenders, crashes and overruns included.
THEOREM LockExcludesUntilStolen == LockSpec => []ExclusionUntilStolen
<1>1. LockInv => ExclusionUntilStolen
  BY DEF LockInv, ExclusionUntilStolen, MutualExclusion
<1> QED
  BY <1>1, LockInvHolds, PTL

\* A release after any steals unlinks its own file, unless that file was taken
\* between its reading of the token and its unlink (the finally block of
\* withFileLock).
THEOREM LockReleaseSafe == LockSpec => ReleaseRemovesOwnFile
<1>1. LockInv /\ [LockNext]_lockVars
        => [\A p \in Contenders : Unlink(p) => owner = p \/ p \in lost]_lockVars
  BY DEF LockInv, Unlink
<1> QED
  BY <1>1, LockInvHolds, PTL DEF LockSpec, ReleaseRemovesOwnFile

\* With no crash and no overrun no waiter ever judges a lock abandoned.
LEMMA CalmStep ==
  ASSUME ~CanCrash, ~CanOverrun, CalmInv, [LockNext]_lockVars
  PROVE  CalmInv'
<1>0. LockInv'
  BY LockInvStep DEF CalmInv
<1> SUFFICES /\ ~stolen' /\ ~old' /\ owner' # "dead"
             /\ \A p \in Contenders : ~sawOld'[p] /\ pc'[p] # "steal"
  BY <1>0 DEF CalmInv
<1> USE LockAssumption DEF CalmInv, LockInv, LockTypeOK, Goto, RemoveFile, NoFile
<1>1. ASSUME NEW p \in Contenders, Begin(p) \/ CreateExists(p) \/ Create(p)
      PROVE  /\ ~stolen' /\ ~old' /\ owner' # "dead"
             /\ \A q \in Contenders : ~sawOld'[q] /\ pc'[q] # "steal"
  BY <1>1 DEF Begin, CreateExists, Create
<1>2. ASSUME NEW p \in Contenders, Retry(p) \/ TimeOut(p) \/ WriteToken(p)
      PROVE  /\ ~stolen' /\ ~old' /\ owner' # "dead"
             /\ \A q \in Contenders : ~sawOld'[q] /\ pc'[q] # "steal"
  BY <1>2 DEF Retry, TimeOut, WriteToken
<1>3. ASSUME NEW p \in Contenders, Stat(p) \/ ReadToken(p)
      PROVE  /\ ~stolen' /\ ~old' /\ owner' # "dead"
             /\ \A q \in Contenders : ~sawOld'[q] /\ pc'[q] # "steal"
  BY <1>3 DEF Stat, ReadToken, OwnerDead
<1>4. ASSUME NEW p \in Contenders, ReleaseStep(p) \/ Touch(p)
      PROVE  /\ ~stolen' /\ ~old' /\ owner' # "dead"
             /\ \A q \in Contenders : ~sawOld'[q] /\ pc'[q] # "steal"
  BY <1>4 DEF ReleaseStep, FnReturns, CheckOurs, Unlink, Touch
<1>5. ASSUME NEW p \in Contenders, Steal(p) \/ Crash(p)
      PROVE  FALSE
  BY <1>5 DEF Steal, Crash
<1>6. CASE GrowOld \/ UNCHANGED lockVars
  BY <1>6 DEF GrowOld, lockVars
<1> QED
  BY <1>1, <1>2, <1>3, <1>4, <1>5, <1>6 DEF LockNext, LockStep, LoopStep

\* With no crash and no overrun, no two calls are ever inside together.
THEOREM LockExcludes ==
  ASSUME ~CanCrash, ~CanOverrun
  PROVE  LockSpec => []MutualExclusion
<1>1. LockInit => CalmInv
  BY LockAssumption DEF LockInit, CalmInv, LockInv, LockTypeOK, Labels, Holding, NoFile
<1>2. CalmInv => MutualExclusion
  BY DEF CalmInv, LockInv, MutualExclusion
<1> QED
  BY <1>1, <1>2, CalmStep, PTL DEF LockSpec

-----------------------------------------------------------------------------
(* Automatic sync: types *)

\* Every change an operation or an ending makes to the engine yields an
\* engine.
LEMMA EngineTypes ==
  ASSUME NEW e \in Engine
  PROVE  /\ Resume(e) \in Engine /\ ExpirePause(e) \in Engine /\ NotifyWrite(e) \in Engine
         /\ Settle(e) \in Engine /\ Clean(e) \in Engine
         /\ \A state : ReportState(e, state) \in Engine
         /\ ReportPullRefused(e) \in Engine /\ Pause(e) \in Engine
         /\ \A retry \in {"none", "flush", "wake"} : Fail(e, retry) \in Engine
         /\ RearmAfterManual(e) \in Engine
         /\ \A blob : AfterPush(e, blob) \in Engine
         /\ ManualReturned(e) \in Engine /\ ManualThrew(e) \in Engine
<1>1. /\ Resume(e) \in Engine /\ ExpirePause(e) \in Engine /\ NotifyWrite(e) \in Engine
      /\ Settle(e) \in Engine /\ Clean(e) \in Engine
  <2>1. ASSUME NEW f \in Engine PROVE Resume(f) \in Engine
    <3>1. (f.debounce \/ f.pushPending) \in BOOLEAN
      OBVIOUS
    <3>2. \A b \in BOOLEAN : \A x \in {"pending", "idle"} :
             [f EXCEPT !.paused = FALSE, !.old = FALSE, !.debounce = b, !.phase = x] \in Engine
      BY DEF Engine, Phases
    <3> QED
      BY <3>1, <3>2 DEF Resume
  <2>2. \A f \in Engine : ExpirePause(f) \in Engine
    BY <2>1 DEF ExpirePause
  <2>4. NotifyWrite(e) \in Engine
    <3>1. [e EXCEPT !.pushPending = TRUE] \in Engine
      BY DEF Engine
    <3>2. PICK p \in Engine : p = ExpirePause([e EXCEPT !.pushPending = TRUE])
      BY <2>2, <3>1
    <3>3. [p EXCEPT !.debounce = TRUE,
                    !.phase = IF p.phase = "syncing" THEN p.phase ELSE "pending"] \in Engine
      BY DEF Engine, Phases
    <3> QED
      BY <3>2, <3>3 DEF NotifyWrite
  <2>3. Settle(e) \in Engine /\ Clean(e) \in Engine
    BY DEF Engine, Phases, Settle, Clean
  <2> QED
    BY <2>1, <2>2, <2>3, <2>4
<1>2. \A state : ReportState(e, state) \in Engine
  BY DEF Engine, Phases, ReportState
<1>3. /\ ReportPullRefused(e) \in Engine /\ Pause(e) \in Engine
      /\ \A retry \in {"none", "flush", "wake"} : Fail(e, retry) \in Engine
      /\ RearmAfterManual(e) \in Engine
  BY DEF Engine, Phases, ReportPullRefused, Pause, Fail, RearmAfterManual
<1>4. /\ \A blob : AfterPush(e, blob) \in Engine
      /\ ManualReturned(e) \in Engine /\ ManualThrew(e) \in Engine
  BY DEF Engine, Phases, AfterPush, ManualReturned, ManualThrew, Clean,
         Settle, RearmAfterManual
<1> QED
  BY <1>1, <1>2, <1>3, <1>4

\* A push stamps its bytes later than the recorded copy and keeps their
\* edits.
LEMMA StampedType ==
  ASSUME local \in Blob, record \in Copy
  PROVE  /\ Stamped \in Blob
         /\ record.ver > 0 => Stamped.gen > record.blob.gen
         /\ Stamped.mine = local.mine
  BY DEF Stamped, Blob, Copy

\* However an operation ends, the engine and the idle run have their types.
LEMMA EndTypes ==
  ASSUME NEW e \in Engine, End(e)
  PROVE  eng' \in Engine /\ run' \in Run /\ (eng'.inOwnOperation <=> run'.at # "none")
  BY DEF End, Engine, NoRun, Run, Awaits, Jobs, Blob, Copy, Nothing

\* So do those of a flush that begins, or ends before it reaches the
\* network.
LEMMA RunPushTypes ==
  ASSUME NEW e \in Engine, NEW b \in BOOLEAN, RunPush(e, b)
  PROVE  eng' \in Engine /\ run' \in Run /\ (eng'.inOwnOperation <=> run'.at # "none")
<1>1. CASE End(e)
  BY <1>1, EndTypes
<1>2. CASE End([e EXCEPT !.phase = "pending"])
  <2>1. [e EXCEPT !.phase = "pending"] \in Engine
    BY DEF Engine, Phases
  <2> QED
    BY <2>1, <1>2, EndTypes
<1>3. CASE End(Clean(e))
  BY <1>3, EndTypes, EngineTypes
<1>4. CASE /\ eng' = [e EXCEPT !.phase = "syncing", !.inOwnOperation = TRUE]
           /\ run' = [NoRun EXCEPT !.at = "lock", !.job = "flush"]
  BY <1>4 DEF Engine, Phases, NoRun, Run, Awaits, Jobs, Blob, Copy, Nothing
<1> QED
  BY <1>1, <1>2, <1>3, <1>4 DEF RunPush

\* Taking a job from the queue and adding one leave a queue.
LEMMA QueueTypes ==
  ASSUME queue \in Seq(Jobs)
  PROVE  /\ queue # <<>> => Tail(queue) \in Seq(Jobs) /\ Head(queue) \in Jobs
         /\ \A j \in Jobs : Append(queue, j) \in Seq(Jobs) /\ Append(queue, j) # <<>>
<1>1. queue # <<>> => Tail(queue) \in Seq(Jobs) /\ Head(queue) \in Jobs
  OBVIOUS
<1>2. ASSUME NEW j \in Jobs
      PROVE  Append(queue, j) \in Seq(Jobs) /\ Append(queue, j) # <<>>
  <2>1. Append(queue, j) \in Seq(Jobs) /\ Len(Append(queue, j)) = Len(queue) + 1 /\ Len(queue) \in Nat
    OBVIOUS
  <2>2. Len(<<>>) = 0
    OBVIOUS
  <2> QED
    BY <2>1, <2>2
<1> QED
  BY <1>1, <1>2

\* No step breaks a type.
LEMMA AutoTypeStep == AutoTypeOK /\ [AutoNext]_autoVars => AutoTypeOK'
<1> SUFFICES ASSUME AutoTypeOK, [AutoNext]_autoVars
             PROVE  AutoTypeOK'
  OBVIOUS
<1> USE AutoAssumption
<1>t. /\ local \in Blob /\ server \in Copy /\ record \in Copy
      /\ key \in BOOLEAN /\ paying \in BOOLEAN /\ faults \in 0..MaxFaults
      /\ eng \in Engine /\ queue \in Seq(Jobs) /\ run \in Run
      /\ eng.inOwnOperation <=> run.at # "none"
  BY DEF AutoTypeOK
<1>p. [eng EXCEPT !.pushPending = TRUE] \in Engine
  BY <1>t DEF Engine
<1>q. /\ run.blob \in Blob /\ run.remote \in Copy /\ run.remote.blob \in Blob /\ run.remote.ver \in Nat
      /\ server.ver \in Nat /\ server.blob \in Blob /\ record.ver \in Nat /\ record.blob \in Blob
  BY <1>t DEF Run, Copy
<1>f. faults < MaxFaults => faults + 1 \in 0..MaxFaults
  BY <1>t
<1>1. ASSUME Start PROVE AutoTypeOK'
  <2>1. CASE StartPush
    <3>1. eng' \in Engine /\ run' \in Run /\ (eng'.inOwnOperation <=> run'.at # "none")
      BY <2>1, <1>t, RunPushTypes DEF StartPush
    <3> QED
      BY <2>1, <3>1, <1>t, QueueTypes DEF StartPush, AutoTypeOK, world
  <2>2. CASE StartWake
    <3>1. eng' \in Engine /\ run' \in Run /\ (eng'.inOwnOperation <=> run'.at # "none")
      <4>1. CASE eng.paused \/ ~key
        BY <4>1, <2>2, <1>t DEF StartWake
      <4>2. CASE ~(eng.paused \/ ~key)
        <5>1. /\ eng' = [eng EXCEPT !.phase = "syncing", !.inOwnOperation = TRUE]
              /\ run' = [NoRun EXCEPT !.at = "status", !.job = "wake"]
          BY <4>2, <2>2 DEF StartWake
        <5> QED
          BY <5>1, <1>t DEF Engine, Phases, NoRun, Run, Awaits, Jobs, Blob, Copy, Nothing
      <4> QED
        BY <4>1, <4>2
    <3> QED
      BY <2>2, <3>1, <1>t, QueueTypes DEF StartWake, AutoTypeOK, world
  <2>3. CASE StartManual
    <3>1. eng' \in Engine /\ run' \in Run /\ (eng'.inOwnOperation <=> run'.at # "none")
      BY <2>3, <1>t DEF StartManual, Engine, Phases, NoRun, Run, Awaits, Jobs, Blob, Copy, Nothing
    <3> QED
      BY <2>3, <3>1, <1>t, QueueTypes DEF StartManual, AutoTypeOK, world
  <2> QED
    BY <1>1, <2>1, <2>2, <2>3 DEF Start
<1>2. ASSUME Push PROVE AutoTypeOK'
  <2>1. CASE PushSnapshot
    <3>1. run' \in Run /\ run'.at # "none" /\ run.at # "none"
      BY <2>1, <1>t, StampedType DEF PushSnapshot, Run, Awaits
    <3> QED
      BY <2>1, <3>1, <1>t, StampedType DEF PushSnapshot, AutoTypeOK, world
  <2>2. CASE UploadServed
    <3>1. run' \in Run /\ run'.at # "none" /\ run.at # "none"
      BY <2>2, <1>t DEF UploadServed, AwaitAt, Run, Awaits
    <3>2. server' \in Copy
      BY <2>2, <1>t, <1>q DEF UploadServed, Copy
    <3> QED
      BY <2>2, <3>1, <3>2, <1>t DEF UploadServed, AutoTypeOK, world
  <2>3. CASE PushLanded
    <3>1. eng' \in Engine /\ run' \in Run /\ (eng'.inOwnOperation <=> run'.at # "none")
      BY <2>3, <1>t, EndTypes, EngineTypes DEF PushLanded
    <3>2. record' \in Copy
      BY <2>3, <1>t, <1>q DEF PushLanded, Copy
    <3> QED
      BY <2>3, <3>1, <3>2, <1>t DEF PushLanded, AutoTypeOK, world
  <2>4. CASE PushRefused
    <3>1. eng' \in Engine /\ run' \in Run /\ (eng'.inOwnOperation <=> run'.at # "none")
      <4>1. CASE Manual
        BY <4>1, <2>4, <1>t, EndTypes, EngineTypes DEF PushRefused
      <4>2. CASE ~Manual /\ run.again
        BY <4>2, <2>4, <1>p, EndTypes, EngineTypes DEF PushRefused
      <4>3. CASE ~Manual /\ ~run.again
        BY <4>3, <2>4, <1>t DEF PushRefused, Run, Awaits
      <4> QED
        BY <4>1, <4>2, <4>3
    <3> QED
      BY <2>4, <3>1, <1>t DEF PushRefused, AutoTypeOK, world
  <2> QED
    BY <1>2, <2>1, <2>2, <2>3, <2>4 DEF Push
<1>3. ASSUME Decide PROVE AutoTypeOK'
  <2>1. CASE StatusServed
    <3>1. run' \in Run /\ run'.at # "none" /\ run.at # "none"
      BY <2>1, <1>t DEF StatusServed, Run, Awaits
    <3> QED
      BY <2>1, <3>1, <1>t DEF StatusServed, AutoTypeOK, world
  <2>s. SyncState \in {"no-remote", "in-sync", "ahead", "diverged", "behind"}
    BY <1>q DEF SyncState
  <2>2. CASE DecideAfterRefusal
    <3>1. CASE SyncState = "in-sync"
      <4>1. eng' \in Engine /\ run' \in Run /\ (eng'.inOwnOperation <=> run'.at # "none")
        BY <3>1, <2>2, <1>t, EndTypes, EngineTypes DEF DecideAfterRefusal
      <4> QED
        BY <3>1, <2>2, <4>1, <1>t, <1>q DEF DecideAfterRefusal, RepairRecord, AutoTypeOK, world
    <3>2. CASE SyncState \in {"ahead", "no-remote"}
      <4>1. run' \in Run /\ run'.at # "none" /\ run.at # "none"
        BY <3>2, <2>2, <1>t DEF DecideAfterRefusal, Run, Awaits
      <4> QED
        BY <3>2, <2>2, <4>1, <1>t DEF DecideAfterRefusal, AutoTypeOK, world
    <3>3. CASE SyncState \in {"behind", "diverged"}
      <4>1. eng' \in Engine /\ run' \in Run /\ (eng'.inOwnOperation <=> run'.at # "none")
        BY <3>3, <2>2, <1>p, EndTypes, EngineTypes DEF DecideAfterRefusal
      <4> QED
        BY <3>3, <2>2, <4>1, <1>t DEF DecideAfterRefusal, AutoTypeOK, world
    <3> QED
      BY <2>s, <3>1, <3>2, <3>3
  <2>3. CASE DecideWake
    <3>1. CASE SyncState = "in-sync"
      <4>1. eng' \in Engine /\ run' \in Run /\ (eng'.inOwnOperation <=> run'.at # "none")
        BY <3>1, <2>3, <1>t, EndTypes, EngineTypes DEF DecideWake
      <4> QED
        BY <3>1, <2>3, <4>1, <1>t, <1>q DEF DecideWake, RepairRecord, AutoTypeOK, world
    <3>2. CASE SyncState \in {"ahead", "no-remote"}
      <4>1. eng' \in Engine /\ run' \in Run /\ (eng'.inOwnOperation <=> run'.at # "none")
        BY <3>2, <2>3, <1>p, RunPushTypes DEF DecideWake
      <4> QED
        BY <3>2, <2>3, <4>1, <1>t DEF DecideWake, AutoTypeOK, world
    <3>3. CASE SyncState = "behind"
      <4>1. run' \in Run /\ run'.at # "none" /\ run.at # "none"
        BY <3>3, <2>3, <1>t DEF DecideWake, Run, Awaits
      <4> QED
        BY <3>3, <2>3, <4>1, <1>t DEF DecideWake, AutoTypeOK, world
    <3>4. CASE SyncState = "diverged"
      <4>1. eng' \in Engine /\ run' \in Run /\ (eng'.inOwnOperation <=> run'.at # "none")
        BY <3>4, <2>3, <1>t, EndTypes, EngineTypes DEF DecideWake
      <4> QED
        BY <3>4, <2>3, <4>1, <1>t DEF DecideWake, AutoTypeOK, world
    <3> QED
      BY <2>s, <3>1, <3>2, <3>3, <3>4
  <2>4. CASE DecideAfterMove
    <3>1. eng' \in Engine /\ run' \in Run /\ (eng'.inOwnOperation <=> run'.at # "none")
      BY <2>4, <1>p, <1>t, RunPushTypes, EndTypes, EngineTypes DEF DecideAfterMove
    <3> QED
      BY <2>4, <3>1, <1>t DEF DecideAfterMove, AutoTypeOK, world
  <2> QED
    BY <1>3, <2>1, <2>2, <2>3, <2>4 DEF Decide
<1>4. ASSUME Pull PROVE AutoTypeOK'
  <2>1. CASE DownloadServed
    <3>1. run' \in Run /\ run'.at # "none" /\ run.at # "none"
      BY <2>1, <1>t DEF DownloadServed, Run, Awaits
    <3> QED
      BY <2>1, <3>1, <1>t DEF DownloadServed, AutoTypeOK, world
  <2>2. CASE InstallPull
    <3>1. eng' \in Engine /\ run' \in Run /\ (eng'.inOwnOperation <=> run'.at # "none")
      BY <2>2, <1>t, EndTypes, EngineTypes DEF InstallPull
    <3> QED
      BY <2>2, <3>1, <1>t, <1>q DEF InstallPull, AutoTypeOK, world
  <2>3. CASE RefusePull
    <3>1. eng' \in Engine /\ run' \in Run /\ (eng'.inOwnOperation <=> run'.at # "none")
      BY <2>3, <1>t, EndTypes, EngineTypes DEF RefusePull
    <3> QED
      BY <2>3, <3>1, <1>t DEF RefusePull, AutoTypeOK, world
  <2>4. CASE PullMoved
    <3>1. eng' \in Engine /\ run' \in Run /\ (eng'.inOwnOperation <=> run'.at # "none")
      <4>1. CASE Manual
        BY <4>1, <2>4, <1>t, EndTypes, EngineTypes DEF PullMoved
      <4>2. CASE ~Manual
        BY <4>2, <2>4, <1>t DEF PullMoved, Run, Awaits
      <4> QED
        BY <4>1, <4>2
    <3> QED
      BY <2>4, <3>1, <1>t DEF PullMoved, AutoTypeOK, world
  <2>5. CASE NoRemote
    <3>1. eng' \in Engine /\ run' \in Run /\ (eng'.inOwnOperation <=> run'.at # "none")
      BY <2>5, <1>t, EndTypes, EngineTypes DEF NoRemote
    <3> QED
      BY <2>5, <3>1, <1>t DEF NoRemote, AutoTypeOK, world
  <2> QED
    BY <1>4, <2>1, <2>2, <2>3, <2>4, <2>5 DEF Pull
<1>5. ASSUME Timers PROVE AutoTypeOK'
  <2>1. CASE FireDebounce
    <3>1. eng' \in Engine /\ eng'.inOwnOperation = eng.inOwnOperation /\ "push" \in Jobs
      BY <2>1, <1>t DEF FireDebounce, Engine, Jobs
    <3> QED
      BY <2>1, <3>1, <1>t, QueueTypes DEF FireDebounce, Enqueue, AutoTypeOK, world
  <2>2. CASE FireRetry
    <3>1. eng' \in Engine /\ eng'.inOwnOperation = eng.inOwnOperation /\ eng.retry \in Jobs
      BY <2>2, <1>t DEF FireRetry, Engine, Jobs
    <3> QED
      BY <2>2, <3>1, <1>t, QueueTypes DEF FireRetry, Enqueue, AutoTypeOK, world
  <2>3. CASE PauseAges
    BY <2>3, <1>t DEF PauseAges, Engine, AutoTypeOK, world
  <2> QED
    BY <1>5, <2>1, <2>2, <2>3 DEF Timers
<1>own. /\ Resume(eng).inOwnOperation = eng.inOwnOperation
        /\ ExpirePause(eng).inOwnOperation = eng.inOwnOperation
        /\ NotifyWrite(eng).inOwnOperation = eng.inOwnOperation
  BY <1>t DEF Resume, ExpirePause, NotifyWrite, Engine
<1>6. ASSUME User PROVE AutoTypeOK'
  <2>1. CASE Write
    <3>1. local' \in Blob
      BY <2>1, <1>t DEF Write, Blob
    <3> QED
      BY <2>1, <3>1, <1>t, <1>own, EngineTypes DEF Write, AutoTypeOK, world
  <2>2. CASE Wake
    <3>1. "wake" \in Jobs
      BY DEF Jobs
    <3> QED
      BY <2>2, <3>1, <1>t, <1>own, EngineTypes, QueueTypes DEF Wake, Enqueue, AutoTypeOK, world
  <2>3. CASE Unlock
    <3>1. "wake" \in Jobs
      BY DEF Jobs
    <3> QED
      BY <2>3, <3>1, <1>t, <1>own, EngineTypes, QueueTypes DEF Unlock, Enqueue, AutoTypeOK, world
  <2>4. CASE LockVault
    BY <2>4, <1>f, <1>t DEF LockVault, AutoTypeOK, world
  <2>5. CASE Flush
    <3>1. eng' \in Engine /\ eng'.inOwnOperation = eng.inOwnOperation /\ "flush" \in Jobs
      BY <2>5, <1>t DEF Flush, Engine, Jobs
    <3> QED
      BY <2>5, <3>1, <1>t, QueueTypes DEF Flush, Enqueue, AutoTypeOK, world
  <2>6. CASE Restart
    <3>1. NewEngine \in Engine /\ NoRun \in Run /\ (NewEngine.inOwnOperation <=> NoRun.at # "none")
      BY DEF NewEngine, Engine, Phases, NoRun, Run, Awaits, Jobs, Blob, Copy, Nothing
    <3>2. <<>> \in Seq(Jobs)
      OBVIOUS
    <3> QED
      BY <2>6, <3>1, <3>2, <1>f, <1>t DEF Restart, AutoTypeOK, world
  <2>7. CASE RunManual
    <3>1. "manualPush" \in Jobs /\ "manualPull" \in Jobs
      BY DEF Jobs
    <3> QED
      BY <2>7, <3>1, <1>t, <1>own, EngineTypes, QueueTypes DEF RunManual, Enqueue, AutoTypeOK, world
  <2>8. CASE ChangeServer
    BY <2>8, <1>t, <1>own, EngineTypes DEF ChangeServer, AutoTypeOK, world
  <2> QED
    BY <1>6, <2>1, <2>2, <2>3, <2>4, <2>5, <2>6, <2>7, <2>8 DEF User
<1>7. ASSUME Outside PROVE AutoTypeOK'
  <2>1. CASE RequestFails
    <3>1. eng' \in Engine /\ run' \in Run /\ (eng'.inOwnOperation <=> run'.at # "none")
      BY <2>1, <1>t, EndTypes, EngineTypes DEF RequestFails, RetryJob
    <3> QED
      BY <2>1, <3>1, <1>f, <1>t DEF RequestFails, AutoTypeOK, world
  <2>2. CASE Lapse
    BY <2>2, <1>f, <1>t DEF Lapse, AutoTypeOK, world
  <2>3. CASE Pay
    BY <2>3, <1>t DEF Pay, AutoTypeOK, world
  <2>4. CASE OtherPush
    <3>1. server' \in Copy
      <4>1. PICK k \in 0..server.blob.mine :
              server' = [ver |-> server.ver + 1,
                         blob |-> [mine |-> k, theirs |-> server.blob.theirs + 1,
                                   gen |-> server.blob.gen + 1]]
        BY <2>4 DEF OtherPush
      <4>2. k \in Nat /\ server.blob.theirs + 1 \in Nat /\ server.blob.gen + 1 \in Nat
        BY <1>q DEF Blob
      <4> QED
        BY <4>1, <4>2, <1>q DEF Copy, Blob
    <3> QED
      BY <2>4, <3>1, <1>t DEF OtherPush, AutoTypeOK, world
  <2>5. CASE ServerReset
    <3>1. server' \in Copy
      <4>1. CASE server' = [ver |-> 0, blob |-> Nothing]
        BY <4>1 DEF Copy, Blob, Nothing
      <4>2. CASE /\ server.ver > 1 /\ server.blob.mine > 0
                 /\ server' = [ver |-> server.ver - 1,
                               blob |-> [server.blob EXCEPT !.mine = server.blob.mine - 1]]
        BY <4>2, <1>q DEF Copy, Blob
      <4> QED
        BY <4>1, <4>2, <2>5 DEF ServerReset
    <3> QED
      BY <2>5, <3>1, <1>f, <1>t DEF ServerReset, AutoTypeOK, world
  <2> QED
    BY <1>7, <2>1, <2>2, <2>3, <2>4, <2>5 DEF Outside
<1>8. CASE RequestUnpaid
  <2>1. eng' \in Engine /\ run' \in Run /\ (eng'.inOwnOperation <=> run'.at # "none")
    BY <1>8, <1>t, EndTypes, EngineTypes DEF RequestUnpaid
  <2> QED
    BY <1>8, <2>1, <1>t DEF RequestUnpaid, AutoTypeOK, world
<1>9. CASE UNCHANGED autoVars
  BY <1>9, <1>t DEF autoVars, AutoTypeOK, world
<1> QED
  BY <1>1, <1>2, <1>3, <1>4, <1>5, <1>6, <1>7, <1>8, <1>9 DEF AutoNext, EngineStep

-----------------------------------------------------------------------------
(* Automatic sync: the copies in flight *)

\* A server that has a copy has one at least as far as c, and further when it counts more versions.
NotOlder(c) ==
    (c.ver > 0 /\ server.ver > 0) =>
        /\ server.blob.gen >= c.blob.gen
        /\ (server.ver > c.ver => server.blob.gen > c.blob.gen)

\* What the record becomes when the bytes in flight have landed.
Uploaded == [ver |-> record.ver + 1, blob |-> run.blob]

\* The record is not past the server; nor is any answer still to be acted on,
\* nor the upload that just landed.  Bytes in flight are stamped past the record.
RecordInv == NotOlder(record)
AnswerInv ==
    /\ run.at \in {"answered", "downloaded"} => NotOlder(run.remote)
    /\ run.at = "downloaded" => run.remote.ver > 0
    /\ run.at = "answered" =>
          /\ run.remote.ver = 0 => server.ver = 0
          /\ (record.ver > 0 /\ run.remote.ver > record.ver) =>
                 run.remote.blob.gen > record.blob.gen
UploadInv ==
    /\ (run.at \in {"upload", "landed", "refused"} /\ record.ver > 0) =>
          run.blob.gen > record.blob.gen
    /\ run.at = "landed" => NotOlder(Uploaded)

GenInv == RecordInv /\ AnswerInv /\ UploadInv

\* An automatic pull between its decision and its install: the vault matched
\* the record when it was decided, and the server has moved past both.
Pulling ==
    /\ ~Manual
    /\ \/ run.at \in {"download", "downloaded"}
       \/ run.at \in {"status", "answered"} /\ run.why = "changed"
PullInv ==
    Pulling =>
        /\ record.ver > 0 /\ run.blob = record.blob /\ local.gen = record.blob.gen
        /\ server.ver > 0 => server.blob.gen > record.blob.gen
        /\ (run.at \in {"downloaded", "answered"} /\ run.remote.ver > 0) =>
              run.remote.blob.gen > record.blob.gen

\* A pull or push by hand never waits for a status.
ManualInv == (Manual /\ run.at # "none") => run.at \notin {"status", "answered"}

TransferInv == GenInv /\ PullInv /\ ManualInv

\* The types of the parts of every variable.
LEMMA Fields ==
  ASSUME AutoTypeOK
  PROVE  /\ local \in Blob /\ local.gen \in Nat /\ local.mine \in Nat /\ local.theirs \in Nat
         /\ server.ver \in Nat /\ server.blob \in Blob
         /\ server.blob.gen \in Nat /\ server.blob.mine \in Nat /\ server.blob.theirs \in Nat
         /\ record.ver \in Nat /\ record.blob \in Blob /\ record.blob.gen \in Nat
         /\ run.blob \in Blob /\ run.blob.gen \in Nat
         /\ run.remote \in Copy /\ run.remote.ver \in Nat
         /\ run.remote.blob \in Blob /\ run.remote.blob.gen \in Nat
         /\ run \in Run /\ eng \in Engine /\ server \in Copy /\ record \in Copy
  BY DEF AutoTypeOK, Blob, Copy, Run

\* An operation that ends leaves nothing in flight to be wrong.
LEMMA EndsTransfer ==
  ASSUME TransferInv, run' = NoRun, UNCHANGED <<server, record>>
  PROVE  TransferInv'
  BY DEF TransferInv, GenInv, RecordInv, AnswerInv, UploadInv, NotOlder, PullInv, Pulling,
         ManualInv, Manual, NoRun

\* Nor does the beginning of a flush.
LEMMA RunPushTransfer ==
  ASSUME TransferInv, NEW e, NEW b, RunPush(e, b), UNCHANGED <<server, record>>
  PROVE  TransferInv'
<1>1. CASE run' = NoRun
  BY <1>1, EndsTransfer
<1>2. CASE run' = [NoRun EXCEPT !.at = "lock", !.job = "flush"]
  BY <1>2 DEF TransferInv, GenInv, RecordInv, AnswerInv, UploadInv, NotOlder, PullInv, Pulling,
         ManualInv, Manual, NoRun
<1> QED
  BY <1>1, <1>2 DEF RunPush, End

\* A step that leaves copies, run and generation alone keeps the invariant.
LEMMA KeepsTransfer ==
  ASSUME TransferInv, UNCHANGED <<server, record, run>>, local'.gen = local.gen
  PROVE  TransferInv'
  BY DEF TransferInv, GenInv, RecordInv, AnswerInv, UploadInv, Uploaded, NotOlder, PullInv,
         Pulling, ManualInv, Manual

\* What each verdict of classifySync says of record, server and vault.
LEMMA SyncStates ==
  ASSUME AutoTypeOK
  PROVE  /\ SyncState \in {"no-remote", "in-sync", "ahead", "diverged", "behind"}
         /\ SyncState = "no-remote" => run.remote.ver = 0
         /\ SyncState = "in-sync" => run.remote.ver > 0 /\ run.remote.blob = local
         /\ SyncState = "behind" => run.remote.ver > record.ver /\ Matches
         /\ SyncState = "diverged" => run.remote.ver > record.ver /\ ~Matches
  BY Fields DEF SyncState

\* Every step keeps copies, answers, uploads and pulls in order: the server
\* only moves on, and only an install over unmoved bytes writes the vault.
LEMMA TransferStep == AutoTypeOK /\ TransferInv /\ [AutoNext]_autoVars => TransferInv'
<1> SUFFICES ASSUME AutoTypeOK, TransferInv, [AutoNext]_autoVars
             PROVE  TransferInv'
  OBVIOUS
<1> DEFINE Kept == UNCHANGED <<server, record, run>> /\ local'.gen = local.gen
<1> DEFINE Ended == run' = NoRun /\ UNCHANGED <<server, record>>
<1>k. Kept => TransferInv'
  BY KeepsTransfer
<1>e. Ended => TransferInv'
  BY EndsTransfer
<1>1. ASSUME Start PROVE TransferInv'
  <2>1. CASE StartPush
    BY <2>1, RunPushTransfer DEF StartPush
  <2>2. CASE StartWake
    <3>1. CASE UNCHANGED run
      BY <3>1, <2>2, <1>k DEF StartWake
    <3>2. CASE run' = [NoRun EXCEPT !.at = "status", !.job = "wake"]
      BY <3>2, <2>2 DEF StartWake, TransferInv, GenInv, RecordInv, AnswerInv, UploadInv, NotOlder,
         PullInv, Pulling, ManualInv, Manual, NoRun
    <3> QED
      BY <3>1, <3>2, <2>2 DEF StartWake
  <2>3. CASE StartManual
    <3>1. run'.at \in {"lock", "download"} /\ run'.job \in {"manualPush", "manualPull"}
      BY <2>3 DEF StartManual, NoRun
    <3> QED
      BY <3>1, <2>3 DEF StartManual, TransferInv, GenInv, RecordInv, AnswerInv, UploadInv, NotOlder,
         PullInv, Pulling, ManualInv, Manual
  <2> QED
    BY <1>1, <2>1, <2>2, <2>3 DEF Start
<1>2. ASSUME Push PROVE TransferInv'
  <2>1. CASE PushSnapshot
    <3>1. /\ run.at = "lock" /\ run' = [run EXCEPT !.at = "upload", !.blob = Stamped]
          /\ UNCHANGED <<server, record>>
      BY <2>1 DEF PushSnapshot
    <3>2. run'.at = "upload" /\ run'.blob = Stamped
      BY <3>1, Fields DEF Run
    <3>3. record.ver > 0 => Stamped.gen > record.blob.gen
      BY StampedType, Fields
    <3> QED
      BY <3>1, <3>2, <3>3 DEF TransferInv, GenInv, RecordInv, AnswerInv, UploadInv, NotOlder,
         PullInv, Pulling, ManualInv, Manual
  <2>2. CASE UploadServed
    <3>0. run.at = "upload" /\ UNCHANGED record
      BY <2>2 DEF UploadServed
    <3>1. CASE server.ver = record.ver
      <4>1. /\ run'.at = "landed" /\ run'.blob = run.blob
            /\ server'.ver = record.ver + 1 /\ server'.blob = run.blob
        BY <2>2, <3>1, Fields DEF UploadServed, AwaitAt, Run
      <4>2. record.ver > 0 => run.blob.gen > record.blob.gen
        BY <3>0 DEF TransferInv, GenInv, UploadInv
      <4>3. NotOlder(record)'
        BY <4>1, <4>2, <3>0, Fields DEF NotOlder
      <4>4. NotOlder(Uploaded)'
        BY <4>1, <3>0, Fields DEF NotOlder, Uploaded
      <4> QED
        BY <4>1, <4>2, <4>3, <4>4, <3>0 DEF TransferInv, GenInv, RecordInv, AnswerInv, UploadInv,
           PullInv, Pulling, ManualInv
    <3>2. CASE server.ver # record.ver
      <4>1. run'.at = "refused" /\ run'.blob = run.blob /\ UNCHANGED server
        BY <2>2, <3>2, Fields DEF UploadServed, AwaitAt, Run
      <4> QED
        BY <4>1, <3>0 DEF TransferInv, GenInv, RecordInv, AnswerInv, UploadInv, NotOlder,
           PullInv, Pulling, ManualInv
    <3> QED
      BY <3>1, <3>2
  <2>3. CASE PushLanded
    <3>1. /\ run.at = "landed" /\ record' = Uploaded /\ UNCHANGED server /\ run' = NoRun
      BY <2>3 DEF PushLanded, End, Uploaded
    <3>2. NotOlder(record)'
      BY <3>1 DEF TransferInv, GenInv, UploadInv, NotOlder
    <3> QED
      BY <3>1, <3>2 DEF TransferInv, GenInv, RecordInv, AnswerInv, UploadInv, PullInv, Pulling,
         ManualInv, NoRun
  <2>4. CASE PushRefused
    <3>1. UNCHANGED <<local, server, record>> /\ run.at = "refused"
      BY <2>4 DEF PushRefused
    <3>2. CASE run' = NoRun
      BY <3>1, <3>2, <1>e
    <3>3. CASE run' = [run EXCEPT !.at = "status", !.why = "refused"] /\ ~Manual
      <4>1. run'.at = "status" /\ run'.why = "refused" /\ run'.job = run.job
        BY <3>3, Fields DEF Run
      <4> QED
        BY <4>1, <3>1, <3>3 DEF TransferInv, GenInv, RecordInv, AnswerInv, UploadInv, NotOlder,
           PullInv, Pulling, ManualInv, Manual
    <3> QED
      BY <3>2, <3>3, <2>4 DEF PushRefused, End
  <2> QED
    BY <1>2, <2>1, <2>2, <2>3, <2>4 DEF Push
<1>3. ASSUME Decide PROVE TransferInv'
  <2>1. CASE StatusServed
    <3>1. /\ run.at = "status" /\ UNCHANGED <<local, server, record>>
          /\ run' = [run EXCEPT !.at = "answered", !.remote = server]
      BY <2>1 DEF StatusServed
    <3>2. /\ run'.at = "answered" /\ run'.remote = server /\ run'.job = run.job
          /\ run'.why = run.why /\ run'.blob = run.blob
      BY <3>1, Fields DEF Run
    <3>3. NotOlder(run.remote)' /\ AnswerInv'
      BY <3>1, <3>2, Fields DEF NotOlder, AnswerInv, TransferInv, GenInv, RecordInv
    <3>4. Manual' = Manual /\ ~Manual
      BY <3>1, <3>2 DEF Manual, TransferInv, ManualInv
    <3>5. PullInv'
      BY <3>1, <3>2, <3>4 DEF TransferInv, PullInv, Pulling
    <3> QED
      BY <3>1, <3>2, <3>3, <3>4, <3>5 DEF TransferInv, GenInv, RecordInv, UploadInv, NotOlder, ManualInv
  <2>2. CASE DecideAfterRefusal
    <3>0. run.at = "answered" /\ UNCHANGED server
      BY <2>2 DEF DecideAfterRefusal
    <3>1. CASE SyncState = "in-sync"
      <4>1. record' = run.remote /\ run' = NoRun
        BY <3>1, <2>2 DEF DecideAfterRefusal, RepairRecord, End
      <4> QED
        BY <4>1, <3>0 DEF TransferInv, GenInv, RecordInv, AnswerInv, UploadInv, NotOlder,
           PullInv, Pulling, ManualInv, NoRun
    <3>2. CASE SyncState \in {"ahead", "no-remote"}
      <4>1. run' = [run EXCEPT !.at = "lock", !.again = TRUE] /\ UNCHANGED record
        BY <3>2, <2>2 DEF DecideAfterRefusal
      <4>2. run'.at = "lock"
        BY <4>1, Fields DEF Run
      <4> QED
        BY <4>1, <4>2, <3>0 DEF TransferInv, GenInv, RecordInv, AnswerInv, UploadInv, NotOlder,
           PullInv, Pulling, ManualInv
    <3>3. CASE SyncState \in {"behind", "diverged"}
      BY <3>3, <2>2, <1>e DEF DecideAfterRefusal, End
    <3> QED
      BY SyncStates, <3>1, <3>2, <3>3
  <2>3. CASE DecideWake
    <3>0. run.at = "answered" /\ UNCHANGED <<server, local>>
      BY <2>3 DEF DecideWake
    <3>1. CASE SyncState = "in-sync"
      <4>1. record' = run.remote /\ run' = NoRun
        BY <3>1, <2>3 DEF DecideWake, RepairRecord, End
      <4> QED
        BY <4>1, <3>0 DEF TransferInv, GenInv, RecordInv, AnswerInv, UploadInv, NotOlder,
           PullInv, Pulling, ManualInv, NoRun
    <3>2. CASE SyncState \in {"ahead", "no-remote"}
      BY <3>2, <2>3, RunPushTransfer DEF DecideWake
    <3>3. CASE SyncState = "behind"
      <4>1. run' = [run EXCEPT !.at = "download", !.blob = local] /\ UNCHANGED record
        BY <3>3, <2>3 DEF DecideWake
      <4>2. run'.at = "download" /\ run'.blob = local /\ run'.job = run.job
        BY <4>1, Fields DEF Run
      <4>3. record.ver > 0 /\ local = record.blob /\ run.remote.ver > record.ver
        BY <3>3, SyncStates DEF Matches
      <4>4. server.ver > 0 => server.blob.gen > record.blob.gen
        BY <4>3, <3>0, Fields DEF TransferInv, GenInv, AnswerInv, NotOlder
      <4>5. PullInv'
        BY <4>1, <4>2, <4>3, <4>4, <3>0 DEF PullInv, Pulling
      <4> QED
        BY <4>1, <4>2, <4>5, <3>0 DEF TransferInv, GenInv, RecordInv, AnswerInv, UploadInv, NotOlder,
           ManualInv
    <3>4. CASE SyncState = "diverged"
      BY <3>4, <2>3, <1>e DEF DecideWake, End
    <3> QED
      BY SyncStates, <3>1, <3>2, <3>3, <3>4
  <2>4. CASE DecideAfterMove
    <3>1. UNCHANGED <<server, record>>
      BY <2>4 DEF DecideAfterMove
    <3>2. CASE run' = NoRun
      BY <3>1, <3>2, <1>e
    <3> QED
      BY <2>4, <3>1, <3>2, RunPushTransfer DEF DecideAfterMove, End
  <2> QED
    BY <1>3, <2>1, <2>2, <2>3, <2>4 DEF Decide
<1>4. ASSUME Pull PROVE TransferInv'
  <2>1. CASE DownloadServed
    <3>1. /\ run.at = "download" /\ server.ver > 0 /\ UNCHANGED <<local, server, record>>
          /\ run' = [run EXCEPT !.at = "downloaded", !.remote = server,
                                !.blob = IF Manual THEN local ELSE run.blob]
      BY <2>1 DEF DownloadServed
    <3>2. /\ run'.at = "downloaded" /\ run'.remote = server /\ run'.job = run.job
          /\ ~Manual => run'.blob = run.blob
      BY <3>1, Fields DEF Run
    <3>3. AnswerInv'
      BY <3>1, <3>2, Fields DEF NotOlder, AnswerInv
    <3>4. Manual' = Manual
      BY <3>2 DEF Manual
    <3>5. PullInv'
      BY <3>1, <3>2, <3>4 DEF TransferInv, PullInv, Pulling
    <3> QED
      BY <3>1, <3>2, <3>3, <3>5 DEF TransferInv, GenInv, RecordInv, UploadInv, NotOlder, ManualInv
  <2>2. CASE InstallPull
    <3>1. run.at = "downloaded" /\ record' = run.remote /\ run' = NoRun /\ UNCHANGED server
      BY <2>2 DEF InstallPull, End
    <3> QED
      BY <3>1 DEF TransferInv, GenInv, RecordInv, AnswerInv, UploadInv, NotOlder,
         PullInv, Pulling, ManualInv, NoRun
  <2>3. CASE RefusePull
    BY <2>3, <1>e DEF RefusePull, End
  <2>4. CASE PullMoved
    <3>1. run.at = "downloaded" /\ UNCHANGED <<local, server, record>>
      BY <2>4 DEF PullMoved
    <3>2. CASE run' = NoRun
      BY <3>1, <3>2, <1>e
    <3>3. CASE ~Manual /\ run' = [run EXCEPT !.at = "status", !.why = "changed"]
      <4>1. /\ run'.at = "status" /\ run'.why = "changed" /\ run'.job = run.job
            /\ run'.blob = run.blob
        BY <3>3, Fields DEF Run
      <4>2. Manual' = Manual
        BY <4>1 DEF Manual
      <4>3. PullInv'
        BY <4>1, <4>2, <3>1, <3>3 DEF TransferInv, PullInv, Pulling
      <4> QED
        BY <4>1, <4>2, <4>3, <3>1, <3>3 DEF TransferInv, GenInv, RecordInv, AnswerInv, UploadInv, NotOlder,
           ManualInv
    <3> QED
      BY <3>2, <3>3, <2>4 DEF PullMoved, End
  <2>5. CASE NoRemote
    BY <2>5, <1>e DEF NoRemote, End
  <2> QED
    BY <1>4, <2>1, <2>2, <2>3, <2>4, <2>5 DEF Pull
<1>5. ASSUME Timers PROVE TransferInv'
  BY <1>5, <1>k DEF Timers, FireDebounce, FireRetry, PauseAges
<1>6. ASSUME User PROVE TransferInv'
  <2>1. CASE Write
    <3>1. local'.gen = local.gen
      BY <2>1, Fields DEF Write, Blob
    <3> QED
      BY <2>1, <3>1, <1>k DEF Write
  <2>2. CASE Wake \/ Unlock \/ LockVault \/ Flush \/ RunManual \/ ChangeServer
    BY <2>2, <1>k DEF Wake, Unlock, LockVault, Flush, RunManual, ChangeServer
  <2>3. CASE Restart
    BY <2>3, <1>e DEF Restart
  <2> QED
    BY <1>6, <2>1, <2>2, <2>3 DEF User
<1>7. ASSUME Outside PROVE TransferInv'
  <2>1. CASE RequestFails
    BY <2>1, <1>e DEF RequestFails, End
  <2>2. CASE Lapse \/ Pay
    BY <2>2, <1>k DEF Lapse, Pay
  <2>3. CASE OtherPush
    <3>1. /\ server.ver > 0 /\ server'.ver = server.ver + 1 /\ server'.blob.gen = server.blob.gen + 1
          /\ UNCHANGED <<local, record, run>>
      BY <2>3, Fields DEF OtherPush
    <3> HIDE DEF Kept, Ended
    <3> QED
      BY <3>1, Fields DEF TransferInv, GenInv, RecordInv, AnswerInv, UploadInv, Uploaded, NotOlder,
         PullInv, Pulling, ManualInv, Manual
  <2>4. CASE ServerReset
    <3>1. /\ server.ver > 0 /\ UNCHANGED <<local, record, run>>
          /\ \/ server'.ver = 0
             \/ server'.ver = server.ver - 1 /\ server'.blob.gen = server.blob.gen
      BY <2>4, Fields DEF ServerReset, Blob
    <3> QED
      BY <3>1, Fields DEF TransferInv, GenInv, RecordInv, AnswerInv, UploadInv, Uploaded, NotOlder,
         PullInv, Pulling, ManualInv, Manual
  <2> QED
    BY <1>7, <2>1, <2>2, <2>3, <2>4 DEF Outside
<1>8. CASE RequestUnpaid
  BY <1>8, <1>e DEF RequestUnpaid, End
<1>9. CASE UNCHANGED autoVars
  BY <1>9, <1>k DEF autoVars
<1> QED
  BY <1>1, <1>2, <1>3, <1>4, <1>5, <1>6, <1>7, <1>8, <1>9 DEF AutoNext, EngineStep

-----------------------------------------------------------------------------
(* Automatic sync: the engine between operations *)

\* A "synced" phase that nothing excuses is never up while an operation runs,
\* and matches the record when none does.
SyncedInv ==
    IF run.at = "none"
    THEN (eng.phase = "synced" /\ ~eng.paused /\ ~Wiped) => Matches
    ELSE eng.phase # "synced"

\* A write still owed is armed, excused or queued whenever nothing runs.
Armed == eng.debounce \/ eng.retry # "none"
Excused == ~key \/ eng.paused \/ eng.phase = "error" \/ Wiped
ArmedInv ==
    (run.at = "none" /\ eng.pushPending /\ Unsynced) => (Armed \/ Excused \/ queue # <<>>)

EngineInv == SyncedInv /\ ArmedInv

\* What the engine must be when an operation ends.
Answered(e, matches) ==
    /\ (e.phase = "synced" /\ ~e.paused /\ ~Wiped) => matches
    /\ (e.pushPending /\ ~matches) => \/ e.debounce \/ e.retry # "none"
                                      \/ ~key \/ e.paused \/ e.phase = "error" \/ Wiped

\* What each way to finish leaves.
LEMMA Endings ==
  ASSUME NEW e \in Engine, NEW m \in BOOLEAN
  PROVE  /\ m => Answered(Clean(e), m) /\ Answered(Settle(e), m)
         /\ m => \A s : Answered(ReportState(e, s), m)
         /\ Answered(ReportState(e, "diverged"), m)
         /\ \A r \in {"none", "flush", "wake"} : Answered(Fail(e, r), m)
         /\ Answered(Pause(e), m) /\ Answered(ReportPullRefused(e), m)
         /\ Answered(RearmAfterManual(e), m)
         /\ Wiped => Answered(Settle(e), m)
         /\ \A s : Wiped => Answered(ReportState(e, s), m)
  BY DEF Engine, Answered, Clean, Settle, ReportState, Fail, Pause, ReportPullRefused, RearmAfterManual

\* An operation that ends in an answered engine restores both.
LEMMA EndsEngine ==
  ASSUME NEW e \in Engine, End(e), NEW m \in BOOLEAN, Answered(e, m), Matches' = m, Wiped => Wiped', UNCHANGED key
  PROVE  EngineInv'
<1>1. /\ run'.at = "none" /\ eng'.phase = e.phase /\ eng'.paused = e.paused
      /\ eng'.pushPending = e.pushPending /\ eng'.debounce = e.debounce /\ eng'.retry = e.retry
  BY DEF End, NoRun, Engine
<1>2. (eng'.phase = "synced" /\ ~eng'.paused /\ ~Wiped') => Matches'
  BY <1>1 DEF Answered
<1>3. (eng'.pushPending /\ ~Matches') => Armed' \/ Excused'
  BY <1>1 DEF Answered, Armed, Excused
<1> QED
  BY <1>1, <1>2, <1>3 DEF EngineInv, SyncedInv, ArmedInv, Unsynced

\* A flush does too, whether it goes on or stops before the network.
LEMMA RunPushEngine ==
  ASSUME AutoTypeOK, NEW e \in Engine, NEW b \in BOOLEAN, RunPush(e, b),
         e.phase = "synced" => eng = e /\ run.at = "none",
         EngineInv, UNCHANGED <<local, server, record, key>>
  PROVE  EngineInv'
<1>u. Matches' = Matches /\ Wiped' = Wiped /\ Matches \in BOOLEAN
  BY DEF Matches, Wiped
<1>1. CASE ~e.pushPending \/ e.paused \/ (~b /\ e.retry # "none")
  <2>1. Answered(e, Matches)
    BY <1>1 DEF Answered, EngineInv, SyncedInv
  <2> QED
    BY <1>1, <1>u, <2>1, EndsEngine DEF RunPush
<1>2. CASE ~(~e.pushPending \/ e.paused \/ (~b /\ e.retry # "none"))
  <2>1. CASE ~key
    <3>1. /\ [e EXCEPT !.phase = "pending"] \in Engine
          /\ Answered([e EXCEPT !.phase = "pending"], Matches)
      BY <2>1 DEF Answered, Engine, Phases
    <3> QED
      BY <1>2, <2>1, <3>1, <1>u, EndsEngine DEF RunPush
  <2>2. CASE key /\ Matches
    <3>1. Clean(e) \in Engine /\ Answered(Clean(e), Matches)
      BY <2>2, <1>u, EngineTypes, Endings
    <3> QED
      BY <1>2, <2>2, <3>1, <1>u, EndsEngine DEF RunPush
  <2>3. CASE key /\ ~Matches
    <3>1. /\ eng' = [e EXCEPT !.phase = "syncing", !.inOwnOperation = TRUE]
          /\ run' = [NoRun EXCEPT !.at = "lock", !.job = "flush"]
      BY <1>2, <2>3 DEF RunPush
    <3>2. eng'.phase # "synced" /\ run'.at # "none"
      BY <3>1 DEF Engine, NoRun
    <3> QED
      BY <3>2 DEF EngineInv, SyncedInv, ArmedInv
  <2> QED
    BY <2>1, <2>2, <2>3
<1> QED
  BY <1>1, <1>2

\* A step beside the operations that neither claims "synced" nor drops a
\* write.
LEMMA KeepsEngine ==
  ASSUME EngineInv, UNCHANGED <<local, server, record, run>>,
         eng'.phase = "synced" => eng.phase = "synced",
         eng.paused /\ ~eng'.paused => eng'.phase # "synced",
         (eng'.pushPending /\ ~Matches) =>
             \/ Armed' \/ ~key' \/ eng'.paused \/ eng'.phase = "error" \/ queue' # <<>>
             \/ eng.pushPending /\ Wiped
  PROVE  EngineInv'
<1>u. Matches' = Matches /\ Wiped' = Wiped
  BY DEF Matches, Wiped
<1> QED
  BY <1>u DEF EngineInv, SyncedInv, ArmedInv, Unsynced, Excused

\* The middle of an operation.
LEMMA WorksOnEngine ==
  ASSUME EngineInv, run.at # "none", run'.at # "none", UNCHANGED eng
  PROVE  EngineInv'
  BY DEF EngineInv, SyncedInv, ArmedInv

\* A push or pull by hand re-arms what it leaves unpushed.
LEMMA ManualEndings ==
  ASSUME eng \in Engine
  PROVE  Answered(ManualReturned(eng), Matches) /\ Answered(ManualThrew(eng), Matches)
  BY DEF Engine, Answered, Clean, Settle, RearmAfterManual, ManualReturned, ManualThrew

\* No step claims "synced" over unpushed writes or leaves one unarmed.
LEMMA EngineStepKeeps ==
  AutoTypeOK /\ TransferInv /\ EngineInv /\ [AutoNext]_autoVars => EngineInv'
<1> SUFFICES ASSUME AutoTypeOK, TransferInv, EngineInv, [AutoNext]_autoVars
             PROVE  EngineInv'
  OBVIOUS
<1>b. Matches \in BOOLEAN /\ Matches' \in BOOLEAN
  BY DEF Matches
<1>eng. eng \in Engine /\ [eng EXCEPT !.pushPending = TRUE] \in Engine
        /\ [eng EXCEPT !.pushPending = TRUE].phase = eng.phase
  BY Fields DEF Engine
<1>same. UNCHANGED <<local, server, record>> => Matches' = Matches /\ Wiped' = Wiped
  BY DEF Matches, Wiped
<1>e. ASSUME NEW e \in Engine, End(e), Answered(e, Matches), UNCHANGED <<local, server, record, key>>
      PROVE  EngineInv'
  BY <1>e, <1>b, <1>same, EndsEngine
<1>1. ASSUME Start PROVE EngineInv'
  <2>1. CASE StartPush
    BY <2>1, <1>eng, RunPushEngine DEF StartPush, world
  <2>2. CASE StartWake
    <3>1. CASE eng.paused \/ ~key
      <4>1. UNCHANGED <<local, server, record, run, eng, key>>
        BY <3>1, <2>2 DEF StartWake, world
      <4> QED
        BY <3>1, <4>1, KeepsEngine
    <3>2. CASE ~(eng.paused \/ ~key)
      <4>1. eng'.phase # "synced" /\ run'.at # "none"
        BY <3>2, <2>2, <1>eng DEF StartWake, Engine, NoRun
      <4> QED
        BY <4>1 DEF EngineInv, SyncedInv, ArmedInv
    <3> QED
      BY <3>1, <3>2
  <2>3. CASE StartManual
    <3>1. eng'.phase # "synced" /\ run'.at # "none"
      BY <2>3, <1>eng DEF StartManual, Engine, NoRun
    <3> QED
      BY <3>1 DEF EngineInv, SyncedInv, ArmedInv
  <2> QED
    BY <1>1, <2>1, <2>2, <2>3 DEF Start
<1>2. ASSUME Push PROVE EngineInv'
  <2>1. CASE PushSnapshot
    <3>1. run.at # "none" /\ run'.at # "none" /\ UNCHANGED eng
      BY <2>1, Fields DEF PushSnapshot, Run
    <3> QED
      BY <3>1, WorksOnEngine
  <2>2. CASE UploadServed
    <3>1. run.at # "none" /\ run'.at # "none" /\ UNCHANGED eng
      BY <2>2, Fields DEF UploadServed, AwaitAt, Run
    <3> QED
      BY <3>1, WorksOnEngine
  <2>3. CASE PushLanded
    <3>0. /\ run.at = "landed" /\ record' = [ver |-> record.ver + 1, blob |-> run.blob]
          /\ UNCHANGED <<local, server, key>>
      BY <2>3 DEF PushLanded, world
    <3>1. Matches' = (local = run.blob) /\ (Wiped => Wiped')
      BY <3>0, Fields DEF Matches, Wiped
    <3>2. CASE local = run.blob
      <4>1. End(Clean(eng))
        BY <3>2, <2>3 DEF PushLanded, AfterPush
      <4> QED
        BY <4>1, <3>0, <3>1, <3>2, <1>eng, Endings, EngineTypes, EndsEngine
    <3>3. CASE local # run.blob
      <4>1. CASE Manual
        <5>1. End(RearmAfterManual(eng))
          BY <4>1, <3>3, <2>3 DEF PushLanded
        <5> QED
          BY <5>1, <3>0, <3>1, <3>3, <1>eng, Endings, EngineTypes, EndsEngine
      <4>2. CASE ~Manual
        <5>1. End(AfterPush(eng, run.blob)) /\ AfterPush(eng, run.blob) \in Engine
          BY <4>2, <2>3, <1>eng, EngineTypes DEF PushLanded
        <5>2. Answered(AfterPush(eng, run.blob), FALSE)
          BY <3>3, <1>eng DEF Answered, AfterPush, Settle, Engine
        <5> QED
          BY <5>1, <5>2, <3>0, <3>1, <3>3, EndsEngine
      <4> QED
        BY <4>1, <4>2
    <3> QED
      BY <3>2, <3>3
  <2>4. CASE PushRefused
    <3>0. UNCHANGED <<local, server, record, key>> /\ run.at = "refused"
      BY <2>4 DEF PushRefused, world
    <3>1. CASE Manual
      BY <3>0, <3>1, <2>4, <1>e, <1>eng, ManualEndings, EngineTypes DEF PushRefused
    <3>2. CASE ~Manual /\ run.again
      BY <3>0, <3>2, <2>4, <1>e, <1>b, <1>eng, Endings, EngineTypes DEF PushRefused
    <3>3. CASE ~Manual /\ ~run.again
      <4>1. run'.at # "none" /\ UNCHANGED eng
        BY <3>3, <2>4, Fields DEF PushRefused, Run
      <4> QED
        BY <4>1, <3>0, WorksOnEngine
    <3> QED
      BY <3>1, <3>2, <3>3
  <2> QED
    BY <1>2, <2>1, <2>2, <2>3, <2>4 DEF Push
<1>3. ASSUME Decide PROVE EngineInv'
  <2>1. CASE StatusServed
    <3>1. run.at # "none" /\ run'.at # "none" /\ UNCHANGED eng
      BY <2>1, Fields DEF StatusServed, Run
    <3> QED
      BY <3>1, WorksOnEngine
  <2>2. CASE DecideAfterRefusal
    <3>0. UNCHANGED <<local, server, key>> /\ run.at = "answered"
      BY <2>2 DEF DecideAfterRefusal, world
    <3>1. CASE SyncState = "in-sync"
      <4>1. record' = run.remote /\ End(Clean(eng))
        BY <3>1, <2>2 DEF DecideAfterRefusal, RepairRecord
      <4>2. Matches' /\ (Wiped => Wiped')
        BY <4>1, <3>0, <3>1, SyncStates DEF Matches, Wiped
      <4> QED
        BY <4>1, <4>2, <3>0, <1>b, <1>eng, Endings, EngineTypes, EndsEngine
    <3>2. CASE SyncState \in {"ahead", "no-remote"}
      <4>1. run'.at # "none" /\ UNCHANGED eng
        BY <3>2, <2>2, Fields DEF DecideAfterRefusal, Run
      <4> QED
        BY <4>1, <3>0, WorksOnEngine
    <3>3. CASE SyncState \in {"behind", "diverged"}
      <4>1. /\ End(ReportState([eng EXCEPT !.pushPending = TRUE], SyncState)) /\ UNCHANGED record
        BY <3>3, <2>2 DEF DecideAfterRefusal
      <4>2. Answered(ReportState([eng EXCEPT !.pushPending = TRUE], SyncState), Matches)
        BY <3>3, <1>eng, <1>b, SyncStates, Endings
      <4> QED
        BY <4>1, <4>2, <3>0, <1>e, <1>eng, EngineTypes
    <3> QED
      BY SyncStates, <3>1, <3>2, <3>3
  <2>3. CASE DecideWake
    <3>0. UNCHANGED <<local, server, key>> /\ run.at = "answered" /\ run.why = "wake"
      BY <2>3 DEF DecideWake, world
    <3>1. CASE SyncState = "in-sync"
      <4>1. record' = run.remote /\ End(Settle(eng))
        BY <3>1, <2>3 DEF DecideWake, RepairRecord
      <4>2. Matches' /\ (Wiped => Wiped')
        BY <4>1, <3>0, <3>1, SyncStates DEF Matches, Wiped
      <4> QED
        BY <4>1, <4>2, <3>0, <1>b, <1>eng, Endings, EngineTypes, EndsEngine
    <3>2. CASE SyncState \in {"ahead", "no-remote"}
      <4>1. RunPush([eng EXCEPT !.pushPending = TRUE], TRUE) /\ UNCHANGED record
        BY <3>2, <2>3 DEF DecideWake
      <4>2. eng.phase # "synced"
        BY <3>0 DEF EngineInv, SyncedInv
      <4> QED
        BY <4>1, <4>2, <3>0, <1>eng, RunPushEngine
    <3>3. CASE SyncState = "behind"
      <4>1. run'.at # "none" /\ UNCHANGED eng
        BY <3>3, <2>3, Fields DEF DecideWake, Run
      <4> QED
        BY <4>1, <3>0, WorksOnEngine
    <3>4. CASE SyncState = "diverged"
      <4>1. End(ReportState(eng, "diverged")) /\ UNCHANGED record
        BY <3>4, <2>3 DEF DecideWake
      <4> QED
        BY <4>1, <3>0, <1>b, <1>eng, <1>e, Endings, EngineTypes
    <3> QED
      BY SyncStates, <3>1, <3>2, <3>3, <3>4
  <2>4. CASE DecideAfterMove
    <3>0. /\ UNCHANGED <<local, server, record, key>>
          /\ run.at = "answered" /\ run.why = "changed"
      BY <2>4 DEF DecideAfterMove, world
    <3>1. CASE SyncState = "ahead"
      <4>1. RunPush([eng EXCEPT !.pushPending = TRUE], TRUE)
        BY <3>1, <2>4 DEF DecideAfterMove
      <4>2. eng.phase # "synced"
        BY <3>0 DEF EngineInv, SyncedInv
      <4> QED
        BY <4>1, <4>2, <3>0, <1>eng, RunPushEngine
    <3>2. CASE SyncState # "ahead"
      <4>1. End(ReportState(eng, SyncState))
        BY <3>2, <2>4 DEF DecideAfterMove
      <4>2. Pulling
        BY <3>0 DEF Pulling, TransferInv, ManualInv
      <4>3. SyncState # "in-sync"
        BY <4>2, <3>0, Fields, SyncStates DEF TransferInv, PullInv
      <4>4. SyncState = "no-remote" => Wiped
        BY <4>2, <3>0, Fields, SyncStates DEF TransferInv, PullInv, GenInv, AnswerInv, Wiped
      <4>5. Answered(ReportState(eng, SyncState), Matches)
        BY <3>2, <4>3, <4>4, <1>b, <1>eng, SyncStates, Endings
      <4> QED
        BY <4>1, <4>5, <3>0, <1>e, <1>eng, EngineTypes
    <3> QED
      BY <3>1, <3>2
  <2> QED
    BY <1>3, <2>1, <2>2, <2>3, <2>4 DEF Decide
<1>4. ASSUME Pull PROVE EngineInv'
  <2>1. CASE DownloadServed
    <3>1. run.at # "none" /\ run'.at # "none" /\ UNCHANGED eng
      BY <2>1, Fields DEF DownloadServed, Run
    <3> QED
      BY <3>1, WorksOnEngine
  <2>2. CASE InstallPull
    <3>1. /\ local' = run.remote.blob /\ record' = run.remote /\ UNCHANGED <<server, key>>
          /\ End(IF Manual THEN Clean(eng) ELSE Settle(eng))
      BY <2>2 DEF InstallPull, world
    <3>2. run.remote.ver > 0
      BY <2>2 DEF InstallPull, TransferInv, GenInv, AnswerInv
    <3>3. Matches' /\ (Wiped => Wiped')
      BY <3>1, <3>2 DEF Matches, Wiped
    <3> QED
      BY <3>1, <3>3, <1>b, <1>eng, Endings, EngineTypes, EndsEngine
  <2>3. CASE RefusePull
    <3>1. /\ End(IF Manual THEN ManualReturned(eng) ELSE ReportPullRefused(eng))
          /\ UNCHANGED <<local, server, record, key>>
      BY <2>3 DEF RefusePull, world
    <3> QED
      BY <3>1, <1>e, <1>b, <1>eng, Endings, ManualEndings, EngineTypes
  <2>4. CASE PullMoved
    <3>0. UNCHANGED <<local, server, record, key>> /\ run.at = "downloaded"
      BY <2>4 DEF PullMoved, world
    <3>1. CASE Manual
      BY <3>0, <3>1, <2>4, <1>e, <1>eng, ManualEndings, EngineTypes DEF PullMoved
    <3>2. CASE ~Manual
      <4>1. run'.at # "none" /\ UNCHANGED eng
        BY <3>2, <2>4, Fields DEF PullMoved, Run
      <4> QED
        BY <4>1, <3>0, WorksOnEngine
    <3> QED
      BY <3>1, <3>2
  <2>5. CASE NoRemote
    <3>1. /\ End(IF Manual THEN ManualReturned(eng) ELSE Settle(eng))
          /\ UNCHANGED <<local, server, record, key>> /\ run.at = "download" /\ server.ver = 0
      BY <2>5 DEF NoRemote, world
    <3>2. CASE Manual
      BY <3>1, <3>2, <1>e, <1>eng, ManualEndings, EngineTypes
    <3>3. CASE ~Manual
      <4>1. Wiped
        BY <3>1, <3>3 DEF TransferInv, PullInv, Pulling, Wiped
      <4> QED
        BY <4>1, <3>1, <3>3, <1>e, <1>b, <1>eng, Endings, EngineTypes
    <3> QED
      BY <3>2, <3>3
  <2> QED
    BY <1>4, <2>1, <2>2, <2>3, <2>4, <2>5 DEF Pull
<1>queue. \A j \in Jobs : Append(queue, j) # <<>>
  BY QueueTypes DEF AutoTypeOK
<1>resume. /\ Resume(eng).phase = "synced" => eng.phase = "synced"
           /\ eng.paused /\ ~Resume(eng).paused => Resume(eng).phase # "synced"
           /\ eng.pushPending /\ eng.paused => Resume(eng).debounce
           /\ ~eng.paused => Resume(eng) = eng
           /\ ExpirePause(eng) \in {eng, Resume(eng)}
  BY <1>eng DEF Resume, ExpirePause, Engine
<1>5. ASSUME Timers PROVE EngineInv'
  <2>1. CASE FireDebounce
    <3>1. /\ eng'.phase = eng.phase /\ eng'.paused = eng.paused /\ queue' # <<>>
          /\ UNCHANGED <<local, server, record, run>>
      BY <2>1, <1>eng, <1>queue DEF FireDebounce, Enqueue, Engine, Jobs
    <3> QED
      BY <3>1, KeepsEngine
  <2>2. CASE FireRetry
    <3>1. /\ eng'.phase = eng.phase /\ eng'.paused = eng.paused /\ queue' # <<>>
          /\ UNCHANGED <<local, server, record, run>>
      BY <2>2, <1>eng, <1>queue DEF FireRetry, Enqueue, Engine, Jobs
    <3> QED
      BY <3>1, KeepsEngine
  <2>3. CASE PauseAges
    <3>1. /\ eng'.phase = eng.phase /\ eng'.paused /\ eng.paused
          /\ UNCHANGED <<local, server, record, run>>
      BY <2>3, <1>eng DEF PauseAges, Engine
    <3> QED
      BY <3>1, KeepsEngine
  <2> QED
    BY <1>5, <2>1, <2>2, <2>3 DEF Timers
<1>6. ASSUME User PROVE EngineInv'
  <2>1. CASE Write
    <3>1. /\ eng' = NotifyWrite(eng) /\ local' = [local EXCEPT !.mine = local.mine + 1]
          /\ UNCHANGED <<server, record, key, queue, run>>
      BY <2>1 DEF Write, world
    <3>2. CASE run.at # "none"
      <4>1. eng' = eng
        BY <3>1, <3>2 DEF NotifyWrite, AutoTypeOK
      <4> QED
        BY <4>1, <3>1, <3>2, WorksOnEngine
    <3>3. CASE run.at = "none"
      <4>1. ~eng.inOwnOperation
        BY <3>3 DEF AutoTypeOK
      <4>2. /\ eng'.paused \/ (eng'.debounce /\ eng'.phase # "synced")
        BY <4>1, <3>1, <1>eng DEF NotifyWrite, ExpirePause, Resume, Engine
      <4> QED
        BY <4>2, <3>1, <3>3 DEF EngineInv, SyncedInv, ArmedInv, Armed, Excused
    <3> QED
      BY <3>2, <3>3
  <2>2. CASE Wake
    <3>1. /\ eng' = ExpirePause(eng) /\ queue' # <<>>
          /\ UNCHANGED <<local, server, record, run>>
      BY <2>2, <1>queue DEF Wake, Enqueue, Jobs
    <3> QED
      BY <3>1, <1>resume, KeepsEngine
  <2>3. CASE Unlock
    <3>1. /\ eng' = ExpirePause(eng) /\ queue' # <<>>
          /\ UNCHANGED <<local, server, record, run>>
      BY <2>3, <1>queue DEF Unlock, Enqueue, Jobs
    <3> QED
      BY <3>1, <1>resume, KeepsEngine
  <2>4. CASE LockVault
    <3>1. ~key' /\ UNCHANGED <<local, server, record, run, eng>>
      BY <2>4 DEF LockVault
    <3> QED
      BY <3>1, KeepsEngine
  <2>5. CASE Flush
    <3>1. /\ eng'.phase = eng.phase /\ eng'.paused = eng.paused /\ queue' # <<>>
          /\ UNCHANGED <<local, server, record, run>>
      BY <2>5, <1>eng, <1>queue DEF Flush, Enqueue, Engine, Jobs
    <3> QED
      BY <3>1, KeepsEngine
  <2>6. CASE Restart
    <3>1. eng'.phase = "idle" /\ ~eng'.pushPending /\ run'.at = "none"
      BY <2>6 DEF Restart, NewEngine, NoRun
    <3> QED
      BY <3>1 DEF EngineInv, SyncedInv, ArmedInv
  <2>7. CASE RunManual
    <3>1. /\ eng' = Resume(eng) /\ queue' # <<>>
          /\ UNCHANGED <<local, server, record, run>>
      BY <2>7, <1>queue DEF RunManual, Enqueue, Jobs
    <3> QED
      BY <3>1, <1>resume, KeepsEngine
  <2>8. CASE ChangeServer
    <3>1. /\ eng' = Resume(eng) /\ eng.paused
          /\ UNCHANGED <<local, server, record, run>>
      BY <2>8 DEF ChangeServer
    <3>2. eng'.pushPending => eng'.debounce
      BY <3>1, <1>eng DEF Resume, Engine
    <3> QED
      BY <3>1, <3>2, <1>resume, KeepsEngine DEF Armed
  <2> QED
    BY <1>6, <2>1, <2>2, <2>3, <2>4, <2>5, <2>6, <2>7, <2>8 DEF User
<1>quiet. ASSUME UNCHANGED <<local, record, run, eng, key, queue>>, Wiped => Wiped'
          PROVE  EngineInv'
  BY <1>quiet DEF EngineInv, SyncedInv, ArmedInv, Armed, Excused, Unsynced, Matches
<1>7. ASSUME Outside PROVE EngineInv'
  <2>1. CASE RequestFails
    <3>1. /\ End(IF Manual THEN ManualThrew(eng) ELSE Fail(eng, RetryJob))
          /\ UNCHANGED <<local, server, record, key>>
      BY <2>1 DEF RequestFails
    <3>2. RetryJob \in {"none", "flush", "wake"}
      BY DEF RetryJob
    <3> QED
      BY <3>1, <3>2, <1>e, <1>b, <1>eng, Endings, ManualEndings, EngineTypes
  <2>2. CASE Lapse
    BY <2>2, <1>quiet DEF Lapse, Wiped
  <2>3. CASE Pay
    BY <2>3, <1>quiet DEF Pay, Wiped
  <2>4. CASE OtherPush
    <3>1. Wiped => Wiped'
      BY <2>4 DEF OtherPush, Wiped
    <3> QED
      BY <2>4, <3>1, <1>quiet DEF OtherPush, world
  <2>5. CASE ServerReset
    <3>1. Wiped => Wiped'
      BY <2>5 DEF ServerReset, Wiped
    <3> QED
      BY <2>5, <3>1, <1>quiet DEF ServerReset
  <2> QED
    BY <1>7, <2>1, <2>2, <2>3, <2>4, <2>5 DEF Outside
<1>8. CASE RequestUnpaid
  <2>1. /\ End(IF Manual THEN ManualThrew(eng) ELSE Pause(eng))
        /\ UNCHANGED <<local, server, record, key>>
    BY <1>8 DEF RequestUnpaid, world
  <2> QED
    BY <2>1, <1>e, <1>b, <1>eng, Endings, ManualEndings, EngineTypes
<1>9. CASE UNCHANGED autoVars
  BY <1>9, <1>quiet DEF autoVars, world, Wiped
<1> QED
  BY <1>1, <1>2, <1>3, <1>4, <1>5, <1>6, <1>7, <1>8, <1>9 DEF AutoNext, EngineStep

AutoSyncInv == AutoTypeOK /\ TransferInv /\ EngineInv

\* The inductive invariant of the engine.
LEMMA AutoSyncInductive ==
  /\ AutoInit => AutoSyncInv
  /\ AutoSyncInv /\ [AutoNext]_autoVars => AutoSyncInv'
<1>1. ASSUME AutoInit PROVE AutoSyncInv
  <2> USE <1>1, AutoAssumption DEF AutoInit
  <2>1. AutoTypeOK
    <3>1. NewEngine \in Engine /\ NoRun \in Run /\ (NewEngine.inOwnOperation <=> NoRun.at # "none")
      BY DEF NewEngine, Engine, Phases, NoRun, Run, Awaits, Jobs, Blob, Copy, Nothing
    <3>2. <<>> \in Seq(Jobs)
      OBVIOUS
    <3>3. local \in Blob /\ server \in Copy /\ record \in Copy
      BY DEF Blob, Copy, Nothing
    <3>4. faults \in 0..MaxFaults
      OBVIOUS
    <3> QED
      BY <3>1, <3>2, <3>3, <3>4 DEF AutoTypeOK
  <2>2. TransferInv
    BY DEF TransferInv, GenInv, RecordInv, AnswerInv, UploadInv, NotOlder, PullInv, Pulling,
       ManualInv, Manual, NoRun
  <2>3. EngineInv
    BY DEF EngineInv, SyncedInv, ArmedInv, NewEngine, NoRun
  <2> QED
    BY <2>1, <2>2, <2>3 DEF AutoSyncInv
<1>2. AutoSyncInv /\ [AutoNext]_autoVars => AutoSyncInv'
  BY AutoTypeStep, TransferStep, EngineStepKeeps DEF AutoSyncInv
<1> QED
  BY <1>1, <1>2

\* It holds always, under any schedule of notifications, timers, wakes,
\* pushes and pulls by hand, faults and other devices.
THEOREM AutoSyncInvariant == AutoSpec => []AutoSyncInv
  BY AutoSyncInductive, PTL DEF AutoSpec

\* A pending write is never forgotten: with nothing running it has a timer,
\* waits in the queue, or the engine is in a state that tells the user
\* (notifyWrite, runPush, scheduleRetry and the manual operations of
\* auto.ts).
THEOREM PendingWritesAreArmed == AutoSpec => []AutoInv
<1>1. AutoSyncInv => AutoInv
  BY DEF AutoSyncInv, AutoInv, PendingIsArmed, EngineInv, ArmedInv, Armed, Excused, AtRest
<1> QED
  BY <1>1, AutoSyncInvariant, PTL

\* The engine says "synced" only when the vault is the copy it recorded
\* (settle, afterPush and the phases each operation sets, auto.ts).
THEOREM SyncedIsNeverClaimedFalsely == AutoSpec => []SyncedMeansSynced
<1>1. AutoSyncInv => SyncedMeansSynced
  BY DEF AutoSyncInv, SyncedMeansSynced, EngineInv, SyncedInv, AtRest
<1> QED
  BY <1>1, AutoSyncInvariant, PTL

\* An automatic pull installs only over a vault that matches the record and
\* never with fewer local writes than before (the re-check under the lock
\* and the refusal of dropping pulls, client.ts).
THEOREM AutomaticPullsKeepWrites == AutoSpec => AutoPullKeepsWrites
<1>1. AutoSyncInv /\ [AutoNext]_autoVars
        => [(InstallPull /\ ~Manual) => Matches /\ local'.mine >= local.mine]_autoVars
  <2> SUFFICES ASSUME AutoSyncInv, InstallPull, ~Manual
               PROVE  Matches /\ local'.mine >= local.mine
    OBVIOUS
  <2>1. run.at = "downloaded" /\ local = run.blob /\ ~WouldDrop /\ local' = run.remote.blob
    BY DEF InstallPull, Moved
  <2>2. Matches
    BY <2>1 DEF AutoSyncInv, TransferInv, PullInv, Pulling, Matches
  <2>3. local'.mine >= local.mine
    <3>1. local'.mine \in Nat /\ local.mine \in Nat
      BY <2>1, Fields DEF AutoSyncInv, Blob
    <3> QED
      BY <2>1, <3>1 DEF WouldDrop
  <2> QED
    BY <2>2, <2>3
<1> QED
  BY <1>1, AutoSyncInvariant, PTL DEF AutoSpec, AutoPullKeepsWrites
=============================================================================
