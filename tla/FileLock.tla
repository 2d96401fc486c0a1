------------------------------ MODULE FileLock ------------------------------
(***************************************************************************)
(* The advisory lock file that serialises vault access between processes  *)
(* (packages/core/src/lock.ts, withFileLock).                              *)
(*                                                                         *)
(* Every filesystem call is a step of its own, because another process can *)
(* run between any two of them: open('wx') then write(token); stat then    *)
(* read then rename when a waiter judges the lock abandoned; read then     *)
(* unlink when a holder releases it.  A contender is one withFileLock      *)
(* call; a crashed contender is replaced by a new process, whose token is  *)
(* different.                                                              *)
(***************************************************************************)
EXTENDS Naturals

CONSTANTS
    Contenders,  \* the concurrent withFileLock calls, each in its own process
    CanCrash,    \* may a process die between two of its steps?
    CanOverrun   \* may a living owner hold its file past the stale window?

ASSUME LockAssumption ==
    /\ CanCrash \in BOOLEAN
    /\ CanOverrun \in BOOLEAN
    /\ {"nobody", "dead"} \cap Contenders = {}

VARIABLES
    owner,   \* who created the file at lockPath; "nobody" when there is none
    token,   \* has the owner's token been written into it?
    old,     \* is its mtime beyond staleMs?
    pc,      \* the next call of each contender
    sawOld,  \* the age verdict a waiter took from stat
    stolen,  \* history: has a rename ever taken the file of a living owner?
    lost     \* history: the releasers whose file was taken since they read it

lockVars == <<owner, token, old, pc, sawOld, stolen, lost>>

Labels == {"idle", "open", "write", "critical", "check", "unlink",
           "stat", "read", "steal", "sleep", "timedout"}

\* From a successful open('wx') until the release has finished.
Holding(p) == pc[p] \in {"write", "critical", "check", "unlink"}

LockInit ==
    /\ owner = "nobody"
    /\ token = FALSE
    /\ old = FALSE
    /\ pc = [p \in Contenders |-> "idle"]
    /\ sawOld = [p \in Contenders |-> FALSE]
    /\ stolen = FALSE
    /\ lost = {}

NoFile == owner = "nobody"

\* p takes the file at lockPath away; its owner may be about to unlink it.
RemoveFile(p) ==
    /\ owner' = "nobody"
    /\ token' = FALSE
    /\ old' = FALSE
    /\ lost' = (lost \cup {q \in Contenders : owner = q /\ pc[q] = "unlink"}) \ {p}

Goto(p, label) == pc' = [pc EXCEPT ![p] = label]

-----------------------------------------------------------------------------
(* Acquiring *)

Begin(p) ==
    /\ pc[p] \in {"idle", "timedout"}
    /\ Goto(p, "open")
    /\ UNCHANGED <<owner, token, old, sawOld, stolen, lost>>

\* Mutant of Create: the file is opened without O_EXCL.
CreateNotExclusive(p) ==
    /\ pc[p] = "open"
    /\ owner' = p
    /\ token' = FALSE
    /\ old' = FALSE
    /\ Goto(p, "write")
    /\ UNCHANGED <<sawOld, stolen, lost>>

\* openSync(lockPath, 'wx') succeeds: the file exists, still empty.
Create(p) ==
    /\ pc[p] = "open"
    /\ NoFile
    /\ owner' = p
    /\ token' = FALSE
    /\ old' = FALSE
    /\ Goto(p, "write")
    /\ UNCHANGED <<sawOld, stolen, lost>>

CreateExists(p) ==
    /\ pc[p] = "open"
    /\ ~NoFile
    /\ Goto(p, "stat")
    /\ UNCHANGED <<owner, token, old, sawOld, stolen, lost>>

\* Mutant of WriteToken: the token is written by path.
WriteTokenByPath(p) ==
    /\ pc[p] = "write"
    /\ token' = TRUE
    /\ old' = (old /\ owner # p)
    /\ Goto(p, "critical")
    /\ UNCHANGED <<owner, sawOld, stolen, lost>>

\* writeSync goes to the open descriptor: a file renamed away meanwhile
\* receives the token where nobody reads it.
WriteToken(p) ==
    /\ pc[p] = "write"
    /\ token' = (token \/ owner = p)
    /\ old' = (old /\ owner # p)
    /\ Goto(p, "critical")
    /\ UNCHANGED <<owner, sawOld, stolen, lost>>

Stat(p) ==
    /\ pc[p] = "stat"
    /\ Goto(p, IF NoFile THEN "open" ELSE "read")
    /\ sawOld' = [sawOld EXCEPT ![p] = old]
    /\ UNCHANGED <<owner, token, old, stolen, lost>>

\* lockOwnerAlive: an empty token counts as alive, a vanished file is not
\* evidence of a dead owner.
OwnerDead == owner = "dead" /\ token

\* Mutant of ReadToken: only the age of the file is looked at.
ReadTokenAgeOnly(p) ==
    /\ pc[p] = "read"
    /\ Goto(p, IF sawOld[p] THEN "steal" ELSE "sleep")
    /\ UNCHANGED <<owner, token, old, sawOld, stolen, lost>>

ReadToken(p) ==
    /\ pc[p] = "read"
    /\ Goto(p, IF sawOld[p] \/ OwnerDead THEN "steal" ELSE "sleep")
    /\ UNCHANGED <<owner, token, old, sawOld, stolen, lost>>

\* renameSync(lockPath, graveyard); rmSync(graveyard).  It moves whatever
\* file is at lockPath now; ENOENT is swallowed.
Steal(p) ==
    /\ pc[p] = "steal"
    /\ RemoveFile(p)
    /\ Goto(p, "open")
    /\ sawOld' = [sawOld EXCEPT ![p] = FALSE]
    /\ stolen' = (stolen \/ owner \in Contenders)

Retry(p) ==
    /\ pc[p] = "sleep"
    /\ Goto(p, "open")
    /\ UNCHANGED <<owner, token, old, sawOld, stolen, lost>>

\* Past the deadline: FileLockTimeoutError.
TimeOut(p) ==
    /\ pc[p] = "sleep"
    /\ Goto(p, "timedout")
    /\ UNCHANGED <<owner, token, old, sawOld, stolen, lost>>

-----------------------------------------------------------------------------
(* Releasing (the finally block) *)

\* fn has returned or thrown.
FnReturns(p) ==
    /\ pc[p] = "critical"
    /\ Goto(p, "check")
    /\ UNCHANGED <<owner, token, old, sawOld, stolen, lost>>

\* Mutant of CheckOurs: whatever file is there is removed.
CheckNothing(p) ==
    /\ pc[p] = "check"
    /\ Goto(p, IF NoFile THEN "idle" ELSE "unlink")
    /\ UNCHANGED <<owner, token, old, sawOld, stolen, lost>>

CheckOurs(p) ==
    /\ pc[p] = "check"
    /\ Goto(p, IF owner = p /\ token THEN "unlink" ELSE "idle")
    /\ UNCHANGED <<owner, token, old, sawOld, stolen, lost>>

Unlink(p) ==
    /\ pc[p] = "unlink"
    /\ RemoveFile(p)
    /\ Goto(p, "idle")
    /\ UNCHANGED <<sawOld, stolen>>

-----------------------------------------------------------------------------
(* Environment *)

\* Time passes: the file at lockPath becomes older than staleMs.
GrowOld ==
    /\ ~NoFile
    /\ owner = "dead" \/ CanOverrun
    /\ old' = TRUE
    /\ UNCHANGED <<owner, token, pc, sawOld, stolen, lost>>

\* utimes on the lock path while a long transfer runs
\* (packages/sync/src/client.ts touchSyncLock): by path, whoever owns it.
Touch(p) ==
    /\ pc[p] = "critical"
    /\ old' = FALSE
    /\ UNCHANGED <<owner, token, pc, sawOld, stolen, lost>>

\* The process dies; a new one may take its place.
Crash(p) ==
    /\ CanCrash
    /\ pc[p] \notin {"idle", "timedout"}
    /\ owner' = IF owner = p THEN "dead" ELSE owner
    /\ Goto(p, "idle")
    /\ lost' = lost \ {p}
    /\ UNCHANGED <<token, old, sawOld, stolen>>

LoopStep(p) ==
    \/ Create(p) \/ CreateExists(p) \/ WriteToken(p)
    \/ Stat(p) \/ ReadToken(p) \/ Steal(p) \/ Retry(p) \/ TimeOut(p)

ReleaseStep(p) == FnReturns(p) \/ CheckOurs(p) \/ Unlink(p)

LockStep(p) ==
    Begin(p) \/ LoopStep(p) \/ ReleaseStep(p) \/ Touch(p) \/ Crash(p)

LockNext == GrowOld \/ \E p \in Contenders : LockStep(p)

LockSpec == LockInit /\ [][LockNext]_lockVars

\* Each withFileLock loop keeps running while its process lives; nothing
\* makes a process start a call, and fn may run for ever.
FairLockSpec == LockSpec /\ \A p \in Contenders : WF_lockVars(LoopStep(p))

-----------------------------------------------------------------------------

LockTypeOK ==
    /\ owner \in Contenders \cup {"nobody", "dead"}
    /\ token \in BOOLEAN
    /\ old \in BOOLEAN
    /\ pc \in [Contenders -> Labels]
    /\ sawOld \in [Contenders -> BOOLEAN]
    /\ stolen \in BOOLEAN
    /\ lost \subseteq Contenders
    /\ NoFile => ~token /\ ~old

\* At most one call is between a successful create and the end of its
\* release: what the comment on the rename promises also when several
\* waiters steal at once.
MutualExclusion ==
    \A p, q \in Contenders : Holding(p) /\ Holding(q) => p = q

\* Under crashes and overruns alike, exclusion is only ever lost through a
\* rename that takes a living owner's file.
ExclusionUntilStolen == ~stolen => MutualExclusion

\* Why: until then, whoever holds is the owner of the file; and even later,
\* so is whoever has found its own token, until the file is taken.
LockInv ==
    /\ LockTypeOK
    /\ ~stolen => \A p \in Contenders : Holding(p) => owner = p
    /\ \A p \in Contenders : pc[p] = "unlink" => owner = p \/ p \in lost

\* When nothing is judged abandoned, nothing is stolen.
CalmInv ==
    /\ LockInv
    /\ ~stolen /\ ~old /\ owner # "dead"
    /\ \A p \in Contenders : ~sawOld[p] /\ pc[p] # "steal"

\* A holder that overran and was stolen from does not evict the stealer ("if we
\* overran STALE_MS and were stolen from, deleting unconditionally would evict
\* the stealer"): through any steals, whoever unlinks removes its own file,
\* unless that file was taken between its reading of the token and its unlink.
ReleaseRemovesOwnFile ==
    [][\A p \in Contenders : Unlink(p) => owner = p \/ p \in lost]_lockVars

\* A waiter that finds a dead owner's token clears that lock at once: it
\* neither waits out the stale window nor gives up at the deadline.
DeadOwnerLockCleared ==
    \A p \in Contenders :
        (pc[p] = "open" /\ owner = "dead" /\ token)
            ~> (owner # "dead" \/ pc[p] = "idle")
=============================================================================
