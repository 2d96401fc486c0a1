-------------------------- MODULE VersionedRegister --------------------------
(***************************************************************************)
(* What the sync server promises its clients (ADR 0009, ADR 0078): one     *)
(* compare-and-set register with a version counter.  A read or a write     *)
(* takes effect at one moment between its request and its answer; a write  *)
(* whose client gave up may still take effect, once, later.                *)
(***************************************************************************)
EXTENDS Integers, Sequences

CONSTANTS Clients, Values, NoValue

VARIABLES
    log,     \* log[v]: the value of version v
    call,    \* call[c]: what client c is waiting for
    answer,  \* answer[c]: what its last call returned
    late     \* writes whose clients gave up

registerVars == <<log, call, answer, late>>

Write == [base: Nat, value: Values]
Call == [kind: {"idle", "read", "write", "written"}, base: Nat, value: Values \cup {NoValue}]
Answer == [kind: {"none", "value", "empty", "written", "conflict", "failed"},
           version: Nat, value: Values \cup {NoValue}]
NoCall == [kind |-> "idle", base |-> 0, value |-> NoValue]
NoAnswer == [kind |-> "none", version |-> 0, value |-> NoValue]

RegisterInit ==
    /\ log = <<>>
    /\ call = [c \in Clients |-> NoCall]
    /\ answer = [c \in Clients |-> NoAnswer]
    /\ late = {}

Begin(c, kind, base, value) ==
    /\ call[c].kind = "idle"
    /\ call' = [call EXCEPT ![c] = [kind |-> kind, base |-> base, value |-> value]]
    /\ answer' = [answer EXCEPT ![c] = NoAnswer]
    /\ UNCHANGED <<log, late>>

\* A read remembers the version current when it began: it may not return an
\* older one.
BeginRead(c) == Begin(c, "read", Len(log), NoValue)
BeginWrite(c, base, value) == Begin(c, "write", base, value)

\* The write of c takes effect, if the register is still at its base.
Install(c) ==
    /\ call[c].kind = "write"
    /\ call[c].base = Len(log)
    /\ log' = Append(log, call[c].value)
    /\ call' = [call EXCEPT ![c] = [kind |-> "written", base |-> Len(log'), value |-> @.value]]
    /\ UNCHANGED <<answer, late>>

InstallLate(w) ==
    /\ w.base = Len(log)
    /\ log' = Append(log, w.value)
    /\ late' \in {late, late \ {w}}
    /\ UNCHANGED <<call, answer>>

Return(c, kind, version, value) ==
    /\ answer' = [answer EXCEPT ![c] = [kind |-> kind, version |-> version, value |-> value]]
    /\ call' = [call EXCEPT ![c] = NoCall]
    /\ UNCHANGED log

ReturnValue(c, v) ==
    /\ call[c].kind = "read" /\ v >= call[c].base
    /\ Return(c, "value", v, log[v])
    /\ UNCHANGED late

ReturnEmpty(c) ==
    /\ call[c].kind = "read" /\ call[c].base = 0
    /\ Return(c, "empty", 0, NoValue)
    /\ UNCHANGED late

ReturnWritten(c) ==
    /\ call[c].kind = "written"
    /\ Return(c, "written", call[c].base, call[c].value)
    /\ UNCHANGED late

\* A refusal is honest: the register is not at the base, and names a version
\* it really has.
ReturnConflict(c, v) ==
    /\ call[c].kind = "write" /\ v # call[c].base /\ call[c].base # Len(log)
    /\ Return(c, "conflict", v, NoValue)
    /\ UNCHANGED late

\* A call may fail: a read returns nothing, and a write that is not installed
\* yet either never will be or becomes a late one.
Fail(c) ==
    /\ call[c].kind # "idle"
    /\ Return(c, "failed", 0, NoValue)
    /\ late' \in {late} \cup
         (IF call[c].kind # "write" THEN {}
          ELSE {late \cup {[base |-> call[c].base, value |-> call[c].value]}})

\* A late write may also never take effect.
DropLate ==
    /\ late' \in SUBSET late
    /\ UNCHANGED <<log, call, answer>>

RegisterNext ==
    \/ \E c \in Clients : \/ BeginRead(c)
                          \/ \E base \in 0..Len(log), value \in Values : BeginWrite(c, base, value)
                          \/ Install(c)
                          \/ \E v \in 1..Len(log) : ReturnValue(c, v)
                          \/ \E v \in 0..Len(log) : ReturnConflict(c, v)
                          \/ ReturnEmpty(c) \/ ReturnWritten(c) \/ Fail(c)
    \/ \E w \in late : InstallLate(w)
    \/ DropLate

RegisterSpec == RegisterInit /\ [][RegisterNext]_registerVars
=============================================================================
