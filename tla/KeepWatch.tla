----------------------------- MODULE KeepWatch -----------------------------
(***************************************************************************)
(* Keep Watch keeps a Mac awake with its lid closed.  The controller in    *)
(* the local server turns the mode on behind an administrator prompt and   *)
(* refreshes a heartbeat file while it wants it; a root helper, started by *)
(* launchd every 15 seconds, can only turn it off.  The turn-on command    *)
(* leaves a marker naming the heartbeat, which the helper removes when the *)
(* mode is off.                                                            *)
(*                                                                         *)
(* The controller's requests and timer ticks interleave at every await,    *)
(* with the root commands, the helper's steps, and the death and restart   *)
(* of the server.  A heartbeat grows old; the timer, the charger, the       *)
(* battery, the heat and the ceiling are a choice at each reading, which   *)
(* may also fail and then counts against the mode.                         *)
(***************************************************************************)
EXTENDS Naturals, Sequences, FiniteSets

CONSTANTS
    Calls,   \* bound: requests in progress at once
    Ticks    \* bound: timer ticks in progress at once

NoCall == "timer"

ASSUME KeepWatchAssumption ==
    /\ IsFiniteSet(Calls) /\ IsFiniteSet(Ticks)
    /\ NoCall \notin Calls

VARIABLES
    awake,     \* pmset's SleepDisabled
    marker,    \* the marker file exists
    helper,    \* the helper's launchd job is loaded
    run,       \* the helper's run, and whether the marker is still the file it read
    beat,      \* the heartbeat file: none, fresh, or older than 90 seconds
    alive,     \* the server runs
    state,     \* the controller's state
    busy,      \* the controller waits for a password
    call,      \* the requests the controller serves
    root,      \* what is left of the administrator command of each request
    tick,      \* the ticks in progress, and the forceOff that waits for one
    overtaken, \* history: the last turn-on and the removal of a marker overlapped
    unslept    \* history: a removal's pmset failed with the mode on

vars == <<awake, marker, helper, run, beat, alive, state, busy,
          call, root, tick, overtaken, unslept>>

Actions == {"on", "force_off", "remove_helper", "update_helper"}
IdleCall == [do |-> "on", pc |-> "idle"]
IdleRun == [pc |-> "idle", same |-> FALSE]
\* The marker is removed, or another file (of another inode or mtime) put there.
RunLosesMarker == run' = [run EXCEPT !.same = FALSE]
IdleTick == [pc |-> "idle", for |-> NoCall]

KeepWatchInit ==
    /\ awake = FALSE /\ marker = FALSE /\ helper = FALSE
    /\ run = IdleRun /\ beat = "none"
    /\ alive = TRUE /\ state = "off" /\ busy = FALSE
    /\ call = [c \in Calls |-> IdleCall]
    /\ root = [c \in Calls |-> <<>>]
    /\ tick = [t \in Ticks |-> IdleTick]
    /\ overtaken = FALSE /\ unslept = FALSE

machine == <<awake, marker, helper, run>>
histories == <<overtaken, unslept>>

-----------------------------------------------------------------------------
(* The controller's requests.                                              *)

\* beginTurningOff: the helper does the rest.
TurningOff == beat' = "none" /\ state' = "turning_off"

CallIs(c, do, pc) == alive /\ call[c].do = do /\ call[c].pc = pc
CallGoes(c, pc) == call' = [call EXCEPT ![c].pc = pc]
Ends(c) == call' = [call EXCEPT ![c] = IdleCall]

\* A request is let in by the state and busy of that moment ...
Ask(c, do) ==
    /\ alive /\ call[c].pc = "idle" /\ root[c] = <<>>
    /\ state = "off" /\ ~busy
    /\ call' = [call EXCEPT ![c] = [do |-> do, pc |-> "asked"]]
    /\ UNCHANGED <<machine, beat, alive, state, busy, root, tick, histories>>

AskOn(c) == Ask(c, "on")
AskUpdate(c) == Ask(c, "update_helper")

\* ... and refused after its readings, or for an unsigned build.
Refused(c) ==
    /\ alive /\ call[c].pc = "asked"
    /\ Ends(c)
    /\ UNCHANGED <<machine, beat, alive, state, busy, root, tick, histories>>

\* The steps of the root commands; whether the user typed the password shows
\* in whether the first step happens.
turnOnCommand(install) ==
    IF install THEN <<"install", "mark", "wake", "done">> ELSE <<"mark", "wake", "done">>
updateHelperCommand == <<"install", "done">>
FORCE_OFF_COMMAND == <<"sleep", "unmark", "done">>
REMOVE_HELPER_COMMAND == <<"sleep", "unmark", "unload", "done">>

Prompt(c, command) == root' = [root EXCEPT ![c] = command]

\* ... or sets busy and asks for the password, several awaits later.
CommandOn(c) ==
    /\ CallIs(c, "on", "asked")
    /\ busy' = TRUE /\ beat' = "fresh"
    /\ Prompt(c, turnOnCommand(~helper)) /\ CallGoes(c, "waiting")
    /\ UNCHANGED <<machine, alive, state, tick, histories>>

CommandUpdate(c) ==
    /\ CallIs(c, "update_helper", "asked")
    /\ busy' = TRUE
    /\ Prompt(c, updateHelperCommand) /\ CallGoes(c, "waiting")
    /\ UNCHANGED <<machine, beat, alive, state, tick, histories>>

CanInterrupt(c) == alive /\ call[c].pc = "idle" /\ root[c] = <<>> /\ ~busy

ForceOff(c) ==
    /\ CanInterrupt(c)
    /\ busy' = TRUE /\ TurningOff
    /\ Prompt(c, FORCE_OFF_COMMAND)
    /\ call' = [call EXCEPT ![c] = [do |-> "force_off", pc |-> "waiting"]]
    /\ UNCHANGED <<machine, alive, tick, histories>>

RemoveHelper(c) ==
    /\ CanInterrupt(c)
    /\ busy' = TRUE
    /\ IF state = "on" THEN TurningOff ELSE UNCHANGED <<beat, state>>
    /\ Prompt(c, REMOVE_HELPER_COMMAND)
    /\ call' = [call EXCEPT ![c] = [do |-> "remove_helper", pc |-> "waiting"]]
    /\ UNCHANGED <<machine, alive, tick, histories>>

TurnOff ==
    /\ alive /\ state = "on" /\ TurningOff
    /\ UNCHANGED <<machine, alive, busy, call, root, tick, histories>>

-----------------------------------------------------------------------------
(* The root commands, each step one program.                               *)

RootIs(c, step) == root[c] # <<>> /\ Head(root[c]) = step
RootGoesOn(c) == root' = [root EXCEPT ![c] = Tail(@)]

\* installLines end with a bootout, which kills a run, and a bootstrap.
RootInstalls(c) ==
    /\ RootIs(c, "install")
    /\ helper' = TRUE /\ run' = IdleRun
    /\ RootGoesOn(c)
    /\ UNCHANGED <<awake, marker, beat, alive, state, busy, call, tick, histories>>

\* A command that turned the mode off is about to remove the marker; a helper
\* that read the mode off is about to remove this one.
Unmarking == \E c \in Calls : RootIs(c, "unmark")
HelperUnmarking == run.pc \in {"stat", "rm"} /\ run.same
\* A turn-on has written its marker and not yet turned the mode on.
Waking == \E c \in Calls : RootIs(c, "wake")

\* mv of a new file over the marker, and only then disablesleep 1.
RootMarks(c) ==
    /\ RootIs(c, "mark")
    /\ marker' = TRUE /\ RunLosesMarker
    /\ overtaken' = (Unmarking \/ run.pc = "rm")
    /\ unslept' = FALSE
    /\ RootGoesOn(c)
    /\ UNCHANGED <<awake, helper, beat, alive, state, busy, call, tick>>

RootWakes(c) ==
    /\ RootIs(c, "wake")
    /\ awake' = TRUE
    /\ overtaken' = (overtaken \/ Unmarking \/ HelperUnmarking)
    /\ RootGoesOn(c)
    /\ UNCHANGED <<marker, helper, run, beat, alive, state, busy, call, tick, unslept>>

\* FORCE_OFF_COMMAND and REMOVE_HELPER_COMMAND.
RootSleeps(c) ==
    /\ RootIs(c, "sleep")
    /\ awake' = FALSE
    /\ overtaken' = (overtaken /\ (Waking \/ run.pc = "rm"))
    /\ unslept' = FALSE
    /\ RootGoesOn(c)
    /\ UNCHANGED <<marker, helper, run, beat, alive, state, busy, call, tick>>

RootUnmarks(c) ==
    /\ RootIs(c, "unmark")
    /\ marker' = FALSE /\ RunLosesMarker
    /\ overtaken' = (overtaken \/ Waking)
    /\ RootGoesOn(c)
    /\ UNCHANGED <<awake, helper, beat, alive, state, busy, call, tick, unslept>>

\* REMOVE_HELPER_COMMAND has no set -e: it goes on after a pmset that failed.
RootSleepFails(c) ==
    /\ root[c] = REMOVE_HELPER_COMMAND
    /\ unslept' = (unslept \/ awake)
    /\ RootGoesOn(c)
    /\ UNCHANGED <<machine, beat, alive, state, busy, call, tick, overtaken>>

RootUnloads(c) ==
    /\ RootIs(c, "unload")
    /\ helper' = FALSE /\ run' = IdleRun
    /\ RootGoesOn(c)
    /\ UNCHANGED <<awake, marker, beat, alive, state, busy, call, tick, histories>>

\* A command that nobody waits for any more ends, or its prompt is cancelled.
RootVanishes(c) ==
    /\ root[c] # <<>>
    /\ ~alive \/ call[c].pc = "idle"
    /\ root' = [root EXCEPT ![c] = <<>>]
    /\ UNCHANGED <<machine, beat, alive, state, busy, call, tick, histories>>

-----------------------------------------------------------------------------
(* The answers of the root commands.                                       *)

Waits(c) == alive /\ call[c].pc = "waiting"

\* The command ended well.
Done(c) ==
    /\ Waits(c) /\ RootIs(c, "done")
    /\ RootGoesOn(c)

\* The prompt was cancelled, or a step of a command with set -e failed, which
\* ends it; or osascript was killed after five minutes, and its command may go on.
Failed(c) ==
    /\ Waits(c) /\ root[c] # <<>> /\ ~RootIs(c, "done")
    /\ root' \in {root, [root EXCEPT ![c] = <<>>]}

\* The mode is read back before it is believed, and is believed a moment later.
OnDone(c) ==
    /\ call[c].do = "on" /\ Done(c) /\ awake
    /\ CallGoes(c, "confirmed")
    /\ UNCHANGED <<machine, beat, alive, state, busy, tick, histories>>

NotTurnedOn(c) ==
    /\ call[c].do = "on" /\ Done(c)
    /\ TurningOff /\ busy' = FALSE /\ Ends(c)
    /\ UNCHANGED <<machine, alive, tick, histories>>

OnFailed(c) ==
    /\ call[c].do = "on" /\ Failed(c)
    /\ beat' = "none" /\ busy' = FALSE /\ Ends(c)
    /\ UNCHANGED <<machine, alive, state, tick, histories>>

TurnedOn(c) ==
    /\ CallIs(c, "on", "confirmed")
    /\ state' = "on" /\ beat' = "fresh" /\ busy' = FALSE /\ Ends(c)
    /\ UNCHANGED <<machine, alive, root, tick, histories>>

UpdateReturns(c) ==
    /\ call[c].do = "update_helper" /\ (Done(c) \/ Failed(c))
    /\ busy' = FALSE /\ Ends(c)
    /\ UNCHANGED <<machine, beat, alive, state, tick, histories>>

\* Its exit status is that of its last rm alone, whatever became of the mode.
RemoveReturns(c) ==
    /\ call[c].do = "remove_helper"
    /\ \/ Done(c) /\ state' \in {"off", state}
       \/ Failed(c) /\ UNCHANGED state
    /\ busy' = FALSE /\ Ends(c)
    /\ UNCHANGED <<machine, beat, alive, tick, histories>>

-----------------------------------------------------------------------------
(* The ticks of the controller.                                            *)

TickIs(t, pc) == alive /\ tick[t].pc = pc
TickEnds(t) == tick' = [tick EXCEPT ![t] = IdleTick]
TickGoes(t, pc, c) == tick' = [tick EXCEPT ![t] = [pc |-> pc, for |-> c]]

\* After the part for "on" comes the part for "turning_off".
GoesOn(t, c, s) == IF s = "turning_off" THEN TickGoes(t, "verify", c) ELSE TickEnds(t)

\* A tick, up to its first await.
Tick(t, c) ==
    /\ TickIs(t, "idle")
    /\ \/ state = "on" /\ beat' = "fresh" /\ TickGoes(t, "readings", c)
       \/ state # "on" /\ UNCHANGED beat /\ GoesOn(t, c, state)

TickFires(t) ==
    /\ state # "off" /\ Tick(t, NoCall)
    /\ UNCHANGED <<machine, alive, state, busy, call, root, histories>>

\* forceOff ends with a tick of its own, whatever the command answered.
ForceReturns(c) ==
    /\ call[c].do = "force_off" /\ (Done(c) \/ Failed(c))
    /\ CallGoes(c, "ticking")
    /\ \E t \in Ticks : Tick(t, c)
    /\ UNCHANGED <<machine, alive, state, busy, histories>>

ForceEnds(c) ==
    /\ CallIs(c, "force_off", "ticking") /\ \A t \in Ticks : tick[t].for # c
    /\ busy' = FALSE /\ Ends(c)
    /\ UNCHANGED <<machine, beat, alive, state, root, tick, histories>>

\* The readings may fail, which counts as a reason to turn off.
TickTurnsOff(t) ==
    /\ TickIs(t, "readings")
    /\ TurningOff /\ TickGoes(t, "verify", tick[t].for)
    /\ UNCHANGED <<machine, alive, busy, call, root, histories>>

\* Nothing is against the mode, and helper and marker are there; or one of them
\* is missing, or launchctl gives no answer ...
TickStaysOn(t) ==
    /\ TickIs(t, "readings")
    /\ \/ helper /\ marker /\ GoesOn(t, tick[t].for, state)
       \/ TickGoes(t, "alone", tick[t].for)
    /\ UNCHANGED <<machine, beat, alive, state, busy, call, root, histories>>

\* ... and the mode may be off already; it is not believed off when pmset gives
\* no answer.
TickAlone(t) ==
    /\ TickIs(t, "alone")
    /\ \/ ~awake /\ TickGoes(t, "found_off", tick[t].for)
       \/ GoesOn(t, tick[t].for, state)
    /\ UNCHANGED <<machine, beat, alive, state, busy, call, root, histories>>

TickFinds(t) ==
    /\ TickIs(t, "found_off") /\ TickEnds(t)
    /\ beat' = "none" /\ state' = "off"
    /\ UNCHANGED <<machine, alive, busy, call, root, histories>>

TickVerifies(t) ==
    /\ TickIs(t, "verify")
    /\ TickEnds(t) \/ (~awake /\ TickGoes(t, "verified_off", tick[t].for))
    /\ UNCHANGED <<machine, beat, alive, state, busy, call, root, histories>>

TickSettles(t) ==
    /\ TickIs(t, "verified_off") /\ TickEnds(t)
    /\ state' = "off"
    /\ UNCHANGED <<machine, beat, alive, busy, call, root, histories>>

-----------------------------------------------------------------------------
(* The helper.                                                             *)

RunIs(pc) == run.pc = pc
RunGoes(pc) == run' = [run EXCEPT !.pc = pc]

\* Any reading that is not well-formed and passing turns the mode off; the
\* readings may also fail, time out, or find the Mac unfit.
HelperDecides ==
    /\ helper /\ RunIs("idle") /\ marker
    /\ run' = [pc |-> "off", same |-> TRUE]
    /\ UNCHANGED <<awake, marker, helper, beat, alive, state, busy, call, root, tick, histories>>

\* As HelperFindsStale, but a missing heartbeat is no reason.
HelperFindsOld == beat = "stale" /\ HelperDecides

\* The heartbeat is missing or more than 90 seconds old.
HelperFindsStale == beat # "fresh" /\ HelperDecides

HelperSleeps ==
    /\ RunIs("off")
    /\ awake' = FALSE /\ RunGoes("read")
    /\ overtaken' = (overtaken /\ Waking) /\ unslept' = FALSE
    /\ UNCHANGED <<marker, helper, beat, alive, state, busy, call, root, tick>>

\* pmset failed, or hung and its alarm killed it.
HelperTimesOut ==
    /\ RunIs("off") /\ RunGoes("read")
    /\ UNCHANGED <<awake, marker, helper, beat, alive, state, busy, call, root, tick, histories>>

\* The marker goes only when the mode reads off and the marker is the file
\* this run started from.
HelperReads ==
    /\ RunIs("read")
    /\ IF awake THEN run' = IdleRun ELSE RunGoes("stat")
    /\ UNCHANGED <<awake, marker, helper, beat, alive, state, busy, call, root, tick, histories>>

\* As HelperStats, for whatever marker is there.
HelperStatsAny ==
    /\ RunIs("stat")
    /\ IF marker THEN RunGoes("rm") ELSE run' = IdleRun
    /\ UNCHANGED <<awake, marker, helper, beat, alive, state, busy, call, root, tick, histories>>

HelperStats ==
    /\ RunIs("stat")
    /\ IF run.same THEN RunGoes("rm") ELSE run' = IdleRun
    /\ UNCHANGED <<awake, marker, helper, beat, alive, state, busy, call, root, tick, histories>>

HelperUnmarks ==
    /\ run.pc = "rm"
    /\ marker' = FALSE /\ run' = IdleRun
    /\ overtaken' = (overtaken \/ Waking)
    /\ UNCHANGED <<awake, helper, beat, alive, state, busy, call, root, tick, unslept>>

-----------------------------------------------------------------------------
(* The world around them.                                                  *)

BeatAges ==
    /\ beat = "fresh" /\ beat' = "stale"
    /\ UNCHANGED <<machine, alive, state, busy, call, root, tick, histories>>

\* The user switches the helper off or on in Login Items (where a missing one
\* cannot be switched on: it then stands for a disabled one).
LoginItems ==
    /\ helper' = ~helper
    /\ run' = IdleRun
    /\ UNCHANGED <<awake, marker, beat, alive, state, busy, call, root, tick, histories>>

\* The server stops (removing the heartbeat) or dies.
ServerEnds ==
    /\ alive /\ alive' = FALSE
    /\ beat' \in {beat, "none"}
    /\ state' = "off" /\ busy' = FALSE
    /\ call' = [c \in Calls |-> IdleCall]
    /\ tick' = [t \in Ticks |-> IdleTick]
    /\ UNCHANGED <<machine, root, histories>>

\* start: a heartbeat left by an earlier run is deleted.
ServerStarts ==
    /\ ~alive /\ alive' = TRUE
    /\ beat' = "none"
    /\ state' = IF beat # "none" /\ marker THEN "turning_off" ELSE "off"
    /\ UNCHANGED <<machine, busy, call, root, tick, histories>>

-----------------------------------------------------------------------------
RequestStep(c) ==
    \/ AskOn(c) \/ AskUpdate(c) \/ Refused(c) \/ CommandOn(c) \/ CommandUpdate(c)
    \/ ForceOff(c) \/ RemoveHelper(c)
AnswerStep(c) ==
    \/ OnDone(c) \/ OnFailed(c) \/ TurnedOn(c) \/ NotTurnedOn(c)
    \/ UpdateReturns(c) \/ RemoveReturns(c) \/ ForceReturns(c) \/ ForceEnds(c)
RootStep(c) ==
    \/ RootInstalls(c) \/ RootMarks(c) \/ RootWakes(c)
    \/ RootSleeps(c) \/ RootUnmarks(c) \/ RootUnloads(c) \/ RootSleepFails(c)
TickStep(t) ==
    \/ TickTurnsOff(t) \/ TickStaysOn(t) \/ TickAlone(t) \/ TickFinds(t)
    \/ TickVerifies(t) \/ TickSettles(t)
HelperStep ==
    HelperFindsStale \/ HelperReads \/ HelperStats \/ HelperUnmarks
WorldStep == BeatAges \/ LoginItems \/ ServerEnds \/ ServerStarts

KeepWatchNext ==
    \/ \E c \in Calls : RequestStep(c) \/ AnswerStep(c) \/ RootStep(c) \/ RootVanishes(c)
    \/ \E t \in Ticks : TickFires(t) \/ TickStep(t)
    \/ HelperStep \/ HelperDecides \/ HelperSleeps \/ HelperTimesOut
    \/ TurnOff \/ WorldStep

\* launchd starts the helper every 15 seconds and its steps are bounded by
\* alarms; pmset answers in time again and again; a heartbeat nobody touches
\* grows old.  Nothing is assumed of the controller, which may be dead.
KeepWatchFairness ==
    /\ WF_vars(HelperStep) /\ SF_vars(HelperSleeps)
    /\ WF_vars(BeatAges)

KeepWatchSpec == KeepWatchInit /\ [][KeepWatchNext]_vars /\ KeepWatchFairness

-----------------------------------------------------------------------------
(* Properties.                                                             *)

KeepWatchTypeOK ==
    /\ {awake, helper, alive, busy, overtaken, unslept} \subseteq BOOLEAN
    /\ marker \in BOOLEAN
    /\ run \in [pc : {"idle", "off", "read", "stat", "rm"}, same : BOOLEAN]
    /\ beat \in {"none", "fresh", "stale"}
    /\ state \in {"off", "on", "turning_off"}
    /\ call \in [Calls -> [do : Actions, pc : {"idle", "asked", "waiting", "confirmed",
                                               "ticking"}]]
    /\ root \in [Calls -> Seq({"install", "mark", "wake", "sleep",
                               "unmark", "unload", "done"})]
    /\ tick \in [Ticks -> [pc : {"idle", "readings", "alone", "found_off", "verify", "verified_off"},
                           for : Calls \cup {NoCall}]]

\* The mode is on only while a marker tells the helper of it, whatever prompts,
\* removals, helper runs, failures and deaths interleave.  Excepted are a turn-on
\* that overlapped a removal (its marker or its disablesleep came between the
\* removal's look at the mode and its rm, or the rm between those two), and a
\* REMOVE_HELPER_COMMAND that went on to its rm after its pmset failed; both only
\* until the mode is next turned off or marked.
AwakeIsMarked == awake => marker \/ overtaken \/ unslept

KeepWatchInv == KeepWatchTypeOK /\ AwakeIsMarked

\* "The root helper ... does so whenever this server stops refreshing the
\* heartbeat": a mode that is on while no controller says "on" (it is turning
\* off, lost a race, restarted or died, or a prompt was answered after its
\* request ended) goes off, while a helper is loaded that can see the marker and
\* nobody is at a prompt.
UnwantedWakeEnds ==
    (awake /\ state # "on") ~> (~awake \/ state = "on" \/ busy \/ ~helper \/ ~marker)
=============================================================================
