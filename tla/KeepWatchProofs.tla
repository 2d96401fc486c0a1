-------------------------- MODULE KeepWatchProofs --------------------------
(***************************************************************************)
(* For any number of requests and ticks: the types of KeepWatch, and that  *)
(* the mode is never on without a marker unless its turn-on overlapped a   *)
(* removal, or a removal's failed pmset left it on.                        *)
(*                                                                         *)
(* AwakeIsMarked is not inductive.  A step that removes the marker keeps it *)
(* because a removal only gets there with the mode off (UnmarkingIsAsleep, *)
(* HelperUnmarksAsleep), and disablesleep 1 keeps it because its own       *)
(* marker is still there (WakingIsMarked).  What turns the mode off, or    *)
(* leaves a new marker, may forget an exception only because no turn-on    *)
(* and no removal it excuses is under way any more.                        *)
(***************************************************************************)
EXTENDS KeepWatch, TLAPS

\* What can be left of a root command.
Remains ==
    {<<>>, <<"done">>, <<"install", "done">>,
     <<"wake", "done">>, <<"mark", "wake", "done">>, <<"install", "mark", "wake", "done">>,
     <<"unmark", "done">>, <<"sleep", "unmark", "done">>,
     <<"unload", "done">>, <<"unmark", "unload", "done">>,
     <<"sleep", "unmark", "unload", "done">>}

RootOK == root \in [Calls -> Remains]

\* A turn-on about to turn the mode on still has its marker.
WakingIsMarked == overtaken \/ (Waking => marker)

\* A command about to remove the marker finds the mode off, unless its pmset
\* failed.
UnmarkingIsAsleep == overtaken \/ unslept \/ (Unmarking => ~awake)

\* A helper about to remove the marker holds this one, and the mode is off.
HelperUnmarksAsleep ==
    /\ run.same => marker
    /\ overtaken \/ (HelperUnmarking => ~awake)
    /\ overtaken \/ (run.pc = "rm" => (marker => run.same) /\ ~awake)

\* The remains of a command, one step on.
LEMMA RemainsShrink ==
    ASSUME NEW r \in Remains, r # <<>>
    PROVE  /\ Tail(r) \in Remains
           /\ Tail(r) # <<>> => /\ Head(Tail(r)) = "wake" => Head(r) = "mark"
                                /\ Head(Tail(r)) = "unmark" => Head(r) = "sleep"
<1> DEFINE Fact(s) ==
        /\ Tail(s) \in Remains
        /\ Tail(s) # <<>> => /\ Head(Tail(s)) = "wake" => Head(s) = "mark"
                             /\ Head(Tail(s)) = "unmark" => Head(s) = "sleep"
<1>1. Fact(<<"done">>)
  BY DEF Remains
<1>2. Fact(<<"install", "done">>)
  BY DEF Remains
<1>3. Fact(<<"wake", "done">>) /\ Fact(<<"mark", "wake", "done">>)
  BY DEF Remains
<1>4. Fact(<<"install", "mark", "wake", "done">>)
  BY DEF Remains
<1>5. Fact(<<"unmark", "done">>) /\ Fact(<<"sleep", "unmark", "done">>)
  BY DEF Remains
<1>6. Fact(<<"unload", "done">>) /\ Fact(<<"unmark", "unload", "done">>)
  BY DEF Remains
<1>7. Fact(<<"sleep", "unmark", "unload", "done">>)
  BY DEF Remains
<1> HIDE DEF Fact
<1>8. Fact(r)
  BY <1>1, <1>2, <1>3, <1>4, <1>5, <1>6, <1>7 DEF Remains
<1> QED BY <1>8 DEF Fact

\* A step of one root command: what it leaves, and which heads can be new.
LEMMA RootSteps ==
    ASSUME RootOK, NEW c \in Calls, root[c] # <<>>, RootGoesOn(c)
    PROVE  /\ RootOK'
           /\ Waking' => Waking \/ RootIs(c, "mark")
           /\ Unmarking' => Unmarking \/ RootIs(c, "sleep")
<1>1. root[c] \in Remains /\ Tail(root[c]) \in Remains
  BY RemainsShrink DEF RootOK
<1>2. RootOK'
  BY <1>1 DEF RootOK, RootGoesOn
<1>3. \A d \in Calls : root'[d] = IF d = c THEN Tail(root[c]) ELSE root[d]
  BY DEF RootOK, RootGoesOn
<1>4. Waking' => Waking \/ RootIs(c, "mark")
  BY <1>1, <1>3, RemainsShrink DEF Waking, RootIs
<1>5. Unmarking' => Unmarking \/ RootIs(c, "sleep")
  BY <1>1, <1>3, RemainsShrink DEF Unmarking, RootIs
<1> QED BY <1>2, <1>4, <1>5

\* A command given, cancelled or forgotten: no new head to fear.
Fresh == {<<>>, turnOnCommand(TRUE), turnOnCommand(FALSE), updateHelperCommand,
          FORCE_OFF_COMMAND, REMOVE_HELPER_COMMAND}

LEMMA RootGiven ==
    ASSUME RootOK, NEW c \in Calls, NEW r \in Fresh, Prompt(c, r)
    PROVE  /\ RootOK'
           /\ Waking' => Waking
           /\ Unmarking' => Unmarking
<1>1. /\ r \in Remains
      /\ r # <<>> => Head(r) # "wake" /\ Head(r) # "unmark"
  BY DEF Fresh, Remains, turnOnCommand, updateHelperCommand, FORCE_OFF_COMMAND,
         REMOVE_HELPER_COMMAND
<1>2. \A d \in Calls : root'[d] = IF d = c THEN r ELSE root[d]
  BY DEF RootOK, Prompt
<1>3. RootOK'
  BY <1>1 DEF RootOK, Prompt
<1>4. (Waking' => Waking) /\ (Unmarking' => Unmarking)
  BY <1>1, <1>2 DEF Waking, Unmarking, RootIs
<1> QED BY <1>3, <1>4

\* The remains of a command are well typed.
LEMMA RootTyped ==
    RootOK => root \in [Calls -> Seq({"install", "mark", "wake", "sleep",
                                     "unmark", "unload", "done"})]
<1>1. Remains \subseteq Seq({"install", "mark", "wake", "sleep", "unmark", "unload", "done"})
  BY DEF Remains
<1> QED BY <1>1 DEF RootOK

\* The part of the invariant that is not about types.
Safe == AwakeIsMarked /\ WakingIsMarked /\ UnmarkingIsAsleep /\ HelperUnmarksAsleep

\* A step that leaves the machine alone and starts no wake and no unmark.
LEMMA Elsewhere ==
    ASSUME Safe, UNCHANGED <<awake, marker, run, histories>>,
           Waking' => Waking, Unmarking' => Unmarking
    PROVE  Safe'
BY DEF Safe, AwakeIsMarked, WakingIsMarked, UnmarkingIsAsleep, HelperUnmarksAsleep,
       HelperUnmarking, histories

\* The types of everything but root.
TypeRest ==
    /\ {awake, helper, alive, busy, overtaken, unslept} \subseteq BOOLEAN
    /\ marker \in BOOLEAN
    /\ run \in [pc : {"idle", "off", "read", "stat", "rm"}, same : BOOLEAN]
    /\ beat \in {"none", "fresh", "stale"}
    /\ state \in {"off", "on", "turning_off"}
    /\ call \in [Calls -> [do : Actions, pc : {"idle", "asked", "waiting", "confirmed",
                                               "ticking"}]]
    /\ tick \in [Ticks -> [pc : {"idle", "readings", "alone", "found_off", "verify", "verified_off"},
                           for : Calls \cup {NoCall}]]

\* The initial states.
LEMMA InitHolds == KeepWatchInit => TypeRest /\ RootOK /\ Safe
<1> SUFFICES ASSUME KeepWatchInit PROVE TypeRest /\ RootOK /\ Safe
  OBVIOUS
<1>1. TypeRest
  BY DEF KeepWatchInit, TypeRest, IdleCall, IdleRun, IdleTick, Actions
<1>2. RootOK
  BY DEF KeepWatchInit, RootOK, Remains
<1>3. ~Waking /\ ~Unmarking
  BY DEF KeepWatchInit, Waking, Unmarking, RootIs
<1>4. Safe
  BY <1>3 DEF KeepWatchInit, IdleRun, Safe, AwakeIsMarked, WakingIsMarked,
              UnmarkingIsAsleep, HelperUnmarksAsleep, HelperUnmarking, histories
<1> QED BY <1>1, <1>2, <1>4

\* What a step that leaves the machine alone has to show.
Harmless ==
    /\ UNCHANGED <<awake, marker, run, histories>>
    /\ TypeRest' /\ RootOK'
    /\ Waking' => Waking
    /\ Unmarking' => Unmarking

LEMMA RootSame ==
    ASSUME RootOK, UNCHANGED root
    PROVE  RootOK' /\ (Waking' => Waking) /\ (Unmarking' => Unmarking)
BY DEF RootOK, Waking, Unmarking, RootIs

\* The controller's requests.
LEMMA RequestHarmless ==
    ASSUME TypeRest, RootOK, NEW c \in Calls, RequestStep(c) PROVE Harmless
<1>1. CASE AskOn(c) \/ AskUpdate(c) \/ Refused(c)
  <2>1. UNCHANGED <<machine, root, histories>> /\ TypeRest'
    BY <1>1 DEF AskOn, AskUpdate, Ask, Refused, Ends, IdleCall, Actions, TypeRest, machine, histories
  <2> QED BY <2>1, RootSame DEF Harmless, machine, histories
<1>2. CASE CommandOn(c)
  <2>1. UNCHANGED <<machine, histories>> /\ TypeRest'
    BY <1>2 DEF CommandOn, CallIs, CallGoes, TypeRest, machine, histories
  <2>2. \E r \in Fresh : Prompt(c, r)
    BY <1>2 DEF CommandOn, Fresh, TypeRest, turnOnCommand
  <2> QED BY <2>1, <2>2, RootGiven DEF Harmless, machine, histories
<1>3. CASE CommandUpdate(c)
  <2>1. UNCHANGED <<machine, histories>> /\ TypeRest'
    BY <1>3 DEF CommandUpdate, CallIs, CallGoes, TypeRest, machine, histories
  <2>2. \E r \in Fresh : Prompt(c, r)
    BY <1>3 DEF CommandUpdate, Fresh
  <2> QED BY <2>1, <2>2, RootGiven DEF Harmless, machine, histories
<1>4. CASE ForceOff(c)
  <2>1. UNCHANGED <<machine, histories>> /\ TypeRest'
    BY <1>4 DEF ForceOff, TurningOff, Actions, TypeRest, machine, histories
  <2>2. \E r \in Fresh : Prompt(c, r)
    BY <1>4 DEF ForceOff, Fresh
  <2> QED BY <2>1, <2>2, RootGiven DEF Harmless, machine, histories
<1>5. CASE RemoveHelper(c)
  <2>1. UNCHANGED <<machine, histories>> /\ TypeRest'
    <3>1. beat' \in {"none", "fresh", "stale"} /\ state' \in {"off", "on", "turning_off"}
      BY <1>5 DEF RemoveHelper, TurningOff, TypeRest
    <3> QED BY <1>5, <3>1 DEF RemoveHelper, Actions, TypeRest, machine, histories
  <2>2. \E r \in Fresh : Prompt(c, r)
    BY <1>5 DEF RemoveHelper, Fresh
  <2> QED BY <2>1, <2>2, RootGiven DEF Harmless, machine, histories
<1> QED BY <1>1, <1>2, <1>3, <1>4, <1>5 DEF RequestStep

\* An answer takes the end of a command or forgets the command.
LEMMA AnswerRoot ==
    ASSUME RootOK, NEW c \in Calls, Done(c) \/ Failed(c)
    PROVE  RootOK' /\ (Waking' => Waking) /\ (Unmarking' => Unmarking)
<1>1. CASE Done(c)
  <2>1. RootGoesOn(c) /\ root[c] # <<>> /\ ~RootIs(c, "mark") /\ ~RootIs(c, "sleep")
    BY <1>1 DEF Done, RootIs
  <2> QED BY <2>1, RootSteps
<1>2. CASE Failed(c) /\ root' = root
  BY <1>2, RootSame
<1>3. CASE Failed(c) /\ root' = [root EXCEPT ![c] = <<>>]
  <2>1. Prompt(c, <<>>) /\ <<>> \in Fresh
    BY <1>3 DEF Prompt, Fresh
  <2> QED BY <2>1, RootGiven
<1> QED BY <1>1, <1>2, <1>3 DEF Failed

\* The answers of the root commands.
LEMMA AnswerHarmless ==
    ASSUME TypeRest, RootOK, NEW c \in Calls, AnswerStep(c) PROVE Harmless
<1> DEFINE CallTypeOK == call \in [Calls -> [do : Actions, pc : {"idle", "asked", "waiting",
                                                               "confirmed", "ticking"}]]
<1>E. Ends(c) => CallTypeOK'
  BY DEF Ends, IdleCall, Actions, TypeRest
<1>1. CASE OnDone(c) \/ NotTurnedOn(c) \/ OnFailed(c) \/ UpdateReturns(c) \/ RemoveReturns(c)
  <2>1. UNCHANGED <<machine, histories, alive, tick>> /\ (Done(c) \/ Failed(c))
    BY <1>1 DEF OnDone, NotTurnedOn, OnFailed, UpdateReturns, RemoveReturns
  <2>2. CallTypeOK'
    BY <1>1, <1>E DEF OnDone, NotTurnedOn, OnFailed, UpdateReturns, RemoveReturns,
                      CallGoes, TypeRest
  <2>3. /\ beat' \in {"none", "fresh", "stale"} /\ state' \in {"off", "on", "turning_off"}
        /\ busy' \in {busy, FALSE}
    BY <1>1 DEF OnDone, NotTurnedOn, OnFailed, UpdateReturns, RemoveReturns, TurningOff,
                TypeRest
  <2>4. TypeRest'
    BY <2>1, <2>2, <2>3 DEF TypeRest, machine, histories
  <2> QED BY <2>1, <2>4, AnswerRoot DEF Harmless, machine, histories
<1>2. CASE TurnedOn(c) \/ ForceEnds(c)
  <2>1. UNCHANGED <<machine, root, histories, alive, tick>>
    BY <1>2 DEF TurnedOn, ForceEnds
  <2>2. /\ beat' \in {"none", "fresh", "stale"} /\ state' \in {"off", "on", "turning_off"}
        /\ busy' = FALSE /\ CallTypeOK'
    BY <1>2, <1>E DEF TurnedOn, ForceEnds, TypeRest
  <2>3. TypeRest'
    BY <2>1, <2>2 DEF TypeRest, machine, histories
  <2> QED BY <2>1, <2>3, RootSame DEF Harmless, machine, histories
<1>3. CASE ForceReturns(c)
  <2>1. PICK t \in Ticks : Tick(t, c)
    BY <1>3 DEF ForceReturns
  <2>2. UNCHANGED <<machine, histories, alive, state, busy>> /\ (Done(c) \/ Failed(c))
    BY <1>3 DEF ForceReturns
  <2>3. beat' \in {"none", "fresh", "stale"}
    BY <2>1 DEF Tick, TypeRest
  <2>4. tick' \in [Ticks -> [pc : {"idle", "readings", "alone", "found_off", "verify", "verified_off"},
                           for : Calls \cup {NoCall}]]
    BY <2>1 DEF Tick, GoesOn, TickGoes, TickEnds, IdleTick, TypeRest
  <2>5. call' \in [Calls -> [do : Actions, pc : {"idle", "asked", "waiting", "confirmed",
                                               "ticking"}]]
    BY <1>3 DEF ForceReturns, CallGoes, TypeRest
  <2>6. TypeRest'
    BY <2>2, <2>3, <2>4, <2>5 DEF TypeRest, machine, histories
  <2> QED BY <2>2, <2>6, AnswerRoot DEF Harmless, machine, histories
<1> QED BY <1>1, <1>2, <1>3 DEF AnswerStep

\* The ticks.
LEMMA TickHarmless ==
    ASSUME TypeRest, RootOK, NEW t \in Ticks, TickFires(t) \/ TickStep(t) PROVE Harmless
<1>1. UNCHANGED <<machine, root, histories, alive, busy, call>>
  BY DEF TickFires, TickStep, TickTurnsOff, TickStaysOn, TickAlone, TickFinds, TickVerifies, TickSettles
<1>2. beat' \in {"none", "fresh", "stale"} /\ state' \in {"off", "on", "turning_off"}
  BY DEF TickFires, Tick, TickStep, TickTurnsOff, TickStaysOn, TickAlone, TickFinds, TickVerifies,
         TickSettles, TurningOff, TypeRest
<1>3. tick' \in [Ticks -> [pc : {"idle", "readings", "alone", "found_off", "verify", "verified_off"},
                           for : Calls \cup {NoCall}]]
  BY DEF TickFires, Tick, GoesOn, TickGoes, TickEnds, IdleTick, TickStep, TickTurnsOff,
         TickStaysOn, TickAlone, TickFinds, TickVerifies, TickSettles, TypeRest
<1>4. TypeRest'
  BY <1>1, <1>2, <1>3 DEF TypeRest, machine, histories
<1> QED BY <1>1, <1>4, RootSame DEF Harmless, machine, histories

\* The world.
LEMMA WorldSafe ==
    ASSUME TypeRest, RootOK, Safe, TurnOff \/ WorldStep PROVE TypeRest' /\ RootOK' /\ Safe'
<1>1. UNCHANGED <<awake, marker, histories, root>>
  BY DEF TurnOff, WorldStep, BeatAges, LoginItems, ServerEnds, ServerStarts, machine
<1>2. CASE TurnOff \/ BeatAges
  <2>1. UNCHANGED run /\ TypeRest'
    BY <1>2 DEF TurnOff, BeatAges, TurningOff, TypeRest, machine, histories
  <2> QED BY <1>1, <2>1, RootSame, Elsewhere
<1>3. CASE LoginItems
  <2>1. run' = IdleRun /\ TypeRest'
    BY <1>3 DEF LoginItems, IdleRun, TypeRest, histories
  <2>2. Safe'
    BY <1>1, <2>1, RootSame DEF IdleRun, Safe, AwakeIsMarked, WakingIsMarked,
       UnmarkingIsAsleep, HelperUnmarksAsleep, HelperUnmarking, histories
  <2> QED BY <1>1, <2>1, <2>2, RootSame
<1>4. CASE ServerEnds
  <2>1. UNCHANGED run /\ TypeRest'
    BY <1>4 DEF ServerEnds, IdleCall, IdleTick, Actions, TypeRest, machine, histories
  <2> QED BY <1>1, <2>1, RootSame, Elsewhere
<1>5. CASE ServerStarts
  <2>1. UNCHANGED run /\ TypeRest'
    BY <1>5 DEF ServerStarts, TypeRest, machine, histories
  <2> QED BY <1>1, <2>1, RootSame, Elsewhere
<1> QED BY <1>2, <1>3, <1>4, <1>5 DEF WorldStep

\* The root commands.
LEMMA RootSafe ==
    ASSUME TypeRest, RootOK, Safe, NEW c \in Calls, RootStep(c) \/ RootVanishes(c)
    PROVE  TypeRest' /\ RootOK' /\ Safe'
<1> USE DEF Safe, AwakeIsMarked, WakingIsMarked, UnmarkingIsAsleep, HelperUnmarksAsleep,
            HelperUnmarking, histories
<1>1. CASE RootInstalls(c) \/ RootUnloads(c)
  <2>1. /\ UNCHANGED <<awake, marker, histories>> /\ run' = IdleRun
        /\ RootGoesOn(c) /\ root[c] # <<>> /\ ~RootIs(c, "mark") /\ ~RootIs(c, "sleep")
    BY <1>1 DEF RootInstalls, RootUnloads, RootIs
  <2>2. helper' \in BOOLEAN /\ UNCHANGED <<beat, alive, state, busy, call, tick>>
    BY <1>1 DEF RootInstalls, RootUnloads
  <2>3. TypeRest'
    BY <2>1, <2>2 DEF IdleRun, TypeRest
  <2>4. RootOK' /\ (Waking' => Waking) /\ (Unmarking' => Unmarking)
    BY <2>1, RootSteps
  <2>5. Safe'
    BY <2>1, <2>4 DEF IdleRun
  <2> QED BY <2>3, <2>4, <2>5
<1>2. CASE RootMarks(c)
  <2>1. /\ UNCHANGED awake /\ marker' = TRUE /\ run' = [run EXCEPT !.same = FALSE]
        /\ overtaken' = (Unmarking \/ run.pc = "rm")
        /\ RootGoesOn(c) /\ root[c] # <<>> /\ ~RootIs(c, "sleep")
    BY <1>2 DEF RootMarks, RootIs, RunLosesMarker
  <2>2. TypeRest' /\ run'.pc = run.pc /\ ~run'.same
    BY <1>2 DEF RootMarks, RunLosesMarker, TypeRest
  <2>3. RootOK' /\ (Unmarking' => Unmarking)
    BY <2>1, RootSteps
  <2>4. Safe'
    BY <2>1, <2>2, <2>3
  <2> QED BY <2>2, <2>3, <2>4
<1>3. CASE RootWakes(c)
  <2>1. /\ UNCHANGED <<marker, run, unslept>> /\ awake' = TRUE /\ Waking
        /\ overtaken' = (overtaken \/ Unmarking \/ HelperUnmarking)
        /\ RootGoesOn(c) /\ root[c] # <<>> /\ ~RootIs(c, "sleep") /\ ~RootIs(c, "mark")
    BY <1>3 DEF RootWakes, RootIs, Waking
  <2>2. TypeRest'
    BY <1>3 DEF RootWakes, TypeRest
  <2>3. RootOK' /\ (Waking' => Waking) /\ (Unmarking' => Unmarking)
    BY <2>1, RootSteps
  <2>4. Safe'
    BY <2>1, <2>3
  <2> QED BY <2>2, <2>3, <2>4
<1>4. CASE RootSleeps(c)
  <2>1. /\ UNCHANGED <<marker, run>> /\ awake' = FALSE
        /\ overtaken' = (overtaken /\ (Waking \/ run.pc = "rm"))
        /\ RootGoesOn(c) /\ root[c] # <<>> /\ ~RootIs(c, "mark")
    BY <1>4 DEF RootSleeps, RootIs
  <2>2. TypeRest'
    BY <1>4 DEF RootSleeps, TypeRest
  <2>3. RootOK' /\ (Waking' => Waking)
    BY <2>1, RootSteps
  <2>4. Safe'
    BY <2>1, <2>3
  <2> QED BY <2>2, <2>3, <2>4
<1>5. CASE RootUnmarks(c)
  <2>1. /\ UNCHANGED <<awake, unslept>> /\ marker' = FALSE /\ Unmarking
        /\ run' = [run EXCEPT !.same = FALSE]
        /\ overtaken' = (overtaken \/ Waking)
        /\ RootGoesOn(c) /\ root[c] # <<>> /\ ~RootIs(c, "mark") /\ ~RootIs(c, "sleep")
    BY <1>5 DEF RootUnmarks, RootIs, Unmarking, RunLosesMarker
  <2>2. TypeRest' /\ run'.pc = run.pc /\ ~run'.same
    BY <1>5 DEF RootUnmarks, RunLosesMarker, TypeRest
  <2>3. RootOK' /\ (Waking' => Waking) /\ (Unmarking' => Unmarking)
    BY <2>1, RootSteps
  <2>4. Safe'
    BY <2>1, <2>2, <2>3
  <2> QED BY <2>2, <2>3, <2>4
<1>6. CASE RootVanishes(c)
  <2>1. Prompt(c, <<>>) /\ <<>> \in Fresh /\ UNCHANGED <<awake, marker, run, histories>>
    BY <1>6 DEF RootVanishes, Prompt, Fresh, machine
  <2>2. TypeRest'
    BY <1>6 DEF RootVanishes, TypeRest, machine, histories
  <2> QED BY <2>1, <2>2, RootGiven, Elsewhere
<1>7. CASE RootSleepFails(c)
  <2>1. /\ UNCHANGED <<awake, marker, run, overtaken>> /\ unslept' = (unslept \/ awake)
        /\ RootGoesOn(c) /\ root[c] # <<>> /\ ~RootIs(c, "mark")
    BY <1>7 DEF RootSleepFails, REMOVE_HELPER_COMMAND, RootIs, machine
  <2>2. TypeRest'
    BY <1>7 DEF RootSleepFails, TypeRest, machine
  <2>3. RootOK' /\ (Waking' => Waking)
    BY <2>1, RootSteps
  <2>4. unslept' \/ ~awake'
    BY <2>1
  <2>5. Safe'
    BY <2>1, <2>3, <2>4
  <2> QED BY <2>2, <2>3, <2>5
<1> QED BY <1>1, <1>2, <1>3, <1>4, <1>5, <1>6, <1>7 DEF RootStep

\* The helper.
LEMMA HelperSafe ==
    ASSUME TypeRest, RootOK, Safe,
           HelperStep \/ HelperDecides \/ HelperSleeps \/ HelperTimesOut
    PROVE  TypeRest' /\ RootOK' /\ Safe'
<1> USE DEF Safe, AwakeIsMarked, WakingIsMarked, UnmarkingIsAsleep, HelperUnmarksAsleep,
            HelperUnmarking, histories
<1>1. UNCHANGED <<root, helper, beat, alive, state, busy, call, tick>>
  BY DEF HelperStep, HelperFindsStale, HelperDecides, HelperSleeps, HelperTimesOut,
         HelperReads, HelperStats, HelperUnmarks
<1>2. RootOK' /\ (Waking' => Waking) /\ (Unmarking' => Unmarking)
  BY <1>1, RootSame
<1>3. CASE HelperDecides
  <2>1. /\ UNCHANGED <<awake, marker, histories>> /\ marker
        /\ run' = [pc |-> "off", same |-> TRUE]
    BY <1>3 DEF HelperDecides
  <2>2. TypeRest'
    BY <1>1, <2>1 DEF TypeRest
  <2> QED BY <1>2, <2>1, <2>2
<1>4. CASE HelperSleeps
  <2>1. /\ UNCHANGED marker /\ awake' = FALSE /\ unslept' = FALSE
        /\ overtaken' = (overtaken /\ Waking)
        /\ run.pc = "off" /\ run' = [run EXCEPT !.pc = "read"]
    BY <1>4 DEF HelperSleeps, RunIs, RunGoes
  <2>2. TypeRest' /\ run'.pc = "read" /\ run'.same = run.same
    BY <1>1, <2>1 DEF TypeRest
  <2> QED BY <1>2, <2>1, <2>2
<1>8. CASE HelperTimesOut
  <2>1. /\ UNCHANGED <<awake, marker, histories>>
        /\ run.pc = "off" /\ run' = [run EXCEPT !.pc = "read"]
    BY <1>8 DEF HelperTimesOut, RunIs, RunGoes
  <2>2. TypeRest' /\ run'.pc = "read" /\ run'.same = run.same
    BY <1>1, <2>1 DEF TypeRest
  <2> QED BY <1>2, <2>1, <2>2
<1>5. CASE HelperReads
  <2>1. /\ UNCHANGED <<awake, marker, histories>> /\ run.pc = "read"
        /\ run' = IF awake THEN IdleRun ELSE [run EXCEPT !.pc = "stat"]
    BY <1>5 DEF HelperReads, RunIs, RunGoes
  <2>2. /\ TypeRest'
        /\ awake => run'.pc = "idle" /\ ~run'.same
        /\ ~awake => run'.pc = "stat" /\ run'.same = run.same
    BY <1>1, <2>1 DEF TypeRest, IdleRun
  <2> QED BY <1>2, <2>1, <2>2
<1>6. CASE HelperStats
  <2>1. /\ UNCHANGED <<awake, marker, histories>> /\ run.pc = "stat"
        /\ run' = IF run.same THEN [run EXCEPT !.pc = "rm"] ELSE IdleRun
    BY <1>6 DEF HelperStats, RunIs, RunGoes
  <2>2. /\ TypeRest'
        /\ ~run.same => run'.pc = "idle" /\ ~run'.same
        /\ run.same => run'.pc = "rm" /\ run'.same = run.same
    BY <1>1, <2>1 DEF TypeRest, IdleRun
  <2> QED BY <1>2, <2>1, <2>2
<1>7. CASE HelperUnmarks
  <2>1. /\ UNCHANGED <<awake, unslept>> /\ run.pc = "rm" /\ marker' = FALSE /\ run' = IdleRun
        /\ overtaken' = (overtaken \/ Waking)
    BY <1>7 DEF HelperUnmarks
  <2>2. TypeRest' /\ run'.pc = "idle" /\ ~run'.same /\ (overtaken' <=> overtaken \/ Waking)
    BY <1>1, <2>1 DEF TypeRest, IdleRun
  <2>3. awake' => overtaken'
    BY <2>1, <2>2
  <2> QED BY <1>2, <2>1, <2>2, <2>3
<1> QED BY <1>3, <1>4, <1>5, <1>6, <1>7, <1>8 DEF HelperStep, HelperFindsStale

\* Every step.
LEMMA StepHolds ==
    TypeRest /\ RootOK /\ Safe /\ [KeepWatchNext]_vars => TypeRest' /\ RootOK' /\ Safe'
<1> SUFFICES ASSUME TypeRest, RootOK, Safe, [KeepWatchNext]_vars
             PROVE  TypeRest' /\ RootOK' /\ Safe'
  OBVIOUS
<1>1. ASSUME Harmless PROVE TypeRest' /\ RootOK' /\ Safe'
  BY <1>1, Elsewhere DEF Harmless
<1>2. CASE \E c \in Calls : RequestStep(c) \/ AnswerStep(c)
  BY <1>1, <1>2, RequestHarmless, AnswerHarmless
<1>3. CASE \E c \in Calls : RootStep(c) \/ RootVanishes(c)
  BY <1>3, RootSafe
<1>4. CASE \E t \in Ticks : TickFires(t) \/ TickStep(t)
  BY <1>1, <1>4, TickHarmless
<1>5. CASE HelperStep \/ HelperDecides \/ HelperSleeps \/ HelperTimesOut
  BY <1>5, HelperSafe
<1>6. CASE TurnOff \/ WorldStep
  BY <1>6, WorldSafe
<1>7. CASE UNCHANGED vars
  <2>1. UNCHANGED <<awake, marker, run, histories, root>> /\ TypeRest'
    BY <1>7 DEF vars, TypeRest, histories
  <2> QED BY <2>1, RootSame, Elsewhere
<1> QED BY <1>2, <1>3, <1>4, <1>5, <1>6, <1>7 DEF KeepWatchNext

\* The types, and no mode on without a marker, of keep-watch.ts's turn-on,
\* removal and helper in any interleaving, for any number of requests.
THEOREM KeepWatchHolds == KeepWatchSpec => []KeepWatchInv
<1>1. TypeRest /\ RootOK /\ Safe => KeepWatchInv
  BY RootTyped DEF TypeRest, KeepWatchInv, KeepWatchTypeOK, Safe
<1> QED BY <1>1, InitHolds, StepHolds, PTL DEF KeepWatchSpec
=============================================================================
