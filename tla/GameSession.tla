------------------------------ MODULE GameSession ------------------------------
(***************************************************************************)
(* One game session: run_session and GameSession::finish of                *)
(* runtime/game/src/game/mod.rs with the game DLL of game/native.rs, on    *)
(* top of the mod host.  The session is the only caller of the host, so a  *)
(* step is either a step of the host's running operation or a step of the  *)
(* session while the host is idle; the host's module is ModHost, whole.    *)
(*                                                                         *)
(* at    where run_session is; "x_ing" means that the host works on x      *)
(* dll   the session's reference to the game DLL: "none" before it is      *)
(*       loaded, "held", and "dropped" after the session released it       *)
(***************************************************************************)
EXTENDS ModHost

VARIABLES at, dll

sessionVars == <<at, dll>>
hostVars == vars
allVars == <<vars, sessionVars>>

Ats == {"load", "prepare", "preparing", "launch", "launching", "load_game",
    "check", "checking", "attach", "attaching", "run", "enter", "in_game",
    "finish", "stopping", "detach", "detaching", "release", "releasing",
    "unload", "forget_game", "drop", "dropping", "failed", "retained", "done"}

SessionTypeOK ==
    /\ TypeOK
    /\ at \in Ats
    /\ dll \in {"none", "held", "dropped"}

SessionInit == Init /\ at = "load" /\ dll = "none"

\* The session goes from a to b and calls nothing.
Step(a, b) ==
    /\ at = a /\ at' = b
    /\ UNCHANGED <<hostVars, dll>>

\* The session goes from a to b with a call of the host (or its return).
Goes(a, b) == at = a /\ at' = b /\ UNCHANGED dll

\* The host's operation ended: the session takes its result.
Returned(a, good, bad) ==
    /\ op = "idle"
    /\ \/ result = "ok" /\ Step(a, good)
       \/ result = "err" /\ Step(a, bad)

--------------------------------------------------------------------------------
(* run_session *)

\* ModHost::load: on failure the host was dropped by load itself.
HostLoaded ==
    \/ op = "idle" /\ Step("load", "prepare")
    \/ op \in {"gone", "retained"} /\ Step("load", "failed")

Prepare == Goes("prepare", "preparing") /\ CallPhase("prepare")
Prepared == Returned("preparing", "launch", "finish")

\* NativeGame::launch: the launch data is locked around the provider's callback,
\* and locking or unlocking it may fail.
LockFails == Step("launch", "finish")
StartLaunch == Goes("launch", "launching") /\ CallLaunch
Launched ==
    \/ Returned("launching", "load_game", "finish")
    \/ op = "idle" /\ result = "cancelled" /\ Step("launching", "finish")
UnlockFails == op = "idle" /\ result # "err" /\ Step("launching", "finish")

\* NativeGame::load, then set_game
LoadGameFails == Step("load_game", "finish")
LoadGame ==
    /\ at = "load_game" /\ at' = "check" /\ dll' = "held"
    /\ set_game("loaded")

Check == Goes("check", "checking") /\ CallPhase("check")
Checked == Returned("checking", "attach", "finish")
Attach == Goes("attach", "attaching") /\ CallPhase("attach")
Attached == Returned("attaching", "run", "finish")

\* mods.running(), then the game's entry point, which may never return
Run == Goes("run", "in_game") /\ EnterGame
GameExits == Step("in_game", "finish")

--------------------------------------------------------------------------------
(* GameSession::finish *)

FinishStop == Goes("finish", "stopping") /\ CallStop
\* Two mistakes: the game is unloaded without detach; a failed stop is retried.
StoppedAndUnloads == Returned("stopping", "unload", "forget_game")
StoppedOrRetries == Returned("stopping", "detach", "finish")

Stopped == Returned("stopping", "detach", "forget_game")
FinishDetach == Goes("detach", "detaching") /\ Default \in Orders /\ CallDetach /\ rank' = Default
\* A mistake: extra references to the game are not asked back.
DetachedAndUnloads == Returned("detaching", "unload", "forget_game")

Detached == Returned("detaching", "release", "forget_game")
FinishRelease == Goes("release", "releasing") /\ CallRelease
\* A mistake: the mods go before the game.
ReleasedAndDrops == Returned("releasing", "drop", "forget_game")

Released == Returned("releasing", "unload", "forget_game")

\* A mistake: the host is forgotten, the game is not.
RetainModsOnly ==
    /\ at = "forget_game" /\ at' = "retained" /\ retain
    /\ dll' = IF dll = "held" THEN "dropped" ELSE dll

\* A cleanup failed: host and game stay as they are, for ever.
RetainAll == Goes("forget_game", "retained") /\ retain

\* native.unload, then set_game(null), then drop(mods)
Unload ==
    /\ at = "unload" /\ at' = "drop"
    /\ dll' = IF dll = "held" THEN "dropped" ELSE dll
    /\ set_game("null")
DropMods == Goes("drop", "dropping") /\ CallDrop
Dropped == op \in {"gone", "retained"} /\ Step("dropping", "done")

--------------------------------------------------------------------------------
SessionStep ==
    \/ HostLoaded \/ Prepare \/ Prepared
    \/ LockFails \/ StartLaunch \/ Launched \/ UnlockFails
    \/ LoadGameFails \/ LoadGame
    \/ Check \/ Checked \/ Attach \/ Attached \/ Run
    \/ FinishStop \/ Stopped \/ FinishDetach \/ Detached
    \/ FinishRelease \/ Released \/ RetainAll \/ Unload \/ DropMods \/ Dropped

HostWorks == Work /\ UNCHANGED sessionVars
HostProgresses == Progress /\ UNCHANGED sessionVars

\* Returning from run_session is the only way to come to rest.
SessionOver == at \in {"failed", "retained", "done"} /\ UNCHANGED allVars

SessionNext == SessionStep \/ GameExits \/ HostWorks \/ SessionOver

SessionSpec == SessionInit /\ [][SessionNext]_allVars

\* The thread that runs the session keeps running and a mod's callback returns,
\* whatever it does through its context first; the game may run for ever.
FairSession ==
    /\ SessionSpec
    /\ WF_allVars(SessionStep)
    /\ WF_allVars(HostProgresses)

--------------------------------------------------------------------------------
(* A panic of a built-in mod unwinds through ModHost, which catches nothing,   *)
(* and drops the GameSession: its fields in the order of their declaration,    *)
(* `native` and then `mods`.  Drop of the host runs with the pass interrupted. *)

Unwind ==
    /\ calling # 0 /\ op \in PhaseOps
    /\ at' = "dropping"
    /\ dll' = IF dll = "held" THEN "dropped" ELSE dll
    /\ BeginDetach("drop")
    /\ UNCHANGED <<lifeVars, status, next_phase, game, modVars, rank, result>>

PanicSpec == SessionInit /\ [][SessionNext \/ Unwind]_allVars

--------------------------------------------------------------------------------
(* Properties *)

\* Once the session has given up its reference, the game DLL really unloads and
\* unloads clean: no mod holds another reference, and no hook of any mod is left
\* in the process (finish; "after the extra references are returned").
GameGoesClean ==
    dll = "dropped" =>
        /\ refs = {} /\ direct = {}
        /\ \A i \in Entries : group[i] = "none"

\* When a cleanup fails, the whole session stays, all instances and the DLL; one
\* that ends normally leaves nothing behind.  The buffers of every mod outlive the
\* game DLL, whose DllMain may still look at them: as long as anyone holds a
\* reference, every instance is alive.  And no mod is called back after the DLL
\* was unloaded: when the session drops the host, Drop has nothing to stop, detach
\* or release any more.
FailureKeepsSession ==
    /\ SessionTypeOK
    /\ at = "retained" => alive = 1 .. loaded /\ dll # "dropped"
    /\ at = "done" => alive = {} /\ op = "gone"
    /\ dll = "held" \/ refs # {} => alive = 1 .. loaded
    /\ dll = "dropped" => calling = 0 /\ op \notin {"stop", "detach", "release"}

\* Whatever fails, the session comes to an end, or is in the game: no error path
\* leaves it waiting.
SessionEnds == []<>(at \in {"in_game", "failed", "retained", "done"})
================================================================================
