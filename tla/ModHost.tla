-------------------------------- MODULE ModHost --------------------------------
(***************************************************************************)
(* The mod host of one game session: runtime/mod-host/src/lib.rs, with the *)
(* interface registry and hook groups of context.rs and launch.rs.         *)
(*                                                                         *)
(* The host owns entries 1..N in the order the resolver gave them, so that *)
(* the dependencies of an entry have lower numbers.  One thread calls the  *)
(* public operations one at a time; an operation calls into the mods, each *)
(* call may fail, and a failed cleanup may be called again.  A step of the *)
(* model is the part of an operation between two calls into a mod, with    *)
(* what the mod does through its context meanwhile as steps of their own.  *)
(*                                                                         *)
(* op       the operation that runs, "idle" between two of them, "gone"    *)
(*          after the host was dropped, "retained" after it was forgotten  *)
(* caller   who called a cleanup pass: "api", "detach" (stop called by     *)
(*          detach) or "drop" (detach or prepare_release called by Drop)   *)
(* calling  the entry whose callback runs, or 0                            *)
(* pos      the cursor of a pass, todo the entries a detach pass still has *)
(* errors, kept   the locals `errors` (entries that failed) and `retained` *)
(***************************************************************************)
EXTENDS Integers, FiniteSets

CONSTANTS
    N,          \* number of resolved mods
    Deps,       \* Deps[i]: entries that entry i declares as dependencies
    Offers,     \* Offers[i]: interfaces entry i may register
    Uses,       \* Uses[i]: what entry i may take: "group", "direct", "ref"
    Orders      \* builtin orders detach may be given: ranks, 0 if not named

Entries == 1 .. N
Interfaces == {"launch", "fallback", "service"}
Resources == {"group", "direct", "ref"}
Default == [i \in Entries |-> 0]

ASSUME NAssumption == N \in Nat
\* A resolved plan lists dependencies before their consumers (resolve.rs).
ASSUME DepsAssumption ==
    Deps \in [Entries -> SUBSET Entries] /\ \A i \in Entries : \A d \in Deps[i] : d < i
ASSUME OffersAssumption == Offers \in [Entries -> SUBSET Interfaces]
ASSUME UsesAssumption == Uses \in [Entries -> SUBSET Resources]
ASSUME OrdersAssumption == Orders \subseteq [Entries -> Nat]

VARIABLES
    \* Entry
    loaded, alive, participated, entry_stopped, detach_called, entry_detached,
    entry_released, status,
    \* ModHost; flags are its Boolean fields that hold
    next_phase, flags,
    \* Shared and Context
    phase, game, published, pending, group,
    \* what mods hold outside the host's own groups
    direct, refs,
    \* the operation that runs
    op, caller, calling, pos, todo, errors, kept, rank, result

lifeVars == <<loaded, alive, participated, entry_stopped, detach_called,
              entry_detached, entry_released>>
modVars == <<published, pending, group, direct, refs>>
passVars == <<caller, pos, todo, errors, kept, rank>>
vars == <<lifeVars, status, next_phase, flags, phase, game, modVars, passVars,
          op, calling, result>>

Flags == {"startup_failed", "launch_finished", "shutting_down", "native_running",
          "stopped", "detached", "release_prepared", "failed_cleanup"}
startup_failed == "startup_failed" \in flags
launch_finished == "launch_finished" \in flags
shutting_down == "shutting_down" \in flags
native_running == "native_running" \in flags
stopped == "stopped" \in flags
detached == "detached" \in flags
release_prepared == "release_prepared" \in flags
failed_cleanup == "failed_cleanup" \in flags

PREPARE == 0
CHECK == 1
ATTACH == 2
RUNNING == 3
STOP == 4
DETACH == 5
DESTROY == 6

PhaseOps == {"prepare", "check", "attach"}
PhaseOf == [prepare |-> PREPARE, check |-> CHECK, attach |-> ATTACH]
Statuses == PhaseOps \cup {"created", "failed", "launch_ready", "cancelled",
    "stopped", "stop_failed", "detached", "detach_failed", "release_prepared",
    "release_failed"}

\* dependencies_of: every entry that i uses, directly or through others, the
\* least set that holds Deps[i] and is closed under Deps.
Closed(S) == \A k \in S : Deps[k] \subseteq S
\* A mistake to guard against: only the dependencies that a mod names itself.
OnlyDirectDependencies == [i \in Entries |-> Deps[i]]

dependencies_of == [i \in Entries |->
    {j \in Entries : \A S \in SUBSET Entries :
                        Deps[i] \subseteq S /\ Closed(S) => j \in S}]

--------------------------------------------------------------------------------
TypeOK ==
    /\ loaded \in 0 .. N
    /\ alive \subseteq Entries
    /\ participated \subseteq Entries
    /\ entry_stopped \subseteq Entries
    /\ detach_called \subseteq Entries
    /\ entry_detached \subseteq Entries
    /\ entry_released \subseteq Entries
    /\ status \in [Entries -> Statuses]
    /\ next_phase \in 0 .. 3
    /\ flags \subseteq Flags
    /\ game \in {"null", "loaded"}
    /\ errors \subseteq Entries
    /\ phase \in 0 .. 6
    /\ published \subseteq Entries \X Interfaces
    /\ pending \subseteq Interfaces
    /\ group \in [Entries -> {"none", "created", "enabled"}]
    /\ direct \subseteq Entries
    /\ refs \subseteq Entries
    /\ op \in PhaseOps \cup {"idle", "load", "launch", "stop", "detach",
                             "release", "destroy", "gone", "retained"}
    /\ caller \in {"api", "detach", "drop"}
    /\ calling \in 0 .. N
    /\ pos \in 0 .. N + 1
    /\ todo \subseteq Entries
    /\ kept \subseteq Entries
    /\ rank \in Orders \cup {Default}
    /\ result \in {"ok", "err", "cancelled"}

Init ==
    /\ loaded = 0 /\ alive = {} /\ participated = {} /\ entry_stopped = {}
    /\ detach_called = {} /\ entry_detached = {} /\ entry_released = {}
    /\ status = [i \in Entries |-> "created"]
    /\ next_phase = PREPARE /\ flags = {}
    /\ phase = PREPARE /\ game = "null"
    /\ published = {} /\ pending = {}
    /\ group = [i \in Entries |-> "none"]
    /\ direct = {} /\ refs = {}
    /\ op = "load" /\ caller = "api" /\ calling = 0 /\ pos = 0 /\ todo = {}
    /\ errors = {} /\ kept = {} /\ rank = Default /\ result = "ok"

--------------------------------------------------------------------------------
(* Starting a pass: the assignments up to the first entry.  A pass leaves its *)
(* cursor where Idle resets it, so that equal situations are equal states.    *)

\* run_cleanup, over the entries in reverse order
EnterPass(o, who) ==
    /\ op' = o /\ caller' = who
    /\ pos' = loaded /\ errors' = {} /\ kept' = {}
    /\ todo' = {} /\ calling' = 0

\* stop, when no earlier call completed it
EnterStop(who) ==
    /\ phase' = STOP
    /\ EnterPass("stop", who)

\* detach after its call of stop, with the errors of that
EnterDetach(who, stop_errors) ==
    /\ op' = "detach" /\ caller' = who
    /\ phase' = DETACH
    /\ todo' = 1 .. loaded /\ errors' = stop_errors /\ kept' = {} /\ pos' = 0
    /\ calling' = 0

\* Drop, once every cleanup step succeeded
EnterDestroy ==
    /\ phase' = DESTROY
    /\ EnterPass("destroy", "drop")

\* A mistake: detach does not note that native code has returned.
BeginDetachStillNative(who) ==
    /\ flags' = flags \cup (IF stopped THEN {} ELSE {"shutting_down"})
    /\ IF stopped THEN EnterDetach(who, {}) ELSE EnterStop(who)

\* The whole of detach, called by `who`: it calls stop unless stop completed.
BeginDetach(who) ==
    /\ flags' = (flags \ {"native_running"}) \cup (IF stopped THEN {} ELSE {"shutting_down"})
    /\ IF stopped THEN EnterDetach(who, {}) ELSE EnterStop(who)

\* The operation that runs returns r to its caller outside the host.
Return(r) ==
    /\ op' = "idle" /\ caller' = "api" /\ result' = r
    /\ pos' = 0 /\ todo' = {} /\ errors' = {} /\ kept' = {} /\ rank' = Default
    /\ calling' = 0

\* mem::forget of the entries, by Drop or by retain
Forget ==
    /\ op' = "retained" /\ caller' = "api" /\ pos' = 0 /\ todo' = {}
    /\ errors' = {} /\ kept' = {} /\ rank' = Default /\ calling' = 0

\* A pass of one of the three cleanup operations has ended.
Outcome == IF errors = {} THEN "ok" ELSE "err"
\* A mistake: a pass counts as complete although an entry failed.
FinishWhateverFailed(done) == flags' = (flags \ {"failed_cleanup"}) \cup {done}

Finish(done) == flags' = (flags \ {done, "failed_cleanup"})
                            \cup (IF errors = {} THEN {done} ELSE {"failed_cleanup"})

--------------------------------------------------------------------------------
(* ModHost::load *)

\* The next candidate's instance is created.
CreateEntry ==
    /\ op = "load" /\ loaded < N
    /\ loaded' = loaded + 1
    /\ alive' = alive \cup {loaded + 1}
    /\ UNCHANGED <<participated, entry_stopped, detach_called, entry_detached,
                   entry_released, status, next_phase, flags,
                   phase, game, modVars, passVars, op, calling, result>>

\* Create fails: what it hooked is cleaned up, or the whole host is forgotten
\* with the context; otherwise load returns and the host is dropped.
CreateFails ==
    /\ op = "load" /\ loaded < N
    /\ result' = "err"
    /\ \/ Forget /\ UNCHANGED <<flags, phase>>
       \/ BeginDetach("drop") /\ UNCHANGED rank
    /\ UNCHANGED <<lifeVars, status, next_phase, game, modVars>>

Loaded ==
    /\ op = "load" /\ loaded = N
    /\ Return("ok")
    /\ UNCHANGED <<lifeVars, status, next_phase, flags, phase,
                   game, modVars>>

--------------------------------------------------------------------------------
(* prepare, check and attach: run_phase *)

\* A mistake: the shutdown does not stop the phases.
CallPhaseInShutdown(o) ==
    /\ op = "idle" /\ o \in PhaseOps
    /\ ~startup_failed /\ next_phase = PhaseOf[o]
    /\ phase' = PhaseOf[o]
    /\ op' = o /\ pos' = 1
    /\ UNCHANGED <<lifeVars, status, next_phase, flags, game,
                   modVars, caller, todo, errors, kept, rank, calling, result>>

\* A call in any other state returns an error and changes nothing.
CallPhase(o) ==
    /\ op = "idle" /\ o \in PhaseOps
    /\ ~startup_failed /\ ~shutting_down /\ next_phase = PhaseOf[o]
    /\ phase' = PhaseOf[o]
    /\ op' = o /\ pos' = 1
    /\ UNCHANGED <<lifeVars, status, next_phase, flags, game,
                   modVars, caller, todo, errors, kept, rank, calling, result>>

EnterCallback ==
    /\ op \in PhaseOps /\ calling = 0 /\ pos <= loaded
    /\ participated' = participated \cup {pos}
    /\ calling' = pos
    /\ UNCHANGED <<loaded, alive, entry_stopped, detach_called, entry_detached,
                   entry_released, status, next_phase, flags,
                   phase, game, modVars, passVars, op, result>>

\* publish_interfaces, after a phase that publishes
CallbackOk ==
    /\ op \in PhaseOps /\ calling # 0
    /\ published' = published \cup ({calling} \X pending)
    /\ pending' = {}
    /\ status' = [status EXCEPT ![calling] = op]
    /\ calling' = 0 /\ pos' = pos + 1
    /\ UNCHANGED <<lifeVars, next_phase, flags, phase, game,
                   group, direct, refs, op, caller, todo, errors, kept, rank, result>>

\* A mistake: the interfaces of the failed entry are published.
CallbackFailsAndPublishes ==
    /\ op \in PhaseOps /\ calling # 0
    /\ published' = published \cup ({calling} \X pending)
    /\ pending' = {}
    /\ status' = [status EXCEPT ![calling] = "failed"]
    /\ flags' = flags \cup {"startup_failed"}
    /\ Return("err")
    /\ UNCHANGED <<lifeVars, next_phase, phase, game, group, direct, refs>>

\* discard_interfaces; the operation ends and no phase runs any more
CallbackFails ==
    /\ op \in PhaseOps /\ calling # 0
    /\ pending' = {}
    /\ status' = [status EXCEPT ![calling] = "failed"]
    /\ flags' = flags \cup {"startup_failed"}
    /\ Return("err")
    /\ UNCHANGED <<lifeVars, next_phase, phase, game, published, group, direct, refs>>

PhaseDone ==
    /\ op \in PhaseOps /\ calling = 0 /\ pos > loaded
    /\ next_phase' = next_phase + 1
    /\ Return("ok")
    /\ UNCHANGED <<lifeVars, status, flags, phase, game, modVars>>

--------------------------------------------------------------------------------
(* What the mod whose callback runs does through its context, and what a      *)
(* built-in mod takes without the host's groups.                              *)

registering == op \in {"prepare", "attach"} /\ calling # 0

\* register: not twice, neither in the registry nor in this callback
Register(n) ==
    /\ registering /\ n \in Offers[calling]
    /\ <<calling, n>> \notin published /\ n \notin pending
    /\ pending' = pending \cup {n}
    /\ UNCHANGED <<lifeVars, status, next_phase, flags, phase,
                   game, published, group, direct, refs, passVars, op, calling, result>>

SetGroup(from, to) ==
    /\ group[calling] = from
    /\ group' = [group EXCEPT ![calling] = to]
    /\ UNCHANGED <<lifeVars, status, next_phase, flags, phase,
                   game, published, pending, direct, refs, passVars, op, calling, result>>

\* prepare_group and create_hook
CreateGroup == registering /\ "group" \in Uses[calling] /\ SetGroup("none", "created")
\* enable_group: marked before the backend tries, which may fail half-way
EnableGroup == registering /\ SetGroup("created", "enabled")
\* discard_group, in any callback
DiscardGroup ==
    /\ calling # 0 /\ (op = "detach" => calling \notin detach_called)
    /\ SetGroup("created", "none")

\* A built-in mod hooks the game through its own HookSet or PatchReservation,
\* which with_owner files under its name; no phase forbids it.
HookDirectly ==
    /\ op \in PhaseOps /\ calling # 0 /\ "direct" \in Uses[calling] /\ calling \notin direct
    /\ direct' = direct \cup {calling}
    /\ UNCHANGED <<lifeVars, status, next_phase, flags, phase, game,
                   published, pending, group, refs, passVars, op, calling, result>>

\* A built-in mod takes a reference to the loaded game DLL (ModuleReference).
AcquireGame ==
    /\ op = "attach" /\ calling # 0 /\ game = "loaded"
    /\ "ref" \in Uses[calling] /\ calling \notin refs
    /\ refs' = refs \cup {calling}
    /\ UNCHANGED <<lifeVars, status, next_phase, flags, phase, game,
                   published, pending, group, direct, passVars, op, calling, result>>

--------------------------------------------------------------------------------
(* launch, running and set_game *)

Providers(n) == {i \in Entries : <<i, n>> \in published}
\* The ordinary providers, or the fallback ones when there is no ordinary one.
EffectiveTier == IF Providers("launch") # {} THEN Providers("launch")
                                            ELSE Providers("fallback")

CallLaunch ==
    /\ op = "idle"
    /\ ~startup_failed /\ ~shutting_down /\ ~launch_finished /\ next_phase = CHECK
    /\ \/ \E p \in Entries :
            /\ EffectiveTier = {p}
            /\ op' = "launch" /\ calling' = p
            /\ flags' = flags \cup {"launch_finished"}
            /\ UNCHANGED result
       \/ /\ \A p \in Entries : EffectiveTier # {p}
          /\ flags' = flags \cup {"launch_finished", "startup_failed"}
          /\ result' = "err"
          /\ UNCHANGED <<op, calling>>
    /\ UNCHANGED <<lifeVars, status, next_phase, phase, game, modVars, passVars>>

\* The launch callback returns OK, CANCELLED or anything else.
LaunchReturns(r) ==
    /\ op = "launch"
    /\ \/ /\ r = "ok" /\ UNCHANGED flags
          /\ status' = [status EXCEPT ![calling] = "launch_ready"]
       \/ /\ r = "cancelled" /\ flags' = flags \cup {"shutting_down"}
          /\ status' = [status EXCEPT ![calling] = "cancelled"]
       \/ /\ r = "err" /\ flags' = flags \cup {"startup_failed"}
          /\ status' = [status EXCEPT ![calling] = "failed"]
    /\ Return(r)
    /\ UNCHANGED <<lifeVars, next_phase, phase, game, modVars>>

running ==
    /\ op = "idle"
    /\ flags' = flags \cup {"native_running"}
    /\ phase' = RUNNING
    /\ result' = "ok"
    /\ UNCHANGED <<lifeVars, status, next_phase, game, modVars, passVars, op, calling>>

set_game(g) ==
    /\ op = "idle"
    /\ game' = g
    /\ result' = "ok"
    /\ UNCHANGED <<lifeVars, status, next_phase, flags, phase,
                   modVars, passVars, op, calling>>

--------------------------------------------------------------------------------
(* stop and prepare_release: run_cleanup *)

CallStop ==
    /\ op = "idle" /\ ~stopped
    /\ flags' = flags \cup {"shutting_down"}
    /\ EnterStop("api")
    /\ UNCHANGED <<lifeVars, status, next_phase, game, modVars, rank, result>>

CallRelease ==
    /\ op = "idle" /\ detached /\ ~release_prepared
    /\ EnterPass("release", "api")
    /\ UNCHANGED <<lifeVars, status, next_phase, flags, phase,
                   game, modVars, rank, result>>

Completed == IF op = "stop" THEN entry_stopped ELSE entry_released
Eligible == (participated \ Completed) \ kept

\* The entry the reverse pass calls next: the last one not to be skipped.
NextInPass == {i \in Eligible \cap (1 .. pos) : \A j \in Eligible \cap (1 .. pos) : j <= i}

CleanupCall ==
    /\ op \in {"stop", "release"} /\ calling = 0
    /\ \E i \in NextInPass : calling' = i
    /\ UNCHANGED <<lifeVars, status, next_phase, flags, phase,
                   game, modVars, passVars, op, result>>

\* A built-in mod may have removed its own hooks (the ui mod does in stop).
CleanupOk ==
    /\ op \in {"stop", "release"} /\ calling # 0
    /\ IF op = "stop"
       THEN /\ entry_stopped' = entry_stopped \cup {calling}
            /\ status' = [status EXCEPT ![calling] = "stopped"]
            /\ UNCHANGED <<entry_released, refs>>
       ELSE /\ entry_released' = entry_released \cup {calling}
            /\ status' = [status EXCEPT ![calling] = "release_prepared"]
            /\ refs' = refs \ {calling}
            /\ UNCHANGED entry_stopped
    /\ direct' \in {direct, direct \ {calling}}
    /\ calling' = 0 /\ pos' = calling - 1
    /\ UNCHANGED <<loaded, alive, participated, detach_called, entry_detached,
                   next_phase, flags, phase, game, published, pending,
                   group, op, caller, todo, errors, kept, rank, result>>

\* The failing entry's dependencies are left for a later pass.
CleanupFails ==
    /\ op \in {"stop", "release"} /\ calling # 0
    /\ status' = [status EXCEPT ![calling] =
                    IF op = "stop" THEN "stop_failed" ELSE "release_failed"]
    /\ errors' = errors \cup {calling}
    /\ kept' = kept \cup dependencies_of[calling]
    /\ calling' = 0 /\ pos' = calling - 1
    /\ UNCHANGED <<lifeVars, next_phase, flags, phase, game,
                   modVars, op, caller, todo, rank, result>>

StopDone ==
    /\ op = "stop" /\ calling = 0 /\ Eligible \cap (1 .. pos) = {}
    /\ Finish("stopped")
    /\ IF caller = "api"
       THEN Return(Outcome) /\ UNCHANGED phase
       ELSE EnterDetach(caller, errors) /\ UNCHANGED <<rank, result>>
    /\ UNCHANGED <<lifeVars, status, next_phase, game, modVars>>

ReleaseDone ==
    /\ op = "release" /\ calling = 0 /\ Eligible \cap (1 .. pos) = {}
    /\ Finish("release_prepared")
    /\ \/ caller = "api" /\ Return(Outcome) /\ UNCHANGED phase
       \/ caller = "drop" /\ errors # {} /\ Forget /\ UNCHANGED <<phase, result>>
       \/ caller = "drop" /\ errors = {} /\ EnterDestroy /\ UNCHANGED <<rank, result>>
    /\ UNCHANGED <<lifeVars, status, next_phase, game, modVars>>

--------------------------------------------------------------------------------
(* detach *)

CallDetach ==
    /\ op = "idle" /\ ~detached
    /\ rank' \in Orders
    /\ BeginDetach("detach")
    /\ UNCHANGED <<lifeVars, status, next_phase, game, modVars, result>>

\* teardown_order: of the entries left, the first in builtin order, then in
\* reverse, that no other entry left depends on.
Before(i, j) == rank[i] < rank[j] \/ (rank[i] = rank[j] /\ i > j)
\* A mistake: the builtin order alone decides.
FreeByRank == todo

Free == {i \in todo : \A c \in todo : i \notin Deps[c]}
NextInOrder == {i \in Free : \A j \in Free \ {i} : Before(i, j)}

Skipped(i) ==
    \/ i \notin participated
    \/ i \notin entry_stopped
    \/ i \in entry_detached
    \/ i \in kept

DetachSkip ==
    /\ op = "detach" /\ calling = 0
    /\ \E i \in NextInOrder : Skipped(i) /\ todo' = todo \ {i}
    /\ UNCHANGED <<lifeVars, status, next_phase, flags, phase,
                   game, modVars, op, caller, pos, errors, kept, rank, calling, result>>

\* A mod whose detach succeeded earlier is not asked again.
DetachCall ==
    /\ op = "detach" /\ calling = 0
    /\ \E i \in NextInOrder : ~Skipped(i) /\ calling' = i
    /\ UNCHANGED <<lifeVars, status, next_phase, flags, phase,
                   game, modVars, passVars, op, result>>

\* The mod's detach returns OK; a built-in mod removed its own hooks, or failed
\* to and says nothing.
DetachOk ==
    /\ op = "detach" /\ calling # 0 /\ calling \notin detach_called
    /\ detach_called' = detach_called \cup {calling}
    /\ direct' \in {direct, direct \ {calling}}
    /\ UNCHANGED <<loaded, alive, participated, entry_stopped, entry_detached,
                   entry_released, status, next_phase, flags,
                   phase, game, published, pending, group, refs, passVars, op,
                   calling, result>>

\* A mistake to guard against: the pass gives up with the failing entry.
DetachFailedForAll ==
    /\ status' = [status EXCEPT ![calling] = "detach_failed"]
    /\ errors' = errors \cup {calling}
    /\ kept' = kept \cup todo

DetachFailed ==
    /\ status' = [status EXCEPT ![calling] = "detach_failed"]
    /\ errors' = errors \cup {calling}
    /\ kept' = kept \cup dependencies_of[calling]

DetachStepped ==
    /\ calling' = 0 /\ todo' = todo \ {calling}
    /\ UNCHANGED <<loaded, alive, participated, entry_stopped, detach_called,
                   entry_released, next_phase, flags, phase, game,
                   published, pending, direct, refs, op, caller, pos, rank, result>>

DetachFails ==
    /\ op = "detach" /\ calling # 0 /\ calling \notin detach_called
    /\ DetachFailed /\ DetachStepped
    /\ UNCHANGED <<entry_detached, group>>

\* A mistake: hooks outside the context's group are not looked for.
CleanupGroupOnly ==
    /\ op = "detach" /\ calling # 0 /\ calling \in detach_called
    /\ group' = [group EXCEPT ![calling] = "none"]
    /\ entry_detached' = entry_detached \cup {calling}
    /\ status' = [status EXCEPT ![calling] = "detached"]
    /\ UNCHANGED <<errors, kept>>
    /\ DetachStepped

\* cleanup_hooks disables, drains and removes the entry's group, then
\* ensure_released looks for anything else that is hooked in its name.
CleanupHooks ==
    /\ op = "detach" /\ calling # 0 /\ calling \in detach_called
    /\ group' = [group EXCEPT ![calling] = "none"]
    /\ IF calling \in direct
       THEN DetachFailed /\ UNCHANGED entry_detached
       ELSE /\ entry_detached' = entry_detached \cup {calling}
            /\ status' = [status EXCEPT ![calling] = "detached"]
            /\ UNCHANGED <<errors, kept>>
    /\ DetachStepped

\* Disabling, draining or removing the group fails: the context keeps it.
CleanupHooksFails ==
    /\ op = "detach" /\ calling # 0 /\ calling \in detach_called
    /\ group[calling] # "none"
    /\ DetachFailed /\ DetachStepped
    /\ UNCHANGED <<entry_detached, group>>

DetachDone ==
    /\ op = "detach" /\ calling = 0 /\ todo = {}
    /\ Finish("detached")
    /\ \/ caller = "detach" /\ Return(Outcome)
       \/ caller = "drop" /\ errors # {} /\ Forget /\ UNCHANGED result
       \/ caller = "drop" /\ errors = {} /\ EnterPass("release", "drop") /\ UNCHANGED <<rank, result>>
    /\ UNCHANGED <<lifeVars, status, next_phase, phase, game, modVars>>

--------------------------------------------------------------------------------
(* retain and Drop *)

retain ==
    /\ op = "idle"
    /\ Forget
    /\ UNCHANGED <<lifeVars, status, next_phase, flags, phase,
                   game, modVars, result>>

CallDrop ==
    /\ op = "idle"
    /\ IF native_running \/ failed_cleanup
       THEN Forget /\ UNCHANGED <<flags, phase>>
       ELSE /\ \/ ~detached /\ BeginDetach("drop")
               \/ /\ detached /\ ~release_prepared
                  /\ EnterPass("release", "drop")
                  /\ UNCHANGED <<flags, phase>>
               \/ /\ detached /\ release_prepared
                  /\ EnterDestroy
                  /\ UNCHANGED flags
            /\ UNCHANGED rank
    /\ UNCHANGED <<lifeVars, status, next_phase, game, modVars, result>>

\* Instances go in reverse order: a consumer's destructor may still call.
DestroyEntry ==
    /\ op = "destroy" /\ pos > 0
    /\ alive' = alive \ {pos}
    /\ pos' = pos - 1
    /\ UNCHANGED <<loaded, participated, entry_stopped, detach_called, entry_detached,
                   entry_released, status, next_phase, flags, phase,
                   game, modVars, caller, todo, errors, kept, rank, op, calling, result>>

Destroyed ==
    /\ op = "destroy" /\ pos = 0
    /\ op' = "gone" /\ caller' = "api"
    /\ UNCHANGED <<lifeVars, status, next_phase, flags, phase, game,
                   modVars, pos, todo, errors, kept, rank, calling, result>>

--------------------------------------------------------------------------------
\* running has no guard of its own; its caller calls it once attach succeeded
\* and before any shutdown, and enters the game next.
EnterGame == next_phase = RUNNING /\ ~shutting_down /\ running

\* The public operations, and the steps of the one that runs.
Call ==
    \/ \E o \in PhaseOps : CallPhase(o)
    \/ CallLaunch
    \/ EnterGame
    \/ \E g \in {"null", "loaded"} : set_game(g)
    \/ CallStop
    \/ CallDetach
    \/ CallRelease
    \/ retain
    \/ CallDrop

Load == CreateEntry \/ CreateFails \/ Loaded
RunPhase == EnterCallback \/ CallbackOk \/ CallbackFails \/ PhaseDone
InCallback ==
    \/ \E n \in Interfaces : Register(n)
    \/ CreateGroup \/ EnableGroup \/ DiscardGroup \/ HookDirectly \/ AcquireGame
Launch == \E r \in {"ok", "cancelled", "err"} : LaunchReturns(r)
RunCleanup == CleanupCall \/ CleanupOk \/ CleanupFails \/ StopDone \/ ReleaseDone
Detach ==
    \/ DetachSkip \/ DetachCall \/ DetachOk \/ DetachFails
    \/ CleanupHooks \/ CleanupHooksFails \/ DetachDone
Drop == DestroyEntry \/ Destroyed

Progress == Load \/ RunPhase \/ Launch \/ RunCleanup \/ Detach \/ Drop
Work == Progress \/ InCallback

\* The host is gone for good: the only way for the process to come to rest.
Ended == op \in {"gone", "retained"} /\ UNCHANGED vars

Next == Call \/ Work \/ Ended

Spec == Init /\ [][Next]_vars

--------------------------------------------------------------------------------
(* Properties *)

Consumers == [p \in Entries |-> {c \in Entries : p \in dependencies_of[c]}]

\* How far entry i has come, in the words of ModLifecycle.
Rung(i) ==
    IF i > loaded THEN "absent"
    ELSE IF i \notin alive THEN "gone"
    ELSE IF i \notin participated THEN "idle"
    ELSE IF i \notin entry_stopped THEN "active"
    ELSE IF i \notin entry_detached THEN "stopped"
    ELSE IF i \notin entry_released THEN "detached"
    ELSE "released"

rungs == [i \in Entries |-> Rung(i)]

Lifecycle == INSTANCE ModLifecycle WITH Mods <- Entries, rung <- rungs

\* The host keeps the promise of ModLifecycle: whatever fails, whatever is
\* retried and wherever the host is dropped, a provider outlives the cleanup of
\* everything that uses it, also through others, and no instance is destroyed
\* before every mod that took part has been cleaned up (stop, detach,
\* prepare_release and Drop in lib.rs).
Implements == Lifecycle!Spec

\* While a mod runs prepare, check or attach, every mod it depends on, directly
\* or not, has completed that very phase (run_phase, publish_interfaces).
ProvidersReady ==
    op \in PhaseOps /\ calling # 0 =>
        \A p \in dependencies_of[calling] :
            p \in participated /\ status[p] = op

\* A mod that failed to prepare, or has not prepared yet, has no interface in
\* the registry: consumers never see a half-initialised one
\* (discard_interfaces, context.rs).
HalfPreparedHidden ==
    \A i \in Entries, n \in Interfaces :
        <<i, n>> \in published =>
            /\ i \in participated
            /\ (next_phase = PREPARE =>
                \/ op = "prepare" /\ i < pos
                \/ \E j \in participated : i < j)

\* Code of a mod may be unloaded only when nothing in the game jumps to it: a
\* mod counts as detached, or is destroyed, only with no hook left in its name,
\* neither in a group of its context nor taken directly (cleanup_hooks and
\* ensure_released).
NoOrphanHooks ==
    \A i \in Entries :
        group[i] # "none" \/ i \in direct => i \in alive \ entry_detached

\* A failure stays local: after a detach pass, an entry that is still not
\* detached failed itself or is used by one that failed.  Unrelated mods were
\* all cleaned up (`retained` in stop and detach).
FailureStaysLocal ==
    op = "detach" /\ todo = {} /\ calling = 0 =>
        \A i \in participated \ entry_detached :
            \E c \in {i} \cup Consumers[i] : status[c] \in {"stop_failed", "detach_failed"}

\* The host's own record of a finished cleanup is right about every entry, so
\* that Drop may rely on it (stopped, detached, release_prepared).
FlagsTellTruth ==
    /\ stopped => participated \subseteq entry_stopped
    /\ detached => participated \subseteq entry_detached
    /\ release_prepared => participated \subseteq entry_released

\* While native code may run, no instance is destroyed, and no mod's own detach
\* is running (native_running in detach and Drop).
NativeCodeKeepsMods ==
    native_running => op \notin {"detach", "release", "destroy"} /\ alive = 1 .. loaded

--------------------------------------------------------------------------------
(* The inductive invariant, in parts.  ModHostProofs.tla proves it.           *)

\* What holds of the operation that runs, whatever the mods do.
ControlInv ==
    /\ op \in PhaseOps =>
        /\ next_phase = PhaseOf[op] /\ ~shutting_down
        /\ pos \in 1 .. loaded + 1
        /\ calling # 0 => calling = pos /\ pos <= loaded
    /\ op = "launch" => calling # 0 /\ next_phase = CHECK /\ ~shutting_down
    /\ op \in {"load", "idle", "destroy", "gone", "retained"} => calling = 0
    /\ op = "load" => participated = {} /\ flags = {}
    /\ op \in {"stop", "detach", "release", "destroy"} => shutting_down
    /\ op \in {"stop", "release", "destroy"} => pos <= loaded
    /\ op = "stop" => ~stopped
    /\ op = "detach" => ~detached
    /\ op = "release" => detached /\ ~release_prepared
    /\ op = "destroy" => detached /\ release_prepared
    /\ op \notin {"destroy", "gone"} => alive = 1 .. loaded
    /\ op = "destroy" => alive = 1 .. pos
    /\ op = "gone" => alive = {} /\ detached /\ release_prepared

\* The steps of one entry come in order, and the host's flags are right.
EntryInv ==
    /\ participated \subseteq 1 .. loaded
    /\ entry_stopped \subseteq participated
    /\ detach_called \subseteq entry_stopped
    /\ entry_detached \subseteq detach_called
    /\ entry_released \subseteq entry_detached
    /\ entry_stopped # {} \/ stopped \/ detached => shutting_down
    /\ detached => stopped
    /\ release_prepared => detached
    /\ entry_released # {} => detached
    /\ FlagsTellTruth

\* Consumers are ahead of what they use in every cleanup step.
OrderInv ==
    \A c \in participated : \A p \in dependencies_of[c] :
        /\ p \in entry_stopped => c \in entry_stopped
        /\ p \in entry_detached => c \in entry_detached
        /\ p \in entry_released => c \in entry_released

KeptClosed == \A k \in kept : dependencies_of[k] \subseteq kept

\* Where a reverse pass stands: what it has passed is complete, or failed or
\* was kept, and then everything it uses is kept.
Cursor == IF calling # 0 THEN calling ELSE pos
ReversePassInv ==
    op \in {"stop", "release"} =>
        /\ KeptClosed
        /\ calling # 0 => calling \in Eligible
        /\ \A c \in participated \ Completed :
                c <= Cursor \/ dependencies_of[c] \subseteq kept
        /\ errors = {} => kept = {} /\ \A c \in participated \ Completed : c <= Cursor

\* Where a detach pass stands; what it still has is closed under Deps.
DetachPassInv ==
    op = "detach" =>
        /\ KeptClosed
        /\ todo \subseteq 1 .. loaded
        /\ Closed(todo)
        /\ calling # 0 => calling \in Free /\ ~Skipped(calling)
        /\ \A c \in (participated \cap entry_stopped) \ entry_detached :
                c \in todo \/ dependencies_of[c] \subseteq kept
        /\ errors = {} =>
            /\ kept = {} /\ stopped
            /\ participated \ entry_detached \subseteq todo

IInv == TypeOK /\ ControlInv /\ EntryInv /\ OrderInv /\ ReversePassInv /\ DetachPassInv
===============================================================================
