----------------------------- MODULE ModHostProofs -----------------------------
(***************************************************************************)
(* Proofs about ModHost: the type invariant, the inductive invariant and   *)
(* the host's implementation of ModLifecycle, for every number of mods,    *)
(* every dependency graph and every set of builtin orders.  And about      *)
(* GameSession: a session is a client of the host that keeps to the host's *)
(* operations, so that whatever is proved of the host holds of it; and     *)
(* what the session does with the game DLL is safe, whatever callback      *)
(* fails.                                                                  *)
(***************************************************************************)
EXTENDS GameSession, TLAPS

(***************************************************************************)
(* dependencies_of                                                         *)
(***************************************************************************)

\* What an entry declares is part of what it depends on.
LEMMA DirectDependencies ==
    ASSUME NEW i \in Entries
    PROVE  Deps[i] \subseteq dependencies_of[i]
BY DepsAssumption DEF dependencies_of

\* An entry depends on whatever its dependencies declare.
LEMMA DependenciesClosed ==
    ASSUME NEW i \in Entries
    PROVE  Closed(dependencies_of[i])
<1>1. SUFFICES ASSUME NEW k \in dependencies_of[i], NEW j \in Deps[k],
                      NEW S \in SUBSET Entries, Deps[i] \subseteq S, Closed(S)
               PROVE  j \in S
  BY DepsAssumption DEF Closed, dependencies_of
<1>2. k \in S
  BY <1>1 DEF dependencies_of
<1> QED
  BY <1>1, <1>2 DEF Closed

\* dependencies_of is the least closed set around the declared dependencies.
LEMMA DependenciesLeast ==
    ASSUME NEW i \in Entries, NEW S, S \subseteq Entries, Deps[i] \subseteq S, Closed(S)
    PROVE  dependencies_of[i] \subseteq S
BY DEF dependencies_of

\* What a dependency uses is used, too.
LEMMA DependenciesTransitive ==
    ASSUME NEW i \in Entries, NEW k \in dependencies_of[i]
    PROVE  dependencies_of[k] \subseteq dependencies_of[i]
<1>1. dependencies_of[i] \subseteq Entries
  BY DEF dependencies_of
<1>2. Deps[k] \subseteq dependencies_of[i]
  BY DependenciesClosed DEF Closed
<1> QED
  BY <1>1, <1>2, DependenciesClosed, DependenciesLeast

\* Providers have lower numbers than their consumers, also through others.
LEMMA DependenciesLower ==
    ASSUME NEW i \in Entries
    PROVE  dependencies_of[i] \subseteq 1 .. (i - 1)
<1>1. 1 .. (i - 1) \subseteq Entries
  BY NAssumption DEF Entries
<1>2. Deps[i] \subseteq 1 .. (i - 1)
  BY DepsAssumption, NAssumption DEF Entries
<1>3. Closed(1 .. (i - 1))
  <2>1. SUFFICES ASSUME NEW k \in 1 .. (i - 1), NEW d \in Deps[k]
                 PROVE  d \in 1 .. (i - 1)
    BY DEF Closed
  <2>2. k \in Entries /\ d \in Entries /\ d < k
    BY <1>1, <2>1, DepsAssumption
  <2> QED
    BY <2>2, NAssumption DEF Entries
<1> QED
  BY <1>1, <1>2, <1>3, DependenciesLeast

\* In a set closed under Deps, an entry that no member declares is used by no
\* member, not even through others.
LEMMA FreeMeansUnused ==
    ASSUME NEW T, T \subseteq Entries, Closed(T),
           NEW i \in T, \A c \in T : i \notin Deps[c],
           NEW c \in T
    PROVE  i \notin dependencies_of[c]
<1>1. Closed(T \ {i})
  BY DEF Closed
<1>2. Deps[c] \subseteq T \ {i}
  BY DEF Closed
<1> QED
  BY <1>1, <1>2, DependenciesLeast

(***************************************************************************)
(* Every step keeps the types                                              *)
(***************************************************************************)

\* dependencies_of maps every entry to a set of entries.
LEMMA DependenciesType == dependencies_of \in [Entries -> SUBSET Entries]
BY DEF dependencies_of

\* The order of a run is one of the orders or the default.
LEMMA DefaultType == Default \in Orders \cup {Default}
OBVIOUS

\* What the actions assign to status and flags.
LEMMA Names ==
    /\ PhaseOps \subseteq Statuses
    /\ "failed" \in Statuses /\ "launch_ready" \in Statuses /\ "cancelled" \in Statuses
    /\ "stopped" \in Statuses /\ "stop_failed" \in Statuses
    /\ "detached" \in Statuses /\ "detach_failed" \in Statuses
    /\ "release_prepared" \in Statuses /\ "release_failed" \in Statuses
    /\ "startup_failed" \in Flags /\ "launch_finished" \in Flags
    /\ "shutting_down" \in Flags /\ "native_running" \in Flags
    /\ "stopped" \in Flags /\ "detached" \in Flags
    /\ "release_prepared" \in Flags /\ "failed_cleanup" \in Flags
BY DEF Statuses, Flags

\* Every call and every callback of the host keeps the types.
LEMMA TypeStep ==
    ASSUME TypeOK, ControlInv, Next
    PROVE  TypeOK'
<1> USE NAssumption, Names DEF TypeOK, lifeVars, modVars, passVars
<1>1. CASE Load
  <2>1. CASE CreateEntry
    BY <2>1 DEF CreateEntry, Entries
  <2>2. CASE CreateFails
    <3>1. CASE Forget /\ UNCHANGED <<flags, phase>>
      BY <2>2, <3>1, DefaultType DEF CreateFails, Forget
    <3>2. CASE BeginDetach("drop") /\ UNCHANGED rank
      BY <2>2, <3>2 DEF CreateFails, BeginDetach, EnterStop, EnterDetach, EnterPass,
                        Flags, Entries, STOP, DETACH
    <3> QED
      BY <2>2, <3>1, <3>2 DEF CreateFails
  <2>3. CASE Loaded
    BY <2>3, DefaultType DEF Loaded, Return
  <2> QED
    BY <1>1, <2>1, <2>2, <2>3 DEF Load
<1>2. CASE RunPhase
  <2>1. CASE EnterCallback
    BY <2>1 DEF EnterCallback, ControlInv, Entries
  <2>2. CASE CallbackOk
    BY <2>2 DEF CallbackOk, ControlInv, Entries
  <2>3. CASE CallbackFails
    <3>1. status' \in [Entries -> Statuses]
      BY <2>3 DEF CallbackFails
    <3> QED
      BY <2>3, <3>1, DefaultType DEF CallbackFails, Return
  <2>4. CASE PhaseDone
    <3>1. next_phase' \in 0 .. 3
      BY <2>4 DEF PhaseDone, ControlInv, PhaseOf, PhaseOps, PREPARE, CHECK, ATTACH
    <3> QED
      BY <2>4, <3>1, DefaultType DEF PhaseDone, Return
  <2> QED
    BY <1>2, <2>1, <2>2, <2>3, <2>4 DEF RunPhase
<1>3. CASE InCallback
  <2>1. ASSUME NEW n \in Interfaces, Register(n) PROVE TypeOK'
    BY <2>1 DEF Register
  <2>2. CASE CreateGroup \/ EnableGroup \/ DiscardGroup
    BY <2>2 DEF CreateGroup, EnableGroup, DiscardGroup, SetGroup
  <2>3. CASE HookDirectly
    BY <2>3 DEF HookDirectly, registering, Entries
  <2>4. CASE AcquireGame
    BY <2>4 DEF AcquireGame, Entries
  <2> QED
    BY <1>3, <2>1, <2>2, <2>3, <2>4 DEF InCallback
<1>4. CASE Launch
  <2>1. ASSUME NEW r \in {"ok", "cancelled", "err"}, LaunchReturns(r) PROVE TypeOK'
    <3>1. status' \in [Entries -> Statuses]
      BY <2>1 DEF LaunchReturns
    <3>2. flags' \subseteq Flags
      BY <2>1 DEF LaunchReturns
    <3> QED
      BY <2>1, <3>1, <3>2, DefaultType DEF LaunchReturns, Return
  <2> QED
    BY <1>4, <2>1 DEF Launch
<1>5. CASE RunCleanup
  <2>1. CASE CleanupCall
    BY <2>1 DEF CleanupCall, NextInPass, Eligible, Entries
  <2>2. CASE CleanupOk
    <3>1. calling \in Entries
      BY <2>2 DEF CleanupOk, Entries
    <3>2. pos' \in 0 .. N + 1
      BY <2>2 DEF CleanupOk
    <3>3. status' \in [Entries -> Statuses]
      BY <2>2 DEF CleanupOk
    <3>4. /\ entry_stopped' \subseteq Entries /\ entry_released' \subseteq Entries
          /\ refs' \subseteq Entries
      <4>1. CASE op = "stop"
        BY <2>2, <3>1, <4>1 DEF CleanupOk
      <4>2. CASE op # "stop"
        BY <2>2, <3>1, <4>2 DEF CleanupOk
      <4> QED
        BY <4>1, <4>2
    <3>5. /\ UNCHANGED <<loaded, alive, participated, detach_called, entry_detached,
                        next_phase, flags, phase, game, published, pending, group,
                        op, caller, todo, errors, kept, rank, result>>
          /\ calling' = 0 /\ direct' \subseteq direct
      BY <2>2 DEF CleanupOk
    <3> QED
      BY <3>2, <3>3, <3>4, <3>5
  <2>3. CASE CleanupFails
    <3>1. calling \in Entries
      BY <2>3 DEF CleanupFails, Entries
    <3>2. pos' \in 0 .. N + 1
      BY <2>3 DEF CleanupFails
    <3>3. status' \in [Entries -> Statuses]
      BY <2>3 DEF CleanupFails
    <3>4. kept' \subseteq Entries /\ errors' \subseteq Entries
      BY <2>3, <3>1, DependenciesType DEF CleanupFails
    <3> QED
      BY <2>3, <3>2, <3>3, <3>4 DEF CleanupFails
  <2>4. CASE StopDone
    <3>1. flags' \subseteq Flags
      BY <2>4 DEF StopDone, Finish
    <3>2. CASE caller = "api"
      BY <2>4, <3>1, <3>2, DefaultType DEF StopDone, Return, Outcome
    <3>3. CASE caller # "api"
      <4>1. EnterDetach(caller, errors) /\ UNCHANGED <<rank, result>>
        BY <2>4, <3>3 DEF StopDone
      <4>2. todo' \subseteq Entries
        BY <4>1 DEF EnterDetach, Entries
      <4> QED
        BY <2>4, <3>1, <4>1, <4>2 DEF StopDone, EnterDetach, DETACH
    <3> QED
      BY <3>2, <3>3
  <2>5. CASE ReleaseDone
    <3>1. flags' \subseteq Flags
      BY <2>5 DEF ReleaseDone, Finish
    <3> QED
      BY <2>5, <3>1, DefaultType DEF ReleaseDone, Return, Outcome, Forget, EnterDestroy,
            EnterPass, DESTROY
  <2> QED
    BY <1>5, <2>1, <2>2, <2>3, <2>4, <2>5 DEF RunCleanup
<1>6. CASE Detach
  <2>1. CASE DetachSkip
    BY <2>1 DEF DetachSkip
  <2>2. CASE DetachCall
    BY <2>2 DEF DetachCall, NextInOrder, Free, Entries
  <2>3. CASE DetachOk
    BY <2>3 DEF DetachOk, Entries
  <2>4. ASSUME DetachFailed, calling # 0
        PROVE  /\ status' \in [Entries -> Statuses]
               /\ errors' \subseteq Entries
               /\ kept' \subseteq Entries
    <3>1. calling \in Entries
      BY <2>4 DEF Entries
    <3> QED
      BY <2>4, <3>1, DependenciesType DEF DetachFailed
  <2>5. CASE DetachFails
    BY <2>4, <2>5 DEF DetachFails, DetachStepped
  <2>6. CASE CleanupHooks
    <3>1. group' \in [Entries -> {"none", "created", "enabled"}]
      BY <2>6 DEF CleanupHooks
    <3>2. DetachStepped
      BY <2>6 DEF CleanupHooks
    <3>3. CASE calling \in direct
      <4>1. DetachFailed /\ calling # 0 /\ UNCHANGED entry_detached
        BY <2>6, <3>3 DEF CleanupHooks
      <4> QED
        BY <2>4, <3>1, <3>2, <4>1 DEF DetachStepped
    <3>4. CASE calling \notin direct
      <4>1. /\ entry_detached' = entry_detached \cup {calling}
            /\ status' = [status EXCEPT ![calling] = "detached"]
            /\ UNCHANGED <<errors, kept>> /\ calling # 0
        BY <2>6, <3>4 DEF CleanupHooks
      <4>2. status' \in [Entries -> Statuses] /\ entry_detached' \subseteq Entries
        BY <4>1 DEF Entries
      <4> QED
        BY <3>1, <3>2, <4>1, <4>2 DEF DetachStepped
    <3> QED
      BY <3>3, <3>4
  <2>7. CASE CleanupHooksFails
    BY <2>4, <2>7 DEF CleanupHooksFails, DetachStepped
  <2>8. CASE DetachDone
    <3>1. flags' \subseteq Flags
      BY <2>8 DEF DetachDone, Finish
    <3> QED
      BY <2>8, <3>1, DefaultType DEF DetachDone, Return, Outcome, Forget, EnterPass
  <2> QED
    BY <1>6, <2>1, <2>2, <2>3, <2>5, <2>6, <2>7, <2>8 DEF Detach
<1>7. CASE Drop
  <2>1. CASE DestroyEntry
    BY <2>1 DEF DestroyEntry
  <2>2. CASE Destroyed
    BY <2>2 DEF Destroyed
  <2> QED
    BY <1>7, <2>1, <2>2 DEF Drop
<1>8. CASE Call
  <2>1. ASSUME NEW o \in PhaseOps, CallPhase(o) PROVE TypeOK'
    BY <2>1 DEF CallPhase, PhaseOf, PhaseOps, PREPARE, CHECK, ATTACH
  <2>2. CASE CallLaunch
    BY <2>2 DEF CallLaunch, Entries
  <2>3. CASE EnterGame
    BY <2>3 DEF EnterGame, running, RUNNING
  <2>4. ASSUME NEW g \in {"null", "loaded"}, set_game(g) PROVE TypeOK'
    BY <2>4 DEF set_game
  <2>5. CASE CallStop
    BY <2>5 DEF CallStop, EnterStop, EnterPass, STOP
  <2>6. ASSUME NEW who \in {"detach", "drop"}, BeginDetach(who)
        PROVE  /\ flags' \subseteq Flags
               /\ phase' \in 0 .. 6
               /\ op' \in {"stop", "detach"} /\ caller' = who /\ calling' = 0
               /\ pos' \in 0 .. N + 1
               /\ todo' \subseteq Entries /\ errors' = {} /\ kept' = {}
    BY <2>6 DEF BeginDetach, EnterStop, EnterDetach, EnterPass, Entries, STOP, DETACH
  <2>7. CASE CallDetach
    BY <2>6, <2>7 DEF CallDetach
  <2>8. CASE CallRelease
    BY <2>8 DEF CallRelease, EnterPass
  <2>9. CASE retain
    BY <2>9, DefaultType DEF retain, Forget
  <2>10. CASE CallDrop
    <3>1. CASE Forget /\ UNCHANGED <<flags, phase>>
      BY <2>10, <3>1, DefaultType DEF CallDrop, Forget
    <3>2. CASE BeginDetach("drop") /\ UNCHANGED rank
      BY <2>6, <2>10, <3>2 DEF CallDrop
    <3>3. CASE EnterPass("release", "drop") /\ UNCHANGED <<flags, phase, rank>>
      BY <2>10, <3>3 DEF CallDrop, EnterPass
    <3>4. CASE EnterDestroy /\ UNCHANGED <<flags, rank>>
      BY <2>10, <3>4 DEF CallDrop, EnterDestroy, EnterPass, DESTROY
    <3> QED
      BY <2>10, <3>1, <3>2, <3>3, <3>4 DEF CallDrop
  <2> QED
    BY <1>8, <2>1, <2>2, <2>3, <2>4, <2>5, <2>7, <2>8, <2>9, <2>10 DEF Call
<1>9. CASE Ended
  BY <1>9 DEF Ended, vars
<1> QED
  BY <1>1, <1>2, <1>3, <1>4, <1>5, <1>6, <1>7, <1>8, <1>9 DEF Next, Work, Progress

(***************************************************************************)
(* Every step keeps the parts of the inductive invariant                   *)
(***************************************************************************)

\* The assignments of BeginDetach that the invariants speak of.
LEMMA BeginDetachDoes ==
    ASSUME TypeOK, ControlInv, EntryInv, NEW who, BeginDetach(who)
    PROVE  /\ shutting_down'
           /\ stopped' <=> stopped
           /\ detached' <=> detached
           /\ release_prepared' <=> release_prepared
           /\ op' \in {"stop", "detach"}
           /\ op' = "stop" => ~stopped /\ pos' = loaded
           /\ op' = "detach" => stopped /\ todo' = 1 .. loaded
           /\ calling' = 0 /\ errors' = {} /\ kept' = {}
BY DEF BeginDetach, EnterStop, EnterDetach, EnterPass, EntryInv, stopped, shutting_down, detached,
       release_prepared

\* What a mod does through its context leaves the operation where it is.
LEMMA CallbackFrame ==
    ASSUME InCallback
    PROVE  UNCHANGED <<lifeVars, next_phase, flags, passVars, op, calling>>
BY DEF InCallback, Register, CreateGroup, EnableGroup, DiscardGroup, SetGroup, HookDirectly,
       AcquireGame, lifeVars, passVars

\* What the host is doing agrees with the phase flags: a pass runs only inside
\* the call that starts it, on the flags that this call requires.
LEMMA ControlStep ==
    ASSUME TypeOK, ControlInv, EntryInv, ReversePassInv, Next
    PROVE  ControlInv'
<1> USE NAssumption DEF lifeVars, modVars, passVars, PhaseOps, shutting_down, stopped, detached,
        release_prepared
<1>1. CASE Load
  <2>1. CASE CreateEntry
    BY <2>1 DEF CreateEntry, ControlInv, TypeOK, Entries
  <2>2. CASE CreateFails
    <3>1. CASE Forget /\ UNCHANGED <<flags, phase>>
      BY <2>2, <3>1 DEF CreateFails, Forget, ControlInv
    <3>2. CASE BeginDetach("drop") /\ UNCHANGED rank
      BY <2>2, <3>2, BeginDetachDoes DEF CreateFails, ControlInv, TypeOK
    <3> QED
      BY <2>2, <3>1, <3>2 DEF CreateFails
  <2>3. CASE Loaded
    BY <2>3 DEF Loaded, Return, ControlInv
  <2> QED
    BY <1>1, <2>1, <2>2, <2>3 DEF Load
<1>2. CASE RunPhase
  <2>1. CASE EnterCallback
    BY <2>1 DEF EnterCallback, ControlInv, TypeOK
  <2>2. CASE CallbackOk
    BY <2>2 DEF CallbackOk, ControlInv, TypeOK
  <2>3. CASE CallbackFails
    BY <2>3 DEF CallbackFails, Return, ControlInv
  <2>4. CASE PhaseDone
    BY <2>4 DEF PhaseDone, Return, ControlInv
  <2> QED
    BY <1>2, <2>1, <2>2, <2>3, <2>4 DEF RunPhase
<1>3. CASE InCallback
  BY <1>3, CallbackFrame DEF ControlInv
<1>4. CASE Launch
  BY <1>4 DEF Launch, LaunchReturns, Return, ControlInv
<1>5. CASE RunCleanup
  <2>1. CASE CleanupCall
    BY <2>1 DEF CleanupCall, ControlInv
  <2>2. CASE CleanupOk \/ CleanupFails
    <3>1. /\ op \in {"stop", "release"}
          /\ UNCHANGED <<loaded, alive, participated, next_phase, flags, op>>
          /\ calling # 0 /\ calling' = 0 /\ pos' = calling - 1
      BY <2>2 DEF CleanupOk, CleanupFails
    <3>2. calling \in 1 .. loaded
      BY <3>1 DEF ReversePassInv, Eligible, EntryInv
    <3> QED
      BY <3>1, <3>2 DEF ControlInv, TypeOK
  <2>4. CASE StopDone
    BY <2>4 DEF StopDone, Finish, Return, EnterDetach, ControlInv, EntryInv
  <2>5. CASE ReleaseDone
    BY <2>5 DEF ReleaseDone, Finish, Return, Forget, EnterDestroy, EnterPass, ControlInv, TypeOK
  <2> QED
    BY <1>5, <2>1, <2>2, <2>4, <2>5 DEF RunCleanup
<1>6. CASE Detach
  <2>1. CASE DetachDone
    BY <2>1 DEF DetachDone, Finish, Return, Forget, EnterPass, ControlInv, EntryInv, TypeOK
  <2>2. CASE ~DetachDone
    <3>1. /\ op = "detach" /\ UNCHANGED <<loaded, alive, flags, op, pos, participated>>
      BY <1>6, <2>2 DEF Detach, DetachSkip, DetachCall, DetachOk, DetachFails, CleanupHooks,
            CleanupHooksFails, DetachFailed, DetachStepped
    <3> QED
      BY <3>1 DEF ControlInv
  <2> QED
    BY <2>1, <2>2
<1>7. CASE Drop
  <2>1. CASE DestroyEntry
    <3>1. alive' = 1 .. pos'
      BY <2>1 DEF DestroyEntry, ControlInv, TypeOK
    <3> QED
      BY <2>1, <3>1 DEF DestroyEntry, ControlInv, TypeOK
  <2>2. CASE Destroyed
    BY <2>2 DEF Destroyed, ControlInv
  <2> QED
    BY <1>7, <2>1, <2>2 DEF Drop
<1>8. CASE Call
  <2>1. ASSUME NEW o \in PhaseOps, CallPhase(o) PROVE ControlInv'
    BY <2>1 DEF CallPhase, ControlInv, TypeOK
  <2>2. CASE CallLaunch
    BY <2>2 DEF CallLaunch, ControlInv, Entries
  <2>3. CASE EnterGame
    BY <2>3 DEF EnterGame, running, ControlInv
  <2>4. ASSUME NEW g \in {"null", "loaded"}, set_game(g) PROVE ControlInv'
    BY <2>4 DEF set_game, ControlInv
  <2>5. CASE CallStop
    BY <2>5 DEF CallStop, EnterStop, EnterPass, ControlInv, TypeOK
  <2>a. ASSUME NEW who, op = "idle", ~detached, BeginDetach(who), UNCHANGED lifeVars
         PROVE  ControlInv'
    <3>1. /\ shutting_down' /\ ~detached' /\ calling' = 0
          /\ op' = "stop" => ~stopped' /\ pos' = loaded
          /\ op' \in {"stop", "detach"}
      BY <2>a, BeginDetachDoes
    <3> QED
      BY <2>a, <3>1 DEF ControlInv, TypeOK
  <2>6. CASE CallDetach
    BY <2>6, <2>a DEF CallDetach
  <2>7. CASE CallRelease
    BY <2>7 DEF CallRelease, EnterPass, ControlInv, EntryInv, TypeOK
  <2>8. CASE retain
    BY <2>8 DEF retain, Forget, ControlInv
  <2>9. CASE CallDrop
    <3>1. CASE Forget /\ UNCHANGED <<flags, phase>>
      BY <2>9, <3>1 DEF CallDrop, Forget, ControlInv
    <3>2. CASE ~detached /\ BeginDetach("drop") /\ UNCHANGED rank
      BY <2>9, <2>a, <3>2 DEF CallDrop
    <3>3. CASE /\ detached /\ ~release_prepared /\ EnterPass("release", "drop")
               /\ UNCHANGED <<flags, phase, rank>>
      BY <2>9, <3>3 DEF CallDrop, EnterPass, ControlInv, EntryInv, TypeOK
    <3>4. CASE detached /\ release_prepared /\ EnterDestroy /\ UNCHANGED <<flags, rank>>
      BY <2>9, <3>4 DEF CallDrop, EnterDestroy, EnterPass, ControlInv, EntryInv, TypeOK
    <3> QED
      BY <2>9, <3>1, <3>2, <3>3, <3>4 DEF CallDrop
  <2> QED
    BY <1>8, <2>1, <2>2, <2>3, <2>4, <2>5, <2>6, <2>7, <2>8, <2>9 DEF Call
<1>9. CASE Ended
  BY <1>9 DEF Ended, vars, ControlInv
<1> QED
  BY <1>1, <1>2, <1>3, <1>4, <1>5, <1>6, <1>7, <1>8, <1>9 DEF Next, Work, Progress

\* The actions that move an entry on; the others leave it where it is.
LEMMA Frame ==
    ASSUME Next
    PROVE  \/ EnterCallback \/ CleanupOk \/ DetachOk \/ CleanupHooks
           \/ CreateEntry \/ DestroyEntry \/ UNCHANGED lifeVars
BY DEF lifeVars, vars, Next, Work, Progress, Load, RunPhase, InCallback, Launch,
       RunCleanup, Detach, Drop, Call, Ended,
       CreateEntry, CreateFails, Loaded, CallbackOk, CallbackFails, PhaseDone,
       Register, CreateGroup, EnableGroup, DiscardGroup, SetGroup, HookDirectly, AcquireGame,
       LaunchReturns, CleanupCall, CleanupFails, StopDone, ReleaseDone,
       DetachSkip, DetachCall, DetachFails, DetachStepped, CleanupHooksFails, DetachDone,
       DestroyEntry, Destroyed, CallPhase, CallLaunch, EnterGame, running, set_game, CallStop,
       CallDetach, CallRelease, retain, CallDrop

\* The actions that change the host's flags for stop, detach and release.
LEMMA FlagsFrame ==
    ASSUME TypeOK, Next
    PROVE  \/ StopDone \/ ReleaseDone \/ DetachDone
           \/ /\ stopped' <=> stopped
              /\ detached' <=> detached
              /\ release_prepared' <=> release_prepared
              /\ shutting_down => shutting_down'
<1> USE DEF stopped, detached, release_prepared, shutting_down
<1>1. CASE flags \subseteq flags' /\ flags' \subseteq flags \cup
              {"startup_failed", "launch_finished", "native_running", "shutting_down"}
  BY <1>1
<1>2. ASSUME NEW who, BeginDetach(who)
      PROVE  /\ stopped' <=> stopped
             /\ detached' <=> detached
             /\ release_prepared' <=> release_prepared
             /\ shutting_down => shutting_down'
  BY <1>2 DEF BeginDetach
<1>3. CASE Load
  BY <1>1, <1>2, <1>3 DEF Load, CreateEntry, CreateFails, Loaded
<1>4. CASE RunPhase \/ InCallback
  BY <1>1, <1>4 DEF RunPhase, InCallback, EnterCallback, CallbackOk, CallbackFails, PhaseDone,
       Register, CreateGroup, EnableGroup, DiscardGroup, SetGroup, HookDirectly, AcquireGame
<1>5. CASE Launch
  BY <1>1, <1>5 DEF Launch, LaunchReturns
<1>6. CASE RunCleanup
  BY <1>1, <1>6 DEF RunCleanup, CleanupCall, CleanupOk, CleanupFails
<1>7. CASE Detach
  BY <1>1, <1>7 DEF Detach, DetachSkip, DetachCall, DetachOk, DetachFails, CleanupHooks,
       DetachStepped, CleanupHooksFails
<1>8. CASE Drop \/ Ended
  BY <1>1, <1>8 DEF Drop, DestroyEntry, Destroyed, Ended, vars
<1>9. CASE Call
  <2>1. CASE CallLaunch
    BY <1>1, <2>1 DEF CallLaunch
  <2>2. CASE CallStop \/ EnterGame
    BY <1>1, <2>2 DEF CallStop, EnterGame, running
  <2>3. CASE CallDetach \/ CallDrop
    BY <1>1, <1>2, <2>3 DEF CallDetach, CallDrop
  <2>4. CASE CallRelease \/ retain \/ \E g \in {"null", "loaded"} : set_game(g)
    BY <1>1, <2>4 DEF CallRelease, retain, set_game
  <2>5. CASE \E o \in PhaseOps : CallPhase(o)
    BY <1>1, <2>5 DEF CallPhase
  <2> QED
    BY <1>9, <2>1, <2>2, <2>3, <2>4, <2>5 DEF Call
<1> QED
  BY <1>3, <1>4, <1>5, <1>6, <1>7, <1>8, <1>9 DEF Next, Work, Progress

\* What a pass has behind it when it ends without an error.
LEMMA PassComplete ==
    ASSUME TypeOK, EntryInv, ReversePassInv, op \in {"stop", "release"},
           Eligible \cap (1 .. pos) = {}, calling = 0, errors = {}
    PROVE  participated \subseteq Completed
<1>1. /\ kept = {} /\ \A c \in participated \ Completed : c <= pos
      /\ participated \subseteq 1 .. loaded /\ loaded \in Nat /\ pos \in Nat
  BY NAssumption DEF ReversePassInv, Cursor, EntryInv, TypeOK
<1> QED
  BY <1>1 DEF Eligible

\* What the end of each cleanup pass records is true.
LEMMA FinishTrue ==
    ASSUME TypeOK, ControlInv, EntryInv, ReversePassInv, DetachPassInv
    PROVE  /\ StopDone => /\ stopped' => participated \subseteq entry_stopped
                          /\ detached' <=> detached
                          /\ release_prepared' <=> release_prepared
                          /\ ~detached
           /\ DetachDone => /\ detached' => participated \subseteq entry_detached /\ stopped
                            /\ stopped' <=> stopped
                            /\ release_prepared' <=> release_prepared
                            /\ ~detached
           /\ ReleaseDone => /\ release_prepared' => participated \subseteq entry_released
                             /\ stopped' <=> stopped
                             /\ detached' <=> detached
                             /\ detached
           /\ StopDone \/ DetachDone \/ ReleaseDone =>
                /\ shutting_down /\ shutting_down'
                /\ UNCHANGED lifeVars
<1> USE DEF stopped, detached, release_prepared, shutting_down, Finish
<1>1. CASE StopDone
  <2>1. errors = {} => participated \subseteq entry_stopped
    BY <1>1, PassComplete DEF StopDone, Completed
  <2> QED
    BY <1>1, <2>1 DEF StopDone, ReleaseDone, DetachDone, ControlInv, EntryInv
<1>2. CASE DetachDone
  <2>1. errors = {} => participated \subseteq entry_detached /\ stopped
    BY <1>2 DEF DetachDone, DetachPassInv
  <2> QED
    BY <1>2, <2>1 DEF StopDone, ReleaseDone, DetachDone, ControlInv, EntryInv
<1>3. CASE ReleaseDone
  <2>1. errors = {} => participated \subseteq entry_released
    BY <1>3, PassComplete DEF ReleaseDone, Completed
  <2> QED
    BY <1>3, <2>1 DEF StopDone, ReleaseDone, DetachDone, ControlInv, EntryInv
<1> QED
  BY <1>1, <1>2, <1>3

\* The cleanup steps of each entry come in order, and the flags of the host are
\* true of its entries.
LEMMA EntryStep ==
    ASSUME TypeOK, ControlInv, EntryInv, ReversePassInv, DetachPassInv, Next
    PROVE  EntryInv'
<1> USE DEF EntryInv, FlagsTellTruth
<1>1. CASE StopDone \/ ReleaseDone \/ DetachDone
  BY <1>1, FinishTrue DEF lifeVars
<1>2. CASE ~(StopDone \/ ReleaseDone \/ DetachDone)
  <2>1. /\ stopped' <=> stopped
        /\ detached' <=> detached
        /\ release_prepared' <=> release_prepared
        /\ shutting_down => shutting_down'
    BY <1>2, FlagsFrame
  <2>2. CASE EnterCallback
    <3>1. ~shutting_down /\ pos \in 1 .. loaded
      BY <2>2 DEF EnterCallback, ControlInv, TypeOK
    <3> QED
      BY <2>1, <2>2, <3>1 DEF EnterCallback
  <2>3. CASE CleanupOk
    <3>1. calling \in participated /\ op \in {"stop", "release"}
      BY <2>3 DEF CleanupOk, ReversePassInv, Eligible
    <3>2. CASE op = "stop"
      BY <2>1, <2>3, <3>1, <3>2 DEF CleanupOk, ControlInv
    <3>3. CASE op = "release"
      BY <2>1, <2>3, <3>1, <3>3 DEF CleanupOk, ControlInv
    <3> QED
      BY <3>1, <3>2, <3>3
  <2>4. CASE DetachOk
    <3>1. calling \in entry_stopped
      BY <2>4 DEF DetachOk, DetachPassInv, Skipped
    <3> QED
      BY <2>1, <2>4, <3>1 DEF DetachOk
  <2>5. CASE CleanupHooks
    <3>1. /\ calling \in detach_called
          /\ entry_detached' = entry_detached \/ entry_detached' = entry_detached \cup {calling}
          /\ UNCHANGED <<loaded, participated, entry_stopped, detach_called, entry_released>>
      BY <2>5 DEF CleanupHooks, DetachStepped
    <3> QED
      BY <2>1, <3>1
  <2>6. CASE CreateEntry
    <3>1. participated \subseteq 1 .. loaded'
      BY <2>6 DEF CreateEntry, TypeOK
    <3> QED
      BY <2>1, <2>6, <3>1 DEF CreateEntry
  <2>7. CASE DestroyEntry \/ UNCHANGED lifeVars
    BY <2>1, <2>7 DEF DestroyEntry, lifeVars
  <2> QED
    BY <2>2, <2>3, <2>4, <2>5, <2>6, <2>7, Frame
<1> QED
  BY <1>1, <1>2

\* No cleanup step of a mod is ahead of the same step of a mod that uses it.
LEMMA OrderStep ==
    ASSUME TypeOK, ControlInv, EntryInv, OrderInv, ReversePassInv, DetachPassInv, Next
    PROVE  OrderInv'
<1>a. participated \subseteq Entries
  BY DEF TypeOK
<1>b. ASSUME NEW c \in participated, NEW p \in dependencies_of[c]
      PROVE  c \in Nat /\ p \in Nat /\ p < c
  BY <1>a, <1>b, DependenciesLower, NAssumption DEF Entries
<1>1. CASE EnterCallback
  <2>1. entry_stopped = {} /\ entry_detached = {} /\ entry_released = {}
    BY <1>1 DEF EnterCallback, ControlInv, EntryInv
  <2> QED
    BY <1>1, <2>1 DEF EnterCallback, OrderInv
<1>2. CASE CleanupOk
  <2>1. calling \in Eligible
    BY <1>2 DEF CleanupOk, ReversePassInv
  <2>2. ASSUME NEW c \in participated, calling \in dependencies_of[c]
        PROVE  c \in Completed
    <3>1. calling < c /\ c \in Nat /\ calling \in Nat
      BY <1>b, <2>2
    <3>2. ~(c <= Cursor)
      BY <1>2, <3>1 DEF CleanupOk, Cursor
    <3>3. calling \notin kept
      BY <2>1 DEF Eligible
    <3> QED
      BY <1>2, <2>2, <3>2, <3>3 DEF CleanupOk, ReversePassInv
  <2>3. CASE op = "stop"
    BY <1>2, <2>2, <2>3 DEF CleanupOk, Completed, OrderInv
  <2>4. CASE op = "release"
    BY <1>2, <2>2, <2>4 DEF CleanupOk, Completed, OrderInv
  <2> QED
    BY <1>2, <2>3, <2>4 DEF CleanupOk
<1>3. CASE DetachOk
  BY <1>3 DEF DetachOk, OrderInv
<1>4. CASE CleanupHooks
  <2>1. /\ calling \in Free /\ ~Skipped(calling)
        /\ todo \subseteq Entries /\ Closed(todo)
    BY <1>4 DEF CleanupHooks, DetachPassInv, TypeOK
  <2>2. ASSUME NEW c \in participated, calling \in dependencies_of[c]
        PROVE  c \in entry_detached
    <3>1. c \in entry_stopped
      BY <2>1, <2>2 DEF OrderInv, Skipped
    <3>2. calling \notin kept
      BY <2>1 DEF Skipped
    <3>3. c \notin todo
      BY <2>1, <2>2, FreeMeansUnused DEF Free
    <3> QED
      BY <1>4, <2>2, <3>1, <3>2, <3>3 DEF CleanupHooks, DetachPassInv
  <2>3. /\ entry_detached' = entry_detached \/ entry_detached' = entry_detached \cup {calling}
        /\ UNCHANGED <<participated, entry_stopped, entry_released>>
    BY <1>4 DEF CleanupHooks, DetachStepped
  <2> QED
    BY <2>2, <2>3 DEF OrderInv
<1>5. CASE CreateEntry \/ DestroyEntry \/ UNCHANGED lifeVars
  BY <1>5 DEF CreateEntry, DestroyEntry, lifeVars, OrderInv
<1> QED
  BY <1>1, <1>2, <1>3, <1>4, <1>5, Frame

\* A reverse pass that begins has everything before it.
LEMMA EnterPassInv ==
    ASSUME TypeOK, EntryInv, NEW o, NEW who, EnterPass(o, who),
           UNCHANGED <<loaded, participated>>
    PROVE  ReversePassInv'
<1>1. /\ kept' = {} /\ calling' = 0 /\ pos' = loaded /\ errors' = {}
      /\ \A c \in participated' : c <= loaded
  BY DEF EnterPass, EntryInv, TypeOK
<1> QED
  BY <1>1 DEF ReversePassInv, KeptClosed, Cursor

\* What an entry that fails adds to `kept` is closed.
LEMMA KeptStaysClosed ==
    ASSUME TypeOK, KeptClosed, NEW i \in Entries, kept' = kept \cup dependencies_of[i]
    PROVE  KeptClosed' /\ dependencies_of[i] \subseteq kept'
BY DependenciesTransitive DEF KeptClosed

\* A reverse pass (stop, prepare_release) leaves behind only entries that are
\* complete, or that are kept together with all they use.
LEMMA ReversePassStep ==
    ASSUME TypeOK, ControlInv, EntryInv, ReversePassInv, DetachPassInv, Next
    PROVE  ReversePassInv'
<1> USE DEF lifeVars
<1>1. CASE Load
  <2>1. CASE CreateFails
    BY <1>1, <2>1, EnterPassInv DEF CreateFails, Forget, BeginDetach, EnterStop, EnterDetach,
                                    ReversePassInv
  <2>2. CASE CreateEntry \/ Loaded
    BY <2>2 DEF CreateEntry, Loaded, Return, ReversePassInv
  <2> QED
    BY <1>1, <2>1, <2>2 DEF Load
<1>2. CASE RunPhase
  <2>1. op' \notin {"stop", "release"}
    BY <1>2 DEF passVars, PhaseOps, RunPhase, EnterCallback, CallbackOk, CallbackFails, PhaseDone,
         Return
  <2> QED
    BY <2>1 DEF ReversePassInv
<1>b. CASE InCallback
  BY <1>b, CallbackFrame DEF passVars, ReversePassInv, KeptClosed, Cursor, Completed, Eligible
<1>3. CASE Launch
  BY <1>3 DEF Launch, LaunchReturns, Return, ReversePassInv
<1>4. CASE RunCleanup
  <2>1. CASE CleanupCall
    <3>1. PICK i \in NextInPass : calling' = i
      BY <2>1 DEF CleanupCall
    <3>2. /\ i \in Eligible /\ i \in Nat /\ i # 0
          /\ \A j \in Eligible \cap (1 .. pos) : j <= i
          /\ Cursor = pos /\ Cursor' = i
          /\ op \in {"stop", "release"}
          /\ UNCHANGED <<participated, entry_stopped, entry_released, kept, errors, op>>
      BY <2>1, <3>1 DEF CleanupCall, NextInPass, Cursor, passVars
    <3>3. Completed' = Completed /\ Eligible' = Eligible /\ KeptClosed'
      BY <3>2 DEF Completed, Eligible, ReversePassInv, KeptClosed
    <3>4. ASSUME NEW c \in participated \ Completed
          PROVE  /\ c <= i \/ dependencies_of[c] \subseteq kept
                 /\ errors = {} => c <= i
      <4>1. CASE c \in kept
        BY <3>2, <4>1 DEF ReversePassInv, KeptClosed
      <4>2. CASE c \notin kept
        <5>1. c \in Eligible /\ c \in Nat /\ c >= 1 /\ pos \in Nat
          BY <3>4, <4>2, NAssumption DEF Eligible, TypeOK, Entries
        <5>2. c <= pos \/ dependencies_of[c] \subseteq kept
          BY <3>2, <3>4 DEF ReversePassInv
        <5>3. errors = {} => c <= pos
          BY <3>2, <3>4 DEF ReversePassInv
        <5> QED
          BY <3>2, <5>1, <5>2, <5>3
      <4> QED
        BY <4>1, <4>2
    <3>5. errors = {} => kept = {}
      BY <3>2 DEF ReversePassInv
    <3> QED
      BY <3>1, <3>2, <3>3, <3>4, <3>5 DEF ReversePassInv
  <2>2. CASE CleanupOk
    <3>1. /\ op \in {"stop", "release"} /\ calling # 0 /\ calling' = 0 /\ pos' = calling - 1
          /\ Cursor = calling /\ Cursor' = calling - 1
          /\ UNCHANGED <<participated, kept, errors, op>>
      BY <2>2 DEF CleanupOk, Cursor
    <3>2. Completed' = Completed \cup {calling}
      BY <2>2 DEF CleanupOk, Completed
    <3>3. ASSUME NEW c \in participated \ Completed'
          PROVE  c <= calling => c <= calling - 1
      BY <3>2, NAssumption DEF TypeOK, Entries
    <3>4. KeptClosed'
      BY <3>1 DEF ReversePassInv, KeptClosed
    <3> QED
      BY <3>1, <3>2, <3>3, <3>4 DEF ReversePassInv
  <2>3. CASE CleanupFails
    <3>1. /\ op \in {"stop", "release"} /\ calling # 0 /\ calling' = 0 /\ pos' = calling - 1
          /\ Cursor = calling /\ Cursor' = calling - 1
          /\ UNCHANGED <<participated, entry_stopped, entry_released, op>>
          /\ errors' # {} /\ calling \in Entries
          /\ kept' = kept \cup dependencies_of[calling]
      BY <2>3 DEF CleanupFails, Cursor, TypeOK, Entries
    <3>2. Completed' = Completed
      BY <3>1 DEF Completed
    <3>3. KeptClosed' /\ dependencies_of[calling] \subseteq kept'
      BY <3>1, KeptStaysClosed DEF ReversePassInv
    <3>4. ASSUME NEW c \in participated \ Completed
          PROVE  c <= calling - 1 \/ dependencies_of[c] \subseteq kept'
      <4>1. c <= calling \/ dependencies_of[c] \subseteq kept
        BY <3>1, <3>4 DEF ReversePassInv
      <4>2. c \in Nat /\ calling \in Nat
        BY <3>1, <3>4, NAssumption DEF TypeOK, Entries
      <4> QED
        BY <3>1, <3>3, <4>1, <4>2
    <3> QED
      BY <3>1, <3>2, <3>3, <3>4 DEF ReversePassInv
  <2>4. CASE StopDone \/ ReleaseDone
    <3>1. op' \notin {"stop", "release"}
      BY <2>4 DEF StopDone, ReleaseDone, Return, Forget, EnterDetach, EnterDestroy, EnterPass
    <3> QED
      BY <3>1 DEF ReversePassInv
  <2> QED
    BY <1>4, <2>1, <2>2, <2>3, <2>4 DEF RunCleanup
<1>5. CASE Detach
  <2>1. CASE DetachDone
    BY <2>1, EnterPassInv DEF DetachDone, Return, Forget, ReversePassInv
  <2>2. CASE ~DetachDone
    <3>1. op = "detach" /\ op' = "detach"
      BY <1>5, <2>2 DEF Detach, DetachSkip, DetachCall, DetachOk, DetachFails, CleanupHooks,
            CleanupHooksFails, DetachStepped
    <3> QED
      BY <3>1 DEF ReversePassInv
  <2> QED
    BY <2>1, <2>2
<1>6. CASE Drop \/ Ended
  <2>1. op' \notin {"stop", "release"}
    BY <1>6 DEF Drop, DestroyEntry, Destroyed, Ended, vars
  <2> QED
    BY <2>1 DEF ReversePassInv
<1>7. CASE Call
  <2>1. ASSUME NEW o \in PhaseOps, CallPhase(o) PROVE ReversePassInv'
    BY <2>1 DEF CallPhase, PhaseOps, ReversePassInv
  <2>2. CASE CallLaunch
    BY <2>2 DEF CallLaunch, ReversePassInv
  <2>3. CASE EnterGame \/ \E g \in {"null", "loaded"} : set_game(g)
    BY <2>3 DEF EnterGame, running, set_game, ReversePassInv
  <2>4. CASE CallStop
    BY <2>4, EnterPassInv DEF CallStop, EnterStop
  <2>5. CASE CallDetach
    BY <2>5, EnterPassInv DEF CallDetach, BeginDetach, EnterStop, EnterDetach, ReversePassInv
  <2>6. CASE CallRelease
    BY <2>6, EnterPassInv DEF CallRelease
  <2>7. CASE retain
    BY <2>7 DEF retain, Forget, ReversePassInv
  <2>8. CASE CallDrop
    BY <2>8, EnterPassInv DEF CallDrop, Forget, BeginDetach, EnterStop, EnterDetach, EnterDestroy,
                              EnterPass, ReversePassInv
  <2> QED
    BY <1>7, <2>1, <2>2, <2>3, <2>4, <2>5, <2>6, <2>7, <2>8 DEF Call
<1> QED
  BY <1>1, <1>2, <1>b, <1>3, <1>4, <1>5, <1>6, <1>7 DEF Next, Work, Progress

\* A detach pass that begins has everything before it.
LEMMA EnterDetachInv ==
    ASSUME TypeOK, NEW who, NEW E, EnterDetach(who, E),
           UNCHANGED <<lifeVars>>, participated \subseteq 1 .. loaded,
           E = {} => stopped'
    PROVE  DetachPassInv'
<1>1. /\ kept' = {} /\ calling' = 0 /\ todo' = 1 .. loaded /\ errors' = E
      /\ participated' \subseteq todo' /\ loaded' = loaded
  BY DEF EnterDetach, lifeVars
<1>2. Closed(1 .. loaded)
  <2>1. SUFFICES ASSUME NEW k \in 1 .. loaded, NEW d \in Deps[k]
                 PROVE  d \in 1 .. loaded
    BY DEF Closed
  <2>2. k \in Entries /\ d \in Entries /\ d < k
    BY DepsAssumption, NAssumption DEF TypeOK, Entries
  <2> QED
    BY <2>2, NAssumption DEF Entries, TypeOK
<1>3. Closed(todo')
  BY <1>1, <1>2
<1> QED
  BY <1>1, <1>3 DEF DetachPassInv, KeptClosed, Closed

\* An entry leaves the pass: it is detached or what it uses is kept.
LEMMA StepOfDetachPass ==
    ASSUME TypeOK, DetachPassInv, op = "detach", NEW i \in Free, todo' = todo \ {i},
           calling' = 0,
           KeptClosed', kept \subseteq kept',
           UNCHANGED <<loaded, participated, entry_stopped, op>>,
           entry_detached \subseteq entry_detached',
           \/ i \notin participated \cap entry_stopped
           \/ i \in entry_detached'
           \/ dependencies_of[i] \subseteq kept',
           errors' = {} => /\ errors = {} /\ kept' = kept
                           /\ i \in participated => i \in entry_detached',
           stopped => stopped'
    PROVE  DetachPassInv'
<1>1. Closed(todo')
  BY DEF Closed, Free, DetachPassInv
<1>2. \A c \in (participated' \cap entry_stopped') \ entry_detached' :
          c \in todo' \/ dependencies_of[c] \subseteq kept'
  BY DEF DetachPassInv
<1>3. errors' = {} => /\ kept' = {} /\ stopped'
                      /\ participated' \ entry_detached' \subseteq todo'
  BY DEF DetachPassInv
<1>4. todo' \subseteq 1 .. loaded'
  BY DEF DetachPassInv
<1> QED
  BY <1>1, <1>2, <1>3, <1>4 DEF DetachPassInv, Closed

\* What detach has still to do is closed under the order of the teardown, and
\* what it left undone is kept together with all it uses.
LEMMA DetachPassStep ==
    ASSUME TypeOK, ControlInv, EntryInv, ReversePassInv, DetachPassInv, Next
    PROVE  DetachPassInv'
<1>1. CASE Detach
  <2>a. op = "detach"
    BY <1>1 DEF Detach, DetachSkip, DetachCall, DetachOk, DetachFails, CleanupHooks,
                CleanupHooksFails, DetachDone
  <2>b. NextInOrder \subseteq Free
    BY DEF NextInOrder
  <2>1. CASE DetachSkip
    <3>1. PICK i \in NextInOrder : Skipped(i) /\ todo' = todo \ {i}
      BY <2>1 DEF DetachSkip
    <3>2. /\ UNCHANGED <<lifeVars, flags, op, errors, kept>> /\ calling' = 0
      BY <2>1 DEF DetachSkip
    <3>3. KeptClosed /\ KeptClosed'
      BY <2>a, <3>2 DEF DetachPassInv, KeptClosed
    <3>4. \/ i \notin participated \cap entry_stopped
          \/ i \in entry_detached
          \/ dependencies_of[i] \subseteq kept
      BY <3>1, <3>3 DEF Skipped, KeptClosed
    <3>5. errors = {} => (i \in participated => i \in entry_detached)
      BY <2>a, <3>1 DEF DetachPassInv, Skipped, EntryInv, FlagsTellTruth
    <3> QED
      BY <2>a, <2>b, <3>1, <3>2, <3>3, <3>4, <3>5, StepOfDetachPass DEF lifeVars, stopped
  <2>2. CASE DetachCall
    <3>1. PICK i \in NextInOrder : ~Skipped(i) /\ calling' = i
      BY <2>2 DEF DetachCall
    <3>2. /\ UNCHANGED <<lifeVars, flags, op, errors, kept, todo>>
      BY <2>2 DEF DetachCall, passVars
    <3>3. (calling \in Free /\ ~Skipped(calling))'
      BY <2>b, <3>1, <3>2 DEF Free, Skipped, lifeVars
    <3> QED
      BY <2>a, <3>2, <3>3 DEF DetachPassInv, KeptClosed, Closed, lifeVars, stopped
  <2>3. CASE DetachOk
    <3>1. UNCHANGED <<loaded, participated, entry_stopped, entry_detached, flags, op, calling,
                      todo, errors, kept>>
      BY <2>3 DEF DetachOk, passVars
    <3>2. Free' = Free /\ (Skipped(calling)' <=> Skipped(calling))
      BY <3>1 DEF Free, Skipped
    <3> QED
      BY <2>a, <3>1, <3>2 DEF DetachPassInv, KeptClosed, Closed, stopped
  <2>4. ASSUME calling # 0, DetachFailed, DetachStepped, UNCHANGED entry_detached
        PROVE  DetachPassInv'
    <3>1. calling \in Entries /\ calling \in Free
      BY <2>a, <2>4 DEF TypeOK, Entries, DetachPassInv
    <3>2. KeptClosed' /\ dependencies_of[calling] \subseteq kept'
      BY <2>a, <2>4, <3>1, KeptStaysClosed DEF DetachFailed, DetachPassInv
    <3> QED
      BY <2>a, <2>4, <3>1, <3>2, StepOfDetachPass DEF DetachFailed, DetachStepped, stopped
  <2>5. CASE DetachFails \/ CleanupHooksFails
    BY <2>4, <2>5 DEF DetachFails, CleanupHooksFails
  <2>6. CASE CleanupHooks
    <3>1. CASE calling \in direct
      BY <2>4, <2>6, <3>1 DEF CleanupHooks
    <3>2. CASE calling \notin direct
      <4>1. /\ entry_detached' = entry_detached \cup {calling}
            /\ UNCHANGED <<errors, kept>> /\ calling # 0 /\ DetachStepped
        BY <2>6, <3>2 DEF CleanupHooks
      <4>2. KeptClosed'
        BY <2>a, <4>1 DEF DetachPassInv, KeptClosed
      <4>3. calling \in Free
        BY <2>a, <4>1 DEF DetachPassInv
      <4> QED
        BY <2>a, <4>1, <4>2, <4>3, StepOfDetachPass DEF DetachStepped, stopped
    <3> QED
      BY <3>1, <3>2
  <2>7. CASE DetachDone
    <3>1. op' # "detach"
      BY <2>7 DEF DetachDone, Return, Forget, EnterPass
    <3> QED
      BY <3>1 DEF DetachPassInv
  <2> QED
    BY <1>1, <2>1, <2>2, <2>3, <2>5, <2>6, <2>7 DEF Detach
<1>2. CASE StopDone
  <2>1. CASE caller = "api"
    BY <1>2, <2>1 DEF StopDone, Return, DetachPassInv
  <2>2. CASE caller # "api"
    <3>1. EnterDetach(caller, errors) /\ UNCHANGED lifeVars
      BY <1>2, <2>2 DEF StopDone
    <3>2. errors = {} => stopped'
      BY <1>2 DEF StopDone, Finish, stopped
    <3> QED
      BY <3>1, <3>2, EnterDetachInv DEF EntryInv
  <2> QED
    BY <2>1, <2>2
<1>3. ASSUME NEW who, BeginDetach(who), UNCHANGED lifeVars
      PROVE  DetachPassInv'
  <2>1. CASE stopped
    <3>1. EnterDetach(who, {}) /\ stopped'
      BY <1>3, <2>1 DEF BeginDetach, stopped
    <3> QED
      BY <1>3, <3>1, EnterDetachInv DEF EntryInv
  <2>2. CASE ~stopped
    BY <1>3, <2>2 DEF BeginDetach, EnterStop, EnterPass, DetachPassInv
  <2> QED
    BY <2>1, <2>2
<1>4. CASE Load
  BY <1>3, <1>4 DEF Load, CreateEntry, CreateFails, Loaded, Return, Forget, DetachPassInv
<1>5. CASE RunPhase \/ Launch
  <2>1. op' # "detach"
    BY <1>5 DEF passVars, PhaseOps, RunPhase, EnterCallback, CallbackOk, CallbackFails, PhaseDone,
         Launch, LaunchReturns, Return
  <2> QED
    BY <2>1 DEF DetachPassInv
<1>b. CASE InCallback
  BY <1>b, CallbackFrame DEF lifeVars, passVars, DetachPassInv, KeptClosed, Closed, Free, Skipped,
     stopped
<1>6. CASE RunCleanup
  <2>1. CASE ~StopDone
    <3>1. op' # "detach"
      BY <1>6, <2>1 DEF RunCleanup, CleanupCall, CleanupOk, CleanupFails, ReleaseDone, Return,
           Forget, EnterDestroy, EnterPass
    <3> QED
      BY <3>1 DEF DetachPassInv
  <2> QED
    BY <1>2, <2>1
<1>7. CASE Drop \/ Ended
  <2>1. op' # "detach"
    BY <1>7 DEF Drop, DestroyEntry, Destroyed, Ended, vars
  <2> QED
    BY <2>1 DEF DetachPassInv
<1>8. CASE Call
  <2>1. CASE CallDetach
    BY <1>3, <2>1 DEF CallDetach
  <2>2. CASE CallDrop
    BY <1>3, <2>2 DEF CallDrop, Forget, EnterDestroy, EnterPass, DetachPassInv
  <2>3. ASSUME NEW o \in PhaseOps, CallPhase(o) PROVE DetachPassInv'
    BY <2>3 DEF CallPhase, PhaseOps, DetachPassInv
  <2>4. CASE CallLaunch \/ EnterGame \/ \E g \in {"null", "loaded"} : set_game(g)
    BY <2>4 DEF CallLaunch, EnterGame, running, set_game, DetachPassInv
  <2>5. CASE CallStop \/ CallRelease \/ retain
    BY <2>5 DEF CallStop, EnterStop, CallRelease, EnterPass, retain, Forget, DetachPassInv
  <2> QED
    BY <1>8, <2>1, <2>2, <2>3, <2>4, <2>5 DEF Call
<1> QED
  BY <1>1, <1>4, <1>5, <1>b, <1>6, <1>7, <1>8 DEF Next, Work, Progress

(***************************************************************************)
(* The theorems                                                            *)
(***************************************************************************)

\* A loaded host without entries satisfies the invariant.
LEMMA InitInv == Init => IInv
<1> SUFFICES ASSUME Init PROVE IInv
  OBVIOUS
<1>1. TypeOK
  <2>1. status \in [Entries -> Statuses]
    BY DEF Init, Statuses
  <2>2. group \in [Entries -> {"none", "created", "enabled"}]
    BY DEF Init
  <2> QED
    BY <2>1, <2>2, NAssumption, DefaultType DEF Init, TypeOK, PREPARE
<1>2. ControlInv
  BY NAssumption DEF Init, ControlInv, PhaseOps, detached, release_prepared
<1>3. EntryInv
  BY DEF Init, EntryInv, FlagsTellTruth, stopped, detached, release_prepared
<1>4. OrderInv /\ ReversePassInv /\ DetachPassInv
  BY DEF Init, OrderInv, ReversePassInv, DetachPassInv
<1> QED
  BY <1>1, <1>2, <1>3, <1>4 DEF IInv

\* A step that changes nothing keeps the invariant.
LEMMA StutterInv ==
    ASSUME IInv, UNCHANGED vars
    PROVE  IInv'
<1> USE DEF vars, lifeVars, modVars, passVars
<1>1. TypeOK' /\ OrderInv'
  BY DEF IInv, TypeOK, OrderInv
<1>2. ControlInv' /\ EntryInv'
  BY DEF IInv, ControlInv, EntryInv, FlagsTellTruth, stopped, detached, release_prepared,
         shutting_down
<1>3. ReversePassInv'
  BY DEF IInv, ReversePassInv, KeptClosed, Cursor, Completed, Eligible
<1>4. DetachPassInv'
  BY DEF IInv, DetachPassInv, KeptClosed, Closed, Free, Skipped, stopped
<1> QED
  BY <1>1, <1>2, <1>3, <1>4 DEF IInv

\* The inductive invariant holds in every state of the host.
THEOREM HostInvariant == Spec => []IInv
<1>1. Init => IInv
  BY InitInv
<1>2. IInv /\ [Next]_vars => IInv'
  <2> SUFFICES ASSUME IInv, [Next]_vars PROVE IInv'
    OBVIOUS
  <2>1. CASE Next
    BY <2>1, TypeStep, ControlStep, EntryStep, OrderStep, ReversePassStep, DetachPassStep DEF IInv
  <2>2. CASE UNCHANGED vars
    BY <2>2, StutterInv
  <2> QED
    BY <2>1, <2>2
<1> QED
  BY <1>1, <1>2, PTL DEF Spec

(***************************************************************************)
(* The host implements ModLifecycle                                        *)
(***************************************************************************)

\* One entry changes its rung.
LEMMA MoveOne ==
    ASSUME NEW m \in Entries, NEW from, NEW to, Rung(m) = from, Rung(m)' = to,
           \A i \in Entries \ {m} : Rung(i)' = Rung(i)
    PROVE  Lifecycle!Move(m, from, to)
BY DEF Lifecycle!Move, rungs

\* A consumer of a mod depends on it and comes after it.
LEMMA ConsumersUse ==
    ASSUME NEW p \in Entries, NEW c \in Consumers[p]
    PROVE  c \in Entries /\ p \in dependencies_of[c] /\ c # p /\ p < c
BY DependenciesLower, NAssumption DEF Consumers, Entries

\* Every step of the host is one step of the life of each mod, or none.
LEMMA RefinementStep ==
    ASSUME IInv, IInv', Next
    PROVE  Lifecycle!Next \/ UNCHANGED rungs
<1>a. /\ TypeOK /\ ControlInv /\ EntryInv /\ OrderInv /\ TypeOK' /\ EntryInv' /\ OrderInv'
      /\ ReversePassInv /\ DetachPassInv
  BY DEF IInv
<1>b. \A i \in Entries : rungs[i] = Rung(i)
  BY DEF rungs
<1>c. loaded \in 0 .. N /\ participated \subseteq 1 .. loaded
  BY <1>a DEF TypeOK, EntryInv
<1> USE NAssumption DEF Entries
<1>1. CASE CreateEntry
  <2>m. PICK m \in Entries : m = loaded + 1
    BY <1>1, <1>a DEF CreateEntry, TypeOK
  <2>1. m \in Entries /\ alive = 1 .. loaded /\ participated = {} /\ participated' = {}
    BY <1>1, <1>a, <1>c DEF CreateEntry, ControlInv
  <2>2. \A p \in Entries : m \in Consumers[p] => rungs[p] # "absent"
    BY <1>b, <1>c, <2>m, <2>1, ConsumersUse DEF Rung
  <2>3. Rung(m) = "absent" /\ Rung(m)' = "idle"
    BY <1>1, <1>c, <2>m, <2>1 DEF CreateEntry, Rung
  <2>4. \A i \in Entries \ {m} : Rung(i)' = Rung(i)
    BY <1>1, <1>c, <2>m DEF CreateEntry, Rung
  <2>5. Lifecycle!Create(m)
    BY <2>1, <2>2, <2>3, <2>4, MoveOne DEF Lifecycle!Create
  <2> QED
    BY <2>1, <2>5 DEF Lifecycle!Next
<1>2. CASE EnterCallback
  <2>1. /\ pos \in Entries /\ pos <= loaded /\ alive = 1 .. loaded /\ ~shutting_down
        /\ participated' = participated \cup {pos}
        /\ UNCHANGED <<loaded, alive, entry_stopped, entry_detached, entry_released>>
    BY <1>2, <1>a, <1>c DEF EnterCallback, ControlInv, PhaseOps
  <2>2. entry_stopped = {}
    BY <1>a, <2>1 DEF EntryInv
  <2>m. PICK m \in Entries : m = pos
    BY <2>1
  <2>3. CASE pos \in participated
    <3>1. participated' = participated
      BY <2>1, <2>3
    <3> QED
      BY <2>1, <3>1 DEF rungs, Rung
  <2>4. CASE pos \notin participated
    <3>1. \A n \in Entries : rungs[n] \in {"absent", "idle", "active"}
      BY <1>b, <1>c, <2>1, <2>2 DEF Rung
    <3>2. Rung(m) = "idle" /\ Rung(m)' = "active"
      BY <1>c, <2>m, <2>1, <2>2, <2>4 DEF Rung
    <3>3. \A i \in Entries \ {m} : Rung(i)' = Rung(i)
      BY <2>1, <2>m DEF Rung
    <3>4. Lifecycle!Participate(m)
      BY <2>1, <3>1, <3>2, <3>3, MoveOne DEF Lifecycle!Participate
    <3> QED
      BY <2>1, <3>4 DEF Lifecycle!Next
  <2> QED
    BY <2>3, <2>4
<1>3. CASE CleanupOk
  <2>1. /\ calling \in Eligible /\ calling \in Entries /\ op \in {"stop", "release"}
        /\ alive = 1 .. loaded
        /\ UNCHANGED <<loaded, alive, participated, entry_detached>>
    BY <1>3, <1>a DEF CleanupOk, ControlInv, ReversePassInv, TypeOK
  <2>m. PICK m \in Entries : m = calling
    BY <2>1
  <2>2. CASE op = "stop"
    <3>1. /\ m \in participated \ entry_stopped
          /\ entry_stopped' = entry_stopped \cup {m} /\ entry_released' = entry_released
      BY <1>3, <2>1, <2>m, <2>2 DEF CleanupOk, Eligible, Completed
    <3>2. \A c \in Consumers[m] : rungs[c] # "active"
      <4>1. SUFFICES ASSUME NEW c \in Consumers[m], rungs[c] = "active" PROVE FALSE
        OBVIOUS
      <4>2. c \in Entries /\ m \in dependencies_of[c] /\ c # m
        BY <4>1, ConsumersUse
      <4>3. c \in participated \ entry_stopped
        BY <1>b, <4>1, <4>2 DEF Rung
      <4> QED
        BY <1>a, <2>1, <3>1, <4>2, <4>3 DEF OrderInv
    <3>3. Rung(m) = "active" /\ Rung(m)' = "stopped"
      BY <1>a, <1>c, <2>1, <2>m, <3>1 DEF Rung, EntryInv
    <3>4. \A i \in Entries \ {m} : Rung(i)' = Rung(i)
      BY <2>1, <3>1 DEF Rung
    <3>5. Lifecycle!Stop(m)
      BY <2>1, <3>2, <3>3, <3>4, MoveOne DEF Lifecycle!Stop
    <3> QED
      BY <2>1, <3>5 DEF Lifecycle!Next
  <2>3. CASE op = "release"
    <3>1. /\ m \in participated \ entry_released
          /\ entry_released' = entry_released \cup {m} /\ entry_stopped' = entry_stopped
      BY <1>3, <2>1, <2>m, <2>3 DEF CleanupOk, Eligible, Completed
    <3>2. participated \subseteq entry_detached /\ entry_detached \subseteq entry_stopped
      BY <1>a, <2>3 DEF ControlInv, EntryInv, FlagsTellTruth
    <3>3. \A n \in Entries : rungs[n] \notin {"active", "stopped"}
      BY <1>b, <3>2 DEF Rung
    <3>4. \A c \in Consumers[m] : rungs[c] # "detached"
      <4>1. SUFFICES ASSUME NEW c \in Consumers[m], rungs[c] = "detached" PROVE FALSE
        OBVIOUS
      <4>2. c \in Entries /\ m \in dependencies_of[c] /\ c # m
        BY <4>1, ConsumersUse
      <4>3. c \in participated \ entry_released
        BY <1>b, <4>1, <4>2 DEF Rung
      <4> QED
        BY <1>a, <2>1, <3>1, <4>2, <4>3 DEF OrderInv
    <3>5. Rung(m) = "detached" /\ Rung(m)' = "released"
      BY <1>c, <2>1, <2>m, <3>1, <3>2 DEF Rung
    <3>6. \A i \in Entries \ {m} : Rung(i)' = Rung(i)
      BY <2>1, <3>1 DEF Rung
    <3>7. Lifecycle!Release(m)
      BY <2>1, <3>3, <3>4, <3>5, <3>6, MoveOne DEF Lifecycle!Release
    <3> QED
      BY <2>1, <3>7 DEF Lifecycle!Next
  <2> QED
    BY <2>1, <2>2, <2>3
<1>4. CASE DetachOk
  BY <1>4 DEF DetachOk, rungs, Rung
<1>5. CASE CleanupHooks
  <2>1. UNCHANGED <<loaded, alive, participated, entry_stopped, entry_released>>
    BY <1>5 DEF CleanupHooks, DetachStepped
  <2>2. CASE calling \in direct
    <3>1. entry_detached' = entry_detached
      BY <1>5, <2>2 DEF CleanupHooks
    <3> QED
      BY <2>1, <3>1 DEF rungs, Rung
  <2>3. CASE calling \notin direct
    <3>1. /\ entry_detached' = entry_detached \cup {calling}
          /\ calling \in (participated \cap entry_stopped) \ entry_detached
          /\ alive = 1 .. loaded /\ calling \in Entries
      BY <1>5, <1>a, <2>3 DEF CleanupHooks, DetachPassInv, Skipped, ControlInv, TypeOK
    <3>m. PICK m \in Entries : m = calling
      BY <3>1
    <3>2. \A c \in Consumers[m] : rungs[c] \notin {"active", "stopped"}
      <4>1. SUFFICES ASSUME NEW c \in Consumers[m], rungs[c] \in {"active", "stopped"}
                     PROVE  FALSE
        OBVIOUS
      <4>2. c \in Entries /\ m \in dependencies_of[c] /\ c # m
        BY <4>1, ConsumersUse
      <4>3. c \in participated \ entry_detached
        BY <1>a, <1>b, <4>1, <4>2 DEF Rung, EntryInv
      <4> QED
        BY <1>a, <2>1, <3>1, <3>m, <4>2, <4>3 DEF OrderInv
    <3>3. Rung(m) = "stopped" /\ Rung(m)' = "detached"
      BY <1>a, <1>c, <2>1, <3>1, <3>m DEF Rung, EntryInv
    <3>4. \A i \in Entries \ {m} : Rung(i)' = Rung(i)
      BY <2>1, <3>1, <3>m DEF Rung
    <3>5. Lifecycle!Detach(m)
      BY <3>1, <3>2, <3>3, <3>4, MoveOne DEF Lifecycle!Detach
    <3> QED
      BY <3>1, <3>5 DEF Lifecycle!Next
  <2> QED
    BY <2>2, <2>3
<1>6. CASE DestroyEntry
  <2>1. /\ pos \in Entries /\ pos <= loaded /\ alive = 1 .. pos /\ alive' = alive \ {pos}
        /\ UNCHANGED <<loaded, participated, entry_stopped, entry_detached, entry_released>>
        /\ detached /\ release_prepared
    BY <1>6, <1>a, <1>c DEF DestroyEntry, ControlInv, TypeOK
  <2>2. /\ participated \subseteq entry_released /\ participated \subseteq entry_detached
        /\ participated \subseteq entry_stopped
    BY <1>a, <2>1 DEF EntryInv, FlagsTellTruth
  <2>3. \A n \in Entries : rungs[n] \notin {"active", "stopped", "detached"}
    BY <1>b, <2>2 DEF Rung
  <2>m. PICK m \in Entries : m = pos
    BY <2>1
  <2>4. \A c \in Consumers[m] : rungs[c] \in {"absent", "gone"}
    BY <1>b, <1>c, <2>m, <2>1, ConsumersUse DEF Rung
  <2>5. Rung(m) \in {"released", "idle"} /\ Rung(m)' = "gone"
    BY <1>c, <2>m, <2>1, <2>2 DEF Rung
  <2>6. \A i \in Entries \ {m} : Rung(i)' = Rung(i)
    BY <2>1, <2>m DEF Rung
  <2>7. Lifecycle!Destroy(m)
    BY <2>1, <2>3, <2>4, <2>5, <2>6, MoveOne DEF Lifecycle!Destroy
  <2> QED
    BY <2>1, <2>7 DEF Lifecycle!Next
<1>7. CASE UNCHANGED lifeVars
  BY <1>7 DEF lifeVars, rungs, Rung
<1> QED
  BY <1>1, <1>2, <1>3, <1>4, <1>5, <1>6, <1>7, Frame

\* The host implements the ladder of ModLifecycle.
THEOREM HostImplements == Spec => Implements
<1>1. Init => Lifecycle!Init
  BY NAssumption DEF Init, Lifecycle!Init, rungs, Rung, Entries
<1>2. IInv /\ IInv' /\ [Next]_vars => [Lifecycle!Next]_rungs
  <2>1. CASE UNCHANGED vars
    BY <2>1 DEF vars, lifeVars, rungs, Rung
  <2> QED
    BY <2>1, RefinementStep
<1> QED
  BY <1>1, <1>2, HostInvariant, PTL DEF Spec, Implements, Lifecycle!Spec

(***************************************************************************)
(* The other safety properties                                             *)
(***************************************************************************)

\* Every variable keeps its type.
THEOREM HostTypes == Spec => []TypeOK
BY HostInvariant, PTL DEF IInv

\* The record of finished cleanups that Drop relies on is right.
THEOREM HostFlags == Spec => []FlagsTellTruth
BY HostInvariant, PTL DEF IInv, EntryInv

\* A phase has been through all entries below its cursor.
PhaseInv ==
    op \in PhaseOps =>
        /\ \A p \in 1 .. pos - 1 : p \in participated /\ status[p] = op
        /\ calling # 0 => calling \in participated

\* Every step keeps PhaseInv.
LEMMA PhaseStep ==
    ASSUME IInv, PhaseInv, Next
    PROVE  PhaseInv'
<1>a. TypeOK /\ ControlInv
  BY DEF IInv
<1>1. CASE EnterCallback
  BY <1>1 DEF EnterCallback, PhaseInv, passVars
<1>2. CASE CallbackOk
  <2>1. /\ op \in PhaseOps /\ calling = pos /\ pos \in Nat /\ pos' = pos + 1 /\ op' = op
        /\ participated' = participated /\ pos \in Entries /\ loaded \in Nat
        /\ status' = [status EXCEPT ![pos] = op] /\ status \in [Entries -> Statuses]
    BY <1>2, <1>a, NAssumption DEF CallbackOk, ControlInv, lifeVars, TypeOK, Entries
  <2>2. \A p \in 1 .. pos - 1 : p \in Entries
    BY <2>1, NAssumption DEF Entries
  <2>3. pos \in participated
    BY <1>2, <2>1, NAssumption DEF PhaseInv, Entries
  <2> QED
    BY <1>2, <2>1, <2>2, <2>3, NAssumption DEF CallbackOk, PhaseInv
<1>3. CASE \E o \in PhaseOps : CallPhase(o)
  BY <1>3, <1>a DEF CallPhase, PhaseInv, ControlInv
<1>4. CASE InCallback
  <2>1. UNCHANGED <<op, pos, participated, status, calling>>
    BY <1>4 DEF InCallback, Register, CreateGroup, EnableGroup, DiscardGroup, SetGroup,
                HookDirectly, AcquireGame, lifeVars, passVars
  <2> QED
    BY <2>1 DEF PhaseInv
<1>5. CASE \/ CallbackFails \/ PhaseDone \/ Load \/ Launch \/ RunCleanup \/ Detach \/ Drop
           \/ Ended
  <2>1. op' \notin PhaseOps
    BY <1>5 DEF PhaseOps, CallbackFails, PhaseDone, Return, Load, CreateEntry, CreateFails,
         Loaded, Forget, BeginDetach, EnterStop, EnterDetach, EnterPass, EnterDestroy,
         Launch, LaunchReturns, RunCleanup, CleanupCall, CleanupOk, CleanupFails, StopDone,
         ReleaseDone, Detach, DetachSkip, DetachCall, DetachOk, DetachFails, CleanupHooks,
         CleanupHooksFails, DetachStepped, DetachDone, Drop, DestroyEntry, Destroyed, Ended, vars
  <2> QED
    BY <2>1 DEF PhaseInv
<1>6. CASE \/ CallLaunch \/ EnterGame \/ CallStop \/ CallDetach \/ CallRelease \/ retain
           \/ CallDrop \/ \E g \in {"null", "loaded"} : set_game(g)
  <2>1. op' \notin PhaseOps
    BY <1>6 DEF PhaseOps, CallLaunch, EnterGame, running, set_game, CallStop, CallDetach,
         CallRelease, retain, CallDrop, Forget, BeginDetach, EnterStop, EnterDetach, EnterPass,
         EnterDestroy
  <2> QED
    BY <2>1 DEF PhaseInv
<1> QED
  BY <1>1, <1>2, <1>3, <1>4, <1>5, <1>6 DEF Next, Work, Progress, RunPhase, Call

\* A mod that runs a startup phase finds everything it uses past that phase.
THEOREM HostProvidersReady == Spec => []ProvidersReady
<1>1. Init => PhaseInv
  BY DEF Init, PhaseInv, PhaseOps
<1>2. IInv /\ PhaseInv /\ [Next]_vars => PhaseInv'
  <2>1. ASSUME PhaseInv, UNCHANGED vars PROVE PhaseInv'
    BY <2>1 DEF PhaseInv, vars, lifeVars, passVars
  <2> QED
    BY <2>1, PhaseStep
<1>3. IInv /\ PhaseInv => ProvidersReady
  <2>1. SUFFICES ASSUME IInv, PhaseInv, op \in PhaseOps, calling # 0,
                        NEW p \in dependencies_of[calling]
                 PROVE  p \in participated /\ status[p] = op
    BY DEF ProvidersReady
  <2>2. calling \in Entries /\ calling = pos
    BY <2>1, NAssumption DEF IInv, TypeOK, ControlInv, Entries
  <2>3. p \in 1 .. pos - 1
    BY <2>1, <2>2, DependenciesLower
  <2> QED
    BY <2>1, <2>3 DEF PhaseInv
<1> QED
  BY <1>1, <1>2, <1>3, HostInvariant, PTL DEF Spec

\* Only a mod that took part in a phase and is not detached is hooked anywhere.
HookInv ==
    \A i \in Entries :
        group[i] # "none" \/ i \in direct => i \in participated \ entry_detached

\* Every step keeps HookInv.
LEMMA HookStep ==
    ASSUME IInv, PhaseInv, HookInv, Next
    PROVE  HookInv'
<1>a. TypeOK /\ ControlInv /\ EntryInv
  BY DEF IInv
<1>1. CASE EnterCallback
  BY <1>1 DEF EnterCallback, HookInv, modVars
<1>2. CASE CreateGroup \/ EnableGroup \/ HookDirectly
  <2>1. /\ op \in PhaseOps /\ calling # 0 /\ calling \in Entries
        /\ UNCHANGED <<participated, entry_detached>>
        /\ \A i \in Entries \ {calling} : group'[i] = group[i]
        /\ \A i \in Entries \ {calling} : i \in direct' <=> i \in direct
    BY <1>2, <1>a, NAssumption DEF CreateGroup, EnableGroup, HookDirectly, SetGroup,
         registering, PhaseOps, lifeVars, TypeOK, Entries
  <2>2. calling \in participated /\ entry_detached = {}
    BY <1>a, <2>1 DEF PhaseInv, ControlInv, EntryInv
  <2> QED
    BY <2>1, <2>2 DEF HookInv
<1>b. CASE DiscardGroup
  BY <1>b, <1>a DEF DiscardGroup, SetGroup, lifeVars, HookInv, TypeOK
<1>3. CASE CleanupHooks
  <2>1. /\ group' = [group EXCEPT ![calling] = "none"] /\ UNCHANGED <<participated, direct>>
        /\ calling \in Entries
    BY <1>3, <1>a, NAssumption DEF CleanupHooks, DetachStepped, TypeOK, Entries
  <2>2. CASE calling \in direct
    BY <1>3, <1>a, <2>1, <2>2 DEF CleanupHooks, HookInv, TypeOK
  <2>3. CASE calling \notin direct
    BY <1>3, <1>a, <2>1, <2>3 DEF CleanupHooks, HookInv, TypeOK
  <2> QED
    BY <2>2, <2>3
<1>4. CASE DetachOk
  BY <1>4 DEF DetachOk, HookInv
<1>5. CASE CleanupOk
  BY <1>5 DEF CleanupOk, HookInv
<1>6. CASE UNCHANGED <<participated, entry_detached, group, direct>>
  BY <1>6 DEF HookInv
<1> QED
  BY <1>1, <1>2, <1>b, <1>3, <1>4, <1>5, <1>6 DEF lifeVars, modVars, vars, Next, Work, Progress, Load,
       RunPhase, InCallback, Launch, RunCleanup, Detach, Drop, Call, Ended,
       CreateEntry, CreateFails, Loaded, CallbackOk, CallbackFails, PhaseDone, Register,
       AcquireGame, LaunchReturns, CleanupCall, CleanupFails, StopDone, ReleaseDone,
       DetachSkip, DetachCall, DetachFails, DetachStepped, CleanupHooksFails, DetachDone,
       DestroyEntry, Destroyed, CallPhase, CallLaunch, EnterGame, running, set_game, CallStop,
       CallDetach, CallRelease, retain, CallDrop

\* No hook outlives the detach of the mod it belongs to, nor the mod.
THEOREM HostNoOrphanHooks == Spec => []NoOrphanHooks
<1>1. Init => PhaseInv /\ HookInv
  BY DEF Init, PhaseInv, PhaseOps, HookInv
<1>2. IInv /\ PhaseInv /\ HookInv /\ [Next]_vars => PhaseInv' /\ HookInv'
  <2>1. ASSUME PhaseInv, HookInv, UNCHANGED vars PROVE PhaseInv' /\ HookInv'
    BY <2>1 DEF PhaseInv, HookInv, vars, lifeVars, modVars, passVars
  <2> QED
    BY <2>1, PhaseStep, HookStep
<1>3. IInv /\ HookInv => NoOrphanHooks
  <2>1. SUFFICES ASSUME IInv, HookInv, NEW i \in Entries, group[i] # "none" \/ i \in direct
                 PROVE  i \in alive \ entry_detached
    BY DEF NoOrphanHooks
  <2>2. i \in participated \ entry_detached
    BY <2>1 DEF HookInv
  <2>3. op \notin {"destroy", "gone"}
    BY <2>1, <2>2 DEF IInv, ControlInv, EntryInv, FlagsTellTruth
  <2> QED
    BY <2>1, <2>2, <2>3 DEF IInv, ControlInv, EntryInv
<1> QED
  BY <1>1, <1>2, <1>3, HostInvariant, PTL DEF Spec

\* Native code and the cleanup of the mods exclude each other.
NativeInv ==
    native_running =>
        /\ ~detached /\ op \notin {"detach", "release", "destroy", "gone"}
        /\ op = "stop" => caller = "api"

\* Every step keeps NativeInv.
LEMMA NativeStep ==
    ASSUME IInv, NativeInv, Next
    PROVE  NativeInv'
<1>a. TypeOK /\ ControlInv /\ EntryInv
  BY DEF IInv
<1> USE DEF native_running, detached, stopped, shutting_down, release_prepared
<1>1. ASSUME NEW who, BeginDetach(who) PROVE NativeInv'
  BY <1>1 DEF BeginDetach, NativeInv
<1>2. CASE EnterGame
  BY <1>2, <1>a DEF EnterGame, running, NativeInv, EntryInv, ControlInv
<1>3. CASE Load
  BY <1>1, <1>3, <1>a DEF Load, CreateEntry, CreateFails, Loaded, Return, Forget, NativeInv,
       passVars
<1>b. CASE InCallback
  BY <1>b, CallbackFrame DEF passVars, NativeInv
<1>4. CASE RunPhase \/ Launch
  <2>1. /\ native_running' => native_running
        /\ detached' => detached
        /\ op' \in PhaseOps \cup {"idle", "launch"}
    BY <1>4 DEF passVars, PhaseOps, RunPhase, EnterCallback, CallbackOk, CallbackFails, PhaseDone,
         Launch, LaunchReturns, Return
  <2> QED
    BY <2>1 DEF NativeInv, PhaseOps
<1>5. CASE RunCleanup
  <2>1. CASE StopDone
    BY <2>1 DEF StopDone, Finish, Return, EnterDetach, NativeInv
  <2>2. CASE ReleaseDone
    BY <2>2 DEF ReleaseDone, Finish, NativeInv
  <2>3. CASE CleanupCall \/ CleanupOk \/ CleanupFails
    BY <2>3 DEF CleanupCall, CleanupOk, CleanupFails, passVars, NativeInv
  <2> QED
    BY <1>5, <2>1, <2>2, <2>3 DEF RunCleanup
<1>6. CASE Detach
  <2>1. op = "detach" /\ (native_running' => native_running)
    BY <1>6 DEF Detach, DetachSkip, DetachCall, DetachOk, DetachFails, CleanupHooks,
         CleanupHooksFails, DetachStepped, DetachDone, Finish
  <2> QED
    BY <2>1 DEF NativeInv
<1>7. CASE Drop \/ Ended
  BY <1>7 DEF Drop, DestroyEntry, Destroyed, Ended, vars, passVars, NativeInv
<1>8. CASE CallDetach \/ CallDrop
  BY <1>1, <1>8 DEF CallDetach, CallDrop, Forget, EnterPass, EnterDestroy, NativeInv
<1>9. CASE \/ \E o \in PhaseOps : CallPhase(o)
           \/ CallLaunch \/ \E g \in {"null", "loaded"} : set_game(g)
           \/ CallStop \/ CallRelease \/ retain
  BY <1>9 DEF CallPhase, PhaseOps, CallLaunch, set_game, CallStop, EnterStop, EnterPass,
       CallRelease, retain, Forget, passVars, NativeInv
<1> QED
  BY <1>2, <1>3, <1>b, <1>4, <1>5, <1>6, <1>7, <1>8, <1>9 DEF Next, Work, Progress, Call

\* While native code may run, every mod is there and none is being taken down.
THEOREM HostNativeCodeKeepsMods == Spec => []NativeCodeKeepsMods
<1>1. Init => NativeInv
  BY DEF Init, NativeInv, native_running
<1>2. IInv /\ NativeInv /\ [Next]_vars => NativeInv'
  <2>1. ASSUME NativeInv, UNCHANGED vars PROVE NativeInv'
    BY <2>1 DEF NativeInv, native_running, detached, vars, passVars
  <2> QED
    BY <2>1, NativeStep
<1>3. IInv /\ NativeInv => NativeCodeKeepsMods
  BY DEF IInv, ControlInv, NativeInv, NativeCodeKeepsMods
<1> QED
  BY <1>1, <1>2, <1>3, HostInvariant, PTL DEF Spec

\* Whatever is published comes from a mod that took part, and before the first phase
\* is complete from one below the cursor, or below the mod that failed.
PublishedInv ==
    \A i \in Entries, n \in Interfaces : <<i, n>> \in published =>
        /\ i \in participated
        /\ next_phase = PREPARE =>
            \/ op = "prepare" /\ i < pos
            \/ \E j \in participated : i < j

\* The actions that matter to it; the others leave what it speaks of where it is.
LEMMA PublishedFrame ==
    ASSUME Next
    PROVE  \/ CallbackOk \/ CallbackFails \/ PhaseDone \/ \E o \in PhaseOps : CallPhase(o)
           \/ /\ UNCHANGED <<published, next_phase>> /\ participated \subseteq participated'
              /\ op = "prepare" => UNCHANGED <<op, pos>>
<1> USE DEF lifeVars, modVars, passVars, PhaseOps
<1>1. CASE RunPhase
  BY <1>1 DEF RunPhase, EnterCallback
<1>2. CASE InCallback
  BY <1>2 DEF InCallback, Register, CreateGroup, EnableGroup, DiscardGroup, SetGroup, HookDirectly,
       AcquireGame
<1>3. CASE Load \/ Launch
  BY <1>3 DEF Load, CreateEntry, CreateFails, Loaded, Launch, LaunchReturns
<1>4. CASE RunCleanup
  BY <1>4 DEF RunCleanup, CleanupCall, CleanupOk, CleanupFails, StopDone, ReleaseDone
<1>5. CASE Detach
  BY <1>5 DEF Detach, DetachSkip, DetachCall, DetachOk, DetachFails, CleanupHooks,
       CleanupHooksFails, DetachStepped, DetachDone
<1>6. CASE Drop \/ Ended
  BY <1>6 DEF Drop, DestroyEntry, Destroyed, Ended, vars
<1>7. CASE Call
  BY <1>7 DEF Call, CallLaunch, EnterGame, running, set_game, CallStop, CallDetach, CallRelease,
       retain, CallDrop
<1> QED
  BY <1>1, <1>2, <1>3, <1>4, <1>5, <1>6, <1>7 DEF Next, Work, Progress

\* Every step keeps PublishedInv.
LEMMA PublishedStep ==
    ASSUME IInv, PhaseInv, PublishedInv, Next
    PROVE  PublishedInv'
<1>a. TypeOK /\ ControlInv
  BY DEF IInv
<1>1. CASE CallbackOk
  <2>1. /\ op \in PhaseOps /\ calling = pos /\ pos \in Nat /\ pos' = pos + 1 /\ op' = op
        /\ published' = published \cup ({pos} \X pending)
        /\ UNCHANGED <<participated, next_phase>> /\ next_phase = PhaseOf[op]
        /\ pos \in participated
    BY <1>1, <1>a, NAssumption DEF CallbackOk, ControlInv, PhaseInv, lifeVars, TypeOK, Entries
  <2>2. next_phase = PREPARE => op = "prepare"
    BY <2>1 DEF PhaseOf, PhaseOps, PREPARE, CHECK, ATTACH
  <2>3. ASSUME NEW i \in Entries, NEW n \in Interfaces, <<i, n>> \in published'
        PROVE  <<i, n>> \in published \/ i = pos
    BY <2>1, <2>3
  <2> SUFFICES ASSUME NEW i \in Entries, NEW n \in Interfaces, <<i, n>> \in published'
               PROVE  /\ i \in participated
                      /\ next_phase = PREPARE =>
                           \/ op = "prepare" /\ i < pos + 1
                           \/ \E j \in participated : i < j
    BY <2>1 DEF PublishedInv
  <2>4. CASE <<i, n>> \in published
    BY <2>1, <2>4, NAssumption DEF PublishedInv, Entries
  <2>5. CASE i = pos
    BY <2>1, <2>2, <2>5
  <2> QED
    BY <2>3, <2>4, <2>5
<1>2. CASE CallbackFails
  <2>1. /\ op \in PhaseOps /\ calling = pos /\ pos \in participated
        /\ UNCHANGED <<published, participated, next_phase>>
    BY <1>2, <1>a DEF CallbackFails, ControlInv, PhaseInv, lifeVars
  <2> QED
    BY <2>1 DEF PublishedInv
<1>3. CASE PhaseDone
  <2>1. next_phase' = next_phase + 1 /\ next_phase \in Nat /\ UNCHANGED <<published, participated>>
    BY <1>3, <1>a DEF PhaseDone, TypeOK, lifeVars, modVars
  <2>2. next_phase' # PREPARE
    BY <2>1 DEF PREPARE
  <2> QED
    BY <2>1, <2>2 DEF PublishedInv
<1>4. CASE \E o \in PhaseOps : CallPhase(o)
  <2>1. op # "prepare" /\ UNCHANGED <<published, participated, next_phase>>
    BY <1>4 DEF CallPhase, lifeVars, modVars
  <2> QED
    BY <2>1 DEF PublishedInv
<1>5. CASE /\ UNCHANGED <<published, next_phase>> /\ participated \subseteq participated'
           /\ op = "prepare" => UNCHANGED <<op, pos>>
  BY <1>5 DEF PublishedInv
<1> QED
  BY <1>1, <1>2, <1>3, <1>4, <1>5, PublishedFrame

\* A mod that failed to prepare, or has not prepared yet, has published nothing
\* (discard_interfaces, context.rs).
THEOREM HostHalfPreparedHidden == Spec => []HalfPreparedHidden
<1>1. Init => PhaseInv /\ PublishedInv
  BY DEF Init, PhaseInv, PhaseOps, PublishedInv
<1>2. IInv /\ PhaseInv /\ PublishedInv /\ [Next]_vars => PhaseInv' /\ PublishedInv'
  <2>1. ASSUME PhaseInv, PublishedInv, UNCHANGED vars PROVE PhaseInv' /\ PublishedInv'
    BY <2>1 DEF PhaseInv, PublishedInv, vars, lifeVars, modVars, passVars
  <2> QED
    BY <2>1, PhaseStep, PublishedStep
<1>3. PublishedInv => HalfPreparedHidden
  BY DEF PublishedInv, HalfPreparedHidden
<1> QED
  BY <1>1, <1>2, <1>3, HostInvariant, PTL DEF Spec

\* In a pass of stop, what is behind the cursor is stopped, or failed, or is kept
\* because something that uses it failed in this pass.
StopLocalInv ==
    op = "stop" =>
        /\ \A i \in participated \ entry_stopped :
                i <= Cursor \/ i \in kept \/ status[i] = "stop_failed"
        /\ \A k \in kept : \E c \in participated \ entry_stopped :
                c > Cursor /\ k \in dependencies_of[c] /\ status[c] = "stop_failed"

\* In a pass of detach, the same of the entries that were stopped; that an entry was
\* not goes back to one whose stop failed.
DetachLocalInv ==
    op = "detach" =>
        /\ \A i \in participated \ entry_stopped :
            \E c \in participated \ entry_stopped :
                (c = i \/ i \in dependencies_of[c]) /\ status[c] = "stop_failed"
        /\ \A i \in (participated \cap entry_stopped) \ entry_detached :
                i \in todo \/ i \in kept \/ status[i] = "detach_failed"
        /\ \A k \in kept : \E c \in ((participated \cap entry_stopped) \ entry_detached) \ todo :
                k \in dependencies_of[c] /\ status[c] = "detach_failed"

\* A pass of stop that begins has everything before it.
LEMMA EnterStopLocal ==
    ASSUME EntryInv, TypeOK, NEW who, EnterPass("stop", who), UNCHANGED lifeVars
    PROVE  StopLocalInv' /\ DetachLocalInv'
<1>1. /\ op' = "stop" /\ kept' = {} /\ Cursor' = loaded
      /\ UNCHANGED <<participated, entry_stopped>>
  BY DEF EnterPass, Cursor, lifeVars
<1>2. \A i \in participated : i <= loaded
  BY DEF EntryInv, TypeOK
<1> QED
  BY <1>1, <1>2 DEF StopLocalInv, DetachLocalInv

\* So has a pass of detach; what was not stopped has its reason.
LEMMA EnterDetachLocal ==
    ASSUME EntryInv, NEW who, NEW E, EnterDetach(who, E), UNCHANGED <<lifeVars>>,
           \A i \in participated \ entry_stopped :
              \E c \in participated \ entry_stopped :
                (c = i \/ i \in dependencies_of[c]) /\ status'[c] = "stop_failed"
    PROVE  StopLocalInv' /\ DetachLocalInv'
<1>1. /\ op' = "detach" /\ kept' = {} /\ todo' = 1 .. loaded
      /\ UNCHANGED <<participated, entry_stopped, entry_detached>>
  BY DEF EnterDetach, lifeVars
<1>2. participated \subseteq 1 .. loaded
  BY DEF EntryInv
<1> QED
  BY <1>1, <1>2 DEF StopLocalInv, DetachLocalInv

\* detach as a whole begins with stop unless that is complete.
LEMMA BeginDetachLocal ==
    ASSUME EntryInv, TypeOK, NEW who, BeginDetach(who), UNCHANGED <<lifeVars>>
    PROVE  StopLocalInv' /\ DetachLocalInv'
<1>1. CASE stopped
  <2>1. participated \ entry_stopped = {}
    BY <1>1 DEF EntryInv, FlagsTellTruth
  <2>2. EnterDetach(who, {})
    BY <1>1 DEF BeginDetach
  <2> QED
    BY <2>1, <2>2, EnterDetachLocal
<1>2. CASE ~stopped
  BY <1>2, EnterStopLocal DEF BeginDetach, EnterStop
<1> QED
  BY <1>1, <1>2

\* The steps of a stop pass.
LEMMA StopLocalStep ==
    ASSUME IInv, StopLocalInv, RunCleanup
    PROVE  StopLocalInv' /\ DetachLocalInv'
<1>a. TypeOK /\ ControlInv /\ EntryInv /\ ReversePassInv
  BY DEF IInv
<1>1. CASE op # "stop"
  <2>1. op = "release" /\ op' \notin {"stop", "detach"}
    BY <1>1 DEF RunCleanup, CleanupCall, CleanupOk, CleanupFails, StopDone, ReleaseDone, passVars,
         Return, Forget, EnterDestroy, EnterPass
  <2> QED
    BY <2>1 DEF StopLocalInv, DetachLocalInv
<1>2. CASE op = "stop" /\ CleanupCall
  <2>1. PICK i \in NextInPass : calling' = i
    BY <1>2 DEF CleanupCall
  <2>2. /\ i \in Eligible /\ i \in 1 .. pos /\ i # 0 /\ Cursor = pos /\ Cursor' = i
        /\ \A j \in Eligible \cap (1 .. pos) : j <= i
        /\ UNCHANGED <<participated, entry_stopped, kept, status, op>>
    BY <1>2, <2>1 DEF CleanupCall, NextInPass, Cursor, passVars, lifeVars
  <2>3. Eligible = (participated \ entry_stopped) \ kept
    BY <1>2 DEF Eligible, Completed
  <2>4. participated \subseteq Nat \ {0} /\ pos \in Nat /\ i \in Nat
    BY <1>a, <2>2, NAssumption DEF TypeOK, Entries
  <2>5. \A j \in participated \ entry_stopped : j <= i \/ j \in kept \/ status[j] = "stop_failed"
    <3> TAKE j \in participated \ entry_stopped
    <3>1. j <= pos \/ j \in kept \/ status[j] = "stop_failed"
      BY <1>2, <2>2 DEF StopLocalInv
    <3>2. CASE j <= pos /\ j \notin kept
      <4>1. j \in 1 .. pos /\ j \in Eligible
        BY <2>3, <2>4, <3>2
      <4> QED
        BY <2>2, <4>1
    <3> QED
      BY <3>1, <3>2
  <2>6. \A k \in kept : \E c \in participated \ entry_stopped :
            c > i /\ k \in dependencies_of[c] /\ status[c] = "stop_failed"
    BY <1>2, <2>2, <2>4 DEF StopLocalInv
  <2> QED
    BY <1>2, <2>2, <2>5, <2>6 DEF StopLocalInv, DetachLocalInv
<1>3. CASE op = "stop" /\ CleanupOk
  <2>1. /\ calling \in Entries /\ Cursor = calling /\ Cursor' = calling - 1 /\ op' = "stop"
        /\ entry_stopped' = entry_stopped \cup {calling}
        /\ status' = [status EXCEPT ![calling] = "stopped"]
        /\ UNCHANGED <<participated, kept>>
    BY <1>3, <1>a, NAssumption DEF CleanupOk, Cursor, TypeOK, Entries
  <2>2. participated \subseteq Nat \ {0} /\ calling \in Nat /\ status \in [Entries -> Statuses]
        /\ participated \subseteq Entries
    BY <1>a, <2>1, NAssumption DEF TypeOK, Entries
  <2>3. \A j \in participated \ entry_stopped' :
            j <= calling - 1 \/ j \in kept \/ status'[j] = "stop_failed"
    <3> TAKE j \in participated \ entry_stopped'
    <3>1. j <= calling \/ j \in kept \/ status[j] = "stop_failed"
      BY <1>3, <2>1 DEF StopLocalInv
    <3>2. j # calling /\ status'[j] = status[j] /\ j \in Nat
      BY <2>1, <2>2
    <3> QED
      BY <2>2, <3>1, <3>2
  <2>4. \A k \in kept : \E c \in participated \ entry_stopped' :
            c > calling - 1 /\ k \in dependencies_of[c] /\ status'[c] = "stop_failed"
    <3> TAKE k \in kept
    <3>1. PICK c \in participated \ entry_stopped :
             c > calling /\ k \in dependencies_of[c] /\ status[c] = "stop_failed"
      BY <1>3, <2>1 DEF StopLocalInv
    <3>2. c \in participated \ entry_stopped' /\ c > calling - 1 /\ status'[c] = "stop_failed"
      BY <2>1, <2>2, <3>1
    <3> QED
      BY <3>1, <3>2
  <2> QED
    BY <2>1, <2>3, <2>4 DEF StopLocalInv, DetachLocalInv
<1>4. CASE op = "stop" /\ CleanupFails
  <2>1. /\ calling \in Entries /\ Cursor = calling /\ Cursor' = calling - 1 /\ op' = "stop"
        /\ status' = [status EXCEPT ![calling] = "stop_failed"]
        /\ kept' = kept \cup dependencies_of[calling]
        /\ UNCHANGED <<participated, entry_stopped>>
        /\ calling \in participated \ entry_stopped
    BY <1>4, <1>a, NAssumption DEF CleanupFails, Cursor, TypeOK, Entries, lifeVars, ReversePassInv,
         Eligible, Completed
  <2>2. participated \subseteq Nat \ {0} /\ calling \in Nat /\ status \in [Entries -> Statuses]
        /\ participated \subseteq Entries
    BY <1>a, <2>1, NAssumption DEF TypeOK, Entries
  <2>3. \A j \in participated \ entry_stopped :
            j <= calling - 1 \/ j \in kept' \/ status'[j] = "stop_failed"
    BY <1>4, <2>1, <2>2 DEF StopLocalInv
  <2>4. \A k \in kept' : \E c \in participated \ entry_stopped :
            c > calling - 1 /\ k \in dependencies_of[c] /\ status'[c] = "stop_failed"
    <3> TAKE k \in kept'
    <3>1. CASE k \in kept
      <4>1. PICK c \in participated \ entry_stopped :
               c > calling /\ k \in dependencies_of[c] /\ status[c] = "stop_failed"
        BY <1>4, <2>1, <3>1 DEF StopLocalInv
      <4>2. c > calling - 1 /\ status'[c] = "stop_failed"
        BY <2>1, <2>2, <4>1
      <4> QED
        BY <4>1, <4>2
    <3>2. CASE k \in dependencies_of[calling]
      BY <2>1, <2>2, <3>2
    <3> QED
      BY <2>1, <3>1, <3>2
  <2> QED
    BY <2>1, <2>3, <2>4 DEF StopLocalInv, DetachLocalInv
<1>5. CASE op = "stop" /\ StopDone
  <2>1. CASE caller = "api"
    BY <1>5, <2>1 DEF StopDone, Return, StopLocalInv, DetachLocalInv
  <2>2. CASE caller # "api"
    <3>1. /\ EnterDetach(caller, errors) /\ UNCHANGED <<lifeVars>> /\ status' = status
          /\ Cursor = pos /\ ((participated \ entry_stopped) \ kept) \cap (1 .. pos) = {}
      BY <1>5, <2>2 DEF StopDone, Cursor, Eligible, Completed
    <3>2. participated \subseteq Nat \ {0} /\ pos \in Nat
      BY <1>a, NAssumption DEF TypeOK, Entries
    <3>3. ASSUME NEW i \in participated \ entry_stopped
          PROVE  \E c \in participated \ entry_stopped :
                   (c = i \/ i \in dependencies_of[c]) /\ status'[c] = "stop_failed"
      <4>1. i \in kept \/ status[i] = "stop_failed"
        BY <1>5, <3>1, <3>2 DEF StopLocalInv
      <4> QED
        BY <1>5, <3>1, <4>1 DEF StopLocalInv
    <3> QED
      BY <1>a, <3>1, <3>3, EnterDetachLocal
  <2> QED
    BY <2>1, <2>2
<1> QED
  BY <1>1, <1>2, <1>3, <1>4, <1>5 DEF RunCleanup, ReleaseDone

\* An entry that failed to detach.
LEMMA DetachFailedLocal ==
    ASSUME TypeOK, op = "detach", DetachLocalInv, DetachFailed,
           op' = "detach", todo' = todo \ {calling}, calling \in todo,
           calling \in (participated \cap entry_stopped) \ entry_detached,
           UNCHANGED <<participated, entry_stopped, entry_detached>>
    PROVE  DetachLocalInv'
<1>1. /\ status' = [status EXCEPT ![calling] = "detach_failed"]
      /\ kept' = kept \cup dependencies_of[calling]
      /\ status \in [Entries -> Statuses] /\ participated \subseteq Entries /\ calling \in Entries
  BY DEF DetachFailed, TypeOK
<1>2. \A i \in participated \ entry_stopped :
        \E c \in participated \ entry_stopped :
            (c = i \/ i \in dependencies_of[c]) /\ status'[c] = "stop_failed"
  <2> TAKE i \in participated \ entry_stopped
  <2>1. PICK c \in participated \ entry_stopped :
          (c = i \/ i \in dependencies_of[c]) /\ status[c] = "stop_failed"
    BY DEF DetachLocalInv
  <2>2. status'[c] = "stop_failed"
    BY <1>1, <2>1
  <2> QED
    BY <2>1, <2>2
<1>3. \A i \in (participated \cap entry_stopped) \ entry_detached :
        i \in todo' \/ i \in kept' \/ status'[i] = "detach_failed"
  BY <1>1 DEF DetachLocalInv
<1>4. \A k \in kept' : \E c \in ((participated \cap entry_stopped) \ entry_detached) \ todo' :
        k \in dependencies_of[c] /\ status'[c] = "detach_failed"
  <2> TAKE k \in kept'
  <2>1. CASE k \in kept
    <3>1. PICK c \in ((participated \cap entry_stopped) \ entry_detached) \ todo :
            k \in dependencies_of[c] /\ status[c] = "detach_failed"
      BY <2>1 DEF DetachLocalInv
    <3>2. c \notin todo' /\ status'[c] = "detach_failed"
      BY <1>1, <3>1
    <3> QED
      BY <3>1, <3>2
  <2>2. CASE k \in dependencies_of[calling]
    <3>1. calling \notin todo' /\ status'[calling] = "detach_failed"
      BY <1>1
    <3> QED
      BY <2>2, <3>1
  <2> QED
    BY <1>1, <2>1, <2>2
<1> QED
  BY <1>2, <1>3, <1>4 DEF DetachLocalInv

\* The steps of a detach pass.
LEMMA DetachLocalStep ==
    ASSUME IInv, DetachLocalInv, Detach
    PROVE  StopLocalInv' /\ DetachLocalInv'
<1>a. TypeOK /\ ControlInv /\ EntryInv /\ DetachPassInv /\ op = "detach"
  BY DEF IInv, Detach, DetachSkip, DetachCall, DetachOk, DetachFails, CleanupHooks,
         CleanupHooksFails, DetachDone
<1>1. CASE DetachDone
  <2>1. op' \notin {"stop", "detach"}
    BY <1>1 DEF DetachDone, Return, Forget, EnterPass
  <2> QED
    BY <2>1 DEF StopLocalInv, DetachLocalInv
<1>2. CASE DetachSkip
  <2>1. PICK i \in todo : Skipped(i) /\ todo' = todo \ {i}
    BY <1>2 DEF DetachSkip, NextInOrder, Free
  <2>2. UNCHANGED <<participated, entry_stopped, entry_detached, status, kept, op>>
    BY <1>2 DEF DetachSkip, lifeVars
  <2>3. \A j \in (participated \cap entry_stopped) \ entry_detached :
          j \in todo' \/ j \in kept \/ status[j] = "detach_failed"
    BY <1>a, <2>1 DEF DetachLocalInv, Skipped
  <2>4. \A k \in kept : \E c \in ((participated \cap entry_stopped) \ entry_detached) \ todo' :
          k \in dependencies_of[c] /\ status[c] = "detach_failed"
    BY <1>a, <2>1 DEF DetachLocalInv
  <2> QED
    BY <1>a, <2>2, <2>3, <2>4 DEF StopLocalInv, DetachLocalInv
<1>3. CASE DetachCall \/ DetachOk
  <2>1. UNCHANGED <<participated, entry_stopped, entry_detached, status, kept, op, todo>>
    BY <1>3 DEF DetachCall, DetachOk, lifeVars, passVars
  <2> QED
    BY <1>a, <2>1 DEF StopLocalInv, DetachLocalInv
<1>4. CASE DetachFails \/ CleanupHooks \/ CleanupHooksFails
  <2>1. /\ calling \in todo /\ calling \in (participated \cap entry_stopped) \ entry_detached
        /\ calling \notin kept
    BY <1>4, <1>a DEF DetachFails, CleanupHooks, CleanupHooksFails, DetachPassInv, Free, Skipped
  <2>2. /\ todo' = todo \ {calling} /\ op' = "detach" /\ UNCHANGED <<participated, entry_stopped>>
    BY <1>4, <1>a DEF DetachFails, CleanupHooks, CleanupHooksFails, DetachStepped
  <2>3. StopLocalInv'
    BY <2>2 DEF StopLocalInv
  <2>4. CASE DetachFailed /\ UNCHANGED entry_detached
    BY <1>a, <2>1, <2>2, <2>3, <2>4, DetachFailedLocal
  <2>5. CASE /\ entry_detached' = entry_detached \cup {calling}
             /\ status' = [status EXCEPT ![calling] = "detached"]
             /\ UNCHANGED <<errors, kept>>
    <3>1. \A c \in participated : c # calling => status'[c] = status[c]
      BY <1>a, <2>5 DEF TypeOK
    <3>2. \A i \in participated \ entry_stopped :
            \E c \in participated \ entry_stopped :
                (c = i \/ i \in dependencies_of[c]) /\ status'[c] = "stop_failed"
      BY <1>a, <2>1, <3>1 DEF DetachLocalInv
    <3>3. \A i \in (participated \cap entry_stopped) \ entry_detached' :
            i \in todo' \/ i \in kept \/ status'[i] = "detach_failed"
      BY <1>a, <2>2, <2>5, <3>1 DEF DetachLocalInv
    <3>4. \A k \in kept : \E c \in ((participated \cap entry_stopped) \ entry_detached') \ todo' :
            k \in dependencies_of[c] /\ status'[c] = "detach_failed"
      <4> TAKE k \in kept
      <4>1. PICK c \in ((participated \cap entry_stopped) \ entry_detached) \ todo :
              k \in dependencies_of[c] /\ status[c] = "detach_failed"
        BY <1>a DEF DetachLocalInv
      <4>2. c # calling /\ c \notin todo' /\ c \notin entry_detached' /\ status'[c] = "detach_failed"
        BY <2>1, <2>2, <2>5, <3>1, <4>1
      <4> QED
        BY <4>1, <4>2
    <3> QED
      BY <2>2, <2>3, <2>5, <3>2, <3>3, <3>4 DEF DetachLocalInv
  <2> QED
    BY <1>4, <2>4, <2>5 DEF DetachFails, CleanupHooks, CleanupHooksFails
<1> QED
  BY <1>1, <1>2, <1>3, <1>4 DEF Detach

\* Every step keeps both.
LEMMA LocalStep ==
    ASSUME IInv, StopLocalInv, DetachLocalInv, Next
    PROVE  StopLocalInv' /\ DetachLocalInv'
<1>a. TypeOK /\ ControlInv /\ EntryInv
  BY DEF IInv
<1>1. CASE op' \notin {"stop", "detach"}
  BY <1>1 DEF StopLocalInv, DetachLocalInv
<1>2. CASE InCallback
  <2>1. UNCHANGED <<lifeVars, status, passVars, op, calling>>
    BY <1>2 DEF InCallback, Register, CreateGroup, EnableGroup, DiscardGroup, SetGroup, HookDirectly,
         AcquireGame
  <2> QED
    BY <2>1 DEF lifeVars, passVars, StopLocalInv, DetachLocalInv, Cursor
<1>3. CASE RunCleanup \/ Detach
  BY <1>3, StopLocalStep, DetachLocalStep
<1>4. CASE CreateFails \/ CallDetach \/ CallDrop \/ CallStop
  <2>1. ASSUME NEW who, BeginDetach(who), UNCHANGED <<lifeVars>>
        PROVE  StopLocalInv' /\ DetachLocalInv'
    BY <1>a, <2>1, BeginDetachLocal
  <2>2. CASE CallStop
    BY <1>a, <2>2, EnterStopLocal DEF CallStop, EnterStop
  <2>3. CASE CreateFails \/ CallDetach \/ CallDrop
    <3>1. UNCHANGED <<lifeVars>>
      BY <2>3 DEF CreateFails, CallDetach, CallDrop
    <3>2. \/ op' \notin {"stop", "detach"} \/ \E who \in {"drop", "detach"} : BeginDetach(who)
      BY <2>3 DEF CreateFails, CallDetach, CallDrop, Forget, EnterPass, EnterDestroy
    <3> QED
      BY <1>1, <2>1, <3>1, <3>2
  <2> QED
    BY <1>4, <2>2, <2>3
<1>5. CASE \/ CreateEntry \/ Loaded \/ RunPhase \/ Launch \/ Drop \/ Ended
           \/ \E o \in PhaseOps : CallPhase(o)
           \/ CallLaunch \/ EnterGame \/ CallRelease \/ retain
           \/ \E g \in {"null", "loaded"} : set_game(g)
  <2>1. op' \notin {"stop", "detach"}
    BY <1>5 DEF CreateEntry, Loaded, Return, RunPhase, EnterCallback, CallbackOk, CallbackFails,
         PhaseDone, passVars, PhaseOps, Launch, LaunchReturns, Drop, DestroyEntry, Destroyed, Ended,
         vars, CallPhase, CallLaunch, EnterGame, running, CallRelease, EnterPass, retain, Forget,
         set_game
  <2> QED
    BY <1>1, <2>1
<1> QED
  BY <1>2, <1>3, <1>4, <1>5 DEF Next, Work, Progress, Load, Call

\* After a detach pass, whatever is not detached failed itself, or something that uses
\* it did (`retained` in stop and detach).
THEOREM HostFailureStaysLocal == Spec => []FailureStaysLocal
<1>1. Init => StopLocalInv /\ DetachLocalInv
  BY DEF Init, StopLocalInv, DetachLocalInv
<1>2. IInv /\ StopLocalInv /\ DetachLocalInv /\ [Next]_vars => StopLocalInv' /\ DetachLocalInv'
  <2>1. ASSUME StopLocalInv, DetachLocalInv, UNCHANGED vars PROVE StopLocalInv' /\ DetachLocalInv'
    BY <2>1 DEF StopLocalInv, DetachLocalInv, Cursor, vars, lifeVars, passVars
  <2> QED
    BY <2>1, LocalStep
<1>3. IInv /\ DetachLocalInv => FailureStaysLocal
  <2> SUFFICES ASSUME IInv, DetachLocalInv, op = "detach", todo = {}, calling = 0,
                      NEW i \in participated \ entry_detached
               PROVE  \E c \in {i} \cup Consumers[i] : status[c] \in {"stop_failed", "detach_failed"}
    BY DEF FailureStaysLocal
  <2>1. participated \subseteq Entries
    BY DEF IInv, TypeOK
  <2>2. \A c \in participated : i \in dependencies_of[c] => c \in Consumers[i]
    BY <2>1 DEF Consumers
  <2>3. CASE i \notin entry_stopped
    BY <2>2, <2>3 DEF DetachLocalInv
  <2>4. CASE i \in entry_stopped
    BY <2>2, <2>4 DEF DetachLocalInv
  <2> QED
    BY <2>3, <2>4
<1> QED
  BY <1>1, <1>2, <1>3, HostInvariant, PTL DEF Spec

(***************************************************************************)
(* The game session: its invariant                                         *)
(***************************************************************************)

\* Who still holds a reference took part and was not asked to return it.
RefInv == refs \subseteq participated \ entry_released

\* Where the session calls nothing the host is idle.
BetweenCalls == {"prepare", "launch", "load_game", "check", "attach", "run", "enter",
    "in_game", "finish", "detach", "release", "unload", "forget_game", "drop"}

\* What the host is doing for a session that waits for it.
WaitInv ==
    /\ at = "load" => op \in {"load", "idle", "stop", "detach", "release", "destroy",
                              "gone", "retained"}
    /\ at \in BetweenCalls => op = "idle"
    /\ at \in {"preparing", "checking", "attaching"} => op \in PhaseOps \cup {"idle"}
    /\ at = "launching" => op \in {"launch", "idle"}
    /\ at \in {"stopping", "detaching", "releasing"} =>
            op \in {"stop", "detach", "release", "idle"} /\ caller # "drop"
    /\ at = "releasing" => op \in {"release", "idle"}
    /\ at = "dropping" => op \in {"destroy", "gone"}
    /\ at = "done" => op = "gone"
    /\ at = "retained" => op = "retained"
    /\ at = "failed" => op \in {"gone", "retained"}

\* From the release on, the host's record is complete and without a failure.
Clean == release_prepared /\ ~failed_cleanup

ReleasedInv ==
    /\ at = "releasing" /\ op = "idle" /\ result = "ok" => Clean
    /\ at \in {"unload", "drop"} => Clean

\* The DLL is held only while the session has it, and dropped only at its end.
DllInv ==
    /\ dll = "held" => at \notin {"load", "failed", "drop", "dropping", "done"}
    /\ dll = "dropped" => release_prepared /\ at \in {"drop", "dropping", "done"}
    /\ at \in Ats /\ dll \in {"none", "held", "dropped"}

SessionInv == WaitInv /\ ReleasedInv /\ DllInv
HostInv == IInv /\ PhaseInv /\ HookInv /\ NativeInv /\ RefInv

(***************************************************************************)
(* The session is a client of the host                                     *)
(***************************************************************************)

\* A step of the session is one call of the host, or leaves the host alone.
LEMMA SessionStepCalls ==
    ASSUME SessionStep
    PROVE  Call \/ UNCHANGED vars
<1>1. "prepare" \in PhaseOps /\ "check" \in PhaseOps /\ "attach" \in PhaseOps
  BY DEF PhaseOps
<1>2. CASE HostLoaded \/ Prepared \/ LockFails \/ Launched \/ UnlockFails \/ LoadGameFails \/ Checked
           \/ Attached \/ Stopped \/ Detached \/ Released \/ Dropped
  BY <1>2 DEF HostLoaded, Prepared, LockFails, Launched, UnlockFails, LoadGameFails, Checked,
       Attached, Stopped, Detached, Released, Dropped, Returned, Step, hostVars
<1>3. CASE Prepare \/ Check \/ Attach
  BY <1>1, <1>3 DEF Prepare, Check, Attach, Call
<1>4. CASE StartLaunch \/ LoadGame \/ Run \/ FinishStop \/ FinishDetach \/ FinishRelease
           \/ RetainAll \/ Unload \/ DropMods
  BY <1>4 DEF StartLaunch, LoadGame, Run, FinishStop, FinishDetach, FinishRelease, RetainAll,
       Unload, DropMods, Call
<1> QED
  BY <1>2, <1>3, <1>4 DEF SessionStep

\* So is every step of a session a step of the host or none at all.
LEMMA SessionMoves ==
    ASSUME [SessionNext]_allVars
    PROVE  [Next]_vars
<1>1. CASE SessionStep
  BY <1>1, SessionStepCalls DEF Next
<1>2. CASE GameExits
  BY <1>2 DEF GameExits, Step, hostVars
<1>3. CASE HostWorks
  BY <1>3 DEF HostWorks, Next
<1>4. CASE SessionOver \/ UNCHANGED allVars
  BY <1>4 DEF SessionOver, allVars
<1> QED
  BY <1>1, <1>2, <1>3, <1>4 DEF SessionNext

\* A session drives the host as the host may be driven: whatever is proved of every
\* caller of ModHost holds of run_session and GameSession::finish.
THEOREM SessionDrivesHost == SessionSpec => Spec
<1>1. SessionInit => Init
  BY DEF SessionInit
<1> QED
  BY <1>1, SessionMoves, PTL DEF SessionSpec, Spec

\* Two of the host's promises, in the words of a session.
THEOREM SessionKeepsHostPromises ==
    SessionSpec => [](FailureStaysLocal /\ NoOrphanHooks)
BY SessionDrivesHost, HostFailureStaysLocal, HostNoOrphanHooks, PTL

(***************************************************************************)
(* References to the game                                                  *)
(***************************************************************************)

\* The actions that touch the references.
LEMMA RefFrame ==
    ASSUME Next
    PROVE  \/ AcquireGame \/ CleanupOk \/ EnterCallback
           \/ UNCHANGED <<refs, participated, entry_released>>
BY DEF lifeVars, modVars, vars, Next, Work, Progress, Load,
       RunPhase, InCallback, Launch, RunCleanup, Detach, Drop, Call, Ended,
       CreateEntry, CreateFails, Loaded, CallbackOk, CallbackFails, PhaseDone, Register,
       CreateGroup, EnableGroup, DiscardGroup, SetGroup, HookDirectly,
       LaunchReturns, CleanupCall, CleanupFails, StopDone, ReleaseDone, DetachOk, CleanupHooks,
       DetachSkip, DetachCall, DetachFails, DetachStepped, CleanupHooksFails, DetachDone,
       DestroyEntry, Destroyed, CallPhase, CallLaunch, EnterGame, running, set_game, CallStop,
       CallDetach, CallRelease, retain, CallDrop

\* Every step keeps RefInv.
LEMMA RefStep ==
    ASSUME IInv, PhaseInv, RefInv, Next
    PROVE  RefInv'
<1>a. ControlInv /\ EntryInv
  BY DEF IInv
<1>1. CASE AcquireGame
  <2>1. /\ op = "attach" /\ op \in PhaseOps /\ calling # 0 /\ refs' = refs \cup {calling}
        /\ UNCHANGED <<participated, entry_released>>
    BY <1>1 DEF AcquireGame, lifeVars, PhaseOps
  <2>2. calling \in participated
    BY <2>1 DEF PhaseInv
  <2>3. entry_released = {}
    BY <2>1, <1>a DEF ControlInv, EntryInv
  <2> QED
    BY <2>1, <2>2, <2>3 DEF RefInv
<1>2. CASE CleanupOk
  BY <1>2 DEF CleanupOk, RefInv
<1>3. CASE EnterCallback
  BY <1>3 DEF EnterCallback, modVars, RefInv
<1> QED
  BY <1>1, <1>2, <1>3, RefFrame DEF RefInv

\* All that is used here of the host.
LEMMA HostPart == Spec => []HostInv
<1>1. Init => PhaseInv /\ HookInv /\ NativeInv /\ RefInv
  BY DEF Init, PhaseInv, PhaseOps, HookInv, NativeInv, native_running, RefInv
<1>2. IInv /\ (PhaseInv /\ HookInv /\ NativeInv /\ RefInv) /\ [Next]_vars
        => (PhaseInv /\ HookInv /\ NativeInv /\ RefInv)'
  <2>1. ASSUME PhaseInv, HookInv, NativeInv, RefInv, UNCHANGED vars
        PROVE  PhaseInv' /\ HookInv' /\ NativeInv' /\ RefInv'
    BY <2>1 DEF PhaseInv, HookInv, NativeInv, RefInv, native_running, detached, vars, lifeVars,
         modVars, passVars
  <2> QED
    BY <2>1, PhaseStep, HookStep, NativeStep, RefStep
<1> QED
  BY <1>1, <1>2, HostInvariant, PTL DEF Spec, HostInv

(***************************************************************************)
(* Every step keeps the session's invariant                                *)
(***************************************************************************)

\* What an operation of the host comes to while the session waits for it.
LEMMA WorkMoves ==
    ASSUME ControlInv, Work
    PROVE  /\ op \notin {"idle", "gone", "retained"}
           /\ op = "load" => op' \in {"load", "idle", "stop", "detach", "retained"}
           /\ op \in PhaseOps => op' \in PhaseOps \cup {"idle"}
           /\ op = "launch" => op' \in {"launch", "idle"}
           /\ op \in {"stop", "detach", "release"} =>
                op' \in {"stop", "detach", "release", "idle", "destroy", "retained"}
           /\ op \in {"stop", "detach", "release"} /\ caller # "drop" =>
                /\ op' \in {"stop", "detach", "release", "idle"} /\ caller' # "drop"
                /\ op = "release" => op' \in {"release", "idle"}
           /\ op = "release" /\ op' = "idle" /\ result' = "ok" => Clean'
           /\ op = "destroy" => op' \in {"destroy", "gone"} /\ UNCHANGED flags
<1>1. CASE Load
  BY <1>1 DEF Load, CreateEntry, CreateFails, Loaded, Return, Forget, BeginDetach, EnterStop,
       EnterDetach, EnterPass, PhaseOps
<1>2. CASE RunPhase
  BY <1>2 DEF RunPhase, EnterCallback, CallbackOk, CallbackFails, PhaseDone, Return, passVars,
       PhaseOps
<1>3. CASE InCallback
  <2>1. UNCHANGED <<flags, op, caller>> /\ calling # 0
    BY <1>3, CallbackFrame DEF passVars, InCallback, Register, CreateGroup, EnableGroup,
         DiscardGroup, HookDirectly, AcquireGame, registering
  <2> QED
    BY <2>1 DEF ControlInv
<1>4. CASE Launch
  BY <1>4 DEF Launch, LaunchReturns, Return, PhaseOps
<1>5. CASE RunCleanup
  <2>1. CASE CleanupCall \/ CleanupOk \/ CleanupFails
    BY <2>1 DEF CleanupCall, CleanupOk, CleanupFails, passVars, PhaseOps
  <2>2. CASE StopDone
    BY <2>2 DEF StopDone, Return, EnterDetach, PhaseOps
  <2>3. CASE ReleaseDone
    <3>1. /\ op = "release" /\ op' \in {"idle", "retained", "destroy"}
          /\ caller # "drop" => op' = "idle" /\ caller' = "api"
      BY <2>3 DEF ReleaseDone, Return, Forget, EnterDestroy, EnterPass
    <3>2. op' = "idle" /\ result' = "ok" => errors = {}
      BY <2>3 DEF ReleaseDone, Return, Outcome, Forget, EnterDestroy, EnterPass
    <3>3. errors = {} => Clean'
      BY <2>3 DEF ReleaseDone, Finish, Clean, release_prepared, failed_cleanup
    <3> QED
      BY <3>1, <3>2, <3>3 DEF PhaseOps
  <2> QED
    BY <1>5, <2>1, <2>2, <2>3 DEF RunCleanup
<1>6. CASE Detach
  BY <1>6 DEF Detach, DetachSkip, DetachCall, DetachOk, DetachFails, CleanupHooks,
       CleanupHooksFails, DetachStepped, DetachDone, Return, Forget, EnterPass, passVars, PhaseOps
<1>7. CASE Drop
  BY <1>7 DEF Drop, DestroyEntry, Destroyed, PhaseOps
<1> QED
  BY <1>1, <1>2, <1>3, <1>4, <1>5, <1>6, <1>7 DEF Work, Progress

\* While the host works, the session stays where it is.
LEMMA HostWorksStep ==
    ASSUME HostInv, SessionInv, HostWorks
    PROVE  SessionInv'
<1>1. /\ ControlInv /\ Work /\ UNCHANGED <<at, dll>>
  BY DEF HostInv, IInv, HostWorks, sessionVars
<1>2. WaitInv'
  BY <1>1, WorkMoves DEF SessionInv, WaitInv, PhaseOps
<1>3. ReleasedInv'
  BY <1>1, WorkMoves DEF SessionInv, WaitInv, ReleasedInv, BetweenCalls
<1>4. DllInv'
  BY <1>1, WorkMoves DEF SessionInv, WaitInv, DllInv, BetweenCalls, release_prepared
<1> QED
  BY <1>2, <1>3, <1>4 DEF SessionInv

\* The session goes on by itself: it takes a result, or something fails outside the host.
LEMMA StepStep ==
    ASSUME HostInv, SessionInv,
           \/ HostLoaded \/ Prepared \/ LockFails \/ Launched \/ UnlockFails \/ LoadGameFails
           \/ Checked \/ Attached \/ Stopped \/ Detached \/ Released \/ Dropped \/ GameExits
    PROVE  SessionInv'
<1>1. UNCHANGED <<op, caller, result, flags, dll>>
  BY DEF HostLoaded, Prepared, LockFails, Launched, UnlockFails, LoadGameFails, Checked,
       Attached, Stopped, Detached, Released, Dropped, GameExits, Returned, Step, hostVars, vars,
       passVars
<1>2. Clean' = Clean /\ release_prepared' = release_prepared
  BY <1>1 DEF Clean, release_prepared, failed_cleanup
<1>3. \/ at = "load" /\ at' = "prepare" /\ op = "idle"
      \/ at = "load" /\ at' = "failed" /\ op \in {"gone", "retained"}
      \/ /\ at \in {"preparing", "launch", "launching", "load_game", "checking", "attaching",
                    "stopping", "detaching", "in_game"}
         /\ at' \in {"launch", "finish", "load_game", "attach", "run", "detach", "forget_game",
                     "release"}
         /\ op = "idle"
      \/ at = "releasing" /\ op = "idle" /\ result = "ok" /\ at' = "unload"
      \/ at = "releasing" /\ op = "idle" /\ at' = "forget_game"
      \/ at = "dropping" /\ op = "gone" /\ at' = "done"
  BY DEF HostLoaded, Prepared, LockFails, Launched, UnlockFails, LoadGameFails, Checked,
       Attached, Stopped, Detached, Released, Dropped, GameExits, Returned, Step,
       SessionInv, WaitInv, BetweenCalls
<1>4. WaitInv'
  BY <1>1, <1>3 DEF WaitInv, BetweenCalls
<1>5. ReleasedInv'
  BY <1>1, <1>2, <1>3 DEF SessionInv, ReleasedInv
<1>6. DllInv'
  BY <1>1, <1>2, <1>3 DEF SessionInv, DllInv, Ats
<1> QED
  BY <1>4, <1>5, <1>6 DEF SessionInv

\* The session calls the host for startup, launch or the game.
LEMMA StartStep ==
    ASSUME SessionInv,
           Prepare \/ Check \/ Attach \/ StartLaunch \/ LoadGame \/ Run
    PROVE  SessionInv'
<1>1. /\ at \in {"prepare", "check", "attach", "launch", "load_game", "run"}
      /\ at' \in {"preparing", "checking", "attaching", "launching", "check", "in_game"}
      /\ at' \in {"preparing", "checking", "attaching"} => op' \in PhaseOps \cup {"idle"}
      /\ at' = "launching" => op' \in {"launch", "idle"}
      /\ at' \in {"check", "in_game"} => op' = "idle"
      /\ dll' \in {dll, "held"}
  BY DEF Prepare, Check, Attach, StartLaunch, LoadGame, Run, Goes, CallPhase, CallLaunch,
       set_game, EnterGame, running, PhaseOps
<1>2. WaitInv'
  BY <1>1 DEF WaitInv, BetweenCalls
<1>3. ReleasedInv'
  BY <1>1 DEF ReleasedInv
<1>4. DllInv'
  BY <1>1 DEF SessionInv, DllInv, Ats
<1> QED
  BY <1>2, <1>3, <1>4 DEF SessionInv

\* The session calls the host for stop, detach or release, or keeps it for ever.
LEMMA FinishStep ==
    ASSUME SessionInv, FinishStop \/ FinishDetach \/ FinishRelease \/ RetainAll
    PROVE  SessionInv'
<1>1. /\ at \in {"finish", "detach", "release", "forget_game"} /\ dll' = dll
      /\ \/ at' \in {"stopping", "detaching"} /\ op' \in {"stop", "detach"} /\ caller' # "drop"
         \/ at' = "releasing" /\ op' = "release" /\ caller' # "drop"
         \/ at' = "retained" /\ op' = "retained"
  BY DEF FinishStop, FinishDetach, FinishRelease, RetainAll, Goes, CallStop, CallDetach,
       CallRelease, retain, Forget, BeginDetach, EnterStop, EnterDetach, EnterPass
<1>2. WaitInv'
  BY <1>1 DEF WaitInv, BetweenCalls, PhaseOps
<1>3. ReleasedInv'
  BY <1>1 DEF ReleasedInv
<1>4. DllInv'
  BY <1>1 DEF SessionInv, DllInv, Ats
<1> QED
  BY <1>2, <1>3, <1>4 DEF SessionInv

\* The game goes first.
LEMMA UnloadStep ==
    ASSUME SessionInv, Unload
    PROVE  SessionInv'
<1>1. /\ at = "unload" /\ at' = "drop" /\ dll' = IF dll = "held" THEN "dropped" ELSE dll
      /\ op = "idle" /\ UNCHANGED <<op, flags>>
  BY DEF Unload, set_game
<1>2. Clean /\ Clean' /\ release_prepared'
  BY <1>1 DEF SessionInv, ReleasedInv, Clean, release_prepared, failed_cleanup
<1>3. WaitInv'
  BY <1>1 DEF WaitInv, BetweenCalls
<1>4. ReleasedInv' /\ DllInv'
  BY <1>1, <1>2 DEF SessionInv, ReleasedInv, DllInv, Ats
<1> QED
  BY <1>3, <1>4 DEF SessionInv

\* Drop of the host finds everything done and destroys the instances.
LEMMA DropModsStep ==
    ASSUME HostInv, SessionInv, DropMods
    PROVE  SessionInv'
<1>1. /\ at = "drop" /\ at' = "dropping" /\ dll' = dll
  BY DEF DropMods, Goes
<1>2. release_prepared /\ ~failed_cleanup
  BY <1>1 DEF SessionInv, ReleasedInv, Clean
<1>3. detached
  BY <1>2 DEF HostInv, IInv, EntryInv
<1>4. ~native_running
  BY <1>3 DEF HostInv, NativeInv
<1>5. op' = "destroy" /\ UNCHANGED flags
  BY <1>2, <1>3, <1>4 DEF DropMods, CallDrop, EnterDestroy, EnterPass
<1>6. WaitInv'
  BY <1>1, <1>5 DEF WaitInv, BetweenCalls
<1>7. ReleasedInv' /\ DllInv'
  BY <1>1, <1>2, <1>5 DEF SessionInv, ReleasedInv, DllInv, release_prepared, Ats
<1> QED
  BY <1>6, <1>7 DEF SessionInv

\* Every step of a session keeps its invariant.
LEMMA SessionInvStep ==
    ASSUME HostInv, SessionInv, [SessionNext]_allVars
    PROVE  SessionInv'
<1>1. CASE SessionStep
  BY <1>1, StepStep, StartStep, FinishStep, UnloadStep, DropModsStep DEF SessionStep
<1>2. CASE HostWorks \/ GameExits
  BY <1>2, HostWorksStep, StepStep
<1>3. CASE SessionOver \/ UNCHANGED allVars
  <2>1. UNCHANGED <<at, dll, op, caller, result, flags>>
    BY <1>3 DEF SessionOver, allVars, sessionVars, vars, passVars
  <2> QED
    BY <2>1 DEF SessionInv, WaitInv, ReleasedInv, DllInv, Clean, release_prepared, failed_cleanup
<1> QED
  BY <1>1, <1>2, <1>3 DEF SessionNext

\* The inductive invariant holds in every state of a session.
THEOREM SessionInvariant == SessionSpec => [](HostInv /\ SessionInv)
<1>1. SessionInit => SessionInv
  BY DEF SessionInit, Init, SessionInv, WaitInv, ReleasedInv, DllInv, BetweenCalls, Ats
<1>2. SessionSpec => []HostInv
  BY SessionDrivesHost, HostPart, PTL
<1> QED
  BY <1>1, <1>2, SessionInvStep, PTL DEF SessionSpec

(***************************************************************************)
(* What the session does with the game                                     *)
(***************************************************************************)

\* After the release no reference is left, and no hook.
LEMMA NothingHeld ==
    ASSUME HostInv, release_prepared
    PROVE  refs = {} /\ direct = {} /\ \A i \in Entries : group[i] = "none"
<1>1. EntryInv /\ RefInv /\ HookInv /\ TypeOK
  BY DEF HostInv, IInv
<1>2. participated \subseteq entry_released /\ participated \subseteq entry_detached
  BY <1>1 DEF EntryInv, FlagsTellTruth
<1>3. refs = {}
  BY <1>1, <1>2 DEF RefInv
<1>4. \A i \in Entries : group[i] = "none" /\ i \notin direct
  BY <1>1, <1>2 DEF HookInv
<1> QED
  BY <1>1, <1>3, <1>4 DEF TypeOK

\* The game DLL is given up only when nothing holds or hooks it any more.
THEOREM SessionGameGoesClean == SessionSpec => []GameGoesClean
<1>1. HostInv /\ SessionInv => GameGoesClean
  BY NothingHeld DEF SessionInv, DllInv, GameGoesClean
<1> QED
  BY <1>1, SessionInvariant, PTL

\* A session that cannot clean up keeps everything, one that can leaves nothing, and
\* every instance outlives the game.
THEOREM SessionFailureKeepsSession == SessionSpec => []FailureKeepsSession
<1>1. ASSUME HostInv, SessionInv PROVE FailureKeepsSession
  <2>1. ControlInv /\ TypeOK /\ WaitInv /\ DllInv
    BY <1>1 DEF HostInv, IInv, SessionInv
  <2>2. SessionTypeOK
    BY <2>1 DEF SessionTypeOK, DllInv
  <2>3. at = "retained" => alive = 1 .. loaded /\ dll # "dropped"
    BY <2>1 DEF ControlInv, WaitInv, DllInv
  <2>4. at = "done" => alive = {} /\ op = "gone"
    BY <2>1 DEF ControlInv, WaitInv
  <2>5. op \in {"destroy", "gone"} => at \in {"load", "failed", "dropping", "done"}
    BY <2>1 DEF WaitInv, DllInv, BetweenCalls, Ats, PhaseOps
  <2>6. dll = "held" => alive = 1 .. loaded
    BY <2>1, <2>5 DEF ControlInv, DllInv
  <2>7. op \in {"destroy", "gone"} => refs = {}
    BY <1>1, <2>1, NothingHeld DEF ControlInv
  <2>8. dll = "dropped" => calling = 0 /\ op \notin {"stop", "detach", "release"}
    BY <2>1 DEF ControlInv, WaitInv, DllInv, BetweenCalls
  <2> QED
    BY <2>1, <2>2, <2>3, <2>4, <2>6, <2>7, <2>8 DEF ControlInv, FailureKeepsSession
<1> QED
  BY <1>1, SessionInvariant, PTL
================================================================================
