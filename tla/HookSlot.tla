-------------------------------- MODULE HookSlot --------------------------------
(***************************************************************************)
(* One callback slot with the groups of hooks that use it in turn          *)
(* (HookSlot, HookSet, HookGuard and Invocation of runtime/hooks/src/      *)
(* lib.rs on NativeGroup of backend.rs), and the game's threads, which may *)
(* be anywhere in a detour while a group is installed or removed.          *)
(*                                                                         *)
(* An attempt is the life of one HookSet: it is prepared, hooks all        *)
(* Targets, and becomes a HookGuard, or is given up.  Each call of MinHook *)
(* and each critical section of a mutex is a step.  The order of a group's *)
(* targets is left open.                                                   *)
(*                                                                         *)
(* at         where an attempt is; todo its targets still in a loop        *)
(* purpose    why it uninstalls: "api", "install" (rollback) or "drop"     *)
(* state      the attempt whose state the slot lends to detours            *)
(* thread, lease   where a game thread is, and whose state it holds        *)
(***************************************************************************)
EXTENDS Integers, FiniteSets

CONSTANTS Attempts, Targets, Threads, None

\* What the proofs take for granted.
SlotAssumption == None \notin Attempts

VARIABLES
    \* HookSlot: the two mutexes and what the second protects
    lifecycle, occupied, state, active,
    \* MinHook, and the process-wide table of hooked addresses
    hook, TARGETS,
    \* HookSet and HookGuard
    at, todo, purpose, targets, enabled, failed, retired, forgotten,
    \* the game's threads
    thread, lease

slotVars == <<lifecycle, occupied, state, active>>
hookVars == <<hook, TARGETS, targets>>
guardVars == <<purpose, enabled, failed, retired, forgotten>>
threadVars == <<thread, lease>>
vars == <<slotVars, hookVars, guardVars, at, todo, threadVars>>

\* Where an attempt holds the lifecycle mutex.
Locked == {"preparing", "creating", "discarding", "enabling", "disabling", "retiring",
           "draining", "woken", "removing"}
Places == Locked \cup {"new", "installed", "locking", "unsuccessful", "uninstalled",
                       "abandoning", "leaked", "gone"}

TypeOK ==
    /\ lifecycle \in Attempts \cup {None}
    /\ occupied \in {"free", "occupied"}
    /\ state \in Attempts \cup {None}
    /\ active \in Nat
    /\ hook \in [Targets -> {"absent", "created", "enabled"}]
    /\ TARGETS \in [Targets -> Attempts \cup {None}]
    /\ at \in [Attempts -> Places]
    /\ todo \in [Attempts -> SUBSET Targets]
    /\ purpose \in [Attempts -> {"api", "install", "drop"}]
    /\ targets \in [Attempts -> SUBSET Targets]
    /\ enabled \subseteq Attempts
    /\ failed \subseteq Attempts
    /\ retired \subseteq Attempts
    /\ forgotten \subseteq Attempts
    /\ thread \in [Threads -> {"out", "detour", "leased", "leaving", "fallback"}]
    /\ lease \in [Threads -> Attempts \cup {None}]

Init ==
    /\ lifecycle = None /\ occupied = "free" /\ state = None /\ active = 0
    /\ hook = [t \in Targets |-> "absent"]
    /\ TARGETS = [t \in Targets |-> None]
    /\ at = [a \in Attempts |-> "new"]
    /\ todo = [a \in Attempts |-> {}]
    /\ purpose = [a \in Attempts |-> "api"]
    /\ targets = [a \in Attempts |-> {}]
    /\ enabled = {} /\ failed = {} /\ retired = {} /\ forgotten = {}
    /\ thread = [d \in Threads |-> "out"]
    /\ lease = [d \in Threads |-> None]

\* Attempt a goes from place p to place q.
Moves(a, p, q) == at[a] = p /\ at' = [at EXCEPT ![a] = q]
\* It starts a loop over its targets.
Loop(a, S) == todo' = [todo EXCEPT ![a] = S]

--------------------------------------------------------------------------------
(* HookSlot::prepare, and NativeGroup::create for every target                *)

Prepare(a) ==
    /\ lifecycle = None /\ occupied = "free"
    /\ Moves(a, "new", "preparing")
    /\ lifecycle' = a
    /\ UNCHANGED <<occupied, state, active, hookVars, guardVars, todo, threadVars>>

\* "is being installed or removed", "already installed or awaiting cleanup"
Refuse(a) ==
    /\ lifecycle # None \/ occupied = "occupied"
    /\ Moves(a, "new", "gone")
    /\ UNCHANGED <<slotVars, hookVars, guardVars, todo, threadVars>>

\* create checks the address and registers it in one critical section,
Claim(a, t) ==
    /\ t \notin targets[a] /\ TARGETS[t] = None
    /\ Moves(a, "preparing", "creating")
    /\ TARGETS' = [TARGETS EXCEPT ![t] = a]
    /\ Loop(a, {t})
    /\ UNCHANGED <<slotVars, hook, targets, guardVars, threadVars>>

\* then asks MinHook, with no mutex of the table held.
CreateOk(a, t) ==
    /\ t \in todo[a]
    /\ Moves(a, "creating", "preparing")
    /\ hook' = [hook EXCEPT ![t] = "created"]
    /\ targets' = [targets EXCEPT ![a] = @ \cup {t}]
    /\ Loop(a, {})
    /\ UNCHANGED <<slotVars, TARGETS, guardVars, threadVars>>

\* The error drops the HookSet.
CreateFails(a, t) ==
    /\ t \in todo[a]
    /\ Moves(a, "creating", "discarding")
    /\ TARGETS' = [TARGETS EXCEPT ![t] = None]
    /\ Loop(a, targets[a])
    /\ UNCHANGED <<slotVars, hook, targets, guardVars, threadVars>>

\* The HookSet is dropped, after a conflict or any other error of its owner.
Discard(a) ==
    /\ Moves(a, "preparing", "discarding")
    /\ Loop(a, targets[a])
    /\ UNCHANGED <<slotVars, hookVars, guardVars, threadVars>>

--------------------------------------------------------------------------------
(* HookSet::install                                                           *)

Install(a) ==
    /\ targets[a] = Targets
    /\ Moves(a, "preparing", "enabling")
    /\ occupied' = "occupied" /\ state' = a
    /\ Loop(a, targets[a])
    /\ UNCHANGED <<lifecycle, active, hookVars, guardVars, threadVars>>

EnableOk(a, t) ==
    /\ at[a] = "enabling" /\ t \in todo[a]
    /\ hook' = [hook EXCEPT ![t] = "enabled"]
    /\ enabled' = enabled \cup {a}
    /\ Loop(a, todo[a] \ {t})
    /\ UNCHANGED <<slotVars, TARGETS, targets, purpose, failed, retired, forgotten, at,
                   threadVars>>

\* uninstall runs with the mutex that install already holds.
EnableFails(a) ==
    /\ todo[a] # {}
    /\ Moves(a, "enabling", "disabling")
    /\ purpose' = [purpose EXCEPT ![a] = "install"]
    /\ Loop(a, targets[a])
    /\ UNCHANGED <<slotVars, hookVars, enabled, failed, retired, forgotten, threadVars>>

Installed(a) ==
    /\ todo[a] = {}
    /\ Moves(a, "enabling", "installed")
    /\ lifecycle' = None
    /\ UNCHANGED <<occupied, state, active, hookVars, guardVars, todo, threadVars>>

--------------------------------------------------------------------------------
(* HookGuard::uninstall                                                       *)

Uninstall(a) ==
    /\ \/ Moves(a, "installed", "locking")
       \/ Moves(a, "unsuccessful", "locking")
    /\ purpose' = [purpose EXCEPT ![a] = "api"]
    /\ UNCHANGED <<slotVars, hookVars, enabled, failed, retired, forgotten, todo, threadVars>>

Lock(a) ==
    /\ lifecycle = None
    /\ Moves(a, "locking", "disabling")
    /\ lifecycle' = a
    /\ failed' = failed \ {a}
    /\ Loop(a, targets[a])
    /\ UNCHANGED <<occupied, state, active, hookVars, purpose, enabled, retired, forgotten,
                   threadVars>>

\* A target that is disabled or not created counts as disabled.
DisableOk(a, t) ==
    /\ at[a] = "disabling" /\ t \in todo[a]
    /\ hook' = [hook EXCEPT ![t] = IF @ = "enabled" THEN "created" ELSE @]
    /\ Loop(a, todo[a] \ {t})
    /\ UNCHANGED <<slotVars, TARGETS, targets, guardVars, at, threadVars>>

DisableFails(a, t) ==
    /\ at[a] = "disabling" /\ t \in todo[a] /\ hook[t] = "enabled"
    /\ failed' = failed \cup {a}
    /\ Loop(a, todo[a] \ {t})
    /\ UNCHANGED <<slotVars, hookVars, purpose, enabled, retired, forgotten, at, threadVars>>

\* A mistake: the state is retired although a target may still be enabled.
DisabledOrNot(a) ==
    /\ todo[a] = {}
    /\ \/ a \notin retired /\ Moves(a, "disabling", "retiring") /\ UNCHANGED todo
       \/ a \in retired /\ Moves(a, "disabling", "removing") /\ Loop(a, targets[a])
    /\ UNCHANGED <<slotVars, hookVars, guardVars, threadVars>>

Disabled(a) ==
    /\ todo[a] = {} /\ a \notin failed
    /\ \/ a \notin retired /\ Moves(a, "disabling", "retiring") /\ UNCHANGED todo
       \/ a \in retired /\ Moves(a, "disabling", "removing") /\ Loop(a, targets[a])
    /\ UNCHANGED <<slotVars, hookVars, guardVars, threadVars>>

\* Two mistakes: nobody waits for the detours; the slot keeps a clone of the state.
RetireAtOnce(a) ==
    /\ state' = None
    /\ Moves(a, "retiring", "removing")
    /\ retired' = retired \cup {a} /\ Loop(a, targets[a])
    /\ UNCHANGED <<lifecycle, occupied, active, hookVars, purpose, enabled, failed, forgotten,
                   threadVars>>

RetireClone(a) ==
    /\ active = 0
    /\ Moves(a, "retiring", "removing")
    /\ retired' = retired \cup {a} /\ Loop(a, targets[a])
    /\ UNCHANGED <<slotVars, hookVars, purpose, enabled, failed, forgotten, threadVars>>

\* retire takes the state, and sleeps while a detour still holds a lease on it.
Retire(a) ==
    /\ state' = None
    /\ \/ /\ active = 0
          /\ Moves(a, "retiring", "removing")
          /\ retired' = retired \cup {a} /\ Loop(a, targets[a])
       \/ /\ active # 0
          /\ Moves(a, "retiring", "draining")
          /\ UNCHANGED <<retired, todo>>
    /\ UNCHANGED <<lifecycle, occupied, active, hookVars, purpose, enabled, failed, forgotten,
                   threadVars>>

\* After notify_all the condition is looked at again.
Woken(a) ==
    /\ \/ /\ active = 0
          /\ Moves(a, "woken", "removing")
          /\ retired' = retired \cup {a} /\ Loop(a, targets[a])
       \/ /\ active # 0
          /\ Moves(a, "woken", "draining")
          /\ UNCHANGED <<retired, todo>>
    /\ UNCHANGED <<slotVars, hookVars, purpose, enabled, failed, forgotten, threadVars>>

\* NativeGroup::remove, called by uninstall and by the drop of a group that was
\* never enabled.
Removes == {"removing", "discarding", "abandoning"}

RemoveOk(a, t) ==
    /\ at[a] \in Removes /\ t \in todo[a]
    /\ hook' = [hook EXCEPT ![t] = "absent"]
    /\ TARGETS' = [TARGETS EXCEPT ![t] = None]
    /\ targets' = [targets EXCEPT ![a] = @ \ {t}]
    /\ Loop(a, todo[a] \ {t})
    /\ UNCHANGED <<slotVars, guardVars, at, threadVars>>

RemoveFails(a, t) ==
    /\ at[a] \in Removes /\ t \in todo[a]
    /\ failed' = failed \cup {a}
    /\ Loop(a, todo[a] \ {t})
    /\ UNCHANGED <<slotVars, hookVars, purpose, enabled, retired, forgotten, at, threadVars>>

\* uninstall succeeds; after a rollback or in Drop the guard is gone, too.
Removed(a) ==
    /\ todo[a] = {} /\ a \notin failed
    /\ \/ purpose[a] = "api" /\ Moves(a, "removing", "uninstalled")
       \/ purpose[a] # "api" /\ Moves(a, "removing", "gone")
    /\ occupied' = "free" /\ lifecycle' = None
    /\ UNCHANGED <<state, active, hookVars, guardVars, todo, threadVars>>

\* Three mistakes: Drop frees the retired state; Drop tries again until it succeeds;
\* a failed cleanup frees the slot.
UninstallFailsAndFrees(a) ==
    /\ at[a] \in {"disabling", "removing"} /\ todo[a] = {} /\ a \in failed
    /\ lifecycle' = None
    /\ purpose' = [purpose EXCEPT ![a] = IF @ = "install" THEN "drop" ELSE @]
    /\ at' = [at EXCEPT ![a] = IF purpose[a] = "api" THEN "unsuccessful"
                               ELSE IF purpose[a] = "install" THEN "locking" ELSE "leaked"]
    /\ UNCHANGED <<occupied, state, active, hookVars, todo, enabled, failed, retired,
                   forgotten, threadVars>>

UninstallFailsAndRetries(a) ==
    /\ at[a] \in {"disabling", "removing"} /\ todo[a] = {} /\ a \in failed
    /\ lifecycle' = None
    /\ at' = [at EXCEPT ![a] = IF purpose[a] = "api" THEN "unsuccessful" ELSE "locking"]
    /\ UNCHANGED <<occupied, state, active, hookVars, guardVars, todo, threadVars>>

UninstallFailsAndReopens(a) ==
    /\ at[a] \in {"disabling", "removing"} /\ todo[a] = {} /\ a \in failed
    /\ lifecycle' = None /\ occupied' = "free"
    /\ at' = [at EXCEPT ![a] = "unsuccessful"]
    /\ UNCHANGED <<state, active, hookVars, guardVars, todo, threadVars>>

\* uninstall returns an error.  A rollback drops the guard, which tries again;
\* Drop gives up: it forgets the retired state, and the group's own drop removes
\* what was never enabled.
UninstallFails(a) ==
    /\ at[a] \in {"disabling", "removing"} /\ todo[a] = {} /\ a \in failed
    /\ lifecycle' = None
    /\ \/ /\ purpose[a] = "api"
          /\ at' = [at EXCEPT ![a] = "unsuccessful"]
          /\ UNCHANGED <<purpose, forgotten, todo>>
       \/ /\ purpose[a] = "install"
          /\ at' = [at EXCEPT ![a] = "locking"]
          /\ purpose' = [purpose EXCEPT ![a] = "drop"]
          /\ UNCHANGED <<forgotten, todo>>
       \/ /\ purpose[a] = "drop"
          /\ forgotten' = forgotten \cup ({a} \cap retired)
          /\ IF a \in enabled
             THEN at' = [at EXCEPT ![a] = "leaked"] /\ UNCHANGED todo
             ELSE at' = [at EXCEPT ![a] = "abandoning"] /\ Loop(a, targets[a])
          /\ UNCHANGED purpose
    /\ UNCHANGED <<occupied, state, active, hookVars, enabled, failed, retired, threadVars>>

DropGuard(a) ==
    /\ \/ Moves(a, "installed", "locking")
       \/ Moves(a, "unsuccessful", "locking")
       \/ Moves(a, "uninstalled", "gone")
    /\ purpose' = [purpose EXCEPT ![a] = "drop"]
    /\ UNCHANGED <<slotVars, hookVars, enabled, failed, retired, forgotten, todo, threadVars>>

\* The drop of a HookSet ends with its mutex, that of a failed guard without.
Discarded(a) ==
    /\ todo[a] = {}
    /\ \/ Moves(a, "discarding", "gone") /\ lifecycle' = None
       \/ Moves(a, "abandoning", "gone") /\ UNCHANGED lifecycle
    /\ UNCHANGED <<occupied, state, active, hookVars, guardVars, todo, threadVars>>

--------------------------------------------------------------------------------
(* Detours.  A thread that calls a hooked function may be stopped anywhere.   *)

Goes(d, p, q) == thread[d] = p /\ thread' = [thread EXCEPT ![d] = q]
HookedNow == \E t \in Targets : hook[t] = "enabled"

CallTarget(d) ==
    /\ HookedNow /\ Goes(d, "out", "detour")
    /\ UNCHANGED <<slotVars, hookVars, guardVars, at, todo, lease>>

\* A mistake: an invocation without state counts out, too.
EnterUncounted(d) ==
    /\ \/ /\ state # None
          /\ Goes(d, "detour", "leased")
          /\ lease' = [lease EXCEPT ![d] = state]
          /\ active' = active + 1
       \/ /\ state = None
          /\ Goes(d, "detour", "leaving")
          /\ UNCHANGED <<lease, active>>
    /\ UNCHANGED <<lifecycle, occupied, state, hookVars, guardVars, at, todo>>

\* HookSlot::enter: the state of the slot, whoever published it by now
Enter(d) ==
    /\ \/ /\ state # None
          /\ Goes(d, "detour", "leased")
          /\ lease' = [lease EXCEPT ![d] = state]
          /\ active' = active + 1
       \/ /\ state = None
          /\ Goes(d, "detour", "fallback")
          /\ UNCHANGED <<lease, active>>
    /\ UNCHANGED <<lifecycle, occupied, state, hookVars, guardVars, at, todo>>

\* Drop of the invocation: first the Arc,
DropLease(d) ==
    /\ Goes(d, "leased", "leaving")
    /\ lease' = [lease EXCEPT ![d] = None]
    /\ UNCHANGED <<slotVars, hookVars, guardVars, at, todo>>

\* then the count, and notify_all when it is the last.
Leave(d) ==
    /\ Goes(d, "leaving", "out")
    /\ active' = active - 1
    /\ at' = [a \in Attempts |-> IF at[a] = "draining" /\ active' = 0 THEN "woken" ELSE at[a]]
    /\ UNCHANGED <<lifecycle, occupied, state, hookVars, guardVars, todo, lease>>

\* With an empty slot the detour calls the target, which ought to be unhooked.
Fallback(d) ==
    /\ \/ HookedNow /\ Goes(d, "fallback", "detour")
       \/ ~HookedNow /\ Goes(d, "fallback", "out")
    /\ UNCHANGED <<slotVars, hookVars, guardVars, at, todo, lease>>

--------------------------------------------------------------------------------
Choice(a) == Prepare(a) \/ Refuse(a) \/ Discard(a) \/ Uninstall(a) \/ DropGuard(a)
             \/ (\E t \in Targets : Claim(a, t)) \/ Install(a)

\* What an attempt does without being asked.
Continue(a) ==
    \/ \E t \in Targets :
        \/ CreateOk(a, t) \/ CreateFails(a, t)
        \/ EnableOk(a, t)
        \/ DisableOk(a, t) \/ DisableFails(a, t)
        \/ RemoveOk(a, t) \/ RemoveFails(a, t)
    \/ EnableFails(a) \/ Installed(a)
    \/ Lock(a) \/ Disabled(a) \/ Retire(a) \/ Woken(a)
    \/ Removed(a) \/ UninstallFails(a) \/ Discarded(a)

Detour(d) == Enter(d) \/ DropLease(d) \/ Leave(d) \/ Fallback(d)

\* Every attempt is over and every thread has left.
AtRest ==
    /\ \A a \in Attempts : at[a] \in {"gone", "leaked"}
    /\ \A d \in Threads : thread[d] = "out"
    /\ UNCHANGED vars

Next ==
    \/ \E a \in Attempts : Choice(a) \/ Continue(a)
    \/ \E d \in Threads : CallTarget(d) \/ Detour(d)
    \/ AtRest

Spec == Init /\ [][Next]_vars

\* A thread that runs an operation goes on, and a detour returns to the game.
Fairness ==
    /\ \A a \in Attempts : WF_vars(Continue(a))
    /\ \A d \in Threads : WF_vars(Detour(d))

--------------------------------------------------------------------------------
(* Properties *)

Leased(a) == {d \in Threads : lease[d] = a}

\* A trampoline is never freed under a detour: while a thread holds a lease, every
\* hook whose trampoline that state knows exists and belongs to that same attempt,
\* even if the thread entered the detour under an earlier one (enter, retire, and
\* the order disable, drain, remove in uninstall).  And the fallback of a detour
\* never meets its own hook: while any target is enabled the slot has a state to
\* lend, also in the middle of a rollback or after a cleanup that failed (install
\* publishes before enable; retire after disable).  State whose hooks could not be
\* removed is never freed either: it stays in the slot, or is forgotten (Drop for
\* HookGuard).
TrampolinesLive ==
    /\ \A d \in Threads : lease[d] # None =>
          \A t \in Targets : hook[t] # "absent" /\ TARGETS[t] = lease[d]
    /\ HookedNow => state # None /\ occupied = "occupied"
    /\ \A a \in enabled \cup retired : at[a] \in {"gone", "leaked"} /\ targets[a] # {} =>
          state = a \/ a \in forgotten \/ Leased(a) # {}

\* Whoever owns a guard after its removal has the state for itself alone, so that
\* retired_state_mut never finds it shared, and a slot that may be prepared again
\* is clean: no lease is out, no hook of an earlier user is enabled, and the table
\* holds no address of it but those of a HookSet that could not be rolled back.
RetiredAlone ==
    /\ TypeOK
    /\ \A a \in retired : targets[a] = {} => Leased(a) = {} /\ state # a
    /\ occupied = "free" =>
          /\ active = 0 /\ state = None
          /\ \A a \in Attempts : a \in enabled => targets[a] = {}

\* Removing a group comes to an end, even if all its detours were busy, as long as
\* each detour returns: no wakeup is lost and no new call can hold it up.
UninstallEnds ==
    \A a \in Attempts : at[a] = "locking" ~>
        at[a] \in {"uninstalled", "unsuccessful", "leaked", "gone"}
================================================================================
