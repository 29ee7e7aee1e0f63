----------------------------- MODULE ModLifecycle -----------------------------
(***************************************************************************)
(* What a mod host promises about the lifetimes of a set of mods, with no  *)
(* word about phases, passes, retries or errors: every mod climbs a ladder *)
(*                                                                         *)
(*    absent -> idle -> active -> stopped -> detached -> released -> gone  *)
(*                                                                         *)
(* and a mod never takes a step of the downward half while a mod that uses *)
(* it, directly or through others, is still on a lower rung.  ModHost      *)
(* implements this module: the mapping is in ModHost.tla.                  *)
(***************************************************************************)
EXTENDS Integers

CONSTANTS
    Mods,           \* the mods of one session
    Consumers       \* Consumers[m]: the mods that use m, directly or not

VARIABLE rung       \* rung[m]: how far mod m has come

Rungs == {"absent", "idle", "active", "stopped", "detached", "released", "gone"}

TypeOK == rung \in [Mods -> Rungs]

\* A mod that never took part in a phase has nothing to stop or detach.
BeforeUse == {"absent", "idle"}

Init == rung = [m \in Mods |-> "absent"]

Move(m, from, to) ==
    /\ rung[m] = from
    /\ rung' = [rung EXCEPT ![m] = to]

\* The instance of mod m exists: everything it uses was created before it.
Create(m) ==
    /\ \A p \in Mods : m \in Consumers[p] => rung[p] # "absent"
    /\ Move(m, "absent", "idle")

\* Mod m is called for the first time: no mod has begun to shut down.
Participate(m) ==
    /\ \A n \in Mods : rung[n] \in {"absent", "idle", "active"}
    /\ Move(m, "idle", "active")

\* The consumers of mod m that were ever active stopped before it.
Stop(m) ==
    /\ \A c \in Consumers[m] : rung[c] # "active"
    /\ Move(m, "active", "stopped")

Detach(m) ==
    /\ \A c \in Consumers[m] : rung[c] \notin {"active", "stopped"}
    /\ Move(m, "stopped", "detached")

\* Extra references to the game go back only when nothing is hooked any more.
Release(m) ==
    /\ \A n \in Mods : rung[n] \notin {"active", "stopped"}
    /\ \A c \in Consumers[m] : rung[c] # "detached"
    /\ Move(m, "detached", "released")

\* An instance is destroyed after its consumers, and only when every mod that
\* was ever active has finished its cleanup.
Destroy(m) ==
    /\ \A n \in Mods : rung[n] \notin {"active", "stopped", "detached"}
    /\ \A c \in Consumers[m] : rung[c] \in {"absent", "gone"}
    /\ \/ Move(m, "released", "gone")
       \/ Move(m, "idle", "gone")

Next ==
    \E m \in Mods :
        \/ Create(m)
        \/ Participate(m)
        \/ Stop(m)
        \/ Detach(m)
        \/ Release(m)
        \/ Destroy(m)

Spec == Init /\ [][Next]_rung
===============================================================================
