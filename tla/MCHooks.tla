------------------------------- MODULE MCHooks -------------------------------
(* The two levels of the hook runtime side by side, each on an instance of its *)
(* own: `level` says which one a behaviour is about, and the other stays as it *)
(* was.                                                                        *)
(*   "slot"   two attempts at one slot, two targets and three game threads    *)
(*   "table"  two patch lists and two hook groups of two mods; the spans of    *)
(*            the patches overlap each other and contain entries that the      *)
(*            groups hook                                                      *)
EXTENDS HookTargets, TLC

CONSTANTS Attempts, Targets, Threads, p1, p2, h1, h2, base, workbench
VARIABLES lifecycle, occupied, state, active, hook, TARGETS, at, todo, purpose,
          targets, enabled, failed, retired, forgotten, thread, lease, level

Slot == INSTANCE HookSlot
slotVars == <<lifecycle, occupied, state, active, hook, TARGETS, at, todo, purpose,
              targets, enabled, failed, retired, forgotten, thread, lease>>

ASSUME AttemptsAssumption == Slot!SlotAssumption

MCOwnerOf == (p1 :> base) @@ (p2 :> workbench) @@ (h1 :> base) @@ (h2 :> workbench)
MCPatches == (p1 :> {<<0, 3>>, <<4, 5>>}) @@ (p2 :> {<<2, 4>>}) @@ (h1 :> {}) @@ (h2 :> {})
MCEntries == (p1 :> {}) @@ (p2 :> {}) @@ (h1 :> {1, 4}) @@ (h2 :> {3, 4})

\* Only the first level is asked to end where it may: a table can be full.
AtRest == UNCHANGED vars

LevelInit == level \in {"slot", "table"} /\ Slot!Init /\ Init
LevelNext ==
    /\ \/ level = "slot" /\ Slot!Next /\ UNCHANGED vars
       \/ level = "table" /\ (Next \/ AtRest) /\ UNCHANGED slotVars
    /\ UNCHANGED level
LevelSpec ==
    /\ LevelInit /\ [][LevelNext]_<<level, vars, slotVars>>
    /\ Slot!Fairness

\* The properties of HookSlot, stated there.
TrampolinesLive == Slot!TrampolinesLive
RetiredAlone == Slot!RetiredAlone
UninstallEnds == Slot!UninstallEnds
==============================================================================
