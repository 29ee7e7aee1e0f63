------------------------------ MODULE HookTargets ------------------------------
(***************************************************************************)
(* The process-wide table of what is hooked or patched, and for whom:      *)
(* TARGETS with NativeGroup and PatchReservation of runtime/hooks/src/     *)
(* backend.rs, used by hook groups and by the byte patches of the mods     *)
(* (CodePatches and Caches of geometry, Patches of monster,                *)
(* ResetPresentation of workbench).                                        *)
(*                                                                         *)
(* The table maps the first address of a span to its owner and its end.  A *)
(* client is one group of hooks or one list of patches; its calls come     *)
(* from any thread, and each locked section of the table is a step.        *)
(*                                                                         *)
(* owner, end     TARGETS: who registered the span that starts at an       *)
(*                address, None if no one, and the first address after it  *)
(* claiming       a target that create registered and MinHook still has    *)
(* mine           the targets or reservations that a client keeps          *)
(* edited         which client has changed the game at which span          *)
(***************************************************************************)
EXTENDS Integers

CONSTANTS
    Clients,        \* hook groups and patch lists
    Owners,         \* identifiers of mods
    OwnerOf,        \* OwnerOf[c]: the owner that client c was created for
    Patches,        \* Patches[c]: spans <<start, end>> that c may reserve
    Entries,        \* Entries[c]: addresses of functions that c may hook
    Last,           \* the last address
    None

Addresses == 0 .. Last

ASSUME LastAssumption == Last \in Nat
ASSUME OwnerAssumption == OwnerOf \in [Clients -> Owners] /\ None \notin Owners
\* An empty patch is refused, so is one that ends behind the address space.
ASSUME PatchesAssumption ==
    /\ Patches \in [Clients -> SUBSET (Addresses \X Addresses)]
    /\ \A c \in Clients : \A p \in Patches[c] : p[1] < p[2]
ASSUME EntriesAssumption == Entries \in [Clients -> SUBSET Addresses]

VARIABLES owner, end, claiming, mine, edited

vars == <<owner, end, claiming, mine, edited>>

Registered == {a \in Addresses : owner[a] # None}

TypeOK ==
    /\ owner \in [Addresses -> Owners \cup {None}]
    /\ end \in [Addresses -> 0 .. Last + 1]
    /\ claiming \in [Clients -> SUBSET Addresses]
    /\ mine \in [Clients -> SUBSET Addresses]
    /\ edited \in [Clients -> SUBSET Addresses]

Init ==
    /\ owner = [a \in Addresses |-> None]
    /\ end = [a \in Addresses |-> 0]
    /\ claiming = [c \in Clients |-> {}]
    /\ mine = [c \in Clients |-> {}]
    /\ edited = [c \in Clients |-> {}]

Register(c, first, behind) ==
    /\ owner' = [owner EXCEPT ![first] = OwnerOf[c]]
    /\ end' = [end EXCEPT ![first] = behind]

Free(a) ==
    /\ owner' = [owner EXCEPT ![a] = None]
    /\ end' = [end EXCEPT ![a] = 0]

\* A mistake: the new span is only looked up by its first address, as a hook is.
ReserveByStart(c, first, behind) ==
    /\ claiming[c] = {}
    /\ \A a \in Registered : ~(a <= first /\ first < end[a])
    /\ Register(c, first, behind)
    /\ mine' = [mine EXCEPT ![c] = @ \cup {first}]
    /\ UNCHANGED <<claiming, edited>>

\* PatchReservation::reserve: no registered span may overlap the new one.
Reserve(c, first, behind) ==
    /\ claiming[c] = {}
    /\ \A a \in Registered : ~(a < behind /\ first < end[a])
    /\ Register(c, first, behind)
    /\ mine' = [mine EXCEPT ![c] = @ \cup {first}]
    /\ UNCHANGED <<claiming, edited>>

\* A mistake: an owner may hook what is registered under its own name.
ClaimOwn(c, t) ==
    /\ claiming[c] = {}
    /\ \A a \in Registered : ~(a <= t /\ t < end[a]) \/ owner[a] = OwnerOf[c]
    /\ Register(c, t, t + 1)
    /\ claiming' = [claiming EXCEPT ![c] = {t}]
    /\ UNCHANGED <<mine, edited>>

\* NativeGroup::create registers the entry before it asks MinHook,
Claim(c, t) ==
    /\ claiming[c] = {}
    /\ \A a \in Registered : ~(a <= t /\ t < end[a])
    /\ Register(c, t, t + 1)
    /\ claiming' = [claiming EXCEPT ![c] = {t}]
    /\ UNCHANGED <<mine, edited>>

\* which accepts the target
CreateOk(c, t) ==
    /\ t \in claiming[c]
    /\ claiming' = [claiming EXCEPT ![c] = {}]
    /\ mine' = [mine EXCEPT ![c] = @ \cup {t}]
    /\ UNCHANGED <<owner, end, edited>>

\* or not.
CreateFails(c, t) ==
    /\ t \in claiming[c]
    /\ Free(t)
    /\ claiming' = [claiming EXCEPT ![c] = {}]
    /\ UNCHANGED <<mine, edited>>

\* enable, or the write of a patch, which counts even if it reports an error
Edit(c, a) ==
    /\ a \in mine[c]
    /\ edited' = [edited EXCEPT ![c] = @ \cup {a}]
    /\ UNCHANGED <<owner, end, claiming, mine>>

\* disable, or the write of the original bytes
Undo(c, a) ==
    /\ a \in mine[c] \cap edited[c]
    /\ edited' = [edited EXCEPT ![c] = @ \ {a}]
    /\ UNCHANGED <<owner, end, claiming, mine>>

\* A mistake: a span is released although its restoration failed.
ReleaseAnyway(c, a) ==
    /\ a \in mine[c]
    /\ Free(a)
    /\ mine' = [mine EXCEPT ![c] = @ \ {a}]
    /\ UNCHANGED <<claiming, edited>>

\* NativeGroup::remove and PatchReservation::release.  Every client restores
\* first: uninstall disables before it removes, and restore writes the original
\* bytes before it gives the reservation back.
Release(c, a) ==
    /\ a \in mine[c] \ edited[c]
    /\ Free(a)
    /\ mine' = [mine EXCEPT ![c] = @ \ {a}]
    /\ UNCHANGED <<claiming, edited>>

\* The client is dropped.  What it could not restore stays in the table, for a
\* reservation has no destructor, nor has a group one that was ever enabled.
Abandon(c) ==
    /\ claiming[c] = {} /\ mine[c] # {}
    /\ mine' = [mine EXCEPT ![c] = {}]
    /\ UNCHANGED <<owner, end, claiming, edited>>

Next ==
    \E c \in Clients :
        \/ \E p \in Patches[c] : Reserve(c, p[1], p[2])
        \/ \E t \in Entries[c] : Claim(c, t)
        \/ \E a \in Addresses :
            CreateOk(c, a) \/ CreateFails(c, a) \/ Edit(c, a) \/ Undo(c, a) \/ Release(c, a)
        \/ Abandon(c)

Spec == Init /\ [][Next]_vars

--------------------------------------------------------------------------------
(* Properties *)

Overlap(a, b) == a < end[b] /\ b < end[a]

\* Two spans in the table never overlap, though reserve and create ask different
\* questions of it: a hook in the middle of a patch, or a patch across a hook,
\* would be undone in the wrong order.
SpansDisjoint == \A a, b \in Registered : a # b => ~Overlap(a, b)

\* Two clients never change the same byte of the game, not even two clients of one
\* mod, and not after one of them was dropped with its change in place.
OneEditor ==
    \A c, d \in Clients : c # d =>
        \A a \in edited[c], b \in edited[d] : a # b /\ ~Overlap(a, b)

\* ensure_released speaks the truth: when it finds nothing under a name, no client
\* of that name has left a change in the game.
ensure_released(o) == \A a \in Registered : owner[a] # o
ReleasedMeansClean ==
    \A c \in Clients : ensure_released(OwnerOf[c]) => edited[c] = {}

--------------------------------------------------------------------------------
(* The inductive invariant *)

Held(c) == mine[c] \cup claiming[c]

\* A registered span has at least one byte, and any other entry has none.
EndInv == \A a \in Addresses : IF owner[a] = None THEN end[a] = 0 ELSE a < end[a]

\* What a client keeps, or has changed, is registered in its owner's name,
HeldInv == \A c \in Clients : \A a \in Held(c) \cup edited[c] : owner[a] = OwnerOf[c]

\* and no two clients have the same span, even if one was dropped.
AloneInv ==
    \A c, d \in Clients : c # d =>
        (Held(c) \cup edited[c]) \cap (Held(d) \cup edited[d]) = {}

\* A claim in progress is not kept yet.
ClaimInv == \A c \in Clients : claiming[c] \cap (mine[c] \cup edited[c]) = {}

IInv == TypeOK /\ EndInv /\ SpansDisjoint /\ HeldInv /\ AloneInv /\ ClaimInv
================================================================================
