------------------------------ MODULE HookProofs ------------------------------
(***************************************************************************)
(* Proofs about the hooks: of HookSlot the inductive invariant and the two *)
(* safety properties, for any attempts, targets and threads of the game    *)
(* (the number of threads need not be finite: only those inside are        *)
(* counted), and of HookTargets the inductive invariant and the three      *)
(* safety properties, for any clients, owners, spans and addresses.        *)
(***************************************************************************)
EXTENDS MCHooks, FiniteSetTheorems, TLAPS

-----------------------------------------------------------------------------
(* The callback slot (runtime/hooks/src/lib.rs)                              *)

\* Where an attempt has the slot, where its state is lent if it is not retired,
\* and where it waits for the detours.
Occupying == {"enabling", "installed", "locking", "unsuccessful", "disabling", "retiring",
              "draining", "woken", "removing", "abandoning", "leaked"}
Lending == {"enabling", "installed", "locking", "unsuccessful", "disabling", "retiring",
            "leaked"}
Waiting == {"draining", "woken"}

\* The detours that are counted.
Inside == {d \in Threads : thread[d] \in {"leased", "leaving"}}

MutexInv == \A a \in Attempts : lifecycle = a <=> at[a] \in Slot!Locked

OccupiedInv ==
    /\ \A a \in Attempts :
        /\ at[a] \in Occupying => occupied = "occupied"
        /\ at[a] \in {"preparing", "creating", "discarding"} => occupied = "free"
    /\ \A a, b \in Attempts : at[a] \in Occupying /\ at[b] \in Occupying => a = b

\* The state is in the slot exactly from install to retire.
StateInv == \A a \in Attempts : state = a <=> at[a] \in Lending /\ a \notin retired

\* The records of an attempt agree with the place it has come to.
RecordInv == \A a \in Attempts :
    /\ a \in retired => at[a] \in {"locking", "unsuccessful", "disabling", "removing",
                                   "abandoning", "uninstalled", "leaked", "gone"}
    /\ at[a] \in {"removing", "abandoning"} => a \in retired
    /\ at[a] \in {"abandoning", "leaked", "gone"} /\ a \in retired =>
          targets[a] = {} \/ a \in forgotten
    /\ a \in enabled =>
          \/ at[a] \in Occupying \ {"abandoning"}
          \/ at[a] \in {"uninstalled", "gone"} /\ targets[a] = {}
    /\ at[a] = "uninstalled" => targets[a] = {}
    /\ at[a] \in {"new", "preparing", "creating", "enabling", "retiring"} \cup Waiting =>
          a \notin failed
    /\ at[a] = "disabling" /\ a \in failed => a \in enabled

\* A loop runs over targets of the attempt, and a removal forgets none.
LoopInv == \A a \in Attempts :
    /\ at[a] \in {"enabling", "disabling"} \cup Slot!Removes => todo[a] \subseteq targets[a]
    /\ at[a] = "removing" /\ a \notin failed => targets[a] \subseteq todo[a]
    /\ at[a] = "creating" =>
          \A t \in todo[a] : t \in Targets /\ TARGETS[t] = a /\ t \notin targets[a]

\* What an attempt created exists in its name; all of it, while its state is lent.
TargetInv == \A a \in Attempts :
    /\ \A t \in targets[a] : TARGETS[t] = a /\ hook[t] # "absent"
    /\ state = a \/ at[a] \in Waiting => targets[a] = Targets

\* An enabled hook has the lent state behind it, and is still to be disabled.
EnabledInv == \A t \in Targets : hook[t] = "enabled" =>
    /\ state \in enabled
    /\ at[state] # "retiring"
    /\ at[state] = "disabling" => t \in todo[state] \/ state \in failed

\* A lease is of the lent state, or of one whose attempt waits for it; and
\* whoever is counted is inside while one of these is so.
LeaseInv ==
    /\ IsFiniteSet(Inside) /\ active = Cardinality(Inside)
    /\ \A d \in Threads :
        /\ thread[d] = "leased" <=> lease[d] # None
        /\ lease[d] # None => state = lease[d] \/ at[lease[d]] \in Waiting
    /\ Inside # {} => state # None \/ \E a \in Attempts : at[a] \in Waiting

SlotInv ==
    /\ Slot!TypeOK
    /\ MutexInv
    /\ OccupiedInv
    /\ StateInv
    /\ RecordInv
    /\ LoopInv
    /\ TargetInv
    /\ EnabledInv
    /\ LeaseInv

\* What every step below expands.
USE AttemptsAssumption
USE DEF Slot!SlotAssumption, Slot!slotVars, Slot!hookVars, Slot!guardVars, Slot!threadVars,
        Slot!Moves, Slot!Loop, Slot!Goes,
        Slot!Locked, Slot!Places, Slot!Removes, Occupying, Lending, Waiting

\* What attempts and the table of hooks are in, without the counted leases.
AttemptInv ==
    /\ Slot!TypeOK /\ MutexInv /\ OccupiedInv /\ StateInv
    /\ RecordInv /\ LoopInv /\ TargetInv /\ EnabledInv

--------------------------------------------------------------------------------
\* Nothing is installed and nobody is inside.
LEMMA InitInv == ASSUME Slot!Init PROVE SlotInv
<1>1. Inside = {}
  BY DEF Slot!Init, Inside
<1>2. LeaseInv
  BY <1>1, FS_EmptySet DEF Slot!Init, LeaseInv
<1> QED
  BY <1>2 DEF Slot!Init, SlotInv, Slot!TypeOK, MutexInv, OccupiedInv, StateInv, RecordInv, LoopInv,
              TargetInv, EnabledInv

\* The invariant speaks of the present state only.
LEMMA StutterInv == ASSUME SlotInv, UNCHANGED Slot!vars PROVE SlotInv'
BY DEF Slot!vars, SlotInv, Slot!TypeOK, MutexInv, OccupiedInv, StateInv, RecordInv, LoopInv, TargetInv,
       EnabledInv, LeaseInv, Inside

--------------------------------------------------------------------------------
\* Every step of an attempt keeps the attempts, the slot and the hooks in order.
LEMMA AttemptStep ==
    ASSUME SlotInv, NEW a \in Attempts, Slot!Choice(a) \/ Slot!Continue(a)
    PROVE  AttemptInv'
<1> USE DEF SlotInv, AttemptInv, Slot!TypeOK, MutexInv, OccupiedInv, StateInv, RecordInv, LoopInv,
            TargetInv, EnabledInv
<1>1. CASE Slot!Prepare(a)
  BY <1>1 DEF Slot!Prepare
<1>2. CASE Slot!Refuse(a)
  BY <1>2 DEF Slot!Refuse
<1>3. CASE Slot!Discard(a)
  BY <1>3 DEF Slot!Discard
<1>4. CASE Slot!Uninstall(a)
  BY <1>4 DEF Slot!Uninstall
<1>5. CASE Slot!DropGuard(a)
  BY <1>5 DEF Slot!DropGuard
<1>6. CASE Slot!Install(a)
  BY <1>6 DEF Slot!Install
<1>7. CASE Slot!EnableFails(a)
  BY <1>7 DEF Slot!EnableFails
<1>8. CASE Slot!Installed(a)
  BY <1>8 DEF Slot!Installed
<1>9. CASE Slot!Lock(a)
  BY <1>9 DEF Slot!Lock
<1>10. CASE Slot!Disabled(a)
  BY <1>10 DEF Slot!Disabled
<1>11. CASE Slot!Retire(a)
  BY <1>11 DEF Slot!Retire
<1>12. CASE Slot!Woken(a)
  BY <1>12 DEF Slot!Woken
<1>13. CASE Slot!Removed(a)
  BY <1>13 DEF Slot!Removed
<1>14. CASE Slot!UninstallFails(a)
  BY <1>14 DEF Slot!UninstallFails
<1>15. CASE Slot!Discarded(a)
  BY <1>15 DEF Slot!Discarded
<1>16. ASSUME NEW t \in Targets, Slot!Claim(a, t) PROVE AttemptInv'
  BY <1>16 DEF Slot!Claim
<1>17. ASSUME NEW t \in Targets, Slot!CreateOk(a, t) PROVE AttemptInv'
  BY <1>17 DEF Slot!CreateOk
<1>18. ASSUME NEW t \in Targets, Slot!CreateFails(a, t) PROVE AttemptInv'
  BY <1>18 DEF Slot!CreateFails
<1>19. ASSUME NEW t \in Targets, Slot!EnableOk(a, t) PROVE AttemptInv'
  BY <1>19 DEF Slot!EnableOk
<1>20. ASSUME NEW t \in Targets, Slot!DisableOk(a, t) PROVE AttemptInv'
  BY <1>20 DEF Slot!DisableOk
<1>21. ASSUME NEW t \in Targets, Slot!DisableFails(a, t) PROVE AttemptInv'
  BY <1>21 DEF Slot!DisableFails
<1>22. ASSUME NEW t \in Targets, Slot!RemoveOk(a, t) PROVE AttemptInv'
  BY <1>22 DEF Slot!RemoveOk
<1>23. ASSUME NEW t \in Targets, Slot!RemoveFails(a, t) PROVE AttemptInv'
  BY <1>23 DEF Slot!RemoveFails
<1> HIDE DEF SlotInv, AttemptInv, Slot!TypeOK, MutexInv, OccupiedInv, StateInv, RecordInv, LoopInv,
             TargetInv, EnabledInv
<1> QED
  BY <1>1, <1>2, <1>3, <1>4, <1>5, <1>6, <1>7, <1>8, <1>9, <1>10, <1>11, <1>12, <1>13, <1>14, <1>15, <1>16, <1>17, <1>18, <1>19, <1>20, <1>21, <1>22, <1>23 DEF Slot!Choice, Slot!Continue

\* A step of an attempt that leaves the lent state in the slot, and keeps waiting
\* whoever waits, keeps the leases in order.
LEMMA SameLeases ==
    ASSUME SlotInv, UNCHANGED <<Slot!threadVars, state, active>>,
           \A a \in Attempts : at[a] \in Waiting => at'[a] \in Waiting
    PROVE  LeaseInv'
BY DEF SlotInv, Slot!TypeOK, LeaseInv, Inside

\* When the count is zero nobody is inside.
LEMMA NobodyInside ==
    ASSUME SlotInv, active = 0
    PROVE  Inside = {} /\ \A d \in Threads : lease[d] = None
<1>1. Inside = {}
  BY FS_EmptySet DEF SlotInv, LeaseInv
<1>2. \A d \in Threads : thread[d] # "leased"
  BY <1>1 DEF Inside
<1> QED
  BY <1>1, <1>2 DEF SlotInv, LeaseInv

\* The steps of an attempt that publish its state, take it back, or end the wait for
\* its detours; the others lend what was lent before.
LEMMA AttemptLeases ==
    ASSUME SlotInv, NEW a \in Attempts, Slot!Choice(a) \/ Slot!Continue(a)
    PROVE  LeaseInv'
<1> USE DEF SlotInv, Slot!TypeOK
<1>1. CASE Slot!Install(a)
  <2>1. state = None /\ \A b \in Attempts : at[b] \notin Waiting
    BY <1>1 DEF Slot!Install, StateInv, OccupiedInv
  <2>2. Inside = {} /\ \A d \in Threads : lease[d] = None
    BY <2>1 DEF LeaseInv, Inside
  <2> QED
    BY <1>1, <2>2 DEF Slot!Install, LeaseInv, Inside
<1>2. CASE Slot!Retire(a)
  <2>1. state = a
    BY <1>2 DEF Slot!Retire, StateInv, RecordInv
  <2>2. CASE active = 0
    BY <1>2, <2>2, NobodyInside DEF Slot!Retire, LeaseInv, Inside
  <2>3. CASE active # 0
    <3>1. at'[a] \in Waiting /\ \A b \in Attempts : at[b] \in Waiting => at'[b] \in Waiting
      BY <1>2, <2>3 DEF Slot!Retire
    <3> QED
      BY <1>2, <2>1, <3>1 DEF Slot!Retire, LeaseInv, Inside
  <2> QED
    BY <2>2, <2>3
<1>3. CASE Slot!Woken(a)
  <2>1. CASE active = 0
    BY <1>3, <2>1, NobodyInside DEF Slot!Woken, LeaseInv, Inside
  <2>2. CASE active # 0
    BY <1>3, <2>2, SameLeases DEF Slot!Woken
  <2> QED
    BY <2>1, <2>2
<1>4. CASE Slot!Choice(a) /\ ~Slot!Install(a)
  BY <1>4, SameLeases DEF Slot!Choice, Slot!Prepare, Slot!Refuse, Slot!Discard, Slot!Uninstall, Slot!DropGuard, Slot!Claim
<1>5. CASE Slot!Continue(a) /\ ~Slot!Retire(a) /\ ~Slot!Woken(a)
  BY <1>5, SameLeases
     DEF Slot!Continue, Slot!CreateOk, Slot!CreateFails, Slot!EnableOk, Slot!DisableOk, Slot!DisableFails, Slot!RemoveOk,
         Slot!RemoveFails, Slot!EnableFails, Slot!Installed, Slot!Lock, Slot!Disabled, Slot!Removed, Slot!UninstallFails,
         Slot!Discarded
<1> QED
  BY <1>1, <1>2, <1>3, <1>4, <1>5 DEF Slot!Choice

--------------------------------------------------------------------------------
\* A detour comes in on the lent state, and the count goes with it until it leaves.
LEMMA DetourStep ==
    ASSUME SlotInv, NEW d \in Threads, Slot!CallTarget(d) \/ Slot!Detour(d)
    PROVE  SlotInv'
<1> USE DEF SlotInv, Slot!TypeOK
<1>1. CASE Slot!CallTarget(d)
  <2>1. Inside' = Inside
    BY <1>1 DEF Slot!CallTarget, Inside
  <2> QED
    BY <1>1, <2>1 DEF Slot!CallTarget, MutexInv, OccupiedInv, StateInv, RecordInv, LoopInv,
                      TargetInv, EnabledInv, LeaseInv
<1>2. CASE Slot!Enter(d)
  <2>1. CASE state # None
    <3>1. d \notin Inside /\ Inside' = Inside \cup {d}
      BY <1>2, <2>1 DEF Slot!Enter, Inside
    <3>2. IsFiniteSet(Inside') /\ Cardinality(Inside') = active'
      BY <1>2, <2>1, <3>1, FS_AddElement DEF Slot!Enter, LeaseInv
    <3> QED
      BY <1>2, <2>1, <3>2 DEF Slot!Enter, MutexInv, OccupiedInv, StateInv, RecordInv, LoopInv,
                              TargetInv, EnabledInv, LeaseInv
  <2>2. CASE state = None
    <3>1. Inside' = Inside
      BY <1>2, <2>2 DEF Slot!Enter, Inside
    <3> QED
      BY <1>2, <2>2, <3>1 DEF Slot!Enter, MutexInv, OccupiedInv, StateInv, RecordInv, LoopInv,
                              TargetInv, EnabledInv, LeaseInv
  <2> QED
    BY <2>1, <2>2
<1>3. CASE Slot!DropLease(d)
  <2>1. Inside' = Inside
    BY <1>3 DEF Slot!DropLease, Inside
  <2> QED
    BY <1>3, <2>1 DEF Slot!DropLease, MutexInv, OccupiedInv, StateInv, RecordInv, LoopInv,
                      TargetInv, EnabledInv, LeaseInv
<1>4. CASE Slot!Leave(d)
  <2>1. d \in Inside /\ Inside' = Inside \ {d}
    BY <1>4 DEF Slot!Leave, Inside
  <2>2. /\ IsFiniteSet(Inside') /\ Cardinality(Inside') = active'
        /\ active' \in Nat
    <3>1. IsFiniteSet(Inside') /\ Cardinality(Inside') = active - 1
      BY <2>1, FS_RemoveElement DEF LeaseInv
    <3> QED
      BY <1>4, <3>1, FS_CardinalityType DEF Slot!Leave
  <2>3. \A a \in Attempts : \/ at'[a] = at[a]
                            \/ at[a] = "draining" /\ at'[a] = "woken"
    BY <1>4 DEF Slot!Leave
  <2>4. AttemptInv'
    BY <1>4, <2>2, <2>3 DEF Slot!Leave, AttemptInv, MutexInv, OccupiedInv, StateInv, RecordInv,
                            LoopInv, TargetInv, EnabledInv
  <2>5. LeaseInv'
    BY <1>4, <2>1, <2>2, <2>3 DEF Slot!Leave, LeaseInv
  <2> QED
    BY <2>4, <2>5 DEF AttemptInv
<1>5. CASE Slot!Fallback(d)
  <2>1. Inside' = Inside
    BY <1>5 DEF Slot!Fallback, Inside
  <2> QED
    BY <1>5, <2>1 DEF Slot!Fallback, MutexInv, OccupiedInv, StateInv, RecordInv, LoopInv,
                      TargetInv, EnabledInv, LeaseInv
<1> QED
  BY <1>1, <1>2, <1>3, <1>4, <1>5 DEF Slot!Detour

\* The invariant holds for any attempts, hooked functions and threads.
THEOREM SlotInvariant == Slot!Spec => []SlotInv
<1>1. Slot!Init => SlotInv
  BY InitInv
<1>2. SlotInv /\ [Slot!Next]_(Slot!vars) => SlotInv'
  <2>1. ASSUME SlotInv, Slot!Next PROVE SlotInv'
    <3>1. ASSUME NEW a \in Attempts, Slot!Choice(a) \/ Slot!Continue(a) PROVE SlotInv'
      BY <2>1, <3>1, AttemptStep, AttemptLeases DEF SlotInv, AttemptInv
    <3>2. ASSUME NEW d \in Threads, Slot!CallTarget(d) \/ Slot!Detour(d) PROVE SlotInv'
      BY <2>1, <3>2, DetourStep
    <3>3. CASE Slot!AtRest
      BY <2>1, <3>3, StutterInv DEF Slot!AtRest
    <3> QED
      BY <2>1, <3>1, <3>2, <3>3 DEF Slot!Next
  <2> QED
    BY <2>1, StutterInv
<1> QED
  BY <1>1, <1>2, PTL DEF Slot!Spec

--------------------------------------------------------------------------------
\* While a thread holds a lease its hooks exist and are of the same attempt, while a
\* hook is enabled the slot has a state to lend, and state whose hooks are left is
\* never freed (enter, retire and uninstall).
THEOREM SlotTrampolinesLive == Slot!Spec => []TrampolinesLive
<1>1. SlotInv => Slot!TrampolinesLive
  <2> SUFFICES ASSUME SlotInv PROVE Slot!TrampolinesLive
    OBVIOUS
  <2> USE DEF SlotInv, Slot!TypeOK
  <2>1. ASSUME NEW d \in Threads, lease[d] # None, NEW t \in Targets
        PROVE  hook[t] # "absent" /\ TARGETS[t] = lease[d]
    BY <2>1 DEF LeaseInv, TargetInv
  <2>2. Slot!HookedNow => state # None /\ occupied = "occupied"
    BY DEF Slot!HookedNow, EnabledInv, StateInv, OccupiedInv, Slot!SlotAssumption
  <2>3. ASSUME NEW a \in enabled \cup retired, at[a] \in {"gone", "leaked"}, targets[a] # {}
        PROVE  state = a \/ a \in forgotten
    BY <2>3 DEF RecordInv, StateInv
  <2> QED
    BY <2>1, <2>2, <2>3 DEF Slot!TrampolinesLive
<1> QED
  BY <1>1, SlotInvariant, PTL DEF TrampolinesLive

\* After a removal the guard has the state for itself alone, and a slot that may be
\* prepared again is clean (retired_state_mut, uninstall).
THEOREM SlotRetiredAlone == Slot!Spec => []RetiredAlone
<1>1. SlotInv => Slot!RetiredAlone
  <2> SUFFICES ASSUME SlotInv PROVE Slot!RetiredAlone
    OBVIOUS
  <2> USE DEF SlotInv, Slot!TypeOK
  <2>1. ASSUME NEW a \in retired PROVE Slot!Leased(a) = {} /\ state # a
    BY <2>1 DEF Slot!Leased, LeaseInv, StateInv, RecordInv, Slot!SlotAssumption
  <2>2. ASSUME occupied = "free"
        PROVE  /\ active = 0 /\ state = None
               /\ \A a \in enabled : targets[a] = {}
    <3>1. state = None /\ \A a \in Attempts : at[a] \notin Occupying
      BY <2>2 DEF StateInv, OccupiedInv
    <3>2. Inside = {}
      BY <3>1 DEF LeaseInv
    <3> QED
      BY <3>1, <3>2, FS_EmptySet DEF LeaseInv, RecordInv
  <2> QED
    BY <2>1, <2>2 DEF Slot!RetiredAlone
<1> QED
  BY <1>1, SlotInvariant, PTL DEF RetiredAlone

-----------------------------------------------------------------------------
(* The table of targets (runtime/hooks/src/backend.rs)                       *)

\* The table starts empty.
LEMMA TargetsInit == Init => IInv
BY LastAssumption, OwnerAssumption
   DEF Init, IInv, TypeOK, EndInv, SpansDisjoint, HeldInv, AloneInv, ClaimInv, Held,
       Registered, Addresses, Overlap

\* The invariant speaks of the present state only.
LEMMA TargetsStutter ==
    ASSUME IInv, UNCHANGED vars
    PROVE  IInv'
BY DEF vars, IInv, TypeOK, EndInv, SpansDisjoint, HeldInv, AloneInv, ClaimInv, Held,
       Registered, Overlap

\* A new span that overlaps no registered one keeps the table in order, and no
\* client had it before.
LEMMA RegisterStep ==
    ASSUME IInv, NEW c \in Clients, NEW first \in Addresses, NEW behind \in 0 .. Last + 1,
           first < behind,
           \A a \in Registered : ~(a < behind /\ first < end[a]),
           Register(c, first, behind)
    PROVE  /\ owner' \in [Addresses -> Owners \cup {None}]
           /\ end' \in [Addresses -> 0 .. Last + 1]
           /\ EndInv'
           /\ SpansDisjoint'
           /\ owner'[first] = OwnerOf[c]
           /\ \A a \in Addresses \ {first} : owner'[a] = owner[a]
           /\ \A d \in Clients : first \notin Held(d) \cup edited[d]
<1> USE LastAssumption, OwnerAssumption
<1>1. /\ owner' = [owner EXCEPT ![first] = OwnerOf[c]]
      /\ end' = [end EXCEPT ![first] = behind]
  BY DEF Register
<1>2. /\ owner' \in [Addresses -> Owners \cup {None}]
      /\ end' \in [Addresses -> 0 .. Last + 1]
      /\ owner'[first] = OwnerOf[c] /\ OwnerOf[c] # None
      /\ end'[first] = behind
      /\ \A a \in Addresses \ {first} : owner'[a] = owner[a] /\ end'[a] = end[a]
  BY <1>1 DEF IInv, TypeOK
<1>3. first \notin Registered
  BY DEF IInv, EndInv, Registered, Addresses
<1>4. Registered' = Registered \cup {first}
  BY <1>2 DEF Registered
<1>5. EndInv'
  BY <1>2 DEF IInv, EndInv
<1>6. SpansDisjoint'
  <2>1. SUFFICES ASSUME NEW a \in Registered', NEW b \in Registered', a # b
                 PROVE  ~(a < end'[b] /\ b < end'[a])
    BY DEF SpansDisjoint, Overlap
  <2>2. CASE a = first
    <3>1. b \in Registered /\ end'[b] = end[b]
      BY <1>2, <1>4, <2>1, <2>2 DEF Registered
    <3> QED
      BY <1>2, <2>2, <3>1
  <2>3. CASE b = first
    <3>1. a \in Registered /\ end'[a] = end[a]
      BY <1>2, <1>4, <2>1, <2>3 DEF Registered
    <3> QED
      BY <1>2, <2>3, <3>1
  <2>4. CASE a # first /\ b # first
    <3>1. a \in Registered /\ b \in Registered /\ end'[a] = end[a] /\ end'[b] = end[b]
      BY <1>2, <1>4, <2>1, <2>4 DEF Registered
    <3> QED
      BY <2>1, <3>1 DEF IInv, SpansDisjoint, Overlap
  <2> QED
    BY <2>2, <2>3, <2>4
<1>7. \A d \in Clients : first \notin Held(d) \cup edited[d]
  BY <1>3 DEF IInv, HeldInv, Registered
<1> QED
  BY <1>2, <1>5, <1>6, <1>7

\* To take a span out of the table keeps the others in order.
LEMMA FreeStep ==
    ASSUME IInv, NEW a \in Addresses, Free(a)
    PROVE  /\ owner' \in [Addresses -> Owners \cup {None}]
           /\ end' \in [Addresses -> 0 .. Last + 1]
           /\ EndInv'
           /\ SpansDisjoint'
           /\ \A b \in Addresses \ {a} : owner'[b] = owner[b]
<1> USE LastAssumption
<1>1. /\ owner' \in [Addresses -> Owners \cup {None}]
      /\ end' \in [Addresses -> 0 .. Last + 1]
      /\ owner'[a] = None /\ end'[a] = 0
      /\ \A b \in Addresses \ {a} : owner'[b] = owner[b] /\ end'[b] = end[b]
  BY DEF Free, IInv, TypeOK
<1>2. EndInv'
  BY <1>1 DEF IInv, EndInv
<1>3. Registered' = Registered \ {a}
  BY <1>1 DEF Registered
<1>4. \A b \in Registered' : b \in Registered /\ end'[b] = end[b]
  BY <1>1, <1>3 DEF Registered
<1>5. SpansDisjoint'
  BY <1>4 DEF IInv, SpansDisjoint, Overlap
<1> QED
  BY <1>1, <1>2, <1>5

\* Every call keeps the invariant.
LEMMA NextInv ==
    ASSUME IInv, NEW c \in Clients,
           \/ \E p \in Patches[c] : Reserve(c, p[1], p[2])
           \/ \E t \in Entries[c] : Claim(c, t)
           \/ \E a \in Addresses :
               CreateOk(c, a) \/ CreateFails(c, a) \/ Edit(c, a) \/ Undo(c, a) \/ Release(c, a)
           \/ Abandon(c)
    PROVE  IInv'
<1> USE DEF IInv
<1>1. ASSUME NEW p \in Patches[c], Reserve(c, p[1], p[2])
      PROVE  IInv'
  <2>1. /\ p[1] \in Addresses /\ p[2] \in 0 .. Last + 1 /\ p[1] < p[2]
    BY PatchesAssumption, LastAssumption DEF Addresses
  <2>2. PICK first \in Addresses, behind \in 0 .. Last + 1 :
            first < behind /\ Reserve(c, first, behind)
    BY <1>1, <2>1
  <2>3. /\ owner' \in [Addresses -> Owners \cup {None}]
        /\ end' \in [Addresses -> 0 .. Last + 1]
        /\ EndInv' /\ SpansDisjoint'
        /\ owner'[first] = OwnerOf[c]
        /\ \A a \in Addresses \ {first} : owner'[a] = owner[a]
        /\ \A d \in Clients : first \notin Held(d) \cup edited[d]
    BY <2>2, RegisterStep DEF Reserve
  <2>4. /\ mine' = [mine EXCEPT ![c] = @ \cup {first}]
        /\ claiming' = claiming /\ edited' = edited
    BY <2>2 DEF Reserve
  <2>5. TypeOK'
    BY <2>3, <2>4 DEF TypeOK
  <2>6. \A d \in Clients : /\ mine'[d] = IF d = c THEN mine[d] \cup {first} ELSE mine[d]
                           /\ Held(d)' = IF d = c THEN Held(d) \cup {first} ELSE Held(d)
    BY <2>4 DEF TypeOK, Held
  <2>7. HeldInv'
    BY <2>3, <2>4, <2>6 DEF HeldInv, TypeOK, Held
  <2>8. AloneInv'
    <3>1. SUFFICES ASSUME NEW d \in Clients, NEW e \in Clients, d # e
                   PROVE  (Held(d)' \cup edited[d]) \cap (Held(e)' \cup edited[e]) = {}
      BY <2>4 DEF AloneInv
    <3>2. (Held(d) \cup edited[d]) \cap (Held(e) \cup edited[e]) = {}
      BY <3>1 DEF AloneInv
    <3>3. first \notin Held(d) \cup edited[d] /\ first \notin Held(e) \cup edited[e]
      BY <2>3
    <3>4. /\ Held(d)' = IF d = c THEN Held(d) \cup {first} ELSE Held(d)
          /\ Held(e)' = IF e = c THEN Held(e) \cup {first} ELSE Held(e)
      BY <2>6
    <3> QED
      BY <3>1, <3>2, <3>3, <3>4
  <2>9. ClaimInv'
    BY <2>3, <2>4, <2>6 DEF ClaimInv, Held
  <2> QED
    BY <2>3, <2>5, <2>7, <2>8, <2>9
<1>2. ASSUME NEW t \in Entries[c], Claim(c, t)
      PROVE  IInv'
  <2>1. t \in Addresses /\ t + 1 \in 0 .. Last + 1 /\ t < t + 1
    BY EntriesAssumption, LastAssumption DEF Addresses
  <2>2. \A a \in Registered : ~(a < t + 1 /\ t < end[a])
    BY <1>2, <2>1 DEF Claim, Registered, Addresses
  <2>3. /\ owner' \in [Addresses -> Owners \cup {None}]
        /\ end' \in [Addresses -> 0 .. Last + 1]
        /\ EndInv' /\ SpansDisjoint'
        /\ owner'[t] = OwnerOf[c]
        /\ \A a \in Addresses \ {t} : owner'[a] = owner[a]
        /\ \A d \in Clients : t \notin Held(d) \cup edited[d]
    BY <1>2, <2>1, <2>2, RegisterStep DEF Claim
  <2>4. /\ claiming' = [claiming EXCEPT ![c] = {t}] /\ claiming[c] = {}
        /\ mine' = mine /\ edited' = edited
    BY <1>2 DEF Claim
  <2>5. TypeOK'
    BY <2>1, <2>3, <2>4 DEF TypeOK
  <2>6. \A d \in Clients : /\ claiming'[d] = IF d = c THEN {t} ELSE claiming[d]
                           /\ Held(d)' = IF d = c THEN Held(d) \cup {t} ELSE Held(d)
    BY <2>4 DEF TypeOK, Held
  <2>7. HeldInv'
    BY <2>3, <2>4, <2>6 DEF HeldInv, TypeOK, Held
  <2>8. AloneInv'
    BY <2>3, <2>4, <2>6 DEF AloneInv
  <2>9. ClaimInv'
    BY <2>3, <2>4, <2>6 DEF ClaimInv, Held
  <2> QED
    BY <2>3, <2>5, <2>7, <2>8, <2>9
<1>3. ASSUME NEW t \in Addresses, CreateOk(c, t)
      PROVE  IInv'
  <2>1. /\ t \in claiming[c]
        /\ claiming' = [claiming EXCEPT ![c] = {}]
        /\ mine' = [mine EXCEPT ![c] = @ \cup {t}]
        /\ owner' = owner /\ end' = end /\ edited' = edited
    BY <1>3 DEF CreateOk
  <2>2. TypeOK'
    BY <2>1 DEF TypeOK
  <2>3. EndInv' /\ SpansDisjoint'
    BY <2>1 DEF EndInv, SpansDisjoint, Registered, Overlap
  <2>4. \A d \in Clients : Held(d)' \subseteq Held(d)
    BY <2>1 DEF TypeOK, Held
  <2>5. HeldInv' /\ AloneInv'
    BY <2>1, <2>4 DEF HeldInv, AloneInv
  <2>6. ClaimInv'
    BY <2>1 DEF ClaimInv, TypeOK
  <2> QED
    BY <2>2, <2>3, <2>5, <2>6
<1>4. ASSUME NEW t \in Addresses, CreateFails(c, t)
      PROVE  IInv'
  <2>1. /\ t \in claiming[c] /\ Free(t)
        /\ claiming' = [claiming EXCEPT ![c] = {}]
        /\ mine' = mine /\ edited' = edited
    BY <1>4 DEF CreateFails
  <2>2. /\ owner' \in [Addresses -> Owners \cup {None}]
        /\ end' \in [Addresses -> 0 .. Last + 1]
        /\ EndInv' /\ SpansDisjoint'
        /\ \A b \in Addresses \ {t} : owner'[b] = owner[b]
    BY <2>1, FreeStep
  <2>3. TypeOK'
    BY <2>1, <2>2 DEF TypeOK
  <2>4. \A d \in Clients : Held(d)' \subseteq Held(d)
    BY <2>1 DEF TypeOK, Held
  <2>5. /\ t \notin Held(c)' \cup edited[c]
        /\ \A d \in Clients \ {c} : t \notin Held(d) \cup edited[d]
    BY <2>1 DEF TypeOK, ClaimInv, AloneInv, Held
  <2>6. \A d \in Clients : Held(d) \cup edited[d] \subseteq Addresses
    BY DEF TypeOK, Held
  <2>7. HeldInv'
    BY <2>1, <2>2, <2>4, <2>5, <2>6 DEF HeldInv
  <2>8. AloneInv'
    BY <2>1, <2>4 DEF AloneInv
  <2>9. ClaimInv'
    BY <2>1 DEF ClaimInv, TypeOK
  <2> QED
    BY <2>2, <2>3, <2>7, <2>8, <2>9
<1>5. ASSUME NEW a \in Addresses, Edit(c, a) \/ Undo(c, a)
      PROVE  IInv'
  <2>1. /\ a \in mine[c]
        /\ edited' \in {[edited EXCEPT ![c] = @ \cup {a}], [edited EXCEPT ![c] = @ \ {a}]}
        /\ owner' = owner /\ end' = end /\ mine' = mine /\ claiming' = claiming
    BY <1>5 DEF Edit, Undo
  <2>2. TypeOK'
    BY <2>1 DEF TypeOK
  <2>3. EndInv' /\ SpansDisjoint'
    BY <2>1 DEF EndInv, SpansDisjoint, Registered, Overlap
  <2>4. \A d \in Clients : /\ Held(d)' = Held(d)
                           /\ Held(d) \cup edited'[d] \subseteq Held(d) \cup edited[d]
    BY <2>1 DEF TypeOK, Held
  <2>5. HeldInv' /\ AloneInv'
    BY <2>1, <2>4 DEF HeldInv, AloneInv
  <2>6. \A d \in Clients : mine[d] \cup edited'[d] \subseteq mine[d] \cup edited[d]
    BY <2>1 DEF TypeOK
  <2>7. ClaimInv'
    BY <2>1, <2>6 DEF ClaimInv
  <2> QED
    BY <2>2, <2>3, <2>5, <2>7
<1>6. ASSUME NEW a \in Addresses, Release(c, a)
      PROVE  IInv'
  <2>1. /\ a \in mine[c] \ edited[c] /\ Free(a)
        /\ mine' = [mine EXCEPT ![c] = @ \ {a}]
        /\ claiming' = claiming /\ edited' = edited
    BY <1>6 DEF Release
  <2>2. /\ owner' \in [Addresses -> Owners \cup {None}]
        /\ end' \in [Addresses -> 0 .. Last + 1]
        /\ EndInv' /\ SpansDisjoint'
        /\ \A b \in Addresses \ {a} : owner'[b] = owner[b]
    BY <2>1, FreeStep
  <2>3. TypeOK'
    BY <2>1, <2>2 DEF TypeOK
  <2>4. \A d \in Clients : Held(d)' \subseteq Held(d)
    BY <2>1 DEF TypeOK, Held
  <2>5. /\ a \notin Held(c)' \cup edited[c]
        /\ \A d \in Clients \ {c} : a \notin Held(d) \cup edited[d]
    BY <2>1 DEF TypeOK, ClaimInv, AloneInv, Held
  <2>6. \A d \in Clients : Held(d) \cup edited[d] \subseteq Addresses
    BY DEF TypeOK, Held
  <2>7. HeldInv'
    BY <2>1, <2>2, <2>4, <2>5, <2>6 DEF HeldInv
  <2>8. AloneInv'
    BY <2>1, <2>4 DEF AloneInv
  <2>9. ClaimInv'
    BY <2>1 DEF ClaimInv, TypeOK
  <2> QED
    BY <2>2, <2>3, <2>7, <2>8, <2>9
<1>7. ASSUME Abandon(c)
      PROVE  IInv'
  <2>1. /\ mine' = [mine EXCEPT ![c] = {}]
        /\ owner' = owner /\ end' = end /\ claiming' = claiming /\ edited' = edited
    BY <1>7 DEF Abandon
  <2>2. TypeOK'
    BY <2>1 DEF TypeOK
  <2>3. EndInv' /\ SpansDisjoint'
    BY <2>1 DEF EndInv, SpansDisjoint, Registered, Overlap
  <2>4. \A d \in Clients : mine'[d] \subseteq mine[d] /\ Held(d)' \subseteq Held(d)
    BY <2>1 DEF TypeOK, Held
  <2>5. HeldInv' /\ AloneInv' /\ ClaimInv'
    BY <2>1, <2>4 DEF HeldInv, AloneInv, ClaimInv
  <2> QED
    BY <2>2, <2>3, <2>5
<1> QED
  BY <1>1, <1>2, <1>3, <1>4, <1>5, <1>6, <1>7

\* The invariant holds in every state of the table, whatever order the calls of
\* the mods and their threads come in.
THEOREM TargetsInvariant == Spec => []IInv
<1>1. IInv /\ Next => IInv'
  BY NextInv DEF Next
<1> QED
  BY TargetsInit, TargetsStutter, <1>1, PTL DEF Spec

\* No two registered spans ever overlap.
THEOREM TargetsSpans == Spec => []SpansDisjoint
<1>1. IInv => SpansDisjoint
  BY DEF IInv
<1> QED
  BY TargetsInvariant, <1>1, PTL

\* No byte of the game has two editors, even if a client was dropped with its
\* change in place.
THEOREM TargetsOneEditor == Spec => []OneEditor
<1>1. IInv => OneEditor
  <2>1. SUFFICES ASSUME IInv, NEW c \in Clients, NEW d \in Clients, c # d,
                        NEW a \in edited[c], NEW b \in edited[d]
                 PROVE  a # b /\ ~Overlap(a, b)
    BY DEF OneEditor
  <2>2. a \in Addresses /\ b \in Addresses
    BY <2>1 DEF IInv, TypeOK
  <2>3. owner[a] = OwnerOf[c] /\ owner[b] = OwnerOf[d]
    BY <2>1 DEF IInv, HeldInv
  <2>4. a \in Registered /\ b \in Registered
    BY <2>2, <2>3, OwnerAssumption DEF Registered
  <2>5. a # b
    BY <2>1 DEF IInv, AloneInv
  <2> QED
    BY <2>1, <2>4, <2>5 DEF IInv, SpansDisjoint
<1> QED
  BY TargetsInvariant, <1>1, PTL

\* When ensure_released finds nothing under a name, no client of that name has
\* left a change in the game: the host may unload the mod's library.
THEOREM TargetsReleased == Spec => []ReleasedMeansClean
<1>1. IInv => ReleasedMeansClean
  <2>1. SUFFICES ASSUME IInv, NEW c \in Clients, ensure_released(OwnerOf[c]),
                        NEW a \in edited[c]
                 PROVE  FALSE
    BY DEF ReleasedMeansClean, IInv, TypeOK
  <2>2. a \in Addresses /\ owner[a] = OwnerOf[c]
    BY <2>1 DEF IInv, TypeOK, HeldInv
  <2> QED
    BY <2>1, <2>2, OwnerAssumption DEF ensure_released, Registered
<1> QED
  BY TargetsInvariant, <1>1, PTL
==============================================================================
