----------------------------- MODULE WeaponProofs -----------------------------
(***************************************************************************)
(* Proofs about WeaponTextures: the inductive invariant, and that living   *)
(* weapons keep their textures, that a texture is released once, and that  *)
(* nothing is left over, for any threads, handles and weapons, however     *)
(* often handles are used again.                                           *)
(***************************************************************************)
EXTENDS WeaponTextures, FiniteSetTheorems, TLAPS

\* The ranges of the variables; textures of any generation.
Textures == [handle : Handles, generation : Nat, created : {"no", "yes"}]

OwnerStates == [resource : Resources, constructing : BOOLEAN,
                life : {"live", "retired"}, textures : SUBSET Textures]
Claims == [generation : Nat, identity : Nat]
Items == [texture : Textures] \cup [handle : Handles]
ThreadStates ==
  [at : {"idle", "building", "reserved", "creating", "created", "failed",
         "releasing", "claimed", "released"},
   token : Nat, handle : Handles \cup {0}, claim : Claims,
   bank : SUBSET Items, retired : SUBSET Textures, back : {"idle", "building"}]

WeaponTypes ==
  /\ slot \in [Handles -> {"free", "reserved", "live"}]
  /\ generations \in [Handles -> Nat] /\ owner_counts \in [Handles -> Nat]
  /\ next_generation \in Nat /\ next_owner \in Nat /\ next_release \in Nat
  /\ DOMAIN owners \subseteq 1 .. next_owner /\ owners \in [DOMAIN owners -> OwnerStates]
  /\ resources \in [Resources -> Nat] /\ releasing \in [Handles -> Claims]
  /\ thread \in [Threads -> ThreadStates]

\* Where a thread is.
Making(t) == thread[t].at \in {"reserved", "creating"}
Creating(t) == thread[t].at \in {"creating", "created", "failed"}
Releases(t) == thread[t].at \in {"claimed", "released"}
Constructs(t) ==
  \/ thread[t].at \in {"building", "reserved", "creating", "created", "failed"}
  \/ thread[t].back = "building"

ThreadInv == \A t \in Threads :
  /\ thread[t].at = "idle" => thread[t] = Resting
  /\ thread[t].at \in {"building", "reserved", "creating", "created", "failed"} =>
       thread[t].bank = {}
  /\ Making(t) \/ Creating(t) \/ Releases(t) => thread[t].handle \in Handles

\* Constructions and owners.
ConstructInv ==
  /\ \A t \in Threads : Constructs(t) =>
       thread[t].token \in DOMAIN owners /\ owners[thread[t].token].constructing
  /\ \A t, u \in Threads : Constructs(t) /\ Constructs(u) /\ thread[t].token = thread[u].token => t = u
  /\ \A k \in DOMAIN owners :
       /\ owners[k].constructing => \E t \in Threads : Constructs(t) /\ thread[t].token = k
       /\ owners[k].life = "retired" => owners[k].constructing /\ Created(owners[k]) = {}

\* The textures of owners.
OwnedInv ==
  /\ \A k \in DOMAIN owners : \A x \in owners[k].textures :
       /\ x.generation <= generations[x.handle]
       /\ x.created = "yes" => Current(x) /\ slot[x.handle] = "live"
       /\ x.created = "no" => \E t \in Threads :
            /\ Creating(t) /\ thread[t].token = k /\ thread[t].handle = x.handle
            /\ IF thread[t].at = "failed" THEN Current(x) => slot[x.handle] = "free" ELSE Current(x)
  /\ \A k, j \in DOMAIN owners : \A x \in owners[k].textures, y \in owners[j].textures :
       Current(x) /\ Current(y) /\ x.handle = y.handle => k = j /\ x = y
  /\ \A h \in Handles : generations[h] <= next_generation
Owned(h) == \E k \in DOMAIN owners : \E x \in owners[k].textures : x.handle = h /\ Current(x)
CountInv == \A h \in Handles : owner_counts[h] = IF Owned(h) THEN 1 ELSE 0

\* Slots under creation.
SlotInv ==
  /\ \A t \in Threads :
       /\ Making(t) => slot[thread[t].handle] = "reserved"
       /\ thread[t].at = "created" => slot[thread[t].handle] = "live"
       /\ thread[t].at \in {"creating", "created"} =>
            \E x \in owners[thread[t].token].textures :
              x.handle = thread[t].handle /\ x.created = "no" /\ Current(x)
  /\ \A t \in Threads, h \in Handles :
       thread[t].at \in {"reserved", "claimed"} /\ thread[t].handle = h => ~Owned(h)
  /\ \A t, u \in Threads : Making(t) /\ Making(u) /\ thread[t].handle = thread[u].handle => t = u
  /\ \A h \in Handles : slot[h] = "reserved" => releasing[h] = NoClaim

\* Releases.
ClaimInv ==
  /\ \A t \in Threads : Releases(t) => thread[t].claim.identity \in 1 .. next_release
  /\ \A t, u \in Threads :
       Releases(t) /\ Releases(u) /\ thread[t].claim.identity = thread[u].claim.identity => t = u
  /\ \A h \in Handles : releasing[h].identity <= next_release
  /\ \A t \in Threads : thread[t].at = "claimed" =>
       /\ slot[thread[t].handle] = "live"
       /\ releasing[thread[t].handle] = thread[t].claim
       /\ thread[t].claim.generation = generations[thread[t].handle]
  /\ \A h \in Handles : slot[h] = "live" /\ releasing[h] # NoClaim =>
       \E t \in Threads : thread[t].at = "claimed" /\ thread[t].handle = h

\* Who is to release a texture that no owner has.
Holds(t, h) ==
  \/ thread[t].at = "claimed" /\ thread[t].handle = h
  \/ \E item \in thread[t].bank : HandleOf(item) = h /\ ("texture" \in DOMAIN item => Current(item.texture))
  \/ \E x \in thread[t].retired : x.handle = h /\ Current(x)
OrphanInv == \A h \in Handles : slot[h] = "live" => Owned(h) \/ \E t \in Threads : Holds(t, h)

WeaponInv ==
  WeaponTypes /\ ThreadInv /\ ConstructInv /\ OwnedInv /\ CountInv /\ SlotInv /\ ClaimInv /\ OrphanInv

\* A step puts one thread somewhere else.
LEMMA Effect ==
  ASSUME WeaponTypes, NEW t \in Threads, NEW s \in ThreadStates, Do(t, s)
  PROVE  /\ thread'[t] = s /\ \A u \in Threads : u # t => thread'[u] = thread[u]
         /\ thread' \in [Threads -> ThreadStates]
BY DEF Do, WeaponTypes

\* A thread that is in no call.
LEMMA RestingState ==
  /\ Resting \in ThreadStates
  /\ Resting.at = "idle" /\ Resting.token = 0 /\ Resting.handle = 0 /\ Resting.claim = NoClaim
  /\ Resting.bank = {} /\ Resting.retired = {} /\ Resting.back = "idle"
BY DEF Resting, ThreadStates, NoClaim, Claims

\* The owners of a handle are counted through the only one there may be.
LEMMA NoneOrOne ==
  ASSUME NEW S
  PROVE  /\ S = {} => Cardinality(S) = 0
         /\ (\E a \in S : \A b \in S : b = a) => Cardinality(S) = 1
<1>1. S = {} => Cardinality(S) = 0
  BY FS_EmptySet
<1>2. ASSUME NEW a \in S, \A b \in S : b = a PROVE Cardinality(S) = 1
  <2>1. S = {a}
    BY <1>2
  <2> QED
    BY <2>1, FS_Singleton
<1> QED
  BY <1>1, <1>2

\* One texture of a handle is current and has one owner, so a count goes down to zero.
LEMMA CountsDrop ==
  ASSUME WeaponTypes, OwnedInv, CountInv, NEW T \in SUBSET Textures, generations' = generations,
         owner_counts' = Unreferenced(owner_counts, T),
         \A x \in T : \E k \in DOMAIN owners : x \in owners[k].textures,
         \A h \in Handles : Owned(h)' <=> Owned(h) /\ ~(\E x \in T : x.handle = h /\ Current(x))
  PROVE  CountInv' /\ owner_counts' \in [Handles -> Nat]
<1>1. ASSUME NEW h \in Handles
      PROVE  owner_counts'[h] = IF Owned(h)' THEN 1 ELSE 0
  <2> DEFINE S == {x \in T : x.handle = h /\ Current(x)}
  <2>1. owner_counts'[h] = owner_counts[h] - Cardinality(S)
    BY DEF Unreferenced
  <2>2. CASE S = {}
    <3>1. Cardinality(S) = 0
      BY <2>2, NoneOrOne
    <3>2. Owned(h)' <=> Owned(h)
      BY <2>2
    <3>3. owner_counts[h] \in Nat
      BY DEF WeaponTypes
    <3> QED
      BY <2>1, <3>1, <3>2, <3>3 DEF CountInv
  <2>3. CASE S # {}
    <3>1. PICK x \in T : x.handle = h /\ Current(x)
      BY <2>3
    <3>2. \A y \in S : y = x
      BY <3>1 DEF OwnedInv
    <3>3. Cardinality(S) = 1
      BY <3>1, <3>2, NoneOrOne
    <3>4. Owned(h) /\ ~Owned(h)'
      BY <3>1 DEF Owned
    <3> QED
      BY <2>1, <3>3, <3>4 DEF CountInv
  <2> QED
    BY <2>2, <2>3
<1>2. owner_counts' = [h \in Handles |-> owner_counts'[h]]
  BY DEF Unreferenced
<1> QED
  BY <1>1, <1>2 DEF CountInv

\* What protects refuses to release is what an owner has (the count never contradicts the owners).
LEMMA ProtectsOwned == ASSUME CountInv, NEW h \in Handles PROVE Protects(h) <=> Owned(h)
BY DEF CountInv, Protects, Owned

\* The items of a bank, and their handles.
LEMMA ItemForm ==
  /\ \A item \in Items : IF "texture" \in DOMAIN item
       THEN HandleOf(item) = item.texture.handle /\ item.texture \in Textures
       ELSE HandleOf(item) = item.handle /\ item.handle \in Handles
  /\ \A x \in Textures : [texture |-> x] \in Items /\ HandleOf([texture |-> x]) = x.handle
  /\ \A h \in Handles : [handle |-> h] \in Items /\ HandleOf([handle |-> h]) = h
                        /\ "texture" \notin DOMAIN [handle |-> h]
BY DEF Items, HandleOf

\* Who holds a texture goes on to hold it as long as the handle is not used again.
LEMMA HoldsStays ==
  ASSUME WeaponTypes, NEW u \in Threads, NEW i \in Handles, Holds(u, i),
         generations'[i] = generations[i],
         thread[u].bank \subseteq thread'[u].bank, thread[u].retired \subseteq thread'[u].retired,
         thread[u].at = "claimed" => thread'[u].at = "claimed" /\ thread'[u].handle = thread[u].handle
  PROVE  Holds(u, i)'
<1>1. \A x : x.handle = i => (Current(x)' <=> Current(x))
  BY DEF Current
<1>2. thread[u].bank \subseteq Items /\ thread[u].retired \subseteq Textures
  BY DEF WeaponTypes, ThreadStates
<1>3. CASE thread[u].at = "claimed" /\ thread[u].handle = i
  BY <1>3 DEF Holds
<1>4. CASE \E item \in thread[u].bank :
             HandleOf(item) = i /\ ("texture" \in DOMAIN item => Current(item.texture))
  <2>1. PICK item \in thread[u].bank :
          HandleOf(item) = i /\ ("texture" \in DOMAIN item => Current(item.texture))
    BY <1>4
  <2>2. "texture" \in DOMAIN item => item.texture.handle = i
    BY <1>2, <2>1, ItemForm
  <2>3. "texture" \in DOMAIN item => Current(item.texture)'
    BY <1>1, <2>1, <2>2
  <2>4. item \in thread'[u].bank /\ HandleOf(item) = i
    BY <2>1
  <2> QED
    BY <2>3, <2>4 DEF Holds
<1>5. CASE \E x \in thread[u].retired : x.handle = i /\ Current(x)
  BY <1>1, <1>5 DEF Holds
<1> QED
  BY <1>3, <1>4, <1>5 DEF Holds

\* reserve: a new generation makes every texture that had the handle a former one.
LEMMA ReserveAction ==
  ASSUME WeaponInv, NEW t \in Threads, NEW h \in Handles, ReserveTexture(t, h)
  PROVE  WeaponInv'
<1> DEFINE s == [thread[t] EXCEPT !.at = "reserved", !.handle = h]
           g == next_generation + 1
<1>t. WeaponTypes /\ ThreadInv /\ ConstructInv /\ OwnedInv /\ CountInv /\ SlotInv /\ ClaimInv /\ OrphanInv
  BY DEF WeaponInv
<1>1. /\ thread[t].at = "building" /\ slot[h] = "free" /\ slot' = [slot EXCEPT ![h] = "reserved"]
      /\ next_generation' = g /\ generations' = [generations EXCEPT ![h] = g]
      /\ owner_counts' = [owner_counts EXCEPT ![h] = 0] /\ releasing' = [releasing EXCEPT ![h] = NoClaim]
      /\ Do(t, s) /\ UNCHANGED <<next_owner, next_release, owners, resources>>
  BY DEF ReserveTexture
<1>2. thread[t] \in ThreadStates
  BY <1>t DEF WeaponTypes
<1>3. s \in ThreadStates
  BY <1>2 DEF ThreadStates
<1>4. /\ s.at = "reserved" /\ s.handle = h /\ s.token = thread[t].token /\ s.bank = thread[t].bank
      /\ s.retired = thread[t].retired /\ s.back = thread[t].back
  BY <1>2 DEF ThreadStates
<1>5. /\ thread'[t] = s /\ \A u \in Threads : u # t => thread'[u] = thread[u]
      /\ thread' \in [Threads -> ThreadStates]
  BY <1>t, <1>1, <1>3, Effect
<1> HIDE DEF s
<1>6. /\ slot'[h] = "reserved" /\ generations'[h] = g /\ owner_counts'[h] = 0
      /\ releasing'[h] = NoClaim
      /\ \A i \in Handles : i # h => /\ slot'[i] = slot[i] /\ generations'[i] = generations[i]
                                     /\ owner_counts'[i] = owner_counts[i] /\ releasing'[i] = releasing[i]
  BY <1>t, <1>1 DEF WeaponTypes
<1>7. WeaponTypes'
  <2>1. NoClaim \in Claims /\ g \in Nat
    BY <1>t DEF NoClaim, Claims, WeaponTypes
  <2> QED
    BY <1>t, <1>1, <1>5, <2>1 DEF WeaponTypes
<1>8. g > next_generation /\ g \in Nat
  BY <1>t DEF WeaponTypes
<1>9. \A k \in DOMAIN owners : owners[k].textures \subseteq Textures
  BY <1>t DEF WeaponTypes, OwnerStates
<1>10. \A k \in DOMAIN owners : \A x \in owners[k].textures :
         /\ x.handle \in Handles
         /\ x.handle = h => ~Current(x)' /\ x.generation <= generations'[h]
         /\ x.handle # h => (Current(x)' <=> Current(x)) /\ x.generation <= generations'[x.handle]
  <2> SUFFICES ASSUME NEW k \in DOMAIN owners, NEW x \in owners[k].textures
               PROVE /\ x.handle \in Handles
                     /\ x.handle = h => ~Current(x)' /\ x.generation <= generations'[h]
                     /\ x.handle # h => (Current(x)' <=> Current(x)) /\ x.generation <= generations'[x.handle]
    OBVIOUS
  <2>1. x.handle \in Handles /\ x.generation \in Nat
    BY <1>9 DEF Textures
  <2>2. x.generation <= generations[x.handle] /\ generations[x.handle] <= next_generation
        /\ generations[x.handle] \in Nat /\ next_generation \in Nat
    BY <1>t, <2>1 DEF OwnedInv, WeaponTypes
  <2>3. x.generation <= next_generation
    BY <2>1, <2>2
  <2>4. x.handle = h => x.generation # g /\ x.generation <= g
    BY <1>8, <2>1, <2>2, <2>3
  <2> QED
    BY <1>6, <2>1, <2>2, <2>4 DEF Current
<1>11. ~Owned(h)' /\ \A i \in Handles : i # h => (Owned(i)' <=> Owned(i))
  BY <1>1, <1>10 DEF Owned
<1>12. ThreadInv'
  BY <1>t, <1>1, <1>4, <1>5 DEF ThreadInv, Making, Creating, Releases
<1>13. ConstructInv'
  <2>1. \A u \in Threads : /\ Constructs(u)' <=> Constructs(u)
                           /\ thread'[u].token = thread[u].token
    BY <1>1, <1>4, <1>5 DEF Constructs
  <2> QED
    BY <1>t, <1>1, <2>1 DEF ConstructInv
<1>14. OwnedInv'
  <2>1. ASSUME NEW k \in DOMAIN owners, NEW x \in owners[k].textures, x.created = "yes"
        PROVE  Current(x)' /\ slot'[x.handle] = "live"
    BY <1>t, <1>1, <1>6, <1>10, <2>1 DEF OwnedInv
  <2>2. ASSUME NEW k \in DOMAIN owners, NEW x \in owners[k].textures, x.created = "no"
        PROVE  \E u \in Threads :
            /\ Creating(u)' /\ thread'[u].token = k /\ thread'[u].handle = x.handle
            /\ IF thread'[u].at = "failed" THEN Current(x)' => slot'[x.handle] = "free" ELSE Current(x)'
    <3>1. PICK u \in Threads :
            /\ Creating(u) /\ thread[u].token = k /\ thread[u].handle = x.handle
            /\ IF thread[u].at = "failed" THEN Current(x) => slot[x.handle] = "free" ELSE Current(x)
      BY <1>t, <2>2 DEF OwnedInv
    <3>2. u # t
      BY <1>1, <3>1 DEF Creating
    <3>3. x.handle = h => thread[u].at = "failed"
      BY <1>t, <1>1, <3>1 DEF SlotInv, Creating, Making
    <3> QED
      BY <1>5, <1>6, <1>10, <3>1, <3>2, <3>3 DEF Creating
  <2>3. \A i \in Handles : generations'[i] <= next_generation'
    BY <1>t, <1>1, <1>6, <1>8 DEF OwnedInv, WeaponTypes
  <2>4. \A k \in DOMAIN owners : \A x \in owners[k].textures : x.generation <= generations'[x.handle]
    BY <1>10
  <2>5. \A k, j \in DOMAIN owners : \A x \in owners[k].textures, y \in owners[j].textures :
          Current(x)' /\ Current(y)' /\ x.handle = y.handle => k = j /\ x = y
    BY <1>t, <1>10 DEF OwnedInv
  <2> QED
    BY <1>1, <2>1, <2>2, <2>3, <2>4, <2>5 DEF OwnedInv
<1>15. CountInv'
  BY <1>t, <1>6, <1>11 DEF CountInv
<1>16. SlotInv'
  <2>1. \A u \in Threads : u # t /\ (Making(u) \/ thread[u].at = "created") =>
          thread[u].handle \in Handles /\ thread[u].handle # h
    BY <1>t, <1>1 DEF SlotInv, ThreadInv, Making, Creating
  <2>2. ASSUME NEW u \in Threads
        PROVE  /\ Making(u)' => slot'[thread'[u].handle] = "reserved"
               /\ thread'[u].at = "created" => slot'[thread'[u].handle] = "live"
    <3>1. CASE u = t
      BY <1>4, <1>5, <1>6, <3>1
    <3>2. CASE u # t
      <4>1. thread'[u] = thread[u]
        BY <1>5, <3>2
      <4> QED
        BY <1>t, <1>6, <2>1, <3>2, <4>1 DEF SlotInv, Making
    <3> QED
      BY <3>1, <3>2
  <2>3. ASSUME NEW u \in Threads, thread'[u].at \in {"creating", "created"}
        PROVE  \E x \in owners[thread[u].token].textures :
                 x.handle = thread'[u].handle /\ x.created = "no" /\ Current(x)'
    <3>1. u # t /\ thread'[u] = thread[u]
      BY <1>4, <1>5, <2>3
    <3>2. PICK x \in owners[thread[u].token].textures :
            x.handle = thread[u].handle /\ x.created = "no" /\ Current(x)
      BY <1>t, <2>3, <3>1 DEF SlotInv
    <3>3. thread[u].token \in DOMAIN owners
      BY <1>t, <2>3, <3>1 DEF ConstructInv, Constructs
    <3> QED
      BY <1>10, <2>1, <2>3, <3>1, <3>2, <3>3 DEF Making
  <2>4. \A u, v \in Threads : Making(u)' /\ Making(v)' /\ thread'[u].handle = thread'[v].handle => u = v
    BY <1>t, <1>4, <1>5, <2>1 DEF SlotInv, Making
  <2>5. \A i \in Handles : slot'[i] = "reserved" => releasing'[i] = NoClaim
    BY <1>t, <1>6 DEF SlotInv
  <2>6. \A u \in Threads : thread'[u].token = thread[u].token
    BY <1>4, <1>5
  <2>7. ASSUME NEW u \in Threads, NEW i \in Handles,
               thread'[u].at \in {"reserved", "claimed"}, thread'[u].handle = i
        PROVE  ~Owned(i)'
    BY <1>t, <1>4, <1>5, <1>11, <2>7 DEF SlotInv
  <2> QED
    BY <1>1, <2>2, <2>3, <2>4, <2>5, <2>6, <2>7 DEF SlotInv
<1>17. ClaimInv'
  <2>1. \A u \in Threads : Releases(u)' <=> Releases(u) /\ u # t
    BY <1>1, <1>4, <1>5 DEF Releases
  <2>2. \A u \in Threads : thread'[u].at = "claimed" =>
          /\ thread'[u] = thread[u] /\ thread[u].handle \in Handles /\ thread[u].handle # h
    BY <1>t, <1>1, <1>4, <1>5 DEF ClaimInv, ThreadInv, Releases
  <2>3. \A i \in Handles : releasing'[i].identity <= next_release
    BY <1>t, <1>6 DEF ClaimInv, NoClaim, WeaponTypes
  <2>4. ASSUME NEW i \in Handles, slot'[i] = "live", releasing'[i] # NoClaim
        PROVE  \E u \in Threads : thread'[u].at = "claimed" /\ thread'[u].handle = i
    <3>1. slot[i] = "live" /\ releasing[i] # NoClaim
      BY <1>6, <2>4
    <3>2. PICK u \in Threads : thread[u].at = "claimed" /\ thread[u].handle = i
      BY <1>t, <3>1 DEF ClaimInv
    <3> QED
      BY <1>1, <1>5, <3>2
  <2>5. \A u \in Threads : u # t => thread'[u].claim = thread[u].claim
    BY <1>5
  <2>6. \A u \in Threads : thread'[u].at = "claimed" =>
          /\ slot'[thread'[u].handle] = "live"
          /\ releasing'[thread'[u].handle] = thread'[u].claim
          /\ thread'[u].claim.generation = generations'[thread'[u].handle]
    BY <1>t, <1>6, <2>2 DEF ClaimInv
  <2> QED
    BY <1>t, <1>1, <2>1, <2>3, <2>4, <2>5, <2>6 DEF ClaimInv
<1>18. OrphanInv'
  <2> SUFFICES ASSUME NEW i \in Handles, slot'[i] = "live", ~Owned(i)'
               PROVE  \E u \in Threads : Holds(u, i)'
    BY DEF OrphanInv
  <2>1. i # h /\ slot[i] = "live" /\ ~Owned(i)
    BY <1>6, <1>11
  <2>2. PICK u \in Threads : Holds(u, i)
    BY <1>t, <2>1 DEF OrphanInv
  <2>3. /\ thread'[u].bank = thread[u].bank /\ thread'[u].retired = thread[u].retired
        /\ thread[u].at = "claimed" => thread'[u].at = "claimed" /\ thread'[u].handle = thread[u].handle
    BY <1>1, <1>4, <1>5
  <2>4. Holds(u, i)'
    BY <1>t, <1>6, <2>1, <2>2, <2>3, HoldsStays
  <2> QED
    BY <2>4
<1> QED
  BY <1>7, <1>12, <1>13, <1>14, <1>15, <1>16, <1>17, <1>18 DEF WeaponInv

\* What another thread is to release stays with it.
LEMMA OthersHold ==
  ASSUME WeaponTypes, NEW t \in Threads, NEW s \in ThreadStates, Do(t, s), generations' = generations
  PROVE  \A u \in Threads, i \in Handles : u # t /\ Holds(u, i) => Holds(u, i)'
<1> SUFFICES ASSUME NEW u \in Threads, NEW i \in Handles, u # t, Holds(u, i) PROVE Holds(u, i)'
  OBVIOUS
<1>1. thread'[u] = thread[u]
  BY Effect
<1> QED
  BY <1>1, HoldsStays

\* A step of a thread that releases nothing leaves the claims as they are.
LEMMA ClaimsKept ==
  ASSUME WeaponTypes, ThreadInv, ClaimInv, NEW t \in Threads, NEW s \in ThreadStates, Do(t, s),
         UNCHANGED <<generations, next_release, releasing>>, ~Releases(t),
         s.at \notin {"claimed", "released"}, slot' \in [Handles -> {"free", "reserved", "live"}],
         \A h \in Handles : slot'[h] = slot[h] \/ (slot[h] # "live" /\ releasing[h] = NoClaim)
  PROVE  ClaimInv'
<1>1. \A u \in Threads : /\ Releases(u)' <=> Releases(u)
                         /\ thread'[u].at = "claimed" <=> thread[u].at = "claimed"
                         /\ Releases(u) => thread'[u] = thread[u] /\ thread[u].handle \in Handles
  BY Effect DEF Releases, ThreadInv
<1>2. \A u \in Threads : thread[u].at = "claimed" => Releases(u)
  BY DEF Releases
<1>3. \A u \in Threads : Releases(u)' => thread'[u].claim.identity \in 1 .. next_release
  BY <1>1 DEF ClaimInv
<1>4. \A u, v \in Threads :
        Releases(u)' /\ Releases(v)' /\ thread'[u].claim.identity = thread'[v].claim.identity => u = v
  BY <1>1 DEF ClaimInv
<1>5. ASSUME NEW u \in Threads, thread'[u].at = "claimed"
      PROVE  /\ slot'[thread'[u].handle] = "live"
             /\ releasing[thread'[u].handle] = thread'[u].claim
             /\ thread'[u].claim.generation = generations[thread'[u].handle]
  <2>1. thread[u].at = "claimed" /\ thread'[u] = thread[u] /\ thread[u].handle \in Handles
    BY <1>1, <1>2, <1>5
  <2> QED
    BY <2>1 DEF ClaimInv
<1>6. ASSUME NEW h \in Handles, slot'[h] = "live", releasing[h] # NoClaim
      PROVE  \E u \in Threads : thread'[u].at = "claimed" /\ thread'[u].handle = h
  <2>1. PICK u \in Threads : thread[u].at = "claimed" /\ thread[u].handle = h
    BY <1>6 DEF ClaimInv
  <2> QED
    BY <1>1, <1>2, <2>1
<1> QED
  BY <1>3, <1>4, <1>5, <1>6 DEF ClaimInv

\* Owners that only lose textures, and threads that stay at their creations.
LEMMA OwnersShrink ==
  ASSUME WeaponTypes, ConstructInv, OwnedInv, SlotInv,
         UNCHANGED <<slot, generations, next_generation, releasing>>,
         \A k \in DOMAIN owners' : owners'[k].textures # {} =>
           k \in DOMAIN owners /\ owners'[k].textures \subseteq owners[k].textures,
         \A u \in Threads : \/ thread'[u] = thread[u]
                            \/ thread'[u].at \notin {"reserved", "creating", "created", "failed", "claimed"},
         \A k \in DOMAIN owners : \A x \in owners[k].textures : x.created = "no" =>
           \A u \in Threads : Creating(u) /\ thread[u].token = k /\ thread[u].handle = x.handle =>
             IF k \in DOMAIN owners' /\ x \in owners'[k].textures
             THEN thread'[u] = thread[u] ELSE ~Creating(u)'
  PROVE  OwnedInv' /\ SlotInv' /\ \A h \in Handles : Owned(h)' => Owned(h)
<1>1. \A k \in DOMAIN owners' : \A x \in owners'[k].textures :
        k \in DOMAIN owners /\ x \in owners[k].textures
  OBVIOUS
<1>2. \A x : Current(x)' <=> Current(x)
  BY DEF Current
<1>3. \A h \in Handles : Owned(h)' => Owned(h)
  BY <1>1, <1>2 DEF Owned
<1>4. OwnedInv'
  <2>1. ASSUME NEW k \in DOMAIN owners', NEW x \in owners'[k].textures
        PROVE  /\ x.generation <= generations[x.handle]
               /\ x.created = "yes" => Current(x)' /\ slot[x.handle] = "live"
               /\ x.created = "no" => \E u \in Threads :
                    /\ Creating(u)' /\ thread'[u].token = k /\ thread'[u].handle = x.handle
                    /\ IF thread'[u].at = "failed" THEN Current(x)' => slot[x.handle] = "free"
                       ELSE Current(x)'
    <3>1. k \in DOMAIN owners /\ x \in owners[k].textures
      BY <1>1
    <3>2. ASSUME x.created = "no"
          PROVE \E u \in Threads :
                    /\ Creating(u)' /\ thread'[u].token = k /\ thread'[u].handle = x.handle
                    /\ IF thread'[u].at = "failed" THEN Current(x)' => slot[x.handle] = "free"
                       ELSE Current(x)'
      <4>1. PICK u \in Threads :
            /\ Creating(u) /\ thread[u].token = k /\ thread[u].handle = x.handle
            /\ IF thread[u].at = "failed" THEN Current(x) => slot[x.handle] = "free" ELSE Current(x)
        BY <3>1, <3>2 DEF OwnedInv
      <4>2. thread'[u] = thread[u]
        BY <3>1, <3>2, <4>1
      <4>3. Creating(u)'
        BY <4>1, <4>2 DEF Creating
      <4> QED
        BY <1>2, <4>1, <4>2, <4>3
    <3> QED
      BY <1>2, <3>1, <3>2 DEF OwnedInv
  <2>2. \A k, j \in DOMAIN owners' : \A x \in owners'[k].textures, y \in owners'[j].textures :
          Current(x)' /\ Current(y)' /\ x.handle = y.handle => k = j /\ x = y
    BY <1>1, <1>2 DEF OwnedInv
  <2>3. \A h \in Handles : generations'[h] <= next_generation'
    BY DEF OwnedInv
  <2> QED
    BY <2>1, <2>2, <2>3 DEF OwnedInv
<1>5. SlotInv'
  <2>1. \A u \in Threads : thread'[u].at \in {"reserved", "creating", "created", "claimed"} =>
          thread'[u] = thread[u]
    OBVIOUS
  <2>2. \A u \in Threads : /\ Making(u)' => slot[thread'[u].handle] = "reserved"
                           /\ thread'[u].at = "created" => slot[thread'[u].handle] = "live"
    BY <2>1 DEF SlotInv, Making
  <2>3. ASSUME NEW u \in Threads, thread'[u].at \in {"creating", "created"}
        PROVE  \E x \in owners'[thread'[u].token].textures :
                 x.handle = thread'[u].handle /\ x.created = "no" /\ Current(x)'
    <3>1. thread'[u] = thread[u]
      BY <2>1, <2>3
    <3>2. PICK x \in owners[thread[u].token].textures :
            x.handle = thread[u].handle /\ x.created = "no" /\ Current(x)
      BY <2>3, <3>1 DEF SlotInv
    <3>3. thread[u].token \in DOMAIN owners
      BY <2>3, <3>1 DEF ConstructInv, Constructs
    <3>4. Creating(u) /\ Creating(u)'
      BY <2>3, <3>1 DEF Creating
    <3>5. x \in owners'[thread[u].token].textures
      BY <3>2, <3>3, <3>4
    <3> QED
      BY <1>2, <3>1, <3>2, <3>5
  <2>4. ASSUME NEW u \in Threads, NEW h \in Handles,
               thread'[u].at \in {"reserved", "claimed"}, thread'[u].handle = h
        PROVE  ~Owned(h)'
    BY <1>3, <2>1, <2>4 DEF SlotInv
  <2>5. \A u, v \in Threads : Making(u)' /\ Making(v)' /\ thread'[u].handle = thread'[v].handle => u = v
    BY <2>1 DEF SlotInv, Making
  <2>6. \A h \in Handles : slot'[h] = "reserved" => releasing'[h] = NoClaim
    BY DEF SlotInv
  <2> QED
    BY <2>2, <2>3, <2>4, <2>5, <2>6 DEF SlotInv
<1> QED
  BY <1>3, <1>4, <1>5

\* The steps of a release leave owners and creations alone.
LEMMA ReleaseFrame ==
  ASSUME WeaponTypes, ThreadInv, ConstructInv, OwnedInv, CountInv, SlotInv,
         NEW t \in Threads, NEW s \in ThreadStates, Do(t, s),
         UNCHANGED <<generations, owner_counts, next_generation, next_owner, owners, resources>>,
         thread[t].at \in {"releasing", "claimed", "released"},
         s.at \in {"idle", "building", "releasing", "claimed", "released"},
         Constructs(t)' <=> Constructs(t), Constructs(t) => s.token = thread[t].token,
         \A h \in Handles : s.at = "claimed" /\ s.handle = h => ~Owned(h),
         \A h \in Handles : slot'[h] = slot[h] \/ (slot[h] = "live" /\ ~Owned(h) /\ slot'[h] = "free"),
         \A h \in Handles : \/ releasing'[h] = releasing[h] \/ releasing'[h] = NoClaim
                            \/ slot[h] = "live"
  PROVE  /\ ConstructInv' /\ OwnedInv' /\ CountInv' /\ SlotInv'
         /\ \A h \in Handles : Owned(h)' <=> Owned(h)
<1>1. /\ thread'[t] = s /\ \A u \in Threads : u # t => thread'[u] = thread[u]
      /\ thread' \in [Threads -> ThreadStates]
  BY Effect
<1>2. \A x : Current(x)' <=> Current(x)
  BY DEF Current
<1>3. \A h \in Handles : Owned(h)' <=> Owned(h)
  BY <1>2 DEF Owned
<1>4. ConstructInv'
  <2>1. \A u \in Threads : /\ Constructs(u)' <=> Constructs(u)
                           /\ Constructs(u) => thread'[u].token = thread[u].token
    BY <1>1 DEF Constructs
  <2> QED
    BY <1>2, <2>1 DEF ConstructInv
<1>5. \A k \in DOMAIN owners : \A x \in owners[k].textures : x.handle \in Handles
  BY DEF WeaponTypes, OwnerStates, Textures
<1>6. \A k \in DOMAIN owners : \A x \in owners[k].textures :
        Current(x) => slot'[x.handle] = slot[x.handle]
  BY <1>5 DEF Owned
<1>7. \A u \in Threads : /\ Creating(u)' <=> Creating(u) /\ u # t
                         /\ Making(u)' <=> Making(u) /\ u # t
                         /\ Creating(u) \/ Making(u) => u # t
  BY <1>1 DEF Creating, Making
<1>8. OwnedInv'
  <2>1. ASSUME NEW k \in DOMAIN owners, NEW x \in owners[k].textures, x.created = "no"
        PROVE  \E u \in Threads :
            /\ Creating(u)' /\ thread'[u].token = k /\ thread'[u].handle = x.handle
            /\ IF thread'[u].at = "failed" THEN Current(x)' => slot'[x.handle] = "free" ELSE Current(x)'
    <3>1. PICK u \in Threads :
            /\ Creating(u) /\ thread[u].token = k /\ thread[u].handle = x.handle
            /\ IF thread[u].at = "failed" THEN Current(x) => slot[x.handle] = "free" ELSE Current(x)
      BY <2>1 DEF OwnedInv
    <3> QED
      BY <1>1, <1>2, <1>6, <1>7, <3>1
  <2>2. \A k \in DOMAIN owners : \A x \in owners[k].textures :
          x.created = "yes" => Current(x)' /\ slot'[x.handle] = "live"
    BY <1>2, <1>6 DEF OwnedInv
  <2>3. \A k, j \in DOMAIN owners : \A x \in owners[k].textures, y \in owners[j].textures :
          Current(x)' /\ Current(y)' /\ x.handle = y.handle => k = j /\ x = y
    BY <1>2 DEF OwnedInv
  <2> QED
    BY <2>1, <2>2, <2>3 DEF OwnedInv
<1>9. CountInv'
  BY <1>3 DEF CountInv
<1>10. SlotInv'
  <2>1. ASSUME NEW u \in Threads, Making(u)'
        PROVE  slot'[thread'[u].handle] = "reserved"
    <3>1. Making(u) /\ thread'[u] = thread[u] /\ thread[u].handle \in Handles
      BY <1>1, <1>7, <2>1 DEF ThreadInv
    <3>2. slot[thread[u].handle] = "reserved"
      BY <3>1 DEF SlotInv
    <3> QED
      BY <3>1, <3>2
  <2>2. ASSUME NEW u \in Threads, thread'[u].at \in {"creating", "created"}
        PROVE  /\ \E x \in owners[thread'[u].token].textures :
                    x.handle = thread'[u].handle /\ x.created = "no" /\ Current(x)'
               /\ thread'[u].at = "created" => slot'[thread'[u].handle] = "live"
    <3>1. thread'[u] = thread[u] /\ thread[u].at \in {"creating", "created"}
      BY <1>1, <2>2
    <3>2. PICK x \in owners[thread[u].token].textures :
            x.handle = thread[u].handle /\ x.created = "no" /\ Current(x)
      BY <3>1 DEF SlotInv
    <3>3. thread[u].token \in DOMAIN owners
      BY <3>1 DEF ConstructInv, Constructs
    <3>4. slot'[thread[u].handle] = slot[thread[u].handle]
      BY <1>6, <3>2, <3>3
    <3> QED
      BY <1>2, <3>1, <3>2, <3>4 DEF SlotInv
  <2>3. ASSUME NEW u \in Threads, NEW h \in Handles,
               thread'[u].at \in {"reserved", "claimed"}, thread'[u].handle = h
        PROVE  ~Owned(h)'
    BY <1>1, <1>3, <2>3 DEF SlotInv
  <2>4. \A u, v \in Threads : Making(u)' /\ Making(v)' /\ thread'[u].handle = thread'[v].handle => u = v
    BY <1>1, <1>7 DEF SlotInv
  <2>5. \A h \in Handles : slot'[h] = "reserved" => releasing'[h] = NoClaim
    BY DEF SlotInv
  <2> QED
    BY <2>1, <2>2, <2>3, <2>4, <2>5 DEF SlotInv
<1> QED
  BY <1>3, <1>4, <1>8, <1>9, <1>10

\* prepare_release: a protected handle, or one that somebody is releasing, is left to that one;
\* otherwise the claim has a number of its own.
LEMMA PrepareAction ==
  ASSUME WeaponInv, NEW t \in Threads, NEW item, PrepareRelease(t, item)
  PROVE  WeaponInv'
<1>t. WeaponTypes /\ ThreadInv /\ ConstructInv /\ OwnedInv /\ CountInv /\ SlotInv /\ ClaimInv /\ OrphanInv
  BY DEF WeaponInv
<1> DEFINE h == HandleOf(item)
           claim == [generation |-> generations[h], identity |-> next_release + 1]
           rest == thread[t].bank \ {item}
           s == [thread[t] EXCEPT !.at = "claimed", !.handle = h, !.claim = claim, !.bank = rest]
           n == [thread[t] EXCEPT !.bank = rest]
<1>1. /\ thread[t].at = "releasing" /\ item \in thread[t].bank
      /\ UNCHANGED <<slot, generations, owner_counts, next_generation, next_owner, owners, resources>>
      /\ IF Claimable(item)
         THEN releasing' = [releasing EXCEPT ![h] = claim] /\ next_release' = next_release + 1 /\ Do(t, s)
         ELSE Do(t, n) /\ UNCHANGED <<releasing, next_release>>
  BY DEF PrepareRelease
<1>2. thread[t] \in ThreadStates
  BY <1>t DEF WeaponTypes
<1>3. item \in Items /\ rest \subseteq Items
  BY <1>1, <1>2 DEF ThreadStates
<1>4. h \in Handles
  BY <1>3, ItemForm DEF Textures
<1>5. claim \in Claims /\ claim # NoClaim /\ claim.identity = next_release + 1 /\ claim.generation = generations[h]
  BY <1>t, <1>4 DEF Claims, WeaponTypes, NoClaim
<1>6. /\ s \in ThreadStates /\ s.at = "claimed" /\ s.handle = h /\ s.claim = claim /\ s.bank = rest
      /\ s.token = thread[t].token /\ s.retired = thread[t].retired /\ s.back = thread[t].back
  BY <1>2, <1>3, <1>4, <1>5 DEF ThreadStates
<1>7. /\ n \in ThreadStates /\ n.at = thread[t].at /\ n.handle = thread[t].handle /\ n.claim = thread[t].claim
      /\ n.token = thread[t].token /\ n.retired = thread[t].retired /\ n.back = thread[t].back /\ n.bank = rest
  BY <1>2, <1>3 DEF ThreadStates
<1>8. \A x : Current(x)' <=> Current(x)
  BY <1>1 DEF Current
<1>9. \A i \in Handles, j \in thread[t].bank : HandleOf(j) = i /\ j # item => j \in rest
  OBVIOUS
<1> HIDE DEF s, n, claim, rest
<1>10. CASE Claimable(item)
  <2>1. slot[h] = "live" /\ ~Owned(h) /\ releasing[h] = NoClaim
    BY <1>t, <1>4, <1>10, ProtectsOwned DEF Claimable
  <2> HIDE DEF h
  <2>2. Do(t, s) /\ releasing' = [releasing EXCEPT ![h] = claim] /\ next_release' = next_release + 1
    BY <1>1, <1>10
  <2>3. /\ thread'[t] = s /\ \A u \in Threads : u # t => thread'[u] = thread[u]
        /\ thread' \in [Threads -> ThreadStates]
    BY <1>t, <1>6, <2>2, Effect
  <2>4. releasing'[h] = claim /\ \A i \in Handles : i # h => releasing'[i] = releasing[i]
    BY <1>t, <1>4, <2>2 DEF WeaponTypes
  <2>5. WeaponTypes'
    <3>1. releasing' \in [Handles -> Claims] /\ next_release' \in Nat
      BY <1>t, <1>4, <1>5, <2>2 DEF WeaponTypes
    <3> QED
      BY <1>t, <1>1, <2>3, <3>1 DEF WeaponTypes
  <2>6. ThreadInv'
    BY <1>t, <1>4, <1>6, <2>3 DEF ThreadInv, Making, Creating, Releases
  <2>7. Constructs(t)' <=> Constructs(t)
    BY <1>1, <1>6, <2>3 DEF Constructs
  <2>8. /\ ConstructInv' /\ OwnedInv' /\ CountInv' /\ SlotInv'
        /\ \A i \in Handles : Owned(i)' <=> Owned(i)
    <3>1. \A i \in Handles : slot'[i] = slot[i]
      BY <1>1
    <3>2. \A i \in Handles : releasing'[i] = releasing[i] \/ slot[i] = "live"
      BY <2>1, <2>4
    <3> QED
      BY <1>t, <1>1, <1>6, <2>1, <2>2, <2>7, <3>1, <3>2, ReleaseFrame
  <2>9. ClaimInv'
    <3>1. \A u \in Threads : u # t => (Releases(u)' <=> Releases(u)) /\ thread'[u] = thread[u]
      BY <2>3 DEF Releases
    <3>2. \A u \in Threads : Releases(u) => thread[u].claim.identity \in 1 .. next_release
      BY <1>t DEF ClaimInv
    <3>3. next_release \in Nat
      BY <1>t DEF WeaponTypes
    <3>4. \A u \in Threads : Releases(u)' => thread'[u].claim.identity \in 1 .. next_release'
      BY <1>5, <1>6, <2>2, <2>3, <3>1, <3>2, <3>3
    <3>5. \A u \in Threads : u # t /\ Releases(u)' => thread'[u].claim.identity # next_release + 1
      BY <3>1, <3>2, <3>3
    <3>6. \A u, v \in Threads :
            Releases(u)' /\ Releases(v)' /\ thread'[u].claim.identity = thread'[v].claim.identity => u = v
      BY <1>t, <1>5, <1>6, <2>3, <3>1, <3>5 DEF ClaimInv
    <3>7. \A i \in Handles : releasing[i].identity <= next_release /\ releasing[i].identity \in Nat
      BY <1>t DEF ClaimInv, WeaponTypes, Claims
    <3>8. \A i \in Handles : releasing'[i].identity <= next_release'
      BY <1>5, <2>2, <2>4, <3>3, <3>7
    <3>9. \A u \in Threads : u # t /\ thread[u].at = "claimed" =>
            thread[u].handle \in Handles /\ thread[u].handle # h
      <4> SUFFICES ASSUME NEW u \in Threads, u # t, thread[u].at = "claimed"
                   PROVE  thread[u].handle \in Handles /\ thread[u].handle # h
        OBVIOUS
      <4>1. thread[u].claim.identity \in 1 .. next_release
        BY <3>2 DEF Releases
      <4>2. thread[u].claim # NoClaim
        BY <4>1, <3>3 DEF NoClaim
      <4> QED
        BY <1>t, <2>1, <4>2 DEF ClaimInv, ThreadInv, Releases
    <3>10. ASSUME NEW u \in Threads, thread'[u].at = "claimed"
           PROVE  /\ slot[thread'[u].handle] = "live"
                  /\ releasing'[thread'[u].handle] = thread'[u].claim
                  /\ thread'[u].claim.generation = generations[thread'[u].handle]
      <4>1. CASE u = t
        BY <1>5, <1>6, <2>1, <2>3, <2>4, <4>1
      <4>2. CASE u # t
        BY <1>t, <2>3, <2>4, <3>9, <3>10, <4>2 DEF ClaimInv
      <4> QED
        BY <4>1, <4>2
    <3>11. ASSUME NEW i \in Handles, slot[i] = "live", releasing'[i] # NoClaim
           PROVE  \E u \in Threads : thread'[u].at = "claimed" /\ thread'[u].handle = i
      <4>1. CASE i = h
        BY <1>6, <2>3, <4>1
      <4>2. CASE i # h
        <5>1. PICK u \in Threads : thread[u].at = "claimed" /\ thread[u].handle = i
          BY <1>t, <2>4, <3>11, <4>2 DEF ClaimInv
        <5> QED
          BY <1>1, <2>3, <5>1
      <4> QED
        BY <4>1, <4>2
    <3> QED
      BY <1>1, <3>4, <3>6, <3>8, <3>10, <3>11 DEF ClaimInv
  <2>10. OrphanInv'
    <3> SUFFICES ASSUME NEW i \in Handles, slot[i] = "live", ~Owned(i)
                 PROVE  \E u \in Threads : Holds(u, i)'
      BY <1>1, <2>8 DEF OrphanInv
    <3>1. CASE i = h
      BY <1>6, <2>3, <3>1 DEF Holds
    <3>2. CASE i # h
      <4>1. PICK u \in Threads : Holds(u, i)
        BY <1>t DEF OrphanInv
      <4>2. CASE u # t
        BY <1>t, <1>1, <1>6, <2>2, <4>1, <4>2, OthersHold
      <4>3. CASE u = t
        <5>1. \/ \E j \in thread[t].bank : HandleOf(j) = i /\ ("texture" \in DOMAIN j => Current(j.texture))
              \/ \E x \in thread[t].retired : x.handle = i /\ Current(x)
          BY <1>1, <4>1, <4>3 DEF Holds
        <5>2. \A j \in thread[t].bank : HandleOf(j) = i => j \in thread'[t].bank
          BY <1>6, <1>9, <2>3, <3>2 DEF h
        <5> QED
          BY <1>6, <1>8, <2>3, <5>1, <5>2 DEF Holds
      <4> QED
        BY <4>2, <4>3
    <3> QED
      BY <3>1, <3>2
  <2> QED
    BY <2>5, <2>6, <2>8, <2>9, <2>10 DEF WeaponInv
<1>11. CASE ~Claimable(item)
  <2>1. Do(t, n) /\ UNCHANGED <<releasing, next_release>>
    BY <1>1, <1>11
  <2>2. /\ thread'[t] = n /\ \A u \in Threads : u # t => thread'[u] = thread[u]
        /\ thread' \in [Threads -> ThreadStates]
    BY <1>t, <1>7, <2>1, Effect
  <2>3. WeaponTypes'
    BY <1>t, <1>1, <2>1, <2>2 DEF WeaponTypes
  <2>4. ThreadInv'
    BY <1>t, <1>1, <1>7, <2>2 DEF ThreadInv, Making, Creating, Releases
  <2>5. Constructs(t)' <=> Constructs(t)
    BY <1>1, <1>7, <2>2 DEF Constructs
  <2>6. /\ ConstructInv' /\ OwnedInv' /\ CountInv' /\ SlotInv'
        /\ \A i \in Handles : Owned(i)' <=> Owned(i)
    BY <1>t, <1>1, <1>7, <2>1, <2>5, ReleaseFrame
  <2>7. ClaimInv'
    BY <1>t, <1>1, <1>7, <2>1, ClaimsKept DEF Releases, WeaponTypes
  <2>8. OrphanInv'
    <3> SUFFICES ASSUME NEW i \in Handles, slot[i] = "live", ~Owned(i)
                 PROVE  \E u \in Threads : Holds(u, i)'
      BY <1>1, <2>6 DEF OrphanInv
    <3>1. PICK u \in Threads : Holds(u, i)
      BY <1>t DEF OrphanInv
    <3>2. CASE u # t
      BY <1>t, <1>1, <1>7, <2>1, <3>1, <3>2, OthersHold
    <3>3. CASE u = t
      <4>1. CASE \E x \in thread[t].retired : x.handle = i /\ Current(x)
        BY <1>7, <1>8, <2>2, <4>1 DEF Holds
      <4>2. CASE \E j \in thread[t].bank :
                   HandleOf(j) = i /\ ("texture" \in DOMAIN j => Current(j.texture))
        <5>1. PICK j \in thread[t].bank : HandleOf(j) = i /\ ("texture" \in DOMAIN j => Current(j.texture))
          BY <4>2
        <5>2. CASE j # item
          <6>1. j \in thread'[t].bank
            BY <1>7, <1>9, <2>2, <5>1, <5>2
          <6> QED
            BY <1>8, <5>1, <6>1 DEF Holds
        <5>3. CASE j = item
          <6>1. i = h
            BY <5>1, <5>3
          <6>2. ~Protects(i)
            BY <1>t, ProtectsOwned
          <6>3. releasing[i] # NoClaim
            BY <1>11, <5>1, <5>3, <6>1, <6>2 DEF Claimable
          <6>4. PICK v \in Threads : thread[v].at = "claimed" /\ thread[v].handle = i
            BY <1>t, <6>3 DEF ClaimInv
          <6>5. v # t
            BY <1>1, <6>4
          <6> QED
            BY <2>2, <6>4, <6>5 DEF Holds
        <5> QED
          BY <5>2, <5>3
      <4> QED
        BY <1>1, <3>1, <3>3, <4>1, <4>2 DEF Holds
    <3> QED
      BY <3>2, <3>3
  <2> QED
    BY <2>3, <2>4, <2>6, <2>7, <2>8 DEF WeaponInv
<1> QED
  BY <1>10, <1>11

\* The native release: only the claim's own texture is in the slot, and nobody else claims it.
LEMMA NativeReleaseAction ==
  ASSUME WeaponInv, NEW t \in Threads, NativeRelease(t)
  PROVE  WeaponInv'
<1>t. WeaponTypes /\ ThreadInv /\ ConstructInv /\ OwnedInv /\ CountInv /\ SlotInv /\ ClaimInv /\ OrphanInv
  BY DEF WeaponInv
<1> DEFINE h == thread[t].handle
           s == [thread[t] EXCEPT !.at = "released"]
<1>1. /\ thread[t].at = "claimed" /\ slot' = [slot EXCEPT ![h] = "free"] /\ Do(t, s)
      /\ UNCHANGED <<generations, owner_counts, next_generation, next_owner, next_release, owners,
                     resources, releasing>>
  BY DEF NativeRelease, counters
<1>2. thread[t] \in ThreadStates
  BY <1>t DEF WeaponTypes
<1>3. h \in Handles /\ slot[h] = "live" /\ ~Owned(h)
  BY <1>t, <1>1 DEF ThreadInv, Releases, ClaimInv, SlotInv
<1>4. /\ s \in ThreadStates /\ s.at = "released" /\ s.handle = h /\ s.claim = thread[t].claim
      /\ s.token = thread[t].token /\ s.retired = thread[t].retired /\ s.back = thread[t].back
      /\ s.bank = thread[t].bank
  BY <1>2 DEF ThreadStates
<1>5. /\ thread'[t] = s /\ \A u \in Threads : u # t => thread'[u] = thread[u]
      /\ thread' \in [Threads -> ThreadStates]
  BY <1>t, <1>1, <1>4, Effect
<1> HIDE DEF s
<1>6. slot'[h] = "free" /\ \A i \in Handles : i # h => slot'[i] = slot[i]
  BY <1>t, <1>1, <1>3 DEF WeaponTypes
<1>7. WeaponTypes'
  BY <1>t, <1>1, <1>5 DEF WeaponTypes
<1>8. ThreadInv'
  BY <1>t, <1>3, <1>4, <1>5 DEF ThreadInv, Making, Creating, Releases
<1>9. Constructs(t)' <=> Constructs(t)
  BY <1>1, <1>4, <1>5 DEF Constructs
<1>10. /\ ConstructInv' /\ OwnedInv' /\ CountInv' /\ SlotInv'
       /\ \A i \in Handles : Owned(i)' <=> Owned(i)
  <2>1. \A i \in Handles : slot'[i] = slot[i] \/ (slot[i] = "live" /\ ~Owned(i) /\ slot'[i] = "free")
    BY <1>3, <1>6
  <2> QED
    BY <1>t, <1>1, <1>4, <1>9, <2>1, ReleaseFrame
<1>11. ClaimInv'
  <2>1. \A u \in Threads : /\ Releases(u)' <=> Releases(u)
                           /\ thread'[u].claim = thread[u].claim
    BY <1>1, <1>4, <1>5 DEF Releases
  <2>2. ASSUME NEW u \in Threads, thread'[u].at = "claimed"
        PROVE  /\ slot'[thread'[u].handle] = "live"
               /\ releasing[thread'[u].handle] = thread'[u].claim
               /\ thread'[u].claim.generation = generations[thread'[u].handle]
    <3>1. u # t /\ thread'[u] = thread[u] /\ Releases(u) /\ Releases(t)
      BY <1>1, <1>4, <1>5, <2>2 DEF Releases
    <3>2. thread[u].handle \in Handles /\ thread[u].handle # h
      BY <1>t, <1>1, <2>2, <3>1 DEF ClaimInv, ThreadInv
    <3> QED
      BY <1>t, <1>6, <2>2, <3>1, <3>2 DEF ClaimInv
  <2>3. ASSUME NEW i \in Handles, slot'[i] = "live", releasing[i] # NoClaim
        PROVE  \E u \in Threads : thread'[u].at = "claimed" /\ thread'[u].handle = i
    <3>1. i # h /\ slot[i] = "live"
      BY <1>6, <2>3
    <3>2. PICK u \in Threads : thread[u].at = "claimed" /\ thread[u].handle = i
      BY <1>t, <2>3, <3>1 DEF ClaimInv
    <3> QED
      BY <1>5, <3>1, <3>2
  <2> QED
    BY <1>t, <1>1, <2>1, <2>2, <2>3 DEF ClaimInv
<1>12. OrphanInv'
  <2> SUFFICES ASSUME NEW i \in Handles, slot'[i] = "live", ~Owned(i)
               PROVE  \E u \in Threads : Holds(u, i)'
    BY <1>10 DEF OrphanInv
  <2>1. i # h /\ slot[i] = "live"
    BY <1>6
  <2>2. PICK u \in Threads : Holds(u, i)
    BY <1>t, <2>1 DEF OrphanInv
  <2>3. CASE u # t
    BY <1>t, <1>1, <1>4, <2>2, <2>3, OthersHold
  <2>4. CASE u = t
    <3>1. \A x : Current(x)' <=> Current(x)
      BY <1>1 DEF Current
    <3> QED
      BY <1>4, <1>5, <2>1, <2>2, <2>4, <3>1 DEF Holds
  <2> QED
    BY <2>3, <2>4
<1> QED
  BY <1>7, <1>8, <1>10, <1>11, <1>12 DEF WeaponInv

\* finish_release: a claim that was overtaken ends nothing.
LEMMA FinishReleaseAction ==
  ASSUME WeaponInv, NEW t \in Threads, FinishRelease(t)
  PROVE  WeaponInv'
<1>t. WeaponTypes /\ ThreadInv /\ ConstructInv /\ OwnedInv /\ CountInv /\ SlotInv /\ ClaimInv /\ OrphanInv
  BY DEF WeaponInv
<1> DEFINE h == thread[t].handle
           s == [thread[t] EXCEPT !.at = "releasing", !.handle = 0, !.claim = NoClaim]
<1>1. /\ thread[t].at = "released" /\ Do(t, s)
      /\ releasing' = IF releasing[h] = thread[t].claim THEN [releasing EXCEPT ![h] = NoClaim] ELSE releasing
      /\ UNCHANGED <<slot, generations, owner_counts, next_generation, next_owner, next_release, owners,
                     resources>>
  BY DEF FinishRelease, counters, Ends
<1>2. thread[t] \in ThreadStates
  BY <1>t DEF WeaponTypes
<1>3. h \in Handles /\ NoClaim \in Claims /\ NoClaim.identity = 0
  BY <1>t, <1>1 DEF ThreadInv, Releases, NoClaim, Claims
<1>4. /\ s \in ThreadStates /\ s.at = "releasing" /\ s.handle = 0
      /\ s.token = thread[t].token /\ s.retired = thread[t].retired /\ s.back = thread[t].back
      /\ s.bank = thread[t].bank
  BY <1>2, <1>3 DEF ThreadStates
<1>5. /\ thread'[t] = s /\ \A u \in Threads : u # t => thread'[u] = thread[u]
      /\ thread' \in [Threads -> ThreadStates]
  BY <1>t, <1>1, <1>4, Effect
<1> HIDE DEF s
<1>6. /\ \A i \in Handles : i # h => releasing'[i] = releasing[i]
      /\ releasing[h] = thread[t].claim => releasing'[h] = NoClaim
      /\ releasing[h] # thread[t].claim => releasing'[h] = releasing[h]
  BY <1>t, <1>1, <1>3 DEF WeaponTypes
<1>7. WeaponTypes'
  <2>1. releasing' \in [Handles -> Claims]
    BY <1>t, <1>1, <1>3 DEF WeaponTypes
  <2> QED
    BY <1>t, <1>1, <1>5, <2>1 DEF WeaponTypes
<1>8. ThreadInv'
  BY <1>t, <1>3, <1>4, <1>5 DEF ThreadInv, Making, Creating, Releases
<1>9. Constructs(t)' <=> Constructs(t)
  BY <1>1, <1>4, <1>5 DEF Constructs
<1>10. /\ ConstructInv' /\ OwnedInv' /\ CountInv' /\ SlotInv'
       /\ \A i \in Handles : Owned(i)' <=> Owned(i)
  <2>1. \A i \in Handles : releasing'[i] = releasing[i] \/ releasing'[i] = NoClaim
    BY <1>6
  <2> QED
    BY <1>t, <1>1, <1>4, <1>9, <2>1, ReleaseFrame
<1>11. ClaimInv'
  <2>1. \A u \in Threads : /\ Releases(u)' <=> Releases(u) /\ u # t
                           /\ u # t => thread'[u] = thread[u]
    BY <1>4, <1>5 DEF Releases
  <2>2. ASSUME NEW u \in Threads, thread'[u].at = "claimed"
        PROVE  /\ slot[thread'[u].handle] = "live"
               /\ releasing'[thread'[u].handle] = thread'[u].claim
               /\ thread'[u].claim.generation = generations[thread'[u].handle]
    <3>1. u # t /\ thread'[u] = thread[u] /\ Releases(u) /\ Releases(t)
      BY <1>1, <1>4, <1>5, <2>2 DEF Releases
    <3>2. thread[u].handle \in Handles /\ releasing[thread[u].handle] = thread[u].claim
          /\ thread[u].claim # thread[t].claim
      BY <1>t, <2>2, <3>1 DEF ClaimInv, ThreadInv
    <3>3. releasing'[thread[u].handle] = releasing[thread[u].handle]
      BY <1>6, <3>2
    <3> QED
      BY <1>t, <2>2, <3>1, <3>2, <3>3 DEF ClaimInv
  <2>3. ASSUME NEW i \in Handles, slot[i] = "live", releasing'[i] # NoClaim
        PROVE  \E u \in Threads : thread'[u].at = "claimed" /\ thread'[u].handle = i
    <3>1. releasing[i] # NoClaim
      BY <1>6, <2>3
    <3>2. PICK u \in Threads : thread[u].at = "claimed" /\ thread[u].handle = i
      BY <1>t, <2>3, <3>1 DEF ClaimInv
    <3> QED
      BY <1>1, <1>5, <3>2
  <2>4. \A i \in Handles : releasing'[i].identity <= next_release
    <3>1. 0 <= next_release
      BY <1>t DEF WeaponTypes
    <3> QED
      BY <1>t, <1>3, <1>6, <3>1 DEF ClaimInv
  <2> QED
    BY <1>t, <1>1, <2>1, <2>2, <2>3, <2>4 DEF ClaimInv
<1>12. OrphanInv'
  <2> SUFFICES ASSUME NEW i \in Handles, slot[i] = "live", ~Owned(i)
               PROVE  \E u \in Threads : Holds(u, i)'
    BY <1>1, <1>10 DEF OrphanInv
  <2>1. PICK u \in Threads : Holds(u, i)
    BY <1>t DEF OrphanInv
  <2>2. CASE u # t
    BY <1>t, <1>1, <1>4, <2>1, <2>2, OthersHold
  <2>3. CASE u = t
    <3>1. \A x : Current(x)' <=> Current(x)
      BY <1>1 DEF Current
    <3> QED
      BY <1>1, <1>4, <1>5, <2>1, <2>3, <3>1 DEF Holds
  <2> QED
    BY <2>2, <2>3
<1> QED
  BY <1>7, <1>8, <1>10, <1>11, <1>12 DEF WeaponInv

\* After the bank, the retired textures.
LEMMA ReleaseDoneAction ==
  ASSUME WeaponInv, NEW t \in Threads, ReleaseDone(t)
  PROVE  WeaponInv'
<1>t. WeaponTypes /\ ThreadInv /\ ConstructInv /\ OwnedInv /\ CountInv /\ SlotInv /\ ClaimInv /\ OrphanInv
  BY DEF WeaponInv
<1> DEFINE rest == [Resting EXCEPT !.at = IF thread[t].retired = {} THEN "idle" ELSE "releasing",
                                   !.bank = {[texture |-> x] : x \in thread[t].retired}]
           on == [thread[t] EXCEPT !.at = thread[t].back, !.back = "idle"]
           s == IF thread[t].back = "idle" THEN rest ELSE on
<1>1. /\ thread[t].at = "releasing" /\ thread[t].bank = {} /\ Do(t, s)
      /\ UNCHANGED <<slot, generations, owner_counts, next_generation, next_owner, next_release, owners,
                     resources, releasing>>
  BY DEF ReleaseDone, counters
<1>2. thread[t] \in ThreadStates /\ thread[t].back \in {"idle", "building"}
      /\ thread[t].retired \subseteq Textures
  BY <1>t DEF WeaponTypes, ThreadStates
<1>3. /\ rest \in ThreadStates /\ rest.at = (IF thread[t].retired = {} THEN "idle" ELSE "releasing")
      /\ rest.bank = {[texture |-> x] : x \in thread[t].retired} /\ rest.back = "idle"
      /\ rest.retired = {} /\ rest.token = 0
  <2>1. {[texture |-> x] : x \in thread[t].retired} \subseteq Items
    BY <1>2, ItemForm
  <2> QED
    BY <2>1, RestingState DEF ThreadStates
<1>4. rest.at = "idle" => rest = Resting
  <2>1. \A r \in ThreadStates :
          r = [at |-> r.at, token |-> r.token, handle |-> r.handle, claim |-> r.claim,
               bank |-> r.bank, retired |-> r.retired, back |-> r.back]
    BY DEF ThreadStates
  <2>2. thread[t].retired = {} => {[texture |-> x] : x \in thread[t].retired} = {}
    OBVIOUS
  <2>3. rest.handle = 0 /\ rest.claim = NoClaim
    BY RestingState DEF ThreadStates
  <2> HIDE DEF rest
  <2> QED
    BY <1>3, <2>1, <2>2, <2>3 DEF Resting
<1>5. thread[t].back = "building" =>
        /\ on \in ThreadStates /\ on.at = "building" /\ on.back = "idle" /\ on.bank = {}
        /\ on.retired = thread[t].retired /\ on.token = thread[t].token
  BY <1>1, <1>2 DEF ThreadStates
<1> HIDE DEF rest, on
<1>6. s \in ThreadStates
  BY <1>2, <1>3, <1>5
<1>7. /\ s.at = "idle" => s = Resting
      /\ s.at \in {"idle", "building", "releasing"}
      /\ s.at = "building" => s.bank = {} /\ s.token = thread[t].token
      /\ s.at = "building" <=> thread[t].back = "building"
      /\ s.back = "idle"
  BY <1>2, <1>3, <1>4, <1>5
<1>8. \A x \in thread[t].retired : x \in s.retired \/ [texture |-> x] \in s.bank
  BY <1>2, <1>3, <1>5
<1> HIDE DEF s
<1>9. /\ thread'[t] = s /\ \A u \in Threads : u # t => thread'[u] = thread[u]
      /\ thread' \in [Threads -> ThreadStates]
  BY <1>t, <1>1, <1>6, Effect
<1>10. WeaponTypes'
  BY <1>t, <1>1, <1>9 DEF WeaponTypes
<1>11. ThreadInv'
  BY <1>t, <1>7, <1>9 DEF ThreadInv, Making, Creating, Releases
<1>12. (Constructs(t)' <=> Constructs(t)) /\ (Constructs(t) => s.token = thread[t].token)
  BY <1>1, <1>7, <1>9 DEF Constructs
<1>13. /\ ConstructInv' /\ OwnedInv' /\ CountInv' /\ SlotInv'
       /\ \A i \in Handles : Owned(i)' <=> Owned(i)
  BY <1>t, <1>1, <1>6, <1>7, <1>12, ReleaseFrame
<1>14. ClaimInv'
  BY <1>t, <1>1, <1>6, <1>7, ClaimsKept DEF Releases, WeaponTypes
<1>15. OrphanInv'
  <2> SUFFICES ASSUME NEW i \in Handles, slot[i] = "live", ~Owned(i)
               PROVE  \E u \in Threads : Holds(u, i)'
    BY <1>1, <1>13 DEF OrphanInv
  <2>1. PICK u \in Threads : Holds(u, i)
    BY <1>t DEF OrphanInv
  <2>2. CASE u # t
    BY <1>t, <1>1, <1>6, <2>1, <2>2, OthersHold
  <2>3. CASE u = t
    <3>1. PICK x \in thread[t].retired : x.handle = i /\ Current(x)
      BY <1>1, <2>1, <2>3 DEF Holds
    <3>2. Current(x)'
      BY <1>1, <3>1 DEF Current
    <3>3. CASE x \in s.retired
      BY <1>9, <3>1, <3>2, <3>3 DEF Holds
    <3>4. CASE [texture |-> x] \in s.bank
      <4>1. [texture |-> x] \in thread'[t].bank
        BY <1>9, <3>4
      <4>2. HandleOf([texture |-> x]) = i
        BY <1>2, <3>1, ItemForm
      <4>3. [texture |-> x].texture = x
        OBVIOUS
      <4> QED
        BY <3>2, <4>1, <4>2, <4>3 DEF Holds
    <3> QED
      BY <1>8, <3>1, <3>3, <3>4
  <2> QED
    BY <2>2, <2>3
<1> QED
  BY <1>10, <1>11, <1>13, <1>14, <1>15 DEF WeaponInv

\* pending: the reserved handle had no owner.
LEMMA PendingAction ==
  ASSUME WeaponInv, NEW t \in Threads, Pending(t)
  PROVE  WeaponInv'
<1>t. WeaponTypes /\ ThreadInv /\ ConstructInv /\ OwnedInv /\ CountInv /\ SlotInv /\ ClaimInv /\ OrphanInv
  BY DEF WeaponInv
<1> DEFINE h == thread[t].handle
           k0 == thread[t].token
           new == [handle |-> h, generation |-> generations[h], created |-> "no"]
           s == [thread[t] EXCEPT !.at = "creating"]
<1>1. /\ thread[t].at = "reserved" /\ owners' = [owners EXCEPT ![k0].textures = @ \cup {new}]
      /\ owner_counts' = [owner_counts EXCEPT ![h] = @ + 1] /\ Do(t, s)
      /\ UNCHANGED <<slot, generations, next_generation, next_owner, next_release, resources, releasing>>
  BY DEF Pending, counters
<1>2. thread[t] \in ThreadStates
  BY <1>t DEF WeaponTypes
<1>3. h \in Handles /\ k0 \in DOMAIN owners /\ slot[h] = "reserved" /\ ~Owned(h) /\ thread[t].bank = {}
  BY <1>t, <1>1 DEF ThreadInv, Making, ConstructInv, Constructs, SlotInv
<1>4. new \in Textures /\ new.handle = h /\ new.created = "no" /\ new.generation = generations[h]
  BY <1>t, <1>3 DEF Textures, WeaponTypes
<1>5. /\ s \in ThreadStates /\ s.at = "creating" /\ s.handle = h /\ s.token = k0
      /\ s.retired = thread[t].retired /\ s.back = thread[t].back /\ s.bank = {}
  BY <1>2, <1>3 DEF ThreadStates
<1>6. /\ thread'[t] = s /\ \A u \in Threads : u # t => thread'[u] = thread[u]
      /\ thread' \in [Threads -> ThreadStates]
  BY <1>t, <1>1, <1>5, Effect
<1> HIDE DEF s, new
<1>7. \A k \in DOMAIN owners : owners[k] \in OwnerStates
  BY <1>t DEF WeaponTypes
<1>8. /\ DOMAIN owners' = DOMAIN owners /\ \A k \in DOMAIN owners : k # k0 => owners'[k] = owners[k]
      /\ owners'[k0] = [owners[k0] EXCEPT !.textures = @ \cup {new}]
      /\ owners' = [k \in DOMAIN owners |-> owners'[k]]
  BY <1>t, <1>1, <1>3 DEF WeaponTypes
<1>9. /\ owners'[k0] \in OwnerStates /\ owners'[k0].textures = owners[k0].textures \cup {new}
      /\ owners'[k0].constructing = owners[k0].constructing /\ owners'[k0].life = owners[k0].life
  BY <1>3, <1>4, <1>7, <1>8 DEF OwnerStates
<1>10. \A x : Current(x)' <=> Current(x)
  BY <1>1 DEF Current
<1>11. Current(new)
  BY <1>4 DEF Current
<1>12. \A k \in DOMAIN owners : \A x : x \in owners'[k].textures <=> x \in owners[k].textures \/ (k = k0 /\ x = new)
  BY <1>8, <1>9
<1>13. \A i \in Handles : Owned(i)' <=> Owned(i) \/ i = h
  <2> SUFFICES ASSUME NEW i \in Handles PROVE Owned(i)' <=> Owned(i) \/ i = h
    OBVIOUS
  <2>1. i = h => Owned(i)'
    BY <1>3, <1>4, <1>8, <1>10, <1>11, <1>12 DEF Owned
  <2>2. Owned(i) => Owned(i)'
    BY <1>8, <1>10, <1>12 DEF Owned
  <2>3. Owned(i)' /\ i # h => Owned(i)
    BY <1>4, <1>8, <1>10, <1>12 DEF Owned
  <2> QED
    BY <2>1, <2>2, <2>3
<1>14. /\ owner_counts'[h] = 1 /\ \A i \in Handles : i # h => owner_counts'[i] = owner_counts[i]
       /\ owner_counts' \in [Handles -> Nat]
  BY <1>t, <1>1, <1>3 DEF CountInv, WeaponTypes
<1>15. CountInv'
  BY <1>t, <1>13, <1>14 DEF CountInv
<1>16. WeaponTypes'
  <2>1. owners' \in [DOMAIN owners -> OwnerStates]
    BY <1>7, <1>8, <1>9
  <2> QED
    BY <1>t, <1>1, <1>6, <1>8, <1>14, <2>1 DEF WeaponTypes
<1>17. ThreadInv'
  BY <1>t, <1>3, <1>5, <1>6 DEF ThreadInv, Making, Creating, Releases
<1>18. ConstructInv'
  <2>1. \A u \in Threads : (Constructs(u)' <=> Constructs(u)) /\ thread'[u].token = thread[u].token
    BY <1>1, <1>5, <1>6 DEF Constructs
  <2>2. \A k \in DOMAIN owners : /\ owners'[k].constructing = owners[k].constructing
                                 /\ owners'[k].life = owners[k].life
    BY <1>8, <1>9
  <2>3. \A k \in DOMAIN owners : Created(owners'[k]) = Created(owners[k])
    BY <1>4, <1>12 DEF Created
  <2> QED
    BY <1>t, <1>8, <2>1, <2>2, <2>3 DEF ConstructInv
<1>19. OwnedInv'
  <2>1. ASSUME NEW k \in DOMAIN owners, NEW x \in owners'[k].textures
        PROVE  /\ x.generation <= generations[x.handle]
               /\ x.created = "yes" => Current(x)' /\ slot[x.handle] = "live"
    <3>1. CASE x = new
      <4>1. generations[h] <= generations[h]
        BY <1>t, <1>3 DEF WeaponTypes
      <4> QED
        BY <1>4, <3>1, <4>1
    <3>2. CASE x \in owners[k].textures
      BY <1>t, <1>10, <3>2 DEF OwnedInv
    <3> QED
      BY <1>12, <3>1, <3>2
  <2>2. ASSUME NEW k \in DOMAIN owners, NEW x \in owners'[k].textures, x.created = "no"
        PROVE  \E u \in Threads :
            /\ Creating(u)' /\ thread'[u].token = k /\ thread'[u].handle = x.handle
            /\ IF thread'[u].at = "failed" THEN Current(x)' => slot[x.handle] = "free" ELSE Current(x)'
    <3>1. CASE k = k0 /\ x = new
      BY <1>4, <1>5, <1>6, <1>10, <1>11, <3>1 DEF Creating
    <3>2. CASE x \in owners[k].textures
      <4>1. PICK u \in Threads :
            /\ Creating(u) /\ thread[u].token = k /\ thread[u].handle = x.handle
            /\ IF thread[u].at = "failed" THEN Current(x) => slot[x.handle] = "free" ELSE Current(x)
        BY <1>t, <2>2, <3>2 DEF OwnedInv
      <4>2. thread'[u] = thread[u]
        BY <1>1, <1>6, <4>1 DEF Creating
      <4> QED
        BY <1>10, <4>1, <4>2 DEF Creating
    <3> QED
      BY <1>12, <2>2, <3>1, <3>2
  <2>3. ASSUME NEW k \in DOMAIN owners, NEW j \in DOMAIN owners, NEW x \in owners'[k].textures,
               NEW y \in owners'[j].textures, Current(x)', Current(y)', x.handle = y.handle
        PROVE  k = j /\ x = y
    <3>1. \A l \in DOMAIN owners : \A z \in owners[l].textures : Current(z) => z.handle # h
      BY <1>3 DEF Owned
    <3>2. CASE x \in owners[k].textures /\ y \in owners[j].textures
      BY <1>t, <1>10, <2>3, <3>2 DEF OwnedInv
    <3> QED
      BY <1>4, <1>10, <1>12, <2>3, <3>1, <3>2
  <2>4. \A k, j \in DOMAIN owners' : \A x \in owners'[k].textures, y \in owners'[j].textures :
          Current(x)' /\ Current(y)' /\ x.handle = y.handle => k = j /\ x = y
    BY <1>8, <2>3
  <2>5. \A i \in Handles : generations'[i] <= next_generation'
    BY <1>t, <1>1 DEF OwnedInv
  <2>6. DOMAIN owners' = DOMAIN owners /\ slot' = slot /\ generations' = generations
    BY <1>1, <1>8
  <2>7. ASSUME NEW k \in DOMAIN owners', NEW x \in owners'[k].textures
        PROVE  /\ x.generation <= generations'[x.handle]
               /\ x.created = "yes" => Current(x)' /\ slot'[x.handle] = "live"
               /\ x.created = "no" => \E u \in Threads :
                    /\ Creating(u)' /\ thread'[u].token = k /\ thread'[u].handle = x.handle
                    /\ IF thread'[u].at = "failed" THEN Current(x)' => slot'[x.handle] = "free"
                       ELSE Current(x)'
    BY <2>1, <2>2, <2>6
  <2> QED
    BY <2>4, <2>5, <2>7 DEF OwnedInv
<1>20. SlotInv'
  <2>1. \A u \in Threads : Making(u)' <=> Making(u)
    BY <1>1, <1>5, <1>6 DEF Making
  <2>2. \A u \in Threads : thread'[u].handle = thread[u].handle /\ thread'[u].token = thread[u].token
    BY <1>5, <1>6
  <2>3. ASSUME NEW u \in Threads, thread'[u].at \in {"creating", "created"}
        PROVE  \E x \in owners'[thread[u].token].textures :
                 x.handle = thread[u].handle /\ x.created = "no" /\ Current(x)'
    <3>1. CASE u = t
      <4>1. new \in owners'[k0].textures
        BY <1>9
      <4> QED
        BY <1>4, <1>10, <1>11, <3>1, <4>1
    <3>2. CASE u # t
      <4>1. PICK x \in owners[thread[u].token].textures :
              x.handle = thread[u].handle /\ x.created = "no" /\ Current(x)
        BY <1>t, <1>6, <2>3, <3>2 DEF SlotInv
      <4>2. thread[u].token \in DOMAIN owners
        BY <1>t, <1>6, <2>3, <3>2 DEF ConstructInv, Constructs
      <4> QED
        BY <1>10, <1>12, <4>1, <4>2
    <3> QED
      BY <3>1, <3>2
  <2>4. ASSUME NEW u \in Threads, NEW i \in Handles,
               thread'[u].at \in {"reserved", "claimed"}, thread'[u].handle = i
        PROVE  ~Owned(i)'
    <3>1. u # t /\ thread[u].at \in {"reserved", "claimed"} /\ thread[u].handle = i
      BY <1>5, <1>6, <2>4
    <3>2. i # h
      BY <1>t, <1>1, <1>3, <3>1 DEF SlotInv, ClaimInv, Making
    <3> QED
      BY <1>t, <1>13, <3>1, <3>2 DEF SlotInv
  <2>5. \A u \in Threads : thread'[u].at = "created" => thread[u].at = "created"
    BY <1>5, <1>6
  <2> QED
    BY <1>t, <1>1, <2>1, <2>2, <2>3, <2>4, <2>5 DEF SlotInv
<1>21. ClaimInv'
  BY <1>t, <1>1, <1>5, ClaimsKept DEF Releases, WeaponTypes
<1>22. OrphanInv'
  <2> SUFFICES ASSUME NEW i \in Handles, slot[i] = "live", ~Owned(i)'
               PROVE  \E u \in Threads : Holds(u, i)'
    BY <1>1 DEF OrphanInv
  <2>1. ~Owned(i)
    BY <1>13
  <2>2. PICK u \in Threads : Holds(u, i)
    BY <1>t, <2>1 DEF OrphanInv
  <2>3. /\ thread[u].bank \subseteq thread'[u].bank /\ thread[u].retired \subseteq thread'[u].retired
        /\ thread[u].at = "claimed" => thread'[u].at = "claimed" /\ thread'[u].handle = thread[u].handle
    BY <1>1, <1>3, <1>5, <1>6
  <2> QED
    BY <1>t, <1>1, <2>2, <2>3, HoldsStays
<1> QED
  BY <1>15, <1>16, <1>17, <1>18, <1>19, <1>20, <1>21, <1>22 DEF WeaponInv

\* The native creator fills the slot or gives it back.
LEMMA NativeCreateAction ==
  ASSUME WeaponInv, NEW t \in Threads, NativeCreate(t)
  PROVE  WeaponInv'
<1>t. WeaponTypes /\ ThreadInv /\ ConstructInv /\ OwnedInv /\ CountInv /\ SlotInv /\ ClaimInv /\ OrphanInv
  BY DEF WeaponInv
<1>r. PICK result \in {"live", "free"} :
        /\ slot' = [slot EXCEPT ![thread[t].handle] = result]
        /\ Do(t, [thread[t] EXCEPT !.at = IF result = "live" THEN "created" ELSE "failed"])
  BY DEF NativeCreate
<1> DEFINE h == thread[t].handle
           s == [thread[t] EXCEPT !.at = IF result = "live" THEN "created" ELSE "failed"]
<1>1. /\ thread[t].at = "creating"
      /\ UNCHANGED <<generations, owner_counts, next_generation, next_owner, next_release, owners,
                     resources, releasing>>
  BY DEF NativeCreate, counters
<1>2. thread[t] \in ThreadStates
  BY <1>t DEF WeaponTypes
<1>3. /\ h \in Handles /\ thread[t].token \in DOMAIN owners /\ slot[h] = "reserved" /\ releasing[h] = NoClaim
      /\ thread[t].bank = {}
  BY <1>t, <1>1 DEF ThreadInv, Making, ConstructInv, Constructs, SlotInv
<1>4. Owned(h)
  BY <1>t, <1>1, <1>3 DEF SlotInv, Owned
<1>5. /\ s \in ThreadStates /\ s.handle = h /\ s.token = thread[t].token
      /\ s.retired = thread[t].retired /\ s.back = thread[t].back /\ s.bank = {}
      /\ s.at = (IF result = "live" THEN "created" ELSE "failed")
  BY <1>2, <1>3 DEF ThreadStates
<1>6. /\ thread'[t] = s /\ \A u \in Threads : u # t => thread'[u] = thread[u]
      /\ thread' \in [Threads -> ThreadStates]
  BY <1>t, <1>r, <1>5, Effect
<1>d. Do(t, s)
  BY <1>r
<1> HIDE DEF s
<1>7. slot'[h] = result /\ \A i \in Handles : i # h => slot'[i] = slot[i]
  BY <1>t, <1>r, <1>3 DEF WeaponTypes
<1>8. \A x : Current(x)' <=> Current(x)
  BY <1>1 DEF Current
<1>9. \A i \in Handles : Owned(i)' <=> Owned(i)
  BY <1>1, <1>8 DEF Owned
<1>10. slot' \in [Handles -> {"free", "reserved", "live"}]
  BY <1>t, <1>r DEF WeaponTypes
<1>11. WeaponTypes'
  BY <1>t, <1>1, <1>6, <1>10 DEF WeaponTypes
<1>12. ThreadInv'
  BY <1>t, <1>3, <1>5, <1>6 DEF ThreadInv, Making, Creating, Releases
<1>13. ConstructInv'
  <2>1. \A u \in Threads : (Constructs(u)' <=> Constructs(u)) /\ thread'[u].token = thread[u].token
    BY <1>1, <1>5, <1>6 DEF Constructs
  <2> QED
    BY <1>t, <1>1, <2>1 DEF ConstructInv
<1>14. \A k \in DOMAIN owners : \A x \in owners[k].textures : x.handle \in Handles
  BY <1>t DEF WeaponTypes, OwnerStates, Textures
<1>15. OwnedInv'
  <2>1. ASSUME NEW k \in DOMAIN owners, NEW x \in owners[k].textures, x.created = "yes"
        PROVE  Current(x)' /\ slot'[x.handle] = "live"
    BY <1>t, <1>3, <1>7, <1>8, <1>14, <2>1 DEF OwnedInv
  <2>2. ASSUME NEW k \in DOMAIN owners, NEW x \in owners[k].textures, x.created = "no"
        PROVE  \E u \in Threads :
            /\ Creating(u)' /\ thread'[u].token = k /\ thread'[u].handle = x.handle
            /\ IF thread'[u].at = "failed" THEN Current(x)' => slot'[x.handle] = "free" ELSE Current(x)'
    <3>1. PICK u \in Threads :
            /\ Creating(u) /\ thread[u].token = k /\ thread[u].handle = x.handle
            /\ IF thread[u].at = "failed" THEN Current(x) => slot[x.handle] = "free" ELSE Current(x)
      BY <1>t, <2>2 DEF OwnedInv
    <3>2. CASE u = t
      <4>1. x.handle = h /\ Current(x)'
        BY <1>1, <1>8, <3>1, <3>2
      <4>2. Creating(t)' /\ thread'[t].token = k /\ thread'[t].handle = h
        BY <1>5, <1>6, <3>1, <3>2 DEF Creating
      <4>3. thread'[t].at = "failed" => slot'[h] = "free"
        BY <1>5, <1>6, <1>7
      <4> QED
        BY <4>1, <4>2, <4>3
    <3>3. CASE u # t
      <4>1. thread'[u] = thread[u] /\ Creating(u)'
        BY <1>6, <3>1, <3>3 DEF Creating
      <4>2. x.handle = h /\ thread[u].at = "failed" => ~Current(x)
        BY <1>3, <3>1
      <4> QED
        BY <1>7, <1>8, <1>14, <3>1, <4>1, <4>2
    <3> QED
      BY <3>2, <3>3
  <2>3. \A k, j \in DOMAIN owners : \A x \in owners[k].textures, y \in owners[j].textures :
          Current(x)' /\ Current(y)' /\ x.handle = y.handle => k = j /\ x = y
    BY <1>t, <1>8 DEF OwnedInv
  <2> QED
    BY <1>t, <1>1, <2>1, <2>2, <2>3 DEF OwnedInv
<1>16. CountInv'
  BY <1>t, <1>1, <1>9 DEF CountInv
<1>17. SlotInv'
  <2>1. \A u \in Threads : thread'[u].handle = thread[u].handle /\ thread'[u].token = thread[u].token
    BY <1>5, <1>6
  <2>2. \A u \in Threads : Making(u)' => u # t /\ Making(u)
    BY <1>5, <1>6 DEF Making
  <2>3. ASSUME NEW u \in Threads, Making(u)' PROVE slot'[thread[u].handle] = "reserved"
    <3>1. thread[u].handle # h /\ thread[u].handle \in Handles
      BY <1>t, <1>1, <2>2, <2>3 DEF SlotInv, Making, ThreadInv
    <3> QED
      BY <1>t, <1>7, <2>2, <2>3, <3>1 DEF SlotInv
  <2>4. ASSUME NEW u \in Threads, thread'[u].at = "created" PROVE slot'[thread[u].handle] = "live"
    <3>1. CASE u = t
      BY <1>5, <1>6, <1>7, <2>4, <3>1
    <3>2. CASE u # t
      <4>1. thread[u].at = "created" /\ slot[thread[u].handle] = "live" /\ thread[u].handle \in Handles
        BY <1>t, <1>6, <2>4, <3>2 DEF SlotInv, ThreadInv, Creating
      <4> QED
        BY <1>3, <1>7, <4>1
    <3> QED
      BY <3>1, <3>2
  <2>5. \A u \in Threads : thread'[u].at \in {"creating", "created"} => thread[u].at \in {"creating", "created"}
    BY <1>1, <1>6
  <2>6. ASSUME NEW u \in Threads, NEW i \in Handles,
               thread'[u].at \in {"reserved", "claimed"}, thread'[u].handle = i
        PROVE  ~Owned(i)'
    BY <1>t, <1>5, <1>6, <1>9, <2>6 DEF SlotInv
  <2>7. \A i \in Handles : slot'[i] = "reserved" => releasing'[i] = NoClaim
    BY <1>t, <1>1, <1>7 DEF SlotInv
  <2> QED
    BY <1>t, <1>1, <1>8, <2>1, <2>2, <2>3, <2>4, <2>5, <2>6, <2>7 DEF SlotInv
<1>18. ClaimInv'
  <2>1. \A i \in Handles : slot'[i] = slot[i] \/ (slot[i] # "live" /\ releasing[i] = NoClaim)
    BY <1>3, <1>7
  <2>2. ~Releases(t) /\ s.at \notin {"claimed", "released"}
    BY <1>1, <1>5 DEF Releases
  <2> QED
    BY <1>t, <1>1, <1>d, <1>5, <1>10, <2>1, <2>2, ClaimsKept
<1>19. OrphanInv'
  <2> SUFFICES ASSUME NEW i \in Handles, slot'[i] = "live", ~Owned(i)
               PROVE  \E u \in Threads : Holds(u, i)'
    BY <1>9 DEF OrphanInv
  <2>1. i # h /\ slot[i] = "live"
    BY <1>4, <1>7
  <2>2. PICK u \in Threads : Holds(u, i)
    BY <1>t, <2>1 DEF OrphanInv
  <2>3. /\ thread[u].bank \subseteq thread'[u].bank /\ thread[u].retired \subseteq thread'[u].retired
        /\ thread[u].at = "claimed" => thread'[u].at = "claimed" /\ thread'[u].handle = thread[u].handle
    BY <1>1, <1>3, <1>5, <1>6
  <2> QED
    BY <1>t, <1>1, <2>2, <2>3, HoldsStays
<1> QED
  BY <1>11, <1>12, <1>13, <1>15, <1>16, <1>17, <1>18, <1>19 DEF WeaponInv

\* created: the one texture under creation becomes the weapon's.
LEMMA PublishAction ==
  ASSUME WeaponInv, NEW t \in Threads, PublishTexture(t)
  PROVE  WeaponInv'
<1>t. WeaponTypes /\ ThreadInv /\ ConstructInv /\ OwnedInv /\ CountInv /\ SlotInv /\ ClaimInv /\ OrphanInv
  BY DEF WeaponInv
<1> DEFINE h == thread[t].handle
           k0 == thread[t].token
           P == PendingOf(thread[t])
           C == Completed(thread[t])
           s == [thread[t] EXCEPT !.at = "building", !.handle = 0]
<1>1. /\ thread[t].at = "created" /\ owners[k0].life = "live"
      /\ owners' = [owners EXCEPT ![k0].textures = (@ \ P) \cup C] /\ Do(t, s)
      /\ UNCHANGED <<slot, generations, owner_counts, next_generation, next_owner, next_release,
                     resources, releasing>>
  BY DEF PublishTexture, counters
<1>2. thread[t] \in ThreadStates
  BY <1>t DEF WeaponTypes
<1>3. h \in Handles /\ k0 \in DOMAIN owners /\ slot[h] = "live" /\ thread[t].bank = {}
  BY <1>t, <1>1 DEF ThreadInv, Creating, ConstructInv, Constructs, SlotInv
<1>4. /\ s \in ThreadStates /\ s.at = "building" /\ s.token = k0
      /\ s.retired = thread[t].retired /\ s.back = thread[t].back /\ s.bank = thread[t].bank
  BY <1>2 DEF ThreadStates
<1>5. /\ thread'[t] = s /\ \A u \in Threads : u # t => thread'[u] = thread[u]
      /\ thread' \in [Threads -> ThreadStates]
  BY <1>t, <1>1, <1>4, Effect
<1> HIDE DEF s
<1>6. \A k \in DOMAIN owners : owners[k] \in OwnerStates /\ owners[k].textures \subseteq Textures
  BY <1>t DEF WeaponTypes, OwnerStates
<1>7. \A u \in Threads : Constructs(u) /\ thread[u].token = k0 => u = t
  BY <1>t, <1>1 DEF ConstructInv, Constructs
<1>8. PICK x0 \in owners[k0].textures : x0.handle = h /\ x0.created = "no" /\ Current(x0)
  BY <1>t, <1>1 DEF SlotInv
<1>9. P = {x0}
  <2>1. x0 \in P
    BY <1>8 DEF PendingOf
  <2>2. ASSUME NEW x \in P PROVE x = x0
    <3>1. x \in owners[k0].textures /\ x.handle = h /\ x.created = "no"
      BY DEF PendingOf
    <3>2. PICK u \in Threads :
            /\ Creating(u) /\ thread[u].token = k0
            /\ IF thread[u].at = "failed" THEN Current(x) => slot[x.handle] = "free" ELSE Current(x)
      BY <1>t, <1>3, <3>1 DEF OwnedInv
    <3>3. u = t
      BY <1>7, <3>2 DEF Creating, Constructs
    <3>4. Current(x)
      BY <1>1, <3>2, <3>3
    <3> QED
      BY <1>t, <1>3, <1>8, <3>1, <3>4 DEF OwnedInv
  <2> HIDE DEF P
  <2> QED
    BY <2>1, <2>2
<1> DEFINE y0 == [x0 EXCEPT !.created = "yes"]
<1>10. C = {y0}
  BY <1>9 DEF Completed
<1>11. x0 \in Textures
  BY <1>3, <1>6, <1>8
<1>12. y0 \in Textures /\ y0.handle = h /\ y0.generation = x0.generation /\ y0.created = "yes"
  BY <1>8, <1>11 DEF Textures
<1>13. Current(y0)
  BY <1>8, <1>12 DEF Current
<1> HIDE DEF y0, P, C
<1>14. /\ DOMAIN owners' = DOMAIN owners /\ \A k \in DOMAIN owners : k # k0 => owners'[k] = owners[k]
       /\ owners'[k0] = [owners[k0] EXCEPT !.textures = (@ \ {x0}) \cup {y0}]
       /\ owners' = [k \in DOMAIN owners |-> owners'[k]]
  BY <1>t, <1>1, <1>3, <1>9, <1>10 DEF WeaponTypes
<1>15. /\ owners'[k0] \in OwnerStates
       /\ owners'[k0].textures = (owners[k0].textures \ {x0}) \cup {y0}
       /\ owners'[k0].constructing = owners[k0].constructing /\ owners'[k0].life = owners[k0].life
  BY <1>3, <1>6, <1>12, <1>14 DEF OwnerStates
<1>16. \A x : Current(x)' <=> Current(x)
  BY <1>1 DEF Current
<1>17. \A k \in DOMAIN owners : \A x : x \in owners'[k].textures =>
         (x \in owners[k].textures /\ (k = k0 => x # x0)) \/ (k = k0 /\ x = y0)
  BY <1>14, <1>15
<1>18. \A k \in DOMAIN owners : \A x \in owners[k].textures :
         ~(k = k0 /\ x = x0) => x \in owners'[k].textures
  BY <1>14, <1>15
<1>19. \A i \in Handles : Owned(i)' <=> Owned(i)
  <2> SUFFICES ASSUME NEW i \in Handles PROVE Owned(i)' <=> Owned(i)
    OBVIOUS
  <2>1. Owned(i)' => Owned(i)
    BY <1>3, <1>8, <1>12, <1>14, <1>16, <1>17 DEF Owned
  <2>2. Owned(i) => Owned(i)'
    <3>1. y0 \in owners'[k0].textures
      BY <1>15
    <3>2. SUFFICES ASSUME NEW k \in DOMAIN owners, NEW x \in owners[k].textures,
                          x.handle = i, Current(x)
                   PROVE  Owned(i)'
      BY DEF Owned
    <3>3. CASE k = k0 /\ x = x0
      BY <1>3, <1>8, <1>12, <1>13, <1>14, <1>16, <3>1, <3>2, <3>3 DEF Owned
    <3>4. CASE ~(k = k0 /\ x = x0)
      BY <1>14, <1>16, <1>18, <3>2, <3>4 DEF Owned
    <3> QED
      BY <3>3, <3>4
  <2> QED
    BY <2>1, <2>2
<1>20. WeaponTypes'
  <2>1. owners' \in [DOMAIN owners -> OwnerStates]
    BY <1>6, <1>14, <1>15
  <2> QED
    BY <1>t, <1>1, <1>5, <1>14, <2>1 DEF WeaponTypes
<1>21. ThreadInv'
  BY <1>t, <1>3, <1>4, <1>5 DEF ThreadInv, Making, Creating, Releases
<1>22. ConstructInv'
  <2>1. \A u \in Threads : (Constructs(u)' <=> Constructs(u)) /\ thread'[u].token = thread[u].token
    BY <1>1, <1>4, <1>5 DEF Constructs
  <2>2. \A k \in DOMAIN owners : /\ owners'[k].constructing = owners[k].constructing
                                 /\ owners'[k].life = owners[k].life
    BY <1>14, <1>15
  <2>3. \A k \in DOMAIN owners : owners'[k].life = "retired" => owners'[k] = owners[k]
    BY <1>1, <1>14, <1>15
  <2> QED
    BY <1>t, <1>14, <2>1, <2>2, <2>3 DEF ConstructInv
<1>23. OwnedInv'
  <2>1. ASSUME NEW k \in DOMAIN owners, NEW x \in owners'[k].textures
        PROVE  /\ x.generation <= generations[x.handle]
               /\ x.created = "yes" => Current(x)' /\ slot[x.handle] = "live"
    <3>1. CASE x = y0
      <4>1. y0.generation <= generations[h]
        BY <1>t, <1>3, <1>8, <1>12 DEF OwnedInv
      <4> QED
        BY <1>3, <1>12, <1>13, <1>16, <3>1, <4>1
    <3>2. CASE x \in owners[k].textures
      BY <1>t, <1>16, <3>2 DEF OwnedInv
    <3> QED
      BY <1>17, <3>1, <3>2
  <2>2. ASSUME NEW k \in DOMAIN owners, NEW x \in owners'[k].textures, x.created = "no"
        PROVE  \E u \in Threads :
            /\ Creating(u)' /\ thread'[u].token = k /\ thread'[u].handle = x.handle
            /\ IF thread'[u].at = "failed" THEN Current(x)' => slot[x.handle] = "free" ELSE Current(x)'
    <3>1. x \in owners[k].textures /\ (k = k0 => x # x0)
      BY <1>12, <1>17, <2>2
    <3>2. PICK u \in Threads :
            /\ Creating(u) /\ thread[u].token = k /\ thread[u].handle = x.handle
            /\ IF thread[u].at = "failed" THEN Current(x) => slot[x.handle] = "free" ELSE Current(x)
      BY <1>t, <2>2, <3>1 DEF OwnedInv
    <3>3. u # t
      <4>1. u = t => x \in P
        BY <2>2, <3>1, <3>2 DEF P, PendingOf
      <4>2. u = t => k = k0
        BY <3>2
      <4> QED
        BY <1>9, <3>1, <4>1, <4>2
    <3> QED
      BY <1>5, <1>16, <3>2, <3>3 DEF Creating
  <2>3. ASSUME NEW k \in DOMAIN owners, NEW j \in DOMAIN owners, NEW x \in owners'[k].textures,
               NEW y \in owners'[j].textures, Current(x)', Current(y)', x.handle = y.handle
        PROVE  k = j /\ x = y
    <3>1. \A l \in DOMAIN owners : \A z \in owners[l].textures :
            Current(z) /\ z.handle = h => l = k0 /\ z = x0
      BY <1>t, <1>3, <1>8 DEF OwnedInv
    <3>2. \A l \in DOMAIN owners : \A z \in owners'[l].textures :
            Current(z) /\ z.handle = h => l = k0 /\ z = y0
      BY <1>17, <3>1
    <3>3. CASE x.handle = h
      BY <1>16, <2>3, <3>2, <3>3
    <3>4. CASE x.handle # h
      BY <1>t, <1>12, <1>16, <1>17, <2>3, <3>4 DEF OwnedInv
    <3> QED
      BY <3>3, <3>4
  <2>4. \A k, j \in DOMAIN owners' : \A x \in owners'[k].textures, y \in owners'[j].textures :
          Current(x)' /\ Current(y)' /\ x.handle = y.handle => k = j /\ x = y
    BY <1>14, <2>3
  <2>5. \A i \in Handles : generations'[i] <= next_generation'
    BY <1>t, <1>1 DEF OwnedInv
  <2>6. DOMAIN owners' = DOMAIN owners /\ slot' = slot /\ generations' = generations
    BY <1>1, <1>14
  <2>7. ASSUME NEW k \in DOMAIN owners', NEW x \in owners'[k].textures
        PROVE  /\ x.generation <= generations'[x.handle]
               /\ x.created = "yes" => Current(x)' /\ slot'[x.handle] = "live"
               /\ x.created = "no" => \E u \in Threads :
                    /\ Creating(u)' /\ thread'[u].token = k /\ thread'[u].handle = x.handle
                    /\ IF thread'[u].at = "failed" THEN Current(x)' => slot'[x.handle] = "free"
                       ELSE Current(x)'
    BY <2>1, <2>2, <2>6
  <2> QED
    BY <2>4, <2>5, <2>7 DEF OwnedInv
<1>24. CountInv'
  BY <1>t, <1>1, <1>19 DEF CountInv
<1>25. SlotInv'
  <2>1. \A u \in Threads : thread'[u].at \in {"reserved", "creating", "created", "claimed"} =>
          thread'[u] = thread[u] /\ u # t
    BY <1>4, <1>5
  <2>2. ASSUME NEW u \in Threads, thread'[u].at \in {"creating", "created"}
        PROVE  \E x \in owners'[thread'[u].token].textures :
                 x.handle = thread'[u].handle /\ x.created = "no" /\ Current(x)'
    <3>1. thread'[u] = thread[u] /\ u # t
      BY <2>1, <2>2
    <3>2. PICK x \in owners[thread[u].token].textures :
              x.handle = thread[u].handle /\ x.created = "no" /\ Current(x)
      BY <1>t, <2>2, <3>1 DEF SlotInv
    <3>3. thread[u].token \in DOMAIN owners /\ thread[u].token # k0
      BY <1>t, <1>7, <2>2, <3>1 DEF ConstructInv, Constructs
    <3> QED
      BY <1>14, <1>16, <3>1, <3>2, <3>3
  <2>3. ASSUME NEW u \in Threads, NEW i \in Handles,
               thread'[u].at \in {"reserved", "claimed"}, thread'[u].handle = i
        PROVE  ~Owned(i)'
    BY <1>t, <1>19, <2>1, <2>3 DEF SlotInv
  <2>4. \A u \in Threads : /\ Making(u)' => slot'[thread'[u].handle] = "reserved"
                           /\ thread'[u].at = "created" => slot'[thread'[u].handle] = "live"
    BY <1>t, <1>1, <2>1 DEF SlotInv, Making
  <2>5. \A u, v \in Threads : Making(u)' /\ Making(v)' /\ thread'[u].handle = thread'[v].handle => u = v
    BY <1>t, <2>1 DEF SlotInv, Making
  <2> QED
    BY <1>t, <1>1, <2>2, <2>3, <2>4, <2>5 DEF SlotInv
<1>26. ClaimInv'
  BY <1>t, <1>1, <1>4, ClaimsKept DEF Releases, WeaponTypes
<1>27. OrphanInv'
  <2> SUFFICES ASSUME NEW i \in Handles, slot[i] = "live", ~Owned(i)
               PROVE  \E u \in Threads : Holds(u, i)'
    BY <1>1, <1>19 DEF OrphanInv
  <2>1. PICK u \in Threads : Holds(u, i)
    BY <1>t DEF OrphanInv
  <2>2. /\ thread[u].bank \subseteq thread'[u].bank /\ thread[u].retired \subseteq thread'[u].retired
        /\ thread[u].at = "claimed" => thread'[u].at = "claimed" /\ thread'[u].handle = thread[u].handle
    BY <1>1, <1>4, <1>5
  <2> QED
    BY <1>t, <1>1, <2>1, <2>2, HoldsStays
<1> QED
  BY <1>20, <1>21, <1>22, <1>23, <1>24, <1>25, <1>26, <1>27 DEF WeaponInv

\* created, for an owner that was retired meanwhile or a creation that failed.
LEMMA UnpublishedAction ==
  ASSUME WeaponInv, NEW t \in Threads, Unpublished(t)
  PROVE  WeaponInv'
<1>t. WeaponTypes /\ ThreadInv /\ ConstructInv /\ OwnedInv /\ CountInv /\ SlotInv /\ ClaimInv /\ OrphanInv
  BY DEF WeaponInv
<1> DEFINE h == thread[t].handle
           k0 == thread[t].token
           P == PendingOf(thread[t])
           left == [owners EXCEPT ![k0].textures = @ \ P]
           released == {[texture |-> x] : x \in Completed(thread[t])}
           s == [thread[t] EXCEPT !.handle = 0,
                      !.at = IF thread[t].at = "created" THEN "releasing" ELSE "building",
                      !.back = "building",
                      !.bank = IF thread[t].at = "created" THEN released ELSE {}]
<1>1. /\ thread[t].at \in {"created", "failed"}
      /\ owners' = remove_finished(left)
      /\ owner_counts' = Unreferenced(owner_counts, P) /\ Do(t, s)
      /\ UNCHANGED <<slot, generations, next_generation, next_owner, next_release, resources, releasing>>
  BY DEF Unpublished, counters
<1>2. thread[t] \in ThreadStates
  BY <1>t DEF WeaponTypes
<1>3. h \in Handles /\ k0 \in DOMAIN owners /\ thread[t].bank = {}
  BY <1>t, <1>1 DEF ThreadInv, Creating, ConstructInv, Constructs
<1>4. \A k \in DOMAIN owners : owners[k] \in OwnerStates /\ owners[k].textures \subseteq Textures
  BY <1>t DEF WeaponTypes, OwnerStates
<1>5. P \subseteq owners[k0].textures /\ P \subseteq Textures
  BY <1>3, <1>4 DEF PendingOf
<1>6. \A x \in Textures : [x EXCEPT !.created = "yes"] \in Textures
                          /\ [x EXCEPT !.created = "yes"].handle = x.handle
                          /\ [x EXCEPT !.created = "yes"].generation = x.generation
  BY DEF Textures
<1>7. released \subseteq Items
  BY <1>5, <1>6, ItemForm DEF Completed
<1>8. /\ s \in ThreadStates /\ s.at = (IF thread[t].at = "created" THEN "releasing" ELSE "building")
      /\ s.token = k0 /\ s.retired = thread[t].retired /\ s.back = "building"
      /\ s.bank = (IF thread[t].at = "created" THEN released ELSE {})
  BY <1>1, <1>2, <1>7 DEF ThreadStates
<1>9. /\ thread'[t] = s /\ \A u \in Threads : u # t => thread'[u] = thread[u]
      /\ thread' \in [Threads -> ThreadStates]
  BY <1>t, <1>1, <1>8, Effect
<1> HIDE DEF s, released, P
<1>10. \A u \in Threads : Constructs(u) /\ thread[u].token = k0 => u = t
  BY <1>t, <1>1 DEF ConstructInv, Constructs
<1>11. /\ DOMAIN left = DOMAIN owners /\ \A k \in DOMAIN owners : k # k0 => left[k] = owners[k]
       /\ left[k0] = [owners[k0] EXCEPT !.textures = @ \ P]
  BY <1>t, <1>3 DEF WeaponTypes
<1>12. /\ left[k0] \in OwnerStates /\ left[k0].textures = owners[k0].textures \ P
       /\ left[k0].constructing = owners[k0].constructing /\ left[k0].life = owners[k0].life
  BY <1>3, <1>4, <1>11 DEF OwnerStates
<1> HIDE DEF left
<1>13. \A k \in DOMAIN owners : ~Finished(left[k])
  <2>1. \A k \in DOMAIN owners : /\ left[k].life = owners[k].life
                                 /\ left[k].constructing = owners[k].constructing
    BY <1>11, <1>12
  <2>2. \A k \in DOMAIN owners : owners[k].life = "retired" => owners[k].constructing
    BY <1>t DEF ConstructInv
  <2> QED
    BY <2>1, <2>2 DEF Finished
<1>14. /\ DOMAIN owners' = DOMAIN owners
       /\ \A k \in DOMAIN owners : owners'[k] = left[k]
       /\ owners' = [k \in DOMAIN owners' |-> owners'[k]]
  BY <1>1, <1>11, <1>13 DEF remove_finished
<1>15. \A k \in DOMAIN owners : \A x : x \in owners'[k].textures <=>
         x \in owners[k].textures /\ ~(k = k0 /\ x \in P)
  BY <1>11, <1>12, <1>14
<1>16. \A x : Current(x)' <=> Current(x)
  BY <1>1 DEF Current
<1>17. \A x \in P : x.handle = h /\ x.created = "no" /\ x \in owners[k0].textures
  BY DEF P, PendingOf
<1>18. OwnedInv' /\ SlotInv' /\ \A i \in Handles : Owned(i)' => Owned(i)
  <2>1. \A k \in DOMAIN owners' : owners'[k].textures # {} =>
           k \in DOMAIN owners /\ owners'[k].textures \subseteq owners[k].textures
    BY <1>14, <1>15
  <2>2. \A u \in Threads : \/ thread'[u] = thread[u]
                           \/ thread'[u].at \notin {"reserved", "creating", "created", "failed", "claimed"}
    BY <1>8, <1>9
  <2>3. ASSUME NEW k \in DOMAIN owners, NEW x \in owners[k].textures, x.created = "no",
               NEW u \in Threads, Creating(u), thread[u].token = k, thread[u].handle = x.handle
        PROVE  IF k \in DOMAIN owners' /\ x \in owners'[k].textures
               THEN thread'[u] = thread[u] ELSE ~Creating(u)'
    <3>1. CASE u = t
      <4>1. k = k0 /\ x \in P
        BY <2>3, <3>1 DEF P, PendingOf
      <4>2. ~(x \in owners'[k].textures)
        BY <1>15, <4>1
      <4>3. ~Creating(u)'
        BY <1>8, <1>9, <3>1 DEF Creating
      <4> QED
        BY <4>2, <4>3
    <3>2. CASE u # t
      <4>1. k # k0
        BY <1>10, <2>3, <3>2 DEF Creating, Constructs
      <4> QED
        BY <1>9, <1>14, <1>15, <3>2, <4>1
    <3> QED
      BY <3>1, <3>2
  <2> QED
    BY <1>t, <1>1, <2>1, <2>2, <2>3, OwnersShrink
<1>19. \A i \in Handles : Owned(i)' <=> Owned(i) /\ ~(\E x \in P : x.handle = i /\ Current(x))
  <2>1. ASSUME NEW i \in Handles, Owned(i)', NEW x \in P, x.handle = i, Current(x)
        PROVE  FALSE
    <3>1. PICK k \in DOMAIN owners : \E y \in owners'[k].textures : y.handle = i /\ Current(y)
      BY <1>14, <1>16, <2>1 DEF Owned
    <3>2. PICK y \in owners'[k].textures : y.handle = i /\ Current(y)
      BY <3>1
    <3>3. y \in owners[k].textures /\ ~(k = k0 /\ y \in P)
      BY <1>15, <3>2
    <3>4. k = k0 /\ y = x
      BY <1>t, <1>3, <1>17, <2>1, <3>2, <3>3 DEF OwnedInv
    <3> QED
      BY <2>1, <3>3, <3>4
  <2>2. ASSUME NEW i \in Handles, Owned(i), ~(\E x \in P : x.handle = i /\ Current(x))
        PROVE  Owned(i)'
    BY <1>14, <1>15, <1>16, <2>2 DEF Owned
  <2> QED
    BY <1>18, <2>1, <2>2
<1>20. CountInv' /\ owner_counts' \in [Handles -> Nat]
  <2>1. \A x \in P : \E k \in DOMAIN owners : x \in owners[k].textures
    BY <1>3, <1>17
  <2> QED
    BY <1>t, <1>1, <1>5, <1>19, <2>1, CountsDrop
<1>21. WeaponTypes'
  <2>1. owners' \in [DOMAIN owners -> OwnerStates]
    <3>1. \A k \in DOMAIN owners : owners'[k] \in OwnerStates
      BY <1>4, <1>11, <1>12, <1>14
    <3>2. \A k \in DOMAIN owners' : owners'[k] \in OwnerStates
      BY <1>14, <3>1
    <3> QED
      BY <1>14, <3>2
  <2> QED
    BY <1>t, <1>1, <1>9, <1>14, <1>20, <2>1 DEF WeaponTypes
<1>22. ThreadInv'
  BY <1>t, <1>1, <1>8, <1>9 DEF ThreadInv, Making, Creating, Releases
<1>23. ConstructInv'
  <2>1. \A u \in Threads : (Constructs(u)' <=> Constructs(u)) /\ thread'[u].token = thread[u].token
    BY <1>1, <1>8, <1>9 DEF Constructs
  <2>2. \A k \in DOMAIN owners : /\ owners'[k].constructing = owners[k].constructing
                                 /\ owners'[k].life = owners[k].life
    BY <1>11, <1>12, <1>14
  <2>3. \A k \in DOMAIN owners : Created(owners'[k]) \subseteq Created(owners[k])
    BY <1>15 DEF Created
  <2> QED
    BY <1>t, <1>14, <2>1, <2>2, <2>3 DEF ConstructInv
<1>24. ClaimInv'
  <2>1. ~Releases(t) /\ s.at \notin {"claimed", "released"}
    BY <1>1, <1>8 DEF Releases
  <2> QED
    BY <1>t, <1>1, <1>8, <2>1, ClaimsKept DEF WeaponTypes
<1>25. OrphanInv'
  <2> SUFFICES ASSUME NEW i \in Handles, slot[i] = "live", ~Owned(i)'
               PROVE  \E u \in Threads : Holds(u, i)'
    BY <1>1 DEF OrphanInv
  <2>1. CASE Owned(i)
    <3>1. PICK x \in P : x.handle = i /\ Current(x)
      BY <1>19, <2>1
    <3>2. PICK u \in Threads :
            /\ Creating(u) /\ thread[u].token = k0
            /\ thread[u].at = "failed" => slot[x.handle] = "free"
      BY <1>t, <1>3, <1>17, <3>1 DEF OwnedInv
    <3>3. u = t
      BY <1>10, <3>2 DEF Creating, Constructs
    <3>4. thread[t].at = "created"
      BY <1>1, <3>1, <3>2, <3>3
    <3> DEFINE y == [x EXCEPT !.created = "yes"]
    <3>5. y \in Textures /\ y.handle = i /\ y.generation = x.generation /\ y \in Completed(thread[t])
      BY <1>5, <1>6, <3>1 DEF Completed, P
    <3> HIDE DEF y
    <3>6. [texture |-> y] \in thread'[t].bank
      BY <1>8, <1>9, <3>4, <3>5 DEF released
    <3>7. HandleOf([texture |-> y]) = i /\ [texture |-> y].texture = y
      BY <3>5, ItemForm
    <3>8. Current(y)'
      BY <1>16, <3>1, <3>5 DEF Current
    <3> QED
      BY <3>6, <3>7, <3>8 DEF Holds
  <2>2. CASE ~Owned(i)
    <3>1. PICK u \in Threads : Holds(u, i)
      BY <1>t, <2>2 DEF OrphanInv
    <3>2. /\ thread[u].bank \subseteq thread'[u].bank /\ thread[u].retired \subseteq thread'[u].retired
          /\ thread[u].at = "claimed" => thread'[u].at = "claimed" /\ thread'[u].handle = thread[u].handle
      BY <1>1, <1>3, <1>8, <1>9
    <3> QED
      BY <1>t, <1>1, <3>1, <3>2, HoldsStays
  <2> QED
    BY <2>1, <2>2
<1> QED
  BY <1>18, <1>20, <1>21, <1>22, <1>23, <1>24, <1>25 DEF WeaponInv

\* finish: a retired owner goes with the end of its construction.
LEMMA ConstructReturnsAction ==
  ASSUME WeaponInv, NEW t \in Threads, ConstructReturns(t)
  PROVE  WeaponInv'
<1>t. WeaponTypes /\ ThreadInv /\ ConstructInv /\ OwnedInv /\ CountInv /\ SlotInv /\ ClaimInv /\ OrphanInv
  BY DEF WeaponInv
<1> DEFINE k0 == thread[t].token
           left == [owners EXCEPT ![k0].constructing = FALSE]
           released == {[texture |-> x] : x \in thread[t].retired}
           s == [Resting EXCEPT !.at = "releasing", !.bank = released]
<1>1. /\ thread[t].at = "building" /\ owners' = remove_finished(left) /\ Do(t, s)
      /\ UNCHANGED <<slot, generations, owner_counts, next_generation, next_owner, next_release,
                     resources, releasing>>
  BY DEF ConstructReturns, counters
<1>2. thread[t] \in ThreadStates /\ thread[t].retired \subseteq Textures
  BY <1>t DEF WeaponTypes, ThreadStates
<1>3. k0 \in DOMAIN owners /\ thread[t].bank = {}
  BY <1>t, <1>1 DEF ThreadInv, ConstructInv, Constructs
<1>4. released \subseteq Items
  BY <1>2, ItemForm
<1>5. s \in ThreadStates /\ s.at = "releasing" /\ s.back = "idle" /\ s.bank = released
  BY <1>4, RestingState DEF ThreadStates
<1>6. /\ thread'[t] = s /\ \A u \in Threads : u # t => thread'[u] = thread[u]
      /\ thread' \in [Threads -> ThreadStates]
  BY <1>t, <1>1, <1>5, Effect
<1> HIDE DEF s, released
<1>7. \A k \in DOMAIN owners : owners[k] \in OwnerStates /\ owners[k].textures \subseteq Textures
  BY <1>t DEF WeaponTypes, OwnerStates
<1>8. \A u \in Threads : Constructs(u) /\ thread[u].token = k0 => u = t
  BY <1>t, <1>1 DEF ConstructInv, Constructs
<1>9. /\ DOMAIN left = DOMAIN owners /\ \A k \in DOMAIN owners : k # k0 => left[k] = owners[k]
      /\ left[k0] = [owners[k0] EXCEPT !.constructing = FALSE]
  BY <1>t, <1>3 DEF WeaponTypes
<1>10. /\ left[k0] \in OwnerStates /\ left[k0].textures = owners[k0].textures
       /\ left[k0].constructing = FALSE /\ left[k0].life = owners[k0].life
  <2>1. \A o \in OwnerStates : LET n == [o EXCEPT !.constructing = FALSE] IN
          n \in OwnerStates /\ n.textures = o.textures /\ n.constructing = FALSE /\ n.life = o.life
    BY DEF OwnerStates
  <2>2. owners[k0] \in OwnerStates /\ left[k0] = [owners[k0] EXCEPT !.constructing = FALSE]
    BY <1>3, <1>7, <1>9
  <2> HIDE DEF left
  <2> QED
    BY <2>1, <2>2
<1> HIDE DEF left
\* What this construction was creating is settled.
<1>11. \A x \in owners[k0].textures : x.created # "no"
  <2> SUFFICES ASSUME NEW x \in owners[k0].textures, x.created = "no" PROVE FALSE
    OBVIOUS
  <2>1. PICK u \in Threads : Creating(u) /\ thread[u].token = k0
    BY <1>t, <1>3 DEF OwnedInv
  <2> QED
    BY <1>1, <1>8, <2>1 DEF Creating, Constructs
<1>12. owners[k0].life = "retired" => owners[k0].textures = {}
  <2>1. \A x \in owners[k0].textures : x.created = "yes"
    BY <1>3, <1>7, <1>11 DEF Textures
  <2> QED
    BY <1>t, <1>3, <2>1 DEF ConstructInv, Created
<1>13. \A k \in DOMAIN owners : Finished(left[k]) <=> k = k0 /\ owners[k0].life = "retired"
  BY <1>t, <1>3, <1>9, <1>10, <1>12 DEF Finished, ConstructInv
<1>14. /\ \A k : k \in DOMAIN owners' <=> k \in DOMAIN owners /\ ~(k = k0 /\ owners[k0].life = "retired")
       /\ \A k \in DOMAIN owners' : owners'[k] = left[k]
       /\ owners' = [k \in DOMAIN owners' |-> owners'[k]]
  BY <1>1, <1>9, <1>13 DEF remove_finished
<1>15. \A k \in DOMAIN owners' : k \in DOMAIN owners /\ owners'[k].textures = owners[k].textures
                                 /\ owners'[k].life = owners[k].life
  BY <1>9, <1>10, <1>14
<1>16. \A x : Current(x)' <=> Current(x)
  BY <1>1 DEF Current
<1>17. \A i \in Handles : Owned(i)' <=> Owned(i)
  <2>1. \A k \in DOMAIN owners : owners[k].textures # {} => k \in DOMAIN owners'
    BY <1>12, <1>14
  <2> QED
    BY <1>15, <1>16, <2>1 DEF Owned
<1>18. OwnedInv' /\ SlotInv'
  <2>1. \A k \in DOMAIN owners' : owners'[k].textures # {} =>
           k \in DOMAIN owners /\ owners'[k].textures \subseteq owners[k].textures
    BY <1>15
  <2>2. \A u \in Threads : \/ thread'[u] = thread[u]
                           \/ thread'[u].at \notin {"reserved", "creating", "created", "failed", "claimed"}
    BY <1>5, <1>6
  <2>3. ASSUME NEW k \in DOMAIN owners, NEW x \in owners[k].textures, x.created = "no",
               NEW u \in Threads, Creating(u), thread[u].token = k, thread[u].handle = x.handle
        PROVE  IF k \in DOMAIN owners' /\ x \in owners'[k].textures
               THEN thread'[u] = thread[u] ELSE ~Creating(u)'
    <3>1. u # t
      BY <1>1, <2>3 DEF Creating
    <3>2. k # k0
      BY <1>11, <2>3
    <3> QED
      BY <1>6, <1>14, <1>15, <3>1, <3>2
  <2> QED
    BY <1>t, <1>1, <2>1, <2>2, <2>3, OwnersShrink
<1>19. CountInv'
  BY <1>t, <1>1, <1>17 DEF CountInv
<1>20. WeaponTypes'
  <2>1. owners' \in [DOMAIN owners' -> OwnerStates]
    <3>1. \A k \in DOMAIN owners' : owners'[k] \in OwnerStates
      BY <1>7, <1>9, <1>10, <1>14
    <3> QED
      BY <1>14, <3>1
  <2>2. DOMAIN owners' \subseteq 1 .. next_owner
    BY <1>t, <1>14 DEF WeaponTypes
  <2> QED
    BY <1>t, <1>1, <1>6, <2>1, <2>2 DEF WeaponTypes
<1>21. ThreadInv'
  BY <1>t, <1>5, <1>6 DEF ThreadInv, Making, Creating, Releases
<1>22. ConstructInv'
  <2>1. \A u \in Threads : /\ Constructs(u)' <=> Constructs(u) /\ u # t
                           /\ u # t => thread'[u] = thread[u]
    BY <1>1, <1>5, <1>6 DEF Constructs
  <2>2. \A k \in DOMAIN owners' : k # k0 => owners'[k] = owners[k]
    BY <1>9, <1>14
  <2>3. k0 \in DOMAIN owners' => ~owners'[k0].constructing /\ owners'[k0].life # "retired"
    BY <1>10, <1>14
  <2>4. \A u \in Threads : Constructs(u)' =>
          thread'[u].token \in DOMAIN owners' /\ owners'[thread'[u].token].constructing
    BY <1>t, <1>8, <1>14, <2>1, <2>2 DEF ConstructInv
  <2>5. \A k \in DOMAIN owners' : owners'[k].constructing => \E u \in Threads : Constructs(u)' /\ thread'[u].token = k
    <3> SUFFICES ASSUME NEW k \in DOMAIN owners', owners'[k].constructing
                 PROVE  \E u \in Threads : Constructs(u)' /\ thread'[u].token = k
      OBVIOUS
    <3>1. k # k0 /\ owners'[k] = owners[k] /\ k \in DOMAIN owners
      BY <1>14, <2>2, <2>3
    <3>2. PICK u \in Threads : Constructs(u) /\ thread[u].token = k
      BY <1>t, <3>1 DEF ConstructInv
    <3> QED
      BY <2>1, <3>1, <3>2
  <2>6. \A k \in DOMAIN owners' : owners'[k].life = "retired" =>
          owners'[k].constructing /\ Created(owners'[k]) = {}
    BY <1>t, <1>14, <2>2, <2>3 DEF ConstructInv
  <2>7. \A u, v \in Threads : Constructs(u)' /\ Constructs(v)' /\ thread'[u].token = thread'[v].token => u = v
    BY <1>t, <2>1 DEF ConstructInv
  <2> QED
    BY <2>4, <2>5, <2>6, <2>7 DEF ConstructInv
<1>23. ClaimInv'
  <2>1. ~Releases(t) /\ s.at \notin {"claimed", "released"}
    BY <1>1, <1>5 DEF Releases
  <2> QED
    BY <1>t, <1>1, <1>5, <2>1, ClaimsKept DEF WeaponTypes
<1>24. OrphanInv'
  <2> SUFFICES ASSUME NEW i \in Handles, slot[i] = "live", ~Owned(i)
               PROVE  \E u \in Threads : Holds(u, i)'
    BY <1>1, <1>17 DEF OrphanInv
  <2>1. PICK u \in Threads : Holds(u, i)
    BY <1>t DEF OrphanInv
  <2>2. CASE u # t
    BY <1>t, <1>1, <1>5, <2>1, <2>2, OthersHold
  <2>3. CASE u = t
    <3>1. PICK x \in thread[t].retired : x.handle = i /\ Current(x)
      BY <1>1, <1>3, <2>1, <2>3 DEF Holds
    <3>2. [texture |-> x] \in thread'[t].bank
      BY <1>5, <1>6, <3>1 DEF released
    <3>3. HandleOf([texture |-> x]) = i /\ [texture |-> x].texture = x
      BY <1>2, <3>1, ItemForm
    <3> QED
      BY <1>16, <3>1, <3>2, <3>3 DEF Holds
  <2> QED
    BY <2>2, <2>3
<1> QED
  BY <1>18, <1>19, <1>20, <1>21, <1>22, <1>23, <1>24 DEF WeaponInv

\* Owners without some of them: those lose what is complete, and are removed unless something of
\* theirs is under construction.
LEMMA RetireOwners ==
  ASSUME WeaponTypes, ConstructInv, OwnedInv, NEW tokens,
         NEW others, others = remove_finished(Retired(tokens))
  PROVE  /\ DOMAIN others \subseteq DOMAIN owners /\ others \in [DOMAIN others -> OwnerStates]
         /\ \A k \in DOMAIN owners : \A x \in owners[k].textures :
              x \in RetiredTextures(tokens) \/ (k \in DOMAIN others /\ x \in others[k].textures)
         /\ \A k \in DOMAIN owners : \A x \in owners[k].textures :
              x.created = "no" => k \in DOMAIN others /\ x \in others[k].textures
         /\ \A k \in DOMAIN others : /\ others[k].textures \subseteq owners[k].textures
                                     /\ k \in tokens => Created(others[k]) = {}
                                     /\ others[k].constructing = owners[k].constructing
                                     /\ others[k].life = "retired" =>
                                          owners[k].constructing /\ Created(others[k]) = {}
         /\ \A k \in DOMAIN owners : owners[k].constructing => k \in DOMAIN others
<1> DEFINE gone == Retired(tokens)
<1>1. \A k \in DOMAIN owners : owners[k] \in OwnerStates /\ owners[k].textures \subseteq Textures
  BY DEF WeaponTypes, OwnerStates
<1>2. /\ DOMAIN gone = DOMAIN owners
      /\ \A k \in DOMAIN owners : k \notin tokens => gone[k] = owners[k]
      /\ \A k \in DOMAIN owners : k \in tokens =>
           gone[k] = [owners[k] EXCEPT !.life = "retired", !.textures = @ \ Created(owners[k])]
  BY DEF Retired
<1>3. \A k \in DOMAIN owners : Created(owners[k]) \subseteq owners[k].textures
  BY DEF Created
<1>4. \A k \in DOMAIN owners : k \in tokens =>
        /\ gone[k] \in OwnerStates /\ gone[k].life = "retired"
        /\ gone[k].constructing = owners[k].constructing
        /\ gone[k].textures = owners[k].textures \ Created(owners[k])
  <2> SUFFICES ASSUME NEW k \in DOMAIN owners, k \in tokens
               PROVE  /\ gone[k] \in OwnerStates /\ gone[k].life = "retired"
                      /\ gone[k].constructing = owners[k].constructing
                      /\ gone[k].textures = owners[k].textures \ Created(owners[k])
    OBVIOUS
  <2> DEFINE o == owners[k]
  <2>1. o \in OwnerStates /\ o.textures \ Created(o) \subseteq Textures
    BY <1>1
  <2>2. gone[k] = [o EXCEPT !.life = "retired", !.textures = @ \ Created(o)]
    BY <1>2
  <2> HIDE DEF o, gone
  <2>3. /\ gone[k] \in OwnerStates /\ gone[k].life = "retired"
        /\ gone[k].constructing = o.constructing /\ gone[k].textures = o.textures \ Created(o)
    BY <2>1, <2>2 DEF OwnerStates
  <2> QED
    BY <2>3 DEF o
<1> HIDE DEF gone
<1>5. /\ \A k : k \in DOMAIN others <=> k \in DOMAIN owners /\ ~Finished(gone[k])
      /\ \A k \in DOMAIN others : others[k] = gone[k]
      /\ others = [k \in DOMAIN others |-> others[k]]
  BY <1>2 DEF remove_finished, gone
<1>6. \A k \in DOMAIN owners : gone[k] \in OwnerStates /\ gone[k].constructing = owners[k].constructing
  BY <1>1, <1>2, <1>4
<1>7. DOMAIN others \subseteq DOMAIN owners /\ others \in [DOMAIN others -> OwnerStates]
  BY <1>5, <1>6
<1>8. \A k \in DOMAIN owners : owners[k].constructing => k \in DOMAIN others
  BY <1>5, <1>6 DEF Finished
<1>9. \A k \in DOMAIN owners : \A x \in owners[k].textures :
        (k \in tokens /\ x.created = "yes") \/ x \in gone[k].textures
  BY <1>1, <1>2, <1>4 DEF Created, Textures
<1>10. \A k \in DOMAIN owners : gone[k].textures # {} => k \in DOMAIN others
  BY <1>5 DEF Finished
<1>11. \A k \in DOMAIN owners : \A x \in owners[k].textures :
         k \in tokens /\ x.created = "yes" => x \in RetiredTextures(tokens)
  BY DEF RetiredTextures, Created
<1>12. \A k \in DOMAIN owners : \A x \in owners[k].textures :
         x \in RetiredTextures(tokens) \/ (k \in DOMAIN others /\ x \in others[k].textures)
  BY <1>5, <1>9, <1>10, <1>11
<1>13. \A k \in DOMAIN owners : \A x \in owners[k].textures :
         x.created = "no" => k \in DOMAIN others /\ x \in others[k].textures
  BY <1>5, <1>9, <1>10
<1>14. ASSUME NEW k \in DOMAIN others
       PROVE  /\ others[k].textures \subseteq owners[k].textures
              /\ k \in tokens => Created(others[k]) = {}
              /\ others[k].constructing = owners[k].constructing
  <2>1. k \in DOMAIN owners /\ others[k] = gone[k]
    BY <1>5
  <2> QED
    BY <1>2, <1>4, <1>6, <2>1 DEF Created
<1>15. ASSUME NEW k \in DOMAIN others, others[k].life = "retired"
       PROVE  owners[k].constructing /\ Created(others[k]) = {}
  <2>1. k \in DOMAIN owners /\ others[k] = gone[k] /\ ~Finished(gone[k])
    BY <1>5
  <2>2. CASE k \notin tokens
    <3>1. others[k] = owners[k]
      BY <1>2, <2>1, <2>2
    <3>2. owners[k].life = "retired"
      BY <1>15, <3>1
    <3> QED
      BY <2>1, <3>1, <3>2 DEF ConstructInv
  <2>3. CASE k \in tokens
    <3>1. CASE gone[k].constructing
      BY <1>4, <1>14, <2>1, <2>3, <3>1
    <3>2. CASE ~gone[k].constructing
      <4>1. gone[k].textures # {}
        BY <1>4, <2>1, <2>3, <3>2 DEF Finished
      <4>2. PICK x \in owners[k].textures : x.created # "yes"
        BY <1>4, <2>1, <2>3, <4>1 DEF Created
      <4>3. x.created = "no"
        BY <1>1, <2>1, <4>2 DEF Textures
      <4>4. \E u \in Threads : Creating(u) /\ thread[u].token = k
        BY <2>1, <4>3 DEF OwnedInv
      <4> QED
        BY <1>14, <2>3, <4>4 DEF ConstructInv, Constructs, Creating
    <3> QED
      BY <3>1, <3>2
  <2> QED
    BY <2>2, <2>3
<1> QED
  BY <1>7, <1>8, <1>12, <1>13, <1>14, <1>15

\* What retiring owners leaves true, when the thread that does it holds what they had.
LEMMA RetireAction ==
  ASSUME WeaponInv, NEW t \in Threads, NEW s \in ThreadStates, NEW tokens, NEW others,
         thread[t] = Resting, Do(t, s), s.at \in {"building", "releasing"},
         others = remove_finished(Retired(tokens)),
         owner_counts' = Unreferenced(owner_counts, RetiredTextures(tokens)),
         UNCHANGED <<slot, generations, next_generation, next_release, releasing>>,
         \A k \in DOMAIN others : k \in DOMAIN owners' /\ owners'[k] = others[k],
         \A k \in DOMAIN owners' : k \notin DOMAIN others =>
           owners'[k].textures = {} /\ k \notin DOMAIN owners,
         \A i \in Handles : \A x \in RetiredTextures(tokens) :
           x.handle = i /\ Current(x) => Holds(t, i)'
  PROVE  OwnedInv' /\ SlotInv' /\ CountInv' /\ ClaimInv' /\ OrphanInv' /\ owner_counts' \in [Handles -> Nat]
<1>t. WeaponTypes /\ ThreadInv /\ ConstructInv /\ OwnedInv /\ CountInv /\ SlotInv /\ ClaimInv /\ OrphanInv
  BY DEF WeaponInv
<1>1. /\ thread'[t] = s /\ \A u \in Threads : u # t => thread'[u] = thread[u]
      /\ thread' \in [Threads -> ThreadStates]
  BY <1>t, Effect
<1>2. thread[t].at = "idle" /\ thread[t].bank = {} /\ thread[t].retired = {}
  BY RestingState
<1> DEFINE T == RetiredTextures(tokens)
<1>3. T \subseteq Textures /\ \A x \in T : \E k \in DOMAIN owners :
                                k \in tokens /\ x \in owners[k].textures /\ x.created = "yes"
  <2>1. \A k \in DOMAIN owners : owners[k].textures \subseteq Textures
    BY <1>t DEF WeaponTypes, OwnerStates
  <2>2. \A x \in T : \E k \in DOMAIN owners :
          k \in tokens /\ x \in owners[k].textures /\ x.created = "yes"
    BY DEF RetiredTextures, Created
  <2> HIDE DEF T
  <2> QED
    BY <2>1, <2>2
<1> HIDE DEF T
<1>4. /\ DOMAIN others \subseteq DOMAIN owners
      /\ \A k \in DOMAIN owners : \A x \in owners[k].textures :
           x \in T \/ (k \in DOMAIN others /\ x \in others[k].textures)
      /\ \A k \in DOMAIN owners : \A x \in owners[k].textures :
           x.created = "no" => k \in DOMAIN others /\ x \in others[k].textures
      /\ \A k \in DOMAIN others : others[k].textures \subseteq owners[k].textures
      /\ \A k \in DOMAIN others : k \in tokens => Created(others[k]) = {}
  BY <1>t, RetireOwners DEF T
<1>5. \A x : Current(x)' <=> Current(x)
  BY DEF Current
<1>6. \A k \in DOMAIN owners' : \A x \in owners'[k].textures :
        k \in DOMAIN owners /\ x \in owners[k].textures /\ k \in DOMAIN others /\ x \in others[k].textures
  BY <1>4
<1>7. OwnedInv' /\ SlotInv' /\ \A i \in Handles : Owned(i)' => Owned(i)
  <2>1. \A k \in DOMAIN owners' : owners'[k].textures # {} =>
           k \in DOMAIN owners /\ owners'[k].textures \subseteq owners[k].textures
    BY <1>6
  <2>2. \A u \in Threads : \/ thread'[u] = thread[u]
                           \/ thread'[u].at \notin {"reserved", "creating", "created", "failed", "claimed"}
    BY <1>1
  <2>3. ASSUME NEW k \in DOMAIN owners, NEW x \in owners[k].textures, x.created = "no",
               NEW u \in Threads, Creating(u), thread[u].token = k, thread[u].handle = x.handle
        PROVE  IF k \in DOMAIN owners' /\ x \in owners'[k].textures
               THEN thread'[u] = thread[u] ELSE ~Creating(u)'
    <3>1. u # t
      BY <1>2, <2>3 DEF Creating
    <3>2. k \in DOMAIN owners' /\ x \in owners'[k].textures
      BY <1>4, <2>3
    <3> QED
      BY <1>1, <3>1, <3>2
  <2> QED
    BY <1>t, <2>1, <2>2, <2>3, OwnersShrink
<1>8. \A i \in Handles : Owned(i)' <=> Owned(i) /\ ~(\E x \in T : x.handle = i /\ Current(x))
  <2>1. ASSUME NEW i \in Handles, Owned(i)', NEW x \in T, x.handle = i, Current(x)
        PROVE  FALSE
    <3>1. PICK k \in DOMAIN owners' : \E y \in owners'[k].textures : y.handle = i /\ Current(y)
      BY <1>5, <2>1 DEF Owned
    <3>2. PICK y \in owners'[k].textures : y.handle = i /\ Current(y)
      BY <3>1
    <3>3. y \in owners[k].textures /\ k \in DOMAIN owners /\ k \in DOMAIN others /\ y \in others[k].textures
      BY <1>6, <3>2
    <3>4. PICK j \in DOMAIN owners : j \in tokens /\ x \in owners[j].textures /\ x.created = "yes"
      BY <1>3, <2>1
    <3>5. k = j /\ y = x
      BY <1>t, <2>1, <3>2, <3>3, <3>4 DEF OwnedInv
    <3>6. y \in Created(others[k])
      BY <3>3, <3>4, <3>5 DEF Created
    <3> QED
      BY <1>4, <3>3, <3>4, <3>5, <3>6
  <2>2. ASSUME NEW i \in Handles, Owned(i), ~(\E x \in T : x.handle = i /\ Current(x))
        PROVE  Owned(i)'
    <3>1. PICK k \in DOMAIN owners : \E x \in owners[k].textures : x.handle = i /\ Current(x)
      BY <2>2 DEF Owned
    <3>2. PICK x \in owners[k].textures : x.handle = i /\ Current(x)
      BY <3>1
    <3>3. k \in DOMAIN owners' /\ x \in owners'[k].textures
      BY <1>4, <2>2, <3>2
    <3> QED
      BY <1>5, <3>2, <3>3 DEF Owned
  <2> QED
    BY <1>7, <2>1, <2>2
<1>9. CountInv' /\ owner_counts' \in [Handles -> Nat]
  <2>1. \A x \in T : \E k \in DOMAIN owners : x \in owners[k].textures
    BY <1>3
  <2>2. owner_counts' = Unreferenced(owner_counts, T)
    BY DEF T
  <2> QED
    BY <1>t, <1>3, <1>8, <2>1, <2>2, CountsDrop
<1>10. ClaimInv'
  <2>1. ~Releases(t) /\ s.at \notin {"claimed", "released"}
    BY <1>2 DEF Releases
  <2> QED
    BY <1>t, <2>1, ClaimsKept DEF WeaponTypes
<1>11. OrphanInv'
  <2> SUFFICES ASSUME NEW i \in Handles, slot[i] = "live", ~Owned(i)'
               PROVE  \E u \in Threads : Holds(u, i)'
    BY DEF OrphanInv
  <2>1. CASE Owned(i)
    <3>1. PICK x \in T : x.handle = i /\ Current(x)
      BY <1>8, <2>1
    <3>2. Holds(t, i)'
      BY <3>1 DEF T
    <3> QED
      BY <3>2
  <2>2. CASE ~Owned(i)
    <3>1. PICK u \in Threads : Holds(u, i)
      BY <1>t, <2>2 DEF OrphanInv
    <3>2. u # t
      BY <1>2, <3>1 DEF Holds
    <3> QED
      BY <1>t, <3>1, <3>2, OthersHold
  <2> QED
    BY <2>1, <2>2
<1> QED
  BY <1>7, <1>9, <1>10, <1>11

\* begin: the new owner has nothing yet, the earlier one of the resource is retired.
LEMMA BeginAction ==
  ASSUME WeaponInv, NEW t \in Threads, NEW r \in Resources, BeginConstruct(t, r)
  PROVE  WeaponInv'
<1>t. WeaponTypes /\ ThreadInv /\ ConstructInv /\ OwnedInv /\ CountInv /\ SlotInv /\ ClaimInv /\ OrphanInv
  BY DEF WeaponInv
<1> DEFINE token == next_owner + 1
           earlier == {resources[r]} \ {0}
           T == RetiredTextures(earlier)
           owner == [resource |-> r, constructing |-> TRUE, life |-> "live", textures |-> {}]
           others == remove_finished(Retired(earlier))
           s == [Resting EXCEPT !.at = "building", !.token = token, !.retired = T]
<1>1. /\ thread[t] = Resting /\ next_owner' = token /\ Do(t, s)
      /\ owners' = [k \in DOMAIN others \cup {token} |-> IF k = token THEN owner ELSE others[k]]
      /\ owner_counts' = Unreferenced(owner_counts, RetiredTextures(earlier))
      /\ resources' = [resources EXCEPT ![r] = token]
      /\ UNCHANGED <<slot, generations, next_generation, next_release, releasing>>
  BY DEF BeginConstruct
<1> HIDE DEF earlier
<1>2. /\ DOMAIN others \subseteq DOMAIN owners /\ others \in [DOMAIN others -> OwnerStates]
      /\ \A k \in DOMAIN others : /\ others[k].constructing = owners[k].constructing
                                  /\ others[k].life = "retired" =>
                                       owners[k].constructing /\ Created(others[k]) = {}
      /\ \A k \in DOMAIN owners : owners[k].constructing => k \in DOMAIN others
  BY <1>t, RetireOwners
<1>3. T \subseteq Textures
  BY <1>t DEF WeaponTypes, OwnerStates, RetiredTextures, Created
<1> HIDE DEF others, T
<1>4. token \in Nat /\ token \notin DOMAIN owners /\ \A k \in DOMAIN owners : k \in 1 .. token
  BY <1>t DEF WeaponTypes
<1>5. /\ s \in ThreadStates /\ s.at = "building" /\ s.token = token /\ s.bank = {} /\ s.retired = T
      /\ s.back = "idle"
  BY <1>3, <1>4, RestingState DEF ThreadStates
<1>6. /\ thread'[t] = s /\ \A u \in Threads : u # t => thread'[u] = thread[u]
      /\ thread' \in [Threads -> ThreadStates]
  BY <1>t, <1>1, <1>5, Effect
<1>7. thread[t].at = "idle" /\ thread[t].back = "idle"
  BY <1>1, RestingState
<1> HIDE DEF s, token
<1>8. /\ owner \in OwnerStates /\ owner.textures = {} /\ owner.life = "live" /\ owner.constructing = TRUE
  BY DEF OwnerStates
<1> HIDE DEF owner
<1>9. /\ DOMAIN owners' = DOMAIN others \cup {token} /\ owners'[token] = owner
      /\ \A k \in DOMAIN others : owners'[k] = others[k]
      /\ owners' = [k \in DOMAIN owners' |-> owners'[k]]
  BY <1>1, <1>2, <1>4
<1>10. OwnedInv' /\ SlotInv' /\ CountInv' /\ ClaimInv' /\ OrphanInv' /\ owner_counts' \in [Handles -> Nat]
  <2>1. \A k \in DOMAIN others : k \in DOMAIN owners' /\ owners'[k] = others[k]
    BY <1>9
  <2>2. \A k \in DOMAIN owners' : k \notin DOMAIN others =>
           owners'[k].textures = {} /\ k \notin DOMAIN owners
    BY <1>4, <1>8, <1>9
  <2>3. \A i \in Handles : \A x \in RetiredTextures(earlier) :
          x.handle = i /\ Current(x) => Holds(t, i)'
    BY <1>1, <1>5, <1>6 DEF Holds, T, Current
  <2>4. others = remove_finished(Retired(earlier))
    BY DEF others
  <2>5. /\ thread[t] = Resting /\ Do(t, s) /\ s \in ThreadStates /\ s.at \in {"building", "releasing"}
        /\ owner_counts' = Unreferenced(owner_counts, RetiredTextures(earlier))
        /\ UNCHANGED <<slot, generations, next_generation, next_release, releasing>>
    BY <1>1, <1>5
  <2> QED
    BY <2>1, <2>2, <2>3, <2>4, <2>5, RetireAction
<1>11. WeaponTypes'
  <2>1. owners' \in [DOMAIN owners' -> OwnerStates]
    <3>1. \A k \in DOMAIN owners' : owners'[k] \in OwnerStates
      BY <1>2, <1>8, <1>9
    <3> QED
      BY <1>9, <3>1
  <2>2. DOMAIN owners' \subseteq 1 .. token
    <3>1. token \in 1 .. token
      BY <1>t DEF token, WeaponTypes
    <3> QED
      BY <1>2, <1>4, <1>9, <3>1
  <2>3. resources' \in [Resources -> Nat]
    BY <1>t, <1>1, <1>4 DEF WeaponTypes
  <2> QED
    BY <1>t, <1>1, <1>4, <1>6, <1>10, <2>1, <2>2, <2>3 DEF WeaponTypes
<1>12. ThreadInv'
  BY <1>t, <1>5, <1>6 DEF ThreadInv, Making, Creating, Releases
<1>13. ConstructInv'
  <2>1. \A u \in Threads : Constructs(u)' <=> Constructs(u) \/ u = t
    BY <1>5, <1>6 DEF Constructs
  <2>2. ~Constructs(t)
    BY <1>7 DEF Constructs
  <2>3. \A u \in Threads : u # t /\ Constructs(u) =>
          /\ thread[u].token \in DOMAIN others /\ thread[u].token # token
          /\ owners[thread[u].token].constructing
    BY <1>t, <1>2, <1>4 DEF ConstructInv
  <2>4. \A u \in Threads : Constructs(u)' =>
          thread'[u].token \in DOMAIN owners' /\ owners'[thread'[u].token].constructing
    <3> SUFFICES ASSUME NEW u \in Threads, Constructs(u)'
                 PROVE  thread'[u].token \in DOMAIN owners' /\ owners'[thread'[u].token].constructing
      OBVIOUS
    <3>1. CASE u = t
      BY <1>5, <1>6, <1>8, <1>9, <3>1
    <3>2. CASE u # t
      BY <1>2, <1>6, <1>9, <2>1, <2>3, <3>2
    <3> QED
      BY <3>1, <3>2
  <2>5. \A u, v \in Threads : Constructs(u)' /\ Constructs(v)' /\ thread'[u].token = thread'[v].token => u = v
    BY <1>t, <1>5, <1>6, <2>1, <2>3 DEF ConstructInv
  <2>6. ASSUME NEW k \in DOMAIN owners'
        PROVE  /\ owners'[k].constructing => \E u \in Threads : Constructs(u)' /\ thread'[u].token = k
               /\ owners'[k].life = "retired" => owners'[k].constructing /\ Created(owners'[k]) = {}
    <3>1. CASE k = token
      BY <1>5, <1>6, <1>8, <1>9, <2>1, <3>1
    <3>2. CASE k \in DOMAIN others
      <4>1. owners'[k] = others[k] /\ k \in DOMAIN owners
        BY <1>2, <1>9, <3>2
      <4>2. owners[k].constructing => \E u \in Threads : u # t /\ Constructs(u) /\ thread[u].token = k
        BY <1>t, <2>2, <4>1 DEF ConstructInv
      <4>3. owners[k].constructing => \E u \in Threads : Constructs(u)' /\ thread'[u].token = k
        BY <1>6, <2>1, <4>2
      <4> QED
        BY <1>2, <3>2, <4>1, <4>3
    <3> QED
      BY <1>9, <3>1, <3>2
  <2> QED
    BY <2>4, <2>5, <2>6 DEF ConstructInv
<1> QED
  BY <1>10, <1>11, <1>12, <1>13 DEF WeaponInv

\* free_resource, free_all and free_renderer.
LEMMA CleanupAction ==
  ASSUME WeaponInv, NEW t \in Threads, NEW tokens, NEW bank \in SUBSET Handles, NEW retired,
         retired = RetiredTextures(tokens) \/ (retired = {} /\ bank = Handles),
         Cleanup(t, tokens, bank, retired), resources' \in [Resources -> Nat]
  PROVE  WeaponInv'
<1>t. WeaponTypes /\ ThreadInv /\ ConstructInv /\ OwnedInv /\ CountInv /\ SlotInv /\ ClaimInv /\ OrphanInv
  BY DEF WeaponInv
<1> DEFINE items == {[handle |-> h] : h \in bank}
           others == remove_finished(Retired(tokens))
           s == [Resting EXCEPT !.at = "releasing", !.bank = items, !.retired = retired]
<1>1. /\ thread[t] = Resting /\ Do(t, s) /\ owners' = others
      /\ owner_counts' = Unreferenced(owner_counts, RetiredTextures(tokens))
      /\ UNCHANGED <<slot, generations, next_generation, next_owner, next_release, releasing>>
  BY DEF Cleanup, counters
<1>2. /\ DOMAIN others \subseteq DOMAIN owners /\ others \in [DOMAIN others -> OwnerStates]
      /\ \A k \in DOMAIN others : /\ others[k].constructing = owners[k].constructing
                                  /\ others[k].life = "retired" =>
                                       owners[k].constructing /\ Created(others[k]) = {}
      /\ \A k \in DOMAIN owners : owners[k].constructing => k \in DOMAIN others
  BY <1>t, RetireOwners
<1>3. RetiredTextures(tokens) \subseteq Textures /\ items \subseteq Items
  <2>1. RetiredTextures(tokens) \subseteq Textures
    BY <1>t DEF WeaponTypes, OwnerStates, RetiredTextures, Created
  <2> QED
    BY <2>1, ItemForm
<1> HIDE DEF others
<1>4. /\ s \in ThreadStates /\ s.at = "releasing" /\ s.bank = items /\ s.retired = retired /\ s.back = "idle"
  BY <1>3, RestingState DEF ThreadStates
<1>5. /\ thread'[t] = s /\ \A u \in Threads : u # t => thread'[u] = thread[u]
      /\ thread' \in [Threads -> ThreadStates]
  BY <1>t, <1>1, <1>4, Effect
<1>6. thread[t].at = "idle" /\ thread[t].back = "idle"
  BY <1>1, RestingState
<1> HIDE DEF s
<1>7. OwnedInv' /\ SlotInv' /\ CountInv' /\ ClaimInv' /\ OrphanInv' /\ owner_counts' \in [Handles -> Nat]
  <2>1. \A k \in DOMAIN others : k \in DOMAIN owners' /\ owners'[k] = others[k]
    BY <1>1
  <2>2. \A k \in DOMAIN owners' : k \notin DOMAIN others =>
           owners'[k].textures = {} /\ k \notin DOMAIN owners
    BY <1>1
  <2>3. ASSUME NEW i \in Handles, NEW x \in RetiredTextures(tokens), x.handle = i, Current(x)
        PROVE  Holds(t, i)'
    <3>1. CASE retired = RetiredTextures(tokens)
      BY <1>1, <1>4, <1>5, <2>3, <3>1 DEF Holds, Current
    <3>2. CASE bank = Handles
      <4>1. [handle |-> i] \in thread'[t].bank
        BY <1>4, <1>5, <3>2
      <4>2. HandleOf([handle |-> i]) = i /\ "texture" \notin DOMAIN [handle |-> i]
        BY ItemForm
      <4> QED
        BY <4>1, <4>2 DEF Holds
    <3> QED
      BY <3>1, <3>2
  <2>4. others = remove_finished(Retired(tokens))
    BY DEF others
  <2> QED
    BY <1>1, <1>4, <2>1, <2>2, <2>3, <2>4, RetireAction
<1>8. WeaponTypes'
  <2>1. DOMAIN owners' \subseteq 1 .. next_owner
    BY <1>t, <1>1, <1>2 DEF WeaponTypes
  <2> QED
    BY <1>t, <1>1, <1>2, <1>5, <1>7, <2>1 DEF WeaponTypes
<1>9. ThreadInv'
  BY <1>t, <1>4, <1>5 DEF ThreadInv, Making, Creating, Releases
<1>10. ConstructInv'
  <2>1. \A u \in Threads : /\ Constructs(u)' <=> Constructs(u)
                           /\ Constructs(u) => u # t /\ thread'[u] = thread[u]
    BY <1>4, <1>5, <1>6 DEF Constructs
  <2>2. \A k \in DOMAIN owners' : k \in DOMAIN owners /\ owners'[k].constructing = owners[k].constructing
    BY <1>1, <1>2
  <2>3. \A k \in DOMAIN owners' : owners'[k].life = "retired" =>
          owners[k].constructing /\ Created(owners'[k]) = {}
    BY <1>1, <1>2
  <2>4. \A k \in DOMAIN owners : owners[k].constructing => k \in DOMAIN owners'
    BY <1>1, <1>2
  <2>5. \A u \in Threads : Constructs(u)' =>
          thread'[u].token \in DOMAIN owners' /\ owners'[thread'[u].token].constructing
    BY <1>t, <2>1, <2>2, <2>4 DEF ConstructInv
  <2>6. \A u, v \in Threads : Constructs(u)' /\ Constructs(v)' /\ thread'[u].token = thread'[v].token => u = v
    BY <1>t, <2>1 DEF ConstructInv
  <2>7. ASSUME NEW k \in DOMAIN owners', owners'[k].constructing
        PROVE  \E u \in Threads : Constructs(u)' /\ thread'[u].token = k
    <3>1. PICK u \in Threads : Constructs(u) /\ thread[u].token = k
      BY <1>t, <2>2, <2>7 DEF ConstructInv
    <3> QED
      BY <2>1, <3>1
  <2>8. \A k \in DOMAIN owners' : owners'[k].life = "retired" => owners'[k].constructing
    BY <2>2, <2>3
  <2> QED
    BY <2>3, <2>5, <2>6, <2>7, <2>8 DEF ConstructInv
<1> QED
  BY <1>7, <1>8, <1>9, <1>10 DEF WeaponInv

\* Nothing is created and nobody is at work.
LEMMA WeaponInit == TextureInit => WeaponInv
<1> SUFFICES ASSUME TextureInit PROVE WeaponInv
  OBVIOUS
<1>1. DOMAIN owners = {} /\ owners = [k \in {} |-> 0] /\ owners \in [{} -> OwnerStates]
  BY DEF TextureInit
<1>2. \A t \in Threads : thread[t] = Resting
  BY DEF TextureInit
<1>3. \A t \in Threads : /\ ~Making(t) /\ ~Creating(t) /\ ~Releases(t) /\ ~Constructs(t)
                         /\ thread[t].at = "idle"
  BY <1>2, RestingState DEF Making, Creating, Releases, Constructs
<1>4. NoClaim \in Claims /\ NoClaim.identity = 0
  BY DEF NoClaim, Claims
<1>5. WeaponTypes
  <2>1. thread \in [Threads -> ThreadStates]
    BY RestingState DEF TextureInit
  <2>2. slot \in [Handles -> {"free", "reserved", "live"}] /\ generations \in [Handles -> Nat]
        /\ owner_counts \in [Handles -> Nat] /\ resources \in [Resources -> Nat]
        /\ releasing \in [Handles -> Claims]
    BY <1>4 DEF TextureInit
  <2> QED
    BY <1>1, <2>1, <2>2 DEF WeaponTypes, TextureInit
<1>6. ThreadInv
  BY <1>2, <1>3 DEF ThreadInv
<1>7. ConstructInv
  BY <1>1, <1>3 DEF ConstructInv
<1>8. OwnedInv
  BY <1>1 DEF OwnedInv, TextureInit
<1>9. \A h \in Handles : ~Owned(h)
  BY <1>1 DEF Owned
<1>10. CountInv
  BY <1>9 DEF CountInv, TextureInit
<1>11. SlotInv
  BY <1>3, <1>9 DEF SlotInv, TextureInit
<1>12. ClaimInv
  BY <1>3, <1>4 DEF ClaimInv, TextureInit
<1>13. OrphanInv
  BY DEF OrphanInv, TextureInit
<1> QED
  BY <1>5, <1>6, <1>7, <1>8, <1>10, <1>11, <1>12, <1>13 DEF WeaponInv

\* Every step keeps the invariant.
LEMMA WeaponStep == WeaponInv /\ [TextureNext]_textureVars => WeaponInv'
<1> SUFFICES ASSUME WeaponInv, [TextureNext]_textureVars PROVE WeaponInv'
  OBVIOUS
<1>r. resources \in [Resources -> Nat]
  BY DEF WeaponInv, WeaponTypes
<1>1. CASE UNCHANGED textureVars
  BY <1>1 DEF textureVars, WeaponInv, WeaponTypes, ThreadInv, ConstructInv, OwnedInv, CountInv, SlotInv,
              ClaimInv, OrphanInv, Making, Creating, Releases, Constructs, Current, Owned, Holds
<1>2. ASSUME NEW t \in Threads, NEW r \in Resources, BeginConstruct(t, r) PROVE WeaponInv'
  BY <1>2, BeginAction
<1>3. ASSUME NEW t \in Threads, NEW h \in Handles, ReserveTexture(t, h) PROVE WeaponInv'
  BY <1>3, ReserveAction
<1>4. ASSUME NEW t \in Threads,
             Pending(t) \/ NativeCreate(t) \/ PublishTexture(t) \/ Unpublished(t) \/ ConstructReturns(t)
      PROVE  WeaponInv'
  BY <1>4, PendingAction, NativeCreateAction, PublishAction, UnpublishedAction, ConstructReturnsAction
<1>5. ASSUME NEW t \in Threads, NEW r \in Resources, NEW bank \in SUBSET Handles, FreeResource(t, r, bank)
      PROVE  WeaponInv'
  <2>1. PICK tokens : Cleanup(t, tokens, bank, RetiredTextures(tokens)) /\ resources' = [resources EXCEPT ![r] = 0]
    BY <1>5 DEF FreeResource
  <2>2. resources' \in [Resources -> Nat]
    BY <1>r, <2>1
  <2> QED
    BY <2>1, <2>2, CleanupAction
<1>6. ASSUME NEW t \in Threads, NEW bank \in SUBSET Handles, FreeAll(t, bank) PROVE WeaponInv'
  <2>1. Cleanup(t, DOMAIN owners, bank, RetiredTextures(DOMAIN owners)) /\ resources' = [r \in Resources |-> 0]
    BY <1>6 DEF FreeAll
  <2>2. resources' \in [Resources -> Nat]
    BY <2>1
  <2> QED
    BY <2>1, <2>2, CleanupAction
<1>7. ASSUME NEW t \in Threads, FreeRenderer(t) PROVE WeaponInv'
  <2>1. Cleanup(t, DOMAIN owners, Handles, {}) /\ resources' = [r \in Resources |-> 0]
    BY <1>7 DEF FreeRenderer
  <2>2. resources' \in [Resources -> Nat] /\ Handles \in SUBSET Handles
    BY <2>1
  <2> QED
    BY <2>1, <2>2, CleanupAction
<1>8. ASSUME NEW t \in Threads, NEW item, PrepareRelease(t, item) PROVE WeaponInv'
  BY <1>8, PrepareAction
<1>9. ASSUME NEW t \in Threads, NativeRelease(t) \/ FinishRelease(t) \/ ReleaseDone(t) PROVE WeaponInv'
  BY <1>9, NativeReleaseAction, FinishReleaseAction, ReleaseDoneAction
<1> QED
  BY <1>1, <1>2, <1>3, <1>4, <1>5, <1>6, <1>7, <1>8, <1>9 DEF TextureNext

\* The textures of weapons keep their invariant: of a handle's textures one is current and has one
\* owner, the count says so, and what no owner has is with a thread that will release it
\* (weapon_textures.rs Ownership).
THEOREM WeaponInvariant == TextureSpec => []WeaponInv
<1>1. TextureInit => WeaponInv
  BY WeaponInit
<1>2. WeaponInv /\ [TextureNext]_textureVars => WeaponInv'
  BY WeaponStep
<1> QED
  BY <1>1, <1>2, PTL DEF TextureSpec

\* What the invariant means for the game, and for a moment without calls.
LEMMA WeaponMeaning == WeaponInv => LiveWeaponKeepsTextures
<1> SUFFICES ASSUME WeaponInv PROVE LiveWeaponKeepsTextures
  OBVIOUS
<1>t. WeaponTypes /\ ThreadInv /\ ConstructInv /\ OwnedInv /\ CountInv /\ SlotInv /\ ClaimInv /\ OrphanInv
  BY DEF WeaponInv
<1>1. ASSUME NEW k \in DOMAIN owners, NEW texture \in Created(owners[k])
      PROVE  Current(texture) /\ slot[texture.handle] = "live" /\ Protects(texture.handle)
  <2>1. texture \in owners[k].textures /\ texture.created = "yes"
    BY DEF Created
  <2>2. Current(texture) /\ slot[texture.handle] = "live"
    BY <1>t, <2>1 DEF OwnedInv
  <2>3. texture.handle \in Handles
    BY <1>t, <2>1 DEF WeaponTypes, OwnerStates, Textures
  <2>4. Owned(texture.handle)
    BY <2>1, <2>2 DEF Owned
  <2> QED
    BY <1>t, <2>2, <2>3, <2>4, ProtectsOwned
<1>2. ASSUME NEW t \in Threads, thread[t].at = "claimed"
      PROVE  /\ slot[thread[t].handle] = "live"
             /\ generations[thread[t].handle] = thread[t].claim.generation
             /\ \A u \in Threads \ {t} : thread[u].at = "claimed" => thread[u].handle # thread[t].handle
  BY <1>t, <1>2 DEF ClaimInv, Releases
<1>3. ASSUME \A t \in Threads : thread[t] = Resting
      PROVE  /\ \A h \in Handles : slot[h] = "live" <=> Protects(h)
             /\ \A k \in DOMAIN owners : owners[k].life = "live"
             /\ \A h \in Handles : owner_counts[h] = References(owners, h)
  <2>1. \A t \in Threads : /\ ~Creating(t) /\ ~Constructs(t) /\ \A h \in Handles : ~Holds(t, h)
    BY <1>3, RestingState DEF Creating, Constructs, Holds
  <2>2. \A k \in DOMAIN owners : \A x \in owners[k].textures : x.created = "yes" /\ x.handle \in Handles
    <3>1. \A k \in DOMAIN owners : owners[k].textures \subseteq Textures
      BY <1>t DEF WeaponTypes, OwnerStates
    <3>2. \A k \in DOMAIN owners : \A x \in owners[k].textures : x.created # "no"
      BY <1>t, <2>1 DEF OwnedInv
    <3> QED
      BY <3>1, <3>2 DEF Textures
  <2>3. \A h \in Handles : Owned(h) <=> slot[h] = "live"
    <3>1. \A h \in Handles : Owned(h) => slot[h] = "live"
      BY <1>t, <2>2 DEF Owned, OwnedInv
    <3>2. \A h \in Handles : slot[h] = "live" => Owned(h)
      BY <1>t, <2>1 DEF OrphanInv
    <3> QED
      BY <3>1, <3>2
  <2>4. \A k \in DOMAIN owners : owners[k].life = "live"
    <3>1. \A k \in DOMAIN owners : owners[k].life \in {"live", "retired"}
      BY <1>t DEF WeaponTypes, OwnerStates
    <3>2. \A k \in DOMAIN owners : owners[k].life # "retired"
      BY <1>t, <2>1 DEF ConstructInv
    <3> QED
      BY <3>1, <3>2
  <2>5. ASSUME NEW h \in Handles PROVE owner_counts[h] = References(owners, h)
    <3> DEFINE S == {k \in DOMAIN owners : \E x \in owners[k].textures : x.handle = h /\ Current(x)}
    <3>1. References(owners, h) = Cardinality(S)
      BY DEF References
    <3>2. CASE Owned(h)
      <4>1. PICK k \in S : TRUE
        BY <3>2 DEF Owned
      <4>2. \A j \in S : j = k
        BY <1>t, <4>1 DEF OwnedInv
      <4>3. \E a \in S : \A b \in S : b = a
        BY <4>1, <4>2
      <4> HIDE DEF S
      <4>4. Cardinality(S) = 1
        BY <4>3, NoneOrOne
      <4> QED
        BY <1>t, <3>1, <3>2, <4>4 DEF CountInv
    <3>3. CASE ~Owned(h)
      <4>1. S = {}
        BY <3>3 DEF Owned
      <4> HIDE DEF S
      <4>2. Cardinality(S) = 0
        BY <4>1, NoneOrOne
      <4> QED
        BY <1>t, <3>1, <3>3, <4>2 DEF CountInv
    <3> QED
      BY <3>2, <3>3
  <2>6. \A h \in Handles : slot[h] = "live" <=> Protects(h)
    BY <1>t, <2>3, ProtectsOwned
  <2> QED
    BY <2>4, <2>5, <2>6
<1> QED
  BY <1>1, <1>2, <1>3 DEF LiveWeaponKeepsTextures

\* A texture of a living weapon stays in its slot, one that is released was claimed by one thread
\* and is still the one that was claimed, and with no call under way nothing is left over
\* (weapon_textures.rs protects, prepare_release, finish_release, retire, remove_finished).
THEOREM LiveWeaponsKeepTheirTextures == TextureSpec => []LiveWeaponKeepsTextures
<1> QED
  BY WeaponInvariant, WeaponMeaning, PTL
===============================================================================
