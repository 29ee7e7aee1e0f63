--------------------------- MODULE WeaponTextures ---------------------------
(***************************************************************************)
(* Who owns the textures of weapons: mods/geometry/src/weapon_textures.rs  *)
(* (Ownership, behind a mutex) and the hooks of native/weapon_textures.rs  *)
(* that call it.  The game keeps the handles of textures in banks that     *)
(* overlap, so the cleanup of one weapon may release handles of another.   *)
(* The hooks record which textures a constructor creates for a weapon and  *)
(* refuse to release them while the weapon lives; when it goes they        *)
(* release what the game's own cleanup missed.                             *)
(*                                                                         *)
(* Native calls run without the mutex and other threads run meanwhile: an  *)
(* action is a critical section or a native step.  Handles are used again; *)
(* every COM object has the same address, the worst case for the checks.   *)
(* External: reserving a slot, creating and releasing the object.  Left    *)
(* out: textures that belong to no weapon, wrapping of the 64-bit counters, *)
(* panics, logging.                                                        *)
(***************************************************************************)
EXTENDS Naturals, FiniteSets

CONSTANTS
  Threads,
  Handles,
  Resources,        \* the weapons' resource slots
  MaxGeneration,    \* bound: reservations of handles
  MaxOwner          \* bound: constructions

VARIABLES
  slot,             \* of the game, by handle: free, reserved or live
  generations,      \* of the last reservation of each handle
  owner_counts,     \* references of owners to that generation
  next_generation, next_owner, next_release,
  owners,           \* by token
  resources,        \* the token of each resource, 0 if none
  releasing,        \* the claim on each handle, or NoClaim
  thread            \* what each thread is doing

textureVars == <<slot, generations, owner_counts, next_generation, next_owner,
                 next_release, owners, resources, releasing, thread>>
counters == <<next_generation, next_owner, next_release>>

Tokens == 1 .. MaxOwner
Texture == [handle : Handles, generation : 1 .. MaxGeneration, created : {"no", "yes"}]
NoClaim == [generation |-> 0, identity |-> 0]

(* What a thread does: at is where it is, token its CONSTRUCTING, handle    *)
(* and claim those of the call under way, bank the handles that a native    *)
(* cleanup still goes through, retired the textures it releases after that, *)
(* back where it goes on then.                                              *)
Resting == [at |-> "idle", token |-> 0, handle |-> 0, claim |-> NoClaim,
            bank |-> {}, retired |-> {}, back |-> "idle"]
Do(t, state) == thread' = [thread EXCEPT ![t] = state]

TextureInit ==
  /\ slot = [h \in Handles |-> "free"]
  /\ generations = [h \in Handles |-> 0] /\ owner_counts = [h \in Handles |-> 0]
  /\ next_generation = 0 /\ next_owner = 0 /\ next_release = 0
  /\ owners = [k \in {} |-> 0]
  /\ resources = [r \in Resources |-> 0]
  /\ releasing = [h \in Handles |-> NoClaim]
  /\ thread = [t \in Threads |-> Resting]

-----------------------------------------------------------------------------
Current(texture) == generations[texture.handle] = texture.generation

References(owned, h) ==
  Cardinality({k \in DOMAIN owned :
     \E texture \in owned[k].textures : texture.handle = h /\ Current(texture)})

(* Mutant: the texture that has the handle now loses the reference.         *)
UnreferencedByHandle(counts, textures) ==
  [h \in Handles |-> IF \E x \in textures : x.handle = h /\ counts[h] > 0
                     THEN counts[h] - 1 ELSE counts[h]]

(* remove_texture_reference for a set of textures of one owner.             *)
Unreferenced(counts, textures) ==
  [h \in Handles |-> counts[h] - Cardinality({x \in textures : x.handle = h /\ Current(x)})]

Finished(owner) == owner.life = "retired" /\ ~owner.constructing /\ owner.textures = {}
remove_finished(owned) ==
  [k \in {j \in DOMAIN owned : ~Finished(owned[j])} |-> owned[k]]

Created(owner) == {texture \in owner.textures : texture.created = "yes"}

(* Mutant: a texture under creation is given up with the rest.              *)
RetiredWhole(tokens) ==
  [k \in DOMAIN owners |->
     IF k \in tokens THEN [owners[k] EXCEPT !.life = "retired", !.textures = {}] ELSE owners[k]]

(* retire: what is under creation stays protected until it is complete.     *)
Retired(tokens) ==
  [k \in DOMAIN owners |->
     IF k \in tokens THEN [owners[k] EXCEPT !.life = "retired", !.textures = @ \ Created(owners[k])]
     ELSE owners[k]]
RetiredTextures(tokens) == UNION {Created(owners[k]) : k \in tokens \intersect DOMAIN owners}

Protects(h) ==
  /\ owner_counts[h] > 0
  /\ \E k \in DOMAIN owners : \E texture \in owners[k].textures :
       texture.handle = h /\ Current(texture)

-----------------------------------------------------------------------------
(* construct: begin; an earlier owner of the resource is retired.           *)
BeginConstruct(t, r) ==
  LET token == next_owner + 1
      earlier == {resources[r]} \ {0}
      owner == [resource |-> r, constructing |-> TRUE, life |-> "live", textures |-> {}]
      others == remove_finished(Retired(earlier))
  IN /\ thread[t] = Resting /\ next_owner < MaxOwner
     /\ next_owner' = token
     /\ owners' = [k \in DOMAIN others \union {token} |-> IF k = token THEN owner ELSE others[k]]
     /\ owner_counts' = Unreferenced(owner_counts, RetiredTextures(earlier))
     /\ resources' = [resources EXCEPT ![r] = token]
     /\ Do(t, [Resting EXCEPT !.at = "building", !.token = token, !.retired = RetiredTextures(earlier)])
     /\ UNCHANGED <<slot, generations, next_generation, next_release, releasing>>

(* reserve_texture: a free slot, under a new generation.                    *)
ReserveTexture(t, h) ==
  /\ thread[t].at = "building" /\ slot[h] = "free" /\ next_generation < MaxGeneration
  /\ slot' = [slot EXCEPT ![h] = "reserved"]
  /\ next_generation' = next_generation + 1
  /\ generations' = [generations EXCEPT ![h] = next_generation + 1]
  /\ owner_counts' = [owner_counts EXCEPT ![h] = 0]
  /\ releasing' = [releasing EXCEPT ![h] = NoClaim]
  /\ Do(t, [thread[t] EXCEPT !.at = "reserved", !.handle = h])
  /\ UNCHANGED <<next_owner, next_release, owners, resources>>

(* create_texture: the creation is registered before the native creator.    *)
Pending(t) ==
  LET me == thread[t]
      texture == [handle |-> me.handle, generation |-> generations[me.handle], created |-> "no"]
  IN /\ me.at = "reserved"
     /\ owners' = [owners EXCEPT ![me.token].textures = @ \union {texture}]
     /\ owner_counts' = [owner_counts EXCEPT ![me.handle] = @ + 1]
     /\ Do(t, [me EXCEPT !.at = "creating"])
     /\ UNCHANGED <<slot, generations, counters, resources, releasing>>

(* The native creator puts the object in the slot, or fails and gives the   *)
(* slot back.                                                               *)
NativeCreate(t) ==
  /\ thread[t].at = "creating"
  /\ \E result \in {"live", "free"} :
       /\ slot' = [slot EXCEPT ![thread[t].handle] = result]
       /\ Do(t, [thread[t] EXCEPT !.at = IF result = "live" THEN "created" ELSE "failed"])
  /\ UNCHANGED <<generations, owner_counts, counters, owners, resources, releasing>>

PendingOf(me) ==
  {x \in owners[me.token].textures : x.handle = me.handle /\ x.created = "no"}
Completed(me) == {[x EXCEPT !.created = "yes"] : x \in PendingOf(me)}

(* created: the texture belongs to the owner now.                           *)
PublishTexture(t) ==
  LET me == thread[t] IN
  /\ me.at = "created" /\ owners[me.token].life = "live"
  /\ owners' = [owners EXCEPT ![me.token].textures = (@ \ PendingOf(me)) \union Completed(me)]
  /\ Do(t, [me EXCEPT !.at = "building", !.handle = 0])
  /\ UNCHANGED <<slot, generations, owner_counts, counters, resources, releasing>>

(* created: its owner was retired meanwhile, so the texture is released; or  *)
(* there is none.                                                           *)
Unpublished(t) ==
  LET me == thread[t] IN
  /\ \/ me.at = "created" /\ owners[me.token].life = "retired"
     \/ me.at = "failed"
  /\ owners' = remove_finished([owners EXCEPT ![me.token].textures = @ \ PendingOf(me)])
  /\ owner_counts' = Unreferenced(owner_counts, PendingOf(me))
  /\ Do(t, [me EXCEPT !.handle = 0,
                      !.at = IF me.at = "created" THEN "releasing" ELSE "building",
                      !.back = "building",
                      !.bank = IF me.at = "created" THEN {[texture |-> x] : x \in Completed(me)} ELSE {}])
  /\ UNCHANGED <<slot, generations, counters, resources, releasing>>

(* finish, then the textures of the earlier owner.                          *)
ConstructReturns(t) ==
  LET me == thread[t] IN
  /\ me.at = "building"
  /\ owners' = remove_finished([owners EXCEPT ![me.token].constructing = FALSE])
  /\ Do(t, [Resting EXCEPT !.at = "releasing", !.bank = {[texture |-> x] : x \in me.retired}])
  /\ UNCHANGED <<slot, generations, owner_counts, counters, resources, releasing>>

-----------------------------------------------------------------------------
(* free_resource, free_all and free_renderer: owners are retired, the       *)
(* game's own cleanup releases whatever its banks show, the retired         *)
(* textures follow.                                                         *)
Cleanup(t, tokens, bank, retired) ==
  /\ thread[t] = Resting
  /\ owners' = remove_finished(Retired(tokens))
  /\ owner_counts' = Unreferenced(owner_counts, RetiredTextures(tokens))
  /\ Do(t, [Resting EXCEPT !.at = "releasing", !.bank = {[handle |-> h] : h \in bank}, !.retired = retired])
  /\ UNCHANGED <<slot, generations, counters, releasing>>

FreeResource(t, r, bank) ==
  LET tokens == {resources[r]} \ {0} IN
  /\ Cleanup(t, tokens, bank, RetiredTextures(tokens))
  /\ resources' = [resources EXCEPT ![r] = 0]

FreeAll(t, bank) ==
  /\ Cleanup(t, DOMAIN owners, bank, RetiredTextures(DOMAIN owners))
  /\ resources' = [r \in Resources |-> 0]

(* The renderer goes through every handle, so nothing is left to follow.    *)
FreeRenderer(t) ==
  /\ Cleanup(t, DOMAIN owners, Handles, {})
  /\ resources' = [r \in Resources |-> 0]

-----------------------------------------------------------------------------
(* Release of one item of the bank: a handle, as the game names it, or a    *)
(* retired texture, which must still be the one it was.                     *)
HandleOf(item) == IF "handle" \in DOMAIN item THEN item.handle ELSE item.texture.handle

Claimable(item) ==
  /\ slot[HandleOf(item)] = "live" /\ ~Protects(HandleOf(item))
  /\ releasing[HandleOf(item)] = NoClaim
  /\ "texture" \in DOMAIN item => Current(item.texture)

(* prepare_release: protected or already being released, or claimed.        *)
PrepareRelease(t, item) ==
  LET me == thread[t]
      h == HandleOf(item)
      claim == [generation |-> generations[h], identity |-> next_release + 1]
  IN /\ me.at = "releasing" /\ item \in me.bank
     /\ IF Claimable(item)
        THEN /\ releasing' = [releasing EXCEPT ![h] = claim]
             /\ next_release' = next_release + 1
             /\ Do(t, [me EXCEPT !.at = "claimed", !.handle = h, !.claim = claim, !.bank = @ \ {item}])
        ELSE /\ Do(t, [me EXCEPT !.bank = @ \ {item}])
             /\ UNCHANGED <<releasing, next_release>>
     /\ UNCHANGED <<slot, generations, owner_counts, next_generation, next_owner, owners, resources>>

NativeRelease(t) ==
  /\ thread[t].at = "claimed"
  /\ slot' = [slot EXCEPT ![thread[t].handle] = "free"]
  /\ Do(t, [thread[t] EXCEPT !.at = "released"])
  /\ UNCHANGED <<generations, owner_counts, counters, owners, resources, releasing>>

(* Mutant: whatever claim there is now is taken for one's own.              *)
EndsAny(h, claim) == TRUE

Ends(h, claim) == releasing[h] = claim

FinishRelease(t) ==
  LET me == thread[t] IN
  /\ me.at = "released"
  /\ releasing' = IF Ends(me.handle, me.claim) THEN [releasing EXCEPT ![me.handle] = NoClaim] ELSE releasing
  /\ Do(t, [me EXCEPT !.at = "releasing", !.handle = 0, !.claim = NoClaim])
  /\ UNCHANGED <<slot, generations, owner_counts, counters, owners, resources>>

(* After the bank, the retired textures; after these, back.                 *)
ReleaseDone(t) ==
  LET me == thread[t] IN
  /\ me.at = "releasing" /\ me.bank = {}
  /\ IF me.back = "idle"
     THEN Do(t, [Resting EXCEPT !.at = IF me.retired = {} THEN "idle" ELSE "releasing",
                                !.bank = {[texture |-> x] : x \in me.retired}])
     ELSE Do(t, [me EXCEPT !.at = me.back, !.back = "idle"])
  /\ UNCHANGED <<slot, generations, owner_counts, counters, owners, resources, releasing>>

TextureNext ==
  \E t \in Threads :
    \/ \E r \in Resources : BeginConstruct(t, r)
    \/ \E h \in Handles : ReserveTexture(t, h)
    \/ Pending(t) \/ NativeCreate(t) \/ PublishTexture(t) \/ Unpublished(t) \/ ConstructReturns(t)
    \/ \E r \in Resources, bank \in SUBSET Handles : FreeResource(t, r, bank)
    \/ \E bank \in SUBSET Handles : FreeAll(t, bank)
    \/ FreeRenderer(t)
    \/ \E item \in thread[t].bank : PrepareRelease(t, item)
    \/ NativeRelease(t) \/ FinishRelease(t) \/ ReleaseDone(t)

TextureSpec == TextureInit /\ [][TextureNext]_textureVars

-----------------------------------------------------------------------------
(* A texture that a living weapon was given is in its slot, whatever other  *)
(* weapons are cleaned up, rebuilt or still under construction, and however *)
(* handles were used before (protects, retire).  And a texture is released  *)
(* once: who claimed it finds the texture it claimed, and nobody else       *)
(* claimed it, although the callback of an earlier release of the handle    *)
(* may still be returning (prepare_release, finish_release).                *)
(* Nothing is left behind: when no thread is in a call, every texture that  *)
(* was created for a weapon belongs to one that lives, no owner waits to be *)
(* removed, and the counts are those of the owners (created, retire,        *)
(* remove_finished).                                                        *)
LiveWeaponKeepsTextures ==
  /\ \A k \in DOMAIN owners : owners[k].life = "live" =>
       \A texture \in Created(owners[k]) :
         Current(texture) /\ slot[texture.handle] = "live" /\ Protects(texture.handle)
  /\ \A t \in Threads : thread[t].at = "claimed" =>
       /\ slot[thread[t].handle] = "live"
       /\ generations[thread[t].handle] = thread[t].claim.generation
       /\ \A u \in Threads \ {t} : thread[u].at = "claimed" => thread[u].handle # thread[t].handle
  /\ (\A t \in Threads : thread[t] = Resting) =>
       /\ \A h \in Handles : slot[h] = "live" <=> Protects(h)
       /\ \A k \in DOMAIN owners : owners[k].life = "live"
       /\ \A h \in Handles : owner_counts[h] = References(owners, h)
=============================================================================
