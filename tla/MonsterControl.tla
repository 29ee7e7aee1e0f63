---------------------------- MODULE MonsterControl ----------------------------
(***************************************************************************)
(* The transformation of the hunter into a monster (mods/debug-tools,      *)
(* provider/native/monster.rs), the commands that start and end it         *)
(* (provider/mod.rs, native.rs), and the quest it is prepared in           *)
(* (mods/quest/src/provider).                                              *)
(*                                                                         *)
(* The windows queue commands; the game's thread runs them in a hook       *)
(* around the native dispatch of a frame: the commands, `before_frame`,    *)
(* the original, `after_frame`, the snapshot.  The game owns the monsters: *)
(* its code, inside the original, may kill them, free a slot, use it       *)
(* again, change the area or load a quest; and the quest may end.  What    *)
(* the mod keeps about an actor is a slot and a serial number.             *)
(*                                                                         *)
(* It starts when the hunter has been made, before which the hook does     *)
(* nothing.  Left out: equipment, looks and moves of the hunter, the       *)
(* camera, positions.  Worst case for checks by identity: the pool never   *)
(* moves, every world starts its serial numbers anew, and the monsters the *)
(* mod did not make are always set up.                                     *)
(***************************************************************************)
EXTENDS Naturals, Sequences

CONSTANTS
    Forms,       \* <<species, variant>> of the catalogue; variant 0 is normal
    Original,    \* species of the target in the quest file
    Slots,       \* 1 .. the size of the monster pool
    QueueLimit,  \* commands the queue holds (16)
    Patience,    \* frames a transformation waits for its actor (180)
    MaxRequests, \* bound: commands the windows send
    MaxSerial,   \* bound: actors the game makes in one world
    Nobody

VARIABLES
    \* the game
    scene,       \* "load", "play", "end" (scene 5) or "exit"
    moving,      \* player + 2042: the hunter is between two areas
    loaded,      \* quest buffer 0x1ed528f4: the quest this world was made from
    actors,      \* the pool
    serial,      \* last serial number given out in this world
    \* the mod
    override,    \* Session.quest_override, as the quest it stands for
    monster,     \* Runtime.monster
    controlled_monster,
    epoch,       \* Editor.epoch
    queue,       \* Shared.commands
    batch,       \* what the frame under way took of them
    hook,        \* "world" outside the hook, "commands", "frame" in the original
    hud_target,  \* the target a window holds, from some earlier snapshot
    \* history
    world,       \* how often a quest was loaded
    sent,        \* commands sent
    unloaded,    \* the transformation changed, and its reload was refused
    did          \* what the step just taken wrote to

game  == <<scene, moving, loaded, actors, serial, world>>
control == <<monster, controlled_monster>>
input == <<queue, batch, hook, hud_target, sent>>
vars  == <<game, control, override, epoch, unloaded, input, did>>

Species == {f[1] : f \in Forms} \cup {Original}
Variants == {f[2] : f \in Forms} \cup {0}

-----------------------------------------------------------------------------
(* Quests (quest/src/provider/binary.rs, mod.rs)                           *)

\* `spawn`: species in the record of the controlled monster, if there is one;
\* `loads`: the species a world of this quest loads, with their variants.
OriginalQuest ==
    [target |-> Original, spawn |-> Nobody, loads |-> [s \in {Original} |-> 0]]

\* Built from the original each time.
with_monster(s, v) ==
    [OriginalQuest EXCEPT
        !.spawn = s,
        !.loads = [x \in {Original, s} |-> IF x = s THEN v ELSE 0]]

\* Mutant: built from the original, as a transformation is.
replace_monsterInOriginal(s) ==
    [OriginalQuest EXCEPT
        !.target = s,
        !.loads = [x \in {Original, s} |-> 0]]
\* Built from the replacement in force.
replace_monster(s) ==
    [override EXCEPT
        !.target = s,
        !.loads = [x \in DOMAIN @ \cup {s} |-> IF x \in DOMAIN @ THEN @[x] ELSE 0]]

-----------------------------------------------------------------------------
(* The controlled monster (monster.rs)                                     *)

Control(s, v, action) ==
    [species |-> s, variant |-> v, waiting |-> TRUE, resume_at_arrival |-> FALSE,
     instance |-> Nobody, actor |-> Nobody, pending_action |-> action,
     wait_frames |-> 0]

\* Mutant: a slot that is in use again passes for the old actor.
IsInstanceBySlot(m, pool, slot) == m.instance # Nobody /\ pool[slot] # Nobody
\* Whether the actor in a slot is the one made for m: not by species alone.
IsInstance(m, pool, slot) ==
    /\ m.instance # Nobody /\ pool[slot] # Nobody
    /\ pool[slot].serial = m.instance.serial
    /\ pool[slot].species = m.species
    /\ pool[slot].live

ActorOf(m, pool) ==
    IF m = Nobody \/ m.actor = Nobody \/ ~IsInstance(m, pool, m.actor) THEN Nobody
    ELSE m.actor
actor == ActorOf(monster, actors)

Nothing == [what |-> "nothing"]
Drives(slot, pool) ==
    IF slot = Nobody THEN Nothing ELSE [what |-> "drive", own |-> pool[slot].own]

release(m) ==
    IF m = Nobody THEN Nobody
    ELSE [m EXCEPT !.actor = Nobody, !.wait_frames = 0, !.pending_action = FALSE]
Release(m) == monster' = release(m) /\ controlled_monster' = Nobody

active_scene == scene = "play"
ready == scene = "play" /\ ~moving

\* Mutant: the instance of the old world is kept.
WaitingOld(m) ==
    IF m = Nobody THEN Nobody
    ELSE [release(m) EXCEPT !.waiting = TRUE, !.resume_at_arrival = FALSE]
\* What restart leaves of a transformation: it waits for the next world.
Waiting(m) ==
    IF m = Nobody THEN Nobody
    ELSE [release(m) EXCEPT !.waiting = TRUE, !.resume_at_arrival = FALSE,
                            !.instance = Nobody]

\* Mutant: targets of the old world still compare equal.
invalidateNot == UNCHANGED epoch
invalidate == epoch' = epoch + 1

\* native.rs restart, and the session's: the game leaves its world at once.
\* `pending_action` is set after it.
restart(m, quest, action) ==
    /\ invalidate
    /\ monster' = IF m = Nobody THEN Nobody
                  ELSE [Waiting(m) EXCEPT !.pending_action = action]
    /\ controlled_monster' = Nobody
    /\ scene' = "load" /\ actors' = [s \in Slots |-> Nobody] /\ serial' = 0
    /\ override' = quest
    /\ did' = Nothing
    /\ UNCHANGED <<moving, loaded, world, unloaded>>
Refused ==
    did' = Nothing /\ UNCHANGED <<game, control, override, epoch, unloaded>>

-----------------------------------------------------------------------------
(* Commands (native.rs dispatch)                                           *)

\* A refusal (catalogue, variant, room in the quest) changes nothing; when only
\* the reload is refused (the archives cannot be indexed) the rest stays.
transform(s, v, action) ==
    \/ restart(Control(s, v, FALSE), with_monster(s, v), action)
    \/ /\ override' = with_monster(s, v)
       /\ monster' = Control(s, v, FALSE) /\ controlled_monster' = Nobody
       /\ unloaded' = TRUE /\ did' = Nothing
       /\ UNCHANGED <<game, epoch>>
    \/ Refused

trigger ==
    did' = Drives(actor, actors) /\ UNCHANGED <<game, control, override, epoch, unloaded>>

TransformAction(s, v) ==
    IF /\ monster # Nobody /\ controlled_monster # Nobody
       /\ monster.species = s /\ monster.variant = v
    THEN trigger
    ELSE transform(s, v, TRUE)

RestoreHunter ==
    \/ restart(Nobody, OriginalQuest, FALSE)
    \/ /\ override' = OriginalQuest
       /\ monster' = Nobody /\ controlled_monster' = Nobody
       /\ unloaded' = TRUE /\ did' = Nothing
       /\ UNCHANGED <<game, epoch>>

ChangeArea ==
    /\ moving' = TRUE /\ did' = Nothing
    /\ UNCHANGED <<scene, loaded, actors, serial, world, control, override, epoch, unloaded>>

\* Targets of a snapshot, and whether the code takes two for the same one:
\* `world` is history.
Targets ==
    {[slot |-> s, serial |-> actors[s].serial, species |-> actors[s].species,
      epoch |-> epoch, world |-> world] : s \in {x \in Slots : actors[x] # Nobody}}
Found(t) ==
    \E u \in Targets :
        /\ t.slot = u.slot /\ t.serial = u.serial
        /\ t.species = u.species /\ t.epoch = u.epoch

\* The record that primary_spawn finds names the slot the target was made in;
\* the archives are indexed once before and once after the change.
replace_species(t, s) ==
    \/ /\ Found(t) /\ t.slot = 1 /\ t.species = loaded.target
       /\ s # t.species /\ override.target = t.species
       /\ \/ restart(monster, replace_monster(s), FALSE)
          \/ /\ override' = replace_monster(s) /\ did' = Nothing
             /\ UNCHANGED <<game, control, epoch, unloaded>>
    \/ Refused

execute(t) ==
    /\ did' = IF Found(t)
              THEN [what |-> "edit", meant |-> <<t.world, t.serial>>,
                    met |-> <<world, actors[t.slot].serial>>]
              ELSE Nothing
    /\ UNCHANGED <<game, control, override, epoch, unloaded>>

exit ==
    /\ scene' = "exit" /\ Release(monster) /\ did' = Nothing
    /\ UNCHANGED <<moving, loaded, actors, serial, world, override, epoch, unloaded>>

Allowed(c) ==
    CASE c.op = "exit"    -> TRUE
      [] c.op = "restart" -> ready \/ scene = "end"
      [] c.op = "restore" -> monster # Nobody /\ (ready \/ scene = "end")
      [] c.op = "trigger" -> controlled_monster # Nobody
      [] OTHER            -> ready

Run(c) ==
    \/ ~Allowed(c) /\ Refused
    \/ /\ Allowed(c)
       /\ \/ c.op = "transform" /\ transform(c.form[1], c.form[2], FALSE)
          \/ c.op = "act" /\ TransformAction(c.form[1], c.form[2])
          \/ c.op = "restart" /\ (restart(monster, override, FALSE) \/ Refused)
          \/ c.op = "restore" /\ RestoreHunter
          \/ c.op = "trigger" /\ trigger
          \/ c.op = "area" /\ (ChangeArea \/ Refused)
          \/ c.op = "replace" /\ replace_species(c.target, c.species)
          \/ c.op = "apply" /\ execute(c.target)
          \/ c.op = "exit" /\ exit

Requests ==
    [op : {"restart", "restore", "trigger", "area", "exit"}]
    \cup [op : {"transform", "act"}, form : Forms]
    \cup IF hud_target = Nobody THEN {}
         ELSE [op : {"replace"}, target : {hud_target}, species : Species]
              \cup [op : {"apply"}, target : {hud_target}]

\* A window sends; while a frame runs this is as good as after it.
send ==
    /\ hook = "world" /\ scene # "exit"
    /\ sent < MaxRequests /\ Len(queue) < QueueLimit
    /\ \E c \in Requests : queue' = Append(queue, c)
    /\ sent' = sent + 1 /\ did' = Nothing
    /\ hud_target' = IF sent' < MaxRequests THEN hud_target ELSE Nobody  \* not needed
    /\ UNCHANGED <<game, control, override, epoch, unloaded, batch, hook>>

-----------------------------------------------------------------------------
(* A frame                                                                 *)

Take ==
    /\ hook = "world" /\ scene # "exit" /\ hook' = "commands"
    /\ batch' = queue /\ queue' = <<>> /\ did' = Nothing
    /\ UNCHANGED <<game, control, override, epoch, unloaded, hud_target, sent>>

Execute ==
    /\ hook = "commands" /\ batch # <<>>
    /\ Run(Head(batch)) /\ batch' = Tail(batch)
    /\ UNCHANGED <<queue, hook, hud_target, sent>>

\* The hunter leaves an area or has left it; the actor goes there with it.
Transition ==
    /\ monster # Nobody /\ active_scene /\ moving
    /\ monster.resume_at_arrival \/ controlled_monster # Nobody
Leave ==
    /\ monster' = [release(monster) EXCEPT !.waiting = TRUE, !.resume_at_arrival = TRUE]
    /\ controlled_monster' = Nobody
    /\ did' = Drives(actor, actors)
area_transition ==
    IF monster.resume_at_arrival THEN did' = Nothing /\ UNCHANGED control ELSE Leave

\* Mutant: an actor that is gone is only looked away from.
ReleaseIfControlledNot == did' = Nothing /\ UNCHANGED control
ReleaseIfControlled ==
    /\ did' = Nothing
    /\ IF controlled_monster # Nobody THEN Release(monster) ELSE UNCHANGED control

before_frame ==
    \/ Transition /\ area_transition /\ UNCHANGED moving
    \/ ~Transition /\ actor = Nobody /\ ReleaseIfControlled /\ UNCHANGED moving
    \/ /\ ~Transition /\ actor # Nobody /\ ~active_scene
       /\ Release(monster) /\ did' = Nothing /\ UNCHANGED moving
    \/ /\ ~Transition /\ actor # Nobody /\ active_scene
       /\ \/ did' = Drives(actor, actors) /\ UNCHANGED <<control, moving>>
          \/ moving' = TRUE /\ Leave        \* through an exit of the area
BeforeFrame ==
    /\ hook = "commands" /\ batch = <<>> /\ hook' = "frame"
    /\ before_frame
    /\ UNCHANGED <<scene, loaded, actors, serial, world, override, epoch, unloaded,
                   queue, batch, hud_target, sent>>

\* The record the actor is made from must lie in the prepared quest, and its
\* species among those of this world.
MayCreate ==
    /\ monster.instance = Nobody /\ ~moving
    /\ monster.species \in DOMAIN loaded.loads
    /\ override.spawn # Nobody
\* Mutant: whatever the species is loaded as.
VariantMissingNever == FALSE
VariantMissing == monster.variant # 0 /\ loaded.loads[monster.species] # monster.variant

\* The native constructor, from the record in the loaded quest; where that quest
\* has none, from whatever lies there.  The actor may be set up later.
Created(s, up) == [own |-> TRUE, species |-> s, serial |-> serial + 1, live |-> up]
Recorded == IF loaded.spawn # Nobody THEN {loaded.spawn} ELSE DOMAIN loaded.loads

\* Mutant: only frames with an actor to look at count.
BoundWithoutEnd(m, pool) ==
    IF ~moving /\ m.waiting /\ m.instance # Nobody /\ IsInstance(m, pool, m.instance.slot)
    THEN [m EXCEPT !.actor = m.instance.slot, !.waiting = FALSE,
                   !.resume_at_arrival = FALSE]
    ELSE IF m.waiting /\ m.instance # Nobody
    THEN [m EXCEPT !.wait_frames = @ + 1, !.waiting = m.wait_frames + 1 < Patience]
    ELSE m
\* The rest of after_frame, once the instance is known.
Bound(m, pool) ==
    IF ~moving /\ m.waiting /\ m.instance # Nobody /\ IsInstance(m, pool, m.instance.slot)
    THEN [m EXCEPT !.actor = m.instance.slot, !.waiting = FALSE,
                   !.resume_at_arrival = FALSE]
    ELSE IF m.waiting
    THEN [m EXCEPT !.wait_frames = @ + 1, !.waiting = m.wait_frames + 1 < Patience]
    ELSE m
Settle(m, pool) ==
    LET bound == Bound(m, pool) IN
    /\ monster' = [bound EXCEPT
                      !.pending_action = @ /\ bound.actor = Nobody]
    /\ controlled_monster' =
           IF m.waiting /\ bound.actor # Nobody THEN bound.actor ELSE controlled_monster
    /\ did' = Drives(ActorOf(bound, pool), pool)

after_frame ==
    \/ Transition /\ area_transition /\ UNCHANGED <<actors, serial>>
    \/ ~active_scene /\ ReleaseIfControlled /\ UNCHANGED <<actors, serial>>
    \/ /\ active_scene /\ monster = Nobody
       /\ did' = Nothing /\ UNCHANGED <<control, actors, serial>>
    \/ /\ active_scene /\ ~Transition /\ monster # Nobody
       /\ \/ /\ monster.waiting /\ MayCreate /\ VariantMissing
             /\ monster' = [monster EXCEPT !.waiting = FALSE] /\ did' = Nothing
             /\ UNCHANGED <<controlled_monster, actors, serial>>
          \/ /\ monster.waiting /\ MayCreate /\ ~VariantMissing
             /\ \E slot \in Slots, s \in Recorded, up \in BOOLEAN :
                    /\ actors[slot] = Nobody
                    /\ actors' = [actors EXCEPT ![slot] = Created(s, up)]
                    /\ serial' = serial + 1
                    /\ Settle([monster EXCEPT !.instance =
                                   [slot |-> slot, serial |-> serial + 1]], actors')
          \/ \* the pool is full, or nothing to make
             /\ ~(monster.waiting /\ MayCreate) \/ \A slot \in Slots : actors[slot] # Nobody
             /\ ~(monster.waiting /\ MayCreate /\ VariantMissing)
             /\ Settle(monster, actors) /\ UNCHANGED <<actors, serial>>

AfterFrame ==
    /\ hook = "frame" /\ hook' = "world"
    /\ after_frame
    /\ hud_target' \in {hud_target} \cup
           IF ready /\ sent < MaxRequests THEN Targets ELSE {}
    /\ UNCHANGED <<scene, moving, loaded, world, override, epoch, unloaded,
                   queue, batch, sent>>

-----------------------------------------------------------------------------
(* The game (external), and the specification                              *)

Native ==
    /\ did' = Nothing /\ UNCHANGED <<control, override, epoch, input>>

\* A world is made from the prepared quest.  In an extended quest it may have
\* the species without their variants.
Load ==
    /\ Native /\ hook = "frame" /\ scene = "load" /\ scene' = "play" /\ moving' = FALSE
    /\ world' = world + 1 /\ serial' = 1 /\ unloaded' = FALSE
    /\ loaded' \in {override, [override EXCEPT !.loads = [s \in DOMAIN @ |-> 0]]}
    /\ actors' = [s \in Slots |->
           IF s = 1 THEN [own |-> FALSE, species |-> override.target,
                          serial |-> 1, live |-> TRUE]
           ELSE Nobody]
Finish ==
    /\ Native /\ hook # "commands" /\ scene = "play" /\ scene' = "end" /\ moving' = FALSE
    /\ UNCHANGED <<loaded, actors, serial, world, unloaded>>
\* The hunter walks out of an area, unless it is not updated (update_hunters).
Travel ==
    /\ Native /\ hook = "frame" /\ scene = "play" /\ moving' = ~moving
    /\ moving \/ controlled_monster = Nobody
    /\ UNCHANGED <<scene, loaded, actors, serial, world, unloaded>>
\* Our monster is set up or dies; a slot is freed, or given to another monster
\* of the target's species.  The target itself stays: the quest ends with it.
Pool ==
    /\ Native /\ hook = "frame" /\ scene \in {"play", "end"}
    /\ \E slot \in Slots \ {1} :
        \/ /\ actors[slot] # Nobody /\ actors[slot].own
           /\ actors' = [actors EXCEPT ![slot].live = ~@] /\ UNCHANGED serial
        \/ /\ actors[slot] # Nobody
           /\ actors' = [actors EXCEPT ![slot] = Nobody] /\ UNCHANGED serial
        \/ /\ actors[slot] = Nobody /\ serial < MaxSerial
           /\ serial' = serial + 1
           /\ actors' = [actors EXCEPT ![slot] =
                  [own |-> FALSE, species |-> loaded.target,
                   serial |-> serial + 1, live |-> TRUE]]
    /\ UNCHANGED <<scene, moving, loaded, world, unloaded>>

Init ==
    /\ scene = "load" /\ moving = FALSE /\ world = 0 /\ serial = 0
    /\ loaded = OriginalQuest /\ actors = [s \in Slots |-> Nobody]
    /\ override = OriginalQuest /\ monster = Nobody /\ controlled_monster = Nobody
    /\ epoch = 0 /\ unloaded = FALSE /\ did = Nothing
    /\ queue = <<>> /\ batch = <<>> /\ hook = "world" /\ hud_target = Nobody /\ sent = 0

Frame == Take \/ Execute \/ BeforeFrame \/ AfterFrame
Next == Frame \/ send \/ Load \/ Finish \/ Travel \/ Pool

\* The game calls its dispatch in every frame.
Fairness == WF_vars(Frame)
Spec == Init /\ [][Next]_vars /\ Fairness

-----------------------------------------------------------------------------
(* Properties                                                              *)

Quests == [target : Species, spawn : Species \cup {Nobody},
           loads : UNION {[S -> Variants] : S \in SUBSET Species}]
Instances == [slot : Slots, serial : Nat]
Controls ==
    [species : Species, variant : Variants, waiting : BOOLEAN,
     resume_at_arrival : BOOLEAN, actor : Slots \cup {Nobody},
     instance : {Nobody} \cup Instances,
     pending_action : BOOLEAN, wait_frames : 0 .. Patience]
TypeOK ==
    /\ scene \in {"load", "play", "end", "exit"} /\ moving \in BOOLEAN
    /\ loaded \in Quests /\ override \in Quests
    /\ actors \in [Slots -> {Nobody} \cup
           [own : BOOLEAN, species : Species, serial : Nat, live : BOOLEAN]]
    /\ \A s \in Slots : actors[s] # Nobody => actors[s].serial <= serial
    /\ monster \in {Nobody} \cup Controls
    /\ controlled_monster \in Slots \cup {Nobody}
    /\ epoch \in Nat /\ world \in Nat /\ sent \in 0 .. MaxRequests
    /\ Len(queue) + Len(batch) <= 2 * QueueLimit
    /\ hook \in {"world", "commands", "frame"} /\ unloaded \in BOOLEAN

\* monster.rs: "Slot and allocation serial identify our actor even when the quest
\* target has the same species. Never take over a matching original."  What is
\* driven, moved or triggered is the actor made for the hunter, whatever the game
\* did with its slot; an edit of an AI reaches the monster it was chosen for; and
\* the hunter is held back exactly while there is a monster in its place.
WritesReachTheirActor ==
    /\ TypeOK
    /\ did.what = "drive" => did.own
    /\ did.what = "edit" => did.meant = did.met
    /\ IF monster = Nobody THEN controlled_monster = Nobody
       ELSE /\ controlled_monster = monster.actor
            /\ monster.waiting => controlled_monster = Nobody

\* The prepared quest always fits the transformation, across restarts, replaced
\* targets and refusals; and a world never has two of our actors, nor one of
\* another species or variant than was asked for (unless a transformation was
\* kept whose reload was refused: that world was made without it).
CreatedAsPrepared ==
    /\ IF monster = Nobody THEN override.spawn = Nobody
       ELSE /\ override.spawn = monster.species
            /\ override.loads[monster.species] = monster.variant
    /\ unloaded \/ \A s \in Slots : actors[s] # Nobody /\ actors[s].own =>
           /\ \A t \in Slots \ {s} : actors[t] = Nobody \/ ~actors[t].own
           /\ monster # Nobody
           /\ actors[s].species = monster.species
           /\ loaded.loads[monster.species] = monster.variant

\* A transformation that waits in a world for its actor, or one whose actor is gone.
Held ==
    \/ monster # Nobody /\ monster.waiting /\ ready
    \/ controlled_monster # Nobody /\ actor = Nobody

\* The hunter is not left without itself and without a monster: a transformation
\* does not wait for ever in a world that never gives it an actor (after_frame's
\* 180 frames), and an actor that is gone is let go (before_frame).
HunterResumes == Held ~> ~Held
===============================================================================
