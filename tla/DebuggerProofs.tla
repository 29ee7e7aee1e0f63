----------------------------- MODULE DebuggerProofs -----------------------------
(***************************************************************************)
(* Proofs about the debug tools: the transformation of the hunter          *)
(* (MonsterControl), the debugger of an AI (AiDebug) and its recording     *)
(* (AiTrace), each for all values of its constants.                        *)
(***************************************************************************)
EXTENDS MCDebugger, Sequences, WellFoundedInduction, TLAPS

(***************************************************************************)
(* The transformation (MonsterControl)                                     *)
(***************************************************************************)

AnyTarget == [slot : Slots, serial : Nat, species : Transformed!Species, epoch : Nat, world : Nat]
AnyRequest ==
    [op : {"restart", "restore", "trigger", "area", "exit"}]
    \cup [op : {"transform", "act"}, form : Forms]
    \cup [op : {"replace"}, target : AnyTarget, species : Transformed!Species]
    \cup [op : {"apply"}, target : AnyTarget]

\* A target of the epoch e in force was seen in the world w there is.
TimelyIn(t, e, w, loading) == t.epoch <= e /\ (t.epoch = e => t.world = w /\ ~loading)
RequestIn(c, e, w, loading) == c.op \in {"replace", "apply"} => TimelyIn(c.target, e, w, loading)
Timely(t) == TimelyIn(t, epoch, world, scene = "load")
TimelyRequest(c) == RequestIn(c, epoch, world, scene = "load")

\* What the windows hold and have sent.
QueueInv ==
    /\ queue \in Seq(AnyRequest) /\ Len(queue) <= QueueLimit
    /\ batch \in Seq(AnyRequest) /\ Len(batch) <= QueueLimit
    /\ hook # "commands" => batch = << >>
    /\ hud_target # Nobody => hud_target \in AnyTarget /\ Timely(hud_target)
    /\ \A i \in 1 .. Len(queue) : TimelyRequest(queue[i])
    /\ \A i \in 1 .. Len(batch) : TimelyRequest(batch[i])

\* What is kept about an actor: whoever has its serial number is ours.
InstanceInv ==
    /\ serial \in Nat
    /\ monster # Nobody /\ monster.instance # Nobody =>
          /\ monster.instance.serial <= serial
          /\ \A s \in Slots : actors[s] # Nobody /\ actors[s].serial = monster.instance.serial
                => actors[s].own
    /\ scene = "load" =>
          /\ \A s \in Slots : actors[s] = Nobody
          /\ monster # Nobody => monster.instance = Nobody

\* The hunter is held back while there is a monster in its place, and a wait is bounded.
HeldInv ==
    /\ monster = Nobody => controlled_monster = Nobody
    /\ monster # Nobody =>
          /\ controlled_monster = monster.actor
          /\ monster.waiting => controlled_monster = Nobody /\ monster.wait_frames < Patience

\* The prepared quest has the record of the transformation.
PreparedInv ==
    /\ override.spawn # Nobody => override.spawn \in DOMAIN override.loads
    /\ monster = Nobody => override.spawn = Nobody
    /\ monster # Nobody =>
          /\ override.spawn = monster.species
          /\ override.loads[monster.species] = monster.variant

\* Our actors, in a world made for the transformation.
OwnInv ==
    ~unloaded =>
        /\ monster = Nobody \/ monster.instance = Nobody =>
              \A s \in Slots : actors[s] # Nobody => ~actors[s].own
        /\ monster # Nobody /\ scene \in {"play", "end"} =>
              /\ loaded.spawn = monster.species /\ monster.species \in DOMAIN loaded.loads
              /\ loaded.loads[monster.species] \in {monster.variant, 0}
        /\ \A s \in Slots : actors[s] # Nobody /\ actors[s].own =>
              /\ \A t \in Slots \ {s} : actors[t] # Nobody => ~actors[t].own
              /\ actors[s].species = monster.species
              /\ loaded.loads[monster.species] = monster.variant

\* What the step just taken wrote to.
DidInv ==
    /\ did.what = "drive" => did.own
    /\ did.what = "edit" => did.meant = did.met

ControlInv ==
    /\ Transformed!TypeOK /\ QueueInv /\ InstanceInv /\ HeldInv /\ PreparedInv /\ OwnInv /\ DidInv

\* The types that the proofs use, one by one.
LEMMA ControlTypes ==
    ASSUME Transformed!TypeOK
    PROVE  /\ loaded \in Transformed!Quests /\ override \in Transformed!Quests
           /\ monster # Nobody => monster \in Transformed!Controls
           /\ controlled_monster \in Slots \cup {Nobody}
           /\ epoch \in Nat /\ world \in Nat /\ sent \in 0 .. MaxRequests
           /\ scene \in {"load", "play", "end", "exit"} /\ moving \in BOOLEAN
           /\ actors \in [Slots -> {Nobody} \cup [own : BOOLEAN, species : Transformed!Species,
                                                  serial : Nat, live : BOOLEAN]]
           /\ \A s \in Slots : actors[s] # Nobody => actors[s].serial <= serial
           /\ hook \in {"world", "commands", "frame"} /\ unloaded \in BOOLEAN
BY DEF Transformed!TypeOK

\* A target stays timely in its world and epoch, and afterwards.
LEMMA TargetsTimely ==
    ASSUME epoch \in Nat, world \in Nat,
           \/ epoch' = epoch /\ world' = world /\ (scene' = "load" => scene = "load")
           \/ epoch' = epoch + 1
           \/ epoch' = epoch /\ scene = "load"
    PROVE  \A t \in AnyTarget : Timely(t) => TimelyIn(t, epoch', world', scene' = "load")
BY DEF AnyTarget, Timely, TimelyIn

\* What a request holds stays timely with the targets.
LEMMA RequestsTimely ==
    ASSUME \A t \in AnyTarget : Timely(t) => TimelyIn(t, epoch', world', scene' = "load")
    PROVE  \A c \in AnyRequest : TimelyRequest(c) => RequestIn(c, epoch', world', scene' = "load")
<1> SUFFICES ASSUME NEW c \in AnyRequest, TimelyRequest(c), c.op \in {"replace", "apply"}
             PROVE  TimelyIn(c.target, epoch', world', scene' = "load")
  BY DEF RequestIn
<1>1. c.target \in AnyTarget
  BY DEF AnyRequest
<1>2. Timely(c.target)
  BY DEF TimelyRequest, RequestIn, Timely
<1> QED
  BY <1>1, <1>2

\* Commands are taken from the queue and from the batch.
LEMMA QueueStep ==
    ASSUME QueueInv, hud_target' = hud_target,
           \A t \in AnyTarget : Timely(t) => TimelyIn(t, epoch', world', scene' = "load"),
           \/ UNCHANGED <<queue, batch>> /\ (hook' # "commands" => batch = << >>)
           \/ batch' = queue /\ queue' = << >> /\ hook' = "commands"
           \/ batch # << >> /\ batch' = Tail(batch) /\ queue' = queue /\ hook' = "commands"
    PROVE  QueueInv'
<1>1. \A c \in AnyRequest : TimelyRequest(c) => RequestIn(c, epoch', world', scene' = "load")
  BY RequestsTimely
<1>2. /\ queue \in Seq(AnyRequest) /\ batch \in Seq(AnyRequest)
      /\ Len(queue) <= QueueLimit /\ Len(batch) <= QueueLimit
      /\ \A i \in 1 .. Len(queue) : TimelyRequest(queue[i])
      /\ \A i \in 1 .. Len(batch) : TimelyRequest(batch[i])
      /\ hud_target # Nobody => hud_target \in AnyTarget /\ Timely(hud_target)
  BY DEF QueueInv
<1>3. /\ queue' \in Seq(AnyRequest) /\ batch' \in Seq(AnyRequest)
      /\ Len(queue') <= QueueLimit /\ Len(batch') <= QueueLimit
      /\ \A i \in 1 .. Len(queue') : queue'[i] \in AnyRequest /\ TimelyRequest(queue'[i])
      /\ \A i \in 1 .. Len(batch') : batch'[i] \in AnyRequest /\ TimelyRequest(batch'[i])
  <2>0. /\ \A i \in 1 .. Len(queue) : queue[i] \in AnyRequest
        /\ \A i \in 1 .. Len(batch) : batch[i] \in AnyRequest
        /\ Len(queue) \in Nat /\ Len(batch) \in Nat
    BY <1>2
  <2>1. CASE UNCHANGED <<queue, batch>>
    BY <1>2, <2>0, <2>1
  <2>2. CASE batch' = queue /\ queue' = << >>
    <3>1. queue' \in Seq(AnyRequest) /\ Len(queue') = 0
      BY <2>2
    <3>2. \A i \in 1 .. Len(queue') : queue'[i] \in AnyRequest /\ TimelyRequest(queue'[i])
      BY <3>1
    <3> QED
      BY <1>2, <2>0, <2>2, <3>1, <3>2, ControlAssumption
  <2>3. CASE batch # << >> /\ batch' = Tail(batch) /\ queue' = queue
    <3>1. /\ batch' \in Seq(AnyRequest) /\ Len(batch') = Len(batch) - 1
          /\ \A i \in 1 .. Len(batch) - 1 : batch'[i] = batch[i + 1]
      BY <1>2, <2>3
    <3>2. \A i \in 1 .. Len(batch') : batch'[i] \in AnyRequest /\ TimelyRequest(batch'[i])
      <4> TAKE i \in 1 .. Len(batch')
      <4>1. i + 1 \in 1 .. Len(batch) /\ batch'[i] = batch[i + 1]
        BY <2>0, <3>1
      <4> QED
        BY <1>2, <2>0, <4>1
    <3>3. Len(batch') <= QueueLimit
      BY <1>2, <2>0, <3>1, ControlAssumption
    <3> QED
      BY <1>2, <2>0, <2>3, <3>1, <3>2, <3>3
  <2> QED
    BY <2>1, <2>2, <2>3
<1>4. /\ \A i \in 1 .. Len(queue') : RequestIn(queue'[i], epoch', world', scene' = "load")
      /\ \A i \in 1 .. Len(batch') : RequestIn(batch'[i], epoch', world', scene' = "load")
  BY <1>1, <1>3
<1>5. hook' # "commands" => batch' = << >>
  BY DEF QueueInv
<1>6. hud_target' # Nobody =>
         hud_target' \in AnyTarget /\ TimelyIn(hud_target', epoch', world', scene' = "load")
  BY <1>2
<1> QED
  BY <1>3, <1>4, <1>5, <1>6 DEF QueueInv, Timely, TimelyRequest

\* What keeps of a transformation.
Same == /\ (monster = Nobody <=> monster' = Nobody)
        /\ monster # Nobody =>
              /\ monster'.species = monster.species /\ monster'.variant = monster.variant
              /\ monster'.instance = monster.instance
Hunter == <<loaded, actors, serial, world, override, epoch, unloaded>>

\* Steps that leave the worlds, the quests and the transformation as they are.
LEMMA KeptStep ==
    ASSUME ControlInv, UNCHANGED Hunter, Same,
           moving' \in BOOLEAN, scene' \in {"load", "play", "end", "exit"},
           scene' = "load" => scene = "load",
           scene' \in {"play", "end"} => scene \in {"play", "end"},
           monster' # Nobody => monster' \in Transformed!Controls,
           controlled_monster' \in Slots \cup {Nobody},
           hook' \in {"world", "commands", "frame"}, sent' \in 0 .. MaxRequests,
           QueueInv', HeldInv', DidInv'
    PROVE  ControlInv'
<1> USE DEF Hunter, Same
<1> DEFINE Q == Len(queue) + Len(batch) <= 2 * QueueLimit
<1>1. Q'
  <2>1. Len(queue') \in Nat /\ Len(batch') \in Nat /\ Len(queue') <= QueueLimit /\ Len(batch') <= QueueLimit
    BY DEF QueueInv
  <2> QED
    BY <2>1, ControlAssumption
<1>2. Transformed!TypeOK'
  BY <1>1 DEF ControlInv, Transformed!TypeOK
<1>3. InstanceInv'
  BY DEF ControlInv, InstanceInv
<1>4. PreparedInv'
  BY DEF ControlInv, PreparedInv
<1>5. OwnInv'
  <2>1. OwnInv
    BY DEF ControlInv
  <2>2. CASE monster = Nobody
    BY <2>1, <2>2 DEF OwnInv
  <2>3. CASE monster # Nobody
    BY <2>1, <2>3 DEF OwnInv
  <2> QED
    BY <2>2, <2>3
<1> QED
  BY <1>2, <1>3, <1>4, <1>5 DEF ControlInv

\* A new world is asked for, with or without a transformation that fits it.
LEMMA RestartStep ==
    ASSUME ControlInv, epoch' = epoch + 1, scene' = "load", serial' = 0,
           actors' = [s \in Slots |-> Nobody], UNCHANGED <<moving, loaded, world, unloaded>>,
           controlled_monster' = Nobody, monster' = Nobody \/ monster' \in Transformed!Controls,
           monster' # Nobody => monster'.instance = Nobody /\ monster'.actor = Nobody,
           override' \in Transformed!Quests, PreparedInv', did' = Transformed!Nothing,
           monster' # Nobody /\ monster'.waiting => monster'.wait_frames < Patience,
           hook' \in {"world", "commands", "frame"}, sent' \in 0 .. MaxRequests, QueueInv'
    PROVE  ControlInv'
<1>1. (Len(queue) + Len(batch) <= 2 * QueueLimit)'
  <2>1. Len(queue') \in Nat /\ Len(batch') \in Nat /\ Len(queue') <= QueueLimit /\ Len(batch') <= QueueLimit
    BY DEF QueueInv
  <2> QED
    BY <2>1, ControlAssumption
<1>2. actors' \in [Slots -> {Nobody}] /\ \A s \in Slots : actors'[s] = Nobody
  OBVIOUS
<1>3. Transformed!TypeOK'
  BY <1>1, <1>2 DEF ControlInv, Transformed!TypeOK
<1>4. InstanceInv'
  BY <1>2 DEF InstanceInv
<1>5. HeldInv'
  BY DEF HeldInv
<1>6. OwnInv'
  BY <1>2 DEF OwnInv
<1>7. DidInv'
  BY DEF DidInv, Transformed!Nothing
<1> QED
  BY <1>3, <1>4, <1>5, <1>6, <1>7 DEF ControlInv

\* The same with a reload that was refused.
LEMMA UnloadedStep ==
    ASSUME ControlInv, UNCHANGED <<scene, moving, loaded, actors, serial, world, epoch>>,
           unloaded' = TRUE,
           controlled_monster' = Nobody, monster' = Nobody \/ monster' \in Transformed!Controls,
           monster' # Nobody => monster'.instance = Nobody /\ monster'.actor = Nobody,
           override' \in Transformed!Quests, PreparedInv', did' = Transformed!Nothing,
           monster' # Nobody /\ monster'.waiting => monster'.wait_frames < Patience,
           hook' \in {"world", "commands", "frame"}, sent' \in 0 .. MaxRequests, QueueInv'
    PROVE  ControlInv'
<1>1. (Len(queue) + Len(batch) <= 2 * QueueLimit)'
  <2>1. Len(queue') \in Nat /\ Len(batch') \in Nat /\ Len(queue') <= QueueLimit /\ Len(batch') <= QueueLimit
    BY DEF QueueInv
  <2> QED
    BY <2>1, ControlAssumption
<1>2. Transformed!TypeOK'
  BY <1>1 DEF ControlInv, Transformed!TypeOK
<1>3. InstanceInv'
  BY DEF ControlInv, InstanceInv
<1>4. HeldInv'
  BY DEF HeldInv
<1>5. OwnInv'
  BY DEF OwnInv
<1>6. DidInv'
  BY DEF DidInv, Transformed!Nothing
<1> QED
  BY <1>2, <1>3, <1>4, <1>5, <1>6 DEF ControlInv

\* Whoever is driven is the actor made for the hunter.
LEMMA DrivesOwn ==
    ASSUME NEW m, NEW pool, m # Nobody => m.actor \in Slots \cup {Nobody},
           m # Nobody /\ m.instance # Nobody =>
               \A s \in Slots : pool[s] # Nobody /\ pool[s].serial = m.instance.serial => pool[s].own
    PROVE  /\ Transformed!Drives(Transformed!ActorOf(m, pool), pool).what # "edit"
           /\ Transformed!Drives(Transformed!ActorOf(m, pool), pool).what = "drive" =>
                  Transformed!Drives(Transformed!ActorOf(m, pool), pool).own
<1>1. CASE Transformed!ActorOf(m, pool) = Nobody
  BY <1>1 DEF Transformed!Drives, Transformed!Nothing
<1>2. CASE Transformed!ActorOf(m, pool) # Nobody
  <2>1. /\ m # Nobody /\ m.actor \in Slots /\ Transformed!ActorOf(m, pool) = m.actor
        /\ Transformed!IsInstance(m, pool, m.actor)
    BY <1>2 DEF Transformed!ActorOf
  <2>2. pool[m.actor].own
    BY <2>1 DEF Transformed!IsInstance
  <2> QED
    BY <1>2, <2>1, <2>2 DEF Transformed!Drives
<1> QED
  BY <1>1, <1>2

\* The actor of the transformation in force.
LEMMA ActorDriven ==
    ASSUME ControlInv, did' = Transformed!Drives(Transformed!actor, actors)
    PROVE  DidInv'
<1>1. monster # Nobody => monster.actor \in Slots \cup {Nobody}
  BY ControlTypes DEF ControlInv, Transformed!Controls
<1> QED
  BY <1>1, DrivesOwn DEF ControlInv, InstanceInv, DidInv, Transformed!actor

\* A step that writes to nobody.
LEMMA NothingDriven == ASSUME did' = Transformed!Nothing PROVE DidInv'
BY DEF DidInv, Transformed!Nothing

\* The quests that are prepared.
Loads == UNION {[S -> Transformed!Variants] : S \in SUBSET Transformed!Species}

\* ... of the quest itself,
LEMMA OriginalQuestFits ==
    Transformed!OriginalQuest \in Transformed!Quests /\ Transformed!OriginalQuest.spawn = Nobody
<1>1. [s \in {Original} |-> 0] \in [{Original} -> Transformed!Variants]
  BY DEF Transformed!Variants
<1>2. {Original} \in SUBSET Transformed!Species
  BY DEF Transformed!Species
<1> QED
  BY <1>1, <1>2 DEF Transformed!OriginalQuest, Transformed!Quests, Transformed!Species

\* ... with a transformation,
LEMMA WithMonsterFits ==
    ASSUME NEW s \in Transformed!Species, NEW v \in Transformed!Variants
    PROVE  /\ Transformed!with_monster(s, v) \in Transformed!Quests
           /\ Transformed!with_monster(s, v).spawn = s
           /\ s \in DOMAIN Transformed!with_monster(s, v).loads
           /\ Transformed!with_monster(s, v).loads[s] = v
<1> DEFINE loads == [x \in {Original, s} |-> IF x = s THEN v ELSE 0]
<1>1. loads \in [{Original, s} -> Transformed!Variants] /\ loads[s] = v /\ DOMAIN loads = {Original, s}
  BY DEF Transformed!Variants
<1>2. {Original, s} \in SUBSET Transformed!Species /\ Original \in Transformed!Species
  BY DEF Transformed!Species
<1>3. Transformed!with_monster(s, v) = [Transformed!OriginalQuest EXCEPT !.spawn = s, !.loads = loads]
  BY DEF Transformed!with_monster
<1> HIDE DEF loads
<1>4. loads \in Loads
  BY <1>1, <1>2 DEF Loads
<1>5. Transformed!OriginalQuest \in [target : Transformed!Species,
          spawn : Transformed!Species \cup {Nobody}, loads : Loads]
  BY OriginalQuestFits DEF Transformed!Quests, Loads
<1>6. /\ Transformed!with_monster(s, v) \in Transformed!Quests
      /\ Transformed!with_monster(s, v).spawn = s /\ Transformed!with_monster(s, v).loads = loads
  BY <1>3, <1>4, <1>5 DEF Transformed!Quests, Loads
<1> QED
  BY <1>1, <1>6

\* ... and with another target.
LEMMA ReplaceFits ==
    ASSUME override \in Transformed!Quests, NEW s \in Transformed!Species
    PROVE  /\ Transformed!replace_monster(s) \in Transformed!Quests
           /\ Transformed!replace_monster(s).spawn = override.spawn
           /\ \A x \in DOMAIN override.loads :
                  /\ x \in DOMAIN Transformed!replace_monster(s).loads
                  /\ Transformed!replace_monster(s).loads[x] = override.loads[x]
<1> DEFINE old == override.loads
           loads == [x \in DOMAIN old \cup {s} |-> IF x \in DOMAIN old THEN old[x] ELSE 0]
<1>1. PICK S \in SUBSET Transformed!Species : old \in [S -> Transformed!Variants]
  BY DEF Transformed!Quests
<1>2. loads \in [S \cup {s} -> Transformed!Variants]
  BY <1>1 DEF Transformed!Variants
<1>3. S \cup {s} \in SUBSET Transformed!Species
  BY <1>1
<1>4. loads \in Loads
  BY <1>2, <1>3 DEF Loads
<1>5. Transformed!replace_monster(s) = [override EXCEPT !.target = s, !.loads = loads]
  BY DEF Transformed!replace_monster
<1>6. \A x \in DOMAIN old : x \in DOMAIN loads /\ loads[x] = old[x]
  OBVIOUS
<1> HIDE DEF loads
<1>7. override \in [target : Transformed!Species,
          spawn : Transformed!Species \cup {Nobody}, loads : Loads]
  BY DEF Transformed!Quests, Loads
<1>8. /\ Transformed!replace_monster(s) \in Transformed!Quests
      /\ Transformed!replace_monster(s).spawn = override.spawn
      /\ Transformed!replace_monster(s).loads = loads
  BY <1>4, <1>5, <1>7 DEF Transformed!Quests, Loads
<1> QED
  BY <1>6, <1>8

\* A transformation that is let go keeps what it is.
LEMMA ReleaseKeeps ==
    ASSUME NEW m \in Transformed!Controls
    PROVE  /\ Transformed!release(m) \in Transformed!Controls
           /\ Transformed!release(m).species = m.species /\ Transformed!release(m).variant = m.variant
           /\ Transformed!release(m).instance = m.instance
           /\ Transformed!release(m).waiting = m.waiting
           /\ Transformed!release(m).actor = Nobody /\ Transformed!release(m).wait_frames = 0
           /\ m # Nobody /\ Transformed!release(m) # Nobody
<1>1. m # Nobody
  BY ControlAssumption
<1>2. Transformed!release(m) =
        [m EXCEPT !.actor = Nobody, !.wait_frames = 0, !.pending_action = FALSE]
  BY <1>1 DEF Transformed!release
<1>3. 0 \in 0 .. Patience
  BY ControlAssumption
<1>4. Transformed!release(m) \in Transformed!Controls
  BY <1>2, <1>3 DEF Transformed!Controls
<1>5. Transformed!release(m) # Nobody
  BY <1>4, ControlAssumption
<1> QED
  BY <1>1, <1>2, <1>4, <1>5 DEF Transformed!Controls

\* The prepared quest q fits the transformation m.
Prepared(m, q) ==
    /\ q.spawn # Nobody => q.spawn \in DOMAIN q.loads
    /\ m = Nobody => q.spawn = Nobody
    /\ m # Nobody => q.spawn = m.species /\ q.loads[m.species] = m.variant

\* A command is taken from the batch.
Taken ==
    /\ hook = "commands" /\ batch # << >> /\ batch' = Tail(batch)
    /\ UNCHANGED <<queue, hook, hud_target, sent>>

LEMMA TakenQueue ==
    ASSUME ControlInv, Taken,
           \/ epoch' = epoch /\ world' = world /\ (scene' = "load" => scene = "load")
           \/ epoch' = epoch + 1
    PROVE  QueueInv' /\ hook' \in {"world", "commands", "frame"} /\ sent' \in 0 .. MaxRequests
<1>1. \A t \in AnyTarget : Timely(t) => TimelyIn(t, epoch', world', scene' = "load")
  BY ControlTypes, TargetsTimely DEF ControlInv
<1>2. QueueInv'
  BY <1>1, QueueStep DEF Taken, ControlInv
<1> QED
  BY <1>2, ControlTypes DEF Taken, ControlInv

\* ... and changes nothing but the transformation's hold on the hunter.
LEMMA TakenKept ==
    ASSUME ControlInv, Taken, UNCHANGED Hunter, Same,
           moving' \in BOOLEAN, scene' \in {"load", "play", "end", "exit"},
           scene' = "load" => scene = "load",
           scene' \in {"play", "end"} => scene \in {"play", "end"},
           monster' # Nobody => monster' \in Transformed!Controls,
           controlled_monster' \in Slots \cup {Nobody}, HeldInv', DidInv'
    PROVE  ControlInv'
<1>1. QueueInv' /\ hook' \in {"world", "commands", "frame"} /\ sent' \in 0 .. MaxRequests
  BY TakenQueue DEF Hunter
<1> QED
  BY <1>1, KeptStep

\* ... or nothing at all but what it writes to.
LEMMA TakenIdle ==
    ASSUME ControlInv, Taken, UNCHANGED Hunter, UNCHANGED <<monster, controlled_monster, scene>>,
           moving' \in BOOLEAN, DidInv'
    PROVE  ControlInv'
<1>1. Same
  BY DEF Same
<1>2. HeldInv'
  BY DEF ControlInv, HeldInv
<1>3. /\ monster' # Nobody => monster' \in Transformed!Controls
      /\ controlled_monster' \in Slots \cup {Nobody} /\ scene' \in {"load", "play", "end", "exit"}
  BY ControlTypes DEF ControlInv
<1> QED
  BY <1>1, <1>2, <1>3, TakenKept

LEMMA RefusedStep == ASSUME ControlInv, Taken, Transformed!Refused PROVE ControlInv'
<1>1. /\ UNCHANGED Hunter /\ UNCHANGED <<monster, controlled_monster, scene>>
      /\ moving' = moving /\ did' = Transformed!Nothing
  BY DEF Hunter, Transformed!Refused, Transformed!game, Transformed!control
<1> QED
  BY <1>1, TakenIdle, NothingDriven, ControlTypes DEF ControlInv

LEMMA TriggerStep == ASSUME ControlInv, Taken, Transformed!trigger PROVE ControlInv'
<1>1. /\ UNCHANGED Hunter /\ UNCHANGED <<monster, controlled_monster, scene>>
      /\ moving' = moving /\ did' = Transformed!Drives(Transformed!actor, actors)
  BY DEF Hunter, Transformed!trigger, Transformed!game, Transformed!control
<1> QED
  BY <1>1, TakenIdle, ActorDriven, ControlTypes DEF ControlInv

LEMMA ChangeAreaStep == ASSUME ControlInv, Taken, Transformed!ChangeArea PROVE ControlInv'
<1>1. /\ UNCHANGED Hunter /\ UNCHANGED <<monster, controlled_monster, scene>>
      /\ moving' \in BOOLEAN /\ did' = Transformed!Nothing
  BY DEF Hunter, Transformed!ChangeArea, Transformed!control
<1> QED
  BY <1>1, TakenIdle, NothingDriven

LEMMA ExitStep == ASSUME ControlInv, Taken, Transformed!exit PROVE ControlInv'
<1>1. /\ UNCHANGED Hunter /\ moving' = moving /\ scene' = "exit" /\ did' = Transformed!Nothing
      /\ monster' = Transformed!release(monster) /\ controlled_monster' = Nobody
  BY DEF Hunter, Transformed!exit, Transformed!Release
<1>2. moving \in BOOLEAN /\ (monster # Nobody => monster \in Transformed!Controls)
  BY ControlTypes DEF ControlInv
<1>3. CASE monster = Nobody
  <2>1. monster' = Nobody
    BY <1>1, <1>3 DEF Transformed!release
  <2> QED
    BY <1>1, <1>2, <1>3, <2>1, TakenKept, NothingDriven DEF Same, HeldInv
<1>4. CASE monster # Nobody
  <2>1. /\ monster' \in Transformed!Controls /\ monster' # Nobody
        /\ monster'.actor = Nobody /\ monster'.wait_frames = 0
    BY <1>1, <1>2, <1>4, ReleaseKeeps
  <2>2. Same
    BY <1>1, <1>2, <1>4, ReleaseKeeps DEF Same
  <2>3. HeldInv'
    BY <1>1, <2>1, ControlAssumption DEF HeldInv
  <2> QED
    BY <1>1, <1>2, <2>1, <2>2, <2>3, TakenKept, NothingDriven
<1> QED
  BY <1>3, <1>4

\* An edit whose target is found is of the world it was chosen in.
LEMMA ApplyStep ==
    ASSUME ControlInv, Taken, NEW t \in AnyTarget, Timely(t), Transformed!execute(t)
    PROVE  ControlInv'
<1>1. /\ UNCHANGED Hunter /\ UNCHANGED <<monster, controlled_monster, scene>>
      /\ moving' = moving
  BY DEF Hunter, Transformed!execute, Transformed!game, Transformed!control
<1>2. CASE ~Transformed!Found(t)
  <2>1. did' = Transformed!Nothing
    BY <1>2 DEF Transformed!execute
  <2> QED
    BY <1>1, <2>1, TakenIdle, NothingDriven, ControlTypes DEF ControlInv
<1>3. CASE Transformed!Found(t)
  <2>1. PICK u \in Transformed!Targets : t.slot = u.slot /\ t.serial = u.serial /\ t.epoch = u.epoch
    BY <1>3 DEF Transformed!Found
  <2>2. u.epoch = epoch /\ u.serial = actors[u.slot].serial
    BY DEF Transformed!Targets
  <2>3. t.world = world
    BY <2>1, <2>2 DEF Timely, TimelyIn
  <2>4. did' = [what |-> "edit", meant |-> <<t.world, t.serial>>,
                met |-> <<world, actors[t.slot].serial>>]
    BY <1>3 DEF Transformed!execute
  <2>5. DidInv'
    BY <2>1, <2>2, <2>3, <2>4 DEF DidInv
  <2> QED
    BY <1>1, <2>5, TakenIdle, ControlTypes DEF ControlInv
<1> QED
  BY <1>2, <1>3

\* restart, with a transformation that the quest is prepared for.
LEMMA RestartTaken ==
    ASSUME ControlInv, Taken, NEW m, m = Nobody \/ m \in Transformed!Controls,
           NEW quest \in Transformed!Quests, NEW action \in BOOLEAN,
           Prepared(m, quest), Transformed!restart(m, quest, action)
    PROVE  ControlInv'
<1>1. /\ epoch' = epoch + 1 /\ scene' = "load" /\ serial' = 0
      /\ actors' = [s \in Slots |-> Nobody] /\ UNCHANGED <<moving, loaded, world, unloaded>>
      /\ controlled_monster' = Nobody /\ override' = quest /\ did' = Transformed!Nothing
      /\ monster' = IF m = Nobody THEN Nobody
                    ELSE [Transformed!Waiting(m) EXCEPT !.pending_action = action]
  BY DEF Transformed!restart, Transformed!invalidate
<1>2. QueueInv' /\ hook' \in {"world", "commands", "frame"} /\ sent' \in 0 .. MaxRequests
  BY <1>1, TakenQueue
<1>3. CASE m = Nobody
  <2>1. monster' = Nobody
    BY <1>1, <1>3
  <2>2. PreparedInv'
    BY <1>1, <1>3, <2>1 DEF Prepared, PreparedInv
  <2> QED
    BY <1>1, <1>2, <2>1, <2>2, RestartStep
<1>4. CASE m # Nobody
  <2> DEFINE r == Transformed!release(m)
  <2>1. /\ r \in Transformed!Controls /\ r.species = m.species /\ r.variant = m.variant
        /\ r.wait_frames = 0 /\ r.actor = Nobody
    BY <1>4, ReleaseKeeps
  <2> HIDE DEF r
  <2>2. monster' = [[r EXCEPT !.waiting = TRUE, !.resume_at_arrival = FALSE, !.instance = Nobody]
                        EXCEPT !.pending_action = action]
    BY <1>1, <1>4 DEF Transformed!Waiting, r
  <2>3. /\ monster' \in Transformed!Controls
        /\ monster'.species = m.species /\ monster'.variant = m.variant
        /\ monster'.instance = Nobody /\ monster'.actor = Nobody /\ monster'.wait_frames = 0
    BY <2>1, <2>2 DEF Transformed!Controls
  <2>4. monster' # Nobody
    BY <2>3, ControlAssumption
  <2>5. PreparedInv'
    BY <1>1, <1>4, <2>3, <2>4 DEF Prepared, PreparedInv
  <2>6. 0 < Patience
    BY ControlAssumption
  <2> QED
    BY <1>1, <1>2, <2>3, <2>5, <2>6, RestartStep
<1> QED
  BY <1>3, <1>4

\* The same where the reload is refused.
LEMMA UnloadedTaken ==
    ASSUME ControlInv, Taken, NEW m, m = Nobody \/ m \in Transformed!Controls,
           m # Nobody => m.instance = Nobody /\ m.actor = Nobody /\ m.wait_frames = 0,
           NEW quest \in Transformed!Quests, Prepared(m, quest),
           override' = quest, monster' = m, controlled_monster' = Nobody,
           unloaded' = TRUE, did' = Transformed!Nothing, UNCHANGED Transformed!game, UNCHANGED epoch
    PROVE  ControlInv'
<1>1. UNCHANGED <<scene, moving, loaded, actors, serial, world, epoch>>
  BY DEF Transformed!game
<1>2. QueueInv' /\ hook' \in {"world", "commands", "frame"} /\ sent' \in 0 .. MaxRequests
  BY <1>1, TakenQueue
<1>3. PreparedInv'
  BY DEF Prepared, PreparedInv
<1>4. 0 < Patience
  BY ControlAssumption
<1> QED
  BY <1>1, <1>2, <1>3, <1>4, UnloadedStep

LEMMA TransformStep ==
    ASSUME ControlInv, Taken, NEW s \in Transformed!Species, NEW v \in Transformed!Variants,
           NEW action \in BOOLEAN, Transformed!transform(s, v, action)
    PROVE  ControlInv'
<1> DEFINE m == Transformed!Control(s, v, FALSE)
           q == Transformed!with_monster(s, v)
<1>1. /\ m \in Transformed!Controls /\ m.species = s /\ m.variant = v /\ m.waiting
      /\ m.instance = Nobody /\ m.actor = Nobody /\ m.wait_frames = 0
  BY ControlAssumption DEF Transformed!Control, Transformed!Controls
<1>2. q \in Transformed!Quests /\ q.spawn = s /\ s \in DOMAIN q.loads /\ q.loads[s] = v
  BY WithMonsterFits
<1>3. m # Nobody
  BY <1>1, ControlAssumption
<1> HIDE DEF m, q
<1>4. Prepared(m, q)
  BY <1>1, <1>2, <1>3 DEF Prepared
<1>5. CASE Transformed!restart(m, q, action)
  BY <1>1, <1>2, <1>4, <1>5, RestartTaken
<1>6. CASE /\ override' = q /\ monster' = m /\ controlled_monster' = Nobody
           /\ unloaded' = TRUE /\ did' = Transformed!Nothing
           /\ UNCHANGED <<Transformed!game, epoch>>
  BY <1>1, <1>2, <1>4, <1>6, UnloadedTaken
<1>7. CASE Transformed!Refused
  BY <1>7, RefusedStep
<1> QED
  BY <1>5, <1>6, <1>7 DEF Transformed!transform, m, q

LEMMA RestoreStep == ASSUME ControlInv, Taken, Transformed!RestoreHunter PROVE ControlInv'
<1>1. Prepared(Nobody, Transformed!OriginalQuest) /\ Transformed!OriginalQuest \in Transformed!Quests
  BY OriginalQuestFits DEF Prepared
<1>2. CASE Transformed!restart(Nobody, Transformed!OriginalQuest, FALSE)
  BY <1>1, <1>2, RestartTaken
<1>3. CASE /\ override' = Transformed!OriginalQuest /\ monster' = Nobody
           /\ controlled_monster' = Nobody /\ unloaded' = TRUE /\ did' = Transformed!Nothing
           /\ UNCHANGED <<Transformed!game, epoch>>
  BY <1>1, <1>3, UnloadedTaken
<1> QED
  BY <1>2, <1>3 DEF Transformed!RestoreHunter

\* The transformation in force fits the prepared quest.
LEMMA PreparedNow ==
    ASSUME ControlInv
    PROVE  /\ Prepared(monster, override) /\ override \in Transformed!Quests
           /\ monster = Nobody \/ monster \in Transformed!Controls
BY ControlTypes DEF ControlInv, PreparedInv, Prepared

\* A new world with the same transformation.
LEMMA AgainStep ==
    ASSUME ControlInv, Taken, Transformed!restart(monster, override, FALSE)
    PROVE  ControlInv'
BY PreparedNow, RestartTaken

\* Another target: the transformation still fits.
LEMMA ReplaceStep ==
    ASSUME ControlInv, Taken, NEW t, NEW s \in Transformed!Species,
           Transformed!replace_species(t, s)
    PROVE  ControlInv'
<1> DEFINE q == Transformed!replace_monster(s)
<1>1. /\ q \in Transformed!Quests /\ q.spawn = override.spawn
      /\ \A x \in DOMAIN override.loads : x \in DOMAIN q.loads /\ q.loads[x] = override.loads[x]
  BY PreparedNow, ReplaceFits
<1> HIDE DEF q
<1>2. Prepared(monster, q)
  BY <1>1, PreparedNow, ControlTypes, ControlAssumption
     DEF Prepared, ControlInv, Transformed!Controls
<1>3. CASE Transformed!restart(monster, q, FALSE)
  BY <1>1, <1>2, <1>3, PreparedNow, RestartTaken
<1>4. CASE /\ override' = q /\ did' = Transformed!Nothing
           /\ UNCHANGED <<Transformed!game, Transformed!control, epoch, unloaded>>
  <2>1. UNCHANGED <<scene, moving, loaded, actors, serial, world, monster, controlled_monster,
                    epoch, unloaded, hook, sent>>
    BY <1>4 DEF Transformed!game, Transformed!control, Taken
  <2>2. QueueInv'
    BY <2>1, TakenQueue
  <2>3. (Len(queue) + Len(batch) <= 2 * QueueLimit)'
    <3>1. /\ Len(queue') \in Nat /\ Len(batch') \in Nat
          /\ Len(queue') <= QueueLimit /\ Len(batch') <= QueueLimit
      BY <2>2 DEF QueueInv
    <3> QED
      BY <3>1, ControlAssumption
  <2>4. Transformed!TypeOK'
    BY <1>1, <1>4, <2>1, <2>3 DEF ControlInv, Transformed!TypeOK
  <2>5. PreparedInv'
    BY <1>2, <1>4, <2>1 DEF Prepared, PreparedInv
  <2>6. InstanceInv' /\ HeldInv' /\ OwnInv' /\ DidInv'
    BY <1>4, <2>1, NothingDriven DEF ControlInv, InstanceInv, HeldInv, OwnInv
  <2> QED
    BY <2>2, <2>4, <2>5, <2>6 DEF ControlInv
<1>5. CASE Transformed!Refused
  BY <1>5, RefusedStep
<1> QED
  BY <1>3, <1>4, <1>5 DEF Transformed!replace_species, q

\* One command.
LEMMA ExecuteStep == ASSUME ControlInv, Transformed!Execute PROVE ControlInv'
<1> DEFINE c == Head(batch)
<1>1. Taken /\ Transformed!Run(c)
  BY DEF Transformed!Execute, Taken
<1>2. c \in AnyRequest /\ TimelyRequest(c)
  <2>1. batch \in Seq(AnyRequest) /\ Len(batch) >= 1 /\ c = batch[1]
    BY <1>1 DEF ControlInv, QueueInv, Taken
  <2>2. TimelyRequest(batch[1])
    BY <2>1 DEF ControlInv, QueueInv
  <2> QED
    BY <2>1, <2>2
<1> HIDE DEF c
<1>3. CASE Transformed!Refused
  BY <1>1, <1>3, RefusedStep
<1>4. CASE c.op = "transform" /\ Transformed!transform(c.form[1], c.form[2], FALSE)
  <2>1. c.form \in Forms
    BY <1>2, <1>4 DEF AnyRequest
  <2>2. c.form[1] \in Transformed!Species /\ c.form[2] \in Transformed!Variants
    BY <2>1 DEF Transformed!Species, Transformed!Variants
  <2> QED
    BY <1>1, <1>4, <2>2, TransformStep
<1>5. CASE c.op = "act" /\ Transformed!TransformAction(c.form[1], c.form[2])
  <2>1. c.form \in Forms
    BY <1>2, <1>5 DEF AnyRequest
  <2>2. c.form[1] \in Transformed!Species /\ c.form[2] \in Transformed!Variants
    BY <2>1 DEF Transformed!Species, Transformed!Variants
  <2>3. Transformed!trigger \/ Transformed!transform(c.form[1], c.form[2], TRUE)
    BY <1>5 DEF Transformed!TransformAction
  <2> QED
    BY <1>1, <2>2, <2>3, TransformStep, TriggerStep
<1>6. CASE Transformed!restart(monster, override, FALSE)
  BY <1>1, <1>6, AgainStep
<1>7. CASE Transformed!RestoreHunter
  BY <1>1, <1>7, RestoreStep
<1>8. CASE Transformed!trigger
  BY <1>1, <1>8, TriggerStep
<1>9. CASE Transformed!ChangeArea
  BY <1>1, <1>9, ChangeAreaStep
<1>10. CASE c.op = "replace" /\ Transformed!replace_species(c.target, c.species)
  <2>1. c.species \in Transformed!Species
    BY <1>2, <1>10 DEF AnyRequest
  <2> QED
    BY <1>1, <1>10, <2>1, ReplaceStep
<1>11. CASE c.op = "apply" /\ Transformed!execute(c.target)
  <2>1. c.target \in AnyTarget
    BY <1>2, <1>11 DEF AnyRequest
  <2>2. Timely(c.target)
    BY <1>2, <1>11 DEF TimelyRequest, RequestIn, Timely
  <2> QED
    BY <1>1, <1>11, <2>1, <2>2, ApplyStep
<1>12. CASE Transformed!exit
  BY <1>1, <1>12, ExitStep
<1> QED
  BY <1>1, <1>3, <1>4, <1>5, <1>6, <1>7, <1>8, <1>9, <1>10, <1>11, <1>12 DEF Transformed!Run

(* A frame                                                                 *)

\* The hold on the hunter may change, the transformation stays what it is.
HunterKept ==
    /\ Same /\ HeldInv' /\ DidInv'
    /\ monster' # Nobody => monster' \in Transformed!Controls
    /\ controlled_monster' \in Slots \cup {Nobody}

LEMMA IdleKeeps ==
    ASSUME ControlInv, UNCHANGED <<monster, controlled_monster>>, DidInv'
    PROVE  HunterKept
BY ControlTypes DEF ControlInv, HunterKept, Same, HeldInv

LEMMA LeaveKeeps ==
    ASSUME ControlInv, monster # Nobody, Transformed!Leave
    PROVE  HunterKept
<1> DEFINE r == Transformed!release(monster)
<1>1. /\ r \in Transformed!Controls /\ r.species = monster.species /\ r.variant = monster.variant
      /\ r.instance = monster.instance /\ r.wait_frames = 0 /\ r.actor = Nobody
  BY ReleaseKeeps, ControlTypes DEF ControlInv
<1> HIDE DEF r
<1>2. /\ monster' = [r EXCEPT !.waiting = TRUE, !.resume_at_arrival = TRUE]
      /\ controlled_monster' = Nobody /\ did' = Transformed!Drives(Transformed!actor, actors)
  BY DEF Transformed!Leave, r
<1>3. /\ monster' \in Transformed!Controls
      /\ monster'.species = monster.species /\ monster'.variant = monster.variant
      /\ monster'.instance = monster.instance /\ monster'.wait_frames = 0 /\ monster'.actor = Nobody
  BY <1>1, <1>2 DEF Transformed!Controls
<1>4. monster' # Nobody /\ 0 < Patience
  BY <1>3, ControlAssumption
<1>5. Same
  BY <1>3, <1>4 DEF Same
<1>6. HeldInv'
  BY <1>2, <1>3, <1>4 DEF HeldInv
<1> QED
  BY <1>2, <1>3, <1>5, <1>6, ActorDriven DEF HunterKept

LEMMA LetGoKeeps ==
    ASSUME ControlInv, Transformed!Release(monster), did' = Transformed!Nothing
    PROVE  HunterKept
<1>1. monster' = Transformed!release(monster) /\ controlled_monster' = Nobody
  BY DEF Transformed!Release
<1>2. CASE monster = Nobody
  <2>1. monster' = Nobody
    BY <1>1, <1>2 DEF Transformed!release
  <2> QED
    BY <1>1, <1>2, <2>1, NothingDriven DEF HunterKept, Same, HeldInv
<1>3. CASE monster # Nobody
  <2>1. monster \in Transformed!Controls
    BY <1>3, ControlTypes DEF ControlInv
  <2>2. /\ monster' \in Transformed!Controls /\ monster' # Nobody
        /\ monster'.species = monster.species /\ monster'.variant = monster.variant
        /\ monster'.instance = monster.instance
        /\ monster'.actor = Nobody /\ monster'.wait_frames = 0
    BY <1>1, <2>1, ReleaseKeeps
  <2>3. Same
    BY <1>3, <2>2 DEF Same
  <2>4. HeldInv'
    BY <1>1, <2>2, ControlAssumption DEF HeldInv
  <2> QED
    BY <1>1, <2>2, <2>3, <2>4, NothingDriven DEF HunterKept
<1> QED
  BY <1>2, <1>3

LEMMA ReleaseIfControlledKeeps ==
    ASSUME ControlInv, Transformed!ReleaseIfControlled
    PROVE  HunterKept
<1>1. CASE controlled_monster # Nobody
  BY <1>1, LetGoKeeps DEF Transformed!ReleaseIfControlled
<1>2. CASE controlled_monster = Nobody
  BY <1>2, IdleKeeps, NothingDriven DEF Transformed!ReleaseIfControlled, Transformed!control
<1> QED
  BY <1>1, <1>2

LEMMA TransitionKeeps ==
    ASSUME ControlInv, Transformed!Transition, Transformed!area_transition
    PROVE  HunterKept
<1>1. monster # Nobody
  BY DEF Transformed!Transition
<1>2. CASE monster.resume_at_arrival
  BY <1>2, IdleKeeps, NothingDriven DEF Transformed!area_transition, Transformed!control
<1>3. CASE ~monster.resume_at_arrival
  BY <1>1, <1>3, LeaveKeeps DEF Transformed!area_transition
<1> QED
  BY <1>2, <1>3

\* after_frame, once the instance is known: m is the transformation, perhaps with the
\* actor just made.
LEMMA SettleKeeps ==
    ASSUME NEW m \in Transformed!Controls, NEW pool, Transformed!Settle(m, pool),
           m.actor = controlled_monster,
           m.waiting => controlled_monster = Nobody /\ m.wait_frames < Patience,
           m.instance # Nobody =>
               \A s \in Slots : pool[s] # Nobody /\ pool[s].serial = m.instance.serial => pool[s].own
    PROVE  /\ HeldInv' /\ DidInv' /\ monster' \in Transformed!Controls /\ monster' # Nobody
           /\ monster'.species = m.species /\ monster'.variant = m.variant
           /\ monster'.instance = m.instance
           /\ controlled_monster' \in Slots \cup {Nobody}
<1> DEFINE b == Transformed!Bound(m, pool)
           Found == /\ ~moving /\ m.waiting /\ m.instance # Nobody
                    /\ Transformed!IsInstance(m, pool, m.instance.slot)
<1>0. /\ m.waiting \in BOOLEAN /\ m.wait_frames \in 0 .. Patience
      /\ m.instance # Nobody => m.instance.slot \in Slots
      /\ m.actor \in Slots \cup {Nobody} /\ Nobody \notin Slots
      /\ m # Nobody /\ Patience \in Nat
  BY ControlAssumption DEF Transformed!Controls, Transformed!Instances
<1>1. /\ b \in Transformed!Controls /\ b.species = m.species /\ b.variant = m.variant
      /\ b.instance = m.instance
      /\ b.waiting => b.actor = Nobody /\ b.wait_frames < Patience
      /\ b.actor = IF m.waiting /\ b.actor # Nobody THEN b.actor ELSE controlled_monster
  <2>1. CASE Found
    <3>1. b = [m EXCEPT !.actor = m.instance.slot, !.waiting = FALSE, !.resume_at_arrival = FALSE]
      BY <2>1 DEF Transformed!Bound
    <3>2. m.instance.slot \in Slots /\ m.instance.slot # Nobody
      BY <1>0, <2>1
    <3> HIDE DEF b
    <3>3. /\ b \in Transformed!Controls /\ b.species = m.species /\ b.variant = m.variant
          /\ b.instance = m.instance /\ ~b.waiting /\ b.actor = m.instance.slot
      BY <3>1, <3>2 DEF Transformed!Controls
    <3> QED
      BY <2>1, <3>2, <3>3
  <2>2. CASE ~Found /\ m.waiting
    <3>1. b = [m EXCEPT !.wait_frames = @ + 1, !.waiting = m.wait_frames + 1 < Patience]
      BY <2>2 DEF Transformed!Bound
    <3>2. m.wait_frames + 1 \in 0 .. Patience /\ (m.wait_frames + 1 < Patience) \in BOOLEAN
      BY <1>0, <2>2
    <3> HIDE DEF b
    <3>3. /\ b \in Transformed!Controls /\ b.species = m.species /\ b.variant = m.variant
          /\ b.instance = m.instance /\ b.actor = m.actor
          /\ b.waiting = (m.wait_frames + 1 < Patience) /\ b.wait_frames = m.wait_frames + 1
      BY <3>1, <3>2 DEF Transformed!Controls
    <3> QED
      BY <2>2, <3>3
  <2>3. CASE ~Found /\ ~m.waiting
    <3>1. b = m
      BY <2>3 DEF Transformed!Bound
    <3> QED
      BY <2>3, <3>1
  <2> QED
    BY <2>1, <2>2, <2>3
<1>2. /\ monster' = [b EXCEPT !.pending_action = @ /\ b.actor = Nobody]
      /\ controlled_monster' = IF m.waiting /\ b.actor # Nobody THEN b.actor ELSE controlled_monster
      /\ did' = Transformed!Drives(Transformed!ActorOf(b, pool), pool)
  BY DEF Transformed!Settle
<1> HIDE DEF b, Found
<1>3. (b.pending_action /\ b.actor = Nobody) \in BOOLEAN
  OBVIOUS
<1>4. /\ monster' \in Transformed!Controls
      /\ monster'.species = m.species /\ monster'.variant = m.variant
      /\ monster'.instance = m.instance /\ monster'.waiting = b.waiting
      /\ monster'.actor = b.actor /\ monster'.wait_frames = b.wait_frames
  BY <1>1, <1>2, <1>3 DEF Transformed!Controls
<1>5. monster' # Nobody
  BY <1>4, ControlAssumption
<1>6. controlled_monster' = b.actor
  BY <1>1, <1>2
<1>7. b.actor \in Slots \cup {Nobody}
  BY <1>1 DEF Transformed!Controls
<1>8. HeldInv'
  BY <1>1, <1>4, <1>5, <1>6 DEF HeldInv
<1>9. DidInv'
  BY <1>1, <1>2, <1>7, DrivesOwn DEF DidInv
<1> QED
  BY <1>4, <1>5, <1>6, <1>7, <1>8, <1>9

\* A frame step that leaves the queue alone.
LEMMA HunterStep ==
    ASSUME ControlInv, UNCHANGED Hunter, HunterKept,
           moving' \in BOOLEAN, scene' \in {"load", "play", "end", "exit"},
           scene' = "load" => scene = "load",
           scene' \in {"play", "end"} => scene \in {"play", "end"},
           hook' \in {"world", "commands", "frame"}, hook' # "commands" => batch' = << >>,
           UNCHANGED <<queue, batch, hud_target, sent>>
    PROVE  ControlInv'
<1>1. \A t \in AnyTarget : Timely(t) => TimelyIn(t, epoch', world', scene' = "load")
  BY ControlTypes, TargetsTimely DEF ControlInv, Hunter
<1>2. QueueInv'
  BY <1>1, QueueStep DEF ControlInv
<1>3. sent' \in 0 .. MaxRequests
  BY ControlTypes DEF ControlInv
<1> QED
  BY <1>2, <1>3, KeptStep DEF HunterKept

LEMMA TakeStep == ASSUME ControlInv, Transformed!Take PROVE ControlInv'
<1>1. /\ UNCHANGED Hunter /\ UNCHANGED <<monster, controlled_monster, scene, moving>>
      /\ did' = Transformed!Nothing /\ hook' = "commands" /\ batch' = queue /\ queue' = << >>
      /\ UNCHANGED <<hud_target, sent>>
  BY DEF Hunter, Transformed!Take, Transformed!game, Transformed!control
<1>2. \A t \in AnyTarget : Timely(t) => TimelyIn(t, epoch', world', scene' = "load")
  BY <1>1, ControlTypes, TargetsTimely DEF ControlInv, Hunter
<1>3. QueueInv'
  BY <1>1, <1>2, QueueStep DEF ControlInv
<1>4. HunterKept
  BY <1>1, IdleKeeps, NothingDriven
<1> QED
  BY <1>1, <1>3, <1>4, KeptStep, ControlTypes DEF ControlInv, HunterKept

\* A window sends a request about the target it holds.
LEMMA SendStep == ASSUME ControlInv, Transformed!send PROVE ControlInv'
<1>1. /\ UNCHANGED Hunter /\ UNCHANGED <<monster, controlled_monster, scene, moving, batch, hook>>
      /\ did' = Transformed!Nothing /\ Len(queue) < QueueLimit
      /\ sent' = sent + 1 /\ sent < MaxRequests /\ hud_target' \in {hud_target, Nobody}
  BY DEF Hunter, Transformed!send, Transformed!game, Transformed!control
<1>2. PICK c \in Transformed!Requests : queue' = Append(queue, c)
  BY DEF Transformed!send
<1>3. c \in AnyRequest /\ TimelyRequest(c)
  <2>1. CASE hud_target = Nobody
    BY <1>2, <2>1 DEF Transformed!Requests, AnyRequest, TimelyRequest, RequestIn
  <2>2. CASE hud_target # Nobody
    <3>1. hud_target \in AnyTarget /\ Timely(hud_target)
      BY <2>2 DEF ControlInv, QueueInv
    <3>2. c \in AnyRequest /\ (c.op \in {"replace", "apply"} => c.target = hud_target)
      BY <1>2, <2>2, <3>1 DEF Transformed!Requests, AnyRequest
    <3> QED
      BY <3>1, <3>2 DEF TimelyRequest, RequestIn, Timely
  <2> QED
    BY <2>1, <2>2
<1>4. /\ queue' \in Seq(AnyRequest) /\ Len(queue') <= QueueLimit
      /\ \A i \in 1 .. Len(queue') : TimelyRequest(queue'[i])
  <2>1. /\ queue \in Seq(AnyRequest) /\ Len(queue) \in Nat
        /\ \A i \in 1 .. Len(queue) : TimelyRequest(queue[i])
    BY DEF ControlInv, QueueInv
  <2>2. /\ queue' \in Seq(AnyRequest) /\ Len(queue') = Len(queue) + 1
        /\ \A i \in 1 .. Len(queue) : queue'[i] = queue[i]
        /\ queue'[Len(queue) + 1] = c
    BY <1>2, <1>3, <2>1
  <2>3. \A i \in 1 .. Len(queue') : i \in 1 .. Len(queue) \/ i = Len(queue) + 1
    BY <2>1, <2>2
  <2> QED
    BY <1>1, <1>3, <2>1, <2>2, <2>3, ControlAssumption
<1>5. QueueInv'
  BY <1>1, <1>4 DEF ControlInv, QueueInv, TimelyRequest, Timely, Hunter
<1>6. HunterKept
  BY <1>1, IdleKeeps, NothingDriven
<1>7. sent' \in 0 .. MaxRequests
  BY <1>1, ControlTypes, ControlAssumption DEF ControlInv
<1> QED
  BY <1>1, <1>5, <1>6, <1>7, KeptStep, ControlTypes DEF ControlInv, HunterKept

LEMMA BeforeFrameStep == ASSUME ControlInv, Transformed!BeforeFrame PROVE ControlInv'
<1>1. /\ UNCHANGED Hunter /\ scene' = scene /\ hook' = "frame"
      /\ UNCHANGED <<queue, batch, hud_target, sent>> /\ Transformed!before_frame
      /\ batch' = << >>
  BY DEF Hunter, Transformed!BeforeFrame
<1>2. moving \in BOOLEAN /\ scene \in {"load", "play", "end", "exit"}
  BY ControlTypes DEF ControlInv
<1>3. CASE Transformed!Transition /\ Transformed!area_transition /\ UNCHANGED moving
  BY <1>1, <1>2, <1>3, TransitionKeeps, HunterStep
<1>4. CASE Transformed!ReleaseIfControlled /\ UNCHANGED moving
  BY <1>1, <1>2, <1>4, ReleaseIfControlledKeeps, HunterStep
<1>5. CASE Transformed!Release(monster) /\ did' = Transformed!Nothing /\ UNCHANGED moving
  BY <1>1, <1>2, <1>5, LetGoKeeps, HunterStep
<1>6. CASE did' = Transformed!Drives(Transformed!actor, actors)
           /\ UNCHANGED <<Transformed!control, moving>>
  <2>1. UNCHANGED <<monster, controlled_monster>> /\ moving' = moving
    BY <1>6 DEF Transformed!control
  <2>2. DidInv'
    BY <1>6, ActorDriven
  <2> QED
    BY <1>1, <1>2, <2>1, <2>2, IdleKeeps, HunterStep
<1>7. CASE Transformed!actor # Nobody /\ moving' = TRUE /\ Transformed!Leave
  <2>1. monster # Nobody
    BY <1>7 DEF Transformed!actor, Transformed!ActorOf
  <2>2. moving' \in BOOLEAN
    BY <1>7
  <2> QED
    BY <1>1, <1>2, <1>7, <2>1, <2>2, LeaveKeeps, HunterStep
<1> QED
  BY <1>1, <1>3, <1>4, <1>5, <1>6, <1>7 DEF Transformed!before_frame

\* The targets of the snapshot after a frame.
LEMMA SnapshotQueue ==
    ASSUME ControlInv, Transformed!AfterFrame
    PROVE  QueueInv' /\ hook' = "world" /\ sent' \in 0 .. MaxRequests
<1>1. /\ UNCHANGED <<scene, world, epoch, queue, batch, sent>>
      /\ hook = "frame" /\ hook' = "world"
      /\ hud_target' \in {hud_target} \cup IF Transformed!ready /\ sent < MaxRequests
                                          THEN Transformed!Targets ELSE {}
  BY DEF Transformed!AfterFrame
<1>2. hud_target' # Nobody => hud_target' \in AnyTarget /\ Timely(hud_target)'
  <2>1. CASE hud_target' = hud_target
    BY <1>1, <2>1 DEF ControlInv, QueueInv, Timely
  <2>2. CASE scene = "play" /\ hud_target' \in Transformed!Targets
    <3>1. PICK s \in {x \in Slots : actors[x] # Nobody} :
             hud_target' = [slot |-> s, serial |-> actors[s].serial,
                            species |-> actors[s].species, epoch |-> epoch, world |-> world]
      BY <2>2 DEF Transformed!Targets
    <3>2. actors[s].serial \in Nat /\ actors[s].species \in Transformed!Species
      BY ControlTypes DEF ControlInv
    <3>3. epoch \in Nat /\ world \in Nat
      BY ControlTypes DEF ControlInv
    <3>4. hud_target' \in AnyTarget
      BY <3>1, <3>2, <3>3 DEF AnyTarget
    <3>5. hud_target'.epoch = epoch /\ hud_target'.world = world
      BY <3>1
    <3> QED
      BY <1>1, <2>2, <3>3, <3>4, <3>5 DEF Timely, TimelyIn
  <2> QED
    BY <1>1, <2>1, <2>2 DEF Transformed!ready
<1>3. batch = << >>
  BY <1>1 DEF ControlInv, QueueInv
<1>4. QueueInv'
  BY <1>1, <1>2, <1>3 DEF ControlInv, QueueInv, TimelyRequest
<1> QED
  BY <1>1, <1>4, ControlTypes DEF ControlInv

\* A frame after which there are the same actors.
LEMMA AfterKept ==
    ASSUME ControlInv, Transformed!AfterFrame, HunterKept, UNCHANGED <<actors, serial>>
    PROVE  ControlInv'
<1>1. UNCHANGED Hunter /\ scene' = scene /\ moving' = moving
  BY DEF Transformed!AfterFrame, Hunter
<1> QED
  BY <1>1, SnapshotQueue, KeptStep, ControlTypes DEF HunterKept, ControlInv

\* The transformation gets its actor: of its species and variant, and the only one.
LEMMA CreateStep ==
    ASSUME ControlInv, Transformed!AfterFrame, scene = "play", monster # Nobody,
           monster.waiting, Transformed!MayCreate, ~Transformed!VariantMissing,
           NEW slot \in Slots, NEW s \in Transformed!Recorded, NEW up \in BOOLEAN,
           actors[slot] = Nobody, serial' = serial + 1,
           actors' = [actors EXCEPT ![slot] = Transformed!Created(s, up)],
           Transformed!Settle([monster EXCEPT !.instance = [slot |-> slot, serial |-> serial + 1]],
                              actors')
    PROVE  ControlInv'
<1> DEFINE i == [slot |-> slot, serial |-> serial + 1]
           m == [monster EXCEPT !.instance = i]
           new == Transformed!Created(s, up)
<1>1. /\ UNCHANGED <<scene, moving, loaded, world, override, epoch, unloaded>>
      /\ monster.instance = Nobody
  BY DEF Transformed!AfterFrame, Transformed!MayCreate
<1>2. /\ monster \in Transformed!Controls /\ serial \in Nat
      /\ actors \in [Slots -> {Nobody} \cup [own : BOOLEAN, species : Transformed!Species,
                                             serial : Nat, live : BOOLEAN]]
      /\ \A t \in Slots : actors[t] # Nobody => actors[t].serial <= serial
  BY ControlTypes DEF ControlInv, InstanceInv
<1>3. i \in Transformed!Instances /\ i # Nobody /\ i.serial = serial + 1
  BY <1>2, ControlAssumption DEF Transformed!Instances
<1> HIDE DEF i
<1>4. /\ m \in Transformed!Controls /\ m.instance = i /\ m.species = monster.species
      /\ m.variant = monster.variant /\ m.actor = monster.actor /\ m.waiting
      /\ m.wait_frames = monster.wait_frames
  BY <1>2, <1>3 DEF Transformed!Controls
<1> HIDE DEF m
<1>5. /\ s \in Transformed!Species
      /\ ~unloaded => s = monster.species /\ loaded.loads[monster.species] = monster.variant
  <2>1. loaded \in Transformed!Quests
    BY ControlTypes DEF ControlInv
  <2>2. s \in Transformed!Species
    BY <2>1 DEF Transformed!Recorded, Transformed!Quests
  <2>3. ASSUME ~unloaded
        PROVE  s = monster.species /\ loaded.loads[monster.species] = monster.variant
    <3>1. loaded.spawn = monster.species /\ loaded.loads[monster.species] \in {monster.variant, 0}
      BY <2>3 DEF ControlInv, OwnInv
    <3>2. monster.species # Nobody
      BY <1>2, ControlAssumption DEF Transformed!Controls
    <3>3. s = monster.species
      BY <3>1, <3>2 DEF Transformed!Recorded
    <3> QED
      BY <3>1, <3>3 DEF Transformed!VariantMissing
  <2> QED
    BY <2>2, <2>3
<1>6. /\ new = [own |-> TRUE, species |-> s, serial |-> serial + 1, live |-> up]
      /\ new \in [own : BOOLEAN, species : Transformed!Species, serial : Nat, live : BOOLEAN]
      /\ new.own /\ new.species = s /\ new.serial = serial + 1
  BY <1>2, <1>5 DEF Transformed!Created
<1>7. /\ actors' = [actors EXCEPT ![slot] = new] /\ actors'[slot] = new
      /\ \A t \in Slots \ {slot} : actors'[t] = actors[t]
  BY <1>2
<1> HIDE DEF new
<1>8. \A t \in Slots : actors'[t] # Nobody =>
          /\ actors'[t].serial <= serial + 1
          /\ actors'[t].serial = serial + 1 => actors'[t].own
  <2> TAKE t \in Slots
  <2>1. CASE t = slot
    BY <1>2, <1>6, <1>7, <2>1
  <2>2. CASE t # slot
    <3>1. actors[t] # Nobody => actors[t].serial <= serial /\ actors[t].serial \in Nat
      BY <1>2
    <3> QED
      BY <1>2, <1>7, <2>2, <3>1
  <2> QED
    BY <2>1, <2>2
<1>9. /\ HeldInv' /\ DidInv' /\ monster' \in Transformed!Controls /\ monster' # Nobody
      /\ monster'.species = monster.species /\ monster'.variant = monster.variant
      /\ monster'.instance = i /\ controlled_monster' \in Slots \cup {Nobody}
  <2>1. Transformed!Settle(m, actors')
    BY DEF m, i
  <2>2. m.actor = controlled_monster /\ (controlled_monster = Nobody /\ m.wait_frames < Patience)
    BY <1>4 DEF ControlInv, HeldInv
  <2>3. \A t \in Slots : actors'[t] # Nobody /\ actors'[t].serial = m.instance.serial => actors'[t].own
    BY <1>3, <1>4, <1>8
  <2> QED
    BY <1>4, <2>1, <2>2, <2>3, SettleKeeps
<1>10. QueueInv' /\ hook' = "world" /\ sent' \in 0 .. MaxRequests
  BY SnapshotQueue
<1>11. Transformed!TypeOK'
  <2>1. actors' \in [Slots -> {Nobody} \cup [own : BOOLEAN, species : Transformed!Species,
                                             serial : Nat, live : BOOLEAN]]
    BY <1>2, <1>6, <1>7
  <2>2. (Len(queue) + Len(batch) <= 2 * QueueLimit)'
    <3>1. /\ Len(queue') \in Nat /\ Len(batch') \in Nat
          /\ Len(queue') <= QueueLimit /\ Len(batch') <= QueueLimit
      BY <1>10 DEF QueueInv
    <3> QED
      BY <3>1, ControlAssumption
  <2>3. hook' \in {"world", "commands", "frame"}
    BY <1>10
  <2>4. \A t \in Slots : actors'[t] # Nobody => actors'[t].serial <= serial'
    BY <1>8
  <2> QED
    BY <1>1, <1>9, <1>10, <2>1, <2>2, <2>3, <2>4 DEF ControlInv, Transformed!TypeOK
<1>12. InstanceInv'
  BY <1>1, <1>2, <1>3, <1>8, <1>9 DEF InstanceInv
<1>13. PreparedInv'
  BY <1>1, <1>9 DEF ControlInv, PreparedInv
<1>14. OwnInv'
  <2>1. ASSUME ~unloaded
        PROVE  \A t \in Slots : actors[t] # Nobody => ~actors[t].own
    BY <1>1, <2>1 DEF ControlInv, OwnInv
  <2>2. monster'.instance # Nobody
    BY <1>3, <1>9
  <2>3. ASSUME ~unloaded, NEW t \in Slots, actors'[t] # Nobody, actors'[t].own
        PROVE  t = slot
    BY <1>7, <2>1, <2>3
  <2>4. ~unloaded => /\ loaded.spawn = monster.species /\ monster.species \in DOMAIN loaded.loads
                     /\ loaded.loads[monster.species] \in {monster.variant, 0}
    BY DEF ControlInv, OwnInv
  <2> QED
    BY <1>1, <1>5, <1>6, <1>7, <1>9, <2>2, <2>3, <2>4 DEF OwnInv
<1> QED
  BY <1>9, <1>10, <1>11, <1>12, <1>13, <1>14 DEF ControlInv

LEMMA AfterFrameStep == ASSUME ControlInv, Transformed!AfterFrame PROVE ControlInv'
<1>1. Transformed!after_frame
  BY DEF Transformed!AfterFrame
<1>2. CASE Transformed!Transition /\ Transformed!area_transition /\ UNCHANGED <<actors, serial>>
  BY <1>2, TransitionKeeps, AfterKept
<1>3. CASE Transformed!ReleaseIfControlled /\ UNCHANGED <<actors, serial>>
  BY <1>3, ReleaseIfControlledKeeps, AfterKept
<1>4. CASE did' = Transformed!Nothing /\ UNCHANGED <<Transformed!control, actors, serial>>
  BY <1>4, NothingDriven, IdleKeeps, AfterKept DEF Transformed!control
<1>5. CASE /\ monster # Nobody /\ monster' = [monster EXCEPT !.waiting = FALSE]
           /\ did' = Transformed!Nothing /\ UNCHANGED <<controlled_monster, actors, serial>>
  <2>1. monster \in Transformed!Controls
    BY <1>5, ControlTypes DEF ControlInv
  <2>2. /\ monster' \in Transformed!Controls /\ ~monster'.waiting
        /\ monster'.species = monster.species /\ monster'.variant = monster.variant
        /\ monster'.instance = monster.instance /\ monster'.actor = monster.actor
    BY <1>5, <2>1 DEF Transformed!Controls
  <2>3. monster' # Nobody
    BY <2>2, ControlAssumption
  <2>4. HunterKept
    BY <1>5, <2>2, <2>3, NothingDriven, ControlTypes DEF ControlInv, HunterKept, Same, HeldInv
  <2> QED
    BY <1>5, <2>4, AfterKept
<1>6. CASE /\ Transformed!active_scene /\ monster # Nobody
           /\ monster.waiting /\ Transformed!MayCreate /\ ~Transformed!VariantMissing
           /\ \E slot \in Slots, s \in Transformed!Recorded, up \in BOOLEAN :
                 /\ actors[slot] = Nobody
                 /\ actors' = [actors EXCEPT ![slot] = Transformed!Created(s, up)]
                 /\ serial' = serial + 1
                 /\ Transformed!Settle([monster EXCEPT !.instance =
                                            [slot |-> slot, serial |-> serial + 1]], actors')
  BY <1>6, CreateStep DEF Transformed!active_scene
<1>7. CASE monster # Nobody /\ Transformed!Settle(monster, actors) /\ UNCHANGED <<actors, serial>>
  <2>1. monster \in Transformed!Controls
    BY <1>7, ControlTypes DEF ControlInv
  <2>2. /\ monster.actor = controlled_monster
        /\ monster.waiting => controlled_monster = Nobody /\ monster.wait_frames < Patience
        /\ monster.instance # Nobody =>
              \A s \in Slots : actors[s] # Nobody /\ actors[s].serial = monster.instance.serial
                 => actors[s].own
    BY <1>7 DEF ControlInv, HeldInv, InstanceInv
  <2>3. HunterKept
    BY <1>7, <2>1, <2>2, SettleKeeps DEF HunterKept, Same
  <2> QED
    BY <1>7, <2>3, AfterKept
<1> QED
  BY <1>1, <1>2, <1>3, <1>4, <1>5, <1>6, <1>7 DEF Transformed!after_frame

(* The game                                                                *)

\* What the game leaves alone.
LEMMA NativeKeeps ==
    ASSUME ControlInv, Transformed!Native
    PROVE  /\ UNCHANGED <<monster, controlled_monster, override, epoch,
                          queue, batch, hook, hud_target, sent>>
           /\ did' = Transformed!Nothing /\ HunterKept
           /\ hook' \in {"world", "commands", "frame"} /\ sent' \in 0 .. MaxRequests
<1>1. UNCHANGED <<monster, controlled_monster, override, epoch, queue, batch, hook, hud_target, sent>>
      /\ did' = Transformed!Nothing
  BY DEF Transformed!Native, Transformed!control, Transformed!input
<1> QED
  BY <1>1, IdleKeeps, NothingDriven, ControlTypes DEF ControlInv

LEMMA FinishStep == ASSUME ControlInv, Transformed!Finish PROVE ControlInv'
<1>1. /\ Transformed!Native /\ scene = "play" /\ scene' = "end" /\ moving' = FALSE
      /\ UNCHANGED <<loaded, actors, serial, world, unloaded>>
  BY DEF Transformed!Finish
<1>2. UNCHANGED Hunter /\ HunterKept /\ UNCHANGED <<queue, batch, hud_target, sent, hook>>
  BY <1>1, NativeKeeps DEF Hunter
<1>3. hook' # "commands" => batch' = << >>
  BY <1>2 DEF ControlInv, QueueInv
<1> QED
  BY <1>1, <1>2, <1>3, HunterStep, ControlTypes DEF ControlInv

LEMMA TravelStep == ASSUME ControlInv, Transformed!Travel PROVE ControlInv'
<1>1. /\ Transformed!Native /\ scene' = scene /\ moving' = ~moving
      /\ UNCHANGED <<loaded, actors, serial, world, unloaded>>
  BY DEF Transformed!Travel
<1>2. UNCHANGED Hunter /\ HunterKept /\ UNCHANGED <<queue, batch, hud_target, sent, hook>>
  BY <1>1, NativeKeeps DEF Hunter
<1>3. hook' # "commands" => batch' = << >>
  BY <1>2 DEF ControlInv, QueueInv
<1>4. moving' \in BOOLEAN
  BY <1>1
<1> QED
  BY <1>1, <1>2, <1>3, <1>4, HunterStep, ControlTypes DEF ControlInv

\* A world from the prepared quest: nobody in it is ours.
LEMMA LoadStep == ASSUME ControlInv, Transformed!Load PROVE ControlInv'
<1> DEFINE none == [override EXCEPT !.loads = [s \in DOMAIN @ |-> 0]]
           target == [own |-> FALSE, species |-> override.target, serial |-> 1, live |-> TRUE]
<1>1. /\ Transformed!Native /\ scene = "load" /\ scene' = "play" /\ moving' = FALSE
      /\ world' = world + 1 /\ serial' = 1 /\ unloaded' = FALSE
      /\ loaded' \in {override, none}
      /\ actors' = [s \in Slots |-> IF s = 1 THEN target ELSE Nobody]
      /\ hook = "frame"
  BY DEF Transformed!Load
<1>2. /\ UNCHANGED <<monster, controlled_monster, override, epoch, queue, batch, hook, hud_target, sent>>
      /\ HunterKept /\ hook' \in {"world", "commands", "frame"} /\ sent' \in 0 .. MaxRequests
  BY <1>1, NativeKeeps
<1>3. override \in Transformed!Quests /\ world \in Nat
  BY ControlTypes DEF ControlInv
<1>4. /\ loaded' \in Transformed!Quests /\ loaded'.spawn = override.spawn
      /\ DOMAIN loaded'.loads = DOMAIN override.loads
      /\ \A s \in DOMAIN override.loads : loaded'.loads[s] \in {override.loads[s], 0}
  <2>1. CASE loaded' = override
    BY <1>3, <2>1
  <2>2. CASE loaded' = none
    <3> DEFINE old == override.loads
               loads == [s \in DOMAIN old |-> 0]
    <3>1. PICK S \in SUBSET Transformed!Species : old \in [S -> Transformed!Variants]
      BY <1>3 DEF Transformed!Quests
    <3>2. loads \in [S -> Transformed!Variants]
      BY <3>1 DEF Transformed!Variants
    <3>3. loads \in Loads
      BY <3>2 DEF Loads
    <3>4. loaded' = [override EXCEPT !.loads = loads]
      BY <2>2
    <3>5. DOMAIN loads = DOMAIN old /\ \A s \in DOMAIN old : loads[s] = 0
      OBVIOUS
    <3> HIDE DEF loads
    <3>6. override \in [target : Transformed!Species,
              spawn : Transformed!Species \cup {Nobody}, loads : Loads]
      BY <1>3 DEF Transformed!Quests, Loads
    <3>7. /\ loaded' \in Transformed!Quests /\ loaded'.spawn = override.spawn
          /\ loaded'.loads = loads
      BY <3>3, <3>4, <3>6 DEF Transformed!Quests, Loads
    <3> QED
      BY <3>5, <3>7
  <2> QED
    BY <1>1, <2>1, <2>2
<1>5. /\ target \in [own : BOOLEAN, species : Transformed!Species, serial : Nat, live : BOOLEAN]
      /\ ~target.own /\ target.serial = 1
  BY <1>3 DEF Transformed!Quests
<1> HIDE DEF none, target
<1>6. /\ actors' \in [Slots -> {Nobody} \cup [own : BOOLEAN, species : Transformed!Species,
                                              serial : Nat, live : BOOLEAN]]
      /\ \A s \in Slots : actors'[s] # Nobody => actors'[s].serial <= serial' /\ ~actors'[s].own
  BY <1>1, <1>5
<1>7. QueueInv'
  <2>1. \A t \in AnyTarget : Timely(t) => TimelyIn(t, epoch', world', scene' = "load")
    BY <1>1, <1>2, ControlTypes, TargetsTimely DEF ControlInv
  <2>2. hook' # "commands" => batch = << >>
    BY <1>2 DEF ControlInv, QueueInv
  <2> QED
    BY <1>2, <2>1, <2>2, QueueStep DEF ControlInv
<1>8. Transformed!TypeOK'
  <2>1. (Len(queue) + Len(batch) <= 2 * QueueLimit)'
    BY <1>2 DEF ControlInv, Transformed!TypeOK
  <2>2. scene' \in {"load", "play", "end", "exit"} /\ moving' \in BOOLEAN /\ unloaded' \in BOOLEAN
    BY <1>1
  <2>3. world' \in Nat /\ epoch' \in Nat
    BY <1>1, <1>2, <1>3, ControlTypes DEF ControlInv
  <2>4. /\ override' \in Transformed!Quests /\ controlled_monster' \in Slots \cup {Nobody}
        /\ monster' \in {Nobody} \cup Transformed!Controls
    BY <1>2, <1>3, ControlTypes DEF ControlInv
  <2>5. \A s \in Slots : actors'[s] # Nobody => actors'[s].serial <= serial'
    BY <1>6
  <2> QED
    BY <1>2, <1>4, <1>6, <2>1, <2>2, <2>3, <2>4, <2>5 DEF Transformed!TypeOK
<1>9. InstanceInv'
  BY <1>1, <1>2 DEF ControlInv, InstanceInv
<1>10. PreparedInv'
  BY <1>2 DEF ControlInv, PreparedInv
<1>11. OwnInv'
  <2>1. monster # Nobody =>
           /\ override.spawn = monster.species /\ monster.species \in DOMAIN override.loads
           /\ override.loads[monster.species] = monster.variant
    BY ControlTypes, ControlAssumption DEF ControlInv, PreparedInv, Transformed!Controls
  <2> QED
    BY <1>2, <1>4, <1>6, <2>1 DEF OwnInv
<1> QED
  BY <1>2, <1>7, <1>8, <1>9, <1>10, <1>11 DEF ControlInv, HunterKept

\* The game makes, frees and changes actors of its own, and frees ours.
LEMMA PoolStep == ASSUME ControlInv, Transformed!Pool PROVE ControlInv'
<1>1. /\ Transformed!Native /\ hook = "frame" /\ scene \in {"play", "end"}
      /\ UNCHANGED <<scene, moving, loaded, world, unloaded>>
  BY DEF Transformed!Pool
<1>2. /\ UNCHANGED <<monster, controlled_monster, override, epoch, queue, batch, hook, hud_target, sent>>
      /\ HunterKept /\ hook' \in {"world", "commands", "frame"} /\ sent' \in 0 .. MaxRequests
  BY <1>1, NativeKeeps
<1>3. /\ serial \in Nat /\ loaded \in Transformed!Quests
      /\ actors \in [Slots -> {Nobody} \cup [own : BOOLEAN, species : Transformed!Species,
                                             serial : Nat, live : BOOLEAN]]
      /\ \A t \in Slots : actors[t] # Nobody => actors[t].serial <= serial
  BY ControlTypes DEF ControlInv, InstanceInv
<1>4. PICK slot \in Slots \ {1} :
        \/ /\ actors[slot] # Nobody
           /\ actors' = [actors EXCEPT ![slot].live = ~@] /\ UNCHANGED serial
        \/ actors' = [actors EXCEPT ![slot] = Nobody] /\ UNCHANGED serial
        \/ /\ serial' = serial + 1
           /\ actors' = [actors EXCEPT ![slot] =
                  [own |-> FALSE, species |-> loaded.target,
                   serial |-> serial + 1, live |-> TRUE]]
  BY DEF Transformed!Pool
<1>5. /\ serial' \in Nat /\ serial <= serial'
      /\ actors' \in [Slots -> {Nobody} \cup [own : BOOLEAN, species : Transformed!Species,
                                              serial : Nat, live : BOOLEAN]]
      /\ \A t \in Slots : actors'[t] # Nobody =>
            /\ actors'[t].serial <= serial'
            /\ \/ /\ actors[t] # Nobody /\ actors'[t].own = actors[t].own
                  /\ actors'[t].species = actors[t].species /\ actors'[t].serial = actors[t].serial
               \/ ~actors'[t].own /\ actors'[t].serial = serial + 1
  <2>1. CASE /\ actors[slot] # Nobody
             /\ actors' = [actors EXCEPT ![slot].live = ~@] /\ UNCHANGED serial
    <3> DEFINE new == [actors[slot] EXCEPT !.live = ~actors[slot].live]
    <3>1. /\ new \in [own : BOOLEAN, species : Transformed!Species, serial : Nat, live : BOOLEAN]
          /\ new.own = actors[slot].own /\ new.species = actors[slot].species
          /\ new.serial = actors[slot].serial
      BY <1>3, <2>1
    <3>2. actors' = [actors EXCEPT ![slot] = new]
      BY <2>1
    <3> HIDE DEF new
    <3> QED
      BY <1>3, <2>1, <3>1, <3>2
  <2>2. CASE actors' = [actors EXCEPT ![slot] = Nobody] /\ UNCHANGED serial
    BY <1>3, <2>2
  <2>3. CASE /\ serial' = serial + 1
             /\ actors' = [actors EXCEPT ![slot] =
                    [own |-> FALSE, species |-> loaded.target,
                     serial |-> serial + 1, live |-> TRUE]]
    <3> DEFINE new == [own |-> FALSE, species |-> loaded.target,
                       serial |-> serial + 1, live |-> TRUE]
    <3>1. /\ new \in [own : BOOLEAN, species : Transformed!Species, serial : Nat, live : BOOLEAN]
          /\ ~new.own /\ new.serial = serial + 1
      BY <1>3 DEF Transformed!Quests
    <3>2. actors' = [actors EXCEPT ![slot] = new]
      BY <2>3
    <3> HIDE DEF new
    <3>3. \A t \in Slots : actors[t] # Nobody => actors[t].serial <= serial + 1
      BY <1>3
    <3>4. serial' = serial + 1 /\ serial' \in Nat /\ serial <= serial' /\ serial + 1 <= serial'
      BY <1>3, <2>3
    <3>5. /\ actors' \in [Slots -> {Nobody} \cup [own : BOOLEAN, species : Transformed!Species,
                                                   serial : Nat, live : BOOLEAN]]
          /\ actors'[slot] = new /\ \A t \in Slots \ {slot} : actors'[t] = actors[t]
      BY <1>3, <3>1, <3>2
    <3>6. ASSUME NEW t \in Slots, actors'[t] # Nobody
          PROVE  /\ actors'[t].serial <= serial'
                 /\ \/ /\ actors[t] # Nobody /\ actors'[t].own = actors[t].own
                       /\ actors'[t].species = actors[t].species /\ actors'[t].serial = actors[t].serial
                    \/ ~actors'[t].own /\ actors'[t].serial = serial + 1
      <4>1. CASE t = slot
        BY <3>1, <3>4, <3>5, <4>1
      <4>2. CASE t # slot
        BY <3>3, <3>4, <3>5, <3>6, <4>2
      <4> QED
        BY <4>1, <4>2
    <3> QED
      BY <3>4, <3>5, <3>6
  <2> QED
    BY <1>4, <2>1, <2>2, <2>3
<1>6. QueueInv'
  <2>1. \A t \in AnyTarget : Timely(t) => TimelyIn(t, epoch', world', scene' = "load")
    BY <1>1, <1>2, ControlTypes, TargetsTimely DEF ControlInv
  <2>2. hook' # "commands" => batch = << >>
    BY <1>2 DEF ControlInv, QueueInv
  <2> QED
    BY <1>2, <2>1, <2>2, QueueStep DEF ControlInv
<1>7. Transformed!TypeOK'
  <2>1. (Len(queue) + Len(batch) <= 2 * QueueLimit)'
    BY <1>2 DEF ControlInv, Transformed!TypeOK
  <2> QED
    BY <1>1, <1>2, <1>5, <2>1 DEF ControlInv, Transformed!TypeOK
<1>8. InstanceInv'
  <2>1. ASSUME monster # Nobody, monster.instance # Nobody
        PROVE  /\ monster.instance.serial <= serial'
               /\ \A s \in Slots : actors'[s] # Nobody /\ actors'[s].serial = monster.instance.serial
                     => actors'[s].own
    <3>1. monster.instance.serial \in Nat
      BY <2>1, ControlTypes DEF ControlInv, Transformed!Controls, Transformed!Instances
    <3>2. /\ monster.instance.serial <= serial
          /\ \A s \in Slots : actors[s] # Nobody /\ actors[s].serial = monster.instance.serial
                => actors[s].own
      BY <2>1 DEF ControlInv, InstanceInv
    <3> QED
      BY <1>3, <1>5, <3>1, <3>2
  <2> QED
    BY <1>1, <1>2, <1>5, <2>1 DEF InstanceInv
<1>9. PreparedInv'
  BY <1>2 DEF ControlInv, PreparedInv
<1>10. OwnInv'
  <2>1. OwnInv
    BY DEF ControlInv
  <2>2. \A t \in Slots : actors'[t] # Nobody /\ actors'[t].own =>
           actors[t] # Nobody /\ actors[t].own /\ actors'[t].species = actors[t].species
    BY <1>5
  <2> QED
    BY <1>1, <1>2, <2>1, <2>2 DEF OwnInv
<1> QED
  BY <1>2, <1>6, <1>7, <1>8, <1>9, <1>10 DEF ControlInv, HunterKept

(* The theorems                                                            *)

LEMMA ControlInit == ASSUME Transformed!Init PROVE ControlInv
<1>1. /\ scene = "load" /\ moving = FALSE /\ world = 0 /\ serial = 0
      /\ loaded = Transformed!OriginalQuest /\ override = Transformed!OriginalQuest
      /\ monster = Nobody /\ controlled_monster = Nobody /\ epoch = 0 /\ unloaded = FALSE
      /\ did = Transformed!Nothing /\ queue = << >> /\ batch = << >> /\ hook = "world"
      /\ hud_target = Nobody /\ sent = 0
      /\ actors \in [Slots -> {Nobody}] /\ \A s \in Slots : actors[s] = Nobody
  BY DEF Transformed!Init
<1>2. Transformed!TypeOK
  <2>1. Len(queue) + Len(batch) <= 2 * QueueLimit
    <3>1. Len(queue) = 0 /\ Len(batch) = 0
      BY <1>1
    <3> QED
      BY <3>1, ControlAssumption
  <2>2. sent \in 0 .. MaxRequests
    BY <1>1, ControlAssumption
  <2> QED
    BY <1>1, <2>1, <2>2, OriginalQuestFits DEF Transformed!TypeOK
<1>3. QueueInv
  <2>1. queue \in Seq(AnyRequest) /\ batch \in Seq(AnyRequest) /\ Len(queue) = 0 /\ Len(batch) = 0
    BY <1>1
  <2> QED
    BY <1>1, <2>1, ControlAssumption DEF QueueInv
<1>4. InstanceInv /\ HeldInv /\ OwnInv
  BY <1>1 DEF InstanceInv, HeldInv, OwnInv
<1>5. PreparedInv
  BY <1>1, OriginalQuestFits DEF PreparedInv
<1>6. DidInv
  BY <1>1 DEF DidInv, Transformed!Nothing
<1> QED
  BY <1>2, <1>3, <1>4, <1>5, <1>6 DEF ControlInv

LEMMA ControlStep ==
    ASSUME ControlInv, [Transformed!Next]_(Transformed!vars)
    PROVE  ControlInv'
<1>1. CASE Transformed!Next
  BY <1>1, TakeStep, ExecuteStep, BeforeFrameStep, AfterFrameStep, SendStep, LoadStep,
     FinishStep, TravelStep, PoolStep DEF Transformed!Next, Transformed!Frame
<1>2. CASE UNCHANGED Transformed!vars
  BY <1>2 DEF Transformed!vars, Transformed!game, Transformed!control, Transformed!input,
     ControlInv, Transformed!TypeOK, QueueInv, InstanceInv, HeldInv, PreparedInv, OwnInv, DidInv,
     Timely, TimelyRequest
<1> QED
  BY <1>1, <1>2

\* The invariant of the transformation: what is kept about an actor is that of our
\* actor, requests of an earlier world are told apart by the epoch, and the prepared
\* quest fits the transformation, whatever the game does with its pool and its worlds.
THEOREM ControlInvariant == Transformed!Spec => []ControlInv
<1>1. Transformed!Init => ControlInv
  BY ControlInit
<1>2. ControlInv /\ [Transformed!Next]_(Transformed!vars) => ControlInv'
  BY ControlStep
<1> QED
  BY <1>1, <1>2, PTL DEF Transformed!Spec

\* monster.rs never drives, moves or triggers an actor other than the one made for the
\* hunter, an edit reaches the monster it was chosen for, and the hunter is held back
\* exactly while there is a monster in its place.
THEOREM ControlWritesReachTheirActor == Transformed!Spec => []WritesReachTheirActor
<1>1. ControlInv => WritesReachTheirActor
  BY DEF ControlInv, WritesReachTheirActor, Transformed!WritesReachTheirActor, HeldInv, DidInv
<1> QED
  BY <1>1, ControlInvariant, PTL

\* The prepared quest always fits the transformation, and a world never has two of our
\* actors, nor one of another species or variant than was asked for.
THEOREM ControlCreatedAsPrepared == Transformed!Spec => []CreatedAsPrepared
<1>1. ASSUME ControlInv PROVE CreatedAsPrepared
  <2>1. IF monster = Nobody THEN override.spawn = Nobody
        ELSE override.spawn = monster.species /\ override.loads[monster.species] = monster.variant
    BY <1>1 DEF ControlInv, PreparedInv
  <2>2. ASSUME ~unloaded, NEW s \in Slots, actors[s] # Nobody, actors[s].own
        PROVE  /\ \A t \in Slots \ {s} : actors[t] = Nobody \/ ~actors[t].own
               /\ monster # Nobody /\ actors[s].species = monster.species
               /\ loaded.loads[monster.species] = monster.variant
    BY <1>1, <2>2 DEF ControlInv, OwnInv
  <2> QED
    BY <2>1, <2>2 DEF CreatedAsPrepared, Transformed!CreatedAsPrepared
<1> QED
  BY <1>1, ControlInvariant, PTL

(***************************************************************************)
(* The debugger of an AI (AiDebug)                                         *)
(***************************************************************************)

\* The turn under way is where the interpreter is, and a turn that was cut short is the
\* one that the session holds; nothing of an earlier instance or of an earlier control
\* state can be taken up again.
TurnInv ==
  /\ registers \in AnyTurn /\ unfinished \in AnyTurn
  /\ session # NoSession =>
       /\ session.version <= actor.version
       /\ session.resume # NoTurn => session.resume.control <= actor.control
  /\ unfinished # NoTurn => unfinished.control <= actor.control
  /\ phase \in Turns =>
       /\ registers = unfinished /\ registers # NoTurn /\ registers.control = actor.control
       /\ ~owed
       /\ Valid(session) => session.resume = NoTurn
  /\ phase \in {"detach", "attach"} => Valid(session) /\ session.detaching
  /\ phase \notin Turns =>
       /\ Fits(unfinished) => Valid(session) /\ session.resume = unfinished
       /\ Valid(session) /\ Fits(session.resume) => unfinished = session.resume

\* A turn that the pump began is known to the session until the tick is over.
RanInv ==
  /\ ran \in {0, 1} /\ ticked \in BOOLEAN /\ owed \in BOOLEAN /\ controlled \in BOOLEAN
  /\ phase = "tick" => ticked
  /\ phase \in {"pump", "world"} /\ ~ticked /\ ran # 0 => Valid(session) /\ session.pumped

AiInv == TypeOK /\ TurnInv /\ RanInv /\ TriggerKept

\* What the debugger's own functions leave alone.
Keeps(s, t) ==
  /\ t \in Sessions /\ t.version = s.version /\ t.resume = s.resume /\ t.wake = s.wake
  /\ t.pumped = s.pumped /\ t.entered = s.entered /\ t.detaching = s.detaching
\* It is paused exactly when there is a reason.
Reasoned(s) == s.mode = "paused" <=> s.stop_reason # "none"

LEMMA StopKeeps ==
  ASSUME NEW s \in Sessions,
         NEW why \in {"user", "breakpoint", "step", "yielded", "budget", "invalidated"}
  PROVE  /\ Keeps(s, Stop(s, why)) /\ Reasoned(Stop(s, why))
         /\ Stop(s, why).pending = s.pending /\ Stop(s, why).mode = "paused"
<1>1. NoBudget \in 0 .. NoBudget
  BY ScriptAssumption DEF NoBudget
<1>2. Stop(s, why) \in Sessions
  BY <1>1 DEF Stop, Sessions
<1> QED
  BY <1>2 DEF Stop, Sessions, Keeps, Reasoned

LEMMA ResumeKeeps ==
  ASSUME NEW s \in Sessions
  PROVE  Keeps(s, Resume(s)) /\ Reasoned(Resume(s)) /\ Resume(s).pending = s.pending
<1>1. NoBudget \in 0 .. NoBudget
  BY ScriptAssumption DEF NoBudget
<1>2. Resume(s) \in Sessions
  BY <1>1 DEF Resume, Sessions
<1> QED
  BY <1>2 DEF Resume, Sessions, Keeps, Reasoned

LEMMA StepKeeps ==
  ASSUME NEW s \in Sessions
  PROVE  Keeps(s, Step(s)) /\ Reasoned(Step(s)) /\ Step(s).pending = s.pending
<1>1. NoBudget \in 0 .. NoBudget
  BY ScriptAssumption DEF NoBudget
<1>2. Step(s) \in Sessions
  BY <1>1 DEF Step, Sessions
<1> QED
  BY <1>2 DEF Step, Sessions, Keeps, Reasoned

LEMMA RunUntilYieldKeeps ==
  ASSUME NEW s \in Sessions
  PROVE  /\ Keeps(s, RunUntilYield(s)) /\ Reasoned(RunUntilYield(s))
         /\ RunUntilYield(s).pending = s.pending
<1> DEFINE r == Resume(s)
<1>1. Keeps(s, r) /\ r.pending = s.pending /\ r.stop_reason = "none"
  BY ResumeKeeps DEF Resume, Sessions
<1> HIDE DEF r
<1>2. RunUntilYield(s) = [r EXCEPT !.mode = "until yield", !.remaining = MaxCount]
  BY DEF RunUntilYield, r
<1>3. MaxCount \in 0 .. NoBudget
  BY ScriptAssumption DEF NoBudget
<1>4. r \in Sessions
  BY <1>1 DEF Keeps
<1>5. /\ RunUntilYield(s) \in Sessions /\ Keeps(r, RunUntilYield(s))
      /\ RunUntilYield(s).pending = r.pending
      /\ RunUntilYield(s).mode = "until yield" /\ RunUntilYield(s).stop_reason = r.stop_reason
  <2>1. RunUntilYield(s) \in Sessions
    BY <1>2, <1>3, <1>4 DEF Sessions
  <2> QED
    BY <1>2, <1>4, <2>1 DEF Keeps, Sessions
<1> QED
  BY <1>1, <1>5 DEF Keeps, Reasoned

LEMMA BeforeKeeps ==
  ASSUME NEW s \in Sessions, Reasoned(s), NEW pc \in Positions
  PROVE  /\ Keeps(s, BeforeInstruction(s, pc)) /\ Reasoned(BeforeInstruction(s, pc))
         /\ BeforeInstruction(s, pc).pending = s.pending
<1> DEFINE taken == [s EXCEPT !.skip_boundary = 0]
           waived == [s EXCEPT !.skip_once = FALSE]
           halted == [Stop(taken, "breakpoint") EXCEPT !.breakpoint_boundary = pc]
           after == BeforeInstruction(s, pc)
<1>1. taken \in Sessions /\ Keeps(s, taken) /\ Reasoned(taken) /\ taken.pending = s.pending
  <2>1. taken \in Sessions
    BY DEF Sessions
  <2> QED
    BY <2>1 DEF Sessions, Keeps, Reasoned
<1>2. Keeps(s, waived) /\ Reasoned(waived) /\ waived.pending = s.pending
  <2>1. waived \in Sessions
    BY DEF Sessions
  <2> QED
    BY <2>1 DEF Sessions, Keeps, Reasoned
<1>3. after = s \/ after = waived \/ after = taken \/ after = halted
  BY DEF BeforeInstruction
<1>4. Keeps(s, halted) /\ Reasoned(halted) /\ halted.pending = s.pending
  <2> DEFINE stop == Stop(taken, "breakpoint")
  <2>1. Keeps(taken, stop) /\ Reasoned(stop) /\ stop.pending = taken.pending
    BY <1>1, StopKeeps
  <2>2. pc \in Nat
    BY ScriptAssumption
  <2> HIDE DEF stop, taken
  <2>3. halted = [stop EXCEPT !.breakpoint_boundary = pc]
    BY DEF stop
  <2> HIDE DEF halted
  <2>4. halted \in Sessions
    BY <2>1, <2>2, <2>3 DEF Keeps, Sessions
  <2>5. /\ Keeps(stop, halted) /\ halted.pending = stop.pending
        /\ halted.mode = stop.mode /\ halted.stop_reason = stop.stop_reason
    BY <2>1, <2>3, <2>4 DEF Keeps, Sessions
  <2> QED
    BY <1>1, <2>1, <2>5 DEF Keeps, Reasoned
<1>5. Keeps(s, s)
  BY DEF Keeps
<1> HIDE DEF taken, waived, halted
<1>6. Keeps(s, after) /\ Reasoned(after) /\ after.pending = s.pending
  <2> HIDE DEF after
  <2> QED
    BY <1>1, <1>2, <1>3, <1>4, <1>5
<1> QED
  BY <1>6

\* The outcome of an instruction is recorded once.
LEMMA CompleteKeeps ==
  ASSUME NEW s \in Sessions, Reasoned(s), NEW outcome, actor.field \in {0, 1}
  PROVE  /\ Keeps(s, Complete(s, outcome)) /\ Reasoned(Complete(s, outcome))
         /\ Complete(s, outcome).pending = NoField
<1> DEFINE r == [s EXCEPT !.pending = NoField, !.seen = actor.field]
<1>1. CASE s.pending = NoField
  BY <1>1 DEF Complete, Keeps
<1>2. CASE s.pending # NoField
  <2>1. Complete(s, outcome) = AfterInstruction(s, outcome)
    BY <1>2 DEF Complete
  <2>2. r \in Sessions /\ Keeps(s, r) /\ Reasoned(r) /\ r.pending = NoField
    <3>0. actor.field \in 0 .. NoField /\ NoField \in 0 .. NoField
      BY DEF NoField
    <3>1. r \in Sessions
      BY <3>0 DEF Sessions
    <3> QED
      BY <3>1 DEF Sessions, Keeps, Reasoned
  <2>3. \/ \E why \in {"breakpoint", "step", "yielded", "budget"} :
              AfterInstruction(s, outcome) = Stop(r, why)
        \/ AfterInstruction(s, outcome) = r
        \/ s.remaining > 1 /\ AfterInstruction(s, outcome) = [r EXCEPT !.remaining = @ - 1]
    <3>1. s.remaining <= 1 \/ s.remaining > 1
      <4>1. s.remaining \in 0 .. NoBudget
        BY DEF Sessions
      <4> QED
        BY <4>1
    <3> DEFINE why == IF s.watch /\ s.pending # actor.field THEN "breakpoint"
                      ELSE IF s.mode = "step" THEN "step"
                      ELSE IF s.mode = "until yield" /\ outcome # "continue" THEN "yielded"
                      ELSE "budget"
    <3>2. why \in {"breakpoint", "step", "yielded", "budget"}
      OBVIOUS
    <3>3. \/ AfterInstruction(s, outcome) = Stop(r, why)
          \/ AfterInstruction(s, outcome) = r
          \/ s.remaining > 1 /\ AfterInstruction(s, outcome) = [r EXCEPT !.remaining = @ - 1]
      BY <3>1 DEF AfterInstruction
    <3> HIDE DEF why, r
    <3> QED
      BY <3>2, <3>3
  <2>4. r.remaining = s.remaining
    BY DEF Sessions
  <2> HIDE DEF r
  <2>5. CASE \E why \in {"breakpoint", "step", "yielded", "budget"} :
               AfterInstruction(s, outcome) = Stop(r, why)
    <3>1. PICK why \in {"breakpoint", "step", "yielded", "budget"} :
             AfterInstruction(s, outcome) = Stop(r, why)
      BY <2>5
    <3>2. Keeps(r, Stop(r, why)) /\ Reasoned(Stop(r, why)) /\ Stop(r, why).pending = r.pending
      BY <2>2, StopKeeps
    <3> QED
      BY <2>1, <2>2, <3>1, <3>2 DEF Keeps
  <2>6. CASE s.remaining > 1 /\ AfterInstruction(s, outcome) = [r EXCEPT !.remaining = @ - 1]
    <3> DEFINE left == r.remaining - 1
    <3>1. left \in 0 .. NoBudget
      <4>1. r.remaining \in 0 .. NoBudget
        BY <2>2 DEF Sessions
      <4>2. NoBudget \in Nat
        BY ScriptAssumption DEF NoBudget
      <4> HIDE DEF NoBudget
      <4> QED
        BY <2>4, <2>6, <4>1, <4>2
    <3>2. AfterInstruction(s, outcome) = [r EXCEPT !.remaining = left]
      BY <2>6
    <3> HIDE DEF left
    <3>3. AfterInstruction(s, outcome) \in Sessions
      <4>1. r \in Sessions
        BY <2>2
      <4> QED
        BY <3>1, <3>2, <4>1 DEF Sessions
    <3>4. /\ Keeps(r, AfterInstruction(s, outcome)) /\ AfterInstruction(s, outcome).pending = r.pending
          /\ AfterInstruction(s, outcome).mode = r.mode
          /\ AfterInstruction(s, outcome).stop_reason = r.stop_reason
      BY <2>2, <3>2, <3>3 DEF Keeps, Sessions
    <3> QED
      BY <2>1, <2>2, <3>4 DEF Keeps, Reasoned
  <2> QED
    BY <2>1, <2>2, <2>3, <2>5, <2>6
<1> QED
  BY <1>1, <1>2

\* The types that the proofs use.
LEMMA AiTypes ==
  ASSUME AiInv
  PROVE  /\ actor \in [version : 0 .. MaxVersions, control : 0 .. MaxChanges,
                       cursor : Positions, latch : BOOLEAN, field : {0, 1}]
         /\ actor.version \in Nat /\ actor.control \in Nat
         /\ phase \in Turns \union {"commands", "world"}
         /\ session # NoSession =>
              /\ session \in Sessions /\ Reasoned(session)
              /\ session.entered <=> phase \in Turns /\ Valid(session)
              /\ session.pending # NoField => session.entered
              /\ session.version \in Nat /\ session.resume \in AnyTurn
<1>1. TypeOK
  BY DEF AiInv
<1>2. actor \in [version : 0 .. MaxVersions, control : 0 .. MaxChanges,
                  cursor : Positions, latch : BOOLEAN, field : {0, 1}]
  BY <1>1 DEF TypeOK
<1>3. actor.version \in Nat /\ actor.control \in Nat
  BY <1>2
<1>4. session # NoSession => session.version \in 0 .. MaxVersions /\ session.resume \in AnyTurn
  BY <1>1 DEF TypeOK, Sessions
<1> QED
  BY <1>1, <1>2, <1>3, <1>4 DEF TypeOK, Reasoned

\* The session of this step, when it is one.
SessionOK(s, valid, inTurn) ==
  /\ s \in Sessions /\ Reasoned(s)
  /\ s.entered <=> inTurn /\ valid
  /\ s.pending # NoField => s.entered

LEMMA TypeStep ==
  ASSUME actor' \in [version : 0 .. MaxVersions, control : 0 .. MaxChanges,
                     cursor : Positions, latch : BOOLEAN, field : {0, 1}],
         phase' \in Turns \union {"commands", "world"},
         session' # NoSession => SessionOK(session', Valid(session)', phase' \in Turns)
  PROVE  TypeOK'
BY DEF TypeOK, SessionOK, Reasoned

\* A turn that fits can be taken up: it is one, of this control state.
LEMMA FreshTurn ==
  ASSUME AiInv
  PROVE  /\ Fresh \in AnyTurn /\ Fresh # NoTurn /\ Fresh.control = actor.control
         /\ NoTurn \in AnyTurn
<1>1. /\ actor.cursor \in Positions /\ actor.control \in 0 .. MaxChanges
      /\ 0 \in 0 .. MaxCount /\ 0 \notin Positions
  BY AiTypes, ScriptAssumption
<1> QED
  BY <1>1 DEF Fresh, AnyTurn, NoTurn

\* The interpreter is called: by a command, by the pump or by the tick, with the session
\* as that call left it.
LEMMA EnterStep ==
  ASSUME AiInv, phase \notin Turns, NEW who \in Turns, NEW s, Enter(s, who),
         s = NoSession <=> session = NoSession,
         s # NoSession =>
           /\ s \in Sessions /\ Reasoned(s) /\ s.pending = session.pending /\ s.entered = session.entered
           /\ s.version = session.version /\ s.resume = session.resume,
         who \in {"detach", "attach"} => Valid(s) /\ s.detaching,
         actor' \in [version : 0 .. MaxVersions, control : 0 .. MaxChanges,
                     cursor : Positions, latch : BOOLEAN, field : {0, 1}],
         actor'.version = actor.version, actor'.control = actor.control
  PROVE  /\ TypeOK' /\ TurnInv' /\ TriggerKept'
         /\ Valid(s) => Valid(session)' /\ session'.pumped = s.pumped
         /\ phase' = who /\ owed' = FALSE
<1>1. /\ session' = IF Valid(s) THEN Entered(s) ELSE s
      /\ registers' = EntryPoint(s) /\ phase' = who
      /\ unfinished' = IF Fits(unfinished) THEN unfinished ELSE Fresh
      /\ owed' = FALSE
  BY DEF Enter
<1>2. Valid(s) <=> Valid(session)
  BY DEF Valid
<1>3. /\ unfinished \in AnyTurn
      /\ session # NoSession =>
           /\ session.version <= actor.version
           /\ session.resume # NoTurn => session.resume.control <= actor.control
      /\ Fits(unfinished) => Valid(session) /\ session.resume = unfinished
      /\ Valid(session) /\ Fits(session.resume) => unfinished = session.resume
  BY DEF AiInv, TurnInv
<1>4. registers' = unfinished' /\ unfinished' \in AnyTurn /\ Fits(unfinished')
  <2>1. CASE Fits(unfinished)
    <3>1. Valid(s) /\ s.resume = unfinished
      BY <1>2, <1>3, <2>1 DEF Valid
    <3> QED
      BY <1>1, <1>3, <2>1, <3>1 DEF EntryPoint
  <2>2. CASE ~Fits(unfinished)
    <3>1. ~(Valid(s) /\ Fits(s.resume))
      BY <1>2, <1>3, <2>2 DEF Valid
    <3> QED
      BY <1>1, <2>2, <3>1, FreshTurn DEF EntryPoint, Fits
  <2> QED
    BY <2>1, <2>2
<1>5. ASSUME Valid(s)
      PROVE  /\ session' \in Sessions /\ Reasoned(session') /\ session'.entered
             /\ session'.version = s.version /\ session'.resume = NoTurn
             /\ session'.detaching = s.detaching /\ session'.pumped = s.pumped
  <2> DEFINE e == [s EXCEPT !.entered = TRUE, !.wake = FALSE, !.resume = NoTurn]
  <2>1. s \in Sessions /\ Reasoned(s)
    BY <1>5 DEF Valid
  <2>2. e \in Sessions
    BY <2>1, FreshTurn DEF Sessions
  <2>3. /\ Reasoned(e) /\ e.entered /\ e.version = s.version /\ e.resume = NoTurn
        /\ e.detaching = s.detaching /\ e.pumped = s.pumped
    BY <2>1 DEF Sessions, Reasoned
  <2>4. session' \in {e, Stop(e, "invalidated")}
    BY <1>1, <1>5 DEF Entered
  <2> HIDE DEF e
  <2>5. Keeps(e, Stop(e, "invalidated")) /\ Reasoned(Stop(e, "invalidated"))
    BY <2>2, StopKeeps
  <2> QED
    BY <2>2, <2>3, <2>4, <2>5 DEF Keeps
<1>6. session' = NoSession <=> session = NoSession
  BY <1>1, <1>5, ScriptAssumption DEF Valid
<1>7. Valid(session)' <=> Valid(s)
  BY <1>1, <1>5, <1>6 DEF Valid
<1>8. session' # NoSession => SessionOK(session', Valid(session)', phase' \in Turns)
  <2>1. CASE Valid(s)
    BY <1>1, <1>5, <1>7, <2>1 DEF SessionOK
  <2>2. CASE ~Valid(s) /\ s # NoSession
    <3>1. session' = s /\ ~s.entered /\ s.pending = NoField
      BY <1>1, <1>2, <2>2, AiTypes
    <3> QED
      BY <1>7, <2>2, <3>1 DEF SessionOK
  <2> QED
    BY <1>1, <2>1, <2>2 DEF Valid
<1>9. TypeOK'
  BY <1>1, <1>8, TypeStep
<1>10. TurnInv'
  <2>1. session' # NoSession =>
          /\ session'.version <= actor'.version
          /\ session'.resume # NoTurn => session'.resume.control <= actor'.control
    BY <1>1, <1>3, <1>5, <1>6 DEF Valid
  <2>2. registers'.control = actor'.control /\ registers' # NoTurn
    BY <1>4 DEF Fits
  <2>3. Valid(session)' => session'.resume = NoTurn
    BY <1>5, <1>7
  <2>4. who \in {"detach", "attach"} => Valid(session)' /\ session'.detaching
    BY <1>5, <1>7
  <2>5. unfinished'.control <= actor'.control
    BY <1>4, <2>2, AiTypes
  <2> QED
    BY <1>1, <1>4, <2>1, <2>2, <2>3, <2>4, <2>5 DEF TurnInv
<1> QED
  BY <1>1, <1>5, <1>7, <1>9, <1>10 DEF TriggerKept

(* A turn                                                                  *)

\* What a turn under way is.
LEMMA TurnUnderWay ==
  ASSUME AiInv, phase \in Turns
  PROVE  /\ registers \in [pc : Positions, count : 0 .. MaxCount, control : 0 .. MaxChanges]
         /\ registers = unfinished /\ registers # NoTurn /\ registers.control = actor.control
         /\ ~owed
         /\ session # NoSession => session.version <= actor.version
         /\ session # NoSession /\ session.entered => Valid(session) /\ session.resume = NoTurn
         /\ phase \in {"detach", "attach"} => Valid(session) /\ session.detaching
<1>1. /\ registers \in AnyTurn /\ registers # NoTurn /\ registers = unfinished
      /\ registers.control = actor.control /\ ~owed
      /\ Valid(session) => session.resume = NoTurn
      /\ session # NoSession => session.version <= actor.version
      /\ phase \in {"detach", "attach"} => Valid(session) /\ session.detaching
  BY DEF AiInv, TurnInv
<1>2. session # NoSession /\ session.entered => Valid(session)
  BY AiTypes
<1> QED
  BY <1>1, <1>2 DEF AnyTurn

\* The session that an attach begins with.
LEMMA NewSessionOK ==
  ASSUME AiInv
  PROVE  /\ NewSession \in Sessions /\ NewSession # NoSession /\ Reasoned(NewSession)
         /\ NewSession.version = actor.version /\ NewSession.resume = NoTurn
         /\ ~NewSession.entered /\ NewSession.pending = NoField
<1>1. /\ actor.version \in 0 .. MaxVersions /\ 0 \in Nat /\ {} \in SUBSET Breakable
      /\ NoField \in 0 .. NoField /\ NoTurn \in AnyTurn
  BY AiTypes, FreshTurn DEF NoField
<1>2. NoBudget \in 0 .. NoBudget
  BY ScriptAssumption DEF NoBudget
<1>3. NewSession \in Sessions
  BY <1>1, <1>2 DEF NewSession, Sessions
<1> QED
  BY <1>3, ScriptAssumption DEF NewSession, Reasoned

\* The interpreter returns, the turn parked in the session s or at its end.
LEMMA ReturnStep ==
  ASSUME AiInv, phase \in Turns, NEW s, Return(s),
         s = NoSession <=> session = NoSession,
         s # NoSession =>
           /\ s \in Sessions /\ Reasoned(s) /\ s.pending = NoField /\ ~s.entered
           /\ s.version = session.version /\ s.pumped = session.pumped
           /\ s.resume = NoTurn \/ s.resume = session.resume \/ s.resume = registers,
         \/ unfinished' = NoTurn /\ (Valid(session) => s.resume = NoTurn)
         \/ unfinished' = unfinished /\ Valid(session) /\ s.resume = registers
            /\ phase \notin {"detach", "attach"},
         actor' \in [version : 0 .. MaxVersions, control : 0 .. MaxChanges,
                     cursor : Positions, latch : BOOLEAN, field : {0, 1}],
         actor'.version = actor.version, actor'.control = actor.control,
         UNCHANGED <<ticked, ran, owed, controlled>>
  PROVE  AiInv'
<1>1. /\ session' = IF phase = "detach" THEN NoSession
                    ELSE IF phase = "attach" THEN NewSession ELSE s
      /\ phase' = IF phase \in {"pump", "tick"} THEN "world" ELSE "commands"
      /\ registers' = NoTurn
  BY DEF Return
<1>2. phase' \in {"world", "commands"} /\ phase' \notin Turns
  BY <1>1 DEF Turns
<1>3. Valid(s) <=> Valid(session)
  BY DEF Valid
<1>4. ASSUME session' = NewSession
      PROVE  /\ SessionOK(session', Valid(session)', FALSE) /\ session'.resume = NoTurn
             /\ session'.version = actor.version
  BY <1>4, NewSessionOK DEF SessionOK
<1>5. session' # NoSession => SessionOK(session', Valid(session)', phase' \in Turns)
  BY <1>1, <1>2, <1>4 DEF SessionOK
<1>6. TypeOK'
  BY <1>2, <1>5, TypeStep
<1>7. TurnInv'
  <2>1. session' # NoSession => /\ session'.version <= actor'.version
                                /\ session'.resume # NoTurn => session'.resume.control <= actor'.control
    <3>1. CASE session' = NewSession
      BY <1>4, <3>1, AiTypes
    <3>2. CASE session' = s /\ s # NoSession
      BY <3>2, TurnUnderWay, AiTypes DEF AiInv, TurnInv
    <3> QED
      BY <1>1, <3>1, <3>2
  <2>2. unfinished' \in AnyTurn /\ (unfinished' # NoTurn => unfinished'.control <= actor'.control)
    BY TurnUnderWay, AiTypes, FreshTurn DEF AiInv, TurnInv
  <2>3. Fits(unfinished)' => Valid(session)' /\ session'.resume = unfinished'
    <3>1. CASE unfinished' = NoTurn
      BY <3>1 DEF Fits
    <3>2. CASE unfinished' = unfinished /\ Valid(session) /\ s.resume = registers
               /\ phase \notin {"detach", "attach"}
      BY <1>1, <1>3, <3>2, TurnUnderWay DEF Valid
    <3> QED
      BY <3>1, <3>2
  <2>4. Valid(session)' /\ Fits(session.resume)' => unfinished' = session'.resume
    <3>1. CASE session' = NewSession
      BY <1>4, <3>1 DEF Fits
    <3>2. CASE session' = s /\ s # NoSession
      BY <1>3, <3>2, TurnUnderWay DEF Fits, Valid
    <3> QED
      BY <1>1, <3>1, <3>2 DEF Valid
  <2> QED
    BY <1>1, <1>2, <2>1, <2>2, <2>3, <2>4, FreshTurn DEF TurnInv
<1>8. RanInv'
  <2>1. RanInv
    BY DEF AiInv
  <2>2. CASE phase = "pump"
    BY <1>1, <2>1, <2>2 DEF RanInv, Valid
  <2>3. CASE phase = "tick"
    BY <1>1, <2>1, <2>3 DEF RanInv
  <2>4. CASE phase \notin {"pump", "tick"}
    BY <1>1, <2>1, <2>4 DEF RanInv
  <2> QED
    BY <2>2, <2>3, <2>4
<1>9. TriggerKept'
  BY TurnUnderWay DEF TriggerKept
<1> QED
  BY <1>6, <1>7, <1>8, <1>9 DEF AiInv

\* A session that let go of the turn.
LEMMA LeftSession ==
  ASSUME AiInv, phase \in Turns, NEW s, NEW outcome,
         s = NoSession <=> session = NoSession,
         s # NoSession =>
           /\ s \in Sessions /\ Reasoned(s) /\ s.entered = session.entered
           /\ s.pending # NoField => s.entered
           /\ s.version = session.version /\ s.pumped = session.pumped
           /\ s.resume = session.resume
  PROVE  /\ Left(s, outcome) = NoSession <=> session = NoSession
         /\ s # NoSession =>
              /\ Left(s, outcome) \in Sessions /\ Reasoned(Left(s, outcome))
              /\ Left(s, outcome).pending = NoField /\ ~Left(s, outcome).entered
              /\ Left(s, outcome).version = session.version
              /\ Left(s, outcome).pumped = session.pumped
              /\ Left(s, outcome).resume = session.resume
<1>1. CASE s = NoSession
  BY <1>1 DEF Left
<1>2. CASE s # NoSession /\ ~s.entered
  BY <1>2 DEF Left
<1>3. CASE s # NoSession /\ s.entered
  <2> DEFINE c == Complete(s, outcome)
             l == [c EXCEPT !.entered = FALSE]
  <2>1. Keeps(s, c) /\ Reasoned(c) /\ c.pending = NoField
    BY <1>3, CompleteKeeps, AiTypes
  <2> HIDE DEF c
  <2>2. c \in Sessions /\ c.version = s.version /\ c.pumped = s.pumped /\ c.resume = s.resume
    BY <2>1 DEF Keeps
  <2>3. l \in Sessions
    BY <2>2 DEF Sessions
  <2>4. /\ Reasoned(l) /\ l.pending = NoField /\ ~l.entered
        /\ l.version = c.version /\ l.pumped = c.pumped /\ l.resume = c.resume
    BY <2>1, <2>2 DEF Sessions, Reasoned
  <2>5. Left(s, outcome) = l
    BY <1>3 DEF Left, c
  <2> HIDE DEF l
  <2>6. l # NoSession
    BY <2>3, ScriptAssumption
  <2> QED
    BY <1>3, <2>2, <2>3, <2>4, <2>5, <2>6
<1> QED
  BY <1>1, <1>2, <1>3

\* A turn is parked by a session that is attached and not about to go.
LEMMA ParkStep == ASSUME AiInv, Park PROVE AiInv'
<1>1. PICK readable \in BOOLEAN :
        LET c == Complete(session, "continue")
            s == IF readable THEN BeforeInstruction(c, registers.pc)
                 ELSE Stop(c, "invalidated")
        IN Return([s EXCEPT !.entered = FALSE, !.resume = [registers EXCEPT !.control = actor.control]])
  BY DEF Park
<1> DEFINE c == Complete(session, "continue")
           s == IF readable THEN BeforeInstruction(c, registers.pc) ELSE Stop(c, "invalidated")
           p == [s EXCEPT !.entered = FALSE, !.resume = [registers EXCEPT !.control = actor.control]]
<1>2. Return(p)
  BY <1>1
<1>3. /\ phase \in Turns /\ session # NoSession /\ session.entered /\ ~session.detaching
      /\ UNCHANGED <<actor, ticked, controlled, unfinished, ran, owed>>
  BY DEF Park, Debugged
<1>4. Valid(session) /\ phase \notin {"detach", "attach"}
  BY <1>3, TurnUnderWay
<1>5. Keeps(session, c) /\ Reasoned(c) /\ c.pending = NoField /\ c \in Sessions
  <2>1. session \in Sessions /\ Reasoned(session) /\ actor.field \in {0, 1}
    BY <1>3, AiTypes
  <2>2. Keeps(session, c) /\ Reasoned(c) /\ c.pending = NoField
    BY <2>1, CompleteKeeps
  <2> QED
    BY <2>2 DEF Keeps
<1>6. registers.pc \in Positions /\ [registers EXCEPT !.control = actor.control] = registers
  BY <1>3, TurnUnderWay
<1> HIDE DEF c
<1>7. Keeps(c, s) /\ Reasoned(s) /\ s.pending = NoField /\ s \in Sessions
  <2>1. CASE readable
    BY <1>5, <1>6, <2>1, BeforeKeeps DEF Keeps
  <2>2. CASE ~readable
    BY <1>5, <2>2, StopKeeps DEF Keeps
  <2> QED
    BY <2>1, <2>2
<1> HIDE DEF s
<1>8. /\ p \in Sessions /\ p.mode = s.mode /\ p.stop_reason = s.stop_reason
      /\ p.pending = NoField /\ ~p.entered
      /\ p.version = s.version /\ p.pumped = s.pumped /\ p.resume = registers
  <2>1. p = [s EXCEPT !.entered = FALSE, !.resume = registers] /\ registers \in AnyTurn
        /\ s \in Sessions
    BY <1>6, <1>7 DEF AiInv, TurnInv
  <2> HIDE DEF p
  <2>2. p \in Sessions
    BY <2>1 DEF Sessions
  <2>3. /\ DOMAIN p = DOMAIN s /\ p["entered"] = FALSE /\ p["resume"] = registers
        /\ \A f \in DOMAIN s \ {"entered", "resume"} : p[f] = s[f]
    BY <2>1 DEF Sessions
  <2>4. {"mode", "stop_reason", "pending", "version", "pumped"} \subseteq DOMAIN s
    BY <2>1 DEF Sessions
  <2> QED
    BY <1>7, <2>2, <2>3, <2>4
<1> HIDE DEF p
<1>9. Reasoned(p) /\ p # NoSession /\ p.version = session.version /\ p.pumped = session.pumped
  BY <1>5, <1>7, <1>8, ScriptAssumption DEF Reasoned, Keeps
<1>10. actor \in [version : 0 .. MaxVersions, control : 0 .. MaxChanges,
                  cursor : Positions, latch : BOOLEAN, field : {0, 1}]
  BY AiTypes
<1> QED
  BY <1>2, <1>3, <1>4, <1>8, <1>9, <1>10, ReturnStep

\* The dispatch count is used up.
LEMMA ExitTurnStep == ASSUME AiInv, Exit PROVE AiInv'
<1>1. /\ phase \in Turns /\ Return(Left(session, "yield")) /\ unfinished' = NoTurn
      /\ actor' = [actor EXCEPT !.cursor = registers.pc]
      /\ UNCHANGED <<ticked, controlled, ran, owed>>
  BY DEF Exit
<1>2. registers.pc \in Positions
  BY <1>1, TurnUnderWay
<1>3. /\ actor' \in [version : 0 .. MaxVersions, control : 0 .. MaxChanges,
                     cursor : Positions, latch : BOOLEAN, field : {0, 1}]
      /\ actor'.version = actor.version /\ actor'.control = actor.control
  BY <1>1, <1>2, AiTypes
<1> DEFINE l == Left(session, "yield")
<1>4. /\ l = NoSession <=> session = NoSession
      /\ session # NoSession =>
           /\ l \in Sessions /\ Reasoned(l) /\ l.pending = NoField /\ ~l.entered
           /\ l.version = session.version /\ l.pumped = session.pumped /\ l.resume = session.resume
  BY <1>1, LeftSession, AiTypes
<1>5. Valid(session) => l.resume = NoTurn
  BY <1>1, <1>4 DEF Valid, AiInv, TurnInv
<1> HIDE DEF l
<1>6. Return(l)
  BY <1>1 DEF l
<1> QED
  BY <1>1, <1>3, <1>4, <1>5, <1>6, ReturnStep

\* An instruction: the turn goes on or ends.
LEMMA RunStep == ASSUME AiInv, Run PROVE AiInv'
<1> DEFINE pc == registers.pc
           does == Program[pc]
           s == IF Debugged
                THEN [BeforeInstruction(Complete(session, "continue"), pc) EXCEPT !.pending = actor.field]
                ELSE session
           ends == does \in {"yield", "stop"}
<1>1. /\ phase \in Turns /\ ~AtExit
      /\ IF ends
         THEN /\ actor' = [actor EXCEPT !.cursor = IF does = "stop" THEN 1 ELSE pc + 1]
              /\ Return(Left(s, does))
              /\ unfinished' = NoTurn
         ELSE /\ actor' = [actor EXCEPT !.field = IF does = "write" THEN 1 - @ ELSE @]
              /\ session' = s /\ registers' = [registers EXCEPT !.pc = @ + 1, !.count = @ + 1]
              /\ phase' = phase
              /\ unfinished' = [unfinished EXCEPT !.pc = @ + 1, !.count = @ + 1]
      /\ UNCHANGED <<ticked, controlled, ran, owed, voided>>
  BY DEF Run
<1>2. /\ registers \in [pc : Positions, count : 0 .. MaxCount, control : 0 .. MaxChanges]
      /\ registers = unfinished /\ registers.control = actor.control /\ ~owed
  BY <1>1, TurnUnderWay
<1>3. /\ pc \in Positions /\ (does # "stop" => pc + 1 \in Positions) /\ 1 \in Positions
      /\ registers.count + 1 \in 0 .. MaxCount
  <2>1. registers.count \in Nat /\ registers.count < MaxCount
    BY <1>1, <1>2, ScriptAssumption DEF AtExit
  <2>2. registers.count + 1 \in 0 .. MaxCount
    BY <2>1, ScriptAssumption
  <2> QED
    BY <1>2, <2>2, ScriptAssumption
<1>4. /\ s = NoSession <=> session = NoSession
      /\ s # NoSession =>
           /\ s \in Sessions /\ Reasoned(s) /\ s.entered = session.entered
           /\ s.pending # NoField => s.entered
           /\ s.version = session.version /\ s.pumped = session.pumped
           /\ s.resume = session.resume /\ s.detaching = session.detaching
  <2>1. CASE ~Debugged
    BY <2>1, AiTypes
  <2>2. CASE Debugged
    <3> DEFINE c == Complete(session, "continue")
               b == BeforeInstruction(c, pc)
    <3>1. session \in Sessions /\ Reasoned(session) /\ session.entered /\ actor.field \in {0, 1}
      BY <2>2, AiTypes DEF Debugged
    <3>2. Keeps(session, c) /\ Reasoned(c) /\ c \in Sessions
      <4>1. Keeps(session, c) /\ Reasoned(c)
        BY <3>1, CompleteKeeps
      <4> QED
        BY <4>1 DEF Keeps
    <3> HIDE DEF c
    <3>3. Keeps(c, b) /\ Reasoned(b) /\ b \in Sessions
      BY <1>3, <3>2, BeforeKeeps DEF Keeps
    <3>4. s = [b EXCEPT !.pending = actor.field]
      BY <2>2 DEF c
    <3> HIDE DEF b, s
    <3>5. actor.field \in 0 .. NoField
      BY <3>1 DEF NoField
    <3>6. s \in Sessions
      BY <3>3, <3>4, <3>5 DEF Sessions
    <3>7. /\ s.mode = b.mode /\ s.stop_reason = b.stop_reason /\ s.entered = b.entered
          /\ s.version = b.version /\ s.pumped = b.pumped /\ s.resume = b.resume
          /\ s.detaching = b.detaching
      BY <3>3, <3>4, <3>6 DEF Sessions
    <3>8. s # NoSession /\ session # NoSession
      BY <2>2, <3>6, ScriptAssumption DEF Debugged
    <3> QED
      BY <3>1, <3>2, <3>3, <3>6, <3>7, <3>8 DEF Keeps, Reasoned
  <2> QED
    BY <2>1, <2>2
<1> HIDE DEF s
<1>5. CASE ends
  <2>1. /\ actor' \in [version : 0 .. MaxVersions, control : 0 .. MaxChanges,
                       cursor : Positions, latch : BOOLEAN, field : {0, 1}]
        /\ actor'.version = actor.version /\ actor'.control = actor.control
    <3> DEFINE cursor == IF does = "stop" THEN 1 ELSE pc + 1
    <3>1. cursor \in Positions
      BY <1>3
    <3>2. actor' = [actor EXCEPT !.cursor = cursor]
      BY <1>1, <1>5
    <3> HIDE DEF cursor
    <3> QED
      BY <3>1, <3>2, AiTypes
  <2> DEFINE l == Left(s, does)
  <2>2. /\ l = NoSession <=> session = NoSession
        /\ session # NoSession =>
             /\ l \in Sessions /\ Reasoned(l) /\ l.pending = NoField /\ ~l.entered
             /\ l.version = session.version /\ l.pumped = session.pumped /\ l.resume = session.resume
    BY <1>1, <1>4, LeftSession
  <2>3. Valid(session) => l.resume = NoTurn
    BY <1>1, <2>2 DEF Valid, AiInv, TurnInv
  <2>4. Return(l) /\ unfinished' = NoTurn
    BY <1>1, <1>5
  <2> HIDE DEF l
  <2> QED
    BY <1>1, <2>1, <2>2, <2>3, <2>4, ReturnStep
<1>6. CASE ~ends
  <2>1. /\ actor' \in [version : 0 .. MaxVersions, control : 0 .. MaxChanges,
                       cursor : Positions, latch : BOOLEAN, field : {0, 1}]
        /\ actor'.version = actor.version /\ actor'.control = actor.control
    <3>1. (IF does = "write" THEN 1 - actor.field ELSE actor.field) \in {0, 1}
      BY AiTypes
    <3> DEFINE field == IF does = "write" THEN 1 - actor.field ELSE actor.field
    <3>2. actor' = [actor EXCEPT !.field = field]
      BY <1>1, <1>6
    <3> HIDE DEF field
    <3>3. field \in {0, 1}
      BY <3>1 DEF field
    <3> QED
      BY <3>2, <3>3, AiTypes
  <2>2. /\ registers' = [registers EXCEPT !.pc = @ + 1, !.count = @ + 1]
        /\ unfinished' = registers' /\ session' = s /\ phase' = phase
    BY <1>1, <1>2, <1>6
  <2>3. /\ registers' \in [pc : Positions, count : 0 .. MaxCount, control : 0 .. MaxChanges]
        /\ registers'.control = registers.control
    BY <1>2, <1>3, <1>6, <2>2
  <2>4. registers' \in AnyTurn /\ registers' # NoTurn
    <3>1. registers'.pc # 0
      BY <2>3, ScriptAssumption
    <3> QED
      BY <2>3, <3>1 DEF AnyTurn, NoTurn
  <2>5. Valid(session)' <=> Valid(session)
    BY <1>4, <2>1, <2>2 DEF Valid
  <2>6. session' # NoSession => SessionOK(session', Valid(session)', phase' \in Turns)
    BY <1>1, <1>4, <2>2, <2>5, AiTypes DEF SessionOK
  <2>7. TypeOK'
    BY <2>1, <2>2, <2>6, TypeStep, AiTypes
  <2>8. TurnInv'
    <3>1. registers'.control = actor'.control /\ registers'.control <= actor'.control
      BY <1>2, <2>1, <2>3, AiTypes
    <3>2. session' # NoSession =>
            /\ session'.version <= actor'.version
            /\ session'.resume # NoTurn => session'.resume.control <= actor'.control
      BY <1>4, <2>1, <2>2 DEF AiInv, TurnInv
    <3>3. /\ Valid(session)' => session'.resume = NoTurn
          /\ phase' \in {"detach", "attach"} => Valid(session)' /\ session'.detaching
      BY <1>1, <1>4, <2>2, <2>5 DEF AiInv, TurnInv, Valid
    <3> QED
      BY <1>1, <1>2, <2>2, <2>4, <3>1, <3>2, <3>3 DEF TurnInv
  <2>9. RanInv' /\ TriggerKept'
    BY <1>1, <1>2, <1>4, <2>2, <2>5 DEF AiInv, RanInv, TriggerKept, Valid
  <2> QED
    BY <2>7, <2>8, <2>9 DEF AiInv
<1> QED
  BY <1>5, <1>6

(* The commands                                                            *)

\* A step outside a turn, which leaves the session's hold on a turn as it is, or drops
\* both sides of it.
LEMMA OutsideStep ==
  ASSUME AiInv, phase \notin Turns, phase' \in {"commands", "world"},
         actor' \in [version : 0 .. MaxVersions, control : 0 .. MaxChanges,
                     cursor : Positions, latch : BOOLEAN, field : {0, 1}],
         actor.version <= actor'.version, actor.control <= actor'.control,
         UNCHANGED registers,
         session' # NoSession =>
           /\ session' \in Sessions /\ Reasoned(session')
           /\ ~session'.entered /\ session'.pending = NoField
           /\ \/ /\ session # NoSession /\ session'.version = session.version
                 /\ session'.resume = session.resume \/ session'.resume = NoTurn
              \/ session'.version <= actor'.version /\ session'.resume = NoTurn,
         unfinished' = unfinished \/ unfinished' = NoTurn,
         Fits(unfinished)' => Valid(session)' /\ session'.resume = session.resume
                              /\ Fits(unfinished) /\ unfinished' = unfinished,
         Valid(session)' /\ Fits(session.resume)' =>
            unfinished' = unfinished /\ Valid(session) /\ Fits(session.resume)
  PROVE  TypeOK' /\ TurnInv'
<1>1. phase' \notin Turns
  BY DEF Turns
<1>2. session' # NoSession => SessionOK(session', Valid(session)', phase' \in Turns)
  BY <1>1 DEF SessionOK
<1>3. TypeOK'
  BY <1>2, TypeStep
<1>4. /\ registers \in AnyTurn /\ unfinished \in AnyTurn
      /\ session # NoSession =>
           /\ session.version <= actor.version
           /\ session.resume # NoTurn => session.resume.control <= actor.control
      /\ unfinished # NoTurn => unfinished.control <= actor.control
      /\ Fits(unfinished) => Valid(session) /\ session.resume = unfinished
      /\ Valid(session) /\ Fits(session.resume) => unfinished = session.resume
  BY DEF AiInv, TurnInv
<1>5. /\ actor.version \in Nat /\ actor.control \in Nat
      /\ actor'.version \in Nat /\ actor'.control \in Nat
  BY AiTypes
<1>6. \A t \in AnyTurn : t # NoTurn => t.control \in Nat
  BY DEF AnyTurn
<1>7. session # NoSession => session.version \in Nat /\ session.resume \in AnyTurn
  BY AiTypes
<1>8. session' # NoSession =>
        /\ session'.version <= actor'.version
        /\ session'.resume # NoTurn => session'.resume.control <= actor'.control
  BY <1>4, <1>5, <1>6, <1>7
<1>9. unfinished' \in AnyTurn /\ (unfinished' # NoTurn => unfinished'.control <= actor'.control)
  BY <1>4, <1>5, <1>6, FreshTurn
<1>10. Fits(unfinished)' => Valid(session)' /\ session'.resume = unfinished'
  BY <1>4
<1>11. Valid(session)' /\ Fits(session.resume)' => unfinished' = session'.resume
  <2>1. ASSUME Valid(session)', Fits(session.resume)'
        PROVE  unfinished' = session'.resume
    <3>1. unfinished' = unfinished /\ unfinished = session.resume
      BY <1>4, <2>1
    <3>2. session'.resume # NoTurn /\ session' # NoSession
      BY <2>1 DEF Fits, Valid
    <3> QED
      BY <3>1, <3>2
  <2> QED
    BY <2>1
<1>12. TurnInv'
  BY <1>1, <1>4, <1>8, <1>9, <1>10, <1>11 DEF TurnInv
<1> QED
  BY <1>3, <1>12

\* A command leaves the frame's bookkeeping alone.
LEMMA CommandedRan ==
  ASSUME AiInv, Commanded, owed' \in BOOLEAN, phase' \notin {"tick", "pump", "world"}
  PROVE  RanInv'
BY DEF AiInv, RanInv, Commanded

\* Outside a turn the session holds the turn that was cut short.
LEMMA Outside ==
  ASSUME AiInv, phase \in {"commands", "world"}
  PROVE  /\ phase \notin Turns
         /\ session # NoSession => /\ session \in Sessions /\ Reasoned(session)
                                   /\ ~session.entered /\ session.pending = NoField
         /\ Fits(unfinished) => Valid(session) /\ session.resume = unfinished
         /\ Valid(session) /\ Fits(session.resume) => unfinished = session.resume
<1>1. phase \notin Turns
  BY DEF Turns
<1> QED
  BY <1>1, AiTypes DEF AiInv, TurnInv

\* A session that is changed but keeps its turn and its triggers.
LEMMA CommandStep == ASSUME AiInv, Command PROVE AiInv'
<1>1. /\ Commanded /\ Valid(session) /\ phase \in {"commands", "world"} /\ phase' = phase
      /\ UNCHANGED <<actor, registers, unfinished, owed, voided>>
  BY DEF Command, Commanded
<1>2. session \in Sessions /\ Reasoned(session) /\ ~session.entered /\ session.pending = NoField
  BY <1>1, Outside DEF Valid
<1>3. /\ session' \in Sessions /\ Reasoned(session') /\ ~session'.entered
      /\ session'.pending = NoField /\ session'.version = session.version
      /\ session'.resume = session.resume /\ (session.wake => session'.wake)
  <2>1. CASE session' \in {Stop(session, "user"), Resume(session)}
    BY <1>2, <2>1, StopKeeps, ResumeKeeps DEF Keeps
  <2>2. CASE \E s \in {Step(session), RunUntilYield(session)} : session' = GoesOn(s)
    <3>1. PICK s \in {Step(session), RunUntilYield(session)} : session' = GoesOn(s)
      BY <2>2
    <3>2. Keeps(session, s) /\ Reasoned(s) /\ s.pending = session.pending
      BY <1>2, <3>1, StepKeeps, RunUntilYieldKeeps
    <3>3. s \in Sessions /\ session' = [s EXCEPT !.wake = TRUE]
      BY <3>1, <3>2 DEF Keeps, GoesOn
    <3>4. /\ session' \in Sessions /\ session'.wake
          /\ session'.mode = s.mode /\ session'.stop_reason = s.stop_reason
          /\ session'.entered = s.entered /\ session'.pending = s.pending
          /\ session'.version = s.version /\ session'.resume = s.resume
      BY <3>3 DEF Sessions
    <3> QED
      BY <1>2, <3>2, <3>4 DEF Keeps, Reasoned
  <2>3. CASE session' = [session EXCEPT !.seen = NoField]
    <3>0. NoField \in 0 .. NoField
      BY DEF NoField
    <3>1. session' \in Sessions
      BY <1>2, <2>3, <3>0 DEF Sessions
    <3>2. /\ session'.wake = session.wake
          /\ session'.mode = session.mode /\ session'.stop_reason = session.stop_reason
          /\ session'.entered = session.entered /\ session'.pending = session.pending
          /\ session'.version = session.version /\ session'.resume = session.resume
      BY <1>2, <2>3 DEF Sessions
    <3> QED
      BY <1>2, <3>1, <3>2 DEF Reasoned
  <2>4. CASE \E b \in SUBSET Breakable, w \in BOOLEAN :
                session' = [session EXCEPT !.breakpoints = b, !.watch = w]
    <3>1. PICK b \in SUBSET Breakable, w \in BOOLEAN :
             session' = [session EXCEPT !.breakpoints = b, !.watch = w]
      BY <2>4
    <3>2. session' \in Sessions
      BY <1>2, <3>1 DEF Sessions
    <3>3. /\ session'.wake = session.wake
          /\ session'.mode = session.mode /\ session'.stop_reason = session.stop_reason
          /\ session'.entered = session.entered /\ session'.pending = session.pending
          /\ session'.version = session.version /\ session'.resume = session.resume
      BY <1>2, <3>1 DEF Sessions
    <3> QED
      BY <1>2, <3>2, <3>3 DEF Reasoned
  <2> QED
    BY <2>1, <2>2, <2>3, <2>4 DEF Command
<1>4. session' # NoSession
  BY <1>3, ScriptAssumption
<1>5. Valid(session)'
  BY <1>1, <1>3, <1>4 DEF Valid
<1>6. Fits(unfinished)' <=> Fits(unfinished)
  BY <1>1 DEF Fits
<1>7. Fits(session.resume)' <=> Fits(session.resume)
  BY <1>1, <1>3 DEF Fits
<1>8. TypeOK' /\ TurnInv'
  <2>1. phase' \in {"commands", "world"} /\ phase \notin Turns /\ session # NoSession
    BY <1>1, Outside DEF Valid
  <2>2. actor.version <= actor'.version /\ actor.control <= actor'.control
    BY <1>1, AiTypes
  <2>3. actor' \in [version : 0 .. MaxVersions, control : 0 .. MaxChanges,
                    cursor : Positions, latch : BOOLEAN, field : {0, 1}]
    BY <1>1, AiTypes
  <2> QED
    BY <1>1, <1>3, <1>5, <1>6, <1>7, <2>1, <2>2, <2>3, OutsideStep
<1>9. RanInv'
  <2>1. owed' \in BOOLEAN /\ phase = "commands"
    BY <1>1 DEF AiInv, RanInv, Commanded
  <2> QED
    BY <1>1, <2>1, CommandedRan
<1>10. TriggerKept'
  BY <1>1, <1>3, <1>5 DEF AiInv, TriggerKept
<1> QED
  BY <1>8, <1>9, <1>10 DEF AiInv

\* Whatever is cut short by the end of a session cannot be taken up, and a trigger that
\* it held is in the latch.
LEMMA DetachStep ==
  ASSUME AiInv, NEW who \in {"attach", "detach"}, Detach(who)
  PROVE  AiInv'
<1>1. Commanded /\ phase = "commands"
  BY DEF Detach, Commanded
<1>2. CASE Valid(session) /\ Fits(session.resume)
  <2> DEFINE d == [session EXCEPT !.detaching = TRUE]
             s == Resume(d)
  <2>1. session \in Sessions /\ Reasoned(session)
    BY <1>1, <1>2, Outside DEF Valid
  <2>2. d \in Sessions
    BY <2>1 DEF Sessions
  <2>3. /\ d.version = session.version /\ d.resume = session.resume /\ d.detaching
        /\ d.entered = session.entered /\ d.pending = session.pending
    BY <2>1 DEF Sessions
  <2>4. Enter(s, who) /\ actor' = actor
    BY <1>2 DEF Detach
  <2> HIDE DEF d
  <2>5. Keeps(d, s) /\ Reasoned(s) /\ s.pending = d.pending
    BY <2>2, ResumeKeeps
  <2>6. /\ s \in Sessions /\ s # NoSession /\ s.version = session.version /\ s.resume = session.resume
        /\ s.detaching /\ s.entered = session.entered /\ s.pending = session.pending
    BY <2>3, <2>5, ScriptAssumption DEF Keeps
  <2>7. Valid(s) /\ session # NoSession
    BY <1>2, <2>6 DEF Valid
  <2> HIDE DEF s
  <2>8. who \in Turns /\ phase \notin Turns
    BY <1>1 DEF Turns
  <2>9. /\ TypeOK' /\ TurnInv' /\ TriggerKept' /\ phase' = who /\ owed' = FALSE
    BY <2>4, <2>5, <2>6, <2>7, <2>8, EnterStep, AiTypes
  <2> QED
    BY <1>1, <2>9, CommandedRan DEF AiInv
<1>3. CASE ~(Valid(session) /\ Fits(session.resume))
  <2>1. /\ session' = IF who = "attach" THEN NewSession ELSE NoSession
        /\ actor' = IF Valid(session) THEN Rearmed(session) ELSE actor
        /\ UNCHANGED <<registers, phase, unfinished, owed, voided>>
    BY <1>3 DEF Detach
  <2>2. /\ actor' \in {actor, [actor EXCEPT !.latch = TRUE]}
        /\ Valid(session) /\ session.wake => actor' = [actor EXCEPT !.latch = TRUE]
    BY <2>1 DEF Rearmed
  <2>3. /\ actor' \in [version : 0 .. MaxVersions, control : 0 .. MaxChanges,
                       cursor : Positions, latch : BOOLEAN, field : {0, 1}]
        /\ actor'.version = actor.version /\ actor'.control = actor.control
        /\ actor.latch => actor'.latch
        /\ actor.version <= actor'.version /\ actor.control <= actor'.control
        /\ Valid(session) /\ session.wake => actor'.latch
    <3>1. actor \in [version : 0 .. MaxVersions, control : 0 .. MaxChanges,
                     cursor : Positions, latch : BOOLEAN, field : {0, 1}]
      BY AiTypes
    <3>2. actor.version <= actor.version /\ actor.control <= actor.control
      BY AiTypes
    <3>3. CASE actor' = actor
      BY <2>2, <3>1, <3>2, <3>3
    <3>4. CASE actor' = [actor EXCEPT !.latch = TRUE]
      BY <3>1, <3>2, <3>4
    <3> QED
      BY <2>2, <3>3, <3>4
  <2>4. session' # NoSession =>
          /\ session' \in Sessions /\ Reasoned(session') /\ ~session'.entered
          /\ session'.pending = NoField /\ session'.version <= actor'.version
          /\ session'.resume = NoTurn
    BY <2>1, <2>3, NewSessionOK, AiTypes
  <2>5. ~Fits(unfinished)' /\ ~(Valid(session)' /\ Fits(session.resume)')
    <3>1. ~Fits(unfinished)
      BY <1>1, <1>3, Outside
    <3> QED
      BY <2>1, <2>3, <2>4, <3>1 DEF Fits, Valid
  <2>6. TypeOK' /\ TurnInv'
    BY <1>1, <2>1, <2>3, <2>4, <2>5, OutsideStep, Outside
  <2>7. RanInv'
    BY <1>1, <2>1, CommandedRan DEF AiInv, RanInv
  <2>8. TriggerKept'
    BY <2>1, <2>3 DEF AiInv, TriggerKept
  <2> QED
    BY <2>6, <2>7, <2>8 DEF AiInv
<1> QED
  BY <1>2, <1>3

LEMMA InvalidateStep == ASSUME AiInv, Invalidate PROVE AiInv'
<1>1. /\ Commanded /\ phase = "commands" /\ session' = NoSession /\ unfinished' = NoTurn
      /\ owed' = FALSE /\ UNCHANGED <<actor, registers, phase>>
  BY DEF Invalidate, Commanded
<1>2. ~Fits(unfinished)' /\ ~Valid(session)'
  BY <1>1 DEF Fits, Valid
<1>3. TypeOK' /\ TurnInv'
  BY <1>1, <1>2, OutsideStep, Outside, AiTypes
<1> QED
  BY <1>1, <1>3, CommandedRan DEF AiInv, TriggerKept

\* Another AI: the session and its turn are of the old one.
LEMMA HotReplaceStep == ASSUME AiInv, HotReplace PROVE AiInv'
<1>1. /\ Commanded /\ phase = "commands" /\ unfinished' = NoTurn
      /\ session' = IF Valid(session) THEN NoSession ELSE session
      /\ actor.version < MaxVersions
      /\ actor' = [actor EXCEPT !.version = @ + 1, !.cursor = 1, !.latch = TRUE]
      /\ UNCHANGED <<registers, phase, owed, voided>>
  BY DEF HotReplace, Commanded
<1>2. /\ actor' \in [version : 0 .. MaxVersions, control : 0 .. MaxChanges,
                     cursor : Positions, latch : BOOLEAN, field : {0, 1}]
      /\ actor'.version = actor.version + 1 /\ actor'.control = actor.control /\ actor'.latch
  <2>1. actor.version + 1 \in 0 .. MaxVersions /\ 1 \in Positions
    BY <1>1, AiTypes, ScriptAssumption
  <2> QED
    BY <1>1, <2>1, AiTypes
<1>3. ~Fits(unfinished)'
  BY <1>1 DEF Fits
<1>4. ~Valid(session)'
  <2>1. session # NoSession => session.version <= actor.version /\ session.version \in Nat
    BY AiTypes DEF AiInv, TurnInv
  <2> QED
    BY <1>1, <1>2, <2>1, AiTypes DEF Valid
<1>5. TypeOK' /\ TurnInv'
  <2>1. actor.version <= actor'.version /\ actor.control <= actor'.control
    BY <1>2, AiTypes
  <2>2. session' # NoSession =>
          /\ session # NoSession /\ session' = session /\ session' \in Sessions
          /\ Reasoned(session') /\ ~session'.entered /\ session'.pending = NoField
    BY <1>1, Outside
  <2> QED
    BY <1>1, <1>2, <1>3, <1>4, <2>1, <2>2, OutsideStep, Outside
<1>6. RanInv' /\ TriggerKept'
  BY <1>1, <1>2, CommandedRan DEF AiInv, RanInv, TriggerKept
<1> QED
  BY <1>5, <1>6 DEF AiInv

LEMMA ForceTurnStep == ASSUME AiInv, ForceTurn PROVE AiInv'
<1>1. Commanded /\ phase = "commands" /\ Enter(session, "force") /\ actor' = actor
  BY DEF ForceTurn, Commanded
<1>2. "force" \in Turns /\ phase \notin Turns
  BY <1>1 DEF Turns
<1>3. TypeOK' /\ TurnInv' /\ TriggerKept' /\ phase' = "force" /\ owed' = FALSE
  BY <1>1, <1>2, EnterStep, AiTypes
<1> QED
  BY <1>1, <1>3, CommandedRan DEF AiInv

(* The frame                                                               *)

\* The pump begins the frame with the parked turn, or with none.
LEMMA BeforeFrameAiStep == ASSUME AiInv, BeforeFrame PROVE AiInv'
<1> DEFINE s == [session EXCEPT !.pumped = FALSE]
           moved == session.resume # NoTurn /\ ~Fits(session.resume)
<1>1. phase = "commands" /\ ticked' = FALSE /\ UNCHANGED controlled
  BY DEF BeforeFrame
<1>2. phase \notin Turns /\ phase \in {"commands", "world"}
  BY <1>1 DEF Turns
<1>3. /\ actor \in [version : 0 .. MaxVersions, control : 0 .. MaxChanges,
                    cursor : Positions, latch : BOOLEAN, field : {0, 1}]
      /\ actor.version <= actor.version /\ actor.control <= actor.control
      /\ controlled \in BOOLEAN /\ owed \in BOOLEAN
  BY AiTypes DEF AiInv, RanInv
<1>4. CASE ~Valid(session)
  <2>1. /\ session' = NoSession /\ phase' = "world" /\ ran' = 0
        /\ UNCHANGED <<actor, registers, unfinished, owed, voided>>
    BY <1>4 DEF BeforeFrame
  <2>2. ~Fits(unfinished)' /\ ~Valid(session)'
    BY <1>2, <1>4, <2>1, Outside DEF Fits, Valid
  <2>3. TypeOK' /\ TurnInv'
    BY <1>2, <1>3, <2>1, <2>2, OutsideStep
  <2>4. RanInv' /\ TriggerKept'
    BY <1>1, <1>3, <1>4, <2>1 DEF AiInv, RanInv, TriggerKept
  <2> QED
    BY <2>3, <2>4 DEF AiInv
<1>5. ASSUME Valid(session)
      PROVE  /\ s \in Sessions /\ Reasoned(s) /\ s # NoSession /\ session # NoSession
             /\ s.pending = session.pending /\ s.entered = session.entered
             /\ s.version = session.version /\ s.resume = session.resume
             /\ s.wake = session.wake /\ s.mode = session.mode
  <2>1. session \in Sessions /\ Reasoned(session) /\ session # NoSession
    BY <1>2, <1>5, Outside DEF Valid
  <2>2. s \in Sessions
    BY <2>1 DEF Sessions
  <2>3. /\ s.pending = session.pending /\ s.entered = session.entered
        /\ s.version = session.version /\ s.resume = session.resume
        /\ s.wake = session.wake /\ s.mode = session.mode /\ s.stop_reason = session.stop_reason
    BY <2>1, <2>2 DEF Sessions
  <2> QED
    BY <2>1, <2>2, <2>3, ScriptAssumption DEF Reasoned
<1>6. ASSUME Valid(session)
      PROVE  session.pending = NoField /\ ~session.entered
  BY <1>2, <1>6, Outside DEF Valid
<1>7. CASE Valid(session) /\ moved
  <2> DEFINE d == [s EXCEPT !.resume = NoTurn, !.wake = FALSE]
  <2>1. /\ session' = Stop(d, "invalidated") /\ phase' = "world" /\ ran' = 0
        /\ voided' = owed /\ UNCHANGED <<actor, registers, unfinished, owed>>
    BY <1>7 DEF BeforeFrame
  <2>2. s \in Sessions /\ s.pending = NoField /\ ~s.entered /\ s.version = session.version
    BY <1>5, <1>6, <1>7
  <2> HIDE DEF s
  <2>3. d \in Sessions
    BY <2>2, FreshTurn DEF Sessions
  <2>4. d.resume = NoTurn /\ d.pending = NoField /\ ~d.entered /\ d.version = session.version
    BY <2>2 DEF Sessions
  <2> HIDE DEF d
  <2>5. /\ session' \in Sessions /\ Reasoned(session') /\ ~session'.entered
        /\ session'.pending = NoField /\ session'.version = session.version
        /\ session'.resume = NoTurn
    BY <2>1, <2>3, <2>4, StopKeeps DEF Keeps
  <2>6. ~Fits(unfinished)' /\ ~Fits(session.resume)'
    <3>1. ~Fits(unfinished)
      BY <1>2, <1>7, Outside
    <3> QED
      BY <2>1, <2>5, <3>1 DEF Fits
  <2>7. session # NoSession
    BY <1>7 DEF Valid
  <2>8. TypeOK' /\ TurnInv'
    BY <1>2, <1>3, <2>1, <2>5, <2>6, <2>7, OutsideStep
  <2>9. RanInv' /\ TriggerKept'
    BY <1>1, <1>3, <2>1 DEF RanInv, TriggerKept
  <2> QED
    BY <2>8, <2>9 DEF AiInv
<1>8. CASE Valid(session) /\ ~moved /\ s.mode # "paused" /\ s.resume # NoTurn
  <2> DEFINE p == [s EXCEPT !.pumped = TRUE]
  <2>1. Enter(p, "pump") /\ ran' = 1 /\ actor' = actor
    BY <1>8 DEF BeforeFrame
  <2>2. /\ s \in Sessions /\ Reasoned(s) /\ s.pending = session.pending
        /\ s.entered = session.entered /\ s.version = session.version /\ s.resume = session.resume
        /\ session # NoSession
    BY <1>5, <1>8
  <2> HIDE DEF s
  <2>3. p \in Sessions
    BY <2>2 DEF Sessions
  <2>4. /\ p.mode = s.mode /\ p.stop_reason = s.stop_reason /\ p.pending = s.pending
        /\ p.entered = s.entered /\ p.version = s.version /\ p.resume = s.resume /\ p.pumped
    BY <2>2, <2>3 DEF Sessions
  <2> HIDE DEF p
  <2>5. Reasoned(p) /\ p # NoSession /\ Valid(p)
    BY <1>8, <2>2, <2>3, <2>4, ScriptAssumption DEF Reasoned, Valid
  <2>6. "pump" \in Turns
    BY DEF Turns
  <2>7. /\ TypeOK' /\ TurnInv' /\ TriggerKept' /\ phase' = "pump" /\ owed' = FALSE
        /\ Valid(session)' /\ session'.pumped
    BY <1>2, <1>3, <2>1, <2>2, <2>3, <2>4, <2>5, <2>6, EnterStep
  <2>8. RanInv'
    BY <1>1, <1>3, <2>1, <2>7 DEF RanInv
  <2> QED
    BY <2>7, <2>8 DEF AiInv
<1>9. CASE Valid(session) /\ ~moved /\ ~(s.mode # "paused" /\ s.resume # NoTurn)
  <2>1. /\ session' = s /\ phase' = "world" /\ ran' = 0
        /\ actor' = IF s.mode # "paused" THEN Rearmed(s) ELSE actor
        /\ UNCHANGED <<registers, unfinished, owed, voided>>
    BY <1>9 DEF BeforeFrame
  <2>2. /\ s \in Sessions /\ Reasoned(s) /\ s # NoSession /\ session # NoSession
        /\ s.pending = session.pending /\ s.entered = session.entered
        /\ s.version = session.version /\ s.resume = session.resume /\ s.wake = session.wake
    BY <1>5, <1>9
  <2>3. session.pending = NoField /\ ~session.entered
    BY <1>6, <1>9
  <2> HIDE DEF s
  <2>4. actor' \in {actor, [actor EXCEPT !.latch = TRUE]}
    BY <2>1 DEF Rearmed
  <2>5. /\ actor' \in [version : 0 .. MaxVersions, control : 0 .. MaxChanges,
                       cursor : Positions, latch : BOOLEAN, field : {0, 1}]
        /\ actor'.version = actor.version /\ actor'.control = actor.control
        /\ actor.latch => actor'.latch
    <3>1. CASE actor' = actor
      BY <1>3, <3>1
    <3>2. CASE actor' = [actor EXCEPT !.latch = TRUE]
      BY <1>3, <3>2
    <3> QED
      BY <2>4, <3>1, <3>2
  <2>6. Valid(session)' /\ (Fits(unfinished)' <=> Fits(unfinished))
        /\ (Fits(session.resume)' <=> Fits(session.resume))
    BY <1>9, <2>1, <2>2, <2>5 DEF Valid, Fits
  <2>7. TypeOK' /\ TurnInv'
    BY <1>2, <1>3, <1>9, <2>1, <2>2, <2>3, <2>5, <2>6, OutsideStep
  <2>8. RanInv'
    BY <1>1, <1>3, <2>1 DEF RanInv
  <2>9. TriggerKept'
    BY <1>9, <2>1, <2>2, <2>5, <2>6 DEF AiInv, TriggerKept
  <2> QED
    BY <2>7, <2>8, <2>9 DEF AiInv
<1> QED
  BY <1>4, <1>7, <1>8, <1>9

\* The tick consumes the latch: a turn begins, or the session holds the trigger.
LEMMA TickStep == ASSUME AiInv, Tick PROVE AiInv'
<1>1. /\ phase = "world" /\ ~ticked /\ actor.latch /\ ticked' = TRUE
      /\ actor' = [actor EXCEPT !.latch = FALSE] /\ UNCHANGED controlled
  BY DEF Tick
<1>2. phase \notin Turns /\ phase \in {"commands", "world"}
  BY <1>1 DEF Turns
<1>3. /\ actor' \in [version : 0 .. MaxVersions, control : 0 .. MaxChanges,
                     cursor : Positions, latch : BOOLEAN, field : {0, 1}]
      /\ actor'.version = actor.version /\ actor'.control = actor.control
      /\ actor.version <= actor'.version /\ actor.control <= actor'.control
  <2>1. /\ actor' \in [version : 0 .. MaxVersions, control : 0 .. MaxChanges,
                       cursor : Positions, latch : BOOLEAN, field : {0, 1}]
        /\ actor'.version = actor.version /\ actor'.control = actor.control
    BY <1>1, AiTypes
  <2> QED
    BY <2>1, AiTypes
<1>4. CASE Valid(session) /\ Suspends(session)
  <2>1. /\ session' = [session EXCEPT !.wake = TRUE] /\ owed' = TRUE /\ voided' = FALSE
        /\ UNCHANGED <<registers, phase, unfinished, ran, stopped>>
    BY <1>4 DEF Tick
  <2>2. session \in Sessions /\ Reasoned(session) /\ session # NoSession
        /\ ~session.entered /\ session.pending = NoField
    BY <1>2, <1>4, Outside DEF Valid
  <2>3. /\ session' \in Sessions /\ session'.wake
        /\ session'.mode = session.mode /\ session'.stop_reason = session.stop_reason
        /\ session'.entered = session.entered /\ session'.pending = session.pending
        /\ session'.version = session.version /\ session'.resume = session.resume
        /\ session'.pumped = session.pumped
    <3>1. session' \in Sessions
      BY <2>1, <2>2 DEF Sessions
    <3> QED
      BY <2>1, <2>2, <3>1 DEF Sessions
  <2>4. Reasoned(session') /\ session' # NoSession
    BY <2>2, <2>3, ScriptAssumption DEF Reasoned
  <2>5. Valid(session)' /\ (Fits(unfinished)' <=> Fits(unfinished))
        /\ (Fits(session.resume)' <=> Fits(session.resume))
    BY <1>3, <1>4, <2>1, <2>3, <2>4 DEF Valid, Fits
  <2>6. TypeOK' /\ TurnInv'
    BY <1>1, <1>2, <1>3, <1>4, <2>1, <2>2, <2>3, <2>4, <2>5, OutsideStep
  <2>7. RanInv'
    BY <1>1, <2>1 DEF AiInv, RanInv
  <2>8. TriggerKept'
    BY <2>3, <2>5 DEF TriggerKept
  <2> QED
    BY <2>6, <2>7, <2>8 DEF AiInv
<1>5. CASE ~Valid(session) /\ controlled
  <2>1. /\ owed' = FALSE /\ voided' = FALSE
        /\ UNCHANGED <<session, registers, phase, unfinished, ran, stopped>>
    BY <1>5 DEF Tick
  <2>2. ~Valid(session)' /\ (Fits(unfinished)' <=> Fits(unfinished)) /\ ~Fits(unfinished)
    BY <1>2, <1>3, <1>5, <2>1, Outside DEF Valid, Fits
  <2>3. TypeOK' /\ TurnInv'
    BY <1>1, <1>2, <1>3, <2>1, <2>2, OutsideStep, Outside
  <2>4. RanInv' /\ TriggerKept'
    BY <1>1, <2>1 DEF AiInv, RanInv, TriggerKept
  <2> QED
    BY <2>3, <2>4 DEF AiInv
<1>6. CASE ~(Valid(session) /\ Suspends(session)) /\ ~(~Valid(session) /\ controlled)
  <2>1. Enter(session, "tick") /\ ran' = ran + 1
    BY <1>6 DEF Tick
  <2>2. "tick" \in Turns
    BY DEF Turns
  <2>3. /\ TypeOK' /\ TurnInv' /\ TriggerKept' /\ phase' = "tick" /\ owed' = FALSE
    BY <1>2, <1>3, <2>1, <2>2, EnterStep, AiTypes
  <2>4. ran = 0
    BY <1>1, <1>6 DEF AiInv, RanInv, Suspends
  <2>5. RanInv'
    <3>1. ran' = 1
      BY <2>1, <2>4
    <3> QED
      BY <1>1, <2>3, <3>1 DEF AiInv, RanInv
  <2> QED
    BY <2>3, <2>5 DEF AiInv
<1> QED
  BY <1>4, <1>5, <1>6

\* The rest of the game: a later control state is not an earlier one.
LEMMA WorldStep == ASSUME AiInv, World PROVE AiInv'
<1>1. /\ phase = "world"
      /\ UNCHANGED <<session, registers, phase, ticked, controlled, unfinished, ran, owed, voided>>
  BY DEF World, history
<1>2. phase \notin Turns /\ phase \in {"commands", "world"}
  BY <1>1 DEF Turns
<1>3. /\ actor' \in [version : 0 .. MaxVersions, control : 0 .. MaxChanges,
                     cursor : Positions, latch : BOOLEAN, field : {0, 1}]
      /\ actor'.version = actor.version /\ actor.version <= actor'.version
      /\ actor'.control = actor.control \/ actor'.control = actor.control + 1
      /\ actor.control <= actor'.control
      /\ actor.latch => actor'.latch
  <2>1. actor \in [version : 0 .. MaxVersions, control : 0 .. MaxChanges,
                   cursor : Positions, latch : BOOLEAN, field : {0, 1}]
        /\ actor.version <= actor.version /\ actor.control \in Nat
    BY AiTypes
  <2>2. CASE actor' = [actor EXCEPT !.latch = TRUE]
    <3>1. /\ actor' \in [version : 0 .. MaxVersions, control : 0 .. MaxChanges,
                         cursor : Positions, latch : BOOLEAN, field : {0, 1}]
          /\ actor'.version = actor.version /\ actor'.control = actor.control /\ actor'.latch
      BY <2>1, <2>2
    <3> QED
      BY <2>1, <3>1
  <2>3. CASE actor' = [actor EXCEPT !.field = 1 - @]
    <3>1. 1 - actor.field \in {0, 1}
      BY <2>1
    <3>2. /\ actor' \in [version : 0 .. MaxVersions, control : 0 .. MaxChanges,
                         cursor : Positions, latch : BOOLEAN, field : {0, 1}]
          /\ actor'.version = actor.version /\ actor'.control = actor.control
          /\ actor'.latch = actor.latch
      BY <2>1, <2>3, <3>1
    <3> QED
      BY <2>1, <3>2
  <2>4. CASE actor.control < MaxChanges /\ \E c \in {1, actor.cursor} :
               actor' = [actor EXCEPT !.control = @ + 1, !.cursor = c]
    <3>1. PICK c \in {1, actor.cursor} : actor' = [actor EXCEPT !.control = @ + 1, !.cursor = c]
      BY <2>4
    <3>2. c \in Positions /\ actor.control + 1 \in 0 .. MaxChanges
      BY <2>1, <2>4, ScriptAssumption
    <3>3. /\ actor' \in [version : 0 .. MaxVersions, control : 0 .. MaxChanges,
                         cursor : Positions, latch : BOOLEAN, field : {0, 1}]
          /\ actor'.version = actor.version /\ actor'.control = actor.control + 1
          /\ actor'.latch = actor.latch
      BY <2>1, <3>1, <3>2
    <3> QED
      BY <2>1, <3>3
  <2> QED
    BY <2>2, <2>3, <2>4 DEF World
<1>4. ASSUME NEW t \in AnyTurn, t = NoTurn \/ t.control <= actor.control,
             t # NoTurn, t.control = actor'.control
      PROVE  Fits(t)
  <2>1. t.control \in Nat
    BY <1>4 DEF AnyTurn
  <2>2. t.control = actor.control
    BY <1>3, <1>4, <2>1, AiTypes
  <2> QED
    BY <1>4, <2>2 DEF Fits
<1>5. Fits(unfinished)' => Fits(unfinished)
  BY <1>1, <1>4 DEF AiInv, TurnInv, Fits
<1>6. Valid(session)' /\ Fits(session.resume)' => Valid(session) /\ Fits(session.resume)
  <2>1. ASSUME Valid(session)', Fits(session.resume)'
        PROVE  Valid(session) /\ Fits(session.resume)
    <3>1. Valid(session) /\ session.resume \in AnyTurn /\ session.resume # NoTurn
          /\ session.resume.control = actor'.control /\ session.resume.control <= actor.control
      BY <1>1, <1>3, <2>1, AiTypes DEF Valid, Fits, AiInv, TurnInv
    <3> QED
      BY <1>4, <3>1
  <2> QED
    BY <2>1
<1>7. Valid(session)' <=> Valid(session)
  BY <1>1, <1>3 DEF Valid
<1>8. TypeOK' /\ TurnInv'
  BY <1>1, <1>2, <1>3, <1>5, <1>6, <1>7, OutsideStep, Outside
<1>9. RanInv' /\ TriggerKept'
  BY <1>1, <1>3, <1>7 DEF AiInv, RanInv, TriggerKept
<1> QED
  BY <1>8, <1>9 DEF AiInv

LEMMA InstanceChangesStep == ASSUME AiInv, InstanceChanges PROVE AiInv'
<1>1. /\ phase = "world" /\ unfinished' = NoTurn /\ ran' = 0 /\ owed' = FALSE
      /\ actor.version < MaxVersions
      /\ actor' = [actor EXCEPT !.version = @ + 1, !.cursor = 1, !.latch = FALSE]
      /\ UNCHANGED <<session, registers, phase, ticked, controlled>>
  BY DEF InstanceChanges
<1>2. /\ actor' \in [version : 0 .. MaxVersions, control : 0 .. MaxChanges,
                     cursor : Positions, latch : BOOLEAN, field : {0, 1}]
      /\ actor'.version = actor.version + 1 /\ actor'.control = actor.control
  <2>1. actor.version + 1 \in 0 .. MaxVersions /\ 1 \in Positions
    BY <1>1, AiTypes, ScriptAssumption
  <2> QED
    BY <1>1, <2>1, AiTypes
<1>3. ~Fits(unfinished)'
  BY <1>1 DEF Fits
<1>4. ~Valid(session)'
  <2>1. session # NoSession => session.version <= actor.version /\ session.version \in Nat
    BY AiTypes DEF AiInv, TurnInv
  <2> QED
    BY <1>1, <1>2, <2>1, AiTypes DEF Valid
<1>5. TypeOK' /\ TurnInv'
  <2>1. actor.version <= actor'.version /\ actor.control <= actor'.control
    BY <1>2, AiTypes
  <2> QED
    BY <1>1, <1>2, <1>3, <1>4, <2>1, OutsideStep, Outside
<1>6. RanInv' /\ TriggerKept'
  BY <1>1 DEF AiInv, RanInv, TriggerKept
<1> QED
  BY <1>5, <1>6 DEF AiInv

LEMMA EndFrameStep == ASSUME AiInv, EndFrame PROVE AiInv'
<1>1. /\ phase = "world" /\ phase' = "commands"
      /\ UNCHANGED <<actor, session, registers, ticked, controlled, unfinished, ran, owed, voided>>
  BY DEF EndFrame, history
<1>2. /\ Valid(session)' <=> Valid(session)
      /\ Fits(unfinished)' <=> Fits(unfinished)
      /\ Fits(session.resume)' <=> Fits(session.resume)
  BY <1>1 DEF Valid, Fits
<1>3. TypeOK' /\ TurnInv'
  <2>1. actor.version <= actor'.version /\ actor.control <= actor'.control
    BY <1>1, AiTypes
  <2>2. actor' \in [version : 0 .. MaxVersions, control : 0 .. MaxChanges,
                    cursor : Positions, latch : BOOLEAN, field : {0, 1}]
    BY <1>1, AiTypes
  <2> QED
    BY <1>1, <1>2, <2>1, <2>2, OutsideStep, Outside
<1>4. RanInv' /\ TriggerKept'
  BY <1>1, <1>2 DEF AiInv, RanInv, TriggerKept
<1> QED
  BY <1>3, <1>4 DEF AiInv

(* The theorems                                                            *)

LEMMA AiInit == ASSUME Init PROVE AiInv
<1>1. /\ actor = [version |-> 0, control |-> 0, cursor |-> 1, latch |-> FALSE, field |-> 0]
      /\ session = NoSession /\ registers = NoTurn /\ phase = "commands"
      /\ ticked = FALSE /\ controlled \in BOOLEAN
      /\ unfinished = NoTurn /\ ran = 0 /\ owed = FALSE /\ voided = FALSE
  BY DEF Init
<1>2. TypeOK
  <2>1. 0 \in 0 .. MaxVersions /\ 0 \in 0 .. MaxChanges /\ 1 \in Positions
    BY ScriptAssumption
  <2> QED
    BY <1>1, <2>1 DEF TypeOK
<1>3. TurnInv
  BY <1>1 DEF TurnInv, AnyTurn, Turns, Fits, Valid
<1> QED
  BY <1>1, <1>2, <1>3 DEF AiInv, RanInv, TriggerKept

LEMMA AiStep == ASSUME AiInv, [Next]_vars PROVE AiInv'
<1>1. CASE Next
  BY <1>1, ParkStep, RunStep, ExitTurnStep, DetachStep, CommandStep, InvalidateStep,
     HotReplaceStep, ForceTurnStep, BeforeFrameAiStep, TickStep, WorldStep,
     InstanceChangesStep, EndFrameStep DEF Next, Interpret, Commands, Frame
<1>2. CASE UNCHANGED vars
  BY <1>2 DEF vars, history, AiInv, TypeOK, TurnInv, RanInv, TriggerKept, Valid, Fits
<1> QED
  BY <1>1, <1>2

\* The invariant of the AI debugger: the parked turn is the one that the session holds.
THEOREM DebuggerInvariant == Spec => []AiInv
<1>1. Init => AiInv
  BY AiInit
<1>2. AiInv /\ [Next]_vars => AiInv'
  BY AiStep
<1> QED
  BY <1>1, <1>2, PTL DEF Spec

\* Debugger and its session: a turn of the native interpreter is executed whole and
\* once, whatever it is interrupted by, and no two turns begin in one frame.
THEOREM DebuggerTurnsUnbroken == Spec => []TurnsUnbroken
<1>1. AiInv => TurnsUnbroken
  BY DEF AiInv, TurnInv, RanInv, TurnsUnbroken
<1> QED
  BY <1>1, DebuggerInvariant, PTL

\* em_ai_tick and should_suspend: a trigger that the debugger suppressed is in the latch
\* or in the session until a turn runs.
THEOREM DebuggerTriggerKept == Spec => []TriggerKept
<1>1. AiInv => TriggerKept
  BY DEF AiInv
<1> QED
  BY <1>1, DebuggerInvariant, PTL

(* What was asked for                                                      *)

\* It is paused, or will be as soon as the instruction just executed is recorded.
Due(s, field) ==
  \/ s.mode = "paused"
  \/ s.pending # NoField /\ (s.mode = "step" \/ (s.watch /\ s.pending # field))

\* The session s does what was asked for, and what may pass a breakpoint once is the
\* dispatch at which it stopped.
Obeys(s, field, wish, stop) ==
  /\ wish = "step" => s.mode \in {"step", "paused"}
  /\ wish = "turn" => s.mode \in {"until yield", "paused"}
  /\ wish = "nothing" => Due(s, field)
  /\ s.mode # "paused" =>
       /\ s.breakpoint_boundary = 0
       /\ s.skip_once => s.mode = "step" /\ s.skip_boundary = 0
       /\ s.skip_boundary # 0 => stop = s.skip_boundary
  /\ s.breakpoint_boundary # 0 => stop = s.breakpoint_boundary
  /\ s.pending # NoField => s.skip_boundary = 0 /\ s.breakpoint_boundary = 0
\* Nothing may pass a breakpoint, nor will after a resume.
Unhalted(s) == s.breakpoint_boundary = 0 /\ (s.mode # "paused" => s.skip_boundary = 0)

\* A turn is never parked at its last dispatch, and between two turns only a parked one
\* has a dispatch to pass.
AskInv ==
  /\ asked \in {"nothing", "anything", "step", "turn"}
  /\ phase \in {"detach", "attach"} => asked = "nothing"
  /\ Valid(session) /\ session.resume # NoTurn => session.resume.count < MaxCount
  /\ Valid(session) /\ ~session.detaching =>
       /\ Obeys(session, actor.field, asked, stopped)
       /\ phase \notin Turns /\ session.resume = NoTurn => Unhalted(session)
       /\ phase \in Turns /\ AtExit => session.pending # NoField

\* A session that has just stopped has nothing to pass.
LEMMA StopObeys ==
  ASSUME NEW s \in Sessions, s.pending = NoField,
         NEW why \in {"user", "breakpoint", "step", "yielded", "budget", "invalidated"},
         NEW field, NEW wish, NEW stop
  PROVE  /\ Obeys(Stop(s, why), field, wish, stop) /\ Unhalted(Stop(s, why))
         /\ Stop(s, why).mode = "paused"
<1> DEFINE t == Stop(s, why)
<1>1. t.mode = "paused" /\ t.breakpoint_boundary = 0 /\ t.pending = s.pending
  BY DEF Stop, Sessions
<1> HIDE DEF t
<1>2. Obeys(t, field, wish, stop) /\ Unhalted(t) /\ t.mode = "paused"
  BY <1>1 DEF Obeys, Unhalted, Due
<1> QED
  BY <1>2 DEF t

\* The record of an instruction stops what was to stop and leaves the rest as it is.
LEMMA CompleteObeys ==
  ASSUME NEW s \in Sessions, Reasoned(s), actor.field \in {0, 1}, NEW outcome, NEW wish, NEW stop,
         Obeys(s, actor.field, wish, stop)
  PROVE  LET c == Complete(s, outcome) IN
         /\ Obeys(c, actor.field, wish, stop)
         /\ c.mode \in {s.mode, "paused"}
         /\ c.breakpoint_boundary # 0 => c = s
         /\ c.watch = s.watch
         /\ s.pending = NoField => c = s
         /\ s.pending # NoField => Unhalted(c)
         /\ s.pending # NoField /\ s.mode = "until yield" /\ outcome # "continue" => c.mode = "paused"
         /\ s.pending # NoField /\ s.mode = "step" => c.mode = "paused"
<1> DEFINE r == [s EXCEPT !.pending = NoField, !.seen = actor.field]
           c == Complete(s, outcome)
<1>1. CASE s.pending = NoField
  <2>1. c = s
    BY <1>1 DEF Complete
  <2> HIDE DEF c
  <2>2. /\ Obeys(c, actor.field, wish, stop) /\ c.mode \in {s.mode, "paused"}
        /\ c.breakpoint_boundary # 0 => c = s
        /\ c.watch = s.watch
    BY <2>1
  <2> QED
    BY <1>1, <2>1, <2>2 DEF c
<1>2. CASE s.pending # NoField
  <2>1. c = AfterInstruction(s, outcome)
    BY <1>2 DEF Complete
  <2>2. /\ r \in Sessions /\ r.pending = NoField /\ r.mode = s.mode /\ r.watch = s.watch
        /\ r.skip_once = s.skip_once /\ r.skip_boundary = s.skip_boundary
        /\ r.breakpoint_boundary = s.breakpoint_boundary /\ r.remaining = s.remaining
    <3>0. actor.field \in 0 .. NoField /\ NoField \in 0 .. NoField
      BY DEF NoField
    <3>1. r \in Sessions
      BY <3>0 DEF Sessions
    <3> QED
      BY <3>1 DEF Sessions
  <2>3. s.skip_boundary = 0 /\ s.breakpoint_boundary = 0
    BY <1>2 DEF Obeys
  <2>4. \/ \E why \in {"breakpoint", "step", "yielded", "budget"} : c = Stop(r, why)
        \/ /\ c = r \/ c = [r EXCEPT !.remaining = @ - 1]
           /\ ~(s.watch /\ s.pending # actor.field) /\ s.mode # "step"
           /\ ~(s.mode = "until yield" /\ outcome # "continue")
    <3> DEFINE why == IF s.watch /\ s.pending # actor.field THEN "breakpoint"
                      ELSE IF s.mode = "step" THEN "step"
                      ELSE IF s.mode = "until yield" /\ outcome # "continue" THEN "yielded"
                      ELSE "budget"
    <3>1. why \in {"breakpoint", "step", "yielded", "budget"}
      OBVIOUS
    <3>2. \/ c = Stop(r, why)
          \/ /\ c = r \/ c = [r EXCEPT !.remaining = @ - 1]
             /\ ~(s.watch /\ s.pending # actor.field) /\ s.mode # "step"
             /\ ~(s.mode = "until yield" /\ outcome # "continue")
      BY <2>1 DEF AfterInstruction
    <3> HIDE DEF why, r, c
    <3> QED
      BY <3>1, <3>2
  <2>5. r.watch = Stop(r, "step").watch /\ \A why : Stop(r, why).watch = r.watch
    BY <2>2 DEF Stop, Sessions
  <2> HIDE DEF r
  <2>6. CASE \E why \in {"breakpoint", "step", "yielded", "budget"} : c = Stop(r, why)
    <3>1. PICK why \in {"breakpoint", "step", "yielded", "budget"} : c = Stop(r, why)
      BY <2>6
    <3>2. Obeys(c, actor.field, wish, stop) /\ Unhalted(c) /\ c.mode = "paused"
      BY <2>2, <3>1, StopObeys
    <3>3. c.watch = s.watch
      BY <2>2, <2>5, <3>1
    <3> HIDE DEF c
    <3>4. c.breakpoint_boundary = 0
      BY <3>2 DEF Unhalted
    <3> QED
      BY <1>2, <3>2, <3>3, <3>4 DEF c
  <2>7. CASE /\ c = r \/ c = [r EXCEPT !.remaining = @ - 1]
             /\ ~(s.watch /\ s.pending # actor.field) /\ s.mode # "step"
             /\ ~(s.mode = "until yield" /\ outcome # "continue")
    <3>1. /\ c.pending = NoField /\ c.mode = s.mode /\ c.watch = s.watch
          /\ c.skip_once = s.skip_once /\ c.skip_boundary = 0 /\ c.breakpoint_boundary = 0
      <4> HIDE DEF c
      <4>1. CASE c = r
        BY <2>2, <2>3, <4>1
      <4>2. CASE c = [r EXCEPT !.remaining = @ - 1]
        <5>1. r \in Sessions
          BY <2>2
        <5>2. /\ c.pending = r.pending /\ c.mode = r.mode /\ c.watch = r.watch
              /\ c.skip_once = r.skip_once /\ c.skip_boundary = r.skip_boundary
              /\ c.breakpoint_boundary = r.breakpoint_boundary
          BY <4>2, <5>1 DEF Sessions
        <5> QED
          BY <2>2, <2>3, <5>2
      <4> QED
        BY <2>7, <4>1, <4>2 DEF c
    <3>2. Due(s, actor.field) => s.mode = "paused"
      BY <2>7 DEF Due
    <3> HIDE DEF c
    <3>3. Obeys(c, actor.field, wish, stop)
      BY <3>1, <3>2 DEF Obeys, Due
    <3>4. Unhalted(c)
      BY <3>1 DEF Unhalted
    <3> QED
      BY <1>2, <2>7, <3>1, <3>3, <3>4 DEF c
  <2> QED
    BY <2>4, <2>6, <2>7
<1> QED
  BY <1>1, <1>2

\* A dispatch that is let through uses up what let it pass.
LEMMA PassObeys ==
  ASSUME NEW c \in Sessions, NEW pc \in Positions, Proceeds(c, pc), NEW field, NEW wish, NEW stop,
         Obeys(c, field, wish, stop)
  PROVE  LET b == BeforeInstruction(c, pc) IN
         /\ b.mode = c.mode /\ b.watch = c.watch
         /\ ~b.skip_once /\ b.skip_boundary = 0 /\ b.breakpoint_boundary = 0
<1> DEFINE b == BeforeInstruction(c, pc)
<1>1. c.mode # "paused" /\ c.breakpoint_boundary = 0
      /\ (c.skip_once => c.skip_boundary = 0)
  BY DEF Proceeds, Obeys
<1>2. CASE c.skip_once
  <2>1. b = [c EXCEPT !.skip_once = FALSE]
    BY <1>1, <1>2 DEF BeforeInstruction
  <2> QED
    BY <1>1, <1>2, <2>1 DEF Sessions
<1>3. CASE ~c.skip_once
  <2>1. b = [c EXCEPT !.skip_boundary = 0]
    BY <1>1, <1>3 DEF BeforeInstruction
  <2> QED
    BY <1>1, <1>3, <2>1 DEF Sessions
<1> QED
  BY <1>2, <1>3

\* A dispatch that is not let through is the one that may pass after a resume.
LEMMA HaltObeys ==
  ASSUME NEW c \in Sessions, c.pending = NoField, NEW pc \in Positions, ~Proceeds(c, pc),
         NEW field, NEW wish, NEW stop, Obeys(c, field, wish, stop)
  PROVE  LET b == BeforeInstruction(c, pc) IN
         /\ b.mode = "paused" /\ b.pending = NoField
         /\ b.breakpoint_boundary # 0 =>
              (IF c.mode # "paused" THEN pc ELSE stop) = b.breakpoint_boundary
<1> DEFINE b == BeforeInstruction(c, pc)
           taken == [c EXCEPT !.skip_boundary = 0]
<1>1. CASE c.mode = "paused"
  <2>1. b = c
    BY <1>1 DEF BeforeInstruction
  <2> QED
    BY <1>1, <2>1 DEF Obeys
<1>2. CASE c.mode # "paused"
  <2>1. b = [Stop(taken, "breakpoint") EXCEPT !.breakpoint_boundary = pc]
    BY <1>2 DEF BeforeInstruction, Proceeds
  <2>2. taken \in Sessions /\ taken.pending = NoField
    BY DEF Sessions
  <2> HIDE DEF taken
  <2>3. /\ Stop(taken, "breakpoint") \in Sessions /\ Stop(taken, "breakpoint").mode = "paused"
        /\ Stop(taken, "breakpoint").pending = NoField
    BY <2>2, StopKeeps DEF Keeps
  <2>4. b.mode = "paused" /\ b.pending = NoField /\ b.breakpoint_boundary = pc
    BY <2>1, <2>3 DEF Sessions
  <2> QED
    BY <1>2, <2>4
<1> QED
  BY <1>1, <1>2

\* The interpreter is called: it takes up the parked turn, with the dispatch that may
\* pass, or begins one with nothing to pass.
LEMMA EnterAsked ==
  ASSUME AiInv, AskInv, phase \in {"commands", "world"}, NEW who \in Turns, NEW s, Enter(s, who),
         s # NoSession => session # NoSession /\ s.version = session.version,
         Valid(s) => s \in Sessions /\ s.pending = NoField /\ s.resume = session.resume,
         Valid(s) /\ ~s.detaching =>
           /\ Obeys(s, actor.field, asked, stopped)
           /\ s.resume = NoTurn => Unhalted(s),
         who \in {"detach", "attach"} => s.detaching,
         asked' = asked \/ (who \in {"detach", "attach"} /\ asked' = "nothing"),
         who \in {"detach", "attach"} => asked' = "nothing",
         actor'.version = actor.version, actor'.field = actor.field
  PROVE  AskInv'
<1>1. /\ session' = IF Valid(s) THEN Entered(s) ELSE s
      /\ registers' = EntryPoint(s) /\ phase' = who
      /\ stopped' = IF Fits(unfinished) THEN stopped ELSE 0
  BY DEF Enter
<1>2. Valid(s) => Valid(session)
  BY DEF Valid
<1>3. ASSUME Valid(s), Fits(s.resume)
      PROVE  Fits(unfinished)
  BY <1>2, <1>3, Outside
<1>4. 0 < MaxCount
  BY ScriptAssumption
<1>5. registers'.count < MaxCount
  <2>1. CASE Valid(s) /\ Fits(s.resume)
    BY <1>1, <1>2, <2>1 DEF EntryPoint, AskInv, Fits
  <2>2. CASE ~(Valid(s) /\ Fits(s.resume))
    BY <1>1, <1>4, <2>2 DEF EntryPoint, Fresh
  <2> QED
    BY <2>1, <2>2
<1>6. ~AtExit'
  <2>1. registers' \in AnyTurn /\ registers' # NoTurn
    <3>1. CASE Valid(s) /\ Fits(s.resume)
      <4>1. s.resume \in AnyTurn
        BY <3>1 DEF Sessions
      <4> QED
        BY <1>1, <3>1, <4>1 DEF EntryPoint, Fits
    <3>2. CASE ~(Valid(s) /\ Fits(s.resume))
      BY <1>1, <3>2, FreshTurn DEF EntryPoint
    <3> QED
      BY <3>1, <3>2
  <2>2. registers'.count \in Nat
    BY <2>1 DEF AnyTurn
  <2> QED
    BY <1>5, <2>2, ScriptAssumption DEF AtExit
<1>7. CASE ~Valid(s)
  <2>1. ~Valid(session)'
    BY <1>1, <1>7 DEF Valid
  <2>2. asked' \in {"nothing", "anything", "step", "turn"}
    BY DEF AskInv
  <2> QED
    BY <1>1, <2>1, <2>2 DEF AskInv
<1>8. CASE Valid(s)
  <2> DEFINE e == [s EXCEPT !.entered = TRUE, !.wake = FALSE, !.resume = NoTurn]
  <2>1. s \in Sessions /\ s.pending = NoField
    BY <1>8
  <2>2. /\ e \in Sessions /\ e.pending = NoField /\ e.resume = NoTurn
        /\ e.mode = s.mode /\ e.skip_once = s.skip_once /\ e.skip_boundary = s.skip_boundary
        /\ e.breakpoint_boundary = s.breakpoint_boundary /\ e.watch = s.watch
        /\ e.detaching = s.detaching
    <3>1. e \in Sessions
      BY <2>1, FreshTurn DEF Sessions
    <3> QED
      BY <2>1, <3>1 DEF Sessions
  <2>3. session' = IF s.resume = NoTurn \/ Fits(s.resume) THEN e ELSE Stop(e, "invalidated")
    BY <1>1, <1>8 DEF Entered
  <2> HIDE DEF e
  <2>4. Keeps(e, Stop(e, "invalidated"))
    BY <2>2, StopKeeps
  <2>5. session'.resume = NoTurn /\ session'.detaching = s.detaching
    BY <2>2, <2>3, <2>4 DEF Keeps
  <2>6. ASSUME ~s.detaching
        PROVE  Obeys(session', actor'.field, asked', stopped')
    <3>0. asked' = asked
      BY <2>6
    <3>1. CASE Fits(s.resume)
      <4>1. stopped' = stopped /\ session' = e
        BY <1>1, <1>3, <1>8, <2>3, <3>1
      <4>2. Obeys(s, actor.field, asked, stopped)
        BY <1>8, <2>6
      <4> QED
        BY <2>1, <2>2, <3>0, <4>1, <4>2 DEF Obeys, Due
    <3>2. CASE s.resume = NoTurn
      <4>1. session' = e
        BY <2>3, <3>2
      <4>2. Obeys(s, actor.field, asked, stopped) /\ Unhalted(s)
        BY <1>8, <2>6, <3>2
      <4> QED
        BY <2>1, <2>2, <3>0, <4>1, <4>2 DEF Obeys, Due, Unhalted
    <3>3. CASE s.resume # NoTurn /\ ~Fits(s.resume)
      <4>1. session' = Stop(e, "invalidated")
        BY <2>3, <3>3
      <4> QED
        BY <2>2, <4>1, StopObeys
    <3> QED
      BY <3>1, <3>2, <3>3
  <2>7. asked' \in {"nothing", "anything", "step", "turn"}
    BY DEF AskInv
  <2> QED
    BY <1>1, <1>6, <2>5, <2>6, <2>7 DEF AskInv
<1> QED
  BY <1>7, <1>8

\* Whoever begins has stopped.
LEMMA NewSessionObeys ==
  ASSUME NEW field, NEW wish, NEW stop
  PROVE  Obeys(NewSession, field, wish, stop) /\ Unhalted(NewSession)
BY DEF NewSession, Obeys, Due, Unhalted

\* A valid session that is attached sees every turn.
LEMMA DebuggedTurn ==
  ASSUME AiInv, phase \in Turns, Valid(session), ~session.detaching
  PROVE  Debugged
BY AiTypes DEF Valid, Debugged

\* The interpreter returns with the session s.
LEMMA ReturnAsked ==
  ASSUME AiInv, AskInv, phase \in Turns, NEW s, Return(s),
         s # NoSession => session # NoSession /\ s.version = session.version
                          /\ s.detaching = session.detaching,
         Debugged => /\ Obeys(s, actor'.field, asked', stopped')
                     /\ s.resume = NoTurn => Unhalted(s)
                     /\ s.resume # NoTurn => s.resume.count < MaxCount,
         ~Debugged /\ Valid(session) => s.resume = NoTurn,
         asked' \in {"nothing", "anything", "step", "turn"},
         actor'.version = actor.version
  PROVE  AskInv'
<1>1. /\ session' = IF phase = "detach" THEN NoSession
                    ELSE IF phase = "attach" THEN NewSession ELSE s
      /\ phase' = IF phase \in {"pump", "tick"} THEN "world" ELSE "commands"
  BY DEF Return
<1>2. phase' \notin Turns /\ phase' \notin {"detach", "attach"}
  BY <1>1 DEF Turns
<1>3. CASE session' = NoSession
  BY <1>2, <1>3 DEF AskInv, Valid
<1>4. CASE session' = NewSession
  <2>1. session'.resume = NoTurn
    BY <1>4, NewSessionOK
  <2> QED
    BY <1>2, <1>4, <2>1, NewSessionObeys DEF AskInv
<1>5. CASE session' = s
  <2>1. Valid(session)' => Valid(session)
    BY <1>5 DEF Valid
  <2>2. Valid(session)' /\ ~session'.detaching => Debugged
    BY <1>5, <2>1, DebuggedTurn DEF Valid
  <2>3. Valid(session)' /\ session'.resume # NoTurn => session'.resume.count < MaxCount
    BY <1>5, <2>1
  <2> QED
    BY <1>2, <1>5, <2>2, <2>3 DEF AskInv
<1> QED
  BY <1>1, <1>3, <1>4, <1>5

\* What a turn of an attached session knows.
LEMMA DebuggedAsked ==
  ASSUME AiInv, AskInv, phase \in Turns, Debugged
  PROVE  /\ session \in Sessions /\ Reasoned(session) /\ session # NoSession
         /\ actor.field \in {0, 1} /\ registers.pc \in Positions
         /\ Valid(session) /\ session.resume = NoTurn /\ ~session.detaching
         /\ Obeys(session, actor.field, asked, stopped)
         /\ AtExit => session.pending # NoField
         /\ asked \in {"nothing", "anything", "step", "turn"}
<1>1. session # NoSession /\ session.entered /\ ~session.detaching
  BY DEF Debugged
<1>2. Valid(session) /\ session.resume = NoTurn /\ registers.pc \in Positions
  BY <1>1, TurnUnderWay
<1> QED
  BY <1>1, <1>2, AiTypes DEF AskInv

\* A turn is parked at the dispatch that may pass.
LEMMA ParkAsked == ASSUME AiInv, AskInv, Park PROVE AskInv'
<1> DEFINE c == Complete(session, "continue")
<1>1. PICK readable \in BOOLEAN :
        LET s == IF readable THEN BeforeInstruction(c, registers.pc)
                 ELSE Stop(c, "invalidated")
        IN /\ readable => ~Proceeds(c, registers.pc)
           /\ Return([s EXCEPT !.entered = FALSE, !.resume = [registers EXCEPT !.control = actor.control]])
           /\ stopped' = IF readable /\ c.mode # "paused" THEN registers.pc
                         ELSE IF c.mode # "paused" THEN 0 ELSE stopped
  BY DEF Park
<1> DEFINE s == IF readable THEN BeforeInstruction(c, registers.pc) ELSE Stop(c, "invalidated")
           p == [s EXCEPT !.entered = FALSE, !.resume = [registers EXCEPT !.control = actor.control]]
<1>2. phase \in Turns /\ Debugged /\ ~AtExit /\ asked' = "nothing" /\ actor' = actor
  BY DEF Park
<1>3. /\ session \in Sessions /\ Reasoned(session) /\ session # NoSession
      /\ actor.field \in {0, 1} /\ registers.pc \in Positions
      /\ Valid(session) /\ Obeys(session, actor.field, asked, stopped)
  BY <1>2, DebuggedAsked
<1>4. Keeps(session, c) /\ Reasoned(c) /\ c.pending = NoField /\ c \in Sessions
  <2>1. Keeps(session, c) /\ Reasoned(c) /\ c.pending = NoField
    BY <1>3, CompleteKeeps
  <2> QED
    BY <2>1 DEF Keeps
<1>5. Obeys(c, actor.field, asked, stopped)
  BY <1>3, CompleteObeys
<1>6. Return(p)
  BY <1>1
<1>7. /\ readable => ~Proceeds(c, registers.pc)
      /\ stopped' = IF readable /\ c.mode # "paused" THEN registers.pc
                    ELSE IF c.mode # "paused" THEN 0 ELSE stopped
  BY <1>1
<1> HIDE DEF c
<1>8. /\ s.mode = "paused" /\ s.pending = NoField
      /\ s.breakpoint_boundary # 0 => stopped' = s.breakpoint_boundary
  <2>1. CASE readable
    <3>1. LET b == BeforeInstruction(c, registers.pc) IN
          /\ b.mode = "paused" /\ b.pending = NoField
          /\ b.breakpoint_boundary # 0 =>
               (IF c.mode # "paused" THEN registers.pc ELSE stopped) = b.breakpoint_boundary
      BY <1>3, <1>4, <1>5, <1>7, <2>1, HaltObeys
    <3> QED
      BY <1>7, <2>1, <3>1
  <2>2. CASE ~readable
    <3>1. /\ Obeys(Stop(c, "invalidated"), 0, "anything", 0) /\ Unhalted(Stop(c, "invalidated"))
          /\ Stop(c, "invalidated").mode = "paused"
      BY <1>4, StopObeys
    <3>2. Stop(c, "invalidated").pending = c.pending
      BY <1>4, StopKeeps
    <3> QED
      BY <1>4, <2>2, <3>1, <3>2 DEF Unhalted
  <2> QED
    BY <2>1, <2>2
<1>9. Keeps(c, s) /\ s \in Sessions
  <2>1. CASE readable
    BY <1>3, <1>4, <2>1, BeforeKeeps DEF Keeps
  <2>2. CASE ~readable
    BY <1>4, <2>2, StopKeeps DEF Keeps
  <2> QED
    BY <2>1, <2>2
<1> HIDE DEF s
<1>10. registers \in AnyTurn /\ registers.count < MaxCount
       /\ [registers EXCEPT !.control = actor.control] = registers /\ registers # NoTurn
  <2>1. /\ registers \in [pc : Positions, count : 0 .. MaxCount, control : 0 .. MaxChanges]
        /\ registers.control = actor.control /\ registers # NoTurn
    BY <1>2, TurnUnderWay
  <2>2. registers.count \in Nat
    BY <2>1
  <2>3. registers.count < MaxCount
    BY <1>2, <2>2, ScriptAssumption DEF AtExit
  <2> QED
    BY <2>1, <2>3 DEF AnyTurn
<1>11. /\ p.mode = "paused" /\ p.pending = NoField /\ p.resume = registers
       /\ p.breakpoint_boundary = s.breakpoint_boundary
       /\ p.version = s.version /\ p.detaching = s.detaching
  <2>1. p = [s EXCEPT !.entered = FALSE, !.resume = registers]
    BY <1>10
  <2> HIDE DEF p
  <2> QED
    BY <1>8, <1>9, <2>1 DEF Sessions
<1> HIDE DEF p
<1>12. Obeys(p, actor'.field, asked', stopped')
  BY <1>2, <1>8, <1>11 DEF Obeys, Due
<1>13. p.version = session.version /\ p.detaching = session.detaching
  BY <1>4, <1>9, <1>11 DEF Keeps
<1> QED
  BY <1>2, <1>3, <1>6, <1>10, <1>11, <1>12, <1>13, ReturnAsked

\* A turn that has used up its dispatches has done what was asked for.
LEMMA ExitAsked == ASSUME AiInv, AskInv, Exit PROVE AskInv'
<1> DEFINE l == Left(session, "yield")
<1>1. /\ phase \in Turns /\ AtExit /\ Return(l) /\ stopped' = stopped
      /\ actor' = [actor EXCEPT !.cursor = registers.pc]
      /\ asked' = IF Debugged /\ asked = "turn" THEN "nothing" ELSE asked
  BY DEF Exit
<1>2. actor'.version = actor.version /\ actor'.field = actor.field
  BY <1>1, AiTypes
<1>3. asked' \in {"nothing", "anything", "step", "turn"}
  BY <1>1 DEF AskInv
<1>4. /\ l = NoSession <=> session = NoSession
      /\ session # NoSession =>
           l \in Sessions /\ l.version = session.version /\ l.resume = session.resume
  BY <1>1, LeftSession, AiTypes
<1>5. CASE ~Debugged
  <2>1. session # NoSession => l.detaching = session.detaching
    <3>1. CASE session # NoSession /\ session.entered
      <4> DEFINE c == Complete(session, "yield")
      <4>1. Keeps(session, c)
        BY <3>1, AiTypes, CompleteKeeps
      <4> HIDE DEF c
      <4>2. c \in Sessions /\ c.detaching = session.detaching
        BY <4>1 DEF Keeps
      <4>3. l = [c EXCEPT !.entered = FALSE]
        BY <3>1 DEF Left, c
      <4> HIDE DEF l
      <4> QED
        BY <4>2, <4>3 DEF Sessions
    <3>2. CASE session # NoSession /\ ~session.entered
      BY <3>2 DEF Left
    <3> QED
      BY <3>1, <3>2
  <2>2. Valid(session) => l.resume = NoTurn
    BY <1>1, <1>4 DEF Valid, AiInv, TurnInv
  <2> HIDE DEF l
  <2> QED
    BY <1>1, <1>2, <1>3, <1>4, <1>5, <2>1, <2>2, ReturnAsked
<1>6. CASE Debugged
  <2> DEFINE c == Complete(session, "yield")
  <2>1. /\ session \in Sessions /\ Reasoned(session) /\ session # NoSession /\ actor.field \in {0, 1}
        /\ Valid(session) /\ session.resume = NoTurn
        /\ Obeys(session, actor.field, asked, stopped) /\ session.pending # NoField
    BY <1>1, <1>6, DebuggedAsked
  <2>2. /\ Obeys(c, actor.field, asked, stopped) /\ Unhalted(c)
        /\ session.mode = "until yield" => c.mode = "paused"
        /\ c.mode \in {session.mode, "paused"}
    BY <2>1, CompleteObeys
  <2>3. Keeps(session, c) /\ c.pending = NoField
    BY <2>1, CompleteKeeps
  <2>4. l = [c EXCEPT !.entered = FALSE]
    BY <1>6 DEF Left, Debugged
  <2> HIDE DEF c, l
  <2>5. c \in Sessions /\ c.detaching = session.detaching
    BY <2>3 DEF Keeps
  <2>6. /\ l.mode = c.mode /\ l.pending = c.pending /\ l.skip_once = c.skip_once
        /\ l.skip_boundary = c.skip_boundary /\ l.breakpoint_boundary = c.breakpoint_boundary
        /\ l.watch = c.watch /\ l.detaching = c.detaching
    BY <2>4, <2>5 DEF Sessions
  <2>7. asked = "turn" => c.mode = "paused"
    BY <2>1, <2>2 DEF Obeys
  <2>8. Obeys(l, actor'.field, asked', stopped')
    BY <1>1, <1>2, <2>2, <2>3, <2>6, <2>7 DEF Obeys, Due
  <2>9. Unhalted(l)
    BY <2>2, <2>6 DEF Unhalted
  <2> QED
    BY <1>1, <1>2, <1>3, <1>4, <1>6, <2>1, <2>5, <2>6, <2>8, <2>9, ReturnAsked
<1> QED
  BY <1>5, <1>6

\* An instruction uses up what was asked for, and what let it pass.
LEMMA RunAsked == ASSUME AiInv, AskInv, Run PROVE AskInv'
<1> DEFINE pc == registers.pc
           does == Program[pc]
           c == Complete(session, "continue")
           s == IF Debugged THEN [BeforeInstruction(c, pc) EXCEPT !.pending = actor.field] ELSE session
           ends == does \in {"yield", "stop"}
<1>1. /\ phase \in Turns
      /\ Debugged => Proceeds(c, pc)
      /\ IF ends
         THEN /\ actor' = [actor EXCEPT !.cursor = IF does = "stop" THEN 1 ELSE pc + 1]
              /\ Return(Left(s, does))
         ELSE /\ actor' = [actor EXCEPT !.field = IF does = "write" THEN 1 - @ ELSE @]
              /\ session' = s /\ registers' = [registers EXCEPT !.pc = @ + 1, !.count = @ + 1]
              /\ phase' = phase
      /\ asked' = IF Debugged /\ \/ asked = "step"
                                 \/ asked = "turn" /\ ends
                                 \/ session.watch /\ does = "write"
                  THEN "nothing" ELSE asked
      /\ stopped' = 0
  BY DEF Run
<1>2. asked' \in {"nothing", "anything", "step", "turn"}
  BY <1>1 DEF AskInv
<1>3. actor'.version = actor.version /\ (ends => actor'.field = actor.field)
      /\ (~ends => actor'.field = IF does = "write" THEN 1 - actor.field ELSE actor.field)
  <2>1. actor \in [version : 0 .. MaxVersions, control : 0 .. MaxChanges,
                   cursor : Positions, latch : BOOLEAN, field : {0, 1}]
    BY AiTypes
  <2>2. CASE ends
    <3> DEFINE cursor == IF does = "stop" THEN 1 ELSE pc + 1
    <3>1. actor' = [actor EXCEPT !.cursor = cursor]
      BY <1>1, <2>2
    <3> HIDE DEF cursor
    <3>2. actor'.version = actor.version /\ actor'.field = actor.field
      BY <2>1, <3>1
    <3> QED
      BY <2>2, <3>2
  <2>3. CASE ~ends
    <3> DEFINE field == IF does = "write" THEN 1 - actor.field ELSE actor.field
    <3>1. actor' = [actor EXCEPT !.field = field]
      BY <1>1, <2>3
    <3> HIDE DEF field
    <3>2. actor'.version = actor.version /\ actor'.field = field
      BY <2>1, <3>1
    <3> QED
      BY <2>3, <3>2 DEF field
  <2> QED
    BY <2>2, <2>3
<1>4. CASE ~Debugged
  <2>1. s = session
    BY <1>4
  <2>2. Valid(session) => session.detaching /\ session.resume = NoTurn
    BY <1>1, <1>4, DebuggedTurn DEF AiInv, TurnInv
  <2> HIDE DEF s
  <2>3. CASE ends
    <3> DEFINE l == Left(s, does)
    <3>1. /\ l = NoSession <=> session = NoSession
          /\ session # NoSession =>
               l \in Sessions /\ l.version = session.version /\ l.resume = session.resume
      BY <1>1, <2>1, LeftSession, AiTypes
    <3>2. session # NoSession => l.detaching = session.detaching
      <4>1. CASE session # NoSession /\ session.entered
        <5> DEFINE d == Complete(session, does)
        <5>1. Keeps(session, d)
          BY <4>1, AiTypes, CompleteKeeps
        <5> HIDE DEF d
        <5>2. d \in Sessions /\ d.detaching = session.detaching
          BY <5>1 DEF Keeps
        <5>3. l = [d EXCEPT !.entered = FALSE]
          BY <2>1, <4>1 DEF Left, d
        <5> HIDE DEF l
        <5> QED
          BY <5>2, <5>3 DEF Sessions
      <4>2. CASE session # NoSession /\ ~session.entered
        BY <2>1, <4>2 DEF Left
      <4> QED
        BY <4>1, <4>2
    <3>3. Return(l)
      BY <1>1, <2>3
    <3>4. Valid(session) => l.resume = NoTurn
      BY <2>2, <3>1 DEF Valid
    <3> HIDE DEF l
    <3> QED
      BY <1>1, <1>2, <1>3, <1>4, <3>1, <3>2, <3>3, <3>4, ReturnAsked
  <2>4. CASE ~ends
    <3>1. session' = session /\ phase' = phase /\ asked' = asked
      BY <1>1, <1>4, <2>1, <2>4
    <3>2. Valid(session)' <=> Valid(session)
      BY <1>3, <3>1 DEF Valid
    <3> QED
      BY <1>2, <2>2, <3>1, <3>2 DEF AskInv
  <2> QED
    BY <2>3, <2>4
<1>5. CASE Debugged
  <2> DEFINE b == BeforeInstruction(c, pc)
  <2>1. /\ session \in Sessions /\ Reasoned(session) /\ session # NoSession
        /\ actor.field \in {0, 1} /\ pc \in Positions
        /\ Valid(session) /\ session.resume = NoTurn /\ ~session.detaching
        /\ Obeys(session, actor.field, asked, stopped)
    BY <1>1, <1>5, DebuggedAsked
  <2>2. Keeps(session, c) /\ Reasoned(c) /\ c.pending = NoField /\ c \in Sessions
    <3>1. Keeps(session, c) /\ Reasoned(c) /\ c.pending = NoField
      BY <2>1, CompleteKeeps
    <3> QED
      BY <3>1 DEF Keeps
  <2>3. Obeys(c, actor.field, asked, stopped) /\ c.mode \in {session.mode, "paused"}
        /\ c.watch = session.watch
    BY <2>1, CompleteObeys
  <2>4. s = [b EXCEPT !.pending = actor.field] /\ Proceeds(c, pc)
    BY <1>1, <1>5
  <2> HIDE DEF c
  <2>5. Keeps(c, b) /\ Reasoned(b) /\ b \in Sessions
    BY <2>1, <2>2, BeforeKeeps DEF Keeps
  <2>6. /\ b.mode = c.mode /\ b.watch = c.watch
        /\ ~b.skip_once /\ b.skip_boundary = 0 /\ b.breakpoint_boundary = 0
    BY <2>1, <2>2, <2>3, <2>4, PassObeys
  <2>7. c.mode # "paused" /\ asked # "nothing"
    <3>1. c.mode # "paused"
      BY <2>4 DEF Proceeds
    <3> QED
      BY <2>2, <2>3, <3>1 DEF Obeys, Due
  <2> HIDE DEF b, s
  <2>8. s \in Sessions
    <3>1. actor.field \in 0 .. NoField
      BY <2>1 DEF NoField
    <3> QED
      BY <2>4, <2>5, <3>1 DEF Sessions
  <2>9. /\ s.mode = c.mode /\ s.watch = session.watch /\ s.pending = actor.field
        /\ ~s.skip_once /\ s.skip_boundary = 0 /\ s.breakpoint_boundary = 0
        /\ s.version = session.version /\ s.detaching = session.detaching
        /\ s.resume = NoTurn /\ s.entered = session.entered /\ s.stop_reason = b.stop_reason
    <3>1. /\ s.mode = b.mode /\ s.watch = b.watch /\ s.pending = actor.field
          /\ s.skip_once = b.skip_once /\ s.skip_boundary = b.skip_boundary
          /\ s.breakpoint_boundary = b.breakpoint_boundary
          /\ s.version = b.version /\ s.detaching = b.detaching
          /\ s.resume = b.resume /\ s.entered = b.entered /\ s.stop_reason = b.stop_reason
      BY <2>4, <2>5 DEF Sessions
    <3>2. /\ b.version = session.version /\ b.detaching = session.detaching
          /\ b.resume = NoTurn /\ b.entered = session.entered
      BY <2>1, <2>2, <2>5 DEF Keeps
    <3> QED
      BY <2>3, <2>6, <3>1, <3>2
  <2>10. s.pending # NoField /\ s # NoSession /\ session.entered
    BY <1>5, <2>1, <2>8, <2>9, ScriptAssumption DEF NoField, Debugged
  <2>11. Reasoned(s)
    BY <2>5, <2>6, <2>9 DEF Reasoned
  <2>12. /\ asked = "step" => s.mode = "step"
         /\ asked = "turn" => s.mode = "until yield"
    BY <2>3, <2>7, <2>9 DEF Obeys
  <2>13. CASE ends
    <3> DEFINE d == Complete(s, does)
               l == Left(s, does)
    \* The session as it would be judged in the middle of the turn.
    <3>1. Obeys(s, actor.field, "anything", 0)
      BY <2>9, <2>10 DEF Obeys, Due
    <3>2. /\ Obeys(d, actor.field, "anything", 0) /\ Unhalted(d)
          /\ s.mode = "until yield" => d.mode = "paused"
          /\ s.mode = "step" => d.mode = "paused"
      BY <2>1, <2>8, <2>10, <2>11, <2>13, <3>1, CompleteObeys
    <3>3. Keeps(s, d) /\ d.pending = NoField
      BY <2>1, <2>8, <2>11, CompleteKeeps
    <3>4. l = [d EXCEPT !.entered = FALSE]
      BY <2>9, <2>10 DEF Left
    <3>5. Return(l)
      BY <1>1, <2>13
    <3> HIDE DEF d, l
    <3>6. /\ d \in Sessions /\ d.version = session.version /\ d.resume = NoTurn
          /\ d.detaching = session.detaching
      BY <2>9, <3>3 DEF Keeps
    <3>7. /\ l.mode = d.mode /\ l.pending = d.pending /\ l.skip_once = d.skip_once
          /\ l.skip_boundary = d.skip_boundary /\ l.breakpoint_boundary = d.breakpoint_boundary
          /\ l.watch = d.watch /\ l.detaching = d.detaching /\ l.version = d.version
          /\ l.resume = d.resume
      BY <3>4, <3>6 DEF Sessions
    <3>8. asked' = IF asked \in {"step", "turn"} THEN "nothing" ELSE asked
      BY <1>1, <1>5, <2>13
    <3>9. asked' = "anything" \/ (asked' = "nothing" /\ d.mode = "paused")
      BY <2>7, <2>12, <3>2, <3>8 DEF AskInv
    <3>10. Obeys(l, actor'.field, asked', stopped')
      BY <1>1, <3>2, <3>3, <3>7, <3>9 DEF Obeys, Due
    <3>11. Unhalted(l)
      BY <3>2, <3>7 DEF Unhalted
    <3> QED
      BY <1>1, <1>2, <1>3, <1>5, <2>1, <3>5, <3>6, <3>7, <3>10, <3>11, ReturnAsked
  <2>14. CASE ~ends
    <3>1. session' = s /\ phase' = phase /\ stopped' = 0
      BY <1>1, <2>14
    <3>2. asked' = "nothing" => s.mode = "step" \/ (s.watch /\ does = "write")
      BY <1>1, <2>7, <2>9, <2>12, <2>14
    <3>3. does = "write" => actor'.field # actor.field
      BY <1>3, <2>1, <2>14
    <3>4. /\ asked' = "step" => s.mode = "step"
          /\ asked' = "turn" => s.mode = "until yield"
      BY <1>1, <2>12
    <3>5. Obeys(s, actor'.field, asked', stopped')
      BY <2>9, <2>10, <3>1, <3>2, <3>3, <3>4 DEF Obeys, Due
    <3>6. phase' \in {"detach", "attach"} => FALSE
      BY <1>1, <2>1, <3>1, TurnUnderWay
    <3> QED
      BY <1>1, <1>2, <2>9, <2>10, <3>1, <3>5, <3>6 DEF AskInv
  <2> QED
    BY <2>13, <2>14
<1> QED
  BY <1>4, <1>5

\* A step between two turns that leaves the session as it is, or without what matters.
LEMMA OutsideAsked ==
  ASSUME AiInv, AskInv, phase \in {"commands", "world"}, phase' \in {"commands", "world"},
         asked' \in {"nothing", "anything", "step", "turn"},
         Valid(session)' =>
           /\ session'.resume # NoTurn => Valid(session) /\ session'.resume = session.resume
           /\ ~session'.detaching =>
                /\ Obeys(session', actor'.field, asked', stopped')
                /\ session'.resume = NoTurn => Unhalted(session')
  PROVE  AskInv'
<1>1. phase' \notin Turns /\ phase' \notin {"detach", "attach"}
  BY DEF Turns
<1> QED
  BY <1>1 DEF AskInv

\* A session without an instruction to record is judged by its mode alone.
LEMMA IdleAsked ==
  ASSUME NEW s, s.pending = NoField, NEW t, t.pending = NoField,
         t.mode = s.mode, t.skip_once = s.skip_once, t.skip_boundary = s.skip_boundary,
         t.breakpoint_boundary = s.breakpoint_boundary,
         NEW field, NEW other, NEW wish, NEW stop, Obeys(s, field, wish, stop)
  PROVE  /\ Obeys(t, other, wish, stop)
         /\ Unhalted(s) => Unhalted(t)
BY DEF Obeys, Due, Unhalted

LEMMA CommandAsked == ASSUME AiInv, AskInv, Command PROVE AskInv'
<1>1. /\ Valid(session) /\ phase = "commands" /\ phase' = phase
      /\ UNCHANGED <<actor, stopped>>
  BY DEF Command, Commanded
<1>2. session \in Sessions /\ Reasoned(session) /\ session.pending = NoField
  BY <1>1, Outside DEF Valid
<1>3. asked \in {"nothing", "anything", "step", "turn"}
  BY DEF AskInv
<1>4. ~session.detaching => /\ Obeys(session, actor.field, asked, stopped)
                            /\ session.resume = NoTurn => Unhalted(session)
  BY <1>1 DEF AskInv, Turns
<1>5. CASE session' = Stop(session, "user") /\ asked' = "nothing"
  <2>1. Keeps(session, session')
    BY <1>2, <1>5, StopKeeps
  <2>2. Obeys(session', actor'.field, asked', stopped') /\ Unhalted(session')
    BY <1>2, <1>5, StopObeys
  <2> QED
    BY <1>1, <1>5, <2>1, <2>2, OutsideAsked DEF Keeps
<1>6. CASE session' = Resume(session) /\ asked' = "anything"
  <2>1. Keeps(session, session') /\ session'.pending = NoField
    BY <1>2, <1>6, ResumeKeeps
  <2>2. /\ session'.mode = "running" /\ ~session'.skip_once
        /\ session'.skip_boundary = session.breakpoint_boundary
        /\ session'.breakpoint_boundary = 0
    BY <1>2, <1>6 DEF Resume, Sessions
  <2>3. ~session.detaching =>
          /\ Obeys(session', actor'.field, asked', stopped')
          /\ session.resume = NoTurn => Unhalted(session')
    BY <1>1, <1>4, <1>6, <2>1, <2>2 DEF Obeys, Due, Unhalted
  <2> QED
    BY <1>1, <1>6, <2>1, <2>3, OutsideAsked DEF Keeps
<1>7. CASE \/ session' = GoesOn(Step(session)) /\ asked' = "step"
           \/ session' = GoesOn(RunUntilYield(session)) /\ asked' = "turn"
  <2> DEFINE s == IF asked' = "step" THEN Step(session) ELSE RunUntilYield(session)
  <2>1. Keeps(session, s) /\ s.pending = NoField /\ s \in Sessions
    BY <1>2, StepKeeps, RunUntilYieldKeeps DEF Keeps
  <2>2. asked' \in {"step", "turn"} /\ session' = [s EXCEPT !.wake = TRUE]
    BY <1>7 DEF GoesOn
  <2>3. /\ s.breakpoint_boundary = 0
        /\ asked' = "step" => s.mode = "step" /\ s.skip_boundary = 0
        /\ asked' = "turn" => /\ s.mode = "until yield" /\ ~s.skip_once
                              /\ s.skip_boundary = session.breakpoint_boundary
    <3>1. CASE asked' = "step"
      BY <1>2, <3>1 DEF Step, Sessions
    <3>2. CASE asked' = "turn"
      <4> DEFINE r == Resume(session)
      <4>1. /\ ~r.skip_once /\ r.breakpoint_boundary = 0
            /\ r.skip_boundary = session.breakpoint_boundary
        BY <1>2 DEF Resume, Sessions
      <4>2. r \in Sessions
        BY <1>2, ResumeKeeps DEF Keeps
      <4>3. s = [r EXCEPT !.mode = "until yield", !.remaining = MaxCount]
        BY <3>2 DEF RunUntilYield
      <4> HIDE DEF r, s
      <4> QED
        BY <3>2, <4>1, <4>2, <4>3 DEF Sessions
    <3> QED
      BY <2>2, <3>1, <3>2
  <2> HIDE DEF s
  <2>4. /\ session'.mode = s.mode /\ session'.pending = NoField
        /\ session'.skip_once = s.skip_once /\ session'.skip_boundary = s.skip_boundary
        /\ session'.breakpoint_boundary = 0 /\ session'.resume = session.resume
        /\ session'.detaching = session.detaching
    <3>1. /\ session'.mode = s.mode /\ session'.pending = s.pending
          /\ session'.skip_once = s.skip_once /\ session'.skip_boundary = s.skip_boundary
          /\ session'.breakpoint_boundary = s.breakpoint_boundary /\ session'.resume = s.resume
          /\ session'.detaching = s.detaching
      BY <2>1, <2>2 DEF Sessions
    <3> QED
      BY <2>1, <2>3, <3>1 DEF Keeps
  <2>5. ~session.detaching =>
          /\ Obeys(session', actor'.field, asked', stopped')
          /\ session.resume = NoTurn => Unhalted(session')
    BY <1>1, <1>4, <2>2, <2>3, <2>4 DEF Obeys, Due, Unhalted
  <2> QED
    BY <1>1, <2>2, <2>4, <2>5, OutsideAsked
<1>8. CASE asked' = asked /\ \/ session' = [session EXCEPT !.seen = NoField]
                             \/ \E b \in SUBSET Breakable, w \in BOOLEAN :
                                  session' = [session EXCEPT !.breakpoints = b, !.watch = w]
  <2>1. /\ session'.mode = session.mode /\ session'.pending = NoField
        /\ session'.skip_once = session.skip_once
        /\ session'.skip_boundary = session.skip_boundary
        /\ session'.breakpoint_boundary = session.breakpoint_boundary
        /\ session'.resume = session.resume /\ session'.detaching = session.detaching
    BY <1>2, <1>8 DEF Sessions
  <2>2. ~session.detaching =>
          /\ Obeys(session', actor'.field, asked', stopped')
          /\ session.resume = NoTurn => Unhalted(session')
    BY <1>1, <1>2, <1>4, <1>8, <2>1, IdleAsked
  <2> QED
    BY <1>1, <1>3, <1>8, <2>1, <2>2, OutsideAsked
<1> QED
  BY <1>5, <1>6, <1>7, <1>8 DEF Command

LEMMA DetachAsked ==
  ASSUME AiInv, AskInv, NEW who \in {"attach", "detach"}, Detach(who)
  PROVE  AskInv'
<1>1. phase = "commands" /\ asked' = "nothing"
  BY DEF Detach, Commanded
<1>2. CASE Valid(session) /\ Fits(session.resume)
  <2> DEFINE d == [session EXCEPT !.detaching = TRUE]
             s == Resume(d)
  <2>1. session \in Sessions /\ session.pending = NoField
    BY <1>1, <1>2, Outside DEF Valid
  <2>2. /\ d \in Sessions /\ d.pending = NoField /\ d.resume = session.resume
        /\ d.detaching /\ d.version = session.version
    <3>1. d \in Sessions
      BY <2>1 DEF Sessions
    <3> QED
      BY <2>1, <3>1 DEF Sessions
  <2>3. Enter(s, who) /\ actor' = actor
    BY <1>2 DEF Detach
  <2> HIDE DEF d
  <2>4. Keeps(d, s) /\ s.pending = NoField
    BY <2>2, ResumeKeeps
  <2> HIDE DEF s
  <2>5. /\ s \in Sessions /\ s.version = session.version /\ s.resume = session.resume
        /\ s.detaching /\ session # NoSession
    BY <1>2, <2>2, <2>4 DEF Keeps, Valid
  <2>6. who \in Turns
    BY DEF Turns
  <2> QED
    BY <1>1, <2>3, <2>4, <2>5, <2>6, EnterAsked
<1>3. CASE ~(Valid(session) /\ Fits(session.resume))
  <2>1. /\ session' = IF who = "attach" THEN NewSession ELSE NoSession
        /\ phase' = phase
    BY <1>3 DEF Detach
  <2>2. CASE session' = NoSession
    BY <1>1, <2>1, <2>2, OutsideAsked DEF Valid
  <2>3. CASE session' = NewSession
    <3>1. session'.resume = NoTurn
      BY <2>3, NewSessionOK
    <3> QED
      BY <1>1, <2>1, <2>3, <3>1, NewSessionObeys, OutsideAsked
  <2> QED
    BY <2>1, <2>2, <2>3
<1> QED
  BY <1>2, <1>3

\* A session whose instance or AI was replaced is never valid again.
LEMMA ReplacedAsked ==
  ASSUME AiInv, AskInv, Invalidate \/ HotReplace \/ InstanceChanges
  PROVE  AskInv'
<1>1. /\ phase \in {"commands", "world"} /\ phase' = phase /\ asked' = "nothing"
  BY DEF Invalidate, HotReplace, InstanceChanges, Commanded
<1>2. CASE session' = NoSession
  BY <1>1, <1>2, OutsideAsked DEF Valid
<1>3. CASE session' = session /\ session # NoSession /\ actor'.version = actor.version + 1
  <2>1. session.version <= actor.version /\ session.version \in Nat /\ actor.version \in Nat
    BY <1>3, AiTypes DEF AiInv, TurnInv
  <2>2. ~Valid(session)'
    BY <1>3, <2>1 DEF Valid
  <2> QED
    BY <1>1, <2>2, OutsideAsked
<1>4. (HotReplace \/ InstanceChanges) => actor'.version = actor.version + 1
  <2>1. actor \in [version : 0 .. MaxVersions, control : 0 .. MaxChanges,
                   cursor : Positions, latch : BOOLEAN, field : {0, 1}]
    BY AiTypes
  <2> QED
    BY <2>1 DEF HotReplace, InstanceChanges
<1>5. session' = NoSession \/ (session' = session /\ (HotReplace \/ InstanceChanges))
  BY DEF Invalidate, HotReplace, InstanceChanges
<1> QED
  BY <1>2, <1>3, <1>4, <1>5

\* A call of the interpreter by the session as it is.
LEMMA CallAsked ==
  ASSUME AiInv, AskInv, phase \in {"commands", "world"}, NEW who \in Turns \ {"detach", "attach"},
         Enter(session, who), asked' = asked,
         actor'.version = actor.version, actor'.field = actor.field
  PROVE  AskInv'
<1>1. Valid(session) => session \in Sessions /\ session.pending = NoField
  BY Outside DEF Valid
<1>2. Valid(session) /\ ~session.detaching =>
        /\ Obeys(session, actor.field, asked, stopped)
        /\ session.resume = NoTurn => Unhalted(session)
  BY DEF AskInv, Turns
<1>3. who \in Turns /\ who \notin {"detach", "attach"}
  OBVIOUS
<1>4. session # NoSession => session # NoSession /\ session.version = session.version
  OBVIOUS
<1>5. /\ Valid(session) => /\ session \in Sessions /\ session.pending = NoField
                           /\ session.resume = session.resume
      /\ who \in {"detach", "attach"} => session.detaching /\ asked' = "nothing"
      /\ asked' = asked \/ (who \in {"detach", "attach"} /\ asked' = "nothing")
  BY <1>1, <1>3
<1> QED
  BY <1>2, <1>3, <1>4, <1>5, EnterAsked

LEMMA BeforeFrameAsked == ASSUME AiInv, AskInv, BeforeFrame PROVE AskInv'
<1> DEFINE s == [session EXCEPT !.pumped = FALSE]
           moved == session.resume # NoTurn /\ ~Fits(session.resume)
<1>1. phase = "commands"
  BY DEF BeforeFrame
<1>2. asked \in {"nothing", "anything", "step", "turn"}
  BY DEF AskInv
<1>3. CASE ~Valid(session)
  <2>1. session' = NoSession /\ phase' = "world" /\ asked' = "nothing"
    BY <1>3 DEF BeforeFrame
  <2> QED
    BY <1>1, <2>1, OutsideAsked DEF Valid
<1>4. ASSUME Valid(session)
      PROVE  /\ session # NoSession /\ session \in Sessions /\ session.pending = NoField
             /\ ~session.detaching => /\ Obeys(session, actor.field, asked, stopped)
                                      /\ session.resume = NoTurn => Unhalted(session)
             /\ s \in Sessions /\ s.pending = NoField /\ s.mode = session.mode
             /\ s.skip_once = session.skip_once /\ s.skip_boundary = session.skip_boundary
             /\ s.breakpoint_boundary = session.breakpoint_boundary
             /\ s.version = session.version /\ s.resume = session.resume
             /\ s.detaching = session.detaching
  <2>1. session # NoSession /\ session \in Sessions /\ session.pending = NoField
    BY <1>1, <1>4, Outside DEF Valid
  <2>2. s \in Sessions
    BY <2>1 DEF Sessions
  <2>3. ~session.detaching => /\ Obeys(session, actor.field, asked, stopped)
                              /\ session.resume = NoTurn => Unhalted(session)
    BY <1>1, <1>4 DEF AskInv, Turns
  <2> QED
    BY <2>1, <2>2, <2>3 DEF Sessions
<1>5. CASE Valid(session) /\ moved
  <2> DEFINE d == [s EXCEPT !.resume = NoTurn, !.wake = FALSE]
  <2>1. session' = Stop(d, "invalidated") /\ phase' = "world" /\ asked' = "nothing"
    BY <1>5 DEF BeforeFrame
  <2>2. s \in Sessions /\ s.pending = NoField
    BY <1>4, <1>5
  <2> HIDE DEF s
  <2>3. d \in Sessions /\ d.pending = NoField /\ d.resume = NoTurn
    <3>1. d \in Sessions
      BY <2>2, FreshTurn DEF Sessions
    <3> QED
      BY <2>2, <3>1 DEF Sessions
  <2> HIDE DEF d
  <2>4. Obeys(session', actor'.field, asked', stopped') /\ Unhalted(session')
    BY <2>1, <2>3, StopObeys
  <2>5. session'.resume = NoTurn
    BY <2>1, <2>3, StopKeeps DEF Keeps
  <2> QED
    BY <1>1, <2>1, <2>4, <2>5, OutsideAsked
<1>6. CASE Valid(session) /\ ~moved /\ s.mode # "paused" /\ s.resume # NoTurn
  <2> DEFINE p == [s EXCEPT !.pumped = TRUE]
  <2>1. Enter(p, "pump") /\ asked' = asked /\ actor' = actor
    BY <1>6 DEF BeforeFrame
  <2>2. /\ s \in Sessions /\ s.pending = NoField /\ s.mode = session.mode
        /\ s.skip_once = session.skip_once /\ s.skip_boundary = session.skip_boundary
        /\ s.breakpoint_boundary = session.breakpoint_boundary
        /\ s.version = session.version /\ s.resume = session.resume
        /\ s.detaching = session.detaching
        /\ session # NoSession /\ session.pending = NoField
        /\ ~session.detaching => /\ Obeys(session, actor.field, asked, stopped)
                                 /\ session.resume = NoTurn => Unhalted(session)
    BY <1>4, <1>6
  <2> HIDE DEF s
  <2>3. p \in Sessions
    BY <2>2 DEF Sessions
  <2>4. /\ p.pending = s.pending /\ p.mode = s.mode /\ p.skip_once = s.skip_once
        /\ p.skip_boundary = s.skip_boundary /\ p.breakpoint_boundary = s.breakpoint_boundary
        /\ p.version = s.version /\ p.resume = s.resume /\ p.detaching = s.detaching
    BY <2>2, <2>3 DEF Sessions
  <2> HIDE DEF p
  <2>5. ~p.detaching => /\ Obeys(p, actor.field, asked, stopped)
                        /\ p.resume = NoTurn => Unhalted(p)
    BY <2>2, <2>4, IdleAsked
  <2>6. "pump" \in Turns /\ "pump" \notin {"detach", "attach"}
    BY DEF Turns
  <2>7. /\ p # NoSession => session # NoSession /\ p.version = session.version
        /\ Valid(p) => p \in Sessions /\ p.pending = NoField /\ p.resume = session.resume
        /\ actor'.version = actor.version /\ actor'.field = actor.field
        /\ phase \in {"commands", "world"}
    BY <1>1, <2>1, <2>2, <2>3, <2>4
  <2>8. /\ Valid(p) /\ ~p.detaching =>
             /\ Obeys(p, actor.field, asked, stopped)
             /\ p.resume = NoTurn => Unhalted(p)
        /\ "pump" \in {"detach", "attach"} => p.detaching /\ asked' = "nothing"
        /\ asked' = asked \/ ("pump" \in {"detach", "attach"} /\ asked' = "nothing")
    BY <2>1, <2>5, <2>6
  <2> QED
    BY <2>1, <2>6, <2>7, <2>8, EnterAsked
<1>7. CASE Valid(session) /\ ~moved /\ ~(s.mode # "paused" /\ s.resume # NoTurn)
  <2>1. /\ session' = s /\ phase' = "world" /\ asked' = asked /\ stopped' = stopped
        /\ actor' = IF s.mode # "paused" THEN Rearmed(s) ELSE actor
    BY <1>7 DEF BeforeFrame
  <2>2. /\ s.pending = NoField /\ s.mode = session.mode
        /\ s.skip_once = session.skip_once /\ s.skip_boundary = session.skip_boundary
        /\ s.breakpoint_boundary = session.breakpoint_boundary
        /\ s.resume = session.resume /\ s.detaching = session.detaching
        /\ session.pending = NoField
        /\ ~session.detaching => /\ Obeys(session, actor.field, asked, stopped)
                                 /\ session.resume = NoTurn => Unhalted(session)
    BY <1>4, <1>7
  <2> HIDE DEF s
  <2>3. ~session'.detaching => /\ Obeys(session', actor'.field, asked', stopped')
                               /\ session'.resume = NoTurn => Unhalted(session')
    BY <2>1, <2>2, IdleAsked
  <2> QED
    BY <1>1, <1>2, <1>7, <2>1, <2>2, <2>3, OutsideAsked
<1> QED
  BY <1>3, <1>5, <1>6, <1>7

\* The world goes on without a turn.
LEMMA WorldAsked == ASSUME AiInv, AskInv, World \/ EndFrame PROVE AskInv'
<1>1. /\ phase = "world" /\ phase' \in {"commands", "world"}
      /\ UNCHANGED <<session, asked, stopped>>
  BY DEF World, EndFrame, history
<1>2. actor'.version = actor.version
  <2>1. actor \in [version : 0 .. MaxVersions, control : 0 .. MaxChanges,
                   cursor : Positions, latch : BOOLEAN, field : {0, 1}]
    BY AiTypes
  <2>2. CASE World
    BY <2>1, <2>2 DEF World
  <2>3. CASE EndFrame
    BY <2>3 DEF EndFrame
  <2> QED
    BY <2>2, <2>3
<1>3. Valid(session)' => Valid(session)
  BY <1>1, <1>2 DEF Valid
<1>4. asked' \in {"nothing", "anything", "step", "turn"}
  BY <1>1 DEF AskInv
<1>5. Valid(session) => session.pending = NoField
  BY <1>1, Outside DEF Valid
<1>6. Valid(session) /\ ~session.detaching =>
        /\ Obeys(session, actor.field, asked, stopped)
        /\ session.resume = NoTurn => Unhalted(session)
  BY <1>1 DEF AskInv, Turns
<1>7. Valid(session)' /\ ~session'.detaching =>
        /\ Obeys(session', actor'.field, asked', stopped')
        /\ session'.resume = NoTurn => Unhalted(session')
  BY <1>1, <1>3, <1>5, <1>6, IdleAsked
<1> QED
  BY <1>1, <1>3, <1>4, <1>7, OutsideAsked

LEMMA TickAsked == ASSUME AiInv, AskInv, Tick PROVE AskInv'
<1>1. /\ phase = "world" /\ asked' = asked /\ actor' = [actor EXCEPT !.latch = FALSE]
  BY DEF Tick
<1>2. actor'.version = actor.version /\ actor'.field = actor.field
  BY <1>1, AiTypes
<1>3. asked' \in {"nothing", "anything", "step", "turn"}
  BY <1>1 DEF AskInv
<1>4. CASE Valid(session) /\ Suspends(session)
  <2>1. session' = [session EXCEPT !.wake = TRUE] /\ phase' = phase /\ stopped' = stopped
    BY <1>4 DEF Tick
  <2>2. session \in Sessions /\ session.pending = NoField
    BY <1>1, <1>4, Outside DEF Valid
  <2>3. /\ session'.mode = session.mode /\ session'.pending = NoField
        /\ session'.skip_once = session.skip_once
        /\ session'.skip_boundary = session.skip_boundary
        /\ session'.breakpoint_boundary = session.breakpoint_boundary
        /\ session'.resume = session.resume /\ session'.detaching = session.detaching
    BY <2>1, <2>2 DEF Sessions
  <2>4. ~session.detaching => /\ Obeys(session, actor.field, asked, stopped)
                              /\ session.resume = NoTurn => Unhalted(session)
    BY <1>1, <1>4 DEF AskInv, Turns
  <2>5. ASSUME Obeys(session, actor.field, asked, stopped)
        PROVE  /\ Obeys(session', actor'.field, asked, stopped)
               /\ Unhalted(session) => Unhalted(session')
    BY <2>2, <2>3, <2>5, IdleAsked
  <2>6. ~session'.detaching => /\ Obeys(session', actor'.field, asked', stopped')
                               /\ session'.resume = NoTurn => Unhalted(session')
    BY <1>1, <2>1, <2>3, <2>4, <2>5
  <2> QED
    BY <1>1, <1>3, <1>4, <2>1, <2>3, <2>6, OutsideAsked
<1>5. CASE ~Valid(session) /\ controlled
  <2>1. session' = session /\ phase' = phase
    BY <1>5 DEF Tick
  <2>2. ~Valid(session)'
    BY <1>2, <1>5, <2>1 DEF Valid
  <2> QED
    BY <1>1, <1>3, <2>1, <2>2, OutsideAsked
<1>6. CASE ~(Valid(session) /\ Suspends(session)) /\ ~(~Valid(session) /\ controlled)
  <2>1. Enter(session, "tick") /\ "tick" \in Turns \ {"detach", "attach"}
    BY <1>6 DEF Tick, Turns
  <2> QED
    BY <1>1, <1>2, <2>1, CallAsked
<1> QED
  BY <1>4, <1>5, <1>6

LEMMA AskStep == ASSUME AiInv, AskInv, [Next]_vars PROVE AskInv'
<1>1. CASE ForceTurn
  <2>1. /\ phase = "commands" /\ Enter(session, "force") /\ asked' = asked /\ actor' = actor
        /\ "force" \in Turns \ {"detach", "attach"}
    BY <1>1 DEF ForceTurn, Commanded, Turns
  <2> QED
    BY <2>1, CallAsked
<1>2. CASE UNCHANGED vars
  <2>1. /\ UNCHANGED <<session, phase, asked, stopped, registers, actor>>
    BY <1>2 DEF vars, history
  <2>2. (Valid(session)' <=> Valid(session)) /\ (AtExit' <=> AtExit)
    BY <2>1 DEF Valid, AtExit
  <2> QED
    BY <2>1, <2>2 DEF AskInv
<1>3. CASE Next /\ ~ForceTurn
  BY <1>3, ParkAsked, RunAsked, ExitAsked, DetachAsked, CommandAsked, ReplacedAsked,
     BeforeFrameAsked, TickAsked, WorldAsked DEF Next, Interpret, Commands, Frame
<1> QED
  BY <1>1, <1>2, <1>3

\* What is asked for is what the session will do, in a turn and between two: for any
\* script, breakpoints and order of commands.
THEOREM DebuggerAsked == Spec => [](AiInv /\ AskInv)
<1>1. Init => AiInv /\ AskInv
  <2>1. Init => AskInv
    BY DEF Init, AskInv, Valid
  <2> QED
    BY <2>1, AiInit
<1>2. AiInv /\ AskInv /\ [Next]_vars => (AiInv /\ AskInv)'
  BY AiStep, AskStep
<1> QED
  BY <1>1, <1>2, PTL DEF Spec

\* before_instruction, after_instruction and resume: the debugged AI does no more than was
\* asked, and passes a breakpoint only by a single step or at the dispatch where it stopped.
THEOREM DebuggerRunsAsAsked == Spec => RunsAsAsked
<1> DEFINE Asked ==
      Run /\ Debugged =>
        /\ asked # "nothing"
        /\ Hit(Complete(session, "continue"), registers.pc) =>
             session.mode = "step" \/ stopped = registers.pc
<1>1. AiInv /\ AskInv => Asked
  <2> SUFFICES ASSUME AiInv, AskInv, Run, Debugged PROVE Asked
    OBVIOUS
  <2> DEFINE c == Complete(session, "continue")
  <2>1. phase \in Turns /\ Proceeds(c, registers.pc)
    BY DEF Run
  <2>2. /\ session \in Sessions /\ Reasoned(session) /\ actor.field \in {0, 1}
        /\ registers.pc \in Positions /\ Obeys(session, actor.field, asked, stopped)
    BY <2>1, DebuggedAsked
  <2>3. Obeys(c, actor.field, asked, stopped) /\ c.mode \in {session.mode, "paused"}
    BY <2>2, CompleteObeys
  <2>4. c.pending = NoField
    BY <2>2, CompleteKeeps
  <2>5. registers.pc # 0
    BY <2>2, ScriptAssumption
  <2> HIDE DEF c
  <2>6. asked # "nothing"
    BY <2>1, <2>3, <2>4 DEF Proceeds, Obeys, Due
  <2>7. Hit(c, registers.pc) => session.mode = "step" \/ stopped = registers.pc
    BY <2>1, <2>3, <2>5 DEF Proceeds, Obeys
  <2> QED
    BY <2>6, <2>7 DEF c
<1>2. AiInv /\ AskInv => [Asked]_vars
  BY <1>1
<1>3. [][Asked]_vars => RunsAsAsked
  BY DEF RunsAsAsked
<1> HIDE DEF Asked
<1> QED
  BY <1>2, <1>3, DebuggerAsked, PTL

(***************************************************************************)
(* The recording (AiTrace)                                                 *)
(***************************************************************************)

\* The least-number principle, for a set of numbers.
LEMMA LeastNumber == \A S \in SUBSET Nat : S # {} => \E m \in S : \A k \in S : m <= k
<1> SUFFICES ASSUME NEW S \in SUBSET Nat, S # {}
             PROVE  \E m \in S : \A k \in S : m <= k
  OBVIOUS
<1>1. IsWellFoundedOn({ss \in Nat \X Nat : ss[1] < ss[2]}, Nat)
  BY NatLessThanWellFounded DEF OpToRel
<1>2. PICK m \in S : \A k \in S : <<k, m>> \notin {ss \in Nat \X Nat : ss[1] < ss[2]}
  BY <1>1, WFMin
<1>3. \A k \in S : ~(k < m)
  <2> TAKE k \in S
  <2>1. <<k, m>> \in Nat \X Nat /\ <<k, m>>[1] = k /\ <<k, m>>[2] = m
    OBVIOUS
  <2> QED
    BY <1>2, <2>1
<1> QED
  BY <1>3

Snapshots == [frame : Nat, pc : Pcs, fields : [Fields -> {0, 1}]]
Entries == {Trace!Entry(p, b, a, n) : p, b, a \in Snapshots, n \in Nat}
Buffers == [initial : Snapshots \cup {Trace!Closed}, latest : Snapshots \cup {Trace!Closed},
            entries : Seq(Entries), dropped : Nat]

\* Entry i of a buffer leads from one captured state to the next.
Leads(entries, dropped, states) ==
    \A i \in 1 .. Len(entries) :
        /\ entries[i].sequence = dropped + i - 1
        /\ Trace!Applies(entries[i], states[dropped + i])
        /\ Trace!Apply(entries[i], states[dropped + i]) = states[dropped + i + 1]

\* The buffer has the end of what was captured.
Recorded ==
    /\ buffer.entries # <<>>
    /\ Len(captured) = buffer.dropped + Len(buffer.entries) + 1
    /\ buffer.initial = captured[buffer.dropped + 1]
    /\ buffer.latest = captured[Len(captured)]
    /\ buffer.latest.frame <= now.frame
    /\ Leads(buffer.entries, buffer.dropped, captured)

Checked == {q \in 0 .. Len(buffer.entries) : q % Interval = 0}
CapturedAt(position) == captured[buffer.dropped + position + 1]

\* A replay has the buffer's entries, and captured states as its checkpoints and at its position.
Replayed ==
    /\ captured # <<>>
    /\ replay \in [entries : {buffer.entries}, checkpoints : {[p \in Checked |-> CapturedAt(p)]},
                   position : 0 .. Len(buffer.entries), snapshot : Snapshots]
    /\ replay.snapshot = CapturedAt(replay.position)

TraceInv ==
    /\ now \in Snapshots /\ captured \in Seq(Snapshots) /\ buffer \in Buffers
    /\ Len(buffer.entries) <= Capacity
    /\ ~refused
    /\ captured = <<>> => buffer = Trace!Empty
    /\ captured # <<>> => Recorded
    /\ replay # Trace!Closed => Replayed

\* A snapshot is told from none.
LEMMA SnapshotIsOne == \A s \in Snapshots : s # Trace!Closed
<1>1. \A s \in Snapshots : "frame" \in DOMAIN s
  BY DEF Snapshots
<1>2. DOMAIN Trace!Closed = {}
  BY DEF Trace!Closed
<1> QED
  BY <1>1, <1>2

\* What two snapshots differ in agrees with the first and, written to it, gives the second.
LEMMA ChangesLead ==
    ASSUME NEW s \in Snapshots, NEW t \in Snapshots
    PROVE  /\ Trace!Agree(Trace!Changes(s, t), s.fields)
           /\ Trace!Write(Trace!Changes(s, t), s.fields) = t.fields
<1>1. s.fields \in [Fields -> {0, 1}] /\ t.fields \in [Fields -> {0, 1}]
  BY DEF Snapshots
<1> DEFINE F == {g \in Fields : s.fields[g] # t.fields[g]}
<1>2. Trace!Changes(s, t) = [f \in F |-> [before |-> s.fields[f], after |-> t.fields[f]]]
  BY DEF Trace!Changes
<1>3. Trace!Agree(Trace!Changes(s, t), s.fields)
  BY <1>2 DEF Trace!Agree
<1>4. \A f \in Fields :
        (IF f \in F THEN Trace!Changes(s, t)[f].after ELSE s.fields[f]) = t.fields[f]
  BY <1>2
<1>5. DOMAIN Trace!Changes(s, t) = F
  BY <1>2
<1>6. Trace!Write(Trace!Changes(s, t), s.fields) = [f \in Fields |-> t.fields[f]]
  BY <1>4, <1>5 DEF Trace!Write
<1> QED
  BY <1>1, <1>3, <1>6

\* An entry applies to the state it was made after, and leads to the one it was made of.
LEMMA EntryLeads ==
    ASSUME NEW p \in Snapshots, NEW b \in Snapshots, NEW a \in Snapshots, NEW n \in Nat,
           p.frame <= b.frame, a.frame = b.frame
    PROVE  LET e == Trace!Entry(p, b, a, n) IN
           e \in Entries /\ e.sequence = n /\ Trace!Applies(e, p) /\ Trace!Apply(e, p) = a
<1> DEFINE e == Trace!Entry(p, b, a, n)
<1>1. e \in Entries /\ e.sequence = n
  BY DEF Entries, Trace!Entry
<1>2. /\ e.input = Trace!Between(p, b) /\ e.frame = b.frame /\ e.pc_before = b.pc
      /\ e.pc_after = a.pc /\ e.changes = Trace!Changes(b, a)
  BY DEF Trace!Entry
<1>3. /\ e.input.pc_before = p.pc /\ e.input.pc_after = b.pc
      /\ e.input.frame_before = p.frame /\ e.input.frame_after = b.frame
      /\ e.input.fields = Trace!Changes(p, b)
  BY <1>2 DEF Trace!Between
<1>4. Trace!Input(e, p) = b
  BY <1>3, ChangesLead DEF Trace!Input, Snapshots
<1>5. Trace!Applies(e, p)
  BY <1>2, <1>3, <1>4, ChangesLead DEF Trace!Applies, Snapshots
<1>6. Trace!Apply(e, p) = [b EXCEPT !.pc = a.pc, !.fields = a.fields]
  BY <1>2, <1>4, ChangesLead DEF Trace!Apply
<1>7. Trace!Apply(e, p) = a
  BY <1>6 DEF Snapshots
<1> QED
  BY <1>1, <1>5, <1>7

\* The recursion of StateFrom has a solution, which passes through the states that
\* the entries lead to: a least position where it does not would have one before it
\* where it does.
LEMMA StatesFollow ==
    ASSUME NEW entries, NEW states, NEW from \in Nat, NEW position \in Nat, from <= position,
           \A i \in from + 1 .. position : Trace!Apply(entries[i], states[i - 1]) = states[i]
    PROVE  Trace!StateFrom(entries, from, states[from], position) = states[position]
<1> DEFINE Follows(f) ==
             f = [i \in from .. position |->
                    IF i = from THEN states[from] ELSE Trace!Apply(entries[i], f[i - 1])]
           path == [i \in from .. position |-> states[i]]
           state == CHOOSE f : Follows(f)
<1>1. Trace!StateFrom(entries, from, states[from], position) = state[position]
  BY DEF Trace!StateFrom
<1>2. Follows(path)
  <2>1. \A i \in from .. position :
          states[i] = IF i = from THEN states[from] ELSE Trace!Apply(entries[i], path[i - 1])
    BY SMT
  <2> QED
    BY <2>1
<1>3. Follows(state)
  BY <1>2
<1> HIDE DEF state
<1> DEFINE wrong == {i \in from .. position : state[i] # states[i]}
<1>4. wrong = {}
  <2> SUFFICES ASSUME wrong # {} PROVE FALSE
    OBVIOUS
  <2>0. wrong \in SUBSET Nat
    OBVIOUS
  <2>1. PICK m \in wrong : \A k \in wrong : m <= k
    BY <2>0, LeastNumber
  <2>2. state[m] = IF m = from THEN states[from] ELSE Trace!Apply(entries[m], state[m - 1])
    BY <1>3
  <2>3. m # from
    BY <2>1, <2>2
  <2>4. m - 1 \in from .. position /\ m \in from + 1 .. position
    BY <2>3
  <2>5. state[m - 1] = states[m - 1]
    BY <2>1, <2>4
  <2> QED
    BY <2>2, <2>3, <2>4, <2>5, <2>1
<1> QED
  BY <1>1, <1>4

\* So a state that is rebuilt from a captured one is the captured one.
LEMMA RebuiltIsCaptured ==
    ASSUME TraceInv, captured # <<>>, NEW from \in 0 .. Len(buffer.entries),
           NEW position \in 0 .. Len(buffer.entries), from <= position
    PROVE  Trace!StateFrom(buffer.entries, from, CapturedAt(from), position) = CapturedAt(position)
<1> DEFINE states == [i \in 0 .. Len(buffer.entries) |-> CapturedAt(i)]
<1>1. buffer.dropped \in Nat /\ Len(buffer.entries) \in Nat /\ Leads(buffer.entries, buffer.dropped, captured)
  BY DEF TraceInv, Buffers, Recorded
<1>2. \A i \in from + 1 .. position : Trace!Apply(buffer.entries[i], states[i - 1]) = states[i]
  <2> TAKE i \in from + 1 .. position
  <2>1. i \in 1 .. Len(buffer.entries) /\ i - 1 \in 0 .. Len(buffer.entries)
        /\ buffer.dropped + (i - 1) + 1 = buffer.dropped + i
    BY <1>1
  <2> QED
    <3>1. Trace!Apply(buffer.entries[i], captured[buffer.dropped + i])
             = captured[buffer.dropped + i + 1]
      BY <1>1, <2>1 DEF Leads
    <3>2. states[i - 1] = captured[buffer.dropped + i]
      BY <2>1 DEF CapturedAt
    <3>3. states[i] = captured[buffer.dropped + i + 1]
      BY <2>1 DEF CapturedAt
    <3> QED
      BY <3>1, <3>2, <3>3
<1>3. from \in Nat /\ position \in Nat /\ states[from] = CapturedAt(from)
      /\ states[position] = CapturedAt(position)
  BY <1>1
<1> HIDE DEF states
<1>4. Trace!StateFrom(buffer.entries, from, states[from], position) = states[position]
  BY <1>2, <1>3, StatesFollow, ZenonT(30)
<1> QED
  BY <1>3, <1>4

\* A position has a last checkpoint at or before it.
LEMMA CheckpointExists ==
    ASSUME NEW n \in Nat, NEW position \in 0 .. n, NEW checkpoints,
           DOMAIN checkpoints = {q \in 0 .. n : q % Interval = 0}
    PROVE  LET from == Trace!CheckpointBefore(checkpoints, position) IN
           from \in DOMAIN checkpoints /\ from <= position
<1> DEFINE gaps == {g \in 0 .. position : position - g \in DOMAIN checkpoints}
<1>1. 0 % Interval = 0
  BY TraceAssumption
<1>2. position \in gaps
  BY <1>1
<1>3. PICK g \in gaps : \A k \in gaps : g <= k
  <2>1. gaps \in SUBSET Nat
    OBVIOUS
  <2>2. gaps # {}
    BY <1>2
  <2> QED
    BY <2>1, <2>2, LeastNumber
<1>4. \A q \in DOMAIN checkpoints : q <= position => q <= position - g
  <2> SUFFICES ASSUME NEW q \in DOMAIN checkpoints, q <= position PROVE q <= position - g
    OBVIOUS
  <2>1. position - q \in gaps
    <3>1. position - q \in 0 .. position /\ position - (position - q) = q
      OBVIOUS
    <3> QED
      BY <3>1
  <2> QED
    BY <1>3, <2>1
<1>5. position - g \in DOMAIN checkpoints /\ position - g <= position
  BY <1>3
<1> QED
  BY <1>4, <1>5 DEF Trace!CheckpointBefore

(***************************************************************************)
(* The steps of the recording                                              *)
(***************************************************************************)

\* Before the first instruction nothing is recorded.
LEMMA TraceInitInv == Trace!TraceInit => TraceInv
<1> SUFFICES ASSUME Trace!TraceInit PROVE TraceInv
  OBVIOUS
<1>1. Trace!Min(Pcs) \in Pcs
  <2>1. \E m \in Pcs : \A k \in Pcs : m <= k
    <3>1. Pcs \in SUBSET Nat /\ Pcs # {}
      BY TraceAssumption
    <3> QED
      BY <3>1, LeastNumber
  <2> QED
    BY <2>1 DEF Trace!Min
<1>2. now \in Snapshots
  BY <1>1 DEF Trace!TraceInit, Snapshots
<1>3. buffer \in Buffers /\ Len(buffer.entries) = 0
  BY DEF Trace!TraceInit, Trace!Empty, Buffers
<1> QED
  BY <1>2, <1>3, TraceAssumption DEF Trace!TraceInit, TraceInv

\* What the game does to a snapshot leaves it one.
LEMMA MovesAreFields ==
    ASSUME NEW fields \in [Fields -> {0, 1}], NEW moved \in Trace!Moves(fields)
    PROVE  moved \in [Fields -> {0, 1}]
<1>1. CASE moved = fields
  BY <1>1
<1>2. CASE \E f \in Fields : moved = [fields EXCEPT ![f] = 1 - @]
  BY <1>2
<1> QED
  BY <1>1, <1>2 DEF Trace!Moves

\* Between two instructions the game goes on, and frames are never counted back.
LEMMA TraceWorldStep == ASSUME TraceInv, Trace!World PROVE TraceInv'
<1>1. PICK pc \in Pcs, fields \in Trace!Moves(now.fields) :
        now' = [frame |-> now.frame + 1, pc |-> pc, fields |-> fields]
  BY DEF Trace!World
<1>2. now \in Snapshots
  BY DEF TraceInv
<1>3. now' \in Snapshots /\ now'.frame = now.frame + 1
  BY <1>1, <1>2, MovesAreFields DEF Snapshots
<1>4. UNCHANGED <<buffer, replay, captured, refused>> /\ replay = Trace!Closed
  BY DEF Trace!World
<1>5. captured # <<>> => buffer.latest.frame \in Nat
  <2>1. captured # <<>> => captured[Len(captured)] \in Snapshots
    BY DEF TraceInv
  <2> QED
    BY <2>1 DEF TraceInv, Recorded, Snapshots
<1>6. captured # <<>> => Recorded'
  BY <1>2, <1>3, <1>4, <1>5 DEF TraceInv, Recorded, Snapshots
<1> QED
  BY <1>3, <1>4, <1>6 DEF TraceInv

\* The first and the later instructions lead from what was captured last.
LEMMA PreviousCaptured ==
    ASSUME TraceInv
    PROVE  /\ Trace!Previous(buffer, now) \in Snapshots
           /\ Trace!Previous(buffer, now).frame <= now.frame
           /\ Trace!Previous(buffer, now) = IF captured = <<>> THEN now ELSE captured[Len(captured)]
<1>1. now \in Snapshots /\ now.frame \in Nat
  BY DEF TraceInv, Snapshots
<1>2. CASE captured = <<>>
  BY <1>1, <1>2 DEF TraceInv, Trace!Empty, Trace!Previous
<1>3. CASE captured # <<>>
  <2>1. captured[Len(captured)] \in Snapshots
    BY <1>3 DEF TraceInv
  <2>2. buffer.latest = captured[Len(captured)] /\ buffer.latest.frame <= now.frame
    BY <1>3 DEF TraceInv, Recorded
  <2> QED
    BY <1>3, <2>1, <2>2, SnapshotIsOne DEF Trace!Previous
<1> QED
  BY <1>2, <1>3

\* What is pushed leads from the state captured last to the new one, whether the
\* oldest entry is dropped or not.
LEMMA PushLeads ==
    ASSUME NEW b \in Buffers, Len(b.entries) <= Capacity,
           NEW before \in Snapshots, NEW after \in Snapshots, after.frame = before.frame,
           Trace!Previous(b, before) \in Snapshots,
           Trace!Previous(b, before).frame <= before.frame,
           NEW states \in Seq(Snapshots), Len(states) = b.dropped + Len(b.entries) + 2,
           states[Len(states)] = after, states[Len(states) - 1] = Trace!Previous(b, before),
           states[b.dropped + 1] = (IF b.initial = Trace!Closed THEN before ELSE b.initial),
           Leads(b.entries, b.dropped, states)
    PROVE  LET c == Trace!Push(b, before, after) IN
           /\ c \in Buffers /\ Len(c.entries) <= Capacity
           /\ c.entries # <<>> /\ c.latest = after
           /\ Len(states) = c.dropped + Len(c.entries) + 1
           /\ c.initial = states[c.dropped + 1]
           /\ Leads(c.entries, c.dropped, states)
<1> DEFINE previous == Trace!Previous(b, before)
           d == b.dropped
           n == Len(b.entries)
           first == IF b.initial = Trace!Closed THEN before ELSE b.initial
           e == Trace!Entry(previous, before, after, d + n)
           c == Trace!Push(b, before, after)
<1>1. d \in Nat /\ b.entries \in Seq(Entries) /\ n \in Nat /\ d + n \in Nat
  BY DEF Buffers
<1>2. /\ e \in Entries /\ e.sequence = d + n
      /\ Trace!Applies(e, previous) /\ Trace!Apply(e, previous) = after
  BY <1>1, EntryLeads, SMTT(30)
<1>3. Len(states) = d + n + 2
  OBVIOUS
<1>4. /\ Trace!Applies(e, states[d + n + 1]) /\ Trace!Apply(e, states[d + n + 1]) = states[d + n + 2]
  BY <1>1, <1>2, <1>3
<1>5. states[d + 1] = first /\ first \in Snapshots
  <2>1. d + 1 \in 1 .. Len(states)
    BY <1>1, <1>3
  <2> QED
    BY <2>1
<1>6. \A i \in 1 .. n :
        /\ b.entries[i].sequence = d + i - 1
        /\ Trace!Applies(b.entries[i], states[d + i])
        /\ Trace!Apply(b.entries[i], states[d + i]) = states[d + i + 1]
  BY DEF Leads
<1>7. CASE n = Capacity
  <2> DEFINE kept == Append(Tail(b.entries), e)
  <2>1. c = [initial |-> Trace!Apply(Head(b.entries), first), latest |-> after,
             entries |-> kept, dropped |-> d + 1]
    BY <1>7 DEF Trace!Push
  <2> HIDE DEF e, c, d, n, first, previous
  <2>2. n \in 1 .. n /\ 1 \in 1 .. n
    BY <1>1, <1>7, TraceAssumption
  <2>3. Head(b.entries) = b.entries[1]
    BY <1>1, <2>2 DEF n
  <2>4. Trace!Apply(Head(b.entries), first) = states[d + 1 + 1]
    BY <1>1, <1>5, <1>6, <2>2, <2>3
  <2>5. states[d + 1 + 1] \in Snapshots
    <3>1. d + 1 + 1 \in 1 .. Len(states)
      BY <1>1, <1>3
    <3> QED
      BY <3>1
  <2>6. /\ Tail(b.entries) \in Seq(Entries) /\ Len(Tail(b.entries)) = n - 1
        /\ \A i \in 1 .. n - 1 : Tail(b.entries)[i] = b.entries[i + 1]
    BY <1>1, <2>2 DEF n
  <2>7. /\ kept \in Seq(Entries) /\ kept # <<>> /\ Len(kept) = n
        /\ kept[n] = e /\ \A i \in 1 .. n - 1 : kept[i] = b.entries[i + 1]
    BY <1>1, <1>2, <2>2, <2>6, SMTT(30)
  <2> HIDE DEF kept
  <2>8. Leads(kept, d + 1, states)
    <3> SUFFICES ASSUME NEW i \in 1 .. n
                 PROVE  /\ kept[i].sequence = d + 1 + i - 1
                        /\ Trace!Applies(kept[i], states[d + 1 + i])
                        /\ Trace!Apply(kept[i], states[d + 1 + i]) = states[d + 1 + i + 1]
      BY <2>7 DEF Leads
    <3>1. CASE i = n
      <4>1. d + 1 + i - 1 = d + n /\ d + 1 + i = d + n + 1 /\ d + 1 + i + 1 = d + n + 2
        BY <1>1, <3>1
      <4> QED
        BY <1>2, <1>4, <2>7, <3>1, <4>1
    <3>2. CASE i # n
      <4>1. /\ i + 1 \in 1 .. n /\ i \in 1 .. n - 1
            /\ d + (i + 1) - 1 = d + 1 + i - 1 /\ d + (i + 1) = d + 1 + i
            /\ d + (i + 1) + 1 = d + 1 + i + 1
        BY <1>1, <3>2
      <4>2. kept[i] = b.entries[i + 1]
        BY <2>7, <4>1
      <4> QED
        BY <1>6, <4>1, <4>2
    <3> QED
      BY <3>1, <3>2
  <2>9. c \in Buffers
    BY <1>1, <2>1, <2>4, <2>5, <2>7 DEF Buffers
  <2>10. d + n + 2 = d + 1 + n + 1
    BY <1>1
  <2>11. /\ c.entries = kept /\ c.latest = after /\ c.dropped = d + 1
         /\ c.initial = states[c.dropped + 1]
    BY <2>1, <2>4
  <2>12. /\ c.entries # <<>> /\ Len(c.entries) <= Capacity
         /\ Len(states) = c.dropped + Len(c.entries) + 1
         /\ Leads(c.entries, c.dropped, states)
    BY <1>3, <1>7, <2>7, <2>8, <2>10, <2>11, TraceAssumption
  <2> QED
    BY <2>9, <2>11, <2>12 DEF c
<1>8. CASE n # Capacity
  <2> DEFINE kept == Append(b.entries, e)
  <2>1. c = [b EXCEPT !.initial = first, !.latest = after, !.entries = kept]
    BY <1>8 DEF Trace!Push
  <2>2. c = [initial |-> first, latest |-> after, entries |-> kept, dropped |-> d]
    BY <2>1 DEF Buffers
  <2> HIDE DEF e, c, first, previous
  <2>3. /\ kept \in Seq(Entries) /\ kept # <<>> /\ Len(kept) = n + 1
        /\ kept[n + 1] = e /\ \A i \in 1 .. n : kept[i] = b.entries[i]
    <3>1. b.entries \in Seq(Entries) /\ e \in Entries
      BY <1>1, <1>2
    <3>2. kept \in Seq(Entries) /\ Len(kept) = Len(b.entries) + 1 /\ kept[Len(b.entries) + 1] = e
      BY <3>1
    <3>3. \A i \in 1 .. Len(b.entries) : kept[i] = b.entries[i]
      BY <3>1
    <3> HIDE DEF kept
    <3>4. kept # <<>>
      BY <1>1, <3>2
    <3> QED
      BY <3>2, <3>3, <3>4
  <2> HIDE DEF kept, d, n
  <2>4. Leads(kept, d, states)
    <3> SUFFICES ASSUME NEW i \in 1 .. n + 1
                 PROVE  /\ kept[i].sequence = d + i - 1
                        /\ Trace!Applies(kept[i], states[d + i])
                        /\ Trace!Apply(kept[i], states[d + i]) = states[d + i + 1]
      BY <2>3 DEF Leads
    <3>1. CASE i = n + 1
      <4>1. d + i - 1 = d + n /\ d + i = d + n + 1 /\ d + i + 1 = d + n + 2
        BY <1>1, <3>1
      <4> QED
        BY <1>2, <1>4, <2>3, <3>1, <4>1
    <3>2. CASE i # n + 1
      <4>1. i \in 1 .. n
        BY <1>1, <3>2
      <4> QED
        BY <1>6, <2>3, <4>1
    <3> QED
      BY <3>1, <3>2
  <2>5. c \in Buffers
    BY <1>1, <1>5, <2>2, <2>3 DEF Buffers
  <2>6. n + 1 <= Capacity /\ d + n + 2 = d + (n + 1) + 1
    BY <1>1, <1>8, TraceAssumption, SMTT(30) DEF n
  <2> QED
    BY <1>3, <1>5, <2>2, <2>3, <2>4, <2>5, <2>6 DEF c
<1> QED
  BY <1>7, <1>8

\* Putting two snapshots in a sequence.
LEMMA PairOfSnapshots ==
    ASSUME NEW s \in Snapshots, NEW t \in Snapshots
    PROVE  /\ <<s>> \o <<t>> \in Seq(Snapshots) /\ Len(<<s>> \o <<t>>) = 2
           /\ (<<s>> \o <<t>>)[1] = s /\ (<<s>> \o <<t>>)[2] = t
OBVIOUS

\* What is captured next leaves what was captured before.
LEMMA CapturedLonger ==
    ASSUME TraceInv, NEW after \in Snapshots
    PROVE  LET longer == (IF captured = <<>> THEN <<now>> ELSE captured) \o <<after>>
               d == buffer.dropped
               n == Len(buffer.entries)
           IN  /\ longer \in Seq(Snapshots) /\ longer # <<>> /\ Len(longer) = d + n + 2
               /\ longer[Len(longer)] = after
               /\ longer[Len(longer) - 1] = Trace!Previous(buffer, now)
               /\ longer[d + 1] = (IF buffer.initial = Trace!Closed THEN now ELSE buffer.initial)
               /\ Leads(buffer.entries, d, longer)
<1> DEFINE longer == (IF captured = <<>> THEN <<now>> ELSE captured) \o <<after>>
           d == buffer.dropped
           n == Len(buffer.entries)
<1>1. d \in Nat /\ n \in Nat /\ captured \in Seq(Snapshots) /\ now \in Snapshots
  BY DEF TraceInv, Buffers
<1>2. Trace!Previous(buffer, now) = IF captured = <<>> THEN now ELSE captured[Len(captured)]
  BY PreviousCaptured
<1>3. CASE captured = <<>>
  <2>1. d = 0 /\ n = 0 /\ buffer.initial = Trace!Closed
    BY <1>3 DEF TraceInv, Trace!Empty
  <2>2. longer = <<now>> \o <<after>>
    BY <1>3
  <2>3. Leads(buffer.entries, d, longer)
    BY <2>1 DEF Leads
  <2> HIDE DEF longer, d, n
  <2>4. /\ longer \in Seq(Snapshots) /\ Len(longer) = 2 /\ longer[1] = now /\ longer[2] = after
    BY <1>1, <2>2, PairOfSnapshots
  <2> QED
    BY <1>2, <1>3, <2>1, <2>3, <2>4 DEF longer, d, n
<1>4. CASE captured # <<>>
  <2>1. /\ Len(captured) = d + n + 1 /\ buffer.initial = captured[d + 1]
        /\ Leads(buffer.entries, d, captured)
    BY <1>4 DEF TraceInv, Recorded
  <2>2. longer = captured \o <<after>>
    BY <1>4
  <2> HIDE DEF longer
  <2>3. /\ longer \in Seq(Snapshots) /\ longer # <<>> /\ Len(longer) = Len(captured) + 1
        /\ longer[Len(captured) + 1] = after
        /\ \A i \in 1 .. Len(captured) : longer[i] = captured[i]
    BY <1>1, <2>2
  <2>4. d + 1 \in 1 .. Len(captured) /\ Len(captured) \in 1 .. Len(captured)
    BY <1>1, <2>1
  <2>5. buffer.initial # Trace!Closed
    BY <1>1, <2>1, <2>4, SnapshotIsOne
  <2>6. \A i \in 1 .. n : d + i \in 1 .. Len(captured) /\ d + i + 1 \in 1 .. Len(captured)
    BY <1>1, <2>1, SMTT(30)
  <2>7. Leads(buffer.entries, d, longer)
    BY <2>1, <2>3, <2>6 DEF Leads
  <2>8. Len(longer) = d + n + 2 /\ Len(longer) - 1 = Len(captured)
    BY <1>1, <2>1, <2>3
  <2> QED
    BY <1>2, <1>4, <2>1, <2>3, <2>4, <2>5, <2>7, <2>8 DEF longer
<1> QED
  BY <1>3, <1>4

\* An instruction is recorded with what happened since the one before.
LEMMA InstructionStep == ASSUME TraceInv, Trace!Instruction PROVE TraceInv'
<1> DEFINE longer == (IF captured = <<>> THEN <<now>> ELSE captured) \o <<now'>>
<1>0. now \in Snapshots /\ buffer \in Buffers /\ Len(buffer.entries) <= Capacity
  BY DEF TraceInv
<1>1. PICK pc \in Pcs, fields \in Trace!Moves(now.fields) :
        LET after == [now EXCEPT !.pc = pc, !.fields = fields] IN
        /\ now' = after
        /\ IF Trace!Pushable(buffer, now, after)
           THEN /\ buffer' = Trace!Push(buffer, now, after)
                /\ captured' = (IF captured = <<>> THEN <<now>> ELSE captured) \o <<after>>
                /\ UNCHANGED refused
           ELSE refused' = TRUE /\ UNCHANGED <<buffer, captured>>
  BY DEF Trace!Instruction
<1>2. now' \in Snapshots /\ now'.frame = now.frame
  BY <1>0, <1>1, MovesAreFields DEF Snapshots
<1>3. /\ Trace!Previous(buffer, now) \in Snapshots
      /\ Trace!Previous(buffer, now).frame <= now.frame
  BY PreviousCaptured
<1>4. Trace!Pushable(buffer, now, now')
  <2>1. LET z == Trace!Entry(Trace!Previous(buffer, now), now, now', 0) IN
        Trace!Applies(z, Trace!Previous(buffer, now))
        /\ Trace!Apply(z, Trace!Previous(buffer, now)) = now'
    BY <1>0, <1>2, <1>3, EntryLeads
  <2> QED
    BY <1>2, <2>1 DEF Trace!Pushable
<1>5. buffer' = Trace!Push(buffer, now, now') /\ captured' = longer /\ UNCHANGED refused
  BY <1>1, <1>4
<1>6. replay = Trace!Closed /\ UNCHANGED replay
  BY DEF Trace!Instruction
<1>7. /\ longer \in Seq(Snapshots) /\ longer # <<>>
      /\ Len(longer) = buffer.dropped + Len(buffer.entries) + 2
      /\ longer[Len(longer)] = now'
      /\ longer[Len(longer) - 1] = Trace!Previous(buffer, now)
      /\ longer[buffer.dropped + 1] = (IF buffer.initial = Trace!Closed THEN now ELSE buffer.initial)
      /\ Leads(buffer.entries, buffer.dropped, longer)
  BY <1>2, CapturedLonger
<1> HIDE DEF longer
<1>8. LET c == Trace!Push(buffer, now, now') IN
      /\ c \in Buffers /\ Len(c.entries) <= Capacity
      /\ c.entries # <<>> /\ c.latest = now'
      /\ Len(longer) = c.dropped + Len(c.entries) + 1
      /\ c.initial = longer[c.dropped + 1]
      /\ Leads(c.entries, c.dropped, longer)
  BY <1>0, <1>2, <1>3, <1>7, PushLeads
<1>9. now'.frame \in Nat
  BY <1>2 DEF Snapshots
<1>10. Recorded'
  BY <1>5, <1>7, <1>8, <1>9 DEF Recorded
<1> QED
  BY <1>2, <1>5, <1>6, <1>7, <1>8, <1>10 DEF TraceInv

\* A cleared recording is an empty one.
LEMMA ClearStep == ASSUME TraceInv, Trace!Clear PROVE TraceInv'
<1>1. Trace!Empty \in Buffers /\ Len(Trace!Empty.entries) = 0
  BY DEF Trace!Empty, Buffers
<1> QED
  BY <1>1, TraceAssumption DEF Trace!Clear, TraceInv

\* The captured states are snapshots.
LEMMA CapturedSnapshot ==
    ASSUME TraceInv, captured # <<>>, NEW p \in 0 .. Len(buffer.entries)
    PROVE  CapturedAt(p) \in Snapshots
<1>1. /\ Len(buffer.entries) \in Nat /\ buffer.dropped \in Nat /\ captured \in Seq(Snapshots)
      /\ Len(captured) = buffer.dropped + Len(buffer.entries) + 1
  BY DEF TraceInv, Recorded, Buffers
<1>2. buffer.dropped + p + 1 \in 1 .. Len(captured)
  BY <1>1
<1> QED
  BY <1>1, <1>2 DEF CapturedAt

\* A replay begins with the oldest captured state and right checkpoints.
LEMMA OpenStep == ASSUME TraceInv, Trace!Open PROVE TraceInv'
<1>1. /\ UNCHANGED <<now, buffer, captured, refused>> /\ buffer.initial # Trace!Closed
      /\ replay' = [entries |-> buffer.entries, checkpoints |-> Trace!Checkpoints(buffer),
                    position |-> 0, snapshot |-> buffer.initial]
  BY DEF Trace!Open
<1>2. captured # <<>>
  BY <1>1 DEF TraceInv, Trace!Empty
<1>3. Len(buffer.entries) \in Nat /\ buffer.dropped \in Nat /\ buffer.initial = CapturedAt(0)
  BY <1>2 DEF TraceInv, Recorded, Buffers, CapturedAt
<1>4. \A p \in Checked :
        Trace!StateFrom(buffer.entries, 0, buffer.initial, p) = CapturedAt(p)
  BY <1>2, <1>3, RebuiltIsCaptured DEF Checked
<1>5. Trace!Checkpoints(buffer) = [p \in Checked |-> CapturedAt(p)]
  BY <1>4 DEF Trace!Checkpoints, Checked
<1>6. Replayed'
  <2>1. (CapturedAt(0))' = CapturedAt(0) /\ Checked' = Checked
        /\ [p \in Checked |-> CapturedAt(p)]' = [p \in Checked |-> CapturedAt(p)]
    BY <1>1 DEF CapturedAt, Checked
  <2> QED
    BY <1>1, <1>2, <1>3, <1>5, <2>1, CapturedSnapshot DEF Replayed
<1> QED
  BY <1>1, <1>6 DEF TraceInv, Recorded

\* A replay is moved to another captured state.
LEMMA ReplaySteps ==
    ASSUME TraceInv, Trace!StepForward \/ Trace!StepBack \/ Trace!Jump
    PROVE  TraceInv'
<1> DEFINE n == Len(buffer.entries)
<1>1. /\ UNCHANGED <<now, buffer, captured, refused>> /\ replay # Trace!Closed
  BY DEF Trace!StepForward, Trace!StepBack, Trace!Jump
<1>2. n \in Nat /\ Replayed
  BY <1>1 DEF TraceInv, Buffers
<1>3. ASSUME NEW p \in 0 .. n,
             replay' = [replay EXCEPT !.position = p, !.snapshot = CapturedAt(p)]
      PROVE  TraceInv'
  <2> DEFINE checkpoints == [q \in Checked |-> CapturedAt(q)]
  <2>1. /\ replay \in [entries : {buffer.entries}, checkpoints : {checkpoints},
                        position : 0 .. n, snapshot : Snapshots]
        /\ captured # <<>>
    BY <1>2 DEF Replayed
  <2>2. CapturedAt(p) \in Snapshots
    BY <1>2, <1>3, CapturedSnapshot DEF Replayed
  <2> HIDE DEF checkpoints
  <2>3. /\ replay' \in [entries : {buffer.entries}, checkpoints : {checkpoints},
                         position : 0 .. n, snapshot : Snapshots]
        /\ replay'.position = p /\ replay'.snapshot = CapturedAt(p)
    BY <1>3, <2>1, <2>2
  <2>4. (CapturedAt(p))' = CapturedAt(p) /\ checkpoints' = checkpoints
    BY <1>1 DEF CapturedAt, Checked, checkpoints
  <2>5. Replayed'
    BY <1>1, <2>1, <2>3, <2>4 DEF Replayed, CapturedAt, checkpoints
  <2> QED
    BY <1>1, <2>5 DEF TraceInv, Recorded
<1>4. ASSUME NEW p \in 0 .. n
      PROVE  Trace!Seek(replay, p) = [replay EXCEPT !.position = p, !.snapshot = CapturedAt(p)]
  <2>1. DOMAIN replay.checkpoints = {q \in 0 .. n : q % Interval = 0}
        /\ replay.entries = buffer.entries
        /\ \A q \in DOMAIN replay.checkpoints : replay.checkpoints[q] = CapturedAt(q)
    BY <1>2 DEF Replayed, Checked
  <2>2. LET from == Trace!CheckpointBefore(replay.checkpoints, p) IN
        from \in DOMAIN replay.checkpoints /\ from <= p
    BY <1>2, <1>4, <2>1, CheckpointExists
  <2>3. LET from == Trace!CheckpointBefore(replay.checkpoints, p) IN
        Trace!StateFrom(replay.entries, from, replay.checkpoints[from], p) = CapturedAt(p)
    BY <1>2, <1>4, <2>1, <2>2, RebuiltIsCaptured DEF Replayed
  <2> QED
    BY <2>3 DEF Trace!Seek
<1>5. CASE Trace!StepForward
  <2>1. /\ replay.position < Len(replay.entries)
        /\ replay' = [replay EXCEPT !.position = @ + 1,
                        !.snapshot = Trace!Apply(replay.entries[replay.position + 1], @)]
    BY <1>5 DEF Trace!StepForward
  <2>2. /\ replay.entries = buffer.entries /\ replay.position \in 0 .. n
        /\ replay.snapshot = CapturedAt(replay.position)
    BY <1>2 DEF Replayed
  <2>3. replay.position + 1 \in 1 .. n /\ replay.position + 1 \in 0 .. n
    BY <1>2, <2>1, <2>2
  <2>4. Leads(buffer.entries, buffer.dropped, captured) /\ buffer.dropped \in Nat
    BY <1>2 DEF TraceInv, Recorded, Replayed, Buffers
  <2>5. Trace!Apply(buffer.entries[replay.position + 1], CapturedAt(replay.position))
          = CapturedAt(replay.position + 1)
    <3>1. /\ buffer.dropped + (replay.position + 1) = buffer.dropped + replay.position + 1
          /\ buffer.dropped + (replay.position + 1) + 1 = buffer.dropped + (replay.position + 1) + 1
      BY <2>2, <2>4
    <3> QED
      BY <2>3, <2>4, <3>1 DEF Leads, CapturedAt
  <2>6. replay' = [replay EXCEPT !.position = replay.position + 1,
                                 !.snapshot = CapturedAt(replay.position + 1)]
    BY <2>1, <2>2, <2>5
  <2> QED
    BY <1>3, <2>3, <2>6
<1>6. CASE Trace!StepBack
  <2>1. replay.position - 1 \in 0 .. n /\ replay' = Trace!Seek(replay, replay.position - 1)
    BY <1>2, <1>6 DEF Trace!StepBack, Replayed
  <2> QED
    BY <1>3, <1>4, <2>1
<1>7. CASE Trace!Jump
  <2>1. PICK p \in 0 .. n : replay' = Trace!Seek(replay, p)
    BY <1>2, <1>7 DEF Trace!Jump, Replayed
  <2> QED
    BY <1>3, <1>4, <2>1
<1> QED
  BY <1>5, <1>6, <1>7

\* The buffer of a recording and what a replay shows agree with what was captured.
THEOREM TraceInvariant == Trace!TraceSpec => []TraceInv
<1>1. TraceInv /\ [Trace!TraceNext]_(Trace!traceVars) => TraceInv'
  <2> SUFFICES ASSUME TraceInv, [Trace!TraceNext]_(Trace!traceVars) PROVE TraceInv'
    OBVIOUS
  <2>1. CASE UNCHANGED Trace!traceVars
    BY <2>1 DEF Trace!traceVars, TraceInv, Recorded, Replayed, Checked, CapturedAt
  <2>2. CASE Trace!TraceNext
    BY <2>2, TraceWorldStep, InstructionStep, ClearStep, OpenStep, ReplaySteps DEF Trace!TraceNext
  <2> QED
    BY <2>1, <2>2
<1> QED
  BY <1>1, TraceInitInv, PTL DEF Trace!TraceSpec

\* Wherever a replay is moved to, it shows what was captured there, for a buffer, a
\* recording and checkpoints of any size.
THEOREM TraceReplayIsCapture == Trace!TraceSpec => []ReplayIsCapture
<1>1. TraceInv => ReplayIsCapture
  <2> SUFFICES ASSUME TraceInv PROVE ReplayIsCapture
    OBVIOUS
  <2>1. Trace!Sound(buffer)
    <3>1. CASE captured = <<>>
      BY <3>1 DEF TraceInv, Trace!Empty, Trace!Sound
    <3>2. CASE captured # <<>>
      <4>1. /\ Len(buffer.entries) \in Nat /\ DOMAIN buffer.entries = 1 .. Len(buffer.entries)
            /\ buffer.dropped \in Nat /\ buffer.initial = CapturedAt(0)
            /\ Leads(buffer.entries, buffer.dropped, captured)
        BY <3>2 DEF TraceInv, Recorded, Buffers, CapturedAt
      <4> SUFFICES ASSUME NEW i \in 1 .. Len(buffer.entries)
                   PROVE  /\ buffer.entries[i].sequence = buffer.dropped + i - 1
                          /\ Trace!Applies(buffer.entries[i],
                               Trace!StateFrom(buffer.entries, 0, buffer.initial, i - 1))
        BY <4>1 DEF Trace!Sound
      <4>2. i - 1 \in 0 .. Len(buffer.entries) /\ buffer.dropped + (i - 1) + 1 = buffer.dropped + i
            /\ 0 \in 0 .. Len(buffer.entries) /\ 0 <= i - 1
        BY <4>1
      <4>3. Trace!StateFrom(buffer.entries, 0, CapturedAt(0), i - 1) = CapturedAt(i - 1)
        BY <3>2, <4>2, RebuiltIsCaptured
      <4>4. CapturedAt(i - 1) = captured[buffer.dropped + i]
        BY <4>2 DEF CapturedAt
      <4> QED
        BY <4>1, <4>3, <4>4 DEF Leads
    <3> QED
      BY <3>1, <3>2
  <2>2. replay # Trace!Closed => replay.snapshot = captured[buffer.dropped + replay.position + 1]
    BY DEF TraceInv, Replayed, CapturedAt
  <2> QED
    BY <2>1, <2>2 DEF TraceInv, ReplayIsCapture, Trace!ReplayIsCapture
<1> QED
  BY <1>1, TraceInvariant, PTL
=============================================================================
