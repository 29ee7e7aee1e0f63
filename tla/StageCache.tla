----------------------------- MODULE StageCache -----------------------------
(***************************************************************************)
(* The workspaces of stage loading in mods/geometry/src/native/            *)
(* stage_cache.rs.  The game reads a stage file into a raw buffer, decodes *)
(* one model after another into a pair of buffers (FMOD and FSKL) and      *)
(* builds each model from the pair.  The raw and FMOD addresses are global *)
(* variables of the game; the FSKL address was an operand of several       *)
(* instructions, which the mod patches to read a cell instead.             *)
(*                                                                         *)
(* One thread of the game loads stages; an operation of it may unwind.     *)
(* Writing an instruction may fail before or after the bytes are copied.   *)
(* External: reading, decoding and building.  Left out: the sizes computed *)
(* from headers, the callers that are not redirected, the registers.       *)
(***************************************************************************)
EXTENDS NativeBuffer

CONSTANT Patches   \* number of patched instructions

ASSUME StageAssumption == Patches \in Nat \ {0}

VARIABLES
  raw, fmod, fskl,    \* the buffers
  raw_global,         \* RAW_GLOBAL, 0 before the first load
  decoded_global,     \* DECODED_GLOBAL, 0 before the first decode
  cell,               \* FSKL_POINTER
  raw_use, uses,      \* the uses to be confirmed: of raw, and pending of the pair
  instructions,       \* which instructions read the cell
  reservations,       \* the patches to be undone, the first so many
  bound,              \* whether all are applied
  builder,            \* the construction under way: its two addresses and uses
  decoded,            \* the pair that was decoded last, or Rejected
  stage               \* the life of the mod's state

stageVars == <<raw, fmod, fskl, raw_global, decoded_global, cell, raw_use, uses,
               instructions, reservations, bound, builder, decoded, stage>>
buffersVars == <<raw, fmod, fskl>>
globals == <<raw_global, decoded_global, cell>>
patching == <<instructions, reservations, bound>>

Empty == MaxCapacity + 1        \* the pair of empty models, allocated once
Rejected == <<Empty, Empty>>
NoUses == <<NoUse, NoUse>>
NoBuilder == [at |-> <<0, 0>>, uses |-> NoUses]

StageTypeOK ==
  /\ \A b \in {raw, fmod, fskl} : live(b) \subseteq Capacities
  /\ raw_global \in Addresses /\ decoded_global \in Addresses \union {Empty}
  /\ cell \in Capacities \union {Empty}
  /\ raw_use \in Uses \union {NoUse}
  /\ uses \in (Uses \X Uses) \union {NoUses}
  /\ instructions \subseteq 1 .. Patches /\ reservations \in 0 .. Patches
  /\ bound \in BOOLEAN
  /\ stage \in {"absent", "failed", "installed", "stopped", "dropped", "kept"}

StageInit ==
  /\ raw = Default /\ fmod = Default /\ fskl = Default
  /\ raw_global = 0 /\ decoded_global = 0 /\ cell = Empty
  /\ raw_use = NoUse /\ uses = NoUses
  /\ instructions = {} /\ reservations = 0 /\ bound = FALSE
  /\ builder = NoBuilder /\ decoded = <<0, 0>>
  /\ stage = "absent"

-----------------------------------------------------------------------------
install ==
  /\ stage = "absent" /\ stage' = "installed"
  /\ instructions' = 1 .. Patches /\ reservations' = Patches /\ bound' = TRUE
  /\ UNCHANGED <<buffersVars, globals, raw_use, uses, builder, decoded>>

(* A write fails: its reservation is there already, its bytes perhaps.      *)
InstallFails ==
  /\ stage = "absent" /\ stage' = "failed"
  /\ reservations' \in 1 .. Patches
  /\ instructions' \in {1 .. reservations' - 1, 1 .. reservations'}
  /\ UNCHANGED <<bound, buffersVars, globals, raw_use, uses, builder, decoded>>

(* prepare_raw: the earlier use ends with the publication of the next.      *)
(* Nothing changes when the allocation fails.                               *)
LoadStage(size) ==
  LET prepared == prepare(raw, size)
      a == Latest(prepared)
      reclaimed == reclaim(complete(prepared, raw_use), a)
  IN /\ stage = "installed" /\ builder = NoBuilder
     /\ raw_global' = a
     /\ raw' = begin_use(reclaimed, a)
     /\ raw_use' = UseOf(reclaimed, a)
     /\ UNCHANGED <<fmod, fskl, decoded_global, cell, uses, patching, builder, decoded, stage>>

(* prepare_pair and the decoder: both buffers are there before either is    *)
(* published.                                                               *)
DecodePair(size, size2) ==
  LET m == prepare(fmod, size)
      k == prepare(fskl, size2)
  IN /\ stage = "installed" /\ builder = NoBuilder
     /\ fmod' = reclaim(begin_use(m, Latest(m)), Latest(m))
     /\ fskl' = reclaim(begin_use(k, Latest(k)), Latest(k))
     /\ uses' = IF NoUse \in {UseOf(m, Latest(m)), UseOf(k, Latest(k))} THEN NoUses
                ELSE <<UseOf(m, Latest(m)), UseOf(k, Latest(k))>>
     /\ decoded_global' = Latest(m) /\ cell' = Latest(k)
     /\ decoded' = <<Latest(m), Latest(k)>>
     /\ UNCHANGED <<raw, raw_global, raw_use, patching, builder, stage>>

(* Mutant: the skeleton of the previous model stays.                        *)
reject_half ==
  /\ uses' = NoUses
  /\ decoded_global' = Empty /\ UNCHANGED cell
  /\ decoded' = Rejected

reject_pair ==
  /\ uses' = NoUses
  /\ decoded_global' = Empty /\ cell' = Empty
  /\ decoded' = Rejected

(* The model cannot be sized, or one of the allocations fails, the second   *)
(* perhaps after the first succeeded.                                       *)
DecodeFails(size) ==
  /\ stage = "installed" /\ builder = NoBuilder
  /\ fmod' \in {fmod, prepare(fmod, size)}
  /\ reject_pair
  /\ UNCHANGED <<raw, fskl, raw_global, raw_use, patching, builder, stage>>

(* construction: the builder takes the pair from where the code finds it;   *)
(* its return confirms the pending uses if they are of these addresses.     *)
Construct ==
  /\ stage = "installed" /\ builder = NoBuilder /\ decoded_global # 0
  /\ builder' = [at |-> <<decoded_global, cell>>,
                 uses |-> IF uses[1].address = decoded_global /\ uses[2].address = cell
                          THEN uses ELSE NoUses]
  /\ UNCHANGED <<buffersVars, globals, raw_use, uses, patching, decoded, stage>>

FinishPair ==
  /\ builder # NoBuilder /\ builder' = NoBuilder
  /\ IF builder.uses # NoUses /\ uses = builder.uses
     THEN /\ uses' = NoUses
          /\ fmod' = reclaim(complete(fmod, uses[1]), uses[1].address)
          /\ fskl' = reclaim(complete(fskl, uses[2]), uses[2].address)
     ELSE UNCHANGED <<uses, fmod, fskl>>
  /\ UNCHANGED <<raw, globals, raw_use, patching, decoded, stage>>

(* A panic on the way out confirms nothing.                                 *)
Unwinds ==
  /\ builder # NoBuilder /\ builder' = NoBuilder
  /\ UNCHANGED <<buffersVars, globals, raw_use, uses, patching, decoded, stage>>

-----------------------------------------------------------------------------
StopStage ==
  /\ stage = "installed" /\ builder = NoBuilder /\ stage' = "stopped"
  /\ UNCHANGED <<buffersVars, globals, raw_use, uses, patching, builder, decoded>>

(* restore from the last patch down, then the globals.                      *)
Restored ==
  /\ reservations' = 0 /\ instructions' = {} /\ bound' = FALSE
  /\ raw_global' = IF bound THEN 0 ELSE raw_global
  /\ decoded_global' = IF bound THEN 0 ELSE decoded_global

StuckAt(left) ==
  /\ reservations' = left
  /\ instructions' \in {{i \in instructions : i <= left}, {i \in instructions : i < left}}
  /\ UNCHANGED <<bound, raw_global, decoded_global>>

RestoreStage ==
  /\ stage = "stopped" /\ reservations > 0
  /\ Restored \/ \E left \in 1 .. reservations : StuckAt(left)
  /\ UNCHANGED <<buffersVars, cell, raw_use, uses, builder, decoded, stage>>

(* Mutant: an install that failed half-way had nothing to keep.             *)
LeavesBound == bound

Leaves == bound \/ reservations > 0

(* Drop restores once more; what cannot be restored keeps its memory.       *)
DropStage ==
  /\ stage \in {"failed", "stopped"}
  /\ Restored \/ \E left \in 1 .. reservations : StuckAt(left)
  /\ stage' = IF Leaves' THEN "kept" ELSE "dropped"
  /\ UNCHANGED <<buffersVars, cell, raw_use, uses, builder, decoded>>

StageOver == stage \in {"dropped", "kept"} /\ UNCHANGED stageVars

StageNext ==
  \/ install \/ InstallFails \/ StopStage \/ RestoreStage \/ DropStage \/ StageOver
  \/ Construct \/ FinishPair \/ Unwinds
  \/ \E size \in Capacities : LoadStage(size) \/ DecodeFails(size)
  \/ \E size, size2 \in Capacities : DecodePair(size, size2)

StageSpec == StageInit /\ [][StageNext]_stageVars

-----------------------------------------------------------------------------
Freed(buffer, a) == stage = "dropped" \/ a \notin live(buffer)

(* Whatever the game may still read is memory of the game or was not freed: *)
(* the two globals, the cell as long as an instruction reads it, and the    *)
(* pair a builder works on; also after an install or a restore that stopped *)
(* half-way, and after the drop (stage_cache.rs prepare_raw, drop).  And a   *)
(* builder never gets the mesh of one model with the skeleton of another,    *)
(* nor any of an earlier model after a decode that failed (prepare_pair,     *)
(* reject_pair).                                                             *)
StageMemoryLive ==
  /\ StageTypeOK
  /\ raw_global # 0 => ~Freed(raw, raw_global)
  /\ decoded_global \notin {0, Empty} => ~Freed(fmod, decoded_global)
  /\ instructions # {} => IF cell = Empty THEN stage # "dropped" ELSE ~Freed(fskl, cell)
  /\ builder # NoBuilder => /\ builder.at[1] # Empty => ~Freed(fmod, builder.at[1])
                            /\ builder.at[2] # Empty => ~Freed(fskl, builder.at[2])
  /\ builder # NoBuilder => builder.at = decoded
=============================================================================
