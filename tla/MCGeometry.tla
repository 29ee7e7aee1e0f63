----------------------------- MODULE MCGeometry ------------------------------
(* The native memory that the geometry mod manages, side by side, each kind on *)
(* variables of its own: `kind` says which one a behaviour is about.           *)
(*   "equipment"  two caches, one filled by the asynchronous loader            *)
(*   "batch"      two caches that one build of that loader works on together   *)
(*   "stage"      the raw buffer and the pair of a stage                       *)
(*   "weapons"    the texture handles of weapons on two threads                *)
EXTENDS EquipmentCache, StageCache, WeaponTextures, TLC

VARIABLE kind

MCGroup == <<"async", "sync">>
OneGroup == <<"async", "async">>
MCSizes == <<{1, 2}, {1}>>

Batch == INSTANCE EquipmentCache WITH group <- OneGroup

GeometryInit ==
  /\ kind \in {"equipment", "batch", "stage", "weapons"}
  /\ Init /\ StageInit /\ TextureInit
GeometryNext ==
  /\ \/ kind = "equipment" /\ Next /\ UNCHANGED <<stageVars, textureVars>>
     \/ kind = "batch" /\ Batch!Next /\ UNCHANGED <<stageVars, textureVars>>
     \/ kind = "stage" /\ StageNext /\ UNCHANGED <<vars, textureVars>>
     \/ kind = "weapons" /\ TextureNext /\ UNCHANGED <<vars, stageVars>>
  /\ UNCHANGED kind
GeometrySpec == GeometryInit /\ [][GeometryNext]_<<kind, vars, stageVars, textureVars>>

Symmetry == Permutations(Threads) \cup Permutations(Resources)
==============================================================================
