---------------------------- MODULE NativeBuffer ----------------------------
(***************************************************************************)
(* The buffers that the geometry mod lends to native code                  *)
(* (mods/geometry/src/cache.rs).  A buffer grows by new allocations and    *)
(* frees an old one only when every native use of it was confirmed.  The   *)
(* module has operators only: EquipmentCache and StageCache hold buffers.  *)
(*                                                                         *)
(* An allocation is named by its capacity, which is its address: each new  *)
(* one is larger than all before.  Address 0 is the memory of the game.    *)
(* serial 0 is Option::None of Allocation::usage.                          *)
(***************************************************************************)
EXTENDS Naturals, FiniteSets

CONSTANTS
  MaxCapacity,   \* the largest capacity, in classes of powers of two
  MaxSerial      \* the last serial number, where checked_add fails

ASSUME BufferAssumption == MaxCapacity \in Nat \ {0} /\ MaxSerial \in Nat

Capacities == 1 .. MaxCapacity
Addresses == 0 .. MaxCapacity

Uses == [address : Capacities, serial : 1 .. MaxSerial]
NoUse == [address |-> 0, serial |-> 0]

(* usage is the serial of the last use of each live allocation.            *)
Buffers ==
  UNION {[usage : [live -> 0 .. MaxSerial], completed : SUBSET live,
          pinned : SUBSET live, next : 0 .. MaxSerial] : live \in SUBSET Capacities}

Default == [usage |-> [a \in {} |-> 0], completed |-> {}, pinned |-> {}, next |-> 0]

live(buffer) == DOMAIN buffer.usage

Latest(buffer) == CHOOSE a \in live(buffer) : \A b \in live(buffer) : b <= a

Sufficient(buffer, size) == \E a \in live(buffer) : size <= a

(* The buffer after a successful prepare, and the address it returns.      *)
prepare(buffer, size) ==
  IF Sufficient(buffer, size) THEN buffer
  ELSE [buffer EXCEPT !.usage =
          [a \in live(buffer) \union {size} |-> IF a = size THEN 0 ELSE buffer.usage[a]]]

(* Mutant: the older borrowers are forgotten.                               *)
begin_use_unpinned(buffer, a) ==
  LET exhausted == buffer.next = MaxSerial
  IN [buffer EXCEPT
        !.pinned = IF exhausted THEN @ \union {a} ELSE @,
        !.completed = @ \ {a},
        !.usage[a] = IF exhausted THEN @ ELSE buffer.next + 1,
        !.next = IF exhausted THEN @ ELSE @ + 1]

(* A use that follows one that was never confirmed pins the allocation: its *)
(* older borrowers may still be there.                                      *)
begin_use(buffer, a) ==
  LET abandoned == buffer.usage[a] # 0 /\ a \notin buffer.completed
      exhausted == buffer.next = MaxSerial
  IN [buffer EXCEPT
        !.pinned = IF abandoned \/ exhausted THEN @ \union {a} ELSE @,
        !.completed = @ \ {a},
        !.usage[a] = IF exhausted THEN @ ELSE buffer.next + 1,
        !.next = IF exhausted THEN @ ELSE @ + 1]

UseOf(buffer, a) ==
  IF buffer.next = MaxSerial THEN NoUse ELSE [address |-> a, serial |-> buffer.next + 1]

complete(buffer, use) ==
  [buffer EXCEPT !.completed =
     @ \union {a \in live(buffer) : a = use.address /\ buffer.usage[a] = use.serial}]

(* Mutant: what is pinned is not looked at.                                 *)
KeptUnpinned(buffer, published) ==
  {a \in live(buffer) : a \in {Latest(buffer), published} \/ a \notin buffer.completed}

Kept(buffer, published) ==
  {a \in live(buffer) :
     \/ a \in {Latest(buffer), published} \union buffer.pinned
     \/ a \notin buffer.completed}

reclaim(buffer, published) ==
  LET kept == Kept(buffer, published)
  IN [buffer EXCEPT !.usage = [a \in kept |-> buffer.usage[a]],
                    !.completed = @ \intersect kept,
                    !.pinned = @ \intersect kept]
=============================================================================
