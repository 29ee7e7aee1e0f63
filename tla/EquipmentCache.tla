--------------------------- MODULE EquipmentCache ---------------------------
(***************************************************************************)
(* The caches of equipment files in mods/geometry/src/native/              *)
(* equipment_cache.rs.  The game reads an equipment file into a cache, then *)
(* a constructor builds the model from it; both take the address of the    *)
(* cache from operands in the game's code.  The mod puts a buffer of the   *)
(* right size under each read by rewriting these operands, and frees old   *)
(* buffers when the constructor that used them has returned.               *)
(*                                                                         *)
(* The caches form two groups that work independently: one is read and     *)
(* built by the workers of a queue, the other synchronously.  Within a     *)
(* group one thing happens at a time.  A reset of the queue gives up the   *)
(* job under way, whose worker may go on for a while (orphans).            *)
(*                                                                         *)
(* Writing an operand may fail before or after the bytes are copied, so a  *)
(* failed retarget has changed some prefix of the operands of a cache, or    *)
(* all of them.                                                            *)
(* External: the game's readers and constructors, which return to the mod  *)
(* through frames that cannot unwind.  Left out: paths and sizes, the      *)
(* registers, the detection of the request type.                           *)
(***************************************************************************)
EXTENDS NativeBuffer

CONSTANTS
  Groups,       \* the ways of loading
  Async,        \* the group whose jobs a reset can give up
  Caches,       \* the caches, numbered
  group,        \* the group of each cache
  Sizes,        \* the capacities that the files of each cache need
  Operands,     \* number of operands in the code that hold the address of a cache
  MaxOrphans    \* bound: workers of given up jobs at a time

ASSUME CacheAssumption ==
  Async \in Groups /\ Caches \subseteq Nat /\ group \in [Caches -> Groups] /\ Sizes \in [Caches -> SUBSET Capacities] /\ Operands \in Nat \ {0}

VARIABLES
  buffers,      \* of each cache
  addresses,    \* the address the mod believes is in the code
  dirty,        \* the caches whose operands may differ from the original
  pending,      \* the use to be confirmed by the next constructor
  code,         \* the operands in the game's code
  valid,        \* the addresses whose content passes for a resource
  job,          \* what each group is doing, and the memory it works on
  snapshot,     \* pending of the group's caches when the constructor started
  orphans,      \* memory used by workers whose job was given up
  asked,        \* the caches the next constructor of their group will work on
  failing,      \* the caches whose last load failed and where no late worker wrote since
  mod           \* whether the hooks are installed

vars == <<buffers, addresses, dirty, pending, code, valid, job, snapshot, orphans, asked, failing, mod>>
modVars == <<buffers, addresses, dirty, pending, code>>

Refs == 1 .. Operands
CachesOf(g) == {c \in Caches : group[c] = g}
Idle == [step |-> "idle", at |-> {}]

TypeOK ==
  /\ \A c \in Caches : live(buffers[c]) \subseteq Capacities
  /\ addresses \in [Caches -> Addresses]
  /\ dirty \subseteq Caches
  /\ pending \in [Caches -> Uses \union {NoUse}]
  /\ code \in [Caches -> [Refs -> Addresses]]
  /\ \A c \in Caches : valid[c] \subseteq Addresses
  /\ job \in [Groups -> [step : {"idle", "reading", "building"}, at : SUBSET (Caches \X Addresses)]]
  /\ snapshot \in [Caches -> Uses \union {NoUse}]
  /\ orphans \subseteq [step : {"reading", "building"}, at : SUBSET (Caches \X Addresses)]
  /\ asked \subseteq Caches /\ failing \subseteq Caches
  /\ mod \in {"installed", "stopped", "dropped"}

Init ==
  /\ buffers = [c \in Caches |-> Default]
  /\ addresses = [c \in Caches |-> 0]
  /\ dirty = {}
  /\ pending = [c \in Caches |-> NoUse]
  /\ code = [c \in Caches |-> [r \in Refs |-> 0]]
  /\ valid = [c \in Caches |-> {}]
  /\ job = [g \in Groups |-> Idle]
  /\ snapshot = [c \in Caches |-> NoUse]
  /\ orphans = {}
  /\ asked = {} /\ failing = {}
  /\ mod = "installed"

-----------------------------------------------------------------------------
(* retarget: the operands in order, up to and including done.              *)
Retargeted(operands, done, a) == [r \in Refs |-> IF r <= done THEN a ELSE operands[r]]

(* The operands after a retarget to "to" that stopped after "done" writes   *)
(* and a rollback to "from" that stopped after "undone".                    *)
RolledBack(operands, to, from, done, undone) ==
  Retargeted(Retargeted(operands, done, to), undone, from)

(* Mutant: the buffer of the next load only.                                *)
invalidateLatest(c) ==
  /\ pending' = [pending EXCEPT ![c] = NoUse]
  /\ valid' = [valid EXCEPT ![c] = valid[c] \ {a \in live(buffers[c]) : a = Latest(buffers[c])}]
  /\ failing' = failing \union {c}
  /\ asked' = asked \union {c}
  /\ job' = [job EXCEPT ![group[c]] = Idle]

(* invalidate: every place a constructor might look at.                     *)
invalidate(c) ==
  /\ pending' = [pending EXCEPT ![c] = NoUse]
  /\ valid' = [valid EXCEPT ![c] = valid[c] \ (live(buffers[c]) \union {0})]
  /\ failing' = failing \union {c}
  /\ asked' = asked \union {c}
  /\ job' = [job EXCEPT ![group[c]] = Idle]

Publish(c, buffer, a) ==
  /\ pending' = [pending EXCEPT ![c] = UseOf(buffer, a)]
  /\ buffers' = [buffers EXCEPT ![c] = reclaim(begin_use(buffer, a), a)]
  /\ addresses' = [addresses EXCEPT ![c] = a]

(* A read starts: a buffer of the size is published in the code.            *)
Load(c, size) ==
  LET buffer == prepare(buffers[c], size)
      a == Latest(buffer)
  IN /\ mod = "installed" /\ job[group[c]].step = "idle"
     /\ Publish(c, buffer, a)
     /\ dirty' = IF a = addresses[c] THEN dirty ELSE dirty \union {c}
     /\ code' = IF a = addresses[c] THEN code ELSE [code EXCEPT ![c] = Retargeted(@, Operands, a)]
     /\ job' = [job EXCEPT ![group[c]] = [step |-> "reading", at |-> {<<c, a>>}]]
     /\ failing' = failing \ {c}
     /\ asked' = asked \union {c}
     /\ UNCHANGED <<valid, snapshot, orphans, mod>>

(* The size is unknown or the allocation fails: nothing was published.      *)
LoadFails(c) ==
  /\ mod = "installed" /\ job[group[c]].step = "idle"
  /\ invalidate(c)
  /\ UNCHANGED <<buffers, addresses, dirty, code, snapshot, orphans, mod>>

(* An operand could not be written; the rollback may fail too.              *)
RetargetFails(c, size) ==
  LET buffer == prepare(buffers[c], size)
      a == Latest(buffer)
  IN /\ mod = "installed" /\ job[group[c]].step = "idle"
     /\ a # addresses[c]
     /\ \E done, undone \in 0 .. Operands :
          /\ code' = [code EXCEPT ![c] = RolledBack(@, a, addresses[c], done, undone)]
          /\ \/ dirty' = dirty \union {c}
             \/ undone = Operands /\ addresses[c] = 0 /\ dirty' = dirty \ {c}
     /\ buffers' = [buffers EXCEPT ![c] = buffer]
     /\ invalidate(c)
     /\ UNCHANGED <<addresses, snapshot, orphans, mod>>

Reading(c) ==
  job[group[c]].step = "reading" /\ \E a \in Addresses : <<c, a>> \in job[group[c]].at

(* The file is in the buffer.                                               *)
ReadDone(c) ==
  /\ Reading(c)
  /\ valid' = [valid EXCEPT ![c] = @ \union {a \in Addresses : <<c, a>> \in job[group[c]].at}]
  /\ job' = [job EXCEPT ![group[c]] = Idle]
  /\ UNCHANGED <<modVars, snapshot, orphans, asked, failing, mod>>

(* The reader fails; the mod sees only the failure of a synchronous one.    *)
ReadFails(c) ==
  /\ Reading(c)
  /\ IF group[c] = Async
     THEN /\ job' = [job EXCEPT ![Async] = Idle]
          /\ UNCHANGED <<pending, valid, asked, failing>>
     ELSE invalidate(c)
  /\ UNCHANGED <<buffers, addresses, dirty, code, snapshot, orphans, mod>>

-----------------------------------------------------------------------------
(* A constructor works on the caches that were read for it, where the       *)
(* operands say that they are.  It skips what is no resource.               *)
AskedOf(g) == asked \intersect CachesOf(g)
SeenBy(g) == UNION {{c} \X ({code[c][r] : r \in Refs} \intersect valid[c]) : c \in AskedOf(g)}

BeginBuild(g) ==
  /\ mod = "installed" /\ job[g].step = "idle" /\ AskedOf(g) # {}
  /\ asked' = asked \ CachesOf(g)
  /\ job' = [job EXCEPT ![g] = [step |-> "building", at |-> SeenBy(g)]]
  /\ snapshot' = [c \in Caches |-> IF group[c] = g THEN pending[c] ELSE snapshot[c]]
  /\ UNCHANGED <<modVars, valid, orphans, failing, mod>>

Confirmed(g) ==
  {c \in CachesOf(g) : snapshot[c] # NoUse /\ pending[c] = snapshot[c]}

(* It returned: what it was seen to start with is confirmed.                *)
finish(g) ==
  /\ job[g].step = "building"
  /\ pending' = [c \in Caches |-> IF c \in Confirmed(g) THEN NoUse ELSE pending[c]]
  /\ buffers' = [c \in Caches |->
       IF c \in Confirmed(g)
       THEN reclaim(complete(buffers[c], snapshot[c]), addresses[c])
       ELSE buffers[c]]
  /\ snapshot' = [c \in Caches |-> IF group[c] = g THEN NoUse ELSE snapshot[c]]
  /\ job' = [job EXCEPT ![g] = Idle]
  /\ UNCHANGED <<addresses, dirty, code, valid, orphans, asked, failing, mod>>

(* The job never finishes for the mod: nothing of it is confirmed.          *)
GiveUp(g) ==
  /\ job[g] # Idle
  /\ Cardinality(orphans) < MaxOrphans
  /\ orphans' = orphans \union {job[g]}
  /\ job' = [job EXCEPT ![g] = Idle]
  /\ snapshot' = [c \in Caches |-> IF group[c] = g THEN NoUse ELSE snapshot[c]]

(* The game gives up its queue; the worker may still be at it.              *)
Reset ==
  /\ mod = "installed"
  /\ \/ GiveUp(Async)
     \/ job[Async] = Idle /\ UNCHANGED <<orphans, job, snapshot>>
  /\ pending' = [c \in Caches |-> IF group[c] = Async THEN NoUse ELSE pending[c]]
  /\ asked' = asked \ CachesOf(Async)
  /\ UNCHANGED <<buffers, addresses, dirty, code, valid, failing, mod>>

(* Such a worker ends; what it read is in the memory it was given.          *)
OrphanEnds ==
  \E o \in orphans :
    /\ orphans' = orphans \ {o}
    /\ valid' = [c \in Caches |->
         IF o.step = "reading" THEN valid[c] \union {a \in Addresses : <<c, a>> \in o.at} ELSE valid[c]]
    /\ failing' = IF o.step = "reading" THEN failing \ {at[1] : at \in o.at} ELSE failing
    /\ UNCHANGED <<modVars, job, snapshot, asked, mod>>

-----------------------------------------------------------------------------
(* The game has stopped: no job is under way any more.                      *)
Stop ==
  /\ mod = "installed" /\ orphans = {} /\ \A g \in Groups : job[g] = Idle
  /\ mod' = "stopped"
  /\ UNCHANGED <<modVars, valid, job, snapshot, orphans, asked, failing>>

(* restore puts the dirty caches back in their order.  A call that fails  *)
(* leaves the rest to a later one.                                          *)
PutBack(restored, operands) ==
  /\ mod = "stopped"
  /\ addresses' = [c \in Caches |-> IF c \in restored THEN 0 ELSE addresses[c]]
  /\ dirty' = dirty \ restored
  /\ code' = [c \in Caches |-> IF c \in restored THEN Retargeted(code[c], Operands, 0) ELSE operands[c]]
  /\ UNCHANGED <<buffers, pending, valid, job, snapshot, orphans, asked, failing, mod>>

restore == dirty # {} /\ PutBack(dirty, code)

RestoreFails ==
  \E stuck \in dirty, done \in 0 .. Operands :
    PutBack({c \in dirty : c < stuck}, [code EXCEPT ![stuck] = Retargeted(@, done, 0)])

(* Drop: the buffers go, except where operands may still point at them.     *)
Drop ==
  /\ mod = "stopped"
  /\ mod' = "dropped"
  /\ buffers' = [c \in Caches |-> IF c \in dirty THEN buffers[c] ELSE Default]
  /\ UNCHANGED <<addresses, dirty, pending, code, valid, job, snapshot, orphans, asked, failing>>

Dropped == mod = "dropped" /\ UNCHANGED vars

Next ==
  \/ \E c \in Caches : \E size \in Sizes[c] : Load(c, size) \/ RetargetFails(c, size)
  \/ \E c \in Caches : LoadFails(c) \/ ReadDone(c) \/ ReadFails(c)
  \/ \E g \in Groups : BeginBuild(g) \/ finish(g)
  \/ Reset \/ OrphanEnds
  \/ Stop \/ Drop \/ Dropped
  \/ restore \/ RestoreFails

Spec == Init /\ [][Next]_vars

-----------------------------------------------------------------------------
(* The memory that someone works on: the game's code holds it in operands,  *)
(* readers and constructors were given it, also those given up.             *)
Borrowed(c) ==
  {a \in Addresses : \E b \in {job[g] : g \in Groups} \union orphans : <<c, a>> \in b.at}
InCode(c) == {code[c][r] : r \in Refs}

(* What the game's code points at, and what a reader or constructor works   *)
(* on, is never freed: not by a reclaim, whatever jobs were given up or      *)
(* retargets failed before, and not by the drop of a mod whose operands      *)
(* could not be restored (equipment_cache.rs prepare, finish, drop).  And an  *)
(* allocation counts as returned only when nobody works on it any more,      *)
(* unless it is pinned: a job that was given up is never taken for one that  *)
(* finished (cache.rs complete, begin_use).                                  *)
(* A load that is to be confirmed is the one all operands show; a load that  *)
(* failed leaves no operand on content that passes for a resource, so the    *)
(* constructor that follows skips it, unless a worker that was given up      *)
(* wrote one late (equipment_cache.rs prepare, failed).                      *)
NativeMemoryLive ==
  /\ TypeOK
  /\ \A c \in Caches : (InCode(c) \union Borrowed(c)) \ {0} \subseteq live(buffers[c])
  /\ \A c \in Caches : Borrowed(c) \intersect buffers[c].completed \subseteq buffers[c].pinned
  /\ mod = "installed" => \A c \in Caches :
       /\ pending[c] # NoUse => InCode(c) = {pending[c].address} /\ addresses[c] = pending[c].address
       /\ c \in failing => InCode(c) \intersect valid[c] = {}
=============================================================================
