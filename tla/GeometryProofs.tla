---------------------------- MODULE GeometryProofs ----------------------------
(***************************************************************************)
(* Proofs about the native memory of the geometry mod: what the operations *)
(* of a buffer keep, and that neither the equipment caches nor the stage   *)
(* workspaces ever free what the game may still use, for any capacities,   *)
(* serial numbers, caches, groups, operands and patches.                   *)
(***************************************************************************)
EXTENDS EquipmentCache, StageCache, TLAPS

USE BufferAssumption DEF Capacities, Addresses

------------------------------------------------------------------------------
(* Buffers (cache.rs)                                                         *)

\* A buffer that was made by the operations below: the largest allocation stays.
BufferOK(b) ==
  /\ b \in Buffers
  /\ live(b) # {} => \E top \in live(b) : \A a \in live(b) : a <= top

\* An allocation that was given out: not taken for returned, or pinned.
Out(b, a) == a \notin b.completed \/ a \in b.pinned
Given(b, a) == b.usage[a] # 0 \/ a \in b.pinned

\* What a buffer is made of.
LEMMA BufferParts ==
    ASSUME NEW b, BufferOK(b)
    PROVE  /\ live(b) \subseteq Capacities
           /\ b.usage \in [live(b) -> 0 .. MaxSerial]
           /\ b.completed \subseteq live(b) /\ b.pinned \subseteq live(b)
           /\ b.next \in 0 .. MaxSerial
           /\ b = [usage |-> b.usage, completed |-> b.completed, pinned |-> b.pinned, next |-> b.next]
<1>1. PICK L \in SUBSET Capacities :
        b \in [usage : [L -> 0 .. MaxSerial], completed : SUBSET L, pinned : SUBSET L,
               next : 0 .. MaxSerial]
  BY DEF BufferOK, Buffers
<1>2. L = live(b)
  BY <1>1 DEF live
<1> QED
  BY <1>1, <1>2

\* A record of these parts is a buffer.
LEMMA PartsMakeBuffer ==
    ASSUME NEW L \in SUBSET Capacities, NEW usage \in [L -> 0 .. MaxSerial],
           NEW completed \in SUBSET L, NEW pinned \in SUBSET L, NEW next \in 0 .. MaxSerial
    PROVE  /\ [usage |-> usage, completed |-> completed, pinned |-> pinned, next |-> next] \in Buffers
           /\ live([usage |-> usage, completed |-> completed, pinned |-> pinned, next |-> next]) = L
BY DEF Buffers, live

LEMMA DefaultOK == BufferOK(Default) /\ live(Default) = {}
<1>1. [a \in {} |-> 0] \in [{} -> 0 .. MaxSerial] /\ 0 \in 0 .. MaxSerial
  OBVIOUS
<1>2. Default = [usage |-> [a \in {} |-> 0], completed |-> {}, pinned |-> {}, next |-> 0]
  BY DEF Default
<1>3. Default \in Buffers /\ live(Default) = {}
  BY <1>1, <1>2, PartsMakeBuffer
<1> QED
  BY <1>3 DEF BufferOK

\* The largest allocation is one of them, and the only one that is the largest.
LEMMA LatestIs ==
    ASSUME NEW b, BufferOK(b), live(b) # {}
    PROVE  /\ Latest(b) \in live(b)
           /\ \A a \in live(b) : a <= Latest(b)
           /\ \A top \in live(b) : (\A a \in live(b) : a <= top) => top = Latest(b)
<1> DEFINE IsTop(x) == x \in live(b) /\ \A a \in live(b) : a <= x
<1>1. \E x : IsTop(x)
  BY DEF BufferOK
<1>2. Latest(b) = CHOOSE x : IsTop(x)
  BY DEF Latest
<1>3. IsTop(Latest(b))
  BY <1>1, <1>2
<1> QED
  BY <1>3, BufferParts

\* Growing leaves what is there alone; a new allocation is larger than all of them.
LEMMA PrepareKeeps ==
    ASSUME NEW b, BufferOK(b), NEW size \in Capacities, NEW p, p = prepare(b, size)
    PROVE  /\ BufferOK(p) /\ Latest(p) \in live(p) /\ live(b) \subseteq live(p)
           /\ \A a \in live(b) : p.usage[a] = b.usage[a]
           /\ p.completed = b.completed /\ p.pinned = b.pinned /\ p.next = b.next
           /\ \/ p = b
              \/ /\ live(p) = live(b) \union {Latest(p)}
                 /\ \A a \in live(b) : a < Latest(p)
<1>1. CASE Sufficient(b, size)
  BY <1>1, LatestIs DEF prepare, Sufficient
<1>2. CASE ~Sufficient(b, size)
  <2>1. p = [b EXCEPT !.usage = [a \in live(b) \union {size} |-> IF a = size THEN 0 ELSE b.usage[a]]]
    BY <1>2 DEF prepare
  <2>2. /\ live(p) = live(b) \union {size}
        /\ p.usage = [a \in live(b) \union {size} |-> IF a = size THEN 0 ELSE b.usage[a]]
        /\ p.completed = b.completed /\ p.pinned = b.pinned /\ p.next = b.next
    BY <2>1 DEF live, BufferOK, Buffers
  <2>3. \A a \in live(b) : a < size
    BY <1>2, BufferParts DEF Sufficient
  <2>4. p \in Buffers
    <3>1. p.usage \in [live(p) -> 0 .. MaxSerial]
      BY <2>2, BufferParts
    <3>2. p = [usage |-> p.usage, completed |-> p.completed, pinned |-> p.pinned, next |-> p.next]
      BY <2>1 DEF BufferOK, Buffers
    <3> QED
      BY <2>2, <3>1, <3>2, BufferParts DEF Buffers
  <2>5. BufferOK(p)
    BY <2>2, <2>3, <2>4, BufferParts DEF BufferOK
  <2>6. Latest(p) = size
    BY <2>2, <2>3, <2>5, LatestIs, BufferParts
  <2> QED
    BY <2>2, <2>3, <2>5, <2>6
<1> QED
  BY <1>1, <1>2

\* A use that begins is not returned, and pins what may still be borrowed.
LEMMA BeginUseKeeps ==
    ASSUME NEW b, BufferOK(b), NEW a \in live(b), NEW u, u = begin_use(b, a)
    PROVE  /\ BufferOK(u) /\ live(u) = live(b)
           /\ \A x \in live(b) \ {a} : u.usage[x] = b.usage[x]
           /\ u.completed = b.completed \ {a}
           /\ b.pinned \subseteq u.pinned
           /\ Given(u, a)
           /\ Given(b, a) /\ Out(b, a) => a \in u.pinned
<1> USE BufferParts DEF live
<1> DEFINE abandoned == b.usage[a] # 0 /\ a \notin b.completed
           exhausted == b.next = MaxSerial
<1>1. u = [b EXCEPT !.pinned = IF abandoned \/ exhausted THEN @ \union {a} ELSE @,
                    !.completed = @ \ {a},
                    !.usage[a] = IF exhausted THEN @ ELSE b.next + 1,
                    !.next = IF exhausted THEN @ ELSE @ + 1]
  BY DEF begin_use
<1>2. /\ u.pinned = IF abandoned \/ exhausted THEN b.pinned \union {a} ELSE b.pinned
      /\ u.completed = b.completed \ {a}
      /\ u.usage = [b.usage EXCEPT ![a] = IF exhausted THEN @ ELSE b.next + 1]
      /\ u.next = IF exhausted THEN b.next ELSE b.next + 1
      /\ u = [usage |-> u.usage, completed |-> u.completed, pinned |-> u.pinned, next |-> u.next]
  <2> DEFINE usage == [b.usage EXCEPT ![a] = IF exhausted THEN @ ELSE b.next + 1]
             completed == b.completed \ {a}
             pinned == IF abandoned \/ exhausted THEN b.pinned \union {a} ELSE b.pinned
             next == IF exhausted THEN b.next ELSE b.next + 1
  <2>1. u = [usage |-> usage, completed |-> completed, pinned |-> pinned, next |-> next]
    <3>1. b = [usage |-> b.usage, completed |-> b.completed, pinned |-> b.pinned, next |-> b.next]
      BY BufferParts
    <3>2. u = [b EXCEPT !.pinned = pinned, !.completed = completed, !.usage = usage, !.next = next]
      BY <1>1, <3>1
    <3> HIDE DEF usage, completed, pinned, next
    <3> QED
      BY <3>1, <3>2
  <2> HIDE DEF usage, completed, pinned, next
  <2>2. u.usage = usage /\ u.completed = completed /\ u.pinned = pinned /\ u.next = next
    BY <2>1
  <2> QED
    BY <2>1, <2>2 DEF usage, completed, pinned, next
<1>3. live(u) = live(b) /\ u.usage \in [live(b) -> 0 .. MaxSerial] /\ u.next \in 0 .. MaxSerial
  BY <1>2
<1>4. u \in Buffers
  BY <1>2, <1>3 DEF Buffers
<1> QED
  BY <1>2, <1>3, <1>4 DEF BufferOK, Given, Out

\* The use names the allocation, if there is a number left for it.
LEMMA UseIs ==
    ASSUME NEW b, BufferOK(b), NEW a \in Capacities, NEW use, use = UseOf(b, a)
    PROVE  use \in Uses \union {NoUse} /\ (use # NoUse => use.address = a)
BY BufferParts DEF UseOf, Uses, NoUse

\* Only the allocation of the confirmed use may count as returned.
LEMMA CompleteKeeps ==
    ASSUME NEW b, BufferOK(b), NEW use, NEW d, d = complete(b, use)
    PROVE  /\ BufferOK(d) /\ live(d) = live(b)
           /\ d.usage = b.usage /\ d.pinned = b.pinned /\ d.next = b.next
           /\ b.completed \subseteq d.completed
           /\ d.completed \subseteq b.completed \union {use.address}
<1> USE BufferParts DEF live
<1>1. /\ d.usage = b.usage /\ d.pinned = b.pinned /\ d.next = b.next
      /\ d.completed = b.completed \union
                         {a \in live(b) : a = use.address /\ b.usage[a] = use.serial}
      /\ d = [usage |-> d.usage, completed |-> d.completed, pinned |-> d.pinned, next |-> d.next]
  BY DEF complete, BufferOK, Buffers
<1>2. d \in Buffers
  BY <1>1 DEF Buffers
<1> QED
  BY <1>1, <1>2 DEF BufferOK

\* A reclaim frees neither the largest allocation, nor the published one, nor one that
\* was given out.
LEMMA ReclaimKeeps ==
    ASSUME NEW b, BufferOK(b), NEW a, NEW r, r = reclaim(b, a)
    PROVE  /\ BufferOK(r) /\ live(r) \subseteq live(b)
           /\ \A x \in live(b) : x = a \/ Out(b, x) => x \in live(r)
           /\ \A x \in live(r) : r.usage[x] = b.usage[x]
           /\ r.completed = b.completed \intersect live(r)
           /\ r.pinned = b.pinned \intersect live(r)
           /\ live(b) # {} => Latest(b) \in live(r) /\ Latest(r) = Latest(b)
<1> USE BufferParts
<1> DEFINE kept == Kept(b, a)
<1>1. /\ r.usage = [x \in kept |-> b.usage[x]] /\ r.next = b.next
      /\ r.completed = b.completed \intersect kept /\ r.pinned = b.pinned \intersect kept
      /\ r = [usage |-> r.usage, completed |-> r.completed, pinned |-> r.pinned, next |-> r.next]
  <2> DEFINE usage == [x \in kept |-> b.usage[x]]
             completed == b.completed \intersect kept
             pinned == b.pinned \intersect kept
  <2> HIDE DEF kept
  <2>1. r = [b EXCEPT !.usage = usage, !.completed = @ \intersect kept, !.pinned = @ \intersect kept]
    BY DEF reclaim, kept
  <2>2. r = [usage |-> usage, completed |-> completed, pinned |-> pinned, next |-> b.next]
    <3>1. b = [usage |-> b.usage, completed |-> b.completed, pinned |-> b.pinned, next |-> b.next]
      BY BufferParts
    <3> HIDE DEF usage
    <3> QED
      BY <2>1, <3>1
  <2> HIDE DEF usage, completed, pinned
  <2>3. r.usage = usage /\ r.completed = completed /\ r.pinned = pinned /\ r.next = b.next
    BY <2>2
  <2> QED
    BY <2>2, <2>3 DEF usage, completed, pinned
<1>2. live(r) = kept /\ kept \subseteq live(b)
  BY <1>1 DEF live, Kept
<1>3. r \in Buffers
  <2>1. r.usage \in [kept -> 0 .. MaxSerial] /\ kept \subseteq Capacities
    BY <1>1, <1>2
  <2> QED
    BY <1>1, <2>1 DEF Buffers
<1>4. live(b) # {} => Latest(b) \in kept
  BY LatestIs DEF Kept
<1>5. BufferOK(r)
  BY <1>2, <1>3, <1>4, LatestIs DEF BufferOK
<1>6. live(b) # {} => Latest(r) = Latest(b)
  BY <1>2, <1>4, <1>5, LatestIs
<1> QED
  BY <1>1, <1>2, <1>4, <1>5, <1>6 DEF Kept, Out

\* A buffer that is lent: the published allocation is the largest one and was given
\* out, and nothing that was given out before is lost.
LEMMA LendKeeps ==
    ASSUME NEW b, BufferOK(b), NEW size \in Capacities,
           NEW m, m = prepare(b, size), NEW a, a = Latest(m),
           NEW n, n = reclaim(begin_use(m, a), a)
    PROVE  /\ BufferOK(n) /\ a \in live(n) /\ Latest(n) = a
           /\ a \notin n.completed /\ Given(n, a)
           /\ live(n) \subseteq live(b) \union {a}
           /\ \A x \in live(b) : x <= a /\ (Out(b, x) => x \in live(n) /\ Out(n, x))
           /\ \A x \in live(b) \intersect live(n) : Given(b, x) => Given(n, x)
           /\ a \in live(b) /\ Given(b, a) /\ Out(b, a) => a \in n.pinned
           /\ a \notin live(b) => \A x \in live(b) : x < a
<1> DEFINE u == begin_use(m, a)
<1>1. /\ BufferOK(m) /\ a \in live(m) /\ live(b) \subseteq live(m)
      /\ \A x \in live(b) : m.usage[x] = b.usage[x]
      /\ m.completed = b.completed /\ m.pinned = b.pinned
      /\ \/ m = b
         \/ live(m) = live(b) \union {a} /\ \A x \in live(b) : x < a
  BY PrepareKeeps
<1>2. /\ BufferOK(u) /\ live(u) = live(m)
      /\ \A x \in live(m) \ {a} : u.usage[x] = m.usage[x]
      /\ u.completed = m.completed \ {a}
      /\ m.pinned \subseteq u.pinned
      /\ Given(u, a)
      /\ Given(m, a) /\ Out(m, a) => a \in u.pinned
  BY <1>1, BeginUseKeeps
<1>3. /\ BufferOK(n) /\ live(n) \subseteq live(u)
      /\ \A x \in live(u) : x = a \/ Out(u, x) => x \in live(n)
      /\ \A x \in live(n) : n.usage[x] = u.usage[x]
      /\ n.completed = u.completed \intersect live(n)
      /\ n.pinned = u.pinned \intersect live(n)
      /\ Latest(n) = Latest(u)
  <2> HIDE DEF u
  <2> QED
    BY <1>1, <1>2, ReclaimKeeps DEF u
<1>4. \A x \in live(m) : x <= a
  BY <1>1, LatestIs
<1>5. Latest(u) = a
  BY <1>1, <1>2, <1>4, LatestIs
<1> HIDE DEF u
<1>6. \A x \in live(b) : Out(b, x) => x \in live(n) /\ Out(n, x)
  BY <1>1, <1>2, <1>3 DEF Out
<1>7. a \in live(n) /\ a \notin n.completed /\ Given(n, a)
  BY <1>1, <1>2, <1>3 DEF Given
<1>8. \A x \in live(b) \intersect live(n) : Given(b, x) => Given(n, x)
  BY <1>1, <1>2, <1>3, <1>7 DEF Given
<1>9. a \in live(b) /\ Given(b, a) /\ Out(b, a) => a \in n.pinned
  BY <1>1, <1>2, <1>3, <1>7 DEF Given, Out
<1>10. live(n) \subseteq live(b) \union {a}
  BY <1>1, <1>2, <1>3
<1> QED
  BY <1>1, <1>3, <1>4, <1>5, <1>6, <1>7, <1>8, <1>9, <1>10

\* A use of the published allocation is confirmed: only that may count as returned.
LEMMA ConfirmKeeps ==
    ASSUME NEW b, BufferOK(b), NEW use, use.address \in live(b),
           NEW n, n = reclaim(complete(b, use), use.address)
    PROVE  /\ BufferOK(n) /\ use.address \in live(n) /\ live(n) \subseteq live(b)
           /\ Latest(n) = Latest(b) /\ Latest(b) \in live(n)
           /\ \A x \in live(b) \ {use.address} : Out(b, x) => x \in live(n) /\ Out(n, x)
           /\ use.address \in b.pinned => Out(n, use.address)
           /\ \A x \in live(n) : Given(b, x) => Given(n, x)
<1> DEFINE d == complete(b, use)
<1>1. /\ BufferOK(d) /\ live(d) = live(b)
      /\ d.usage = b.usage /\ d.pinned = b.pinned
      /\ d.completed \subseteq b.completed \union {use.address}
  BY CompleteKeeps
<1> HIDE DEF d
<1>2. /\ BufferOK(n) /\ live(n) \subseteq live(d)
      /\ \A x \in live(d) : x = use.address \/ Out(d, x) => x \in live(n)
      /\ \A x \in live(n) : n.usage[x] = d.usage[x]
      /\ n.completed = d.completed \intersect live(n)
      /\ n.pinned = d.pinned \intersect live(n)
      /\ Latest(d) \in live(n) /\ Latest(n) = Latest(d)
  BY <1>1, ReclaimKeeps DEF d
<1>3. Latest(d) = Latest(b)
  BY <1>1, LatestIs
<1>4. \A x \in live(b) \ {use.address} : Out(b, x) => Out(d, x)
  BY <1>1 DEF Out
<1> QED
  BY <1>1, <1>2, <1>3, <1>4 DEF Out, Given

------------------------------------------------------------------------------
(* Equipment caches (equipment_cache.rs)                                      *)

\* Someone of the game works on an allocation of a cache.
At(c, a) ==
  \/ \E g \in Groups : <<c, a>> \in job[g].at
  \/ \E o \in orphans : <<c, a>> \in o.at

CacheTypes ==
  /\ TypeOK
  /\ DOMAIN buffers = Caches /\ \A c \in Caches : BufferOK(buffers[c])
  /\ valid \in [Caches -> SUBSET Addresses]

\* A job works on the caches of its group, and nothing is read into a cache whose
\* load failed; only the queue has jobs that were given up.
JobInv ==
  /\ \A g \in Groups, c \in Caches, a \in Addresses : <<c, a>> \in job[g].at =>
       group[c] = g /\ job[g].step # "idle" /\ (job[g].step = "reading" => c \notin failing)
  /\ \A g \in Groups : job[g].step = "building" => asked \intersect CachesOf(g) = {}
  /\ \A g \in Groups : job[g].step = "idle" => job[g] = Idle
  /\ \A o \in orphans, c \in Caches, a \in Addresses : <<c, a>> \in o.at => group[c] = Async
  /\ mod # "installed" => orphans = {} /\ \A g \in Groups : job[g] = Idle

\* What the game can reach is allocated; what someone works on was given out.
MemoryInv == \A c \in Caches, a \in Capacities :
  /\ a \in InCode(c) => a \in live(buffers[c])
  /\ At(c, a) => a \in live(buffers[c]) /\ Out(buffers[c], a) /\ Given(buffers[c], a)

\* Content is in the largest allocation or an older one, and was read by a use of it.
ValidInv == mod # "dropped" => \A c \in Caches : \A v \in valid[c] \ {0} :
  /\ \E a \in live(buffers[c]) : v <= a
  /\ v \in live(buffers[c]) => Given(buffers[c], v)

\* What the next constructor finds is not returned yet, and no failed load.
AskedInv == mod = "installed" => \A c \in Caches, a \in Addresses :
  a \in InCode(c) \intersect valid[c] =>
    c \notin failing /\ (c \in asked => Out(buffers[c], a))

\* The operands differ from what the mod believes only while a larger allocation than
\* that is there, and from the original only if they are marked.
CodeInv == \A c \in Caches :
  /\ c \notin dirty => InCode(c) = {0} /\ addresses[c] = 0
  /\ mod # "dropped" => addresses[c] \in live(buffers[c]) \union {0}
  /\ mod = "installed" /\ live(buffers[c]) # {} /\ addresses[c] = Latest(buffers[c]) =>
       InCode(c) = {addresses[c]}

\* The use to be confirmed is of the published allocation, and whoever was given up
\* while working on that has pinned it.
PendingInv == mod = "installed" => \A c \in Caches : pending[c] # NoUse =>
  /\ InCode(c) = {pending[c].address} /\ addresses[c] = pending[c].address
  /\ \A o \in orphans : <<c, pending[c].address>> \in o.at =>
       pending[c].address \in buffers[c].pinned

CacheInv ==
  /\ CacheTypes
  /\ JobInv
  /\ MemoryInv
  /\ ValidInv
  /\ AskedInv
  /\ CodeInv
  /\ PendingInv

\* What the steps below expand.
USE CacheAssumption DEF CachesOf, modVars

LEMMA BorrowedAt == ASSUME NEW c PROVE Borrowed(c) = {a \in Addresses : At(c, a)}
BY DEF Borrowed, At

\* Nothing is allocated and nobody is at work.
LEMMA CacheInit == Init => CacheInv
<1> SUFFICES ASSUME Init PROVE CacheInv
  OBVIOUS
<1>1. CacheTypes
  BY DefaultOK DEF Init, CacheTypes, TypeOK, Refs, Idle
<1>2. \A c \in Caches : InCode(c) = {0}
  BY DEF Init, InCode, Refs
<1>3. \A c \in Caches : \A a : ~At(c, a)
  BY DEF Init, At, Idle
<1> QED
  BY <1>1, <1>2, <1>3, DefaultOK
     DEF Init, CacheInv, JobInv, MemoryInv, ValidInv, AskedInv, CodeInv, PendingInv, Idle


\* The invariant speaks of the present state only.
LEMMA CacheStutter == ASSUME CacheInv, UNCHANGED vars PROVE CacheInv'
<1> USE DEF vars, CacheInv
<1>1. CacheTypes'
  BY DEF CacheTypes, TypeOK
<1>2. JobInv'
  BY DEF JobInv
<1>3. MemoryInv'
  BY DEF MemoryInv, At, InCode
<1>4. ValidInv'
  BY DEF ValidInv
<1>5. AskedInv'
  BY DEF AskedInv, InCode
<1>6. CodeInv'
  BY DEF CodeInv, InCode
<1>7. PendingInv'
  BY DEF PendingInv, InCode
<1> QED
  BY <1>1, <1>2, <1>3, <1>4, <1>5, <1>6, <1>7

\* What every step starts from.
LEMMA CacheParts ==
    ASSUME CacheInv
    PROVE  /\ TypeOK /\ JobInv /\ MemoryInv /\ ValidInv /\ AskedInv /\ CodeInv /\ PendingInv
           /\ DOMAIN buffers = Caches /\ valid \in [Caches -> SUBSET Addresses]
           /\ \A c \in Caches : BufferOK(buffers[c]) /\ live(buffers[c]) \subseteq Capacities
           /\ \A c \in Caches : InCode(c) \subseteq live(buffers[c]) \union {0}
           /\ \A g \in Groups : job[g].step # "idle" => mod = "installed"
<1>1. TypeOK /\ \A c \in Caches : BufferOK(buffers[c]) /\ live(buffers[c]) \subseteq Capacities
  BY BufferParts DEF CacheInv, CacheTypes
<1>2. \A c \in Caches : InCode(c) \subseteq Addresses
  BY <1>1 DEF TypeOK, InCode
<1>3. \A c \in Caches : InCode(c) \subseteq live(buffers[c]) \union {0}
  BY <1>2 DEF CacheInv, MemoryInv
<1>4. \A g \in Groups : job[g].step # "idle" => mod = "installed"
  BY DEF CacheInv, JobInv, Idle
<1> QED
  BY <1>1, <1>3, <1>4 DEF CacheInv, CacheTypes

\* A group that is done.
LEMMA JobDone ==
    ASSUME CacheInv, NEW g \in Groups, job' = [job EXCEPT ![g] = Idle]
    PROVE  /\ job'[g] = Idle /\ Idle.at = {} /\ Idle.step = "idle"
           /\ \A h \in Groups \ {g} : job'[h] = job[h]
           /\ \A h \in Groups : job'[h].at \subseteq job[h].at
BY CacheParts DEF TypeOK, Idle

\* It leaves the other group alone.
LEMMA JobDoneInv ==
    ASSUME CacheInv, NEW g \in Groups, job' = [job EXCEPT ![g] = Idle],
           mod = "installed", mod' = mod,
           \A c \in Caches : group[c] # g => (c \in failing' => c \in failing) /\ (c \in asked' => c \in asked),
           \A o \in orphans', c \in Caches, a \in Addresses : <<c, a>> \in o.at => group[c] = Async
    PROVE  JobInv'
<1>1. /\ job'[g] = Idle /\ Idle.at = {} /\ Idle.step = "idle"
      /\ \A h \in Groups \ {g} : job'[h] = job[h]
  BY JobDone
<1>2. JobInv
  BY CacheParts
<1>3. \A h \in Groups, c \in Caches, a \in Addresses : <<c, a>> \in job'[h].at =>
        group[c] = h /\ job'[h].step # "idle" /\ (job'[h].step = "reading" => c \notin failing')
  <2> TAKE h \in Groups, c \in Caches, a \in Addresses
  <2>1. CASE h = g
    BY <1>1, <2>1
  <2>2. CASE h # g
    BY <1>1, <1>2, <2>2 DEF JobInv
  <2> QED
    BY <2>1, <2>2
<1>4. \A h \in Groups : job'[h].step = "building" => asked' \intersect CachesOf(h) = {}
  <2> TAKE h \in Groups
  <2>1. CASE h = g
    BY <1>1, <2>1
  <2>2. CASE h # g
    <3>1. job[h].step = "building" => \A c \in CachesOf(h) : c \notin asked
      BY <1>2 DEF JobInv
    <3>2. job'[h].step = "building" => \A c \in CachesOf(h) : c \notin asked'
      BY <1>1, <2>2, <3>1
    <3> QED
      BY <3>2
  <2> QED
    BY <2>1, <2>2
<1>5. \A h \in Groups : job'[h].step = "idle" => job'[h] = Idle
  BY <1>1, <1>2 DEF JobInv
<1> QED
  BY <1>3, <1>4, <1>5 DEF JobInv

\* A load that failed before anything was published.
LEMMA InvalidateStep ==
    ASSUME CacheInv, NEW c \in Caches, mod = "installed", job[group[c]].step # "building",
           invalidate(c), UNCHANGED <<buffers, addresses, dirty, code, snapshot, orphans, mod>>
    PROVE  CacheInv'
<1> USE CacheParts
<1>1. /\ job' = [job EXCEPT ![group[c]] = Idle]
      /\ valid' = [valid EXCEPT ![c] = valid[c] \ (live(buffers[c]) \union {0})]
      /\ pending' = [pending EXCEPT ![c] = NoUse]
      /\ failing' = failing \union {c} /\ asked' = asked \union {c}
  BY DEF invalidate
<1>2. TypeOK'
  BY <1>1 DEF TypeOK, Idle
<1>3. CacheTypes'
  BY <1>1, <1>2 DEF CacheTypes
<1>4. JobInv'
  <2>1. \A d \in Caches : group[d] # group[c] =>
          (d \in failing' => d \in failing) /\ (d \in asked' => d \in asked)
    BY <1>1
  <2>2. \A o \in orphans', d \in Caches, a \in Addresses : <<d, a>> \in o.at => group[d] = Async
    BY DEF JobInv
  <2> QED
    BY <1>1, <2>1, <2>2, JobDoneInv
<1>5. \A d \in Caches : \A a : At(d, a)' => At(d, a)
  BY <1>1, JobDone DEF At
<1>6. \A d \in Caches : InCode(d)' = InCode(d)
  BY DEF InCode
<1>7. MemoryInv'
  BY <1>5, <1>6 DEF MemoryInv
<1>8. ValidInv'
  BY <1>1 DEF ValidInv
<1>9. AskedInv'
  BY <1>1, <1>6 DEF AskedInv
<1>10. CodeInv'
  BY <1>6 DEF CodeInv
<1>11. PendingInv'
  BY <1>1, <1>6 DEF PendingInv, TypeOK
<1> QED
  BY <1>3, <1>4, <1>7, <1>8, <1>9, <1>10, <1>11 DEF CacheInv

LEMMA LoadFailsStep == ASSUME CacheInv, NEW c \in Caches, LoadFails(c) PROVE CacheInv'
BY InvalidateStep DEF LoadFails

\* The content arrives in memory that was given out for it.
LEMMA ReadDoneStep == ASSUME CacheInv, NEW c \in Caches, ReadDone(c) PROVE CacheInv'
<1> USE CacheParts
<1> DEFINE g == group[c]
<1>1. /\ job[g].step = "reading" /\ mod = "installed" /\ g \in Groups
      /\ valid' = [valid EXCEPT ![c] = @ \union {a \in Addresses : <<c, a>> \in job[g].at}]
      /\ job' = [job EXCEPT ![g] = Idle]
      /\ UNCHANGED <<modVars, snapshot, orphans, asked, failing, mod>>
      /\ c \notin failing
  BY DEF ReadDone, Reading, JobInv
<1>2. TypeOK'
  BY <1>1 DEF TypeOK, Idle
<1>3. CacheTypes'
  BY <1>1, <1>2 DEF CacheTypes
<1>4. JobInv'
  BY <1>1, JobDoneInv DEF JobInv
<1>5. \A d \in Caches : \A a : At(d, a)' => At(d, a)
  BY <1>1, JobDone DEF At
<1>6. \A d \in Caches : InCode(d)' = InCode(d)
  BY <1>1 DEF InCode
<1>7. \A a \in Addresses : <<c, a>> \in job[g].at => At(c, a)
  BY <1>1 DEF At
<1>8. \A a \in valid'[c] \ {0} : a \in valid[c] \/ (a \in Capacities /\ At(c, a))
  <2>1. valid'[c] = valid[c] \union {a \in Addresses : <<c, a>> \in job[g].at}
    BY <1>1
  <2> QED
    BY <1>7, <2>1
<1>9. MemoryInv'
  BY <1>1, <1>5, <1>6 DEF MemoryInv
<1>10. ValidInv'
  <2>1. /\ buffers' = buffers /\ mod' = mod /\ mod = "installed"
        /\ \A d \in Caches \ {c} : valid'[d] = valid[d]
    BY <1>1
  <2>2. \A a \in Capacities : At(c, a) => a \in live(buffers[c]) /\ Given(buffers[c], a)
    BY DEF MemoryInv
  <2> SUFFICES ASSUME NEW d \in Caches, NEW v \in valid'[d] \ {0}
               PROVE  /\ \E a \in live(buffers[d]) : v <= a
                      /\ v \in live(buffers[d]) => Given(buffers[d], v)
    BY <2>1 DEF ValidInv
  <2>3. CASE v \in valid[d]
    BY <2>1, <2>3 DEF ValidInv
  <2>4. CASE d = c /\ v \in Capacities /\ At(c, v)
    BY <2>2, <2>4, BufferAssumption
  <2> QED
    BY <1>8, <2>1, <2>3, <2>4
<1>11. AskedInv'
  <2>1. \A a \in valid'[c] : a \in valid[c] \/ a = 0 \/ Out(buffers[c], a)
    BY <1>8 DEF MemoryInv
  <2>2. Out(buffers[c], 0)
    BY BufferParts DEF Out
  <2> QED
    BY <1>1, <1>6, <2>1, <2>2 DEF AskedInv
<1>12. CodeInv'
  BY <1>1, <1>6 DEF CodeInv
<1>13. PendingInv'
  BY <1>1, <1>6 DEF PendingInv
<1> QED
  BY <1>3, <1>4, <1>9, <1>10, <1>11, <1>12, <1>13 DEF CacheInv

\* A reader that failed: a synchronous one is a failed load, the other is not seen.
LEMMA ReadFailsStep == ASSUME CacheInv, NEW c \in Caches, ReadFails(c) PROVE CacheInv'
<1> USE CacheParts
<1>1. job[group[c]].step = "reading" /\ group[c] \in Groups /\ mod = "installed"
  BY DEF ReadFails, Reading
<1>2. CASE group[c] # Async
  BY <1>1, <1>2, InvalidateStep DEF ReadFails
<1>3. CASE group[c] = Async
  <2>1. /\ job' = [job EXCEPT ![Async] = Idle]
        /\ UNCHANGED <<modVars, valid, snapshot, orphans, asked, failing, mod>>
    BY <1>3 DEF ReadFails
  <2>2. CacheTypes'
    BY <2>1 DEF CacheInv, CacheTypes, TypeOK, Idle
  <2>3. JobInv'
    <3>1. \A o \in orphans', d \in Caches, a \in Addresses : <<d, a>> \in o.at => group[d] = Async
      BY <2>1 DEF JobInv
    <3> QED
      BY <1>1, <2>1, <3>1, JobDoneInv
  <2>4. \A d \in Caches : \A a : At(d, a)' => At(d, a)
    BY <2>1, JobDone DEF At
  <2>5. \A d \in Caches : InCode(d)' = InCode(d)
    BY <2>1 DEF InCode
  <2>6. MemoryInv'
    BY <2>1, <2>4, <2>5 DEF MemoryInv
  <2>7. ValidInv' /\ AskedInv' /\ CodeInv' /\ PendingInv'
    BY <2>1, <2>5 DEF ValidInv, AskedInv, CodeInv, PendingInv
  <2> QED
    BY <2>2, <2>3, <2>6, <2>7 DEF CacheInv
<1> QED
  BY <1>2, <1>3

\* A constructor sees what the operands show and what passes for a resource.
LEMMA BeginBuildStep == ASSUME CacheInv, NEW g \in Groups, BeginBuild(g) PROVE CacheInv'
<1> USE CacheParts
<1>1. /\ mod = "installed" /\ job[g] = Idle
      /\ asked' = asked \ CachesOf(g)
      /\ job' = [job EXCEPT ![g] = [step |-> "building", at |-> SeenBy(g)]]
      /\ snapshot' = [c \in Caches |-> IF group[c] = g THEN pending[c] ELSE snapshot[c]]
      /\ UNCHANGED <<modVars, valid, orphans, failing, mod>>
  BY DEF BeginBuild, JobInv
<1>2. \A c, a : <<c, a>> \in SeenBy(g) =>
          c \in asked /\ group[c] = g /\ a \in InCode(c) \intersect valid[c]
  BY DEF SeenBy, AskedOf, InCode
<1>3. SeenBy(g) \subseteq Caches \X Addresses
  BY DEF SeenBy, AskedOf, TypeOK
<1>4. /\ job'[g] = [step |-> "building", at |-> SeenBy(g)]
      /\ \A h \in Groups \ {g} : job'[h] = job[h]
  BY <1>1 DEF TypeOK
<1>5. TypeOK'
  <2>1. job' \in [Groups -> [step : {"idle", "reading", "building"}, at : SUBSET (Caches \X Addresses)]]
    BY <1>1, <1>3 DEF TypeOK
  <2> QED
    BY <1>1, <2>1 DEF TypeOK
<1>6. CacheTypes'
  BY <1>1, <1>5 DEF CacheTypes
<1>7. JobInv'
  <2>1. \A h \in Groups, c \in Caches, a \in Addresses : <<c, a>> \in job'[h].at =>
          group[c] = h /\ job'[h].step # "idle" /\ (job'[h].step = "reading" => c \notin failing)
    <3> TAKE h \in Groups, c \in Caches, a \in Addresses
    <3>1. CASE h = g
      BY <1>2, <1>4, <3>1
    <3>2. CASE h # g
      <4>1. <<c, a>> \in job[h].at =>
              group[c] = h /\ job[h].step # "idle" /\ (job[h].step = "reading" => c \notin failing)
        BY DEF JobInv
      <4> QED
        BY <1>4, <3>2, <4>1
    <3> QED
      BY <3>1, <3>2
  <2>2. \A h \in Groups : job'[h].step = "building" => asked' \intersect CachesOf(h) = {}
    <3> TAKE h \in Groups
    <3>1. CASE h = g
      BY <1>1, <3>1
    <3>2. CASE h # g
      BY <1>1, <1>4, <3>2 DEF JobInv
    <3> QED
      BY <3>1, <3>2
  <2>3. \A h \in Groups : job'[h].step = "idle" => job'[h] = Idle
    BY <1>4 DEF JobInv
  <2> QED
    BY <1>1, <2>1, <2>2, <2>3 DEF JobInv
<1>8. \A c \in Caches : InCode(c)' = InCode(c)
  BY <1>1 DEF InCode
<1>9. \A c \in Caches, a \in Capacities : At(c, a)' =>
          At(c, a) \/ (c \in asked /\ a \in InCode(c) \intersect valid[c])
  BY <1>1, <1>2, <1>4 DEF At
<1>10. MemoryInv'
  <2>1. \A c \in Caches, a \in Capacities : c \in asked /\ a \in InCode(c) \intersect valid[c] =>
           a \in live(buffers[c]) /\ Out(buffers[c], a) /\ Given(buffers[c], a)
    <3> TAKE c \in Caches, a \in Capacities
    <3> HAVE c \in asked /\ a \in InCode(c) \intersect valid[c]
    <3>1. a \in live(buffers[c])
      BY DEF MemoryInv
    <3>2. Out(buffers[c], a)
      BY <1>1 DEF AskedInv
    <3>3. Given(buffers[c], a)
      <4>1. a \in valid[c] \ {0} /\ mod # "dropped"
        BY <1>1
      <4> QED
        BY <3>1, <4>1 DEF ValidInv
    <3> QED
      BY <3>1, <3>2, <3>3
  <2> QED
    BY <1>1, <1>8, <1>9, <2>1 DEF MemoryInv
<1>11. ValidInv' /\ AskedInv' /\ CodeInv' /\ PendingInv'
  BY <1>1, <1>8 DEF ValidInv, AskedInv, CodeInv, PendingInv
<1> QED
  BY <1>6, <1>7, <1>10, <1>11 DEF CacheInv

\* The constructor returned: what it was seen to start with is confirmed, and nobody
\* else works on that unless it is pinned.
LEMMA FinishStep == ASSUME CacheInv, NEW g \in Groups, finish(g) PROVE CacheInv'
<1> USE CacheParts
<1>1. /\ mod = "installed" /\ job[g].step = "building"
      /\ asked \intersect CachesOf(g) = {}
      /\ pending' = [c \in Caches |-> IF c \in Confirmed(g) THEN NoUse ELSE pending[c]]
      /\ buffers' = [c \in Caches |->
           IF c \in Confirmed(g)
           THEN reclaim(complete(buffers[c], snapshot[c]), addresses[c])
           ELSE buffers[c]]
      /\ snapshot' = [c \in Caches |-> IF group[c] = g THEN NoUse ELSE snapshot[c]]
      /\ job' = [job EXCEPT ![g] = Idle]
      /\ UNCHANGED <<addresses, dirty, code, valid, orphans, asked, failing, mod>>
  BY DEF finish, JobInv
<1>2. \A c \in Confirmed(g) :
        /\ c \in Caches /\ group[c] = g /\ pending[c] # NoUse /\ pending[c] = snapshot[c]
        /\ pending[c].address = addresses[c] /\ InCode(c) = {addresses[c]}
        /\ addresses[c] \in live(buffers[c])
        /\ \A o \in orphans : <<c, addresses[c]>> \in o.at => addresses[c] \in buffers[c].pinned
  <2>1. \A c \in Confirmed(g) : c \in Caches /\ group[c] = g /\ pending[c] # NoUse /\ pending[c] = snapshot[c]
    BY DEF Confirmed
  <2>2. \A c \in Confirmed(g) :
          /\ pending[c].address = addresses[c] /\ InCode(c) = {addresses[c]}
          /\ \A o \in orphans : <<c, addresses[c]>> \in o.at => addresses[c] \in buffers[c].pinned
    BY <1>1, <2>1 DEF PendingInv
  <2>3. \A c \in Confirmed(g) : pending[c].address \in Capacities
    BY <2>1 DEF TypeOK, Uses
  <2> QED
    BY <2>1, <2>2, <2>3 DEF MemoryInv
<1>3. \A c \in Caches \ Confirmed(g) : buffers'[c] = buffers[c] /\ pending'[c] = pending[c]
  BY <1>1
<1>4. \A c \in Confirmed(g) : pending'[c] = NoUse
  BY <1>1, <1>2
<1>5. ASSUME NEW c \in Confirmed(g)
      PROVE  /\ BufferOK(buffers'[c]) /\ addresses[c] \in live(buffers'[c])
             /\ live(buffers'[c]) \subseteq live(buffers[c])
             /\ Latest(buffers'[c]) = Latest(buffers[c]) /\ Latest(buffers[c]) \in live(buffers'[c])
             /\ \A x \in live(buffers[c]) \ {addresses[c]} :
                  Out(buffers[c], x) => x \in live(buffers'[c]) /\ Out(buffers'[c], x)
             /\ addresses[c] \in buffers[c].pinned => Out(buffers'[c], addresses[c])
             /\ \A x \in live(buffers'[c]) : Given(buffers[c], x) => Given(buffers'[c], x)
  <2>1. buffers'[c] = reclaim(complete(buffers[c], pending[c]), pending[c].address)
    BY <1>1, <1>2
  <2>2. pending[c].address \in live(buffers[c]) /\ BufferOK(buffers[c])
    BY <1>2
  <2>3. pending[c].address = addresses[c]
    BY <1>2
  <2> DEFINE b == buffers[c]
             n == buffers'[c]
             use == pending[c]
  <2> HIDE DEF b, n, use
  <2>4. BufferOK(b) /\ use.address \in live(b) /\ n = reclaim(complete(b, use), use.address)
    BY <2>1, <2>2 DEF b, n, use
  <2>5. /\ BufferOK(n) /\ use.address \in live(n) /\ live(n) \subseteq live(b)
        /\ Latest(n) = Latest(b) /\ Latest(b) \in live(n)
        /\ \A x \in live(b) \ {use.address} : Out(b, x) => x \in live(n) /\ Out(n, x)
        /\ use.address \in b.pinned => Out(n, use.address)
        /\ \A x \in live(n) : Given(b, x) => Given(n, x)
    BY ONLY <2>4, ConfirmKeeps
  <2> QED
    BY ONLY <2>3, <2>5 DEF b, n, use
<1>6. TypeOK'
  <2>1. \A c \in Caches : live(buffers'[c]) \subseteq Capacities
    BY <1>2, <1>3, <1>5
  <2>2. pending' \in [Caches -> Uses \union {NoUse}]
    BY <1>1 DEF TypeOK
  <2>3. snapshot' \in [Caches -> Uses \union {NoUse}]
    BY <1>1 DEF TypeOK
  <2> QED
    BY <1>1, <2>1, <2>2, <2>3 DEF TypeOK, Idle
<1>7. CacheTypes'
  <2>1. DOMAIN buffers' = Caches
    BY <1>1
  <2>2. \A c \in Caches : BufferOK(buffers'[c])
    BY <1>3, <1>5
  <2> QED
    BY <1>1, <1>6, <2>1, <2>2 DEF CacheTypes
<1>8. JobInv'
  <2>1. \A o \in orphans', d \in Caches, a \in Addresses : <<d, a>> \in o.at => group[d] = Async
    BY <1>1 DEF JobInv
  <2> QED
    BY <1>1, <2>1, JobDoneInv
<1>9. \A c \in Caches : InCode(c)' = InCode(c)
  BY <1>1 DEF InCode
<1>10. \A c \in Caches : \A a : At(c, a)' => At(c, a)
  BY <1>1, JobDone DEF At
<1>11. \A c \in CachesOf(g), a \in Addresses : At(c, a)' => \E o \in orphans : <<c, a>> \in o.at
  <2>1. \A h \in Groups, c \in CachesOf(g), a \in Addresses : <<c, a>> \notin job'[h].at
    <3> TAKE h \in Groups, c \in CachesOf(g), a \in Addresses
    <3>1. <<c, a>> \in job[h].at => h = g
      BY DEF JobInv
    <3> QED
      BY <1>1, <3>1, JobDone
  <2> QED
    BY <1>1, <2>1 DEF At
<1>12. MemoryInv'
  <2> SUFFICES ASSUME NEW c \in Caches, NEW a \in Capacities
               PROVE  /\ a \in InCode(c)' => a \in live(buffers'[c])
                      /\ At(c, a)' => /\ a \in live(buffers'[c])
                                      /\ Out(buffers'[c], a) /\ Given(buffers'[c], a)
    BY DEF MemoryInv
  <2>1. CASE c \in Confirmed(g)
    <3>1. a \in InCode(c)' => a \in live(buffers'[c])
      <4>1. InCode(c)' = {addresses[c]} /\ addresses[c] \in live(buffers'[c])
        BY <1>2, <1>5, <1>9, <2>1
      <4> QED
        BY <4>1
    <3>2. ASSUME At(c, a)' PROVE a \in live(buffers'[c]) /\ Out(buffers'[c], a)
      <4>1. a \in live(buffers[c]) /\ Out(buffers[c], a)
        BY <1>10, <3>2 DEF MemoryInv
      <4>2. CASE a = addresses[c]
        <5>0. group[c] = g
          BY <1>2, <2>1
        <5>1. PICK o \in orphans : <<c, a>> \in o.at
          BY <1>11, <3>2, <5>0
        <5>2. a \in buffers[c].pinned
          BY <1>2, <2>1, <4>2, <5>1
        <5> QED
          BY <1>5, <2>1, <4>2, <5>2
      <4>3. CASE a # addresses[c]
        BY <1>5, <2>1, <4>1, <4>3
      <4> QED
        BY <4>2, <4>3
    <3>3. At(c, a)' => Given(buffers'[c], a)
      BY <1>5, <1>10, <2>1, <3>2 DEF MemoryInv
    <3> QED
      BY <3>1, <3>2, <3>3
  <2>2. CASE c \notin Confirmed(g)
    BY <1>3, <1>9, <1>10, <2>2 DEF MemoryInv
  <2> QED
    BY <2>1, <2>2
<1>13. ValidInv'
  <2> SUFFICES ASSUME NEW c \in Caches, NEW v \in valid[c] \ {0}
               PROVE  /\ \E a \in live(buffers'[c]) : v <= a
                      /\ v \in live(buffers'[c]) => Given(buffers'[c], v)
    BY <1>1 DEF ValidInv
  <2>1. /\ \E a \in live(buffers[c]) : v <= a
        /\ v \in live(buffers[c]) => Given(buffers[c], v)
    BY <1>1 DEF ValidInv
  <2>2. CASE c \in Confirmed(g)
    <3>1. v <= Latest(buffers[c])
      <4>1. PICK a \in live(buffers[c]) : v <= a
        BY <2>1
      <4>2. a <= Latest(buffers[c]) /\ Latest(buffers[c]) \in Capacities /\ v \in Addresses /\ a \in Capacities
        BY LatestIs, BufferParts
      <4> QED
        BY <4>1, <4>2
    <3> QED
      BY <1>5, <2>1, <2>2, <3>1
  <2>3. CASE c \notin Confirmed(g)
    BY <1>3, <2>1, <2>3
  <2> QED
    BY <2>2, <2>3
<1>14. AskedInv'
  <2>1. \A c \in asked : c \notin Confirmed(g)
    BY <1>1, <1>2
  <2> QED
    BY <1>1, <1>3, <1>9, <2>1 DEF AskedInv
<1>15. CodeInv'
  <2> SUFFICES ASSUME NEW c \in Caches
               PROVE  /\ addresses[c] \in live(buffers'[c]) \union {0}
                      /\ live(buffers'[c]) # {} /\ addresses[c] = Latest(buffers'[c]) =>
                           InCode(c) = {addresses[c]}
    BY <1>1, <1>9 DEF CodeInv
  <2>1. CASE c \in Confirmed(g)
    BY <1>2, <1>5, <2>1
  <2>2. CASE c \notin Confirmed(g)
    BY <1>1, <1>3, <2>2 DEF CodeInv
  <2> QED
    BY <2>1, <2>2
<1>16. PendingInv'
  BY <1>1, <1>3, <1>4, <1>9 DEF PendingInv
<1> QED
  BY <1>7, <1>8, <1>12, <1>13, <1>14, <1>15, <1>16 DEF CacheInv

\* The queue is given up: its job becomes an orphan, and nothing of it is awaited.
LEMMA ResetStep == ASSUME CacheInv, Reset PROVE CacheInv'
<1> USE CacheParts
<1>1. /\ mod = "installed"
      /\ pending' = [c \in Caches |-> IF group[c] = Async THEN NoUse ELSE pending[c]]
      /\ asked' = asked \ CachesOf(Async)
      /\ UNCHANGED <<buffers, addresses, dirty, code, valid, failing, mod>>
  BY DEF Reset
<1>2. /\ job' = [job EXCEPT ![Async] = Idle]
      /\ \/ job[Async] # Idle /\ orphans' = orphans \union {job[Async]}
         \/ orphans' = orphans
      /\ snapshot' \in [Caches -> Uses \union {NoUse}]
  <2>1. CASE GiveUp(Async)
    BY <2>1 DEF GiveUp, TypeOK
  <2>2. CASE job[Async] = Idle /\ UNCHANGED <<orphans, job, snapshot>>
    BY <2>2 DEF TypeOK
  <2> QED
    BY <2>1, <2>2 DEF Reset
<1>3. \A o \in orphans' : o \in orphans \/ (o = job[Async] /\ job[Async] # Idle)
  BY <1>2
<1>4. TypeOK'
  <2>1. job[Async] # Idle => job[Async].step # "idle"
    BY DEF JobInv
  <2>2. orphans' \subseteq [step : {"reading", "building"}, at : SUBSET (Caches \X Addresses)]
    BY <1>3, <2>1 DEF TypeOK
  <2>3. pending' \in [Caches -> Uses \union {NoUse}]
    BY <1>1 DEF TypeOK
  <2> QED
    BY <1>1, <1>2, <2>2, <2>3 DEF TypeOK, Idle
<1>5. CacheTypes'
  BY <1>1, <1>4 DEF CacheTypes
<1>6. JobInv'
  <2>1. \A o \in orphans', d \in Caches, a \in Addresses : <<d, a>> \in o.at => group[d] = Async
    BY <1>3 DEF JobInv
  <2>2. \A d \in Caches : group[d] # Async =>
          (d \in failing' => d \in failing) /\ (d \in asked' => d \in asked)
    BY <1>1
  <2> QED
    BY <1>1, <1>2, <2>1, <2>2, JobDoneInv
<1>7. \A c \in Caches : \A a : At(c, a)' => At(c, a)
  BY <1>2, <1>3, JobDone DEF At
<1>8. \A c \in Caches : InCode(c)' = InCode(c)
  BY <1>1 DEF InCode
<1>9. MemoryInv'
  BY <1>1, <1>7, <1>8 DEF MemoryInv
<1>10. ValidInv' /\ AskedInv' /\ CodeInv'
  BY <1>1, <1>8 DEF ValidInv, AskedInv, CodeInv
<1>11. PendingInv'
  <2> SUFFICES ASSUME NEW c \in Caches, pending'[c] # NoUse
               PROVE  /\ InCode(c) = {pending'[c].address} /\ addresses[c] = pending'[c].address
                      /\ \A o \in orphans' : <<c, pending'[c].address>> \in o.at =>
                           pending'[c].address \in buffers[c].pinned
    BY <1>1, <1>8 DEF PendingInv
  <2>1. group[c] # Async /\ pending'[c] = pending[c]
    BY <1>1
  <2>2. pending[c].address \in Addresses
    BY DEF TypeOK, Uses, NoUse
  <2>3. <<c, pending[c].address>> \notin job[Async].at
    BY <2>1, <2>2 DEF JobInv
  <2>4. \A o \in orphans' : <<c, pending[c].address>> \in o.at => o \in orphans
    BY <1>3, <2>3
  <2>5. /\ InCode(c) = {pending[c].address} /\ addresses[c] = pending[c].address
        /\ \A o \in orphans : <<c, pending[c].address>> \in o.at =>
             pending[c].address \in buffers[c].pinned
    BY <1>1, <2>1 DEF PendingInv
  <2> QED
    BY <2>1, <2>4, <2>5
<1> QED
  BY <1>5, <1>6, <1>9, <1>10, <1>11 DEF CacheInv

\* A worker that was given up ends; what it read late counts as a resource again.
LEMMA OrphanEndsStep == ASSUME CacheInv, OrphanEnds PROVE CacheInv'
<1> USE CacheParts
<1>1. PICK o \in orphans :
        /\ orphans' = orphans \ {o}
        /\ valid' = [c \in Caches |->
             IF o.step = "reading" THEN valid[c] \union {a \in Addresses : <<c, a>> \in o.at} ELSE valid[c]]
        /\ failing' = IF o.step = "reading" THEN failing \ {at[1] : at \in o.at} ELSE failing
        /\ UNCHANGED <<modVars, job, snapshot, asked, mod>>
  BY DEF OrphanEnds
<1>2. mod = "installed"
  BY DEF JobInv
<1>3. failing' \subseteq failing
  BY <1>1
<1>4. ASSUME NEW c \in Caches, NEW a \in valid'[c]
      PROVE  a \in valid[c] \/ (a \in Addresses /\ At(c, a) /\ c \notin failing')
  <2>1. CASE o.step = "reading"
    <3>1. a \in valid[c] \/ (a \in Addresses /\ <<c, a>> \in o.at)
      BY <1>1, <2>1
    <3>2. <<c, a>> \in o.at => c \in {at[1] : at \in o.at}
      OBVIOUS
    <3> QED
      BY <1>1, <2>1, <3>1, <3>2 DEF At
  <2>2. CASE o.step # "reading"
    BY <1>1, <2>2
  <2> QED
    BY <2>1, <2>2
<1>5. TypeOK'
  <2>1. \A c \in Caches : valid'[c] \subseteq Addresses
    BY <1>1 DEF TypeOK
  <2> QED
    BY <1>1, <1>3, <2>1 DEF TypeOK
<1>6. CacheTypes'
  <2>1. valid' \in [Caches -> SUBSET Addresses]
    BY <1>1
  <2> QED
    BY <1>1, <1>5, <2>1 DEF CacheTypes
<1>7. JobInv'
  BY <1>1, <1>2, <1>3 DEF JobInv
<1>8. \A c \in Caches : \A a : At(c, a)' => At(c, a)
  BY <1>1 DEF At
<1>9. \A c \in Caches : InCode(c)' = InCode(c)
  BY <1>1 DEF InCode
<1>10. MemoryInv'
  BY <1>1, <1>8, <1>9 DEF MemoryInv
<1>11. ValidInv'
  <2> SUFFICES ASSUME NEW c \in Caches, NEW v \in valid'[c] \ {0}
               PROVE  /\ \E a \in live(buffers[c]) : v <= a
                      /\ v \in live(buffers[c]) => Given(buffers[c], v)
    BY <1>1 DEF ValidInv
  <2>1. CASE v \in valid[c]
    BY <1>2, <2>1 DEF ValidInv
  <2>2. CASE v \in Addresses /\ At(c, v)
    BY <2>2 DEF MemoryInv
  <2> QED
    BY <1>4, <2>1, <2>2
<1>12. AskedInv'
  <2> SUFFICES ASSUME NEW c \in Caches, NEW a \in InCode(c) \intersect valid'[c]
               PROVE  c \notin failing' /\ (c \in asked => Out(buffers[c], a))
    BY <1>1, <1>9 DEF AskedInv
  <2>1. CASE a \in valid[c]
    <3>1. a \in Addresses
      BY <2>1
    <3> QED
      BY <1>2, <1>3, <2>1, <3>1 DEF AskedInv
  <2>2. CASE a \in Addresses /\ At(c, a) /\ c \notin failing'
    <3>1. a = 0 => Out(buffers[c], a)
      BY BufferParts DEF Out
    <3>2. a # 0 => Out(buffers[c], a)
      BY <2>2 DEF MemoryInv
    <3> QED
      BY <2>2, <3>1, <3>2
  <2> QED
    BY <1>4, <2>1, <2>2
<1>13. CodeInv' /\ PendingInv'
  BY <1>1, <1>9 DEF CodeInv, PendingInv
<1> QED
  BY <1>6, <1>7, <1>10, <1>11, <1>12, <1>13 DEF CacheInv

\* The game has stopped and nobody is at work.
LEMMA StopStep == ASSUME CacheInv, Stop PROVE CacheInv'
<1> USE CacheParts
<1>1. /\ mod = "installed" /\ orphans = {} /\ \A g \in Groups : job[g] = Idle
      /\ mod' = "stopped"
      /\ UNCHANGED <<modVars, valid, job, snapshot, orphans, asked, failing>>
  BY DEF Stop
<1>2. CacheTypes'
  BY <1>1 DEF CacheInv, CacheTypes, TypeOK
<1>3. JobInv'
  BY <1>1 DEF JobInv
<1>4. \A c \in Caches : InCode(c)' = InCode(c)
  BY <1>1 DEF InCode
<1>5. MemoryInv'
  BY <1>1, <1>4 DEF MemoryInv, At
<1>6. ValidInv' /\ AskedInv' /\ CodeInv' /\ PendingInv'
  BY <1>1, <1>4 DEF ValidInv, AskedInv, CodeInv, PendingInv
<1> QED
  BY <1>2, <1>3, <1>5, <1>6 DEF CacheInv

\* Operands are put back: they end on what they held, or on the original.
LEMMA PutBackStep ==
    ASSUME CacheInv, NEW restored \in SUBSET dirty, NEW operands \in [Caches -> [Refs -> Addresses]],
           \A c \in Caches : {operands[c][r] : r \in Refs} \subseteq InCode(c) \union {0},
           \A c \in Caches : c \notin dirty => operands[c] = code[c],
           PutBack(restored, operands)
    PROVE  CacheInv'
<1> USE CacheParts
<1>1. /\ mod = "stopped"
      /\ addresses' = [c \in Caches |-> IF c \in restored THEN 0 ELSE addresses[c]]
      /\ dirty' = dirty \ restored
      /\ code' = [c \in Caches |-> IF c \in restored THEN Retargeted(code[c], Operands, 0) ELSE operands[c]]
      /\ UNCHANGED <<buffers, pending, valid, job, snapshot, orphans, asked, failing, mod>>
  BY DEF PutBack
<1>2. \A c \in Caches : c \in restored =>
        code'[c] = [r \in Refs |-> 0] /\ InCode(c)' = {0} /\ addresses'[c] = 0
  <2> TAKE c \in Caches
  <2> HAVE c \in restored
  <2>1. code'[c] = [r \in Refs |-> 0]
    BY <1>1 DEF Retargeted, Refs
  <2>2. 1 \in Refs
    BY DEF Refs
  <2> QED
    BY <1>1, <2>1, <2>2 DEF InCode
<1>3. \A c \in Caches : c \notin restored =>
        code'[c] = operands[c] /\ InCode(c)' = {operands[c][r] : r \in Refs} /\ addresses'[c] = addresses[c]
  BY <1>1 DEF InCode
<1>4. \A c \in Caches : InCode(c)' \subseteq InCode(c) \union {0}
  BY <1>2, <1>3
<1>5. TypeOK'
  <2>1. addresses' \in [Caches -> Addresses]
    BY <1>1 DEF TypeOK
  <2>2. \A c \in Caches : code'[c] \in [Refs -> Addresses]
    <3>1. [r \in Refs |-> 0] \in [Refs -> Addresses]
      OBVIOUS
    <3>2. \A c \in Caches : operands[c] \in [Refs -> Addresses]
      OBVIOUS
    <3> QED
      BY <1>2, <1>3, <3>1, <3>2
  <2>3. code' \in [Caches -> [Refs -> Addresses]]
    BY <1>1, <2>2
  <2>4. dirty' \subseteq Caches
    BY <1>1 DEF TypeOK
  <2> QED
    BY <1>1, <2>1, <2>3, <2>4 DEF TypeOK
<1>6. CacheTypes'
  BY <1>1, <1>5 DEF CacheTypes
<1>7. JobInv'
  BY <1>1 DEF JobInv
<1>8. MemoryInv'
  BY <1>1, <1>4 DEF MemoryInv, At
<1>9. CodeInv'
  <2> SUFFICES ASSUME NEW c \in Caches
               PROVE  /\ c \notin dirty' => InCode(c)' = {0} /\ addresses'[c] = 0
                      /\ addresses'[c] \in live(buffers[c]) \union {0}
    BY <1>1 DEF CodeInv
  <2>1. CASE c \in restored
    BY <1>2, <2>1
  <2>2. CASE c \notin restored
    <3>1. c \notin dirty' => InCode(c)' = InCode(c)
      BY <1>1, <1>3, <2>2 DEF InCode
    <3>2. /\ c \notin dirty => InCode(c) = {0} /\ addresses[c] = 0
          /\ addresses[c] \in live(buffers[c]) \union {0}
      BY <1>1 DEF CodeInv
    <3> QED
      BY <1>1, <1>3, <2>2, <3>1, <3>2
  <2> QED
    BY <2>1, <2>2
<1>10. ValidInv' /\ AskedInv' /\ PendingInv'
  BY <1>1 DEF ValidInv, AskedInv, PendingInv
<1> QED
  BY <1>6, <1>7, <1>8, <1>9, <1>10 DEF CacheInv

LEMMA RestoreStep == ASSUME CacheInv, restore \/ RestoreFails PROVE CacheInv'
<1> USE CacheParts
<1>1. CASE restore
  BY <1>1, PutBackStep DEF restore, TypeOK, InCode
<1>2. CASE RestoreFails
  <2>1. PICK stuck \in dirty, done \in 0 .. Operands :
          PutBack({c \in dirty : c < stuck}, [code EXCEPT ![stuck] = Retargeted(@, done, 0)])
    BY <1>2 DEF RestoreFails
  <2> DEFINE operands == [code EXCEPT ![stuck] = Retargeted(@, done, 0)]
  <2>2. stuck \in Caches /\ code[stuck] \in [Refs -> Addresses] /\ code \in [Caches -> [Refs -> Addresses]]
    BY DEF TypeOK
  <2>3. /\ operands[stuck] = [r \in Refs |-> IF r <= done THEN 0 ELSE code[stuck][r]]
        /\ \A c \in Caches \ {stuck} : operands[c] = code[c]
    BY <2>2 DEF Retargeted
  <2>4. operands \in [Caches -> [Refs -> Addresses]]
    BY <2>2 DEF Retargeted
  <2> HIDE DEF operands
  <2>5. \A c \in Caches : {operands[c][r] : r \in Refs} \subseteq InCode(c) \union {0}
    BY <2>3 DEF InCode
  <2>6. \A c \in Caches : c \notin dirty => operands[c] = code[c]
    BY <2>3
  <2>7. PutBack({c \in dirty : c < stuck}, operands)
    BY <2>1 DEF operands
  <2> QED
    BY <2>4, <2>5, <2>6, <2>7, PutBackStep
<1> QED
  BY <1>1, <1>2

\* The buffers go except where the code may still point at them.
LEMMA DropStep == ASSUME CacheInv, Drop PROVE CacheInv'
<1> USE CacheParts
<1>1. /\ mod = "stopped" /\ mod' = "dropped"
      /\ buffers' = [c \in Caches |-> IF c \in dirty THEN buffers[c] ELSE Default]
      /\ UNCHANGED <<addresses, dirty, pending, code, valid, job, snapshot, orphans, asked, failing>>
  BY DEF Drop
<1>2. orphans = {} /\ \A g \in Groups : job[g] = Idle
  BY <1>1 DEF JobInv
<1>3. \A c \in Caches : \A a : ~At(c, a)'
  BY <1>1, <1>2 DEF At, Idle
<1>4. \A c \in Caches : BufferOK(buffers'[c]) /\ live(buffers'[c]) \subseteq Capacities
  BY <1>1, DefaultOK
<1>5. CacheTypes'
  BY <1>1, <1>4 DEF CacheInv, CacheTypes, TypeOK
<1>6. JobInv'
  BY <1>1, <1>2 DEF JobInv
<1>7. \A c \in Caches : InCode(c)' = InCode(c)
  BY <1>1 DEF InCode
<1>8. MemoryInv'
  <2> SUFFICES ASSUME NEW c \in Caches, NEW a \in Capacities, a \in InCode(c)
               PROVE  a \in live(buffers'[c])
    BY <1>3, <1>7 DEF MemoryInv
  <2>1. c \in dirty
    BY DEF CodeInv
  <2> QED
    BY <1>1, <2>1 DEF MemoryInv
<1>9. ValidInv' /\ AskedInv' /\ PendingInv'
  BY <1>1 DEF ValidInv, AskedInv, PendingInv
<1>10. CodeInv'
  BY <1>1, <1>7 DEF CodeInv
<1> QED
  BY <1>5, <1>6, <1>8, <1>9, <1>10 DEF CacheInv

\* A read starts: all operands show the largest allocation, which was given out.
LEMMA LoadStep == ASSUME CacheInv, NEW c \in Caches, NEW size \in Sizes[c], Load(c, size) PROVE CacheInv'
<1> USE CacheParts
<1> DEFINE b == buffers[c]
           m == prepare(b, size)
           a == Latest(m)
           n == reclaim(begin_use(m, a), a)
           g == group[c]
<1>1. /\ mod = "installed" /\ job[g] = Idle /\ g \in Groups /\ size \in Capacities
      /\ pending' = [pending EXCEPT ![c] = UseOf(m, a)]
      /\ buffers' = [buffers EXCEPT ![c] = n]
      /\ addresses' = [addresses EXCEPT ![c] = a]
      /\ dirty' = IF a = addresses[c] THEN dirty ELSE dirty \union {c}
      /\ code' = IF a = addresses[c] THEN code ELSE [code EXCEPT ![c] = Retargeted(@, Operands, a)]
      /\ job' = [job EXCEPT ![g] = [step |-> "reading", at |-> {<<c, a>>}]]
      /\ failing' = failing \ {c} /\ asked' = asked \union {c}
      /\ UNCHANGED <<valid, snapshot, orphans, mod>>
  BY DEF Load, Publish, JobInv
<1>2. BufferOK(b) /\ live(b) \subseteq Capacities
  OBVIOUS
<1> HIDE DEF b, m, a, n, g
<1>3. /\ BufferOK(m) /\ a \in live(m) /\ live(b) \subseteq live(m)
      /\ \A x \in live(b) : x <= a
      /\ a \in Capacities
  <2>1. BufferOK(m) /\ a \in live(m) /\ live(b) \subseteq live(m)
    BY ONLY <1>1, <1>2, PrepareKeeps DEF m, a
  <2> QED
    BY <2>1, LatestIs, BufferParts DEF a
<1>4. /\ BufferOK(n) /\ a \in live(n) /\ Latest(n) = a
      /\ a \notin n.completed /\ Given(n, a)
      /\ live(n) \subseteq live(b) \union {a}
      /\ \A x \in live(b) : x <= a /\ (Out(b, x) => x \in live(n) /\ Out(n, x))
      /\ \A x \in live(b) \intersect live(n) : Given(b, x) => Given(n, x)
      /\ a \in live(b) /\ Given(b, a) /\ Out(b, a) => a \in n.pinned
      /\ a \notin live(b) => \A x \in live(b) : x < a
  BY ONLY <1>1, <1>2, LendKeeps DEF m, a, n
<1>5. UseOf(m, a) \in Uses \union {NoUse} /\ (UseOf(m, a) # NoUse => UseOf(m, a).address = a)
  BY ONLY <1>3, UseIs
<1>6. InCode(c)' = {a} /\ code' \in [Caches -> [Refs -> Addresses]]
  <2>1. CASE a = addresses[c]
    <3>1. a \in live(b)
      BY <1>1, <1>3, <2>1 DEF CodeInv, b
    <3>2. a = Latest(b)
      BY ONLY <1>2, <1>3, <3>1, LatestIs
    <3>3. InCode(c) = {a}
      BY <1>1, <2>1, <3>1, <3>2 DEF CodeInv, b
    <3>4. code' = code
      BY <1>1, <2>1
    <3>5. InCode(c)' = InCode(c)
      BY <3>4 DEF InCode
    <3>6. code \in [Caches -> [Refs -> Addresses]]
      BY DEF TypeOK
    <3> QED
      BY <3>3, <3>4, <3>5, <3>6
  <2>2. CASE a # addresses[c]
    <3>1. code \in [Caches -> [Refs -> Addresses]] /\ 1 \in Refs
      BY DEF TypeOK, Refs
    <3>2. code'[c] = [r \in Refs |-> a]
      BY <1>1, <2>2, <3>1 DEF Retargeted, Refs
    <3>3. code' \in [Caches -> [Refs -> Addresses]]
      BY <1>1, <1>3, <2>2, <3>1 DEF Retargeted
    <3> QED
      BY <3>1, <3>2, <3>3 DEF InCode
  <2> QED
    BY <2>1, <2>2
<1>7. /\ buffers'[c] = n /\ addresses'[c] = a /\ pending'[c] = UseOf(m, a)
      /\ \A d \in Caches \ {c} : /\ buffers'[d] = buffers[d] /\ addresses'[d] = addresses[d]
                                 /\ pending'[d] = pending[d] /\ InCode(d)' = InCode(d)
  BY <1>1 DEF TypeOK, InCode
<1>8. /\ job'[g] = [step |-> "reading", at |-> {<<c, a>>}]
      /\ \A h \in Groups \ {g} : job'[h] = job[h]
  BY <1>1 DEF TypeOK
<1>9. CacheTypes'
  <2>1. job' \in [Groups -> [step : {"idle", "reading", "building"}, at : SUBSET (Caches \X Addresses)]]
    BY <1>1, <1>3 DEF TypeOK
  <2>2. addresses' \in [Caches -> Addresses] /\ pending' \in [Caches -> Uses \union {NoUse}]
    BY <1>1, <1>3, <1>5 DEF TypeOK
  <2>3. \A d \in Caches : BufferOK(buffers'[d]) /\ live(buffers'[d]) \subseteq Capacities
    BY <1>4, <1>7, BufferParts
  <2>4. dirty' \subseteq Caches /\ failing' \subseteq Caches /\ asked' \subseteq Caches /\ DOMAIN buffers' = Caches
    BY <1>1 DEF TypeOK
  <2>5. /\ \A d \in Caches : valid'[d] \subseteq Addresses
        /\ snapshot' \in [Caches -> Uses \union {NoUse}]
        /\ orphans' \subseteq [step : {"reading", "building"}, at : SUBSET (Caches \X Addresses)]
        /\ mod' \in {"installed", "stopped", "dropped"}
        /\ valid' \in [Caches -> SUBSET Addresses]
    BY <1>1 DEF TypeOK
  <2> QED
    BY <1>6, <2>1, <2>2, <2>3, <2>4, <2>5 DEF TypeOK, CacheTypes
<1>10. JobInv'
  <2>1. \A h \in Groups, d \in Caches, x \in Addresses : <<d, x>> \in job'[h].at =>
          group[d] = h /\ job'[h].step # "idle" /\ (job'[h].step = "reading" => d \notin failing')
    <3> TAKE h \in Groups, d \in Caches, x \in Addresses
    <3>1. CASE h = g
      BY <1>1, <1>8, <3>1 DEF g
    <3>2. CASE h # g
      BY <1>1, <1>8, <3>2 DEF JobInv
    <3> QED
      BY <3>1, <3>2
  <2>2. \A h \in Groups : job'[h].step = "building" => asked' \intersect CachesOf(h) = {}
    <3> TAKE h \in Groups
    <3> HAVE job'[h].step = "building"
    <3>1. h # g /\ job[h].step = "building"
      BY <1>8
    <3>2. asked \intersect CachesOf(h) = {} /\ c \notin CachesOf(h)
      BY <3>1 DEF JobInv, g
    <3> QED
      BY <1>1, <3>2
  <2>3. \A h \in Groups : job'[h].step = "idle" => job'[h] = Idle
    BY <1>8 DEF JobInv
  <2>4. \A o \in orphans', d \in Caches, x \in Addresses : <<d, x>> \in o.at => group[d] = Async
    BY <1>1 DEF JobInv
  <2> QED
    BY <1>1, <2>1, <2>2, <2>3, <2>4 DEF JobInv
<1>11. \A d \in Caches : \A x : At(d, x)' => At(d, x) \/ (d = c /\ x = a)
  <2> TAKE d \in Caches
  <2> TAKE x
  <2> HAVE At(d, x)'
  <2>1. CASE \E o \in orphans : <<d, x>> \in o.at
    BY <2>1 DEF At
  <2>2. CASE \E h \in Groups : <<d, x>> \in job'[h].at
    <3>1. PICK h \in Groups : <<d, x>> \in job'[h].at
      BY <2>2
    <3>2. CASE h = g
      BY <1>8, <3>1, <3>2
    <3>3. CASE h # g
      BY <1>8, <3>1, <3>3 DEF At
    <3> QED
      BY <3>2, <3>3
  <2> QED
    BY <1>1, <2>1, <2>2 DEF At
<1>12. MemoryInv'
  <2> SUFFICES ASSUME NEW d \in Caches, NEW x \in Capacities
               PROVE  /\ x \in InCode(d)' => x \in live(buffers'[d])
                      /\ At(d, x)' => /\ x \in live(buffers'[d])
                                      /\ Out(buffers'[d], x) /\ Given(buffers'[d], x)
    BY DEF MemoryInv
  <2>1. CASE d = c
    <3>1. x \in InCode(d)' => x \in live(n)
      BY <1>4, <1>6, <2>1
    <3>2. x = a => x \in live(n) /\ Out(n, x) /\ Given(n, x)
      BY <1>4 DEF Out
    <3>3. At(c, x) => x \in live(b) /\ Out(b, x) /\ Given(b, x)
      BY DEF MemoryInv, b
    <3>4. At(c, x) => x \in live(n) /\ Out(n, x) /\ Given(n, x)
      BY <1>4, <3>3
    <3> QED
      BY <1>7, <1>11, <2>1, <3>1, <3>2, <3>4
  <2>2. CASE d # c
    BY <1>7, <1>11, <2>2 DEF MemoryInv
  <2> QED
    BY <2>1, <2>2
<1>13. ValidInv'
  <2> SUFFICES ASSUME NEW d \in Caches, NEW v \in valid[d] \ {0}
               PROVE  /\ \E x \in live(buffers'[d]) : v <= x
                      /\ v \in live(buffers'[d]) => Given(buffers'[d], v)
    BY <1>1 DEF ValidInv
  <2>1. /\ \E x \in live(buffers[d]) : v <= x
        /\ v \in live(buffers[d]) => Given(buffers[d], v)
    BY <1>1 DEF ValidInv
  <2>2. CASE d = c
    <3>1. PICK x \in live(b) : v <= x
      BY <2>1, <2>2 DEF b
    <3>2. v \in Nat /\ x \in Nat /\ a \in Nat /\ x <= a
      BY <1>2, <1>3, <3>1
    <3>3. v <= a
      BY <3>1, <3>2
    <3>4. v \in live(n) => Given(n, v)
      BY <1>4, <2>1, <2>2 DEF b
    <3> QED
      BY <1>4, <1>7, <2>2, <3>3, <3>4
  <2>3. CASE d # c
    BY <1>7, <2>1, <2>3
  <2> QED
    BY <2>2, <2>3
<1>14. AskedInv'
  <2> SUFFICES ASSUME NEW d \in Caches, NEW x \in Addresses, x \in InCode(d)' \intersect valid[d]
               PROVE  d \notin failing' /\ (d \in asked' => Out(buffers'[d], x))
    BY <1>1 DEF AskedInv
  <2>1. CASE d = c
    BY <1>1, <1>4, <1>6, <1>7, <2>1 DEF Out
  <2>2. CASE d # c
    BY <1>1, <1>7, <2>2 DEF AskedInv
  <2> QED
    BY <2>1, <2>2
<1>15. CodeInv'
  <2> SUFFICES ASSUME NEW d \in Caches
               PROVE  /\ d \notin dirty' => InCode(d)' = {0} /\ addresses'[d] = 0
                      /\ addresses'[d] \in live(buffers'[d]) \union {0}
                      /\ live(buffers'[d]) # {} /\ addresses'[d] = Latest(buffers'[d]) =>
                           InCode(d)' = {addresses'[d]}
    BY <1>1 DEF CodeInv
  <2>1. CASE d = c
    <3>1. c \in dirty'
      BY <1>1, <1>3 DEF CodeInv
    <3> QED
      BY <1>4, <1>6, <1>7, <2>1, <3>1
  <2>2. CASE d # c
    BY <1>1, <1>7, <2>2 DEF CodeInv
  <2> QED
    BY <2>1, <2>2
<1>16. PendingInv'
  <2> SUFFICES ASSUME NEW d \in Caches, pending'[d] # NoUse
               PROVE  /\ InCode(d)' = {pending'[d].address} /\ addresses'[d] = pending'[d].address
                      /\ \A o \in orphans : <<d, pending'[d].address>> \in o.at =>
                           pending'[d].address \in buffers'[d].pinned
    BY <1>1 DEF PendingInv
  <2>1. CASE d = c
    <3>1. pending'[d].address = a
      BY <1>5, <1>7, <2>1
    <3>2. \A o \in orphans : <<c, a>> \in o.at => a \in n.pinned
      <4> TAKE o \in orphans
      <4> HAVE <<c, a>> \in o.at
      <4>1. At(c, a)
        BY DEF At
      <4>2. a \in live(b) /\ Out(b, a) /\ Given(b, a)
        BY <1>3, <4>1 DEF MemoryInv, b
      <4> QED
        BY <1>4, <4>2
    <3> QED
      BY <1>6, <1>7, <2>1, <3>1, <3>2
  <2>2. CASE d # c
    BY <1>1, <1>7, <2>2 DEF PendingInv
  <2> QED
    BY <2>1, <2>2
<1> QED
  BY <1>9, <1>10, <1>12, <1>13, <1>14, <1>15, <1>16 DEF CacheInv

\* Some operands could not be written: they show the new allocation or the published
\* one, neither of which passes for a resource.
LEMMA RetargetFailsStep ==
    ASSUME CacheInv, NEW c \in Caches, NEW size \in Sizes[c], RetargetFails(c, size)
    PROVE  CacheInv'
<1> USE CacheParts
<1> DEFINE b == buffers[c]
           m == prepare(b, size)
           a == Latest(m)
           g == group[c]
<1>1. /\ mod = "installed" /\ job[g] = Idle /\ g \in Groups /\ size \in Capacities
      /\ a # addresses[c]
      /\ buffers' = [buffers EXCEPT ![c] = m]
      /\ pending' = [pending EXCEPT ![c] = NoUse]
      /\ valid' = [valid EXCEPT ![c] = valid[c] \ (live(b) \union {0})]
      /\ failing' = failing \union {c} /\ asked' = asked \union {c}
      /\ job' = [job EXCEPT ![g] = Idle]
      /\ UNCHANGED <<addresses, snapshot, orphans, mod>>
  BY DEF RetargetFails, invalidate, JobInv
<1>2. PICK done \in 0 .. Operands, undone \in 0 .. Operands :
        /\ code' = [code EXCEPT ![c] = RolledBack(@, a, addresses[c], done, undone)]
        /\ \/ dirty' = dirty \union {c}
           \/ undone = Operands /\ addresses[c] = 0 /\ dirty' = dirty \ {c}
  BY DEF RetargetFails
<1>3. BufferOK(b) /\ live(b) \subseteq Capacities
  OBVIOUS
<1> HIDE DEF b, m, a, g
<1>4. /\ BufferOK(m) /\ a \in live(m) /\ live(b) \subseteq live(m) /\ a \in Capacities
      /\ \A x \in live(b) : m.usage[x] = b.usage[x]
      /\ m.completed = b.completed /\ m.pinned = b.pinned
      /\ \/ m = b
         \/ live(m) = live(b) \union {a} /\ \A x \in live(b) : x < a
  <2>1. /\ BufferOK(m) /\ a \in live(m) /\ live(b) \subseteq live(m)
        /\ \A x \in live(b) : m.usage[x] = b.usage[x]
        /\ m.completed = b.completed /\ m.pinned = b.pinned
        /\ \/ m = b
           \/ live(m) = live(b) \union {a} /\ \A x \in live(b) : x < a
    BY ONLY <1>1, <1>3, PrepareKeeps DEF m, a
  <2> QED
    BY <2>1, BufferParts
<1>5. /\ addresses[c] \in live(b) \union {0} /\ addresses[c] \in Addresses
      /\ code[c] \in [Refs -> Addresses] /\ code \in [Caches -> [Refs -> Addresses]]
  BY <1>1 DEF CodeInv, TypeOK, b
<1>6. code'[c] = [r \in Refs |-> IF r <= undone THEN addresses[c] ELSE IF r <= done THEN a ELSE code[c][r]]
  <2>1. code'[c] = RolledBack(code[c], a, addresses[c], done, undone)
    BY <1>2, <1>5
  <2> QED
    BY <2>1 DEF RolledBack, Retargeted
<1>7. InCode(c)' \subseteq InCode(c) \union {a, addresses[c]}
  BY <1>6 DEF InCode
<1>8. code' \in [Caches -> [Refs -> Addresses]]
  <2>1. code'[c] \in [Refs -> Addresses]
    BY <1>4, <1>5, <1>6
  <2> QED
    BY <1>2, <1>5, <2>1
<1>9. c \notin dirty' => InCode(c)' = {0} /\ addresses[c] = 0
  <2> SUFFICES ASSUME c \notin dirty' PROVE InCode(c)' = {0} /\ addresses[c] = 0
    OBVIOUS
  <2>1. undone = Operands /\ addresses[c] = 0 /\ 1 \in Refs
    BY <1>2 DEF Refs
  <2>2. \A r \in Refs : code'[c][r] = 0
    BY <1>6, <2>1 DEF Refs
  <2> QED
    BY <2>1, <2>2 DEF InCode
<1>10. /\ buffers'[c] = m /\ pending'[c] = NoUse /\ valid'[c] = valid[c] \ (live(b) \union {0})
       /\ \A d \in Caches \ {c} : /\ buffers'[d] = buffers[d] /\ valid'[d] = valid[d]
                                  /\ pending'[d] = pending[d] /\ InCode(d)' = InCode(d)
  BY <1>1, <1>2 DEF TypeOK, InCode
<1>11. a \notin valid'[c]
  <2>1. CASE m = b
    BY <1>4, <1>10, <2>1
  <2>2. CASE \A x \in live(b) : x < a
    <3>1. \A v \in valid[c] \ {0} : \E x \in live(b) : v <= x
      BY <1>1 DEF ValidInv, b
    <3>2. \A v \in valid[c] \ {0} : v < a
      <4> TAKE v \in valid[c] \ {0}
      <4>1. PICK x \in live(b) : v <= x
        BY <3>1
      <4>2. v \in Addresses /\ x \in Capacities /\ x < a
        BY <1>3, <2>2, <4>1
      <4> QED
        BY <1>4, <4>1, <4>2
    <3> QED
      BY <1>4, <1>10, <3>2
  <2> QED
    BY <1>4, <2>1, <2>2
<1>12. CacheTypes'
  <2>1. job' \in [Groups -> [step : {"idle", "reading", "building"}, at : SUBSET (Caches \X Addresses)]]
    BY <1>1 DEF TypeOK, Idle
  <2>2. addresses' \in [Caches -> Addresses] /\ pending' \in [Caches -> Uses \union {NoUse}]
    BY <1>1 DEF TypeOK
  <2>3. \A d \in Caches : BufferOK(buffers'[d]) /\ live(buffers'[d]) \subseteq Capacities
    BY <1>4, <1>10, BufferParts
  <2>4. dirty' \subseteq Caches /\ failing' \subseteq Caches /\ asked' \subseteq Caches /\ DOMAIN buffers' = Caches
    BY <1>1, <1>2 DEF TypeOK
  <2>5. valid' \in [Caches -> SUBSET Addresses]
    BY <1>1
  <2>6. /\ \A d \in Caches : valid'[d] \subseteq Addresses
        /\ snapshot' \in [Caches -> Uses \union {NoUse}]
        /\ orphans' \subseteq [step : {"reading", "building"}, at : SUBSET (Caches \X Addresses)]
        /\ mod' \in {"installed", "stopped", "dropped"}
    BY <1>1, <2>5 DEF TypeOK
  <2> QED
    BY <1>8, <2>1, <2>2, <2>3, <2>4, <2>5, <2>6 DEF TypeOK, CacheTypes
<1>13. JobInv'
  <2>1. \A o \in orphans', d \in Caches, x \in Addresses : <<d, x>> \in o.at => group[d] = Async
    BY <1>1 DEF JobInv
  <2>2. \A d \in Caches : group[d] # g => (d \in failing' => d \in failing) /\ (d \in asked' => d \in asked)
    BY <1>1 DEF g
  <2> QED
    BY <1>1, <2>1, <2>2, JobDoneInv
<1>14. \A d \in Caches : \A x : At(d, x)' => At(d, x)
  BY <1>1, JobDone DEF At
<1>15. \A x \in live(b) : (Out(b, x) => Out(m, x)) /\ (Given(b, x) => Given(m, x))
  BY <1>4 DEF Out, Given
<1>16. MemoryInv'
  <2> SUFFICES ASSUME NEW d \in Caches, NEW x \in Capacities
               PROVE  /\ x \in InCode(d)' => x \in live(buffers'[d])
                      /\ At(d, x)' => /\ x \in live(buffers'[d])
                                      /\ Out(buffers'[d], x) /\ Given(buffers'[d], x)
    BY DEF MemoryInv
  <2>1. CASE d = c
    <3>1. x \in InCode(c)' => x \in live(m)
      <4>1. x \in InCode(c) => x \in live(b)
        BY DEF MemoryInv, b
      <4> QED
        BY <1>4, <1>5, <1>7, <4>1
    <3>2. At(c, x)' => x \in live(b) /\ Out(b, x) /\ Given(b, x)
      BY <1>14 DEF MemoryInv, b
    <3> QED
      BY <1>4, <1>10, <1>15, <2>1, <3>1, <3>2
  <2>2. CASE d # c
    BY <1>10, <1>14, <2>2 DEF MemoryInv
  <2> QED
    BY <2>1, <2>2
<1>17. ValidInv'
  <2> SUFFICES ASSUME NEW d \in Caches, NEW v \in valid'[d] \ {0}
               PROVE  /\ \E x \in live(buffers'[d]) : v <= x
                      /\ v \in live(buffers'[d]) => Given(buffers'[d], v)
    BY DEF ValidInv
  <2>1. CASE d = c
    <3>1. v \in valid[c] \ {0} /\ v \notin live(b) /\ v # a
      BY <1>10, <1>11, <2>1
    <3>2. \E x \in live(b) : v <= x
      BY <1>1, <3>1 DEF ValidInv, b
    <3>3. v \notin live(m)
      BY <1>4, <3>1
    <3> QED
      BY <1>4, <1>10, <2>1, <3>2, <3>3
  <2>2. CASE d # c
    BY <1>1, <1>10, <2>2 DEF ValidInv
  <2> QED
    BY <2>1, <2>2
<1>18. AskedInv'
  <2> SUFFICES ASSUME NEW d \in Caches, NEW x \in Addresses, x \in InCode(d)' \intersect valid'[d]
               PROVE  d \notin failing' /\ (d \in asked' => Out(buffers'[d], x))
    BY DEF AskedInv
  <2>1. d # c
    <3>1. InCode(c)' \subseteq live(b) \union {0, a}
      <4>1. InCode(c) \subseteq live(b) \union {0}
        BY DEF b
      <4> QED
        BY <1>5, <1>7, <4>1
    <3> QED
      BY <1>10, <1>11, <3>1
  <2> QED
    BY <1>1, <1>10, <2>1 DEF AskedInv
<1>19. CodeInv'
  <2> SUFFICES ASSUME NEW d \in Caches
               PROVE  /\ d \notin dirty' => InCode(d)' = {0} /\ addresses[d] = 0
                      /\ addresses[d] \in live(buffers'[d]) \union {0}
                      /\ live(buffers'[d]) # {} /\ addresses[d] = Latest(buffers'[d]) =>
                           InCode(d)' = {addresses[d]}
    BY <1>1 DEF CodeInv
  <2>1. CASE d = c
    BY <1>1, <1>4, <1>5, <1>9, <1>10, <2>1 DEF a
  <2>2. CASE d # c
    BY <1>1, <1>2, <1>10, <2>2 DEF CodeInv
  <2> QED
    BY <2>1, <2>2
<1>20. PendingInv'
  BY <1>1, <1>10 DEF PendingInv
<1> QED
  BY <1>12, <1>13, <1>16, <1>17, <1>18, <1>19, <1>20 DEF CacheInv

\* Every step of the game and of the mod keeps it.
LEMMA CacheNext == ASSUME CacheInv, [Next]_vars PROVE CacheInv'
<1>1. CASE \E c \in Caches : \E size \in Sizes[c] : Load(c, size) \/ RetargetFails(c, size)
  BY <1>1, LoadStep, RetargetFailsStep
<1>2. CASE \E c \in Caches : LoadFails(c) \/ ReadDone(c) \/ ReadFails(c)
  BY <1>2, LoadFailsStep, ReadDoneStep, ReadFailsStep
<1>3. CASE \E g \in Groups : BeginBuild(g) \/ finish(g)
  BY <1>3, BeginBuildStep, FinishStep
<1>4. CASE Reset \/ OrphanEnds
  BY <1>4, ResetStep, OrphanEndsStep
<1>5. CASE Stop \/ Drop
  BY <1>5, StopStep, DropStep
<1>6. CASE restore \/ RestoreFails
  BY <1>6, RestoreStep
<1>7. CASE Dropped \/ UNCHANGED vars
  BY <1>7, CacheStutter DEF Dropped
<1> QED
  BY <1>1, <1>2, <1>3, <1>4, <1>5, <1>6, <1>7 DEF Next

\* The caches keep their invariant.
THEOREM CacheInvariant == Spec => []CacheInv
<1> QED
  BY CacheInit, CacheNext, PTL DEF Spec

\* What the game's code points at, and what a reader or a constructor works on, is
\* never freed, and counts as returned only when it is pinned
\* (equipment_cache.rs prepare, finish, drop; cache.rs complete, begin_use).
THEOREM CacheNativeMemoryLive == Spec => []NativeMemoryLive
<1>1. CacheInv => NativeMemoryLive
  <2> SUFFICES ASSUME CacheInv PROVE NativeMemoryLive
    OBVIOUS
  <2> USE CacheParts
  <2>1. \A c \in Caches : (InCode(c) \union Borrowed(c)) \ {0} \subseteq live(buffers[c])
    BY BorrowedAt DEF MemoryInv
  <2>2. \A c \in Caches : Borrowed(c) \intersect buffers[c].completed \subseteq buffers[c].pinned
    BY BorrowedAt, BufferParts DEF MemoryInv, Out
  <2>3. ASSUME NEW c \in Caches, mod = "installed"
        PROVE  /\ pending[c] # NoUse => InCode(c) = {pending[c].address} /\ addresses[c] = pending[c].address
               /\ c \in failing => InCode(c) \intersect valid[c] = {}
    BY <2>3 DEF PendingInv, AskedInv
  <2> QED
    BY <2>1, <2>2, <2>3 DEF NativeMemoryLive
<1> QED
  BY <1>1, CacheInvariant, PTL

------------------------------------------------------------------------------
(* Stage workspaces (stage_cache.rs)                                          *)

StageTypes ==
  /\ StageTypeOK
  /\ BufferOK(raw) /\ BufferOK(fmod) /\ BufferOK(fskl)

\* The game finds allocated memory, and after a restore none at all.
GlobalsInv ==
  /\ raw_global \in live(raw) \union {0}
  /\ decoded_global \in live(fmod) \union {0, Empty}
  /\ cell \in live(fskl) \union {Empty}
  /\ stage = "installed" => bound
  /\ ~bound => raw_global = 0 /\ decoded_global = 0
  /\ stage = "dropped" => ~bound /\ instructions = {}

\* What was decoded last is what the game finds; a builder works on that, and confirms
\* no other use.
BuilderInv ==
  /\ decoded_global # 0 => decoded = <<decoded_global, cell>>
  /\ builder # NoBuilder =>
       /\ stage = "installed" /\ decoded_global # 0
       /\ builder.at = <<decoded_global, cell>>
       /\ builder.uses # NoUses =>
            builder.uses[1].address = decoded_global /\ builder.uses[2].address = cell

StageInv ==
  /\ StageTypes
  /\ GlobalsInv
  /\ BuilderInv

USE StageAssumption DEF Empty

LEMMA StageInitially == StageInit => StageInv
<1> SUFFICES ASSUME StageInit PROVE StageInv
  OBVIOUS
<1>1. StageTypes
  <2>1. \A b \in {raw, fmod, fskl} : BufferOK(b) /\ live(b) \subseteq Capacities
    BY DefaultOK DEF StageInit
  <2>2. raw_global \in Addresses /\ decoded_global \in Addresses /\ cell = Empty
    BY DEF StageInit
  <2>3. instructions = {} /\ reservations = 0 /\ bound = FALSE /\ 0 \in 0 .. Patches
    BY DEF StageInit
  <2>4. uses = NoUses /\ raw_use = NoUse /\ stage = "absent"
    BY DEF StageInit
  <2> QED
    BY <2>1, <2>2, <2>3, <2>4 DEF StageTypes, StageTypeOK
<1> QED
  BY <1>1 DEF StageInit, StageInv, GlobalsInv, BuilderInv

\* A raw buffer is lent: the one before is returned by that.
LEMMA LoadStageStep == ASSUME StageInv, NEW size \in Capacities, LoadStage(size) PROVE StageInv'
<1> USE DEF StageInv, StageTypes
<1> DEFINE prepared == prepare(raw, size)
           a == Latest(prepared)
           confirmed == complete(prepared, raw_use)
           reclaimed == reclaim(confirmed, a)
<1>1. /\ stage = "installed" /\ builder = NoBuilder
      /\ raw_global' = a
      /\ raw' = begin_use(reclaimed, a)
      /\ raw_use' = UseOf(reclaimed, a)
      /\ UNCHANGED <<fmod, fskl, decoded_global, cell, uses, patching, builder, decoded, stage>>
  BY DEF LoadStage
<1> HIDE DEF prepared, a, confirmed, reclaimed
<1>2. BufferOK(prepared) /\ a \in live(prepared)
  BY PrepareKeeps DEF prepared, a
<1>3. BufferOK(confirmed) /\ live(confirmed) = live(prepared)
  BY <1>2, CompleteKeeps DEF confirmed
<1>4. BufferOK(reclaimed) /\ a \in live(reclaimed)
  BY <1>2, <1>3, ReclaimKeeps DEF reclaimed
<1>5. BufferOK(raw') /\ a \in live(raw')
  BY <1>1, <1>4, BeginUseKeeps
<1>6. a \in Capacities /\ live(raw') \subseteq Capacities
  BY <1>5, BufferParts
<1>7. raw_use' \in Uses \union {NoUse}
  BY <1>1, <1>4, <1>6, UseIs
<1>8. StageTypes'
  BY <1>1, <1>5, <1>6, <1>7 DEF StageTypeOK, patching
<1>9. GlobalsInv'
  <2>1. bound
    BY <1>1 DEF GlobalsInv
  <2> QED
    BY <1>1, <1>5, <2>1 DEF GlobalsInv, patching
<1>10. BuilderInv'
  BY <1>1 DEF BuilderInv
<1> QED
  BY <1>8, <1>9, <1>10

\* A pair is lent, and published together.
LEMMA DecodePairStep ==
    ASSUME StageInv, NEW size \in Capacities, NEW size2 \in Capacities, DecodePair(size, size2)
    PROVE  StageInv'
<1> USE DEF StageInv, StageTypes
<1> DEFINE m == prepare(fmod, size)
           k == prepare(fskl, size2)
           a == Latest(m)
           b == Latest(k)
<1>1. /\ stage = "installed" /\ builder = NoBuilder
      /\ fmod' = reclaim(begin_use(m, a), a)
      /\ fskl' = reclaim(begin_use(k, b), b)
      /\ uses' = IF NoUse \in {UseOf(m, a), UseOf(k, b)} THEN NoUses ELSE <<UseOf(m, a), UseOf(k, b)>>
      /\ decoded_global' = a /\ cell' = b
      /\ decoded' = <<a, b>>
      /\ UNCHANGED <<raw, raw_global, raw_use, patching, builder, stage>>
  BY DEF DecodePair
<1> HIDE DEF m, k, a, b
<1>2. BufferOK(m) /\ a \in live(m) /\ BufferOK(k) /\ b \in live(k)
  BY PrepareKeeps DEF m, k, a, b
<1>3. BufferOK(fmod') /\ a \in live(fmod')
  BY <1>1, LendKeeps DEF m, a
<1>4. BufferOK(fskl') /\ b \in live(fskl')
  BY <1>1, LendKeeps DEF k, b
<1>5. live(fmod') \subseteq Capacities /\ live(fskl') \subseteq Capacities
  BY <1>3, <1>4, BufferParts
<1>6. uses' \in (Uses \X Uses) \union {NoUses}
  <2>1. UseOf(m, a) \in Uses \union {NoUse} /\ UseOf(k, b) \in Uses \union {NoUse}
    BY <1>2, <1>3, <1>4, <1>5, UseIs
  <2> QED
    BY <1>1, <2>1
<1>7. StageTypes'
  <2>1. live(raw) \subseteq Capacities /\ BufferOK(raw)
    BY BufferParts
  <2> QED
    BY <1>1, <1>3, <1>4, <1>5, <1>6, <2>1 DEF StageTypeOK, patching
<1>8. GlobalsInv'
  BY <1>1, <1>3, <1>4 DEF GlobalsInv, patching
<1>9. BuilderInv'
  BY <1>1 DEF BuilderInv
<1> QED
  BY <1>7, <1>8, <1>9

\* Nothing of the model is left for the builder.
LEMMA DecodeFailsStep == ASSUME StageInv, NEW size \in Capacities, DecodeFails(size) PROVE StageInv'
<1> USE DEF StageInv, StageTypes
<1>1. /\ stage = "installed" /\ builder = NoBuilder
      /\ fmod' \in {fmod, prepare(fmod, size)}
      /\ uses' = NoUses /\ decoded_global' = Empty /\ cell' = Empty /\ decoded' = <<Empty, Empty>>
      /\ UNCHANGED <<raw, fskl, raw_global, raw_use, patching, builder, stage>>
  BY DEF DecodeFails, reject_pair, Rejected
<1>2. BufferOK(fmod')
  BY <1>1, PrepareKeeps
<1>3. live(fmod') \subseteq Capacities
  BY <1>2, BufferParts
<1>4. StageTypes'
  BY <1>1, <1>2, <1>3 DEF StageTypeOK, patching
<1>5. GlobalsInv'
  BY <1>1 DEF GlobalsInv, patching
<1>6. BuilderInv'
  BY <1>1 DEF BuilderInv
<1> QED
  BY <1>4, <1>5, <1>6

\* The builder starts from what the game finds.
LEMMA ConstructStep == ASSUME StageInv, Construct PROVE StageInv'
<1> USE DEF StageInv, StageTypes
<1>1. /\ stage = "installed" /\ builder = NoBuilder /\ decoded_global # 0
      /\ builder' = [at |-> <<decoded_global, cell>>,
                     uses |-> IF uses[1].address = decoded_global /\ uses[2].address = cell
                              THEN uses ELSE NoUses]
      /\ UNCHANGED <<buffersVars, globals, raw_use, uses, patching, decoded, stage>>
  BY DEF Construct
<1>2. StageTypes' /\ GlobalsInv'
  BY <1>1 DEF StageTypeOK, GlobalsInv, buffersVars, globals, patching
<1>3. BuilderInv'
  BY <1>1 DEF BuilderInv, globals
<1> QED
  BY <1>2, <1>3

\* It returned: the pair that it worked on is confirmed, and stays where it is.
LEMMA FinishPairStep == ASSUME StageInv, FinishPair PROVE StageInv'
<1> USE DEF StageInv, StageTypes
<1>1. /\ builder # NoBuilder /\ builder' = NoBuilder
      /\ UNCHANGED <<raw, globals, raw_use, patching, decoded, stage>>
  BY DEF FinishPair
<1>2. BuilderInv'
  BY <1>1 DEF BuilderInv, globals
<1>3. CASE UNCHANGED <<uses, fmod, fskl>>
  <2>1. StageTypes' /\ GlobalsInv'
    BY <1>1, <1>3 DEF StageTypeOK, GlobalsInv, globals, patching
  <2> QED
    BY <1>2, <2>1
<1>4. CASE builder.uses # NoUses /\ uses = builder.uses
  <2>1. /\ uses' = NoUses
        /\ fmod' = reclaim(complete(fmod, uses[1]), uses[1].address)
        /\ fskl' = reclaim(complete(fskl, uses[2]), uses[2].address)
    BY <1>4 DEF FinishPair
  <2>2. uses[1].address = decoded_global /\ uses[2].address = cell
    BY <1>1, <1>4 DEF BuilderInv
  <2>3. uses \in Uses \X Uses
    BY <1>4 DEF StageTypeOK
  <2>4. decoded_global \in Capacities /\ cell \in Capacities
    BY <2>2, <2>3 DEF Uses
  <2>5. decoded_global \in live(fmod) /\ cell \in live(fskl)
    BY <2>4 DEF GlobalsInv
  <2>6. BufferOK(fmod') /\ decoded_global \in live(fmod')
    BY <2>1, <2>2, <2>5, ConfirmKeeps
  <2>7. BufferOK(fskl') /\ cell \in live(fskl')
    BY <2>1, <2>2, <2>5, ConfirmKeeps
  <2>8. live(fmod') \subseteq Capacities /\ live(fskl') \subseteq Capacities
    BY <2>6, <2>7, BufferParts
  <2>9. StageTypes'
    BY <1>1, <2>1, <2>6, <2>7, <2>8 DEF StageTypeOK, globals, patching
  <2>10. GlobalsInv'
    BY <1>1, <2>6, <2>7 DEF GlobalsInv, globals, patching
  <2> QED
    BY <1>2, <2>9, <2>10
<1> QED
  BY <1>3, <1>4 DEF FinishPair

\* Patches are applied, undone, or stuck half-way; the globals are put back with the
\* last of them.
LEMMA PatchingStep ==
    ASSUME StageInv, install \/ InstallFails \/ RestoreStage \/ DropStage
    PROVE  StageInv'
<1> USE DEF StageInv, StageTypes
<1>1. /\ UNCHANGED <<buffersVars, cell, raw_use, uses, builder, decoded>>
      /\ stage # "installed"
      /\ stage' \in {"installed", "failed", "stopped", "dropped", "kept"}
      /\ stage' = "dropped" => Restored
  BY DEF install, InstallFails, RestoreStage, DropStage, Leaves, StuckAt, globals
<1>2. /\ instructions' \subseteq 1 .. Patches /\ reservations' \in 0 .. Patches /\ bound' \in BOOLEAN
      /\ raw_global' \in {0, raw_global} /\ decoded_global' \in {0, decoded_global}
      /\ ~bound' => raw_global' = 0 /\ decoded_global' = 0
      /\ stage' = "installed" => bound'
  <2> USE DEF StageTypeOK, GlobalsInv
  <2>1. CASE install
    BY <2>1 DEF install, globals
  <2>2. CASE InstallFails
    BY <2>2 DEF InstallFails, globals
  <2>3. CASE stage' # "installed" /\ Restored
    <3>1. instructions' = {} /\ reservations' = 0 /\ bound' = FALSE /\ 0 \in 0 .. Patches
      BY <2>3 DEF Restored
    <3>2. raw_global' = 0 /\ decoded_global' = 0
      BY <2>3 DEF Restored
    <3> QED
      BY <2>3, <3>1, <3>2
  <2>4. ASSUME NEW left \in 1 .. reservations, stage' # "installed", StuckAt(left)
        PROVE  /\ instructions' \subseteq 1 .. Patches /\ reservations' \in 0 .. Patches
               /\ UNCHANGED <<bound, raw_global, decoded_global>>
    BY <2>4 DEF StuckAt
  <2> QED
    BY <1>1, <2>1, <2>2, <2>3, <2>4 DEF RestoreStage, DropStage
<1>3. StageTypes'
  BY <1>1, <1>2 DEF StageTypeOK, buffersVars
<1>4. GlobalsInv'
  BY <1>1, <1>2 DEF GlobalsInv, buffersVars, Restored
<1>5. BuilderInv'
  BY <1>1, <1>2 DEF BuilderInv
<1> QED
  BY <1>3, <1>4, <1>5

\* Nothing the game can reach changes.
LEMMA StageRestStep ==
    ASSUME StageInv, Unwinds \/ StopStage \/ StageOver \/ UNCHANGED stageVars
    PROVE  StageInv'
<1>1. /\ UNCHANGED <<buffersVars, globals, raw_use, uses, patching, decoded>>
      /\ \/ UNCHANGED <<builder, stage>>
         \/ builder' = NoBuilder /\ UNCHANGED stage
         \/ builder = NoBuilder /\ UNCHANGED builder /\ stage' = "stopped"
  BY DEF Unwinds, StopStage, StageOver, stageVars, buffersVars, globals, patching
<1>2. StageTypes' /\ GlobalsInv' /\ BuilderInv'
  BY <1>1 DEF StageInv, StageTypes, StageTypeOK, GlobalsInv, BuilderInv, buffersVars, globals, patching
<1> QED
  BY <1>2 DEF StageInv

\* The workspaces keep their invariant.
THEOREM StageInvariant == StageSpec => []StageInv
<1>1. ASSUME StageInv, [StageNext]_stageVars PROVE StageInv'
  BY <1>1, LoadStageStep, DecodePairStep, DecodeFailsStep, ConstructStep, FinishPairStep,
     PatchingStep, StageRestStep DEF StageNext
<1> QED
  BY <1>1, StageInitially, PTL DEF StageSpec

\* What the game may still read of a stage was not freed, also after an install or a
\* restore that stopped half-way and after the drop, and a builder gets the two halves
\* of the pair decoded last (stage_cache.rs prepare_raw, prepare_pair, reject_pair, drop).
THEOREM StageWorkspacesLive == StageSpec => []StageMemoryLive
<1>1. StageInv => StageMemoryLive
  BY DEF StageInv, StageTypes, GlobalsInv, BuilderInv, StageMemoryLive, Freed
<1> QED
  BY <1>1, StageInvariant, PTL
==============================================================================
