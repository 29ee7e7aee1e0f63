------------------------------ MODULE FilesProofs ------------------------------
(***************************************************************************)
(* Proofs about what the programs keep on disk: which of the packages are  *)
(* chosen, for any catalogue and selection (Resolver); imports of          *)
(* packages, for any packages and any number of imports at a time          *)
(* (PackageImport); the configuration provider, for any sections,          *)
(* registrations and values (ConfigStore); and the mod manager, for any    *)
(* table of mods (ModManager).                                             *)
(*                                                                         *)
(* The functions of the resolver are recursive.  That a recursion has a    *)
(* solution, and what it computes, is shown by the least argument where it *)
(* would not hold, over sets of numbers (LeastNumber, Recursion).          *)
(***************************************************************************)
EXTENDS Resolver, PackageImport, ConfigStore, ModManager, FiniteSetTheorems,
        WellFoundedInduction, TLAPS

(***************************************************************************)
(* Recursive functions                                                     *)
(***************************************************************************)

\* The least-number principle, for a set of numbers.
LEMMA LeastNumber == \A S \in SUBSET Nat : S # {} => \E m \in S : \A k \in S : m <= k
<1> SUFFICES ASSUME NEW S \in SUBSET Nat, S # {}
             PROVE  \E m \in S : \A k \in S : m <= k
  OBVIOUS
<1>1. IsWellFoundedOn({ss \in Nat \X Nat : ss[1] < ss[2]}, Nat)
  BY NatLessThanWellFounded DEF OpToRel
<1>2. PICK m \in S : \A k \in S : <<k, m>> \notin {ss \in Nat \X Nat : ss[1] < ss[2]}
  BY <1>1, WFMin
<1>3. \A k \in S : ~(k < m)
  <2> TAKE k \in S
  <2>1. <<k, m>> \in Nat \X Nat /\ <<k, m>>[1] = k /\ <<k, m>>[2] = m
    OBVIOUS
  <2> QED
    BY <1>2, <2>1
<1> QED
  BY <1>3

\* The steps of a recursion on X, with values in Y, look only at smaller arguments.
Recursive(X, Y, m, step) ==
    /\ Y # {} /\ m \in [X -> Nat] /\ step \in [X \X [X -> Y] -> Y]
    /\ \A x \in X : \A f, g \in [X -> Y] :
          (\A z \in X : m[z] < m[x] => f[z] = g[z]) => step[<<x, f>>] = step[<<x, g>>]
Solved(X, Y, step) == \E f \in [X -> Y] : \A x \in X : f[x] = step[<<x, f>>]

\* A recursion whose steps look only at smaller arguments has a solution: there is one
\* up to every size, they agree where both are one, and the solution has at each
\* argument the value of the one that is large enough.
LEMMA Recursion == ASSUME NEW X, NEW Y, NEW m, NEW step, Recursive(X, Y, m, step) PROVE Solved(X, Y, step)
<1> SUFFICES \E f \in [X -> Y] : \A x \in X : f[x] = step[<<x, f>>]
  BY DEF Solved
<1> USE DEF Recursive
<1> DEFINE Good(n, f) == \A x \in X : m[x] < n => f[x] = step[<<x, f>>]
           None == {n \in Nat : ~\E f \in [X -> Y] : Good(n, f)}
<1>1. None = {}
  <2> SUFFICES ASSUME None # {} PROVE FALSE
    OBVIOUS
  <2>1. None \in SUBSET Nat
    OBVIOUS
  <2>2. PICK n \in None : \A k \in None : n <= k
    BY <2>1, LeastNumber
  <2>3. n # 0
    <3>1. PICK y \in Y : TRUE
      OBVIOUS
    <3>2. [x \in X |-> y] \in [X -> Y] /\ Good(0, [x \in X |-> y])
      OBVIOUS
    <3>3. 0 \notin None
      BY <3>2
    <3> QED
      BY <2>2, <3>3
  <2>4. n \in Nat /\ n - 1 \in Nat /\ n - 1 < n
    BY <2>3
  <2>8. n - 1 \notin None
    <3> SUFFICES ASSUME n - 1 \in None PROVE FALSE
      OBVIOUS
    <3>1. n <= n - 1
      <4> HIDE DEF None
      <4> QED
        BY <2>2
    <3> QED
      BY <2>4, <3>1
  <2>5. PICK f \in [X -> Y] : Good(n - 1, f)
    BY <2>4, <2>8
  <2> DEFINE g == [x \in X |-> step[<<x, f>>]]
  <2>6. g \in [X -> Y]
    OBVIOUS
  <2>7. Good(n, g)
    <3> SUFFICES ASSUME NEW x \in X, m[x] < n PROVE g[x] = step[<<x, g>>]
      OBVIOUS
    <3>1. \A z \in X : m[z] < m[x] => f[z] = g[z]
      BY <2>5
    <3> QED
      BY <2>6, <3>1
  <2> QED
    BY <2>2, <2>6, <2>7
<1>2. ASSUME NEW n \in Nat, NEW k \in Nat, NEW f \in [X -> Y], NEW g \in [X -> Y],
             Good(n, f), Good(k, g), n <= k
      PROVE  \A x \in X : m[x] < n => f[x] = g[x]
  <2> DEFINE wrong == {i \in Nat : \E x \in X : m[x] = i /\ i < n /\ f[x] # g[x]}
  <2> SUFFICES ASSUME wrong # {} PROVE FALSE
    OBVIOUS
  <2>1. wrong \in SUBSET Nat
    OBVIOUS
  <2>2. PICK i \in wrong : \A j \in wrong : i <= j
    BY <2>1, LeastNumber
  <2>3. PICK x \in X : m[x] = i /\ i < n /\ f[x] # g[x]
    BY <2>2
  <2>4. \A z \in X : m[z] < m[x] => f[z] = g[z]
    BY <2>2, <2>3
  <2>5. step[<<x, f>>] = step[<<x, g>>]
    BY <2>4
  <2>6. m[x] < n /\ m[x] < k
    BY <1>2, <2>3
  <2>7. f[x] = step[<<x, f>>] /\ g[x] = step[<<x, g>>]
    BY <1>2, <2>6
  <2> QED
    BY <2>3, <2>5, <2>7
<1> DEFINE F(n) == CHOOSE f \in [X -> Y] : Good(n, f)
           h == [x \in X |-> F(m[x] + 1)[x]]
<1>3. \A n \in Nat : F(n) \in [X -> Y] /\ Good(n, F(n))
  BY <1>1
<1> HIDE DEF F
<1>4. h \in [X -> Y]
  BY <1>3
<1>5. ASSUME NEW x \in X PROVE h[x] = step[<<x, h>>]
  <2>0. m[x] \in Nat /\ m[x] + 1 \in Nat /\ m[x] < m[x] + 1
    OBVIOUS
  <2>1. F(m[x] + 1) \in [X -> Y] /\ h[x] = step[<<x, F(m[x] + 1)>>]
    BY <1>3, <2>0
  <2>2. ASSUME NEW z \in X, m[z] < m[x] PROVE h[z] = F(m[x] + 1)[z]
    <3>0. m[z] + 1 \in Nat
      OBVIOUS
    <3>1. Good(m[z] + 1, F(m[z] + 1)) /\ Good(m[x] + 1, F(m[x] + 1))
      BY <1>3, <2>0, <3>0
    <3>2. m[z] + 1 \in Nat /\ m[x] + 1 \in Nat /\ m[z] + 1 <= m[x] + 1 /\ m[z] < m[z] + 1
      BY <2>2
    <3>3. F(m[z] + 1) \in [X -> Y] /\ F(m[x] + 1) \in [X -> Y]
      BY <1>3, <3>2
    <3>4. F(m[z] + 1)[z] = F(m[x] + 1)[z]
      <4> HIDE DEF Good
      <4> QED
        BY <1>2, <3>1, <3>2, <3>3, SMTT(30)
    <3> QED
      BY <3>4
  <2>3. step[<<x, F(m[x] + 1)>>] = step[<<x, h>>]
    BY <1>4, <2>1, <2>2
  <2> QED
    BY <2>1, <2>3
<1> QED
  BY <1>4, <1>5

(***************************************************************************)
(* The order of a selection (visit)                                        *)
(***************************************************************************)

\* What is known of some mods is a function on a set of mods.
LEMMA PartialIs == ASSUME NEW T, NEW f \in Partial(T) PROVE DOMAIN f \in SUBSET Ids /\ f \in [DOMAIN f -> T]
BY DEF Partial

LEMMA IsPartial == ASSUME NEW T, NEW S \in SUBSET Ids, NEW f \in [S -> T] PROVE f \in Partial(T)
BY DEF Partial

\* What a version of a mod requires.
LEMMA DepsAre == ASSUME NEW in \in Problems, NEW id \in Ids, NEW v \in Versions
                 PROVE  /\ DOMAIN Deps(in, id, v) \in SUBSET Ids
                        /\ Deps(in, id, v) \in [DOMAIN Deps(in, id, v) -> SUBSET Versions]
<1>1. Deps(in, id, v) \in Partial(SUBSET Versions)
  BY DEF Problems, Deps
<1> QED
  BY <1>1, PartialIs

\* The first of some mods is one of them.
LEMMA FirstIs == ASSUME NEW S \in SUBSET Ids, S # {} PROVE First(S) \in S
<1>1. S \in SUBSET Nat
  BY ResolverAssumption
<1>2. \E m \in S : \A k \in S : m <= k
  BY <1>1, LeastNumber
<1> QED
  BY <1>2 DEF First

\* A part of a finite set is smaller.
LEMMA Smaller ==
    ASSUME NEW S, IsFiniteSet(S), NEW T \in SUBSET S
    PROVE  /\ IsFiniteSet(T) /\ Cardinality(T) \in Nat /\ Cardinality(S) \in Nat
           /\ Cardinality(T) <= Cardinality(S) /\ (T # S => Cardinality(T) < Cardinality(S))
<1>1. IsFiniteSet(T) /\ Cardinality(T) <= Cardinality(S) /\ (Cardinality(T) = Cardinality(S) => S = T)
  BY FS_Subset
<1>2. Cardinality(T) \in Nat /\ Cardinality(S) \in Nat
  BY <1>1, FS_CardinalityType
<1> QED
  BY <1>1, <1>2

\* A pair of numbers, the second at most n, as one number.
LEMMA Lexicographic ==
    ASSUME NEW a \in Nat, NEW b \in Nat, NEW t \in Nat, NEW u \in Nat, NEW n \in Nat, a < b, t <= n
    PROVE  a * (n + 1) + t < b * (n + 1) + u
<1>1. PICK c \in Nat : b = a + 1 + c
  <2>1. b - a - 1 \in Nat /\ b = a + 1 + (b - a - 1)
    OBVIOUS
  <2> QED
    BY <2>1
<1>2. b * (n + 1) = a * (n + 1) + (n + 1) + c * (n + 1)
  BY <1>1
<1>3. c * (n + 1) \in Nat /\ a * (n + 1) \in Nat /\ b * (n + 1) \in Nat
  OBVIOUS
<1> QED
  BY <1>2, <1>3

\* A selection that has what its mods require.
Complete(in, sel) == in \in Problems /\ sel \in Partial(Versions) /\ Closed(in, sel, DOMAIN sel)
Outcomes(sel) == [cycle : BOOLEAN, order : Seq(DOMAIN sel)]
Size(sel, x) == Cardinality(DOMAIN sel \ x.stack) * (Cardinality(DOMAIN sel) + 1) + Cardinality(x.todo)

\* The two arguments visit goes on with.
Below(in, sel, x) == [todo  |-> DOMAIN Deps(in, First(x.todo), sel[First(x.todo)]),
                      stack |-> x.stack \cup {First(x.todo)},
                      order |-> x.order]
After(x, order) == [todo |-> x.todo \ {First(x.todo)}, stack |-> x.stack, order |-> order]

LEMMA SelectedFinite == ASSUME NEW sel \in Partial(Versions) PROVE IsFiniteSet(DOMAIN sel)
<1>1. DOMAIN sel \in SUBSET Ids
  BY PartialIs
<1> QED
  BY <1>1, ResolverAssumption, FS_Subset

LEMMA SizeIs == ASSUME NEW sel \in Partial(Versions), NEW x \in Walks(sel) PROVE Size(sel, x) \in Nat
<1>1. IsFiniteSet(DOMAIN sel) /\ x.todo \in SUBSET DOMAIN sel
  BY SelectedFinite DEF Walks
<1>2. Cardinality(DOMAIN sel) \in Nat /\ Cardinality(x.todo) \in Nat
      /\ Cardinality(DOMAIN sel \ x.stack) \in Nat
  BY <1>1, Smaller
<1> QED
  BY <1>2 DEF Size

\* visit goes on with smaller arguments: more mods being visited, or fewer to visit.
LEMMA WalksSmaller ==
    ASSUME NEW in, NEW sel, Complete(in, sel), NEW x \in Walks(sel), x.todo # {}
    PROVE  /\ Size(sel, x) \in Nat
           /\ First(x.todo) \in x.todo /\ First(x.todo) \in DOMAIN sel
           /\ DOMAIN Deps(in, First(x.todo), sel[First(x.todo)]) \in SUBSET DOMAIN sel
           /\ First(x.todo) \notin x.stack =>
                 Below(in, sel, x) \in Walks(sel) /\ Size(sel, Below(in, sel, x)) < Size(sel, x)
           /\ \A order \in Seq(DOMAIN sel) :
                 After(x, order) \in Walks(sel) /\ Size(sel, After(x, order)) < Size(sel, x)
<1> DEFINE D == DOMAIN sel
           id == First(x.todo)
           needs == DOMAIN Deps(in, id, sel[id])
<1>1. D \in SUBSET Ids /\ IsFiniteSet(D)
  BY PartialIs, SelectedFinite DEF Complete
<1>2. x.todo \in SUBSET D /\ x.stack \in SUBSET D /\ x.order \in Seq(D)
  BY DEF Walks
<1>3. id \in x.todo /\ id \in D
  BY <1>1, <1>2, FirstIs
<1>4. needs \in SUBSET D
  BY <1>3 DEF Complete, Closed
<1> HIDE DEF D, needs
<1>5. Cardinality(D) \in Nat /\ Cardinality(x.todo) \in Nat /\ Cardinality(D \ x.stack) \in Nat
  BY <1>1, <1>2, Smaller
<1>6. Size(sel, x) \in Nat
  BY <1>5 DEF Size, D
<1>7. ASSUME id \notin x.stack
      PROVE  Below(in, sel, x) \in Walks(sel) /\ Size(sel, Below(in, sel, x)) < Size(sel, x)
  <2>1. Below(in, sel, x) = [todo |-> needs, stack |-> x.stack \cup {id}, order |-> x.order]
    BY DEF Below, needs
  <2>2. Below(in, sel, x) \in Walks(sel)
    BY <1>2, <1>3, <1>4, <2>1 DEF Walks, D
  <2>3. IsFiniteSet(D \ x.stack) /\ D \ (x.stack \cup {id}) \in SUBSET (D \ x.stack)
        /\ D \ (x.stack \cup {id}) # D \ x.stack
    BY <1>1, <1>3, <1>7, Smaller
  <2>4. Cardinality(D \ (x.stack \cup {id})) \in Nat
        /\ Cardinality(D \ (x.stack \cup {id})) < Cardinality(D \ x.stack)
    BY <2>3, Smaller
  <2>5. Cardinality(needs) \in Nat /\ Cardinality(needs) <= Cardinality(D)
    BY <1>1, <1>4, Smaller
  <2>6. Cardinality(D \ (x.stack \cup {id})) * (Cardinality(D) + 1) + Cardinality(needs)
        < Cardinality(D \ x.stack) * (Cardinality(D) + 1) + Cardinality(x.todo)
    BY <1>5, <2>4, <2>5, Lexicographic
  <2> QED
    BY <2>1, <2>2, <2>6 DEF Size, D
<1>8. ASSUME NEW order \in Seq(D)
      PROVE  After(x, order) \in Walks(sel) /\ Size(sel, After(x, order)) < Size(sel, x)
  <2>1. After(x, order) = [todo |-> x.todo \ {id}, stack |-> x.stack, order |-> order]
    BY DEF After
  <2>2. After(x, order) \in Walks(sel)
    BY <1>2, <1>3, <2>1 DEF Walks, D
  <2>3. IsFiniteSet(x.todo) /\ x.todo \ {id} \in SUBSET x.todo /\ x.todo \ {id} # x.todo
    BY <1>1, <1>2, <1>3, Smaller
  <2>4. Cardinality(x.todo \ {id}) < Cardinality(x.todo) /\ Cardinality(x.todo \ {id}) \in Nat
    BY <2>3, Smaller
  <2>5. Cardinality(D \ x.stack) * (Cardinality(D) + 1) \in Nat
    BY <1>5
  <2>6. Cardinality(D \ x.stack) * (Cardinality(D) + 1) + Cardinality(x.todo \ {id})
        < Cardinality(D \ x.stack) * (Cardinality(D) + 1) + Cardinality(x.todo)
    BY <1>5, <2>4, <2>5
  <2> QED
    BY <2>1, <2>2, <2>6 DEF Size, D
<1> QED
  BY <1>3, <1>4, <1>6, <1>7, <1>8 DEF D, needs

\* A step of visit by its cases.
LEMMA VisitCases ==
    ASSUME NEW in, NEW sel, NEW visit, NEW x
    PROVE  LET id == First(x.todo)
           IN  /\ x.todo = {} => Visit(in, sel, visit, x) = [cycle |-> FALSE, order |-> x.order]
               /\ x.todo # {} /\ id \in Listed(x.order) =>
                     Visit(in, sel, visit, x) = visit[After(x, x.order)]
               /\ x.todo # {} /\ id \notin Listed(x.order) /\ id \in x.stack =>
                     Visit(in, sel, visit, x) = Cyclic
               /\ x.todo # {} /\ id \notin Listed(x.order) /\ id \notin x.stack =>
                     Visit(in, sel, visit, x) =
                        IF visit[Below(in, sel, x)].cycle THEN Cyclic
                        ELSE visit[After(x, Append(visit[Below(in, sel, x)].order, id))]
BY DEF Visit, Below, After

\* A step of visit ends with an outcome if those it goes on with do, and depends on
\* those alone.
LEMMA VisitIsOutcome ==
    ASSUME NEW in, NEW sel, Complete(in, sel), NEW x \in Walks(sel),
           NEW visit \in [Walks(sel) -> Outcomes(sel)]
    PROVE  Visit(in, sel, visit, x) \in Outcomes(sel)
<1> DEFINE id == First(x.todo)
<1>1. Cyclic \in Outcomes(sel)
  BY DEF Cyclic, Outcomes
<1>2. x.order \in Seq(DOMAIN sel)
  BY DEF Walks
<1>3. CASE x.todo = {}
  BY <1>2, <1>3 DEF Visit, Outcomes
<1>4. CASE x.todo # {} /\ id \in Listed(x.order)
  BY <1>2, <1>4, VisitCases, WalksSmaller
<1>5. CASE x.todo # {} /\ id \notin Listed(x.order) /\ id \in x.stack
  BY <1>1, <1>5, VisitCases
<1>6. CASE x.todo # {} /\ id \notin Listed(x.order) /\ id \notin x.stack
  <2>1. Below(in, sel, x) \in Walks(sel) /\ id \in DOMAIN sel
    BY <1>6, WalksSmaller
  <2>2. visit[Below(in, sel, x)].order \in Seq(DOMAIN sel)
    BY <2>1 DEF Outcomes
  <2>3. Append(visit[Below(in, sel, x)].order, id) \in Seq(DOMAIN sel)
    BY <2>1, <2>2
  <2>4. After(x, Append(visit[Below(in, sel, x)].order, id)) \in Walks(sel)
    BY <1>6, <2>3, WalksSmaller
  <2> QED
    BY <1>1, <1>6, <2>4, VisitCases
<1> QED
  BY <1>3, <1>4, <1>5, <1>6

LEMMA VisitDepends ==
    ASSUME NEW in, NEW sel, Complete(in, sel), NEW x \in Walks(sel),
           NEW f \in [Walks(sel) -> Outcomes(sel)], NEW g \in [Walks(sel) -> Outcomes(sel)],
           \A z \in Walks(sel) : Size(sel, z) < Size(sel, x) => f[z] = g[z]
    PROVE  Visit(in, sel, f, x) = Visit(in, sel, g, x)
<1> DEFINE id == First(x.todo)
<1>2. x.order \in Seq(DOMAIN sel)
  BY DEF Walks
<1>3. CASE x.todo = {}
  BY <1>3 DEF Visit
<1>4. CASE x.todo # {} /\ id \in Listed(x.order)
  BY <1>2, <1>4, VisitCases, WalksSmaller
<1>5. CASE x.todo # {} /\ id \notin Listed(x.order) /\ id \in x.stack
  BY <1>5, VisitCases
<1>6. CASE x.todo # {} /\ id \notin Listed(x.order) /\ id \notin x.stack
  <2>1. /\ Below(in, sel, x) \in Walks(sel) /\ id \in DOMAIN sel
        /\ f[Below(in, sel, x)] = g[Below(in, sel, x)]
    BY <1>6, WalksSmaller
  <2>2. f[Below(in, sel, x)].order \in Seq(DOMAIN sel)
    BY <2>1 DEF Outcomes
  <2> DEFINE next == After(x, Append(f[Below(in, sel, x)].order, id))
  <2>3. Append(f[Below(in, sel, x)].order, id) \in Seq(DOMAIN sel)
    BY <2>1, <2>2
  <2>4. next \in Walks(sel) /\ Size(sel, next) < Size(sel, x)
    BY <1>6, <2>3, WalksSmaller
  <2>5. f[next] = g[next]
    BY <2>4
  <2>6. next = After(x, Append(g[Below(in, sel, x)].order, id))
    BY <2>1
  <2>7. Visit(in, sel, f, x) = IF f[Below(in, sel, x)].cycle THEN Cyclic ELSE f[next]
    BY <1>6, VisitCases
  <2> HIDE DEF next
  <2>8. Visit(in, sel, g, x) = IF g[Below(in, sel, x)].cycle THEN Cyclic ELSE g[next]
    BY <1>6, <2>6, VisitCases
  <2> QED
    BY <2>1, <2>5, <2>7, <2>8
<1> QED
  BY <1>3, <1>4, <1>5, <1>6

\* So the recursion has a solution.
LEMMA VisitExists ==
    ASSUME NEW in, NEW sel, Complete(in, sel)
    PROVE  \E visit \in [Walks(sel) -> Outcomes(sel)] :
              visit = [x \in Walks(sel) |-> Visit(in, sel, visit, x)]
<1> DEFINE X == Walks(sel)
           Y == Outcomes(sel)
           m == [x \in X |-> Size(sel, x)]
           step == [p \in X \X [X -> Y] |-> Visit(in, sel, p[2], p[1])]
<1>1. Y # {}
  <2>1. Cyclic \in Y
    BY DEF Cyclic, Outcomes
  <2> QED
    BY <2>1
<1>2. m \in [X -> Nat]
  BY SizeIs DEF Complete
<1>3. \A x \in X, f \in [X -> Y] : step[<<x, f>>] = Visit(in, sel, f, x) /\ step[<<x, f>>] \in Y
  BY VisitIsOutcome
<1>4. step \in [X \X [X -> Y] -> Y]
  BY VisitIsOutcome
<1>5. \A x \in X : \A f, g \in [X -> Y] :
         (\A z \in X : m[z] < m[x] => f[z] = g[z]) => step[<<x, f>>] = step[<<x, g>>]
  BY <1>3, VisitDepends
<1> HIDE DEF X, Y, m, step
<1>6. Recursive(X, Y, m, step)
  BY <1>1, <1>2, <1>4, <1>5 DEF Recursive
<1>9. Solved(X, Y, step)
  BY <1>6, Recursion
<1>7. PICK f \in [X -> Y] : \A x \in X : f[x] = Visit(in, sel, f, x)
  BY <1>3, <1>9 DEF Solved
<1>8. f = [x \in X |-> Visit(in, sel, f, x)]
  BY <1>7
<1> QED
  BY <1>8 DEF X, Y

\* b has to be there wherever what a requires is.
LeadsTo(in, sel, a, b) == \A T \in SUBSET DOMAIN sel :
    Closed(in, sel, T) /\ DOMAIN Deps(in, a, sel[a]) \subseteq T => b \in T

\* Each mod once and after what it requires.
Layered(in, sel, order) ==
    /\ \A i, j \in DOMAIN order : order[i] = order[j] => i = j
    /\ \A i, j \in DOMAIN order : order[j] \in DOMAIN Deps(in, order[i], sel[order[i]]) => j < i
    /\ \A i \in DOMAIN order : DOMAIN Deps(in, order[i], sel[order[i]]) \subseteq Listed(order)

\* The list with one mod more.
LEMMA AppendListed ==
    ASSUME NEW D, NEW order \in Seq(D), NEW id \in D
    PROVE  /\ Append(order, id) \in Seq(D) /\ Listed(Append(order, id)) = Listed(order) \cup {id}
           /\ DOMAIN Append(order, id) = DOMAIN order \cup {Len(order) + 1}
           /\ DOMAIN order = 1 .. Len(order) /\ Len(order) \in Nat
           /\ \A i \in DOMAIN order : Append(order, id)[i] = order[i]
           /\ Append(order, id)[Len(order) + 1] = id
<1> DEFINE longer == Append(order, id)
<1>1. /\ longer \in Seq(D) /\ Len(order) \in Nat /\ Len(longer) = Len(order) + 1
      /\ DOMAIN order = 1 .. Len(order) /\ DOMAIN longer = 1 .. Len(order) + 1
      /\ \A i \in 1 .. Len(order) : longer[i] = order[i]
      /\ longer[Len(order) + 1] = id
  OBVIOUS
<1> HIDE DEF longer
<1>2. DOMAIN longer = DOMAIN order \cup {Len(order) + 1}
  BY <1>1
<1>3. Listed(longer) = Listed(order) \cup {id}
  BY <1>1, <1>2 DEF Listed
<1> QED
  BY <1>1, <1>2, <1>3 DEF longer

LEMMA AppendLayered ==
    ASSUME NEW in, NEW sel, NEW order \in Seq(DOMAIN sel), NEW id \in DOMAIN sel,
           Layered(in, sel, order), id \notin Listed(order),
           DOMAIN Deps(in, id, sel[id]) \subseteq Listed(order)
    PROVE  Layered(in, sel, Append(order, id))
<1> DEFINE longer == Append(order, id)
           needs(m) == DOMAIN Deps(in, m, sel[m])
<1>1. /\ Listed(longer) = Listed(order) \cup {id}
      /\ DOMAIN longer = DOMAIN order \cup {Len(order) + 1}
      /\ DOMAIN order = 1 .. Len(order) /\ Len(order) \in Nat
      /\ \A i \in DOMAIN order : longer[i] = order[i]
      /\ longer[Len(order) + 1] = id
  BY AppendListed
<1> HIDE DEF longer, needs
<1>2. \A i \in DOMAIN order : order[i] # id /\ order[i] \in Listed(order)
  BY DEF Listed
<1>3. /\ \A i, j \in DOMAIN order : order[i] = order[j] => i = j
      /\ \A i, j \in DOMAIN order : order[j] \in needs(order[i]) => j < i
      /\ \A i \in DOMAIN order : needs(order[i]) \subseteq Listed(order)
      /\ needs(id) \subseteq Listed(order)
  BY DEF Layered, needs
<1>4. \A i, j \in DOMAIN longer : longer[i] = longer[j] => i = j
  BY <1>1, <1>2, <1>3
<1>5. ASSUME NEW i \in DOMAIN longer, NEW j \in DOMAIN longer, longer[j] \in needs(longer[i])
      PROVE  j < i
  <2>1. CASE i \in DOMAIN order
    <3>1. longer[j] \in Listed(order)
      BY <1>1, <1>3, <1>5, <2>1
    <3>2. j \in DOMAIN order
      BY <1>1, <3>1
    <3> QED
      BY <1>1, <1>3, <1>5, <2>1, <3>2
  <2>2. CASE i = Len(order) + 1
    <3>1. longer[j] \in Listed(order)
      BY <1>1, <1>3, <1>5, <2>2
    <3>2. j \in DOMAIN order
      BY <1>1, <3>1
    <3> QED
      BY <1>1, <2>2, <3>2
  <2> QED
    BY <1>1, <2>1, <2>2
<1>6. \A i \in DOMAIN longer : needs(longer[i]) \subseteq Listed(longer)
  BY <1>1, <1>3
<1> QED
  BY <1>4, <1>5, <1>6 DEF Layered, longer, needs

\* What is true of the arguments of visit: the mods being visited lead to the ones to visit.
Before(in, sel, x) ==
    /\ Layered(in, sel, x.order) /\ Listed(x.order) \cap x.stack = {}
    /\ \A s \in x.stack, t \in x.todo : LeadsTo(in, sel, s, t)

\* What visit comes back with.
Right(in, sel, x, y) ==
    /\ y \in Outcomes(sel)
    /\ y.cycle => \E id \in DOMAIN sel : LeadsTo(in, sel, id, id)
    /\ ~y.cycle => /\ Layered(in, sel, y.order)
                   /\ Listed(x.order) \cup x.todo \subseteq Listed(y.order)
                   /\ Listed(y.order) \cap x.stack = {}

\* A step of visit comes back with what it should if the smaller ones do.
LEMMA VisitRight ==
    ASSUME NEW in, NEW sel, Complete(in, sel), NEW x \in Walks(sel), Before(in, sel, x),
           NEW visit,
           \A z \in Walks(sel) : Size(sel, z) < Size(sel, x) /\ Before(in, sel, z)
              => Right(in, sel, z, visit[z])
    PROVE  Right(in, sel, x, Visit(in, sel, visit, x))
<1> DEFINE id == First(x.todo)
           y == Visit(in, sel, visit, x)
<1>1. x.order \in Seq(DOMAIN sel) /\ x.todo \in SUBSET DOMAIN sel
  BY DEF Walks
<1>2. CASE x.todo = {}
  <2>1. y = [cycle |-> FALSE, order |-> x.order]
    BY <1>2 DEF Visit
  <2> HIDE DEF y
  <2> QED
    BY <1>1, <1>2, <2>1 DEF Right, Before, Outcomes, y
<1>3. CASE x.todo # {} /\ id \in Listed(x.order)
  <2> DEFINE z == After(x, x.order)
  <2>1. z \in Walks(sel) /\ Size(sel, z) < Size(sel, x) /\ y = visit[z]
    BY <1>1, <1>3, WalksSmaller, VisitCases
  <2>2. z.todo = x.todo \ {id} /\ z.order = x.order /\ z.stack = x.stack
    BY DEF After
  <2> HIDE DEF z, y
  <2>3. Before(in, sel, z)
    BY <2>2 DEF Before
  <2>4. Right(in, sel, z, y)
    BY <2>1, <2>3
  <2> QED
    BY <1>3, <2>2, <2>4 DEF Right, y
<1>4. CASE x.todo # {} /\ id \notin Listed(x.order) /\ id \in x.stack
  <2>1. y = Cyclic /\ id \in x.todo /\ id \in DOMAIN sel
    BY <1>4, WalksSmaller, VisitCases
  <2>2. LeadsTo(in, sel, id, id)
    BY <1>4, <2>1 DEF Before
  <2>3. Cyclic \in Outcomes(sel) /\ Cyclic.cycle
    BY DEF Cyclic, Outcomes
  <2> QED
    BY <2>1, <2>2, <2>3 DEF Right
<1>5. CASE x.todo # {} /\ id \notin Listed(x.order) /\ id \notin x.stack
  <2> DEFINE b == Below(in, sel, x)
             needs == DOMAIN Deps(in, id, sel[id])
  <2>1. /\ b \in Walks(sel) /\ Size(sel, b) < Size(sel, x)
        /\ id \in x.todo /\ id \in DOMAIN sel /\ needs \in SUBSET DOMAIN sel
    BY <1>5, WalksSmaller
  <2>2. b.todo = needs /\ b.stack = x.stack \cup {id} /\ b.order = x.order
    BY DEF Below
  <2>3. y = IF visit[b].cycle THEN Cyclic ELSE visit[After(x, Append(visit[b].order, id))]
    BY <1>5, VisitCases
  <2> HIDE DEF b, y
  <2>4. Before(in, sel, b)
    <3>1. \A t \in needs : LeadsTo(in, sel, id, t)
      BY DEF LeadsTo
    <3>2. ASSUME NEW s \in x.stack, NEW t \in needs PROVE LeadsTo(in, sel, s, t)
      <4>1. LeadsTo(in, sel, s, id)
        BY <2>1 DEF Before
      <4> QED
        BY <2>1, <4>1 DEF LeadsTo, Closed
    <3> HIDE DEF needs
    <3> QED
      BY <1>5, <2>2, <3>1, <3>2 DEF Before
  <2>5. Right(in, sel, b, visit[b])
    BY <2>1, <2>4
  <2>6. CASE visit[b].cycle
    <3>1. y = Cyclic /\ Cyclic \in Outcomes(sel) /\ Cyclic.cycle
      BY <2>3, <2>6 DEF Cyclic, Outcomes
    <3> QED
      BY <2>5, <2>6, <3>1 DEF Right, y
  <2>7. CASE ~visit[b].cycle
    <3> DEFINE below == visit[b].order
               longer == Append(below, id)
               z == After(x, longer)
    <3>1. /\ below \in Seq(DOMAIN sel) /\ Layered(in, sel, below)
          /\ Listed(x.order) \cup needs \subseteq Listed(below)
          /\ Listed(below) \cap (x.stack \cup {id}) = {}
      BY <2>2, <2>5, <2>7 DEF Right, Outcomes
    <3> HIDE DEF below
    <3>2. longer \in Seq(DOMAIN sel) /\ Listed(longer) = Listed(below) \cup {id}
      BY <2>1, <3>1, AppendListed
    <3>3. Layered(in, sel, longer)
      BY <2>1, <3>1, AppendLayered
    <3>4. z \in Walks(sel) /\ Size(sel, z) < Size(sel, x)
      BY <1>5, <3>2, WalksSmaller
    <3>5. z.todo = x.todo \ {id} /\ z.order = longer /\ z.stack = x.stack
      BY DEF After
    <3>6. y = visit[z]
      BY <2>3, <2>7 DEF below
    <3> HIDE DEF longer, z
    <3>7. Before(in, sel, z)
      BY <1>5, <3>1, <3>2, <3>3, <3>5 DEF Before
    <3>8. Right(in, sel, z, y)
      BY <3>4, <3>6, <3>7
    <3> QED
      BY <3>1, <3>2, <3>5, <3>8 DEF Right, y
  <2> QED
    BY <2>6, <2>7
<1> QED
  BY <1>2, <1>3, <1>4, <1>5

\* A mod that leads to itself is on a cycle: the mods it leads to and that lead to it
\* have each a requirement among them.
LEMMA CycleFound ==
    ASSUME NEW in, NEW sel, Complete(in, sel), NEW a \in DOMAIN sel, LeadsTo(in, sel, a, a)
    PROVE  ~Acyclic(in, sel)
<1> DEFINE needs(m) == DOMAIN Deps(in, m, sel[m])
           S == {z \in DOMAIN sel : LeadsTo(in, sel, a, z) /\ LeadsTo(in, sel, z, a)}
           N == {y \in DOMAIN sel : ~LeadsTo(in, sel, y, a) /\ y # a}
<1> SUFFICES ASSUME Acyclic(in, sel) PROVE FALSE
  OBVIOUS
<1>1. a \in S /\ S \in SUBSET DOMAIN sel
  OBVIOUS
<1>2. PICK z \in S : needs(z) \cap S = {}
  BY <1>1 DEF Acyclic
<1>3. \A m \in DOMAIN sel : needs(m) \subseteq DOMAIN sel
  BY DEF Complete, Closed
<1>4. ASSUME NEW m \in DOMAIN sel, NEW d \in needs(m) PROVE LeadsTo(in, sel, d, a) \/ d = a => LeadsTo(in, sel, m, a)
  BY <1>3, <1>4 DEF LeadsTo, Closed
<1>5. Closed(in, sel, N) /\ N \in SUBSET DOMAIN sel
  BY <1>3, <1>4 DEF Closed
<1>6. needs(z) \subseteq N
  <2> SUFFICES ASSUME NEW d \in needs(z) PROVE d \in N
    OBVIOUS
  <2>1. d \in DOMAIN sel /\ LeadsTo(in, sel, a, d)
    BY <1>2, <1>3 DEF LeadsTo, Closed
  <2>2. ~LeadsTo(in, sel, d, a)
    BY <1>2, <2>1
  <2> QED
    BY <2>1, <2>2
<1>7. a \in N
  BY <1>2, <1>5, <1>6 DEF LeadsTo
<1> QED
  BY <1>7

\* Where each mod comes after what it requires there is no cycle.
LEMMA LayersAcyclic ==
    ASSUME NEW in, NEW sel, NEW order \in Seq(DOMAIN sel), Layered(in, sel, order),
           Listed(order) = DOMAIN sel
    PROVE  Acyclic(in, sel)
<1> SUFFICES ASSUME NEW S \in SUBSET DOMAIN sel, S # {}
             PROVE  \E id \in S : DOMAIN Deps(in, id, sel[id]) \cap S = {}
  BY DEF Acyclic
<1> DEFINE at == {i \in DOMAIN order : order[i] \in S}
<1>1. at \in SUBSET Nat
  OBVIOUS
<1>2. at # {}
  BY DEF Listed
<1>3. PICK i \in at : \A j \in at : i <= j
  BY <1>1, <1>2, LeastNumber
<1>4. DOMAIN Deps(in, order[i], sel[order[i]]) \cap S = {}
  <2> SUFFICES ASSUME NEW d \in DOMAIN Deps(in, order[i], sel[order[i]]), d \in S PROVE FALSE
    OBVIOUS
  <2>1. PICK j \in DOMAIN order : order[j] = d
    BY DEF Listed
  <2>2. j < i /\ i <= j /\ i \in Nat /\ j \in Nat
    BY <1>1, <1>3, <2>1 DEF Layered
  <2> QED
    BY <2>2
<1> QED
  BY <1>3, <1>4

\* visit: any selection that has what its mods require is put in load order, each mod once
\* and after what it requires, or has a cycle, and the cycle is found.
THEOREM VisitFindsOrder ==
    ASSUME NEW in, NEW sel, Complete(in, sel)
    PROVE  LET all == Visited(in, sel)
           IN  /\ all \in Outcomes(sel)
               /\ all.cycle <=> ~Acyclic(in, sel)
               /\ ~all.cycle => Layered(in, sel, all.order) /\ Listed(all.order) = DOMAIN sel
<1> DEFINE visit == CHOOSE visit : visit = [x \in Walks(sel) |-> Visit(in, sel, visit, x)]
           start == [todo |-> DOMAIN sel, stack |-> {}, order |-> <<>>]
           all == Visited(in, sel)
<1>1. all = visit[start]
  BY DEF Visited
<1>2. visit = [x \in Walks(sel) |-> Visit(in, sel, visit, x)]
  BY VisitExists
<1> HIDE DEF visit
<1> DEFINE wrong == {n \in Nat : \E x \in Walks(sel) :
              n = Size(sel, x) /\ Before(in, sel, x) /\ ~Right(in, sel, x, visit[x])}
<1>3. wrong = {}
  <2> SUFFICES ASSUME wrong # {} PROVE FALSE
    OBVIOUS
  <2>1. wrong \in SUBSET Nat
    OBVIOUS
  <2>2. PICK n \in wrong : \A k \in wrong : n <= k
    BY <2>1, LeastNumber
  <2>3. PICK x \in Walks(sel) : n = Size(sel, x) /\ Before(in, sel, x) /\ ~Right(in, sel, x, visit[x])
    BY <2>2
  <2>4. ASSUME NEW z \in Walks(sel), Size(sel, z) < Size(sel, x), Before(in, sel, z)
        PROVE  Right(in, sel, z, visit[z])
    <3>1. Size(sel, z) \in Nat
      BY SizeIs DEF Complete
    <3>2. ~(n <= Size(sel, z))
      BY <2>3, <2>4, <3>1
    <3>3. Size(sel, z) \notin wrong
      <4> HIDE DEF wrong
      <4> QED
        BY <2>2, <3>2
    <3> QED
      BY <2>4, <3>1, <3>3
  <2>5. Right(in, sel, x, Visit(in, sel, visit, x))
    <3> HIDE DEF wrong
    <3> QED
      BY <2>3, <2>4, VisitRight
  <2> QED
    BY <1>2, <2>3, <2>5
<1>4. start \in Walks(sel)
  BY DEF Walks
<1>5. Before(in, sel, start)
  BY DEF Before, Layered, Listed
<1>6. Right(in, sel, start, all)
  <2>1. Size(sel, start) \in Nat
    BY <1>4, SizeIs DEF Complete
  <2> HIDE DEF start
  <2> QED
    BY <1>1, <1>3, <1>4, <1>5, <2>1
<1>7. all.order \in Seq(DOMAIN sel) /\ all \in Outcomes(sel)
  BY <1>6 DEF Right, Outcomes
<1>8. ASSUME ~all.cycle
      PROVE  Layered(in, sel, all.order) /\ Listed(all.order) = DOMAIN sel
  <2>1. Layered(in, sel, all.order) /\ DOMAIN sel \subseteq Listed(all.order)
    BY <1>6, <1>8 DEF Right
  <2>2. Listed(all.order) \subseteq DOMAIN sel
    BY <1>7 DEF Listed
  <2> QED
    BY <2>1, <2>2
<1>9. ~all.cycle => Acyclic(in, sel)
  BY <1>7, <1>8, LayersAcyclic
<1>10. all.cycle => ~Acyclic(in, sel)
  BY <1>6, CycleFound DEF Right
<1> QED
  BY <1>7, <1>8, <1>9, <1>10

(***************************************************************************)
(* The search (choose)                                                     *)
(***************************************************************************)

Answers == [ok : BOOLEAN, mods : Seq([id : Ids, version : Versions])]

\* What is selected in load order, unless it has a cycle.
LEMMA OrderedRight ==
    ASSUME NEW in, NEW sel, Complete(in, sel)
    PROVE  LET r == Ordered(in, sel)
           IN  r \in Answers /\ (r.ok <=> Acyclic(in, sel)) /\ (r.ok => Lists(in, r.mods, sel))
<1> DEFINE all == Visited(in, sel)
           r == Ordered(in, sel)
           order == all.order
           list == [i \in DOMAIN order |-> [id |-> order[i], version |-> sel[order[i]]]]
<1>1. /\ all \in Outcomes(sel) /\ (all.cycle <=> ~Acyclic(in, sel))
      /\ ~all.cycle => Layered(in, sel, order) /\ Listed(order) = DOMAIN sel
  BY VisitFindsOrder
<1>2. r = IF all.cycle THEN Failed ELSE [ok |-> TRUE, mods |-> list]
  BY DEF Ordered
<1> HIDE DEF all, r
<1>3. CASE all.cycle
  BY <1>1, <1>2, <1>3 DEF Failed, Answers, r
<1>4. CASE ~all.cycle
  <2>1. /\ order \in Seq(DOMAIN sel) /\ Layered(in, sel, order) /\ Listed(order) = DOMAIN sel
        /\ Acyclic(in, sel) /\ DOMAIN sel \in SUBSET Ids /\ sel \in [DOMAIN sel -> Versions]
    BY <1>1, <1>4, PartialIs DEF Outcomes, Complete
  <2>2. DOMAIN order = 1 .. Len(order) /\ Len(order) \in Nat /\ \A i \in DOMAIN order : order[i] \in DOMAIN sel
    BY <2>1
  <2> HIDE DEF order
  <2>3. \A i \in DOMAIN order : [id |-> order[i], version |-> sel[order[i]]] \in [id : Ids, version : Versions]
    BY <2>1, <2>2
  <2>4. list \in Seq([id : Ids, version : Versions])
    BY <2>2, <2>3
  <2>5. DOMAIN list = DOMAIN order
        /\ \A i \in DOMAIN list : list[i].id = order[i] /\ list[i].version = sel[order[i]]
    OBVIOUS
  <2> HIDE DEF list
  <2>6. {list[i].id : i \in DOMAIN list} = DOMAIN sel
    BY <2>1, <2>5 DEF Listed
  <2>7. Lists(in, list, sel)
    BY <2>1, <2>5, <2>6, SMTT(30) DEF Lists, Layered
  <2>8. r = [ok |-> TRUE, mods |-> list]
    BY <1>2, <1>4
  <2> QED
    BY <2>1, <2>4, <2>7, <2>8 DEF Answers, r
<1> QED
  BY <1>3, <1>4

\* A finite set of numbers has a greatest: the one with the fewest above it.
LEMMA Greatest ==
    ASSUME NEW S \in SUBSET Nat, IsFiniteSet(S), S # {}
    PROVE  \E v \in S : \A w \in S \ {v} : v > w
<1> DEFINE above(v) == {w \in S : w > v}
           sizes == {n \in Nat : \E v \in S : n = Cardinality(above(v))}
<1>1. \A v \in S : IsFiniteSet(above(v)) /\ Cardinality(above(v)) \in Nat
  BY Smaller
<1>2. sizes \in SUBSET Nat /\ sizes # {}
  BY <1>1
<1>3. PICK n \in sizes : \A k \in sizes : n <= k
  BY <1>2, LeastNumber
<1>4. PICK v \in S : n = Cardinality(above(v))
  BY <1>3
<1>5. ASSUME NEW w \in S, w > v PROVE FALSE
  <2>0. v \in Nat /\ w \in Nat /\ ~(w > w) /\ \A u \in S : u > w => u > v
    BY <1>5
  <2>1. above(w) \in SUBSET above(v) /\ w \in above(v) /\ w \notin above(w)
    BY <1>5, <2>0, Zenon
  <2>2. Cardinality(above(w)) < Cardinality(above(v))
    BY <1>1, <2>1, Smaller
  <2>3. Cardinality(above(w)) \in sizes
    BY <1>1
  <2>4. n <= Cardinality(above(w)) /\ Cardinality(above(w)) \in Nat /\ n \in Nat
    BY <1>1, <1>2, <1>3, <2>3
  <2> QED
    BY <1>4, <2>2, <2>4
<1>6. \A w \in S \ {v} : v > w
  BY <1>5
<1> QED
  BY <1>6

LEMMA ForemostIs ==
    ASSUME NEW S \in SUBSET Versions, S # {}
    PROVE  Foremost(S) \in S /\ \A w \in S : Foremost(S) >= w
<1>1. S \in SUBSET Nat /\ IsFiniteSet(S)
  BY ResolverAssumption, Smaller
<1>2. \E v \in S : \A w \in S \ {v} : v > w
  BY <1>1, Greatest
<1>3. Foremost(S) \in S /\ \A w \in S \ {Foremost(S)} : Foremost(S) > w
  BY <1>2 DEF Foremost, Preferred
<1> DEFINE v == Foremost(S)
<1>4. ASSUME NEW w \in S PROVE v >= w
  <2>1. v \in Nat /\ w \in Nat /\ (w # v => v > w)
    BY <1>1, <1>3
  <2> HIDE DEF v
  <2> QED
    BY <2>1
<1> QED
  BY <1>3, <1>4

Left(x) == Cardinality(Ids \ DOMAIN x.selected)

LEMMA LeftIs == ASSUME NEW x PROVE Left(x) \in Nat
<1>1. Ids \ DOMAIN x.selected \in SUBSET Ids
  OBVIOUS
<1> QED
  BY <1>1, Smaller, ResolverAssumption DEF Left

\* choose goes on with fewer mods to select.
LEMMA BranchSmaller ==
    ASSUME NEW in \in Problems, NEW x \in Searches, Unselected(x) # {}
    PROVE  LET id == First(Unselected(x))
           IN  /\ id \in Unselected(x) /\ id \in Ids
               /\ Candidates(in, x, id) \in SUBSET Versions
               /\ \A v \in Candidates(in, x, id) :
                     Branch(in, x, id, v) \in Searches /\ Left(Branch(in, x, id, v)) < Left(x)
<1> DEFINE id == First(Unselected(x))
           s == x.selected
           c == x.constraints
<1>1. /\ s \in Partial(Versions) /\ DOMAIN s \in SUBSET Ids /\ s \in [DOMAIN s -> Versions]
      /\ c \in Partial(SUBSET Versions) /\ DOMAIN c \in SUBSET Ids /\ c \in [DOMAIN c -> SUBSET Versions]
  BY PartialIs DEF Searches
<1>2. id \in Unselected(x) /\ id \in Ids
  BY <1>1, FirstIs DEF Unselected
<1>3. Candidates(in, x, id) \in SUBSET Versions
  BY <1>2 DEF Candidates, Problems
<1>4. ASSUME NEW v \in Candidates(in, x, id)
      PROVE  Branch(in, x, id, v) \in Searches /\ Left(Branch(in, x, id, v)) < Left(x)
  <2> DEFINE b == Branch(in, x, id, v)
  <2>1. b.selected = Selecting(s, id, v) /\ b.constraints = Requiring(c, Deps(in, id, v))
        /\ b = [selected |-> b.selected, constraints |-> b.constraints]
    BY DEF Branch
  <2>2. /\ DOMAIN b.selected = DOMAIN s \cup {id} /\ DOMAIN b.selected \in SUBSET Ids
        /\ b.selected \in [DOMAIN b.selected -> Versions]
    BY <1>1, <1>2, <1>3, <2>1 DEF Selecting
  <2>3. DOMAIN Deps(in, id, v) \in SUBSET Ids
    BY <1>2, <1>3, DepsAre
  <2>4. /\ DOMAIN b.constraints \in SUBSET Ids
        /\ b.constraints \in [DOMAIN b.constraints -> SUBSET Versions]
    BY <1>1, <2>1, <2>3 DEF Requiring
  <2> HIDE DEF b
  <2>5. b \in Searches
    BY <2>1, <2>2, <2>4, IsPartial DEF Searches
  <2>6. /\ Ids \ DOMAIN b.selected \in SUBSET (Ids \ DOMAIN s) /\ Ids \ DOMAIN b.selected # Ids \ DOMAIN s
        /\ IsFiniteSet(Ids \ DOMAIN s)
    BY <1>1, <1>2, <2>2, Smaller, ResolverAssumption DEF Unselected
  <2>7. Left(b) < Left(x)
    BY <2>6, Smaller DEF Left
  <2> QED
    BY <2>5, <2>7 DEF b
<1> QED
  BY <1>2, <1>3, <1>4

\* A step of choose by its cases.
LEMMA ChooseCases ==
    ASSUME NEW in, NEW choose, NEW x
    PROVE  LET id == First(Unselected(x))
               found == {v \in Candidates(in, x, id) : choose[Branch(in, x, id, v)].ok}
           IN  /\ Broken(in, x) => Choose(in, choose, x) = Failed
               /\ ~Broken(in, x) /\ Unselected(x) = {} =>
                     Choose(in, choose, x) = Ordered(in, x.selected)
               /\ ~Broken(in, x) /\ Unselected(x) # {} /\ found = {} =>
                     Choose(in, choose, x) = Failed
               /\ ~Broken(in, x) /\ Unselected(x) # {} /\ found # {} =>
                     Choose(in, choose, x) = choose[Branch(in, x, id, Foremost(found))]
BY DEF Choose

\* So its recursion has a solution.
LEMMA ChooseExists ==
    ASSUME NEW in \in Problems
    PROVE  \E choose : choose = [x \in Searches |-> Choose(in, choose, x)]
<1> DEFINE X == Searches
           Y == Answers \cup {Ordered(in, x.selected) : x \in Searches}
           m == [x \in X |-> Left(x)]
           step == [p \in X \X [X -> Y] |-> Choose(in, p[2], p[1])]
           found(f, x) == {v \in Candidates(in, x, First(Unselected(x))) :
                             f[Branch(in, x, First(Unselected(x)), v)].ok}
<1>0. Failed \in Answers
  BY DEF Failed, Answers
<1>1. Y # {} /\ Failed \in Y
  BY <1>0
<1>2. m \in [X -> Nat]
  BY LeftIs
<1>3. ASSUME NEW x \in X, NEW f \in [X -> Y] PROVE Choose(in, f, x) \in Y
  <2>1. CASE Broken(in, x)
    BY <1>1, <2>1, ChooseCases
  <2>2. CASE ~Broken(in, x) /\ Unselected(x) = {}
    BY <2>2, ChooseCases
  <2>3. CASE ~Broken(in, x) /\ Unselected(x) # {} /\ found(f, x) = {}
    BY <1>1, <2>3, ChooseCases
  <2>4. CASE ~Broken(in, x) /\ Unselected(x) # {} /\ found(f, x) # {}
    <3>1. found(f, x) \in SUBSET Versions /\ Foremost(found(f, x)) \in found(f, x)
      BY <2>4, BranchSmaller, ForemostIs
    <3>2. Branch(in, x, First(Unselected(x)), Foremost(found(f, x))) \in X
      BY <2>4, <3>1, BranchSmaller
    <3>3. Choose(in, f, x) = f[Branch(in, x, First(Unselected(x)), Foremost(found(f, x)))]
      BY <2>4, ChooseCases
    <3> HIDE DEF Y
    <3> QED
      BY <3>2, <3>3
  <2> QED
    BY <2>1, <2>2, <2>3, <2>4
<1>4. ASSUME NEW x \in X, NEW f \in [X -> Y], NEW g \in [X -> Y],
             \A z \in X : m[z] < m[x] => f[z] = g[z]
      PROVE  Choose(in, f, x) = Choose(in, g, x)
  <2>1. CASE Broken(in, x)
    BY <2>1, ChooseCases
  <2>2. CASE ~Broken(in, x) /\ Unselected(x) = {}
    BY <2>2, ChooseCases
  <2>3. CASE ~Broken(in, x) /\ Unselected(x) # {}
    <3> DEFINE id == First(Unselected(x))
    <3>1. \A v \in Candidates(in, x, id) : Branch(in, x, id, v) \in X /\ Left(Branch(in, x, id, v)) < Left(x)
      BY <2>3, BranchSmaller
    <3>2. \A v \in Candidates(in, x, id) : f[Branch(in, x, id, v)] = g[Branch(in, x, id, v)]
      BY <1>4, <3>1
    <3>3. found(f, x) = found(g, x)
      BY <3>2
    <3>4. CASE found(f, x) = {}
      <4>1. Choose(in, f, x) = Failed
        BY <2>3, <3>4, ChooseCases
      <4>2. Choose(in, g, x) = Failed
        BY <2>3, <3>3, <3>4, ChooseCases
      <4> QED
        BY <4>1, <4>2
    <3>5. CASE found(f, x) # {}
      <4> DEFINE v == Foremost(found(f, x))
      <4>1. found(f, x) \in SUBSET Versions
        BY <2>3, BranchSmaller
      <4>2. v \in found(f, x)
        BY <3>5, <4>1, ForemostIs
      <4>3. Choose(in, f, x) = f[Branch(in, x, id, v)]
        BY <2>3, <3>5, ChooseCases
      <4>4. Choose(in, g, x) = g[Branch(in, x, id, Foremost(found(g, x)))]
        BY <2>3, <3>3, <3>5, ChooseCases
      <4>5. v \in Candidates(in, x, id) /\ Foremost(found(g, x)) = v
        BY <3>3, <4>2
      <4> HIDE DEF v, found, id
      <4> QED
        BY <3>2, <4>3, <4>4, <4>5
    <3> QED
      BY <3>4, <3>5
  <2> QED
    BY <2>1, <2>2, <2>3
<1> HIDE DEF Y
<1>5. step \in [X \X [X -> Y] -> Y]
  BY <1>3
<1>6. \A x \in X, f \in [X -> Y] : step[<<x, f>>] = Choose(in, f, x)
  OBVIOUS
<1>7. \A x \in X : \A f, g \in [X -> Y] :
         (\A z \in X : m[z] < m[x] => f[z] = g[z]) => step[<<x, f>>] = step[<<x, g>>]
  BY <1>4, <1>6
<1> HIDE DEF X, m, step
<1>8. Recursive(X, Y, m, step)
  BY <1>1, <1>2, <1>5, <1>7 DEF Recursive
<1>9. Solved(X, Y, step)
  BY <1>8, Recursion
<1>10. PICK f \in [X -> Y] : \A x \in X : f[x] = Choose(in, f, x)
  BY <1>6, <1>9 DEF Solved
<1>11. f = [x \in X |-> Choose(in, f, x)]
  BY <1>10
<1> QED
  BY <1>11 DEF X

\* What a branch of the search has selected and collected: the mods it is constrained
\* in are those the roots lead to, and their constraints all that is required of them.
Coherent(in, roots, x) ==
    /\ roots \subseteq DOMAIN x.constraints /\ DOMAIN x.selected \subseteq DOMAIN x.constraints
    /\ \A id \in DOMAIN x.selected :
          /\ x.selected[id] \in in.versions[id]
          /\ DOMAIN Deps(in, id, x.selected[id]) \subseteq DOMAIN x.constraints
    /\ \A id \in DOMAIN x.constraints : \A v \in Versions :
          v \in x.constraints[id] <=>
             /\ id \in roots => v \in in.pinned[id]
             /\ \A m \in DOMAIN x.selected : id \in DOMAIN Deps(in, m, x.selected[m])
                   => v \in Deps(in, m, x.selected[m])[id]
    /\ \A T \in SUBSET Ids : roots \subseteq T /\ Closed(in, x.selected, T)
          => DOMAIN x.constraints \subseteq T

\* The valid selections that a branch may come to.
Extends(sel, selected) == DOMAIN selected \subseteq DOMAIN sel /\ \A id \in DOMAIN selected : sel[id] = selected[id]
Extensions(in, roots, x) == {sel \in Partial(Versions) : Valid(in, sel, roots) /\ Extends(sel, x.selected)}

\* What choose comes back with.
Answered(in, roots, x, r) ==
    /\ r \in Answers
    /\ r.ok <=> Extensions(in, roots, x) # {}
    /\ r.ok => \E sel \in Extensions(in, roots, x) :
          /\ Lists(in, r.mods, sel)
          /\ \A other \in Extensions(in, roots, x) :
                (\A id \in DOMAIN other \cap DOMAIN sel : other[id] >= sel[id]) => other = sel

LEMMA SearchIs ==
    ASSUME NEW x \in Searches
    PROVE  /\ x.selected \in Partial(Versions) /\ DOMAIN x.selected \in SUBSET Ids
           /\ x.selected \in [DOMAIN x.selected -> Versions]
           /\ DOMAIN x.constraints \in SUBSET Ids
           /\ x.constraints \in [DOMAIN x.constraints -> SUBSET Versions]
BY PartialIs DEF Searches

\* A valid selection has what the branch is constrained in, in versions that match.
LEMMA ExtensionFits ==
    ASSUME NEW in \in Problems, NEW roots \in SUBSET Ids, NEW x \in Searches, Coherent(in, roots, x),
           NEW sel \in Extensions(in, roots, x)
    PROVE  /\ DOMAIN x.constraints \subseteq DOMAIN sel
           /\ \A id \in DOMAIN x.constraints :
                 /\ id \notin in.disabled /\ sel[id] \in in.versions[id]
                 /\ Matches(in, id, sel[id], x.constraints[id])
<1> DEFINE s == x.selected
           c == x.constraints
<1>1. /\ sel \in Partial(Versions) /\ DOMAIN sel \in SUBSET Ids /\ sel \in [DOMAIN sel -> Versions]
      /\ Valid(in, sel, roots) /\ DOMAIN s \subseteq DOMAIN sel /\ \A id \in DOMAIN s : sel[id] = s[id]
  BY PartialIs DEF Extensions, Extends
<1>2. Closed(in, s, DOMAIN sel) /\ roots \subseteq DOMAIN sel
  BY <1>1 DEF Closed, Valid
<1>3. DOMAIN c \subseteq DOMAIN sel
  BY <1>1, <1>2 DEF Coherent
<1>4. ASSUME NEW id \in DOMAIN c
      PROVE  /\ id \notin in.disabled /\ sel[id] \in in.versions[id] /\ sel[id] \in in.pinned[id]
             /\ sel[id] \in c[id]
  <2>1. id \in DOMAIN sel /\ sel[id] \in Versions
    BY <1>1, <1>3
  <2>2. id \notin in.disabled /\ sel[id] \in in.versions[id] /\ sel[id] \in in.pinned[id]
    BY <1>1, <2>1 DEF Valid
  <2>3. \A m \in DOMAIN s : id \in DOMAIN Deps(in, m, s[m]) => sel[id] \in Deps(in, m, s[m])[id]
    BY <1>1 DEF Valid
  <2> QED
    BY <2>1, <2>2, <2>3 DEF Coherent
<1> QED
  BY <1>3, <1>4 DEF Matches

\* The branch of a candidate is coherent if the one it leaves is.
LEMMA BranchCoherent ==
    ASSUME NEW in \in Problems, NEW roots \in SUBSET Ids, NEW x \in Searches, Coherent(in, roots, x),
           NEW id \in Unselected(x), NEW v \in Candidates(in, x, id)
    PROVE  Coherent(in, roots, Branch(in, x, id, v))
<1> DEFINE s == x.selected
           c == x.constraints
           b == Branch(in, x, id, v)
           t == b.selected
           d == b.constraints
           deps == Deps(in, id, v)
<1>1. /\ DOMAIN s \in SUBSET Ids /\ s \in [DOMAIN s -> Versions]
      /\ DOMAIN c \in SUBSET Ids /\ c \in [DOMAIN c -> SUBSET Versions]
      /\ id \in DOMAIN c /\ id \notin DOMAIN s /\ id \in Ids
  BY SearchIs DEF Unselected
<1>2. v \in in.versions[id] /\ v \in Versions
  BY <1>1 DEF Candidates, Problems
<1>3. DOMAIN deps \in SUBSET Ids /\ deps \in [DOMAIN deps -> SUBSET Versions]
  BY <1>1, <1>2, DepsAre
<1>4. /\ DOMAIN t = DOMAIN s \cup {id} /\ t[id] = v /\ \A m \in DOMAIN s : t[m] = s[m]
  BY <1>1 DEF Branch, Selecting
<1>5. /\ DOMAIN d = DOMAIN c \cup DOMAIN deps
      /\ \A m \in DOMAIN d : \A w \in Versions :
            w \in d[m] <=> (m \in DOMAIN c => w \in c[m]) /\ (m \in DOMAIN deps => w \in deps[m])
  BY DEF Branch, Requiring
<1>6. Deps(in, id, t[id]) = deps /\ \A m \in DOMAIN s : Deps(in, m, t[m]) = Deps(in, m, s[m])
  BY <1>4
<1> HIDE DEF b, deps, t, d
<1>7. roots \subseteq DOMAIN d /\ DOMAIN t \subseteq DOMAIN d
  BY <1>1, <1>4, <1>5 DEF Coherent
<1>8. ASSUME NEW m \in DOMAIN t
      PROVE  t[m] \in in.versions[m] /\ DOMAIN Deps(in, m, t[m]) \subseteq DOMAIN d
  BY <1>2, <1>4, <1>5, <1>6 DEF Coherent
<1>9. ASSUME NEW m \in DOMAIN d, NEW w \in Versions
      PROVE  w \in d[m] <=>
                /\ m \in roots => w \in in.pinned[m]
                /\ \A k \in DOMAIN t : m \in DOMAIN Deps(in, k, t[k]) => w \in Deps(in, k, t[k])[m]
  <2>1. (\A k \in DOMAIN t : m \in DOMAIN Deps(in, k, t[k]) => w \in Deps(in, k, t[k])[m])
        <=> /\ \A k \in DOMAIN s : m \in DOMAIN Deps(in, k, s[k]) => w \in Deps(in, k, s[k])[m]
            /\ m \in DOMAIN deps => w \in deps[m]
    BY <1>4, <1>6
  <2>2. CASE m \in DOMAIN c
    BY <1>5, <2>1, <2>2 DEF Coherent
  <2>3. CASE m \notin DOMAIN c
    <3>1. m \notin roots /\ \A k \in DOMAIN s : m \notin DOMAIN Deps(in, k, s[k])
      BY <2>3 DEF Coherent
    <3> QED
      BY <1>5, <2>1, <2>3, <3>1
  <2> QED
    BY <2>2, <2>3
<1>10. ASSUME NEW T \in SUBSET Ids, roots \subseteq T, Closed(in, t, T)
       PROVE  DOMAIN d \subseteq T
  <2>1. Closed(in, s, T)
    BY <1>4, <1>6, <1>10 DEF Closed
  <2>2. DOMAIN c \subseteq T
    BY <1>10, <2>1 DEF Coherent
  <2>3. DOMAIN deps \subseteq T
    BY <1>1, <1>4, <1>6, <1>10, <2>2 DEF Closed
  <2> QED
    BY <1>5, <2>2, <2>3
<1> QED
  BY <1>7, <1>8, <1>9, <1>10 DEF Coherent, t, d, b

\* Where all is selected, and nothing broken, only a cycle is left to look for.
LEMMA AllSelected ==
    ASSUME NEW in \in Problems, NEW roots \in SUBSET Ids, NEW x \in Searches, Coherent(in, roots, x),
           ~Broken(in, x), Unselected(x) = {}
    PROVE  /\ Complete(in, x.selected)
           /\ Acyclic(in, x.selected) => x.selected \in Extensions(in, roots, x)
           /\ \A sel \in Extensions(in, roots, x) : sel = x.selected /\ Acyclic(in, x.selected)
<1> DEFINE s == x.selected
           c == x.constraints
<1>1. /\ s \in Partial(Versions) /\ DOMAIN s \in SUBSET Ids /\ s \in [DOMAIN s -> Versions]
      /\ DOMAIN c = DOMAIN s
  BY SearchIs DEF Unselected, Coherent
<1>2. Complete(in, s)
  BY <1>1 DEF Complete, Closed, Coherent
<1>3. ASSUME Acyclic(in, s) PROVE s \in Extensions(in, roots, x)
  <2>1. roots \subseteq DOMAIN s /\ Closed(in, s, DOMAIN s)
    BY <1>1, <1>2 DEF Complete, Coherent
  <2>2. ASSUME NEW S \in SUBSET DOMAIN s, roots \subseteq S, Closed(in, s, S) PROVE S = DOMAIN s
    BY <1>1, <2>2 DEF Coherent
  <2>3. ASSUME NEW id \in DOMAIN s
        PROVE  /\ id \notin in.disabled
               /\ s[id] \in in.versions[id] \cap in.pinned[id]
    BY <1>1 DEF Broken, Matches, Coherent
  <2>4. ASSUME NEW id \in DOMAIN s, NEW d \in DOMAIN Deps(in, id, s[id])
        PROVE  s[d] \in Deps(in, id, s[id])[d]
    <3>1. d \in DOMAIN s
      BY <2>1 DEF Closed
    <3>2. s[d] \in c[d] /\ s[d] \in Versions
      BY <1>1, <3>1 DEF Broken, Matches
    <3> QED
      BY <1>1, <3>1, <3>2 DEF Coherent
  <2>5. Valid(in, s, roots)
    BY <1>3, <2>1, <2>2, <2>3, <2>4 DEF Valid
  <2> QED
    BY <1>1, <2>5 DEF Extensions, Extends
<1>4. ASSUME NEW sel \in Extensions(in, roots, x) PROVE sel = s /\ Acyclic(in, s)
  <2>1. /\ sel \in [DOMAIN sel -> Versions] /\ Valid(in, sel, roots)
        /\ DOMAIN s \in SUBSET DOMAIN sel /\ \A id \in DOMAIN s : sel[id] = s[id]
    BY PartialIs DEF Extensions, Extends
  <2>2. roots \subseteq DOMAIN s /\ Closed(in, sel, DOMAIN s)
    BY <1>1, <1>2, <2>1 DEF Complete, Closed, Coherent
  <2>3. DOMAIN sel = DOMAIN s
    BY <2>1, <2>2 DEF Valid
  <2>4. sel = s
    BY <1>1, <2>1, <2>3
  <2> QED
    BY <2>1, <2>4 DEF Valid
<1> QED
  BY <1>2, <1>3, <1>4

\* The valid selections of a branch are those that go on with one of its candidates.
LEMMA ExtensionsSplit ==
    ASSUME NEW in \in Problems, NEW roots \in SUBSET Ids, NEW x \in Searches, Coherent(in, roots, x),
           NEW id \in Unselected(x)
    PROVE  /\ \A sel \in Extensions(in, roots, x) :
                 /\ id \in DOMAIN sel /\ sel[id] \in Candidates(in, x, id)
                 /\ sel \in Extensions(in, roots, Branch(in, x, id, sel[id]))
           /\ \A v \in Candidates(in, x, id) : \A sel \in Extensions(in, roots, Branch(in, x, id, v)) :
                 sel \in Extensions(in, roots, x) /\ id \in DOMAIN sel /\ sel[id] = v
<1>1. id \in DOMAIN x.constraints /\ id \notin DOMAIN x.selected
  BY DEF Unselected
<1>2. \A v : /\ DOMAIN Branch(in, x, id, v).selected = DOMAIN x.selected \cup {id}
             /\ Branch(in, x, id, v).selected[id] = v
             /\ \A m \in DOMAIN x.selected : Branch(in, x, id, v).selected[m] = x.selected[m]
  BY <1>1 DEF Branch, Selecting
<1>3. ASSUME NEW sel \in Extensions(in, roots, x)
      PROVE  /\ id \in DOMAIN sel /\ sel[id] \in Candidates(in, x, id)
             /\ sel \in Extensions(in, roots, Branch(in, x, id, sel[id]))
  <2>1. id \in DOMAIN sel /\ sel[id] \in Candidates(in, x, id)
    BY <1>1, ExtensionFits DEF Candidates
  <2> QED
    BY <1>2, <2>1 DEF Extensions, Extends
<1>4. ASSUME NEW v \in Candidates(in, x, id), NEW sel \in Extensions(in, roots, Branch(in, x, id, v))
      PROVE  sel \in Extensions(in, roots, x) /\ id \in DOMAIN sel /\ sel[id] = v
  BY <1>2 DEF Extensions, Extends
<1> QED
  BY <1>3, <1>4

\* A step of choose comes back with what it should if the smaller ones do: the foremost
\* version with a solution is at least as new as that of any other selection.
LEMMA ChooseRight ==
    ASSUME NEW in \in Problems, NEW roots \in SUBSET Ids, NEW x \in Searches, Coherent(in, roots, x),
           NEW choose,
           \A z \in Searches : Left(z) < Left(x) /\ Coherent(in, roots, z)
              => Answered(in, roots, z, choose[z])
    PROVE  Answered(in, roots, x, Choose(in, choose, x))
<1> DEFINE r == Choose(in, choose, x)
           id == First(Unselected(x))
           cands == Candidates(in, x, id)
           branch(v) == Branch(in, x, id, v)
           found == {v \in cands : choose[branch(v)].ok}
           ext == Extensions(in, roots, x)
<1>1. Failed \in Answers /\ ~Failed.ok
  BY DEF Failed, Answers
<1>2. CASE Broken(in, x)
  <2>1. r = Failed
    BY <1>2, ChooseCases
  <2>2. ext = {}
    <3> SUFFICES ASSUME NEW sel \in ext PROVE FALSE
      OBVIOUS
    <3>1. PICK m \in DOMAIN x.constraints :
             \/ m \in in.disabled
             \/ m \in DOMAIN x.selected /\ ~Matches(in, m, x.selected[m], x.constraints[m])
      BY <1>2 DEF Broken
    <3>2. m \notin in.disabled /\ Matches(in, m, sel[m], x.constraints[m])
      BY ExtensionFits
    <3>3. m \in DOMAIN x.selected => sel[m] = x.selected[m]
      BY DEF Extensions, Extends
    <3> QED
      BY <3>1, <3>2, <3>3
  <2> QED
    BY <1>1, <2>1, <2>2 DEF Answered
<1>3. CASE ~Broken(in, x) /\ Unselected(x) = {}
  <2>1. r = Ordered(in, x.selected)
    BY <1>3, ChooseCases
  <2>2. /\ Complete(in, x.selected) /\ Acyclic(in, x.selected) => x.selected \in ext
        /\ \A sel \in ext : sel = x.selected /\ Acyclic(in, x.selected)
    BY <1>3, AllSelected
  <2>3. Complete(in, x.selected)
    BY <1>3, AllSelected
  <2> HIDE DEF r, ext
  <2>4. r \in Answers /\ (r.ok <=> Acyclic(in, x.selected)) /\ (r.ok => Lists(in, r.mods, x.selected))
    BY <2>1, <2>3, OrderedRight
  <2> QED
    BY <2>2, <2>3, <2>4 DEF Answered, r, ext
<1>4. CASE ~Broken(in, x) /\ Unselected(x) # {}
  <2>1. /\ id \in Unselected(x) /\ cands \in SUBSET Versions
        /\ \A v \in cands : branch(v) \in Searches /\ Left(branch(v)) < Left(x)
    BY <1>4, BranchSmaller
  <2>2. \A v \in cands : Answered(in, roots, branch(v), choose[branch(v)])
    BY <2>1, BranchCoherent
  <2>3. /\ \A sel \in ext : id \in DOMAIN sel /\ sel[id] \in cands
                            /\ sel \in Extensions(in, roots, branch(sel[id]))
        /\ \A v \in cands : \A sel \in Extensions(in, roots, branch(v)) :
              sel \in ext /\ id \in DOMAIN sel /\ sel[id] = v
    BY <2>1, ExtensionsSplit
  <2>4. /\ found = {} => r = Failed
        /\ found # {} => r = choose[branch(Foremost(found))]
    BY <1>4, ChooseCases
  <2> HIDE DEF r, ext, branch, cands, id
  <2>5. CASE found = {}
    <3>1. ext = {}
      BY <2>2, <2>3, <2>5 DEF Answered
    <3> QED
      BY <1>1, <2>4, <2>5, <3>1 DEF Answered, r, ext
  <2>6. CASE found # {}
    <3> DEFINE v == Foremost(found)
    <3>1. v \in found /\ \A w \in found : v >= w
      BY <2>1, <2>6, ForemostIs
    <3>2. r = choose[branch(v)] /\ v \in cands /\ r.ok
      BY <2>4, <2>6, <3>1
    <3>3. Answered(in, roots, branch(v), r)
      BY <2>2, <3>2
    <3>4. PICK sel \in Extensions(in, roots, branch(v)) :
            /\ Lists(in, r.mods, sel)
            /\ \A other \in Extensions(in, roots, branch(v)) :
                  (\A m \in DOMAIN other \cap DOMAIN sel : other[m] >= sel[m]) => other = sel
      BY <3>2, <3>3 DEF Answered
    <3>5. sel \in ext /\ id \in DOMAIN sel /\ sel[id] = v
      BY <2>3, <3>2
    <3>6. ASSUME NEW other \in ext, \A m \in DOMAIN other \cap DOMAIN sel : other[m] >= sel[m]
          PROVE  other = sel
      <4>1. id \in DOMAIN other /\ other[id] \in cands
            /\ other \in Extensions(in, roots, branch(other[id]))
        BY <2>3
      <4>2. other[id] \in found
        BY <2>2, <4>1 DEF Answered
      <4>3. v >= other[id] /\ other[id] >= v /\ v \in Nat /\ other[id] \in Nat
        BY <2>1, <3>1, <3>2, <3>5, <3>6, <4>1, <4>2, ResolverAssumption
      <4>4. other[id] = v
        <5> HIDE DEF v
        <5> QED
          BY <4>3
      <4> QED
        BY <3>4, <3>6, <4>1, <4>4
    <3> QED
      BY <3>2, <3>3, <3>4, <3>5, <3>6 DEF Answered, r, ext
  <2> QED
    BY <2>5, <2>6
<1> QED
  BY <1>2, <1>3, <1>4

\* resolve: for any catalogue and any roots it succeeds exactly when there is a valid
\* selection, and returns one in load order than which none is newer.  The search starts
\* with the branch that every valid selection extends.
THEOREM SolveFindsSolution ==
    ASSUME NEW in \in Problems, NEW roots \in SUBSET Ids
    PROVE  LET r == SolveRoots(in, roots)
           IN  /\ r.ok <=> Solvable(in, roots)
               /\ r.ok => \E sel \in Partial(Versions) :
                     Valid(in, sel, roots) /\ Lists(in, r.mods, sel) /\ NoneNewer(in, sel, roots)
<1> DEFINE choose == CHOOSE choose : choose = [x \in Searches |-> Choose(in, choose, x)]
           none == [id \in {} |-> 0]
           start == [selected |-> none, constraints |-> [id \in roots |-> in.pinned[id]]]
           r == SolveRoots(in, roots)
<1>1. r = choose[start]
  BY DEF SolveRoots
<1>2. choose = [x \in Searches |-> Choose(in, choose, x)]
  BY ChooseExists
<1> HIDE DEF choose
<1> DEFINE wrong == {n \in Nat : \E x \in Searches :
              n = Left(x) /\ Coherent(in, roots, x) /\ ~Answered(in, roots, x, choose[x])}
<1>3. wrong = {}
  <2> SUFFICES ASSUME wrong # {} PROVE FALSE
    OBVIOUS
  <2>1. wrong \in SUBSET Nat
    OBVIOUS
  <2>2. PICK n \in wrong : \A k \in wrong : n <= k
    BY <2>1, LeastNumber
  <2>3. PICK x \in Searches : n = Left(x) /\ Coherent(in, roots, x) /\ ~Answered(in, roots, x, choose[x])
    BY <2>2
  <2>4. ASSUME NEW z \in Searches, Left(z) < Left(x), Coherent(in, roots, z)
        PROVE  Answered(in, roots, z, choose[z])
    <3>1. Left(z) \in Nat
      BY LeftIs
    <3>2. n \in Nat /\ ~(n <= Left(z))
      BY <2>1, <2>2, <2>3, <2>4, <3>1
    <3>3. Left(z) \notin wrong
      <4> HIDE DEF wrong
      <4> QED
        BY <2>2, <3>2
    <3> QED
      BY <2>4, <3>1, <3>3
  <2>5. Answered(in, roots, x, Choose(in, choose, x))
    <3> HIDE DEF wrong
    <3> QED
      BY <2>3, <2>4, ChooseRight
  <2> QED
    BY <1>2, <2>3, <2>5
<1>4. none \in Partial(Versions) /\ DOMAIN none = {}
  <2>1. none \in [{} -> Versions]
    OBVIOUS
  <2> QED
    BY <2>1, IsPartial
<1>5. start.constraints \in Partial(SUBSET Versions) /\ DOMAIN start.constraints = roots
  <2>1. start.constraints \in [roots -> SUBSET Versions]
    BY DEF Problems
  <2> QED
    BY <2>1, IsPartial
<1>6. start \in Searches
  BY <1>4, <1>5 DEF Searches
<1>7. Coherent(in, roots, start)
  BY <1>4, <1>5 DEF Coherent
<1>8. Answered(in, roots, start, r)
  <2>1. Left(start) \in Nat
    BY LeftIs
  <2> HIDE DEF start
  <2> QED
    BY <1>1, <1>3, <1>6, <1>7, <2>1
<1>9. Extensions(in, roots, start) = {sel \in Partial(Versions) : Valid(in, sel, roots)}
  BY <1>4 DEF Extensions, Extends
<1> QED
  BY <1>8, <1>9 DEF Answered, Solvable, NoneNewer

(***************************************************************************)
(* The roots that conflict (joint_conflicts)                               *)
(***************************************************************************)

\* What solves some roots solves fewer of them: the selection without the mods that only
\* the others lead to.
LEMMA FewerRoots ==
    ASSUME NEW in \in Problems, NEW T \in SUBSET Ids, NEW S \in SUBSET T, Solvable(in, T)
    PROVE  Solvable(in, S)
<1>1. PICK sel \in Partial(Versions) : Valid(in, sel, T)
  BY DEF Solvable
<1> DEFINE holds(C) == C \in SUBSET DOMAIN sel /\ S \subseteq C /\ Closed(in, sel, C)
           R == {id \in DOMAIN sel : \A C \in SUBSET DOMAIN sel : holds(C) => id \in C}
           less == [id \in R |-> sel[id]]
<1>2. DOMAIN sel \in SUBSET Ids /\ sel \in [DOMAIN sel -> Versions]
  BY PartialIs
<1>3. S \subseteq R /\ R \in SUBSET DOMAIN sel
  BY <1>1 DEF Valid
<1>4. Closed(in, sel, R)
  <2> SUFFICES ASSUME NEW id \in R, NEW d \in DOMAIN Deps(in, id, sel[id]) PROVE d \in R
    BY DEF Closed
  <2>1. d \in DOMAIN sel
    BY <1>1 DEF Valid, Closed
  <2>2. ASSUME NEW C \in SUBSET DOMAIN sel, holds(C) PROVE d \in C
    BY <2>2 DEF Closed
  <2> QED
    BY <2>1, <2>2
<1>5. ASSUME NEW C \in SUBSET R, S \subseteq C, Closed(in, sel, C) PROVE C = R
  <2>1. holds(C)
    BY <1>3, <1>5
  <2> QED
    BY <2>1
<1> HIDE DEF R
<1>6. DOMAIN less = R /\ \A id \in R : less[id] = sel[id]
  OBVIOUS
<1>7. less \in Partial(Versions)
  <2>1. less \in [R -> Versions] /\ R \in SUBSET Ids
    BY <1>2, <1>3
  <2> QED
    BY <2>1, IsPartial
<1> HIDE DEF less
<1>8. \A C \in SUBSET R : Closed(in, less, C) <=> Closed(in, sel, C)
  BY <1>3, <1>6 DEF Closed
<1>9. Acyclic(in, less)
  <2> SUFFICES ASSUME NEW C \in SUBSET R, C # {}
               PROVE  \E id \in C : DOMAIN Deps(in, id, less[id]) \cap C = {}
    BY <1>6 DEF Acyclic
  <2>1. PICK id \in C : DOMAIN Deps(in, id, sel[id]) \cap C = {}
    BY <1>1, <1>3 DEF Valid, Acyclic
  <2> QED
    BY <1>6, <2>1
<1>10. ASSUME NEW id \in R
       PROVE  /\ id \notin in.disabled
              /\ less[id] \in in.versions[id] \cap in.pinned[id]
              /\ \A d \in DOMAIN Deps(in, id, less[id]) : less[d] \in Deps(in, id, less[id])[d]
  <2>1. id \in DOMAIN sel /\ less[id] = sel[id]
    BY <1>3, <1>6
  <2>2. DOMAIN Deps(in, id, sel[id]) \subseteq R
    BY <1>3, <1>4 DEF Closed
  <2>3. /\ id \notin in.disabled
        /\ sel[id] \in in.versions[id] \cap in.pinned[id]
        /\ \A d \in DOMAIN Deps(in, id, sel[id]) : sel[d] \in Deps(in, id, sel[id])[d]
    BY <1>1, <2>1 DEF Valid
  <2> QED
    BY <1>6, <2>1, <2>2, <2>3
<1>11. Closed(in, less, R)
  BY <1>4, <1>8
<1>12. Valid(in, less, S)
  BY <1>3, <1>5, <1>6, <1>8, <1>9, <1>10, <1>11 DEF Valid
<1> QED
  BY <1>7, <1>12 DEF Solvable

\* Without roots there is nothing to select.
LEMMA NoRoots == ASSUME NEW in \in Problems PROVE Solvable(in, {})
<1> DEFINE none == [id \in {} |-> 0]
<1>1. none \in Partial(Versions) /\ DOMAIN none = {}
  <2>1. none \in [{} -> Versions]
    OBVIOUS
  <2> QED
    BY <2>1, IsPartial
<1>2. Valid(in, none, {})
  BY <1>1 DEF Valid, Closed, Acyclic
<1> QED
  BY <1>1, <1>2 DEF Solvable

Shrinkings == [core : SUBSET Ids, todo : SUBSET Ids]
ToTry(x) == Cardinality(x.todo)

\* The argument the removal of roots goes on with.
Tried(in, x) ==
    [core |-> IF x.core \ {First(x.todo)} # {} /\ ~SolveRoots(in, x.core \ {First(x.todo)}).ok
              THEN x.core \ {First(x.todo)} ELSE x.core,
     todo |-> x.todo \ {First(x.todo)}]

LEMMA ShrunkCases ==
    ASSUME NEW in, NEW shrink, NEW x
    PROVE  /\ x.todo = {} => Shrunk(in, shrink, x) = x.core
           /\ x.todo # {} => Shrunk(in, shrink, x) = shrink[Tried(in, x)]
BY DEF Shrunk, Tried

LEMMA SetsAreFinite == \A S \in SUBSET Ids : IsFiniteSet(S) /\ Cardinality(S) \in Nat
BY Smaller, ResolverAssumption

LEMMA TriedSmaller ==
    ASSUME NEW in, NEW x \in Shrinkings, x.todo # {}
    PROVE  /\ First(x.todo) \in x.todo
           /\ Tried(in, x) \in Shrinkings /\ ToTry(Tried(in, x)) < ToTry(x)
<1> DEFINE root == First(x.todo)
           t == Tried(in, x)
<1>1. x.core \in SUBSET Ids /\ x.todo \in SUBSET Ids
  BY DEF Shrinkings
<1>2. root \in x.todo
  BY <1>1, FirstIs
<1>3. t.todo = x.todo \ {root} /\ t \in Shrinkings
  BY <1>1 DEF Tried, Shrinkings
<1> HIDE DEF t, root
<1>4. t.todo \in SUBSET x.todo /\ t.todo # x.todo /\ IsFiniteSet(x.todo)
  BY <1>1, <1>2, <1>3, SetsAreFinite
<1>5. ToTry(t) < ToTry(x)
  BY <1>4, Smaller DEF ToTry
<1> QED
  BY <1>2, <1>3, <1>5 DEF t, root

LEMMA ShrinkExists ==
    ASSUME NEW in
    PROVE  \E shrink : shrink = [x \in Shrinkings |-> Shrunk(in, shrink, x)]
<1> DEFINE X == Shrinkings
           Y == SUBSET Ids
           m == [x \in X |-> ToTry(x)]
           step == [p \in X \X [X -> Y] |-> Shrunk(in, p[2], p[1])]
<1>1. Y # {}
  OBVIOUS
<1>2. m \in [X -> Nat]
  BY SetsAreFinite DEF Shrinkings, ToTry
<1>3. ASSUME NEW x \in X, NEW f \in [X -> Y] PROVE Shrunk(in, f, x) \in Y
  <2>1. CASE x.todo = {}
    BY <2>1, ShrunkCases DEF Shrinkings
  <2>2. CASE x.todo # {}
    <3>1. Shrunk(in, f, x) = f[Tried(in, x)] /\ Tried(in, x) \in X
      BY <2>2, ShrunkCases, TriedSmaller
    <3> QED
      BY <3>1
  <2> QED
    BY <2>1, <2>2
<1>4. ASSUME NEW x \in X, NEW f \in [X -> Y], NEW g \in [X -> Y],
             \A z \in X : m[z] < m[x] => f[z] = g[z]
      PROVE  Shrunk(in, f, x) = Shrunk(in, g, x)
  <2>1. CASE x.todo = {}
    BY <2>1, ShrunkCases
  <2>2. CASE x.todo # {}
    <3>1. Tried(in, x) \in X /\ ToTry(Tried(in, x)) < ToTry(x)
      BY <2>2, TriedSmaller
    <3>2. f[Tried(in, x)] = g[Tried(in, x)]
      BY <1>4, <3>1
    <3>3. Shrunk(in, f, x) = f[Tried(in, x)] /\ Shrunk(in, g, x) = g[Tried(in, x)]
      BY <2>2, ShrunkCases
    <3> QED
      BY <3>2, <3>3
  <2> QED
    BY <2>1, <2>2
<1> HIDE DEF Y
<1>5. step \in [X \X [X -> Y] -> Y]
  BY <1>3
<1>6. \A x \in X, f \in [X -> Y] : step[<<x, f>>] = Shrunk(in, f, x)
  OBVIOUS
<1>7. \A x \in X : \A f, g \in [X -> Y] :
         (\A z \in X : m[z] < m[x] => f[z] = g[z]) => step[<<x, f>>] = step[<<x, g>>]
  BY <1>4, <1>6
<1> HIDE DEF X, m, step
<1>8. Recursive(X, Y, m, step)
  BY <1>1, <1>2, <1>5, <1>7 DEF Recursive
<1>9. Solved(X, Y, step)
  BY <1>8, Recursion
<1>10. PICK f \in [X -> Y] : \A x \in X : f[x] = Shrunk(in, f, x)
  BY <1>6, <1>9 DEF Solved
<1>11. f = [x \in X |-> Shrunk(in, f, x)]
  BY <1>10
<1> QED
  BY <1>11 DEF X

\* Roots that conflict, and those already tried cannot be left out.
Conflicting(in, x) ==
    ~Solvable(in, x.core) /\ \A root \in x.core \ x.todo : Solvable(in, x.core \ {root})
\* A core within some roots.
Minimal(in, roots, core) ==
    core \subseteq roots /\ ~Solvable(in, core) /\ \A root \in core : Solvable(in, core \ {root})

\* A root that is kept is needed for the conflict, and stays so when others are removed.
LEMMA TriedConflicting ==
    ASSUME NEW in \in Problems, NEW x \in Shrinkings, x.todo # {}, Conflicting(in, x)
    PROVE  Conflicting(in, Tried(in, x)) /\ Tried(in, x).core \subseteq x.core
<1> DEFINE root == First(x.todo)
           trial == x.core \ {root}
           t == Tried(in, x)
<1>1. x.core \in SUBSET Ids /\ trial \in SUBSET Ids /\ root \in x.todo
  BY TriedSmaller DEF Shrinkings
<1>2. /\ t.todo = x.todo \ {root}
      /\ t.core = IF trial # {} /\ ~SolveRoots(in, trial).ok THEN trial ELSE x.core
  BY DEF Tried
<1>3. SolveRoots(in, trial).ok <=> Solvable(in, trial)
  BY <1>1, SolveFindsSolution
<1>4. trial = {} => Solvable(in, trial)
  BY NoRoots
<1>5. \A r \in trial : trial \ {r} \in SUBSET (x.core \ {r})
  OBVIOUS
<1>6. \A r \in trial : r \notin x.todo => Solvable(in, trial \ {r})
  <2> SUFFICES ASSUME NEW r \in trial, r \notin x.todo PROVE Solvable(in, trial \ {r})
    OBVIOUS
  <2>1. Solvable(in, x.core \ {r}) /\ x.core \ {r} \in SUBSET Ids
    BY <1>1 DEF Conflicting
  <2> QED
    BY <1>5, <2>1, FewerRoots
<1> HIDE DEF t
<1>7. CASE Solvable(in, trial)
  <2>1. t.core = x.core
    BY <1>2, <1>3, <1>7
  <2> QED
    BY <1>2, <1>7, <2>1 DEF Conflicting, t
<1>8. CASE ~Solvable(in, trial)
  <2>1. t.core = trial
    BY <1>2, <1>3, <1>4, <1>8
  <2> HIDE DEF trial
  <2>2. \A r \in trial \ t.todo : r \notin x.todo
    BY <1>2 DEF trial
  <2>3. trial \subseteq x.core
    BY DEF trial
  <2> QED
    BY <1>6, <1>8, <2>1, <2>2, <2>3 DEF Conflicting, t
<1> QED
  BY <1>7, <1>8

\* What joint_conflicts shrinks a conflict to conflicts, and no less of it does.
LEMMA ShrinkRight ==
    ASSUME NEW in \in Problems, NEW roots \in SUBSET Ids, ~Solvable(in, roots)
    PROVE  Minimal(in, roots, Shrink(in, roots))
<1> DEFINE shrink == CHOOSE shrink : shrink = [x \in Shrinkings |-> Shrunk(in, shrink, x)]
           start == [core |-> roots, todo |-> roots]
<1>1. Shrink(in, roots) = shrink[start]
  BY DEF Shrink, Shrinkings
<1>2. shrink = [x \in Shrinkings |-> Shrunk(in, shrink, x)]
  BY ShrinkExists
<1> HIDE DEF shrink
<1> DEFINE wrong == {n \in Nat : \E x \in Shrinkings :
              n = ToTry(x) /\ Conflicting(in, x) /\ ~Minimal(in, x.core, shrink[x])}
<1>3. wrong = {}
  <2> SUFFICES ASSUME wrong # {} PROVE FALSE
    OBVIOUS
  <2>1. wrong \in SUBSET Nat
    OBVIOUS
  <2>2. PICK n \in wrong : \A k \in wrong : n <= k
    BY <2>1, LeastNumber
  <2>3. PICK x \in Shrinkings : n = ToTry(x) /\ Conflicting(in, x) /\ ~Minimal(in, x.core, shrink[x])
    BY <2>2
  <2>4. shrink[x] = Shrunk(in, shrink, x)
    BY <1>2
  <2>5. x.todo # {}
    <3>1. x.todo = {} => shrink[x] = x.core
      BY <2>4, ShrunkCases
    <3> HIDE DEF wrong
    <3> QED
      BY <2>3, <3>1 DEF Conflicting, Minimal
  <2> DEFINE t == Tried(in, x)
  <2>6. /\ t \in Shrinkings /\ ToTry(t) < ToTry(x) /\ Conflicting(in, t) /\ t.core \subseteq x.core
        /\ shrink[x] = shrink[t]
    BY <2>3, <2>4, <2>5, TriedSmaller, TriedConflicting, ShrunkCases
  <2> HIDE DEF t
  <2>7. ToTry(t) \in Nat
    BY <2>6, SetsAreFinite DEF ToTry, Shrinkings
  <2>8. n \in Nat /\ ~(n <= ToTry(t))
    BY <2>1, <2>2, <2>3, <2>6, <2>7
  <2>9. ToTry(t) \notin wrong
    <3> HIDE DEF wrong
    <3> QED
      BY <2>2, <2>8
  <2>10. Minimal(in, t.core, shrink[t])
    BY <2>6, <2>7, <2>9
  <2> QED
    BY <2>3, <2>6, <2>10 DEF Minimal
<1>4. start \in Shrinkings /\ Conflicting(in, start) /\ start.core = roots
  BY DEF Shrinkings, Conflicting
<1>5. ToTry(start) \in Nat
  BY SetsAreFinite DEF ToTry
<1> HIDE DEF start
<1> QED
  BY <1>1, <1>3, <1>4, <1>5

\* There is a core where roots conflict, and what is left of them is less.
LEMMA CoreLeaves ==
    ASSUME NEW in \in Problems, NEW roots \in SUBSET Ids,
           ~(roots = {} \/ SolveRoots(in, roots).ok)
    PROVE  /\ Minimal(in, roots, Shrink(in, roots))
           /\ roots \ Shrink(in, roots) \in SUBSET Ids
           /\ Cardinality(roots \ Shrink(in, roots)) < Cardinality(roots)
<1> DEFINE core == Shrink(in, roots)
<1>1. Minimal(in, roots, core)
  BY SolveFindsSolution, ShrinkRight
<1>2. core # {}
  BY <1>1, NoRoots DEF Minimal
<1> HIDE DEF core
<1>3. roots \ core \in SUBSET roots /\ roots \ core # roots /\ IsFiniteSet(roots)
  BY <1>1, <1>2, SetsAreFinite DEF Minimal
<1>4. Cardinality(roots \ core) < Cardinality(roots)
  BY <1>3, Smaller
<1> QED
  BY <1>1, <1>4 DEF core

LEMMA ConflictsExist ==
    ASSUME NEW in \in Problems
    PROVE  \E conflicts : conflicts = [remaining \in SUBSET Ids |-> JointConflicts(in, conflicts, remaining)]
<1> DEFINE X == SUBSET Ids
           Y == SUBSET SUBSET Ids
           m == [x \in X |-> Cardinality(x)]
           step == [p \in X \X [X -> Y] |-> JointConflicts(in, p[2], p[1])]
<1>1. Y # {}
  OBVIOUS
<1>2. m \in [X -> Nat]
  BY SetsAreFinite
<1>3. ASSUME NEW x \in X, NEW f \in [X -> Y] PROVE JointConflicts(in, f, x) \in Y
  <2>1. CASE x = {} \/ SolveRoots(in, x).ok
    BY <2>1 DEF JointConflicts
  <2>2. CASE ~(x = {} \/ SolveRoots(in, x).ok)
    <3>1. Shrink(in, x) \in SUBSET Ids /\ x \ Shrink(in, x) \in X
      BY <2>2, CoreLeaves DEF Minimal
    <3>2. f[x \ Shrink(in, x)] \in Y
      BY <3>1
    <3>3. JointConflicts(in, f, x) = {Shrink(in, x)} \cup f[x \ Shrink(in, x)]
      BY <2>2 DEF JointConflicts
    <3> QED
      BY <3>1, <3>2, <3>3
  <2> QED
    BY <2>1, <2>2
<1>4. ASSUME NEW x \in X, NEW f \in [X -> Y], NEW g \in [X -> Y],
             \A z \in X : m[z] < m[x] => f[z] = g[z]
      PROVE  JointConflicts(in, f, x) = JointConflicts(in, g, x)
  <2>1. CASE x = {} \/ SolveRoots(in, x).ok
    BY <2>1 DEF JointConflicts
  <2>2. CASE ~(x = {} \/ SolveRoots(in, x).ok)
    <3>1. x \ Shrink(in, x) \in X /\ Cardinality(x \ Shrink(in, x)) < Cardinality(x)
      BY <2>2, CoreLeaves
    <3>2. f[x \ Shrink(in, x)] = g[x \ Shrink(in, x)]
      BY <1>4, <3>1
    <3> QED
      BY <3>2 DEF JointConflicts
  <2> QED
    BY <2>1, <2>2
<1> HIDE DEF Y
<1>5. step \in [X \X [X -> Y] -> Y]
  BY <1>3
<1>6. \A x \in X, f \in [X -> Y] : step[<<x, f>>] = JointConflicts(in, f, x)
  OBVIOUS
<1>7. \A x \in X : \A f, g \in [X -> Y] :
         (\A z \in X : m[z] < m[x] => f[z] = g[z]) => step[<<x, f>>] = step[<<x, g>>]
  BY <1>4, <1>6
<1> HIDE DEF X, m, step
<1>8. Recursive(X, Y, m, step)
  BY <1>1, <1>2, <1>5, <1>7 DEF Recursive
<1>9. Solved(X, Y, step)
  BY <1>8, Recursion
<1>10. PICK f \in [X -> Y] : \A x \in X : f[x] = JointConflicts(in, f, x)
  BY <1>6, <1>9 DEF Solved
<1>11. f = [x \in X |-> JointConflicts(in, f, x)]
  BY <1>10
<1> QED
  BY <1>11 DEF X

\* The cores of a conflict are minimal, and the roots outside them work together.
Explained(in, roots, conflicts) ==
    (\A core \in conflicts : Minimal(in, roots, core)) /\ Solvable(in, roots \ UNION conflicts)

\* joint_conflicts: for any roots, each reported core conflicts and is minimal, and the
\* roots outside the cores work together.
THEOREM CoresExplain ==
    ASSUME NEW in \in Problems, NEW roots \in SUBSET Ids
    PROVE  Explained(in, roots, Cores(in, roots))
<1> DEFINE conflicts == CHOOSE conflicts :
              conflicts = [remaining \in SUBSET Ids |-> JointConflicts(in, conflicts, remaining)]
<1>1. Cores(in, roots) = conflicts[roots]
  BY DEF Cores
<1>2. conflicts = [remaining \in SUBSET Ids |-> JointConflicts(in, conflicts, remaining)]
  BY ConflictsExist
<1> HIDE DEF conflicts
<1> DEFINE wrong == {n \in Nat : \E S \in SUBSET Ids : n = Cardinality(S) /\ ~Explained(in, S, conflicts[S])}
<1>3. wrong = {}
  <2> SUFFICES ASSUME wrong # {} PROVE FALSE
    OBVIOUS
  <2>1. wrong \in SUBSET Nat
    OBVIOUS
  <2>2. PICK n \in wrong : \A k \in wrong : n <= k
    BY <2>1, LeastNumber
  <2>3. PICK S \in SUBSET Ids : n = Cardinality(S) /\ ~Explained(in, S, conflicts[S])
    BY <2>2
  <2>4. conflicts[S] = JointConflicts(in, conflicts, S)
    BY <1>2
  <2>5. CASE S = {} \/ SolveRoots(in, S).ok
    <3>1. conflicts[S] = {}
      BY <2>4, <2>5 DEF JointConflicts
    <3>2. Solvable(in, S)
      BY <2>5, SolveFindsSolution, NoRoots
    <3>3. S \ UNION {} = S
      OBVIOUS
    <3>4. Explained(in, S, conflicts[S])
      BY <3>1, <3>2, <3>3 DEF Explained
    <3> QED
      BY <2>3, <3>4
  <2>6. CASE ~(S = {} \/ SolveRoots(in, S).ok)
    <3> DEFINE core == Shrink(in, S)
               rest == S \ core
    <3>1. Minimal(in, S, core) /\ rest \in SUBSET Ids /\ Cardinality(rest) < Cardinality(S)
      BY <2>6, CoreLeaves
    <3>2. conflicts[S] = {core} \cup conflicts[rest]
      BY <2>4, <2>6 DEF JointConflicts
    <3> HIDE DEF core, rest
    <3>3. Cardinality(rest) \in Nat
      BY <3>1, SetsAreFinite
    <3>4. n \in Nat /\ ~(n <= Cardinality(rest))
      BY <2>1, <2>2, <2>3, <3>1, <3>3
    <3>5. Cardinality(rest) \notin wrong
      <4> HIDE DEF wrong
      <4> QED
        BY <2>2, <3>4
    <3>6. Explained(in, rest, conflicts[rest])
      BY <3>1, <3>3, <3>5
    <3>7. \A c \in conflicts[S] : Minimal(in, S, c)
      <4>1. \A c : Minimal(in, rest, c) => Minimal(in, S, c)
        BY DEF Minimal, rest
      <4>2. \A c \in conflicts[rest] : Minimal(in, rest, c)
        BY <3>6 DEF Explained
      <4> QED
        BY <3>1, <3>2, <4>1, <4>2
    <3>8. S \ UNION conflicts[S] = rest \ UNION conflicts[rest]
      BY <3>2 DEF rest
    <3>9. Explained(in, S, conflicts[S])
      BY <3>6, <3>7, <3>8 DEF Explained
    <3> QED
      BY <2>3, <3>9
  <2> QED
    BY <2>5, <2>6
<1>4. Cardinality(roots) \in Nat
  BY SetsAreFinite
<1> QED
  BY <1>1, <1>3, <1>4

\* The answers in a state are those of the functions above.
ResolverInv ==
    /\ input \in Problems
    /\ phase = "start" => result = Failed
    /\ phase # "start" => result = SolveRoots(input, input.roots)
    /\ phase = "diagnosed" => cores = Cores(input, HealthyRoots(input))

\* resolve and diagnose_resolution: in every state the answers are those of the functions
\* above for the input.
THEOREM ResolverInvariant == ResolverSpec => []ResolverInv
<1>1. ResolverInit => ResolverInv
  BY ResolverAssumption DEF ResolverInit, ResolverInv
<1>2. ResolverInv /\ [ResolverNext]_resolverVars => ResolverInv'
  BY DEF ResolverInv, ResolverNext, resolverVars, Resolve, Diagnose
<1> QED
  BY <1>1, <1>2, PTL DEF ResolverSpec

\* resolve and diagnose_resolution answer rightly, with a selection or with the roots that
\* stand in its way, for any catalogue and selection of any size.
THEOREM ResolverAnswersAreRight == ResolverSpec => []AnswersAreRight
<1>1. ResolverInv => AnswersAreRight
  <2> SUFFICES ASSUME ResolverInv PROVE AnswersAreRight
    OBVIOUS
  <2>1. input \in Problems /\ input.roots \in SUBSET Ids
    BY DEF ResolverInv, Problems
  <2>2. FindsASolution
    BY <2>1, SolveFindsSolution DEF ResolverInv, FindsASolution, Failed
  <2>3. CoresAreMinimal
    <3> SUFFICES ASSUME phase = "diagnosed"
                 PROVE  /\ \A core \in cores :
                              ~Solvable(input, core) /\ \A r \in core : Solvable(input, core \ {r})
                        /\ Solvable(input, {r \in input.roots : Solvable(input, {r})} \ UNION cores)
      BY DEF CoresAreMinimal
    <3>1. \A r \in input.roots : SolveRoots(input, {r}).ok <=> Solvable(input, {r})
      BY <2>1, SolveFindsSolution
    <3>2. HealthyRoots(input) = {r \in input.roots : Solvable(input, {r})}
      BY <3>1 DEF HealthyRoots
    <3>3. HealthyRoots(input) \in SUBSET Ids
      BY <2>1 DEF HealthyRoots
    <3>4. cores = Cores(input, HealthyRoots(input))
      BY DEF ResolverInv
    <3>5. Explained(input, HealthyRoots(input), cores)
      BY <2>1, <3>3, <3>4, CoresExplain
    <3> QED
      BY <3>2, <3>5 DEF Explained, Minimal
  <2> QED
    BY <2>2, <2>3 DEF AnswersAreRight
<1> QED
  BY <1>1, ResolverInvariant, PTL

(***************************************************************************)
(* Imports                                                                 *)
(***************************************************************************)

\* What a run has published is its own and only that, but for what it could not
\* take back.
OwnInv == \A i \in Importers :
    /\ \A p \in published[i] : dir[p] = i /\ p \notin stuck
    /\ \A p \in Packages : dir[p] = i => p \in published[i] \cup stuck

\* A run starts with nothing published and ends with nothing staged.
PhaseInv == \A i \in Importers :
    /\ pc[i] \in {"idle", "staged", "refused"} => published[i] = {}
    /\ pc[i] \in {"undoing", "done", "refused"} => staged[i] = {}

\* Damage is done only by the removal under way, or one that never ended.
DamageInv == \A p \in broken \ stuck : \E i \in Importers :
    p \in published[i] /\ pc[i] \in {"undoing", "dead"}

IInv == TypeOK /\ OwnInv /\ PhaseInv /\ DamageInv

USE ImportAssumption DEF Nobody, Installed, Phases, Goto

------------------------------------------------------------------------------
\* The user's packages are there and no import has begun.
LEMMA InitInv == Init => IInv
BY DEF Init, IInv, TypeOK, OwnInv, PhaseInv, DamageInv

\* The invariant speaks of the present state only.
LEMMA StutterInv == IInv /\ UNCHANGED vars => IInv'
BY DEF vars, IInv, TypeOK, OwnInv, PhaseInv, DamageInv

\* The steps that move a run on without touching a package.
LEMMA RunStep ==
    ASSUME IInv, NEW i \in Importers,
           \/ \E packages \in SUBSET Packages : Extract(i, packages)
           \/ Validate(i) \/ Refuse(i) \/ PublishFails(i) \/ Finish(i) \/ Crash(i)
    PROVE  IInv'
<1> USE DEF IInv, TypeOK
<1>1. UNCHANGED <<dir, broken, published, stuck>> /\ TypeOK'
  BY DEF Extract, Validate, Refuse, PublishFails, Finish, Crash
<1>2. PhaseInv'
  BY DEF PhaseInv, Extract, Validate, Refuse, PublishFails, Finish, Crash
<1>3. \A j \in Importers :
          published[j] # {} /\ pc[j] \in {"undoing", "dead"} => pc'[j] \in {"undoing", "dead"}
  BY DEF Extract, Validate, Refuse, PublishFails, Finish, Crash
<1>4. DamageInv'
  BY <1>1, <1>3 DEF DamageInv
<1> QED
  BY <1>1, <1>2, <1>4 DEF OwnInv

\* The steps that put a package in its place or take it back.
LEMMA PackageStep ==
    ASSUME IInv, NEW i \in Importers, NEW p \in Packages, Publish(i, p) \/ Undo(i, p)
    PROVE  IInv'
<1> USE DEF IInv, TypeOK
<1>1. CASE Publish(i, p)
  BY <1>1 DEF Publish, OwnInv, PhaseInv, DamageInv
<1>2. CASE Undo(i, p)
  <2>1. dir[p] = i /\ p \notin stuck
    BY <1>2 DEF Undo, OwnInv
  <2>2. TypeOK'
    BY <1>2, <2>1 DEF Undo
  <2>3. OwnInv'
    BY <1>2, <2>1 DEF Undo, OwnInv
  <2>4. PhaseInv'
    BY <1>2 DEF Undo, PhaseInv
  <2>5. \A q \in Packages \ {p}, j \in Importers :
            q \in published[j] /\ pc[j] \in {"undoing", "dead"} =>
               q \in published'[j] /\ pc'[j] \in {"undoing", "dead"}
    BY <1>2 DEF Undo
  <2>6. p \in broken' \ stuck' => p \in published'[i] /\ pc'[i] = "undoing"
    BY <1>2 DEF Undo
  <2>7. DamageInv'
    BY <1>2, <2>5, <2>6 DEF Undo, DamageInv
  <2> QED
    BY <2>2, <2>3, <2>4, <2>7
<1> QED
  BY <1>1, <1>2

\* The invariant holds for any packages and any imports.
THEOREM ImportInvariant == Spec => []IInv
<1>1. IInv /\ [Next]_vars => IInv'
  BY StutterInv, RunStep, PackageStep DEF Next
<1> QED
  BY <1>1, InitInv, PTL DEF Spec

------------------------------------------------------------------------------
\* A collection is imported as a whole or not at all, and a package is damaged only
\* while the run that published it takes it back, or where that came to no end
\* (publish_packages, archive.rs).
THEOREM ImportWholeOrNothing == Spec => []WholeOrNothing
<1>1. IInv => WholeOrNothing
  BY DEF IInv, WholeOrNothing, TypeOK, OwnInv, PhaseInv, DamageInv
<1> QED
  BY <1>1, ImportInvariant, PTL

\* An installed version is never replaced: its directory changes hands only by the
\* removal of the run that published it (archive.rs publish_packages).
THEOREM ImportNeverReplaced == Spec => NeverReplaced
<1> DEFINE Kept ==
      \A p \in Installed : dir'[p] # dir[p] =>
         dir'[p] = Nobody /\ \E i \in Importers : dir[p] = i /\ pc[i] = "undoing"
<1>1. IInv /\ Next => Kept
  <2> SUFFICES ASSUME IInv, Next, NEW i \in Importers, NEW p \in Packages,
                      Publish(i, p) \/ Undo(i, p)
               PROVE  Kept
    BY DEF Next, Extract, Validate, Refuse, PublishFails, Finish, Crash
  <2> QED
    BY DEF IInv, TypeOK, OwnInv, Publish, Undo
<1>2. IInv /\ [Next]_vars => [Kept]_vars
  BY <1>1
<1> QED
  BY <1>2, ImportInvariant, PTL DEF Spec, NeverReplaced

(***************************************************************************)
(* The configuration provider                                              *)
(***************************************************************************)

LEMMA SectionForm ==
  \A t \in Sections : DOMAIN t \subseteq Keys /\ \A k \in DOMAIN t : t[k] \in Values
BY DEF Sections

LEMMA DocumentForm ==
  /\ \A doc \in Documents : DOMAIN doc \subseteq Names /\ \A n \in DOMAIN doc : doc[n] \in Sections
  /\ \A D \in SUBSET Names : [D -> Sections] \subseteq Documents
BY DEF Documents

\* The tables the provider works with are tables of the file.
LEMMA MergeTable ==
  ASSUME NEW a \in Sections, NEW b \in Sections
  PROVE  /\ Merge(a, b) \in Sections
         /\ \A k \in DOMAIN b : k \in DOMAIN Merge(a, b) /\ Merge(a, b)[k] = b[k]
<1> DEFINE D == DOMAIN a \cup DOMAIN b
<1>1. D \in SUBSET Keys /\ \A k \in D : (IF k \in DOMAIN b THEN b[k] ELSE a[k]) \in Values
  BY SectionForm
<1>2. Merge(a, b) \in [D -> Values]
  BY <1>1 DEF Merge
<1> QED
  BY <1>1, <1>2 DEF Sections, Merge

LEMMA SectionTable ==
  ASSUME NEW doc \in Documents, NEW s
  PROVE  Section(doc, s) \in Sections
<1>1. NoTable \in [{} -> Values]
  BY DEF NoTable
<1>2. NoTable \in Sections
  BY <1>1 DEF Sections
<1> QED
  BY <1>2, DocumentForm DEF Section

LEMMA WithDocument ==
  ASSUME NEW doc \in Documents, NEW s \in Names, NEW t \in Sections
  PROVE  With(doc, s, t) \in Documents
<1> DEFINE D == DOMAIN doc \cup {s}
<1>1. D \in SUBSET Names /\ \A n \in DOMAIN doc : doc[n] \in Sections
  BY DocumentForm
<1>2. With(doc, s, t) \in [D -> Sections]
  BY <1>1 DEF With
<1> HIDE DEF D
<1> QED
  BY <1>1, <1>2, DocumentForm

LEMMA WithoutKey ==
  ASSUME NEW t \in Sections, NEW k
  PROVE  Without(t, k) \in Sections
<1> DEFINE D == DOMAIN t \ {k}
<1>1. D \in SUBSET Keys /\ \A x \in D : t[x] \in Values
  BY SectionForm
<1>2. Without(t, k) \in [D -> Values]
  BY <1>1 DEF Without
<1> HIDE DEF D
<1> QED
  BY <1>1, <1>2 DEF Sections

LEMMA WithoutSection ==
  ASSUME NEW doc \in Documents, NEW s
  PROVE  Without(doc, s) \in Documents
<1> DEFINE D == DOMAIN doc \ {s}
<1>1. D \in SUBSET Names /\ \A x \in D : doc[x] \in Sections
  BY DocumentForm
<1>2. Without(doc, s) \in [D -> Sections]
  BY <1>1 DEF Without
<1> HIDE DEF D
<1> QED
  BY <1>1, <1>2, DocumentForm

LEMMA NoTableDocument == NoTable \in Documents
<1>1. NoTable \in [{} -> Sections]
  BY DEF NoTable
<1> QED
  BY <1>1, DocumentForm

\* The registrations are of the code, each for a section of the file.
Registered == DOMAIN regs \subseteq Names /\ \A s \in DOMAIN regs : regs[s] \in Registrations

LEMMA IniSectionName ==
  ASSUME Registered, NEW doc \in Documents, NEW name \in Names
  PROVE  IniSection(doc, name) \in Names
<1>1. CASE Exposed(name) = {}
  <2>1. Spelled(doc, name) \in Names
    BY DocumentForm DEF Spelled
  <2> QED
    BY <1>1, <2>1 DEF IniSection
<1>2. CASE Exposed(name) # {}
  <2>1. (CHOOSE s \in Exposed(name) : TRUE) \in Exposed(name)
    BY <1>2
  <2>2. Exposed(name) \subseteq Names
    BY DEF Exposed, Registered
  <2> QED
    BY <1>2, <2>1, <2>2 DEF IniSection
<1> QED
  BY <1>1, <1>2

LEMMA ChangedDocument ==
  ASSUME NEW doc \in Documents, NEW s \in Names, NEW k \in Keys, NEW v \in Values
  PROVE  With(doc, s, Merge(Section(doc, s), Pair(k, v))) \in Documents
<1>1. {k} \in SUBSET Keys /\ Pair(k, v) \in [{k} -> Values]
  BY DEF Pair
<1>2. Pair(k, v) \in Sections
  BY <1>1 DEF Sections
<1>3. Merge(Section(doc, s), Pair(k, v)) \in Sections
  BY <1>2, MergeTable, SectionTable
<1> QED
  BY <1>3, WithDocument

LEMMA ApplyDocument ==
  ASSUME Registered, NEW doc \in Documents, NEW p \in Patches
  PROVE  Apply(doc, p) \in Documents
<1> DEFINE s == IF p.kind = "write" THEN p.section ELSE IniSection(doc, p.section)
<1>1. s \in Names /\ p.key \in Keys /\ p.value \in Values
  BY IniSectionName DEF Patches
<1>2. Apply(doc, p) =
        IF p.kind \in {"write", "set"} THEN With(doc, s, Merge(Section(doc, s), Pair(p.key, p.value)))
        ELSE IF s \notin DOMAIN doc THEN doc
        ELSE IF p.kind = "remove_key" THEN With(doc, s, Without(doc[s], p.key))
        ELSE Without(doc, s)
  BY DEF Apply
<1> HIDE DEF s
<1>3. With(doc, s, Merge(Section(doc, s), Pair(p.key, p.value))) \in Documents
  BY <1>1, ChangedDocument
<1>4. ASSUME s \in DOMAIN doc
      PROVE  With(doc, s, Without(doc[s], p.key)) \in Documents
  <2>1. doc[s] \in Sections
    BY <1>4, DocumentForm
  <2>2. Without(doc[s], p.key) \in Sections
    BY <2>1, WithoutKey
  <2> QED
    BY <1>1, <2>2, WithDocument
<1> QED
  BY <1>2, <1>3, <1>4, WithoutSection

\* A document that was fixed has the fixed values of every registration.
LEMMA FixDocument ==
  ASSUME Registered, NEW doc \in Documents
  PROVE  /\ Fix(doc) \in Documents
         /\ \A s \in DOMAIN regs : \A k \in DOMAIN regs[s].fixed :
              k \in DOMAIN Section(Fix(doc), s) /\ Fix(doc)[s][k] = regs[s].fixed[k]
<1> DEFINE fixing == {s \in DOMAIN regs : DOMAIN regs[s].fixed # {}}
           D == DOMAIN doc \cup fixing
           value(n) == IF n \in fixing THEN Merge(Section(doc, n), regs[n].fixed) ELSE doc[n]
<1>1. Fix(doc) = [n \in D |-> value(n)]
  BY DEF Fix
<1>2. \A s \in DOMAIN regs : regs[s].fixed \in Sections
  BY StoreAssumption DEF Registered
<1>3. \A s \in fixing : Merge(Section(doc, s), regs[s].fixed) \in Sections
  BY <1>2, MergeTable, SectionTable
<1>4. D \in SUBSET Names /\ \A n \in D : value(n) \in Sections
  BY <1>3, DocumentForm DEF Registered
<1>5. Fix(doc) \in Documents
  <2> HIDE DEF D, value
  <2>1. Fix(doc) \in [D -> Sections]
    BY <1>1, <1>4
  <2> QED
    BY <1>4, <2>1, DocumentForm
<1>6. ASSUME NEW s \in DOMAIN regs, NEW k \in DOMAIN regs[s].fixed
      PROVE  k \in DOMAIN Section(Fix(doc), s) /\ Fix(doc)[s][k] = regs[s].fixed[k]
  <2>1. s \in fixing
    OBVIOUS
  <2>2. s \in DOMAIN Fix(doc) /\ Fix(doc)[s] = Merge(Section(doc, s), regs[s].fixed)
    BY <1>1, <2>1
  <2>3. LET m == Merge(Section(doc, s), regs[s].fixed) IN k \in DOMAIN m /\ m[k] = regs[s].fixed[k]
    BY <1>2, MergeTable, SectionTable
  <2> QED
    BY <2>2, <2>3 DEF Section
<1> QED
  BY <1>5, <1>6

\* What holds whoever writes the file meanwhile: what is cached or about to be written is
\* a document that every registration accepts, with all the fixed values.
StoreInv ==
  /\ StoreTypeOK
  /\ cache = Torn => regs = NoTable /\ op = NoOp
  /\ cache # Torn => AllUsable(cache)
  /\ wanted = Torn <=> file = Torn
  /\ op # NoOp => /\ file # Torn /\ AllUsable(op.doc)
                  /\ \A s \in DOMAIN regs : \A k \in DOMAIN regs[s].fixed :
                       k \in DOMAIN Section(op.doc, s) /\ op.doc[s][k] = regs[s].fixed[k]

\* What holds while other programs do not write between the read and the write of an
\* update: it goes on from what is in the file.
SavedInv ==
  /\ file = wanted
  /\ op # NoOp => op.doc = Fix(Apply(file, op.patch))

LEMMA StoreInitially == StoreInit => StoreInv /\ SavedInv
<1> SUFFICES ASSUME StoreInit PROVE StoreInv /\ SavedInv
  OBVIOUS
<1>1. StoreTypeOK
  BY NoTableDocument DEF StoreInit, StoreTypeOK, NoTable
<1> QED
  BY <1>1 DEF StoreInit, StoreInv, SavedInv

LEMMA StoreStep == StoreInv /\ [StoreNext]_storeVars => StoreInv'
<1> SUFFICES ASSUME StoreInv, [StoreNext]_storeVars PROVE StoreInv'
  OBVIOUS
<1> USE DEF StoreInv
<1>0. /\ {file, cache, wanted} \subseteq Documents \cup {Torn} /\ Registered
      /\ op # NoOp => op.doc \in Documents /\ op.patch \in Patches /\ cache # Torn
      /\ writes \in Nat
  BY DEF StoreTypeOK, Registered
<1>1. CASE Load
  <2>1. /\ regs = NoTable /\ op = NoOp /\ cache' = file /\ file # Torn
        /\ UNCHANGED <<file, regs, op, wanted, writes>>
    BY <1>1 DEF Load
  <2>2. StoreTypeOK'
    BY <1>0, <2>1 DEF StoreTypeOK, Registered
  <2>3. AllUsable(cache)'
    BY <2>1 DEF AllUsable, NoTable
  <2> QED
    BY <2>1, <2>2, <2>3
<1>2. CASE Exit
  <2>1. cache' = Torn /\ regs' = NoTable /\ op' = NoOp /\ UNCHANGED <<file, wanted, writes>>
    BY <1>2 DEF Exit
  <2>2. StoreTypeOK'
    BY <1>0, <2>1 DEF StoreTypeOK, NoTable
  <2> QED
    BY <2>1, <2>2
<1>3. ASSUME NEW s \in Names, NEW r \in Registrations, Register(s, r) PROVE StoreInv'
  <2>1. /\ cache # Torn /\ op = NoOp /\ Usable(cache, s, r) /\ regs' = With(regs, s, r)
        /\ UNCHANGED <<file, cache, op, wanted, writes>>
    BY <1>3 DEF Register, Up
  <2>2. /\ DOMAIN regs' = DOMAIN regs \cup {s} /\ regs'[s] = r
        /\ \A t \in DOMAIN regs : t # s => regs'[t] = regs[t]
    BY <2>1 DEF With
  <2>3. StoreTypeOK'
    BY <1>0, <2>1, <2>2 DEF StoreTypeOK, Registered
  <2>4. \A t \in DOMAIN regs' : Usable(cache, t, regs'[t])
    BY <2>1, <2>2 DEF AllUsable
  <2>5. AllUsable(cache)'
    BY <2>1, <2>4 DEF AllUsable
  <2> QED
    BY <2>1, <2>3, <2>5
<1>4. ASSUME NEW p \in Patches, BeginUpdate(p) PROVE StoreInv'
  <2> DEFINE doc == Fix(Apply(file, p))
  <2>1. /\ cache # Torn /\ file # Torn /\ AllUsable(doc) /\ op' = [patch |-> p, doc |-> doc]
        /\ UNCHANGED <<file, cache, regs, wanted, writes>>
    BY <1>4 DEF BeginUpdate, Up
  <2>2. Apply(file, p) \in Documents
    BY <1>0, <2>1, ApplyDocument
  <2>3. /\ doc \in Documents
        /\ \A s \in DOMAIN regs : \A k \in DOMAIN regs[s].fixed :
             k \in DOMAIN Section(doc, s) /\ doc[s][k] = regs[s].fixed[k]
    BY <1>0, <2>2, FixDocument
  <2> HIDE DEF doc
  <2>4. op'.doc = doc /\ op'.patch = p
    BY <2>1
  <2>5. StoreTypeOK'
    BY <1>0, <2>1, <2>3, <2>4 DEF StoreTypeOK, Registered
  <2>6. AllUsable(cache)' /\ AllUsable(op.doc)'
    BY <2>1, <2>4 DEF AllUsable, Usable, Unaliased, Aliases
  <2> QED
    BY <2>1, <2>3, <2>4, <2>5, <2>6
<1>5. CASE Commit
  <2>1. /\ op # NoOp /\ file' = op.doc /\ cache' = op.doc /\ op' = NoOp /\ regs' = regs
        /\ wanted' = Fix(Apply(wanted, op.patch)) /\ writes' = writes + 1
    BY <1>5 DEF Commit
  <2>2. op.doc \in Documents /\ op.patch \in Patches /\ wanted \in Documents
    BY <1>0, <2>1
  <2>3. wanted' \in Documents
    BY <1>0, <2>1, <2>2, ApplyDocument, FixDocument
  <2>4. StoreTypeOK'
    BY <1>0, <2>1, <2>2, <2>3 DEF StoreTypeOK, Registered
  <2>5. AllUsable(cache)'
    <3>1. AllUsable(op.doc)
      BY <2>1
    <3> QED
      BY <2>1, <3>1 DEF AllUsable, Usable, Unaliased, Aliases
  <2>6. file' # Torn /\ wanted' # Torn /\ cache' # Torn
    BY <2>1, <2>2, <2>3, StoreAssumption
  <2> QED
    BY <2>1, <2>4, <2>5, <2>6
<1>6. CASE WriteFails
  <2>1. /\ op # NoOp /\ file' \in {file, NoTable, Torn} /\ op' = NoOp
        /\ wanted' = IF file' = file THEN wanted ELSE file'
        /\ writes' = writes + 1 /\ UNCHANGED <<cache, regs>>
    BY <1>6 DEF WriteFails, Leftover
  <2>2. StoreTypeOK'
    BY <1>0, <2>1, NoTableDocument DEF StoreTypeOK, Registered
  <2>3. cache # Torn => AllUsable(cache)'
    BY <2>1 DEF AllUsable, Usable, Unaliased, Aliases
  <2>4. wanted' = Torn <=> file' = Torn
    BY <2>1
  <2> QED
    BY <1>0, <2>1, <2>2, <2>3, <2>4
<1>7. ASSUME NEW change \in Others, OtherWrites(change) PROVE StoreInv'
  <2> DEFINE changed(doc) ==
        With(doc, change[1], Merge(Section(doc, change[1]), Pair(change[2], change[3])))
  <2>1. /\ file # Torn /\ file' = changed(file) /\ wanted' = changed(wanted)
        /\ writes' = writes + 1 /\ UNCHANGED <<cache, regs, op>>
    BY <1>7 DEF OtherWrites
  <2>2. change[1] \in Names /\ change[2] \in Keys /\ change[3] \in Values
    BY StoreAssumption
  <2>3. ASSUME NEW doc \in Documents PROVE changed(doc) \in Documents
    BY <2>2, ChangedDocument
  <2> HIDE DEF changed
  <2>4. file \in Documents /\ wanted \in Documents
    BY <1>0, <2>1
  <2>5. file' \in Documents /\ wanted' \in Documents
    BY <2>1, <2>3, <2>4
  <2>6. StoreTypeOK'
    BY <1>0, <2>1, <2>5 DEF StoreTypeOK, Registered
  <2>7. file' # Torn /\ wanted' # Torn
    BY <2>5, StoreAssumption
  <2>8. /\ cache # Torn => AllUsable(cache)'
        /\ op # NoOp => AllUsable(op.doc)'
    BY <2>1 DEF AllUsable, Usable, Unaliased, Aliases
  <2> QED
    BY <2>1, <2>6, <2>7, <2>8
<1>8. CASE UNCHANGED storeVars
  BY <1>8 DEF storeVars, StoreTypeOK, AllUsable
<1> QED
  BY <1>1, <1>2, <1>3, <1>4, <1>5, <1>6, <1>7, <1>8 DEF StoreNext

\* What an update is to write depends on the file, the patch and the registrations.
LEMMA UpdateSame ==
  ASSUME regs' = regs, file' = file, NEW p, op'.patch = p
  PROVE  Fix(Apply(file, op.patch))' = Fix(Apply(file, p))
<1>1. IniSection(file, op.patch.section)' = IniSection(file, p.section)
  BY DEF IniSection, Spelled, Exposed
<1>2. Apply(file, op.patch)' = Apply(file, p)
  BY <1>1 DEF Apply
<1> QED
  BY <1>2 DEF Fix

\* An update goes on from the file as it is when nobody else writes in between.
LEMMA SavedStep == ~Overlap /\ SavedInv /\ [StoreNext]_storeVars => SavedInv'
<1> SUFFICES ASSUME ~Overlap, SavedInv, [StoreNext]_storeVars PROVE SavedInv'
  OBVIOUS
<1> USE DEF SavedInv
<1>0. ASSUME UNCHANGED <<file, wanted, regs, op>> PROVE SavedInv'
  <2> DEFINE p == op.patch
  <2>1. op'.patch = p
    BY <1>0
  <2> HIDE DEF p
  <2>2. Fix(Apply(file, op.patch))' = Fix(Apply(file, p))
    BY <1>0, <2>1, UpdateSame
  <2> QED
    BY <1>0, <2>2 DEF p
<1>1. CASE Load
  BY <1>0, <1>1 DEF Load
<1>2. CASE Exit
  BY <1>2 DEF Exit
<1>3. ASSUME NEW s \in Names, NEW r \in Registrations, Register(s, r) PROVE SavedInv'
  BY <1>3 DEF Register, Up
<1>4. ASSUME NEW p \in Patches, BeginUpdate(p) PROVE SavedInv'
  <2>1. op' = [patch |-> p, doc |-> Fix(Apply(file, p))] /\ UNCHANGED <<file, regs, wanted>>
    BY <1>4 DEF BeginUpdate
  <2>2. op'.doc = Fix(Apply(file, p)) /\ op'.patch = p
    BY <2>1
  <2>3. Fix(Apply(file, op.patch))' = Fix(Apply(file, p))
    BY <2>1, <2>2, UpdateSame
  <2> QED
    BY <2>1, <2>2, <2>3
<1>5. CASE Commit
  BY <1>5 DEF Commit
<1>6. CASE WriteFails
  BY <1>6 DEF WriteFails
<1>7. ASSUME NEW change \in Others, OtherWrites(change) PROVE SavedInv'
  BY <1>7 DEF OtherWrites
<1>8. CASE UNCHANGED storeVars
  BY <1>0, <1>8 DEF storeVars
<1> QED
  BY <1>1, <1>2, <1>3, <1>4, <1>5, <1>6, <1>7, <1>8 DEF StoreNext

\* Store.register and update: what is cached or about to be written is accepted by every
\* registration and has all the fixed values, even if other programs write in between.
THEOREM StoreInvariant == StoreSpec => []StoreInv
<1>1. StoreInit => StoreInv
  BY StoreInitially
<1> QED
  BY <1>1, StoreStep, PTL DEF StoreSpec

\* update: the file is what everybody saved, in order, as long as other programs keep out
\* of the moment between its read and its write.
THEOREM StoreSavedChangesKept == ~Overlap /\ StoreSpec => []SavedChangesKept
<1>1. StoreInit => SavedInv
  BY StoreInitially
<1>2. StoreInv /\ SavedInv => SavedChangesKept
  BY DEF StoreInv, SavedInv, SavedChangesKept
<1>3. CASE ~Overlap
  <2>1. SavedInv /\ [StoreNext]_storeVars => SavedInv'
    BY <1>3, SavedStep
  <2> QED
    BY <1>1, <1>2, <2>1, StoreInvariant, PTL DEF StoreSpec
<1> QED
  BY <1>3

(***************************************************************************)
(* The mod manager                                                         *)
(***************************************************************************)

\* A job under way has what it was given, and the draft waits for it: it is the one a
\* save was given, and any job whose answer replaces it began without edits.
JobInv ==
  /\ job \in Jobs
  /\ job.kind # "load" => snapshot # NoFile
  /\ job.kind \in {"load", "import"} => ~Dirty
  /\ job.kind = "save" => /\ job.base = snapshot /\ job.base \in Tables /\ job.edits = draft
                          /\ \A f \in Fields : job.edits[f] # job.base[f] => job.edits[f] # Invalid
  /\ job.phase \in {"read", "written"} => job.kind = "save"
  /\ job.phase = "read" => mods # NoFile
  /\ job.phase \in {"read", "loaded"} => job.table \in Tables

ManagerInv ==
  /\ ManagerTypeOK
  /\ mods = NoFile <=> intended = NoFile
  /\ job # NoJob => JobInv
  /\ window = "closed" => discarded \/ ~Dirty

\* What holds while other programs do not write between the read and the write of a save.
NobodyLost ==
  /\ OthersValuesKept
  /\ job # NoJob /\ job.phase = "read" => job.table = mods

LEMMA ManagerInitially == ManagerInit => ManagerInv /\ NobodyLost
<1> SUFFICES ASSUME ManagerInit PROVE ManagerInv /\ NobodyLost
  OBVIOUS
<1>1. ~Dirty
  BY DEF ManagerInit, Dirty, Changed
<1>2. draft \in Drafts /\ job = [kind |-> "load", base |-> NoFile, edits |-> draft,
                                 phase |-> "started", table |-> NoFile]
  BY DEF ManagerInit, Drafts, Job
<1>3. job \in Jobs /\ job.kind = "load" /\ job.phase = "started"
  BY <1>2 DEF Jobs
<1>4. saves \in 0 .. MaxSaves
  BY ManagerAssumption DEF ManagerInit
<1> QED
  BY <1>1, <1>2, <1>3, <1>4, ManagerAssumption
  DEF ManagerInit, ManagerInv, NobodyLost, OthersValuesKept, JobInv, ManagerTypeOK

\* A job that begins now.
LEMMA JobBegins ==
  ASSUME ManagerInv, NEW kind \in {"load", "save", "import", "export"}, job' = Job(kind),
         UNCHANGED <<mods, intended, saves, snapshot, draft>>,
         kind # "load" => snapshot # NoFile,
         kind # "save" => ~Dirty,
         kind = "save" => Savable
  PROVE  /\ job' \in Jobs /\ job'.kind = kind /\ job'.phase = "started" /\ job' # NoJob
         /\ JobInv'
<1>1. draft \in Drafts /\ snapshot \in Tables \cup {NoFile}
  BY DEF ManagerInv, ManagerTypeOK
<1>2. job' = [kind |-> kind, base |-> snapshot, edits |-> draft, phase |-> "started", table |-> NoFile]
  BY DEF Job
<1>3. job' \in Jobs
  BY <1>1, <1>2 DEF Jobs
<1>4. /\ job'.kind = kind /\ job'.phase = "started" /\ job'.base = snapshot /\ job'.edits = draft
      /\ job' # NoJob
  BY <1>2, <1>3, ManagerAssumption
<1>5. Dirty' <=> Dirty
  BY DEF Dirty, Changed
<1>6. kind = "save" => /\ snapshot \in Tables
                       /\ \A f \in Fields : draft[f] # snapshot[f] => draft[f] # Invalid
  BY <1>1 DEF Savable, CanEdit, Changed
<1> QED
  BY <1>3, <1>4, <1>5, <1>6 DEF JobInv

\* A step that leaves the job and the view of the table alone.
LEMMA JobStays ==
  ASSUME job # NoJob => JobInv, UNCHANGED <<job, snapshot, draft>>, mods # NoFile => mods' # NoFile
  PROVE  (job # NoJob => JobInv)'
<1>1. Dirty' <=> Dirty
  BY DEF Dirty, Changed
<1> QED
  BY <1>1 DEF JobInv

LEMMA ManagerStep == ManagerInv /\ [ManagerNext]_managerVars => ManagerInv'
<1> SUFFICES ASSUME ManagerInv, [ManagerNext]_managerVars PROVE ManagerInv'
  OBVIOUS
<1>0. /\ mods \in Tables \cup {NoFile} /\ intended \in Tables \cup {NoFile}
      /\ saves \in 0 .. MaxSaves
      /\ snapshot \in Tables \cup {NoFile} /\ draft \in Drafts
      /\ closing => job # NoJob
      /\ window \in {"open", "asking", "closed"} /\ discarded \in BOOLEAN
      /\ mods = NoFile <=> intended = NoFile
      /\ job # NoJob => JobInv
      /\ window = "closed" => discarded \/ ~Dirty
  BY DEF ManagerInv, ManagerTypeOK
<1>a. ASSUME /\ mods' \in Tables \cup {NoFile} /\ intended' \in Tables \cup {NoFile}
             /\ saves' \in 0 .. MaxSaves
             /\ snapshot' \in Tables \cup {NoFile} /\ draft' \in Drafts
             /\ closing' => job' # NoJob
             /\ window' \in {"open", "asking", "closed"} /\ discarded' \in BOOLEAN
             /\ mods' = NoFile <=> intended' = NoFile
             /\ (job # NoJob => JobInv)'
             /\ (window = "closed" => discarded \/ ~Dirty)'
      PROVE  ManagerInv'
  <2>1. job' # NoJob => /\ job'.kind \in {"load", "save", "import", "export"}
                        /\ job'.phase \in {"started", "read", "written", "loaded", "failed"}
                        /\ job'.kind # "load" => snapshot' # NoFile
    <3>1. CASE job' = NoJob
      BY <3>1
    <3>2. CASE job' # NoJob
      BY <1>a, <3>2 DEF JobInv, Jobs
    <3> QED
      BY <3>1, <3>2
  <2> QED
    BY <1>a, <2>1 DEF ManagerInv, ManagerTypeOK
\* The user.
<1>1. ASSUME NEW f \in Fields, NEW v \in Choices \cup {Absent, Invalid}, Edit(f, v) PROVE ManagerInv'
  <2>1. /\ job = NoJob /\ window = "open" /\ draft' = [draft EXCEPT ![f] = v]
        /\ UNCHANGED <<mods, intended, saves, snapshot, job, closing, window, discarded>>
    BY <1>1 DEF Edit, CanEdit, disk
  <2>2. draft' \in Drafts
    BY <1>0, <2>1 DEF Drafts
  <2> QED
    BY <1>0, <1>a, <2>1, <2>2
<1>2. CASE Revert
  <2>1. /\ job = NoJob /\ window = "open" /\ draft' = snapshot /\ snapshot # NoFile
        /\ UNCHANGED <<mods, intended, saves, snapshot, job, closing, window, discarded>>
    BY <1>2 DEF Revert, CanEdit, disk
  <2>2. draft' \in Drafts
    BY <1>0, <2>1 DEF Drafts, Tables
  <2> QED
    BY <1>0, <1>a, <2>1, <2>2
<1>3. CASE Refresh
  <2>1. /\ job' = Job("load") /\ ~Dirty /\ window = "open"
        /\ UNCHANGED <<mods, intended, saves, snapshot, draft, closing, window, discarded>>
    BY <1>3 DEF Refresh, disk, ui
  <2>2. job = NoJob
    BY <1>3 DEF Refresh
  <2>3. JobInv' /\ job' # NoJob
    BY <2>1, JobBegins
  <2> QED
    BY <1>0, <1>a, <2>1, <2>3
<1>4. ASSUME NEW kind \in {"import", "export"}, Archive(kind) PROVE ManagerInv'
  <2>1. /\ job' = Job(kind) /\ ~Dirty /\ window = "open" /\ snapshot # NoFile
        /\ UNCHANGED <<mods, intended, saves, snapshot, draft, closing, window, discarded>>
    BY <1>4 DEF Archive, CanEdit, disk, ui
  <2>2. JobInv' /\ job' # NoJob
    BY <2>1, JobBegins
  <2> QED
    BY <1>0, <1>a, <2>1, <2>2
<1>5. CASE Save
  <2>1. /\ job' = Job("save") /\ Savable /\ window = "open" /\ snapshot # NoFile
        /\ UNCHANGED <<mods, intended, saves, snapshot, draft, closing, window, discarded>>
    BY <1>5 DEF Save, Savable, CanEdit, disk, ui
  <2>2. JobInv' /\ job' # NoJob
    BY <2>1, JobBegins
  <2> QED
    BY <1>0, <1>a, <2>1, <2>2
<1>c. ASSUME UNCHANGED <<mods, intended, saves, snapshot, draft, job>>,
             discarded' \in BOOLEAN, window' \in {"open", "asking", "closed"},
             closing' => job # NoJob, window' = "closed" => discarded' \/ ~Dirty
      PROVE  ManagerInv'
  <2>1. Dirty' <=> Dirty
    BY <1>c DEF Dirty, Changed
  <2>2. (job # NoJob => JobInv)'
    BY <1>0, <1>c, JobStays
  <2> QED
    BY <1>0, <1>a, <1>c, <2>1, <2>2
<1>6. CASE RequestClose
  <2>1. /\ window' = IF Dirty THEN "asking" ELSE "closed"
        /\ UNCHANGED <<mods, intended, saves, snapshot, draft, job, closing, discarded>>
    BY <1>6 DEF RequestClose, disk
  <2> QED
    BY <1>0, <1>c, <2>1
<1>7. CASE GoOn
  BY <1>0, <1>7, <1>c DEF GoOn, disk
<1>8. CASE Discard
  BY <1>0, <1>8, <1>c DEF Discard, disk
<1>9. CASE SaveAndClose
  <2>1. /\ window' = "open" /\ closing' = Savable /\ job' = IF Savable THEN Job("save") ELSE job
        /\ UNCHANGED <<mods, intended, saves, snapshot, draft, discarded>>
    BY <1>9 DEF SaveAndClose, disk
  <2>2. CASE Savable
    <3>1. job' = Job("save") /\ snapshot # NoFile
      BY <2>1, <2>2 DEF Savable, CanEdit
    <3>2. JobInv' /\ job' # NoJob
      BY <2>1, <2>2, <3>1, JobBegins
    <3> QED
      BY <1>0, <1>a, <2>1, <3>2
  <2>3. CASE ~Savable
    BY <1>0, <1>c, <2>1, <2>3
  <2> QED
    BY <2>2, <2>3
\* The thread.
<1>d. ASSUME UNCHANGED <<snapshot, draft, closing, window, discarded>>, saves' \in 0 .. MaxSaves,
             mods' \in Tables \cup {NoFile}, intended' \in Tables \cup {NoFile},
             mods' = NoFile <=> intended' = NoFile,
             job # NoJob, JobInv'
      PROVE  ManagerInv'
  <2>1. Dirty' <=> Dirty
    BY <1>d DEF Dirty, Changed
  <2>2. job' # NoJob
    BY <1>d, ManagerAssumption DEF JobInv
  <2> QED
    BY <1>0, <1>a, <1>d, <2>1, <2>2
<1>e. ASSUME job # NoJob, UNCHANGED <<snapshot, draft>>,
             NEW stage \in {"started", "read", "written", "loaded", "failed"},
             NEW table \in Tables \cup {NoFile},
             job' = [job EXCEPT !.phase = stage, !.table = table],
             stage \in {"read", "written"} => job.kind = "save",
             stage = "read" => mods' # NoFile,
             stage \in {"read", "loaded"} => table \in Tables
      PROVE  JobInv'
  <2>1. job \in Jobs /\ JobInv
    BY <1>0, <1>e DEF JobInv
  <2>2. job' \in Jobs
    BY <1>e, <2>1 DEF Jobs
  <2>3. /\ job'.kind = job.kind /\ job'.base = job.base /\ job'.edits = job.edits
        /\ job'.phase = stage /\ job'.table = table
    BY <1>e, <2>1 DEF Jobs
  <2>4. Dirty' <=> Dirty
    BY <1>e DEF Dirty, Changed
  <2> QED
    BY <1>e, <2>1, <2>2, <2>3, <2>4 DEF JobInv
<1>f. ASSUME NEW stage, job # NoJob, job' = [job EXCEPT !.phase = stage]
      PROVE  job.table \in Tables \cup {NoFile} /\ job' = [job EXCEPT !.phase = stage, !.table = job.table]
  BY <1>0, <1>f DEF JobInv, Jobs
<1>10. CASE ReadFile
  <2> DEFINE stage == IF job.kind = "save" /\ job.phase = "started" THEN "read" ELSE "loaded"
  <2>1. /\ job # NoJob /\ mods # NoFile /\ job' = [job EXCEPT !.table = mods, !.phase = stage]
        /\ UNCHANGED <<mods, intended, saves, snapshot, draft, closing, window, discarded>>
    BY <1>10 DEF ReadFile, Working, disk, ui
  <2>2. job' = [job EXCEPT !.phase = stage, !.table = mods]
    BY <1>0, <2>1 DEF JobInv, Jobs
  <2>3. JobInv'
    BY <1>0, <1>e, <2>1, <2>2
  <2> QED
    BY <1>0, <1>d, <2>1, <2>3
<1>11. CASE Fail
  <2>1. /\ job # NoJob /\ job' = [job EXCEPT !.phase = "failed"]
        /\ UNCHANGED <<mods, intended, saves, snapshot, draft, closing, window, discarded>>
    BY <1>11 DEF Fail, Working, Ends, disk, ui
  <2>2. JobInv'
    BY <1>e, <1>f, <2>1
  <2> QED
    BY <1>0, <1>d, <2>1, <2>2
<1>12. CASE WriteFile
  <2>1. /\ job # NoJob /\ job.phase = "read" /\ saves < MaxSaves
        /\ mods' = [f \in Fields |-> IF job.edits[f] # job.base[f] THEN job.edits[f] ELSE job.table[f]]
        /\ intended' = [f \in Fields |-> IF job.edits[f] # job.base[f] THEN job.edits[f] ELSE intended[f]]
        /\ saves' = saves + 1 /\ job' = [job EXCEPT !.phase = "written"]
        /\ UNCHANGED <<snapshot, draft, closing, window, discarded>>
    BY <1>12 DEF WriteFile, Working, Merged, Ends, ui
  <2>2. /\ JobInv /\ job.kind = "save" /\ job.table \in Tables /\ intended \in Tables
        /\ job.edits \in Drafts
    BY <1>0, <2>1 DEF JobInv, Jobs
  <2>3. \A f \in Fields : job.edits[f] # job.base[f] => job.edits[f] \in Choices \cup {Absent}
    BY <2>2 DEF JobInv, Drafts
  <2>4. mods' \in Tables /\ intended' \in Tables
    BY <2>1, <2>2, <2>3 DEF Tables
  <2>5. saves' \in 0 .. MaxSaves /\ mods' # NoFile /\ intended' # NoFile
    BY <1>0, <2>1, <2>4, ManagerAssumption
  <2>6. JobInv'
    BY <1>e, <1>f, <2>1, <2>2
  <2> QED
    BY <1>d, <2>1, <2>4, <2>5, <2>6
<1>13. CASE SaveFails
  <2>1. /\ job # NoJob /\ saves < MaxSaves /\ saves' = saves + 1
        /\ mods' \in {mods, NoFile, [f \in Fields |-> Absent]}
        /\ intended' = IF mods' = mods THEN intended ELSE mods'
        /\ job' = [job EXCEPT !.phase = "failed"]
        /\ UNCHANGED <<snapshot, draft, closing, window, discarded>>
    BY <1>13 DEF SaveFails, Working, Ends, ui
  <2>2. [f \in Fields |-> Absent] \in Tables
    BY DEF Tables
  <2>3. /\ mods' \in Tables \cup {NoFile} /\ intended' \in Tables \cup {NoFile}
        /\ mods' = NoFile <=> intended' = NoFile
    BY <1>0, <2>1, <2>2
  <2>4. saves' \in 0 .. MaxSaves
    BY <1>0, <2>1, ManagerAssumption
  <2>5. JobInv'
    BY <1>e, <1>f, <2>1
  <2> QED
    BY <1>d, <2>1, <2>3, <2>4, <2>5
<1>14. CASE Poll
  <2> DEFINE fresh == job.phase = "loaded" /\ job.kind # "export"
  <2>1. /\ job # NoJob /\ job' = NoJob /\ closing' = FALSE
        /\ snapshot' = IF fresh THEN job.table ELSE snapshot
        /\ draft' = IF fresh THEN job.table ELSE draft
        /\ window' = IF fresh /\ closing THEN "closed" ELSE window
        /\ window # "closed"
        /\ UNCHANGED <<mods, intended, saves, discarded>>
    BY <1>14 DEF Poll, Working, disk
  <2>2. fresh => job.table \in Tables /\ job.table \in Drafts
    BY <1>0, <2>1 DEF JobInv, Drafts, Tables
  <2>3. fresh => ~Dirty'
    BY <2>1 DEF Dirty, Changed
  <2> HIDE DEF fresh
  <2> QED
    BY <1>0, <1>a, <2>1, <2>2, <2>3
<1>15. ASSUME NEW f \in Fields, NEW v \in Choices \cup {Absent}, OtherSaves(f, v) PROVE ManagerInv'
  <2>1. /\ mods # NoFile /\ saves < MaxSaves /\ saves' = saves + 1
        /\ mods' = [mods EXCEPT ![f] = v] /\ intended' = [intended EXCEPT ![f] = v]
        /\ UNCHANGED <<job, snapshot, draft, closing, window, discarded>>
    BY <1>15 DEF OtherSaves, ui
  <2>2. mods' \in Tables /\ intended' \in Tables
    BY <1>0, <2>1 DEF Tables
  <2>3. /\ saves' \in 0 .. MaxSaves
        /\ mods' # NoFile /\ intended' # NoFile
    <3>1. saves' \in 0 .. MaxSaves
      BY <1>0, <2>1, ManagerAssumption
    <3>2. mods' # NoFile /\ intended' # NoFile
      BY <2>2, ManagerAssumption
    <3> QED
      BY <3>1, <3>2
  <2>4. (job # NoJob => JobInv)' /\ (Dirty' <=> Dirty)
    BY <1>0, <2>1, <2>3, JobStays DEF Dirty, Changed
  <2> QED
    BY <1>0, <1>a, <2>1, <2>2, <2>3, <2>4
<1>16. CASE UNCHANGED managerVars
  BY <1>0, <1>16, <1>c DEF managerVars
<1> QED
  BY <1>1, <1>2, <1>3, <1>4, <1>5, <1>6, <1>7, <1>8, <1>9, <1>10, <1>11, <1>12, <1>13, <1>14,
     <1>15, <1>16 DEF ManagerNext, UserActs, Thread

\* Nobody's change is lost by a save that nobody writes into.
LEMMA NobodyLostStep ==
  ~LateSaves /\ ManagerInv /\ NobodyLost /\ [ManagerNext]_managerVars => NobodyLost'
<1> SUFFICES ASSUME ~LateSaves, ManagerInv, NobodyLost, [ManagerNext]_managerVars PROVE NobodyLost'
  OBVIOUS
<1> USE DEF NobodyLost, OthersValuesKept
<1>1. ASSUME UNCHANGED <<mods, intended>>,
             UNCHANGED job \/ job' = NoJob \/ \E kind : job' = Job(kind)
      PROVE  NobodyLost'
  BY <1>1 DEF Job
<1>2. CASE UserActs \/ Poll \/ UNCHANGED managerVars
  <2>1. /\ UNCHANGED <<mods, intended>>
        /\ UNCHANGED job \/ job' = NoJob \/ \E kind : job' = Job(kind)
    BY <1>2 DEF UserActs, Poll, managerVars, Edit, Revert, Refresh, Save, RequestClose, GoOn,
       Discard, SaveAndClose, Archive, disk
  <2> QED
    BY <1>1, <2>1
<1>3. job # NoJob => job \in Jobs
  BY DEF ManagerInv, JobInv
<1>4. CASE ReadFile
  <2>1. job # NoJob /\ job'.table = mods /\ UNCHANGED <<mods, intended>>
    BY <1>3, <1>4 DEF ReadFile, Working, disk, Jobs
  <2> QED
    BY <2>1
<1>5. CASE Fail
  <2>1. job # NoJob /\ job'.phase = "failed" /\ UNCHANGED <<mods, intended>>
    BY <1>3, <1>5 DEF Fail, Working, Ends, disk, Jobs
  <2> QED
    BY <2>1
<1>6. CASE WriteFile
  <2>1. job # NoJob /\ job.table = mods /\ job'.phase = "written"
    BY <1>3, <1>6 DEF WriteFile, Working, Ends, Jobs
  <2>2. /\ mods' = [f \in Fields |-> IF job.edits[f] # job.base[f] THEN job.edits[f] ELSE mods[f]]
        /\ intended' = [f \in Fields |-> IF job.edits[f] # job.base[f] THEN job.edits[f] ELSE intended[f]]
    BY <1>6, <2>1 DEF WriteFile, Merged
  <2> QED
    BY <2>1, <2>2
<1>7. CASE SaveFails
  <2>1. /\ job # NoJob /\ job'.phase = "failed"
        /\ intended' = IF mods' = mods THEN intended ELSE mods'
    BY <1>3, <1>7 DEF SaveFails, Working, Ends, Jobs
  <2> QED
    BY <2>1
<1>8. ASSUME NEW f \in Fields, NEW v \in Choices \cup {Absent}, OtherSaves(f, v) PROVE NobodyLost'
  BY <1>8 DEF OtherSaves, Working
<1> QED
  BY <1>2, <1>4, <1>5, <1>6, <1>7, <1>8 DEF ManagerNext, Thread

\* What becomes of the edits in one step.
EditKept ==
  \A f \in Changed :
     \/ Dirty' /\ draft'[f] = draft[f]
     \/ Revert
     \/ \E v \in Choices \cup {Absent, Invalid} : Edit(f, v)
     \/ job # NoJob /\ job.kind = "save" /\ job.phase = "loaded" /\ job.edits = draft

LEMMA EditStep == ManagerInv /\ [ManagerNext]_managerVars => [EditKept]_<<snapshot, draft>>
<1> SUFFICES ASSUME ManagerInv, [ManagerNext]_managerVars PROVE [EditKept]_<<snapshot, draft>>
  OBVIOUS
<1>1. ASSUME NEW g \in Fields, NEW v \in Choices \cup {Absent, Invalid}, Edit(g, v) PROVE EditKept
  <2> SUFFICES ASSUME NEW f \in Changed, f # g PROVE Dirty' /\ draft'[f] = draft[f]
    BY <1>1 DEF EditKept
  <2>1. /\ draft' = [draft EXCEPT ![g] = v] /\ snapshot' = snapshot /\ snapshot # NoFile
        /\ draft \in Drafts
    BY <1>1 DEF Edit, CanEdit, ManagerInv, ManagerTypeOK
  <2>2. f \in Fields /\ draft[f] # snapshot[f]
    BY <2>1 DEF Changed
  <2>3. draft'[f] = draft[f]
    BY <2>1, <2>2 DEF Drafts
  <2> QED
    BY <2>1, <2>2, <2>3 DEF Dirty, Changed
<1>2. CASE Revert
  BY <1>2 DEF EditKept
<1>3. CASE Poll
  <2>1. CASE job.phase = "loaded" /\ job.kind # "export"
    <3>1. job # NoJob /\ JobInv
      BY <1>3 DEF Poll, Working, ManagerInv
    <3>2. job.kind \in {"load", "save", "import"}
      BY <2>1, <3>1 DEF JobInv, Jobs
    <3>3. job.kind \in {"load", "import"} => Changed = {}
      BY <3>1 DEF JobInv, Dirty
    <3> QED
      BY <2>1, <3>1, <3>2, <3>3 DEF EditKept, JobInv
  <2>2. CASE ~(job.phase = "loaded" /\ job.kind # "export")
    BY <1>3, <2>2 DEF Poll
  <2> QED
    BY <2>1, <2>2
<1>4. CASE \/ Refresh \/ Save \/ RequestClose \/ GoOn \/ Discard \/ SaveAndClose
           \/ \E kind \in {"import", "export"} : Archive(kind)
  BY <1>4 DEF Refresh, Save, RequestClose, GoOn, Discard, SaveAndClose, Archive, ui
<1>5. CASE Thread \/ \E f \in Fields, v \in Choices \cup {Absent} : OtherSaves(f, v)
  BY <1>5 DEF Thread, ReadFile, Fail, WriteFile, SaveFails, OtherSaves, ui
<1>6. CASE UNCHANGED managerVars
  BY <1>6 DEF managerVars
<1> QED
  BY <1>1, <1>2, <1>3, <1>4, <1>5, <1>6 DEF ManagerNext, UserActs

\* App and its job thread: no edit goes but by the user or with the answer of the save that
\* was given it, the window closes over none unless they were discarded, and a save keeps
\* what others wrote as long as they keep out of the moment between its read and its write.
THEOREM ManagerEditsSurvive == ~LateSaves /\ ManagerSpec => EditsSurvive
<1>1. ManagerInit => ManagerInv /\ NobodyLost
  BY ManagerInitially
<1>2. ManagerInv /\ [ManagerNext]_managerVars => ManagerInv'
  BY ManagerStep
<1>3. ManagerInv /\ NobodyLost =>
        ManagerTypeOK /\ OthersValuesKept /\ (window = "closed" => discarded \/ ~Dirty)
  BY DEF ManagerInv, NobodyLost
<1>4. [][EditKept]_<<snapshot, draft>>
        /\ [](ManagerTypeOK /\ OthersValuesKept /\ (window = "closed" => discarded \/ ~Dirty))
      => EditsSurvive
  BY DEF EditsSurvive, EditKept
<1>5. CASE ~LateSaves
  <2>1. ManagerInv /\ NobodyLost /\ [ManagerNext]_managerVars => NobodyLost'
    BY <1>5, NobodyLostStep
  <2> QED
    BY <1>1, <1>2, <1>3, <1>4, <2>1, EditStep, PTL DEF ManagerSpec
<1> QED
  BY <1>5
================================================================================
