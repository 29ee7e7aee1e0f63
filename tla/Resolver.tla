------------------------------ MODULE Resolver ------------------------------
(***************************************************************************)
(* Choosing the mods of a session: runtime/mod-package resolve.rs, and how *)
(* diagnostics.rs finds the roots that conflict.  The catalogue and the    *)
(* player's selection are inputs; a version requirement is the set of      *)
(* versions it accepts; the requirements collected for one mod are their   *)
(* intersection, since a candidate has to match them all.                  *)
(*                                                                         *)
(* A recursive function of the code is a function here, on the set of its  *)
(* arguments; the operator before it has its body.  What is solved, `in`,  *)
(* is a parameter of all.  The solver is compared with what a valid        *)
(* selection is, whatever way it was found.                                *)
(***************************************************************************)
EXTENDS Naturals, Sequences, FiniteSets

CONSTANTS
    Ids,        \* mod identifiers: numbers, in the order of their names
    Versions,   \* versions: numbers, in their order
    Inputs      \* the catalogues and selections to resolve

\* What is known of some of the mods.
Partial(Values) == UNION {[S -> Values] : S \in SUBSET Ids}

\* The versions of each mod and what each requires; the mods turned off, the
\* versions the player allows, the mods that are wanted.
Problems == [versions : [Ids -> SUBSET Versions],
             deps     : [Ids -> [Versions -> Partial(SUBSET Versions)]],
             disabled : SUBSET Ids,
             pinned   : [Ids -> SUBSET Versions],
             roots    : SUBSET Ids]

ASSUME ResolverAssumption ==
    /\ Ids \subseteq Nat /\ IsFiniteSet(Ids)
    /\ Versions \subseteq Nat /\ IsFiniteSet(Versions)
    /\ Inputs \subseteq Problems

VARIABLES
    input,      \* the input that is resolved
    result,     \* [ok, mods]: the outcome of resolve
    cores,      \* the groups of roots reported as conflicting
    phase       \* "start", "resolved", "diagnosed"

resolverVars == <<input, result, cores, phase>>

First(S) == CHOOSE id \in S : \A other \in S : id <= other
Listed(list) == {list[i] : i \in DOMAIN list}

Deps(in, id, v) == in.deps[id][v]

\* Mutant: a version selected by the player is not looked at.
MatchesRequirement(in, id, v, accepted) == v \in accepted

\* matches: every requirement and the player's own choice of versions.
Matches(in, id, v, accepted) == v \in accepted /\ v \in in.pinned[id]

-----------------------------------------------------------------------------
(* visit: providers before consumers, and no cycle                         *)

\* The mods still to visit in a loop, those being visited, those visited.
Walks(selected) == [todo  : SUBSET DOMAIN selected,
                    stack : SUBSET DOMAIN selected,
                    order : Seq(DOMAIN selected)]

Cyclic == [cycle |-> TRUE, order |-> <<>>]

\* Mutant: the consumer is emitted before what it depends on.
VisitBefore(in, selected, visit, x) ==
    LET id    == First(x.todo)
        below == visit[[todo  |-> DOMAIN Deps(in, id, selected[id]),
                        stack |-> x.stack \cup {id},
                        order |-> Append(x.order, id)]]
        rest(order) == visit[[todo |-> x.todo \ {id}, stack |-> x.stack, order |-> order]]
    IN  IF x.todo = {} THEN [cycle |-> FALSE, order |-> x.order]
        ELSE IF id \in Listed(x.order) THEN rest(x.order)
        ELSE IF id \in x.stack \/ below.cycle THEN Cyclic
        ELSE rest(below.order)

\* The first of the mods to visit, and then the rest of them.
Visit(in, selected, visit, x) ==
    LET id    == First(x.todo)
        below == visit[[todo  |-> DOMAIN Deps(in, id, selected[id]),
                        stack |-> x.stack \cup {id},
                        order |-> x.order]]
        rest(order) == visit[[todo |-> x.todo \ {id}, stack |-> x.stack, order |-> order]]
    IN  IF x.todo = {} THEN [cycle |-> FALSE, order |-> x.order]
        ELSE IF id \in Listed(x.order) THEN rest(x.order)
        ELSE IF id \in x.stack \/ below.cycle THEN Cyclic
        ELSE rest(Append(below.order, id))

Visited(in, selected) ==
    LET visit[x \in Walks(selected)] == Visit(in, selected, visit, x)
    IN  visit[[todo |-> DOMAIN selected, stack |-> {}, order |-> <<>>]]

Failed == [ok |-> FALSE, mods |-> <<>>]

\* The selection in load order, or a failure when it has a cycle: the check
\* comes last, so that another combination of versions may still be tried.
Ordered(in, selected) ==
    LET all == Visited(in, selected)
    IN  IF all.cycle THEN Failed
        ELSE [ok   |-> TRUE,
              mods |-> [i \in DOMAIN all.order |->
                          [id |-> all.order[i], version |-> selected[all.order[i]]]]]

-----------------------------------------------------------------------------
(* choose: depth first, newest first, with the constraints of each branch  *)

Searches == [selected : Partial(Versions), constraints : Partial(SUBSET Versions)]

\* Mutant: the oldest version is tried first.
OldestFirst(a, b) == a < b

Preferred(a, b) == a > b

\* What is selected and the constraints of the branch of a candidate, each
\* candidate on its own.
Selecting(selected, id, v) ==
    [m \in DOMAIN selected \cup {id} |-> IF m = id THEN v ELSE selected[m]]
Requiring(constraints, deps) ==
    [m \in DOMAIN constraints \cup DOMAIN deps |->
        {v \in Versions : /\ m \in DOMAIN constraints => v \in constraints[m]
                          /\ m \in DOMAIN deps => v \in deps[m]}]
Branch(in, x, id, v) == [selected    |-> Selecting(x.selected, id, v),
                         constraints |-> Requiring(x.constraints, Deps(in, id, v))]

Broken(in, x) ==
    \E id \in DOMAIN x.constraints :
        \/ id \in in.disabled
        \/ /\ id \in DOMAIN x.selected
           /\ ~Matches(in, id, x.selected[id], x.constraints[id])

Unselected(x) == DOMAIN x.constraints \ DOMAIN x.selected

Candidates(in, x, id) == {v \in in.versions[id] : Matches(in, id, v, x.constraints[id])}

Foremost(S) == CHOOSE v \in S : \A other \in S \ {v} : Preferred(v, other)

\* Mutant: the newest candidate is final, as in a solver without backtracking.
ChooseNewest(in, choose, x) ==
    LET id == First(Unselected(x))
    IN  IF Broken(in, x) THEN Failed
        ELSE IF Unselected(x) = {} THEN Ordered(in, x.selected)
        ELSE IF Candidates(in, x, id) = {} THEN Failed
        ELSE choose[Branch(in, x, id, Foremost(Candidates(in, x, id)))]

\* The first candidate whose branch has a solution: those before it leave nothing
\* behind.
Choose(in, choose, x) ==
    LET id    == First(Unselected(x))
        found == {v \in Candidates(in, x, id) : choose[Branch(in, x, id, v)].ok}
    IN  IF Broken(in, x) THEN Failed
        ELSE IF Unselected(x) = {} THEN Ordered(in, x.selected)
        ELSE IF found = {} THEN Failed
        ELSE choose[Branch(in, x, id, Foremost(found))]

\* solve_roots: a root is required in any version the player allows.
SolveRoots(in, roots) ==
    LET choose[x \in Searches] == Choose(in, choose, x)
    IN  choose[[selected    |-> [id \in {} |-> 0],
                constraints |-> [id \in roots |-> in.pinned[id]]]]

-----------------------------------------------------------------------------
(* joint_conflicts: roots that work alone and not together                 *)

\* Mutant: every root that is left is blamed for the conflict.
BlameAll(in, remaining) == remaining

\* Roots are removed one by one while the rest still conflicts.
Shrunk(in, shrink, x) ==
    LET root  == First(x.todo)
        trial == x.core \ {root}
    IN  IF x.todo = {} THEN x.core
        ELSE shrink[[core |-> IF trial # {} /\ ~SolveRoots(in, trial).ok
                              THEN trial ELSE x.core,
                     todo |-> x.todo \ {root}]]

Shrink(in, remaining) ==
    LET shrink[x \in [core : SUBSET Ids, todo : SUBSET Ids]] == Shrunk(in, shrink, x)
    IN  shrink[[core |-> remaining, todo |-> remaining]]

\* One core after another, until what remains works.
JointConflicts(in, conflicts, remaining) ==
    IF remaining = {} \/ SolveRoots(in, remaining).ok THEN {}
    ELSE {Shrink(in, remaining)} \cup conflicts[remaining \ Shrink(in, remaining)]

Cores(in, roots) ==
    LET conflicts[remaining \in SUBSET Ids] == JointConflicts(in, conflicts, remaining)
    IN  conflicts[roots]

HealthyRoots(in) == {root \in in.roots : SolveRoots(in, {root}).ok}

-----------------------------------------------------------------------------
ResolverInit ==
    /\ input \in Inputs
    /\ result = Failed /\ cores = {} /\ phase = "start"

Resolve ==
    /\ phase = "start" /\ phase' = "resolved"
    /\ result' = SolveRoots(input, input.roots)
    /\ UNCHANGED <<input, cores>>

\* diagnose_resolution, after a failure: the roots that fail alone are left
\* out before the joint conflicts of the others are looked for.
Diagnose ==
    /\ phase = "resolved" /\ ~result.ok /\ phase' = "diagnosed"
    /\ cores' = Cores(input, HealthyRoots(input))
    /\ UNCHANGED <<input, result>>

ResolverNext == Resolve \/ Diagnose
ResolverSpec == ResolverInit /\ [][ResolverNext]_resolverVars

-----------------------------------------------------------------------------
(* What a valid selection is                                               *)

\* S has what the mods of S that are in sel require.
Closed(in, sel, S) == \A id \in S \cap DOMAIN sel : DOMAIN Deps(in, id, sel[id]) \subseteq S

\* However some of the mods are picked, one requires none of the others.
Acyclic(in, sel) == \A S \in SUBSET DOMAIN sel :
    S # {} => \E id \in S : DOMAIN Deps(in, id, sel[id]) \cap S = {}

\* Roots and dependencies are chosen, nothing else is; versions exist, fit
\* every requirement and the player's choice; nothing disabled; no cycle.
Valid(in, sel, roots) ==
    /\ roots \subseteq DOMAIN sel /\ Closed(in, sel, DOMAIN sel)
    /\ \A S \in SUBSET DOMAIN sel : roots \subseteq S /\ Closed(in, sel, S) => S = DOMAIN sel
    /\ \A id \in DOMAIN sel :
          /\ id \notin in.disabled
          /\ sel[id] \in in.versions[id] \cap in.pinned[id]
          /\ \A d \in DOMAIN Deps(in, id, sel[id]) : sel[d] \in Deps(in, id, sel[id])[d]
    /\ Acyclic(in, sel)

Solvable(in, roots) == \E sel \in Partial(Versions) : Valid(in, sel, roots)

\* The list has each mod of sel once, after what it requires: the order in which
\* the host prepares the mods.
Lists(in, list, sel) ==
    /\ {list[i].id : i \in DOMAIN list} = DOMAIN sel
    /\ \A i \in DOMAIN list : list[i].version = sel[list[i].id]
    /\ \A i, j \in DOMAIN list : list[i].id = list[j].id => i = j
    /\ \A i, j \in DOMAIN list :
          list[j].id \in DOMAIN Deps(in, list[i].id, list[i].version) => j < i

\* "Choose the newest compatible versions": no other valid selection is as new in
\* every mod it shares with this one.
NoneNewer(in, sel, roots) == \A other \in Partial(Versions) :
    /\ Valid(in, other, roots)
    /\ \A id \in DOMAIN other \cap DOMAIN sel : other[id] >= sel[id]
    => other = sel

\* The solver succeeds exactly when some combination of versions works: a failed
\* branch leaves nothing behind that hides another one.  What it returns is such
\* a combination, in load order, and none is newer.
FindsASolution ==
    /\ phase # "start" => (result.ok <=> Solvable(input, input.roots))
    /\ result.ok => \E sel \in Partial(Versions) :
          /\ Valid(input, sel, input.roots) /\ Lists(input, result.mods, sel)
          /\ NoneNewer(input, sel, input.roots)

\* A reported core conflicts and none of its roots is in it by accident; what
\* is left over works together.
CoresAreMinimal ==
    phase = "diagnosed" =>
        /\ \A core \in cores :
              ~Solvable(input, core) /\ \A r \in core : Solvable(input, core \ {r})
        /\ Solvable(input, {r \in input.roots : Solvable(input, {r})} \ UNION cores)

\* resolve and diagnose answer rightly, with a selection or with the roots that
\* stand in its way (resolve.rs).
AnswersAreRight == FindsASolution /\ CoresAreMinimal
=============================================================================
