------------------------------- MODULE MCFiles --------------------------------
(* What the programs keep on disk, side by side, each on an instance of its    *)
(* own: `part` says which one a behaviour is about.                            *)
(*   "import"   runs of import_archive with interchangeable packages           *)
(*   "resolve"  every catalogue of three mods in two versions whose            *)
(*              dependencies have the shapes below, with and without cycles,   *)
(*              pinned versions, disabled mods and missing packages            *)
(*   "store"    the configuration provider: a game section in two spellings    *)
(*              and a section nobody registers, a numeric field an INI key is  *)
(*              mapped to and a fixed one                                      *)
(*   "manager"  the mod manager's editor of the same file                      *)
(* What the manager writes is OtherWrites of the provider, and what the         *)
(* provider writes is OtherSaves of the manager.                               *)
EXTENDS PackageImport, ConfigStore, ModManager, Resolver, TLC

CONSTANTS Numeric, Textual   \* an integer and a string
VARIABLE part

None == <<>>
On(id, accepted) == id :> accepted
One == {{1}, {2}}
Some == One \cup {{1, 2}}

\* Mod 1 and mod 2 require mod 3, mod 1 may require mod 2; mod 3 may close a
\* cycle in one of its versions.
Deps1 == {None} \cup {On(3, s) : s \in Some}
         \cup {On(2, {1, 2}) @@ On(3, s) : s \in One} \cup {On(2, {1})}
Deps2 == {None} \cup {On(3, s) : s \in One}
Deps3 == {None, On(1, {1, 2}), On(2, {2})}

Input == [versions : {(1 :> {1, 2}) @@ (2 :> {1, 2}) @@ (3 :> s) : s \in Some},
          deps : {(1 :> <<a, b>>) @@ (2 :> <<c, d>>) @@ (3 :> <<e, None>>) :
                     a, b \in Deps1, c, d \in Deps2, e \in Deps3},
          disabled : {{}, {3}},
          pinned : {(1 :> {1, 2}) @@ (2 :> s) @@ (3 :> {1, 2}) : s \in {{1}, {1, 2}}},
          roots : {{1}, {1, 2, 3}}]

\* Where the resolver rests.
Resting == CHOOSE i \in Input : TRUE

Folding == [n \in Names |-> IF n = "SCREEN" THEN "screen" ELSE n]
Empty == [k \in {} |-> k]
MCRegistrations ==
    {[ini |-> "screen", defaults |-> "w" :> Numeric, fixed |-> Empty,
      fields |-> "w" :> {Numeric}],
     [ini |-> "mods", defaults |-> Empty, fixed |-> "f" :> Textual, fields |-> Empty],
     [ini |-> NoIni, defaults |-> "f" :> Numeric, fixed |-> Empty, fields |-> Empty]}
Changes == {<<"screen", "w", Numeric>>, <<"screen", "w", Textual>>,
            <<"SCREEN", "f", Textual>>, <<"mods", "f", Numeric>>}

\* The others rest in one state each while a part is looked at.
FilesInit ==
    /\ part \in {"import", "resolve", "store", "manager"}
    /\ Init /\ (part = "import" \/ Installed = Packages)
    /\ StoreInit
    /\ ManagerInit /\ (part = "manager" \/ mods = [f \in Fields |-> Absent])
    /\ ResolverInit /\ (part = "resolve" \/ input = Resting)
FilesNext ==
    /\ \/ part = "import" /\ Next /\ UNCHANGED <<resolverVars, storeVars, managerVars>>
       \/ part = "resolve" /\ ResolverNext /\ UNCHANGED <<vars, storeVars, managerVars>>
       \/ part = "store" /\ StoreNext /\ UNCHANGED <<vars, resolverVars, managerVars>>
       \/ part = "manager" /\ ManagerNext /\ UNCHANGED <<vars, resolverVars, storeVars>>
    /\ UNCHANGED part
FilesSpec == FilesInit /\ [][FilesNext]_<<part, vars, resolverVars, storeVars, managerVars>>

Symmetry == Permutations(Packages) \cup Permutations(Importers)
==============================================================================
