--------------------------- MODULE PackageImport ----------------------------
(***************************************************************************)
(* Importing archives of mods (runtime/mod-package/src/archive.rs): an     *)
(* import unpacks into a staging directory of its own, checks manifests    *)
(* and destinations there, then moves one package after another into the   *)
(* mods directory, and takes back what it moved when one of them fails.    *)
(* The window of the mod manager and its command line can import at the    *)
(* same time, and a process may end at any step.                           *)
(***************************************************************************)
EXTENDS Naturals

CONSTANTS
    Packages,    \* the directories <id>/<version>
    Importers,   \* runs of import_archive
    User         \* whoever put the first packages there

ASSUME ImportAssumption ==
    User \notin Importers /\ "nobody" \notin Importers \cup {User}

VARIABLES
    dir,         \* the package directories: who published them, or Nobody
    broken,      \* directories of which a removal has taken a part
    pc,          \* where each import is
    staged,      \* its packages not moved yet
    published,   \* the packages it has moved
    stuck        \* history: packages whose removal failed

vars == <<dir, broken, pc, staged, published, stuck>>

Nobody == "nobody"
Installed == {p \in Packages : dir[p] # Nobody}
Phases == {"idle", "staged", "publishing", "undoing", "done", "refused", "dead"}

TypeOK ==
    /\ dir \in [Packages -> Importers \cup {User, Nobody}]
    /\ broken \subseteq Installed /\ stuck \subseteq Installed
    /\ pc \in [Importers -> Phases]
    /\ staged \in [Importers -> SUBSET Packages]
    /\ published \in [Importers -> SUBSET Packages]

Init ==
    /\ dir \in [Packages -> {User, Nobody}]
    /\ broken = {} /\ stuck = {}
    /\ pc = [i \in Importers |-> "idle"]
    /\ staged = [i \in Importers |-> {}] /\ published = [i \in Importers |-> {}]

Goto(i, phase) == pc' = [pc EXCEPT ![i] = phase]

\* read_pack, extract_archive, discover and validate_pack in the staging
\* directory, which discover never looks into from outside.
Extract(i, packages) ==
    /\ pc[i] = "idle"
    /\ staged' = [staged EXCEPT ![i] = packages]
    /\ Goto(i, "staged")
    /\ UNCHANGED <<dir, broken, published, stuck>>

\* validate_destinations
Validate(i) ==
    /\ pc[i] = "staged" /\ staged[i] \cap Installed = {}
    /\ Goto(i, "publishing")
    /\ UNCHANGED <<dir, broken, staged, published, stuck>>

\* The archive, a manifest or a destination is refused: the staging directory
\* goes with Staging's drop.
Refuse(i) ==
    /\ pc[i] \in {"idle", "staged"}
    /\ staged' = [staged EXCEPT ![i] = {}]
    /\ Goto(i, "refused")
    /\ UNCHANGED <<dir, broken, published, stuck>>

\* Mutant: the move replaces what is there.
PublishOver(i, p) ==
    /\ pc[i] = "publishing" /\ p \in staged[i]
    /\ dir' = [dir EXCEPT ![p] = i]
    /\ staged' = [staged EXCEPT ![i] = @ \ {p}]
    /\ published' = [published EXCEPT ![i] = @ \cup {p}]
    /\ UNCHANGED <<broken, pc, stuck>>
\* fs::rename onto a directory that is not empty fails.
Publish(i, p) ==
    /\ pc[i] = "publishing" /\ p \in staged[i] /\ p \notin Installed
    /\ dir' = [dir EXCEPT ![p] = i]
    /\ staged' = [staged EXCEPT ![i] = @ \ {p}]
    /\ published' = [published EXCEPT ![i] = @ \cup {p}]
    /\ UNCHANGED <<broken, pc, stuck>>

\* Mutant: the package that could not be moved is taken back too.
PublishFailsAll(i) ==
    /\ pc[i] = "publishing" /\ staged[i] # {}
    /\ \E p \in staged[i] : published' = [published EXCEPT ![i] = @ \cup {p}]
    /\ staged' = [staged EXCEPT ![i] = {}]
    /\ Goto(i, "undoing")
    /\ UNCHANGED <<dir, broken, stuck>>
PublishFails(i) ==
    /\ pc[i] = "publishing" /\ staged[i] # {}
    /\ staged' = [staged EXCEPT ![i] = {}]
    /\ Goto(i, "undoing")
    /\ UNCHANGED <<dir, broken, published, stuck>>

\* Mutant: a removal is over when the directory is gone from the parent.
UndoForgets(i, p) ==
    /\ pc[i] = "undoing" /\ p \in published[i]
    /\ dir' = [dir EXCEPT ![p] = Nobody]
    /\ published' = [published EXCEPT ![i] = @ \ {p}]
    /\ broken' = broken \cup {p}
    /\ UNCHANGED <<pc, staged, stuck>>
\* The rollback removes what this run published, and nothing else.  A removal
\* takes the files of a directory one by one; its errors are ignored.
Undo(i, p) ==
    /\ pc[i] = "undoing" /\ p \in published[i]
    /\ \/ /\ p \notin broken
          /\ broken' = broken \cup {p}
          /\ UNCHANGED <<dir, published, stuck>>
       \/ /\ p \in broken
          /\ dir' = [dir EXCEPT ![p] = Nobody] /\ broken' = broken \ {p}
          /\ published' = [published EXCEPT ![i] = @ \ {p}]
          /\ UNCHANGED stuck
       \/ /\ stuck' = stuck \cup {p}
          /\ published' = [published EXCEPT ![i] = @ \ {p}]
          /\ UNCHANGED <<dir, broken>>
    /\ UNCHANGED <<pc, staged>>

\* Mutant: an import that failed ends without taking anything back.
FinishAnyway(i) ==
    /\ pc[i] \in {"publishing", "undoing"} /\ staged[i] = {}
    /\ Goto(i, IF pc[i] = "publishing" THEN "done" ELSE "refused")
    /\ UNCHANGED <<dir, broken, staged, published, stuck>>
Finish(i) ==
    /\ staged[i] = {}
    /\ \/ pc[i] = "publishing" /\ Goto(i, "done")
       \/ pc[i] = "undoing" /\ published[i] = {} /\ Goto(i, "refused")
    /\ UNCHANGED <<dir, broken, staged, published, stuck>>

\* The process ends; its staging directory stays, hidden by its name.
Crash(i) ==
    /\ pc[i] \in {"staged", "publishing", "undoing"}
    /\ Goto(i, "dead")
    /\ UNCHANGED <<dir, broken, staged, published, stuck>>

Next == \E i \in Importers :
    \/ \E packages \in SUBSET Packages : Extract(i, packages)
    \/ Validate(i) \/ Refuse(i) \/ PublishFails(i) \/ Finish(i) \/ Crash(i)
    \/ \E p \in Packages : Publish(i, p) \/ Undo(i, p)

Spec == Init /\ [][Next]_vars

---------------------------------------------------------------------------
\* An installed version is never replaced: a directory changes hands only by
\* the removal of the run that published it, whoever imports the same package
\* between this run's check of its destinations and its moves
\* (archive.rs:148-149).
NeverReplaced ==
    [][\A p \in Installed :
          dir'[p] # dir[p] =>
             dir'[p] = Nobody /\ \E i \in Importers : dir[p] = i /\ pc[i] = "undoing"]_vars

\* A collection is imported as a whole or not at all: a run that succeeded has
\* every package of its archive in place, one that was refused has left none,
\* except where the system refused the removal too (publish_packages).  Readers
\* of the mods directory (discover, which fails on a damaged package) meet one
\* only while the run that published it takes it back, after that run died doing
\* so, or where its removal failed.
WholeOrNothing ==
    /\ TypeOK
    /\ \A i \in Importers :
        /\ pc[i] = "done" =>
              staged[i] = {} /\ \A p \in published[i] : dir[p] = i /\ p \notin broken
        /\ pc[i] = "refused" => \A p \in Packages \ stuck : dir[p] # i
    /\ \A p \in broken \ stuck : \E i \in Importers :
        dir[p] = i /\ p \in published[i] /\ pc[i] \in {"undoing", "dead"}
=============================================================================
