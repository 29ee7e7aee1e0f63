----------------------------- MODULE ModManager -----------------------------
(***************************************************************************)
(* The window of the mod manager (apps/mod-manager/src/gui.rs) and what it *)
(* does to the [mods] table of mhf.toml (manager.rs).  The user edits a    *)
(* draft of the table that was last loaded; loads, saves and archive jobs  *)
(* run one at a time on a thread whose answer a later frame polls; a save  *)
(* reads the file again and overrides only the fields the user changed.    *)
(* The command line and the game process write the same file.              *)
(*                                                                         *)
(* A field is the enabled flag or the version of one mod.  The resolver's  *)
(* verdict on a selection (module Resolver) is any of its outcomes.        *)
(***************************************************************************)
EXTENDS Naturals

CONSTANTS
    Fields,
    Choices,    \* what a field may hold
    Absent,     \* a field the file does not set
    Invalid,    \* a version text that does not parse: drafts only
    NoFile,     \* a file that cannot be read or parsed; nothing loaded yet
    NoJob,
    LateSaves,  \* others write while a save is between its read and its write
    MaxSaves    \* bound: changes of the file

Tables == [Fields -> Choices \cup {Absent}]
Drafts == [Fields -> Choices \cup {Absent, Invalid}]
Jobs == [kind : {"load", "save", "import", "export"}, base : Tables \cup {NoFile}, edits : Drafts,
         phase : {"started", "read", "written", "loaded", "failed"}, table : Tables \cup {NoFile}]

ASSUME ManagerAssumption == MaxSaves \in Nat /\ NoFile \notin Tables /\ NoJob \notin Jobs

VARIABLES
    mods,       \* the [mods] table on disk, or NoFile
    intended,   \* history: the table of everybody's changes in their order
    saves,      \* history: changes of the file
    snapshot,   \* App.snapshot: the table last loaded
    draft,      \* App.draft
    job,        \* App.pending and the thread behind it
    closing,    \* App.close_after_save
    window,     \* "open", "asking" (the close dialog is up), "closed"
    discarded   \* history: the user gave the draft up

managerVars == <<mods, intended, saves, snapshot, draft, job, closing, window, discarded>>
disk == <<mods, intended, saves>>
ui == <<snapshot, draft, closing, window, discarded>>

Changed == IF snapshot = NoFile THEN {} ELSE {f \in Fields : draft[f] # snapshot[f]}
Dirty == Changed # {}
CanEdit == snapshot # NoFile /\ job = NoJob

\* A started job: kind, what it was given, the phase of its thread, and the
\* table it read (later the one it answers with).
Job(kind) == [kind |-> kind, base |-> snapshot, edits |-> draft,
              phase |-> "started", table |-> NoFile]

ManagerTypeOK ==
    /\ mods \in Tables \cup {NoFile} /\ intended \in Tables \cup {NoFile}
    /\ saves \in 0 .. MaxSaves
    /\ snapshot \in Tables \cup {NoFile} /\ draft \in Drafts
    /\ job # NoJob => /\ job.kind \in {"load", "save", "import", "export"}
                      /\ job.phase \in {"started", "read", "written", "loaded", "failed"}
                      /\ job.kind # "load" => snapshot # NoFile
    /\ closing => job # NoJob
    /\ window \in {"open", "asking", "closed"} /\ discarded \in BOOLEAN

ManagerInit ==
    /\ mods \in Tables /\ intended = mods /\ saves = 0
    /\ snapshot = NoFile /\ draft = [f \in Fields |-> Absent]
    /\ job = Job("load")             \* App::new ends with refresh
    /\ closing = FALSE /\ window = "open" /\ discarded = FALSE

---------------------------------------------------------------------------
(* The user. *)

Edit(f, v) ==
    /\ window = "open" /\ CanEdit
    /\ draft' = [draft EXCEPT ![f] = v]
    /\ UNCHANGED <<disk, snapshot, job, closing, window, discarded>>

Revert ==
    /\ window = "open" /\ CanEdit /\ Dirty
    /\ draft' = snapshot
    /\ UNCHANGED <<disk, snapshot, job, closing, window, discarded>>

\* Mutant: a refresh is started over unsaved edits.
RefreshAnyway ==
    /\ window = "open" /\ job = NoJob
    /\ job' = Job("load")
    /\ UNCHANGED <<disk, ui>>
Refresh ==
    /\ window = "open" /\ job = NoJob /\ ~Dirty
    /\ job' = Job("load")
    /\ UNCHANGED <<disk, ui>>

Archive(kind) ==
    /\ window = "open" /\ CanEdit /\ ~Dirty
    /\ job' = Job(kind)
    /\ UNCHANGED <<disk, ui>>

\* save starts only with a draft that parses (and that resolves).
Savable == CanEdit /\ Dirty /\ \A f \in Changed : draft[f] # Invalid
Save ==
    /\ window = "open" /\ Savable
    /\ job' = Job("save")
    /\ UNCHANGED <<disk, ui>>

\* The window is asked to close: refused during a job, answered by the dialog
\* over unsaved edits.
RequestClose ==
    /\ window = "open" /\ job = NoJob
    /\ window' = IF Dirty THEN "asking" ELSE "closed"
    /\ UNCHANGED <<disk, snapshot, draft, job, closing, discarded>>
GoOn ==
    /\ window = "asking" /\ window' = "open"
    /\ UNCHANGED <<disk, snapshot, draft, job, closing, discarded>>
Discard ==
    /\ window = "asking" /\ window' = "closed" /\ discarded' = TRUE
    /\ UNCHANGED <<disk, snapshot, draft, job, closing>>
\* Mutant: close_after_save is set although no save was started.
SaveAndCloseAnyway ==
    /\ window = "asking" /\ window' = "open" /\ closing' = TRUE
    /\ job' = IF Savable THEN Job("save") ELSE job
    /\ UNCHANGED <<disk, snapshot, draft, discarded>>
SaveAndClose ==
    /\ window = "asking" /\ window' = "open"
    /\ closing' = Savable
    /\ job' = IF Savable THEN Job("save") ELSE job
    /\ UNCHANGED <<disk, snapshot, draft, discarded>>

---------------------------------------------------------------------------
(* The thread of a job. *)

Working(phase) == job # NoJob /\ job.phase = phase
Ends(phase) == job' = [job EXCEPT !.phase = phase]

\* Manager::load, import and export end with a read of the file; an export
\* answers without a snapshot.
ReadFile ==
    /\ Working("started") \/ Working("written")
    /\ mods # NoFile
    /\ job' = [job EXCEPT !.table = mods,
                          !.phase = IF job.kind = "save" /\ job.phase = "started"
                                    THEN "read" ELSE "loaded"]
    /\ UNCHANGED <<disk, ui>>
\* The file cannot be read, the archive is refused, the merged selection does
\* not resolve, or the thread panics and its channel is disconnected.
Fail ==
    /\ \E phase \in {"started", "read", "written"} : Working(phase)
    /\ Ends("failed")
    /\ UNCHANGED <<disk, ui>>

\* Mutant: the draft replaces every field.
MergedWhole(table) == [f \in Fields |-> job.edits[f]]
\* Manager::save: a field the user changed since the baseline takes the edit,
\* any other keeps the value in the file just read.
Merged(table) ==
    [f \in Fields |-> IF job.edits[f] # job.base[f] THEN job.edits[f] ELSE table[f]]

\* fs::write; save then loads the file again for its answer.
WriteFile ==
    /\ Working("read") /\ saves < MaxSaves
    /\ mods' = Merged(job.table)
    /\ intended' = [f \in Fields |->
                       IF job.edits[f] # job.base[f] THEN job.edits[f] ELSE intended[f]]
    /\ saves' = saves + 1
    /\ Ends("written")
    /\ UNCHANGED ui
\* A write that fails has truncated the file or not.
SaveFails ==
    /\ Working("read") /\ saves < MaxSaves
    /\ mods' \in {mods, NoFile, [f \in Fields |-> Absent]}
    /\ intended' = IF mods' = mods THEN intended ELSE mods'
    /\ saves' = saves + 1
    /\ Ends("failed")
    /\ UNCHANGED ui

\* Mutant: the window closes on any answer to "save and close".
PollClosing ==
    /\ window # "closed" /\ (Working("loaded") \/ Working("failed"))
    /\ LET fresh == job.phase = "loaded" /\ job.kind # "export" IN
       /\ snapshot' = IF fresh THEN job.table ELSE snapshot
       /\ draft' = IF fresh THEN job.table ELSE draft
       /\ window' = IF closing THEN "closed" ELSE window
    /\ job' = NoJob /\ closing' = FALSE
    /\ UNCHANGED <<disk, discarded>>

\* App::poll: a loaded table becomes snapshot and draft and, after "save and
\* close", closes the window; an export or an error leaves both.
Poll ==
    /\ window # "closed" /\ (Working("loaded") \/ Working("failed"))
    /\ LET fresh == job.phase = "loaded" /\ job.kind # "export" IN
       /\ snapshot' = IF fresh THEN job.table ELSE snapshot
       /\ draft' = IF fresh THEN job.table ELSE draft
       /\ window' = IF fresh /\ closing THEN "closed" ELSE window
    /\ job' = NoJob /\ closing' = FALSE
    /\ UNCHANGED <<disk, discarded>>

\* The command line (set_enabled) or the game process changes a field.
OtherSaves(f, v) ==
    /\ mods # NoFile /\ saves < MaxSaves
    /\ LateSaves \/ ~Working("read")
    /\ mods[f] # v
    /\ mods' = [mods EXCEPT ![f] = v]
    /\ intended' = [intended EXCEPT ![f] = v]
    /\ saves' = saves + 1
    /\ UNCHANGED <<job, ui>>

UserActs ==
    \/ \E f \in Fields, v \in Choices \cup {Absent, Invalid} : Edit(f, v)
    \/ Revert \/ Refresh \/ Save \/ RequestClose \/ GoOn \/ Discard \/ SaveAndClose
    \/ \E kind \in {"import", "export"} : Archive(kind)
Thread == ReadFile \/ Fail \/ WriteFile \/ SaveFails

ManagerNext ==
    \/ UserActs \/ Thread \/ Poll
    \/ \E f \in Fields, v \in Choices \cup {Absent} : OtherSaves(f, v)

ManagerSpec == ManagerInit /\ [][ManagerNext]_managerVars

---------------------------------------------------------------------------
\* A save undoes nobody's change: only the fields the user edited are written,
\* the others keep "the new values of other writers" (manager.rs:104).
OthersValuesKept == mods = intended

\* An edit is never lost without a word: the only steps that take a changed
\* field out of the draft are the user's own revert, a further edit, and the
\* answer of a save that had been given exactly this draft; and the window closes
\* over unsaved edits only when the user discards them, after "save and close"
\* not unless the save succeeded (gui.rs refresh, archive, can_edit, poll;
\* view.rs:551-598).  And a save keeps what others wrote.
EditsSurvive ==
    /\ [][\A f \in Changed :
             \/ Dirty' /\ draft'[f] = draft[f]
             \/ Revert
             \/ \E v \in Choices \cup {Absent, Invalid} : Edit(f, v)
             \/ job # NoJob /\ job.kind = "save" /\ job.phase = "loaded" /\ job.edits = draft
             ]_<<snapshot, draft>>
    /\ [](ManagerTypeOK /\ OthersValuesKept /\ (window = "closed" => discarded \/ ~Dirty))
=============================================================================
