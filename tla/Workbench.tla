------------------------------- MODULE Workbench -------------------------------
(***************************************************************************)
(* The editing protocol of the resource workbench: the UI (Workbench and   *)
(* Editing of mods/workbench/src/ui.rs and ui/editing.rs, with the         *)
(* sessions of session.rs) and its worker thread (worker.rs).              *)
(*                                                                         *)
(* The UI never waits.  It posts a request under a fresh request number in *)
(* `pending', where a new request replaces one of its kind that the worker *)
(* has not taken, and finds the answers later in `updates'; an answer      *)
(* whose number is not the current one is dropped.  Meanwhile the user     *)
(* types drafts, undoes, switches files and saves.                         *)
(*                                                                         *)
(* A document is its bytes, here one value per field, and whether its      *)
(* details are expanded.  Whatever is rebuilt gets the file name check of  *)
(* its wrapper repaired, which is one more field of the bytes.             *)
(***************************************************************************)
EXTENDS Naturals, Sequences, FiniteSets, SequencesExt

CONSTANTS
    Paths,          \* resource files
    Fields,         \* fields of a file
    Drafts,         \* those that the user edits as text
    Values,         \* bytes of a field
    Texts,          \* what the user may type; a text that is no value is invalid
    NameCheck,      \* the field that rebuilding repairs
    Right,          \*   and its repaired value
    Source,         \* Source[p]: the bytes of p in the game's data
    Deferred,       \* the files whose details are read on demand
    Refused,        \* contents whose rebuild or validation fails
    Actions,        \* what node actions and replacements overwrite
    HistorySteps,   \* HISTORY_STEPS
    MaxRequest,     \* bound: no new work once this many requests were numbered
    MaxRedo,        \* bound: no redo after this many, one more than an undo needs
    None

Contents == [Fields -> Values]
Documents == [content : Contents, deep : BOOLEAN]
Inputs == [text : Texts, original : Values,
           pending : BOOLEAN, error : BOOLEAN, conflicted : BOOLEAN]
Sessions == [document : Documents, undo : Seq(Documents), redo : Seq(Documents), saved : Contents]
Patches == UNION {[fs -> Values] : fs \in SUBSET Fields}

\* What the UI posts and what the worker answers.
Loads == [request : Nat, path : Paths]
Expands == [request : Nat, doc : Documents]
Edits == [request : Nat, doc : Documents, patch : Patches, reads : BOOLEAN]
Packs == [path : Paths, doc : Documents, patch : Patches]
Loaded == [request : Nat, path : Paths, doc : Documents \cup {None}]
Results == [request : Nat, doc : Documents \cup {None}]
Packed == [source : Paths, requested : Documents, doc : Documents \cup {None}]

ASSUME FieldsAssumption == NameCheck \in Fields /\ Drafts \subseteq Fields \ {NameCheck}
ASSUME ValuesAssumption == Right \in Values /\ Values \subseteq Texts
ASSUME SourceAssumption == Source \in [Paths -> Contents]
ASSUME RefusedAssumption == Refused \subseteq Contents
ASSUME ActionsAssumption == Actions \subseteq Patches
ASSUME NoneAssumption ==
    /\ None # {} /\ None \notin Paths \cup Texts
    /\ None \notin Documents \cup Sessions \cup Inputs
    /\ None \notin Loads \cup Expands \cup Edits \cup Packs
    /\ None \notin Loaded \cup Results \cup Packed
ASSUME BoundsAssumption == HistorySteps \in Nat /\ MaxRequest \in Nat /\ MaxRedo \in Nat

VARIABLES
    pending,        \* Shared.pending: posted, not yet taken by the worker
    work,           \* what the worker has taken
    updates,        \* Shared.updates: answers that the UI has not taken
    polled,         \* the answers that the UI is processing
    stopped,        \* Shared.stopped
    exited,         \* the worker thread has returned
    disk,           \* disk[p]: the packed file under the redirect root
    request,        \* Workbench.request
    path, document, \* the open file and the document shown
    loading, expanding, busy, saving,   \* what the UI waits for
    next_path,      \* the file to open after the drafts are applied
    sessions,       \* sessions[p]: document, undo, redo, saved
    inputs,         \* inputs[p][f]: the draft of a field
    submitted,      \* fields in the batch that the worker rebuilds
    touched,        \*   and those of them whose revision changed since
    flushing        \* patches that flush_edits is about to submit

shared == <<pending, work, updates, stopped, exited, disk>>
view == <<request, path, document, loading, expanding, next_path, sessions>>
drafts == <<inputs, submitted, touched>>
vars == <<shared, polled, view, busy, saving, drafts, flushing>>

NoWork == [load |-> None, expand |-> None, export |-> None, edit |-> None, pack |-> None]
NoUpdates == [loaded |-> None, expanded |-> None, edited |-> None, packed |-> None]
NoInputs == [f \in Drafts |-> None]

Init ==
    /\ pending = NoWork /\ work = NoWork
    /\ updates = NoUpdates /\ polled = NoUpdates
    /\ stopped = FALSE /\ exited = FALSE
    /\ disk = [p \in Paths |-> None]
    /\ request = 0
    /\ path = None /\ document = None
    /\ loading = FALSE /\ expanding = FALSE /\ busy = FALSE /\ saving = FALSE
    /\ next_path = None
    /\ sessions = [p \in Paths |-> None]
    /\ inputs = [p \in Paths |-> NoInputs]
    /\ submitted = {} /\ touched = {}
    /\ flushing = None

--------------------------------------------------------------------------------
(* Documents and sessions *)

\* edit::apply_many, replace and node actions: overwrite, then repair the name.
Rebuilt(d, patch) ==
    [d EXCEPT !.content = [f \in Fields |->
        IF f = NameCheck THEN Right
        ELSE IF f \in DOMAIN patch THEN patch[f] ELSE d.content[f]]]

\* What a rebuild may answer, None for an error; reading a file may fail too.
Rebuilds(d, patch, reads) ==
    LET built == Rebuilt(d, patch)
    IN  (IF built.content \in Refused THEN {None} ELSE {built})
            \cup (IF reads THEN {None} ELSE {})

NewSession(d) == [document |-> d, undo |-> <<>>, redo |-> <<>>, saved |-> d.content]
Dirty(s) == s.document.content # s.saved

\* Mutant: the nearest step goes instead of the farthest.
TrimNearest(s) ==
    IF Len(s.undo) + Len(s.redo) > HistorySteps /\ Len(s.undo) > 1
    THEN [s EXCEPT !.undo = SubSeq(@, 1, Len(@) - 1)] ELSE s

\* Drop the farthest steps, but never the nearest one of either side.
Trim(s) ==
    LET excess == Len(s.undo) + Len(s.redo) > HistorySteps
    IN  IF excess /\ Len(s.undo) > 1 THEN [s EXCEPT !.undo = Tail(@)]
        ELSE IF excess /\ Len(s.redo) > 1 THEN [s EXCEPT !.redo = Tail(@)]
        ELSE s

Apply(s, d) ==
    IF s.document.content = d.content THEN s
    ELSE Trim([s EXCEPT !.undo = Append(@, s.document), !.document = d, !.redo = <<>>])

Undone(s) ==
    [s EXCEPT !.redo = Append(@, s.document), !.document = Last(s.undo), !.undo = Front(@)]
Redone(s) ==
    [s EXCEPT !.undo = Append(@, s.document), !.document = Last(s.redo), !.redo = Front(@)]

\* Session::saved: packing repairs are adopted while the revision is current.
Adopts(s, requested, packed) ==
    /\ s.document.content = requested.content
    /\ s.document.content # packed.content
\* Mutant: the packed bytes replace the document without an undo step.
SavedInPlace(s, requested, packed) ==
    LET marked == [s EXCEPT !.saved = packed.content]
    IN  IF Adopts(s, requested, packed) THEN [marked EXCEPT !.document = packed] ELSE marked

Saved(s, requested, packed) ==
    LET marked == [s EXCEPT !.saved = packed.content]
    IN  IF Adopts(s, requested, packed) THEN Apply(marked, packed) ELSE marked

--------------------------------------------------------------------------------
(* Drafts *)

NewInput(f, d) ==
    [text |-> d.content[f], original |-> d.content[f],
     pending |-> FALSE, error |-> FALSE, conflicted |-> FALSE]

Change(i, text) == [i EXCEPT !.text = text, !.pending = TRUE, !.error = FALSE]

\* Mutant: a draft of the batch is acknowledged although it was typed on.
RefreshSent(i, f, d, sent, acknowledged) ==
    IF ~i.pending \/ sent THEN NewInput(f, d)
    ELSE IF d.content[f] = i.original THEN i
    ELSE [i EXCEPT !.conflicted = TRUE, !.error = TRUE]

\* Input::refresh after a rebuild: `sent' if the rebuilt batch held this draft,
\* `acknowledged' if the draft has not been touched since.
Refresh(i, f, d, sent, acknowledged) ==
    IF ~i.pending \/ acknowledged THEN NewInput(f, d)
    ELSE IF sent \/ d.content[f] = i.original
         THEN [i EXCEPT !.original = d.content[f]]
         ELSE [i EXCEPT !.conflicted = TRUE, !.error = TRUE]

HasDraft(p) == \E f \in Drafts : inputs[p][f] # None /\ inputs[p][f].pending

\* Between two calls of the UI's code.
Quiet == polled = NoUpdates /\ flushing = None /\ ~stopped

\* Every frame calls flush_edits after the poll and again after the user's input:
\* once no edit is under way, nothing comes before the file is left.
LeaveDue == next_path # None /\ ~busy /\ path # None /\ document # None
Idle == Quiet /\ ~LeaveDue

--------------------------------------------------------------------------------
(* The worker.  What the UI does with the answers of one poll neither reads nor *)
(* writes what the worker shares, so the worker need not be interleaved with it. *)

Take ==
    /\ polled = NoUpdates
    /\ work = NoWork /\ pending # NoWork /\ ~exited
    /\ ~stopped \/ pending.pack # None \/ pending.export # None
    /\ work' = pending
    /\ pending' = NoWork
    /\ UNCHANGED <<updates, stopped, exited, disk, polled, view, busy, saving, drafts, flushing>>

\* Mutant: the accepted packs are not drained.
ExitAtOnce ==
    /\ polled = NoUpdates
    /\ work = NoWork /\ stopped /\ ~exited
    /\ exited' = TRUE
    /\ UNCHANGED <<pending, work, updates, stopped, disk,
                   polled, view, busy, saving, drafts, flushing>>

\* When stopped, only accepted packs and exports are still done.
Exit ==
    /\ polled = NoUpdates
    /\ work = NoWork /\ stopped /\ ~exited
    /\ pending.pack = None /\ pending.export = None
    /\ exited' = TRUE
    /\ UNCHANGED <<pending, work, updates, stopped, disk,
                   polled, view, busy, saving, drafts, flushing>>

Order == <<"load", "expand", "export", "edit", "pack">>
Turn(k) ==
    /\ polled = NoUpdates
    /\ work[k] # None
    /\ \A j \in 1 .. Len(Order) : Order[j] = k => \A i \in 1 .. j - 1 : work[Order[i]] = None
    /\ work' = [work EXCEPT ![k] = None]
    /\ UNCHANGED <<pending, stopped, exited, polled, view, busy, saving, drafts, flushing>>

Skip(k) ==
    /\ k \in {"load", "expand", "edit"} /\ stopped
    /\ Turn(k)
    /\ UNCHANGED <<updates, disk>>

\* A document, or None if the file cannot be read or the operation is refused.
Publish(kind, answer) == updates' = [updates EXCEPT ![kind] = answer]

DoLoad ==
    /\ ~stopped /\ Turn("load")
    /\ \E d \in {[content |-> Source[work.load.path], deep |-> work.load.path \notin Deferred], None} :
        Publish("loaded", [request |-> work.load.request, path |-> work.load.path, doc |-> d])
    /\ UNCHANGED disk

DoExpand ==
    /\ ~stopped /\ Turn("expand")
    /\ \E d \in {[work.expand.doc EXCEPT !.deep = TRUE], None} :
        Publish("expanded", [request |-> work.expand.request, doc |-> d])
    /\ UNCHANGED disk

DoExport ==
    /\ Turn("export")
    /\ UNCHANGED <<updates, disk>>

DoEdit ==
    /\ ~stopped /\ Turn("edit")
    /\ \E d \in Rebuilds(work.edit.doc, work.edit.patch, work.edit.reads) :
        Publish("edited", [request |-> work.edit.request, doc |-> d])
    /\ UNCHANGED disk

\* Mutant: a pack that cannot be written is tried again.
DoPackAgain ==
    /\ polled = NoUpdates
    /\ work.pack # None /\ \A k \in DOMAIN work \ {"pack"} : work[k] = None
    /\ work' = NoWork
    /\ pending' = [pending EXCEPT !.pack = work.pack]
    /\ UNCHANGED <<updates, stopped, exited, disk, polled, view, busy, saving, drafts, flushing>>

DoPack ==
    /\ Turn("pack")
    /\ \E d \in Rebuilds(work.pack.doc, work.pack.patch, TRUE) :
        /\ Publish("packed", [source |-> work.pack.path, requested |-> work.pack.doc, doc |-> d])
        /\ disk' = IF d = None THEN disk ELSE [disk EXCEPT ![work.pack.path] = d.content]

Worker == Take \/ Exit \/ DoLoad \/ DoExpand \/ DoExport \/ DoEdit \/ DoPack
            \/ \E k \in DOMAIN NoWork : Skip(k)

--------------------------------------------------------------------------------
(* The UI takes the answers, in the order of Workbench::poll *)

Poll ==
    /\ Idle /\ updates # NoUpdates
    /\ polled' = updates
    /\ updates' = NoUpdates
    /\ UNCHANGED <<pending, work, stopped, exited, disk, view, busy, saving, drafts, flushing>>

Answers == <<"loaded", "expanded", "edited", "packed">>
Process(k) ==
    /\ polled[k] # None
    /\ \A j \in 1 .. Len(Answers) :
        Answers[j] = k => \A i \in 1 .. j - 1 : polled[Answers[i]] = None
    /\ polled' = [polled EXCEPT ![k] = None]
    /\ UNCHANGED <<shared, flushing>>

DropStale(k) ==
    /\ k # "packed" /\ Process(k)
    /\ polled[k].request # request
    /\ UNCHANGED <<view, busy, saving, drafts>>

FinishLoad ==
    /\ Process("loaded")
    /\ polled.loaded.request = request
    /\ loading' = FALSE /\ expanding' = FALSE
    /\ path' = polled.loaded.path
    /\ document' = polled.loaded.doc
    /\ sessions' = IF polled.loaded.doc = None THEN sessions
                   ELSE [sessions EXCEPT ![path'] = NewSession(polled.loaded.doc)]
    /\ UNCHANGED <<request, next_path, busy, saving, drafts>>

\* Mutant: the session does not learn of what is shown.
ShowOnly(d, ss) ==
    /\ document' = d
    /\ sessions' = ss

\* refresh_document: the shown document is also the session's.
Show(d, ss) ==
    /\ document' = d
    /\ sessions' = IF ss[path] = None THEN ss ELSE [ss EXCEPT ![path].document = d]

FinishExpand ==
    /\ Process("expanded")
    /\ polled.expanded.request = request
    /\ expanding' = FALSE
    /\ IF polled.expanded.doc = None THEN UNCHANGED <<document, sessions>>
       ELSE Show(polled.expanded.doc, sessions)
    /\ UNCHANGED <<request, path, loading, next_path, busy, saving, drafts>>

\* Mutant: the inputs of a refused batch show the document again.
RejectedReset ==
    [f \in Drafts |-> IF f \in submitted \ touched THEN NewInput(f, document) ELSE inputs[path][f]]

\* A refused batch marks the inputs it held.
Rejected ==
    [f \in Drafts |-> IF f \in submitted \ touched THEN [inputs[path][f] EXCEPT !.error = TRUE]
                      ELSE inputs[path][f]]

FinishEdit ==
    /\ Process("edited")
    /\ polled.edited.request = request
    /\ busy' = FALSE
    /\ submitted' = {} /\ touched' = {}
    /\ LET d == polled.edited.doc
           s == sessions[path]
       IN  IF d = None
           THEN /\ inputs' = [inputs EXCEPT ![path] = Rejected]
                /\ UNCHANGED <<document, sessions>>
           ELSE /\ inputs' = [inputs EXCEPT ![path] = [f \in Drafts |->
                        IF @[f] = None THEN None
                        ELSE Refresh(@[f], f, d, f \in submitted, f \in submitted \ touched)]]
                /\ Show(d, IF s = None THEN sessions
                           ELSE [sessions EXCEPT ![path] = Apply(s, d)])
    /\ UNCHANGED <<request, path, loading, expanding, next_path, saving>>

\* Mutant: the number of an edit under way is given up as well.
AdoptRepairsAlways(d) ==
    /\ Show(d, [sessions EXCEPT ![path] = Saved(@, polled.packed.requested, d)])
    /\ request' = request + 1
    /\ expanding' = FALSE
    /\ touched' = submitted
    /\ UNCHANGED inputs

\* Repairs become the shown document; unless an edit is under way, whose number
\* must stay valid, the expansion of the old image is given up.
AdoptRepairs(d) ==
    /\ Show(d, [sessions EXCEPT ![path] = Saved(@, polled.packed.requested, d)])
    /\ IF busy THEN UNCHANGED <<request, expanding, inputs, touched>>
       ELSE /\ request' = request + 1
            /\ expanding' = FALSE
            /\ inputs' = [inputs EXCEPT ![path] = [f \in Drafts |->
                    IF @[f] = None THEN None ELSE Refresh(@[f], f, d, FALSE, FALSE)]]
            /\ touched' = submitted

FinishPack ==
    /\ Process("packed")
    /\ saving' = FALSE
    /\ LET d == polled.packed.doc
           p == polled.packed.source
           s == sessions[p]
       IN  IF d = None \/ s = None THEN UNCHANGED <<request, expanding, document, sessions, inputs, touched>>
           ELSE IF path = p /\ Adopts(s, polled.packed.requested, d) THEN AdoptRepairs(d)
           ELSE /\ sessions' = [sessions EXCEPT ![p] = Saved(s, polled.packed.requested, d)]
                /\ UNCHANGED <<request, expanding, document, inputs, touched>>
    /\ UNCHANGED <<path, loading, next_path, busy, submitted>>

--------------------------------------------------------------------------------
(* The user *)

\* switch_document.  A session without changes is not kept.
Switch(p) ==
    LET s == IF path = None THEN None ELSE sessions[path]
        forget == s # None /\ ~Dirty(s) /\ s.undo = <<>> /\ s.redo = <<>> /\ ~HasDraft(path)
        kept == IF forget THEN [sessions EXCEPT ![path] = None] ELSE sessions
    IN  /\ sessions' = kept
        /\ inputs' = IF forget THEN [inputs EXCEPT ![path] = NoInputs] ELSE inputs
        /\ request' = request + 1
        /\ path' = p
        /\ expanding' = FALSE
        /\ loading' = (kept[p] = None)
        /\ document' = IF kept[p] = None THEN None ELSE kept[p].document
        /\ pending' = IF kept[p] = None
                      THEN [pending EXCEPT !.load = [request |-> request', path |-> p], !.expand = None]
                      ELSE pending

Open(p) ==
    /\ Idle /\ request < MaxRequest
    /\ IF busy \/ (path # None /\ HasDraft(path))
       THEN /\ next_path' = p
            /\ UNCHANGED <<pending, request, path, document, loading, expanding, sessions, inputs>>
       ELSE Switch(p) /\ UNCHANGED next_path
    /\ UNCHANGED <<work, updates, stopped, exited, disk,
                   polled, busy, saving, submitted, touched, flushing>>

Type(f, text) ==
    /\ Idle /\ path # None /\ document # None
    /\ request < MaxRequest \/ next_path = None
    /\ LET i == IF inputs[path][f] = None THEN NewInput(f, document) ELSE inputs[path][f]
       IN  /\ ~i.conflicted /\ text # i.text
           /\ inputs' = [inputs EXCEPT ![path][f] = Change(i, text)]
    /\ touched' = touched \cup ({f} \cap submitted)
    /\ UNCHANGED <<shared, polled, view, busy, saving, submitted, flushing>>

\* Click on the error mark of a draft.
Withdraw(f) ==
    /\ Idle /\ path # None /\ document # None
    /\ inputs[path][f] # None /\ inputs[path][f].error
    /\ inputs' = [inputs EXCEPT ![path][f] = NewInput(f, document)]
    /\ touched' = touched \cup ({f} \cap submitted)
    /\ UNCHANGED <<shared, polled, view, busy, saving, submitted, flushing>>

Toolbar == Idle /\ path # None /\ sessions[path] # None

\* Undo takes the drafts back first,
UndoDrafts ==
    /\ Toolbar /\ ~busy /\ ~loading
    /\ HasDraft(path)
    /\ inputs' = [inputs EXCEPT ![path] = [f \in Drafts |->
            IF @[f] = None THEN None ELSE NewInput(f, document)]]
    /\ touched' = submitted
    /\ UNCHANGED <<shared, polled, view, busy, saving, submitted, flushing>>

\* Mutant: the request number is kept.
HistoryKeepsNumber(s) ==
    /\ sessions' = [sessions EXCEPT ![path] = s]
    /\ document' = s.document
    /\ expanding' = FALSE
    /\ inputs' = [inputs EXCEPT ![path] = NoInputs]
    /\ UNCHANGED <<shared, polled, request, path, loading, next_path, busy, saving,
                   submitted, touched, flushing>>

\* then a step of the session.
History(s) ==
    /\ sessions' = [sessions EXCEPT ![path] = s]
    /\ document' = s.document
    /\ request' = request + 1
    /\ expanding' = FALSE
    /\ inputs' = [inputs EXCEPT ![path] = NoInputs]
    /\ UNCHANGED <<shared, polled, path, loading, next_path, busy, saving,
                   submitted, touched, flushing>>

Undo ==
    /\ Toolbar /\ ~busy /\ ~loading /\ ~HasDraft(path) /\ request < MaxRequest
    /\ sessions[path].undo # <<>>
    /\ History(Undone(sessions[path]))

Redo ==
    /\ Toolbar /\ ~busy /\ ~loading /\ ~HasDraft(path) /\ request < MaxRedo
    /\ sessions[path].redo # <<>>
    /\ History(Redone(sessions[path]))

\* expand_node
Expand ==
    /\ Idle /\ ~expanding /\ ~busy
    /\ document # None /\ ~document.deep
    /\ expanding' = TRUE
    /\ pending' = [pending EXCEPT !.expand = [request |-> request, doc |-> document]]
    /\ UNCHANGED <<work, updates, stopped, exited, disk, polled, request, path, document,
                   loading, next_path, sessions, busy, saving, drafts, flushing>>

Export ==
    /\ Idle /\ document # None
    /\ pending.export = None
    /\ pending' = [pending EXCEPT !.export = path]
    /\ UNCHANGED <<work, updates, stopped, exited, disk,
                   polled, view, busy, saving, drafts, flushing>>

\* begin_edit and Worker::queue_edit
QueueEdit(patch, reads) ==
    /\ request' = request + 1
    /\ expanding' = FALSE
    /\ busy' = TRUE
    /\ pending' = [pending EXCEPT !.expand = None,
                        !.edit = [request |-> request', doc |-> document,
                                  patch |-> patch, reads |-> reads]]
    /\ UNCHANGED <<work, updates, stopped, exited, disk, polled,
                   path, document, loading, next_path, sessions, saving>>

\* A node action, or a replacement from a file.
Act(a) ==
    /\ Idle /\ request < MaxRequest
    /\ ~busy /\ ~(path # None /\ HasDraft(path)) /\ document # None
    /\ QueueEdit(a, TRUE)
    /\ UNCHANGED <<drafts, flushing>>

--------------------------------------------------------------------------------
(* flush_edits *)

Draft(f) == inputs[path][f]
Ready(fs) == {f \in fs : Draft(f) # None /\ Draft(f).pending /\ ~Draft(f).error}
Valid(fs) == {f \in Ready(fs) : Draft(f).text \in Values}
Patched(fs) == {f \in Valid(fs) : Draft(f).text # document.content[f]}

\* What does not encode is marked, what changes nothing is no draft any more
\* unless a rebuild is under way that will change it.
Encoded(fs) ==
    [f \in Drafts |->
        IF f \in Ready(fs) \ Valid(fs) THEN [Draft(f) EXCEPT !.error = TRUE]
        ELSE IF f \in Valid(fs) \ Patched(fs) /\ ~busy THEN [Draft(f) EXCEPT !.pending = FALSE]
        ELSE Draft(f)]

\* Drafts in focus wait, unless the file is about to be left.
Flush(unfocused) ==
    /\ Quiet /\ ~busy /\ path # None /\ document # None
    /\ request < MaxRequest \/ LeaveDue
    /\ LET fs == IF next_path # None THEN Drafts ELSE unfocused
       IN  /\ Ready(fs) # {} \/ next_path # None
           /\ inputs' = [inputs EXCEPT ![path] = Encoded(fs)]
           /\ flushing' = Patched(fs)
    /\ UNCHANGED <<shared, polled, view, busy, saving, submitted, touched>>

\* Mutant: the toolbar does not wait for the answer to the last pack.
PackAgain ==
    /\ Toolbar /\ ~loading /\ ~busy /\ request < MaxRequest
    /\ saving' = TRUE
    /\ pending' = [pending EXCEPT !.pack =
            [path |-> path, doc |-> document,
             patch |-> [f \in Patched(Drafts) |-> Draft(f).text]]]
    /\ UNCHANGED <<inputs, flushing>>
    /\ UNCHANGED <<work, updates, stopped, exited, disk, polled, view, busy, submitted, touched>>

\* A click on "pack" sends every valid draft with the document, also those that
\* an edit under way has not acknowledged; an invalid one refuses it.
Pack ==
    /\ Toolbar /\ ~loading /\ ~saving /\ (busy => submitted # {}) /\ request < MaxRequest
    /\ inputs' = [inputs EXCEPT ![path] = Encoded(Drafts)]
    /\ IF \E f \in Drafts : inputs'[path][f] # None /\ inputs'[path][f].pending
                                /\ inputs'[path][f].error
       THEN UNCHANGED <<saving, pending>>
       ELSE /\ saving' = TRUE
            /\ pending' = [pending EXCEPT !.pack =
                    [path |-> path, doc |-> document,
                     patch |-> [f \in Patched(Drafts) |-> Draft(f).text]]]
    /\ flushing' = IF busy THEN None ELSE Patched(Drafts)
    /\ UNCHANGED <<work, updates, stopped, exited, disk, polled, view, busy, submitted, touched>>

\* The rest of flush_edits: a batch of patches goes to the worker,
SubmitEdit ==
    /\ flushing \notin {None, {}}
    /\ QueueEdit([f \in flushing |-> Draft(f).text], FALSE)
    /\ submitted' = flushing /\ touched' = {}
    /\ flushing' = None
    /\ UNCHANGED inputs

\* Mutant: an invalid draft keeps the file open.
LeaveFileClean ==
    /\ flushing = {}
    /\ IF next_path = None \/ HasDraft(path) THEN UNCHANGED <<pending, view, inputs>>
       ELSE Switch(next_path) /\ next_path' = None
    /\ flushing' = None
    /\ UNCHANGED <<work, updates, stopped, exited, disk, polled, busy, saving, submitted, touched>>

\* or the next file is opened.
LeaveFile ==
    /\ flushing = {}
    /\ IF next_path = None THEN UNCHANGED <<pending, view, inputs>>
       ELSE Switch(next_path) /\ next_path' = None
    /\ flushing' = None
    /\ UNCHANGED <<work, updates, stopped, exited, disk, polled, busy, saving, submitted, touched>>

\* WorkbenchModule::stop: the overlay is unregistered, then the worker stopped.
Stop ==
    /\ Idle
    /\ stopped' = TRUE
    /\ UNCHANGED <<pending, work, updates, exited, disk,
                   polled, view, busy, saving, drafts, flushing>>

UI ==
    \/ Poll \/ FinishLoad \/ FinishExpand \/ FinishEdit \/ FinishPack
    \/ \E k \in DOMAIN NoUpdates : DropStale(k)
    \/ LeaveDue /\ Flush(Drafts)
    \/ SubmitEdit \/ LeaveFile

User ==
    \/ \E p \in Paths : Open(p)
    \/ \E f \in Drafts : Withdraw(f) \/ \E t \in Texts : Type(f, t)
    \/ UndoDrafts \/ Undo \/ Redo
    \/ Expand \/ Export \/ Pack \/ Stop
    \/ \E a \in Actions : Act(a)
    \/ \E fs \in SUBSET Drafts : Flush(fs)

Resting == exited /\ UNCHANGED vars

Next == Worker \/ UI \/ User \/ Resting

Spec == Init /\ [][Next]_vars

\* The worker thread runs on: strong fairness, for here it pauses while the UI is
\* processing a poll.  The UI ends what it began, and every frame polls, so that
\* an answer is taken however often the user's clicks come in between.
FairSpec ==
    /\ Spec
    /\ SF_vars(Worker)
    /\ WF_vars(UI)
    /\ SF_vars(Poll)

--------------------------------------------------------------------------------
(* Properties *)

Queues == [load : Loads \cup {None}, expand : Expands \cup {None}, export : Paths \cup {None},
           edit : Edits \cup {None}, pack : Packs \cup {None}]
Mailboxes == [loaded : Loaded \cup {None}, expanded : Results \cup {None},
              edited : Results \cup {None}, packed : Packed \cup {None}]

\* The bound of trim_history, which leaves the nearest step of either side.
Trimmed(s) == Len(s.undo) + Len(s.redo) <= IF HistorySteps < 2 THEN 2 ELSE HistorySteps

\* Every variable keeps its type, and a session never holds more history than
\* trim_history allows beyond the two nearest steps.
TypeOK ==
    /\ pending \in Queues /\ work \in Queues
    /\ updates \in Mailboxes /\ polled \in Mailboxes
    /\ stopped \in BOOLEAN /\ exited \in BOOLEAN
    /\ loading \in BOOLEAN /\ expanding \in BOOLEAN /\ busy \in BOOLEAN /\ saving \in BOOLEAN
    /\ request \in Nat
    /\ document \in Documents \cup {None}
    /\ path \in Paths \cup {None} /\ next_path \in Paths \cup {None}
    /\ disk \in [Paths -> Contents \cup {None}]
    /\ sessions \in [Paths -> Sessions \cup {None}]
    /\ \A p \in Paths : sessions[p] # None => Trimmed(sessions[p])
    /\ inputs \in [Paths -> [Drafts -> Inputs \cup {None}]]
    /\ touched \subseteq submitted /\ submitted \subseteq Drafts
    /\ flushing = None \/ flushing \subseteq Drafts

Underway(k, u) == {pending[k], work[k], updates[u], polled[u]} \ {None}
Current(k, u) == {x \in Underway(k, u) : x.request = request}

\* The UI waits for exactly what is still to come: renumbering a request never
\* orphans a wait that nothing else ends, and an answer nobody waits for any
\* more has an old number, so that poll drops it.
\* The document shown is the one that its session edits, whatever answers came
\* in between: what is typed, undone and packed is what the user sees.  And an
\* expansion that poll would still accept has the bytes now shown: accepting it
\* cannot take an edit, an undo or a packing repair back.
Answered ==
    /\ TypeOK
    /\ saving <=> Underway("pack", "packed") # {}
    /\ ~stopped =>
        /\ loading <=> Current("load", "loaded") # {}
        /\ expanding <=> Current("expand", "expanded") # {}
        /\ busy <=> Current("edit", "edited") # {}
    /\ document # None =>
          /\ ~loading /\ path # None
          /\ sessions[path] # None /\ sessions[path].document = document
    /\ \A x \in Current("expand", "expanded") :
          x.doc # None => document # None /\ x.doc.content = document.content

Taken(k) == pending[k] # None => pending'[k] = pending[k] \/ work'[k] = pending[k]

\* What the worker has to do for the user is never overwritten by a later request
\* of its kind before the worker has taken it, and closing the workbench completes
\* every pack and every export it accepted.
NothingOverwritten ==
    /\ [][Taken("edit") /\ Taken("pack") /\ Taken("export")]_vars
    /\ [](exited => pending.pack = None /\ pending.export = None /\ work = NoWork)

Withdrawn(p, f) == path = p /\ (Withdraw(f) \/ UndoDrafts)

\* A draft stops being one only when the document shown holds its text, or when
\* the user takes it back: no rebuild, save, switch or undo loses typed input.
DraftsKept ==
    [][\A p \in Paths, f \in Drafts :
        inputs[p][f] # None /\ inputs[p][f].pending =>
            \/ inputs'[p][f] # None /\ inputs'[p][f].pending
            \/ path' = p /\ document'.content[f] = inputs[p][f].text
            \/ Withdrawn(p, f)]_vars

Recalled(s, t) ==
    \/ t.document.content = s.document.content
    \/ t.undo # <<>> /\ Last(t.undo).content = s.document.content
    \/ t.redo # <<>> /\ Last(t.redo).content = s.document.content

\* Bytes that a session shows are one undo or redo away after any step that
\* replaces them, and a session with changes is never dropped or loaded anew.
HistoryKept ==
    [][\A p \in Paths : sessions[p] # None =>
        IF sessions'[p] = None THEN ~Dirty(sessions[p]) /\ sessions[p].undo = <<>>
        ELSE Recalled(sessions[p], sessions'[p])]_vars

\* "Adopt packing repairs only while the requested revision is still current":
\* with no edit under way, the answer to a pack changes no field the user edits.
\* The packed bytes hold the drafts of the click on "pack" as well; once they
\* were applied and undone, the document compares equal to the requested one.
OnlyRepairsAdopted ==
    [][FinishPack /\ ~busy /\ document # None =>
        \A f \in Drafts : document'.content[f] = document.content[f]]_vars

\* Loading, rebuilding and saving end, whatever the user does meanwhile; a file
\* chosen while drafts were pending is opened in the end, invalid drafts and
\* failing rebuilds or not; and stopping ends, after the accepted packs and exports.
WaitsEnd ==
    /\ loading ~> ~loading \/ stopped
    /\ busy ~> ~busy \/ stopped
    /\ saving ~> ~saving \/ stopped
    /\ next_path # None ~> next_path = None \/ stopped
    /\ stopped ~> exited

================================================================================
