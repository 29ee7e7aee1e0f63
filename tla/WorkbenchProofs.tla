---------------------------- MODULE WorkbenchProofs ----------------------------
(***************************************************************************)
(* Proofs about Workbench: for any files, fields, values and histories,    *)
(* and any number of requests, every wait of the UI is answered, what is   *)
(* shown is what the session edits, and no draft, no history and no        *)
(* accepted order is lost.                                                 *)
(***************************************************************************)
EXTENDS Workbench, TLAPS

(***************************************************************************)
(* Documents, sessions and drafts                                          *)
(***************************************************************************)

\* A rebuilt document is one, and holds the patch wherever the name check is not.
LEMMA RebuiltDocument ==
    ASSUME NEW d \in Documents, NEW patch \in Patches
    PROVE  /\ Rebuilt(d, patch) \in Documents
           /\ \A f \in DOMAIN patch \ {NameCheck} : Rebuilt(d, patch).content[f] = patch[f]
<1> DEFINE filled == [f \in Fields |-> IF f = NameCheck THEN Right
                                       ELSE IF f \in DOMAIN patch THEN patch[f] ELSE d.content[f]]
<1>1. PICK fs \in SUBSET Fields : patch \in [fs -> Values]
  BY DEF Patches
<1>2. d.content \in [Fields -> Values]
  BY DEF Documents, Contents
<1>3. filled \in Contents
  BY <1>1, <1>2, ValuesAssumption DEF Contents
<1>4. \A f \in DOMAIN patch \ {NameCheck} : filled[f] = patch[f]
  BY <1>1
<1>5. Rebuilt(d, patch) = [d EXCEPT !.content = filled]
  BY DEF Rebuilt
<1> HIDE DEF filled
<1>6. Rebuilt(d, patch) \in Documents /\ Rebuilt(d, patch).content = filled
  BY <1>3, <1>5 DEF Documents
<1> QED
  BY <1>4, <1>6

\* What a rebuild may answer is a document or a failure.
LEMMA RebuildsDocuments ==
    ASSUME NEW d \in Documents, NEW patch \in Patches, NEW reads \in BOOLEAN,
           NEW r \in Rebuilds(d, patch, reads)
    PROVE  /\ r \in Documents \cup {None}
           /\ r # None => \A f \in DOMAIN patch \ {NameCheck} : r.content[f] = patch[f]
<1>1. r = None \/ r = Rebuilt(d, patch)
  BY DEF Rebuilds
<1> QED
  BY <1>1, RebuiltDocument

\* A sequence that something was appended to.
LEMMA Appended ==
    ASSUME NEW S, NEW seq \in Seq(S), NEW x \in S
    PROVE  /\ Append(seq, x) \in Seq(S) /\ Append(seq, x) # <<>>
           /\ Len(Append(seq, x)) = Len(seq) + 1 /\ Last(Append(seq, x)) = x
BY DEF Last

\* A sequence without its last element.
LEMMA Shortened ==
    ASSUME NEW S, NEW seq \in Seq(S), seq # <<>>
    PROVE  /\ Front(seq) \in Seq(S) /\ Len(Front(seq)) = Len(seq) - 1 /\ Last(seq) \in S
           /\ Len(seq) \in Nat \ {0}
<1>1. Len(seq) \in Nat \ {0} /\ \A i \in 1 .. Len(seq) : seq[i] \in S
  OBVIOUS
<1>2. Front(seq) = [i \in 1 .. Len(seq) - 1 |-> seq[i]]
  BY <1>1 DEF Front
<1>3. Len(seq) - 1 \in Nat /\ \A i \in 1 .. Len(seq) - 1 : seq[i] \in S
  BY <1>1
<1>4. Front(seq) \in Seq(S) /\ Len(Front(seq)) = Len(seq) - 1
  BY <1>2, <1>3
<1> QED
  BY <1>1, <1>4 DEF Last

\* A sequence without its first element keeps its last one.
LEMMA TailKeepsLast ==
    ASSUME NEW S, NEW seq \in Seq(S), Len(seq) > 1
    PROVE  /\ Tail(seq) \in Seq(S) /\ Tail(seq) # <<>> /\ Len(Tail(seq)) = Len(seq) - 1
           /\ Last(Tail(seq)) = Last(seq)
<1>1. Len(seq) \in Nat /\ seq # <<>>
  OBVIOUS
<1>2. /\ Tail(seq) \in Seq(S) /\ Len(Tail(seq)) = Len(seq) - 1
      /\ \A i \in 1 .. Len(seq) - 1 : Tail(seq)[i] = seq[i + 1]
  BY <1>1
<1>3. Tail(seq) # <<>>
  <2>1. Len(Tail(seq)) # 0
    BY <1>1, <1>2
  <2>2. Len(<<>>) = 0
    OBVIOUS
  <2> QED
    BY <2>1, <2>2
<1>4. Len(seq) - 1 \in 1 .. Len(seq) - 1 /\ Len(seq) - 1 + 1 = Len(seq)
  BY <1>1
<1>5. Tail(seq)[Len(seq) - 1] = seq[Len(seq)]
  BY <1>2, <1>4
<1> QED
  BY <1>2, <1>3, <1>5 DEF Last

\* A session of a document that was just read.
LEMMA SessionCreated ==
    ASSUME NEW d \in Documents
    PROVE  /\ NewSession(d) \in Sessions /\ NewSession(d).document = d
           /\ Trimmed(NewSession(d))
BY BoundsAssumption DEF NewSession, Sessions, Documents, Trimmed

\* Trimming keeps the nearest step of either side.
LEMMA TrimKeeps ==
    ASSUME NEW s \in Sessions, s.undo # <<>>, s.redo = <<>>,
           Len(s.undo) <= (IF HistorySteps < 2 THEN 2 ELSE HistorySteps) + 1
    PROVE  /\ Trim(s) \in Sessions /\ Trimmed(Trim(s)) /\ Trim(s).document = s.document
           /\ Trim(s).saved = s.saved
           /\ Trim(s).undo # <<>> /\ Last(Trim(s).undo) = Last(s.undo)
<1>1. s.undo \in Seq(Documents) /\ s.redo \in Seq(Documents) /\ Len(s.redo) = 0
      /\ Len(s.undo) \in Nat
  BY DEF Sessions
<1>2. CASE Len(s.undo) + Len(s.redo) > HistorySteps /\ Len(s.undo) > 1
  <2>1. Trim(s) = [s EXCEPT !.undo = Tail(@)]
    BY <1>2 DEF Trim
  <2>2. /\ Trim(s) \in Sessions /\ Trim(s).undo = Tail(s.undo) /\ Trim(s).redo = s.redo
        /\ Trim(s).document = s.document /\ Trim(s).saved = s.saved
    BY <2>1, <1>1, <1>2, TailKeepsLast DEF Sessions
  <2> QED
    BY <2>2, <1>1, <1>2, TailKeepsLast, BoundsAssumption DEF Trimmed
<1>3. CASE ~(Len(s.undo) + Len(s.redo) > HistorySteps /\ Len(s.undo) > 1)
  <2>1. Trim(s) = s
    BY <1>3, <1>1 DEF Trim
  <2>2. Len(s.undo) + Len(s.redo) = Len(s.undo)
    BY <1>1
  <2>3. Trimmed(s)
    BY <2>2, <1>1, <1>3, BoundsAssumption DEF Trimmed
  <2> QED
    BY <2>1, <2>3
<1> QED
  BY <1>2, <1>3

\* A changed document becomes the session's, and the one before it the nearest step.
LEMMA ApplyKeeps ==
    ASSUME NEW s \in Sessions, Trimmed(s), NEW d \in Documents
    PROVE  /\ Apply(s, d) \in Sessions /\ Trimmed(Apply(s, d))
           /\ Apply(s, d).saved = s.saved
           /\ Apply(s, d).document.content = d.content
           /\ \/ s.document.content = d.content
              \/ Apply(s, d).undo # <<>> /\ Last(Apply(s, d).undo) = s.document
<1>1. /\ s.undo \in Seq(Documents) /\ s.redo \in Seq(Documents) /\ s.document \in Documents
      /\ Len(s.redo) \in Nat /\ Len(s.undo) \in Nat
  BY DEF Sessions
<1>2. CASE s.document.content = d.content
  BY <1>2 DEF Apply
<1>3. CASE s.document.content # d.content
  <2> DEFINE t == [s EXCEPT !.undo = Append(@, s.document), !.document = d, !.redo = <<>>]
  <2>1. Apply(s, d) = Trim(t)
    BY <1>3 DEF Apply
  <2>2. /\ Append(s.undo, s.document) \in Seq(Documents) /\ Append(s.undo, s.document) # <<>>
        /\ Len(Append(s.undo, s.document)) = Len(s.undo) + 1
        /\ Last(Append(s.undo, s.document)) = s.document
    BY <1>1, Appended
  <2>3. /\ t \in Sessions /\ t.undo = Append(s.undo, s.document) /\ t.redo = <<>>
        /\ t.document = d /\ t.saved = s.saved
    <3> DEFINE longer == Append(s.undo, s.document)
               none == SubSeq(s.redo, 1, 0)
    <3>1. none = <<>> /\ none \in Seq(Documents)
      BY <1>1
    <3>2. t = [s EXCEPT !.undo = longer, !.document = d, !.redo = none]
      BY <3>1
    <3>3. longer \in Seq(Documents)
      BY <2>2
    <3> HIDE DEF longer, none
    <3>4. /\ t \in Sessions /\ t.undo = longer /\ t.redo = none
          /\ t.document = d /\ t.saved = s.saved
      BY <3>1, <3>2, <3>3 DEF Sessions
    <3> QED
      BY <3>1, <3>4 DEF longer
  <2> HIDE DEF t
  <2> DEFINE bound == IF HistorySteps < 2 THEN 2 ELSE HistorySteps
  <2>6. Len(s.undo) + Len(s.redo) <= bound /\ bound \in Nat
    BY BoundsAssumption DEF Trimmed
  <2>7. Len(t.undo) = Len(s.undo) + 1
    BY <2>2, <2>3
  <2>4. Len(t.undo) <= bound + 1
    <3> DEFINE n == Len(s.undo)
               r == Len(s.redo)
               m == Len(t.undo)
    <3>1. n \in Nat /\ r \in Nat /\ m = n + 1 /\ n + r <= bound
      BY <2>6, <2>7, <1>1
    <3> HIDE DEF bound, n, r, m
    <3>2. m <= bound + 1
      BY <3>1, <2>6
    <3> QED
      BY <3>2 DEF m
  <2>5. /\ Trim(t) \in Sessions /\ Trimmed(Trim(t)) /\ Trim(t).document = d
        /\ Trim(t).saved = s.saved
        /\ Trim(t).undo # <<>> /\ Last(Trim(t).undo) = s.document
    BY <2>2, <2>3, <2>4, TrimKeeps
  <2> QED
    BY <2>1, <2>5
<1> QED
  BY <1>2, <1>3

\* Showing a document with the bytes of the session keeps the session's history.
LEMMA DocumentShown ==
    ASSUME NEW s \in Sessions, Trimmed(s), NEW d \in Documents
    PROVE  /\ [s EXCEPT !.document = d] \in Sessions /\ Trimmed([s EXCEPT !.document = d])
           /\ [s EXCEPT !.document = d].document = d
           /\ [s EXCEPT !.document = d].undo = s.undo
           /\ [s EXCEPT !.document = d].redo = s.redo
           /\ [s EXCEPT !.document = d].saved = s.saved
BY DEF Sessions, Trimmed

\* An undo.
LEMMA UndoneKeeps ==
    ASSUME NEW s \in Sessions, Trimmed(s), s.undo # <<>>
    PROVE  /\ Undone(s) \in Sessions /\ Trimmed(Undone(s))
           /\ Undone(s).redo # <<>> /\ Last(Undone(s).redo) = s.document
<1>1. /\ s.undo \in Seq(Documents) /\ s.redo \in Seq(Documents) /\ s.document \in Documents
      /\ Len(s.redo) \in Nat /\ Len(s.undo) \in Nat
  BY DEF Sessions
<1>2. /\ Append(s.redo, s.document) \in Seq(Documents) /\ Append(s.redo, s.document) # <<>>
      /\ Len(Append(s.redo, s.document)) = Len(s.redo) + 1
      /\ Last(Append(s.redo, s.document)) = s.document
  BY <1>1, Appended
<1>3. /\ Front(s.undo) \in Seq(Documents) /\ Len(Front(s.undo)) = Len(s.undo) - 1
      /\ Last(s.undo) \in Documents
  BY <1>1, Shortened
<1>4. /\ Undone(s) \in Sessions /\ Undone(s).undo = Front(s.undo)
      /\ Undone(s).redo = Append(s.redo, s.document)
  BY <1>1, <1>2, <1>3 DEF Undone, Sessions
<1>5. Len(Undone(s).undo) + Len(Undone(s).redo) = Len(s.undo) + Len(s.redo)
  <2>1. Len(Undone(s).redo) = Len(s.redo) + 1 /\ Len(Undone(s).undo) = Len(s.undo) - 1
    BY <1>2, <1>3, <1>4
  <2> DEFINE m == Len(Undone(s).redo)
             n == Len(Undone(s).undo)
             i == Len(s.redo)
             j == Len(s.undo)
  <2>2. m = i + 1 /\ n = j - 1 /\ i \in Nat /\ j \in Nat
    BY <2>1, <1>1
  <2> HIDE DEF m, n, i, j
  <2>3. m + n = i + j /\ n + m = j + i
    BY <2>2
  <2> QED
    BY <2>3 DEF m, n, i, j
<1> QED
  BY <1>2, <1>4, <1>5 DEF Trimmed

\* A redo.
LEMMA RedoneKeeps ==
    ASSUME NEW s \in Sessions, Trimmed(s), s.redo # <<>>
    PROVE  /\ Redone(s) \in Sessions /\ Trimmed(Redone(s))
           /\ Redone(s).undo # <<>> /\ Last(Redone(s).undo) = s.document
<1>1. /\ s.undo \in Seq(Documents) /\ s.redo \in Seq(Documents) /\ s.document \in Documents
      /\ Len(s.redo) \in Nat /\ Len(s.undo) \in Nat
  BY DEF Sessions
<1>2. /\ Append(s.undo, s.document) \in Seq(Documents) /\ Append(s.undo, s.document) # <<>>
      /\ Len(Append(s.undo, s.document)) = Len(s.undo) + 1
      /\ Last(Append(s.undo, s.document)) = s.document
  BY <1>1, Appended
<1>3. /\ Front(s.redo) \in Seq(Documents) /\ Len(Front(s.redo)) = Len(s.redo) - 1
      /\ Last(s.redo) \in Documents
  BY <1>1, Shortened
<1>4. /\ Redone(s) \in Sessions /\ Redone(s).redo = Front(s.redo)
      /\ Redone(s).undo = Append(s.undo, s.document)
  BY <1>1, <1>2, <1>3 DEF Redone, Sessions
<1>5. Len(Redone(s).undo) + Len(Redone(s).redo) = Len(s.undo) + Len(s.redo)
  <2>1. Len(Redone(s).undo) = Len(s.undo) + 1 /\ Len(Redone(s).redo) = Len(s.redo) - 1
    BY <1>2, <1>3, <1>4
  <2> DEFINE m == Len(Redone(s).undo)
             n == Len(Redone(s).redo)
             i == Len(s.undo)
             j == Len(s.redo)
  <2>2. m = i + 1 /\ n = j - 1 /\ i \in Nat /\ j \in Nat
    BY <2>1, <1>1
  <2> HIDE DEF m, n, i, j
  <2>3. m + n = i + j /\ n + m = j + i
    BY <2>2
  <2> QED
    BY <2>3 DEF m, n, i, j
<1> QED
  BY <1>2, <1>4, <1>5 DEF Trimmed

\* What a session does with the answer to a pack.
LEMMA SavedKeeps ==
    ASSUME NEW s \in Sessions, Trimmed(s), NEW requested, NEW d \in Documents
    PROVE  /\ Saved(s, requested, d) \in Sessions /\ Trimmed(Saved(s, requested, d))
           /\ ~Adopts(s, requested, d) => Saved(s, requested, d).document = s.document
           /\ Adopts(s, requested, d) =>
                /\ Saved(s, requested, d).undo # <<>>
                /\ Last(Saved(s, requested, d).undo) = s.document
<1> DEFINE marked == [s EXCEPT !.saved = d.content]
<1>1. /\ marked \in Sessions /\ marked.document = s.document
      /\ marked.undo = s.undo /\ marked.redo = s.redo
  BY DEF Sessions, Documents
<1>2. Saved(s, requested, d) = IF Adopts(s, requested, d) THEN Apply(marked, d) ELSE marked
  BY DEF Saved
<1> HIDE DEF marked
<1>3. Trimmed(marked)
  BY <1>1 DEF Trimmed
<1>4. /\ Apply(marked, d) \in Sessions /\ Trimmed(Apply(marked, d))
      /\ Apply(marked, d).document.content = d.content
      /\ \/ s.document.content = d.content
         \/ Apply(marked, d).undo # <<>> /\ Last(Apply(marked, d).undo) = s.document
  BY <1>1, <1>3, ApplyKeeps
<1>5. Adopts(s, requested, d) => s.document.content # d.content
  BY DEF Adopts
<1> QED
  BY <1>1, <1>2, <1>3, <1>4, <1>5

\* A field that is shown for the first time is no draft.
LEMMA InputNew ==
    ASSUME NEW f \in Drafts, NEW d \in Documents
    PROVE  /\ NewInput(f, d) \in Inputs /\ NewInput(f, d).text = d.content[f]
           /\ ~NewInput(f, d).pending
<1>1. f \in Fields /\ d.content \in [Fields -> Values]
  BY FieldsAssumption DEF Documents, Contents
<1>2. d.content[f] \in Values /\ d.content[f] \in Texts
  BY <1>1, ValuesAssumption
<1> QED
  BY <1>2 DEF NewInput, Inputs

\* Typing makes it a draft with the text.
LEMMA InputChanged ==
    ASSUME NEW i \in Inputs, NEW t \in Texts
    PROVE  Change(i, t) \in Inputs /\ Change(i, t).pending /\ Change(i, t).text = t
BY DEF Change, Inputs

\* Only a draft that was acknowledged, or none at all, is replaced by a rebuild.
LEMMA InputRefreshed ==
    ASSUME NEW i \in Inputs, NEW f \in Drafts, NEW d \in Documents,
           NEW sent \in BOOLEAN, NEW acknowledged \in BOOLEAN
    PROVE  /\ Refresh(i, f, d, sent, acknowledged) \in Inputs
           /\ i.pending /\ ~acknowledged => Refresh(i, f, d, sent, acknowledged).pending
<1>1. f \in Fields /\ d.content \in [Fields -> Values]
  BY FieldsAssumption DEF Documents, Contents
<1>2. d.content[f] \in Values
  BY <1>1
<1>3. CASE ~i.pending \/ acknowledged
  BY <1>3, InputNew DEF Refresh
<1>4. CASE ~(~i.pending \/ acknowledged) /\ (sent \/ d.content[f] = i.original)
  <2>1. Refresh(i, f, d, sent, acknowledged) = [i EXCEPT !.original = d.content[f]]
    BY <1>4 DEF Refresh
  <2> QED
    BY <2>1, <1>2, <1>4 DEF Inputs
<1>5. CASE ~(~i.pending \/ acknowledged) /\ ~(sent \/ d.content[f] = i.original)
  <2>1. Refresh(i, f, d, sent, acknowledged) = [i EXCEPT !.conflicted = TRUE, !.error = TRUE]
    BY <1>5 DEF Refresh
  <2> QED
    BY <2>1, <1>5 DEF Inputs
<1> QED
  BY <1>3, <1>4, <1>5

\* Encoding the drafts of the open file keeps their texts, and a draft that is none
\* any more has the text that is shown.
LEMMA EncodedKeeps ==
    ASSUME TypeOK, path # None, document # None, NEW fs \in SUBSET Drafts
    PROVE  /\ Encoded(fs) \in [Drafts -> Inputs \cup {None}]
           /\ \A f \in Drafts :
                /\ Encoded(fs)[f] # None <=> Draft(f) # None
                /\ Draft(f) # None =>
                    /\ Encoded(fs)[f].text = Draft(f).text
                    /\ Draft(f).pending =>
                        Encoded(fs)[f].pending \/ document.content[f] = Draft(f).text
           /\ busy => \A f \in Drafts : Draft(f) # None /\ Draft(f).pending => Encoded(fs)[f].pending
           /\ Patched(fs) \subseteq Drafts
           /\ \A f \in Patched(fs) : Draft(f) # None /\ Draft(f).text \in Values
<1>1. \A f \in Drafts : Draft(f) \in Inputs \cup {None}
  BY DEF TypeOK, Draft
<1>2. Valid(fs) \subseteq Ready(fs) /\ Ready(fs) \subseteq fs
  BY DEF Valid, Ready
<1>3. \A f \in Ready(fs) : Draft(f) # None /\ Draft(f).pending
  BY DEF Ready
<1>4. \A f \in Valid(fs) \ Patched(fs) : Draft(f).text = document.content[f]
  BY DEF Patched
<1>5. \A f \in Patched(fs) : f \in Valid(fs) /\ Draft(f).text \in Values
  BY DEF Patched, Valid
<1>6. SUFFICES ASSUME NEW f \in Drafts
      PROVE  /\ Encoded(fs)[f] \in Inputs \cup {None}
             /\ Encoded(fs)[f] # None <=> Draft(f) # None
             /\ Draft(f) # None =>
                    /\ Encoded(fs)[f].text = Draft(f).text
                    /\ Draft(f).pending =>
                        Encoded(fs)[f].pending \/ document.content[f] = Draft(f).text
             /\ busy => (Draft(f) # None /\ Draft(f).pending => Encoded(fs)[f].pending)
  <2>1. Encoded(fs) \in [Drafts -> Inputs \cup {None}] <=>
            \A f \in Drafts : Encoded(fs)[f] \in Inputs \cup {None}
    BY DEF Encoded
  <2> QED
    BY <2>1, <1>2, <1>3, <1>5
<1>7. CASE f \in Ready(fs) \ Valid(fs)
  <2>1. Encoded(fs)[f] = [Draft(f) EXCEPT !.error = TRUE]
    BY <1>7 DEF Encoded
  <2>2. Draft(f) \in Inputs /\ Draft(f) # None
    BY <1>1, <1>3, <1>7
  <2> QED
    BY <2>1, <2>2, NoneAssumption DEF Inputs
<1>8. CASE f \in Valid(fs) \ Patched(fs) /\ ~busy
  <2>1. Encoded(fs)[f] = [Draft(f) EXCEPT !.pending = FALSE]
    BY <1>8 DEF Encoded
  <2>2. Draft(f) \in Inputs /\ Draft(f) # None
    BY <1>1, <1>2, <1>3, <1>8
  <2> QED
    BY <2>1, <2>2, <1>4, <1>8, NoneAssumption DEF Inputs
<1>9. CASE f \notin Ready(fs) \ Valid(fs) /\ ~(f \in Valid(fs) \ Patched(fs) /\ ~busy)
  <2>1. Encoded(fs)[f] = Draft(f)
    BY <1>9 DEF Encoded
  <2> QED
    BY <2>1, <1>1
<1> QED
  BY <1>7, <1>8, <1>9

(***************************************************************************)
(* The invariant                                                           *)
(***************************************************************************)

\* What comes earlier in the pipeline was posted earlier.
Before(x, y) == x # None /\ y # None => x.request < y.request

\* The requests of a kind, from the queue to the answer, are in the order in which
\* they were posted, and none is newer than the current number.
InOrder(k, u) ==
    /\ Before(polled[u], updates[u]) /\ Before(polled[u], work[k]) /\ Before(polled[u], pending[k])
    /\ Before(updates[u], work[k]) /\ Before(updates[u], pending[k])
    /\ Before(work[k], pending[k])
    /\ \A x \in Underway(k, u) : x.request <= request

\* At most one of a kind is under way.
Single(k, u) ==
    /\ pending[k] # None => work[k] = None /\ updates[u] = None /\ polled[u] = None
    /\ work[k] # None => updates[u] = None /\ polled[u] = None
    /\ updates[u] # None => polled[u] = None

QueueInv ==
    /\ InOrder("load", "loaded")
    /\ InOrder("expand", "expanded")
    /\ Single("edit", "edited")
    /\ Single("pack", "packed")

\* An answer is processed, and a batch is submitted, before anything else of the
\* UI; and after the workbench was stopped the UI does nothing.
PhaseInv ==
    /\ stopped => polled = NoUpdates /\ flushing = None
    /\ exited => stopped /\ work = NoWork /\ pending.pack = None /\ pending.export = None
    /\ flushing # None =>
        /\ polled = NoUpdates /\ ~busy /\ path # None /\ document # None
        /\ \A f \in flushing : inputs[path][f] # None /\ inputs[path][f].text \in Values

\* What the UI waits for is on its way.
WaitInv ==
    /\ saving <=> Underway("pack", "packed") # {}
    /\ ~stopped =>
        /\ loading <=> Current("load", "loaded") # {}
        /\ expanding <=> Current("expand", "expanded") # {}
        /\ busy <=> Underway("edit", "edited") # {}

\* A load waits with nothing shown; an edit or an expansion is of what is shown.
KindInv ==
    /\ loading => document = None /\ ~busy
    /\ busy => document # None /\ ~expanding
    /\ \A x \in Current("load", "loaded") : x.path = path /\ document = None /\ path # None
    /\ \A x \in Current("expand", "expanded") :
        /\ document # None /\ ~busy
        /\ x.doc # None => x.doc.content = document.content
    /\ \A x \in Underway("edit", "edited") : x.request = request

\* The session of the open file edits the document shown.
ShownInv ==
    /\ document # None <=> path # None /\ sessions[path] # None
    /\ document # None => sessions[path].document = document

\* While a batch is rebuilt, the drafts in it that nobody touched have the text
\* that was sent, and then the text that the answer holds.
SentInv ==
    /\ ~busy => submitted = {}
    /\ \A f \in submitted \ touched :
        /\ inputs[path][f] # None
        /\ \A x \in {pending.edit, work.edit} \ {None} :
            f \in DOMAIN x.patch /\ x.patch[f] = inputs[path][f].text
        /\ \A x \in {updates.edited, polled.edited} \ {None} :
            x.doc # None => x.doc.content[f] = inputs[path][f].text

IInv ==
    /\ TypeOK /\ QueueInv /\ PhaseInv /\ WaitInv /\ KindInv /\ ShownInv /\ SentInv

(***************************************************************************)
(* The worker                                                              *)
(***************************************************************************)

\* The slots of the queues and of the answers are independent.
LEMMA Slots ==
    ASSUME TypeOK
    PROVE  /\ pending.load \in Loads \cup {None} /\ work.load \in Loads \cup {None}
           /\ pending.expand \in Expands \cup {None} /\ work.expand \in Expands \cup {None}
           /\ pending.export \in Paths \cup {None} /\ work.export \in Paths \cup {None}
           /\ pending.edit \in Edits \cup {None} /\ work.edit \in Edits \cup {None}
           /\ pending.pack \in Packs \cup {None} /\ work.pack \in Packs \cup {None}
           /\ updates.loaded \in Loaded \cup {None} /\ polled.loaded \in Loaded \cup {None}
           /\ updates.expanded \in Results \cup {None} /\ polled.expanded \in Results \cup {None}
           /\ updates.edited \in Results \cup {None} /\ polled.edited \in Results \cup {None}
           /\ updates.packed \in Packed \cup {None} /\ polled.packed \in Packed \cup {None}
BY DEF TypeOK, Queues, Mailboxes

\* The worker takes all that is pending at once.
LEMMA TakeStep ==
    ASSUME IInv, Take
    PROVE  IInv'
<1>1. /\ work = NoWork /\ polled = NoUpdates /\ ~exited /\ work' = pending /\ pending' = NoWork
      /\ UNCHANGED <<updates, stopped, exited, disk, polled, view, busy, saving, drafts, flushing>>
  BY DEF Take
<1>2. NoWork \in Queues
  BY DEF NoWork, Queues
<1>3. TypeOK'
  BY <1>1, <1>2 DEF IInv, TypeOK, view, drafts
<1>4. /\ work.load = None /\ work.expand = None /\ work.export = None /\ work.edit = None
      /\ work.pack = None
      /\ pending'.load = None /\ pending'.expand = None /\ pending'.export = None
      /\ pending'.edit = None /\ pending'.pack = None
  BY <1>1 DEF NoWork
<1>5. /\ Underway("load", "loaded")' = Underway("load", "loaded")
      /\ Underway("expand", "expanded")' = Underway("expand", "expanded")
      /\ Underway("edit", "edited")' = Underway("edit", "edited")
      /\ Underway("pack", "packed")' = Underway("pack", "packed")
  BY <1>1, <1>4 DEF Underway
<1>6. /\ Current("load", "loaded")' = Current("load", "loaded")
      /\ Current("expand", "expanded")' = Current("expand", "expanded")
  BY <1>1, <1>5 DEF Current, view
<1>7. QueueInv'
  <2>1. InOrder("load", "loaded")'
    BY <1>1, <1>4, <1>5 DEF IInv, QueueInv, InOrder, Before, view
  <2>2. InOrder("expand", "expanded")'
    BY <1>1, <1>4, <1>5 DEF IInv, QueueInv, InOrder, Before, view
  <2>3. Single("edit", "edited")' /\ Single("pack", "packed")'
    BY <1>1, <1>4 DEF IInv, QueueInv, Single
  <2> QED
    BY <2>1, <2>2, <2>3 DEF QueueInv
<1>8. PhaseInv'
  BY <1>1 DEF IInv, PhaseInv, view, drafts
<1>9. WaitInv' /\ KindInv' /\ ShownInv'
  BY <1>1, <1>5, <1>6 DEF IInv, WaitInv, KindInv, ShownInv, view
<1>10. SentInv'
  BY <1>1, <1>4 DEF IInv, SentInv, view, drafts
<1> QED
  BY <1>3, <1>7, <1>8, <1>9, <1>10 DEF IInv

\* One order is taken off the worker's list; the user's side stays as it is.
LEMMA TurnTaken ==
    ASSUME IInv, NEW k \in {"load", "expand", "export", "edit", "pack"}, Turn(k)
    PROVE  /\ work[k] # None /\ work'[k] = None /\ work' \in Queues
           /\ \A j \in {"load", "expand", "export", "edit", "pack"} \ {k} : work'[j] = work[j]
           /\ polled = NoUpdates /\ ~exited /\ pending' = pending
           /\ UNCHANGED <<pending, stopped, exited, polled, view, busy, saving, drafts, flushing>>
<1>1. /\ work[k] # None /\ work' = [work EXCEPT ![k] = None] /\ polled = NoUpdates
      /\ UNCHANGED <<pending, stopped, exited, polled, view, busy, saving, drafts, flushing>>
  BY DEF Turn
<1>2. work \in Queues
  BY DEF IInv, TypeOK
<1>3. /\ work'[k] = None /\ work' \in Queues
      /\ \A j \in {"load", "expand", "export", "edit", "pack"} \ {k} : work'[j] = work[j]
  BY <1>1, <1>2 DEF Queues
<1>4. ~exited
  BY <1>1 DEF IInv, PhaseInv, NoWork
<1> QED
  BY <1>1, <1>3, <1>4

\* What the user's side keeps while the worker works.
LEMMA UiKept ==
    ASSUME IInv, polled = NoUpdates, work' \in Queues, updates' \in Mailboxes,
           disk' \in [Paths -> Contents \cup {None}], ~exited,
           UNCHANGED <<pending, stopped, exited, polled, view, busy, saving, drafts, flushing>>
    PROVE  TypeOK' /\ PhaseInv' /\ ShownInv'
<1>1. TypeOK'
  BY DEF IInv, TypeOK, view, drafts
<1>2. PhaseInv'
  BY DEF IInv, PhaseInv, view, drafts
<1>3. ShownInv'
  BY DEF IInv, ShownInv, view
<1> QED
  BY <1>1, <1>2, <1>3

\* A load is answered, with the document or without.
LEMMA DoLoadStep ==
    ASSUME IInv, DoLoad
    PROVE  IInv'
<1>1. /\ work.load # None /\ work'.load = None /\ work' \in Queues /\ ~exited /\ ~stopped
      /\ work'.expand = work.expand /\ work'.edit = work.edit /\ work'.pack = work.pack
      /\ polled = NoUpdates /\ disk' = disk
      /\ UNCHANGED <<pending, stopped, exited, polled, view, busy, saving, drafts, flushing>>
  BY TurnTaken DEF DoLoad
<1>2. PICK d \in {[content |-> Source[work.load.path], deep |-> work.load.path \notin Deferred], None} :
        updates' = [updates EXCEPT !["loaded"] =
                        [request |-> work.load.request, path |-> work.load.path, doc |-> d]]
  BY DEF DoLoad, Publish
<1>3. work.load \in Loads /\ updates \in Mailboxes
  BY <1>1, Slots DEF IInv, TypeOK
<1>4. d \in Documents \cup {None}
  <2> DEFINE p == work.load.path
             deferred == p \notin Deferred
  <2>1. p \in Paths
    BY <1>3 DEF Loads
  <2>2. d \in {[content |-> Source[p], deep |-> deferred], None}
    BY <1>2
  <2>3. deferred \in BOOLEAN
    OBVIOUS
  <2> HIDE DEF p, deferred
  <2> QED
    BY <2>1, <2>2, <2>3, SourceAssumption DEF Documents
<1> DEFINE y == [request |-> work.load.request, path |-> work.load.path, doc |-> d]
<1>5. y \in Loaded /\ y.request = work.load.request /\ y.path = work.load.path
  BY <1>3, <1>4 DEF Loads, Loaded
<1>6. updates' = [updates EXCEPT !.loaded = y]
  BY <1>2
<1> HIDE DEF y
<1>7. /\ updates' \in Mailboxes /\ updates'.loaded = y
      /\ updates'.expanded = updates.expanded /\ updates'.edited = updates.edited
      /\ updates'.packed = updates.packed
  BY <1>3, <1>5, <1>6 DEF Mailboxes
<1>8. y # None
  BY <1>5, NoneAssumption
<1>9. polled.loaded = None /\ polled' = polled /\ pending' = pending /\ request' = request
  BY <1>1 DEF NoUpdates, view
<1>10. disk' \in [Paths -> Contents \cup {None}]
  BY <1>1 DEF IInv, TypeOK
<1>11. TypeOK' /\ PhaseInv' /\ ShownInv'
  BY <1>1, <1>7, <1>10, UiKept
<1>12. /\ Underway("expand", "expanded")' = Underway("expand", "expanded")
       /\ Underway("edit", "edited")' = Underway("edit", "edited")
       /\ Underway("pack", "packed")' = Underway("pack", "packed")
       /\ Current("expand", "expanded")' = Current("expand", "expanded")
  BY <1>1, <1>7, <1>9 DEF Underway, Current
<1>13. InOrder("load", "loaded")
  BY DEF IInv, QueueInv
<1>14. work.load.request \in Nat /\ work.load.request <= request
  BY <1>1, <1>3, <1>13 DEF Loads, InOrder, Underway
<1>15. \A x \in Underway("load", "loaded")' : x \in Underway("load", "loaded") \/ x = y
  BY <1>1, <1>7, <1>9 DEF Underway
<1>16. InOrder("load", "loaded")'
  <2>1. \A x \in Underway("load", "loaded")' : x.request <= request'
    BY <1>5, <1>9, <1>13, <1>14, <1>15 DEF InOrder
  <2> QED
    BY <2>1, <1>1, <1>5, <1>7, <1>9, <1>13 DEF InOrder, Before
<1>17. QueueInv'
  <2>1. InOrder("expand", "expanded")'
    BY <1>1, <1>7, <1>9, <1>12 DEF IInv, QueueInv, InOrder
  <2>2. Single("edit", "edited")' /\ Single("pack", "packed")'
    BY <1>1, <1>7, <1>9 DEF IInv, QueueInv, Single
  <2> QED
    BY <1>16, <2>1, <2>2 DEF QueueInv
\* The answer is current when the order was; the answer it replaces was not.
<1>18. Current("load", "loaded")' # {} <=> Current("load", "loaded") # {}
  <2>1. updates.loaded # None => updates.loaded.request < work.load.request
    BY <1>1, <1>13 DEF InOrder, Before
  <2>2. updates.loaded # None => updates.loaded.request \in Nat
    BY Slots DEF IInv, Loaded
  <2>3. request \in Nat
    BY DEF IInv, TypeOK
  <2>4. updates.loaded # None => updates.loaded.request # request
    BY <2>1, <2>2, <2>3, <1>14
  <2>5. Current("load", "loaded") = {x \in {pending.load, work.load} \ {None} : x.request = request}
    BY <2>4, <1>9 DEF Current, Underway
  <2>6. Current("load", "loaded")' = {x \in {pending.load, y} \ {None} : x.request = request}
    BY <1>1, <1>7, <1>9 DEF Current, Underway
  <2> QED
    BY <2>5, <2>6, <1>1, <1>5, <1>8
<1>19. WaitInv'
  BY <1>1, <1>12, <1>18 DEF IInv, WaitInv, view
<1>20. KindInv'
  <2>1. \A x \in Current("load", "loaded")' : x.path = path /\ document = None /\ path # None
    <3>1. work.load.request = request => work.load \in Current("load", "loaded")
      BY <1>1 DEF Current, Underway
    <3>2. \A x \in Current("load", "loaded")' : x \in Current("load", "loaded") \/ x = y
      BY <1>9, <1>15 DEF Current
    <3>3. y \in Current("load", "loaded")' => work.load.request = request
      BY <1>5, <1>9 DEF Current
    <3> QED
      BY <3>1, <3>2, <3>3, <1>5 DEF IInv, KindInv
  <2> QED
    BY <2>1, <1>1, <1>12 DEF IInv, KindInv, view
<1>21. SentInv'
  BY <1>1, <1>7, <1>9 DEF IInv, SentInv, view, drafts
<1> QED
  BY <1>11, <1>17, <1>19, <1>20, <1>21 DEF IInv

\* An expansion is answered.  It has the bytes of the document that was posted.
LEMMA DoExpandStep ==
    ASSUME IInv, DoExpand
    PROVE  IInv'
<1>1. /\ work.expand # None /\ work'.expand = None /\ work' \in Queues /\ ~exited /\ ~stopped
      /\ work'.load = work.load /\ work'.edit = work.edit /\ work'.pack = work.pack
      /\ polled = NoUpdates /\ disk' = disk
      /\ UNCHANGED <<pending, stopped, exited, polled, view, busy, saving, drafts, flushing>>
  BY TurnTaken DEF DoExpand
<1>2. PICK d \in {[work.expand.doc EXCEPT !.deep = TRUE], None} :
        updates' = [updates EXCEPT !["expanded"] = [request |-> work.expand.request, doc |-> d]]
  BY DEF DoExpand, Publish
<1>3. work.expand \in Expands /\ updates \in Mailboxes
  BY <1>1, Slots DEF IInv, TypeOK
<1>4. d \in Documents \cup {None} /\ (d # None => d.content = work.expand.doc.content)
  BY <1>3 DEF Expands, Documents
<1> DEFINE y == [request |-> work.expand.request, doc |-> d]
<1>5. y \in Results /\ y.request = work.expand.request /\ y.doc = d
  BY <1>3, <1>4 DEF Expands, Results
<1>6. updates' = [updates EXCEPT !.expanded = y]
  BY <1>2
<1> HIDE DEF y
<1>7. /\ updates' \in Mailboxes /\ updates'.expanded = y
      /\ updates'.loaded = updates.loaded /\ updates'.edited = updates.edited
      /\ updates'.packed = updates.packed
  BY <1>3, <1>5, <1>6 DEF Mailboxes
<1>8. y # None
  BY <1>5, NoneAssumption
<1>9. polled.expanded = None /\ polled' = polled /\ pending' = pending /\ request' = request
  BY <1>1 DEF NoUpdates, view
<1>10. disk' \in [Paths -> Contents \cup {None}]
  BY <1>1 DEF IInv, TypeOK
<1>11. TypeOK' /\ PhaseInv' /\ ShownInv'
  BY <1>1, <1>7, <1>10, UiKept
<1>12. /\ Underway("load", "loaded")' = Underway("load", "loaded")
       /\ Underway("edit", "edited")' = Underway("edit", "edited")
       /\ Underway("pack", "packed")' = Underway("pack", "packed")
       /\ Current("load", "loaded")' = Current("load", "loaded")
  BY <1>1, <1>7, <1>9 DEF Underway, Current
<1>13. InOrder("expand", "expanded")
  BY DEF IInv, QueueInv
<1>14. work.expand.request \in Nat /\ work.expand.request <= request
  BY <1>1, <1>3, <1>13 DEF Expands, InOrder, Underway
<1>15. \A x \in Underway("expand", "expanded")' : x \in Underway("expand", "expanded") \/ x = y
  BY <1>1, <1>7, <1>9 DEF Underway
<1>16. InOrder("expand", "expanded")'
  <2>1. \A x \in Underway("expand", "expanded")' : x.request <= request'
    BY <1>5, <1>9, <1>13, <1>14, <1>15 DEF InOrder
  <2> QED
    BY <2>1, <1>1, <1>5, <1>7, <1>9, <1>13 DEF InOrder, Before
<1>17. QueueInv'
  <2>1. InOrder("load", "loaded")'
    BY <1>1, <1>7, <1>9, <1>12 DEF IInv, QueueInv, InOrder
  <2>2. Single("edit", "edited")' /\ Single("pack", "packed")'
    BY <1>1, <1>7, <1>9 DEF IInv, QueueInv, Single
  <2> QED
    BY <1>16, <2>1, <2>2 DEF QueueInv
<1>18. Current("expand", "expanded")' # {} <=> Current("expand", "expanded") # {}
  <2>1. updates.expanded # None => updates.expanded.request < work.expand.request
    BY <1>1, <1>13 DEF InOrder, Before
  <2>2. updates.expanded # None => updates.expanded.request \in Nat
    BY Slots DEF IInv, Results
  <2>3. request \in Nat
    BY DEF IInv, TypeOK
  <2>4. updates.expanded # None => updates.expanded.request # request
    BY <2>1, <2>2, <2>3, <1>14
  <2>5. Current("expand", "expanded") =
            {x \in {pending.expand, work.expand} \ {None} : x.request = request}
    BY <2>4, <1>9 DEF Current, Underway
  <2>6. Current("expand", "expanded")' = {x \in {pending.expand, y} \ {None} : x.request = request}
    BY <1>1, <1>7, <1>9 DEF Current, Underway
  <2> QED
    BY <2>5, <2>6, <1>1, <1>5, <1>8
<1>19. WaitInv'
  BY <1>1, <1>12, <1>18 DEF IInv, WaitInv, view
<1>20. KindInv'
  <2>1. \A x \in Current("expand", "expanded")' :
            /\ document # None /\ ~busy
            /\ x.doc # None => x.doc.content = document.content
    <3>1. work.expand.request = request => work.expand \in Current("expand", "expanded")
      BY <1>1 DEF Current, Underway
    <3>2. \A x \in Current("expand", "expanded")' : x \in Current("expand", "expanded") \/ x = y
      BY <1>9, <1>15 DEF Current
    <3>3. y \in Current("expand", "expanded")' => work.expand.request = request
      BY <1>5, <1>9 DEF Current
    <3>4. work.expand.doc # None
      BY <1>3, NoneAssumption DEF Expands
    <3> QED
      BY <3>1, <3>2, <3>3, <3>4, <1>4, <1>5 DEF IInv, KindInv
  <2> QED
    BY <2>1, <1>1, <1>12 DEF IInv, KindInv, view
<1>21. SentInv'
  BY <1>1, <1>7, <1>9 DEF IInv, SentInv, view, drafts
<1> QED
  BY <1>11, <1>17, <1>19, <1>20, <1>21 DEF IInv

\* A rebuild is answered: with a document that holds the patch, or refused.
LEMMA DoEditStep ==
    ASSUME IInv, DoEdit
    PROVE  IInv'
<1>1. /\ work.edit # None /\ work'.edit = None /\ work' \in Queues /\ ~exited /\ ~stopped
      /\ work'.load = work.load /\ work'.expand = work.expand /\ work'.pack = work.pack
      /\ polled = NoUpdates /\ disk' = disk
      /\ UNCHANGED <<pending, stopped, exited, polled, view, busy, saving, drafts, flushing>>
  BY TurnTaken DEF DoEdit
<1>2. PICK d \in Rebuilds(work.edit.doc, work.edit.patch, work.edit.reads) :
        updates' = [updates EXCEPT !["edited"] = [request |-> work.edit.request, doc |-> d]]
  BY DEF DoEdit, Publish
<1>3. work.edit \in Edits /\ updates \in Mailboxes
  BY <1>1, Slots DEF IInv, TypeOK
<1>4. /\ d \in Documents \cup {None}
      /\ d # None => \A f \in DOMAIN work.edit.patch \ {NameCheck} : d.content[f] = work.edit.patch[f]
  <2>1. work.edit.doc \in Documents /\ work.edit.patch \in Patches /\ work.edit.reads \in BOOLEAN
    BY <1>3 DEF Edits
  <2> QED
    BY <2>1, RebuildsDocuments
<1> DEFINE y == [request |-> work.edit.request, doc |-> d]
<1>5. y \in Results /\ y.request = work.edit.request /\ y.doc = d
  BY <1>3, <1>4 DEF Edits, Results
<1>6. updates' = [updates EXCEPT !.edited = y]
  BY <1>2
<1> HIDE DEF y
<1>7. /\ updates' \in Mailboxes /\ updates'.edited = y
      /\ updates'.loaded = updates.loaded /\ updates'.expanded = updates.expanded
      /\ updates'.packed = updates.packed
  BY <1>3, <1>5, <1>6 DEF Mailboxes
<1>8. y # None
  BY <1>5, NoneAssumption
<1>9. /\ polled.edited = None /\ polled' = polled /\ pending' = pending /\ request' = request
  BY <1>1 DEF NoUpdates, view
<1>10. disk' \in [Paths -> Contents \cup {None}]
  BY <1>1 DEF IInv, TypeOK
<1>11. TypeOK' /\ PhaseInv' /\ ShownInv'
  BY <1>1, <1>7, <1>10, UiKept
<1>12. /\ Underway("load", "loaded")' = Underway("load", "loaded")
       /\ Underway("expand", "expanded")' = Underway("expand", "expanded")
       /\ Underway("pack", "packed")' = Underway("pack", "packed")
       /\ Current("load", "loaded")' = Current("load", "loaded")
       /\ Current("expand", "expanded")' = Current("expand", "expanded")
  BY <1>1, <1>7, <1>9 DEF Underway, Current
<1>13. pending.edit = None /\ updates.edited = None
  BY <1>1 DEF IInv, QueueInv, Single
<1>14. Underway("edit", "edited") = {work.edit} /\ Underway("edit", "edited")' = {y}
  BY <1>1, <1>7, <1>8, <1>9, <1>13 DEF Underway
<1>15. QueueInv'
  <2>1. InOrder("load", "loaded")' /\ InOrder("expand", "expanded")'
    BY <1>1, <1>7, <1>9, <1>12 DEF IInv, QueueInv, InOrder
  <2>2. Single("edit", "edited")' /\ Single("pack", "packed")'
    BY <1>1, <1>7, <1>9, <1>13 DEF IInv, QueueInv, Single
  <2> QED
    BY <2>1, <2>2 DEF QueueInv
<1>16. WaitInv'
  BY <1>1, <1>12, <1>14 DEF IInv, WaitInv, view
<1>17. KindInv'
  BY <1>1, <1>5, <1>9, <1>12, <1>14 DEF IInv, KindInv, view
<1>18. SentInv'
  <2>1. SUFFICES ASSUME NEW f \in submitted \ touched, d # None
                 PROVE  d.content[f] = inputs[path][f].text
    BY <1>1, <1>5, <1>7, <1>9, <1>13 DEF IInv, SentInv, view, drafts
  <2>2. f \in DOMAIN work.edit.patch /\ work.edit.patch[f] = inputs[path][f].text
    BY <1>1 DEF IInv, SentInv
  <2>3. f # NameCheck
    BY FieldsAssumption DEF IInv, TypeOK
  <2> QED
    BY <2>1, <2>2, <2>3, <1>4
<1> QED
  BY <1>11, <1>15, <1>16, <1>17, <1>18 DEF IInv

\* A pack is answered, and written if it could be rebuilt.
LEMMA DoPackStep ==
    ASSUME IInv, DoPack
    PROVE  IInv'
<1>1. /\ work.pack # None /\ work'.pack = None /\ work' \in Queues /\ ~exited
      /\ work'.load = work.load /\ work'.expand = work.expand /\ work'.edit = work.edit
      /\ polled = NoUpdates
      /\ UNCHANGED <<pending, stopped, exited, polled, view, busy, saving, drafts, flushing>>
  BY TurnTaken DEF DoPack
<1>2. PICK d \in Rebuilds(work.pack.doc, work.pack.patch, TRUE) :
        /\ updates' = [updates EXCEPT !["packed"] =
                [source |-> work.pack.path, requested |-> work.pack.doc, doc |-> d]]
        /\ disk' = IF d = None THEN disk ELSE [disk EXCEPT ![work.pack.path] = d.content]
  BY DEF DoPack, Publish
<1>3. /\ work.pack \in Packs /\ updates \in Mailboxes
      /\ disk \in [Paths -> Contents \cup {None}]
  BY <1>1, Slots DEF IInv, TypeOK
<1>4. work.pack.path \in Paths /\ work.pack.doc \in Documents /\ work.pack.patch \in Patches
  BY <1>3 DEF Packs
<1>5. d \in Documents \cup {None}
  BY <1>4, RebuildsDocuments
<1> DEFINE y == [source |-> work.pack.path, requested |-> work.pack.doc, doc |-> d]
<1>6. y \in Packed
  BY <1>4, <1>5 DEF Packed
<1>7. updates' = [updates EXCEPT !.packed = y]
  BY <1>2
<1> HIDE DEF y
<1>8. /\ updates' \in Mailboxes /\ updates'.packed = y
      /\ updates'.loaded = updates.loaded /\ updates'.expanded = updates.expanded
      /\ updates'.edited = updates.edited
  BY <1>3, <1>6, <1>7 DEF Mailboxes
<1>9. y # None
  BY <1>6, NoneAssumption
<1>10. /\ polled.packed = None /\ polled' = polled /\ pending' = pending /\ request' = request
  BY <1>1 DEF NoUpdates, view
<1>11. disk' \in [Paths -> Contents \cup {None}]
  BY <1>2, <1>3, <1>4, <1>5 DEF Documents
<1>12. TypeOK' /\ PhaseInv' /\ ShownInv'
  BY <1>1, <1>8, <1>11, UiKept
<1>13. /\ Underway("load", "loaded")' = Underway("load", "loaded")
       /\ Underway("expand", "expanded")' = Underway("expand", "expanded")
       /\ Underway("edit", "edited")' = Underway("edit", "edited")
       /\ Current("load", "loaded")' = Current("load", "loaded")
       /\ Current("expand", "expanded")' = Current("expand", "expanded")
  BY <1>1, <1>8, <1>10 DEF Underway, Current
<1>14. pending.pack = None /\ updates.packed = None
  BY <1>1 DEF IInv, QueueInv, Single
<1>15. Underway("pack", "packed") = {work.pack} /\ Underway("pack", "packed")' = {y}
  BY <1>1, <1>8, <1>9, <1>10, <1>14 DEF Underway
<1>16. QueueInv'
  <2>1. InOrder("load", "loaded")' /\ InOrder("expand", "expanded")'
    BY <1>1, <1>8, <1>10, <1>13 DEF IInv, QueueInv, InOrder
  <2>2. Single("edit", "edited")' /\ Single("pack", "packed")'
    BY <1>1, <1>8, <1>10, <1>14 DEF IInv, QueueInv, Single
  <2> QED
    BY <2>1, <2>2 DEF QueueInv
<1>17. WaitInv'
  BY <1>1, <1>13, <1>15 DEF IInv, WaitInv, view
<1>18. KindInv'
  BY <1>1, <1>10, <1>13 DEF IInv, KindInv, view
<1>19. SentInv'
  BY <1>1, <1>8, <1>10 DEF IInv, SentInv, view, drafts
<1> QED
  BY <1>12, <1>16, <1>17, <1>18, <1>19 DEF IInv

\* An export changes nothing that is modelled; a stopped worker drops what it skips.
LEMMA DroppedStep ==
    ASSUME IInv, NEW k \in {"load", "expand", "export", "edit", "pack"}, Turn(k),
           k = "export" \/ (k # "pack" /\ stopped), UNCHANGED <<updates, disk>>
    PROVE  IInv'
<1>1. /\ work'[k] = None /\ work' \in Queues /\ ~exited
      /\ \A j \in {"load", "expand", "export", "edit", "pack"} \ {k} : work'[j] = work[j]
      /\ polled = NoUpdates /\ updates' = updates /\ disk' = disk
      /\ UNCHANGED <<pending, stopped, exited, polled, view, busy, saving, drafts, flushing>>
  BY TurnTaken
<1>2. TypeOK' /\ PhaseInv' /\ ShownInv'
  <2>1. updates' \in Mailboxes /\ disk' \in [Paths -> Contents \cup {None}]
    BY <1>1 DEF IInv, TypeOK
  <2> QED
    BY <1>1, <2>1, UiKept
<1>3. /\ work'.load = work.load \/ (stopped /\ work'.load = None)
      /\ work'.expand = work.expand \/ (stopped /\ work'.expand = None)
      /\ work'.edit = work.edit \/ (stopped /\ work'.edit = None)
      /\ work'.pack = work.pack
  BY <1>1
<1>4. request' = request /\ polled' = polled /\ pending' = pending
  BY <1>1 DEF view
<1>5. /\ Underway("load", "loaded")' \subseteq Underway("load", "loaded")
      /\ Underway("expand", "expanded")' \subseteq Underway("expand", "expanded")
      /\ Underway("edit", "edited")' \subseteq Underway("edit", "edited")
      /\ Underway("pack", "packed")' = Underway("pack", "packed")
  BY <1>1, <1>3, <1>4 DEF Underway
<1>6. ~stopped => /\ Underway("load", "loaded")' = Underway("load", "loaded")
                  /\ Underway("expand", "expanded")' = Underway("expand", "expanded")
                  /\ Underway("edit", "edited")' = Underway("edit", "edited")
  BY <1>1, <1>3, <1>4 DEF Underway
<1>7. QueueInv'
  <2>1. InOrder("load", "loaded")'
    BY <1>1, <1>3, <1>4, <1>5 DEF IInv, QueueInv, InOrder, Before
  <2>2. InOrder("expand", "expanded")'
    BY <1>1, <1>3, <1>4, <1>5 DEF IInv, QueueInv, InOrder, Before
  <2>3. Single("edit", "edited")' /\ Single("pack", "packed")'
    BY <1>1, <1>3, <1>4 DEF IInv, QueueInv, Single
  <2> QED
    BY <2>1, <2>2, <2>3 DEF QueueInv
<1>8. WaitInv'
  BY <1>1, <1>4, <1>5, <1>6 DEF IInv, WaitInv, view, Current
<1>9. KindInv'
  BY <1>1, <1>4, <1>5 DEF IInv, KindInv, view, Current
<1>10. SentInv'
  BY <1>1, <1>3, <1>4 DEF IInv, SentInv, view, drafts
<1> QED
  BY <1>2, <1>7, <1>8, <1>9, <1>10 DEF IInv

\* The worker ends when nothing accepted is left.
LEMMA ExitStep ==
    ASSUME IInv, Exit
    PROVE  IInv'
<1>1. /\ work = NoWork /\ stopped /\ exited' = TRUE /\ pending.pack = None /\ pending.export = None
      /\ UNCHANGED <<pending, work, updates, stopped, disk,
                     polled, view, busy, saving, drafts, flushing>>
  BY DEF Exit
<1>2. TypeOK'
  BY <1>1 DEF IInv, TypeOK, view, drafts
<1>3. QueueInv' /\ WaitInv' /\ KindInv' /\ ShownInv' /\ SentInv'
  BY <1>1 DEF IInv, QueueInv, WaitInv, KindInv, ShownInv, SentInv, InOrder, Single,
              Underway, Current, view, drafts
<1>4. PhaseInv'
  BY <1>1 DEF IInv, PhaseInv, view, drafts
<1> QED
  BY <1>2, <1>3, <1>4 DEF IInv

\* Every step of the worker keeps the invariant.
LEMMA WorkerStep ==
    ASSUME IInv, Worker
    PROVE  IInv'
<1>1. CASE DoExport
  BY <1>1, DroppedStep DEF DoExport
<1>2. ASSUME NEW k \in DOMAIN NoWork, Skip(k) PROVE IInv'
  <2>1. k \in {"load", "expand", "edit"} /\ stopped /\ Turn(k) /\ UNCHANGED <<updates, disk>>
    BY <1>2 DEF Skip
  <2> QED
    BY <2>1, DroppedStep
<1> QED
  BY <1>1, <1>2, TakeStep, ExitStep, DoLoadStep, DoExpandStep, DoEditStep, DoPackStep DEF Worker

(***************************************************************************)
(* The answers                                                             *)
(***************************************************************************)

\* Numbers are natural, and what is under way has none of the future.
LEMMA Numbered ==
    ASSUME IInv
    PROVE  /\ request \in Nat /\ request + 1 \in Nat
           /\ \A x \in Underway("load", "loaded") \cup Underway("expand", "expanded") :
                x.request \in Nat /\ x.request <= request /\ x.request # request + 1
<1>1. request \in Nat
  BY DEF IInv, TypeOK
<1>2. \A x \in Underway("load", "loaded") : x.request \in Nat
  BY Slots DEF IInv, Underway, Loads, Loaded
<1>3. \A x \in Underway("expand", "expanded") : x.request \in Nat
  BY Slots DEF IInv, Underway, Expands, Results
<1>4. \A x \in Underway("load", "loaded") \cup Underway("expand", "expanded") : x.request <= request
  BY DEF IInv, QueueInv, InOrder
<1>5. \A n \in Nat : n <= request => n # request + 1
  BY <1>1
<1> QED
  BY <1>1, <1>2, <1>3, <1>4, <1>5

\* The UI takes all the answers at once.
LEMMA PollStep ==
    ASSUME IInv, Poll
    PROVE  IInv'
<1>1. /\ polled = NoUpdates /\ flushing = None /\ ~stopped
      /\ polled' = updates /\ updates' = NoUpdates
      /\ UNCHANGED <<pending, work, stopped, exited, disk, view, busy, saving, drafts, flushing>>
  BY DEF Poll, Idle, Quiet
<1>2. NoUpdates \in Mailboxes
  BY DEF NoUpdates, Mailboxes
<1>3. TypeOK'
  BY <1>1, <1>2 DEF IInv, TypeOK, view, drafts
<1>4. /\ polled.loaded = None /\ polled.expanded = None /\ polled.edited = None
      /\ polled.packed = None
      /\ updates'.loaded = None /\ updates'.expanded = None /\ updates'.edited = None
      /\ updates'.packed = None
  BY <1>1 DEF NoUpdates
<1>5. /\ Underway("load", "loaded")' = Underway("load", "loaded")
      /\ Underway("expand", "expanded")' = Underway("expand", "expanded")
      /\ Underway("edit", "edited")' = Underway("edit", "edited")
      /\ Underway("pack", "packed")' = Underway("pack", "packed")
  BY <1>1, <1>4 DEF Underway
<1>6. /\ Current("load", "loaded")' = Current("load", "loaded")
      /\ Current("expand", "expanded")' = Current("expand", "expanded")
  BY <1>1, <1>5 DEF Current, view
<1>7. QueueInv'
  <2>1. InOrder("load", "loaded")'
    BY <1>1, <1>4, <1>5 DEF IInv, QueueInv, InOrder, Before, view
  <2>2. InOrder("expand", "expanded")'
    BY <1>1, <1>4, <1>5 DEF IInv, QueueInv, InOrder, Before, view
  <2>3. Single("edit", "edited")' /\ Single("pack", "packed")'
    BY <1>1, <1>4 DEF IInv, QueueInv, Single
  <2> QED
    BY <2>1, <2>2, <2>3 DEF QueueInv
<1>8. PhaseInv'
  BY <1>1 DEF IInv, PhaseInv, view, drafts
<1>9. WaitInv' /\ KindInv' /\ ShownInv'
  BY <1>1, <1>5, <1>6 DEF IInv, WaitInv, KindInv, ShownInv, view
<1>10. SentInv'
  BY <1>1, <1>4 DEF IInv, SentInv, view, drafts
<1> QED
  BY <1>3, <1>7, <1>8, <1>9, <1>10 DEF IInv

\* An answer is taken out of the poll, before anything else of the UI and of the worker.
LEMMA AnswerTaken ==
    ASSUME IInv, NEW k \in {"loaded", "expanded", "edited", "packed"}, Process(k)
    PROVE  /\ polled[k] # None /\ polled'[k] = None /\ polled' \in Mailboxes
           /\ \A j \in {"loaded", "expanded", "edited", "packed"} \ {k} : polled'[j] = polled[j]
           /\ ~stopped /\ ~exited /\ flushing = None
           /\ UNCHANGED <<pending, work, updates, stopped, exited, disk, flushing>>
<1>1. /\ polled[k] # None /\ polled' = [polled EXCEPT ![k] = None]
      /\ UNCHANGED <<pending, work, updates, stopped, exited, disk, flushing>>
  BY DEF Process, shared
<1>2. polled \in Mailboxes
  BY DEF IInv, TypeOK
<1>3. /\ polled'[k] = None /\ polled' \in Mailboxes
      /\ \A j \in {"loaded", "expanded", "edited", "packed"} \ {k} : polled'[j] = polled[j]
  BY <1>1, <1>2 DEF Mailboxes
<1>4. polled # NoUpdates
  BY <1>1 DEF NoUpdates
<1>5. ~stopped /\ ~exited /\ flushing = None
  BY <1>4 DEF IInv, PhaseInv
<1> QED
  BY <1>1, <1>3, <1>5

\* Whatever an answer does, the pipelines of loads, expansions, edits and packs keep
\* their order, and get shorter by the answer.
LEMMA AnswerQueues ==
    ASSUME IInv, NEW k \in {"loaded", "expanded", "edited", "packed"}, Process(k),
           request' \in {request, request + 1}
    PROVE  /\ QueueInv'
           /\ Underway("load", "loaded")' = IF k = "loaded" THEN Underway("load", "loaded") \ {polled[k]}
                                            ELSE Underway("load", "loaded")
           /\ Underway("expand", "expanded")' =
                    IF k = "expanded" THEN Underway("expand", "expanded") \ {polled[k]}
                    ELSE Underway("expand", "expanded")
           /\ Underway("edit", "edited")' = IF k = "edited" THEN {} ELSE Underway("edit", "edited")
           /\ Underway("pack", "packed")' = IF k = "packed" THEN {} ELSE Underway("pack", "packed")
<1>1. /\ polled[k] # None /\ polled'[k] = None
      /\ \A j \in {"loaded", "expanded", "edited", "packed"} \ {k} : polled'[j] = polled[j]
      /\ pending' = pending /\ work' = work /\ updates' = updates
  BY AnswerTaken
<1>2. /\ InOrder("load", "loaded") /\ InOrder("expand", "expanded")
      /\ Single("edit", "edited") /\ Single("pack", "packed")
  BY DEF IInv, QueueInv
<1>3. /\ request \in Nat /\ request' \in Nat /\ request <= request'
      /\ \A x \in Underway("load", "loaded") \cup Underway("expand", "expanded") : x.request \in Nat
  BY Numbered
<1>4. CASE k = "loaded"
  <2>1. /\ polled'.loaded = None /\ polled'.expanded = polled.expanded
        /\ polled'.edited = polled.edited /\ polled'.packed = polled.packed
    BY <1>1, <1>4
  <2>2. \A x \in {pending.load, work.load, updates.loaded} \ {None} : x # polled.loaded
    <3>1. \A x \in {pending.load, work.load, updates.loaded} \ {None} :
              polled.loaded.request < x.request
      BY <1>1, <1>2, <1>4 DEF InOrder, Before
    <3>2. polled.loaded.request \in Nat
      BY <1>1, <1>3, <1>4 DEF Underway
    <3>3. ~(polled.loaded.request < polled.loaded.request)
      BY <3>2
    <3> QED
      BY <3>1, <3>3
  <2>3. Underway("load", "loaded")' = Underway("load", "loaded") \ {polled.loaded}
    BY <1>1, <2>1, <2>2 DEF Underway
  <2>4. /\ Underway("expand", "expanded")' = Underway("expand", "expanded")
        /\ Underway("edit", "edited")' = Underway("edit", "edited")
        /\ Underway("pack", "packed")' = Underway("pack", "packed")
    BY <1>1, <2>1 DEF Underway
  <2>5. /\ \A x \in Underway("load", "loaded")' : x.request <= request'
        /\ \A x \in Underway("expand", "expanded")' : x.request <= request'
    BY <1>2, <1>3, <2>3, <2>4 DEF InOrder
  <2>6. InOrder("load", "loaded")' /\ InOrder("expand", "expanded")'
    BY <1>1, <1>2, <2>1, <2>5 DEF InOrder, Before
  <2>7. Single("edit", "edited")' /\ Single("pack", "packed")'
    BY <1>1, <1>2, <2>1 DEF Single
  <2> QED
    BY <1>4, <2>3, <2>4, <2>6, <2>7 DEF QueueInv
<1>5. CASE k = "expanded"
  <2>1. /\ polled'.expanded = None /\ polled'.loaded = polled.loaded
        /\ polled'.edited = polled.edited /\ polled'.packed = polled.packed
    BY <1>1, <1>5
  <2>2. \A x \in {pending.expand, work.expand, updates.expanded} \ {None} : x # polled.expanded
    <3>1. \A x \in {pending.expand, work.expand, updates.expanded} \ {None} :
              polled.expanded.request < x.request
      BY <1>1, <1>2, <1>5 DEF InOrder, Before
    <3>2. polled.expanded.request \in Nat
      BY <1>1, <1>3, <1>5 DEF Underway
    <3>3. ~(polled.expanded.request < polled.expanded.request)
      BY <3>2
    <3> QED
      BY <3>1, <3>3
  <2>3. Underway("expand", "expanded")' = Underway("expand", "expanded") \ {polled.expanded}
    BY <1>1, <2>1, <2>2 DEF Underway
  <2>4. /\ Underway("load", "loaded")' = Underway("load", "loaded")
        /\ Underway("edit", "edited")' = Underway("edit", "edited")
        /\ Underway("pack", "packed")' = Underway("pack", "packed")
    BY <1>1, <2>1 DEF Underway
  <2>5. /\ \A x \in Underway("load", "loaded")' : x.request <= request'
        /\ \A x \in Underway("expand", "expanded")' : x.request <= request'
    BY <1>2, <1>3, <2>3, <2>4 DEF InOrder
  <2>6. InOrder("load", "loaded")' /\ InOrder("expand", "expanded")'
    BY <1>1, <1>2, <2>1, <2>5 DEF InOrder, Before
  <2>7. Single("edit", "edited")' /\ Single("pack", "packed")'
    BY <1>1, <1>2, <2>1 DEF Single
  <2> QED
    BY <1>5, <2>3, <2>4, <2>6, <2>7 DEF QueueInv
<1>6. CASE k = "edited"
  <2>1. /\ polled'.edited = None /\ polled'.loaded = polled.loaded
        /\ polled'.expanded = polled.expanded /\ polled'.packed = polled.packed
    BY <1>1, <1>6
  <2>2. pending.edit = None /\ work.edit = None /\ updates.edited = None
    BY <1>1, <1>2, <1>6 DEF Single
  <2>3. Underway("edit", "edited")' = {}
    BY <1>1, <2>1, <2>2 DEF Underway
  <2>4. /\ Underway("load", "loaded")' = Underway("load", "loaded")
        /\ Underway("expand", "expanded")' = Underway("expand", "expanded")
        /\ Underway("pack", "packed")' = Underway("pack", "packed")
    BY <1>1, <2>1 DEF Underway
  <2>5. /\ \A x \in Underway("load", "loaded")' : x.request <= request'
        /\ \A x \in Underway("expand", "expanded")' : x.request <= request'
    BY <1>2, <1>3, <2>4 DEF InOrder
  <2>6. InOrder("load", "loaded")' /\ InOrder("expand", "expanded")'
    BY <1>1, <1>2, <2>1, <2>5 DEF InOrder, Before
  <2>7. Single("edit", "edited")' /\ Single("pack", "packed")'
    BY <1>1, <1>2, <2>1 DEF Single
  <2> QED
    BY <1>6, <2>3, <2>4, <2>6, <2>7 DEF QueueInv
<1>7. CASE k = "packed"
  <2>1. /\ polled'.packed = None /\ polled'.loaded = polled.loaded
        /\ polled'.expanded = polled.expanded /\ polled'.edited = polled.edited
    BY <1>1, <1>7
  <2>2. pending.pack = None /\ work.pack = None /\ updates.packed = None
    BY <1>1, <1>2, <1>7 DEF Single
  <2>3. Underway("pack", "packed")' = {}
    BY <1>1, <2>1, <2>2 DEF Underway
  <2>4. /\ Underway("load", "loaded")' = Underway("load", "loaded")
        /\ Underway("expand", "expanded")' = Underway("expand", "expanded")
        /\ Underway("edit", "edited")' = Underway("edit", "edited")
    BY <1>1, <2>1 DEF Underway
  <2>5. /\ \A x \in Underway("load", "loaded")' : x.request <= request'
        /\ \A x \in Underway("expand", "expanded")' : x.request <= request'
    BY <1>2, <1>3, <2>4 DEF InOrder
  <2>6. InOrder("load", "loaded")' /\ InOrder("expand", "expanded")'
    BY <1>1, <1>2, <2>1, <2>5 DEF InOrder, Before
  <2>7. Single("edit", "edited")' /\ Single("pack", "packed")'
    BY <1>1, <1>2, <2>1 DEF Single
  <2> QED
    BY <1>7, <2>3, <2>4, <2>6, <2>7 DEF QueueInv
<1> QED
  BY <1>4, <1>5, <1>6, <1>7

\* At most the answer that is processed is current of its kind.
LEMMA OnlyCurrent ==
    ASSUME IInv
    PROVE  /\ polled.loaded # None /\ polled.loaded.request = request =>
                Current("load", "loaded") = {polled.loaded}
           /\ polled.expanded # None /\ polled.expanded.request = request =>
                Current("expand", "expanded") = {polled.expanded}
<1>1. InOrder("load", "loaded") /\ InOrder("expand", "expanded")
  BY DEF IInv, QueueInv
<1>2. /\ request \in Nat
      /\ \A x \in Underway("load", "loaded") \cup Underway("expand", "expanded") :
            x.request \in Nat /\ x.request <= request
  BY Numbered
<1>3. ASSUME polled.loaded # None, polled.loaded.request = request
      PROVE  Current("load", "loaded") = {polled.loaded}
  <2>1. polled.loaded \in Current("load", "loaded")
    BY <1>3 DEF Current, Underway
  <2>2. ASSUME NEW x \in Underway("load", "loaded"), x # polled.loaded
        PROVE  x.request # request
    <3>1. request < x.request
      BY <1>1, <1>3, <2>2 DEF InOrder, Before, Underway
    <3> QED
      BY <3>1, <1>2
  <2> QED
    BY <2>1, <2>2 DEF Current
<1>4. ASSUME polled.expanded # None, polled.expanded.request = request
      PROVE  Current("expand", "expanded") = {polled.expanded}
  <2>1. polled.expanded \in Current("expand", "expanded")
    BY <1>4 DEF Current, Underway
  <2>2. ASSUME NEW x \in Underway("expand", "expanded"), x # polled.expanded
        PROVE  x.request # request
    <3>1. request < x.request
      BY <1>1, <1>4, <2>2 DEF InOrder, Before, Underway
    <3> QED
      BY <3>1, <1>2
  <2> QED
    BY <2>1, <2>2 DEF Current
<1> QED
  BY <1>3, <1>4

\* An answer with an old number changes nothing; there is none to an edit.
LEMMA DropStaleStep ==
    ASSUME IInv, NEW k \in DOMAIN NoUpdates, DropStale(k)
    PROVE  IInv'
<1>1. /\ k \in {"loaded", "expanded", "edited"} /\ Process(k) /\ polled[k].request # request
      /\ UNCHANGED <<view, busy, saving, drafts>>
  BY DEF DropStale, NoUpdates
<1>2. /\ polled[k] # None /\ polled' \in Mailboxes /\ ~stopped /\ ~exited /\ flushing = None
      /\ polled'[k] = None
      /\ \A j \in {"loaded", "expanded", "edited", "packed"} \ {k} : polled'[j] = polled[j]
      /\ UNCHANGED <<pending, work, updates, stopped, exited, disk, flushing>>
  BY <1>1, AnswerTaken
<1>3. k # "edited"
  BY <1>1, <1>2 DEF IInv, KindInv, Underway
<1>4. /\ QueueInv'
      /\ Underway("load", "loaded")' = IF k = "loaded" THEN Underway("load", "loaded") \ {polled[k]}
                                       ELSE Underway("load", "loaded")
      /\ Underway("expand", "expanded")' =
               IF k = "expanded" THEN Underway("expand", "expanded") \ {polled[k]}
               ELSE Underway("expand", "expanded")
      /\ Underway("edit", "edited")' = Underway("edit", "edited")
      /\ Underway("pack", "packed")' = Underway("pack", "packed")
  <2>1. request' \in {request, request + 1}
    BY <1>1 DEF view
  <2> QED
    BY <1>1, <1>3, <2>1, AnswerQueues
<1>5. /\ Current("load", "loaded")' = Current("load", "loaded")
      /\ Current("expand", "expanded")' = Current("expand", "expanded")
  BY <1>1, <1>4 DEF Current, view
<1>6. TypeOK'
  BY <1>1, <1>2 DEF IInv, TypeOK, view, drafts
<1>7. PhaseInv'
  BY <1>2 DEF IInv, PhaseInv
<1>8. WaitInv' /\ KindInv' /\ ShownInv'
  BY <1>1, <1>2, <1>4, <1>5 DEF IInv, WaitInv, KindInv, ShownInv, view
<1>9. SentInv'
  <2>1. polled'.edited = polled.edited
    BY <1>2, <1>3
  <2> QED
    BY <2>1, <1>1, <1>2 DEF IInv, SentInv, view, drafts
<1> QED
  BY <1>4, <1>6, <1>7, <1>8, <1>9 DEF IInv

\* A load is accepted: the file is the one that was chosen last, and had no session.
LEMMA FinishLoadStep ==
    ASSUME IInv, FinishLoad
    PROVE  /\ IInv' /\ path' = path /\ sessions[path] = None
           /\ \A p \in Paths : p # path => sessions'[p] = sessions[p]
           /\ UNCHANGED <<inputs>>
<1>1. /\ Process("loaded") /\ polled.loaded.request = request
      /\ loading' = FALSE /\ expanding' = FALSE
      /\ path' = polled.loaded.path /\ document' = polled.loaded.doc
      /\ sessions' = IF polled.loaded.doc = None THEN sessions
                     ELSE [sessions EXCEPT ![path'] = NewSession(polled.loaded.doc)]
      /\ UNCHANGED <<request, next_path, busy, saving, drafts>>
  BY DEF FinishLoad
<1>2. /\ polled.loaded # None /\ polled' \in Mailboxes /\ ~stopped /\ ~exited /\ flushing = None
      /\ polled'.edited = polled.edited
      /\ UNCHANGED <<pending, work, updates, stopped, exited, disk, flushing>>
  BY <1>1, AnswerTaken
<1>3. /\ QueueInv'
      /\ Underway("load", "loaded")' = Underway("load", "loaded") \ {polled.loaded}
      /\ Underway("expand", "expanded")' = Underway("expand", "expanded")
      /\ Underway("edit", "edited")' = Underway("edit", "edited")
      /\ Underway("pack", "packed")' = Underway("pack", "packed")
  BY <1>1, AnswerQueues
<1>4. Current("load", "loaded") = {polled.loaded}
  BY <1>1, <1>2, OnlyCurrent
<1>5. path' = path /\ path # None /\ document = None /\ path \in Paths
  BY <1>1, <1>4 DEF IInv, KindInv, TypeOK
<1>6. sessions[path] = None /\ ~busy
  BY <1>5 DEF IInv, ShownInv, KindInv
<1>7. Current("load", "loaded")' = {} /\ Current("expand", "expanded")' = {}
  <2>1. Current("load", "loaded")' = {}
    BY <1>1, <1>3, <1>4 DEF Current
  <2>2. Current("expand", "expanded") = {}
    BY <1>5 DEF IInv, KindInv
  <2> QED
    BY <2>1, <2>2, <1>1, <1>3 DEF Current
<1> DEFINE d == polled.loaded.doc
<1>8. d \in Documents \cup {None} /\ document' = d
  BY <1>1, <1>2, Slots DEF IInv, Loaded
<1>9. /\ sessions \in [Paths -> Sessions \cup {None}]
      /\ \A p \in Paths : sessions[p] # None => Trimmed(sessions[p])
  BY DEF IInv, TypeOK
<1>10. ASSUME d = None
       PROVE  TypeOK' /\ ShownInv' /\ \A p \in Paths : p # path => sessions'[p] = sessions[p]
  <2>1. sessions' = sessions
    BY <1>1, <1>10
  <2>2. TypeOK'
    BY <2>1, <1>1, <1>2, <1>5, <1>8 DEF IInv, TypeOK, drafts
  <2>3. ShownInv'
    BY <2>1, <1>5, <1>6, <1>8, <1>10 DEF ShownInv
  <2> QED
    BY <2>1, <2>2, <2>3
<1>11. ASSUME d # None
       PROVE  TypeOK' /\ ShownInv' /\ \A p \in Paths : p # path => sessions'[p] = sessions[p]
  <2>1. /\ NewSession(d) \in Sessions /\ NewSession(d).document = d /\ Trimmed(NewSession(d))
        /\ NewSession(d) # None
    BY <1>8, <1>11, SessionCreated, NoneAssumption
  <2>2. sessions' = [sessions EXCEPT ![path] = NewSession(d)]
    BY <1>1, <1>5, <1>11
  <2> HIDE DEF d
  <2>3. /\ sessions' \in [Paths -> Sessions \cup {None}]
        /\ \A p \in Paths : sessions'[p] # None => Trimmed(sessions'[p])
        /\ sessions'[path] = NewSession(d)
        /\ \A p \in Paths : p # path => sessions'[p] = sessions[p]
    BY <2>1, <2>2, <1>5, <1>9
  <2>4. TypeOK'
    BY <2>3, <1>1, <1>2, <1>5, <1>8 DEF IInv, TypeOK, drafts
  <2>5. ShownInv'
    BY <2>1, <2>3, <1>5, <1>8, <1>11 DEF ShownInv
  <2> QED
    BY <2>3, <2>4, <2>5
<1>12. PhaseInv'
  BY <1>2 DEF IInv, PhaseInv
<1>13. WaitInv'
  <2>1. Underway("edit", "edited") = {}
    BY <1>2, <1>6 DEF IInv, WaitInv
  <2> QED
    BY <2>1, <1>1, <1>2, <1>3, <1>6, <1>7 DEF IInv, WaitInv
<1>14. KindInv'
  BY <1>1, <1>3, <1>6, <1>7 DEF IInv, KindInv
<1>15. SentInv'
  <2>1. submitted' = {}
    BY <1>1, <1>6 DEF IInv, SentInv, drafts
  <2> QED
    BY <2>1 DEF SentInv
<1>16. TypeOK' /\ ShownInv' /\ \A p \in Paths : p # path => sessions'[p] = sessions[p]
  BY <1>10, <1>11
<1> QED
  BY <1>1, <1>3, <1>5, <1>6, <1>12, <1>13, <1>14, <1>15, <1>16 DEF IInv, drafts

\* What DraftsKept and HistoryKept ask of a step.
DraftsSafe ==
    \A p \in Paths, f \in Drafts :
        inputs[p][f] # None /\ inputs[p][f].pending =>
            \/ inputs'[p][f] # None /\ inputs'[p][f].pending
            \/ path' = p /\ document'.content[f] = inputs[p][f].text
            \/ Withdrawn(p, f)
HistorySafe ==
    \A p \in Paths : sessions[p] # None =>
        IF sessions'[p] = None THEN ~Dirty(sessions[p]) /\ sessions[p].undo = <<>>
        ELSE Recalled(sessions[p], sessions'[p])

\* Drafts that stay as they are.
LEMMA DraftsUntouched ==
    ASSUME inputs' = inputs
    PROVE  DraftsSafe
BY DEF DraftsSafe

\* Histories that stay as they are.
LEMMA SessionsUntouched ==
    ASSUME sessions' = sessions
    PROVE  HistorySafe
BY DEF HistorySafe, Recalled

\* The history of one session is safe, and the others stay as they are.
LEMMA OneSession ==
    ASSUME NEW p \in Paths, sessions[p] # None, sessions'[p] # None,
           Recalled(sessions[p], sessions'[p]),
           \A q \in Paths : q # p => sessions'[q] = sessions[q]
    PROVE  HistorySafe
BY DEF HistorySafe, Recalled

\* What is shown is the document of the session.
LEMMA DocumentOfSession ==
    ASSUME IInv, document # None
    PROVE  /\ path \in Paths /\ document \in Documents
           /\ sessions[path] \in Sessions /\ sessions[path] # None /\ Trimmed(sessions[path])
           /\ sessions[path].document = document
BY DEF IInv, TypeOK, ShownInv

\* A document is shown: it becomes the session's, whose history stays.
LEMMA ShowShows ==
    ASSUME path \in Paths, path' = path, NEW d \in Documents, NEW ss \in [Paths -> Sessions \cup {None}],
           \A p \in Paths : ss[p] # None => Trimmed(ss[p]), ss[path] # None, Show(d, ss)
    PROVE  /\ document' = d /\ sessions' \in [Paths -> Sessions \cup {None}]
           /\ \A p \in Paths : sessions'[p] # None => Trimmed(sessions'[p])
           /\ \A p \in Paths : p # path => sessions'[p] = ss[p]
           /\ sessions'[path] # None /\ sessions'[path].document = d
           /\ sessions'[path].undo = ss[path].undo /\ sessions'[path].redo = ss[path].redo
           /\ ShownInv'
<1> DEFINE s == ss[path]
           t == [s EXCEPT !.document = d]
<1>1. s \in Sessions /\ Trimmed(s)
  OBVIOUS
<1>2. document' = d /\ sessions' = [ss EXCEPT ![path] = t]
  BY DEF Show
<1>3. /\ t \in Sessions /\ Trimmed(t) /\ t.document = d /\ t.undo = s.undo /\ t.redo = s.redo
      /\ t # None
  <2> HIDE DEF s
  <2> QED
    BY <1>1, DocumentShown, NoneAssumption
<1> HIDE DEF t
<1>4. /\ sessions' \in [Paths -> Sessions \cup {None}] /\ sessions'[path] = t
      /\ \A p \in Paths : p # path => sessions'[p] = ss[p]
  BY <1>2, <1>3
<1>5. \A p \in Paths : sessions'[p] # None => Trimmed(sessions'[p])
  BY <1>3, <1>4
<1>6. ShownInv'
  BY <1>2, <1>3, <1>4, NoneAssumption DEF ShownInv
<1> QED
  BY <1>2, <1>3, <1>4, <1>5, <1>6

\* An expansion is accepted: the bytes shown stay the same.
LEMMA FinishExpandStep ==
    ASSUME IInv, FinishExpand
    PROVE  IInv' /\ HistorySafe /\ inputs' = inputs
<1>1. /\ Process("expanded") /\ polled.expanded.request = request /\ expanding' = FALSE
      /\ IF polled.expanded.doc = None THEN UNCHANGED <<document, sessions>>
         ELSE Show(polled.expanded.doc, sessions)
      /\ UNCHANGED <<request, path, loading, next_path, busy, saving, drafts>>
  BY DEF FinishExpand
<1>2. /\ polled.expanded # None /\ polled' \in Mailboxes /\ ~stopped /\ ~exited /\ flushing = None
      /\ polled'.edited = polled.edited
      /\ UNCHANGED <<pending, work, updates, stopped, exited, disk, flushing>>
  BY <1>1, AnswerTaken
<1>3. /\ QueueInv'
      /\ Underway("load", "loaded")' = Underway("load", "loaded")
      /\ Underway("expand", "expanded")' = Underway("expand", "expanded") \ {polled.expanded}
      /\ Underway("edit", "edited")' = Underway("edit", "edited")
      /\ Underway("pack", "packed")' = Underway("pack", "packed")
  BY <1>1, AnswerQueues
<1> DEFINE d == polled.expanded.doc
<1>4. Current("expand", "expanded") = {polled.expanded}
  BY <1>1, <1>2, OnlyCurrent
<1>5. /\ document # None /\ ~busy
      /\ d # None => d.content = document.content
  BY <1>4 DEF IInv, KindInv
<1>6. d \in Documents \cup {None}
  BY <1>2, Slots DEF IInv, Results
<1>7. /\ path \in Paths /\ sessions[path] \in Sessions /\ sessions[path] # None
      /\ sessions[path].document = document
  BY <1>5, DocumentOfSession
<1>8. /\ sessions \in [Paths -> Sessions \cup {None}]
      /\ \A p \in Paths : sessions[p] # None => Trimmed(sessions[p])
  BY DEF IInv, TypeOK
<1>9. /\ document' \in Documents /\ sessions' \in [Paths -> Sessions \cup {None}]
      /\ \A p \in Paths : sessions'[p] # None => Trimmed(sessions'[p])
      /\ ShownInv' /\ HistorySafe
  <2>1. ASSUME d = None
        PROVE  /\ document' \in Documents /\ sessions' \in [Paths -> Sessions \cup {None}]
               /\ \A p \in Paths : sessions'[p] # None => Trimmed(sessions'[p])
               /\ ShownInv' /\ HistorySafe
    <3>1. document' = document /\ sessions' = sessions /\ path' = path
      BY <1>1, <2>1
    <3>2. ShownInv'
      BY <3>1 DEF IInv, ShownInv
    <3> QED
      BY <3>1, <3>2, <1>5, <1>8, SessionsUntouched DEF IInv, TypeOK
  <2>2. ASSUME d # None
        PROVE  /\ document' \in Documents /\ sessions' \in [Paths -> Sessions \cup {None}]
               /\ \A p \in Paths : sessions'[p] # None => Trimmed(sessions'[p])
               /\ ShownInv' /\ HistorySafe
    <3>1. Show(d, sessions) /\ d \in Documents /\ path' = path
      BY <1>1, <1>6, <2>2
    <3> HIDE DEF d
    <3>2. /\ document' = d /\ sessions' \in [Paths -> Sessions \cup {None}]
          /\ \A p \in Paths : sessions'[p] # None => Trimmed(sessions'[p])
          /\ \A p \in Paths : p # path => sessions'[p] = sessions[p]
          /\ sessions'[path] # None /\ sessions'[path].document = d
          /\ ShownInv'
      BY <3>1, <1>7, <1>8, ShowShows
    <3>3. Recalled(sessions[path], sessions'[path])
      BY <3>2, <1>5, <1>7, <2>2 DEF Recalled
    <3>4. HistorySafe
      BY <3>2, <3>3, <1>7, OneSession
    <3> QED
      BY <3>1, <3>2, <3>4
  <2> QED
    BY <2>1, <2>2
<1>10. Current("load", "loaded")' = {} /\ Current("expand", "expanded")' = {}
  <2>1. Current("load", "loaded") = {}
    BY <1>5 DEF IInv, KindInv
  <2>2. Current("expand", "expanded")' = {}
    BY <1>1, <1>3, <1>4 DEF Current
  <2> QED
    BY <2>1, <2>2, <1>1, <1>3 DEF Current
<1>11. document' # None
  BY <1>9, NoneAssumption
<1>12. TypeOK'
  BY <1>1, <1>2, <1>9 DEF IInv, TypeOK, drafts
<1>13. PhaseInv'
  BY <1>2 DEF IInv, PhaseInv
<1>14. ~loading
  BY <1>5 DEF IInv, KindInv
<1>15. WaitInv'
  BY <1>1, <1>2, <1>3, <1>10, <1>14 DEF IInv, WaitInv
<1>16. KindInv'
  BY <1>1, <1>3, <1>5, <1>10, <1>11, <1>14 DEF IInv, KindInv
<1>17. SentInv'
  <2>1. submitted' = {}
    BY <1>1, <1>5 DEF IInv, SentInv, drafts
  <2> QED
    BY <2>1 DEF SentInv
<1> QED
  BY <1>1, <1>3, <1>9, <1>12, <1>13, <1>15, <1>16, <1>17 DEF IInv, drafts

\* The drafts of one file change, those of the others stay as they are.
LEMMA OneFile ==
    ASSUME TypeOK, path \in Paths, NEW row \in [Drafts -> Inputs \cup {None}],
           inputs' = [inputs EXCEPT ![path] = row]
    PROVE  /\ inputs' \in [Paths -> [Drafts -> Inputs \cup {None}]] /\ inputs'[path] = row
           /\ \A p \in Paths : p # path => inputs'[p] = inputs[p]
BY DEF TypeOK

\* A rebuild is accepted or refused.  An accepted one holds the drafts that are
\* acknowledged; the others, and those of a refused one, stay drafts.
LEMMA FinishEditStep ==
    ASSUME IInv, FinishEdit
    PROVE  IInv' /\ HistorySafe /\ DraftsSafe
<1> DEFINE d == polled.edited.doc
           s == sessions[path]
           row == [f \in Drafts |->
                    IF inputs[path][f] = None THEN None
                    ELSE Refresh(inputs[path][f], f, d, f \in submitted, f \in submitted \ touched)]
           ss == [sessions EXCEPT ![path] = Apply(s, d)]
<1>1. /\ Process("edited") /\ polled.edited.request = request /\ busy' = FALSE
      /\ submitted' = {} /\ touched' = {}
      /\ UNCHANGED <<request, path, loading, expanding, next_path, saving>>
  BY DEF FinishEdit
<1>2. /\ polled.edited # None /\ polled' \in Mailboxes /\ ~stopped /\ ~exited /\ flushing = None
      /\ UNCHANGED <<pending, work, updates, stopped, exited, disk, flushing>>
  BY <1>1, AnswerTaken
<1>3. /\ QueueInv'
      /\ Underway("load", "loaded")' = Underway("load", "loaded")
      /\ Underway("expand", "expanded")' = Underway("expand", "expanded")
      /\ Underway("edit", "edited")' = {}
      /\ Underway("pack", "packed")' = Underway("pack", "packed")
  BY <1>1, AnswerQueues
<1>4. busy
  BY <1>2 DEF IInv, WaitInv, Underway
<1>5. document # None /\ ~expanding
  BY <1>4 DEF IInv, KindInv
<1>6. /\ path \in Paths /\ s \in Sessions /\ s # None /\ Trimmed(s) /\ s.document = document
  BY <1>5, DocumentOfSession
<1>7. /\ sessions \in [Paths -> Sessions \cup {None}]
      /\ \A p \in Paths : sessions[p] # None => Trimmed(sessions[p])
      /\ inputs \in [Paths -> [Drafts -> Inputs \cup {None}]]
      /\ TypeOK
  BY DEF IInv, TypeOK
<1>8. d \in Documents \cup {None}
  BY <1>2, Slots DEF IInv, Results
<1>9. \A f \in submitted \ touched :
        /\ f \in Drafts /\ inputs[path][f] # None
        /\ d # None => d.content[f] = inputs[path][f].text
  BY <1>2 DEF IInv, SentInv, TypeOK
<1>10. ASSUME d = None
       PROVE  /\ document' \in Documents /\ sessions' \in [Paths -> Sessions \cup {None}]
              /\ \A p \in Paths : sessions'[p] # None => Trimmed(sessions'[p])
              /\ inputs' \in [Paths -> [Drafts -> Inputs \cup {None}]]
              /\ ShownInv' /\ HistorySafe /\ DraftsSafe
  <2>1. /\ document' = document /\ sessions' = sessions /\ path' = path
        /\ inputs' = [inputs EXCEPT ![path] = Rejected]
    BY <1>1, <1>10 DEF FinishEdit
  <2>2. /\ Rejected \in [Drafts -> Inputs \cup {None}]
        /\ \A f \in Drafts : inputs[path][f] # None /\ inputs[path][f].pending =>
                Rejected[f] # None /\ Rejected[f].pending
    <3>1. \A f \in Drafts : Rejected[f] = IF f \in submitted \ touched
                                          THEN [inputs[path][f] EXCEPT !.error = TRUE]
                                          ELSE inputs[path][f]
      BY DEF Rejected
    <3>2. SUFFICES ASSUME NEW f \in Drafts
                   PROVE  /\ Rejected[f] \in Inputs \cup {None}
                          /\ inputs[path][f] # None /\ inputs[path][f].pending =>
                                Rejected[f] # None /\ Rejected[f].pending
      BY DEF Rejected
    <3>3. inputs[path][f] \in Inputs \cup {None}
      BY <1>6, <1>7
    <3>4. CASE f \notin submitted \ touched
      BY <3>1, <3>3, <3>4
    <3>5. CASE f \in submitted \ touched
      <4>1. Rejected[f] = [inputs[path][f] EXCEPT !.error = TRUE] /\ inputs[path][f] \in Inputs
        BY <3>1, <3>3, <3>5, <1>9
      <4>2. Rejected[f] \in Inputs /\ Rejected[f].pending = inputs[path][f].pending
        BY <4>1 DEF Inputs
      <4> QED
        BY <4>2, NoneAssumption
    <3> QED
      BY <3>4, <3>5
  <2>3. /\ inputs' \in [Paths -> [Drafts -> Inputs \cup {None}]] /\ inputs'[path] = Rejected
        /\ \A p \in Paths : p # path => inputs'[p] = inputs[p]
    BY <2>1, <2>2, <1>6, <1>7, OneFile
  <2>4. DraftsSafe
    BY <2>2, <2>3 DEF DraftsSafe
  <2>5. ShownInv'
    BY <2>1 DEF IInv, ShownInv
  <2> QED
    BY <2>1, <2>3, <2>4, <2>5, <1>5, <1>7, SessionsUntouched DEF TypeOK
<1>11. ASSUME d # None
       PROVE  /\ document' \in Documents /\ sessions' \in [Paths -> Sessions \cup {None}]
              /\ \A p \in Paths : sessions'[p] # None => Trimmed(sessions'[p])
              /\ inputs' \in [Paths -> [Drafts -> Inputs \cup {None}]]
              /\ ShownInv' /\ HistorySafe /\ DraftsSafe
  <2>1. /\ d \in Documents /\ path' = path
        /\ Show(d, ss)
        /\ inputs' = [inputs EXCEPT ![path] = row]
    BY <1>1, <1>6, <1>8, <1>11 DEF FinishEdit
  <2>2. /\ Apply(s, d) \in Sessions /\ Trimmed(Apply(s, d))
        /\ Apply(s, d) # None
        /\ \/ s.document.content = d.content
           \/ Apply(s, d).undo # <<>> /\ Last(Apply(s, d).undo) = s.document
    <3> HIDE DEF s, d
    <3> QED
      BY <1>6, <2>1, ApplyKeeps, NoneAssumption
  <2>3. /\ row \in [Drafts -> Inputs \cup {None}]
        /\ \A f \in Drafts : inputs[path][f] # None /\ inputs[path][f].pending =>
                \/ row[f] # None /\ row[f].pending
                \/ d.content[f] = inputs[path][f].text
    <3>1. \A f \in Drafts : row[f] = IF inputs[path][f] = None THEN None
            ELSE Refresh(inputs[path][f], f, d, f \in submitted, f \in submitted \ touched)
      OBVIOUS
    <3>2. SUFFICES ASSUME NEW f \in Drafts
                   PROVE  /\ row[f] \in Inputs \cup {None}
                          /\ inputs[path][f] # None /\ inputs[path][f].pending =>
                                \/ row[f] # None /\ row[f].pending
                                \/ d.content[f] = inputs[path][f].text
      OBVIOUS
    <3>3. inputs[path][f] \in Inputs \cup {None}
      BY <1>6, <1>7
    <3> HIDE DEF row, d
    <3>4. CASE inputs[path][f] = None
      BY <3>1, <3>4
    <3>5. CASE inputs[path][f] # None
      <4> DEFINE sent == f \in submitted
                 acknowledged == f \in submitted \ touched
      <4>1. row[f] = Refresh(inputs[path][f], f, d, sent, acknowledged)
        BY <3>1, <3>5
      <4>2. sent \in BOOLEAN /\ acknowledged \in BOOLEAN
        OBVIOUS
      <4>3. acknowledged => d.content[f] = inputs[path][f].text
        BY <1>9, <1>11
      <4> HIDE DEF sent, acknowledged
      <4>4. /\ row[f] \in Inputs
            /\ inputs[path][f].pending /\ ~acknowledged => row[f].pending
        BY <4>1, <4>2, <3>3, <3>5, <2>1, InputRefreshed
      <4> QED
        BY <4>3, <4>4, NoneAssumption
    <3> QED
      BY <3>4, <3>5
  <2> HIDE DEF row, d, s
  <2>4. /\ ss \in [Paths -> Sessions \cup {None}]
        /\ \A p \in Paths : ss[p] # None => Trimmed(ss[p])
        /\ ss[path] = Apply(s, d)
        /\ \A p \in Paths : p # path => ss[p] = sessions[p]
    BY <2>2, <1>6, <1>7
  <2> HIDE DEF ss
  <2>5. /\ document' = d /\ sessions' \in [Paths -> Sessions \cup {None}]
        /\ \A p \in Paths : sessions'[p] # None => Trimmed(sessions'[p])
        /\ \A p \in Paths : p # path => sessions'[p] = ss[p]
        /\ sessions'[path] # None /\ sessions'[path].document = d
        /\ sessions'[path].undo = ss[path].undo
        /\ ShownInv'
    BY <2>1, <2>2, <2>4, <1>6, ShowShows
  <2>6. Recalled(s, sessions'[path])
    BY <2>2, <2>4, <2>5 DEF Recalled
  <2>7. HistorySafe
    BY <2>4, <2>5, <2>6, <1>6, OneSession DEF s
  <2>8. /\ inputs' \in [Paths -> [Drafts -> Inputs \cup {None}]] /\ inputs'[path] = row
        /\ \A p \in Paths : p # path => inputs'[p] = inputs[p]
    BY <2>1, <2>3, <1>6, <1>7, OneFile
  <2>9. DraftsSafe
    BY <2>1, <2>3, <2>5, <2>8 DEF DraftsSafe
  <2> QED
    BY <2>1, <2>5, <2>7, <2>8, <2>9
<1> HIDE DEF d, s, row, ss
<1>12. /\ document' \in Documents /\ sessions' \in [Paths -> Sessions \cup {None}]
       /\ \A p \in Paths : sessions'[p] # None => Trimmed(sessions'[p])
       /\ inputs' \in [Paths -> [Drafts -> Inputs \cup {None}]]
       /\ ShownInv' /\ HistorySafe /\ DraftsSafe
  BY <1>10, <1>11
<1>13. document' # None
  BY <1>12, NoneAssumption
<1>14. Current("load", "loaded")' = {} /\ Current("expand", "expanded")' = {}
  <2>1. Current("load", "loaded") = {} /\ Current("expand", "expanded") = {}
    BY <1>4, <1>5 DEF IInv, KindInv
  <2> QED
    BY <2>1, <1>1, <1>3 DEF Current
<1>15. TypeOK'
  BY <1>1, <1>2, <1>12 DEF IInv, TypeOK
<1>16. PhaseInv'
  BY <1>2 DEF IInv, PhaseInv
<1>17. ~loading
  BY <1>4 DEF IInv, KindInv
<1>18. WaitInv'
  BY <1>1, <1>2, <1>3, <1>5, <1>14, <1>17 DEF IInv, WaitInv
<1>19. KindInv'
  BY <1>1, <1>3, <1>5, <1>13, <1>14, <1>17 DEF IInv, KindInv
<1>20. SentInv'
  BY <1>1 DEF SentInv
<1> QED
  BY <1>3, <1>12, <1>15, <1>16, <1>18, <1>19, <1>20 DEF IInv

\* A packing repair is shown, with its undo step, and the drafts stay drafts.
LEMMA FinishPackStep ==
    ASSUME IInv, FinishPack
    PROVE  IInv' /\ HistorySafe /\ DraftsSafe
<1> DEFINE d == polled.packed.doc
           p == polled.packed.source
           s == sessions[p]
           t == Saved(s, polled.packed.requested, d)
           ss == [sessions EXCEPT ![p] = t]
           row == [f \in Drafts |->
                    IF inputs[path][f] = None THEN None
                    ELSE Refresh(inputs[path][f], f, d, FALSE, FALSE)]
<1>1. /\ Process("packed") /\ saving' = FALSE
      /\ UNCHANGED <<path, loading, next_path, busy, submitted>>
  BY DEF FinishPack
<1>2. /\ polled.packed # None /\ polled' \in Mailboxes /\ ~stopped /\ ~exited /\ flushing = None
      /\ polled'.edited = polled.edited
      /\ UNCHANGED <<pending, work, updates, stopped, exited, disk, flushing>>
  BY <1>1, AnswerTaken
<1>3. d \in Documents \cup {None} /\ p \in Paths
  BY <1>2, Slots DEF IInv, Packed
<1>4. /\ sessions \in [Paths -> Sessions \cup {None}]
      /\ \A q \in Paths : sessions[q] # None => Trimmed(sessions[q])
      /\ inputs \in [Paths -> [Drafts -> Inputs \cup {None}]]
      /\ touched \subseteq submitted /\ submitted \subseteq Drafts
      /\ TypeOK
  BY DEF IInv, TypeOK
<1>5. ASSUME QueueInv', TypeOK', ShownInv', WaitInv', KindInv', SentInv'
      PROVE  IInv'
  <2>1. PhaseInv'
    BY <1>2 DEF IInv, PhaseInv
  <2> QED
    BY <1>5, <2>1 DEF IInv
<1>6. request' \in {request, request + 1} =>
      /\ QueueInv'
      /\ Underway("load", "loaded")' = Underway("load", "loaded")
      /\ Underway("expand", "expanded")' = Underway("expand", "expanded")
      /\ Underway("edit", "edited")' = Underway("edit", "edited")
      /\ Underway("pack", "packed")' = {}
  BY <1>1, AnswerQueues
\* The document shown stays.
<1>7. ASSUME UNCHANGED <<request, expanding, document, inputs, touched>>, ShownInv', HistorySafe,
             sessions' \in [Paths -> Sessions \cup {None}],
             \A q \in Paths : sessions'[q] # None => Trimmed(sessions'[q])
      PROVE  IInv' /\ HistorySafe /\ DraftsSafe
  <2>1. Current("load", "loaded")' = Current("load", "loaded")
        /\ Current("expand", "expanded")' = Current("expand", "expanded")
    BY <1>6, <1>7 DEF Current
  <2>2. TypeOK'
    BY <1>1, <1>2, <1>7 DEF IInv, TypeOK
  <2>3. WaitInv'
    BY <1>1, <1>2, <1>6, <1>7, <2>1 DEF IInv, WaitInv
  <2>4. KindInv'
    BY <1>1, <1>6, <1>7, <2>1 DEF IInv, KindInv
  <2>5. SentInv'
    BY <1>1, <1>2, <1>7 DEF IInv, SentInv
  <2>6. DraftsSafe
    BY <1>7, DraftsUntouched
  <2> QED
    BY <1>5, <1>6, <1>7, <2>2, <2>3, <2>4, <2>5, <2>6
<1>8. CASE d = None \/ s = None
  <2>1. UNCHANGED <<request, expanding, document, sessions, inputs, touched>>
    BY <1>8 DEF FinishPack
  <2>2. ShownInv'
    BY <2>1, <1>1 DEF IInv, ShownInv
  <2> QED
    BY <2>1, <2>2, <1>4, <1>7, SessionsUntouched
<1>9. ASSUME d # None, s # None
      PROVE  /\ t \in Sessions /\ Trimmed(t) /\ t # None
             /\ ~Adopts(s, polled.packed.requested, d) => t.document = s.document
             /\ Adopts(s, polled.packed.requested, d) => t.undo # <<>> /\ Last(t.undo) = s.document
             /\ Recalled(s, t)
  <2>1. s \in Sessions /\ Trimmed(s) /\ d \in Documents
    BY <1>3, <1>4, <1>9
  <2> HIDE DEF s, d
  <2>2. /\ t \in Sessions /\ Trimmed(t)
        /\ ~Adopts(s, polled.packed.requested, d) => t.document = s.document
        /\ Adopts(s, polled.packed.requested, d) => t.undo # <<>> /\ Last(t.undo) = s.document
    BY <2>1, SavedKeeps
  <2> HIDE DEF t
  <2> QED
    BY <2>2, NoneAssumption DEF Recalled
<1>10. ASSUME d # None, s # None
       PROVE  /\ ss \in [Paths -> Sessions \cup {None}] /\ ss[p] = t
              /\ \A q \in Paths : ss[q] # None => Trimmed(ss[q])
              /\ \A q \in Paths : q # p => ss[q] = sessions[q]
  <2>1. t \in Sessions /\ Trimmed(t)
    BY <1>9, <1>10
  <2> HIDE DEF t, s, d, p
  <2> QED
    BY <2>1, <1>3, <1>4
<1>11. CASE d # None /\ s # None /\ ~(path = p /\ Adopts(s, polled.packed.requested, d))
  <2>1. UNCHANGED <<request, expanding, document, inputs, touched>> /\ sessions' = ss
    BY <1>11 DEF FinishPack
  <2>2. /\ t \in Sessions /\ t # None /\ Recalled(s, t)
        /\ ~Adopts(s, polled.packed.requested, d) => t.document = s.document
    BY <1>9, <1>11
  <2>3. /\ ss \in [Paths -> Sessions \cup {None}] /\ ss[p] = t
        /\ \A q \in Paths : ss[q] # None => Trimmed(ss[q])
        /\ \A q \in Paths : q # p => ss[q] = sessions[q]
    BY <1>10, <1>11
  <2> HIDE DEF ss, t, d
  <2>4. ShownInv'
    <3>1. path' = path /\ path \in Paths \cup {None}
      BY <1>1 DEF IInv, TypeOK
    <3>2. path # None => (sessions'[path] = None <=> sessions[path] = None)
      BY <2>1, <2>2, <2>3, <1>11, <3>1
    <3>3. document # None => sessions'[path].document = sessions[path].document
      <4>1. document # None => path \in Paths
        BY DocumentOfSession
      <4> QED
        BY <4>1, <2>1, <2>2, <2>3, <1>11
    <3> QED
      BY <3>1, <3>2, <3>3, <2>1 DEF IInv, ShownInv
  <2>5. HistorySafe
    BY <2>1, <2>2, <2>3, <1>3, <1>11, OneSession
  <2> QED
    BY <2>1, <2>3, <2>4, <2>5, <1>7
\* Repairs are adopted.
<1>12. CASE d # None /\ s # None /\ path = p /\ Adopts(s, polled.packed.requested, d)
  <2>1. AdoptRepairs(d)
    BY <1>12 DEF FinishPack
  <2>2. /\ Show(d, ss)
        /\ \/ busy /\ UNCHANGED <<request, expanding, inputs, touched>>
           \/ /\ ~busy /\ request' = request + 1 /\ expanding' = FALSE
              /\ inputs' = [inputs EXCEPT ![path] = row] /\ touched' = submitted
    BY <2>1, <1>12, <1>3, <1>4 DEF AdoptRepairs
  <2>3. /\ t \in Sessions /\ t # None /\ Recalled(s, t)
    BY <1>9, <1>12
  <2>4. /\ ss \in [Paths -> Sessions \cup {None}] /\ ss[p] = t
        /\ \A q \in Paths : ss[q] # None => Trimmed(ss[q])
        /\ \A q \in Paths : q # p => ss[q] = sessions[q]
    BY <1>10, <1>12
  <2>5. path \in Paths /\ path' = path /\ d \in Documents
    BY <1>1, <1>3, <1>12
  <2>6. document # None /\ path # None
    BY <2>5, <1>12, NoneAssumption DEF IInv, ShownInv
  <2> HIDE DEF ss, row
  <2>7. /\ document' = d /\ sessions' \in [Paths -> Sessions \cup {None}]
        /\ \A q \in Paths : sessions'[q] # None => Trimmed(sessions'[q])
        /\ \A q \in Paths : q # path => sessions'[q] = ss[q]
        /\ sessions'[path] # None /\ sessions'[path].document = d
        /\ sessions'[path].undo = ss[path].undo
        /\ ShownInv'
    <3> HIDE DEF d, t
    <3> QED
      BY <2>2, <2>3, <2>4, <2>5, <1>12, ShowShows
  <2>8. t.undo # <<>> /\ Last(t.undo) = s.document
    BY <1>9, <1>12
  <2> HIDE DEF t
  <2>9. Recalled(s, sessions'[path])
    <3> HIDE DEF s
    <3> QED
      BY <2>4, <2>7, <2>8, <1>12 DEF Recalled
  <2>10. HistorySafe
    BY <2>4, <2>5, <2>7, <2>9, <1>12, OneSession
  <2> HIDE DEF d, s, p
  <2>11. ~loading
    BY <2>6 DEF IInv, KindInv
  <2>12. document' # None
    BY <2>5, <2>7, NoneAssumption
  \* An edit is under way: its number stays.
  <2>13. CASE busy /\ UNCHANGED <<request, expanding, inputs, touched>>
    <3>1. /\ Current("load", "loaded")' = {} /\ Current("expand", "expanded")' = {}
          /\ ~expanding /\ Current("load", "loaded") = {} /\ Current("expand", "expanded") = {}
      <4>1. Current("load", "loaded") = {} /\ Current("expand", "expanded") = {} /\ ~expanding
        BY <2>6, <2>13 DEF IInv, KindInv
      <4> QED
        BY <4>1, <1>6, <2>13 DEF Current
    <3>2. TypeOK'
      BY <1>1, <1>2, <2>5, <2>7, <2>13 DEF IInv, TypeOK
    <3>3. WaitInv'
      BY <1>1, <1>2, <1>6, <2>11, <2>13, <3>1 DEF IInv, WaitInv
    <3>4. KindInv'
      BY <1>1, <1>6, <2>11, <2>12, <2>13, <3>1 DEF IInv, KindInv
    <3>5. SentInv'
      BY <1>1, <1>2, <2>13 DEF IInv, SentInv
    <3>6. DraftsSafe
      BY <2>13, DraftsUntouched
    <3> QED
      BY <1>5, <1>6, <2>7, <2>10, <2>13, <3>2, <3>3, <3>4, <3>5, <3>6
  \* None is: what else is under way gets old.
  <2>14. CASE /\ ~busy /\ request' = request + 1 /\ expanding' = FALSE
              /\ inputs' = [inputs EXCEPT ![path] = row] /\ touched' = submitted
    <3>1. Current("load", "loaded")' = {} /\ Current("expand", "expanded")' = {}
      BY <1>6, <2>14, Numbered DEF Current
    <3>2. /\ row \in [Drafts -> Inputs \cup {None}]
          /\ \A f \in Drafts : inputs[path][f] # None /\ inputs[path][f].pending =>
                row[f] # None /\ row[f].pending
      <4>1. /\ row \in [Drafts -> Inputs \cup {None}] <=>
                    \A f \in Drafts : row[f] \in Inputs \cup {None}
            /\ \A f \in Drafts : row[f] = IF inputs[path][f] = None THEN None
                                    ELSE Refresh(inputs[path][f], f, d, FALSE, FALSE)
        BY DEF row
      <4>2. SUFFICES ASSUME NEW f \in Drafts
                     PROVE  /\ row[f] \in Inputs \cup {None}
                            /\ inputs[path][f] # None /\ inputs[path][f].pending =>
                                  row[f] # None /\ row[f].pending
        BY <4>1
      <4>3. inputs[path][f] \in Inputs \cup {None}
        BY <1>4, <2>5
      <4>4. CASE inputs[path][f] = None
        BY <4>1, <4>4
      <4>5. CASE inputs[path][f] # None
        <5>1. row[f] = Refresh(inputs[path][f], f, d, FALSE, FALSE)
          BY <4>1, <4>5
        <5>2. row[f] \in Inputs /\ (inputs[path][f].pending => row[f].pending)
          BY <5>1, <4>3, <4>5, <2>5, InputRefreshed
        <5> QED
          BY <5>2, NoneAssumption
      <4> QED
        BY <4>4, <4>5
    <3>3. /\ inputs' \in [Paths -> [Drafts -> Inputs \cup {None}]] /\ inputs'[path] = row
          /\ \A q \in Paths : q # path => inputs'[q] = inputs[q]
      BY <2>5, <2>14, <3>2, <1>4, OneFile
    <3>4. DraftsSafe
      BY <3>2, <3>3 DEF DraftsSafe
    <3>5. submitted' = {} /\ touched' = {}
      BY <1>1, <2>14 DEF IInv, SentInv
    <3>6. TypeOK'
      BY <1>1, <1>2, <2>5, <2>7, <2>14, <3>3, <3>5, Numbered DEF IInv, TypeOK
    <3>7. Underway("edit", "edited") = {}
      BY <1>2, <2>14 DEF IInv, WaitInv
    <3>8. WaitInv'
      BY <1>1, <1>2, <1>6, <2>11, <2>14, <3>1, <3>7 DEF IInv, WaitInv
    <3>9. KindInv'
      BY <1>1, <1>6, <2>11, <2>12, <2>14, <3>1, <3>7 DEF KindInv
    <3>10. SentInv'
      BY <3>5 DEF SentInv
    <3> QED
      BY <1>5, <1>6, <2>7, <2>10, <2>14, <3>4, <3>6, <3>8, <3>9, <3>10
  <2> QED
    BY <2>2, <2>13, <2>14
<1> QED
  BY <1>8, <1>11, <1>12

(***************************************************************************)
(* The user                                                                *)
(***************************************************************************)

\* What does not depend on the drafts.
LEMMA QueuesUntouched ==
    ASSUME IInv, UNCHANGED <<pending, work, updates, stopped, polled,
                             request, path, document, loading, expanding, busy, saving, sessions>>
    PROVE  QueueInv' /\ WaitInv' /\ KindInv' /\ ShownInv'
<1>1. /\ Underway("load", "loaded")' = Underway("load", "loaded")
      /\ Underway("expand", "expanded")' = Underway("expand", "expanded")
      /\ Underway("edit", "edited")' = Underway("edit", "edited")
      /\ Underway("pack", "packed")' = Underway("pack", "packed")
  BY DEF Underway
<1>2. /\ Current("load", "loaded")' = Current("load", "loaded")
      /\ Current("expand", "expanded")' = Current("expand", "expanded")
  BY <1>1 DEF Current
<1>3. QueueInv'
  BY <1>1 DEF IInv, QueueInv, InOrder, Single, Before
<1>4. WaitInv' /\ KindInv' /\ ShownInv'
  BY <1>1, <1>2 DEF IInv, WaitInv, KindInv, ShownInv
<1> QED
  BY <1>3, <1>4

\* The UI is at rest and the worker runs.
LEMMA QuietRuns ==
    ASSUME IInv, Quiet
    PROVE  /\ polled = NoUpdates /\ flushing = None /\ ~stopped /\ ~exited
           /\ polled.loaded = None /\ polled.expanded = None /\ polled.edited = None
           /\ polled.packed = None
BY DEF Quiet, IInv, PhaseInv, NoUpdates

\* Another file is chosen.  A session is forgotten only without changes, undo steps
\* and drafts; what is still under way gets old.
LEMMA SwitchStep ==
    ASSUME IInv, NEW p \in Paths, Switch(p), ~busy, ~stopped, polled = NoUpdates,
           flushing' = None, next_path' \in Paths \cup {None},
           UNCHANGED <<work, updates, stopped, exited, disk, polled, busy, saving, submitted, touched>>
    PROVE  IInv' /\ HistorySafe /\ DraftsSafe
<1> DEFINE s == IF path = None THEN None ELSE sessions[path]
           forget == s # None /\ ~Dirty(s) /\ s.undo = <<>> /\ s.redo = <<>> /\ ~HasDraft(path)
           kept == IF forget THEN [sessions EXCEPT ![path] = None] ELSE sessions
           new == [request |-> request + 1, path |-> p]
<1>1. /\ sessions' = kept
      /\ inputs' = IF forget THEN [inputs EXCEPT ![path] = NoInputs] ELSE inputs
      /\ request' = request + 1 /\ path' = p /\ expanding' = FALSE
      /\ loading' = (kept[p] = None)
      /\ document' = IF kept[p] = None THEN None ELSE kept[p].document
      /\ pending' = IF kept[p] = None THEN [pending EXCEPT !.load = new, !.expand = None]
                    ELSE pending
  BY DEF Switch
<1>2. /\ sessions \in [Paths -> Sessions \cup {None}]
      /\ \A q \in Paths : sessions[q] # None => Trimmed(sessions[q])
      /\ inputs \in [Paths -> [Drafts -> Inputs \cup {None}]]
      /\ pending \in Queues /\ path \in Paths \cup {None}
      /\ touched \subseteq submitted
  BY DEF IInv, TypeOK
<1>3. forget => path \in Paths /\ sessions[path] # None /\ ~Dirty(sessions[path])
                /\ sessions[path].undo = <<>> /\ ~HasDraft(path)
  BY <1>2
<1>4. /\ kept \in [Paths -> Sessions \cup {None}]
      /\ \A q \in Paths : kept[q] # None => Trimmed(kept[q])
      /\ \A q \in Paths : kept[q] = sessions[q] \/ (forget /\ q = path /\ kept[q] = None)
  BY <1>2, <1>3
<1>5. HistorySafe
  <2> HIDE DEF kept, forget
  <2> QED
    BY <1>1, <1>3, <1>4 DEF HistorySafe, Recalled
<1>6. inputs' \in [Paths -> [Drafts -> Inputs \cup {None}]] /\ DraftsSafe
  <2>1. CASE forget
    <3>1. NoInputs \in [Drafts -> Inputs \cup {None}]
      BY DEF NoInputs
    <3>2. path \in Paths /\ ~HasDraft(path) /\ inputs' = [inputs EXCEPT ![path] = NoInputs]
      BY <1>1, <1>3, <2>1
    <3>3. /\ inputs' \in [Paths -> [Drafts -> Inputs \cup {None}]]
          /\ \A q \in Paths : q # path => inputs'[q] = inputs[q]
      BY <3>1, <3>2, OneFile DEF IInv
    <3>4. \A f \in Drafts : ~(inputs[path][f] # None /\ inputs[path][f].pending)
      BY <3>2 DEF HasDraft
    <3> QED
      BY <3>3, <3>4 DEF DraftsSafe
  <2>2. CASE ~forget
    <3>1. inputs' = inputs
      BY <1>1, <2>2
    <3> QED
      BY <3>1, <1>2, DraftsUntouched
  <2> QED
    BY <2>1, <2>2
<1>7. ShownInv' /\ document' \in Documents \cup {None} /\ (loading' => document' = None)
  <2> HIDE DEF kept, forget
  <2>1. kept[p] # None => kept[p] \in Sessions /\ kept[p].document \in Documents
    BY <1>4 DEF Sessions
  <2>2. kept[p] # None => kept[p].document # None
    BY <2>1, NoneAssumption
  <2> QED
    BY <1>1, <2>1, <2>2, NoneAssumption DEF ShownInv
<1> DEFINE reads == kept[p] = None
<1>8. /\ loading' = reads
      /\ pending' = IF reads THEN [pending EXCEPT !.load = new, !.expand = None] ELSE pending
  BY <1>1
<1>9. reads \in BOOLEAN
  OBVIOUS
<1> HIDE DEF s, forget, kept, reads
<1>10. request \in Nat /\ request + 1 \in Nat /\ new \in Loads /\ new.request = request + 1
       /\ new.path = p
  BY Numbered DEF Loads
<1> HIDE DEF new
<1>11. /\ pending' \in Queues /\ pending'.edit = pending.edit /\ pending'.pack = pending.pack
       /\ pending'.export = pending.export
       /\ pending'.load = IF reads THEN new ELSE pending.load
       /\ pending'.expand = IF reads THEN None ELSE pending.expand
  BY <1>2, <1>8, <1>10 DEF Queues
<1>12. new # None
  BY <1>10, NoneAssumption
<1>13. TypeOK'
  BY <1>1, <1>4, <1>6, <1>7, <1>8, <1>9, <1>10, <1>11 DEF IInv, TypeOK
<1>14. /\ Underway("load", "loaded")' \subseteq Underway("load", "loaded") \cup {new}
       /\ new \in Underway("load", "loaded")' <=> reads
       /\ Underway("expand", "expanded")' \subseteq Underway("expand", "expanded")
       /\ Underway("edit", "edited")' = Underway("edit", "edited")
       /\ Underway("pack", "packed")' = Underway("pack", "packed")
  <2>1. /\ Underway("load", "loaded")' \subseteq Underway("load", "loaded") \cup {new}
        /\ reads => new \in Underway("load", "loaded")'
        /\ ~reads => Underway("load", "loaded")' = Underway("load", "loaded")
    BY <1>11, <1>12 DEF Underway
  <2>2. new \notin Underway("load", "loaded")
    BY <1>10, Numbered
  <2>3. /\ Underway("expand", "expanded")' \subseteq Underway("expand", "expanded")
        /\ Underway("edit", "edited")' = Underway("edit", "edited")
        /\ Underway("pack", "packed")' = Underway("pack", "packed")
    BY <1>11 DEF Underway
  <2> QED
    BY <2>1, <2>2, <2>3
<1>15. /\ Current("load", "loaded")' = IF reads THEN {new} ELSE {}
       /\ Current("expand", "expanded")' = {}
  <2>1. \A x \in Underway("load", "loaded") \cup Underway("expand", "expanded") :
            x.request # request'
    BY <1>1, Numbered
  <2> QED
    BY <2>1, <1>1, <1>10, <1>14 DEF Current
<1>16. QueueInv'
  <2>1. /\ \A x \in Underway("load", "loaded") \cup Underway("expand", "expanded") :
            x.request \in Nat /\ x.request <= request /\ x.request < request + 1
            /\ x.request <= request + 1
    BY <1>10, Numbered
  <2>2. InOrder("load", "loaded")'
    <3>1. \A x \in Underway("load", "loaded")' : x.request <= request'
      BY <1>1, <1>10, <1>14, <2>1
    <3>2. \A x \in {polled.loaded, updates.loaded, work.load} \ {None} : x.request < new.request
      BY <1>10, <2>1 DEF Underway
    <3>3. InOrder("load", "loaded")
      BY DEF IInv, QueueInv
    <3> QED
      BY <3>1, <3>2, <3>3, <1>11 DEF InOrder, Before
  <2>3. InOrder("expand", "expanded")'
    <3>1. \A x \in Underway("expand", "expanded")' : x.request <= request'
      BY <1>1, <1>14, <2>1
    <3>2. InOrder("expand", "expanded")
      BY DEF IInv, QueueInv
    <3> QED
      BY <3>1, <3>2, <1>11 DEF InOrder, Before
  <2>4. Single("edit", "edited")' /\ Single("pack", "packed")'
    BY <1>11 DEF IInv, QueueInv, Single
  <2> QED
    BY <2>2, <2>3, <2>4 DEF QueueInv
<1>17. PhaseInv'
  BY DEF IInv, PhaseInv
<1>18. Underway("edit", "edited") = {}
  BY DEF IInv, WaitInv
<1>19. WaitInv'
  BY <1>1, <1>8, <1>9, <1>14, <1>15, <1>18 DEF IInv, WaitInv
<1>20. KindInv'
  <2>1. \A x \in Current("load", "loaded")' : x.path = path' /\ document' = None /\ path' # None
    BY <1>1, <1>7, <1>8, <1>10, <1>15, NoneAssumption
  <2> QED
    BY <2>1, <1>7, <1>14, <1>15, <1>18 DEF KindInv
<1>21. SentInv'
  BY DEF IInv, SentInv
<1> QED
  BY <1>5, <1>6, <1>7, <1>13, <1>16, <1>17, <1>19, <1>20, <1>21 DEF IInv

\* A file is chosen: it is opened, or remembered while there is something to apply.
LEMMA OpenStep ==
    ASSUME IInv, NEW p \in Paths, Open(p)
    PROVE  IInv' /\ HistorySafe /\ DraftsSafe
<1>1. /\ polled = NoUpdates /\ flushing = None /\ ~stopped /\ ~exited
      /\ UNCHANGED <<work, updates, stopped, exited, disk,
                     polled, busy, saving, submitted, touched, flushing>>
  BY QuietRuns DEF Open, Idle
<1>2. CASE ~(busy \/ (path # None /\ HasDraft(path)))
  <2>1. Switch(p) /\ next_path' = next_path /\ ~busy
    BY <1>2 DEF Open
  <2>2. next_path' \in Paths \cup {None}
    BY <2>1 DEF IInv, TypeOK
  <2>3. flushing' = None
    BY <1>1
  <2> QED
    BY <2>1, <2>2, <2>3, <1>1, SwitchStep
<1>3. CASE busy \/ (path # None /\ HasDraft(path))
  <2>1. /\ next_path' = p
        /\ UNCHANGED <<pending, request, path, document, loading, expanding, sessions, inputs>>
    BY <1>3 DEF Open
  <2>2. QueueInv' /\ WaitInv' /\ KindInv' /\ ShownInv'
    BY <1>1, <2>1, QueuesUntouched
  <2>3. TypeOK'
    BY <1>1, <2>1 DEF IInv, TypeOK
  <2>4. PhaseInv' /\ SentInv'
    BY <1>1, <2>1 DEF IInv, PhaseInv, SentInv
  <2> QED
    BY <2>1, <2>2, <2>3, <2>4, DraftsUntouched, SessionsUntouched DEF IInv
<1> QED
  BY <1>2, <1>3

\* The user changes drafts of the open file, and each change of one that is being
\* rebuilt is noted.
LEMMA DraftsChange ==
    ASSUME IInv, Quiet, path \in Paths, NEW row \in [Drafts -> Inputs \cup {None}],
           inputs' = [inputs EXCEPT ![path] = row],
           touched \subseteq touched', touched' \subseteq submitted,
           \A f \in submitted \ touched' : row[f] = inputs[path][f],
           UNCHANGED <<shared, polled, view, busy, saving, submitted, flushing>>
    PROVE  /\ IInv' /\ inputs'[path] = row
           /\ \A p \in Paths : p # path => inputs'[p] = inputs[p]
<1>1. /\ inputs' \in [Paths -> [Drafts -> Inputs \cup {None}]] /\ inputs'[path] = row
      /\ \A p \in Paths : p # path => inputs'[p] = inputs[p]
  BY OneFile DEF IInv
<1>2. QueueInv' /\ WaitInv' /\ KindInv' /\ ShownInv'
  BY QueuesUntouched DEF shared, view
<1>3. TypeOK'
  BY <1>1 DEF IInv, TypeOK, shared, view
<1>4. PhaseInv'
  BY QuietRuns DEF IInv, PhaseInv, shared, view
<1>5. SentInv'
  BY <1>1 DEF IInv, SentInv, shared, view
<1> QED
  BY <1>1, <1>2, <1>3, <1>4, <1>5 DEF IInv

\* The user types.
LEMMA TypeStep ==
    ASSUME IInv, NEW f \in Drafts, NEW text \in Texts, Type(f, text)
    PROVE  IInv' /\ DraftsSafe
<1> DEFINE i == IF inputs[path][f] = None THEN NewInput(f, document) ELSE inputs[path][f]
           row == [inputs[path] EXCEPT ![f] = Change(i, text)]
<1>1. /\ Quiet /\ path # None /\ document # None
      /\ inputs' = [inputs EXCEPT ![path][f] = Change(i, text)]
      /\ touched' = touched \cup ({f} \cap submitted)
      /\ UNCHANGED <<shared, polled, view, busy, saving, submitted, flushing>>
  BY DEF Type, Idle
<1>2. path \in Paths /\ document \in Documents
  BY <1>1, DocumentOfSession
<1>3. /\ inputs \in [Paths -> [Drafts -> Inputs \cup {None}]]
      /\ touched \subseteq submitted /\ submitted \subseteq Drafts
  BY DEF IInv, TypeOK
<1>4. i \in Inputs
  BY <1>2, <1>3, InputNew
<1> HIDE DEF i
<1>5. Change(i, text) \in Inputs /\ Change(i, text).pending /\ Change(i, text) # None
  BY <1>4, InputChanged, NoneAssumption
<1>6. inputs' = [inputs EXCEPT ![path] = row]
  BY <1>1, <1>2, <1>3
<1>7. /\ row \in [Drafts -> Inputs \cup {None}] /\ row[f] = Change(i, text)
      /\ \A g \in Drafts : g # f => row[g] = inputs[path][g]
  BY <1>2, <1>3, <1>5
<1> HIDE DEF row
<1>8. /\ touched \subseteq touched' /\ touched' \subseteq submitted
      /\ \A g \in submitted \ touched' : row[g] = inputs[path][g]
  BY <1>1, <1>3, <1>7
<1>9. /\ IInv' /\ inputs'[path] = row
      /\ \A p \in Paths : p # path => inputs'[p] = inputs[p]
  BY <1>1, <1>2, <1>6, <1>7, <1>8, DraftsChange
<1> QED
  BY <1>5, <1>7, <1>9 DEF DraftsSafe

\* The user takes a draft back.
LEMMA WithdrawStep ==
    ASSUME IInv, NEW f \in Drafts, Withdraw(f)
    PROVE  IInv' /\ DraftsSafe
<1> DEFINE row == [inputs[path] EXCEPT ![f] = NewInput(f, document)]
<1>1. /\ Quiet /\ path # None /\ document # None
      /\ inputs' = [inputs EXCEPT ![path][f] = NewInput(f, document)]
      /\ touched' = touched \cup ({f} \cap submitted)
      /\ UNCHANGED <<shared, polled, view, busy, saving, submitted, flushing>>
  BY DEF Withdraw, Idle
<1>2. path \in Paths /\ document \in Documents
  BY <1>1, DocumentOfSession
<1>3. /\ inputs \in [Paths -> [Drafts -> Inputs \cup {None}]]
      /\ touched \subseteq submitted /\ submitted \subseteq Drafts
  BY DEF IInv, TypeOK
<1>4. NewInput(f, document) \in Inputs
  BY <1>2, InputNew
<1>5. inputs' = [inputs EXCEPT ![path] = row]
  BY <1>1, <1>2, <1>3
<1>6. /\ row \in [Drafts -> Inputs \cup {None}]
      /\ \A g \in Drafts : g # f => row[g] = inputs[path][g]
  BY <1>2, <1>3, <1>4
<1> HIDE DEF row
<1>7. /\ touched \subseteq touched' /\ touched' \subseteq submitted
      /\ \A g \in submitted \ touched' : row[g] = inputs[path][g]
  BY <1>1, <1>3, <1>6
<1>8. /\ IInv' /\ inputs'[path] = row
      /\ \A p \in Paths : p # path => inputs'[p] = inputs[p]
  BY <1>1, <1>2, <1>5, <1>6, <1>7, DraftsChange
<1>9. Withdrawn(path, f)
  BY DEF Withdrawn
<1> QED
  BY <1>6, <1>8, <1>9 DEF DraftsSafe

\* The user takes all drafts of the file back.
LEMMA UndoDraftsStep ==
    ASSUME IInv, UndoDrafts
    PROVE  IInv' /\ DraftsSafe
<1> DEFINE row == [f \in Drafts |->
                    IF inputs[path][f] = None THEN None ELSE NewInput(f, document)]
<1>1. /\ Quiet /\ path # None /\ sessions[path] # None /\ ~busy /\ touched' = submitted
      /\ UNCHANGED <<shared, polled, view, busy, saving, submitted, flushing>>
  BY DEF UndoDrafts, Toolbar, Idle
<1>2. document # None
  BY <1>1 DEF IInv, ShownInv
<1>3. path \in Paths /\ document \in Documents
  BY <1>2, DocumentOfSession
<1>4. /\ inputs \in [Paths -> [Drafts -> Inputs \cup {None}]]
      /\ touched \subseteq submitted /\ submitted \subseteq Drafts
  BY DEF IInv, TypeOK
<1>5. inputs' = [inputs EXCEPT ![path] = row]
  BY <1>3, <1>4 DEF UndoDrafts
<1>6. row \in [Drafts -> Inputs \cup {None}]
  BY <1>3, InputNew
<1> HIDE DEF row
<1>7. /\ touched \subseteq touched' /\ touched' \subseteq submitted
      /\ \A g \in submitted \ touched' : row[g] = inputs[path][g]
  BY <1>1, <1>4
<1>8. /\ IInv' /\ inputs'[path] = row
      /\ \A p \in Paths : p # path => inputs'[p] = inputs[p]
  BY <1>1, <1>3, <1>5, <1>6, <1>7, DraftsChange
<1>9. \A f \in Drafts : Withdrawn(path, f)
  BY DEF Withdrawn
<1> QED
  BY <1>8, <1>9 DEF DraftsSafe

\* A step of the session's history is shown; what is under way gets old.
LEMMA HistoryStep ==
    ASSUME IInv, Toolbar, ~busy, ~loading, ~HasDraft(path),
           NEW s \in Sessions, Trimmed(s), Recalled(sessions[path], s), History(s)
    PROVE  IInv' /\ HistorySafe /\ DraftsSafe
<1>1. /\ sessions' = [sessions EXCEPT ![path] = s] /\ document' = s.document
      /\ request' = request + 1 /\ expanding' = FALSE
      /\ inputs' = [inputs EXCEPT ![path] = NoInputs]
      /\ UNCHANGED <<shared, polled, path, loading, next_path, busy, saving,
                     submitted, touched, flushing>>
  BY DEF History
<1>2. /\ path # None /\ sessions[path] # None /\ Quiet
  BY DEF Toolbar, Idle
<1>3. document # None
  BY <1>2 DEF IInv, ShownInv
<1>4. path \in Paths
  BY <1>3, DocumentOfSession
<1>5. /\ sessions \in [Paths -> Sessions \cup {None}]
      /\ \A q \in Paths : sessions[q] # None => Trimmed(sessions[q])
      /\ inputs \in [Paths -> [Drafts -> Inputs \cup {None}]]
  BY DEF IInv, TypeOK
<1>6. s # None /\ s.document \in Documents /\ s.document # None
  <2>1. s.document \in Documents
    BY DEF Sessions
  <2> QED
    BY <2>1, NoneAssumption
<1>7. /\ sessions' \in [Paths -> Sessions \cup {None}] /\ sessions'[path] = s
      /\ \A q \in Paths : q # path => sessions'[q] = sessions[q]
      /\ \A q \in Paths : sessions'[q] # None => Trimmed(sessions'[q])
  BY <1>1, <1>4, <1>5
<1>8. HistorySafe
  BY <1>2, <1>4, <1>6, <1>7, OneSession
<1>9. NoInputs \in [Drafts -> Inputs \cup {None}]
  BY DEF NoInputs
<1>10. /\ inputs' \in [Paths -> [Drafts -> Inputs \cup {None}]]
       /\ \A q \in Paths : q # path => inputs'[q] = inputs[q]
  BY <1>1, <1>4, <1>9, OneFile DEF IInv
<1>11. DraftsSafe
  <2>1. \A f \in Drafts : ~(inputs[path][f] # None /\ inputs[path][f].pending)
    BY DEF HasDraft
  <2> QED
    BY <2>1, <1>10 DEF DraftsSafe
<1>12. TypeOK'
  BY <1>1, <1>6, <1>7, <1>10, Numbered DEF IInv, TypeOK, shared
<1>13. /\ Underway("load", "loaded")' = Underway("load", "loaded")
       /\ Underway("expand", "expanded")' = Underway("expand", "expanded")
       /\ Underway("edit", "edited")' = Underway("edit", "edited")
       /\ Underway("pack", "packed")' = Underway("pack", "packed")
  BY <1>1 DEF Underway, shared
<1>14. Current("load", "loaded")' = {} /\ Current("expand", "expanded")' = {}
  BY <1>1, <1>13, Numbered DEF Current
<1>15. QueueInv'
  <2>1. \A x \in Underway("load", "loaded") \cup Underway("expand", "expanded") :
            x.request <= request + 1
    <3>1. \A n \in Nat : n <= request => n <= request + 1
      BY Numbered
    <3> QED
      BY <3>1, Numbered
  <2> QED
    BY <2>1, <1>1, <1>13 DEF IInv, QueueInv, InOrder, Before, Single, shared
<1>16. stopped' = stopped /\ ~stopped /\ ~exited /\ exited' = exited /\ flushing' = None
  BY <1>1, <1>2, QuietRuns DEF shared
<1>17. PhaseInv'
  BY <1>16 DEF PhaseInv
<1>18. Underway("edit", "edited") = {}
  BY <1>16 DEF IInv, WaitInv
<1>19. WaitInv'
  BY <1>1, <1>13, <1>14, <1>16, <1>18 DEF IInv, WaitInv
<1>20. KindInv'
  BY <1>1, <1>6, <1>13, <1>14, <1>18 DEF KindInv
<1>21. ShownInv'
  BY <1>1, <1>2, <1>6, <1>7 DEF ShownInv
<1>22. SentInv'
  BY <1>1 DEF IInv, SentInv
<1> QED
  BY <1>8, <1>11, <1>12, <1>15, <1>17, <1>19, <1>20, <1>21, <1>22 DEF IInv

\* Undo shows the nearest step and keeps the document for a redo.
LEMMA UndoStep ==
    ASSUME IInv, Undo
    PROVE  IInv' /\ HistorySafe /\ DraftsSafe
<1>1. /\ Toolbar /\ ~busy /\ ~loading /\ ~HasDraft(path) /\ sessions[path].undo # <<>>
      /\ History(Undone(sessions[path]))
  BY DEF Undo
<1>2. sessions[path] \in Sessions /\ Trimmed(sessions[path])
  BY <1>1, DocumentOfSession DEF Toolbar, IInv, ShownInv
<1>3. Undone(sessions[path]) \in Sessions /\ Trimmed(Undone(sessions[path]))
      /\ Recalled(sessions[path], Undone(sessions[path]))
  BY <1>1, <1>2, UndoneKeeps DEF Recalled
<1> QED
  BY <1>1, <1>3, HistoryStep

\* Redo shows it again and keeps the document for an undo.
LEMMA RedoStep ==
    ASSUME IInv, Redo
    PROVE  IInv' /\ HistorySafe /\ DraftsSafe
<1>1. /\ Toolbar /\ ~busy /\ ~loading /\ ~HasDraft(path) /\ sessions[path].redo # <<>>
      /\ History(Redone(sessions[path]))
  BY DEF Redo
<1>2. sessions[path] \in Sessions /\ Trimmed(sessions[path])
  BY <1>1, DocumentOfSession DEF Toolbar, IInv, ShownInv
<1>3. Redone(sessions[path]) \in Sessions /\ Trimmed(Redone(sessions[path]))
      /\ Recalled(sessions[path], Redone(sessions[path]))
  BY <1>1, <1>2, RedoneKeeps DEF Recalled
<1> QED
  BY <1>1, <1>3, HistoryStep

\* The details of the document shown are asked for.
LEMMA ExpandStep ==
    ASSUME IInv, Expand
    PROVE  IInv' /\ inputs' = inputs /\ sessions' = sessions
<1> DEFINE new == [request |-> request, doc |-> document]
<1>1. /\ Quiet /\ ~expanding /\ ~busy /\ document # None /\ expanding' = TRUE
      /\ pending' = [pending EXCEPT !.expand = new]
      /\ UNCHANGED <<work, updates, stopped, exited, disk, polled, request, path, document,
                     loading, next_path, sessions, busy, saving, drafts, flushing>>
  BY DEF Expand, Idle
<1>2. ~stopped /\ ~exited /\ flushing = None
  BY <1>1, QuietRuns
<1>3. document \in Documents /\ pending \in Queues
  BY <1>1 DEF IInv, TypeOK
<1>4. new \in Expands /\ new.request = request /\ new.doc = document /\ request \in Nat
  BY <1>3, Numbered DEF Expands
<1> HIDE DEF new
<1>5. /\ pending' \in Queues /\ pending'.load = pending.load /\ pending'.edit = pending.edit
      /\ pending'.pack = pending.pack /\ pending'.export = pending.export
      /\ pending'.expand = new /\ new # None
  BY <1>1, <1>3, <1>4, NoneAssumption DEF Queues
<1>6. /\ Underway("load", "loaded")' = Underway("load", "loaded")
      /\ Underway("edit", "edited")' = Underway("edit", "edited")
      /\ Underway("pack", "packed")' = Underway("pack", "packed")
      /\ Current("load", "loaded")' = Current("load", "loaded")
  BY <1>1, <1>5 DEF Underway, Current
<1>7. Current("expand", "expanded") = {}
  BY <1>1, <1>2 DEF IInv, WaitInv
<1>8. /\ Underway("expand", "expanded")' \subseteq Underway("expand", "expanded") \cup {new}
      /\ new \in Underway("expand", "expanded")'
  BY <1>1, <1>5 DEF Underway
<1>9. Current("expand", "expanded")' = {new}
  BY <1>1, <1>4, <1>7, <1>8 DEF Current
<1>10. TypeOK'
  BY <1>1, <1>5 DEF IInv, TypeOK, drafts
<1>11. QueueInv'
  <2>1. \A x \in Underway("expand", "expanded") : x.request < request
    <3>1. \A x \in Underway("expand", "expanded") : x.request # request
      BY <1>7 DEF Current
    <3> QED
      BY <3>1, Numbered
  <2>2. InOrder("expand", "expanded")'
    <3>1. \A x \in Underway("expand", "expanded")' : x.request <= request'
      BY <1>1, <1>4, <1>8, Numbered
    <3>2. \A x \in {polled.expanded, updates.expanded, work.expand} \ {None} :
              x.request < new.request
      BY <1>4, <2>1 DEF Underway
    <3>3. InOrder("expand", "expanded")
      BY DEF IInv, QueueInv
    <3> QED
      BY <3>1, <3>2, <3>3, <1>1, <1>5 DEF InOrder, Before
  <2>3. InOrder("load", "loaded")'
    BY <1>1, <1>5, <1>6 DEF IInv, QueueInv, InOrder, Before
  <2>4. Single("edit", "edited")' /\ Single("pack", "packed")'
    BY <1>1, <1>5 DEF IInv, QueueInv, Single
  <2> QED
    BY <2>2, <2>3, <2>4 DEF QueueInv
<1>12. PhaseInv' /\ ShownInv' /\ SentInv'
  BY <1>1, <1>2, <1>5 DEF IInv, PhaseInv, ShownInv, SentInv, drafts
<1>13. WaitInv'
  BY <1>1, <1>6, <1>9 DEF IInv, WaitInv
<1>14. KindInv'
  BY <1>1, <1>4, <1>6, <1>9 DEF IInv, KindInv
<1> QED
  BY <1>1, <1>10, <1>11, <1>12, <1>13, <1>14 DEF IInv, drafts

\* An export is posted.
LEMMA ExportStep ==
    ASSUME IInv, Export
    PROVE  IInv' /\ inputs' = inputs /\ sessions' = sessions
<1>1. /\ Quiet /\ document # None /\ pending' = [pending EXCEPT !.export = path]
      /\ UNCHANGED <<work, updates, stopped, exited, disk, polled, view, busy, saving, drafts, flushing>>
  BY DEF Export, Idle
<1>2. ~stopped /\ ~exited /\ flushing = None
  BY <1>1, QuietRuns
<1>3. path \in Paths /\ pending \in Queues
  BY <1>1, DocumentOfSession DEF IInv, TypeOK
<1>4. /\ pending' \in Queues /\ pending'.load = pending.load /\ pending'.edit = pending.edit
      /\ pending'.pack = pending.pack /\ pending'.expand = pending.expand
  BY <1>1, <1>3 DEF Queues
<1>5. /\ Underway("load", "loaded")' = Underway("load", "loaded")
      /\ Underway("expand", "expanded")' = Underway("expand", "expanded")
      /\ Underway("edit", "edited")' = Underway("edit", "edited")
      /\ Underway("pack", "packed")' = Underway("pack", "packed")
  BY <1>1, <1>4 DEF Underway
<1>6. /\ Current("load", "loaded")' = Current("load", "loaded")
      /\ Current("expand", "expanded")' = Current("expand", "expanded")
  BY <1>1, <1>5 DEF Current, view
<1>7. TypeOK'
  BY <1>1, <1>4 DEF IInv, TypeOK, view, drafts
<1>8. QueueInv'
  BY <1>1, <1>4, <1>5 DEF IInv, QueueInv, InOrder, Before, Single, view
<1>9. PhaseInv' /\ ShownInv' /\ SentInv'
  BY <1>1, <1>2, <1>4 DEF IInv, PhaseInv, ShownInv, SentInv, view, drafts
<1>10. WaitInv' /\ KindInv'
  BY <1>1, <1>5, <1>6 DEF IInv, WaitInv, KindInv, view
<1> QED
  BY <1>1, <1>7, <1>8, <1>9, <1>10 DEF IInv, view, drafts

(***************************************************************************)
(* Edits and packs are posted                                              *)
(***************************************************************************)

\* A rebuild is posted when none is under way; what else is under way gets old.
LEMMA EditPosted ==
    ASSUME IInv, ~busy, ~stopped, polled = NoUpdates, document # None,
           NEW patch \in Patches, NEW reads \in BOOLEAN, QueueEdit(patch, reads),
           inputs' = inputs, touched' \subseteq submitted', submitted' \subseteq Drafts,
           \A f \in submitted' \ touched' :
                /\ inputs[path][f] # None
                /\ f \in DOMAIN patch /\ patch[f] = inputs[path][f].text,
           flushing' = None
    PROVE  IInv'
<1> DEFINE new == [request |-> request + 1, doc |-> document, patch |-> patch, reads |-> reads]
<1>1. /\ request' = request + 1 /\ expanding' = FALSE /\ busy' = TRUE
      /\ pending' = [pending EXCEPT !.expand = None, !.edit = new]
      /\ UNCHANGED <<work, updates, stopped, exited, disk, polled,
                     path, document, loading, next_path, sessions, saving>>
  BY DEF QueueEdit
<1>2. document \in Documents /\ pending \in Queues
  BY DEF IInv, TypeOK
<1>3. new \in Edits /\ new.request = request + 1 /\ new.patch = patch
  BY <1>2, Numbered DEF Edits
<1> HIDE DEF new
<1>4. /\ pending' \in Queues /\ pending'.load = pending.load /\ pending'.expand = None
      /\ pending'.pack = pending.pack /\ pending'.export = pending.export
      /\ pending'.edit = new /\ new # None
  BY <1>1, <1>2, <1>3, NoneAssumption DEF Queues
<1>5. Underway("edit", "edited") = {}
  BY DEF IInv, WaitInv
<1>6. work.edit = None /\ updates.edited = None /\ polled.edited = None
  BY <1>5 DEF Underway
<1>7. /\ Underway("load", "loaded")' = Underway("load", "loaded")
      /\ Underway("expand", "expanded")' \subseteq Underway("expand", "expanded")
      /\ Underway("edit", "edited")' = {new}
      /\ Underway("pack", "packed")' = Underway("pack", "packed")
  BY <1>1, <1>4, <1>6 DEF Underway
<1>8. Current("load", "loaded")' = {} /\ Current("expand", "expanded")' = {}
  BY <1>1, <1>7, Numbered DEF Current
<1>9. TypeOK'
  BY <1>1, <1>4, Numbered DEF IInv, TypeOK
<1>10. QueueInv'
  <2>1. \A x \in Underway("load", "loaded") \cup Underway("expand", "expanded") :
            x.request <= request + 1
    <3>1. \A n \in Nat : n <= request => n <= request + 1
      BY Numbered
    <3> QED
      BY <3>1, Numbered
  <2>2. InOrder("load", "loaded")' /\ InOrder("expand", "expanded")'
    BY <2>1, <1>1, <1>4, <1>7 DEF IInv, QueueInv, InOrder, Before
  <2>3. Single("edit", "edited")' /\ Single("pack", "packed")'
    BY <1>1, <1>4, <1>6 DEF IInv, QueueInv, Single
  <2> QED
    BY <2>2, <2>3 DEF QueueInv
<1>11. PhaseInv'
  BY <1>1 DEF IInv, PhaseInv
<1>12. ~loading
  BY DEF IInv, KindInv
<1>13. WaitInv'
  BY <1>1, <1>7, <1>8, <1>12 DEF IInv, WaitInv
<1>14. KindInv'
  BY <1>1, <1>3, <1>7, <1>8, <1>12 DEF KindInv
<1>15. ShownInv'
  BY <1>1 DEF IInv, ShownInv
<1>16. SentInv'
  BY <1>1, <1>3, <1>4, <1>6 DEF SentInv
<1> QED
  BY <1>9, <1>10, <1>11, <1>13, <1>14, <1>15, <1>16 DEF IInv

\* A node action or a replacement.
LEMMA ActStep ==
    ASSUME IInv, NEW a \in Actions, Act(a)
    PROVE  IInv' /\ inputs' = inputs /\ sessions' = sessions
<1>1. /\ Quiet /\ ~busy /\ document # None /\ QueueEdit(a, TRUE)
      /\ UNCHANGED <<drafts, flushing>>
  BY DEF Act, Idle
<1>2. a \in Patches
  BY ActionsAssumption
<1>3. submitted' = {} /\ touched' = touched /\ touched \subseteq submitted /\ inputs' = inputs
  BY <1>1 DEF IInv, SentInv, TypeOK, drafts
<1>4. polled = NoUpdates /\ ~stopped /\ flushing' = None
  BY <1>1, QuietRuns
<1>5. touched' \subseteq submitted'
  BY <1>1, <1>3 DEF drafts
<1>6. IInv'
  BY <1>1, <1>2, <1>3, <1>4, <1>5, EditPosted
<1> QED
  BY <1>1, <1>3, <1>6 DEF QueueEdit

\* A batch of drafts.
LEMMA SubmitEditStep ==
    ASSUME IInv, SubmitEdit
    PROVE  IInv' /\ inputs' = inputs /\ sessions' = sessions
<1> DEFINE patch == [f \in flushing |-> Draft(f).text]
<1>1. /\ flushing # None /\ QueueEdit(patch, FALSE) /\ submitted' = flushing /\ touched' = {}
      /\ flushing' = None /\ inputs' = inputs
  BY DEF SubmitEdit
<1>2. /\ polled = NoUpdates /\ ~busy /\ document # None /\ ~stopped
      /\ \A f \in flushing : inputs[path][f] # None /\ inputs[path][f].text \in Values
      /\ flushing \subseteq Drafts
  BY <1>1 DEF IInv, PhaseInv, TypeOK
<1>3. patch \in [flushing -> Values] /\ flushing \in SUBSET Fields
  BY <1>2, FieldsAssumption DEF Draft
<1>4. patch \in Patches
  BY <1>3 DEF Patches
<1>5. \A f \in flushing : f \in DOMAIN patch /\ patch[f] = inputs[path][f].text
  BY DEF Draft
<1> HIDE DEF patch
<1>6. IInv'
  BY <1>1, <1>2, <1>4, <1>5, EditPosted
<1> QED
  BY <1>1, <1>6 DEF QueueEdit

\* Drafts are encoded: a text that is no value is marked, and one that changes
\* nothing is no draft any more.
LEMMA DraftsEncoded ==
    ASSUME IInv, path # None, document # None, NEW fs \in SUBSET Drafts,
           inputs' = [inputs EXCEPT ![path] = Encoded(fs)], path' = path, document' = document
    PROVE  /\ inputs' \in [Paths -> [Drafts -> Inputs \cup {None}]] /\ inputs'[path] = Encoded(fs)
           /\ DraftsSafe
<1>1. path \in Paths
  BY DocumentOfSession
<1>2. /\ Encoded(fs) \in [Drafts -> Inputs \cup {None}]
      /\ \A f \in Drafts :
            /\ Encoded(fs)[f] # None <=> inputs[path][f] # None
            /\ inputs[path][f] # None /\ inputs[path][f].pending =>
                    Encoded(fs)[f].pending \/ document.content[f] = inputs[path][f].text
  BY EncodedKeeps DEF IInv, Draft
<1>3. /\ inputs' \in [Paths -> [Drafts -> Inputs \cup {None}]] /\ inputs'[path] = Encoded(fs)
      /\ \A p \in Paths : p # path => inputs'[p] = inputs[p]
  BY <1>1, <1>2, OneFile DEF IInv
<1> QED
  BY <1>2, <1>3 DEF DraftsSafe

\* The drafts that lost the focus, or all of a file that is left, are encoded.
LEMMA FlushStep ==
    ASSUME IInv, NEW unfocused \in SUBSET Drafts, Flush(unfocused)
    PROVE  IInv' /\ DraftsSafe /\ sessions' = sessions
<1> DEFINE fs == IF next_path # None THEN Drafts ELSE unfocused
<1>1. /\ Quiet /\ ~busy /\ path # None /\ document # None
      /\ inputs' = [inputs EXCEPT ![path] = Encoded(fs)]
      /\ flushing' = Patched(fs)
      /\ UNCHANGED <<shared, polled, view, busy, saving, submitted, touched>>
  BY DEF Flush
<1>2. fs \in SUBSET Drafts
  OBVIOUS
<1> HIDE DEF fs
<1>3. polled = NoUpdates /\ ~stopped /\ ~exited
  BY <1>1, QuietRuns
<1>4. /\ Patched(fs) \subseteq Drafts
      /\ \A f \in Patched(fs) : /\ Encoded(fs)[f] # None
                               /\ Encoded(fs)[f].text \in Values
  BY <1>1, <1>2, EncodedKeeps DEF IInv
<1>5. /\ inputs' \in [Paths -> [Drafts -> Inputs \cup {None}]] /\ inputs'[path] = Encoded(fs)
      /\ DraftsSafe
  BY <1>1, <1>2, DraftsEncoded DEF view
<1>6. QueueInv' /\ WaitInv' /\ KindInv' /\ ShownInv'
  BY <1>1, QueuesUntouched DEF shared, view
<1>7. TypeOK'
  BY <1>1, <1>4, <1>5 DEF IInv, TypeOK, shared, view
<1>8. PhaseInv'
  BY <1>1, <1>3, <1>4, <1>5 DEF PhaseInv, shared, view
<1>9. SentInv'
  BY <1>1 DEF IInv, SentInv
<1> QED
  BY <1>1, <1>5, <1>6, <1>7, <1>8, <1>9 DEF IInv, view

\* A pack is posted when none is under way, unless a draft is invalid.
LEMMA PackStep ==
    ASSUME IInv, Pack
    PROVE  IInv' /\ DraftsSafe /\ sessions' = sessions
<1> DEFINE patch == [f \in Patched(Drafts) |-> Draft(f).text]
           new == [path |-> path, doc |-> document, patch |-> patch]
<1>1. /\ Quiet /\ path # None /\ sessions[path] # None /\ ~loading /\ ~saving
      /\ inputs' = [inputs EXCEPT ![path] = Encoded(Drafts)]
      /\ \/ UNCHANGED <<saving, pending>>
         \/ saving' = TRUE /\ pending' = [pending EXCEPT !.pack = new]
      /\ flushing' = IF busy THEN None ELSE Patched(Drafts)
      /\ UNCHANGED <<work, updates, stopped, exited, disk, polled, view, busy, submitted, touched>>
  BY DEF Pack, Toolbar, Idle
<1>2. document # None
  BY <1>1 DEF IInv, ShownInv
<1>3. polled = NoUpdates /\ ~stopped /\ ~exited
  BY <1>1, QuietRuns
<1>4. /\ Patched(Drafts) \subseteq Drafts
      /\ \A f \in Patched(Drafts) : Draft(f).text \in Values
      /\ \A f \in Drafts : /\ Encoded(Drafts)[f] # None <=> inputs[path][f] # None
                           /\ inputs[path][f] # None =>
                                Encoded(Drafts)[f].text = inputs[path][f].text
      /\ \A f \in Patched(Drafts) : inputs[path][f] # None /\ inputs[path][f].text \in Values
  BY <1>1, <1>2, EncodedKeeps DEF IInv, Draft
<1>5. /\ inputs' \in [Paths -> [Drafts -> Inputs \cup {None}]] /\ inputs'[path] = Encoded(Drafts)
      /\ DraftsSafe
  BY <1>1, <1>2, DraftsEncoded DEF view
<1>6. path \in Paths /\ document \in Documents /\ pending \in Queues
  BY <1>2, DocumentOfSession DEF IInv, TypeOK
<1>7. new \in Packs
  <2>1. patch \in [Patched(Drafts) -> Values] /\ Patched(Drafts) \in SUBSET Fields
    BY <1>4, FieldsAssumption
  <2>2. patch \in Patches
    BY <2>1 DEF Patches
  <2> HIDE DEF patch
  <2> QED
    BY <1>6, <2>2 DEF Packs
<1> HIDE DEF new
<1>8. /\ pending' \in Queues /\ pending'.load = pending.load /\ pending'.expand = pending.expand
      /\ pending'.edit = pending.edit /\ pending'.export = pending.export
      /\ \/ saving' = saving /\ pending'.pack = pending.pack
         \/ saving' = TRUE /\ pending'.pack = new
  BY <1>1, <1>6, <1>7 DEF Queues
<1>9. new # None
  BY <1>7, NoneAssumption
<1>10. pending.pack = None /\ work.pack = None /\ updates.packed = None /\ polled.packed = None
  BY <1>1 DEF IInv, WaitInv, Underway
<1>11. /\ Underway("load", "loaded")' = Underway("load", "loaded")
       /\ Underway("expand", "expanded")' = Underway("expand", "expanded")
       /\ Underway("edit", "edited")' = Underway("edit", "edited")
       /\ Current("load", "loaded")' = Current("load", "loaded")
       /\ Current("expand", "expanded")' = Current("expand", "expanded")
  BY <1>1, <1>8 DEF Underway, Current, view
<1>12. saving' <=> Underway("pack", "packed")' # {}
  BY <1>1, <1>8, <1>9, <1>10 DEF Underway
<1>13. TypeOK'
  <2>1. saving' \in BOOLEAN
    BY <1>8 DEF IInv, TypeOK
  <2>2. flushing' = None \/ flushing' \subseteq Drafts
    BY <1>1, <1>4
  <2> QED
    BY <2>1, <2>2, <1>1, <1>5, <1>8 DEF IInv, TypeOK, view
<1>14. QueueInv'
  <2>1. InOrder("load", "loaded")' /\ InOrder("expand", "expanded")'
    BY <1>1, <1>8, <1>11 DEF IInv, QueueInv, InOrder, Before, view
  <2>2. Single("edit", "edited")' /\ Single("pack", "packed")'
    BY <1>1, <1>8, <1>10 DEF IInv, QueueInv, Single
  <2> QED
    BY <2>1, <2>2 DEF QueueInv
<1>15. PhaseInv'
  BY <1>1, <1>2, <1>3, <1>4, <1>5 DEF PhaseInv, view
<1>16. WaitInv' /\ KindInv' /\ ShownInv'
  BY <1>1, <1>11, <1>12 DEF IInv, WaitInv, KindInv, ShownInv, view
<1>17. SentInv'
  <2>1. \A f \in submitted \ touched : f \in Drafts
    BY DEF IInv, TypeOK
  <2> QED
    BY <2>1, <1>1, <1>4, <1>5, <1>8 DEF IInv, SentInv, view
<1> QED
  BY <1>1, <1>5, <1>13, <1>14, <1>15, <1>16, <1>17 DEF IInv, view

\* Nothing is left to apply: the file that was chosen is opened.
LEMMA LeaveFileStep ==
    ASSUME IInv, LeaveFile
    PROVE  IInv' /\ HistorySafe /\ DraftsSafe
<1>1. /\ flushing = {} /\ flushing' = None
      /\ UNCHANGED <<work, updates, stopped, exited, disk, polled, busy, saving, submitted, touched>>
  BY DEF LeaveFile
<1>2. polled = NoUpdates /\ ~busy /\ ~stopped
  BY <1>1, NoneAssumption DEF IInv, PhaseInv
<1>3. CASE next_path = None
  <2>1. UNCHANGED <<pending, view, inputs>>
    BY <1>3 DEF LeaveFile
  <2>2. QueueInv' /\ WaitInv' /\ KindInv' /\ ShownInv'
    BY <1>1, <2>1, QueuesUntouched DEF view
  <2>3. TypeOK'
    BY <1>1, <2>1 DEF IInv, TypeOK, view
  <2>4. PhaseInv' /\ SentInv'
    BY <1>1, <1>2, <2>1 DEF IInv, PhaseInv, SentInv, view
  <2> QED
    BY <2>1, <2>2, <2>3, <2>4, DraftsUntouched, SessionsUntouched DEF IInv, view
<1>4. CASE next_path # None
  <2>1. Switch(next_path) /\ next_path' = None /\ next_path \in Paths
    BY <1>4 DEF LeaveFile, IInv, TypeOK
  <2> QED
    BY <2>1, <1>1, <1>2, SwitchStep
<1> QED
  BY <1>3, <1>4

\* The workbench is stopped between two calls of the UI.
LEMMA StopStep ==
    ASSUME IInv, Stop
    PROVE  IInv' /\ inputs' = inputs /\ sessions' = sessions
<1>1. /\ Quiet /\ stopped' = TRUE
      /\ UNCHANGED <<pending, work, updates, exited, disk,
                     polled, view, busy, saving, drafts, flushing>>
  BY DEF Stop, Idle
<1>2. ~exited /\ polled = NoUpdates /\ flushing = None
  BY <1>1, QuietRuns
<1>3. TypeOK' /\ PhaseInv'
  BY <1>1, <1>2 DEF IInv, TypeOK, PhaseInv, view, drafts
<1>4. QueueInv' /\ WaitInv' /\ KindInv' /\ ShownInv' /\ SentInv'
  BY <1>1 DEF IInv, QueueInv, WaitInv, KindInv, ShownInv, SentInv, InOrder, Single,
              Underway, Current, view, drafts
<1> QED
  BY <1>1, <1>3, <1>4 DEF IInv, view, drafts

(***************************************************************************)
(* Theorems                                                                *)
(***************************************************************************)

\* The workbench starts with nothing open and nothing under way.
LEMMA InitInvariant ==
    ASSUME Init
    PROVE  IInv
<1>1. /\ NoWork \in Queues /\ NoUpdates \in Mailboxes /\ NoInputs \in [Drafts -> Inputs \cup {None}]
  BY DEF NoWork, NoUpdates, NoInputs, Queues, Mailboxes
<1>2. TypeOK
  BY <1>1 DEF Init, TypeOK
<1>3. /\ Underway("load", "loaded") = {} /\ Underway("expand", "expanded") = {}
      /\ Underway("edit", "edited") = {} /\ Underway("pack", "packed") = {}
  BY DEF Init, Underway, NoWork, NoUpdates
<1>4. Current("load", "loaded") = {} /\ Current("expand", "expanded") = {}
  BY <1>3 DEF Current
<1>5. QueueInv
  BY <1>3 DEF Init, QueueInv, InOrder, Before, Single, NoWork, NoUpdates
<1>6. PhaseInv /\ ShownInv /\ SentInv
  BY DEF Init, PhaseInv, ShownInv, SentInv
<1>7. WaitInv /\ KindInv
  BY <1>3, <1>4 DEF Init, WaitInv, KindInv
<1> QED
  BY <1>2, <1>5, <1>6, <1>7 DEF IInv

\* What the steps of the UI keep.
LEMMA UiStep ==
    ASSUME IInv, UI
    PROVE  IInv' /\ HistorySafe /\ DraftsSafe
<1>1. CASE Poll
  BY <1>1, PollStep, DraftsUntouched, SessionsUntouched DEF Poll, view, drafts
<1>2. CASE FinishLoad
  <2>1. /\ IInv' /\ path' = path /\ sessions[path] = None /\ inputs' = inputs
        /\ \A p \in Paths : p # path => sessions'[p] = sessions[p]
    BY <1>2, FinishLoadStep
  <2>2. HistorySafe
    BY <2>1 DEF HistorySafe, Recalled
  <2> QED
    BY <2>1, <2>2, DraftsUntouched
<1>3. CASE FinishExpand
  BY <1>3, FinishExpandStep, DraftsUntouched
<1>4. CASE FinishEdit
  BY <1>4, FinishEditStep
<1>5. CASE FinishPack
  BY <1>5, FinishPackStep
<1>6. ASSUME NEW k \in DOMAIN NoUpdates, DropStale(k)
      PROVE  IInv' /\ HistorySafe /\ DraftsSafe
  BY <1>6, DropStaleStep, DraftsUntouched, SessionsUntouched DEF DropStale, view, drafts
<1>7. CASE LeaveDue /\ Flush(Drafts)
  BY <1>7, FlushStep, SessionsUntouched
<1>8. CASE SubmitEdit
  BY <1>8, SubmitEditStep, DraftsUntouched, SessionsUntouched
<1>9. CASE LeaveFile
  BY <1>9, LeaveFileStep
<1> QED
  BY <1>1, <1>2, <1>3, <1>4, <1>5, <1>6, <1>7, <1>8, <1>9 DEF UI

\* What the steps of the user keep.
LEMMA UserStep ==
    ASSUME IInv, User
    PROVE  IInv' /\ HistorySafe /\ DraftsSafe
<1>1. ASSUME NEW p \in Paths, Open(p) PROVE IInv' /\ HistorySafe /\ DraftsSafe
  BY <1>1, OpenStep
<1>2. ASSUME NEW f \in Drafts, Withdraw(f) PROVE IInv' /\ HistorySafe /\ DraftsSafe
  BY <1>2, WithdrawStep, SessionsUntouched DEF Withdraw, view
<1>3. ASSUME NEW f \in Drafts, NEW t \in Texts, Type(f, t)
      PROVE  IInv' /\ HistorySafe /\ DraftsSafe
  BY <1>3, TypeStep, SessionsUntouched DEF Type, view
<1>4. CASE UndoDrafts
  BY <1>4, UndoDraftsStep, SessionsUntouched DEF UndoDrafts, view
<1>5. CASE Undo \/ Redo
  BY <1>5, UndoStep, RedoStep
<1>6. CASE Expand \/ Export \/ Stop
  BY <1>6, ExpandStep, ExportStep, StopStep, DraftsUntouched, SessionsUntouched
<1>7. CASE Pack
  BY <1>7, PackStep, SessionsUntouched
<1>8. ASSUME NEW a \in Actions, Act(a) PROVE IInv' /\ HistorySafe /\ DraftsSafe
  BY <1>8, ActStep, DraftsUntouched, SessionsUntouched
<1>9. ASSUME NEW fs \in SUBSET Drafts, Flush(fs) PROVE IInv' /\ HistorySafe /\ DraftsSafe
  BY <1>9, FlushStep, SessionsUntouched
<1> QED
  BY <1>1, <1>2, <1>3, <1>4, <1>5, <1>6, <1>7, <1>8, <1>9 DEF User

\* What every step keeps.
LEMMA NextStep ==
    ASSUME IInv, [Next]_vars
    PROVE  IInv' /\ HistorySafe /\ DraftsSafe
<1>1. CASE Worker
  <2>1. IInv'
    BY <1>1, WorkerStep
  <2>2. sessions' = sessions /\ inputs' = inputs
    BY <1>1 DEF Worker, Take, Exit, DoLoad, DoExpand, DoExport, DoEdit, DoPack, Skip, Turn,
                view, drafts
  <2> QED
    BY <2>1, <2>2, DraftsUntouched, SessionsUntouched
<1>2. CASE UI
  BY <1>2, UiStep
<1>3. CASE User
  BY <1>3, UserStep
<1>4. CASE UNCHANGED vars
  <2>1. UNCHANGED <<pending, work, updates, stopped, exited, disk, polled, request, path, document,
                    loading, expanding, next_path, sessions, busy, saving, inputs, submitted, touched,
                    flushing>>
    BY <1>4 DEF vars, shared, view, drafts
  <2>2. QueueInv' /\ WaitInv' /\ KindInv' /\ ShownInv'
    BY <2>1, QueuesUntouched
  <2>3. TypeOK'
    BY <2>1 DEF IInv, TypeOK
  <2>4. PhaseInv' /\ SentInv'
    BY <2>1 DEF IInv, PhaseInv, SentInv
  <2> QED
    BY <2>1, <2>2, <2>3, <2>4, DraftsUntouched, SessionsUntouched DEF IInv
<1> QED
  BY <1>1, <1>2, <1>3, <1>4 DEF Next, Resting

\* The inductive invariant of the editing protocol: whatever the order of answers,
\* clicks and frames, with any files, fields and number of requests.
THEOREM WorkbenchInvariant == Spec => []IInv
<1>1. Init => IInv
  BY InitInvariant
<1>2. IInv /\ [Next]_vars => IInv'
  BY NextStep
<1> QED
  BY <1>1, <1>2, PTL DEF Spec

\* Every wait of the UI ends with an answer that is still to come, an answer nobody
\* waits for is stale, and what is shown is what the session edits (ui.rs: poll).
THEOREM WorkbenchAnswered == Spec => []Answered
<1>1. IInv => Answered
  <2>1. SUFFICES ASSUME IInv PROVE Answered
    OBVIOUS
  <2>2. Current("edit", "edited") = Underway("edit", "edited")
    BY <2>1 DEF IInv, KindInv, Current
  <2>3. /\ TypeOK
        /\ saving <=> Underway("pack", "packed") # {}
        /\ ~stopped =>
            /\ loading <=> Current("load", "loaded") # {}
            /\ expanding <=> Current("expand", "expanded") # {}
            /\ busy <=> Current("edit", "edited") # {}
    BY <2>1, <2>2 DEF IInv, WaitInv
  <2>4. document # None =>
          /\ ~loading /\ path # None
          /\ sessions[path] # None /\ sessions[path].document = document
    BY <2>1 DEF IInv, KindInv, ShownInv
  <2>5. \A x \in Current("expand", "expanded") :
          x.doc # None => document # None /\ x.doc.content = document.content
    BY <2>1 DEF IInv, KindInv
  <2> QED
    BY <2>3, <2>4, <2>5 DEF Answered
<1> QED
  BY <1>1, WorkbenchInvariant, PTL

\* No rebuild, save, switch or undo loses typed input (ui/editing.rs: refresh).
THEOREM WorkbenchDraftsKept == Spec => DraftsKept
<1>1. IInv /\ [Next]_vars => [DraftsSafe]_vars
  BY NextStep
<1>2. [DraftsSafe]_vars =>
        [\A p \in Paths, f \in Drafts :
            inputs[p][f] # None /\ inputs[p][f].pending =>
                \/ inputs'[p][f] # None /\ inputs'[p][f].pending
                \/ path' = p /\ document'.content[f] = inputs[p][f].text
                \/ Withdrawn(p, f)]_vars
  BY DEF DraftsSafe
<1> QED
  BY <1>1, <1>2, WorkbenchInvariant, PTL DEF Spec, DraftsKept

\* What a session shows is one undo or redo away after any step that replaces it,
\* and no session with changes is dropped (session.rs: apply, saved).
THEOREM WorkbenchHistoryKept == Spec => HistoryKept
<1>1. IInv /\ [Next]_vars => [HistorySafe]_vars
  BY NextStep
<1>2. [HistorySafe]_vars =>
        [\A p \in Paths : sessions[p] # None =>
            IF sessions'[p] = None THEN ~Dirty(sessions[p]) /\ sessions[p].undo = <<>>
            ELSE Recalled(sessions[p], sessions'[p])]_vars
  BY DEF HistorySafe
<1> QED
  BY <1>1, <1>2, WorkbenchInvariant, PTL DEF Spec, HistoryKept

\* A request that the worker has not taken is not replaced by one of its kind.
LEMMA KeepsRequests ==
    ASSUME IInv, Next
    PROVE  Taken("edit") /\ Taken("pack") /\ Taken("export")
<1> DEFINE Same == /\ pending'.edit = pending.edit /\ pending'.pack = pending.pack
                   /\ pending'.export = pending.export
           Goal == Taken("edit") /\ Taken("pack") /\ Taken("export")
<1> SUFFICES Goal
  OBVIOUS
<1>1. Same => Goal
  BY DEF Taken
<1>2. pending' = pending => Goal
  BY DEF Taken
<1>3. pending \in Queues
  BY DEF IInv, TypeOK
<1>4. ASSUME NEW p, Switch(p) PROVE Same
  BY <1>3, <1>4 DEF Switch, Queues
<1>5. ASSUME NEW patch, NEW reads, QueueEdit(patch, reads), ~busy, ~stopped PROVE Goal
  <2>1. pending.edit = None
    BY <1>5 DEF IInv, WaitInv, Underway
  <2>2. pending'.pack = pending.pack /\ pending'.export = pending.export
    BY <1>3, <1>5 DEF QueueEdit, Queues
  <2> QED
    BY <2>1, <2>2 DEF Taken
<1>6. CASE Worker
  <2>1. CASE Take
    BY <2>1 DEF Take, Taken
  <2>2. CASE ~Take
    <3>1. pending' = pending
      BY <1>6, <2>2 DEF Worker, Exit, DoLoad, DoExpand, DoExport, DoEdit, DoPack, Skip, Turn
    <3> QED
      BY <3>1, <1>2
  <2> QED
    BY <2>1, <2>2
<1>7. CASE UI
  <2>1. CASE SubmitEdit
    <3>1. QueueEdit([f \in flushing |-> Draft(f).text], FALSE) /\ flushing # None
      BY <2>1 DEF SubmitEdit
    <3>2. ~busy /\ ~stopped
      BY <3>1 DEF IInv, PhaseInv
    <3> QED
      BY <3>1, <3>2, <1>5
  <2>2. CASE LeaveFile
    <3>1. pending' = pending \/ Switch(next_path)
      BY <2>2 DEF LeaveFile
    <3> QED
      BY <3>1, <1>1, <1>2, <1>4
  <2>3. CASE Poll \/ FinishLoad \/ FinishExpand \/ FinishEdit \/ FinishPack
    <3>1. pending' = pending
      BY <2>3 DEF Poll, FinishLoad, FinishExpand, FinishEdit, FinishPack, Process, shared
    <3> QED
      BY <3>1, <1>2
  <2>4. ASSUME NEW k \in DOMAIN NoUpdates, DropStale(k) PROVE Goal
    <3>1. pending' = pending
      BY <2>4 DEF DropStale, Process, shared
    <3> QED
      BY <3>1, <1>2
  <2>5. CASE LeaveDue /\ Flush(Drafts)
    <3>1. pending' = pending
      BY <2>5 DEF Flush, shared
    <3> QED
      BY <3>1, <1>2
  <2> HIDE DEF Goal
  <2> QED
    BY <1>7, <2>1, <2>2, <2>3, <2>4, <2>5 DEF UI
<1>8. CASE User
  <2>1. ASSUME NEW p \in Paths, Open(p) PROVE Goal
    <3>1. pending' = pending \/ Switch(p)
      BY <2>1 DEF Open
    <3> QED
      BY <3>1, <1>1, <1>2, <1>4
  <2>2. ASSUME NEW f \in Drafts, Withdraw(f) \/ \E t \in Texts : Type(f, t) PROVE Goal
    <3>1. pending' = pending
      BY <2>2 DEF Withdraw, Type, shared
    <3> QED
      BY <3>1, <1>2
  <2>3. CASE UndoDrafts \/ Undo \/ Redo \/ Stop
    <3>1. pending' = pending
      BY <2>3 DEF UndoDrafts, Undo, Redo, History, Stop, shared
    <3> QED
      BY <3>1, <1>2
  <2>4. CASE Expand
    <3>1. Same
      BY <1>3, <2>4 DEF Expand, Queues
    <3> QED
      BY <3>1, <1>1
  <2>5. CASE Export
    <3>1. pending.export = None /\ pending'.edit = pending.edit /\ pending'.pack = pending.pack
      BY <1>3, <2>5 DEF Export, Queues
    <3> QED
      BY <3>1 DEF Taken
  <2>6. CASE Pack
    <3>1. pending.pack = None
      BY <2>6 DEF IInv, WaitInv, Underway, Pack
    <3>2. pending'.edit = pending.edit /\ pending'.export = pending.export
      BY <1>3, <2>6 DEF Pack, Queues
    <3> QED
      BY <3>1, <3>2 DEF Taken
  <2>7. ASSUME NEW a \in Actions, Act(a) PROVE Goal
    <3>1. QueueEdit(a, TRUE) /\ ~busy /\ ~stopped
      BY <2>7 DEF Act, Idle, Quiet
    <3> QED
      BY <3>1, <1>5
  <2>8. ASSUME NEW fs \in SUBSET Drafts, Flush(fs) PROVE Goal
    <3>1. pending' = pending
      BY <2>8 DEF Flush, shared
    <3> QED
      BY <3>1, <1>2
  <2> HIDE DEF Goal
  <2> QED
    BY <1>8, <2>1, <2>2, <2>3, <2>4, <2>5, <2>6, <2>7, <2>8 DEF User
<1>9. CASE Resting
  <2>1. pending' = pending
    BY <1>9 DEF Resting, vars, shared
  <2> QED
    BY <2>1, <1>2
<1> QED
  BY <1>6, <1>7, <1>8, <1>9 DEF Next

\* What the worker has to do for the user is done before a request of its kind comes,
\* and closing completes what was accepted (worker.rs: queue_edit, pack, stop).
THEOREM WorkbenchNothingOverwritten == Spec => NothingOverwritten
<1>1. IInv /\ [Next]_vars => [Taken("edit") /\ Taken("pack") /\ Taken("export")]_vars
  BY KeepsRequests
<1>2. IInv => (exited => pending.pack = None /\ pending.export = None /\ work = NoWork)
  BY DEF IInv, PhaseInv
<1> QED
  BY <1>1, <1>2, WorkbenchInvariant, PTL DEF Spec, NothingOverwritten

================================================================================
