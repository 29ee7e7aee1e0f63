---------------------------- MODULE ConfigStore -----------------------------
(***************************************************************************)
(* The configuration provider of the game process (mods/config/src).       *)
(* Every consumer registers the defaults, fixed values and INI names of    *)
(* its section of the one TOML file; the table of ConfigService and the    *)
(* hooks of the Win32 profile API read a cached document and change the    *)
(* file through Store.update, all under one mutex.  The mod manager and    *)
(* the user's editor write the same file from other processes, where the   *)
(* mutex does not reach.                                                   *)
(*                                                                         *)
(* A document maps section names to tables, a table maps keys to values;   *)
(* nested tables and keys that differ only in case are left out.           *)
(***************************************************************************)
EXTENDS Naturals

CONSTANTS
    Names,          \* section names, several spellings of one name among them
    Keys,
    Values,
    Strings,        \* the values that are TOML strings
    Folded,         \* Folded[n] is n without its case
    NoIni,          \* in place of the INI name of a section that has none
    Registrations,  \* the definitions a consumer may register
    Others,         \* what another process may put under a key: <<name, key, value>>
    Overlap,        \* other processes write while an update is between its read and its write
    Torn,           \* a file that does not parse
    NoOp,           \* no update holds the mutex
    MaxWrites       \* bound: changes of the file

NoTable == [k \in {} |-> k]
Merge(a, b) ==
    [k \in DOMAIN a \cup DOMAIN b |-> IF k \in DOMAIN b THEN b[k] ELSE a[k]]
Section(doc, s) == IF s \in DOMAIN doc THEN doc[s] ELSE NoTable
With(doc, s, table) == [n \in DOMAIN doc \cup {s} |-> IF n = s THEN table ELSE doc[n]]
Without(doc, s) == [n \in DOMAIN doc \ {s} |-> doc[n]]

Sections == UNION {[held -> Values] : held \in SUBSET Keys}
Documents == UNION {[written -> Sections] : written \in SUBSET Names}

ASSUME StoreAssumption ==
    /\ \A r \in Registrations : r.defaults \in Sections /\ r.fixed \in Sections
    /\ Others \subseteq Names \X Keys \X Values
    /\ Torn \notin Documents

VARIABLES
    file,    \* the document on disk, or Torn
    cache,   \* Store.document, or Torn while no provider runs
    regs,    \* Store.registrations
    op,      \* the update between read_document and fs::write
    wanted,  \* history: the document of everyone's changes in the order they were made
    writes   \* history: changes of the file

storeVars == <<file, cache, regs, op, wanted, writes>>

Similar(v, w) == (v \in Strings) <=> (w \in Strings)
Aliases(s, r) == {Folded[n] : n \in {s, r.ini} \ {NoIni}}

\* effective_section: defaults under the section's values under the fixed ones.
EffectiveSection(doc, s, r) == Merge(Merge(r.defaults, Section(doc, s)), r.fixed)
ValidTypes(values, r) ==
    /\ \A k \in DOMAIN r.defaults : Similar(values[k], r.defaults[k])
    /\ \A k \in DOMAIN r.fields \cap DOMAIN values : values[k] \in r.fields[k]
Unaliased(doc, s, r) ==
    \A n \in DOMAIN doc \ {s} : Folded[n] \notin Aliases(s, r)
Usable(doc, s, r) == Unaliased(doc, s, r) /\ ValidTypes(EffectiveSection(doc, s, r), r)
AllUsable(doc) == \A s \in DOMAIN regs : Usable(doc, s, regs[s])

\* Mutant: fixed values are merged for readers only.
FixNothing(doc) == doc
\* Merging the fixed values of every registration into a document.
Fix(doc) ==
    LET fixing == {s \in DOMAIN regs : DOMAIN regs[s].fixed # {}}
    IN [n \in DOMAIN doc \cup fixing |->
           IF n \in fixing THEN Merge(Section(doc, n), regs[n].fixed) ELSE doc[n]]

---------------------------------------------------------------------------
(* INI names: a registered section answers to its INI name only, any other *)
(* table of strings to every spelling of its own.                          *)

Exposed(name) ==
    {s \in DOMAIN regs : regs[s].ini # NoIni /\ Folded[regs[s].ini] = Folded[name]}
Hidden(name) == Exposed(name) = {} /\ \E s \in DOMAIN regs : Folded[s] = Folded[name]
Spelled(doc, name) ==
    IF \E n \in DOMAIN doc : Folded[n] = Folded[name]
    THEN CHOOSE n \in DOMAIN doc : Folded[n] = Folded[name] ELSE name
IniSection(doc, name) ==
    IF Exposed(name) = {} THEN Spelled(doc, name) ELSE CHOOSE s \in Exposed(name) : TRUE
Reserved(r, k) == k \in DOMAIN r.defaults \cup DOMAIN r.fixed \cup DOMAIN r.fields
\* A section nobody registered is a legacy one: all its values are strings.
Legacy(doc, s) == \A k \in DOMAIN Section(doc, s) : doc[s][k] \in Strings

MaySet(doc, p) ==
    LET s == IniSection(doc, p.section) IN
    IF Exposed(p.section) = {} THEN Legacy(doc, s) /\ p.value \in Strings
    ELSE IF p.key \in DOMAIN regs[s].fields THEN p.value \in regs[s].fields[p.key]
    ELSE ~Reserved(regs[s], p.key) /\ p.value \in Strings
MayRemove(doc, p) ==
    LET s == IniSection(doc, p.section) IN
    IF Exposed(p.section) = {} THEN Legacy(doc, s)
    ELSE p.key \in DOMAIN regs[s].fields \/ ~Reserved(regs[s], p.key)

Accepted(doc, p) ==
    \/ p.kind = "write"
    \/ /\ ~Hidden(p.section)
       /\ \/ p.kind = "set" /\ MaySet(doc, p)
          \/ p.kind = "remove_key" /\ MayRemove(doc, p)
          \/ /\ p.kind = "remove_section"
             /\ Exposed(p.section) = {} => Legacy(doc, IniSection(doc, p.section))

Pair(k, v) == [x \in {k} |-> v]
Apply(doc, p) ==
    LET s == IF p.kind = "write" THEN p.section ELSE IniSection(doc, p.section) IN
    IF p.kind \in {"write", "set"} THEN With(doc, s, Merge(Section(doc, s), Pair(p.key, p.value)))
    ELSE IF s \notin DOMAIN doc THEN doc
    ELSE IF p.kind = "remove_key" THEN With(doc, s, Without(doc[s], p.key))
    ELSE Without(doc, s)

Patches == [kind : {"write", "set", "remove_key", "remove_section"},
            section : Names, key : Keys, value : Values]

---------------------------------------------------------------------------
StoreTypeOK ==
    /\ {file, cache, wanted} \subseteq Documents \cup {Torn}
    /\ DOMAIN regs \subseteq Names /\ \A s \in DOMAIN regs : regs[s] \in Registrations
    /\ op # NoOp => op.doc \in Documents /\ op.patch \in Patches /\ cache # Torn
    /\ writes \in Nat

StoreInit ==
    /\ file = NoTable /\ wanted = NoTable /\ writes = 0
    /\ cache = Torn /\ regs = NoTable /\ op = NoOp

\* Store::load: an unreadable file fails the provider's start.
Load ==
    /\ cache = Torn /\ file # Torn
    /\ cache' = file
    /\ UNCHANGED <<file, regs, op, wanted, writes>>

Up == cache # Torn /\ op = NoOp

Register(s, r) ==
    /\ Up /\ s \notin DOMAIN regs
    /\ ValidTypes(Merge(r.defaults, r.fixed), r)
    /\ \A t \in DOMAIN regs : Aliases(s, r) \cap Aliases(t, regs[t]) = {}
    /\ Usable(cache, s, r)
    /\ regs' = With(regs, s, r)
    /\ UNCHANGED <<file, cache, op, wanted, writes>>

\* Mutant: the result is not validated.
BeginUnchecked(p) ==
    /\ Up /\ file # Torn
    /\ Accepted(file, p)
    /\ op' = [patch |-> p, doc |-> Fix(Apply(file, p))]
    /\ UNCHANGED <<file, cache, regs, wanted, writes>>

\* Mutant: the cached document stands in for the file.
BeginOnCache(p) ==
    /\ Up /\ file # Torn
    /\ Accepted(cache, p)
    /\ AllUsable(Fix(Apply(cache, p)))
    /\ op' = [patch |-> p, doc |-> Fix(Apply(cache, p))]
    /\ UNCHANGED <<file, cache, regs, wanted, writes>>

\* The part of update before fs::write.  A patch or a result that some
\* registration refuses ends here and changes nothing.
BeginUpdate(p) ==
    /\ Up /\ file # Torn
    /\ Accepted(file, p)
    /\ AllUsable(Fix(Apply(file, p)))
    /\ op' = [patch |-> p, doc |-> Fix(Apply(file, p))]
    /\ UNCHANGED <<file, cache, regs, wanted, writes>>

Commit ==
    /\ op # NoOp /\ writes < MaxWrites
    /\ file' = op.doc /\ cache' = op.doc /\ op' = NoOp
    /\ wanted' = Fix(Apply(wanted, op.patch))
    /\ writes' = writes + 1
    /\ UNCHANGED regs

\* fs::write truncates before it writes: what an error or the end of the
\* process leaves is the old file, an empty one or a part that does not parse.
Leftover == {file, NoTable, Torn}
WriteFails ==
    /\ op # NoOp /\ writes < MaxWrites
    /\ file' \in Leftover
    /\ wanted' = IF file' = file THEN wanted ELSE file'
    /\ op' = NoOp /\ writes' = writes + 1
    /\ UNCHANGED <<cache, regs>>

\* The game exits or crashes, during an update or not.
Exit ==
    /\ cache # Torn
    /\ cache' = Torn /\ regs' = NoTable /\ op' = NoOp
    /\ UNCHANGED <<file, wanted, writes>>

\* The mod manager or an editor changes a value.
OtherWrites(change) ==
    LET s == change[1]
        changed(doc) == With(doc, s, Merge(Section(doc, s), Pair(change[2], change[3])))
    IN /\ file # Torn /\ writes < MaxWrites
       /\ Overlap \/ op = NoOp
       /\ file' = changed(file) /\ file' # file
       /\ wanted' = changed(wanted)
       /\ writes' = writes + 1
       /\ UNCHANGED <<cache, regs, op>>

StoreNext ==
    \/ Load \/ Exit
    \/ \E s \in Names, r \in Registrations : Register(s, r)
    \/ \E p \in Patches : BeginUpdate(p)
    \/ Commit \/ WriteFails
    \/ \E change \in Others : OtherWrites(change)

StoreSpec == StoreInit /\ [][StoreNext]_storeVars

---------------------------------------------------------------------------
\* No component's saved change is undone by another component's write: the file
\* is the one everybody's changes make in order ("the disk is read again before
\* a write, to keep what other components saved", service.rs:12).  And every
\* registered section can be read from the cache at any time: its values have
\* the types of the defaults, its INI fields the registered form, and no other
\* table answers to its names, whatever consumers, INI hooks and other processes
\* wrote since (Store.register, update).  A consumer reads its fixed values from
\* the file as well: whatever INI write or patch is accepted, what is written has
\* them, also those of sections that are not its own.
SavedChangesKept ==
    /\ StoreTypeOK
    /\ file = wanted
    /\ cache # Torn => AllUsable(cache)
    /\ op # NoOp => \A s \in DOMAIN regs : \A k \in DOMAIN regs[s].fixed :
          /\ k \in DOMAIN Section(op.doc, s)
          /\ op.doc[s][k] = regs[s].fixed[k]

=============================================================================
