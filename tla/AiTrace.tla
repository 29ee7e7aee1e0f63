------------------------------- MODULE AiTrace -------------------------------
(***************************************************************************)
(* The recording of the AI debugger, TraceBuffer, Recording and            *)
(* ReplaySession of shared/ai-debug/src/lib.rs: a bounded buffer of the    *)
(* instructions of one instance, each stored as what it changed and what   *)
(* changed since the one before, and a replay that rebuilds the captured   *)
(* states from any of the retained ones.                                   *)
(*                                                                         *)
(* A snapshot is a frame, a position and the values of the captured        *)
(* fields.  Once a recording is opened the game is left alone, the two     *)
(* share nothing.  Left out: instructions and notes, script images, limits *)
(* of sizes, JSON, the instance (a debugger records one only).             *)
(***************************************************************************)
EXTENDS Naturals, Sequences

CONSTANTS
  Capacity,      \* of the buffer, 1024
  Interval,      \* CHECKPOINT_INTERVAL
  Fields,        \* captured fields
  Pcs,           \* positions of the script
  MaxCaptured,   \* bound: instructions
  MaxFrame       \* bound: frames

VARIABLES
  now,         \* the state of the game, as a snapshot
  buffer,      \* the TraceBuffer
  replay,      \* the ReplaySession, or Closed
  captured,    \* history: the snapshots, the first `before` and each `after`
  refused      \* history: an instruction was not recorded

traceVars == <<now, buffer, replay, captured, refused>>

Closed == <<>>
Min(S) == CHOOSE x \in S : \A y \in S : x <= y
Empty == [initial |-> Closed, latest |-> Closed, entries |-> <<>>, dropped |-> 0]

\* field_changes: the fields that differ, with their values before and after.
Changes(before, after) ==
  [f \in {g \in Fields : before.fields[g] # after.fields[g]} |->
     [before |-> before.fields[f], after |-> after.fields[f]]]

Write(changes, fields) ==
  [f \in Fields |-> IF f \in DOMAIN changes THEN changes[f].after ELSE fields[f]]
Agree(changes, fields) == \A f \in DOMAIN changes : fields[f] = changes[f].before

\* StateDelta::between and TraceEntry of an instruction.
Between(before, after) ==
  [pc_before |-> before.pc, pc_after |-> after.pc,
   frame_before |-> before.frame, frame_after |-> after.frame,
   fields |-> Changes(before, after)]
\* Mutant: what happened between two instructions is not recorded.
EntryAlone(previous, before, after, sequence) ==
  [sequence |-> sequence, frame |-> before.frame, pc_before |-> before.pc,
   pc_after |-> after.pc, input |-> Between(before, before),
   changes |-> Changes(before, after)]
Entry(previous, before, after, sequence) ==
  [sequence |-> sequence, frame |-> before.frame, pc_before |-> before.pc,
   pc_after |-> after.pc, input |-> Between(previous, before),
   changes |-> Changes(before, after)]

\* StateDelta::apply on the input, then the changes of the instruction itself.
Input(e, s) == [frame |-> e.input.frame_after, pc |-> e.input.pc_after,
                fields |-> Write(e.input.fields, s.fields)]
Applies(e, s) ==
  LET i == Input(e, s) IN
  /\ s.pc = e.input.pc_before /\ s.frame = e.input.frame_before
  /\ e.input.frame_after >= e.input.frame_before
  /\ Agree(e.input.fields, s.fields)
  /\ i.pc = e.pc_before /\ i.frame = e.frame
  /\ Agree(e.changes, i.fields)
Apply(e, s) ==
  [Input(e, s) EXCEPT !.pc = e.pc_after, !.fields = Write(e.changes, @)]

\* TraceBuffer::push
Previous(b, before) == IF b.latest = Closed THEN before ELSE b.latest
Pushable(b, before, after) ==
  LET e == Entry(Previous(b, before), before, after, 0) IN
  /\ after.frame = before.frame
  /\ Applies(e, Previous(b, before)) /\ Apply(e, Previous(b, before)) = after
\* Mutant: the state before the oldest entry stays when that one is dropped.
PushKeepsInitial(b, before, after) ==
  LET e == Entry(Previous(b, before), before, after, b.dropped + Len(b.entries))
      first == IF b.initial = Closed THEN before ELSE b.initial
  IN IF Len(b.entries) = Capacity
     THEN [initial |-> first, latest |-> after,
           entries |-> Append(Tail(b.entries), e), dropped |-> b.dropped + 1]
     ELSE [b EXCEPT !.initial = first, !.latest = after, !.entries = Append(@, e)]
Push(b, before, after) ==
  LET e == Entry(Previous(b, before), before, after, b.dropped + Len(b.entries))
      first == IF b.initial = Closed THEN before ELSE b.initial
  IN IF Len(b.entries) = Capacity
     THEN [initial |-> Apply(Head(b.entries), first), latest |-> after,
           entries |-> Append(Tail(b.entries), e), dropped |-> b.dropped + 1]
     ELSE [b EXCEPT !.initial = first, !.latest = after, !.entries = Append(@, e)]

\* The state after `position` entries, from the snapshot s after `from` entries.
StateFrom(entries, from, s, position) ==
  LET state[i \in from .. position] ==
        IF i = from THEN s ELSE Apply(entries[i], state[i - 1])
  IN state[position]

\* validate and validated_checkpoints
Sound(b) ==
  \A i \in DOMAIN b.entries :
    /\ b.entries[i].sequence = b.dropped + i - 1
    /\ Applies(b.entries[i], StateFrom(b.entries, 0, b.initial, i - 1))
\* Mutant: a checkpoint is stored before its entry is applied.
CheckpointsEarly(b) ==
  [p \in {q \in 0 .. Len(b.entries) : q % Interval = 0} |->
     StateFrom(b.entries, 0, b.initial, IF p = 0 THEN 0 ELSE p - 1)]
Checkpoints(b) ==
  [p \in {q \in 0 .. Len(b.entries) : q % Interval = 0} |->
     StateFrom(b.entries, 0, b.initial, p)]

\* The last checkpoint at or before a position, and the state from there.
CheckpointBefore(checkpoints, position) ==
  CHOOSE p \in DOMAIN checkpoints :
    p <= position /\ \A q \in DOMAIN checkpoints : q <= position => q <= p
Seek(r, position) ==
  LET from == CheckpointBefore(r.checkpoints, position) IN
  [r EXCEPT !.position = position,
            !.snapshot = StateFrom(r.entries, from, r.checkpoints[from], position)]

-----------------------------------------------------------------------------
TraceInit ==
  /\ now = [frame |-> 0, pc |-> Min(Pcs), fields |-> [f \in Fields |-> 0]]
  /\ buffer = Empty /\ replay = Closed /\ captured = <<>> /\ refused = FALSE

\* At most one field takes another value.
Moves(fields) ==
  {fields} \union {[fields EXCEPT ![f] = 1 - @] : f \in Fields}

\* The game goes on to another frame, the world and the cursor change.
World ==
  /\ replay = Closed /\ now.frame < MaxFrame
  /\ \E pc \in Pcs, fields \in Moves(now.fields) :
       now' = [frame |-> now.frame + 1, pc |-> pc, fields |-> fields]
  /\ UNCHANGED <<buffer, replay, captured, refused>>

\* An instruction is executed and recorded.
Instruction ==
  /\ replay = Closed /\ Len(captured) <= MaxCaptured
  /\ \E pc \in Pcs \ {now.pc}, fields \in Moves(now.fields) :
       LET after == [now EXCEPT !.pc = pc, !.fields = fields] IN
       /\ now' = after
       /\ IF Pushable(buffer, now, after)
          THEN /\ buffer' = Push(buffer, now, after)
               /\ captured' = (IF captured = <<>> THEN <<now>> ELSE captured) \o <<after>>
               /\ UNCHANGED refused
          ELSE refused' = TRUE /\ UNCHANGED <<buffer, captured>>
  /\ UNCHANGED replay

\* ClearTrace
Clear ==
  /\ replay = Closed /\ buffer' = Empty /\ captured' = <<>>
  /\ UNCHANGED <<now, replay, refused>>

\* recording and ReplaySession::new
Open ==
  /\ replay = Closed /\ buffer.initial # Closed
  /\ replay' = [entries |-> buffer.entries, checkpoints |-> Checkpoints(buffer),
                position |-> 0, snapshot |-> buffer.initial]
  /\ UNCHANGED <<now, buffer, captured, refused>>

StepForward ==
  /\ replay # Closed /\ replay.position < Len(replay.entries)
  /\ replay' = [replay EXCEPT !.position = @ + 1,
                              !.snapshot = Apply(replay.entries[replay.position + 1], @)]
  /\ UNCHANGED <<now, buffer, captured, refused>>
StepBack ==
  /\ replay # Closed /\ replay.position > 0
  /\ replay' = Seek(replay, replay.position - 1)
  /\ UNCHANGED <<now, buffer, captured, refused>>
Jump ==
  /\ replay # Closed
  /\ \E p \in 0 .. Len(replay.entries) : replay' = Seek(replay, p)
  /\ UNCHANGED <<now, buffer, captured, refused>>

TraceNext ==
  World \/ Instruction \/ Clear \/ Open \/ StepForward \/ StepBack \/ Jump
TraceSpec == TraceInit /\ [][TraceNext]_traceVars

-----------------------------------------------------------------------------
\* Wherever a replay is moved to, it shows exactly what was captured there,
\* also in what is left of a recording whose beginning was dropped; no executed
\* instruction is refused, and what the buffer gives out is accepted again.
ReplayIsCapture ==
  /\ ~refused /\ Sound(buffer)
  /\ replay # Closed =>
       replay.snapshot = captured[buffer.dropped + replay.position + 1]
==============================================================================
