------------------------------- MODULE AiDebug -------------------------------
(***************************************************************************)
(* The debugger of a monster's AI: Debugger of shared/ai-debug and the     *)
(* session of mods/debug-tools/src/provider/native/ai_debug.rs around it.  *)
(*                                                                         *)
(* The game's interpreter runs one turn of a script when em_ai_tick finds  *)
(* the trigger latch set.  Hooks at its entry, at each dispatch and at its *)
(* exit let a session park the turn: the interpreter returns through its   *)
(* own epilogue, and the next entry takes the turn up again from the saved *)
(* registers.  Between two native frames the user's commands are applied   *)
(* and before_frame pumps a parked turn that may go on.  All of it runs on *)
(* the game's thread, so `phase` says which part of a frame is under way.  *)
(*                                                                         *)
(* External, from how the hooks use it: the interpreter, the tick, the     *)
(* latch and the actor's state.  `control` stands for what ControlStamp    *)
(* reads and never returns to an earlier value; `version` for the instance *)
(* and its AI.  Left out: opcode breakpoints and conditions (a set of      *)
(* positions stands for both), several watched fields, the recording (see  *)
(* AiTrace), what the user interface shows.                                *)
(***************************************************************************)
EXTENDS Naturals

CONSTANTS
  Program,       \* what the instruction at each position does, from 1 up
  MaxCount,      \* 999, the dispatches of one turn
  Breakable,     \* the positions a breakpoint is put on
  MaxCommands,   \* bound: commands of the user
  MaxChanges,    \* bound: changes of the actor's control state
  NoSession,
  MaxVersions    \* bound: replacements of the instance or of its AI

VARIABLES
  actor,        \* the native actor
  session,      \* Runtime.session with its Debugger, or NoSession
  registers,    \* the interpreter's position and dispatch count in a turn
  phase,        \* "commands", "world", or who called the interpreter
  ticked,       \* em_ai_tick ran in this frame
  commands,     \* how many commands were applied
  controlled,   \* the user steers this actor: controlled_monster
  \* History, which no step reads:
  unfinished,   \* the turn that began and has not ended
  ran,          \* turns begun in this frame by the pump and by the tick
  owed,         \* a trigger was suppressed and no turn ran since
  voided,       \* ... and the actor's control state changed meanwhile
  asked,        \* what the user asked for that is still to be done
  stopped       \* the dispatch a breakpoint stopped at, 0 if none

history == <<unfinished, ran, owed, voided, asked, stopped>>
vars == <<actor, session, registers, phase, ticked, commands, controlled, history>>

Positions == DOMAIN Program
NoTurn == [pc |-> 0, count |-> 0, control |-> 0]
NoField == 2
NoBudget == MaxCount + 1
Turns == {"force", "detach", "attach", "pump", "tick"}

Valid(s) == s # NoSession /\ s.version = actor.version

AnyTurn ==
  {NoTurn} \union [pc : Positions, count : 0 .. MaxCount, control : 0 .. MaxChanges]
Sessions ==
  [version : 0 .. MaxVersions, mode : {"paused", "running", "step", "until yield"},
   stop_reason : {"none", "user", "breakpoint", "step", "yielded", "budget", "invalidated"},
   skip_once : BOOLEAN, breakpoint_boundary : Nat, skip_boundary : Nat,
   remaining : 0 .. NoBudget, breakpoints : SUBSET Breakable, watch : BOOLEAN,
   seen : 0 .. NoField, pending : 0 .. NoField, resume : AnyTurn, entered : BOOLEAN,
   detaching : BOOLEAN, wake : BOOLEAN, pumped : BOOLEAN]

\* A script has a beginning, and only a stop ends it.
ASSUME ScriptAssumption ==
  /\ Positions \subseteq Nat \ {0} /\ 1 \in Positions
  /\ \A pc \in Positions : Program[pc] # "stop" => pc + 1 \in Positions
  /\ MaxCount \in Nat \ {0} /\ MaxChanges \in Nat /\ MaxVersions \in Nat
  /\ NoSession \notin Sessions

TypeOK ==
  /\ actor \in [version : 0 .. MaxVersions, control : 0 .. MaxChanges,
                cursor : Positions, latch : BOOLEAN, field : {0, 1}]
  /\ phase \in Turns \union {"commands", "world"}
  /\ session # NoSession =>
       /\ session \in Sessions
       /\ session.entered <=> phase \in Turns /\ Valid(session)
       /\ session.pending # NoField => session.entered
       /\ session.mode = "paused" <=> session.stop_reason # "none"

\* The parked turn t may go on: ControlStamp::read is what it was.
Fits(t) == t # NoTurn /\ t.control = actor.control
Fresh == [pc |-> actor.cursor, count |-> 0, control |-> actor.control]

-----------------------------------------------------------------------------
\* The Debugger.

Stop(s, why) ==
  [s EXCEPT !.mode = "paused", !.stop_reason = why, !.remaining = NoBudget,
            !.breakpoint_boundary = 0]
Resume(s) ==
  [s EXCEPT !.skip_once = FALSE, !.skip_boundary = s.breakpoint_boundary,
            !.breakpoint_boundary = 0, !.mode = "running", !.stop_reason = "none",
            !.remaining = NoBudget]
Step(s) ==
  [s EXCEPT !.mode = "step", !.stop_reason = "none", !.skip_once = TRUE,
            !.skip_boundary = 0, !.breakpoint_boundary = 0, !.remaining = NoBudget]
RunUntilYield(s) == [Resume(s) EXCEPT !.mode = "until yield", !.remaining = MaxCount]

\* An enabled breakpoint applies to the dispatch at pc: its position, or the
\* watched field differs from what the last recorded instruction left.
Hit(s, pc) ==
  \/ pc \in s.breakpoints
  \/ s.watch /\ s.seen \notin {NoField, actor.field}

Proceeds(s, pc) ==
  /\ s.mode # "paused"
  /\ s.skip_once \/ s.skip_boundary = pc \/ ~Hit(s, pc)

\* Mutant: the dispatch that was resumed is let through for ever.
BeforeInstructionKeeps(s, pc) ==
  IF s.mode = "paused" THEN s
  ELSE IF s.skip_once THEN [s EXCEPT !.skip_once = FALSE]
  ELSE IF Proceeds(s, pc) THEN s
  ELSE [Stop(s, "breakpoint") EXCEPT !.breakpoint_boundary = pc]
BeforeInstruction(s, pc) ==
  LET taken == [s EXCEPT !.skip_boundary = 0] IN
  IF s.mode = "paused" THEN s
  ELSE IF s.skip_once THEN [s EXCEPT !.skip_once = FALSE]
  ELSE IF Proceeds(s, pc) THEN taken
  ELSE [Stop(taken, "breakpoint") EXCEPT !.breakpoint_boundary = pc]

\* Mutant: a write of the watched field does not stop.
AfterInstructionUnwatched(s, outcome) ==
  LET r == [s EXCEPT !.pending = NoField, !.seen = actor.field] IN
  IF s.mode = "step" THEN Stop(r, "step")
  ELSE IF s.mode = "until yield" /\ outcome # "continue" THEN Stop(r, "yielded")
  ELSE IF s.remaining = NoBudget THEN r
  ELSE IF s.remaining <= 1 THEN Stop(r, "budget")
  ELSE [r EXCEPT !.remaining = @ - 1]
AfterInstruction(s, outcome) ==
  LET r == [s EXCEPT !.pending = NoField, !.seen = actor.field] IN
  IF s.watch /\ s.pending # actor.field THEN Stop(r, "breakpoint")
  ELSE IF s.mode = "step" THEN Stop(r, "step")
  ELSE IF s.mode = "until yield" /\ outcome # "continue" THEN Stop(r, "yielded")
  ELSE IF s.remaining = NoBudget THEN r
  ELSE IF s.remaining <= 1 THEN Stop(r, "budget")
  ELSE [r EXCEPT !.remaining = @ - 1]

Complete(s, outcome) == IF s.pending = NoField THEN s ELSE AfterInstruction(s, outcome)

-----------------------------------------------------------------------------
\* The hooks in the interpreter.

Entered(s) ==
  LET e == [s EXCEPT !.entered = TRUE, !.wake = FALSE, !.resume = NoTurn] IN
  IF s.resume = NoTurn \/ Fits(s.resume) THEN e ELSE Stop(e, "invalidated")

\* Mutant: a turn that is taken up counts its dispatches anew.
EntryPointUncounted(s) ==
  IF Valid(s) /\ Fits(s.resume) THEN [s.resume EXCEPT !.count = 0] ELSE Fresh
EntryPoint(s) == IF Valid(s) /\ Fits(s.resume) THEN s.resume ELSE Fresh

\* The interpreter is called by `who` while the session is s.
Enter(s, who) ==
  /\ session' = IF Valid(s) THEN Entered(s) ELSE s
  /\ registers' = EntryPoint(s)
  /\ phase' = who
  /\ unfinished' = IF Fits(unfinished) THEN unfinished ELSE Fresh
  /\ owed' = FALSE /\ voided' = FALSE
  /\ stopped' = IF Fits(unfinished) THEN stopped ELSE 0

NewSession ==
  [version |-> actor.version, mode |-> "paused", stop_reason |-> "user",
   skip_once |-> FALSE, breakpoint_boundary |-> 0, skip_boundary |-> 0,
   remaining |-> NoBudget, breakpoints |-> {}, watch |-> FALSE, seen |-> NoField,
   pending |-> NoField, resume |-> NoTurn, entered |-> FALSE, detaching |-> FALSE,
   wake |-> FALSE, pumped |-> FALSE]

\* The interpreter returns to its caller, leaving the session s.
Return(s) ==
  /\ session' = IF phase = "detach" THEN NoSession
                ELSE IF phase = "attach" THEN NewSession ELSE s
  /\ phase' = IF phase \in {"pump", "tick"} THEN "world" ELSE "commands"
  /\ registers' = NoTurn

Debugged == session # NoSession /\ session.entered /\ ~session.detaching
AtExit == registers.count >= MaxCount      \* the interpreter ends the turn itself
Left(s, outcome) ==
  IF s = NoSession \/ ~s.entered THEN s
  ELSE [Complete(s, outcome) EXCEPT !.entered = FALSE]

\* instruction: the dispatch is not let through, or the bytes of the script
\* cannot be read as they were; the turn is parked.
Park ==
  /\ phase \in Turns /\ Debugged /\ ~AtExit
  /\ \E readable \in BOOLEAN :
       LET c == Complete(session, "continue")
           s == IF readable THEN BeforeInstruction(c, registers.pc)
                ELSE Stop(c, "invalidated")
       IN /\ readable => ~Proceeds(c, registers.pc)
          /\ Return([s EXCEPT !.entered = FALSE, !.resume = [registers EXCEPT !.control = actor.control]])
          /\ stopped' = IF readable /\ c.mode # "paused" THEN registers.pc
                        ELSE IF c.mode # "paused" THEN 0 ELSE stopped
  /\ asked' = "nothing"
  /\ UNCHANGED <<actor, ticked, commands, controlled, unfinished, ran, owed, voided>>

\* The dispatch is let through: a plain instruction goes on in the turn, a
\* yield ends it, a stop also puts the cursor back.
Run ==
  LET pc == registers.pc
      does == Program[pc]
      s == IF Debugged
           THEN [BeforeInstruction(Complete(session, "continue"), pc) EXCEPT !.pending = actor.field]
           ELSE session
      next == [registers EXCEPT !.pc = @ + 1, !.count = @ + 1]
      ends == does \in {"yield", "stop"}
  IN /\ phase \in Turns /\ ~AtExit
     /\ Debugged => Proceeds(Complete(session, "continue"), pc)
     /\ IF ends
        THEN /\ actor' = [actor EXCEPT !.cursor = IF does = "stop" THEN 1 ELSE pc + 1]
             /\ Return(Left(s, does))
             /\ unfinished' = NoTurn
        ELSE /\ actor' = [actor EXCEPT !.field = IF does = "write" THEN 1 - @ ELSE @]
             /\ session' = s /\ registers' = next /\ phase' = phase
             /\ unfinished' = [unfinished EXCEPT !.pc = @ + 1, !.count = @ + 1]
     /\ asked' = IF Debugged /\ \/ asked = "step"
                                \/ asked = "turn" /\ ends
                                \/ session.watch /\ does = "write"
                 THEN "nothing" ELSE asked
     /\ stopped' = 0
     /\ UNCHANGED <<ticked, commands, controlled, ran, owed, voided>>

\* The dispatch count is used up.
Exit ==
  /\ phase \in Turns /\ AtExit
  /\ actor' = [actor EXCEPT !.cursor = registers.pc]
  /\ Return(Left(session, "yield"))
  /\ unfinished' = NoTurn
  /\ asked' = IF Debugged /\ asked = "turn" THEN "nothing" ELSE asked
  /\ UNCHANGED <<ticked, commands, controlled, ran, owed, voided, stopped>>

-----------------------------------------------------------------------------
\* The user's commands, applied between two frames.

Commanded ==
  /\ phase = "commands" /\ commands < MaxCommands
  /\ commands' = commands + 1
  /\ UNCHANGED <<ticked, controlled, ran>>

\* Mutant: a trigger is put back only when the script may run.
RearmedRunning(s) ==
  IF s.wake /\ s.mode # "paused" THEN [actor EXCEPT !.latch = TRUE] ELSE actor
\* A trigger that the session holds is put back into the latch.
Rearmed(s) == IF s.wake THEN [actor EXCEPT !.latch = TRUE] ELSE actor

\* Mutant: only a parked turn is to go on.
GoesOnParked(s) == IF s.resume = NoTurn THEN s ELSE [s EXCEPT !.wake = TRUE]
\* Step and RunUntilYield do not wait for the game to trigger a turn.
GoesOn(s) == [s EXCEPT !.wake = TRUE]

\* detach: a parked turn that may go on is ended first; otherwise a suppressed
\* trigger is put back.  `who` is the command, Attach or Detach.
Detach(who) ==
  /\ Commanded
  /\ IF Valid(session) /\ Fits(session.resume)
     THEN /\ Enter(Resume([session EXCEPT !.detaching = TRUE]), who)
          /\ UNCHANGED actor
     ELSE /\ session' = IF who = "attach" THEN NewSession ELSE NoSession
          /\ actor' = IF Valid(session) THEN Rearmed(session) ELSE actor
          /\ stopped' = 0
          /\ UNCHANGED <<registers, phase, unfinished, owed, voided>>
  /\ asked' = "nothing"

\* The commands of an attached session.
Command ==
  /\ Commanded /\ Valid(session)
  /\ LET granted == session.stop_reason # "invalidated" IN
     \/ session' = Stop(session, "user") /\ asked' = "nothing"
     \/ granted /\ session' = Resume(session) /\ asked' = "anything"
     \/ granted /\ session' = GoesOn(Step(session)) /\ asked' = "step"
     \/ granted /\ session' = GoesOn(RunUntilYield(session)) /\ asked' = "turn"
     \/ session' = [session EXCEPT !.seen = NoField] /\ UNCHANGED asked      \* ClearTrace
     \/ /\ \E b \in SUBSET Breakable, w \in BOOLEAN :
             session' = [session EXCEPT !.breakpoints = b, !.watch = w]
        /\ UNCHANGED asked
  /\ UNCHANGED <<actor, registers, phase, unfinished, owed, voided, stopped>>

\* invalidate_target: a command while the quest is not ready, or for an
\* instance that is gone.
Invalidate ==
  /\ Commanded /\ session # NoSession
  /\ session' = NoSession
  /\ unfinished' = NoTurn /\ owed' = FALSE /\ voided' = FALSE
  /\ asked' = "nothing" /\ stopped' = 0
  /\ UNCHANGED <<actor, registers, phase>>

\* execute: another AI is published for the actor.
HotReplace ==
  /\ Commanded /\ actor.version < MaxVersions
  /\ session' = IF Valid(session) THEN NoSession ELSE session
  /\ actor' = [actor EXCEPT !.version = @ + 1, !.cursor = 1, !.latch = TRUE]
  /\ unfinished' = NoTurn /\ stopped' = 0 /\ asked' = "nothing"
  /\ UNCHANGED <<registers, phase, owed, voided>>

\* next_action: a decision by hand.
ForceTurn == Commanded /\ controlled /\ Enter(session, "force") /\ UNCHANGED <<actor, asked>>

-----------------------------------------------------------------------------
\* The frame.

BeforeFrame ==
  LET s == [session EXCEPT !.pumped = FALSE]
      moved == session.resume # NoTurn /\ ~Fits(session.resume)
  IN
  /\ phase = "commands"
  /\ ticked' = FALSE
  /\ IF ~Valid(session)
     THEN /\ session' = NoSession /\ phase' = "world" /\ ran' = 0
          /\ asked' = "nothing" /\ stopped' = 0
          /\ UNCHANGED <<actor, registers, unfinished, owed, voided>>
     ELSE IF moved
     THEN /\ session' = Stop([s EXCEPT !.resume = NoTurn, !.wake = FALSE], "invalidated")
          /\ phase' = "world" /\ ran' = 0
          /\ voided' = owed /\ asked' = "nothing" /\ stopped' = 0
          /\ UNCHANGED <<actor, registers, unfinished, owed>>
     ELSE IF s.mode # "paused" /\ s.resume # NoTurn
     THEN /\ Enter([s EXCEPT !.pumped = TRUE], "pump") /\ ran' = 1
          /\ UNCHANGED <<actor, asked>>
     ELSE /\ session' = s /\ phase' = "world" /\ ran' = 0
          /\ actor' = IF s.mode # "paused" THEN Rearmed(s) ELSE actor
          /\ UNCHANGED <<registers, unfinished, owed, voided, asked, stopped>>
  /\ UNCHANGED <<commands, controlled>>

\* Mutant: a frame that pumped a turn may start another.
SuspendsPaused(s) == s.mode = "paused"
\* should_suspend
Suspends(s) == s.mode = "paused" \/ s.pumped

\* em_ai_tick once the actor's delay is over: it clears the latch and calls
\* select_action.
Tick ==
  /\ phase = "world" /\ ~ticked /\ actor.latch
  /\ ticked' = TRUE
  /\ actor' = [actor EXCEPT !.latch = FALSE]
  /\ IF Valid(session) /\ Suspends(session)
     THEN /\ session' = [session EXCEPT !.wake = TRUE]
          /\ owed' = TRUE /\ voided' = FALSE
          /\ UNCHANGED <<registers, phase, unfinished, ran, stopped>>
     ELSE IF ~Valid(session) /\ controlled
     THEN /\ owed' = FALSE /\ voided' = FALSE
          /\ UNCHANGED <<session, registers, phase, unfinished, ran, stopped>>
     ELSE Enter(session, "tick") /\ ran' = ran + 1
  /\ UNCHANGED <<commands, controlled, asked>>

\* The rest of the game: triggers, values of the watched field, the control
\* state, the instance.
World ==
  /\ phase = "world"
  /\ \/ actor' = [actor EXCEPT !.latch = TRUE]
     \/ actor' = [actor EXCEPT !.field = 1 - @]
     \/ actor.control < MaxChanges /\ \E c \in {1, actor.cursor} :
          actor' = [actor EXCEPT !.control = @ + 1, !.cursor = c]
  /\ UNCHANGED <<session, registers, phase, ticked, commands, controlled, history>>

InstanceChanges ==
  /\ phase = "world" /\ actor.version < MaxVersions
  /\ actor' = [actor EXCEPT !.version = @ + 1, !.cursor = 1, !.latch = FALSE]
  /\ unfinished' = NoTurn /\ ran' = 0 /\ owed' = FALSE /\ voided' = FALSE
  /\ stopped' = 0 /\ asked' = "nothing"
  /\ UNCHANGED <<session, registers, phase, ticked, commands, controlled>>

EndFrame ==
  /\ phase = "world" /\ phase' = "commands"
  /\ UNCHANGED <<actor, session, registers, ticked, commands, controlled, history>>

Init ==
  /\ actor = [version |-> 0, control |-> 0, cursor |-> 1, latch |-> FALSE, field |-> 0]
  /\ session = NoSession /\ registers = NoTurn /\ phase = "commands"
  /\ ticked = FALSE /\ commands = 0 /\ controlled \in BOOLEAN
  /\ unfinished = NoTurn /\ ran = 0 /\ owed = FALSE /\ voided = FALSE
  /\ asked = "nothing" /\ stopped = 0

Interpret == Park \/ Run \/ Exit
Commands ==
  \/ \E who \in {"attach", "detach"} : Detach(who)
  \/ Command \/ Invalidate \/ HotReplace \/ ForceTurn
Frame == BeforeFrame \/ Tick \/ World \/ InstanceChanges \/ EndFrame
Next == Interpret \/ Commands \/ Frame

\* The game goes on frame after frame, a turn runs to its end, and a trigger is
\* looked at in some frame, however long the actor's delay.
Spec == Init /\ [][Next]_vars
Fairness ==
  WF_vars(Interpret) /\ WF_vars(BeforeFrame) /\ WF_vars(EndFrame) /\ SF_vars(Tick)
FairSpec == Spec /\ Fairness

-----------------------------------------------------------------------------
\* A turn of the native interpreter is executed whole and once, whatever it is
\* interrupted by: the interpreter is always at the instruction and at the
\* dispatch count where the turn that began last is, a turn that is cut short
\* is held by the session unless the actor's control state changed, and no two
\* turns begin in one frame.
TurnsUnbroken ==
  /\ TypeOK
  /\ phase \in Turns => /\ registers.pc = unfinished.pc
                        /\ registers.count = unfinished.count
  /\ phase \notin Turns /\ Fits(unfinished) =>
       Valid(session) /\ session.resume = unfinished
  /\ ran <= 1

\* A trigger that the debugger suppressed is still there, in the latch or in
\* the session, until a turn runs; unless the actor's control state changed and
\* the parked turn was given up.
TriggerKept ==
  owed => actor.latch \/ (Valid(session) /\ session.wake) \/ voided

\* The debugged AI does no more than was asked: nothing while it is paused, one
\* instruction for a single step, to the end of the turn at most for `run until
\* yield`, and nothing after an instruction that wrote the watched field.  And an
\* instruction a breakpoint applies to is executed only by a single step, or once
\* the debugger has stopped at that very dispatch (Debugger::before_instruction,
\* after_instruction, resume).
RunsAsAsked ==
  [][Run /\ Debugged =>
       /\ asked # "nothing"
       /\ Hit(Complete(session, "continue"), registers.pc) =>
            session.mode = "step" \/ stopped = registers.pc]_vars

Stepping == session # NoSession /\ session.mode \in {"step", "until yield"}
\* A single step and a `run until yield` come to their end.
StepEnds == Stepping ~> ~Stepping
==============================================================================
