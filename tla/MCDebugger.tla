----------------------------- MODULE MCDebugger ------------------------------
(* The debug tools side by side, each on an instance of its own: `part` says   *)
(* which one a behaviour is about.                                             *)
(*   "debugger"  a script with a plain run of instructions, a watched write, a *)
(*               yield and a stop, longer than a turn may be                   *)
(*   "trace"     a recording that is longer than its buffer                    *)
(*   "monster"   two forms, one of them a variant of the quest's own species,  *)
(*               in a pool of two                                              *)
EXTENDS AiDebug

CONSTANTS Capacity, Interval, Fields, Pcs, MaxCaptured, MaxFrame
CONSTANTS Forms, Original, Other, Slots, QueueLimit, Patience, MaxRequests, MaxSerial, Nobody
VARIABLES now, buffer, replay, captured, refused,
          scene, moving, loaded, actors, serial, override, monster,
          controlled_monster, epoch, queue, batch, hook, hud_target,
          world, sent, unloaded, did,
          part

Script == <<"plain", "write", "plain", "yield", "stop">>

Trace == INSTANCE AiTrace
traceVars == <<now, buffer, replay, captured, refused>>

TheForms == {<<Original, 1>>, <<Other, 0>>}

Transformed == INSTANCE MonsterControl

\* The pool has a slot for the target, a transformation waits for a while, and Nobody
\* is none of what may be there.
ASSUME ControlAssumption ==
  /\ 1 \in Slots /\ Patience \in Nat \ {0} /\ QueueLimit \in Nat /\ MaxRequests \in Nat
  /\ Nobody \notin Slots \union Transformed!Species
  /\ Nobody \notin Transformed!Controls \union Transformed!Instances

\* A recording has room for an instruction, and a script for a position.
ASSUME TraceAssumption ==
  /\ Capacity \in Nat \ {0} /\ Interval \in Nat \ {0}
  /\ Pcs \subseteq Nat /\ Pcs # {}

monsterVars == <<scene, moving, loaded, actors, serial, override, monster,
                 controlled_monster, epoch, queue, batch, hook, hud_target,
                 world, sent, unloaded, did>>

DebuggerInit ==
  /\ part \in {"debugger", "trace", "monster"}
  /\ Init /\ (part = "debugger" \/ ~controlled)
  /\ Trace!TraceInit
  /\ Transformed!Init
DebuggerNext ==
  /\ \/ part = "debugger" /\ Next /\ UNCHANGED <<traceVars, monsterVars>>
     \/ part = "trace" /\ Trace!TraceNext /\ UNCHANGED <<vars, monsterVars>>
     \/ part = "monster" /\ Transformed!Next /\ UNCHANGED <<vars, traceVars>>
  /\ UNCHANGED part

\* Fairness of AiDebug and of MonsterControl, each for the behaviours about it:
\* the others rest.
DebuggerFairness ==
  /\ WF_vars(part = "debugger" /\ Interpret)
  /\ WF_vars(part = "debugger" /\ BeforeFrame)
  /\ WF_vars(part = "debugger" /\ EndFrame)
  /\ SF_vars(part = "debugger" /\ Tick)
  /\ WF_monsterVars(part = "monster" /\ Transformed!Frame)
DebuggerSpec ==
  DebuggerInit /\ [][DebuggerNext]_<<part, vars, traceVars, monsterVars>>
  /\ DebuggerFairness

\* The properties of AiTrace and MonsterControl, stated there.
ReplayIsCapture == Trace!ReplayIsCapture
WritesReachTheirActor == Transformed!WritesReachTheirActor
CreatedAsPrepared == Transformed!CreatedAsPrepared

\* Nothing is under way for ever: a step of the AI debugger (StepEnds of AiDebug),
\* and a hunter without itself and without a monster (HunterResumes of
\* MonsterControl).  As one formula, since a behaviour is about one part.
UnderWay == \/ part = "debugger" /\ Stepping
            \/ part = "monster" /\ Transformed!Held
NothingLasts == UnderWay ~> ~UnderWay
==============================================================================
