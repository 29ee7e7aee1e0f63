------------------------------ MODULE Overlay ------------------------------
(***************************************************************************)
(* The UI contributions of the Base mod and the frame that calls them:     *)
(* mods/ui backend/registry.rs, the frame order of backend/dx9.rs and the  *)
(* panel table of service.rs.                                              *)
(*                                                                         *)
(* A contribution is an Arc<Mutex<Option<Contribution>>> in a list behind  *)
(* a mutex of its own.  The Present hook copies the list for every pass    *)
(* and calls each contribution under the contribution's lock; a mod that   *)
(* unregisters removes the entry from the list first and takes the Option  *)
(* out under the same lock afterwards.  A callback may itself unregister   *)
(* another contribution.  The lock of c is held by the renderer exactly    *)
(* while at = c; every other critical section is one step.                 *)
(***************************************************************************)
EXTENDS Naturals, Sequences, FiniteSets

CONSTANTS
    Panels,     \* contributions; each one is registered at most once
    Mods,       \* threads of the mods that register and unregister
    Render,     \* the thread inside the Present hook
    None        \* no panel

ASSUME OverlayAssumption == /\ Render \notin Mods
                            /\ None \notin Panels

VARIABLES
    entries,        \* OverlayRegistry.entries
    slot,           \* content of each panel's Option<Contribution>
    registrations,  \* panels whose OverlayRegistration still holds its entry
    step,           \* where each thread is inside unregister
    target,         \* the panel it unregisters
    pass,           \* the pass the frame is in
    rest,           \* the rest of the pass's copy of the list
    at,             \* the panel being called: its lock is held
    calling,        \* the callback it is in
    ready,          \* Runtime.pipeline is present
    disabled,       \* Runtime.rendering_disabled
    asked,          \* panels that asked for Block in this policy pass
    captured,       \* panels on whose behalf the input is withheld from the game
    hook,           \* the D3D9 hooks: "installed", "stopping", "removed"
    inits           \* history: how often initialize was called on each panel

frameVars == <<pass, rest, at, calling, ready, disabled, asked>>
callVars  == <<step, target>>
vars == <<entries, slot, registrations, step, target, pass, rest, at, calling,
          ready, disabled, asked, captured, hook, inits>>

Threads == Mods \cup {Render}
Passes  == {"initialize", "ui", "policy", "output"}

TypeOK ==
    /\ entries \in Seq(Panels) /\ rest \in Seq(Panels)
    /\ slot \in [Panels -> {"unborn", "plain", "initialized", "none"}]
    /\ registrations \subseteq Panels
    /\ step \in [Threads -> {"idle", "removed", "unlisted"}]
    /\ target \in [Threads -> Panels \cup {None}]
    /\ pass \in Passes \cup {"idle"}
    /\ at \in Panels \cup {None}
    /\ calling \in Passes \cup {"none"}
    /\ ready \in BOOLEAN /\ disabled \in BOOLEAN
    /\ asked \subseteq Panels /\ captured \subseteq Panels
    /\ hook \in {"installed", "stopping", "removed"}
    /\ inits \in [Panels -> Nat]
    /\ \A t \in Threads : step[t] = "idle" <=> target[t] = None
    /\ at = None <=> calling = "none"
    /\ pass = "idle" => at = None /\ rest = <<>>

Init ==
    /\ entries = <<>> /\ rest = <<>>
    /\ slot = [c \in Panels |-> "unborn"]
    /\ registrations = {}
    /\ step = [t \in Threads |-> "idle"]
    /\ target = [t \in Threads |-> None]
    /\ pass = "idle" /\ at = None /\ calling = "none"
    /\ ready = FALSE /\ disabled = FALSE
    /\ asked = {} /\ captured = {}
    /\ hook = "installed"
    /\ inits = [c \in Panels |-> 0]

-----------------------------------------------------------------------------
(* The registry                                                            *)

\* A mod thread calls when it is not inside another call; the render thread
\* calls from a callback.
MayCall(t) == step[t] = "idle" /\ (t = Render => at # None)

\* OverlayRegistry::register: the entry is pushed under the list's lock.
Register(t, c) ==
    /\ MayCall(t) /\ slot[c] = "unborn"
    /\ slot' = [slot EXCEPT ![c] = "plain"]
    /\ entries' = Append(entries, c)
    /\ registrations' = registrations \cup {c}
    /\ UNCHANGED <<callVars, frameVars, captured, hook, inits>>

\* unregister takes the entry out of the registration, so that a second call
\* returns at once; the documented rule keeps a callback off its own panel.
Unregister(t, c) ==
    /\ MayCall(t) /\ c \in registrations
    /\ t = Render => at # c
    /\ registrations' = registrations \ {c}
    /\ step' = [step EXCEPT ![t] = "removed"]
    /\ target' = [target EXCEPT ![t] = c]
    /\ UNCHANGED <<entries, slot, frameVars, captured, hook, inits>>

\* Vec::retain for the one entry that is c: an entry is pushed once.
Without(list, c) ==
    IF \A i \in DOMAIN list : list[i] # c THEN list
    ELSE LET found == CHOOSE i \in DOMAIN list : list[i] = c IN
         [i \in 1 .. Len(list) - 1 |-> list[IF i < found THEN i ELSE i + 1]]

\* Mutant: the entry stays in the list.
UnlistKeepsEntry(t) ==
    /\ step[t] = "removed"
    /\ step' = [step EXCEPT ![t] = "unlisted"]
    /\ UNCHANGED <<entries, slot, registrations, target, frameVars, captured, hook, inits>>

\* The entry leaves the list: frames that copy it later do not see the panel.
Unlist(t) ==
    /\ step[t] = "removed"
    /\ entries' = Without(entries, target[t])
    /\ step' = [step EXCEPT ![t] = "unlisted"]
    /\ UNCHANGED <<slot, registrations, target, frameVars, captured, hook, inits>>

\* Mutant: the contribution is dropped without waiting for its callback.
TakeAtOnce(t) ==
    /\ step[t] = "unlisted"
    /\ slot' = [slot EXCEPT ![target[t]] = "none"]
    /\ step' = [step EXCEPT ![t] = "idle"]
    /\ target' = [target EXCEPT ![t] = None]
    /\ UNCHANGED <<entries, registrations, frameVars, captured, hook, inits>>

\* The contribution is taken out under its lock, which waits for the callback
\* that is running, and dropped; unregister returns.
Take(t) ==
    /\ step[t] = "unlisted" /\ at # target[t]
    /\ slot' = [slot EXCEPT ![target[t]] = "none"]
    /\ step' = [step EXCEPT ![t] = "idle"]
    /\ target' = [target EXCEPT ![t] = None]
    /\ UNCHANGED <<entries, registrations, frameVars, captured, hook, inits>>

-----------------------------------------------------------------------------
(* The frame                                                               *)

Enter(p) == pass' = p /\ rest' = entries

\* Runtime::render: nothing once rendering is disabled; the pipeline is made,
\* and the contributions initialized, by the first frame that gets this far.
Present ==
    /\ hook # "removed" /\ pass = "idle" /\ ~disabled
    /\ Enter(IF ready THEN "ui" ELSE "initialize")
    /\ UNCHANGED <<entries, slot, registrations, callVars, at, calling, ready,
                   disabled, asked, captured, hook, inits>>

\* A frame that paints nothing: the device is lost, or is about to be reset.
DeviceLost ==
    /\ hook # "removed" /\ pass = "idle" /\ ready /\ ~disabled
    /\ captured' = {}
    /\ UNCHANGED <<entries, slot, registrations, callVars, frameVars, hook, inits>>

Calls(c, p) ==
    /\ at' = c /\ calling' = p
    /\ inits' = IF p = "initialize" THEN [inits EXCEPT ![c] = @ + 1] ELSE inits

\* for_each reaches the next entry of its copy: an entry whose contribution
\* was taken is passed over, and so is one that is not initialized when the
\* pass asks only for those; ui initializes it first.
Visit ==
    /\ pass # "idle" /\ at = None /\ rest # <<>>
    /\ LET c == Head(rest) IN
       \/ /\ \/ slot[c] = "none"
             \/ slot[c] = "plain" /\ pass \in {"policy", "output"}
          /\ rest' = Tail(rest)
          /\ UNCHANGED <<at, calling, inits>>
       \/ /\ slot[c] = "plain" /\ pass \in {"initialize", "ui"}
          /\ Calls(c, "initialize")
          /\ UNCHANGED rest
       \/ /\ slot[c] = "initialized"
          /\ Calls(c, pass)
          /\ UNCHANGED rest
    /\ UNCHANGED <<entries, slot, registrations, callVars, pass, ready, disabled,
                   asked, captured, hook>>

\* Mutant: the initialize pass forgets to mark the contribution.
InitializedUnmarked ==
    /\ at # None /\ calling = "initialize" /\ step[Render] = "idle"
    /\ IF pass = "ui"
       THEN /\ slot' = [slot EXCEPT ![at] = "initialized"]
            /\ calling' = "ui" /\ UNCHANGED <<at, rest>>
       ELSE calling' = "none" /\ at' = None /\ rest' = Tail(rest) /\ UNCHANGED slot
    /\ UNCHANGED <<entries, registrations, callVars, pass, ready, disabled, asked,
                   captured, hook, inits>>

\* initialize returns; in a ui pass the contribution's ui is next, under the
\* same lock.
Initialized ==
    /\ at # None /\ calling = "initialize" /\ step[Render] = "idle"
    /\ slot' = [slot EXCEPT ![at] = "initialized"]
    /\ IF pass = "ui"
       THEN calling' = "ui" /\ UNCHANGED <<at, rest>>
       ELSE calling' = "none" /\ at' = None /\ rest' = Tail(rest)
    /\ UNCHANGED <<entries, registrations, callVars, pass, ready, disabled, asked,
                   captured, hook, inits>>

\* Mutant: the merge starts from the policies of the last frame.
ReturnsMergingOld ==
    /\ at # None /\ calling # "initialize" /\ step[Render] = "idle"
    /\ asked' = IF calling = "policy" THEN asked \cup {at} \cup captured ELSE asked
    /\ at' = None /\ calling' = "none" /\ rest' = Tail(rest)
    /\ UNCHANGED <<entries, slot, registrations, callVars, pass, ready, disabled,
                   captured, hook, inits>>

\* Another callback returns; a policy that asks for Block is merged in.
Returns ==
    /\ at # None /\ calling # "initialize" /\ step[Render] = "idle"
    /\ \/ UNCHANGED asked
       \/ calling = "policy" /\ asked' = asked \cup {at}
    /\ at' = None /\ calling' = "none" /\ rest' = Tail(rest)
    /\ UNCHANGED <<entries, slot, registrations, callVars, pass, ready, disabled,
                   captured, hook, inits>>

\* The pass is over.  The first frame goes on from initialize to ui; after the
\* policy pass the merged policy replaces the previous frame's; after the
\* output pass the frame is painted, and a failed paint clears the capture.
EndPass ==
    /\ pass # "idle" /\ at = None /\ rest = <<>>
    /\ \/ /\ pass = "initialize"
          /\ Enter("ui") /\ ready' = TRUE
          /\ UNCHANGED <<asked, captured>>
       \/ /\ pass = "ui"
          /\ Enter("policy") /\ asked' = {}
          /\ UNCHANGED <<ready, captured>>
       \/ /\ pass = "policy"
          /\ Enter("output") /\ captured' = asked
          /\ UNCHANGED <<asked, ready>>
       \/ /\ pass = "output"
          /\ pass' = "idle" /\ rest' = <<>>
          /\ captured' \in {captured, {}}
          /\ UNCHANGED <<asked, ready>>
    /\ UNCHANGED <<entries, slot, registrations, callVars, at, calling, disabled,
                   hook, inits>>

\* Mutant: the abandoned frame leaves its callback marked as running.
PanicMidCall ==
    /\ at # None /\ step[Render] = "idle"
    /\ pass' = "idle" /\ rest' = <<>> /\ at' = None /\ UNCHANGED calling
    /\ disabled' = TRUE /\ captured' = {}
    /\ UNCHANGED <<entries, slot, registrations, callVars, ready, asked, hook, inits>>

\* A callback panics: the guard of the contribution's lock is dropped, the
\* frame is abandoned, the capture cleared and rendering is off for good.
Panic ==
    /\ at # None /\ step[Render] = "idle"
    /\ pass' = "idle" /\ rest' = <<>> /\ at' = None /\ calling' = "none"
    /\ disabled' = TRUE /\ captured' = {}
    /\ UNCHANGED <<entries, slot, registrations, callVars, ready, asked, hook, inits>>

-----------------------------------------------------------------------------
(* D3d9Hook::uninstall                                                     *)

\* The shared capture is reset before the hooks are disabled, so frames may
\* still begin and finish; a failed removal is retried from the start.
BeginStop ==
    /\ hook # "removed"
    /\ hook' = "stopping" /\ captured' = {}
    /\ UNCHANGED <<entries, slot, registrations, callVars, frameVars, inits>>

\* Mutant: the capture is reset only before the hooks are drained.
DrainedOnce ==
    /\ hook = "stopping" /\ pass = "idle"
    /\ hook' = "removed"
    /\ UNCHANGED <<entries, slot, registrations, callVars, frameVars, captured, inits>>

\* The hooks are drained and their state dropped: the window procedure is
\* detached, which resets the capture again.
Drained ==
    /\ hook = "stopping" /\ pass = "idle"
    /\ hook' = "removed" /\ captured' = {}
    /\ UNCHANGED <<entries, slot, registrations, callVars, frameVars, inits>>

Frame == Visit \/ Initialized \/ Returns \/ EndPass \/ Panic
Finish(t) == Unlist(t) \/ Take(t)

Next ==
    \/ \E t \in Threads :
          \/ \E c \in Panels : Register(t, c) \/ Unregister(t, c)
          \/ Finish(t)
    \/ Present \/ DeviceLost \/ Frame
    \/ BeginStop \/ Drained

\* Callbacks return, so a frame that began comes to its end, and a thread
\* inside unregister runs when the lock it waits for is free; nothing says
\* that a waiter gets a lock which is released and taken again and again.
Fairness == WF_vars(Frame) /\ \A t \in Threads : WF_vars(Finish(t))

Spec == Init /\ [][Next]_vars

-----------------------------------------------------------------------------
(* What the registry promises                                              *)

\* Released(c): the unregister of c has returned.
Released(c) == slot[c] # "unborn" /\ c \notin registrations
               /\ \A t \in Threads : target[t] # c

\* A contribution is initialized once, on the rendering thread, before its
\* first other callback: by the frame that makes the pipeline or, when it was
\* registered later, even in the middle of that frame, by its first ui.
InitializedBeforeUse ==
    /\ \A c \in Panels : inits[c] <= 1
    /\ at # None /\ calling # "initialize" => inits[at] = 1 /\ slot[at] = "initialized"

\* "Unregistering waits for its current callback to finish and prevents later
\* callbacks" (registry.rs): once it returned, no callback of the panel runs,
\* whatever copy of the list the renderer is working on; and no callback comes
\* before the initialisation of its panel.
NoCallAfterUnregister ==
    /\ TypeOK
    /\ \A c \in Panels : Released(c) => at # c
    /\ InitializedBeforeUse

\* The game gets its input back when rendering ends: after a panicking
\* callback and after the hooks are gone nothing is withheld on behalf of any
\* panel, although a frame may end after uninstall has reset the capture.
InputReturnedToGame == (disabled /\ pass = "idle") \/ hook = "removed" => captured = {}

\* What is gone does nothing more: a panel is not called after its unregistration,
\* and no input is withheld when rendering is over.
NothingAfterwards == NoCallAfterUnregister /\ InputReturnedToGame

\* unregister ends although the renderer never stops taking locks, and it may
\* be called from the callback of another contribution.  And a panel that is gone
\* stops withholding input: once its unregister has returned between two frames,
\* no later frame merges its policy again.
UnregisterReturns ==
    /\ \A t \in Threads : (step[t] # "idle") ~> (step[t] = "idle")
    /\ \A c \in Panels : [](Released(c) /\ pass = "idle"
                               => [](pass = "output" => c \notin captured))
=============================================================================
