---------------------------- MODULE InputCapture ----------------------------
(***************************************************************************)
(* Who receives a press: the game or the overlay.  mods/ui keeps two       *)
(* records of it, CaptureState.route_press on the window procedure's       *)
(* messages (backend/capture.rs, backend/window.rs) and PolledInput on the *)
(* samples the game takes through DirectInput (native/input.rs).  Frames   *)
(* change the policy at any moment, messages lag behind the device, and    *)
(* samples fall before or after them.                                      *)
(*                                                                         *)
(* Mouse buttons and keys share the routing and differ in where the intent *)
(* comes from: a button is hit-tested at its own message or sample, a key  *)
(* follows the keyboard flag of the last frame.                            *)
(***************************************************************************)
EXTENDS Naturals, Sequences

CONSTANTS
    Buttons,    \* mouse buttons
    Keys,       \* keyboard keys, which repeat while they are held; none is a button
    MaxPending  \* bound: messages waiting in the window's queue

VARIABLES
    phys,       \* the device: which inputs are "down"
    queue,      \* key and button messages the window has not processed
    focused,    \* the game's window has the focus
    composing,  \* Ime.composing
    policy,     \* InputPolicy.pointer of the last frame
    pointer,    \* CaptureState.pointer
    keyboard,   \* CaptureState.keyboard
    owner,      \* CaptureState.buttons and keys
    sampled,    \* PolledInput.owners
    seen,       \* what the messages that reached the game say of each input
    began,      \* history: recipient of the press whose messages are arriving
    told,       \* history: inputs first sampled after their press was routed
    composed    \* history: keys whose last message to the game the IME withheld

vars == <<phys, queue, focused, composing, policy, pointer, keyboard, owner,
          sampled, seen, began, told, composed>>
flags == <<policy, pointer, keyboard>>

Inputs     == Buttons \cup Keys
Recipients == {"game", "overlay"}
Nobody     == "nobody"

TypeOK ==
    /\ phys \in [Inputs -> {"up", "down"}]
    /\ queue \in Seq(Inputs \X {"up", "down"}) /\ Len(queue) <= MaxPending
    /\ focused \in BOOLEAN /\ composing \in BOOLEAN
    /\ policy \in {"auto", "block", "pass"}
    /\ pointer \in Recipients /\ keyboard \in Recipients
    /\ owner \in [Inputs -> Recipients \cup {Nobody}]
    /\ sampled \in [Inputs -> Recipients \cup {Nobody}]
    /\ seen \in [Inputs -> {"up", "down"}]
    /\ began \in [Inputs -> Recipients \cup {Nobody}]
    /\ told \subseteq Inputs /\ composed \subseteq Keys

Unowned == [k \in Inputs |-> Nobody]

Init ==
    /\ phys = [k \in Inputs |-> "up"] /\ queue = <<>>
    /\ focused = TRUE /\ composing = FALSE
    /\ policy = "pass" /\ pointer = "game" /\ keyboard = "game"
    /\ owner = Unowned /\ sampled = Unowned
    /\ seen = [k \in Inputs |-> "up"]
    /\ began = Unowned /\ told = {} /\ composed = {}

\* InputCapture::captures, for every answer egui's hit test may give.
Captures(p) == CASE p = "block" -> {"overlay"}
                 [] p = "pass"  -> {"game"}
                 [] OTHER       -> Recipients

-----------------------------------------------------------------------------
(* The device and the window                                               *)

\* A press, a release or an automatic repeat; it reaches the window's queue
\* only while the window has the focus.
Device(k, to) ==
    /\ \/ phys[k] # to
       \/ k \in Keys /\ to = "down" /\ focused
    /\ phys' = [phys EXCEPT ![k] = to]
    /\ IF focused
       THEN Len(queue) < MaxPending /\ queue' = Append(queue, <<k, to>>)
       ELSE UNCHANGED queue
    /\ UNCHANGED <<focused, composing, flags, owner, sampled, seen, began, told,
                   composed>>

\* WM_KILLFOCUS, after the input that came before it: every press is
\* forgotten, by the overlay and by the game, which gets the message too.
LoseFocus ==
    /\ focused /\ queue = <<>>
    /\ focused' = FALSE /\ composing' = FALSE
    /\ policy' = "pass" /\ pointer' = "game" /\ keyboard' = "game"
    /\ owner' = Unowned /\ began' = Unowned /\ told' = {} /\ composed' = {}
    /\ seen' = [k \in Inputs |-> "up"]
    /\ UNCHANGED <<phys, queue, sampled>>

GainFocus ==
    /\ ~focused /\ focused' = TRUE
    /\ UNCHANGED <<phys, queue, composing, flags, owner, sampled, seen, began, told,
                   composed>>

\* The IME starts or ends a composition between two key messages.
Compose ==
    /\ focused /\ composing' = ~composing
    /\ UNCHANGED <<phys, queue, focused, flags, owner, sampled, seen, began, told,
                   composed>>

\* Mutant: a release follows the current intent, not the press.
RoutedByIntent(k, to, intent) == IF to = "down" /\ owner[k] # Nobody THEN owner[k] ELSE intent

\* route_press: a press is given to its owner, or to the current intent when
\* it has none; a release goes where its press went, to the game when that is
\* unknown.
Routed(k, to, intent) == IF owner[k] # Nobody THEN owner[k]
                         ELSE IF to = "down" THEN intent ELSE "game"
OwnerAfter(to, recipient) == IF to = "down" THEN recipient ELSE Nobody

\* Mutant: the IME withholds mouse buttons as well.
WithheldAny(k) == composing

Withheld(k) == k \in Keys /\ composing

\* handle_message: a button first moves the pointer to its position; a key
\* message of a composition is recorded but withheld from the game.
Message ==
    /\ queue # <<>>
    /\ LET k  == Head(queue)[1]
           to == Head(queue)[2]
       IN /\ IF k \in Buttons THEN pointer' \in Captures(policy) ELSE UNCHANGED pointer
          /\ LET who == Routed(k, to, IF k \in Buttons THEN pointer' ELSE keyboard)
             IN /\ owner' = [owner EXCEPT ![k] = OwnerAfter(to, who)]
                /\ seen' = IF who = "game" /\ ~Withheld(k)
                           THEN [seen EXCEPT ![k] = to] ELSE seen
                /\ composed' = IF Withheld(k) THEN composed \cup {k}
                               ELSE IF who = "game" THEN composed \ {k} ELSE composed
                /\ began' = [began EXCEPT ![k] = IF to = "up" THEN Nobody
                                                 ELSE IF @ = Nobody THEN who ELSE @]
          /\ told' = IF to = "up" THEN told \ {k} ELSE told
    /\ queue' = Tail(queue)
    /\ UNCHANGED <<phys, focused, composing, policy, keyboard, sampled>>

-----------------------------------------------------------------------------
(* The frame                                                               *)

\* CaptureState::update, with the policy the contributions ask for.
Update ==
    /\ policy' \in {"auto", "block", "pass"}
    /\ pointer' \in Captures(policy') /\ keyboard' \in Recipients
    /\ UNCHANGED <<phys, queue, focused, composing, owner, sampled, seen, began, told,
                   composed>>

\* Mutant: a failed frame forgets the presses too.
ClearAndForget ==
    /\ policy' = "pass" /\ pointer' = "game" /\ keyboard' = "game"
    /\ owner' = Unowned
    /\ UNCHANGED <<phys, queue, focused, composing, sampled, seen, began, told,
                   composed>>

\* CaptureState::clear, when a frame fails or the device is lost: new input
\* goes to the game, presses keep their owners.
ClearCapture ==
    /\ policy' = "pass" /\ pointer' = "game" /\ keyboard' = "game"
    /\ UNCHANGED <<phys, queue, focused, composing, owner, sampled, seen, began, told,
                   composed>>

-----------------------------------------------------------------------------
(* The game's samples                                                      *)

\* Mutant: the first sample of a press ignores what its message decided.
SampleOwnersByIntent(old, k) ==
    IF phys[k] = "up" THEN {Nobody}
    ELSE IF old[k] # Nobody THEN {old[k]}
    ELSE IF k \in Buttons THEN Captures(policy) ELSE {keyboard}

\* The owner a sample finds for an input that is down: the one it has, the
\* one its message got, or the current intent.  The pointer is hit-tested
\* where the cursor is now.
SampleOwners(old, k) ==
    IF phys[k] = "up" THEN {Nobody}
    ELSE IF old[k] # Nobody THEN {old[k]}
    ELSE IF owner[k] # Nobody THEN {owner[k]}
    ELSE IF k \in Buttons THEN Captures(policy) ELSE {keyboard}

Pending(k) == \E i \in DOMAIN queue : queue[i][1] = k

\* filter_buttons on one device state; a device that was created anew starts
\* without owners.  A sample fails while another window has the focus.
Sample(old) ==
    /\ focused
    /\ sampled' \in [Inputs -> Recipients \cup {Nobody}]
    /\ \A k \in Inputs : sampled'[k] \in SampleOwners(old, k)
    /\ told' = {k \in Inputs : /\ phys[k] = "down"
                               /\ k \in told \/ /\ old[k] = Nobody
                                                /\ owner[k] # Nobody
                                                /\ ~Pending(k)}
    /\ UNCHANGED <<phys, queue, focused, composing, flags, owner, seen, began,
                   composed>>

Poll      == Sample(sampled)
NewDevice == Sample(Unowned)

Next ==
    \/ \E k \in Inputs, to \in {"up", "down"} : Device(k, to)
    \/ LoseFocus \/ GainFocus \/ Compose
    \/ Message \/ Update \/ ClearCapture
    \/ Poll \/ NewDevice

Spec == Init /\ [][Next]_vars

-----------------------------------------------------------------------------
(* "A policy change applies to new presses; a held button/key keeps its    *)
(* original recipient through release" (capture.rs)                        *)

\* The press whose messages are arriving keeps the recipient of its first
\* message, repeats included, whatever frames, failures and samples did
\* meanwhile; only losing the focus ends it early.  The game is told of every
\* release but those that fall into a composition of the IME, which withholds a
\* key of either recipient.  And the two records agree: a press that was routed
\* before it was first sampled has one recipient for both, to its end, however
\* the policy and the cursor changed between message and sample.
HeldKeepsRecipient ==
    /\ TypeOK
    /\ \A k \in Inputs : owner[k] = began[k]
    /\ \A k \in Inputs : /\ phys[k] = "up" /\ ~Pending(k) /\ focused
                          /\ k \notin composed => seen[k] = "up"
    /\ \A k \in told : owner[k] # Nobody => sampled[k] = owner[k]

\* The game never keeps an input down that is up: once every message of the
\* input was processed, a game that was told of the press was told of the
\* release.  This is the rule above without exception.
GameSeesRelease ==
    \A k \in Inputs : phys[k] = "up" /\ ~Pending(k) /\ focused => seen[k] = "up"
=============================================================================
