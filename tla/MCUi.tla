-------------------------------- MODULE MCUi ---------------------------------
(* What the user meets, side by side, each on an instance of its own: `part`   *)
(* says which one a behaviour is about.                                        *)
(*   "overlay"  contributions of the UI mod against the rendering thread       *)
(*   "input"    one button and one key between the game and the overlay        *)
(*   "login"    the login window with an HTTP and a TCP server, and lists that *)
(*              can be full                                                    *)
EXTENDS Overlay, SignServer

CONSTANTS Buttons, Keys, MaxPending
VARIABLES phys, queue, focused, composing, policy, pointer, keyboard, owner,
          sampled, seen, began, told, composed,
          model, connection, settings, requests, answers, stored, launch, window,
          part

ASSUME InputAssumption == MaxPending \in Nat

Input == INSTANCE InputCapture
inputVars == <<phys, queue, focused, composing, policy, pointer, keyboard, owner,
               sampled, seen, began, told, composed>>

LoginWindow == INSTANCE Login
loginVars == <<model, connection, settings, requests, answers, stored, launch, window>>

\* The others rest in one state each while a part is looked at.
UiInit ==
    /\ part \in {"overlay", "input", "login"}
    /\ Init /\ Input!Init
    /\ LoginWindow!Init
    /\ part = "login" \/ (connection = Absent /\ stored = [s \in Servers |-> Absent])
UiNext ==
    /\ \/ part = "overlay" /\ Next /\ UNCHANGED <<inputVars, loginVars>>
       \/ part = "input" /\ Input!Next /\ UNCHANGED <<vars, loginVars>>
       \/ part = "login" /\ LoginWindow!Next /\ UNCHANGED <<vars, inputVars>>
    /\ UNCHANGED part
UiSpec ==
    /\ UiInit /\ [][UiNext]_<<part, vars, inputVars, loginVars>>
    /\ Fairness /\ LoginWindow!Fairness

\* The properties of InputCapture and Login, stated there.
HeldKeepsRecipient == Input!HeldKeepsRecipient
GameSeesRelease == Input!GameSeesRelease
NothingInherited == LoginWindow!NothingInherited
LaunchesAsShown == LoginWindow!LaunchesAsShown

\* Nobody waits for ever: the thread that takes its overlay back (Overlay.tla),
\* and the user who sent a request from the login window (Login.tla).
WaitsReturn == UnregisterReturns /\ LoginWindow!RequestsSettle
==============================================================================
