-------------------------------- MODULE Login --------------------------------
(***************************************************************************)
(* The login window (mods/login): the page it shows (ui/model.rs), the     *)
(* connection and the settings around it (ui/mod.rs), and the requests to  *)
(* the Sign server, each answered by a thread of its own (sign/) whose     *)
(* message the next frame takes from a channel.                            *)
(*                                                                         *)
(* The settings can replace the server under the page, a request can fail  *)
(* or time out, the session can expire, and the window can close at any    *)
(* moment.  A request that cannot even be started answers itself inside    *)
(* the same dispatch.  Notices to the user are left out.                   *)
(***************************************************************************)
EXTENDS SignServer, Sequences

VARIABLES
    model,      \* Model: the page and what it holds
    connection, \* EframeApp.connection, Absent before the first valid address
    settings,   \* EframeApp.settings: "game" (font, screen), "server" or Absent
    requests,   \* requests whose thread has not ended
    answers,    \* the channel: messages no frame has taken
    stored,     \* credential store: for which server the saved password was given
    launch,     \* EframeApp.launch_request
    window      \* "open" or "closed"

vars == <<model, connection, settings, requests, answers, stored, launch, window>>

\* Credentials are told apart by the server they were typed in for.
Forms == [typed_for : Servers \cup {Absent}, remember : BOOLEAN]
Blank == Absent

SignInPage(form, submitting) ==
    [page |-> "sign_in", form |-> form, submitting |-> submitting]
CharactersPage(form, session, selection) ==
    [page |-> "characters", form |-> form, sign_in |-> session,
     selection |-> selection, operation |-> "idle", subject |-> Absent]
Closing == [page |-> "closing"]

OnSignIn     == model.page = "sign_in"
OnCharacters == model.page = "characters"
is_idle      == OnCharacters /\ model.operation = "idle"
Idle(m)      == [m EXCEPT !.operation = "idle", !.subject = Absent]

Request(kind, form, id) ==
    [kind |-> kind, server |-> connection, form |-> form, id |-> id]

-----------------------------------------------------------------------------
(* The settings page replaces the pages of the model while it is shown     *)

\* Mutant: the settings can be opened while a request is under way.
can_configureAlways == OnSignIn \/ OnCharacters
can_configure == (OnSignIn /\ ~model.submitting) \/ is_idle

OpenSettings(category) ==
    /\ window = "open" /\ settings = Absent
    /\ can_configure
    /\ settings' = category
    /\ UNCHANGED <<model, connection, requests, answers, stored, launch, window>>

CancelSettings ==
    /\ window = "open" /\ settings # Absent
    /\ settings' = Absent
    /\ UNCHANGED <<model, connection, requests, answers, stored, launch, window>>

\* The form of a new connection: the saved password, if it can be read.
SavedForm(s) ==
    {Blank} \cup {[typed_for |-> t, remember |-> TRUE] : t \in {stored[s]} \ {Absent}}

\* Mutant: a page that is signed in stays so.
use_connectionKeepsPage(s) ==
    /\ connection' = s
    /\ IF OnCharacters THEN UNCHANGED model
       ELSE \E form \in SavedForm(s) : model' = SignInPage(form, FALSE)

use_connection(s) ==
    /\ connection' = s
    /\ \E form \in SavedForm(s) : model' = SignInPage(form, FALSE)

\* save_settings.  The server is read back from the file, which other programs
\* write as well, so it may be any; one that is the same as before, in address
\* and encoding, leaves the session alone.  Refused or unwritable settings, and
\* an address that cannot be read back, leave the settings page open.
SaveSettings ==
    /\ window = "open" /\ settings # Absent
    /\ settings' = Absent
    /\ \/ settings = "game" /\ UNCHANGED <<model, connection>>
       \/ /\ settings = "server"
          /\ \E s \in Servers :
                IF s = connection THEN UNCHANGED <<model, connection>>
                ELSE use_connection(s)
    /\ UNCHANGED <<requests, answers, stored, launch, window>>

-----------------------------------------------------------------------------
(* What the user does on the pages                                         *)

Page == window = "open" /\ settings = Absent
Asks(r) == requests' = requests \cup {r}
OnlyModel == UNCHANGED <<connection, settings, requests, answers, stored, launch, window>>
OnlyAsked == UNCHANGED <<connection, settings, answers, stored, launch, window>>

\* The fields of the form are disabled while it is submitted.
Type ==
    /\ Page /\ OnSignIn /\ ~model.submitting
    /\ \E r \in BOOLEAN :
          model' = SignInPage([typed_for |-> connection, remember |-> r], FALSE)
    /\ OnlyModel

\* The saved password was filled in; the user only unticks "remember".
ToggleRemember ==
    /\ Page /\ OnSignIn /\ ~model.submitting /\ model.form # Blank
    /\ model' = [model EXCEPT !.form.remember = ~@]
    /\ OnlyModel

\* Without a connection the answer is an error at once, and nothing changes.
SignIn ==
    /\ Page /\ OnSignIn /\ ~model.submitting /\ model.form # Blank
    /\ connection # Absent
    /\ model' = SignInPage(model.form, TRUE)
    /\ Asks(Request("sign_in", model.form, Absent))
    /\ OnlyAsked

SignOut ==
    /\ Page /\ is_idle
    /\ model' = SignInPage(model.form, FALSE)
    /\ OnlyModel

has_new_slot ==
    model.sign_in.fresh # {} \/ Cardinality(CharacterIds(model.sign_in)) < Limit

\* Mutant: any row can be selected, one that is still to be made as well.
SelectsAny(selection) ==
    /\ Page /\ is_idle
    /\ \/ selection = New
       \/ selection \in CharacterIds(model.sign_in)
    /\ model' = [model EXCEPT !.selection = selection]
    /\ OnlyModel
Select(selection) ==
    /\ Page /\ is_idle
    /\ IF selection = New THEN has_new_slot ELSE selection \in model.sign_in.existing
    /\ model' = [model EXCEPT !.selection = selection]
    /\ OnlyModel

\* The view offers the selected character only.
DeleteCharacter ==
    /\ Page /\ is_idle /\ model.selection \in model.sign_in.existing
    /\ model' = [model EXCEPT !.operation = "confirming", !.subject = model.selection]
    /\ OnlyModel

deletion_target == OnCharacters /\ model.operation = "confirming"

CancelDeletion ==
    /\ Page /\ deletion_target
    /\ model' = Idle(model)
    /\ OnlyModel

\* A request that cannot be started is an error at once.
ConfirmDeletion ==
    /\ Page /\ deletion_target
    /\ \/ /\ model' = [model EXCEPT !.operation = "deleting"]
          /\ Asks(Request("delete", model.form, model.subject))
       \/ model' = Idle(model) /\ UNCHANGED requests
    /\ OnlyAsked

\* into_launch_request and Effect::Launch: the encoding is the connection's.
Launches(form, session, id) ==
    /\ model' = Closing
    /\ launch' = [form |-> form, sign_in |-> session, selected |-> id, encoding |-> connection]

\* launch_action: which characters the button launches, and whether it makes one.
Launchable ==
    IF ~is_idle \/ ~model.sign_in.entrance THEN {}
    ELSE IF model.selection = New THEN model.sign_in.fresh
    ELSE {model.selection} \cap model.sign_in.existing
MayCreate ==
    /\ is_idle /\ model.sign_in.entrance
    /\ model.selection = New /\ model.sign_in.fresh = {}
    /\ Cardinality(CharacterIds(model.sign_in)) < Limit

Launch ==
    /\ Page
    /\ \/ /\ \E id \in Launchable : Launches(model.form, model.sign_in, id)
          /\ UNCHANGED <<requests, connection, settings, answers, stored, window>>
       \/ /\ MayCreate
          /\ model' = [model EXCEPT !.operation = "creating"]
          /\ Asks(Request("create", model.form, Absent))
          /\ OnlyAsked

\* Closed by the user, or by the command that follows a launch.
CloseWindow ==
    /\ window = "open" /\ window' = "closed"
    /\ UNCHANGED <<model, connection, settings, requests, answers, stored, launch>>

-----------------------------------------------------------------------------
(* The threads of the requests, and the frame that takes their answers     *)

\* How a request ends.  Only an HTTP server says that a session is no longer
\* valid; an error includes the time-out after REQUEST_TIMEOUT.
Results(r) ==
    {"ok", "error"} \cup
    (IF r.kind # "sign_in" /\ r.server \notin Tcp THEN {"invalid_session"} ELSE {})

\* The callback of a successful sign-in updates the saved password of the
\* server it was made for, or fails to; then the message is sent, to nobody if
\* the window is gone.
Answer(r) ==
    /\ r \in requests
    /\ requests' = requests \ {r}
    /\ \E result \in Results(r) :
          /\ answers' = IF window = "closed" THEN answers
                        ELSE Append(answers, [request |-> r, result |-> result])
          /\ \/ UNCHANGED stored
             \/ /\ r.kind = "sign_in" /\ result = "ok"
                /\ stored' = [stored EXCEPT ![r.server] =
                                 IF r.form.remember THEN r.form.typed_for ELSE Absent]
    /\ UNCHANGED <<model, connection, settings, launch, window>>

\* The character selected first: the last one used, or the first of the list.
FirstSelection(session) ==
    IF CharacterIds(session) = {} THEN {New}
    ELSE session.existing \cup (IF session.fresh = {} THEN {} ELSE {New})

\* Mutant: the form stays locked after an error.
SignedInLocked(r, result) ==
    IF result = "ok"
    THEN \E session \in SignInSuccess(r.server) :
            \E selection \in FirstSelection(session) :
               model' = CharactersPage(model.form, session, selection)
    ELSE UNCHANGED model
SignedIn(r, result) ==
    IF result = "ok"
    THEN \E session \in SignInSuccess(r.server) :
            \E selection \in FirstSelection(session) :
               model' = CharactersPage(model.form, session, selection)
    ELSE model' = SignInPage(model.form, FALSE)

\* A character operation failed.
OperationFailed(result) ==
    model' = IF result = "invalid_session" THEN SignInPage(model.form, FALSE)
             ELSE Idle(model)

\* The list with a character the HTTP server made, new or not by its own word.
WithCharacter(session, id, is_new) ==
    [session EXCEPT !.existing = IF is_new THEN @ \ {id} ELSE @ \cup {id},
                    !.fresh    = IF is_new THEN @ \cup {id} ELSE @ \ {id}]

\* Mutant: the list of the TCP answer is not taken over.
CharacterCreatedOldList(r) ==
    IF r.server \in Tcp
    THEN \E session \in SignInSuccess(r.server) :
            IF session.fresh = {} THEN OperationFailed("error") /\ UNCHANGED launch
            ELSE \E id \in session.fresh : Launches(model.form, model.sign_in, id)
    ELSE \E id \in Ids, is_new \in BOOLEAN :
            Launches(model.form, WithCharacter(model.sign_in, id, is_new), id)
\* A TCP server answers a creation with a whole sign-in, which must have a new
\* character in it; it is launched without a look at its entrance servers.
CharacterCreated(r) ==
    IF r.server \in Tcp
    THEN \E session \in SignInSuccess(r.server) :
            IF session.fresh = {} THEN OperationFailed("error") /\ UNCHANGED launch
            ELSE \E id \in session.fresh : Launches(model.form, session, id)
    ELSE \E id \in Ids, is_new \in BOOLEAN :
            Launches(model.form, WithCharacter(model.sign_in, id, is_new), id)

Deleted(id) ==
    [Idle(model) EXCEPT !.sign_in.existing = @ \ {id}, !.sign_in.fresh = @ \ {id}]
\* Mutant: the selection stays on the deleted character.
CharacterDeletedSelected(id) == model' = Deleted(id)
CharacterDeleted(id) ==
    LET left == model.sign_in.existing \ {id} IN
    IF model.selection # id THEN model' = Deleted(id)
    ELSE \E next \in (IF left = {} THEN {New} ELSE left) :
            model' = [Deleted(id) EXCEPT !.selection = next]

\* logic(): the frame takes a message; one no page waits for changes nothing.
Dispatch ==
    /\ window = "open" /\ answers # <<>>
    /\ answers' = Tail(answers)
    /\ LET r == Head(answers).request
           result == Head(answers).result
       IN \/ OnSignIn /\ r.kind = "sign_in" /\ SignedIn(r, result) /\ UNCHANGED launch
          \/ /\ OnCharacters /\ r.kind # "sign_in"
             /\ \/ result # "ok" /\ OperationFailed(result) /\ UNCHANGED launch
                \/ result = "ok" /\ r.kind = "create" /\ CharacterCreated(r)
                \/ /\ result = "ok" /\ r.kind = "delete"
                   /\ CharacterDeleted(r.id) /\ UNCHANGED launch
          \/ /\ ~(OnSignIn /\ r.kind = "sign_in")
             /\ ~(OnCharacters /\ r.kind # "sign_in")
             /\ UNCHANGED <<model, launch>>
    /\ UNCHANGED <<connection, settings, requests, stored, window>>

-----------------------------------------------------------------------------
Init ==
    /\ stored \in [Servers -> Servers \cup {Absent}]
    /\ \A s \in Servers : stored[s] \in {s, Absent}
    /\ \/ connection = Absent /\ settings = "server" /\ model = SignInPage(Blank, FALSE)
       \/ /\ settings = Absent
          /\ connection \in Servers
          /\ \E form \in SavedForm(connection) : model = SignInPage(form, FALSE)
    /\ requests = {} /\ answers = <<>> /\ launch = Absent /\ window = "open"

UserActs ==
    \/ \E category \in {"game", "server"} : OpenSettings(category)
    \/ CancelSettings \/ SaveSettings
    \/ Type \/ ToggleRemember \/ SignIn \/ SignOut
    \/ \E selection \in Ids \cup {New} : Select(selection)
    \/ DeleteCharacter \/ CancelDeletion \/ ConfirmDeletion
    \/ Launch \/ CloseWindow
Next == UserActs \/ (\E r \in requests : Answer(r)) \/ Dispatch

\* Every request ends within its time-out, and every answer asks for a frame.
Fairness == WF_vars(\E r \in requests : Answer(r)) /\ WF_vars(Dispatch)

Spec == Init /\ [][Next]_vars

-----------------------------------------------------------------------------
FormOK(form) == form = Blank \/ form \in Forms
TypeOK ==
    /\ \/ OnSignIn /\ FormOK(model.form) /\ model.submitting \in BOOLEAN
       \/ /\ OnCharacters /\ model.form \in Forms
          /\ model.sign_in.server \in Servers
          /\ model.selection \in Ids \cup {New}
          /\ model.operation \in {"idle", "creating", "confirming", "deleting"}
          /\ model.subject \in Ids \cup {Absent}
       \/ model = Closing
    /\ connection \in Servers \cup {Absent}
    /\ settings \in {"game", "server", Absent}
    /\ window \in {"open", "closed"}

Under == requests \cup {answers[i].request : i \in DOMAIN answers}

\* What the page waits for: at most one thing.
Awaited ==
    IF OnSignIn THEN (IF model.submitting THEN {"sign_in"} ELSE {})
    ELSE IF ~OnCharacters THEN {}
    ELSE CASE model.operation = "creating" -> {"create"}
           [] model.operation = "deleting" -> {"delete"}
           [] OTHER -> {}

\* "A new server must never inherit the previous session or credentials"
\* (ui/mod.rs:158), whatever is under way when it is chosen: the form and the
\* session of the page, the password saved for a server, the request that is
\* out and what the game is launched with all belong to one server, and an
\* answer meets the very page that asked for it.  With it, a session always has
\* the connection that its requests `expect`.
NothingInherited ==
    /\ TypeOK
    /\ \A s \in Servers : stored[s] \in {s, Absent}
    /\ model.page # "closing" /\ model.form # Blank => model.form.typed_for = connection
    /\ OnCharacters => connection # Absent /\ model.sign_in.server = connection
    /\ \A r \in Under : r.form.typed_for = r.server
    /\ window = "open" =>
          /\ {r.kind : r \in Under} = Awaited
          /\ Cardinality(requests) + Len(answers) = Cardinality(Awaited)
          /\ \A r \in Under : r.server = connection
    /\ launch # Absent =>
          launch.sign_in.server = launch.encoding /\ launch.form.typed_for = launch.encoding

\* The selection always names something to launch: through refreshed lists,
\* deletions and failures an idle page can launch if there is an entrance
\* server.  And what it launches passes the checks the start makes then
\* (model.rs SignInSuccess.selected_character), except that a TCP server may
\* answer a creation without an entrance server.  A deletion under way is of
\* a finished character that is still in the list.
LaunchesAsShown ==
    /\ is_idle /\ model.sign_in.entrance => Launchable # {} \/ MayCreate
    /\ OnCharacters /\ model.subject # Absent => model.subject \in model.sign_in.existing
    /\ launch # Absent =>
          /\ launch.selected \in CharacterIds(launch.sign_in)
          /\ Cardinality(CharacterIds(launch.sign_in)) <= Limit
          /\ launch.sign_in.entrance \/ launch.encoding \in Tcp

\* No request leaves the page locked: it is answered, fails or times out, and
\* the page goes on, or the window is closed.
RequestsSettle == (Awaited # {}) ~> (Awaited = {} \/ window = "closed")
==============================================================================
