# Formal models of the MHF client tools

TLA+ specifications of the client side of this repository: the host that loads
mods into a game process and the session around it, the hooks and patches that
mods put into the game's code, what the built-in mods build on them (resource
workbench, overlay and input, the login window, configuration, geometry buffers and textures,
the debugger of monster AI, the transformation of the hunter), and
the package library and manager that choose and install mods. TLC checks every
specification on small instances; for most of them TLAPS proves the central
properties for all values of the constants.

All paths below are relative to `src/mhf/crates/` unless they start with `mhf/`.

| module | models | checked by | proved in |
| --- | --- | --- | --- |
| `ModLifecycle` | what the host promises each mod (abstract) | as a property of `ModHost` | |
| `ModHost` | `runtime/mod-host`: `lib.rs`, `context.rs`, `launch.rs` | `MCModHost`, `MCGameSession` | `ModHostProofs` |
| `GameSession` | `runtime/game/src/game/`: `mod.rs`, `native.rs`, on top of `ModHost` | `MCGameSession`, `MCGameSessionPanic` | `ModHostProofs` |
| `HookSlot` | `runtime/hooks/src/lib.rs` and the group of `backend.rs` | `MCHooks` | `HookProofs` |
| `HookTargets` | the table of occupied addresses of `runtime/hooks/src/backend.rs` | `MCHooks` | `HookProofs` |
| `Workbench` | `mods/workbench/src/`: `ui.rs`, `ui/editing.rs`, `session.rs`, `worker.rs` | `MCWorkbench`, `MCWorkbenchLive`, `MCWorkbenchUndo` | `WorkbenchProofs` |
| `Overlay` | `mods/ui/src/backend/`: `registry.rs`, the frame of `dx9.rs`, `window.rs`; `service.rs` | `MCUi` | `UiProofs` |
| `InputCapture` | `mods/ui/src/backend/`: `capture.rs`, `window.rs`; `native/input.rs`, `native/input/polling.rs` | `MCUi`, `MCUiIme` | `UiProofs` |
| `Resolver` | `runtime/mod-package/src/resolve.rs` and the conflicts of `diagnostics.rs` | `MCFiles` | `FilesProofs` |
| `PackageImport` | `runtime/mod-package/src/archive.rs` | `MCFiles` | `FilesProofs` |
| `ConfigStore` | `mods/config/src/`: `service.rs`, `provider.rs`, `native.rs` | `MCFiles` | `FilesProofs` |
| `ModManager` | `apps/mod-manager/src/`: `gui.rs`, `gui/view.rs`, `manager.rs` | `MCFiles` | `FilesProofs` |
| `NativeBuffer` | `mods/geometry/src/cache.rs` (operators) | `MCGeometry` | `GeometryProofs` |
| `EquipmentCache`, `StageCache` | `mods/geometry/src/native/`: `equipment_cache.rs`, `stage_cache.rs` | `MCGeometry` | `GeometryProofs` |
| `WeaponTextures` | `mods/geometry/src/weapon_textures.rs`, `native/weapon_textures.rs` | `MCGeometry` | `WeaponProofs` |
| `AiDebug` | `mods/debug-tools/src/provider/native/ai_debug.rs` and `Debugger` of `shared/ai-debug/src/lib.rs` | `MCDebugger` | `DebuggerProofs` |
| `AiTrace` | the recording and replay of `shared/ai-debug/src/lib.rs` | `MCDebugger` | `DebuggerProofs` |
| `MonsterControl` | `mods/debug-tools/src/provider/`: `native/monster.rs`, the dispatch of `native.rs`, the queue of `mod.rs`, the targets of `native/monster_ai.rs`; the prepared quest of `mods/quest/src/provider/` | `MCDebugger` | `DebuggerProofs` |
| `SignServer` | what a Sign server may answer: `mods/login/src/sign/mod.rs` (operators) | `MCUi` | `UiProofs` |
| `Login` | `mods/login/src/`: `ui/mod.rs`, `ui/model.rs`, the ends of the requests in `sign/` | `MCUi` | `UiProofs` |

The `MC*.tla` modules give values to the constants of a specification; the
`.cfg` files name the specification, the bounds and the properties.
Some put specifications that do not interact side by side: a constant variable
(`level`, `part`, `kind`) says which one a behaviour is about, and the others
stay in an initial state. The behaviours of such a run are the disjoint union of
theirs, so each property is checked on all behaviours of its own component and
says nothing new about the others.

## 1. Inventory

### Mod host (`runtime/mod-host`)

State: the loaded entries, each with its instance, its context (hook groups,
references to the game module, pending and published interfaces) and the flags
participated / stopped / detach called / detached / released; for the host, the
phase it told the mods, the next phase, the startup results, `native_running`,
`shutting_down`, `stopped`, `detached`, `release_prepared`. Operations: `load`, the
startup phases `prepare`, `check` and `attach`, registration of interfaces and hooks from
inside a callback, `launch` (which asks the one provider of the effective tier),
`running`, `set_game`, `stop`, `detach`, `prepare_release`, `retain`, `drop`. Everything runs on one thread; what makes it hard is that
every callback may fail, that every cleanup call may be retried after it failed
half-way, and that several summaries (the flags of the host) must stay true of
the parts (the entries) throughout. Correct means: providers before consumers
on the way up, consumers before providers on the way down even if the
configured order says otherwise, a failure keeps exactly what is still in use,
no hook outlives its mod, and no mod is freed while game code may call it.

### Game session (`runtime/game`)

State: the host, the native game (startup lock, game DLL), where `run_session`
is. Operations: `run_session`, `finish`, `NativeGame::{launch, load, run,
unload}`. It calls the host; the host's mods refer to the game DLL it loads.
Hard: every step may fail, may panic, and the end has to decide between
unloading everything and retaining everything. Correct means: the DLL is
unloaded only when no mod refers to it and no hook is in it, mods outlive
`DllMain`, a failed cleanup keeps both halves, and a session always ends.

### Hook groups (`runtime/hooks/src/lib.rs`) and targets (`backend.rs`)

State: of a slot, the prepared mutex, the callbacks (state, number of leases,
retiring); of a group, the MinHook entries it created and enabled; globally the
ordered table `TARGETS` of spans with their owners. Operations: prepare, create,
enable, install, enter and leave of a detour, uninstall (disable, retire, remove),
drop; `PatchReservation::{reserve, release}` and the query `ensure_released` by
which the host learns that a mod left something behind. Hard: game threads run
the detours while the host's thread installs and removes, MinHook may refuse
any step, and slots are static and reused. Correct means: a state is dropped
only when no callback uses it, a trampoline exists as long as a thread may jump
to it, a detour never calls itself through an empty slot, an uninstall ends,
and two editors never share an address.

### Resource workbench (`mods/workbench`)

State: on the UI side the shown view, drafts with their revisions, busy /
loading / saving, the file chosen next; on the worker side the session
(document, history, saved mark); between them a mutex with pending requests
(one per kind, later ones replace earlier ones) and pending updates.
Operations: typing, node actions, undo and redo, expansion of details, packing,
choosing another file, leaving; the worker's turn takes all pending requests
and answers them in a fixed order. Hard: two threads, requests that overtake or
replace each other, answers to questions nobody asks any more, rebuilds that
are refused, closing in the middle. Correct means: no input is lost without an
error being shown, no accepted pack is dropped, the history survives, and every
wait ends.

### Overlay and input (`mods/ui`)

State: the list of contributions, each behind a lock of its own; the frame's
pipeline and whether rendering is off; the input policy of the last frame; for
each button and key the recipient of its press, once for window messages
(`CaptureState`) and once for what the game samples (`PolledInput`); the IME's
composition. Operations: register, unregister, the passes of a frame, device loss,
a panicking callback, uninstall; a window message, a poll, a policy change, a
loss of focus. Hard: mods unregister while the render thread works on a copy of
the list, also from inside a callback; the policy changes between press and
release; two input paths see the same key at different times. Correct means: no
callback after `unregister` returned, none before `initialize`, an unregister
ends, a held key keeps its recipient on both paths, and in the end the game has its
input back.

### Configuration and mod manager (`mods/config`, `apps/mod-manager`)

State: one TOML file; in the game process the cached document and the
registrations of sections (defaults, fixed values, INI names); in the manager
the table as it was loaded, the user's draft, the job under way, and whether the
window is to close after a save. Operations: register, read, patch, the hooks of
the Win32 profile functions, unregister; edit, revert, save, refresh, import and
export, close. Hard: several programs write the file; values are merged into what
another wrote; a job's answer arrives after the user went on. Correct means: a
saved value stays until someone changes it, fixed values win, unknown
fields and the values of others survive a save, and the user's edits are not lost
without a question.

### Package library (`runtime/mod-package`)

State: the directories of packages, the staging directory of an import. Operations:
`resolve` (a search with backtracking), the diagnosis of a failure, import of an
archive with several packages and its rollback. Hard: a choice made early
excludes the only solution; explanations that blame what has no part in the
conflict; an import that fails in the middle, next to another one. Correct means: a
solution is found if there is one, providers come first (the assumption of
`ModHost`), conflict sets are minimal, an import publishes all or nothing and never
replaces anything.

### Geometry (`mods/geometry`)

State: growing buffers with their native uses, the operands and instructions of the
game that point at them; owners of weapon textures and handle generations. Operations:
prepare, publish, confirm and reclaim around the game's readers and constructors,
reset of the asynchronous queue, restore; construction and cleanup of weapons,
reservation, creation and release of textures. Hard: the game's workers use memory
after the job was given up; writing code fails half-way and so does its rollback;
handles are reused while another thread is still releasing the old object. Correct
means: nothing in use is freed, a failed load shows nothing stale, a living weapon
keeps its textures, and nothing stays for ever.

### AI debugger (`mods/debug-tools`, `shared/ai-debug`)

State: the session (mode, stop reason, breakpoints and what may pass one once, the
parked turn with its control stamp, the owed trigger `wake`, the frame of the last pump) around a
`Debugger`; the native actor (cursor, latch, mode); a bounded trace of instructions, and a
replay of it. Operations: attach, detach, pause, continue, step, run until yield,
breakpoints, clear, the replacement of the AI, a decision by hand; the hooks at the entry,
at each dispatch and at the exit of the game's interpreter; the frame. Hard: a turn of the
interpreter is parked over many frames while the world goes on and the game keeps
triggering; the game clears its trigger before it asks; the actor may change mode, be replaced
or get another AI meanwhile. Correct means: a turn runs whole and once, a trigger is not
lost, no instruction runs that was not asked for, a step ends, and a replay shows what was
captured.

### Transformation (`mods/debug-tools`, `mods/quest`)

State: the command queue; the transformation (form, slot and serial number of the actor, the
wait for it and for the arrival in an area); the prepared quest of the session; the epoch of AI targets.
Operations: the commands of the windows, which the game's thread runs before a frame
(transform, act, trigger, return to the hunter, restart, change the area, replace the
species of a target, edit its AI, leave); the frame before and after the game's own code. Hard: the
game owns the actors and frees slots, uses them again, changes area, ends and
reloads the quest between any two frames; a command prepares the quest and then the reload may
be refused; the windows choose from a snapshot that is old when the command runs. Correct
means: what is written reaches the actor it is meant for, the actor in a world is the one prepared, and the
hunter is not left waiting.

### Login window (`mods/login`)

State: the page (sign-in form, characters with the operation under way, closing), the
connection with its saved password, the settings page that can cover it, the channel of
answers, the launch request. Operations: the messages of `Model::update`, opening, saving
and cancelling settings, the effects (three requests, each on a thread of its own that answers, fails or
times out after ten seconds) and closing. Hard: the settings replace the server
under a page that has a session with the old one; lists change with every answer, deletion and
creation; a TCP server answers a creation with a whole new sign-in, an HTTP server with one
character. Correct means: form, session, saved password and requests belong to one
server, an answer meets the page that asked, what is selected can be launched, and
no request leaves the page locked.

### Other components

| component | state and operations | why it is hard | here |
| --- | --- | --- | --- |
| Game module references, `runtime/hooks/src/module.rs` | counted `LoadLibrary` of the game | a failed release has to be retried | a resource of `ModHost` |
| Workbench preview and metadata, `native.rs`, `inspect.rs`, `edit.rs` | parsers, rendering | binary data, sequential | contract only (rebuild or refuse) |
| Mod API and SDK | C tables | a panic or a wrong size at the boundary | phases and status only |
| Base mod, `mods/base/src/module.rs` | five features in each phase | a retry after a partial failure | no |
| Quest, `mods/quest/src/provider` | selection, seal, session, restart | startup code against game hooks | the prepared quest, in `MonsterControl` |
| Monster and AI compiler, `mods/monster` | overlay of patches | follows the protocol of `HookTargets` | no |
| The rest of the debug tools, `mods/debug-tools` | windows; the hunter's equipment and looks, camera, combat statistics | native data | no |
| Font, data redirection, sample mods | one group of hooks each | nothing beyond `HookSlot` | no |
| Launcher, decompiler | programs around the libraries | I/O | no |
| Resource formats, transport, domain, common, egui-hunter | codecs, data types, widgets | no protocol | no |

### How they interact

```
launcher ──> run_session ──> ModHost ──callbacks──> mods (Base, Workbench, ...)
                 │                │                   │ Context: interfaces, hooks,
                 v                │ ensure_released   v  module references
             NativeGame           └──────────> TARGETS <── hook groups, patches
                 │                                           ^
                 └── game DLL: its threads call the detours ─┘

mod manager ──> import, resolve ──> mods directory ──> launcher
      └──────> mhf.toml <── ConfigStore <── mods, Win32 profile calls of the game
```

The host calls mods and is called back through `Context` only while a callback
of that mod runs. A group of hooks belongs to a context and is removed by the
host after the mod's `detach`. The game's threads never see the host; they enter
through a `HookSlot`. The workbench is a mod that shares nothing with the game:
its threads meet only in `Shared`.

## 2. Models

Names of variables and actions are those of the code where TLA+ allows it; each
module starts with a comment that says what it leaves out. A call that calls back
is split into actions at the callbacks (an action "Call...", one action for each
outcome, one for the return), because the callbacks are where other
operations of the host can happen. Failures are separate actions.

### `ModLifecycle` and `ModHost`

`ModLifecycle` is what the host promises and nothing of how: each mod climbs the ladder absent,
idle, active, stopped, detached, released, gone. It is created after what it
uses, and takes a step of the downward half only after every mod that uses it,
directly or not. No mod is destroyed while any is still active or attached.
`ModHost` is the code:

| code | actions |
| --- | --- |
| `lib.rs` `load` | `CreateEntry`, `CreateFails`, `Loaded` |
| `lib.rs` `run_phase`, `context.rs` `publish_interfaces`, `discard_interfaces` | `CallPhase`, `EnterCallback`, `CallbackOk`, `CallbackFails`, `PhaseDone` |
| `context.rs` registration, `hooks/src/backend.rs`, `hooks/src/module.rs`, called by a mod during its callback | `Register`, `CreateGroup`, `EnableGroup`, `DiscardGroup`, `HookDirectly`, `AcquireGame` |
| `launch.rs` | `CallLaunch`, `LaunchReturns` |
| `lib.rs` `running`, `set_game` | `EnterGame`, `set_game` |
| `lib.rs` `stop`, `prepare_release`, `run_cleanup` | `CallStop`, `CallRelease`, `CleanupCall`, `CleanupOk`, `CleanupFails`, `StopDone`, `ReleaseDone` |
| `lib.rs` `detach`, `teardown_order`, `context.rs` `cleanup_hooks` | `CallDetach`, `DetachSkip`, `DetachCall`, `DetachOk`, `DetachFails`, `CleanupHooks`, `CleanupHooksFails`, `DetachDone` |
| `retain`, `drop` | `retain`, `CallDrop`, `DestroyEntry`, `Destroyed` |

The fields of the entries are sets of entries (`participated`, `entry_stopped`,
`detach_called`, `entry_detached`, `entry_released`, `alive`), the Boolean fields of
the host one set `flags`. `op` is the operation that runs, `caller` who called it,
`calling` the mod whose callback runs, and `pos`, `todo`, `errors`, `kept` and
`rank` are its local variables.

`HostImplements` in the proofs, and `Implements` in the runs, say that `ModHost`
implements `ModLifecycle` under the mapping written at the end of `ModHost`.

`dependencies_of` is the transitive closure of the declared dependencies. It is
defined as the least closed set rather than by the loop of the code, so that the
proofs need no induction over the entries.
Inputs are the constants `Deps`, `Offers`, `Uses`, `Orders`; the latter is the set
of teardown orders a configuration may ask for.

### `GameSession`

Extends `ModHost` and drives it: `Step`, `Prepare`, `Check`, `Attach`, `Run`,
`FinishStop`, ... are the lines of `run_session` and `finish`, and each call
of the host they make is the corresponding action of `ModHost`, followed by the steps of the
operation until it returns. Nobody else calls the host.
`PanicSpec` adds `Unwind`: a panic in a phase callback drops the fields
of the session in the order of their declaration.

### `HookSlot` and `HookTargets`

`HookSlot` has one static slot, several attempts to install a group into it
(the life of one `HookSet` and of the guard it becomes), the targets of the
group, and threads of the game that call the targets at any time. The two
mutexes, the waiting for the condition variable and its notification, each call of MinHook, and the two halves
of `Invocation::drop` (give the `Arc` up, then count down) are separate steps.
MinHook is external: `HookedNow` says that some target is enabled, so that a call
of it arrives in the detour. The order in which a group handles its targets is left
open.

`HookTargets` has the table only: `owner` and `end` of each span by its first
address, and what each client (a hook group or a list of patches) claims, keeps
and has changed in the code. `Reserve`, `Claim`, `CreateOk`, `CreateFails`, `Edit`, `Undo`, `Release`
and `Abandon` are its operations; `ensure_released` is the host's query.

### `Workbench`

Two actors. The UI's actions are what the user does (`Type`, `Flush`, node actions, undo,
redo, expand, pack, choose, leave) plus `Poll`, which takes the updates; the
worker's are one turn, in the order of `worker.rs:146-228`, and the exit.

What is abstracted:

- a document is one value per field and one bit for the details being expanded.
  One field, `NameCheck`, stands for what packing repairs: any rebuild sets it to
  `Right`;
- the revision numbers of inputs are replaced by two sets, what was submitted and
  what was touched since;
- focus and debounce are an arbitrary `Flush`;
- the byte budget of the history is a number of steps, `HistorySteps`;
- `MaxRequest` and `MaxRedo` keep the runs finite. A switch of files takes numbers without asking, so neither
  bounds `request`, which is any natural number in the type and in the proofs (a `u64` in the code);
- a poll handles its answers one at a time and the worker waits meanwhile, which
  is no restriction as the two share nothing until the poll is over;
- `flush_edits` is split between posting the pack and posting the edit, because
  the worker may take the first without the second;
- `Refused` is the set of contents that encode but cannot be rebuilt: the
  refusal is a function of the content. Reading and packing fail at any time;
- the catalog scan, the preview queue, the export's status line, and drafts whose
  address moves when the structure changes are left out.

### `Overlay` and `InputCapture`

`Overlay` has the threads of mods and the thread inside `Present`. A frame is its
passes (`Enter`, `EndPass`), each going through a copy of the list (`Visit`) and
calling each contribution under its lock (`Initialized`, `Returns`, `Panic`);
`Unregister`, `Unlist` and `Take` are the three steps of an unregistration, which a callback may
make too; `BeginStop` and `Drained` are the uninstall, `DeviceLost` the device.
Drawing is left out. `InputCapture` is one window: `Device` presses, the
message arrives later (`Message`), the game samples when it likes (`Poll`), frames
change the policy (`Update`, `ClearCapture`). `seen`, `began`, `told` and `composed`
are history variables: what the game knows, who got the press, what was sampled, and
what fell into a composition.

### `Resolver` and `PackageImport`

`Resolver` translates the search (`Choose`, `Visit`, `SolveRoots`) and the
search for conflicts (`Shrink`, `Cores`). A recursive function of the code is a recursive function
on the set of its arguments (`Walks`, `Searches`, sets of roots), and the operator before it (`Visit`, `Choose`, `Shrunk`,
`JointConflicts`) has its body; a version
requirement is the set of versions it accepts. The results are
compared with `Valid`, `Lists` and `NoneNewer`, which say what a selection has to satisfy without saying how
to find it: by TLC for every input of the run, in the proofs for every catalogue and selection. `PackageImport` has several imports, each a staging directory, and the
steps of publication and rollback (`Publish`, `PublishFails`, `Undo`, `Finish`,
`Crash`). What is in a package is left out.

### `ConfigStore` and `ModManager`

Two views of one file, each with the other programs (`OtherWrites`, `OtherSaves`). `ConfigStore` has
the process's cache and registrations; an update is `BeginUpdate`, then `Commit` or
`WriteFails`, and what an API call or a profile call changes is a patch (`Apply`). `wanted`
remembers what was saved by whom. `ModManager` has the window (`Edit`, `Revert`, `Save`,
`Refresh`, `Archive`, `RequestClose`, `Discard`, `SaveAndClose`), the thread of the job
(`ReadFile`, `Fail`, `WriteFile`, `SaveFails`) and `Poll`, which takes its answer; `intended`
is its `wanted`. Each has a constant (`Overlap`, `LateSaves`) that says whether other programs write
between the read and the write of an operation, see section 5.

### `NativeBuffer`, `EquipmentCache`, `StageCache`, `WeaponTextures`

`NativeBuffer` is `cache.rs` as operators on a record. `EquipmentCache` surrounds it
with the operands in the code, two groups of caches (asynchronous and synchronous), and the
game's readers and constructors with those whose job was given up (`orphans`). An operand
write may fail before or after the bytes are copied, so `RetargetFails` leaves any prefix of
writes and of the rollback. One build works on every cache of its group, and returns: the
frames of the hooks are `extern "C"`, through which nothing unwinds. `StageCache` has the patched instructions and the
pair of mesh and skeleton. `WeaponTextures` has threads; each action is a
critical section of `Ownership` or a native call. Every object has the same address
there, the worst case for checks by identity.

### `AiDebug` and `AiTrace`

`phase` says which part of a frame is under way: the commands, the world, or a call of the
interpreter and by whom. `Enter` is the entry hook, `Park`, `Run` and `Exit` the
dispatch and exit hooks around the interpreter, `Command`, `Detach` (attach is a detach and a new
session), `Invalidate`, `HotReplace` and `ForceTurn` the commands, `BeforeFrame` and `Tick` the
frame and the hooked `select_action`. The operators `Stop`, `Resume`, `Step`,
`RunUntilYield`, `BeforeInstruction`, `AfterInstruction` are the methods of `Debugger`. The
script is a constant; `control` stands for what `ControlStamp` reads and only grows, for the
code accepts by design that an actor which returned to the same state is taken for unchanged. History
variables say which turn has begun and not ended (`unfinished`), what the user asked for
(`asked`), whether a trigger is owed. `AiTrace` is the buffer (`Push`), the check of a recording
(`Sound`), its checkpoints and a replay (`StepForward`, `StepBack`, `Jump`), with everything that was
ever captured as history.

What the model makes visible and no property forbids:

- a trigger suppressed by a pause is given up with the parked turn when the actor's control
  state changed (`before_frame` clears `wake` with `resume`), though the comment there and
  `mods/debug-tools/README.md:155` speak of restoring native scheduling; `TriggerKept` excludes
  the case by name (`voided`);
- a command while the quest is not ready ends the session and drops a parked turn without
  finishing it (`Invalidate`);
- a pause after an invalidation replaces the stop reason, so that continue is accepted
  without attaching again;
- the budget of `run until yield` is the interpreter's own (999), so the turn ends first and
  `BudgetExhausted` is never the reason.

### `MonsterControl`

| code | actions |
| --- | --- |
| `mod.rs` `send`, `commands` | `send`, `Take` |
| `native.rs` `dispatch`, the commands | `Execute` with `transform`, `TransformAction`, `trigger`, `RestoreHunter`, `restart`, `ChangeArea`, `replace_species`, `execute`, `exit` |
| `monster.rs` `before_frame`, `area_transition` | `BeforeFrame` |
| `monster.rs` `after_frame`, the snapshot | `AfterFrame` |
| the game (external) | `Load`, `Finish`, `Travel`, `Pool` |

`hook` is where the frame is. A quest is the species of its target, the record of our actor
and the species it loads with their variants; a world is what the game made of one. An actor has
its slot, its serial number and a history bit that says whose it is (`own`). The model takes the worst case for
checks by identity: the pool never moves, serial numbers start anew in every world, and the game's other monsters
are always set up and of the target's species. The constructor makes an actor of the record in the quest that is *loaded*;
where that quest has none, of any species loaded. A step that writes to an actor says so in
`did`, and an edit carries the world and serial number it was chosen in.

What the model makes visible and no property forbids: when only the reload is refused (the archives
cannot be indexed), `transform` leaves the prepared quest and the waiting transformation
in place. The loop of `after_frame` asks the prepared quest for the record
(`override_contains`) and reads the loaded one, so in a world made without the record an
actor may be made of what lies at its place. `CreatedAsPrepared` excludes the case by
name (`unloaded`) until the next world is loaded.

### `Login` and `SignServer`

`model` is the Rust enum as tagged records: `SignInPage`, `CharactersPage`, `Closing`. The
user's messages are actions (`SignIn`, `SignOut`, `Select`, `DeleteCharacter`,
`ConfirmDeletion`, `CancelDeletion`, `Launch`), typing is `Type` and `ToggleRemember`, the settings
page `OpenSettings`, `CancelSettings`, `SaveSettings`. `Answer` is the end of a request's
thread, with the update of the saved password that the callback of a sign-in makes;
`Dispatch` is the frame that takes a message. What an answer says is chosen when it is
taken, from everything `validate_sign_in` lets through (`SignServer`). Credentials are told apart by the
server they were typed in for, which is what `NothingInherited` is about. The order of a list
matters only for the first selection, which is any member of it. The server read back after
saving may be any, for other programs write the file too; a server that differs in
its encoding only replaces the connection the same way.

What the model makes visible and no property forbids:

- a TCP server may answer a creation with a sign-in that has no entrance server. It is launched
  without the check that `launch_action` makes, and the start refuses it
  (`selected_character`) after the character was made. `LaunchesAsShown` excludes the case by name;
- a creation or deletion that times out may still have happened at the server; the list on the page
  stays as it was until the next sign-in.

## 3. Runs

| run | instance | states | shows |
| --- | --- | --- | --- |
| `MCModHost` | 3 mods in a chain, three kinds of interface, hooks taken directly, as a group and behind a module reference, two teardown orders, one of which contradicts the dependencies | 1.2 M | every callback, launch and cleanup may fail and be retried: `HalfPreparedHidden`, `NoOrphanHooks`, `NativeCodeKeepsMods`, the inductive invariant `IInv`, and the refinement `Implements` |
| `MCGameSession` | 4 mods: a library that hooks the game, a mod that uses it, a launch provider above, and one with a hook group that has nothing to do with them; orders that contradict the dependencies | 104 k | `GameGoesClean`, `FailureKeepsSession`, `FailureStaysLocal`, and `SessionEnds` |
| `MCGameSessionPanic` | the same with `Unwind` | | violation of `GameGoesClean`, see section 6 |
| `MCHooks` | slot: 2 attempts, 2 targets, 3 threads; table: 6 addresses, two lists of patches that overlap each other and the entries of two groups, two owners | 122 k | `TrampolinesLive`, `RetiredAlone`, `UninstallEnds`; `OneEditor`, `ReleasedMeansClean` |
| `MCWorkbench` | 2 files (symmetric), a draft field, 3 requests (and one more for a redo), node actions, deferred details | 1.2 M | `Answered`, `NothingOverwritten`, `DraftsKept`, `HistoryKept` |
| `MCWorkbenchLive` | 2 files, fair, a content that cannot be rebuilt | 75 k | `DraftsKept` when a batch is refused; `WaitsEnd` |
| `MCWorkbenchUndo` | 1 file | | violation of `OnlyRepairsAdopted`, see section 6 |
| `MCUi` | overlay: 2 contributions, 1 mod thread and the render thread; input: a button, a key, 3 waiting messages; login: an HTTP and a TCP server, 3 character ids, lists of at most 2 | 252 k | `NothingAfterwards`; `HeldKeepsRecipient`; `NothingInherited`, `LaunchesAsShown`; `WaitsReturn` (`unregister` and the requests of the login window end) |
| `MCUiIme` | the same | | violation of `GameSeesRelease`, see section 6 |
| `MCFiles` | 3 packages and 2 imports; 3 mods in 2 versions with every combination of the listed dependencies, pins, disabled mods; a game section in two spellings, a section with a fixed value, one without registration; the manager with two fields | 172 k | `WholeOrNothing`, `NeverReplaced`; `AnswersAreRight`; `SavedChangesKept`; `EditsSurvive` |
| `MCGeometry` | 2 caches of 2 operands, each with a loader of its own, or both built together by the asynchronous one; 2 patched instructions; 2 threads, 2 handles, 2 weapons (symmetric) | 585 k | `NativeMemoryLive`; `StageMemoryLive`; `LiveWeaponKeepsTextures` |
| `MCDebugger` | a script of 5 instructions with turns of 3, one position to break at, one watched field, 4 commands; a recording of 5 instructions in a buffer of 3, checkpoints every 2; a pool of two, two forms, one of them a variant of the quest's own species, 2 commands | 752 k | `TurnsUnbroken`, `TriggerKept`, `RunsAsAsked`; `ReplayIsCapture`; `WritesReachTheirActor`, `CreatedAsPrepared`; `NothingLasts` (a step of the debugger and a wait for the actor end) |

The type invariant of a component is the first conjunct of one of these (`IInv`,
`FailureKeepsSession`, `RetiredAlone`, `Answered`, `NothingAfterwards`,
`HeldKeepsRecipient`, `NothingInherited`, `SavedChangesKept`, `EditsSurvive`, `WholeOrNothing`, `NativeMemoryLive`,
`StageMemoryLive`, `TurnsUnbroken`, `WritesReachTheirActor`). Some properties have several parts that answer one question, such as
`AnswersAreRight` (a valid selection than which none is newer,
providers first, a failure only if there is none, and then minimal explanations); each part has a mutant of its own.

Why these bounds are enough to see the interesting cases:

- three mods in a chain give a mod that is both provider and consumer, and
  transitive use; the fourth, unrelated one of `MCGameSession` is what a failure
  must not touch. The dependency relation matters to the host only
  through "uses" and the order, and the proofs cover every relation;
- two attempts at a slot let one be installed while the other waits for the mutex
  or is left over from a failure; three threads let a lease of the old group, a
  detour that finds nothing and a waiting uninstaller coexist;
- the patch lists of the table overlap by one address, touch, and
  enclose an entry. The proofs cover every layout;
- with three requests the workbench can have one answered, one in the worker and
  one pending, which is the longest chain of overtaking that the single slot per
  kind allows. `MaxRequest` bounds new work; what is under way may still go on
  to `MaxRequest + MaxRedo`, and a redo, which comes after a load, an edit and an
  undo, is started below `MaxRedo`. Two files are enough to leave one and come
  back to it;
- two contributions let a callback of one unregister the other while a mod does
  the same; three messages are a press, a repeat and a release in the queue at once;
- with three mods in two versions the first choice can exclude the only solution,
  a cycle can go through some versions only, and a conflict can need one, two or
  three roots; three packages let an import fail after one and before another;
- four commands (`MaxCommands`) attach, set a breakpoint, continue and continue again; the script comes
  round within them, and a turn can end at the budget, at a yield and at a stop. One change of control
  (`MaxChanges`) and one other version (`MaxVersions`) can hit a parked turn, and a buffer of three drops
  entries on both sides of a checkpoint (`MaxCaptured`, `MaxFrame`);
- two commands of a window (`MaxRequests`) are a transformation and whatever undoes, repeats or disturbs
  it; `QueueLimit` lets both wait for one frame. In a pool of two the target keeps the first slot, the other is the
  one that is freed and used again, for which three serial numbers (`MaxSerial`) are needed: target, our actor,
  its successor. The wait of 180 frames is two (`Patience`): one that passes and the last;
- two writes of the file (`MaxWrites`, `MaxSaves`) are a change by another program,
  or by another mod, and an update over it;
- three ids and lists of at most two (`Limit`) give a full list, a deletion that leaves another
  character, and the same id on two servers;
- two capacities make a buffer grow under a use, two serial numbers (`MaxSerial`) reach the end
  of the counter, one orphan (`MaxOrphans`) is a worker that writes late; two handles, two owners and three
  generations (`MaxOwner`, `MaxGeneration`) reuse a handle under a claim.

`MCHooks` checks deadlock for the slot; the table of addresses may rest, for
all clients may have been dropped or have abandoned what they keep. `MCUi`,
`MCFiles` and `MCDebugger` have no deadlock check: overlays may all be gone with the hooks
removed, a resolution and an import are over, a window is closed, a recording has reached its bound.
Elsewhere an ended system stutters explicitly.

### Fairness

- `GameSession`: weak fairness of the session's next step and of the host's steps
  other than what a mod asks for inside a callback. It is one thread that runs on;
  callbacks are assumed to return. The game may run for ever.
- `HookSlot`: weak fairness of each attempt inside an operation (`Continue`) and of
  each thread inside a detour (it returns), none for starting an operation or for the game
  calling a target. That the notification is not lost is what the run shows.
- `Workbench`: weak fairness of what the UI does unasked, and strong fairness of
  `Poll` (every frame polls, whatever the user does in between) and of the worker. The worker needs the strong form
  only because the model holds it still while the UI goes through the answers of
  a poll. Nothing is assumed of the user.
- `Overlay`: weak fairness of a frame once it has begun to call contributions (its
  callbacks return, as the host of a frame runs on) and of each thread inside
  `unregister`.
- `AiDebug`: weak fairness of the interpreter, of the frame and its end (the game runs on), and
  strong fairness of `Tick`, since the frames in which the actor's delay is over come again and again. The
  game is not assumed to trigger a turn, nor the user to do anything.
- `MonsterControl`: weak fairness of the frame's own steps, as the game calls its dispatch in every frame.
  The game need not load a world, travel or do anything else, and the windows need not send.
- `Login`: weak fairness of the end of each request (it times out after ten seconds) and of the
  frame that takes an answer (every answer asks for a repaint). The user need not do anything.

The other specifications have safety properties only. In a run of several
specifications fairness is stated for those that have it, each for the behaviours about
it (`part = ...` in the fair action), so that what rests is not asked to move.

## 4. Proofs

TLAPS checks the eight modules `*Proofs` to the last leaf. They assume nothing but the
named assumptions of the specifications on their constants, which TLC evaluates in the runs:

- `ModHost`: a natural number of mods, dependencies that name earlier entries
  (`DepsAssumption`: the resolver lists providers before consumers), any offers and uses, any
  teardown orders;
- `HookTargets`: non-empty patches within the address space, an owner for each client;
  `HookSlot`: what stands for "no attempt" is none;
- `Resolver`: finitely many mods and versions, numbered in the order of their names and of the versions, and inputs that
  are catalogues with a selection; a mod may require what no catalogue has, or itself;
- `PackageImport`: the user is not an import; `ConfigStore`: what a registration brings are tables, what
  others write are keys and values, and what stands for a file that does not parse is no document;
  `ModManager`: a bound that is a number, and what stands for no file and no job is none;
- `Workbench`: the file name check is not among the drafts; the values can be typed and the repaired one is
  among them; the game's files, the refused contents and the node actions are made of values; what stands for none is
  no path, text, document, session, draft, request or answer;
- the geometry modules: at least one capacity, operand and instruction, and each cache
  belongs to a group. `WeaponTextures` assumes nothing;
- `Overlay`: the render thread is not a mod's; `InputCapture`: the bound of the queue is a number;
  `SignServer`: finitely many ids (they are `u32`) and a positive limit;
- `MonsterControl`: the pool has the target's slot and a transformation waits for at least one frame;
- `AiDebug`: a script has a first position, only a stop ends it, and a turn may dispatch at least once;
- `AiTrace` (stated in `MCDebugger`, which instantiates it and which the proofs extend): room for one instruction, a positive distance of
  checkpoints, and positions in the script that are numbers, of which there is one.

None of the safety properties is inductive as it stands. In each module the invariant says what
the code relies on at the places where the property is not looked at; it was
checked by TLC as an invariant of the run of its component before it was proved. The proofs
have one step lemma per action or group of like actions, and in it one step per part
of the invariant.

### The host (`ModHostProofs`)

`HostInvariant` proves `Spec => []IInv`. That `detached` is true of the entries depends on where the pass was when
it finished, and that depends on what it kept. So `IInv` is

- `TypeOK`;
- `ControlInv`: which operation may run in which state of the host, and where its
  cursor is;
- `EntryInv`: the steps of one entry come in order, and the flags of the host are
  true of all entries;
- `OrderInv`: in each cleanup step, consumers are ahead of what they use;
- `ReversePassInv`: what a stop or release pass has left behind is complete, or
  all it uses is kept; no errors means nothing was kept;
- `DetachPassInv`: the same of a detach, whose remaining entries are closed
  under dependencies whichever order was asked for.

Each part has a step lemma with one case per action. The lemmas about
`dependencies_of` (`DependenciesClosed`, `DependenciesLeast`,
`DependenciesTransitive`, `DependenciesLower`, `FreeMeansUnused`) carry the
order arguments. From `IInv` follow

- `HostImplements`: `Spec => Implements`, that is, every step of the host is a step of
  `ModLifecycle` or changes nothing there (`RefinementStep`);
- `HostFlags`, `HostTypes`, directly;
- `HostProvidersReady`, `HostHalfPreparedHidden`, `HostNoOrphanHooks`, `HostNativeCodeKeepsMods`, each with
  a further small invariant (about the phase under way, the hooks of detached
  entries, and native code during cleanup);
- `HostFailureStaysLocal`, from the two invariants of passes.

### The session (`ModHostProofs`)

`SessionDrivesHost` is the refinement: every step of `GameSession` is a step of the host, or
leaves all of its variables alone, so a behaviour of the session is one of the host and
the theorems above hold inside a session (`SessionKeepsHostPromises` states two).
`SessionInvariant` adds what the session knows of the host: `WaitInv` (which operation of the host
belongs to which point of `run_session` and `finish`; elsewhere the host is idle),
`ReleasedInv` (from the release on the host's record is complete and without a failure) and
`DllInv`. With `RefInv` (whoever holds a reference took part and was not released)
`SessionGameGoesClean` and `SessionFailureKeepsSession` follow. They are about `SessionSpec`
without a panic; with one, section 6 shows the opposite.

### Hooks (`HookProofs`)

`SlotInvariant`: `LeaseInv` is the heart. `active` is the *cardinality* of the set of
threads that hold a lease or are leaving, so that zero means that nobody is inside, for
any number of threads; a lease is of the state lent now, or of one whose attempt
still waits for it. `MutexInv`, `OccupiedInv` and `StateInv` say who has the two
mutexes and whose state is in the slot, `TargetInv`, `EnabledInv` and `LoopInv` that an enabled
hook has the lent state behind it and is still to be disabled. `SlotTrampolinesLive` and
`SlotRetiredAlone` follow.

`TargetsInvariant`: the table's spans are disjoint, the
table has every span that a client claims, keeps or has changed, in its owner's name, and no
two clients share one. `RegisterStep` and `FreeStep` do the work: a registration
keeps spans disjoint because it compares with both neighbours in the order of
addresses, and a release by one client disturbs no other. `TargetsSpans`,
`TargetsOneEditor` and `TargetsReleased` follow.

### Files (`FilesProofs`)

The resolver is proved function by function, for any number of mods and versions. `SolveRoots`, `Shrink` and the others are
recursive functions, so two things have to be shown of each: that a function with this body exists, and that every
such function has the property. Both are inductions over data. The library states induction for an operator, which these provers cannot instantiate;
it is replaced by a statement about sets, `LeastNumber`: if the claim failed anywhere, it would fail at an argument of least size, and there the
body looks only at smaller arguments. `Recursion` does this once for the existence; the sizes are `Size` for a walk, the
mods not yet selected for a search and the number of roots for the cores (`WalksSmaller`, `BranchSmaller`, `TriedSmaller`).

- `VisitFindsOrder`: of any complete selection, `visit` lists each mod once and after what it requires, or finds a
  cycle, and it finds one exactly if there is one. For this the mods being visited lead to those to visit (`VisitRight`); a
  mod met again while it is being visited therefore leads to itself (`CycleFound`), and a list in layers leaves no room for a cycle
  (`LayersAcyclic`).
- `SolveFindsSolution`: `resolve` succeeds exactly when there is a valid selection, and none is newer
  than what it returns. A branch of the search is coherent (its constraints are those of the roots and of what is selected, and
  every mod in it is needed: `BranchCoherent`); the valid selections that extend it are
  split by the candidates for the next mod (`ExtensionsSplit`), so that a branch that fails hides none of another
  one's, and a branch without a next mod is extended by itself alone (`AllSelected`).
- `CoresExplain`: each reported core conflicts and loses the conflict with any of its roots, and what is outside
  the cores works together. Fewer roots stay solvable (`FewerRoots`, by the part of a selection that they need), so a root that
  `Shrink` keeps is needed in every later trial as well (`ShrinkRight`).

`ResolverInvariant` says that the answers of the state are those of the functions, and `ResolverAnswersAreRight` follows.

`ImportInvariant`: a package of an import in the directory is one it has recorded as
published, or a removal that failed (`OwnInv`), and only the removal under way has damaged anything
(`DamageInv`). From it `ImportWholeOrNothing`, and the action property
`ImportNeverReplaced`: no step replaces or removes what another import or the user put there.

`StoreInvariant`, of the configuration provider: what is cached, and what an update is about to
write, is a document in which every registered section is acceptable and has its fixed values. It needs no
assumption about other programs. `StoreSavedChangesKept` needs that they do not write between the read and the
write of an update: then the document to be written is the file with the patch and the fixed values applied
(`SavedInv`), and the file is what everybody saved, in order. The lemmas about `Apply`, `Fix` and the
tables (`ApplyDocument`, `FixDocument`) say that what the provider makes of a document is one again.

`ManagerEditsSurvive`, of the mod manager: a job that saves was given the table and the draft that the window shows,
so its answer replaces nothing but the edits it was given (`JobInv`), and a closed window had no edits or the user
discarded them; the steps of the window keep every edit otherwise (`EditKept`, an action property). What others
saved is kept (`NobodyLost`) because a save goes on from the file it has just read, if nobody writes in between.

### Geometry (`GeometryProofs`)

`CacheInvariant` is about any number of caches, groups, operands, capacities and orphaned
workers. The difficulty is that an operand may hold another address than the
mod believes, when a write and its rollback failed. `MemoryInv` says that every address in
the code, and every one that a reader, a constructor or an orphan works on, is allocated and given out;
`CodeInv` when the code and the mod's record may differ; `PendingInv` that a use waiting for its
confirmation is of what the code shows, and pinned if an orphan works on it; `ValidInv` and
`AskedInv` what content the next constructor finds. The lemmas about the
operators of `cache.rs` (`Prepare`, `Publish`, `Confirm`, `Reclaim`, `Restore`: what they keep, free and pin) come first.
`StageInvariant` is the same for the raw buffer and the pair of a stage. `CacheNativeMemoryLive` and
`StageWorkspacesLive` follow.

The proof found the model wrong in one place. A constructor of the game was allowed to unwind through the
mod, and then a build that works on two caches confirmed the use of one of them only: `PendingInv`
could not be proved, and TLC had not seen it because the instance had one cache in
each group. The frames are `extern "C"` (`native/equipment_cache.rs`), which nothing unwinds through, so
the action is gone, and the instance now has a group of two caches as well (`"batch"` in `MCGeometry`).

### The textures of weapons (`WeaponProofs`)

`WeaponInvariant` is about any number of threads, handles and weapons, however often handles are used again. A handle
names many textures in the course of time; the generation tells them apart.

- `OwnedInv`: of the textures of a handle at most one is current, and it has one owner; a complete one is in its
  slot; one under creation belongs to the thread that creates it. `CountInv`: so the count of a handle is one or
  zero, and the two halves of `protects` agree.
- `ConstructInv`: an owner is under construction as long as a thread is, and a retired one waits for that only.
- `SlotInv`, `ClaimInv`: a slot that is reserved or claimed has no owner, and a claim belongs to the one thread with
  its number, which a reservation or a later claim of the handle cannot disturb.
- `OrphanInv`: a texture that is in its slot and has no owner is with a thread that has claimed it or still has it
  in its bank or among the retired ones.

`LiveWeaponsKeepTheirTextures` follows: the first part from `OwnedInv` and `CountInv`, the single release from
`ClaimInv`, and that nothing is left over from `OrphanInv`, for a thread that rests holds nothing. The lemmas
`OwnersShrink`, `ReleaseFrame`, `ClaimsKept` and `CountsDrop` do what the steps have in common.

### The workbench (`WorkbenchProofs`)

`WorkbenchInvariant` is about any files, fields, contents, history bound and number of requests. The UI drops
answers by their number, so a wait ends only if the request that ends it still has the current number; that is what the
invariant has to carry from the posting to the poll.

- `QueueInv`: on their way from `pending` over `work` and `updates` to `polled`, the loads and the
  expansions are in the order in which they were posted and none is newer than the current number; at most one edit and one
  pack are under way.
- `PhaseInv`: what may go on while the UI goes through its answers, while it is between the two requests of a flush,
  and after the stop; an exited worker has left neither a pack nor an export.
- `WaitInv`: each flag of the UI is set exactly while what it waits for is under way.
- `KindInv`: a load waits with nothing shown, and for the file that is chosen; an expansion with the current number has
  the bytes shown; the number of an edit under way is never given up, so that its answer is never dropped.
- `ShownInv`: what is shown is the document of the session of the open file.
- `SentInv`: a draft of the batch that was not touched since has the text that was sent, and then the text that the
  answer's document holds. This is what lets `finish_edit` clear it.

The lemmas before it say what the operators of a session do with any document: a rebuild sets what it was
given (`RebuiltDocument`), the bounded history keeps its nearest step (`TrimKeeps`), an edit, undo, redo or adopted repair leaves the bytes that it
replaces one step away (`ApplyKeeps`, `UndoneKeeps`, `RedoneKeeps`, `SavedKeeps`), and a new document keeps each draft
or marks it as conflicting (`InputRefreshed`). There is one step lemma per action; the actions that a draft or a session does not notice
share `DraftsUntouched`, `SessionsUntouched` and `QueuesUntouched`.

`WorkbenchAnswered`, `WorkbenchDraftsKept` and `WorkbenchHistoryKept` follow, and `WorkbenchNothingOverwritten` from the
posting actions, each of which looks at its flag first (`busy`, `saving`, the queue of the exports).

The proof showed that the type of `request` was wrong: it had a bound made of `MaxRequest` and `MaxRedo`, which held
in the runs and not for other constants.

### Overlay, input and login (`UiProofs`)

- `OverlayInvariant`: the panel whose lock is held is the first one the pass has left and its contribution
  is there (`CallInv`); a contribution belongs to a registration or to the thread that is about to take it
  (`HeldInv`); nothing is in the list before its registration, or twice (`ListInv`).
  `OverlayNothingAfterwards` follows.
- `InputInvariant`: the last message about a button in the queue agrees with the device (`QueueInv`), what the game
  believes to be down belongs to it and is down or has its release in the queue (`SeenInv`), and the two
  records of a press agree (`OwnerInv`). `InputHeldKeepsRecipient` follows for a queue of any length.
- `LoginInvariant`: exactly while a page waits there is one request for it, as a thread or as
  an answer, made of what the page shows (`FlightInv`); the page, the form, the session and the saved password are of the
  connection (`PageInv`); the selection is in the list, or there is room for a new one
  (`SelectionInv`); what was launched passes the checks of the start (`LaunchInv`). `LoginNothingInherited` and `LoginLaunchesAsShown` follow.

The removal from the list in `Overlay` is written as a function (`Without`) and not with
`SelectSeq`, which the provers cannot look into.

### The debugger and the transformation (`DebuggerProofs`)

- `ControlInvariant`, of the transformation: whoever has the serial number that is kept is our actor, in any slot
  (`InstanceInv`, which is where the reuse of slots is met); a request or target with the epoch of
  today is of this world (`QueueInv`); the prepared quest has the record of the transformation (`PreparedInv`), and a
  world made for it has at most one actor of ours, of that species and variant (`OwnInv`).
  `ControlWritesReachTheirActor` and `ControlCreatedAsPrepared` follow, for a pool, a wait and queues of any size.
- `DebuggerInvariant`, of the AI debugger: in a turn the interpreter's registers are those
  of the turn that began and has not ended, and no other is parked; between turns
  a turn that was cut short is the one the session holds, unless the actor's control or script has changed since (`TurnInv`).
  That control and version only grow is part of it: otherwise a turn could fit again after it was given up.
  `RanInv` says that a turn begun by the pump is known to the session until the tick is over. `DebuggerTurnsUnbroken` and
  `DebuggerTriggerKept` follow for any script.
- `DebuggerAsked` adds what was asked (`AskInv`): the run mode, the wish to stop and the breakpoint to be passed agree
  with the last command, a breakpoint may be passed only at the dispatch where the session stopped, and a turn is never
  parked at its last dispatch. `DebuggerRunsAsAsked`, an action property, follows: no instruction is executed that was not
  asked for, and a breakpoint is passed only by a single step or where it was met. The last part needs that a turn
  may dispatch at least once (`MaxCount`, 999 in the code); with none, a parked turn could not go on.

- `TraceInvariant`, of the recording: each entry of the buffer applies to one captured state and gives the next, counted over
  what was dropped, the buffer's ends are captured states, and so are the checkpoints of a replay and the snapshot it shows.
  `PushLeads` has the case of a full buffer, where the oldest entry becomes part of the initial state. A
  replay goes from the nearest checkpoint (`CheckpointExists`) through the entries; that the captured states are all that this
  recursion can give (`StatesFollow`) is shown at the least position where it would differ. `TraceReplayIsCapture`
  follows for recordings, buffers and distances of checkpoints of any size: a replay shows what was captured at its position,
  and a recording of the capture is never refused.

### Model-checked only

Liveness (`SessionEnds`, `UninstallEnds`, `WaitsEnd`, `WaitsReturn`, `NothingLasts`):
fairness and `ENABLED` are out of the prover's reach. Every safety property that a run without a
finding checks is stated by a theorem.

## 5. Not modelled

The table in section 1 says which components are out. Within the modelled ones:

- the bytes: file formats, meshes, scripts, textures, the C layout of interfaces. This is
  most of the code by size: the workbench's inspection and preview, the AI compiler and decompiler, the resource
  formats, the mesh builder are sequential functions on data, tested by round trips;
- Base calls its five features in turn and retries them; to the host it is a mod
  whose callbacks may fail, which `ModHost` has. The start of a quest, its selection and its sealing depend on native code that the
  repository does not describe;
- log messages and the wording of errors;
- an uninstall called from inside a callback of its own group waits for itself
  (`hooks/src/lib.rs:130`): a rule for callers that the code does not check;
- the length of a hooked function's changed entry: MinHook does not tell it, the
  code registers one byte, and so does the model (`backend.rs:149`);
- a worker thread of the workbench that panics (`worker.rs:194`), and panics in general,
  except of a mod in a phase callback (`PanicSpec`), of an overlay's callback (`Panic`), and
  of what runs inside the stage constructor of the game (`Unwinds`);
- the retry of a failed `FreeLibrary` in `hooks/src/module.rs`;
- the moment between the read and the write of an update of the configuration file. The code takes a
  mutex of its process only, so a value that another program saves in between is
  lost; `SavedChangesKept` fails when `Overlap` is `TRUE` and `EditsSurvive` when `LateSaves` is, and the
  run sets both to `FALSE` to say what holds otherwise. The theorems name it as their hypothesis.

## 6. Findings

**A panic frees the game before the mods are cleaned.** `GameSession`
declares `native` before `mods` (`runtime/game/src/game/mod.rs:16-19`). A panic in the
phase callback of a built-in mod is caught by nothing between it and
`run_session`, so the fields are dropped in that order: the game DLL goes first,
with the hooks and references of the mods still in place, and the host's `Drop`
cleans up afterwards. `runtime/mod-host/README.md:26` says that the session cleans up on
every exit path and keeps the game and the host when that fails. `MCGameSessionPanic` shows
the trace.

**The answer to a pack can bring back an undone edit.** `Session::saved` adopts
the packed document "only while the requested revision is still current"
(`mods/workbench/src/session.rs:69`) and compares bytes to find out. A pack with
drafts is given the document before the drafts. If the edit of the same click finishes, the
user undoes it, and then the answer to the pack arrives, the bytes are equal
again, the packed document is applied and the redo history is cleared. `MCWorkbenchUndo` shows the trace.

**The game does not see a release during a composition.** The comment at
`mods/ui/src/backend/capture.rs:32-33` says that a held key "keeps its original
recipient through release". The window procedure (`backend/window.rs:172`) withholds a key message
from the game when the capture claims it or the IME is composing, so the release of a key whose press
the game got is withheld when a composition has begun meanwhile. `MCUiIme` shows the trace.

## 7. Plan

Done: the host and its promise, the session, slots and targets, the workbench,
overlay and input, the login window, resolver and import, configuration and manager, the memory of geometry, the AI debugger, the transformation.
Left to model: the catalog scan of the workbench, its repacking of edited resources (`edit/batch.rs`, `edit/repack.rs`) and the start of a quest.

Proofs: every safety property that a passing run checks is a theorem. What has none is the liveness properties, which these provers cannot
reach, and the parts of section 5.
