# TLA+ models of keymapper

`keymapperd` intercepts the keys of one or more keyboards, decides for each
event what its rules make of it, and emits the outcome through a virtual
keyboard (Linux), a virtual HID device behind a helper daemon (macOS) or
`SendInput` (Windows). This directory models the program wherever state outlives
one call: the engine, each platform's key path, the life of the daemon and its
control endpoint, the configuration file with everybody who writes it, and the
query for the application that has the focus. TLC checks the models on small
instances, TLAPS proves the most important results for every instance.

Everything is translated from the source below `src/src/`; paths in this file
are relative to that directory unless they name another. `PROJECT.json` has the
lines of every definition, the hazards at their lines, and for every checked
property a mutated definition that breaks it.

    tlc -workers 2 -config MCMappingEngine.cfg MCMappingEngine   # any run
    tlapm MappingEngine_proofs.tla                               # any proof


## 1. The system

| Component | State it keeps | Operations | Talks to |
|---|---|---|---|
| Mapping engine `keymap_core/engine.rs`, `common/modifier.rs` | per keyboard: pressed and swallowed keys, the outputs each holds, the modifier mask rules are looked up with, forwarded and consumed bits, stale keys | `decide` (down, repeat, up), `note_held_keys`, `unnote_held_key`, `note_stale_key`, `clear_stale_key` | asks `Lookup` under a read guard; its decision goes to the platform |
| Emission plan `keymap_core/emission.rs` | none | `emission_plan` | platform layers |
| Rule lookup `keymap_core/lookup.rs`, `mapping_cache.rs`, `daemon/state.rs`, `common/keyboard.rs` | the compiled cache, the keyboard registry | `compile`, `lookup`, `for_active_app`, `update` | engine (readers), reload thread (writer), focus cache |
| Focus cache `common/ttl_value.rs`, `daemon/focus.rs` | the last application, its expiry, the refresh slot | `get_with` (`invalidate` is for its tests) | application identity |
| Application identity `platform/app_identity/*` | desktop-file caches, GNOME load and warm-up flags, KWin scripts on their way | the query of each platform and desktop, the list of names | display servers, compositors, D-Bus |
| Configuration format `common/config.rs`, `common/hid_usage.rs` | none | parse, validate, warn, resolve, add, write | loader, CLI |
| Configuration file, watcher, access `common/config_io.rs`, `config_path.rs`, `daemon/watcher.rs`, `platform/config_access/*` | the file, its owner, mode and directory; the watch, the reload channel | create, add, atomic write; classify, debounce, reload | CLI, editors, file system, `RuntimeState` |
| Linux event loop and output `platform/linux/mapping/{mod,device,epoll}.rs` | managed devices, epoll set, queue of output actions, virtual keyboard | take over, read, decide, emit, remove | engine, hot-plug thread |
| Linux hot-plug monitor `platform/linux/mapping/hotplug.rs` | the udev socket, its restart delay | listen, resync, add, remove, restart | event loop, through the device lock and the epoll set |
| macOS event tap `platform/macos/{mapping,emit,capture}.rs` | the predicted echoes, the scanner's flags, the batch channel | tap callback, writer thread, reconnect | engine, virtkbdd |
| macOS virtual keyboard daemon `platform/macos/{ipc_*,karabiner_client,virtkbd}.rs` | one peer, its limits, the report queue, the connection to Karabiner | admit, serve, emit; handshake, drain, post | event tap, Karabiner daemon |
| Windows hook `platform/windows/{mapping,raw_input,raw_worker,device_match}.rs` | hook, thread messages, raw-input buffer, pending outputs | hook callback, message loop, worker, self-test | engine, Windows |
| Control socket `daemon/control/mod.rs`, `platform/endpoint/*` | the connection served, the shutdown flag, the log level | accept, read, answer, shut down | CLI |
| Start-up, service management `keymapperd.rs`, `cli/daemon_cmd/*` | the process and what the service manager knows of it | start, stop, restart, status | systemd, launchd, Windows |
| Frame codec `common/frame.rs` | a partial frame | read, write | control socket, macOS IPC |
| Logging, key tables, device enumeration, key and keyboard probes | sinks, static tables | - | - |

What is hard in it:

- **One event is decided with state that others change.** A key-up must be
  treated like its key-down, though a reload, a focus change or a failing
  emitter came in between (`KeyFateKept`).
- **Modifiers are shared.** A rule consumes the modifiers of its trigger,
  outputs hold modifiers of their own, the real modifier keys are forwarded,
  and all of them meet on one output. Whoever forgets a bit leaves a key stuck
  (`NothingDroppedSilently`, `NoStuckKeys` and `NothingStuck` of every platform).
- **Decisions and effects are apart**: a batch decided under a lock and executed
  later on Linux, a bounded channel and two processes on macOS, a queue of
  another thread on Windows. Each effect is several writes that can fail.
- **The program sees its own output** on macOS and Windows, and has to tell it
  from the user's keys (`NoFeedback`).
- **A keyboard is taken over while somebody types on it** (`LinuxTakeover`), and
  keyboards come and go while nobody listens (`LinuxDevices`).
- **Peers are slow, late or gone**: the platform query runs in a read guard
  next to a waiting writer, a compositor answers after the query gave up, a
  client of the control endpoint says nothing, Windows removes a slow hook.
- **Several writers, no lock**: two commands, an editor and the daemon share
  one configuration file.
- **A stop is a matter of three parties**: the CLI, the daemon, which may be
  blocked, and a service manager that starts it again.


## 2. Modules

| Module | Models | Builds on |
|---|---|---|
| `KeyEngine` | the engine as a record, its decisions and changes as operators | - |
| `KeyFate` | abstract: each press is mapped, passed or unreachable, and its repeats and release follow it | - |
| `MappingEngine` | one engine in an event stream, with reloads and reachability; implements `KeyFate` | `KeyEngine` |
| `OutputActions` | `emission_plan`, the output actions, what each presses and releases | `KeyEngine` |
| `LinuxRemap`, `LinuxTakeover` | engines, batches, the queue, the virtual keyboard; the takeover of a keyboard | `OutputActions` |
| `LinuxEmission` | one output action as the writes it consists of | `OutputActions` |
| `LinuxDevices` | which keyboards are managed, when their events are read | - |
| `KeyReports`, `MacRemap`, `VirtualKeyboard` | the reports of a key, the event tap, virtkbdd | `KeyEngine` |
| `WindowsRemap` | the hook thread, the raw worker, their messages | `OutputActions` |
| `ConfigFormat`, `RuleLookup` | a document and what is read from, warned about and added to it; the compiled rules against the document | - |
| `ConfigReload`, `ConfigFile` | the reload of a file; what its writers do to it; `ConfigFile` implements `ConfigReload` | - |
| `FocusCache` | abstract query, the cache around it, the lock of the runtime state | - |
| `AppNames`, `ActiveWindow` | how processes and windows are named; the query step by step; implements `FocusCache` | `FocusCache` |
| `DaemonControl` | daemon processes, control endpoint, CLI, service manager | - |
| `*_proofs` (eight) | the theorems about the module they name; `KeyEngine_proofs` also has what `OutputActions` plans, `MappingEngine_proofs` the refinement of `KeyFate` and the theorem of `WindowsRemap`, `ActiveWindow_proofs` the theorems of `FocusCache`, `ConfigFile_proofs` those of `ConfigReload`, `LinuxTakeover_proofs` those of `LinuxRemap`, `LinuxDevices_proofs` those of `LinuxEmission`, `MacRemap_proofs` those of `VirtualKeyboard` | those modules |
| `MC*` | the instance of a run | that module |

No module declares a RECURSIVE operator. Constants carry named assumptions that
TLC evaluates in the runs.

How they fit together: `MappingEngine` checks an engine against every event
order. `LinuxRemap`, `MacRemap` and `WindowsRemap` compose that engine with each
platform's path to the output. `LinuxEmission` opens up the step in which
`LinuxRemap` executes an action; `EffectAsPlanned` (proved) justifies taking it
as one step as long as no write fails. `VirtualKeyboard` does for macOS what
`MacRemap` takes for granted of the process at the other end of its channel.
The engine modules take the rules as a partial function from (keyboard, usage,
mask) to an output list; `RuleLookup` shows that the compiled cache is that
function of the document, `ActiveWindow` which application it is asked for, and
`ConfigFile` when it is replaced.

### State and actions against the code

- **KeyEngine, MappingEngine.** The record `Engine` has the fields of
  `MappingEngine` (engine.rs:216-246); `held` and `swallowed` keep the key
  they belong to. A mask is a set of modifier bits. `KeyDown`, `KeyUp`
  and `UnresolvedUp` are `decide`; whether a key-down is a repeat is told by the
  pressed set, as in the code. The notes of a grab are possible only before the stream
  starts. A key may have no HID identity (`NoUsage`) or no bit (`NoBit`).
- **OutputActions, LinuxRemap.** `Plan` is `emission_plan` with the Linux fate of
  a consumed release (dropped). `ReadsKey`, `EndBatch` and `Emits` are the two
  halves of `process_device_events` and `emit_actions`; removing a keyboard
  drops its engine and releases nothing, as in the code.
- **LinuxTakeover.** The stages of taking a keyboard over (device.rs:440-860):
  grab, drain, `EVIOCGKEY`, the release window without the grab, its re-grab and
  the final drain. `client` is what applications see from the keyboard itself,
  `out` the virtual keyboard; `missed` is the history of what was discarded or
  pressed unseen. The start-up takes all keyboards over before the virtual
  keyboard exists, the hot-plug thread one at a time.
- **LinuxEmission.** `Begin`, `Press`, `Release`, `BaseDown`, the failures of each and `Return` follow
  `emit_tap`, `emit_hold`, `release_mask`, `forward`: what each stage writes and
  what an error does with what was written before.
- **LinuxDevices.** A keyboard's number stands for its file descriptor; the moment
  a keyboard is plugged in is the moment udev has tagged it. A resync scans or
  fails (`Scan`, `ScanFails`). The delays of the supervisor are "some time later".
- **MacRemap.** Each event of the session is a `UserEvent` or an `EchoEvent`; both
  run the whole tap callback: decode by flags, compare with the head of the
  prediction (any prefix of which may have expired by then, its echoes under way
  or not: `Expire`), decide, predict, enqueue.
  `ServerFound`, `WriteBatch`, `BatchFails`, `GiveUp` are the writer thread.
- **VirtualKeyboard.** `Server` is the main thread of virtkbdd (accept, admit the
  console user, limit, read a frame, turn outputs into reports), `Client` the
  thread that owns the Karabiner connection (trust checks of the path and peer,
  handshake, drain, post), `Environment` users, peers, the Karabiner daemon and
  the signal.
- **WindowsRemap.** `Deliver` is a key on its way to the hook and the hook
  itself (budget, own injections, elevated windows, match with the raw buffer,
  decision, injection), `Loop` the messages of the main thread from start-up to
  the end with the self-test, `Worker` the raw-input thread.
- **ConfigFormat, RuleLookup.** A document is the tree its YAML stands for.
  `CompileFromConfig` flattens groups, applications and sides as
  `mapping_cache.rs` does, `FindMatch` is the scan; `Edit` is any save, `Add` is `config add` on the
  document; the registry is filled at start-up and never again.
- **ConfigReload, ConfigFile.** A version of the file has a number, rules, an
  owner, a mode and a kind. `SaveAtomically`, `Truncate`, `WriteRest` are what
  editors do; the commands run step by step (look, open the temporary file,
  write, rename), may fail or be killed; the daemon arms, gets events,
  debounces, reads, compiles and swaps. `valid` is "loads and is trusted", which
  combines the parser with the checks of `platform/config_access`.
- **FocusCache, ActiveWindow.** One label per lock operation of `get_with`, with
  two exceptions: a thread that finds the slot taken reads the entry in the same
  step (`ServeStale`), and a refresh stores its answer and frees the slot in one
  (`Publish`). Applications are numbered in the order they get the focus, so that "older" is
  "smaller"; the runtime-state lock is parking_lot's, where a waiting writer
  keeps readers out. `ActiveWindow` replaces the abstract answer by the backends
  of a session asked in turn: X11, Windows, macOS, KDE (script, `loadScript`,
  callback, reply that may be late), GNOME (extension, warm-up), COSMIC, XFCE,
  Hyprland, sway. A call with a time-out fails when it is over; a peer that is
  waited for without one may hang (`PeerHangs`) until it is killed. The two caches
  of desktop files are filled by their own first use (`names`, `roots`).
- **DaemonControl.** A process is `starting`, `bound` or `running`, has a line of
  connections and serves one; `manager` is systemd, launchd or none (Windows).
  `managed` tells the manager's processes, or on Windows those the CLI may open,
  from one that was started by hand (`StartByHand`), which `stop_service` does
  not end and reports success for.
  `Stop`, `Start` and `Command` are the CLI with its waits and fallbacks; other
  peers may connect and say nothing.


## 3. Runs

| Run | Question | Properties |
|---|---|---|
| `engine` | Does every key-up and repeat get the fate of its key-down, and does the engine never forget what it left down? | `MarksBelongToPress`, `ModifierBitsJustified`, `ModifierStateExact`, `NothingDroppedSilently`, `KeyFateKept` (refinement of `KeyFate`) |
| `linux_keyboard` | Is the output clean when all keys are up, through takeovers, removals and reloads? Are taps undisturbed? | `NoStuckKeys`, `CleanTapUndisturbed`, `EmittedModifiersDown` |
| `emission` | What does one output action leave down when writes of it fail? | `EffectAsPlanned`, `ChordComplete` |
| `devices` | Does the set of managed keyboards follow what is plugged in, and is what arrives read? | `GoneIsAnnounced`, `NoneForgotten`, `FollowsPlugging`, `SmallBurstsAreRead` |
| `mac_remap` | Can the tap feed itself, leave a key down, or take a release for a press? | `NoFeedback`, `NoStuckKeys`, `EngineAtRest` |
| `virtual_keyboard` | Does virtkbdd leave keys down, serve the wrong user, or fail to stop? | `NothingStuck`, `PeerFollowsConsole`, `StopsUnlessServing` |
| `windows_remap` | Do presses and releases pair up through missing hooks and elevated windows? Does the queue drain, does the hook come back? | `NothingStuck`, `OutputsDrained`, `HookComesBack` |
| `rule_lookup` | Do the compiled rules answer as the document reads, are silent mappings reported, does `config add` change only what it says? | `AnswersAsConfigured`, `SilentMappingsReported`, `AddKeepsTheRest` |
| `config_file` | Is what a command writes readable, is a rule ever lost, does the last save come into force and nothing older? | `WrittenIsReadable`, `NoRuleLost`, `OnlyForward`, `LastSaveTakesEffect` |
| `active_window` | Is an answer always an application that had the focus? Is the focus known in the end, everybody served, nothing left in KWin? | `AnswersWithTheFocus` (refinement of `FocusCache`), `NeverGoesBack`, `KnowsTheFocus`, `EveryoneIsServed`, `NothingLeftBehind`, `ActiveIsListed` |
| `daemon_control` | Has a stopped daemon ended? Does a late request undo a later one? Does anybody wait for ever? | `StoppedMeansEnded`, `NoLateLevel`, `EndpointGetsFree`, `CommandsEnd` |
| `keep_alive` | Does a stopped daemon stay stopped under launchd? | `StaysStopped`, violated |

Several properties except a case by a history variable (`overlapped`, `disturbed`,
`missed`, `crowded`, `lost`, `late`, `muddled`, `mistaken`, `upset`, `restored`,
`wakeLost`, `unseen`, `unheard`), others by a condition of their own that their
comment names. The case is in the model each time, and the property says nothing
of it; section 5 lists what the code does there.

### Bounds, and why they are enough

- `engine`: five keys - two modifiers on different bits, a lock key that rules
  turn into a modifier, a letter, a key without HID identity - and three lookups
  in which a trigger consumes a modifier, an output holds one, a chord taps, and
  a list does several of these. The engine decides on one key against the rest,
  so two holders of a bit, a bystander and the key itself are the cases there are.
- `linux_keyboard`: one keyboard with Shift, a letter and a key without
  identity; it can be removed and taken over again. `MaxRing` 1 and `MaxBatch` 1
  (one event unread, one action queued ahead of the loop), `MaxQueued` 0 when
  a takeover begins, `MaxMissed` 1: at most one code has been left down for good
  by then; 0.8 million states. Without a bound on what was missed (2.0 million
  states), and with `MaxBatch` 2 as well (4.8 million), it shows no error either.
- `emission`: every action over two modifiers, a letter and a usage without key
  code, from every set of codes left down before, and two failed writes: the
  first failure and one in the clean-up it causes.
- `devices`: two nodes and two keyboards (one can replace another at its node or
  sit at the other), two restarts, one fault (an adoption or a
  resync that fails), `MaxUnread` 2 with reads
  of one (`Batch` 1), the smallest instance in which a read leaves something.
- `mac_remap`: Shift, CapsLock, a letter and a consumer output, cyclic rules
  (the letter types Shift+CapsLock, CapsLock the letter), one batch in the
  channel, four predicted echoes (a key with its modifier) or the few more that
  one decision adds, one report on its way; 1.4 million states.
  Predictions, any prefix of them, expire once before their echo until all is
  at rest (`MaxLate` 1), and the user presses on when none is unpaid
  (`MaxCredit` 0). Once something has gone wrong (`lost`, `muddled`) nothing is
  claimed until all is calm again, so what may happen in between is bounded: no
  press, no further break of the connection, no event past a disabled tap after
  a lost prediction. The theorems have none of these bounds.
- `virtual_keyboard`: two users, frames of a chord and of a volume key, a queue of
  four reports that is full in the middle of a frame, limits of one so that the
  second connection and the second frame are refused; 0.16 million states.
  `Overlaps = FALSE`: users and peers act between frames, not while one is being
  turned into reports, when the server looks at none of them. With `TRUE` there are
  0.8 million states and no error.
- `windows_remap`: two keyboards with a key in common, a consumer wheel, two
  windows of which one is elevated; one message, one raw event, one channel slot
  and two queued batches: each limit is reached. `MaxOwed` 0: no key is pressed
  before what is owed for a consumer key is sent, but the release of one that is
  down may come.
- `rule_lookup`: nine documents and what adds make of them, chosen for what compilation can get wrong:
  overlapping chords in both orders, either-side and one-side tokens,
  application groups before and after global ones, filters, duplicate spellings,
  a non-modifier token beside its modifier twin; one that does not parse replaces only what an editor
  wrote, not what an add made. Every key, mask, application and device is asked in
  every state; requests with and without a name, applications and keyboards.
- `config_file`: three saves cover a save in place (two writes) next to a
  command's rename; two commands with one fault; four combinations of platform,
  daemon's user and commands' users; edits that parse half-written, change the
  mode or put a link. `MaxEvents` 0: the directory goes when the events of
  earlier changes have been delivered.
- `active_window`: two threads (only an overlap of two calls matters), one
  change of focus after the first, one fault or panic, one reload, nine sessions.
  A peer that hangs is a fault too. A reload comes under X11, whose query is short
  and may hang (`Reloading`; the lock does not depend on the backend), a panic on
  Windows and on KDE, where it leaves something behind (`Panicking`). Desktop files
  change only after they were read.
- `daemon_control`: two commands and two processes at a time (an old one and the
  one that replaces it), two connections in line. One client asks for the louder
  level or says nothing, the other asks for the usual level, besides the commands of
  both; they ask while a single process lives (`MaxAlive` 1).
  A daemon is started by hand only while none runs, none would be restarted and no
  command is under way, and not next to systemd, whose commands look at the unit
  alone; nobody else's request and no `bootstrap` happens beside it.

`CHECK_DEADLOCK FALSE` is in the configurations of `LinuxDevices`,
`ConfigFile`, `VirtualKeyboard` and `WindowsRemap`: three of them model a process
that ends, and in `ConfigFile` the bounded saves come to an end.

### Fairness

Every safety property is checked on all behaviours. Liveness assumes:

- `LinuxDevices!FairSpec`: the event loop and the monitor thread are scheduled,
  and `listen()` succeeds some time. Nothing is assumed of keys, plugs and
  faults; `FollowsPlugging` asks only that they come to an end.
- `ActiveWindow!QueryFairness`: threads run, the lock admits whom it may, time
  passes, KWin executes what it was sent, and a peer that is waited for with a limit
  answers or the call times out. Of the others (the X server, gnome-shell, the
  roundtrips to COSMIC and XFCE) nothing is assumed: they may hang for ever, and
  then `KnowsTheFocus` claims nothing, `EveryoneIsServed` that the other threads are
  served until a reload waits.
  That keys keep being typed is an assumption about the user, needed for
  `KnowsTheFocus` only because the cache is refreshed by lookups alone.
- `ConfigReload!Fairness`: start-up ends, delivered events are dispatched, the
  debounce ends and the reload thread runs. In the code an endless stream of
  events closer than the debounce interval would postpone the reload for ever;
  in the model changes are bounded.
- `DaemonControl!Fairness`: each step of an endpoint, whose reads have
  deadlines, and of each command of the CLI, whose waits have limits, is weakly
  fair. Nothing is assumed of other peers.
- `VirtualKeyboard!Fairness`: the main thread of virtkbdd is weakly fair; its
  waits are polls with a time-out.
- `WindowsRemap!FairSpec`: the main thread is weakly fair, `Reinstall` strongly:
  the self-test comes due again and again, and Windows is assumed not to refuse
  a new hook each time.

`MacRemap`, `LinuxTakeover`, `MappingEngine`, `LinuxEmission` and `RuleLookup` are
about safety only.


## 4. What is proved

TLAPS proves, for every value of the constants:

- **The engine** (`KeyEngine_proofs`, `MappingEngine_proofs`). The inductive
  invariant is `IInv == TypeOK /\ EngineInv(engine) /\ BeforeStream`. None of the
  properties is inductive by itself: a held mask belongs to a swallowed key only
  if swallowed keys are pressed; a modifier bit is justified only by a forwarded
  mark or a held output, a forwarded mark only by a passed key that is down.
  `EngineInv` is their conjunction over the engine record, so there is one lemma
  per way a record changes (`PressUnmappedInv`, `FireTriggerInv`,
  `ReleaseSwallowedInv`, ...), and they hold of every engine the platform modules
  compose. `BeforeStream` says that notes are made to an engine that has decided
  nothing yet. `TypeCorrect`, `MarksCorrect`, `ForwardedMarksCorrect`,
  `LookupBitsCorrect` follow; `NothingIsDroppedSilently` is an action property:
  each bit that leaves a holder, or becomes consumed, is in the release mask of
  the decision taken in that step. `LookupStateIsExact`: as long as no bit has had
  two sources (the history `overlapped`), the lookup mask is exactly what is
  down or held.
- **The engine keeps its promise** (`MappingEngine_proofs`). `FateIsKept` is the
  refinement of `KeyFate` under the mapping `Fate`, `ConsumedKeys`, `LastAnswer`:
  one lemma per operation for what it does to fates, then one per action. It
  rests on the marks invariant - a key that is up carries no swallowed or stale
  mark, a consumed bit has a passed key - and on `UnreachableAssumption`: where
  the emitter can be unreachable, no two keys share a bit.
- **One output action** (`LinuxDevices_proofs`). The invariant states per stage
  what is down: the codes from before with what this action has written so far.
  `EffectIsAsPlanned`: if no write failed, the effect is `Presses`/`Releases`,
  the step `LinuxRemap` takes. `ChordIsComplete`: whatever fails, a base key goes
  down only with its whole chord. `FailedHoldLeavesNothing`: after one failed
  write of a hold the clean-up has lifted what the hold had pressed.
- **The reports of virtkbdd** (`MacRemap_proofs`). `KeysAreReleased`: the invariant
  `KeyboardInv` says that every report that is due and sets a key or a modifier is
  followed by one that clears its page (`Closed`), that what is down now is
  cleared by a report that is due (`DownIsCleared`), and that nothing is down
  while the keyboard is not ready. It is kept because a key's reports are
  enqueued all or none: the queue is asked for room for the whole key
  beforehand (`RoomForAll`), and a broken connection puts a report back.
- **Typing on several Linux keyboards** (`LinuxTakeover_proofs`).
  `NothingStaysDown`, `TapsAreClean`, `HeldModifiersAreDown`, for any number of
  keyboards on one output, through takeovers, removals and reloads. The
  inductive invariant has a part for each reason why the next step can not go
  wrong: `Taken` (the engine of a keyboard being taken over is what
  `note_held_keys` makes of the keys down at the grab), `OutAnswered` (each code
  that the queue will leave down is answered for by a pressed key of some engine
  or was missed), `ClientAnswered` (each code applications see down from a
  keyboard itself is still to be released by an event on its way, by the
  takeover, or was missed), `Loyal` (what the engine of a managed keyboard has
  for pressed is down there or was missed, and its marks are in force only
  after its first event), and `Undisturbed` (while nothing is down for two
  reasons the masks are exact, and each tap in the queue finds down only what
  it may). What a decision does to the output is a lemma per decision
  (`DecidesWell`, `DecidesCleanly`), on lemmas about the effect of a plan
  (`AfterDownAnswers`, `AfterUpAnswers` of `KeyEngine_proofs`).
- **Typing through the Windows hook** (`MappingEngine_proofs`). `NothingStaysStuck`,
  for any number of keyboards that share the hook's one engine. The invariant
  `HookInv` says that, unless the hook has missed something (`upset`), what the
  engine has for pressed is down on some keyboard or its event is on its way, and
  that what is down in the input system is what the engine will release
  (`Accounted`), but for the keys that the repeat of a consumed modifier brought
  back (`restored`). The same two lemmas say what a plan leaves down; what is new is
  that each output, made of injections the hook sees again, leaves no more down
  than its plan says and takes away what the plan says (`KeepsItsWord`), which
  holds because the ledger lets every one of them through (`AllIsSent`). A key
  without a usage never reaches the engine and is answered for while it is down.
- **The event tap** (`MacRemap_proofs`). `NoFeedbackAlways`, `NoStuckKeysAlways`,
  `EngineAtRestAlways`: an engine that is fed what it has emitted itself, for every
  set of rules, cyclic ones included, and every capacity of the channel. The
  invariant `MacInv` (`EventsAccounted`) says that there is one stream of reports
  `r` which comes back as the events `T` (`Mirrors`), of which `n` are typed and
  `e` were seen or taken for seen; `Pending` places the wire, the channel and the
  predicted echoes in that stream. `n` and `e` differ when a press of the user was
  taken for the echo of the same key, so neither the feedback nor the stuck keys
  follow from the queues alone, and predictions may expire at any time while
  their echo is under way: `Claims` relates the keys that are down to `n` and
  `e`. What applications see down is down in the reports up to `e`, or the engine
  has passed it and will pass its release; a key that repeats and is pressed for
  the engine is down at the user's keyboard, or its release is among the events
  that were overtaken. The feedback is a matter of counting: each echo the engine decides is
  paid for by a prediction that expired or that a press of the user used up
  (`credit`). The last two theorems are for as long as no prediction has expired
  before its echo came (`late`); with a late echo they are false (section 5). There is one lemma for each way an event can go (the user's or an
  echo, matched or decided). That `FlattenSeq` of a batch's reports and of
  its echoes run in step is proved by induction over the batch (`FlattenJoins`,
  `MirrorsBatch`), as a least counterexample in the naturals (`LeastNat`).
- **The focus cache** (`ActiveWindow_proofs`). `CacheNeverGoesBack` follows from an
  order, told <= cached <= focused, and an answer on its way is no older than
  what it will replace, because a refresh claims the slot before it asks and
  keeps it until it has published (`SlotAndLockCorrect`).
- **The queries implement it** (`ActiveWindow_proofs`). `QueriesImplementCache`:
  each step of every backend is a step of `FocusCache` or a stutter. The
  invariant `QueryInv` says that what a query has seen in front is an
  admissible answer, and that no query has begun where the cache is not asking.
  `QueriesNeverGoBack` carries the cache's theorem over. `ScriptsAreUnloaded`:
  whenever KWin executes what it was sent, a script that has run is loaded only
  while its query, or an unload on its way, will see to it; a panic in the middle
  of a query excepted, which leaves the script. `ActiveNamesAreListed`: on
  X11, Windows and macOS the active name is one that the list of names has, where
  what is in front has a window that is shown (`FrontIsShown`) and no desktop file
  has changed since one of the daemon's caches was filled. Nothing is claimed of
  Wayland, where it is false (section 5).
- **Reload and the writers of the file** (`ConfigFile_proofs`). `ReloadsGoForward`
  follows from the order in force <= compiled <= on disk, the first two valid.
  `WritersKeepItForward`: commands and editors refine the abstract saves
  (`FileStep`), so the same holds with them. `FinishedCommandsKeepRules`: an
  unovertaken command keeps every rule; the invariant `ReadIsCurrent` says that
  what a command has read is the file as long as nobody saved after it looked.
  `CommandsWriteReadableFiles`: what a command writes is where and as the access
  checks of the daemon want it, in every system in which the user's home can be
  reached (`HomesAreReachable`); the invariant `PlaceInv` says whose directory a
  command that is at work has found.
- **Stopping and commanding the daemon** (`DaemonControl_proofs`).
  `StoppedMeansTheyEnded`: a stop waits on the processes that ran when it was
  called, and a process that has ended never lives again under its number. It is
  said of the manager's processes (on Windows: those the CLI may open), and of one
  started by hand unless `stop_service` was needed (`op` "force").
  `EndpointLeadsToTheLiving`: the socket path or the published name leads to no
  process that has ended or has not bound yet. `LevelsStay`: no log level somebody
  was told of is undone by an earlier request, since connections are served
  one after the other in the order they came.
- **Hot-plug** (`LinuxDevices_proofs`). `RemovalsAreAnnounced` and
  `ResyncForgetsNone`, for any number of nodes, keyboards and restarts. The
  invariant is about the udev socket: behind every removal of an occupied
  node there is an addition (`RemovalsFirst`), so skipping an addition because
  its path is still managed, or dropping a keyboard adopted by the resync
  because of an older removal, loses nothing. Excepted are a keyboard this monitor
  failed to adopt, one that only a failed resync could have found (`lost`), and a
  removal nobody heard.

The assumptions are those of the constants: the tables are functions of the
right type, on Linux no two keys have one usage and no two usages one modifier
(`TablesArePaired`), bounds are natural numbers, `Nodes` is finite. On macOS the
tables are those of the code (`MacAssumption`, `KeyReportsAssumption`): each
modifier has one place in the report, a modifier key shares a flag with its twin
(capture.rs:127-139), the keys of a rule are native keys, and none is a modifier that
it is to be tapped with. Two theorems state what they need of their
surroundings: `ActiveNamesAreListed` that what is in front has a window that is
shown (`FrontIsShown`), `CommandsWriteReadableFiles` that the directories above a
home are the user's or root's and can be entered (`HomesAreReachable`) and
that no command is taken for an editor (`EditorsSign`).

Only model-checked:

- Liveness (`EveryoneIsServed`, `KnowsTheFocus`, `FollowsPlugging`,
  `SmallBurstsAreRead`, `LastSaveTakesEffect`, `EndpointGetsFree`, `CommandsEnd`,
  `PeerFollowsConsole`, `StopsUnlessServing`, `OutputsDrained`, `HookComesBack`):
  out of the prover's reach.
- `AnswersAsConfigured`, `SilentMappingsReported`, `AddKeepsTheRest` of
  `RuleLookup`: compilation and scan are nested folds over a document, with an
  operator as their argument; the library's induction theorems can not be
  instantiated here, and the least counterexample by hand, which served for the one
  fold of `MacRemap`, was not carried through for these.


## 5. What the models show of the code

**A stop that does not last** (`keep_alive`). On macOS `daemon stop` shuts the
process down through the control socket, reports "stopped" and skips the
bootout; the launchd job has KeepAlive, so the daemon starts again
(cli/daemon_cmd/mod.rs:120-127).

The following are in the models as the code has them. No run states them as a
claim of its own; where a property would touch one, its comment excepts it.

Configuration
- "First matching trigger wins" (README.md:199 of the repository) does not hold
  of two spellings of one trigger in one group: the place is that of the first,
  the outputs are those of the last (config.rs:230), and `config check` says
  nothing. It also misses triggers that overlap by side or by the order of their
  modifiers.
- "Extra modifiers don't prevent matches" (README.md:252) is not so: the mask is
  compared whole (lookup.rs:86), and Ctrl+H does not match Ctrl+Shift+H.
  `AnswersAsConfigured` states what the code does. Nor do "generic names resolve
  to their left-side default" (README.md:250): left-side names stand for either
  side, `LeftCtrl` as much as `Ctrl` (mapping_cache.rs:27).
- A chord token that is no modifier gets the bit of Left Control
  (mapping_cache.rs:272): `Mute+J` fires on Ctrl+J, in place of a later
  `Ctrl+J`, and nothing reports it.
- `config add` with `--apps` or `--keyboards` and no name re-scopes a whole group.
- Group filters judge keyboards by the registry of start-up (state.rs:79-110
  against README.md:203 and 223): one plugged in where another was is judged as
  that other. Application groups are matched before global ones whatever their
  order (against config.rs:332 and 361-363).
- There is no lock: of two overlapping adds one's rule is lost. An add that reads a
  half-written save that happens to parse writes it back, and the rest of the
  editor's save goes to the replaced inode.
- A file root writes in a user's home is refused by the user's daemon and by
  root's. `create` does not check the file's own directory. A directory that
  is removed and made again is not watched any more. A save between the first
  compilation and the arming of the watch has no effect (keymapperd.rs:50, 131).

Linux
- Reads are one per edge (device.rs:195): what a read leaves waits for the
  next event of that keyboard.
- The lookup mask has one bit per modifier, not a count (engine.rs:224-225): of two
  keys on one bit the first release clears it. A held output goes down with
  the forwarded release of the real modifier (engine.rs:26-28).
- A failed write in the middle of a chord leaves by `?` before the clean-up
  (device.rs:159, 166, 168 against the comment at 112-113).
- A release between the last read of the release window and the final drain
  leaves the key noted: the modifier is pressed on the virtual keyboard and
  nothing releases it. A release between grab and ungrab never reaches the
  clients. A key pressed in the window is unknown to the engine; its
  repeat may fire a rule, and its release is then swallowed.
- All keyboards share one output. The chord of a tap on one keyboard, or a second
  key on the same bit, lifts a modifier that another keyboard holds
  (`TapConflict`, `Shared`: `disturbed` from then on, until everything is up).
- A resync that fails is warned of and forgotten (hotplug.rs:291-306 against
  72-74): the monitor polls on, and a keyboard plugged in while nobody listened
  stays unmanaged until it is plugged in again or the monitor fails.
- A removal nobody heard leaves its path managed, and the next keyboard at that
  node is not adopted (hotplug.rs:363 against 72-74). The length of a monitor run
  is measured after the restart delay (hotplug.rs:134).
- A signal between the test of the flag and `epoll_wait` takes effect with the
  next event (mod.rs:297).

macOS
- A prediction expires after 500 ms though nothing was lost and its echo still
  comes (mapping.rs:336-342): the writer may be blocked for up to 15 s, virtkbdd
  may be reconnecting and replay its queue. The late echoes are decided as keys of
  the user. Cyclic rules then feed themselves as long as each echo is late (against
  mapping.rs:227-231); `NoFeedback` bounds what is fed by what expired. The late
  release of a key that was predicted down may be swallowed, and the key stays
  down for the applications.
- A user's press equal to the predicted head is taken for the echo; a batch
  that is lost after it was predicted leaves a stale prediction for up to 500 ms.
- The release of a modifier is misread while its twin is down. A CapsLock press
  that a disabled tap misses leaves `prev_alpha_shift` behind (capture.rs:150-152):
  the next press is read as a release. If that one is the daemon's own output, its
  echo matches nothing, the prediction stays at the head of the queue, and until
  it expires the echoes behind it are taken for keys of the user: cyclic rules
  then feed themselves (`Misleading`; a bound of four echoes hid this).
- `reachable` stays true until a write fails. Reports queued before a reconnect
  are replayed after it. SIGTERM is not seen while virtkbdd serves a connection.

Windows
- A press may be attributed to another keyboard's expired raw key-down.
- A modifier that a rule of another keyboard has consumed and lifted goes on
  repeating on its own. The repeat is passed, which presses it again, and its
  release is swallowed (mapping.rs:1152-1158): it stays down until somebody presses
  and releases it once more (`restored`).
- The self-test of the hook discards what arrives before its sentinel, an early
  shutdown request included; a request before the thread id is recorded is lost.
- Taps of consumer keys poll the modifiers and do not lift them. Elevated windows
  refuse outputs and are skipped.

Daemon and focus
- "SHUTDOWN junk" is answered ERROR and shuts down all the same
  (control/mod.rs:279-281). A second process takes the socket path over. The
  log level is not kept over a restart. "stopped" is printed
  though a daemon lives on: one on Windows that the CLI cannot open
  (cli/daemon_cmd/windows.rs:149-153), one started by hand next to a launchd job
  that is not loaded (cli/daemon_cmd/macos.rs:121-150, 160-161), if it does not
  obey the request.
- A refresh runs under the read guard: with a writer waiting, a slow query holds
  up every keyboard (focus.rs:36-38). A failed query caches "unknown" for 100 ms.
- "Never a lock-up" (focus.rs:33-36) needs peers that answer. KWin's calls have a
  time-out (kde.rs:124); gnome-shell's have none (gnome.rs:71, 75, 116), nor have X
  replies (x11.rs:86, 112) and the roundtrips to COSMIC (cosmic.rs:50, 73) and XFCE
  (xfce.rs:58, 81), whose number is limited "to keep this probe from hanging"
  (cosmic.rs:67-70, xfce.rs:75), not their length. A hung peer keeps the read guard
  and the refresh slot; the thread that asked serves no key, and from the next
  reload on nobody does.
- Under Wayland the active name is what the compositor has for the window, its
  class or app id (wayland/mod.rs:22-25), never resolved to a name of
  `appnames`, which linux/apps.rs:16-19 and 103-105, linux/mod.rs:12-15 and the
  test at app_identity/mod.rs:98-118 say of every backend. A rule scoped to a listed
  name then does not match, where the two differ.
- The system directory of desktop files wins over the user's (desktop.rs:76-77 says
  the opposite), and the maps are never refreshed. The lowest Wayland socket is
  taken even if dead. The sway backend sends the magic "sway" where sway's
  protocol has "i3-ipc", so sway is not expected to answer it (wlroots.rs:43).
  A panic in a query, or a `loadScript` reply after the time-out, leaves a
  KWin script behind. COSMIC's `closed` event is ignored.


## 6. Not modelled

- **Log grammar, logging, key tables, device enumeration**: wording, sinks,
  static data and I/O whose answer is a parameter of the models. `capture.rs:83` on
  Linux (usage resolved from the scan code on press, from the key code on
  release) needs the kernel's tables.
- **YAML syntax and byte layouts**: a document is the tree it stands for; a frame
  is whole, partial or corrupt. `read_exact` under a short time-out loses what it
  read, which `VirtualKeyboard` has as a stream out of step (`synced`).
- **The throttle of repeated reload errors** (watcher.rs): log only.
- **A temporary file that could not be opened**: `write_config_atomic` removes it
  all the same, also when it is another command's (config_io.rs:231-235).
- **Access control lists of Windows, permissions of the control endpoint**:
  reduced to "open to everybody" and to "can connect".
- **Karabiner request identifiers; version resources of Windows executables**
  (app_identity/windows.rs:65-192); the end of KDE's `stop` call.
- **Details of Windows raw input**: the daemon's own output appearing as raw
  input without a device, the reuse of a device handle in the cache
  (device_match.rs:136), held outputs at exit (mapping.rs:1317).
- **The key and keyboard probes of the CLI**: they print.

The re-grab after the release window is assumed to succeed in `LinuxTakeover`;
when it fails the code warns and goes on (device.rs:691-693), and every key
reaches the clients twice.

### What is left to do

1. A run of `LinuxTakeover` with two keyboards and a shared modifier: the
   theorems cover it, but the state space of a takeover next to a second typing
   keyboard is beyond a five-minute run.
2. Theorems about the compilation of rules (`RuleLookup`): an induction over its
   folds.
3. An abstract "output that follows its plan", implemented by `LinuxRemap`,
   `MacRemap` and `WindowsRemap` alike.
