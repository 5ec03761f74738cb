---------------------------- MODULE WindowsRemap ----------------------------
(***************************************************************************)
(* The Windows backend.  One thread owns the low-level keyboard hook and   *)
(* the message loop: Windows calls the hook while the thread waits for     *)
(* messages, and the raw input of the same keys arrives as messages of     *)
(* that thread.  A second thread, the raw worker, buffers the raw key-downs*)
(* for the hook, which learns from them the keyboard of its event, and     *)
(* looks up the consumer keys no hook sees; their outputs are queued for   *)
(* the message loop, with a message to wake it.  Every five seconds the    *)
(* loop tests whether Windows has silently removed the hook.               *)
(*                                                                         *)
(* The daemon's own injections re-enter the hook at once, are recognised   *)
(* by their tag and the ledger of pending outputs, and are let through.    *)
(***************************************************************************)
EXTENDS OutputActions, SequencesExt

CONSTANTS
  Rules,         \* what the lookup answers
  NoDevice,      \* decide without a device: no raw event matched
  KeysOn,        \* [Devices \ {NoDevice} -> SUBSET Keys]
  Nameless,      \* devices whose interface path Windows does not tell
  ConsumerUsages,\* keys of consumer controls, which no hook sees
  Windows,       \* foreground windows
  Elevated,      \* those of processes that run elevated
  Protected,     \* those of processes that can not be opened
  ChannelCapacity, \* RAW_INPUT_CHANNEL_CAPACITY
  MaxQueue,      \* bound: messages waiting when another event happens
  MaxRaw,        \* bound: raw key-downs not matched when a key is pressed
  MaxPending,    \* bound: batches queued when a consumer key is pressed
  MaxOwed        \* bound: batches queued when a key is pressed

Boards == Devices \ {NoDevice}

ASSUME WindowsAssumption ==
  /\ NoDevice \in Devices
  /\ \A t \in DOMAIN Rules : Rules[t] \in Seq(NativeKey)
  /\ KeysOn \in [Boards -> SUBSET Keys]
  /\ Nameless \subseteq Boards
  /\ ConsumerUsages \subseteq Usages
  /\ \A k \in Keys : UsageOf[k] \notin ConsumerUsages
  /\ Elevated \cup Protected \subseteq Windows
  /\ ChannelCapacity \in Nat \ {0}

VARIABLES
  hookEngine, \* ENGINE
  down,     \* <<board, key>>: keys down on the keyboards
  os,       \* keys down as the input system sees them
  fg,       \* the foreground window
  hooked,   \* Windows still calls the hook
  phase,    \* of the main thread: "starting", "registered" or "working" before
            \* the message loop, "top" or "waiting" in it, and "left"
  input,    \* the key event on its way to the hook, at most one
  queue,    \* messages of the thread
  channel,  \* raw events on their way to the worker
  buffer,   \* RAW_BUFFER, oldest first
  pending,  \* PENDING_EMISSIONS
  upset,    \* history: the hook missed a key, or an elevated window got an event
            \* that was to be swallowed or did not get an output
  restored, \* history: keys down again by a repeat that was passed after a rule
            \* of another keyboard had released them
  wakeLost  \* history: the self-test threw a wake message away

windowsVars == <<hookEngine, down, os, fg, hooked, phase, input, queue, channel,
                 buffer, pending, upset, restored, wakeLost>>

keys == <<hookEngine, os, upset, restored>>
workers == <<channel, buffer, pending>>

Raw(usage, board, hid) ==
  [kind |-> "raw", usage |-> usage, board |-> board, isDown |-> TRUE, hid |-> hid]
Message(kind) ==
  [kind |-> kind, usage |-> NoUsage, board |-> NoDevice, isDown |-> FALSE, hid |-> FALSE]
RawKeyUp == Message("raw")              \* of any key: the worker skips it
Wake == Message("wake")                 \* WM_APP
ShutdownRequest == Message("shutdown")  \* WM_REQUEST_SHUTDOWN

RawOf(k, b, isDown) == IF isDown THEN Raw(UsageOf[k], b, FALSE) ELSE RawKeyUp

Post(m) == Append(queue, m)

InLoop == phase \in {"top", "waiting"}
Registered == phase \notin {"starting", "left"}

-----------------------------------------------------------------------------
(* The foreground window *)

\* token_is_elevated of a process that can be opened.  What FgElevationCache
\* remembers of a process (by its creation time) is what a new query answers.
TokenElevated == fg \in Elevated \ Protected

\* foreground_is_elevated: a process that can not be opened is taken for
\* elevated, and asked again at the next key.
LooksElevated == TokenElevated \/ fg \in Protected

-----------------------------------------------------------------------------
(* The output side *)

\* simulate_key_event for each of some keys, whose order does not matter here.
Move(codes, isDown) == [codes |-> codes, isDown |-> isDown]

\* emit_key_event: modifiers of an output that has no virtual key are pressed
\* and released all the same.
TapMoves(nk) ==
  LET mods == ModifierCodes(nk.modifiers)
      base == CodesOf(nk.usage)
  IN <<Move(mods, TRUE), Move(base, TRUE), Move(base, FALSE), Move(mods, FALSE)>>

\* hold_modifier_output
HoldMoves(nk) == <<Move(ModifierCodes(nk.modifiers \cup {BitOf[nk.usage]}), TRUE)>>

\* release_modifiers
ReleaseMoves(mask) == <<Move(ModifierCodes(mask), FALSE)>>

\* WindowsEmitter::emit; Forward is the event itself, which goes on.
MovesOf(a) ==
  CASE a.kind = "Tap" -> TapMoves(a.key)
    [] a.kind = "Hold" -> HoldMoves(a.key)
    [] a.kind = "ReleaseConsumed" -> ReleaseMoves(a.mask)
    [] OTHER -> << >>

\* Mutant: the ledger remembers key-ups as key-downs.
RecordedUpsideDown(ledger, step) == Append(ledger, [step EXCEPT !.isDown = TRUE])

\* PendingOutputLedger::record; an entry lives longer than its event takes.
Recorded(ledger, step) == Append(ledger, step)

\* PendingOutputLedger::check_and_consume; the entry is gone then.
Matched(ledger, step) == step \in Range(ledger)

\* An injection enters the hook at once, which lets it through when the ledger
\* has it.  (If not, the hook decides on it like on a key of the user, and here
\* it is gone.)
Sent(move) ==
  {c \in move.codes :
     LET step == [code |-> c, isDown |-> move.isDown]
     IN hooked => Matched(Recorded(<< >>, step), step)}

\* The keys for which an action's last injection goes this way.
Leaves(a, isDown) ==
  {c \in Keys : \E i \in DOMAIN MovesOf(a) :
     /\ MovesOf(a)[i].isDown = isDown /\ c \in Sent(MovesOf(a)[i])
     /\ \A j \in DOMAIN MovesOf(a) : j > i => c \notin Sent(MovesOf(a)[j])}

\* One output after the other; SendInput does not reach an elevated window.
AfterActions(actions) ==
  IF fg \in Elevated THEN os
  ELSE {c \in Keys :
          \/ c \in os /\ \A i \in DOMAIN actions : c \notin Leaves(actions[i], FALSE)
          \/ \E i \in DOMAIN actions :
               /\ c \in Leaves(actions[i], TRUE)
               /\ \A j \in DOMAIN actions : j > i => c \notin Leaves(actions[j], FALSE)}

Lost(actions) == actions # << >> /\ fg \in Elevated

\* The event itself goes on to the input system.
AfterEvent(k, isDown) == IF isDown THEN os \cup {k} ELSE os \ {k}

-----------------------------------------------------------------------------
(* Identifying the keyboard: device_match.rs *)

Matching(usage) == {i \in DOMAIN buffer : buffer[i].usage = usage}

\* Index of the most recent entry of this usage, of any age; 0 when none is.
Newest(usage) ==
  IF Matching(usage) = {} THEN 0
  ELSE CHOOSE i \in Matching(usage) : \A j \in Matching(usage) : j <= i

\* match_usage and DeviceCache::get_or_resolve
Identified(i) ==
  IF i = 0 \/ buffer[i].board \in Nameless THEN NoDevice ELSE buffer[i].board

WithoutEntry(i) == IF i = 0 THEN buffer ELSE RemoveAt(buffer, i)

\* push_event and evict: only here do expired entries go.
Pushed(e) ==
  Append(SelectSeq(buffer, LAMBDA b : b.fresh),
         [usage |-> e.usage, board |-> e.board, fresh |-> TRUE])

-----------------------------------------------------------------------------
(* low_level_keyboard_proc *)

\* InputFate::Forward
Passes(d) == d.kind = "Pass"

\* A modifier repeats after a rule of another keyboard has consumed it: it is
\* down again, and its release will be swallowed.
RestoresConsumed(k, isDown) == isDown /\ OwnBit(k) \cap hookEngine.consumed # {}

\* After the event of k is passed.
RestoredBy(k, isDown) ==
  IF RestoresConsumed(k, isDown) THEN restored \cup {k} ELSE restored \ {k}

\* The hook decides the event (k, isDown).
Decide(k, isDown) ==
  LET i == Newest(UsageOf[k])
      board == Identified(i)
      d == IF isDown THEN DownDecision(hookEngine, k, board, TRUE, Rules)
                     ELSE UpDecision(hookEngine, k)
      actions == Plan(d, k, IF isDown THEN 1 ELSE 0, {})
  IN /\ hookEngine' = IF isDown THEN AfterDown(hookEngine, k, board, TRUE, Rules)
                                ELSE AfterUp(hookEngine, k)
     /\ buffer' = WithoutEntry(i)
     /\ IF Passes(d)
        THEN os' = AfterEvent(k, isDown) /\ upset' = upset /\ restored' = RestoredBy(k, isDown)
        ELSE /\ IF LooksElevated
                THEN os' = AfterEvent(k, isDown) /\ upset' = TRUE
                ELSE os' = AfterActions(actions) /\ upset' = (upset \/ Lost(actions))
             /\ restored' = restored \cap os'

\* A key without a usage is let through before anything is looked at.
PassUnknown(k, isDown) ==
  /\ os' = AfterEvent(k, isDown)
  /\ UNCHANGED <<hookEngine, buffer, upset, restored>>

\* Without a hook, or if the system does not call it for an elevated window.
Unseen(k, isDown) ==
  /\ os' = AfterEvent(k, isDown)
  /\ upset' = TRUE
  /\ restored' = restored \cap os'
  /\ UNCHANGED <<hookEngine, buffer>>

\* The event is delivered; its raw input follows unless it came before.
Deliver ==
  /\ input # << >> /\ phase # "left"
  /\ LET e == Head(input) IN
     /\ \/ hooked /\ UsageOf[e.key] # NoUsage /\ Decide(e.key, e.isDown)
        \/ hooked /\ UsageOf[e.key] = NoUsage /\ PassUnknown(e.key, e.isDown)
        \/ (~hooked \/ fg \in Elevated) /\ Unseen(e.key, e.isDown)
     /\ queue' = IF e.rawFirst \/ ~Registered THEN queue
                 ELSE Post(RawOf(e.key, e.board, e.isDown))
  /\ input' = << >>
  /\ UNCHANGED <<down, fg, hooked, phase, channel, pending, wakeLost>>

-----------------------------------------------------------------------------

WindowsInit ==
  /\ hookEngine = FreshEngine
  /\ down = {} /\ os = {}
  /\ fg \in Windows
  /\ hooked = FALSE
  /\ phase = "starting"
  /\ input = << >> /\ queue = << >> /\ channel = << >>
  /\ buffer = << >> /\ pending = << >>
  /\ upset = FALSE /\ restored = {} /\ wakeLost = FALSE

\* The message-only window is there and both kinds of devices are registered,
\* so raw input comes as messages of this thread; without them the daemon ends.
OpenRawInput(done) ==
  /\ phase = "starting"
  /\ phase' = IF done THEN "registered" ELSE "left"
  /\ UNCHANGED <<keys, down, fg, hooked, input, queue, workers, wakeLost>>

\* The thread's id is recorded, then the raw worker runs.
StartWorker ==
  /\ phase = "registered"
  /\ phase' = "working"
  /\ UNCHANGED <<keys, down, fg, hooked, input, queue, workers, wakeLost>>

InstallHook(done) ==
  /\ phase = "working"
  /\ hooked' = done
  /\ phase' = IF done THEN "top" ELSE "left"
  /\ UNCHANGED <<keys, down, fg, input, queue, workers, wakeLost>>

\* A keyboard repeats a key that is down alone (bound: it may also repeat the
\* last of several).
Repeats(b, k) == \A j \in KeysOn[b] : <<b, j>> \in down <=> j = k

\* A key of a keyboard is pressed, repeats or is released (bound: nothing is
\* pressed after the hook has missed something until all is calm again; only
\* the raw input of a press may come before the event itself).
UserKey(b, k, isDown, rawFirst) ==
  /\ phase # "left" /\ input = << >> /\ Len(queue) < MaxQueue
  /\ rawFirst => Registered
  /\ IF isDown THEN /\ ~upset /\ Len(pending) <= MaxOwed /\ Len(channel \o buffer) < MaxRaw
                    /\ <<b, k>> \in down => Repeats(b, k)
               ELSE <<b, k>> \in down /\ ~rawFirst
  /\ down' = IF isDown THEN down \cup {<<b, k>>} ELSE down \ {<<b, k>>}
  /\ input' = <<[key |-> k, board |-> b, isDown |-> isDown, rawFirst |-> rawFirst]>>
  /\ queue' = IF rawFirst THEN Post(RawOf(k, b, isDown)) ELSE queue
  /\ UNCHANGED <<keys, fg, hooked, phase, workers, wakeLost>>

\* Everything is at rest again: the histories of the keys end.
CalmDown ==
  /\ upset /\ down = {} /\ input = << >> /\ os = {} /\ hookEngine = FreshEngine
  /\ upset' = FALSE
  /\ UNCHANGED <<hookEngine, down, os, fg, hooked, phase, input,
                 queue, workers, restored, wakeLost>>

\* handle_wm_input: a consumer control reports a key, and later nothing
\* (bound: while no other event is on its way and nothing was missed).
ConsumerKey(b, u) ==
  /\ Registered /\ ~upset
  /\ input = << >> /\ queue = << >> /\ channel = << >> /\ buffer = << >>
  /\ Len(pending) < MaxPending
  /\ queue' = Post(Raw(u, b, TRUE))
  /\ UNCHANGED <<keys, down, fg, hooked, phase, input, workers, wakeLost>>

Focus(w) ==
  /\ w # fg /\ phase # "left"
  /\ fg' = w
  /\ UNCHANGED <<keys, down, hooked, phase, input, queue, workers, wakeLost>>

\* Windows silently removes a hook that it finds slow.
HookRemoved ==
  /\ hooked /\ InLoop
  /\ hooked' = FALSE
  /\ UNCHANGED <<keys, down, fg, phase, input, queue, workers, wakeLost>>

\* RAW_EVENT_MAX_AGE passes (bound: while no key event is on its way).
EntriesExpire ==
  /\ input = << >> /\ \E i \in DOMAIN buffer : buffer[i].fresh
  /\ buffer' = [i \in DOMAIN buffer |-> [buffer[i] EXCEPT !.fresh = FALSE]]
  /\ UNCHANGED <<keys, down, fg, hooked, phase, input, queue, channel,
                 pending, wakeLost>>

\* A request that comes before the thread's id is recorded is lost (bound: the
\* user has left the keyboards alone by then).
RequestShutdown ==
  /\ phase \in {"working", "top", "waiting"}
  /\ Len(queue) < MaxQueue /\ down = {} /\ input = << >>
  /\ queue' = Post(ShutdownRequest)
  /\ UNCHANGED <<keys, down, fg, hooked, phase, input, workers, wakeLost>>

-----------------------------------------------------------------------------
(* The message loop *)

\* hook_self_test when SendInput refuses the sentinel.
TestNotSent ==
  /\ phase = "top"
  /\ phase' = "waiting"
  /\ UNCHANGED <<keys, down, fg, hooked, input, queue, workers, wakeLost>>

\* Pumping for the sentinel throws every message of the thread away.
Discard ==
  /\ queue' = << >>
  /\ wakeLost' = (wakeLost \/ Wake \in Range(queue))

\* The sentinel comes by the hook.
TestPassed ==
  /\ phase = "top" /\ hooked
  /\ Discard
  /\ phase' = "waiting"
  /\ UNCHANGED <<keys, down, fg, hooked, input, workers>>

\* Mutant: a failed self-test only reports.
ReinstallNot ==
  /\ phase = "top" /\ (~hooked \/ fg \in Elevated)
  /\ Discard
  /\ phase' = "waiting"
  /\ UNCHANGED <<keys, down, fg, hooked, input, workers>>

\* The sentinel does not come by the hook, or not while the foreground window is elevated.
Reinstall ==
  /\ phase = "top" /\ (~hooked \/ fg \in Elevated)
  /\ Discard
  /\ hooked' = TRUE
  /\ phase' = "waiting"
  /\ UNCHANGED <<keys, down, fg, input, workers>>

\* reinstall_hook has unhooked the old handle when SetWindowsHookEx fails.
ReinstallFails ==
  /\ phase = "top" /\ (~hooked \/ fg \in Elevated)
  /\ Discard
  /\ hooked' = FALSE
  /\ phase' = "waiting"
  /\ UNCHANGED <<keys, down, fg, input, workers>>

\* HOOK_SELFTEST_INTERVAL is not over.
NoTest ==
  /\ phase = "top"
  /\ phase' = "waiting"
  /\ UNCHANGED <<keys, down, fg, hooked, input, queue, workers, wakeLost>>

\* GetMessage returns a message of this kind.
Takes(kind) ==
  /\ phase = "waiting" /\ queue # << >> /\ Head(queue).kind = kind
  /\ queue' = Tail(queue)
  /\ UNCHANGED <<hookEngine, down, fg, hooked, input, buffer>>

\* send_raw_input_event: a full channel drops the event.
DispatchRaw ==
  /\ Takes("raw")
  /\ channel' = IF Len(channel) < ChannelCapacity THEN Append(channel, Head(queue)) ELSE channel
  /\ phase' = "top"
  /\ UNCHANGED <<os, pending, upset, restored, wakeLost>>

\* Mutant: one batch is emitted for each wake message.
DrainOne ==
  /\ Takes("wake")
  /\ pending' = IF pending = << >> THEN << >> ELSE Tail(pending)
  /\ wakeLost' = FALSE
  /\ phase' = "top"
  /\ UNCHANGED <<channel, os, upset, restored>>

\* drain_and_emit_emissions: everything queued, each output as a tap.
Drain ==
  LET outputs == FlattenSeq(pending)
      taps == [i \in DOMAIN outputs |-> Tap(outputs[i], {})]
  IN /\ Takes("wake")
     /\ os' = AfterActions(taps)
     /\ upset' = (upset \/ Lost(taps))
     /\ restored' = restored \cap os'
     /\ pending' = << >>
     /\ wakeLost' = FALSE
     /\ phase' = "top"
     /\ UNCHANGED channel

Leave ==
  /\ Takes("shutdown")
  /\ phase' = "left"
  /\ UNCHANGED <<channel, os, pending, upset, restored, wakeLost>>

-----------------------------------------------------------------------------
(* The raw worker *)

\* extract_modifier_bits
AsyncModifiers == BitsOf(os)

PathOf(b) == IF b \in Nameless THEN NoDevice ELSE b

ConsumerTrigger(e) == <<PathOf(e.board), e.usage, AsyncModifiers>>

\* queue_emission
Queued(outputs) ==
  /\ pending' = Append(pending, outputs)
  /\ queue' = Post(Wake)

WorkerTakes ==
  /\ channel # << >> /\ phase # "left"
  /\ channel' = Tail(channel)
  /\ UNCHANGED <<keys, down, fg, hooked, phase, input, wakeLost>>

\* process_raw_event: a key-up is of no use.
WorkerSkips ==
  /\ WorkerTakes
  /\ ~Head(channel).isDown
  /\ UNCHANGED <<queue, buffer, pending>>

WorkerBuffers ==
  /\ WorkerTakes
  /\ Head(channel).isDown /\ ~Head(channel).hid
  /\ buffer' = Pushed(Head(channel))
  /\ UNCHANGED <<queue, pending>>

\* process_consumer_event
WorkerMaps ==
  /\ WorkerTakes
  /\ Head(channel).isDown /\ Head(channel).hid
  /\ IF ConsumerTrigger(Head(channel)) \in DOMAIN Rules
     THEN Queued(Rules[ConsumerTrigger(Head(channel))])
     ELSE UNCHANGED <<queue, pending>>
  /\ UNCHANGED buffer

-----------------------------------------------------------------------------

Startup ==
  \/ \E done \in BOOLEAN : OpenRawInput(done) \/ InstallHook(done)
  \/ StartWorker
SelfTest == TestNotSent \/ TestPassed \/ Reinstall \/ ReinstallFails
Loop == Startup \/ SelfTest \/ NoTest \/ DispatchRaw \/ Drain \/ Leave
Worker == WorkerSkips \/ WorkerBuffers \/ WorkerMaps

Environment ==
  \/ \E b \in Boards :
       \/ \E k \in KeysOn[b], isDown, rawFirst \in BOOLEAN : UserKey(b, k, isDown, rawFirst)
       \/ \E u \in ConsumerUsages : ConsumerKey(b, u)
  \/ \E w \in Windows : Focus(w)
  \/ CalmDown
  \/ HookRemoved
  \/ EntriesExpire
  \/ RequestShutdown

WindowsNext == Environment \/ Deliver \/ Loop \/ Worker

WindowsSpec == WindowsInit /\ [][WindowsNext]_windowsVars

\* The message loop is scheduled, and while it keeps turning it is at some
\* time due for a self-test where Windows does not refuse the sentinel or the
\* new hook.
FairSpec == WindowsSpec /\ WF_windowsVars(Loop) /\ SF_windowsVars(Reinstall)

-----------------------------------------------------------------------------
(* Properties *)

(* When every key is up, the input system sees no key down but a modifier  *)
(* that a rule of one keyboard consumed and that then went down again: the *)
(* repeat is passed and the release swallowed (mapping.rs:1152-1158).      *)
(* This is not said after the hook missed an event, or was kept from       *)
(* swallowing or making one by an elevated window (the UIPI guard,         *)
(* mapping.rs:1117-1126).                                                  *)
NothingStuck == down = {} /\ input = << >> /\ ~upset => os \subseteq restored

(* The outputs of a consumer key are emitted, unless a self-test threw the *)
(* message away that was to wake the loop.                                 *)
OutputsDrained == pending # << >> ~> pending = << >> \/ wakeLost \/ phase = "left"

(* A hook that was removed is installed again as long as messages arrive.  *)
HookComesBack == []<>(queue # << >>) => (~hooked ~> hooked \/ phase = "left")

=============================================================================
