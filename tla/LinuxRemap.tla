----------------------------- MODULE LinuxRemap -----------------------------
(***************************************************************************)
(* The Linux event loop: several grabbed keyboards, each with an engine of *)
(* its own, and one virtual keyboard that all of them emit through.        *)
(*                                                                         *)
(* A wake-up decides a batch of one keyboard's events under the device     *)
(* lock and only queues output actions; the queue is executed afterwards,  *)
(* without the lock, while the hot-plug thread adopts and removes          *)
(* keyboards.  An output action is one step here: its sub-events are in    *)
(* LinuxEmission.                                                          *)
(***************************************************************************)
EXTENDS OutputActions

CONSTANTS
  Keyboards,    \* device nodes
  KeysOn,       \* [Keyboards -> SUBSET Keys], the keys a keyboard has
  Lookups,      \* the snapshots a reload or a focus change can put in force
  NoKeyboard,
  MaxBatch      \* bound: actions queued by one batch before a further event

ASSUME RemapAssumption ==
  /\ Keyboards \subseteq Devices
  /\ KeysOn \in [Keyboards -> SUBSET Keys]
  /\ \A f \in Lookups :
       /\ DOMAIN f \subseteq Trigger
       /\ \A t \in DOMAIN f : f[t] \in Seq(NativeKey)
  /\ NoKeyboard \notin Keyboards
  /\ TablesArePaired
  /\ MaxBatch \in Nat \ {0}

VARIABLES
  started,   \* the virtual keyboard exists and the event loop runs
  managed,   \* managed_devices
  engines,   \* [Keyboards -> Engine]
  pending,   \* [Keyboards -> SUBSET Keys], pending_held_modifiers
  down,      \* [Keyboards -> SUBSET Keys], keys down as far as events told
  lookup,
  batch,     \* the keyboard whose events are being decided, or NoKeyboard
  emitting,  \* the lock is released and the queue is executed
  queue,     \* Seq(OutputAction)
  out,       \* codes down on the virtual keyboard
  disturbed  \* history: a modifier was down for two reasons (TrackConflict)

vars == <<started, managed, engines, pending, down, lookup, batch, emitting,
          queue, out, disturbed>>

-----------------------------------------------------------------------------
(* What several engines answer for *)

\* The bits other keyboards hold down on the shared output.
OtherBits(kb) == UNION {EmittedBits(engines[other]) : other \in managed \ {kb}}

Standing(es) == {p \in Keyboards \X Keys : p[2] \in es[p[1]].pressed}

\* Two keys, on one keyboard or on two, stand for the same modifier.
Shared(es) ==
  \E p, q \in Standing(es) :
    p # q /\ Sources(es[p[1]], p[2]) \cap Sources(es[q[1]], q[2]) # {}

\* A rule taps a chord that uses a modifier which the rule itself holds or
\* another keyboard does: its release takes the modifier away from the holder.
TapConflict(outputs, others) ==
  \E i \in DOMAIN outputs :
    /\ OutputHeldMask(outputs[i]) = {}
    /\ outputs[i].modifiers \cap (HeldMaskOf(outputs) \cup others) # {}

WillBePressed(c, actions) == \E i \in DOMAIN actions : c \in Presses(actions[i])

\* The history ends when no key is down or taken for down and nothing is queued.
TrackConflict(conflict) ==
  disturbed' =
    \/ Shared(engines')
    \/ conflict
    \/ /\ disturbed
       /\ \/ queue' # << >>
          \/ \E kb \in Keyboards : down'[kb] # {} \/ engines'[kb].pressed # {}

-----------------------------------------------------------------------------

Init ==
  /\ started = FALSE
  /\ managed = {}
  /\ engines = [kb \in Keyboards |-> FreshEngine]
  /\ pending = [kb \in Keyboards |-> {}]
  /\ down = [kb \in Keyboards |-> {}]
  /\ lookup \in Lookups
  /\ batch = NoKeyboard
  /\ emitting = FALSE
  /\ queue = << >>
  /\ out = {}
  /\ disturbed = FALSE

\* A keyboard joins the event loop with what its takeover noted in the engine
\* and with the keys that are down before the events the loop will read: they
\* may be other ones.
Adopt(kb, told, differs) ==
  /\ batch = NoKeyboard
  /\ managed' = managed \cup {kb}
  /\ down' = [down EXCEPT ![kb] = told]
  /\ UNCHANGED <<started, engines, pending, lookup, batch, emitting, queue, out>>
  /\ TrackConflict(differs)

\* plan_initial_state: the pending modifiers the engine still has forwarded.
InitialState(kb) == {c \in pending[kb] : HeldModifierForwarded(engines[kb], c)}

\* start_mapping: sync_initial_state for every keyboard, then the loop.
Start ==
  /\ ~started
  /\ started' = TRUE
  /\ emitting' = TRUE
  /\ queue' = <<ForwardHeld(UNION {InitialState(kb) : kb \in managed})>>
  /\ pending' = [kb \in Keyboards |-> {}]
  /\ UNCHANGED <<managed, engines, down, lookup, batch, out>>
  /\ TrackConflict(FALSE)

\* handle_device_remove: the engine is dropped, nothing is released.
Remove(kb) ==
  /\ started
  /\ kb \in managed
  /\ batch = NoKeyboard
  /\ managed' = managed \ {kb}
  /\ engines' = [engines EXCEPT ![kb] = FreshEngine]
  /\ pending' = [pending EXCEPT ![kb] = {}]
  /\ down' = [down EXCEPT ![kb] = {}]
  /\ UNCHANGED <<started, lookup, batch, emitting, queue, out>>
  /\ TrackConflict(FALSE)

Reload ==
  /\ lookup' \in Lookups \ {lookup}
  /\ UNCHANGED <<started, managed, engines, pending, down, batch, emitting,
                 queue, out, disturbed>>

-----------------------------------------------------------------------------
(* process_device_events, one event at a time *)

\* Events of one keyboard are decided while nothing is being emitted.
Deciding(kb) ==
  /\ started
  /\ ~emitting
  /\ kb \in managed
  /\ batch \in {NoKeyboard, kb}
  /\ Len(queue) < MaxBatch

\* The first event of an adopted keyboard is preceded by its initial state.
Enqueue(kb, actions) ==
  /\ queue' = queue \o (IF pending[kb] = {} THEN << >>
                        ELSE <<ForwardHeld(InitialState(kb))>>) \o actions
  /\ pending' = [pending EXCEPT ![kb] = {}]
  /\ batch' = kb

\* A press, or the auto-repeat of a key that is down (value 2): the engine
\* tells them apart by its own pressed set.
KeyDown(kb, k, value) ==
  /\ Deciding(kb)
  /\ (value = 2) <=> (k \in down[kb])
  /\ down' = [down EXCEPT ![kb] = @ \cup {k}]
  /\ UsageOf[k] # NoUsage
  /\ engines' = [engines EXCEPT ![kb] = AfterDown(@, k, kb, TRUE, lookup)]
  /\ LET d == DownDecision(engines[kb], k, kb, TRUE, lookup) IN
       /\ Enqueue(kb, Plan(d, k, value, OtherBits(kb)))
       /\ TrackConflict(TapConflict(d.outputs, OtherBits(kb)))
  /\ UNCHANGED <<started, managed, lookup, emitting, out>>

KeyUp(kb, k) ==
  /\ Deciding(kb)
  /\ k \in down[kb]
  /\ UsageOf[k] # NoUsage
  /\ down' = [down EXCEPT ![kb] = @ \ {k}]
  /\ Enqueue(kb, Plan(UpDecision(engines[kb], k), k, 0, {}))
  /\ engines' = [engines EXCEPT ![kb] = AfterUp(@, k)]
  /\ UNCHANGED <<started, managed, lookup, emitting, out>>
  /\ TrackConflict(FALSE)

\* A key without HID identity never reaches decide: it is forwarded, but for
\* the repeats of one that was held at the grab.
UnresolvedKey(kb, k, value) ==
  /\ Deciding(kb)
  /\ (value = 1) <=> (k \notin down[kb])
  /\ UsageOf[k] = NoUsage
  /\ down' = [down EXCEPT ![kb] = IF value = 0 THEN @ \ {k} ELSE @ \cup {k}]
  /\ Enqueue(kb, IF value = 2 /\ k \in engines[kb].stale
                 THEN << >> ELSE <<Forward(k, value)>>)
  /\ engines' = [engines EXCEPT ![kb] = IF value = 0 THEN ClearStaleKey(@, k) ELSE @]
  /\ UNCHANGED <<started, managed, lookup, emitting, out>>
  /\ TrackConflict(FALSE)

\* One event of the keyboard, as process_device_events reads it.
KeyEvent(kb, k, value) ==
  \/ value \in {1, 2} /\ KeyDown(kb, k, value)
  \/ value = 0 /\ KeyUp(kb, k)
  \/ UnresolvedKey(kb, k, value)

\* The batch is over: the lock is released and emit_actions runs.
EndBatch ==
  /\ batch # NoKeyboard
  /\ ~emitting
  /\ batch' = NoKeyboard
  /\ emitting' = (queue # << >>)
  /\ UNCHANGED <<started, managed, engines, pending, down, lookup, queue, out, disturbed>>

EmitAction ==
  /\ emitting
  /\ out' = (out \ Releases(Head(queue))) \cup Presses(Head(queue))
  /\ queue' = Tail(queue)
  /\ emitting' = (queue' # << >>)
  /\ UNCHANGED <<started, managed, engines, pending, down, lookup, batch>>
  /\ TrackConflict(FALSE)

-----------------------------------------------------------------------------
(* Properties *)

(* The modifiers an engine takes for down, forwarded or held, are down on  *)
(* the virtual keyboard as long as no two keys stood for the same one and  *)
(* no chord was tapped with one that is held.                              *)
EmittedModifiersDown ==
  disturbed \/ (queue = << >> =>
    \A kb \in managed :
      pending[kb] = {} => ModifierCodes(EmittedBits(engines[kb])) \subseteq out)

=============================================================================
