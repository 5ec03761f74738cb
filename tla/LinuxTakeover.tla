--------------------------- MODULE LinuxTakeover ---------------------------
(***************************************************************************)
(* How a keyboard gets into the hands of the event loop of LinuxRemap: it  *)
(* is grabbed while somebody types on it, its ring is drained, the keys    *)
(* that are down are noted, and then it is let go of for a while, so that  *)
(* their releases reach the clients from the device of their presses.      *)
(*                                                                         *)
(* The main thread takes over every keyboard before the virtual one        *)
(* exists, the hot-plug thread one at a time while the loop runs.  What    *)
(* clients have down is fed by both: a key has been let go of for them     *)
(* when any device has released it.                                        *)
(***************************************************************************)
EXTENDS LinuxRemap, FiniteSets

CONSTANTS
  MaxRing,    \* bound: key events in the ring of a keyboard being taken over
  MaxQueued,  \* bound: actions queued when a keyboard is grabbed
  MaxMissed   \* bound: codes missed when a keyboard is grabbed

ASSUME TakeoverAssumption == MaxRing \in Nat /\ MaxQueued \in Nat

VARIABLES
  taking,   \* the keyboard being taken over, or NoKeyboard
  stage,    \* what its takeover has done last
  held,     \* its keys noted and not seen released: held_at_grab, pending
  found,    \* the drain has discarded something
  ring,     \* [Keyboards -> Seq(Event)], key events that are not read yet
  client,   \* codes down for the clients
  missed    \* history: codes that are, or may be, left down for good

takeoverVars == <<taking, stage, held, found, ring>>
allVars == <<vars, takeoverVars, client, missed>>

Event == [key : Keys, down : BOOLEAN]
Grabbed == stage \notin {"window", "drained again"}

TakeoverInit ==
  /\ Init
  /\ taking = NoKeyboard /\ stage = "none"
  /\ held = {} /\ found = FALSE /\ ring = [kb \in Keyboards |-> << >>]
  /\ client = {} /\ missed = {}

Others == <<started, managed, lookup, batch, emitting, queue, out>>

-----------------------------------------------------------------------------
(* start_mapping, and handle_device_add *)

\* EVIOCGRAB, with keys down on the keyboard and the last event in its ring.
\* Until then clients had every event.
Grab(kb, keys, last) ==
  /\ taking = NoKeyboard
  /\ kb \notin managed
  /\ Len(queue) <= MaxQueued
  /\ Cardinality(missed) <= MaxMissed
  /\ taking' = kb
  /\ stage' = "grabbed"
  /\ ring' = [ring EXCEPT ![kb] = last]
  /\ \A i \in DOMAIN last : last[i].down <=> last[i].key \in keys
  /\ engines' = [engines EXCEPT ![kb] = FreshEngine]
  /\ down' = [down EXCEPT ![kb] = keys]
  /\ client' = client \cup keys
  /\ UNCHANGED <<Others, pending, held, found, missed>>
  /\ TrackConflict(FALSE)

\* The first n events of the ring are dropped, and with them the releases that
\* clients do not know of; the keys of `noted` are up, and stay noted.
Discard(n, noted) ==
  LET lost == {ring[taking][i].key : i \in 1 .. n} \cap client IN
    /\ ring' = [ring EXCEPT ![taking] = SubSeq(@, n + 1, Len(@))]
    /\ missed' = missed \cup (lost \ down[taking]) \cup (noted \ down[taking])

\* drain_pending_events
DrainPending ==
  /\ stage = "grabbed"
  /\ stage' = "drained"
  /\ found' = (ring[taking] # << >>)
  /\ Discard(Len(ring[taking]), {})
  /\ UNCHANGED <<vars, taking, held, client>>

\* note_held_keys.  A modifier's press waits to be emitted again.
NoteHeldKeys(keys) ==
  LET resolved == {k \in keys : UsageOf[k] # NoUsage}
      bits == BitsOf(resolved)
  IN [FreshEngine EXCEPT
        !.pressed = resolved,
        !.modifierState = bits,
        !.forwarded = bits,
        !.stale = {k \in keys : ~IsModifier(k)}]

\* read_kernel_key_state: EVIOCGKEY answers with the keys that are down.
KeyState(answered) == IF answered THEN down[taking] ELSE {}

\* capture_held_keys.  An answer takes the events of the keys out of the ring.
CaptureHeldKeys(answered) ==
  /\ stage = "drained"
  /\ held' = KeyState(answered)
  /\ engines' = [engines EXCEPT ![taking] = NoteHeldKeys(held')]
  /\ pending' = [pending EXCEPT ![taking] = {k \in held' : IsModifier(k)}]
  /\ stage' = IF held' = {} /\ ~found THEN "taken" ELSE "captured"
  /\ found' = FALSE
  /\ IF answered THEN Discard(Len(ring[taking]), {}) ELSE UNCHANGED <<ring, missed>>
  /\ UNCHANGED <<Others, down, taking, client>>
  /\ TrackConflict(FALSE)

\* native_release_window begins, unless the grab cannot be given back.
Ungrab(done) ==
  /\ stage = "captured"
  /\ stage' = IF done THEN "window" ELSE "taken"
  /\ UNCHANGED <<vars, taking, held, found, ring, client, missed>>

\* Mutant: the note of a key outlives its native release.
UnnoteNothing(k) == engines' = engines

\* unnote_natively_released
Unnote(k) ==
  engines' = [engines EXCEPT ![taking] = IF UsageOf[k] = NoUsage
                                         THEN ClearStaleKey(@, k) ELSE UnnoteHeldKey(@, k)]

\* The window reads an event.  Clients have it as well, so it is discarded,
\* but the release of a noted key takes the note along.
ReadInWindow ==
  /\ stage = "window"
  /\ held # {}
  /\ ring[taking] # << >>
  /\ Discard(1, {})
  /\ LET e == Head(ring[taking]) IN
       IF ~e.down /\ e.key \in held
       THEN held' = held \ {e.key} /\ Unnote(e.key)
       ELSE held' = held /\ engines' = engines
  /\ UNCHANGED <<Others, pending, down, taking, stage, found, client>>
  /\ TrackConflict(FALSE)

\* All noted keys have been released, the deadline has passed, or the read
\* failed: what has come since is discarded, releases of noted keys included.
EndWindow ==
  /\ stage = "window"
  /\ stage' = "drained again"
  /\ Discard(Len(ring[taking]), held)
  /\ UNCHANGED <<vars, taking, held, found, client>>

\* EVIOCGRAB again (bound: it succeeds; otherwise clients have every event of
\* the keyboard twice).
Regrab ==
  /\ stage = "drained again"
  /\ stage' = "taken"
  /\ UNCHANGED <<vars, taking, held, found, ring, client, missed>>

\* The keys down before the events that are in the ring, by the first of each.
DownBefore(keys, events) ==
  LET named(n) == {events[i].key : i \in 1 .. n}
      first(i) == events[i].key \notin named(i - 1)
  IN (keys \ named(Len(events)))
       \cup {events[i].key : i \in {n \in DOMAIN events : first(n) /\ ~events[n].down}}

\* The keyboard joins the managed ones.  A key clients have down and the engine
\* has not noted may yet fire a rule, and then its release is swallowed.
PushDevice ==
  /\ stage = "taken"
  /\ LET told == DownBefore(down[taking], ring[taking])
         noted == engines[taking].pressed \cup engines[taking].stale
     IN /\ Adopt(taking, told, told # noted)
        /\ missed' = missed \cup ((down[taking] \ noted) \cap client)
  /\ taking' = NoKeyboard /\ stage' = "none"
  /\ held' = {} /\ found' = FALSE
  /\ UNCHANGED <<ring, client>>

-----------------------------------------------------------------------------
(* What happens meanwhile *)

\* A key changes on the keyboard.  Clients see it while it is not grabbed.
KeyChanges(k) ==
  /\ stage \notin {"none", "taken"}
  /\ k \in KeysOn[taking]
  /\ Len(ring[taking]) < MaxRing
  /\ LET isDown == k \notin down[taking] IN
       /\ ring' = [ring EXCEPT ![taking] = Append(@, [key |-> k, down |-> isDown])]
       /\ down' = [down EXCEPT ![taking] = IF isDown THEN @ \cup {k} ELSE @ \ {k}]
       /\ client' = IF Grabbed THEN client
                    ELSE IF isDown THEN client \cup {k} ELSE client \ {k}
  /\ UNCHANGED <<Others, engines, pending, taking, stage, held, found, missed>>
  /\ TrackConflict(FALSE)

\* No key is down, noted as down, or about to be.
AtRest ==
  /\ queue = << >> /\ taking = NoKeyboard
  /\ \A kb \in Keyboards : down[kb] = {} /\ ring[kb] = << >> /\ engines[kb].pressed = {}

\* Clients have what the virtual keyboard emits.
Emits ==
  /\ EmitAction
  /\ UNCHANGED takeoverVars
  /\ client' = (client \ Releases(Head(queue))) \cup Presses(Head(queue))
  /\ missed' = IF AtRest' THEN missed \cap (client' \cup out') ELSE missed

\* The loop reads what the takeover has left in the ring first.
ReadsKey(kb, k, value) ==
  /\ KeyEvent(kb, k, value)
  /\ IF ring[kb] = << >>
     THEN ring' = ring
     ELSE /\ value # 2 /\ Head(ring[kb]) = [key |-> k, down |-> value = 1]
          /\ ring' = [ring EXCEPT ![kb] = Tail(@)]
  /\ UNCHANGED <<taking, stage, held, found, client, missed>>

\* What a keyboard that is gone had down stays with the clients.
Removes(kb) ==
  /\ Remove(kb)
  /\ ring' = [ring EXCEPT ![kb] = << >>]
  /\ missed' = missed \cup {c \in KeysOn[kb] \cup Accounted(engines[kb], down[kb]) :
                             c \in client \cup out \/ WillBePressed(c, queue)}
  /\ UNCHANGED <<taking, stage, held, found, client>>

Takeover ==
  \/ \E kb \in Keyboards : \E keys \in SUBSET KeysOn[kb] :
       \E last \in {<< >>} \cup {<<e>> : e \in [key : KeysOn[kb], down : BOOLEAN]} :
         Grab(kb, keys, last)
  \/ DrainPending
  \/ \E answered \in BOOLEAN : CaptureHeldKeys(answered)
  \/ \E done \in BOOLEAN : Ungrab(done)
  \/ ReadInWindow
  \/ EndWindow
  \/ Regrab
  \/ PushDevice

Next ==
  \/ Takeover
  \/ \E k \in Keys : KeyChanges(k)
  \/ Emits
  \/ \E kb \in Keyboards : Removes(kb)
  \/ taking = NoKeyboard /\ Start /\ UNCHANGED <<takeoverVars, client, missed>>
  \/ (Reload \/ EndBatch) /\ UNCHANGED <<takeoverVars, client, missed>>
  \/ \E kb \in Keyboards : \E k \in KeysOn[kb], value \in 0 .. 2 : ReadsKey(kb, k, value)

Spec == TakeoverInit /\ [][Next]_allVars

-----------------------------------------------------------------------------
(* Properties *)

(* "The client already has the complete down+up pair" (device.rs:731-785   *)
(* and engine.rs:297-301): once every key is up and everything decided has *)
(* been emitted, clients have no key down, nor has the virtual keyboard.   *)
(* What a removed keyboard held is not released, nor is what was released  *)
(* between the two grabs and discarded unseen.                             *)
NoStuckKeys ==
  queue = << >> /\ taking = NoKeyboard /\ (\A kb \in managed : down[kb] = {} /\ ring[kb] = << >>)
    => client \cup out \subseteq missed

(* "that modifier is released on the output device first ..., so the       *)
(* emitted output is not an unintended chord" (engine.rs:22-25): when a tap*)
(* is executed no modifier is down but its own, one its rule holds, those  *)
(* of other keyboards and those that are stuck already, as long as nothing *)
(* was down for two reasons.                                               *)
CleanTapUndisturbed ==
  ~disturbed /\ emitting /\ Head(queue).kind = "Tap" =>
    out \cap ModifierCodes(Modifiers \ (Head(queue).key.modifiers \cup Head(queue).allowed))
      \subseteq missed

=============================================================================
