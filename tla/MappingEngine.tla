--------------------------- MODULE MappingEngine ---------------------------
(***************************************************************************)
(* One mapping engine and everything that can happen to it: the grab-time  *)
(* notes, then any sequence of key-downs, auto-repeats, key-ups and stray  *)
(* key-ups, while configuration reloads, focus changes and the emitter's   *)
(* reachability change what a lookup answers between any two events.       *)
(***************************************************************************)
EXTENDS KeyEngine

CONSTANTS
  Lookups,       \* the snapshots a reload or a focus change can put in force
  Reachability,  \* values of decide's reachable; {TRUE} but on macOS
  NoKey

ASSUME LookupAssumption ==
  /\ \A f \in Lookups :
       /\ DOMAIN f \subseteq Trigger
       /\ \A t \in DOMAIN f : f[t] \in Seq(NativeKey)
  /\ Reachability \subseteq BOOLEAN
  /\ NoKey \notin Keys

\* Where the emitter can be unreachable (macOS) the key identity is the HID
\* usage itself, so no two keys share a modifier bit.
ASSUME UnreachableAssumption ==
  FALSE \in Reachability =>
    \A j, k \in Keys : OwnBit(j) \cap OwnBit(k) # {} => j = k

VARIABLES
  engine,
  lookup,     \* what for_active_app, or else global, answers now
  streaming,  \* events are being decided: the grab-time notes are over
  last,       \* the last decided event and its decision
  overlapped  \* history: two sources of one bit met since all keys were up

vars == <<engine, lookup, streaming, last, overlapped>>

Event == [event : {"none", "down", "up"}, key : Keys \cup {NoKey}, decision : Decision]

TrackOverlap ==
  overlapped' = (Overlap(engine') \/ (overlapped /\ engine'.pressed # {}))

Resolvable == {k \in Keys : UsageOf[k] # NoUsage}

Init ==
  /\ engine = FreshEngine
  /\ lookup \in Lookups
  /\ streaming = FALSE
  /\ last = [event |-> "none", key |-> NoKey, decision |-> Pass]
  /\ overlapped = FALSE

-----------------------------------------------------------------------------
(* Before the stream: note_held_key, note_stale_key, unnote_held_key *)

NoteHeld(k) ==
  /\ ~streaming
  /\ k \notin engine.pressed \cup engine.stale
  /\ engine' = IF k \in Resolvable THEN NoteHeldKey(engine, k)
                                   ELSE NoteStaleKey(engine, k)
  /\ TrackOverlap
  /\ UNCHANGED <<lookup, streaming, last>>

Unnote(k) ==
  /\ ~streaming
  /\ k \in engine.pressed \cup engine.stale
  /\ engine' = IF k \in Resolvable THEN UnnoteHeldKey(engine, k)
                                   ELSE ClearStaleKey(engine, k)
  /\ TrackOverlap
  /\ UNCHANGED <<lookup, streaming, last>>

StartStream ==
  /\ ~streaming
  /\ streaming' = TRUE
  /\ UNCHANGED <<engine, lookup, last, overlapped>>

-----------------------------------------------------------------------------
(* decide *)

KeyDown(k, dev, reachable) ==
  /\ streaming
  /\ k \in Resolvable
  /\ engine' = AfterDown(engine, k, dev, reachable, lookup)
  /\ last' = [event |-> "down", key |-> k,
              decision |-> DownDecision(engine, k, dev, reachable, lookup)]
  /\ TrackOverlap
  /\ UNCHANGED <<lookup, streaming>>

KeyUp(k) ==
  /\ streaming
  /\ k \in Resolvable
  /\ engine' = AfterUp(engine, k)
  /\ last' = [event |-> "up", key |-> k, decision |-> UpDecision(engine, k)]
  /\ TrackOverlap
  /\ UNCHANGED <<lookup, streaming>>

\* A key that was held at the grab and has no HID identity is released: the
\* backend forwards the release and clears the mark without asking decide.
UnresolvedUp(k) ==
  /\ streaming
  /\ k \notin Resolvable
  /\ k \in engine.stale
  /\ engine' = ClearStaleKey(engine, k)
  /\ TrackOverlap
  /\ UNCHANGED <<lookup, streaming, last>>

\* A hot reload under the write lock, or another focused application.
LookupChanges ==
  /\ lookup' \in Lookups \ {lookup}
  /\ UNCHANGED <<engine, streaming, last, overlapped>>

Next ==
  \/ StartStream
  \/ LookupChanges
  \/ \E k \in Keys :
       \/ NoteHeld(k)
       \/ Unnote(k)
       \/ \E dev \in Devices, reachable \in Reachability : KeyDown(k, dev, reachable)
       \/ KeyUp(k)
       \/ UnresolvedUp(k)

Spec == Init /\ [][Next]_vars

-----------------------------------------------------------------------------
(* Properties *)

TypeOK ==
  /\ engine \in Engine
  /\ lookup \in Lookups
  /\ streaming \in BOOLEAN
  /\ last \in Event
  /\ overlapped \in BOOLEAN

(* Only a key that is down can be marked swallowed, only a swallowed key   *)
(* can hold output bits, and only a key whose press was passed is stale:   *)
(* no mark outlives its press, so no later press of the key inherits it.   *)
MarksBelongToPress == KeyMarksJustified(engine)

(* A modifier is never both forwarded and consumed, and either mark stands *)
(* for a modifier key that is down and was passed on.  A consumed mark     *)
(* that survived its key would swallow the release of a later press.       *)
ForwardedMarksBelongToPress == ModifierMarksJustified(engine)

(* "the invariant that a set modifier bit always has its key in the        *)
(* pressed set" (note_held_key), with the bits that held outputs add: rules*)
(* are never looked up with a modifier nobody is holding.                  *)
ModifierBitsJustified == LookupBitsJustified(engine)

(* A bit leaves a held output, or a forwarded modifier becomes consumed,   *)
(* only in a step whose decision tells the output device to release it:    *)
(* nothing the tracker forgets stays down on the output.                   *)
NothingDroppedSilently ==
  [][ (HeldBits(engine) \ HeldBits(engine')) \cup (engine'.consumed \ engine.consumed)
        \subseteq last'.decision.release ]_vars

(* "Bitmask of modifier bits currently active for rule lookup: the physical *)
(* modifiers plus any held output modifiers" (engine.rs:224-225).          *)
ModifierStateIsPhysicalPlusHeld == PhysicalPlusHeld(engine)

(* The claim above holds as long as no two keys that are down stand for    *)
(* the same bit, and it holds again once every key has been released.      *)
ModifierStateExact == overlapped \/ ModifierStateIsPhysicalPlusHeld

\* The engine's sets as the state of the abstract specification.
Fate ==
  [k \in Resolvable |-> IF k \notin engine.pressed THEN "up"
                        ELSE IF k \in engine.swallowed THEN "captured"
                        ELSE IF k \in engine.stale THEN "preheld"
                        ELSE "passed"]

ConsumedKeys ==
  {k \in Resolvable : k \in PassedKeys(engine) /\ OwnBit(k) \cap engine.consumed # {}}

LastAnswer == [event |-> last.event, key |-> last.key, kind |-> last.decision.kind]

Promise == INSTANCE KeyFate
             WITH Keys <- Resolvable, fate <- Fate, consumed <- ConsumedKeys,
                  answer <- LastAnswer

(* decide keeps the promise of its doc comment: "a key-up is swallowed     *)
(* only if its key-down was decided Emit, no matter when the reachability  *)
(* flag flips", nor when the rules or the focus change.                    *)
KeyFateKept == Promise!Spec

=============================================================================
