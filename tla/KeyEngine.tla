----------------------------- MODULE KeyEngine -----------------------------
(***************************************************************************)
(* The key-mapping engine of src/keymap_core/engine.rs as operators on an  *)
(* engine record: what MappingEngine::decide and the grab-time bookkeeping *)
(* calls do to the state, and what decide answers.  There is one record    *)
(* per MappingEngine instance, so the modules that run one engine          *)
(* (MappingEngine) or one per keyboard (LinuxRemap) share these definitions. *)
(*                                                                         *)
(* A u8 modifier mask is the set of its bits, and a key's own modifier bit *)
(* is a set with at most one element.                                      *)
(***************************************************************************)
EXTENDS Sequences

CONSTANTS
  Keys,       \* physical key identities, the type parameter K
  Devices,    \* device ids passed to decide; one of them may stand for None
  Usages,     \* HID usages of keys and outputs
  NoUsage,    \* a key the translation table cannot resolve
  Modifiers,  \* the bits of a modifier mask
  NoBit,      \* hid_usage_to_modifier_bit answered None
  UsageOf,    \* [Keys -> Usages \cup {NoUsage}]
  BitOf       \* [Usages \cup {NoUsage} -> Modifiers \cup {NoBit}]

ASSUME EngineAssumption ==
  /\ NoUsage \notin Usages
  /\ NoBit \notin Modifiers
  /\ UsageOf \in [Keys -> Usages \cup {NoUsage}]
  /\ BitOf \in [Usages \cup {NoUsage} -> Modifiers \cup {NoBit}]
  /\ BitOf[NoUsage] = NoBit

Mask == SUBSET Modifiers

\* A rule output: modifier keys held together with a base key press.
NativeKey == [usage : Usages, modifiers : Mask]

\* A lookup snapshot is a partial function from exact triggers to outputs.
Trigger == Devices \X Usages \X Mask

Engine ==
  [ pressed       : SUBSET Keys,     \* keys down
    swallowed     : SUBSET Keys,     \* keys whose key-down fired a rule
    held          : [Keys -> Mask],  \* bits a key's output holds, {} when none
    forwarded     : Mask,            \* unmapped modifiers down on the output
    consumed      : Mask,            \* forwarded, then released by a trigger
    stale         : SUBSET Keys,     \* non-modifiers held before the stream
    modifierState : Mask ]           \* the mask rules are looked up with

FreshEngine ==
  [ pressed |-> {}, swallowed |-> {}, held |-> [k \in Keys |-> {}],
    forwarded |-> {}, consumed |-> {}, stale |-> {}, modifierState |-> {} ]

Decision ==
  [ kind    : {"Pass", "Emit", "Swallow", "ConsumedRelease"},
    release : Mask,
    outputs : Seq(NativeKey) ]

Pass == [kind |-> "Pass", release |-> {}, outputs |-> << >>]
Swallow(mask) == [kind |-> "Swallow", release |-> mask, outputs |-> << >>]
Emit(mask, outputs) == [kind |-> "Emit", release |-> mask, outputs |-> outputs]
ConsumedRelease ==
  [kind |-> "ConsumedRelease", release |-> {}, outputs |-> << >>]

OwnBit(k) == {BitOf[UsageOf[k]]} \ {NoBit}

BitsOf(S) == UNION {OwnBit(k) : k \in S}

HeldBits(e) == UNION {e.held[k] : k \in Keys}

-----------------------------------------------------------------------------
(* Bookkeeping before the event stream starts *)

NoteHeldKey(e, k) ==
  LET bit == OwnBit(k) IN
  [e EXCEPT !.pressed = @ \cup {k},
            !.modifierState = @ \cup bit,
            !.forwarded = @ \cup bit,
            !.consumed = @ \ bit,
            !.stale = IF bit = {} THEN @ \cup {k} ELSE @]

NoteStaleKey(e, k) == [e EXCEPT !.stale = @ \cup {k}]

ClearStaleKey(e, k) == [e EXCEPT !.stale = @ \ {k}]

UnnoteHeldKey(e, k) ==
  LET bit == OwnBit(k) IN
  [e EXCEPT !.pressed = @ \ {k},
            !.modifierState = @ \ bit,
            !.forwarded = @ \ bit,
            !.stale = IF bit = {} THEN @ \ {k} ELSE @]

HeldModifierForwarded(e, k) == OwnBit(k) \cap e.forwarded # {}

-----------------------------------------------------------------------------
(* decide_down *)

\* The bits one output keeps down until the physical key-up.
OutputHeldMask(out) ==
  IF BitOf[out.usage] = NoBit
  THEN {}
  ELSE {BitOf[out.usage]} \cup out.modifiers

HeldMaskOf(outputs) ==
  UNION {OutputHeldMask(outputs[i]) : i \in DOMAIN outputs}

\* Mutant: a trigger's held bits are dropped without being released.
TriggeredReleaseForwardedOnly(e) == e.modifierState \cap e.forwarded

\* What consume_triggered reports as released: the trigger's forwarded bits
\* and its bits held by the output of another key.
TriggeredRelease(e) == e.modifierState \cap (e.forwarded \cup HeldBits(e))

\* A mapped key-down.  The trigger's forwarded bits become consumed, its
\* held bits are dropped by every holder and from the lookup state, the
\* key's own bit is not set, and a modifier output starts to be held.
FireTrigger(e, k, outputs) ==
  LET mods == e.modifierState
      mask == HeldMaskOf(outputs)
  IN [ pressed       |-> e.pressed \cup {k},
       swallowed     |-> e.swallowed \cup {k},
       held          |-> [j \in Keys |-> IF j = k
                                         THEN (e.held[j] \ mods) \cup mask
                                         ELSE e.held[j] \ mods],
       forwarded     |-> e.forwarded \ mods,
       consumed      |-> e.consumed \cup (mods \cap e.forwarded),
       stale         |-> e.stale,
       modifierState |-> ((mods \ HeldBits(e)) \ OwnBit(k)) \cup mask ]

\* Mutant: the reachability check comes before the bookkeeping.
PressUnreachableEarly(e, k) == [e EXCEPT !.pressed = @ \cup {k}]

\* A key-down the emitter cannot map because it is unreachable: the lookup
\* bit is kept, but no forwarded mark is made.
PressUnreachable(e, k) ==
  [e EXCEPT !.pressed = @ \cup {k}, !.modifierState = @ \cup OwnBit(k)]

PressUnmapped(e, k) ==
  [e EXCEPT !.pressed = @ \cup {k},
            !.modifierState = @ \cup OwnBit(k),
            !.forwarded = @ \cup OwnBit(k),
            !.consumed = @ \ OwnBit(k)]

TriggerOf(e, k, dev) == <<dev, UsageOf[k], e.modifierState>>

Fires(e, k, dev, reachable, lookup) ==
  reachable /\ TriggerOf(e, k, dev) \in DOMAIN lookup

AfterDown(e, k, dev, reachable, lookup) ==
  IF k \in e.pressed THEN e
  ELSE IF Fires(e, k, dev, reachable, lookup)
       THEN FireTrigger(e, k, lookup[TriggerOf(e, k, dev)])
  ELSE IF reachable THEN PressUnmapped(e, k)
  ELSE PressUnreachable(e, k)

DownDecision(e, k, dev, reachable, lookup) ==
  IF k \in e.pressed
  THEN IF k \in e.swallowed \cup e.stale THEN Swallow({}) ELSE Pass
  ELSE IF Fires(e, k, dev, reachable, lookup)
       THEN Emit(TriggeredRelease(e), lookup[TriggerOf(e, k, dev)])
  ELSE Pass

-----------------------------------------------------------------------------
(* decide_up and KeyTracker::release *)

\* Mutant: the released outputs stay in the lookup state.
ReleaseSwallowedKeepsState(e, k) ==
  [e EXCEPT !.pressed = @ \ {k}, !.swallowed = @ \ {k}, !.stale = @ \ {k},
            !.held[k] = {}, !.modifierState = @ \ OwnBit(k)]

ReleaseSwallowed(e, k) ==
  [e EXCEPT !.pressed = @ \ {k},
            !.swallowed = @ \ {k},
            !.stale = @ \ {k},
            !.held[k] = {},
            !.modifierState = (@ \ OwnBit(k)) \ e.held[k]]

\* Mutant: the stale mark outlives the press.
ReleaseForwardedKeepsStale(e, k) ==
  LET used == OwnBit(k) \cap e.consumed IN
  [e EXCEPT !.pressed = @ \ {k},
            !.consumed = @ \ used,
            !.forwarded = IF used = {} THEN @ \ OwnBit(k) ELSE @,
            !.modifierState = @ \ OwnBit(k)]

\* A consumed modifier loses its consumed mark, any other its forwarded one.
ReleaseForwarded(e, k) ==
  LET used == OwnBit(k) \cap e.consumed IN
  [e EXCEPT !.pressed = @ \ {k},
            !.stale = @ \ {k},
            !.consumed = @ \ used,
            !.forwarded = IF used = {} THEN @ \ OwnBit(k) ELSE @,
            !.modifierState = @ \ OwnBit(k)]

AfterUp(e, k) ==
  IF k \notin e.pressed THEN e
  ELSE IF k \in e.swallowed THEN ReleaseSwallowed(e, k)
  ELSE ReleaseForwarded(e, k)

\* Mutant: a key-up is swallowed for what it holds, not for what it was.
UpDecisionByHeld(e, k) ==
  IF e.held[k] # {} THEN Swallow(e.held[k])
  ELSE IF OwnBit(k) \cap e.consumed # {} THEN ConsumedRelease
  ELSE Pass

UpDecision(e, k) ==
  IF k \notin e.pressed THEN Pass
  ELSE IF k \in e.swallowed THEN Swallow(e.held[k])
  ELSE IF OwnBit(k) \cap e.consumed # {} THEN ConsumedRelease
  ELSE Pass

-----------------------------------------------------------------------------
(* What the bookkeeping means *)

\* Keys that are down and whose press went to the output as it came.
PassedKeys(e) == e.pressed \ e.swallowed

\* The modifier bits a pressed key stands for, as itself or by its output.
Sources(e, k) == OwnBit(k) \cup e.held[k]

Overlap(e) ==
  \E j, k \in e.pressed : j # k /\ Sources(e, j) \cap Sources(e, k) # {}

\* Every mark of a key belongs to a press that has not ended.
KeyMarksJustified(e) ==
  /\ e.swallowed \subseteq e.pressed
  /\ \A k \in Keys : e.held[k] # {} => k \in e.swallowed
  /\ \A k \in e.stale : OwnBit(k) = {} /\ (UsageOf[k] # NoUsage => k \in PassedKeys(e))

\* A modifier mark stands for a modifier key that is down and was passed.
ModifierMarksJustified(e) ==
  /\ e.forwarded \cap e.consumed = {}
  /\ e.forwarded \cup e.consumed \subseteq BitsOf(PassedKeys(e))

\* Somebody holds every bit that rules are looked up with.
LookupBitsJustified(e) ==
  e.modifierState \subseteq BitsOf(PassedKeys(e)) \cup HeldBits(e)

\* The doc comment of modifier_state.
PhysicalPlusHeld(e) == e.modifierState = BitsOf(PassedKeys(e)) \cup HeldBits(e)

=============================================================================
