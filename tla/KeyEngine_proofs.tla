-------------------------- MODULE KeyEngine_proofs --------------------------
(***************************************************************************)
(* What each engine operation preserves: the lemmas that the proofs about  *)
(* the state machines around the engine cite.                              *)
(***************************************************************************)
EXTENDS OutputActions, SequenceTheorems, TLAPS

EngineInv(e) ==
  /\ e \in Engine
  /\ KeyMarksJustified(e)
  /\ ModifierMarksJustified(e)
  /\ LookupBitsJustified(e)

(* A key's own modifier bit is a set of modifier bits (1u8 << bit).        *)
LEMMA OwnBitType == \A k \in Keys : OwnBit(k) \in Mask
BY EngineAssumption DEF OwnBit, Mask

(* The mask an output list holds is a set of modifier bits.                *)
LEMMA HeldMaskType ==
  ASSUME NEW outputs \in Seq(NativeKey)
  PROVE  HeldMaskOf(outputs) \in Mask
<1>1. ASSUME NEW i \in DOMAIN outputs
      PROVE  OutputHeldMask(outputs[i]) \in Mask
  <2>1. outputs[i] \in NativeKey
    OBVIOUS
  <2>2. outputs[i].usage \in Usages /\ outputs[i].modifiers \in Mask
    BY <2>1 DEF NativeKey
  <2>. QED BY <2>2, EngineAssumption DEF OutputHeldMask, Mask
<1>. QED BY <1>1 DEF HeldMaskOf, Mask

(* A new engine has no marks to justify.                                   *)
LEMMA FreshEngineInv == EngineInv(FreshEngine)
<1>1. FreshEngine \in Engine
  BY DEF FreshEngine, Engine, Mask
<1>2. KeyMarksJustified(FreshEngine)
  BY DEF FreshEngine, KeyMarksJustified
<1>3. ModifierMarksJustified(FreshEngine)
  BY DEF FreshEngine, ModifierMarksJustified
<1>4. LookupBitsJustified(FreshEngine)
  BY DEF FreshEngine, LookupBitsJustified
<1>. QED BY <1>1, <1>2, <1>3, <1>4 DEF EngineInv

(* Pressing a key the rules do not map keeps every mark justified.         *)
LEMMA PressUnmappedInv ==
  ASSUME NEW e, EngineInv(e), NEW k \in Keys, k \notin e.pressed
  PROVE  EngineInv(PressUnmapped(e, k))
<1>. DEFINE f == PressUnmapped(e, k)
<1>0. e \in Engine /\ OwnBit(k) \in Mask
  BY OwnBitType DEF EngineInv
<1>1. f \in Engine
  BY <1>0 DEF PressUnmapped, Engine, Mask
<1>2. /\ f.pressed = e.pressed \cup {k}
      /\ f.swallowed = e.swallowed
      /\ f.held = e.held
      /\ f.stale = e.stale
      /\ f.forwarded = e.forwarded \cup OwnBit(k)
      /\ f.consumed = e.consumed \ OwnBit(k)
      /\ f.modifierState = e.modifierState \cup OwnBit(k)
  BY <1>0 DEF PressUnmapped, Engine
<1>3. k \notin e.swallowed
  BY DEF EngineInv, KeyMarksJustified
<1>4. PassedKeys(f) = PassedKeys(e) \cup {k}
  BY <1>2, <1>3 DEF PassedKeys
<1>5. BitsOf(PassedKeys(f)) = BitsOf(PassedKeys(e)) \cup OwnBit(k)
  BY <1>4 DEF BitsOf
<1>6. HeldBits(f) = HeldBits(e)
  BY <1>2 DEF HeldBits
<1>7. KeyMarksJustified(f)
  BY <1>2, <1>4 DEF KeyMarksJustified, EngineInv
<1>8. ModifierMarksJustified(f)
  BY <1>2, <1>5 DEF ModifierMarksJustified, EngineInv
<1>9. LookupBitsJustified(f)
  BY <1>2, <1>5, <1>6 DEF LookupBitsJustified, EngineInv
<1>. QED BY <1>1, <1>7, <1>8, <1>9 DEF EngineInv

(* So does pressing a key while the emitter is unreachable, where the bit  *)
(* is set without a forwarded mark.                                        *)
LEMMA PressUnreachableInv ==
  ASSUME NEW e, EngineInv(e), NEW k \in Keys, k \notin e.pressed
  PROVE  EngineInv(PressUnreachable(e, k))
<1>. DEFINE f == PressUnreachable(e, k)
<1>0. e \in Engine /\ OwnBit(k) \in Mask
  BY OwnBitType DEF EngineInv
<1>1. f \in Engine
  BY <1>0 DEF PressUnreachable, Engine, Mask
<1>2. /\ f.pressed = e.pressed \cup {k}
      /\ f.swallowed = e.swallowed
      /\ f.held = e.held
      /\ f.stale = e.stale
      /\ f.forwarded = e.forwarded
      /\ f.consumed = e.consumed
      /\ f.modifierState = e.modifierState \cup OwnBit(k)
  BY <1>0 DEF PressUnreachable, Engine
<1>3. k \notin e.swallowed
  BY DEF EngineInv, KeyMarksJustified
<1>4. PassedKeys(f) = PassedKeys(e) \cup {k}
  BY <1>2, <1>3 DEF PassedKeys
<1>5. BitsOf(PassedKeys(f)) = BitsOf(PassedKeys(e)) \cup OwnBit(k)
  BY <1>4 DEF BitsOf
<1>6. HeldBits(f) = HeldBits(e)
  BY <1>2 DEF HeldBits
<1>7. KeyMarksJustified(f)
  BY <1>2, <1>4 DEF KeyMarksJustified, EngineInv
<1>8. ModifierMarksJustified(f)
  BY <1>2, <1>5 DEF ModifierMarksJustified, EngineInv
<1>9. LookupBitsJustified(f)
  BY <1>2, <1>5, <1>6 DEF LookupBitsJustified, EngineInv
<1>. QED BY <1>1, <1>7, <1>8, <1>9 DEF EngineInv

(* A fired trigger: the bits it consumes leave every holder, and the bits  *)
(* its outputs hold belong to the key that was just marked swallowed.      *)
LEMMA FireTriggerInv ==
  ASSUME NEW e, EngineInv(e), NEW k \in Keys, k \notin e.pressed,
         UsageOf[k] # NoUsage, NEW outputs \in Seq(NativeKey)
  PROVE  EngineInv(FireTrigger(e, k, outputs))
<1>. DEFINE f == FireTrigger(e, k, outputs)
            mask == HeldMaskOf(outputs)
            mods == e.modifierState
<1>0. /\ e \in Engine /\ OwnBit(k) \in Mask /\ mask \in Mask
      /\ e.held \in [Keys -> Mask]
  BY OwnBitType, HeldMaskType DEF EngineInv, Engine
<1>1. f \in Engine
  BY <1>0 DEF FireTrigger, Engine, Mask
<1>2. /\ f.pressed = e.pressed \cup {k}
      /\ f.swallowed = e.swallowed \cup {k}
      /\ f.stale = e.stale
      /\ f.forwarded = e.forwarded \ mods
      /\ f.consumed = e.consumed \cup (mods \cap e.forwarded)
      /\ f.modifierState = ((mods \ HeldBits(e)) \ OwnBit(k)) \cup mask
  BY DEF FireTrigger
<1>3. \A j \in Keys : f.held[j] = IF j = k THEN (e.held[j] \ mods) \cup mask
                                           ELSE e.held[j] \ mods
  BY DEF FireTrigger
<1>4. PassedKeys(f) = PassedKeys(e)
  BY <1>2 DEF PassedKeys
<1>5. BitsOf(PassedKeys(f)) = BitsOf(PassedKeys(e))
  BY <1>4
<1>6. mask \subseteq HeldBits(f)
  BY <1>3 DEF HeldBits
<1>7. KeyMarksJustified(f)
  <2>1. f.swallowed \subseteq f.pressed
    BY <1>2 DEF EngineInv, KeyMarksJustified
  <2>2. \A j \in Keys : f.held[j] # {} => j \in f.swallowed
    BY <1>2, <1>3 DEF EngineInv, KeyMarksJustified
  <2>3. \A j \in f.stale : OwnBit(j) = {} /\ (UsageOf[j] # NoUsage => j \in PassedKeys(f))
    BY <1>2, <1>4 DEF EngineInv, KeyMarksJustified
  <2>. QED BY <2>1, <2>2, <2>3 DEF KeyMarksJustified
<1>8. ModifierMarksJustified(f)
  BY <1>2, <1>5 DEF ModifierMarksJustified, EngineInv
<1>9. LookupBitsJustified(f)
  <2>1. mods \ HeldBits(e) \subseteq BitsOf(PassedKeys(e))
    BY DEF EngineInv, LookupBitsJustified
  <2>. QED BY <1>2, <1>5, <1>6, <2>1 DEF LookupBitsJustified
<1>. QED BY <1>1, <1>7, <1>8, <1>9 DEF EngineInv

(* decide_down preserves the justification of every mark.                  *)
LEMMA AfterDownInv ==
  ASSUME NEW e, EngineInv(e), NEW k \in Keys, UsageOf[k] # NoUsage,
         NEW dev, NEW reachable, NEW lookup,
         \A t \in DOMAIN lookup : lookup[t] \in Seq(NativeKey)
  PROVE  EngineInv(AfterDown(e, k, dev, reachable, lookup))
<1>1. CASE k \in e.pressed
  BY <1>1 DEF AfterDown
<1>2. CASE k \notin e.pressed /\ Fires(e, k, dev, reachable, lookup)
  <2>1. lookup[TriggerOf(e, k, dev)] \in Seq(NativeKey)
    BY <1>2 DEF Fires
  <2>. QED BY <1>2, <2>1, FireTriggerInv DEF AfterDown
<1>3. CASE k \notin e.pressed /\ ~Fires(e, k, dev, reachable, lookup) /\ reachable
  BY <1>3, PressUnmappedInv DEF AfterDown
<1>4. CASE k \notin e.pressed /\ ~Fires(e, k, dev, reachable, lookup) /\ ~reachable
  BY <1>4, PressUnreachableInv DEF AfterDown
<1>. QED BY <1>1, <1>2, <1>3, <1>4

(* Releasing a key whose press was mapped ends its marks and its holds.    *)
LEMMA ReleaseSwallowedInv ==
  ASSUME NEW e, EngineInv(e), NEW k \in Keys, k \in e.pressed, k \in e.swallowed
  PROVE  EngineInv(ReleaseSwallowed(e, k))
<1>. DEFINE f == ReleaseSwallowed(e, k)
<1>0. e \in Engine /\ OwnBit(k) \in Mask
  BY OwnBitType DEF EngineInv
<1>1. f \in Engine
  BY <1>0 DEF ReleaseSwallowed, Engine, Mask
<1>2. /\ f.pressed = e.pressed \ {k}
      /\ f.swallowed = e.swallowed \ {k}
      /\ f.stale = e.stale \ {k}
      /\ f.forwarded = e.forwarded
      /\ f.consumed = e.consumed
      /\ f.modifierState = (e.modifierState \ OwnBit(k)) \ e.held[k]
  BY <1>0 DEF ReleaseSwallowed, Engine
<1>3. \A j \in Keys : f.held[j] = IF j = k THEN {} ELSE e.held[j]
  BY <1>0 DEF ReleaseSwallowed, Engine
<1>4. PassedKeys(f) = PassedKeys(e)
  BY <1>2 DEF PassedKeys
<1>5. BitsOf(PassedKeys(f)) = BitsOf(PassedKeys(e))
  BY <1>4
<1>6. HeldBits(e) \ e.held[k] \subseteq HeldBits(f)
  BY <1>3 DEF HeldBits
<1>7. KeyMarksJustified(f)
  <2>1. f.swallowed \subseteq f.pressed
    BY <1>2 DEF EngineInv, KeyMarksJustified
  <2>2. \A j \in Keys : f.held[j] # {} => j \in f.swallowed
    BY <1>2, <1>3 DEF EngineInv, KeyMarksJustified
  <2>3. \A j \in f.stale : OwnBit(j) = {} /\ (UsageOf[j] # NoUsage => j \in PassedKeys(f))
    BY <1>2, <1>4 DEF EngineInv, KeyMarksJustified
  <2>. QED BY <2>1, <2>2, <2>3 DEF KeyMarksJustified
<1>8. ModifierMarksJustified(f)
  BY <1>2, <1>5 DEF ModifierMarksJustified, EngineInv
<1>9. LookupBitsJustified(f)
  BY <1>2, <1>5, <1>6 DEF LookupBitsJustified, EngineInv
<1>. QED BY <1>1, <1>7, <1>8, <1>9 DEF EngineInv

(* Releasing a passed key ends the mark of its modifier bit, so that no    *)
(* later press inherits it.                                                *)
LEMMA ReleaseForwardedInv ==
  ASSUME NEW e, EngineInv(e), NEW k \in Keys, k \in e.pressed, k \notin e.swallowed
  PROVE  EngineInv(ReleaseForwarded(e, k))
<1>. DEFINE f == ReleaseForwarded(e, k)
            used == OwnBit(k) \cap e.consumed
<1>0. e \in Engine /\ OwnBit(k) \in Mask
  BY OwnBitType DEF EngineInv
<1>1. f \in Engine
  BY <1>0 DEF ReleaseForwarded, Engine, Mask
<1>2. /\ f.pressed = e.pressed \ {k}
      /\ f.swallowed = e.swallowed
      /\ f.held = e.held
      /\ f.stale = e.stale \ {k}
      /\ f.forwarded = IF used = {} THEN e.forwarded \ OwnBit(k) ELSE e.forwarded
      /\ f.consumed = e.consumed \ used
      /\ f.modifierState = e.modifierState \ OwnBit(k)
  BY <1>0 DEF ReleaseForwarded, Engine
<1>3. PassedKeys(f) = PassedKeys(e) \ {k}
  BY <1>2 DEF PassedKeys
<1>4. BitsOf(PassedKeys(e)) \ OwnBit(k) \subseteq BitsOf(PassedKeys(f))
  BY <1>3 DEF BitsOf
<1>5. HeldBits(f) = HeldBits(e)
  BY <1>2 DEF HeldBits
<1>6. KeyMarksJustified(f)
  BY <1>2, <1>3 DEF KeyMarksJustified, EngineInv
<1>7. ModifierMarksJustified(f)
  <2>1. f.forwarded \cap f.consumed = {}
    BY <1>2 DEF ModifierMarksJustified, EngineInv
  <2>2. (f.forwarded \cup f.consumed) \cap OwnBit(k) = {}
    <3>1. \A b, c \in OwnBit(k) : b = c
      BY DEF OwnBit
    <3>. QED BY <1>2, <3>1 DEF ModifierMarksJustified, EngineInv
  <2>3. f.forwarded \cup f.consumed \subseteq e.forwarded \cup e.consumed
    BY <1>2
  <2>4. e.forwarded \cup e.consumed \subseteq BitsOf(PassedKeys(e))
    BY DEF ModifierMarksJustified, EngineInv
  <2>. QED BY <1>4, <2>1, <2>2, <2>3, <2>4 DEF ModifierMarksJustified
<1>8. LookupBitsJustified(f)
  BY <1>2, <1>4, <1>5 DEF LookupBitsJustified, EngineInv
<1>. QED BY <1>1, <1>6, <1>7, <1>8 DEF EngineInv

(* decide_up preserves the justification of every mark.                    *)
LEMMA AfterUpInv ==
  ASSUME NEW e, EngineInv(e), NEW k \in Keys
  PROVE  EngineInv(AfterUp(e, k))
BY ReleaseSwallowedInv, ReleaseForwardedInv DEF AfterUp

(* The grab-time note of a held key, before any key-down is decided.       *)
LEMMA NoteHeldInv ==
  ASSUME NEW e, EngineInv(e), e.swallowed = {}, e.consumed = {},
         NEW k \in Keys, UsageOf[k] # NoUsage
  PROVE  /\ EngineInv(NoteHeldKey(e, k))
         /\ NoteHeldKey(e, k).swallowed = {}
         /\ NoteHeldKey(e, k).consumed = {}
         /\ NoteHeldKey(e, k).pressed = e.pressed \cup {k}
<1>. DEFINE f == NoteHeldKey(e, k)
<1>0. e \in Engine /\ OwnBit(k) \in Mask
  BY OwnBitType DEF EngineInv
<1>1. f \in Engine
  BY <1>0 DEF NoteHeldKey, Engine, Mask
<1>2. /\ f.pressed = e.pressed \cup {k}
      /\ f.swallowed = {}
      /\ f.held = e.held
      /\ f.stale = IF OwnBit(k) = {} THEN e.stale \cup {k} ELSE e.stale
      /\ f.forwarded = e.forwarded \cup OwnBit(k)
      /\ f.consumed = {}
      /\ f.modifierState = e.modifierState \cup OwnBit(k)
  BY <1>0 DEF NoteHeldKey, Engine
<1>3. PassedKeys(f) = PassedKeys(e) \cup {k}
  BY <1>2 DEF PassedKeys
<1>4. BitsOf(PassedKeys(f)) = BitsOf(PassedKeys(e)) \cup OwnBit(k)
  BY <1>3 DEF BitsOf
<1>5. HeldBits(f) = HeldBits(e)
  BY <1>2 DEF HeldBits
<1>6. KeyMarksJustified(f)
  BY <1>2, <1>3 DEF KeyMarksJustified, EngineInv
<1>7. ModifierMarksJustified(f)
  BY <1>2, <1>4 DEF ModifierMarksJustified, EngineInv
<1>8. LookupBitsJustified(f)
  BY <1>2, <1>4, <1>5 DEF LookupBitsJustified, EngineInv
<1>. QED BY <1>1, <1>2, <1>6, <1>7, <1>8 DEF EngineInv

(* Undoing the note of a key released before the stream started.           *)
LEMMA UnnoteHeldInv ==
  ASSUME NEW e, EngineInv(e), e.swallowed = {}, e.consumed = {},
         NEW k \in Keys, UsageOf[k] # NoUsage
  PROVE  /\ EngineInv(UnnoteHeldKey(e, k))
         /\ UnnoteHeldKey(e, k).swallowed = {}
         /\ UnnoteHeldKey(e, k).consumed = {}
         /\ UnnoteHeldKey(e, k).pressed = e.pressed \ {k}
<1>. DEFINE f == UnnoteHeldKey(e, k)
<1>0. e \in Engine /\ OwnBit(k) \in Mask
  BY OwnBitType DEF EngineInv
<1>1. f \in Engine
  BY <1>0 DEF UnnoteHeldKey, Engine, Mask
<1>2. /\ f.pressed = e.pressed \ {k}
      /\ f.swallowed = {}
      /\ f.held = e.held
      /\ f.stale = IF OwnBit(k) = {} THEN e.stale \ {k} ELSE e.stale
      /\ f.forwarded = e.forwarded \ OwnBit(k)
      /\ f.consumed = {}
      /\ f.modifierState = e.modifierState \ OwnBit(k)
  BY <1>0 DEF UnnoteHeldKey, Engine
<1>3. PassedKeys(f) = PassedKeys(e) \ {k}
  BY <1>2 DEF PassedKeys
<1>4. BitsOf(PassedKeys(e)) \ OwnBit(k) \subseteq BitsOf(PassedKeys(f))
  BY <1>3 DEF BitsOf
<1>5. HeldBits(f) = HeldBits(e)
  BY <1>2 DEF HeldBits
<1>6. KeyMarksJustified(f)
  BY <1>2, <1>3 DEF KeyMarksJustified, EngineInv
<1>7. ModifierMarksJustified(f)
  BY <1>2, <1>4 DEF ModifierMarksJustified, EngineInv
<1>8. LookupBitsJustified(f)
  BY <1>2, <1>4, <1>5 DEF LookupBitsJustified, EngineInv
<1>. QED BY <1>1, <1>2, <1>6, <1>7, <1>8 DEF EngineInv

(* Marking or clearing a key that has no HID identity touches no modifier. *)
LEMMA StaleKeyInv ==
  ASSUME NEW e, EngineInv(e), NEW k \in Keys, UsageOf[k] = NoUsage,
         NEW f \in {NoteStaleKey(e, k), ClearStaleKey(e, k)}
  PROVE  EngineInv(f) /\ f = [e EXCEPT !.stale = f.stale]
<1>0. e \in Engine /\ OwnBit(k) = {}
  BY EngineAssumption DEF EngineInv, OwnBit
<1>1. f \in Engine /\ f = [e EXCEPT !.stale = f.stale]
  BY <1>0 DEF NoteStaleKey, ClearStaleKey, Engine
<1>2. /\ f.pressed = e.pressed
      /\ f.swallowed = e.swallowed
      /\ f.held = e.held
      /\ f.forwarded = e.forwarded
      /\ f.consumed = e.consumed
      /\ f.modifierState = e.modifierState
      /\ f.stale \subseteq e.stale \cup {k}
  BY <1>0 DEF NoteStaleKey, ClearStaleKey, Engine
<1>3. PassedKeys(f) = PassedKeys(e)
  BY <1>2 DEF PassedKeys
<1>4. KeyMarksJustified(f)
  BY <1>0, <1>2, <1>3 DEF KeyMarksJustified, EngineInv
<1>5. ModifierMarksJustified(f) /\ LookupBitsJustified(f)
  BY <1>2, <1>3 DEF ModifierMarksJustified, LookupBitsJustified, HeldBits, EngineInv
<1>. QED BY <1>1, <1>4, <1>5 DEF EngineInv

-----------------------------------------------------------------------------
(* The lookup state as long as no two keys stand for one bit *)

\* The bits that keys other than k stand for.
RestBits(e, k) ==
  BitsOf(PassedKeys(e) \ {k}) \cup UNION {e.held[j] : j \in Keys \ {k}}

(* A key that shares no bit with another one that is down shares none with *)
(* what the others forward or hold.                                        *)
LEMMA SourcesApart ==
  ASSUME NEW e, EngineInv(e), ~Overlap(e), NEW k \in e.pressed
  PROVE  Sources(e, k) \cap RestBits(e, k) = {}
<1>1. ASSUME NEW j \in Keys \ {k}, e.held[j] # {} PROVE j \in e.pressed
  BY <1>1 DEF EngineInv, KeyMarksJustified
<1>2. ASSUME NEW j \in e.pressed, j # k PROVE Sources(e, j) \cap Sources(e, k) = {}
  BY <1>2 DEF Overlap
<1>3. ASSUME NEW j \in PassedKeys(e) \ {k} PROVE OwnBit(j) \cap Sources(e, k) = {}
  BY <1>2 DEF PassedKeys, Sources
<1>4. ASSUME NEW j \in Keys \ {k} PROVE e.held[j] \cap Sources(e, k) = {}
  BY <1>1, <1>2 DEF Sources
<1>. QED BY <1>3, <1>4 DEF RestBits, BitsOf

(* What all keys stand for is what one of them does, with the others.      *)
LEMMA SplitBits ==
  ASSUME NEW e, NEW k \in Keys
  PROVE  BitsOf(PassedKeys(e)) \cup HeldBits(e) =
           RestBits(e, k) \cup e.held[k] \cup (IF k \in PassedKeys(e) THEN OwnBit(k) ELSE {})
BY DEF RestBits, BitsOf, HeldBits

(* With no key down there is no bit left in the lookup state.              *)
LEMMA AllUpExact ==
  ASSUME NEW e, EngineInv(e), e.pressed = {}
  PROVE  PhysicalPlusHeld(e)
<1>1. PassedKeys(e) = {}
  BY DEF PassedKeys
<1>2. \A k \in Keys : e.held[k] = {}
  BY DEF EngineInv, KeyMarksJustified
<1>3. BitsOf(PassedKeys(e)) = {} /\ HeldBits(e) = {}
  BY <1>1, <1>2 DEF BitsOf, HeldBits
<1>. QED BY <1>3 DEF PhysicalPlusHeld, EngineInv, LookupBitsJustified

(* A press adds the bit of its key, whatever becomes of the other marks.   *)
LEMMA PressExact ==
  ASSUME NEW e, EngineInv(e), PhysicalPlusHeld(e), NEW k \in Keys, k \notin e.swallowed,
         NEW f, f.pressed = e.pressed \cup {k}, f.swallowed = e.swallowed,
         f.held = e.held, f.modifierState = e.modifierState \cup OwnBit(k)
  PROVE  PhysicalPlusHeld(f)
<1>1. PassedKeys(f) = PassedKeys(e) \cup {k}
  BY DEF PassedKeys
<1>2. BitsOf(PassedKeys(f)) = BitsOf(PassedKeys(e)) \cup OwnBit(k)
  BY <1>1 DEF BitsOf
<1>3. HeldBits(f) = HeldBits(e)
  BY DEF HeldBits
<1>. QED BY <1>2, <1>3 DEF PhysicalPlusHeld

(* A trigger takes all bits out of the state that its rule does not hold,  *)
(* but those of the modifiers that are down themselves.                    *)
LEMMA FireExact ==
  ASSUME NEW e, EngineInv(e), PhysicalPlusHeld(e), ~Overlap(e),
         NEW k \in Keys, k \notin e.pressed, NEW outputs,
         ~Overlap(FireTrigger(e, k, outputs))
  PROVE  PhysicalPlusHeld(FireTrigger(e, k, outputs))
<1>. DEFINE f == FireTrigger(e, k, outputs)
            mask == HeldMaskOf(outputs)
            mods == e.modifierState
<1>1. /\ f.pressed = e.pressed \cup {k}
      /\ f.swallowed = e.swallowed \cup {k}
      /\ f.modifierState = ((mods \ HeldBits(e)) \ OwnBit(k)) \cup mask
      /\ \A j \in Keys : f.held[j] = IF j = k THEN (e.held[j] \ mods) \cup mask
                                              ELSE e.held[j] \ mods
  BY DEF FireTrigger
<1>2. PassedKeys(f) = PassedKeys(e) /\ k \notin PassedKeys(e)
  BY <1>1 DEF PassedKeys
<1>3. \A j \in Keys : e.held[j] \subseteq mods
  BY DEF PhysicalPlusHeld, HeldBits
<1>4. HeldBits(f) = mask
  <2>1. \A j \in Keys : f.held[j] = IF j = k THEN mask ELSE {}
    BY <1>1, <1>3
  <2>. HIDE DEF f, mask
  <2>. QED BY <2>1 DEF HeldBits
<1>. HIDE DEF f
<1>6. BitsOf(PassedKeys(e)) \cap HeldBits(e) = {}
  <2>1. ASSUME NEW j \in PassedKeys(e), NEW l \in Keys PROVE OwnBit(j) \cap e.held[l] = {}
    <3>1. j \in e.pressed /\ j \notin e.swallowed
      BY DEF PassedKeys
    <3>2. e.held[l] # {} => l \in e.swallowed /\ l \in e.pressed
      BY DEF EngineInv, KeyMarksJustified
    <3>. QED BY <3>1, <3>2 DEF Overlap, Sources
  <2>. QED BY <2>1 DEF BitsOf, HeldBits
<1>7. BitsOf(PassedKeys(e)) \cap OwnBit(k) = {}
  <2>1. ASSUME NEW j \in PassedKeys(e) PROVE OwnBit(j) \cap OwnBit(k) = {}
    <3>1. j \in f.pressed /\ k \in f.pressed /\ j # k
      BY <1>1, <1>2 DEF PassedKeys
    <3>2. ~Overlap(f)
      BY DEF f
    <3>. QED BY <3>1, <3>2 DEF Overlap, Sources
  <2>. QED BY <2>1 DEF BitsOf
<1>8. f.modifierState = BitsOf(PassedKeys(f)) \cup HeldBits(f)
  BY <1>1, <1>2, <1>4, <1>6, <1>7 DEF PhysicalPlusHeld
<1>. QED BY <1>8 DEF PhysicalPlusHeld, f

(* A release takes out the bits its key stood for, and no other key's.     *)
LEMMA ReleaseExact ==
  ASSUME NEW e, EngineInv(e), PhysicalPlusHeld(e), ~Overlap(e), NEW k \in e.pressed, k \in Keys,
         NEW f, f.pressed = e.pressed \ {k}, f.swallowed = e.swallowed \ {k},
         \A j \in Keys : f.held[j] = IF j = k THEN {} ELSE e.held[j],
         f.modifierState = e.modifierState \ Sources(e, k)
  PROVE  PhysicalPlusHeld(f)
<1>1. PassedKeys(f) = PassedKeys(e) \ {k}
  BY DEF PassedKeys
<1>2. BitsOf(PassedKeys(f)) \cup HeldBits(f) = RestBits(e, k)
  BY <1>1 DEF BitsOf, HeldBits, RestBits
<1>3. e.modifierState = RestBits(e, k) \cup e.held[k]
                          \cup (IF k \in PassedKeys(e) THEN OwnBit(k) ELSE {})
  BY SplitBits DEF PhysicalPlusHeld
<1>4. e.modifierState \ Sources(e, k) = RestBits(e, k)
  BY <1>3, SourcesApart DEF Sources
<1>. QED BY <1>2, <1>4 DEF PhysicalPlusHeld

(* decide_down keeps the mask exact where no bit has two sources.          *)
LEMMA AfterDownExact ==
  ASSUME NEW e, EngineInv(e), PhysicalPlusHeld(e), ~Overlap(e),
         NEW k \in Keys, NEW dev, NEW reachable, NEW lookup,
         ~Overlap(AfterDown(e, k, dev, reachable, lookup))
  PROVE  PhysicalPlusHeld(AfterDown(e, k, dev, reachable, lookup))
<1>1. CASE k \in e.pressed
  BY <1>1 DEF AfterDown
<1>2. CASE k \notin e.pressed /\ Fires(e, k, dev, reachable, lookup)
  BY <1>2, FireExact DEF AfterDown
<1>3. CASE k \notin e.pressed /\ ~Fires(e, k, dev, reachable, lookup)
  <2>. DEFINE f == AfterDown(e, k, dev, reachable, lookup)
  <2>1. f \in {PressUnmapped(e, k), PressUnreachable(e, k)}
    BY <1>3 DEF AfterDown
  <2>2. /\ f.pressed = e.pressed \cup {k} /\ f.swallowed = e.swallowed
        /\ f.held = e.held /\ f.modifierState = e.modifierState \cup OwnBit(k)
    BY <2>1 DEF PressUnmapped, PressUnreachable, EngineInv, Engine
  <2>3. k \notin e.swallowed
    BY <1>3 DEF EngineInv, KeyMarksJustified
  <2>. QED BY <2>2, <2>3, PressExact
<1>. QED BY <1>1, <1>2, <1>3

(* So does decide_up.                                                      *)
LEMMA AfterUpExact ==
  ASSUME NEW e, EngineInv(e), PhysicalPlusHeld(e), ~Overlap(e), NEW k \in Keys
  PROVE  PhysicalPlusHeld(AfterUp(e, k))
<1>. DEFINE f == AfterUp(e, k)
<1>0. e \in Engine
  BY DEF EngineInv
<1>1. CASE k \notin e.pressed
  BY <1>1 DEF AfterUp
<1>2. CASE k \in e.pressed /\ k \in e.swallowed
  <2>1. /\ f.pressed = e.pressed \ {k} /\ f.swallowed = e.swallowed \ {k}
        /\ \A j \in Keys : f.held[j] = IF j = k THEN {} ELSE e.held[j]
        /\ f.modifierState = e.modifierState \ Sources(e, k)
    BY <1>0, <1>2 DEF AfterUp, ReleaseSwallowed, Engine, Sources
  <2>. QED BY <1>2, <2>1, ReleaseExact
<1>3. CASE k \in e.pressed /\ k \notin e.swallowed
  <2>1. e.held[k] = {}
    BY <1>3 DEF EngineInv, KeyMarksJustified
  <2>2. /\ f.pressed = e.pressed \ {k} /\ f.swallowed = e.swallowed
        /\ f.held = e.held
        /\ f.modifierState = e.modifierState \ Sources(e, k)
    BY <1>0, <1>3, <2>1 DEF AfterUp, ReleaseForwarded, Engine, Sources
  <2>3. /\ e.swallowed = e.swallowed \ {k}
        /\ \A j \in Keys : f.held[j] = IF j = k THEN {} ELSE e.held[j]
    BY <1>3, <2>1, <2>2
  <2>. HIDE DEF f
  <2>4. PhysicalPlusHeld(f)
    BY <1>3, <2>2, <2>3, ReleaseExact
  <2>. QED BY <2>4 DEF f
<1>. QED BY <1>1, <1>2, <1>3

-----------------------------------------------------------------------------
(* What the queue will leave down *)

Effect(S, a) == (S \ Releases(a)) \cup Presses(a)

\* The codes that are down after the first n actions of q, when those of S
\* were down before.
DownAfter(S, q, n) ==
  {c \in Keys :
     \/ c \in S /\ \A j \in 1 .. n : c \notin Releases(q[j])
     \/ \E i \in 1 .. n : c \in Presses(q[i]) /\ \A j \in (i + 1) .. n : c \notin Releases(q[j])}

DownAtEnd(S, q) == DownAfter(S, q, Len(q))

Stays(c, q) == \A i \in 1 .. Len(q) : c \notin Releases(q[i])

(* Before its first action the queue has changed nothing.                  *)
LEMMA DownAtStart ==
  ASSUME NEW S \in SUBSET Keys, NEW q
  PROVE  DownAfter(S, q, 0) = S
BY DEF DownAfter

(* What follows in the queue does not matter for what comes first.         *)
LEMMA DownBeforeTheRest ==
  ASSUME NEW S, NEW q \in Seq(Action), NEW r \in Seq(Action), NEW n \in 0 .. Len(q)
  PROVE  DownAfter(S, q \o r, n) = DownAfter(S, q, n)
<1>1. \A j \in 1 .. n : (q \o r)[j] = q[j]
  BY ConcatProperties
<1>. QED BY <1>1 DEF DownAfter

(* Two queues, one after the other.                                        *)
LEMMA DownInTheRest ==
  ASSUME NEW S, NEW q \in Seq(Action), NEW r \in Seq(Action), NEW m \in 0 .. Len(r)
  PROVE  DownAfter(S, q \o r, Len(q) + m) = DownAfter(DownAtEnd(S, q), r, m)
<1>. DEFINE L == Len(q)
            qr == q \o r
<1>0. L \in Nat /\ m \in Nat
  OBVIOUS
<1>1. /\ \A j \in 1 .. L : qr[j] = q[j]
      /\ \A j \in 1 .. m : qr[L + j] = r[j]
  BY ConcatProperties, <1>0
<1>2. \A j \in 1 .. L + m : j \in 1 .. L \/ (j - L \in 1 .. m /\ j = L + (j - L))
  BY <1>0
<1>3. ASSUME NEW c \in DownAfter(S, qr, L + m)
      PROVE  c \in DownAfter(DownAtEnd(S, q), r, m)
  <2>. HIDE DEF L, qr
  <2>0. c \in Keys
    BY <1>3 DEF DownAfter
  <2>1. CASE c \in S /\ \A j \in 1 .. L + m : c \notin Releases(qr[j])
    <3>1. c \in DownAtEnd(S, q)
      <4>1. \A j \in 1 .. L : c \notin Releases(q[j])
        BY <1>0, <1>1, <2>1
      <4>. QED BY <2>0, <2>1, <4>1 DEF DownAtEnd, DownAfter, L
    <3>2. \A j \in 1 .. m : c \notin Releases(r[j])
      <4>1. \A j \in 1 .. m : L + j \in 1 .. L + m
        BY <1>0
      <4>. QED BY <1>1, <2>1, <4>1
    <3>. QED BY <2>0, <3>1, <3>2 DEF DownAfter
  <2>2. ASSUME NEW i \in 1 .. L + m, c \in Presses(qr[i]),
               \A j \in (i + 1) .. L + m : c \notin Releases(qr[j])
        PROVE  c \in DownAfter(DownAtEnd(S, q), r, m)
    <3>1. CASE i \in 1 .. L
      <4>1. \A j \in (i + 1) .. L : c \notin Releases(q[j])
        BY <1>0, <1>1, <2>2, <3>1
      <4>2. c \in DownAtEnd(S, q)
        BY <1>1, <2>0, <2>2, <3>1, <4>1 DEF DownAtEnd, DownAfter, L
      <4>3. \A j \in 1 .. m : c \notin Releases(r[j])
        <5>1. \A j \in 1 .. m : L + j \in (i + 1) .. L + m
          BY <1>0, <3>1
        <5>. QED BY <1>1, <2>2, <5>1
      <4>. QED BY <2>0, <4>2, <4>3 DEF DownAfter
    <3>2. CASE i - L \in 1 .. m /\ i = L + (i - L)
      <4>1. c \in Presses(r[i - L])
        BY <1>1, <2>2, <3>2
      <4>2. \A j \in (i - L + 1) .. m : c \notin Releases(r[j])
        <5>1. \A j \in (i - L + 1) .. m : j \in 1 .. m /\ L + j \in (i + 1) .. L + m
          BY <1>0, <3>2
        <5>. QED BY <1>1, <2>2, <5>1
      <4>. QED BY <2>0, <3>2, <4>1, <4>2 DEF DownAfter
    <3>. QED BY <1>2, <3>1, <3>2
  <2>. QED BY <1>3, <2>1, <2>2 DEF DownAfter
<1>4. ASSUME NEW c \in DownAfter(DownAtEnd(S, q), r, m)
      PROVE  c \in DownAfter(S, qr, L + m)
  <2>. HIDE DEF L, qr
  <2>0. c \in Keys
    BY <1>4 DEF DownAfter
  <2>1. CASE c \in DownAtEnd(S, q) /\ \A j \in 1 .. m : c \notin Releases(r[j])
    <3>1. \A j \in (L + 1) .. L + m : c \notin Releases(qr[j])
      <4>1. \A j \in (L + 1) .. L + m : j - L \in 1 .. m /\ qr[j] = r[j - L]
        BY <1>0, <1>1, <1>2
      <4>. QED BY <2>1, <4>1
    <3>2. CASE c \in S /\ \A j \in 1 .. L : c \notin Releases(q[j])
      <4>1. \A j \in 1 .. L + m : c \notin Releases(qr[j])
        <5>1. \A j \in 1 .. L + m : j \in 1 .. L \/ j \in (L + 1) .. L + m
          BY <1>0
        <5>. QED BY <1>1, <3>1, <3>2, <5>1
      <4>. QED BY <2>0, <3>2, <4>1 DEF DownAfter
    <3>3. ASSUME NEW i \in 1 .. L, c \in Presses(q[i]),
                 \A j \in (i + 1) .. L : c \notin Releases(q[j])
          PROVE  c \in DownAfter(S, qr, L + m)
      <4>1. \A j \in (i + 1) .. L + m : c \notin Releases(qr[j])
        <5>1. \A j \in (i + 1) .. L + m :
                (j \in (i + 1) .. L /\ j \in 1 .. L) \/ j \in (L + 1) .. L + m
          BY <1>0, <3>3
        <5>. QED BY <1>1, <3>1, <3>3, <5>1
      <4>2. i \in 1 .. L + m /\ c \in Presses(qr[i])
        BY <1>0, <1>1, <3>3
      <4>. QED BY <2>0, <4>1, <4>2 DEF DownAfter
    <3>. QED BY <2>1, <3>2, <3>3 DEF DownAtEnd, DownAfter, L
  <2>2. ASSUME NEW i \in 1 .. m, c \in Presses(r[i]),
               \A j \in (i + 1) .. m : c \notin Releases(r[j])
        PROVE  c \in DownAfter(S, qr, L + m)
    <3>1. \A j \in (L + i + 1) .. L + m : c \notin Releases(qr[j])
      <4>1. \A j \in (L + i + 1) .. L + m :
              j - L \in (i + 1) .. m /\ j - L \in 1 .. m /\ qr[j] = r[j - L]
        BY <1>0, <1>1, <1>2
      <4>. QED BY <2>2, <4>1
    <3>2. L + i \in 1 .. L + m /\ c \in Presses(qr[L + i])
      BY <1>0, <1>1, <2>2
    <3>. QED BY <2>0, <3>1, <3>2 DEF DownAfter
  <2>. QED BY <1>4, <2>1, <2>2 DEF DownAfter
<1>. QED BY <1>3, <1>4

(* The effect of the queue without its first action on what that one left. *)
LEMMA DownWithoutTheFirst ==
  ASSUME NEW S \in SUBSET Keys, NEW q \in Seq(Action), q # << >>, NEW n \in 0 .. Len(q) - 1,
         Presses(q[1]) \subseteq Keys
  PROVE  DownAfter(Effect(S, q[1]), Tail(q), n) = DownAfter(S, q, n + 1)
<1>. DEFINE T == Effect(S, q[1])
<1>0. n \in Nat /\ Len(q) \in Nat /\ n + 1 \in 1 .. Len(q)
  OBVIOUS
<1>1. \A j \in 1 .. n : Tail(q)[j] = q[j + 1]
  BY HeadTailProperties, <1>0
<1>2. ASSUME NEW c \in DownAfter(T, Tail(q), n)
      PROVE  c \in DownAfter(S, q, n + 1)
  <2>0. c \in Keys
    BY <1>2 DEF DownAfter
  <2>1. CASE c \in T /\ \A j \in 1 .. n : c \notin Releases(Tail(q)[j])
    <3>1. \A j \in 2 .. n + 1 : j - 1 \in 1 .. n /\ q[j] = Tail(q)[j - 1]
      BY <1>0, <1>1
    <3>2. \A j \in 2 .. n + 1 : c \notin Releases(q[j])
      BY <2>1, <3>1
    <3>3. CASE c \in Presses(q[1])
      <4>1. \A j \in (1 + 1) .. (n + 1) : c \notin Releases(q[j])
        BY <3>2
      <4>. QED BY <1>0, <2>0, <3>3, <4>1 DEF DownAfter
    <3>4. CASE c \in S /\ c \notin Releases(q[1])
      <4>1. \A j \in 1 .. n + 1 : j = 1 \/ j \in 2 .. n + 1
        BY <1>0
      <4>. QED BY <2>0, <3>2, <3>4, <4>1 DEF DownAfter
    <3>. QED BY <2>1, <3>3, <3>4 DEF Effect
  <2>2. ASSUME NEW i \in 1 .. n, c \in Presses(Tail(q)[i]),
               \A j \in (i + 1) .. n : c \notin Releases(Tail(q)[j])
        PROVE  c \in DownAfter(S, q, n + 1)
    <3>1. \A j \in (i + 1 + 1) .. n + 1 : j - 1 \in (i + 1) .. n /\ q[j] = Tail(q)[j - 1]
      BY <1>0, <1>1
    <3>2. i + 1 \in 1 .. n + 1 /\ c \in Presses(q[i + 1])
      BY <1>0, <1>1, <2>2
    <3>. QED BY <2>0, <2>2, <3>1, <3>2 DEF DownAfter
  <2>. QED BY <1>2, <2>1, <2>2 DEF DownAfter
<1>3. ASSUME NEW c \in DownAfter(S, q, n + 1)
      PROVE  c \in DownAfter(T, Tail(q), n)
  <2>0. c \in Keys
    BY <1>3 DEF DownAfter
  <2>1. \A j \in 1 .. n : j + 1 \in 1 .. n + 1 /\ Tail(q)[j] = q[j + 1]
    BY <1>0, <1>1
  <2>2. CASE c \in S /\ \A j \in 1 .. n + 1 : c \notin Releases(q[j])
    <3>1. c \in T
      BY <1>0, <2>2 DEF Effect
    <3>2. \A j \in 1 .. n : c \notin Releases(Tail(q)[j])
      BY <2>1, <2>2
    <3>. QED BY <2>0, <3>1, <3>2 DEF DownAfter
  <2>3. ASSUME NEW i \in 1 .. n + 1, c \in Presses(q[i]),
               \A j \in (i + 1) .. n + 1 : c \notin Releases(q[j])
        PROVE  c \in DownAfter(T, Tail(q), n)
    <3>1. CASE i = 1
      <4>1. \A j \in 1 .. n : j + 1 \in (i + 1) .. n + 1
        BY <1>0, <3>1
      <4>2. \A j \in 1 .. n : c \notin Releases(Tail(q)[j])
        BY <2>1, <2>3, <4>1
      <4>3. c \in T
        BY <2>3, <3>1 DEF Effect
      <4>. QED BY <2>0, <4>2, <4>3 DEF DownAfter
    <3>2. CASE i # 1
      <4>1. i - 1 \in 1 .. n /\ Tail(q)[i - 1] = q[i]
        BY <1>0, <1>1, <3>2
      <4>2. \A j \in (i - 1 + 1) .. n : j \in 1 .. n /\ j + 1 \in (i + 1) .. n + 1
        BY <1>0, <3>2
      <4>3. \A j \in (i - 1 + 1) .. n : c \notin Releases(Tail(q)[j])
        BY <2>1, <2>3, <4>2
      <4>. QED BY <2>0, <2>3, <4>1, <4>3 DEF DownAfter
    <3>. QED BY <3>1, <3>2
  <2>. QED BY <1>3, <2>2, <2>3 DEF DownAfter
<1>. QED BY <1>2, <1>3

(* What stays down while the queue is executed is down at its end, and what*)
(* is down at its end was pressed by it or has stayed.                     *)
LEMMA StaysOrPressed ==
  ASSUME NEW S, NEW T, NEW q \in Seq(Action), NEW c \in Keys
  PROVE  /\ c \in S /\ Stays(c, q) => c \in DownAtEnd(S, q)
         /\ c \in DownAtEnd(S, q) /\ (c \notin S \/ ~Stays(c, q)) => c \in DownAtEnd(T, q)
BY DEF DownAtEnd, DownAfter, Stays

(* One action, and none.                                                   *)
LEMMA DownAfterOne ==
  ASSUME NEW S \in SUBSET Keys, NEW a \in Action, Presses(a) \subseteq Keys
  PROVE  /\ <<a>> \in Seq(Action)
         /\ DownAtEnd(S, <<a>>) = Effect(S, a)
         /\ DownAfter(S, <<a>>, 0) = S
<1>1. <<a>> \in Seq(Action) /\ Len(<<a>>) = 1 /\ <<a>>[1] = a
  OBVIOUS
<1>2. DownAfter(S, <<a>>, 1) = Effect(S, a)
  <2>1. 1 .. 1 = {1} /\ (1 + 1) .. 1 = {}
    OBVIOUS
  <2>. HIDE <1>1
  <2>. QED BY <1>1, <2>1 DEF DownAfter, Effect
<1>. QED BY <1>1, <1>2, DownAtStart DEF DownAtEnd

LEMMA DownAfterNone ==
  ASSUME NEW S \in SUBSET Keys
  PROVE  << >> \in Seq(Action) /\ Len(<< >>) = 0 /\ DownAtEnd(S, << >>) = S
<1>1. << >> \in Seq(Action) /\ Len(<< >>) = 0
  OBVIOUS
<1>. QED BY <1>1, DownAtStart DEF DownAtEnd

-----------------------------------------------------------------------------
(* Codes and bits *)

(* A key has one bit or none.                                              *)
LEMMA OneBit ==
  ASSUME NEW c, NEW M, OwnBit(c) \cap M # {}
  PROVE  OwnBit(c) \subseteq M /\ OwnBit(c) # {}
BY DEF OwnBit

(* Without a HID identity there is no modifier bit.                        *)
LEMMA UnresolvedHasNoBit ==
  ASSUME NEW c, UsageOf[c] = NoUsage
  PROVE  OwnBit(c) = {}
BY EngineAssumption DEF OwnBit

(* The effect of each action on the codes that are down.                   *)
LEMMA EffectOfActions ==
  ASSUME NEW S \in SUBSET Keys
  PROVE  /\ \A c \in Keys, v \in {0, 1, 2} :
              /\ Forward(c, v) \in Action
              /\ Presses(Forward(c, v)) = IF v = 1 THEN {c} ELSE {}
              /\ Releases(Forward(c, v)) \subseteq {c}
              /\ v = 0 => Releases(Forward(c, v)) = {c}
              /\ v = 1 => Releases(Forward(c, v)) = {}
              /\ v = 2 /\ IsModifier(c) => Releases(Forward(c, v)) = {}
         /\ \A codes \in SUBSET Keys :
              /\ ForwardHeld(codes) \in Action
              /\ Presses(ForwardHeld(codes)) = codes /\ Releases(ForwardHeld(codes)) = {}
         /\ \A mask \in Mask :
              /\ ReleaseConsumed(mask) \in Action
              /\ Presses(ReleaseConsumed(mask)) = {}
              /\ Releases(ReleaseConsumed(mask)) = ModifierCodes(mask)
         /\ \A nk \in NativeKey :
              /\ Hold(nk) \in Action
              /\ Presses(Hold(nk)) = ModifierCodes(OutputHeldMask(nk)) /\ Releases(Hold(nk)) = {}
         /\ \A nk \in NativeKey, mask \in Mask :
              /\ Tap(nk, mask) \in Action
              /\ Presses(Tap(nk, mask)) = {}
              /\ Releases(Tap(nk, mask)) = Toggled(nk)
<1>1. \A c \in Keys, v \in {0, 1, 2} :
              /\ Forward(c, v) \in Action
              /\ Presses(Forward(c, v)) = IF v = 1 THEN {c} ELSE {}
              /\ Releases(Forward(c, v)) \subseteq {c}
              /\ v = 0 => Releases(Forward(c, v)) = {c}
              /\ v = 1 => Releases(Forward(c, v)) = {}
              /\ v = 2 /\ IsModifier(c) => Releases(Forward(c, v)) = {}
  BY DEF Forward, Presses, Releases, Action
<1>2. \A codes \in SUBSET Keys :
              /\ ForwardHeld(codes) \in Action
              /\ Presses(ForwardHeld(codes)) = codes /\ Releases(ForwardHeld(codes)) = {}
  BY DEF ForwardHeld, Presses, Releases, Action
<1>3. \A mask \in Mask :
              /\ ReleaseConsumed(mask) \in Action
              /\ Presses(ReleaseConsumed(mask)) = {}
              /\ Releases(ReleaseConsumed(mask)) = ModifierCodes(mask)
  BY DEF ReleaseConsumed, Presses, Releases, Action
<1>4. \A nk \in NativeKey :
              /\ Hold(nk) \in Action
              /\ Presses(Hold(nk)) = ModifierCodes(OutputHeldMask(nk)) /\ Releases(Hold(nk)) = {}
  BY DEF Hold, Presses, Releases, Action
<1>5. \A nk \in NativeKey, mask \in Mask :
              /\ Tap(nk, mask) \in Action
              /\ Presses(Tap(nk, mask)) = {}
              /\ Releases(Tap(nk, mask)) = Toggled(nk)
  BY DEF Tap, Presses, Releases, Action
<1>. QED BY <1>1, <1>2, <1>3, <1>4, <1>5

(* No action presses what is not a key.                                    *)
LEMMA PressesAreKeys ==
  ASSUME NEW a \in Action
  PROVE  Presses(a) \subseteq Keys
BY DEF Action, Presses, ModifierCodes

-----------------------------------------------------------------------------
(* What a decision's plan does to the codes that are down *)

\* The actions that the outputs of a rule become.
Planned(outputs, others) ==
  [i \in DOMAIN outputs |-> IF OutputHeldMask(outputs[i]) = {}
                            THEN Tap(outputs[i], others \cup HeldMaskOf(outputs))
                            ELSE Hold(outputs[i])]

(* emission_plan, decision by decision.                                    *)
LEMMA Plans ==
  ASSUME NEW k, NEW value, NEW others
  PROVE  /\ Plan(Pass, k, value, others) = <<Forward(k, value)>>
         /\ \A mask : Plan(Swallow(mask), k, value, others) = ReleaseFirst(mask)
         /\ Plan(ConsumedRelease, k, value, others) = << >>
         /\ \A mask, outputs : Plan(Emit(mask, outputs), k, value, others) =
                                 ReleaseFirst(mask) \o Planned(outputs, others)
BY DEF Plan, Pass, Swallow, ConsumedRelease, Emit, Planned

(* The release of a trigger's modifiers.                                   *)
LEMMA ReleaseFirstEffect ==
  ASSUME NEW S \in SUBSET Keys, NEW mask \in Mask
  PROVE  /\ ReleaseFirst(mask) \in Seq(Action)
         /\ DownAtEnd(S, ReleaseFirst(mask)) = S \ ModifierCodes(mask)
         /\ \A i \in 1 .. Len(ReleaseFirst(mask)) :
              ReleaseFirst(mask)[i] = ReleaseConsumed(mask)
<1>1. CASE mask = {}
  <2>1. ModifierCodes(mask) = {}
    BY <1>1 DEF ModifierCodes
  <2>. QED BY <1>1, <2>1, DownAfterNone DEF ReleaseFirst
<1>2. CASE mask # {}
  <2>1. ReleaseFirst(mask) = <<ReleaseConsumed(mask)>>
    BY <1>2 DEF ReleaseFirst
  <2>2. ReleaseConsumed(mask) \in Action /\ Presses(ReleaseConsumed(mask)) = {}
        /\ Releases(ReleaseConsumed(mask)) = ModifierCodes(mask)
    BY EffectOfActions
  <2>3. Effect(S, ReleaseConsumed(mask)) = S \ ModifierCodes(mask)
    BY <2>2 DEF Effect
  <2>. QED BY <2>1, <2>2, <2>3, DownAfterOne
<1>. QED BY <1>1, <1>2

(* Only a non-modifier is tapped, with what the outputs of its rule hold.  *)
LEMMA PlannedActions ==
  ASSUME NEW outputs \in Seq(NativeKey), NEW others \in Mask
  PROVE  /\ Planned(outputs, others) \in Seq(Action)
         /\ Len(Planned(outputs, others)) = Len(outputs)
         /\ \A i \in 1 .. Len(outputs) :
              LET a == Planned(outputs, others)[i]
                  nk == outputs[i]
              IN /\ nk \in NativeKey
                 /\ Presses(a) = ModifierCodes(OutputHeldMask(nk))
                 /\ OutputHeldMask(nk) \subseteq HeldMaskOf(outputs)
                 /\ a.kind = "Tap" => /\ OutputHeldMask(nk) = {} /\ a.key = nk
                                      /\ a.allowed = others \cup HeldMaskOf(outputs)
                                      /\ BitOf[nk.usage] = NoBit
                 /\ Releases(a) = IF OutputHeldMask(nk) = {} THEN Toggled(nk) ELSE {}
<1>. DEFINE L == Len(outputs)
            mask == HeldMaskOf(outputs)
            outs == Planned(outputs, others)
<1>0. L \in Nat /\ DOMAIN outputs = 1 .. L /\ mask \in Mask /\ others \cup mask \in Mask
  BY HeldMaskType DEF Mask
<1>1. ASSUME NEW i \in 1 .. L
      PROVE  LET a == outs[i]
                 nk == outputs[i]
             IN /\ nk \in NativeKey /\ a \in Action
                /\ Presses(a) = ModifierCodes(OutputHeldMask(nk))
                /\ OutputHeldMask(nk) \subseteq HeldMaskOf(outputs)
                /\ a.kind = "Tap" => /\ OutputHeldMask(nk) = {} /\ a.key = nk
                                     /\ a.allowed = others \cup HeldMaskOf(outputs)
                                     /\ BitOf[nk.usage] = NoBit
                /\ Releases(a) = IF OutputHeldMask(nk) = {} THEN Toggled(nk) ELSE {}
  <2>. DEFINE nk == outputs[i]
  <2>1. nk \in NativeKey
    BY <1>0
  <2>2. OutputHeldMask(nk) \subseteq mask
    BY <1>0 DEF HeldMaskOf
  <2>3. CASE OutputHeldMask(nk) = {}
    <3>1. outs[i] = Tap(nk, others \cup mask)
      BY <1>0, <2>3 DEF Planned
    <3>2. BitOf[nk.usage] = NoBit
      BY <2>3 DEF OutputHeldMask
    <3>3. ModifierCodes({}) = {}
      BY DEF ModifierCodes
    <3>4. Tap(nk, others \cup mask).key = nk
          /\ Tap(nk, others \cup mask).allowed = others \cup mask
      BY DEF Tap
    <3>5. /\ Tap(nk, others \cup mask) \in Action
          /\ Presses(Tap(nk, others \cup mask)) = {}
          /\ Releases(Tap(nk, others \cup mask)) = Toggled(nk)
      BY <1>0, <2>1, EffectOfActions
    <3>. QED BY <2>1, <2>2, <2>3, <3>1, <3>2, <3>3, <3>4, <3>5
  <2>4. CASE OutputHeldMask(nk) # {}
    <3>1. outs[i] = Hold(nk)
      BY <1>0, <2>4 DEF Planned
    <3>2. Hold(nk).kind # "Tap"
      BY DEF Hold
    <3>3. /\ Hold(nk) \in Action
          /\ Presses(Hold(nk)) = ModifierCodes(OutputHeldMask(nk)) /\ Releases(Hold(nk)) = {}
      BY <2>1, EffectOfActions
    <3>. QED BY <2>1, <2>2, <2>4, <3>1, <3>2, <3>3
  <2>. QED BY <2>3, <2>4
<1>2. DOMAIN outs = 1 .. L
  BY <1>0 DEF Planned
<1>3. outs = [i \in 1 .. L |-> outs[i]]
  BY <1>0 DEF Planned
<1>4. outs \in [1 .. L -> Action]
  <2>. HIDE DEF outs
  <2>. QED BY <1>1, <1>2, <1>3
<1>5. outs \in Seq(Action) /\ Len(outs) = L
  <2>. HIDE DEF outs
  <2>. QED BY <1>0, <1>4
<1>. HIDE DEF outs
<1>. QED BY <1>1, <1>5 DEF outs

(* The outputs of a rule leave down what they hold ...                     *)
LEMMA PlannedPresses ==
  ASSUME NEW S \in SUBSET Keys, NEW outputs \in Seq(NativeKey), NEW others \in Mask,
         NEW n \in 0 .. Len(outputs)
  PROVE  DownAfter(S, Planned(outputs, others), n) \subseteq S \cup ModifierCodes(HeldMaskOf(outputs))
<1>. DEFINE outs == Planned(outputs, others)
<1>1. \A i \in 1 .. n : Presses(outs[i]) \subseteq ModifierCodes(HeldMaskOf(outputs))
  <2>. TAKE i \in 1 .. n
  <2>1. i \in 1 .. Len(outputs)
    OBVIOUS
  <2>2. /\ Presses(outs[i]) = ModifierCodes(OutputHeldMask(outputs[i]))
        /\ OutputHeldMask(outputs[i]) \subseteq HeldMaskOf(outputs)
    BY <2>1, PlannedActions
  <2>. QED BY <2>2 DEF ModifierCodes
<1>. HIDE DEF outs
<1>2. \A c \in DownAfter(S, outs, n) : c \in S \/ \E i \in 1 .. n : c \in Presses(outs[i])
  BY DEF DownAfter
<1>. QED BY <1>1, <1>2 DEF outs

(* ... and take away no modifier but those of their chords.                *)
LEMMA PlannedKeeps ==
  ASSUME NEW S \in SUBSET Keys, NEW outputs \in Seq(NativeKey), NEW others \in Mask,
         NEW c \in Keys, OwnBit(c) # {},
         \A i \in 1 .. Len(outputs) :
           OutputHeldMask(outputs[i]) = {} => OwnBit(c) \cap outputs[i].modifiers = {},
         c \in S \cup ModifierCodes(HeldMaskOf(outputs))
  PROVE  c \in DownAtEnd(S, Planned(outputs, others))
<1>. DEFINE outs == Planned(outputs, others)
            L == Len(outputs)
<1>0. L \in Nat /\ DOMAIN outputs = 1 .. L /\ Len(outs) = L
  BY PlannedActions
<1>1. ASSUME NEW i \in 1 .. L
      PROVE  c \notin Releases(outs[i])
  <2>1. CASE OutputHeldMask(outputs[i]) = {}
    <3>0. BitOf[outputs[i].usage] = NoBit
      BY <2>1 DEF OutputHeldMask
    <3>1. Releases(outs[i]) = Toggled(outputs[i])
      BY <2>1, PlannedActions
    <3>2. c \notin CodesOf(outputs[i].usage)
      BY <3>0 DEF CodesOf, OwnBit
    <3>3. c \notin ModifierCodes(outputs[i].modifiers)
      BY <2>1 DEF ModifierCodes
    <3>. QED BY <3>1, <3>2, <3>3 DEF Toggled
  <2>2. CASE OutputHeldMask(outputs[i]) # {}
    BY <2>2, PlannedActions
  <2>. QED BY <2>1, <2>2
<1>2. ASSUME c \in S PROVE c \in DownAtEnd(S, outs)
  <2>. HIDE DEF outs
  <2>. QED BY <1>0, <1>1, <1>2 DEF DownAtEnd, DownAfter
<1>3. ASSUME c \in ModifierCodes(HeldMaskOf(outputs)) PROVE c \in DownAtEnd(S, outs)
  <2>1. PICK i \in 1 .. L : OwnBit(c) \cap OutputHeldMask(outputs[i]) # {}
    BY <1>0, <1>3 DEF ModifierCodes, HeldMaskOf
  <2>2. c \in Presses(outs[i])
    BY <2>1, PlannedActions DEF ModifierCodes
  <2>3. \A j \in (i + 1) .. L : j \in 1 .. L
    BY <1>0
  <2>. HIDE DEF outs
  <2>. QED BY <1>0, <1>1, <2>2, <2>3 DEF DownAtEnd, DownAfter
<1>. QED BY <1>2, <1>3

\* The taps of q happen while nothing but `most` is down.
TapsWithin(S, q, most, allowed) ==
  \A i \in 1 .. Len(q) : q[i].kind = "Tap" =>
    DownAfter(S, q, i - 1) \subseteq most /\ q[i].allowed = allowed

(* A rule's plan as a whole: what it consumes goes first.                  *)
LEMMA EmitEffect ==
  ASSUME NEW S \in SUBSET Keys, NEW rel \in Mask, NEW outputs \in Seq(NativeKey),
         NEW others \in Mask
  PROVE  LET acts == ReleaseFirst(rel) \o Planned(outputs, others)
             most == (S \ ModifierCodes(rel)) \cup ModifierCodes(HeldMaskOf(outputs))
         IN /\ acts \in Seq(Action)
            /\ DownAtEnd(S, acts) \subseteq most
            /\ TapsWithin(S, acts, most, others \cup HeldMaskOf(outputs))
            /\ \A c \in most :
                 OwnBit(c) # {} /\ ~(\E i \in 1 .. Len(outputs) :
                   OutputHeldMask(outputs[i]) = {} /\ OwnBit(c) \cap outputs[i].modifiers # {})
                   => c \in DownAtEnd(S, acts)
<1>. DEFINE first == ReleaseFirst(rel)
            outs == Planned(outputs, others)
            acts == first \o outs
            T == S \ ModifierCodes(rel)
            most == T \cup ModifierCodes(HeldMaskOf(outputs))
<1>1. first \in Seq(Action) /\ DownAtEnd(S, first) = T
      /\ \A i \in 1 .. Len(first) : first[i].kind # "Tap"
  <2>1. ReleaseConsumed(rel).kind # "Tap"
    BY DEF ReleaseConsumed
  <2>. QED BY <2>1, ReleaseFirstEffect
<1>2. outs \in Seq(Action) /\ Len(outs) = Len(outputs) /\ Len(outputs) \in Nat
  BY PlannedActions
<1>3. T \in SUBSET Keys
  OBVIOUS
<1>4. \A m \in 0 .. Len(outs) : DownAfter(T, outs, m) \subseteq most
  BY <1>2, <1>3, PlannedPresses
<1>5. \A i \in 1 .. Len(outs) : outs[i].kind = "Tap" =>
                                  outs[i].allowed = others \cup HeldMaskOf(outputs)
  BY <1>2, PlannedActions
<1>6. \A c \in most :
        OwnBit(c) # {} /\ ~(\E i \in 1 .. Len(outputs) :
          OutputHeldMask(outputs[i]) = {} /\ OwnBit(c) \cap outputs[i].modifiers # {})
          => c \in DownAtEnd(T, outs)
  <2>. TAKE c \in most
  <2>1. c \in Keys
    BY DEF ModifierCodes
  <2>. QED BY <1>3, <2>1, PlannedKeeps
<1>. HIDE DEF first, outs, T, most
<1>7. acts \in Seq(Action) /\ Len(acts) = Len(first) + Len(outs)
      /\ \A i \in 1 .. Len(first) + Len(outs) :
           acts[i] = IF i <= Len(first) THEN first[i] ELSE outs[i - Len(first)]
  <2>1. first \in Seq(Action) /\ outs \in Seq(Action)
    BY <1>1, <1>2
  <2>. QED BY <2>1, ConcatProperties, Zenon
<1>8. \A m \in 0 .. Len(outs) : DownAfter(S, acts, Len(first) + m) = DownAfter(T, outs, m)
  BY <1>1, <1>2, DownInTheRest
<1>9. DownAtEnd(S, acts) = DownAtEnd(T, outs)
  BY <1>2, <1>7, <1>8 DEF DownAtEnd
<1>10. DownAtEnd(S, acts) \subseteq most
  BY <1>2, <1>4, <1>9 DEF DownAtEnd
<1>11. ASSUME NEW i \in 1 .. Len(acts), acts[i].kind = "Tap"
       PROVE  /\ DownAfter(S, acts, i - 1) \subseteq most
              /\ acts[i].allowed = others \cup HeldMaskOf(outputs)
  <2>. DEFINE m == i - 1 - Len(first)
  <2>0. Len(first) \in Nat /\ Len(outs) \in Nat
    BY <1>1, <1>2
  <2>1. ~(i <= Len(first))
    BY <1>1, <1>7, <1>11, <2>0
  <2>2. m \in 0 .. Len(outs) /\ i - 1 = Len(first) + m /\ i - Len(first) \in 1 .. Len(outs)
    BY <1>7, <2>0, <2>1
  <2>3. acts[i] = outs[i - Len(first)]
    BY <1>7, <2>1
  <2>4. DownAfter(S, acts, i - 1) = DownAfter(T, outs, m)
    <3>. HIDE DEF m, acts
    <3>. QED BY <1>8, <2>2
  <2>. HIDE DEF m, acts
  <2>. QED BY <1>4, <1>5, <1>11, <2>2, <2>3, <2>4
<1>12. TapsWithin(S, acts, most, others \cup HeldMaskOf(outputs))
  BY <1>11 DEF TapsWithin
<1>. QED BY <1>6, <1>7, <1>9, <1>10, <1>12 DEF first, outs, T, most

-----------------------------------------------------------------------------
(* What a decision does to the codes that an engine answers for *)

DownPlan(e, k, dev, lk, value, others) ==
  Plan(DownDecision(e, k, dev, TRUE, lk), k, value, others)

UpPlan(e, k) == Plan(UpDecision(e, k), k, 0, {})

\* Every modifier that was passed is forwarded or has been consumed.
PassedMarked(e) == BitsOf(PassedKeys(e)) \subseteq e.forwarded \cup e.consumed

(* The plan of a press is a sequence of actions.                           *)
LEMMA DownPlanType ==
  ASSUME NEW e, EngineInv(e), NEW k \in Keys,
         NEW dev, NEW lk, \A t \in DOMAIN lk : lk[t] \in Seq(NativeKey),
         NEW value \in {1, 2}, NEW others \in Mask
  PROVE  DownPlan(e, k, dev, lk, value, others) \in Seq(Action)
<1>1. TriggeredRelease(e) \in Mask /\ {} \in Mask /\ {} \in SUBSET Keys
  BY DEF TriggeredRelease, EngineInv, Engine, Mask
<1>2. \A mask \in Mask : ReleaseFirst(mask) \in Seq(Action)
  BY <1>1, ReleaseFirstEffect
<1>3. \A outputs \in Seq(NativeKey) : Planned(outputs, others) \in Seq(Action)
  BY <1>1, PlannedActions
<1>4. <<Forward(k, value)>> \in Seq(Action)
  <2>1. Forward(k, value) \in Action
    BY <1>1, EffectOfActions
  <2>. QED BY <2>1
<1>5. CASE k \in e.pressed \/ ~Fires(e, k, dev, TRUE, lk)
  <2>1. DownDecision(e, k, dev, TRUE, lk) \in {Pass, Swallow({})}
    BY <1>5 DEF DownDecision
  <2>2. /\ Plan(Pass, k, value, others) = <<Forward(k, value)>>
        /\ Plan(Swallow({}), k, value, others) = ReleaseFirst({})
    BY DEF Plan, Pass, Swallow
  <2>. QED BY <1>1, <1>2, <1>4, <2>1, <2>2 DEF DownPlan
<1>6. CASE k \notin e.pressed /\ Fires(e, k, dev, TRUE, lk)
  <2>1. PICK outputs \in Seq(NativeKey) : outputs = lk[TriggerOf(e, k, dev)]
    BY <1>6 DEF Fires
  <2>2. DownDecision(e, k, dev, TRUE, lk) = Emit(TriggeredRelease(e), outputs)
    BY <1>6, <2>1 DEF DownDecision
  <2>3. Plan(Emit(TriggeredRelease(e), outputs), k, value, others) =
          ReleaseFirst(TriggeredRelease(e)) \o Planned(outputs, others)
    BY DEF Plan, Emit, Planned
  <2>4. ReleaseFirst(TriggeredRelease(e)) \o Planned(outputs, others) \in Seq(Action)
    <3>1. /\ ReleaseFirst(TriggeredRelease(e)) \in Seq(Action)
          /\ Planned(outputs, others) \in Seq(Action)
      BY <1>1, <1>2, <1>3
    <3>. QED BY <3>1
  <2>5. DownPlan(e, k, dev, lk, value, others) = Plan(Emit(TriggeredRelease(e), outputs), k, value, others)
    BY <2>2 DEF DownPlan
  <2>. QED BY <2>3, <2>4, <2>5
<1>. QED BY <1>5, <1>6

(* What a code is answered for by comes to an end with its release only.   *)
LEMMA AfterDownAnswers ==
  ASSUME NEW e, EngineInv(e), NEW k \in Keys, UsageOf[k] # NoUsage, NEW dk \in SUBSET Keys,
         NEW dev, NEW lk, \A t \in DOMAIN lk : lk[t] \in Seq(NativeKey),
         NEW value \in {1, 2}, (value = 2) <=> (k \in dk),
         NEW others \in Mask, NEW S \in SUBSET Keys
  PROVE  /\ DownPlan(e, k, dev, lk, value, others) \in Seq(Action)
         /\ \A c \in DownAtEnd(S, DownPlan(e, k, dev, lk, value, others)) :
              \/ c \in Accounted(AfterDown(e, k, dev, TRUE, lk), dk \cup {k})
              \/ c \in S /\ c \notin Accounted(e, dk)
              \/ c = k /\ k \in e.pressed \ dk
<1>. DEFINE f == AfterDown(e, k, dev, TRUE, lk)
            acts == DownPlan(e, k, dev, lk, value, others)
<1>0. Forward(k, value) \in Action /\ Presses(Forward(k, value)) \subseteq {k}
      /\ (value = 2 => Presses(Forward(k, value)) = {})
  BY EffectOfActions
<1>1. CASE k \in e.pressed
  <2>1. f = e /\ DownDecision(e, k, dev, TRUE, lk) \in {Swallow({}), Pass}
    BY <1>1 DEF AfterDown, DownDecision
  <2>2. acts \in {<< >>, <<Forward(k, value)>>}
    <3>1. /\ Plan(Swallow({}), k, value, others) = ReleaseFirst({})
          /\ Plan(Pass, k, value, others) = <<Forward(k, value)>>
      BY DEF Plan, Pass, Swallow
    <3>2. ReleaseFirst({}) = << >>
      BY DEF ReleaseFirst
    <3>. QED BY <2>1, <3>1, <3>2 DEF DownPlan
  <2>3. Accounted(e, dk) \subseteq Accounted(f, dk \cup {k})
    BY <2>1 DEF Accounted
  <2>4. CASE acts = << >>
    BY <2>3, <2>4, DownAfterNone
  <2>5. CASE acts = <<Forward(k, value)>>
    <3>1. DownAtEnd(S, acts) \subseteq S \cup (IF value = 2 THEN {} ELSE {k})
      BY <1>0, <2>5, DownAfterOne DEF Effect
    <3>2. acts \in Seq(Action)
      BY <1>0, <2>5, DownAfterOne
    <3>3. value # 2 => k \in e.pressed \ dk
      BY <1>1
    <3>. HIDE DEF f, acts
    <3>4. \A c \in DownAtEnd(S, acts) : c \in S \/ (c = k /\ k \in e.pressed \ dk)
      BY <3>1, <3>3
    <3>5. /\ acts \in Seq(Action)
          /\ \A c \in DownAtEnd(S, acts) :
               \/ c \in Accounted(f, dk \cup {k})
               \/ c \in S /\ c \notin Accounted(e, dk)
               \/ c = k /\ k \in e.pressed \ dk
      BY <2>3, <3>2, <3>4
    <3>. QED BY <3>5 DEF f, acts
  <2>. QED BY <2>2, <2>4, <2>5
<1>2. CASE k \notin e.pressed /\ Fires(e, k, dev, TRUE, lk)
  <2>. DEFINE outputs == lk[TriggerOf(e, k, dev)]
              rel == TriggeredRelease(e)
  <2>1. outputs \in Seq(NativeKey) /\ rel \in Mask
    BY <1>2 DEF Fires, TriggeredRelease, EngineInv, Engine, Mask
  <2>2. f = FireTrigger(e, k, outputs)
        /\ DownDecision(e, k, dev, TRUE, lk) = Emit(rel, outputs)
    BY <1>2 DEF AfterDown, DownDecision
  <2>3. acts = ReleaseFirst(rel) \o Planned(outputs, others)
    <3>1. Plan(Emit(rel, outputs), k, value, others) = ReleaseFirst(rel) \o Planned(outputs, others)
      BY DEF Plan, Emit, Planned
    <3>. QED BY <2>2, <3>1 DEF DownPlan
  <2>. HIDE DEF outputs, rel, acts, f
  <2>4. /\ acts \in Seq(Action)
        /\ DownAtEnd(S, acts) \subseteq (S \ ModifierCodes(rel)) \cup ModifierCodes(HeldMaskOf(outputs))
    BY <2>1, <2>3, EmitEffect
  <2>5. /\ PassedKeys(f) = PassedKeys(e)
        /\ f.consumed = e.consumed \cup (e.modifierState \cap e.forwarded)
        /\ HeldMaskOf(outputs) \subseteq HeldBits(f)
        /\ HeldBits(e) \ e.modifierState \subseteq HeldBits(f)
    <3>1. /\ f.pressed = e.pressed \cup {k} /\ f.swallowed = e.swallowed \cup {k}
          /\ f.consumed = e.consumed \cup (e.modifierState \cap e.forwarded)
          /\ \A j \in Keys : f.held[j] = IF j = k
                               THEN (e.held[j] \ e.modifierState) \cup HeldMaskOf(outputs)
                               ELSE e.held[j] \ e.modifierState
      BY <2>2 DEF FireTrigger
    <3>2. PassedKeys(f) = PassedKeys(e)
      BY <1>2, <3>1 DEF PassedKeys
    <3>3. \A j \in Keys : e.held[j] \ e.modifierState \subseteq f.held[j]
      BY <3>1
    <3>4. HeldMaskOf(outputs) \subseteq f.held[k]
      BY <3>1
    <3>. QED BY <3>1, <3>2, <3>3, <3>4 DEF HeldBits
  <2>6. ASSUME NEW c \in ModifierCodes(HeldMaskOf(outputs))
        PROVE  c \in Accounted(f, dk \cup {k})
    BY <2>5 DEF ModifierCodes, Accounted
  <2>7. ASSUME NEW c \in S \ ModifierCodes(rel), c \in Accounted(e, dk)
        PROVE  c \in Accounted(f, dk \cup {k})
    <3>0. c \in Keys /\ OwnBit(c) \cap rel = {}
      BY DEF ModifierCodes
    <3>1. OwnBit(c) \cap e.modifierState \cap (e.forwarded \cup HeldBits(e)) = {}
      BY <3>0 DEF rel, TriggeredRelease
    <3>2. CASE c \in PassedKeys(e) /\ OwnBit(c) \cap e.consumed = {}
      BY <2>5, <3>0, <3>1, <3>2 DEF Accounted
    <3>3. CASE OwnBit(c) \cap HeldBits(e) # {}
      BY <2>5, <3>0, <3>1, <3>3 DEF Accounted
    <3>4. CASE c \in dk /\ UsageOf[c] = NoUsage
      BY <3>0, <3>4 DEF Accounted
    <3>. QED BY <2>7, <3>2, <3>3, <3>4 DEF Accounted
  <2>8. \A c \in DownAtEnd(S, acts) :
          c \in Accounted(f, dk \cup {k}) \/ (c \in S /\ c \notin Accounted(e, dk))
    BY <2>4, <2>6, <2>7
  <2>. QED BY <2>4, <2>8 DEF f, acts
<1>3. CASE k \notin e.pressed /\ ~Fires(e, k, dev, TRUE, lk)
  <2>1. f = PressUnmapped(e, k) /\ DownDecision(e, k, dev, TRUE, lk) = Pass
    BY <1>3 DEF AfterDown, DownDecision
  <2>2. acts = <<Forward(k, value)>>
    BY <2>1, Plans DEF DownPlan
  <2>. HIDE DEF acts, f
  <2>3. acts \in Seq(Action) /\ DownAtEnd(S, acts) \subseteq S \cup {k}
    BY <1>0, <2>2, DownAfterOne DEF Effect
  <2>4. /\ f.pressed = e.pressed \cup {k} /\ f.swallowed = e.swallowed
        /\ f.held = e.held /\ f.consumed = e.consumed \ OwnBit(k)
    BY <2>1 DEF PressUnmapped, EngineInv, Engine
  <2>5. PassedKeys(f) = PassedKeys(e) \cup {k}
    BY <1>3, <2>4 DEF PassedKeys, EngineInv, KeyMarksJustified
  <2>6. HeldBits(f) = HeldBits(e)
    BY <2>4 DEF HeldBits
  <2>7. Accounted(e, dk) \cup {k} \subseteq Accounted(f, dk \cup {k})
    BY <2>4, <2>5, <2>6 DEF Accounted
  <2>8. \A c \in DownAtEnd(S, acts) :
          c \in Accounted(f, dk \cup {k}) \/ (c \in S /\ c \notin Accounted(e, dk))
    BY <2>3, <2>7
  <2>. QED BY <2>3, <2>8 DEF f, acts
<1>. QED BY <1>1, <1>2, <1>3

(* So it is with the decision on a release.                                *)
LEMMA AfterUpAnswers ==
  ASSUME NEW e, EngineInv(e), NEW k \in Keys, UsageOf[k] # NoUsage, NEW dk \in SUBSET Keys,
         NEW S \in SUBSET Keys
  PROVE  /\ UpPlan(e, k) \in Seq(Action)
         /\ \A c \in DownAtEnd(S, UpPlan(e, k)) :
              \/ c \in Accounted(AfterUp(e, k), dk \ {k})
              \/ c \in S /\ c \notin Accounted(e, dk)
         /\ k \notin e.pressed => ~Stays(k, UpPlan(e, k))
<1>. DEFINE f == AfterUp(e, k)
            acts == UpPlan(e, k)
<1>0. /\ Forward(k, 0) \in Action /\ Presses(Forward(k, 0)) = {}
      /\ Releases(Forward(k, 0)) = {k}
  BY EffectOfActions
<1>1. ASSUME acts = <<Forward(k, 0)>>
      PROVE  acts \in Seq(Action) /\ DownAtEnd(S, acts) = S \ {k} /\ ~Stays(k, acts)
  <2>. HIDE DEF acts
  <2>1. Effect(S, Forward(k, 0)) = S \ {k}
    BY <1>0 DEF Effect
  <2>2. Len(acts) = 1 /\ acts[1] = Forward(k, 0)
    BY <1>1
  <2>. QED BY <1>0, <1>1, <2>1, <2>2, DownAfterOne DEF Stays
<1>2. CASE k \notin e.pressed
  <2>1. f = e /\ UpDecision(e, k) = Pass
    BY <1>2 DEF AfterUp, UpDecision
  <2>2. acts = <<Forward(k, 0)>>
    BY <2>1, Plans DEF UpPlan
  <2>. HIDE DEF acts, f
  <2>3. ASSUME NEW c \in Accounted(e, dk), c # k PROVE c \in Accounted(f, dk \ {k})
    BY <2>1, <2>3 DEF Accounted
  <2>. QED BY <1>1, <2>2, <2>3 DEF acts, f
<1>3. CASE k \in e.pressed /\ k \in e.swallowed
  <2>1. f = ReleaseSwallowed(e, k) /\ UpDecision(e, k) = Swallow(e.held[k])
    BY <1>3 DEF AfterUp, UpDecision
  <2>2. acts = ReleaseFirst(e.held[k]) /\ e.held[k] \in Mask
    <3>1. Plan(Swallow(e.held[k]), k, 0, {}) = ReleaseFirst(e.held[k])
      BY DEF Plan, Swallow
    <3>. QED BY <2>1, <3>1 DEF UpPlan, EngineInv, Engine
  <2>. HIDE DEF acts
  <2>3. acts \in Seq(Action) /\ DownAtEnd(S, acts) = S \ ModifierCodes(e.held[k])
    BY <2>2, ReleaseFirstEffect
  <2>4. /\ PassedKeys(f) = PassedKeys(e) /\ f.consumed = e.consumed
        /\ \A j \in Keys : f.held[j] = IF j = k THEN {} ELSE e.held[j]
    BY <1>3, <2>1 DEF ReleaseSwallowed, EngineInv, Engine, PassedKeys
  <2>. HIDE DEF f
  <2>5. HeldBits(e) \ e.held[k] \subseteq HeldBits(f)
    BY <2>4 DEF HeldBits
  <2>6. ASSUME NEW c \in Accounted(e, dk), c \notin ModifierCodes(e.held[k])
        PROVE  c \in Accounted(f, dk \ {k})
    BY <2>4, <2>5, <2>6 DEF Accounted, ModifierCodes
  <2>. QED BY <1>3, <2>3, <2>6 DEF acts, f
<1>4. CASE k \in e.pressed /\ k \notin e.swallowed
  <2>1. f = ReleaseForwarded(e, k)
    BY <1>4 DEF AfterUp
  <2>2. /\ PassedKeys(f) = PassedKeys(e) \ {k} /\ f.held = e.held
        /\ f.consumed \subseteq e.consumed
    BY <1>4, <2>1 DEF ReleaseForwarded, EngineInv, Engine, PassedKeys
  <2>3. HeldBits(f) = HeldBits(e)
    BY <2>2 DEF HeldBits
  <2>. HIDE DEF f
  <2>4. ASSUME NEW c \in Accounted(e, dk), c # k PROVE c \in Accounted(f, dk \ {k})
    BY <2>2, <2>3, <2>4 DEF Accounted
  <2>5. CASE OwnBit(k) \cap e.consumed # {}
    <3>1. acts = << >>
      BY <1>4, <2>5, Plans DEF UpDecision, UpPlan
    <3>2. k \in Accounted(e, dk) => k \in Accounted(f, dk \ {k})
      BY <2>3, <2>5 DEF Accounted
    <3>. QED BY <1>4, <2>4, <3>1, <3>2, DownAfterNone DEF f
  <2>6. CASE OwnBit(k) \cap e.consumed = {}
    <3>1. acts = <<Forward(k, 0)>>
      BY <1>4, <2>6, Plans DEF UpDecision, UpPlan
    <3>. HIDE DEF acts
    <3>. QED BY <1>1, <2>4, <3>1 DEF acts, f
  <2>. QED BY <2>5, <2>6
<1>. QED BY <1>2, <1>3, <1>4

=============================================================================
