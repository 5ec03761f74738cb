------------------------ MODULE LinuxTakeover_proofs ------------------------
(***************************************************************************)
(* The output of the Linux event loop, through takeovers, reloads and      *)
(* removals: whatever is down on the virtual keyboard or for the clients   *)
(* has somebody who will release it, or the history says that it has none. *)
(***************************************************************************)
EXTENDS LinuxTakeover, KeyEngine_proofs

-----------------------------------------------------------------------------
(* Codes and bits *)

(* A modifier bit belongs to one key of the keycode table.                 *)
LEMMA OneKeyOfABit ==
  ASSUME NEW c \in Keys, NEW k \in Keys, OwnBit(c) \cap OwnBit(k) # {}
  PROVE  c = k
<1>1. BitOf[UsageOf[c]] = BitOf[UsageOf[k]] /\ BitOf[UsageOf[c]] # NoBit
  BY DEF OwnBit
<1>2. UsageOf[c] \in Usages /\ UsageOf[k] \in Usages
  BY <1>1, EngineAssumption
<1>3. UsageOf[c] = UsageOf[k] /\ UsageOf[c] # NoUsage
  BY <1>1, <1>2, RemapAssumption, EngineAssumption DEF TablesArePaired
<1>. QED BY <1>3, RemapAssumption DEF TablesArePaired

-----------------------------------------------------------------------------
(* What a decision's plan does while nothing is down for two reasons *)

(* A code with a modifier bit that an engine answers for is one it takes   *)
(* for down.                                                               *)
LEMMA AnsweredModifier ==
  ASSUME NEW e, PassedMarked(e), NEW dk, NEW c \in Accounted(e, dk), OwnBit(c) # {}
  PROVE  OwnBit(c) \cap EmittedBits(e) # {}
<1>1. CASE c \in PassedKeys(e) /\ OwnBit(c) \cap e.consumed = {}
  BY <1>1 DEF PassedMarked, BitsOf, EmittedBits
<1>2. CASE OwnBit(c) \cap HeldBits(e) # {}
  BY <1>2 DEF EmittedBits
<1>3. CASE UsageOf[c] = NoUsage
  BY <1>3, UnresolvedHasNoBit
<1>. QED BY <1>1, <1>2, <1>3 DEF Accounted

(* Marks of passed modifiers, through every decision.                      *)
LEMMA MarkedThroughout ==
  ASSUME NEW e, EngineInv(e), PassedMarked(e), NEW k \in Keys
  PROVE  /\ \A dev, lk : PassedMarked(AfterDown(e, k, dev, TRUE, lk))
         /\ PassedMarked(AfterUp(e, k))
<1>0. e \in Engine
  BY DEF EngineInv
<1>1. ASSUME NEW dev, NEW lk PROVE PassedMarked(AfterDown(e, k, dev, TRUE, lk))
  <2>1. CASE k \in e.pressed
    BY <2>1 DEF AfterDown
  <2>2. CASE k \notin e.pressed /\ Fires(e, k, dev, TRUE, lk)
    <3>. DEFINE f == FireTrigger(e, k, lk[TriggerOf(e, k, dev)])
    <3>1. /\ PassedKeys(f) = PassedKeys(e)
          /\ f.forwarded = e.forwarded \ e.modifierState
          /\ f.consumed = e.consumed \cup (e.modifierState \cap e.forwarded)
      BY <2>2 DEF FireTrigger, PassedKeys
    <3>. HIDE DEF f
    <3>2. PassedMarked(f)
      BY <3>1 DEF PassedMarked
    <3>. QED BY <2>2, <3>2 DEF AfterDown, f
  <2>3. CASE k \notin e.pressed /\ ~Fires(e, k, dev, TRUE, lk)
    <3>. DEFINE f == PressUnmapped(e, k)
    <3>1. /\ PassedKeys(f) \subseteq PassedKeys(e) \cup {k}
          /\ f.forwarded = e.forwarded \cup OwnBit(k)
          /\ f.consumed = e.consumed \ OwnBit(k)
      BY <1>0, <2>3 DEF PressUnmapped, PassedKeys, Engine
    <3>. HIDE DEF f
    <3>2. BitsOf(PassedKeys(f)) \subseteq BitsOf(PassedKeys(e)) \cup OwnBit(k)
      BY <3>1 DEF BitsOf
    <3>3. PassedMarked(f)
      BY <3>1, <3>2 DEF PassedMarked
    <3>. QED BY <2>3, <3>3 DEF AfterDown, f
  <2>. QED BY <2>1, <2>2, <2>3
<1>2. PassedMarked(AfterUp(e, k))
  <2>1. CASE k \notin e.pressed
    BY <2>1 DEF AfterUp
  <2>2. CASE k \in e.pressed /\ k \in e.swallowed
    <3>. DEFINE f == ReleaseSwallowed(e, k)
    <3>1. PassedKeys(f) = PassedKeys(e) /\ f.forwarded = e.forwarded /\ f.consumed = e.consumed
      BY <1>0, <2>2 DEF ReleaseSwallowed, PassedKeys, Engine
    <3>. HIDE DEF f
    <3>2. PassedMarked(f)
      BY <3>1 DEF PassedMarked
    <3>. QED BY <2>2, <3>2 DEF AfterUp, f
  <2>3. CASE k \in e.pressed /\ k \notin e.swallowed
    <3>. DEFINE f == ReleaseForwarded(e, k)
    <3>1. /\ PassedKeys(f) = PassedKeys(e) \ {k}
          /\ f.pressed = e.pressed \ {k}
          /\ e.forwarded \ OwnBit(k) \subseteq f.forwarded
          /\ e.consumed \ OwnBit(k) \subseteq f.consumed
      BY <1>0, <2>3 DEF ReleaseForwarded, PassedKeys, Engine
    <3>. HIDE DEF f
    <3>2. ASSUME NEW j \in PassedKeys(e) \ {k} PROVE OwnBit(j) \cap OwnBit(k) = {}
      BY <1>0, OneKeyOfABit DEF PassedKeys, Engine
    <3>3. BitsOf(PassedKeys(f)) \cap OwnBit(k) = {}
      BY <3>1, <3>2 DEF BitsOf
    <3>4. BitsOf(PassedKeys(f)) \subseteq BitsOf(PassedKeys(e))
      BY <3>1 DEF BitsOf
    <3>5. PassedMarked(f)
      BY <3>1, <3>3, <3>4 DEF PassedMarked
    <3>. QED BY <2>3, <3>5 DEF AfterUp, f
  <2>. QED BY <2>1, <2>2, <2>3
<1>. QED BY <1>1, <1>2

(* Where the lookup state is exact a trigger takes every modifier of its   *)
(* keyboard: what the keyboard takes for down is what its rule holds.      *)
LEMMA TriggerTakesAll ==
  ASSUME NEW e, EngineInv(e), PhysicalPlusHeld(e)
  PROVE  /\ EmittedBits(e) \subseteq TriggeredRelease(e)
         /\ TriggeredRelease(e) \subseteq EmittedBits(e)
         /\ \A k \in Keys : \A outputs :
              EmittedBits(FireTrigger(e, k, outputs)) \subseteq HeldMaskOf(outputs)
<1>1. e.forwarded \subseteq e.modifierState /\ HeldBits(e) \subseteq e.modifierState
  BY DEF PhysicalPlusHeld, EngineInv, ModifierMarksJustified
<1>2. ASSUME NEW k \in Keys, NEW outputs
      PROVE  EmittedBits(FireTrigger(e, k, outputs)) \subseteq HeldMaskOf(outputs)
  <2>. DEFINE f == FireTrigger(e, k, outputs)
  <2>1. f.forwarded = {}
    BY <1>1 DEF FireTrigger
  <2>2. \A j \in Keys : f.held[j] \subseteq HeldMaskOf(outputs)
    BY <1>1 DEF FireTrigger, HeldBits
  <2>. HIDE DEF f
  <2>3. EmittedBits(f) \subseteq HeldMaskOf(outputs)
    BY <2>1, <2>2 DEF EmittedBits, HeldBits
  <2>. QED BY <2>3 DEF f
<1>. QED BY <1>1, <1>2 DEF EmittedBits, TriggeredRelease

(* What a rule's plan leaves down, in terms of its conflicts.              *)
LEMMA EmitKeeps ==
  ASSUME NEW S \in SUBSET Keys, NEW rel \in Mask, NEW outputs \in Seq(NativeKey),
         NEW others \in Mask, ~TapConflict(outputs, others),
         NEW c \in Keys, OwnBit(c) # {},
         \/ c \in ModifierCodes(HeldMaskOf(outputs))
         \/ c \in S /\ OwnBit(c) \cap rel = {} /\ OwnBit(c) \subseteq others
  PROVE  c \in DownAtEnd(S, ReleaseFirst(rel) \o Planned(outputs, others))
<1>0. DOMAIN outputs = 1 .. Len(outputs)
  OBVIOUS
<1>1. OwnBit(c) \subseteq HeldMaskOf(outputs) \cup others
  BY OneBit DEF ModifierCodes
<1>2. ~(\E i \in 1 .. Len(outputs) :
          OutputHeldMask(outputs[i]) = {} /\ OwnBit(c) \cap outputs[i].modifiers # {})
  BY <1>0, <1>1 DEF TapConflict
<1>3. c \in (S \ ModifierCodes(rel)) \cup ModifierCodes(HeldMaskOf(outputs))
  BY DEF ModifierCodes
<1>. QED BY <1>2, <1>3, EmitEffect

(* A press leaves down what its keyboard takes for down, then as before,   *)
(* and what other keyboards do.                                            *)
LEMMA AfterDownKeeps ==
  ASSUME NEW e, EngineInv(e), PhysicalPlusHeld(e), NEW k \in Keys,
         NEW dev, NEW lk, \A t \in DOMAIN lk : lk[t] \in Seq(NativeKey),
         NEW value \in {1, 2}, (value = 2) <=> (k \in e.pressed),
         NEW others \in Mask, NEW S \in SUBSET Keys,
         ~TapConflict(DownDecision(e, k, dev, TRUE, lk).outputs, others),
         NEW c \in Keys, OwnBit(c) # {},
         \/ /\ OwnBit(c) \cap EmittedBits(AfterDown(e, k, dev, TRUE, lk)) # {}
            /\ ModifierCodes(EmittedBits(e)) \subseteq S
         \/ c \in S /\ OwnBit(c) \subseteq others /\ OwnBit(c) \cap EmittedBits(e) = {}
  PROVE  c \in DownAtEnd(S, DownPlan(e, k, dev, lk, value, others))
<1>. DEFINE f == AfterDown(e, k, dev, TRUE, lk)
            acts == DownPlan(e, k, dev, lk, value, others)
            d == DownDecision(e, k, dev, TRUE, lk)
<1>0. /\ Forward(k, value) \in Action
      /\ value # 2 => Presses(Forward(k, value)) = {k}
      /\ value = 2 => Presses(Forward(k, value)) = {}
      /\ c = k => Releases(Forward(k, value)) = {}
      /\ Releases(Forward(k, value)) \subseteq {k}
  BY EffectOfActions DEF IsModifier
<1>1. ASSUME acts = <<Forward(k, value)>>, c \in S \/ (c = k /\ value # 2)
      PROVE  c \in DownAtEnd(S, acts)
  <2>1. c \in Effect(S, Forward(k, value))
    BY <1>0, <1>1 DEF Effect
  <2>2. Presses(Forward(k, value)) \subseteq Keys
    BY <1>0
  <2>. HIDE DEF acts
  <2>. QED BY <1>0, <1>1, <2>1, <2>2, DownAfterOne
<1>2. CASE k \in e.pressed
  <2>1. f = e /\ d \in {Swallow({}), Pass}
    BY <1>2 DEF AfterDown, DownDecision
  <2>2. acts \in {<< >>, <<Forward(k, value)>>}
    <3>1. /\ Plan(Swallow({}), k, value, others) = ReleaseFirst({})
          /\ Plan(Pass, k, value, others) = <<Forward(k, value)>>
      BY DEF Plan, Pass, Swallow
    <3>2. ReleaseFirst({}) = << >>
      BY DEF ReleaseFirst
    <3>. QED BY <2>1, <3>1, <3>2 DEF DownPlan
  <2>3. c \in S
    BY <2>1 DEF ModifierCodes
  <2>. HIDE DEF acts
  <2>. QED BY <1>1, <2>2, <2>3, DownAfterNone DEF acts
<1>3. CASE k \notin e.pressed /\ Fires(e, k, dev, TRUE, lk)
  <2>. DEFINE outputs == lk[TriggerOf(e, k, dev)]
              rel == TriggeredRelease(e)
  <2>1. outputs \in Seq(NativeKey) /\ rel \in Mask
    BY <1>3 DEF Fires, TriggeredRelease, EngineInv, Engine, Mask
  <2>2. f = FireTrigger(e, k, outputs) /\ d = Emit(rel, outputs) /\ d.outputs = outputs
    BY <1>3 DEF AfterDown, DownDecision, Emit
  <2>3. acts = ReleaseFirst(rel) \o Planned(outputs, others)
    <3>1. Plan(Emit(rel, outputs), k, value, others) = ReleaseFirst(rel) \o Planned(outputs, others)
      BY DEF Plan, Emit, Planned
    <3>. QED BY <2>2, <3>1 DEF DownPlan
  <2>4. ~TapConflict(outputs, others)
    BY <2>2
  <2>5. OwnBit(c) \cap EmittedBits(f) # {} => c \in ModifierCodes(HeldMaskOf(outputs))
    BY <2>2, TriggerTakesAll DEF ModifierCodes
  <2>6. OwnBit(c) \cap EmittedBits(e) = {} => OwnBit(c) \cap rel = {}
    BY TriggerTakesAll
  <2>. HIDE DEF outputs, rel, acts, f, d
  <2>7. c \in DownAtEnd(S, acts)
    BY <2>1, <2>3, <2>4, <2>5, <2>6, EmitKeeps DEF f
  <2>. QED BY <2>7 DEF acts
<1>4. CASE k \notin e.pressed /\ ~Fires(e, k, dev, TRUE, lk)
  <2>1. f = PressUnmapped(e, k) /\ d = Pass
    BY <1>4 DEF AfterDown, DownDecision
  <2>2. acts = <<Forward(k, value)>>
    <3>1. Plan(Pass, k, value, others) = <<Forward(k, value)>>
      BY DEF Plan, Pass
    <3>. QED BY <2>1, <3>1 DEF DownPlan
  <2>3. EmittedBits(f) = EmittedBits(e) \cup OwnBit(k)
    <3>1. f.forwarded = e.forwarded \cup OwnBit(k) /\ f.held = e.held
      BY <2>1 DEF PressUnmapped, EngineInv, Engine
    <3>2. HeldBits(f) = HeldBits(e)
      BY <3>1 DEF HeldBits
    <3>. HIDE DEF f
    <3>. QED BY <3>1, <3>2 DEF EmittedBits
  <2>4. c \in S \/ c = k
    BY <2>3, OneKeyOfABit DEF ModifierCodes
  <2>. HIDE DEF acts
  <2>. QED BY <1>1, <1>4, <2>2, <2>4 DEF acts
<1>. QED BY <1>2, <1>3, <1>4

\* A modifier that is down at a tap without being allowed was down before the
\* decision, and neither the engine nor others answer for it.
TapsCleanly(e, dk, acts, others) ==
  \A S \in SUBSET Keys : \A i \in 1 .. Len(acts) : acts[i].kind = "Tap" =>
    \A c \in DownAfter(S, acts, i - 1) :
      OwnBit(c) # {} /\ OwnBit(c) \cap acts[i].allowed = {}
        => c \in S /\ OwnBit(c) \cap others = {} /\ c \notin Accounted(e, dk)

(* A chord is tapped while no modifier is down but its own, those its rule *)
(* holds, those of other keyboards and those nobody answers for.           *)
LEMMA AfterDownTaps ==
  ASSUME NEW e, EngineInv(e), PhysicalPlusHeld(e), PassedMarked(e), NEW k \in Keys,
         NEW dk, NEW dev, NEW lk, \A t \in DOMAIN lk : lk[t] \in Seq(NativeKey),
         NEW value \in {1, 2}, NEW others \in Mask
  PROVE  TapsCleanly(e, dk, DownPlan(e, k, dev, lk, value, others), others)
<1>. SUFFICES ASSUME NEW S \in SUBSET Keys,
                     NEW i \in 1 .. Len(DownPlan(e, k, dev, lk, value, others)),
                     DownPlan(e, k, dev, lk, value, others)[i].kind = "Tap",
                     NEW c \in DownAfter(S, DownPlan(e, k, dev, lk, value, others), i - 1),
                     OwnBit(c) # {},
                     OwnBit(c) \cap DownPlan(e, k, dev, lk, value, others)[i].allowed = {}
              PROVE  c \in S /\ OwnBit(c) \cap others = {} /\ c \notin Accounted(e, dk)
  BY DEF TapsCleanly
<1>. DEFINE acts == DownPlan(e, k, dev, lk, value, others)
            d == DownDecision(e, k, dev, TRUE, lk)
<1>1. CASE d \in {Swallow({}), Pass}
  <2>1. acts \in {<< >>, <<Forward(k, value)>>}
    <3>1. /\ Plan(Swallow({}), k, value, others) = ReleaseFirst({})
          /\ Plan(Pass, k, value, others) = <<Forward(k, value)>>
      BY DEF Plan, Pass, Swallow
    <3>2. ReleaseFirst({}) = << >>
      BY DEF ReleaseFirst
    <3>. QED BY <1>1, <3>1, <3>2 DEF DownPlan
  <2>2. Forward(k, value).kind # "Tap"
    BY DEF Forward
  <2>. HIDE DEF acts
  <2>3. \A j \in 1 .. Len(acts) : acts[j].kind # "Tap"
    BY <2>1, <2>2
  <2>. QED BY <2>3 DEF acts
<1>2. CASE d \notin {Swallow({}), Pass}
  <2>. DEFINE outputs == lk[TriggerOf(e, k, dev)]
              rel == TriggeredRelease(e)
  <2>0. k \notin e.pressed /\ Fires(e, k, dev, TRUE, lk) /\ d = Emit(rel, outputs)
    BY <1>2 DEF DownDecision
  <2>1. outputs \in Seq(NativeKey) /\ rel \in Mask
    BY <2>0 DEF Fires, TriggeredRelease, EngineInv, Engine, Mask
  <2>3. acts = ReleaseFirst(rel) \o Planned(outputs, others)
    <3>1. Plan(Emit(rel, outputs), k, value, others) = ReleaseFirst(rel) \o Planned(outputs, others)
      BY DEF Plan, Emit, Planned
    <3>. QED BY <2>0, <3>1 DEF DownPlan
  <2>. HIDE DEF outputs, acts, d
  <2>4. /\ c \in (S \ ModifierCodes(rel)) \cup ModifierCodes(HeldMaskOf(outputs))
        /\ acts[i].allowed = others \cup HeldMaskOf(outputs)
    <3>. DEFINE most == (S \ ModifierCodes(rel)) \cup ModifierCodes(HeldMaskOf(outputs))
    <3>1. i \in 1 .. Len(acts) /\ acts[i].kind = "Tap" /\ c \in DownAfter(S, acts, i - 1)
      BY DEF acts
    <3>. HIDE DEF rel
    <3>2. DownAfter(S, acts, i - 1) \subseteq most /\ acts[i].allowed = others \cup HeldMaskOf(outputs)
      <4>1. TapsWithin(S, acts, most, others \cup HeldMaskOf(outputs))
        BY <2>1, <2>3, EmitEffect
      <4>. HIDE DEF most
      <4>. QED BY <3>1, <4>1 DEF TapsWithin
    <3>. HIDE DEF most
    <3>3. c \in most /\ acts[i].allowed = others \cup HeldMaskOf(outputs)
      BY <3>1, <3>2
    <3>. QED BY <3>3 DEF most
  <2>5. OwnBit(c) \cap others = {} /\ OwnBit(c) \cap HeldMaskOf(outputs) = {}
    <3>1. OwnBit(c) \cap acts[i].allowed = {}
      BY DEF acts
    <3>. QED BY <2>4, <3>1
  <2>6. c \in S \ ModifierCodes(rel)
    BY <2>4, <2>5 DEF ModifierCodes
  <2>7. OwnBit(c) \cap EmittedBits(e) = {}
    BY <2>6, TriggerTakesAll DEF ModifierCodes
  <2>. QED BY <2>5, <2>6, <2>7, AnsweredModifier
<1>. QED BY <1>1, <1>2

(* A release leaves down what its keyboard takes for down afterwards, and  *)
(* what other keyboards do; it taps nothing.                               *)
LEMMA AfterUpKeeps ==
  ASSUME NEW e, EngineInv(e), ~Overlap(e), NEW k \in Keys, k \in e.pressed,
         NEW S \in SUBSET Keys, NEW c \in Keys, OwnBit(c) # {}, c \in S,
         \/ OwnBit(c) \cap EmittedBits(AfterUp(e, k)) # {}
         \/ OwnBit(c) \cap Sources(e, k) = {}
  PROVE  c \in DownAtEnd(S, UpPlan(e, k))
<1>. DEFINE f == AfterUp(e, k)
<1>1. CASE k \in e.swallowed
  <2>1. f = ReleaseSwallowed(e, k) /\ UpDecision(e, k) = Swallow(e.held[k])
    BY <1>1 DEF AfterUp, UpDecision
  <2>2. UpPlan(e, k) = ReleaseFirst(e.held[k]) /\ e.held[k] \in Mask
    <3>1. Plan(Swallow(e.held[k]), k, 0, {}) = ReleaseFirst(e.held[k])
      BY DEF Plan, Swallow
    <3>. QED BY <2>1, <3>1 DEF UpPlan, EngineInv, Engine
  <2>3. f.forwarded = e.forwarded /\ \A j \in Keys : f.held[j] = IF j = k THEN {} ELSE e.held[j]
    BY <2>1 DEF ReleaseSwallowed, EngineInv, Engine
  <2>. HIDE DEF f
  <2>4. EmittedBits(f) \subseteq RestBits(e, k)
    <3>1. k \notin PassedKeys(e)
      BY <1>1 DEF PassedKeys
    <3>2. PassedKeys(e) \ {k} = PassedKeys(e)
      BY <3>1
    <3>3. e.forwarded \subseteq BitsOf(PassedKeys(e) \ {k})
      BY <3>2 DEF EngineInv, ModifierMarksJustified
    <3>. QED BY <2>3, <3>3 DEF EmittedBits, RestBits, HeldBits
  <2>5. OwnBit(c) \cap e.held[k] = {}
    <3>1. Sources(e, k) \cap RestBits(e, k) = {}
      BY SourcesApart
    <3>2. ASSUME OwnBit(c) \cap EmittedBits(f) # {} PROVE OwnBit(c) \subseteq RestBits(e, k)
      BY <2>4, <3>2, OneBit
    <3>. QED BY <3>1, <3>2 DEF Sources, f
  <2>6. c \notin ModifierCodes(e.held[k])
    BY <2>5 DEF ModifierCodes
  <2>. QED BY <2>2, <2>6, ReleaseFirstEffect
<1>2. CASE k \notin e.swallowed /\ OwnBit(k) \cap e.consumed # {}
  <2>1. UpPlan(e, k) = << >>
    BY <1>2, Plans DEF UpDecision, UpPlan
  <2>. QED BY <2>1, DownAfterNone
<1>3. CASE k \notin e.swallowed /\ OwnBit(k) \cap e.consumed = {}
  <2>1. UpPlan(e, k) = <<Forward(k, 0)>>
    BY <1>3, Plans DEF UpDecision, UpPlan
  <2>2. f = ReleaseForwarded(e, k)
    BY <1>3 DEF AfterUp
  <2>3. f.forwarded = e.forwarded \ OwnBit(k) /\ f.held = e.held
    BY <1>3, <2>2 DEF ReleaseForwarded, EngineInv, Engine
  <2>4. c # k
    <3>1. CASE OwnBit(c) \cap Sources(e, k) = {}
      BY <3>1 DEF Sources
    <3>2. CASE OwnBit(c) \cap EmittedBits(f) # {}
      <4>. HIDE DEF f
      <4>1. SUFFICES ASSUME c = k PROVE FALSE
        OBVIOUS
      <4>2. OwnBit(k) \cap HeldBits(e) # {}
        BY <2>3, <3>2, <4>1 DEF EmittedBits, HeldBits
      <4>3. e.held[k] = {}
        BY <1>3 DEF EngineInv, KeyMarksJustified
      <4>4. HeldBits(e) \subseteq RestBits(e, k)
        BY <4>3 DEF HeldBits, RestBits
      <4>. QED BY <4>2, <4>4, SourcesApart DEF Sources
    <3>. QED BY <3>1, <3>2
  <2>5. c \in Effect(S, Forward(k, 0)) /\ Forward(k, 0) \in Action
        /\ Presses(Forward(k, 0)) \subseteq Keys
    BY <2>4, EffectOfActions DEF Effect
  <2>. QED BY <2>1, <2>5, DownAfterOne
<1>. QED BY <1>1, <1>2, <1>3

LEMMA UpTapsNothing ==
  ASSUME NEW e, NEW k \in Keys, UpPlan(e, k) \in Seq(Action),
         NEW i \in 1 .. Len(UpPlan(e, k))
  PROVE  UpPlan(e, k)[i].kind # "Tap"
<1>1. UpDecision(e, k) \in {Pass, ConsumedRelease, Swallow(e.held[k])}
  BY DEF UpDecision
<1>2. UpPlan(e, k) \in {<<Forward(k, 0)>>, << >>, ReleaseFirst(e.held[k])}
  BY <1>1 DEF UpPlan, Plan, Pass, ConsumedRelease, Swallow
<1>3. \A m : ReleaseFirst(m) \in {<< >>, <<ReleaseConsumed(m)>>}
  BY DEF ReleaseFirst
<1>4. \A m : ReleaseConsumed(m).kind # "Tap"
  BY DEF ReleaseConsumed
<1>5. Forward(k, 0).kind # "Tap"
  BY DEF Forward
<1>. QED BY <1>2, <1>3, <1>4, <1>5

-----------------------------------------------------------------------------
(* The engine of a keyboard that is taken over *)

\* What holds of every engine, at all times.
EngineSound(e) ==
  /\ EngineInv(e)
  /\ PassedMarked(e)
  /\ \A k \in e.pressed : UsageOf[k] # NoUsage

(* The bits of a set of keys, without one of them.                         *)
LEMMA BitsWithout ==
  ASSUME NEW S \in SUBSET Keys, NEW k \in S
  PROVE  BitsOf(S \ {k}) = BitsOf(S) \ OwnBit(k)
<1>1. \A j \in S \ {k} : OwnBit(j) \cap OwnBit(k) = {}
  BY OneKeyOfABit
<1>. QED BY <1>1 DEF BitsOf

\* No key holds an output.
NoHold == [k \in Keys |-> {}]

(* note_held_keys leaves an engine whose marks are all justified, that has *)
(* fired no rule and holds no output.                                      *)
LEMMA NotedEngine ==
  ASSUME NEW keys \in SUBSET Keys, NEW e, e = NoteHeldKeys(keys)
  PROVE  /\ EngineSound(e)
         /\ PhysicalPlusHeld(e)
         /\ e.pressed = {k \in keys : UsageOf[k] # NoUsage}
         /\ e.stale = {k \in keys : ~IsModifier(k)}
         /\ e.swallowed = {} /\ e.consumed = {} /\ HeldBits(e) = {}
         /\ e.held = NoHold
         /\ e.forwarded = BitsOf(e.pressed) /\ e.modifierState = BitsOf(e.pressed)
         /\ e.pressed \cup e.stale = keys
<1>1. /\ e.pressed = {k \in keys : UsageOf[k] # NoUsage}
      /\ e.stale = {k \in keys : ~IsModifier(k)}
      /\ e.swallowed = {} /\ e.consumed = {}
      /\ e.held = NoHold
      /\ e.forwarded = BitsOf(e.pressed) /\ e.modifierState = BitsOf(e.pressed)
  BY DEF NoteHeldKeys, FreshEngine, NoHold
<1>2. e \in Engine
  <2>. DEFINE resolved == {k \in keys : UsageOf[k] # NoUsage}
  <2>1. BitsOf(resolved) \in Mask /\ resolved \in SUBSET Keys
    BY OwnBitType DEF BitsOf, Mask
  <2>2. {k \in keys : ~IsModifier(k)} \in SUBSET Keys
    OBVIOUS
  <2>3. e = [FreshEngine EXCEPT !.pressed = resolved, !.modifierState = BitsOf(resolved),
                                !.forwarded = BitsOf(resolved),
                                !.stale = {k \in keys : ~IsModifier(k)}]
    BY DEF NoteHeldKeys
  <2>4. FreshEngine \in Engine
    BY FreshEngineInv DEF EngineInv
  <2>. HIDE DEF resolved
  <2>. QED BY <2>1, <2>2, <2>3, <2>4 DEF Engine
<1>3. PassedKeys(e) = e.pressed /\ HeldBits(e) = {}
  BY <1>1 DEF PassedKeys, HeldBits, NoHold
<1>4. e.pressed \cup e.stale = keys
  <2>1. \A k \in keys : UsageOf[k] = NoUsage => ~IsModifier(k)
    BY UnresolvedHasNoBit DEF IsModifier
  <2>. QED BY <1>1, <2>1
<1>5. KeyMarksJustified(e)
  BY <1>1, <1>3 DEF KeyMarksJustified, IsModifier, NoHold
<1>6. ModifierMarksJustified(e) /\ LookupBitsJustified(e) /\ PassedMarked(e) /\ PhysicalPlusHeld(e)
  BY <1>1, <1>3 DEF ModifierMarksJustified, LookupBitsJustified, PassedMarked, PhysicalPlusHeld
<1>7. \A k \in e.pressed : UsageOf[k] # NoUsage
  BY <1>1
<1>. QED BY <1>1, <1>2, <1>3, <1>4, <1>5, <1>6, <1>7 DEF EngineSound, EngineInv

(* Two engines that agree on every field are the same.                     *)
LEMMA SameEngine ==
  ASSUME NEW e \in Engine, NEW f \in Engine,
         e.pressed = f.pressed, e.swallowed = f.swallowed, e.held = f.held,
         e.forwarded = f.forwarded, e.consumed = f.consumed, e.stale = f.stale,
         e.modifierState = f.modifierState
  PROVE  e = f
BY DEF Engine

(* With nothing to note the engine stays as it was made.                   *)
LEMMA NothingNoted == NoteHeldKeys({}) = FreshEngine
<1>. DEFINE e == NoteHeldKeys({})
            f == FreshEngine
<1>1. e \in Engine /\ f \in Engine
  BY NotedEngine, FreshEngineInv DEF EngineSound, EngineInv
<1>2. e.pressed = {} /\ e.stale = {}
  BY NotedEngine
<1>3. BitsOf({}) = {}
  BY DEF BitsOf
<1>4. /\ e.held = NoHold /\ e.swallowed = {} /\ e.consumed = {}
      /\ e.forwarded = BitsOf(e.pressed) /\ e.modifierState = BitsOf(e.pressed)
  BY NotedEngine
<1>5. /\ f.held = NoHold /\ f.swallowed = {} /\ f.consumed = {}
      /\ f.forwarded = {} /\ f.modifierState = {} /\ f.pressed = {} /\ f.stale = {}
  BY DEF FreshEngine, NoHold
<1>. HIDE DEF e, f
<1>6. e.forwarded = {} /\ e.modifierState = {}
  BY <1>2, <1>3, <1>4
<1>7. e = f
  BY <1>1, <1>2, <1>4, <1>5, <1>6, SameEngine
<1>. QED BY <1>7 DEF e, f

(* unnote_natively_released leaves the engine as if the key had never been *)
(* noted.                                                                  *)
LEMMA UnnotedEngine ==
  ASSUME NEW keys \in SUBSET Keys, NEW k \in keys,
         NEW f, f = IF UsageOf[k] = NoUsage THEN ClearStaleKey(NoteHeldKeys(keys), k)
                    ELSE UnnoteHeldKey(NoteHeldKeys(keys), k)
  PROVE  f = NoteHeldKeys(keys \ {k})
<1>. DEFINE e == NoteHeldKeys(keys)
            g == NoteHeldKeys(keys \ {k})
<1>0. e \in Engine /\ g \in Engine /\ OwnBit(k) \in Mask
  BY NotedEngine, OwnBitType DEF EngineSound, EngineInv
<1>1. /\ e.pressed = {j \in keys : UsageOf[j] # NoUsage}
      /\ e.stale = {j \in keys : ~IsModifier(j)}
      /\ e.swallowed = {} /\ e.consumed = {} /\ e.held = NoHold
      /\ e.forwarded = BitsOf(e.pressed) /\ e.modifierState = BitsOf(e.pressed)
  BY NotedEngine
<1>2. /\ g.pressed = {j \in keys \ {k} : UsageOf[j] # NoUsage}
      /\ g.stale = {j \in keys \ {k} : ~IsModifier(j)}
      /\ g.swallowed = {} /\ g.consumed = {} /\ g.held = NoHold
      /\ g.forwarded = BitsOf(g.pressed) /\ g.modifierState = BitsOf(g.pressed)
  BY NotedEngine
<1>3. g.stale = e.stale \ {k} /\ g.pressed = e.pressed \ {k}
  BY <1>1, <1>2
<1>. HIDE DEF e, g
<1>4. CASE UsageOf[k] = NoUsage
  <2>1. f = [e EXCEPT !.stale = @ \ {k}]
    BY <1>4 DEF ClearStaleKey, e
  <2>2. g.pressed = e.pressed
    BY <1>1, <1>3, <1>4
  <2>3. f \in Engine /\ f.stale = e.stale \ {k} /\ f.pressed = e.pressed /\ f.held = e.held
        /\ f.swallowed = e.swallowed /\ f.consumed = e.consumed
        /\ f.forwarded = e.forwarded /\ f.modifierState = e.modifierState
    BY <1>0, <2>1 DEF Engine
  <2>4. /\ f.pressed = g.pressed /\ f.stale = g.stale /\ f.held = g.held
        /\ f.swallowed = g.swallowed /\ f.consumed = g.consumed
        /\ f.forwarded = g.forwarded /\ f.modifierState = g.modifierState
    BY <1>1, <1>2, <1>3, <2>2, <2>3
  <2>5. f = g
    BY <1>0, <2>3, <2>4, SameEngine
  <2>. QED BY <2>5 DEF g
<1>5. CASE UsageOf[k] # NoUsage
  <2>1. f = UnnoteHeldKey(e, k)
    BY <1>5 DEF e
  <2>2. f \in Engine
    BY <1>1, <1>5, <2>1, UnnoteHeldInv, NotedEngine DEF EngineSound, EngineInv, e
  <2>3. /\ f.pressed = e.pressed \ {k} /\ f.held = e.held
        /\ f.swallowed = e.swallowed /\ f.consumed = e.consumed
        /\ f.forwarded = e.forwarded \ OwnBit(k) /\ f.modifierState = e.modifierState \ OwnBit(k)
        /\ f.stale = IF OwnBit(k) = {} THEN e.stale \ {k} ELSE e.stale
    BY <1>0, <2>1 DEF UnnoteHeldKey, Engine
  <2>4. k \in e.pressed /\ e.pressed \in SUBSET Keys
    BY <1>1, <1>5
  <2>5. BitsOf(e.pressed \ {k}) = BitsOf(e.pressed) \ OwnBit(k)
    BY <2>4, BitsWithout
  <2>6. f.stale = e.stale \ {k}
    BY <1>1, <2>3 DEF IsModifier
  <2>7. f.forwarded = BitsOf(g.pressed)
    BY <1>1, <1>3, <2>3, <2>5
  <2>8. f.modifierState = BitsOf(g.pressed)
    BY <1>1, <1>3, <2>3, <2>5
  <2>9. /\ f.pressed = g.pressed /\ f.stale = g.stale /\ f.held = g.held
        /\ f.swallowed = g.swallowed /\ f.consumed = g.consumed
        /\ f.forwarded = g.forwarded /\ f.modifierState = g.modifierState
    BY <1>1, <1>2, <1>3, <2>3, <2>6, <2>7, <2>8
  <2>10. f = g
    BY <1>0, <2>2, <2>9, SameEngine
  <2>. QED BY <2>10 DEF g
<1>. QED BY <1>4, <1>5

-----------------------------------------------------------------------------
(* The ring of a keyboard that is taken over *)

KeyEvents(keys) == [key : keys, down : BOOLEAN]

(* Without events nothing has changed.                                     *)
LEMMA DownBeforeNothing ==
  ASSUME NEW keys
  PROVE  DownBefore(keys, << >>) = keys
BY DEF DownBefore

\* A change of the key k is appended to the events.
Changed(keys, events, k, keys2, events2) ==
  /\ keys2 = IF k \in keys THEN keys \ {k} ELSE keys \cup {k}
  /\ events2 = Append(events, [key |-> k, down |-> k \notin keys])

(* What is down before the events that a change is appended to does not    *)
(* depend on the change.                                                   *)
LEMMA DownBeforeAChange ==
  ASSUME NEW keys, NEW events \in Seq(KeyEvents(Keys)), NEW k \in Keys,
         NEW keys2, NEW events2, Changed(keys, events, k, keys2, events2)
  PROVE  DownBefore(keys2, events2) = DownBefore(keys, events)
<1>. USE DEF Changed
<1>. DEFINE n == Len(events)
            named(c, es, m) == \E i \in 1 .. m : es[i].key = c
<1>0. /\ n \in Nat /\ Len(events2) = n + 1 /\ DOMAIN events2 = 1 .. n + 1
      /\ DOMAIN events = 1 .. n
  OBVIOUS
<1>1. \A i \in 1 .. n : events2[i] = events[i]
  OBVIOUS
<1>2. events2[n + 1].key = k /\ (events2[n + 1].down <=> k \notin keys)
  <2>1. events2[n + 1] = [key |-> k, down |-> k \notin keys]
    OBVIOUS
  <2>2. [key |-> k, down |-> k \notin keys].key = k
        /\ ([key |-> k, down |-> k \notin keys].down <=> k \notin keys)
    BY Zenon
  <2>. QED BY <2>1, <2>2, Zenon
<1>3. ASSUME NEW c
      PROVE  c \in DownBefore(keys2, events2) <=> c \in DownBefore(keys, events)
  <2>1. c \in DownBefore(keys, events) <=>
          \/ c \in keys /\ ~named(c, events, n)
          \/ \E i \in 1 .. n : events[i].key = c /\ ~events[i].down /\ ~named(c, events, i - 1)
    BY <1>0 DEF DownBefore
  <2>2. c \in DownBefore(keys2, events2) <=>
          \/ c \in keys2 /\ ~named(c, events2, n + 1)
          \/ \E i \in 1 .. n + 1 : /\ events2[i].key = c /\ ~events2[i].down
                                   /\ ~named(c, events2, i - 1)
    <3>. HIDE DEF n
    <3>. QED BY <1>0 DEF DownBefore
  <2>. HIDE DEF n
  <2>3. \A i \in 1 .. n + 1 : named(c, events2, i - 1) <=> named(c, events, i - 1)
    BY <1>0, <1>1
  <2>4. named(c, events2, n + 1) <=> named(c, events, n) \/ c = k
    BY <1>0, <1>1, <1>2
  <2>5. n + 1 - 1 = n /\ n + 1 \in 1 .. n + 1 /\ \A i \in 1 .. n : i \in 1 .. n + 1
    BY <1>0
  <2>6. \A i \in 1 .. n + 1 : i \in 1 .. n \/ i = n + 1
    BY <1>0
  <2>7. \A i \in 1 .. n : named(c, events2, i - 1) <=> named(c, events, i - 1)
    BY <2>3, <2>5
  <2>8. named(c, events2, n) <=> named(c, events, n)
    BY <1>0, <1>1
  <2>. HIDE DEF named
  <2>9. ASSUME NEW i \in 1 .. n + 1, events2[i].key = c, ~events2[i].down,
               ~named(c, events2, i - 1)
        PROVE  c \in DownBefore(keys, events)
    <3>1. CASE i \in 1 .. n
      BY <1>1, <2>1, <2>7, <2>9, <3>1
    <3>2. CASE i = n + 1
      <4>1. i - 1 = n
        BY <1>0, <3>2
      <4>2. c = k /\ k \in keys /\ ~named(c, events, n)
        BY <1>2, <2>8, <2>9, <3>2, <4>1
      <4>. QED BY <2>1, <4>2
    <3>. QED BY <2>6, <3>1, <3>2
  <2>10. ASSUME NEW i \in 1 .. n, events[i].key = c, ~events[i].down, ~named(c, events, i - 1)
         PROVE  c \in DownBefore(keys2, events2)
    BY <1>1, <2>2, <2>5, <2>7, <2>10
  <2>11. ASSUME c = k, k \in keys, ~named(c, events, n)
         PROVE  c \in DownBefore(keys2, events2)
    <3>. DEFINE i == n + 1
    <3>1. i - 1 = n /\ i \in 1 .. n + 1 /\ events2[i].key = c /\ ~events2[i].down
      BY <1>0, <1>2, <2>11
    <3>2. ~named(c, events2, i - 1)
      BY <2>8, <2>11, <3>1
    <3>. HIDE DEF i
    <3>. QED BY <2>2, <3>1, <3>2
  <2>. QED BY <2>1, <2>2, <2>4, <2>9, <2>10, <2>11
<1>. QED BY <1>3

(* What the first event tells, and what it leaves to the others.           *)
LEMMA DownBeforeTheFirst ==
  ASSUME NEW keys, NEW events \in Seq(KeyEvents(Keys)), events # << >>, NEW c
  PROVE  /\ c # Head(events).key =>
              (c \in DownBefore(keys, Tail(events)) <=> c \in DownBefore(keys, events))
         /\ c = Head(events).key =>
              (c \in DownBefore(keys, events) <=> ~Head(events).down)
<1>. DEFINE n == Len(events)
            rest == Tail(events)
            named(es, m) == \E i \in 1 .. m : es[i].key = c
<1>0. /\ n \in Nat /\ n >= 1 /\ DOMAIN events = 1 .. n
      /\ Len(rest) = n - 1 /\ DOMAIN rest = 1 .. n - 1 /\ n - 1 \in Nat
      /\ Head(events) = events[1]
  OBVIOUS
<1>1. \A i \in 1 .. n - 1 : rest[i] = events[i + 1]
  OBVIOUS
<1>2. c \in DownBefore(keys, events) <=>
        \/ c \in keys /\ ~named(events, n)
        \/ \E i \in 1 .. n : events[i].key = c /\ ~events[i].down /\ ~named(events, i - 1)
  BY <1>0 DEF DownBefore
<1>3. c \in DownBefore(keys, rest) <=>
        \/ c \in keys /\ ~named(rest, n - 1)
        \/ \E i \in 1 .. n - 1 : rest[i].key = c /\ ~rest[i].down /\ ~named(rest, i - 1)
  <2>. HIDE DEF n, rest
  <2>. QED BY <1>0 DEF DownBefore
<1>. HIDE DEF n, rest
<1>4. ASSUME c # events[1].key
      PROVE  c \in DownBefore(keys, rest) <=> c \in DownBefore(keys, events)
  <2>1. \A m \in 0 .. n - 1 : named(events, m + 1) <=> named(rest, m)
    <3>1. \A i \in 1 .. n : i = 1 \/ (i - 1 \in 1 .. n - 1 /\ events[i] = rest[i - 1])
      BY <1>0, <1>1
    <3>. TAKE m \in 0 .. n - 1
    <3>2. ASSUME NEW i \in 1 .. m + 1, events[i].key = c PROVE named(rest, m)
      <4>1. i # 1 /\ i \in 1 .. n /\ i - 1 \in 1 .. m
        BY <1>0, <1>4, <3>2
      <4>. QED BY <3>1, <3>2, <4>1
    <3>3. ASSUME NEW i \in 1 .. m, rest[i].key = c PROVE named(events, m + 1)
      <4>1. i + 1 \in 1 .. m + 1 /\ i \in 1 .. n - 1
        BY <1>0
      <4>. QED BY <1>1, <3>3, <4>1
    <3>. QED BY <3>2, <3>3
  <2>2. named(events, n) <=> named(rest, n - 1)
    <3>1. n - 1 \in 0 .. n - 1 /\ (n - 1) + 1 = n
      BY <1>0
    <3>. HIDE DEF named
    <3>. QED BY <2>1, <3>1
  <2>3. ASSUME NEW i \in 1 .. n, events[i].key = c, ~events[i].down, ~named(events, i - 1)
        PROVE  c \in DownBefore(keys, rest)
    <3>. DEFINE j == i - 1
    <3>1. i # 1
      BY <1>4, <2>3
    <3>2. j \in 1 .. n - 1 /\ rest[j] = events[i] /\ j - 1 \in 0 .. n - 1 /\ (j - 1) + 1 = i - 1
      BY <1>0, <1>1, <3>1
    <3>. HIDE DEF j, named
    <3>3. ~named(rest, j - 1)
      BY <2>1, <2>3, <3>2
    <3>. QED BY <1>3, <2>3, <3>2, <3>3
  <2>4. ASSUME NEW i \in 1 .. n - 1, rest[i].key = c, ~rest[i].down, ~named(rest, i - 1)
        PROVE  c \in DownBefore(keys, events)
    <3>. DEFINE j == i + 1
    <3>1. j \in 1 .. n /\ rest[i] = events[j] /\ i - 1 \in 0 .. n - 1 /\ (i - 1) + 1 = j - 1
      BY <1>0, <1>1
    <3>. HIDE DEF j, named
    <3>2. ~named(events, j - 1)
      BY <2>1, <2>4, <3>1
    <3>. QED BY <1>2, <2>4, <3>1, <3>2
  <2>. HIDE DEF named
  <2>. QED BY <1>2, <1>3, <2>2, <2>3, <2>4
<1>5. ASSUME c = events[1].key
      PROVE  c \in DownBefore(keys, events) <=> ~events[1].down
  <2>1. \A m \in 1 .. n : named(events, m)
    BY <1>5
  <2>2. n \in 1 .. n /\ 1 \in 1 .. n /\ \A i \in 1 .. n : i = 1 \/ i - 1 \in 1 .. n
    BY <1>0
  <2>3. ~named(events, 1 - 1)
    BY <1>0
  <2>. HIDE DEF named
  <2>. QED BY <1>2, <1>5, <2>1, <2>2, <2>3
<1>. QED BY <1>0, <1>4, <1>5 DEF rest

(* Only keys that are down, or that an event names, can have been down.    *)
LEMMA DownBeforeNamed ==
  ASSUME NEW keys, NEW events \in Seq(KeyEvents(Keys)), NEW c
  PROVE  /\ c \in DownBefore(keys, events) =>
              c \in keys \/ \E i \in 1 .. Len(events) : events[i].key = c
         /\ c \in keys => c \in DownBefore(keys, events)
                          \/ \E i \in 1 .. Len(events) : events[i].key = c
<1>1. DOMAIN events = 1 .. Len(events)
  OBVIOUS
<1>. QED BY <1>1 DEF DownBefore

-----------------------------------------------------------------------------
(* One decision: an engine e with the keys dk down becomes f with dk2 down,*)
(* and acts are queued                                                     *)

\* The bits that the keys which are down stand for.
Stands(e) == UNION {Sources(e, k) : k \in e.pressed}

DecidesWell(e, dk, f, dk2, acts) ==
  /\ acts \in Seq(Action)
  /\ EngineSound(f)
  /\ f.swallowed \subseteq dk2
  /\ f.pressed \ dk2 \subseteq e.pressed \ dk
  /\ \A S \in SUBSET Keys : \A c \in DownAtEnd(S, acts) :
       \/ c \in Accounted(f, dk2)
       \/ c \in S /\ c \notin Accounted(e, dk)
       \/ c \in e.pressed \ dk

DecidesCleanly(e, dk, f, dk2, acts, others) ==
  /\ PhysicalPlusHeld(f)
  /\ f.pressed = {k \in dk2 : UsageOf[k] # NoUsage}
  /\ \A S \in SUBSET Keys : ModifierCodes(EmittedBits(e)) \subseteq S =>
       ModifierCodes(EmittedBits(f)) \subseteq DownAtEnd(S, acts)
  /\ \A S \in SUBSET Keys : \A c \in S :
       OwnBit(c) # {} /\ OwnBit(c) \subseteq others /\ OwnBit(c) \cap Stands(e) = {}
         => c \in DownAtEnd(S, acts)
  /\ TapsCleanly(e, dk, acts, others)

(* What an engine takes for down, a key that is down stands for.           *)
LEMMA EmittedIsStanding ==
  ASSUME NEW e, EngineInv(e)
  PROVE  EmittedBits(e) \subseteq Stands(e)
<1>1. e.forwarded \subseteq Stands(e)
  <2>1. e.forwarded \subseteq BitsOf(PassedKeys(e))
    BY DEF EngineInv, ModifierMarksJustified
  <2>. QED BY <2>1 DEF BitsOf, PassedKeys, Stands, Sources
<1>2. HeldBits(e) \subseteq Stands(e)
  <2>1. \A k \in Keys : e.held[k] # {} => k \in e.pressed
    BY DEF EngineInv, KeyMarksJustified
  <2>. QED BY <2>1 DEF HeldBits, Stands, Sources
<1>. QED BY <1>1, <1>2 DEF EmittedBits

(* A forwarded modifier is one that the engine will release.               *)
LEMMA ForwardedIsAnswered ==
  ASSUME NEW e, EngineInv(e), NEW c \in Keys, OwnBit(c) \cap e.forwarded # {}, NEW dk
  PROVE  c \in Accounted(e, dk)
<1>1. e.forwarded \subseteq BitsOf(PassedKeys(e)) /\ e.forwarded \cap e.consumed = {}
  BY DEF EngineInv, ModifierMarksJustified
<1>2. PICK j \in PassedKeys(e) : OwnBit(c) \cap OwnBit(j) # {}
  BY <1>1 DEF BitsOf
<1>3. j \in Keys
  BY DEF PassedKeys, EngineInv, Engine
<1>4. c = j
  BY <1>2, <1>3, OneKeyOfABit
<1>5. OwnBit(c) \cap e.consumed = {}
  BY <1>1, OneBit
<1>. QED BY <1>4, <1>5 DEF Accounted

(* Nothing is left of an engine with no key down.                          *)
LEMMA NothingEmitted ==
  ASSUME NEW e, EngineInv(e), e.pressed = {}
  PROVE  EmittedBits(e) = {}
<1>1. Stands(e) = {}
  BY DEF Stands
<1>. QED BY <1>1, EmittedIsStanding

(* A press is decided well.                                                *)
LEMMA DownDecidesWell ==
  ASSUME NEW e, EngineSound(e), NEW k \in Keys, UsageOf[k] # NoUsage, NEW dk \in SUBSET Keys,
         e.swallowed \subseteq dk,
         NEW dev, NEW lk, \A t \in DOMAIN lk : lk[t] \in Seq(NativeKey),
         NEW value \in {1, 2}, (value = 2) <=> (k \in dk), NEW others \in Mask
  PROVE  DecidesWell(e, dk, AfterDown(e, k, dev, TRUE, lk), dk \cup {k},
                     DownPlan(e, k, dev, lk, value, others))
<1>. DEFINE f == AfterDown(e, k, dev, TRUE, lk)
            acts == DownPlan(e, k, dev, lk, value, others)
<1>0. EngineInv(e) /\ PassedMarked(e) /\ \A j \in e.pressed : UsageOf[j] # NoUsage
  BY DEF EngineSound
<1>1. f.pressed \subseteq e.pressed \cup {k} /\ f.swallowed \subseteq e.swallowed \cup {k}
  BY <1>0 DEF AfterDown, FireTrigger, PressUnmapped, EngineInv, Engine
<1>2. EngineInv(f)
  BY <1>0, AfterDownInv
<1>3. PassedMarked(f)
  BY <1>0, MarkedThroughout
<1>. HIDE DEF f
<1>4. EngineSound(f)
  BY <1>0, <1>1, <1>2, <1>3 DEF EngineSound
<1>5. acts \in Seq(Action)
  BY <1>0, DownPlanType
<1>6. \A S \in SUBSET Keys : \A c \in DownAtEnd(S, acts) :
         \/ c \in Accounted(f, dk \cup {k})
         \/ c \in S /\ c \notin Accounted(e, dk)
         \/ c \in e.pressed \ dk
  <2>. TAKE S \in SUBSET Keys
  <2>1. \A c \in DownAtEnd(S, acts) :
              \/ c \in Accounted(f, dk \cup {k})
              \/ c \in S /\ c \notin Accounted(e, dk)
              \/ c = k /\ k \in e.pressed \ dk
    BY <1>0, AfterDownAnswers DEF f
  <2>. HIDE DEF acts
  <2>. QED BY <2>1
<1>. HIDE DEF acts
<1>7. DecidesWell(e, dk, f, dk \cup {k}, acts)
  BY <1>1, <1>4, <1>5, <1>6 DEF DecidesWell
<1>. QED BY <1>7 DEF f, acts

(* So is a release.                                                        *)
LEMMA UpDecidesWell ==
  ASSUME NEW e, EngineSound(e), NEW k \in Keys, UsageOf[k] # NoUsage, NEW dk \in SUBSET Keys,
         e.swallowed \subseteq dk
  PROVE  DecidesWell(e, dk, AfterUp(e, k), dk \ {k}, UpPlan(e, k))
<1>. DEFINE f == AfterUp(e, k)
            acts == UpPlan(e, k)
<1>0. EngineInv(e) /\ PassedMarked(e) /\ \A j \in e.pressed : UsageOf[j] # NoUsage
  BY DEF EngineSound
<1>1. f.pressed = e.pressed \ {k} /\ f.swallowed = e.swallowed \ {k}
  <2>1. e.swallowed \subseteq e.pressed
    BY <1>0 DEF EngineInv, KeyMarksJustified
  <2>. QED BY <1>0, <2>1 DEF AfterUp, ReleaseSwallowed, ReleaseForwarded, EngineInv, Engine
<1>2. EngineInv(f)
  BY <1>0, AfterUpInv
<1>3. PassedMarked(f)
  BY <1>0, MarkedThroughout
<1>. HIDE DEF f
<1>4. EngineSound(f)
  BY <1>0, <1>1, <1>2, <1>3 DEF EngineSound
<1>5. acts \in Seq(Action)
  BY <1>0, AfterUpAnswers
<1>6. \A S \in SUBSET Keys : \A c \in DownAtEnd(S, acts) :
         c \in Accounted(f, dk \ {k}) \/ (c \in S /\ c \notin Accounted(e, dk))
  BY <1>0, AfterUpAnswers DEF f
<1>. HIDE DEF acts
<1>7. DecidesWell(e, dk, f, dk \ {k}, acts)
  BY <1>1, <1>4, <1>5, <1>6 DEF DecidesWell
<1>. QED BY <1>7 DEF f, acts

\* A key without HID identity is forwarded, or its repeat is dropped.
MayForward(k, value, acts) ==
  /\ acts \in {<< >>, <<Forward(k, value)>>}
  /\ value # 2 => acts = <<Forward(k, value)>>

\* They differ in what is stale at most.
UpToStale(e, f) == f = [e EXCEPT !.stale = f.stale]

(* And the event of a key without HID identity, which the engine never sees*)
(* but for the end of its stale mark.                                      *)
LEMMA UnresolvedDecidesWell ==
  ASSUME NEW e, EngineSound(e), NEW k \in Keys, UsageOf[k] = NoUsage, NEW dk \in SUBSET Keys,
         e.swallowed \subseteq dk,
         NEW value \in 0 .. 2, (value = 1) <=> (k \notin dk),
         NEW f, value = 0 => f = ClearStaleKey(e, k), value # 0 => f = e,
         NEW dk2, value = 0 => dk2 = dk \ {k}, value # 0 => dk2 = dk \cup {k},
         NEW acts, MayForward(k, value, acts)
  PROVE  /\ DecidesWell(e, dk, f, dk2, acts)
         /\ value = 0 => ~Stays(k, acts)
         /\ UpToStale(e, f)
<1>. USE DEF MayForward, UpToStale
<1>0. EngineInv(e) /\ PassedMarked(e) /\ \A j \in e.pressed : UsageOf[j] # NoUsage
  BY DEF EngineSound
<1>1. EngineInv(f) /\ UpToStale(e, f)
  <2>1. CASE value = 0
    BY <1>0, <2>1, StaleKeyInv
  <2>2. CASE value # 0
    BY <1>0, <2>2 DEF EngineInv, Engine
  <2>. QED BY <2>1, <2>2
<1>2. /\ f.pressed = e.pressed /\ f.swallowed = e.swallowed /\ f.held = e.held
      /\ f.forwarded = e.forwarded /\ f.consumed = e.consumed
  BY <1>0 DEF ClearStaleKey, EngineInv, Engine
<1>3. PassedKeys(f) = PassedKeys(e) /\ HeldBits(f) = HeldBits(e)
  BY <1>2 DEF PassedKeys, HeldBits
<1>4. EngineSound(f)
  BY <1>0, <1>1, <1>2, <1>3 DEF EngineSound, PassedMarked
<1>5. /\ Forward(k, value) \in Action /\ Presses(Forward(k, value)) = IF value = 1 THEN {k} ELSE {}
      /\ value = 0 => Releases(Forward(k, value)) = {k}
  <2>1. value \in {0, 1, 2}
    OBVIOUS
  <2>. QED BY <2>1, EffectOfActions
<1>6. ASSUME NEW S \in SUBSET Keys
      PROVE  DownAtEnd(S, acts) \subseteq (IF value = 0 THEN S \ {k} ELSE S) \cup (IF value = 1 THEN {k} ELSE {})
  <2>1. CASE acts = << >>
    BY <2>1, DownAfterNone
  <2>2. CASE acts = <<Forward(k, value)>>
    <3>1. DownAtEnd(S, acts) = Effect(S, Forward(k, value))
      BY <1>5, <2>2, DownAfterOne
    <3>. QED BY <1>5, <3>1 DEF Effect
  <2>. QED BY <2>1, <2>2
<1>7. \A c \in Accounted(e, dk) : c \in Accounted(f, dk2) \/ (value = 0 /\ c = k)
  BY <1>2, <1>3 DEF Accounted
<1>8. value = 1 => k \in Accounted(f, dk2)
  BY DEF Accounted
<1>9. acts \in Seq(Action)
  BY <1>5, DownAfterOne, DownAfterNone
<1>10. \A S \in SUBSET Keys : \A c \in DownAtEnd(S, acts) :
         c \in Accounted(f, dk2) \/ (c \in S /\ c \notin Accounted(e, dk))
  BY <1>6, <1>7, <1>8
<1>11. f.swallowed \subseteq dk2
  <2>1. k \notin e.swallowed
    BY <1>0 DEF EngineInv, KeyMarksJustified
  <2>. QED BY <1>2, <2>1
<1>12. f.pressed \ dk2 \subseteq e.pressed \ dk
  BY <1>0, <1>2
<1>13. DecidesWell(e, dk, f, dk2, acts)
  BY <1>4, <1>9, <1>10, <1>11, <1>12 DEF DecidesWell
<1>14. ASSUME value = 0 PROVE ~Stays(k, acts)
  <2>1. Len(acts) = 1 /\ acts[1] = Forward(k, value)
    BY <1>14
  <2>. QED BY <1>5, <1>14, <2>1 DEF Stays
<1>. QED BY <1>1, <1>13, <1>14

(* As long as nothing is down for two reasons a press is decided cleanly.  *)
LEMMA DownDecidesCleanly ==
  ASSUME NEW e, EngineSound(e), PhysicalPlusHeld(e), ~Overlap(e),
         NEW k \in Keys, UsageOf[k] # NoUsage, NEW dk \in SUBSET Keys,
         e.pressed = {j \in dk : UsageOf[j] # NoUsage},
         NEW dev, NEW lk, \A t \in DOMAIN lk : lk[t] \in Seq(NativeKey),
         NEW value \in {1, 2}, (value = 2) <=> (k \in dk), NEW others \in Mask,
         ~Overlap(AfterDown(e, k, dev, TRUE, lk)),
         ~TapConflict(DownDecision(e, k, dev, TRUE, lk).outputs, others)
  PROVE  DecidesCleanly(e, dk, AfterDown(e, k, dev, TRUE, lk), dk \cup {k},
                        DownPlan(e, k, dev, lk, value, others), others)
<1>. DEFINE f == AfterDown(e, k, dev, TRUE, lk)
            acts == DownPlan(e, k, dev, lk, value, others)
<1>0. /\ EngineInv(e) /\ PassedMarked(e)
      /\ (value = 2) <=> (k \in e.pressed)
      /\ EmittedBits(e) \subseteq Stands(e)
  BY EmittedIsStanding DEF EngineSound
<1>1. PhysicalPlusHeld(f)
  BY <1>0, AfterDownExact
<1>2. f.pressed = {j \in dk \cup {k} : UsageOf[j] # NoUsage}
  <2>1. f.pressed = e.pressed \cup {k}
    BY <1>0 DEF AfterDown, FireTrigger, PressUnmapped, EngineInv, Engine
  <2>. HIDE DEF f
  <2>. QED BY <2>1
<1>3. ASSUME NEW S \in SUBSET Keys, ModifierCodes(EmittedBits(e)) \subseteq S,
             NEW c \in ModifierCodes(EmittedBits(f))
      PROVE  c \in DownAtEnd(S, acts)
  <2>1. c \in Keys /\ OwnBit(c) \cap EmittedBits(f) # {} /\ OwnBit(c) # {}
    BY DEF ModifierCodes
  <2>. QED BY <1>0, <1>3, <2>1, AfterDownKeeps
<1>4. ASSUME NEW S \in SUBSET Keys, NEW c \in S, OwnBit(c) # {}, OwnBit(c) \subseteq others,
             OwnBit(c) \cap Stands(e) = {}
      PROVE  c \in DownAtEnd(S, acts)
  <2>1. c \in Keys /\ OwnBit(c) \cap EmittedBits(e) = {}
    BY <1>0, <1>4
  <2>. QED BY <1>0, <1>4, <2>1, AfterDownKeeps
<1>5. TapsCleanly(e, dk, acts, others)
  BY <1>0, AfterDownTaps
<1>. HIDE DEF f, acts
<1>6. DecidesCleanly(e, dk, f, dk \cup {k}, acts, others)
  BY <1>1, <1>2, <1>3, <1>4, <1>5 DEF DecidesCleanly
<1>. QED BY <1>6 DEF f, acts

(* So is a release.                                                        *)
LEMMA UpDecidesCleanly ==
  ASSUME NEW e, EngineSound(e), PhysicalPlusHeld(e), ~Overlap(e),
         NEW k \in Keys, UsageOf[k] # NoUsage, NEW dk \in SUBSET Keys, k \in dk,
         e.pressed = {j \in dk : UsageOf[j] # NoUsage}, NEW others \in Mask
  PROVE  DecidesCleanly(e, dk, AfterUp(e, k), dk \ {k}, UpPlan(e, k), others)
<1>. DEFINE f == AfterUp(e, k)
            acts == UpPlan(e, k)
<1>0. /\ EngineInv(e) /\ k \in e.pressed
      /\ Sources(e, k) \subseteq Stands(e)
  BY DEF EngineSound, Stands
<1>1. PhysicalPlusHeld(f)
  BY <1>0, AfterUpExact
<1>2. f.pressed = {j \in dk \ {k} : UsageOf[j] # NoUsage}
  <2>1. f.pressed = e.pressed \ {k}
    BY <1>0 DEF AfterUp, ReleaseSwallowed, ReleaseForwarded, EngineInv, Engine
  <2>. HIDE DEF f
  <2>. QED BY <2>1
<1>3. EmittedBits(f) \subseteq EmittedBits(e)
  <2>1. f.forwarded \subseteq e.forwarded /\ \A j \in Keys : f.held[j] \subseteq e.held[j]
    BY <1>0 DEF AfterUp, ReleaseSwallowed, ReleaseForwarded, EngineInv, Engine
  <2>. HIDE DEF f
  <2>. QED BY <2>1 DEF EmittedBits, HeldBits
<1>4. ASSUME NEW S \in SUBSET Keys, ModifierCodes(EmittedBits(e)) \subseteq S,
             NEW c \in ModifierCodes(EmittedBits(f))
      PROVE  c \in DownAtEnd(S, acts)
  <2>1. c \in Keys /\ OwnBit(c) \cap EmittedBits(f) # {} /\ OwnBit(c) # {}
    BY DEF ModifierCodes
  <2>2. c \in S
    BY <1>3, <1>4, <2>1 DEF ModifierCodes
  <2>. QED BY <1>0, <2>1, <2>2, AfterUpKeeps
<1>5. ASSUME NEW S \in SUBSET Keys, NEW c \in S, OwnBit(c) # {}, OwnBit(c) \cap Stands(e) = {}
      PROVE  c \in DownAtEnd(S, acts)
  <2>1. c \in Keys /\ OwnBit(c) \cap Sources(e, k) = {}
    BY <1>0, <1>5
  <2>. QED BY <1>0, <1>5, <2>1, AfterUpKeeps
<1>6. acts \in Seq(Action)
  BY <1>0, AfterUpAnswers
<1>7. \A i \in 1 .. Len(acts) : acts[i].kind # "Tap"
  BY <1>6, UpTapsNothing
<1>. HIDE DEF f, acts
<1>8. DecidesCleanly(e, dk, f, dk \ {k}, acts, others)
  BY <1>1, <1>2, <1>4, <1>5, <1>7 DEF DecidesCleanly, TapsCleanly
<1>. QED BY <1>8 DEF f, acts

(* And so is the event of a key without HID identity.                      *)
LEMMA UnresolvedDecidesCleanly ==
  ASSUME NEW e, EngineSound(e), PhysicalPlusHeld(e),
         NEW k \in Keys, UsageOf[k] = NoUsage, NEW dk \in SUBSET Keys,
         e.pressed = {j \in dk : UsageOf[j] # NoUsage},
         NEW value \in 0 .. 2, NEW f, UpToStale(e, f),
         NEW dk2, dk \ {k} \subseteq dk2, dk2 \subseteq dk \cup {k},
         NEW acts, MayForward(k, value, acts), NEW others \in Mask
  PROVE  DecidesCleanly(e, dk, f, dk2, acts, others)
<1>. USE DEF MayForward, UpToStale
<1>1. /\ f.pressed = e.pressed /\ f.swallowed = e.swallowed /\ f.held = e.held
      /\ f.forwarded = e.forwarded /\ f.modifierState = e.modifierState
  BY DEF EngineSound, EngineInv, Engine
<1>2. PassedKeys(f) = PassedKeys(e) /\ HeldBits(f) = HeldBits(e)
  BY <1>1 DEF PassedKeys, HeldBits
<1>3. EmittedBits(f) = EmittedBits(e)
  BY <1>1, <1>2 DEF EmittedBits
<1>4. PhysicalPlusHeld(f)
  BY <1>1, <1>2 DEF PhysicalPlusHeld
<1>5. f.pressed = {j \in dk2 : UsageOf[j] # NoUsage}
  BY <1>1
<1>6. /\ Forward(k, value) \in Action /\ Presses(Forward(k, value)) \subseteq {k}
      /\ Releases(Forward(k, value)) \subseteq {k} /\ Forward(k, value).kind # "Tap"
  <2>1. value \in {0, 1, 2}
    OBVIOUS
  <2>2. Forward(k, value).kind # "Tap"
    BY DEF Forward
  <2>3. /\ Forward(k, value) \in Action /\ Releases(Forward(k, value)) \subseteq {k}
        /\ Presses(Forward(k, value)) = IF value = 1 THEN {k} ELSE {}
    BY <2>1, EffectOfActions
  <2>. QED BY <2>2, <2>3
<1>7. ASSUME NEW S \in SUBSET Keys, NEW c \in S, OwnBit(c) # {}
      PROVE  c \in DownAtEnd(S, acts)
  <2>1. CASE acts = << >>
    BY <2>1, DownAfterNone
  <2>2. CASE acts = <<Forward(k, value)>>
    <3>1. DownAtEnd(S, acts) = Effect(S, Forward(k, value))
      BY <1>6, <2>2, DownAfterOne
    <3>2. c # k
      BY <1>7, UnresolvedHasNoBit
    <3>. QED BY <1>6, <3>1, <3>2 DEF Effect
  <2>. QED BY <2>1, <2>2
<1>8. \A i \in 1 .. Len(acts) : acts[i].kind # "Tap"
  BY <1>6
<1>9. ASSUME NEW S \in SUBSET Keys, ModifierCodes(EmittedBits(e)) \subseteq S,
             NEW c \in ModifierCodes(EmittedBits(f))
      PROVE  c \in DownAtEnd(S, acts)
  <2>1. c \in S /\ OwnBit(c) # {}
    BY <1>3, <1>9 DEF ModifierCodes
  <2>. QED BY <1>7, <2>1
<1>. QED BY <1>4, <1>5, <1>7, <1>8, <1>9 DEF DecidesCleanly, TapsCleanly

-----------------------------------------------------------------------------
(* The inductive invariant *)

TypeOK ==
  /\ started \in BOOLEAN /\ managed \subseteq Keyboards
  /\ engines \in [Keyboards -> Engine]
  /\ pending \in [Keyboards -> SUBSET Keys]
  /\ down \in [Keyboards -> SUBSET Keys]
  /\ \A kb \in Keyboards : down[kb] \subseteq KeysOn[kb]
  /\ lookup \in Lookups
  /\ batch \in Keyboards \cup {NoKeyboard}
  /\ emitting \in BOOLEAN
  /\ queue \in Seq(Action)
  /\ out \subseteq Keys
  /\ disturbed \in BOOLEAN
  /\ taking \in Keyboards \cup {NoKeyboard}
  /\ stage \in {"none", "grabbed", "drained", "captured", "window", "drained again", "taken"}
  /\ held \subseteq Keys /\ found \in BOOLEAN
  /\ ring \in [Keyboards -> Seq(Event)]
  /\ \A kb \in Keyboards : ring[kb] \in Seq(KeyEvents(KeysOn[kb]))
  /\ client \subseteq Keys /\ missed \subseteq Keys

Sound == \A kb \in Keyboards : EngineSound(engines[kb])

\* What a phase of the loop or of a takeover can find.
Phases ==
  /\ emitting => queue # << >>
  /\ ~started => queue = << >>
  /\ taking = NoKeyboard <=> stage = "none"
  /\ stage \in {"none", "grabbed", "drained"} => held = {}

\* The engine of the keyboard that is taken over has noted the held keys, and
\* these were down when its ring began, or else they are given up.
Taken ==
  taking # NoKeyboard =>
    /\ taking \notin managed
    /\ engines[taking] = NoteHeldKeys(held)
    /\ {k \in held : IsModifier(k)} \subseteq pending[taking]
    /\ held \ missed \subseteq DownBefore(down[taking], ring[taking])

\* What a managed keyboard has taken for down is down, or given up; before its
\* first event it has fired no rule and its forwarded modifiers are pending.
Loyal ==
  \A kb \in managed :
    /\ engines[kb].swallowed \subseteq down[kb]
    /\ engines[kb].pressed \ down[kb] \subseteq missed
    /\ pending[kb] # {} => /\ engines[kb].swallowed = {}
                           /\ ModifierCodes(engines[kb].forwarded) \subseteq pending[kb]

Answered(c) == c \in missed \/ \E kb \in managed : c \in Accounted(engines[kb], down[kb])

NamedIn(c, events) == \E i \in 1 .. Len(events) : events[i].key = c

\* The keyboard is down with a key whose press the engine has not read.
Unread(kb, c) == c \in down[kb] \ engines[kb].pressed /\ NamedIn(c, ring[kb])

\* What clients have from a keyboard that is being taken over.
ByTakeover(c) ==
  /\ taking # NoKeyboard
  /\ \/ c \in DownBefore(down[taking], ring[taking])
     \/ stage = "grabbed" /\ NamedIn(c, ring[taking])
     \/ stage \in {"window", "drained again", "taken"} /\ c \in down[taking]

OutAnswered == \A c \in DownAtEnd(out, queue) : Answered(c)

ClientAnswered ==
  \A c \in client :
    Stays(c, queue) => Answered(c) \/ ByTakeover(c) \/ \E kb \in managed : Unread(kb, c)

\* Nothing is down for two reasons: then every engine is exact, and what it
\* takes for down is going to be down.
Clean ==
  /\ ~Shared(engines)
  /\ \A kb \in Keyboards : PhysicalPlusHeld(engines[kb])
  /\ \A kb \in managed : engines[kb].pressed = {k \in down[kb] : UsageOf[k] # NoUsage}
  /\ \A kb \in managed :
       pending[kb] = {} => ModifierCodes(EmittedBits(engines[kb])) \subseteq DownAtEnd(out, queue)
  /\ \A i \in 1 .. Len(queue) : queue[i].kind = "Tap" =>
       \A c \in DownAfter(out, queue, i - 1) :
         OwnBit(c) # {} /\ OwnBit(c) \cap (queue[i].key.modifiers \cup queue[i].allowed) = {}
           => c \in missed

Undisturbed == ~disturbed => Clean

IInv ==
  /\ TypeOK /\ Sound /\ Phases /\ Taken /\ Loyal
  /\ OutAnswered /\ ClientAnswered /\ Undisturbed

Calm ==
  queue = << >> /\ \A kb \in Keyboards : down[kb] = {} /\ engines[kb].pressed = {}

(* The history ends only when nothing is down.                             *)
LEMMA History ==
  ASSUME NEW conflict, TrackConflict(conflict)
  PROVE  /\ disturbed' \in BOOLEAN
         /\ ~disturbed' => ~Shared(engines') /\ ~conflict /\ (~disturbed \/ Calm')
BY DEF TrackConflict, Calm

(* And then nothing is down for two reasons.                               *)
LEMMA CalmIsClean ==
  ASSUME Calm', managed' \subseteq Keyboards, Sound', out' \subseteq Keys
  PROVE  Clean'
<1>1. \A kb \in Keyboards : engines'[kb].pressed = {} /\ down'[kb] = {} /\ EngineInv(engines'[kb])
  BY DEF Calm, Sound, EngineSound
<1>2. ~Shared(engines')
  BY <1>1 DEF Shared, Standing
<1>3. \A kb \in Keyboards : PhysicalPlusHeld(engines'[kb])
  BY <1>1, AllUpExact
<1>4. \A kb \in Keyboards : ModifierCodes(EmittedBits(engines'[kb])) = {}
  BY <1>1, NothingEmitted DEF ModifierCodes
<1>5. Len(queue') = 0
  BY DEF Calm
<1>6. \A kb \in managed' : engines'[kb].pressed = {k \in down'[kb] : UsageOf[k] # NoUsage}
  BY <1>1
<1>. QED BY <1>2, <1>3, <1>4, <1>5, <1>6 DEF Clean

(* The keys of one keyboard do not overlap where nothing is shared, nor do *)
(* those of two.                                                           *)
LEMMA NothingShared ==
  ASSUME NEW es \in [Keyboards -> Engine], ~Shared(es)
  PROVE  /\ \A kb \in Keyboards : ~Overlap(es[kb])
         /\ \A k1, k2 \in Keyboards : k1 # k2 => Stands(es[k1]) \cap Stands(es[k2]) = {}
<1>1. \A k1, k2 \in Keyboards : \A c1 \in es[k1].pressed, c2 \in es[k2].pressed :
        <<k1, c1>> # <<k2, c2>> => Sources(es[k1], c1) \cap Sources(es[k2], c2) = {}
  <2>. SUFFICES ASSUME NEW k1 \in Keyboards, NEW k2 \in Keyboards,
                       NEW c1 \in es[k1].pressed, NEW c2 \in es[k2].pressed,
                       <<k1, c1>> # <<k2, c2>>
                PROVE  Sources(es[k1], c1) \cap Sources(es[k2], c2) = {}
    OBVIOUS
  <2>1. <<k1, c1>> \in Standing(es) /\ <<k2, c2>> \in Standing(es)
    BY DEF Standing, Engine
  <2>. DEFINE p == <<k1, c1>>
              q == <<k2, c2>>
  <2>2. p[1] = k1 /\ p[2] = c1 /\ q[1] = k2 /\ q[2] = c2
    OBVIOUS
  <2>. HIDE DEF p, q
  <2>3. p \in Standing(es) /\ q \in Standing(es) /\ p # q
    BY <2>1 DEF p, q
  <2>. QED BY <2>2, <2>3 DEF Shared
<1>. QED BY <1>1 DEF Overlap, Stands

(* Nothing is down at the start.                                           *)
LEMMA InitInv == TakeoverInit => IInv
<1>. SUFFICES ASSUME TakeoverInit PROVE IInv
  OBVIOUS
<1>. USE DEF TakeoverInit, Init
<1>0. \A kb \in Keyboards : /\ engines[kb] = FreshEngine /\ engines[kb].pressed = {}
                            /\ down[kb] = {} /\ ring[kb] = << >>
  BY DEF FreshEngine
<1>1. TypeOK
  <2>1. engines \in [Keyboards -> Engine]
    <3>1. FreshEngine \in Engine
      BY FreshEngineInv DEF EngineInv
    <3>. QED BY <3>1
  <2>2. << >> \in Seq(Event) /\ << >> \in Seq(Action) /\ \A kb : << >> \in Seq(KeyEvents(KeysOn[kb]))
    OBVIOUS
  <2>. QED BY <1>0, <2>1, <2>2 DEF TypeOK
<1>2. Sound
  BY <1>0, NotedEngine, NothingNoted DEF Sound
<1>3. Phases /\ Taken /\ Loyal
  BY DEF Phases, Taken, Loyal
<1>4. OutAnswered /\ ClientAnswered
  BY DownAfterNone DEF OutAnswered, ClientAnswered
<1>5. ~Shared(engines)
  BY <1>0 DEF Shared, Standing
<1>6. \A kb \in Keyboards : PhysicalPlusHeld(engines[kb])
  BY <1>0, FreshEngineInv, AllUpExact
<1>7. Undisturbed
  BY <1>5, <1>6 DEF Undisturbed, Clean
<1>. QED BY <1>1, <1>2, <1>3, <1>4, <1>7 DEF IInv

(* The invariant says what the properties say.                             *)
LEMMA InvSuffices == IInv => NoStuckKeys /\ CleanTapUndisturbed /\ EmittedModifiersDown
<1>. SUFFICES ASSUME IInv PROVE NoStuckKeys /\ CleanTapUndisturbed /\ EmittedModifiersDown
  OBVIOUS
<1>. USE DEF IInv
<1>1. NoStuckKeys
  <2>. SUFFICES ASSUME queue = << >>, taking = NoKeyboard,
                       \A kb \in managed : down[kb] = {} /\ ring[kb] = << >>,
                       NEW c \in client \cup out
                PROVE  c \in missed
    BY DEF NoStuckKeys
  <2>1. \A kb \in managed : c \in Accounted(engines[kb], down[kb]) => c \in missed
    <3>. SUFFICES ASSUME NEW kb \in managed, c \in Accounted(engines[kb], down[kb])
                  PROVE  c \in missed
      OBVIOUS
    <3>. DEFINE e == engines[kb]
    <3>1. e.swallowed = {} /\ e.pressed \subseteq missed /\ EngineInv(e)
      BY DEF Loyal, Sound, EngineSound, TypeOK
    <3>2. HeldBits(e) = {}
      BY <3>1 DEF EngineInv, KeyMarksJustified, HeldBits
    <3>. HIDE DEF e
    <3>3. c \in PassedKeys(e)
      BY <3>2 DEF Accounted, e
    <3>. QED BY <3>1, <3>3 DEF PassedKeys
  <2>2. CASE c \in out
    <3>1. c \in DownAtEnd(out, queue)
      BY <2>2, DownAfterNone DEF TypeOK
    <3>. QED BY <2>1, <3>1 DEF OutAnswered, Answered
  <2>3. CASE c \in client
    <3>1. Stays(c, queue)
      BY DEF Stays
    <3>. QED BY <2>1, <2>3, <3>1 DEF ClientAnswered, Answered, ByTakeover, Unread
  <2>. QED BY <2>2, <2>3
<1>2. CleanTapUndisturbed
  <2>. SUFFICES ASSUME ~disturbed, emitting, Head(queue).kind = "Tap",
                       NEW c \in out,
                       c \in ModifierCodes(Modifiers \ (Head(queue).key.modifiers \cup Head(queue).allowed))
                PROVE  c \in missed
    BY DEF CleanTapUndisturbed
  <2>1. queue # << >> /\ queue \in Seq(Action) /\ out \in SUBSET Keys
    BY DEF Phases, TypeOK
  <2>2. 1 \in 1 .. Len(queue) /\ Head(queue) = queue[1]
    BY <2>1
  <2>3. DownAfter(out, queue, 1 - 1) = out
    BY <2>1, DownAtStart
  <2>4. OwnBit(c) # {} /\ OwnBit(c) \cap (queue[1].key.modifiers \cup queue[1].allowed) = {}
    BY <2>2, OneBit DEF ModifierCodes
  <2>. QED BY <2>2, <2>3, <2>4 DEF Undisturbed, Clean
<1>3. EmittedModifiersDown
  <2>1. queue = << >> => DownAtEnd(out, queue) = out
    BY DownAfterNone DEF TypeOK
  <2>. QED BY <2>1 DEF EmittedModifiersDown, Undisturbed, Clean
<1>. QED BY <1>1, <1>2, <1>3

-----------------------------------------------------------------------------
(* A decision preserves the invariant *)

\* Only the engine, the keys and the ring of kb change, and the queue grows.
Decides(kb, f, dk2, acts) ==
  /\ engines' = [engines EXCEPT ![kb] = f]
  /\ down' = [down EXCEPT ![kb] = dk2]
  /\ Enqueue(kb, acts)
  /\ UNCHANGED <<started, managed, lookup, emitting, out, taking, stage, held, found,
                 client, missed>>

\* The ring keeps its events, but for those of the key that has been decided.
RingLoses(kb, k) ==
  /\ ring' \in [Keyboards -> Seq(Event)]
  /\ ring'[kb] \in Seq(KeyEvents(KeysOn[kb]))
  /\ \A other \in Keyboards \ {kb} : ring'[other] = ring[other]
  /\ \A c \in Keys \ {k} : NamedIn(c, ring[kb]) => NamedIn(c, ring'[kb])

\* What precedes the plan of a decision in the queue.
Held(kb) == IF pending[kb] = {} THEN << >> ELSE <<ForwardHeld(InitialState(kb))>>

(* The initial state of a keyboard leads to what its engine takes for down,*)
(* and to nothing that it will not release.                                *)
LEMMA HeldIsAnswered ==
  ASSUME IInv, NEW kb \in managed, NEW S, S = DownAtEnd(out, queue),
         NEW T, T = DownAtEnd(S, Held(kb))
  PROVE  /\ Held(kb) \in Seq(Action) /\ S \in SUBSET Keys /\ T \in SUBSET Keys
         /\ S \subseteq T
         /\ \A i \in 1 .. Len(Held(kb)) : Held(kb)[i].kind # "Tap"
         /\ T \subseteq S \cup {c \in Keys : OwnBit(c) \cap engines[kb].forwarded # {}}
         /\ \A c \in Keys : Stays(c, Held(kb))
         /\ ~disturbed => ModifierCodes(EmittedBits(engines[kb])) \subseteq T
<1>. DEFINE e == engines[kb]
            codes == InitialState(kb)
<1>0. kb \in Keyboards /\ EngineInv(e) /\ pending[kb] \in SUBSET Keys
  BY DEF IInv, TypeOK, Sound, EngineSound
<1>1. S \in SUBSET Keys
  BY DEF DownAtEnd, DownAfter
<1>2. codes = {c \in pending[kb] : OwnBit(c) \cap e.forwarded # {}}
  BY DEF InitialState, HeldModifierForwarded
<1>. HIDE DEF e, codes
<1>3. CASE pending[kb] = {}
  <2>1. Held(kb) = << >> /\ T = S
    BY <1>1, <1>3, DownAfterNone DEF Held
  <2>2. ~disturbed => ModifierCodes(EmittedBits(e)) \subseteq S
    BY <1>3 DEF IInv, Undisturbed, Clean, e
  <2>. QED BY <1>1, <2>1, <2>2 DEF Stays, e
<1>4. CASE pending[kb] # {}
  <2>1. codes \in SUBSET Keys
    BY <1>0, <1>2
  <2>2. /\ ForwardHeld(codes) \in Action /\ ForwardHeld(codes).kind # "Tap"
        /\ Presses(ForwardHeld(codes)) = codes /\ Releases(ForwardHeld(codes)) = {}
    BY <2>1, EffectOfActions DEF ForwardHeld
  <2>3. Held(kb) = <<ForwardHeld(codes)>>
    BY <1>4 DEF Held, codes
  <2>4. Held(kb) \in Seq(Action) /\ T = S \cup codes
    BY <1>1, <2>1, <2>2, <2>3, DownAfterOne DEF Effect
  <2>5. \A i \in 1 .. Len(Held(kb)) : Held(kb)[i] = ForwardHeld(codes)
    BY <2>3
  <2>6. ModifierCodes(EmittedBits(e)) \subseteq codes
    <3>1. e.swallowed = {} /\ ModifierCodes(e.forwarded) \subseteq pending[kb]
      BY <1>4 DEF IInv, Loyal, e
    <3>2. HeldBits(e) = {}
      BY <1>0, <3>1 DEF EngineInv, KeyMarksJustified, HeldBits
    <3>3. EmittedBits(e) = e.forwarded
      BY <3>2 DEF EmittedBits
    <3>. QED BY <1>2, <3>1, <3>3 DEF ModifierCodes
  <2>7. codes \subseteq {c \in Keys : OwnBit(c) \cap e.forwarded # {}}
    BY <1>2, <2>1
  <2>8. \A c \in Keys : Stays(c, Held(kb))
    BY <2>2, <2>5 DEF Stays
  <2>. QED BY <1>1, <2>1, <2>2, <2>4, <2>5, <2>6, <2>7, <2>8 DEF e
<1>. QED BY <1>3, <1>4

\* The queue q2 is q with h and acts behind it, when those of S are down.
Grown(S, q, h, acts, q2) ==
  /\ DownAtEnd(S, q2) = DownAtEnd(DownAtEnd(DownAtEnd(S, q), h), acts)
  /\ \A c : Stays(c, q2) <=> Stays(c, q) /\ Stays(c, h) /\ Stays(c, acts)
  /\ \A i \in 1 .. Len(q2) :
       \/ /\ i \in 1 .. Len(q) /\ q2[i] = q[i]
          /\ DownAfter(S, q2, i - 1) = DownAfter(S, q, i - 1)
       \/ \E j \in 1 .. Len(h) : q2[i] = h[j]
       \/ \E j \in 1 .. Len(acts) :
            /\ q2[i] = acts[j]
            /\ DownAfter(S, q2, i - 1) =
                 DownAfter(DownAtEnd(DownAtEnd(S, q), h), acts, j - 1)

(* What the queue leaves down after a decision, step by step.              *)
LEMMA QueueGrows ==
  ASSUME NEW q \in Seq(Action), NEW h \in Seq(Action), NEW acts \in Seq(Action),
         NEW S \in SUBSET Keys, NEW q2, q2 = q \o h \o acts
  PROVE  q2 \in Seq(Action) /\ Grown(S, q, h, acts, q2)
<1>. DEFINE L == Len(q)
            M == Len(h)
            N == Len(acts)
            r == q \o h
<1>0. L \in Nat /\ M \in Nat /\ N \in Nat
  OBVIOUS
<1>1. r \in Seq(Action) /\ Len(r) = L + M /\ q2 = r \o acts
      /\ q2 \in Seq(Action) /\ Len(q2) = L + M + N
  OBVIOUS
<1>2. \A i \in 1 .. L : r[i] = q[i]
  OBVIOUS
<1>3. \A i \in 1 .. M : r[L + i] = h[i]
  OBVIOUS
<1>. HIDE DEF L, M, N, r
<1>4. \A i \in 1 .. L + M : q2[i] = r[i]
  BY <1>0, <1>1, ConcatProperties
<1>5. \A i \in 1 .. N : q2[L + M + i] = acts[i]
  BY <1>0, <1>1, ConcatProperties DEF N
<1>6. DownAtEnd(S, r) = DownAtEnd(DownAtEnd(S, q), h)
  <2>1. M \in 0 .. Len(h)
    BY <1>0 DEF M
  <2>. QED BY <1>1, <2>1, DownInTheRest DEF DownAtEnd, L, M, r
<1>7. ASSUME NEW j \in 0 .. N
      PROVE  DownAfter(S, q2, L + M + j) = DownAfter(DownAtEnd(S, r), acts, j)
  <2>1. DownAfter(S, r \o acts, Len(r) + j) = DownAfter(DownAtEnd(S, r), acts, j)
    BY <1>1, DownInTheRest DEF N
  <2>. QED BY <1>1, <2>1
<1>8. DownAtEnd(S, q2) = DownAtEnd(DownAtEnd(S, r), acts)
  <2>1. N \in 0 .. N
    BY <1>0
  <2>. QED BY <1>1, <1>7, <2>1 DEF DownAtEnd, N
<1>9. ASSUME NEW i \in 1 .. L + M + N
      PROVE  i \in 1 .. L \/ (\E j \in 1 .. M : i = L + j) \/ (\E j \in 1 .. N : i = L + M + j)
  <2>1. i \in 1 .. L \/ (i - L \in 1 .. M /\ i = L + (i - L))
          \/ (i - L - M \in 1 .. N /\ i = L + M + (i - L - M))
    BY <1>0
  <2>. QED BY <2>1
<1>10. /\ \A i \in 1 .. L : q2[i] = q[i] /\ i \in 1 .. L + M + N
       /\ \A j \in 1 .. M : q2[L + j] = h[j] /\ L + j \in 1 .. L + M + N
       /\ \A j \in 1 .. N : q2[L + M + j] = acts[j] /\ L + M + j \in 1 .. L + M + N
  <2>1. \A i \in 1 .. L : i \in 1 .. L + M /\ i \in 1 .. L + M + N
    BY <1>0
  <2>2. \A j \in 1 .. M : L + j \in 1 .. L + M /\ L + j \in 1 .. L + M + N
    BY <1>0
  <2>3. \A j \in 1 .. N : L + M + j \in 1 .. L + M + N
    BY <1>0
  <2>. QED BY <1>2, <1>3, <1>4, <1>5, <2>1, <2>2, <2>3
<1>11. ASSUME NEW c
       PROVE  Stays(c, q2) <=> Stays(c, q) /\ Stays(c, h) /\ Stays(c, acts)
  <2>1. ASSUME Stays(c, q2) PROVE Stays(c, q) /\ Stays(c, h) /\ Stays(c, acts)
    <3>1. \A i \in 1 .. L + M + N : c \notin Releases(q2[i])
      BY <1>1, <2>1 DEF Stays
    <3>. QED BY <1>10, <3>1 DEF Stays, L, M, N
  <2>2. ASSUME Stays(c, q), Stays(c, h), Stays(c, acts), NEW i \in 1 .. L + M + N
        PROVE  c \notin Releases(q2[i])
    <3>1. /\ \A j \in 1 .. L : c \notin Releases(q[j])
          /\ \A j \in 1 .. M : c \notin Releases(h[j])
          /\ \A j \in 1 .. N : c \notin Releases(acts[j])
      BY <2>2 DEF Stays, L, M, N
    <3>2. CASE i \in 1 .. L
      BY <3>2, <1>10, <3>1
    <3>3. ASSUME NEW j \in 1 .. M, i = L + j PROVE c \notin Releases(q2[i])
      BY <3>3, <1>10, <3>1
    <3>4. ASSUME NEW j \in 1 .. N, i = L + M + j PROVE c \notin Releases(q2[i])
      BY <3>4, <1>10, <3>1
    <3>. QED BY <1>9, <3>2, <3>3, <3>4
  <2>. QED BY <1>1, <2>1, <2>2 DEF Stays
<1>12. ASSUME NEW i \in 1 .. L + M + N
       PROVE  \/ /\ i \in 1 .. L /\ q2[i] = q[i]
                 /\ DownAfter(S, q2, i - 1) = DownAfter(S, q, i - 1)
              \/ \E j \in 1 .. M : q2[i] = h[j]
              \/ \E j \in 1 .. N :
                   /\ q2[i] = acts[j]
                   /\ DownAfter(S, q2, i - 1) = DownAfter(DownAtEnd(S, r), acts, j - 1)
  <2>1. CASE i \in 1 .. L
    <3>2. i - 1 \in 0 .. Len(q) /\ i - 1 \in 0 .. Len(r)
      BY <1>0, <1>1, <2>1 DEF L
    <3>3. DownAfter(S, q2, i - 1) = DownAfter(S, r, i - 1)
      BY <1>1, <3>2, DownBeforeTheRest
    <3>4. DownAfter(S, r, i - 1) = DownAfter(S, q, i - 1)
      BY <3>2, DownBeforeTheRest DEF r
    <3>. QED BY <1>10, <2>1, <3>3, <3>4
  <2>2. CASE \E j \in 1 .. M : i = L + j
    BY <1>10, <2>2
  <2>3. ASSUME NEW j \in 1 .. N, i = L + M + j
        PROVE  /\ q2[i] = acts[j]
               /\ DownAfter(S, q2, i - 1) = DownAfter(DownAtEnd(S, r), acts, j - 1)
    <3>1. j - 1 \in 0 .. N /\ L + M + (j - 1) = i - 1
      BY <1>0, <2>3
    <3>2. DownAfter(S, q2, L + M + (j - 1)) = DownAfter(DownAtEnd(S, r), acts, j - 1)
      BY <1>7, <3>1
    <3>. QED BY <1>10, <2>3, <3>1, <3>2
  <2>. QED BY <1>9, <2>1, <2>2, <2>3
<1>. QED BY <1>1, <1>6, <1>8, <1>11, <1>12 DEF L, M, N, Grown

(* A decision on the key k of a managed keyboard.                          *)
LEMMA DecisionKeeps ==
  ASSUME IInv, NEW kb \in managed, Deciding(kb), NEW k \in Keys,
         NEW f, NEW dk2 \in SUBSET KeysOn[kb], NEW acts, NEW conflict,
         Decides(kb, f, dk2, acts), TrackConflict(conflict), RingLoses(kb, k),
         DecidesWell(engines[kb], down[kb], f, dk2, acts),
         ~disturbed /\ ~conflict /\ ~Shared(engines') =>
           DecidesCleanly(engines[kb], down[kb], f, dk2, acts, OtherBits(kb)),
         down[kb] \ {k} \subseteq dk2, f.pressed \subseteq engines[kb].pressed \cup {k},
         Unread(kb, k) => ~Stays(k, acts)
  PROVE  IInv'
<1>. DEFINE e == engines[kb]
            dk == down[kb]
            S == DownAtEnd(out, queue)
            T == DownAtEnd(S, Held(kb))
<1>. USE DEF Decides
<1>0. /\ kb \in Keyboards /\ EngineInv(e) /\ PassedMarked(e) /\ out \in SUBSET Keys
      /\ queue \in Seq(Action) /\ acts \in Seq(Action) /\ started /\ ~emitting
      /\ EngineSound(f) /\ f \in Engine /\ dk2 \in SUBSET Keys /\ dk \in SUBSET Keys
      /\ taking # kb /\ KeysOn[kb] \subseteq Keys
      /\ TypeOK /\ Sound
  BY RemapAssumption DEF IInv, TypeOK, Sound, EngineSound, EngineInv, DecidesWell, Deciding, Taken
<1>1. /\ engines'[kb] = f /\ down'[kb] = dk2 /\ pending'[kb] = {}
      /\ \A other \in Keyboards \ {kb} : /\ engines'[other] = engines[other]
                                         /\ down'[other] = down[other]
                                         /\ pending'[other] = pending[other]
  BY <1>0 DEF TypeOK, Enqueue
<1>2. Held(kb) \in Seq(Action) /\ queue' = queue \o Held(kb) \o acts
  BY HeldIsAnswered DEF Enqueue, Held
<1>3. /\ queue' \in Seq(Action) /\ Grown(out, queue, Held(kb), acts, queue')
      /\ DownAtEnd(out, queue') = DownAtEnd(T, acts)
      /\ \A c : Stays(c, queue') <=> Stays(c, queue) /\ Stays(c, Held(kb)) /\ Stays(c, acts)
  <2>. DEFINE h == Held(kb)
  <2>1. queue \in Seq(Action) /\ h \in Seq(Action) /\ acts \in Seq(Action)
        /\ out \in SUBSET Keys /\ queue' = queue \o h \o acts
    BY <1>0, <1>2
  <2>. HIDE DEF h
  <2>2. queue' \in Seq(Action) /\ Grown(out, queue, h, acts, queue')
    BY <2>1, QueueGrows
  <2>. QED BY <2>2 DEF h, Grown
<1>4. /\ T \in SUBSET Keys /\ S \in SUBSET Keys /\ S \subseteq T
      /\ T \subseteq S \cup {c \in Keys : OwnBit(c) \cap e.forwarded # {}}
  BY HeldIsAnswered
<1>5. \A c \in T \ S : c \in Accounted(e, dk)
  <2>. HIDE DEF e, dk, S, T
  <2>. QED BY <1>0, <1>4, ForwardedIsAnswered
<1>6. \A R \in SUBSET Keys : \A c \in DownAtEnd(R, acts) :
         c \in Accounted(f, dk2) \/ (c \in R /\ c \notin Accounted(e, dk)) \/ c \in e.pressed \ dk
  BY DEF DecidesWell
<1>7. e.pressed \ dk \subseteq missed
  BY DEF IInv, Loyal
<1>8. \A c \in S : c \in missed \/ \E other \in managed : c \in Accounted(engines[other], down[other])
  BY DEF IInv, OutAnswered, Answered
<1>9. TypeOK'
  <2>1. engines' \in [Keyboards -> Engine] /\ pending' \in [Keyboards -> SUBSET Keys]
        /\ down' \in [Keyboards -> SUBSET Keys] /\ batch' = kb
    BY <1>0 DEF TypeOK, Enqueue
  <2>2. \A other \in Keyboards : down'[other] \subseteq KeysOn[other]
    BY <1>0, <1>1 DEF TypeOK
  <2>3. disturbed' \in BOOLEAN
    BY History
  <2>4. /\ ring' \in [Keyboards -> Seq(Event)]
        /\ \A other \in Keyboards : ring'[other] \in Seq(KeyEvents(KeysOn[other]))
    BY <1>0 DEF TypeOK, RingLoses
  <2>. QED BY <1>0, <1>3, <2>1, <2>2, <2>3, <2>4 DEF TypeOK
<1>10. Sound'
  BY <1>0, <1>1 DEF Sound
<1>11. Phases'
  BY <1>0 DEF IInv, Phases
<1>12. Taken'
  <2>. SUFFICES ASSUME taking # NoKeyboard
                PROVE  /\ taking \notin managed /\ engines'[taking] = NoteHeldKeys(held)
                       /\ {j \in held : IsModifier(j)} \subseteq pending'[taking]
                       /\ held \ missed \subseteq DownBefore(down'[taking], ring'[taking])
    BY DEF Taken
  <2>1. taking \in Keyboards \ {kb}
    BY <1>0 DEF TypeOK
  <2>. QED BY <1>1, <2>1 DEF IInv, Taken, RingLoses
<1>13. Loyal'
  <2>1. f.swallowed \subseteq dk2 /\ f.pressed \ dk2 \subseteq missed
    BY <1>7 DEF DecidesWell
  <2>2. ASSUME NEW other \in managed'
        PROVE  /\ engines'[other].swallowed \subseteq down'[other]
               /\ engines'[other].pressed \ down'[other] \subseteq missed'
               /\ pending'[other] # {} => /\ engines'[other].swallowed = {}
                                          /\ ModifierCodes(engines'[other].forwarded) \subseteq pending'[other]
    <3>1. CASE other = kb
      BY <1>1, <2>1, <3>1
    <3>2. CASE other # kb
      <4>1. other \in Keyboards \ {kb} /\ other \in managed
        BY <1>0, <3>2 DEF TypeOK
      <4>. QED BY <1>1, <4>1 DEF IInv, Loyal
    <3>. QED BY <3>1, <3>2
  <2>. QED BY <2>2 DEF Loyal
<1>14. \A c : c \in Accounted(f, dk2) \/ c \in missed
               \/ (\E other \in managed \ {kb} : c \in Accounted(engines[other], down[other]))
               => Answered(c)'
  <2>1. managed \subseteq Keyboards
    BY <1>0 DEF TypeOK
  <2>. QED BY <1>1, <2>1 DEF Answered
<1>15. OutAnswered'
  <2>. SUFFICES ASSUME NEW c \in DownAtEnd(T, acts) PROVE Answered(c)'
    BY <1>3 DEF OutAnswered
  <2>. HIDE DEF S, T, e, dk
  <2>1. CASE c \in T /\ c \notin Accounted(e, dk)
    <3>1. c \in S
      BY <1>5, <2>1
    <3>2. c \in missed \/ \E other \in managed \ {kb} : c \in Accounted(engines[other], down[other])
      BY <1>8, <2>1, <3>1 DEF e, dk
    <3>. QED BY <1>14, <3>2
  <2>. QED BY <1>4, <1>6, <1>7, <1>14, <2>1
<1>16. ClientAnswered'
  <2>. SUFFICES ASSUME NEW c \in client, Stays(c, queue')
                PROVE  Answered(c)' \/ ByTakeover(c)' \/ \E other \in managed : Unread(other, c)'
    BY DEF ClientAnswered
  <2>0. c \in Keys /\ Stays(c, queue) /\ Stays(c, acts)
    BY <1>0, <1>3 DEF TypeOK
  <2>1. CASE ByTakeover(c)
    <3>1. taking \in Keyboards \ {kb}
      BY <1>0, <2>1 DEF TypeOK, ByTakeover
    <3>. QED BY <1>1, <2>1, <3>1 DEF ByTakeover, RingLoses
  <2>2. CASE c \in missed
    BY <1>14, <2>2
  <2>3. ASSUME NEW other \in managed, c \in Accounted(engines[other], down[other])
        PROVE  Answered(c)'
    <3>1. CASE other # kb
      BY <1>14, <2>3, <3>1
    <3>2. CASE other = kb
      <4>1. c \in DownAtEnd({c}, acts)
        BY <1>0, <2>0, StaysOrPressed
      <4>2. c \in Accounted(f, dk2) \/ c \in e.pressed \ dk
        BY <1>6, <2>0, <2>3, <3>2, <4>1
      <4>. QED BY <1>7, <1>14, <4>2
    <3>. QED BY <3>1, <3>2
  <2>4. ASSUME NEW other \in managed, Unread(other, c)
        PROVE  Unread(other, c)'
    <3>1. CASE other # kb
      <4>1. other \in Keyboards \ {kb}
        BY <1>0, <3>1 DEF TypeOK
      <4>. QED BY <1>1, <2>4, <4>1 DEF Unread, RingLoses
    <3>2. CASE other = kb
      <4>1. c # k
        BY <2>0, <2>4, <3>2
      <4>2. c \in dk2 /\ c \notin f.pressed
        BY <2>4, <3>2, <4>1 DEF Unread
      <4>3. NamedIn(c, ring'[kb])
        BY <2>0, <2>4, <3>2, <4>1 DEF Unread, RingLoses
      <4>. QED BY <1>1, <3>2, <4>2, <4>3 DEF Unread
    <3>. QED BY <3>1, <3>2
  <2>5. Answered(c) \/ ByTakeover(c) \/ \E other \in managed : Unread(other, c)
    BY <2>0 DEF IInv, ClientAnswered
  <2>. QED BY <2>1, <2>2, <2>3, <2>4, <2>5 DEF Answered
<1>17. Undisturbed'
  <2>. SUFFICES ASSUME ~disturbed' PROVE Clean'
    BY DEF Undisturbed
  <2>1. ~Shared(engines') /\ ~conflict /\ (~disturbed \/ Calm')
    BY History
  <2>2. CASE Calm'
    BY <1>9, <1>10, <2>2, CalmIsClean DEF TypeOK
  <2>3. CASE ~disturbed
    <3>0. Clean /\ DecidesCleanly(e, dk, f, dk2, acts, OtherBits(kb))
      BY <2>1, <2>3 DEF IInv, Undisturbed
    <3>1. PhysicalPlusHeld(f) /\ f.pressed = {c \in dk2 : UsageOf[c] # NoUsage}
      BY <3>0 DEF DecidesCleanly
    <3>2. \A other \in Keyboards : PhysicalPlusHeld(engines'[other])
      BY <1>1, <3>0, <3>1 DEF Clean
    <3>3. \A other \in managed' : engines'[other].pressed = {c \in down'[other] : UsageOf[c] # NoUsage}
      <4>1. managed \subseteq Keyboards
        BY <1>0 DEF TypeOK
      <4>. QED BY <1>1, <3>0, <3>1, <4>1 DEF Clean
    <3>4. ASSUME NEW other \in managed', pending'[other] = {},
                 NEW c \in ModifierCodes(EmittedBits(engines'[other]))
          PROVE  c \in DownAtEnd(T, acts)
      <4>1. CASE other = kb
        <5>1. ModifierCodes(EmittedBits(e)) \subseteq T
          BY <2>3, HeldIsAnswered
        <5>2. ModifierCodes(EmittedBits(f)) \subseteq DownAtEnd(T, acts)
          BY <1>4, <3>0, <5>1 DEF DecidesCleanly
        <5>. QED BY <1>1, <3>4, <4>1, <5>2
      <4>2. CASE other # kb
        <5>1. other \in Keyboards \ {kb} /\ other \in managed \ {kb}
          BY <1>0, <4>2 DEF TypeOK
        <5>2. /\ EngineInv(engines[other]) /\ pending[other] = {}
              /\ c \in ModifierCodes(EmittedBits(engines[other]))
          BY <1>0, <1>1, <3>4, <5>1 DEF Sound, EngineSound
        <5>3. c \in Keys /\ OwnBit(c) # {} /\ OwnBit(c) \subseteq EmittedBits(engines[other])
          BY <5>2, OneBit DEF ModifierCodes
        <5>4. c \in T
          BY <1>4, <3>0, <5>1, <5>2 DEF Clean
        <5>5. OwnBit(c) \subseteq OtherBits(kb)
          BY <5>1, <5>3 DEF OtherBits
        <5>6. OwnBit(c) \cap Stands(e) = {}
          <6>1. Stands(engines[other]) \cap Stands(e) = {}
            BY <1>0, <3>0, <5>1, NothingShared DEF TypeOK, Clean
          <6>2. EmittedBits(engines[other]) \subseteq Stands(engines[other])
            BY <5>2, EmittedIsStanding
          <6>. QED BY <5>3, <6>1, <6>2
        <5>. QED BY <1>4, <3>0, <5>3, <5>4, <5>5, <5>6 DEF DecidesCleanly
      <4>. QED BY <4>1, <4>2
    <3>5. ASSUME NEW i \in 1 .. Len(queue'), queue'[i].kind = "Tap",
                 NEW c \in DownAfter(out, queue', i - 1), OwnBit(c) # {},
                 OwnBit(c) \cap (queue'[i].key.modifiers \cup queue'[i].allowed) = {}
          PROVE  c \in missed
      <4>1. \/ /\ i \in 1 .. Len(queue) /\ queue'[i] = queue[i]
               /\ DownAfter(out, queue', i - 1) = DownAfter(out, queue, i - 1)
            \/ \E j \in 1 .. Len(Held(kb)) : queue'[i] = Held(kb)[j]
            \/ \E j \in 1 .. Len(acts) :
                 /\ queue'[i] = acts[j]
                 /\ DownAfter(out, queue', i - 1) = DownAfter(T, acts, j - 1)
        BY <1>3, <3>5 DEF Grown
      <4>2. CASE /\ i \in 1 .. Len(queue) /\ queue'[i] = queue[i]
                 /\ DownAfter(out, queue', i - 1) = DownAfter(out, queue, i - 1)
        BY <3>0, <3>5, <4>2 DEF Clean
      <4>3. CASE \E j \in 1 .. Len(Held(kb)) : queue'[i] = Held(kb)[j]
        BY <3>5, <4>3, HeldIsAnswered
      <4>4. ASSUME NEW j \in 1 .. Len(acts), queue'[i] = acts[j],
                   DownAfter(out, queue', i - 1) = DownAfter(T, acts, j - 1)
            PROVE  c \in missed
        <5>1. c \in T /\ OwnBit(c) \cap OtherBits(kb) = {} /\ c \notin Accounted(e, dk)
          <6>1. TapsCleanly(e, dk, acts, OtherBits(kb))
            BY <3>0 DEF DecidesCleanly
          <6>2. /\ acts[j].kind = "Tap" /\ c \in DownAfter(T, acts, j - 1)
                /\ OwnBit(c) \cap acts[j].allowed = {}
            BY <3>5, <4>4
          <6>. HIDE DEF T, e, dk
          <6>. QED BY <1>4, <3>5, <6>1, <6>2 DEF TapsCleanly
        <5>2. c \in S
          BY <1>5, <5>1
        <5>3. ASSUME NEW other \in managed \ {kb}, c \in Accounted(engines[other], down[other])
              PROVE  FALSE
          <6>1. PassedMarked(engines[other])
            BY <1>0 DEF TypeOK, Sound, EngineSound
          <6>2. OwnBit(c) \cap EmittedBits(engines[other]) # {}
            BY <3>5, <5>3, <6>1, AnsweredModifier
          <6>. QED BY <5>1, <6>2 DEF OtherBits
        <5>. QED BY <1>8, <5>1, <5>2, <5>3
      <4>. QED BY <4>1, <4>2, <4>3, <4>4
    <3>. QED BY <1>3, <2>1, <3>2, <3>3, <3>4, <3>5 DEF Clean
  <2>. QED BY <2>1, <2>2, <2>3
<1>. QED BY <1>9, <1>10, <1>11, <1>12, <1>13, <1>15, <1>16, <1>17 DEF IInv

(* The loop reads the first event of the ring, or a new one, and the event *)
(* of no other key is lost.                                                *)
LEMMA ReadLoses ==
  ASSUME TypeOK, NEW kb \in Keyboards, NEW k \in KeysOn[kb], NEW value,
         IF ring[kb] = << >>
         THEN ring' = ring
         ELSE /\ value # 2 /\ Head(ring[kb]) = [key |-> k, down |-> value = 1]
              /\ ring' = [ring EXCEPT ![kb] = Tail(@)]
  PROVE  /\ RingLoses(kb, k)
         /\ \A c : NamedIn(c, ring[kb]) => value # 2
<1>0. ring \in [Keyboards -> Seq(Event)] /\ ring[kb] \in Seq(KeyEvents(KeysOn[kb]))
      /\ ring[kb] \in Seq(Event)
  BY DEF TypeOK
<1>1. CASE ring[kb] = << >>
  <2>1. ring' = ring /\ Len(ring[kb]) = 0
    BY <1>1
  <2>. QED BY <1>0, <2>1 DEF RingLoses, NamedIn
<1>2. CASE ring[kb] # << >>
  <2>. DEFINE r == ring[kb]
  <2>1. ring' = [ring EXCEPT ![kb] = Tail(r)] /\ Head(r).key = k /\ value # 2
    BY <1>2
  <2>2. Tail(r) \in Seq(Event) /\ Tail(r) \in Seq(KeyEvents(KeysOn[kb]))
    BY <1>0, <1>2
  <2>3. r \in Seq(Event) /\ r # << >>
    BY <1>0, <1>2
  <2>. HIDE DEF r
  <2>4. ASSUME NEW c \in Keys \ {k}, NamedIn(c, r) PROVE NamedIn(c, Tail(r))
    <3>1. PICK i \in 1 .. Len(r) : r[i].key = c
      BY <2>4 DEF NamedIn
    <3>2. i # 1
      BY <2>1, <2>3, <2>4, <3>1
    <3>3. i - 1 \in 1 .. Len(Tail(r)) /\ Tail(r)[i - 1] = r[i]
      BY <2>3, <3>2
    <3>. QED BY <3>1, <3>3 DEF NamedIn
  <2>5. ring'[kb] = Tail(r) /\ \A other \in Keyboards \ {kb} : ring'[other] = ring[other]
    BY <1>0, <2>1
  <2>6. ring' \in [Keyboards -> Seq(Event)]
    BY <1>0, <2>1, <2>2
  <2>. QED BY <2>1, <2>2, <2>4, <2>5, <2>6 DEF RingLoses, r
<1>. QED BY <1>1, <1>2

(* Every event that the loop reads.                                        *)
LEMMA ReadsKeyKeeps ==
  ASSUME IInv, NEW kb \in Keyboards, NEW k \in KeysOn[kb], NEW value \in 0 .. 2,
         ReadsKey(kb, k, value)
  PROVE  IInv'
<1>. DEFINE e == engines[kb]
            dk == down[kb]
            others == OtherBits(kb)
<1>0. KeyEvent(kb, k, value) /\ RingLoses(kb, k) /\ \A c : NamedIn(c, ring[kb]) => value # 2
  BY ReadLoses DEF IInv, ReadsKey
<1>1. /\ Deciding(kb) /\ kb \in managed
      /\ UNCHANGED <<started, managed, lookup, emitting, out, taking, stage, held, found, client, missed>>
  BY <1>0 DEF ReadsKey, KeyEvent, KeyDown, KeyUp, UnresolvedKey, Deciding
<1>2. /\ k \in Keys /\ EngineSound(e) /\ EngineInv(e) /\ dk \in SUBSET KeysOn[kb] /\ dk \in SUBSET Keys
      /\ e.swallowed \subseteq dk /\ \A t \in DOMAIN lookup : lookup[t] \in Seq(NativeKey)
      /\ e.pressed \in SUBSET Keys
  <2>1. KeysOn[kb] \subseteq Keys /\ \A t \in DOMAIN lookup : lookup[t] \in Seq(NativeKey)
    BY RemapAssumption DEF IInv, TypeOK
  <2>2. EngineSound(e) /\ dk \subseteq KeysOn[kb]
    BY DEF IInv, TypeOK, Sound
  <2>3. e.swallowed \subseteq dk
    BY <1>1 DEF IInv, Loyal
  <2>4. EngineInv(e) /\ e.pressed \in SUBSET Keys
    BY <2>2 DEF EngineSound, EngineInv, Engine
  <2>. QED BY <2>1, <2>2, <2>3, <2>4
<1>3. others \in Mask
  <2>1. ASSUME NEW other \in Keyboards PROVE EmittedBits(engines[other]) \in Mask
    <3>. DEFINE o == engines[other]
    <3>1. o \in Engine
      BY DEF IInv, TypeOK
    <3>. HIDE DEF o
    <3>2. o.forwarded \in Mask /\ \A j \in Keys : o.held[j] \in Mask
      BY <3>1 DEF Engine
    <3>3. HeldBits(o) \in Mask
      BY <3>2 DEF HeldBits, Mask
    <3>4. EmittedBits(o) \in Mask
      BY <3>2, <3>3 DEF EmittedBits, Mask
    <3>. QED BY <3>4 DEF o
  <2>2. managed \subseteq Keyboards
    BY DEF IInv, TypeOK
  <2>. QED BY <2>1, <2>2 DEF OtherBits, Mask
<1>4. ASSUME NEW f, DecidesWell(e, dk, f, down'[kb], << >>) \/ f \in Engine,
             engines' = [engines EXCEPT ![kb] = f], ~disturbed, ~Shared(engines')
      PROVE  /\ PhysicalPlusHeld(e) /\ ~Overlap(e) /\ ~Overlap(f)
             /\ e.pressed = {j \in dk : UsageOf[j] # NoUsage}
  <2>1. Clean /\ engines \in [Keyboards -> Engine]
    BY <1>4 DEF IInv, Undisturbed, TypeOK
  <2>2. f \in Engine
    BY <1>4 DEF DecidesWell, EngineSound, EngineInv
  <2>3. engines' \in [Keyboards -> Engine] /\ engines'[kb] = f
    BY <1>4, <2>1, <2>2
  <2>4. ~Overlap(e)
    BY <2>1, NothingShared DEF Clean
  <2>5. ~Overlap(engines'[kb])
    BY <1>4, <2>3, NothingShared
  <2>. QED BY <1>1, <2>1, <2>3, <2>4, <2>5 DEF Clean
<1>5. CASE value \in {1, 2} /\ KeyDown(kb, k, value)
  <2>. DEFINE f == AfterDown(e, k, kb, TRUE, lookup)
              acts == DownPlan(e, k, kb, lookup, value, others)
              conflict == TapConflict(DownDecision(e, k, kb, TRUE, lookup).outputs, others)
  <2>1. /\ UsageOf[k] # NoUsage /\ ((value = 2) <=> (k \in dk))
        /\ Decides(kb, f, dk \cup {k}, acts) /\ TrackConflict(conflict)
    BY <1>1, <1>5 DEF KeyDown, Decides, DownPlan
  <2>2. DecidesWell(e, dk, f, dk \cup {k}, acts)
    BY <1>2, <1>3, <1>5, <2>1, DownDecidesWell
  <2>3. f \in Engine
    BY <2>2 DEF DecidesWell, EngineSound, EngineInv
  <2>4. ASSUME ~disturbed, ~conflict, ~Shared(engines')
        PROVE  DecidesCleanly(e, dk, f, dk \cup {k}, acts, others)
    <3>1. /\ PhysicalPlusHeld(e) /\ ~Overlap(e) /\ ~Overlap(f)
          /\ e.pressed = {j \in dk : UsageOf[j] # NoUsage}
      BY <1>4, <2>1, <2>3, <2>4 DEF Decides
    <3>. QED BY <1>2, <1>3, <1>5, <2>1, <2>4, <3>1, DownDecidesCleanly
  <2>5. f.pressed \subseteq e.pressed \cup {k}
    BY <1>2 DEF AfterDown, FireTrigger, PressUnmapped, EngineInv, Engine
  <2>6. ~Unread(kb, k)
    BY <1>0, <1>5, <2>1 DEF Unread
  <2>7. dk \cup {k} \in SUBSET KeysOn[kb]
    BY <1>2
  <2>. HIDE DEF f, acts, conflict
  <2>. QED BY <1>0, <1>1, <1>2, <2>1, <2>2, <2>4, <2>5, <2>6, <2>7, DecisionKeeps
<1>6. CASE value = 0 /\ KeyUp(kb, k)
  <2>. DEFINE f == AfterUp(e, k)
              acts == UpPlan(e, k)
  <2>1. /\ UsageOf[k] # NoUsage /\ k \in dk
        /\ Decides(kb, f, dk \ {k}, acts) /\ TrackConflict(FALSE)
    BY <1>1, <1>6 DEF KeyUp, Decides, UpPlan
  <2>2. DecidesWell(e, dk, f, dk \ {k}, acts)
    BY <1>2, <2>1, UpDecidesWell
  <2>3. f \in Engine
    BY <2>2 DEF DecidesWell, EngineSound, EngineInv
  <2>4. ASSUME ~disturbed, ~Shared(engines')
        PROVE  DecidesCleanly(e, dk, f, dk \ {k}, acts, others)
    <3>1. /\ PhysicalPlusHeld(e) /\ ~Overlap(e)
          /\ e.pressed = {j \in dk : UsageOf[j] # NoUsage}
      BY <1>4, <2>1, <2>3, <2>4 DEF Decides
    <3>. QED BY <1>2, <1>3, <2>1, <3>1, UpDecidesCleanly
  <2>5. f.pressed \subseteq e.pressed \cup {k}
    BY <1>2 DEF AfterUp, ReleaseSwallowed, ReleaseForwarded, EngineInv, Engine
  <2>6. k \notin e.pressed => ~Stays(k, acts)
    BY <1>2, <2>1, AfterUpAnswers
  <2>7. dk \ {k} \in SUBSET KeysOn[kb] /\ (Unread(kb, k) => k \notin e.pressed)
    BY <1>2 DEF Unread
  <2>. HIDE DEF f, acts
  <2>. QED BY <1>0, <1>1, <1>2, <2>1, <2>2, <2>4, <2>5, <2>6, <2>7, DecisionKeeps
<1>7. CASE UnresolvedKey(kb, k, value)
  <2>. DEFINE f == IF value = 0 THEN ClearStaleKey(e, k) ELSE e
              dk2 == IF value = 0 THEN dk \ {k} ELSE dk \cup {k}
              acts == IF value = 2 /\ k \in e.stale THEN << >> ELSE <<Forward(k, value)>>
  <2>1. /\ UsageOf[k] = NoUsage /\ ((value = 1) <=> (k \notin dk))
        /\ Decides(kb, f, dk2, acts) /\ TrackConflict(FALSE)
    <3>1. engines' = [engines EXCEPT ![kb] = f]
      BY <1>7 DEF UnresolvedKey
    <3>2. down' = [down EXCEPT ![kb] = dk2] /\ Enqueue(kb, acts)
      BY <1>7 DEF UnresolvedKey
    <3>. QED BY <1>1, <1>7, <3>1, <3>2 DEF UnresolvedKey, Decides
  <2>2. MayForward(k, value, acts) /\ dk \ {k} \subseteq dk2 /\ dk2 \subseteq dk \cup {k}
    BY DEF MayForward
  <2>. HIDE DEF f, dk2, acts
  <2>3. /\ DecidesWell(e, dk, f, dk2, acts) /\ (value = 0 => ~Stays(k, acts))
        /\ UpToStale(e, f)
    <3>1. /\ value = 0 => f = ClearStaleKey(e, k) /\ dk2 = dk \ {k}
          /\ value # 0 => f = e /\ dk2 = dk \cup {k}
      BY DEF f, dk2
    <3>2. EngineSound(e) /\ k \in Keys /\ dk \in SUBSET Keys /\ e.swallowed \subseteq dk
      BY <1>2
    <3>. HIDE DEF e, dk
    <3>. QED BY <2>1, <2>2, <3>1, <3>2, UnresolvedDecidesWell
  <2>4. f \in Engine
    BY <2>3 DEF DecidesWell, EngineSound, EngineInv
  <2>5. ASSUME ~disturbed, ~Shared(engines')
        PROVE  DecidesCleanly(e, dk, f, dk2, acts, others)
    <3>1. /\ PhysicalPlusHeld(e)
          /\ e.pressed = {j \in dk : UsageOf[j] # NoUsage}
      BY <1>4, <2>1, <2>4, <2>5 DEF Decides
    <3>2. /\ EngineSound(e) /\ k \in Keys /\ dk \in SUBSET Keys /\ others \in Mask
          /\ UsageOf[k] = NoUsage
      BY <1>2, <1>3, <2>1
    <3>. HIDE DEF e, dk, others
    <3>. QED BY <2>2, <2>3, <3>1, <3>2, UnresolvedDecidesCleanly
  <2>6. f.pressed = e.pressed
    BY <1>2, <2>3 DEF EngineInv, Engine, UpToStale
  <2>7. Unread(kb, k) => value = 0
    BY <1>0, <2>1 DEF Unread
  <2>8. dk2 \in SUBSET KeysOn[kb] /\ dk \ {k} \subseteq dk2
    BY <1>2, <2>2
  <2>. QED BY <1>0, <1>1, <1>2, <2>1, <2>3, <2>5, <2>6, <2>7, <2>8, DecisionKeeps
<1>. QED BY <1>0, <1>5, <1>6, <1>7 DEF KeyEvent

-----------------------------------------------------------------------------
(* The takeover of a keyboard preserves the invariant *)

\* Nothing changes but what belongs to the keyboard kb, and more may be missed.
Aside(kb) ==
  /\ UNCHANGED <<started, managed, lookup, batch, emitting, queue, out>>
  /\ missed \subseteq missed'
  /\ \A other \in Keyboards \ {kb} :
       /\ engines'[other] = engines[other] /\ pending'[other] = pending[other]
       /\ down'[other] = down[other] /\ ring'[other] = ring[other]

\* What the invariant says of the loop, and what becomes of those who answer.
LoopKept ==
  /\ Sound' /\ Loyal' /\ OutAnswered' /\ Undisturbed'
  /\ (emitting' => queue' # << >>) /\ (~started' => queue' = << >>)
  /\ \A c : Answered(c) => Answered(c)'
  /\ \A c : \A kb \in managed : Unread(kb, c) => Unread(kb, c)'

(* A keyboard that the loop does not manage yet is of no concern to it.    *)
LEMMA AsideKeeps ==
  ASSUME IInv, NEW kb \in Keyboards \ managed, Aside(kb), TypeOK',
         EngineSound(engines'[kb]), PhysicalPlusHeld(engines'[kb]),
         ~disturbed' => ~Shared(engines') /\ (~disturbed \/ Calm')
  PROVE  LoopKept
<1>1. /\ managed \subseteq Keyboards /\ managed' = managed
      /\ \A other \in managed : /\ engines'[other] = engines[other]
                                /\ pending'[other] = pending[other]
                                /\ down'[other] = down[other] /\ ring'[other] = ring[other]
  BY DEF IInv, TypeOK, Aside
<1>2. Sound'
  <2>1. ASSUME NEW other \in Keyboards \ {kb} PROVE EngineSound(engines'[other])
    <3>1. engines'[other] = engines[other]
      BY DEF Aside
    <3>. QED BY <3>1 DEF IInv, Sound
  <2>2. \A other \in Keyboards : EngineSound(engines'[other])
    BY <2>1
  <2>. QED BY <2>2 DEF Sound
<1>3. Loyal'
  BY <1>1 DEF IInv, Loyal, Aside
<1>4. ASSUME NEW c, Answered(c) PROVE Answered(c)'
  BY <1>1, <1>4 DEF Answered, Aside
<1>5. OutAnswered'
  <2>1. DownAtEnd(out, queue)' = DownAtEnd(out, queue)
    BY DEF Aside, DownAtEnd, DownAfter
  <2>. QED BY <1>4, <2>1 DEF IInv, OutAnswered
<1>6. ASSUME NEW c, NEW other \in managed, Unread(other, c) PROVE Unread(other, c)'
  BY <1>1, <1>6 DEF Unread, NamedIn
<1>7. /\ (emitting' => queue' # << >>) /\ (~started' => queue' = << >>)
  BY DEF IInv, Phases, Aside
<1>8. Undisturbed'
  <2>1. CASE Calm'
    <3>1. managed' \subseteq Keyboards /\ out' \subseteq Keys
      BY DEF TypeOK
    <3>. QED BY <1>2, <2>1, <3>1, CalmIsClean DEF Undisturbed
  <2>2. ASSUME ~disturbed, ~Shared(engines') PROVE Clean'
    <3>1. Clean
      BY <2>2 DEF IInv, Undisturbed
    <3>2. \A other \in Keyboards : PhysicalPlusHeld(engines'[other])
      <4>1. ASSUME NEW other \in Keyboards \ {kb} PROVE PhysicalPlusHeld(engines'[other])
        <5>1. engines'[other] = engines[other]
          BY DEF Aside
        <5>. QED BY <3>1, <5>1 DEF Clean
      <4>. QED BY <4>1
    <3>3. \A other \in managed : engines'[other].pressed = {k \in down'[other] : UsageOf[k] # NoUsage}
      BY <1>1, <3>1 DEF Clean
    <3>4. ASSUME NEW other \in managed, pending'[other] = {}
          PROVE  ModifierCodes(EmittedBits(engines'[other])) \subseteq DownAtEnd(out, queue)'
      <4>1. DownAtEnd(out, queue)' = DownAtEnd(out, queue)
        BY DEF Aside, DownAtEnd, DownAfter
      <4>. QED BY <1>1, <3>1, <3>4, <4>1 DEF Clean
    <3>5. ASSUME NEW i \in 1 .. Len(queue), queue[i].kind = "Tap",
                 NEW c \in DownAfter(out, queue, i - 1), OwnBit(c) # {},
                 OwnBit(c) \cap (queue[i].key.modifiers \cup queue[i].allowed) = {}
          PROVE  c \in missed'
      BY <3>1, <3>5 DEF Clean, Aside
    <3>6. out' = out /\ queue' = queue
      BY DEF Aside
    <3>. QED BY <1>1, <2>2, <3>2, <3>3, <3>4, <3>5, <3>6 DEF Clean
  <2>. QED BY <2>1, <2>2 DEF Undisturbed
<1>. QED BY <1>2, <1>3, <1>4, <1>5, <1>6, <1>7, <1>8 DEF LoopKept

(* What remains to be shown of a step that takes over a keyboard.          *)
LEMMA AsideInv ==
  ASSUME IInv, NEW kb \in Keyboards \ managed, Aside(kb), TypeOK',
         EngineSound(engines'[kb]), PhysicalPlusHeld(engines'[kb]),
         ~disturbed' => ~Shared(engines') /\ (~disturbed \/ Calm'),
         taking' = NoKeyboard <=> stage' = "none",
         stage' \in {"none", "grabbed", "drained"} => held' = {},
         Taken',
         \A c \in client' : \/ c \in client /\ ~ByTakeover(c)
                            \/ c \in missed'
                            \/ ByTakeover(c)'
  PROVE  IInv'
<1>1. LoopKept
  BY AsideKeeps
<1>2. ClientAnswered'
  <2>1. queue' = queue /\ managed' = managed
    BY DEF Aside
  <2>2. ASSUME NEW c \in client', Stays(c, queue)
        PROVE  Answered(c)' \/ ByTakeover(c)' \/ \E other \in managed : Unread(other, c)'
    <3>1. CASE c \in client /\ ~ByTakeover(c)
      <4>1. Answered(c) \/ \E other \in managed : Unread(other, c)
        BY <2>2, <3>1 DEF IInv, ClientAnswered
      <4>. QED BY <1>1, <4>1 DEF LoopKept
    <3>2. CASE c \in missed'
      BY <3>2 DEF Answered
    <3>. QED BY <2>2, <3>1, <3>2
  <2>3. \A c : Stays(c, queue)' <=> Stays(c, queue)
    BY <2>1 DEF Stays
  <2>. QED BY <2>1, <2>2, <2>3 DEF ClientAnswered
<1>3. Phases'
  BY <1>1 DEF LoopKept, Phases
<1>. QED BY <1>1, <1>2, <1>3 DEF IInv, LoopKept

(* A keyboard is grabbed while clients have its keys.                      *)
LEMMA GrabKeeps ==
  ASSUME IInv, NEW kb \in Keyboards, NEW keys \in SUBSET KeysOn[kb],
         NEW last \in {<< >>} \cup {<<e>> : e \in [key : KeysOn[kb], down : BOOLEAN]},
         Grab(kb, keys, last)
  PROVE  IInv'
<1>1. /\ taking = NoKeyboard /\ kb \notin managed /\ taking' = kb /\ stage' = "grabbed"
      /\ kb # NoKeyboard /\ KeysOn[kb] \subseteq Keys
  BY RemapAssumption DEF Grab
<1>2. last \in Seq(KeyEvents(KeysOn[kb])) /\ last \in Seq(KeyEvents(Keys)) /\ last \in Seq(Event)
  <2>1. CASE last = << >>
    BY <2>1
  <2>2. ASSUME NEW e \in [key : KeysOn[kb], down : BOOLEAN], last = <<e>>
        PROVE  last \in Seq(KeyEvents(KeysOn[kb])) /\ last \in Seq(KeyEvents(Keys)) /\ last \in Seq(Event)
    <3>1. e \in KeyEvents(KeysOn[kb]) /\ e \in KeyEvents(Keys) /\ e \in Event
      BY <1>1 DEF KeyEvents, Event
    <3>. QED BY <2>2, <3>1
  <2>. QED BY <2>1, <2>2
<1>3. held = {} /\ held' = {}
  BY <1>1 DEF IInv, Phases, Grab
<1>4. engines'[kb] = NoteHeldKeys({}) /\ down'[kb] = keys /\ ring'[kb] = last
  BY NothingNoted DEF IInv, TypeOK, Grab
<1>5. EngineSound(engines'[kb]) /\ PhysicalPlusHeld(engines'[kb])
  BY <1>4, NotedEngine
<1>6. Aside(kb)
  BY DEF Grab, Others, IInv, TypeOK, Aside
<1>7. disturbed' \in BOOLEAN /\ (~disturbed' => ~Shared(engines') /\ (~disturbed \/ Calm'))
  BY History DEF Grab
<1>8. TypeOK'
  <2>1. FreshEngine \in Engine
    <3>1. EngineSound(FreshEngine)
      BY <1>4, <1>5, NothingNoted
    <3>. QED BY <3>1 DEF EngineSound, EngineInv
  <2>2. keys \in SUBSET Keys
    BY <1>1
  <2>3. /\ engines' \in [Keyboards -> Engine] /\ down' \in [Keyboards -> SUBSET Keys]
        /\ ring' \in [Keyboards -> Seq(Event)]
    BY <1>2, <2>1, <2>2 DEF Grab, IInv, TypeOK
  <2>4. \A other \in Keyboards : /\ down'[other] \subseteq KeysOn[other]
                                 /\ ring'[other] \in Seq(KeyEvents(KeysOn[other]))
    BY <1>2, <1>4, <1>6 DEF Aside, IInv, TypeOK
  <2>. QED BY <1>1, <1>3, <1>7, <2>2, <2>3, <2>4 DEF Grab, Others, IInv, TypeOK
<1>9. Taken'
  <2>1. managed' = managed
    BY <1>6 DEF Aside
  <2>. QED BY <1>1, <1>3, <1>4, <2>1 DEF Taken
<1>10. ASSUME NEW c \in client'
       PROVE  (c \in client /\ ~ByTakeover(c)) \/ ByTakeover(c)'
  <2>1. CASE c \in client
    BY <1>1, <2>1 DEF ByTakeover
  <2>2. CASE c \in keys
    <3>1. c \in DownBefore(keys, last) \/ NamedIn(c, last)
      BY <1>2, <2>2, DownBeforeNamed DEF NamedIn
    <3>. QED BY <1>1, <1>4, <3>1 DEF ByTakeover
  <2>. QED BY <2>1, <2>2 DEF Grab
<1>. QED BY <1>1, <1>3, <1>5, <1>6, <1>7, <1>8, <1>9, <1>10, AsideInv

(* What is discarded from the ring is missed, unless its key is down.      *)
LEMMA DiscardsAll ==
  ASSUME IInv, taking \in Keyboards, NEW noted \in SUBSET Keys,
         Discard(Len(ring[taking]), noted)
  PROVE  /\ ring' \in [Keyboards -> Seq(Event)]
         /\ ring'[taking] = << >>
         /\ \A other \in Keyboards : ring'[other] \in Seq(KeyEvents(KeysOn[other]))
         /\ \A other \in Keyboards \ {taking} : ring'[other] = ring[other]
         /\ missed \subseteq missed' /\ missed' \subseteq Keys
         /\ noted \ down[taking] \subseteq missed'
         /\ \A c \in client : NamedIn(c, ring[taking]) => c \in down[taking] \cup missed'
<1>1. /\ ring \in [Keyboards -> Seq(Event)] /\ missed \subseteq Keys /\ client \subseteq Keys
      /\ \A other \in Keyboards : ring[other] \in Seq(KeyEvents(KeysOn[other]))
  BY DEF IInv, TypeOK
<1>. DEFINE r == ring[taking]
<1>2. r \in Seq(Event)
  BY <1>1
<1>3. SubSeq(r, Len(r) + 1, Len(r)) = << >>
  BY <1>2, SubSeqEmpty
<1>4. ring' = [ring EXCEPT ![taking] = << >>]
  BY <1>3 DEF Discard
<1>5. \A c \in client : NamedIn(c, r) => c \in {r[i].key : i \in 1 .. Len(r)} \cap client
  BY DEF NamedIn
<1>6. missed' = missed \cup (({r[i].key : i \in 1 .. Len(r)} \cap client) \ down[taking])
                  \cup (noted \ down[taking])
  BY DEF Discard
<1>. HIDE DEF r
<1>7. << >> \in Seq(Event) /\ \A other \in Keyboards : << >> \in Seq(KeyEvents(KeysOn[other]))
  OBVIOUS
<1>8. ring' \in [Keyboards -> Seq(Event)] /\ ring'[taking] = << >>
  BY <1>1, <1>4, <1>7
<1>9. \A other \in Keyboards \ {taking} : ring'[other] = ring[other]
  BY <1>1, <1>4
<1>10. \A other \in Keyboards : ring'[other] \in Seq(KeyEvents(KeysOn[other]))
  BY <1>1, <1>7, <1>8, <1>9
<1>11. \A c \in client : NamedIn(c, r) => c \in down[taking] \cup missed'
  BY <1>5, <1>6
<1>. QED BY <1>1, <1>6, <1>8, <1>9, <1>10, <1>11 DEF r

(* The events in a ring are key events.                                    *)
LEMMA RingTyped ==
  ASSUME IInv, NEW kb \in Keyboards
  PROVE  ring[kb] \in Seq(KeyEvents(Keys)) /\ ring[kb] \in Seq(Event)
<1>1. ring[kb] \in Seq(KeyEvents(KeysOn[kb])) /\ ring[kb] \in Seq(Event)
  BY DEF IInv, TypeOK
<1>2. Event = KeyEvents(Keys)
  BY DEF Event, KeyEvents
<1>. QED BY <1>1, <1>2

(* The ring of a grabbed keyboard is drained before its keys are read.     *)
LEMMA DrainKeeps ==
  ASSUME IInv, DrainPending
  PROVE  IInv'
<1>1. /\ taking \in Keyboards \ managed /\ stage = "grabbed" /\ stage' = "drained"
      /\ engines[taking] = NoteHeldKeys(held) /\ taking' = taking /\ taking # NoKeyboard
      /\ held = {} /\ held' = {} /\ held \subseteq Keys
  BY DEF IInv, TypeOK, Phases, Taken, DrainPending
<1>2. /\ UNCHANGED <<started, managed, engines, pending, down, lookup, batch, emitting,
                     queue, out, disturbed, client>>
      /\ Discard(Len(ring[taking]), {}) /\ found' \in BOOLEAN
  BY DEF DrainPending, vars
<1>3. /\ ring' \in [Keyboards -> Seq(Event)]
      /\ ring'[taking] = << >>
      /\ \A other \in Keyboards : ring'[other] \in Seq(KeyEvents(KeysOn[other]))
      /\ \A other \in Keyboards \ {taking} : ring'[other] = ring[other]
      /\ missed \subseteq missed' /\ missed' \subseteq Keys
      /\ \A c \in client : NamedIn(c, ring[taking]) => c \in down[taking] \cup missed'
  BY <1>1, <1>2, DiscardsAll
<1>4. Aside(taking)
  BY <1>2, <1>3 DEF Aside
<1>5. EngineSound(engines'[taking]) /\ PhysicalPlusHeld(engines'[taking])
  BY <1>1, <1>2, NotedEngine
<1>6. ~disturbed' => ~Shared(engines') /\ ~disturbed
  BY <1>2 DEF IInv, Undisturbed, Clean
<1>7. TypeOK'
  BY <1>1, <1>2, <1>3 DEF IInv, TypeOK
<1>8. Taken'
  <2>1. /\ engines'[taking] = NoteHeldKeys(held') /\ taking \notin managed'
        /\ \A k : k \notin held'
    BY <1>1, <1>2
  <2>. QED BY <1>1, <2>1 DEF Taken
<1>9. ASSUME NEW c \in client'
      PROVE  (c \in client /\ ~ByTakeover(c)) \/ c \in missed' \/ ByTakeover(c)'
  <2>1. ASSUME c \in down[taking] PROVE ByTakeover(c)'
    <3>1. DownBefore(down'[taking], ring'[taking]) = down[taking]
      BY <1>2, <1>3, DownBeforeNothing
    <3>. QED BY <1>1, <2>1, <3>1 DEF ByTakeover
  <2>2. ASSUME ByTakeover(c) PROVE c \in down[taking] \/ NamedIn(c, ring[taking])
    <3>1. ring[taking] \in Seq(KeyEvents(Keys))
      BY <1>1, RingTyped
    <3>2. c \in DownBefore(down[taking], ring[taking]) \/ NamedIn(c, ring[taking])
      BY <1>1, <2>2 DEF ByTakeover
    <3>. QED BY <3>1, <3>2, DownBeforeNamed DEF NamedIn
  <2>. QED BY <1>2, <1>3, <2>1, <2>2
<1>. QED BY <1>1, <1>4, <1>5, <1>6, <1>7, <1>8, <1>9, AsideInv

(* Its keys are noted, if the kernel tells them.                           *)
LEMMA CaptureKeeps ==
  ASSUME IInv, NEW answered \in BOOLEAN, CaptureHeldKeys(answered)
  PROVE  IInv'
<1>1. /\ taking \in Keyboards \ managed /\ stage = "drained" /\ stage' \in {"taken", "captured"}
      /\ taking' = taking /\ taking # NoKeyboard
      /\ held' = (IF answered THEN down[taking] ELSE {}) /\ found' = FALSE
  BY DEF IInv, TypeOK, Phases, Taken, CaptureHeldKeys, KeyState
<1>2. /\ UNCHANGED <<started, managed, lookup, batch, emitting, queue, out, down, client>>
      /\ engines' = [engines EXCEPT ![taking] = NoteHeldKeys(held')]
      /\ pending' = [pending EXCEPT ![taking] = {k \in held' : IsModifier(k)}]
  BY DEF CaptureHeldKeys, Others
<1>3. /\ ring' \in [Keyboards -> Seq(Event)]
      /\ answered => ring'[taking] = << >>
      /\ ~answered => ring' = ring
      /\ \A other \in Keyboards : ring'[other] \in Seq(KeyEvents(KeysOn[other]))
      /\ \A other \in Keyboards \ {taking} : ring'[other] = ring[other]
      /\ missed \subseteq missed' /\ missed' \subseteq Keys
      /\ answered => \A c \in client : NamedIn(c, ring[taking]) => c \in down[taking] \cup missed'
  <2>1. CASE answered
    <3>1. Discard(Len(ring[taking]), {})
      BY <2>1 DEF CaptureHeldKeys
    <3>. QED BY <1>1, <2>1, <3>1, DiscardsAll
  <2>2. CASE ~answered
    <3>1. ring' = ring /\ missed' = missed
      BY <2>2 DEF CaptureHeldKeys
    <3>. QED BY <2>2, <3>1 DEF IInv, TypeOK
  <2>. QED BY <2>1, <2>2
<1>4. /\ held' \in SUBSET Keys /\ engines'[taking] = NoteHeldKeys(held')
      /\ pending'[taking] = {k \in held' : IsModifier(k)}
  BY <1>1, <1>2 DEF IInv, TypeOK
<1>5. EngineSound(engines'[taking]) /\ PhysicalPlusHeld(engines'[taking])
  BY <1>4, NotedEngine
<1>6. Aside(taking)
  BY <1>1, <1>2, <1>3 DEF Aside, IInv, TypeOK
<1>7. disturbed' \in BOOLEAN /\ (~disturbed' => ~Shared(engines') /\ (~disturbed \/ Calm'))
  BY History DEF CaptureHeldKeys
<1>8. TypeOK'
  <2>1. NoteHeldKeys(held') \in Engine /\ {k \in held' : IsModifier(k)} \in SUBSET Keys
    BY <1>4, <1>5 DEF EngineSound, EngineInv
  <2>. HIDE DEF NoteHeldKeys, IsModifier
  <2>2. engines' \in [Keyboards -> Engine] /\ pending' \in [Keyboards -> SUBSET Keys]
    BY <1>2, <2>1 DEF IInv, TypeOK
  <2>. QED BY <1>1, <1>2, <1>3, <1>4, <1>7, <2>2 DEF IInv, TypeOK
<1>9. ASSUME answered PROVE DownBefore(down'[taking], ring'[taking]) = down[taking]
  BY <1>2, <1>3, <1>9, DownBeforeNothing
<1>10. Taken'
  <2>1. held' \ missed' \subseteq DownBefore(down'[taking], ring'[taking])
    BY <1>1, <1>9
  <2>. QED BY <1>1, <1>2, <1>4, <2>1 DEF Taken
<1>11. ASSUME NEW c \in client'
       PROVE  (c \in client /\ ~ByTakeover(c)) \/ c \in missed' \/ ByTakeover(c)'
  <2>1. CASE ~answered
    BY <1>1, <1>2, <1>3, <2>1 DEF ByTakeover
  <2>2. CASE answered
    <3>1. ASSUME ByTakeover(c) PROVE c \in down[taking] \/ NamedIn(c, ring[taking])
      <4>1. ring[taking] \in Seq(KeyEvents(Keys))
        BY <1>1, RingTyped
      <4>2. c \in DownBefore(down[taking], ring[taking])
        BY <1>1, <3>1 DEF ByTakeover
      <4>. QED BY <4>1, <4>2, DownBeforeNamed DEF NamedIn
    <3>2. ASSUME c \in down[taking] PROVE ByTakeover(c)'
      BY <1>1, <1>9, <2>2, <3>2 DEF ByTakeover
    <3>. QED BY <1>2, <1>3, <2>2, <3>1, <3>2
  <2>. QED BY <2>1, <2>2
<1>. QED BY <1>1, <1>5, <1>6, <1>7, <1>8, <1>10, <1>11, AsideInv

(* The steps that only let go of the keyboard, and take it again.          *)
LEMMA StageKeeps ==
  ASSUME IInv, (\E done \in BOOLEAN : Ungrab(done)) \/ Regrab
  PROVE  IInv'
<1>1. /\ taking \in Keyboards \ managed /\ taking # NoKeyboard
      /\ engines[taking] = NoteHeldKeys(held) /\ held \subseteq Keys
      /\ stage \in {"captured", "drained again"} /\ stage' \in {"window", "taken"}
      /\ stage = "drained again" => stage' = "taken"
  BY DEF IInv, TypeOK, Phases, Taken, Ungrab, Regrab
<1>2. /\ UNCHANGED <<started, managed, engines, pending, down, lookup, batch, emitting,
                     queue, out, disturbed>>
      /\ UNCHANGED <<taking, held, found, ring, client, missed>>
  BY DEF Ungrab, Regrab, vars
<1>3. Aside(taking)
  BY <1>2 DEF Aside
<1>4. EngineSound(engines'[taking]) /\ PhysicalPlusHeld(engines'[taking])
  <2>1. held \in SUBSET Keys /\ engines'[taking] = NoteHeldKeys(held)
    BY <1>1, <1>2
  <2>. QED BY <2>1, NotedEngine
<1>5. ~disturbed' => ~Shared(engines') /\ ~disturbed
  BY <1>2 DEF IInv, Undisturbed, Clean
<1>6. TypeOK'
  BY <1>1, <1>2 DEF IInv, TypeOK
<1>7. Taken'
  BY <1>1, <1>2 DEF IInv, Taken
<1>8. ASSUME NEW c \in client', ByTakeover(c) PROVE ByTakeover(c)'
  BY <1>1, <1>2, <1>8 DEF ByTakeover
<1>9. \A c \in client' : c \in client
  BY <1>2
<1>10. /\ taking' = NoKeyboard <=> stage' = "none"
       /\ stage' \notin {"none", "grabbed", "drained"}
  BY <1>1, <1>2
<1>. QED BY <1>1, <1>3, <1>4, <1>5, <1>6, <1>7, <1>8, <1>9, <1>10, AsideInv

(* What has come while the keyboard was let go of is discarded.            *)
LEMMA EndWindowKeeps ==
  ASSUME IInv, EndWindow
  PROVE  IInv'
<1>1. /\ taking \in Keyboards \ managed /\ stage = "window" /\ stage' = "drained again"
      /\ engines[taking] = NoteHeldKeys(held) /\ taking' = taking /\ taking # NoKeyboard
      /\ held' = held /\ held \in SUBSET Keys /\ {k \in held : IsModifier(k)} \subseteq pending[taking]
  BY DEF IInv, TypeOK, Phases, Taken, EndWindow
<1>2. /\ UNCHANGED <<started, managed, engines, pending, down, lookup, batch, emitting,
                     queue, out, disturbed, client, found>>
      /\ Discard(Len(ring[taking]), held)
  BY DEF EndWindow, vars
<1>3. /\ ring' \in [Keyboards -> Seq(Event)]
      /\ ring'[taking] = << >>
      /\ \A other \in Keyboards : ring'[other] \in Seq(KeyEvents(KeysOn[other]))
      /\ \A other \in Keyboards \ {taking} : ring'[other] = ring[other]
      /\ missed \subseteq missed' /\ missed' \subseteq Keys
      /\ held \ down[taking] \subseteq missed'
      /\ \A c \in client : NamedIn(c, ring[taking]) => c \in down[taking] \cup missed'
  BY <1>1, <1>2, DiscardsAll
<1>4. Aside(taking)
  BY <1>2, <1>3 DEF Aside
<1>5. EngineSound(engines'[taking]) /\ PhysicalPlusHeld(engines'[taking])
  <2>1. held \in SUBSET Keys /\ engines'[taking] = NoteHeldKeys(held)
    BY <1>1, <1>2
  <2>. QED BY <2>1, NotedEngine
<1>6. ~disturbed' => ~Shared(engines') /\ ~disturbed
  BY <1>2 DEF IInv, Undisturbed, Clean
<1>7. TypeOK'
  BY <1>1, <1>2, <1>3 DEF IInv, TypeOK
<1>8. DownBefore(down'[taking], ring'[taking]) = down[taking]
  BY <1>2, <1>3, DownBeforeNothing
<1>9. Taken'
  <2>1. held' \ missed' \subseteq DownBefore(down'[taking], ring'[taking])
    BY <1>1, <1>3, <1>8
  <2>. QED BY <1>1, <1>2, <2>1 DEF Taken
<1>10. ASSUME NEW c \in client'
       PROVE  (c \in client /\ ~ByTakeover(c)) \/ c \in missed' \/ ByTakeover(c)'
  <2>1. ASSUME c \in down[taking] PROVE ByTakeover(c)'
    BY <1>1, <1>8, <2>1 DEF ByTakeover
  <2>2. ASSUME ByTakeover(c) PROVE c \in down[taking] \/ NamedIn(c, ring[taking])
    <3>1. ring[taking] \in Seq(KeyEvents(Keys))
      BY <1>1, RingTyped
    <3>2. c \in DownBefore(down[taking], ring[taking]) \/ c \in down[taking]
      BY <1>1, <2>2 DEF ByTakeover
    <3>. QED BY <3>1, <3>2, DownBeforeNamed DEF NamedIn
  <2>. QED BY <1>2, <1>3, <2>1, <2>2
<1>. QED BY <1>1, <1>4, <1>5, <1>6, <1>7, <1>9, <1>10, AsideInv

(* In the window a key that was noted is released, and its note goes.      *)
LEMMA WindowKeeps ==
  ASSUME IInv, ReadInWindow
  PROVE  IInv'
<1>. DEFINE r == ring[taking]
            e == Head(r)
<1>1. /\ taking \in Keyboards \ managed /\ stage = "window" /\ stage' = "window"
      /\ engines[taking] = NoteHeldKeys(held) /\ taking' = taking /\ taking # NoKeyboard
      /\ held \in SUBSET Keys /\ {k \in held : IsModifier(k)} \subseteq pending[taking]
      /\ held \ missed \subseteq DownBefore(down[taking], r)
  BY DEF IInv, TypeOK, Phases, Taken, ReadInWindow
<1>2. /\ UNCHANGED <<started, managed, lookup, batch, emitting, queue, out,
                     pending, down, client, found>>
      /\ r # << >> /\ Discard(1, {})
  BY DEF ReadInWindow, Others
<1>3. /\ r \in Seq(KeyEvents(Keys)) /\ r \in Seq(Event) /\ r \in Seq(KeyEvents(KeysOn[taking]))
      /\ e.key \in Keys
  <2>1. r \in Seq(KeyEvents(Keys)) /\ r \in Seq(Event) /\ r \in Seq(KeyEvents(KeysOn[taking]))
    BY <1>1, RingTyped DEF IInv, TypeOK
  <2>2. e \in KeyEvents(Keys)
    BY <1>2, <2>1
  <2>. QED BY <2>1, <2>2 DEF KeyEvents
<1>4. /\ ring' = [ring EXCEPT ![taking] = Tail(r)]
      /\ missed' = missed \cup (({e.key} \cap client) \ down[taking])
  <2>1. SubSeq(r, 2, Len(r)) = Tail(r)
    BY <1>2, <1>3, TailIsSubSeq
  <2>2. {r[i].key : i \in 1 .. 1} = {e.key}
    BY <1>2, <1>3
  <2>3. /\ ring' = [ring EXCEPT ![taking] = SubSeq(r, 2, Len(r))]
        /\ missed' = missed \cup (({r[i].key : i \in 1 .. 1} \cap client) \ down[taking])
    BY <1>2 DEF Discard
  <2>. HIDE DEF r, e
  <2>. QED BY <2>1, <2>2, <2>3
<1>5. /\ ring' \in [Keyboards -> Seq(Event)] /\ ring'[taking] = Tail(r)
      /\ \A other \in Keyboards : ring'[other] \in Seq(KeyEvents(KeysOn[other]))
      /\ \A other \in Keyboards \ {taking} : ring'[other] = ring[other]
  <2>. HIDE DEF r
  <2>1. Tail(r) \in Seq(Event)
    BY <1>2, <1>3
  <2>2. Tail(r) \in Seq(KeyEvents(KeysOn[taking]))
    BY <1>2, <1>3
  <2>. QED BY <1>1, <1>4, <2>1, <2>2 DEF IInv, TypeOK
<1>6. /\ held' \in SUBSET held /\ engines' \in [Keyboards -> Engine]
      /\ engines'[taking] = NoteHeldKeys(held')
      /\ \A other \in Keyboards \ {taking} : engines'[other] = engines[other]
      /\ ~e.down => e.key \notin held'
  <2>1. CASE ~e.down /\ e.key \in held
    <3>1. held' = held \ {e.key} /\ Unnote(e.key)
      BY <2>1 DEF ReadInWindow
    <3>. DEFINE f == IF UsageOf[e.key] = NoUsage THEN ClearStaleKey(engines[taking], e.key)
                     ELSE UnnoteHeldKey(engines[taking], e.key)
    <3>2. engines' = [engines EXCEPT ![taking] = f]
      BY <3>1 DEF Unnote
    <3>3. f = NoteHeldKeys(held')
      BY <1>1, <2>1, <3>1, UnnotedEngine
    <3>. HIDE DEF f, e
    <3>4. f \in Engine
      <4>1. held' \in SUBSET Keys
        BY <1>1, <3>1
      <4>. QED BY <3>3, <4>1, NotedEngine DEF EngineSound, EngineInv
    <3>. QED BY <1>1, <3>1, <3>2, <3>3, <3>4 DEF IInv, TypeOK
  <2>2. CASE ~(~e.down /\ e.key \in held)
    <3>1. held' = held /\ engines' = engines
      BY <2>2 DEF ReadInWindow
    <3>. HIDE DEF e
    <3>. QED BY <1>1, <2>2, <3>1 DEF IInv, TypeOK
  <2>. QED BY <2>1, <2>2
<1>7. Aside(taking)
  BY <1>2, <1>4, <1>5, <1>6 DEF Aside
<1>8. EngineSound(engines'[taking]) /\ PhysicalPlusHeld(engines'[taking])
  <2>1. held' \in SUBSET Keys
    BY <1>1, <1>6
  <2>. QED BY <1>6, <2>1, NotedEngine
<1>9. disturbed' \in BOOLEAN /\ (~disturbed' => ~Shared(engines') /\ (~disturbed \/ Calm'))
  BY History DEF ReadInWindow
<1>10. TypeOK'
  <2>1. held' \subseteq Keys /\ missed' \subseteq Keys
    BY <1>1, <1>3, <1>4, <1>6 DEF IInv, TypeOK
  <2>. QED BY <1>1, <1>2, <1>5, <1>6, <1>9, <2>1 DEF IInv, TypeOK
<1>11. \A c : c # e.key => (c \in DownBefore(down[taking], Tail(r)) <=> c \in DownBefore(down[taking], r))
  BY <1>2, <1>3, DownBeforeTheFirst
<1>12. e.key \in DownBefore(down[taking], r) <=> ~e.down
  BY <1>2, <1>3, DownBeforeTheFirst
<1>13. Taken'
  <2>1. ASSUME NEW c \in held' \ missed' PROVE c \in DownBefore(down[taking], Tail(r))
    <3>1. c \in held \ missed
      BY <1>4, <1>6, <2>1
    <3>2. c \in DownBefore(down[taking], r)
      BY <1>1, <3>1
    <3>3. c # e.key
      BY <1>6, <1>12, <2>1, <3>2
    <3>. QED BY <1>11, <3>2, <3>3
  <2>2. {k \in held' : IsModifier(k)} \subseteq pending'[taking]
    BY <1>1, <1>2, <1>6
  <2>3. taking' \notin managed' /\ ring'[taking] = Tail(r) /\ down' = down
    BY <1>1, <1>2, <1>5
  <2>. HIDE DEF r
  <2>. QED BY <1>1, <1>6, <2>1, <2>2, <2>3 DEF Taken
<1>14. ASSUME NEW c \in client'
       PROVE  (c \in client /\ ~ByTakeover(c)) \/ c \in missed' \/ ByTakeover(c)'
  <2>1. /\ taking' # NoKeyboard /\ stage' = "window" /\ down'[taking'] = down[taking]
        /\ ring'[taking'] = Tail(r) /\ c \in client
    BY <1>1, <1>2, <1>5, <1>14
  <2>2. CASE c \in down[taking]
    BY <2>1, <2>2 DEF ByTakeover
  <2>3. CASE c = e.key /\ c \notin down[taking]
    BY <1>4, <2>1, <2>3
  <2>4. ASSUME c # e.key, c \notin down[taking], ByTakeover(c) PROVE ByTakeover(c)'
    <3>1. c \in DownBefore(down[taking], r)
      BY <1>1, <2>4 DEF ByTakeover
    <3>2. c \in DownBefore(down[taking], Tail(r))
      BY <1>11, <2>4, <3>1
    <3>. HIDE DEF r
    <3>. QED BY <2>1, <3>2 DEF ByTakeover
  <2>. HIDE DEF e
  <2>. QED BY <2>1, <2>2, <2>3, <2>4
<1>15. taking' # NoKeyboard /\ stage' \notin {"none", "grabbed", "drained"}
  BY <1>1
<1>. QED BY <1>1, <1>7, <1>8, <1>9, <1>10, <1>13, <1>14, <1>15, AsideInv

(* A key changes on the keyboard that is taken over.                       *)
LEMMA ChangeKeeps ==
  ASSUME IInv, NEW k \in Keys, KeyChanges(k)
  PROVE  IInv'
<1>. DEFINE dk == down[taking]
            dk2 == IF k \in dk THEN dk \ {k} ELSE dk \cup {k}
            r == ring[taking]
            event == [key |-> k, down |-> k \notin dk]
<1>1. /\ taking \in Keyboards \ managed /\ taking # NoKeyboard /\ taking' = taking
      /\ stage \notin {"none", "taken"} /\ stage' = stage /\ held' = held
      /\ engines[taking] = NoteHeldKeys(held) /\ held \in SUBSET Keys
      /\ held \ missed \subseteq DownBefore(dk, r)
      /\ {j \in held : IsModifier(j)} \subseteq pending[taking]
      /\ k \in KeysOn[taking]
  BY DEF IInv, TypeOK, Phases, Taken, KeyChanges
<1>2. /\ UNCHANGED <<started, managed, lookup, batch, emitting, queue, out,
                     engines, pending, missed, found>>
      /\ ring' = [ring EXCEPT ![taking] = Append(r, event)]
      /\ down' = [down EXCEPT ![taking] = dk2]
      /\ Grabbed => client' = client
      /\ ~Grabbed => client' = IF k \notin dk THEN client \cup {k} ELSE client \ {k}
  <2>1. down' = [down EXCEPT ![taking] = IF k \notin dk THEN dk \cup {k} ELSE dk \ {k}]
    BY DEF KeyChanges
  <2>2. (IF k \notin dk THEN dk \cup {k} ELSE dk \ {k}) = dk2
    OBVIOUS
  <2>3. down' = [down EXCEPT ![taking] = dk2]
    BY ONLY <2>1, <2>2
  <2>. HIDE DEF dk2
  <2>. QED BY <2>3 DEF KeyChanges, Others
<1>3. /\ r \in Seq(KeyEvents(Keys)) /\ r \in Seq(Event) /\ r \in Seq(KeyEvents(KeysOn[taking]))
      /\ dk \subseteq KeysOn[taking] /\ dk \subseteq Keys
  BY <1>1, RingTyped DEF IInv, TypeOK
<1>4. /\ ring' \in [Keyboards -> Seq(Event)] /\ ring'[taking] = Append(r, event)
      /\ \A other \in Keyboards : ring'[other] \in Seq(KeyEvents(KeysOn[other]))
      /\ \A other \in Keyboards \ {taking} : ring'[other] = ring[other]
  <2>1. event \in Event /\ event \in KeyEvents(KeysOn[taking])
    BY <1>1 DEF Event, KeyEvents
  <2>. HIDE DEF event
  <2>2. Append(r, event) \in Seq(Event) /\ Append(r, event) \in Seq(KeyEvents(KeysOn[taking]))
    BY <1>3, <2>1
  <2>. HIDE DEF r
  <2>. QED BY <1>1, <1>2, <2>2 DEF IInv, TypeOK
<1>5. /\ down' \in [Keyboards -> SUBSET Keys] /\ down'[taking] = dk2
      /\ \A other \in Keyboards : down'[other] \subseteq KeysOn[other]
      /\ \A other \in Keyboards \ {taking} : down'[other] = down[other]
  <2>1. dk2 \subseteq KeysOn[taking] /\ dk2 \subseteq Keys
    BY <1>1, <1>3
  <2>. HIDE DEF dk2, dk
  <2>. QED BY <1>1, <1>2, <2>1 DEF IInv, TypeOK
<1>6. Aside(taking)
  BY <1>2, <1>4, <1>5 DEF Aside
<1>7. EngineSound(engines'[taking]) /\ PhysicalPlusHeld(engines'[taking])
  <2>1. held \in SUBSET Keys /\ engines'[taking] = NoteHeldKeys(held)
    BY <1>1, <1>2
  <2>. QED BY <2>1, NotedEngine
<1>8. disturbed' \in BOOLEAN /\ (~disturbed' => ~Shared(engines') /\ (~disturbed \/ Calm'))
  BY History DEF KeyChanges
<1>9. client' \subseteq Keys
  BY <1>2 DEF IInv, TypeOK
<1>10. TypeOK'
  <2>. HIDE DEF dk2, dk, event, r
  <2>. QED BY <1>1, <1>2, <1>4, <1>5, <1>8, <1>9 DEF IInv, TypeOK
<1>11. DownBefore(down'[taking], ring'[taking]) = DownBefore(dk, r)
  <2>1. DownBefore(dk2, Append(r, event)) = DownBefore(dk, r)
    <3>1. Changed(dk, r, k, dk2, Append(r, event))
      BY DEF Changed
    <3>. HIDE DEF dk2, dk, event, r
    <3>. QED BY <1>3, <3>1, DownBeforeAChange
  <2>. HIDE DEF dk2, dk, event, r
  <2>. QED BY <1>4, <1>5, <2>1
<1>12. Taken'
  <2>. HIDE DEF dk2, dk, event, r
  <2>. QED BY <1>1, <1>2, <1>11 DEF Taken
<1>13. ASSUME NEW c \in client'
       PROVE  (c \in client /\ ~ByTakeover(c)) \/ ByTakeover(c)'
  <2>1. CASE Grabbed
    <3>1. stage' \notin {"window", "drained again", "taken"} /\ c \in client
      BY <1>1, <1>2, <1>13, <2>1 DEF Grabbed
    <3>2. ASSUME NamedIn(c, r) PROVE NamedIn(c, ring'[taking])
      <4>. HIDE DEF r, event
      <4>. QED BY <1>3, <1>4, <3>2 DEF NamedIn
    <3>. HIDE DEF dk2, dk, event
    <3>. QED BY <1>1, <1>11, <2>1, <3>1, <3>2 DEF ByTakeover, Grabbed, dk
  <2>2. CASE ~Grabbed
    <3>1. stage' \in {"window", "drained again"} /\ stage = stage'
      BY <1>1, <2>2 DEF Grabbed
    <3>2. ASSUME c \in dk2 PROVE ByTakeover(c)'
      <4>. HIDE DEF dk2
      <4>. QED BY <1>1, <1>5, <3>1, <3>2 DEF ByTakeover
    <3>3. ASSUME c \in DownBefore(dk, r) PROVE ByTakeover(c)'
      <4>. HIDE DEF dk, r
      <4>. QED BY <1>1, <1>11, <3>3 DEF ByTakeover
    <3>4. ASSUME ByTakeover(c) PROVE c \in dk \/ c \in DownBefore(dk, r)
      BY <3>1, <3>4 DEF ByTakeover
    <3>5. c \in client \/ c \in dk2
      BY <1>2, <1>13, <2>2
    <3>6. c \in dk => c \in dk2
      BY <1>2, <1>13, <2>2
    <3>. HIDE DEF dk, dk2, r
    <3>. QED BY <3>2, <3>3, <3>4, <3>5, <3>6
  <2>. QED BY <2>1, <2>2
<1>14. stage' \in {"none", "grabbed", "drained"} => held' = {}
  BY <1>1 DEF IInv, Phases
<1>. QED BY <1>1, <1>6, <1>7, <1>8, <1>10, <1>12, <1>13, <1>14, AsideInv

(* The keyboard joins the managed ones: what clients have from it is either*)
(* in the engine, or told of by its ring, or given up.                     *)
LEMMA PushKeeps ==
  ASSUME IInv, PushDevice
  PROVE  IInv'
<1>. DEFINE e == engines[taking]
            told == DownBefore(down[taking], ring[taking])
            noted == e.pressed \cup e.stale
<1>1. /\ taking \in Keyboards /\ taking \notin managed /\ stage = "taken"
      /\ e = NoteHeldKeys(held) /\ held \in SUBSET Keys
      /\ {k \in held : IsModifier(k)} \subseteq pending[taking]
      /\ held \ missed \subseteq told
  BY DEF IInv, TypeOK, Phases, Taken, PushDevice
<1>2. /\ UNCHANGED <<started, engines, pending, lookup, batch, emitting, queue, out, ring, client>>
      /\ managed' = managed \cup {taking} /\ down' = [down EXCEPT ![taking] = told]
      /\ missed' = missed \cup ((down[taking] \ noted) \cap client)
      /\ taking' = NoKeyboard /\ stage' = "none" /\ held' = {} /\ found' = FALSE
      /\ TrackConflict(told # noted)
  BY DEF PushDevice, Adopt
<1>3. /\ EngineSound(e) /\ PhysicalPlusHeld(e) /\ noted = held
      /\ e.pressed = {k \in held : UsageOf[k] # NoUsage} /\ e.swallowed = {} /\ e.consumed = {}
      /\ e.forwarded = BitsOf(e.pressed) /\ HeldBits(e) = {}
  <2>. HIDE DEF e
  <2>. QED BY <1>1, NotedEngine
<1>4. /\ ring[taking] \in Seq(KeyEvents(Keys)) /\ ring[taking] \in Seq(KeyEvents(KeysOn[taking]))
      /\ down[taking] \subseteq KeysOn[taking] /\ KeysOn[taking] \subseteq Keys
  BY <1>1, RingTyped, RemapAssumption DEF IInv, TypeOK
<1>. HIDE DEF e, told, noted
<1>. PICK kb \in Keyboards : kb = taking
  BY <1>1
<1>5. told \subseteq down[taking] \cup {c \in KeysOn[taking] : NamedIn(c, ring[taking])}
  <2>1. ASSUME NEW c \in told PROVE c \in down[taking] \/ NamedIn(c, ring[taking])
    <3>1. c \in DownBefore(down[taking], ring[taking])
      BY <2>1 DEF told
    <3>. QED BY <1>4, <3>1, DownBeforeNamed DEF NamedIn
  <2>2. ASSUME NEW c, NamedIn(c, ring[taking]) PROVE c \in KeysOn[taking]
    <3>. DEFINE r == ring[taking]
    <3>1. PICK i \in 1 .. Len(r) : r[i].key = c
      BY <2>2 DEF NamedIn
    <3>2. r[i] \in KeyEvents(KeysOn[taking])
      BY <1>4
    <3>. QED BY <3>1, <3>2 DEF KeyEvents
  <2>. QED BY <2>1, <2>2
<1>6. /\ told \in SUBSET KeysOn[taking] /\ told \in SUBSET Keys /\ down'[taking] = told
      /\ down' \in [Keyboards -> SUBSET Keys]
      /\ \A other \in Keyboards \ {taking} : down'[other] = down[other]
  <2>1. told \in SUBSET KeysOn[taking] /\ told \in SUBSET Keys
    BY <1>4, <1>5
  <2>. QED BY <1>1, <1>2, <2>1 DEF IInv, TypeOK
<1>7. /\ disturbed' \in BOOLEAN
      /\ ~disturbed' => ~Shared(engines') /\ told = held /\ (~disturbed \/ Calm')
  BY <1>2, <1>3, History
<1>8. TypeOK'
  <2>1. missed' \subseteq Keys /\ managed' \subseteq Keyboards
    BY <1>1, <1>2 DEF IInv, TypeOK
  <2>2. \A other \in Keyboards : down'[other] \subseteq KeysOn[other]
    BY <1>6 DEF IInv, TypeOK
  <2>. QED BY <1>2, <1>6, <1>7, <2>1, <2>2 DEF IInv, TypeOK
<1>9. Sound'
  BY <1>2 DEF IInv, Sound
<1>10. Phases' /\ Taken'
  BY <1>2 DEF IInv, Phases, Taken
<1>11. ModifierCodes(e.forwarded) \subseteq pending[taking]
  <2>1. ASSUME NEW c \in Keys, OwnBit(c) \cap BitsOf(e.pressed) # {} PROVE c \in held /\ IsModifier(c)
    <3>1. PICK k \in e.pressed : OwnBit(c) \cap OwnBit(k) # {}
      BY <2>1 DEF BitsOf
    <3>2. k \in held /\ k \in Keys
      BY <1>1, <1>3, <3>1
    <3>3. c = k
      BY <3>1, <3>2, OneKeyOfABit
    <3>. QED BY <2>1, <3>2, <3>3 DEF IsModifier
  <2>. QED BY <1>1, <1>3, <2>1 DEF ModifierCodes
<1>12. /\ missed \subseteq missed'
       /\ \A other \in managed : other \in Keyboards /\ other # taking
                                 /\ down'[other] = down[other] /\ other \in managed'
  BY <1>1, <1>2, <1>6 DEF IInv, TypeOK
<1>13. Loyal'
  <2>1. /\ e.swallowed \subseteq told
        /\ e.pressed \ told \subseteq missed'
        /\ e.swallowed = {}
    BY <1>1, <1>3, <1>12
  <2>2. ASSUME NEW other \in managed
        PROVE  /\ engines[other].swallowed \subseteq down[other]
               /\ engines[other].pressed \ down[other] \subseteq missed'
               /\ pending[other] # {} => /\ engines[other].swallowed = {}
                                         /\ ModifierCodes(engines[other].forwarded) \subseteq pending[other]
    BY <1>12 DEF IInv, Loyal
  <2>. QED BY <1>2, <1>6, <1>11, <1>12, <2>1, <2>2 DEF Loyal, e
<1>14. ASSUME NEW c, Answered(c) PROVE Answered(c)'
  BY <1>2, <1>12, <1>14 DEF Answered
<1>15. OutAnswered'
  <2>1. DownAtEnd(out, queue)' = DownAtEnd(out, queue)
    BY <1>2 DEF DownAtEnd, DownAfter
  <2>. QED BY <1>14, <2>1 DEF IInv, OutAnswered
<1>16. ASSUME NEW c \in client, ByTakeover(c)
       PROVE  Answered(c)' \/ Unread(kb, c)'
  <2>1. c \in told \/ c \in down[taking]
    BY <1>1, <1>16 DEF ByTakeover, told
  <2>2. ASSUME c \in held, c \notin missed PROVE Answered(c)'
    <3>1. c \in told /\ c \in Keys
      BY <1>1, <2>2
    <3>2. CASE UsageOf[c] # NoUsage
      <4>1. c \in PassedKeys(e) /\ OwnBit(c) \cap e.consumed = {}
        BY <1>3, <2>2, <3>2 DEF PassedKeys
      <4>. QED BY <1>2, <3>1, <4>1 DEF Answered, Accounted, e
    <3>3. CASE UsageOf[c] = NoUsage
      BY <1>2, <1>6, <3>1, <3>3 DEF Answered, Accounted
    <3>. QED BY <3>2, <3>3
  <2>3. CASE c \in missed'
    BY <2>3 DEF Answered
  <2>4. ASSUME c \notin held, c \notin down[taking], c \in told PROVE Answered(c)' \/ Unread(kb, c)'
    <3>1. NamedIn(c, ring[taking]) /\ c \in Keys
      BY <1>5, <1>6, <2>4
    <3>2. c \notin e.pressed
      BY <1>3, <2>4
    <3>3. /\ down'[kb] = told /\ engines'[kb].pressed = e.pressed
          /\ ring'[kb] = ring[taking]
      BY <1>2, <1>6 DEF e
    <3>. QED BY <2>4, <3>1, <3>2, <3>3 DEF Unread
  <2>5. c \in down[taking] \ held => c \in missed'
    BY <1>2, <1>3, <1>16
  <2>6. c \in missed => c \in missed'
    BY <1>12
  <2>. QED BY <2>1, <2>2, <2>3, <2>4, <2>5, <2>6
<1>17. ClientAnswered'
  <2>1. ASSUME NEW c \in client, Stays(c, queue)
        PROVE  Answered(c)' \/ \E other \in managed' : Unread(other, c)'
    <3>1. CASE Answered(c)
      BY <1>14, <3>1
    <3>2. ASSUME NEW other \in managed, Unread(other, c)
          PROVE  other \in managed' /\ Unread(other, c)'
      BY <1>2, <1>12, <3>2 DEF Unread
    <3>3. CASE ByTakeover(c)
      <4>1. kb \in managed'
        BY <1>2
      <4>. QED BY <1>16, <2>1, <3>3, <4>1
    <3>4. Answered(c) \/ ByTakeover(c) \/ \E other \in managed : Unread(other, c)
      BY <2>1 DEF IInv, ClientAnswered
    <3>5. CASE \E other \in managed : Unread(other, c)
      BY <3>2, <3>5
    <3>. QED BY <3>1, <3>3, <3>4, <3>5
  <2>2. \A c : Stays(c, queue)' <=> Stays(c, queue)
    BY <1>2 DEF Stays
  <2>. QED BY <1>2, <2>1, <2>2 DEF ClientAnswered
<1>18. Undisturbed'
  <2>1. CASE Calm'
    <3>1. managed' \subseteq Keyboards /\ out' \subseteq Keys
      BY <1>8 DEF TypeOK
    <3>. QED BY <1>9, <2>1, <3>1, CalmIsClean DEF Undisturbed
  <2>2. ASSUME ~disturbed, ~Shared(engines'), told = held PROVE Clean'
    <3>1. Clean
      BY <2>2 DEF IInv, Undisturbed
    <3>2. \A other \in Keyboards : PhysicalPlusHeld(engines'[other])
      BY <1>2, <3>1 DEF Clean
    <3>3. \A other \in managed' : engines'[other].pressed = {k \in down'[other] : UsageOf[k] # NoUsage}
      <4>1. \A other \in managed : engines'[other].pressed = {k \in down'[other] : UsageOf[k] # NoUsage}
        BY <1>2, <1>12, <3>1 DEF Clean
      <4>2. engines'[taking].pressed = {k \in down'[taking] : UsageOf[k] # NoUsage}
        BY <1>2, <1>3, <1>6, <2>2 DEF e
      <4>. QED BY <1>2, <4>1, <4>2
    <3>4. DownAtEnd(out, queue)' = DownAtEnd(out, queue)
      BY <1>2 DEF DownAtEnd, DownAfter
    <3>5. ASSUME NEW other \in managed', pending'[other] = {}
          PROVE  ModifierCodes(EmittedBits(engines'[other])) \subseteq DownAtEnd(out, queue)'
      <4>1. CASE other \in managed
        BY <1>2, <3>1, <3>4, <3>5, <4>1 DEF Clean
      <4>2. CASE other = taking
        <5>1. EmittedBits(engines'[other]) = e.forwarded
          BY <1>2, <1>3, <4>2 DEF EmittedBits, e
        <5>2. ModifierCodes(e.forwarded) = {}
          BY <1>2, <1>11, <3>5, <4>2
        <5>. QED BY <5>1, <5>2
      <4>. QED BY <1>2, <4>1, <4>2
    <3>6. ASSUME NEW i \in 1 .. Len(queue), queue[i].kind = "Tap",
                 NEW c \in DownAfter(out, queue, i - 1), OwnBit(c) # {},
                 OwnBit(c) \cap (queue[i].key.modifiers \cup queue[i].allowed) = {}
          PROVE  c \in missed'
      BY <1>12, <3>1, <3>6 DEF Clean
    <3>7. out' = out /\ queue' = queue
      BY <1>2
    <3>. QED BY <2>2, <3>2, <3>3, <3>5, <3>6, <3>7 DEF Clean
  <2>. QED BY <1>7, <2>1, <2>2 DEF Undisturbed
<1>. QED BY <1>8, <1>9, <1>10, <1>13, <1>15, <1>17, <1>18 DEF IInv

-----------------------------------------------------------------------------
(* What the loop itself does preserves the invariant *)

(* A reload, the end of a batch, and a step that changes nothing.          *)
LEMMA SameStateKeeps ==
  ASSUME IInv,
         UNCHANGED <<started, managed, engines, pending, down, queue, out, disturbed,
                     taking, stage, held, found, ring, client, missed>>,
         lookup' \in Lookups, batch' \in {batch, NoKeyboard}, emitting' \in {emitting, queue # << >>}
  PROVE  IInv'
<1>1. TypeOK'
  BY DEF IInv, TypeOK
<1>2. Sound' /\ Phases' /\ Taken' /\ Loyal'
  BY DEF IInv, Sound, Phases, Taken, Loyal
<1>3. /\ DownAtEnd(out, queue)' = DownAtEnd(out, queue)
      /\ \A c : (Answered(c)' <=> Answered(c)) /\ (ByTakeover(c)' <=> ByTakeover(c))
                /\ (Stays(c, queue)' <=> Stays(c, queue))
      /\ \A kb, c : Unread(kb, c)' <=> Unread(kb, c)
  BY DEF DownAtEnd, DownAfter, Answered, ByTakeover, Stays, Unread
<1>4. OutAnswered'
  BY <1>3 DEF IInv, OutAnswered
<1>5. ClientAnswered'
  BY <1>3 DEF IInv, ClientAnswered
<1>6. Undisturbed'
  BY <1>3 DEF IInv, Undisturbed, Clean
<1>. QED BY <1>1, <1>2, <1>4, <1>5, <1>6 DEF IInv

(* A keyboard is removed: what it had down is given up.                    *)
LEMMA RemoveKeeps ==
  ASSUME IInv, NEW kb \in Keyboards, Removes(kb)
  PROVE  IInv'
<1>. DEFINE gone == {c \in KeysOn[kb] \cup Accounted(engines[kb], down[kb]) :
                       c \in client \cup out \/ WillBePressed(c, queue)}
<1>1. /\ kb \in managed /\ managed' = managed \ {kb} /\ missed' = missed \cup gone
      /\ UNCHANGED <<started, lookup, batch, emitting, queue, out, taking, stage, held, found, client>>
      /\ engines' = [engines EXCEPT ![kb] = FreshEngine]
      /\ pending' = [pending EXCEPT ![kb] = {}] /\ down' = [down EXCEPT ![kb] = {}]
      /\ ring' = [ring EXCEPT ![kb] = << >>] /\ TrackConflict(FALSE)
  BY DEF Removes, Remove
<1>2. /\ disturbed' \in BOOLEAN
      /\ ~disturbed' => ~Shared(engines') /\ (~disturbed \/ Calm')
  BY <1>1, History
<1>3. EngineSound(FreshEngine) /\ PhysicalPlusHeld(FreshEngine) /\ FreshEngine \in Engine
  <2>1. EngineSound(FreshEngine) /\ PhysicalPlusHeld(FreshEngine)
    BY NotedEngine, NothingNoted
  <2>. QED BY <2>1 DEF EngineSound, EngineInv
<1>4. gone \subseteq Keys /\ missed \subseteq missed'
  <2>1. KeysOn[kb] \subseteq Keys /\ Accounted(engines[kb], down[kb]) \subseteq Keys
    BY RemapAssumption DEF Accounted
  <2>. QED BY <1>1, <2>1
<1>. HIDE DEF gone
<1>5. /\ engines' \in [Keyboards -> Engine] /\ pending' \in [Keyboards -> SUBSET Keys]
      /\ down' \in [Keyboards -> SUBSET Keys] /\ ring' \in [Keyboards -> Seq(Event)]
      /\ engines'[kb] = FreshEngine
      /\ \A other \in Keyboards \ {kb} :
           /\ engines'[other] = engines[other] /\ pending'[other] = pending[other]
           /\ down'[other] = down[other] /\ ring'[other] = ring[other]
      /\ down'[kb] = {} /\ ring'[kb] = << >>
  <2>1. << >> \in Seq(Event)
    OBVIOUS
  <2>. HIDE DEF FreshEngine
  <2>. QED BY <1>1, <1>3, <2>1 DEF IInv, TypeOK
<1>6. TypeOK'
  <2>1. \A other \in Keyboards : down'[other] \subseteq KeysOn[other]
                                 /\ ring'[other] \in Seq(KeyEvents(KeysOn[other]))
    <3>1. << >> \in Seq(KeyEvents(KeysOn[kb])) /\ {} \subseteq KeysOn[kb]
      OBVIOUS
    <3>. QED BY <1>5, <3>1 DEF IInv, TypeOK
  <2>2. missed' \subseteq Keys /\ managed' \subseteq Keyboards
    BY <1>1, <1>4 DEF IInv, TypeOK
  <2>. QED BY <1>1, <1>2, <1>5, <2>1, <2>2 DEF IInv, TypeOK
<1>7. Sound'
  BY <1>3, <1>5 DEF IInv, Sound
<1>8. Phases'
  BY <1>1 DEF IInv, Phases
<1>9. Taken'
  <2>1. ASSUME taking # NoKeyboard
        PROVE  /\ taking \notin managed /\ taking \in Keyboards \ {kb}
               /\ engines[taking] = NoteHeldKeys(held)
               /\ {k \in held : IsModifier(k)} \subseteq pending[taking]
               /\ held \ missed \subseteq DownBefore(down[taking], ring[taking])
    BY <1>1, <2>1 DEF IInv, TypeOK, Taken
  <2>. QED BY <1>1, <1>4, <1>5, <2>1 DEF Taken
<1>10. \A other \in managed' :
         /\ other \in managed /\ other \in Keyboards
         /\ engines'[other] = engines[other] /\ pending'[other] = pending[other]
         /\ down'[other] = down[other] /\ ring'[other] = ring[other]
  BY <1>1, <1>5 DEF IInv, TypeOK
<1>11. Loyal'
  BY <1>4, <1>10 DEF IInv, Loyal
<1>12. ASSUME NEW c, Answered(c), c \in client \cup out \/ WillBePressed(c, queue)
       PROVE  Answered(c)'
  <2>1. CASE c \in missed
    BY <1>4, <2>1 DEF Answered
  <2>2. CASE c \in Accounted(engines[kb], down[kb])
    BY <1>1, <1>12, <2>2 DEF Answered, gone
  <2>3. ASSUME NEW other \in managed \ {kb}, c \in Accounted(engines[other], down[other])
        PROVE  Answered(c)'
    <3>1. other \in managed'
      BY <1>1
    <3>. QED BY <1>10, <2>3, <3>1 DEF Answered
  <2>. QED BY <1>12, <2>1, <2>2, <2>3 DEF Answered
<1>13. OutAnswered'
  <2>1. DownAtEnd(out, queue)' = DownAtEnd(out, queue)
    BY <1>1 DEF DownAtEnd, DownAfter
  <2>2. ASSUME NEW c \in DownAtEnd(out, queue) PROVE c \in out \/ WillBePressed(c, queue)
    <3>1. queue \in Seq(Action)
      BY DEF IInv, TypeOK
    <3>2. DOMAIN queue = 1 .. Len(queue)
      BY <3>1
    <3>. QED BY <2>2, <3>2 DEF DownAtEnd, DownAfter, WillBePressed
  <2>. QED BY <1>12, <2>1, <2>2 DEF IInv, OutAnswered
<1>14. ASSUME NEW c \in client, Stays(c, queue)
       PROVE  Answered(c)' \/ ByTakeover(c)' \/ \E other \in managed' : Unread(other, c)'
  <2>1. CASE Answered(c)
    BY <1>12, <1>14, <2>1
  <2>2. CASE ByTakeover(c)
    <3>1. taking \in Keyboards \ {kb}
      BY <1>1, <2>2 DEF IInv, TypeOK, Taken, ByTakeover
    <3>2. down'[taking'] = down[taking] /\ ring'[taking'] = ring[taking]
      BY <1>1, <1>5, <3>1
    <3>3. ByTakeover(c)'
      BY <1>1, <2>2, <3>2 DEF ByTakeover
    <3>. QED BY <3>3
  <2>3. CASE Unread(kb, c)
    <3>1. c \in KeysOn[kb]
      BY <2>3 DEF IInv, TypeOK, Unread
    <3>. QED BY <1>1, <1>14, <3>1 DEF Answered, gone
  <2>4. ASSUME NEW other \in managed \ {kb}, Unread(other, c)
        PROVE  other \in managed' /\ Unread(other, c)'
    <3>1. other \in managed'
      BY <1>1
    <3>. QED BY <1>10, <2>4, <3>1 DEF Unread
  <2>5. Answered(c) \/ ByTakeover(c) \/ \E other \in managed : Unread(other, c)
    BY <1>14 DEF IInv, ClientAnswered
  <2>6. CASE \E other \in managed \ {kb} : Unread(other, c)
    BY <2>4, <2>6
  <2>. QED BY <2>1, <2>2, <2>3, <2>5, <2>6
<1>15. ClientAnswered'
  <2>1. \A c : Stays(c, queue)' <=> Stays(c, queue)
    BY <1>1 DEF Stays
  <2>. QED BY <1>1, <1>14, <2>1 DEF ClientAnswered
<1>16. Undisturbed'
  <2>1. CASE Calm'
    <3>1. managed' \subseteq Keyboards /\ out' \subseteq Keys
      BY <1>6 DEF TypeOK
    <3>. QED BY <1>7, <2>1, <3>1, CalmIsClean DEF Undisturbed
  <2>2. ASSUME ~disturbed, ~Shared(engines') PROVE Clean'
    <3>1. Clean
      BY <2>2 DEF IInv, Undisturbed
    <3>2. \A other \in Keyboards : PhysicalPlusHeld(engines'[other])
      BY <1>3, <1>5, <3>1 DEF Clean
    <3>3. \A other \in managed' : engines'[other].pressed = {k \in down'[other] : UsageOf[k] # NoUsage}
      BY <1>10, <3>1 DEF Clean
    <3>4. ASSUME NEW other \in managed', pending'[other] = {}
          PROVE  ModifierCodes(EmittedBits(engines'[other])) \subseteq DownAtEnd(out, queue)'
      <4>1. DownAtEnd(out, queue)' = DownAtEnd(out, queue)
        BY <1>1 DEF DownAtEnd, DownAfter
      <4>. QED BY <1>10, <3>1, <3>4, <4>1 DEF Clean
    <3>5. ASSUME NEW i \in 1 .. Len(queue), queue[i].kind = "Tap",
                 NEW c \in DownAfter(out, queue, i - 1), OwnBit(c) # {},
                 OwnBit(c) \cap (queue[i].key.modifiers \cup queue[i].allowed) = {}
          PROVE  c \in missed'
      BY <1>4, <3>1, <3>5 DEF Clean
    <3>6. out' = out /\ queue' = queue
      BY <1>1
    <3>. QED BY <2>2, <3>2, <3>3, <3>4, <3>5, <3>6 DEF Clean
  <2>. QED BY <1>2, <2>1, <2>2 DEF Undisturbed
<1>. QED BY <1>6, <1>7, <1>8, <1>9, <1>11, <1>13, <1>15, <1>16 DEF IInv

(* The virtual keyboard appears, with the modifiers that were held when the*)
(* keyboards were taken over.                                              *)
LEMMA StartKeeps ==
  ASSUME IInv, taking = NoKeyboard, Start,
         UNCHANGED <<taking, stage, held, found, ring, client, missed>>
  PROVE  IInv'
<1>. DEFINE codes == UNION {InitialState(kb) : kb \in managed}
<1>1. /\ ~started /\ started' = TRUE /\ emitting' = TRUE
      /\ queue' = <<ForwardHeld(codes)>> /\ pending' = [kb \in Keyboards |-> {}]
      /\ UNCHANGED <<managed, engines, down, lookup, batch, out>> /\ TrackConflict(FALSE)
  BY DEF Start
<1>2. queue = << >> /\ managed \subseteq Keyboards /\ out \in SUBSET Keys
  BY <1>1 DEF IInv, TypeOK, Phases
<1>3. codes \in SUBSET Keys
  BY <1>2 DEF IInv, TypeOK, InitialState
<1>4. DownAtEnd(out, queue) = out /\ \A c : Stays(c, queue)
  BY <1>2, DownAfterNone DEF Stays
<1>. HIDE DEF codes
<1>5. /\ ForwardHeld(codes) \in Action /\ ForwardHeld(codes).kind # "Tap"
      /\ Presses(ForwardHeld(codes)) = codes /\ Releases(ForwardHeld(codes)) = {}
  BY <1>3, EffectOfActions DEF ForwardHeld
<1>6. /\ queue' \in Seq(Action) /\ DownAtEnd(out, queue') = out \cup codes
      /\ \A i \in 1 .. Len(queue') : queue'[i].kind # "Tap"
  <2>1. /\ <<ForwardHeld(codes)>> \in Seq(Action)
        /\ DownAtEnd(out, <<ForwardHeld(codes)>>) = out \cup codes
    BY <1>2, <1>3, <1>5, DownAfterOne DEF Effect
  <2>2. \A i \in 1 .. Len(queue') : queue'[i] = ForwardHeld(codes)
    BY <1>1
  <2>. QED BY <1>1, <1>5, <2>1, <2>2
<1>7. /\ disturbed' \in BOOLEAN
      /\ ~disturbed' => ~Shared(engines') /\ ~disturbed
  BY <1>1, History DEF Calm
<1>8. TypeOK'
  <2>1. pending' \in [Keyboards -> SUBSET Keys]
    BY <1>1
  <2>. QED BY <1>1, <1>6, <1>7, <2>1 DEF IInv, TypeOK
<1>9. Sound'
  BY <1>1 DEF IInv, Sound
<1>10. Phases'
  BY <1>1 DEF IInv, Phases
<1>11. Taken'
  BY DEF Taken
<1>12. Loyal'
  <2>1. \A kb \in managed : pending'[kb] = {}
    BY <1>1, <1>2
  <2>. QED BY <1>1, <2>1 DEF IInv, Loyal
<1>13. OutAnswered'
  <2>1. ASSUME NEW c \in out PROVE Answered(c)'
    BY <1>1, <1>4, <2>1 DEF IInv, OutAnswered, Answered
  <2>2. ASSUME NEW c \in codes PROVE Answered(c)'
    <3>1. PICK kb \in managed : c \in InitialState(kb)
      BY <2>2 DEF codes
    <3>2. EngineInv(engines[kb]) /\ OwnBit(c) \cap engines[kb].forwarded # {}
      BY <1>2, <3>1 DEF IInv, Sound, EngineSound, InitialState, HeldModifierForwarded
    <3>3. c \in Accounted(engines[kb], down[kb])
      BY <1>3, <2>2, <3>2, ForwardedIsAnswered
    <3>. QED BY <1>1, <3>3 DEF Answered
  <2>3. DownAtEnd(out, queue)' = out \cup codes
    BY <1>1, <1>6
  <2>. QED BY <2>1, <2>2, <2>3 DEF OutAnswered
<1>14. ClientAnswered'
  <2>1. ASSUME NEW c \in client
        PROVE  Answered(c)' \/ \E kb \in managed' : Unread(kb, c)'
    <3>1. Answered(c) \/ \E kb \in managed : Unread(kb, c)
      BY <1>4 DEF IInv, ClientAnswered, ByTakeover
    <3>. QED BY <1>1, <3>1 DEF Answered, Unread
  <2>. QED BY <2>1 DEF ClientAnswered
<1>15. Undisturbed'
  <2>1. ASSUME ~disturbed, ~Shared(engines') PROVE Clean'
    <3>1. Clean
      BY <2>1 DEF IInv, Undisturbed
    <3>2. ASSUME NEW kb \in managed PROVE ModifierCodes(EmittedBits(engines[kb])) \subseteq out \cup codes
      <4>. DEFINE T == DownAtEnd(out, Held(kb))
      <4>1. ModifierCodes(EmittedBits(engines[kb])) \subseteq T
        BY <1>4, <2>1, HeldIsAnswered
      <4>2. CASE pending[kb] = {}
        <5>1. T = out
          BY <1>2, <4>2, DownAfterNone DEF Held
        <5>. QED BY <4>1, <5>1
      <4>3. CASE pending[kb] # {}
        <5>. DEFINE initial == InitialState(kb)
        <5>1. initial \in SUBSET Keys
          BY <1>2 DEF IInv, TypeOK, InitialState
        <5>2. Held(kb) = <<ForwardHeld(initial)>>
          BY <4>3 DEF Held
        <5>3. initial \subseteq codes
          BY DEF codes
        <5>. HIDE DEF initial
        <5>4. /\ ForwardHeld(initial) \in Action
              /\ Presses(ForwardHeld(initial)) = initial /\ Releases(ForwardHeld(initial)) = {}
          BY <5>1, EffectOfActions
        <5>5. T = out \cup initial
          BY <1>2, <5>1, <5>2, <5>4, DownAfterOne DEF Effect
        <5>. QED BY <4>1, <5>3, <5>5
      <4>. QED BY <4>2, <4>3
    <3>3. DownAtEnd(out, queue)' = out \cup codes
      BY <1>1, <1>6
    <3>4. \A kb \in managed' :
            ModifierCodes(EmittedBits(engines'[kb])) \subseteq DownAtEnd(out, queue)'
      BY <1>1, <3>2, <3>3
    <3>5. /\ \A kb \in Keyboards : PhysicalPlusHeld(engines'[kb])
          /\ \A kb \in managed' : engines'[kb].pressed = {k \in down'[kb] : UsageOf[k] # NoUsage}
      BY <1>1, <3>1 DEF Clean
    <3>. QED BY <1>6, <2>1, <3>4, <3>5 DEF Clean
  <2>. QED BY <1>7, <2>1 DEF Undisturbed
<1>. QED BY <1>8, <1>9, <1>10, <1>11, <1>12, <1>13, <1>14, <1>15 DEF IInv

(* An action is emitted: clients have it, and what is missed is forgotten  *)
(* only when nothing is down.                                              *)
LEMMA EmitsKeeps ==
  ASSUME IInv, Emits
  PROVE  IInv'
<1>. DEFINE a == queue[1]
            rest == Tail(queue)
<1>1. /\ emitting /\ queue # << >> /\ queue \in Seq(Action) /\ out \in SUBSET Keys
      /\ client \subseteq Keys /\ missed \subseteq Keys
  BY DEF IInv, TypeOK, Phases, Emits, EmitAction
<1>2. /\ out' = Effect(out, a) /\ client' = Effect(client, a) /\ queue' = rest
      /\ emitting' = (rest # << >>)
      /\ UNCHANGED <<started, managed, engines, pending, down, lookup, batch,
                     taking, stage, held, found, ring>>
      /\ missed' = IF AtRest' THEN missed \cap (client' \cup out') ELSE missed
      /\ TrackConflict(FALSE)
  <2>1. Head(queue) = a
    BY <1>1
  <2>. QED BY <2>1 DEF Emits, EmitAction, Effect, takeoverVars
<1>3. /\ a \in Action /\ Presses(a) \subseteq Keys /\ rest \in Seq(Action)
      /\ Len(rest) = Len(queue) - 1 /\ Len(queue) \in Nat \ {0}
      /\ \A i \in 1 .. Len(rest) : rest[i] = queue[i + 1]
  BY <1>1, PressesAreKeys
<1>4. \A n \in 0 .. Len(queue) - 1 : DownAfter(Effect(out, a), rest, n) = DownAfter(out, queue, n + 1)
  BY <1>1, <1>3, DownWithoutTheFirst
<1>5. DownAtEnd(out, queue)' = DownAtEnd(out, queue)
  <2>. DEFINE n == Len(queue) - 1
  <2>1. n \in 0 .. Len(queue) - 1 /\ n + 1 = Len(queue) /\ Len(rest) = n
    BY <1>3
  <2>. HIDE DEF n, rest
  <2>2. DownAfter(Effect(out, a), rest, n) = DownAfter(out, queue, n + 1)
    BY <1>4, <2>1
  <2>. QED BY <1>2, <2>1, <2>2 DEF DownAtEnd
<1>. HIDE DEF a, rest
<1>6. /\ disturbed' \in BOOLEAN
      /\ ~disturbed' => ~Shared(engines') /\ (~disturbed \/ Calm')
  BY <1>2, History
<1>7. AtRest' => Calm' /\ taking = NoKeyboard /\ DownAtEnd(out, queue)' = out'
  <2>1. ASSUME AtRest' PROVE Calm' /\ taking = NoKeyboard /\ queue' = << >>
    BY <1>2, <2>1 DEF AtRest, Calm
  <2>2. out' \in SUBSET Keys
    BY <1>1, <1>2, <1>3 DEF Effect
  <2>3. ASSUME queue' = << >> PROVE DownAtEnd(out', queue') = out'
    BY <2>2, <2>3, DownAfterNone
  <2>. QED BY <2>1, <2>3
<1>8. missed' \subseteq missed /\ (~AtRest' => missed' = missed)
  BY <1>2
<1>9. TypeOK'
  <2>1. out' \subseteq Keys /\ client' \subseteq Keys
    BY <1>1, <1>2, <1>3 DEF Effect
  <2>. QED BY <1>2, <1>3, <1>6, <1>8, <2>1 DEF IInv, TypeOK
<1>10. Sound'
  BY <1>2 DEF IInv, Sound
<1>11. Phases'
  BY <1>1, <1>2 DEF IInv, Phases
<1>12. Taken'
  BY <1>2, <1>7, <1>8 DEF IInv, Taken
<1>13. Loyal'
  <2>1. ASSUME NEW kb \in managed PROVE engines'[kb].pressed \ down'[kb] \subseteq missed'
    <3>1. CASE AtRest'
      <4>1. engines'[kb].pressed = {}
        BY <1>2, <3>1 DEF IInv, TypeOK, AtRest
      <4>. QED BY <4>1
    <3>2. CASE ~AtRest'
      BY <1>2, <1>8, <3>2 DEF IInv, Loyal
    <3>. QED BY <3>1, <3>2
  <2>. QED BY <1>2, <2>1 DEF IInv, Loyal
<1>14. ASSUME NEW c, Answered(c), c \in client' \cup out' PROVE Answered(c)'
  BY <1>2, <1>14 DEF Answered
<1>15. OutAnswered'
  <2>1. ASSUME NEW c \in DownAtEnd(out, queue)' PROVE Answered(c)'
    <3>1. Answered(c)
      BY <1>5, <2>1 DEF IInv, OutAnswered
    <3>2. CASE AtRest'
      <4>1. c \in out'
        BY <1>7, <2>1, <3>2
      <4>. QED BY <1>14, <3>1, <4>1
    <3>3. CASE ~AtRest'
      BY <1>2, <1>8, <3>1, <3>3 DEF Answered
    <3>. QED BY <3>2, <3>3
  <2>. QED BY <2>1 DEF OutAnswered
<1>16. ClientAnswered'
  <2>1. ASSUME NEW c \in client', Stays(c, rest)
        PROVE  Answered(c)' \/ ByTakeover(c)' \/ \E kb \in managed' : Unread(kb, c)'
    <3>1. CASE c \in Presses(a)
      <4>1. c \in out' /\ c \in Keys
        BY <1>2, <1>3, <3>1 DEF Effect
      <4>2. c \in DownAtEnd(out', rest)
        BY <2>1, <4>1 DEF DownAtEnd, DownAfter, Stays
      <4>. QED BY <1>2, <1>15, <4>2 DEF OutAnswered
    <3>2. CASE c \in client \ Releases(a)
      <4>1. Stays(c, queue)
        <5>1. ASSUME NEW i \in 1 .. Len(queue) PROVE c \notin Releases(queue[i])
          <6>1. CASE i = 1
            BY <3>2, <6>1 DEF a
          <6>2. CASE i # 1
            <7>1. i - 1 \in 1 .. Len(rest) /\ rest[i - 1] = queue[i]
              BY <1>3, <6>2
            <7>2. c \notin Releases(rest[i - 1])
              BY <2>1, <7>1 DEF Stays
            <7>. QED BY <7>1, <7>2
          <6>. QED BY <6>1, <6>2
        <5>. QED BY <5>1 DEF Stays
      <4>2. Answered(c) \/ ByTakeover(c) \/ \E kb \in managed : Unread(kb, c)
        BY <3>2, <4>1 DEF IInv, ClientAnswered
      <4>3. ByTakeover(c) => ByTakeover(c)'
        BY <1>2 DEF ByTakeover
      <4>4. (\E kb \in managed : Unread(kb, c)) => \E kb \in managed' : Unread(kb, c)'
        BY <1>2 DEF Unread
      <4>. QED BY <1>14, <2>1, <4>2, <4>3, <4>4
    <3>. QED BY <1>2, <2>1, <3>1, <3>2 DEF Effect
  <2>2. \A c : Stays(c, queue)' <=> Stays(c, rest)
    BY <1>2 DEF Stays
  <2>. QED BY <2>1, <2>2 DEF ClientAnswered
<1>17. Undisturbed'
  <2>1. CASE Calm'
    <3>1. managed' \subseteq Keyboards /\ out' \subseteq Keys
      BY <1>9 DEF TypeOK
    <3>. QED BY <1>10, <2>1, <3>1, CalmIsClean DEF Undisturbed
  <2>2. ASSUME ~disturbed, ~Shared(engines'), ~AtRest' PROVE Clean'
    <3>1. Clean /\ missed' = missed
      BY <1>8, <2>2 DEF IInv, Undisturbed
    <3>2. \A kb \in Keyboards : PhysicalPlusHeld(engines'[kb])
      BY <1>2, <3>1 DEF Clean
    <3>3. \A kb \in managed' : engines'[kb].pressed = {k \in down'[kb] : UsageOf[k] # NoUsage}
      BY <1>2, <3>1 DEF Clean
    <3>4. ASSUME NEW kb \in managed', pending'[kb] = {}
          PROVE  ModifierCodes(EmittedBits(engines'[kb])) \subseteq DownAtEnd(out, queue)'
      BY <1>2, <1>5, <3>1, <3>4 DEF Clean
    <3>5. ASSUME NEW i \in 1 .. Len(rest), rest[i].kind = "Tap",
                 NEW c \in DownAfter(out', rest, i - 1), OwnBit(c) # {},
                 OwnBit(c) \cap (rest[i].key.modifiers \cup rest[i].allowed) = {}
          PROVE  c \in missed'
      <4>. DEFINE j == i + 1
                  m == i - 1
      <4>1. j \in 1 .. Len(queue) /\ rest[i] = queue[j] /\ m \in 0 .. Len(queue) - 1 /\ m + 1 = j - 1
        BY <1>3
      <4>. HIDE DEF j, m
      <4>2. DownAfter(out', rest, m) = DownAfter(out, queue, j - 1)
        BY <1>2, <1>4, <4>1
      <4>3. c \in DownAfter(out, queue, j - 1)
        BY <3>5, <4>2 DEF m
      <4>. QED BY <3>1, <3>5, <4>1, <4>3 DEF Clean
    <3>. QED BY <1>2, <2>2, <3>2, <3>3, <3>4, <3>5 DEF Clean
  <2>. QED BY <1>6, <1>7, <2>1, <2>2 DEF Undisturbed
<1>. QED BY <1>9, <1>10, <1>11, <1>12, <1>13, <1>15, <1>16, <1>17 DEF IInv

-----------------------------------------------------------------------------
(* The invariant, and what it says *)

(* Every step preserves the invariant.                                     *)
LEMMA NextKeeps ==
  ASSUME IInv, [Next]_allVars
  PROVE  IInv'
<1>1. CASE Takeover
  <2>1. ASSUME NEW kb \in Keyboards, NEW keys \in SUBSET KeysOn[kb],
               NEW last \in {<< >>} \cup {<<e>> : e \in [key : KeysOn[kb], down : BOOLEAN]},
               Grab(kb, keys, last)
        PROVE  IInv'
    BY <2>1, GrabKeeps
  <2>2. CASE DrainPending
    BY <2>2, DrainKeeps
  <2>3. ASSUME NEW answered \in BOOLEAN, CaptureHeldKeys(answered)
        PROVE  IInv'
    BY <2>3, CaptureKeeps
  <2>4. CASE (\E done \in BOOLEAN : Ungrab(done)) \/ Regrab
    BY <2>4, StageKeeps
  <2>5. CASE ReadInWindow
    BY <2>5, WindowKeeps
  <2>6. CASE EndWindow
    BY <2>6, EndWindowKeeps
  <2>7. CASE PushDevice
    BY <2>7, PushKeeps
  <2>. QED BY <1>1, <2>1, <2>2, <2>3, <2>4, <2>5, <2>6, <2>7 DEF Takeover
<1>2. ASSUME NEW k \in Keys, KeyChanges(k)
      PROVE  IInv'
  BY <1>2, ChangeKeeps
<1>3. CASE Emits
  BY <1>3, EmitsKeeps
<1>4. ASSUME NEW kb \in Keyboards, Removes(kb)
      PROVE  IInv'
  BY <1>4, RemoveKeeps
<1>5. CASE taking = NoKeyboard /\ Start /\ UNCHANGED <<takeoverVars, client, missed>>
  BY <1>5, StartKeeps DEF takeoverVars
<1>6. CASE (Reload \/ EndBatch) /\ UNCHANGED <<takeoverVars, client, missed>>
  <2>1. /\ UNCHANGED <<started, managed, engines, pending, down, queue, out, disturbed>>
        /\ UNCHANGED <<taking, stage, held, found, ring, client, missed>>
    BY <1>6 DEF Reload, EndBatch, takeoverVars
  <2>2. lookup' \in Lookups /\ batch' \in {batch, NoKeyboard} /\ emitting' \in {emitting, queue # << >>}
    BY <1>6 DEF Reload, EndBatch, IInv, TypeOK
  <2>. QED BY <2>1, <2>2, SameStateKeeps
<1>7. ASSUME NEW kb \in Keyboards, NEW k \in KeysOn[kb], NEW value \in 0 .. 2, ReadsKey(kb, k, value)
      PROVE  IInv'
  BY <1>7, ReadsKeyKeeps
<1>8. CASE UNCHANGED allVars
  <2>1. /\ UNCHANGED <<started, managed, engines, pending, down, queue, out, disturbed>>
        /\ UNCHANGED <<taking, stage, held, found, ring, client, missed>>
    BY <1>8 DEF allVars, vars, takeoverVars
  <2>2. lookup' \in Lookups /\ batch' = batch /\ emitting' = emitting
    BY <1>8 DEF allVars, vars, IInv, TypeOK
  <2>. QED BY <2>1, <2>2, SameStateKeeps
<1>. QED BY <1>1, <1>2, <1>3, <1>4, <1>5, <1>6, <1>7, <1>8 DEF Next

(* The invariant holds in every reachable state.                           *)
LEMMA InvariantHolds == Spec => []IInv
BY InitInv, NextKeeps, PTL DEF Spec

(* Once every key is up and everything decided has been emitted, nothing   *)
(* stays down for the clients or on the virtual keyboard but what was given*)
(* up, whatever keyboards there are and whatever the rules (device.rs and  *)
(* engine.rs of the Linux platform).                                       *)
THEOREM NothingStaysDown == Spec => []NoStuckKeys
<1>1. IInv => NoStuckKeys
  BY InvSuffices
<1>. QED BY <1>1, InvariantHolds, PTL

(* A rule's chord is tapped while no other modifier is down than those it  *)
(* shall go with, as long as nothing is down for two reasons (emission_plan*)
(* and decide_down).                                                       *)
THEOREM TapsAreClean == Spec => []CleanTapUndisturbed
<1>1. IInv => CleanTapUndisturbed
  BY InvSuffices
<1>. QED BY <1>1, InvariantHolds, PTL

(* The modifiers that an engine takes for down are down on the virtual     *)
(* keyboard, as long as nothing is down for two reasons.                   *)
THEOREM HeldModifiersAreDown == Spec => []EmittedModifiersDown
<1>1. IInv => EmittedModifiersDown
  BY InvSuffices
<1>. QED BY <1>1, InvariantHolds, PTL

=============================================================================
