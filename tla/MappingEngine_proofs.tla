----------------------- MODULE MappingEngine_proofs -----------------------
(***************************************************************************)
(* The properties of one mapping engine for every set of keys, modifiers,  *)
(* rules and reachability values.  The inductive invariant joins the       *)
(* justification of the engine's marks with the fact that no mark of a     *)
(* fired trigger exists before the stream starts.                          *)
(*                                                                         *)
(* The second half is about the hook of Windows, which is driven by one    *)
(* engine: what its injections leave down is what the engine answers for.  *)
(***************************************************************************)
EXTENDS MappingEngine, WindowsRemap, KeyEngine_proofs

BeforeStream ==
  ~streaming =>
    /\ engine.swallowed = {}
    /\ engine.consumed = {}
    /\ last = [event |-> "none", key |-> NoKey, decision |-> Pass]

IInv == TypeOK /\ EngineInv(engine) /\ BeforeStream

(* decide answers with a decision whatever the lookup holds.               *)
LEMMA DownDecisionType ==
  ASSUME NEW e, EngineInv(e), NEW k \in Keys, NEW dev, NEW reachable,
         NEW f \in Lookups
  PROVE  DownDecision(e, k, dev, reachable, f) \in Decision
<1>1. TriggeredRelease(e) \in Mask
  BY DEF TriggeredRelease, EngineInv, Engine, Mask
<1>2. ASSUME Fires(e, k, dev, reachable, f)
      PROVE  f[TriggerOf(e, k, dev)] \in Seq(NativeKey)
  BY <1>2, LookupAssumption DEF Fires
<1>3. << >> \in Seq(NativeKey)
  OBVIOUS
<1>. QED BY <1>1, <1>2, <1>3 DEF DownDecision, Decision, Emit, Pass, Swallow, Mask

(* A key-up is answered with a decision that lets go a set of bits.        *)
LEMMA UpDecisionType ==
  ASSUME NEW e, EngineInv(e), NEW k \in Keys
  PROVE  UpDecision(e, k) \in Decision
<1>1. e.held[k] \in Mask
  BY DEF EngineInv, Engine
<1>2. << >> \in Seq(NativeKey)
  OBVIOUS
<1>. QED BY <1>1, <1>2 DEF UpDecision, Decision, Swallow, Pass, ConsumedRelease, Mask

(* A new engine that has decided nothing satisfies the invariant.          *)
LEMMA InitIInv == Init => IInv
<1>. SUFFICES ASSUME Init PROVE IInv
  OBVIOUS
<1>1. EngineInv(engine)
  BY FreshEngineInv DEF Init
<1>2. Pass \in Decision
  <2>1. << >> \in Seq(NativeKey)
    OBVIOUS
  <2>. QED BY <2>1 DEF Pass, Decision, Mask
<1>3. TypeOK
  BY <1>1, <1>2 DEF Init, TypeOK, Event, EngineInv
<1>4. BeforeStream
  BY DEF Init, BeforeStream, FreshEngine
<1>. QED BY <1>1, <1>3, <1>4 DEF IInv

(* Notes, decisions, reloads and stray releases preserve the invariant.    *)
LEMMA StepIInv == IInv /\ [Next]_vars => IInv'
<1>. SUFFICES ASSUME IInv, [Next]_vars PROVE IInv'
  OBVIOUS
<1>. USE DEF IInv
<1>1. CASE StartStream
  BY <1>1 DEF StartStream, TypeOK, BeforeStream
<1>2. CASE LookupChanges
  BY <1>2 DEF LookupChanges, TypeOK, BeforeStream
<1>3. ASSUME NEW k \in Keys, NoteHeld(k) PROVE IInv'
  <2>1. CASE k \in Resolvable
    <3>1. EngineInv(engine') /\ engine'.swallowed = {} /\ engine'.consumed = {}
      BY <1>3, <2>1, NoteHeldInv DEF NoteHeld, BeforeStream, Resolvable
    <3>. QED BY <1>3, <3>1 DEF NoteHeld, TypeOK, BeforeStream, EngineInv, TrackOverlap
  <2>2. CASE k \notin Resolvable
    <3>0. UsageOf[k] = NoUsage /\ engine' = NoteStaleKey(engine, k)
      BY <1>3, <2>2 DEF NoteHeld, Resolvable
    <3>1. EngineInv(engine') /\ engine' = [engine EXCEPT !.stale = engine'.stale]
      BY <3>0, StaleKeyInv
    <3>2. engine'.swallowed = engine.swallowed /\ engine'.consumed = engine.consumed
      BY <3>1 DEF EngineInv, Engine
    <3>. QED BY <1>3, <3>1, <3>2 DEF NoteHeld, TypeOK, BeforeStream, EngineInv, TrackOverlap
  <2>. QED BY <2>1, <2>2
<1>4. ASSUME NEW k \in Keys, Unnote(k) PROVE IInv'
  <2>1. CASE k \in Resolvable
    <3>1. EngineInv(engine') /\ engine'.swallowed = {} /\ engine'.consumed = {}
      BY <1>4, <2>1, UnnoteHeldInv DEF Unnote, BeforeStream, Resolvable
    <3>. QED BY <1>4, <3>1 DEF Unnote, TypeOK, BeforeStream, EngineInv, TrackOverlap
  <2>2. CASE k \notin Resolvable
    <3>0. UsageOf[k] = NoUsage /\ engine' = ClearStaleKey(engine, k)
      BY <1>4, <2>2 DEF Unnote, Resolvable
    <3>1. EngineInv(engine') /\ engine' = [engine EXCEPT !.stale = engine'.stale]
      BY <3>0, StaleKeyInv
    <3>2. engine'.swallowed = engine.swallowed /\ engine'.consumed = engine.consumed
      BY <3>1 DEF EngineInv, Engine
    <3>. QED BY <1>4, <3>1, <3>2 DEF Unnote, TypeOK, BeforeStream, EngineInv, TrackOverlap
  <2>. QED BY <2>1, <2>2
<1>5. ASSUME NEW k \in Keys, NEW dev \in Devices, NEW reachable \in Reachability,
             KeyDown(k, dev, reachable)
      PROVE  IInv'
  <2>1. \A t \in DOMAIN lookup : lookup[t] \in Seq(NativeKey)
    BY LookupAssumption DEF TypeOK
  <2>2. EngineInv(engine')
    BY <1>5, <2>1, AfterDownInv DEF KeyDown, Resolvable
  <2>3. last'.decision \in Decision /\ last' \in Event
    BY <1>5, DownDecisionType DEF KeyDown, TypeOK, Event
  <2>. QED BY <1>5, <2>2, <2>3 DEF KeyDown, TypeOK, BeforeStream, EngineInv, TrackOverlap
<1>6. ASSUME NEW k \in Keys, KeyUp(k) PROVE IInv'
  <2>1. EngineInv(engine')
    BY <1>6, AfterUpInv DEF KeyUp
  <2>2. last' \in Event
    BY <1>6, UpDecisionType DEF KeyUp, TypeOK, Event
  <2>. QED BY <1>6, <2>1, <2>2 DEF KeyUp, TypeOK, BeforeStream, EngineInv, TrackOverlap
<1>7. ASSUME NEW k \in Keys, UnresolvedUp(k) PROVE IInv'
  <2>0. UsageOf[k] = NoUsage /\ engine' = ClearStaleKey(engine, k)
    BY <1>7 DEF UnresolvedUp, Resolvable
  <2>1. EngineInv(engine')
    BY <2>0, StaleKeyInv
  <2>. QED BY <1>7, <2>1 DEF UnresolvedUp, TypeOK, BeforeStream, EngineInv, TrackOverlap
<1>8. CASE UNCHANGED vars
  BY <1>8 DEF vars, TypeOK, BeforeStream
<1>. QED BY <1>1, <1>2, <1>3, <1>4, <1>5, <1>6, <1>7, <1>8 DEF Next

(* The invariant holds in every behaviour of one engine.                   *)
THEOREM InductiveInvariant == Spec => []IInv
BY InitIInv, StepIInv, PTL DEF Spec

(* The engine's state always has its type: masks stay masks, decisions     *)
(* carry masks and native keys.                                            *)
THEOREM TypeCorrect == Spec => []TypeOK
<1>1. IInv => TypeOK
  BY DEF IInv
<1>. QED BY <1>1, InductiveInvariant, PTL

(* No swallowed mark, held bits or stale mark outlives the press it        *)
(* belongs to, however presses, releases, repeats and reloads interleave.  *)
THEOREM MarksCorrect == Spec => []MarksBelongToPress
<1>1. IInv => MarksBelongToPress
  BY DEF IInv, EngineInv, MarksBelongToPress
<1>. QED BY <1>1, InductiveInvariant, PTL

(* Forwarded and consumed marks are disjoint and belong to modifier keys   *)
(* that are down, so a consumed mark never swallows a later release.       *)
THEOREM ForwardedMarksCorrect == Spec => []ForwardedMarksBelongToPress
<1>1. IInv => ForwardedMarksBelongToPress
  BY DEF IInv, EngineInv, ForwardedMarksBelongToPress
<1>. QED BY <1>1, InductiveInvariant, PTL

(* Rules are never looked up with a modifier bit that no pressed key and   *)
(* no held output stands for.                                              *)
THEOREM LookupBitsCorrect == Spec => []ModifierBitsJustified
<1>1. IInv => ModifierBitsJustified
  BY DEF IInv, EngineInv, ModifierBitsJustified
<1>. QED BY <1>1, InductiveInvariant, PTL

-----------------------------------------------------------------------------
(* Nothing dropped silently *)

Dropped(e, f) == (HeldBits(e) \ HeldBits(f)) \cup (f.consumed \ e.consumed)

(* A fired rule takes nothing from a holder but the trigger's bits.        *)
LEMMA TriggerKeepsRestBits ==
  ASSUME NEW e, NEW k \in Keys, NEW outputs
  PROVE  HeldBits(e) \ e.modifierState \subseteq HeldBits(FireTrigger(e, k, outputs))
<1>. DEFINE g == FireTrigger(e, k, outputs)
<1>1. \A j \in Keys : g.held[j] = IF j = k
                                  THEN (e.held[j] \ e.modifierState) \cup HeldMaskOf(outputs)
                                  ELSE e.held[j] \ e.modifierState
  BY DEF FireTrigger
<1>. HIDE DEF g
<1>2. \A j \in Keys : e.held[j] \ e.modifierState \subseteq g.held[j]
  BY <1>1
<1>3. HeldBits(e) \ e.modifierState \subseteq HeldBits(g)
  BY <1>2 DEF HeldBits
<1>. QED BY <1>3 DEF g

(* The bits a key-down takes from holders or turns into consumed ones are  *)
(* in the release mask of its decision.                                    *)
LEMMA DownDropsReleased ==
  ASSUME NEW e, EngineInv(e), NEW k \in Keys, NEW dev, NEW reachable, NEW f \in Lookups
  PROVE  Dropped(e, AfterDown(e, k, dev, reachable, f))
           \subseteq DownDecision(e, k, dev, reachable, f).release
<1>. DEFINE g == AfterDown(e, k, dev, reachable, f)
<1>0. e \in Engine
  BY DEF EngineInv
<1>1. CASE k \in e.pressed
  BY <1>1 DEF AfterDown, Dropped
<1>2. CASE k \notin e.pressed /\ Fires(e, k, dev, reachable, f)
  <2>. DEFINE outputs == f[TriggerOf(e, k, dev)]
  <2>1. g = FireTrigger(e, k, outputs)
    BY <1>2 DEF AfterDown
  <2>2. DownDecision(e, k, dev, reachable, f).release = TriggeredRelease(e)
    BY <1>2 DEF DownDecision, Emit
  <2>3. HeldBits(e) \ e.modifierState \subseteq HeldBits(g)
    BY <2>1, TriggerKeepsRestBits
  <2>4. g.consumed \ e.consumed \subseteq e.modifierState \cap e.forwarded
    BY <2>1 DEF FireTrigger
  <2>. QED BY <2>2, <2>3, <2>4 DEF Dropped, TriggeredRelease
<1>3. CASE k \notin e.pressed /\ ~Fires(e, k, dev, reachable, f)
  <2>1. g \in {PressUnmapped(e, k), PressUnreachable(e, k)}
    BY <1>3 DEF AfterDown
  <2>2. g.held = e.held /\ g.consumed \subseteq e.consumed
    BY <2>1, <1>0 DEF PressUnmapped, PressUnreachable, Engine
  <2>. QED BY <2>2 DEF Dropped, HeldBits
<1>. QED BY <1>1, <1>2, <1>3

(* The bits a key-up takes from the released key are in the release mask   *)
(* of its decision, and a key-up consumes nothing.                         *)
LEMMA UpDropsReleased ==
  ASSUME NEW e, EngineInv(e), NEW k \in Keys
  PROVE  Dropped(e, AfterUp(e, k)) \subseteq UpDecision(e, k).release
<1>. DEFINE g == AfterUp(e, k)
<1>0. e \in Engine
  BY DEF EngineInv
<1>1. CASE k \notin e.pressed
  BY <1>1 DEF AfterUp, Dropped
<1>2. CASE k \in e.pressed /\ k \in e.swallowed
  <2>1. UpDecision(e, k).release = e.held[k]
    BY <1>2 DEF UpDecision, Swallow
  <2>2. g.consumed = e.consumed /\ \A j \in Keys : j # k => g.held[j] = e.held[j]
    BY <1>0, <1>2 DEF AfterUp, ReleaseSwallowed, Engine
  <2>. QED BY <2>1, <2>2 DEF Dropped, HeldBits
<1>3. CASE k \in e.pressed /\ k \notin e.swallowed
  <2>1. g.held = e.held /\ g.consumed \subseteq e.consumed
    BY <1>0, <1>3 DEF AfterUp, ReleaseForwarded, Engine
  <2>. QED BY <2>1 DEF Dropped, HeldBits
<1>. QED BY <1>1, <1>2, <1>3

(* What the tracker forgets is always handed to the output device.         *)
THEOREM NothingIsDroppedSilently == Spec => NothingDroppedSilently
<1>1. ASSUME IInv, [Next]_vars
      PROVE  [Dropped(engine, engine') \subseteq last'.decision.release]_vars
  <2>1. CASE StartStream \/ LookupChanges \/ UNCHANGED vars
    <3>1. engine' = engine
      BY <2>1 DEF StartStream, LookupChanges, vars
    <3>. QED BY <3>1 DEF Dropped, HeldBits
  <2>2. ASSUME NEW k \in Keys, NoteHeld(k) \/ Unnote(k) \/ UnresolvedUp(k)
        PROVE  Dropped(engine, engine') \subseteq last'.decision.release
    <3>1. engine'.held = engine.held /\ engine'.consumed \subseteq engine.consumed
      <4>1. engine \in Engine
        BY <1>1 DEF IInv, EngineInv
      <4>2. \/ engine' = NoteHeldKey(engine, k) \/ engine' = NoteStaleKey(engine, k)
            \/ engine' = UnnoteHeldKey(engine, k) \/ engine' = ClearStaleKey(engine, k)
            \/ engine' = engine
        BY <2>2 DEF NoteHeld, Unnote, UnresolvedUp
      <4>3. CASE engine' = NoteHeldKey(engine, k)
        BY <4>1, <4>3 DEF NoteHeldKey, Engine
      <4>4. CASE engine' = UnnoteHeldKey(engine, k)
        BY <4>1, <4>4 DEF UnnoteHeldKey, Engine
      <4>5. CASE engine' = NoteStaleKey(engine, k) \/ engine' = ClearStaleKey(engine, k)
        BY <4>1, <4>5 DEF NoteStaleKey, ClearStaleKey, Engine
      <4>. QED BY <4>2, <4>3, <4>4, <4>5
    <3>. QED BY <3>1 DEF Dropped, HeldBits
  <2>3. ASSUME NEW k \in Keys, NEW dev \in Devices, NEW reachable \in Reachability,
               KeyDown(k, dev, reachable)
        PROVE  Dropped(engine, engine') \subseteq last'.decision.release
    BY <1>1, <2>3, DownDropsReleased DEF KeyDown, IInv, TypeOK
  <2>4. ASSUME NEW k \in Keys, KeyUp(k)
        PROVE  Dropped(engine, engine') \subseteq last'.decision.release
    BY <1>1, <2>4, UpDropsReleased DEF KeyUp, IInv
  <2>. QED BY <1>1, <2>1, <2>2, <2>3, <2>4 DEF Next
<1>. QED BY <1>1, InductiveInvariant, PTL DEF Spec, NothingDroppedSilently, Dropped

-----------------------------------------------------------------------------
(* The exact lookup state *)

\* Without a shared bit the mask is exact, and a bit that is shared is known.
Tracked == overlapped \/ (PhysicalPlusHeld(engine) /\ ~Overlap(engine))

(* The notes made at the grab keep the mask exact, too.                    *)
LEMMA NotesExact ==
  ASSUME IInv, PhysicalPlusHeld(engine), ~Overlap(engine), NEW k \in Keys,
         NoteHeld(k) \/ Unnote(k) \/ UnresolvedUp(k)
  PROVE  PhysicalPlusHeld(engine')
<1>0. engine \in Engine
  BY DEF IInv, TypeOK
<1>1. CASE k \notin Resolvable
  <2>1. /\ engine'.pressed = engine.pressed /\ engine'.swallowed = engine.swallowed
        /\ engine'.held = engine.held /\ engine'.modifierState = engine.modifierState
    BY <1>0, <1>1 DEF NoteHeld, Unnote, UnresolvedUp, NoteStaleKey, ClearStaleKey, Engine
  <2>2. PassedKeys(engine') = PassedKeys(engine) /\ HeldBits(engine') = HeldBits(engine)
    BY <2>1 DEF PassedKeys, HeldBits
  <2>. QED BY <2>1, <2>2 DEF PhysicalPlusHeld
<1>2. CASE k \in Resolvable /\ NoteHeld(k)
  <2>1. /\ engine'.pressed = engine.pressed \cup {k} /\ engine'.swallowed = engine.swallowed
        /\ engine'.held = engine.held
        /\ engine'.modifierState = engine.modifierState \cup OwnBit(k)
    BY <1>0, <1>2 DEF NoteHeld, NoteHeldKey, Engine
  <2>2. k \notin engine.swallowed
    BY <1>2 DEF NoteHeld, IInv, BeforeStream
  <2>. QED BY <2>1, <2>2, PressExact DEF IInv
<1>3. CASE k \in Resolvable /\ Unnote(k)
  <2>1. k \in engine.pressed /\ engine.swallowed = {}
    BY <1>3 DEF Unnote, Resolvable, IInv, BeforeStream, EngineInv, KeyMarksJustified, PassedKeys
  <2>2. engine.held[k] = {}
    BY <2>1 DEF IInv, EngineInv, KeyMarksJustified
  <2>3. /\ engine'.pressed = engine.pressed \ {k} /\ engine'.swallowed = engine.swallowed \ {k}
        /\ engine'.held = engine.held
        /\ engine'.modifierState = engine.modifierState \ Sources(engine, k)
    BY <1>0, <1>3, <2>1, <2>2 DEF Unnote, UnnoteHeldKey, Engine, Sources
  <2>4. \A j \in Keys : engine'.held[j] = IF j = k THEN {} ELSE engine.held[j]
    BY <2>2, <2>3
  <2>. QED BY <2>1, <2>3, <2>4, ReleaseExact DEF IInv
<1>4. CASE k \in Resolvable /\ UnresolvedUp(k)
  BY <1>4 DEF UnresolvedUp
<1>. QED BY <1>1, <1>2, <1>3, <1>4

(* Every step that changes the engine keeps the mask exact, or notices the *)
(* bit that is shared; with all keys up it starts anew.                    *)
LEMMA StepTracked == IInv /\ IInv' /\ Tracked /\ [Next]_vars => Tracked'
<1>. SUFFICES ASSUME IInv, IInv', Tracked, [Next]_vars PROVE Tracked'
  OBVIOUS
<1>1. CASE StartStream \/ LookupChanges \/ UNCHANGED vars
  BY <1>1 DEF StartStream, LookupChanges, vars, Tracked
<1>2. ASSUME NEW k \in Keys,
             \/ NoteHeld(k) \/ Unnote(k) \/ UnresolvedUp(k) \/ KeyUp(k)
             \/ \E dev \in Devices, reachable \in Reachability : KeyDown(k, dev, reachable)
      PROVE  Tracked'
  <2>1. overlapped' = (Overlap(engine') \/ (overlapped /\ engine'.pressed # {}))
    BY <1>2 DEF NoteHeld, Unnote, UnresolvedUp, KeyDown, KeyUp, TrackOverlap
  <2>2. CASE overlapped'
    BY <2>2 DEF Tracked
  <2>3. CASE ~overlapped' /\ overlapped
    <3>1. engine'.pressed = {} /\ ~Overlap(engine')
      BY <2>1, <2>3 DEF IInv, TypeOK
    <3>2. EngineInv(engine')
      BY DEF IInv
    <3>. QED BY <3>1, <3>2, AllUpExact DEF Tracked
  <2>4. CASE ~overlapped' /\ ~overlapped
    <3>1. PhysicalPlusHeld(engine) /\ ~Overlap(engine) /\ ~Overlap(engine')
      BY <2>1, <2>4 DEF Tracked
    <3>2. CASE NoteHeld(k) \/ Unnote(k) \/ UnresolvedUp(k)
      BY <3>1, <3>2, NotesExact DEF Tracked
    <3>3. ASSUME NEW dev \in Devices, NEW reachable \in Reachability,
                 KeyDown(k, dev, reachable)
          PROVE  Tracked'
      BY <3>1, <3>3, AfterDownExact DEF KeyDown, IInv, Tracked
    <3>4. CASE KeyUp(k)
      BY <3>1, <3>4, AfterUpExact DEF KeyUp, IInv, Tracked
    <3>. QED BY <1>2, <3>2, <3>3, <3>4
  <2>. QED BY <2>2, <2>3, <2>4
<1>. QED BY <1>1, <1>2 DEF Next

(* The mask rules are looked up with is exactly the physical modifiers     *)
(* plus the held ones (engine.rs:224-225), whenever no two keys that are   *)
(* down have stood for one bit since all were up.                          *)
THEOREM LookupStateIsExact == Spec => []ModifierStateExact
<1>1. Init => Tracked
  <2>. SUFFICES ASSUME Init PROVE Tracked
    OBVIOUS
  <2>1. engine.pressed = {}
    BY DEF Init, FreshEngine
  <2>2. EngineInv(engine)
    BY FreshEngineInv DEF Init
  <2>3. PhysicalPlusHeld(engine)
    BY <2>1, <2>2, AllUpExact
  <2>4. ~Overlap(engine)
    BY <2>1 DEF Overlap
  <2>. QED BY <2>3, <2>4 DEF Tracked
<1>2. Tracked => ModifierStateExact
  BY DEF Tracked, ModifierStateExact, ModifierStateIsPhysicalPlusHeld
<1>. QED BY <1>1, <1>2, StepTracked, InductiveInvariant, PTL DEF Spec

-----------------------------------------------------------------------------
(* One mapping engine implements KeyFate: a key-up and a repeat are        *)
(* answered as the key-down was, whatever has changed since.               *)

\* The abstract state of an engine record; Fate and ConsumedKeys are those
\* of the variable engine.
FateOf(e) ==
  [k \in Resolvable |-> IF k \notin e.pressed THEN "up"
                        ELSE IF k \in e.swallowed THEN "captured"
                        ELSE IF k \in e.stale THEN "preheld"
                        ELSE "passed"]

ConsumedOf(e) == {k \in Resolvable : k \in PassedKeys(e) /\ OwnBit(k) \cap e.consumed # {}}

(* The refinement mapping, of this state and of the next.                  *)
LEMMA Mapping ==
  /\ Fate = FateOf(engine) /\ Fate' = FateOf(engine')
  /\ ConsumedKeys = ConsumedOf(engine) /\ ConsumedKeys' = ConsumedOf(engine')
BY DEF Fate, FateOf, ConsumedKeys, ConsumedOf, Resolvable, PassedKeys, OwnBit

(* A key that is up carries no mark, and only passed keys are consumed.    *)
LEMMA FateFacts ==
  ASSUME NEW e, EngineInv(e), NEW k \in Resolvable
  PROVE  /\ k \in Keys
         /\ k \notin e.pressed => k \notin e.swallowed /\ k \notin e.stale
         /\ k \in e.swallowed => k \notin e.stale
         /\ k \in ConsumedOf(e) => FateOf(e)[k] = "passed"
<1>1. k \in Keys /\ UsageOf[k] # NoUsage
  BY DEF Resolvable
<1>2. k \notin e.pressed => k \notin e.swallowed /\ k \notin e.stale
  BY <1>1 DEF EngineInv, KeyMarksJustified, PassedKeys
<1>3. k \in e.swallowed => k \notin e.stale
  BY <1>1 DEF EngineInv, KeyMarksJustified, PassedKeys
<1>4. k \in ConsumedOf(e) => k \in e.pressed /\ k \notin e.swallowed /\ k \notin e.stale
  BY DEF ConsumedOf, PassedKeys, EngineInv, KeyMarksJustified
<1>5. k \in ConsumedOf(e) => FateOf(e)[k] = "passed"
  BY <1>4 DEF FateOf
<1>. QED BY <1>1, <1>2, <1>3, <1>5

(* An operation on one key changes the fate of that key only.              *)
LEMMA OneFateChanges ==
  ASSUME NEW e, NEW f, NEW k \in Resolvable, NEW to,
         f.pressed \ {k} = e.pressed \ {k},
         f.swallowed \ {k} = e.swallowed \ {k},
         f.stale \ {k} = e.stale \ {k},
         FateOf(f)[k] = to
  PROVE  FateOf(f) = [FateOf(e) EXCEPT ![k] = to]
<1>1. ASSUME NEW j \in Resolvable, j # k
      PROVE  FateOf(f)[j] = FateOf(e)[j]
  <2>1. /\ j \in f.pressed <=> j \in e.pressed
        /\ j \in f.swallowed <=> j \in e.swallowed
        /\ j \in f.stale <=> j \in e.stale
    BY <1>1
  <2>. QED BY <2>1 DEF FateOf
<1>2. DOMAIN FateOf(e) = Resolvable /\ FateOf(f) = [j \in Resolvable |-> FateOf(f)[j]]
  BY DEF FateOf
<1>. QED BY <1>1, <1>2

-----------------------------------------------------------------------------
(* What each operation does to fates and consumed keys *)

(* An unmapped press is passed, and consumes nothing.                      *)
LEMMA UnmappedFate ==
  ASSUME NEW e, EngineInv(e), NEW k \in Resolvable, k \notin e.pressed
  PROVE  /\ FateOf(PressUnmapped(e, k)) = [FateOf(e) EXCEPT ![k] = "passed"]
         /\ ConsumedOf(PressUnmapped(e, k)) \subseteq ConsumedOf(e)
<1>. DEFINE f == PressUnmapped(e, k)
<1>1. /\ f.pressed = e.pressed \cup {k}
      /\ f.swallowed = e.swallowed
      /\ f.stale = e.stale
      /\ f.consumed = e.consumed \ OwnBit(k)
  BY DEF PressUnmapped, EngineInv, Engine
<1>2. k \notin e.swallowed /\ k \notin e.stale
  BY FateFacts
<1>. HIDE DEF f
<1>3. FateOf(f)[k] = "passed"
  BY <1>1, <1>2 DEF FateOf
<1>4. FateOf(f) = [FateOf(e) EXCEPT ![k] = "passed"]
  BY <1>1, <1>3, OneFateChanges
<1>5. ConsumedOf(f) \subseteq ConsumedOf(e)
  BY <1>1 DEF ConsumedOf, PassedKeys
<1>. QED BY <1>4, <1>5 DEF f

(* So is a press that finds the emitter unreachable: no other key has its  *)
(* bit, so nothing is left of an earlier consumption.                      *)
LEMMA UnreachableFate ==
  ASSUME NEW e, EngineInv(e), NEW k \in Resolvable, k \notin e.pressed,
         FALSE \in Reachability
  PROVE  /\ FateOf(PressUnreachable(e, k)) = [FateOf(e) EXCEPT ![k] = "passed"]
         /\ ConsumedOf(PressUnreachable(e, k)) \subseteq ConsumedOf(e)
<1>. DEFINE f == PressUnreachable(e, k)
<1>1. /\ f.pressed = e.pressed \cup {k}
      /\ f.swallowed = e.swallowed
      /\ f.stale = e.stale
      /\ f.consumed = e.consumed
  BY DEF PressUnreachable, EngineInv, Engine
<1>2. k \in Keys /\ k \notin e.swallowed /\ k \notin e.stale
  BY FateFacts
<1>. HIDE DEF f
<1>3. FateOf(f)[k] = "passed"
  BY <1>1, <1>2 DEF FateOf
<1>4. FateOf(f) = [FateOf(e) EXCEPT ![k] = "passed"]
  BY <1>1, <1>3, OneFateChanges
<1>5. e.consumed \subseteq BitsOf(PassedKeys(e)) /\ PassedKeys(e) \subseteq Keys
  BY DEF EngineInv, ModifierMarksJustified, PassedKeys, Engine
<1>6. OwnBit(k) \cap e.consumed = {}
  <2>1. ASSUME NEW b \in OwnBit(k) \cap e.consumed PROVE FALSE
    <3>1. PICK j \in PassedKeys(e) : b \in OwnBit(j)
      BY <1>5 DEF BitsOf
    <3>2. j = k
      BY <1>2, <1>5, <3>1, UnreachableAssumption
    <3>. QED BY <3>1, <3>2 DEF PassedKeys
  <2>. QED BY <2>1
<1>7. ConsumedOf(f) \subseteq ConsumedOf(e)
  BY <1>1, <1>6 DEF ConsumedOf, PassedKeys
<1>. QED BY <1>4, <1>7 DEF f

(* A fired rule captures the key, and consumes passed keys only.           *)
LEMMA TriggerFate ==
  ASSUME NEW e, EngineInv(e), NEW k \in Resolvable, k \notin e.pressed, NEW outputs
  PROVE  /\ FateOf(FireTrigger(e, k, outputs)) = [FateOf(e) EXCEPT ![k] = "captured"]
         /\ ConsumedOf(e) \subseteq ConsumedOf(FireTrigger(e, k, outputs))
         /\ \A j \in ConsumedOf(FireTrigger(e, k, outputs)) : FateOf(e)[j] = "passed"
<1>. DEFINE f == FireTrigger(e, k, outputs)
<1>1. /\ f.pressed = e.pressed \cup {k}
      /\ f.swallowed = e.swallowed \cup {k}
      /\ f.stale = e.stale
      /\ e.consumed \subseteq f.consumed
  BY DEF FireTrigger
<1>. HIDE DEF f
<1>2. FateOf(f)[k] = "captured"
  BY <1>1 DEF FateOf
<1>3. FateOf(f) = [FateOf(e) EXCEPT ![k] = "captured"]
  BY <1>1, <1>2, OneFateChanges
<1>4. PassedKeys(f) = PassedKeys(e)
  BY <1>1 DEF PassedKeys
<1>5. ConsumedOf(e) \subseteq ConsumedOf(f)
  BY <1>1, <1>4 DEF ConsumedOf
<1>6. ASSUME NEW j \in ConsumedOf(f) PROVE FateOf(e)[j] = "passed"
  <2>1. j \in Resolvable /\ j \in PassedKeys(e) /\ OwnBit(j) # {}
    BY <1>4 DEF ConsumedOf
  <2>2. j \notin e.stale
    BY <2>1 DEF EngineInv, KeyMarksJustified
  <2>. QED BY <2>1, <2>2 DEF FateOf, PassedKeys
<1>. QED BY <1>3, <1>5, <1>6 DEF f

(* A release ends the fate of its key, and its consumption.                *)
LEMMA ReleaseFate ==
  ASSUME NEW e, EngineInv(e), NEW k \in Resolvable, k \in e.pressed
  PROVE  /\ FateOf(AfterUp(e, k)) = [FateOf(e) EXCEPT ![k] = "up"]
         /\ ConsumedOf(AfterUp(e, k)) \subseteq ConsumedOf(e) \ {k}
<1>. DEFINE f == AfterUp(e, k)
<1>1. /\ f.pressed = e.pressed \ {k}
      /\ f.swallowed = e.swallowed \ {k}
      /\ f.stale = e.stale \ {k}
      /\ f.consumed \subseteq e.consumed
  <2>1. CASE k \in e.swallowed
    BY <2>1 DEF AfterUp, ReleaseSwallowed, EngineInv, Engine
  <2>2. CASE k \notin e.swallowed
    BY <2>2 DEF AfterUp, ReleaseForwarded, EngineInv, Engine
  <2>. QED BY <2>1, <2>2
<1>. HIDE DEF f
<1>2. FateOf(f)[k] = "up"
  BY <1>1 DEF FateOf
<1>3. FateOf(f) = [FateOf(e) EXCEPT ![k] = "up"]
  BY <1>1, <1>2, OneFateChanges
<1>4. ConsumedOf(f) \subseteq ConsumedOf(e) \ {k}
  BY <1>1 DEF ConsumedOf, PassedKeys
<1>. QED BY <1>3, <1>4 DEF f

-----------------------------------------------------------------------------
(* Every step of the engine is a step of the abstract specification *)

(* A new engine's keys are all up.                                         *)
LEMMA InitRefines == Init => Promise!Init
<1>. SUFFICES ASSUME Init PROVE Promise!Init
  OBVIOUS
<1>1. FateOf(FreshEngine) = [k \in Resolvable |-> "up"]
  BY DEF FateOf, FreshEngine
<1>2. ConsumedOf(FreshEngine) = {}
  BY DEF ConsumedOf, FreshEngine, PassedKeys
<1>3. LastAnswer = Promise!Silent
  BY DEF Init, LastAnswer, Promise!Silent, Promise!Answer, Pass
<1>. QED BY <1>1, <1>2, <1>3, Mapping DEF Init, Promise!Init

(* A key-down is a repeat, a captured press or a passed one.               *)
LEMMA KeyDownRefines ==
  ASSUME IInv, NEW k \in Keys, NEW dev \in Devices, NEW reachable \in Reachability,
         KeyDown(k, dev, reachable)
  PROVE  Promise!Repeat(k) \/ Promise!PressCaptured(k) \/ Promise!PressPassed(k)
<1>. DEFINE d == DownDecision(engine, k, dev, reachable, lookup)
<1>0. /\ k \in Resolvable
      /\ EngineInv(engine)
      /\ engine' = AfterDown(engine, k, dev, reachable, lookup)
  BY DEF KeyDown, IInv
<1>1. LastAnswer' = Promise!Answer("down", k, d.kind)
  BY DEF KeyDown, LastAnswer, Promise!Answer
<1>. HIDE DEF d
<1>2. CASE k \in engine.pressed
  <2>1. FateOf(engine)[k] # "up"
    BY <1>0, <1>2 DEF FateOf
  <2>2. d.kind = IF FateOf(engine)[k] = "passed" THEN "Pass" ELSE "Swallow"
    BY <1>0, <1>2 DEF d, DownDecision, FateOf, Pass, Swallow
  <2>3. engine' = engine
    BY <1>0, <1>2 DEF AfterDown
  <2>. QED BY <1>1, <2>1, <2>2, <2>3, Mapping DEF Promise!Repeat
<1>3. CASE k \notin engine.pressed /\ Fires(engine, k, dev, reachable, lookup)
  <2>. DEFINE outputs == lookup[TriggerOf(engine, k, dev)]
  <2>1. engine' = FireTrigger(engine, k, outputs)
    BY <1>0, <1>3 DEF AfterDown
  <2>2. d.kind = "Emit"
    BY <1>3 DEF d, DownDecision, Emit
  <2>. HIDE DEF outputs
  <2>3. FateOf(engine') = [FateOf(engine) EXCEPT ![k] = "captured"]
    BY <1>0, <1>3, <2>1, TriggerFate
  <2>4. ConsumedOf(engine) \subseteq ConsumedOf(engine')
    BY <1>0, <1>3, <2>1, TriggerFate
  <2>5. \A j \in ConsumedOf(engine') : j \in Resolvable /\ FateOf(engine)[j] = "passed"
    BY <1>0, <1>3, <2>1, TriggerFate DEF ConsumedOf
  <2>6. FateOf(engine)[k] = "up"
    BY <1>0, <1>3 DEF FateOf
  <2>. QED BY <1>1, <2>2, <2>3, <2>4, <2>5, <2>6, Mapping
           DEF Promise!PressCaptured, Promise!Passed
<1>4. CASE k \notin engine.pressed /\ ~Fires(engine, k, dev, reachable, lookup)
  <2>1. d.kind = "Pass"
    BY <1>4 DEF d, DownDecision, Pass
  <2>2. FateOf(engine)[k] = "up"
    BY <1>0, <1>4 DEF FateOf
  <2>3. /\ FateOf(engine') = [FateOf(engine) EXCEPT ![k] = "passed"]
        /\ ConsumedOf(engine') \subseteq ConsumedOf(engine)
    <3>1. CASE reachable
      BY <1>0, <1>4, <3>1, UnmappedFate DEF AfterDown
    <3>2. CASE ~reachable
      <4>1. FALSE \in Reachability
        BY <3>2, LookupAssumption
      <4>. QED BY <1>0, <1>4, <3>2, <4>1, UnreachableFate DEF AfterDown
    <3>. QED BY <3>1, <3>2
  <2>. QED BY <1>1, <2>1, <2>2, <2>3, Mapping DEF Promise!PressPassed
<1>. QED BY <1>2, <1>3, <1>4

(* A key-up is answered by the fate of its press.                          *)
LEMMA KeyUpRefines ==
  ASSUME IInv, NEW k \in Keys, KeyUp(k)
  PROVE  Promise!Release(k) \/ Promise!StrayRelease(k)
<1>. DEFINE d == UpDecision(engine, k)
<1>0. k \in Resolvable /\ EngineInv(engine) /\ engine' = AfterUp(engine, k)
  BY DEF KeyUp, IInv
<1>1. LastAnswer' = Promise!Answer("up", k, d.kind)
  BY DEF KeyUp, LastAnswer, Promise!Answer
<1>. HIDE DEF d
<1>2. CASE k \notin engine.pressed
  <2>1. FateOf(engine)[k] = "up" /\ engine' = engine
    BY <1>0, <1>2 DEF FateOf, AfterUp
  <2>2. d.kind = "Pass"
    BY <1>2 DEF d, UpDecision, Pass
  <2>. QED BY <1>1, <2>1, <2>2, Mapping DEF Promise!StrayRelease
<1>3. CASE k \in engine.pressed
  <2>1. FateOf(engine)[k] # "up"
    BY <1>0, <1>3 DEF FateOf
  <2>2. /\ FateOf(engine') = [FateOf(engine) EXCEPT ![k] = "up"]
        /\ ConsumedOf(engine') \subseteq ConsumedOf(engine) \ {k}
    BY <1>0, <1>3, ReleaseFate
  <2>3. d.kind = IF FateOf(engine)[k] = "captured" THEN "Swallow"
                 ELSE IF k \in ConsumedOf(engine) THEN "ConsumedRelease"
                 ELSE "Pass"
    BY <1>0, <1>3
       DEF d, UpDecision, FateOf, ConsumedOf, PassedKeys, Pass, Swallow, ConsumedRelease
  <2>. QED BY <1>1, <2>1, <2>2, <2>3, Mapping DEF Promise!Release
<1>. QED BY <1>2, <1>3

(* Noting a held key, or undoing the note, happens before any answer.      *)
LEMMA NoteRefines ==
  ASSUME IInv, IInv', NEW k \in Keys, NoteHeld(k) \/ Unnote(k)
  PROVE  Promise!Preset
<1>1. ~streaming /\ ~streaming' /\ last' = last
  BY DEF NoteHeld, Unnote
<1>2. /\ engine.swallowed = {} /\ engine'.swallowed = {} /\ engine'.consumed = {}
      /\ last = [event |-> "none", key |-> NoKey, decision |-> Pass]
  BY <1>1 DEF IInv, BeforeStream
<1>3. \A j \in Resolvable : FateOf(engine)[j] # "captured"
  BY <1>2 DEF FateOf
<1>4. FateOf(engine') \in [Resolvable -> {"up", "passed", "preheld"}]
  BY <1>2 DEF FateOf
<1>5. ConsumedOf(engine') = {}
  BY <1>2 DEF ConsumedOf
<1>6. LastAnswer = Promise!Silent /\ LastAnswer' = LastAnswer
  BY <1>1, <1>2 DEF LastAnswer, Promise!Silent, Promise!Answer, Pass
<1>. QED BY <1>3, <1>4, <1>5, <1>6, Mapping DEF Promise!Preset

(* The release of a key without HID identity is not seen by the promise.   *)
LEMMA UnresolvedRefines ==
  ASSUME IInv, NEW k \in Keys, UnresolvedUp(k)
  PROVE  UNCHANGED Promise!vars
<1>1. k \notin Resolvable /\ engine' = ClearStaleKey(engine, k) /\ last' = last
  BY DEF UnresolvedUp
<1>2. /\ engine'.pressed = engine.pressed
      /\ engine'.swallowed = engine.swallowed
      /\ engine'.consumed = engine.consumed
      /\ engine'.stale = engine.stale \ {k}
  BY <1>1 DEF ClearStaleKey, IInv, EngineInv, Engine
<1>3. FateOf(engine') = FateOf(engine)
  BY <1>1, <1>2 DEF FateOf
<1>4. ConsumedOf(engine') = ConsumedOf(engine)
  BY <1>2 DEF ConsumedOf, PassedKeys
<1>. QED BY <1>1, <1>3, <1>4, Mapping DEF Promise!vars, LastAnswer

(* Every step is a step of the abstract specification, or a stutter.       *)
LEMMA StepRefines == IInv /\ IInv' /\ [Next]_vars => [Promise!Next]_(Promise!vars)
<1>. SUFFICES ASSUME IInv, IInv', [Next]_vars
              PROVE  Promise!Next \/ UNCHANGED Promise!vars
  BY DEF Promise!vars
<1>1. CASE StartStream \/ LookupChanges \/ UNCHANGED vars
  <2>1. engine' = engine /\ last' = last
    BY <1>1 DEF StartStream, LookupChanges, vars
  <2>. QED BY <2>1, Mapping DEF Promise!vars, LastAnswer
<1>2. ASSUME NEW k \in Keys, NoteHeld(k) \/ Unnote(k)
      PROVE  Promise!Next
  BY <1>2, NoteRefines DEF Promise!Next
<1>3. ASSUME NEW k \in Keys, NEW dev \in Devices, NEW reachable \in Reachability,
             KeyDown(k, dev, reachable)
      PROVE  Promise!Next
  <2>1. k \in Resolvable
    BY <1>3 DEF KeyDown
  <2>. QED BY <1>3, <2>1, KeyDownRefines DEF Promise!Next
<1>4. ASSUME NEW k \in Keys, KeyUp(k)
      PROVE  Promise!Next
  <2>1. k \in Resolvable
    BY <1>4 DEF KeyUp
  <2>. QED BY <1>4, <2>1, KeyUpRefines DEF Promise!Next
<1>5. ASSUME NEW k \in Keys, UnresolvedUp(k)
      PROVE  UNCHANGED Promise!vars
  BY <1>5, UnresolvedRefines
<1>. QED BY <1>1, <1>2, <1>3, <1>4, <1>5 DEF Next

(* One engine keeps the promise of decide: whatever the rules, the focus   *)
(* and the reachability flag do between two events of a key, its release   *)
(* and its repeats are answered as its press was.                          *)
THEOREM FateIsKept == Spec => KeyFateKept
BY InitRefines, StepIInv, StepRefines, InductiveInvariant, PTL
   DEF Spec, KeyFateKept, Promise!Spec

-----------------------------------------------------------------------------
(* The Windows hook: what its injections leave down *)

(* The ledger knows every injection, so the hook lets them all through.    *)
LEMMA AllIsSent ==
  ASSUME NEW codes, NEW isDown
  PROVE  Sent(Move(codes, isDown)) = codes
<1>1. Move(codes, isDown).codes = codes
  BY DEF Move
<1>2. ASSUME NEW step PROVE Matched(Recorded(<< >>, step), step)
  <2>1. 1 \in DOMAIN Append(<< >>, step) /\ Append(<< >>, step)[1] = step
    <3>1. Append(<< >>, step) = <<step>>
      OBVIOUS
    <3>. QED BY <3>1
  <2>. QED BY <2>1 DEF Recorded, Matched, Range
<1>. QED BY <1>1, <1>2 DEF Sent

\* An action leaves no more down than it says, and takes away what it says.
KeepsItsWord(a) ==
  Leaves(a, TRUE) \subseteq Presses(a) /\ Releases(a) \subseteq Leaves(a, FALSE)

(* The outputs of a plan: a tap ends with what it began with, ...          *)
LEMMA TapKeepsItsWord ==
  ASSUME NEW nk, NEW allowed
  PROVE  Leaves(Tap(nk, allowed), TRUE) = {} /\ KeepsItsWord(Tap(nk, allowed))
<1>. DEFINE a == Tap(nk, allowed)
            mods == ModifierCodes(nk.modifiers)
            base == CodesOf(nk.usage)
            moves == <<Move(mods, TRUE), Move(base, TRUE), Move(base, FALSE), Move(mods, FALSE)>>
<1>1. MovesOf(a) = moves /\ Presses(a) = {} /\ Releases(a) = Toggled(nk)
  BY DEF Tap, MovesOf, TapMoves, Presses, Releases
<1>2. DOMAIN moves = {1, 2, 3, 4}
      /\ moves[1] = Move(mods, TRUE) /\ moves[2] = Move(base, TRUE)
      /\ moves[3] = Move(base, FALSE) /\ moves[4] = Move(mods, FALSE)
  OBVIOUS
<1>3. Toggled(nk) \subseteq mods \cup base /\ mods \cup base \subseteq Keys
  BY DEF Toggled, ModifierCodes, CodesOf
<1>4. \A codes, isDown : Move(codes, isDown).isDown = isDown
  BY DEF Move
<1>. HIDE DEF a, mods, base, moves
<1>5. /\ Sent(moves[1]) = mods /\ Sent(moves[2]) = base
      /\ Sent(moves[3]) = base /\ Sent(moves[4]) = mods
  <2>1. Sent(Move(mods, TRUE)) = mods /\ Sent(Move(mods, FALSE)) = mods
    BY AllIsSent
  <2>2. Sent(Move(base, TRUE)) = base /\ Sent(Move(base, FALSE)) = base
    BY AllIsSent
  <2>. QED BY <1>2, <2>1, <2>2
<1>6. /\ moves[1].isDown = TRUE /\ moves[2].isDown = TRUE
      /\ moves[3].isDown = FALSE /\ moves[4].isDown = FALSE
  BY <1>2 DEF Move
<1>7. Leaves(a, TRUE) = {}
  <2>1. ASSUME NEW i \in DOMAIN moves, moves[i].isDown = TRUE, NEW c \in Sent(moves[i])
        PROVE  \E j \in DOMAIN moves : j > i /\ c \in Sent(moves[j])
    <3>1. CASE i = 1
      <4>1. Sent(moves[i]) = mods
        BY <1>5, <3>1
      <4>2. c \in Sent(moves[4])
        BY <1>5, <2>1, <4>1
      <4>3. 4 \in DOMAIN moves /\ 4 > 1
        BY <1>2
      <4>. QED BY <3>1, <4>2, <4>3
    <3>2. CASE i = 2
      <4>1. Sent(moves[i]) = base
        BY <1>5, <3>2
      <4>2. c \in Sent(moves[3])
        BY <1>5, <2>1, <4>1
      <4>3. 3 \in DOMAIN moves /\ 3 > 2
        BY <1>2
      <4>. QED BY <3>2, <4>2, <4>3
    <3>3. i # 3 /\ i # 4
      BY <1>6, <2>1
    <3>. QED BY <1>2, <3>1, <3>2, <3>3
  <2>. QED BY <1>1, <2>1 DEF Leaves
<1>8. mods \cup base \subseteq Leaves(a, FALSE)
  <2>1. ASSUME NEW c \in mods PROVE c \in Leaves(a, FALSE)
    <3>1. /\ 4 \in DOMAIN moves /\ moves[4].isDown = FALSE /\ c \in Sent(moves[4])
      BY <1>2, <1>5, <1>6
    <3>2. \A j \in DOMAIN moves : ~(j > 4)
      BY <1>2
    <3>. QED BY <1>1, <1>3, <3>1, <3>2 DEF Leaves
  <2>2. ASSUME NEW c \in base, c \notin mods PROVE c \in Leaves(a, FALSE)
    <3>1. /\ 3 \in DOMAIN moves /\ moves[3].isDown = FALSE /\ c \in Sent(moves[3])
      BY <1>2, <1>5, <1>6
    <3>2. \A j \in DOMAIN moves : j > 3 => j = 4
      BY <1>2
    <3>3. \A j \in DOMAIN moves : j > 3 => c \notin Sent(moves[j])
      BY <1>5, <2>2, <3>2
    <3>. QED BY <1>1, <1>3, <3>1, <3>3 DEF Leaves
  <2>. QED BY <2>1, <2>2
<1>9. Leaves(a, TRUE) = {} /\ KeepsItsWord(a)
  BY <1>1, <1>3, <1>7, <1>8 DEF KeepsItsWord
<1>. QED BY <1>9 DEF a

(* ... a hold leaves its modifiers down, and a release takes them away.    *)
LEMMA OneMove ==
  ASSUME NEW a, NEW codes \in SUBSET Keys, NEW isDown \in BOOLEAN, MovesOf(a) = <<Move(codes, isDown)>>
  PROVE  Leaves(a, isDown) = codes /\ Leaves(a, ~isDown) = {}
<1>1. /\ DOMAIN MovesOf(a) = {1} /\ MovesOf(a)[1] = Move(codes, isDown)
  OBVIOUS
<1>2. Sent(MovesOf(a)[1]) = codes /\ MovesOf(a)[1].isDown = isDown
  BY <1>1, AllIsSent DEF Move
<1>3. \A j \in DOMAIN MovesOf(a) : ~(j > 1)
  BY <1>1
<1>4. Leaves(a, isDown) = codes
  BY <1>1, <1>2, <1>3 DEF Leaves
<1>5. Leaves(a, ~isDown) = {}
  BY <1>1, <1>2 DEF Leaves
<1>. QED BY <1>4, <1>5

LEMMA HoldKeepsItsWord ==
  ASSUME NEW nk, OutputHeldMask(nk) # {}
  PROVE  KeepsItsWord(Hold(nk))
<1>. DEFINE codes == ModifierCodes(nk.modifiers \cup {BitOf[nk.usage]})
<1>1. MovesOf(Hold(nk)) = <<Move(codes, TRUE)>>
  BY DEF MovesOf, Hold, HoldMoves
<1>2. /\ OutputHeldMask(nk) = nk.modifiers \cup {BitOf[nk.usage]}
      /\ Presses(Hold(nk)) = ModifierCodes(OutputHeldMask(nk)) /\ Releases(Hold(nk)) = {}
  BY DEF OutputHeldMask, Presses, Releases, Hold
<1>3. codes \in SUBSET Keys
  BY DEF ModifierCodes
<1>. HIDE DEF codes
<1>4. Leaves(Hold(nk), TRUE) = codes
  BY <1>1, <1>3, OneMove
<1>. QED BY <1>2, <1>4 DEF KeepsItsWord, codes

LEMMA ReleaseKeepsItsWord ==
  ASSUME NEW mask
  PROVE  KeepsItsWord(ReleaseConsumed(mask))
<1>. DEFINE codes == ModifierCodes(mask)
<1>1. MovesOf(ReleaseConsumed(mask)) = <<Move(codes, FALSE)>>
  BY DEF MovesOf, ReleaseConsumed, ReleaseMoves
<1>2. Presses(ReleaseConsumed(mask)) = {} /\ Releases(ReleaseConsumed(mask)) = codes
  BY DEF Presses, Releases, ReleaseConsumed
<1>3. codes \in SUBSET Keys
  BY DEF ModifierCodes
<1>. HIDE DEF codes
<1>4. Leaves(ReleaseConsumed(mask), FALSE) = codes /\ Leaves(ReleaseConsumed(mask), TRUE) = {}
  <2>1. Leaves(ReleaseConsumed(mask), FALSE) = codes /\ Leaves(ReleaseConsumed(mask), ~FALSE) = {}
    BY <1>1, <1>3, OneMove
  <2>. QED BY <2>1
<1>. QED BY <1>2, <1>4 DEF KeepsItsWord

\* The plan of a decision that does not let the event pass.
LEMMA PlanKeepsItsWord ==
  ASSUME NEW d, NEW k, NEW value, NEW mask \in Mask, NEW outputs \in Seq(NativeKey),
         d \in {Emit(mask, outputs), Swallow(mask), ConsumedRelease},
         NEW i \in DOMAIN Plan(d, k, value, {})
  PROVE  KeepsItsWord(Plan(d, k, value, {})[i])
<1>. DEFINE first == ReleaseFirst(mask)
            outs == Planned(outputs, {})
            acts == Plan(d, k, value, {})
<1>1. first \in Seq(Action) /\ \A j \in 1 .. Len(first) : KeepsItsWord(first[j])
  BY ReleaseFirstEffect, ReleaseKeepsItsWord
<1>2. outs \in Seq(Action) /\ \A j \in 1 .. Len(outs) : KeepsItsWord(outs[j])
  <2>1. {} \in Mask
    BY DEF Mask
  <2>2. outs \in Seq(Action) /\ Len(outs) = Len(outputs)
    BY <2>1, PlannedActions
  <2>3. \A j \in 1 .. Len(outputs) :
          outs[j] = IF OutputHeldMask(outputs[j]) = {}
                    THEN Tap(outputs[j], {} \cup HeldMaskOf(outputs)) ELSE Hold(outputs[j])
    BY DEF Planned
  <2>. QED BY <2>2, <2>3, TapKeepsItsWord, HoldKeepsItsWord
<1>3. acts \in {first \o outs, first, << >>}
  <2>1. Plan(Emit(mask, outputs), k, value, {}) = first \o outs
    BY DEF Plan, Emit, Planned
  <2>2. Plan(Swallow(mask), k, value, {}) = first
    BY DEF Plan, Swallow
  <2>3. Plan(ConsumedRelease, k, value, {}) = << >>
    BY DEF Plan, ConsumedRelease
  <2>. QED BY <2>1, <2>2, <2>3
<1>. HIDE DEF first, outs, acts
<1>4. CASE acts = first \o outs
  <2>1. /\ Len(first \o outs) = Len(first) + Len(outs)
        /\ \A j \in 1 .. Len(first) + Len(outs) :
             (first \o outs)[j] = IF j <= Len(first) THEN first[j] ELSE outs[j - Len(first)]
    BY <1>1, <1>2, ConcatProperties
  <2>2. first \o outs \in Seq(Action) /\ Len(first) \in Nat /\ Len(outs) \in Nat
    BY <1>1, <1>2
  <2>3. i \in 1 .. Len(first) + Len(outs)
    BY <1>4, <2>1, <2>2 DEF acts
  <2>4. CASE i <= Len(first)
    BY <1>1, <1>4, <2>1, <2>2, <2>3, <2>4 DEF acts
  <2>5. CASE ~(i <= Len(first))
    <3>1. i - Len(first) \in 1 .. Len(outs)
      BY <2>2, <2>3, <2>5
    <3>. QED BY <1>2, <1>4, <2>1, <2>3, <2>5, <3>1 DEF acts
  <2>. QED BY <2>4, <2>5
<1>5. CASE acts = first
  BY <1>1, <1>5 DEF acts
<1>6. CASE acts = << >>
  BY <1>6 DEF acts
<1>. QED BY <1>3, <1>4, <1>5, <1>6

(* Of what was not restored, nothing is down after such actions that the   *)
(* plan does not leave down.                                               *)
LEMMA AfterActionsWithin ==
  ASSUME NEW actions \in Seq(Action), fg \notin Elevated,
         \A i \in DOMAIN actions : KeepsItsWord(actions[i])
  PROVE  AfterActions(actions) \ restored \subseteq DownAtEnd(os \ restored, actions)
<1>1. DOMAIN actions = 1 .. Len(actions) /\ Len(actions) \in Nat
  OBVIOUS
<1>. SUFFICES ASSUME NEW c \in AfterActions(actions) \ restored
              PROVE  c \in DownAtEnd(os \ restored, actions)
  OBVIOUS
<1>2. c \in Keys
  BY DEF AfterActions
<1>3. CASE c \in os /\ \A i \in DOMAIN actions : c \notin Leaves(actions[i], FALSE)
  <2>1. \A j \in 1 .. Len(actions) : c \notin Releases(actions[j])
    BY <1>1, <1>3 DEF KeepsItsWord
  <2>. QED BY <1>2, <1>3, <2>1 DEF DownAtEnd, DownAfter
<1>4. ASSUME NEW i \in DOMAIN actions, c \in Leaves(actions[i], TRUE),
             \A j \in DOMAIN actions : j > i => c \notin Leaves(actions[j], FALSE)
      PROVE  c \in DownAtEnd(os \ restored, actions)
  <2>1. i \in 1 .. Len(actions) /\ c \in Presses(actions[i])
    BY <1>1, <1>4 DEF KeepsItsWord
  <2>2. \A j \in (i + 1) .. Len(actions) : j \in DOMAIN actions /\ j > i
    BY <1>1
  <2>3. \A j \in (i + 1) .. Len(actions) : c \notin Releases(actions[j])
    BY <1>4, <2>2 DEF KeepsItsWord
  <2>. QED BY <1>2, <2>1, <2>3 DEF DownAtEnd, DownAfter
<1>. QED BY <1>3, <1>4 DEF AfterActions

-----------------------------------------------------------------------------
(* The Windows hook: nothing stays down *)

KeyEvent == [key : Keys, board : Boards, isDown : BOOLEAN, rawFirst : BOOLEAN]

\* The keys that are down, and the one whose event is on its way.
Known ==
  {k \in Keys : (\E b \in Boards : <<b, k>> \in down) \/ \E i \in DOMAIN input : input[i].key = k}

HookTypes ==
  /\ EngineInv(hookEngine)
  /\ \A j \in hookEngine.pressed : UsageOf[j] # NoUsage
  /\ down \subseteq Boards \X Keys
  /\ os \subseteq Keys
  /\ upset \in BOOLEAN /\ restored \subseteq Keys
  /\ \/ input = << >>
     \/ \E e \in KeyEvent : input = <<e>> /\ (e.isDown => <<e.board, e.key>> \in down)

\* As long as the hook has missed nothing, the engine has only such keys for
\* pressed, and whatever is down in the input system and was not restored it
\* will release.
HookAnswers ==
  ~upset => /\ hookEngine.pressed \subseteq Known
            /\ os \ restored \subseteq Accounted(hookEngine, Known)

HookInv == HookTypes /\ HookAnswers

(* Who is not without HID identity is answered for whether down or not.    *)
LEMMA KnownDoesNotMatter ==
  ASSUME NEW e, NEW S, NEW k \in Keys, UsageOf[k] # NoUsage
  PROVE  Accounted(e, S \ {k}) = Accounted(e, S)
BY DEF Accounted

(* A press decided with nothing else to go with its taps.                  *)
LEMMA PressAnswers ==
  ASSUME NEW e, EngineInv(e), NEW k \in Keys, UsageOf[k] # NoUsage, NEW dk \in SUBSET Keys,
         k \notin dk, NEW dev, NEW lk, \A t \in DOMAIN lk : lk[t] \in Seq(NativeKey),
         NEW S \in SUBSET Keys
  PROVE  /\ DownPlan(e, k, dev, lk, 1, {}) \in Seq(Action)
         /\ \A c \in DownAtEnd(S, DownPlan(e, k, dev, lk, 1, {})) :
              \/ c \in Accounted(AfterDown(e, k, dev, TRUE, lk), dk \cup {k})
              \/ c \in S /\ c \notin Accounted(e, dk)
              \/ c = k /\ k \in e.pressed
<1>1. {} \in Mask /\ 1 \in {1, 2} /\ ((1 = 2) <=> (k \in dk))
  BY DEF Mask
<1>2. DownPlan(e, k, dev, lk, 1, {}) \in Seq(Action)
  BY <1>1, DownPlanType
<1>3. ASSUME NEW value \in {1, 2}, (value = 2) <=> (k \in dk), NEW others \in Mask
      PROVE  \A c \in DownAtEnd(S, DownPlan(e, k, dev, lk, value, others)) :
               \/ c \in Accounted(AfterDown(e, k, dev, TRUE, lk), dk \cup {k})
               \/ c \in S /\ c \notin Accounted(e, dk)
               \/ c = k /\ k \in e.pressed \ dk
  BY <1>3, AfterDownAnswers
<1>4. \A c \in DownAtEnd(S, DownPlan(e, k, dev, lk, 1, {})) :
        \/ c \in Accounted(AfterDown(e, k, dev, TRUE, lk), dk \cup {k})
        \/ c \in S /\ c \notin Accounted(e, dk)
        \/ c = k /\ k \in e.pressed
  BY <1>1, <1>3
<1>. QED BY <1>1, <1>2, <1>4

(* A key that goes down, or repeats.                                       *)
LEMMA HookDown ==
  ASSUME HookInv, NEW k \in Known, UsageOf[k] # NoUsage, Decide(k, TRUE)
  PROVE  /\ EngineInv(hookEngine') /\ os' \subseteq Keys /\ upset' \in BOOLEAN
         /\ restored' \subseteq Keys
         /\ \A j \in hookEngine'.pressed : UsageOf[j] # NoUsage
         /\ ~upset' => /\ hookEngine'.pressed \subseteq Known
                       /\ os' \ restored' \subseteq Accounted(hookEngine', Known)
<1>. DEFINE dev == Identified(Newest(UsageOf[k]))
            e == hookEngine
            f == AfterDown(e, k, dev, TRUE, Rules)
            d == DownDecision(e, k, dev, TRUE, Rules)
            acts == Plan(d, k, 1, {})
            dk == Known \ {k}
            S == os \ restored
<1>0. /\ k \in Keys /\ EngineInv(e) /\ os \in SUBSET Keys /\ upset \in BOOLEAN
      /\ restored \in SUBSET Keys
      /\ \A j \in e.pressed : UsageOf[j] # NoUsage
      /\ ~upset => e.pressed \subseteq Known /\ os \ restored \subseteq Accounted(e, Known)
      /\ \A t \in DOMAIN Rules : Rules[t] \in Seq(NativeKey)
  BY WindowsAssumption DEF HookInv, HookTypes, HookAnswers, Known
<1>1. /\ hookEngine' = f
      /\ Passes(d) => /\ os' = os \cup {k} /\ upset' = upset
                      /\ restored' = IF OwnBit(k) \cap e.consumed # {} THEN restored \cup {k}
                                                                      ELSE restored \ {k}
      /\ ~Passes(d) => restored' = restored \cap os'
      /\ ~Passes(d) /\ LooksElevated => os' = os \cup {k} /\ upset' = TRUE
      /\ ~Passes(d) /\ ~LooksElevated => os' = AfterActions(acts) /\ upset' = (upset \/ Lost(acts))
  BY DEF Decide, AfterEvent, RestoredBy, RestoresConsumed
<1>2. EngineInv(f)
  BY <1>0, AfterDownInv
<1>3. f.pressed \subseteq e.pressed \cup {k}
  BY <1>0 DEF AfterDown, FireTrigger, PressUnmapped, EngineInv, Engine
<1>4. os' \subseteq Keys /\ upset' \in BOOLEAN /\ restored' \subseteq Keys
  <2>. HIDE DEF d, acts, f, e
  <2>. QED BY <1>0, <1>1 DEF AfterActions, Lost
<1>5. ASSUME ~upset'
      PROVE  os' \ restored' \subseteq Accounted(f, Known)
  <2>0. ~upset /\ S \subseteq Accounted(e, dk) /\ S \in SUBSET Keys
    <3>1. ~upset
      <4>. HIDE DEF d, f, e, acts
      <4>. QED BY <1>0, <1>1, <1>5
    <3>2. Accounted(e, dk) = Accounted(e, Known)
      BY <1>0, KnownDoesNotMatter
    <3>. HIDE DEF e, dk
    <3>. QED BY <1>0, <3>1, <3>2
  <2>1. /\ acts \in Seq(Action)
        /\ \A c \in DownAtEnd(S, acts) :
             \/ c \in Accounted(f, dk \cup {k})
             \/ c \in S /\ c \notin Accounted(e, dk)
             \/ c = k /\ k \in e.pressed
    <3>1. dk \in SUBSET Keys /\ k \notin dk
      BY DEF Known
    <3>2. acts = DownPlan(e, k, dev, Rules, 1, {})
      BY DEF DownPlan
    <3>. HIDE DEF e, f, acts, dev, dk, S
    <3>3. /\ DownPlan(e, k, dev, Rules, 1, {}) \in Seq(Action)
          /\ \A c \in DownAtEnd(S, DownPlan(e, k, dev, Rules, 1, {})) :
               \/ c \in Accounted(AfterDown(e, k, dev, TRUE, Rules), dk \cup {k})
               \/ c \in S /\ c \notin Accounted(e, dk)
               \/ c = k /\ k \in e.pressed
      BY <1>0, <2>0, <3>1, PressAnswers
    <3>. QED BY <3>2, <3>3 DEF f
  <2>2. dk \cup {k} = Known
    OBVIOUS
  <2>3. CASE Passes(d)
    <3>1. d = Pass
      <4>1. Emit(TriggeredRelease(e), Rules[TriggerOf(e, k, dev)]).kind # "Pass" /\ Swallow({}).kind # "Pass"
        BY DEF Emit, Swallow
      <4>2. d \in {Emit(TriggeredRelease(e), Rules[TriggerOf(e, k, dev)]), Swallow({}), Pass}
        BY DEF DownDecision
      <4>. HIDE DEF d
      <4>. QED BY <1>1, <1>5, <2>3, <4>1, <4>2 DEF Passes
    <3>2. acts = <<Forward(k, 1)>>
      BY <3>1, Plans
    <3>3. DownAtEnd(S, acts) = S \cup {k}
      <4>1. Forward(k, 1) \in Action /\ Presses(Forward(k, 1)) = {k} /\ Releases(Forward(k, 1)) = {}
        BY <1>0, EffectOfActions
      <4>2. Effect(S, Forward(k, 1)) = S \cup {k} /\ Presses(Forward(k, 1)) \subseteq Keys
        <5>. HIDE DEF S
        <5>. QED BY <1>0, <2>0, <4>1 DEF Effect
      <4>. HIDE DEF acts, S
      <4>. QED BY <2>0, <3>2, <4>1, <4>2, DownAfterOne
    <3>4. k \in e.pressed /\ OwnBit(k) \cap e.consumed = {} => k \in Accounted(f, Known)
      <4>1. k \in e.pressed => f = e /\ k \notin e.swallowed
        BY <3>1 DEF AfterDown, DownDecision, Pass, Swallow
      <4>. HIDE DEF f, e
      <4>. QED BY <1>0, <4>1 DEF Accounted, PassedKeys
    <3>5. /\ os' \ restored' \subseteq S \cup {k}
          /\ k \in os' \ restored' => OwnBit(k) \cap e.consumed = {}
      <4>. HIDE DEF d, e, f, acts
      <4>. QED BY <1>1, <2>3
    <3>. HIDE DEF acts, f, e, d, dk, S
    <3>. QED BY <2>0, <2>1, <2>2, <3>3, <3>4, <3>5
  <2>4. CASE ~Passes(d)
    <3>1. os' = AfterActions(acts) /\ fg \notin Elevated
      <4>1. ~LooksElevated
        BY <1>1, <1>5, <2>4
      <4>. QED BY <1>1, <2>4, <4>1 DEF LooksElevated, TokenElevated
    <3>2. PICK mask \in Mask, outputs \in Seq(NativeKey) :
            d \in {Emit(mask, outputs), Swallow(mask), ConsumedRelease}
      <4>1. CASE k \in e.pressed
        <5>1. d = Swallow({}) /\ {} \in Mask /\ << >> \in Seq(NativeKey)
          BY <2>4, <4>1 DEF DownDecision, Passes, Pass, Mask
        <5>. HIDE DEF d
        <5>. QED BY <5>1
      <4>2. CASE k \notin e.pressed
        <5>1. /\ Fires(e, k, dev, TRUE, Rules)
              /\ d = Emit(TriggeredRelease(e), Rules[TriggerOf(e, k, dev)])
          BY <2>4, <4>2 DEF DownDecision, Passes, Pass
        <5>2. TriggeredRelease(e) \in Mask /\ Rules[TriggerOf(e, k, dev)] \in Seq(NativeKey)
          BY <1>0, <5>1 DEF Fires, TriggeredRelease, EngineInv, Engine, Mask
        <5>. HIDE DEF d
        <5>. QED BY <5>1, <5>2
      <4>. QED BY <4>1, <4>2
    <3>3. \A i \in DOMAIN acts : KeepsItsWord(acts[i])
      <4>. HIDE DEF d
      <4>. QED BY <3>2, PlanKeepsItsWord
    <3>4. os' \ restored' \subseteq DownAtEnd(S, acts)
      <4>1. restored' = restored \cap os'
        BY <1>1, <2>4
      <4>. HIDE DEF acts
      <4>2. AfterActions(acts) \ restored \subseteq DownAtEnd(os \ restored, acts)
        BY <2>1, <3>1, <3>3, AfterActionsWithin
      <4>. QED BY <3>1, <4>1, <4>2
    <3>5. k \in e.pressed => acts = << >> /\ f = e
      <4>1. k \in e.pressed => d = Swallow({}) /\ f = e
        BY <2>4 DEF DownDecision, Passes, Pass, AfterDown
      <4>2. Plan(Swallow({}), k, 1, {}) = << >>
        BY DEF Plan, Swallow, ReleaseFirst
      <4>. QED BY <4>1, <4>2
    <3>6. k \in e.pressed => os' \ restored' \subseteq S
      <4>1. DownAtEnd(S, << >>) = S
        BY <2>0, DownAfterNone
      <4>. HIDE DEF acts, S
      <4>. QED BY <3>4, <3>5, <4>1
    <3>7. ASSUME k \in e.pressed PROVE os' \ restored' \subseteq Accounted(f, Known)
      <4>1. S \subseteq Accounted(e, Known)
        BY <1>0, <2>0
      <4>. HIDE DEF acts, f, e, d, dk, S
      <4>. QED BY <3>5, <3>6, <3>7, <4>1
    <3>. HIDE DEF acts, f, e, d, dk, S
    <3>. QED BY <2>0, <2>1, <2>2, <3>4, <3>7
  <2>. QED BY <2>3, <2>4
<1>6. ~upset' => f.pressed \subseteq Known
  <2>. HIDE DEF d, f, acts
  <2>. QED BY <1>0, <1>1, <1>3
<1>7. \A j \in f.pressed : UsageOf[j] # NoUsage
  BY <1>0, <1>3
<1>. HIDE DEF f
<1>. QED BY <1>1, <1>2, <1>4, <1>5, <1>6, <1>7

(* A key that goes up.                                                     *)
LEMMA HookUp ==
  ASSUME HookInv, NEW k \in Known, UsageOf[k] # NoUsage, Decide(k, FALSE)
  PROVE  /\ EngineInv(hookEngine') /\ os' \subseteq Keys /\ upset' \in BOOLEAN
         /\ restored' \subseteq Keys
         /\ \A j \in hookEngine'.pressed : UsageOf[j] # NoUsage
         /\ ~upset' => /\ hookEngine'.pressed \subseteq Known \ {k}
                       /\ os' \ restored' \subseteq Accounted(hookEngine', Known \ {k})
<1>. DEFINE e == hookEngine
            f == AfterUp(e, k)
            d == UpDecision(e, k)
            acts == Plan(d, k, 0, {})
            S == os \ restored
<1>0. /\ k \in Keys /\ EngineInv(e) /\ os \in SUBSET Keys /\ upset \in BOOLEAN
      /\ restored \in SUBSET Keys
      /\ \A j \in e.pressed : UsageOf[j] # NoUsage
      /\ ~upset => e.pressed \subseteq Known /\ os \ restored \subseteq Accounted(e, Known)
      /\ Known \in SUBSET Keys
  BY DEF HookInv, HookTypes, HookAnswers, Known
<1>1. /\ hookEngine' = f
      /\ Passes(d) => os' = os \ {k} /\ upset' = upset /\ restored' = restored \ {k}
      /\ ~Passes(d) => restored' = restored \cap os'
      /\ ~Passes(d) /\ LooksElevated => os' = os \ {k} /\ upset' = TRUE
      /\ ~Passes(d) /\ ~LooksElevated => os' = AfterActions(acts) /\ upset' = (upset \/ Lost(acts))
  BY <1>0 DEF Decide, AfterEvent, RestoredBy, RestoresConsumed
<1>2. EngineInv(f)
  BY <1>0, AfterUpInv
<1>3. f.pressed \subseteq e.pressed \ {k}
  BY <1>0 DEF AfterUp, ReleaseSwallowed, ReleaseForwarded, EngineInv, Engine
<1>4. os' \subseteq Keys /\ upset' \in BOOLEAN /\ restored' \subseteq Keys
  <2>. HIDE DEF d, acts, f, e
  <2>. QED BY <1>0, <1>1 DEF AfterActions, Lost
<1>5. ASSUME ~upset'
      PROVE  os' \ restored' \subseteq Accounted(f, Known \ {k})
  <2>0. ~upset /\ S \subseteq Accounted(e, Known) /\ S \in SUBSET Keys
    BY <1>0, <1>1, <1>5
  <2>1. /\ acts \in Seq(Action)
        /\ \A c \in DownAtEnd(S, acts) :
             c \in Accounted(f, Known \ {k}) \/ (c \in S /\ c \notin Accounted(e, Known))
    <3>1. acts = UpPlan(e, k)
      BY DEF UpPlan
    <3>. HIDE DEF e, f, acts, S
    <3>2. /\ UpPlan(e, k) \in Seq(Action)
          /\ \A c \in DownAtEnd(S, UpPlan(e, k)) :
               \/ c \in Accounted(AfterUp(e, k), Known \ {k})
               \/ c \in S /\ c \notin Accounted(e, Known)
      BY <1>0, <2>0, AfterUpAnswers
    <3>. QED BY <3>1, <3>2 DEF f
  <2>2. os' \ restored' \subseteq DownAtEnd(S, acts)
    <3>1. CASE Passes(d)
      <4>1. d = Pass
        <5>1. Swallow(e.held[k]).kind # "Pass" /\ ConsumedRelease.kind # "Pass"
          BY DEF Swallow, ConsumedRelease
        <5>2. d \in {Pass, Swallow(e.held[k]), ConsumedRelease}
          BY DEF UpDecision
        <5>. HIDE DEF d
        <5>. QED BY <3>1, <5>1, <5>2 DEF Passes
      <4>2. acts = <<Forward(k, 0)>>
        BY <4>1, Plans
      <4>3. Forward(k, 0) \in Action /\ Presses(Forward(k, 0)) = {} /\ Releases(Forward(k, 0)) = {k}
        BY <1>0, EffectOfActions
      <4>4. Effect(S, Forward(k, 0)) = S \ {k} /\ Presses(Forward(k, 0)) \subseteq Keys
        BY <2>0, <4>3 DEF Effect
      <4>. HIDE DEF acts, d, f, e
      <4>5. DownAtEnd(S, acts) = S \ {k}
        <5>. HIDE DEF S
        <5>. QED BY <2>0, <4>2, <4>3, <4>4, DownAfterOne
      <4>. QED BY <1>1, <3>1, <4>5
    <3>2. CASE ~Passes(d)
      <4>1. os' = AfterActions(acts) /\ fg \notin Elevated
        <5>1. ~LooksElevated
          BY <1>1, <1>5, <3>2
        <5>. QED BY <1>1, <3>2, <5>1 DEF LooksElevated, TokenElevated
      <4>2. /\ e.held[k] \in Mask /\ << >> \in Seq(NativeKey)
            /\ d \in {Emit(e.held[k], << >>), Swallow(e.held[k]), ConsumedRelease}
        BY <1>0, <3>2 DEF UpDecision, Passes, Pass, EngineInv, Engine
      <4>3. \A i \in DOMAIN acts : KeepsItsWord(acts[i])
        <5>. HIDE DEF d
        <5>. QED BY <4>2, PlanKeepsItsWord
      <4>4. restored' = restored \cap os'
        BY <1>1, <3>2
      <4>. HIDE DEF acts
      <4>5. AfterActions(acts) \ restored \subseteq DownAtEnd(os \ restored, acts)
        BY <2>1, <4>1, <4>3, AfterActionsWithin
      <4>. QED BY <4>1, <4>4, <4>5
    <3>. QED BY <3>1, <3>2
  <2>. HIDE DEF acts, f, e, S
  <2>. QED BY <2>0, <2>1, <2>2
<1>6. ~upset' => f.pressed \subseteq Known \ {k}
  BY <1>0, <1>1, <1>3
<1>7. \A j \in f.pressed : UsageOf[j] # NoUsage
  BY <1>0, <1>3
<1>. HIDE DEF f
<1>. QED BY <1>1, <1>2, <1>4, <1>5, <1>6, <1>7

(* Draining the outputs of consumer keys leaves nothing more down.         *)
LEMMA TapsLeaveNothing ==
  ASSUME NEW taps, \A i \in DOMAIN taps : \E nk, allowed : taps[i] = Tap(nk, allowed)
  PROVE  AfterActions(taps) \subseteq os
<1>1. \A i \in DOMAIN taps : Leaves(taps[i], TRUE) = {}
  BY TapKeepsItsWord
<1>. QED BY <1>1 DEF AfterActions

(* The event is delivered.                                                 *)
LEMMA DeliverStep ==
  ASSUME HookInv, Deliver
  PROVE  HookInv'
<1>1. PICK e \in KeyEvent : input = <<e>> /\ (e.isDown => <<e.board, e.key>> \in down)
  BY DEF HookInv, HookTypes, Deliver
<1>2. PICK k \in Keys : k = e.key
  BY DEF KeyEvent
<1>3. Head(input) = e /\ DOMAIN input = {1} /\ input[1] = e
  BY <1>1
<1>4. input' = << >> /\ down' = down
  BY DEF Deliver
<1>5. k \in Known
  BY <1>2, <1>3 DEF Known
<1>6. Known' = {j \in Keys : \E b \in Boards : <<b, j>> \in down}
  <2>1. DOMAIN << >> = {}
    OBVIOUS
  <2>. QED BY <1>4, <2>1 DEF Known
<1>7. Known \ {k} \subseteq Known' /\ (e.isDown => Known' = Known)
  <2>1. Known = {j \in Keys : (\E b \in Boards : <<b, j>> \in down) \/ j = k}
    BY <1>2, <1>3 DEF Known
  <2>2. e.isDown => \E b \in Boards : <<b, k>> \in down
    BY <1>1, <1>2 DEF KeyEvent
  <2>. QED BY <1>6, <2>1, <2>2
<1>8. e.isDown \in BOOLEAN
  BY DEF KeyEvent
<1>9. SUFFICES /\ EngineInv(hookEngine') /\ os' \subseteq Keys /\ upset' \in BOOLEAN
               /\ restored' \subseteq Keys
               /\ \A j \in hookEngine'.pressed : UsageOf[j] # NoUsage
               /\ ~upset' => /\ hookEngine'.pressed \subseteq Known'
                             /\ os' \ restored' \subseteq Accounted(hookEngine', Known')
  <2>1. EngineInv(hookEngine') = EngineInv(hookEngine)'
    BY DEF EngineInv
  <2>. QED BY <1>4 DEF HookInv, HookTypes, HookAnswers
<1>10. \A f, S, T : S \subseteq T => Accounted(f, S) \subseteq Accounted(f, T)
  BY DEF Accounted
<1>11. CASE UsageOf[k] # NoUsage /\ Decide(k, e.isDown)
  <2>1. CASE e.isDown
    BY <1>5, <1>7, <1>8, <1>11, <2>1, HookDown
  <2>2. CASE ~e.isDown
    <3>1. Decide(k, FALSE)
      BY <1>8, <1>11, <2>2
    <3>. QED BY <1>5, <1>7, <1>10, <1>11, <3>1, HookUp
  <2>. QED BY <2>1, <2>2
<1>12. CASE UsageOf[k] = NoUsage /\ PassUnknown(k, e.isDown)
  <2>1. /\ hookEngine' = hookEngine /\ upset' = upset /\ restored' = restored
        /\ os' = IF e.isDown THEN os \cup {k} ELSE os \ {k}
    BY <1>12 DEF PassUnknown, AfterEvent
  <2>2. /\ EngineInv(hookEngine) /\ os \subseteq Keys /\ upset \in BOOLEAN
        /\ restored \subseteq Keys
        /\ \A j \in hookEngine.pressed : UsageOf[j] # NoUsage
    BY DEF HookInv, HookTypes
  <2>3. ASSUME ~upset
        PROVE  hookEngine.pressed \subseteq Known' /\ os' \ restored \subseteq Accounted(hookEngine, Known')
    <3>1. hookEngine.pressed \subseteq Known /\ os \ restored \subseteq Accounted(hookEngine, Known)
      BY <2>3 DEF HookInv, HookAnswers
    <3>2. hookEngine.pressed \subseteq Known'
      BY <1>7, <1>12, <2>2, <3>1
    <3>3. \A c \in Keys \ {k} : c \in Accounted(hookEngine, Known) => c \in Accounted(hookEngine, Known')
      BY <1>7 DEF Accounted
    <3>4. e.isDown => k \in Accounted(hookEngine, Known')
      BY <1>5, <1>7, <1>12 DEF Accounted
    <3>5. os' \ restored \subseteq Accounted(hookEngine, Known')
      BY <1>5, <2>1, <2>2, <3>1, <3>3, <3>4
    <3>. QED BY <3>2, <3>5
  <2>. QED BY <2>1, <2>2, <2>3
<1>13. CASE Unseen(k, e.isDown)
  <2>1. /\ hookEngine' = hookEngine /\ upset' = TRUE /\ restored' = restored \cap os'
        /\ os' = os \cup {k} \/ os' = os \ {k}
    BY <1>8, <1>13 DEF Unseen, AfterEvent
  <2>. QED BY <2>1 DEF HookInv, HookTypes
<1>. QED BY <1>2, <1>3, <1>11, <1>12, <1>13 DEF Deliver

(* A step that leaves keys, hook and input system alone.                   *)
LEMMA QuietStep ==
  ASSUME HookInv, UNCHANGED <<hookEngine, down, os, upset, restored, input>>
  PROVE  HookInv'
BY DEF HookInv, HookTypes, HookAnswers, Known, EngineInv

(* A user presses, repeats or releases a key.                              *)
LEMMA UserStep ==
  ASSUME HookInv, NEW b \in Boards, NEW k \in KeysOn[b],
         NEW isDown \in BOOLEAN, NEW rawFirst \in BOOLEAN, UserKey(b, k, isDown, rawFirst)
  PROVE  HookInv'
<1>. DEFINE e == [key |-> k, board |-> b, isDown |-> isDown, rawFirst |-> rawFirst]
<1>1. k \in Keys
  BY WindowsAssumption
<1>2. /\ hookEngine' = hookEngine /\ os' = os /\ upset' = upset /\ restored' = restored
      /\ input = << >>
      /\ input' = <<e>>
      /\ down' = IF isDown THEN down \cup {<<b, k>>} ELSE down \ {<<b, k>>}
  BY DEF UserKey, keys
<1>3. e \in KeyEvent /\ (e.isDown => <<e.board, e.key>> \in down')
  BY <1>1, <1>2 DEF KeyEvent
<1>4. down' \subseteq Boards \X Keys
  BY <1>1, <1>2 DEF HookInv, HookTypes
<1>5. HookTypes'
  BY <1>2, <1>3, <1>4 DEF HookInv, HookTypes, EngineInv
<1>6. Known \subseteq Known'
  <2>1. DOMAIN << >> = {}
    OBVIOUS
  <2>2. Known = {j \in Keys : \E c \in Boards : <<c, j>> \in down}
    BY <1>2, <2>1 DEF Known
  <2>3. 1 \in DOMAIN <<e>> /\ <<e>>[1] = e /\ e.key = k
    OBVIOUS
  <2>. HIDE DEF e
  <2>4. k \in Known'
    BY <1>1, <1>2, <2>3 DEF Known
  <2>5. \A c \in Boards, j \in Keys : <<c, j>> \in down /\ j # k => <<c, j>> \in down'
    BY <1>2
  <2>. QED BY <2>2, <2>4, <2>5 DEF Known
<1>7. \A j \in Accounted(hookEngine, Known) : j \in Accounted(hookEngine, Known')
  BY <1>6 DEF Accounted
<1>8. HookAnswers'
  <2>1. ~upset => /\ hookEngine.pressed \subseteq Known'
                  /\ os \ restored \subseteq Accounted(hookEngine, Known')
    BY <1>6, <1>7 DEF HookInv, HookAnswers
  <2>. QED BY <1>2, <2>1 DEF HookAnswers
<1>. QED BY <1>5, <1>8 DEF HookInv

(* The histories of the keys end, with nothing down.                       *)
LEMMA CalmStep ==
  ASSUME HookInv, CalmDown
  PROVE  HookInv'
<1>1. /\ hookEngine' = FreshEngine /\ os' = {} /\ upset' = FALSE /\ down' = down
      /\ restored' = restored /\ input' = << >>
  BY DEF CalmDown
<1>2. EngineInv(hookEngine') /\ hookEngine'.pressed = {}
  BY <1>1, FreshEngineInv DEF FreshEngine
<1>3. HookTypes'
  BY <1>1, <1>2 DEF HookInv, HookTypes, EngineInv
<1>4. HookAnswers'
  BY <1>1, <1>2 DEF HookAnswers
<1>. QED BY <1>3, <1>4 DEF HookInv

(* The outputs of consumer keys are emitted.                               *)
LEMMA DrainStep ==
  ASSUME HookInv, Drain
  PROVE  HookInv'
<1>. DEFINE outputs == FlattenSeq(pending)
            taps == [i \in DOMAIN outputs |-> Tap(outputs[i], {})]
<1>1. /\ hookEngine' = hookEngine /\ down' = down /\ input' = input
      /\ os' = AfterActions(taps) /\ upset' = (upset \/ Lost(taps))
      /\ restored' = restored \cap os'
  BY DEF Drain, Takes
<1>2. os' \subseteq os
  <2>1. \A i \in DOMAIN taps : \E nk, allowed : taps[i] = Tap(nk, allowed)
    OBVIOUS
  <2>. HIDE DEF taps
  <2>. QED BY <1>1, <2>1, TapsLeaveNothing
<1>3. upset' \in BOOLEAN /\ (~upset' => ~upset)
  BY <1>1 DEF HookInv, HookTypes, Lost
<1>. HIDE DEF taps
<1>4. HookTypes'
  BY <1>1, <1>2, <1>3 DEF HookInv, HookTypes, EngineInv
<1>5. HookAnswers'
  BY <1>1, <1>2, <1>3 DEF HookInv, HookAnswers, Known
<1>. QED BY <1>4, <1>5 DEF HookInv

(* Every step keeps it.                                                    *)
LEMMA HookStep == HookInv /\ [WindowsNext]_windowsVars => HookInv'
<1>. SUFFICES ASSUME HookInv, [WindowsNext]_windowsVars PROVE HookInv'
  OBVIOUS
<1>1. CASE Environment
  <2>1. ASSUME NEW b \in Boards, NEW k \in KeysOn[b], NEW isDown \in BOOLEAN,
               NEW rawFirst \in BOOLEAN, UserKey(b, k, isDown, rawFirst)
        PROVE  HookInv'
    BY <2>1, UserStep
  <2>2. ASSUME NEW b \in Boards, NEW u \in ConsumerUsages, ConsumerKey(b, u)
        PROVE  HookInv'
    BY <2>2, QuietStep DEF ConsumerKey, keys
  <2>3. ASSUME NEW w \in Windows, Focus(w)
        PROVE  HookInv'
    BY <2>3, QuietStep DEF Focus, keys
  <2>4. CASE CalmDown
    BY <2>4, CalmStep
  <2>5. CASE HookRemoved \/ EntriesExpire \/ RequestShutdown
    BY <2>5, QuietStep DEF HookRemoved, EntriesExpire, RequestShutdown, keys
  <2>. QED BY <1>1, <2>1, <2>2, <2>3, <2>4, <2>5 DEF Environment
<1>2. CASE Deliver
  BY <1>2, DeliverStep
<1>3. CASE Startup \/ SelfTest \/ NoTest
  BY <1>3, QuietStep
     DEF Startup, OpenRawInput, InstallHook, StartWorker, SelfTest, TestNotSent,
         TestPassed, Reinstall, ReinstallFails, NoTest, keys
<1>4. CASE Drain
  BY <1>4, DrainStep
<1>5. CASE DispatchRaw \/ Leave
  BY <1>5, QuietStep DEF DispatchRaw, Leave, Takes
<1>6. CASE Worker
  BY <1>6, QuietStep DEF Worker, WorkerSkips, WorkerBuffers, WorkerMaps, WorkerTakes, keys
<1>7. CASE UNCHANGED windowsVars
  BY <1>7, QuietStep DEF windowsVars
<1>. QED BY <1>1, <1>2, <1>3, <1>4, <1>5, <1>6, <1>7 DEF WindowsNext, Loop

LEMMA HookStart == WindowsInit => HookInv
<1>. SUFFICES ASSUME WindowsInit PROVE HookInv
  OBVIOUS
<1>1. EngineInv(hookEngine) /\ hookEngine.pressed = {}
  BY FreshEngineInv DEF WindowsInit, FreshEngine
<1>. QED BY <1>1 DEF WindowsInit, HookInv, HookTypes, HookAnswers

LEMMA HookAtRest == HookInv => NothingStuck
<1>. SUFFICES ASSUME HookInv, down = {}, input = << >>, ~upset
             PROVE  os \subseteq restored
  BY DEF NothingStuck
<1>1. DOMAIN input = {}
  OBVIOUS
<1>2. Known = {}
  BY <1>1 DEF Known
<1>3. /\ hookEngine.pressed = {} /\ EngineInv(hookEngine)
      /\ os \ restored \subseteq Accounted(hookEngine, {})
  BY <1>2 DEF HookInv, HookTypes, HookAnswers
<1>4. PassedKeys(hookEngine) = {}
  BY <1>3 DEF PassedKeys
<1>5. HeldBits(hookEngine) = {}
  <2>1. \A k \in Keys : hookEngine.held[k] = {}
    BY <1>3 DEF EngineInv, KeyMarksJustified
  <2>. QED BY <2>1 DEF HeldBits
<1>. QED BY <1>3, <1>4, <1>5 DEF Accounted

(* When every key is up, the input system sees no key down but a modifier  *)
(* that went down again after a rule of another keyboard had consumed it,  *)
(* on any keyboards and under any rules, as long as the hook missed no     *)
(* event and no elevated window kept it from swallowing or making one      *)
(* (low_level_keyboard_proc and WindowsEmitter).                           *)
THEOREM NothingStaysStuck == WindowsSpec => []NothingStuck
<1>. QED BY HookStart, HookStep, HookAtRest, PTL DEF WindowsSpec

=============================================================================
