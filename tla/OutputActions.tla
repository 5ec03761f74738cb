--------------------------- MODULE OutputActions ---------------------------
(***************************************************************************)
(* The output actions of platform/backend.rs and their meaning on the      *)
(* Linux virtual keyboard: which codes an action leaves down and which it  *)
(* leaves up once it has been executed, and the plan of actions that       *)
(* carries out an engine's decision.                                       *)
(***************************************************************************)
EXTENDS KeyEngine, Naturals

\* The keycode table pairs evdev codes and HID usages one to one, and each
\* modifier role has one HID usage.
TablesArePaired ==
  /\ \A j, k \in Keys : UsageOf[j] = UsageOf[k] /\ UsageOf[j] # NoUsage => j = k
  /\ \A u, v \in Usages : BitOf[u] = BitOf[v] /\ BitOf[u] # NoBit => u = v

ModifierCodes(mask) == {c \in Keys : OwnBit(c) \cap mask # {}}

CodesOf(usage) == {c \in Keys : UsageOf[c] = usage}

Forward(c, value) == [kind |-> "Forward", code |-> c, value |-> value]
ForwardHeld(codes) == [kind |-> "ForwardHeld", codes |-> codes]
ReleaseConsumed(mask) == [kind |-> "ReleaseConsumed", mask |-> mask]
Hold(nk) == [kind |-> "Hold", key |-> nk]
\* The bits that may be down with the tap are kept for CleanTap only.
Tap(nk, allowed) == [kind |-> "Tap", key |-> nk, allowed |-> allowed]

IsModifier(c) == OwnBit(c) # {}

\* The codes an action leaves down, and the codes it leaves up.
Presses(a) ==
  CASE a.kind = "Forward" -> IF a.value = 1 THEN {a.code} ELSE {}
    [] a.kind = "ForwardHeld" -> a.codes
    [] a.kind = "Hold" -> ModifierCodes(OutputHeldMask(a.key))
    [] OTHER -> {}

\* A tap of a usage without a key code emits nothing at all.
Toggled(nk) ==
  IF CodesOf(nk.usage) = {} THEN {}
  ELSE CodesOf(nk.usage) \cup ModifierCodes(nk.modifiers)

\* Mutant: every repeat is emitted as a press and a release.
ReleasesOnRepeat(a) ==
  CASE a.kind = "Forward" -> IF a.value \in {0, 2} THEN {a.code} ELSE {}
    [] a.kind = "ReleaseConsumed" -> ModifierCodes(a.mask)
    [] a.kind = "Tap" -> Toggled(a.key)
    [] OTHER -> {}

\* The repeat of a modifier does nothing; that of another key is a tap.
Releases(a) ==
  CASE a.kind = "Forward" ->
         IF a.value = 0 \/ (a.value = 2 /\ ~IsModifier(a.code)) THEN {a.code} ELSE {}
    [] a.kind = "ReleaseConsumed" -> ModifierCodes(a.mask)
    [] a.kind = "Tap" -> Toggled(a.key)
    [] OTHER -> {}

ReleaseFirst(mask) == IF mask = {} THEN << >> ELSE <<ReleaseConsumed(mask)>>

\* emission_plan: what is queued for a decision on the event (c, value), when
\* the bits of others may be down on the output for reasons of their own.
Plan(d, c, value, others) ==
  CASE d.kind = "Pass" -> <<Forward(c, value)>>
    [] d.kind = "Emit" ->
         ReleaseFirst(d.release)
           \o [i \in DOMAIN d.outputs |->
                 IF OutputHeldMask(d.outputs[i]) = {}
                 THEN Tap(d.outputs[i], others \cup HeldMaskOf(d.outputs))
                 ELSE Hold(d.outputs[i])]
    [] d.kind = "Swallow" -> ReleaseFirst(d.release)
    [] d.kind = "ConsumedRelease" -> << >>

Action ==
  [kind : {"Forward"}, code : Keys, value : {0, 1, 2}]
    \cup [kind : {"ForwardHeld"}, codes : SUBSET Keys]
    \cup [kind : {"ReleaseConsumed"}, mask : Mask]
    \cup [kind : {"Hold"}, key : NativeKey]
    \cup [kind : {"Tap"}, key : NativeKey, allowed : Mask]

-----------------------------------------------------------------------------
(* What an engine answers for *)

\* The modifier bits an engine takes for down on the output.
EmittedBits(e) == e.forwarded \cup HeldBits(e)

\* The codes it will release: its passed keys, unless a trigger has consumed
\* them, its held outputs, and the keys without HID identity that are down.
Accounted(e, downKeys) ==
  {c \in Keys :
     \/ c \in PassedKeys(e) /\ OwnBit(c) \cap e.consumed = {}
     \/ OwnBit(c) \cap HeldBits(e) # {}
     \/ c \in downKeys /\ UsageOf[c] = NoUsage}

=============================================================================
