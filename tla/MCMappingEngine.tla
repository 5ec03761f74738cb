-------------------------- MODULE MCMappingEngine --------------------------
(***************************************************************************)
(* A keyboard with a Control and a Shift key, CapsLock, the letter J and   *)
(* one key without HID identity.  The rules remap CapsLock to a held       *)
(* Control, chords to taps, Shift to a held Control, and a chord to a held *)
(* modifier, each in at least one of the snapshots a reload switches       *)
(* between.                                                                *)
(***************************************************************************)
EXTENDS MappingEngine

CONSTANTS lctl, lsft, caps, j, media, nousage, nobit, kbd

MCKeys == {lctl, lsft, caps, j, media}
MCUsages == {lctl, lsft, caps, j}
MCModifiers == {"ctl", "sft"}
MCUsageOf == [k \in MCKeys |-> IF k = media THEN nousage ELSE k]
MCBitOf == [u \in MCUsages \cup {nousage} |->
              IF u = lctl THEN "ctl" ELSE IF u = lsft THEN "sft" ELSE nobit]

Out(mods, usage) == [usage |-> usage, modifiers |-> mods]
On(usage, mods) == <<kbd, usage, mods>>

\* CapsLock: Ctrl, Ctrl+J: Caps, Shift+CapsLock: Ctrl+Shift.
HeldControl ==
  [t \in {On(caps, {}), On(j, {"ctl"}), On(caps, {"sft"})} |->
     IF t = On(caps, {}) THEN <<Out({}, lctl)>>
     ELSE IF t = On(j, {"ctl"}) THEN <<Out({}, caps)>>
     ELSE <<Out({"ctl"}, lsft)>>]

\* Shift: Ctrl, and CapsLock: Shift then a tap.
SwappedModifiers ==
  [t \in {On(lsft, {}), On(caps, {})} |->
     IF t = On(lsft, {}) THEN <<Out({}, lctl)>>
     ELSE <<Out({}, lsft), Out({"ctl"}, j)>>]

NoRules == [t \in {} |-> << >>]

MCLookups == {HeldControl, SwappedModifiers, NoRules}

MCDevices == {kbd}
MCBoth == BOOLEAN
MCReachable == {TRUE}
=============================================================================
