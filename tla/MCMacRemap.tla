----------------------------- MODULE MCMacRemap -----------------------------
(***************************************************************************)
(* Shift, CapsLock and a letter, a volume key as an output, and rules two of  *)
(* which are a cycle: the echo of each one's output is the other's trigger. *)
(***************************************************************************)
EXTENDS MacRemap, TLC

CONSTANTS shift, caps, a, volume, nousage, nobit

MCKeys == {shift, caps, a}
MCConsumerUsages == {volume}
MCUsages == MCKeys \cup MCConsumerUsages
MCModifiers == {"shift"}
MCDevices == {NoDevice}
MCUsageOf == [k \in MCKeys |-> k]
MCBitOf == [u \in MCUsages \cup {nousage} |-> IF u = shift THEN "shift" ELSE nobit]
MCFlagOf == [k \in MCKeys |-> IF k = shift THEN "shift" ELSE NoFlag]
MCModifierOrder == <<"shift">>
MCModifierUsage == [m \in MCModifiers |-> shift]

Out(mods, usage) == [usage |-> usage, modifiers |-> mods]

\* A types Shift+CapsLock, CapsLock types A.
Cyclic == (<<NoDevice, a, {}>> :> <<Out({"shift"}, caps)>>)
       @@ (<<NoDevice, caps, {}>> :> <<Out({}, a)>>)
       @@ (<<NoDevice, caps, {"shift"}>> :> <<Out({}, a)>>)

\* Shift+A turns the volume up and types A.
Shifted == (<<NoDevice, a, {"shift"}>> :> <<Out({}, volume), Out({}, a)>>)

MCRules == Cyclic @@ Shifted
=============================================================================
