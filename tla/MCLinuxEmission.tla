-------------------------- MODULE MCLinuxEmission --------------------------
(***************************************************************************)
(* Two modifier keys, a letter and a usage no key of the device has.       *)
(***************************************************************************)
EXTENDS LinuxEmission

CONSTANTS lctl, lsft, j, power, nousage, nobit

MCKeys == {lctl, lsft, j}
MCUsages == {lctl, lsft, j, power}
MCModifiers == {"ctl", "sft"}
MCUsageOf == [k \in MCKeys |-> k]
MCBitOf == [u \in MCUsages \cup {nousage} |->
              IF u = lctl THEN "ctl" ELSE IF u = lsft THEN "sft" ELSE nobit]

Outs == [usage : MCUsages, modifiers : SUBSET MCModifiers]

MCActions ==
  {Forward(c, v) : c \in MCKeys, v \in {0, 1, 2}}
    \cup {ForwardHeld(S) : S \in SUBSET {lctl, lsft}}
    \cup {ReleaseConsumed(m) : m \in SUBSET MCModifiers}
    \cup {Hold(nk) : nk \in {o \in Outs : OutputHeldMask(o) # {}}}
    \cup {Tap(nk, {}) : nk \in {o \in Outs : OutputHeldMask(o) = {}}}
=============================================================================
