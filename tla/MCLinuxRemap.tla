---------------------------- MODULE MCLinuxRemap ----------------------------
(***************************************************************************)
(* A keyboard with a Shift key and the letter J, and a key that has no     *)
(* HID identity, taken over while somebody types on it, and two rule sets  *)
(* that are reloaded in either order.                                      *)
(***************************************************************************)
EXTENDS LinuxTakeover, TLC

CONSTANTS lctl, lsft, caps, j, media, nousage, nobit, kbd

MCKeys == {lctl, lsft, caps, j, media}
MCUsages == MCKeys \ {media}
MCModifiers == {"ctl", "sft"}
MCUsageOf == [k \in MCKeys |-> IF k = media THEN nousage ELSE k]
MCBitOf == [u \in MCUsages \cup {nousage} |->
              IF u = lctl THEN "ctl" ELSE IF u = lsft THEN "sft" ELSE nobit]

MCKeyboards == {kbd}
MCKeysOn == kbd :> {lsft, j, media}

Out(mods, usage) == [usage |-> usage, modifiers |-> mods]

Rules(kb, outputOf) ==
  [t \in {<<kb, u, m>> : u \in MCUsages, m \in SUBSET MCModifiers} \cap
         {<<kb, um[1], um[2]>> : um \in DOMAIN outputOf} |-> outputOf[<<t[2], t[3]>>]]

\* Shift+J taps Control+CapsLock.
ShiftedTap == Rules(kbd, <<j, {"sft"}>> :> <<Out({"ctl"}, caps)>>)

\* Shift holds Control, Control+J taps CapsLock, J holds Control+Shift and
\* taps CapsLock.
ShiftIsControl ==
  Rules(kbd, (<<lsft, {}>> :> <<Out({}, lctl)>>)
          @@ (<<j, {"ctl"}>> :> <<Out({}, caps)>>)
          @@ (<<j, {}>> :> <<Out({"ctl"}, lsft), Out({}, caps)>>))

MCLookups == {ShiftedTap, ShiftIsControl}
=============================================================================
