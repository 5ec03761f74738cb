--------------------------- MODULE MCWindowsRemap ---------------------------
(***************************************************************************)
(* Two keyboards that both have the letter A; the first also has a Control *)
(* key, the second a volume wheel.  The windows of an ordinary process and *)
(* of one that is elevated.                                                *)
(***************************************************************************)
EXTENDS WindowsRemap

CONSTANTS lctl, a, vol, nousage, nobit, kbd, pad, nodev, editor, admin

MCKeys == {lctl, a}
MCUsages == MCKeys \cup {vol}
MCModifiers == {"ctl"}
MCUsageOf == [k \in MCKeys |-> k]
MCBitOf == [u \in MCUsages \cup {nousage} |-> IF u = lctl THEN "ctl" ELSE nobit]
MCDevices == {kbd, pad, nodev}
MCKeysOn == [b \in {kbd, pad} |-> IF b = kbd THEN {lctl, a} ELSE {a}]

Out(mods, usage) == [usage |-> usage, modifiers |-> mods]

\* A holds Control; Control+A of the second keyboard, and of any when the
\* keyboard is not known, types A; the wheel types Control+A.
MCRules ==
  [t \in {<<d, u, {}>> : d \in MCDevices, u \in {a, vol}}
           \cup {<<d, a, {"ctl"}>> : d \in {pad, nodev}} |->
     IF t[2] = vol THEN <<Out({"ctl"}, a)>>
     ELSE IF t[3] = {} THEN <<Out({}, lctl)>>
     ELSE <<Out({}, a)>>]
=============================================================================
