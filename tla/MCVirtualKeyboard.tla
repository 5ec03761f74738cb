------------------------- MODULE MCVirtualKeyboard -------------------------
(***************************************************************************)
(* Two users; a frame types Shift+A and turns the volume up.  The socket of *)
(* the Karabiner daemon lies below root's directories or below one anybody *)
(* may write to, and root or somebody else serves it.                      *)
(***************************************************************************)
EXTENDS VirtualKeyboard

CONSTANTS shift, a, volume

MCConsumerUsages == {volume}
MCModifierOrder == <<"shift">>
MCModifierUsage == [m \in {"shift"} |-> shift]
MCFrames ==
  {<<[usage |-> a, modifiers |-> {"shift"}], [usage |-> volume, modifiers |-> {}]>>}

Dir(known, writable, sticky) ==
  [known |-> known, isDir |-> TRUE, writable |-> writable, sticky |-> sticky, ofRoot |-> TRUE]

MCPaths ==
  {{Dir(TRUE, FALSE, FALSE), Dir(TRUE, TRUE, TRUE), Dir(FALSE, TRUE, FALSE)},
   {Dir(TRUE, FALSE, FALSE), Dir(TRUE, TRUE, FALSE)}}

MCServers == [known : {TRUE}, rootUser : BOOLEAN, rootGroup : {TRUE}]

Says(type, long, pairs) == [type |-> type, long |-> long, pairs |-> pairs]
Pair(type, value) == [type |-> type, value |-> value]

MCMessages ==
  {Says("heartbeat", FALSE, << >>),
   Says("request", FALSE, << >>),
   Says("request", TRUE, <<Pair("driver activated", 1), Pair("keyboard ready", 1)>>),
   Says("response", TRUE, <<Pair("keyboard ready", 1), Pair("keyboard ready", 0)>>)}
=============================================================================
