---------------------------- MODULE MCRuleLookup ----------------------------
(***************************************************************************)
(* Two keyboards, one device node, two applications, and documents whose   *)
(* groups overlap in application, keyboard and chord, whose keys are       *)
(* spelled in several ways, or which cannot be read.                       *)
(***************************************************************************)
EXTENDS RuleLookup, TLC

CONSTANTS unset, absent, nobit

lctl == <<7, 224>>
rctl == <<7, 228>>
lsft == <<7, 225>>
a == <<7, 4>>
j == <<7, 13>>
mute == <<12, 226>>

MCUsages == {lctl, rctl, lsft, a, j, mute}
MCNamesOf == (lctl :> <<"LeftControl", "Ctrl", "LeftCtrl">>)
          @@ (rctl :> <<"RightControl", "RightCtrl">>)
          @@ (lsft :> <<"LeftShift", "Shift">>)
          @@ (a :> <<"A">>) @@ (j :> <<"J">>) @@ (mute :> <<"Mute", "VolMute">>)

MCFields == {"name", "vendor"}
MCApps == {"Editor", "editor", "shell"}
MCLowerCase == [x \in MCApps |-> IF x = "Editor" THEN "editor" ELSE x]

Board(name, vendor) == ("name" :> name) @@ ("vendor" :> vendor)
kbd == Board("kbd", "acme")
pad == Board("pad", unset)
MCBoards == {kbd, pad}

To(trigger, output) == [trigger |-> trigger, outputs |-> <<output>>]
Group(name, apps, keyboards, mappings) ==
  [name |-> name, apps |-> apps, keyboards |-> keyboards, mappings |-> mappings]
Groups(groups) == [keys |-> {"groups"}, keyboards |-> {}, groups |-> groups]
Filtered(keyboards, groups) ==
  [keys |-> {"groups", "keyboards"}, keyboards |-> keyboards, groups |-> groups]

\* Either side and one side of a modifier, repeated and mixed.
Chords == Groups(
  << Group("default", {}, {}, << To(<<"Ctrl", "J">>, <<"A">>), To(<<"RightCtrl", "J">>, <<"J">>),
                          To(<<"Ctrl", "RightCtrl", "J">>, <<"Shift", "A">>),
                          To(<<"RightCtrl", "Shift", "A">>, <<"Mute">>) >>),
     Group(absent, {}, {}, << To(<<"RightCtrl", "A">>, <<"J">>), To(<<"J">>, <<"Mute">>) >>) >>)

\* A key that is no modifier where a modifier belongs.
NoModifier == Groups(
  << Group("default", {}, {}, << To(<<"Mute", "J">>, <<"Mute", "A">>), To(<<"Ctrl", "A">>, <<"J">>),
                          To(<<"Ctrl", "J">>, <<"A">>) >>) >>)

\* Two spellings of one trigger in a group, with another in between.
Spelled == Groups(
  << Group("default", {}, {}, << To(<<"Ctrl", "J">>, <<"A">>), To(<<"RightControl", "J">>, <<"Mute">>),
                          To(<<"LeftCtrl", "J">>, <<"J">>) >>) >>)

\* A group for all before groups for applications.
ForApps == Groups(
  << Group("default", {}, {}, << To(<<"J">>, <<"A">>), To(<<"A">>, <<"J">>) >>),
     Group("apps", {"Editor", "shell"}, {}, << To(<<"A">>, <<"Mute">>) >>),
     Group(absent, {"editor"}, {}, << To(<<"J">>, <<"LeftShift", "J">>), To(<<"A">>, <<"A">>) >>) >>)

\* Groups for one keyboard each, and a rest group.
ByBoard == Groups(
  << Group(absent, {}, {Board("kbd", unset)}, << To(<<"J">>, <<"A">>) >>),
     Group("apps", {"editor"}, {Board("pad", "acme")}, << To(<<"Shift", "J">>, <<"Mute">>) >>),
     Group("default", {}, {}, << To(<<"J">>, <<"J">>) >>) >>)

OnlyAcme == Filtered({Board(unset, "acme")},
  << Group(absent, {}, {}, << To(<<"Shift", "J">>, <<"A">>) >>) >>)

Unreadable == Groups(<< Group("default", {}, {}, << To(<<"Control", "J">>, <<"A">>) >>) >>)
TooLong == Groups(<< Group("default", {}, {},
  << To(<<"Ctrl", "Ctrl", "Ctrl", "Ctrl", "Ctrl", "Ctrl", "Ctrl", "Ctrl", "Ctrl", "J">>, <<"A">>) >>) >>)
OtherKey == [keys |-> {"groups", "rules"}, keyboards |-> {}, groups |-> << >>]

MCDocuments == {Chords, NoModifier, Spelled, ForApps, ByBoard, OnlyAcme, Unreadable, TooLong, OtherKey}

Request(trigger, output, group, apps, keyboards, global) ==
  [trigger |-> trigger, output |-> output, group |-> group,
   apps |-> apps, keyboards |-> keyboards, global |-> global]
Part(key, value) == [key |-> key, value |-> value]

MCRequests ==
  { Request(<<"Ctrl", "J">>, <<"Mute">>, "default", absent, {}, {}),
    Request(<<"J">>, <<"A">>, "apps", {"shell"}, {<<Part("name", "pad")>>}, {}),
    Request(<<"A">>, <<"Ctrl", "A">>, "default", absent, {},
            {<<Part("vendor", "x"), Part("name", "kbd"), Part("vendor", "acme")>>}),
    Request(<<"J">>, <<"A">>, "default", absent, {<<Part("serial", "1")>>}, {}) }
=============================================================================
