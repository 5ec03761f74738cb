---------------------------- MODULE ConfigFormat ----------------------------
(***************************************************************************)
(* The configuration document: what the daemon and the command line tools  *)
(* read from it (common/config.rs), how a key is named                     *)
(* (common/hid_usage.rs, common/modifier.rs), what a keyboard specifier    *)
(* means (common/keyboard.rs), what `config check` reports, and what       *)
(* `config add` changes and writes back (cli/config_cmd.rs).               *)
(*                                                                         *)
(* A document is the tree its YAML stands for.  A key event is the         *)
(* sequence of its tokens, an output value the sequence of its events (one *)
(* event or a list read alike).  Lists whose order nothing depends on, of  *)
(* applications and of keyboards, are sets.                                *)
(***************************************************************************)
EXTENDS Naturals, Sequences, SequencesExt, FiniteSetsExt

CONSTANTS
  Usages,     \* the keys, as <<page, id>> of their HID usage
  NamesOf,    \* [Usages -> Seq(name)], the canonical name first, then aliases
  NoBit,
  Fields,     \* name, vendor, model, port
  Unset,      \* a field that is not given or not known
  Absent,     \* an argument or a name that is not given
  Invalid     \* what cannot be read

ASSUME FormatAssumption ==
  /\ \A u \in Usages : Len(NamesOf[u]) > 0
  /\ \A u, v \in Usages : u # v => Range(NamesOf[u]) \cap Range(NamesOf[v]) = {}
  /\ NoBit \notin 0 .. 7

-----------------------------------------------------------------------------
(* Keys *)

CanonicalName(u) == NamesOf[u][1]

Known(token) == \E u \in Usages : token \in Range(NamesOf[u])

UsageNamed(token) == CHOOSE u \in Usages : token \in Range(NamesOf[u])

KeyboardPage == 7

\* hid_usage_to_modifier_bit: 0 to 3 on the left, 4 to 7 on the right.
ModifierBit(u) ==
  IF u[1] = KeyboardPage /\ u[2] \in 224 .. 231 THEN u[2] - 224 ELSE NoBit

\* KeyEvent::parse: at most eight modifiers, the last token is the base key.
ParseEvent(tokens) ==
  IF Len(tokens) \in 1 .. 9 /\ \A i \in DOMAIN tokens : Known(tokens[i])
  THEN [modifiers |-> [i \in 1 .. Len(tokens) - 1 |-> UsageNamed(tokens[i])],
        base |-> UsageNamed(tokens[Len(tokens)])]
  ELSE Invalid

\* Display for KeyEvent
EventText(event) ==
  [i \in 1 .. Len(event.modifiers) + 1 |->
     CanonicalName(Append(event.modifiers, event.base)[i])]

-----------------------------------------------------------------------------
(* Tables of mappings *)

\* IndexMap::insert: a trigger keeps its first place and takes its last outputs.
Inserted(table, trigger, outputs) ==
  IF \E i \in DOMAIN table : table[i].trigger = trigger
  THEN [i \in DOMAIN table |->
          IF table[i].trigger = trigger THEN [table[i] EXCEPT !.outputs = outputs]
          ELSE table[i]]
  ELSE Append(table, [trigger |-> trigger, outputs |-> outputs])

\* OutputEvents
ParseOutputs(value) ==
  LET events == [i \in DOMAIN value |-> ParseEvent(value[i])]
  IN IF Invalid \in Range(events) THEN Invalid ELSE events

\* MappingTableVisitor::visit_map
ParseMappings(entries) ==
  IF \E i \in DOMAIN entries : Invalid \in {ParseEvent(entries[i].trigger),
                                           ParseOutputs(entries[i].outputs)}
  THEN Invalid
  ELSE FoldLeft(LAMBDA table, e : Inserted(table, ParseEvent(e.trigger),
                                           ParseOutputs(e.outputs)),
                << >>, entries)

MappingsText(table) ==
  [i \in DOMAIN table |->
     [trigger |-> EventText(table[i].trigger),
      outputs |-> [n \in DOMAIN table[i].outputs |-> EventText(table[i].outputs[n])]]]

-----------------------------------------------------------------------------
(* Documents *)

\* A bare sequence of groups is a document whose only key is "groups".
ParseDocument(document) ==
  LET tables == [i \in DOMAIN document.groups |-> ParseMappings(document.groups[i].mappings)]
  IN IF ~(document.keys \subseteq {"groups", "keyboards"}) \/ Invalid \in Range(tables)
     THEN Invalid
     ELSE [keyboards |-> document.keyboards,
           groups |-> [i \in DOMAIN tables |->
                         [document.groups[i] EXCEPT !.mappings = tables[i]]]]

\* Mutant: the keyboards of the document are not written.
DocumentTextWithoutKeyboards(config) ==
  [keys |-> {"groups"}, keyboards |-> {},
   groups |-> [i \in DOMAIN config.groups |->
                 [config.groups[i] EXCEPT !.mappings = MappingsText(@)]]]

\* Serialize for AppConfig
DocumentText(config) ==
  [keys |-> {"groups"} \cup (IF config.keyboards = {} THEN {} ELSE {"keyboards"}),
   keyboards |-> config.keyboards,
   groups |-> [i \in DOMAIN config.groups |->
                 [config.groups[i] EXCEPT !.mappings = MappingsText(@)]]]

-----------------------------------------------------------------------------
(* Keyboards *)

NoFields == [f \in Fields |-> Unset]

\* KeyboardSpecifier::matches
Matches(spec, board) ==
  \A f \in Fields : spec[f] # Unset => board[f] # Unset /\ spec[f] = board[f]

MatchesAny(specs, board) == \E spec \in specs : Matches(spec, board)

\* parse_keyboard_spec, of the parts between commas: the last value of a
\* field counts.
ParseKeyboardSpec(parts) ==
  IF parts = << >> \/ \E i \in DOMAIN parts : parts[i].key \notin Fields THEN Invalid
  ELSE [f \in Fields |->
          LET given == {i \in DOMAIN parts : parts[i].key = f}
          IN IF given = {} THEN Unset ELSE parts[Max(given)].value]

\* parse_keyboard_specs
ParseKeyboardSpecs(args) ==
  LET specs == {ParseKeyboardSpec(parts) : parts \in args}
  IN IF args = {} THEN Absent ELSE IF Invalid \in specs THEN Invalid ELSE specs

-----------------------------------------------------------------------------
(* AppConfig::check *)

NoRuleGroups(c) == IF c.groups = << >> THEN {[finding |-> "no rule groups"]} ELSE {}

EmptySpecifiers(c) ==
  (IF NoFields \in c.keyboards THEN {[finding |-> "empty global specifier"]} ELSE {})
  \cup {[finding |-> "empty specifier", group |-> i] :
          i \in {n \in DOMAIN c.groups : NoFields \in c.groups[n].keyboards}}

EmptyGroups(c) ==
  {[finding |-> "empty group", group |-> i] :
     i \in {n \in DOMAIN c.groups : c.groups[n].mappings = << >>}}

TriggersOf(group) == {group.mappings[i].trigger : i \in DOMAIN group.mappings}

NoOpMappings(c) ==
  UNION {{[finding |-> "no-op", group |-> i, trigger |-> t] :
            t \in {m.trigger : m \in {x \in Range(c.groups[i].mappings) :
                                        x.outputs = <<x.trigger>>}}} :
         i \in DOMAIN c.groups}

\* Mutant: only neighbouring groups are compared.
DuplicateTriggersNext(c) ==
  UNION {{[finding |-> "duplicate", trigger |-> t] :
            t \in TriggersOf(c.groups[i]) \cap TriggersOf(c.groups[i + 1])} :
         i \in {n \in DOMAIN c.groups : n + 1 \in DOMAIN c.groups}}

DuplicateTriggers(c) ==
  UNION {{[finding |-> "duplicate", trigger |-> t] :
            t \in TriggersOf(c.groups[p[1]]) \cap TriggersOf(c.groups[p[2]])} :
         p \in {q \in (DOMAIN c.groups) \X (DOMAIN c.groups) : q[1] < q[2]}}

\* Two single-output mappings of one group that map to each other.
CircularPairs(c) ==
  UNION {LET table == Range(c.groups[i].mappings)
         IN {[finding |-> "swap", pair |-> {m.trigger, m.outputs[1]}] :
               m \in {x \in table :
                        /\ Len(x.outputs) = 1
                        /\ x.outputs[1] # x.trigger
                        /\ \E y \in table : /\ y.trigger = x.outputs[1]
                                            /\ y.outputs = <<x.trigger>>}} :
         i \in DOMAIN c.groups}

Check(c) == NoRuleGroups(c) \cup EmptySpecifiers(c) \cup EmptyGroups(c)
            \cup NoOpMappings(c) \cup DuplicateTriggers(c) \cup CircularPairs(c)

-----------------------------------------------------------------------------
(* config add *)

NewGroup(request, keyboards) ==
  [name |-> request.group,
   apps |-> IF request.apps = Absent THEN {} ELSE request.apps,
   keyboards |-> IF keyboards = Absent THEN {} ELSE keyboards,
   mappings |-> << >>]

\* The group an add goes to: the first of that name.
TargetOf(groups, name) ==
  Min({i \in DOMAIN groups : groups[i].name = name} \cup {Len(groups) + 1})

\* A group without applications or keyboards takes those that are given.
Scoped(group, request, keyboards) ==
  [group EXCEPT
     !.apps = IF request.apps # Absent /\ @ = {} THEN request.apps ELSE @,
     !.keyboards = IF keyboards # Absent /\ @ = {} THEN keyboards ELSE @]

\* apply_add
ApplyAdd(config, request, trigger, output, keyboards, global) ==
  LET at == TargetOf(config.groups, request.group)
      groups == IF at > Len(config.groups)
                THEN Append(config.groups, NewGroup(request, keyboards))
                ELSE config.groups
      group == Scoped(groups[at], request, keyboards)
  IN [keyboards |-> IF global = Absent THEN config.keyboards ELSE global,
      groups |-> [groups EXCEPT ![at] =
                    [group EXCEPT !.mappings = Inserted(@, trigger, <<output>>)]]]

\* add, from the arguments and the document to the document written back;
\* nothing is written when any of them cannot be read.
AddedTo(document, request) ==
  LET trigger == ParseEvent(request.trigger)
      output == ParseEvent(request.output)
      keyboards == ParseKeyboardSpecs(request.keyboards)
      global == ParseKeyboardSpecs(request.global)
      config == ParseDocument(document)
  IN IF \/ trigger = Invalid \/ output = Invalid
        \/ keyboards = Invalid \/ global = Invalid \/ config = Invalid
     THEN document
     ELSE DocumentText(ApplyAdd(config, request, trigger, output, keyboards, global))

=============================================================================
