----------------------------- MODULE RuleLookup -----------------------------
(***************************************************************************)
(* From a configuration to the answer of a lookup: the compilation of rule *)
(* groups into flat rule lists (keymap_core/mapping_cache.rs), the scan of *)
(* those lists (lookup.rs) and the keyboard filters (daemon/state.rs,      *)
(* common/keyboard.rs), with the registry of keyboards the filters read.   *)
(*                                                                         *)
(* A document changes by an editor or by `config add`, and the daemon reads *)
(* it at once: ConfigReload models the time between.                       *)
(***************************************************************************)
EXTENDS ConfigFormat

CONSTANTS
  Apps,       \* application names
  LowerCase,  \* [Apps -> Apps], to_lowercase
  Boards,     \* keyboards that can be plugged in, as [Fields -> value]
  Nodes,      \* device nodes
  Nobody,     \* no keyboard at a node
  NoNode,     \* the platform cannot identify the source keyboard
  Documents,  \* the documents an editor writes
  Requests,   \* the arguments config add is called with
  NoMatch

Bits == 0 .. 7

ASSUME LookupAssumption ==
  /\ LowerCase \in [Apps -> Apps]
  /\ Nobody \notin Boards
  /\ NoNode \notin Nodes
  /\ \A d \in Documents : d.keyboards # {} => "keyboards" \in d.keys

-----------------------------------------------------------------------------
(* Compilation *)

\* The bits a modifier token stands for: a left-side usage comes from an
\* alias and means either side; a token that is no modifier sets bit 0.
BitChoices(u) ==
  LET bit == ModifierBit(u)
  IN IF bit = NoBit THEN {0} ELSE IF bit <= 3 THEN {bit, bit + 4} ELSE {bit}

\* expand_modifier_bits, token by token.
ExpandModifierBits(tokens) ==
  FoldLeft(LAMBDA masks, u : {m \cup {b} : m \in masks, b \in BitChoices(u)},
           {{}}, tokens)

\* compile_modifier_bits: a token that is no modifier is dropped.
CompileModifierBits(tokens) == {ModifierBit(u) : u \in Range(tokens)} \ {NoBit}

CompileOutputs(events) ==
  [i \in DOMAIN events |-> [modifiers |-> CompileModifierBits(events[i].modifiers),
                            usage |-> events[i].base]]

\* The rules one mapping compiles to, one for each mask.
CompileMapping(mapping, keyboards) ==
  LET masks == SetToSeq(ExpandModifierBits(mapping.trigger.modifiers))
  IN [i \in DOMAIN masks |->
        [usage |-> mapping.trigger.base, modifiers |-> masks[i],
         outputs |-> CompileOutputs(mapping.outputs), keyboards |-> keyboards]]

CompileGroup(group) ==
  FlattenSeq([i \in DOMAIN group.mappings |->
                CompileMapping(group.mappings[i], group.keyboards)])

RulesOf(groups) == FlattenSeq([i \in DOMAIN groups |-> CompileGroup(groups[i])])

Folded(names) == {LowerCase[n] : n \in names}

\* compile_from_config: an empty filter means no filter throughout.
CompileFromConfig(c) ==
  [ processRules |->
      [app \in UNION {Folded(c.groups[i].apps) : i \in DOMAIN c.groups} |->
         RulesOf(SelectSeq(c.groups, LAMBDA g : app \in Folded(g.apps)))],
    globalRules |-> RulesOf(SelectSeq(c.groups, LAMBDA g : g.apps = {})),
    globalKeyboards |-> c.keyboards ]

-----------------------------------------------------------------------------
(* Lookup *)

VARIABLES
  document,  \* what the configuration file says
  config,    \* the configuration in force
  cache,     \* lookup_cache
  present,   \* [Nodes -> Boards \cup {Nobody}], what is plugged in
  registry,  \* [Nodes -> Boards \cup {Nobody}], keyboard_registry
  filter,    \* the global filter at startup
  managed    \* nodes the daemon has grabbed

vars == <<document, config, cache, present, registry, filter, managed>>

\* check_global_keyboard_filter, check_rule_keyboard_filter
PassesFilter(specs, node) ==
  \/ specs = {}
  \/ node = NoNode
  \/ node # NoNode /\ (registry[node] = Nobody \/ MatchesAny(specs, registry[node]))

\* Mutant: the last match wins.
FindMatchLast(rules, usage, mask, node) ==
  LET hits == {i \in DOMAIN rules :
                 /\ rules[i].usage = usage
                 /\ rules[i].modifiers = mask
                 /\ PassesFilter(rules[i].keyboards, node)}
  IN IF hits = {} THEN NoMatch ELSE rules[Max(hits)].outputs

FindMatch(rules, usage, mask, node) ==
  LET hits == {i \in DOMAIN rules :
                 /\ rules[i].usage = usage
                 /\ rules[i].modifiers = mask
                 /\ PassesFilter(rules[i].keyboards, node)}
  IN IF hits = {} THEN NoMatch ELSE rules[Min(hits)].outputs

ForApp(app, usage, mask, node) ==
  IF /\ PassesFilter(cache.globalKeyboards, node)
     /\ LowerCase[app] \in DOMAIN cache.processRules
  THEN FindMatch(cache.processRules[LowerCase[app]], usage, mask, node)
  ELSE NoMatch

Global(usage, mask, node) ==
  IF PassesFilter(cache.globalKeyboards, node)
  THEN FindMatch(cache.globalRules, usage, mask, node)
  ELSE NoMatch

\* decide_down: application-scoped rules take precedence.
Answer(app, usage, mask, node) ==
  LET scoped == ForApp(app, usage, mask, node)
  IN IF scoped # NoMatch THEN scoped ELSE Global(usage, mask, node)

-----------------------------------------------------------------------------

Grabbed(plugged, specs) ==
  {n \in Nodes : plugged[n] # Nobody /\ (specs = {} \/ MatchesAny(specs, plugged[n]))}

\* main: compile, enumerate, grab what the global filter admits.
Init ==
  /\ document \in {d \in Documents : ParseDocument(d) # Invalid}
  /\ config = ParseDocument(document)
  /\ cache = CompileFromConfig(config)
  /\ present \in [Nodes -> Boards \cup {Nobody}]
  /\ registry = present
  /\ filter = config.keyboards
  /\ managed = Grabbed(present, filter)

\* reload_from_str: what cannot be read changes nothing; the registry and the
\* startup filter stay as they are.
Reload(d) ==
  /\ LET read == ParseDocument(d) IN
       /\ config' = IF read = Invalid THEN config ELSE read
       /\ cache' = IF read = Invalid THEN cache ELSE CompileFromConfig(read)
  /\ UNCHANGED <<present, registry, filter, managed>>

\* Bound: only what an editor has written is replaced by what nobody can read.
Edit(d) ==
  /\ document \in Documents \/ ParseDocument(d) # Invalid
  /\ document' = d
  /\ Reload(d)

\* config add, which leaves the file alone when it fails.
Add(request) ==
  LET added == AddedTo(document, request) IN
    /\ added # document
    /\ document' = added
    /\ Reload(added)

\* handle_device_add: the startup filter decides; the registry is not told.
Plug(n, board) ==
  /\ present[n] = Nobody
  /\ present' = [present EXCEPT ![n] = board]
  /\ managed' = IF filter = {} \/ MatchesAny(filter, board) THEN managed \cup {n}
                ELSE managed
  /\ UNCHANGED <<document, config, cache, registry, filter>>

Unplug(n) ==
  /\ present[n] # Nobody
  /\ present' = [present EXCEPT ![n] = Nobody]
  /\ managed' = managed \ {n}
  /\ UNCHANGED <<document, config, cache, registry, filter>>

Next ==
  \/ \E d \in Documents : Edit(d)
  \/ \E request \in Requests : Add(request)
  \/ \E n \in Nodes :
       \/ \E board \in Boards : Plug(n, board)
       \/ Unplug(n)

Spec == Init /\ [][Next]_vars

-----------------------------------------------------------------------------
(* What a lookup promises, said of the document itself *)

\* The keys a token is held down with: a left-side name means either side
\* (mapping_cache.rs:27), and what is no modifier is held down with none.
StandsFor(u) == {b \in Bits : b = ModifierBit(u) \/ (b > 3 /\ b - 4 = ModifierBit(u))}

\* A trigger matches a mask when each of its tokens stands for one of the
\* bits down, and every bit down is stood for ("exact", lookup.rs:86).
Accepts(trigger, usage, mask) ==
  /\ trigger.base = usage
  /\ \E f \in [DOMAIN trigger.modifiers -> mask] :
       /\ {f[i] : i \in DOMAIN f} = mask
       /\ \A i \in DOMAIN f : f[i] \in StandsFor(trigger.modifiers[i])

\* The mappings of the document, by group and line.
Places(d) == {p \in (DOMAIN d.groups) \X (1 .. 9) : p[2] \in DOMAIN d.groups[p[1]].mappings}

TriggerAt(d, p) == ParseEvent(d.groups[p[1]].mappings[p[2]].trigger)

OutputsAt(d, p) == CompileOutputs(ParseOutputs(d.groups[p[1]].mappings[p[2]].outputs))

Earlier(p, q) == p[1] < q[1] \/ (p[1] = q[1] /\ p[2] < q[2])

FirstOf(places) == CHOOSE p \in places : \A q \in places \ {p} : Earlier(p, q)

\* The same trigger stands at the places in another spelling as well.
Respelled(d, p) ==
  \E n \in DOMAIN d.groups[p[1]].mappings \ {p[2]} : TriggerAt(d, <<p[1], n>>) = TriggerAt(d, p)

\* A token before the base key is no modifier.
Misnamed(trigger) == \E u \in Range(trigger.modifiers) : StandsFor(u) = {}

\* A filter admits the keyboard that sends the events, and one nobody knows
\* ("allow through to avoid silently dropping keys", state.rs:91).
Admitted(specs, node) ==
  \/ specs = {}
  \/ node = NoNode
  \/ node # NoNode /\ (registry[node] = Nobody \/ MatchesAny(specs, present[node]))

\* The triggers of a document, each with its place.
Triggers(d) == {[place |-> p, event |-> TriggerAt(d, p)] : p \in Places(d)}

\* The mappings that match: those of the groups for the application, else
\* those of the groups for all.
Matching(d, triggers, app, usage, mask, node) ==
  LET hits == {t.place : t \in {t \in triggers :
                 /\ Accepts(t.event, usage, mask)
                 /\ Admitted(d.groups[t.place[1]].keyboards, node)}}
      scoped == {p \in hits : LowerCase[app] \in Folded(d.groups[p[1]].apps)}
      global == {p \in hits : d.groups[p[1]].apps = {}}
  IN IF ~Admitted(d.keyboards, node) THEN {} ELSE IF scoped # {} THEN scoped ELSE global

\* The masks any trigger could name.
Masks == SUBSET {b \in Bits : \E u \in Usages : b \in BitChoices(u)}

-----------------------------------------------------------------------------
(* Properties *)

(* What is in force is compiled, and the keyboards that are grabbed are    *)
(* those the filter at startup admits: "keyboards that do not match are    *)
(* never grabbed" (README.md:217).                                         *)
TypeOK ==
  /\ cache = CompileFromConfig(config)
  /\ present \in [Nodes -> Boards \cup {Nobody}]
  /\ registry \in [Nodes -> Boards \cup {Nobody}]
  /\ managed = Grabbed(present, filter)

(* A readable document is answered as it reads: a chord gets the outputs   *)
(* of the first matching mapping ("the first matching trigger wins",       *)
(* README.md:199) of a group for the application, else of a group for all, *)
(* whose filters admit the keyboard; and none where none matches.  Three   *)
(* cases are excepted: a mapping whose trigger has a second spelling in    *)
(* its group, keys for which a trigger names what is no modifier, and a    *)
(* keyboard plugged in where another one was at startup.                   *)
AnswersAsConfigured ==
  ParseDocument(document) # Invalid =>
    LET triggers == Triggers(document)
        named == {u \in Usages : \A t \in triggers : t.event.base = u => ~Misnamed(t.event)}
    IN \A app \in Apps, usage \in named, mask \in Masks :
       \A node \in {n \in managed : registry[n] \in {Nobody, present[n]}} \cup {NoNode} :
         LET places == Matching(document, triggers, app, usage, mask, node)
             answer == Answer(app, usage, mask, node)
         IN IF places = {} THEN answer = NoMatch
            ELSE \/ Respelled(document, FirstOf(places))
                 \/ answer = OutputsAt(document, FirstOf(places))

(* An add that names neither applications nor keyboards changes the answer *)
(* to no chord but those of its own trigger: what is read back from the    *)
(* rewritten document is what was there before.                            *)
AddKeepsTheRest ==
  [][\A request \in Requests :
       {request.keyboards, request.global} = {{}} /\ request.apps = Absent /\ Add(request) =>
         \A app \in Apps, usage \in Usages, mask \in Masks, node \in managed \cup {NoNode} :
           \/ Answer(app, usage, mask, node)' = Answer(app, usage, mask, node)
           \/ Accepts(ParseEvent(request.trigger), usage, mask)]_vars

ComesBefore(d, p, q) ==
  LET ForAll(x) == d.groups[x[1]].apps = {}
  IN (~ForAll(p) /\ ForAll(q)) \/ (ForAll(p) = ForAll(q) /\ Earlier(p, q))

(* A mapping of a readable document that fires for no chord is one the     *)
(* check reports, because its trigger stands in another group as well.     *)
(* Two cases are excepted, which nothing reports: a mapping with another   *)
(* trigger that comes before it shares a chord, or a later line of its own *)
(* group spells its trigger once more (config.rs:230).                     *)
SilentMappingsReported ==
  ParseDocument(document) # Invalid =>
    \A p \in Places(document) :
      LET trigger == TriggerAt(document, p)
          group == document.groups[p[1]]
          apps == IF group.apps = {} THEN Apps ELSE group.apps
          Fires == \E app \in apps, mask \in ExpandModifierBits(trigger.modifiers) :
                     Answer(app, trigger.base, mask, NoNode) = OutputsAt(document, p)
          Shared == \E q \in Places(document) :
                      LET other == TriggerAt(document, q)
                      IN /\ other # trigger /\ ComesBefore(document, q, p)
                         /\ \E mask \in Masks : /\ Accepts(trigger, trigger.base, mask)
                                                 /\ Accepts(other, trigger.base, mask)
          Lost == \E n \in DOMAIN group.mappings :
                    n > p[2] /\ TriggerAt(document, <<p[1], n>>) = trigger
      IN Fires \/ Shared \/ Lost
         \/ [finding |-> "duplicate", trigger |-> trigger] \in Check(config)

=============================================================================
