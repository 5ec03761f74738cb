----------------------------- MODULE KeyReports -----------------------------
(***************************************************************************)
(* How one output becomes reports of the macOS virtual keyboard            *)
(* (platform/macos/emit.rs): a report is the set of keys that are down, and *)
(* consecutive reports differ by one key.                                  *)
(***************************************************************************)
EXTENDS Integers, SequencesExt

CONSTANTS
  ConsumerUsages, \* outputs of the consumer page
  ModifierOrder,  \* the modifier bits in ascending order
  ModifierUsage   \* [bits -> usages]

ASSUME KeyReportsAssumption ==
  /\ ModifierOrder \in Seq(DOMAIN ModifierUsage)
  /\ \A i, j \in DOMAIN ModifierOrder : ModifierOrder[i] = ModifierOrder[j] => i = j

\* The bits of a mask, the n-th the one with n - 1 of them before it.
InOrder(mask) ==
  LET set == {i \in DOMAIN ModifierOrder : ModifierOrder[i] \in mask}
      nth(n) == CHOOSE i \in set : Cardinality({j \in set : j <= i}) = n
  IN [n \in 1 .. Cardinality(set) |-> ModifierOrder[nth(n)]]

\* The keys down after each report of keyboard_report_sequence.
KeyboardReports(nk) ==
  LET mods == InOrder(nk.modifiers)
      first(n) == {ModifierUsage[mods[j]] : j \in 1 .. n}
      n == Len(mods)
  IN [i \in 1 .. n |-> first(i)]
       \o <<first(n) \cup {nk.usage}, first(n)>>
       \o [i \in 1 .. n |-> first(n - i)]

\* emit_native_key: a consumer key is a press and an all-clear.
ReportsOf(nk) ==
  IF nk.usage \in ConsumerUsages THEN <<{nk.usage}, {}>> ELSE KeyboardReports(nk)
=============================================================================
