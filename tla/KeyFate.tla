------------------------------ MODULE KeyFate ------------------------------
(***************************************************************************)
(* What the mapping engine promises about key-ups, without its masks:  a   *)
(* key's release is treated as its press was, whatever the rules, the      *)
(* focused application or the emitter's reachability are by then.          *)
(*                                                                         *)
(* A press is passed on or captured by a rule; a key that was down before  *)
(* the stream started is passed when the output replays its press (a       *)
(* modifier) and preheld when it does not.  A passed key may be consumed   *)
(* by a later capture, and only then may its release be answered           *)
(* "ConsumedRelease".                                                      *)
(***************************************************************************)
CONSTANTS
  Keys,
  NoKey     \* no event has been answered yet

VARIABLES
  fate,     \* what the current press of each key was decided
  consumed, \* passed keys that a capture has consumed since their press
  answer    \* the last event and its answer

vars == <<fate, consumed, answer>>

Fates == {"up", "passed", "captured", "preheld"}
Kinds == {"Pass", "Emit", "Swallow", "ConsumedRelease"}

Answer(event, k, kind) == [event |-> event, key |-> k, kind |-> kind]

Silent == Answer("none", NoKey, "Pass")

Passed == {k \in Keys : fate[k] = "passed"}

Init ==
  /\ fate = [k \in Keys |-> "up"]
  /\ consumed = {}
  /\ answer = Silent

\* Keys found down, or found released again, before the stream starts.
Preset ==
  /\ fate' \in [Keys -> {"up", "passed", "preheld"}]
  /\ consumed' = {}
  /\ \A k \in Keys : fate[k] # "captured"
  /\ answer = Silent
  /\ UNCHANGED answer

PressPassed(k) ==
  /\ fate[k] = "up"
  /\ fate' = [fate EXCEPT ![k] = "passed"]
  /\ consumed' \subseteq consumed
  /\ answer' = Answer("down", k, "Pass")

PressCaptured(k) ==
  /\ fate[k] = "up"
  /\ fate' = [fate EXCEPT ![k] = "captured"]
  /\ consumed \subseteq consumed'
  /\ consumed' \subseteq consumed \cup Passed
  /\ answer' = Answer("down", k, "Emit")

Repeat(k) ==
  /\ fate[k] # "up"
  /\ answer' = Answer("down", k, IF fate[k] = "passed" THEN "Pass" ELSE "Swallow")
  /\ UNCHANGED <<fate, consumed>>

Release(k) ==
  /\ fate[k] # "up"
  /\ fate' = [fate EXCEPT ![k] = "up"]
  /\ consumed' \subseteq consumed \ {k}
  /\ answer' = Answer("up", k,
                 IF fate[k] = "captured" THEN "Swallow"
                 ELSE IF k \in consumed THEN "ConsumedRelease"
                 ELSE "Pass")

StrayRelease(k) ==
  /\ fate[k] = "up"
  /\ answer' = Answer("up", k, "Pass")
  /\ UNCHANGED <<fate, consumed>>

Next ==
  \/ Preset
  \/ \E k \in Keys :
       \/ PressPassed(k)
       \/ PressCaptured(k)
       \/ Repeat(k)
       \/ Release(k)
       \/ StrayRelease(k)

Spec == Init /\ [][Next]_vars

TypeOK ==
  /\ fate \in [Keys -> Fates]
  /\ consumed \subseteq Keys
  /\ answer \in [event : {"none", "down", "up"}, key : Keys \cup {NoKey}, kind : Kinds]

(* A consumed key is one that is down and was passed on. *)
ConsumedIsPassed == consumed \subseteq Passed

=============================================================================
