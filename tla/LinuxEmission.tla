---------------------------- MODULE LinuxEmission ----------------------------
(***************************************************************************)
(* The execution of output actions on the Linux virtual keyboard, one      *)
(* write after the other.  A write can fail; what the emission functions   *)
(* do then differs: a tap returns at once, a hold releases what it pressed *)
(* and the others log or ignore the error and go on.  No other thread      *)
(* writes to the virtual keyboard.                                         *)
(*                                                                         *)
(* The modifiers of one action are written in an arbitrary order here, in  *)
(* the order of their bits in the code: the codes are distinct and nothing *)
(* below depends on the order.                                             *)
(***************************************************************************)
EXTENDS OutputActions

CONSTANTS
  Actions,      \* the actions the event loop executes
  MaxFailures   \* bound: failed writes in one action

ASSUME EmissionAssumption ==
  /\ Actions \subseteq Action
  /\ \A a \in Actions : a.kind = "Hold" => BitOf[a.key.usage] # NoBit
  /\ MaxFailures \in Nat
  /\ TablesArePaired

NoAction == [kind |-> "none"]

VARIABLES
  out,        \* codes down on the virtual keyboard
  current,    \* the action in execution, or NoAction
  stage,      \* "pressing", "base up" (due), "releasing", "returned"
  toPress,    \* codes still to be pressed
  toRelease,  \* codes still to be released
  pressed,    \* the local vector of codes whose press succeeded
  before,     \* history: out when the action began
  failures    \* writes of this action that have failed

emissionVars == <<out, current, stage, toPress, toRelease, pressed, before, failures>>

EmissionInit ==
  /\ out = {}
  /\ current = NoAction
  /\ stage = "returned"
  /\ toPress = {}
  /\ toRelease = {}
  /\ pressed = {}
  /\ before = {}
  /\ failures = 0

-----------------------------------------------------------------------------
(* The writes an action consists of *)

\* The output's other modifiers and its base modifier.
HoldCodes(nk) ==
  LET baseBit == {BitOf[nk.usage]} \ {NoBit}
  IN ModifierCodes(nk.modifiers \ baseBit) \cup ModifierCodes(baseBit)

FirstPresses(a) ==
  CASE a.kind = "Forward" /\ a.value = 1 -> {a.code}
    [] a.kind = "ForwardHeld" -> a.codes
    [] a.kind = "Hold" -> HoldCodes(a.key)
    [] a.kind = "Tap" /\ CodesOf(a.key.usage) # {} -> ModifierCodes(a.key.modifiers)
    [] OTHER -> {}

\* Mutant: the repeat of a modifier is a press and a release as well.
FirstReleasesOnRepeat(a) ==
  CASE a.kind = "Forward" /\ a.value # 1 -> {a.code}
    [] a.kind = "ReleaseConsumed" -> ModifierCodes(a.mask)
    [] OTHER -> {}

\* The press and release of a repeat are one write: the press of a key that
\* is down is ignored, so its effect is the release.
FirstReleases(a) ==
  CASE a.kind = "Forward" /\ (a.value = 0 \/ (a.value = 2 /\ ~IsModifier(a.code))) ->
         {a.code}
    [] a.kind = "ReleaseConsumed" -> ModifierCodes(a.mask)
    [] OTHER -> {}

FirstStage(a) ==
  CASE a.kind = "Tap" /\ CodesOf(a.key.usage) = {} -> "returned"
    [] a.kind \in {"Forward", "ReleaseConsumed"} /\ FirstPresses(a) = {} -> "releasing"
    [] OTHER -> "pressing"

\* The next action of the queue is taken up.
Begin(a) ==
  /\ current = NoAction
  /\ current' = a
  /\ stage' = FirstStage(a)
  /\ toPress' = FirstPresses(a)
  /\ toRelease' = FirstReleases(a)
  /\ pressed' = {}
  /\ before' = out
  /\ failures' = 0
  /\ UNCHANGED out

-----------------------------------------------------------------------------
(* One write *)

WriteFails ==
  /\ failures < MaxFailures
  /\ failures' = failures + 1
  /\ UNCHANGED out

Press(c) ==
  /\ stage = "pressing"
  /\ c \in toPress
  /\ out' = out \cup {c}
  /\ toPress' = toPress \ {c}
  /\ pressed' = pressed \cup {c}
  /\ UNCHANGED <<current, stage, toRelease, before, failures>>

\* forward_key_event only logs.
ForwardedPressFails(c) ==
  /\ stage = "pressing"
  /\ current.kind \in {"Forward", "ForwardHeld"}
  /\ c \in toPress
  /\ WriteFails
  /\ toPress' = toPress \ {c}
  /\ UNCHANGED <<current, stage, toRelease, pressed, before>>

\* hold_modifier_output releases the codes it has pressed.
HoldPressFails(c) ==
  /\ stage = "pressing"
  /\ current.kind = "Hold"
  /\ c \in toPress
  /\ WriteFails
  /\ toPress' = {}
  /\ toRelease' = pressed
  /\ stage' = "releasing"
  /\ UNCHANGED <<current, pressed, before>>

\* emit_key_event leaves by "?", whatever it has pressed before.
TapPressFails(c) ==
  /\ stage = "pressing"
  /\ current.kind = "Tap"
  /\ c \in toPress
  /\ WriteFails
  /\ toPress' = {}
  /\ stage' = "returned"
  /\ UNCHANGED <<current, toRelease, pressed, before>>

\* Mutant: the base key does not wait for the modifiers.
BaseDownEarly ==
  /\ stage = "pressing"
  /\ current.kind = "Tap"
  /\ \E c \in CodesOf(current.key.usage) : out' = out \cup {c}
  /\ stage' = "base up"
  /\ UNCHANGED <<current, toPress, toRelease, pressed, before, failures>>

BaseDown ==
  /\ stage = "pressing"
  /\ current.kind = "Tap"
  /\ toPress = {}
  /\ \E c \in CodesOf(current.key.usage) : out' = out \cup {c}
  /\ stage' = "base up"
  /\ UNCHANGED <<current, toPress, toRelease, pressed, before, failures>>

BaseUp ==
  /\ stage = "base up"
  /\ \E c \in CodesOf(current.key.usage) : out' = out \ {c}
  /\ stage' = "releasing"
  /\ toRelease' = pressed
  /\ UNCHANGED <<current, toPress, pressed, before, failures>>

BaseWriteFails ==
  /\ \/ stage = "pressing" /\ current.kind = "Tap" /\ toPress = {}
     \/ stage = "base up"
  /\ WriteFails
  /\ stage' = "returned"
  /\ UNCHANGED <<current, toPress, toRelease, pressed, before>>

Release(c) ==
  /\ stage = "releasing"
  /\ c \in toRelease
  /\ out' = out \ {c}
  /\ toRelease' = toRelease \ {c}
  /\ UNCHANGED <<current, stage, toPress, pressed, before, failures>>

\* The error of a release is logged or ignored everywhere.
ReleaseFails(c) ==
  /\ stage = "releasing"
  /\ c \in toRelease
  /\ WriteFails
  /\ toRelease' = toRelease \ {c}
  /\ UNCHANGED <<current, stage, toPress, pressed, before>>

\* The emission function has nothing left to do.
Complete ==
  /\ current # NoAction
  /\ \/ stage = "returned"
     \/ stage = "releasing" /\ toRelease = {}
     \/ stage = "pressing" /\ toPress = {} /\ current.kind # "Tap"

Return ==
  /\ Complete
  /\ current' = NoAction
  /\ stage' = "returned"
  /\ toPress' = {}
  /\ toRelease' = {}
  /\ pressed' = {}
  /\ UNCHANGED <<out, before, failures>>

EmissionNext ==
  \/ \E a \in Actions : Begin(a)
  \/ \E c \in Keys :
       \/ Press(c)
       \/ ForwardedPressFails(c)
       \/ HoldPressFails(c)
       \/ TapPressFails(c)
       \/ Release(c)
       \/ ReleaseFails(c)
  \/ BaseDown
  \/ BaseUp
  \/ BaseWriteFails
  \/ Return

EmissionSpec == EmissionInit /\ [][EmissionNext]_emissionVars

-----------------------------------------------------------------------------
(* Properties *)

EmissionTypeOK ==
  /\ out \subseteq Keys
  /\ current \in Actions \cup {NoAction}
  /\ stage \in {"pressing", "base up", "releasing", "returned"}
  /\ toPress \subseteq Keys
  /\ toRelease \subseteq Keys
  /\ pressed \subseteq Keys \ toPress
  /\ before \subseteq Keys
  /\ failures \in 0 .. MaxFailures

(* An action of which no write failed has the effect Presses and Releases  *)
(* state, whatever was down before: the modules that execute an action in  *)
(* one step (LinuxRemap) lose nothing.                                     *)
EffectAsPlanned ==
  Complete /\ failures = 0 =>
    out = (before \ Releases(current)) \cup Presses(current)

(* While the base key of a tap is down, every modifier of its chord is:    *)
(* a failed modifier write never lets the bare base key out.               *)
ChordComplete ==
  stage = "base up" => ModifierCodes(current.key.modifiers) \subseteq out

(* "On failure, any keys that were pressed are released to prevent stuck   *)
(* state" (device.rs:332-333): a hold that failed on one write leaves      *)
(* nothing down that was up before it.                                     *)
FailedHoldReleases ==
  Complete /\ current.kind = "Hold" /\ failures = 1 => out \subseteq before

=============================================================================
