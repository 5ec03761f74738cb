------------------------------ MODULE MacRemap ------------------------------
(***************************************************************************)
(* The event tap of macOS and the channel behind it.                       *)
(*                                                                         *)
(* Every key event of the session passes the tap: those of the user's      *)
(* keyboards and those of the virtual keyboard, whose keys re-enter the    *)
(* event stream.  The tap decodes an event (KeyScanner), lets the          *)
(* predicted echoes of its own output through (EchoTracker), and asks the  *)
(* engine about the rest.  The outputs of a rule go through a bounded      *)
(* channel to the writer thread, which sends them to virtkbdd; what that   *)
(* daemon does with them is VirtualKeyboard's subject, here it types them  *)
(* or, when the connection breaks, loses them.                             *)
(*                                                                         *)
(* The identity of a key is its HID usage: Keys and Usages are one set.    *)
(***************************************************************************)
EXTENDS KeyEngine, KeyReports, Integers

CONSTANTS
  Rules,          \* what the lookup answers; MappingEngine lets it change
  FlagOf,         \* [Keys -> flags], the flag a modifier shares with its twin
  NoFlag,
  CapsLock,       \* the toggle key
  NoDevice,       \* the device of decide: CGEvents do not tell one
  ChannelCapacity,\* batches the channel to the writer thread holds
  MaxEcho,        \* bound: predicted echoes pending at once
  MaxWire,        \* bound: reports being typed when more are written
  MaxLate,        \* bound: times predictions expire until all is at rest
  MaxCredit       \* bound: predictions used up by others than their echo

ASSUME MacAssumption ==
  /\ Usages = Keys \cup ConsumerUsages
  /\ \A k \in Keys : UsageOf[k] = k
  /\ Devices = {NoDevice}
  /\ ChannelCapacity \in Nat \ {0}
  /\ MaxEcho \in Nat /\ MaxLate \in Nat
  /\ ModifierUsage \in [Modifiers -> Keys]
  /\ \A m \in Modifiers : BitOf[ModifierUsage[m]] = m
  /\ \A m \in Modifiers : FlagOf[ModifierUsage[m]] # NoFlag
  /\ \A t \in DOMAIN Rules :
       /\ Rules[t] \in Seq(NativeKey)
       /\ \A i \in DOMAIN Rules[t] :
            BitOf[Rules[t][i].usage] \notin Rules[t][i].modifiers

VARIABLES
  engine,
  physical,   \* keys down on the user's keyboards
  virtual,    \* keys down on the virtual keyboard, as its reports came in
  alpha,      \* the caps lock state of the session
  prevAlpha,  \* KeyScanner::prev_alpha_shift
  tapOn,      \* the system has not disabled the tap
  echo,       \* EchoTracker::pending
  channel,    \* batches between the tap and the writer thread
  writer,     \* "idle", "open" or "failed"
  reachable,  \* the flag the tap loads
  wire,       \* reports written but not typed yet
  app,        \* keys down as the applications see them
  credit,     \* predicted presses that expired or that a key event of the user
              \* was taken for, less the echoes of presses the engine decided
  late,       \* history: how often predictions expired, their echo under way
  lost,       \* history: a predicted echo will not come
  muddled,    \* history: the scanner was misled (see Misleading)
  mistaken    \* history: an event of the user was taken for an echo

macVars == <<engine, physical, virtual, alpha, prevAlpha, tapOn, echo,
             channel, writer, reachable, wire, app, credit, late, lost,
             muddled, mistaken>>

Step(usage, isDown) == [usage |-> usage, isDown |-> isDown]

-----------------------------------------------------------------------------
(* Echo prediction and the reports it predicts *)

\* Mutant: an echo is predicted for consumer keys too.
EchoOfAny(nk) ==
  LET mods == InOrder(nk.modifiers)
      downs == [i \in DOMAIN mods |-> Step(ModifierUsage[mods[i]], TRUE)]
      ups == [i \in DOMAIN mods |-> Step(ModifierUsage[mods[i]], FALSE)]
  IN downs \o <<Step(nk.usage, TRUE), Step(nk.usage, FALSE)>> \o Reverse(ups)

\* What EchoTracker::record expects one output to come back as.
EchoOf(nk) ==
  LET mods == InOrder(nk.modifiers)
      downs == [i \in DOMAIN mods |-> Step(ModifierUsage[mods[i]], TRUE)]
      ups == [i \in DOMAIN mods |-> Step(ModifierUsage[mods[i]], FALSE)]
  IN IF nk.usage \in ConsumerUsages THEN << >>
     ELSE downs \o <<Step(nk.usage, TRUE), Step(nk.usage, FALSE)>> \o Reverse(ups)

EchoOfBatch(batch) == FlattenSeq([i \in DOMAIN batch |-> EchoOf(batch[i])])

\* Consumer keys do not come back as key events.
ReportsOfBatch(batch) ==
  FlattenSeq([i \in DOMAIN batch |->
                IF batch[i].usage \in ConsumerUsages THEN << >>
                ELSE KeyboardReports(batch[i])])

-----------------------------------------------------------------------------
(* KeyScanner *)

\* flags_changed_state: left and right share a flag, as do the keyboards.
FlagSet(k, down) == \E j \in down : FlagOf[j] = FlagOf[k]

\* Mutant: CapsLock is read from the flag like the held modifiers.
ScannedByFlag(k, isDown, down, lit) ==
  IF k = CapsLock THEN lit
  ELSE IF FlagOf[k] = NoFlag THEN isDown
  ELSE FlagSet(k, down)

\* on_event: the direction of an event after which `down` keys are down.
Scanned(k, isDown, down, lit) ==
  IF k = CapsLock THEN lit # prevAlpha
  ELSE IF FlagOf[k] = NoFlag THEN isDown
  ELSE FlagSet(k, down)

\* A modifier goes up while another key of its flag, or the same key of the
\* other keyboard, is down; CapsLock goes down after the disabled tap has not
\* seen it change.
Misleading(k, isDown, others) ==
  \/ ~isDown /\ FlagOf[k] # NoFlag /\ \E j \in others : FlagOf[j] = FlagOf[k]
  \/ isDown /\ k = CapsLock /\ alpha # prevAlpha

-----------------------------------------------------------------------------
(* tap_callback *)

AppSees(k, isDown) == app' = IF isDown THEN app \cup {k} ELSE app \ {k}

\* EchoTracker::matches: the first `stale` entries have expired, and only
\* the head can match.
EchoAfter(k, isDown, stale) ==
  LET live == SubSeq(echo, stale + 1, Len(echo)) IN
  IF live # << >> /\ Head(live) = Step(k, isDown) THEN Tail(live) ELSE live

IsEcho(k, isDown, stale) ==
  stale < Len(echo) /\ echo[stale + 1] = Step(k, isDown)

\* Mutant: a consumed modifier's release is swallowed, as on Linux.
PassesSwallowingConsumed(kind) == kind = "Pass"

\* input fate of emission_plan under ConsumedReleaseFate::PassThrough
Passes(kind) == kind \in {"Pass", "ConsumedRelease"}

\* MacOsEmitter::emit_batch: a batch that finds the channel full is gone.
EmitBatch(outputs, live) ==
  IF outputs # << >> /\ Len(channel) < ChannelCapacity
  THEN /\ channel' = Append(channel, outputs)
       /\ echo' = live \o EchoOfBatch(outputs)
  ELSE channel' = channel /\ echo' = live

\* The callback: dir is the direction the scanner read, isDown the true one.
TapCallback(k, isDown, dir, stale) ==
  LET live == EchoAfter(k, dir, stale)
      d == IF dir THEN DownDecision(engine, k, NoDevice, reachable, Rules)
                  ELSE UpDecision(engine, k)
  IN IF IsEcho(k, dir, stale)
     THEN /\ AppSees(k, isDown)
          /\ echo' = live
          /\ UNCHANGED <<engine, channel>>
     ELSE /\ engine' = IF dir THEN AfterDown(engine, k, NoDevice, reachable, Rules)
                              ELSE AfterUp(engine, k)
          /\ EmitBatch(d.outputs, live)
          /\ IF Passes(d.kind) THEN AppSees(k, isDown) ELSE app' = app

ExpiredPresses(stale) == Cardinality({i \in 1 .. stale : echo[i].isDown})

-----------------------------------------------------------------------------

MacInit ==
  /\ engine = FreshEngine
  /\ physical = {} /\ virtual = {} /\ app = {}
  /\ alpha = FALSE /\ prevAlpha = FALSE
  /\ tapOn = TRUE
  /\ echo = << >> /\ channel = << >> /\ wire = << >>
  /\ writer = "idle" /\ reachable = FALSE
  /\ credit = 0
  /\ late = 0
  /\ lost = FALSE /\ muddled = FALSE /\ mistaken = FALSE

\* Nothing is down or under way: the histories end.
Calm ==
  /\ physical' = {} /\ virtual' = {} /\ app' = {} /\ engine'.pressed = {}
  /\ wire' = << >> /\ channel' = << >> /\ echo' = << >>

Undisturbed == ~lost /\ ~muddled

\* Predictions are counted while nothing has gone wrong.
TrackHistory(nowLate, nowLost, nowMuddled, nowMistaken, given, used) ==
  /\ late' = IF Calm THEN 0 ELSE IF nowLate THEN late + 1 ELSE late
  /\ lost' = (~Calm /\ (lost \/ nowLost))
  /\ muddled' = (~Calm /\ (muddled \/ nowMuddled))
  /\ mistaken' = (~Calm /\ (mistaken \/ nowMistaken))
  /\ credit' = IF lost' \/ muddled' \/ Calm THEN 0 ELSE credit + given - used

\* The first `stale` predictions are older than ECHO_WINDOW.  A batch shares
\* one time stamp; here any prefix expires, those of whole batches among them.
\* Bound: MaxLate times, and once the scanner was misled all or none.
Expire(stale) ==
  /\ stale <= Len(echo)
  /\ stale > 0 => /\ tapOn
                  /\ Undisturbed => late < MaxLate
                  /\ muddled => stale = Len(echo)

One(c) == IF c THEN 1 ELSE 0

\* An event, while `others` are down, reaches the tap or goes past it (bound:
\* nothing goes past it while a prediction is lost).
Deliver(k, isDown, stale, mine, others) ==
  LET lit == IF k = CapsLock /\ isDown THEN ~alpha ELSE alpha
      dir == Scanned(k, isDown, others \cup (IF isDown THEN {k} ELSE {}), lit)
      taken == ~mine /\ IsEcho(k, dir, stale)
  IN /\ Expire(stale)
     /\ lost => tapOn
     /\ Len(echo) <= MaxEcho
     /\ credit <= MaxCredit \/ (mine /\ stale = 0)
     /\ alpha' = lit
     /\ IF tapOn
        THEN /\ TapCallback(k, isDown, dir, stale)
             /\ prevAlpha' = IF k = CapsLock THEN lit ELSE prevAlpha
             /\ TrackHistory(stale > 0 /\ Undisturbed, FALSE,
                             Misleading(k, isDown, others), taken,
                             ExpiredPresses(stale) + One(dir /\ taken),
                             One(dir /\ mine /\ ~IsEcho(k, dir, stale)))
        ELSE /\ AppSees(k, isDown)
             /\ UNCHANGED <<engine, prevAlpha, echo, channel>>
             /\ TrackHistory(FALSE, mine, TRUE, FALSE, 0, 0)

\* What the user does to a key: a press, an auto-repeat or a release.
\* Bound: no press while nothing is claimed.
UserEvent(k, isDown, stale) ==
  /\ isDown => Undisturbed
  /\ isDown \/ k \in physical
  /\ k \in physical /\ isDown => FlagOf[k] = NoFlag /\ k # CapsLock
  /\ physical' = IF isDown THEN physical \cup {k} ELSE physical \ {k}
  /\ UNCHANGED <<virtual, tapOn, writer, reachable, wire>>
  /\ Deliver(k, isDown, stale, FALSE, (physical \ {k}) \cup virtual)

\* The virtual keyboard types a key that changes with its next report.
EchoEvent(k, isDown, stale) ==
  /\ wire # << >>
  /\ k \in IF isDown THEN Head(wire) \ virtual ELSE virtual \ Head(wire)
  /\ virtual' = IF isDown THEN virtual \cup {k} ELSE virtual \ {k}
  /\ wire' = IF virtual' = Head(wire) THEN Tail(wire) ELSE wire
  /\ UNCHANGED <<physical, tapOn, writer, reachable>>
  /\ Deliver(k, isDown, stale, TRUE, physical \cup (virtual \ {k}))

\* The system disables a tap that is slow; the notice of it re-enables it.
TapDisabled ==
  /\ tapOn' = ~tapOn
  /\ UNCHANGED <<engine, physical, virtual, alpha, prevAlpha, echo,
                 channel, writer, reachable, wire, app, credit, late, lost,
             muddled, mistaken>>

-----------------------------------------------------------------------------
(* writer_loop and write_loop *)

WriterUnchanged == UNCHANGED <<engine, physical, alpha, prevAlpha,
                               tapOn, echo, app>>

\* Connected to a server that runs as root.
ServerFound ==
  /\ writer = "idle"
  /\ writer' = "open"
  /\ reachable' = TRUE
  /\ UNCHANGED <<virtual, channel, wire, credit, late, lost, muddled, mistaken>>
  /\ WriterUnchanged

WriteBatch ==
  /\ writer = "open"
  /\ channel # << >>
  /\ Len(wire) <= MaxWire
  /\ channel' = Tail(channel)
  /\ wire' = wire \o ReportsOfBatch(Head(channel))
  /\ UNCHANGED <<virtual, writer, reachable, credit, late, lost, muddled, mistaken>>
  /\ WriterUnchanged

\* write_all fails: the batch that was taken is lost (bound: not while a
\* history lasts).
BatchFails ==
  /\ Undisturbed
  /\ writer = "open"
  /\ channel # << >>
  /\ channel' = Tail(channel)
  /\ writer' = "failed"
  /\ UNCHANGED <<virtual, reachable, wire>>
  /\ WriterUnchanged
  /\ TrackHistory(FALSE, TRUE, FALSE, FALSE, 0, 0)

\* The tap learns of it only now.
GiveUp ==
  /\ writer = "failed"
  /\ writer' = "idle"
  /\ reachable' = FALSE
  /\ UNCHANGED <<virtual, channel, wire, credit, late, lost, muddled, mistaken>>
  /\ WriterUnchanged

\* virtkbdd dies: what it had not typed is lost, its keyboard lets go (bound:
\* not while a history lasts).
DaemonDies ==
  /\ Undisturbed
  /\ wire # << >>
  /\ wire' = IF virtual = {} THEN << >> ELSE <<{}>>
  /\ UNCHANGED <<virtual, channel, writer, reachable>>
  /\ WriterUnchanged
  /\ TrackHistory(FALSE, TRUE, FALSE, FALSE, 0, 0)

MacNext ==
  \/ \E k \in Keys, isDown \in BOOLEAN, stale \in 0 .. Len(echo) :
       \/ UserEvent(k, isDown, stale)
       \/ EchoEvent(k, isDown, stale)
  \/ TapDisabled
  \/ ServerFound
  \/ WriteBatch
  \/ BatchFails
  \/ GiveUp
  \/ DaemonDies

MacSpec == MacInit /\ [][MacNext]_macVars

-----------------------------------------------------------------------------
(* Properties *)

(* The tap does not feed on its own output ("cyclic rules ... would emit   *)
(* forever", mapping.rs:227-231): every echo the engine decides as a press *)
(* or a repeat is paid for, by a prediction that expired before its echo   *)
(* came or by a press or repeat of the user that was taken for an echo.    *)
NoFeedback == Undisturbed => credit >= 0

(* When the user's keyboards are at rest and everything has been typed, no *)
(* application sees a key down, unless predictions expired before their    *)
(* echo came: then a swallowed release can be that of a key passed down.   *)
NoStuckKeys ==
  Undisturbed /\ late = 0 /\ physical = {} /\ channel = << >> /\ wire = << >> =>
    app = {}

(* When everything is at rest the engine takes no key for pressed and looks*)
(* rules up with no modifier: no release was mistaken for a press, none was*)
(* taken for an echo, and no prediction expired before its echo came.      *)
EngineAtRest ==
  Undisturbed /\ ~mistaken /\ late = 0 /\ physical = {} /\ channel = << >> /\ wire = << >> =>
    engine.pressed = {} /\ engine.modifierState = {}
=============================================================================
