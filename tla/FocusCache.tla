----------------------------- MODULE FocusCache -----------------------------
(***************************************************************************)
(* The focused-application cache (common/ttl_value.rs, daemon/focus.rs) as *)
(* the key-event threads use it: under a read guard of the lock around the *)
(* runtime state, while a reload may wait to write.                        *)
(*                                                                         *)
(* Applications are numbered in the order they get the focus, so a larger  *)
(* number is a later answer; 0 is "unknown", the seed and the answer of a  *)
(* query that fails.  What a query does is left to ActiveWindow; here it   *)
(* answers with an application that had the focus while it ran, or with    *)
(* "unknown".                                                              *)
(***************************************************************************)
EXTENDS Naturals

CONSTANTS
  Threads,    \* threads that look up rules
  NoThread,
  MaxFocus,   \* bound: focus changes
  MaxPanics,  \* bound: panics of the platform query
  MaxReloads  \* bound: reloads

ASSUME FocusAssumption ==
  /\ NoThread \notin Threads
  /\ MaxFocus \in Nat \ {0}
  /\ MaxPanics \in Nat
  /\ MaxReloads \in Nat

VARIABLES
  focus,     \* the application that has the focus
  value,     \* TtlEntry.value
  expired,   \* now >= TtlEntry.expires_at
  slot,      \* the holder of the refresh mutex, or NoThread
  pc,        \* [Threads -> Stage]
  local,     \* [Threads -> answer of the query, then what the call returned]
  writer,    \* the reload thread: "idle", "waiting" or "writing"
  reloads, panics,
  returned,  \* history: the latest value any call has returned
  floor,     \* history: [Threads -> returned when the call began, else 0]
  since      \* history: the focus when the current query began, else 0

vars == <<focus, value, expired, slot, pc, local, writer, reloads, panics,
          returned, floor, since>>

lock == <<writer, reloads>>

Stage == {"idle", "waiting", "reading", "stale", "asking", "answered", "served"}

\* Threads with a read guard on the runtime state.
Readers == {t \in Threads : pc[t] \notin {"idle", "waiting"}}

Init ==
  /\ focus = 1
  /\ value = 0
  /\ expired = FALSE
  /\ slot = NoThread
  /\ pc = [t \in Threads |-> "idle"]
  /\ local = [t \in Threads |-> 0]
  /\ writer = "idle"
  /\ reloads = 0
  /\ panics = 0
  /\ returned = 0
  /\ floor = [t \in Threads |-> 0]
  /\ since = 0

Max2(a, b) == IF a > b THEN a ELSE b

\* The call of t returns v to the lookup.
Serve(t, v) ==
  /\ pc' = [pc EXCEPT ![t] = "served"]
  /\ local' = [local EXCEPT ![t] = v]
  /\ returned' = Max2(returned, v)

-----------------------------------------------------------------------------
(* The environment *)

FocusChanges ==
  /\ focus < MaxFocus
  /\ focus' = focus + 1
  /\ UNCHANGED <<value, expired, slot, pc, local, lock, panics, returned, floor, since>>

\* The time to live elapses.
Expire ==
  /\ ~expired
  /\ expired' = TRUE
  /\ UNCHANGED <<focus, value, slot, pc, local, lock, panics, returned, floor, since>>

-----------------------------------------------------------------------------
(* A key-event thread: decide_down's lookup *)

KeyEvent(t) ==
  /\ pc[t] = "idle"
  /\ pc' = [pc EXCEPT ![t] = "waiting"]
  /\ UNCHANGED <<focus, value, expired, slot, local, lock, panics, returned, floor, since>>

\* Mutant: readers pass a waiting writer.
AcquireReadBarging(t) ==
  /\ pc[t] = "waiting"
  /\ writer # "writing"
  /\ pc' = [pc EXCEPT ![t] = "reading"]
  /\ floor' = [floor EXCEPT ![t] = returned]
  /\ UNCHANGED <<focus, value, expired, slot, local, lock, panics, returned, since>>

\* lookup.read(): the lock is fair, a waiting writer keeps readers out.
AcquireRead(t) ==
  /\ pc[t] = "waiting"
  /\ writer = "idle"
  /\ pc' = [pc EXCEPT ![t] = "reading"]
  /\ floor' = [floor EXCEPT ![t] = returned]
  /\ UNCHANGED <<focus, value, expired, slot, local, lock, panics, returned, since>>

\* get_with, first block: a fresh entry is served.
ServeFresh(t) ==
  /\ pc[t] = "reading"
  /\ ~expired
  /\ Serve(t, value)
  /\ UNCHANGED <<focus, value, expired, slot, lock, panics, floor, since>>

FindStale(t) ==
  /\ pc[t] = "reading"
  /\ expired
  /\ pc' = [pc EXCEPT ![t] = "stale"]
  /\ UNCHANGED <<focus, value, expired, slot, local, lock, panics, returned, floor, since>>

\* refresh.try_lock() succeeds.
ClaimSlot(t) ==
  /\ pc[t] = "stale"
  /\ slot = NoThread
  /\ slot' = t
  /\ pc' = [pc EXCEPT ![t] = "asking"]
  /\ since' = focus
  /\ UNCHANGED <<focus, value, expired, local, lock, panics, returned, floor>>

\* Another thread refreshes: the last known value is served.  (try_lock and
\* the second lock of the entry are one step: no answer in between is lost.)
ServeStale(t) ==
  /\ pc[t] = "stale"
  /\ slot # NoThread
  /\ Serve(t, value)
  /\ UNCHANGED <<focus, value, expired, slot, lock, panics, floor, since>>

\* What the platform query may answer.
Answers == {0} \cup {a \in 1 .. MaxFocus : since <= a /\ a <= focus}

\* The platform query returns.
SourceAnswers(t) ==
  /\ pc[t] = "asking"
  /\ pc' = [pc EXCEPT ![t] = "answered"]
  /\ \E a \in Answers : local' = [local EXCEPT ![t] = a]
  /\ UNCHANGED <<focus, value, expired, slot, lock, panics, returned, floor, since>>

\* Mutant: the slot is not released when the query panics.
SourcePanicsHoldingSlot(t) ==
  /\ pc[t] = "asking"
  /\ panics < MaxPanics
  /\ panics' = panics + 1
  /\ pc' = [pc EXCEPT ![t] = "idle"]
  /\ since' = 0
  /\ floor' = [floor EXCEPT ![t] = 0]
  /\ UNCHANGED <<focus, value, expired, slot, local, lock, returned>>

\* The guards are dropped while the panic unwinds.
SourcePanics(t) ==
  /\ pc[t] = "asking"
  /\ panics < MaxPanics
  /\ panics' = panics + 1
  /\ slot' = NoThread
  /\ pc' = [pc EXCEPT ![t] = "idle"]
  /\ since' = 0
  /\ floor' = [floor EXCEPT ![t] = 0]
  /\ UNCHANGED <<focus, value, expired, local, lock, returned>>

\* The answer is published, and the slot released as the call returns.
Publish(t) ==
  /\ pc[t] = "answered"
  /\ value' = local[t]
  /\ expired' = FALSE
  /\ slot' = NoThread
  /\ Serve(t, local[t])
  /\ since' = 0
  /\ UNCHANGED <<focus, lock, panics, floor>>

\* The rules are matched and the read guard is dropped.
ReleaseRead(t) ==
  /\ pc[t] = "served"
  /\ pc' = [pc EXCEPT ![t] = "idle"]
  /\ local' = [local EXCEPT ![t] = 0]
  /\ floor' = [floor EXCEPT ![t] = 0]
  /\ UNCHANGED <<focus, value, expired, slot, lock, panics, returned, since>>

-----------------------------------------------------------------------------
(* The reload thread: state.write() *)

WriterArrives ==
  /\ writer = "idle"
  /\ reloads < MaxReloads
  /\ writer' = "waiting"
  /\ reloads' = reloads + 1
  /\ UNCHANGED <<focus, value, expired, slot, pc, local, panics, returned, floor, since>>

AcquireWrite ==
  /\ writer = "waiting"
  /\ Readers = {}
  /\ writer' = "writing"
  /\ UNCHANGED <<focus, value, expired, slot, pc, local, reloads, panics, returned, floor, since>>

ReleaseWrite ==
  /\ writer = "writing"
  /\ writer' = "idle"
  /\ UNCHANGED <<focus, value, expired, slot, pc, local, reloads, panics, returned, floor, since>>

Lookup(t) ==
  \/ AcquireRead(t)
  \/ ServeFresh(t)
  \/ FindStale(t)
  \/ ClaimSlot(t)
  \/ ServeStale(t)
  \/ Publish(t)
  \/ ReleaseRead(t)

Next ==
  \/ FocusChanges
  \/ Expire
  \/ WriterArrives
  \/ AcquireWrite
  \/ ReleaseWrite
  \/ \E t \in Threads : KeyEvent(t) \/ Lookup(t) \/ SourceAnswers(t) \/ SourcePanics(t)

Spec == Init /\ [][Next]_vars

-----------------------------------------------------------------------------
(* Properties *)

(* The refresh slot is held exactly by the thread that runs the query, and *)
(* nobody reads the rules while a reload replaces them.                    *)
TypeOK ==
  /\ focus \in 1 .. MaxFocus
  /\ value \in 0 .. MaxFocus
  /\ expired \in BOOLEAN
  /\ pc \in [Threads -> Stage]
  /\ local \in [Threads -> 0 .. MaxFocus]
  /\ writer \in {"idle", "waiting", "writing"}
  /\ reloads \in 0 .. MaxReloads
  /\ panics \in 0 .. MaxPanics
  /\ since \in 0 .. MaxFocus
  /\ {t \in Threads : pc[t] \in {"asking", "answered"}} = {slot} \ {NoThread}
  /\ writer = "writing" => Readers = {}

(* A lookup is never answered with an application that lost the focus      *)
(* before the one an earlier, finished lookup was answered with.           *)
NeverGoesBack ==
  \A t \in Threads : pc[t] = "served" => local[t] = 0 \/ local[t] >= floor[t]

=============================================================================
