------------------------ MODULE ActiveWindow_proofs ------------------------
(***************************************************************************)
(* The focus cache never goes back, and the queries of every platform keep *)
(* the promise it makes of them, for any number of threads, focus changes, *)
(* panics, failed queries and reloads, and any sessions, desktop files and *)
(* applications.                                                           *)
(***************************************************************************)
EXTENDS ActiveWindow, SequenceTheorems, TLAPS

-----------------------------------------------------------------------------
(* The cache (FocusCache): its invariant orders what callers were told,    *)
(* what is cached, when the current query began and what the focus is; it  *)
(* holds because only the thread in the refresh slot publishes, and the    *)
(* slot outlives its query.                                                *)

\* Threads between the claim of the refresh slot and its release.
Refreshing == {t \in Threads : pc[t] \in {"asking", "answered"}}

HistoryType ==
  /\ returned \in Nat
  /\ floor \in [Threads -> Nat]
  /\ reloads \in Nat

\* Told <= cached <= focused, and a query on its way began after all of what
\* was told or cached, and answers with nothing older than its beginning.
Ordered ==
  /\ returned <= focus /\ value <= focus
  /\ value # 0 => returned <= value
  /\ \A t \in Threads : floor[t] <= returned
  /\ \A t \in Threads :
       pc[t] \in {"asking", "answered"} =>
         returned <= since /\ value <= since /\ since <= focus
  /\ \A t \in Threads :
       pc[t] = "answered" => local[t] = 0 \/ (since <= local[t] /\ local[t] <= focus)

IInv == TypeOK /\ HistoryType /\ Ordered /\ NeverGoesBack

(* The refresh slot has one holder: a thread that may claim it is alone.   *)
LEMMA SlotIsExclusive ==
  ASSUME IInv, NEW t \in Refreshing
  PROVE  slot = t /\ \A u \in Threads : u # t => pc[u] \notin {"asking", "answered"}
<1>1. Refreshing = {slot} \ {NoThread}
  BY DEF IInv, TypeOK, Refreshing
<1>2. \A u \in Refreshing : u = slot
  BY <1>1
<1>3. ASSUME NEW u \in Threads, u # t PROVE pc[u] \notin {"asking", "answered"}
  BY <1>2, <1>3 DEF Refreshing
<1>. QED BY <1>2, <1>3

(* The seed is older than every answer, and nobody was told anything.      *)
LEMMA InitIInv == Init => IInv
<1>. SUFFICES ASSUME Init PROVE IInv
  OBVIOUS
<1>1. TypeOK
  <2>1. \A t \in Threads : pc[t] = "idle"
    BY DEF Init
  <2>2. {t \in Threads : pc[t] \in {"asking", "answered"}} = {slot} \ {NoThread}
    BY <2>1 DEF Init
  <2>3. /\ focus \in 1 .. MaxFocus /\ value \in 0 .. MaxFocus
        /\ reloads \in 0 .. MaxReloads /\ panics \in 0 .. MaxPanics /\ since \in 0 .. MaxFocus
    BY FocusAssumption DEF Init
  <2>4. local \in [Threads -> 0 .. MaxFocus]
    BY FocusAssumption DEF Init
  <2>5. pc \in [Threads -> Stage] /\ writer = "idle" /\ expired \in BOOLEAN
    BY DEF Init, Stage
  <2>. QED BY <2>2, <2>3, <2>4, <2>5 DEF TypeOK
<1>2. HistoryType /\ Ordered /\ NeverGoesBack
  BY DEF Init, HistoryType, Ordered, NeverGoesBack
<1>. QED BY <1>1, <1>2 DEF IInv

(* What happens around the threads moves the focus forward, and leaves     *)
(* what is cached and what callers were told alone.                        *)
LEMMA EnvironmentIInv ==
  ASSUME IInv, FocusChanges \/ Expire \/ WriterArrives \/ AcquireWrite \/ ReleaseWrite
  PROVE  IInv'
<1>1. CASE FocusChanges
  <2>1. focus' = focus + 1 /\ focus' \in 1 .. MaxFocus
    BY <1>1, FocusAssumption DEF FocusChanges, IInv, TypeOK
  <2>2. TypeOK'
    BY <1>1, <2>1 DEF FocusChanges, IInv, TypeOK, lock, Readers
  <2>3. HistoryType' /\ NeverGoesBack'
    BY <1>1 DEF FocusChanges, IInv, HistoryType, NeverGoesBack, lock
  <2>4. Ordered'
    BY <1>1, <2>1, FocusAssumption DEF FocusChanges, IInv, TypeOK, HistoryType, Ordered
  <2>. QED BY <2>2, <2>3, <2>4 DEF IInv
<1>2. CASE Expire
  BY <1>2 DEF Expire, lock, IInv, TypeOK, Readers, HistoryType, Ordered, NeverGoesBack
<1>3. CASE WriterArrives
  <2>1. reloads' \in 0 .. MaxReloads /\ reloads' \in Nat
    BY <1>3, FocusAssumption DEF WriterArrives, IInv, TypeOK
  <2>2. TypeOK'
    BY <1>3, <2>1 DEF WriterArrives, IInv, TypeOK, Readers
  <2>. QED BY <1>3, <2>1, <2>2 DEF WriterArrives, IInv, HistoryType, Ordered, NeverGoesBack
<1>4. CASE AcquireWrite
  <2>1. TypeOK'
    BY <1>4 DEF AcquireWrite, IInv, TypeOK, Readers
  <2>. QED BY <1>4, <2>1 DEF AcquireWrite, IInv, HistoryType, Ordered, NeverGoesBack
<1>5. CASE ReleaseWrite
  <2>1. TypeOK'
    BY <1>5 DEF ReleaseWrite, IInv, TypeOK, Readers
  <2>. QED BY <1>5, <2>1 DEF ReleaseWrite, IInv, HistoryType, Ordered, NeverGoesBack
<1>. QED BY <1>1, <1>2, <1>3, <1>4, <1>5

(* A thread that only moves to another stage outside a refresh.            *)
LEMMA StageIInv ==
  ASSUME IInv, NEW t \in Threads, NEW to \in {"idle", "waiting", "stale"},
         pc[t] \notin {"asking", "answered"},
         pc' = [pc EXCEPT ![t] = to],
         writer = "writing" => t \notin Readers /\ to # "stale",
         UNCHANGED <<focus, value, expired, slot, local, lock, panics, returned, floor, since>>
  PROVE  IInv'
<1>1. \A u \in Threads : pc'[u] = IF u = t THEN to ELSE pc[u]
  BY DEF IInv, TypeOK
<1>2. {u \in Threads : pc'[u] \in {"asking", "answered"}} = {slot} \ {NoThread}
  BY <1>1 DEF IInv, TypeOK
<1>3. writer = "writing" => Readers' = {}
  BY <1>1 DEF IInv, TypeOK, Readers
<1>4. TypeOK'
  BY <1>2, <1>3 DEF IInv, TypeOK, Stage, lock
<1>5. HistoryType' /\ Ordered' /\ NeverGoesBack'
  BY <1>1 DEF IInv, HistoryType, Ordered, NeverGoesBack, lock
<1>. QED BY <1>4, <1>5 DEF IInv

(* A lookup that gets the lock remembers what callers were told so far.    *)
LEMMA AcquireReadIInv ==
  ASSUME IInv, NEW t \in Threads, AcquireRead(t)
  PROVE  IInv'
<1>1. \A u \in Threads : pc'[u] = IF u = t THEN "reading" ELSE pc[u]
  BY DEF IInv, TypeOK, AcquireRead
<1>2. {u \in Threads : pc'[u] \in {"asking", "answered"}} = {slot} \ {NoThread}
  BY <1>1 DEF IInv, TypeOK, AcquireRead
<1>3. TypeOK'
  BY <1>2 DEF IInv, TypeOK, Stage, lock, AcquireRead
<1>4. HistoryType' /\ Ordered' /\ NeverGoesBack'
  BY <1>1 DEF IInv, HistoryType, Ordered, NeverGoesBack, lock, AcquireRead
<1>. QED BY <1>3, <1>4 DEF IInv

(* Serving what is cached: nobody was told anything newer.                 *)
LEMMA ServeCachedIInv ==
  ASSUME IInv, NEW t \in Threads, ServeFresh(t) \/ ServeStale(t)
  PROVE  IInv'
<1>0. /\ pc[t] \in {"reading", "stale"}
      /\ Serve(t, value)
      /\ UNCHANGED <<focus, value, expired, slot, lock, panics, floor, since>>
  BY DEF ServeFresh, ServeStale
<1>1. /\ \A u \in Threads : pc'[u] = IF u = t THEN "served" ELSE pc[u]
      /\ \A u \in Threads : local'[u] = IF u = t THEN value ELSE local[u]
  BY <1>0 DEF IInv, TypeOK, Serve
<1>2. /\ value \in Nat /\ returned \in Nat /\ focus \in Nat
      /\ returned' = (IF value = 0 THEN returned ELSE value)
  BY <1>0, FocusAssumption DEF IInv, TypeOK, HistoryType, Ordered, Serve, Max2
<1>3. {u \in Threads : pc'[u] \in {"asking", "answered"}} = {slot} \ {NoThread}
  BY <1>0, <1>1 DEF IInv, TypeOK
<1>4. writer = "writing" => Readers' = {}
  BY <1>0 DEF IInv, TypeOK, Readers
<1>5. TypeOK'
  BY <1>0, <1>3, <1>4 DEF IInv, TypeOK, Stage, lock, Serve
<1>6. HistoryType'
  BY <1>0, <1>2 DEF IInv, HistoryType, lock
<1>7. /\ returned <= returned' /\ returned' <= focus
      /\ value # 0 => returned' <= value
      /\ \A u \in Threads : floor[u] <= returned /\ floor[u] \in Nat
  BY <1>2 DEF IInv, HistoryType, Ordered
<1>8. Ordered'
  <2>1. \A u \in Threads : floor'[u] <= returned'
    BY <1>0, <1>2, <1>7
  <2>2. ASSUME NEW u \in Threads, pc'[u] \in {"asking", "answered"}
        PROVE  /\ returned' <= since' /\ value' <= since' /\ since' <= focus'
               /\ pc'[u] = "answered" => local'[u] = 0 \/ (since' <= local'[u] /\ local'[u] <= focus')
    <3>1. u # t /\ pc[u] \in {"asking", "answered"} /\ local'[u] = local[u]
      BY <1>1, <2>2
    <3>. QED BY <1>0, <1>1, <1>2, <3>1 DEF IInv, Ordered
  <2>. QED BY <1>0, <1>7, <2>1, <2>2 DEF IInv, Ordered
<1>9. NeverGoesBack'
  <2>1. value # 0 => \A u \in Threads : value >= floor[u]
    BY <1>2, <1>7
  <2>. QED BY <1>0, <1>1, <2>1 DEF IInv, NeverGoesBack
<1>. QED BY <1>5, <1>6, <1>8, <1>9 DEF IInv

(* The slot is taken by one thread, from nobody.                           *)
LEMMA ClaimSlotIInv ==
  ASSUME IInv, NEW t \in Threads, ClaimSlot(t)
  PROVE  IInv'
<1>1. \A u \in Threads : pc'[u] = IF u = t THEN "asking" ELSE pc[u]
  BY DEF IInv, TypeOK, ClaimSlot
<1>2. \A u \in Threads : pc[u] \notin {"asking", "answered"}
  BY DEF IInv, TypeOK, ClaimSlot
<1>3. {u \in Threads : pc'[u] \in {"asking", "answered"}} = {slot'} \ {NoThread}
  BY <1>1, <1>2, FocusAssumption DEF ClaimSlot
<1>4. writer # "writing"
  BY DEF IInv, TypeOK, Readers, ClaimSlot
<1>5. TypeOK'
  BY <1>3, <1>4, FocusAssumption DEF IInv, TypeOK, Stage, lock, ClaimSlot
<1>6. focus \in Nat
  BY FocusAssumption DEF IInv, TypeOK
<1>7. HistoryType' /\ NeverGoesBack'
  BY <1>1 DEF IInv, HistoryType, NeverGoesBack, lock, ClaimSlot
<1>8. Ordered'
  BY <1>1, <1>2, <1>6 DEF IInv, Ordered, ClaimSlot
<1>. QED BY <1>5, <1>7, <1>8 DEF IInv

(* The platform's answer is no older than the query, or "unknown".         *)
LEMMA SourceAnswersIInv ==
  ASSUME IInv, NEW t \in Threads, SourceAnswers(t)
  PROVE  IInv'
<1>0. PICK a \in Answers : local' = [local EXCEPT ![t] = a]
  BY DEF SourceAnswers
<1>1. /\ \A u \in Threads : pc'[u] = IF u = t THEN "answered" ELSE pc[u]
      /\ \A u \in Threads : local'[u] = IF u = t THEN a ELSE local[u]
  BY <1>0 DEF IInv, TypeOK, SourceAnswers
<1>2. {u \in Threads : pc'[u] \in {"asking", "answered"}} = {slot} \ {NoThread}
  BY <1>1 DEF IInv, TypeOK, SourceAnswers
<1>3. writer = "writing" => Readers' = {}
  BY DEF IInv, TypeOK, Readers, SourceAnswers
<1>4. a \in 0 .. MaxFocus /\ (a = 0 \/ (since <= a /\ a <= focus))
  BY FocusAssumption DEF Answers
<1>5. TypeOK'
  BY <1>0, <1>2, <1>3, <1>4 DEF IInv, TypeOK, Stage, lock, SourceAnswers
<1>6. HistoryType' /\ NeverGoesBack'
  BY <1>1 DEF IInv, HistoryType, NeverGoesBack, lock, SourceAnswers
<1>7. Ordered'
  BY <1>1, <1>4 DEF IInv, Ordered, SourceAnswers
<1>. QED BY <1>5, <1>6, <1>7 DEF IInv

(* A thread that leaves its call, served or unwinding, forgets what it was *)
(* told, and no other thread refreshes if it did.                          *)
LEMMA LeaveIInv ==
  ASSUME IInv, NEW t \in Threads, SourcePanics(t) \/ ReleaseRead(t)
  PROVE  IInv'
<1>0. /\ pc[t] \in {"asking", "served"}
      /\ pc' = [pc EXCEPT ![t] = "idle"] /\ floor' = [floor EXCEPT ![t] = 0]
      /\ UNCHANGED <<focus, value, expired, lock, returned>>
  BY DEF SourcePanics, ReleaseRead
<1>1. /\ \A u \in Threads : pc'[u] = IF u = t THEN "idle" ELSE pc[u]
      /\ \A u \in Threads : floor'[u] = IF u = t THEN 0 ELSE floor[u]
  BY <1>0 DEF IInv, TypeOK, HistoryType
<1>2. \A u \in Threads : u # t => local'[u] = local[u]
  BY DEF IInv, TypeOK, SourcePanics, ReleaseRead
<1>3. /\ local' \in [Threads -> 0 .. MaxFocus] /\ since' \in 0 .. MaxFocus
      /\ panics' \in 0 .. MaxPanics
  BY FocusAssumption DEF IInv, TypeOK, SourcePanics, ReleaseRead
<1>4. writer # "writing"
  BY <1>0 DEF IInv, TypeOK, Readers
<1>5. /\ {u \in Threads : pc'[u] \in {"asking", "answered"}} = {slot'} \ {NoThread}
      /\ \A u \in Threads : pc'[u] \in {"asking", "answered"} => since' = since
  <2>1. CASE SourcePanics(t)
    <3>1. \A u \in Threads : u # t => pc[u] \notin {"asking", "answered"}
      BY <2>1, SlotIsExclusive DEF SourcePanics, Refreshing
    <3>. QED BY <1>1, <2>1, <3>1 DEF SourcePanics
  <2>2. CASE ReleaseRead(t)
    <3>1. pc[t] = "served" /\ slot' = slot /\ since' = since
      BY <2>2 DEF ReleaseRead
    <3>. QED BY <1>1, <3>1 DEF IInv, TypeOK
  <2>. QED BY <2>1, <2>2
<1>6. TypeOK'
  BY <1>0, <1>3, <1>4, <1>5 DEF IInv, TypeOK, Stage, lock
<1>7. HistoryType'
  BY <1>0 DEF IInv, HistoryType, lock
<1>8. Ordered'
  BY <1>0, <1>1, <1>2, <1>5 DEF IInv, HistoryType, Ordered
<1>9. NeverGoesBack'
  BY <1>1, <1>2 DEF IInv, NeverGoesBack
<1>. QED BY <1>6, <1>7, <1>8, <1>9 DEF IInv

(* The answer of the only refresh is no older than what it replaces.       *)
LEMMA PublishIInv ==
  ASSUME IInv, NEW t \in Threads, Publish(t)
  PROVE  IInv'
<1>0. pc[t] = "answered" /\ Serve(t, local[t]) /\ value' = local[t] /\ slot' = NoThread
  BY DEF Publish
<1>1. /\ \A u \in Threads : pc'[u] = IF u = t THEN "served" ELSE pc[u]
      /\ local' = local
  BY <1>0 DEF IInv, TypeOK, Serve
<1>2. \A u \in Threads : u # t => pc[u] \notin {"asking", "answered"}
  BY <1>0, SlotIsExclusive DEF Refreshing
<1>3. /\ local[t] \in 0 .. MaxFocus /\ local[t] \in Nat
      /\ value \in Nat /\ returned \in Nat /\ focus \in Nat
      /\ returned <= focus
      /\ local[t] # 0 => returned <= local[t] /\ local[t] <= focus
  BY <1>0, FocusAssumption DEF IInv, TypeOK, HistoryType, Ordered
<1>4. returned' = IF local[t] = 0 THEN returned ELSE local[t]
  BY <1>0, <1>3 DEF IInv, HistoryType, Serve, Max2
<1>5. {u \in Threads : pc'[u] \in {"asking", "answered"}} = {slot'} \ {NoThread}
  BY <1>0, <1>1, <1>2
<1>6. writer # "writing"
  BY <1>0 DEF IInv, TypeOK, Readers
<1>7. TypeOK'
  <2>1. since' = 0 /\ since' \in 0 .. MaxFocus /\ value' \in 0 .. MaxFocus
    BY <1>0, <1>3, FocusAssumption DEF Publish
  <2>2. pc' \in [Threads -> Stage]
    BY <1>0 DEF IInv, TypeOK, Stage, Serve
  <2>. QED BY <1>1, <1>5, <1>6, <2>1, <2>2 DEF IInv, TypeOK, lock, Publish
<1>8. HistoryType'
  BY <1>3, <1>4 DEF IInv, HistoryType, lock, Publish
<1>9. \A u \in Threads : floor[u] <= returned' /\ (local[t] # 0 => floor[u] <= local[t])
  BY <1>3, <1>4 DEF IInv, HistoryType, Ordered
<1>10. Ordered'
  BY <1>0, <1>1, <1>2, <1>3, <1>4, <1>9 DEF Ordered, Publish
<1>11. NeverGoesBack'
  BY <1>0, <1>1, <1>3, <1>9 DEF IInv, HistoryType, NeverGoesBack, Publish
<1>. QED BY <1>7, <1>8, <1>10, <1>11 DEF IInv

(* Every step of the threads, the reload and the platform.                 *)
LEMMA StepIInv == IInv /\ [Next]_vars => IInv'
<1>. SUFFICES ASSUME IInv, [Next]_vars PROVE IInv'
  OBVIOUS
<1>1. CASE UNCHANGED vars
  BY <1>1 DEF vars, IInv, TypeOK, Readers, HistoryType, Ordered, NeverGoesBack
<1>2. CASE FocusChanges \/ Expire \/ WriterArrives \/ AcquireWrite \/ ReleaseWrite
  BY <1>2, EnvironmentIInv
<1>3. ASSUME NEW t \in Threads, KeyEvent(t) \/ FindStale(t) PROVE IInv'
  <2>1. CASE KeyEvent(t)
    BY <2>1, StageIInv DEF KeyEvent, Readers
  <2>2. CASE FindStale(t)
    <3>1. writer # "writing"
      BY <2>2 DEF FindStale, IInv, TypeOK, Readers
    <3>. QED BY <2>2, <3>1, StageIInv DEF FindStale
  <2>. QED BY <1>3, <2>1, <2>2
<1>4. ASSUME NEW t \in Threads, AcquireRead(t) PROVE IInv'
  BY <1>4, AcquireReadIInv
<1>5. ASSUME NEW t \in Threads, ServeFresh(t) \/ ServeStale(t) PROVE IInv'
  BY <1>5, ServeCachedIInv
<1>6. ASSUME NEW t \in Threads, ClaimSlot(t) PROVE IInv'
  BY <1>6, ClaimSlotIInv
<1>7. ASSUME NEW t \in Threads, SourceAnswers(t) PROVE IInv'
  BY <1>7, SourceAnswersIInv
<1>8. ASSUME NEW t \in Threads, SourcePanics(t) \/ ReleaseRead(t) PROVE IInv'
  BY <1>8, LeaveIInv
<1>9. ASSUME NEW t \in Threads, Publish(t) PROVE IInv'
  BY <1>9, PublishIInv
<1>. QED BY <1>1, <1>2, <1>3, <1>4, <1>5, <1>6, <1>7, <1>8, <1>9 DEF Next, Lookup

(* The invariant holds in every behaviour, fair or not.                    *)
LEMMA InductiveInvariant == Spec => []IInv
BY InitIInv, StepIInv, PTL DEF Spec

(* One thread at a time runs the platform query (the refresh mutex,        *)
(* ttl_value.rs 79-87), and no lookup reads the rules while a reload       *)
(* replaces them.                                                          *)
THEOREM SlotAndLockCorrect == Spec => []TypeOK
<1>1. IInv => TypeOK
  BY DEF IInv
<1>. QED BY <1>1, InductiveInvariant, PTL

(* However lookups, refreshes and panics overlap, no lookup is answered    *)
(* with an application older than one an earlier lookup was answered with. *)
THEOREM CacheNeverGoesBack == Spec => []NeverGoesBack
<1>1. IInv => NeverGoesBack
  BY DEF IInv
<1>. QED BY <1>1, InductiveInvariant, PTL

-----------------------------------------------------------------------------
(* The queries: each step of one leaves the cache alone, is the panic of   *)
(* its thread, or answers with an application that had the focus since the *)
(* query began.                                                            *)

\* What the current query has seen is something it may answer with, and while
\* none runs nothing of the last one is left.
QueryInv ==
  /\ seen \in Answers
  /\ at = "none" => seen = 0
  /\ at # "none" => \E t \in Threads : pc[t] = "asking"

(* An application that has the focus while a query runs is an answer.      *)
LEMMA FocusIsAnswer ==
  ASSUME IInv, NEW t \in Threads, pc[t] = "asking"
  PROVE  focus \in Answers
<1>1. focus \in 1 .. MaxFocus /\ since <= focus
  BY DEF IInv, TypeOK, Ordered
<1>2. focus \in Nat
  BY <1>1, FocusAssumption
<1>. QED BY <1>1, <1>2 DEF Answers

(* "unknown" is an answer.                                                 *)
LEMMA UnknownIsAnswer == 0 \in Answers
BY DEF Answers

(* While nobody runs a query, nothing of one is left.                      *)
LEMMA NothingSeen ==
  ASSUME IInv, QueryInv, \A t \in Threads : pc[t] # "asking"
  PROVE  at = "none" /\ seen = 0
BY DEF QueryInv

(* A step of a query that says nothing about the cache yet.                *)
LEMMA StayKeepsInv ==
  ASSUME QueryInv, NEW t \in Threads, pc[t] = "asking", Stays, seen' \in Answers,
         at' # "none"
  PROVE  QueryInv' /\ UNCHANGED vars
<1>1. UNCHANGED vars
  BY DEF Stays, cache, vars, lock
<1>2. Answers' = Answers
  BY <1>1 DEF vars, Answers
<1>3. pc'[t] = "asking"
  BY <1>1 DEF vars
<1>. QED BY <1>1, <1>2, <1>3 DEF QueryInv

(* A backend that returns an application it saw, or "unknown", answers as  *)
(* the cache expects or hands over to the next backend with a clean slate. *)
LEMMA ConcludeAnswers ==
  ASSUME QueryInv, NEW t \in Threads, Goes(t), NEW a \in Answers, Conclude(t, a)
  PROVE  QueryInv' /\ [SourceAnswers(t)]_vars
<1>1. pc[t] = "asking" /\ seen' = 0
  BY DEF Goes, Conclude
<1>2. CASE ~Known(Head(todo), a) /\ Len(todo) > 1 /\ Stays
  <2>1. UNCHANGED vars
    BY <1>2 DEF Stays, cache, vars, lock
  <2>2. pc'[t] = "asking"
    BY <1>1, <2>1 DEF vars
  <2>3. seen' \in Answers'
    BY <1>1 DEF Answers
  <2>. QED BY <1>1, <2>1, <2>2, <2>3 DEF QueryInv
<1>3. CASE /\ at' = "none"
           /\ pc' = [pc EXCEPT ![t] = "answered"]
           /\ local' = [local EXCEPT ![t] = IF Known(Head(todo), a) THEN a ELSE 0]
           /\ UNCHANGED <<focus, value, expired, slot, lock, panics, returned, floor, since>>
  <2>1. \E b \in Answers : local' = [local EXCEPT ![t] = b]
    <3>1. CASE Known(Head(todo), a)
      BY <1>3, <3>1
    <3>2. CASE ~Known(Head(todo), a)
      BY <1>3, <3>2, UnknownIsAnswer
    <3>. QED BY <3>1, <3>2
  <2>2. SourceAnswers(t)
    BY <1>1, <1>3, <2>1 DEF SourceAnswers
  <2>3. seen' \in Answers'
    BY <1>1 DEF Answers
  <2>. QED BY <1>1, <1>3, <2>2, <2>3 DEF QueryInv
<1>. QED BY <1>2, <1>3 DEF Conclude

(* One step of the backend of a desktop other than KDE's.                  *)
LEMMA BackendStep ==
  ASSUME IInv, QueryInv, NEW t \in Threads,
         \/ Connect(t) \/ LookInFront(t) \/ Identify(t) \/ Request(t)
         \/ ConnectWayland(t) \/ Globals(t) \/ Collect(t) \/ ReadWindows(t)
         \/ ExtensionAnswers(t) \/ ExtensionMissing(t) \/ LoadTimeout(t)
         \/ BackendFails(t) \/ PeerHangs(t) \/ PeerDies(t)
  PROVE  QueryInv' /\ [SourceAnswers(t)]_vars
<1>1. pc[t] = "asking" /\ Goes(t)
  BY DEF Connect, LookInFront, Identify, Request, ConnectWayland, Globals, Collect,
         ReadWindows, ExtensionAnswers, ExtensionMissing, LoadTimeout, BackendFails, PeerHangs, PeerDies,
         Goes
<1>2. focus \in Answers /\ 0 \in Answers /\ seen \in Answers
  BY <1>1, FocusIsAnswer, UnknownIsAnswer DEF QueryInv
<1>3. CASE \E a \in Answers : Conclude(t, a)
  BY <1>1, <1>3, ConcludeAnswers
<1>4. CASE Stays /\ seen' \in Answers /\ at' # "none"
  BY <1>1, <1>4, StayKeepsInv
<1>5. CASE Connect(t) \/ ConnectWayland(t) \/ Globals(t) \/ ExtensionMissing(t)
  <2>1. Conclude(t, 0) \/ (Stays /\ seen' = seen /\ at' \in {"front", "globals", "collect", "poll"})
    BY <1>5 DEF Connect, ConnectWayland, Globals, ExtensionMissing
  <2>. QED BY <1>2, <1>3, <1>4, <2>1
<1>6. CASE LookInFront(t)
  BY <1>2, <1>4, <1>6 DEF LookInFront
<1>7. CASE Identify(t) \/ ReadWindows(t)
  BY <1>2, <1>3, <1>7 DEF Identify, ReadWindows
<1>8. CASE Request(t) \/ ExtensionAnswers(t) \/ LoadTimeout(t) \/ BackendFails(t) \/ PeerDies(t)
  <2>1. Conclude(t, focus) \/ Conclude(t, 0)
    BY <1>8 DEF Request, ExtensionAnswers, LoadTimeout, BackendFails, PeerDies
  <2>. QED BY <1>2, <1>3, <2>1
<1>9. CASE Collect(t)
  <2>1. seen' \in Answers
    BY <1>2, <1>9 DEF Collect, Reported
  <2>. QED BY <1>4, <1>9, <2>1 DEF Collect
<1>10. CASE PeerHangs(t)
  BY <1>2, <1>4, <1>10 DEF PeerHangs
<1>. QED BY <1>5, <1>6, <1>7, <1>8, <1>9, <1>10

(* One step of the query that runs a script in KWin.                       *)
LEMMA KdeStep ==
  ASSUME IInv, QueryInv, NEW t \in Threads,
         StageScript(t) \/ CallReturns(t) \/ CallTimesOut(t) \/ WaitEnds(t)
  PROVE  QueryInv' /\ [SourceAnswers(t)]_vars
<1>1. pc[t] = "asking" /\ Goes(t)
  BY DEF StageScript, CallReturns, CallTimesOut, WaitEnds, Goes
<1>2. 0 \in Answers /\ seen \in Answers
  BY UnknownIsAnswer DEF QueryInv
<1>3. CASE \E a \in Answers : Conclude(t, a)
  BY <1>1, <1>3, ConcludeAnswers
<1>4. CASE Stays /\ seen' \in Answers /\ at' # "none"
  BY <1>1, <1>4, StayKeepsInv
<1>5. CASE StageScript(t)
  <2>1. Conclude(t, 0) \/ (Stays /\ seen' = seen /\ at' = "load")
    BY <1>5 DEF StageScript
  <2>. QED BY <1>2, <1>3, <1>4, <2>1
<1>6. ASSUME NEW ok \in BOOLEAN, Returned(t, ok) PROVE QueryInv' /\ [SourceAnswers(t)]_vars
  <2>1. \/ Conclude(t, 0) \/ Conclude(t, seen)
        \/ Stays /\ seen' = seen /\ at' \in {"run", "wait", "undo"}
    BY <1>6 DEF Returned
  <2>. QED BY <1>2, <1>3, <1>4, <2>1
<1>7. CASE CallReturns(t)
  BY <1>6, <1>7 DEF CallReturns
<1>8. CASE CallTimesOut(t)
  BY <1>6, <1>8 DEF CallTimesOut
<1>9. CASE WaitEnds(t)
  <2>1. Stays /\ at' = "unload" /\ (seen' = seen \/ seen' = 0)
    BY <1>9 DEF WaitEnds
  <2>. QED BY <1>2, <1>4, <2>1
<1>. QED BY <1>5, <1>7, <1>8, <1>9

(* A thread before and after its query.                                    *)
LEMMA AroundStep ==
  ASSUME IInv, QueryInv, NEW t \in Threads, Around(t)
  PROVE  QueryInv' /\ Next
<1>0. UNCHANGED <<seen, at>>
  BY DEF Around, query
<1>1. Next
  BY DEF Around, Next, Lookup
<1>2. pc[t] # "asking" /\ \A u \in Threads : u # t => pc'[u] = pc[u]
  BY DEF Around, KeyEvent, AcquireRead, ServeFresh, FindStale, ServeStale, Publish, ReleaseRead,
         Serve, IInv, TypeOK
<1>3. at # "none" => \E u \in Threads : pc'[u] = "asking"
  BY <1>2 DEF QueryInv
<1>4. CASE Publish(t)
  <2>1. t \in Refreshing
    BY <1>4 DEF Publish, Refreshing
  <2>2. \A u \in Threads : pc[u] # "asking"
    BY <1>2, <2>1, SlotIsExclusive
  <2>3. at = "none" /\ seen = 0
    BY <2>2, NothingSeen
  <2>4. seen' \in Answers'
    BY <1>0, <2>3 DEF Answers
  <2>. QED BY <1>0, <1>1, <2>3, <2>4 DEF QueryInv
<1>5. CASE ~Publish(t)
  <2>1. UNCHANGED <<focus, since>>
    BY <1>5 DEF Around, KeyEvent, AcquireRead, ServeFresh, FindStale, ServeStale, ReleaseRead
  <2>2. Answers' = Answers
    BY <2>1 DEF Answers
  <2>. QED BY <1>0, <1>1, <1>3, <2>2 DEF QueryInv
<1>. QED BY <1>4, <1>5

(* A thread claims the slot and its query begins, or it panics in it.      *)
LEMMA BeginOrPanicStep ==
  ASSUME IInv, QueryInv, NEW t \in Threads, BeginQuery(t) \/ QueryPanics(t)
  PROVE  QueryInv' /\ Next
<1>1. CASE BeginQuery(t)
  <2>1. ClaimSlot(t) /\ seen' = seen
    BY <1>1 DEF BeginQuery
  <2>2. \A u \in Threads : pc[u] # "asking"
    <3>1. Refreshing = {}
      BY <2>1 DEF IInv, TypeOK, Refreshing, ClaimSlot
    <3>. QED BY <3>1 DEF Refreshing
  <2>3. seen = 0
    BY <2>2, NothingSeen
  <2>4. pc'[t] = "asking"
    BY <2>1 DEF ClaimSlot, IInv, TypeOK
  <2>5. seen' \in Answers'
    BY <2>1, <2>3 DEF Answers
  <2>. QED BY <2>1, <2>3, <2>4, <2>5 DEF QueryInv, Next, Lookup
<1>2. CASE QueryPanics(t)
  <2>1. SourcePanics(t) /\ seen' = 0 /\ at' = "none"
    BY <1>2 DEF QueryPanics
  <2>2. seen' \in Answers'
    BY <2>1 DEF Answers
  <2>. QED BY <2>1, <2>2 DEF QueryInv, Next
<1>. QED BY <1>1, <1>2

(* KWin, whose script may tell the focus to a query that still runs.       *)
LEMMA KWinStep ==
  ASSUME IInv, QueryInv, KWinExecutes
  PROVE  QueryInv' /\ UNCHANGED vars
<1>1. UNCHANGED vars /\ at' = at
  BY DEF KWinExecutes, cache, vars, lock
<1>2. Answers' = Answers
  BY <1>1 DEF vars, Answers
<1>3. seen' = seen \/ (at # "none" /\ seen' = focus)
  BY DEF KWinExecutes
<1>4. seen' \in Answers /\ (at = "none" => seen' = seen)
  <2>1. CASE at # "none" /\ seen' = focus
    <3>1. PICK t \in Threads : pc[t] = "asking"
      BY <2>1 DEF QueryInv
    <3>. QED BY <2>1, <3>1, FocusIsAnswer
  <2>. QED BY <1>3, <2>1 DEF QueryInv
<1>. QED BY <1>1, <1>2, <1>4 DEF QueryInv, vars

(* The reload, the user and time.                                          *)
LEMMA ElsewhereStep ==
  ASSUME IInv, QueryInv, Elsewhere \/ Expires \/ Reloads
  PROVE  QueryInv' /\ Next
<1>1. Next /\ UNCHANGED <<seen, at>>
  BY DEF Elsewhere, Expires, Reloads, Next, query
<1>2. UNCHANGED <<pc, since>>
  BY DEF Elsewhere, Expires, Reloads, FocusChanges, WriterArrives, Expire, AcquireWrite, ReleaseWrite
<1>3. focus \in Nat /\ focus' \in {focus, focus + 1} /\ since \in Nat
  <2>1. focus \in 1 .. MaxFocus /\ since \in 0 .. MaxFocus
    BY DEF IInv, TypeOK
  <2>2. focus' \in {focus, focus + 1}
    BY DEF Elsewhere, Expires, Reloads, FocusChanges, WriterArrives, Expire, AcquireWrite, ReleaseWrite
  <2>. QED BY <2>1, <2>2, FocusAssumption
<1>4. Answers \subseteq Answers'
  BY <1>2, <1>3, FocusAssumption DEF Answers
<1>. QED BY <1>1, <1>2, <1>4 DEF QueryInv

(* Desktop files, and the GNOME shell's extension.                         *)
LEMMA SurroundingsStep ==
  ASSUME QueryInv, ExtensionLoads \/ ExtensionGoes \/ Install
  PROVE  QueryInv' /\ UNCHANGED vars
<1>1. UNCHANGED vars /\ UNCHANGED <<seen, at>>
  BY DEF ExtensionLoads, ExtensionGoes, Install, cache, vars, lock, query
<1>2. Answers' = Answers
  BY <1>1 DEF vars, Answers
<1>. QED BY <1>1, <1>2 DEF QueryInv, vars

(* Every step keeps the invariant and is a step of the cache or none.      *)
LEMMA QueryStep ==
  IInv /\ QueryInv /\ [QueryNext]_allVars => QueryInv' /\ [Next]_vars
<1>. SUFFICES ASSUME IInv, QueryInv, [QueryNext]_allVars PROVE QueryInv' /\ [Next]_vars
  OBVIOUS
<1>1. CASE UNCHANGED allVars
  BY <1>1 DEF allVars, vars, query, QueryInv, Answers
<1>2. ASSUME NEW t \in Threads, [SourceAnswers(t)]_vars PROVE [Next]_vars
  BY <1>2 DEF Next
<1>3. CASE Elsewhere \/ Expires \/ Reloads
  BY <1>3, ElsewhereStep
<1>4. ASSUME NEW t \in Threads, Works(t) \/ BackendFails(t) \/ PeerHangs(t) \/ PeerDies(t) \/ QueryPanics(t)
      PROVE  QueryInv' /\ [Next]_vars
  <2>1. CASE BeginQuery(t) \/ QueryPanics(t)
    BY <2>1, BeginOrPanicStep
  <2>2. CASE Around(t)
    BY <2>2, AroundStep
  <2>3. CASE StageScript(t) \/ CallReturns(t) \/ CallTimesOut(t) \/ WaitEnds(t)
    BY <1>2, <2>3, KdeStep
  <2>4. CASE \/ Connect(t) \/ LookInFront(t) \/ Identify(t) \/ Request(t)
             \/ ConnectWayland(t) \/ Globals(t) \/ Collect(t) \/ ReadWindows(t)
             \/ ExtensionAnswers(t) \/ ExtensionMissing(t) \/ LoadTimeout(t)
             \/ BackendFails(t) \/ PeerHangs(t) \/ PeerDies(t)
    BY <1>2, <2>4, BackendStep
  <2>. QED BY <1>4, <2>1, <2>2, <2>3, <2>4 DEF Works, Asks
<1>5. CASE KWinExecutes
  BY <1>5, KWinStep
<1>6. CASE ExtensionLoads \/ ExtensionGoes \/ Install
  BY <1>6, SurroundingsStep
<1>. QED BY <1>1, <1>3, <1>4, <1>5, <1>6 DEF QueryNext

(* Whatever backends a query goes through, and however late or wrong their *)
(* peers are, the cache answers with an application that had the focus     *)
(* while the query ran, or with "unknown" (focus.rs 36-64): the queries    *)
(* implement the one FocusCache assumes.                                   *)
THEOREM QueriesImplementCache == QuerySpec => AnswersWithTheFocus
<1>0. QueryInit => Init
  BY DEF QueryInit
<1>1. QueryInit => IInv /\ QueryInv
  BY InitIInv, UnknownIsAnswer DEF QueryInit, QueryInv
<1>2. IInv /\ QueryInv /\ [QueryNext]_allVars => (IInv /\ QueryInv)' /\ [Next]_vars
  BY QueryStep, StepIInv
<1>. QED BY <1>0, <1>1, <1>2, PTL DEF QuerySpec, AnswersWithTheFocus, Spec

(* With the queries of every platform, too, no lookup is answered with an  *)
(* application older than one an earlier lookup was answered with.         *)
THEOREM QueriesNeverGoBack == QuerySpec => []NeverGoesBack
BY QueriesImplementCache, CacheNeverGoesBack, PTL DEF AnswersWithTheFocus

-----------------------------------------------------------------------------
(* What the queries leave: the scripts of KDE's, and the names they tell   *)

KdeSteps == {"load", "run", "wait", "unload", "undo"}

\* The calls q is a sequence of.
IsQueue(q) == q \in Seq({q[i] : i \in DOMAIN q})

\* KWin has yet to unload the scripts of serial s, after its i-th call.
UnloadFollows(s, i) ==
  \E j \in DOMAIN kwin : j > i /\ kwin[j].call = "unload" /\ kwin[j].serial = s

\* The query of serial s waits for its script.
Attended(s) == at \in {"run", "wait"} /\ serial = s

\* A script that ran, or will, is attended by its query or on the list to be
\* unloaded; it has a file only while a query of KDE's runs.
ScriptInv ==
  /\ IsQueue(kwin)
  /\ staged => at \in KdeSteps
  /\ panics = 0 =>
       /\ \A i \in DOMAIN kwin :
            kwin[i].call = "run" => Attended(kwin[i].serial) \/ UnloadFollows(kwin[i].serial, i)
       /\ \A s \in scripts : s.ran => Attended(s.serial) \/ UnloadFollows(s.serial, 0)

(* Appending to a queue keeps the calls and their places.                  *)
LEMMA Appended ==
  ASSUME NEW q, IsQueue(q), NEW c
  PROVE  /\ IsQueue(Append(q, c))
         /\ Len(q) \in Nat /\ DOMAIN q = 1 .. Len(q)
         /\ DOMAIN Append(q, c) = 1 .. Len(q) + 1
         /\ \A i \in 1 .. Len(q) : Append(q, c)[i] = q[i]
         /\ Append(q, c)[Len(q) + 1] = c
<1>. DEFINE S == {q[i] : i \in DOMAIN q} \cup {c}
            r == Append(q, c)
<1>1. q \in Seq(S) /\ c \in S
  BY SeqMonotonic DEF IsQueue
<1>2. Len(q) \in Nat /\ DOMAIN q = 1 .. Len(q)
  BY <1>1, LenProperties
<1>. HIDE DEF S
<1>3. /\ r \in Seq(S) /\ Len(r) = Len(q) + 1
      /\ \A i \in 1 .. Len(q) : r[i] = q[i]
      /\ r[Len(q) + 1] = c
  BY <1>1, AppendProperties
<1>4. DOMAIN r = 1 .. Len(q) + 1 /\ r \in [1 .. Len(r) -> S] /\ Len(r) \in Nat
  BY <1>3, LenProperties
<1>5. r \in Seq({r[i] : i \in DOMAIN r})
  <2>1. \A i \in 1 .. Len(r) : r[i] \in {r[j] : j \in DOMAIN r}
    BY <1>3, <1>4
  <2>2. r \in [1 .. Len(r) -> {r[j] : j \in DOMAIN r}]
    BY <1>3, <1>4, <2>1
  <2>. QED BY <1>4, <2>2, SeqDef
<1>. QED BY <1>2, <1>3, <1>4, <1>5 DEF IsQueue

(* Taking the first call leaves the others, one place further up.          *)
LEMMA Taken ==
  ASSUME NEW q, IsQueue(q), q # << >>
  PROVE  /\ IsQueue(Tail(q))
         /\ Len(q) \in Nat \ {0} /\ DOMAIN q = 1 .. Len(q)
         /\ DOMAIN Tail(q) = 1 .. Len(q) - 1
         /\ \A i \in 1 .. Len(q) - 1 : Tail(q)[i] = q[i + 1]
         /\ Head(q) = q[1]
<1>. DEFINE S == {q[i] : i \in DOMAIN q}
            r == Tail(q)
<1>1. q \in Seq(S)
  BY DEF IsQueue
<1>2. Len(q) \in Nat /\ DOMAIN q = 1 .. Len(q)
  BY <1>1, LenProperties
<1>. HIDE DEF S
<1>3. Len(q) # 0 /\ Head(q) = q[1]
  BY <1>1, EmptySeq, HeadTailProperties
<1>4. /\ r \in Seq(S) /\ Len(r) = Len(q) - 1
      /\ \A i \in 1 .. Len(q) - 1 : r[i] = q[i + 1]
  BY <1>1, HeadTailProperties
<1>5. DOMAIN r = 1 .. Len(q) - 1 /\ r \in [1 .. Len(r) -> S] /\ Len(r) \in Nat
  BY <1>4, LenProperties
<1>6. r \in Seq({r[i] : i \in DOMAIN r})
  <2>1. \A i \in 1 .. Len(r) : r[i] \in {r[j] : j \in DOMAIN r}
    BY <1>4, <1>5
  <2>2. r \in [1 .. Len(r) -> {r[j] : j \in DOMAIN r}]
    BY <1>4, <1>5, <2>1
  <2>. QED BY <1>5, <2>2, SeqDef
<1>. QED BY <1>2, <1>3, <1>4, <1>5, <1>6 DEF IsQueue

(* Steps that ask nothing of KWin and of no query that asked it.           *)
LEMMA ScriptStays ==
  ASSUME ScriptInv, UNCHANGED <<staged, kwin, scripts, serial, panics>>,
         at' = at \/ at \notin KdeSteps
  PROVE  ScriptInv'
<1>1. CASE at' = at
  BY <1>1 DEF ScriptInv, UnloadFollows, Attended, IsQueue
<1>2. CASE at \notin KdeSteps
  <2>1. ~staged /\ \A s : ~Attended(s)
    BY <1>2 DEF ScriptInv, Attended, KdeSteps
  <2>. QED BY <2>1 DEF ScriptInv, UnloadFollows, IsQueue
<1>. QED BY <1>1, <1>2

(* The query of KDE's asks something of KWin: "run", on which it attends   *)
(* the script, or "unload", which is the end of that.                      *)
LEMMA CallStep ==
  ASSUME ScriptInv, NEW name, Call(name), at' \in KdeSteps,
         UNCHANGED <<scripts, serial, panics>>,
         name = "run" => at' = "run",
         at \in {"run", "wait"} => name = "unload"
  PROVE  ScriptInv'
<1>. DEFINE c == [call |-> name, serial |-> serial]
            n == Len(kwin)
<1>1. kwin' = Append(kwin, c)
  BY DEF Call
<1>2. /\ IsQueue(kwin)' /\ n \in Nat /\ DOMAIN kwin = 1 .. n
      /\ DOMAIN kwin' = 1 .. n + 1
      /\ \A i \in 1 .. n : kwin'[i] = kwin[i]
      /\ kwin'[n + 1] = c
  <2>1. IsQueue(kwin)
    BY DEF ScriptInv
  <2>2. /\ IsQueue(Append(kwin, c))
        /\ n \in Nat /\ DOMAIN kwin = 1 .. n
        /\ DOMAIN Append(kwin, c) = 1 .. n + 1
        /\ \A i \in 1 .. n : Append(kwin, c)[i] = kwin[i]
        /\ Append(kwin, c)[n + 1] = c
    <3>. HIDE DEF c
    <3>. QED BY <2>1, Appended, Zenon
  <2>3. IsQueue(kwin')
    BY <1>1, <2>2, Zenon
  <2>4. IsQueue(kwin)' <=> IsQueue(kwin')
    BY DEF IsQueue
  <2>. HIDE DEF n, c
  <2>. QED BY <1>1, <2>2, <2>3, <2>4, Zenon
<1>. HIDE DEF n
<1>3. ASSUME NEW i \in {0} \cup 1 .. n, NEW s, Attended(s) \/ UnloadFollows(s, i)
      PROVE  Attended(s)' \/ UnloadFollows(s, i)'
  <2>1. CASE UnloadFollows(s, i)
    BY <1>2, <2>1 DEF UnloadFollows
  <2>2. CASE Attended(s)
    <3>1. name = "unload" /\ serial = s
      BY <2>2 DEF Attended
    <3>2. n + 1 > i /\ n + 1 \in DOMAIN kwin'
      BY <1>2
    <3>. QED BY <1>2, <3>1, <3>2 DEF UnloadFollows
  <2>. QED BY <1>3, <2>1, <2>2
<1>4. ASSUME panics' = 0, NEW i \in DOMAIN kwin', kwin'[i].call = "run",
             NEW s, s = kwin'[i].serial
      PROVE  Attended(s)' \/ UnloadFollows(s, i)'
  <2>1. CASE i \in 1 .. n
    <3>1. kwin[i].call = "run" /\ kwin[i].serial = s /\ i \in DOMAIN kwin /\ panics = 0
      BY <1>2, <1>4, <2>1
    <3>2. Attended(s) \/ UnloadFollows(s, i)
      BY <3>1 DEF ScriptInv
    <3>. QED BY <1>3, <2>1, <3>2
  <2>2. CASE i = n + 1
    <3>1. name = "run" /\ s = serial
      BY <1>2, <1>4, <2>2
    <3>. QED BY <3>1 DEF Attended
  <2>. QED BY <1>2, <2>1, <2>2
<1>5. ASSUME panics' = 0, NEW s \in scripts', s.ran
      PROVE  Attended(s.serial)' \/ UnloadFollows(s.serial, 0)'
  BY <1>3, <1>5 DEF ScriptInv
<1>6. ASSUME panics' = 0, NEW i \in DOMAIN kwin', kwin'[i].call = "run"
      PROVE  (Attended(kwin[i].serial) \/ UnloadFollows(kwin[i].serial, i))'
  <2>1. \A s : s = kwin'[i].serial => Attended(s)' \/ UnloadFollows(s, i)'
    BY <1>4, <1>6
  <2>. QED BY <2>1 DEF Attended, UnloadFollows
<1>7. staged' => at' \in KdeSteps
  OBVIOUS
<1>. QED BY <1>2, <1>5, <1>6, <1>7 DEF ScriptInv

(* The query of KDE's ends, or hands over, without leaving a file.         *)
LEMMA AbandonStep ==
  ASSUME ScriptInv, at \notin {"run", "wait"} \/ panics' # 0, ~staged',
         UNCHANGED <<kwin, scripts>>, panics' = panics \/ panics' # 0
  PROVE  ScriptInv'
<1>1. panics' = 0 => panics = 0 /\ \A s : ~Attended(s)
  BY DEF Attended
<1>. QED BY <1>1 DEF ScriptInv, UnloadFollows, IsQueue

(* A backend that returns asks nothing of KWin itself.                     *)
LEMMA ConcludeLeaves ==
  ASSUME NEW t, NEW a, Conclude(t, a)
  PROVE  UNCHANGED panics
BY DEF Conclude, Stays, cache

(* Backends of other desktops have no script.                              *)
LEMMA BackendScripts ==
  ASSUME ScriptInv, NEW t \in Threads,
         \/ Connect(t) \/ LookInFront(t) \/ Identify(t) \/ Request(t)
         \/ ConnectWayland(t) \/ Globals(t) \/ Collect(t) \/ ReadWindows(t)
         \/ ExtensionAnswers(t) \/ ExtensionMissing(t) \/ LoadTimeout(t)
         \/ BackendFails(t) \/ PeerHangs(t) \/ PeerDies(t)
  PROVE  ScriptInv'
<1>1. at \notin KdeSteps /\ UNCHANGED kde
  BY DEF Connect, LookInFront, Identify, Request, ConnectWayland, Globals, Collect,
         ReadWindows, ExtensionAnswers, ExtensionMissing, LoadTimeout, BackendFails, PeerHangs,
         PeerDies, Unlimited, KdeSteps
<1>2. UNCHANGED panics
  BY ConcludeLeaves
     DEF Connect, LookInFront, Identify, Request, ConnectWayland, Globals, Collect, ReadWindows,
         ExtensionAnswers, ExtensionMissing, LoadTimeout, BackendFails, PeerHangs, PeerDies,
         Stays, cache
<1>. QED BY <1>1, <1>2, ScriptStays DEF kde

(* The steps of KDE's own query.                                           *)
LEMMA KdeScripts ==
  ASSUME ScriptInv, NEW t \in Threads,
         StageScript(t) \/ CallReturns(t) \/ CallTimesOut(t) \/ WaitEnds(t)
  PROVE  ScriptInv'
<1>1. CASE StageScript(t)
  <2>1. CASE "kde" \in live
    <3>1. /\ at = "stage" /\ at' = "load" /\ Call("load")
          /\ UNCHANGED <<scripts, serial, panics>>
      BY <1>1, <2>1 DEF StageScript, Stays, cache
    <3>. QED BY <3>1, CallStep DEF KdeSteps
  <2>2. CASE "kde" \notin live
    <3>1. at \notin KdeSteps /\ UNCHANGED kde /\ UNCHANGED panics
      BY <1>1, <2>2, ConcludeLeaves DEF StageScript, KdeSteps
    <3>. QED BY <3>1, ScriptStays DEF kde
  <2>. QED BY <2>1, <2>2
<1>2. ASSUME NEW ok, Returned(t, ok) PROVE ScriptInv'
  <2>1. CASE at = "load" /\ at' = "run" /\ Call("run") /\ UNCHANGED <<scripts, serial>> /\ Stays
    <3>1. UNCHANGED panics
      BY <2>1 DEF Stays, cache
    <3>. QED BY <2>1, <3>1, CallStep DEF KdeSteps
  <2>2. CASE /\ at = "run" /\ at' = "wait" /\ Stays
             /\ UNCHANGED <<staged, kwin, scripts, serial>>
    <3>1. UNCHANGED panics
      BY <2>2 DEF Stays, cache
    <3>. QED BY <2>2, <3>1 DEF ScriptInv, Attended, UnloadFollows, IsQueue, KdeSteps
  <2>3. CASE at = "run" /\ at' = "undo" /\ Call("unload") /\ UNCHANGED <<scripts, serial>> /\ Stays
    <3>1. UNCHANGED panics
      BY <2>3 DEF Stays, cache
    <3>. QED BY <2>3, <3>1, CallStep DEF KdeSteps
  <2>4. CASE /\ at \in {"load", "unload", "undo"} /\ UNCHANGED <<kwin, scripts>> /\ Abandon
             /\ Conclude(t, 0) \/ Conclude(t, seen)
    <3>1. UNCHANGED panics /\ ~staged'
      BY <2>4, ConcludeLeaves DEF Abandon
    <3>. QED BY <2>4, <3>1, AbandonStep
  <2>. QED BY <1>2, <2>1, <2>2, <2>3, <2>4 DEF Returned
<1>3. CASE CallReturns(t) \/ CallTimesOut(t)
  BY <1>2, <1>3 DEF CallReturns, CallTimesOut
<1>4. CASE WaitEnds(t)
  <2>1. /\ at = "wait" /\ at' = "unload" /\ Call("unload")
        /\ UNCHANGED <<scripts, serial, panics>>
    BY <1>4 DEF WaitEnds, Stays, cache
  <2>. QED BY <2>1, CallStep DEF KdeSteps
<1>. QED BY <1>1, <1>3, <1>4

(* KWin takes a call: a script that ran stays on the list to be unloaded,  *)
(* and "unload" removes it.                                                *)
LEMMA KWinScripts ==
  ASSUME ScriptInv, KWinExecutes
  PROVE  ScriptInv'
<1>. DEFINE q == Head(kwin)
            n == Len(kwin)
<1>1. kwin # << >> /\ kwin' = Tail(kwin) /\ UNCHANGED <<staged, at, serial, panics>>
  BY DEF KWinExecutes, cache
<1>2. /\ IsQueue(kwin)' /\ n \in Nat \ {0} /\ DOMAIN kwin = 1 .. n
      /\ DOMAIN kwin' = 1 .. n - 1
      /\ \A i \in 1 .. n - 1 : kwin'[i] = kwin[i + 1]
      /\ q = kwin[1]
  BY <1>1, Taken DEF ScriptInv, IsQueue
<1>3. \A s \in scripts' : s.ran =>
        \/ s \in scripts /\ (q.call = "unload" => s.serial # q.serial)
        \/ q.call = "run" /\ s.serial = q.serial
  BY DEF KWinExecutes
<1>. HIDE DEF n, q
<1>4. ASSUME NEW s, NEW i \in Nat, i + 1 >= 1, Attended(s) \/ UnloadFollows(s, i + 1)
      PROVE  Attended(s)' \/ UnloadFollows(s, i)'
  <2>1. CASE Attended(s)
    BY <1>1, <2>1 DEF Attended
  <2>2. CASE UnloadFollows(s, i + 1)
    <3>1. PICK j \in DOMAIN kwin : j > i + 1 /\ kwin[j].call = "unload" /\ kwin[j].serial = s
      BY <2>2 DEF UnloadFollows
    <3>2. j - 1 \in DOMAIN kwin' /\ j - 1 > i /\ kwin'[j - 1] = kwin[j]
      BY <1>2, <3>1
    <3>. QED BY <3>1, <3>2 DEF UnloadFollows
  <2>. QED BY <1>4, <2>1, <2>2
<1>5. ASSUME panics' = 0, NEW i \in DOMAIN kwin', kwin'[i].call = "run",
             NEW s, s = kwin'[i].serial
      PROVE  Attended(s)' \/ UnloadFollows(s, i)'
  <2>1. i \in Nat /\ i + 1 \in DOMAIN kwin /\ kwin[i + 1] = kwin'[i] /\ panics = 0
    BY <1>1, <1>2, <1>5
  <2>2. Attended(s) \/ UnloadFollows(s, i + 1)
    BY <1>5, <2>1 DEF ScriptInv
  <2>. QED BY <1>4, <2>1, <2>2
<1>6. ASSUME panics' = 0, NEW s \in scripts', s.ran
      PROVE  Attended(s.serial)' \/ UnloadFollows(s.serial, 0)'
  <2>1. panics = 0 /\ 1 \in DOMAIN kwin /\ 0 + 1 = 1
    BY <1>1, <1>2, <1>6
  <2>2. CASE s \in scripts /\ (q.call = "unload" => s.serial # q.serial)
    <3>1. Attended(s.serial) \/ UnloadFollows(s.serial, 0)
      BY <1>6, <2>1, <2>2 DEF ScriptInv
    <3>2. Attended(s.serial) \/ UnloadFollows(s.serial, 1)
      BY <1>2, <2>2, <3>1 DEF UnloadFollows
    <3>. QED BY <1>4, <2>1, <3>2
  <2>3. CASE q.call = "run" /\ s.serial = q.serial
    <3>1. Attended(s.serial) \/ UnloadFollows(s.serial, 1)
      BY <1>2, <2>1, <2>3 DEF ScriptInv
    <3>. QED BY <1>4, <2>1, <3>1
  <2>. QED BY <1>3, <1>6, <2>2, <2>3
<1>7. ASSUME panics' = 0, NEW i \in DOMAIN kwin', kwin'[i].call = "run"
      PROVE  (Attended(kwin[i].serial) \/ UnloadFollows(kwin[i].serial, i))'
  <2>1. \A s : s = kwin'[i].serial => Attended(s)' \/ UnloadFollows(s, i)'
    BY <1>5, <1>7
  <2>. QED BY <2>1 DEF Attended, UnloadFollows
<1>. QED BY <1>1, <1>2, <1>6, <1>7 DEF ScriptInv

(* Every step keeps the scripts and files accounted for.                   *)
LEMMA ScriptStep ==
  IInv /\ QueryInv /\ ScriptInv /\ [QueryNext]_allVars => ScriptInv'
<1>. SUFFICES ASSUME IInv, QueryInv, ScriptInv, [QueryNext]_allVars PROVE ScriptInv'
  OBVIOUS
<1>1. CASE UNCHANGED allVars
  BY <1>1, ScriptStays DEF allVars, vars, query, kde
<1>2. CASE Elsewhere \/ Expires \/ Reloads
  <2>1. UNCHANGED query /\ UNCHANGED kde /\ UNCHANGED panics
    BY <1>2 DEF Elsewhere, Expires, Reloads, FocusChanges, WriterArrives, Expire, AcquireWrite,
                ReleaseWrite
  <2>. QED BY <2>1, ScriptStays DEF query, kde
<1>3. ASSUME NEW t \in Threads, Works(t) \/ BackendFails(t) \/ PeerHangs(t) \/ PeerDies(t) \/ QueryPanics(t)
      PROVE  ScriptInv'
  <2>1. CASE BeginQuery(t)
    <3>1. ClaimSlot(t) /\ UNCHANGED kde
      BY <2>1 DEF BeginQuery
    <3>2. \A u \in Threads : pc[u] # "asking"
      BY <3>1, FocusAssumption DEF IInv, TypeOK, ClaimSlot
    <3>3. at \notin KdeSteps
      BY <3>2, NothingSeen DEF KdeSteps
    <3>. QED BY <3>1, <3>3, ScriptStays DEF ClaimSlot, kde
  <2>2. CASE QueryPanics(t)
    <3>1. panics' = panics + 1 /\ ~staged' /\ UNCHANGED <<kwin, scripts>>
      BY <2>2 DEF QueryPanics, SourcePanics, Abandon
    <3>2. panics' # 0
      BY <3>1, FocusAssumption DEF IInv, TypeOK
    <3>. QED BY <3>1, <3>2, AbandonStep
  <2>3. CASE Around(t)
    <3>1. UNCHANGED query /\ UNCHANGED kde /\ UNCHANGED panics
      BY <2>3 DEF Around, KeyEvent, AcquireRead, ServeFresh, FindStale, ServeStale, Publish,
                  ReleaseRead
    <3>. QED BY <3>1, ScriptStays DEF query, kde
  <2>4. CASE StageScript(t) \/ CallReturns(t) \/ CallTimesOut(t) \/ WaitEnds(t)
    BY <2>4, KdeScripts
  <2>5. CASE \/ Connect(t) \/ LookInFront(t) \/ Identify(t) \/ Request(t)
             \/ ConnectWayland(t) \/ Globals(t) \/ Collect(t) \/ ReadWindows(t)
             \/ ExtensionAnswers(t) \/ ExtensionMissing(t) \/ LoadTimeout(t)
             \/ BackendFails(t) \/ PeerHangs(t) \/ PeerDies(t)
    BY <2>5, BackendScripts
  <2>. QED BY <1>3, <2>1, <2>2, <2>3, <2>4, <2>5 DEF Works, Asks
<1>4. CASE KWinExecutes
  BY <1>4, KWinScripts
<1>5. CASE ExtensionLoads \/ ExtensionGoes \/ Install
  <2>1. UNCHANGED query /\ UNCHANGED kde /\ UNCHANGED panics
    BY <1>5 DEF ExtensionLoads, ExtensionGoes, Install, cache
  <2>. QED BY <2>1, ScriptStays DEF query, kde
<1>. QED BY <1>1, <1>2, <1>3, <1>4, <1>5 DEF QueryNext

(* The invariants of the cache and of its queries, together.               *)
LEMMA QueryInvariant == QuerySpec => [](IInv /\ QueryInv /\ ScriptInv)
<1>1. QueryInit => IInv /\ QueryInv
  BY InitIInv, UnknownIsAnswer DEF QueryInit, QueryInv
<1>2. QueryInit => ScriptInv
  <2>1. << >> \in Seq({<< >>[i] : i \in DOMAIN << >>}) /\ DOMAIN << >> = {}
    BY EmptySeq
  <2>. QED BY <2>1 DEF QueryInit, ScriptInv, IsQueue
<1>3. /\ IInv /\ QueryInv /\ ScriptInv /\ [QueryNext]_allVars
      => (IInv /\ QueryInv /\ ScriptInv)'
  BY QueryStep, StepIInv, ScriptStep
<1>. QED BY <1>1, <1>2, <1>3, PTL DEF QuerySpec

(* However late KWin executes what a query asked of it, no query leaves    *)
(* its script's file behind, and no script that ran stays loaded (kde.rs   *)
(* 309-327), a panic in the middle of a query apart.                       *)
THEOREM ScriptsAreUnloaded == QuerySpec => []NothingLeftBehind
<1>1. IInv /\ QueryInv /\ ScriptInv => NothingLeftBehind
  <2>. SUFFICES ASSUME ScriptInv PROVE NothingLeftBehind
    OBVIOUS
  <2>1. at = "none" => ~staged /\ \A s : ~Attended(s)
    BY DEF ScriptInv, KdeSteps, Attended
  <2>2. kwin = << >> => \A s : ~UnloadFollows(s, 0)
    BY DEF UnloadFollows
  <2>. QED BY <2>1, <2>2 DEF ScriptInv, NothingLeftBehind
<1>. QED BY <1>1, QueryInvariant, PTL

-----------------------------------------------------------------------------
(* Where the platform tells the process, its name is listed.               *)

\* What the windowing systems say of an application in front: the process
\* behind an X11 window has its display, a window in front has an area.
FrontIsShown ==
  \A a \in 1 .. MaxFocus :
    /\ App[a].own => App[a].gui
    /\ App[a].visible /\ App[a].area

(* Each platform lists what it calls an application that is shown.         *)
LEMMA NamesAreListed ==
  ASSUME NEW shown, NEW app \in shown
  PROVE  /\ (app.own => app.gui) /\ Cached(names) = files /\ Cached(roots) = files =>
              NamesOf("x11", app) \subseteq ListedOnLinux(files, shown)
         /\ app.visible /\ app.area =>
              NamesOf("windows", app) \subseteq ListedOnWindows(shown)
         /\ shown = {App[a] : a \in DOMAIN App} => NamesOf("macos", app) \subseteq ListedOnMac(shown)
<1>1. (app.own => app.gui) /\ Cached(names) = files /\ Cached(roots) = files =>
        NamesOf("x11", app) \subseteq ListedOnLinux(files, shown)
  BY DEF NamesOf, ListedOnLinux
<1>2. app.visible /\ app.area => NamesOf("windows", app) \subseteq ListedOnWindows(shown)
  BY DEF NamesOf, ListedOnWindows
<1>3. OwnerOf(app, shown) \subseteq ListedOnMac(shown)
  BY DEF OwnerOf, ListedOnMac
<1>4. shown = {App[a] : a \in DOMAIN App} => NamesOf("macos", app) = OwnerOf(app, shown)
  BY DEF NamesOf
<1>. QED BY <1>1, <1>2, <1>3, <1>4

(* On X11, Windows and macOS the name of the active application is one the *)
(* program lists (app_identity/mod.rs 62-66), as the applications in front *)
(* are shown and no desktop file changed since the daemon read them.       *)
THEOREM ActiveNamesAreListed ==
  ASSUME FrontIsShown, DOMAIN App = 1 .. MaxFocus
  PROVE  QuerySpec => []ActiveIsListed
<1>1. IInv => ActiveIsListed
  <2>. SUFFICES ASSUME IInv, NEW t \in Threads, local[t] # 0,
                       Cached(names) = files, Cached(roots) = files,
                       session.type \in {"x11", "windows", "macos"}
       PROVE  LET shown == {App[a] : a \in DOMAIN App}
                  list == CASE session.type = "x11" -> ListedOnLinux(files, shown)
                            [] session.type = "windows" -> ListedOnWindows(shown)
                            [] session.type = "macos" -> ListedOnMac(shown)
                            [] OTHER -> {}
              IN NamesOf(session.type, App[local[t]]) \subseteq list
    BY DEF ActiveIsListed
  <2>. DEFINE shown == {App[a] : a \in DOMAIN App}
  <2>1. local[t] \in 1 .. MaxFocus
    BY FocusAssumption DEF IInv, TypeOK
  <2>2. App[local[t]] \in shown
    BY <2>1
  <2>3. /\ NamesOf("x11", App[local[t]]) \subseteq ListedOnLinux(files, shown)
        /\ NamesOf("windows", App[local[t]]) \subseteq ListedOnWindows(shown)
        /\ NamesOf("macos", App[local[t]]) \subseteq ListedOnMac(shown)
    BY <2>1, <2>2, NamesAreListed DEF FrontIsShown
  <2>. HIDE DEF shown
  <2>4. CASE session.type = "x11"
    BY <2>3, <2>4 DEF shown
  <2>5. CASE session.type = "windows"
    BY <2>3, <2>5 DEF shown
  <2>6. CASE session.type = "macos"
    BY <2>3, <2>6 DEF shown
  <2>. QED BY <2>4, <2>5, <2>6
<1>. QED BY <1>1, QueryInvariant, PTL
=============================================================================
