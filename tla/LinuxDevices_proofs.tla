------------------------ MODULE LinuxDevices_proofs ------------------------
(***************************************************************************)
(* No keyboard is forgotten, and none that is gone stays managed unknown   *)
(* to anyone, for any number of nodes, keyboards, restarts and faults.     *)
(* The argument is about the udev socket: what the monitor has not done    *)
(* yet for a node is waiting there, a removal before what follows it.      *)
(* And what writing one action leaves down on the virtual keyboard, for    *)
(* every table and whatever writes fail.                                   *)
(***************************************************************************)
EXTENDS LinuxDevices, LinuxEmission, FiniteSetTheorems, SequenceTheorems, TLAPS

UdevEvents == {"add", "remove"} \X Nodes

\* An event is in a queue, and every removal of n in it is followed by an
\* addition.
Contains(s, ev) == \E i \in DOMAIN s : s[i] = ev

Replugged(s, n) ==
  \A i \in DOMAIN s : s[i] = <<"remove", n>> =>
    \E j \in DOMAIN s : j > i /\ s[j] = <<"add", n>>

(* What a queue contains after an event was appended.                      *)
LEMMA AppendContains ==
  ASSUME NEW s \in Seq(UdevEvents), NEW new \in UdevEvents, NEW ev
  PROVE  Contains(Append(s, new), ev) <=> Contains(s, ev) \/ new = ev
<1>1. /\ Len(s) \in Nat /\ DOMAIN s = 1 .. Len(s)
      /\ DOMAIN Append(s, new) = 1 .. (Len(s) + 1)
      /\ \A i \in 1 .. Len(s) : Append(s, new)[i] = s[i]
      /\ Append(s, new)[Len(s) + 1] = new
  OBVIOUS
<1>2. \A i \in 1 .. (Len(s) + 1) : i \in 1 .. Len(s) \/ i = Len(s) + 1
  BY <1>1
<1>3. 1 .. Len(s) \subseteq 1 .. (Len(s) + 1) /\ Len(s) + 1 \in 1 .. (Len(s) + 1)
  BY <1>1
<1>. QED BY <1>1, <1>2, <1>3 DEF Contains

(* What a queue contains before its first event was taken.                 *)
LEMMA TailContains ==
  ASSUME NEW s \in Seq(UdevEvents), s # << >>, NEW ev
  PROVE  Contains(s, ev) <=> Head(s) = ev \/ Contains(Tail(s), ev)
<1>1. /\ Len(s) \in Nat \ {0} /\ DOMAIN s = 1 .. Len(s)
      /\ DOMAIN Tail(s) = 1 .. (Len(s) - 1)
      /\ \A i \in 1 .. (Len(s) - 1) : Tail(s)[i] = s[i + 1]
      /\ Head(s) = s[1]
  OBVIOUS
<1>2. ASSUME NEW i \in 1 .. Len(s), s[i] = ev
      PROVE  Head(s) = ev \/ Contains(Tail(s), ev)
  <2>1. CASE i = 1
    BY <1>1, <1>2, <2>1
  <2>2. CASE i # 1
    <3>1. i - 1 \in 1 .. (Len(s) - 1) /\ Tail(s)[i - 1] = s[i]
      BY <1>1, <2>2
    <3>. QED BY <1>1, <1>2, <3>1 DEF Contains
  <2>. QED BY <2>1, <2>2
<1>3. ASSUME NEW i \in 1 .. (Len(s) - 1), Tail(s)[i] = ev
      PROVE  Contains(s, ev)
  <2>1. i + 1 \in 1 .. Len(s) /\ s[i + 1] = ev
    BY <1>1, <1>3
  <2>. QED BY <1>1, <2>1 DEF Contains
<1>4. Head(s) = ev => Contains(s, ev)
  <2>1. 1 \in 1 .. Len(s)
    BY <1>1
  <2>. QED BY <1>1, <2>1 DEF Contains
<1>. QED BY <1>1, <1>2, <1>3, <1>4 DEF Contains

(* An addition follows every removal; other nodes are not concerned.       *)
LEMMA AppendReplugged ==
  ASSUME NEW s \in Seq(UdevEvents), NEW new \in UdevEvents, NEW n
  PROVE  /\ new = <<"add", n>> => Replugged(Append(s, new), n)
         /\ new[2] # n /\ Replugged(s, n) => Replugged(Append(s, new), n)
<1>1. /\ Len(s) \in Nat /\ DOMAIN s = 1 .. Len(s)
      /\ DOMAIN Append(s, new) = 1 .. (Len(s) + 1)
      /\ \A i \in 1 .. Len(s) : Append(s, new)[i] = s[i]
      /\ Append(s, new)[Len(s) + 1] = new
  OBVIOUS
<1>2. \A i \in 1 .. (Len(s) + 1) : (i \in 1 .. Len(s) /\ Len(s) + 1 > i) \/ i = Len(s) + 1
  BY <1>1
<1>3. 1 .. Len(s) \subseteq 1 .. (Len(s) + 1) /\ Len(s) + 1 \in 1 .. (Len(s) + 1)
  BY <1>1
<1>4. new = <<"add", n>> => Replugged(Append(s, new), n)
  BY <1>1, <1>2, <1>3 DEF Replugged
<1>5. ASSUME new[2] # n, Replugged(s, n)
      PROVE  Replugged(Append(s, new), n)
  <2>1. new # <<"remove", n>>
    BY <1>5
  <2>. QED BY <1>1, <1>2, <1>3, <1>5, <2>1 DEF Replugged
<1>. QED BY <1>4, <1>5

(* Taking the first event leaves additions behind removals; a removal that *)
(* was in the queue leaves an addition in its tail.                        *)
LEMMA TailReplugged ==
  ASSUME NEW s \in Seq(UdevEvents), s # << >>, NEW n, Replugged(s, n)
  PROVE  /\ Replugged(Tail(s), n)
         /\ Contains(s, <<"remove", n>>) => Contains(Tail(s), <<"add", n>>)
<1>1. /\ Len(s) \in Nat \ {0} /\ DOMAIN s = 1 .. Len(s)
      /\ DOMAIN Tail(s) = 1 .. (Len(s) - 1)
      /\ \A i \in 1 .. (Len(s) - 1) : Tail(s)[i] = s[i + 1]
  OBVIOUS
<1>2. ASSUME NEW i \in 1 .. Len(s), s[i] = <<"remove", n>>
      PROVE  \E j \in 1 .. (Len(s) - 1) : j > i - 1 /\ Tail(s)[j] = <<"add", n>>
  <2>1. PICK j \in 1 .. Len(s) : j > i /\ s[j] = <<"add", n>>
    BY <1>1, <1>2 DEF Replugged
  <2>2. j - 1 \in 1 .. (Len(s) - 1) /\ j - 1 > i - 1 /\ Tail(s)[j - 1] = s[j]
    BY <1>1, <2>1
  <2>. QED BY <2>1, <2>2
<1>3. ASSUME NEW i \in 1 .. (Len(s) - 1), Tail(s)[i] = <<"remove", n>>
      PROVE  \E j \in 1 .. (Len(s) - 1) : j > i /\ Tail(s)[j] = <<"add", n>>
  <2>1. i + 1 \in 1 .. Len(s) /\ s[i + 1] = <<"remove", n>> /\ (i + 1) - 1 = i
    BY <1>1, <1>3
  <2>. QED BY <1>2, <2>1
<1>. QED BY <1>1, <1>2, <1>3 DEF Replugged, Contains

-----------------------------------------------------------------------------
(* The invariant *)

Shape ==
  /\ present \in [Nodes -> Nat]
  /\ managed \in [Nodes -> Nat]
  /\ plugs \in Nat
  /\ socket \in Seq(UdevEvents)
  /\ unheard \in BOOLEAN
  /\ adding = Idle \/ adding \in {"grabbed", "pushed"} \X Nodes \X (Nat \ {None})
  /\ adding # Idle => monitor \in {"resyncing", "polling"}
  /\ Listening \/ socket = << >>

\* A keyboard that is plugged in was announced after every removal.
RemovalsFirst == \A n \in Nodes : present[n] # None => Replugged(socket, n)

\* A node being adopted is not managed, and if its keyboard is gone by now
\* its removal is waiting; once it is pushed, it is what is managed there.
AddingAnnounced ==
  /\ adding[1] = "grabbed" =>
       /\ managed[adding[2]] = None
       /\ present[adding[2]] = adding[3] \/ unheard \/ Waiting("remove", adding[2])
  /\ adding[1] = "pushed" => managed[adding[2]] = adding[3]

IInv ==
  Shape /\ RemovalsFirst /\ AddingAnnounced /\ GoneIsAnnounced /\ NoneForgotten

(* What start_mapping grabbed is what is plugged in.                       *)
LEMMA InitIInv == Init => IInv
<1>. SUFFICES ASSUME Init PROVE IInv
  OBVIOUS
<1>1. PICK nodes \in SUBSET Nodes :
         \E f \in [nodes -> Boards] :
           /\ present = [n \in Nodes |-> IF n \in nodes THEN f[n] ELSE None]
           /\ plugs = Cardinality(nodes)
  BY DEF Init
<1>2. plugs \in Nat
  BY <1>1, DevicesAssumption, FS_Subset, FS_CardinalityType
<1>3. present \in [Nodes -> Nat]
  BY <1>1 DEF Boards, None
<1>4. << >> \in Seq(UdevEvents)
  OBVIOUS
<1>5. Shape
  BY <1>2, <1>3, <1>4 DEF Init, Shape
<1>6. AddingAnnounced
  BY DEF Init, AddingAnnounced, Idle
<1>7. RemovalsFirst
  BY DEF Init, RemovalsFirst, Replugged
<1>8. GoneIsAnnounced /\ NoneForgotten
  BY DEF Init, GoneIsAnnounced, NoneForgotten
<1>. QED BY <1>5, <1>6, <1>7, <1>8 DEF IInv

(* The event loop, and the monitor's own progress, concern no keyboard.    *)
LEMMA ProgressIInv ==
  ASSUME IInv,
         UNCHANGED <<present, plugs, managed, socket, scan, adding, unheard, lost>>,
         \/ monitor' = monitor
         \/ ~Listening /\ adding = Idle /\ monitor' \notin {"resyncing", "polling"}
         \/ monitor = "resyncing" /\ monitor' = "polling"
  PROVE  IInv'
<1>1. Shape'
  BY DEF IInv, Shape, Listening
<1>2. RemovalsFirst'
  BY DEF IInv, RemovalsFirst, Replugged
<1>3. AddingAnnounced'
  BY DEF IInv, AddingAnnounced, Waiting
<1>4. GoneIsAnnounced'
  BY DEF IInv, GoneIsAnnounced, Waiting
<1>5. NoneForgotten'
  BY DEF IInv, NoneForgotten, Waiting, Listening
<1>. QED BY <1>1, <1>2, <1>3, <1>4, <1>5 DEF IInv

(* Waiting is about the queue of the udev socket.                          *)
LEMMA WaitingInSocket ==
  \A kind, m : /\ Waiting(kind, m) <=> Contains(socket, <<kind, m>>)
               /\ Waiting(kind, m)' <=> Contains(socket', <<kind, m>>)
BY DEF Waiting, Contains

(* A keyboard that comes is announced, if anyone listens.                  *)
LEMMA PlugIInv ==
  ASSUME IInv, NEW n \in Nodes, Plug(n)
  PROVE  IInv'
<1>. DEFINE new == <<"add", n>>
<1>0. /\ present[n] = None
      /\ present' = [present EXCEPT ![n] = plugs + 1]
      /\ plugs' = plugs + 1
      /\ socket' = IF Listening THEN Append(socket, new) ELSE socket
      /\ UNCHANGED <<managed, monitor, scan, adding, lost, unheard>>
  BY DEF Plug, Announce, device
<1>1. /\ plugs + 1 \in Nat /\ plugs + 1 # None
      /\ socket \in Seq(UdevEvents) /\ new \in UdevEvents
      /\ present \in [Nodes -> Nat] /\ managed \in [Nodes -> Nat]
      /\ \A m \in Nodes : present'[m] = IF m = n THEN plugs + 1 ELSE present[m]
  BY <1>0 DEF IInv, Shape, None, UdevEvents
<1>2. socket' \in Seq(UdevEvents)
  BY <1>0, <1>1
<1>3. Shape'
  BY <1>0, <1>1, <1>2 DEF IInv, Shape, Listening
<1>4. \A kind, m : Waiting(kind, m) => Waiting(kind, m)'
  <2>1. CASE Listening
    BY <1>0, <1>1, <2>1, AppendContains, WaitingInSocket
  <2>2. CASE ~Listening
    BY <1>0, <2>2, WaitingInSocket
  <2>. QED BY <2>1, <2>2
<1>5. Listening => Waiting("add", n)'
  <2>1. Listening => Contains(socket', new)
    BY <1>0, <1>1, AppendContains
  <2>. QED BY <2>1, WaitingInSocket
<1>6. ASSUME NEW m \in Nodes, present'[m] # None PROVE Replugged(socket', m)
  <2>1. CASE ~Listening
    BY <1>0, <2>1 DEF IInv, Shape, Replugged
  <2>2. CASE Listening /\ m = n
    BY <1>0, <1>1, <2>2, AppendReplugged
  <2>3. CASE Listening /\ m # n
    <3>1. Replugged(socket, m) /\ new[2] # m
      BY <1>1, <1>6, <2>3 DEF IInv, RemovalsFirst
    <3>2. Replugged(Append(socket, new), m)
      BY <1>1, <3>1, AppendReplugged
    <3>. QED BY <1>0, <2>3, <3>2
  <2>. QED BY <2>1, <2>2, <2>3
<1>7. RemovalsFirst'
  BY <1>6 DEF RemovalsFirst
<1>8. GoneIsAnnounced'
  <2>1. ASSUME NEW m \in Nodes, managed'[m] # None, managed'[m] # present'[m], ~unheard'
        PROVE  managed[m] # present[m]
    BY <1>0, <1>1, <2>1
  <2>. QED BY <1>0, <1>4, <2>1 DEF IInv, GoneIsAnnounced
<1>9. AddingAnnounced'
  <2>1. ASSUME adding[1] = "grabbed"
        PROVE  \/ present'[adding[2]] = adding[3]
               \/ unheard
               \/ Waiting("remove", adding[2])
    <3>1. adding[2] \in Nodes /\ adding # Idle
      BY <2>1 DEF IInv, Shape, Idle
    <3>2. CASE adding[2] # n
      BY <1>1, <2>1, <3>1, <3>2 DEF IInv, AddingAnnounced
    <3>3. CASE adding[2] = n /\ present[n] # adding[3]
      BY <2>1, <3>3 DEF IInv, AddingAnnounced
    <3>4. CASE adding[2] = n /\ present[n] = adding[3]
      BY <1>0, <2>1, <3>1, <3>4 DEF IInv, Shape
    <3>. QED BY <3>2, <3>3, <3>4
  <2>. QED BY <1>0, <1>4, <2>1 DEF IInv, AddingAnnounced
<1>10. NoneForgotten'
  <2>1. ASSUME NEW m \in Nodes, monitor \in {"resyncing", "polling"}, ~unheard,
               present'[m] \notin lost, present'[m] # None, managed[m] # present'[m]
        PROVE  m \in scan \/ Waiting("add", m)' \/ adding = <<"grabbed", m, present'[m]>>
    <3>1. CASE m = n
      BY <1>5, <2>1, <3>1 DEF Listening
    <3>2. CASE m # n
      BY <1>1, <1>4, <2>1, <3>2 DEF IInv, NoneForgotten
    <3>. QED BY <3>1, <3>2
  <2>. QED BY <1>0, <2>1 DEF NoneForgotten
<1>. QED BY <1>3, <1>7, <1>8, <1>9, <1>10 DEF IInv

(* A keyboard that goes is announced, or nobody listened and that is noted.*)
LEMMA UnplugIInv ==
  ASSUME IInv, NEW n \in Nodes, Unplug(n)
  PROVE  IInv'
<1>. DEFINE new == <<"remove", n>>
<1>0. /\ present' = [present EXCEPT ![n] = None]
      /\ socket' = IF Listening THEN Append(socket, new) ELSE socket
      /\ unheard' = (unheard \/ ~Listening)
      /\ UNCHANGED <<plugs, managed, monitor, scan, adding, lost>>
  BY DEF Unplug, Announce, device
<1>1. /\ socket \in Seq(UdevEvents) /\ new \in UdevEvents
      /\ present \in [Nodes -> Nat] /\ managed \in [Nodes -> Nat]
      /\ \A m \in Nodes : present'[m] = IF m = n THEN None ELSE present[m]
  BY <1>0 DEF IInv, Shape, UdevEvents
<1>2. socket' \in Seq(UdevEvents)
  BY <1>0, <1>1
<1>3. Shape'
  <2>1. present' \in [Nodes -> Nat]
    BY <1>0, <1>1 DEF None
  <2>. QED BY <1>0, <1>2, <2>1 DEF IInv, Shape, Listening
<1>4. \A kind, m : Waiting(kind, m) => Waiting(kind, m)'
  <2>1. CASE Listening
    BY <1>0, <1>1, <2>1, AppendContains, WaitingInSocket
  <2>2. CASE ~Listening
    BY <1>0, <2>2, WaitingInSocket
  <2>. QED BY <2>1, <2>2
<1>5. unheard' \/ Waiting("remove", n)'
  <2>1. Listening => Contains(socket', new)
    BY <1>0, <1>1, AppendContains
  <2>. QED BY <1>0, <2>1, WaitingInSocket
<1>6. ASSUME NEW m \in Nodes, present'[m] # None PROVE Replugged(socket', m)
  <2>1. Replugged(socket, m) /\ new[2] # m
    BY <1>1, <1>6 DEF IInv, RemovalsFirst
  <2>2. Replugged(Append(socket, new), m)
    BY <1>1, <2>1, AppendReplugged
  <2>. QED BY <1>0, <2>1, <2>2
<1>7. RemovalsFirst'
  BY <1>6 DEF RemovalsFirst
<1>8. GoneIsAnnounced'
  <2>1. ASSUME NEW m \in Nodes, m # n, managed'[m] # None, managed'[m] # present'[m], ~unheard'
        PROVE  Waiting("remove", m)'
    BY <1>0, <1>1, <1>4, <2>1 DEF IInv, GoneIsAnnounced
  <2>. QED BY <1>5, <2>1 DEF GoneIsAnnounced
<1>9. AddingAnnounced'
  <2>1. ASSUME adding[1] = "grabbed"
        PROVE  \/ present'[adding[2]] = adding[3]
               \/ unheard'
               \/ Waiting("remove", adding[2])'
    <3>1. adding[2] \in Nodes
      BY <2>1 DEF IInv, Shape, Idle
    <3>2. CASE adding[2] # n
      BY <1>0, <1>1, <1>4, <2>1, <3>1, <3>2 DEF IInv, AddingAnnounced
    <3>3. CASE adding[2] = n
      <4>1. adding' = adding
        BY <1>0
      <4>. QED BY <1>5, <3>3, <4>1 DEF Waiting
    <3>. QED BY <3>2, <3>3
  <2>. QED BY <1>0, <2>1 DEF IInv, AddingAnnounced
<1>10. NoneForgotten'
  <2>1. ASSUME NEW m \in Nodes, monitor \in {"resyncing", "polling"}, ~unheard',
               present'[m] \notin lost, present'[m] # None, managed[m] # present'[m]
        PROVE  m \in scan \/ Waiting("add", m)' \/ adding = <<"grabbed", m, present'[m]>>
    <3>1. m # n /\ present'[m] = present[m] /\ ~unheard
      BY <1>0, <1>1, <2>1
    <3>. QED BY <1>4, <2>1, <3>1 DEF IInv, NoneForgotten
  <2>. QED BY <1>0, <2>1 DEF NoneForgotten
<1>. QED BY <1>3, <1>7, <1>8, <1>9, <1>10 DEF IInv

(* A resync has every keyboard still to look at.                           *)
LEMMA ScanIInv ==
  ASSUME IInv, Scan
  PROVE  IInv'
<1>0. /\ monitor = "listening" /\ monitor' = "resyncing"
      /\ scan' = {n \in Nodes : present[n] # None}
      /\ UNCHANGED <<present, plugs, managed, socket, adding, unheard>>
  BY DEF Scan, plugging, device
<1>1. Shape'
  BY <1>0 DEF IInv, Shape, Listening
<1>2. RemovalsFirst'
  BY <1>0 DEF IInv, RemovalsFirst, Replugged
<1>3. AddingAnnounced'
  BY <1>0 DEF IInv, AddingAnnounced, Waiting
<1>4. GoneIsAnnounced'
  BY <1>0 DEF IInv, GoneIsAnnounced, Waiting
<1>5. NoneForgotten'
  BY <1>0 DEF NoneForgotten
<1>. QED BY <1>1, <1>2, <1>3, <1>4, <1>5 DEF IInv

(* Without a resync, what no event announces is given up.                  *)
LEMMA ScanFailsIInv ==
  ASSUME IInv, ScanFails
  PROVE  IInv'
<1>0. /\ monitor = "listening" /\ monitor' = "polling"
      /\ lost' = {present[n] : n \in {m \in Nodes : /\ present[m] # None
                                                   /\ managed[m] # present[m]
                                                   /\ ~Waiting("add", m)}}
      /\ UNCHANGED <<present, plugs, managed, socket, adding, unheard>>
  BY DEF ScanFails, plugging, device
<1>1. Shape'
  BY <1>0 DEF IInv, Shape, Listening
<1>2. RemovalsFirst'
  BY <1>0 DEF IInv, RemovalsFirst, Replugged
<1>3. AddingAnnounced'
  BY <1>0 DEF IInv, AddingAnnounced, Waiting
<1>4. GoneIsAnnounced'
  BY <1>0 DEF IInv, GoneIsAnnounced, Waiting
<1>5. NoneForgotten'
  BY <1>0 DEF NoneForgotten, Waiting
<1>. QED BY <1>1, <1>2, <1>3, <1>4, <1>5 DEF IInv

(* What BeginAdd does not adopt needs nothing, or its addition still waits:*)
(* a node is skipped for a keyboard that is gone only while the removal of *)
(* that one waits, in front of the addition of the next.                   *)
LEMMA BeginAddAwaits ==
  ASSUME IInv, NEW n \in Nodes, adding = Idle, BeginAdd(n),
         ~unheard, present[n] # None, managed[n] # present[n]
  PROVE  adding' = <<"grabbed", n, present[n]>> \/ Waiting("remove", n)
<1>1. CASE managed[n] = None
  BY <1>1 DEF BeginAdd
<1>2. CASE managed[n] # None
  BY <1>2 DEF IInv, GoneIsAnnounced
<1>. QED BY <1>1, <1>2

(* The next keyboard of a resync is adopted, or needs not be.              *)
LEMMA ResyncNextIInv ==
  ASSUME IInv, NEW n \in Nodes, ResyncNext(n)
  PROVE  IInv'
<1>0. /\ monitor = "resyncing" /\ adding = Idle /\ scan' = scan \ {n} /\ BeginAdd(n)
      /\ UNCHANGED <<present, plugs, managed, socket, monitor, unheard, lost>>
  BY DEF ResyncNext, plugging, device
<1>1. /\ present \in [Nodes -> Nat] /\ socket \in Seq(UdevEvents)
      /\ adding' = Idle \/ (/\ adding' = <<"grabbed", n, present[n]>>
                            /\ present[n] # None /\ managed[n] = None)
  BY <1>0 DEF IInv, Shape, BeginAdd
<1>2. Shape'
  BY <1>0, <1>1 DEF IInv, Shape, Listening
<1>3. RemovalsFirst'
  BY <1>0 DEF IInv, RemovalsFirst, Replugged
<1>4. AddingAnnounced'
  BY <1>0, <1>1 DEF AddingAnnounced, Idle
<1>5. GoneIsAnnounced'
  BY <1>0 DEF IInv, GoneIsAnnounced, Waiting
<1>6. NoneForgotten'
  <2>1. ASSUME NEW m \in Nodes, ~unheard, present[m] \notin lost, present[m] # None,
               managed[m] # present[m]
        PROVE  m \in scan' \/ Waiting("add", m) \/ adding' = <<"grabbed", m, present[m]>>
    <3>1. CASE m # n
      <4>1. adding # <<"grabbed", m, present[m]>>
        BY <1>0 DEF Idle
      <4>. QED BY <1>0, <2>1, <3>1, <4>1 DEF IInv, NoneForgotten
    <3>2. CASE m = n
      <4>1. CASE Waiting("remove", n)
        <5>1. socket # << >> /\ Replugged(socket, n)
          BY <2>1, <3>2, <4>1 DEF IInv, RemovalsFirst, Waiting
        <5>2. Contains(Tail(socket), <<"add", n>>)
          BY <1>1, <4>1, <5>1, TailReplugged, WaitingInSocket
        <5>3. Contains(socket, <<"add", n>>)
          BY <1>1, <5>1, <5>2, TailContains
        <5>. QED BY <3>2, <5>3, WaitingInSocket
      <4>. QED BY <1>0, <2>1, <3>2, <4>1, BeginAddAwaits
    <3>. QED BY <3>1, <3>2
  <2>. QED BY <1>0, <2>1 DEF NoneForgotten, Waiting
<1>. QED BY <1>2, <1>3, <1>4, <1>5, <1>6 DEF IInv

(* The next event is an addition: its node is adopted, or needs not be.    *)
LEMMA ReceiveAddIInv ==
  ASSUME IInv, ReceiveAdd
  PROVE  IInv'
<1>. DEFINE n == Head(socket)[2]
<1>0. /\ monitor = "polling" /\ adding = Idle /\ socket # << >>
      /\ Head(socket)[1] = "add" /\ socket' = Tail(socket) /\ BeginAdd(n)
      /\ UNCHANGED <<present, plugs, managed, monitor, scan, unheard, lost>>
  BY DEF ReceiveAdd, plugging, device
<1>1. /\ socket \in Seq(UdevEvents)
      /\ n \in Nodes /\ Head(socket) = <<"add", n>>
      /\ present \in [Nodes -> Nat]
  <2>1. socket \in Seq(UdevEvents) /\ Head(socket) \in UdevEvents
    BY <1>0 DEF IInv, Shape
  <2>. QED BY <1>0, <2>1 DEF IInv, Shape, UdevEvents
<1>. HIDE DEF n
<1>2. /\ adding' = Idle \/ (/\ adding' = <<"grabbed", n, present[n]>>
                            /\ present[n] # None /\ managed[n] = None)
  BY <1>0, <1>1 DEF BeginAdd
<1>3. socket' \in Seq(UdevEvents)
  BY <1>0, <1>1
<1>4. Shape'
  BY <1>0, <1>1, <1>2, <1>3 DEF IInv, Shape, Listening
<1>5. RemovalsFirst'
  <2>1. ASSUME NEW m \in Nodes, present[m] # None PROVE Replugged(Tail(socket), m)
    BY <1>0, <1>1, <2>1, TailReplugged DEF IInv, RemovalsFirst
  <2>. QED BY <1>0, <2>1 DEF RemovalsFirst
<1>6. AddingAnnounced'
  BY <1>0, <1>1, <1>2 DEF AddingAnnounced, Idle
<1>7. ASSUME NEW kind, NEW m, <<kind, m>> # <<"add", n>>, Waiting(kind, m)
      PROVE  Waiting(kind, m)'
  <2>1. Contains(Tail(socket), <<kind, m>>)
    BY <1>0, <1>1, <1>7, TailContains, WaitingInSocket
  <2>. QED BY <1>0, <2>1, WaitingInSocket
<1>8. GoneIsAnnounced'
  <2>1. ASSUME NEW m \in Nodes, managed[m] # None, managed[m] # present[m], ~unheard
        PROVE  Waiting("remove", m)'
    <3>1. Waiting("remove", m) /\ <<"remove", m>> # <<"add", n>>
      BY <2>1 DEF IInv, GoneIsAnnounced
    <3>. QED BY <1>7, <3>1
  <2>. QED BY <1>0, <2>1 DEF GoneIsAnnounced
<1>9. NoneForgotten'
  <2>1. ASSUME NEW m \in Nodes, ~unheard, present[m] \notin lost, present[m] # None,
               managed[m] # present[m]
        PROVE  m \in scan \/ Waiting("add", m)' \/ adding' = <<"grabbed", m, present[m]>>
    <3>1. CASE m # n
      <4>1. adding # <<"grabbed", m, present[m]>>
        BY <1>0 DEF Idle
      <4>2. m \in scan \/ Waiting("add", m)
        BY <1>0, <2>1, <4>1 DEF IInv, NoneForgotten
      <4>. QED BY <1>7, <3>1, <4>2
    <3>2. CASE m = n
      <4>1. CASE Waiting("remove", n)
        <5>1. Replugged(socket, n)
          BY <1>1, <2>1, <3>2 DEF IInv, RemovalsFirst
        <5>2. Contains(Tail(socket), <<"add", n>>)
          BY <1>0, <1>1, <4>1, <5>1, TailReplugged, WaitingInSocket
        <5>. QED BY <1>0, <3>2, <5>2, WaitingInSocket
      <4>. QED BY <1>0, <1>1, <2>1, <3>2, <4>1, BeginAddAwaits
    <3>. QED BY <3>1, <3>2
  <2>. QED BY <1>0, <2>1 DEF NoneForgotten
<1>. QED BY <1>4, <1>5, <1>6, <1>8, <1>9 DEF IInv

(* A failed adoption is counted, and leaves the node unmanaged.            *)
LEMMA AddFailsIInv ==
  ASSUME IInv, AddFails \/ RegisterFails
  PROVE  IInv'
<1>0. /\ adding # Idle /\ adding' = Idle /\ lost' = lost \cup {adding[3]}
      /\ \/ adding[1] = "grabbed" /\ managed' = managed
         \/ adding[1] = "pushed" /\ managed' = [managed EXCEPT ![adding[2]] = None]
      /\ UNCHANGED <<present, plugs, socket, monitor, scan, unheard>>
  BY DEF AddFails, RegisterFails, plugging, device, Idle
<1>1. /\ managed \in [Nodes -> Nat] /\ managed' \in [Nodes -> Nat]
      /\ \A m \in Nodes : managed'[m] # None => managed'[m] = managed[m]
  BY <1>0 DEF IInv, Shape, None
<1>2. Shape'
  BY <1>0, <1>1 DEF IInv, Shape, Listening
<1>3. RemovalsFirst'
  BY <1>0 DEF IInv, RemovalsFirst, Replugged
<1>4. AddingAnnounced'
  BY <1>0 DEF AddingAnnounced, Idle
<1>5. GoneIsAnnounced'
  BY <1>0, <1>1 DEF IInv, GoneIsAnnounced, Waiting
<1>6. NoneForgotten'
  <2>1. ASSUME NEW m \in Nodes, monitor \in {"resyncing", "polling"}, ~unheard,
               present[m] \notin lost', present[m] # None, managed'[m] # present[m]
        PROVE  m \in scan \/ Waiting("add", m)
    <3>1. present[m] # adding[3] /\ present[m] \notin lost
      BY <1>0, <2>1
    <3>2. managed[m] # present[m]
      BY <1>0, <1>1, <2>1, <3>1 DEF IInv, AddingAnnounced
    <3>3. adding # <<"grabbed", m, present[m]>>
      BY <3>1
    <3>. QED BY <2>1, <3>1, <3>2, <3>3 DEF IInv, NoneForgotten
  <2>. QED BY <1>0, <2>1 DEF NoneForgotten, Waiting
<1>. QED BY <1>2, <1>3, <1>4, <1>5, <1>6 DEF IInv

(* The adopted keyboard is the one at the node, or its removal waits.      *)
LEMMA PushDeviceIInv ==
  ASSUME IInv, PushDevice
  PROVE  IInv'
<1>. DEFINE n == adding[2]
            b == adding[3]
<1>0. /\ adding[1] = "grabbed" /\ adding' = <<"pushed", n, b>>
      /\ managed' = [managed EXCEPT ![n] = b]
      /\ UNCHANGED <<present, plugs, socket, monitor, scan, unheard, lost>>
  BY DEF PushDevice, plugging
<1>1. /\ n \in Nodes /\ b \in Nat \ {None}
      /\ managed \in [Nodes -> Nat] /\ present \in [Nodes -> Nat]
      /\ adding # Idle /\ monitor \in {"resyncing", "polling"}
      /\ adding = <<"grabbed", n, b>>
  BY <1>0 DEF IInv, Shape, Idle
<1>2. /\ managed[n] = None
      /\ present[n] = b \/ unheard \/ Waiting("remove", n)
  BY <1>0 DEF IInv, AddingAnnounced
<1>. HIDE DEF n, b
<1>3. \A m \in Nodes : managed'[m] = IF m = n THEN b ELSE managed[m]
  BY <1>0, <1>1
<1>4. Shape'
  BY <1>0, <1>1 DEF IInv, Shape, Listening
<1>5. RemovalsFirst'
  BY <1>0 DEF IInv, RemovalsFirst, Replugged
<1>6. AddingAnnounced'
  BY <1>0, <1>1, <1>3 DEF AddingAnnounced
<1>7. \A kind, m : Waiting(kind, m)' <=> Waiting(kind, m)
  BY <1>0 DEF Waiting
<1>8. GoneIsAnnounced'
  BY <1>0, <1>2, <1>3, <1>7 DEF IInv, GoneIsAnnounced
<1>9. NoneForgotten'
  <2>1. ASSUME NEW m \in Nodes, ~unheard, present[m] \notin lost, present[m] # None,
               managed'[m] # present[m]
        PROVE  m \in scan \/ Waiting("add", m)
    <3>1. managed[m] # present[m] /\ adding # <<"grabbed", m, present[m]>>
      BY <1>1, <1>2, <1>3, <2>1
    <3>. QED BY <1>1, <2>1, <3>1 DEF IInv, NoneForgotten
  <2>. QED BY <1>0, <1>7, <2>1 DEF NoneForgotten
<1>. QED BY <1>4, <1>5, <1>6, <1>8, <1>9 DEF IInv

(* A removal leaves the node unmanaged; whatever is there now is announced *)
(* behind it.                                                              *)
LEMMA ReceiveRemoveIInv ==
  ASSUME IInv, ReceiveRemove
  PROVE  IInv'
<1>. DEFINE n == Head(socket)[2]
<1>0. /\ monitor = "polling" /\ adding = Idle /\ socket # << >>
      /\ Head(socket)[1] = "remove" /\ socket' = Tail(socket)
      /\ managed' = [managed EXCEPT ![n] = None]
      /\ UNCHANGED <<present, plugs, monitor, scan, adding, unheard, lost>>
  BY DEF ReceiveRemove, plugging
<1>1. /\ socket \in Seq(UdevEvents)
      /\ n \in Nodes /\ Head(socket) = <<"remove", n>>
      /\ managed \in [Nodes -> Nat]
  <2>1. socket \in Seq(UdevEvents) /\ Head(socket) \in UdevEvents
    BY <1>0 DEF IInv, Shape
  <2>. QED BY <1>0, <2>1 DEF IInv, Shape, UdevEvents
<1>. HIDE DEF n
<1>2. \A m \in Nodes : managed'[m] = IF m = n THEN None ELSE managed[m]
  BY <1>0, <1>1
<1>3. socket' \in Seq(UdevEvents) /\ managed' \in [Nodes -> Nat]
  BY <1>0, <1>1 DEF None
<1>4. Shape'
  BY <1>0, <1>3 DEF IInv, Shape, Listening
<1>5. RemovalsFirst'
  <2>1. ASSUME NEW m \in Nodes, present[m] # None PROVE Replugged(Tail(socket), m)
    BY <1>0, <1>1, <2>1, TailReplugged DEF IInv, RemovalsFirst
  <2>. QED BY <1>0, <2>1 DEF RemovalsFirst
<1>6. AddingAnnounced'
  BY <1>0 DEF AddingAnnounced, Idle
<1>7. ASSUME NEW kind, NEW m, <<kind, m>> # <<"remove", n>>, Waiting(kind, m)
      PROVE  Waiting(kind, m)'
  <2>1. Contains(Tail(socket), <<kind, m>>)
    BY <1>0, <1>1, <1>7, TailContains, WaitingInSocket
  <2>. QED BY <1>0, <2>1, WaitingInSocket
<1>8. GoneIsAnnounced'
  <2>1. ASSUME NEW m \in Nodes, managed'[m] # None, managed'[m] # present[m], ~unheard
        PROVE  Waiting("remove", m)'
    <3>1. m # n /\ Waiting("remove", m)
      BY <1>2, <2>1 DEF IInv, GoneIsAnnounced
    <3>. QED BY <1>7, <3>1
  <2>. QED BY <1>0, <2>1 DEF GoneIsAnnounced
<1>9. NoneForgotten'
  <2>1. ASSUME NEW m \in Nodes, ~unheard, present[m] \notin lost, present[m] # None,
               managed'[m] # present[m]
        PROVE  m \in scan \/ Waiting("add", m)'
    <3>1. CASE m # n
      <4>1. adding # <<"grabbed", m, present[m]>> /\ managed[m] # present[m]
        BY <1>0, <1>2, <2>1, <3>1 DEF Idle
      <4>2. m \in scan \/ Waiting("add", m)
        BY <1>0, <2>1, <4>1 DEF IInv, NoneForgotten
      <4>. QED BY <1>7, <4>2
    <3>2. CASE m = n
      <4>1. Replugged(socket, n)
        BY <1>1, <2>1, <3>2 DEF IInv, RemovalsFirst
      <4>2. Contains(socket, <<"remove", n>>)
        BY <1>0, <1>1, TailContains
      <4>3. Contains(Tail(socket), <<"add", n>>)
        BY <1>0, <1>1, <4>1, <4>2, TailReplugged
      <4>. QED BY <1>0, <3>2, <4>3, WaitingInSocket
    <3>. QED BY <3>1, <3>2
  <2>. QED BY <1>0, <2>1 DEF NoneForgotten
<1>. QED BY <1>4, <1>5, <1>6, <1>8, <1>9 DEF IInv

(* The events lost with the socket are lost removals, or are resynced.     *)
LEMMA MonitorBreaksIInv ==
  ASSUME IInv, MonitorBreaks
  PROVE  IInv'
<1>0. /\ monitor = "polling" /\ adding = Idle /\ monitor' = "down" /\ socket' = << >>
      /\ unheard' = (unheard \/ \E i \in DOMAIN socket : socket[i][1] = "remove")
      /\ UNCHANGED <<present, plugs, managed, scan, adding, lost>>
  BY DEF MonitorBreaks, plugging, device
<1>1. socket' \in Seq(UdevEvents) /\ unheard' \in BOOLEAN
  BY <1>0 DEF IInv, Shape
<1>2. Shape'
  BY <1>0, <1>1 DEF IInv, Shape, Listening
<1>3. RemovalsFirst'
  BY <1>0 DEF RemovalsFirst, Replugged
<1>4. AddingAnnounced'
  BY <1>0 DEF AddingAnnounced, Idle
<1>5. GoneIsAnnounced'
  <2>1. ASSUME NEW m \in Nodes, managed[m] # None, managed[m] # present[m]
        PROVE  unheard'
    <3>1. unheard \/ Waiting("remove", m)
      BY <2>1 DEF IInv, GoneIsAnnounced
    <3>2. Waiting("remove", m) => \E i \in DOMAIN socket : socket[i][1] = "remove"
      BY DEF Waiting
    <3>. QED BY <1>0, <3>1, <3>2
  <2>. QED BY <1>0, <2>1 DEF GoneIsAnnounced
<1>6. NoneForgotten'
  BY <1>0 DEF NoneForgotten
<1>. QED BY <1>2, <1>3, <1>4, <1>5, <1>6 DEF IInv

(* The adopted keyboard is in the epoll set.                               *)
LEMMA RegisterIInv ==
  ASSUME IInv, Register
  PROVE  IInv'
<1>0. /\ adding[1] = "pushed" /\ adding' = Idle
      /\ UNCHANGED <<present, plugs, managed, socket, monitor, scan, unheard, lost>>
  BY DEF Register, plugging
<1>1. Shape'
  BY <1>0 DEF IInv, Shape, Listening
<1>2. RemovalsFirst'
  BY <1>0 DEF IInv, RemovalsFirst, Replugged
<1>3. AddingAnnounced'
  BY <1>0 DEF AddingAnnounced, Idle
<1>4. GoneIsAnnounced'
  BY <1>0 DEF IInv, GoneIsAnnounced, Waiting
<1>5. \A n : adding # <<"grabbed", n, present[n]>>
  BY <1>0
<1>6. NoneForgotten'
  BY <1>0, <1>5 DEF IInv, NoneForgotten, Waiting
<1>. QED BY <1>1, <1>2, <1>3, <1>4, <1>6 DEF IInv

\* start_mapping spawns the monitor's thread before it enters the loop.
StartedFirst == loop = "starting" => monitor = "none"

(* Nothing but the start of the loop starts the monitor.                   *)
LEMMA MonitorStartsOnce == Spec => []StartedFirst
<1>1. Init => StartedFirst
  BY DEF Init, StartedFirst
<1>2. ASSUME StartedFirst, [Next]_vars PROVE StartedFirst'
  <2>1. CASE UNCHANGED <<loop, monitor>>
    BY <1>2, <2>1 DEF StartedFirst
  <2>2. CASE Loop \/ Signal
    <3>1. loop' # "starting"
      BY <2>2 DEF Loop, Signal, Start, Check, Wake, Process, Rest
    <3>. QED BY <3>1 DEF StartedFirst
  <2>3. CASE Monitor \/ MonitorBreaks
    <3>1. loop' = loop /\ (monitor # "none" \/ monitor' = monitor)
      BY <2>3 DEF Monitor, MonitorBreaks, Listen, Scan, ResyncDone, ReceiveAdd,
         ReceiveRemove, PushDevice, Register, ResyncNext, eventLoop
    <3>. QED BY <1>2, <3>1 DEF StartedFirst
  <2>4. ASSUME NEW n \in Nodes, Plug(n) \/ Unplug(n) \/ KeyEvent(n)
        PROVE  UNCHANGED <<loop, monitor>>
    BY <2>4 DEF Plug, Unplug, KeyEvent, eventLoop
  <2>6. CASE ScanFails
    <3>1. loop' = loop /\ monitor # "none"
      BY <2>6 DEF ScanFails, eventLoop
    <3>. QED BY <1>2, <3>1, <2>6 DEF StartedFirst, ScanFails
  <2>5. CASE AddFails \/ RegisterFails \/ UNCHANGED vars
    BY <2>1, <2>5 DEF AddFails, RegisterFails, vars, eventLoop
  <2>. QED BY <1>2, <2>1, <2>2, <2>3, <2>4, <2>5, <2>6 DEF Next
<1>. QED BY <1>1, <1>2, PTL DEF Spec

(* Every step of the environment, the loop and the monitor.                *)
LEMMA StepIInv == IInv /\ StartedFirst /\ [Next]_vars => IInv'
<1>. SUFFICES ASSUME IInv, StartedFirst, [Next]_vars PROVE IInv'
  OBVIOUS
<1>1. CASE UNCHANGED vars
  BY <1>1, ProgressIInv DEF vars, plugging, device
<1>2. ASSUME NEW n \in Nodes, Plug(n) PROVE IInv'
  BY <1>2, PlugIInv
<1>3. ASSUME NEW n \in Nodes, Unplug(n) PROVE IInv'
  BY <1>3, UnplugIInv
<1>4. ASSUME NEW n \in Nodes, KeyEvent(n) PROVE IInv'
  BY <1>4, ProgressIInv DEF KeyEvent, plugging, device
<1>5. CASE Signal
  BY <1>5, ProgressIInv DEF Signal, plugging, device
<1>6. CASE Loop
  <2>1. CASE Check
    BY <2>1, ProgressIInv DEF Check, plugging, device
  <2>2. CASE Wake
    BY <2>2, ProgressIInv DEF Wake, plugging, device
  <2>3. CASE Rest
    BY <2>3, ProgressIInv DEF Rest, plugging, device
  <2>4. ASSUME NEW b \in Boards, Process(b) PROVE IInv'
    BY <2>4, ProgressIInv DEF Process, plugging, device
  <2>5. CASE Start
    <3>1. ~Listening /\ adding = Idle /\ monitor' \notin {"resyncing", "polling"}
      BY <2>5 DEF Start, StartedFirst, Listening, IInv, Shape
    <3>. QED BY <2>5, <3>1, ProgressIInv DEF Start, plugging
  <2>. QED BY <1>6, <2>1, <2>2, <2>3, <2>4, <2>5 DEF Loop
<1>7. CASE Monitor
  <2>1. CASE Listen
    <3>1. ~Listening /\ adding = Idle /\ monitor' \notin {"resyncing", "polling"}
      BY <2>1 DEF Listen, Listening, IInv, Shape
    <3>. QED BY <2>1, <3>1, ProgressIInv DEF Listen, plugging, device
  <2>2. CASE Scan
    BY <2>2, ScanIInv
  <2>3. CASE ResyncDone
    BY <2>3, ProgressIInv DEF ResyncDone, plugging, device
  <2>4. CASE ReceiveAdd
    BY <2>4, ReceiveAddIInv
  <2>5. CASE ReceiveRemove
    BY <2>5, ReceiveRemoveIInv
  <2>6. CASE PushDevice
    BY <2>6, PushDeviceIInv
  <2>7. CASE Register
    BY <2>7, RegisterIInv
  <2>8. ASSUME NEW n \in Nodes, ResyncNext(n) PROVE IInv'
    BY <2>8, ResyncNextIInv
  <2>. QED BY <1>7, <2>1, <2>2, <2>3, <2>4, <2>5, <2>6, <2>7, <2>8 DEF Monitor
<1>8. CASE ScanFails \/ AddFails \/ RegisterFails
  BY <1>8, AddFailsIInv, ScanFailsIInv
<1>9. CASE MonitorBreaks
  BY <1>9, MonitorBreaksIInv
<1>. QED BY <1>1, <1>2, <1>3, <1>4, <1>5, <1>6, <1>7, <1>8, <1>9 DEF Next

(* The invariant holds in every behaviour, fair or not.                    *)
LEMMA InductiveInvariant == Spec => []IInv
BY InitIInv, StepIInv, MonitorStartsOnce, PTL DEF Spec

(* A keyboard that is gone stays managed only until the event of its       *)
(* removal is received, unless nobody was there to be told (hotplug.rs     *)
(* 428-467): removals are never overtaken by what replaces the keyboard.   *)
THEOREM RemovalsAreAnnounced == Spec => []GoneIsAnnounced
<1>1. IInv => GoneIsAnnounced
  BY DEF IInv
<1>. QED BY <1>1, InductiveInvariant, PTL

(* Once it polls, the monitor misses no keyboard: one that is not managed  *)
(* is still to be scanned, announced or being adopted (hotplug.rs 203-216, *)
(* 266-420), unless this monitor could not adopt that very keyboard, its   *)
(* resync failed and no event announces it, or a removal was lost.         *)
THEOREM ResyncForgetsNone == Spec => []NoneForgotten
<1>1. IInv => NoneForgotten
  BY DEF IInv
<1>. QED BY <1>1, InductiveInvariant, PTL

-----------------------------------------------------------------------------
(* One action on the virtual keyboard *)

\* What is on the output at each stage of an action.
Pressing ==
  stage = "pressing" =>
    /\ current \in Actions
    /\ FirstStage(current) = "pressing"
    /\ current.kind \in {"Hold", "Tap"} => failures = 0
    /\ failures = 0 =>
         /\ out = before \cup pressed
         /\ pressed \cup toPress = FirstPresses(current)

BaseUpDue ==
  stage = "base up" =>
    /\ current \in Actions
    /\ current.kind = "Tap"
    /\ CodesOf(current.key.usage) # {}
    /\ failures = 0
    /\ pressed = ModifierCodes(current.key.modifiers)
    /\ out = before \cup pressed \cup CodesOf(current.key.usage)

Releasing ==
  stage = "releasing" =>
    /\ current \in Actions
    /\ current.kind = "Hold" =>
         failures > 0 /\ (failures = 1 => out \subseteq before \cup toRelease)
    /\ current.kind = "Tap" /\ failures = 0 =>
         /\ CodesOf(current.key.usage) # {}
         /\ pressed = ModifierCodes(current.key.modifiers)
         /\ toRelease \subseteq pressed
         /\ out = (before \cup pressed)
                    \ (CodesOf(current.key.usage) \cup (pressed \ toRelease))
    /\ current.kind \in {"Forward", "ReleaseConsumed"} /\ failures = 0 =>
         /\ FirstPresses(current) = {}
         /\ toRelease \subseteq FirstReleases(current)
         /\ out = before \ (FirstReleases(current) \ toRelease)
    /\ current.kind # "ForwardHeld"

Returned ==
  stage = "returned" /\ current # NoAction =>
    /\ current \in Actions
    /\ current.kind = "Tap"
    /\ failures = 0 => out = before /\ CodesOf(current.key.usage) = {}

IdleReturned == current = NoAction => stage = "returned"

EmissionInv == EmissionTypeOK /\ Pressing /\ BaseUpDue /\ Releasing /\ Returned /\ IdleReturned

-----------------------------------------------------------------------------

\* The fields of an action are those of its kind.
LEMMA ActionFields ==
  ASSUME NEW a \in Actions
  PROVE  /\ a.kind \in {"Forward", "ForwardHeld", "ReleaseConsumed", "Hold", "Tap"}
         /\ a # NoAction
         /\ a.kind = "Forward" => a.code \in Keys /\ a.value \in {0, 1, 2}
         /\ a.kind = "ForwardHeld" => a.codes \subseteq Keys
         /\ a.kind = "Hold" =>
              a.key.usage \in Usages /\ a.key.modifiers \subseteq Modifiers
         /\ a.kind = "Tap" =>
              a.key.usage \in Usages /\ a.key.modifiers \subseteq Modifiers
  BY EmissionAssumption DEF Action, NoAction, NativeKey, Mask

\* No two keys of the keycode table have the usage of an output.
LEMMA OneCode ==
  ASSUME NEW u \in Usages, NEW c \in CodesOf(u)
  PROVE  CodesOf(u) = {c}
  BY EmissionAssumption, EngineAssumption DEF CodesOf, TablesArePaired

\* The codes a hold presses are those of the mask it holds.
LEMMA HoldPressesMask ==
  ASSUME NEW a \in Actions, a.kind = "Hold"
  PROVE  HoldCodes(a.key) = ModifierCodes(OutputHeldMask(a.key))
<1>1. BitOf[a.key.usage] # NoBit
  BY EmissionAssumption
<1> QED
  BY <1>1 DEF HoldCodes, ModifierCodes, OutputHeldMask

\* The first writes of an action are keys.
LEMMA FirstWritesType ==
  ASSUME NEW a \in Actions
  PROVE  FirstPresses(a) \subseteq Keys /\ FirstReleases(a) \subseteq Keys
  BY ActionFields DEF FirstPresses, FirstReleases, HoldCodes, ModifierCodes

\* A completed action none of whose writes failed has its planned effect.
LEMMA EmissionInvEffect ==
  ASSUME EmissionInv
  PROVE  EffectAsPlanned
<1> SUFFICES ASSUME Complete, failures = 0
             PROVE  out = (before \ Releases(current)) \cup Presses(current)
  BY DEF EffectAsPlanned
<1> USE DEF EmissionInv
<1>1. current \in Actions
  BY DEF Complete, EmissionTypeOK
<1>2. CASE stage = "returned"
  BY <1>1, <1>2, ActionFields DEF Returned, Complete, Releases, Presses, Toggled
<1>3. CASE stage = "releasing"
  <2>1. toRelease = {} /\ current.kind \in {"Forward", "ReleaseConsumed", "Tap"}
    BY <1>1, <1>3, ActionFields DEF Complete, Releasing
  <2>2. CASE current.kind = "Tap"
    BY <1>1, <1>3, <2>1, <2>2 DEF Releasing, Releases, Presses, Toggled
  <2>3. CASE current.kind = "Forward"
    BY <1>1, <1>3, <2>1, <2>3, ActionFields
       DEF Releasing, Releases, Presses, FirstPresses, FirstReleases
  <2>4. CASE current.kind = "ReleaseConsumed"
    BY <1>1, <1>3, <2>1, <2>4 DEF Releasing, Releases, Presses, FirstReleases
  <2> QED
    BY <2>1, <2>2, <2>3, <2>4
<1>4. CASE stage = "pressing"
  <2>1. out = before \cup FirstPresses(current)
    BY <1>4 DEF Complete, Pressing
  <2>1a. current.kind # "ReleaseConsumed"
    BY <1>4 DEF Pressing, FirstStage, FirstPresses
  <2>1b. current.kind \in {"Forward", "ForwardHeld", "Hold"}
    BY <1>1, <1>4, <2>1a, ActionFields DEF Complete
  <2>2. CASE current.kind = "Hold"
    BY <1>1, <2>1, <2>2, HoldPressesMask DEF Releases, Presses, FirstPresses
  <2>3. CASE current.kind = "ForwardHeld"
    BY <2>1, <2>3 DEF Releases, Presses, FirstPresses
  <2>4. CASE current.kind = "Forward"
    <3>1. current.value = 1
      BY <1>4, <2>4 DEF Pressing, FirstStage, FirstPresses
    <3> QED
      BY <2>1, <2>4, <3>1 DEF Releases, Presses, FirstPresses
  <2> QED
    BY <2>1b, <2>2, <2>3, <2>4
<1> QED
  BY <1>2, <1>3, <1>4 DEF Complete

\* The other promises follow from the invariant as well.
LEMMA EmissionInvFailures ==
  ASSUME EmissionInv
  PROVE  ChordComplete /\ FailedHoldReleases
<1> USE DEF EmissionInv
<1>1. ChordComplete
  BY DEF ChordComplete, BaseUpDue
<1>2. FailedHoldReleases
  BY DEF FailedHoldReleases, Complete, Pressing, Releasing, Returned
<1> QED
  BY <1>1, <1>2

-----------------------------------------------------------------------------

\* The virtual keyboard starts with nothing down and nothing to do.
LEMMA InitEmissionInv == EmissionInit => EmissionInv
  BY ActionFields, EmissionAssumption
     DEF EmissionInit, EmissionInv, EmissionTypeOK, Pressing, BaseUpDue, Releasing, Returned,
         IdleReturned

\* Taking up an action establishes the invariant of its first stage.
LEMMA BeginEmissionInv ==
  ASSUME EmissionInv, NEW a \in Actions, Begin(a)
  PROVE  EmissionInv'
<1> USE DEF EmissionInv, Begin
<1>1. /\ current' = a /\ a # NoAction /\ failures' = 0 /\ pressed' = {}
      /\ toPress' = FirstPresses(a) /\ toRelease' = FirstReleases(a)
      /\ before' = out /\ out' = out /\ stage' = FirstStage(a)
  BY ActionFields
<1>2. EmissionTypeOK'
  <2>1. FirstPresses(a) \subseteq Keys /\ FirstReleases(a) \subseteq Keys
    BY FirstWritesType
  <2>2. FirstStage(a) \in {"pressing", "releasing", "returned"}
    BY DEF FirstStage
  <2>3. 0 \in 0 .. MaxFailures
    BY EmissionAssumption
  <2> QED
    BY <1>1, <2>1, <2>2, <2>3 DEF EmissionTypeOK
<1>3. Pressing'
  BY <1>1, ActionFields DEF Pressing
<1>4. BaseUpDue'
  BY <1>1 DEF BaseUpDue, FirstStage
<1>5. Releasing'
  BY <1>1, ActionFields DEF Releasing, FirstStage
<1>6. Returned'
  BY <1>1 DEF Returned, FirstStage
<1>7. IdleReturned'
  BY <1>1 DEF IdleReturned
<1> QED
  BY <1>2, <1>3, <1>4, <1>5, <1>6, <1>7

\* Every write, successful or failed, keeps the invariant.
LEMMA StepEmissionInv ==
  ASSUME EmissionInv, [EmissionNext]_emissionVars
  PROVE  EmissionInv'
<1> USE DEF EmissionInv
<1>0. current \in Actions \/ stage = "returned"
  BY DEF IdleReturned, EmissionTypeOK
<1>1. ASSUME NEW a \in Actions, Begin(a) PROVE EmissionInv'
  BY <1>1, BeginEmissionInv
<1>2. ASSUME NEW c \in Keys, Press(c) PROVE EmissionInv'
  BY <1>0, <1>2, EmissionAssumption
     DEF Press, EmissionTypeOK, Pressing, BaseUpDue, Releasing, Returned, IdleReturned
<1>3. ASSUME NEW c \in Keys, ForwardedPressFails(c) PROVE EmissionInv'
  BY <1>0, <1>3, EmissionAssumption
     DEF ForwardedPressFails, WriteFails, EmissionTypeOK, Pressing, BaseUpDue,
         Releasing, Returned, IdleReturned
<1>4. ASSUME NEW c \in Keys, HoldPressFails(c) PROVE EmissionInv'
  BY <1>0, <1>4, EmissionAssumption
     DEF HoldPressFails, WriteFails, EmissionTypeOK, Pressing, BaseUpDue,
         Releasing, Returned, IdleReturned
<1>5. ASSUME NEW c \in Keys, TapPressFails(c) PROVE EmissionInv'
  BY <1>0, <1>5, EmissionAssumption
     DEF TapPressFails, WriteFails, EmissionTypeOK, Pressing, BaseUpDue,
         Releasing, Returned, IdleReturned
<1>6. ASSUME NEW c \in Keys, Release(c) PROVE EmissionInv'
  BY <1>0, <1>6, EmissionAssumption
     DEF Release, EmissionTypeOK, Pressing, BaseUpDue, Releasing, Returned, IdleReturned
<1>7. ASSUME NEW c \in Keys, ReleaseFails(c) PROVE EmissionInv'
  BY <1>0, <1>7, EmissionAssumption
     DEF ReleaseFails, WriteFails, EmissionTypeOK, Pressing, BaseUpDue, Releasing,
         Returned, IdleReturned
<1>8. ASSUME BaseDown PROVE EmissionInv'
  <2>1. PICK c \in CodesOf(current.key.usage) : out' = out \cup {c}
    BY <1>8 DEF BaseDown
  <2>2. /\ current \in Actions /\ current.kind = "Tap" /\ failures = 0
        /\ CodesOf(current.key.usage) # {}
        /\ pressed = ModifierCodes(current.key.modifiers)
        /\ out = before \cup pressed
    BY <1>8, <2>1 DEF BaseDown, Pressing, FirstPresses
  <2>3. CodesOf(current.key.usage) = {c} /\ c \in Keys
    BY <2>1, <2>2, OneCode, ActionFields DEF CodesOf
  <2> QED
    BY <1>8, <2>1, <2>2, <2>3
       DEF BaseDown, EmissionTypeOK, Pressing, BaseUpDue, Releasing, Returned, IdleReturned
<1>9. ASSUME BaseUp PROVE EmissionInv'
  <2>1. PICK c \in CodesOf(current.key.usage) : out' = out \ {c}
    BY <1>9 DEF BaseUp
  <2>2. CodesOf(current.key.usage) = {c} /\ c \in Keys
    BY <1>9, <2>1, OneCode, ActionFields DEF CodesOf, BaseUp, BaseUpDue
  <2> QED
    BY <1>9, <2>1, <2>2
       DEF BaseUp, EmissionTypeOK, Pressing, BaseUpDue, Releasing, Returned, IdleReturned
<1>10. ASSUME BaseWriteFails PROVE EmissionInv'
  <2>1. (stage = "pressing" /\ current.kind = "Tap") \/ stage = "base up"
    BY <1>10 DEF BaseWriteFails
  <2>2. current \in Actions /\ current.kind = "Tap"
    BY <2>1 DEF Pressing, BaseUpDue
  <2>3. current # NoAction
    BY <2>2, ActionFields
  <2>4. /\ stage' = "returned" /\ current' = current /\ out' = out
        /\ toPress' = toPress /\ toRelease' = toRelease
        /\ pressed' = pressed /\ before' = before
        /\ failures' = failures + 1 /\ failures < MaxFailures
    BY <1>10 DEF BaseWriteFails, WriteFails
  <2>5. failures \in 0 .. MaxFailures /\ MaxFailures \in Nat
    BY EmissionAssumption DEF EmissionTypeOK
  <2>6. failures' \in 0 .. MaxFailures /\ failures' # 0
    BY <2>4, <2>5
  <2>7. EmissionTypeOK'
    BY <2>4, <2>6 DEF EmissionTypeOK
  <2> QED
    BY <2>2, <2>3, <2>4, <2>6, <2>7
       DEF Pressing, BaseUpDue, Releasing, Returned, IdleReturned
<1>11. ASSUME Return PROVE EmissionInv'
  BY <1>11 DEF Return, EmissionTypeOK, Pressing, BaseUpDue, Releasing, Returned, IdleReturned
<1>12. ASSUME UNCHANGED emissionVars PROVE EmissionInv'
  BY <1>12
     DEF emissionVars, EmissionTypeOK, Pressing, BaseUpDue, Releasing, Returned, IdleReturned
<1> QED
  BY <1>1, <1>2, <1>3, <1>4, <1>5, <1>6, <1>7, <1>8, <1>9, <1>10, <1>11, <1>12
     DEF EmissionNext

\* The invariant holds in every behaviour.
LEMMA EmissionInvariant == EmissionSpec => []EmissionInv
  BY InitEmissionInv, StepEmissionInv, PTL DEF EmissionSpec

\* The emission functions keep their types: device.rs 114-178, 334-430, 857-880.
THEOREM EmissionTypeCorrect == EmissionSpec => []EmissionTypeOK
<1>1. EmissionInv => EmissionTypeOK
  BY DEF EmissionInv
<1> QED
  BY <1>1, EmissionInvariant, PTL

\* An action of which no write failed has exactly the effect Presses and
\* Releases state, whatever was down before (device.rs 114-430, 857-880).
THEOREM EffectIsAsPlanned == EmissionSpec => []EffectAsPlanned
  BY EmissionInvEffect, EmissionInvariant, PTL

\* The base key of a tap is down only with its whole chord, whichever write
\* failed before (device.rs 153-172).
THEOREM ChordIsComplete == EmissionSpec => []ChordComplete
  BY EmissionInvFailures, EmissionInvariant, PTL

\* A hold that failed on one write leaves nothing down (device.rs 334-383).
THEOREM FailedHoldLeavesNothing == EmissionSpec => []FailedHoldReleases
  BY EmissionInvFailures, EmissionInvariant, PTL

=============================================================================
