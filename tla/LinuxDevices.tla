---------------------------- MODULE LinuxDevices ----------------------------
(***************************************************************************)
(* Which keyboards the daemon manages on Linux, and when their events are  *)
(* read: the start-up snapshot, the hot-plug monitor with its supervisor   *)
(* and its resync (hotplug.rs), and the epoll loop that reads whatever     *)
(* became readable (mod.rs, epoll.rs, device.rs).  What the events mean is *)
(* in LinuxRemap.                                                          *)
(*                                                                         *)
(* Keyboards are numbered in the order they are plugged in; a device node  *)
(* can be given to one after the other.  A number also stands for the file *)
(* descriptor of the keyboard the daemon has opened.                       *)
(***************************************************************************)
EXTENDS Naturals, Sequences, FiniteSets

CONSTANTS
  Nodes,
  MaxPlugs,     \* bound: keyboards plugged in, first ones included
  MaxUnread,    \* bound: events waiting in one keyboard's ring
  MaxRestarts,  \* bound: failures of the monitor
  MaxFaults,    \* bound: failed resyncs; keyboards not opened, grabbed or registered
  Batch         \* the events one fetch_events returns at most

ASSUME DevicesAssumption ==
  /\ IsFiniteSet(Nodes)
  /\ {MaxPlugs, MaxUnread, MaxRestarts, MaxFaults} \subseteq Nat
  /\ Batch \in Nat \ {0}

Boards == 1 .. MaxPlugs
None == 0

VARIABLES
  present,     \* [Nodes -> Boards \cup {None}], what is plugged in
  plugs,       \* keyboards plugged in so far
  unread,      \* [Boards -> events in the ring of the opened keyboard]
  managed,     \* [Nodes -> Boards \cup {None}], managed_devices by path
  registered,  \* keyboards in the epoll set
  ready,       \* keyboards with an edge epoll_wait has not reported
  woken,       \* reported keyboards the loop has still to process
  loop,        \* "starting", "checking", "waiting", "working" or "stopped"
  shutdown,
  monitor,     \* "none", "down", "listening", "resyncing" or "polling"
  socket,      \* Seq(<<kind, node>>), udev events not received yet
  scan,        \* nodes the resync has still to handle
  adding,      \* handle_device_add in progress: <<stage, node, keyboard>>
  restarts,
  faults,
  lost,        \* history: keyboards given up, or not seen by a resync that failed
  unheard,     \* history: a removal no monitor was told of
  crowded      \* history: a read that left events in the ring

plugging == <<present, plugs>>
eventLoop == <<ready, woken, loop, shutdown, unread, crowded>>
device == <<managed, registered>>
vars == <<plugging, eventLoop, device, monitor, socket, scan, adding, restarts,
          faults, lost, unheard>>

Managed == {managed[n] : n \in Nodes} \ {None}

Idle == <<"idle", None, None>>

Listening == monitor \in {"listening", "resyncing", "polling"}

\* start_mapping has opened and grabbed what is plugged in.
Init ==
  /\ \E nodes \in SUBSET Nodes :
       \E f \in [nodes -> Boards] :
         /\ {f[n] : n \in nodes} = 1 .. Cardinality(nodes)
         /\ present = [n \in Nodes |-> IF n \in nodes THEN f[n] ELSE None]
         /\ plugs = Cardinality(nodes)
  /\ unread = [b \in Boards |-> 0]
  /\ managed = present
  /\ registered = {}
  /\ ready = {}
  /\ woken = {}
  /\ loop = "starting"
  /\ shutdown = FALSE
  /\ monitor = "none"
  /\ socket = << >>
  /\ scan = {}
  /\ adding = Idle
  /\ restarts = 0
  /\ faults = 0
  /\ lost = {}
  /\ unheard = FALSE
  /\ crowded = FALSE

-----------------------------------------------------------------------------
(* The environment *)

Announce(kind, n) == socket' = IF Listening THEN Append(socket, <<kind, n>>) ELSE socket

Plug(n) ==
  /\ present[n] = None
  /\ plugs < MaxPlugs
  /\ plugs' = plugs + 1
  /\ present' = [present EXCEPT ![n] = plugs + 1]
  /\ Announce("add", n)
  /\ UNCHANGED <<eventLoop, device, monitor, scan, adding, restarts, faults, lost, unheard>>

\* A reader of the descriptor is woken, and finds nothing but an error.
Unplug(n) ==
  /\ present[n] # None
  /\ present' = [present EXCEPT ![n] = None]
  /\ unread' = [unread EXCEPT ![present[n]] = 0]
  /\ ready' = ready \cup (registered \cap {present[n]})
  /\ unheard' = (unheard \/ ~Listening)
  /\ Announce("remove", n)
  /\ UNCHANGED <<plugs, device, woken, loop, shutdown, crowded, monitor, scan, adding,
                 restarts, faults, lost>>

\* Every event of a registered keyboard is an edge.
KeyEvent(n) ==
  LET b == present[n] IN
    /\ b # None
    /\ b \in Managed
    /\ unread[b] < MaxUnread
    /\ unread' = [unread EXCEPT ![b] = @ + 1]
    /\ ready' = ready \cup (registered \cap {b})
    /\ UNCHANGED <<plugging, device, woken, loop, shutdown, crowded, monitor, socket,
                   scan, adding, restarts, faults, lost, unheard>>

\* SIGINT or SIGTERM: the handler sets the flag and interrupts epoll_wait.
Signal ==
  /\ loop # "starting"
  /\ ~shutdown
  /\ shutdown' = TRUE
  /\ loop' = IF loop = "waiting" THEN "checking" ELSE loop
  /\ UNCHANGED <<plugging, device, unread, ready, woken, crowded, monitor, socket, scan,
                 adding, restarts, faults, lost, unheard>>

-----------------------------------------------------------------------------
(* The event loop *)

HasEdge(b) == unread[b] > 0 \/ b \notin {present[n] : n \in Nodes}

\* epoll_add reports what is readable already.
Start ==
  /\ loop = "starting"
  /\ registered' = Managed
  /\ ready' = {b \in Managed : HasEdge(b)}
  /\ loop' = "checking"
  /\ monitor' = "down"
  /\ UNCHANGED <<plugging, managed, unread, woken, shutdown, crowded, socket, scan, adding,
                 restarts, faults, lost, unheard>>

Check ==
  /\ loop = "checking"
  /\ loop' = IF shutdown THEN "stopped" ELSE "waiting"
  /\ UNCHANGED <<plugging, device, unread, ready, woken, shutdown, crowded, monitor, socket,
                 scan, adding, restarts, faults, lost, unheard>>

\* Mutant: one keyboard is served, whatever epoll_wait has reported.
WakeServesOne ==
  /\ loop = "waiting"
  /\ \E b \in ready : woken' = {b}
  /\ ready' = {}
  /\ loop' = "working"
  /\ UNCHANGED <<plugging, device, unread, shutdown, crowded, monitor, socket, scan, adding,
                 restarts, faults, lost, unheard>>

Wake ==
  /\ loop = "waiting"
  /\ ready # {}
  /\ woken' = ready
  /\ ready' = {}
  /\ loop' = "working"
  /\ UNCHANGED <<plugging, device, unread, shutdown, crowded, monitor, socket, scan, adding,
                 restarts, faults, lost, unheard>>

\* One fetch_events of a keyboard that is still managed, then the emission
\* of what was decided: new events find the loop busy until Rest.
Process(b) ==
  /\ loop = "working"
  /\ b \in woken
  /\ woken' = woken \ {b}
  /\ IF b \in Managed
     THEN /\ unread' = [unread EXCEPT ![b] = IF @ > Batch THEN @ - Batch ELSE 0]
          /\ crowded' = (crowded \/ unread[b] > Batch)
     ELSE UNCHANGED <<unread, crowded>>
  /\ UNCHANGED <<plugging, device, ready, loop, shutdown, monitor, socket, scan, adding,
                 restarts, faults, lost, unheard>>

Rest ==
  /\ loop = "working"
  /\ woken = {}
  /\ loop' = "checking"
  /\ UNCHANGED <<plugging, device, unread, ready, woken, shutdown, crowded, monitor, socket,
                 scan, adding, restarts, faults, lost, unheard>>

-----------------------------------------------------------------------------
(* The hot-plug monitor *)

\* supervise_hotplug, and run_hotplug_monitor up to listen().
Listen ==
  /\ monitor = "down"
  /\ ~shutdown
  /\ monitor' = "listening"
  /\ UNCHANGED <<plugging, eventLoop, device, socket, scan, adding, restarts, faults, lost, unheard>>

\* Mutant: no resync after listen().
ScanNothing ==
  /\ monitor = "listening"
  /\ scan' = {}
  /\ lost' = {}
  /\ monitor' = "resyncing"
  /\ UNCHANGED <<plugging, eventLoop, device, socket, adding, restarts, faults, unheard>>

\* resync_devices: the keyboards udev knows, those given up before included.
Scan ==
  /\ monitor = "listening"
  /\ scan' = {n \in Nodes : present[n] # None}
  /\ lost' = {}
  /\ monitor' = "resyncing"
  /\ UNCHANGED <<plugging, eventLoop, device, socket, adding, restarts, faults, unheard>>

Waiting(kind, n) == \E i \in DOMAIN socket : socket[i] = <<kind, n>>

\* The enumerator cannot be made, set up or run: the monitor goes on without
\* a resync, and what no event will announce is not adopted.
ScanFails ==
  /\ monitor = "listening"
  /\ faults < MaxFaults
  /\ faults' = faults + 1
  /\ lost' = {present[n] : n \in {m \in Nodes : /\ present[m] # None
                                               /\ managed[m] # present[m]
                                               /\ ~Waiting("add", m)}}
  /\ scan' = {}
  /\ monitor' = "polling"
  /\ UNCHANGED <<plugging, eventLoop, device, socket, adding, restarts, unheard>>

\* handle_device_add up to the grab: the node is opened as it is now, and
\* skipped when its path is managed.
BeginAdd(n) ==
  adding' = IF present[n] = None \/ managed[n] # None THEN Idle
            ELSE <<"grabbed", n, present[n]>>

ResyncNext(n) ==
  /\ monitor = "resyncing"
  /\ adding = Idle
  /\ n \in scan
  /\ scan' = scan \ {n}
  /\ BeginAdd(n)
  /\ UNCHANGED <<plugging, eventLoop, device, monitor, socket, restarts, faults, lost, unheard>>

ResyncDone ==
  /\ monitor = "resyncing"
  /\ adding = Idle
  /\ scan = {}
  /\ monitor' = "polling"
  /\ UNCHANGED <<plugging, eventLoop, device, socket, scan, adding, restarts, faults, lost, unheard>>

ReceiveAdd ==
  /\ monitor = "polling"
  /\ adding = Idle
  /\ socket # << >>
  /\ Head(socket)[1] = "add"
  /\ socket' = Tail(socket)
  /\ BeginAdd(Head(socket)[2])
  /\ UNCHANGED <<plugging, eventLoop, device, monitor, scan, restarts, faults, lost, unheard>>

\* The keyboard cannot be opened or grabbed: it is given up.
AddFails ==
  /\ adding[1] = "grabbed"
  /\ faults < MaxFaults
  /\ faults' = faults + 1
  /\ lost' = lost \cup {adding[3]}
  /\ adding' = Idle
  /\ UNCHANGED <<plugging, eventLoop, device, monitor, socket, scan, restarts, unheard>>

\* Drained, and through the release window.
PushDevice ==
  /\ adding[1] = "grabbed"
  /\ managed' = [managed EXCEPT ![adding[2]] = adding[3]]
  /\ adding' = <<"pushed", adding[2], adding[3]>>
  /\ UNCHANGED <<plugging, eventLoop, registered, monitor, socket, scan, restarts, faults,
                 lost, unheard>>

\* epoll_add fails: the keyboard is taken out again.
RegisterFails ==
  /\ adding[1] = "pushed"
  /\ faults < MaxFaults
  /\ faults' = faults + 1
  /\ lost' = lost \cup {adding[3]}
  /\ managed' = [managed EXCEPT ![adding[2]] = None]
  /\ unread' = [unread EXCEPT ![adding[3]] = 0]
  /\ adding' = Idle
  /\ UNCHANGED <<plugging, registered, ready, woken, loop, shutdown, crowded, monitor, socket,
                 scan, restarts, unheard>>

Register ==
  /\ adding[1] = "pushed"
  /\ registered' = registered \cup {adding[3]}
  /\ ready' = IF HasEdge(adding[3]) THEN ready \cup {adding[3]} ELSE ready
  /\ adding' = Idle
  /\ UNCHANGED <<plugging, managed, unread, woken, loop, shutdown, crowded, monitor, socket,
                 scan, restarts, faults, lost, unheard>>

\* Mutant: a removal is ignored while the node exists.
ReceiveRemoveIfGone ==
  /\ monitor = "polling"
  /\ adding = Idle
  /\ socket # << >>
  /\ Head(socket)[1] = "remove"
  /\ socket' = Tail(socket)
  /\ LET n == Head(socket)[2]
         gone == IF present[n] = None THEN managed[n] ELSE None
     IN
       /\ managed' = [managed EXCEPT ![n] = IF @ = gone THEN None ELSE @]
       /\ registered' = registered \ {gone}
       /\ ready' = ready \ {gone}
       /\ unread' = [b \in Boards |-> IF b = gone THEN 0 ELSE unread[b]]
  /\ UNCHANGED <<plugging, woken, loop, shutdown, crowded, monitor, scan, adding, restarts,
                 faults, lost, unheard>>

\* handle_device_remove: by path, whichever keyboard is managed there.
ReceiveRemove ==
  /\ monitor = "polling"
  /\ adding = Idle
  /\ socket # << >>
  /\ Head(socket)[1] = "remove"
  /\ socket' = Tail(socket)
  /\ LET n == Head(socket)[2] IN
       /\ managed' = [managed EXCEPT ![n] = None]
       /\ registered' = registered \ {managed[n]}
       /\ ready' = ready \ {managed[n]}
       /\ unread' = [b \in Boards |-> IF b = managed[n] THEN 0 ELSE unread[b]]
  /\ UNCHANGED <<plugging, woken, loop, shutdown, crowded, monitor, scan, adding, restarts,
                 faults, lost, unheard>>

\* poll fails, or the socket reports an error; its events are lost with it.
MonitorBreaks ==
  /\ monitor = "polling"
  /\ adding = Idle
  /\ restarts < MaxRestarts
  /\ restarts' = restarts + 1
  /\ monitor' = "down"
  /\ socket' = << >>
  /\ unheard' = (unheard \/ \E i \in DOMAIN socket : socket[i][1] = "remove")
  /\ UNCHANGED <<plugging, eventLoop, device, scan, adding, faults, lost>>

Loop == Start \/ Check \/ Wake \/ Rest \/ \E b \in Boards : Process(b)

Monitor ==
  \/ Listen \/ Scan \/ ResyncDone \/ ReceiveAdd \/ ReceiveRemove \/ PushDevice \/ Register
  \/ \E n \in Nodes : ResyncNext(n)

\* The process runs until the loop has stopped.
Next ==
  \/ \E n \in Nodes : Plug(n) \/ Unplug(n)
  \/ /\ loop # "stopped"
     /\ \/ \E n \in Nodes : KeyEvent(n)
        \/ Signal
        \/ Loop
        \/ Monitor
        \/ ScanFails
        \/ AddFails
        \/ RegisterFails
        \/ MonitorBreaks

Spec == Init /\ [][Next]_vars

\* Both threads are scheduled, and udev lets the monitor listen again.
FairSpec ==
  Spec /\ WF_vars(loop # "stopped" /\ Loop) /\ WF_vars(loop # "stopped" /\ Monitor)

-----------------------------------------------------------------------------
(* Properties *)

(* What epoll reports is managed, and once an adoption is over everything  *)
(* managed is in the epoll set: no keyboard is grabbed and never read.     *)
TypeOK ==
  /\ present \in [Nodes -> Boards \cup {None}]
  /\ managed \in [Nodes -> Boards \cup {None}]
  /\ unread \in [Boards -> 0 .. MaxUnread]
  /\ ready \subseteq registered
  /\ registered \subseteq Managed
  /\ loop # "starting" /\ adding = Idle => Managed \subseteq registered

(* A keyboard that is gone is managed only while the event of its removal  *)
(* is still to be received, or if no monitor was there to be told.         *)
GoneIsAnnounced ==
  \A n \in Nodes :
    managed[n] # None /\ managed[n] # present[n] /\ ~unheard => Waiting("remove", n)

(* "keyboards that appeared while the monitor was down are adopted anyway" *)
(* (hotplug.rs:72-74): from the resync on, a keyboard that is not managed  *)
(* is about to be, also one that an earlier monitor gave up.  Excepted are *)
(* those this monitor failed to open, those only its resync could have     *)
(* found when the resync failed (hotplug.rs:291-306), and a lost removal.  *)
NoneForgotten ==
  monitor \in {"resyncing", "polling"} /\ ~unheard =>
    \A n \in Nodes : present[n] \notin lost \cup {None, managed[n]} =>
      \/ n \in scan
      \/ Waiting("add", n)
      \/ adding = <<"grabbed", n, present[n]>>

(* When nothing goes wrong any more, what is managed comes to be what is   *)
(* plugged in, whatever failed before.                                     *)
FollowsPlugging ==
  <>[](~unheard /\ ~shutdown /\ \A n \in Nodes : present[n] \notin lost) =>
    <>[](managed = present /\ registered = Managed)

(* Events are read as long as no read has found more than it returns: the  *)
(* edges of events that arrive while the loop emits are not lost.          *)
SmallBurstsAreRead ==
  \A b \in Boards :
    b \in registered /\ unread[b] > 0
      ~> unread[b] = 0 \/ b \notin registered \/ crowded \/ shutdown

(* "Drain all pending events from this non-blocking device."               *)
(* (device.rs:195): whatever is waiting at a keyboard is read.             *)
EverythingIsRead ==
  \A b \in Boards :
    b \in registered /\ unread[b] > 0 ~> unread[b] = 0 \/ b \notin registered \/ shutdown

=============================================================================
