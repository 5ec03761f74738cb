--------------------------- MODULE DaemonControl ---------------------------
(***************************************************************************)
(* The life of keymapperd: the service manager that runs it, the control   *)
(* endpoint it serves, the main loop a shutdown has to reach, and the      *)
(* commands of the CLI: log, stop, start and restart.                      *)
(*                                                                         *)
(* One manager per platform: systemd restarts what fails, launchd whatever *)
(* ends while the job is loaded, and on Windows ("none") nobody does.  The *)
(* endpoint is a socket, or on Windows a pipe with one instance.  A daemon *)
(* may also be started by hand, and then no manager knows of it.           *)
(***************************************************************************)
EXTENDS Naturals, Sequences, SequencesExt, FiniteSets

CONSTANTS
  Clients,
  Instances,    \* bound: daemon processes at a time
  Requests,     \* what each client may ask for as a peer, besides what commands do
  Quiet, Loud,  \* two log levels; Loud is debug or above
  NoBody,       \* reach of a path at which no process listens
  MaxLine,      \* bound: connections of a process that are not served yet
  MaxAlive      \* bound: processes that live when a peer asks

(* A request is [verb, args]; Silence is what a peer sends that connects   *)
(* and never completes a frame.                                            *)
Silence == [verb |-> "", args |-> << >>]
SetLevel(level) == [verb |-> "SET-LOG-LEVEL", args |-> <<level>>]
Shutdown == [verb |-> "SHUTDOWN", args |-> << >>]

VARIABLES
  manager,  \* "systemd", "launchd" or "none"; never changes
  loaded,   \* launchd knows the job
  failed,   \* the unit or job has failed since it was last started or stopped
  reach,    \* the process the socket path or the published name leads to
  inst,     \* [Instances -> process]
  client    \* [Clients -> command of the CLI, or another peer]

vars == <<manager, loaded, failed, reach, inst, client>>

(* phase: "starting" (before control::start), "bound" (the endpoint is     *)
(* served, the signal handlers and the message loop are not there yet) or  *)
(* "running".  asked: "no", or a request to shut down the main loop has    *)
(* "seen" or "missed".  line: the connections in the order they were made, *)
(* by NoBody once a client has closed its end; serving: the position of    *)
(* the one that is served, or 0.  managed: the process is the unit's or    *)
(* the job's, or on Windows one that the CLI may open.                     *)
Gone == [phase |-> "none", asked |-> "no", level |-> Quiet, managed |-> TRUE,
         line |-> << >>, serving |-> 0, stage |-> "reading"]
Born == [Gone EXCEPT !.phase = "starting"]

AtRest == [pc |-> "idle", op |-> "none", victims |-> {}]

Socket == manager # "none"
Alive == {i \in Instances : inst[i].phase # "none"}
Managed == {i \in Alive : inst[i].managed}
ByHand == Alive \ Managed

\* A process that starts takes the first name that is free.
NextProcess == CHOOSE i \in Instances : inst[i].phase = "none"
Room == \E i \in Instances : inst[i].phase = "none"

\* systemctl is-active knows the unit only; pgrep and the list of processes
\* show every keymapperd.
IsRunning == IF manager = "systemd" THEN Managed # {} ELSE Alive # {}

Init ==
  /\ manager \in {"systemd", "launchd", "none"}
  /\ loaded = TRUE
  /\ failed = FALSE
  /\ reach = NoBody
  /\ LET first == CHOOSE i \in Instances : TRUE IN
       inst = [i \in Instances |-> IF i = first THEN Born ELSE Gone]
  /\ client = [c \in Clients |-> AtRest]

-----------------------------------------------------------------------------
(* dispatch *)

\* Root may not make a daemon that is not root's log keys.
Refused(request, uid) ==
  /\ uid = "root"
  /\ request.args[1] = Loud

SetsLevel(request, uid) ==
  /\ request.verb = "SET-LOG-LEVEL"
  /\ Len(request.args) = 1 /\ request.args[1] \in {Quiet, Loud}
  /\ ~Refused(request, uid)

\* handle_connection acts on the first word, whatever was replied.
AsksForShutdown(request) == request.verb = "SHUTDOWN"

Accepted(request, uid) == SetsLevel(request, uid) \/ request = Shutdown

-----------------------------------------------------------------------------
(* What the end of a process, or of a connection, means to a client *)

\* `daemon stop` turns to the service manager, everything else is over.
AfterLoss(c) ==
  CASE c.pc = "waiting" /\ c.op = "stop" -> [c EXCEPT !.pc = "removing"]
    [] c.pc = "waiting" /\ c.op = "ask" -> AtRest
    [] OTHER -> c

Waiting(i) == {inst[i].line[k].by : k \in DOMAIN inst[i].line} \ {NoBody}

ClientsWithout(gone) ==
  [c \in Clients |-> IF \E i \in gone : c \in Waiting(i) THEN AfterLoss(client[c])
                                                         ELSE client[c]]

\* The processes in `gone` end and those in `born` start.
Replace(gone, born) ==
  /\ inst' = [i \in Instances |-> IF i \in born THEN Born
                                  ELSE IF i \in gone THEN Gone ELSE inst[i]]
  /\ reach' = IF reach \in gone THEN NoBody ELSE reach

\* A process that starts is none of those a pending stop was about.
Spared(clients, born) ==
  [c \in Clients |-> [clients[c] EXCEPT !.victims = @ \ born]]

-----------------------------------------------------------------------------
(* The daemon: start-up, main loop, end *)

Starts(i, path) ==
  /\ inst[i].phase = "starting"
  /\ reach' = path
  /\ inst' = [inst EXCEPT ![i].phase = "bound"]
  /\ UNCHANGED <<manager, loaded, failed, client>>

\* prepare_socket_dir: the directory cannot be made, is no directory, or
\* belongs to somebody else.
DirectoryRefused(i) == Socket /\ Starts(i, reach)

\* A stale socket is removed first, and so is the one of a live process.
BindSocket(i, bound) == Socket /\ Starts(i, IF bound THEN i ELSE NoBody)

\* No nonce, no pipe, or no owner-only DACL: no endpoint, nothing published.
NoPipe(i) == ~Socket /\ Starts(i, reach)

\* The name of the live pipe replaces what was published before; when it
\* cannot, the old name is there still or already removed.
PublishName(i, published) ==
  /\ ~Socket
  /\ \E path \in IF published THEN {i} ELSE {reach, NoBody} : Starts(i, path)

\* start_mapping has registered its handlers and enters its loop.
EnterLoop(i) ==
  /\ inst[i].phase = "bound"
  /\ inst' = [inst EXCEPT ![i].phase = "running"]
  /\ UNCHANGED <<manager, loaded, failed, reach, client>>

\* No configuration, no permission, or a crash.
Fail(i) ==
  /\ inst[i].phase # "none"
  /\ Replace({i}, {})
  /\ failed' = IF inst[i].managed THEN manager # "none" ELSE failed
  /\ client' = ClientsWithout({i})
  /\ UNCHANGED <<manager, loaded>>

\* The main loop reads the request: the flag, or the message.
Leave(i) ==
  /\ Replace({i}, {})
  /\ client' = ClientsWithout({i})
  /\ UNCHANGED <<manager, loaded, failed>>

Quit(i) == inst[i].phase = "running" /\ inst[i].asked = "seen" /\ Leave(i)

\* Input arrives: epoll_wait returns and the flag is tested again.
Wake(i) ==
  /\ manager = "systemd"
  /\ inst[i].phase = "running" /\ inst[i].asked = "missed"
  /\ inst' = [inst EXCEPT ![i].asked = "seen"]
  /\ UNCHANGED <<manager, loaded, failed, reach, client>>

\* What becomes of a request in the main thread.  On macOS the flag is
\* tested twice a second; on Linux a signal between the test and epoll_wait
\* is missed until the next input; on Windows the test of the hook may
\* discard the message, and the first one does.
Notice == CASE manager = "launchd" -> {"seen"}
            [] manager = "systemd" -> {"seen", "missed"}
            [] manager = "none" -> {"seen", "no"}

\* request_shutdown.  Before the handlers are registered SIGTERM ends the
\* process, and no message is posted to a thread that is not known yet.
AfterRequest(process) ==
  CASE process.phase = "bound" -> {IF Socket THEN Gone ELSE process}
    [] process.phase = "running" ->
         {[process EXCEPT !.asked = IF @ = "no" THEN notice ELSE "seen"] : notice \in Notice}

-----------------------------------------------------------------------------
(* The control endpoint *)

Connection(c, request) == [by |-> c, request |-> request, overtaken |-> FALSE]
Served(i) == inst[i].line[inst[i].serving]

\* admit_peer: root, or the user of the daemon, each without a setuid.
AdmitPeer(creds) ==
  creds.real = creds.effective /\ creds.real \in {"root", "owner"}

\* The credentials of a socket's peer; a pipe reports none.
PeerCreds == [real : {"root", "owner", "other"}, effective : {"root", "owner", "other"}]

AdmittedUids == IF Socket THEN {creds.effective : creds \in {x \in PeerCreds : AdmitPeer(x)}}
                          ELSE {"owner"}

\* Mutant: whichever connection is ready is served.
AnyInLine(i) == DOMAIN inst[i].line
\* The accept loop takes connections in the order they were made.
NextInLine(i) == DOMAIN inst[i].line \cap {1}

\* A peer the daemon does not authorise, one that exceeds its rate, or a
\* stream that cannot be given a timeout is disconnected.
Take(i, admitted) ==
  /\ inst[i].phase \in {"bound", "running"}
  /\ inst[i].serving = 0
  /\ \E k \in NextInLine(i) :
       LET peer == inst[i].line[k] IN
         IF admitted
         THEN /\ inst' = [inst EXCEPT ![i].serving = k, ![i].stage = "reading"]
              /\ client' = client
         ELSE /\ inst' = [inst EXCEPT ![i].line = RemoveAt(@, k)]
              /\ client' = IF peer.by = NoBody THEN client
                         ELSE [client EXCEPT ![peer.by] = AfterLoss(@)]
  /\ UNCHANGED <<manager, loaded, failed, reach>>

\* The connection that is served ends.
Released(process) ==
  [process EXCEPT !.line = RemoveAt(@, process.serving), !.serving = 0, !.stage = "reading"]

\* Connections made before one whose request has been acknowledged.
Overtaken(process) ==
  [k \in DOMAIN process.line |->
     [process.line[k] EXCEPT !.overtaken = @ \/ k < process.serving]]

\* A socket is closed at once, the pipe when its client has closed it.
Answered(process) == IF Socket THEN Released(process) ELSE [process EXCEPT !.stage = "closing"]

\* handle_connection: the request takes effect, then the reply is written.
\* A peer that has closed gets none, and its SHUTDOWN is not acted on; the CLI
\* says nothing more when it has its answer, and closes.
Handle(i, uid) ==
  /\ inst[i].serving # 0 /\ inst[i].stage = "reading"
  /\ LET peer == Served(i)
         applied == [inst[i] EXCEPT
                       !.level = IF SetsLevel(peer.request, uid) THEN peer.request.args[1]
                                                                 ELSE @]
         told == IF Accepted(peer.request, uid)
                 THEN [applied EXCEPT !.line = Overtaken(applied)] ELSE applied
         read == [told EXCEPT !.line[told.serving].by = NoBody,
                              !.line[told.serving].request = Silence]
     IN
       /\ peer.request # Silence
       /\ inst' = [inst EXCEPT ![i] =
                     CASE peer.by = NoBody -> Released(applied)
                       [] peer.by # NoBody /\ AsksForShutdown(peer.request) ->
                            [read EXCEPT !.stage = "signalling"]
                       [] OTHER -> Answered(read)]
       /\ client' = IF peer.by = NoBody THEN client ELSE
                     [client EXCEPT ![peer.by] = IF @.op = "stop"
                                                 THEN [@ EXCEPT !.pc = "watching"] ELSE AtRest]
  /\ UNCHANGED <<manager, loaded, failed, reach>>

\* The request to shut down comes after the reply.
SignalItself(i) ==
  /\ inst[i].serving # 0 /\ inst[i].stage = "signalling"
  /\ \E process \in AfterRequest(Answered(inst[i])) :
       IF process = Gone
       THEN Leave(i)
       ELSE /\ inst' = [inst EXCEPT ![i] = process]
            /\ UNCHANGED <<manager, loaded, failed, reach, client>>

\* Mutant: the peer's close is awaited for as long as it takes.
CloseServedUnbounded(i) == FALSE /\ i \in Instances /\ UNCHANGED vars

\* The pipe is disconnected: its client has closed, or not within
\* CLIENT_CLOSE_TIMEOUT.
CloseServed(i) ==
  /\ inst[i].serving # 0 /\ inst[i].stage = "closing"
  /\ inst' = [inst EXCEPT ![i] = Released(@)]
  /\ UNCHANGED <<manager, loaded, failed, reach, client>>

\* Mutant: the stream is served without a timeout.
ServerTimeoutNever(i) == FALSE /\ i \in Instances /\ UNCHANGED vars

\* IO_TIMEOUT passes, or the peer closes, before its frame is complete.
ServerTimeout(i) ==
  /\ inst[i].serving # 0 /\ inst[i].stage = "reading"
  /\ Served(i).request = Silence
  /\ inst' = [inst EXCEPT ![i] = Released(@)]
  /\ client' = IF Served(i).by = NoBody THEN client
               ELSE [client EXCEPT ![Served(i).by] = AtRest]
  /\ UNCHANGED <<manager, loaded, failed, reach>>

-----------------------------------------------------------------------------
(* The service manager *)

\* KeepAlive of a loaded job; Restart=on-failure of a failed unit.
Respawn(i) ==
  /\ Managed = {}
  /\ Room /\ i = NextProcess
  /\ (manager = "launchd" /\ loaded) \/ (manager = "systemd" /\ failed)
  /\ failed' = FALSE
  /\ Replace({}, {i})
  /\ client' = Spared(client, {i})
  /\ UNCHANGED <<manager, loaded>>

\* Somebody runs keymapperd by hand, on Windows elevated, when none runs and
\* none would be restarted (bounds: no command of the CLI is under way; not
\* with systemd, which knows of the unit alone).
StartByHand(i) ==
  /\ Alive = {} /\ i = NextProcess
  /\ manager # "systemd" /\ (manager = "launchd" => ~loaded)
  /\ \A c \in Clients : client[c].pc = "idle"
  /\ inst' = [inst EXCEPT ![i] = [Born EXCEPT !.managed = FALSE]]
  /\ UNCHANGED <<manager, loaded, failed, reach, client>>

-----------------------------------------------------------------------------
(* The commands of the CLI *)

Goes(c, pc) == client' = [client EXCEPT ![c].pc = pc]

\* The backlog of a socket takes the connection while the server is busy.
SocketConnects == Socket /\ reach # NoBody /\ Len(inst[reach].line) < MaxLine

\* A pipe has one instance: whoever finds it busy tries for two seconds.
PipeConnects == ~Socket /\ reach # NoBody /\ inst[reach].line = << >>

CanConnect == SocketConnects \/ PipeConnects

Connects(c, request) ==
  inst' = [inst EXCEPT ![reach].line = Append(@, Connection(c, request))]

\* A peer's request, or `daemon log`; without a connection it is over (bound:
\* no process was started by hand).
Ask(c, request) ==
  /\ client[c].pc = "idle"
  /\ Cardinality(Alive) <= MaxAlive /\ ByHand = {}
  /\ CanConnect
  /\ Connects(c, request)
  /\ client' = [client EXCEPT ![c] = [pc |-> "waiting", op |-> "ask", victims |-> {}]]
  /\ UNCHANGED <<manager, loaded, failed, reach>>

\* `daemon stop` when a daemon runs.  No connection is made when nobody
\* listens, the pipe stays busy, or the listener is another user's.
Stop(c, connected) ==
  /\ client[c].pc = "idle"
  /\ IsRunning
  /\ client' = [client EXCEPT ![c] = [pc |-> IF connected THEN "waiting" ELSE "removing",
                                      op |-> "stop", victims |-> Alive]]
  /\ IF connected THEN CanConnect /\ Connects(c, Shutdown) ELSE inst' = inst
  /\ UNCHANGED <<manager, loaded, failed, reach>>

\* `daemon start` when none runs, or `daemon restart`.  launchd boots the
\* job out and Windows, for a restart, terminates what it may open (when it
\* fails part way, what it ended is as if it had failed); systemctl does not
\* return in between.
Start(c, op) ==
  /\ client[c].pc = "idle"
  /\ op = "restart" \/ ~IsRunning
  /\ LET gone == IF op = "restart" \/ manager = "launchd" THEN Managed ELSE {} IN
       /\ Replace(gone, {})
       /\ client' = [ClientsWithout(gone) EXCEPT
                       ![c] = [pc |-> "loading", op |-> "start", victims |-> {}]]
  /\ loaded' = (loaded /\ manager # "launchd")
  /\ failed' = FALSE
  /\ UNCHANGED manager

\* A line in which the connections of c are closed by their peer.
ClosedBy(line, c) ==
  [k \in DOMAIN line |-> [line[k] EXCEPT !.by = IF @ = c THEN NoBody ELSE @]]

\* CLIENT_IO_TIMEOUT; the client of a pipe has none.
GiveUp(c) ==
  /\ Socket
  /\ client[c].pc = "waiting"
  /\ inst' = [i \in Instances |-> [inst[i] EXCEPT !.line = ClosedBy(@, c)]]
  /\ client' = [client EXCEPT ![c] = AfterLoss(@)]
  /\ UNCHANGED <<manager, loaded, failed, reach>>

\* `daemon stop` reports that the daemon has stopped.
Report(c) ==
  /\ client[c].pc = "stopped"
  /\ client' = [client EXCEPT ![c] = AtRest]
  /\ UNCHANGED <<manager, loaded, failed, reach, inst>>

\* Mutant: five seconds without an exit are taken for success.
WaitForExitAnyway(c) ==
  /\ client[c].pc = "watching"
  /\ Goes(c, "stopped")
  /\ UNCHANGED <<manager, loaded, failed, reach, inst>>

\* wait_for_exit: the daemon is gone at a poll, or five seconds are over.
WaitForExit(c) ==
  /\ client[c].pc = "watching"
  /\ Goes(c, IF IsRunning THEN "removing" ELSE "stopped")
  /\ UNCHANGED <<manager, loaded, failed, reach, inst>>

\* What was started by hand is not ended, and success is reported all the
\* same: the manager does not know it, or the CLI may not open it.
Removes(c) ==
  /\ client[c].pc = "removing"
  /\ Replace(Managed, {})
  /\ client' = [ClientsWithout(Managed) EXCEPT ![c].pc = "stopped", ![c].op = "force"]
  /\ failed' = FALSE
  /\ UNCHANGED manager

SystemctlStop(c) == manager = "systemd" /\ Removes(c) /\ loaded' = loaded

\* launchd forgets the job, and with it KeepAlive; a job it does not know
\* is as good as stopped.
BootOut(c) == manager = "launchd" /\ Removes(c) /\ loaded' = FALSE

\* Every process of that image name that can be opened.
TerminateProcesses(c) == manager = "none" /\ Removes(c) /\ loaded' = loaded

\* The service manager refuses, or one of the processes cannot be terminated
\* after others have been.
StopServiceFails(c) ==
  /\ client[c].pc = "removing"
  /\ \E gone \in SUBSET Managed :
       /\ Socket => gone = {}
       /\ Replace(gone, {})
       /\ client' = [ClientsWithout(gone) EXCEPT ![c] = AtRest]
  /\ UNCHANGED <<manager, loaded, failed>>

Loads(c, born) ==
  /\ client[c].pc = "loading"
  /\ Replace({}, born)
  /\ client' = [Spared(client, born) EXCEPT ![c] = AtRest]
  /\ loaded' = TRUE
  /\ UNCHANGED <<manager, failed>>

NewIfNone == IF Managed # {} THEN {} ELSE {NextProcess}

\* A unit that is active stays as it is.
SystemctlStart(c) ==
  manager = "systemd" /\ Room /\ Loads(c, NewIfNone)

\* A job that somebody else has loaded in the meantime is not loaded twice
\* (bound: next to no daemon that was started by hand).
Bootstrap(c) == manager = "launchd" /\ ByHand = {} /\ Room /\ Loads(c, NewIfNone)

\* Another process, even if one runs by now.
SpawnDaemon(c) == manager = "none" /\ Room /\ Loads(c, {NextProcess})

\* No unit or plist, or the service manager refuses.
StartFails(c) ==
  /\ client[c].pc = "loading"
  /\ client' = [client EXCEPT ![c] = AtRest]
  /\ UNCHANGED <<manager, loaded, failed, reach, inst>>

-----------------------------------------------------------------------------
Process(i) ==
  \/ DirectoryRefused(i) \/ NoPipe(i)
  \/ \E done \in BOOLEAN : BindSocket(i, done) \/ PublishName(i, done)
  \/ EnterLoop(i) \/ Quit(i)
  \/ \E admitted \in BOOLEAN : Take(i, admitted)
  \/ \E uid \in AdmittedUids : Handle(i, uid)
  \/ SignalItself(i) \/ CloseServed(i) \/ ServerTimeout(i)

Command(c) ==
  \/ GiveUp(c)
  \/ WaitForExit(c) \/ Report(c)
  \/ SystemctlStop(c) \/ BootOut(c) \/ TerminateProcesses(c) \/ StopServiceFails(c)
  \/ SystemctlStart(c) \/ Bootstrap(c) \/ SpawnDaemon(c) \/ StartFails(c)

Next ==
  \/ \E i \in Instances : Process(i) \/ Fail(i) \/ Wake(i) \/ Respawn(i) \/ StartByHand(i)
  \/ \E c \in Clients :
       \/ \E request \in Requests[c] : Ask(c, request)
       \/ \E connected \in BOOLEAN : Stop(c, connected)
       \/ \E op \in {"start", "restart"} : Start(c, op)
       \/ Command(c)

\* The threads of the daemon and the processes of the CLI run, and their
\* timeouts expire; input and failures may never come.
Fairness ==
  /\ \A i \in Instances :
       WF_vars(\/ \E admitted \in BOOLEAN : Take(i, admitted)
               \/ \E uid \in AdmittedUids : Handle(i, uid)
               \/ SignalItself(i) \/ CloseServed(i) \/ ServerTimeout(i))
  /\ \A c \in Clients : WF_vars(Command(c))

Spec == Init /\ [][Next]_vars /\ Fairness

-----------------------------------------------------------------------------
(* Properties *)

TypeOK ==
  /\ reach \in Alive \cup {NoBody}
  /\ \A i \in Instances :
       /\ inst[i].level \in {Quiet, Loud}
       /\ inst[i].serving \in 0..Len(inst[i].line)
       /\ (inst[i].phase \in {"none", "starting"} => inst[i].line = << >>)
  /\ \A c \in Clients : (client[c].pc = "idle" <=> client[c] = AtRest)

(* When `daemon stop` prints "keymapperd stopped" (daemon_cmd/mod.rs:100-  *)
(* 125), every process its service manager runs, or on Windows it may      *)
(* open, has ended of those that ran when it was called, also when the     *)
(* shutdown request was lost, refused or answered by another one.  Where   *)
(* pgrep or the process list shows a daemon that was started by hand, that *)
(* has ended too if the daemon obeyed (wait_for_exit, mod.rs:141-150); it  *)
(* may run on only when stop_service was needed (op "force"), which        *)
(* reports success without it (windows.rs:149-153, macos.rs:121-150).      *)
StoppedMeansEnded ==
  \A c \in Clients : client[c].pc = "stopped" =>
    /\ client[c].victims \cap Managed = {}
    /\ manager # "systemd" /\ client[c].op # "force" => client[c].victims \cap Alive = {}

(* A log level somebody was told is not undone by a request that had been  *)
(* made before it, such as one whose sender gave up after a second: the    *)
(* endpoint is single-threaded and serves connections in order.            *)
NoLateLevel ==
  [][\A i \in Instances :
       (inst[i].serving # 0 /\ inst'[i].phase # "none" /\ inst'[i].level # inst[i].level)
         => ~Served(i).overtaken]_vars

(* "a stalled peer cannot wedge this single-threaded loop"                 *)
(* (endpoint/unix.rs:239-241, endpoint/windows.rs:185-193): whoever is     *)
(* served, the endpoint gets free again.                                   *)
EndpointGetsFree ==
  \A i \in Instances : (inst[i].serving # 0) ~> (inst[i].serving = 0)

(* No command of the CLI hangs, whatever the daemon does: the exchange,    *)
(* the wait for an exit and the service manager all come to an end.        *)
CommandsEnd ==
  \A c \in Clients :
    (client[c].pc # "idle") ~> (client[c].pc = "idle")

(* "Stop keymapperd if it is running" (daemon_cmd/mod.rs:100): while a     *)
(* stop is being reported, the service manager starts a daemon only        *)
(* because somebody asks it to or because one that was started in the      *)
(* meantime has failed.                                                    *)
StaysStopped ==
  [][(\E c \in Clients : client[c].pc = "stopped") /\ Managed = {} /\ Managed' # {}
       => failed \/ \E c \in Clients : client[c].pc = "loading"]_vars
=============================================================================
