-------------------------- MODULE VirtualKeyboard --------------------------
(***************************************************************************)
(* virtkbdd, the root daemon of macOS that types for keymapperd.           *)
(*                                                                         *)
(* The main thread serves one connection at a time (ipc_server): it admits *)
(* the user at the console, reads frames of outputs, and turns each output *)
(* into reports on a bounded queue (emit).  The client thread              *)
(* (karabiner_client) owns the connection to the Karabiner daemon and      *)
(* posts the queued reports while the virtual keyboard is ready.           *)
(* Meanwhile users switch at the console, peers connect, send and close,   *)
(* the Karabiner daemon comes and goes, and the daemon is told to stop.    *)
(***************************************************************************)
EXTENDS KeyReports

CONSTANTS
  Users,
  NoUser,         \* nobody is logged in at the console
  Frames,         \* the frames keymapperd sends: sequences of outputs
  Corrupt,        \* a frame that does not decode
  QueueCapacity,  \* COMMAND_CHANNEL_CAPACITY
  AcceptLimit,    \* ACCEPT_RATE_THRESHOLD connections of a user per window
  FrameLimit,     \* FRAME_RATE_THRESHOLD frames of a connection per window
  Paths,          \* what the directories above the Karabiner socket may be
  Servers,        \* what may answer on that socket
  Messages,       \* what the Karabiner daemon may say
  MaxInbox,       \* bound: frames sent and not read yet
  Overlaps        \* bound: whether anything happens to the server, and others
                  \* knock, while it is busy

\* The outputs that may be typed.
Outputs == UNION {{f[i] : i \in DOMAIN f} : f \in Frames}

ASSUME VirtualKeyboardAssumption ==
  /\ \A f \in Frames : f \in Seq(Outputs)
  /\ NoUser \notin Users
  /\ \A path \in Paths : \A dir \in path :
       dir \in [known : BOOLEAN, isDir : BOOLEAN, writable : BOOLEAN,
               sticky : BOOLEAN, ofRoot : BOOLEAN]
  /\ Servers \subseteq [known : BOOLEAN, rootUser : BOOLEAN, rootGroup : BOOLEAN]
  /\ \A m \in Messages : \A i \in DOMAIN m.pairs : m.pairs[i].value \in Nat
  /\ Overlaps \in BOOLEAN
  /\ QueueCapacity \in Nat /\ AcceptLimit \in Nat \ {0} /\ FrameLimit \in Nat \ {0}

VARIABLES
  console,   \* console_uid()
  shutdown,  \* the flag SIGINT and SIGTERM set
  server,    \* "starting", "listening", "polling", "serving" or "stopped"
  owner,     \* the user the socket belongs to: nobody else can connect
  knocking,  \* the connection in the listener's backlog, or NoUser
  peer,      \* the user whose connection is served, or NoUser
  closed,    \* the peer has closed its end
  inbox,     \* frames of the connection not read yet
  accepts,   \* [Users -> Nat], connections in the window of the accept limiter
  frames,    \* frames in the window of the frame limiter
  batch,     \* outputs of the frame being emitted
  typing,    \* reports of the output being enqueued
  queue,     \* the command channel
  client,    \* "idle", "reading" or "draining"
  ready,     \* the flag the state updates set
  synced,    \* the client reads the stream from a frame boundary
  posted     \* [Pages -> usages], keys down on the virtual keyboard

serverVars == <<server, owner, peer, accepts, frames>>
peerVars == <<knocking, closed, inbox>>
emitVars == <<batch, typing>>
clientVars == <<client, ready, synced, posted>>
vars == <<console, shutdown, serverVars, peerVars, emitVars, queue, clientVars>>

Pages == {"keyboard", "consumer"}
NothingDown == [p \in Pages |-> {}]

Init ==
  /\ console \in Users \cup {NoUser}
  /\ shutdown = FALSE
  /\ server = "starting"
  /\ owner = NoUser /\ knocking = NoUser /\ peer = NoUser
  /\ closed = FALSE
  /\ inbox = << >> /\ batch = << >> /\ typing = << >> /\ queue = << >>
  /\ accepts = [u \in Users |-> 0]
  /\ frames = 0
  /\ client = "idle" /\ ready = FALSE /\ synced = TRUE
  /\ posted = NothingDown

-----------------------------------------------------------------------------
(* start_virtkbd and run_server *)

\* The server starts when the keyboard is ready or READY_TIMEOUT has passed.
StartServing ==
  /\ server = "starting"
  /\ server' = IF shutdown THEN "stopped" ELSE "listening"
  /\ UNCHANGED <<console, shutdown, owner, peer, accepts, frames, peerVars,
                 emitVars, queue, clientVars>>

\* apply_socket_ownership: nobody at the console leaves the socket as it is.
SocketOwner == IF console = NoUser THEN owner ELSE console

\* The top of the loop: the shutdown flag, then the socket's owner.
Listen ==
  /\ server = "listening"
  /\ IF shutdown
     THEN server' = "stopped" /\ owner' = owner
     ELSE /\ server' = "polling"
          /\ owner' = SocketOwner
  /\ UNCHANGED <<console, shutdown, peer, accepts, frames, peerVars, emitVars,
                 queue, clientVars>>

\* Mutant: the listener is polled without a timeout.
PollTimeoutNever == FALSE /\ UNCHANGED vars

\* wait_for_peer comes back empty-handed after POLL_TIMEOUT_MS.
PollTimeout ==
  /\ server = "polling"
  /\ knocking = NoUser
  /\ server' = "listening"
  /\ UNCHANGED <<console, shutdown, owner, peer, accepts, frames, peerVars,
                 emitVars, queue, clientVars>>

\* check_and_record runs for every peer once somebody is at the console.
Recorded(u) == console # NoUser /\ accepts[u] < AcceptLimit

Admitted(u) == Recorded(u) /\ u = console

\* A peer whose credentials cannot be read, or whose connection cannot be
\* given READ_TIMEOUT, is turned away.
Accept(known, bounded) ==
  /\ server = "polling"
  /\ knocking # NoUser
  /\ accepts' = IF known /\ Recorded(knocking) THEN [accepts EXCEPT ![knocking] = @ + 1]
                                               ELSE accepts
  /\ IF known /\ bounded /\ Admitted(knocking)
     THEN server' = "serving" /\ peer' = knocking /\ frames' = 0
     ELSE server' = "listening" /\ UNCHANGED <<peer, frames>>
  /\ knocking' = NoUser
  /\ closed' = FALSE
  /\ inbox' = << >>
  /\ UNCHANGED <<console, shutdown, owner, emitVars, queue, clientVars>>

-----------------------------------------------------------------------------
(* handle_connection *)

Idle == batch = << >> /\ typing = << >>

\* The connection is dropped and the loop goes back to its top.
Drop ==
  /\ server' = "listening"
  /\ peer' = NoUser
  /\ inbox' = << >> /\ closed' = FALSE /\ frames' = 0
  /\ UNCHANGED <<owner, accepts, batch>>

\* FrameRateLimiter::check_and_record
FrameAllowed == frames < FrameLimit

\* ipc_frame: the length, the version, the count and every usage are valid.
Decodes(frame) == frame # Corrupt

\* A frame arrives: console user, frame rate, then its keys.
ReadFrame ==
  /\ server = "serving"
  /\ Idle
  /\ inbox # << >>
  /\ IF ~Decodes(Head(inbox)) \/ console # peer \/ ~FrameAllowed
     THEN Drop
     ELSE /\ batch' = Head(inbox)
          /\ inbox' = Tail(inbox)
          /\ frames' = frames + 1
          /\ UNCHANGED <<server, owner, peer, accepts, closed>>
  /\ UNCHANGED <<console, shutdown, knocking, typing, queue, clientVars>>

\* Mutant: an idle connection is not checked again.
ReadTimeoutUnchecked ==
  /\ server = "serving" /\ Idle /\ inbox = << >> /\ ~closed
  /\ UNCHANGED vars

\* READ_TIMEOUT passes without a frame: the console user is checked again.
ReadTimeout ==
  /\ server = "serving"
  /\ Idle
  /\ inbox = << >> /\ ~closed
  /\ console # peer
  /\ Drop
  /\ UNCHANGED <<console, shutdown, knocking, typing, queue, clientVars>>

ReadEof ==
  /\ server = "serving"
  /\ Idle
  /\ inbox = << >> /\ closed
  /\ Drop
  /\ UNCHANGED <<console, shutdown, knocking, typing, queue, clientVars>>

-----------------------------------------------------------------------------
(* emit_native_key *)

\* Mutant: room for one report is enough to start a key.
HasRoomForOne(n) == Len(queue) < QueueCapacity

HasRoom(n) == QueueCapacity - Len(queue) >= n

\* ClientCommand: a report of the page the key is on.
Commands[nk \in Outputs] ==
  LET page == IF nk.usage \in ConsumerUsages THEN "consumer" ELSE "keyboard"
      all == ReportsOf(nk)
  IN [i \in DOMAIN all |-> [page |-> page, keys |-> all[i]]]

\* A key is enqueued whole or dropped whole.
EmitKey ==
  /\ batch # << >>
  /\ typing = << >>
  /\ batch' = Tail(batch)
  /\ LET reports == Commands[Head(batch)] IN
       typing' = IF HasRoom(Len(reports)) THEN reports ELSE << >>
  /\ UNCHANGED <<console, shutdown, serverVars, peerVars, queue, clientVars>>

\* A report that finds the queue full ends its key (send_keyboard_report).
EnqueueReport ==
  /\ typing # << >>
  /\ IF Len(queue) < QueueCapacity
     THEN queue' = Append(queue, Head(typing)) /\ typing' = Tail(typing)
     ELSE queue' = queue /\ typing' = << >>
  /\ UNCHANGED <<console, shutdown, serverVars, peerVars, batch, clientVars>>

-----------------------------------------------------------------------------
(* client_loop and run_connection *)

ServerUnchanged ==
  UNCHANGED <<console, shutdown, serverVars, peerVars, emitVars>>

\* check_socket_path_security, for a client that runs as root.  A directory
\* that cannot be read is left to the connection.
PathTrusted(path) ==
  \A dir \in path : dir.known =>
    dir.isDir /\ (dir.writable => dir.sticky) /\ dir.ofRoot

\* verify_server_uid
ServerTrusted(peerIds) == peerIds.known /\ peerIds.rootUser /\ peerIds.rootGroup

\* encode_id_frame; request IDs only count up.
IdFrame(type, payload) == [type |-> type, payload |-> payload]

\* build_request_payload
RequestPayload(type, report) == [request |-> type, report |-> report]

Request(type, report) == IdFrame("request", RequestPayload(type, report))

\* REQ_KEYBOARD_INITIALIZE and build_keyboard_parameters
Initialize == Request("initialize", {})

\* The Karabiner daemon carries a request out: it makes the keyboard, or a
\* report replaces what is down of its page.
Carries(request) ==
  posted' = CASE request.payload.request = "initialize" -> NothingDown
              [] request.payload.request = "post keyboard" ->
                   [posted EXCEPT !["keyboard"] = request.payload.report]
              [] request.payload.request = "post consumer" ->
                   [posted EXCEPT !["consumer"] = request.payload.report]

\* client_loop tries again later, unless it can send REQ_KEYBOARD_INITIALIZE.
\* When nobody listens, nobody is known.
Connect(path, karabiner) ==
  /\ client = "idle"
  /\ IF PathTrusted(path) /\ ServerTrusted(karabiner)
     THEN client' = "reading" /\ Carries(Initialize)
     ELSE UNCHANGED <<client, posted>>
  /\ UNCHANGED <<queue, ready, synced>>
  /\ ServerUnchanged

\* The connection is over, and with it the keyboard node.
ConnectionLost ==
  client' = "idle" /\ ready' = FALSE /\ synced' = TRUE /\ posted' = NothingDown

\* End of file, a write that fails or times out, no frame within READ_TIMEOUT,
\* or a stream that no longer makes sense.  The command being written is lost.
Disconnect ==
  /\ client # "idle"
  /\ ConnectionLost
  /\ \/ queue' = queue
     \/ client = "draining" /\ ready /\ queue # << >> /\ queue' = Tail(queue)
  /\ ServerUnchanged

\* apply_state_pairs: the last pair that is about the keyboard counts, and
\* only the value 1 is a yes.
ReadyAfter(pairs) ==
  LET told == {i \in DOMAIN pairs : pairs[i].type = "keyboard ready"}
  IN IF told = {} THEN ready
     ELSE \E i \in told : (\A j \in told : j <= i) /\ pairs[i].value = 1

\* split_id_body
HasId(m) == m.long

\* handle_frame: state updates and answers carry pairs; other frames only show
\* that the daemon is alive.  A keyboard that is not ready holds no keys.
HandleFrame(m) ==
  /\ client = "reading"
  /\ synced
  /\ IF m.type \notin {"request", "response"}
     THEN client' = "draining" /\ UNCHANGED <<ready, synced, posted>>
     ELSE IF ~HasId(m) THEN ConnectionLost
     ELSE /\ client' = "draining"
          /\ ready' = ReadyAfter(m.pairs)
          /\ posted' = IF ready' THEN posted ELSE NothingDown
          /\ synced' = synced
  /\ queue' = queue
  /\ ServerUnchanged

\* POLL_INTERVAL passes without a frame.
ReadNothing ==
  /\ client = "reading"
  /\ client' = "draining"
  /\ UNCHANGED <<queue, ready, synced, posted>>
  /\ ServerUnchanged

\* POLL_INTERVAL ends inside a frame: read_exact has consumed its first
\* bytes, and what follows is read as if it were the start of one.
ReadHalfFrame ==
  /\ client = "reading"
  /\ synced' = FALSE
  /\ client' = "draining"
  /\ UNCHANGED <<queue, ready, posted>>
  /\ ServerUnchanged

\* build_keyboard_input_report has room for more keys than an output has.
KeyboardReport(keys) == Request("post keyboard", keys)

\* build_consumer_input_report, and without a key build_consumer_release_report
ConsumerReport(keys) == Request("post consumer", keys)

SendCommand(cmd) ==
  Carries(IF cmd.page = "keyboard" THEN KeyboardReport(cmd.keys) ELSE ConsumerReport(cmd.keys))

\* Each queued report is posted, or dropped while the keyboard is not ready.
Drain ==
  /\ client = "draining"
  /\ queue # << >>
  /\ queue' = Tail(queue)
  /\ IF ready THEN SendCommand(Head(queue)) ELSE posted' = posted
  /\ UNCHANGED <<client, ready, synced>>
  /\ ServerUnchanged

DrainEnds ==
  /\ client = "draining"
  /\ queue = << >>
  /\ client' = "reading"
  /\ UNCHANGED <<queue, ready, synced, posted>>
  /\ ServerUnchanged

-----------------------------------------------------------------------------
(* Users, their keymapperd, signals and time *)

ConsoleSwitches(u) ==
  /\ console' = u
  /\ UNCHANGED <<shutdown, serverVars, peerVars, emitVars, queue, clientVars>>

Signal ==
  /\ shutdown' = TRUE
  /\ UNCHANGED <<console, serverVars, peerVars, emitVars, queue, clientVars>>

\* The socket has mode 0600.
Knock(u) ==
  /\ knocking = NoUser
  /\ server \in {"listening", "polling"} \/ (Overlaps /\ server = "serving")
  /\ owner = u
  /\ knocking' = u
  /\ UNCHANGED <<console, shutdown, serverVars, closed, inbox, emitVars, queue,
                 clientVars>>

Send(frame) ==
  /\ server = "serving"
  /\ ~closed
  /\ Len(inbox) < MaxInbox
  /\ inbox' = Append(inbox, frame)
  /\ UNCHANGED <<console, shutdown, serverVars, knocking, closed, emitVars, queue,
                 clientVars>>

Close ==
  /\ server = "serving"
  /\ ~closed
  /\ closed' = TRUE
  /\ UNCHANGED <<console, shutdown, serverVars, knocking, inbox, emitVars, queue,
                 clientVars>>

\* The windows of the rate limiters slide past what they had counted.
WindowsSlide ==
  /\ accepts' = [u \in Users |-> 0]
  /\ frames' = 0
  /\ UNCHANGED <<console, shutdown, server, owner, peer, peerVars, emitVars, queue,
                 clientVars>>

Environment ==
  \/ \E u \in Users \cup {NoUser} : ConsoleSwitches(u)
  \/ \E u \in Users : Knock(u)
  \/ \E frame \in Frames \cup {Corrupt} : Send(frame)
  \/ Signal
  \/ Close
  \/ WindowsSlide

Server ==
  \/ StartServing \/ Listen \/ PollTimeout
  \/ \E known, bounded \in BOOLEAN : Accept(known, bounded)
  \/ ReadFrame \/ ReadTimeout \/ ReadEof
  \/ EmitKey \/ EnqueueReport

Client ==
  \/ \E path \in Paths, karabiner \in Servers : Connect(path, karabiner)
  \/ Disconnect
  \/ \E m \in Messages : HandleFrame(m)
  \/ ReadNothing \/ ReadHalfFrame
  \/ Drain \/ DrainEnds

\* While a frame is being emitted the server looks at nothing of its environment.
Next == ((Overlaps \/ Idle) /\ Environment) \/ Server \/ Client

\* The server thread runs; users, the network and the Karabiner daemon, which
\* may come and go, promise nothing.
Fairness == WF_vars(Server)

Spec == Init /\ [][Next]_vars /\ Fairness

-----------------------------------------------------------------------------
(* Properties *)

(* "a half-emitted key could leave stuck modifiers on the virtual keyboard"*)
(* (emit.rs:26-27): when nothing is left to emit, no key is down on it.    *)
NothingStuck ==
  batch = << >> /\ typing = << >> /\ queue = << >> => posted = NothingDown

(* "The connection is dropped" when the console user is no longer the peer *)
(* (ipc_server.rs:228-236): a connection does not outlive the session of   *)
(* its user, even one over which nothing is sent.                          *)
PeerFollowsConsole ==
  (server = "serving" /\ peer # console) ~> (server # "serving" \/ peer = console)

(* "Run the virtkbdd IPC server until a shutdown signal is received"       *)
(* (ipc_server.rs:79): it stops, unless one connection is served for ever, *)
(* for handle_connection does not look at the flag.                        *)
StopsUnlessServing ==
  <>[](server = "serving") \/ (shutdown ~> (server = "stopped"))
=============================================================================
