---------------------------- MODULE ActiveWindow ----------------------------
(***************************************************************************)
(* The query for the application that has the focus (platform/             *)
(* app_identity), as the focus cache runs it: the backends of a session    *)
(* are asked in turn, step by step, while the focus moves, peers are slow  *)
(* or fail, and other threads look up their rules.  It adds to FocusCache  *)
(* what happens between the claim of the refresh slot and the answer.      *)
(***************************************************************************)
EXTENDS FocusCache, AppNames

CONSTANTS
  Sessions,  \* sessions the daemon may run in
  App,       \* [1 .. MaxFocus -> the process behind the window]
  Entries,   \* desktop files, as installed
  Updated,   \* desktop files after the next installation
  MaxFaults, \* bound: failed or late answers of peers, and panics
  Panicking, \* bound: sessions whose queries may panic
  Reloading  \* bound: sessions in which the configuration is reloaded

ASSUME QueryAssumption == MaxFaults \in Nat

VARIABLES
  session,  \* display server, desktop, sockets
  live,     \* backends whose peer is there
  files,    \* the desktop files
  names, roots,  \* DESKTOP_CACHE, APP_ROOT_CACHE: {} or {what it was made of}
  todo,     \* backends of the current query, the one being asked first
  at,       \* its next step, "none", or "hung" on a peer without a limit
  seen,     \* the application it has seen in front, or 0
  rounds,   \* roundtrips of a Wayland query
  loaded, warmed,  \* gnome.rs: LOADED and WARMUP_DONE
  staged,   \* kde.rs: the script's file is there
  kwin,     \* calls KWin has not executed
  scripts,  \* scripts loaded in KWin
  reply,    \* to the call in progress: "none", "ok", "failed" or "late"
  callback, \* ReplySink: the script has called back
  serial,   \* of the current script's name
  faults

query == <<todo, at, seen, rounds>>
gnome == <<loaded, warmed>>
kde == <<staged, kwin, scripts, reply, callback, serial>>
desktop == <<files, names, roots>>
world == <<session, live, desktop, faults>>
cache == <<focus, value, expired, slot, pc, local, lock, panics, returned, floor, since>>

allVars == <<vars, world, query, gnome, kde>>

Roundtrips == 5

QueryInit ==
  /\ Init
  /\ session \in Sessions
  /\ live = session.live
  /\ files = Entries
  /\ names = {} /\ roots = {}
  /\ todo = << >> /\ at = "none" /\ seen = 0 /\ rounds = 0
  /\ loaded = FALSE /\ warmed = FALSE
  /\ staged = FALSE /\ kwin = << >> /\ scripts = {}
  /\ reply = "none" /\ callback = FALSE /\ serial = 0
  /\ faults = 0

-----------------------------------------------------------------------------
(* What an application that was seen in front is called *)

\* Each cache is filled by its own first use and kept.
Cached(c) == IF c = {} THEN files ELSE UNION c

\* A process that is looked up in DESKTOP_CACHE, and in APP_ROOT_CACHE next.
AsksNames(app) == app.own /\ ExeNames(app) # {}
AsksRoots(app) ==
  /\ AsksNames(app) /\ ByExe(Cached(names), app) = {}
  /\ \E i \in DOMAIN app.cmdline : app.cmdline[i].kind = "path"

\* What compositors report of a window.
ReplyOf(app) ==
  <<[key |-> "title", isString |-> TRUE, value |-> "a window"],
    [key |-> "app_id", isString |-> app.class # "", value |-> app.class],
    [key |-> "class_name", isString |-> TRUE, value |-> app.class],
    [key |-> "class", isString |-> TRUE, value |-> app.class]>>

NamesOf(backend, app) ==
  CASE backend = "x11" -> IF app.own THEN ResolveProcess(Cached(names), Cached(roots), app) ELSE {}
    [] backend = "windows" -> IdentityForPid(app)
    [] backend = "macos" -> OwnerOf(app, {App[a] : a \in DOMAIN App})
    [] backend = "gnome" -> {GnomeAppId(ReplyOf(app))} \ {""}
    [] backend = "kde" -> {FieldOf(ReplyOf(app), "class_name")} \ {""}
    [] backend = "hyprland" -> {FieldOf(ReplyOf(app), "class")} \ {""}
    [] backend = "wlroots" -> {}
    [] OTHER -> {app.class} \ {""}

Known(backend, a) == a # 0 /\ NamesOf(backend, App[a]) # {}

-----------------------------------------------------------------------------
(* The course of a query *)

FirstStep(backend) ==
  CASE backend \in {"x11", "cosmic", "xfce"} -> "connect"
    [] backend \in {"windows", "macos"} -> "front"
    [] backend = "kde" -> "stage"
    [] backend = "gnome" -> "call"
    [] OTHER -> "request"

\* The query of t goes on with nothing said about the cache.
Goes(t) ==
  /\ pc[t] = "asking"
  /\ todo # << >>

Stays == UNCHANGED cache

\* Mutant: the list of windows is kept for the next query.
ConcludeKeepingWindows(t, a) ==
  /\ seen' = seen /\ rounds' = 0
  /\ todo' = << >> /\ at' = "none"
  /\ pc' = [pc EXCEPT ![t] = "answered"]
  /\ local' = [local EXCEPT ![t] = IF Known(Head(todo), a) THEN a ELSE 0]
  /\ UNCHANGED <<focus, value, expired, slot, lock, panics, returned, floor, since>>

\* Mutant: the slot is free before the answer is in the cache.
ConcludeReleasing(t, a) ==
  /\ seen' = 0 /\ rounds' = 0
  /\ todo' = << >> /\ at' = "none" /\ slot' = NoThread
  /\ pc' = [pc EXCEPT ![t] = "answered"]
  /\ local' = [local EXCEPT ![t] = IF Known(Head(todo), a) THEN a ELSE 0]
  /\ UNCHANGED <<focus, value, expired, lock, panics, returned, floor, since>>

\* A backend returns a; "unknown" sends the query to the next one.
Conclude(t, a) ==
  /\ seen' = 0 /\ rounds' = 0
  /\ LET known == Known(Head(todo), a) IN
     \/ /\ known \/ Len(todo) = 1
        /\ todo' = << >> /\ at' = "none"
        /\ pc' = [pc EXCEPT ![t] = "answered"]
        /\ local' = [local EXCEPT ![t] = IF known THEN a ELSE 0]
        /\ UNCHANGED <<focus, value, expired, slot, lock, panics, returned, floor, since>>
     \/ /\ ~known /\ Len(todo) > 1
        /\ todo' = Tail(todo) /\ at' = FirstStep(todo[2])
        /\ Stays

\* A fault of a peer.
Fault == panics + faults < MaxFaults /\ faults' = faults + 1

\* The refresh slot is taken, and the source called.
BeginQuery(t) ==
  /\ ClaimSlot(t)
  /\ todo' = BackendsOf(session)
  /\ at' = FirstStep(Head(BackendsOf(session)))
  /\ UNCHANGED <<seen, rounds, world, gnome, kde>>

\* A connection breaks, no window is in front, a window or its process is
\* gone, a reply with a limit does not come in time: the backend returns
\* "unknown".  (At an earlier step it returns the same.)
BackendFails(t) ==
  /\ Goes(t)
  /\ at \in {"identify", "request", "collect", "call", "stage"}
  /\ Fault
  /\ Conclude(t, 0)
  /\ UNCHANGED <<session, live, desktop, gnome, kde>>

\* What is waited for without a limit: the X server's replies, the shell's
\* (unlike KWin's, kde.rs:124), and roundtrips to a compositor.
Unlimited ==
  \/ Head(todo) = "x11" /\ "x11" \in live /\ at \in {"connect", "front"}
  \/ Head(todo) = "gnome" /\ ("gnome" \in live \/ session.shell) /\ at \in {"call", "poll"}
  \/ at \in {"globals", "collect"}

\* The peer does not answer any more.
PeerHangs(t) ==
  /\ Goes(t) /\ Unlimited
  /\ Fault
  /\ at' = "hung"
  /\ Stays
  /\ UNCHANGED <<session, live, desktop, todo, seen, rounds, gnome, kde>>

\* It is killed: the connection breaks.
PeerDies(t) ==
  /\ Goes(t) /\ at = "hung"
  /\ warmed' = IF Head(todo) = "gnome" THEN loaded => warmed ELSE warmed
  /\ Conclude(t, 0)
  /\ UNCHANGED <<world, loaded, kde>>

-----------------------------------------------------------------------------
(* X11, Windows, macOS: who is in front, then what is its name *)

Connect(t) ==
  /\ Goes(t) /\ at = "connect" /\ Head(todo) = "x11"
  /\ IF "x11" \in live
     THEN at' = "front" /\ UNCHANGED <<todo, seen, rounds>> /\ Stays
     ELSE Conclude(t, 0)
  /\ UNCHANGED <<world, gnome, kde>>

\* _NET_ACTIVE_WINDOW, GetForegroundWindow, frontmostApplication
LookInFront(t) ==
  /\ Goes(t) /\ at = "front"
  /\ seen' = focus /\ at' = "identify"
  /\ Stays
  /\ UNCHANGED <<todo, rounds, world, gnome, kde>>

\* Its process is looked up.
Identify(t) ==
  /\ Goes(t) /\ at = "identify"
  /\ LET asked == IF Head(todo) = "x11" THEN {App[a] : a \in {seen} \ {0}} ELSE {} IN
       /\ names' = IF \E app \in asked : AsksNames(app) THEN {Cached(names)} ELSE names
       /\ roots' = IF \E app \in asked : AsksRoots(app) THEN {Cached(roots)} ELSE roots
  /\ Conclude(t, seen)
  /\ UNCHANGED <<session, live, files, faults, gnome, kde>>

-----------------------------------------------------------------------------
(* Sway, Hyprland: one request on a socket *)

\* Sway hangs up: its messages begin with "i3-ipc".
SwayReply == [length |-> 0, magic |-> "", announced |-> 0, document |-> << >>]

Request(t) ==
  /\ Goes(t) /\ at = "request"
  /\ IF Head(todo) = "hyprland" /\ "hyprland" \in live
     THEN Conclude(t, focus)
     ELSE Conclude(t, IF WlrootsAppId(SwayReply) = "" THEN 0 ELSE focus)
  /\ UNCHANGED <<world, gnome, kde>>

-----------------------------------------------------------------------------
(* COSMIC, XFCE: the list of windows from the compositor *)

\* connect_wayland, and the registry is asked for.
ConnectWayland(t) ==
  /\ Goes(t) /\ at = "connect" /\ Head(todo) # "x11"
  /\ IF ReachesCompositor(session)
     THEN at' = "globals" /\ UNCHANGED <<todo, seen, rounds>> /\ Stays
     ELSE Conclude(t, 0)
  /\ UNCHANGED <<world, gnome, kde>>

\* The first roundtrip: is there the interface?  Then "stop" is sent.
Globals(t) ==
  /\ Goes(t) /\ at = "globals"
  /\ IF Head(todo) \in live
     THEN at' = "collect" /\ UNCHANGED <<todo, seen, rounds>> /\ Stays
     ELSE Conclude(t, 0)
  /\ UNCHANGED <<world, gnome, kde>>

\* The first window reported active.  COSMIC's query does not hear of closed
\* windows, which stay what they were.
Reported ==
  IF Head(todo) = "cosmic" /\ seen # 0 THEN {seen, focus} ELSE {focus}

\* A roundtrip; "finished" ends them.
Collect(t) ==
  /\ Goes(t) /\ at = "collect" /\ rounds < Roundtrips
  /\ rounds' = rounds + 1
  /\ seen' \in Reported
  /\ at' \in {"collect", "collected"}
  /\ Stays
  /\ UNCHANGED <<todo, world, gnome, kde>>

ReadWindows(t) ==
  /\ Goes(t)
  /\ at = "collected" \/ (at = "collect" /\ rounds = Roundtrips)
  /\ Conclude(t, seen)
  /\ UNCHANGED <<world, gnome, kde>>

-----------------------------------------------------------------------------
(* GNOME: gnome.rs *)

\* A call of the extension that is answered.
ExtensionAnswers(t) ==
  /\ Goes(t) /\ at \in {"call", "poll"} /\ "gnome" \in live
  /\ loaded' = TRUE
  /\ Conclude(t, focus)
  /\ UNCHANGED <<world, warmed, kde>>

\* An error.  The first one may be the shell that still loads the extension.
ExtensionMissing(t) ==
  /\ Goes(t) /\ at = "call" /\ "gnome" \notin live
  /\ warmed' = (loaded => warmed)
  /\ IF ~loaded /\ ~warmed /\ session.shell
     THEN at' = "poll" /\ UNCHANGED <<todo, seen, rounds>> /\ Stays
     ELSE Conclude(t, 0)
  /\ UNCHANGED <<world, loaded, kde>>

\* LOAD_TIMEOUT is over.
LoadTimeout(t) ==
  /\ Goes(t) /\ at = "poll" /\ "gnome" \notin live
  /\ Conclude(t, 0)
  /\ UNCHANGED <<world, gnome, kde>>

-----------------------------------------------------------------------------
(* KDE: kde.rs *)

Call(name) ==
  /\ kwin' = Append(kwin, [call |-> name, serial |-> serial])
  /\ reply' = "none"

\* The names of the scripts that KWin knows or will hear of.
Serials == {s.serial : s \in scripts'} \cup {kwin'[i].serial : i \in DOMAIN kwin'}

\* The end of query_kde: the file is removed, the connection is closed, and
\* the next script has a name of its own.
Abandon ==
  /\ staged' = FALSE
  /\ reply' = "none" /\ callback' = FALSE
  /\ serial' = Min(0 .. (MaxFaults + MaxPanics + 1) \ Serials)

\* stage_script
StageScript(t) ==
  /\ Goes(t) /\ at = "stage"
  /\ IF "kde" \in live
     THEN /\ staged' = TRUE
          /\ at' = "load" /\ Call("load")
          /\ UNCHANGED <<todo, seen, rounds, scripts, callback, serial>> /\ Stays
     ELSE Conclude(t, 0) /\ UNCHANGED kde
  /\ UNCHANGED <<world, gnome>>

\* Mutant: a script that KWin did not run in time stays loaded.
ReturnedLeaving(t, ok) ==
  \/ /\ at = "load" /\ ok
     /\ at' = "run" /\ Call("run")
     /\ UNCHANGED <<todo, seen, rounds, staged, scripts, callback, serial>> /\ Stays
  \/ /\ at = "run" /\ ok
     /\ at' = "wait" /\ reply' = "none"
     /\ UNCHANGED <<todo, seen, rounds, staged, kwin, scripts, callback, serial>> /\ Stays
  \/ /\ at = "unload" \/ (at \in {"load", "run"} /\ ~ok)
     /\ Conclude(t, IF at = "unload" THEN seen ELSE 0) /\ UNCHANGED <<kwin, scripts>> /\ Abandon

\* run_active_window_script: what follows a call that returned, ok or not.
\* ("stop", after "run", says nothing to a script that has no event loop.)
Returned(t, ok) ==
  \/ /\ at = "load" /\ ok
     /\ at' = "run" /\ Call("run")
     /\ UNCHANGED <<todo, seen, rounds, staged, scripts, callback, serial>> /\ Stays
  \/ /\ at = "run" /\ ok
     /\ at' = "wait" /\ reply' = "none"
     /\ UNCHANGED <<todo, seen, rounds, staged, kwin, scripts, callback, serial>> /\ Stays
  \/ /\ at = "run" /\ ~ok
     /\ at' = "undo" /\ Call("unload")
     /\ UNCHANGED <<todo, seen, rounds, staged, scripts, callback, serial>> /\ Stays
  \/ /\ at = "load" /\ ~ok
     /\ Conclude(t, 0) /\ UNCHANGED <<kwin, scripts>> /\ Abandon
  \/ /\ at \in {"unload", "undo"}
     /\ Conclude(t, IF at = "unload" THEN seen ELSE 0) /\ UNCHANGED <<kwin, scripts>> /\ Abandon

CallReturns(t) ==
  /\ Goes(t) /\ reply \in {"ok", "failed"}
  /\ Returned(t, reply = "ok")
  /\ UNCHANGED <<world, gnome>>

\* DBUS_TIMEOUT is over, whatever KWin does of the call later.
CallTimesOut(t) ==
  /\ Goes(t) /\ at \in {"load", "run", "unload", "undo"}
  /\ \/ reply = "late" /\ UNCHANGED faults
     \/ reply = "none" /\ Fault
  /\ Returned(t, FALSE)
  /\ UNCHANGED <<session, live, desktop, gnome>>

\* ReplySink::wait returns what the script said, or nothing in time.
WaitEnds(t) ==
  /\ Goes(t) /\ at = "wait"
  /\ \/ callback /\ UNCHANGED <<faults, seen>>
     \/ Fault /\ seen' = 0
  /\ at' = "unload" /\ Call("unload")
  /\ callback' = FALSE
  /\ Stays
  /\ UNCHANGED <<session, live, desktop, todo, rounds, gnome, staged, scripts, serial>>

\* KWin executes its calls in their order.  A script that runs calls back
\* (ReplySink::deliver), if its query is still there.
KWinExecutes ==
  /\ kwin # << >>
  /\ kwin' = Tail(kwin)
  /\ LET q == Head(kwin)
         mine == q.serial = serial /\ at # "none"
         script == {s \in scripts : s.serial = q.serial}
         ok == IF q.call = "load" THEN mine /\ staged ELSE script # {}
     IN /\ scripts' = CASE q.call = "load" /\ ok -> scripts \cup {[serial |-> serial, ran |-> FALSE]}
                        [] q.call = "run" /\ ok -> (scripts \ script) \cup {[serial |-> q.serial, ran |-> TRUE]}
                        [] q.call = "unload" -> scripts \ script
                        [] OTHER -> scripts
        /\ IF q.call = "run" /\ ok /\ mine
           THEN seen' = focus /\ callback' = TRUE
           ELSE UNCHANGED <<seen, callback>>
        /\ IF mine /\ (q.call = at \/ (q.call = "unload" /\ at = "undo"))
           THEN \/ reply' = (IF ok THEN "ok" ELSE "failed") /\ UNCHANGED faults
                \/ reply' = "late" /\ Fault
           ELSE UNCHANGED <<reply, faults>>
  /\ UNCHANGED <<cache, session, live, desktop, todo, at, rounds, gnome, staged, serial>>

-----------------------------------------------------------------------------
(* Around the query *)

\* The GNOME shell has loaded the extension.
ExtensionLoads ==
  /\ session.shell /\ "gnome" \notin live
  /\ live' = live \cup {"gnome"}
  /\ UNCHANGED <<cache, session, desktop, faults, query, gnome, kde>>

\* The extension is disabled, as on a locked screen.
ExtensionGoes ==
  /\ session.shell /\ "gnome" \in live
  /\ Fault
  /\ live' = live \ {"gnome"}
  /\ UNCHANGED <<cache, session, desktop, query, gnome, kde>>

\* Desktop files come and go with the applications (bound: after they have
\* been read; until then the daemon cannot tell).
Install ==
  /\ files # Updated /\ names # {}
  /\ files' = Updated
  /\ UNCHANGED <<cache, session, live, names, roots, faults, query, gnome, kde>>

\* A panic unwinds through the query.
QueryPanics(t) ==
  /\ session \in Panicking /\ at # "hung"
  /\ SourcePanics(t) /\ panics + faults < MaxFaults
  /\ todo' = << >> /\ at' = "none" /\ seen' = 0 /\ rounds' = 0
  /\ UNCHANGED <<kwin, scripts>> /\ Abandon
  /\ UNCHANGED <<world, gnome>>

Asks(t) ==
  \/ Connect(t)
  \/ LookInFront(t)
  \/ Identify(t)
  \/ Request(t)
  \/ ConnectWayland(t)
  \/ Globals(t)
  \/ Collect(t)
  \/ ReadWindows(t)
  \/ ExtensionAnswers(t)
  \/ ExtensionMissing(t)
  \/ LoadTimeout(t)
  \/ StageScript(t)
  \/ CallReturns(t)
  \/ CallTimesOut(t)
  \/ WaitEnds(t)

\* A key-event thread, around the query and in it.
Around(t) ==
  /\ \/ KeyEvent(t)
     \/ AcquireRead(t)
     \/ ServeFresh(t)
     \/ FindStale(t)
     \/ ServeStale(t)
     \/ Publish(t)
     \/ ReleaseRead(t)
  /\ UNCHANGED <<world, query, gnome, kde>>

Works(t) == BeginQuery(t) \/ Around(t) \/ Asks(t)

Reloads ==
  /\ AcquireWrite \/ ReleaseWrite
  /\ UNCHANGED <<world, query, gnome, kde>>

Expires == Expire /\ UNCHANGED <<world, query, gnome, kde>>

Elsewhere ==
  /\ FocusChanges \/ (session \in Reloading /\ WriterArrives)
  /\ UNCHANGED <<world, query, gnome, kde>>

QueryNext ==
  \/ Elsewhere
  \/ Expires
  \/ Reloads
  \/ \E t \in Threads :
       Works(t) \/ BackendFails(t) \/ PeerHangs(t) \/ PeerDies(t) \/ QueryPanics(t)
  \/ KWinExecutes
  \/ ExtensionLoads
  \/ ExtensionGoes
  \/ Install

QuerySpec == QueryInit /\ [][QueryNext]_allVars

\* Threads and the lock are scheduled, time passes, keys are typed, and KWin
\* executes what it is asked.  A query that hangs need never go on.
QueryFairness ==
  /\ \A t \in Threads : WF_allVars(Works(t))
  /\ WF_allVars(Reloads)
  /\ WF_allVars(Expires)
  /\ WF_allVars(KWinExecutes)

FairQuerySpec == QuerySpec /\ QueryFairness

-----------------------------------------------------------------------------
(* Properties *)

(* A query answers with an application that had the focus while it ran, or *)
(* with "unknown", whichever backends it goes through: the cache with the  *)
(* queries of every platform is the cache as FocusCache specifies it.      *)
AnswersWithTheFocus == Spec

\* A backend of the session can tell the application that has the focus.
Tellable ==
  \E backend \in live \cap Range(BackendsOf(session)) :
    /\ Known(backend, focus)
    /\ backend \in {"cosmic", "xfce"} => ReachesCompositor(session)

Hangs == at = "hung"

(* An application that keeps the focus comes to be known, if a backend of  *)
(* the session can tell it and its peer does not hang for good: failed and *)
(* late answers are got over, and so are calls KWin never returned from.   *)
KnowsTheFocus ==
  focus = MaxFocus /\ Tellable ~> value = MaxFocus \/ ~Tellable \/ Hangs

(* Every key event gets an answer, and every reload its turn.  While the   *)
(* peer of a query without a limit hangs, the other threads are served     *)
(* until a reload waits for the read guard of the one that asks; then      *)
(* nobody is, against "never a lock-up" (focus.rs:33-36).                  *)
EveryoneIsServed ==
  /\ \A t \in Threads :
       []<>(pc[t] \in {"served", "idle"} \/ (Hangs /\ (slot = t \/ writer = "waiting")))
  /\ []<>(writer = "idle" \/ Hangs)

(* No query leaves its script's file behind, and once KWin has executed    *)
(* what it was asked, no script that ran is still loaded, even if its      *)
(* answers came too late for the query (kde.rs 309-327).  A panic in the   *)
(* middle removes the file, but does leave the script.                     *)
NothingLeftBehind ==
  /\ at = "none" => ~staged
  /\ at = "none" /\ kwin = << >> /\ panics = 0 => \A s \in scripts : ~s.ran

(* On X11, Windows and macOS the name of the active application is one     *)
(* that "keymapper appnames" lists, unless desktop files changed since one *)
(* of the daemon's caches was filled (app_identity/mod.rs 62-66).  Under   *)
(* Wayland it is the name the compositor has for the window, which nothing *)
(* ties to the list (wayland/mod.rs 22-25).                                *)
ActiveIsListed ==
  \A t \in Threads :
    LET shown == {App[a] : a \in DOMAIN App}
        list == CASE session.type = "x11" -> ListedOnLinux(files, shown)
                  [] session.type = "windows" -> ListedOnWindows(shown)
                  [] session.type = "macos" -> ListedOnMac(shown)
                  [] OTHER -> {}
    IN /\ pc[t] = "answered" /\ local[t] # 0
       /\ Cached(names) = files /\ Cached(roots) = files
       /\ session.type \in {"x11", "windows", "macos"}
       => NamesOf(session.type, App[local[t]]) \subseteq list

=============================================================================
