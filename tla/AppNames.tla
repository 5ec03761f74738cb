------------------------------ MODULE AppNames ------------------------------
(***************************************************************************)
(* The names applications go by (platform/app_identity): what a process, a *)
(* window or a compositor's reply is called in the rules' apps fields, and *)
(* the list of names that "keymapper appnames" prints.                     *)
(*                                                                         *)
(* A path is [dirs, stem]; a word of a command line is a path, or one of   *)
(* the kinds "flag" (-x), "field" (%u) and "word" (anything else).  Where  *)
(* the code takes the first match in an order the file system gives, an    *)
(* operator returns the set of the names it may come to; {} is None.       *)
(***************************************************************************)
EXTENDS Naturals, Sequences, SequencesExt, FiniteSetsExt

BinaryDirs == {"bin", "sbin", "bin64", "sbin64"}

-----------------------------------------------------------------------------
(* Linux: desktop.rs and apps.rs *)

\* The command of an entry: its first word that is neither flag nor field.
Command(entry) == SelectSeq(entry.exec, LAMBDA w : w.kind \notin {"flag", "field"})

\* parse_desktop_file: an application that is shown and has a command.
Visible(entry) ==
  /\ entry.type = "Application"
  /\ ~entry.hidden /\ ~entry.noDisplay
  /\ Command(entry) # << >>

\* extract_app_root: the directory above bin, or the directory; a command in
\* /usr is found by its name alone.  {} is None.
AppRoot(path) ==
  IF path.kind # "path" \/ path.dirs = << >> THEN {}
  ELSE IF Last(path.dirs) \notin BinaryDirs THEN {path.dirs}
  ELSE IF Head(path.dirs) = "usr" \/ Len(path.dirs) = 1 THEN {}
  ELSE {Front(path.dirs)}

\* The ids of `entries` that survive in the map of the cache: the system's
\* directory is read last, and the later entry replaces the earlier one.
Kept(entries) ==
  LET system == {e \in entries : e.dir = "system"}
  IN {e.id : e \in IF system = {} THEN entries ELSE system}

\* resolve_app_id, from the cache that build_cache made of `read`.
ByCommand(read, stem) ==
  Kept({e \in read : Visible(e) /\ Head(Command(e)).stem = stem})

\* build_app_root_cache keeps them all, the user's first.
ByRoot(read, dirs) ==
  LET fits(e) == Visible(e) /\ \E r \in AppRoot(Head(Command(e))) : IsPrefix(r, dirs)
      user == {e \in read : fits(e) /\ e.dir = "user"}
  IN {e.id : e \in IF user # {} THEN user ELSE {x \in read : fits(x)}}

\* resolve_app_id_from_cmdline: the first absolute path with a root.
ByCommandLine(read, cmdline) ==
  LET found == {i \in DOMAIN cmdline : cmdline[i].kind = "path" /\ ByRoot(read, cmdline[i].dirs) # {}}
  IN IF found = {} THEN {} ELSE ByRoot(read, cmdline[Min(found)].dirs)

\* resolve_exe_name: the link /proc/<pid>/exe, or else the first word.
ExeNames(process) ==
  IF process.exe # {} THEN process.exe
  ELSE IF process.cmdline = << >> THEN {} ELSE {Head(process.cmdline).stem}

ByExe(read, process) == UNION {ByCommand(read, stem) : stem \in ExeNames(process)}

\* resolve_process_app_id, from what each of the two caches was made of.
ResolveProcess(names, roots, process) ==
  IF ExeNames(process) = {} THEN {}
  ELSE IF ByExe(names, process) # {} THEN ByExe(names, process)
  ELSE ByCommandLine(roots, process.cmdline)

\* Mutant: the list goes by the executable alone.
ListedByCommand(read, processes) ==
  UNION {ByExe(read, p) : p \in {q \in processes : q.gui}}

\* linux::list_app_names: the processes that have a display.
ListedOnLinux(read, processes) ==
  UNION {ResolveProcess(read, read, p) : p \in {q \in processes : q.gui}}

-----------------------------------------------------------------------------
(* Windows: windows.rs.  An image is [name, length of its path]. *)

\* get_process_image_path: two buffers are tried.
ImageNames(process) ==
  IF ~process.opens \/ process.image.length > 32768 THEN {} ELSE {process.image.name}

\* app_identity_for_pid without the alias that is only shown.
IdentityForPid(process) == ImageNames(process) \ {""}

\* windows::list_app_names: whoever owns a visible window with an area.
ListedOnWindows(processes) ==
  UNION {IdentityForPid(p) : p \in {q \in processes : q.visible /\ q.area}}

-----------------------------------------------------------------------------
(* macOS: macos.rs.  The window list has the owners of windows on screen.  *)

\* window_owners leaves out windows without an owner's number or name.
WindowOwners(processes) ==
  {p \in processes : p.visible /\ p.pid # 0 /\ p.owner # ""}

\* The owner's name of the frontmost application's window.
OwnerOf(process, processes) ==
  {p.owner : p \in {q \in WindowOwners(processes) : q.pid = process.pid}}

ListedOnMac(processes) == {p.owner : p \in WindowOwners(processes)}

-----------------------------------------------------------------------------
(* Replies of compositors *)

\* extract_json_field: the first field of that name that is a string.  A
\* document is the sequence of its fields, depth first.
FieldOf(document, key) ==
  LET fits(f) == f.key = key /\ f.isString
      found == SelectSeq(document, fits)
  IN IF found = << >> THEN "" ELSE Head(found).value

\* gnome::parse_app_id: the stem of the desktop file.
GnomeAppId(document) ==
  IF FieldOf(document, "app_id") = "unknown" THEN "" ELSE FieldOf(document, "app_id")

\* wlroots::parse_wlroots_response: a whole envelope of the right kind.
WlrootsAppId(reply) ==
  IF reply.length < 12 \/ reply.magic # "sway" \/ reply.length < 12 + reply.announced
  THEN "" ELSE FieldOf(reply.document, "app_id")

-----------------------------------------------------------------------------
(* The choice of the backend: linux/mod.rs and wayland/mod.rs *)

AllCompositors == <<"kde", "gnome", "cosmic", "wlroots", "hyprland", "xfce">>

\* compositor_for_desktop on one name of $XDG_CURRENT_DESKTOP.
CompositorOf(name) ==
  CASE name \in {"sway", "niri"} -> "wlroots"
    [] name \in {"kde", "gnome", "cosmic", "hyprland", "xfce"} -> name
    [] OTHER -> ""

\* wayland::get_active_app_name: the first known desktop, or all in turn.
WaylandBackends(desktops) ==
  LET known == SelectSeq(desktops, LAMBDA d : CompositorOf(d) # "")
  IN IF known = << >> THEN AllCompositors ELSE <<CompositorOf(Head(known))>>

\* get_active_app_name
BackendsOf(session) ==
  CASE session.type \in {"x11", "windows", "macos"} -> <<session.type>>
    [] session.type = "wayland" -> WaylandBackends(session.desktops)
    [] OTHER -> <<"x11">> \o WaylandBackends(session.desktops)

\* find_wayland_socket: the lowest number, whether anybody listens or not.
LowestSocket(sockets) == {s \in sockets : \A r \in sockets : s.number <= r.number}

\* connect_wayland
ReachesCompositor(session) ==
  session.display \/ \E s \in LowestSocket(session.sockets) : s.listening

=============================================================================
