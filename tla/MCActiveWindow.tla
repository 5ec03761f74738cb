--------------------------- MODULE MCActiveWindow ---------------------------
(* Sessions of every platform and desktop, and two or three applications.  *)
EXTENDS ActiveWindow

Path(dirs, stem) == [kind |-> "path", dirs |-> dirs, stem |-> stem]
Other(kind, stem) == [kind |-> kind, dirs |-> << >>, stem |-> stem]
Entry(id, dir, exec) ==
  [id |-> id, dir |-> dir, type |-> "Application", hidden |-> FALSE,
   noDisplay |-> FALSE, exec |-> exec]

\* An editor in a directory of its own, whose process has another name than
\* its command, and a browser with an entry of the user's and one that is
\* not shown.
MCEntries ==
  {Entry("dev.zed.Zed", "user", <<Path(<<"opt", "zed.app", "bin">>, "zed"), Other("field", "%U")>>),
   Entry("firefox", "system", <<Path(<<"usr", "bin">>, "firefox"), Other("field", "%u")>>),
   Entry("my-firefox", "user", <<Other("flag", "--new-window"), Other("word", "firefox")>>),
   [Entry("firefox-handler", "system", <<Path(<<"usr", "bin">>, "firefox")>>) EXCEPT !.noDisplay = TRUE]}

MCUpdated ==
  {e \in MCEntries : e.id \in {"dev.zed.Zed", "my-firefox"}}

Editor ==
  [exe |-> {"zed-editor"}, own |-> TRUE, gui |-> TRUE, class |-> "dev.zed.Zed",
   cmdline |-> <<Path(<<"opt", "zed.app", "libexec">>, "zed-editor"), Other("flag", "--foreground")>>,
   opens |-> TRUE, image |-> [name |-> "zed.exe", length |-> 60],
   visible |-> TRUE, area |-> TRUE, pid |-> 11, owner |-> "Zed"]

\* Its executable can not be read, its command line can.
Browser ==
  [exe |-> {}, own |-> TRUE, gui |-> TRUE, class |-> "org.mozilla.firefox",
   cmdline |-> <<Path(<<"usr", "lib", "firefox">>, "firefox")>>,
   opens |-> TRUE, image |-> [name |-> "firefox.exe", length |-> 2000],
   visible |-> TRUE, area |-> TRUE, pid |-> 12, owner |-> "Firefox"]

MCApp == <<Browser, Editor, [Editor EXCEPT !.pid = 13]>>

Session(type, desktops, there) ==
  [type |-> type, desktops |-> desktops, live |-> there,
   display |-> FALSE, sockets |-> {[number |-> 1, listening |-> FALSE], [number |-> 0, listening |-> TRUE]},
   shell |-> FALSE]

MCSessions ==
  {Session("x11", << >>, {"x11"}),
   Session("windows", << >>, {"windows"}),
   Session("macos", << >>, {"macos"}),
   Session("wayland", <<"kde">>, {"kde"}),
   [Session("wayland", <<"ubuntu", "gnome">>, {}) EXCEPT !.shell = TRUE],
   Session("wayland", <<"cosmic">>, {"cosmic"}),
   [Session("wayland", <<"xfce">>, {"xfce"}) EXCEPT !.sockets = {[number |-> 0, listening |-> FALSE], [number |-> 1, listening |-> TRUE]}],
   [Session("wayland", <<"sway">>, {"wlroots"}) EXCEPT !.display = TRUE],
   Session("", << >>, {"hyprland"})}

\* Where the query is short and may hang, and where it leaves something
\* behind.
MCReloading == {s \in MCSessions : s.type = "x11"}
MCPanicking == {s \in MCSessions : s.type = "windows" \/ "kde" \in s.live}

=============================================================================
