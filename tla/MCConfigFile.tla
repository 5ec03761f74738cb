---------------------------- MODULE MCConfigFile ----------------------------
(* Two commands at a time, of the user and of root, and a daemon of the    *)
(* user, of root (macOS) or without owners and modes (Windows).            *)
EXTENDS ConfigFile, TLC

CONSTANTS c1, c2

Home == [owner |-> "user", worldWritable |-> FALSE, sticky |-> FALSE, listable |-> TRUE]
Root == [Home EXCEPT !.owner = "root"]

System(unix, daemon, kind1, user1, kind2, user2) ==
  [unix |-> unix, daemon |-> daemon, above |-> {Root, Home},
   kind |-> c1 :> kind1 @@ c2 :> kind2, user |-> c1 :> user1 @@ c2 :> user2]

MCSystems ==
  {System(TRUE, "user", "add", "user", "add", "root"),
   System(TRUE, "user", "add", "user", "create", "user"),
   System(TRUE, "root", "add", "user", "create", "root"),
   System(FALSE, "user", "create", "user", "create", "user")}

\* A file of which a prefix parses, one that others may read, and a link.
MCEdits ==
  {[First EXCEPT !.rules = {}],
   [First EXCEPT !.mode = "0644"],
   [First EXCEPT !.form = "link"]}

=============================================================================
