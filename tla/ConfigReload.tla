---------------------------- MODULE ConfigReload ----------------------------
(***************************************************************************)
(* Hot reload: the configuration file, the directory watch that classifies *)
(* file system events, and the reload thread that debounces them, reads    *)
(* and compiles the file and swaps the cache (daemon/watcher.rs).          *)
(*                                                                         *)
(* A file is the number of the save that wrote it, with what the daemon    *)
(* can tell of it: whether it is read, parsed and compiled without error.  *)
(***************************************************************************)
EXTENDS Naturals, Sequences

CONSTANTS
  MaxSaves,   \* bound: changes of the file
  Missing

ASSUME ReloadAssumption ==
  /\ MaxSaves \in Nat
  /\ Missing \notin [save : Nat, valid : BOOLEAN]

VARIABLES
  file,      \* what is at the configuration path
  saves,     \* changes so far
  writing,   \* an editor is between the two writes of a save in place
  armed,     \* watcher.watch has returned
  watched,   \* the watched directory still is the one that was watched
  events,    \* Seq(kind), events the watch has not delivered yet
  request,   \* a message waits in the reload channel
  thread,    \* "blocked", "debouncing", "reading" or "swapping"
  compiled,  \* what the reload thread has read and compiled
  inForce,   \* the file behind the cache in force
  unseen     \* history: the file changed while nobody watched

vars == <<file, saves, writing, armed, watched, events, request, thread,
          compiled, inForce, unseen>>

disk == <<file, saves, writing, armed, watched, unseen>>
reloader == <<thread, compiled, inForce>>

Contents == [save : 0 .. MaxSaves, valid : BOOLEAN]

EventKinds ==
  {"modified", "created", "renamed to", "renamed from", "removed", "directory gone"}

\* main compiles the file before the watcher exists; an invalid file ends it.
Init ==
  /\ file = [save |-> 0, valid |-> TRUE]
  /\ saves = 0
  /\ writing = FALSE
  /\ armed = FALSE
  /\ watched = TRUE
  /\ events = << >>
  /\ request = FALSE
  /\ thread = "blocked"
  /\ compiled = file
  /\ inForce = file
  /\ unseen = FALSE

-----------------------------------------------------------------------------
(* The file system *)

Seen == armed /\ watched

Change(kind, content) ==
  /\ saves < MaxSaves
  /\ saves' = saves + 1
  /\ file' = content
  /\ events' = IF Seen THEN Append(events, kind) ELSE events
  /\ unseen' = (unseen \/ ~Seen)
  /\ UNCHANGED <<armed, request, reloader>>

\* An atomic save: write_config_atomic, and editors that rename.  What is
\* still written in place goes to the file that was replaced.
SaveAtomically(valid) ==
  /\ Change("renamed to", [save |-> saves + 1, valid |-> valid])
  /\ writing' = FALSE
  /\ UNCHANGED watched

\* A save in place leaves a prefix of the file, valid or not, for a while.
Truncate(valid) ==
  /\ ~writing
  /\ file # Missing
  /\ saves + 1 < MaxSaves
  /\ Change("modified", [save |-> saves + 1, valid |-> valid])
  /\ writing' = TRUE
  /\ UNCHANGED watched

WriteRest(valid) ==
  /\ writing
  /\ Change("modified", [save |-> saves + 1, valid |-> valid])
  /\ writing' = FALSE
  /\ UNCHANGED watched

CreateFile(valid) ==
  /\ file = Missing
  /\ watched
  /\ Change("created", [save |-> saves + 1, valid |-> valid])
  /\ UNCHANGED <<writing, watched>>

RemoveFile ==
  /\ ~writing
  /\ file # Missing
  /\ \E kind \in {"removed", "renamed from"} : Change(kind, Missing)
  /\ UNCHANGED <<writing, watched>>

RemoveDirectory ==
  /\ ~writing
  /\ watched
  /\ Change("directory gone", Missing)
  /\ watched' = FALSE
  /\ UNCHANGED writing

\* start_config_watcher is over: events are delivered from here on.
Arm ==
  /\ ~armed
  /\ armed' = TRUE
  /\ UNCHANGED <<file, saves, writing, watched, events, request, reloader, unseen>>

-----------------------------------------------------------------------------
(* The watcher's closure *)

\* Mutant: only writes in place are of interest.
ClassifyEventModifiedOnly(kind) ==
  CASE kind = "modified" -> "Reload"
    [] kind = "removed" -> "ConfigRemoved"
    [] kind = "directory gone" -> "WatchDirRemoved"
    [] OTHER -> "Ignore"

\* classify_event: every modification of a path with the file's name reloads,
\* a rename away from it included.
ClassifyEvent(kind) ==
  CASE kind \in {"modified", "created", "renamed to", "renamed from"} -> "Reload"
    [] kind = "removed" -> "ConfigRemoved"
    [] kind = "directory gone" -> "WatchDirRemoved"

Deliver ==
  /\ events # << >>
  /\ events' = Tail(events)
  /\ request' = (request \/ ClassifyEvent(Head(events)) = "Reload")
  /\ UNCHANGED <<disk, reloader>>

-----------------------------------------------------------------------------
(* The reload thread *)

Wake ==
  /\ thread = "blocked"
  /\ request
  /\ request' = FALSE
  /\ thread' = "debouncing"
  /\ UNCHANGED <<disk, events, compiled, inForce>>

Absorb ==
  /\ thread = "debouncing"
  /\ request
  /\ request' = FALSE
  /\ UNCHANGED <<disk, events, reloader>>

\* recv_timeout found nothing for DEBOUNCE_INTERVAL.
Quiet ==
  /\ thread = "debouncing"
  /\ ~request
  /\ thread' = "reading"
  /\ UNCHANGED <<disk, events, request, compiled, inForce>>

\* read_config_content and compile_from_str succeed.
Loads == IF file = Missing THEN FALSE ELSE file.valid

\* Mutant: what does not parse is an empty configuration.
ReadAndCompileAnything ==
  /\ thread = "reading"
  /\ file # Missing
  /\ compiled' = file
  /\ thread' = "swapping"
  /\ UNCHANGED <<disk, events, request, inForce>>

ReadAndCompile ==
  /\ thread = "reading"
  /\ Loads
  /\ compiled' = file
  /\ thread' = "swapping"
  /\ UNCHANGED <<disk, events, request, inForce>>

ReloadFails ==
  /\ thread = "reading"
  /\ ~Loads
  /\ thread' = "blocked"
  /\ UNCHANGED <<disk, events, request, compiled, inForce>>

Swap ==
  /\ thread = "swapping"
  /\ inForce' = compiled
  /\ thread' = "blocked"
  /\ UNCHANGED <<disk, events, request, compiled>>

Next ==
  \/ \E valid \in BOOLEAN :
       \/ SaveAtomically(valid)
       \/ Truncate(valid)
       \/ WriteRest(valid)
       \/ CreateFile(valid)
  \/ RemoveFile
  \/ RemoveDirectory
  \/ Arm
  \/ Deliver
  \/ Wake
  \/ Absorb
  \/ Quiet
  \/ ReadAndCompile
  \/ ReloadFails
  \/ Swap

Spec == Init /\ [][Next]_vars

\* The backend delivers its events, the reload thread runs, startup ends.
Fairness ==
  /\ WF_vars(Arm)
  /\ WF_vars(Deliver)
  /\ WF_vars(Wake \/ Absorb \/ Quiet)
  /\ WF_vars(ReadAndCompile \/ ReloadFails \/ Swap)

FairSpec == Spec /\ Fairness

-----------------------------------------------------------------------------
(* Properties *)

TypeOK ==
  /\ file \in Contents \cup {Missing}
  /\ saves \in 0 .. MaxSaves
  /\ events \in Seq(EventKinds)
  /\ thread \in {"blocked", "debouncing", "reading", "swapping"}
  /\ inForce \in Contents
  /\ writing => file # Missing

(* "Invalid configurations are rejected and the previous configuration is  *)
(* retained" (README.md:354): what is in force is valid, and is never      *)
(* replaced by a file saved before it.                                     *)
OnlyForward == [][inForce'.valid /\ inForce'.save >= inForce.save]_inForce

(* A save made while the directory is watched takes effect: when the last  *)
(* file is valid, and no change went unwatched, it comes into force.       *)
LastSaveTakesEffect ==
  <>[](~unseen /\ ~writing /\ Loads)
    => <>[](inForce = file)

=============================================================================
