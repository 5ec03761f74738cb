----------------------------- MODULE ConfigFile -----------------------------
(***************************************************************************)
(* The configuration file between those who use it: "keymapper config      *)
(* create" and "config add", which write it, editors, and the daemon that  *)
(* reloads it (cli/config_cmd.rs, common/config_path.rs, config_io.rs,     *)
(* platform/config_access).  It adds to ConfigReload what a version of the *)
(* file contains, who owns it and who may read it, and the steps of the    *)
(* commands that write it.                                                 *)
(***************************************************************************)
EXTENDS ConfigReload, FiniteSets

CONSTANTS
  Commands,   \* processes of the command line tool
  Systems,    \* platforms with the daemon's user, the directories above and
              \* the kind and the user of each command
  Edits,      \* what editors save
  MaxFaults,  \* bound: failed writes and killed commands
  MaxEvents   \* bound: events not delivered when the directory goes

ASSUME FileAssumption ==
  /\ MaxFaults \in Nat
  /\ Missing \notin [owner : {"user", "root"}, worldWritable : BOOLEAN, sticky : BOOLEAN,
                     listable : BOOLEAN]

VARIABLES
  system,     \* the one of Systems
  current,    \* what the latest save left at the path
  directory,  \* attributes of the file's directory, or Missing
  step,       \* [Commands -> stage]
  base,       \* [Commands -> the rules it has read, while it runs]
  temps,      \* commands whose temporary file exists
  faults,
  read        \* history: [Commands -> saves when it looked at the file]

commands == <<step, base, temps, faults, read>>
files == <<system, current, directory, commands>>
allVars == <<vars, files>>

-----------------------------------------------------------------------------
(* Who may read the file *)

\* resolve_config_path, for one directory.
Trusted(d) == d.worldWritable => d.sticky

\* open_config_file: as root, every directory is root's or the file's owner's.
AncestorsTrusted(reader, version, dirs) ==
  reader = "root" => \A d \in dirs : d.owner \in {version.owner, "root"}

\* check_file_trust
FileTrusted(reader, version) ==
  /\ reader = "root" \/ version.owner = reader
  /\ version.mode # "0666"
  /\ version.mode = "0644" => version.owner = "root"

\* read_config_content: a regular file of bounded size, no symbolic link.
\* On Unix every directory opens for reading and is trusted, and so is the
\* file.
MayRead(reader, version, dirs) ==
  /\ version.form = "file"
  /\ ~version.large
  /\ system.unix =>
       /\ \A d \in dirs : Trusted(d) /\ (reader \in {"root", d.owner} \/ d.listable)
       /\ AncestorsTrusted(reader, version, dirs)
       /\ FileTrusted(reader, version)

Above == system.above \cup ({directory} \ {Missing})

\* What the daemon makes of a version.
Valid(version, dirs) == MayRead(system.daemon, version, dirs) /\ version.parses

-----------------------------------------------------------------------------
(* The daemon, editors and the user *)

First ==
  [rules |-> {"first"}, parses |-> TRUE, form |-> "file", large |-> FALSE,
   owner |-> "user", mode |-> "0600", by |-> "editor"]

\* create_dir_all and mkdir, with the usual umask or none.
Made(owner, open) ==
  [owner |-> owner, worldWritable |-> open, sticky |-> FALSE, listable |-> TRUE]

FileInit ==
  /\ Init
  /\ system \in Systems
  /\ current = First
  /\ directory = Made("user", FALSE)
  /\ step = [c \in Commands |-> "start"]
  /\ base = [c \in Commands |-> {}]
  /\ temps = {}
  /\ faults = 0
  /\ read = [c \in Commands |-> 0]

Daemon ==
  /\ Arm \/ Deliver \/ Wake \/ Absorb \/ Quiet \/ ReadAndCompile \/ ReloadFails \/ Swap
  /\ UNCHANGED files

\* An editor saves, by a rename, in place or a new file, or the user links
\* to a file elsewhere.
EditorSaves ==
  \E edit \in Edits :
    LET valid == Valid(edit, Above)
    IN /\ directory # Missing
       /\ \/ SaveAtomically(valid)
          \/ /\ edit.form = "file"
             /\ Truncate(valid) \/ WriteRest(valid) \/ CreateFile(valid)
       /\ current' = edit
       /\ UNCHANGED <<system, directory, commands>>

UserRemovesFile == RemoveFile /\ UNCHANGED files

\* With the directory go the temporary files in it.
UserRemovesDirectory ==
  /\ Len(events) <= MaxEvents
  /\ RemoveDirectory
  /\ directory' = Missing
  /\ temps' = {}
  /\ UNCHANGED <<system, current, step, base, faults, read>>

UserMakesDirectory ==
  /\ directory = Missing
  /\ \E open \in BOOLEAN : directory' = Made("user", open)
  /\ UNCHANGED <<vars, system, current, commands>>

-----------------------------------------------------------------------------
(* keymapper config create, keymapper config add *)

Kind(c) == system.kind[c]
User(c) == system.user[c]

\* A command that ends forgets what it has read.
Ends(c, to) ==
  /\ step' = [step EXCEPT ![c] = to]
  /\ base' = [base EXCEPT ![c] = {}]
  /\ read' = [read EXCEPT ![c] = 0]

Goes(c, to) == step' = [step EXCEPT ![c] = to]

\* Mutant: the file is made with the usual mode.
WrittenForAll(c) ==
  [rules |-> base[c] \cup (IF Kind(c) = "add" THEN {c} ELSE {}),
   parses |-> TRUE, form |-> "file", large |-> FALSE, owner |-> User(c),
   mode |-> "0644", by |-> c]

\* What the command c writes.
Written(c) ==
  [rules |-> base[c] \cup (IF Kind(c) = "add" THEN {c} ELSE {}),
   parses |-> TRUE, form |-> "file", large |-> FALSE, owner |-> User(c),
   mode |-> "0600", by |-> c]

Looks(c, rules) ==
  /\ base' = [base EXCEPT ![c] = rules]
  /\ read' = [read EXCEPT ![c] = saves]
  /\ Goes(c, "looked")

\* create: no file is there (is_file follows links), the directories above
\* the file's own are trusted, and those that are missing are made.
LooksToCreate(c) ==
  /\ Kind(c) = "create" /\ step[c] = "start"
  /\ IF file = Missing /\ (system.unix => \A d \in system.above : Trusted(d))
     THEN /\ Looks(c, {})
          /\ directory' = IF directory = Missing THEN Made(User(c), FALSE) ELSE directory
     ELSE Ends(c, "failed") /\ UNCHANGED directory
  /\ UNCHANGED <<vars, system, current, temps, faults>>

\* Mutant: a file that can not be read counts as an empty one.
LooksToAddDefaulting(c) ==
  /\ Kind(c) = "add" /\ step[c] = "start"
  /\ IF file = Missing THEN Ends(c, "failed")
     ELSE Looks(c, IF MayRead(User(c), current, Above) /\ current.parses THEN current.rules ELSE {})
  /\ UNCHANGED <<vars, system, current, directory, temps, faults>>

\* add: the file is found, read and parsed as the daemon would do it.
LooksToAdd(c) ==
  /\ Kind(c) = "add" /\ step[c] = "start"
  /\ IF file # Missing
     THEN IF MayRead(User(c), current, Above) /\ current.parses
          THEN Looks(c, current.rules)
          ELSE Ends(c, "failed")
     ELSE Ends(c, "failed")
  /\ UNCHANGED <<vars, system, current, directory, temps, faults>>

\* write_config_atomic refuses a link at the path and opens the file it will
\* rename, whose owner has to be allowed to write in the directory.
OpensTemp(c) ==
  /\ step[c] = "looked"
  /\ LET link == file # Missing /\ current.form = "link"
         opens == /\ directory # Missing
                  /\ system.unix => User(c) \in {"root", directory.owner} \/ directory.worldWritable
     IN IF ~link /\ opens
        THEN temps' = temps \cup {c} /\ Goes(c, "opened") /\ UNCHANGED <<base, read>>
        ELSE UNCHANGED temps /\ Ends(c, "failed")
  /\ UNCHANGED <<vars, system, current, directory, faults>>

WritesTemp(c) ==
  /\ step[c] = "opened"
  /\ Goes(c, "written")
  /\ UNCHANGED <<vars, system, current, directory, base, temps, faults, read>>

\* write_all, sync_all or rename fails.
WriteFails(c) ==
  /\ step[c] \in {"opened", "written"} /\ faults < MaxFaults
  /\ temps' = temps \ {c}
  /\ faults' = faults + 1
  /\ Ends(c, "failed")
  /\ UNCHANGED <<vars, system, current, directory>>

Renames(c) ==
  /\ step[c] = "written"
  /\ IF c \in temps
     THEN /\ SaveAtomically(Valid(Written(c), Above))
          /\ current' = Written(c)
          /\ temps' = temps \ {c}
          /\ Ends(c, "done")
     ELSE Ends(c, "failed") /\ UNCHANGED <<vars, current, temps>>
  /\ UNCHANGED <<system, directory, faults>>

\* The command is killed; its temporary file stays.
Killed(c) ==
  /\ step[c] \in {"looked", "opened", "written"} /\ faults < MaxFaults
  /\ faults' = faults + 1
  /\ Ends(c, "failed")
  /\ UNCHANGED <<vars, system, current, directory, temps>>

FileNext ==
  \/ Daemon
  \/ EditorSaves
  \/ UserRemovesFile
  \/ UserRemovesDirectory
  \/ UserMakesDirectory
  \/ \E c \in Commands :
       \/ LooksToCreate(c)
       \/ LooksToAdd(c)
       \/ OpensTemp(c)
       \/ WritesTemp(c)
       \/ WriteFails(c)
       \/ Renames(c)
       \/ Killed(c)

\* The daemon is fair as it is in ConfigReload.
FileSpec == FileInit /\ [][FileNext]_allVars /\ Fairness

-----------------------------------------------------------------------------
(* Properties *)

(* A command that nothing overtook loses no rule: create replaces no file, *)
(* add keeps what the file said, and a file that it can not read stays as  *)
(* it is (config_io.rs 25-32, config_cmd.rs 130-137).  Two that overlap do *)
(* lose one's rule; there is no lock.                                      *)
NoRuleLost ==
  [][\A c \in Commands :
       step[c] = "written" /\ step'[c] = "done" /\ read[c] = saves /\ file # Missing
         => current.rules \subseteq current'.rules]_allVars

(* What a command writes, the daemon reads, if the user whose home it is   *)
(* runs the command (the mode of config_io.rs 209-268 and the checks of    *)
(* unix.rs 376-415 fit).  What root writes there, neither the user's nor   *)
(* root's daemon reads, and create does not check the file's own directory *)
(* for being open to everybody.                                            *)
WrittenIsReadable ==
  \A c \in Commands :
    /\ file # Missing /\ current.by = c
    /\ User(c) = "user" /\ ~directory.worldWritable
    => file.valid

=============================================================================
