------------------------- MODULE ConfigFile_proofs -------------------------
(***************************************************************************)
(* What is in force only moves forward, for any number of changes of the   *)
(* file, however events, the debounce and half-written files interleave.   *)
(* The invariant orders the three places a configuration can be in: in     *)
(* force, compiled but not yet swapped in, and on disk.  Commands of the   *)
(* CLI, editors and the user who write the file do so by the steps the     *)
(* reload knows, and a command that nothing overtook loses no rule.        *)
(***************************************************************************)
EXTENDS ConfigFile, TLAPS

InOrder ==
  /\ compiled \in Contents
  /\ compiled.valid /\ inForce.valid
  /\ inForce.save <= compiled.save
  /\ compiled.save <= saves
  /\ file # Missing => compiled.save <= file.save /\ file.save <= saves

IInv == TypeOK /\ InOrder

(* A file has the number of the save that wrote it.                        *)
LEMMA ContentsFields ==
  ASSUME NEW c \in Contents
  PROVE  c.save \in 0 .. MaxSaves /\ c.valid \in BOOLEAN /\ c # Missing
<1>1. MaxSaves \in Nat /\ Contents \subseteq [save : Nat, valid : BOOLEAN]
  BY ReloadAssumption DEF Contents
<1>. QED BY <1>1, ReloadAssumption DEF Contents

(* main has compiled the file before anything watches it.                  *)
LEMMA InitIInv == Init => IInv
<1>. SUFFICES ASSUME Init PROVE IInv
  OBVIOUS
<1>1. file \in Contents /\ file.valid
  BY ReloadAssumption DEF Init, Contents
<1>2. saves \in 0 .. MaxSaves
  BY ReloadAssumption DEF Init
<1>3. TypeOK
  BY <1>1, <1>2 DEF Init, TypeOK
<1>4. InOrder
  BY <1>1, ContentsFields, ReloadAssumption DEF Init, InOrder
<1>. QED BY <1>3, <1>4 DEF IInv

(* A change of the file numbers it after everything compiled so far.       *)
LEMMA ChangeIInv ==
  ASSUME IInv, NEW kind \in EventKinds, NEW content, Change(kind, content),
         \/ content = Missing
         \/ \E valid \in BOOLEAN : content = [save |-> saves + 1, valid |-> valid],
         writing' => content # Missing
  PROVE  IInv'
<1>1. saves \in Nat /\ saves' = saves + 1 /\ saves' \in 0 .. MaxSaves
  BY ReloadAssumption DEF IInv, TypeOK, Change
<1>2. file' = content
  BY DEF Change
<1>3. content \in Contents \cup {Missing}
  BY <1>1 DEF Contents
<1>4. events' \in Seq(EventKinds)
  BY DEF IInv, TypeOK, Change
<1>5. TypeOK'
  BY <1>1, <1>2, <1>3, <1>4 DEF IInv, TypeOK, Change, reloader, Contents
<1>6. content # Missing => compiled.save <= content.save /\ content.save <= saves'
  BY <1>1, ContentsFields DEF IInv, InOrder
<1>7. compiled.save <= saves'
  BY <1>1, ContentsFields DEF IInv, InOrder
<1>8. InOrder'
  BY <1>2, <1>6, <1>7 DEF IInv, InOrder, Change, reloader, Contents
<1>. QED BY <1>5, <1>8 DEF IInv

(* Every kind of change is one of those, and none of them is compiled yet. *)
LEMMA FileSystemIInv ==
  ASSUME IInv,
         \/ \E valid \in BOOLEAN : \/ SaveAtomically(valid)
                                  \/ Truncate(valid)
                                  \/ WriteRest(valid)
                                  \/ CreateFile(valid)
         \/ RemoveFile
         \/ RemoveDirectory
  PROVE  IInv'
<1>1. ASSUME NEW valid \in BOOLEAN, SaveAtomically(valid) PROVE IInv'
  <2>1. Change("renamed to", [save |-> saves + 1, valid |-> valid]) /\ ~writing'
    BY <1>1 DEF SaveAtomically
  <2>. QED BY <2>1, ChangeIInv DEF EventKinds
<1>2. ASSUME NEW valid \in BOOLEAN, Truncate(valid) \/ WriteRest(valid) PROVE IInv'
  <2>1. Change("modified", [save |-> saves + 1, valid |-> valid])
    BY <1>2 DEF Truncate, WriteRest
  <2>2. saves + 1 \in Nat
    BY ReloadAssumption DEF IInv, TypeOK
  <2>3. [save |-> saves + 1, valid |-> valid] # Missing
    BY <2>2, ReloadAssumption
  <2>. QED BY <2>1, <2>3, ChangeIInv DEF EventKinds
<1>3. ASSUME NEW valid \in BOOLEAN, CreateFile(valid) PROVE IInv'
  <2>1. ~writing' /\ Change("created", [save |-> saves + 1, valid |-> valid])
    BY <1>3 DEF CreateFile, IInv, TypeOK
  <2>. QED BY <2>1, ChangeIInv DEF EventKinds
<1>4. CASE RemoveFile
  <2>1. PICK kind \in {"removed", "renamed from"} : Change(kind, Missing) /\ ~writing'
    BY <1>4 DEF RemoveFile
  <2>. QED BY <2>1, ChangeIInv DEF EventKinds
<1>5. CASE RemoveDirectory
  <2>1. Change("directory gone", Missing) /\ ~writing'
    BY <1>5 DEF RemoveDirectory
  <2>. QED BY <2>1, ChangeIInv DEF EventKinds
<1>. QED BY <1>1, <1>2, <1>3, <1>4, <1>5

(* Delivery, debounce and failed reloads leave every configuration alone.  *)
LEMMA WaitingIInv ==
  ASSUME IInv, Arm \/ Deliver \/ Wake \/ Absorb \/ Quiet \/ ReloadFails
  PROVE  IInv'
<1>1. UNCHANGED <<file, saves, writing, compiled, inForce>>
  BY DEF Arm, Deliver, Wake, Absorb, Quiet, ReloadFails, disk, reloader
<1>2. events' \in Seq(EventKinds)
  BY DEF Arm, Deliver, Wake, Absorb, Quiet, ReloadFails, disk, reloader, IInv, TypeOK
<1>3. thread' \in {"blocked", "debouncing", "reading", "swapping"}
  BY DEF Arm, Deliver, Wake, Absorb, Quiet, ReloadFails, disk, reloader, IInv, TypeOK
<1>. QED BY <1>1, <1>2, <1>3 DEF IInv, TypeOK, InOrder

(* What is compiled is what is on disk, when it is valid.                  *)
LEMMA ReadAndCompileIInv ==
  ASSUME IInv, ReadAndCompile
  PROVE  IInv'
<1>1. file # Missing /\ file.valid /\ file \in Contents
  BY DEF ReadAndCompile, Loads, IInv, TypeOK
<1>2. /\ compiled.save \in Nat /\ file.save \in Nat /\ inForce.save \in Nat
  BY <1>1, ContentsFields, ReloadAssumption DEF IInv, TypeOK, InOrder
<1>3. TypeOK'
  BY DEF ReadAndCompile, disk, IInv, TypeOK
<1>4. InOrder'
  BY <1>1, <1>2 DEF ReadAndCompile, disk, IInv, InOrder
<1>. QED BY <1>3, <1>4 DEF IInv

(* What was compiled comes into force.                                     *)
LEMMA SwapIInv ==
  ASSUME IInv, Swap
  PROVE  IInv'
<1>1. compiled.save \in Nat
  BY ContentsFields, ReloadAssumption DEF IInv, InOrder
<1>2. TypeOK'
  BY DEF Swap, disk, IInv, TypeOK, InOrder
<1>3. InOrder'
  BY <1>1 DEF Swap, disk, IInv, InOrder
<1>. QED BY <1>2, <1>3 DEF IInv

(* Every step of the file system, the watch and the reload thread.         *)
LEMMA StepIInv == IInv /\ [Next]_vars => IInv'
<1>. SUFFICES ASSUME IInv, [Next]_vars PROVE IInv'
  OBVIOUS
<1>1. CASE UNCHANGED vars
  BY <1>1 DEF vars, disk, reloader, IInv, TypeOK, InOrder
<1>2. CASE \/ \E valid \in BOOLEAN : \/ SaveAtomically(valid)
                                     \/ Truncate(valid)
                                     \/ WriteRest(valid)
                                     \/ CreateFile(valid)
           \/ RemoveFile
           \/ RemoveDirectory
  BY <1>2, FileSystemIInv
<1>3. CASE Arm \/ Deliver \/ Wake \/ Absorb \/ Quiet \/ ReloadFails
  BY <1>3, WaitingIInv
<1>4. CASE ReadAndCompile
  BY <1>4, ReadAndCompileIInv
<1>5. CASE Swap
  BY <1>5, SwapIInv
<1>. QED BY <1>1, <1>2, <1>3, <1>4, <1>5 DEF Next

(* The invariant holds in every behaviour, fair or not.                    *)
LEMMA InductiveInvariant == Spec => []IInv
BY InitIInv, StepIInv, PTL DEF Spec

(* No invalid configuration comes into force, and none that was saved      *)
(* before the one in force (attempt_reload and reload_from_str, watcher.rs *)
(* 134-170; the repository's README.md:354).                               *)
THEOREM ReloadsGoForward == Spec => OnlyForward
<1>1. ASSUME IInv, [Next]_vars
      PROVE  [inForce'.valid /\ inForce'.save >= inForce.save]_inForce
  <2>1. CASE Swap
    <3>1. inForce' = compiled
      BY <2>1 DEF Swap
    <3>2. compiled.save \in Nat /\ inForce.save \in Nat
      BY <1>1, ContentsFields, ReloadAssumption DEF IInv, TypeOK, InOrder
    <3>. QED BY <1>1, <3>1, <3>2 DEF IInv, InOrder
  <2>2. CASE ~Swap
    <3>1. inForce' = inForce
      BY <1>1, <2>2 DEF Next, vars, SaveAtomically, Truncate, WriteRest, CreateFile,
         RemoveFile, RemoveDirectory, Change, Arm, Deliver, Wake, Absorb, Quiet,
         ReadAndCompile, ReloadFails, disk, reloader
    <3>. QED BY <3>1
  <2>. QED BY <2>1, <2>2
<1>. QED BY <1>1, InductiveInvariant, PTL DEF Spec, OnlyForward

-----------------------------------------------------------------------------
(* The file and those who write it *)

(* Every step around the file is one the reload knows, or leaves file,     *)
(* events and rules in force alone.                                        *)
LEMMA FileStep == [FileNext]_allVars => [Next]_vars
<1>. SUFFICES ASSUME [FileNext]_allVars PROVE [Next]_vars
  OBVIOUS
<1>1. CASE UNCHANGED allVars
  BY <1>1 DEF allVars
<1>2. CASE Daemon \/ UserRemovesFile \/ UserRemovesDirectory
  BY <1>2 DEF Daemon, UserRemovesFile, UserRemovesDirectory, Next
<1>3. \A version, dirs : Valid(version, dirs) \in BOOLEAN
  BY DEF Valid
<1>4. CASE EditorSaves
  <2>1. PICK edit \in Edits : \/ SaveAtomically(Valid(edit, Above))
                              \/ Truncate(Valid(edit, Above))
                              \/ WriteRest(Valid(edit, Above))
                              \/ CreateFile(Valid(edit, Above))
    BY <1>4 DEF EditorSaves
  <2>. QED BY <1>3, <2>1 DEF Next
<1>5. ASSUME NEW c \in Commands, Renames(c) PROVE [Next]_vars
  <2>1. SaveAtomically(Valid(Written(c), Above)) \/ UNCHANGED vars
    BY <1>5 DEF Renames
  <2>. QED BY <1>3, <2>1 DEF Next
<1>6. CASE \/ UserMakesDirectory
           \/ \E c \in Commands : \/ LooksToCreate(c) \/ LooksToAdd(c) \/ OpensTemp(c)
                                  \/ WritesTemp(c) \/ WriteFails(c) \/ Killed(c)
  BY <1>6 DEF UserMakesDirectory, LooksToCreate, LooksToAdd, OpensTemp, WritesTemp, WriteFails, Killed
<1>. QED BY <1>1, <1>2, <1>4, <1>5, <1>6 DEF FileNext

(* The reload goes forward whoever writes the file, and whatever commands  *)
(* fail or are killed on the way.                                          *)
THEOREM WritersKeepItForward == FileSpec => OnlyForward
<1>1. FileInit => Init
  BY DEF FileInit
<1>2. FileSpec => Spec
  BY <1>1, FileStep, PTL DEF FileSpec, Spec
<1>. QED BY <1>2, ReloadsGoForward

\* A command between its look at the file and its rename.
AtWork == {"looked", "opened", "written"}

\* What a command has read is what the file says, if nobody has changed it.
ReadIsCurrent ==
  /\ read \in [Commands -> Nat] /\ DOMAIN step = Commands /\ DOMAIN base = Commands
  /\ \A c \in Commands : read[c] <= saves
  /\ \A c \in Commands :
       step[c] \in AtWork /\ read[c] = saves /\ file # Missing => current.rules = base[c]

(* A change of the file overtakes every command that has looked at it.     *)
LEMMA ChangeOvertakes ==
  ASSUME IInv, ReadIsCurrent, saves' = saves + 1,
         UNCHANGED <<step, base, read>> \/ \E c \in Commands : Ends(c, "done")
  PROVE  ReadIsCurrent'
<1>1. saves \in Nat
  BY ReloadAssumption DEF IInv, TypeOK
<1>2. /\ read' \in [Commands -> Nat] /\ DOMAIN step' = Commands /\ DOMAIN base' = Commands
      /\ \A c \in Commands : read'[c] \in {0, read[c]}
  BY DEF ReadIsCurrent, Ends
<1>3. \A c \in Commands : read'[c] <= saves' /\ read'[c] # saves'
  BY <1>1, <1>2 DEF ReadIsCurrent
<1>. QED BY <1>2, <1>3 DEF ReadIsCurrent

(* A command that looks, goes on or ends, while the file stays as it is.   *)
LEMMA CommandGoesOn ==
  ASSUME IInv, ReadIsCurrent, UNCHANGED <<file, saves, current>>, NEW c \in Commands,
         \/ Ends(c, "failed")
         \/ \E rules : Looks(c, rules) /\ (file # Missing => rules = current.rules)
         \/ /\ \E to \in AtWork : Goes(c, to)
            /\ step[c] \in AtWork
            /\ UNCHANGED <<base, read>>
  PROVE  ReadIsCurrent'
<1>1. saves \in Nat
  BY ReloadAssumption DEF IInv, TypeOK
<1>2. CASE Ends(c, "failed")
  BY <1>1, <1>2 DEF ReadIsCurrent, Ends, AtWork
<1>3. ASSUME NEW rules, Looks(c, rules), file # Missing => rules = current.rules
      PROVE  ReadIsCurrent'
  BY <1>1, <1>3 DEF ReadIsCurrent, Looks, Goes
<1>4. ASSUME NEW to \in AtWork, Goes(c, to), step[c] \in AtWork, UNCHANGED <<base, read>>
      PROVE  ReadIsCurrent'
  BY <1>4 DEF ReadIsCurrent, Goes
<1>. QED BY <1>2, <1>3, <1>4

(* Every step around the file.                                             *)
LEMMA ReadStep == IInv /\ ReadIsCurrent /\ [FileNext]_allVars => ReadIsCurrent'
<1>. SUFFICES ASSUME IInv, ReadIsCurrent, [FileNext]_allVars PROVE ReadIsCurrent'
  OBVIOUS
<1>1. CASE UNCHANGED allVars \/ Daemon \/ UserMakesDirectory
  <2>1. UNCHANGED <<file, saves, current, step, base, read>>
    BY <1>1 DEF allVars, vars, files, commands, Daemon, UserMakesDirectory, Arm, Deliver, Wake,
       Absorb, Quiet, ReadAndCompile, ReloadFails, Swap, disk
  <2>. QED BY <2>1 DEF ReadIsCurrent
<1>2. CASE EditorSaves \/ UserRemovesFile \/ UserRemovesDirectory
  <2>1. saves' = saves + 1 /\ UNCHANGED <<step, base, read>>
    BY <1>2 DEF EditorSaves, UserRemovesFile, UserRemovesDirectory, files, commands, SaveAtomically,
       Truncate, WriteRest, CreateFile, RemoveFile, RemoveDirectory, Change
  <2>. QED BY <2>1, ChangeOvertakes
<1>3. ASSUME NEW c \in Commands,
             \/ LooksToCreate(c) \/ LooksToAdd(c) \/ OpensTemp(c) \/ WritesTemp(c)
             \/ WriteFails(c) \/ Killed(c)
      PROVE  ReadIsCurrent'
  <2>1. UNCHANGED <<file, saves, current>>
    BY <1>3 DEF vars, LooksToCreate, LooksToAdd, OpensTemp, WritesTemp, WriteFails, Killed
  <2>2. CASE LooksToCreate(c) \/ LooksToAdd(c)
    <3>1. \/ Ends(c, "failed")
          \/ \E rules : Looks(c, rules) /\ (file # Missing => rules = current.rules)
      BY <2>2 DEF LooksToCreate, LooksToAdd
    <3>. QED BY <2>1, <3>1, CommandGoesOn
  <2>3. CASE OpensTemp(c) \/ WritesTemp(c)
    <3>1. \/ Ends(c, "failed")
          \/ /\ \E to \in AtWork : Goes(c, to)
             /\ step[c] \in AtWork
             /\ UNCHANGED <<base, read>>
      BY <2>3 DEF OpensTemp, WritesTemp, AtWork
    <3>. QED BY <2>1, <3>1, CommandGoesOn
  <2>4. CASE WriteFails(c) \/ Killed(c)
    <3>1. Ends(c, "failed")
      BY <2>4 DEF WriteFails, Killed
    <3>. QED BY <2>1, <3>1, CommandGoesOn
  <2>. QED BY <1>3, <2>2, <2>3, <2>4
<1>4. ASSUME NEW c \in Commands, Renames(c) PROVE ReadIsCurrent'
  <2>1. CASE c \in temps
    <3>1. saves' = saves + 1 /\ Ends(c, "done")
      BY <1>4, <2>1 DEF Renames, SaveAtomically, Change
    <3>. QED BY <3>1, ChangeOvertakes
  <2>2. CASE c \notin temps
    <3>1. UNCHANGED <<file, saves, current>> /\ Ends(c, "failed")
      BY <1>4, <2>2 DEF Renames, vars
    <3>. QED BY <3>1, CommandGoesOn
  <2>. QED BY <2>1, <2>2
<1>. QED BY <1>1, <1>2, <1>3, <1>4 DEF FileNext

(* Only a rename makes a command done.                                     *)
LEMMA OnlyRenamesAreDone ==
  ASSUME ReadIsCurrent, [FileNext]_allVars, NEW c \in Commands,
         step[c] = "written", step'[c] = "done"
  PROVE  Renames(c) /\ c \in temps
<1>1. CASE \/ UNCHANGED allVars \/ Daemon \/ UserMakesDirectory
           \/ EditorSaves \/ UserRemovesFile \/ UserRemovesDirectory
  <2>1. step' = step
    BY <1>1 DEF allVars, files, commands, Daemon, UserMakesDirectory, EditorSaves, UserRemovesFile,
       UserRemovesDirectory
  <2>. QED BY <2>1
<1>2. ASSUME NEW d \in Commands,
             \/ LooksToCreate(d) \/ LooksToAdd(d) \/ OpensTemp(d) \/ WritesTemp(d)
             \/ WriteFails(d) \/ Killed(d)
      PROVE  FALSE
  <2>1. \E to \in AtWork \cup {"failed"} : step' = [step EXCEPT ![d] = to]
    BY <1>2 DEF LooksToCreate, LooksToAdd, OpensTemp, WritesTemp, WriteFails, Killed, Looks, Ends,
       Goes, AtWork
  <2>. QED BY <2>1 DEF ReadIsCurrent, AtWork
<1>3. ASSUME NEW d \in Commands, Renames(d) PROVE d = c /\ c \in temps
  <2>1. \E to \in {"done", "failed"} :
          step' = [step EXCEPT ![d] = to] /\ (to = "done" => d \in temps)
    BY <1>3 DEF Renames, Ends
  <2>. QED BY <2>1 DEF ReadIsCurrent
<1>. QED BY <1>1, <1>2, <1>3 DEF FileNext

(* A command that finishes and was not overtaken has kept every rule of    *)
(* the file (config_cmd.rs 130-137 and 162-236, config_io.rs 209-268): for *)
(* any commands, editors, owners, modes and faults.                        *)
THEOREM FinishedCommandsKeepRules == FileSpec => NoRuleLost
<1>. DEFINE Kept(c) ==
       step[c] = "written" /\ step'[c] = "done" /\ read[c] = saves /\ file # Missing
         => current.rules \subseteq current'.rules
<1>1. FileInit => IInv /\ ReadIsCurrent
  <2>1. FileInit => ReadIsCurrent
    BY DEF Init, FileInit, ReadIsCurrent, AtWork
  <2>. QED BY <2>1, InitIInv DEF FileInit
<1>2. IInv /\ ReadIsCurrent /\ [FileNext]_allVars => (IInv /\ ReadIsCurrent)'
  BY ReadStep, FileStep, StepIInv
<1>3. ReadIsCurrent /\ [FileNext]_allVars => [\A c \in Commands : Kept(c)]_allVars
  <2>. SUFFICES ASSUME ReadIsCurrent, [FileNext]_allVars, NEW c \in Commands,
                       step[c] = "written", step'[c] = "done", read[c] = saves, file # Missing
                PROVE  current.rules \subseteq current'.rules
    OBVIOUS
  <2>1. current' = Written(c)
    BY OnlyRenamesAreDone DEF Renames
  <2>2. current.rules = base[c]
    BY DEF ReadIsCurrent, AtWork
  <2>. QED BY <2>1, <2>2 DEF Written
<1>. QED BY <1>1, <1>2, <1>3, PTL DEF FileSpec, NoRuleLost

-----------------------------------------------------------------------------
(* What commands write, the daemon may read                                *)

\* The directories above a home are the user's or root's, and the user and
\* the daemon, who is the user or root, get through them.
HomesAreReachable ==
  \A s \in Systems :
    /\ \A c \in Commands : s.user[c] \in {"user", "root"}
    /\ s.unix => /\ s.daemon \in {"user", "root"}
                 /\ \A d \in s.above : d.owner \in {"user", "root"}
                 /\ \A d \in s.above : d.owner = "user" \/ d.listable

\* Editors are not among the commands.
EditorsSign == \A version \in Edits \cup {First} : version.by \notin Commands

\* A file and a temporary file are in a directory; whose directory it is, and
\* that a command at work has found those above it trusted.
PlaceInv ==
  /\ system \in Systems
  /\ DOMAIN step = Commands
  /\ directory = Missing => file = Missing /\ temps = {}
  /\ directory # Missing => directory.owner \in {"user", "root"} /\ directory.listable
  /\ system.unix => \A c \in Commands : step[c] \in AtWork => \A d \in system.above : Trusted(d)

ReadableInv == PlaceInv /\ WrittenIsReadable

(* A directory that is made is its maker's and can be listed.              *)
LEMMA MadeFields ==
  ASSUME NEW owner, NEW open
  PROVE  LET d == Made(owner, open)
         IN d.owner = owner /\ d.listable /\ d.worldWritable = open /\ ~d.sticky
BY DEF Made

(* What a command of the user's writes into a directory that is not open   *)
(* to everybody is what the daemon may read.                               *)
LEMMA WrittenIsValid ==
  ASSUME HomesAreReachable, PlaceInv, NEW c \in Commands, step[c] \in AtWork,
         directory # Missing, ~directory.worldWritable, User(c) = "user"
  PROVE  Valid(Written(c), Above)
<1>1. /\ Written(c).form = "file" /\ ~Written(c).large /\ Written(c).parses
      /\ Written(c).owner = "user" /\ Written(c).mode = "0600"
  BY DEF Written
<1>2. CASE ~system.unix
  BY <1>1, <1>2 DEF Valid, MayRead
<1>3. CASE system.unix
  <2>1. system.daemon \in {"user", "root"}
    BY <1>3 DEF HomesAreReachable, PlaceInv
  <2>2. \A d \in Above : /\ Trusted(d)
                         /\ d.owner \in {"user", "root"}
                         /\ d.owner = "user" \/ d.listable
    BY <1>3 DEF HomesAreReachable, PlaceInv, Above, Trusted
  <2>3. FileTrusted(system.daemon, Written(c)) /\ AncestorsTrusted(system.daemon, Written(c), Above)
    BY <1>1, <2>1, <2>2 DEF FileTrusted, AncestorsTrusted
  <2>. QED BY <1>1, <2>1, <2>2, <2>3 DEF Valid, MayRead
<1>. QED BY <1>2, <1>3

(* Whoever looks has found the directories above trusted.                  *)
LEMMA LookersAreCareful ==
  ASSUME NEW c \in Commands, LooksToCreate(c) \/ LooksToAdd(c), system.unix
  PROVE  step' = [step EXCEPT ![c] = "failed"] \/ \A d \in system.above : Trusted(d)
<1>1. CASE LooksToCreate(c)
  BY <1>1 DEF LooksToCreate, Ends
<1>2. CASE LooksToAdd(c)
  BY <1>2 DEF LooksToAdd, MayRead, Above, Ends
<1>. QED BY <1>1, <1>2

(* Every step leaves files in a directory, of a user or root.              *)
LEMMA PlaceStep ==
  ASSUME HomesAreReachable, IInv, PlaceInv, [FileNext]_allVars
  PROVE  PlaceInv'
<1>1. CASE UNCHANGED allVars \/ Daemon
  <2>1. UNCHANGED <<file, system, directory, step, temps>>
    BY <1>1 DEF allVars, vars, files, commands, Daemon, Arm, Deliver, Wake, Absorb, Quiet,
       ReadAndCompile, ReloadFails, Swap, disk
  <2>. QED BY <2>1 DEF PlaceInv
<1>2. CASE EditorSaves \/ UserRemovesFile
  <2>1. /\ UNCHANGED <<system, directory, step, temps>>
        /\ directory # Missing \/ file' = Missing
    BY <1>2 DEF EditorSaves, UserRemovesFile, files, commands, RemoveFile, Change
  <2>. QED BY <2>1 DEF PlaceInv
<1>3. CASE UserRemovesDirectory
  BY <1>3 DEF UserRemovesDirectory, RemoveDirectory, Change, PlaceInv
<1>4. CASE UserMakesDirectory
  BY <1>4, MadeFields DEF UserMakesDirectory, vars, commands, PlaceInv
<1>5. ASSUME NEW c \in Commands, LooksToCreate(c) \/ LooksToAdd(c) PROVE PlaceInv'
  <2>1. /\ UNCHANGED <<file, system, temps>>
        /\ \/ directory' = directory
           \/ file = Missing /\ directory = Missing /\ directory' = Made(User(c), FALSE)
        /\ \E to : step' = [step EXCEPT ![c] = to]
    BY <1>5 DEF LooksToCreate, LooksToAdd, vars, Looks, Goes, Ends
  <2>2. User(c) \in {"user", "root"}
    BY DEF HomesAreReachable, PlaceInv, User
  <2>3. directory' = Missing => file' = Missing /\ temps' = {}
    BY <2>1 DEF PlaceInv
  <2>3a. directory' # Missing => directory'.owner \in {"user", "root"} /\ directory'.listable
    BY <2>1, <2>2 DEF PlaceInv, Made
  <2>4. system.unix => \A e \in Commands : step'[e] \in AtWork => \A d \in system.above : Trusted(d)
    BY <1>5, <2>1, LookersAreCareful DEF PlaceInv, AtWork
  <2>. QED BY <2>1, <2>3, <2>3a, <2>4 DEF PlaceInv
<1>6. ASSUME NEW c \in Commands,
             OpensTemp(c) \/ WritesTemp(c) \/ WriteFails(c) \/ Renames(c) \/ Killed(c)
      PROVE  PlaceInv'
  <2>1. /\ UNCHANGED <<system, directory>> /\ step[c] \in AtWork
        /\ \E to : step' = [step EXCEPT ![c] = to]
        /\ directory = Missing => temps' \subseteq temps
        /\ file' = file \/ (c \in temps)
    BY <1>6 DEF OpensTemp, WritesTemp, WriteFails, Renames, Killed, vars, Goes, Ends, AtWork
  <2>. QED BY <2>1 DEF PlaceInv, AtWork
<1>. QED BY <1>1, <1>2, <1>3, <1>4, <1>5, <1>6 DEF FileNext

(* Every step leaves what a command wrote readable.                        *)
LEMMA ReadableStep ==
  ASSUME HomesAreReachable, EditorsSign, IInv, ReadableInv, [FileNext]_allVars
  PROVE  ReadableInv'
<1>1. PlaceInv'
  BY PlaceStep DEF ReadableInv
<1>2. ASSUME EditorSaves PROVE WrittenIsReadable'
  BY <1>2 DEF EditorSaves, EditorsSign, WrittenIsReadable
<1>3. ASSUME UserRemovesFile \/ UserRemovesDirectory PROVE WrittenIsReadable'
  BY <1>3 DEF UserRemovesFile, UserRemovesDirectory, RemoveFile, RemoveDirectory, Change,
     WrittenIsReadable
<1>4. ASSUME NEW c \in Commands, Renames(c), c \in temps PROVE WrittenIsReadable'
  <2>1. /\ current' = Written(c) /\ UNCHANGED <<system, directory>> /\ step[c] \in AtWork
        /\ SaveAtomically(Valid(Written(c), Above))
    BY <1>4 DEF Renames, AtWork
  <2>1a. file'.valid = Valid(Written(c), Above)
    BY <2>1 DEF SaveAtomically, Change
  <2>2. directory # Missing /\ Written(c).by = c
    BY <1>4 DEF ReadableInv, PlaceInv, Written
  <2>3. User(c) = "user" /\ ~directory.worldWritable => file'.valid
    BY <2>1, <2>1a, <2>2, WrittenIsValid DEF ReadableInv
  <2>. QED BY <2>1, <2>2, <2>3 DEF WrittenIsReadable, User
<1>5. ASSUME /\ UNCHANGED <<file, current, system>>
             /\ directory' = directory \/ directory = Missing
      PROVE  WrittenIsReadable'
  <2>1. file' # Missing => directory' = directory
    BY <1>5 DEF ReadableInv, PlaceInv
  <2>. QED BY <1>5, <2>1 DEF ReadableInv, WrittenIsReadable, User
<1>6. ASSUME UNCHANGED allVars \/ Daemon \/ UserMakesDirectory
      PROVE  WrittenIsReadable'
  <2>1. /\ UNCHANGED <<file, current, system>>
        /\ directory' = directory \/ directory = Missing
    BY <1>6 DEF allVars, vars, files, Daemon, UserMakesDirectory, Arm, Deliver, Wake, Absorb,
       Quiet, ReadAndCompile, ReloadFails, Swap, disk
  <2>. QED BY <1>5, <2>1
<1>7. ASSUME NEW c \in Commands,
             \/ LooksToCreate(c) \/ LooksToAdd(c) \/ OpensTemp(c) \/ WritesTemp(c)
             \/ WriteFails(c) \/ Killed(c) \/ (Renames(c) /\ c \notin temps)
      PROVE  /\ UNCHANGED <<file, current, system>>
             /\ directory' = directory \/ directory = Missing
  BY <1>7 DEF LooksToCreate, LooksToAdd, OpensTemp, WritesTemp, WriteFails, Killed, Renames, vars
<1>8. WrittenIsReadable'
  BY <1>2, <1>3, <1>4, <1>5, <1>6, <1>7 DEF FileNext
<1>. QED BY <1>1, <1>8 DEF ReadableInv

(* What a command writes, the daemon reads, if the user whose home it is   *)
(* runs it and no directory is open to everybody (config_io.rs 209-268,    *)
(* unix.rs 376-415): for any commands, editors, directories and faults, of *)
(* the user's daemon and of root's.                                        *)
THEOREM CommandsWriteReadableFiles ==
  ASSUME HomesAreReachable, EditorsSign
  PROVE  FileSpec => []WrittenIsReadable
<1>1. FileInit => IInv /\ ReadableInv
  <2>. SUFFICES ASSUME FileInit PROVE IInv /\ ReadableInv
    OBVIOUS
  <2>1. IInv
    BY InitIInv DEF FileInit
  <2>2. /\ directory \in [owner : {"user", "root"}, worldWritable : BOOLEAN, sticky : BOOLEAN,
                         listable : BOOLEAN]
        /\ directory.owner = "user" /\ directory.listable
    BY DEF FileInit, Made
  <2>2a. directory # Missing
    BY <2>2, FileAssumption
  <2>3. \A c \in Commands : step[c] \notin AtWork /\ current.by # c
    BY DEF FileInit, AtWork, EditorsSign
  <2>. QED BY <2>1, <2>2, <2>2a, <2>3 DEF FileInit, ReadableInv, PlaceInv, WrittenIsReadable
<1>2. IInv /\ ReadableInv /\ [FileNext]_allVars => (IInv /\ ReadableInv)'
  BY FileStep, StepIInv, ReadableStep
<1>3. ReadableInv => WrittenIsReadable
  BY DEF ReadableInv
<1>. QED BY <1>1, <1>2, <1>3, PTL DEF FileSpec
=============================================================================
