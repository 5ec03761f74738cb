------------------------ MODULE DaemonControl_proofs ------------------------
(***************************************************************************)
(* The life of the daemon, for any number of processes, of commands of the *)
(* CLI and of peers, any requests and every service manager: "stopped" is  *)
(* reported only of processes that have ended, but for those started by    *)
(* hand that were not asked; no acknowledged log level is undone by an     *)
(* older request, and the control endpoint leads to a process that lives   *)
(* or to nobody.                                                           *)
(***************************************************************************)
EXTENDS DaemonControl, SequenceTheorems, TLAPS

\* What a process is ever asked.
Asked == {Shutdown, Silence} \cup UNION {Requests[c] : c \in Clients}

\* The line is served from its head, so nobody in it is ever overtaken.
Connections ==
  [by : Clients \cup {NoBody}, request : Asked, overtaken : {FALSE}]

Processes ==
  [phase : {"none", "starting", "bound", "running"}, asked : {"no", "seen", "missed"},
   level : {Quiet, Loud}, line : Seq(Connections), serving : {0, 1},
   stage : {"reading", "signalling", "closing"}, managed : BOOLEAN]

Stages == {"idle", "waiting", "watching", "removing", "stopped", "loading"}

ClientStates ==
  {c \in [pc : Stages, op : {"none", "ask", "stop", "force", "start"}, victims : SUBSET Instances] :
     c.pc = "idle" <=> c = AtRest}

\* A process serves the head of its line, and only one that has bound its
\* endpoint has a line.
Sound(p) ==
  /\ p \in Processes
  /\ p.line = << >> => p.serving = 0
  /\ p.phase \in {"none", "starting"} => p.line = << >>

\* Processes that have got past their endpoint.
Bound == {i \in Instances : inst[i].phase \in {"bound", "running"}}

IInv ==
  /\ manager \in {"systemd", "launchd", "none"}
  /\ inst \in [Instances -> Processes]
  /\ \A i \in Instances : Sound(inst[i])
  /\ client \in [Clients -> ClientStates]
  /\ reach \in Bound \cup {NoBody}
  /\ StoppedMeansEnded

\* A client from c to d is not told more than it was.
Calm(c, d) ==
  /\ d \in ClientStates
  /\ d.pc = "stopped" => c.pc = "stopped" /\ d.op = c.op /\ d.victims \subseteq c.victims

-----------------------------------------------------------------------------
(* Processes *)

(* A process that is not there, and one that starts.                       *)
LEMMA NewProcesses ==
  /\ Sound(Gone) /\ Gone.phase = "none"
  /\ Sound(Born) /\ Born.phase = "starting" /\ Born.managed = TRUE
  /\ Sound([Born EXCEPT !.managed = FALSE])
<1>1. << >> \in Seq(Connections)
  BY EmptySeq
<1>. QED BY <1>1 DEF Sound, Processes, Gone, Born

(* Removing one connection leaves connections.                             *)
LEMMA RemoveOne ==
  ASSUME NEW S, NEW s \in Seq(S), NEW k \in 1 .. Len(s)
  PROVE  RemoveAt(s, k) \in Seq(S)
<1>1. Len(s) \in Nat /\ \A j \in 1 .. Len(s) : s[j] \in S
  BY LenProperties, ElementOfSeq
<1>2. SubSeq(s, 1, k - 1) \in Seq(S) /\ SubSeq(s, k + 1, Len(s)) \in Seq(S)
  BY <1>1, SubSeqProperties
<1>. QED BY <1>2, ConcatProperties DEF RemoveAt

(* The one that is served is at the head of the line of a process that has *)
(* bound its endpoint.                                                     *)
LEMMA ServedAtHead ==
  ASSUME NEW p, Sound(p), p.serving # 0 \/ p.line # << >>
  PROVE  /\ p.phase \in {"bound", "running"}
         /\ Len(p.line) \in Nat /\ 1 \in 1 .. Len(p.line) /\ DOMAIN p.line = 1 .. Len(p.line)
         /\ p.serving # 0 => p.serving = 1
         /\ p.line[1] \in Connections
<1>1. p.line \in Seq(Connections) /\ p.line # << >>
  BY DEF Sound, Processes
<1>2. Len(p.line) \in Nat \ {0} /\ DOMAIN p.line = 1 .. Len(p.line)
  BY <1>1, EmptySeq, LenProperties
<1>3. p.line[1] \in Connections
  BY <1>1, <1>2, ElementOfSeq
<1>. QED BY <1>1, <1>2, <1>3 DEF Sound, Processes

(* The connection that is served ends, at once or when its peer closes.    *)
LEMMA ReleasedIsSound ==
  ASSUME NEW p, Sound(p), p.serving # 0
  PROVE  /\ Sound(Released(p)) /\ Released(p).phase = p.phase
         /\ Sound(Answered(p)) /\ Answered(p).phase = p.phase
         /\ Released(p).managed = p.managed /\ Answered(p).managed = p.managed
<1>1. /\ p.phase \in {"bound", "running"} /\ p.serving \in 1 .. Len(p.line)
      /\ p.line \in Seq(Connections)
  BY ServedAtHead DEF Sound, Processes
<1>2. RemoveAt(p.line, p.serving) \in Seq(Connections)
  BY <1>1, RemoveOne
<1>3. Sound(Released(p)) /\ Released(p).phase = p.phase /\ Released(p).managed = p.managed
  BY <1>1, <1>2 DEF Sound, Processes, Released
<1>4. /\ Sound([p EXCEPT !.stage = "closing"]) /\ [p EXCEPT !.stage = "closing"].phase = p.phase
      /\ [p EXCEPT !.stage = "closing"].managed = p.managed
  BY <1>1 DEF Sound, Processes
<1>. QED BY <1>3, <1>4 DEF Answered

(* Another level leaves a process as it is.                                *)
LEMMA LevelIsSound ==
  ASSUME NEW p, Sound(p), NEW level \in {Quiet, Loud}
  PROVE  LET q == [p EXCEPT !.level = level]
         IN  /\ Sound(q) /\ q.serving = p.serving /\ q.phase = p.phase
             /\ q.managed = p.managed
BY DEF Sound, Processes

(* Nobody is before the head of the line.                                  *)
LEMMA NobodyOvertaken ==
  ASSUME NEW p, Sound(p), p.serving # 0
  PROVE  Overtaken(p) \in Seq(Connections) /\ Overtaken(p) # << >>
<1>1. /\ p.serving = 1 /\ DOMAIN p.line = 1 .. Len(p.line) /\ Len(p.line) \in Nat
      /\ 1 \in DOMAIN p.line
      /\ \A k \in 1 .. Len(p.line) : p.line[k] \in Connections
  BY ServedAtHead, ElementOfSeq DEF Sound, Processes
<1>2. \A k \in 1 .. Len(p.line) : ~(k < p.serving)
  BY <1>1
<1>3. \A k \in 1 .. Len(p.line) :
        [p.line[k] EXCEPT !.overtaken = @ \/ k < p.serving] \in Connections
  BY <1>1, <1>2 DEF Connections
<1>4. Overtaken(p) \in [1 .. Len(p.line) -> Connections]
  BY <1>1, <1>3 DEF Overtaken
<1>5. Overtaken(p) \in Seq(Connections)
  BY <1>1, <1>4, SeqDef
<1>6. DOMAIN Overtaken(p) # {}
  BY <1>1, <1>4
<1>. QED BY <1>5, <1>6

(* Whatever a client asks for is among what is asked.                      *)
LEMMA WhatIsAsked ==
  /\ Shutdown \in Asked /\ Silence \in Asked
  /\ \A c \in Clients : \A request \in Requests[c] : request \in Asked
<1>1. Shutdown \in Asked
  BY DEF Asked
<1>2. Silence \in Asked
  BY DEF Asked
<1>3. \A c \in Clients : \A request \in Requests[c] : request \in Asked
  BY DEF Asked
<1>. QED BY <1>1, <1>2, <1>3

(* A client that has its answer closes its end.                            *)
LEMMA HeadIsRead ==
  ASSUME NEW p, Sound(p), p.serving # 0
  PROVE  LET read == [p EXCEPT !.line[p.serving].by = NoBody,
                               !.line[p.serving].request = Silence]
         IN  Sound(read) /\ read.serving = p.serving /\ read.phase = p.phase
             /\ read.managed = p.managed
<1>. DEFINE head == [p.line[1] EXCEPT !.by = NoBody, !.request = Silence]
            line == [p.line EXCEPT ![1] = head]
<1>1. /\ p.serving = 1 /\ 1 \in 1 .. Len(p.line) /\ p.line \in Seq(Connections)
      /\ p.line[1] \in Connections /\ p.line # << >> /\ p \in Processes
  BY ServedAtHead DEF Sound, Processes
<1>2. head \in Connections
  BY <1>1, WhatIsAsked DEF Connections
<1>. HIDE DEF head
<1>3. line \in Seq(Connections) /\ Len(line) = Len(p.line)
  BY <1>1, <1>2, ExceptSeq
<1>4. line # << >>
  BY <1>1, <1>3, EmptySeq
<1>. HIDE DEF line
<1>5. [p EXCEPT !.line[p.serving].by = NoBody, !.line[p.serving].request = Silence]
        = [p EXCEPT !.line = line]
  <2>1. p.serving = 1
    BY <1>1
  <2>2. [p EXCEPT !.line[1].by = NoBody, !.line[1].request = Silence]
          = [p EXCEPT !.line = line]
    <3>. DEFINE noted == [p.line EXCEPT ![1].by = NoBody]
                q == [p EXCEPT !.line[1].by = NoBody]
    <3>1. [p EXCEPT !.line[1].by = NoBody, !.line[1].request = Silence]
            = [p EXCEPT !.line = [noted EXCEPT ![1].request = Silence]]
      <4>1. q = [p EXCEPT !.line = noted]
        BY <1>1 DEF Processes
      <4>2. q.line = noted
        BY <4>1, <1>1 DEF Processes
      <4>3. [q EXCEPT !.line[1].request = Silence]
              = [q EXCEPT !.line = [noted EXCEPT ![1].request = Silence]]
        <5>. HIDE DEF q, noted
        <5>. QED BY <4>2
      <4>4. \A x : [q EXCEPT !.line = x] = [p EXCEPT !.line = x]
        BY <4>1, <1>1 DEF Processes
      <4>. QED BY <4>3, <4>4
    <3>2. [noted EXCEPT ![1].request = Silence] = line
      BY <1>1 DEF line, head
    <3>. QED BY <3>1, <3>2, Zenon
  <2>. QED BY <2>1, <2>2, Zenon
<1>6. Sound([p EXCEPT !.line = line])
  BY <1>1, <1>3, <1>4 DEF Sound, Processes
<1>. QED BY <1>1, <1>5, <1>6 DEF Processes

(* A request to shut down ends a process or is noted by it.                *)
LEMMA AfterRequestIsSound ==
  ASSUME IInv, NEW p, Sound(p), p.phase \in {"bound", "running"}, NEW q \in AfterRequest(p)
  PROVE  q = Gone \/ (Sound(q) /\ q.phase = p.phase /\ q.managed = p.managed)
<1>1. Notice \subseteq {"no", "seen", "missed"}
  BY DEF Notice, IInv
<1>2. CASE p.phase = "bound"
  BY <1>2 DEF AfterRequest
<1>3. CASE p.phase = "running"
  BY <1>1, <1>3 DEF AfterRequest, Sound, Processes
<1>. QED BY <1>2, <1>3

-----------------------------------------------------------------------------
(* Clients *)

(* A client that loses its connection is told nothing.                     *)
LEMMA LossIsCalm ==
  ASSUME NEW c \in ClientStates
  PROVE  Calm(c, c) /\ Calm(c, AfterLoss(c)) /\ Calm(c, AtRest)
<1>1. AtRest \in ClientStates /\ AtRest.pc = "idle"
  BY DEF ClientStates, AtRest, Stages
<1>2. AfterLoss(c) \in {c, AtRest, [c EXCEPT !.pc = "removing"]}
  BY DEF AfterLoss
<1>3. AfterLoss(c) = [c EXCEPT !.pc = "removing"] => Calm(c, AfterLoss(c))
  BY DEF Calm, ClientStates, Stages, AtRest
<1>. QED BY <1>1, <1>2, <1>3 DEF Calm

(* Nor are the clients of processes that end.                              *)
LEMMA ClientsWithoutAreCalm ==
  ASSUME IInv, NEW gone
  PROVE  /\ ClientsWithout(gone) \in [Clients -> ClientStates]
         /\ \A c \in Clients : Calm(client[c], ClientsWithout(gone)[c])
<1>1. \A c \in Clients : Calm(client[c], ClientsWithout(gone)[c])
  BY LossIsCalm DEF IInv, ClientsWithout
<1>2. DOMAIN ClientsWithout(gone) = Clients
  BY DEF ClientsWithout
<1>. QED BY <1>1, <1>2 DEF Calm, ClientsWithout

-----------------------------------------------------------------------------
(* Steps                                                                   *)

(* One process goes on, and no client is told more than before.            *)
LEMMA OneGoesOn ==
  ASSUME IInv, manager' = manager, NEW i \in Instances, inst[i].phase # "none",
         NEW p, Sound(p), p.phase \in {"bound", "running"}, p.managed = inst[i].managed,
         inst' = [inst EXCEPT ![i] = p],
         reach' \in {reach, i, NoBody},
         client' \in [Clients -> ClientStates], \A c \in Clients : Calm(client[c], client'[c])
  PROVE  IInv'
<1>1. \A j \in Instances : inst'[j] = IF j = i THEN p ELSE inst[j]
  BY DEF IInv
<1>2. Alive' = Alive /\ i \in Alive /\ Managed' = Managed
  BY <1>1 DEF Alive, Managed
<1>3. inst' \in [Instances -> Processes] /\ \A j \in Instances : Sound(inst'[j])
  BY <1>1 DEF IInv, Sound
<1>4. StoppedMeansEnded'
  BY <1>2 DEF IInv, StoppedMeansEnded, Calm
<1>5. reach' \in Bound' \cup {NoBody}
  BY <1>1 DEF Bound, IInv
<1>. QED BY <1>3, <1>4, <1>5 DEF IInv

(* Processes end, or start as none of those a pending stop is about.       *)
LEMMA SomeReplaced ==
  ASSUME IInv, manager' = manager, NEW gone, NEW born, Replace(gone, born),
         born \cap Alive = {},
         client' \in [Clients -> ClientStates],
         \A c \in Clients :
           client'[c].pc = "stopped" =>
             \/ /\ client[c].pc = "stopped" /\ client'[c].op = client[c].op
                /\ client'[c].victims \subseteq client[c].victims \ born
             \/ client'[c].op = "force" /\ born = {} /\ Managed \subseteq gone
  PROVE  IInv'
<1>1. \A j \in Instances : inst'[j] = IF j \in born THEN Born ELSE IF j \in gone THEN Gone ELSE inst[j]
  BY DEF Replace
<1>2. inst' \in [Instances -> Processes] /\ \A j \in Instances : Sound(inst'[j])
  <2>1. \A j \in Instances : Sound(inst'[j])
    BY <1>1, NewProcesses DEF IInv
  <2>. QED BY <2>1 DEF Sound, Replace
<1>3. /\ Alive' \subseteq (Alive \ gone) \cup born
      /\ Managed' \subseteq (Managed \ gone) \cup born
  BY <1>1, NewProcesses DEF Alive, Managed
<1>4. reach' \in Bound' \cup {NoBody}
  <2>1. Bound \ gone \subseteq Bound'
    BY <1>1 DEF Bound, Alive
  <2>. QED BY <2>1 DEF IInv, Replace
<1>5. StoppedMeansEnded'
  <2>. SUFFICES ASSUME NEW c \in Clients, client'[c].pc = "stopped"
                PROVE  /\ client'[c].victims \cap Managed' = {}
                       /\ manager # "systemd" /\ client'[c].op # "force" =>
                            client'[c].victims \cap Alive' = {}
    BY DEF StoppedMeansEnded
  <2>1. CASE /\ client[c].pc = "stopped" /\ client'[c].op = client[c].op
             /\ client'[c].victims \subseteq client[c].victims \ born
    BY <1>3, <2>1 DEF IInv, StoppedMeansEnded
  <2>2. CASE client'[c].op = "force" /\ born = {} /\ Managed \subseteq gone
    BY <1>3, <2>2
  <2>. QED BY <2>1, <2>2
<1>. QED BY <1>2, <1>4, <1>5 DEF IInv

(* A process starts, serves, is asked to shut down or ends.                *)
LEMMA ProcessStep ==
  ASSUME IInv, NEW i \in Instances, Process(i) \/ Fail(i) \/ Wake(i)
  PROVE  IInv'
<1>. USE DEF IInv
<1>0. /\ inst[i] \in Processes /\ Sound(inst[i])
      /\ \A c \in Clients : Calm(client[c], client[c])
      /\ client \in [Clients -> ClientStates]
  BY LossIsCalm
<1>1. CASE \/ DirectoryRefused(i) \/ NoPipe(i)
           \/ \E done \in BOOLEAN : BindSocket(i, done) \/ PublishName(i, done)
  <2>1. PICK path \in {reach, i, NoBody} : Starts(i, path)
    BY <1>1 DEF DirectoryRefused, NoPipe, BindSocket, PublishName
  <2>. DEFINE p == [inst[i] EXCEPT !.phase = "bound"]
  <2>2. Sound(p) /\ p.phase = "bound" /\ p.managed = inst[i].managed
    BY <1>0 DEF Sound, Processes
  <2>3. inst' = [inst EXCEPT ![i] = p] /\ inst[i].phase # "none"
    BY <2>1 DEF Starts
  <2>. QED BY <1>0, <2>1, <2>2, <2>3, OneGoesOn DEF Starts
<1>2. CASE EnterLoop(i) \/ Wake(i)
  <2>. DEFINE p == IF EnterLoop(i) THEN [inst[i] EXCEPT !.phase = "running"]
                                   ELSE [inst[i] EXCEPT !.asked = "seen"]
  <2>1. Sound(p) /\ p.phase = "running" /\ p.managed = inst[i].managed
    BY <1>0, <1>2 DEF Sound, Processes, EnterLoop, Wake
  <2>2. inst' = [inst EXCEPT ![i] = p] /\ inst[i].phase # "none"
    BY <1>2 DEF EnterLoop, Wake
  <2>. QED BY <1>0, <1>2, <2>1, <2>2, OneGoesOn DEF EnterLoop, Wake
<1>3. CASE Fail(i) \/ Quit(i) \/ Leave(i)
  <2>1. Replace({i}, {}) /\ client' = ClientsWithout({i}) /\ manager' = manager
    BY <1>3 DEF Fail, Quit, Leave
  <2>2. /\ client' \in [Clients -> ClientStates]
        /\ \A c \in Clients : client'[c].pc = "stopped" =>
             /\ client[c].pc = "stopped" /\ client'[c].op = client[c].op
             /\ client'[c].victims \subseteq client[c].victims \ {}
    BY <2>1, ClientsWithoutAreCalm DEF Calm
  <2>3. {} \cap Alive = {}
    OBVIOUS
  <2>4. Replace({i}, {}) /\ manager' = manager
    BY <2>1
  <2>. HIDE DEF Replace, IInv
  <2>5. IInv
    OBVIOUS
  <2>. QED BY <2>2, <2>3, <2>4, <2>5, SomeReplaced
<1>4. ASSUME NEW admitted \in BOOLEAN, Take(i, admitted) PROVE IInv'
  <2>1. PICK k \in NextInLine(i) :
          IF admitted
          THEN /\ inst' = [inst EXCEPT ![i].serving = k, ![i].stage = "reading"]
               /\ client' = client
          ELSE /\ inst' = [inst EXCEPT ![i].line = RemoveAt(@, k)]
               /\ client' = IF inst[i].line[k].by = NoBody THEN client
                            ELSE [client EXCEPT ![inst[i].line[k].by] = AfterLoss(@)]
    BY <1>4 DEF Take
  <2>2. /\ k = 1 /\ inst[i].line # << >> /\ 1 \in 1 .. Len(inst[i].line)
        /\ inst[i].phase \in {"bound", "running"} /\ inst[i].serving = 0
        /\ inst[i].line \in Seq(Connections) /\ inst[i].line[1] \in Connections
    <3>1. k = 1 /\ k \in DOMAIN inst[i].line
      BY DEF NextInLine
    <3>2. inst[i].line # << >>
      BY <3>1
    <3>. QED BY <1>0, <1>4, <3>1, <3>2, ServedAtHead DEF Take, Sound, Processes
  <2>3. CASE admitted
    <3>. DEFINE p == [inst[i] EXCEPT !.serving = k, !.stage = "reading"]
    <3>1. /\ Sound(p) /\ p.phase \in {"bound", "running"} /\ inst[i].phase # "none"
          /\ p.managed = inst[i].managed
      BY <1>0, <2>2 DEF Sound, Processes
    <3>2. inst' = [inst EXCEPT ![i] = p]
      BY <2>1, <2>3
    <3>. QED BY <1>0, <1>4, <2>1, <2>3, <3>1, <3>2, OneGoesOn DEF Take
  <2>4. CASE ~admitted
    <3>. DEFINE p == [inst[i] EXCEPT !.line = RemoveAt(@, k)]
                by == inst[i].line[k].by
    <3>1. RemoveAt(inst[i].line, k) \in Seq(Connections)
      BY <2>2, RemoveOne
    <3>2. /\ Sound(p) /\ p.phase \in {"bound", "running"} /\ inst[i].phase # "none"
          /\ p.managed = inst[i].managed
      BY <1>0, <2>2, <3>1 DEF Sound, Processes
    <3>3. inst' = [inst EXCEPT ![i] = p]
      BY <2>1, <2>4
    <3>4. by # NoBody => by \in Clients
      BY <2>2 DEF Connections
    <3>5. /\ client' \in [Clients -> ClientStates]
          /\ \A c \in Clients : Calm(client[c], client'[c])
      BY <1>0, <2>1, <2>4, <3>4, LossIsCalm DEF Calm
    <3>. QED BY <1>4, <3>2, <3>3, <3>5, OneGoesOn DEF Take
  <2>. QED BY <2>3, <2>4
<1>5. ASSUME NEW uid, Handle(i, uid) PROVE IInv'
  <2>. DEFINE peer == Served(i)
              applied == [inst[i] EXCEPT
                            !.level = IF SetsLevel(peer.request, uid) THEN peer.request.args[1]
                                                                      ELSE @]
              told == IF Accepted(peer.request, uid)
                      THEN [applied EXCEPT !.line = Overtaken(applied)] ELSE applied
              read == [told EXCEPT !.line[told.serving].by = NoBody,
                                   !.line[told.serving].request = Silence]
              p == CASE peer.by = NoBody -> Released(applied)
                     [] peer.by # NoBody /\ AsksForShutdown(peer.request) ->
                          [read EXCEPT !.stage = "signalling"]
                     [] OTHER -> Answered(read)
  <2>1. /\ inst[i].phase \in {"bound", "running"} /\ inst[i].serving = 1
        /\ peer \in Connections
    BY <1>0, <1>5, ServedAtHead DEF Handle, Served
  <2>2. /\ Sound(applied) /\ applied.serving # 0 /\ applied.phase = inst[i].phase
        /\ applied.managed = inst[i].managed
    <3>. DEFINE level == IF SetsLevel(peer.request, uid) THEN peer.request.args[1]
                                                         ELSE inst[i].level
    <3>1. level \in {Quiet, Loud}
      BY <1>0 DEF Processes, SetsLevel
    <3>2. applied = [inst[i] EXCEPT !.level = level]
      OBVIOUS
    <3>. HIDE DEF level, applied
    <3>3. Sound(inst[i])
      BY <1>0
    <3>4. LET q == [inst[i] EXCEPT !.level = level]
          IN  Sound(q) /\ q.serving = inst[i].serving /\ q.phase = inst[i].phase /\ q.managed = inst[i].managed
      BY <3>1, <3>3, LevelIsSound
    <3>5. inst[i].serving = 1
      BY <2>1
    <3>. HIDE DEF IInv
    <3>. QED BY <3>2, <3>4, <3>5
  <2>. HIDE DEF applied
  <2>3. Sound(told) /\ told.serving # 0 /\ told.phase = inst[i].phase
        /\ told.managed = inst[i].managed
    BY <2>2, NobodyOvertaken DEF Sound, Processes
  <2>. HIDE DEF told
  <2>9. Sound(read) /\ read.serving # 0 /\ read.phase = inst[i].phase
        /\ read.managed = inst[i].managed
    BY <2>3, HeadIsRead
  <2>. HIDE DEF read
  <2>4. /\ Sound([read EXCEPT !.stage = "signalling"])
        /\ [read EXCEPT !.stage = "signalling"].phase = read.phase
        /\ [read EXCEPT !.stage = "signalling"].managed = read.managed
    BY <2>9 DEF Sound, Processes
  <2>5. Sound(p) /\ p.phase = inst[i].phase /\ p.managed = inst[i].managed
    BY <2>2, <2>9, <2>4, ReleasedIsSound
  <2>6. inst' = [inst EXCEPT ![i] = p]
    BY <1>5 DEF Handle, applied, told, read
  <2>7. /\ client' \in [Clients -> ClientStates]
        /\ \A c \in Clients : Calm(client[c], client'[c])
    <3>1. peer.by # NoBody => peer.by \in Clients
      BY <2>1 DEF Connections
    <3>2. AtRest \in ClientStates /\ AtRest.pc = "idle"
      BY DEF ClientStates, AtRest, Stages
    <3>3. \A c \in ClientStates : c.op = "stop" => Calm(c, [c EXCEPT !.pc = "watching"])
      BY DEF Calm, ClientStates, Stages, AtRest
    <3>. DEFINE by == peer.by
                then == IF client[by].op = "stop" THEN [client[by] EXCEPT !.pc = "watching"] ELSE AtRest
    <3>4. client' = client \/ (by # NoBody /\ client' = [client EXCEPT ![by] = then])
      BY <1>5 DEF Handle
    <3>5. by # NoBody => Calm(client[by], then)
      BY <1>0, <3>1, <3>2, <3>3 DEF Calm
    <3>. HIDE DEF then, by
    <3>. QED BY <1>0, <3>1, <3>4, <3>5 DEF Calm, by
  <2>. HIDE DEF p, peer
  <2>. QED BY <1>5, <2>1, <2>5, <2>6, <2>7, OneGoesOn DEF Handle
<1>6. CASE SignalItself(i)
  <2>1. PICK p \in AfterRequest(Answered(inst[i])) :
          IF p = Gone THEN Leave(i)
          ELSE inst' = [inst EXCEPT ![i] = p] /\ UNCHANGED <<manager, loaded, failed, reach, client>>
    BY <1>6 DEF SignalItself
  <2>2. /\ inst[i].serving # 0 /\ inst[i].phase \in {"bound", "running"}
        /\ Sound(Answered(inst[i])) /\ Answered(inst[i]).phase = inst[i].phase
        /\ Answered(inst[i]).managed = inst[i].managed
    BY <1>0, <1>6, ServedAtHead, ReleasedIsSound DEF SignalItself
  <2>3. p = Gone \/ (Sound(p) /\ p.phase = inst[i].phase /\ p.managed = inst[i].managed)
    BY <2>2, AfterRequestIsSound
  <2>. QED BY <1>0, <1>3, <2>1, <2>2, <2>3, OneGoesOn
<1>7. CASE CloseServed(i) \/ ServerTimeout(i)
  <2>1. /\ inst[i].serving # 0 /\ inst' = [inst EXCEPT ![i] = Released(@)]
        /\ UNCHANGED <<manager, reach>>
    BY <1>7 DEF CloseServed, ServerTimeout
  <2>2. /\ inst[i].phase \in {"bound", "running"} /\ Served(i) \in Connections
        /\ Sound(Released(inst[i])) /\ Released(inst[i]).phase = inst[i].phase
        /\ Released(inst[i]).managed = inst[i].managed
    BY <1>0, <2>1, ServedAtHead, ReleasedIsSound DEF Served
  <2>3. /\ client' \in [Clients -> ClientStates]
        /\ \A c \in Clients : Calm(client[c], client'[c])
    <3>. DEFINE by == Served(i).by
    <3>1. by # NoBody => by \in Clients
      BY <2>2 DEF Connections
    <3>2. client' = client \/ (by # NoBody /\ client' = [client EXCEPT ![by] = AtRest])
      BY <1>7 DEF CloseServed, ServerTimeout
    <3>3. by # NoBody => Calm(client[by], AtRest)
      BY <3>1, LossIsCalm
    <3>. HIDE DEF by
    <3>. QED BY <1>0, <3>1, <3>2, <3>3 DEF Calm
  <2>. QED BY <2>1, <2>2, <2>3, OneGoesOn
<1>. QED BY <1>1, <1>2, <1>3, <1>4, <1>5, <1>6, <1>7 DEF Process, AdmittedUids

(* Only one client goes on, to a state in which it is not told "stopped".  *)
LEMMA OneClientGoesOn ==
  ASSUME IInv, NEW c \in Clients, NEW d \in ClientStates, Calm(client[c], d),
         client' = [client EXCEPT ![c] = d]
  PROVE  /\ client' \in [Clients -> ClientStates]
         /\ \A e \in Clients : Calm(client[e], client'[e])
BY LossIsCalm DEF IInv

(* A client connects to whoever the endpoint leads to, or to nobody.       *)
LEMMA ConnectStep ==
  ASSUME IInv, NEW c \in Clients,
         \/ \E request \in Requests[c] : Ask(c, request)
         \/ \E connected \in BOOLEAN : Stop(c, connected)
  PROVE  IInv'
<1>. USE DEF IInv
<1>1. UNCHANGED <<manager, reach>>
  BY DEF Ask, Stop
<1>2. /\ client' \in [Clients -> ClientStates]
      /\ \A e \in Clients : Calm(client[e], client'[e])
  <2>1. PICK pc \in {"waiting", "removing"}, op \in {"ask", "stop"}, victims \in SUBSET Instances :
          client' = [client EXCEPT ![c] = [pc |-> pc, op |-> op, victims |-> victims]]
    BY DEF Ask, Stop, Alive
  <2>. DEFINE d == [pc |-> pc, op |-> op, victims |-> victims]
  <2>2. d \in ClientStates /\ Calm(client[c], d)
    BY DEF ClientStates, Stages, AtRest, Calm
  <2>. HIDE DEF d
  <2>3. client' = [client EXCEPT ![c] = d]
    BY <2>1 DEF d
  <2>. QED BY <2>2, <2>3, OneClientGoesOn
<1>3. inst' = inst \/ \E request \in Asked : CanConnect /\ Connects(c, request)
  BY WhatIsAsked DEF Ask, Stop
<1>4. CASE inst' = inst
  BY <1>1, <1>2, <1>4 DEF StoppedMeansEnded, Calm, Alive, Managed, Bound
<1>5. ASSUME NEW request \in Asked, CanConnect, Connects(c, request) PROVE IInv'
  <2>1. reach \in Bound
    BY <1>5 DEF CanConnect, SocketConnects, PipeConnects
  <2>2. /\ reach \in Instances /\ inst[reach].phase \in {"bound", "running"} /\ Sound(inst[reach])
        /\ inst[reach] \in Processes
    BY <2>1 DEF Bound
  <2>. DEFINE p == [inst[reach] EXCEPT !.line = Append(@, Connection(c, request))]
  <2>3. Connection(c, request) \in Connections
    BY DEF Connection, Connections
  <2>4. inst[reach].line \in Seq(Connections)
    BY <2>2 DEF Processes
  <2>5. /\ Append(inst[reach].line, Connection(c, request)) \in Seq(Connections)
        /\ Append(inst[reach].line, Connection(c, request)) # << >>
    BY <2>3, <2>4, AppendProperties
  <2>6. Sound(p) /\ p.phase \in {"bound", "running"} /\ p.managed = inst[reach].managed
    BY <2>2, <2>5 DEF Sound, Processes
  <2>7. inst' = [inst EXCEPT ![reach] = p]
    BY <1>5 DEF Connects
  <2>. QED BY <1>1, <1>2, <2>2, <2>6, <2>7, OneGoesOn
<1>. QED BY <1>3, <1>4, <1>5

(* The processes that somebody starts were none of those that ran.         *)
LEMMA SparedAreCalm ==
  ASSUME IInv, NEW born
  PROVE  /\ Spared(client, born) \in [Clients -> ClientStates]
         /\ \A c \in Clients :
              Spared(client, born)[c].pc = "stopped" =>
                /\ client[c].pc = "stopped" /\ Spared(client, born)[c].op = client[c].op
                /\ Spared(client, born)[c].victims \subseteq client[c].victims \ born
<1>1. ASSUME NEW c \in Clients
      PROVE  [client[c] EXCEPT !.victims = @ \ born] \in ClientStates
  BY DEF IInv, ClientStates, AtRest
<1>2. \A c \in Clients : Spared(client, born)[c] = [client[c] EXCEPT !.victims = @ \ born]
  BY DEF Spared
<1>3. DOMAIN Spared(client, born) = Clients
  BY DEF Spared
<1>4. \A c \in Clients : [client[c] EXCEPT !.victims = @ \ born].pc = client[c].pc
                        /\ [client[c] EXCEPT !.victims = @ \ born].op = client[c].op
                        /\ [client[c] EXCEPT !.victims = @ \ born].victims = client[c].victims \ born
  BY DEF IInv, ClientStates
<1>. QED BY <1>1, <1>2, <1>3, <1>4 DEF Spared

(* The service manager, or the CLI, starts a process or ends them.         *)
LEMMA ManagerStep ==
  ASSUME IInv,
         \/ \E i \in Instances : Respawn(i) \/ StartByHand(i)
         \/ \E c \in Clients :
              \/ \E op \in {"start", "restart"} : Start(c, op)
              \/ SystemctlStop(c) \/ BootOut(c) \/ TerminateProcesses(c) \/ StopServiceFails(c)
              \/ SystemctlStart(c) \/ Bootstrap(c) \/ SpawnDaemon(c)
  PROVE  IInv'
<1>0. AtRest \in ClientStates /\ AtRest.pc = "idle" /\ client \in [Clients -> ClientStates]
  BY DEF ClientStates, AtRest, Stages, IInv
<1>1. ASSUME NEW i \in Instances, Respawn(i) PROVE IInv'
  <2>1. Replace({}, {i}) /\ client' = Spared(client, {i}) /\ manager' = manager
    BY <1>1 DEF Respawn
  <2>2. {i} \cap Alive = {}
    BY <1>1 DEF Respawn, Room, NextProcess, Alive
  <2>3. /\ client' \in [Clients -> ClientStates]
        /\ \A c \in Clients : client'[c].pc = "stopped" =>
             /\ client[c].pc = "stopped" /\ client'[c].op = client[c].op
             /\ client'[c].victims \subseteq client[c].victims \ {i}
    <3>. DEFINE next == Spared(client, {i})
    <3>1. client' = next
      BY <2>1
    <3>2. /\ next \in [Clients -> ClientStates]
          /\ \A c \in Clients : next[c].pc = "stopped" =>
               /\ client[c].pc = "stopped" /\ next[c].op = client[c].op
               /\ next[c].victims \subseteq client[c].victims \ {i}
      BY SparedAreCalm
    <3>. HIDE DEF next
    <3>. QED BY <3>1, <3>2
  <2>4. Replace({}, {i}) /\ manager' = manager
    BY <2>1
  <2>. HIDE DEF Replace
  <2>. QED BY <2>2, <2>3, <2>4, SomeReplaced
<1>2. ASSUME NEW c \in Clients, NEW op \in {"start", "restart"}, Start(c, op) PROVE IInv'
  <2>. DEFINE d == [pc |-> "loading", op |-> "start", victims |-> {}]
  <2>1. PICK gone : Replace(gone, {}) /\ client' = [ClientsWithout(gone) EXCEPT ![c] = d]
    BY <1>2 DEF Start
  <2>2. d \in ClientStates /\ d.pc # "stopped"
    BY DEF ClientStates, Stages, AtRest
  <2>. HIDE DEF d
  <2>3. /\ ClientsWithout(gone) \in [Clients -> ClientStates]
        /\ \A e \in Clients : Calm(client[e], ClientsWithout(gone)[e])
    BY ClientsWithoutAreCalm
  <2>4. /\ client' \in [Clients -> ClientStates]
        /\ \A e \in Clients : client'[e].pc = "stopped" =>
             /\ client[e].pc = "stopped" /\ client'[e].op = client[e].op
             /\ client'[e].victims \subseteq client[e].victims
    BY <2>1, <2>2, <2>3 DEF Calm
  <2>5. manager' = manager
    BY <1>2 DEF Start
  <2>. QED BY <2>1, <2>4, <2>5, SomeReplaced
<1>3. ASSUME NEW c \in Clients, Removes(c), manager' = manager PROVE IInv'
  <2>. DEFINE d == [ClientsWithout(Managed)[c] EXCEPT !.pc = "stopped", !.op = "force"]
  <2>1. /\ Replace(Managed, {}) /\ client[c].pc = "removing"
        /\ client' = [ClientsWithout(Managed) EXCEPT ![c] = d]
    BY <1>3 DEF Removes, ClientsWithout
  <2>2. /\ ClientsWithout(Managed) \in [Clients -> ClientStates]
        /\ \A e \in Clients : Calm(client[e], ClientsWithout(Managed)[e])
    BY ClientsWithoutAreCalm
  <2>3. d \in ClientStates /\ d.op = "force"
    BY <2>2 DEF ClientStates, Stages, AtRest
  <2>. HIDE DEF d
  <2>4. /\ client' \in [Clients -> ClientStates]
        /\ \A e \in Clients : client'[e].pc = "stopped" =>
             \/ client'[e].op = "force"
             \/ /\ client[e].pc = "stopped" /\ client'[e].op = client[e].op
                /\ client'[e].victims \subseteq client[e].victims
    BY <2>1, <2>2, <2>3 DEF Calm
  <2>. QED BY <1>3, <2>1, <2>4, SomeReplaced
<1>4. ASSUME NEW c \in Clients, NEW born, Loads(c, born), born \cap Alive = {}, manager' = manager
      PROVE  IInv'
  <2>1. Replace({}, born) /\ client' = [Spared(client, born) EXCEPT ![c] = AtRest]
    BY <1>4 DEF Loads
  <2>2. /\ client' \in [Clients -> ClientStates]
        /\ \A e \in Clients : client'[e].pc = "stopped" =>
             /\ client[e].pc = "stopped" /\ client'[e].op = client[e].op
             /\ client'[e].victims \subseteq client[e].victims \ born
    BY <1>0, <2>1, SparedAreCalm
  <2>. QED BY <1>4, <2>1, <2>2, SomeReplaced
<1>5. ASSUME NEW c \in Clients, SystemctlStop(c) \/ BootOut(c) \/ TerminateProcesses(c)
      PROVE  IInv'
  BY <1>3, <1>5 DEF SystemctlStop, BootOut, TerminateProcesses, Removes
<1>6. ASSUME NEW c \in Clients, SystemctlStart(c) \/ Bootstrap(c) PROVE IInv'
  <2>1. Loads(c, NewIfNone) /\ inst[NextProcess].phase = "none"
    BY <1>6 DEF SystemctlStart, Bootstrap, Room, NextProcess
  <2>2. NewIfNone \cap Alive = {}
    BY <2>1 DEF NewIfNone, Alive
  <2>. QED BY <1>4, <2>1, <2>2 DEF Loads
<1>7. ASSUME NEW c \in Clients, SpawnDaemon(c) PROVE IInv'
  <2>1. Loads(c, {NextProcess}) /\ inst[NextProcess].phase = "none"
    BY <1>7 DEF SpawnDaemon, Room, NextProcess
  <2>2. {NextProcess} \cap Alive = {}
    BY <2>1 DEF Alive
  <2>. QED BY <1>4, <2>1, <2>2 DEF Loads
<1>8. ASSUME NEW c \in Clients, StopServiceFails(c) PROVE IInv'
  <2>1. PICK gone : Replace(gone, {}) /\ client' = [ClientsWithout(gone) EXCEPT ![c] = AtRest]
    BY <1>8 DEF StopServiceFails
  <2>2. /\ ClientsWithout(gone) \in [Clients -> ClientStates]
        /\ \A e \in Clients : Calm(client[e], ClientsWithout(gone)[e])
    BY ClientsWithoutAreCalm
  <2>3. /\ client' \in [Clients -> ClientStates]
        /\ \A e \in Clients : client'[e].pc = "stopped" =>
             /\ client[e].pc = "stopped" /\ client'[e].op = client[e].op
             /\ client'[e].victims \subseteq client[e].victims
    BY <1>0, <2>1, <2>2 DEF Calm
  <2>4. manager' = manager
    BY <1>8 DEF StopServiceFails
  <2>. QED BY <2>1, <2>3, <2>4, SomeReplaced
<1>9. ASSUME NEW i \in Instances, StartByHand(i) PROVE IInv'
  <2>. DEFINE p == [Born EXCEPT !.managed = FALSE]
  <2>1. /\ inst' = [inst EXCEPT ![i] = p] /\ UNCHANGED <<manager, reach, client>>
        /\ \A c \in Clients : client[c].pc = "idle"
        /\ Alive = {}
    BY <1>9 DEF StartByHand
  <2>. HIDE DEF p
  <2>2. Sound(p) /\ p \in Processes
    BY NewProcesses DEF p, Sound
  <2>3. inst' \in [Instances -> Processes] /\ \A j \in Instances : Sound(inst'[j])
    BY <2>1, <2>2 DEF IInv
  <2>4. reach' \in Bound' \cup {NoBody}
    BY <2>1 DEF IInv, Bound, Alive
  <2>5. StoppedMeansEnded'
    BY <2>1 DEF StoppedMeansEnded
  <2>. QED BY <2>1, <2>3, <2>4, <2>5 DEF IInv
<1>. QED BY <1>1, <1>2, <1>5, <1>6, <1>7, <1>8, <1>9

(* A command that waits, gives up, fails or reports.                       *)
LEMMA WaitingStep ==
  ASSUME IInv, NEW c \in Clients,
         GiveUp(c) \/ WaitForExit(c) \/ Report(c) \/ StartFails(c)
  PROVE  IInv'
<1>. USE DEF IInv
<1>0. /\ AtRest \in ClientStates /\ AtRest.pc = "idle"
      /\ client \in [Clients -> ClientStates] /\ client[c] \in ClientStates
      /\ UNCHANGED <<manager, reach>>
  BY DEF ClientStates, AtRest, Stages, GiveUp, WaitForExit, Report, StartFails
<1>1. CASE GiveUp(c)
  <2>. DEFINE LineOf(i) == ClosedBy(inst[i].line, c)
  <2>1. inst' = [i \in Instances |-> [inst[i] EXCEPT !.line = LineOf(i)]]
    BY <1>1 DEF GiveUp
  <2>2. ASSUME NEW i \in Instances PROVE LineOf(i) \in Seq(Connections) /\ (inst[i].line = << >> => LineOf(i) = << >>)
                                       /\ (LineOf(i) = << >> => inst[i].line = << >>)
    <3>1. /\ inst[i].line \in Seq(Connections) /\ DOMAIN inst[i].line = 1 .. Len(inst[i].line)
          /\ Len(inst[i].line) \in Nat
      BY LenProperties DEF Processes
    <3>2. \A k \in 1 .. Len(inst[i].line) : inst[i].line[k] \in Connections
      BY <3>1, ElementOfSeq
    <3>3. \A k \in 1 .. Len(inst[i].line) :
            [inst[i].line[k] EXCEPT !.by = IF @ = c THEN NoBody ELSE @] \in Connections
      BY <3>2 DEF Connections
    <3>4. LineOf(i) \in [1 .. Len(inst[i].line) -> Connections]
      BY <3>1, <3>3 DEF ClosedBy
    <3>5. LineOf(i) \in Seq(Connections)
      BY <3>1, <3>4, SeqDef
    <3>6. DOMAIN LineOf(i) = DOMAIN inst[i].line
      BY DEF ClosedBy
    <3>. HIDE DEF LineOf
    <3>. QED BY <3>1, <3>5, <3>6, EmptySeq, LenProperties
  <2>. HIDE DEF LineOf
  <2>3. /\ \A i \in Instances :
             Sound(inst'[i]) /\ inst'[i].phase = inst[i].phase /\ inst'[i].managed = inst[i].managed
        /\ inst' \in [Instances -> Processes]
    <3>1. ASSUME NEW i \in Instances
          PROVE  Sound(inst'[i]) /\ inst'[i].phase = inst[i].phase /\ inst'[i].managed = inst[i].managed
      <4>. DEFINE p == inst[i]
                  line == LineOf(i)
      <4>1. Sound(p) /\ inst'[i] = [p EXCEPT !.line = line]
        BY <2>1
      <4>2. line \in Seq(Connections) /\ (line = << >> <=> p.line = << >>)
        BY <2>2
      <4>. HIDE DEF p, line
      <4>3. /\ Sound([p EXCEPT !.line = line]) /\ [p EXCEPT !.line = line].phase = p.phase
            /\ [p EXCEPT !.line = line].managed = p.managed
        BY <4>1, <4>2 DEF Sound, Processes
      <4>. QED BY <4>1, <4>3 DEF p
    <3>2. \A i \in Instances : inst'[i] \in Processes
      BY <3>1 DEF Sound
    <3>. QED BY <2>1, <3>1, <3>2
  <2>4. Alive' = Alive /\ Bound' = Bound /\ Managed' = Managed
    BY <2>3 DEF Alive, Bound, Managed
  <2>5. Calm(client[c], AfterLoss(client[c]))
    BY <1>0, LossIsCalm
  <2>6. client' = [client EXCEPT ![c] = AfterLoss(client[c])]
    BY <1>1 DEF GiveUp
  <2>7. AfterLoss(client[c]) \in ClientStates
    BY <2>5 DEF Calm
  <2>8. /\ client' \in [Clients -> ClientStates]
        /\ \A e \in Clients : Calm(client[e], client'[e])
    BY <2>5, <2>6, <2>7, OneClientGoesOn
  <2>. QED BY <1>0, <2>3, <2>4, <2>8 DEF StoppedMeansEnded, Calm
<1>2. CASE ~GiveUp(c)
  <2>1. inst' = inst /\ Alive' = Alive /\ Bound' = Bound /\ Managed' = Managed
    BY <1>2 DEF WaitForExit, Report, StartFails, Alive, Managed, Bound
  <2>2. CASE client' = [client EXCEPT ![c] = AtRest]
    BY <1>0, <2>1, <2>2 DEF StoppedMeansEnded
  <2>3. CASE WaitForExit(c)
    <3>. DEFINE d == [client[c] EXCEPT !.pc = IF IsRunning THEN "removing" ELSE "stopped"]
    <3>1. client' = [client EXCEPT ![c] = d] /\ client[c].pc = "watching"
      BY <2>3 DEF WaitForExit, Goes
    <3>2. /\ d \in ClientStates
          /\ d.pc = "stopped" => Managed = {} /\ (manager # "systemd" => Alive = {})
      BY <1>0, <3>1 DEF ClientStates, Stages, AtRest, IsRunning, Managed
    <3>. HIDE DEF d
    <3>. QED BY <1>0, <2>1, <3>1, <3>2 DEF StoppedMeansEnded
  <2>. QED BY <1>2, <2>2, <2>3 DEF Report, StartFails
<1>. QED BY <1>1, <1>2

(* The daemon starts, whatever manager runs it.                            *)
LEMMA InitIInv == Init => IInv
<1>. SUFFICES ASSUME Init PROVE IInv
  OBVIOUS
<1>1. inst \in [Instances -> {Born, Gone}] /\ reach = NoBody /\ client = [c \in Clients |-> AtRest]
  BY DEF Init
<1>2. AtRest \in ClientStates /\ AtRest.pc = "idle"
  BY DEF ClientStates, AtRest, Stages
<1>. QED BY <1>1, <1>2, NewProcesses DEF Init, IInv, Sound, StoppedMeansEnded

(* Every step of processes, commands, peers and the service manager.       *)
LEMMA StepIInv == IInv /\ [Next]_vars => IInv'
<1>. SUFFICES ASSUME IInv, [Next]_vars PROVE IInv'
  OBVIOUS
<1>1. CASE UNCHANGED vars
  BY <1>1 DEF vars, IInv, Alive, Managed, Bound, StoppedMeansEnded
<1>2. ASSUME NEW i \in Instances,
             Process(i) \/ Fail(i) \/ Wake(i) \/ Respawn(i) \/ StartByHand(i)
      PROVE  IInv'
  BY <1>2, ProcessStep, ManagerStep
<1>3. ASSUME NEW c \in Clients,
             \/ \E request \in Requests[c] : Ask(c, request)
             \/ \E connected \in BOOLEAN : Stop(c, connected)
             \/ \E op \in {"start", "restart"} : Start(c, op)
             \/ Command(c)
      PROVE  IInv'
  <2>1. CASE (\E request \in Requests[c] : Ask(c, request)) \/ (\E connected \in BOOLEAN : Stop(c, connected))
    BY <2>1, ConnectStep
  <2>2. CASE \E op \in {"start", "restart"} : Start(c, op)
    BY <2>2, ManagerStep
  <2>3. CASE Command(c)
    BY <2>3, ManagerStep, WaitingStep DEF Command
  <2>. QED BY <1>3, <2>1, <2>2, <2>3
<1>. QED BY <1>1, <1>2, <1>3 DEF Next

(* The invariant holds in every behaviour, fair or not.                    *)
LEMMA InductiveInvariant == Spec => []IInv
BY InitIInv, StepIInv, PTL DEF Spec

-----------------------------------------------------------------------------

(* The socket path, or the published name, never leads to a process that   *)
(* has ended or has not bound its endpoint; commands are at rest exactly   *)
(* when they are idle.                                                     *)
THEOREM EndpointLeadsToTheLiving == Spec => []TypeOK
<1>1. IInv => TypeOK
  <2>. SUFFICES ASSUME IInv PROVE TypeOK
    OBVIOUS
  <2>1. reach \in Alive \cup {NoBody}
    BY DEF IInv, Bound, Alive
  <2>2. ASSUME NEW i \in Instances
        PROVE  /\ inst[i].level \in {Quiet, Loud}
               /\ inst[i].serving \in 0 .. Len(inst[i].line)
               /\ inst[i].phase \in {"none", "starting"} => inst[i].line = << >>
    <3>1. Sound(inst[i]) /\ inst[i] \in Processes /\ Len(inst[i].line) \in Nat
      BY LenProperties DEF IInv, Sound, Processes
    <3>2. inst[i].serving # 0 => inst[i].serving \in 1 .. Len(inst[i].line)
      BY <3>1, ServedAtHead
    <3>. QED BY <3>1, <3>2 DEF Sound, Processes
  <2>. QED BY <2>1, <2>2 DEF IInv, ClientStates, TypeOK
<1>. QED BY <1>1, InductiveInvariant, PTL

(* When `daemon stop` prints "keymapperd stopped" (daemon_cmd/mod.rs       *)
(* 100-125), every process of its service manager, or on Windows that it   *)
(* may open, has ended of those that ran when it was called, whatever      *)
(* became of its request and whoever starts or restarts the daemon; so     *)
(* have those started by hand on macOS and Windows, unless the service     *)
(* was stopped because no shutdown was obeyed.                             *)
THEOREM StoppedMeansTheyEnded == Spec => []StoppedMeansEnded
<1>1. IInv => StoppedMeansEnded
  BY DEF IInv
<1>. QED BY <1>1, InductiveInvariant, PTL

(* A log level somebody was told is not undone by a request that was made  *)
(* before it: the endpoint serves connections in order (endpoint/unix.rs,  *)
(* endpoint/windows.rs).                                                   *)
THEOREM LevelsStay == Spec => NoLateLevel
<1>1. ASSUME IInv, NEW i \in Instances, inst[i].serving # 0
      PROVE  ~Served(i).overtaken
  <2>1. Sound(inst[i])
    BY <1>1 DEF IInv
  <2>. QED BY <1>1, <2>1, ServedAtHead DEF Served, Connections
<1>2. IInv => [\A i \in Instances :
                 (inst[i].serving # 0 /\ inst'[i].phase # "none" /\ inst'[i].level # inst[i].level)
                   => ~Served(i).overtaken]_vars
  BY <1>1
<1>. QED BY <1>2, InductiveInvariant, PTL DEF NoLateLevel
=============================================================================
