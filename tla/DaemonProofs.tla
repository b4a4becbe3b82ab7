---------------------------- MODULE DaemonProofs ----------------------------
(* Theorems about Daemon, for any PIDs, terminals, autostart profiles and    *)
(* bounds: which processes a command signals, who holds the control socket,  *)
(* and what an upgrade starts again.  And, in its second half, about the     *)
(* daemon's clients: an instance of Console stands beside Daemon here.       *)
EXTENDS Daemon, SequenceTheorems, TLAPS

Stages == {"none", "boot", "listen", "pid", "auto", "serve", "close", "unsock", "register", "bind", "run"}
Listening == {"pid", "auto", "serve", "close"}
Held(r) == r.kind = "control" /\ r.pc # "boot"
ProcType ==
  [kind : {"none", "control", "web", "other"}, pc : Stages, exe : Nat, term : BOOLEAN, lis : BOOLEAN, up : BOOLEAN,
   next : Nat, try : Nat, out : SUBSET Nat]
Waits == {"idle", "check", "halt", "status", "ask", "survey", "look", "spawn", "record", "watch", "gone", "await",
          "wizard", "install", "disable", "disabled", "reach"}
Commands == {"none", "start", "stop", "status", "setup", "upgrade", "uninstall", "doctor", "remedy"}
ClType ==
  [pc : Waits, cmd : Commands, svc : Services, pid : Pids \cup {None}, then : {"return", "restart", "ready", "await", "services"},
   began : BOOLEAN, todo : SUBSET Services, down : SUBSET Services,
   saw : {"none", "orphan", "down", "stale", "running", "other"}, port : {"none", "free", "ours", "taken"}]
UnitType == [on : BOOLEAN, pid : Pids \cup {None}, home : BOOLEAN]

\* The shape of the processes, the files and the commands.
TypeOK ==
  /\ proc \in [Pids -> ProcType] /\ sock \in Pids \cup {None} /\ port \in Pids \cup {None}
  /\ pidf \in [Services -> Pids \cup {None}] /\ bin \in Nat /\ unit \in UnitType /\ cl \in [Clients -> ClType]
  /\ crossed \subseteq Pids

\* A control daemon listens from its bind to its close, and has an outcome for
\* each of the profiles before the one it starts next.
LifeOK(r) ==
  /\ r.lis <=> (r.kind = "control" /\ r.pc \in Listening)
  /\ r.kind = "control" /\ r.pc \in {"boot", "listen", "pid"} => r.next = 1 /\ r.out = {}
  /\ r.kind = "control" /\ r.pc = "auto" => r.next \in 1..(NumProfiles + 1) /\ r.out = 1..(r.next - 1)
  /\ r.kind = "control" /\ r.pc = "serve" => r.out = 1..NumProfiles
Lives == \A p \in Pids : LifeOK(proc[p])

\* The process the service manager waits for was started from the command.
UnitIsOwn == unit.pid # None /\ proc[unit.pid].kind # "none" => proc[unit.pid].exe # Foreign

\* An upgrade goes from its survey through stops and the installer to starts.
UpgradeOK(r) ==
  r.cmd = "upgrade" =>
    /\ r.pc \in {"survey", "halt", "gone", "install", "check", "spawn", "record", "watch"}
    /\ r.pc # "survey" => r.then = "services"
    /\ r.pc = "survey" => r.down = {}
Upgrades == \A c \in Clients : UpgradeOK(cl[c])

\* Between its probe and the removal of its files a daemon that no other's start has
\* run into is the only one there, and the path is the one it has bound.
OneHolder ==
  unit.home => \A p \in Pids \ crossed : Holds(p) =>
    /\ \A q \in Pids \ {p} : ~Holds(q)
    /\ proc[p].lis => sock = p

IInv == TypeOK /\ Lives /\ UnitIsOwn /\ Upgrades /\ OneHolder
-----------------------------------------------------------------------------
(* The processes                                                           *)

\* What the invariant says of the processes.
ProcInv == proc \in [Pids -> ProcType] /\ crossed \subseteq Pids /\ Lives /\ UnitIsOwn /\ OneHolder

\* Who has been run into stays so for as long as it is there.
LEMMA CrossedStays ==
  ASSUME IInv, Crossing
  PROVE  crossed' \subseteq Pids /\ \A x \in Pids : Holds(x)' /\ x \notin crossed' => x \notin crossed
BY DEF IInv, TypeOK, Crossing, Passing, Unseen

\* A step of neither a process nor the path.
LEMMA NothingMoves ==
  ASSUME IInv, Crossing, UNCHANGED <<proc, sock>>, unit'.home => unit.home, unit'.pid = unit.pid
  PROVE  ProcInv'
<1>1. \A x \in Pids : Holds(x)' <=> Holds(x)  BY DEF Holds
<1>2. Lives' /\ UnitIsOwn'  BY DEF IInv, Lives, UnitIsOwn
<1>3. OneHolder'  BY <1>1, CrossedStays DEF IInv, OneHolder
<1> QED BY <1>2, <1>3, CrossedStays DEF IInv, TypeOK, ProcInv

\* One process changes: it is not the unit's unless it is InferenceRig's own, it
\* is past its probe only if nobody else is or they have run into each other, and the
\* path changes only at the hands of one that is.
LEMMA ProcessChanges ==
  ASSUME IInv, Crossing, NEW p \in Pids, NEW r \in ProcType, LifeOK(r), proc' = [proc EXCEPT ![p] = r],
         unit'.pid \in {unit.pid, p}, unit'.pid = p /\ r.kind # "none" => r.exe # Foreign, unit'.home => unit.home,
         unit'.home /\ Held(r) /\ p \notin crossed' => \A q \in Pids \ {p} : ~Holds(q),
         unit'.home /\ Held(r) /\ ~Holds(p) => \A q \in Pids \ {p} : Holds(q) => q \in crossed',
         unit'.home => \/ sock' = sock /\ (r.lis /\ p \notin crossed' => sock = p)
                       \/ Holds(p) /\ (r.lis => sock' = p)
  PROVE  ProcInv'
<1>1. proc \in [Pids -> ProcType]  BY DEF IInv, TypeOK
<1>2. proc' \in [Pids -> ProcType] /\ proc'[p] = r /\ \A q \in Pids \ {p} : proc'[q] = proc[q]  BY <1>1
<1>3. Lives'  BY <1>2 DEF IInv, Lives
<1>4. UnitIsOwn'  BY <1>2 DEF IInv, TypeOK, UnitType, UnitIsOwn
<1>5. OneHolder'
  <2> SUFFICES ASSUME unit'.home, NEW x \in Pids, x \notin crossed', Holds(x)'
               PROVE  (\A q \in Pids \ {x} : ~Holds(q)') /\ (proc'[x].lis => sock' = x)
    BY DEF OneHolder
  <2>1. /\ \A q \in Pids \ {p} : Holds(q)' <=> Holds(q)
        /\ Holds(p)' <=> Held(r)
    BY <1>2 DEF Holds, Held
  <2>2. CASE x = p
    <3>1. Held(r)  BY <2>1, <2>2
    <3> QED BY <1>2, <2>1, <2>2, <3>1
  <2>3. CASE x # p
    <3>1. Holds(x) /\ x \notin crossed  BY <2>1, <2>3, CrossedStays
    <3>2. (\A q \in Pids \ {x} : ~Holds(q)) /\ (proc[x].lis => sock = x)  BY <3>1 DEF IInv, OneHolder
    <3>3. ~Holds(p) /\ ~Held(r) /\ sock' = sock  BY <2>3, <3>1, <3>2
    <3> QED BY <1>2, <2>1, <2>3, <3>2, <3>3
  <2> QED BY <2>2, <2>3
<1> QED BY <1>2, <1>3, <1>4, <1>5, CrossedStays DEF ProcInv

\* A daemon's next step, from one where it already has the path to itself or that
\* leaves it where it is.
LEMMA HolderSteps ==
  ASSUME IInv, Crossing, NEW p \in Pids, NEW r \in ProcType, LifeOK(r), proc' = [proc EXCEPT ![p] = r],
         r.kind = proc[p].kind, r.exe = proc[p].exe, UNCHANGED unit,
         \/ r.pc = proc[p].pc /\ r.lis = proc[p].lis /\ sock' = sock
         \/ Holds(p) /\ ((sock' = sock /\ r.lis = proc[p].lis) \/ (r.lis => sock' = p))
         \/ ~Held(r) /\ sock' = sock
  PROVE  ProcInv'
<1>1. unit'.pid = p /\ r.kind # "none" => r.exe # Foreign  BY DaemonOK DEF IInv, UnitIsOwn
<1>2. (proc[p].lis => Holds(p)) /\ (r.lis => Held(r))  BY DEF IInv, Lives, LifeOK, Holds, Held, Listening
<1>3. Held(r) => Holds(p)  BY DEF Held, Holds
<1>4. proc'[p] = r  BY DEF IInv, TypeOK
<1>5. Held(r) /\ p \notin crossed' => p \notin crossed  BY <1>4, CrossedStays DEF Held, Holds
<1>6. unit.home /\ Held(r) /\ p \notin crossed' => (\A q \in Pids \ {p} : ~Holds(q)) /\ (proc[p].lis => sock = p)
  BY <1>3, <1>5 DEF IInv, OneHolder
<1> QED BY <1>1, <1>2, <1>3, <1>6, ProcessChanges

\* A process that ends leaves the path as it is, or had it to itself.
LEMMA ProcessEnds ==
  ASSUME IInv, Crossing, NEW p \in Pids, Dead(p), UNCHANGED unit, sock' = sock \/ Holds(p)
  PROVE  ProcInv'
<1>1. Free \in ProcType /\ LifeOK(Free) /\ Free.kind = "none" /\ Free.lis = FALSE
  BY DEF Free, ProcType, Stages, LifeOK, Foreign
<1>2. proc' = [proc EXCEPT ![p] = Free]  BY DEF Dead
<1> QED BY <1>1, <1>2, ProcessChanges DEF Held

\* A process is born at a PID nobody has.
LEMMA ProcessBorn ==
  ASSUME IInv, Crossing, NEW p \in FreePids, NEW k \in {"control", "web", "other"}, NEW pc \in {"boot", "register", "run"},
         NEW exe \in Nat, k = "control" => pc = "boot", proc' = [proc EXCEPT ![p] = Born(k, pc, exe)],
         sock' = sock, unit'.home = unit.home, unit'.pid = unit.pid \/ (unit'.pid = p /\ exe # Foreign)
  PROVE  ProcInv'
<1> DEFINE r == Born(k, pc, exe)
<1>1. /\ r \in ProcType /\ r.kind = k /\ r.pc = pc /\ r.exe = exe /\ r.lis = FALSE /\ r.next = 1 /\ r.out = {}
  BY DEF Born, Free, ProcType, Stages, Foreign
<1>2. p \in Pids /\ p # unit.pid  BY DEF FreePids
<1> HIDE DEF r
<1>3. LifeOK(r) /\ ~Held(r)  BY <1>1 DEF LifeOK, Held, Listening
<1>4. proc' = [proc EXCEPT ![p] = r]  BY DEF r
<1> QED BY <1>1, <1>2, <1>3, <1>4, ProcessChanges

\* A signal only sets the flag that Run looks at.
LEMMA ProcessSignalled ==
  ASSUME IInv, Crossing, NEW p \in Pids, proc' = [proc EXCEPT ![p].term = TRUE], sock' = sock,
         unit'.home = unit.home, unit'.pid = unit.pid
  PROVE  ProcInv'
<1> DEFINE r == [proc[p] EXCEPT !.term = TRUE]
<1>1. proc[p] \in ProcType /\ LifeOK(proc[p])  BY DEF IInv, TypeOK, Lives
<1>2. /\ r \in ProcType /\ r.kind = proc[p].kind /\ r.pc = proc[p].pc /\ r.exe = proc[p].exe /\ r.lis = proc[p].lis
      /\ r.next = proc[p].next /\ r.out = proc[p].out
  BY <1>1 DEF ProcType
<1>3. proc' = [proc EXCEPT ![p] = r]  OBVIOUS
<1> HIDE DEF r
<1>4. LifeOK(r)  BY <1>1, <1>2 DEF LifeOK
<1>5. unit'.pid = p /\ r.kind # "none" => r.exe # Foreign  BY <1>2, DaemonOK DEF IInv, UnitIsOwn
<1>6. (Held(r) <=> Holds(p)) /\ (r.lis => Held(r))  BY <1>2, <1>4 DEF Held, Holds, LifeOK, Listening
<1>7. proc'[p] = r  BY <1>3 DEF IInv, TypeOK
<1>8. Held(r) /\ p \notin crossed' => p \notin crossed  BY <1>7, CrossedStays DEF Held, Holds
<1>9. unit.home /\ Held(r) /\ p \notin crossed' => (\A q \in Pids \ {p} : ~Holds(q)) /\ (proc[p].lis => sock = p)
  BY <1>6, <1>8 DEF IInv, OneHolder
<1> QED BY <1>2, <1>3, <1>4, <1>5, <1>6, <1>9, ProcessChanges

\* What the invariant says of the files, the unit and the commands.
RestInv ==
  /\ sock \in Pids \cup {None} /\ port \in Pids \cup {None} /\ pidf \in [Services -> Pids \cup {None}]
  /\ bin \in Nat /\ unit \in UnitType /\ cl \in [Clients -> ClType] /\ Upgrades

LEMMA Parts == IInv <=> ProcInv /\ RestInv
BY DEF IInv, TypeOK, ProcInv, RestInv

\* The steps of a daemon or a gateway.
LEMMA ServiceSteps == ASSUME IInv, Crossing, NEW p \in Pids, Service(p) PROVE IInv'
<1>0. /\ proc \in [Pids -> ProcType] /\ proc[p] \in ProcType /\ LifeOK(proc[p]) /\ RestInv
      /\ "control" \in Services /\ "web" \in Services
  BY Parts DEF IInv, TypeOK, Lives, Services
<1>1. ASSUME NEW q \in Pids, NEW s \in Services PROVE Removed(s, q) \in [Services -> Pids \cup {None}]
  BY <1>0 DEF Removed, RestInv
<1>2. RestInv'
  <2>1. sock' \in Pids \cup {None} /\ port' \in Pids \cup {None} /\ UNCHANGED <<bin, unit, cl>>
    BY <1>0 DEF RestInv, Service, Probe, Listen, WritePID, PrepareFails, Autostart, Serve, Drain, Close, RemoveFiles, Register, Bind, Leave, host
  <2>2. pidf' = pidf \/ (\E s \in Services : pidf' = [pidf EXCEPT ![s] = p] \/ pidf' = Removed(s, p))
    BY <1>0 DEF Service, Probe, Listen, WritePID, PrepareFails, Autostart, Serve, Drain, Close, RemoveFiles, Register, Bind, Leave, host
  <2>3. pidf' \in [Services -> Pids \cup {None}]  BY <1>0, <1>1, <2>2 DEF RestInv
  <2> QED BY <1>0, <2>1, <2>3 DEF RestInv, Upgrades
<1>keeps. ProcInv' => IInv'  BY <1>2 DEF IInv, TypeOK, ProcInv, RestInv
\* A step that changes pc alone.
<1>3. ASSUME NEW pc \in Stages, Step(p, pc)
      PROVE  \E r \in ProcType : /\ proc' = [proc EXCEPT ![p] = r] /\ r.kind = proc[p].kind /\ r.pc = pc
                                 /\ r.exe = proc[p].exe /\ r.lis = proc[p].lis /\ r.next = proc[p].next /\ r.out = proc[p].out
  <2> DEFINE r == [proc[p] EXCEPT !.pc = pc]
  <2>1. /\ r \in ProcType /\ r.kind = proc[p].kind /\ r.pc = pc
        /\ r.exe = proc[p].exe /\ r.lis = proc[p].lis /\ r.next = proc[p].next /\ r.out = proc[p].out
    BY <1>0 DEF ProcType
  <2>2. proc' = [proc EXCEPT ![p] = r]  BY <1>3 DEF Step
  <2> HIDE DEF r
  <2> QED BY <2>1, <2>2
<1>4. CASE Probe(p)
  <2>1. At(p, "control", "boot") /\ UNCHANGED <<sock, unit>>  BY <1>4 DEF Probe, host
  <2>2. CASE Dead(p)  BY <2>1, <2>2, ProcessEnds, <1>keeps
  <2>3. CASE ~Accepts /\ Step(p, "listen")
    <3>1. PICK r \in ProcType : /\ proc' = [proc EXCEPT ![p] = r] /\ r.kind = proc[p].kind /\ r.pc = "listen"
                                /\ r.exe = proc[p].exe /\ r.lis = proc[p].lis /\ r.next = proc[p].next /\ r.out = proc[p].out
      BY <1>3, <2>3 DEF Stages
    <3>2. LifeOK(r) /\ ~r.lis  BY <1>0, <2>1, <3>1 DEF LifeOK, At, Listening
    <3>3. Passing # {}
      <4>1. proc'[p].pc = "listen"  BY <1>0, <3>1
      <4> QED BY <2>1, <4>1 DEF Passing
    <3>5. ASSUME NEW q \in Pids \ {p}, Holds(q), ~(p \in crossed' /\ q \in crossed') PROVE FALSE
      <4>1. Holds(p)' /\ Holds(q)'  BY <1>0, <2>1, <3>1, <3>5 DEF Holds, At
      <4>2. p \in Passing  BY <1>0, <2>1, <3>1 DEF Passing
      <4>3. q \notin Unseen  BY <3>3, <3>5, <4>1, <4>2 DEF Crossing
      <4>4. proc[q].lis /\ sock = q  BY <3>5, <4>3 DEF Unseen
      <4> QED BY <2>3, <4>4, DaemonOK DEF Accepts
    <3>6. Held(r) /\ ~Holds(p)  BY <2>1, <3>1 DEF Held, Holds, At
    <3>4. unit'.pid = p /\ r.kind # "none" => r.exe # Foreign  BY <2>1, <3>1, DaemonOK DEF IInv, UnitIsOwn
    <3>7. ProcInv'  BY <2>1, <3>1, <3>2, <3>4, <3>5, <3>6, ProcessChanges
    <3> QED BY <1>keeps, <3>7
  <2> QED BY <1>4, <2>2, <2>3 DEF Probe
<1>5. CASE Listen(p)
  <2> DEFINE r == [proc[p] EXCEPT !.pc = "pid", !.lis = TRUE]
  <2>1. At(p, "control", "listen") /\ sock' = p /\ proc' = [proc EXCEPT ![p] = r] /\ UNCHANGED unit  BY <1>5 DEF Listen
  <2>2. /\ r \in ProcType /\ r.kind = proc[p].kind /\ r.pc = "pid" /\ r.lis = TRUE
        /\ r.exe = proc[p].exe /\ r.next = proc[p].next /\ r.out = proc[p].out
    BY <1>0 DEF ProcType, Stages
  <2> HIDE DEF r
  <2>3. LifeOK(r)  BY <1>0, <2>1, <2>2 DEF LifeOK, At, Listening
  <2>4. Holds(p)  BY <2>1 DEF At, Holds
  <2> QED BY <2>1, <2>2, <2>3, <2>4, HolderSteps, <1>keeps
<1>6. CASE WritePID(p)
  <2>1. At(p, "control", "pid") /\ UNCHANGED unit  BY <1>6 DEF WritePID
  <2>2. Holds(p)  BY <2>1 DEF At, Holds
  <2>3. CASE Dead(p)  BY <2>1, <2>2, <2>3, ProcessEnds, <1>keeps
  <2>4. CASE Step(p, "auto") /\ UNCHANGED sock
    <3>1. PICK r \in ProcType : /\ proc' = [proc EXCEPT ![p] = r] /\ r.kind = proc[p].kind /\ r.pc = "auto"
                                /\ r.exe = proc[p].exe /\ r.lis = proc[p].lis /\ r.next = proc[p].next /\ r.out = proc[p].out
      BY <1>3, <2>4 DEF Stages
    <3>2. r.next = 1 /\ r.out = {} /\ r.lis /\ r.kind = "control"  BY <1>0, <2>1, <3>1 DEF LifeOK, At, Listening
    <3>3. 1 \in 1..(NumProfiles + 1) /\ 1..(1 - 1) = {}  BY DaemonOK
    <3>4. LifeOK(r)  BY <3>1, <3>2, <3>3 DEF LifeOK, Listening
    <3> QED BY <2>1, <2>2, <2>4, <3>4, <3>1, <3>2, HolderSteps, <1>keeps
  <2> QED BY <1>6, <2>3, <2>4 DEF WritePID
<1>7. CASE PrepareFails(p) \/ Drain(p)
  <2>1. proc[p].kind = "control" /\ proc[p].pc \in {"auto", "serve"} /\ Step(p, "close") /\ UNCHANGED <<unit, sock>>
    BY <1>7 DEF PrepareFails, Drain, At, host
  <2>2. PICK r \in ProcType : /\ proc' = [proc EXCEPT ![p] = r] /\ r.kind = proc[p].kind /\ r.pc = "close"
                              /\ r.exe = proc[p].exe /\ r.lis = proc[p].lis /\ r.next = proc[p].next /\ r.out = proc[p].out
    BY <1>3, <2>1 DEF Stages
  <2>3. LifeOK(r) /\ Holds(p)  BY <1>0, <2>1, <2>2 DEF LifeOK, Listening, Holds
  <2> QED BY <2>1, <2>2, <2>3, HolderSteps, <1>keeps
<1>8. CASE Autostart(p)
  <2>1. At(p, "control", "auto") /\ UNCHANGED <<sock, unit>> /\ proc[p].next <= NumProfiles  BY <1>8 DEF Autostart
  <2>2. CASE proc' = [proc EXCEPT ![p].next = @ + 1, ![p].try = 0, ![p].out = @ \cup {proc[p].next}]
    <3> DEFINE r == [proc[p] EXCEPT !.next = @ + 1, !.try = 0, !.out = @ \cup {proc[p].next}]
    <3>0. proc[p].next + 1 \in Nat /\ proc[p].out \cup {proc[p].next} \in SUBSET Nat  BY <1>0 DEF ProcType
    <3>1. /\ r \in ProcType /\ r.kind = proc[p].kind /\ r.pc = proc[p].pc /\ r.lis = proc[p].lis
          /\ r.exe = proc[p].exe /\ r.next = proc[p].next + 1 /\ r.out = proc[p].out \cup {proc[p].next}
      BY <1>0, <3>0 DEF ProcType
    <3>2. proc' = [proc EXCEPT ![p] = r]  BY <2>2
    <3> HIDE DEF r
    <3>3. r.next \in 1..(NumProfiles + 1) /\ r.out = 1..(r.next - 1)
      <4>1. proc[p].next \in 1..(NumProfiles + 1) /\ proc[p].out = 1..(proc[p].next - 1)
        BY <1>0, <2>1 DEF LifeOK, At
      <4> QED BY <2>1, <3>1, <4>1, DaemonOK
    <3>4. LifeOK(r)  BY <1>0, <2>1, <3>1, <3>3 DEF LifeOK, At
    <3> QED BY <2>1, <3>1, <3>2, <3>4, HolderSteps, <1>keeps
  <2>3. CASE proc' = [proc EXCEPT ![p].try = @ + 1]
    <3> DEFINE r == [proc[p] EXCEPT !.try = @ + 1]
    <3>1. /\ r \in ProcType /\ r.kind = proc[p].kind /\ r.pc = proc[p].pc /\ r.lis = proc[p].lis
          /\ r.exe = proc[p].exe /\ r.next = proc[p].next /\ r.out = proc[p].out
      BY <1>0 DEF ProcType
    <3>2. proc' = [proc EXCEPT ![p] = r]  BY <2>3
    <3> HIDE DEF r
    <3>3. LifeOK(r)  BY <1>0, <3>1 DEF LifeOK
    <3> QED BY <2>1, <3>1, <3>2, <3>3, HolderSteps, <1>keeps
  <2> QED BY <1>8, <2>2, <2>3 DEF Autostart
<1>9. CASE Serve(p)
  <2> DEFINE r == [proc[p] EXCEPT !.pc = "serve", !.up = TRUE]
  <2>1. At(p, "control", "auto") /\ proc[p].next > NumProfiles /\ proc' = [proc EXCEPT ![p] = r] /\ UNCHANGED <<sock, unit>>
    BY <1>9 DEF Serve
  <2>2. /\ r \in ProcType /\ r.kind = proc[p].kind /\ r.pc = "serve" /\ r.lis = proc[p].lis
        /\ r.exe = proc[p].exe /\ r.next = proc[p].next /\ r.out = proc[p].out
    BY <1>0 DEF ProcType, Stages
  <2> HIDE DEF r
  <2>3. r.out = 1..NumProfiles
    <3>1. proc[p].next \in 1..(NumProfiles + 1) /\ proc[p].out = 1..(proc[p].next - 1)  BY <1>0, <2>1 DEF LifeOK, At
    <3>2. proc[p].next = NumProfiles + 1  BY <2>1, <3>1, DaemonOK
    <3> QED BY <2>2, <3>1, <3>2, DaemonOK
  <2>4. LifeOK(r) /\ Holds(p)  BY <1>0, <2>1, <2>2, <2>3 DEF LifeOK, At, Listening, Holds
  <2> QED BY <2>1, <2>2, <2>4, HolderSteps, <1>keeps
<1>10. CASE Close(p)
  <2> DEFINE r == [proc[p] EXCEPT !.pc = "unsock", !.lis = FALSE, !.up = FALSE]
  <2>1. At(p, "control", "close") /\ proc' = [proc EXCEPT ![p] = r] /\ UNCHANGED unit  BY <1>10 DEF Close
  <2>2. r \in ProcType /\ r.kind = proc[p].kind /\ r.pc = "unsock" /\ r.lis = FALSE /\ r.exe = proc[p].exe
    BY <1>0 DEF ProcType, Stages
  <2> HIDE DEF r
  <2>3. LifeOK(r) /\ Holds(p)  BY <2>1, <2>2 DEF LifeOK, At, Listening, Holds
  <2> QED BY <2>1, <2>2, <2>3, HolderSteps, <1>keeps
<1>11. CASE RemoveFiles(p)
  <2>1. Holds(p) /\ Dead(p) /\ UNCHANGED unit  BY <1>11 DEF RemoveFiles, At, Holds
  <2> QED BY <2>1, ProcessEnds, <1>keeps
<1>12. CASE Register(p) \/ Bind(p) \/ Leave(p)
  <2>1. proc[p].kind = "web" /\ UNCHANGED <<sock, unit>>  BY <1>12 DEF Register, Bind, Leave, At
  <2>2. CASE Dead(p)  BY <2>1, <2>2, ProcessEnds, <1>keeps
  <2>3. ASSUME NEW pc \in {"bind", "serve"}, Step(p, pc) PROVE IInv'
    <3>1. PICK r \in ProcType : /\ proc' = [proc EXCEPT ![p] = r] /\ r.kind = proc[p].kind /\ r.pc = pc
                                /\ r.exe = proc[p].exe /\ r.lis = proc[p].lis /\ r.next = proc[p].next /\ r.out = proc[p].out
      BY <1>3, <2>3 DEF Stages
    <3>2. LifeOK(r) /\ ~r.lis /\ r.kind = "web"  BY <1>0, <2>1, <3>1 DEF LifeOK
    <3>3. unit'.pid = p /\ r.kind # "none" => r.exe # Foreign  BY <2>1, <3>1, DaemonOK DEF IInv, UnitIsOwn
    <3>4. ProcInv'  BY <2>1, <3>1, <3>2, <3>3, ProcessChanges DEF Held
    <3> QED BY <1>keeps, <3>4
  <2> QED BY <1>12, <2>2, <2>3 DEF Register, Bind, Leave
<1> QED BY <1>4, <1>5, <1>6, <1>7, <1>8, <1>9, <1>10, <1>11, <1>12 DEF Service
-----------------------------------------------------------------------------
(* The commands                                                            *)

\* Where a command stands, and that it is one of the upgrades the invariant describes.
CmdOK(r) == r \in ClType /\ UpgradeOK(r)

LEMMA IdleOK == CmdOK(Idle) /\ Idle.pc = "idle"
BY DaemonOK DEF Idle, CmdOK, ClType, UpgradeOK, Waits, Commands, Services

\* stopServices.
LEMMA StoppingOK ==
  ASSUME NEW r \in ClType, r.then = "services"
  PROVE  CmdOK(Stopping(r)) /\ Stopping(r).pc # "idle"
<1>1. CASE r.todo # {}
  <2> DEFINE n == [r EXCEPT !.pc = "halt", !.svc = First(r.todo)]
  <2>1. First(r.todo) \in Services  BY DEF First, Services
  <2>2. n \in ClType /\ n.pc = "halt" /\ n.then = "services"  BY <2>1 DEF ClType, Waits
  <2>3. Stopping(r) = n  BY <1>1 DEF Stopping
  <2> HIDE DEF n
  <2> QED BY <2>2, <2>3 DEF CmdOK, UpgradeOK
<1>2. CASE r.todo = {}
  <2> DEFINE pc == IF r.cmd = "upgrade" THEN "install" ELSE "disable"
             n  == [r EXCEPT !.pc = pc]
  <2>1. pc \in Waits /\ pc # "idle"  BY DEF Waits
  <2>2. n \in ClType /\ n.pc = pc /\ n.then = "services" /\ n.cmd = r.cmd  BY <2>1 DEF ClType
  <2>3. Stopping(r) = n  BY <1>2 DEF Stopping
  <2> HIDE DEF n
  <2> QED BY <2>1, <2>2, <2>3 DEF CmdOK, UpgradeOK
<1> QED BY <1>1, <1>2

\* startServices ends only when nothing is left to start.
LEMMA StartingOK ==
  ASSUME NEW r \in ClType, r.cmd = "upgrade" => r.then = "services"
  PROVE  CmdOK(Starting(r)) /\ (Starting(r).pc = "idle" => r.down = {})
<1>1. CASE r.down # {}
  <2> DEFINE n == [r EXCEPT !.pc = "check", !.svc = First(r.down)]
  <2>1. First(r.down) \in Services  BY DEF First, Services
  <2>2. n \in ClType /\ n.pc = "check" /\ n.then = r.then /\ n.cmd = r.cmd  BY <2>1 DEF ClType, Waits
  <2>3. Starting(r) = n  BY <1>1 DEF Starting
  <2> HIDE DEF n
  <2> QED BY <2>2, <2>3 DEF CmdOK, UpgradeOK
<1>2. CASE r.down = {}  BY <1>2, IdleOK DEF Starting
<1> QED BY <1>1, <1>2

LEMMA AfterStopOK ==
  ASSUME NEW r \in ClType, r.cmd = "upgrade" => r.then = "services"
  PROVE  CmdOK(AfterStop(r)) /\ (r.cmd = "upgrade" => AfterStop(r).pc # "idle")
<1>1. CASE r.then = "restart"
  <2> DEFINE n == [r EXCEPT !.pc = "check", !.then = "ready"]
  <2>1. n \in ClType /\ n.cmd = r.cmd
    <3>1. n.cmd = r.cmd  BY DEF ClType
    <3>2. "check" \in Waits  BY DEF Waits
    <3> DEFINE m == [r EXCEPT !.pc = "check"]
    <3>3. m \in ClType /\ n = [m EXCEPT !.then = "ready"]  BY <3>2 DEF ClType
    <3> HIDE DEF m
    <3>4. n \in ClType  BY <3>3 DEF ClType
    <3> QED BY <3>1, <3>4
  <2>2. AfterStop(r) = n  BY <1>1 DEF AfterStop
  <2> HIDE DEF n
  <2> QED BY <1>1, <2>1, <2>2 DEF CmdOK, UpgradeOK
<1>2. CASE r.then = "services"
  <2> DEFINE n == [r EXCEPT !.todo = @ \ {r.svc}, !.down = @ \cup {r.svc}]
  <2>1. n \in ClType /\ n.then = "services"  BY <1>2 DEF ClType
  <2>2. AfterStop(r) = Stopping(n)  BY <1>2 DEF AfterStop
  <2> HIDE DEF n
  <2> QED BY <2>1, <2>2, StoppingOK
<1>3. CASE r.then \notin {"restart", "services"}
  <2>1. AfterStop(r) = Idle  BY <1>3 DEF AfterStop
  <2> QED BY <1>3, <2>1, IdleOK
<1> QED BY <1>1, <1>2, <1>3

LEMMA StopFailedOK ==
  ASSUME NEW r \in ClType, r.cmd = "upgrade" => r.then = "services"
  PROVE  CmdOK(StopFailed(r)) /\ (r.cmd = "upgrade" => StopFailed(r).pc # "idle")
<1>1. CASE r.then = "services"
  <2> DEFINE n == [r EXCEPT !.todo = @ \ {r.svc}]
  <2>1. n \in ClType /\ n.then = "services"  BY <1>1 DEF ClType
  <2>2. StopFailed(r) = Stopping(n)  BY <1>1 DEF StopFailed
  <2> HIDE DEF n
  <2> QED BY <2>1, <2>2, StoppingOK
<1>2. CASE r.then # "services"
  <2>1. StopFailed(r) = Idle  BY <1>2 DEF StopFailed
  <2> QED BY <1>2, <2>1, IdleOK
<1> QED BY <1>1, <1>2

LEMMA AfterStartOK ==
  ASSUME NEW r \in ClType, NEW ok \in BOOLEAN, r.cmd = "upgrade" => r.then = "services"
  PROVE  CmdOK(AfterStart(r, ok)) /\ (r.cmd = "upgrade" /\ AfterStart(r, ok).pc = "idle" => r.down \subseteq {r.svc})
<1>1. CASE r.then = "services"
  <2> DEFINE n == [r EXCEPT !.down = @ \ {r.svc}]
  <2>1. n \in ClType /\ n.then = "services" /\ n.down = r.down \ {r.svc}  BY <1>1 DEF ClType
  <2>2. AfterStart(r, ok) = Starting(n)  BY <1>1 DEF AfterStart
  <2> HIDE DEF n
  <2> QED BY <2>1, <2>2, StartingOK
<1>2. CASE r.then = "await" /\ ok
  <2> DEFINE n == [r EXCEPT !.pc = "await", !.began = TRUE]
  <2>1. n \in ClType /\ n.cmd = r.cmd  BY DEF ClType, Waits
  <2>2. AfterStart(r, ok) = n  BY <1>2 DEF AfterStart
  <2> HIDE DEF n
  <2> QED BY <1>2, <2>1, <2>2 DEF CmdOK, UpgradeOK
<1>3. CASE r.then = "ready" /\ ok
  <2> DEFINE n == [r EXCEPT !.pc = "await"]
  <2>1. n \in ClType /\ n.cmd = r.cmd  BY DEF ClType, Waits
  <2>2. AfterStart(r, ok) = n  BY <1>3 DEF AfterStart
  <2> HIDE DEF n
  <2> QED BY <1>3, <2>1, <2>2 DEF CmdOK, UpgradeOK
<1>4. CASE r.then # "services" /\ ~(r.then \in {"await", "ready"} /\ ok)
  <2>1. AfterStart(r, ok) = Idle  BY <1>4 DEF AfterStart
  <2> QED BY <1>4, <2>1, IdleOK
<1> QED BY <1>1, <1>2, <1>3, <1>4

\* What UpgradeRestores says of one step of a command to r.
Restored(c, r) ==
  cl[c].cmd = "upgrade" /\ r.pc = "idle"
    => cl[c].down \subseteq IF cl[c].pc \in {"check", "watch"} THEN {cl[c].svc} ELSE {}

\* The doctor's verdicts change nothing else of its command.
Judged(r, saw, prt) == [r EXCEPT !.pc = "reach", !.saw = saw, !.port = prt]
LEMMA VerdictOK ==
  ASSUME NEW r \in ClType, NEW saw \in {"orphan", "down", "stale", "running", "other"},
         NEW prt \in {"free", "ours", "taken"}
  PROVE  Judged(r, saw, prt) \in ClType /\ Judged(r, saw, prt).cmd = r.cmd
<1>1. Judged(r, saw, prt).cmd = r.cmd  BY DEF ClType, Judged
<1>2. "reach" \in Waits  BY DEF Waits
<1>3. Judged(r, saw, prt) \in ClType  BY <1>2 DEF ClType, Judged
<1> QED BY <1>1, <1>3

\* Where each step takes a command.
LEMMA CommandSteps ==
  ASSUME IInv, NEW c \in Clients, Terminal(c)
  PROVE  \E r : Put(c, r) /\ CmdOK(r) /\ Restored(c, r)
<1>0. /\ cl[c] \in ClType /\ UpgradeOK(cl[c]) /\ None \in Pids \cup {None}
      /\ pidf \in [Services -> Pids \cup {None}] /\ cl[c].svc \in Services
  BY DEF IInv, TypeOK, Upgrades, ClType
<1>1. cl[c].cmd = "upgrade" /\ cl[c].pc # "survey" => cl[c].then = "services"  BY <1>0 DEF UpgradeOK
<1>moves. ASSUME NEW pc \in Waits, Put(c, [cl[c] EXCEPT !.pc = pc]),
                 cl[c].cmd = "upgrade" => cl[c].pc # "survey" /\ pc \in {"spawn", "watch"}
          PROVE  \E r : Put(c, r) /\ CmdOK(r) /\ Restored(c, r)
  <2> DEFINE n == [cl[c] EXCEPT !.pc = pc]
  <2>1. n \in ClType /\ n.pc = pc /\ n.cmd = cl[c].cmd /\ n.then = cl[c].then  BY <1>0 DEF ClType
  <2>2. Put(c, n)  BY <1>moves
  <2> HIDE DEF n
  <2>3. CmdOK(n) /\ Restored(c, n)  BY <1>1, <1>moves, <2>1 DEF CmdOK, UpgradeOK, Restored
  <2> QED BY <2>2, <2>3
<1>2. CASE In(c, "check") /\ Check(c)
  <2>1. CASE Put(c, AfterStart(cl[c], FALSE))
    BY <1>0, <1>1, <1>2, <2>1, AfterStartOK DEF Restored, In
  <2>2. CASE Put(c, [cl[c] EXCEPT !.pc = "spawn"])
    BY <1>2, <2>2, <1>moves DEF In, Waits
  <2> QED BY <1>2, <2>1, <2>2 DEF Check
<1>3. ASSUME NEW p \in Pids, Spawn(c, p) PROVE \E r : Put(c, r) /\ CmdOK(r) /\ Restored(c, r)
  <2> DEFINE n == [cl[c] EXCEPT !.pc = "record", !.pid = p]
  <2>1. n \in ClType /\ n.pc = "record" /\ n.cmd = cl[c].cmd /\ n.then = cl[c].then  BY <1>0 DEF ClType, Waits
  <2>2. Put(c, n) /\ cl[c].pc = "spawn"  BY <1>3 DEF Spawn, In
  <2> HIDE DEF n
  <2>3. CmdOK(n) /\ Restored(c, n)  BY <1>1, <2>1, <2>2 DEF CmdOK, UpgradeOK, Restored
  <2> QED BY <2>2, <2>3
<1>4. CASE Record(c)
  BY <1>4, <1>moves DEF Record, In, Waits
<1>5. CASE Watch(c)
  BY <1>0, <1>1, <1>5, AfterStartOK DEF Watch, Restored, In
<1>6. CASE Halt(c)
  <2>1. CASE Put(c, AfterStop(cl[c]))
    BY <1>0, <1>1, <1>6, <2>1, AfterStopOK DEF Halt, Restored, In
  <2>2. ASSUME NEW p \in Pids, Put(c, [cl[c] EXCEPT !.pc = "gone", !.pid = p])
        PROVE  \E r : Put(c, r) /\ CmdOK(r) /\ Restored(c, r)
    <3> DEFINE n == [cl[c] EXCEPT !.pc = "gone", !.pid = p]
    <3>1. n \in ClType /\ n.pc = "gone" /\ n.cmd = cl[c].cmd /\ n.then = cl[c].then  BY <1>0 DEF ClType, Waits
    <3>2. Put(c, n) /\ cl[c].pc = "halt"  BY <1>6, <2>2 DEF Halt, In
    <3> HIDE DEF n
    <3>3. CmdOK(n) /\ Restored(c, n)  BY <1>1, <3>1, <3>2 DEF CmdOK, UpgradeOK, Restored
    <3> QED BY <3>2, <3>3
  <2>3. RunningSelf(cl[c].svc) \in Pids \cup {None}  BY <1>0 DEF RunningSelf
  <2>4. CASE Put(c, StopFailed(cl[c]))
    BY <1>0, <1>1, <1>6, <2>4, StopFailedOK DEF Halt, Restored, In
  <2> QED BY <1>6, <2>1, <2>2, <2>3, <2>4 DEF Halt
<1>7. CASE AwaitGone(c)
  BY <1>0, <1>1, <1>7, AfterStopOK, StopFailedOK DEF AwaitGone, Restored, In
<1>8. ASSUME cl[c].cmd # "upgrade", NEW r, Put(c, r), r \in ClType, r.cmd # "upgrade"
      PROVE  \E n : Put(c, n) /\ CmdOK(n) /\ Restored(c, n)
  BY <1>8 DEF CmdOK, UpgradeOK, Restored
<1>9. Idle \in ClType /\ Idle.cmd # "upgrade"  BY IdleOK DEF CmdOK, Idle
<1>10. cl[c].pc \in {"ask", "status", "await", "wizard", "disable", "disabled", "look", "reach", "idle"} => cl[c].cmd # "upgrade"
  BY <1>0 DEF UpgradeOK
<1>11. CASE Ask(c)
  <2>1. cl[c].cmd # "upgrade" /\ \E pc \in {"wizard", "status"} : Put(c, [cl[c] EXCEPT !.pc = pc])
    BY <1>10, <1>11 DEF Ask, In
  <2> QED BY <1>moves, <2>1 DEF Waits
<1>12. CASE Status(c)
  <2>1. cl[c].cmd # "upgrade"  BY <1>10, <1>12 DEF Status, In
  <2>2. ASSUME NEW pc \in Waits, Put(c, [cl[c] EXCEPT !.then = "await", !.pc = pc])
        PROVE  \E r : Put(c, r) /\ CmdOK(r) /\ Restored(c, r)
    <3> DEFINE n == [cl[c] EXCEPT !.then = "await", !.pc = pc]
    <3>1. n \in ClType /\ n.cmd = cl[c].cmd  BY <1>0 DEF ClType
    <3>2. Put(c, n)  BY <2>2
    <3> HIDE DEF n
    <3> QED BY <1>8, <2>1, <3>1, <3>2
  <2>3. Put(c, Idle) \/ \E pc \in Waits : Put(c, [cl[c] EXCEPT !.then = "await", !.pc = pc])
    BY <1>12 DEF Status, Waits
  <2> QED BY <1>8, <1>9, <2>1, <2>2, <2>3
<1>13. CASE Await(c)
  <2>1. cl[c].cmd # "upgrade" /\ (Put(c, Idle) \/ Put(c, [cl[c] EXCEPT !.pc = "wizard"]))
    BY <1>10, <1>13 DEF Await, In
  <2> QED BY <1>8, <1>9, <1>moves, <2>1 DEF Waits
<1>14. CASE Wizard(c)
  <2>1. cl[c].cmd # "upgrade"  BY <1>10, <1>14 DEF Wizard, In
  <2>2. ASSUME NEW then \in {"restart", "return"}, Put(c, [cl[c] EXCEPT !.pc = "halt", !.then = then])
        PROVE  \E r : Put(c, r) /\ CmdOK(r) /\ Restored(c, r)
    <3> DEFINE n == [cl[c] EXCEPT !.pc = "halt", !.then = then]
    <3>0. cl[c] \in ClType /\ "halt" \in Waits  BY <1>0 DEF Waits
    <3>1. n \in ClType /\ n.cmd = cl[c].cmd  BY <3>0 DEF ClType
    <3>2. Put(c, n)  BY <2>2
    <3> HIDE DEF n
    <3> QED BY <1>8, <2>1, <3>1, <3>2
  <2> QED BY <1>8, <1>9, <1>14, <2>1, <2>2 DEF Wizard, Outcomes
<1>15. CASE Survey(c)
  <2> DEFINE n == [cl[c] EXCEPT !.then = "services", !.todo = {s \in Services : RunningSelf(s) # None}]
  <2>1. n \in ClType /\ n.then = "services"  BY <1>0 DEF ClType
  <2>2. Put(c, Stopping(n)) /\ cl[c].pc = "survey"  BY <1>15 DEF Survey, In
  <2> HIDE DEF n
  <2>3. CmdOK(Stopping(n)) /\ Restored(c, Stopping(n))  BY <2>1, StoppingOK DEF Restored
  <2> QED BY <2>2, <2>3
<1>16. CASE Install(c)
  BY <1>0, <1>1, <1>16, StartingOK DEF Install, Restored, In
<1>17. CASE Disable(c)
  BY <1>10, <1>17, <1>moves DEF Disable, In, Waits
<1>18. ASSUME NEW home, NEW command, Purge(c, home, command) PROVE \E r : Put(c, r) /\ CmdOK(r) /\ Restored(c, r)
  BY <1>8, <1>9, <1>10, <1>18 DEF Purge, In
<1>19. CASE Look(c)
  <2>1. PidVerdict \in {"orphan", "down", "stale", "running", "other"} /\ PortVerdict \in {"free", "ours", "taken"}
    BY DEF PidVerdict, PortVerdict
  <2>2. ASSUME NEW saw \in {"orphan", "down", "stale", "running", "other"}, NEW prt \in {"free", "ours", "taken"},
               Put(c, [cl[c] EXCEPT !.pc = "reach", !.saw = saw, !.port = prt])
        PROVE  \E r : Put(c, r) /\ CmdOK(r) /\ Restored(c, r)
    <3> DEFINE n == Judged(cl[c], saw, prt)
    <3>1. cl[c] \in ClType  BY <1>0
    <3>2. n \in ClType /\ n.cmd = cl[c].cmd  BY <2>2, <3>1, VerdictOK
    <3>3. Put(c, n)  BY <2>2 DEF Judged
    <3>4. cl[c].cmd # "upgrade"  BY <1>10, <1>19 DEF Look, In
    <3> HIDE DEF n
    <3> QED BY <1>8, <3>2, <3>3, <3>4
  <2> QED BY <1>19, <2>1, <2>2 DEF Look
<1>20. CASE Reach(c)
  <2>1. cl[c].cmd # "upgrade"  BY <1>10, <1>20 DEF Reach, In
  <2>2. ASSUME NEW pc \in Waits, Put(c, [cl[c] EXCEPT !.pc = pc, !.cmd = "remedy", !.port = "none"])
        PROVE  \E r : Put(c, r) /\ CmdOK(r) /\ Restored(c, r)
    <3> DEFINE n == [cl[c] EXCEPT !.pc = pc, !.cmd = "remedy", !.port = "none"]
    <3>1. n \in ClType /\ n.cmd = "remedy"  BY <1>0 DEF ClType, Commands
    <3>2. Put(c, n)  BY <2>2
    <3> HIDE DEF n
    <3> QED BY <1>8, <2>1, <3>1, <3>2
  <2>3. Put(c, Idle) \/ \E pc \in Waits : Put(c, [cl[c] EXCEPT !.pc = pc, !.cmd = "remedy", !.port = "none"])
    BY <1>20 DEF Reach, Waits
  <2> QED BY <1>8, <1>9, <2>1, <2>2, <2>3
<1>21. ASSUME NEW k \in {"start", "stop", "status", "setup", "upgrade", "uninstall", "doctor"}, NEW s \in Services, Command(c, k, s)
       PROVE  \E r : Put(c, r) /\ CmdOK(r) /\ Restored(c, r)
  <2> DEFINE n == [Idle EXCEPT !.cmd = k, !.svc = s, !.pc = Entry[k]]
  <2>1. Entry[k] \in Waits /\ Entry[k] # "idle" /\ (k = "upgrade" => Entry[k] = "survey")  BY DEF Entry, Waits
  <2>2. n \in ClType /\ n.cmd = k /\ n.pc = Entry[k] /\ n.down = {}  BY <1>9, <2>1 DEF ClType, Commands, Idle
  <2>3. Put(c, n)  BY <1>21 DEF Command
  <2> HIDE DEF n
  <2>4. CmdOK(n) /\ Restored(c, n)  BY <2>1, <2>2 DEF CmdOK, UpgradeOK, Restored
  <2> QED BY <2>3, <2>4
<1> QED BY <1>2, <1>3, <1>4, <1>5, <1>6, <1>7, <1>11, <1>12, <1>13, <1>14, <1>15, <1>16, <1>17, <1>18, <1>19, <1>20, <1>21
        DEF Terminal, Check, Services

\* What the commands do to the files.
LEMMA CommandFiles ==
  ASSUME IInv, NEW c \in Clients, Terminal(c)
  PROVE  /\ pidf' \in [Services -> Pids \cup {None}] /\ sock' \in Pids \cup {None} /\ port' \in Pids \cup {None}
         /\ bin' \in Nat /\ unit' \in UnitType
<1>0. /\ RestInv /\ cl[c] \in ClType /\ cl[c].svc \in Services /\ cl[c].pid \in Pids \cup {None}
      /\ pidf \in [Services -> Pids \cup {None}] /\ bin \in Nat /\ unit \in UnitType
      /\ sock \in Pids \cup {None} /\ port \in Pids \cup {None}
  BY Parts DEF RestInv, ClType
<1>1. \A s \in Services : RunningSelf(s) \in Pids \cup {None} /\ Cleared(s) \in [Services -> Pids \cup {None}]
  <2>1. \A s \in Services : RunningSelf(s) \in Pids \cup {None}  BY <1>0 DEF RunningSelf
  <2> QED BY <1>0, <2>1 DEF Cleared
<1>2. \A q \in Pids \cup {None} : \A s \in Services : Removed(s, q) \in [Services -> Pids \cup {None}]
  BY <1>0 DEF Removed
<1>3. pidf' \in [Services -> Pids \cup {None}]
  <2>1. CASE pidf' = pidf  BY <1>0, <2>1
  <2>2. CASE \E s \in Services : pidf' = Cleared(s)  BY <1>1, <2>2
  <2>3. CASE \E s \in Services, q \in Pids \cup {None} : pidf' = Removed(s, q) \/ pidf' = [pidf EXCEPT ![s] = q]
    <3>1. ASSUME NEW s \in Services, NEW q \in Pids \cup {None}
          PROVE  [pidf EXCEPT ![s] = q] \in [Services -> Pids \cup {None}]
      BY <1>0
    <3> QED BY <1>2, <2>3, <3>1
  <2>4. CASE pidf' = [s \in Services |-> RunningSelf(s)] \/ pidf' = [s \in Services |-> None]  BY <1>1, <2>4
  <2>5. ASSUME NEW p \in Pids, Spawn(c, p) PROVE pidf' = pidf  BY <2>5 DEF Spawn, host
  <2>6. ASSUME NEW k, NEW s, Command(c, k, s) PROVE pidf' = pidf  BY <2>6 DEF Command
  <2>7. CASE Ask(c) \/ Await(c) \/ Wizard(c) \/ Install(c) \/ Disable(c) \/ Look(c) \/ Reach(c)
    BY <2>1, <2>7 DEF Ask, Await, Wizard, Install, Disable, Look, Reach, host
  <2>8. CASE Check(c) \/ Halt(c) \/ Status(c)
    BY <1>0, <2>1, <2>2, <2>8 DEF Check, Halt, Status
  <2>9. CASE Record(c) \/ Watch(c) \/ AwaitGone(c)
    BY <1>0, <2>1, <2>3, <2>9 DEF Record, Watch, AwaitGone
  <2>10. CASE Survey(c)  BY <2>4, <2>10 DEF Survey
  <2>11. ASSUME NEW home \in BOOLEAN, NEW command \in BOOLEAN, Purge(c, home, command)
         PROVE  pidf' = pidf \/ pidf' = [s \in Services |-> None]
    BY <2>11 DEF Purge
  <2> QED BY <2>1, <2>4, <2>5, <2>6, <2>7, <2>8, <2>9, <2>10, <2>11 DEF Terminal
<1>4. sock' \in {sock, None} /\ port' \in {port, None} /\ bin' \in {bin, bin + 1, Gone}
  BY DEF Terminal, Check, Record, Watch, Halt, AwaitGone, Ask, Status, Await, Wizard, Survey, Install, Disable, Look, Reach,
         Spawn, Purge, Command, host
<1>5. unit' \in {unit, [unit EXCEPT !.on = FALSE], [unit EXCEPT !.home = FALSE]}
  BY DEF Terminal, Check, Record, Watch, Halt, AwaitGone, Ask, Status, Await, Wizard, Survey, Install, Disable, Look, Reach,
         Spawn, Purge, Command, host
<1>6. unit' \in UnitType  BY <1>0, <1>5 DEF UnitType
<1> QED BY <1>0, <1>3, <1>4, <1>6 DEF Gone

\* What the commands do to the processes.
LEMMA CommandProcesses == ASSUME IInv, Crossing, NEW c \in Clients, Terminal(c) PROVE ProcInv'
<1>0. /\ ProcInv /\ cl[c] \in ClType /\ cl[c].svc \in Services /\ cl[c].pid \in Pids \cup {None} /\ bin \in Nat
      /\ pidf \in [Services -> Pids \cup {None}] /\ unit \in UnitType
  BY Parts DEF RestInv, ClType
<1>1. ASSUME UNCHANGED <<proc, sock, unit>> PROVE ProcInv'
  BY <1>1, NothingMoves
<1>2. ASSUME NEW p \in Pids, Spawn(c, p) PROVE ProcInv'
  <2>1. cl[c].svc \in {"control", "web"} /\ FirstStep(cl[c].svc) \in {"boot", "register", "run"}
        /\ (cl[c].svc = "control" => FirstStep(cl[c].svc) = "boot")
    BY <1>0 DEF Services, FirstStep
  <2>2. p \in FreePids /\ proc' = [proc EXCEPT ![p] = Born(cl[c].svc, FirstStep(cl[c].svc), bin)] /\ UNCHANGED <<sock, unit>>
    BY <1>2 DEF Spawn, host
  <2> QED BY <1>0, <2>1, <2>2, ProcessBorn
<1>3. CASE Halt(c)
  <2>1. RunningSelf(cl[c].svc) \in Pids \cup {None} /\ UNCHANGED <<sock, unit>>  BY <1>0, <1>3 DEF RunningSelf, Halt
  <2> QED BY <1>1, <1>3, <2>1, ProcessSignalled DEF Halt
<1>4. CASE AwaitGone(c)
  <2>1. CASE Runs(cl[c].pid)
    <3>1. cl[c].pid \in Pids /\ Dead(cl[c].pid) /\ UNCHANGED <<sock, unit>>  BY <1>0, <1>4, <2>1 DEF AwaitGone, Runs
    <3> QED BY <3>1, ProcessEnds
  <2>2. CASE ~Runs(cl[c].pid)  BY <1>1, <1>4, <2>2 DEF AwaitGone
  <2> QED BY <2>1, <2>2
<1>5. CASE Disable(c)
  <2>1. unit' = [unit EXCEPT !.on = FALSE] /\ sock' = sock  BY <1>5 DEF Disable
  <2>2. unit'.pid = unit.pid /\ unit'.home = unit.home  BY <1>0, <2>1 DEF UnitType
  <2>3. CASE Runs(unit.pid)
    <3>1. unit.pid \in Pids /\ proc' = [proc EXCEPT ![unit.pid].term = TRUE]  BY <1>0, <1>5, <2>3 DEF Disable, Runs, UnitType
    <3> QED BY <2>1, <2>2, <3>1, ProcessSignalled
  <2>4. CASE ~Runs(unit.pid)
    <3>1. proc' = proc  BY <1>5, <2>4 DEF Disable
    <3> QED BY <2>1, <2>2, <3>1, NothingMoves
  <2> QED BY <2>3, <2>4
<1>6. ASSUME NEW home \in BOOLEAN, NEW command \in BOOLEAN, Purge(c, home, command) PROVE ProcInv'
  <2>1. CASE home
    <3>1. proc' = proc /\ unit' = [unit EXCEPT !.home = FALSE]  BY <1>6, <2>1 DEF Purge
    <3>2. unit'.home = FALSE /\ unit'.pid = unit.pid  BY <1>0, <3>1 DEF UnitType
    <3>3. ProcInv' <=> proc' \in [Pids -> ProcType] /\ crossed' \subseteq Pids /\ Lives' /\ UnitIsOwn' /\ OneHolder'  BY DEF ProcInv
    <3>4. OneHolder'  BY <3>2 DEF OneHolder
    <3> QED BY <1>0, <3>1, <3>2, <3>3, <3>4, CrossedStays DEF ProcInv, Lives, UnitIsOwn
  <2>2. CASE ~home  BY <1>1, <1>6, <2>2 DEF Purge
  <2> QED BY <2>1, <2>2
<1>7. ASSUME NEW k, NEW s, Command(c, k, s) PROVE ProcInv'  BY <1>1, <1>7 DEF Command
<1>8. CASE Check(c) \/ Record(c) \/ Watch(c) \/ Ask(c) \/ Status(c) \/ Await(c) \/ Wizard(c) \/ Survey(c) \/ Install(c) \/ Look(c) \/ Reach(c)
  BY <1>1, <1>8 DEF Check, Record, Watch, Ask, Status, Await, Wizard, Survey, Install, Look, Reach, host
<1> QED BY <1>2, <1>3, <1>4, <1>5, <1>6, <1>7, <1>8 DEF Terminal

LEMMA TerminalSteps == ASSUME IInv, Crossing, NEW c \in Clients, Terminal(c) PROVE IInv'
<1>1. PICK r : Put(c, r) /\ CmdOK(r)  BY CommandSteps
<1>2. cl' \in [Clients -> ClType] /\ Upgrades'  BY <1>1 DEF IInv, TypeOK, Upgrades, Put, CmdOK
<1> QED BY <1>2, CommandFiles, CommandProcesses DEF IInv, TypeOK, ProcInv

LEMMA EnvironmentSteps == ASSUME IInv, Crossing, Environment PROVE IInv'
<1>0. ProcInv /\ RestInv /\ bin \in Nat /\ unit \in UnitType  BY Parts DEF RestInv
<1>1. ASSUME ProcInv', UNCHANGED <<sock, pidf, cl>>, port' \in {port, None}, bin' \in Nat, unit' \in UnitType PROVE IInv'
  BY <1>0, <1>1 DEF RestInv, Upgrades, IInv, TypeOK, ProcInv
<1>2. CASE Replace
  <2>1. UNCHANGED <<proc, sock, port, pidf, unit, cl>> /\ bin' = bin + 1  BY <1>2 DEF Replace
  <2>2. ProcInv'  BY <2>1, NothingMoves
  <2> QED BY <1>0, <1>1, <2>1, <2>2
<1>3. CASE UnitInstall
  <2>1. unit' = [unit EXCEPT !.on = TRUE] /\ UNCHANGED <<sock, port, pidf, bin, cl>>  BY <1>3 DEF UnitInstall
  <2>2. unit' \in UnitType /\ unit'.pid = unit.pid /\ unit'.home = unit.home  BY <1>0, <2>1 DEF UnitType
  <2>3. CASE Runs(unit.pid)
    <3>1. unit.pid \in Pids /\ proc' = [proc EXCEPT ![unit.pid].term = TRUE]  BY <1>0, <1>3, <2>3 DEF UnitInstall, Runs, UnitType
    <3> QED BY <1>0, <1>1, <2>1, <2>2, <3>1, ProcessSignalled
  <2>4. CASE ~Runs(unit.pid)
    <3>1. proc' = proc  BY <1>3, <2>4 DEF UnitInstall
    <3>2. ProcInv'  BY <2>1, <2>2, <3>1, NothingMoves
    <3> QED BY <1>0, <1>1, <2>1, <2>2, <3>2
  <2> QED BY <2>3, <2>4
<1>4. ASSUME NEW p \in Pids, Kill(p) PROVE IInv'
  <2>1. Dead(p) /\ port' \in {port, None} /\ UNCHANGED <<sock, pidf, bin, unit, cl>>  BY <1>4 DEF Kill
  <2> QED BY <1>0, <1>1, <2>1, ProcessEnds
<1>5. ASSUME NEW p \in Pids, UnitStart(p) PROVE IInv'
  <2>1. /\ p \in FreePids /\ bin # Gone /\ proc' = [proc EXCEPT ![p] = Born("control", "boot", bin)]
        /\ unit' = [unit EXCEPT !.pid = p] /\ UNCHANGED <<sock, port, pidf, bin, cl>>
    BY <1>5 DEF UnitStart
  <2>2. unit' \in UnitType /\ unit'.pid = p /\ unit'.home = unit.home  BY <1>0, <2>1 DEF UnitType
  <2>3. ProcInv'  BY <1>0, <2>1, <2>2, ProcessBorn DEF Gone, Foreign
  <2> QED BY <1>0, <1>1, <2>1, <2>2, <2>3
<1>6. ASSUME NEW p \in Pids, NEW s \in Services, ByHand(p, s) PROVE IInv'
  <2>1. /\ p \in FreePids /\ proc' = [proc EXCEPT ![p] = Born(s, FirstStep(s), bin)]
        /\ UNCHANGED <<sock, port, pidf, bin, unit, cl>>
    BY <1>6 DEF ByHand, host
  <2>2. s \in {"control", "web"} /\ FirstStep(s) \in {"boot", "register", "run"} /\ (s = "control" => FirstStep(s) = "boot")
    BY DEF Services, FirstStep
  <2>3. ProcInv'  BY <1>0, <2>1, <2>2, ProcessBorn
  <2> QED BY <1>0, <1>1, <2>1, <2>3
<1>7. ASSUME NEW p \in Pids, NEW exe \in {Foreign, bin}, Recycle(p, exe) PROVE IInv'
  <2>1. p \in FreePids /\ proc' = [proc EXCEPT ![p] = Born("other", "run", exe)] /\ UNCHANGED <<sock, port, pidf, bin, unit, cl>>
    BY <1>7 DEF Recycle, host
  <2>2. exe \in Nat  BY <1>0 DEF Foreign
  <2>3. ProcInv'  BY <2>1, <2>2, ProcessBorn
  <2> QED BY <1>0, <1>1, <2>1, <2>3
<1> QED BY <1>2, <1>3, <1>4, <1>5, <1>6, <1>7 DEF Environment
-----------------------------------------------------------------------------
(* Theorems                                                                *)

LEMMA Initially == Init => IInv
<1> SUFFICES ASSUME Init PROVE IInv  OBVIOUS
<1>1. Free \in ProcType /\ LifeOK(Free) /\ Free.kind = "none" /\ Free.lis = FALSE
  BY DEF Free, ProcType, Stages, LifeOK, Foreign
<1>2. Idle \in ClType /\ UpgradeOK(Idle)  BY IdleOK DEF CmdOK
<1>3. proc = [p \in Pids |-> Free] /\ cl = [c \in Clients |-> Idle] /\ pidf = [s \in Services |-> None]  BY DEF Init
<1>4. unit = [on |-> FALSE, pid |-> None, home |-> TRUE]  BY DEF Init
<1>5. unit \in UnitType /\ unit.pid = None  BY <1>4 DEF UnitType
<1>6. TypeOK  BY <1>1, <1>2, <1>3, <1>5 DEF Init, TypeOK
<1>7. Lives /\ UnitIsOwn /\ Upgrades /\ OneHolder  BY <1>1, <1>2, <1>3, <1>5 DEF Lives, UnitIsOwn, Upgrades, OneHolder, Holds
<1> QED BY <1>6, <1>7 DEF IInv

LEMMA Preserved == IInv /\ [Next]_vars => IInv'
<1>1. IInv /\ Next => IInv'  BY ServiceSteps, TerminalSteps, EnvironmentSteps DEF Next
<1>2. IInv /\ UNCHANGED vars => IInv'
  BY DEF vars, IInv, TypeOK, Lives, UnitIsOwn, Upgrades, OneHolder, Holds
<1> QED BY <1>1, <1>2

LEMMA Invariance == Spec => []IInv
BY Initially, Preserved, PTL DEF Spec

\* The processes, the files they share and the commands keep their shape.
THEOREM TypesHold == Spec => []TypeOK
BY Invariance, PTL DEF IInv

\* The daemon that listens is the one the socket path leads to, whatever duplicates are
\* started, killed or refused, unless another's start has run into its own start or end
\* (NewControlListener, Shutdown); and in any case it serves only once every autostart
\* profile has its outcome (AutostartProfiles).
THEOREM ServersAreReady == Spec => []ServingIsReady
<1>1. IInv => ServingIsReady
  BY DEF IInv, Lives, LifeOK, OneHolder, ServingIsReady, At, Holds, Listening
<1> QED BY <1>1, Invariance, PTL

\* No command signals a process that was not started from InferenceRig's own
\* executable, however PIDs are reused: StopDetached asks runningSelf, and the
\* service manager's process keeps its PID until it is reaped.
THEOREM OwnProcessesStopped == Spec => OnlyOwnStopped
<1>1. IInv /\ [Next]_vars =>
        \A p \in Pids : proc'[p].term /\ ~proc[p].term /\ unit' = unit => proc[p].exe # Foreign
  <2> SUFFICES ASSUME IInv, Next, NEW p \in Pids, proc'[p].term, ~proc[p].term PROVE proc[p].exe # Foreign
    BY DEF vars
  <2>0. proc \in [Pids -> ProcType] /\ proc[p] \in ProcType /\ pidf \in [Services -> Pids \cup {None}] /\ unit \in UnitType
    BY DEF IInv, TypeOK
  <2>1. ASSUME NEW q \in Pids, NEW r, proc' = [proc EXCEPT ![q] = r], q = p => (r.term => proc[p].term) PROVE FALSE
    BY <2>0, <2>1
  <2>2. proc' # proc  OBVIOUS
  <2>3. ASSUME NEW q \in Pids, Dead(q) PROVE FALSE
    <3>1. Free.term = FALSE  BY DEF Free
    <3> QED BY <2>1, <2>3, <3>1 DEF Dead
  <2>4. ASSUME NEW q \in Pids, NEW k, NEW pc, NEW exe, proc' = [proc EXCEPT ![q] = Born(k, pc, exe)] PROVE FALSE
    <3>1. Born(k, pc, exe).term = FALSE  BY DEF Born, Free
    <3> QED BY <2>1, <2>4, <3>1
  <2>5. ASSUME NEW q \in Pids, Service(q) PROVE FALSE
    <3>1. ASSUME NEW pc, Step(q, pc) PROVE FALSE
      <4>1. proc'[q].term = proc[q].term  BY <2>0, <3>1 DEF Step, ProcType
      <4> QED BY <2>0, <3>1, <4>1 DEF Step
    <3>2. \/ Dead(q) \/ \E pc : Step(q, pc)
          \/ proc' = [proc EXCEPT ![q].pc = "pid", ![q].lis = TRUE]
          \/ proc' = [proc EXCEPT ![q].next = @ + 1, ![q].try = 0, ![q].out = @ \cup {proc[q].next}]
          \/ proc' = [proc EXCEPT ![q].try = @ + 1]
          \/ proc' = [proc EXCEPT ![q].pc = "serve", ![q].up = TRUE]
          \/ proc' = [proc EXCEPT ![q].pc = "unsock", ![q].lis = FALSE, ![q].up = FALSE]
      BY <2>5 DEF Service, Probe, Listen, WritePID, PrepareFails, Autostart, Serve, Drain, Close, RemoveFiles, Register, Bind, Leave
    <3>3. ~(\E pc : Step(q, pc)) /\ ~Dead(q)  BY <2>3, <3>1
    <3>4. proc'[q].term = proc[q].term /\ \A x \in Pids \ {q} : proc'[x] = proc[x]
      BY <2>0, <3>2, <3>3 DEF ProcType
    <3> QED BY <3>4
  <2>6. ASSUME NEW q \in Pids, proc' = [proc EXCEPT ![q].term = TRUE] PROVE q = p
    BY <2>0, <2>6
  <2>7. UnitIsOwn  BY DEF IInv
  <2>8. ASSUME NEW c \in Clients, Terminal(c) PROVE proc[p].exe # Foreign
    <3>0. cl[c].svc \in Services /\ cl[c].pid \in Pids \cup {None}  BY DEF IInv, TypeOK, ClType
    <3>1. CASE Halt(c)
      <4>1. RunningSelf(cl[c].svc) \in Pids /\ proc' = [proc EXCEPT ![RunningSelf(cl[c].svc)].term = TRUE]
        BY <2>0, <2>2, <3>0, <3>1 DEF Halt, RunningSelf
      <4>2. RunningSelf(cl[c].svc) = p  BY <2>6, <4>1
      <4>3. SameExecutable(p)  BY <4>1, <4>2, DaemonOK DEF RunningSelf
      <4> QED BY <4>3 DEF SameExecutable, Gone, Foreign
    <3>2. CASE Disable(c)
      <4>1. unit.pid \in Pids /\ Runs(unit.pid) /\ proc' = [proc EXCEPT ![unit.pid].term = TRUE]
        BY <2>0, <2>2, <3>2 DEF Disable, Runs, UnitType
      <4> QED BY <2>6, <2>7, <4>1 DEF UnitIsOwn, Runs
    <3>3. CASE AwaitGone(c)
      BY <2>2, <2>3, <3>0, <3>3 DEF AwaitGone, Runs
    <3>4. ASSUME NEW q \in Pids, Spawn(c, q) PROVE FALSE  BY <2>4, <3>4 DEF Spawn
    <3> QED BY <2>2, <2>8, <3>1, <3>2, <3>3, <3>4
            DEF Terminal, Check, Record, Watch, Ask, Status, Await, Wizard, Survey, Install, Look, Reach, Purge, Command
  <2>9. ASSUME Environment PROVE proc[p].exe # Foreign
    <3>1. CASE UnitInstall
      <4>1. unit.pid \in Pids /\ Runs(unit.pid) /\ proc' = [proc EXCEPT ![unit.pid].term = TRUE]
        BY <2>0, <2>2, <3>1 DEF UnitInstall, Runs, UnitType
      <4> QED BY <2>6, <2>7, <4>1 DEF UnitIsOwn, Runs
    <3>2. ASSUME NEW q \in Pids, Kill(q) \/ UnitStart(q) \/ (\E s \in Services : ByHand(q, s)) \/ (\E exe \in {Foreign, bin} : Recycle(q, exe))
          PROVE  FALSE
      BY <2>3, <2>4, <3>2 DEF Kill, UnitStart, ByHand, Recycle
    <3> QED BY <2>2, <2>9, <3>1, <3>2 DEF Environment, Replace
  <2> QED BY <2>5, <2>8, <2>9 DEF Next
<1> QED BY <1>1, Invariance, PTL DEF Spec, OnlyOwnStopped

\* Who moves the command at a terminal.
LEMMA WhoCommands ==
  ASSUME Next, NEW c \in Clients, cl'[c] # cl[c], cl \in [Clients -> ClType]
  PROVE  Terminal(c)
<1>1. ASSUME NEW p \in Pids, Service(p) PROVE cl' = cl
  BY <1>1 DEF Service, Probe, Listen, WritePID, PrepareFails, Autostart, Serve, Drain, Close, RemoveFiles, Register, Bind, Leave
<1>2. ASSUME Environment PROVE cl' = cl
  BY <1>2 DEF Environment, Replace, UnitInstall, Kill, UnitStart, ByHand, Recycle
<1>3. ASSUME NEW x \in Clients, Terminal(x) PROVE x = c
  <2>1. \E r : Put(x, r)
    BY <1>3 DEF Terminal, Check, Record, Watch, Halt, AwaitGone, Ask, Status, Await, Wizard, Survey, Install, Disable, Look, Reach,
                Spawn, Purge, Command
  <2> QED BY <2>1 DEF Put
<1> QED BY <1>1, <1>2, <1>3 DEF Next

\* An upgrade that ends has tried to start every service it had stopped, also when
\* its installer failed (runUpgrade, stopServices, startServices).
THEOREM UpgradesRestore == Spec => UpgradeRestores
<1>1. IInv /\ [Next]_vars =>
        \A c \in Clients : cl[c].cmd = "upgrade" /\ cl'[c].pc = "idle"
          => cl[c].down \subseteq IF cl[c].pc \in {"check", "watch"} THEN {cl[c].svc} ELSE {}
  <2> SUFFICES ASSUME IInv, [Next]_vars, NEW c \in Clients, cl[c].cmd = "upgrade", cl'[c].pc = "idle"
               PROVE  cl[c].down \subseteq IF cl[c].pc \in {"check", "watch"} THEN {cl[c].svc} ELSE {}
    OBVIOUS
  <2>1. cl \in [Clients -> ClType] /\ cl[c].pc # "idle"  BY DEF IInv, TypeOK, Upgrades, UpgradeOK
  <2>2. Terminal(c)  BY <2>1, WhoCommands DEF vars
  <2>3. PICK r : Put(c, r) /\ Restored(c, r)  BY <2>2, CommandSteps
  <2>4. cl'[c] = r  BY <2>1, <2>3 DEF Put
  <2> QED BY <2>3, <2>4 DEF Restored
<1> QED BY <1>1, Invariance, PTL DEF Spec, UpgradeRestores

\* While a daemon answers, doctor's first look does not say that none is running
\* (checkPIDFile and orphanDaemon).
THEOREM DoctorFindsServer == Spec => DoctorSeesServer
<1>1. IInv /\ [Next]_vars =>
        \A c \in Clients : In(c, "look") /\ cl'[c].pc = "reach" /\ Health => cl'[c].saw # "down"
  <2> SUFFICES ASSUME IInv, [Next]_vars, NEW c \in Clients, In(c, "look"), cl'[c].pc = "reach", Health
               PROVE  cl'[c].saw # "down"
    OBVIOUS
  <2>1. cl \in [Clients -> ClType] /\ cl[c] \in ClType  BY DEF IInv, TypeOK
  <2>2. Terminal(c)  BY <2>1, WhoCommands DEF vars, In
  <2>3. Look(c)
    BY <2>2 DEF Terminal, Check, Record, Watch, Halt, AwaitGone, Ask, Status, Await, Wizard, Survey, Install, Disable, Reach,
                Spawn, Purge, Command, In
  <2>4. cl'[c].saw = PidVerdict  BY <2>1, <2>3 DEF Look, Put, ClType
  <2>5. PidVerdict # "down"  BY DEF PidVerdict, Health
  <2> QED BY <2>4, <2>5
<1> QED BY <1>1, Invariance, PTL DEF Spec, DoctorSeesServer
-----------------------------------------------------------------------------
(* The daemon's clients (Console), for any profiles, backends, sessions and  *)
(* bounds: how the download command ends and what the dashboard sends.       *)

CONSTANTS Lists, BackendOf(_), Backends, ModelsOf(_), TargetOf(_), Missing, Sessions, MaxJobs, MaxWork, MaxFailures
VARIABLES world, dash, poll, fetch, rpcs, cli, work, failures, mine

Con == INSTANCE Console WITH faults <- failures, MaxFaults <- MaxFailures

\* The states of a download job.
States == {"running", "completed", "failed", "cancelled", "already"}

\* The daemon is a record, and its jobs have states.
JobsOf(P) == [p : P, state : States, live : BOOLEAN]
IsWorld(w) ==
  w = [session |-> w.session, profiles |-> w.profiles, running |-> w.running, auto |-> w.auto, jobs |-> w.jobs,
       installed |-> w.installed, models |-> w.models]
WorldOK(w) == IsWorld(w) /\ \E P : w.jobs \in Seq(JobsOf(P))

\* Jobs are only added, and one that is over stays as it is.
JobsKept(w, v) ==
  /\ WorldOK(v) /\ Len(w.jobs) <= Len(v.jobs)
  /\ \A i \in 1..Len(w.jobs) : Con!Terminal(w.jobs[i].state) => v.jobs[i].state = w.jobs[i].state

\* The download command: what it shows and has been told is what its job is, or was
\* when it was asked and still is if the job is over.
CliType ==
  [pc : {"off", "run", "quit"}, id : Nat, shown : States, poll : States \cup {Con!None, "ask", "error"},
   stop : {Con!None, "ask", "cancelled", "error"}, presses : Nat, exit : States \cup {Con!None, "error"}]
CliOK(c, w) ==
  /\ c.pc # "off" => c.id \in 1..Len(w.jobs)
  /\ c.pc = "run" =>
       /\ c.shown = "running"
       /\ c.poll \in States /\ Con!Terminal(c.poll) => w.jobs[c.id].state = c.poll
       /\ c.stop = "cancelled" => w.jobs[c.id].state = "cancelled"
  /\ c.pc = "quit" =>
       \/ c.exit = "error"
       \/ Con!Terminal(c.exit) /\ c.exit = w.jobs[c.id].state
       \/ c.exit = "running" /\ c.presses > 1

\* The dashboard: what it waits for a second key for is what it has asked.
Asks(d) == "pending" \in DOMAIN d /\ "asked" \in DOMAIN d /\ d.pending = d.asked
Requests == \A x \in rpcs : "st" \in DOMAIN x
ConsoleInv == WorldOK(world) /\ cli \in CliType /\ CliOK(cli, world) /\ Asks(dash) /\ Requests

LEMMA ConsoleInitially == Con!Init => ConsoleInv
<1> SUFFICES ASSUME Con!Init PROVE ConsoleInv  OBVIOUS
<1>1. WorldOK(world)
  <2>1. IsWorld(world) /\ world.jobs = <<>>  BY DEF Con!Init, IsWorld
  <2>2. world.jobs \in Seq(JobsOf({}))  BY <2>1
  <2> QED BY <2>1, <2>2 DEF WorldOK
<1>2. cli \in CliType /\ CliOK(cli, world)  BY DEF Con!Init, Con!NoCli, Con!None, CliType, CliOK, States
<1>3. Asks(dash)  BY DEF Con!Init, Asks
<1> QED BY <1>1, <1>2, <1>3 DEF Con!Init, ConsoleInv, Requests

\* A handler changes one field, and one of them two.
LEMMA FieldChanges ==
  ASSUME NEW w, IsWorld(w), NEW x
  PROVE  /\ \A v \in {[w EXCEPT !.running = x], [w EXCEPT !.profiles = x], [w EXCEPT !.models = x],
                      [w EXCEPT !.auto = x], [w EXCEPT !.installed = x]} : IsWorld(v) /\ v.jobs = w.jobs
         /\ IsWorld([w EXCEPT !.jobs = x]) /\ [w EXCEPT !.jobs = x].jobs = x
<1>1. IsWorld([w EXCEPT !.running = x]) /\ [w EXCEPT !.running = x].jobs = w.jobs  BY DEF IsWorld
<1>2. IsWorld([w EXCEPT !.profiles = x]) /\ [w EXCEPT !.profiles = x].jobs = w.jobs  BY DEF IsWorld
<1>3. IsWorld([w EXCEPT !.models = x]) /\ [w EXCEPT !.models = x].jobs = w.jobs  BY DEF IsWorld
<1>4. IsWorld([w EXCEPT !.auto = x]) /\ [w EXCEPT !.auto = x].jobs = w.jobs  BY DEF IsWorld
<1>5. IsWorld([w EXCEPT !.installed = x]) /\ [w EXCEPT !.installed = x].jobs = w.jobs  BY DEF IsWorld
<1>6. IsWorld([w EXCEPT !.jobs = x]) /\ [w EXCEPT !.jobs = x].jobs = x  BY DEF IsWorld
<1> QED BY <1>1, <1>2, <1>3, <1>4, <1>5, <1>6

\* The jobs are a sequence of records.
LEMMA JobsKnown ==
  ASSUME NEW w, WorldOK(w)
  PROVE  /\ Len(w.jobs) \in Nat /\ DOMAIN w.jobs = 1..Len(w.jobs)
         /\ \A i \in 1..Len(w.jobs) :
              /\ w.jobs[i] = [p |-> w.jobs[i].p, state |-> w.jobs[i].state, live |-> w.jobs[i].live]
              /\ w.jobs[i].state \in States /\ w.jobs[i].live \in BOOLEAN
<1>1. PICK P : w.jobs \in Seq(JobsOf(P))  BY DEF WorldOK
<1>2. Len(w.jobs) \in Nat /\ DOMAIN w.jobs = 1..Len(w.jobs) /\ \A i \in 1..Len(w.jobs) : w.jobs[i] \in JobsOf(P)
  BY <1>1
<1> QED BY <1>2 DEF JobsOf

LEMMA SameJobs == ASSUME NEW w, WorldOK(w), NEW v, IsWorld(v), v.jobs = w.jobs PROVE JobsKept(w, v)
BY JobsKnown DEF JobsKept, WorldOK

\* A job changes its state, unless that is over, or stops being live.
Goes(j, i) ==
  /\ i = [p |-> j.p, state |-> i.state, live |-> i.live] /\ i.state \in States /\ i.live \in BOOLEAN
  /\ Con!Terminal(j.state) => i.state = j.state
LEMMA JobChanges ==
  ASSUME NEW w, WorldOK(w), NEW id \in 1..Len(w.jobs), NEW j, Goes(w.jobs[id], j),
         NEW v, IsWorld(v), NEW k, v.jobs = k, k = [w.jobs EXCEPT ![id] = j]
  PROVE  JobsKept(w, v) /\ v.jobs[id] = j
<1>1. PICK P : w.jobs \in Seq(JobsOf(P))  BY DEF WorldOK
<1>2. w.jobs[id] \in JobsOf(P)  BY <1>1
<1>3. j \in JobsOf(P) /\ (Con!Terminal(w.jobs[id].state) => j.state = w.jobs[id].state)  BY <1>2 DEF JobsOf, Goes
<1>4. v.jobs \in Seq(JobsOf(P)) /\ Len(v.jobs) = Len(w.jobs)  BY <1>1, <1>3, ExceptSeq
<1>5. \A i \in 1..Len(w.jobs) : v.jobs[i] = IF i = id THEN j ELSE w.jobs[i]  BY <1>1
<1>6. Len(w.jobs) \in Nat  BY <1>1
<1> QED BY <1>3, <1>4, <1>5, <1>6 DEF JobsKept, WorldOK

\* A download is given a job there is or the next one.
LEMMA DownloadStarts ==
  ASSUME NEW w, WorldOK(w), NEW p
  PROVE  LET v == Con!StartModelDownload(w, p)
         IN  JobsKept(w, v) /\ Con!Started(w, p) \in 1..Len(v.jobs)
<1> DEFINE v == Con!StartModelDownload(w, p)
<1>1. Len(w.jobs) \in Nat /\ DOMAIN w.jobs = 1..Len(w.jobs)  BY JobsKnown
<1>2. Con!Started(w, p) \in 1..Len(w.jobs) \/ Con!Started(w, p) = Len(w.jobs) + 1
  <2>1. Con!Owners(w, p) # {} => (CHOOSE id \in Con!Owners(w, p) : TRUE) \in Con!Owners(w, p)  OBVIOUS
  <2> QED BY <1>1, <2>1 DEF Con!Started, Con!Owners
<1>3. ASSUME NEW s \in {"already", "running"}, v = [w EXCEPT !.jobs = Append(w.jobs, Con!Job(p, s))]
      PROVE  JobsKept(w, v) /\ Len(v.jobs) = Len(w.jobs) + 1
  <2> DEFINE j == Append(w.jobs, Con!Job(p, s))
  <2>1. IsWorld(v) /\ v.jobs = j
    <3> HIDE DEF v, j
    <3>1. v = [w EXCEPT !.jobs = j] /\ IsWorld(w)  BY <1>3 DEF j, WorldOK
    <3> QED BY <3>1, FieldChanges
  <2>2. PICK P : w.jobs \in Seq(JobsOf(P))  BY DEF WorldOK
  <2>3. w.jobs \in Seq(JobsOf(P \cup {p})) /\ Con!Job(p, s) \in JobsOf(P \cup {p})
    <3>1. JobsOf(P) \in SUBSET JobsOf(P \cup {p})  BY DEF JobsOf
    <3> HIDE DEF JobsOf
    <3>4. w.jobs \in Seq(JobsOf(P \cup {p}))  BY <2>2, <3>1, SeqMonotonic
    <3> QED BY <3>4 DEF JobsOf, Con!Job, States
  <2>4. j \in Seq(JobsOf(P \cup {p})) /\ Len(j) = Len(w.jobs) + 1 /\ \A i \in 1..Len(w.jobs) : j[i] = w.jobs[i]
    BY <2>3
  <2> HIDE DEF v, j
  <2> QED BY <1>1, <2>1, <2>4 DEF JobsKept, WorldOK
<1>4. CASE TargetOf(p) \in w.models
  <2>2. Con!Started(w, p) = Len(w.jobs) + 1  BY <1>4 DEF Con!Started
  <2>3. Con!Started(w, p) \notin DOMAIN w.jobs  BY <1>1, <2>2
  <2>1. v = [w EXCEPT !.jobs = Append(w.jobs, Con!Job(p, "already"))]  BY <1>4, <2>3 DEF Con!StartModelDownload
  <2> HIDE DEF v
  <2> QED BY <1>1, <1>3, <2>1, <2>2 DEF v
<1>5. CASE TargetOf(p) \notin w.models /\ Con!Started(w, p) \in DOMAIN w.jobs
  <2>1. v = w  BY <1>5 DEF Con!StartModelDownload
  <2> QED BY <1>1, <1>5, <2>1, SameJobs DEF WorldOK
<1>6. CASE TargetOf(p) \notin w.models /\ Con!Started(w, p) \notin DOMAIN w.jobs
  <2>1. v = [w EXCEPT !.jobs = Append(w.jobs, Con!Job(p, "running"))]  BY <1>6 DEF Con!StartModelDownload
  <2>2. Con!Started(w, p) = Len(w.jobs) + 1  BY <1>1, <1>2, <1>6
  <2> HIDE DEF v
  <2> QED BY <1>1, <1>3, <2>1, <2>2 DEF v
<1> QED BY <1>4, <1>5, <1>6

\* Cancelling a job that is not over, or is none of those there are.
LEMMA Cancels ==
  ASSUME NEW w, WorldOK(w), NEW id, id \in DOMAIN w.jobs => ~Con!Terminal(w.jobs[id].state)
  PROVE  /\ JobsKept(w, Con!CancelModelDownload(w, id))
         /\ id \in DOMAIN w.jobs => Con!CancelModelDownload(w, id).jobs[id].state = "cancelled"
<1> DEFINE v == Con!CancelModelDownload(w, id)
           j == [w.jobs[id] EXCEPT !.state = "cancelled"]
<1>1. v = [w EXCEPT !.jobs = [w.jobs EXCEPT ![id] = j]]  BY DEF Con!CancelModelDownload
<1>2. IsWorld(v) /\ v.jobs = [w.jobs EXCEPT ![id] = j]
  <2> DEFINE k == [w.jobs EXCEPT ![id] = j]
  <2> HIDE DEF k, j, v
  <2>1. v = [w EXCEPT !.jobs = k]  BY <1>1 DEF k
  <2>2. IsWorld(w)  BY DEF WorldOK
  <2> QED BY <2>1, <2>2, FieldChanges DEF k
<1>3. DOMAIN w.jobs = 1..Len(w.jobs)  BY JobsKnown
<1>4. CASE id \in DOMAIN w.jobs
  <2>2. id \in 1..Len(w.jobs) /\ ~Con!Terminal(w.jobs[id].state)  BY <1>3, <1>4
  <2>3. Goes(w.jobs[id], j) /\ j.state = "cancelled"
    <3> DEFINE i == w.jobs[id]
    <3>1. i = [p |-> i.p, state |-> i.state, live |-> i.live] /\ i.live \in BOOLEAN  BY <2>2, JobsKnown
    <3>2. ~Con!Terminal(i.state) /\ j = [i EXCEPT !.state = "cancelled"]  BY <2>2
    <3> HIDE DEF i, j
    <3>3. Goes(i, j) /\ j.state = "cancelled"  BY <3>1, <3>2 DEF Goes, States
    <3> QED BY <3>3 DEF i
  <2> DEFINE k == [w.jobs EXCEPT ![id] = j]
  <2>5. IsWorld(v) /\ v.jobs = k  BY <1>2
  <2> HIDE DEF v, j
  <2>6. k = [w.jobs EXCEPT ![id] = j]  OBVIOUS
  <2> HIDE DEF k
  <2>7. JobsKept(w, v) /\ v.jobs[id] = j
    <3>1. ASSUME NEW y, IsWorld(y), NEW q, y.jobs = q, NEW i, q = [w.jobs EXCEPT ![id] = i], Goes(w.jobs[id], i)
          PROVE  JobsKept(w, y) /\ y.jobs[id] = i
      BY <2>2, <3>1, JobChanges
    <3> QED BY <2>3, <2>5, <2>6, <3>1
  <2>4. JobsKept(w, v) /\ v.jobs[id].state = "cancelled"  BY <2>3, <2>7
  <2> QED BY <2>4 DEF v
<1>5. CASE id \notin DOMAIN w.jobs
  <2>1. [w.jobs EXCEPT ![id] = j] = w.jobs
    <3>1. w.jobs = [i \in DOMAIN w.jobs |-> w.jobs[i]]
      <4>1. PICK P : w.jobs \in Seq(JobsOf(P))  BY DEF WorldOK
      <4> QED BY <4>1
    <3> QED BY <1>5, <3>1
  <2> HIDE DEF v, j
  <2> QED BY <1>2, <1>5, <2>1, SameJobs DEF v
<1> QED BY <1>4, <1>5

\* No handler gives a job that is over another state.
LEMMA HandlerKeepsJobs == ASSUME NEW w, WorldOK(w), NEW r PROVE JobsKept(w, Con!Handle(w, r))
<1>0. ASSUME NEW v, IsWorld(v), v.jobs = w.jobs PROVE JobsKept(w, v)  BY <1>0, SameJobs
<1>1. JobsKept(w, w)  BY <1>0 DEF WorldOK
<1>2. \A x : JobsKept(w, [w EXCEPT !.running = x])  BY <1>0, FieldChanges DEF WorldOK
<1>3. \A x : JobsKept(w, [w EXCEPT !.profiles = x])  BY <1>0, FieldChanges DEF WorldOK
<1>4. \A x : JobsKept(w, [w EXCEPT !.models = x])  BY <1>0, FieldChanges DEF WorldOK
<1>5. \A x : JobsKept(w, [w EXCEPT !.auto = x])  BY <1>0, FieldChanges DEF WorldOK
<1>6. \A x : JobsKept(w, [w EXCEPT !.installed = x])  BY <1>0, FieldChanges DEF WorldOK
<1>7. \A p : JobsKept(w, Con!CleanupProfile(w, p))
  <2> TAKE p
  <2> DEFINE s == Con!StopRuntime(w, p)
             t == [s EXCEPT !.profiles = Con!Remove(s.profiles, p)]
             u == [t EXCEPT !.auto = s.auto \ {p}]
  <2>1. IsWorld(s) /\ s.jobs = w.jobs  BY FieldChanges DEF Con!StopRuntime, WorldOK
  <2>2. Con!CleanupProfile(w, p) = [s EXCEPT !.profiles = Con!Remove(s.profiles, p), !.auto = s.auto \ {p}]
    BY DEF Con!CleanupProfile
  <2> HIDE DEF s
  <2>3. IsWorld(t) /\ t.jobs = s.jobs  BY <2>1, FieldChanges
  <2>4. Con!CleanupProfile(w, p) = u  BY <2>1, <2>2 DEF IsWorld
  <2> HIDE DEF t
  <2>5. IsWorld(u) /\ u.jobs = t.jobs  BY <2>3, FieldChanges
  <2> QED BY <1>0, <2>1, <2>3, <2>4, <2>5
<1>8. JobsKept(w, Con!StartModelDownload(w, r.target))  BY DownloadStarts
<1>9. r.kind = "cancel" /\ Con!Accepts(w, r) => JobsKept(w, Con!CancelModelDownload(w, r.target))
  BY Cancels DEF Con!Accepts
<1>10. CASE ~Con!Accepts(w, r)  BY <1>1, <1>10 DEF Con!Handle
<1>11. CASE Con!Accepts(w, r) /\ r.kind \in {"start", "stop", "reset", "restart"}
  BY <1>1, <1>2, <1>11 DEF Con!Handle, Con!StartRuntime, Con!StopRuntime, Con!ResetRuntimes, Con!RestartRuntime
<1>12. CASE Con!Accepts(w, r) /\ r.kind \in {"put", "cleanup", "delete", "autostart", "install"}
  BY <1>3, <1>4, <1>5, <1>6, <1>7, <1>12
     DEF Con!Handle, Con!PutProfile, Con!DeleteLocalModel, Con!SetProfileAutostart, Con!InstallBackend
<1>13. CASE Con!Accepts(w, r) /\ r.kind \in {"download", "cancel", "apply"}
  BY <1>1, <1>8, <1>9, <1>13 DEF Con!Handle, Con!ApplyDownloadToProfile
<1>14. CASE Con!Accepts(w, r) /\ r.kind \notin {"start", "stop", "reset", "restart", "put", "cleanup", "delete", "autostart",
                                             "install",
                                         "download", "cancel", "apply"}
  BY <1>1, <1>14 DEF Con!Handle
<1> QED BY <1>10, <1>11, <1>12, <1>13, <1>14

\* What the command knows of its job stays so, whatever the daemon does.
LEMMA CommandKnows ==
  ASSUME ConsoleInv, NEW w, JobsKept(world, w) PROVE CliOK(cli, w)
<1>1. Len(world.jobs) \in Nat /\ Len(w.jobs) \in Nat /\ Len(world.jobs) <= Len(w.jobs)
  BY JobsKnown DEF ConsoleInv, JobsKept
<1> QED BY <1>1 DEF ConsoleInv, CliOK, CliType, JobsKept, Con!Terminal

\* Another answer, or another step of the command, that fits the job.
LEMMA CommandMoves ==
  ASSUME ConsoleInv, NEW w, JobsKept(world, w), NEW c, c \in CliType, CliOK(c, w), world' = w, cli' = c,
         UNCHANGED <<dash, rpcs>>
  PROVE  ConsoleInv'
BY DEF ConsoleInv, JobsKept, Requests

\* What becomes of the command on a status: it goes on, or ends as the job has ended.
LEMMA StatusKeeps ==
  ASSUME NEW w, WorldOK(w), NEW c \in CliType, CliOK(c, w), c.pc = "run",
         NEW s \in States \cup {"error"}, s \in States /\ Con!Terminal(s) => w.jobs[c.id].state = s
  PROVE  Con!StatusMsg(c, s) \in CliType /\ CliOK(Con!StatusMsg(c, s), w)
<1>1. CASE s = "error"
  <2> DEFINE d == Con!StatusMsg(c, s)
  <2>1. d = [c EXCEPT !.pc = "quit", !.exit = "error", !.poll = Con!None, !.stop = Con!None]
    BY <1>1 DEF Con!StatusMsg, Con!Quit
  <2>2. d \in CliType /\ d.pc = "quit" /\ d.exit = "error" /\ d.id = c.id  BY <2>1 DEF CliType
  <2> HIDE DEF d
  <2>3. CliOK(d, w)  BY <2>2 DEF CliOK
  <2> QED BY <2>2, <2>3 DEF d
<1>2. CASE s \in States /\ Con!Terminal(s)
  <2> DEFINE d == Con!StatusMsg(c, s)
  <2>1. d = [c EXCEPT !.shown = s, !.pc = "quit", !.exit = s, !.poll = Con!None, !.stop = Con!None]
    BY <1>2 DEF Con!StatusMsg, Con!Quit, States, CliType
  <2>2. d \in CliType /\ d.pc = "quit" /\ d.exit = s /\ d.id = c.id  BY <1>2, <2>1 DEF CliType
  <2> HIDE DEF d
  <2>3. CliOK(d, w)  BY <1>2, <2>2 DEF CliOK
  <2> QED BY <2>2, <2>3 DEF d
<1>3. CASE s = "running"
  <2> DEFINE d == Con!StatusMsg(c, s)
  <2>1. d = [c EXCEPT !.shown = "running"]  BY <1>3 DEF Con!StatusMsg, Con!Terminal
  <2>2. c.shown = "running"  BY DEF CliOK
  <2>3. d = c  BY <2>1, <2>2 DEF CliType
  <2> QED BY <2>3
<1> QED BY <1>1, <1>2, <1>3 DEF States, Con!Terminal

\* Every step of the download command keeps the invariant ...
LEMMA DownloadSteps ==
  ASSUME ConsoleInv, Con!DownloadCommand \/ Con!CliAsks \/ Con!CliHears \/ Con!Interrupt PROVE ConsoleInv'
<1>0. /\ WorldOK(world) /\ JobsKept(world, world) /\ cli \in CliType /\ CliOK(cli, world)
      /\ Len(world.jobs) \in Nat
  BY DEF ConsoleInv, JobsKept, WorldOK
<1>1. CASE Con!DownloadCommand
  <2>1. PICK p : /\ world' = Con!StartModelDownload(world, p)
                 /\ cli' = Con!StatusMsg([Con!NoCli EXCEPT !.pc = "run", !.id = Con!Started(world, p), !.poll = "ask"],
                                         Con!GetModelDownload(world', Con!Started(world, p)))
    BY <1>1 DEF Con!DownloadCommand
  <2> DEFINE c == [Con!NoCli EXCEPT !.pc = "run", !.id = Con!Started(world, p), !.poll = "ask"]
             t == Con!GetModelDownload(world', Con!Started(world, p))
  <2>2. JobsKept(world, world') /\ Con!Started(world, p) \in 1..Len(world'.jobs)  BY <1>0, <2>1, DownloadStarts
  <2>3. WorldOK(world') /\ Len(world'.jobs) \in Nat  BY <2>2, JobsKnown DEF JobsKept
  <2>4. t \in States /\ t = world'.jobs[Con!Started(world, p)].state
    BY <2>2, <2>3, JobsKnown DEF Con!GetModelDownload
  <2>5. c \in CliType /\ c.pc = "run" /\ c.id = Con!Started(world, p) /\ c.shown = "running" /\ c.poll = "ask"
        /\ c.stop = Con!None
    <3> DEFINE n == Con!Started(world, p)
    <3>0. c = [Con!NoCli EXCEPT !.pc = "run", !.id = n, !.poll = "ask"]  OBVIOUS
    <3>2. n \in Nat  BY <2>2, <2>3
    <3> HIDE DEF n, c
    <3>1. c = [pc |-> "run", id |-> n, shown |-> "running", poll |-> "ask", stop |-> Con!None, presses |-> 0,
               exit |-> Con!None]
      BY <3>0 DEF Con!NoCli
    <3>3. c \in CliType  BY <3>1, <3>2 DEF CliType, States
    <3> QED BY <3>1, <3>3 DEF n
  <2> HIDE DEF c, t
  <2>6. CliOK(c, world')  BY <2>2, <2>5 DEF CliOK, States, Con!None
  <2>7. cli' = Con!StatusMsg(c, t)  BY <2>1 DEF c, t
  <2>8. Con!StatusMsg(c, t) \in CliType /\ CliOK(Con!StatusMsg(c, t), world')
    BY <2>3, <2>4, <2>5, <2>6, StatusKeeps
  <2> QED BY <1>1, <2>2, <2>7, <2>8, CommandMoves DEF Con!DownloadCommand
<1>2. CASE Con!CliAsks
  <2>1. cli.pc = "run" /\ UNCHANGED <<dash, rpcs>> /\ cli.id \in 1..Len(world.jobs) /\ world.jobs[cli.id].state \in States
    BY <1>0, <1>2, JobsKnown DEF Con!CliAsks, CliOK
  <2>2. CASE cli.poll = "ask" /\ cli' = [cli EXCEPT !.poll = Con!GetModelDownload(world, cli.id)] /\ world' = world
    <3>1. cli' \in CliType /\ CliOK(cli', world)  BY <1>0, <2>1, <2>2 DEF Con!GetModelDownload, CliType, CliOK
    <3> QED BY <1>0, <2>1, <2>2, <3>1, CommandMoves
  <2>3. CASE /\ world' = Con!Handle(world, Con!Req("cancel", cli.id, Con!None))
             /\ cli' = [cli EXCEPT !.stop =
                          IF Con!Accepts(world, Con!Req("cancel", cli.id, Con!None)) THEN "cancelled" ELSE "error"]
    <3> DEFINE q == Con!Req("cancel", cli.id, Con!None)
    <3>1. JobsKept(world, Con!Handle(world, q)) /\ q.kind = "cancel" /\ q.target = cli.id  BY <1>0, HandlerKeepsJobs DEF Con!Req
    <3>2. Con!Accepts(world, q) => Con!Handle(world, q).jobs[cli.id].state = "cancelled"
      <4>1. ASSUME Con!Accepts(world, q)
            PROVE  Con!Handle(world, q) = Con!CancelModelDownload(world, cli.id) /\ ~Con!Terminal(world.jobs[cli.id].state)
        BY <3>1, <4>1 DEF Con!Handle, Con!Accepts
      <4>2. cli.id \in DOMAIN world.jobs  BY <1>0, <2>1, JobsKnown
      <4> QED BY <1>0, <4>1, <4>2, Cancels
    <3>3. CliOK(cli, Con!Handle(world, q))  BY <3>1, CommandKnows
    <3> HIDE DEF q
    <3>4. cli' \in CliType /\ CliOK(cli', Con!Handle(world, q))
      BY <1>0, <2>1, <2>3, <3>2, <3>3 DEF CliType, CliOK, q
    <3> QED BY <2>1, <2>3, <3>1, <3>4, CommandMoves DEF q
  <2>4. CASE world' = world /\ cli' \in {[cli EXCEPT !.poll = "error"], [cli EXCEPT !.stop = "error"]}
    <3>1. cli' \in CliType /\ CliOK(cli', world)  BY <1>0, <2>1, <2>4 DEF CliType, CliOK, States
    <3> QED BY <1>0, <2>1, <2>4, <3>1, CommandMoves
  <2> QED BY <1>2, <2>2, <2>3, <2>4 DEF Con!CliAsks
<1>3. CASE Con!CliHears
  <2>1. cli.pc = "run" /\ UNCHANGED <<world, dash, rpcs>>  BY <1>3 DEF Con!CliHears
  <2>2. CASE cli.poll \notin {Con!None, "ask"} /\ cli' = Con!StatusMsg([cli EXCEPT !.poll = "ask"], cli.poll)
    <3> DEFINE c == [cli EXCEPT !.poll = "ask"]
    <3>1. c \in CliType /\ CliOK(c, world) /\ c.pc = "run" /\ c.id = cli.id  BY <1>0, <2>1 DEF CliType, CliOK, States
    <3>2. cli.poll \in States \cup {"error"}  BY <1>0, <2>2 DEF CliType
    <3>3. cli.poll \in States /\ Con!Terminal(cli.poll) => world.jobs[c.id].state = cli.poll  BY <1>0, <2>1, <3>1 DEF CliOK
    <3> HIDE DEF c
    <3>4. Con!StatusMsg(c, cli.poll) \in CliType /\ CliOK(Con!StatusMsg(c, cli.poll), world)
      BY <1>0, <3>1, <3>2, <3>3, StatusKeeps
    <3> QED BY <1>0, <2>1, <2>2, <3>4, CommandMoves DEF c
  <2>3. CASE cli.stop \notin {Con!None, "ask"} /\ cli' = Con!StatusMsg([cli EXCEPT !.stop = Con!None], cli.stop)
    <3> DEFINE c == [cli EXCEPT !.stop = Con!None]
    <3>1. c \in CliType /\ CliOK(c, world) /\ c.pc = "run" /\ c.id = cli.id
      BY <1>0, <2>1 DEF CliType, CliOK, Con!None
    <3>2. cli.stop \in States \cup {"error"}  BY <1>0, <2>3 DEF CliType, States
    <3>3. cli.stop \in States /\ Con!Terminal(cli.stop) => world.jobs[c.id].state = cli.stop
      BY <1>0, <2>1, <2>3, <3>1 DEF CliOK, CliType, States
    <3> HIDE DEF c
    <3>4. Con!StatusMsg(c, cli.stop) \in CliType /\ CliOK(Con!StatusMsg(c, cli.stop), world)
      BY <1>0, <3>1, <3>2, <3>3, StatusKeeps
    <3> QED BY <1>0, <2>1, <2>3, <3>4, CommandMoves DEF c
  <2> QED BY <1>3, <2>2, <2>3 DEF Con!CliHears
<1>4. CASE Con!Interrupt
  <2>1. cli.pc = "run" /\ UNCHANGED <<world, dash, rpcs>> /\ cli' = [Con!Cancel(cli) EXCEPT !.presses = @ + 1]
        /\ cli.shown = "running"
    BY <1>0, <1>4 DEF Con!Interrupt, CliOK
  <2>2. CASE cli.presses > 0
    <3>1. cli' = [cli EXCEPT !.pc = "quit", !.exit = "running", !.poll = Con!None, !.stop = Con!None,
                          !.presses = cli.presses + 1]
      BY <1>0, <2>1, <2>2 DEF Con!Cancel, Con!Quit, CliType
    <3>x. cli.presses + 1 \in Nat /\ "running" \in States  BY <1>0 DEF CliType, States
    <3>2. cli' \in CliType /\ cli'.pc = "quit" /\ cli'.exit = "running" /\ cli'.presses = cli.presses + 1 /\ cli'.id = cli.id
          /\ cli.presses \in Nat
      BY <1>0, <3>1, <3>x DEF CliType
    <3>3. CliOK(cli', world)  BY <1>0, <2>1, <2>2, <3>2 DEF CliOK
    <3> QED BY <1>0, <2>1, <3>2, <3>3, CommandMoves
  <2>3. CASE ~(cli.presses > 0)
    <3>1. cli' = [cli EXCEPT !.stop = "ask", !.presses = cli.presses + 1]  BY <1>0, <2>1, <2>3 DEF Con!Cancel, CliType
    <3>x. cli.presses + 1 \in Nat  BY <1>0 DEF CliType
    <3>2. cli' \in CliType  BY <1>0, <3>1, <3>x DEF CliType
    <3>3. /\ cli'.pc = "run" /\ cli'.id = cli.id /\ cli'.shown = cli.shown /\ cli'.poll = cli.poll /\ cli'.stop = "ask"
      BY <1>0, <2>1, <3>1 DEF CliType
    <3>4. CliOK(cli', world)  BY <1>0, <2>1, <3>3 DEF CliOK
    <3> QED BY <1>0, <2>1, <3>2, <3>4, CommandMoves
  <2> QED BY <2>2, <2>3
<1> QED BY <1>1, <1>2, <1>3, <1>4

-----------------------------------------------------------------------------
(* The dashboard                                                           *)

\* What only moves cursors, tables and pages leaves the question and what was asked.
LEMMA QuestionStays ==
  ASSUME NEW d, Asks(d)
  PROVE  /\ Asks(Con!Drawn(d)) /\ Asks(Con!Refreshed(d)) /\ Asks(Con!Disarm(d))
         /\ \A p : Asks(Con!ApplyPoll(d, p))
         /\ \A x : Asks(Con!ActionDone(d, x))
         /\ \A k : Asks(Con!Navigate(d, k)) /\ Asks(Con!MoveBackend(d, k)) /\ Asks(Con!Search(d, k))
<1> USE DEF Asks
<1>1. Asks(Con!Drawn(d))  BY DEF Con!Drawn
<1>2. Asks(Con!Refreshed(d))  BY DEF Con!Refreshed
<1>3. \A k : Asks(Con!MoveBackend(d, k)) /\ Asks(Con!Search(d, k))  BY DEF Con!MoveBackend, Con!Search
<1>4. \A e : DOMAIN e = DOMAIN d => Asks(Con!Disarm(e))  BY DEF Con!Disarm
<1>5. ASSUME NEW p PROVE Asks(Con!ApplyPoll(d, p))  BY DEF Con!ApplyPoll, Con!Polled
<1>6. ASSUME NEW x PROVE Asks(Con!ActionDone(d, x))
  <2>1. ASSUME NEW row PROVE Asks(Con!UpsertDownload(d, row))  BY DEF Con!UpsertDownload
  <2> DEFINE e == IF x.row = {} THEN d ELSE Con!UpsertDownload(d, CHOOSE row \in x.row : TRUE)
  <2>2. Asks(e)  BY <2>1
  <2>3. Con!ActionDone(d, x) = [e EXCEPT !.warn = ~x.ok, !.stopping = FALSE]  BY DEF Con!ActionDone
  <2> HIDE DEF e
  <2> QED BY <2>2, <2>3
<1>7. ASSUME NEW k PROVE Asks(Con!Navigate(d, k))
  <2> DEFINE e == CASE k = "tab" -> [d EXCEPT !.pane = (@ % 4) + 1]
                    [] k = "shift+tab" -> [d EXCEPT !.pane = ((@ + 2) % 4) + 1]
                    [] k = "up" -> [d EXCEPT !.cursor[d.pane] = IF @ > 1 THEN @ - 1 ELSE Con!Least(1, Con!Rows(d)[d.pane])]
                    [] k = "down" -> [d EXCEPT !.cursor[d.pane] = Con!Least(@ + 1, Con!Rows(d)[d.pane])]
                    [] k = "/" -> [d EXCEPT !.search = Con!Pane(d) = "catalog"]
                    [] OTHER -> d
  <2>1. DOMAIN e = DOMAIN d  OBVIOUS
  <2>2. Con!Navigate(d, k) = Con!Disarm(e)  BY DEF Con!Navigate
  <2> HIDE DEF e
  <2> QED BY <1>4, <2>1, <2>2
<1>8. Asks(Con!Disarm(d))  BY <1>4
<1> QED BY <1>1, <1>2, <1>3, <1>5, <1>6, <1>7, <1>8

\* The requests that take something away.
Takes(r) == r.kind \in {"cleanup", "delete", "restart", "reset"} \/ (r.kind = "start" /\ r.arg)

\* A key keeps question and asked together, and a request that takes something away is
\* the one that was asked.
Answered(d, o) == Asks(o.d) /\ \A r \in o.out : Takes(r) => d.asked = <<r.kind, r.target>>

\* A question sends what it asked, anything else sends what takes nothing away.
LEMMA ConfirmAnswers == ASSUME NEW d, Asks(d), NEW r, NEW y PROVE Answered(d, Con!Confirm(d, r, y))
BY DEF Answered, Asks, Con!Confirm, Con!Question, Con!Send, Con!Nothing

LEMMA SendAnswers ==
  ASSUME NEW d, Asks(d), NEW kind, kind \notin {"cleanup", "delete", "restart", "reset"}, NEW target, NEW arg,
         kind = "start" => ~arg
  PROVE  Answered(d, Con!Send(d, Con!Req(kind, target, arg)))
BY DEF Answered, Con!Send, Con!Req, Takes

LEMMA NothingAnswers == ASSUME NEW d, NEW e, Asks(e) PROVE Answered(d, Con!Nothing(e))
BY DEF Answered, Con!Nothing

\* So it is for every key on every page.
LEMMA PressAnswers == ASSUME NEW d, Asks(d), NEW k PROVE Answered(d, Con!Press(d, k))
<1> USE ConfirmAnswers, SendAnswers, NothingAnswers
<1>1. Answered(d, Con!Enter(d))  BY DEF Con!Enter
<1>2. \A y : Answered(d, Con!Destroy(d, y))  BY DEF Con!Destroy
<1>3. Answered(d, Con!Restart(d))  BY DEF Con!Restart
<1>4. Answered(d, Con!CreateProfile(d))  BY DEF Con!CreateProfile
<1>5. Answered(d, Con!Nothing(Con!Navigate(d, k))) /\ Answered(d, Con!Nothing(Con!Search(d, k)))  BY QuestionStays
<1>6. Answered(d, Con!ModelsKey(d, k))  BY <1>1, <1>2, <1>3, <1>4, <1>5 DEF Con!ModelsKey
<1>7. Answered(d, Con!ServicesKey(d, k))
  <2>1. Asks([d EXCEPT !.stopping = TRUE])  BY DEF Asks
  <2>2. Answered(d, Con!Send([d EXCEPT !.stopping = TRUE], Con!Req("service", "web", Con!None)))
    BY <2>1 DEF Answered, Con!Send, Con!Req, Takes
  <2> QED BY <2>2 DEF Con!ServicesKey
<1> QED BY <1>6, <1>7 DEF Con!Press

LEMMA KeyAnswers ==
  ASSUME ConsoleInv, Con!Key
  PROVE  /\ Asks(dash') /\ Requests'
         /\ \A x \in rpcs' \ rpcs : Takes(x.r) => dash.asked = <<x.r.kind, x.r.target>>
<1>1. PICK k \in Con!Keys : dash' = Con!Drawn(Con!Press(dash, k).d) /\ rpcs' = rpcs \cup Con!Sent(Con!Press(dash, k).out)
  BY DEF Con!Key
<1>2. Answered(dash, Con!Press(dash, k))  BY PressAnswers DEF ConsoleInv
<1>3. Asks(dash')  BY <1>1, <1>2, QuestionStays DEF Answered
<1>4. \A x \in Con!Sent(Con!Press(dash, k).out) : "st" \in DOMAIN x /\ x.r \in Con!Press(dash, k).out  BY DEF Con!Sent
<1>5. Requests'  BY <1>1, <1>4 DEF ConsoleInv, Requests
<1> QED BY <1>1, <1>2, <1>3, <1>4, <1>5 DEF Answered

\* Steps that are not the command's.
LEMMA OthersMove ==
  ASSUME ConsoleInv, JobsKept(world, world'), cli' = cli, Asks(dash'), Requests' PROVE ConsoleInv'
BY CommandKnows DEF ConsoleInv, JobsKept

\* ... and so does every other.
LEMMA ConsoleStep == ASSUME ConsoleInv, [Con!Next]_(Con!vars) PROVE ConsoleInv'
<1>0. WorldOK(world) /\ JobsKept(world, world) /\ Asks(dash) /\ Requests
  BY DEF ConsoleInv, JobsKept, WorldOK
<1> DEFINE Quiet == cli' = cli /\ Asks(dash') /\ Requests'
<1>1. CASE Con!JobEnds
  <2>1. PICK id \in DOMAIN world.jobs :
          LET file == TargetOf(world.jobs[id].p)
          IN  \/ world.jobs[id].state = "running" /\ world' = [world EXCEPT !.jobs[id].state = "failed"]
              \/ /\ world.jobs[id].state = "running"
                 /\ world' = [world EXCEPT !.jobs[id].state = "completed", !.models = world.models \cup {file}]
              \/ world.jobs[id].state # "running" /\ world' = [world EXCEPT !.jobs[id].live = FALSE]
              \/ /\ world.jobs[id].state = "cancelled"
                 /\ world' = [world EXCEPT !.jobs[id].live = FALSE, !.models = world.models \cup {file}]
    BY <1>1 DEF Con!JobEnds
  <2> DEFINE j == world.jobs[id]
             f == world.models \cup {TargetOf(world.jobs[id].p)}
             k(i) == [world.jobs EXCEPT ![id] = i]
  <2>2. /\ id \in 1..Len(world.jobs) /\ j = [p |-> j.p, state |-> j.state, live |-> j.live]
        /\ j.state \in States /\ j.live \in BOOLEAN
    BY <1>0, JobsKnown
  <2>3. JobsKept(world, world')
    <3>1. ASSUME NEW i, Goes(j, i), NEW q, q = k(i), NEW m,
                 world' = [world EXCEPT !.jobs = q] \/ world' = [world EXCEPT !.jobs = q, !.models = m]
          PROVE  JobsKept(world, world')
      <4>1. IsWorld(world') /\ world'.jobs = q  BY <1>0, <3>1 DEF WorldOK, IsWorld
      <4> QED BY <1>0, <2>2, <3>1, <4>1, JobChanges
    <3>2. CASE j.state = "running" /\ world' = [world EXCEPT !.jobs = k([j EXCEPT !.state = "failed"])]
      <4>1. Goes(j, [j EXCEPT !.state = "failed"])  BY <2>2, <3>2 DEF Goes, States, Con!Terminal
      <4> HIDE DEF j, k
      <4> QED BY <3>1, <3>2, <4>1
    <3>3. CASE j.state = "running" /\ world' = [world EXCEPT !.jobs = k([j EXCEPT !.state = "completed"]), !.models = f]
      <4>1. Goes(j, [j EXCEPT !.state = "completed"])  BY <2>2, <3>3 DEF Goes, States, Con!Terminal
      <4> HIDE DEF j, k, f
      <4> QED BY <3>1, <3>3, <4>1
    <3>4. CASE world' = [world EXCEPT !.jobs = k([j EXCEPT !.live = FALSE])]
      <4>1. Goes(j, [j EXCEPT !.live = FALSE])
        <5> HIDE DEF j
        <5>3. ASSUME NEW x PROVE [j EXCEPT !.live = x] = [p |-> j.p, state |-> j.state, live |-> x]  BY <2>2
        <5>1. [j EXCEPT !.live = FALSE] = [p |-> j.p, state |-> j.state, live |-> FALSE]  BY <5>3
        <5>2. FALSE \in BOOLEAN  OBVIOUS
        <5> QED BY <2>2, <5>1, <5>2 DEF Goes
      <4> HIDE DEF j, k
      <4> QED BY <3>1, <3>4, <4>1
    <3>5. CASE world' = [world EXCEPT !.jobs = k([j EXCEPT !.live = FALSE]), !.models = f]
      <4>1. Goes(j, [j EXCEPT !.live = FALSE])
        <5> HIDE DEF j
        <5>3. ASSUME NEW x PROVE [j EXCEPT !.live = x] = [p |-> j.p, state |-> j.state, live |-> x]  BY <2>2
        <5>1. [j EXCEPT !.live = FALSE] = [p |-> j.p, state |-> j.state, live |-> FALSE]  BY <5>3
        <5>2. FALSE \in BOOLEAN  OBVIOUS
        <5> QED BY <2>2, <5>1, <5>2 DEF Goes
      <4> HIDE DEF j, k, f
      <4> QED BY <3>1, <3>5, <4>1
    <3> QED BY <2>1, <3>2, <3>3, <3>4, <3>5
  <2>4. Quiet  BY <1>0, <1>1 DEF Con!JobEnds, Requests
  <2> QED BY <2>3, <2>4, OthersMove
<1>2. CASE Con!RpcCommand \/ Con!McpTool
  <2>1. JobsKept(world, world')  BY <1>0, <1>2, HandlerKeepsJobs DEF Con!RpcCommand, Con!McpTool
  <2>2. Quiet  BY <1>0, <1>2 DEF Con!RpcCommand, Con!McpTool, Requests
  <2> QED BY <2>1, <2>2, OthersMove
<1>3. CASE Con!Tick \/ Con!RefreshKey
  <2>1. world' = world /\ cli' = cli /\ rpcs' = rpcs /\ \E d : Asks(d) /\ dash' = Con!Drawn(Con!Refreshed(d))
    BY <1>0, <1>3, QuestionStays DEF Con!Tick, Con!RefreshKey, Con!Refresh
  <2>2. Asks(dash')  BY <2>1, QuestionStays
  <2> QED BY <1>0, <2>1, <2>2, OthersMove DEF Requests
<1>4. CASE Con!PollStep \/ Con!PollFails
  <2>1. world' = world /\ cli' = cli /\ rpcs' = rpcs
    BY <1>4 DEF Con!PollStep, Con!PollInfo, Con!PollProfiles, Con!PollLocal, Con!PollDownload, Con!PollStore,
           Con!PollAnswers, Con!PollFails
  <2>2. dash' = dash \/ Con!PollStore \/ Con!PollAnswers
    BY <1>4 DEF Con!PollStep, Con!PollInfo, Con!PollProfiles, Con!PollLocal, Con!PollDownload, Con!PollFails
  <2>3. Con!PollStore => Asks(dash')  BY <1>0 DEF Con!PollStore, Asks
  <2>4. Con!PollAnswers => Asks(dash')  BY <1>0, QuestionStays DEF Con!PollAnswers
  <2> QED BY <1>0, <2>1, <2>2, <2>3, <2>4, OthersMove DEF Requests
<1>5. CASE Con!CatalogAnswers
  <2>1. Asks(dash')  BY <1>0, <1>5 DEF Con!CatalogAnswers, Asks
  <2> QED BY <1>0, <1>5, <2>1, OthersMove DEF Con!CatalogAnswers, Requests
<1>6. CASE Con!Key  BY <1>0, <1>6, KeyAnswers, OthersMove DEF Con!Key
<1>7. CASE Con!PageKey
  <2>1. Asks(dash')  BY <1>0, <1>7 DEF Con!PageKey, Asks
  <2> QED BY <1>0, <1>7, <2>1, OthersMove DEF Con!PageKey, Requests
<1>8. ASSUME NEW x \in rpcs, Con!Serve(x) \/ Con!ServeFails(x) PROVE ConsoleInv'
  <2>1. JobsKept(world, world')  BY <1>0, <1>8, HandlerKeepsJobs DEF Con!Serve, Con!ServeFails, Con!RunRPC, Con!RunServiceAction
  <2>2. "st" \in DOMAIN x  BY <1>0 DEF Requests
  <2>3. Requests'  BY <1>0, <1>8, <2>2 DEF Requests, Con!Serve, Con!ServeFails
  <2> QED BY <1>0, <1>8, <2>1, <2>3, OthersMove DEF Con!Serve, Con!ServeFails
<1>9. ASSUME NEW x \in rpcs, Con!ActionAnswers(x) PROVE ConsoleInv'
  <2>1. Asks(dash')  BY <1>0, <1>9, QuestionStays DEF Con!ActionAnswers
  <2>2. Requests'  BY <1>0, <1>9 DEF Requests, Con!ActionAnswers
  <2> QED BY <1>0, <1>9, <2>1, <2>2, OthersMove DEF Con!ActionAnswers
<1>10. CASE Con!DownloadCommand \/ Con!CliAsks \/ Con!CliHears \/ Con!Interrupt  BY <1>10, DownloadSteps
<1>11. CASE UNCHANGED Con!vars  BY <1>0, <1>11, OthersMove DEF Con!vars, Requests
<1> QED BY <1>1, <1>2, <1>3, <1>4, <1>5, <1>6, <1>7, <1>8, <1>9, <1>10, <1>11 DEF Con!Next

LEMMA ConsoleInvariance == Con!Spec => []ConsoleInv
<1>1. ConsoleInv /\ [Con!Next]_(Con!vars) => ConsoleInv'  BY ConsoleStep
<1> QED BY <1>1, ConsoleInitially, PTL DEF Con!Spec

\* infr model download ends as its job did: what a poll or its own cancel brought
\* back is still the job's state when the command exits, because no handler
\* changes a job that is over; only a second interrupt leaves a running job.
THEOREM CommandTellsTheJob == Con!Spec => []Con!ExitReflectsJob
<1>1. ConsoleInv => Con!ExitReflectsJob  BY DEF ConsoleInv, CliOK, Con!ExitReflectsJob
<1> QED BY <1>1, ConsoleInvariance, PTL

\* No request that stops, replaces or removes something leaves the dashboard for
\* another target than its question named, whatever polls, answers and other
\* keys did to tables and cursor between the two presses: Confirm compares the
\* question anew and not the row.
THEOREM OnlyConfirmedIsSent == Con!Spec => Con!ConfirmedIsShown
<1>1. ConsoleInv /\ [Con!Next]_(Con!vars) =>
        \A x \in rpcs' \ rpcs :
          (x.st = "sent" /\ (x.r.kind \in {"cleanup", "delete", "restart", "reset"} \/ (x.r.kind = "start" /\ x.r.arg)))
            => dash.asked = <<x.r.kind, x.r.target>>
  <2> SUFFICES ASSUME ConsoleInv, [Con!Next]_(Con!vars), NEW x \in rpcs' \ rpcs, x.st = "sent", Takes(x.r)
               PROVE  dash.asked = <<x.r.kind, x.r.target>>
    BY DEF Takes
  <2>1. CASE Con!Key  BY <2>1, KeyAnswers
  <2>2. ASSUME NEW y \in rpcs, Con!Serve(y) \/ Con!ServeFails(y) PROVE FALSE
    <3>1. "st" \in DOMAIN y  BY DEF ConsoleInv, Requests
    <3>2. x.st = "done"  BY <2>2, <3>1 DEF Con!Serve, Con!ServeFails
    <3> QED BY <3>2
  <2>3. ASSUME NEW y \in rpcs, Con!ActionAnswers(y) PROVE FALSE  BY <2>3 DEF Con!ActionAnswers
  <2>4. ~(Con!JobEnds \/ Con!RpcCommand \/ Con!McpTool)  BY DEF Con!JobEnds, Con!RpcCommand, Con!McpTool
  <2>5. ~(Con!Tick \/ Con!PollStep \/ Con!PollFails \/ Con!CatalogAnswers)
    BY DEF Con!Tick, Con!PollStep, Con!PollInfo, Con!PollProfiles, Con!PollLocal, Con!PollDownload, Con!PollStore,
           Con!PollAnswers, Con!PollFails, Con!CatalogAnswers
  <2>6. ~(Con!PageKey \/ Con!RefreshKey)  BY DEF Con!PageKey, Con!RefreshKey
  <2>7. ~(Con!DownloadCommand \/ Con!CliAsks \/ Con!CliHears \/ Con!Interrupt)
    BY DEF Con!DownloadCommand, Con!CliAsks, Con!CliHears, Con!Interrupt
  <2>8. ~UNCHANGED Con!vars  BY DEF Con!vars
  <2> QED BY <2>1, <2>2, <2>3, <2>4, <2>5, <2>6, <2>7, <2>8 DEF Con!Next
<1> QED BY <1>1, ConsoleInvariance, PTL DEF Con!Spec, Con!ConfirmedIsShown
=============================================================================
