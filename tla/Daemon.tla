------------------------------- MODULE Daemon -------------------------------
(***************************************************************************)
(* The two long-running processes of InferenceRig, the control daemon and  *)
(* the web gateway, with the control socket, the gateway's port and the    *)
(* PID files, and the commands that start, stop, upgrade, uninstall and    *)
(* diagnose them: several commands, the user service manager and processes *)
(* that reuse a PID act concurrently, and any process may be killed.       *)
(***************************************************************************)
EXTENDS Naturals, FiniteSets

CONSTANTS
  Pids,        \* the PIDs of the host
  None,        \* no process
  Clients,     \* terminals that run commands
  NumProfiles, \* autostart profiles, 1..NumProfiles in lexical order
  Attempts,    \* autostartAttempts
  MaxCommands, \* bound on commands
  MaxFaults,   \* bound on what the environment does
  Faults       \* "kill", "recycle", "replace", "unit", "byhand", "fail"

Services == {"control", "web"}
Foreign == 0   \* the executable of a program that is not InferenceRig
Gone == 0      \* the path of the command once uninstall has removed it

ASSUME DaemonOK ==
  /\ None \notin Pids /\ NumProfiles \in Nat /\ Attempts \in Nat \ {0}
  /\ MaxCommands \in Nat /\ MaxFaults \in Nat

VARIABLES
  proc,   \* the process of each PID
  sock,   \* the process whose listener the socket path was bound by
  port,   \* the process that listens on the gateway's port
  pidf,   \* the PID file of each service
  bin,    \* the inode of the installed command
  unit,   \* the user service, its process, and the home directory
  cl,     \* the command at each terminal
  cmds, faults,  \* bounds
  crossed \* history: daemons whose start or end another daemon's start has run into

vars == <<proc, sock, port, pidf, bin, unit, cl, cmds, faults, crossed>>
host == <<sock, port, pidf, bin, unit>>
bounds == <<cmds, faults>>

Free == [kind |-> "none", pc |-> "none", exe |-> Foreign, term |-> FALSE, lis |-> FALSE, up |-> FALSE,
         next |-> 1, try |-> 0, out |-> {}]
Idle == [pc |-> "idle", cmd |-> "none", svc |-> "control", pid |-> None, then |-> "return",
         began |-> FALSE, todo |-> {}, down |-> {}, saw |-> "none", port |-> "none"]

Runs(p) == p # None /\ proc[p].kind # "none"
Fault(f) == f \in Faults /\ faults < MaxFaults /\ faults' = faults + 1
Fails == Fault("fail")
Works == UNCHANGED faults
Step(p, pc) == proc' = [proc EXCEPT ![p].pc = pc]
At(p, k, pc) == proc[p].kind = k /\ proc[p].pc = pc

-----------------------------------------------------------------------------
(* Files and sockets                                                       *)

\* net.Dial to the socket: does the process that bound it still listen?
Accepts == sock # None /\ proc[sock].lis

\* client.Health: a daemon that listens but does not serve yet answers nobody.
Health == Accepts /\ proc[sock].up

\* SameExecutable: the file the process was started from is the command's file.
\* A replaced file has another inode.
SameExecutable(p) == Runs(p) /\ bin # Gone /\ proc[p].exe = bin

\* File.Remove(p): only a file that names p is removed.
Removed(s, p) == [pidf EXCEPT ![s] = IF @ = p THEN None ELSE @]

\* Mutant: any live process with the recorded PID is taken for the service.
RunningAny(s) == IF Runs(pidf[s]) THEN pidf[s] ELSE None

\* runningSelf: the service's process, or None; a file that names something else is removed.
RunningSelf(s) == IF SameExecutable(pidf[s]) THEN pidf[s] ELSE None
Cleared(s) == [pidf EXCEPT ![s] = RunningSelf(s)]

\* fork and exec: a PID that no process has, and that nobody has yet to reap or
\* waits for (IsRunning compares the creation time, so reuse looks like an exit).
FreePids == {p \in Pids : ~Runs(p) /\ p # unit.pid /\ \A c \in Clients : ~(cl[c].pid = p /\ cl[c].pc \in {"record", "watch", "gone"})}
Born(k, pc, exe) == [Free EXCEPT !.kind = k, !.pc = pc, !.exe = exe]
FirstStep(s) == IF s = "control" THEN "boot" ELSE "register"

-----------------------------------------------------------------------------
(* The control daemon: NewService, Run and Shutdown                        *)

\* The process is gone, and its listener with it; a socket file stays.
Dead(p) == proc' = [proc EXCEPT ![p] = Free]

\* Mutant: any socket file is taken for a stale one.
ProbeBlind(p) ==
  /\ At(p, "control", "boot") /\ Step(p, "listen")
  /\ UNCHANGED <<host, cl, bounds>>

\* The configuration is refused, or removeStaleSocket finds a daemon that answers.  (Before
\* it probes, NewService has let the interrupted downloads start again, in this process:
\* module DuplicateStart.)
Probe(p) ==
  /\ At(p, "control", "boot")
  /\ \/ Dead(p) /\ ((Accepts /\ Works) \/ Fails)
     \/ ~Accepts /\ Step(p, "listen") /\ Works
  /\ UNCHANGED <<host, cl, cmds>>

\* What was stale by then is removed and the path bound, whoever bound it since.
Listen(p) ==
  /\ At(p, "control", "listen")
  /\ sock' = p /\ proc' = [proc EXCEPT ![p].pc = "pid", ![p].lis = TRUE]
  /\ UNCHANGED <<port, pidf, bin, unit, cl, bounds>>

\* The PID file is written once the socket is held.
WritePID(p) ==
  /\ At(p, "control", "pid")
  /\ \/ pidf' = [pidf EXCEPT !["control"] = p] /\ Step(p, "auto") /\ Works /\ UNCHANGED sock
     \/ Fails /\ Dead(p) /\ sock' = None /\ UNCHANGED pidf
  /\ UNCHANGED <<port, bin, unit, cl, cmds>>

\* ValidateAutostart or RecoverRuntimes fails: NewService shuts down again.
PrepareFails(p) ==
  /\ At(p, "control", "auto") /\ proc[p].out = {} /\ Fails /\ Step(p, "close")
  /\ UNCHANGED <<host, cl, cmds>>

\* autostartProfile: already running, a start, a retry, or the last failure; each
\* profile has its outcome recorded.
Autostart(p) ==
  /\ At(p, "control", "auto") /\ proc[p].next <= NumProfiles
  /\ \/ proc' = [proc EXCEPT ![p].next = @ + 1, ![p].try = 0, ![p].out = @ \cup {proc[p].next}] /\ Works
     \/ Fails /\ proc[p].try + 1 < Attempts /\ proc' = [proc EXCEPT ![p].try = @ + 1]
  /\ UNCHANGED <<sock, port, pidf, bin, unit, cl, cmds>>

Serve(p) ==
  /\ At(p, "control", "auto") /\ proc[p].next > NumProfiles
  /\ proc' = [proc EXCEPT ![p].pc = "serve", ![p].up = TRUE]
  /\ UNCHANGED <<sock, port, pidf, bin, unit, cl, bounds>>

\* A signal is noticed by Run only; requests are answered until the runtimes have stopped.
Drain(p) ==
  /\ At(p, "control", "serve") /\ proc[p].term /\ Step(p, "close")
  /\ UNCHANGED <<sock, port, pidf, bin, unit, cl, bounds>>

\* HTTP.Shutdown: closing a Unix listener unlinks its path, whoever bound it since.
Close(p) ==
  /\ At(p, "control", "close")
  /\ proc' = [proc EXCEPT ![p].pc = "unsock", ![p].lis = FALSE, ![p].up = FALSE] /\ sock' = None
  /\ UNCHANGED <<port, pidf, bin, unit, cl, bounds>>

\* Shutdown removes the path once more after the last request, and its PID.
RemoveFiles(p) ==
  /\ At(p, "control", "unsock") /\ Dead(p) /\ sock' = None /\ pidf' = Removed("control", p)
  /\ UNCHANGED <<port, bin, unit, cl, bounds>>

-----------------------------------------------------------------------------
(* The web gateway                                                         *)

\* registerWebPID comes first, whoever the file names ...
Register(p) ==
  /\ At(p, "web", "register") /\ pidf' = [pidf EXCEPT !["web"] = p] /\ Step(p, "bind")
  /\ UNCHANGED <<sock, port, bin, unit, cl, bounds>>

\* ... and the configuration and the port may still be refused.
Bind(p) ==
  /\ At(p, "web", "bind")
  /\ \/ port = None /\ port' = p /\ Step(p, "serve") /\ Works /\ UNCHANGED pidf
     \/ ((port # None /\ Works) \/ Fails) /\ Dead(p) /\ pidf' = Removed("web", p) /\ UNCHANGED port
  /\ UNCHANGED <<sock, bin, unit, cl, cmds>>

Leave(p) ==
  /\ At(p, "web", "serve") /\ proc[p].term /\ port' = None /\ Dead(p) /\ pidf' = Removed("web", p)
  /\ UNCHANGED <<sock, bin, unit, cl, bounds>>

Service(p) ==
  \/ Probe(p) \/ Listen(p) \/ WritePID(p) \/ PrepareFails(p) \/ Autostart(p) \/ Serve(p)
  \/ Drain(p) \/ Close(p) \/ RemoveFiles(p) \/ Register(p) \/ Bind(p) \/ Leave(p)

-----------------------------------------------------------------------------
(* Commands                                                                *)

Put(c, r) == cl' = [cl EXCEPT ![c] = r]
In(c, pc) == cl[c].pc = pc

First(S) == IF "control" \in S THEN "control" ELSE "web"

\* stopServices: the next one, or the installer, or the removal.
Stopping(r) ==
  IF r.todo # {} THEN [r EXCEPT !.pc = "halt", !.svc = First(r.todo)]
  ELSE [r EXCEPT !.pc = IF r.cmd = "upgrade" THEN "install" ELSE "disable"]

\* startServices: the next one of those that were stopped.
Starting(r) == IF r.down # {} THEN [r EXCEPT !.pc = "check", !.svc = First(r.down)] ELSE Idle

\* After a stop: the end, a restart, or the next service of an upgrade.
AfterStop(r) ==
  CASE r.then = "restart" -> [r EXCEPT !.pc = "check", !.then = "ready"]
    [] r.then = "services" -> Stopping([r EXCEPT !.todo = @ \ {r.svc}, !.down = @ \cup {r.svc}])
    [] OTHER -> Idle

\* After a stop that reports an error: an upgrade goes on to the next service.
StopFailed(r) == IF r.then = "services" THEN Stopping([r EXCEPT !.todo = @ \ {r.svc}]) ELSE Idle

\* After a start, which may have failed; the other services are started all the same.
AfterStart(r, ok) ==
  CASE r.then = "await" /\ ok -> [r EXCEPT !.pc = "await", !.began = TRUE]
    [] r.then = "ready" /\ ok -> [r EXCEPT !.pc = "await"]
    [] r.then = "services" -> Starting([r EXCEPT !.down = @ \ {r.svc}])
    [] OTHER -> Idle

Entry == [start |-> "check", stop |-> "halt", status |-> "status", setup |-> "ask", upgrade |-> "survey",
          uninstall |-> "survey", doctor |-> "look"]

Command(c, k, s) ==
  /\ In(c, "idle") /\ bin # Gone /\ cmds < MaxCommands /\ cmds' = cmds + 1
  /\ Put(c, [Idle EXCEPT !.cmd = k, !.svc = s, !.pc = Entry[k]])
  /\ UNCHANGED <<proc, sock, port, pidf, bin, unit, faults>>

\* StartDetached: refuse, or fork ...
Check(c) ==
  /\ In(c, "check") /\ pidf' = Cleared(cl[c].svc)
  /\ Put(c, IF RunningSelf(cl[c].svc) # None \/ bin = Gone THEN AfterStart(cl[c], FALSE) ELSE [cl[c] EXCEPT !.pc = "spawn"])
  /\ UNCHANGED <<proc, sock, port, bin, unit, bounds>>

Spawn(c, p) ==
  /\ In(c, "spawn") /\ p \in FreePids
  /\ proc' = [proc EXCEPT ![p] = Born(cl[c].svc, FirstStep(cl[c].svc), bin)]
  /\ Put(c, [cl[c] EXCEPT !.pc = "record", !.pid = p])
  /\ UNCHANGED <<host, bounds>>

\* ... record the PID ...
Record(c) ==
  /\ In(c, "record") /\ pidf' = [pidf EXCEPT ![cl[c].svc] = cl[c].pid]
  /\ Put(c, [cl[c] EXCEPT !.pc = "watch"])
  /\ UNCHANGED <<proc, sock, port, bin, unit, bounds>>

\* ... and watchStartup: it exits within the grace period, or it does not.
Watch(c) ==
  /\ In(c, "watch")
  /\ \/ Put(c, AfterStart(cl[c], TRUE)) /\ UNCHANGED pidf
     \/ /\ ~Runs(cl[c].pid) /\ pidf' = Removed(cl[c].svc, cl[c].pid)
        /\ Put(c, AfterStart(cl[c], FALSE))
  /\ UNCHANGED <<proc, sock, port, bin, unit, bounds>>

\* StopDetached: the PID file cannot be read, or terminate ...
Halt(c) ==
  /\ In(c, "halt")
  /\ \/ Fails /\ Put(c, StopFailed(cl[c])) /\ UNCHANGED <<pidf, proc>>
     \/ LET s == cl[c].svc  p == RunningSelf(s) IN
        /\ pidf' = Cleared(s) /\ Works
        /\ IF p = None THEN Put(c, AfterStop(cl[c])) /\ UNCHANGED proc
           ELSE /\ proc' = [proc EXCEPT ![p].term = TRUE]
                /\ Put(c, [cl[c] EXCEPT !.pc = "gone", !.pid = p])
  /\ UNCHANGED <<sock, port, bin, unit, cmds>>

\* ... wait for the process to go, kill it at the deadline, and remove its file, or fail to.
AwaitGone(c) ==
  /\ In(c, "gone")
  /\ \/ pidf' = Removed(cl[c].svc, cl[c].pid) /\ Put(c, AfterStop(cl[c])) /\ Works
     \/ Fails /\ Put(c, StopFailed(cl[c])) /\ UNCHANGED pidf
  /\ IF Runs(cl[c].pid) THEN Dead(cl[c].pid) /\ port' = (IF port = cl[c].pid THEN None ELSE port) ELSE UNCHANGED <<proc, port>>
  /\ UNCHANGED <<sock, bin, unit, cmds>>

\* ensureControl: who answers on the socket is running; else the PID file decides.
Ask(c) ==
  /\ In(c, "ask") /\ Put(c, [cl[c] EXCEPT !.pc = IF Health THEN "wizard" ELSE "status"])
  /\ UNCHANGED <<proc, host, bounds>>

Status(c) ==
  /\ In(c, "status") /\ pidf' = Cleared(cl[c].svc)
  /\ Put(c, IF cl[c].cmd # "setup" THEN Idle
            ELSE [cl[c] EXCEPT !.then = "await", !.pc = IF RunningSelf("control") # None THEN "await" ELSE "check"])
  /\ UNCHANGED <<proc, sock, port, bin, unit, bounds>>

\* CheckStartupFailure: the file names a process that is no more.
StartupFailed == pidf["control"] # None /\ ~Runs(pidf["control"])

\* waitForControl: an answer, a failure, or the timeout.
Await(c) ==
  /\ In(c, "await")
  /\ \/ Health /\ Put(c, IF cl[c].then = "ready" THEN Idle ELSE [cl[c] EXCEPT !.pc = "wizard"])
     \/ StartupFailed /\ Put(c, Idle)
     \/ Put(c, Idle)
  /\ UNCHANGED <<proc, host, bounds>>

\* runSetup and handleSetupError: nothing to do; a cancel, which takes the daemon
\* down again if this command started it; or a new configuration and a restart.
Outcomes(r) ==
  {Idle, [r EXCEPT !.pc = "halt", !.then = "restart"]}
  \cup (IF r.began THEN {[r EXCEPT !.pc = "halt", !.then = "return"]} ELSE {})

Wizard(c) ==
  /\ In(c, "wizard") /\ \E r \in Outcomes(cl[c]) : Put(c, r)
  /\ UNCHANGED <<proc, host, bounds>>

\* runUpgrade and runUninstall: which services run, and are to be stopped.
Survey(c) ==
  /\ In(c, "survey") /\ pidf' = [s \in Services |-> RunningSelf(s)]
  /\ Put(c, Stopping([cl[c] EXCEPT !.then = "services", !.todo = {s \in Services : RunningSelf(s) # None}]))
  /\ UNCHANGED <<proc, sock, port, bin, unit, bounds>>

\* Mutant: an installer that fails ends the command.
InstallReturns(c) ==
  /\ In(c, "install")
  /\ \/ bin' = bin + 1 /\ Put(c, Starting(cl[c])) /\ Works
     \/ Fails /\ Put(c, Idle) /\ UNCHANGED bin
  /\ UNCHANGED <<proc, sock, port, pidf, unit, cmds>>

\* Install, which may fail and changes the inode if it does not, and start again.
Install(c) ==
  /\ In(c, "install")
  /\ (bin' = bin + 1 /\ Works) \/ (Fails /\ UNCHANGED bin)
  /\ Put(c, Starting(cl[c]))
  /\ UNCHANGED <<proc, sock, port, pidf, unit, cmds>>

\* uninstallNativeService: disable --now, and wait for the unit's process.
Disable(c) ==
  /\ In(c, "disable")
  /\ unit' = [unit EXCEPT !.on = FALSE]
  /\ IF Runs(unit.pid) THEN proc' = [proc EXCEPT ![unit.pid].term = TRUE] ELSE UNCHANGED proc
  /\ Put(c, [cl[c] EXCEPT !.pc = "disabled"])
  /\ UNCHANGED <<sock, port, pidf, bin, bounds>>

\* removeUninstallTargets: the home directory, the command, both or neither.
Purge(c, home, command) ==
  /\ In(c, "disabled") /\ ~Runs(unit.pid) /\ Put(c, Idle)
  /\ IF home THEN pidf' = [s \in Services |-> None] /\ sock' = None /\ unit' = [unit EXCEPT !.home = FALSE]
     ELSE UNCHANGED <<pidf, sock, unit>>
  /\ bin' = IF command THEN Gone ELSE bin
  /\ UNCHANGED <<proc, port, bounds>>

-----------------------------------------------------------------------------
(* doctor                                                                  *)

\* Mutant: the PID file alone tells whether a daemon runs.
PidVerdictFile ==
  IF pidf["control"] = None THEN "down"
  ELSE IF ~Runs(pidf["control"]) THEN "stale" ELSE IF SameExecutable(pidf["control"]) THEN "running" ELSE "other"

\* checkPIDFile, with orphanDaemon and identifyDaemon; it removes nothing.
PidVerdict ==
  IF pidf["control"] = None THEN IF Accepts THEN "orphan" ELSE "down"
  ELSE IF ~Runs(pidf["control"]) THEN "stale" ELSE IF SameExecutable(pidf["control"]) THEN "running" ELSE "other"

\* checkPort: the daemon's PID file stands for the gateway's.
PortVerdict == IF port = None THEN "free" ELSE IF Runs(pidf["control"]) THEN "ours" ELSE "taken"

\* checkDaemonReachable: a daemon that is not there is no failure.
ReachVerdict == IF ~Accepts THEN "skip" ELSE IF Health THEN "ok" ELSE "fail"

Look(c) ==
  /\ In(c, "look") /\ Put(c, [cl[c] EXCEPT !.pc = "reach", !.saw = PidVerdict, !.port = PortVerdict])
  /\ UNCHANGED <<proc, host, bounds>>

\* The report, and the command it offers: daemon stop for an orphan, serve for a daemon that is down.
Reach(c) ==
  LET offer(pc) == [cl[c] EXCEPT !.pc = pc, !.cmd = "remedy", !.port = "none"]
  IN  /\ In(c, "reach")
      /\ Put(c, CASE cl[c].saw = "orphan" /\ ReachVerdict = "ok" -> offer("halt")
                  [] cl[c].saw \in {"down", "stale"} /\ ReachVerdict = "skip" -> offer("check")
                  [] OTHER -> Idle)
      /\ UNCHANGED <<proc, host, bounds>>

-----------------------------------------------------------------------------
(* The environment                                                         *)

\* A process is killed, or another program ends.
Kill(p) ==
  /\ Runs(p)
  /\ \/ Fault("kill")
     \/ proc[p].kind = "other" /\ UNCHANGED faults
  /\ Dead(p) /\ port' = IF port = p THEN None ELSE port
  /\ UNCHANGED <<sock, pidf, bin, unit, cl, cmds>>

\* serve and web without --detach.
ByHand(p, s) ==
  /\ Fault("byhand") /\ p \in FreePids /\ bin # Gone
  /\ proc' = [proc EXCEPT ![p] = Born(s, FirstStep(s), bin)]
  /\ UNCHANGED <<host, cl, cmds>>

\* Another program gets a PID, a command of InferenceRig among them.
Recycle(p, exe) ==
  /\ Fault("recycle") /\ p \in FreePids
  /\ proc' = [proc EXCEPT ![p] = Born("other", "run", exe)]
  /\ UNCHANGED <<host, cl, cmds>>

\* Someone installs over the command.
Replace == Fault("replace") /\ bin # Gone /\ bin' = bin + 1 /\ UNCHANGED <<proc, sock, port, pidf, unit, cl, cmds>>

\* installService and activateService: write the unit, reload, enable, restart.
UnitInstall ==
  /\ Fault("unit") /\ bin # Gone /\ unit' = [unit EXCEPT !.on = TRUE]
  /\ IF Runs(unit.pid) THEN proc' = [proc EXCEPT ![unit.pid].term = TRUE] ELSE UNCHANGED proc
  /\ UNCHANGED <<sock, port, pidf, bin, cl, cmds>>

\* The service manager starts the unit, and again after a failure.
UnitStart(p) ==
  /\ unit.on /\ ~Runs(unit.pid) /\ p \in FreePids /\ bin # Gone
  /\ proc' = [proc EXCEPT ![p] = Born("control", "boot", bin)]
  /\ unit' = [unit EXCEPT !.pid = p]
  /\ UNCHANGED <<sock, port, pidf, bin, cl, bounds>>

Init ==
  /\ proc = [p \in Pids |-> Free] /\ sock = None /\ port = None /\ pidf = [s \in Services |-> None]
  /\ bin = 1 /\ unit = [on |-> FALSE, pid |-> None, home |-> TRUE] /\ cl = [c \in Clients |-> Idle]
  /\ cmds = 0 /\ faults = 0 /\ crossed = {}

Terminal(c) ==
  \/ Check(c) \/ Record(c) \/ Watch(c) \/ Halt(c) \/ AwaitGone(c) \/ Ask(c) \/ Status(c) \/ Await(c)
  \/ Wizard(c) \/ Survey(c) \/ Install(c) \/ Disable(c) \/ Look(c) \/ Reach(c)
  \/ \E p \in Pids : Spawn(c, p)
  \/ \E home, command \in BOOLEAN : Purge(c, home, command)
  \/ \E k \in {"start", "stop", "status"}, s \in Services : Command(c, k, s)
  \/ \E k \in {"setup", "upgrade", "uninstall", "doctor"} : Command(c, k, "control")

Environment ==
  \/ Replace \/ UnitInstall
  \/ \E p \in Pids : Kill(p) \/ UnitStart(p) \/ \E s \in Services : ByHand(p, s)
  \/ \E p \in Pids, exe \in {Foreign, bin} : Recycle(p, exe)

\* A daemon that has made its probe and has not yet removed its files.
Holds(p) == proc[p].kind = "control" /\ proc[p].pc # "boot"

\* Those of them that the probe of another does not find: between their own probe and
\* bind, between close and removal, or cut off from the path by an earlier such crossing.
Unseen == {p \in Pids : Holds(p) /\ ~(proc[p].lis /\ sock = p)}

\* History: who has made its probe while another was there unseen, and who was.
Passing == {p \in Pids : At(p, "control", "boot") /\ proc'[p].pc = "listen"}
Crossing ==
  crossed' = {p \in IF Passing # {} /\ Unseen # {} THEN crossed \cup Passing \cup Unseen ELSE crossed : Holds(p)'}

Next ==
  /\ (\E p \in Pids : Service(p)) \/ (\E c \in Clients : Terminal(c)) \/ Environment
  /\ Crossing

Spec == Init /\ [][Next]_vars

-----------------------------------------------------------------------------
(* Properties                                                              *)

\* detached.go:116 "runningSelf refuses to hand back a recycled PID": no command
\* signals a process that was not started from InferenceRig's own executable.
OnlyOwnStopped ==
  [][\A p \in Pids : proc'[p].term /\ ~proc[p].term /\ unit' = unit => proc[p].exe # Foreign]_vars

\* NewControlListener and Shutdown: a daemon that listens holds the socket that clients
\* dial, whatever duplicates were started and failed, or crashed and left their socket
\* behind; only one whose start or end another's start has run into may have lost it.
\* autostart.go:47: it serves only when every configured profile has its outcome
\* recorded: "one failure never stops the daemon or hides another profile's outcome".
ServingIsReady ==
  /\ unit.home => \A p \in Pids \ crossed : proc[p].kind = "control" /\ proc[p].lis => sock = p
  /\ \A p \in Pids : At(p, "control", "serve") => proc[p].out = 1..NumProfiles

\* upgrade.go:64 "a failed download does not also cost the user their running
\* daemons": an upgrade ends only when each service that its stops report as stopped was
\* started again, or its start has been tried, whichever of the others would not stop.
UpgradeRestores ==
  [][\A c \in Clients : cl[c].cmd = "upgrade" /\ cl'[c].pc = "idle"
       => cl[c].down \subseteq IF cl[c].pc \in {"check", "watch"} THEN {cl[c].svc} ELSE {}]_vars

\* checks_daemon.go:69: while a daemon answers on its socket, the diagnosis does
\* not say that none is running.
DoctorSeesServer ==
  [][\A c \in Clients : In(c, "look") /\ cl'[c].pc = "reach" /\ Health => cl'[c].saw # "down"]_vars

-----------------------------------------------------------------------------
(* Said by the code's comments or expected of it, and not so: see "Known   *)
(* disagreements" in README.md.  No run of the project checks these.       *)

\* service.go:217 "removes its socket": no daemon removes the path that another
\* one serves on.
OnlyOwnSocketRemoved ==
  [][sock # None /\ sock' = None /\ Accepts /\ unit'.home => \E p \in Pids : p = sock /\ proc'[p] # proc[p]]_vars

\* upgrade.go:85 "stopServices returns the services actually stopped": one whose process has
\* gone is among those to start again.
StoppedIsCounted ==
  [][\A c \in Clients : cl[c].cmd = "upgrade" /\ In(c, "gone") /\ cl'[c].pc # "gone"
       => cl[c].svc \in cl'[c].down]_vars

\* web.go:96: the PID file is "written here regardless of how this process was
\* launched, so the TUI's Stop can find and stop a gateway it did not itself start".
GatewayIsFound ==
  \A p \in Pids : At(p, "web", "serve") /\ ~proc[p].term /\ (\A c \in Clients : In(c, "idle"))
                  /\ (\A q \in Pids : proc[q].pc \notin {"register", "bind"}) => pidf["web"] = p

\* checks_daemon.go:25 "stopCommand is what recovers a daemon that is running
\* without a PID file": the command that the diagnosis offers stops it.
RemedyStops ==
  [][\A c \in Clients : cl[c].cmd = "remedy" /\ cl[c].pc = "halt" => cl'[c].pc # "idle" \/ ~Health']_vars
=============================================================================
