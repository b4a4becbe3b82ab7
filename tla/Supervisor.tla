---------------------------- MODULE Supervisor ----------------------------
(***************************************************************************)
(* core/runtime: the Supervisor of one engine process, its PID file, the   *)
(* goroutine that waits for the process, and what happens to both when the *)
(* daemon dies and the next one recovers.                                  *)
(*                                                                         *)
(* The manager makes a new Supervisor for every start and every recovery,  *)
(* and all of them share one PID file; they are numbered by gen.  Module   *)
(* RuntimeSlot shows that at most one of them is in a Start or Stop call,  *)
(* so there is one call; the waiters of earlier supervisors may still run. *)
(***************************************************************************)
EXTENDS Integers, FiniteSets

CONSTANTS
  PIDs,    \* process IDs, positive numbers
  MaxGen,  \* bound on supervisors: daemon restarts and engine starts
  Faults   \* "spawn", "write", "timeout", "signal", "mismatch", "crash", "reuse"

ASSUME PIDsOK == PIDs \subseteq Nat \ {0} /\ MaxGen \in Nat

VARIABLES
  proc,    \* proc[p]: who runs under PID p, whether it still runs, whether it holds the port
  file,    \* the PID file: a PID, Absent or Garbage
  gen,     \* supervisors made so far; the last one is the slot's
  sup,     \* its fields
  waiter,  \* waiter[g]: the goroutine of the engine supervisor g started
  call,    \* the call in progress on it
  held,    \* what the manager's slot says: "none", "served", "failed", "orphaned"
  up,      \* the daemon runs
  excused  \* engines no record is owed for: a stop of theirs failed, or their
           \* record was not written (an error, or the daemon died first) or was
           \* removed by the goroutine of an engine before them, or their executable
           \* was replaced, so that recovery does not know them

vars == <<proc, file, gen, sup, waiter, call, held, up, excused>>

Nobody == 0
Other == -1          \* a process that is no engine of ours
Twin == -2           \* one that is none either, but runs the same executable in its own group
Strangers == {Nobody, Other, Twin}   \* no record is owed for these
Absent == 0
Garbage == -1        \* a PID file that does not parse
Free == [who |-> Nobody, run |-> FALSE, port |-> FALSE]
\* lost is history: the number pid was given to another program while the supervisor held it.
NoSup == [pid |-> 0, who |-> Nobody, cmd |-> FALSE, done |-> FALSE, ready |-> FALSE, lost |-> FALSE]
NoWaiter == [pc |-> "none", pid |-> 0]
NoCall == [op |-> "none", pc |-> "none", out |-> "none"]

Engine(p) == proc[p].who > 0 /\ proc[p].run
PortHeld == \E p \in PIDs : proc[p].port
Goto(pc) == call' = [call EXCEPT !.pc = pc]

-----------------------------------------------------------------------------
(* What the supervisor can see of its process.  kill(pid, 0) succeeds for   *)
(* any process under that number, a zombie or a stranger included.          *)

Alive(p) == proc[p].who # Nobody

\* isRunning, and the value it takes out of done on the way.
IsRunning == sup.pid # 0 /\ ~(sup.cmd /\ sup.done) /\ Alive(sup.pid)
Consumed == IF sup.pid # 0 /\ sup.cmd /\ sup.done THEN [sup EXCEPT !.done = FALSE, !.ready = FALSE] ELSE sup

\* The call returns to the manager, which settles the slot.
Return(state) == call' = NoCall /\ held' = state

-----------------------------------------------------------------------------
(* Start                                                                   *)

Launch ==
  /\ up /\ call.op = "none" /\ held = "none" /\ gen < MaxGen
  /\ gen' = gen + 1 /\ sup' = NoSup
  /\ call' = [op |-> "start", pc |-> "spawn", out |-> "none"]
  /\ UNCHANGED <<proc, file, waiter, held, up, excused>>

\* The kernel gives a number out once nobody runs under it or is still to be reaped.
Spawn ==
  /\ call.pc = "spawn"
  /\ \/ /\ \E p \in PIDs :
             /\ ~Alive(p)
             /\ proc' = [proc EXCEPT ![p] = [who |-> gen, run |-> TRUE, port |-> FALSE]]
             /\ sup' = [NoSup EXCEPT !.pid = p, !.who = gen, !.cmd = TRUE]
             /\ waiter' = [waiter EXCEPT ![gen] = [pc |-> "wait", pid |-> p]]
        /\ Goto("write") /\ UNCHANGED held
     \/ "spawn" \in Faults /\ Return("none") /\ UNCHANGED <<proc, sup, waiter>>
  /\ UNCHANGED <<file, gen, up, excused>>

WritePID ==
  /\ call.pc = "write"
  /\ \/ file' = sup.pid /\ Goto("ready") /\ UNCHANGED excused
     \/ "write" \in Faults /\ file' \in {file, Garbage} /\ Goto("cleanup") /\ excused' = excused \cup {gen}
  /\ UNCHANGED <<proc, gen, sup, waiter, held, up>>

\* waitReady: any answer on the port counts; the deadline or a cancelled context
\* ends the wait, and rollbackStart stops what was started.
WaitReady ==
  /\ call.pc = "ready"
  /\ \/ ~IsRunning /\ sup' = Consumed /\ Goto("cleanup") /\ UNCHANGED held
     \/ IsRunning /\ PortHeld /\ sup' = [sup EXCEPT !.ready = TRUE] /\ Return("served")
     \/ IsRunning /\ "timeout" \in Faults /\ Goto("cleanup") /\ UNCHANGED <<sup, held>>
  /\ UNCHANGED <<proc, file, gen, waiter, up, excused>>

-----------------------------------------------------------------------------
(* Stop, and the stopProcess it shares with the rollback of a start         *)

StopCall ==
  /\ up /\ call.op = "none" /\ held # "none"
  /\ call' = [op |-> "stop", pc |-> "check", out |-> "none"]
  /\ UNCHANGED <<proc, file, gen, sup, waiter, held, up, excused>>

\* Mutant: a supervisor that never saw its process ready takes it for stopped.
StopCheckReady ==
  /\ call.pc = "check"
  /\ \/ IsRunning /\ sup.ready /\ Goto("cleanup") /\ UNCHANGED <<sup, held>>
     \/ ~(IsRunning /\ sup.ready) /\ sup' = Consumed /\ Return("none")
  /\ UNCHANGED <<proc, file, gen, waiter, up, excused>>

StopCheck ==
  /\ call.pc = "check"
  /\ \/ IsRunning /\ Goto("cleanup") /\ UNCHANGED <<sup, held>>
     \/ ~IsRunning /\ sup' = Consumed /\ Return("none")
  /\ UNCHANGED <<proc, file, gen, waiter, up, excused>>

Cleanup ==
  /\ call.pc = "cleanup"
  /\ \/ IsRunning /\ Goto("interrupt") /\ UNCHANGED sup
     \/ ~IsRunning /\ sup' = Consumed /\ call' = [call EXCEPT !.pc = "forget", !.out = "ok"]
  /\ UNCHANGED <<proc, file, gen, waiter, held, up, excused>>

Interrupt ==
  /\ call.pc = "interrupt"
  /\ \/ Alive(sup.pid) /\ Goto("await")
     \/ /\ ~Alive(sup.pid) \/ "signal" \in Faults
        /\ call' = [call EXCEPT !.pc = "forget", !.out = "fail"]
  /\ UNCHANGED <<proc, file, gen, sup, waiter, held, up, excused>>

\* Mutant: the stop timeout ends the wait as if the process had exited.
AwaitGivesUp ==
  /\ call.pc = "await"
  /\ \/ (IF sup.cmd THEN sup.done ELSE ~Alive(sup.pid)) /\ sup' = [sup EXCEPT !.done = FALSE]
     \/ "timeout" \in Faults /\ UNCHANGED sup
  /\ call' = [call EXCEPT !.pc = "forget", !.out = "ok"]
  /\ UNCHANGED <<proc, file, gen, waiter, held, up, excused>>

\* The wait for the exit: through done for a child, by polling for an adopted one.
Await ==
  /\ call.pc = "await"
  /\ \/ /\ IF sup.cmd THEN sup.done ELSE ~Alive(sup.pid)
        /\ sup' = [sup EXCEPT !.done = FALSE]
        /\ call' = [call EXCEPT !.pc = "forget", !.out = "ok"]
     \/ "timeout" \in Faults /\ Goto("kill") /\ UNCHANGED sup
  /\ UNCHANGED <<proc, file, gen, waiter, held, up, excused>>

\* SIGKILL, and at most one more second: the process may or may not be gone.
Kill ==
  /\ call.pc = "kill"
  /\ call' = [call EXCEPT !.pc = "forget", !.out = "fail"]
  /\ UNCHANGED <<proc, file, gen, sup, waiter, held, up, excused>>

\* pidfile.Remove(pid) reads the file, then unlinks it.
Removable(pid) == file \in {pid, Garbage}

Forgotten ==
  /\ sup' = [sup EXCEPT !.pid = 0, !.ready = FALSE, !.lost = FALSE]
  /\ excused' = IF call.out = "fail" THEN excused \cup ({gen, sup.who} \ Strangers) ELSE excused
  /\ Return(IF call.op = "stop" /\ call.out = "fail" THEN "failed" ELSE "none")

Forget ==
  /\ call.pc = "forget"
  /\ \/ Removable(sup.pid) /\ Goto("unlink") /\ UNCHANGED <<sup, held, excused>>
     \/ ~Removable(sup.pid) /\ Forgotten
  /\ UNCHANGED <<proc, file, gen, waiter, up>>

Unlink ==
  /\ call.pc = "unlink"
  /\ file' = Absent /\ Forgotten
  /\ UNCHANGED <<proc, gen, waiter, up>>

\* Status takes the exit out of done and removes the record of a dead process.
StatusCall ==
  /\ up /\ call.op = "none" /\ held = "served"
  /\ sup' = Consumed
  /\ file' = IF ~IsRunning /\ sup.pid # 0 /\ Removable(sup.pid) THEN Absent ELSE file
  /\ UNCHANGED <<proc, gen, waiter, call, held, up, excused>>

-----------------------------------------------------------------------------
(* The goroutine that waits for the child: it reaps it, removes the record  *)
(* once that has been written, and only then reports the exit.              *)

Recorded(g) == ~(gen = g /\ call.op = "start" /\ call.pc \in {"spawn", "write"})

Reap(g) ==
  LET w == waiter[g] IN
  /\ w.pc = "wait" /\ proc[w.pid].who = g /\ ~proc[w.pid].run
  /\ proc' = [proc EXCEPT ![w.pid] = Free]
  /\ waiter' = [waiter EXCEPT ![g].pc = "read"]
  /\ UNCHANGED <<file, gen, sup, call, held, up, excused>>

\* What is unlinked is the record that is there by then, be it the next engine's.
WaiterRemove(g) ==
  LET w == waiter[g] IN
  /\ \/ /\ w.pc = "read" /\ Recorded(g)
        /\ waiter' = [waiter EXCEPT ![g].pc = IF Removable(w.pid) THEN "unlink" ELSE "send"]
        /\ UNCHANGED <<file, excused>>
     \/ /\ w.pc = "unlink" /\ waiter' = [waiter EXCEPT ![g].pc = "send"]
        /\ file' = Absent /\ excused' = excused \cup ({proc[p].who : p \in PIDs \cap {file}} \ Strangers)
  /\ UNCHANGED <<proc, gen, sup, call, held, up>>

Report(g) ==
  /\ waiter[g].pc = "send"
  /\ sup' = IF gen = g THEN [sup EXCEPT !.done = TRUE] ELSE sup
  /\ waiter' = [waiter EXCEPT ![g] = NoWaiter]
  /\ UNCHANGED <<proc, file, gen, call, held, up, excused>>

-----------------------------------------------------------------------------
(* The machine: engines bind the port and exit, other programs come and go. *)

EngineListens(p) ==
  /\ Engine(p) /\ ~PortHeld
  /\ proc' = [proc EXCEPT ![p].port = TRUE]
  /\ UNCHANGED <<file, gen, sup, waiter, call, held, up, excused>>

\* A child stays a zombie until its waiter reaps it; others are init's.
EngineExits(p) ==
  /\ Engine(p)
  /\ proc' = [proc EXCEPT ![p] =
                IF \E g \in 1..MaxGen : waiter[g] = [pc |-> "wait", pid |-> p] /\ proc[p].who = g
                THEN [@ EXCEPT !.run = FALSE, !.port = FALSE] ELSE Free]
  /\ UNCHANGED <<file, gen, sup, waiter, call, held, up, excused>>

\* A free PID goes to another program: while the daemon is down (a reboot) or,
\* with "reuse", at any time, the number a supervisor still holds included.
OtherStarts(p) ==
  /\ ~Alive(p) /\ (~up \/ "reuse" \in Faults)
  /\ \E who \in {Other, Twin}, listens \in {FALSE, ~PortHeld} :
       proc' = [proc EXCEPT ![p] = [who |-> who, run |-> TRUE, port |-> listens]]
  /\ sup' = IF p = sup.pid THEN [sup EXCEPT !.lost = TRUE] ELSE sup
  /\ UNCHANGED <<file, gen, waiter, call, held, up, excused>>

OtherExits(p) ==
  /\ proc[p].who \in {Other, Twin}
  /\ proc' = [proc EXCEPT ![p] = Free]
  /\ UNCHANGED <<file, gen, sup, waiter, call, held, up, excused>>

-----------------------------------------------------------------------------
(* The daemon dies (its engines do not) and the next one recovers           *)

Crash ==
  /\ up /\ "crash" \in Faults
  /\ up' = FALSE
  /\ file' \in IF call.pc = "write" THEN {file, Garbage, sup.pid} ELSE {file}
  /\ excused' = IF call.pc = "write" /\ file' # sup.pid THEN excused \cup {gen} ELSE excused
  /\ proc' = [p \in PIDs |-> IF proc[p].who # Nobody /\ ~proc[p].run THEN Free ELSE proc[p]]
  /\ sup' = NoSup /\ waiter' = [g \in 1..MaxGen |-> NoWaiter] /\ call' = NoCall /\ held' = "none"
  /\ UNCHANGED gen

Restart ==
  /\ ~up /\ gen < MaxGen
  /\ up' = TRUE /\ gen' = gen + 1 /\ sup' = NoSup
  /\ call' = [op |-> "recover", pc |-> "read", out |-> "none"]
  /\ UNCHANGED <<proc, file, waiter, held, excused>>

\* Mutant: the process is taken over before its executable is compared.
RecoverTrusts ==
  /\ call.pc = "read"
  /\ \/ file = Absent /\ Return("none") /\ UNCHANGED <<file, sup>>
     \/ file = Garbage /\ file' = Absent /\ Return("none") /\ UNCHANGED sup
     \/ file \in PIDs /\ ~Alive(file) /\ file' = Absent /\ Return("none") /\ UNCHANGED sup
     \/ /\ file \in PIDs /\ Alive(file)
        /\ sup' = [NoSup EXCEPT !.pid = file, !.who = proc[file].who]
        /\ IF proc[file].who = Other THEN Return("orphaned") ELSE Goto("probe") /\ UNCHANGED held
        /\ UNCHANGED file
  /\ UNCHANGED <<proc, gen, waiter, up, excused>>

\* Recover: the record is stale; or its process leads no group of its own or runs another
\* executable (a stranger, or an engine whose executable was replaced); or it is taken for
\* the engine, which a twin is too: only then is it known.
Recover ==
  /\ call.pc = "read"
  /\ \/ file = Absent /\ Return("none") /\ UNCHANGED <<file, sup, excused>>
     \/ file = Garbage /\ file' = Absent /\ Return("none") /\ UNCHANGED <<sup, excused>>
     \/ file \in PIDs /\ ~Alive(file) /\ file' = Absent /\ Return("none") /\ UNCHANGED <<sup, excused>>
     \/ /\ file \in PIDs /\ Alive(file)
        /\ proc[file].who = Other \/ "mismatch" \in Faults
        /\ excused' = excused \cup ({proc[file].who} \ Strangers)
        /\ Return("orphaned") /\ UNCHANGED <<file, sup>>
     \/ /\ file \in PIDs /\ proc[file].who \notin {Nobody, Other}
        /\ sup' = [NoSup EXCEPT !.pid = file, !.who = proc[file].who]
        /\ Goto("probe") /\ UNCHANGED <<file, held, excused>>
  /\ UNCHANGED <<proc, gen, waiter, up>>

\* Mutant: a survivor that does not answer is given up as if it were stale.
RecoverProbeDrops ==
  /\ call.pc = "probe"
  /\ \/ proc[sup.pid].port /\ sup' = [sup EXCEPT !.ready = TRUE] /\ Return("served")
     \/ (~proc[sup.pid].port \/ "timeout" \in Faults) /\ Return("none") /\ UNCHANGED sup
  /\ UNCHANGED <<proc, file, gen, waiter, up, excused>>

\* A survivor is adopted if it owns the port and answers, orphaned if not.
RecoverProbe ==
  /\ call.pc = "probe"
  /\ \/ proc[sup.pid].port /\ sup' = [sup EXCEPT !.ready = TRUE] /\ Return("served")
     \/ (~proc[sup.pid].port \/ "timeout" \in Faults) /\ Return("orphaned") /\ UNCHANGED sup
  /\ UNCHANGED <<proc, file, gen, waiter, up, excused>>

-----------------------------------------------------------------------------
Init ==
  /\ proc = [p \in PIDs |-> Free] /\ file = Absent
  /\ gen = 0 /\ sup = NoSup /\ waiter = [g \in 1..MaxGen |-> NoWaiter]
  /\ call = NoCall /\ held = "none" /\ up = TRUE /\ excused = {}

CallStep ==
  \/ Spawn \/ WritePID \/ WaitReady
  \/ StopCheck \/ Cleanup \/ Interrupt \/ Await \/ Kill \/ Forget \/ Unlink
  \/ Recover \/ RecoverProbe

\* The bound: no supervisor is left to make, and no call is waiting.
AtBound == gen = MaxGen /\ call.op = "none" /\ UNCHANGED vars

Next ==
  \/ Launch \/ StopCall \/ StatusCall \/ CallStep
  \/ \E g \in 1..MaxGen : Reap(g) \/ WaiterRemove(g) \/ Report(g)
  \/ \E p \in PIDs : EngineListens(p) \/ EngineExits(p) \/ OtherStarts(p) \/ OtherExits(p)
  \/ Crash \/ Restart \/ AtBound

Spec == Init /\ [][Next]_vars
-----------------------------------------------------------------------------
(* Properties                                                              *)

Gens == 0..MaxGen
Whos == Gens \cup {Other, Twin}

\* The shape of a Supervisor, its PID file and the processes around it.
TypeOK ==
  /\ proc \in [PIDs -> [who : Whos, run : BOOLEAN, port : BOOLEAN]]
  /\ file \in PIDs \cup {Absent, Garbage}
  /\ gen \in Gens
  /\ sup \in [pid : PIDs \cup {0}, who : Whos, cmd : BOOLEAN, done : BOOLEAN, ready : BOOLEAN, lost : BOOLEAN]
  /\ waiter \in [1..MaxGen -> [pc : {"none", "wait", "read", "unlink", "send"}, pid : PIDs \cup {0}]]
  /\ call \in [op : {"none", "start", "stop", "recover"},
               pc : {"none", "spawn", "write", "ready", "check", "cleanup", "interrupt", "await", "kill",
                     "forget", "unlink", "read", "probe"},
               out : {"none", "ok", "fail"}]
  /\ held \in {"none", "served", "failed", "orphaned"}
  /\ up \in BOOLEAN
  /\ excused \subseteq Whos

\* A running engine can always be found again: its supervisor knows it or the
\* PID file names it, through exits, failed starts, a daemon that dies at any
\* step and the recovery after it, and numbers given out again at any time.  Excused
\* are an engine whose stop failed, one whose record was never written or was removed by
\* the goroutine of an engine before it, and one that recovery does not recognise.
EngineIsAccountedFor ==
  \A p \in PIDs : Engine(p) => sup.pid = p \/ file = p \/ proc[p].who \in excused

\* Across daemon restarts too, no second engine is started beside one that has
\* not been stopped.
OneEngineAcrossRestarts ==
  \A p, q \in PIDs : Engine(p) /\ Engine(q) /\ {proc[p].who, proc[q].who} \cap excused = {} => p = q

\* A signal is only ever sent to the process that this supervisor started or that passed
\* the comparisons of Recover (executable and process group: an engine, or its twin), however
\* old the record; unless that process has ended and its number was given to another while
\* the supervisor held it (OnlyOwnSignalled says it without exceptions).
OnlyKnownSignalled ==
  call.pc \in {"interrupt", "kill"} => proc[sup.pid].who \in {Nobody, sup.who} \ {Other} \/ sup.lost

\* A stop that reports success on an engine the supervisor knows leaves it dead:
\* what RuntimeSlot's StopOK assumes of Supervisor.Stop.
StopMeansGone ==
  [][call.op = "stop" /\ call'.op = "none" /\ held' = "none" /\ up'
       => \A p \in PIDs : proc'[p].who = sup.who => ~proc'[p].run \/ sup.who \in excused \cup Strangers]_vars

-----------------------------------------------------------------------------
(* Said by the code's comments or tests, and not so: see "Known             *)
(* disagreements" in README.md.  No run of the project checks these.       *)

\* identity.go:13 "'a process with this PID exists' is not evidence that it is the process
\* the PID file recorded": a signal is only ever sent to an engine of ours.
OnlyOwnSignalled == call.pc \in {"interrupt", "kill"} => proc[sup.pid].who \notin {Other, Twin}

\* pidfile_test.go:27 "TestRemoveDoesNotDeleteReplacement": no goroutine removes the record
\* of another engine than its own.
ReplacementStays ==
  [][\A g \in 1..MaxGen : waiter[g].pc = "unlink" /\ waiter'[g].pc = "send" => file \notin PIDs \ {waiter[g].pid}]_vars
=============================================================================
