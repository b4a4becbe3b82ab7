------------------------- MODULE SupervisorProofs -------------------------
(* Theorems about Supervisor, for any PIDs and any number of supervisors:    *)
(* whom it signals, that no engine is lost sight of, and what a stop means;  *)
(* with every fault, and whenever the kernel gives out a number again.       *)
EXTENDS Supervisor, TLAPS

Stopping == {"cleanup", "interrupt", "await", "kill", "forget", "unlink"}

\* Which steps a call takes, and what the manager's slot says meanwhile.
Calls ==
  /\ call.op = "none" <=> call.pc = "none"
  /\ call.op = "start" => call.pc \in {"spawn", "write", "ready"} \cup Stopping /\ held = "none"
  /\ call.op = "stop" => call.pc \in {"check"} \cup Stopping /\ held # "none"
  /\ call.op = "recover" => call.pc \in {"read", "probe"} /\ held = "none"
  /\ call.pc \in {"forget", "unlink"} => call.out \in {"ok", "fail"}

\* Between two daemons nothing but the processes and the PID file is left.
Down == ~up => call = NoCall /\ sup = NoSup /\ held = "none" /\ \A g \in 1..MaxGen : waiter[g] = NoWaiter

\* A call past its first step works on a process; before it there is none.
AtWork ==
  /\ call.pc \in {"spawn", "read"} => sup = NoSup /\ gen > 0
  /\ call.pc \in {"write", "ready", "probe"} \cup Stopping => sup.pid # 0
  /\ call.pc = "write" => sup.cmd

\* A supervisor that has started nothing has no goroutine.
Unstarted == \A g \in 1..MaxGen : g > gen \/ (g = gen /\ ~sup.cmd) => waiter[g] = NoWaiter

\* While a goroutine waits its child keeps its number, as a zombie at the end.
Waits ==
  \A g \in 1..MaxGen :
    /\ waiter[g].pc = "none" => waiter[g] = NoWaiter
    /\ waiter[g].pc # "none" => waiter[g].pid \in PIDs
    /\ waiter[g].pc = "wait" => proc[waiter[g].pid].who = g

\* A supervisor's own child is waited for or gone.
Child ==
  sup.cmd =>
    /\ gen \in 1..MaxGen /\ sup.who = gen
    /\ sup.done => waiter[gen].pc = "none"
    /\ sup.pid # 0 =>
         /\ waiter[gen].pc # "none" => waiter[gen].pid = sup.pid
         /\ waiter[gen].pc # "wait" => proc[sup.pid].who \in Strangers

\* The number a supervisor holds is its engine's (or the twin's it was taken for), or
\* nobody's, or a stranger's since.
OwnPID ==
  sup.pid # 0 =>
    /\ sup.who \notin {Nobody, Other}
    /\ proc[sup.pid].who \in {Nobody, sup.who} \/ (sup.lost /\ proc[sup.pid].who \in Strangers)

Identity == TypeOK /\ Calls /\ Down /\ AtWork /\ Unstarted /\ Waits /\ Child /\ OwnPID

\* An engine that must be found again.
Owed(p) == Engine(p) /\ proc[p].who \notin excused

\* While the daemon runs its supervisor knows the engine; the PID file names it
\* as soon as it is written, for the daemon after this one.
SupKnows == up /\ call.pc # "read" => \A p \in PIDs : Owed(p) => p = sup.pid
FileKnows == \A p \in PIDs : Owed(p) => file = p \/ call.pc = "write"

\* Nothing is owed where the slot is free, and where a stop went well.
Quiet ==
  /\ up /\ held = "none" /\ call.pc \in {"none", "spawn"} => \A p \in PIDs : ~Owed(p)
  /\ call.pc \in {"forget", "unlink"} /\ call.out = "ok" => \A p \in PIDs : ~Owed(p)

Accounts == SupKnows /\ FileKnows /\ Quiet
-----------------------------------------------------------------------------
(* Type correctness                                                        *)

ProcOf == [who : Whos, run : BOOLEAN, port : BOOLEAN]
WaiterOf == [pc : {"none", "wait", "read", "unlink", "send"}, pid : PIDs \cup {0}]
SupType == [pid : PIDs \cup {0}, who : Whos, cmd : BOOLEAN, done : BOOLEAN, ready : BOOLEAN,
            lost : BOOLEAN]
Steps == {"none", "spawn", "write", "ready", "check", "cleanup", "interrupt", "await", "kill", "forget", "unlink",
          "read", "probe"}
CallType == [op : {"none", "start", "stop", "recover"}, pc : Steps, out : {"none", "ok", "fail"}]
SlotStates == {"none", "served", "failed", "orphaned"}

\* TypeOK, a variable at a time.
LEMMA TypeParts ==
  TypeOK <=> /\ proc \in [PIDs -> ProcOf] /\ file \in PIDs \cup {Absent, Garbage} /\ gen \in Gens /\ sup \in SupType
             /\ waiter \in [1..MaxGen -> WaiterOf] /\ call \in CallType /\ held \in SlotStates
             /\ up \in BOOLEAN /\ excused \subseteq Whos
BY DEF TypeOK, ProcOf, SupType, WaiterOf, CallType, Steps, SlotStates

LEMMA TypeStep == ASSUME TypeOK, [Next]_vars PROVE TypeOK'
<1>0. /\ proc \in [PIDs -> ProcOf] /\ file \in PIDs \cup {Absent, Garbage} /\ gen \in Gens /\ sup \in SupType
      /\ waiter \in [1..MaxGen -> WaiterOf] /\ call \in CallType /\ held \in SlotStates
      /\ up \in BOOLEAN /\ excused \subseteq Whos
  BY TypeParts
<1> USE PIDsOK
<1>1. proc' \in [PIDs -> ProcOf]
  <2>1. /\ Free \in ProcOf /\ [who |-> gen, run |-> TRUE, port |-> FALSE] \in ProcOf
        /\ \A who \in {Other, Twin}, b \in BOOLEAN : [who |-> who, run |-> TRUE, port |-> b] \in ProcOf
    BY <1>0 DEF Free, ProcOf, Whos, Gens, Nobody, Other, Twin
  <2>2. \A r \in ProcOf : [r EXCEPT !.port = TRUE] \in ProcOf /\ [r EXCEPT !.run = FALSE, !.port = FALSE] \in ProcOf
    BY DEF ProcOf
  <2>3. CASE Spawn
    <3>1. CASE UNCHANGED proc  BY <1>0, <3>1
    <3>2. ASSUME NEW p \in PIDs, proc' = [proc EXCEPT ![p] = [who |-> gen, run |-> TRUE, port |-> FALSE]]
          PROVE  proc' \in [PIDs -> ProcOf]
      BY <1>0, <2>1, <3>2
    <3> QED BY <2>3, <3>1, <3>2 DEF Spawn
  <2>4. ASSUME NEW g \in 1..MaxGen, Reap(g) PROVE proc' \in [PIDs -> ProcOf]  BY <1>0, <2>1, <2>4 DEF Reap
  <2>5. ASSUME NEW p \in PIDs, EngineListens(p) PROVE proc' \in [PIDs -> ProcOf]
    BY <1>0, <2>2, <2>5 DEF EngineListens
  <2>6. ASSUME NEW p \in PIDs, EngineExits(p) PROVE proc' \in [PIDs -> ProcOf]
    BY <1>0, <2>1, <2>2, <2>6 DEF EngineExits
  <2>7. ASSUME NEW p \in PIDs, OtherStarts(p) \/ OtherExits(p) PROVE proc' \in [PIDs -> ProcOf]
    <3>1. CASE OtherExits(p)  BY <1>0, <2>1, <3>1 DEF OtherExits
    <3>2. CASE OtherStarts(p)
      <4>1. PICK who \in {Other, Twin}, b \in BOOLEAN : proc' = [proc EXCEPT ![p] = [who |-> who, run |-> TRUE, port |-> b]]
        BY <3>2 DEF OtherStarts
      <4> QED BY <1>0, <2>1, <4>1
    <3> QED BY <2>7, <3>1, <3>2
  <2>8. CASE Crash  BY <1>0, <2>1, <2>8 DEF Crash
  <2>9. CASE UNCHANGED proc  BY <1>0, <2>9
  <2> QED BY <2>3, <2>4, <2>5, <2>6, <2>7, <2>8, <2>9 DEF Next, CallStep, vars, Launch, StopCall, StatusCall, WritePID,
             WaitReady, StopCheck, Cleanup, Interrupt, Await, Kill, Forget, Unlink, Recover, RecoverProbe,
             WaiterRemove, Report, Restart, AtBound
<1>2. waiter' \in [1..MaxGen -> WaiterOf]
  <2>1. NoWaiter \in WaiterOf /\ \A p \in PIDs : [pc |-> "wait", pid |-> p] \in WaiterOf  BY DEF NoWaiter, WaiterOf
  <2>2. \A r \in WaiterOf, pc \in {"read", "unlink", "send"} : [r EXCEPT !.pc = pc] \in WaiterOf  BY DEF WaiterOf
  <2>3. CASE Spawn  BY <1>0, <2>1, <2>3 DEF Spawn
  <2>4. ASSUME NEW g \in 1..MaxGen, Reap(g) \/ WaiterRemove(g) \/ Report(g) PROVE waiter' \in [1..MaxGen -> WaiterOf]
    <3>1. PICK w \in WaiterOf : waiter' = [waiter EXCEPT ![g] = w]
      <4>1. CASE Reap(g)  BY <1>0, <2>2, <4>1 DEF Reap
      <4>2. CASE WaiterRemove(g)  BY <1>0, <2>2, <4>2 DEF WaiterRemove
      <4>3. CASE Report(g)  BY <2>1, <4>3 DEF Report
      <4> QED BY <2>4, <4>1, <4>2, <4>3
    <3> QED BY <1>0, <3>1
  <2>5. CASE Crash  BY <2>1, <2>5 DEF Crash
  <2>6. CASE UNCHANGED waiter  BY <1>0, <2>6
  <2> QED BY <2>3, <2>4, <2>5, <2>6 DEF Next, CallStep, vars, Launch, StopCall, StatusCall, WritePID, WaitReady,
             StopCheck, Cleanup, Interrupt, Await, Kill, Forget, Unlink, Recover, RecoverProbe, Restart, AtBound,
             EngineListens, EngineExits, OtherStarts, OtherExits
<1>3. sup' \in SupType
  <2>1. NoSup \in SupType /\ Consumed \in SupType
    <3>1. NoSup \in SupType  BY DEF SupType, NoSup, Whos, Gens, Nobody
    <3>2. Consumed \in SupType  BY <1>0 DEF SupType, Consumed
    <3> QED BY <3>1, <3>2
  <2>2. CASE Launch \/ Restart \/ Crash  BY <2>1, <2>2 DEF Launch, Restart, Crash
  <2>3. CASE Spawn
    <3>1. \A p \in PIDs : [NoSup EXCEPT !.pid = p, !.who = gen, !.cmd = TRUE] \in SupType
      BY <1>0 DEF NoSup, SupType, Whos
    <3> QED BY <1>0, <2>3, <3>1 DEF Spawn
  <2>4. CASE WaitReady \/ StopCheck \/ Cleanup \/ StatusCall
    <3>1. sup' \in {sup, Consumed, [sup EXCEPT !.ready = TRUE]}
      BY <2>4 DEF WaitReady, StopCheck, Cleanup, StatusCall
    <3>2. [sup EXCEPT !.ready = TRUE] \in SupType  BY <1>0 DEF SupType
    <3> QED BY <1>0, <2>1, <3>1, <3>2
  <2>5. CASE Await \/ Forget \/ Unlink \/ RecoverProbe
    BY <1>0, <2>5 DEF Await, Forget, Unlink, Forgotten, RecoverProbe, SupType
  <2>6. CASE Recover
    <3>1. sup' = sup \/ (file \in PIDs /\ sup' = [NoSup EXCEPT !.pid = file, !.who = proc[file].who])
      BY <2>6 DEF Recover
    <3> QED BY <1>0, <3>1 DEF SupType, ProcOf, NoSup
  <2>9. ASSUME NEW p \in PIDs, OtherStarts(p) PROVE sup' \in SupType  BY <1>0, <2>9 DEF OtherStarts, SupType
  <2>7. ASSUME NEW g \in 1..MaxGen, Report(g) PROVE sup' \in SupType  BY <1>0, <2>7 DEF Report, SupType
  <2>8. CASE UNCHANGED sup  BY <1>0, <2>8
  <2> QED BY <2>2, <2>3, <2>4, <2>5, <2>6, <2>7, <2>8, <2>9 DEF Next, CallStep, vars, StopCall, WritePID, Interrupt, Kill,
             AtBound, Reap, WaiterRemove, EngineListens, EngineExits, OtherExits
<1>4. call' \in CallType
  <2>1. NoCall \in CallType /\ \A pc \in Steps : [call EXCEPT !.pc = pc] \in CallType
    BY <1>0 DEF CallType, NoCall, Steps
  <2>2. \A out \in {"ok", "fail"} : [call EXCEPT !.pc = "forget", !.out = out] \in CallType
    BY <1>0 DEF CallType, Steps
  <2>3. CASE Launch \/ StopCall \/ Restart \/ Crash
    BY <2>1, <2>3 DEF Launch, StopCall, Restart, Crash, CallType, Steps
  <2>4. CASE Spawn \/ WritePID \/ WaitReady \/ StopCheck
    BY <2>1, <2>4 DEF Spawn, WritePID, WaitReady, StopCheck, Return, Goto, Steps
  <2>5. CASE Cleanup \/ Interrupt \/ Await \/ Kill
    BY <2>1, <2>2, <2>5 DEF Cleanup, Interrupt, Await, Kill, Goto, Steps
  <2>6. CASE Forget \/ Unlink \/ Recover \/ RecoverProbe
    BY <2>1, <2>6 DEF Forget, Unlink, Forgotten, Recover, RecoverProbe, Return, Goto, Steps
  <2>7. CASE UNCHANGED call  BY <1>0, <2>7
  <2> QED BY <2>3, <2>4, <2>5, <2>6, <2>7 DEF Next, CallStep, vars, StatusCall, AtBound, Reap, WaiterRemove, Report,
             EngineListens, EngineExits, OtherStarts, OtherExits
<1> DEFINE Rest == /\ file' \in PIDs \cup {Absent, Garbage} /\ gen' \in Gens /\ up' \in BOOLEAN
                   /\ held' \in SlotStates /\ excused' \subseteq Whos
<1>5. Rest
  <2> USE <1>0 DEF Gens, Whos, Strangers, Absent, Garbage, Return, ProcOf, SupType, SlotStates
  <2>1. CASE Launch \/ Restart \/ Crash
    <3>1. CASE Launch \/ Restart
      <4>1. gen' = gen + 1 /\ gen < MaxGen /\ UNCHANGED <<file, held, excused>> /\ up' \in BOOLEAN
        BY <3>1 DEF Launch, Restart
      <4> QED BY <4>1
    <3>2. CASE Crash  BY <3>2 DEF Crash
    <3> QED BY <2>1, <3>1, <3>2
  <2>2. CASE Spawn \/ WritePID \/ WaitReady \/ StopCheck \/ Cleanup \/ Interrupt
    BY <2>2 DEF Spawn, WritePID, WaitReady, StopCheck, Cleanup, Interrupt
  <2>3. CASE Await \/ Kill \/ Forget \/ Unlink \/ RecoverProbe
    BY <2>3 DEF Await, Kill, Forget, Unlink, Forgotten, RecoverProbe
  <2>4. CASE Recover
    <3>1. file \in PIDs => proc[file].who \in Whos  OBVIOUS
    <3> QED BY <2>4, <3>1 DEF Recover
  <2>5. CASE StopCall \/ StatusCall \/ AtBound \/ UNCHANGED vars  BY <2>5 DEF StopCall, StatusCall, AtBound, vars
  <2>6. ASSUME NEW g \in 1..MaxGen, Reap(g) \/ WaiterRemove(g) \/ Report(g) PROVE Rest
    <3>1. {proc[p].who : p \in PIDs \cap {file}} \subseteq Whos  OBVIOUS
    <3> QED BY <2>6, <3>1 DEF Reap, WaiterRemove, Report
  <2>7. ASSUME NEW p \in PIDs, EngineListens(p) \/ EngineExits(p) \/ OtherStarts(p) \/ OtherExits(p) PROVE Rest
    BY <2>7 DEF EngineListens, EngineExits, OtherStarts, OtherExits
  <2> QED BY <2>1, <2>2, <2>3, <2>4, <2>5, <2>6, <2>7 DEF Next, CallStep
<1>6. TypeOK' <=> /\ proc' \in [PIDs -> ProcOf] /\ file' \in PIDs \cup {Absent, Garbage} /\ gen' \in Gens
                  /\ sup' \in SupType /\ waiter' \in [1..MaxGen -> WaiterOf] /\ call' \in CallType
                  /\ held' \in SlotStates /\ up' \in BOOLEAN /\ excused' \subseteq Whos
  BY DEF TypeOK, ProcOf, SupType, WaiterOf, CallType, Steps, SlotStates
<1> QED BY <1>1, <1>2, <1>3, <1>4, <1>5, <1>6

-----------------------------------------------------------------------------
(* Whose process is whose                                                   *)

LEMMA IdentityStep == ASSUME Identity, [Next]_vars PROVE Identity'
<1>0. TypeOK /\ TypeOK'  BY TypeStep DEF Identity
<1>a. /\ proc \in [PIDs -> ProcOf] /\ gen \in Gens /\ sup \in SupType /\ waiter \in [1..MaxGen -> WaiterOf]
      /\ call \in CallType /\ file \in PIDs \cup {Absent, Garbage} /\ held \in SlotStates /\ up \in BOOLEAN
  BY <1>0, TypeParts
<1>b. gen \in Nat /\ MaxGen \in Nat /\ 0 \notin PIDs  BY <1>a, PIDsOK DEF Gens
<1>c. Calls /\ Down /\ AtWork /\ Unstarted /\ Waits /\ Child /\ OwnPID  BY DEF Identity
<1> DEFINE Keeps == Calls' /\ Down' /\ AtWork' /\ Unstarted' /\ Waits' /\ Child' /\ OwnPID'
<1> USE <1>a, <1>b, <1>c
    DEF NoSup, NoCall, NoWaiter, Nobody, Other, Twin, Strangers, Whos, Return, Goto, Alive, Free, SupType, CallType, WaiterOf,
        ProcOf, Stopping
<1>1. ASSUME Launch PROVE Keeps
  <2>0. Calls' /\ Down'  BY <1>1 DEF Launch, Calls, Down
  <2>1. AtWork'  BY <1>1 DEF Launch, AtWork
  <2>2. Unstarted' /\ Waits'  BY <1>1 DEF Launch, Unstarted, Waits
  <2>3. Child' /\ OwnPID'  BY <1>1 DEF Launch, Child, OwnPID
  <2> QED BY <2>0, <2>1, <2>2, <2>3
<1>2. ASSUME StopCall PROVE Keeps
  <2>1. Calls' /\ Down' /\ AtWork'  BY <1>2 DEF StopCall, Calls, Down, AtWork
  <2>2. Unstarted' /\ Waits'  BY <1>2 DEF StopCall, Unstarted, Waits
  <2>3. Child' /\ OwnPID'  BY <1>2 DEF StopCall, Child, OwnPID
  <2> QED BY <2>1, <2>2, <2>3
<1>3. ASSUME StatusCall PROVE Keeps
  <2>1. Calls' /\ Down' /\ AtWork'  BY <1>3 DEF StatusCall, Consumed, Calls, Down, AtWork
  <2>2. Unstarted' /\ Waits'  BY <1>3 DEF StatusCall, Consumed, Unstarted, Waits
  <2>3. Child' /\ OwnPID'  BY <1>3 DEF StatusCall, Consumed, Child, OwnPID
  <2> QED BY <2>1, <2>2, <2>3
<1>4. ASSUME Spawn PROVE Keeps
  <2>1. CASE call' = NoCall /\ UNCHANGED <<proc, sup, waiter, gen, up>> /\ held' = "none"
    BY <2>1 DEF Calls, Down, AtWork, Unstarted, Waits, Child, OwnPID
  <2>2. ASSUME NEW p \in PIDs, ~Alive(p),
               proc' = [proc EXCEPT ![p] = [who |-> gen, run |-> TRUE, port |-> FALSE]],
               sup' = [pid |-> p, who |-> gen, cmd |-> TRUE, done |-> FALSE, ready |-> FALSE, lost |-> FALSE],
               waiter' = [waiter EXCEPT ![gen] = [pc |-> "wait", pid |-> p]],
               call.pc = "spawn", Goto("write"), UNCHANGED <<gen, held, up>>
        PROVE  Keeps
    <3>1. gen \in 1..MaxGen  BY <2>2 DEF AtWork, Gens
    <3>2. ~Alive(p)  BY <2>2
    <3>3. Calls' /\ Down' /\ AtWork'  BY <2>2, <3>1 DEF Calls, Down, AtWork
    <3>4. Unstarted' /\ Waits'  BY <2>2, <3>1, <3>2 DEF Unstarted, Waits
    <3>5. Child' /\ OwnPID'  BY <2>2, <3>1 DEF Child, OwnPID
    <3> QED BY <3>3, <3>4, <3>5
  <2> QED BY <1>4, <2>1, <2>2 DEF Spawn
<1>5. ASSUME WritePID PROVE Keeps
  <2>1. Calls' /\ Down' /\ AtWork'  BY <1>5 DEF WritePID, Calls, Down, AtWork
  <2>2. Unstarted' /\ Waits'  BY <1>5 DEF WritePID, Unstarted, Waits
  <2>3. Child' /\ OwnPID'  BY <1>5 DEF WritePID, Child, OwnPID
  <2> QED BY <2>1, <2>2, <2>3
<1>6. ASSUME WaitReady PROVE Keeps
  <2>0. Calls' /\ Down'  BY <1>6 DEF WaitReady, Consumed, IsRunning, Calls, Down
  <2>1. AtWork'
    <3>1. sup'.pid = sup.pid  BY <1>6 DEF WaitReady, Consumed
    <3>2. call'.pc \in {"cleanup", "none"}  BY <1>6 DEF WaitReady
    <3> QED BY <1>6, <3>1, <3>2 DEF WaitReady, AtWork
  <2>2. Unstarted' /\ Waits'  BY <1>6 DEF WaitReady, Consumed, IsRunning, Unstarted, Waits
  <2>3. Child' /\ OwnPID'
    <3>1. Child'  BY <1>6 DEF WaitReady, Consumed, IsRunning, Child
    <3>2. OwnPID'
      <4>1. sup'.pid = sup.pid /\ sup'.who = sup.who /\ sup'.lost = sup.lost /\ proc' = proc  BY <1>6 DEF WaitReady, Consumed
      <4> QED BY <4>1 DEF OwnPID
    <3> QED BY <3>1, <3>2
  <2> QED BY <2>0, <2>1, <2>2, <2>3
<1>7. ASSUME StopCheck PROVE Keeps
  <2>1. Calls' /\ Down' /\ AtWork'  BY <1>7 DEF StopCheck, Consumed, IsRunning, Calls, Down, AtWork
  <2>2. Unstarted' /\ Waits'  BY <1>7 DEF StopCheck, Consumed, IsRunning, Unstarted, Waits
  <2>3. Child' /\ OwnPID'
    <3>1. Child'  BY <1>7 DEF StopCheck, Consumed, IsRunning, Child
    <3>2. OwnPID'
      <4>1. sup'.pid = sup.pid /\ sup'.who = sup.who /\ sup'.lost = sup.lost /\ proc' = proc  BY <1>7 DEF StopCheck, Consumed
      <4> QED BY <4>1 DEF OwnPID
    <3> QED BY <3>1, <3>2
  <2> QED BY <2>1, <2>2, <2>3
<1>8. ASSUME Cleanup PROVE Keeps
  <2>0. Calls' /\ Down'
    <3>1. Calls'  BY <1>8 DEF Cleanup, Calls
    <3>2. Down'  BY <1>8 DEF Cleanup, Down
    <3> QED BY <3>1, <3>2
  <2>1. AtWork'  BY <1>8 DEF Cleanup, Consumed, IsRunning, AtWork
  <2>2. Unstarted' /\ Waits'  BY <1>8 DEF Cleanup, Consumed, IsRunning, Unstarted, Waits
  <2>3. Child' /\ OwnPID'
    <3>1. Child'  BY <1>8 DEF Cleanup, Consumed, IsRunning, Child
    <3>2. OwnPID'
      <4>1. sup'.pid = sup.pid /\ sup'.who = sup.who /\ sup'.lost = sup.lost /\ proc' = proc  BY <1>8 DEF Cleanup, Consumed
      <4> QED BY <4>1 DEF OwnPID
    <3> QED BY <3>1, <3>2
  <2> QED BY <2>0, <2>1, <2>2, <2>3
<1>9. ASSUME Interrupt PROVE Keeps
  <2>0. Calls' /\ Down'
    <3>1. Calls'  BY <1>9 DEF Interrupt, Calls
    <3>2. Down'  BY <1>9 DEF Interrupt, Down
    <3> QED BY <3>1, <3>2
  <2>1. AtWork'  BY <1>9 DEF Interrupt, AtWork
  <2>2. Unstarted' /\ Waits'  BY <1>9 DEF Interrupt, Unstarted, Waits
  <2>3. Child' /\ OwnPID'  BY <1>9 DEF Interrupt, Child, OwnPID
  <2> QED BY <2>0, <2>1, <2>2, <2>3
<1>10. ASSUME Await PROVE Keeps
  <2>0. Calls' /\ Down'
    <3>1. Calls'  BY <1>10 DEF Await, Calls
    <3>2. Down'  BY <1>10 DEF Await, Down
    <3> QED BY <3>1, <3>2
  <2>1. AtWork'  BY <1>10 DEF Await, AtWork
  <2>2. Unstarted' /\ Waits'  BY <1>10 DEF Await, Unstarted, Waits
  <2>3. Child' /\ OwnPID'  BY <1>10 DEF Await, Child, OwnPID
  <2> QED BY <2>0, <2>1, <2>2, <2>3
<1>11. ASSUME Kill PROVE Keeps
  <2>1. Calls' /\ Down' /\ AtWork'  BY <1>11 DEF Kill, Calls, Down, AtWork
  <2>2. Unstarted' /\ Waits'  BY <1>11 DEF Kill, Unstarted, Waits
  <2>3. Child' /\ OwnPID'  BY <1>11 DEF Kill, Child, OwnPID
  <2> QED BY <2>1, <2>2, <2>3
<1>12. ASSUME Forget PROVE Keeps
  <2>1. Calls' /\ Down' /\ AtWork'  BY <1>12 DEF Forget, Forgotten, Calls, Down, AtWork
  <2>2. Unstarted' /\ Waits'
    <3>1. Unstarted'  BY <1>12 DEF Forget, Forgotten, Unstarted
    <3>2. Waits'  BY <1>12 DEF Forget, Forgotten, Waits
    <3> QED BY <3>1, <3>2
  <2>3. Child' /\ OwnPID'
    <3>1. sup' = sup \/ (sup'.pid = 0 /\ sup'.cmd = sup.cmd /\ sup'.who = sup.who /\ sup'.done = sup.done)
      BY <1>12 DEF Forget, Forgotten
    <3>2. UNCHANGED <<proc, gen, waiter>>  BY <1>12 DEF Forget
    <3> QED BY <3>1, <3>2 DEF Child, OwnPID
  <2> QED BY <2>1, <2>2, <2>3
<1>13. ASSUME Unlink PROVE Keeps
  <2>1. Calls' /\ Down' /\ AtWork'  BY <1>13 DEF Unlink, Forgotten, Calls, Down, AtWork
  <2>2. Unstarted' /\ Waits'  BY <1>13 DEF Unlink, Forgotten, Unstarted, Waits
  <2>3. Child' /\ OwnPID'  BY <1>13 DEF Unlink, Forgotten, Child, OwnPID
  <2> QED BY <2>1, <2>2, <2>3
<1>14. ASSUME Recover PROVE Keeps
  <2>0. Calls' /\ Down'  BY <1>14 DEF Recover, Calls, Down
  <2>a. sup.pid = 0 /\ ~sup.cmd  BY <1>14 DEF Recover, AtWork
  <2>b. \/ sup' = sup /\ call' = NoCall
        \/ /\ file \in PIDs /\ proc[file].who \notin {Nobody, Other} /\ call' = [call EXCEPT !.pc = "probe"]
           /\ sup' = [NoSup EXCEPT !.pid = file, !.who = proc[file].who]
    BY <1>14 DEF Recover
  <2>1. AtWork'
    <3>1. CASE call' = NoCall  BY <3>1 DEF AtWork
    <3>2. CASE call' = [call EXCEPT !.pc = "probe"] /\ sup'.pid = file /\ file \in PIDs
      <4>1. call'.pc = "probe"  BY <3>2
      <4> QED BY <3>2, <4>1 DEF AtWork
    <3>3. sup' = [NoSup EXCEPT !.pid = file, !.who = proc[file].who] => sup'.pid = file  OBVIOUS
    <3> QED BY <2>b, <3>1, <3>2, <3>3
  <2>2. Unstarted' /\ Waits'  BY <1>14 DEF Recover, Unstarted, Waits, AtWork
  <2>3. Child' /\ OwnPID'
    <3>1. ~sup'.cmd  BY <2>a, <2>b
    <3>2. sup'.pid # 0 => sup'.pid = file /\ file \in PIDs /\ sup'.who = proc[file].who /\ sup'.who \notin {Nobody, Other}
      BY <2>a, <2>b
    <3> QED BY <1>14, <3>1, <3>2 DEF Recover, Child, OwnPID
  <2> QED BY <2>0, <2>1, <2>2, <2>3
<1>15. ASSUME RecoverProbe PROVE Keeps
  <2>1. Calls' /\ Down' /\ AtWork'  BY <1>15 DEF RecoverProbe, Calls, Down, AtWork
  <2>2. Unstarted' /\ Waits'  BY <1>15 DEF RecoverProbe, Unstarted, Waits
  <2>3. Child' /\ OwnPID'  BY <1>15 DEF RecoverProbe, Child, OwnPID
  <2> QED BY <2>1, <2>2, <2>3
<1>16. ASSUME Crash PROVE Keeps
  <2>1. Calls' /\ Down' /\ AtWork'  BY <1>16 DEF Crash, Calls, Down, AtWork
  <2>2. Unstarted' /\ Waits'  BY <1>16 DEF Crash, Unstarted, Waits
  <2>3. Child' /\ OwnPID'  BY <1>16 DEF Crash, Child, OwnPID
  <2> QED BY <2>1, <2>2, <2>3
<1>17. ASSUME Restart PROVE Keeps
  <2>0. Calls' /\ Down'  BY <1>17 DEF Restart, Calls, Down
  <2>1. AtWork'  BY <1>17 DEF Restart, AtWork
  <2>2. Unstarted' /\ Waits'  BY <1>17 DEF Restart, Unstarted, Waits
  <2>3. Child' /\ OwnPID'  BY <1>17 DEF Restart, Child, OwnPID
  <2> QED BY <2>0, <2>1, <2>2, <2>3
<1>18. ASSUME NEW g \in 1..MaxGen, Reap(g) PROVE Keeps
  <2>1. Calls' /\ Down' /\ AtWork'  BY <1>18 DEF Reap, Calls, Down, AtWork
  <2>2. Unstarted' /\ Waits'  BY <1>18 DEF Reap, Unstarted, Waits
  <2>3. Child' /\ OwnPID'  BY <1>18 DEF Reap, Child, OwnPID
  <2> QED BY <2>1, <2>2, <2>3
<1>19. ASSUME NEW g \in 1..MaxGen, WaiterRemove(g) PROVE Keeps
  <2>1. Calls' /\ Down' /\ AtWork'  BY <1>19 DEF WaiterRemove, Calls, Down, AtWork
  <2>2. Unstarted' /\ Waits'
    <3>1. Unstarted'  BY <1>19 DEF WaiterRemove, Unstarted
    <3>2. Waits'
      <4>1. \A h \in 1..MaxGen \ {g} : waiter'[h] = waiter[h]  BY <1>19 DEF WaiterRemove
      <4>2. /\ waiter[g].pc \in {"read", "unlink"} /\ waiter'[g].pc \in {"unlink", "send"}
            /\ waiter'[g].pid = waiter[g].pid /\ proc' = proc
        BY <1>19 DEF WaiterRemove
      <4> QED BY <4>1, <4>2 DEF Waits
    <3> QED BY <3>1, <3>2
  <2>3. Child' /\ OwnPID'
    <3>1. \A h \in 1..MaxGen :
            /\ waiter'[h].pid = waiter[h].pid
            /\ waiter'[h].pc # waiter[h].pc =>
                 waiter[h].pc \in {"read", "unlink"} /\ waiter'[h].pc \in {"unlink", "send"}
      <4>1. PICK pc \in {"unlink", "send"} : waiter' = [waiter EXCEPT ![g].pc = pc]  BY <1>19 DEF WaiterRemove
      <4> QED BY <1>19, <4>1 DEF WaiterRemove
    <3> QED BY <1>19, <3>1 DEF WaiterRemove, Child, OwnPID
  <2> QED BY <2>1, <2>2, <2>3
<1>20. ASSUME NEW g \in 1..MaxGen, Report(g) PROVE Keeps
  <2>0. Calls' /\ Down'  BY <1>20 DEF Report, Calls, Down
  <2>1. AtWork'
    <3>1. gen = g => sup.cmd  BY <1>20 DEF Report, Unstarted
    <3>2. sup'.pid = sup.pid /\ sup'.cmd = sup.cmd /\ (sup.cmd \/ sup' = sup)  BY <1>20, <3>1 DEF Report
    <3>3. call' = call /\ gen' = gen  BY <1>20 DEF Report
    <3> QED BY <3>2, <3>3 DEF AtWork
  <2>2. Unstarted' /\ Waits'  BY <1>20 DEF Report, Unstarted, Waits
  <2>3. Child' /\ OwnPID'  BY <1>20 DEF Report, Child, OwnPID
  <2> QED BY <2>0, <2>1, <2>2, <2>3
<1>21. ASSUME NEW p \in PIDs, EngineListens(p) PROVE Keeps
  <2>1. Calls' /\ Down' /\ AtWork'  BY <1>21 DEF EngineListens, Engine, Calls, Down, AtWork
  <2>2. Unstarted' /\ Waits'  BY <1>21 DEF EngineListens, Engine, Unstarted, Waits
  <2>3. Child' /\ OwnPID'  BY <1>21 DEF EngineListens, Engine, Child, OwnPID
  <2> QED BY <2>1, <2>2, <2>3
<1>22. ASSUME NEW p \in PIDs, EngineExits(p) PROVE Keeps
  <2>1. Calls' /\ Down' /\ AtWork'  BY <1>22 DEF EngineExits, Engine, Calls, Down, AtWork
  <2>2. Unstarted' /\ Waits'  BY <1>22 DEF EngineExits, Engine, Unstarted, Waits
  <2>3. Child' /\ OwnPID'  BY <1>22 DEF EngineExits, Engine, Child, OwnPID
  <2> QED BY <2>1, <2>2, <2>3
<1>23. ASSUME NEW p \in PIDs, OtherStarts(p) PROVE Keeps
  <2>0. Calls' /\ Down'
    <3>1. p = sup.pid => up  BY DEF Down
    <3>2. UNCHANGED <<waiter, call, held, up>> /\ (sup' = sup \/ p = sup.pid)  BY <1>23 DEF OtherStarts
    <3> QED BY <3>1, <3>2 DEF Calls, Down
  <2>1. Calls' /\ Down' /\ AtWork'
    <3>1. UNCHANGED <<call, gen>> /\ (sup' = sup \/ (sup.pid # 0 /\ sup'.pid = sup.pid /\ sup'.cmd = sup.cmd))
      BY <1>23 DEF OtherStarts
    <3> QED BY <2>0, <3>1 DEF AtWork
  <2>2. Unstarted' /\ Waits'  BY <1>23 DEF OtherStarts, Down, Unstarted, Waits
  <2>3. Child' /\ OwnPID'  BY <1>23 DEF OtherStarts, Down, Child, OwnPID
  <2> QED BY <2>1, <2>2, <2>3
<1>24. ASSUME NEW p \in PIDs, OtherExits(p) PROVE Keeps
  <2>1. Calls' /\ Down' /\ AtWork'  BY <1>24 DEF OtherExits, Calls, Down, AtWork
  <2>2. Unstarted' /\ Waits'  BY <1>24 DEF OtherExits, Unstarted, Waits
  <2>3. Child' /\ OwnPID'  BY <1>24 DEF OtherExits, Child, OwnPID
  <2> QED BY <2>1, <2>2, <2>3
<1>25. ASSUME AtBound \/ UNCHANGED vars PROVE Keeps
  BY <1>25 DEF AtBound, vars, Calls, Down, AtWork, Unstarted, Waits, Child, OwnPID
<1> QED BY <1>0, <1>1, <1>2, <1>3, <1>4, <1>5, <1>6, <1>7, <1>8, <1>9, <1>10, <1>11, <1>12, <1>13,
           <1>14, <1>15, <1>16, <1>17, <1>18, <1>19, <1>20, <1>21, <1>22, <1>23, <1>24, <1>25 DEF Next, CallStep, Identity
-----------------------------------------------------------------------------
(* The engine is found again                                               *)

\* A process that isRunning denies is no engine anybody is owed.
LEMMA NotRunning ==
  ASSUME Identity, SupKnows, up, call.pc # "read", ~IsRunning PROVE \A p \in PIDs : ~Owed(p)
<1>1. sup \in SupType /\ gen \in Gens /\ PIDs \subseteq Nat \ {0}  BY TypeParts, PIDsOK DEF Identity
<1>2. sup.pid # 0 /\ sup.cmd /\ sup.done => proc[sup.pid].who \in Strangers  BY <1>1 DEF Identity, Child
<1>3. sup.pid # 0 => proc[sup.pid].who \in Strangers
  BY <1>1, <1>2 DEF IsRunning, SupType, Alive, Strangers
<1> QED BY <1>1, <1>3 DEF SupKnows, Owed, Engine, Strangers, Nobody, Other, Twin

\* Where nothing is owed any more, nothing can be forgotten.
LEMMA NothingOwed == ASSUME \A p \in PIDs : ~Owed(p)' PROVE Accounts'
BY DEF Accounts, SupKnows, FileKnows, Quiet

LEMMA AccountsStep == ASSUME Identity, Accounts, [Next]_vars PROVE Accounts'
<1>a. /\ proc \in [PIDs -> ProcOf] /\ gen \in Gens /\ sup \in SupType /\ waiter \in [1..MaxGen -> WaiterOf]
      /\ call \in CallType /\ file \in PIDs \cup {Absent, Garbage} /\ held \in SlotStates /\ up \in BOOLEAN
  BY TypeParts DEF Identity
<1>b. gen \in Nat /\ MaxGen \in Nat /\ PIDs \subseteq Nat \ {0}  BY <1>a, PIDsOK DEF Gens
<1>c. Calls /\ Down /\ AtWork /\ Unstarted /\ Waits /\ Child /\ OwnPID  BY DEF Identity
<1>d. SupKnows /\ FileKnows /\ Quiet  BY DEF Accounts
<1>e. ASSUME UNCHANGED <<proc, excused>> PROVE \A p \in PIDs : Owed(p)' <=> Owed(p)  BY <1>e DEF Owed, Engine
<1>f. call.op # "none" => up  BY <1>c DEF Down, NoCall
<1>g. call.pc # "none" => call.op # "none"  BY <1>c DEF Calls
<1>h. /\ call.pc \in {"spawn", "write", "ready"} => call.op = "start" /\ held = "none"
      /\ call.pc = "check" => call.op = "stop" /\ held # "none"
      /\ call.pc \in {"read", "probe"} => call.op = "recover" /\ held = "none"
      /\ call.op = "none" => call.pc = "none"
  BY <1>a, <1>c DEF Calls, CallType, Stopping
<1>j. sup.pid # 0 => sup.pid \in PIDs  BY <1>a DEF SupType
<1>k. Consumed.pid = sup.pid  BY <1>a DEF Consumed, SupType
<1>l. \A p \in PIDs : Owed(p) => proc[p].who > 0 /\ proc[p].who \notin Strangers
  BY DEF Owed, Engine, Strangers, Nobody, Other, Twin
<1> USE DEF Accounts
<1>1. CASE Launch
  <2>1. \A p \in PIDs : ~Owed(p)  BY <1>1, <1>d, <1>h DEF Launch, Quiet
  <2> QED BY <1>1, <1>e, <2>1, NothingOwed DEF Launch
<1>2. CASE StopCall
  <2>1. call.pc = "none"  BY <1>2, <1>h DEF StopCall
  <2> QED BY <1>2, <1>d, <1>e, <2>1 DEF StopCall, SupKnows, FileKnows, Quiet
<1>3. CASE StatusCall
  <2>1. call.pc = "none" /\ up  BY <1>3, <1>h DEF StatusCall
  <2>2. CASE IsRunning
    <3>1. UNCHANGED <<proc, file, call, held, up, excused>> /\ sup'.pid = sup.pid  BY <1>3, <1>k, <2>2 DEF StatusCall
    <3> QED BY <1>d, <1>e, <3>1 DEF SupKnows, FileKnows, Quiet
  <2>3. CASE ~IsRunning
    <3>1. \A p \in PIDs : ~Owed(p)  BY <1>d, <2>1, <2>3, NotRunning
    <3> QED BY <1>3, <1>e, <3>1, NothingOwed DEF StatusCall
  <2> QED BY <2>2, <2>3
<1>4. CASE Spawn
  <2>1. /\ call.pc = "spawn" /\ call.op = "start" /\ held = "none" /\ up /\ \A p \in PIDs : ~Owed(p)
    BY <1>4, <1>d, <1>f, <1>h DEF Spawn, Quiet
  <2>2. CASE UNCHANGED <<proc, excused>>  BY <1>e, <2>1, <2>2, NothingOwed
  <2>3. ASSUME NEW p \in PIDs, proc' = [proc EXCEPT ![p] = [who |-> gen, run |-> TRUE, port |-> FALSE]],
               sup' = [NoSup EXCEPT !.pid = p, !.who = gen, !.cmd = TRUE],
               Goto("write"), UNCHANGED <<file, gen, held, up, excused>>
        PROVE  Accounts'
    <3>1. call'.pc = "write" /\ sup'.pid = p  BY <1>a, <2>3 DEF Goto, CallType, NoSup
    <3>2. \A q \in PIDs : Owed(q)' => q = p  BY <1>a, <2>1, <2>3 DEF Owed, Engine
    <3> QED BY <3>1, <3>2 DEF SupKnows, FileKnows, Quiet
  <2> QED BY <1>4, <2>2, <2>3 DEF Spawn
<1>5. CASE WritePID
  <2>1. /\ call.pc = "write" /\ up /\ sup.pid \in PIDs /\ sup.who = gen
        /\ \A p \in PIDs : Owed(p) => p = sup.pid
    BY <1>5, <1>a, <1>c, <1>d, <1>f, <1>h, <1>j DEF WritePID, AtWork, Child, SupKnows
  <2>2. UNCHANGED <<proc, gen, sup, waiter, held, up>>  BY <1>5 DEF WritePID
  <2>3. CASE file' = sup.pid /\ Goto("ready") /\ UNCHANGED excused
    <3>1. call'.pc = "ready"  BY <1>a, <2>3 DEF Goto, CallType
    <3> QED BY <1>e, <2>1, <2>2, <2>3, <3>1 DEF SupKnows, FileKnows, Quiet
  <2>4. CASE excused' = excused \cup {gen}
    <3>1. ASSUME NEW p \in PIDs, Owed(p) PROVE proc[p].who = gen
      BY <1>b, <1>c, <1>l, <2>1, <3>1 DEF OwnPID, Strangers
    <3> QED BY <2>2, <2>4, <3>1, NothingOwed DEF Owed, Engine
  <2> QED BY <1>5, <2>3, <2>4 DEF WritePID
<1>6. CASE WaitReady
  <2>1. call.pc = "ready" /\ up /\ sup'.pid = sup.pid /\ UNCHANGED <<proc, file, gen, waiter, up, excused>>
    BY <1>6, <1>a, <1>f, <1>h, <1>k DEF WaitReady, SupType
  <2>2. call'.pc = "cleanup" \/ (call'.pc = "none" /\ held' # "none")
    BY <1>6, <1>a DEF WaitReady, Goto, Return, NoCall, CallType
  <2> QED BY <1>d, <1>e, <2>1, <2>2 DEF SupKnows, FileKnows, Quiet
<1>7. CASE StopCheck
  <2>1. call.pc = "check" /\ up /\ sup'.pid = sup.pid /\ UNCHANGED <<proc, file, gen, waiter, up, excused>>
    BY <1>7, <1>f, <1>h, <1>k DEF StopCheck
  <2>2. CASE IsRunning /\ Goto("cleanup") /\ held' = held
    <3>1. call'.pc = "cleanup"  BY <1>a, <2>2 DEF Goto, CallType
    <3> QED BY <1>d, <1>e, <2>1, <3>1 DEF SupKnows, FileKnows, Quiet
  <2>3. CASE ~IsRunning
    <3>1. \A p \in PIDs : ~Owed(p)  BY <1>d, <2>1, <2>3, NotRunning
    <3> QED BY <1>e, <2>1, <3>1, NothingOwed
  <2> QED BY <1>7, <2>2, <2>3 DEF StopCheck
<1>8. CASE Cleanup \/ Interrupt \/ Await \/ Kill
  <2>1. /\ call.pc \in Stopping \ {"forget", "unlink"} /\ up
        /\ sup'.pid = sup.pid /\ UNCHANGED <<proc, file, gen, waiter, held, up, excused>>
    BY <1>8, <1>a, <1>f, <1>g, <1>k DEF Cleanup, Interrupt, Await, Kill, Stopping, SupType
  <2>2. call'.pc \in Stopping \ {"unlink"}
    BY <1>8, <1>a DEF Cleanup, Interrupt, Await, Kill, Stopping, Goto, CallType
  <2>3. SupKnows' /\ FileKnows'  BY <1>d, <1>e, <2>1, <2>2 DEF SupKnows, FileKnows, Stopping
  <2>4. ASSUME call'.pc = "forget", call'.out = "ok" PROVE \A p \in PIDs : ~Owed(p)
    <3>1. CASE Cleanup /\ ~IsRunning  BY <1>d, <2>1, <3>1, NotRunning DEF Stopping
    <3>2. CASE Await /\ IF sup.cmd THEN sup.done ELSE ~Alive(sup.pid)
      <4>1. sup.pid # 0  BY <1>c, <3>2 DEF Await, AtWork, Stopping
      <4>2. proc[sup.pid].who \in Strangers  BY <1>a, <1>c, <3>2, <4>1 DEF Child, SupType, Alive, Strangers
      <4> QED BY <1>d, <1>l, <2>1, <4>2 DEF SupKnows, Stopping
    <3> QED BY <1>8, <1>a, <2>4, <3>1, <3>2 DEF Cleanup, Interrupt, Await, Kill, Goto, CallType
  <2>5. Quiet'  BY <1>e, <2>1, <2>2, <2>4 DEF Quiet, Stopping
  <2> QED BY <2>3, <2>5
<1>9. CASE Forget \/ Unlink
  <2>1. /\ call.pc \in {"forget", "unlink"} /\ up /\ call.out \in {"ok", "fail"} /\ sup.pid \in PIDs
        /\ UNCHANGED <<proc, gen, waiter, up>>
    BY <1>9, <1>c, <1>f, <1>g, <1>j DEF Forget, Unlink, Calls, AtWork, Stopping
  <2>a. \A p \in PIDs : Owed(p) => p = sup.pid /\ proc[p].who = sup.who /\ sup.who \notin Strangers
    <3>1. call.pc # "read"  BY <2>1
    <3>2. ASSUME NEW p \in PIDs, Owed(p) PROVE p = sup.pid  BY <1>d, <2>1, <3>1, <3>2 DEF SupKnows
    <3>3. ASSUME NEW p \in PIDs, Owed(p), p = sup.pid PROVE proc[p].who = sup.who /\ sup.who \notin Strangers
      BY <1>b, <1>c, <1>l, <3>3 DEF OwnPID, Strangers
    <3> QED BY <3>2, <3>3
  <2>2. CASE Goto("unlink") /\ call.pc = "forget" /\ UNCHANGED <<file, sup, held, excused>>
    <3>1. call'.pc = "unlink" /\ call'.out = call.out  BY <1>a, <2>2 DEF Goto, CallType
    <3> QED BY <1>d, <1>e, <2>1, <2>2, <3>1 DEF SupKnows, FileKnows, Quiet
  <2>3. CASE Forgotten
    <3>1. CASE call.out = "ok"
      <4>1. \A p \in PIDs : ~Owed(p)  BY <1>d, <2>1, <3>1 DEF Quiet
      <4> QED BY <1>e, <2>1, <2>3, <3>1, <4>1, NothingOwed DEF Forgotten
    <3>2. CASE call.out = "fail"
      <4>1. excused' = excused \cup ({gen, sup.who} \ Strangers)  BY <2>3, <3>2 DEF Forgotten
      <4> QED BY <2>1, <2>a, <4>1, NothingOwed DEF Owed, Engine
    <3> QED BY <2>1, <3>1, <3>2
  <2> QED BY <1>9, <2>2, <2>3 DEF Forget, Unlink
<1>10. CASE Recover
  <2>1. call.pc = "read" /\ up /\ held = "none" /\ UNCHANGED <<proc, gen, waiter, up>>
    BY <1>10, <1>f, <1>h DEF Recover
  <2>2. \A p \in PIDs : Owed(p) => file = p  BY <1>d, <2>1 DEF FileKnows
  <2>3. CASE (file \notin PIDs \/ ~Alive(file)) /\ UNCHANGED excused
    <3>1. \A p \in PIDs : ~Owed(p)  BY <1>b, <1>l, <2>2, <2>3 DEF Alive, Strangers
    <3> QED BY <1>e, <2>1, <2>3, <3>1, NothingOwed
  <2>4. CASE excused' = excused \cup ({proc[file].who} \ Strangers)
    <3>1. \A p \in PIDs : ~Owed(p)'  BY <1>l, <2>1, <2>2, <2>4 DEF Owed, Engine
    <3> QED BY <3>1, NothingOwed
  <2>5. CASE /\ file \in PIDs /\ sup' = [NoSup EXCEPT !.pid = file, !.who = proc[file].who]
             /\ Goto("probe") /\ UNCHANGED <<file, held, excused>>
    <3>1. call'.pc = "probe" /\ sup'.pid = file  BY <1>a, <2>5 DEF Goto, CallType, NoSup
    <3> QED BY <1>d, <1>e, <2>1, <2>2, <2>5, <3>1 DEF SupKnows, FileKnows, Quiet
  <2>6. Absent \notin PIDs /\ Garbage \notin PIDs  BY <1>b DEF Absent, Garbage
  <2> QED BY <1>10, <2>3, <2>4, <2>5, <2>6 DEF Recover
<1>11. CASE RecoverProbe
  <2>1. /\ call.pc = "probe" /\ up /\ call'.pc = "none" /\ held' # "none"
        /\ sup'.pid = sup.pid /\ UNCHANGED <<proc, file, gen, waiter, up, excused>>
    BY <1>11, <1>a, <1>f, <1>h DEF RecoverProbe, Return, SupType, NoCall
  <2> QED BY <1>d, <1>e, <2>1 DEF SupKnows, FileKnows, Quiet
<1>12. CASE Crash
  <2>1. ~up' /\ call'.pc = "none"  BY <1>12 DEF Crash, NoCall
  <2>2. \A p \in PIDs : Owed(p)' => Owed(p)
    <3>1. excused \subseteq excused'  BY <1>12 DEF Crash
    <3> QED BY <1>12, <1>a, <3>1 DEF Crash, Owed, Engine, ProcOf, Free, Nobody
  <2>3. FileKnows'
    <3>1. CASE call.pc # "write"  BY <1>12, <1>d, <2>2, <3>1 DEF Crash, FileKnows
    <3>2. CASE call.pc = "write"
      <4>1. \A p \in PIDs : Owed(p) => p = sup.pid /\ proc[p].who = gen
        BY <1>c, <1>d, <1>f, <1>h, <1>l, <3>2 DEF SupKnows, AtWork, Child, OwnPID, Strangers
      <4>2. CASE file' = sup.pid  BY <2>2, <4>1, <4>2 DEF FileKnows
      <4>3. CASE file' # sup.pid
        <5>1. \A p \in PIDs : Owed(p) => ~Owed(p)'
          BY <1>12, <1>a, <3>2, <4>1, <4>3 DEF Crash, Owed, Engine
        <5> QED BY <2>2, <5>1, NothingOwed
      <4> QED BY <4>2, <4>3
    <3> QED BY <3>1, <3>2
  <2> QED BY <2>1, <2>3 DEF SupKnows, Quiet
<1>13. CASE Restart
  <2>1. ~up /\ call = NoCall /\ call'.pc = "read" /\ UNCHANGED <<proc, file, excused>>
    BY <1>13, <1>c DEF Restart, Down
  <2> QED BY <1>d, <1>e, <2>1 DEF SupKnows, FileKnows, Quiet, NoCall
<1>14. ASSUME NEW g \in 1..MaxGen, Reap(g) \/ Report(g) PROVE Accounts'
  <2>1. UNCHANGED <<file, gen, call, held, up, excused>> /\ sup'.pid = sup.pid
    BY <1>14, <1>a DEF Reap, Report, SupType
  <2>2. \A p \in PIDs : Owed(p)' => Owed(p)
    BY <1>14, <1>a DEF Reap, Report, Owed, Engine, Free, Nobody
  <2> QED BY <1>d, <2>1, <2>2 DEF SupKnows, FileKnows, Quiet
<1>15. ASSUME NEW g \in 1..MaxGen, WaiterRemove(g) PROVE Accounts'
  <2>1. UNCHANGED <<proc, sup, call, held, up>>  BY <1>15 DEF WaiterRemove
  <2>2. CASE UNCHANGED <<file, excused>>  BY <1>d, <1>e, <2>1, <2>2 DEF SupKnows, FileKnows, Quiet
  <2>3. CASE excused' = excused \cup ({proc[p].who : p \in PIDs \cap {file}} \ Strangers)
    <3>1. \A p \in PIDs : Owed(p)' => Owed(p) /\ file # p  BY <1>l, <2>1, <2>3 DEF Owed, Engine
    <3> QED BY <1>d, <2>1, <3>1 DEF SupKnows, FileKnows, Quiet
  <2> QED BY <1>15, <2>2, <2>3 DEF WaiterRemove
<1>16. ASSUME NEW p \in PIDs, EngineListens(p) \/ EngineExits(p) \/ OtherStarts(p) \/ OtherExits(p) PROVE Accounts'
  <2>1. UNCHANGED <<file, gen, waiter, call, held, up, excused>> /\ sup'.pid = sup.pid
    BY <1>16, <1>a DEF EngineListens, EngineExits, OtherStarts, OtherExits, SupType
  <2>2. \A q \in PIDs : Owed(q)' => Owed(q)
    <3>1. CASE EngineListens(p)  BY <1>a, <3>1 DEF EngineListens, Owed, Engine, ProcOf
    <3>2. CASE EngineExits(p)  BY <1>a, <3>2 DEF EngineExits, Owed, Engine, ProcOf, Free, Nobody
    <3>3. CASE OtherStarts(p)
      <4>1. PICK r \in ProcOf : proc' = [proc EXCEPT ![p] = r] /\ r.who \in {Other, Twin}
        <5>1. PICK who \in {Other, Twin}, b \in BOOLEAN : proc' = [proc EXCEPT ![p] = [who |-> who, run |-> TRUE, port |-> b]]
          BY <3>3 DEF OtherStarts
        <5>2. [who |-> who, run |-> TRUE, port |-> b] \in ProcOf  BY DEF ProcOf, Whos
        <5> QED BY <5>1, <5>2
      <4> QED BY <1>a, <3>3, <4>1 DEF OtherStarts, Owed, Engine, Other, Twin
    <3>4. CASE OtherExits(p)  BY <1>a, <3>4 DEF OtherExits, Owed, Engine, Free, Nobody
    <3> QED BY <1>16, <3>1, <3>2, <3>3, <3>4
  <2> QED BY <1>d, <2>1, <2>2 DEF SupKnows, FileKnows, Quiet
<1>17. CASE AtBound \/ UNCHANGED vars
  <2>1. UNCHANGED <<proc, file, gen, sup, waiter, call, held, up, excused>>  BY <1>17 DEF AtBound, vars
  <2> QED BY <1>d, <1>e, <2>1 DEF SupKnows, FileKnows, Quiet
<1> QED BY <1>1, <1>2, <1>3, <1>4, <1>5, <1>6, <1>7, <1>8, <1>9, <1>10, <1>11, <1>12, <1>13, <1>14, <1>15, <1>16, <1>17
        DEF Next, CallStep
-----------------------------------------------------------------------------
(* Theorems                                                                *)

LEMMA InitInv == Init => Identity /\ Accounts
<1> SUFFICES ASSUME Init PROVE Identity /\ Accounts  OBVIOUS
<1> USE PIDsOK DEF Init, NoSup, NoWaiter, NoCall, Free, Nobody, Other, Twin, Whos, Absent, Garbage
<1>1. TypeOK
  <2>1. Free \in ProcOf /\ NoWaiter \in WaiterOf  BY DEF ProcOf, WaiterOf, Gens
  <2>2. proc \in [PIDs -> ProcOf] /\ waiter \in [1..MaxGen -> WaiterOf]  BY <2>1
  <2>3. sup \in SupType /\ call \in CallType /\ gen \in Gens /\ held \in SlotStates
    BY DEF SupType, CallType, Gens, Steps, SlotStates
  <2> QED BY <2>2, <2>3, TypeParts
<1>2. Identity  BY <1>1 DEF Identity, Calls, Down, AtWork, Unstarted, Waits, Child, OwnPID, Stopping
<1>3. Accounts
  BY DEF Accounts, SupKnows, FileKnows, Quiet, Owed, Engine
<1> QED BY <1>2, <1>3

\* A Supervisor, its PID file and the processes around it keep their shape, with
\* every fault.
THEOREM TypesHold == Spec => []TypeOK
<1>1. Init => TypeOK  BY InitInv DEF Identity
<1>2. TypeOK /\ [Next]_vars => TypeOK'  BY TypeStep
<1> QED BY <1>1, <1>2, PTL DEF Spec

LEMMA AccountsInvariance == Spec => [](Identity /\ Accounts)
<1>1. (Identity /\ Accounts) /\ [Next]_vars => (Identity /\ Accounts)'  BY IdentityStep, AccountsStep
<1> QED BY <1>1, InitInv, PTL DEF Spec

\* SIGINT and SIGKILL reach the process the supervisor started, or the one whose
\* executable and group recovery compared, or nobody, until the number is given to another
\* program under the supervisor: a child's number is kept by its zombie until it is reaped,
\* and no supervisor works on a number another one has let go of.
THEOREM SignalsReachTheKnown == Spec => []OnlyKnownSignalled
<1>1. Identity => OnlyKnownSignalled
  <2> SUFFICES ASSUME Identity, call.pc \in {"interrupt", "kill"}, ~sup.lost
               PROVE  proc[sup.pid].who \in {Nobody, sup.who} \ {Other}
    BY DEF OnlyKnownSignalled
  <2>1. sup.pid # 0  BY DEF Identity, AtWork, Stopping
  <2> QED BY <2>1 DEF Identity, OwnPID, Other, Nobody
<1>2. Spec => [](Identity /\ Accounts)  BY AccountsInvariance
<1> QED BY <1>1, <1>2, PTL

\* An engine that runs is known to its supervisor or named by the PID file, after any
\* sequence of starts, stops, failures, daemon deaths and recoveries: the next daemon finds
\* what this one started.  A goroutine's removal overtaken by the next record's write is
\* among the steps: the engine whose record it takes is excused, and no other.
THEOREM EnginesAreAccountedFor == Spec => []EngineIsAccountedFor
<1>1. Identity /\ Accounts => EngineIsAccountedFor
  BY DEF Identity, Accounts, SupKnows, FileKnows, Owed, EngineIsAccountedFor, Down, NoCall
<1>2. Spec => [](Identity /\ Accounts)  BY AccountsInvariance
<1> QED BY <1>1, <1>2, PTL

\* And no engine is started beside another that nobody has stopped, whichever daemon
\* started the first, but for the excused ones.
THEOREM OneEngineOnly == Spec => []OneEngineAcrossRestarts
<1>1. Identity /\ Accounts => OneEngineAcrossRestarts
  <2> SUFFICES ASSUME Identity, Accounts, NEW p \in PIDs, NEW q \in PIDs, Owed(p), Owed(q) PROVE p = q
    BY DEF OneEngineAcrossRestarts, Owed
  <2>1. CASE up /\ call.pc # "read"  BY <2>1 DEF Accounts, SupKnows
  <2>2. CASE ~(up /\ call.pc # "read")  BY <2>2 DEF Identity, Down, NoCall, Accounts, FileKnows
  <2> QED BY <2>1, <2>2
<1>2. Spec => [](Identity /\ Accounts)  BY AccountsInvariance
<1> QED BY <1>1, <1>2, PTL

\* And a Stop that returns without an error leaves no engine of its supervisor
\* running, an adopted one included: what the slot's calls rely on.
THEOREM StopsEndTheEngine == Spec => StopMeansGone
<1> DEFINE A == call.op = "stop" /\ call'.op = "none" /\ held' = "none" /\ up'
                  => \A p \in PIDs : proc'[p].who = sup.who
                       => ~proc'[p].run \/ sup.who \in excused \cup Strangers
<1>1. ASSUME Identity, Accounts, [Next]_vars PROVE [A]_vars
  <2> SUFFICES ASSUME call.op = "stop", call'.op = "none", held' = "none", up', NEW p \in PIDs,
                      proc'[p].who = sup.who, proc'[p].run, sup.who \notin excused \cup Strangers
               PROVE  FALSE
    OBVIOUS
  <2>0. up  BY <1>1 DEF Identity, Down, NoCall
  <2>1. call \in CallType /\ sup \in SupType /\ Calls /\ Quiet /\ SupKnows
    BY <1>1, TypeParts DEF Identity, Accounts
  <2>2. call.pc \in {"check"} \cup Stopping  BY <2>1 DEF Calls
  <2>3. /\ proc' = proc
        /\ \/ StopCheck /\ ~IsRunning
           \/ call.pc \in {"forget", "unlink"} /\ call.out = "ok"
    <3>1. CASE StopCheck  BY <2>1, <3>1 DEF StopCheck, Goto, CallType
    <3>2. CASE Forget \/ Unlink  BY <2>1, <3>2 DEF Forget, Unlink, Forgotten, Goto, Return, CallType, Calls
    <3>3. CASE Cleanup \/ Interrupt \/ Await \/ Kill
      BY <2>1, <3>3 DEF Cleanup, Interrupt, Await, Kill, Goto, CallType
    <3>4. ~UNCHANGED call  OBVIOUS
    <3>5. ~(Spawn \/ WritePID \/ WaitReady \/ Recover \/ RecoverProbe)
      BY <2>2 DEF Spawn, WritePID, WaitReady, Recover, RecoverProbe, Stopping
    <3>6. ~(Launch \/ StopCall \/ StatusCall \/ Crash \/ Restart \/ AtBound \/ UNCHANGED vars)
      BY <2>0, <3>4 DEF Launch, StopCall, StatusCall, Crash, Restart, AtBound, vars
    <3>7. ~(\E g \in 1..MaxGen : Reap(g) \/ WaiterRemove(g) \/ Report(g))
      BY <3>4 DEF Reap, WaiterRemove, Report
    <3>8. ~(\E q \in PIDs : EngineListens(q) \/ EngineExits(q) \/ OtherStarts(q) \/ OtherExits(q))
      BY <3>4 DEF EngineListens, EngineExits, OtherStarts, OtherExits
    <3> QED BY <1>1, <3>1, <3>2, <3>3, <3>5, <3>6, <3>7, <3>8 DEF Next, CallStep
  <2>4. ~Owed(p)
    <3>1. CASE StopCheck /\ ~IsRunning
      <4>1. call.pc # "read"  BY <2>2 DEF Stopping
      <4> QED BY <1>1, <2>0, <2>1, <3>1, <4>1, NotRunning
    <3>2. CASE call.pc \in {"forget", "unlink"} /\ call.out = "ok"  BY <2>1, <3>2 DEF Quiet
    <3> QED BY <2>3, <3>1, <3>2
  <2>5. sup.who > 0  BY <2>1, PIDsOK DEF SupType, Whos, Gens, Strangers, Nobody, Other, Twin
  <2> QED BY <2>3, <2>4, <2>5 DEF Owed, Engine
<1>2. Identity /\ Accounts /\ [Next]_vars => [A]_vars  BY <1>1
<1>3. Spec => [](Identity /\ Accounts)  BY AccountsInvariance
<1> QED BY <1>2, <1>3, PTL DEF StopMeansGone, Spec
=============================================================================
