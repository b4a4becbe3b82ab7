---------------------------- MODULE RuntimeSlot ----------------------------
(***************************************************************************)
(* The control manager's single runtime slot (core/control): concurrent    *)
(* start, stop, restart, reset, profile-write and profile-delete calls, the*)
(* router reload a profile write triggers, and the daemon's shutdown.      *)
(*                                                                         *)
(* m.mu is held only to reserve or to commit, so a call is a sequence of   *)
(* steps: what it reads from the profile store, the write of the generated *)
(* preset, the reservation, the blocking stop and spawn of the engine, the *)
(* commit, and the transition record, which is made after the unlock.      *)
(*                                                                         *)
(* An engine and the Supervisor object that runs it are one number: the    *)
(* operation that spawned it; engine 0 is the one recovery found at the    *)
(* daemon's start.  What the supervisor does inside one Start or Stop call *)
(* is the subject of module Supervisor; here a call has its outcomes.      *)
(***************************************************************************)
EXTENDS Integers, Sequences, FiniteSets

CONSTANTS
  Profiles,   \* profile names
  Backends,   \* registered backends
  Routers,    \* the backends that hold several profiles in one process
  Addrs,      \* listen addresses
  Docs,       \* profile documents: [backend, addr, model]
  InitStore,  \* the profiles on disk when the daemon starts
  Puts,       \* the <<profile, document>> pairs a client may write
  Callers,    \* concurrent RPC handlers
  Kinds,      \* the requests the clients of this instance make
  Faults,     \* what may go wrong: "stop", "start", "exit", "io", "orphan"
  MaxOps,     \* bound on reservations; a call past it is turned away
  None        \* Go's nil and ""

ASSUME ConstantsOK ==
  /\ IsFiniteSet(Profiles)
  /\ Routers \subseteq Backends
  /\ \A d \in Docs : d.backend \in Backends /\ d.addr \in Addrs
  /\ InitStore \in [Profiles -> Docs \cup {None}]
  /\ Puts \subseteq Profiles \X Docs
  /\ MaxOps \in Nat
  /\ None \notin Nat /\ None \notin Docs /\ None \notin Backends
  /\ None \notin Profiles /\ None \notin Addrs

VARIABLES
  store,      \* the canonical profile files
  generated,  \* per router backend: the preset file, a set of <<profile, model>>
  slot,       \* m.slot
  ops,        \* m.ops
  engine,     \* engine[e]: "none", "live", "lost" (runs, supervisor forgot it), "dead"
  bound,      \* bound[e]: the address engine e was launched on
  loaded,     \* loaded[e]: the preset engine e read at startup
  call,       \* call[c]: the handler c and where it is
  published,  \* the last closing runtime.transition record: [op, state]
  down,       \* shutdown: "up", "stopping", "closed"
  victim      \* the process StopAllRuntimes took out of the slot

vars == <<store, generated, slot, ops, engine, bound, loaded, call, published, down, victim>>
files == <<store, generated>>
world == <<engine, bound, loaded>>
ending == <<down, victim>>

Engines == 0..MaxOps
States == {"nil", "starting", "activating", "stopping", "running", "failed", "orphaned"}

-----------------------------------------------------------------------------
(* The slot.  A nil slot is the record below, so that every field has a    *)
(* value; op 0 is the empty operation ID.                                  *)

NoSlot == [backend |-> None, process |-> None, address |-> None,
           profiles |-> <<>>, state |-> "nil", op |-> 0]

\* Mutant: any slot counts as settled, also one in transition.
SettledIfPresent == slot.state # "nil"
Settled == slot.state = "running"

\* Mutant: only the first held profile is compared.
HoldsFirst(p) == slot.profiles # <<>> /\ slot.profiles[1] = p
Holds(p) == \E i \in DOMAIN slot.profiles : slot.profiles[i] = p

Position(s, p) == CHOOSE i \in DOMAIN s : s[i] = p

\* slices.DeleteFunc on a list that names a profile at most once (HeldOnce).
Without(s, p) ==
  IF \E i \in DOMAIN s : s[i] = p
  THEN SubSeq(s, 1, Position(s, p) - 1) \o SubSeq(s, Position(s, p) + 1, Len(s))
  ELSE s

\* The preset a router backend gets: one section per profile naming it.
Render(files_, b) ==
  {<<p, files_[p].model>> : p \in {q \in Profiles : files_[q] # None /\ files_[q].backend = b}}

-----------------------------------------------------------------------------
(* Handlers.  pc names the next step; job is the lifecycle operation the   *)
(* request is in the middle of.                                            *)

Idle == [kind |-> "none", pc |-> "idle", profile |-> None,
         doc |-> None, preset |-> {}, job |-> "none", op |-> 0,
         stop |-> None, proc |-> None, addr |-> None, event |-> "none"]

At(c, pc) == call[c].pc = pc
Return(c) == call' = [call EXCEPT ![c] = Idle]
Goto(c, pc) == call' = [call EXCEPT ![c].pc = pc]
Accepts(c, k) == At(c, "idle") /\ down # "closed" /\ k \in Kinds

\* reserveLocked: the slot becomes s, owned by a new operation.
Reserve(c, s, state, pc, stop) ==
  /\ ops' = ops + 1
  /\ slot' = [s EXCEPT !.state = state, !.op = ops + 1]
  /\ call' = [call EXCEPT ![c].op = ops + 1, ![c].pc = pc, ![c].stop = stop]

\* A typed conflict, or the bound on operations: the handler returns an error.
TurnedAway(c) == Return(c) /\ UNCHANGED <<slot, ops>>

Owns(c) == slot.op = call[c].op

\* fail: the failed slot stays (keep) or is dropped, if the operation owns it.
Fail(c, keep) ==
  /\ slot' = IF ~Owns(c) THEN slot
             ELSE IF keep THEN [slot EXCEPT !.state = "failed", !.op = 0] ELSE NoSlot
  /\ call' = [call EXCEPT ![c].pc = "announce", ![c].event = "failed"]

-----------------------------------------------------------------------------
(* StartRuntime, StopRuntime, RestartRuntime, ResetRuntimes                *)

Loaded(k, p) ==
  [Idle EXCEPT !.kind = k, !.pc = "render", !.profile = p, !.job = "start",
               !.doc = store[p], !.addr = store[p].addr, !.preset = Render(store, store[p].backend)]

\* StartRuntime reads the profile and materializes what its backend owns; kind k
\* is "replace" when the request carries the replace option.
StartRequest(c, k, p) ==
  /\ Accepts(c, k) /\ store[p] # None
  /\ call' = [call EXCEPT ![c] = Loaded(k, p)]
  /\ UNCHANGED <<files, slot, ops, world, published, ending>>

\* render writes the files; a missing model file or a failed write ends the call.
RenderStart(c) ==
  /\ At(c, "render")
  /\ \/ /\ generated' = [b \in Routers |-> IF b = call[c].doc.backend THEN call[c].preset ELSE generated[b]]
        /\ Goto(c, "reserve")
     \/ "io" \in Faults /\ Return(c) /\ UNCHANGED generated
  /\ UNCHANGED <<store, slot, ops, world, published, ending>>

Joins(d) == d.backend \in Routers /\ slot.address = d.addr

ReserveStart(c) ==
  /\ At(c, "reserve") /\ call[c].job = "start"
  /\ LET d == call[c].doc
         p == call[c].profile
         mayTake == Settled /\ slot.backend = d.backend /\ ops < MaxOps
     IN  \/ /\ slot.state = "nil" /\ ops < MaxOps
            /\ Reserve(c, [NoSlot EXCEPT !.backend = d.backend, !.address = d.addr, !.profiles = <<p>>],
                       "starting", "spawn", None)
         \/ /\ mayTake /\ Joins(d)
            /\ Reserve(c, [slot EXCEPT !.profiles = IF Holds(p) THEN @ ELSE Append(@, p)],
                       "activating", "commit", None)
         \/ /\ mayTake /\ ~Joins(d) /\ call[c].kind = "replace"
            /\ Reserve(c, [slot EXCEPT !.address = d.addr, !.profiles = <<p>>],
                       "stopping", "stop", slot.process)
         \/ /\ \/ ops = MaxOps
               \/ slot.state # "nil" /\ ~(Settled /\ slot.backend = d.backend)
               \/ mayTake /\ ~Joins(d) /\ call[c].kind # "replace"
            /\ TurnedAway(c)
  /\ UNCHANGED <<files, world, published, ending>>

\* StopRuntime, RestartRuntime and DeleteProfile read the profile's backend.
StopRequest(c, k, p) ==
  /\ Accepts(c, k) /\ store[p] # None
  /\ call' = [call EXCEPT ![c] = [Idle EXCEPT !.kind = k, !.pc = "reserve", !.job = "stop",
                                              !.profile = p, !.doc = store[p]]]
  /\ UNCHANGED <<files, slot, ops, world, published, ending>>

\* What the caller of StopRuntime does once it succeeded.
AfterStop(c) ==
  \/ call[c].kind = "stop" /\ Return(c)
  \/ call[c].kind = "delete" /\ Goto(c, "erase")
  \/ call[c].kind = "restart" /\ Goto(c, "reload_profile")

\* Mutant: off by one, the last profile is dropped without stopping the process.
ReserveStopOffByOne(c) ==
  /\ At(c, "reserve") /\ call[c].job = "stop"
  /\ LET held == slot.state # "nil" /\ slot.backend = call[c].doc.backend /\ Holds(call[c].profile)
     IN  \/ ~held /\ AfterStop(c) /\ UNCHANGED <<slot, ops>>
         \/ held /\ (~Settled \/ ops = MaxOps) /\ TurnedAway(c)
         \/ /\ held /\ Settled /\ ops < MaxOps
            /\ Reserve(c, slot, "stopping", "commit", None)
  /\ UNCHANGED <<files, world, published, ending>>

ReserveStop(c) ==
  /\ At(c, "reserve") /\ call[c].job = "stop"
  /\ LET held == slot.state # "nil" /\ slot.backend = call[c].doc.backend /\ Holds(call[c].profile)
     IN  \/ ~held /\ AfterStop(c) /\ UNCHANGED <<slot, ops>>
         \/ held /\ (~Settled \/ ops = MaxOps) /\ TurnedAway(c)
         \/ /\ held /\ Settled /\ ops < MaxOps
            /\ IF Len(slot.profiles) > 1 THEN Reserve(c, slot, "stopping", "commit", None)
                                         ELSE Reserve(c, slot, "stopping", "stop", slot.process)
  /\ UNCHANGED <<files, world, published, ending>>

\* RestartRuntime's second half is StartRuntime without replace.
RestartLoads(c) ==
  /\ At(c, "reload_profile")
  /\ \/ store[call[c].profile] = None /\ Return(c)
     \/ store[call[c].profile] # None /\ call' = [call EXCEPT ![c] = Loaded("restart", call[c].profile)]
  /\ UNCHANGED <<files, slot, ops, world, published, ending>>

\* Mutant: a reset does not look whether a transition owns the slot.
ResetIgnoresOwner(c) ==
  /\ Accepts(c, "reset") /\ slot.state # "nil" /\ ops < MaxOps
  /\ ops' = ops + 1
  /\ slot' = [slot EXCEPT !.state = "stopping", !.op = ops + 1]
  /\ call' = [call EXCEPT ![c] = [Idle EXCEPT !.kind = "reset", !.job = "reset", !.pc = "stop",
                                              !.op = ops + 1, !.stop = slot.process]]
  /\ UNCHANGED <<files, world, published, ending>>

\* ResetRuntimes takes any slot no transition owns; otherwise it returns.
ResetRequest(c) ==
  /\ Accepts(c, "reset") /\ slot.state # "nil" /\ slot.op = 0 /\ ops < MaxOps
  /\ ops' = ops + 1
  /\ slot' = [slot EXCEPT !.state = "stopping", !.op = ops + 1]
  /\ call' = [call EXCEPT ![c] = [Idle EXCEPT !.kind = "reset", !.job = "reset", !.pc = "stop",
                                              !.op = ops + 1, !.stop = slot.process]]
  /\ UNCHANGED <<files, world, published, ending>>

-----------------------------------------------------------------------------
(* The blocking half of a transition                                       *)

\* Runtime.Stop on e.  A supervisor that runs nothing it knows of succeeds at
\* once; a failed stop has sent its signals and forgotten the process anyway.
StopOK(e) == engine' = IF e # None /\ engine[e] = "live" THEN [engine EXCEPT ![e] = "dead"] ELSE engine
StopFails(e) ==
  /\ "stop" \in Faults /\ e # None /\ engine[e] = "live"
  /\ \E fate \in {"dead", "lost"} : engine' = [engine EXCEPT ![e] = fate]

StopEngine(c) ==
  /\ At(c, "stop")
  /\ \/ /\ StopOK(call[c].stop)
        /\ Goto(c, IF call[c].job \in {"start", "reload"} THEN "spawn" ELSE "commit")
        /\ UNCHANGED slot
     \/ StopFails(call[c].stop) /\ Fail(c, TRUE)
  /\ UNCHANGED <<files, ops, bound, loaded, published, ending>>

\* Mutant: a failed start returns without ending its transition.
SpawnAbandons(c) ==
  /\ At(c, "spawn")
  /\ \/ /\ engine' = [engine EXCEPT ![call[c].op] = "live"]
        /\ bound' = [bound EXCEPT ![call[c].op] = call[c].addr]
        /\ UNCHANGED loaded
        /\ call' = [call EXCEPT ![c].pc = "commit", ![c].proc = call[c].op]
     \/ "start" \in Faults /\ Return(c) /\ UNCHANGED world
  /\ UNCHANGED <<files, slot, ops, published, ending>>

\* Runtime.Start.  A router reads its preset as it comes up.  A start that fails
\* rolls its process back, and the rollback is a stop that may fail too.
SpawnEngine(c) ==
  /\ At(c, "spawn")
  /\ \/ /\ engine' = [engine EXCEPT ![call[c].op] = "live"]
        /\ bound' = [bound EXCEPT ![call[c].op] = call[c].addr]
        /\ loaded' = [loaded EXCEPT ![call[c].op] =
                        IF call[c].doc.backend \in Routers THEN generated[call[c].doc.backend] ELSE {}]
        /\ call' = [call EXCEPT ![c].pc = "commit", ![c].proc = call[c].op]
        /\ UNCHANGED slot
     \/ /\ "start" \in Faults
        /\ \E fate \in {"none", "dead"} \cup (IF "stop" \in Faults THEN {"lost"} ELSE {}) :
             engine' = [engine EXCEPT ![call[c].op] = fate]
        /\ Fail(c, FALSE)
        /\ UNCHANGED <<bound, loaded>>
  /\ UNCHANGED <<files, ops, published, ending>>

\* Mutant: the commit installs its process also when it joined and has none.
CommitStartOverwrites(c) ==
  /\ slot' = IF ~Owns(c) THEN slot ELSE [slot EXCEPT !.process = call[c].proc, !.state = "running", !.op = 0]
  /\ call' = [call EXCEPT ![c].pc = "announce", ![c].event = "running"]

CommitStart(c) ==
  /\ slot' = IF ~Owns(c) THEN slot
             ELSE [slot EXCEPT !.process = IF call[c].proc # None THEN call[c].proc ELSE @,
                               !.state = "running", !.op = 0]
  /\ call' = [call EXCEPT ![c].pc = "announce", ![c].event = "running"]

CommitStop(c) ==
  LET left == Without(slot.profiles, call[c].profile)
  IN  /\ slot' = IF ~Owns(c) THEN slot
                 ELSE IF left = <<>> THEN NoSlot
                 ELSE [slot EXCEPT !.profiles = left, !.state = "running", !.op = 0]
      /\ call' = [call EXCEPT ![c].pc = "announce", ![c].event = "stopped"]

CommitReset(c) ==
  /\ slot' = IF Owns(c) THEN NoSlot ELSE slot
  /\ call' = [call EXCEPT ![c].pc = "announce", ![c].event = "stopped"]

Commit(c) ==
  /\ At(c, "commit")
  /\ \/ call[c].job \in {"start", "reload"} /\ CommitStart(c)
     \/ call[c].job = "stop" /\ CommitStop(c)
     \/ call[c].job = "reset" /\ CommitReset(c)
  /\ UNCHANGED <<files, ops, world, published, ending>>

\* The closing transition record, made with the lock released.  The records made
\* on the way (stopping, starting, activating) always precede it.
Announce(c) ==
  /\ At(c, "announce")
  /\ published' = [op |-> call[c].op, state |-> call[c].event]
  /\ IF call[c].job = "stop" /\ call[c].event = "stopped" THEN AfterStop(c) ELSE Return(c)
  /\ UNCHANGED <<files, slot, ops, world, ending>>

-----------------------------------------------------------------------------
(* Profile writes, and the reload of a running router they trigger         *)

PutRequest(c, p, d) ==
  /\ Accepts(c, "put")
  /\ store' = [store EXCEPT ![p] = d]
  /\ call' = [call EXCEPT ![c] = [Idle EXCEPT !.kind = "put", !.pc = "write", !.profile = p, !.doc = d,
                                              !.preset = Render(store', d.backend)]]
  /\ UNCHANGED <<generated, slot, ops, world, published, ending>>

\* DeleteProfile after its stop: the file, the autostart entry, the new preset.
Erase(c) ==
  /\ At(c, "erase")
  /\ LET p == call[c].profile
     IN  \/ store[p] = None /\ Return(c) /\ UNCHANGED store
         \/ /\ store[p] # None
            /\ store' = [store EXCEPT ![p] = None]
            /\ \/ call' = [call EXCEPT ![c].pc = "write", ![c].preset = Render(store', call[c].doc.backend)]
               \/ "io" \in Faults /\ Return(c)
  /\ UNCHANGED <<generated, slot, ops, world, published, ending>>

\* regenerate: compare with what is on disk, write, reload if it differs.
WriteGenerated(c) ==
  /\ At(c, "write")
  /\ LET b == call[c].doc.backend
     IN  \/ /\ b \in Routers /\ generated[b] # call[c].preset
            /\ generated' = [generated EXCEPT ![b] = call[c].preset]
            /\ Goto(c, "reload")
         \/ ~(b \in Routers /\ generated[b] # call[c].preset) /\ Return(c) /\ UNCHANGED generated
         \/ "io" \in Faults /\ Return(c) /\ UNCHANGED generated
  /\ UNCHANGED <<store, slot, ops, world, published, ending>>

\* reloadRouter reserves a settled slot of that backend; the operation is the
\* first held profile's.
ReserveReload(c) ==
  /\ At(c, "reload")
  /\ LET mine == slot.state # "nil" /\ slot.backend = call[c].doc.backend
     IN  \/ (~mine \/ ~Settled \/ ops = MaxOps) /\ TurnedAway(c)
         \/ /\ mine /\ Settled /\ ops < MaxOps
            /\ ops' = ops + 1
            /\ slot' = [slot EXCEPT !.state = "stopping", !.op = ops + 1]
            /\ call' = [call EXCEPT ![c].op = ops + 1, ![c].pc = "respec", ![c].job = "reload",
                                    ![c].profile = slot.profiles[1], ![c].stop = slot.process]
  /\ UNCHANGED <<files, world, published, ending>>

\* routerSpec re-reads that profile; a profile that is gone fails the reload.
Respec(c) ==
  /\ At(c, "respec")
  /\ LET d == store[call[c].profile]
     IN  \/ d = None /\ Fail(c, TRUE)
         \/ d # None /\ call' = [call EXCEPT ![c].pc = "stop", ![c].addr = d.addr] /\ UNCHANGED slot
  /\ UNCHANGED <<files, ops, world, published, ending>>

-----------------------------------------------------------------------------
(* Shutdown, and engines that exit by themselves                           *)

\* StopAllRuntimes empties the slot whoever owns it.
TakeDown ==
  /\ down = "up" /\ "shutdown" \in Kinds
  /\ down' = "stopping" /\ victim' = slot.process /\ slot' = NoSlot
  /\ UNCHANGED <<files, ops, world, call, published>>

\* The stop of what it took, then HTTP.Shutdown: no new call is accepted.
StopVictim ==
  /\ down = "stopping" /\ down' = "closed"
  /\ StopOK(victim) \/ StopFails(victim)
  /\ UNCHANGED <<files, slot, ops, bound, loaded, call, published, victim>>

Exited == down = "closed" /\ (\A c \in Callers : At(c, "idle")) /\ UNCHANGED vars

EngineExits(e) ==
  /\ "exit" \in Faults /\ engine[e] \in {"live", "lost"}
  /\ engine' = [engine EXCEPT ![e] = "dead"]
  /\ UNCHANGED <<files, slot, ops, bound, loaded, call, published, ending>>

-----------------------------------------------------------------------------
(* The daemon starts with what RecoverRuntimes left: an empty slot, an     *)
(* adopted engine serving every profile of its group, or an orphaned one   *)
(* its supervisor knows (unhealthy survivor) or not (mismatched process).  *)

Group(p) == IF InitStore[p].backend \in Routers
            THEN {q \in Profiles : InitStore[q] # None /\ InitStore[q].backend = InitStore[p].backend
                                                       /\ InitStore[q].addr = InitStore[p].addr}
            ELSE {p}

Orderings(S) == {s \in [1..Cardinality(S) -> S] : \A i, j \in 1..Cardinality(S) : s[i] = s[j] => i = j}

Recovered(p, held, state) ==
  [backend |-> InitStore[p].backend, process |-> 0, address |-> InitStore[p].addr,
   profiles |-> held, state |-> state, op |-> 0]

Init ==
  /\ store = InitStore
  /\ generated = [b \in Routers |-> Render(InitStore, b)]
  /\ ops = 0
  /\ call = [c \in Callers |-> Idle]
  /\ published = [op |-> 0, state |-> "none"]
  /\ down = "up" /\ victim = None
  /\ \/ /\ slot = NoSlot
        /\ engine = [e \in Engines |-> "none"]
        /\ loaded = [e \in Engines |-> {}] /\ bound = [e \in Engines |-> None]
     \/ /\ "orphan" \in Faults
        /\ \E p \in {q \in Profiles : InitStore[q] # None} :
             /\ \/ /\ \E held \in Orderings(Group(p)) : slot = Recovered(p, held, "running")
                   /\ engine = [e \in Engines |-> IF e = 0 THEN "live" ELSE "none"]
                \/ /\ slot = Recovered(p, <<p>>, "orphaned")
                   /\ \E fate \in {"live", "lost"} : engine = [e \in Engines |-> IF e = 0 THEN fate ELSE "none"]
             /\ bound = [e \in Engines |-> IF e = 0 THEN InitStore[p].addr ELSE None]
             /\ loaded = [e \in Engines |-> IF e = 0 THEN Render(InitStore, InitStore[p].backend) ELSE {}]

Step(c) ==
  \/ RenderStart(c) \/ ReserveStart(c) \/ ReserveStop(c) \/ RestartLoads(c)
  \/ StopEngine(c) \/ SpawnEngine(c) \/ Commit(c) \/ Announce(c)
  \/ Erase(c) \/ WriteGenerated(c) \/ ReserveReload(c) \/ Respec(c)

Request(c) ==
  \/ \E p \in Profiles, k \in {"start", "replace"} : StartRequest(c, k, p)
  \/ \E p \in Profiles, k \in {"stop", "restart", "delete"} : StopRequest(c, k, p)
  \/ ResetRequest(c)
  \/ \E w \in Puts : PutRequest(c, w[1], w[2])

Next ==
  \/ \E c \in Callers : Step(c) \/ Request(c)
  \/ TakeDown \/ StopVictim \/ Exited
  \/ \E e \in Engines : EngineExits(e)

Spec == Init /\ [][Next]_vars

\* Every blocking call a handler makes is bounded by a timeout, and shutdown
\* runs to its end; clients and engines owe nothing.
Fairness == (\A c \in Callers : WF_vars(Step(c))) /\ WF_vars(StopVictim)
FairSpec == Spec /\ Fairness
-----------------------------------------------------------------------------
(* Properties                                                              *)

Pcs == {"idle", "render", "reserve", "reload_profile", "stop", "spawn", "commit",
        "announce", "erase", "write", "reload", "respec"}
\* Between its reservation and its commit a handler is inside a transition.
Transitions == {"respec", "stop", "spawn", "commit"}
InTransition(c) == call[c].pc \in Transitions
Live == {e \in Engines : engine[e] = "live"}
Quiescent == \A c \in Callers : At(c, "idle")
Models == {d.model : d \in Docs}

Slots == [backend : Backends \cup {None}, process : Engines \cup {None}, address : Addrs \cup {None},
          profiles : Seq(Profiles), state : States, op : 0..MaxOps]
Calls == [kind : {"none", "start", "replace", "stop", "restart", "reset", "put", "delete"}, pc : Pcs,
          profile : Profiles \cup {None}, doc : Docs \cup {None},
          preset : SUBSET (Profiles \X Models),
          job : {"none", "start", "stop", "reset", "reload"}, op : 0..MaxOps,
          stop : Engines \cup {None}, proc : Engines \cup {None}, addr : Addrs \cup {None},
          event : {"none", "running", "stopped", "failed"}]

\* The shape of the manager's state (runtimeSlot, operation and the plans).
TypeOK ==
  /\ store \in [Profiles -> Docs \cup {None}]
  /\ generated \in [Routers -> SUBSET (Profiles \X Models)]
  /\ slot \in Slots
  /\ ops \in 0..MaxOps
  /\ engine \in [Engines -> {"none", "live", "lost", "dead"}]
  /\ bound \in [Engines -> Addrs \cup {None}]
  /\ loaded \in [Engines -> SUBSET (Profiles \X Models)]
  /\ call \in [Callers -> Calls]
  /\ published \in [op : 0..MaxOps, state : States \cup {"none", "stopped"}]
  /\ down \in {"up", "stopping", "closed"}
  /\ victim \in Engines \cup {None}

\* Mutual exclusion by operation ID: until shutdown, a handler between its
\* reservation and its commit owns the slot, and no two handlers are there at
\* once, although the lock is released in between (slot.go, reserveLocked).
SingleOwner ==
  down = "up" =>
    /\ \A c \in Callers : InTransition(c) => slot.op = call[c].op /\ slot.op # 0
    /\ \A c, d \in Callers : InTransition(c) /\ InTransition(d) => c = d

\* A reservation is never abandoned: an owned slot has a handler that will
\* commit or fail it (every return path of the handlers ends the operation).
NoAbandonedReservation ==
  slot.op # 0 => \E c \in Callers : InTransition(c) /\ call[c].op = slot.op

\* InferenceRig serves one backend at a time: however starts, replaces, reloads
\* and resets interleave, no two supervised engines run at once before shutdown.
OneEngine == down = "up" => \A e, f \in Live : e = f

\* When the slot is free nothing the manager supervises is running: clearing the
\* active backend never forgets an engine (commitStop, fail, ResetRuntimes).
FreeSlotMeansNoEngine == down = "up" /\ slot.state = "nil" => Live = {}

\* A settled slot has a process, and its supervisor still knows the engine: a
\* later stop will signal it (it may have exited by itself).
RunningIsSupervised ==
  down = "up" /\ Settled => slot.process \in Engines /\ engine[slot.process] \in {"live", "dead"}

\* The held list: never empty (reloadRouter indexes held[0]), no profile twice
\* (a profile held twice would be dropped whole with its engine left running),
\* and exactly one profile on an exclusive backend.
HeldOnce ==
  slot.state # "nil" =>
    /\ slot.profiles # <<>>
    /\ \A i, j \in DOMAIN slot.profiles : slot.profiles[i] = slot.profiles[j] => i = j
    /\ slot.backend \notin Routers => Len(slot.profiles) = 1

\* The inductive invariant behind these.  Handlers carry what their step needs;
CallOK(r) ==
  /\ r.pc # "idle" /\ r.job # "reset" => r.doc \in Docs /\ r.profile \in Profiles
  /\ r.pc \in Transitions => r.job # "none"
  /\ r.pc = "spawn" => r.job \in {"start", "reload"}
  /\ r.pc = "respec" => r.job = "reload"
  /\ r.pc \in {"render", "reserve", "reload_profile", "erase", "write", "reload"} => r.job # "reset"
  /\ r.proc # None => r.pc \in {"commit", "announce"} /\ r.job \in {"start", "reload"}
CallInv == \A c \in Callers : CallOK(call[c])

\* operations are fresh, distinct, and until shutdown the slot's;
OpsInv ==
  /\ \A c \in Callers : InTransition(c) => call[c].op \in 1..ops
  /\ \A c, d \in Callers : InTransition(c) /\ InTransition(d) /\ call[c].op = call[d].op => c = d
  /\ down = "up" => \A c \in Callers : InTransition(c) => slot.op = call[c].op
  /\ NoAbandonedReservation

\* the slot is nil, at rest or owned, with the process and the profiles that go
\* with it, and its process is older than its owner;
SlotInv ==
  /\ slot.state = "nil" => slot = NoSlot
  /\ slot.op # 0 <=> slot.state \in {"starting", "activating", "stopping"}
  /\ slot.state = "starting" => slot.process = None
  /\ slot.state \notin {"nil", "starting"} => slot.process \in Engines
  /\ slot.process # None => slot.process <= ops /\ (slot.op # 0 => slot.process < slot.op)
  /\ HeldOnce

Supervised(e) == e \in Engines /\ engine[e] \in {"live", "dead"}
Quiet(e) == e = None \/ engine[e] # "live"

\* the owner of the slot knows how many profiles it leaves behind, and has a
\* process to install or leaves the slot's in place;
OwnerOK(r) ==
  /\ r.pc \in {"respec", "stop"} \/ r.job = "stop" => slot.process \in Engines
  /\ r.job = "stop" /\ r.stop # None => Len(slot.profiles) = 1 /\ slot.profiles[1] = r.profile
  /\ r.job = "stop" /\ r.stop = None => r.pc = "commit" /\ Len(slot.profiles) > 1
  /\ r.job \in {"start", "reload"} /\ r.pc = "commit" =>
       (r.proc = None /\ slot.process # None) \/ (r.proc # None /\ r.proc = r.op)
OwnerInv == \A c \in Callers : InTransition(c) /\ Owns(c) => OwnerOK(call[c])

\* and until shutdown its engine, or the one its owner just spawned, is the only
\* one that can be live.
EngineOK(r) ==
  /\ r.pc \in {"respec", "stop"} => r.stop = slot.process
  /\ r.pc = "spawn" => Quiet(slot.process)
  /\ r.pc = "commit" /\ r.job \in {"start", "reload"} /\ r.proc = None => Supervised(slot.process)
  /\ r.pc = "commit" /\ r.job \in {"start", "reload"} /\ r.proc # None =>
       Supervised(r.proc) /\ Quiet(slot.process)
  /\ r.pc = "commit" /\ r.job = "stop" /\ r.stop = None => Supervised(slot.process)
  /\ r.pc = "commit" /\ r.job = "stop" /\ r.stop # None => Quiet(slot.process)
  /\ r.pc = "commit" /\ r.job = "reset" => Quiet(slot.process)
JustSpawned(e) ==
  \E c \in Callers : call[c].pc = "commit" /\ call[c].job \in {"start", "reload"} /\ call[c].proc = e
EngineInv ==
  down = "up" => /\ \A c \in Callers : EngineOK(call[c])
                 /\ Settled => Supervised(slot.process)
                 /\ \A e \in Live : e = slot.process \/ JustSpawned(e)

IInv == TypeOK /\ CallInv /\ OpsInv /\ SlotInv /\ OwnerInv /\ EngineInv

\* Only the owning operation may commit a result: while a transition owns the
\* slot, no other handler changes it, not even one whose operation was the owner
\* before (shutdown is the exception).
OnlyOwnerCommits ==
  [][slot.op # 0 /\ slot' # slot /\ down' = "up" =>
       \A c \in Callers : call'[c] # call[c] => call[c].op = slot.op]_vars

\* The slot implements the abstract lifecycle of one runtime.
Phase == CASE slot.state = "nil" -> "none"
           [] slot.state = "running" -> "serving"
           [] slot.state \in {"failed", "orphaned"} -> "stuck"
           [] OTHER -> "busy"
Power == IF down = "up" THEN "up" ELSE "down"
Lifecycle == INSTANCE RuntimeLifecycle
               WITH owner <- slot.op, issued <- ops, process <- slot.process, phase <- Phase, power <- Power
ImplementsLifecycle == Lifecycle!Spec

\* Every transition ends: a slot some operation owns comes to rest.
TransitionsEnd == (slot.op # 0) ~> (slot.op = 0)

\* slot.go:28 "address is where the process actually listens", and what joins are decided
\* by.  Not so: the commit of a reload leaves slot.address alone, so a write that moves the
\* first held profile makes it stale (slot_reload_moves.cfg).
AddressIsReal == Settled => slot.process \in Engines /\ bound[slot.process] = slot.address

\* manager.go:233 "DeleteProfile stops its backend runtime before deleting the
\* profile": no settled slot serves a profile that no longer exists.
DeletedIsNotServed ==
  Quiescent /\ Settled => \A i \in DOMAIN slot.profiles : store[slot.profiles[i]] # None

\* service.go:217 "Shutdown stops active runtimes, closes the server": when the
\* last handler has returned, no engine the manager started is left running.
ShutdownStopsEngines == down = "closed" /\ Quiescent => Live = {}

\* manager.go:656-658: a profile write that succeeds while no other handler is
\* busy has reached the running router ("without that, a profile created or
\* deleted while the router runs never appears in (or leaves) its model list").
WriteSucceeds(c) ==
  /\ call[c].kind = "put" /\ call'[c].pc = "idle"
  /\ call[c].pc = "write" \/ call[c].event = "running"
WriteReachesRouter ==
  [][\A c \in Callers :
       /\ WriteSucceeds(c) /\ \A d \in Callers \ {c} : At(d, "idle")
       /\ Settled /\ slot.backend = call[c].doc.backend /\ slot.backend \in Routers
       => loaded[slot.process] = generated[slot.backend]]_vars
=============================================================================
