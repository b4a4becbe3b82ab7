-------------------------- MODULE DocumentsProofs --------------------------
(* Theorems about Documents, for any profiles, configurations, callers and   *)
(* number of calls: what a listing finds, and what config.yaml is replaced   *)
(* by.  And, in its second half, about Generated, an instance of which       *)
(* stands beside Documents here: what a start makes of manual edits of       *)
(* models.ini.                                                               *)
EXTENDS Documents, TLAPS

Steps == {"idle", "look", "create", "write", "replace", "stop", "erase", "rmdir", "edit", "save", "unlink", "next"}
Stored == Docs \cup {NoDir, EmptyDir}
Targets == Paths \cup {"none"} \cup {Target(d.source) : d \in Docs}
OpType ==
  [kind : Kinds \cup {"none"}, pc : Steps, name : Names \cup {"none"}, doc : Docs \cup {NoDir}, target : Targets,
   todo : SUBSET (Names \cup Services), snap : Configs \cup {NoFile}]
MuType == [{"profiles", "config"} -> Callers \cup {"none"}]

\* The shape of the two stores and of the calls on them.
TypeOK ==
  /\ store \in [Names -> Stored] /\ config \in Configs \cup {NoFile}
  /\ op \in [Callers -> OpType] /\ mu \in MuType /\ up \in BOOLEAN /\ calls \in Nat

\* The two mutexes cover what their stores do in more than one step.
Locks ==
  \A c \in Callers :
    /\ op[c].pc \in {"write", "rmdir"} <=> mu["profiles"] = c
    /\ op[c].pc = "save" <=> mu["config"] = c

\* A step on a profile has one, and what Create is about to write was accepted.
Named(r) ==
  /\ r.pc \in {"look", "create", "write", "replace", "stop", "erase", "rmdir"} => r.name \in Names
  /\ r.pc \in {"look", "create", "write", "replace"} => r.doc \in Docs
  /\ r.pc = "write" => Accepted(r.doc)

\* The services a call asks for are known ones, and it enables a profile.
Asked(r) ==
  /\ r.kind = "enable" => r.name \in Names
  /\ r.kind = "services" => r.pc \in {"edit", "save"} /\ r.todo \subseteq Services \ {"bogus"}
  /\ r.pc = "idle" => r.kind = "none"

\* Only a cascade goes on to other profiles.
Cleaning(r) ==
  /\ r.pc = "next" => r.kind = "cascade"
  /\ r.kind = "cascade" => r.todo \subseteq Names

CallOK(r) == Named(r) /\ Asked(r) /\ Cleaning(r)
CallsOK == \A c \in Callers : CallOK(op[c])

\* A copy of config.yaml loads, and is what the file says until another process
\* replaces it.
Copies ==
  \A c \in Callers : op[c].pc = "save" => Loads(op[c].snap) /\ (c \notin stale => op[c].snap = config)

IInv == TypeOK /\ Locks /\ CallsOK /\ Copies /\ ListWorks
-----------------------------------------------------------------------------
(* How a call moves                                                        *)

\* The call of c is now r, and nobody else's has changed.
Becomes(c, r) == op' \in [Callers -> OpType] /\ op'[c] = r /\ \A x \in Callers \ {c} : op'[x] = op[x]

\* r is the call of c at another step.
At2(c, pc, r) ==
  /\ r \in OpType /\ r.pc = pc /\ r.kind = op[c].kind /\ r.name = op[c].name /\ r.doc = op[c].doc
  /\ r.target = op[c].target /\ r.todo = op[c].todo /\ r.snap = op[c].snap

LEMMA Moves ==
  ASSUME TypeOK, NEW c \in Callers
  PROVE  /\ \A pc \in Steps : Goto(c, pc) => \E r : Becomes(c, r) /\ At2(c, pc, r)
         /\ Return(c) => Becomes(c, Idle)
<1>1. op \in [Callers -> OpType] /\ op[c] \in OpType  BY DEF TypeOK
<1>2. ASSUME NEW pc \in Steps, Goto(c, pc) PROVE \E r : Becomes(c, r) /\ At2(c, pc, r)
  <2> DEFINE r == [op[c] EXCEPT !.pc = pc]
  <2>1. At2(c, pc, r)  BY <1>1 DEF At2, OpType
  <2>2. op' = [op EXCEPT ![c] = r]  BY <1>2 DEF Goto
  <2>3. r \in OpType  BY <2>1 DEF At2
  <2> HIDE DEF r
  <2> QED BY <1>1, <2>1, <2>2, <2>3 DEF Becomes
<1>3. Idle \in OpType  BY DEF Idle, OpType, Steps, Targets
<1> QED BY <1>1, <1>2, <1>3 DEF Return, Becomes
-----------------------------------------------------------------------------
(* The invariant, action by action                                          *)

Holding == {"write", "rmdir", "save"}

\* A call that begins, goes on or ends without a mutex, and leaves both stores alone.
LEMMA MovesFreely ==
  ASSUME IInv, NEW c \in Callers, NEW r, Becomes(c, r), CallOK(r), op[c].pc \notin Holding, r.pc \notin Holding,
         UNCHANGED <<store, config, mu, up, cut>>, stale' \in {stale, stale \ {c}}, calls' \in Nat
  PROVE  IInv'
<1>1. TypeOK'  BY DEF IInv, TypeOK, Becomes
<1>2. Locks'  BY DEF IInv, Locks, Becomes, Holding
<1>3. CallsOK'  BY DEF IInv, CallsOK, Becomes
<1>4. Copies'  BY DEF IInv, Copies, Becomes, Holding
<1>5. ListWorks'  BY DEF IInv, ListWorks, Becomes, Holding, Valid
<1> QED BY <1>1, <1>2, <1>3, <1>4, <1>5 DEF IInv

\* What the calls begin with.
LEMMA Requests == ASSUME IInv, NEW c \in Callers, Request(c) PROVE IInv'
<1>0. TypeOK /\ op \in [Callers -> OpType] /\ op[c] \in OpType /\ store \in [Names -> Stored] /\ calls \in Nat
  BY DEF IInv, TypeOK
<1>1. ASSUME NEW kind, NEW new \in OpType, Call(c, kind, new), new.pc \notin Holding,
             CallOK([new EXCEPT !.kind = kind])
      PROVE  IInv'
  <2> DEFINE r == [new EXCEPT !.kind = kind]
  <2>1. r \in OpType /\ r.pc = new.pc  BY <1>1 DEF Call, OpType
  <2>2. op' = [op EXCEPT ![c] = r] /\ op[c].pc = "idle" /\ calls' = calls + 1 /\ UNCHANGED <<store, config, mu, up, cut, stale>>
    BY <1>1 DEF Call
  <2>3. CallOK(r)  BY <1>1
  <2> HIDE DEF r
  <2>4. Becomes(c, r)  BY <1>0, <2>1, <2>2 DEF Becomes
  <2> QED BY <1>0, <1>1, <2>1, <2>2, <2>3, <2>4, MovesFreely DEF Holding
<1>2. "none" \in Targets /\ Idle \in OpType  BY DEF Targets, OpType, Idle, Steps
<1> USE DEF Idle, OpType, Steps, Holding, CallOK, Named, Asked, Cleaning
<1>3. ASSUME NEW n \in Names, NEW d \in Docs, PutCall(c, n, d) PROVE IInv'
  BY <1>1, <1>2, <1>3 DEF PutCall
<1>4. ASSUME NEW n \in Names, NEW p \in Paths, ApplyCall(c, n, p) PROVE IInv'
  BY <1>1, <1>2, <1>4 DEF ApplyCall
<1>5. ASSUME NEW n \in Names, DeleteCall(c, n) PROVE IInv'
  BY <1>1, <1>2, <1>5 DEF DeleteCall
<1>6. ASSUME NEW n \in Names, CleanupCall(c, n) PROVE IInv'
  <2>1. Target(store[n].source) \in Targets  BY <1>6 DEF CleanupCall, Valid, Targets
  <2> DEFINE new == [Idle EXCEPT !.pc = "stop", !.name = n, !.target = Target(store[n].source)]
  <2>3. new \in OpType  BY <1>0, <1>2, <2>1
  <2>4. CallOK([new EXCEPT !.kind = "cleanup"])  OBVIOUS
  <2>5. Call(c, "cleanup", new) /\ new.pc = "stop"  BY <1>6 DEF CleanupCall
  <2> QED BY <1>1, <2>3, <2>4, <2>5
<1>7. ASSUME NEW p \in Paths, NEW cascade \in BOOLEAN, CascadeCall(c, p, cascade) PROVE IInv'
  <2>1. p \in Targets /\ {n \in Names : Uses(n, p)} \in SUBSET (Names \cup Services)  BY DEF Targets
  <2> QED BY <1>1, <1>2, <1>7, <2>1 DEF CascadeCall
<1>8. ASSUME NEW n \in Names, NEW enabled \in BOOLEAN, AutostartCall(c, n, enabled) PROVE IInv'
  BY <1>1, <1>2, <1>8 DEF AutostartCall
<1>9. ASSUME NEW s \in SUBSET Services, ServicesCall(c, s) PROVE IInv'
  BY <1>1, <1>2, <1>9 DEF ServicesCall
<1> QED BY <1>3, <1>4, <1>5, <1>6, <1>7, <1>8, <1>9 DEF Request

\* The steps of one call.
LEMMA StepsOfCall == ASSUME IInv, NEW c \in Callers, Step(c) PROVE IInv'
<1>0. /\ TypeOK /\ op \in [Callers -> OpType] /\ op[c] \in OpType /\ store \in [Names -> Stored] /\ mu \in MuType
      /\ calls \in Nat /\ config \in Configs \cup {NoFile} /\ Locks /\ CallOK(op[c]) /\ "none" \notin Callers
  BY DocumentsOK DEF IInv, TypeOK, CallsOK
<1>1. CallOK(Idle) /\ Idle.pc = "idle" /\ Idle \in OpType
  BY DEF Idle, CallOK, Named, Asked, Cleaning, OpType, Steps, Targets
<1>2. /\ \A pc \in Steps : Goto(c, pc) => \E r : Becomes(c, r) /\ At2(c, pc, r)
      /\ Return(c) => Becomes(c, Idle)
  BY <1>0, Moves
<1>3. ASSUME Return(c), op[c].pc \notin Holding, UNCHANGED <<store, config, mu, up, calls, cut>>, stale' \in {stale, stale \ {c}}
      PROVE  IInv'
  BY <1>0, <1>1, <1>2, <1>3, MovesFreely DEF Holding
<1>4. ASSUME NEW pc \in Steps, Goto(c, pc), op[c].pc \notin Holding, pc \notin Holding,
             UNCHANGED <<store, config, mu, up, calls, cut, stale>>,
             pc \in {"look", "create", "write", "replace", "stop", "erase", "rmdir"} => op[c].name \in Names,
             pc \in {"look", "create", "write", "replace"} => op[c].doc \in Docs,
             op[c].kind # "services", pc # "idle", pc = "next" => op[c].kind = "cascade"
      PROVE  IInv'
  <2>1. PICK r : Becomes(c, r) /\ At2(c, pc, r)  BY <1>2, <1>4
  <2>2. CallOK(r)  BY <1>0, <1>4, <2>1 DEF CallOK, Named, Asked, Cleaning, At2, Holding
  <2> QED BY <1>0, <1>4, <2>1, <2>2, MovesFreely DEF At2
<1>5. op[c].pc \in Steps \ {"idle", "edit", "save"} => op[c].kind # "services"
  BY <1>0 DEF CallOK, Asked
<1>6. CASE Look(c)
  BY <1>0, <1>3, <1>4, <1>5, <1>6 DEF Look, At, CallOK, Named, Holding, Steps
<1>7. CASE Stop(c)
  BY <1>0, <1>3, <1>4, <1>5, <1>7 DEF Stop, At, CallOK, Named, Holding, Steps
<1>8. CASE Unlink(c)
  BY <1>0, <1>3, <1>4, <1>5, <1>8 DEF Unlink, At, Holding, Steps
<1>9. CASE NextProfile(c)
  <2>1. CASE Return(c)  BY <1>3, <1>9, <2>1 DEF NextProfile, At, Holding
  <2>2. ASSUME NEW n \in op[c].todo, Valid(n), op' = [op EXCEPT ![c].pc = "stop", ![c].name = n, ![c].todo = @ \ {n}]
        PROVE  IInv'
    <3> DEFINE r == [op[c] EXCEPT !.pc = "stop", !.name = n, !.todo = @ \ {n}]
    <3>1. op[c].kind = "cascade" /\ op[c].pc = "next" /\ UNCHANGED <<store, config, mu, up, calls, cut, stale>>
      BY <1>0, <1>9 DEF NextProfile, At, CallOK, Cleaning
    <3>2. n \in Names  BY <1>0, <2>2, <3>1 DEF CallOK, Cleaning
    <3>3. r \in OpType /\ r.pc = "stop" /\ r.name = n /\ r.kind = "cascade" /\ r.todo \subseteq Names
      BY <1>0, <3>1, <3>2 DEF OpType, Steps, CallOK, Cleaning
    <3>4. CallOK(r)  BY <3>2, <3>3 DEF CallOK, Named, Asked, Cleaning
    <3>5. op' = [op EXCEPT ![c] = r]  BY <2>2
    <3> HIDE DEF r
    <3>6. Becomes(c, r)  BY <1>0, <3>3, <3>5 DEF Becomes
    <3> QED BY <1>0, <3>1, <3>3, <3>4, <3>6, MovesFreely DEF Holding
  <2> QED BY <1>9, <2>1, <2>2 DEF NextProfile
<1>10. CASE Create(c) \/ Erase(c)
  <2>1. /\ op[c].pc \in {"create", "erase"} /\ mu["profiles"] = "none" /\ op[c].name \in Names
        /\ UNCHANGED <<config, up, calls, cut, stale>>
    BY <1>0, <1>10 DEF Create, Erase, At, Free, CallOK, Named
  <2>2. CASE Return(c) /\ UNCHANGED <<store, mu>>  BY <1>3, <2>1, <2>2 DEF Holding
  <2>3. ASSUME NEW pc \in {"write", "rmdir"}, Goto(c, pc), pc = "write" => op[c].pc = "create" /\ Accepted(op[c].doc),
               store' = [store EXCEPT ![op[c].name] = EmptyDir], mu' = [mu EXCEPT !.profiles = c]
        PROVE  IInv'
    <3>1. PICK r : Becomes(c, r) /\ At2(c, pc, r)  BY <1>2, <2>3 DEF Steps
    <3>2. CallOK(r)  BY <1>0, <1>5, <2>1, <2>3, <3>1 DEF CallOK, Named, Asked, Cleaning, At2, Steps
    <3>3. mu' \in MuType /\ mu'["profiles"] = c /\ mu'["config"] = mu["config"]  BY <1>0, <2>3 DEF MuType
    <3>4. store' \in [Names -> Stored] /\ \A n \in Names \ {op[c].name} : store'[n] = store[n]
      BY <1>0, <2>1, <2>3 DEF Stored
    <3>5. TypeOK'  BY <1>0, <2>1, <3>1, <3>3, <3>4 DEF TypeOK, Becomes
    <3>6. Locks'  BY <1>0, <2>1, <2>3, <3>1, <3>3 DEF Locks, Becomes, At2
    <3>7. CallsOK'  BY <3>1, <3>2 DEF IInv, CallsOK, Becomes
    <3>8. Copies'  BY <2>1, <2>3, <3>1 DEF IInv, Copies, Becomes, At2
    <3>9. ListWorks'  BY <1>0, <2>1, <2>3, <3>1, <3>4 DEF IInv, ListWorks, Becomes, At2, Valid
    <3> QED BY <3>5, <3>6, <3>7, <3>8, <3>9 DEF IInv
  <2>4. CASE Create(c)  BY <2>1, <2>2, <2>3, <2>4 DEF Create, At
  <2>5. CASE Erase(c)  BY <2>1, <2>2, <2>3, <2>5 DEF Erase, At
  <2> QED BY <1>10, <2>4, <2>5
<1>11. CASE Write(c) \/ RemoveDir(c)
  <2>1. /\ op[c].pc \in {"write", "rmdir"} /\ mu["profiles"] = c /\ op[c].name \in Names
        /\ mu' = [mu EXCEPT !.profiles = "none"] /\ UNCHANGED <<config, up, calls, stale>>
    BY <1>0, <1>11 DEF Write, RemoveDir, At, CallOK, Named, Locks
  <2>2. PICK r : Becomes(c, r) /\ CallOK(r) /\ r.pc \notin Holding
    <3>1. CASE Return(c)  BY <1>1, <1>2, <3>1 DEF Holding
    <3>2. CASE Goto(c, "edit")
      <4>1. PICK r : Becomes(c, r) /\ At2(c, "edit", r)  BY <1>2, <3>2 DEF Steps
      <4>2. CallOK(r)  BY <1>0, <1>5, <2>1, <4>1 DEF CallOK, Named, Asked, Cleaning, At2, Steps
      <4> QED BY <4>1, <4>2 DEF At2, Holding
    <3> QED BY <1>11, <3>1, <3>2 DEF Write, RemoveDir
  <2>3. \/ cut' = cut \cup {op[c].name} /\ store' = store
        \/ cut' = cut /\ \E d \in Docs : Accepted(d) /\ store' = [store EXCEPT ![op[c].name] = d]
        \/ cut' = cut /\ store' = [store EXCEPT ![op[c].name] = NoDir]
    BY <1>0, <1>11 DEF Write, RemoveDir, At, CallOK, Named
  <2>4. mu' \in MuType /\ mu'["profiles"] = "none" /\ mu'["config"] = mu["config"]  BY <1>0, <2>1 DEF MuType
  <2>5. /\ store' \in [Names -> Stored] /\ \A n \in Names \ {op[c].name} : store'[n] = store[n] /\ (n \in cut' <=> n \in cut)
        /\ op[c].name \in cut' \/ store'[op[c].name] = NoDir \/ (store'[op[c].name] \in Docs /\ Accepted(store'[op[c].name]))
        /\ \A n \in cut : n \in cut'
    BY <1>0, <2>1, <2>3 DEF Stored
  <2>6. TypeOK'  BY <1>0, <2>1, <2>2, <2>4, <2>5 DEF TypeOK, Becomes
  <2>7. Locks'  BY <1>0, <2>1, <2>2, <2>4 DEF Locks, Becomes, Holding
  <2>8. CallsOK'  BY <2>2 DEF IInv, CallsOK, Becomes
  <2>9. Copies'  BY <2>1, <2>2 DEF IInv, Copies, Becomes, Holding
  <2>10. ListWorks'
    <3> SUFFICES ASSUME NEW n \in Names, n \notin cut'
                 PROVE  (store[n] = NoDir \/ Valid(n) \/ \E x \in Callers : op[x].name = n /\ op[x].pc \in {"write", "rmdir"})'
      BY DEF ListWorks
    <3>1. CASE n = op[c].name  BY <2>5, <3>1 DEF Valid
    <3>2. CASE n # op[c].name  BY <1>0, <2>2, <2>5, <3>2 DEF IInv, ListWorks, Valid, Becomes
    <3> QED BY <3>1, <3>2
  <2> QED BY <2>6, <2>7, <2>8, <2>9, <2>10 DEF IInv
<1>12. CASE Replace(c)
  <2>1. /\ op[c].pc = "replace" /\ mu["profiles"] = "none" /\ op[c].name \in Names /\ op[c].doc \in Docs
        /\ UNCHANGED <<config, mu, up, calls, cut, stale>> /\ Becomes(c, Idle)
    BY <1>0, <1>2, <1>12 DEF Replace, At, Free, CallOK, Named
  <2>2. \/ store' = store
        \/ \E d \in Docs : Accepted(d) /\ store' = [store EXCEPT ![op[c].name] = d]
    BY <1>12, <2>1 DEF Replace, FailedWrite, Valid
  <2>3. /\ store' \in [Names -> Stored] /\ \A n \in Names \ {op[c].name} : store'[n] = store[n]
        /\ store'[op[c].name] = store[op[c].name] \/ (store'[op[c].name] \in Docs /\ Accepted(store'[op[c].name]))
    BY <1>0, <2>1, <2>2 DEF Stored
  <2>4. TypeOK'  BY <1>0, <2>1, <2>3 DEF TypeOK, Becomes
  <2>5. Locks'  BY <1>0, <1>1, <2>1 DEF Locks, Becomes
  <2>6. CallsOK'  BY <1>1, <2>1 DEF IInv, CallsOK, Becomes
  <2>7. Copies'  BY <1>1, <2>1 DEF IInv, Copies, Becomes
  <2>8. ListWorks'
    <3> SUFFICES ASSUME NEW n \in Names, n \notin cut'
                 PROVE  (store[n] = NoDir \/ Valid(n) \/ \E x \in Callers : op[x].name = n /\ op[x].pc \in {"write", "rmdir"})'
      BY DEF ListWorks
    <3>1. \A x \in Callers : op[x].pc \notin {"write", "rmdir"}  BY <1>0, <2>1 DEF Locks
    <3>2. store[n] = NoDir \/ Valid(n)  BY <2>1, <3>1 DEF IInv, ListWorks
    <3> QED BY <2>3, <3>2 DEF Valid
  <2> QED BY <2>4, <2>5, <2>6, <2>7, <2>8 DEF IInv
<1>13. CASE ReadConfig(c)
  <2>1. op[c].pc = "edit" /\ mu["config"] = "none" /\ stale' = stale \ {c} /\ UNCHANGED <<store, config, up, calls, cut>>
    BY <1>13 DEF ReadConfig, At, Free
  <2>2. CASE Return(c) /\ UNCHANGED mu  BY <1>3, <2>1, <2>2 DEF Holding
  <2>3. CASE Loads(config) /\ op' = [op EXCEPT ![c].pc = "save", ![c].snap = config] /\ mu' = [mu EXCEPT !.config = c]
    <3> DEFINE r == [op[c] EXCEPT !.pc = "save", !.snap = config]
    <3>1. /\ r \in OpType /\ r.pc = "save" /\ r.kind = op[c].kind /\ r.name = op[c].name /\ r.todo = op[c].todo
          /\ r.snap = config /\ r.target = op[c].target
      BY <1>0 DEF OpType, Steps
    <3>2. op' = [op EXCEPT ![c] = r]  BY <2>3
    <3> HIDE DEF r
    <3>3. Becomes(c, r)  BY <1>0, <3>1, <3>2 DEF Becomes
    <3>4. CallOK(r)  BY <1>0, <2>1, <3>1 DEF CallOK, Named, Asked, Cleaning
    <3>5. mu' \in MuType /\ mu'["config"] = c /\ mu'["profiles"] = mu["profiles"]  BY <1>0, <2>3 DEF MuType
    <3>6. TypeOK'  BY <1>0, <2>1, <3>3, <3>5 DEF TypeOK, Becomes
    <3>7. Locks'  BY <1>0, <2>1, <3>1, <3>3, <3>5 DEF Locks, Becomes
    <3>8. CallsOK'  BY <3>3, <3>4 DEF IInv, CallsOK, Becomes
    <3>9. Copies'  BY <2>1, <2>3, <3>1, <3>3 DEF IInv, Copies, Becomes
    <3>10. ListWorks'  BY <2>1, <3>1, <3>3 DEF IInv, ListWorks, Becomes, Valid
    <3> QED BY <3>6, <3>7, <3>8, <3>9, <3>10 DEF IInv
  <2> QED BY <1>13, <2>2, <2>3 DEF ReadConfig
<1>14. CASE SaveConfig(c)
  <2>1. /\ op[c].pc = "save" /\ mu["config"] = c /\ mu' = [mu EXCEPT !.config = "none"]
        /\ UNCHANGED <<store, up, calls, cut, stale>>
    BY <1>0, <1>14 DEF SaveConfig, At, Locks
  <2>2. PICK r : Becomes(c, r) /\ CallOK(r) /\ r.pc \notin Holding
    <3>1. CASE Return(c)  BY <1>1, <1>2, <3>1 DEF Holding
    <3>2. ASSUME NEW pc \in {"unlink", "next"}, Goto(c, pc), op[c].kind # "services", pc = "next" => op[c].kind = "cascade"
          PROVE  \E r : Becomes(c, r) /\ CallOK(r) /\ r.pc \notin Holding
      <4>1. PICK r : Becomes(c, r) /\ At2(c, pc, r)  BY <1>2, <3>2 DEF Steps
      <4>2. CallOK(r)  BY <1>0, <3>2, <4>1 DEF CallOK, Named, Asked, Cleaning, At2
      <4> QED BY <3>2, <4>1, <4>2 DEF At2, Holding
    <3>3. AfterDelete(c) => \/ Return(c)
                            \/ op[c].kind = "cleanup" /\ Goto(c, "unlink")
                            \/ op[c].kind = "cascade" /\ Goto(c, "next")
      BY DEF AfterDelete
    <3> QED BY <1>14, <3>1, <3>2, <3>3 DEF SaveConfig
  <2>3. config' \in Configs \cup {NoFile}
    <3>1. op[c].snap \in Configs  BY <1>0, <2>1 DEF IInv, Copies, Loads, OpType
    <3>2. Edited(c, op[c].snap) \in Configs
      <4>1. /\ op[c].kind = "enable" => op[c].name \in Names
            /\ op[c].kind = "services" => op[c].todo \subseteq Services
        BY <1>0 DEF CallOK, Asked
      <4>2. CASE op[c].kind = "enable"  BY <3>1, <4>1, <4>2 DEF Edited, Configs
      <4>3. CASE op[c].kind = "services"  BY <3>1, <4>1, <4>3 DEF Edited, Configs
      <4>4. CASE op[c].kind \notin {"enable", "services"}  BY <3>1, <4>4 DEF Edited, Configs
      <4> QED BY <4>2, <4>3, <4>4
    <3> QED BY <1>0, <1>14, <3>2 DEF SaveConfig, FailedWrite
  <2>4. mu' \in MuType /\ mu'["config"] = "none" /\ mu'["profiles"] = mu["profiles"]  BY <1>0, <2>1 DEF MuType
  <2>5. TypeOK'  BY <1>0, <2>1, <2>2, <2>3, <2>4 DEF TypeOK, Becomes
  <2>6. Locks'  BY <1>0, <2>1, <2>2, <2>4 DEF Locks, Becomes, Holding
  <2>7. CallsOK'  BY <2>2 DEF IInv, CallsOK, Becomes
  <2>8. Copies'
    <3>1. \A x \in Callers : op'[x].pc # "save"  BY <1>0, <2>4, <2>6 DEF Locks
    <3> QED BY <3>1 DEF Copies
  <2>9. ListWorks'  BY <2>1, <2>2 DEF IInv, ListWorks, Becomes, Valid
  <2> QED BY <2>5, <2>6, <2>7, <2>8, <2>9 DEF IInv
<1> QED BY <1>6, <1>7, <1>8, <1>9, <1>10, <1>11, <1>12, <1>13, <1>14 DEF Step

\* What the other processes, the user and the daemon's death do.
LEMMA StepsOfOthers ==
  ASSUME IInv,
         \/ \E r \in Remedies : Repair(r)
         \/ \E f \in HandCfgs : HandEditConfig(f)
         \/ \E n \in Names, d \in Docs : HandEditProfile(n, d)
         \/ \E p \in Paths : Downloaded(p)
         \/ Crash \/ Restart
  PROVE  IInv'
<1>0. /\ TypeOK /\ op \in [Callers -> OpType] /\ store \in [Names -> Stored] /\ mu \in MuType
      /\ calls \in Nat /\ config \in Configs \cup {NoFile}
  BY DEF IInv, TypeOK
<1>1. ASSUME config' \in Configs, stale' = stale \cup Overtaken, calls' \in Nat, UNCHANGED <<store, op, mu, up, cut>>
      PROVE  IInv'
  <2>1. TypeOK'  BY <1>0, <1>1 DEF TypeOK
  <2>2. Locks' /\ CallsOK'  BY <1>1 DEF IInv, Locks, CallsOK
  <2>3. Copies'  BY <1>1 DEF IInv, Copies, Overtaken
  <2>4. ListWorks'  BY <1>1 DEF IInv, ListWorks, Valid
  <2> QED BY <2>1, <2>2, <2>3, <2>4 DEF IInv
<1>2. ASSUME NEW r \in Remedies, Repair(r) PROVE IInv'
  <2>1. config \in Configs  BY <1>0, <1>2 DEF Repair
  <2>2. Repaired(r, config) \in Configs  BY <2>1 DEF Repaired, Remedies, Configs
  <2> QED BY <1>0, <1>1, <1>2, <2>2 DEF Repair
<1>3. ASSUME NEW f \in HandCfgs, HandEditConfig(f) PROVE IInv'
  BY <1>0, <1>1, <1>3, DocumentsOK DEF HandEditConfig
<1>4. ASSUME NEW n \in Names, NEW d \in Docs, HandEditProfile(n, d) PROVE IInv'
  <2>1. /\ store' = [store EXCEPT ![n] = d] /\ cut' = cut \cup {n} /\ calls' = calls + 1
        /\ UNCHANGED <<config, op, mu, up, stale>>
    BY <1>4 DEF HandEditProfile
  <2>2. TypeOK'  BY <1>0, <2>1 DEF TypeOK, Stored
  <2>3. Locks' /\ CallsOK' /\ Copies'  BY <2>1 DEF IInv, Locks, CallsOK, Copies
  <2>4. ListWorks'  BY <1>0, <2>1 DEF IInv, ListWorks, Valid
  <2> QED BY <2>2, <2>3, <2>4 DEF IInv
<1>5. ASSUME NEW p \in Paths, Downloaded(p) PROVE IInv'
  <2>1. UNCHANGED <<store, config, op, mu, up, calls, cut, stale>>  BY <1>5 DEF Downloaded
  <2> QED BY <2>1 DEF IInv, TypeOK, Locks, CallsOK, Copies, ListWorks, Valid
<1>6. CASE Crash
  <2>1. /\ op' = [c \in Callers |-> Idle] /\ mu' = [m \in DOMAIN mu |-> "none"] /\ stale' = {} /\ up' = FALSE
        /\ cut' = cut \cup {op[c].name : c \in {x \in Callers : op[x].pc \in {"write", "rmdir"}}}
        /\ UNCHANGED <<store, config, calls>>
    BY <1>6 DEF Crash
  <2>2. CallOK(Idle) /\ Idle.pc = "idle" /\ Idle \in OpType
    BY DEF Idle, CallOK, Named, Asked, Cleaning, OpType, Steps, Targets
  <2>3. mu' \in MuType /\ mu'["profiles"] = "none" /\ mu'["config"] = "none"  BY <1>0, <2>1 DEF MuType
  <2>4. op' \in [Callers -> OpType] /\ \A c \in Callers : op'[c] = Idle  BY <2>1, <2>2
  <2>5. TypeOK'  BY <1>0, <2>1, <2>3, <2>4 DEF TypeOK
  <2>6. Locks' /\ CallsOK' /\ Copies'  BY <2>2, <2>3, <2>4, DocumentsOK DEF Locks, CallsOK, Copies
  <2>7. ListWorks'
    <3> SUFFICES ASSUME NEW n \in Names, n \notin cut' PROVE (store[n] = NoDir \/ Valid(n))'
      BY DEF ListWorks
    <3>1. n \notin cut /\ ~ \E c \in Callers : op[c].name = n /\ op[c].pc \in {"write", "rmdir"}  BY <2>1
    <3> QED BY <2>1, <3>1 DEF IInv, ListWorks, Valid
  <2> QED BY <2>5, <2>6, <2>7 DEF IInv
<1>7. CASE Restart
  <2>1. up' = TRUE /\ UNCHANGED <<store, config, op, mu, calls, cut, stale>>  BY <1>7 DEF Restart
  <2> QED BY <2>1 DEF IInv, TypeOK, Locks, CallsOK, Copies, ListWorks, Valid
<1> QED BY <1>2, <1>3, <1>4, <1>5, <1>6, <1>7

LEMMA Initially == Init => IInv
<1> SUFFICES ASSUME Init PROVE IInv  OBVIOUS
<1>1. CallOK(Idle) /\ Idle.pc = "idle" /\ Idle \in OpType
  BY DEF Idle, CallOK, Named, Asked, Cleaning, OpType, Steps, Targets
<1>2. Default \in Configs  BY DEF Default, Configs
<1>3. op = [c \in Callers |-> Idle] /\ mu = [m \in {"profiles", "config"} |-> "none"]  BY DEF Init
<1>4. TypeOK  BY <1>1, <1>2, <1>3 DEF Init, TypeOK, MuType, Stored
<1>5. Locks /\ CallsOK /\ Copies  BY <1>1, <1>3, DocumentsOK DEF Locks, CallsOK, Copies
<1>6. ListWorks  BY DEF Init, ListWorks, Valid, Accepted
<1> QED BY <1>4, <1>5, <1>6 DEF IInv

LEMMA Preserved == IInv /\ [Next]_vars => IInv'
<1>1. IInv /\ Next => IInv'  BY Requests, StepsOfCall, StepsOfOthers DEF Next
<1>2. IInv /\ UNCHANGED vars => IInv'
  BY DEF vars, IInv, TypeOK, Locks, CallsOK, Copies, ListWorks, Valid
<1> QED BY <1>1, <1>2

LEMMA Invariance == Spec => []IInv
BY Initially, Preserved, PTL DEF Spec
-----------------------------------------------------------------------------
(* Theorems                                                                *)

\* A listing fails only on a directory that a create or a delete is in the middle
\* of, or that one cut short, or a user, has left (Store.Create, Delete, List).
THEOREM ListingWorks == Spec => []ListWorks
BY Invariance, PTL DEF IInv

\* An edit of a configuration that loads, as a call makes it, loads.
LEMMA EditsLoad ==
  ASSUME IInv, NEW c \in Callers, op[c].pc = "save"
  PROVE  Loads(Edited(c, op[c].snap))
<1>1. op[c].snap \in Configs /\ Loads(op[c].snap)
  BY DEF IInv, TypeOK, OpType, Copies, Loads
<1>2. op[c].kind = "services" => op[c].todo \subseteq Services \ {"bogus"}
  BY DEF IInv, CallsOK, CallOK, Asked
<1> DEFINE snap == op[c].snap
           new  == Edited(c, op[c].snap)
<1>3. /\ new.bind = snap.bind /\ new.noauth = snap.noauth /\ new.allow = snap.allow
      /\ new.services \in {snap.services, op[c].todo}
      /\ new.services = op[c].todo => new.services = snap.services \/ op[c].kind = "services"
  BY <1>1 DEF Edited, Configs
<1>4. new \in Configs
  <2>1. op[c].kind = "enable" => op[c].name \in Names  BY DEF IInv, CallsOK, CallOK, Asked
  <2> QED BY <1>1, <1>2, <2>1 DEF Edited, Configs
<1> SUFFICES Loads(new)  OBVIOUS
<1> HIDE DEF new
<1> QED BY <1>1, <1>2, <1>3, <1>4, DocumentsOK DEF Loads, Exposed

\* Who replaces config.yaml: a call that saves, a repair, or a user.
LEMMA WhoWrites ==
  ASSUME Next, config' # config
  PROVE  \/ \E c \in Callers : SaveConfig(c)
         \/ \E r \in Remedies : Repair(r)
         \/ \E f \in HandCfgs : HandEditConfig(f)
<1>1. ASSUME NEW c \in Callers, Request(c) PROVE UNCHANGED config
  BY <1>1 DEF Request, PutCall, ApplyCall, DeleteCall, CleanupCall, CascadeCall, AutostartCall, ServicesCall, Call
<1>2. ASSUME NEW c \in Callers, Step(c) PROVE UNCHANGED config \/ SaveConfig(c)
  BY <1>2 DEF Step, Look, Create, Write, Replace, Stop, Erase, RemoveDir, Unlink, NextProfile, ReadConfig
<1> QED BY <1>1, <1>2 DEF Next, HandEditProfile, Downloaded, Crash, Restart

\* No program writes a config.yaml that does not load: an edit starts from a copy
\* that loaded when it was read and adds nothing config.Parse refuses, and a
\* repair is written only after it loads (applyDocument, doctor's repairs).
THEOREM WrittenConfigsLoad == Spec => WritesLoad
<1>1. IInv /\ [Next]_vars => (config' # config => Loads(config') \/ calls' # calls)
  <2> SUFFICES ASSUME IInv, Next, config' # config PROVE Loads(config') \/ calls' # calls
    BY DEF vars
  <2>1. ASSUME NEW c \in Callers, SaveConfig(c) PROVE Loads(config')
    BY <2>1, EditsLoad DEF SaveConfig, At, FailedWrite
  <2>2. ASSUME NEW r \in Remedies, Repair(r) PROVE Loads(config')
    BY <2>2 DEF Repair
  <2>3. ASSUME NEW f \in HandCfgs, HandEditConfig(f) PROVE calls' # calls
    BY <2>3 DEF IInv, TypeOK, HandEditConfig
  <2> QED BY <2>1, <2>2, <2>3, WhoWrites
<1> QED BY <1>1, Invariance, PTL DEF Spec, WritesLoad

\* A call's read-modify-write of config.yaml is applied to the file as it is,
\* unless another process replaced it since the read: the store's mutex keeps
\* the daemon's calls apart from the read to the write.
THEOREM EditsAreApplied == Spec => EditsKeepOthers
<1>1. IInv /\ [Next]_vars =>
        \A c \in Callers : config' # config /\ op[c].pc = "save" /\ op'[c].pc # "save" /\ c \notin stale
          => config' = Edited(c, config)
  <2> SUFFICES ASSUME IInv, Next, NEW c \in Callers, config' # config, op[c].pc = "save", op'[c].pc # "save", c \notin stale
               PROVE  config' = Edited(c, config)
    BY DEF vars
  <2>1. ASSUME NEW x \in Callers, SaveConfig(x) PROVE x = c
    BY <2>1 DEF IInv, Locks, SaveConfig, At
  <2>2. ~ \E r \in Remedies : Repair(r)  BY DEF Repair
  <2>3. ~ \E f \in HandCfgs : HandEditConfig(f)  BY DEF HandEditConfig
  <2>4. SaveConfig(c)  BY <2>1, <2>2, <2>3, WhoWrites
  <2>5. op[c].snap = config  BY DEF IInv, Copies
  <2> QED BY <2>4, <2>5 DEF SaveConfig, FailedWrite
<1> QED BY <1>1, Invariance, PTL DEF Spec, EditsKeepOthers
-----------------------------------------------------------------------------
(* models.ini, its baseline and the profiles (Generated), for any profiles,  *)
(* keys, aliases and values: the proofs that a start merges manual edits.    *)
(* The handler of that module is the variable handler here.                  *)

CONSTANTS RawKeys, Canon, Values, Sources, Refs, PathOf, Scalar, No, NoSection, NoProfile, BadFile, MaxEdits
VARIABLES prof, ini, base, gen, hand, handler, edits

Gen == INSTANCE Generated WITH op <- handler

\* What a key of a section, and a section, may hold; and the shape of the state.
Text == Values \cup {No}
Spot(k) == IF k = "model" THEN Sources \cup {No} ELSE Text
Sections == {s \in [Gen!Keys -> Values \cup Sources \cup {No}] : \A k \in Gen!Keys : s[k] \in Spot(k)}
Contents == [Names -> Sections \cup {NoSection}]
ImportType ==
  [pc : {"idle", "import", "panic", "replace", "render", "ini", "base"},
   adopt : [Names -> Gen!Profiles \cup {NoProfile}], todo : SUBSET Names, files : Contents \cup {NoFile},
   seen : Contents \cup {NoFile}, was : [Names -> Gen!Profiles \cup {NoProfile}] \cup {NoFile}, at : Nat]
GenTypeOK ==
  /\ prof \in [Names -> Gen!Profiles \cup {NoProfile}]
  /\ ini \in Contents \cup {NoFile, BadFile} /\ base \in Contents \cup {NoFile} /\ gen \in Contents \cup {NoFile}
  /\ handler \in ImportType /\ edits \in Nat /\ hand \subseteq Names

\* What a call that imports has done with each profile.
ImportOf(f, b, p, n) ==
  LET w == Gen!Section(p[n])
      keys == Gen!Adopted(b[n], f[n], w)
  IN IF p[n] = NoProfile \/ f[n] = NoSection THEN NoProfile
     ELSE IF f[n] = w \/ keys = {} THEN NoProfile
     ELSE Gen!Adopt(p[n], f[n], keys)
Done(n) ==
  IF n \notin handler.todo /\ handler.adopt[n] # NoProfile /\ Gen!Accepts(handler.adopt[n]) THEN handler.adopt[n]
  ELSE handler.was[n]

\* While a start replaces and renders: what it adopts is the import of what it
\* read, it has done so for every profile it is through with, and all of this
\* holds of the profiles on disk as long as nobody else has edited one.
Importing ==
  /\ handler.pc \in {"import", "panic"} => handler.seen = NoFile
  /\ handler.pc = "idle" => handler.seen = NoFile
  /\ handler.pc \in {"replace", "render"} /\ handler.seen # NoFile =>
       /\ handler.seen \in Contents /\ base \in Contents /\ handler.was \in [Names -> Gen!Profiles \cup {NoProfile}]
       /\ \A n \in Names : handler.was[n] # NoProfile => Gen!Accepts(handler.was[n])
       /\ \A n \in Names : handler.adopt[n] = ImportOf(handler.seen, base, handler.was, n)
       /\ handler.todo \subseteq {n \in Names : handler.adopt[n] # NoProfile}
       /\ handler.at <= edits
       /\ handler.at = edits => \A n \in Names : prof[n] = Done(n)
       /\ handler.pc = "render" => handler.todo = {}
  /\ handler.pc = "replace" => handler.seen # NoFile

\* A section that nobody has edited is as it was generated; and what a start still has to
\* replace was edited, or the baseline and the profile both differ from what was generated.
Moved(n) == base[n] # gen[n] /\ Gen!Section(handler.was[n]) # gen[n]
Unedited ==
  /\ Gen!HasFile(ini) => gen \in Contents /\ \A n \in Names \ hand : ini[n] = gen[n]
  /\ handler.pc = "replace" => \A n \in handler.todo : n \in hand \/ Moved(n)
GenIInv == GenTypeOK /\ Importing /\ Unedited

\* Canonical keys are keys, and their own canonical form.
LEMMA KeysOK ==
  ASSUME Gen!GeneratedOK PROVE Gen!Keys \subseteq RawKeys /\ "model" \in Gen!Keys /\ \A k \in Gen!Keys : Canon[k] = k
BY Gen!GeneratedOK DEF Gen!Keys, Gen!GeneratedOK

\* The section of a profile is a section, and what is adopted leaves a profile.
LEMMA SectionOK == ASSUME Gen!GeneratedOK, NEW p \in Gen!Profiles PROVE Gen!Section(p) \in Sections
<1>1. \A k \in Gen!Keys : Gen!Section(p)[k] \in Spot(k)
  <2> SUFFICES ASSUME NEW k \in Gen!Keys PROVE Gen!Section(p)[k] \in Spot(k)  OBVIOUS
  <2>1. CASE k = "model"
    <3>1. Gen!Section(p)[k] = IF p[k] = No THEN No ELSE PathOf[<<p[k], p["reference"]>>]  BY <2>1, KeysOK DEF Gen!Section
    <3>2. p[k] \in Sources \cup {No} /\ p["reference"] \in Refs \cup {No}  BY <2>1 DEF Gen!Profiles
    <3>3. p[k] # No => PathOf[<<p[k], p["reference"]>>] \in Sources
      <4>1. PathOf \in [Sources \X (Refs \cup {No}) -> Sources]  BY Gen!GeneratedOK DEF Gen!GeneratedOK
      <4> QED BY <3>2, <4>1
    <3> QED BY <2>1, <3>1, <3>2, <3>3 DEF Spot
  <2>2. CASE k # "model" /\ \E r \in RawKeys : Canon[r] = k /\ p[r] # No
    <3> DEFINE r == CHOOSE x \in RawKeys : Canon[x] = k /\ p[x] # No
    <3>1. r \in RawKeys /\ Canon[r] = k  BY <2>2
    <3>2. Gen!Section(p)[k] = p[r]  BY <2>2 DEF Gen!Section
    <3>3. r # "model"  BY <2>2, <3>1, Gen!GeneratedOK
    <3> QED BY <2>2, <3>1, <3>2, <3>3 DEF Gen!Profiles, Spot, Text
  <2>3. CASE k # "model" /\ ~\E r \in RawKeys : Canon[r] = k /\ p[r] # No
    BY <2>3 DEF Gen!Section, Spot, Text
  <2> QED BY <2>1, <2>2, <2>3
<1>2. \A k \in Gen!Keys : Spot(k) \subseteq Values \cup Sources \cup {No}  BY DEF Spot, Text
<1>3. Gen!Section(p) = [k \in Gen!Keys |-> Gen!Section(p)[k]]  BY DEF Gen!Section
<1> HIDE DEF Gen!Section
<1>4. Gen!Section(p) \in [Gen!Keys -> Values \cup Sources \cup {No}]  BY <1>1, <1>2, <1>3
<1> QED BY <1>1, <1>4 DEF Sections

LEMMA AdoptOK ==
  ASSUME Gen!GeneratedOK, NEW p \in Gen!Profiles, NEW e \in Sections, NEW keys \in SUBSET Gen!Keys
  PROVE  Gen!Adopt(p, e, keys) \in Gen!Profiles
<1>1. "model" \in RawKeys /\ "reference" \notin RawKeys  BY Gen!GeneratedOK DEF Gen!GeneratedOK
<1>2. \A r \in RawKeys : Gen!Adopt(p, e, keys)[r] \in IF r = "model" THEN Sources \cup {No} ELSE Values \cup {No}
  <2> SUFFICES ASSUME NEW r \in RawKeys
               PROVE  Gen!Adopt(p, e, keys)[r] \in IF r = "model" THEN Sources \cup {No} ELSE Values \cup {No}
    OBVIOUS
  <2>0. r \in Gen!Fields  BY DEF Gen!Fields
  <2>1. CASE r \notin keys  BY <2>0, <2>1 DEF Gen!Adopt, Gen!Profiles
  <2>2. CASE r \in keys /\ r = "model"  BY <2>0, <2>2 DEF Gen!Adopt, Sections, Spot
  <2>3. CASE r \in keys /\ r # "model"
    <3>1. e[r] \in Values \cup {No}  BY <2>3 DEF Sections, Spot, Text
    <3>2. Scalar \in [Values -> Values]  BY Gen!GeneratedOK DEF Gen!GeneratedOK
    <3> QED BY <2>0, <2>3, <3>1, <3>2 DEF Gen!Adopt
  <2> QED BY <2>1, <2>2, <2>3
<1>3. Gen!Adopt(p, e, keys) = [r \in Gen!Fields |-> Gen!Adopt(p, e, keys)[r]]  BY DEF Gen!Adopt
<1>5. Gen!Adopt(p, e, keys)["reference"] = p["reference"] /\ p["reference"] \in Refs \cup {No}
  BY <1>1, KeysOK DEF Gen!Adopt, Gen!Fields, Gen!Profiles
<1> DEFINE a == Gen!Adopt(p, e, keys)
<1> HIDE DEF a
<1>4. a \in [Gen!Fields -> Values \cup Sources \cup Refs \cup {No}]  BY <1>2, <1>3, <1>5 DEF a, Gen!Fields
<1> QED BY <1>1, <1>2, <1>4, <1>5 DEF Gen!Profiles, a

\* An import leaves a profile or nothing.
LEMMA ImportTyped ==
  ASSUME Gen!GeneratedOK, NEW f \in Contents, NEW b, NEW p \in [Names -> Gen!Profiles \cup {NoProfile}], NEW n \in Names
  PROVE  ImportOf(f, b, p, n) \in Gen!Profiles \cup {NoProfile}
<1> DEFINE keys == Gen!Adopted(b[n], f[n], Gen!Section(p[n]))
<1>1. keys \in SUBSET Gen!Keys  BY DEF Gen!Adopted, Gen!HandKeys
<1> HIDE DEF keys
<1>2. p[n] # NoProfile /\ f[n] # NoSection => Gen!Adopt(p[n], f[n], keys) \in Gen!Profiles
  BY <1>1, AdoptOK DEF Contents
<1> QED BY <1>2 DEF ImportOf, keys

\* A profile written canonically, and with a model, takes an edit of its section.
LEMMA AdoptShows ==
  ASSUME Gen!GeneratedOK, NEW p \in Gen!Profiles, Gen!Canonical(p), Gen!Accepts(p), NEW e \in Sections, e["model"] # No,
         NEW keys \in SUBSET Gen!Keys
  PROVE  /\ Gen!Accepts(Gen!Adopt(p, e, keys))
         /\ \A k \in Gen!Keys :
              Gen!Section(Gen!Adopt(p, e, keys))[k] = IF k \in keys THEN Gen!Shown(p, k, e[k]) ELSE Gen!Section(p)[k]
<1> DEFINE a == Gen!Adopt(p, e, keys)
<1>1. \A r \in RawKeys : a[r] = IF r \notin keys THEN p[r] ELSE IF r = "model" \/ e[r] = No THEN e[r] ELSE Scalar[e[r]]
  BY DEF Gen!Adopt, Gen!Fields
<1>r. a["reference"] = p["reference"]  BY KeysOK, Gen!GeneratedOK DEF Gen!Adopt, Gen!Fields, Gen!GeneratedOK
<1>2. a["model"] # No  BY <1>1, Gen!GeneratedOK DEF Gen!Accepts
<1>3. \A r \in RawKeys : a[r] = No \/ Canon[r] = r  BY <1>1, KeysOK DEF Gen!Canonical
<1> HIDE DEF a
<1>4. Gen!Accepts(a)
  <2>1. \A k, l \in RawKeys : k # l /\ Canon[k] = Canon[l] => a[k] = No \/ a[l] = No  BY <1>3
  <2> QED BY <1>2, <2>1 DEF Gen!Accepts
<1>5. ASSUME NEW q, q["model"] # No, \A r \in RawKeys : q[r] = No \/ Canon[r] = r, NEW k \in Gen!Keys
      PROVE  Gen!Section(q)[k] = IF k = "model" THEN PathOf[<<q[k], q["reference"]>>] ELSE q[k]
  <2>1. CASE k = "model"  BY <1>5, <2>1 DEF Gen!Section
  <2>2. CASE k # "model" /\ q[k] # No
    <3>1. k \in RawKeys /\ Canon[k] = k  BY KeysOK
    <3>2. \A r \in RawKeys : Canon[r] = k /\ q[r] # No => r = k  BY <1>5
    <3>3. (CHOOSE r \in RawKeys : Canon[r] = k /\ q[r] # No) = k  BY <2>2, <3>1, <3>2
    <3> QED BY <2>2, <3>1, <3>3 DEF Gen!Section
  <2>3. CASE k # "model" /\ q[k] = No
    <3>1. ~\E r \in RawKeys : Canon[r] = k /\ q[r] # No  BY <1>5, <2>3
    <3> QED BY <2>3, <3>1 DEF Gen!Section
  <2> QED BY <2>1, <2>2, <2>3
<1>6. \A k \in Gen!Keys : Gen!Section(a)[k] = IF k = "model" THEN PathOf[<<a[k], a["reference"]>>] ELSE a[k]  BY <1>2, <1>3, <1>5
<1>7. \A k \in Gen!Keys : Gen!Section(p)[k] = IF k = "model" THEN PathOf[<<p[k], p["reference"]>>] ELSE p[k]  BY <1>5 DEF Gen!Accepts, Gen!Canonical
<1>8. \A k \in Gen!Keys : Gen!Section(a)[k] = IF k \in keys THEN Gen!Shown(p, k, e[k]) ELSE Gen!Section(p)[k]
  <2> SUFFICES ASSUME NEW k \in Gen!Keys
               PROVE  Gen!Section(a)[k] = IF k \in keys THEN Gen!Shown(p, k, e[k]) ELSE Gen!Section(p)[k]
    OBVIOUS
  <2>1. k \in RawKeys  BY KeysOK
  <2>2. CASE k \notin keys
    <3>1. a[k] = p[k]  BY <1>1, <2>1, <2>2
    <3>2. CASE k = "model"  BY <1>6, <1>7, <1>r, <2>2, <3>1, <3>2
    <3>3. CASE k # "model"  BY <1>6, <1>7, <2>2, <3>1, <3>3
    <3> QED BY <3>2, <3>3
  <2>3. CASE k \in keys /\ k = "model"  
    <3>1. e[k] # No /\ a[k] = e[k]  BY <1>1, <2>1, <2>3
    <3> QED BY <1>6, <1>r, <2>3, <3>1 DEF Gen!Shown
  <2>4. CASE k \in keys /\ k # "model"  BY <1>1, <1>6, <2>1, <2>4 DEF Gen!Shown
  <2> QED BY <2>2, <2>3, <2>4
<1> QED BY <1>4, <1>8 DEF a

\* What the section of an accepted profile has at a key is the one spelling of it there.
LEMMA SectionAt ==
  ASSUME Gen!GeneratedOK, NEW q, Gen!Accepts(q), NEW k \in Gen!Keys, k # "model"
  PROVE  /\ \A r \in RawKeys : Canon[r] = k /\ q[r] # No => Gen!Section(q)[k] = q[r]
         /\ (\A r \in RawKeys : Canon[r] = k => q[r] = No) => Gen!Section(q)[k] = No
<1>1. ASSUME NEW r \in RawKeys, Canon[r] = k, q[r] # No PROVE Gen!Section(q)[k] = q[r]
  <2>1. \A x \in RawKeys : Canon[x] = k /\ q[x] # No => x = r  BY <1>1 DEF Gen!Accepts
  <2>2. (CHOOSE x \in RawKeys : Canon[x] = k /\ q[x] # No) = r  BY <1>1, <2>1
  <2> QED BY <1>1, <2>2 DEF Gen!Section
<1>2. ASSUME \A r \in RawKeys : Canon[r] = k => q[r] = No PROVE Gen!Section(q)[k] = No  BY <1>2 DEF Gen!Section
<1> QED BY <1>1, <1>2

\* Any profile that may be stored once it has adopted something shows it, or, at a key of
\* which it has an alias, what it said before.
LEMMA AdoptEither ==
  ASSUME Gen!GeneratedOK, NEW p, Gen!Accepts(p), NEW e, NEW keys \in SUBSET Gen!Keys,
         Gen!Accepts(Gen!Adopt(p, e, keys)), NEW k \in Gen!Keys
  PROVE  \/ Gen!Section(Gen!Adopt(p, e, keys))[k] = Gen!Section(p)[k]
         \/ k \in keys /\ Gen!Section(Gen!Adopt(p, e, keys))[k] = Gen!Shown(p, k, e[k])
<1> DEFINE a == Gen!Adopt(p, e, keys)
<1>1. \A r \in RawKeys : a[r] = IF r \notin keys THEN p[r] ELSE IF r = "model" \/ e[r] = No THEN e[r] ELSE Scalar[e[r]]
  BY DEF Gen!Adopt, Gen!Fields
<1>2. a["reference"] = p["reference"]  BY KeysOK, Gen!GeneratedOK DEF Gen!Adopt, Gen!Fields, Gen!GeneratedOK
<1>3. k \in RawKeys /\ Canon[k] = k  BY KeysOK
<1>4. Gen!Accepts(a)  OBVIOUS
<1> HIDE DEF a
<1>5. CASE k = "model"
  <2>1. a[k] # No /\ p[k] # No  BY <1>4, <1>5 DEF Gen!Accepts
  <2>2. \A q : q[k] # No => Gen!Section(q)[k] = PathOf[<<q[k], q["reference"]>>]  BY <1>5 DEF Gen!Section
  <2>3. k \notin keys => a[k] = p[k]  BY <1>1, <1>3
  <2>4. k \in keys => a[k] = e[k]  BY <1>1, <1>3, <1>5
  <2>5. Gen!Section(a)[k] = PathOf[<<a[k], p["reference"]>>] /\ Gen!Section(p)[k] = PathOf[<<p[k], p["reference"]>>]
    BY <1>2, <2>1, <2>2
  <2>6. CASE k \in keys
    <3>1. Gen!Shown(p, k, e[k]) = PathOf[<<e[k], p["reference"]>>]  BY <1>5, <2>1, <2>4, <2>6 DEF Gen!Shown
    <3> QED BY <2>4, <2>5, <2>6, <3>1 DEF a
  <2>7. CASE k \notin keys  BY <2>3, <2>5, <2>7 DEF a
  <2> QED BY <2>6, <2>7
<1>6. CASE k # "model"
  <2>1. \A r \in RawKeys : Canon[r] = k /\ r # k => r \notin keys  BY KeysOK
  <2>2. \A r \in RawKeys : Canon[r] = k /\ r # k => a[r] = p[r]  BY <1>1, <2>1
  <2>3. CASE \E r \in RawKeys : Canon[r] = k /\ r # k /\ a[r] # No
    <3>1. PICK r \in RawKeys : Canon[r] = k /\ r # k /\ a[r] # No  BY <2>3
    <3>2. Gen!Section(a)[k] = a[r]  BY <1>4, <1>6, <3>1, SectionAt
    <3>3. Gen!Section(p)[k] = p[r]  BY <1>6, <2>2, <3>1, SectionAt
    <3> QED BY <2>2, <3>1, <3>2, <3>3 DEF a
  <2>4. CASE ~\E r \in RawKeys : Canon[r] = k /\ r # k /\ a[r] # No
    <3>1. Gen!Section(a)[k] = a[k]
      <4>1. CASE a[k] # No  BY <1>3, <1>4, <1>6, <4>1, SectionAt
      <4>2. CASE a[k] = No  BY <1>4, <1>6, <2>4, <4>2, SectionAt
      <4> QED BY <4>1, <4>2
    <3>2. CASE k \in keys
      <4>1. a[k] = Gen!Shown(p, k, e[k])  BY <1>1, <1>3, <1>6, <3>2 DEF Gen!Shown
      <4> QED BY <3>1, <3>2, <4>1 DEF a
    <3>3. CASE k \notin keys
      <4>1. a[k] = p[k]  BY <1>1, <1>3, <3>3
      <4>2. \A r \in RawKeys : Canon[r] = k /\ r # k => p[r] = No  BY <2>2, <2>4
      <4>3. Gen!Section(p)[k] = p[k]
        <5>1. CASE p[k] # No  BY <1>3, <1>6, <5>1, SectionAt
        <5>2. CASE p[k] = No  BY <1>6, <4>2, <5>2, SectionAt
        <5> QED BY <5>1, <5>2
      <4> QED BY <3>1, <4>1, <4>3 DEF a
    <3> QED BY <3>2, <3>3
  <2> QED BY <2>3, <2>4
<1> QED BY <1>5, <1>6

\* What an edit, a listing and the first state hold is of its type.
LEMMA ChangedOK ==
  ASSUME NEW p \in Gen!Profiles \cup {NoProfile}, NEW q \in Gen!Changed(p) PROVE q \in Gen!Profiles
BY DEF Gen!Changed

LEMMA RenderOK == ASSUME Gen!GeneratedOK, GenTypeOK PROVE Gen!Render \in Contents
<1>1. \A n \in Names : prof[n] # NoProfile => Gen!Section(prof[n]) \in Sections  BY SectionOK DEF GenTypeOK
<1> QED BY <1>1 DEF Gen!Render, Contents

LEMMA GenInitially == Gen!Init => GenIInv
<1> SUFFICES ASSUME Gen!Init PROVE GenIInv  OBVIOUS
<1>1. handler \in ImportType  BY DEF Gen!Init, Gen!Idle, ImportType
<1>2. GenTypeOK  BY <1>1 DEF Gen!Init, GenTypeOK
<1>3. Importing  BY DEF Gen!Init, Importing, Gen!Idle
<1>4. Unedited  BY DEF Gen!Init, Unedited, Gen!Idle, Gen!HasFile
<1> QED BY <1>2, <1>3, <1>4 DEF GenIInv

\* A handler that is over, or has only begun.
LEMMA FreshCall ==
  ASSUME NEW pc \in {"idle", "import", "render"}
  PROVE  LET r == [Gen!Idle EXCEPT !.pc = pc]
         IN  r \in ImportType /\ r.pc = pc /\ r.seen = NoFile
BY DEF Gen!Idle, ImportType
LEMMA IdleCall == Gen!Idle \in ImportType /\ Gen!Idle.pc = "idle" /\ Gen!Idle.seen = NoFile
BY DEF Gen!Idle, ImportType

\* Every step keeps the shape ...
LEMMA GenTypeStep == ASSUME Gen!GeneratedOK, GenIInv, [Gen!Next]_(Gen!vars) PROVE GenTypeOK'
<1> USE DEF GenTypeOK
<1>0. GenTypeOK /\ Importing  BY DEF GenIInv
<1>1. CASE Gen!StartCall  BY <1>0, <1>1, FreshCall DEF Gen!StartCall
<1>2. ASSUME NEW n \in Names, NEW p \in Gen!Changed(prof[n]), Gen!PutCall(n, p) PROVE GenTypeOK'
  <2>1. p \in Gen!Profiles  BY <1>0, <1>2, ChangedOK
  <2> QED BY <1>0, <1>2, <2>1, FreshCall DEF Gen!PutCall, Gen!Edit
<1>3. ASSUME NEW n \in Names, Gen!DeleteCall(n) PROVE GenTypeOK'  BY <1>0, <1>3, FreshCall DEF Gen!DeleteCall, Gen!Edit
<1>4. CASE Gen!ImportGenerated
  <2>1. CASE Gen!Goto("render") \/ Gen!Goto("panic")  BY <1>0, <1>4, <2>1 DEF Gen!ImportGenerated, Gen!Goto, ImportType
  <2>2. CASE ~(Gen!Goto("render") \/ Gen!Goto("panic"))
    <3> DEFINE a == [n \in Names |-> Gen!Import(n)]
    <3>1. ini \in Contents  BY <1>0, <1>4, <2>2 DEF Gen!ImportGenerated, Gen!HasFile
    <3>2. \A n \in Names : Gen!Import(n) = ImportOf(ini, base, prof, n)  BY DEF Gen!Import, ImportOf
    <3>3. a \in [Names -> Gen!Profiles \cup {NoProfile}]  BY <1>0, <3>1, <3>2, ImportTyped
    <3>4. handler' = [handler EXCEPT !.pc = "replace", !.adopt = a, !.todo = {n \in Names : a[n] # NoProfile},
                           !.seen = ini, !.was = prof, !.at = edits]
      BY <1>4, <2>2 DEF Gen!ImportGenerated
    <3> HIDE DEF a
    <3>5. handler' \in ImportType  BY <1>0, <3>1, <3>3, <3>4 DEF ImportType
    <3> QED BY <1>0, <1>4, <3>5 DEF Gen!ImportGenerated
  <2> QED BY <2>1, <2>2
<1>5. CASE Gen!Recovered  BY <1>0, <1>5, IdleCall DEF Gen!Recovered
<1>6. ASSUME NEW n \in Names, Gen!ReplaceOne(n) PROVE GenTypeOK'
  <2>1. handler' \in ImportType  BY <1>0, <1>6 DEF Gen!ReplaceOne, ImportType
  <2>2. handler.adopt[n] \in Gen!Profiles \cup {NoProfile}  BY <1>0 DEF ImportType
  <2>3. handler.adopt[n] # NoProfile
    <3>1. handler.pc = "replace" /\ n \in handler.todo  BY <1>6 DEF Gen!ReplaceOne, Gen!At
    <3> QED BY <1>0, <3>1 DEF Importing
  <2> QED BY <1>0, <1>6, <2>1, <2>2, <2>3 DEF Gen!ReplaceOne
<1>7. CASE Gen!Replaced  BY <1>0, <1>7 DEF Gen!Replaced, Gen!Goto, ImportType
<1>8. CASE Gen!Materialize
  <2>1. handler' \in ImportType  BY <1>0, <1>8, RenderOK, IdleCall DEF Gen!Materialize, ImportType
  <2> QED BY <1>0, <1>8, <2>1 DEF Gen!Materialize
<1>9. CASE Gen!WriteIni
  <2>1. handler' \in ImportType  BY <1>0, <1>9, IdleCall DEF Gen!WriteIni, Gen!Goto, ImportType
  <2>2. handler.files \in Contents \cup {NoFile}  BY <1>0 DEF ImportType
  <2> QED BY <1>0, <1>9, <2>1, <2>2 DEF Gen!WriteIni
<1>10. CASE Gen!WriteBase
  <2>2. handler.files \in Contents \cup {NoFile}  BY <1>0 DEF ImportType
  <2> QED BY <1>0, <1>10, <2>2, IdleCall DEF Gen!WriteBase
<1>11. ASSUME NEW n \in Names, NEW k \in Gen!Keys, NEW v \in Values \cup Sources \cup {No},
              (k = "model" => v \notin Values) /\ (v \in Sources => k = "model"), Gen!EditIni(n, k, v)
       PROVE GenTypeOK'
  <2>1. ini \in Contents /\ ini[n] \in Sections  BY <1>0, <1>11 DEF Gen!EditIni, Gen!HasFile, Contents
  <2>2. v \in Spot(k)  BY <1>11 DEF Spot, Text
  <2>3. [ini[n] EXCEPT ![k] = v] \in Sections  BY <2>1, <2>2 DEF Sections
  <2>4. ini' = [ini EXCEPT ![n] = [ini[n] EXCEPT ![k] = v]]  BY <1>11 DEF Gen!EditIni
  <2>5. ini' \in Contents  BY <2>1, <2>3, <2>4 DEF Contents
  <2> QED BY <1>0, <1>11, <2>5 DEF Gen!EditIni, Gen!Edit
<1>12. ASSUME NEW n \in Names, NEW s \in Gen!NewSections, Gen!AddSection(n, s) PROVE GenTypeOK'
  <2>1. ini \in Contents  BY <1>0, <1>12 DEF Gen!AddSection, Gen!HasFile
  <2>2. s \in Sections  BY KeysOK DEF Gen!NewSections, Sections, Spot, Text
  <2>3. ini' \in Contents  BY <1>12, <2>1, <2>2 DEF Gen!AddSection, Contents
  <2> QED BY <1>0, <1>12, <2>3 DEF Gen!AddSection, Gen!Edit
<1>13. ASSUME NEW n \in Names, NEW p \in Gen!Changed(prof[n]), Gen!EditProfile(n, p) PROVE GenTypeOK'
  <2>1. p \in Gen!Profiles  BY <1>0, <1>13, ChangedOK
  <2> QED BY <1>0, <1>13, <2>1 DEF Gen!EditProfile, Gen!Edit
<1>14. CASE Gen!SpoilIni  BY <1>0, <1>14 DEF Gen!SpoilIni, Gen!Edit
<1>15. CASE Gen!Crash  BY <1>0, <1>15, IdleCall DEF Gen!Crash
<1>16. CASE UNCHANGED Gen!vars  BY <1>0, <1>16 DEF Gen!vars
<1> QED BY <1>1, <1>2, <1>3, <1>4, <1>5, <1>6, <1>7, <1>8, <1>9, <1>10, <1>11, <1>12, <1>13, <1>14, <1>15, <1>16
        DEF Gen!Next, Gen!Handler, Gen!User

\* ... and what an import in progress has done.
LEMMA ImportingKept == ASSUME Gen!GeneratedOK, GenIInv, [Gen!Next]_(Gen!vars) PROVE Importing'
<1>0. GenTypeOK /\ Importing /\ GenTypeOK'  BY GenTypeStep DEF GenIInv
<1>k. /\ handler \in ImportType /\ edits \in Nat /\ prof \in [Names -> Gen!Profiles \cup {NoProfile}]  BY <1>0 DEF GenTypeOK
\* Calls that have read nothing of the file.
<1>a. ASSUME handler'.seen = NoFile, handler'.pc # "replace" PROVE Importing'  BY <1>a DEF Importing
\* Steps that leave what is imported alone: those of users, and those past the import.
<1>b. ASSUME handler'.pc \in {"ini", "base"} PROVE Importing'  BY <1>b DEF Importing
<1>c. ASSUME handler' = handler, base' = base, edits' = edits + 1 PROVE Importing'
  <2>1. handler.at <= edits => handler'.at <= edits' /\ handler'.at # edits'  BY <1>k, <1>c DEF ImportType
  <2> QED BY <1>0, <1>c, <2>1 DEF Importing, ImportOf
<1>1. CASE Gen!StartCall  BY <1>1, <1>a, FreshCall DEF Gen!StartCall
<1>2. ASSUME NEW n \in Names, NEW p, Gen!PutCall(n, p) PROVE Importing'  BY <1>2, <1>a, FreshCall DEF Gen!PutCall
<1>3. ASSUME NEW n \in Names, Gen!DeleteCall(n) PROVE Importing'  BY <1>3, <1>a, FreshCall DEF Gen!DeleteCall
<1>4. CASE Gen!ImportGenerated
  <2>1. handler.pc = "import" /\ handler.seen = NoFile  BY <1>0, <1>4 DEF Gen!ImportGenerated, Gen!At, Importing
  <2>2. CASE Gen!Goto("render") \/ Gen!Goto("panic")  BY <1>a, <1>k, <2>1, <2>2 DEF Gen!Goto, ImportType
  <2>3. CASE ~(Gen!Goto("render") \/ Gen!Goto("panic"))
    <3> DEFINE a == [n \in Names |-> Gen!Import(n)]
    <3>1. ini \in Contents /\ base \in Contents /\ Gen!ListOK /\ UNCHANGED <<prof, ini, base, gen, edits>>
      BY <1>0, <1>4, <2>3 DEF Gen!ImportGenerated, Gen!HasFile, GenTypeOK
    <3>2. \A n \in Names : a[n] = ImportOf(ini, base, prof, n)  BY DEF Gen!Import, ImportOf
    <3>3. handler' = [handler EXCEPT !.pc = "replace", !.adopt = a, !.todo = {n \in Names : a[n] # NoProfile},
                           !.seen = ini, !.was = prof, !.at = edits]
      BY <1>4, <2>3 DEF Gen!ImportGenerated
    <3> HIDE DEF a
    <3>4. /\ handler'.pc = "replace" /\ handler'.adopt = a /\ handler'.todo = {n \in Names : a[n] # NoProfile}
          /\ handler'.seen = ini /\ handler'.was = prof /\ handler'.at = edits
      BY <1>k, <3>3 DEF ImportType
    <3>5. ini # NoFile  BY <1>4, <2>3 DEF Gen!ImportGenerated, Gen!HasFile
    <3>6. \A n \in Names : prof'[n] = Done(n)'  BY <3>1, <3>4 DEF Done
    <3>7. \A n \in Names : handler'.adopt[n] = ImportOf(handler'.seen, base', handler'.was, n)  BY <3>1, <3>2, <3>4
    <3>8. \A n \in Names : handler'.was[n] # NoProfile => Gen!Accepts(handler'.was[n])  BY <3>1, <3>4 DEF Gen!ListOK
    <3> QED BY <1>k, <3>1, <3>4, <3>5, <3>6, <3>7, <3>8 DEF Importing
  <2> QED BY <2>2, <2>3
<1>5. CASE Gen!Recovered  BY <1>5, <1>a, IdleCall DEF Gen!Recovered
<1>6. ASSUME NEW n \in Names, Gen!ReplaceOne(n) PROVE Importing'
  <2>1. /\ handler.pc = "replace" /\ n \in handler.todo /\ handler' = [handler EXCEPT !.todo = @ \ {n}]
        /\ UNCHANGED <<ini, base, gen, edits>>
    BY <1>6 DEF Gen!ReplaceOne, Gen!At
  <2>2. /\ handler'.pc = "replace" /\ handler'.todo = handler.todo \ {n}
        /\ handler'.seen = handler.seen /\ handler'.was = handler.was
        /\ handler'.adopt = handler.adopt /\ handler'.at = handler.at
    BY <1>k, <2>1 DEF ImportType
  <2>3. handler.seen # NoFile /\ handler.adopt[n] # NoProfile /\ handler.adopt[n] = ImportOf(handler.seen, base, handler.was, n)
    BY <1>0, <2>1 DEF Importing
  <2>4. handler.was[n] # NoProfile  BY <2>3 DEF ImportOf
  <2>5. handler.at = edits => \A m \in Names : prof'[m] = Done(m)'
    <3> SUFFICES ASSUME handler.at = edits, NEW m \in Names PROVE prof'[m] = Done(m)'  OBVIOUS
    <3>1. prof[m] = Done(m) /\ prof[n] = handler.was[n]  BY <1>0, <2>1, <2>3 DEF Importing, Done
    <3>2. CASE m = n  BY <1>6, <1>k, <2>1, <2>2, <2>3, <2>4, <3>1, <3>2 DEF Gen!ReplaceOne, Done
    <3>3. CASE m # n
      <4>1. prof'[m] = prof[m]  BY <1>6, <1>k, <3>3 DEF Gen!ReplaceOne
      <4> QED BY <2>2, <3>1, <3>3, <4>1 DEF Done
    <3> QED BY <3>2, <3>3
  <2>6. /\ handler.was \in [Names -> Gen!Profiles \cup {NoProfile}] /\ handler.seen \in Contents /\ base \in Contents
        /\ \A m \in Names : handler.was[m] # NoProfile => Gen!Accepts(handler.was[m])
        /\ \A m \in Names : handler.adopt[m] = ImportOf(handler.seen, base, handler.was, m)
        /\ handler.todo \subseteq {m \in Names : handler.adopt[m] # NoProfile} /\ handler.at <= edits
    BY <1>0, <2>1, <2>3 DEF Importing
  <2>7. \A m \in Names : handler'.adopt[m] = ImportOf(handler'.seen, base', handler'.was, m)  BY <2>1, <2>2, <2>6
  <2> QED BY <2>1, <2>2, <2>3, <2>5, <2>6, <2>7 DEF Importing
<1>7. CASE Gen!Replaced
  <2>1. /\ handler.pc = "replace" /\ handler.todo = {} /\ handler' = [handler EXCEPT !.pc = "render"]
        /\ UNCHANGED <<prof, ini, base, gen, edits>>
    BY <1>7 DEF Gen!Replaced, Gen!At, Gen!Goto
  <2>2. /\ handler'.pc = "render" /\ handler'.todo = {} /\ handler'.seen = handler.seen /\ handler'.was = handler.was
        /\ handler'.adopt = handler.adopt /\ handler'.at = handler.at
    BY <1>k, <2>1 DEF ImportType
  <2>3. handler.seen # NoFile  BY <1>0, <2>1 DEF Importing
  <2>4. /\ handler.seen \in Contents /\ base \in Contents /\ handler.was \in [Names -> Gen!Profiles \cup {NoProfile}]
        /\ \A n \in Names : handler.was[n] # NoProfile => Gen!Accepts(handler.was[n])
        /\ \A n \in Names : handler.adopt[n] = ImportOf(handler.seen, base, handler.was, n)
        /\ handler.at <= edits
    BY <1>0, <2>1, <2>3 DEF Importing
  <2>5. \A n \in Names : handler'.adopt[n] = ImportOf(handler'.seen, base', handler'.was, n)  BY <2>1, <2>2, <2>4
  <2>6. handler'.at = edits' => \A n \in Names : prof'[n] = Done(n)'  BY <1>0, <2>1, <2>2, <2>3 DEF Importing, Done
  <2> QED BY <2>1, <2>2, <2>3, <2>4, <2>5, <2>6 DEF Importing
<1>8. CASE Gen!Materialize
  <2>1. CASE handler' = Gen!Idle  BY <1>a, <2>1, IdleCall
  <2>2. CASE handler' # Gen!Idle  BY <1>8, <1>b, <1>k, <2>2 DEF Gen!Materialize, ImportType
  <2> QED BY <2>1, <2>2
<1>9. CASE Gen!WriteIni
  <2>1. CASE handler' = Gen!Idle  BY <1>a, <2>1, IdleCall
  <2>2. CASE handler' # Gen!Idle  BY <1>9, <1>b, <1>k, <2>2 DEF Gen!WriteIni, Gen!Goto, ImportType
  <2> QED BY <2>1, <2>2
<1>10. CASE Gen!WriteBase  BY <1>10, <1>a, IdleCall DEF Gen!WriteBase
<1>11. CASE Gen!User  BY <1>11, <1>c DEF Gen!User, Gen!EditIni, Gen!AddSection, Gen!EditProfile, Gen!SpoilIni, Gen!Edit
<1>12. CASE Gen!Crash  BY <1>12, <1>a, IdleCall DEF Gen!Crash
<1>13. CASE UNCHANGED Gen!vars  BY <1>0, <1>13 DEF Gen!vars, Importing, Done, ImportOf
<1> QED BY <1>1, <1>2, <1>3, <1>4, <1>5, <1>6, <1>7, <1>8, <1>9, <1>10, <1>11, <1>12, <1>13 DEF Gen!Next, Gen!Handler

\* ... and whose section is as it was generated.
LEMMA UneditedKept == ASSUME Gen!GeneratedOK, GenIInv, [Gen!Next]_(Gen!vars) PROVE Unedited'
<1>0. GenTypeOK /\ Importing /\ Unedited /\ GenTypeOK' /\ handler \in ImportType /\ hand \subseteq Names
  BY GenTypeStep DEF GenIInv, GenTypeOK
\* Steps that leave the files alone and have nothing left to replace.
<1>a. ASSUME UNCHANGED <<ini, gen, hand>>, handler'.pc # "replace" PROVE Unedited'
  BY <1>0, <1>a DEF Unedited, Gen!HasFile
<1>1. CASE Gen!StartCall  BY <1>1, <1>a, FreshCall DEF Gen!StartCall
<1>2. ASSUME NEW n \in Names, NEW p, Gen!PutCall(n, p) PROVE Unedited'  BY <1>2, <1>a, FreshCall DEF Gen!PutCall
<1>3. ASSUME NEW n \in Names, Gen!DeleteCall(n) PROVE Unedited'  BY <1>3, <1>a, FreshCall DEF Gen!DeleteCall
<1>4. CASE Gen!ImportGenerated
  <2>1. CASE Gen!Goto("render") \/ Gen!Goto("panic")
    BY <1>0, <1>4, <1>a, <2>1 DEF Gen!ImportGenerated, Gen!Goto, ImportType
  <2>2. CASE ~(Gen!Goto("render") \/ Gen!Goto("panic"))
    <3> DEFINE a == [n \in Names |-> Gen!Import(n)]
    <3>1. Gen!HasFile(ini) /\ UNCHANGED <<prof, ini, base, gen, hand>>  BY <1>4, <2>2 DEF Gen!ImportGenerated
    <3>2. \A n \in Names : a[n] = Gen!Import(n)  OBVIOUS
    <3>3. handler' = [handler EXCEPT !.pc = "replace", !.adopt = a, !.todo = {n \in Names : a[n] # NoProfile},
                           !.seen = ini, !.was = prof, !.at = edits]
      BY <1>4, <2>2 DEF Gen!ImportGenerated
    <3> HIDE DEF a
    <3>4. handler'.todo = {n \in Names : a[n] # NoProfile} /\ handler'.was = prof  BY <1>0, <3>3 DEF ImportType
    <3>5. ASSUME NEW n \in handler'.todo, n \notin hand PROVE base[n] # gen[n] /\ Gen!Section(prof[n]) # gen[n]
      <4>1. n \in Names /\ Gen!Import(n) # NoProfile  BY <3>2, <3>4, <3>5
      <4>2. ini[n] = gen[n]  BY <1>0, <3>1, <3>5, <4>1 DEF Unedited
      <4>3. ini[n] # NoSection /\ Gen!Adopted(base[n], ini[n], Gen!Section(prof[n])) # {}  BY <4>1 DEF Gen!Import
      <4>4. PICK k \in Gen!Keys : ini[n][k] # Gen!Value(base[n], k) /\ Gen!Section(prof[n])[k] = Gen!Value(base[n], k)
        BY <4>3 DEF Gen!Adopted, Gen!HandKeys, Gen!Clashes
      <4> HIDE DEF Gen!Section
      <4> QED BY <4>2, <4>3, <4>4 DEF Gen!Value
    <3>6. \A n \in handler'.todo : n \in hand' \/ Moved(n)'  BY <3>1, <3>4, <3>5 DEF Moved
    <3> QED BY <1>0, <3>1, <3>6 DEF Unedited, Gen!HasFile
  <2> QED BY <2>1, <2>2
<1>5. CASE Gen!Recovered  BY <1>5, <1>a, IdleCall DEF Gen!Recovered
<1>6. ASSUME NEW n \in Names, Gen!ReplaceOne(n) PROVE Unedited'
  <2>1. handler.pc = "replace" /\ UNCHANGED <<ini, base, gen, hand>> /\ handler'.todo \subseteq handler.todo /\ handler'.was = handler.was
    BY <1>0, <1>6 DEF Gen!ReplaceOne, Gen!At, ImportType
  <2> QED BY <1>0, <2>1 DEF Unedited, Moved, Gen!HasFile
<1>7. CASE Gen!Replaced  BY <1>0, <1>7, <1>a DEF Gen!Replaced, Gen!Goto, ImportType
<1>8. CASE Gen!Materialize  BY <1>8, <1>a, IdleCall DEF Gen!Materialize, Gen!Idle
<1>9. CASE Gen!WriteIni
  <2>1. handler'.pc # "replace"  BY <1>0, <1>9, IdleCall DEF Gen!WriteIni, Gen!Goto, ImportType
  <2>2. CASE UNCHANGED <<ini, gen, hand>>  BY <1>a, <2>1, <2>2
  <2>3. CASE ini' = handler.files /\ gen' = handler.files
    BY <1>0, <2>1, <2>3 DEF Unedited, Gen!HasFile, ImportType
  <2> QED BY <1>9, <2>2, <2>3 DEF Gen!WriteIni
<1>10. CASE Gen!WriteBase  BY <1>10, <1>a, IdleCall DEF Gen!WriteBase
<1>11. ASSUME NEW n \in Names, NEW f, Gen!HasFile(ini), ini' = [ini EXCEPT ![n] = f], hand' = hand \cup {n},
              UNCHANGED <<base, gen, handler>>
       PROVE  Unedited'
  <2>1. ini \in [Names -> Sections \cup {NoSection}]  BY <1>0, <1>11 DEF GenTypeOK, Gen!HasFile, Contents
  <2>2. \A m \in Names : m # n => ini'[m] = ini[m]  BY <1>11, <2>1
  <2> QED BY <1>0, <1>11, <2>2 DEF Unedited, Moved
<1>12. ASSUME NEW n, NEW k, NEW v, n \in Names, Gen!EditIni(n, k, v) PROVE Unedited'
  <2>1. ini' = [ini EXCEPT ![n] = [ini[n] EXCEPT ![k] = v]]  BY <1>12 DEF Gen!EditIni
  <2> QED BY <1>11, <1>12, <2>1 DEF Gen!EditIni
<1>13. ASSUME NEW n \in Names, NEW f, Gen!AddSection(n, f) PROVE Unedited'  BY <1>11, <1>13 DEF Gen!AddSection
<1>14. ASSUME NEW n \in Names, NEW p, Gen!EditProfile(n, p) PROVE Unedited'
  BY <1>0, <1>14 DEF Gen!EditProfile, Unedited, Moved, Gen!HasFile
<1>15. CASE Gen!SpoilIni  BY <1>0, <1>15 DEF Gen!SpoilIni, Unedited, Moved, Gen!HasFile
<1>16. CASE Gen!Crash  BY <1>16, <1>a, IdleCall DEF Gen!Crash
<1>17. CASE UNCHANGED Gen!vars  BY <1>0, <1>17 DEF Gen!vars, Unedited, Moved, Gen!HasFile
<1> QED BY <1>1, <1>2, <1>3, <1>4, <1>5, <1>6, <1>7, <1>8, <1>9, <1>10, <1>12, <1>13, <1>14, <1>15, <1>16, <1>17
        DEF Gen!Next, Gen!Handler, Gen!User

\* The invariant holds of every reachable state.
LEMMA GenInvariance == ASSUME Gen!GeneratedOK PROVE Gen!Spec => []GenIInv
<1>1. GenIInv /\ [Gen!Next]_(Gen!vars) => GenIInv'  BY GenTypeStep, ImportingKept, UneditedKept DEF GenIInv
<1> QED BY <1>1, GenInitially, PTL DEF Gen!Spec

\* A start merges: where models.ini was edited by hand and the profile was not, what the start
\* generates has the edit, and everywhere else it has what the profile says, over whatever
\* baseline crashes and failed writes have left.  It is importSections, which takes the
\* profiles it listed over the file and the baseline it read, replaces the profiles one by
\* one, and renders what they are then.  Nobody may edit anything meanwhile, and a profile
\* with aliases, or one whose section has no model, may keep what it says.
THEOREM EditsReachProfiles == ASSUME Gen!GeneratedOK PROVE Gen!Spec => Gen!EditsAreMerged
<1>1. ASSUME GenIInv, Gen!At("render"), handler'.pc = "ini", handler.seen # NoFile, handler.at = edits,
             [Gen!Next]_(Gen!vars), NEW n \in Names, NEW k \in Gen!Keys,
             handler.was[n] # NoProfile, handler.seen[n] # NoSection
      PROVE  \/ handler'.files[n][k] = Gen!Merge(base[n], handler.seen[n], handler.was[n], k)
             \/ /\ handler'.files[n][k] = Gen!Section(handler.was[n])[k]
                /\ ~Gen!Canonical(handler.was[n]) \/ handler.seen[n]["model"] = No
  <2> DEFINE p == handler.was[n]
             e == handler.seen[n]
             w == Gen!Section(p)
             keys == Gen!Adopted(base[n], e, w)
  <2>0. GenTypeOK /\ Importing /\ handler.pc = "render" /\ handler \in ImportType  BY <1>1 DEF GenIInv, Gen!At, GenTypeOK
  <2>1. /\ p # NoProfile /\ e # NoSection
        /\ handler.was \in [Names -> Gen!Profiles \cup {NoProfile}] /\ handler.seen \in Contents /\ base \in Contents
        /\ Gen!Accepts(p) /\ handler.adopt[n] = ImportOf(handler.seen, base, handler.was, n)
        /\ handler.todo = {} /\ prof[n] = Done(n)
    BY <1>1, <2>0 DEF Importing
  <2>2. p \in Gen!Profiles /\ e \in Sections  BY <2>1 DEF Contents
  <2>3. keys \in SUBSET Gen!Keys /\ (k \in keys <=> e[k] # Gen!Value(base[n], k) /\ w[k] = Gen!Value(base[n], k))
    BY DEF Gen!Adopted, Gen!HandKeys, Gen!Clashes
  <2>4. handler'.files[n] = Gen!Section(prof[n]) \/ prof[n] = NoProfile
    <3>1. Gen!Materialize
      <4>1. handler' # handler  BY <1>1 DEF Gen!At
      <4>2. handler'.pc # "idle"  BY <1>1
      <4>3. ~UNCHANGED Gen!vars  BY <4>1 DEF Gen!vars
      <4>4. ~Gen!User  BY <4>1 DEF Gen!User, Gen!EditIni, Gen!AddSection, Gen!EditProfile, Gen!SpoilIni
      <4>5. ~Gen!Crash /\ ~Gen!Recovered  BY <4>2, IdleCall DEF Gen!Crash, Gen!Recovered
      <4>6. ~Gen!StartCall /\ ~Gen!ImportGenerated /\ ~Gen!Replaced /\ ~Gen!WriteIni /\ ~Gen!WriteBase
        BY <2>0 DEF Gen!StartCall, Gen!ImportGenerated, Gen!Replaced, Gen!WriteIni, Gen!WriteBase, Gen!At
      <4>7. \A m : ~Gen!ReplaceOne(m) /\ ~Gen!DeleteCall(m)  BY <2>0 DEF Gen!ReplaceOne, Gen!DeleteCall, Gen!At
      <4>8. \A m, q : ~Gen!PutCall(m, q)  BY <2>0 DEF Gen!PutCall, Gen!At
      <4> QED BY <1>1, <4>3, <4>4, <4>5, <4>6, <4>7, <4>8 DEF Gen!Next, Gen!Handler
    <3>2. handler' = [Gen!Idle EXCEPT !.pc = "ini", !.seen = handler.seen, !.files = Gen!Render]
      BY <1>1, <3>1, IdleCall DEF Gen!Materialize
    <3>3. handler'.files = Gen!Render  BY <3>2 DEF Gen!Idle
    <3> QED BY <3>3 DEF Gen!Render
  <2>5. k \notin keys => Gen!Merge(base[n], e, p, k) = w[k]  BY <2>3 DEF Gen!Merge
  <2>6. k \in keys => Gen!Merge(base[n], e, p, k) = Gen!Shown(p, k, e[k])  BY <2>3 DEF Gen!Merge
  <2>7. CASE e = w \/ keys = {}
    <3>1. handler.adopt[n] = NoProfile  BY <2>1, <2>7 DEF ImportOf
    <3>2. prof[n] = p  BY <2>1, <3>1 DEF Done
    <3>3. k \notin keys  BY <2>3, <2>7
    <3> QED BY <2>1, <2>4, <2>5, <3>2, <3>3
  <2>8. CASE ~(e = w \/ keys = {})
    <3> DEFINE a == Gen!Adopt(p, e, keys)
    <3>1. handler.adopt[n] = a  BY <2>1, <2>8 DEF ImportOf
    <3> HIDE DEF keys, w, e, p
    <3>2. a # NoProfile
      <4>1. a \in Gen!Profiles  BY <2>2, <2>3, AdoptOK
      <4> QED BY <4>1, Gen!GeneratedOK DEF Gen!Profiles, Gen!GeneratedOK
    <3>3. CASE Gen!Canonical(p) /\ e["model"] # No
      <4>1. Gen!Accepts(a) /\ Gen!Section(a)[k] = IF k \in keys THEN Gen!Shown(p, k, e[k]) ELSE w[k]
        BY <2>1, <2>2, <2>3, <3>3, AdoptShows DEF w
      <4> HIDE DEF a
      <4>2. prof[n] = a  BY <2>1, <3>1, <3>2, <4>1 DEF Done, p
      <4>3. handler'.files[n][k] = IF k \in keys THEN Gen!Shown(p, k, e[k]) ELSE w[k]  BY <2>4, <3>2, <4>1, <4>2
      <4> QED BY <2>5, <2>6, <4>3 DEF e, p
    <3>4. CASE ~(Gen!Canonical(p) /\ e["model"] # No)
      <4>1. CASE Gen!Accepts(a)
        <5>1. Gen!Section(a)[k] = w[k] \/ (k \in keys /\ Gen!Section(a)[k] = Gen!Shown(p, k, e[k]))
          BY <2>1, <2>2, <2>3, <4>1, AdoptEither DEF w
        <5> HIDE DEF a
        <5>2. prof[n] = a  BY <2>1, <3>1, <3>2, <4>1 DEF Done, p
        <5>3. handler'.files[n][k] = Gen!Section(a)[k]  BY <2>4, <3>2, <5>2
        <5> QED BY <2>6, <3>4, <5>1, <5>3 DEF e, p, w
      <4>2. CASE ~Gen!Accepts(a)
        <5> HIDE DEF a
        <5>1. prof[n] = p  BY <2>1, <3>1, <4>2 DEF Done, p
        <5> QED BY <2>1, <2>4, <3>4, <5>1 DEF e, p, w
      <4> QED BY <4>1, <4>2
    <3> QED BY <3>3, <3>4
  <2> QED BY <2>7, <2>8
<1>2. GenIInv /\ [Gen!Next]_(Gen!vars) =>
        (Gen!At("render") /\ handler'.pc = "ini" /\ handler.seen # NoFile /\ handler.at = edits
         => \A n \in Names, k \in Gen!Keys :
              handler.was[n] # NoProfile /\ handler.seen[n] # NoSection =>
                \/ handler'.files[n][k] = Gen!Merge(base[n], handler.seen[n], handler.was[n], k)
                \/ /\ handler'.files[n][k] = Gen!Section(handler.was[n])[k]
                   /\ ~Gen!Canonical(handler.was[n]) \/ handler.seen[n]["model"] = No)
  BY <1>1
<1> QED BY <1>2, GenInvariance, PTL DEF Gen!Spec, Gen!EditsAreMerged

\* A start changes no profile whose section of models.ini nobody edited, in whatever order it
\* replaces the profiles, whatever else was edited, and also when the daemon died, or a write
\* failed, between models.ini and its baseline, as long as the profile is what was generated
\* then: adopt takes only keys on which the file differs from the baseline and the profile
\* does not.
THEOREM UneditedStays == ASSUME Gen!GeneratedOK PROVE Gen!Spec => Gen!UntouchedStays
<1>1. ASSUME GenIInv, [Gen!Next]_(Gen!vars), NEW n \in Names, handler.pc = "replace", prof'[n] # prof[n],
             edits' = edits
      PROVE  n \in hand \/ (Gen!Torn /\ Gen!Section(handler.was[n]) # gen[n])
  <2>0. GenTypeOK /\ Unedited /\ edits \in Nat /\ prof \in [Names -> Gen!Profiles \cup {NoProfile}]
    BY <1>1 DEF GenIInv, GenTypeOK
  <2>1. Gen!ReplaceOne(n)
    <3>1. prof' # prof  BY <1>1
    <3>2. ~UNCHANGED Gen!vars  BY <3>1 DEF Gen!vars
    <3>3. ~Gen!User  BY <1>1, <2>0 DEF Gen!User, Gen!EditIni, Gen!AddSection, Gen!EditProfile, Gen!SpoilIni, Gen!Edit
    <3>4. /\ ~Gen!Crash /\ ~Gen!Recovered /\ ~Gen!StartCall /\ ~Gen!ImportGenerated
          /\ ~Gen!Replaced /\ ~Gen!Materialize /\ ~Gen!WriteIni /\ ~Gen!WriteBase
      BY <3>1 DEF Gen!Crash, Gen!Recovered, Gen!StartCall, Gen!ImportGenerated, Gen!Replaced, Gen!Materialize,
                   Gen!WriteIni, Gen!WriteBase
    <3>5. \A m, q : ~Gen!PutCall(m, q) /\ ~Gen!DeleteCall(m)  BY <1>1 DEF Gen!PutCall, Gen!DeleteCall, Gen!At
    <3>6. PICK m \in Names : Gen!ReplaceOne(m)  BY <1>1, <3>2, <3>3, <3>4, <3>5 DEF Gen!Next, Gen!Handler
    <3>7. m = n  BY <1>1, <2>0, <3>6 DEF Gen!ReplaceOne
    <3> QED BY <3>6, <3>7
  <2>2. n \in handler.todo  BY <2>1 DEF Gen!ReplaceOne
  <2>3. n \in hand \/ Moved(n)  BY <1>1, <2>0, <2>2 DEF Unedited
  <2> QED BY <2>3 DEF Moved, Gen!Torn
<1>2. GenIInv /\ [Gen!Next]_(Gen!vars) =>
        \A n \in Names : handler.pc = "replace" /\ prof'[n] # prof[n] /\ edits' = edits
          => n \in hand \/ (Gen!Torn /\ Gen!Section(handler.was[n]) # gen[n])
  BY <1>1
<1> QED BY <1>2, GenInvariance, PTL DEF Gen!Spec, Gen!UntouchedStays, Gen!At
=============================================================================
