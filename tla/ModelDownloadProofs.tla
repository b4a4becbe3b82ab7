------------------------ MODULE ModelDownloadProofs ------------------------
(* Theorems about ModelDownload and DuplicateStart, for any targets, versions*)
(* and bounds: who owns a target, what is published, that a terminal state   *)
(* stands, that the records tell the jobs, and that no stage is left behind. *)
EXTENDS DuplicateStart, TLAPS

Late == {"prepare", "get", "open", "copy", "verify", "swap", "rename", "finish"}

\* A goroutine belongs to a job that was issued and has a target.
Workers == \A j \in Jobs : work[j].pc # "none" => up /\ j <= issued
Known == \A j \in Jobs : j <= issued => T(j) \in Targets

\* Jobs not issued yet, and those recovery has not come to, are untouched.
Fresh == \A j \in Jobs : j > issued => work[j].pc = "none" /\ jobs[j] = "none"
Unrecorded == \A j \in Jobs : j > issued => rec[j] = "none"
Called == caller.pc # "none" => caller.target \in Targets /\ next = 0 /\ up /\ issued < MaxJobs
Recovering ==
  next # 0 => up /\ next <= issued /\ \A j \in Jobs : j >= next => work[j].pc = "none" /\ jobs[j] = "none"
AtRest == ~up => next = 0 /\ \A j \in Jobs : work[j].pc = "none" /\ jobs[j] = "none"

\* What the manager says of a job while its goroutine is at a step.
PhaseOf(j) ==
  /\ work[j].pc \in {"queue", "run"} => jobs[j] \in {"queued", "cancelled"}
  /\ work[j].pc \in Late => jobs[j] \in {"running", "cancelled"}

\* A file that passed the check stays as it is until the rename, or disappears.
SoundOf(j) ==
  work[j].pc \in {"swap", "rename"} /\ T(j) \in Checked => part[T(j)] \in {Absent, Full(req[j].want)}

Own == ActiveIsBusy /\ Workers /\ Known /\ Fresh /\ Called /\ Recovering /\ AtRest
Transfer == \A j \in Jobs : PhaseOf(j) /\ SoundOf(j)
IInv == TypeOK /\ Own /\ Unrecorded /\ Transfer

Works == [pc : {"none", "queue", "run", "prepare", "get", "open", "copy", "verify", "swap",
                "rename", "finish", "save", "clear"},
          pos : 0..Size, src : Versions \cup {0}, stop : BOOLEAN, err : {"none", "failed", "cancelled"}]
Reqs == [target : Targets \cup {"none"}, force : BOOLEAN, want : Versions \cup {0}]
Calls == [pc : {"none", "have", "launch"}, target : Targets \cup {"none"}, force : BOOLEAN]

\* What the daemon holds, and what is on disk.
WorkType == work \in [Jobs -> Works]
JobType == jobs \in [Jobs -> States] /\ active \in [Targets -> 0..MaxJobs]
OtherType ==
  /\ req \in [Jobs -> Reqs]
  /\ serves \in [Targets -> Versions] /\ issued \in 0..MaxJobs
  /\ caller \in Calls
  /\ up \in BOOLEAN /\ next \in 0..MaxJobs
FileType == part \in [Targets -> Files] /\ target \in [Targets -> Files]
DiskType == FileType /\ rec \in [Jobs -> States] /\ fetched \subseteq Jobs /\ stale \subseteq Jobs

LEMMA TypeParts == TypeOK <=> WorkType /\ JobType /\ OtherType /\ DiskType
BY DEF TypeOK, WorkType, Works, JobType, FileType, OtherType, DiskType, Reqs, Calls

LEMMA TypePartsNext == WorkType' /\ JobType' /\ OtherType' /\ DiskType' => TypeOK'
BY DEF TypeOK, WorkType, Works, JobType, FileType, OtherType, DiskType, Reqs, Calls

\* What a daemon knows of itself: nothing of it rests on what is on disk.
Held == WorkType /\ JobType /\ OtherType /\ Own

LEMMA HeldOf == IInv => Held
BY TypeParts DEF IInv, Held

LEMMA InitInv == ASSUME Init PROVE IInv
<1> USE DownloadOK DEF Init, Jobs, T, Idle, NoCall, Absent, Terminal, States, Files, Late, Mixed
<1>1. TypeOK  BY DEF TypeOK
<1>2. Own /\ Unrecorded  BY DEF Own, ActiveIsBusy, Workers, Known, Fresh, Called, Recovering, AtRest, Unrecorded
<1>3. Transfer  BY DEF Transfer, PhaseOf, SoundOf
<1> QED BY <1>1, <1>2, <1>3 DEF IInv
-----------------------------------------------------------------------------
(* Ownership                                                               *)

\* A goroutine that only goes on to its next step leaves ownership as it is.
LEMMA GoesOn ==
  ASSUME Held, NEW j \in Jobs, work[j].pc # "none", work'[j].pc # "none",
         \A k \in Jobs \ {j} : work'[k] = work[k] /\ jobs'[k] = jobs[k],
         UNCHANGED <<active, req, issued, caller, up, next>>
  PROVE  Own'
<1> USE DEF Held, Own, Jobs, T
<1>1. ActiveIsBusy'  BY DEF ActiveIsBusy
<1>2. Workers' /\ Known'  BY DEF Workers, Known
<1>3. j <= issued /\ up  BY DEF Workers
<1>4. j \in Nat /\ issued \in Nat  BY DownloadOK DEF OtherType
<1>5. Fresh'  BY <1>3, <1>4 DEF Fresh
<1>6. Called'  BY DEF Called
<1>7. Recovering'  BY DEF Recovering
<1>8. AtRest'  BY <1>3 DEF AtRest
<1> QED BY <1>1, <1>2, <1>5, <1>6, <1>7, <1>8

LEMMA WorkerOwn ==
  ASSUME Held, NEW j \in Jobs, Worker(j) PROVE Own'
<1> USE DEF Goto, Fail, Persist, At, Held, WorkType, Works, JobType, OtherType, T
<1> DEFINE Frame == /\ work[j].pc # "none" /\ work'[j].pc # "none"
                    /\ \A k \in Jobs \ {j} : work'[k] = work[k] /\ jobs'[k] = jobs[k]
                    /\ UNCHANGED <<active, req, issued, caller, up, next>>
<1>1. CASE Queued(j)    <2>1. Frame BY <1>1 DEF Queued
                        <2> QED BY <2>1, GoesOn DEF Own
<1>2. CASE Begin(j)     <2>1. Frame BY <1>2 DEF Begin
                        <2> QED BY <2>1, GoesOn DEF Own
<1>3. CASE Prepare(j)   <2>1. Frame BY <1>3 DEF Prepare
                        <2> QED BY <2>1, GoesOn DEF Own
<1>4. CASE OpenPart(j)  <2>1. Frame BY <1>4 DEF OpenPart
                        <2> QED BY <2>1, GoesOn DEF Own
<1>5. CASE Verify(j)    <2>1. Frame BY <1>5 DEF Verify
                        <2> QED BY <2>1, GoesOn DEF Own
<1>6. CASE Swap(j)      <2>1. Frame BY <1>6 DEF Swap
                        <2> QED BY <2>1, GoesOn DEF Own
<1>7. CASE Rename(j)    <2>1. Frame BY <1>7 DEF Rename
                        <2> QED BY <2>1, GoesOn DEF Own
<1>8. CASE Finish(j)    <2>1. Frame BY <1>8 DEF Finish
                        <2> QED BY <2>1, GoesOn DEF Own
<1>9. CASE Save(j)      <2>1. Frame BY <1>9 DEF Save
                        <2> QED BY <2>1, GoesOn DEF Own
<1>10. CASE Get(j)      <2>1. Frame BY <1>10 DEF Get, Open
                        <2> QED BY <2>1, GoesOn DEF Own
<1>11. CASE Copy(j)     <2>1. Frame BY <1>11 DEF Copy
                        <2> QED BY <2>1, GoesOn DEF Own
<1>12. CASE Stopped(j)  <2>1. Frame BY <1>12 DEF Stopped
                        <2> QED BY <2>1, GoesOn DEF Own
<1>13. CASE ClearActive(j)
  <2> USE <1>13 DEF ClearActive, Own, Idle, Jobs
  <2>1. j <= issued /\ up  BY DEF Workers
  <2>2. active[T(j)] = j  BY DEF ActiveIsBusy, Known, Workers
  <2>3. ActiveIsBusy'  BY <2>2 DEF ActiveIsBusy
  <2>4. Workers' /\ Known'  BY DEF Workers, Known
  <2>5. Fresh' /\ Called'  BY DEF Fresh, Called
  <2>6. Recovering' /\ AtRest'  BY <2>1 DEF Recovering, AtRest
  <2> QED BY <2>3, <2>4, <2>5, <2>6
<1> QED BY <1>1, <1>2, <1>3, <1>4, <1>5, <1>6, <1>7, <1>8, <1>9, <1>10, <1>11, <1>12, <1>13 DEF Worker, Local

\* A job that is registered owns a target that nobody owned.
LEMMA Registered ==
  ASSUME Held, NEW j \in Jobs, NEW t \in Targets, Register(j, t), active[t] = 0,
         work[j].pc = "none", req'[j].target = t, \A k \in Jobs \ {j} : req'[k] = req[k]
  PROVE  ActiveIsBusy'
<1> USE DEF Register, Held, WorkType, JobType, OtherType, Idle, Jobs, T
<1>1. \A u \in Targets : active[u] # j  BY DEF Own, ActiveIsBusy
<1>2. \A k \in Jobs \ {j} : work[k].pc # "none" => req[k].target # t  BY DEF Own, ActiveIsBusy
<1> QED BY <1>1, <1>2, DownloadOK DEF Own, ActiveIsBusy

LEMMA OtherOwn ==
  ASSUME Held, Next, ~ \E j \in Jobs : Worker(j)  PROVE Own'
<1> USE DEF Held, Jobs, T
<1> DEFINE Same == UNCHANGED <<jobs, active, work, req, issued, caller, up, next>>
<1>0. issued \in Nat /\ MaxJobs \in Nat  BY DownloadOK DEF OtherType
<1>1. ASSUME Same PROVE Own'
  <2> USE <1>1 DEF Own
  <2>1. ActiveIsBusy' /\ Workers' /\ Known'  BY DEF ActiveIsBusy, Workers, Known
  <2>2. Fresh' /\ Called' /\ Recovering' /\ AtRest'  BY DEF Fresh, Called, Recovering, AtRest
  <2> QED BY <2>1, <2>2
<1>2. ASSUME NEW t \in Targets, NEW force \in BOOLEAN, StartCall(t, force) PROVE Own'
  <2> USE <1>2 DEF StartCall, Own
  <2>1. ActiveIsBusy' /\ Workers' /\ Known'  BY DEF ActiveIsBusy, Workers, Known
  <2>2. Fresh' /\ Called' /\ Recovering' /\ AtRest'  BY DEF Fresh, Called, Recovering, AtRest
  <2> QED BY <2>1, <2>2
<1>3. CASE StartHave
  <2> USE <1>3, <1>0 DEF StartHave, Own, NewJob, Request, NoCall, Persist
  <2>1. issued + 1 \in Jobs /\ caller.target \in Targets /\ next = 0 /\ up  BY DEF Called
  <2>2. work[issued + 1].pc = "none"  BY <2>1 DEF Fresh
  <2>3. ActiveIsBusy'
    <3>1. \A j \in Jobs \ {issued + 1} : req'[j] = req[j]  BY DEF OtherType
    <3> QED BY <2>1, <2>2, <3>1 DEF ActiveIsBusy
  <2>4. Workers'  BY <2>1 DEF Workers, OtherType
  <2>7. Known'  BY <2>1 DEF Known, OtherType, T
  <2>5. Fresh'  BY <2>1 DEF Fresh, WorkType, JobType
  <2>6. Called' /\ Recovering' /\ AtRest'  BY <2>1 DEF Called, Recovering, AtRest
  <2> QED BY <2>3, <2>4, <2>5, <2>6, <2>7
<1>4. CASE Launch
  <2>1. CASE active[caller.target] # 0
    <3> USE <1>4, <2>1 DEF Launch, Own, NoCall, Register
    <3>0. caller.target \in Targets /\ next = 0 /\ up /\ issued < MaxJobs  BY DEF Called
    <3>1. ActiveIsBusy' /\ Workers' /\ Known'  BY DEF ActiveIsBusy, Workers, Known
    <3>2. Fresh' /\ Called' /\ Recovering' /\ AtRest'  BY <3>0 DEF Fresh, Called, Recovering, AtRest
    <3> QED BY <3>1, <3>2
  <2>2. CASE active[caller.target] = 0
    <3> USE <1>4, <2>2, <1>0 DEF Launch, Own, NoCall, NewJob, Request
    <3>0. caller.target \in Targets /\ next = 0 /\ up /\ issued + 1 \in Jobs  BY DEF Called
    <3>1. work[issued + 1].pc = "none"  BY <3>0 DEF Fresh
    <3>2. Register(issued + 1, caller.target) /\ req'[issued + 1].target = caller.target
          /\ \A k \in Jobs \ {issued + 1} : req'[k] = req[k]
      BY <3>0 DEF OtherType
    <3>3. ActiveIsBusy'  BY <3>0, <3>1, <3>2, Registered
    <3>4. \A k \in Jobs \ {issued + 1} : work'[k] = work[k]  BY <3>2 DEF Register, WorkType
    <3>5. Workers'  BY <3>0, <3>4 DEF Workers
    <3>6. Known'  BY <3>0, <3>2 DEF Known
    <3>7. Fresh'
      <4>1. issued' = issued + 1 /\ \A k \in Jobs \ {issued + 1} : jobs'[k] = jobs[k]
        BY <3>2 DEF Register, JobType
      <4> QED BY <3>0, <3>4, <4>1 DEF Fresh
    <3>8. Called' /\ Recovering' /\ AtRest'  BY <3>0 DEF Called, Recovering, AtRest
    <3> QED BY <3>3, <3>5, <3>6, <3>7, <3>8
  <2> QED BY <2>1, <2>2
<1>5. ASSUME NEW j \in Jobs, Cancel(j) PROVE Own'
  <2>0. j <= issued  BY <1>5, <1>0 DEF Cancel, Own, Fresh
  <2> USE <1>5 DEF Cancel, Own, WorkType, Works, JobType
  <2>1. ActiveIsBusy'  BY DEF ActiveIsBusy
  <2>2. Workers' /\ Known'  BY DEF Workers, Known
  <2>3. Fresh' /\ Called'  BY <2>0, <1>0 DEF Fresh, Called
  <2>4. Recovering' /\ AtRest'  BY DEF Recovering, AtRest
  <2> QED BY <2>1, <2>2, <2>3, <2>4
<1>6. CASE Crash
  <2> USE <1>6 DEF Crash, Own, Idle, NoCall
  <2>1. ActiveIsBusy'  BY DEF ActiveIsBusy
  <2>2. Workers' /\ Known' /\ Fresh'  BY DEF Workers, Known, Fresh
  <2>3. Called' /\ Recovering' /\ AtRest'  BY DEF Called, Recovering, AtRest
  <2> QED BY <2>1, <2>2, <2>3
<1>7. CASE Restart
  <2> USE <1>7, <1>0 DEF Restart, Own
  <2>1. ActiveIsBusy' /\ Workers' /\ Known' /\ Fresh'  BY DEF ActiveIsBusy, Workers, Known, Fresh
  <2>2. caller.pc = "none"  BY DEF Called
  <2>3. Called' /\ Recovering' /\ AtRest'  BY <2>2 DEF Called, Recovering, AtRest
  <2> QED BY <2>1, <2>3
<1>8. CASE Recover
  <2> USE <1>8, <1>0 DEF Recover, Own
  <2>1. next \in Jobs /\ next <= issued /\ up /\ work[next].pc = "none" /\ T(next) \in Targets
    BY DEF Recovering, Known, OtherType
  <2>2. caller.pc = "none"  BY DEF Called
  <2>3. CASE UNCHANGED <<active, work>> /\ \A k \in Jobs \ {next} : jobs'[k] = jobs[k]
    <3>1. ActiveIsBusy' /\ Workers' /\ Known'  BY <2>3 DEF ActiveIsBusy, Workers, Known
    <3>2. Fresh' /\ Called'  BY <2>1, <2>2, <2>3 DEF Fresh, Called
    <3>3. Recovering' /\ AtRest'  BY <2>1, <2>3 DEF Recovering, AtRest
    <3> QED BY <3>1, <3>2, <3>3
  <2>4. CASE Register(next, T(next)) /\ active[T(next)] = 0
    <3>1. ActiveIsBusy'  BY <2>1, <2>4, Registered
    <3>2. Workers' /\ Known'  BY <2>1, <2>4 DEF Workers, Known, Register, WorkType, JobType
    <3>3. Fresh' /\ Called'  BY <2>1, <2>2, <2>4 DEF Fresh, Called, Register, WorkType, JobType
    <3>4. Recovering' /\ AtRest'  BY <2>1, <2>4 DEF Recovering, AtRest, Register, WorkType, JobType
    <3> QED BY <3>1, <3>2, <3>3, <3>4
  <2> QED BY <2>1, <2>3, <2>4 DEF Reconcile, Restore, JobType
<1>9. ASSUME NEW t \in Targets, UserDeletes(t) \/ ServerChanges(t) PROVE Own'
  BY <1>1, <1>9 DEF UserDeletes, ServerChanges
<1>10. CASE AtBound  BY <1>1, <1>10 DEF AtBound, vars
<1> QED BY <1>2, <1>3, <1>4, <1>5, <1>6, <1>7, <1>8, <1>9, <1>10 DEF Next

-----------------------------------------------------------------------------
(* Types                                                                   *)

LEMMA SomeFiles == Absent \in Files /\ Empty \in Files
BY DownloadOK DEF Empty, Files

LEMMA FailType ==
  ASSUME WorkType, NEW j \in Jobs, NEW err \in {"failed", "cancelled"}, Fail(j, err)
  PROVE  WorkType'
<1> DEFINE w == [work[j] EXCEPT !.pc = "finish", !.err = err]
<1>1. work[j] \in Works  BY DEF WorkType
<1>2. w \in Works  BY <1>1 DEF Works
<1>3. work' = [work EXCEPT ![j] = w]  BY DEF Fail, WorkType, Works
<1> QED BY <1>2, <1>3 DEF WorkType

LEMMA FailFiles ==
  ASSUME FileType, NEW j \in Jobs, NEW err, Fail(j, err) PROVE part' \in [Targets -> Files]
BY SomeFiles DEF Fail, FileType

\* What every step of a goroutine leaves alone, and what it may write.
LEMMA WorkerFrame ==
  ASSUME IInv, NEW j \in Jobs, Worker(j)
  PROVE  /\ UNCHANGED <<req, serves, issued, caller, up, next>>
         /\ \A k \in Jobs \ {j} : work'[k] = work[k] /\ jobs'[k] = jobs[k] /\ rec'[k] = rec[k]
         /\ \A t \in Targets \ {T(j)} : part'[t] = part[t] /\ target'[t] = target[t]
         /\ fetched' \subseteq fetched \cup {j} /\ stale' \subseteq stale \cup {j}
<1>0. WorkType /\ JobType /\ DiskType /\ FileType  BY TypeParts DEF IInv, DiskType
<1> USE <1>0 DEF WorkType, JobType, FileType, DiskType, Goto, Fail, Persist, Open, Idle
<1>1. CASE Queued(j) \/ Begin(j) \/ Finish(j) \/ Save(j)  BY <1>1 DEF Queued, Begin, Finish, Save
<1>2. CASE Prepare(j) \/ OpenPart(j) \/ Verify(j) \/ Swap(j)  BY <1>2 DEF Prepare, OpenPart, Verify, Swap
<1>3. CASE Rename(j)  BY <1>3 DEF Rename
<1>4. CASE ClearActive(j)  BY <1>4 DEF ClearActive
<1>5. CASE Get(j) \/ Copy(j) \/ Stopped(j)  BY <1>5 DEF Get, Copy, Stopped
<1> QED BY <1>1, <1>2, <1>3, <1>4, <1>5 DEF Worker, Local

LEMMA WorkerHeld ==
  ASSUME Held, NEW j \in Jobs, Worker(j) PROVE Held'
<1>0. /\ WorkType /\ JobType /\ OtherType
      /\ work[j].pc # "none" => T(j) \in Targets
  BY DEF Held, Own, Workers, Known
<1>1. OtherType'
  <2>1. CASE Local(j)
    BY <1>0, <2>1 DEF Local, Queued, Begin, Prepare, OpenPart, Verify, Swap, Rename, Finish, Save, ClearActive, OtherType
  <2>2. CASE Get(j) \/ Copy(j) \/ Stopped(j)  BY <1>0, <2>2 DEF Get, Copy, Stopped, OtherType
  <2> QED BY <2>1, <2>2 DEF Worker
<1>2. JobType'
  <2> USE <1>0, DownloadOK DEF JobType, States, Terminal
  <2>1. CASE Queued(j) \/ Begin(j) \/ Finish(j) \/ Save(j)  BY <2>1 DEF Queued, Begin, Finish, Save
  <2>2. CASE Prepare(j) \/ OpenPart(j) \/ Verify(j) \/ Swap(j)  BY <2>2 DEF Prepare, OpenPart, Verify, Swap
  <2>3. CASE Rename(j)  BY <2>3 DEF Rename
  <2>4. CASE ClearActive(j)
    <3>1. active' \in [Targets -> 0..MaxJobs]
      <4>1. CASE active' = active  BY <4>1
      <4>2. CASE active' = [active EXCEPT ![T(j)] = 0]
        <5>1. 0 \in 0..MaxJobs  OBVIOUS
        <5> QED BY <4>2, <5>1
      <4> QED BY <2>4, <4>1, <4>2 DEF ClearActive
    <3> QED BY <2>4, <3>1 DEF ClearActive
  <2>5. CASE Get(j) \/ Copy(j) \/ Stopped(j)  BY <2>5 DEF Get, Copy, Stopped
  <2> QED BY <2>1, <2>2, <2>3, <2>4, <2>5 DEF Worker, Local
<1>3. WorkType'
  <2> USE <1>0, DownloadOK DEF At, Goto
  <2>1. CASE Queued(j) \/ Begin(j) \/ Finish(j) \/ Save(j)
    BY <2>1 DEF Queued, Begin, Finish, Save, WorkType, Works
  <2>2. CASE Prepare(j) \/ OpenPart(j) \/ Verify(j) \/ Swap(j)
    BY <2>2 DEF Prepare, OpenPart, Verify, Swap, WorkType, Works
  <2>3. CASE Rename(j)
    <3>1. CASE Fail(j, "failed")  BY <2>3, <3>1, FailType DEF Rename
    <3>2. CASE Goto(j, "finish")  BY <3>2 DEF WorkType, Works
    <3> QED BY <2>3, <3>1, <3>2 DEF Rename
  <2>4. CASE ClearActive(j)  BY <2>4 DEF ClearActive, Idle, WorkType, Works
  <2>5. CASE Get(j)
    <3>1. CASE Fail(j, "failed")  BY <2>5, <3>1, FailType DEF Get
    <3>2. ASSUME NEW pos \in 0..Size, Open(j, pos) PROVE WorkType'
      <4>1. T(j) \in Targets  BY <2>5 DEF Get
      <4>2. serves[T(j)] \in Versions  BY <4>1 DEF OtherType
      <4> DEFINE w == [work[j] EXCEPT !.pc = "open", !.pos = pos, !.src = serves[T(j)]]
      <4>3. work[j] \in Works  BY DEF WorkType
      <4>4. w \in Works  BY <4>2, <4>3 DEF Works
      <4>5. work' = [work EXCEPT ![j] = w]  BY <3>2 DEF Open, WorkType, Works
      <4> QED BY <4>4, <4>5 DEF WorkType
    <3>3. 0 \in 0..Size /\ 1..(Size - 1) \subseteq 0..Size  OBVIOUS
    <3> QED BY <2>5, <3>1, <3>2, <3>3 DEF Get
  <2>6. CASE Copy(j)
    <3>1. CASE Fail(j, "failed")  BY <2>6, <3>1, FailType DEF Copy
    <3>2. CASE /\ work[j].pos < Size
               /\ work' = [work EXCEPT ![j].pos = @ + 1, ![j].pc = IF work[j].pos + 1 = Size THEN "verify" ELSE "copy"]
      <4>1. work[j].pos \in 0..Size /\ work[j].pos + 1 \in 0..Size  BY <3>2 DEF WorkType, Works
      <4>2. PICK pc \in {"verify", "copy"} : work' = [work EXCEPT ![j].pos = @ + 1, ![j].pc = pc]  BY <3>2
      <4> DEFINE w == [work[j] EXCEPT !.pos = work[j].pos + 1, !.pc = pc]
      <4>3. work[j] \in Works  BY DEF WorkType
      <4>4. w \in Works  BY <4>1, <4>3 DEF Works
      <4>5. work' = [work EXCEPT ![j] = w]  BY <4>2 DEF WorkType, Works
      <4> QED BY <4>4, <4>5 DEF WorkType
    <3> QED BY <2>6, <3>1, <3>2 DEF Copy
  <2>7. CASE Stopped(j)  BY <2>7, FailType DEF Stopped
  <2> QED BY <2>1, <2>2, <2>3, <2>4, <2>5, <2>6, <2>7 DEF Worker, Local
<1> QED BY <1>1, <1>2, <1>3, WorkerOwn DEF Held

\* A file that a unit is appended to is a file still.
LEMMA AppendedIsFile ==
  ASSUME NEW f \in Files, Exists(f), NEW w \in Works  PROVE Appended(f, w) \in Files
<1>1. f.n \in Nat /\ f.n + 1 \in Nat  BY DEF Files, Exists
<1>2. w.src \in Versions \cup {0, Mixed}  BY DEF Works
<1> QED BY <1>1, <1>2 DEF Appended, Files

LEMMA WorkerDisk ==
  ASSUME IInv, NEW j \in Jobs, Worker(j) PROVE DiskType'
<1>0. /\ WorkType /\ JobType /\ FileType /\ DiskType
      /\ work[j].pc # "none" => T(j) \in Targets
  BY TypeParts DEF IInv, Own, Workers, Known, DiskType
<1>1. rec' \in [Jobs -> States]
  <2> USE <1>0 DEF DiskType, JobType, States, Terminal, Persist
  <2>1. CASE Local(j) /\ ~Begin(j)
    BY <2>1 DEF Local, Queued, Prepare, OpenPart, Verify, Swap, Rename, Finish, Save, ClearActive
  <2>2. CASE Begin(j)  BY <2>2 DEF Begin
  <2>3. CASE Get(j) \/ Copy(j) \/ Stopped(j)  BY <2>3 DEF Get, Copy, Stopped
  <2> QED BY <2>1, <2>2, <2>3 DEF Worker
<1>2. FileType'
  <2> USE <1>0, SomeFiles DEF At
  <2>1. CASE Queued(j) \/ Begin(j) \/ Finish(j) \/ Save(j) \/ ClearActive(j)
    BY <2>1 DEF Queued, Begin, Finish, Save, ClearActive, FileType
  <2>2. CASE Prepare(j) \/ OpenPart(j) \/ Verify(j) \/ Swap(j)
    BY <2>2 DEF Prepare, OpenPart, Verify, Swap, FileType
  <2>3. CASE Rename(j)
    <3>1. CASE Fail(j, "failed") /\ UNCHANGED target  BY <2>3, <3>1, FailFiles DEF FileType
    <3>2. CASE target' = [target EXCEPT ![T(j)] = part[T(j)]] /\ part' = [part EXCEPT ![T(j)] = Absent]
      BY <2>3, <3>2 DEF Rename, FileType
    <3> QED BY <2>3, <3>1, <3>2 DEF Rename
  <2>4. CASE Get(j)
    <3>1. CASE Fail(j, "failed")  BY <2>4, <3>1, FailFiles DEF Get, FileType
    <3>2. CASE UNCHANGED part  BY <2>4, <3>2 DEF Get, FileType
    <3> QED BY <2>4, <3>1, <3>2 DEF Get
  <2>5. CASE Copy(j)
    <3>1. CASE Fail(j, "failed")  BY <2>5, <3>1, FailFiles DEF Copy, FileType
    <3>2. CASE part' = IF Exists(part[T(j)]) THEN [part EXCEPT ![T(j)] = Appended(@, work[j])] ELSE part
      <4>1. T(j) \in Targets /\ part[T(j)] \in Files /\ work[j] \in Works  BY <2>5 DEF Copy, FileType, WorkType
      <4>2. Exists(part[T(j)]) => Appended(part[T(j)], work[j]) \in Files  BY <4>1, AppendedIsFile
      <4> QED BY <2>5, <3>2, <4>1, <4>2 DEF Copy, FileType
    <3> QED BY <2>5, <3>1, <3>2 DEF Copy
  <2>6. CASE Stopped(j)  BY <2>6, FailFiles DEF Stopped, FileType
  <2> QED BY <2>1, <2>2, <2>3, <2>4, <2>5, <2>6 DEF Worker, Local
<1> QED BY <1>0, <1>1, <1>2, WorkerFrame DEF DiskType

\* A registered job starts at its first step.
LEMMA RegisterType ==
  ASSUME WorkType, JobType, NEW j \in Jobs, NEW t \in Targets, Register(j, t)
  PROVE  WorkType' /\ jobs' \in [Jobs -> States] /\ active' \in [Targets -> 0..MaxJobs]
<1>1. [Idle EXCEPT !.pc = "queue"] \in Works
  <2>1. Idle \in Works  BY DownloadOK DEF Idle, Works
  <2> QED BY <2>1 DEF Works
<1>2. WorkType'  BY <1>1 DEF Register, WorkType
<1>3. j \in 0..MaxJobs  BY DownloadOK DEF Jobs
<1> QED BY <1>2, <1>3 DEF Register, JobType, States

LEMMA NoCallType == NoCall \in Calls
BY DEF NoCall, Calls

\* A new job's request is recorded.
LEMMA RequestType ==
  ASSUME OtherType, NEW t \in Targets, NEW force \in BOOLEAN, Request(t, force)  PROVE req' \in [Jobs -> Reqs]
<1>1. [target |-> t, force |-> force, want |-> serves[t]] \in Reqs  BY DEF OtherType, Reqs
<1> QED BY <1>1 DEF OtherType, Request

LEMMA OtherHeld ==
  ASSUME Held, Next, ~ \E j \in Jobs : Worker(j)  PROVE Held'
<1>0. WorkType /\ JobType /\ OtherType  BY DEF Held
<1>1. issued \in Nat /\ MaxJobs \in Nat  BY <1>0, DownloadOK DEF OtherType
<1> SUFFICES WorkType' /\ JobType' /\ OtherType'  BY OtherOwn DEF Held
<1>2. ASSUME UNCHANGED <<jobs, active, work>> PROVE WorkType' /\ JobType'
  BY <1>0, <1>2 DEF WorkType, JobType
<1>3. ASSUME NEW t \in Targets, NEW force \in BOOLEAN, StartCall(t, force) PROVE WorkType' /\ JobType' /\ OtherType'
  <2>1. caller' \in Calls  BY <1>3 DEF StartCall, Calls
  <2> QED BY <1>0, <1>2, <1>3, <2>1 DEF StartCall, OtherType
<1>4. CASE StartHave
  <2> USE <1>4 DEF StartHave
  <2>1. NewJob \in Jobs /\ caller.target \in Targets  BY <1>1 DEF Held, Own, Called, NewJob, Jobs
  <2>2. caller.force \in BOOLEAN  BY <1>0 DEF OtherType, Calls
  <2>3. req' \in [Jobs -> Reqs]  BY <1>0, <2>1, <2>2, RequestType
  <2>4. issued' \in 0..MaxJobs  BY <1>1, <2>1 DEF Jobs
  <2>5. OtherType'  BY <1>0, <2>3, <2>4, NoCallType DEF OtherType
  <2>6. WorkType' /\ JobType'  BY <1>0 DEF WorkType, JobType, States, Terminal
  <2> QED BY <2>5, <2>6
<1>5. CASE Launch
  <2> USE <1>5 DEF Launch
  <2>1. NewJob \in Jobs /\ caller.target \in Targets  BY <1>1 DEF Held, Own, Called, NewJob, Jobs
  <2>2. caller.force \in BOOLEAN  BY <1>0 DEF OtherType, Calls
  <2>3. req' \in [Jobs -> Reqs]  BY <1>0, <2>1, <2>2, RequestType DEF OtherType
  <2>4. OtherType'  BY <1>0, <1>1, <2>1, <2>3, NoCallType DEF OtherType, NewJob, Jobs
  <2>5. CASE UNCHANGED <<jobs, active, work, req, issued>>  BY <1>2, <2>4, <2>5
  <2>6. CASE Register(NewJob, caller.target)  BY <1>0, <2>1, <2>4, <2>6, RegisterType DEF JobType
  <2> QED BY <2>5, <2>6
<1>6. ASSUME NEW j \in Jobs, Cancel(j) PROVE WorkType' /\ JobType' /\ OtherType'
  <2> USE <1>0, <1>6 DEF Cancel
  <2>1. OtherType' /\ JobType'  BY DEF OtherType, JobType, States, Terminal
  <2>2. WorkType'  BY DEF WorkType, Works
  <2> QED BY <2>1, <2>2
<1>7. CASE Crash
  <2> USE <1>0, <1>7, DownloadOK DEF Crash
  <2>1. up' = FALSE /\ next' = 0 /\ 0 \in 0..MaxJobs  BY <1>1
  <2>2. OtherType'  BY <2>1, NoCallType DEF OtherType
  <2>3. JobType'  BY DEF JobType, States
  <2>4. Idle \in Works  BY DEF Works, Idle
  <2>5. WorkType'  BY <2>4 DEF WorkType
  <2> QED BY <2>2, <2>3, <2>5
<1>8. CASE Restart
  BY <1>0, <1>1, <1>2, <1>8 DEF Restart, OtherType
<1>9. CASE Recover
  <2> USE <1>0, <1>9 DEF Recover
  <2>1. next \in Jobs /\ next <= issued /\ T(next) \in Targets
    BY <1>1 DEF Held, Own, Recovering, Known, OtherType, Jobs
  <2>2. next' \in 0..MaxJobs  BY <1>1, <2>1 DEF Jobs, OtherType
  <2>3. OtherType'  BY <2>2 DEF OtherType
  <2>4. CASE UNCHANGED <<jobs, active, work>>  BY <1>2, <2>3, <2>4
  <2>5. CASE UNCHANGED <<active, work>> /\ \E s \in States : Restore(next, s)
    BY <2>3, <2>5 DEF Restore, JobType, WorkType
  <2>6. CASE Register(next, T(next))
    BY <2>1, <2>3, <2>6, RegisterType DEF JobType
  <2>7. "completed" \in States /\ Terminal \subseteq States  BY DEF States, Terminal
  <2> QED BY <2>4, <2>5, <2>6, <2>7 DEF Reconcile
<1>10. ASSUME NEW t \in Targets, UserDeletes(t) \/ ServerChanges(t) PROVE WorkType' /\ JobType' /\ OtherType'
  BY <1>0, <1>2, <1>10 DEF UserDeletes, ServerChanges, OtherType
<1>11. CASE AtBound  BY <1>0, <1>2, <1>11 DEF AtBound, vars, OtherType
<1> QED BY <1>3, <1>4, <1>5, <1>6, <1>7, <1>8, <1>9, <1>10, <1>11 DEF Next

LEMMA OtherDisk ==
  ASSUME IInv, Next, ~ \E j \in Jobs : Worker(j)  PROVE DiskType'
<1>0. FileType /\ DiskType /\ OtherType  BY TypeParts DEF IInv, DiskType
<1>1. issued \in Nat /\ MaxJobs \in Nat  BY <1>0, DownloadOK DEF OtherType
<1>2. ASSUME UNCHANGED <<rec, part, target, fetched, stale>> PROVE DiskType'
  BY <1>0, <1>2 DEF DiskType, FileType
<1>3. CASE StartHave
  <2> USE <1>0, <1>3 DEF StartHave, DiskType
  <2>1. NewJob \in Jobs  BY <1>1 DEF IInv, Own, Called, NewJob, Jobs
  <2>2. stale' \subseteq Jobs /\ rec' \in [Jobs -> States]  BY <2>1 DEF Persist, States, Terminal
  <2> QED BY <2>2 DEF FileType
<1>4. CASE Recover
  <2> USE <1>0, <1>4 DEF Recover, DiskType
  <2>1. next \in Jobs  BY <1>1 DEF IInv, Own, Recovering, Known, OtherType, Jobs
  <2>2. stale' \subseteq Jobs /\ rec' \in [Jobs -> States]
    BY <2>1 DEF Reconcile, Persist, States, Terminal
  <2>3. FileType'  BY <2>1, SomeFiles DEF Reconcile, Restore, FileType
  <2> QED BY <2>2, <2>3
<1>5. ASSUME NEW t \in Targets, UserDeletes(t) PROVE DiskType'
  <2>1. FileType'  BY <1>0, <1>5, SomeFiles DEF UserDeletes, FileType
  <2> QED BY <1>0, <1>5, <2>1 DEF UserDeletes, DiskType
<1>6. ASSUME NEW t \in Targets, ServerChanges(t) PROVE DiskType'  BY <1>2, <1>6 DEF ServerChanges
<1>7. ASSUME NEW t \in Targets, NEW force \in BOOLEAN, StartCall(t, force) PROVE DiskType'
  BY <1>2, <1>7 DEF StartCall
<1>8. ASSUME NEW j \in Jobs, Cancel(j) PROVE DiskType'  BY <1>2, <1>8 DEF Cancel
<1>9. CASE Launch \/ Crash \/ Restart  BY <1>2, <1>9 DEF Launch, Crash, Restart
<1>10. CASE AtBound  BY <1>2, <1>10 DEF AtBound, vars
<1> QED BY <1>3, <1>4, <1>5, <1>6, <1>7, <1>8, <1>9, <1>10 DEF Next

\* No job is recorded before it is issued.
LEMMA RecordedLate ==
  ASSUME IInv, Next  PROVE Unrecorded'
<1>0. DiskType /\ OtherType /\ issued \in Nat /\ MaxJobs \in Nat  BY TypeParts, DownloadOK DEF IInv, OtherType
<1>1. Unrecorded /\ Own  BY DEF IInv
<1>2. ASSUME NEW j \in Jobs, Worker(j) PROVE Unrecorded'
  <2>1. work[j].pc # "none"
    BY <1>2 DEF Worker, Local, At, Queued, Begin, Prepare, OpenPart, Verify, Swap, Rename, Finish, Save, ClearActive,
                Get, Copy, Stopped
  <2>2. j <= issued  BY <1>1, <2>1 DEF Own, Workers
  <2> QED BY <1>0, <1>1, <1>2, <2>2, WorkerFrame DEF Unrecorded, Jobs
<1>3. CASE StartHave
  <2>1. \A k \in Jobs \ {NewJob} : rec'[k] = rec[k]  BY <1>0, <1>3 DEF StartHave, Persist, DiskType
  <2> QED BY <1>0, <1>1, <1>3, <2>1 DEF StartHave, Unrecorded, NewJob, Jobs
<1>4. CASE Launch
  <2>1. issued' >= issued /\ rec' = rec  BY <1>0, <1>4 DEF Launch, NewJob
  <2>2. issued' \in Int  BY <1>0, <1>4 DEF Launch, NewJob
  <2> QED BY <1>0, <1>1, <2>1, <2>2 DEF Unrecorded, Jobs
<1>5. CASE Recover
  <2>1. next <= issued /\ issued' = issued  BY <1>1, <1>5 DEF Recover, Own, Recovering
  <2>2. \A k \in Jobs \ {next} : rec'[k] = rec[k]  BY <1>0, <1>5 DEF Recover, Reconcile, Persist, DiskType
  <2> QED BY <1>0, <1>1, <2>1, <2>2 DEF Unrecorded, Jobs, OtherType
<1>6. ASSUME UNCHANGED <<rec, issued>> PROVE Unrecorded'  BY <1>1, <1>6 DEF Unrecorded
<1>7. ASSUME NEW t \in Targets, UserDeletes(t) \/ ServerChanges(t) PROVE Unrecorded'
  BY <1>6, <1>7 DEF UserDeletes, ServerChanges
<1>8. ASSUME NEW t \in Targets, NEW force \in BOOLEAN, StartCall(t, force) PROVE Unrecorded'
  BY <1>6, <1>8 DEF StartCall
<1>9. ASSUME NEW j \in Jobs, Cancel(j) PROVE Unrecorded'  BY <1>6, <1>9 DEF Cancel
<1>10. CASE Crash \/ Restart \/ AtBound  BY <1>6, <1>10 DEF Crash, Restart, AtBound, vars
<1> QED BY <1>2, <1>3, <1>4, <1>5, <1>7, <1>8, <1>9, <1>10 DEF Next
-----------------------------------------------------------------------------
(* The transfer                                                            *)

\* The step of a goroutine leaves the partial files of the others alone.
LEMMA OthersKept ==
  ASSUME IInv, NEW j \in Jobs, Worker(j), NEW k \in Jobs \ {j}
  PROVE  (PhaseOf(k) /\ SoundOf(k))'
<1>1. work'[k] = work[k] /\ jobs'[k] = jobs[k] /\ req' = req  BY WorkerFrame
<1>2. CASE work[k].pc = "none"  BY <1>1, <1>2 DEF PhaseOf, SoundOf, Late
<1>3. CASE work[k].pc # "none"
  <2>1. work[j].pc # "none"
    BY DEF Worker, Local, At, Queued, Begin, Prepare, OpenPart, Verify, Swap, Rename, Finish, Save, ClearActive,
           Get, Copy, Stopped
  <2>2. T(k) \in Targets /\ T(j) \in Targets  BY <1>3, <2>1 DEF IInv, Own, Workers, Known
  <2>3. T(k) # T(j)  BY <1>3, <2>1, <2>2 DEF IInv, Own, ActiveIsBusy
  <2>4. part'[T(k)] = part[T(k)]  BY <2>2, <2>3, WorkerFrame
  <2> QED BY <1>1, <2>4 DEF IInv, Transfer, PhaseOf, SoundOf, T
<1> QED BY <1>2, <1>3

LEMMA WorkerTransfer ==
  ASSUME IInv, NEW j \in Jobs, Worker(j) PROVE Transfer'
<1>0. /\ PhaseOf(j) /\ SoundOf(j) /\ work[j] \in Works
      /\ work \in [Jobs -> Works] /\ jobs \in [Jobs -> States] /\ part \in [Targets -> Files]
      /\ work[j].pc # "none" => T(j) \in Targets
  BY TypeParts DEF IInv, Transfer, WorkType, JobType, FileType, DiskType, Own, Workers, Known
<1> USE <1>0
<1>1. PhaseOf(j)'
  <2> USE DEF PhaseOf, Late, At, Goto, Fail, Works
  <2>1. CASE Queued(j) \/ Begin(j) \/ Finish(j) \/ Save(j)  BY <2>1 DEF Queued, Begin, Finish, Save
  <2>2. CASE Prepare(j) \/ OpenPart(j) \/ Verify(j) \/ Swap(j)  BY <2>2 DEF Prepare, OpenPart, Verify, Swap
  <2>3. CASE Rename(j)  BY <2>3 DEF Rename
  <2>4. CASE ClearActive(j)  BY <2>4 DEF ClearActive, Idle
  <2>5. CASE Get(j) \/ Copy(j) \/ Stopped(j)  BY <2>5 DEF Get, Open, Copy, Stopped
  <2> QED BY <2>1, <2>2, <2>3, <2>4, <2>5 DEF Worker, Local
<1>2. SoundOf(j)'
  <2> USE DEF SoundOf, At, Goto, Fail, Works, T
  <2>1. CASE Queued(j) \/ Begin(j) \/ Finish(j) \/ Save(j)  BY <2>1 DEF Queued, Begin, Finish, Save
  <2>2. CASE Prepare(j) \/ OpenPart(j)  BY <2>2 DEF Prepare, OpenPart
  <2>3. CASE Verify(j)  BY <2>3 DEF Verify
  <2>4. CASE Swap(j)  BY <2>4 DEF Swap
  <2>5. CASE Rename(j)  BY <2>5 DEF Rename
  <2>6. CASE ClearActive(j)  BY <2>6 DEF ClearActive, Idle
  <2>7. CASE Get(j) \/ Copy(j) \/ Stopped(j)  BY <2>7 DEF Get, Open, Copy, Stopped
  <2> QED BY <2>1, <2>2, <2>3, <2>4, <2>5, <2>6, <2>7 DEF Worker, Local
<1> QED BY <1>1, <1>2, OthersKept DEF Transfer

LEMMA OtherTransfer ==
  ASSUME IInv, Next, ~ \E j \in Jobs : Worker(j)  PROVE Transfer'
<1>0. /\ work \in [Jobs -> Works] /\ jobs \in [Jobs -> States] /\ part \in [Targets -> Files]
      /\ req \in [Jobs -> Reqs] /\ issued \in Nat /\ MaxJobs \in Nat
  BY TypeParts, DownloadOK DEF IInv, WorkType, JobType, FileType, DiskType, OtherType
<1> USE DEF T
<1>1. ASSUME UNCHANGED <<jobs, work, req, part>> PROVE Transfer'
  BY <1>1 DEF IInv, Transfer, PhaseOf, SoundOf
<1>2. ASSUME NEW n \in Jobs, work[n].pc = "none", part' = part,
             \A k \in Jobs \ {n} : work'[k] = work[k] /\ jobs'[k] = jobs[k] /\ req'[k] = req[k],
             work'[n].pc = "none" \/ (work'[n].pc = "queue" /\ jobs'[n] = "queued")
      PROVE  Transfer'
  <2>1. (PhaseOf(n) /\ SoundOf(n))'  BY <1>2 DEF PhaseOf, SoundOf, Late
  <2>2. ASSUME NEW k \in Jobs \ {n} PROVE (PhaseOf(k) /\ SoundOf(k))'
    BY <1>2 DEF IInv, Transfer, PhaseOf, SoundOf
  <2> QED BY <2>1, <2>2 DEF Transfer
<1>3. ASSUME NEW t \in Targets, NEW force \in BOOLEAN, StartCall(t, force) PROVE Transfer'
  BY <1>1, <1>3 DEF StartCall
<1>4. CASE StartHave
  <2>1. NewJob \in Jobs /\ work[NewJob].pc = "none"
    BY <1>0, <1>4 DEF StartHave, IInv, Own, Called, Fresh, NewJob, Jobs
  <2> QED BY <1>0, <1>2, <1>4, <2>1 DEF StartHave, Request
<1>5. CASE Launch
  <2>1. NewJob \in Jobs /\ work[NewJob].pc = "none"
    BY <1>0, <1>5 DEF Launch, IInv, Own, Called, Fresh, NewJob, Jobs
  <2>2. CASE UNCHANGED <<jobs, active, work, req, issued>>  BY <1>1, <1>5, <2>2 DEF Launch
  <2>3. CASE Register(NewJob, caller.target) /\ Request(caller.target, caller.force)
    <3>1. work'[NewJob].pc = "queue" /\ jobs'[NewJob] = "queued"  BY <1>0, <2>1, <2>3 DEF Register, Idle
    <3> QED BY <1>0, <1>2, <1>5, <2>1, <2>3, <3>1 DEF Launch, Register, Request
  <2> QED BY <1>5, <2>2, <2>3 DEF Launch
<1>6. ASSUME NEW j \in Jobs, Cancel(j) PROVE Transfer'
  <2> SUFFICES ASSUME NEW k \in Jobs PROVE (PhaseOf(k) /\ SoundOf(k))'
    BY DEF Transfer
  <2>1. PhaseOf(k) /\ SoundOf(k)  BY DEF IInv, Transfer
  <2>2. work'[k].pc = work[k].pc /\ work'[k].pos = work[k].pos  BY <1>0, <1>6 DEF Cancel, Works
  <2>3. jobs'[k] = jobs[k] \/ jobs'[k] = "cancelled"  BY <1>0, <1>6 DEF Cancel
  <2> QED BY <1>6, <2>1, <2>2, <2>3 DEF Cancel, PhaseOf, SoundOf
<1>7. CASE Crash  BY <1>7 DEF Crash, Idle, Transfer, PhaseOf, SoundOf, Late
<1>8. CASE Restart  BY <1>1, <1>8 DEF Restart
<1>9. CASE Recover
  <2>1. next \in Jobs /\ work[next].pc = "none" /\ T(next) \in Targets
    BY <1>0, <1>9, TypeParts DEF Recover, IInv, Own, Recovering, Known, OtherType, Jobs
  <2>2. CASE UNCHANGED <<jobs, active, work, rec, part>>  BY <1>1, <1>9, <2>2 DEF Recover
  <2>3. CASE UNCHANGED <<active, work>> /\ \E s \in States : Restore(next, s)
    <3> SUFFICES ASSUME NEW k \in Jobs PROVE (PhaseOf(k) /\ SoundOf(k))'
      BY DEF Transfer
    <3>1. CASE work[k].pc = "none"  BY <2>3, <3>1 DEF PhaseOf, SoundOf, Late
    <3>2. CASE work[k].pc # "none"
      <4>1. k # next /\ T(k) \in Targets  BY <2>1, <3>2 DEF IInv, Own, Workers, Known
      <4>2. PhaseOf(k) /\ SoundOf(k)  BY DEF IInv, Transfer
      <4>3. part'[T(k)] = part[T(k)] \/ part'[T(k)] = Absent  BY <1>0, <2>3, <4>1 DEF Restore
      <4>4. jobs'[k] = jobs[k] /\ work' = work /\ req' = req  BY <1>0, <1>9, <2>3, <4>1 DEF Restore, Recover
      <4> QED BY <4>2, <4>3, <4>4 DEF PhaseOf, SoundOf
    <3> QED BY <3>1, <3>2
  <2>4. CASE Register(next, T(next)) /\ UNCHANGED <<part, rec>>
    <3>1. work'[next].pc = "queue" /\ jobs'[next] = "queued"  BY <1>0, <2>1, <2>4 DEF Register, Idle
    <3> QED BY <1>0, <1>2, <1>9, <2>1, <2>4, <3>1 DEF Recover, Register
  <2>5. "completed" \in States /\ Terminal \subseteq States  BY DEF States, Terminal
  <2> QED BY <1>9, <2>2, <2>3, <2>4, <2>5 DEF Recover, Reconcile
<1>10. ASSUME NEW t \in Targets, UserDeletes(t) \/ ServerChanges(t) PROVE Transfer'
  BY <1>1, <1>10 DEF UserDeletes, ServerChanges
<1>11. CASE AtBound  BY <1>1, <1>11 DEF AtBound, vars
<1> QED BY <1>3, <1>4, <1>5, <1>6, <1>7, <1>8, <1>9, <1>10, <1>11 DEF Next
-----------------------------------------------------------------------------
(* Theorems                                                                *)

LEMMA Inductive ==
  ASSUME IInv, [Next]_vars PROVE IInv'
<1>1. ASSUME NEW j \in Jobs, Worker(j) PROVE IInv'
  <2>1. Held' /\ DiskType' /\ Transfer'  BY <1>1, HeldOf, WorkerHeld, WorkerDisk, WorkerTransfer
  <2>2. Unrecorded'  BY <1>1, RecordedLate DEF Next
  <2> QED BY <2>1, <2>2, TypePartsNext DEF IInv, Held
<1>2. CASE Next /\ ~ \E j \in Jobs : Worker(j)
  <2>1. Held' /\ DiskType' /\ Transfer'  BY <1>2, HeldOf, OtherHeld, OtherDisk, OtherTransfer
  <2>2. Unrecorded'  BY <1>2, RecordedLate
  <2> QED BY <2>1, <2>2, TypePartsNext DEF IInv, Held
<1>3. CASE UNCHANGED vars
  <2> USE <1>3 DEF vars, IInv, T
  <2>1. TypeOK'  BY DEF TypeOK
  <2>2. Own'
    <3>1. ActiveIsBusy' /\ Workers' /\ Known'  BY DEF Own, ActiveIsBusy, Workers, Known
    <3>2. Fresh' /\ Called'  BY DEF Own, Fresh, Called
    <3>3. Recovering' /\ AtRest'  BY DEF Own, Recovering, AtRest
    <3> QED BY <3>1, <3>2, <3>3 DEF Own
  <2>3. Transfer' /\ Unrecorded'  BY DEF Transfer, PhaseOf, SoundOf, Unrecorded
  <2> QED BY <2>1, <2>2, <2>3
<1> QED BY <1>1, <1>2, <1>3

LEMMA Invariance == Spec => []IInv
<1>1. Init => IInv  BY InitInv
<1>2. IInv /\ [Next]_vars => IInv'  BY Inductive
<1> QED BY <1>1, <1>2, PTL DEF Spec

\* The manager, its goroutines, its records and its files keep their shape, for
\* any number of targets, jobs and versions.
THEOREM TypeCorrect == Spec => []TypeOK
<1>1. IInv => TypeOK  BY DEF IInv
<1> QED BY <1>1, Invariance, PTL

\* What a daemon knows of itself stays while it does nothing.
LEMMA HeldKept ==
  ASSUME Held, UNCHANGED <<own, req, serves>> PROVE Held'
<1> USE DEF own, T
<1>1. WorkType' /\ JobType' /\ OtherType'  BY DEF Held, WorkType, JobType, OtherType
<1>2. ActiveIsBusy' /\ Workers' /\ Known'  BY DEF Held, Own, ActiveIsBusy, Workers, Known
<1>3. Fresh' /\ Called'  BY DEF Held, Own, Fresh, Called
<1>4. Recovering' /\ AtRest'  BY DEF Held, Own, Recovering, AtRest
<1> QED BY <1>1, <1>2, <1>3, <1>4 DEF Held, Own

\* A second daemon has a memory of its own.
LEMMA SecondFrame ==
  ASSUME SecondStarts \/ SecondRecovers \/ SecondEnds \/ \E j \in Jobs : SecondWorks(j)
  PROVE  UNCHANGED <<own, req, serves>>
<1>1. CASE SecondStarts \/ SecondEnds  BY <1>1 DEF SecondStarts, SecondEnds, own, vars
<1>2. CASE SecondRecovers  BY <1>2 DEF SecondRecovers, Second!Recover
<1>3. ASSUME NEW j \in Jobs, SecondWorks(j) PROVE UNCHANGED <<own, req, serves>>
  <2>1. CASE Second!Local(j)
    BY <1>3, <2>1 DEF SecondWorks, Second!Local, Second!Queued, Second!Begin, Second!Prepare, Second!OpenPart,
                      Second!Verify, Second!Swap, Second!Rename, Second!Finish, Second!Save, Second!ClearActive
  <2>2. CASE Second!Get(j) \/ Second!Copy(j) \/ Second!Stopped(j)
    BY <1>3, <2>2 DEF SecondWorks, Second!Get, Second!Copy, Second!Stopped
  <2> QED BY <1>3, <2>1, <2>2 DEF SecondWorks, Second!Worker
<1> QED BY <1>1, <1>2, <1>3

\* launch's reservation under the lock and finish's clearActive: within the daemon a
\* target is owned exactly while one goroutine works on it, whatever the recoveries of
\* other daemons started beside it do to its records and its files.
THEOREM TargetsAreOwned == DSpec => []ActiveIsBusy
<1>1. DInit => Held  BY InitInv, HeldOf DEF DInit
<1>2. ASSUME Held, [DNext]_dvars PROVE Held'
  <2>1. ASSUME NEW j \in Jobs, Worker(j) PROVE Held'  BY <1>2, <2>1, WorkerHeld
  <2>2. CASE Next /\ ~ \E j \in Jobs : Worker(j)  BY <1>2, <2>2, OtherHeld
  <2>3. CASE SecondStarts \/ SecondRecovers \/ SecondEnds \/ \E j \in Jobs : SecondWorks(j)
    BY <1>2, <2>3, SecondFrame, HeldKept
  <2>4. CASE UNCHANGED dvars  BY <1>2, <2>4, HeldKept DEF dvars, vars, own
  <2> QED BY <1>2, <2>1, <2>2, <2>3, <2>4 DEF DNext
<1>3. Held => ActiveIsBusy  BY DEF Held, Own
<1> QED BY <1>1, <1>2, <1>3, PTL DEF DSpec

\* IsTerminal's promise (types.go:36): while the daemon runs, neither the job's
\* goroutine, nor another call, nor the recovery changes a terminal state.
THEOREM AnswersStand == Spec => TerminalIsFinal
<1> DEFINE P == \A j \in Jobs : jobs[j] \in Terminal /\ up' => jobs'[j] = jobs[j]
<1>1. ASSUME IInv, [Next]_vars PROVE P
  <2>0. jobs \in [Jobs -> States] /\ issued \in Nat /\ MaxJobs \in Nat /\ next \in 0..MaxJobs
    BY <1>1, DownloadOK DEF IInv, TypeOK
  <2>1. ASSUME UNCHANGED jobs PROVE P  BY <2>1
  <2>2. ASSUME NEW n \in Jobs, jobs[n] \notin Terminal \/ jobs'[n] = jobs[n],
               \A k \in Jobs \ {n} : jobs'[k] = jobs[k]
        PROVE  P
    BY <2>2
  <2>3. ASSUME NEW j \in Jobs, Begin(j) \/ Finish(j) PROVE P
    <3>1. Begin(j) => jobs[j] \in {"queued", "cancelled"}  BY <1>1 DEF Begin, At, IInv, Transfer, PhaseOf
    <3>2. Finish(j) => jobs[j] \in {"running", "cancelled"}  BY <1>1 DEF Finish, At, IInv, Transfer, PhaseOf, Late
    <3>3. jobs[j] \notin Terminal \/ jobs'[j] = jobs[j]
      BY <2>0, <2>3, <3>1, <3>2 DEF Begin, Finish, Terminal
    <3>4. \A k \in Jobs \ {j} : jobs'[k] = jobs[k]  BY <2>0, <2>3 DEF Begin, Finish
    <3> QED BY <2>2, <3>3, <3>4
  <2>4. ASSUME NEW j \in Jobs, Worker(j), ~Begin(j), ~Finish(j) PROVE P
    BY <2>1, <2>4 DEF Worker, Local, Queued, Prepare, OpenPart, Verify, Swap, Rename, Save, ClearActive, Get, Copy, Stopped
  <2>5. ASSUME NEW j \in Jobs, Cancel(j) PROVE P
    <3>1. jobs[j] \notin Terminal  BY <2>5 DEF Cancel, Terminal
    <3> QED BY <2>0, <2>2, <2>5, <3>1 DEF Cancel
  <2>6. CASE StartHave \/ Launch
    <3>1. NewJob \in Jobs /\ jobs[NewJob] = "none"
      BY <1>1, <2>0, <2>6 DEF StartHave, Launch, IInv, Own, Called, Fresh, NewJob, Jobs
    <3>2. \A k \in Jobs \ {NewJob} : jobs'[k] = jobs[k]  BY <2>0, <2>6 DEF StartHave, Launch, Register
    <3>3. jobs[NewJob] \notin Terminal  BY <3>1 DEF Terminal
    <3> QED BY <2>2, <3>1, <3>2, <3>3
  <2>7. CASE Crash  BY <2>7 DEF Crash
  <2>8. CASE Recover
    <3>1. next \in Jobs /\ jobs[next] = "none"  BY <1>1, <2>0, <2>8 DEF Recover, IInv, Own, Recovering, Jobs
    <3>2. \A k \in Jobs \ {next} : jobs'[k] = jobs[k]
      BY <2>0, <2>8 DEF Recover, Reconcile, Restore, Register
    <3>3. jobs[next] \notin Terminal  BY <3>1 DEF Terminal
    <3> QED BY <2>2, <3>1, <3>2, <3>3
  <2>9. CASE Restart  BY <2>1, <2>9 DEF Restart
  <2>10. ASSUME NEW t \in Targets, UserDeletes(t) \/ ServerChanges(t) PROVE P
    BY <2>1, <2>10 DEF UserDeletes, ServerChanges
  <2>11. ASSUME NEW t \in Targets, NEW force \in BOOLEAN, StartCall(t, force) PROVE P  BY <2>1, <2>11 DEF StartCall
  <2>12. CASE UNCHANGED vars  BY <2>1, <2>12 DEF vars
  <2>13. CASE AtBound  BY <2>12, <2>13 DEF AtBound
  <2> QED BY <1>1, <2>3, <2>4, <2>5, <2>6, <2>7, <2>8, <2>9, <2>10, <2>11, <2>12, <2>13 DEF Next
<1>2. IInv /\ [Next]_vars => [P]_vars  BY <1>1
<1> QED BY <1>2, Invariance, PTL DEF Spec, TerminalIsFinal
Published ==
  \A t \in Checked : target'[t] # target[t] /\ Exists(target'[t])
    => \E j \in fetched' : T(j) = t /\ target'[t] = Full(req[j].want)

\* A step of the daemon publishes what has been verified.
LEMMA StepPublishes ==
  ASSUME IInv, [Next]_vars PROVE Published
<1> USE DEF Published
<1>0. Checked \subseteq Targets /\ target \in [Targets -> Files]  BY DownloadOK DEF IInv, TypeOK
<1>1. ASSUME UNCHANGED target PROVE Published  BY <1>1
<1>2. ASSUME NEW j \in Jobs, Rename(j) PROVE Published
  <2>1. CASE UNCHANGED target  BY <1>1, <2>1
  <2>2. CASE /\ Exists(part[T(j)]) /\ target' = [target EXCEPT ![T(j)] = part[T(j)]]
             /\ fetched' = fetched \cup {j}
    <3>1. T(j) \in Targets  BY <1>2 DEF Rename, At, IInv, Own, Workers, Known
    <3>2. T(j) \in Checked => part[T(j)] = Full(req[j].want)
      BY <1>2, <2>2 DEF Rename, At, IInv, Transfer, SoundOf, Exists
    <3> QED BY <1>0, <2>2, <3>1, <3>2
  <2> QED BY <1>2, <2>1, <2>2 DEF Rename
<1>3. ASSUME NEW j \in Jobs, Swap(j) PROVE Published  BY <1>0, <1>3 DEF Swap, Exists
<1>4. ASSUME NEW t \in Targets, UserDeletes(t) PROVE Published  BY <1>0, <1>4 DEF UserDeletes, Exists
<1>5. CASE UNCHANGED vars  BY <1>1, <1>5 DEF vars
<1>6. ASSUME NEW j \in Jobs, Worker(j), ~Rename(j), ~Swap(j) PROVE Published
  BY <1>1, <1>6 DEF Worker, Local, Queued, Begin, Prepare, OpenPart, Verify, Finish, Save, ClearActive, Get, Copy, Stopped
<1>7. ASSUME NEW j \in Jobs, Cancel(j) PROVE Published  BY <1>1, <1>7 DEF Cancel
<1>8. ASSUME NEW t \in Targets, NEW force \in BOOLEAN, StartCall(t, force) PROVE Published  BY <1>1, <1>8 DEF StartCall
<1>9. CASE StartHave \/ Launch \/ Crash \/ Restart \/ Recover
  BY <1>1, <1>9 DEF StartHave, Launch, Crash, Restart, Recover
<1>10. ASSUME NEW t \in Targets, ServerChanges(t) PROVE Published  BY <1>1, <1>10 DEF ServerChanges
<1>11. CASE AtBound  BY <1>5, <1>11 DEF AtBound
<1> QED BY <1>2, <1>3, <1>4, <1>5, <1>6, <1>7, <1>8, <1>9, <1>10, <1>11 DEF Next
-----------------------------------------------------------------------------
(* Records and stages                                                      *)

\* No job of the target has a record that could not be written.
Clean(t) == \A k \in stale : T(k) # t
Unfinished(j) == rec[j] \in {"queued", "running"}

\* A job without a goroutine is over or unknown, and one that saves is over.
SettledOf(j) ==
  /\ work[j].pc = "none" => jobs[j] \in Terminal \cup {"none"}
  /\ work[j].pc \in {"save", "clear"} => jobs[j] \in Terminal

\* A goroutine past launch has a record, one about to end has the right one, and
\* so has a job without one, once recovery has come to it.
RecordedOf(j) ==
  Clean(T(j)) =>
    /\ work[j].pc = "clear" => rec[j] = jobs[j]
    /\ work[j].pc \notin {"none", "queue"} => rec[j] # "none"
    /\ up /\ (next = 0 \/ j < next) /\ work[j].pc = "none" => rec[j] = jobs[j]

\* A target has one unfinished record at most, and that is of the job that works on it.
AloneOf(j) ==
  Clean(T(j)) /\ (work[j].pc # "none" \/ Unfinished(j)) => \A k \in Jobs \ {j} : T(k) = T(j) => ~Unfinished(k)

\* A staging directory has a job that will clear it: one at work, or one that
\* recovery has yet to come to.
Staging == {"queue", "run", "prepare", "get", "open", "copy", "verify", "swap", "rename"}
Clears(j, t) == T(j) = t /\ rec[j] # "none" /\ (~up \/ (next # 0 /\ j >= next) \/ work[j].pc \in Staging)
StageOf(t) == Clean(t) /\ Exists(part[t]) => \E j \in Jobs : Clears(j, t)

\* A job that finds a stage finds no target, which would make it give up.
WaitsOf(j) ==
  T(j) \in Multi /\ Clean(T(j)) /\ work[j].pc \in {"queue", "run", "prepare"} /\ Exists(part[T(j)]) => ~Exists(target[T(j)])

Written == \A j \in stale : j <= issued
Agree == Written /\ \A j \in Jobs : SettledOf(j) /\ RecordedOf(j) /\ AloneOf(j)
Staged == (\A t \in Multi : StageOf(t)) /\ \A j \in Jobs : WaitsOf(j)

LEMMA Parts ==
  ASSUME IInv
  PROVE  /\ work \in [Jobs -> Works] /\ jobs \in [Jobs -> States] /\ rec \in [Jobs -> States]
         /\ active \in [Targets -> 0..MaxJobs] /\ req \in [Jobs -> Reqs] /\ stale \subseteq Jobs
         /\ part \in [Targets -> Files] /\ target \in [Targets -> Files]
         /\ issued \in Nat /\ MaxJobs \in Nat /\ next \in 0..MaxJobs /\ Jobs \subseteq Nat \ {0}
         /\ ActiveIsBusy /\ Workers /\ Known /\ Fresh /\ Unrecorded /\ Called /\ Recovering /\ AtRest
         /\ \A j \in Jobs : PhaseOf(j)
<1>1. WorkType /\ JobType /\ OtherType /\ DiskType  BY TypeParts DEF IInv
<1>2. issued \in Nat /\ MaxJobs \in Nat /\ Jobs \subseteq Nat \ {0}  BY <1>1, DownloadOK DEF OtherType, Jobs
<1> QED BY <1>1, <1>2 DEF WorkType, JobType, FileType, OtherType, DiskType, IInv, Own, Transfer

\* Two goroutines never work on one target.
LEMMA OneWorker ==
  ASSUME IInv, NEW j \in Jobs, NEW k \in Jobs, work[j].pc # "none", work[k].pc # "none", T(j) = T(k)
  PROVE  j = k
<1>1. T(j) \in Targets  BY Parts DEF Workers, Known
<1>2. active[T(j)] = j /\ active[T(j)] = k  BY <1>1, Parts DEF ActiveIsBusy
<1> QED BY <1>2

\* What a goroutine's step does to the records: it never writes off a failed write.
LEMMA WorkerRecords ==
  ASSUME IInv, NEW j \in Jobs, Worker(j)
  PROVE  /\ work[j].pc # "none" /\ up /\ j <= issued /\ T(j) \in Targets
         /\ stale \subseteq stale' /\ req' = req /\ T(j)' = T(j)
         /\ \A t : Clean(t)' => Clean(t)
<1>1. work[j].pc # "none"
  <2> USE DEF At
  <2>1. CASE Local(j)  BY <2>1 DEF Local, Queued, Begin, Prepare, OpenPart, Verify, Swap, Rename, Finish, Save, ClearActive
  <2>2. CASE Get(j) \/ Copy(j) \/ Stopped(j)  BY <2>2 DEF Get, Copy, Stopped
  <2> QED BY <2>1, <2>2 DEF Worker
<1>2. stale \subseteq stale'
  <2>1. CASE Local(j)
    BY <2>1 DEF Local, Queued, Begin, Prepare, OpenPart, Verify, Swap, Rename, Finish, Save, ClearActive, Persist
  <2>2. CASE Get(j) \/ Copy(j) \/ Stopped(j)  BY <2>2 DEF Get, Copy, Stopped
  <2> QED BY <2>1, <2>2 DEF Worker
<1>3. req' = req  BY WorkerFrame
<1>4. \A t : Clean(t)' => Clean(t)  BY <1>2, <1>3 DEF Clean, T
<1>5. up /\ j <= issued /\ T(j) \in Targets  BY <1>1, Parts DEF Workers, Known
<1> QED BY <1>1, <1>2, <1>3, <1>4, <1>5 DEF T

LEMMA WorkerSettled ==
  ASSUME IInv, Agree, NEW j \in Jobs, Worker(j) PROVE SettledOf(j)' /\ RecordedOf(j)'
<1> USE DEF At, Goto, T
<1>0. /\ work \in [Jobs -> Works] /\ jobs \in [Jobs -> States] /\ rec \in [Jobs -> States]
      /\ PhaseOf(j) /\ SettledOf(j) /\ RecordedOf(j)
      /\ work[j].pc # "none" /\ req' = req /\ \A t : Clean(t)' => Clean(t)
  BY Parts, WorkerRecords DEF Agree
<1> DEFINE u == j \in stale'
<1>1. u => ~Clean(T(j))'  BY DEF Clean
<1>2. CASE Queued(j)
  <2>1. work'[j].pc = "run" /\ jobs' = jobs  BY <1>0, <1>2 DEF Queued, Works
  <2>2. u \/ rec'[j] # "none"  BY <1>0, <1>2 DEF Queued, Persist, PhaseOf
  <2> QED BY <1>1, <2>1, <2>2 DEF SettledOf, RecordedOf
<1>3. CASE Begin(j)
  <2>1. work'[j].pc = "prepare"  BY <1>0, <1>3 DEF Begin, Works
  <2>2. jobs'[j] # "none"  BY <1>0, <1>3 DEF Begin
  <2>3. u \/ rec'[j] # "none"  BY <1>0, <1>3, <2>2 DEF Begin, Persist
  <2> QED BY <1>1, <2>1, <2>3 DEF SettledOf, RecordedOf
<1>4. ASSUME work[j].pc \notin {"none", "queue"}, work'[j].pc \notin {"none", "save", "clear"}, rec' = rec
      PROVE  SettledOf(j)' /\ RecordedOf(j)'
  BY <1>0, <1>4 DEF SettledOf, RecordedOf
<1>5. CASE Prepare(j) \/ OpenPart(j) \/ Verify(j) \/ Swap(j) \/ Rename(j)
  BY <1>0, <1>4, <1>5 DEF Prepare, OpenPart, Verify, Swap, Rename, Fail, Works
<1>6. CASE Get(j) \/ Copy(j) \/ Stopped(j)
  BY <1>0, <1>4, <1>6 DEF Get, Copy, Stopped, Fail, Open, Works
<1>7. CASE Finish(j)
  <2>1. work'[j].pc = "save" /\ jobs'[j] \in Terminal /\ rec' = rec  BY <1>0, <1>7 DEF Finish, Works, Terminal
  <2> QED BY <1>0, <1>7, <2>1 DEF SettledOf, RecordedOf, Finish
<1>8. CASE Save(j)
  <2>1. work'[j].pc = "clear" /\ jobs' = jobs /\ jobs[j] \in Terminal  BY <1>0, <1>8 DEF Save, Works, SettledOf
  <2>2. u \/ rec'[j] = jobs[j]  BY <1>0, <1>8 DEF Save, Persist
  <2> QED BY <1>1, <2>1, <2>2 DEF SettledOf, RecordedOf, Terminal
<1>9. CASE ClearActive(j)
  <2>1. work'[j].pc = "none" /\ jobs' = jobs /\ rec' = rec /\ jobs[j] \in Terminal
    BY <1>0, <1>9 DEF ClearActive, Works, SettledOf, Idle
  <2>2. Clean(T(j))' => rec[j] = jobs[j]  BY <1>0, <1>9 DEF ClearActive, RecordedOf
  <2> QED BY <2>1, <2>2 DEF SettledOf, RecordedOf
<1> QED BY <1>2, <1>3, <1>5, <1>6, <1>7, <1>8, <1>9 DEF Worker, Local

LEMMA WorkerAgree ==
  ASSUME IInv, Agree, NEW j \in Jobs, Worker(j) PROVE Agree'
<1>0. /\ work[j].pc # "none" /\ up /\ j <= issued /\ T(j) \in Targets
      /\ req' = req /\ issued' = issued /\ next' = next /\ up' = up /\ stale' \subseteq stale \cup {j}
      /\ \A t : Clean(t)' => Clean(t)
      /\ \A k \in Jobs \ {j} : work'[k] = work[k] /\ jobs'[k] = jobs[k] /\ rec'[k] = rec[k]
  BY WorkerRecords, WorkerFrame
<1>1. Written'  BY <1>0 DEF Agree, Written
<1>2. SettledOf(j)' /\ RecordedOf(j)'  BY WorkerSettled
<1>3. AloneOf(j)'
  <2>1. AloneOf(j)  BY DEF Agree
  <2> QED BY <1>0, <2>1 DEF AloneOf, Unfinished, T
<1>4. ASSUME NEW k \in Jobs \ {j} PROVE SettledOf(k)' /\ RecordedOf(k)' /\ AloneOf(k)'
  <2>1. SettledOf(k) /\ RecordedOf(k) /\ AloneOf(k) /\ AloneOf(j)  BY DEF Agree
  <2>2. SettledOf(k)' /\ RecordedOf(k)'  BY <1>0, <2>1 DEF SettledOf, RecordedOf, T
  <2>3. CASE T(k) = T(j)
    <3>1. work[k].pc = "none"  BY <1>0, <2>3, OneWorker
    <3>2. Clean(T(k)) => ~Unfinished(k)  BY <1>0, <2>1, <2>3 DEF AloneOf
    <3> QED BY <1>0, <2>2, <3>1, <3>2 DEF AloneOf, Unfinished, T
  <2>4. CASE T(k) # T(j)  BY <1>0, <2>1, <2>2, <2>4 DEF AloneOf, Unfinished, T
  <2> QED BY <2>3, <2>4
<1> QED BY <1>1, <1>2, <1>3, <1>4 DEF Agree

\* A call or the recovery that touches the job n alone: the others keep their parts.
LEMMA OthersAgree ==
  ASSUME IInv, Agree, NEW n \in Jobs, NEW k \in Jobs \ {n}, up' = up, stale \subseteq stale', n \notin stale \/ T(n)' = T(n),
         \A i \in Jobs \ {n} : work'[i] = work[i] /\ jobs'[i] = jobs[i] /\ rec'[i] = rec[i] /\ req'[i] = req[i],
         next' = 0 \/ k < next' => next = 0 \/ k < next \/ (rec[k] = jobs[k]),
         Unfinished(n)' => Unfinished(n) /\ T(n)' = T(n)
  PROVE  SettledOf(k)' /\ RecordedOf(k)' /\ AloneOf(k)'
<1>0. SettledOf(k) /\ RecordedOf(k) /\ AloneOf(k) /\ stale \subseteq Jobs  BY Parts DEF Agree
<1>1. T(k)' = T(k) /\ Unfinished(k)' = Unfinished(k)  BY DEF T, Unfinished
<1>2. Clean(T(k))' => Clean(T(k))  BY <1>0, <1>1 DEF Clean, T
<1>3. SettledOf(k)'  BY <1>0 DEF SettledOf
<1>4. RecordedOf(k)'  BY <1>0, <1>1, <1>2 DEF RecordedOf
<1>5. AloneOf(k)'
  <2> SUFFICES ASSUME Clean(T(k))', work'[k].pc # "none" \/ Unfinished(k)', NEW i \in Jobs \ {k}, T(i)' = T(k)', Unfinished(i)'
               PROVE  FALSE
    BY DEF AloneOf
  <2>1. T(i) = T(k) /\ Unfinished(i)  BY <1>1 DEF T, Unfinished
  <2>2. work[k].pc # "none" \/ Unfinished(k)  BY <1>1
  <2> QED BY <1>0, <1>2, <2>1, <2>2 DEF AloneOf
<1> QED BY <1>3, <1>4, <1>5

\* A job that a call has just issued is fresh: it has no goroutine and no record yet.
LEMMA NewIsFresh ==
  ASSUME IInv, Agree, caller.pc # "none"
  PROVE  /\ NewJob \in Jobs /\ NewJob \notin stale /\ caller.target \in Targets /\ up /\ next = 0
         /\ work[NewJob].pc = "none" /\ jobs[NewJob] = "none" /\ rec[NewJob] = "none"
<1>1. caller.target \in Targets /\ up /\ next = 0 /\ issued < MaxJobs  BY Parts DEF Called
<1>2. NewJob \in Jobs /\ NewJob > issued  BY <1>1, Parts DEF NewJob, Jobs
<1>3. NewJob \notin stale  BY <1>2, Parts DEF Agree, Written, NewJob
<1> QED BY <1>1, <1>2, <1>3, Parts DEF Fresh, Unrecorded

LEMMA CallsAgree ==
  ASSUME IInv, Agree, StartHave \/ Launch PROVE Agree'
<1>n. PICK n \in Jobs : n = NewJob  BY NewIsFresh DEF StartHave, Launch
<1>0. /\ n = NewJob /\ n \notin stale /\ caller.target \in Targets /\ up /\ next = 0
      /\ work[n].pc = "none" /\ jobs[n] = "none" /\ rec[n] = "none"
  BY <1>n, NewIsFresh DEF StartHave, Launch
<1>1. /\ work \in [Jobs -> Works] /\ jobs \in [Jobs -> States] /\ rec \in [Jobs -> States]
      /\ req \in [Jobs -> Reqs] /\ issued \in Nat /\ stale \subseteq Jobs
  BY Parts
<1>2. CASE UNCHANGED <<jobs, work, req, rec, up, next, stale, issued>>
  BY <1>0, <1>2 DEF Agree, Written, SettledOf, RecordedOf, AloneOf, Unfinished, Clean, T
<1>3. CASE StartHave
  <2>0. work' = work /\ up' = up /\ next' = next /\ stale \subseteq stale' /\ stale' \subseteq stale \cup {n} /\ issued' = n
    BY <1>0, <1>3 DEF StartHave, Persist
  <2>1. jobs'[n] = "already" /\ (rec'[n] = "already" \/ (rec'[n] = "none" /\ n \in stale'))
    BY <1>0, <1>1, <1>3 DEF StartHave, Persist
  <2>2. \A i \in Jobs \ {n} : work'[i] = work[i] /\ jobs'[i] = jobs[i] /\ rec'[i] = rec[i] /\ req'[i] = req[i]
    BY <1>0, <1>1, <1>3 DEF StartHave, Persist, Request
  <2>3. Written'  BY <1>0, <1>1, <2>0 DEF Agree, Written, NewJob
  <2>4. ~Unfinished(n)'  BY <1>0, <2>1 DEF Unfinished
  <2>5. SettledOf(n)' /\ RecordedOf(n)' /\ AloneOf(n)'
    <3>1. n \in stale' => ~Clean(T(n))'  BY DEF Clean
    <3>2. SettledOf(n)'  BY <1>0, <2>0, <2>1 DEF SettledOf, Terminal
    <3>3. RecordedOf(n)'  BY <1>0, <2>0, <2>1, <3>1 DEF RecordedOf
    <3>4. AloneOf(n)'  BY <1>0, <2>0, <2>4 DEF AloneOf
    <3> QED BY <3>2, <3>3, <3>4
  <2>6. ASSUME NEW k \in Jobs \ {n} PROVE SettledOf(k)' /\ RecordedOf(k)' /\ AloneOf(k)'
    BY <1>0, <2>0, <2>2, <2>4, OthersAgree
  <2> QED BY <2>3, <2>5, <2>6 DEF Agree
<1>4. CASE /\ active[caller.target] = 0 /\ Register(n, caller.target) /\ Request(caller.target, caller.force)
           /\ issued' = n /\ UNCHANGED <<rec, up, next, stale>>
  <2>1. work'[n].pc = "queue" /\ T(n)' = caller.target  BY <1>0, <1>1, <1>4 DEF Register, Request, Idle, T
  <2>2. \A i \in Jobs \ {n} : work'[i] = work[i] /\ jobs'[i] = jobs[i] /\ rec'[i] = rec[i] /\ req'[i] = req[i]
    BY <1>0, <1>1, <1>4 DEF Register, Request
  <2>3. Written'  BY <1>0, <1>1, <1>4, Parts DEF Agree, Written, NewJob
  <2>4. ~Unfinished(n)'  BY <1>0, <1>4 DEF Unfinished
  <2>5. SettledOf(n)' /\ RecordedOf(n)'  BY <1>0, <2>1 DEF SettledOf, RecordedOf
  <2>6. AloneOf(n)'
    <3> SUFFICES ASSUME Clean(T(n))', NEW k \in Jobs \ {n}, T(k)' = T(n)' PROVE ~Unfinished(k)'
      BY DEF AloneOf
    <3>1. T(k) = caller.target  BY <1>0, <2>1, <2>2 DEF T
    <3>2. Clean(T(k))  BY <1>0, <1>1, <1>4, <2>1, <2>2, <3>1 DEF Clean, T
    <3>3. work[k].pc = "none"
      <4>1. active[caller.target] # k  BY <1>0, <1>4, Parts
      <4> QED BY <1>0, <3>1, <4>1, Parts DEF ActiveIsBusy
    <3>4. rec[k] \in Terminal \cup {"none"}  BY <1>0, <3>2, <3>3 DEF Agree, RecordedOf, SettledOf
    <3> QED BY <1>4, <3>4 DEF Unfinished, Terminal
  <2>7. ASSUME NEW k \in Jobs \ {n} PROVE SettledOf(k)' /\ RecordedOf(k)' /\ AloneOf(k)'
    BY <1>0, <1>4, <2>2, <2>4, OthersAgree
  <2> QED BY <2>3, <2>5, <2>6, <2>7 DEF Agree
<1> QED BY <1>0, <1>2, <1>3, <1>4 DEF Launch

LEMMA RecoverAgree ==
  ASSUME IInv, Agree, Recover PROVE Agree'
<1>n. PICK n \in Jobs : n = next  BY Parts DEF Recover, Jobs
<1>0. /\ n = next /\ n <= issued /\ up /\ work[n].pc = "none" /\ jobs[n] = "none" /\ T(n) \in Targets
      /\ req' = req /\ issued' = issued /\ up' = up /\ next' = (IF n = issued THEN 0 ELSE n + 1)
  BY <1>n, Parts DEF Recover, Recovering, Known, Jobs
<1>1. /\ work \in [Jobs -> Works] /\ jobs \in [Jobs -> States] /\ rec \in [Jobs -> States]
      /\ issued \in Nat /\ stale \subseteq Jobs /\ Jobs \subseteq Nat \ {0}
  BY Parts
<1>2. stale \subseteq stale' /\ stale' \subseteq stale \cup {n}
  BY <1>0 DEF Recover, Reconcile, Persist
<1>3. \A i \in Jobs \ {n} : work'[i] = work[i] /\ jobs'[i] = jobs[i] /\ rec'[i] = rec[i] /\ req'[i] = req[i]
  BY <1>0, <1>1 DEF Recover, Reconcile, Restore, Register, Persist
<1>4. Unfinished(n)' => Unfinished(n)
  BY <1>0, <1>1 DEF Recover, Reconcile, Persist, Unfinished
<1>5. ASSUME NEW k \in Jobs \ {n} PROVE SettledOf(k)' /\ RecordedOf(k)' /\ AloneOf(k)'
  <2>1. next' = 0 \/ k < next' => k < n \/ rec[k] = jobs[k]
    <3>1. k > issued => rec[k] = jobs[k]  BY <1>0, Parts DEF Fresh, Unrecorded
    <3> QED BY <1>0, <1>1, <3>1
  <2>2. T(n)' = T(n)  BY <1>0 DEF T
  <2> QED BY <1>0, <1>2, <1>3, <1>4, <2>1, <2>2, OthersAgree
<1>6. SettledOf(n)' /\ RecordedOf(n)' /\ AloneOf(n)'
  <2>0. SettledOf(n) /\ AloneOf(n)  BY <1>0 DEF Agree
  <2>c. Clean(T(n))' => Clean(T(n))  BY <1>0, <1>2 DEF Clean, T
  <2>1. CASE work' = work
    <3>1. AloneOf(n)'
      <4> SUFFICES ASSUME Clean(T(n))', Unfinished(n)', NEW i \in Jobs \ {n}, T(i)' = T(n)', Unfinished(i)' PROVE FALSE
        BY <1>0, <2>1 DEF AloneOf
      <4> QED BY <1>0, <1>3, <1>4, <2>0, <2>c DEF AloneOf, Unfinished, T
    <3>2. CASE rec[n] = "none" /\ UNCHANGED <<jobs, rec>>
      BY <1>0, <2>1, <3>1, <3>2 DEF SettledOf, RecordedOf
    <3>3. CASE rec[n] \in Terminal /\ Restore(n, rec[n]) /\ UNCHANGED rec
      <4>1. jobs'[n] = rec[n]  BY <1>0, <1>1, <3>3 DEF Restore
      <4> QED BY <1>0, <2>1, <3>1, <3>3, <4>1 DEF SettledOf, RecordedOf
    <3>4. CASE Restore(n, "completed") /\ Persist(n, "completed")
      <4>1. jobs'[n] = "completed" /\ (rec'[n] = "completed" \/ n \in stale')  BY <1>0, <1>1, <3>4 DEF Restore, Persist
      <4>2. n \in stale' => ~Clean(T(n))'  BY DEF Clean
      <4> QED BY <1>0, <2>1, <3>1, <4>1, <4>2 DEF SettledOf, RecordedOf, Terminal
    <3>5. CASE Unfinished(n) /\ active[T(n)] # 0 /\ UNCHANGED <<jobs, work>>
      <4> DEFINE a == active[T(n)]
      <4>1. a \in Jobs  BY <1>0, <3>5, Parts DEF Jobs
      <4>2. work[a].pc # "none" /\ T(a) = T(n)  BY <1>0, <4>1, Parts DEF ActiveIsBusy
      <4>3. ~Clean(T(n))  BY <1>0, <3>5, <4>1, <4>2 DEF Agree, AloneOf
      <4> QED BY <2>0, <2>c, <3>1, <3>5, <4>3 DEF SettledOf, RecordedOf
    <3> QED BY <2>1, <3>2, <3>3, <3>4, <3>5, <1>0, <1>1 DEF Recover, Reconcile, Register, Unfinished, Idle, Works
  <2>2. CASE Register(n, T(n)) /\ Unfinished(n) /\ UNCHANGED rec
    <3>1. work'[n].pc = "queue"  BY <1>0, <1>1, <2>2 DEF Register, Idle
    <3>2. AloneOf(n)'  BY <1>0, <2>0, <2>c, <2>2 DEF AloneOf, Unfinished, T
    <3> QED BY <3>1, <3>2 DEF SettledOf, RecordedOf
  <2> QED BY <1>0, <2>1, <2>2 DEF Recover, Reconcile, Unfinished
<1>7. Written'  BY <1>0, <1>2 DEF Agree, Written
<1> QED BY <1>5, <1>6, <1>7 DEF Agree

LEMMA OtherAgree ==
  ASSUME IInv, Agree, [Next]_vars, ~ \E j \in Jobs : Worker(j)  PROVE Agree'
<1>0. /\ work \in [Jobs -> Works] /\ jobs \in [Jobs -> States] /\ rec \in [Jobs -> States] /\ stale \subseteq Jobs
  BY Parts
<1>1. ASSUME UNCHANGED <<jobs, work, req, rec, up, next, stale, issued>> PROVE Agree'
  BY <1>1 DEF Agree, Written, SettledOf, RecordedOf, AloneOf, Unfinished, Clean, T
<1>2. ASSUME NEW t \in Targets, NEW force \in BOOLEAN, StartCall(t, force) PROVE Agree'
  BY <1>1, <1>2 DEF StartCall
<1>3. CASE StartHave \/ Launch  BY <1>3, CallsAgree
<1>4. ASSUME NEW j \in Jobs, Cancel(j) PROVE Agree'
  <2>1. work[j].pc \notin {"none", "save", "clear"}
    BY <1>4 DEF Cancel, Agree, SettledOf, Terminal
  <2>2. \A k \in Jobs : work'[k].pc = work[k].pc  BY <1>0, <1>4 DEF Cancel, Works
  <2>3. \A k \in Jobs \ {j} : jobs'[k] = jobs[k]  BY <1>0, <1>4 DEF Cancel
  <2>4. UNCHANGED <<req, rec, up, next, stale, issued>>  BY <1>4 DEF Cancel
  <2>5. \A t : Clean(t)' <=> Clean(t)  BY <2>4 DEF Clean, T
  <2>6. Written' /\ \A k \in Jobs : Unfinished(k)' = Unfinished(k)  BY <2>4 DEF Agree, Written, Unfinished
  <2>7. ASSUME NEW k \in Jobs PROVE SettledOf(k)' /\ RecordedOf(k)' /\ AloneOf(k)'
    <3>1. SettledOf(k)'  BY <2>1, <2>2, <2>3 DEF Agree, SettledOf
    <3>2. RecordedOf(k)'  BY <2>1, <2>2, <2>3, <2>4, <2>5 DEF Agree, RecordedOf, T
    <3>3. AloneOf(k)'  BY <2>2, <2>4, <2>5, <2>6 DEF Agree, AloneOf, T
    <3> QED BY <3>1, <3>2, <3>3
  <2> QED BY <2>6, <2>7 DEF Agree
<1>5. CASE Crash
  <2>1. \A k \in Jobs : work'[k].pc = "none" /\ jobs'[k] = "none"  BY <1>5 DEF Crash, Idle
  <2>2. ~up' /\ UNCHANGED <<req, rec, stale, issued>>  BY <1>5 DEF Crash
  <2>3. \A t : Clean(t)' <=> Clean(t)  BY <2>2 DEF Clean, T
  <2>4. Written' /\ \A k \in Jobs : Unfinished(k)' = Unfinished(k)  BY <2>2 DEF Agree, Written, Unfinished
  <2>5. ASSUME NEW k \in Jobs PROVE SettledOf(k)' /\ RecordedOf(k)' /\ AloneOf(k)'
    <3>1. SettledOf(k)' /\ RecordedOf(k)'  BY <2>1, <2>2 DEF SettledOf, RecordedOf
    <3>2. AloneOf(k)'  BY <2>1, <2>2, <2>3, <2>4 DEF Agree, AloneOf, T
    <3> QED BY <3>1, <3>2
  <2> QED BY <2>4, <2>5 DEF Agree
<1>6. CASE Restart
  <2>1. \A k \in Jobs : work[k].pc = "none" /\ jobs[k] = "none"  BY <1>6, Parts DEF Restart, AtRest
  <2>2. UNCHANGED <<jobs, work, req, rec, stale, issued>> /\ next' = (IF issued = 0 THEN 0 ELSE 1)  BY <1>6 DEF Restart
  <2>3. \A k \in Jobs : next' = 0 \/ k < next' => rec[k] = "none"  BY <2>2, Parts DEF Fresh, Unrecorded
  <2>4. Written' /\ \A k \in Jobs : Unfinished(k)' = Unfinished(k)  BY <2>2 DEF Agree, Written, Unfinished
  <2>5. \A t : Clean(t)' <=> Clean(t)  BY <2>2 DEF Clean, T
  <2>6. ASSUME NEW k \in Jobs PROVE SettledOf(k)' /\ RecordedOf(k)' /\ AloneOf(k)'
    <3>1. SettledOf(k)' /\ RecordedOf(k)'  BY <2>1, <2>2, <2>3 DEF SettledOf, RecordedOf
    <3>2. AloneOf(k)'  BY <2>2, <2>4, <2>5 DEF Agree, AloneOf, T
    <3> QED BY <3>1, <3>2
  <2> QED BY <2>4, <2>6 DEF Agree
<1>7. CASE Recover  BY <1>7, RecoverAgree
<1>8. ASSUME NEW t \in Targets, UserDeletes(t) \/ ServerChanges(t) PROVE Agree'
  BY <1>1, <1>8 DEF UserDeletes, ServerChanges
<1>9. CASE UNCHANGED vars  BY <1>1, <1>9 DEF vars
<1> QED BY <1>2, <1>3, <1>4, <1>5, <1>6, <1>7, <1>8, <1>9 DEF Next, AtBound

\* The step of a goroutine keeps every stage in sight of a job that clears it.
LEMMA WorkerStaged ==
  ASSUME IInv, Agree, Staged, NEW j \in Jobs, Worker(j), Agree' PROVE Staged'
<1>0. /\ work[j].pc # "none" /\ up /\ T(j) \in Targets
      /\ req' = req /\ next' = next /\ up' = up
      /\ \A t : Clean(t)' => Clean(t)
      /\ \A k \in Jobs \ {j} : work'[k] = work[k] /\ rec'[k] = rec[k]
      /\ \A t \in Targets \ {T(j)} : part'[t] = part[t] /\ target'[t] = target[t]
      /\ \A k \in Jobs : T(k)' = T(k)
  BY WorkerRecords, WorkerFrame DEF T
<1>1. work \in [Jobs -> Works] /\ part \in [Targets -> Files] /\ Multi \subseteq Targets /\ Jobs \subseteq Nat \ {0}
  BY Parts, DownloadOK
<1>2. ~(next # 0 /\ j >= next)  BY <1>0, Parts DEF Recovering
<1>3. ASSUME NEW k \in Jobs \ {j}, NEW t, Clears(k, t) PROVE Clears(k, t)'
  BY <1>0, <1>3 DEF Clears
<1>4. ASSUME NEW t \in Multi, t # T(j) PROVE StageOf(t)'
  <2> SUFFICES ASSUME Clean(t)', Exists(part'[t]) PROVE \E k \in Jobs : Clears(k, t)'
    BY DEF StageOf
  <2>1. PICK k \in Jobs : Clears(k, t)  BY <1>0, <1>1, <1>4 DEF Staged, StageOf
  <2>2. k # j  BY <1>4, <2>1 DEF Clears
  <2> QED BY <1>3, <2>1, <2>2
\* A goroutine that gives up has cleared its stage, unless it never had one.
<1>5. ASSUME NEW t \in Multi, t = T(j) PROVE StageOf(t)'
  <2> SUFFICES ASSUME Clean(t)', Exists(part'[t]) PROVE \E k \in Jobs : Clears(k, t)'
    BY DEF StageOf
  <2>1. CASE work'[j].pc \in Staging \ {"queue"}
    <3>1. RecordedOf(j)'  BY DEF Agree
    <3>2. rec'[j] # "none"  BY <1>0, <1>5, <2>1, <3>1 DEF RecordedOf, Staging
    <3>3. Clears(j, t)'  BY <1>0, <1>5, <2>1, <3>2 DEF Clears
    <3> QED BY <3>3
  <2>2. CASE work[j].pc \notin Staging /\ part' = part
    <3>1. PICK k \in Jobs : Clears(k, t)  BY <1>0, <1>5, <2>2 DEF Staged, StageOf
    <3>2. k # j  BY <1>0, <1>2, <2>2, <3>1 DEF Clears
    <3>3. Clears(k, t)'  BY <1>0, <1>3, <3>1, <3>2 DEF Clears
    <3> QED BY <3>3
  <2>3. ASSUME part'[T(j)] = Absent PROVE FALSE  BY <1>5, <2>3 DEF Exists
  <2>4. ASSUME NEW e, Fail(j, e) PROVE FALSE
    BY <1>0, <1>1, <1>5, <2>3, <2>4 DEF Fail
  <2>5. CASE Queued(j) \/ Begin(j) \/ OpenPart(j) \/ Swap(j)
    BY <1>1, <2>1, <2>5 DEF Queued, Begin, OpenPart, Swap, Goto, Works, Staging
  <2>6. CASE Finish(j) \/ Save(j) \/ ClearActive(j)
    BY <2>2, <2>6 DEF Finish, Save, ClearActive, At, Staging
  <2>7. CASE Prepare(j)
    <3>1. CASE Goto(j, "get")  BY <1>1, <2>1, <3>1 DEF Goto, Works, Staging
    <3>2. CASE Exists(target[T(j)]) /\ part' = part
      <4>1. WaitsOf(j) /\ At(j, "prepare") /\ Clean(T(j))  BY <1>0, <1>5, <2>7 DEF Staged, Prepare
      <4> QED BY <1>5, <3>2, <4>1 DEF WaitsOf, At
    <3> QED BY <2>7, <3>1, <3>2 DEF Prepare
  <2>8. CASE Verify(j)
    <3>1. CASE part' = [part EXCEPT ![T(j)] = Absent]  BY <1>0, <1>1, <2>3, <3>1
    <3>2. CASE Goto(j, IF req[j].force THEN "swap" ELSE "rename")  BY <1>1, <2>1, <3>2 DEF Goto, Works, Staging
    <3> QED BY <2>8, <3>1, <3>2 DEF Verify
  <2>9. CASE Rename(j)
    <3>1. CASE part' = [part EXCEPT ![T(j)] = Absent]  BY <1>0, <1>1, <2>3, <3>1
    <3> QED BY <2>4, <2>9, <3>1 DEF Rename
  <2>10. CASE Get(j)
    <3>1. CASE \E pos : Open(j, pos)  BY <1>1, <2>1, <3>1 DEF Open, Works, Staging
    <3> QED BY <2>4, <2>10, <3>1 DEF Get
  <2>11. CASE Copy(j)
    <3>1. ASSUME NEW pc \in {"verify", "copy"}, work'[j].pc = pc PROVE work'[j].pc \in Staging \ {"queue"}
      BY <3>1 DEF Staging
    <3>2. CASE work' = [work EXCEPT ![j].pos = @ + 1, ![j].pc = IF work[j].pos + 1 = Size THEN "verify" ELSE "copy"]
      BY <1>1, <2>1, <3>1, <3>2 DEF Works
    <3> QED BY <2>4, <2>11, <3>2 DEF Copy
  <2>12. CASE Stopped(j)  BY <2>4, <2>12 DEF Stopped
  <2> QED BY <2>5, <2>6, <2>7, <2>8, <2>9, <2>10, <2>11, <2>12 DEF Worker, Local
<1>6. WaitsOf(j)'
  <2>0. WaitsOf(j)  BY DEF Staged
  <2>1. CASE Queued(j) \/ Begin(j)
    <3>1. UNCHANGED <<part, target>> /\ work[j].pc \in {"queue", "run"}  BY <2>1 DEF Queued, Begin, At
    <3> QED BY <1>0, <2>0, <3>1 DEF WaitsOf
  <2>2. ASSUME work'[j].pc \notin {"queue", "run", "prepare"} PROVE WaitsOf(j)'  BY <2>2 DEF WaitsOf
  <2>3. CASE Prepare(j) \/ OpenPart(j) \/ Verify(j) \/ Swap(j) \/ Rename(j)
    BY <1>1, <2>2, <2>3 DEF Prepare, OpenPart, Verify, Swap, Rename, Goto, Fail, Works
  <2>4. CASE Finish(j) \/ Save(j) \/ ClearActive(j)
    BY <1>1, <2>2, <2>4 DEF Finish, Save, ClearActive, Goto, Works, Idle
  <2>5. CASE Get(j) \/ Copy(j) \/ Stopped(j)  BY <1>1, <2>2, <2>5 DEF Get, Copy, Stopped, Open, Fail, Works
  <2> QED BY <2>1, <2>3, <2>4, <2>5 DEF Worker, Local
<1>7. ASSUME NEW k \in Jobs \ {j} PROVE WaitsOf(k)'
  <2>0. WaitsOf(k)  BY DEF Staged
  <2>1. CASE work[k].pc = "none"  BY <1>0, <2>1 DEF WaitsOf
  <2>2. CASE work[k].pc # "none"
    <3>1. T(k) # T(j)  BY <1>0, <2>2, OneWorker
    <3>2. T(k) \in Multi => part'[T(k)] = part[T(k)] /\ target'[T(k)] = target[T(k)]  BY <1>0, <1>1, <3>1
    <3> QED BY <1>0, <2>0, <3>2 DEF WaitsOf
  <2> QED BY <2>1, <2>2
<1> QED BY <1>4, <1>5, <1>6, <1>7 DEF Staged

LEMMA CallsStaged ==
  ASSUME IInv, Agree, Staged, StartHave \/ Launch PROVE Staged'
<1>n. PICK n \in Jobs : n = NewJob  BY NewIsFresh DEF StartHave, Launch
<1>0. /\ n = NewJob /\ n \notin stale /\ caller.target \in Targets /\ up /\ next = 0
      /\ work[n].pc = "none" /\ rec[n] = "none"
      /\ UNCHANGED <<part, target, up, next>>
  BY <1>n, NewIsFresh DEF StartHave, Launch
<1>1. /\ work \in [Jobs -> Works] /\ rec \in [Jobs -> States] /\ req \in [Jobs -> Reqs] /\ stale \subseteq Jobs
      /\ Multi \subseteq Targets /\ Jobs \subseteq Nat \ {0}
  BY Parts, DownloadOK
<1>2. /\ stale \subseteq stale'
      /\ \A i \in Jobs \ {n} : work'[i] = work[i] /\ rec'[i] = rec[i] /\ T(i)' = T(i)
  BY <1>0, <1>1 DEF StartHave, Launch, Persist, Request, Register, T
<1>3. \A t : Clean(t)' => Clean(t)  BY <1>0, <1>1, <1>2 DEF Clean
<1>4. ASSUME NEW t \in Multi PROVE StageOf(t)'
  <2> SUFFICES ASSUME Clean(t)', Exists(part'[t]) PROVE \E k \in Jobs : Clears(k, t)'
    BY DEF StageOf
  <2>1. PICK k \in Jobs : Clears(k, t)  BY <1>0, <1>3 DEF Staged, StageOf
  <2>2. k # n  BY <1>0, <2>1 DEF Clears
  <2>3. Clears(k, t)'  BY <1>0, <1>2, <2>1, <2>2 DEF Clears
  <2> QED BY <2>3
<1>5. ASSUME NEW k \in Jobs \ {n} PROVE WaitsOf(k)'
  BY <1>0, <1>2, <1>3 DEF Staged, WaitsOf
\* A job launched on a target nobody owns finds no stage there.
<1>6. WaitsOf(n)'
  <2>1. CASE work' = work  BY <1>0, <2>1 DEF WaitsOf
  <2>2. CASE active[caller.target] = 0 /\ Request(caller.target, caller.force)
    <3>1. T(n)' = caller.target  BY <1>0, <1>1, <2>2 DEF Request, T
    <3>2. ASSUME T(n)' \in Multi, Clean(T(n))', Exists(part[caller.target]) PROVE FALSE
      <4>1. PICK k \in Jobs : Clears(k, caller.target)  BY <1>3, <3>1, <3>2 DEF Staged, StageOf
      <4>2. work[k].pc # "none" /\ T(k) = caller.target  BY <1>0, <4>1 DEF Clears, Staging
      <4>3. active[caller.target] = k  BY <1>0, <4>2, Parts DEF ActiveIsBusy
      <4> QED BY <1>1, <2>2, <4>3
    <3> QED BY <1>0, <3>1, <3>2 DEF WaitsOf
  <2> QED BY <2>1, <2>2 DEF StartHave, Launch
<1> QED BY <1>4, <1>5, <1>6 DEF Staged

\* Recovery discards the stage of a job it restores, and leaves that of one it launches.
LEMMA RecoverStaged ==
  ASSUME IInv, Agree, Staged, Recover PROVE Staged'
<1>n. PICK n \in Jobs : n = next  BY Parts DEF Recover, Jobs
<1>0. /\ n = next /\ n <= issued /\ up /\ work[n].pc = "none" /\ T(n) \in Targets
      /\ UNCHANGED <<req, target, issued, up>> /\ next' = (IF n = issued THEN 0 ELSE n + 1)
  BY <1>n, Parts DEF Recover, Recovering, Known, Jobs
<1>1. /\ work \in [Jobs -> Works] /\ rec \in [Jobs -> States] /\ part \in [Targets -> Files]
      /\ issued \in Nat /\ Multi \subseteq Targets /\ Jobs \subseteq Nat \ {0}
  BY Parts, DownloadOK
<1>2. \A i \in Jobs \ {n} : work'[i] = work[i] /\ rec'[i] = rec[i]
  BY <1>0, <1>1 DEF Recover, Reconcile, Restore, Register, Persist
<1>3. stale \subseteq stale' /\ \A i \in Jobs : T(i)' = T(i)  BY <1>0 DEF Recover, Reconcile, Persist, T
<1>4. \A t : Clean(t)' => Clean(t)  BY <1>0, <1>3 DEF Clean, T
<1>5. \A t \in Targets : Exists(part'[t]) => Exists(part[t])
  BY <1>0, <1>1 DEF Recover, Reconcile, Restore, Exists
<1>6. ASSUME NEW t \in Multi, Clean(t)', Exists(part'[t]), Clears(n, t) PROVE Clears(n, t)'
  <2>1. T(n) = t /\ rec[n] # "none"  BY <1>6 DEF Clears
  <2>2. ASSUME NEW s, Restore(n, s) PROVE FALSE  BY <1>0, <1>1, <1>6, <2>1, <2>2 DEF Restore, Exists
  <2>3. CASE Register(n, T(n)) /\ rec' = rec
    <3>1. work'[n].pc = "queue"  BY <1>0, <1>1, <2>3 DEF Register, Idle
    <3> QED BY <1>3, <2>1, <2>3, <3>1 DEF Clears, Staging
  <2>4. ASSUME Unfinished(n), active[T(n)] # 0 PROVE FALSE
    <3>1. PICK a \in Jobs : a = active[T(n)]  BY <1>0, <2>4, Parts DEF Jobs
    <3>2. work[a].pc # "none" /\ T(a) = T(n)  BY <1>0, <3>1, Parts DEF ActiveIsBusy
    <3>3. AloneOf(a) /\ Clean(t)  BY <1>4, <1>6 DEF Agree
    <3> QED BY <1>0, <2>1, <2>4, <3>2, <3>3 DEF AloneOf
  <2> QED BY <1>0, <2>1, <2>2, <2>3, <2>4 DEF Recover, Reconcile, Unfinished
<1>7. ASSUME NEW t \in Multi PROVE StageOf(t)'
  <2> SUFFICES ASSUME Clean(t)', Exists(part'[t]) PROVE \E k \in Jobs : Clears(k, t)'
    BY DEF StageOf
  <2>1. PICK k \in Jobs : Clears(k, t)  BY <1>1, <1>4, <1>5 DEF Staged, StageOf
  <2>2. CASE k = n  BY <1>6, <2>1, <2>2
  <2>3. CASE k # n
    <3>1. k <= issued  BY <1>1, <2>1, Parts DEF Unrecorded, Clears
    <3>2. CASE work[k].pc \in Staging  BY <1>2, <1>3, <2>1, <2>3, <3>2 DEF Clears
    <3>3. CASE k >= next
      <4>1. next' # 0 /\ k >= next'  BY <1>0, <1>1, <2>3, <3>1, <3>3
      <4> QED BY <1>2, <1>3, <2>1, <2>3, <4>1 DEF Clears
    <3> QED BY <1>0, <2>1, <3>2, <3>3 DEF Clears
  <2> QED BY <2>2, <2>3
<1>8. ASSUME NEW k \in Jobs \ {n} PROVE WaitsOf(k)'
  BY <1>0, <1>1, <1>2, <1>3, <1>4, <1>5 DEF Staged, WaitsOf
<1>9. WaitsOf(n)'
  <2>1. CASE work' = work  BY <1>0, <2>1 DEF WaitsOf
  <2>2. CASE ~Exists(target[T(n)])  BY <1>0, <1>3, <2>2 DEF WaitsOf
  <2> QED BY <1>0, <2>1, <2>2 DEF Recover, Reconcile
<1> QED BY <1>7, <1>8, <1>9 DEF Staged

LEMMA OtherStaged ==
  ASSUME IInv, Agree, Staged, [Next]_vars, ~ \E j \in Jobs : Worker(j)  PROVE Staged'
<1>0. work \in [Jobs -> Works] /\ target \in [Targets -> Files] /\ Multi \subseteq Targets
  BY Parts, DownloadOK
<1>1. ASSUME UNCHANGED <<req, rec, part, up, next, stale>>, \A k \in Jobs : work'[k].pc = work[k].pc,
             \A t \in Targets : Exists(target'[t]) => Exists(target[t])
      PROVE  Staged'
  <2>1. (\A k \in Jobs : T(k)' = T(k)) /\ \A t : Clean(t)' = Clean(t)  BY <1>1 DEF Clean, T
  <2>2. ASSUME NEW t \in Multi PROVE StageOf(t)'  BY <1>1, <2>1 DEF Staged, StageOf, Clears
  <2>3. ASSUME NEW k \in Jobs PROVE WaitsOf(k)'  BY <1>0, <1>1, <2>1 DEF Staged, WaitsOf
  <2> QED BY <2>2, <2>3 DEF Staged
<1>2. ASSUME NEW t \in Targets, NEW force \in BOOLEAN, StartCall(t, force) PROVE Staged'
  BY <1>1, <1>2 DEF StartCall
<1>3. CASE StartHave \/ Launch  BY <1>3, CallsStaged
<1>4. ASSUME NEW j \in Jobs, Cancel(j) PROVE Staged'
  <2>1. \A k \in Jobs : work'[k].pc = work[k].pc  BY <1>0, <1>4 DEF Cancel, Works
  <2> QED BY <1>1, <1>4, <2>1 DEF Cancel
<1>5. CASE Crash
  <2>1. ~up' /\ UNCHANGED <<req, rec, part, stale>> /\ \A k \in Jobs : work'[k].pc = "none"  BY <1>5 DEF Crash, Idle
  <2>2. ASSUME NEW t \in Multi PROVE StageOf(t)'  BY <2>1 DEF Staged, StageOf, Clears, Clean, T
  <2>3. ASSUME NEW k \in Jobs PROVE WaitsOf(k)'  BY <2>1 DEF WaitsOf
  <2> QED BY <2>2, <2>3 DEF Staged
<1>6. CASE Restart
  <2>1. /\ UNCHANGED <<work, req, rec, part, target, stale>> /\ next' = (IF issued = 0 THEN 0 ELSE 1)
        /\ \A k \in Jobs : work[k].pc = "none"
    BY <1>6, Parts DEF Restart, AtRest
  <2>2. ASSUME NEW t \in Multi PROVE StageOf(t)'
    <3> SUFFICES ASSUME Clean(t)', Exists(part'[t]) PROVE \E k \in Jobs : Clears(k, t)'
      BY DEF StageOf
    <3>1. PICK k \in Jobs : Clears(k, t)  BY <2>1 DEF Staged, StageOf, Clean, T
    <3>2. k <= issued /\ k >= 1  BY <3>1, Parts DEF Unrecorded, Clears
    <3>3. next' # 0 /\ k >= next'  BY <2>1, <3>2, Parts
    <3> QED BY <2>1, <3>1, <3>3 DEF Clears, T
  <2>3. ASSUME NEW k \in Jobs PROVE WaitsOf(k)'  BY <2>1 DEF WaitsOf
  <2> QED BY <2>2, <2>3 DEF Staged
<1>7. CASE Recover  BY <1>7, RecoverStaged
<1>8. ASSUME NEW t \in Targets, UserDeletes(t) PROVE Staged'
  <2>1. \A u \in Targets : Exists(target'[u]) => Exists(target[u])  BY <1>0, <1>8 DEF UserDeletes, Exists
  <2> QED BY <1>1, <1>8, <2>1 DEF UserDeletes
<1>9. ASSUME NEW t \in Targets, ServerChanges(t) PROVE Staged'  BY <1>1, <1>9 DEF ServerChanges
<1>10. CASE UNCHANGED vars  BY <1>1, <1>10 DEF vars
<1> QED BY <1>2, <1>3, <1>4, <1>5, <1>6, <1>7, <1>8, <1>9, <1>10 DEF Next, AtBound

LEMMA InitRecords == ASSUME Init PROVE Agree /\ Staged
<1>1. Agree
  BY DownloadOK DEF Init, Agree, Written, SettledOf, RecordedOf, AloneOf, Unfinished, Idle, Terminal
<1>2. Staged  BY DownloadOK DEF Init, Staged, StageOf, WaitsOf, Exists, Idle
<1> QED BY <1>1, <1>2

LEMMA RecordsInductive ==
  ASSUME IInv, Agree, Staged, [Next]_vars PROVE IInv' /\ Agree' /\ Staged'
<1>1. IInv'  BY Inductive
<1>2. ASSUME NEW j \in Jobs, Worker(j) PROVE Agree' /\ Staged'  BY <1>2, WorkerAgree, WorkerStaged
<1>3. CASE ~ \E j \in Jobs : Worker(j)
  BY <1>1, <1>3, OtherAgree, OtherStaged
<1> QED BY <1>1, <1>2, <1>3
-----------------------------------------------------------------------------
(* Until a second daemon is started                                        *)

Alone ==
  ~met => /\ IInv /\ Agree /\ Staged
          /\ ~up2 /\ \A j \in Jobs : work2[j].pc = "none"

\* A second daemon that has not been started takes no step but that.
LEMMA SecondIsIdle ==
  ASSUME Alone, DNext, ~met' PROVE Next /\ UNCHANGED <<second, met>>
<1>1. ~SecondStarts  BY DEF SecondStarts
<1>2. ~met  BY DEF DNext, SecondStarts, SecondRecovers, SecondWorks, SecondEnds
<1>3. ~up2 /\ \A j \in Jobs : work2[j].pc = "none"  BY <1>2 DEF Alone
<1>4. ~SecondRecovers /\ ~SecondEnds  BY <1>3 DEF SecondRecovers, SecondEnds
<1>5. ASSUME NEW j \in Jobs, SecondWorks(j) PROVE FALSE
  <2> USE DEF Second!At
  <2>1. ~Second!Local(j)
    BY <1>3 DEF Second!Local, Second!Queued, Second!Begin, Second!Prepare, Second!OpenPart,
                Second!Verify, Second!Swap, Second!Rename, Second!Finish, Second!Save, Second!ClearActive
  <2>2. ~(Second!Get(j) \/ Second!Copy(j) \/ Second!Stopped(j))
    BY <1>3 DEF Second!Get, Second!Copy, Second!Stopped
  <2> QED BY <1>5, <2>1, <2>2 DEF SecondWorks, Second!Worker
<1> QED BY <1>1, <1>4, <1>5 DEF DNext

LEMMA AloneInvariance == DSpec => []Alone
<1>1. DInit => Alone  BY InitInv, InitRecords DEF DInit, Alone, Init, Idle
<1>2. ASSUME Alone, [DNext]_dvars PROVE Alone'
  <2> SUFFICES ASSUME ~met' PROVE (IInv /\ Agree /\ Staged)' /\ ~up2' /\ \A j \in Jobs : work2'[j].pc = "none"
    BY DEF Alone
  <2>1. [Next]_vars /\ UNCHANGED <<second, met>>  BY <1>2, SecondIsIdle DEF dvars
  <2>2. ~met /\ UNCHANGED <<up2, work2>>  BY <2>1 DEF second
  <2> QED BY <1>2, <2>1, <2>2, RecordsInductive DEF Alone
<1> QED BY <1>1, <1>2, PTL DEF DSpec

\* persist at every change of state and Recover's reconciliation: once a job has
\* no goroutine, its record and the manager agree on it, unless a record of a job
\* of that target could not be written, or a second daemon has been started.
THEOREM RecordsTellTheJobs == DSpec => []RecordsAgreeAlone
<1>1. Alone => RecordsAgreeAlone
  BY DEF Alone, Agree, RecordedOf, RecordsAgreeAlone, RecordsAgree, Clean, At
<1> QED BY <1>1, AloneInvariance, PTL

\* execute's digest check and rename: until a second daemon is started nothing but the
\* whole artifact a job was asked for appears at a target with a digest.
THEOREM VerifiedBeforePublished == DSpec => PublishedAlone
<1> DEFINE P == ~met' => Published
<1>1. ASSUME Alone, [DNext]_dvars, ~met' PROVE Published
  <2>1. [Next]_vars /\ UNCHANGED met  BY <1>1, SecondIsIdle DEF dvars
  <2> QED BY <1>1, <2>1, StepPublishes DEF Alone
<1>2. Alone /\ [DNext]_dvars => [P]_vars  BY <1>1
<1> QED BY <1>2, AloneInvariance, PTL DEF DSpec, PublishedAlone, Published

\* executeDirectory's deferred removal, and discardPartial at recovery: until a second
\* daemon is started, no stage is left of a job that failed, was cancelled or was
\* interrupted.
THEOREM StagesAreCleared == DSpec => [](~met => StageIsCleared)
<1>1. ASSUME IInv, Agree, Staged, up, next = 0, NEW t \in Multi, active[t] = 0, Clean(t), Exists(part[t]) PROVE FALSE
  <2>1. PICK k \in Jobs : Clears(k, t)  BY <1>1 DEF Staged, StageOf
  <2>2. work[k].pc # "none" /\ T(k) = t  BY <1>1, <2>1 DEF Clears, Staging
  <2>3. active[t] = k /\ k # 0  BY <1>1, <2>2, Parts, DownloadOK DEF ActiveIsBusy
  <2> QED BY <1>1, <2>3
<1>2. IInv /\ Agree /\ Staged => StageIsCleared  BY <1>1 DEF StageIsCleared, Clean
<1>3. Alone => (~met => StageIsCleared)  BY <1>2 DEF Alone
<1> QED BY <1>3, AloneInvariance, PTL
=============================================================================
