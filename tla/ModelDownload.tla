--------------------------- MODULE ModelDownload ---------------------------
(***************************************************************************)
(* core/modeldownload: jobs that fetch a model into a partial file and     *)
(* rename it into place, their records on disk, cancellation, and the      *)
(* recovery of interrupted jobs by the next daemon; by one daemon at a     *)
(* time: module DuplicateStart has a second one started beside it.         *)
(*                                                                         *)
(* A file is how much of it there is, in units of a Size-th, and whose     *)
(* bytes they are: one version of the artifact, or a mixture.              *)
(***************************************************************************)
EXTENDS Integers, FiniteSets

CONSTANTS
  Targets,   \* target paths
  Multi,     \* those of multi-file plans, staged as a directory
  Checked,   \* those whose plan carries size and digest
  Versions,  \* versions of an artifact its server may serve
  Size,      \* units in a complete artifact
  MaxJobs,   \* bound on jobs ever started
  Faults     \* "network", "record", "crash", "delete", "change", "norange", "duplicate"

ASSUME DownloadOK ==
  /\ Multi \subseteq Targets /\ Checked \subseteq Targets
  /\ Versions \subseteq Nat \ {0} /\ 1 \in Versions
  /\ Size \in Nat \ {0} /\ MaxJobs \in Nat

VARIABLES
  jobs,     \* m.jobs: the state of each job in memory, "none" if unknown
  active,   \* m.active: the job that owns a target, 0 if none
  work,     \* work[j]: the goroutine of job j, its stop flag and its error
  req,      \* m.requests: what each job was asked for
  rec,      \* the state in the job's record on disk
  part,     \* the partial file (or staging directory) of each target
  target,   \* the file at the target path
  serves,   \* the version each server serves (external)
  issued,   \* jobs started so far
  caller,   \* a Start call between its check and its launch
  up,       \* the daemon runs
  next,     \* the record Recover looks at next; 0 when it is done
  fetched,  \* jobs that have renamed what they fetched into place
  stale     \* jobs a record of which could not be written

vars == <<jobs, active, work, req, rec, part, target, serves, issued, caller, up, next, fetched, stale>>

Jobs == 1..MaxJobs
Absent == [n |-> -1, v |-> 0]
Empty == [n |-> 0, v |-> 0]
Full(v) == [n |-> Size, v |-> v]
Mixed == -1
Exists(f) == f # Absent
Idle == [pc |-> "none", pos |-> 0, src |-> 0, stop |-> FALSE, err |-> "none"]
NoCall == [pc |-> "none", target |-> "none", force |-> FALSE]
Terminal == {"completed", "failed", "cancelled", "already"}

T(j) == req[j].target
At(j, pc) == work[j].pc = pc
Goto(j, pc) == work' = [work EXCEPT ![j].pc = pc]

\* An error ends execute; executeDirectory's deferred removal clears its stage.
Fail(j, err) ==
  /\ work' = [work EXCEPT ![j].pc = "finish", ![j].err = err]
  /\ part' = IF T(j) \in Multi THEN [part EXCEPT ![T(j)] = Absent] ELSE part

\* persist logs a failed write and carries on.
Persist(j, state) ==
  \/ rec' = [rec EXCEPT ![j] = state] /\ UNCHANGED stale
  \/ "record" \in Faults /\ stale' = stale \cup {j} /\ UNCHANGED rec

-----------------------------------------------------------------------------
(* Calls                                                                   *)

\* Start looks whether the target exists before it takes the lock.
StartCall(t, force) ==
  /\ up /\ next = 0 /\ caller = NoCall /\ issued < MaxJobs
  /\ caller' = [pc |-> IF Exists(target[t]) /\ ~force THEN "have" ELSE "launch", target |-> t, force |-> force]
  /\ UNCHANGED <<jobs, active, work, req, rec, part, target, serves, issued, up, next, fetched, stale>>

NewJob == issued + 1
Request(t, force) == req' = [req EXCEPT ![NewJob] = [target |-> t, force |-> force, want |-> serves[t]]]

\* A target that is there already gets a finished job of its own.
StartHave ==
  /\ caller.pc = "have"
  /\ jobs' = [jobs EXCEPT ![NewJob] = "already"] /\ Request(caller.target, caller.force)
  /\ issued' = NewJob /\ caller' = NoCall
  /\ Persist(NewJob, "already")
  /\ UNCHANGED <<active, work, part, target, serves, up, next, fetched>>

\* launch, in its critical section.
Register(j, t) ==
  /\ jobs' = [jobs EXCEPT ![j] = "queued"]
  /\ active' = [active EXCEPT ![t] = j]
  /\ work' = [work EXCEPT ![j] = [Idle EXCEPT !.pc = "queue"]]

\* Mutant: a target that is being downloaded is not noticed.
LaunchTwice ==
  /\ caller.pc = "launch" /\ caller' = NoCall
  /\ Register(NewJob, caller.target) /\ Request(caller.target, caller.force) /\ issued' = NewJob
  /\ UNCHANGED <<rec, part, target, serves, up, next, fetched, stale>>

Launch ==
  /\ caller.pc = "launch" /\ caller' = NoCall
  /\ \/ active[caller.target] # 0 /\ UNCHANGED <<jobs, active, work, req, issued>>
     \/ /\ active[caller.target] = 0
        /\ Register(NewJob, caller.target) /\ Request(caller.target, caller.force) /\ issued' = NewJob
  /\ UNCHANGED <<rec, part, target, serves, up, next, fetched, stale>>

\* Mutant: the job is marked, its context is not cancelled.
CancelMarks(j) ==
  /\ up /\ next = 0 /\ jobs[j] \in {"queued", "running"}
  /\ jobs' = [jobs EXCEPT ![j] = "cancelled"]
  /\ UNCHANGED <<active, work, req, rec, part, target, serves, issued, caller, up, next, fetched, stale>>

Cancel(j) ==
  /\ up /\ next = 0 /\ jobs[j] \in {"queued", "running"}
  /\ jobs' = [jobs EXCEPT ![j] = "cancelled"] /\ work' = [work EXCEPT ![j].stop = TRUE]
  /\ UNCHANGED <<active, req, rec, part, target, serves, issued, caller, up, next, fetched, stale>>

-----------------------------------------------------------------------------
(* The goroutine of a job                                                  *)

\* The record launch writes before it starts the goroutine.
Queued(j) ==
  /\ At(j, "queue") /\ Persist(j, jobs[j]) /\ Goto(j, "run")
  /\ UNCHANGED <<jobs, active, req, part, target, serves, issued, caller, up, next, fetched>>

Begin(j) ==
  /\ At(j, "run")
  /\ jobs' = IF jobs[j] = "cancelled" THEN jobs ELSE [jobs EXCEPT ![j] = "running"]
  /\ Persist(j, jobs'[j]) /\ Goto(j, "prepare")
  /\ UNCHANGED <<active, req, part, target, serves, issued, caller, up, next, fetched>>

\* A single file keeps what is there to resume from; a directory starts over.
Prepare(j) ==
  /\ At(j, "prepare")
  /\ \/ T(j) \notin Multi /\ Goto(j, "get") /\ UNCHANGED part
     \/ /\ T(j) \in Multi /\ Exists(target[T(j)]) /\ ~req[j].force
        /\ work' = [work EXCEPT ![j].pc = "finish", ![j].err = "failed"] /\ UNCHANGED part
     \/ /\ T(j) \in Multi /\ (~Exists(target[T(j)]) \/ req[j].force)
        /\ part' = [part EXCEPT ![T(j)] = Empty] /\ Goto(j, "get")
  /\ UNCHANGED <<jobs, active, req, rec, target, serves, issued, caller, up, next, fetched, stale>>

Offset(t) == IF t \in Multi \/ ~Exists(part[t]) THEN 0 ELSE part[t].n
Open(j, pos) == work' = [work EXCEPT ![j].pc = "open", ![j].pos = pos, ![j].src = serves[T(j)]]

\* The request: a matching 206 resumes, any other success restarts, and a range
\* past the end of the file is refused (416).
Get(j) ==
  /\ At(j, "get") /\ ~work[j].stop
  /\ \/ Offset(T(j)) \in 1..(Size - 1) /\ Open(j, Offset(T(j))) /\ UNCHANGED part
     \/ (Offset(T(j)) = 0 \/ "norange" \in Faults) /\ Open(j, 0) /\ UNCHANGED part
     \/ (Offset(T(j)) >= Size \/ "network" \in Faults) /\ Fail(j, "failed")
  /\ UNCHANGED <<jobs, active, req, rec, target, serves, issued, caller, up, next, fetched, stale>>

\* os.OpenFile with O_TRUNC or O_APPEND, and O_CREATE.
OpenPart(j) ==
  /\ At(j, "open")
  /\ part' = IF work[j].pos = 0 \/ ~Exists(part[T(j)]) THEN [part EXCEPT ![T(j)] = Empty] ELSE part
  /\ Goto(j, "copy")
  /\ UNCHANGED <<jobs, active, req, rec, target, serves, issued, caller, up, next, fetched, stale>>

Appended(f, w) ==
  IF f.n = w.pos /\ (f.n = 0 \/ f.v = w.src) THEN [n |-> f.n + 1, v |-> w.src] ELSE [n |-> f.n + 1, v |-> Mixed]

\* One unit of the body; a file unlinked meanwhile takes it out of sight.
Copy(j) ==
  /\ At(j, "copy")
  /\ \/ /\ work[j].pos < Size
        /\ part' = IF Exists(part[T(j)]) THEN [part EXCEPT ![T(j)] = Appended(@, work[j])] ELSE part
        /\ work' = [work EXCEPT ![j].pos = @ + 1, ![j].pc = IF work[j].pos + 1 = Size THEN "verify" ELSE "copy"]
     \/ "network" \in Faults /\ Fail(j, "failed")
  /\ UNCHANGED <<jobs, active, req, rec, target, serves, issued, caller, up, next, fetched, stale>>

\* A cancelled context ends the request or the copy.
Stopped(j) ==
  /\ work[j].pc \in {"get", "copy"} /\ work[j].stop /\ Fail(j, "cancelled")
  /\ UNCHANGED <<jobs, active, req, rec, target, serves, issued, caller, up, next, fetched, stale>>

\* Mutant: the digest is not compared.
VerifySizeOnly(j) ==
  /\ At(j, "verify") /\ Goto(j, IF req[j].force THEN "swap" ELSE "rename") /\ UNCHANGED part
  /\ UNCHANGED <<jobs, active, req, rec, target, serves, issued, caller, up, next, fetched, stale>>

\* The size counted while copying is right; the digest is read from the file.
Verify(j) ==
  LET sound == T(j) \in Checked => part[T(j)] = Full(req[j].want) IN
  /\ At(j, "verify")
  /\ \/ sound /\ Goto(j, IF req[j].force THEN "swap" ELSE "rename") /\ UNCHANGED part
     \/ /\ ~sound /\ part' = [part EXCEPT ![T(j)] = Absent]
        /\ work' = [work EXCEPT ![j].pc = "finish", ![j].err = "failed"]
  /\ UNCHANGED <<jobs, active, req, rec, target, serves, issued, caller, up, next, fetched, stale>>

\* A forced download removes the old artifact first.
Swap(j) ==
  /\ At(j, "swap") /\ target' = [target EXCEPT ![T(j)] = Absent] /\ Goto(j, "rename")
  /\ UNCHANGED <<jobs, active, req, rec, part, serves, issued, caller, up, next, fetched, stale>>

\* A directory cannot be renamed over one that is there.
Rename(j) ==
  LET lands == Exists(part[T(j)]) /\ (T(j) \in Multi => ~Exists(target[T(j)])) IN
  /\ At(j, "rename")
  /\ \/ /\ lands
        /\ target' = [target EXCEPT ![T(j)] = part[T(j)]] /\ part' = [part EXCEPT ![T(j)] = Absent]
        /\ fetched' = fetched \cup {j} /\ Goto(j, "finish")
     \/ ~lands /\ Fail(j, "failed") /\ UNCHANGED <<target, fetched>>
  /\ UNCHANGED <<jobs, active, req, rec, serves, issued, caller, up, next, stale>>

Finish(j) ==
  /\ At(j, "finish")
  /\ jobs' = [jobs EXCEPT ![j] = IF @ = "cancelled" \/ work[j].err = "cancelled" THEN "cancelled"
                                 ELSE IF work[j].err = "failed" THEN "failed" ELSE "completed"]
  /\ Goto(j, "save")
  /\ UNCHANGED <<active, req, rec, part, target, serves, issued, caller, up, next, fetched, stale>>

\* Mutant: the final record is written only for a completed job.
SaveCompleted(j) ==
  /\ At(j, "save") /\ Goto(j, "clear")
  /\ IF jobs[j] = "completed" THEN Persist(j, jobs[j]) ELSE UNCHANGED <<rec, stale>>
  /\ UNCHANGED <<jobs, active, req, part, target, serves, issued, caller, up, next, fetched>>

Save(j) ==
  /\ At(j, "save") /\ Persist(j, jobs[j]) /\ Goto(j, "clear")
  /\ UNCHANGED <<jobs, active, req, part, target, serves, issued, caller, up, next, fetched>>

ClearActive(j) ==
  /\ At(j, "clear")
  /\ active' = IF active[T(j)] = j THEN [active EXCEPT ![T(j)] = 0] ELSE active
  /\ work' = [work EXCEPT ![j] = Idle]
  /\ UNCHANGED <<jobs, req, rec, part, target, serves, issued, caller, up, next, fetched, stale>>

Local(j) ==
  \/ Queued(j) \/ Begin(j) \/ Prepare(j) \/ OpenPart(j) \/ Verify(j) \/ Swap(j) \/ Rename(j)
  \/ Finish(j) \/ Save(j) \/ ClearActive(j)
Worker(j) == Local(j) \/ Get(j) \/ Copy(j) \/ Stopped(j)

-----------------------------------------------------------------------------
(* The daemon dies, and the next one reconciles the records in ID order     *)

Crash ==
  /\ up /\ "crash" \in Faults /\ up' = FALSE
  /\ jobs' = [j \in Jobs |-> "none"] /\ active' = [t \in Targets |-> 0]
  /\ work' = [j \in Jobs |-> Idle] /\ caller' = NoCall /\ next' = 0
  /\ UNCHANGED <<req, rec, part, target, serves, issued, fetched, stale>>

Restart ==
  /\ ~up /\ up' = TRUE /\ next' = IF issued = 0 THEN 0 ELSE 1
  /\ UNCHANGED <<jobs, active, work, req, rec, part, target, serves, issued, caller, fetched, stale>>

\* The job is known again, and its target's partial file is discarded.
Restore(j, state) == jobs' = [jobs EXCEPT ![j] = state] /\ part' = [part EXCEPT ![T(j)] = Absent]

Reconcile(j) ==
  \/ rec[j] = "none" /\ UNCHANGED <<jobs, active, work, rec, part, stale>>
  \/ rec[j] \in Terminal /\ Restore(j, rec[j]) /\ UNCHANGED <<active, work, rec, stale>>
  \/ /\ rec[j] \in {"queued", "running"} /\ Exists(target[T(j)])
     /\ Restore(j, "completed") /\ Persist(j, "completed")
     /\ UNCHANGED <<active, work>>
  \/ /\ rec[j] \in {"queued", "running"} /\ ~Exists(target[T(j)])
     /\ IF active[T(j)] = 0 THEN Register(j, T(j)) ELSE UNCHANGED <<jobs, active, work>>
     /\ UNCHANGED <<part, rec, stale>>

\* Recover goes on to the next record once a launched job's own is written.
Recover ==
  /\ up /\ next # 0 /\ \A j \in Jobs : ~At(j, "queue")
  /\ Reconcile(next)
  /\ next' = IF next = issued THEN 0 ELSE next + 1
  /\ UNCHANGED <<req, target, serves, issued, caller, up, fetched>>

-----------------------------------------------------------------------------
(* The world: a user deletes a model, a server changes what it serves.      *)

UserDeletes(t) ==
  /\ "delete" \in Faults /\ Exists(target[t]) /\ target' = [target EXCEPT ![t] = Absent]
  /\ UNCHANGED <<jobs, active, work, req, rec, part, serves, issued, caller, up, next, fetched, stale>>

ServerChanges(t) ==
  /\ "change" \in Faults /\ \E v \in Versions : v > serves[t] /\ serves' = [serves EXCEPT ![t] = v]
  /\ UNCHANGED <<jobs, active, work, req, rec, part, target, issued, caller, up, next, fetched, stale>>

-----------------------------------------------------------------------------
Init ==
  /\ jobs = [j \in Jobs |-> "none"] /\ rec = jobs
  /\ active = [t \in Targets |-> 0] /\ work = [j \in Jobs |-> Idle]
  /\ req = [j \in Jobs |-> [target |-> "none", force |-> FALSE, want |-> 0]]
  /\ part = [t \in Targets |-> Absent] /\ target = part
  /\ serves = [t \in Targets |-> 1]
  /\ issued = 0 /\ caller = NoCall /\ up = TRUE /\ next = 0 /\ fetched = {} /\ stale = {}

\* The bound: nothing is left to start, and nothing runs.
AtBound == issued = MaxJobs /\ caller = NoCall /\ up /\ next = 0 /\ (\A j \in Jobs : At(j, "none")) /\ UNCHANGED vars

Next ==
  \/ \E t \in Targets, force \in BOOLEAN : StartCall(t, force)
  \/ StartHave \/ Launch
  \/ \E j \in Jobs : Cancel(j) \/ Worker(j)
  \/ Crash \/ Restart \/ Recover
  \/ \E t \in Targets : UserDeletes(t) \/ ServerChanges(t)
  \/ AtBound

\* A job's own steps and the end of a cancelled transfer are bounded; what the
\* server does is not, since the HTTP client has no timeout.
Fairness == \A j \in Jobs : WF_vars(Local(j)) /\ WF_vars(Stopped(j))

Spec == Init /\ [][Next]_vars /\ Fairness
-----------------------------------------------------------------------------
(* Properties                                                              *)

\* A file that two processes append to may be longer than the artifact.
Files == {Absent} \cup [n : Nat, v : Versions \cup {0, Mixed}]
States == Terminal \cup {"none", "queued", "running"}

\* The shape of the manager, its goroutines and the files.
TypeOK ==
  /\ jobs \in [Jobs -> States] /\ rec \in [Jobs -> States]
  /\ active \in [Targets -> 0..MaxJobs]
  /\ work \in [Jobs -> [pc : {"none", "queue", "run", "prepare", "get", "open", "copy", "verify", "swap",
                               "rename", "finish", "save", "clear"},
                        pos : 0..Size, src : Versions \cup {0}, stop : BOOLEAN,
                        err : {"none", "failed", "cancelled"}]]
  /\ req \in [Jobs -> [target : Targets \cup {"none"}, force : BOOLEAN, want : Versions \cup {0}]]
  /\ part \in [Targets -> Files] /\ target \in [Targets -> Files]
  /\ serves \in [Targets -> Versions] /\ issued \in 0..MaxJobs
  /\ caller \in [pc : {"none", "have", "launch"}, target : Targets \cup {"none"}, force : BOOLEAN]
  /\ up \in BOOLEAN /\ next \in 0..MaxJobs /\ fetched \subseteq Jobs /\ stale \subseteq Jobs

\* Within a daemon a target is owned exactly while the goroutine of one job works on it:
\* the daemon itself never has two writers of one partial file, nor a target left locked
\* by a job that is over, through failures, cancellation and recovery, whatever another
\* daemon's start does to the files (which it does write: OneWriter of DuplicateStart).
ActiveIsBusy ==
  \A t \in Targets, j \in Jobs : active[t] = j <=> (work[j].pc # "none" /\ T(j) = t)

\* What appears at a target whose plan has a digest is the whole artifact the
\* job was asked for, whatever was resumed, refetched, interrupted or discarded.
PublishedIsVerified ==
  [][\A t \in Checked : target'[t] # target[t] /\ Exists(target'[t])
       => \E j \in fetched' : T(j) = t /\ target'[t] = Full(req[j].want)]_vars

\* Outside a job's goroutine its record says what the manager says, so that a
\* restart at any later moment finds every finished job and none besides.  A
\* record that could not be written may bring its job back, beside another's.
RecordsAgree ==
  up /\ next = 0 =>
    \A j \in Jobs : At(j, "none") /\ (\A k \in stale : T(k) # T(j)) => rec[j] = jobs[j]

\* types.go:36 "IsTerminal reports whether a job in this state will never change
\* again": while the daemon runs, an answer of a cancel or a failure stands.
TerminalIsFinal ==
  [][\A j \in Jobs : jobs[j] \in Terminal /\ up' => jobs'[j] = jobs[j]]_vars

\* A cancelled job lets go of its target, however slow the server is.
CancelEnds == \A j \in Jobs : jobs[j] = "cancelled" ~> work[j].pc = "none"

\* No staging directory outlives its job: neither a failed or cancelled transfer
\* nor an interrupted one, once the next daemon has recovered.
StageIsCleared ==
  up /\ next = 0 => \A t \in Multi :
    active[t] = 0 /\ (\A k \in stale : T(k) # t) => ~Exists(part[t])

\* persist.go:22-23 "a job whose target landed is completed": a completed job
\* is one that put its artifact in place.
CompletedIsFetched == \A j \in Jobs : jobs[j] = "completed" => j \in fetched
=============================================================================
