------------------------------ MODULE Install ------------------------------
(***************************************************************************)
(* backends: the managed installs of one engine.  llama.cpp ("archive") is *)
(* staged beside its final directory and renamed into place; MLX ("venv")  *)
(* and Strata ("checkout") are built where they stay.  All three record    *)
(* the active and the previous install in state.json.                      *)
(*                                                                         *)
(* A directory is what has been put into it: "none", "cloned" (sources, or *)
(* remains without the executable), "python" (an executable, the rest      *)
(* unknown), "ready" (it runs).                                            *)
(* The installer's mutex covers a whole call, so that the state document   *)
(* read at its start is the one that is there at its end.                  *)
(***************************************************************************)
EXTENDS Integers, FiniteSets

CONSTANTS
  Versions,  \* releases, tags or locked versions a client may ask for
  Pinned,    \* mlx.ManagedVersion, the only one with a lock
  Accels,    \* accelerators the host may report
  Releases,  \* Releases[v]: what upstream publishes (external)
  MaxOps,    \* bound on calls
  Faults     \* "network" (any external command), "write" (the file system), "crash", "host"

ASSUME InstallOK ==
  /\ Pinned \in Versions /\ "any" \notin Accels /\ "none" \notin Versions /\ MaxOps \in Nat
  /\ Releases \in [Versions -> [assets : SUBSET Accels, digest : {"none", "right", "wrong"},
                                entries : SUBSET {"file", "link", "escape", "device"}, exes : 0..2, runs : BOOLEAN]]

VARIABLES
  kind,    \* which backend this engine root belongs to
  accel,   \* what detect finds on the host
  state,   \* state.json: the active and the previous record
  disk,    \* what each install directory holds
  op,      \* the call that holds the installer's mutex
  issued,  \* calls so far
  up,      \* the daemon runs
  left,    \* directories of calls that failed or were cut short
  torn,    \* directories removed for a replacement that did not arrive
  cut      \* a call retired an install and did not record its own

vars == <<kind, accel, state, disk, op, issued, up, left, torn, cut>>

Kinds == {"archive", "venv", "checkout"}
Dirs == Versions \X (Accels \cup {"any"})
NoDir == <<"none", "any">>
NoRecord == [version |-> "none", dir |-> NoDir, digest |-> <<"none", "none">>]
Idle == [pc |-> "idle", version |-> "none", dir |-> NoDir, had |-> FALSE, ok |-> FALSE]
At(pc) == op.pc = pc
Goto(pc) == op' = [op EXCEPT !.pc = pc]

\* The directory of a version: per platform and accelerator, or per version.
Dir(v) == IF kind = "archive" THEN <<v, accel>> ELSE <<v, "any">>

\* The executable is a file: ActiveExecutable's and inspectInstall's os.Stat.
Exists(d) == d \in Dirs /\ disk[d] \in {"python", "ready"}
ActiveExecutable == Exists(state.active.dir)

\* The version probe or the import probe answers.
Probe(d) == d \in Dirs /\ disk[d] = "ready"

Fails == op' = [op EXCEPT !.pc = "done", !.ok = FALSE]
Leaves(d) == left' = left \cup {d}

\* What os.RemoveAll may leave of a directory when it fails or is cut short.
Remains(d) ==
  CASE disk[d] = "ready"  -> {"none", "cloned", "python", "ready"}
    [] disk[d] = "python" -> {"none", "cloned", "python"}
    [] OTHER              -> {"none", disk[d]}

-----------------------------------------------------------------------------
(* Calls                                                                   *)

Begin(pc, v) ==
  op' = [pc |-> pc, version |-> v, dir |-> Dir(v), had |-> Probe(state.active.dir), ok |-> FALSE]

\* What the installers require of the request before they do anything.
Accepted(v, upgrade) == ~(upgrade /\ state.active = NoRecord) /\ (kind = "venv" => v = Pinned)

\* "Already installed": llama.cpp trusts the record; the others look at the disk.
ArchiveAlready(v) == state.active.version = v /\ state.active.dir = Dir(v)
VenvAlready(v) == state.active.version = v /\ Exists(Dir(v))
CheckoutAlready(v) == state.active.version = v /\ state.active.dir = Dir(v) /\ Exists(Dir(v))

Already(v) ==
  CASE kind = "archive" -> ArchiveAlready(v) [] kind = "venv" -> VenvAlready(v) [] kind = "checkout" -> CheckoutAlready(v)

\* Resolve asks the release server before the record is compared.
ResolveFails == "network" \in Faults /\ kind = "archive"

FirstStep == CASE kind = "archive" -> "fetch" [] kind = "venv" -> "env" [] kind = "checkout" -> "clone"

InstallCall(v, upgrade, force) ==
  /\ up /\ At("idle") /\ issued < MaxOps /\ issued' = issued + 1
  /\ \/ ~Accepted(v, upgrade) /\ op' = [Idle EXCEPT !.pc = "done"]
     \/ ResolveFails /\ op' = [Idle EXCEPT !.pc = "done"]
     \/ Accepted(v, upgrade) /\ Already(v) /\ ~force /\ op' = [Idle EXCEPT !.pc = "done", !.ok = TRUE]
     \/ Accepted(v, upgrade) /\ (force \/ ~Already(v)) /\ Begin(FirstStep, v)
  /\ UNCHANGED <<kind, accel, state, disk, up, left, torn, cut>>

\* Mutant: the previous install is not probed.
RollbackBlind ==
  /\ up /\ At("idle") /\ issued < MaxOps /\ issued' = issued + 1
  /\ op' = IF state.previous = NoRecord THEN [Idle EXCEPT !.pc = "done"] ELSE [Idle EXCEPT !.pc = "swap"]
  /\ UNCHANGED <<kind, accel, state, disk, up, left, torn, cut>>

\* RollbackInstall: nothing is written unless the previous install answers.
RollbackCall ==
  /\ up /\ At("idle") /\ issued < MaxOps /\ issued' = issued + 1
  /\ op' = IF state.previous = NoRecord \/ ~Probe(state.previous.dir)
           THEN [Idle EXCEPT !.pc = "done"] ELSE [Idle EXCEPT !.pc = "swap"]
  /\ UNCHANGED <<kind, accel, state, disk, up, left, torn, cut>>

Return ==
  /\ At("done") /\ op' = Idle
  /\ UNCHANGED <<kind, accel, state, disk, issued, up, left, torn, cut>>

-----------------------------------------------------------------------------
(* llama.cpp: fetch, check, probe, and rename into place                   *)

\* selectAsset and Fetch's integrity check.
AssetOK(r) == accel \in r.assets /\ r.digest = "right"

\* extractTarGz: one entry that is refused fails the whole archive.
ExtractOK(r) == r.entries \subseteq {"file", "link"}

\* findExecutable wants exactly one.
ExecutableOK(r) == r.exes = 1

\* Fetch into the staging directory, which the deferred removal takes away.
Fetch ==
  LET r == Releases[op.version] IN
  /\ At("fetch")
  /\ \/ AssetOK(r) /\ ExtractOK(r) /\ ExecutableOK(r) /\ Goto("probe")
     \/ (~(AssetOK(r) /\ ExtractOK(r) /\ ExecutableOK(r)) \/ "network" \in Faults) /\ Fails
  /\ UNCHANGED <<kind, accel, state, disk, issued, up, left, torn, cut>>

\* The staged payload must answer before it may replace anything.
ProbeStaged ==
  /\ At("probe") /\ IF Releases[op.version].runs THEN Goto("remove") ELSE Fails
  /\ UNCHANGED <<kind, accel, state, disk, issued, up, left, torn, cut>>

\* activate: RemoveAll, then Rename; an error of either ends the call there.
RemoveOld ==
  /\ At("remove")
  /\ \/ disk' = [disk EXCEPT ![op.dir] = "none"] /\ Goto("rename") /\ UNCHANGED <<left, torn>>
     \/ /\ "write" \in Faults /\ Fails /\ Leaves(op.dir) /\ torn' = torn \cup {op.dir}
        /\ \E s \in Remains(op.dir) : disk' = [disk EXCEPT ![op.dir] = s]
  /\ UNCHANGED <<kind, accel, state, issued, up, cut>>

Rename ==
  /\ At("rename")
  /\ \/ /\ disk' = [disk EXCEPT ![op.dir] = IF Releases[op.version].runs THEN "ready" ELSE "python"]
        /\ Goto("retire") /\ torn' = torn \ {op.dir} /\ UNCHANGED left
     \/ "write" \in Faults /\ Fails /\ Leaves(op.dir) /\ torn' = torn \cup {op.dir} /\ UNCHANGED disk
  /\ UNCHANGED <<kind, accel, state, issued, up, cut>>

-----------------------------------------------------------------------------
(* Strata and MLX: build in place                                          *)

\* A checkout without its setup.py is removed and cloned again.
Clone ==
  /\ At("clone")
  /\ \/ disk[op.dir] # "none" /\ Goto("env") /\ UNCHANGED <<disk, left>>
     \/ disk[op.dir] = "none" /\ disk' = [disk EXCEPT ![op.dir] = "cloned"] /\ Goto("env") /\ UNCHANGED left
     \/ /\ disk[op.dir] = "none" /\ "network" \in Faults /\ Fails /\ Leaves(op.dir)
        /\ \E s \in {"none", "cloned"} : disk' = [disk EXCEPT ![op.dir] = s]
  /\ UNCHANGED <<kind, accel, state, issued, up, torn, cut>>

\* ensureEnvironment: an interpreter that is there is kept as it is.
Environment ==
  /\ At("env")
  /\ \/ /\ disk' = IF Exists(op.dir) THEN disk ELSE [disk EXCEPT ![op.dir] = "python"]
        /\ Goto("pip") /\ UNCHANGED left
     \/ "network" \in Faults /\ ~Exists(op.dir) /\ Fails /\ Leaves(op.dir) /\ UNCHANGED disk
  /\ UNCHANGED <<kind, accel, state, issued, up, torn, cut>>

\* pip works in the live directory: when it fails, what was there may be gone.
Pip ==
  /\ At("pip")
  /\ \/ /\ disk' = [disk EXCEPT ![op.dir] = IF Releases[op.version].runs THEN "ready" ELSE "python"]
        /\ Goto("verify") /\ UNCHANGED left
     \/ /\ "network" \in Faults /\ Fails /\ Leaves(op.dir)
        /\ \E s \in {"python", disk[op.dir]} : disk' = [disk EXCEPT ![op.dir] = s]
  /\ UNCHANGED <<kind, accel, state, issued, up, torn, cut>>

ProbeInPlace ==
  /\ At("verify")
  /\ IF Probe(op.dir) THEN Goto("retire") /\ UNCHANGED left ELSE Fails /\ Leaves(op.dir)
  /\ UNCHANGED <<kind, accel, state, disk, issued, up, torn, cut>>

-----------------------------------------------------------------------------
(* Retention and the record                                                *)

\* Mutant: the previous install is removed even if it is the active one's directory.
RetiresAny(keep) == state.previous # NoRecord /\ state.previous.dir # keep

\* RetirePrevious: neither the directory about to be active nor the active one.
Retires(keep) ==
  /\ state.previous # NoRecord /\ state.previous.dir # keep
  /\ state.previous.dir # state.active.dir

\* Its removal may fail; the error is dropped.
Retire ==
  /\ At("retire") /\ Goto("write")
  /\ \/ ~Retires(op.dir) /\ UNCHANGED <<disk, left>>
     \/ Retires(op.dir) /\ disk' = [disk EXCEPT ![state.previous.dir] = "none"] /\ UNCHANGED left
     \/ /\ Retires(op.dir) /\ "write" \in Faults /\ Leaves(state.previous.dir)
        /\ \E s \in Remains(state.previous.dir) : disk' = [disk EXCEPT ![state.previous.dir] = s]
  /\ UNCHANGED <<kind, accel, state, issued, up, torn, cut>>

\* The digest recorded: the release asset, the lock file, or none.
Digest(v) ==
  CASE kind = "archive" -> <<"asset", v>> [] kind = "venv" -> <<"lock", v>> [] kind = "checkout" -> <<"none", "none">>

Record == [version |-> op.version, dir |-> op.dir, digest |-> Digest(op.version)]

\* WriteInstallState replaces the document by rename; the directory sync that
\* follows may fail with the new document already in place.
WriteState(new) ==
  \/ state' = new /\ op' = [op EXCEPT !.pc = "done", !.ok = TRUE] /\ UNCHANGED <<left, cut>>
  \/ /\ "write" \in Faults /\ state' \in {state, new} /\ Fails /\ cut' = TRUE
     /\ left' = left \cup {d \in {op.dir} : d # NoDir}

WriteRecord ==
  /\ At("write") /\ WriteState([active |-> Record, previous |-> state.active])
  /\ UNCHANGED <<kind, accel, disk, issued, up, torn>>

Swap ==
  /\ At("swap") /\ WriteState([active |-> state.previous, previous |-> state.active])
  /\ UNCHANGED <<kind, accel, disk, issued, up, torn>>

\* VerifyRecordedDigest on the file the backend names: its executable, or its lock.
VerifyInstall(r) ==
  CASE kind = "archive"  -> r.digest = <<"executable", r.version>>
    [] kind = "venv"     -> r.digest = <<"lock", r.version>>
    [] kind = "checkout" -> TRUE

-----------------------------------------------------------------------------
(* Launching, the daemon and the host                                      *)

\* LaunchSpec: the managed executable, or else the one on the host's path.
LaunchExecutable == IF ActiveExecutable THEN state.active.dir ELSE <<"host", "any">>

\* The directory a removal is under way in.
Removing ==
  CASE At("remove") -> {op.dir}
    [] At("retire") /\ Retires(op.dir) -> {state.previous.dir}
    [] OTHER -> {}

Crash ==
  /\ "crash" \in Faults /\ up /\ up' = FALSE /\ op' = Idle
  /\ \/ Removing = {} /\ disk' = disk
     \/ \E d \in Removing : \E s \in Remains(d) : disk' = [disk EXCEPT ![d] = s]
  /\ left' = left \cup {d \in {op.dir} : d # NoDir}
  /\ torn' = torn \cup {d \in {op.dir} : op.pc \in {"remove", "rename"}}
  /\ cut' = (cut \/ At("write") \/ (At("retire") /\ Retires(op.dir)))
  /\ UNCHANGED <<kind, accel, state, issued>>

Restart ==
  /\ ~up /\ up' = TRUE
  /\ UNCHANGED <<kind, accel, state, disk, op, issued, left, torn, cut>>

\* A driver comes or goes between two installs.
HostChanges(a) ==
  /\ "host" \in Faults /\ At("idle") /\ accel' = a /\ a # accel
  /\ UNCHANGED <<kind, state, disk, op, issued, up, left, torn, cut>>

-----------------------------------------------------------------------------
Init ==
  /\ kind \in Kinds /\ accel \in Accels
  /\ state = [active |-> NoRecord, previous |-> NoRecord]
  /\ disk = [d \in Dirs |-> "none"] /\ op = Idle
  /\ issued = 0 /\ up = TRUE /\ left = {} /\ torn = {} /\ cut = FALSE

Step ==
  \/ Fetch \/ ProbeStaged \/ RemoveOld \/ Rename \/ Clone \/ Environment \/ Pip \/ ProbeInPlace
  \/ Retire \/ WriteRecord \/ Swap \/ Return

Next ==
  \/ \E v \in Versions, upgrade, force \in BOOLEAN : InstallCall(v, upgrade, force)
  \/ RollbackCall \/ Step
  \/ Crash \/ Restart
  \/ \E a \in Accels : HostChanges(a)

Spec == Init /\ [][Next]_vars
-----------------------------------------------------------------------------
(* Properties                                                              *)

Records ==
  {NoRecord} \cup [version : Versions, dir : Dirs, digest : {"asset", "lock", "none"} \X (Versions \cup {"none"})]

\* The shape of the state document, the directories and the call.
TypeOK ==
  /\ kind \in Kinds /\ accel \in Accels
  /\ state \in [active : Records, previous : Records]
  /\ disk \in [Dirs -> {"none", "cloned", "python", "ready"}]
  /\ op \in [pc : {"idle", "fetch", "probe", "remove", "rename", "clone", "env", "pip", "verify", "retire", "write",
                   "swap", "done"},
             version : Versions \cup {"none"}, dir : Dirs \cup {NoDir}, had : BOOLEAN, ok : BOOLEAN]
  /\ issued \in 0..MaxOps /\ up \in BOOLEAN
  /\ left \subseteq Dirs /\ torn \subseteq Dirs /\ cut \in BOOLEAN

\* install.go:131 "a payload that cannot answer --version must never become the
\* active install": whenever the document changes, by install or by rollback of
\* any backend, the install it calls active runs.
RecordedIsProbed == [][state' # state => Probe(state'.active.dir)]_vars

\* "Retention keeps exactly these two" (installstate.go:52): between calls every
\* directory on disk is recorded, or was left by a call that did not finish; and
\* what is recorded as previous is on disk, "a rollback always has exactly one
\* target" (installstate.go:134), unless a call was cut short between its removal
\* and the record, or did not bring back the directory it was replacing.
RetentionIsExact ==
  At("idle") =>
    /\ \A d \in Dirs : disk[d] # "none" => d \in {state.active.dir, state.previous.dir} \cup left
    /\ ~cut /\ state.previous # NoRecord /\ state.previous.dir \notin torn
         => disk[state.previous.dir] # "none"

\* The active install survives whatever is done beside it.  A failed call leaves
\* it working, whichever of its steps failed (fetch, integrity, extraction, probe,
\* removal, rename, retirement, record), unless the call was working on that very
\* directory: MLX and Strata rebuild theirs in place, and a forced reinstall of
\* the active llama.cpp removes it before the rename (install.go:237-242), so that
\* an error or a death there ends it.  And a start never falls back to the host's
\* executable, except in and after such a replacement.
ActiveSurvives ==
  /\ At("done") /\ ~op.ok /\ op.had /\ ~(op.dir = state.active.dir /\ (kind # "archive" \/ op.dir \in torn))
       => Probe(state.active.dir)
  /\ state.active # NoRecord /\ state.active.dir \notin torn /\ ~(At("rename") /\ op.dir = state.active.dir)
       => LaunchExecutable = state.active.dir
-----------------------------------------------------------------------------
(* Said by the code's comments or expected of it, and not so: see "Known   *)
(* disagreements" in README.md.  No run of the project checks these.       *)

\* install.go:256 "VerifyInstall re-hashes the installed executable against the
\* digest recorded at install time": an install that nothing touched matches.
InstallVerifies == state.active # NoRecord => VerifyInstall(state.active)

\* provision's comment, install.go:205 "never replaces a working install", taken
\* for the whole call: a failed reinstall of the active version leaves it working.
ReinstallsSurvive == At("done") /\ ~op.ok /\ op.had /\ kind = "archive" => Probe(state.active.dir)
=============================================================================
