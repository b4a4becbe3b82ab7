----------------------------- MODULE Documents -----------------------------
(***************************************************************************)
(* The documents of an installation: profiles/<name>/profile.yaml,         *)
(* config.yaml and the model files, under the calls of the control daemon  *)
(* that write them, a doctor process that repairs config.yaml, a user who  *)
(* edits by hand, failing writes, and the daemon's death between any two   *)
(* steps.  Each store has a mutex of its own; reads of profiles take none. *)
(*                                                                         *)
(* A profile is a record [ok, backend, addr, source, note]: ok stands for  *)
(* the schema and the backend's validation, note for the comments and the  *)
(* keys a merge must keep.                                                 *)
(***************************************************************************)
EXTENDS Naturals, FiniteSets

CONSTANTS
  Names,     \* profile names
  Docs,      \* profile documents a client or a user may write
  Paths,     \* model files under the storage root
  Target(_), \* what Resolve and Plan make of a source: a path
  Singles,   \* backends that serve one profile at a time
  Services,  \* startup services; "bogus" is not one
  HandCfgs,  \* configurations a user may write by hand
  Callers,
  Kinds,     \* the calls a run allows
  MaxCalls,  \* bound on calls
  NoDir,     \* a profile that has no directory
  EmptyDir,  \* a directory without its profile.yaml
  NoFile,    \* no config.yaml
  Faults     \* "write", "stop", "crash", "hand"

\* What a config.yaml that parses as YAML says of the fields modelled here.
Configs ==
  [auto : SUBSET Names, services : SUBSET Services, bind : {"loopback", "network", "odd"}, noauth : BOOLEAN, allow : BOOLEAN]

ASSUME DocumentsOK ==
  /\ NoDir \notin Docs /\ EmptyDir \notin Docs /\ MaxCalls \in Nat /\ "none" \notin Callers
  /\ HandCfgs \subseteq Configs /\ NoFile \notin Configs

VARIABLES
  store,   \* the profile directories
  config,  \* config.yaml
  models,  \* model files on disk
  op,      \* each handler's call
  mu,      \* who holds the profile store's and the config store's mutex
  up,      \* the daemon runs
  calls,   \* calls so far
  cut,     \* profiles whose directory a failed or interrupted call, or a user, may have spoiled
  stale    \* handlers whose copy of config.yaml another process has since replaced

vars == <<store, config, models, op, mu, up, calls, cut, stale>>

Idle == [kind |-> "none", pc |-> "idle", name |-> "none", doc |-> NoDir, target |-> "none",
         todo |-> {}, snap |-> NoFile]
At(c, pc) == up /\ op[c].pc = pc
Goto(c, pc) == op' = [op EXCEPT ![c].pc = pc]
Return(c) == op' = [op EXCEPT ![c] = Idle]
Free(m) == mu[m] = "none"

-----------------------------------------------------------------------------
(* Reading                                                                 *)

\* The schema's common fields, then the backend's own validation.
Accepted(d) == d.ok

\* Get: the file is there and what it says is accepted.
Valid(n) == store[n] \in Docs /\ Accepted(store[n])
Missing(n) == store[n] \in {NoDir, EmptyDir}

\* ListDocuments gives up at the first directory it cannot read.
ListOK == \A n \in Names : store[n] = NoDir \/ Valid(n)

\* ValidateSecurity refuses disabled authentication on an exposed bind.
Exposed(c) == c.noauth /\ c.bind # "loopback" /\ ~c.allow

\* config.Parse: known services, and not exposed.
Loads(c) == c # NoFile /\ c.services \subseteq (Services \ {"bogus"}) /\ ~Exposed(c)

\* ValidateAutostart: profiles one slot can serve together.
Servable(names) ==
  /\ \A n \in names : Valid(n)
  /\ \A n, m \in names : store[n].backend = store[m].backend
  /\ \A n, m \in names : n # m => store[n].backend \notin Singles /\ store[n].addr = store[m].addr

\* ProfilesUsingModel: the source is the path, or a download of it would go there.
Uses(n, p) == Valid(n) /\ (store[n].source = p \/ Target(store[n].source) = p)

\* filedoc.WriteFile that reports an error: the old file, or the new one when
\* only the sync of the directory failed.
FailedWrite(old, new) == IF "write" \in Faults THEN {old, new} ELSE {}

-----------------------------------------------------------------------------
(* Calls                                                                   *)

Call(c, kind, new) ==
  /\ up /\ op[c].pc = "idle" /\ kind \in Kinds /\ calls < MaxCalls /\ calls' = calls + 1
  /\ op' = [op EXCEPT ![c] = [new EXCEPT !.kind = kind]]
  /\ UNCHANGED <<store, config, models, mu, up, cut, stale>>

\* PutProfile, create-only or not.
PutCall(c, n, d) ==
  \/ Call(c, "put", [Idle EXCEPT !.pc = "look", !.name = n, !.doc = d])
  \/ Call(c, "create", [Idle EXCEPT !.pc = "create", !.name = n, !.doc = d])

\* planDownloadApply: a finished download, merged into the profile as it is now;
\* everything but the source is kept (MergeYAML).
Merged(d, p) == [d EXCEPT !.source = p]
ApplyCall(c, n, p) ==
  /\ p \in models /\ Valid(n) /\ Merged(store[n], p) \in Docs
  /\ Call(c, "apply", [Idle EXCEPT !.pc = "look", !.name = n, !.doc = Merged(store[n], p)])

DeleteCall(c, n) == Valid(n) /\ Call(c, "delete", [Idle EXCEPT !.pc = "stop", !.name = n])

\* requireUnsharedTarget: every other profile must resolve, and elsewhere.
Unshared(n) == \A m \in Names \ {n} : store[m] # NoDir => Target(store[m].source) # Target(store[n].source)

CleanupCall(c, n) ==
  /\ Valid(n) /\ ListOK /\ Unshared(n)
  /\ Call(c, "cleanup", [Idle EXCEPT !.pc = "stop", !.name = n, !.target = Target(store[n].source)])

\* DeleteLocalModelCascade: refused while in use, unless it takes the profiles too.
CascadeCall(c, p, cascade) ==
  LET using == {n \in Names : Uses(n, p)} IN
  /\ ListOK /\ (using # {} => cascade) /\ p \in models
  /\ Call(c, "cascade", [Idle EXCEPT !.pc = "unlink", !.target = p, !.todo = using])

\* SetProfileAutostart: the list as it would be must be servable.
AutostartCall(c, n, enabled) ==
  /\ enabled => Valid(n) /\ Loads(config) /\ Servable(config.auto \cup {n})
  /\ Call(c, IF enabled THEN "enable" ELSE "disable", [Idle EXCEPT !.pc = "edit", !.name = n])

ServicesCall(c, s) ==
  /\ "bogus" \notin s
  /\ Call(c, "services", [Idle EXCEPT !.pc = "edit", !.todo = s])

-----------------------------------------------------------------------------
(* The profile store                                                       *)

\* write: replace what can be read, create what is missing.
Look(c) ==
  /\ At(c, "look")
  /\ \/ Missing(op[c].name) /\ Goto(c, "create")
     \/ Valid(op[c].name) /\ Goto(c, "replace")
     \/ ~Missing(op[c].name) /\ ~Valid(op[c].name) /\ Return(c)
  /\ UNCHANGED <<store, config, models, mu, up, calls, cut, stale>>

\* Create: validate, refuse a directory that exists, make it ...
Create(c) ==
  /\ At(c, "create") /\ Free("profiles")
  /\ \/ /\ ~Accepted(op[c].doc) \/ store[op[c].name] # NoDir
        /\ Return(c) /\ UNCHANGED <<store, mu>>
     \/ /\ Accepted(op[c].doc) /\ store[op[c].name] = NoDir
        /\ store' = [store EXCEPT ![op[c].name] = EmptyDir]
        /\ mu' = [mu EXCEPT !.profiles = c] /\ Goto(c, "write")
  /\ UNCHANGED <<config, models, up, calls, cut, stale>>

\* ... and write the file into it.
Write(c) ==
  /\ At(c, "write") /\ mu' = [mu EXCEPT !.profiles = "none"] /\ Return(c)
  /\ \/ store' = [store EXCEPT ![op[c].name] = op[c].doc] /\ UNCHANGED cut
     \/ "write" \in Faults /\ cut' = cut \cup {op[c].name} /\ UNCHANGED store
  /\ UNCHANGED <<config, models, up, calls, stale>>

\* Mutant: the new content is not validated.
ReplaceUnchecked(c) ==
  /\ At(c, "replace") /\ Free("profiles") /\ Return(c)
  /\ store' = IF Valid(op[c].name) THEN [store EXCEPT ![op[c].name] = op[c].doc] ELSE store
  /\ UNCHANGED <<config, models, mu, up, calls, cut, stale>>

\* Replace reads again under the mutex, keeps a backup and renames; the sync
\* after the rename may fail.
Replace(c) ==
  /\ At(c, "replace") /\ Free("profiles") /\ Return(c)
  /\ \/ Valid(op[c].name) /\ Accepted(op[c].doc) /\ store' = [store EXCEPT ![op[c].name] = op[c].doc]
     \/ ~(Valid(op[c].name) /\ Accepted(op[c].doc)) /\ UNCHANGED store
     \/ /\ Valid(op[c].name) /\ Accepted(op[c].doc)
        /\ \E d \in FailedWrite(store[op[c].name], op[c].doc) : store' = [store EXCEPT ![op[c].name] = d]
  /\ UNCHANGED <<config, models, mu, up, calls, cut, stale>>

\* DeleteProfile: stop the runtime, whose failure ends the call.
Stop(c) ==
  /\ At(c, "stop")
  /\ Goto(c, "erase") \/ ("stop" \in Faults /\ Return(c))
  /\ UNCHANGED <<store, config, models, mu, up, calls, cut, stale>>

\* Delete reads again under the mutex; RemoveAll unlinks the file, or cannot ...
Erase(c) ==
  /\ At(c, "erase") /\ Free("profiles")
  /\ \/ /\ ~Valid(op[c].name) \/ "write" \in Faults
        /\ Return(c) /\ UNCHANGED <<store, mu>>
     \/ /\ Valid(op[c].name) /\ store' = [store EXCEPT ![op[c].name] = EmptyDir]
        /\ mu' = [mu EXCEPT !.profiles = c] /\ Goto(c, "rmdir")
  /\ UNCHANGED <<config, models, up, calls, cut, stale>>

\* ... and then the directory; the sync of the root that follows may fail, which ends the
\* call with the profile gone and whatever comes after a delete left undone.
RemoveDir(c) ==
  /\ At(c, "rmdir") /\ mu' = [mu EXCEPT !.profiles = "none"]
  /\ \/ store' = [store EXCEPT ![op[c].name] = NoDir] /\ Goto(c, "edit") /\ UNCHANGED cut
     \/ "write" \in Faults /\ store' = [store EXCEPT ![op[c].name] = NoDir] /\ Return(c) /\ UNCHANGED cut
     \/ "write" \in Faults /\ cut' = cut \cup {op[c].name} /\ Return(c) /\ UNCHANGED store
  /\ UNCHANGED <<config, models, up, calls, stale>>

\* What a call does once its profile is deleted: the model, the next profile.
\* (Regenerating the backend's files is RuntimeSlot's WriteGenerated.)
AfterDelete(c) ==
  CASE op[c].kind = "cleanup" -> Goto(c, "unlink")
    [] op[c].kind = "cascade" -> Goto(c, "next")
    [] OTHER -> Return(c)

\* RemoveLocal, which fails on a file that is not there; any failure ends the call.
Unlink(c) ==
  /\ At(c, "unlink")
  /\ \/ /\ models' = models \ {op[c].target}
        /\ IF op[c].kind = "cascade" /\ op[c].target \in models THEN Goto(c, "next") ELSE Return(c)
     \/ "write" \in Faults /\ Return(c) /\ UNCHANGED models
  /\ UNCHANGED <<store, config, mu, up, calls, cut, stale>>

\* The cascade deletes the profiles one by one and ends at the first failure.
NextProfile(c) ==
  /\ At(c, "next")
  /\ \/ op[c].todo = {} /\ Return(c)
     \/ \E n \in op[c].todo :
          IF Valid(n) THEN op' = [op EXCEPT ![c].pc = "stop", ![c].name = n, ![c].todo = @ \ {n}] ELSE Return(c)
  /\ UNCHANGED <<store, config, models, mu, up, calls, cut, stale>>

-----------------------------------------------------------------------------
(* The config store                                                        *)

\* What the call wants config.yaml to say.
Edited(c, f) ==
  CASE op[c].kind = "enable"   -> [f EXCEPT !.auto = @ \cup {op[c].name}]
    [] op[c].kind = "services" -> [f EXCEPT !.services = op[c].todo]
    [] OTHER                   -> [f EXCEPT !.auto = @ \ {op[c].name}]

\* Mutant: the mutex is taken for the write only.
ReadConfigUnlocked(c) ==
  /\ At(c, "edit")
  /\ \/ ~Loads(config) /\ Return(c)
     \/ Loads(config) /\ op' = [op EXCEPT ![c].pc = "save", ![c].snap = config]
  /\ stale' = stale \ {c}
  /\ UNCHANGED <<store, config, models, mu, up, calls, cut>>

\* applyDocument: the file must be there and load.
ReadConfig(c) ==
  /\ At(c, "edit") /\ Free("config")
  /\ \/ ~Loads(config) /\ Return(c) /\ UNCHANGED mu
     \/ /\ Loads(config) /\ op' = [op EXCEPT ![c].pc = "save", ![c].snap = config]
        /\ mu' = [mu EXCEPT !.config = c]
  /\ stale' = stale \ {c}
  /\ UNCHANGED <<store, config, models, up, calls, cut>>

\* No change writes nothing; a change is validated and replaces the whole file.
SaveConfig(c) ==
  LET new == Edited(c, op[c].snap) IN
  /\ At(c, "save") /\ mu' = [mu EXCEPT !.config = "none"]
  /\ \/ new = op[c].snap /\ AfterDelete(c) /\ UNCHANGED config
     \/ new # op[c].snap /\ Loads(new) /\ config' = new /\ AfterDelete(c)
     \/ new # op[c].snap /\ config' \in FailedWrite(config, new) /\ Return(c)
  /\ UNCHANGED <<store, models, up, calls, cut, stale>>

Remedies == {"loopback", "auth", "allow"}

\* The three repairs; a listen address without a port is left as it is.
Repaired(r, f) ==
  CASE r = "loopback" -> IF f.bind = "odd" THEN f ELSE [f EXCEPT !.bind = "loopback"]
    [] r = "auth"     -> [f EXCEPT !.noauth = FALSE]
    [] r = "allow"    -> [f EXCEPT !.allow = TRUE]

\* Others: everyone who was reading an older file has a stale copy now.
Overtaken == {c \in Callers : op[c].pc = "save"}

\* Mutant: the result of a repair is not validated.
RepairUnchecked(r) ==
  /\ "repair" \in Kinds /\ config # NoFile /\ ~Loads(config) /\ Repaired(r, config) # config
  /\ config' = Repaired(r, config) /\ stale' = stale \cup Overtaken
  /\ UNCHANGED <<store, models, op, mu, up, calls, cut>>

\* doctor --fix, another process: no mutex of the daemon excludes it.
Repair(r) ==
  /\ "repair" \in Kinds /\ config # NoFile /\ ~Loads(config) /\ Repaired(r, config) # config
  /\ Loads(Repaired(r, config))
  /\ config' = Repaired(r, config) /\ stale' = stale \cup Overtaken
  /\ UNCHANGED <<store, models, op, mu, up, calls, cut>>

-----------------------------------------------------------------------------
(* The user, downloads and the daemon                                      *)

HandEditConfig(f) ==
  /\ "hand" \in Faults /\ calls < MaxCalls /\ calls' = calls + 1
  /\ config # f /\ config' = f /\ stale' = stale \cup Overtaken
  /\ UNCHANGED <<store, models, op, mu, up, cut>>

HandEditProfile(n, d) ==
  /\ "hand" \in Faults /\ calls < MaxCalls /\ calls' = calls + 1 /\ store[n] \in Docs \ {d}
  /\ store' = [store EXCEPT ![n] = d] /\ cut' = cut \cup {n}
  /\ UNCHANGED <<config, models, op, mu, up, stale>>

\* ModelDownload's Rename.
Downloaded(p) ==
  /\ p \notin models /\ "apply" \in Kinds /\ models' = models \cup {p}
  /\ UNCHANGED <<store, config, op, mu, up, calls, cut, stale>>

Crash ==
  /\ "crash" \in Faults /\ up /\ up' = FALSE
  /\ op' = [c \in Callers |-> Idle] /\ mu' = [m \in DOMAIN mu |-> "none"] /\ stale' = {}
  /\ cut' = cut \cup {op[c].name : c \in {x \in Callers : op[x].pc \in {"write", "rmdir"}}}
  /\ UNCHANGED <<store, config, models, calls>>

\* NewService: the configuration loads (or is absent) and its profiles can be served.
DaemonStarts == (config = NoFile) \/ (Loads(config) /\ Servable(config.auto))

Restart ==
  /\ ~up /\ DaemonStarts /\ up' = TRUE
  /\ UNCHANGED <<store, config, models, op, mu, calls, cut, stale>>

-----------------------------------------------------------------------------
Default == [auto |-> {}, services |-> Services \ {"bogus"}, bind |-> "loopback", noauth |-> FALSE, allow |-> FALSE]

\* Whatever earlier calls have left.
Init ==
  /\ store \in [Names -> {NoDir} \cup {d \in Docs : d.ok}] /\ models \in SUBSET Paths /\ config \in {NoFile, Default}
  /\ op = [c \in Callers |-> Idle] /\ mu = [m \in {"profiles", "config"} |-> "none"]
  /\ up = TRUE /\ calls = 0 /\ cut = {} /\ stale = {}

Request(c) ==
  \/ \E n \in Names, d \in Docs : PutCall(c, n, d)
  \/ \E n \in Names, p \in Paths : ApplyCall(c, n, p)
  \/ \E n \in Names : DeleteCall(c, n) \/ CleanupCall(c, n)
  \/ \E p \in Paths, cascade \in BOOLEAN : CascadeCall(c, p, cascade)
  \/ \E n \in Names, enabled \in BOOLEAN : AutostartCall(c, n, enabled)
  \/ \E s \in SUBSET Services : ServicesCall(c, s)

Step(c) ==
  \/ Look(c) \/ Create(c) \/ Write(c) \/ Replace(c)
  \/ Stop(c) \/ Erase(c) \/ RemoveDir(c) \/ Unlink(c) \/ NextProfile(c)
  \/ ReadConfig(c) \/ SaveConfig(c)

Next ==
  \/ \E c \in Callers : Request(c) \/ Step(c)
  \/ \E r \in Remedies : Repair(r)
  \/ \E f \in HandCfgs : HandEditConfig(f)
  \/ \E n \in Names, d \in Docs : HandEditProfile(n, d)
  \/ \E p \in Paths : Downloaded(p)
  \/ Crash \/ Restart

Spec == Init /\ [][Next]_vars

-----------------------------------------------------------------------------
(* Properties                                                              *)

\* Listing works whatever calls have raced: a directory that cannot be read is
\* in the middle of a create or a delete, or was left by one that was cut short,
\* or a user spoiled it.  (One such directory fails every listing, and neither
\* Create nor Delete will touch it.)
ListWorks ==
  \A n \in Names \ cut :
    store[n] = NoDir \/ Valid(n) \/ \E c \in Callers : op[c].name = n /\ op[c].pc \in {"write", "rmdir"}

\* No program writes a config.yaml that does not load: not an edit from a copy
\* that was read earlier, and not a repair of a file with two faults.
WritesLoad == [][config' # config => Loads(config') \/ calls' # calls]_vars

\* The daemon's read-modify-write of config.yaml loses nothing another of its
\* calls has written; only another process can be overwritten.
EditsKeepOthers ==
  [][\A c \in Callers : config' # config /\ op[c].pc = "save" /\ op'[c].pc # "save" /\ c \notin stale
       => config' = Edited(c, config)]_vars

-----------------------------------------------------------------------------
(* Said by the code's comments or expected of it, and not so: see "Known   *)
(* disagreements" in README.md.  No run of the project checks these.       *)

\* "A deleted profile left in autostart_profiles fails every daemon start"
\* (manager.go:247): without faults, a delete that erased its profile goes on to
\* clear the list and to regenerate.
DeleteCompletes ==
  [][\A c \in Callers : op[c].kind = "delete" /\ op[c].pc = "edit" => op'[c].pc # "idle"]_vars

\* operations.go:141 "Refuse rather than delete files another profile may own": a cleanup
\* deletes no model that another profile resolves to by then.
CleanupSpares ==
  [][\A c \in Callers : op[c].kind = "cleanup" /\ op[c].pc = "unlink" /\ op'[c].pc # "unlink" /\ models' # models
       => \A m \in Names \ {op[c].name} : store[m] \in Docs => Target(store[m].source) \notin models \ models']_vars

\* SetProfileAutostart "rejects profile sets the runtime slot can never serve"
\* (autostart.go:20), so that the daemon can be started again.
DaemonCanStart == DaemonStarts
=============================================================================
