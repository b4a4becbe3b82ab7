--------------------------- MODULE InstallProofs ---------------------------
(* Theorems about Install, for any releases, accelerators and number of      *)
(* calls: what may be recorded as active, what retention keeps, and what a   *)
(* failed or interrupted call leaves of the active install.                  *)
EXTENDS Install, TLAPS

Archive == {"fetch", "probe", "remove", "rename"}
Build == {"clone", "env", "pip", "verify"}
Working == Archive \cup Build \cup {"retire", "write"}

\* Which steps a backend takes, and on which directory.
Calling ==
  /\ At("idle") => op = Idle
  /\ op.pc \in Archive => kind = "archive"
  /\ op.pc \in Build => kind # "archive"
  /\ op.pc \in Working => op.version \in Versions /\ op.dir \in Dirs
  /\ At("swap") => op.dir = NoDir /\ ~op.had

\* What has been tried before the call comes to a step: the staged payload
\* before it replaces anything, the directory before it is recorded, the
\* previous install before the two records are swapped.
Tried ==
  /\ op.pc \in {"remove", "rename"} => Releases[op.version].runs
  /\ op.pc \in {"retire", "write"} => Probe(op.dir)
  /\ At("swap") => state.previous # NoRecord /\ Probe(state.previous.dir)

\* An active install that worked when the call began works, unless the call is
\* replacing or rebuilding its directory.
HadStays ==
  op.had /\ ~(op.dir = state.active.dir /\ (kind # "archive" \/ At("rename") \/ op.dir \in torn))
    => Probe(state.active.dir)

\* The two records have their directories, but for the windows of a replacement
\* and the replacements that did not arrive.
ActiveThere ==
  state.active # NoRecord /\ state.active.dir \notin torn /\ ~(At("rename") /\ op.dir = state.active.dir)
    => Exists(state.active.dir)
PreviousThere ==
  ~cut /\ state.previous # NoRecord /\ state.previous.dir \notin torn
  /\ ~(At("rename") /\ op.dir = state.previous.dir) /\ ~At("write")
    => disk[state.previous.dir] # "none"

\* Every directory has an owner; while a record is written the previous one,
\* already retired, owns none.
Owned ==
  \A d \in Dirs : disk[d] # "none" =>
    \/ d = state.active.dir \/ d \in left
    \/ d = state.previous.dir /\ ~At("write")
    \/ d = op.dir /\ op.pc \in {"rename", "retire", "write", "env", "pip", "verify"}

IInv == TypeOK /\ Calling /\ Tried /\ HadStays /\ ActiveThere /\ PreviousThere /\ Owned
-----------------------------------------------------------------------------
(* Type correctness                                                        *)

Content == {"none", "cloned", "python", "ready"}
StateType == [active : Records, previous : Records]
Steps == {"idle", "fetch", "probe", "remove", "rename", "clone", "env", "pip", "verify", "retire", "write", "swap", "done"}
OpType == [pc : Steps, version : Versions \cup {"none"}, dir : Dirs \cup {NoDir}, had : BOOLEAN, ok : BOOLEAN]

\* TypeOK, a variable at a time.
LEMMA TypeParts ==
  TypeOK <=> /\ kind \in Kinds /\ accel \in Accels /\ state \in StateType /\ disk \in [Dirs -> Content]
             /\ op \in OpType /\ issued \in 0..MaxOps /\ up \in BOOLEAN /\ left \subseteq Dirs /\ torn \subseteq Dirs /\ cut \in BOOLEAN
BY DEF TypeOK, StateType, Content, OpType, Steps

\* A version has a directory, the absence of a record has none.
LEMMA DirFacts == NoDir \notin Dirs /\ \A v \in Versions : TypeOK => Dir(v) \in Dirs
<1>1. NoDir \notin Dirs  BY InstallOK DEF NoDir, Dirs
<1>2. ASSUME TypeOK, NEW v \in Versions PROVE Dir(v) \in Dirs  BY <1>2 DEF TypeOK, Dir, Dirs
<1> QED BY <1>1, <1>2

LEMMA RecordFacts ==
  /\ NoRecord \in Records /\ NoRecord.dir = NoDir
  /\ \A r \in Records : r # NoRecord => r.dir \in Dirs
  /\ TypeOK /\ op.version \in Versions /\ op.dir \in Dirs
       => Record \in Records /\ Record # NoRecord /\ Record.dir = op.dir
<1>1. NoRecord \in Records /\ NoRecord.dir = NoDir /\ \A r \in Records : r # NoRecord => r.dir \in Dirs
  BY DEF Records, NoRecord
<1>2. ASSUME TypeOK, op.version \in Versions, op.dir \in Dirs
      PROVE  Record \in Records /\ Record # NoRecord /\ Record.dir = op.dir
  <2>1. Digest(op.version) \in {"asset", "lock", "none"} \X (Versions \cup {"none"})
    BY <1>2 DEF Digest, TypeOK, Kinds
  <2>2. Record.version # "none"  BY <1>2, InstallOK DEF Record
  <2> QED BY <1>2, <2>1, <2>2 DEF Record, Records, NoRecord
<1> QED BY <1>1, <1>2

\* A call that goes on or gives up keeps its version, its directory and what it had.
LEMMA OpFields ==
  ASSUME op \in OpType
  PROVE  /\ \A pc \in Steps : Goto(pc) =>
              /\ op'.pc = pc /\ op'.version = op.version /\ op'.dir = op.dir /\ op'.had = op.had /\ op'.ok = op.ok
              /\ op' \in OpType
         /\ Fails => /\ op'.pc = "done" /\ op'.version = op.version /\ op'.dir = op.dir /\ op'.had = op.had
                     /\ op' \in OpType
BY DEF OpType, Goto, Fails, Steps

\* A removal that fails leaves something that a directory can hold.
LEMMA RemainsFacts ==
  ASSUME NEW d \in Dirs, disk \in [Dirs -> Content]
  PROVE  Remains(d) \subseteq Content /\ (disk[d] = "none" => Remains(d) = {"none"})
BY DEF Remains, Content

LEMMA IdleFacts ==
  Idle \in OpType /\ \A pc \in Steps : [Idle EXCEPT !.pc = pc] \in OpType /\ [Idle EXCEPT !.pc = pc, !.ok = TRUE] \in OpType
BY DEF Idle, OpType, Steps

LEMMA TypeStep == ASSUME TypeOK, Calling, [Next]_vars PROVE TypeOK'
<1>0. /\ kind \in Kinds /\ accel \in Accels /\ state \in StateType /\ disk \in [Dirs -> Content]
      /\ op \in OpType /\ issued \in 0..MaxOps /\ up \in BOOLEAN /\ left \subseteq Dirs /\ torn \subseteq Dirs /\ cut \in BOOLEAN
      /\ MaxOps \in Nat
  BY TypeParts, InstallOK
<1>1. op' \in OpType
  <2>1. ASSUME NEW v \in Versions, NEW upgrade \in BOOLEAN, NEW force \in BOOLEAN, InstallCall(v, upgrade, force)
        PROVE  op' \in OpType
    <3>1. Begin(FirstStep, v) => op' \in OpType
      <4>1. FirstStep \in Steps  BY <1>0 DEF FirstStep, Kinds, Steps
      <4>2. Probe(state.active.dir) \in BOOLEAN  BY DEF Probe
      <4>3. Dir(v) \in Dirs  BY DirFacts
      <4> QED BY <4>1, <4>2, <4>3 DEF Begin, OpType
    <3> QED BY <2>1, <3>1, IdleFacts DEF InstallCall, Steps
  <2>2. CASE RollbackCall  BY <2>2, IdleFacts DEF RollbackCall, Steps
  <2>3. CASE Fetch \/ ProbeStaged \/ RemoveOld \/ Rename
    BY <1>0, <2>3, OpFields DEF Fetch, ProbeStaged, RemoveOld, Rename, Steps
  <2>4. CASE Clone \/ Environment \/ Pip \/ ProbeInPlace \/ Retire
    BY <1>0, <2>4, OpFields DEF Clone, Environment, Pip, ProbeInPlace, Retire, Steps
  <2>5. CASE WriteRecord \/ Swap
    <3>1. [op EXCEPT !.pc = "done", !.ok = TRUE] \in OpType  BY <1>0 DEF OpType, Steps
    <3> QED BY <1>0, <2>5, <3>1, OpFields DEF WriteRecord, Swap, WriteState
  <2>6. CASE Return \/ Crash  BY <2>6, IdleFacts DEF Return, Crash
  <2>7. CASE UNCHANGED op  BY <1>0, <2>7
  <2> QED BY <2>1, <2>2, <2>3, <2>4, <2>5, <2>6, <2>7 DEF Next, Step, vars, Restart, HostChanges
<1>2. disk' \in [Dirs -> Content]
  <2>1. ASSUME NEW d \in Dirs, NEW s \in Content, disk' = [disk EXCEPT ![d] = s] PROVE disk' \in [Dirs -> Content]
    BY <1>0, <2>1
  <2>2. CASE RemoveOld \/ Rename
    <3>1. op.dir \in Dirs  BY <2>2 DEF RemoveOld, Rename, At, Calling, Working, Archive
    <3>2. Remains(op.dir) \subseteq Content  BY <1>0, <3>1, RemainsFacts
    <3> QED BY <1>0, <2>1, <2>2, <3>1, <3>2 DEF RemoveOld, Rename, Content
  <2>3. CASE Clone \/ Environment \/ Pip
    <3>1. op.dir \in Dirs  BY <2>3 DEF Clone, Environment, Pip, At, Calling, Working, Build
    <3>2. disk[op.dir] \in Content  BY <1>0, <3>1
    <3> QED BY <1>0, <2>1, <2>3, <3>1, <3>2 DEF Clone, Environment, Pip, Content
  <2>4. CASE Retire
    <3>1. Retires(op.dir) => state.previous.dir \in Dirs  BY <1>0, RecordFacts DEF Retires, StateType
    <3>2. Retires(op.dir) => Remains(state.previous.dir) \subseteq Content  BY <1>0, <3>1, RemainsFacts
    <3> QED BY <1>0, <2>1, <2>4, <3>1, <3>2 DEF Retire, Content
  <2>5. CASE UNCHANGED disk  BY <1>0, <2>5
  <2>6. CASE Crash
    <3>1. Removing \subseteq Dirs
      BY <1>0, RecordFacts DEF Removing, Retires, StateType, At, Calling, Working, Archive
    <3>2. \A d \in Removing : Remains(d) \subseteq Content  BY <1>0, <3>1, RemainsFacts
    <3> QED BY <1>0, <2>1, <2>6, <3>1, <3>2 DEF Crash
  <2> QED BY <2>2, <2>3, <2>4, <2>5, <2>6 DEF Next, Step, vars, InstallCall, RollbackCall, Fetch, ProbeStaged, ProbeInPlace,
             WriteRecord, Swap, Return, Restart, HostChanges
<1>3. state' \in StateType
  <2>1. CASE WriteRecord
    <3>1. Record \in Records  BY <2>1, RecordFacts DEF WriteRecord, At, Calling, Working
    <3> QED BY <1>0, <2>1, <3>1 DEF WriteRecord, WriteState, StateType
  <2>2. CASE Swap  BY <1>0, <2>2 DEF Swap, WriteState, StateType
  <2>3. CASE UNCHANGED state  BY <1>0, <2>3
  <2> QED BY <2>1, <2>2, <2>3 DEF Next, Step, vars, InstallCall, RollbackCall, Fetch, ProbeStaged, RemoveOld, Rename,
             Clone, Environment, Pip, ProbeInPlace, Retire, Return, Crash, Restart, HostChanges
<1>4. left' \subseteq Dirs /\ torn' \subseteq Dirs /\ cut' \in BOOLEAN
  <2>1. CASE Clone \/ Environment \/ Pip \/ ProbeInPlace
    <3>1. op.dir \in Dirs  BY <2>1 DEF Clone, Environment, Pip, ProbeInPlace, At, Calling, Working, Build
    <3> QED BY <1>0, <2>1, <3>1 DEF Clone, Environment, Pip, ProbeInPlace, Leaves
  <2>2. CASE WriteRecord \/ Swap \/ Crash
    <3>1. op.dir \in Dirs \cup {NoDir}  BY <1>0 DEF OpType
    <3>2. op.pc \in {"remove", "rename"} => op.dir \in Dirs  BY DEF Calling, Working, Archive
    <3> QED BY <1>0, <2>2, <3>1, <3>2 DEF WriteRecord, Swap, WriteState, Crash
  <2>3. CASE UNCHANGED <<left, torn, cut>>  BY <1>0, <2>3
  <2>4. CASE RemoveOld \/ Rename \/ Retire
    <3>1. RemoveOld \/ Rename => op.dir \in Dirs  BY DEF RemoveOld, Rename, At, Calling, Working, Archive
    <3>2. Retires(op.dir) => state.previous.dir \in Dirs  BY <1>0, RecordFacts DEF Retires, StateType
    <3> QED BY <1>0, <2>4, <3>1, <3>2 DEF RemoveOld, Rename, Retire, Leaves
  <2> QED BY <2>1, <2>2, <2>3, <2>4 DEF Next, Step, vars, InstallCall, RollbackCall, Fetch, ProbeStaged,
             Return, Restart, HostChanges
<1> DEFINE Rest == kind' \in Kinds /\ accel' \in Accels /\ issued' \in 0..MaxOps /\ up' \in BOOLEAN
<1>5. Rest
  <2>1. ASSUME NEW v \in Versions, NEW upgrade \in BOOLEAN, NEW force \in BOOLEAN, InstallCall(v, upgrade, force)
        PROVE  issued' \in 0..MaxOps /\ UNCHANGED <<kind, accel, up>>
    BY <1>0, <2>1 DEF InstallCall
  <2>2. CASE RollbackCall  BY <1>0, <2>2 DEF RollbackCall
  <2>3. CASE Crash \/ Restart  BY <1>0, <2>3 DEF Crash, Restart
  <2>4. ASSUME NEW a \in Accels, HostChanges(a) PROVE Rest  BY <1>0, <2>4 DEF HostChanges
  <2>5. CASE Step \/ UNCHANGED vars
    <3>1. UNCHANGED <<kind, accel, issued, up>>
      BY <2>5 DEF Step, vars, Fetch, ProbeStaged, RemoveOld, Rename, Clone, Environment, Pip, ProbeInPlace, Retire,
                  WriteRecord, Swap, Return
    <3> QED BY <1>0, <3>1
  <2> QED BY <1>0, <2>1, <2>2, <2>3, <2>4, <2>5 DEF Next
<1>6. TypeOK' <=> /\ kind' \in Kinds /\ accel' \in Accels /\ state' \in StateType /\ disk' \in [Dirs -> Content]
                  /\ op' \in OpType /\ issued' \in 0..MaxOps /\ up' \in BOOLEAN /\ left' \subseteq Dirs /\ torn' \subseteq Dirs /\ cut' \in BOOLEAN
  BY DEF TypeOK, StateType, Content, OpType, Steps
<1> QED BY <1>1, <1>2, <1>3, <1>4, <1>5, <1>6
-----------------------------------------------------------------------------
(* The invariant, action by action                                          *)

\* A step that touches neither the disk nor the records.
LEMMA Untouched ==
  ASSUME IInv, UNCHANGED <<state, disk>>
  PROVE  \A d : (Probe(d)' <=> Probe(d)) /\ (Exists(d)' <=> Exists(d))
BY DEF Probe, Exists

LEMMA InvStep == ASSUME IInv, [Next]_vars PROVE IInv'
<1>0. TypeOK'  BY TypeStep DEF IInv
<1>a. /\ kind \in Kinds /\ state \in StateType /\ disk \in [Dirs -> Content] /\ op \in OpType /\ left \subseteq Dirs
      /\ torn \subseteq Dirs /\ state.active \in Records /\ state.previous \in Records /\ NoDir \notin Dirs /\ TypeOK /\ cut \in BOOLEAN
  BY TypeParts, DirFacts DEF IInv, StateType
<1>b. Calling /\ Tried /\ HadStays /\ ActiveThere /\ PreviousThere /\ Owned  BY DEF IInv
<1>c. \A r \in Records : (r # NoRecord => r.dir \in Dirs) /\ (r = NoRecord => r.dir = NoDir)  BY RecordFacts
<1>d. op.pc \in Working => op.version \in Versions /\ op.dir \in Dirs  BY <1>b DEF Calling
<1> DEFINE Keeps == Calling' /\ Tried' /\ HadStays' /\ ActiveThere' /\ PreviousThere' /\ Owned'
<1> USE DEF At, Working, Archive, Build
<1>1. ASSUME NEW v \in Versions, NEW upgrade \in BOOLEAN, NEW force \in BOOLEAN, InstallCall(v, upgrade, force)
      PROVE  Keeps
  <2>1. op = Idle /\ UNCHANGED <<kind, accel, state, disk, up, left, torn, cut>>  BY <1>1, <1>b DEF InstallCall, Calling
  <2>2. CASE op' \in {[Idle EXCEPT !.pc = "done"], [Idle EXCEPT !.pc = "done", !.ok = TRUE]}
    <3>1. op'.pc = "done" /\ ~op'.had  BY <2>2 DEF Idle
    <3> QED BY <1>b, <2>1, <3>1, Untouched
            DEF Calling, Tried, HadStays, ActiveThere, PreviousThere, Owned, Idle
  <2>3. CASE Begin(FirstStep, v)
    <3>1. op'.pc = FirstStep /\ op'.version = v /\ op'.dir = Dir(v) /\ op'.had = Probe(state.active.dir) /\ Dir(v) \in Dirs
      BY <1>a, <2>3, DirFacts DEF Begin
    <3>2. \/ kind = "archive" /\ FirstStep = "fetch"
          \/ kind # "archive" /\ FirstStep \in {"env", "clone"}
      BY <1>a DEF Kinds, FirstStep
    <3> QED BY <1>b, <2>1, <3>1, <3>2, Untouched
            DEF Calling, Tried, HadStays, ActiveThere, PreviousThere, Owned, Idle
  <2> QED BY <1>1, <2>2, <2>3 DEF InstallCall
<1>2. ASSUME RollbackCall PROVE Keeps
  <2>1. op = Idle /\ UNCHANGED <<kind, state, disk, left, torn, cut>>  BY <1>2, <1>b DEF RollbackCall, Calling
  <2>2. /\ ~op'.had /\ op'.dir = NoDir /\ op'.pc \in {"done", "swap"}
        /\ op'.pc = "swap" => state.previous # NoRecord /\ Probe(state.previous.dir)
    BY <1>2 DEF RollbackCall, Idle
  <2> QED BY <1>b, <2>1, <2>2, Untouched DEF Calling, Tried, HadStays, ActiveThere, PreviousThere, Owned, Idle
<1>3. ASSUME Fetch \/ ProbeStaged PROVE Keeps
  <2>1. /\ UNCHANGED <<kind, state, disk, left, torn, cut>> /\ op.pc \in {"fetch", "probe"}
        /\ op'.pc \in {"probe", "remove", "done"} /\ op'.version = op.version /\ op'.dir = op.dir /\ op'.had = op.had
        /\ op'.pc = "remove" => Releases[op.version].runs
    BY <1>3, <1>a, OpFields DEF Fetch, ProbeStaged, Steps
  <2> QED BY <1>b, <2>1, Untouched DEF Calling, Tried, HadStays, ActiveThere, PreviousThere, Owned
<1>4. ASSUME RemoveOld PROVE Keeps
  <2>1. /\ UNCHANGED <<kind, state, cut>> /\ op.pc = "remove" /\ op.dir \in Dirs
        /\ op'.version = op.version /\ op'.dir = op.dir /\ op'.had = op.had
        /\ \/ disk'[op.dir] = "none" /\ op'.pc = "rename" /\ left' = left /\ torn' = torn
           \/ op'.pc = "done" /\ left' = left \cup {op.dir} /\ torn' = torn \cup {op.dir}
    <3>1. op.dir \in Dirs  BY <1>4, <1>d DEF RemoveOld
    <3> QED BY <1>4, <1>a, <3>1, OpFields DEF RemoveOld, Leaves, Steps
  <2>2. \A d \in Dirs \ {op.dir} : disk'[d] = disk[d]  BY <1>4, <1>a DEF RemoveOld
  <2>3. \A d : d # op.dir => (Probe(d)' <=> Probe(d)) /\ (Exists(d)' <=> Exists(d))  BY <2>2 DEF Probe, Exists
  <2>4. Calling' /\ Tried'  BY <1>b, <2>1 DEF Calling, Tried
  <2>5. HadStays' /\ ActiveThere'  BY <1>b, <2>1, <2>3 DEF HadStays, ActiveThere
  <2>6. PreviousThere'  BY <1>a, <1>b, <1>c, <2>1, <2>2 DEF PreviousThere
  <2>7. Owned'  BY <1>b, <2>1, <2>2 DEF Owned
  <2> QED BY <2>4, <2>5, <2>6, <2>7
<1>5. ASSUME Rename PROVE Keeps
  <2>1. /\ UNCHANGED <<kind, state, cut>> /\ op.pc = "rename" /\ op.dir \in Dirs
        /\ op'.version = op.version /\ op'.dir = op.dir /\ op'.had = op.had
        /\ \/ disk'[op.dir] = "ready" /\ op'.pc = "retire" /\ left' = left /\ torn' = torn \ {op.dir}
           \/ /\ disk' = disk /\ op'.pc = "done" /\ left' = left \cup {op.dir}
              /\ torn' = torn \cup {op.dir}
    <3>1. op.dir \in Dirs  BY <1>5, <1>d DEF Rename
    <3> QED BY <1>5, <1>a, <1>b, <3>1, OpFields DEF Rename, Leaves, Steps, Tried
  <2>2. \A d \in Dirs \ {op.dir} : disk'[d] = disk[d]  BY <1>5, <1>a DEF Rename
  <2>3. /\ \A d : d # op.dir => (Probe(d)' <=> Probe(d)) /\ (Exists(d)' <=> Exists(d))
        /\ op'.pc = "retire" => Probe(op.dir)' /\ Exists(op.dir)'
    BY <2>1, <2>2 DEF Probe, Exists
  <2>4. Calling' /\ Tried'  BY <1>b, <2>1, <2>3 DEF Calling, Tried
  <2>5. HadStays' /\ ActiveThere'  BY <1>b, <2>1, <2>3 DEF HadStays, ActiveThere
  <2>6. PreviousThere'  BY <1>a, <1>b, <1>c, <2>1, <2>2 DEF PreviousThere
  <2>7. Owned'  BY <1>b, <2>1, <2>2 DEF Owned
  <2> QED BY <2>4, <2>5, <2>6, <2>7
<1>6. ASSUME Clone \/ Environment \/ Pip PROVE Keeps
  <2>1. /\ UNCHANGED <<kind, state, torn, cut>> /\ op.pc \in {"clone", "env", "pip"} /\ op.dir \in Dirs /\ kind # "archive"
        /\ op'.pc \in {"env", "pip", "verify", "done"} /\ op'.version = op.version /\ op'.dir = op.dir /\ op'.had = op.had
        /\ op'.pc = "done" => left' = left \cup {op.dir}
        /\ op'.pc # "done" => left' = left
    <3>1. op.pc \in {"clone", "env", "pip"} => op.dir \in Dirs /\ kind # "archive"  BY <1>b DEF Calling
    <3> QED BY <1>6, <1>a, <3>1, OpFields DEF Clone, Environment, Pip, Leaves, Steps
  <2>2. \E s \in Content : disk' = [disk EXCEPT ![op.dir] = s] /\ (s = "none" => disk[op.dir] = "none")
                           /\ (Exists(op.dir) => s \in {"python", "ready"})
    <3>1. disk[op.dir] \in Content /\ disk = [disk EXCEPT ![op.dir] = disk[op.dir]]  BY <1>a, <2>1
    <3>2. CASE Clone  BY <3>1, <3>2 DEF Clone, Content, Exists
    <3>3. CASE Environment
      <4>1. CASE disk' = disk  BY <3>1, <4>1 DEF Exists
      <4>2. CASE disk' = [disk EXCEPT ![op.dir] = "python"]  BY <4>2 DEF Content
      <4> QED BY <3>3, <4>1, <4>2 DEF Environment
    <3>4. CASE Pip
      <4>1. CASE disk' \in {[disk EXCEPT ![op.dir] = "python"], [disk EXCEPT ![op.dir] = "ready"]}  BY <4>1 DEF Content
      <4>2. CASE disk' = [disk EXCEPT ![op.dir] = disk[op.dir]]  BY <3>1, <4>2 DEF Exists
      <4> QED BY <3>4, <4>1, <4>2 DEF Pip
    <3> QED BY <1>6, <3>2, <3>3, <3>4
  <2>3. /\ disk'[op.dir] = "none" => disk[op.dir] = "none"
        /\ Exists(op.dir) => Exists(op.dir)'
        /\ \A d \in Dirs \ {op.dir} : disk'[d] = disk[d]
    <3>1. PICK s \in Content : /\ disk' = [disk EXCEPT ![op.dir] = s] /\ (s = "none" => disk[op.dir] = "none")
                               /\ (Exists(op.dir) => s \in {"python", "ready"})
      BY <2>2
    <3> QED BY <1>a, <2>1, <3>1 DEF Exists
  <2>4. \A d : d # op.dir => (Probe(d)' <=> Probe(d)) /\ (Exists(d)' <=> Exists(d))  BY <2>3 DEF Probe, Exists
  <2>5. Calling' /\ Tried'  BY <1>b, <2>1 DEF Calling, Tried
  <2>6. HadStays'  BY <1>b, <2>1, <2>4 DEF HadStays
  <2>7. ActiveThere'  BY <1>b, <2>1, <2>3, <2>4 DEF ActiveThere
  <2>8. PreviousThere'  BY <1>a, <1>b, <1>c, <2>1, <2>3 DEF PreviousThere
  <2>9. Owned'  BY <1>b, <2>1, <2>3 DEF Owned
  <2> QED BY <2>5, <2>6, <2>7, <2>8, <2>9
<1>7. ASSUME ProbeInPlace PROVE Keeps
  <2>1. /\ UNCHANGED <<kind, state, disk, torn, cut>> /\ op.pc = "verify"
        /\ op'.pc \in {"retire", "done"} /\ op'.version = op.version /\ op'.dir = op.dir /\ op'.had = op.had
        /\ op'.pc = "retire" => Probe(op.dir) /\ left' = left
        /\ op'.pc = "done" => left' = left \cup {op.dir}
    BY <1>7, <1>a, OpFields DEF ProbeInPlace, Leaves, Steps
  <2>2. Calling' /\ Tried'  BY <1>b, <2>1, Untouched DEF Calling, Tried
  <2>3. HadStays' /\ ActiveThere' /\ PreviousThere' /\ Owned'
    BY <1>b, <2>1, Untouched DEF HadStays, ActiveThere, PreviousThere, Owned
  <2> QED BY <2>2, <2>3
<1>8. ASSUME Retire PROVE Keeps
  <2>1. /\ UNCHANGED <<kind, state, torn, cut>> /\ op.pc = "retire" /\ op.dir \in Dirs
        /\ op'.pc = "write" /\ op'.version = op.version /\ op'.dir = op.dir /\ op'.had = op.had
    BY <1>8, <1>a, <1>d, OpFields DEF Retire, Steps
  <2>2. CASE ~Retires(op.dir)
    <3>1. disk' = disk /\ left' = left  BY <1>8, <2>2 DEF Retire
    <3>2. \A d \in Dirs : d = state.previous.dir => d \in {op.dir, state.active.dir}
      BY <1>a, <1>c, <2>2 DEF Retires
    <3>3. Calling' /\ Tried' /\ HadStays' /\ ActiveThere' /\ PreviousThere'
      BY <1>b, <2>1, <3>1, Untouched DEF Calling, Tried, HadStays, ActiveThere, PreviousThere
    <3>4. Owned'  BY <1>b, <2>1, <3>1, <3>2 DEF Owned
    <3> QED BY <3>3, <3>4
  <2>3. CASE Retires(op.dir)
    <3>1. /\ state.previous.dir \in Dirs /\ state.previous.dir \notin {op.dir, state.active.dir}
          /\ \A d \in Dirs : d # state.previous.dir => disk'[d] = disk[d]
          /\ \/ disk'[state.previous.dir] = "none" /\ left' = left
             \/ left' = left \cup {state.previous.dir}
      <4>1. state.previous.dir \in Dirs /\ state.previous.dir \notin {op.dir, state.active.dir}
        BY <1>c, <1>a, <2>3 DEF Retires
      <4> QED BY <1>8, <1>a, <2>3, <4>1 DEF Retire, Leaves
    <3>2. \A d : d # state.previous.dir => (Probe(d)' <=> Probe(d)) /\ (Exists(d)' <=> Exists(d))
      BY <3>1 DEF Probe, Exists
    <3>3. Calling' /\ Tried'  BY <1>b, <2>1, <3>1, <3>2 DEF Calling, Tried
    <3>4. HadStays' /\ ActiveThere' /\ PreviousThere'
      BY <1>b, <2>1, <3>1, <3>2 DEF HadStays, ActiveThere, PreviousThere
    <3>5. Owned'  BY <1>b, <2>1, <3>1 DEF Owned
    <3> QED BY <3>3, <3>4, <3>5
  <2> QED BY <2>2, <2>3
<1>9. ASSUME WriteRecord \/ Swap PROVE Keeps
  <2>1. /\ UNCHANGED <<kind, disk, torn>> /\ op'.pc = "done" /\ op'.dir = op.dir /\ op'.had = op.had
        /\ \/ left' = left /\ cut' = cut /\ state' # state
           \/ left' = left /\ cut' = cut
           \/ left' = left \cup {d \in {op.dir} : d # NoDir} /\ cut'
    BY <1>9, <1>a, OpFields DEF WriteRecord, Swap, WriteState, OpType
  <2>2. Calling' /\ Tried'  BY <2>1 DEF Calling, Tried
  <2>3. CASE WriteRecord
    <3>1. op.pc = "write" /\ op.dir \in Dirs /\ Record \in Records /\ Record.dir = op.dir /\ Probe(op.dir)
      BY <1>a, <1>b, <1>d, <2>3, RecordFacts DEF WriteRecord, Tried
    <3>2. \/ state' = [active |-> Record, previous |-> state.active]
          \/ cut' /\ state' = state /\ left' = left \cup {op.dir}
      BY <1>a, <2>3, <3>1 DEF WriteRecord, WriteState
    <3>3. Probe(op.dir)' /\ Exists(op.dir)'  BY <2>1, <3>1 DEF Probe, Exists
    <3>4. CASE state' = [active |-> Record, previous |-> state.active]
      <4>1. state'.active.dir = op.dir /\ state'.previous = state.active  BY <3>1, <3>4
      <4>2. HadStays' /\ ActiveThere'  BY <2>1, <3>1, <3>3, <4>1 DEF HadStays, ActiveThere, Probe, Exists
      <4>3. PreviousThere'  BY <1>a, <1>b, <2>1, <3>1, <4>1 DEF PreviousThere, ActiveThere, Exists
      <4>4. Owned'  BY <1>b, <2>1, <3>1, <4>1 DEF Owned
      <4> QED BY <2>2, <4>2, <4>3, <4>4
    <3>5. CASE cut' /\ state' = state /\ left' = left \cup {op.dir}
      <4>1. HadStays' /\ ActiveThere' /\ PreviousThere'
        BY <1>b, <2>1, <3>1, <3>5 DEF HadStays, ActiveThere, PreviousThere, Probe, Exists
      <4>2. Owned'  BY <1>b, <2>1, <3>1, <3>5 DEF Owned
      <4> QED BY <2>2, <4>1, <4>2
    <3> QED BY <3>2, <3>4, <3>5
  <2>4. CASE Swap
    <3>1. op.pc = "swap" /\ ~op.had /\ Probe(state.previous.dir)  BY <1>b, <2>4 DEF Swap, Calling, Tried
    <3>2. \/ state'.active = state.previous /\ state'.previous = state.active
          \/ cut' /\ state' = state
      BY <2>4 DEF Swap, WriteState
    <3>3. HadStays'  BY <2>1, <3>1 DEF HadStays
    <3>4. ActiveThere'  BY <1>b, <2>1, <3>1, <3>2 DEF ActiveThere, Probe, Exists
    <3>5. PreviousThere'  BY <1>a, <1>b, <2>1, <3>1, <3>2 DEF PreviousThere, ActiveThere, Exists
    <3>6. Owned'  BY <1>b, <2>1, <3>1, <3>2 DEF Owned
    <3> QED BY <2>2, <3>3, <3>4, <3>5, <3>6
  <2> QED BY <1>9, <2>3, <2>4
<1>10. ASSUME Return PROVE Keeps
  <2>1. op' = Idle /\ op.pc = "done" /\ UNCHANGED <<kind, state, disk, left, torn, cut>>  BY <1>10 DEF Return
  <2> QED BY <1>b, <2>1, Untouched DEF Calling, Tried, HadStays, ActiveThere, PreviousThere, Owned, Idle
<1>11. ASSUME Crash PROVE Keeps
  <2>1. /\ op' = Idle /\ UNCHANGED <<kind, state>> /\ left' = left \cup {d \in {op.dir} : d # NoDir}
        /\ torn' = torn \cup {d \in {op.dir} : op.pc \in {"remove", "rename"}}
        /\ cut' = (cut \/ At("write") \/ (At("retire") /\ Retires(op.dir)))
        /\ \/ disk' = disk
           \/ \E d \in Removing : \E s \in Remains(d) : disk' = [disk EXCEPT ![d] = s]
    BY <1>11 DEF Crash
  <2>2. Calling' /\ Tried' /\ HadStays'  BY <2>1 DEF Calling, Tried, HadStays, Idle
  <2>3. CASE disk' = disk
    <3>1. ActiveThere' /\ PreviousThere'  BY <1>b, <2>1, <2>3, Untouched DEF ActiveThere, PreviousThere, Idle
    <3>2. Owned'  BY <1>a, <1>b, <2>1, <2>3 DEF Owned, Idle
    <3> QED BY <2>2, <3>1, <3>2
  <2>4. ASSUME NEW d \in Removing, NEW s \in Remains(d), disk' = [disk EXCEPT ![d] = s]
        PROVE  Keeps
    <3>1. \/ op.pc = "remove" /\ d = op.dir /\ d \in Dirs /\ d \in torn' /\ d \in left'
          \/ /\ op.pc = "retire" /\ Retires(op.dir) /\ d = state.previous.dir /\ d \in Dirs
             /\ d # state.active.dir /\ cut'
      BY <1>a, <1>c, <1>d, <2>1, <2>4 DEF Removing, Retires
    <3>2. \A e \in Dirs : e # d => disk'[e] = disk[e]  BY <1>a, <2>4
    <3>3. \A e : e # d => (Probe(e)' <=> Probe(e)) /\ (Exists(e)' <=> Exists(e))  BY <3>2 DEF Probe, Exists
    <3>4. ActiveThere'  BY <1>b, <2>1, <3>1, <3>3 DEF ActiveThere, Idle
    <3>5. PreviousThere'  BY <1>a, <1>b, <1>c, <2>1, <3>1, <3>2 DEF PreviousThere, Idle
    <3>6. Owned'  BY <1>a, <1>b, <2>1, <3>1, <3>2 DEF Owned, Idle
    <3> QED BY <2>2, <3>4, <3>5, <3>6
  <2> QED BY <2>1, <2>3, <2>4
<1>12. ASSUME Restart \/ (\E a \in Accels : HostChanges(a)) \/ UNCHANGED vars PROVE Keeps
  <2>1. UNCHANGED <<kind, state, disk, op, left, torn, cut>>  BY <1>12 DEF Restart, HostChanges, vars
  <2> QED BY <1>b, <2>1, Untouched DEF Calling, Tried, HadStays, ActiveThere, PreviousThere, Owned
<1> QED BY <1>0, <1>1, <1>2, <1>3, <1>4, <1>5, <1>6, <1>7, <1>8, <1>9, <1>10, <1>11, <1>12 DEF Next, Step, IInv
-----------------------------------------------------------------------------
(* Theorems                                                                *)

LEMMA Invariance == Spec => []IInv
<1>1. Init => IInv
  <2> SUFFICES ASSUME Init PROVE IInv  OBVIOUS
  <2>1. TypeOK
    <3>1. state \in StateType /\ op \in OpType  BY RecordFacts, IdleFacts DEF Init, StateType
    <3>2. disk \in [Dirs -> Content]  BY DEF Init, Content
    <3>3. MaxOps \in Nat  BY InstallOK
    <3>4. kind \in Kinds /\ accel \in Accels /\ up \in BOOLEAN /\ left \subseteq Dirs /\ torn \subseteq Dirs /\ cut \in BOOLEAN  BY DEF Init
    <3>5. issued \in 0..MaxOps  BY <3>3 DEF Init
    <3> QED BY <3>1, <3>2, <3>4, <3>5, TypeParts
  <2>2. Calling /\ Tried /\ HadStays  BY DEF Init, Calling, Tried, HadStays, Idle, At, Archive, Build, Working
  <2>3. ActiveThere /\ PreviousThere /\ Owned  BY DEF Init, ActiveThere, PreviousThere, Owned
  <2> QED BY <2>1, <2>2, <2>3 DEF IInv
<1>2. IInv /\ [Next]_vars => IInv'  BY InvStep
<1> QED BY <1>1, <1>2, PTL DEF Spec

\* "A payload that cannot answer --version must never become the active install"
\* (install.go:131), for every backend and for the rollback too: the probe comes
\* before the record, and neither the retention nor a failed write in between
\* takes away what was probed.
THEOREM OnlyProbedIsRecorded == Spec => RecordedIsProbed
<1> DEFINE A == state' # state => Probe(state'.active.dir)
<1>1. ASSUME IInv, [Next]_vars, state' # state PROVE Probe(state'.active.dir)
  <2>1. op \in OpType /\ state \in StateType /\ TypeOK  BY <1>1, TypeParts DEF IInv
  <2>2. CASE WriteRecord
    <3>1. Probe(op.dir) /\ op.dir \in Dirs /\ op.version \in Versions
      BY <1>1, <2>2 DEF WriteRecord, At, IInv, Tried, Calling, Working
    <3>2. state'.active.dir = op.dir  BY <1>1, <2>1, <2>2, <3>1, RecordFacts DEF WriteRecord, WriteState
    <3> QED BY <3>1, <3>2
  <2>3. CASE Swap  BY <1>1, <2>1, <2>3 DEF Swap, WriteState, At, IInv, Tried
  <2> QED BY <1>1, <2>2, <2>3 DEF Next, Step, vars, InstallCall, RollbackCall, Fetch, ProbeStaged, RemoveOld, Rename,
             Clone, Environment, Pip, ProbeInPlace, Retire, Return, Crash, Restart, HostChanges
<1>2. IInv /\ [Next]_vars => [A]_vars  BY <1>1
<1> QED BY <1>2, Invariance, PTL DEF Spec, RecordedIsProbed

\* Retention keeps exactly the two recorded installs: between calls nothing else
\* is on disk but what unfinished calls left, and a rollback has its target.
THEOREM RetentionHolds == Spec => []RetentionIsExact
<1>1. IInv => RetentionIsExact
  BY DEF IInv, RetentionIsExact, Owned, PreviousThere, At
<1> QED BY <1>1, Invariance, PTL

\* A failed call leaves the active install working, and a start finds it, unless
\* the call was replacing or rebuilding that very directory.
THEOREM ActiveInstallSurvives == Spec => []ActiveSurvives
<1>1. IInv => ActiveSurvives
  <2> SUFFICES ASSUME IInv PROVE ActiveSurvives  OBVIOUS
  <2>1. At("done") /\ op.had /\ ~(op.dir = state.active.dir /\ (kind # "archive" \/ op.dir \in torn)) => Probe(state.active.dir)
    BY DEF IInv, HadStays, At
  <2>2. state.active # NoRecord /\ state.active.dir \notin torn /\ ~(At("rename") /\ op.dir = state.active.dir)
          => LaunchExecutable = state.active.dir
    BY DEF IInv, ActiveThere, LaunchExecutable, ActiveExecutable
  <2> QED BY <2>1, <2>2 DEF ActiveSurvives
<1> QED BY <1>1, Invariance, PTL

\* The state document, the directories and the call keep their shape.
THEOREM TypesHold == Spec => []TypeOK
<1>1. IInv => TypeOK  BY DEF IInv
<1> QED BY <1>1, Invariance, PTL
=============================================================================
