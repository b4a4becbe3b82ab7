----------------------------- MODULE Generated -----------------------------
(***************************************************************************)
(* llamacpp: models.ini, generated from the profiles; its baseline copy;   *)
(* and the three-way merge that carries manual edits of models.ini back    *)
(* into profile.yaml at the next start.  One daemon handler works on the   *)
(* files; a user edits models.ini and profile.yaml between its steps; a    *)
(* write may fail and the daemon may die between the two writes.           *)
(*                                                                         *)
(* A profile maps the keys its author wrote to values, a section of        *)
(* models.ini maps canonical keys to values; No is the absence of a key.   *)
(***************************************************************************)
EXTENDS Naturals, FiniteSets

CONSTANTS
  Names,     \* profiles
  RawKeys,   \* keys an author may write in engine_args, and "model"
  Canon,     \* [RawKeys -> RawKeys]: canonicalKey, aliases included
  Values,    \* values of engine arguments
  Sources,   \* model sources: paths and repositories
  Refs,      \* references within a source
  PathOf,    \* [Sources \X (Refs \cup {No}) -> Sources]: modelPath, the file they name together
  Scalar,    \* [Values -> Values]: scalarValue then scalarString
  No,        \* an absent key
  NoSection, \* a section the file does not have
  NoProfile, \* a name without a profile
  NoFile,    \* a file that is not there
  BadFile,   \* a file that is not grammatical
  MaxEdits,  \* bound on what users and clients do
  Faults     \* "write", "crash", "bad" (an ungrammatical models.ini)

Keys == {Canon[k] : k \in RawKeys}
Fields == RawKeys \cup {"reference"}

ASSUME GeneratedOK ==
  /\ "model" \in RawKeys /\ "reference" \notin RawKeys /\ Canon \in [RawKeys -> RawKeys] /\ Canon["model"] = "model"
  /\ \A k \in RawKeys : Canon[Canon[k]] = Canon[k]
  /\ PathOf \in [Sources \X (Refs \cup {No}) -> Sources] /\ Scalar \in [Values -> Values] /\ MaxEdits \in Nat
  /\ NoProfile \notin [Fields -> Values \cup Sources \cup Refs \cup {No}]

VARIABLES
  prof,   \* profile.yaml of each name
  ini,    \* models.ini: NoFile, BadFile, or its sections
  base,   \* models.ini.base
  gen,    \* what InferenceRig last put at models.ini
  hand,   \* the profiles whose section was edited since
  op,     \* the handler
  edits   \* edits and calls so far

vars == <<prof, ini, base, gen, hand, op, edits>>

Idle == [pc |-> "idle", adopt |-> [n \in Names |-> NoProfile], todo |-> {}, files |-> NoFile,
         seen |-> NoFile, was |-> NoFile, at |-> 0]
At(pc) == op.pc = pc
Goto(pc) == op' = [op EXCEPT !.pc = pc]
HasFile(f) == f \notin {NoFile, BadFile}
Edit == edits < MaxEdits /\ edits' = edits + 1

-----------------------------------------------------------------------------
(* Rendering                                                               *)

\* engineArgValues: two keys with one canonical form are refused, and so is a
\* profile without a model.
Accepts(p) ==
  /\ p["model"] # No
  /\ \A k, l \in RawKeys : k # l /\ Canon[k] = Canon[l] => p[k] = No \/ p[l] = No

\* profileSection: canonical keys, and the model as the path of the file that the source and
\* the reference name.
Section(p) ==
  [k \in Keys |->
     IF k = "model" THEN IF p[k] = No THEN No ELSE PathOf[<<p[k], p["reference"]>>]
     ELSE IF \E r \in RawKeys : Canon[r] = k /\ p[r] # No THEN p[CHOOSE r \in RawKeys : Canon[r] = k /\ p[r] # No] ELSE No]

\* renderModelsINI: one section for each profile.
Render == [n \in Names |-> IF prof[n] = NoProfile THEN NoSection ELSE Section(prof[n])]

\* ListDocuments: one profile that is not accepted fails the whole list.
ListOK == \A n \in Names : prof[n] # NoProfile => Accepts(prof[n])

-----------------------------------------------------------------------------
(* The merge                                                               *)

\* What a section that the baseline lacks has at a key.
Value(s, k) == IF s = NoSection THEN No ELSE s[k]

\* Mutant: only keys still in the file are walked, so a removed one comes back.
HandKeysPresent(b, e) == {k \in Keys : e[k] # Value(b, k) /\ e[k] # No}

\* The keys that the file and the baseline do not agree on.
HandKeys(b, e) == {k \in Keys : e[k] # Value(b, k)}

\* Those of them that the profile changed as well: the profile wins.
Clashes(b, e, w) == {k \in HandKeys(b, e) : w[k] # Value(b, k)}

\* Mutant: the file against the profile, without the baseline between them.
AdoptedTwoWay(b, e, w) == {k \in Keys : e[k] # w[k]}

Adopted(b, e, w) == HandKeys(b, e) \ Clashes(b, e, w)

\* adopt: the model goes to model.source, anything else to engine_args under its canonical
\* key; an author's alias of that key stays where it is, and so does the reference.
Adopt(p, e, keys) ==
  [r \in Fields |->
     IF r \notin keys THEN p[r] ELSE IF r = "model" \/ e[r] = No THEN e[r] ELSE Scalar[e[r]]]

\* importSections for one profile: the profile as it should become, or NoProfile.
Import(n) ==
  LET e == ini[n]
      w == Section(prof[n])
      keys == Adopted(base[n], e, w)
  IN IF prof[n] = NoProfile \/ e = NoSection THEN NoProfile
     ELSE IF e = w \/ keys = {} THEN NoProfile
     ELSE Adopt(prof[n], e, keys)

\* Merging into a section that the baseline does not have writes to a nil map.
Panics == \E n \in Names : prof[n] # NoProfile /\ ini[n] # NoSection /\ base[n] = NoSection
                           /\ ini[n] # Section(prof[n]) /\ \E k \in Keys : ini[n][k] # No

-----------------------------------------------------------------------------
(* Calls                                                                   *)

StartCall ==
  /\ At("idle") /\ op' = [Idle EXCEPT !.pc = "import"]
  /\ UNCHANGED <<prof, ini, base, gen, hand, edits>>

\* PutProfile and DeleteProfile, and the regeneration that follows.
PutCall(n, p) ==
  /\ At("idle") /\ Edit /\ Accepts(p)
  /\ prof' = [prof EXCEPT ![n] = p] /\ op' = [Idle EXCEPT !.pc = "render"]
  /\ UNCHANGED <<ini, base, gen, hand>>

DeleteCall(n) ==
  /\ At("idle") /\ Edit /\ prof[n] # NoProfile /\ Accepts(prof[n])
  /\ prof' = [prof EXCEPT ![n] = NoProfile] /\ op' = [Idle EXCEPT !.pc = "render"]
  /\ UNCHANGED <<ini, base, gen, hand>>

\* importGenerated: nothing to attribute, something it cannot read, or the merge.
ImportGenerated ==
  /\ At("import")
  /\ \/ /\ ~ListOK \/ ~HasFile(ini) \/ ~HasFile(base) \/ ini = base
        /\ Goto("render")
     \/ /\ ListOK /\ HasFile(ini) /\ HasFile(base) /\ ini # base /\ Panics
        /\ Goto("panic")
     \/ /\ ListOK /\ HasFile(ini) /\ HasFile(base) /\ ini # base /\ ~Panics
        /\ LET a == [n \in Names |-> Import(n)] IN
           op' = [op EXCEPT !.pc = "replace", !.adopt = a, !.todo = {n \in Names : a[n] # NoProfile},
                            !.seen = ini, !.was = prof, !.at = edits]
  /\ UNCHANGED <<prof, ini, base, gen, hand, edits>>

\* net/http recovers the handler; the start has failed.
Recovered ==
  /\ At("panic") /\ op' = Idle /\ UNCHANGED <<prof, ini, base, gen, hand, edits>>

\* One profile after another, in any order; one that the store refuses is skipped.
ReplaceOne(n) ==
  /\ At("replace") /\ n \in op.todo
  /\ op' = [op EXCEPT !.todo = @ \ {n}]
  /\ prof' = IF prof[n] # NoProfile /\ Accepts(op.adopt[n]) THEN [prof EXCEPT ![n] = op.adopt[n]] ELSE prof
  /\ UNCHANGED <<ini, base, gen, hand, edits>>

Replaced ==
  /\ At("replace") /\ op.todo = {} /\ Goto("render")
  /\ UNCHANGED <<prof, ini, base, gen, hand, edits>>

\* materialize: from all profiles as they are now.
Materialize ==
  /\ At("render")
  /\ op' = IF ListOK THEN [Idle EXCEPT !.pc = "ini", !.seen = op.seen, !.files = Render] ELSE Idle
  /\ UNCHANGED <<prof, ini, base, gen, hand, edits>>

\* writeMaterialization: models.ini ...
WriteIni ==
  /\ At("ini")
  /\ \/ ini' = op.files /\ gen' = op.files /\ hand' = {} /\ Goto("base")
     \/ /\ "write" \in Faults /\ op' = Idle
        /\ \/ UNCHANGED <<ini, gen, hand>>
           \/ ini' = op.files /\ gen' = op.files /\ hand' = {}
  /\ UNCHANGED <<prof, base, edits>>

\* ... and then its baseline.
WriteBase ==
  /\ At("base") /\ op' = Idle
  /\ base' = op.files \/ ("write" \in Faults /\ UNCHANGED base)
  /\ UNCHANGED <<prof, ini, gen, hand, edits>>

-----------------------------------------------------------------------------
(* The user and the daemon                                                 *)

EditIni(n, k, v) ==
  /\ HasFile(ini) /\ ini[n] # NoSection /\ ini[n][k] # v /\ Edit
  /\ ini' = [ini EXCEPT ![n][k] = v] /\ hand' = hand \cup {n}
  /\ UNCHANGED <<prof, base, gen, op>>

AddSection(n, s) ==
  /\ HasFile(ini) /\ ini[n] = NoSection /\ Edit
  /\ ini' = [ini EXCEPT ![n] = s] /\ hand' = hand \cup {n}
  /\ UNCHANGED <<prof, base, gen, op>>

SpoilIni ==
  /\ "bad" \in Faults /\ ini # BadFile /\ Edit /\ ini' = BadFile
  /\ UNCHANGED <<prof, base, gen, hand, op>>

EditProfile(n, p) ==
  /\ prof[n] # NoProfile /\ Edit
  /\ prof' = [prof EXCEPT ![n] = p]
  /\ UNCHANGED <<ini, base, gen, hand, op>>

Crash ==
  /\ "crash" \in Faults /\ ~At("idle") /\ op' = Idle
  /\ UNCHANGED <<prof, ini, base, gen, hand, edits>>

-----------------------------------------------------------------------------
Profiles == {p \in [Fields -> Values \cup Sources \cup Refs \cup {No}] :
               /\ p["model"] \in Sources \cup {No} /\ p["reference"] \in Refs \cup {No}
               /\ \A k \in RawKeys \ {"model"} : p[k] \in Values \cup {No}}

\* Profiles and sections are changed one key at a time.
Changed(p) == IF p = NoProfile THEN {q \in Profiles : \A k \in Fields \ {"model"} : q[k] = No}
              ELSE {[p EXCEPT ![k] = v] : k \in Fields, v \in Values \cup Sources \cup Refs \cup {No}} \cap (Profiles \ {p})
NewSections == {[k \in Keys |-> IF k = "model" THEN s ELSE No] : s \in Sources}

Init ==
  /\ prof \in [Names -> {NoProfile} \cup {p \in Profiles : Accepts(p)}]
  /\ ini = NoFile /\ base = NoFile /\ gen = NoFile /\ hand = {} /\ op = Idle /\ edits = 0

Handler ==
  \/ StartCall \/ ImportGenerated \/ Recovered \/ Replaced \/ Materialize \/ WriteIni \/ WriteBase
  \/ \E n \in Names : ReplaceOne(n) \/ DeleteCall(n)
  \/ \E n \in Names : \E p \in Changed(prof[n]) : PutCall(n, p)

User ==
  \/ \E n \in Names, k \in Keys, v \in Values \cup Sources \cup {No} : (k = "model" => v \notin Values) /\ (v \in Sources => k = "model") /\ EditIni(n, k, v)
  \/ \E n \in Names, s \in NewSections : AddSection(n, s)
  \/ \E n \in Names : \E p \in Changed(prof[n]) : EditProfile(n, p)
  \/ SpoilIni

Next == Handler \/ User \/ Crash

Spec == Init /\ [][Next]_vars

-----------------------------------------------------------------------------
(* Properties                                                              *)

\* The baseline is no record of models.ini: a write, or the daemon, failed in between.
Torn == base # gen

\* A profile that spells every key canonically.
Canonical(p) == \A r \in RawKeys : p[r] = No \/ Canon[r] = r

\* How a value that the file holds reads once it has gone through a profile.
Shown(p, k, v) == IF v = No THEN No ELSE IF k = "model" THEN PathOf[<<v, p["reference"]>>] ELSE Scalar[v]

\* The three-way merge: an edit of the file f alone since the baseline b shows, and where the
\* profile p moved too, or the file did not, the profile does.
Merge(b, f, p, k) ==
  IF f[k] # Value(b, k) /\ Section(p)[k] = Value(b, k) THEN Shown(p, k, f[k]) ELSE Section(p)[k]

\* import.go:25 "It is a three-way merge per profile section, between the baseline (what was
\* last generated), the file as it now stands, and what the current profiles would render":
\* what a start generates anew is, key for key, the merge of the file it found and the
\* profile over the baseline it found, whatever crashes and failed writes made of that one.
\* Only a profile written with aliases, and one whose section has lost its model, may keep
\* what it says at some keys: adopt writes the canonical key beside the alias, and the store
\* refuses a profile that has both, or no model.
EditsAreMerged ==
  [][At("render") /\ op'.pc = "ini" /\ op.seen # NoFile /\ op.at = edits
     => \A n \in Names, k \in Keys :
          op.was[n] # NoProfile /\ op.seen[n] # NoSection =>
            \/ op'.files[n][k] = Merge(base[n], op.seen[n], op.was[n], k)
            \/ /\ op'.files[n][k] = Section(op.was[n])[k]
               /\ ~Canonical(op.was[n]) \/ op.seen[n]["model"] = No]_vars

\* A start alters only profiles whose section was edited by hand since it was generated: a
\* crash between the two writes, or a failed one, puts no profile back to what it was.  (Not
\* so for a profile that was changed again after such a crash: the baseline is then older
\* than the file, and the two differ by nobody's edit.  TornIsNoEdit says it of all.)
UntouchedStays ==
  [][\A n \in Names :
       At("replace") /\ prof'[n] # prof[n] /\ edits' = edits
       => n \in hand \/ (Torn /\ Section(op.was[n]) # gen[n])]_vars

-----------------------------------------------------------------------------
(* Said by the code's comments or expected of it, and not so: see "Known   *)
(* disagreements" in README.md.  No run of the project checks these.       *)

\* models_ini.go:18 "Edits inside a profile's own section are imported back into that
\* profile's canonical YAML on the next materialization": nothing generated is written over
\* an edit that no import has looked at.
EditsAreSeen ==
  [][At("ini") /\ ini' # ini /\ HasFile(ini) => \A n \in hand : op.seen # NoFile /\ ini[n] = op.seen[n]]_vars

\* import.go:22 "someone edited the file, or the profiles moved on": a start takes nothing
\* from a section that nobody edited.
TornIsNoEdit == [][\A n \in Names : At("replace") /\ prof'[n] # prof[n] /\ edits' = edits => n \in hand]_vars

\* manager.go:569 "Nothing here can fail a start": an import never takes the
\* handler down.
ImportNeverPanics == ~At("panic")
=============================================================================
