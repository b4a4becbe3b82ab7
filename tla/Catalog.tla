------------------------------ MODULE Catalog ------------------------------
(***************************************************************************)
(* The model catalog.  A search answers from a cache of files, refreshes a *)
(* stale entry in the background and tells watchers; a listing adds what   *)
(* fits on this host.  Beside it the models themselves: GGUF files and MLX *)
(* snapshots, downloaded, deleted and copied by hand, the digests recorded *)
(* for them, and the cache of what a file's context needs in memory.       *)
(*                                                                         *)
(* The remote catalog has had a number of versions so far.                 *)
(***************************************************************************)
EXTENDS Naturals, Sequences, SequencesExt, FiniteSets

CONSTANTS
  Keys,       \* the search keys
  Listings,   \* what a search may answer: sequences of models with their variants' sizes
  Hosts,      \* what a host may report: [ram, nvidia, amd], the last two a sequence of cards
  Files,      \* the model files
  Contents,   \* what may be in one
  KVOf(_),    \* the memory a content's context needs
  Trees,      \* the versions of an MLX repository: a content for each file it has
  Weights, Unsafe,  \* those of their names that are weights, and that leave the directory
  Overhead,   \* the memory a runtime needs beside its model
  TTL,        \* the age an entry may reach
  Cap,        \* the events a watcher's channel holds
  MaxVersions, MaxClock, MaxWork, MaxFaults  \* bounds on the remote catalog's changes, on the
              \* clock, on calls, and on failures and restarts

ASSUME CatalogOK == /\ TTL \in Nat /\ Cap \in Nat \ {0} /\ MaxClock \in Nat /\ MaxWork \in Nat /\ MaxFaults \in Nat
                    /\ MaxVersions \in Nat \ {0}
                    /\ Len(Trees) \in Nat \ {0}
                    /\ \A v \in 1..Len(Trees) : Trees[v] = [n \in DOMAIN Trees[v] |-> Trees[v][n]]
\* A search answers a list of models, each with its kind, the sizes of its variants and the
\* number it may be sorted by (downloads, likes or the time of its last change).
ASSUME ListingsOK ==
  \A models \in Listings :
    /\ Len(models) \in Nat /\ models = [i \in 1..Len(models) |-> models[i]]
    /\ \A i \in DOMAIN models : LET m == models[i] IN
         /\ m = [id |-> m.id, mlx |-> m.mlx, sizes |-> m.sizes, score |-> m.score]
         /\ m.mlx \in BOOLEAN /\ m.sizes \in Seq(Nat) /\ m.score \in Nat

VARIABLES
  remote, clock,  \* how many versions there have been, and the time
  cache,          \* key -> [v, at]: the entry's version (0: none) and the time it was stored
  calls,          \* searches and refreshes under way
  busy,           \* the keys being refreshed
  watch, chan,    \* whether there is a watcher, and the events in its channel
  last,           \* the last search answered
  page,           \* the last listing made of an answer
  disk, stage,    \* file -> [c, m]: a content (0: none) and its time; the .part file's content
  side,           \* path -> the digest recorded beside it
  snap, local,    \* the snapshot being downloaded, and the one in place
  entries, gets,  \* the memory cache, and calls to it under way
  uses,           \* the part of the module a behaviour exercises
  mtime, rewound, \* file -> the newest time it has had; the files given a time they, or newer, had
  work, faults

catalogVars == <<remote, cache, calls, busy, watch, chan, last>>
fileVars == <<disk, stage, mtime, rewound>>
snapVars == <<snap, local, side>>
kvVars == <<entries, gets>>
vars == <<catalogVars, fileVars, snapVars, kvVars, page, uses, clock, work, faults>>

Works == work < MaxWork /\ work' = work + 1
Fault == faults < MaxFaults /\ faults' = faults + 1

-----------------------------------------------------------------------------
(* What fits                                                               *)

Unreadable == -1  \* a card whose memory cannot be parsed
NoTotal == -2     \* an entry of rocm-smi that is not a card

\* The memory of all cards together; nothing if one of them cannot be read.
Pooled(cards) ==
  LET sum[n \in 0..Len(cards)] == IF n = 0 THEN 0 ELSE sum[n - 1] + cards[n]
  IN  IF Unreadable \in ToSet(cards) THEN 0 ELSE sum[Len(cards)]
ProbeNVIDIA(h) == Pooled(h.nvidia)
ProbeAMD(h) == Pooled(SelectSeq(h.amd, LAMBDA c : c # NoTotal))
ProbeVRAM(h) == IF ProbeNVIDIA(h) > 0 THEN ProbeNVIDIA(h) ELSE ProbeAMD(h)

\* Only llama.cpp probes for cards; the memory of a unified device is the host's.
HostResources(k, h) == [ram |-> h.ram, vram |-> IF k = "llamacpp" THEN ProbeVRAM(h) ELSE 0]

LlamaCapacity(host) == IF host.vram > 0 THEN host.vram ELSE host.ram
StrataCapacity(host) == host.ram + host.vram
MLXCapacity(host) == host.ram
Capacity(k, h) ==
  LET host == HostResources(k, h)
  IN  CASE k = "llamacpp" -> LlamaCapacity(host)
        [] k = "strata" -> StrataCapacity(host)
        [] OTHER -> MLXCapacity(host)

RequiredBytes(size, kv) == IF size = 0 THEN 0 ELSE size + Overhead + kv

EstimateFit(required, available) ==
  IF required = 0 \/ available = 0 THEN "unknown"
  ELSE IF required <= (available * 9) \div 10 THEN "fits"
  ELSE IF required <= available THEN "marginal" ELSE "too_large"

FitRank(level) == CASE level = "fits" -> 3 [] level = "marginal" -> 2 [] level = "too_large" -> 1 [] OTHER -> 0

\* A listed variant names no context size, so none of its memory is counted.
VariantRank(k, h, size) == FitRank(EstimateFit(RequiredBytes(size, 0), Capacity(k, h)))

\* The first of the largest of some variants, 0 if there are none.
Largest(sizes, among) ==
  LET best[n \in 0..Len(sizes)] ==
        IF n = 0 THEN 0
        ELSE LET b == best[n - 1] IN IF n \in among /\ (b = 0 \/ sizes[n] > sizes[b]) THEN n ELSE b
  IN  best[Len(sizes)]
BestVariantFirst(k, h, sizes) == IF sizes = <<>> THEN 0 ELSE 1
BestVariant(k, h, sizes) ==
  LET best == Largest(sizes, {i \in DOMAIN sizes : VariantRank(k, h, sizes[i]) >= 2})
  IN  IF best # 0 THEN best ELSE Largest(sizes, DOMAIN sizes)
BestRank(k, h, model) == VariantRank(k, h, model.sizes[BestVariant(k, h, model.sizes)])

\* The members of a finite set in the order R, a set of pairs; and the models of a list
\* whose places are in such a set, in their order (a loop that appends those it keeps).
InOrder(S, R) == [n \in 1..Cardinality(S) |-> CHOOSE i \in S : Cardinality({j \in S : <<j, i>> \in R}) = n - 1]
Take(models, places) == [n \in DOMAIN places |-> models[places[n]]]
Keep(models, S) == Take(models, InOrder(S, {e \in S \X S : e[1] < e[2]}))

FilterByFit(k, h, models, min) ==
  IF min = 0 THEN models ELSE Keep(models, {i \in DOMAIN models : BestRank(k, h, models[i]) >= min})

\* The order is asked for: by fit, by a number of the models, or as the source gave them.
\* A stable sort, the best first: a model comes after those that are better and after its
\* equals that were before it.
SortKeys == {"given", "score", "fit"}
CatalogOrder(k, h, by, m) == IF by = "fit" THEN BestRank(k, h, m) ELSE m.score
SortCatalog(k, h, by, models) ==
  LET rank == [i \in DOMAIN models |-> CatalogOrder(k, h, by, models[i])]
      before == {e \in (DOMAIN models) \X (DOMAIN models) :
                   rank[e[1]] > rank[e[2]] \/ (rank[e[1]] = rank[e[2]] /\ e[1] < e[2])}
  IN  IF by = "given" THEN models ELSE Take(models, InOrder(DOMAIN models, before))

\* Each GGUF file is a variant; a complete snapshot is one of its whole size; Strata's setup
\* gets its own models.  A model without variants is left out.
GGUFVariants(m) == IF m.mlx THEN <<>> ELSE m.sizes
MLXVariants(m) == IF ~m.mlx \/ m.sizes = <<>> THEN <<>> ELSE <<Pooled(m.sizes)>>
Variants(k, m) ==
  [m EXCEPT !.sizes = CASE k = "llamacpp" -> GGUFVariants(m) [] k = "mlx" -> MLXVariants(m) [] OTHER -> <<>>]
Models(k, models) ==
  LET listing == [i \in DOMAIN models |-> Variants(k, models[i])]
  IN  Keep(listing, {i \in DOMAIN models : listing[i].sizes # <<>>})
Listed(k, h, models, min, by) == SortCatalog(k, h, by, FilterByFit(k, h, Models(k, models), min))

Page(k, h, models, min, by) ==
  [key |-> k, host |-> h, models |-> Models(k, models), min |-> min, by |-> by, listed |-> Listed(k, h, models, min, by)]

\* Each answer of the catalog is made a page for this host as it is now.
ListModelCatalog ==
  /\ Works
  /\ \E k \in {"llamacpp", "mlx", "strata"}, h \in Hosts, models \in Listings, min \in {0, 2, 3}, by \in SortKeys :
       page' = Page(k, h, models, min, by)
  /\ UNCHANGED <<catalogVars, fileVars, kvVars, clock, faults>>

-----------------------------------------------------------------------------
(* The client: Search and the refresh in the background                    *)

NoEntry == [v |-> 0, at |-> 0]
Call(kind, k, pc, refresh) ==
  [n |-> work, kind |-> kind, key |-> k, pc |-> pc, v |-> 0, asked |-> remote, refresh |-> refresh]

Answer(x, v) == last' = [key |-> x.key, v |-> v, asked |-> x.asked, refresh |-> x.refresh]

\* cache.load, unless the caller wants what is there now.
Loads(k, refresh) == cache[k].v > 0 /\ ~refresh

Search ==
  /\ Works
  /\ \E k \in Keys, refresh \in BOOLEAN :
       IF Loads(k, refresh)
       THEN /\ Answer(Call("read", k, "load", refresh), cache[k].v)
            /\ calls' = IF clock - cache[k].at > TTL THEN calls \cup {Call("refresh", k, "claim", FALSE)} ELSE calls
       ELSE calls' = calls \cup {Call("read", k, "fetch", refresh)} /\ last' = last
  /\ UNCHANGED <<remote, cache, busy, watch, chan, fileVars, kvVars, clock, faults>>

\* refreshing.LoadOrStore
LoadOrStore(x) ==
  IF x.key \in busy THEN calls' = calls \ {x} /\ busy' = busy
  ELSE calls' = (calls \ {x}) \cup {[x EXCEPT !.pc = "fetch"]} /\ busy' = busy \cup {x.key}
Claim(x) ==
  /\ x.pc = "claim" /\ LoadOrStore(x)
  /\ UNCHANGED <<remote, cache, watch, chan, last, fileVars, kvVars, clock, work, faults>>

\* fetch: the listing and then each model's files.
Fetch(x) ==
  /\ x.pc = "fetch" /\ calls' = (calls \ {x}) \cup {[x EXCEPT !.pc = "store", !.v = remote]}
  /\ UNCHANGED <<remote, cache, busy, watch, chan, last, fileVars, kvVars, clock, work, faults>>

\* fetchAndStore: what was fetched last is the entry, whoever fetched it.
Store(x) ==
  /\ x.pc = "store"
  /\ cache' = [cache EXCEPT ![x.key] = [v |-> x.v, at |-> clock]]
  /\ IF x.kind = "read" THEN Answer(x, x.v) /\ calls' = calls \ {x}
     ELSE last' = last /\ calls' = (calls \ {x}) \cup {[x EXCEPT !.pc = "publish"]}
  /\ UNCHANGED <<remote, busy, watch, chan, fileVars, kvVars, clock, work, faults>>

\* The fetch or the store fails: a read returns the error, a refresh publishes it.
SearchFails(x) ==
  /\ x.pc \in {"fetch", "store"} /\ Fault
  /\ calls' = IF x.kind = "read" THEN calls \ {x} ELSE (calls \ {x}) \cup {[x EXCEPT !.pc = "publish", !.v = 0]}
  /\ UNCHANGED <<remote, cache, busy, watch, chan, last, fileVars, kvVars, clock, work>>

\* A watcher whose channel is full misses the event.
Publish(x) ==
  /\ x.pc = "publish" /\ calls' = (calls \ {x}) \cup {[x EXCEPT !.pc = "release"]}
  /\ chan' = IF watch /\ Len(chan) < Cap THEN Append(chan, [key |-> x.key, ok |-> x.v > 0]) ELSE chan
  /\ UNCHANGED <<remote, cache, busy, watch, last, fileVars, kvVars, clock, work, faults>>

ReleaseIfStored(x) == IF x.v > 0 THEN busy \ {x.key} ELSE busy
ReleaseKey(x) == busy \ {x.key}
Release(x) ==
  /\ x.pc = "release" /\ calls' = calls \ {x} /\ busy' = ReleaseKey(x)
  /\ UNCHANGED <<remote, cache, watch, chan, last, fileVars, kvVars, clock, work, faults>>

Subscribe ==
  /\ ~watch /\ Works /\ watch' = TRUE
  /\ UNCHANGED <<remote, cache, calls, busy, chan, last, fileVars, kvVars, clock, faults>>
\* WatchModelCatalog sends on what the channel holds, until the watcher leaves.
WatchModelCatalog ==
  /\ watch
  /\ \/ chan # <<>> /\ chan' = Tail(chan) /\ watch' = TRUE
     \/ chan' = <<>> /\ watch' = FALSE
  /\ UNCHANGED <<remote, cache, calls, busy, last, fileVars, kvVars, clock, work, faults>>

RemoteChanges ==
  /\ remote < (IF uses = "snapshots" THEN Len(Trees) ELSE MaxVersions) /\ remote' = remote + 1
  /\ UNCHANGED <<cache, calls, busy, watch, chan, last, fileVars, kvVars, clock, work, faults>>
Tick ==
  /\ clock < MaxClock /\ clock' = clock + 1
  /\ UNCHANGED <<catalogVars, fileVars, kvVars, work, faults>>

-----------------------------------------------------------------------------
(* The model files                                                         *)

Gone == [c |-> 0, m |-> 0]

NoDigest == 0
RecordDigest(path, digest) == IF digest = NoDigest THEN side ELSE [side EXCEPT ![path] = digest]

\* A file gets a content and a time.  The time may be one it has had: a clock ticks coarsely,
\* a copy or a move keeps the time of its source, a rename that of the last write.
Stamp(f, c) ==
  \E m \in 1..mtime[f] + 1 :
    /\ disk' = [disk EXCEPT ![f] = [c |-> c, m |-> m]]
    /\ mtime' = [mtime EXCEPT ![f] = IF m > mtime[f] THEN m ELSE mtime[f]]
    /\ rewound' = rewound \cup {g \in {f} : m <= mtime[f]}

\* A GGUF file is asked for by its name; nothing says what its digest is.
ResolveGGUF(f) == [path |-> f, digest |-> NoDigest]
Download(f, c) ==
  /\ Works /\ stage[f] = 0
  /\ stage' = [stage EXCEPT ![f] = c] /\ side' = RecordDigest(ResolveGGUF(f).path, ResolveGGUF(f).digest)
  /\ UNCHANGED <<disk, mtime, rewound>>
Finalize(f) ==
  /\ stage[f] # 0 /\ Stamp(f, stage[f])
  /\ stage' = [stage EXCEPT ![f] = 0]
  /\ UNCHANGED <<side, work>>

\* Deleting a model leaves what was recorded beside it.
RemoveLocal(f) == disk' = [disk EXCEPT ![f] = Gone]
DeleteLocal(f) == Works /\ disk[f] # Gone /\ RemoveLocal(f) /\ UNCHANGED <<stage, side, mtime, rewound>>

\* Models are moved, copied and replaced with ordinary file tools.
Copy(f, c) == Works /\ Stamp(f, c) /\ UNCHANGED <<stage, side>>

FileStep ==
  /\ \E f \in Files : \/ \E c \in Contents : Download(f, c) \/ Copy(f, c)
                      \/ Finalize(f) \/ DeleteLocal(f)
  /\ UNCHANGED <<catalogVars, snap, local, kvVars, clock, faults>>

-----------------------------------------------------------------------------
(* MLX snapshots                                                           *)

Config == "config.json"
Main == 0  \* the default branch, which moves
Snapshot == "snapshot"
Names == UNION {DOMAIN Trees[v] : v \in DOMAIN Trees}
NoTree == [n \in {} |-> 0]
NoSnap == [pc |-> "none", names |-> {}, rev |-> Main, want |-> NoTree, got |-> NoTree]
Absent == [tree |-> NoTree, rev |-> Main]

HasBoth(names) == Config \in names /\ names \cap Weights # {}
ParseRepository(source) == source = "repository"

\* What the repository holds and, if it says, which commit that is.
FetchSiblings == [names |-> DOMAIN Trees[remote], digests |-> [n \in DOMAIN Trees[remote] \cap Weights |-> Trees[remote][n]]]
SnapshotArtifacts(siblings) == IF siblings.names \cap Unsafe = {} /\ HasBoth(siblings.names) THEN siblings.names ELSE {}
PinnedToMain(rev) == Main
PinnedRevision(rev) == rev

Plan(names, rev, want) == [pc |-> "fetch", names |-> names, rev |-> rev, want |-> want, got |-> NoTree]

\* A repository is planned whole, any other source as a single file.
Resolve ==
  /\ Works /\ snap = NoSnap /\ local = Absent
  /\ \E source \in {"repository", "file"}, sha \in {Main, remote} :
       LET siblings == FetchSiblings IN
       IF ParseRepository(source)
       THEN SnapshotArtifacts(siblings) # {} /\ snap' = Plan(SnapshotArtifacts(siblings), sha, siblings.digests)
       ELSE \E n \in siblings.names \ Unsafe : snap' = Plan({n}, Main, NoTree)
  /\ UNCHANGED <<local, side>>

With(tree, n, c) == [m \in DOMAIN tree \cup {n} |-> IF m = n THEN c ELSE tree[m]]

\* A file is fetched at the plan's revision; one that is gone or is not what the repository
\* said ends the download, and what was staged is removed.
FetchItem(n) ==
  LET rev == PinnedRevision(snap.rev)
      tree == Trees[IF rev = Main THEN remote ELSE rev]
      sound == n \in DOMAIN tree /\ (n \in DOMAIN snap.want => tree[n] = snap.want[n])
  IN  /\ n \in snap.names \ DOMAIN snap.got
      /\ snap' = IF sound THEN [snap EXCEPT !.got = With(@, n, tree[n])] ELSE NoSnap
      /\ UNCHANGED <<local, side, work>>

\* The staged directory and the digests beside its files come into place together.
FinishSnapshot ==
  /\ snap # NoSnap /\ DOMAIN snap.got = snap.names
  /\ local' = [tree |-> snap.got, rev |-> snap.rev] /\ snap' = NoSnap
  /\ side' = [p \in DOMAIN side |-> IF p \in DOMAIN snap.want THEN snap.want[p] ELSE side[p]]
  /\ UNCHANGED work
FetchFails == snap # NoSnap /\ snap' = NoSnap /\ UNCHANGED <<local, side, work>>
DeleteSnapshot ==
  /\ Works /\ local # Absent /\ local' = Absent /\ snap' = snap
  /\ side' = [p \in DOMAIN side |-> IF p \in Names THEN NoDigest ELSE side[p]]

\* A directory is listed once it is no longer staged and has all a model needs.
InspectDirectory(tree) == HasBoth(DOMAIN tree)
ListSnapshots == IF InspectDirectory(local.tree) THEN {Snapshot} ELSE {}

SnapshotStep ==
  /\ \/ Resolve \/ (\E n \in snap.names : FetchItem(n)) \/ FinishSnapshot \/ FetchFails \/ DeleteSnapshot
  /\ UNCHANGED <<catalogVars, fileVars, kvVars, clock, faults>>

-----------------------------------------------------------------------------
(* The doctor: what the storage holds, against what is recorded beside it   *)

ListLocal == {f \in Files : disk[f] # Gone} \cup ListSnapshots
ReadDigest(path) == side[path]
VerifyDigest(path) ==
  IF ReadDigest(path) = NoDigest THEN "unverifiable"
  ELSE IF path \in Files /\ ReadDigest(path) = disk[path].c THEN "verified" ELSE "corrupt"
ModelState == [verdict \in {"verified", "unverifiable", "corrupt"} |-> Cardinality({m \in ListLocal : VerifyDigest(m) = verdict})]

-----------------------------------------------------------------------------
(* The cache of what a file's context needs: ggufKVCache.get               *)

\* ctx-size, if the profile's arguments name a number.
ContextLen(args) == IF args \in {"number", "numeral"} THEN 1 ELSE 0

\* The file's time is read before the file.
Stat(f) ==
  /\ Works /\ disk[f] # Gone
  /\ gets' = gets \cup {[n |-> work, f |-> f, m |-> disk[f].m, pc |-> "lookup", kv |-> 0]}
  /\ entries' = entries
Lookup(x) ==
  /\ x.pc = "lookup" /\ work' = work /\ entries' = entries
  /\ gets' = IF entries[x.f].m = x.m THEN gets \ {x} ELSE (gets \ {x}) \cup {[x EXCEPT !.pc = "parse"]}
\* A file that is gone or cannot be parsed needs nothing.
EstimateKVBytes(f) == IF disk[f] = Gone THEN 0 ELSE KVOf(disk[f].c)
Parse(x) ==
  /\ x.pc = "parse" /\ work' = work /\ entries' = entries
  /\ gets' = (gets \ {x}) \cup {[x EXCEPT !.pc = "put", !.kv = EstimateKVBytes(x.f)]}
PutStatsNow(x) == [m |-> disk[x.f].m, kv |-> x.kv]
PutEntry(x) == [m |-> x.m, kv |-> x.kv]
Put(x) ==
  /\ x.pc = "put" /\ work' = work
  /\ gets' = gets \ {x} /\ entries' = [entries EXCEPT ![x.f] = PutEntry(x)]

KVStep ==
  /\ \/ \E f \in Files, args \in {"none", "number", "numeral", "text"} : ContextLen(args) > 0 /\ Stat(f)
     \/ (\E x \in gets : Lookup(x) \/ Parse(x) \/ Put(x))
  /\ UNCHANGED <<catalogVars, fileVars, clock, faults>>

\* The daemon ends and starts again: the files are what is left.
Restart ==
  /\ Fault /\ calls' = {} /\ busy' = {} /\ watch' = FALSE /\ chan' = <<>> /\ gets' = {}
  /\ entries' = [f \in Files |-> [m |-> 0, kv |-> 0]] /\ snap' = [snap EXCEPT !.got = NoTree]
  /\ UNCHANGED <<remote, cache, last, fileVars, local, side, clock, work>>

-----------------------------------------------------------------------------
Init ==
  /\ remote = 1 /\ clock = 0 /\ cache = [k \in Keys |-> NoEntry] /\ calls = {} /\ busy = {}
  /\ watch = FALSE /\ chan = <<>>
  /\ \E k \in Keys : last = [key |-> k, v |-> 0, asked |-> 0, refresh |-> FALSE]
  /\ page = [key |-> "none", host |-> "none", models |-> <<>>, min |-> 0, by |-> "given", listed |-> <<>>]
  /\ disk = [f \in Files |-> Gone] /\ stage = [f \in Files |-> 0]
  /\ side = [p \in Files \cup Names \cup {Snapshot} |-> NoDigest] /\ snap = NoSnap /\ local = Absent
  /\ entries = [f \in Files |-> [m |-> 0, kv |-> 0]] /\ gets = {}
  /\ uses \in {"catalog", "listing", "files", "snapshots"} /\ mtime = [f \in Files |-> 0]
  /\ rewound = {} /\ work = 0 /\ faults = 0

CatalogStep ==
  \/ Search \/ Subscribe \/ WatchModelCatalog \/ RemoteChanges \/ Tick
  \/ \E x \in calls : Claim(x) \/ Fetch(x) \/ Store(x) \/ SearchFails(x) \/ Publish(x) \/ Release(x)

Next ==
  /\ \/ uses = "catalog" /\ CatalogStep /\ UNCHANGED <<page, snapVars>>
     \/ uses = "listing" /\ work = 0 /\ ListModelCatalog /\ UNCHANGED snapVars
     \/ uses = "files" /\ (FileStep \/ (KVStep /\ UNCHANGED snapVars)) /\ page' = page
     \/ uses = "snapshots" /\ (SnapshotStep \/ (RemoteChanges /\ UNCHANGED snapVars)) /\ page' = page
     \/ Restart /\ page' = page
  /\ uses' = uses

Spec == Init /\ [][Next]_vars

-----------------------------------------------------------------------------
(* Properties                                                              *)

\* A key is being refreshed exactly while one refresh of it is under way: however many stale
\* reads there are, one fetch goes out, and no failure leaves the entry stale for good.  A
\* read that asks for a refresh is answered with nothing older than what the catalog had
\* when it asked, whatever is in the cache and whoever else is refreshing it.
RefreshIsSound ==
  /\ \A k \in Keys : Cardinality({x \in calls : x.key = k /\ x.kind = "refresh" /\ x.pc # "claim"})
                      = IF k \in busy THEN 1 ELSE 0
  /\ last.refresh => last.v >= last.asked

\* Whatever the memory cache answers for a file is about the content the file has now, with
\* files replaced while they are parsed and calls that overtake each other; but for a file
\* that was ever given a time no newer than one it had (KVFollowsFile says it of all).
KVIsCurrent ==
  \A f \in Files \ rewound : disk[f] # Gone /\ entries[f].m = disk[f].m => entries[f].kv = KVOf(disk[f].c)

\* Every model of a listing is shown with its largest variant that this host can hold, or the
\* largest of all if it can hold none; a model is left out exactly if that is not good enough;
\* and the rest come in the order asked for, which is the source's if none was.
BestOf(k, h, m) ==
  LET usable == {i \in DOMAIN m.sizes : VariantRank(k, h, m.sizes[i]) >= 2}
      among == IF usable = {} THEN DOMAIN m.sizes ELSE usable
  IN  CHOOSE i \in among : \A j \in among : m.sizes[i] >= m.sizes[j]
ListingIsBest ==
  LET rank(m) == VariantRank(page.key, page.host, m.sizes[BestOf(page.key, page.host, m)])
      l == page.listed
  IN  /\ \A i \in DOMAIN page.models :
           page.models[i] \in ToSet(l) <=> (page.models[i].sizes # <<>> /\ rank(page.models[i]) >= page.min)
      /\ page.by = "fit" => \A i \in 2..Len(l) : rank(l[i - 1]) >= rank(l[i])
      /\ page.by = "score" => \A i \in 2..Len(l) : l[i - 1].score >= l[i].score
      /\ page.by = "given" => \E at \in [DOMAIN l -> DOMAIN page.models] :
           \A i \in DOMAIN l : l[i] = page.models[at[i]] /\ \A j \in DOMAIN l : j < i => at[j] < at[i]

\* A snapshot that is listed holds the files of the one commit it was planned from, however
\* the repository changes while they are fetched one by one, and across a restart.
SnapshotIsWhole == ListSnapshots # {} /\ local.rev # Main => local.tree = Trees[local.rev]

-----------------------------------------------------------------------------
(* Said by the code's comments or expected of it, and not so: see "Known   *)
(* disagreements" in README.md.  No run of the project checks these.       *)

\* archcache.go:12 "keyed on the file's mtime so a re-downloaded or replaced model gets
\* re-estimated", whatever time it is replaced under.
KVFollowsFile ==
  \A f \in Files : disk[f] # Gone /\ entries[f].m = disk[f].m => entries[f].kv = KVOf(disk[f].c)

\* A model of whose files one was proven against its digest when it was downloaded can be
\* verified by the doctor later.
DownloadedIsVerifiable ==
  Snapshot \in ListLocal /\ (\E n \in DOMAIN local.tree : side[n] # NoDigest) => VerifyDigest(Snapshot) # "unverifiable"
=============================================================================
