--------------------------- MODULE CatalogProofs ---------------------------
(* Theorems about Catalog, for any keys, files, contents, repository         *)
(* versions and bounds: the refresh of stale entries, the memory cache, the  *)
(* snapshots, and the pages a listing makes.                                 *)
EXTENDS Catalog, FiniteSetTheorems, WellFoundedInduction, TLAPS

CallType ==
  [n : Nat, kind : {"read", "refresh"}, key : Keys, pc : {"load", "claim", "fetch", "store", "publish", "release"},
   v : Nat, asked : Nat, refresh : BOOLEAN]
Content == Contents \cup {0}
GetType == [n : Nat, f : Files, m : Nat, pc : {"lookup", "parse", "put"}, kv : {KVOf(c) : c \in Content} \cup {0}]

\* A refresh of k that has claimed it.
Refreshes(x, k) == x.key = k /\ x.kind = "refresh" /\ x.pc # "claim"

\* The shape of the client's entries and calls.
CacheOK(entry) == DOMAIN entry = Keys /\ \A k \in Keys : entry[k].v \in Nat
CallsOK ==
  /\ remote \in Nat \ {0} /\ work \in Nat /\ calls \subseteq CallType /\ CacheOK(cache)
  /\ last \in [key : Keys, v : Nat, asked : Nat, refresh : BOOLEAN]
  /\ \A x \in calls : x.pc \in {"claim", "publish", "release"} => x.kind = "refresh"

\* busy holds the keys of the refreshes that have claimed one, each of one.
Claims ==
  /\ \A x \in calls : x.kind = "refresh" /\ x.pc # "claim" => x.key \in busy
  /\ \A k \in busy : \E x \in calls : Refreshes(x, k)
  /\ \A x, y \in calls, k \in Keys : Refreshes(x, k) /\ Refreshes(y, k) => x = y

\* What was fetched is no older than the call that fetched it.
Fresh ==
  /\ \A x \in calls : x.asked <= remote /\ (x.pc = "store" => x.v >= x.asked)
  /\ last.refresh => last.v >= last.asked

\* The time of a file is one it has had; those of one that was never set back only grow, so
\* no two contents of it have had the same one.
Times ==
  /\ mtime \in [Files -> Nat] /\ work \in Nat /\ stage \in [Files -> Content] /\ gets \subseteq GetType
  /\ disk \in [Files -> [c : Content, m : Nat]] /\ \A f \in Files : disk[f] = Gone \/ disk[f].m \in 1..mtime[f]
  /\ entries \in [Files -> [m : Nat, kv : {KVOf(c) : c \in Content} \cup {0}]]
  /\ \A f \in Files : entries[f].m <= mtime[f]
  /\ \A x \in gets : x.m \in 1..mtime[x.f]

\* What is about to be cached under a time is about the content of that time.
Parsed ==
  \A x \in gets : x.f \notin rewound /\ x.pc = "put" /\ disk[x.f] # Gone /\ disk[x.f].m = x.m => x.kv = KVOf(disk[x.f].c)

\* A pinned download holds files of its commit only, and wants all of them.
Pinned(s) ==
  /\ s = [pc |-> s.pc, names |-> s.names, rev |-> s.rev, want |-> s.want, got |-> s.got]
  /\ s.got = [n \in DOMAIN s.got |-> s.got[n]]
  /\ s.rev # Main => /\ s.rev \in 1..Len(Trees) /\ s.names = DOMAIN Trees[s.rev]
                     /\ DOMAIN s.got \subseteq s.names /\ \A n \in DOMAIN s.got : s.got[n] = Trees[s.rev][n]
Snapshots ==
  /\ remote \in Nat \ {0} /\ (uses = "snapshots" => remote <= Len(Trees))
  /\ Pinned(snap) /\ (local.rev # Main => local.tree = Trees[local.rev])

RefreshInv == CallsOK /\ Claims /\ Fresh
KVInv == Times /\ Parsed /\ KVIsCurrent
-----------------------------------------------------------------------------
(* Refreshing                                                              *)

\* A call goes on: it keeps its key and, if it is a refresh, its claim.
LEMMA CallMoves ==
  ASSUME RefreshInv, NEW x \in calls, NEW y \in CallType, calls' = (calls \ {x}) \cup {y}, busy' = busy,
         y.kind = x.kind, y.key = x.key, y.asked = x.asked, x.pc # "claim", y.pc # "claim",
         y.pc \in {"publish", "release"} => x.kind = "refresh", y.pc = "store" => y.v >= y.asked,
         UNCHANGED <<remote, work>>, CacheOK(cache'),
         last' \in [key : Keys, v : Nat, asked : Nat, refresh : BOOLEAN], last'.refresh => last'.v >= last'.asked
  PROVE  RefreshInv'
<1>1. CallsOK'  BY DEF RefreshInv, CallsOK
<1>2. Claims'
  <2>1. \A k \in Keys : Refreshes(x, k) <=> Refreshes(y, k)  BY DEF Refreshes
  <2>2. \A z \in calls' : z.kind = "refresh" /\ z.pc # "claim" => z.key \in busy'  BY DEF RefreshInv, Claims
  <2>3. ASSUME NEW k \in busy' PROVE \E z \in calls' : Refreshes(z, k)
    <3>1. PICK z \in calls : Refreshes(z, k)  BY <2>3 DEF RefreshInv, Claims
    <3>2. k \in Keys  BY <3>1 DEF RefreshInv, CallsOK, CallType, Refreshes
    <3> QED BY <2>1, <3>1, <3>2
  <2>4. \A z, w \in calls', k \in Keys : Refreshes(z, k) /\ Refreshes(w, k) => z = w
    BY <2>1 DEF RefreshInv, Claims
  <2> QED BY <2>2, <2>3, <2>4 DEF Claims
<1>3. Fresh'  BY DEF RefreshInv, Fresh
<1> QED BY <1>1, <1>2, <1>3 DEF RefreshInv

\* A call ends that has claimed nothing.
LEMMA CallEnds ==
  ASSUME RefreshInv, NEW x \in calls, calls' = calls \ {x}, busy' = busy, x.kind = "read" \/ x.pc = "claim",
         UNCHANGED <<remote, work>>, CacheOK(cache'),
         last' \in [key : Keys, v : Nat, asked : Nat, refresh : BOOLEAN], last'.refresh => last'.v >= last'.asked
  PROVE  RefreshInv'
<1>1. CallsOK'  BY DEF RefreshInv, CallsOK
<1>2. Claims'  BY DEF RefreshInv, Claims, Refreshes
<1>3. Fresh'  BY DEF RefreshInv, Fresh
<1> QED BY <1>1, <1>2, <1>3 DEF RefreshInv

\* A call begins.
LEMMA CallBegins ==
  ASSUME RefreshInv, NEW x \in CallType, calls' = calls \cup {x}, (x.kind = "read" /\ x.pc = "fetch") \/ x.pc = "claim",
         x.pc = "claim" => x.kind = "refresh", x.asked <= remote, UNCHANGED <<remote, busy, cache>>, work' \in Nat,
         last' \in [key : Keys, v : Nat, asked : Nat, refresh : BOOLEAN], last'.refresh => last'.v >= last'.asked
  PROVE  RefreshInv'
<1>1. CallsOK'  BY DEF RefreshInv, CallsOK
<1>2. Claims'  BY DEF RefreshInv, Claims, Refreshes
<1>3. Fresh'  BY DEF RefreshInv, Fresh
<1> QED BY <1>1, <1>2, <1>3 DEF RefreshInv

LEMMA CatalogSteps == ASSUME RefreshInv, CatalogStep PROVE RefreshInv'
<1>0. /\ remote \in Nat \ {0} /\ work \in Nat /\ calls \subseteq CallType /\ CacheOK(cache)
      /\ last \in [key : Keys, v : Nat, asked : Nat, refresh : BOOLEAN] /\ (last.refresh => last.v >= last.asked)
      /\ \A x \in calls : x.asked <= remote /\ (x.pc = "store" => x.v >= x.asked)
      /\ \A x \in calls : x.pc \in {"claim", "publish", "release"} => x.kind = "refresh"
  BY DEF RefreshInv, CallsOK, Fresh
<1>1. ASSUME UNCHANGED <<calls, busy, last>>, remote' \in Nat \ {0}, remote' >= remote, work' \in Nat, UNCHANGED cache
      PROVE  RefreshInv'
  <2>1. CallsOK' /\ Claims'  BY <1>0, <1>1 DEF RefreshInv, CallsOK, Claims
  <2>2. \A x \in calls : x.asked \in Nat  BY <1>0 DEF CallType
  <2>3. Fresh'  BY <1>0, <1>1, <2>2 DEF Fresh
  <2> QED BY <2>1, <2>3 DEF RefreshInv
<1>2. CASE Search
  <2>1. PICK k \in Keys, refresh \in BOOLEAN :
          IF Loads(k, refresh)
          THEN /\ Answer(Call("read", k, "load", refresh), cache[k].v)
               /\ calls' = IF clock - cache[k].at > TTL THEN calls \cup {Call("refresh", k, "claim", FALSE)} ELSE calls
          ELSE calls' = calls \cup {Call("read", k, "fetch", refresh)} /\ last' = last
    BY <1>2 DEF Search
  <2>2. work' \in Nat /\ UNCHANGED <<remote, cache, busy>>  BY <1>0, <1>2 DEF Search, Works
  <2>3. CASE Loads(k, refresh)
    <3>1. last' = [key |-> k, v |-> cache[k].v, asked |-> remote, refresh |-> FALSE]
      BY <2>1, <2>3 DEF Answer, Call, Loads
    <3>2. last' \in [key : Keys, v : Nat, asked : Nat, refresh : BOOLEAN] /\ last'.refresh = FALSE  BY <1>0, <3>1 DEF CacheOK
    <3>3. CASE calls' = calls
      <4>1. CallsOK' /\ Claims' /\ Fresh'  BY <1>0, <2>2, <3>2, <3>3 DEF RefreshInv, CallsOK, Claims, Fresh
      <4> QED BY <4>1 DEF RefreshInv
    <3>4. CASE calls' = calls \cup {Call("refresh", k, "claim", FALSE)}
      <4> DEFINE x == Call("refresh", k, "claim", FALSE)
      <4>1. x \in CallType /\ x.kind = "refresh" /\ x.pc = "claim" /\ x.asked <= remote  BY <1>0 DEF Call, CallType
      <4> HIDE DEF x
      <4>2. calls' = calls \cup {x}  BY <3>4 DEF x
      <4> QED BY <2>2, <3>2, <4>1, <4>2, CallBegins
    <3> QED BY <2>1, <2>3, <3>3, <3>4
  <2>4. CASE ~Loads(k, refresh)
    <3> DEFINE x == Call("read", k, "fetch", refresh)
    <3>1. x \in CallType /\ x.kind = "read" /\ x.pc = "fetch" /\ x.asked <= remote  BY <1>0 DEF Call, CallType
    <3> HIDE DEF x
    <3>2. calls' = calls \cup {x} /\ last' = last  BY <2>1, <2>4 DEF x
    <3> QED BY <1>0, <2>2, <3>1, <3>2, CallBegins
  <2> QED BY <2>3, <2>4
<1>3. CASE Subscribe \/ WatchModelCatalog \/ RemoteChanges \/ Tick
  BY <1>0, <1>1, <1>3 DEF Subscribe, WatchModelCatalog, RemoteChanges, Tick, Works, catalogVars
<1> SUFFICES ASSUME NEW x \in calls,
                    Claim(x) \/ Fetch(x) \/ Store(x) \/ SearchFails(x) \/ Publish(x) \/ Release(x)
             PROVE  RefreshInv'
  BY <1>2, <1>3 DEF CatalogStep
<1>4. x \in CallType /\ x.key \in Keys  BY <1>0 DEF CallType
<1>5. CASE Claim(x)
  <2>1. x.pc = "claim" /\ UNCHANGED <<remote, cache, last, work>>  BY <1>5 DEF Claim
  <2>2. CASE x.key \in busy
    <3>1. calls' = calls \ {x} /\ busy' = busy  BY <1>5, <2>2 DEF Claim, LoadOrStore
    <3> QED BY <1>0, <2>1, <3>1, CallEnds
  <2>3. CASE x.key \notin busy
    <3> DEFINE y == [x EXCEPT !.pc = "fetch"]
    <3>1. calls' = (calls \ {x}) \cup {y} /\ busy' = busy \cup {x.key}  BY <1>5, <2>3 DEF Claim, LoadOrStore
    <3>2. y \in CallType /\ y.pc = "fetch" /\ y.kind = "refresh" /\ y.key = x.key /\ y.asked = x.asked
      BY <1>0, <1>4, <2>1 DEF CallType
    <3> HIDE DEF y
    <3>3. CallsOK'  BY <1>0, <2>1, <3>1, <3>2 DEF CallsOK
    <3>4. Claims'
      <4>1. \A z \in calls : ~Refreshes(z, x.key)  BY <2>3 DEF RefreshInv, Claims, Refreshes
      <4>2. \A k \in Keys : ~Refreshes(x, k)  BY <2>1 DEF Refreshes
      <4>3. Refreshes(y, x.key)  BY <3>2 DEF Refreshes
      <4>4. \A z \in calls' : z.kind = "refresh" /\ z.pc # "claim" => z.key \in busy'  BY <3>1, <3>2 DEF RefreshInv, Claims
      <4>5. ASSUME NEW k \in busy' PROVE \E z \in calls' : Refreshes(z, k)
        <5>1. CASE k = x.key  BY <3>1, <4>3, <5>1
        <5>2. CASE k \in busy
          <6>1. PICK z \in calls : Refreshes(z, k)  BY <5>2 DEF RefreshInv, Claims
          <6>2. z # x  BY <2>1, <6>1 DEF Refreshes
          <6> QED BY <3>1, <6>1, <6>2
        <5> QED BY <3>1, <5>1, <5>2
      <4>6. \A z, w \in calls', k \in Keys : Refreshes(z, k) /\ Refreshes(w, k) => z = w
        <5>1. \A k \in Keys : Refreshes(y, k) => k = x.key  BY <3>2 DEF Refreshes
        <5> QED BY <3>1, <4>1, <5>1 DEF RefreshInv, Claims
      <4> QED BY <4>4, <4>5, <4>6 DEF Claims
    <3>5. Fresh'  BY <1>0, <2>1, <3>1, <3>2 DEF Fresh
    <3> QED BY <3>3, <3>4, <3>5 DEF RefreshInv
  <2> QED BY <2>2, <2>3
<1>6. CASE Fetch(x)
  <2> DEFINE y == [x EXCEPT !.pc = "store", !.v = remote]
  <2>1. x.pc = "fetch" /\ calls' = (calls \ {x}) \cup {y} /\ UNCHANGED <<remote, cache, busy, last, work>>  BY <1>6 DEF Fetch
  <2>2. y \in CallType /\ y.pc = "store" /\ y.kind = x.kind /\ y.key = x.key /\ y.asked = x.asked /\ y.v = remote
    BY <1>0, <1>4 DEF CallType
  <2> HIDE DEF y
  <2>3. y.v >= y.asked  BY <1>0, <1>4, <2>2 DEF CallType
  <2> QED BY <1>0, <2>1, <2>2, <2>3, CallMoves
<1>7. CASE Store(x)
  <2>1. /\ x.pc = "store" /\ cache' = [cache EXCEPT ![x.key] = [v |-> x.v, at |-> clock]]
        /\ UNCHANGED <<remote, busy, work>>
    BY <1>7 DEF Store
  <2>2. CacheOK(cache')  BY <1>0, <1>4, <2>1 DEF CacheOK, CallType
  <2>3. CASE x.kind = "read"
    <3>1. calls' = calls \ {x} /\ last' = [key |-> x.key, v |-> x.v, asked |-> x.asked, refresh |-> x.refresh]
      BY <1>7, <2>3 DEF Store, Answer
    <3>2. last' \in [key : Keys, v : Nat, asked : Nat, refresh : BOOLEAN] /\ last'.v >= last'.asked
      BY <1>0, <1>4, <2>1, <3>1 DEF CallType
    <3> QED BY <2>1, <2>2, <2>3, <3>1, <3>2, CallEnds
  <2>4. CASE x.kind # "read"
    <3> DEFINE y == [x EXCEPT !.pc = "publish"]
    <3>1. calls' = (calls \ {x}) \cup {y} /\ last' = last  BY <1>7, <2>4 DEF Store
    <3>2. y \in CallType /\ y.pc = "publish" /\ y.kind = x.kind /\ y.key = x.key /\ y.asked = x.asked /\ x.kind = "refresh"
      BY <1>4, <2>4 DEF CallType
    <3> HIDE DEF y
    <3> QED BY <1>0, <2>1, <2>2, <3>1, <3>2, CallMoves
  <2> QED BY <2>3, <2>4
<1>8. CASE SearchFails(x)
  <2>1. x.pc \in {"fetch", "store"} /\ UNCHANGED <<remote, cache, busy, last, work>>  BY <1>8 DEF SearchFails
  <2>2. CASE x.kind = "read"
    <3>1. calls' = calls \ {x}  BY <1>8, <2>2 DEF SearchFails
    <3> QED BY <1>0, <2>1, <2>2, <3>1, CallEnds
  <2>3. CASE x.kind # "read"
    <3> DEFINE y == [x EXCEPT !.pc = "publish", !.v = 0]
    <3>1. calls' = (calls \ {x}) \cup {y}  BY <1>8, <2>3 DEF SearchFails
    <3>2. y \in CallType /\ y.pc = "publish" /\ y.kind = x.kind /\ y.key = x.key /\ y.asked = x.asked /\ x.kind = "refresh"
      BY <1>4, <2>3 DEF CallType
    <3> HIDE DEF y
    <3> QED BY <1>0, <2>1, <3>1, <3>2, CallMoves
  <2> QED BY <2>2, <2>3
<1>9. CASE Publish(x)
  <2> DEFINE y == [x EXCEPT !.pc = "release"]
  <2>1. x.pc = "publish" /\ calls' = (calls \ {x}) \cup {y} /\ UNCHANGED <<remote, cache, busy, last, work>>  BY <1>9 DEF Publish
  <2>2. y \in CallType /\ y.pc = "release" /\ y.kind = x.kind /\ y.key = x.key /\ y.asked = x.asked /\ x.kind = "refresh"
    BY <1>0, <1>4, <2>1 DEF CallType
  <2> HIDE DEF y
  <2> QED BY <1>0, <2>1, <2>2, CallMoves
<1>10. CASE Release(x)
  <2>1. x.pc = "release" /\ calls' = calls \ {x} /\ busy' = busy \ {x.key} /\ UNCHANGED <<remote, cache, last, work>>
    BY <1>10 DEF Release, ReleaseKey
  <2>2. CallsOK' /\ Fresh'  BY <1>0, <2>1 DEF CallsOK, Fresh
  <2>3. Refreshes(x, x.key)  BY <1>0, <2>1 DEF Refreshes
  <2>4. \A z \in calls' : z.kind = "refresh" /\ z.pc # "claim" => z.key \in busy'
    BY <1>0, <1>4, <2>1, <2>3 DEF RefreshInv, Claims, Refreshes
  <2>5. ASSUME NEW k \in busy' PROVE \E z \in calls' : Refreshes(z, k)
    BY <2>1, <2>5 DEF RefreshInv, Claims, Refreshes
  <2>6. Claims'  BY <2>1, <2>4, <2>5 DEF RefreshInv, Claims
  <2> QED BY <2>2, <2>6 DEF RefreshInv
<1> QED BY <1>5, <1>6, <1>7, <1>8, <1>9, <1>10
-----------------------------------------------------------------------------
(* The memory cache                                                        *)

\* A file gets another content, or loses it, while calls are under way: its time is new, or
\* it is set back.
LEMMA FileChanges ==
  ASSUME KVInv, NEW f \in Files, NEW d \in [c : Content, m : Nat], disk' = [disk EXCEPT ![f] = d],
         NEW t \in Nat, mtime' = [mtime EXCEPT ![f] = t], t >= mtime[f],
         d = Gone \/ (d.m \in 1..t /\ (d.m > mtime[f] \/ f \in rewound')), rewound \subseteq rewound',
         stage' \in [Files -> Content], work' \in Nat, UNCHANGED kvVars
  PROVE  KVInv'
<1>0. /\ mtime \in [Files -> Nat] /\ gets \subseteq GetType /\ disk \in [Files -> [c : Content, m : Nat]]
      /\ \A g \in Files : disk[g] = Gone \/ disk[g].m \in 1..mtime[g]
      /\ entries \in [Files -> [m : Nat, kv : {KVOf(c) : c \in Content} \cup {0}]]
      /\ \A g \in Files : entries[g].m <= mtime[g]
      /\ \A x \in gets : x.m \in 1..mtime[x.f]
      /\ UNCHANGED <<entries, gets>>
  BY DEF KVInv, Times, kvVars
<1>1. disk' \in [Files -> [c : Content, m : Nat]] /\ disk'[f] = d /\ \A g \in Files \ {f} : disk'[g] = disk[g]  BY <1>0
<1>2. \A g \in Files : entries[g].m \in Nat  BY <1>0
<1>a. mtime' \in [Files -> Nat] /\ mtime'[f] = t /\ \A g \in Files \ {f} : mtime'[g] = mtime[g]  BY <1>0
<1>b. \A g \in Files : mtime[g] <= mtime'[g] /\ mtime[g] \in Nat /\ mtime'[g] \in Nat  BY <1>0, <1>a
<1>c. \A x \in gets : x.f \in Files /\ x.m \in Nat /\ x.m <= mtime[x.f]  BY <1>0 DEF GetType
<1>3. Times'
  <2>1. \A g \in Files : disk'[g] = Gone \/ disk'[g].m \in 1..mtime'[g]
    BY <1>0, <1>1, <1>a
  <2>2. \A g \in Files : entries'[g].m <= mtime'[g]
    <3>1. ASSUME NEW g \in Files PROVE entries'[g].m <= mtime'[g]
      <4>1. entries[g].m <= mtime[g]  BY <1>0
      <4> QED BY <1>0, <1>2, <1>b, <4>1
    <3> QED BY <3>1
  <2>3. \A x \in gets' : x.m \in 1..mtime'[x.f]
    <3>1. ASSUME NEW x \in gets PROVE x.m \in 1..mtime'[x.f]
      <4>1. x.m \in 1..mtime[x.f] /\ x.f \in Files  BY <1>0, <1>c
      <4> QED BY <1>b, <4>1
    <3> QED BY <1>0, <3>1
  <2> QED BY <1>0, <1>1, <1>a, <2>1, <2>2, <2>3 DEF Times
<1>4. Parsed'
  <2> SUFFICES ASSUME NEW x \in gets, x.f \notin rewound', x.pc = "put", disk'[x.f] # Gone, disk'[x.f].m = x.m
               PROVE  x.kv = KVOf(disk'[x.f].c)
    BY <1>0 DEF Parsed
  <2>1. x.f # f  BY <1>0, <1>1, <1>c
  <2> QED BY <1>1, <1>c, <2>1 DEF KVInv, Parsed
<1>5. KVIsCurrent'
  <2> SUFFICES ASSUME NEW g \in Files \ rewound', disk'[g] # Gone, entries[g].m = disk'[g].m
               PROVE  entries[g].kv = KVOf(disk'[g].c)
    BY <1>0 DEF KVIsCurrent
  <2>1. g # f
    <3>1. entries[g].m \in Nat /\ entries[g].m <= mtime[g] /\ mtime[g] \in Nat  BY <1>0, <1>2
    <3> QED BY <1>1, <3>1
  <2> QED BY <1>1, <2>1 DEF KVInv, KVIsCurrent
<1> QED BY <1>3, <1>4, <1>5 DEF KVInv

\* A file's new time, however it came by it.
LEMMA Stamped ==
  ASSUME KVInv, NEW f \in Files, NEW c \in Content, Stamp(f, c), stage' \in [Files -> Content], work' \in Nat,
         UNCHANGED kvVars
  PROVE  KVInv'
<1>0. mtime \in [Files -> Nat] /\ mtime[f] \in Nat  BY DEF KVInv, Times
<1>1. PICK m \in 1..mtime[f] + 1 :
        /\ disk' = [disk EXCEPT ![f] = [c |-> c, m |-> m]]
        /\ mtime' = [mtime EXCEPT ![f] = IF m > mtime[f] THEN m ELSE mtime[f]]
        /\ rewound' = rewound \cup {g \in {f} : m <= mtime[f]}
  BY DEF Stamp
<1> DEFINE d == [c |-> c, m |-> m]
           t == IF m > mtime[f] THEN m ELSE mtime[f]
<1>2. d \in [c : Content, m : Nat] /\ d.m = m /\ t \in Nat /\ t >= mtime[f] /\ m \in 1..t  BY <1>0
<1>3. (m > mtime[f] \/ f \in rewound') /\ rewound \subseteq rewound'  BY <1>0, <1>1
<1>4. disk' = [disk EXCEPT ![f] = d] /\ mtime' = [mtime EXCEPT ![f] = t]  BY <1>1
<1> HIDE DEF d, t
<1> QED BY <1>2, <1>3, <1>4, FileChanges

LEMMA FileSteps == ASSUME KVInv, FileStep PROVE KVInv'
<1>0. /\ mtime \in [Files -> Nat] /\ work \in Nat /\ stage \in [Files -> Content] /\ UNCHANGED kvVars
  BY DEF KVInv, Times, FileStep
<1>1. PICK f \in Files : (\E c \in Contents : Download(f, c) \/ Copy(f, c)) \/ Finalize(f) \/ DeleteLocal(f)
  BY DEF FileStep
<1>2. ASSUME NEW c \in Contents, Download(f, c) PROVE KVInv'
  <2>1. stage' = [stage EXCEPT ![f] = c] /\ work' = work + 1 /\ UNCHANGED <<disk, mtime, rewound>>
    BY <1>2 DEF Download, Works
  <2>2. stage' \in [Files -> Content]  BY <1>0, <2>1 DEF Content
  <2> QED BY <1>0, <2>1, <2>2 DEF KVInv, Times, Parsed, KVIsCurrent, kvVars
<1>3. ASSUME NEW c \in Contents, Copy(f, c) PROVE KVInv'
  <2>1. Stamp(f, c) /\ work' = work + 1 /\ UNCHANGED stage  BY <1>3 DEF Copy, Works
  <2>2. stage' \in [Files -> Content] /\ work' \in Nat /\ c \in Content  BY <1>0, <2>1 DEF Content
  <2> QED BY <1>0, <2>1, <2>2, Stamped
<1>4. CASE Finalize(f)
  <2>1. Stamp(f, stage[f]) /\ stage' = [stage EXCEPT ![f] = 0] /\ UNCHANGED work  BY <1>4 DEF Finalize
  <2>2. stage' \in [Files -> Content] /\ work' \in Nat /\ stage[f] \in Content  BY <1>0, <2>1 DEF Content
  <2> QED BY <1>0, <2>1, <2>2, Stamped
<1>5. CASE DeleteLocal(f)
  <2>1. disk' = [disk EXCEPT ![f] = Gone] /\ work' = work + 1 /\ UNCHANGED <<stage, mtime, rewound>>
    BY <1>5 DEF DeleteLocal, RemoveLocal, Works
  <2>2. Gone \in [c : Content, m : Nat]  BY DEF Gone, Content
  <2>3. stage' \in [Files -> Content] /\ work' \in Nat  BY <1>0, <2>1
  <2>4. mtime' = [mtime EXCEPT ![f] = mtime[f]] /\ mtime[f] \in Nat /\ mtime[f] >= mtime[f]  BY <1>0, <2>1
  <2> QED BY <1>0, <2>1, <2>2, <2>3, <2>4, FileChanges
<1> QED BY <1>1, <1>2, <1>3, <1>4, <1>5

LEMMA KVSteps == ASSUME KVInv, KVStep PROVE KVInv'
<1>0. /\ mtime \in [Files -> Nat] /\ work \in Nat /\ stage \in [Files -> Content] /\ gets \subseteq GetType
      /\ disk \in [Files -> [c : Content, m : Nat]] /\ \A f \in Files : disk[f] = Gone \/ disk[f].m \in 1..mtime[f]
      /\ entries \in [Files -> [m : Nat, kv : {KVOf(c) : c \in Content} \cup {0}]]
      /\ \A f \in Files : entries[f].m <= mtime[f]
      /\ \A x \in gets : x.m \in 1..mtime[x.f]
      /\ UNCHANGED <<disk, stage, mtime, rewound>>
  BY DEF KVInv, Times, KVStep, fileVars
\* Another set of calls, each of them as the invariant wants it.
<1>1. ASSUME gets' \subseteq GetType, \A x \in gets' : x \in gets \/ (x.m \in 1..mtime[x.f] /\
               (x.f \notin rewound /\ x.pc = "put" /\ disk[x.f] # Gone /\ disk[x.f].m = x.m => x.kv = KVOf(disk[x.f].c))),
             entries' = entries, work' \in Nat
      PROVE  KVInv'
  <2>1. Times'  BY <1>0, <1>1 DEF Times
  <2>2. Parsed' /\ KVIsCurrent'  BY <1>0, <1>1 DEF KVInv, Parsed, KVIsCurrent
  <2> QED BY <2>1, <2>2 DEF KVInv
<1>2. ASSUME NEW f \in Files, Stat(f) PROVE KVInv'
  <2> DEFINE y == [n |-> work, f |-> f, m |-> disk[f].m, pc |-> "lookup", kv |-> 0]
  <2>1. disk[f] # Gone /\ gets' = gets \cup {y} /\ entries' = entries /\ work' = work + 1  BY <1>2 DEF Stat, Works
  <2>2. y \in GetType /\ y.m \in 1..mtime[y.f] /\ y.pc = "lookup"  BY <1>0, <2>1 DEF GetType
  <2> HIDE DEF y
  <2> QED BY <1>0, <1>1, <2>1, <2>2
<1>3. ASSUME NEW x \in gets, Lookup(x) PROVE KVInv'
  <2> DEFINE y == [x EXCEPT !.pc = "parse"]
  <2>1. (gets' = gets \ {x} \/ gets' = (gets \ {x}) \cup {y}) /\ entries' = entries /\ work' = work  BY <1>3 DEF Lookup
  <2>2. x \in GetType /\ x.m \in 1..mtime[x.f]  BY <1>0
  <2>3. y \in GetType /\ y.m = x.m /\ y.f = x.f /\ y.pc = "parse"  BY <2>2 DEF GetType
  <2> HIDE DEF y
  <2> QED BY <1>0, <1>1, <2>1, <2>2, <2>3
<1>4. ASSUME NEW x \in gets, Parse(x) PROVE KVInv'
  <2> DEFINE y == [x EXCEPT !.pc = "put", !.kv = EstimateKVBytes(x.f)]
  <2>1. gets' = (gets \ {x}) \cup {y} /\ entries' = entries /\ work' = work  BY <1>4 DEF Parse
  <2>2. x \in GetType /\ x.m \in 1..mtime[x.f] /\ x.f \in Files  BY <1>0 DEF GetType
  <2>3. EstimateKVBytes(x.f) \in {KVOf(c) : c \in Content} \cup {0}  BY <1>0, <2>2 DEF EstimateKVBytes
  <2>4. y \in GetType /\ y.m = x.m /\ y.f = x.f /\ y.kv = EstimateKVBytes(x.f)  BY <2>2, <2>3 DEF GetType
  <2> HIDE DEF y
  <2>5. disk[y.f] # Gone => y.kv = KVOf(disk[y.f].c)  BY <2>4 DEF EstimateKVBytes
  <2> QED BY <1>0, <1>1, <2>1, <2>2, <2>4, <2>5
<1>5. ASSUME NEW x \in gets, Put(x) PROVE KVInv'
  <2>1. gets' = gets \ {x} /\ entries' = [entries EXCEPT ![x.f] = [m |-> x.m, kv |-> x.kv]] /\ work' = work /\ x.pc = "put"
    BY <1>5 DEF Put, PutEntry
  <2>2. x \in GetType /\ x.m \in 1..mtime[x.f] /\ x.f \in Files /\ x.m \in Nat /\ x.kv \in {KVOf(c) : c \in Content} \cup {0}
    BY <1>0 DEF GetType
  <2>3. /\ entries' \in [Files -> [m : Nat, kv : {KVOf(c) : c \in Content} \cup {0}]]
        /\ entries'[x.f].m = x.m /\ entries'[x.f].kv = x.kv /\ \A g \in Files \ {x.f} : entries'[g] = entries[g]
    BY <1>0, <2>1, <2>2
  <2>4. Times'  BY <1>0, <2>1, <2>2, <2>3 DEF Times
  <2>5. Parsed'  BY <1>0, <2>1 DEF KVInv, Parsed
  <2>6. KVIsCurrent'
    <3> SUFFICES ASSUME NEW f \in Files \ rewound, disk[f] # Gone, entries'[f].m = disk[f].m PROVE entries'[f].kv = KVOf(disk[f].c)
      BY <1>0 DEF KVIsCurrent
    <3>1. CASE f = x.f  BY <2>1, <2>3, <3>1 DEF KVInv, Parsed
    <3>2. CASE f # x.f  BY <2>3, <3>2 DEF KVInv, KVIsCurrent
    <3> QED BY <3>1, <3>2
  <2> QED BY <2>4, <2>5, <2>6 DEF KVInv
<1> QED BY <1>2, <1>3, <1>4, <1>5 DEF KVStep
-----------------------------------------------------------------------------
(* Snapshots                                                               *)

LEMMA SnapshotSteps == ASSUME Snapshots, uses = "snapshots", SnapshotStep, UNCHANGED uses PROVE Snapshots'
<1>0. /\ remote \in Nat \ {0} /\ remote <= Len(Trees) /\ Pinned(snap) /\ UNCHANGED remote
      /\ (local.rev # Main => local.tree = Trees[local.rev]) /\ Len(Trees) \in Nat
  BY CatalogOK DEF Snapshots, SnapshotStep, catalogVars
<1>1. ASSUME Pinned(snap)', (local.rev # Main => local.tree = Trees[local.rev])' PROVE Snapshots'
  BY <1>0, <1>1 DEF Snapshots
<1>2. NoTree = [n \in DOMAIN NoTree |-> NoTree[n]] /\ DOMAIN NoTree = {}  BY DEF NoTree
<1>3. Pinned(NoSnap)  BY <1>2 DEF Pinned, NoSnap
<1>4. ASSUME snap' = NoSnap, UNCHANGED local PROVE Snapshots'  BY <1>0, <1>1, <1>3, <1>4
<1>5. CASE Resolve
  <2>1. UNCHANGED local  BY <1>5 DEF Resolve
  <2>2. PICK source \in {"repository", "file"}, sha \in {Main, remote} :
          IF ParseRepository(source)
          THEN SnapshotArtifacts(FetchSiblings) # {} /\ snap' = Plan(SnapshotArtifacts(FetchSiblings), sha, FetchSiblings.digests)
          ELSE \E n \in FetchSiblings.names \ Unsafe : snap' = Plan({n}, Main, NoTree)
    BY <1>5 DEF Resolve
  <2>3. ASSUME NEW names, NEW want, NEW rev, snap' = Plan(names, rev, want),
               rev # Main => rev = remote /\ names = DOMAIN Trees[remote]
        PROVE  Pinned(snap)'
    <3>1. snap' = [pc |-> "fetch", names |-> names, rev |-> rev, want |-> want, got |-> NoTree]  BY <2>3 DEF Plan
    <3>2. snap'.names = names /\ snap'.rev = rev /\ snap'.got = NoTree  BY <3>1
    <3>3. snap' = [pc |-> snap'.pc, names |-> snap'.names, rev |-> snap'.rev, want |-> snap'.want, got |-> snap'.got]  BY <3>1
    <3> QED BY <1>0, <1>2, <2>3, <3>2, <3>3 DEF Pinned
  <2>4. FetchSiblings.names = DOMAIN Trees[remote]  BY DEF FetchSiblings
  <2>5. SnapshotArtifacts(FetchSiblings) # {} => SnapshotArtifacts(FetchSiblings) = DOMAIN Trees[remote]
    BY <2>4 DEF SnapshotArtifacts
  <2> QED BY <1>0, <1>1, <2>1, <2>2, <2>3, <2>5
<1>6. ASSUME NEW n \in snap.names, FetchItem(n) PROVE Snapshots'
  <2> DEFINE tree == Trees[IF snap.rev = Main THEN remote ELSE snap.rev]
             more == With(snap.got, n, tree[n])
  <2>1. UNCHANGED local /\ (snap' = NoSnap \/ (n \in DOMAIN tree /\ snap' = [snap EXCEPT !.got = more]))
    BY <1>6 DEF FetchItem, PinnedRevision
  <2>2. CASE n \in DOMAIN tree /\ snap' = [snap EXCEPT !.got = more]
    <3>1. /\ more = [m \in DOMAIN more |-> more[m]] /\ DOMAIN more = DOMAIN snap.got \cup {n}
          /\ \A m \in DOMAIN more : more[m] = IF m = n THEN tree[n] ELSE snap.got[m]
      BY DEF With
    <3> HIDE DEF more
    <3>2. snap' = [pc |-> snap.pc, names |-> snap.names, rev |-> snap.rev, want |-> snap.want, got |-> more]
      BY <1>0, <2>2 DEF Pinned
    <3>3. snap'.names = snap.names /\ snap'.rev = snap.rev /\ snap'.got = more  BY <3>2
    <3>4. snap' = [pc |-> snap'.pc, names |-> snap'.names, rev |-> snap'.rev, want |-> snap'.want, got |-> snap'.got]  BY <3>2
    <3>5. Pinned(snap)'  BY <1>0, <3>1, <3>3, <3>4 DEF Pinned
    <3> QED BY <1>0, <1>1, <2>1, <3>5
  <2> QED BY <1>4, <2>1, <2>2
<1>7. CASE FinishSnapshot
  <2>1. /\ DOMAIN snap.got = snap.names /\ local' = [tree |-> snap.got, rev |-> snap.rev] /\ snap' = NoSnap
    BY <1>7 DEF FinishSnapshot
  <2>2. local'.tree = snap.got /\ local'.rev = snap.rev  BY <2>1
  <2>3. ASSUME snap.rev # Main PROVE snap.got = Trees[snap.rev]
    <3>1. /\ snap.rev \in 1..Len(Trees) /\ snap.names = DOMAIN Trees[snap.rev]
          /\ snap.got = [n \in DOMAIN snap.got |-> snap.got[n]] /\ \A n \in DOMAIN snap.got : snap.got[n] = Trees[snap.rev][n]
      BY <1>0, <2>3 DEF Pinned
    <3>2. Trees[snap.rev] = [n \in DOMAIN Trees[snap.rev] |-> Trees[snap.rev][n]]  BY <3>1, CatalogOK
    <3> QED BY <2>1, <3>1, <3>2
  <2> QED BY <1>1, <1>3, <2>1, <2>2, <2>3
<1>8. CASE FetchFails  BY <1>4, <1>8 DEF FetchFails
<1>9. CASE DeleteSnapshot
  <2>1. local' = [tree |-> NoTree, rev |-> Main] /\ snap' = snap  BY <1>9 DEF DeleteSnapshot, Absent
  <2> QED BY <1>0, <1>1, <2>1
<1> QED BY <1>5, <1>6, <1>7, <1>8, <1>9 DEF SnapshotStep
-----------------------------------------------------------------------------
(* Listings                                                                *)

\* R orders S: one of any two comes first, and what comes first does so for all.
Orders(R, S) ==
  /\ \A i \in S : <<i, i>> \notin R
  /\ \A i, j \in S : i # j => <<i, j>> \in R \/ <<j, i>> \in R
  /\ \A i, j, k \in S : <<i, j>> \in R /\ <<j, k>> \in R => <<i, k>> \in R

Before(R, S, i) == {j \in S : <<j, i>> \in R}

\* What comes before grows along the order.
LEMMA BeforeGrows ==
  ASSUME NEW S, IsFiniteSet(S), NEW R, Orders(R, S), NEW i \in S, NEW j \in S, <<i, j>> \in R
  PROVE  Cardinality(Before(R, S, i)) < Cardinality(Before(R, S, j))
<1>1. IsFiniteSet(Before(R, S, j)) /\ IsFiniteSet(Before(R, S, i))
  <2>1. Before(R, S, j) \in SUBSET S /\ Before(R, S, i) \in SUBSET S  BY DEF Before
  <2> QED BY <2>1, FS_Subset
<1>2. Before(R, S, i) \in SUBSET Before(R, S, j)  BY DEF Before, Orders
<1>3. i \in Before(R, S, j) /\ i \notin Before(R, S, i)  BY DEF Before, Orders
<1>4. Cardinality(Before(R, S, j)) \in Nat /\ Cardinality(Before(R, S, i)) \in Nat  BY <1>1, FS_CardinalityType
<1>5. /\ Cardinality(Before(R, S, i)) <= Cardinality(Before(R, S, j))
      /\ Cardinality(Before(R, S, j)) = Cardinality(Before(R, S, i)) => Before(R, S, j) = Before(R, S, i)
  BY <1>1, <1>2, FS_Subset
<1> QED BY <1>3, <1>4, <1>5

\* A finite ordered set is listed completely, each member once, in its order.
LEMMA InOrderProperties ==
  ASSUME NEW S, IsFiniteSet(S), NEW R, Orders(R, S), NEW l, l = InOrder(S, R)
  PROVE  /\ Cardinality(S) \in Nat /\ l \in [1..Cardinality(S) -> S]
         /\ \A i \in S : \E n \in 1..Cardinality(S) : l[n] = i
         /\ \A m, n \in 1..Cardinality(S) : m < n => <<l[m], l[n]>> \in R
<1> DEFINE N == Cardinality(S)
           b(i) == Cardinality(Before(R, S, i))
           place == [i \in S |-> b(i) + 1]
<1>1. N \in Nat /\ IsFiniteSet(1..N) /\ Cardinality(1..N) = N
  <2>1. N \in Nat  BY FS_CardinalityType
  <2>2. IsFiniteSet(1..N) /\ Cardinality(1..N) = IF 1 > N THEN 0 ELSE N - 1 + 1  BY <2>1, FS_Interval
  <2> QED BY <2>1, <2>2
<1>2. ASSUME NEW i \in S PROVE b(i) \in Nat /\ b(i) + 1 \in 1..N
  <2>1. Before(R, S, i) \in SUBSET S /\ i \notin Before(R, S, i)  BY DEF Before, Orders
  <2>2. /\ IsFiniteSet(Before(R, S, i)) /\ b(i) <= N /\ (N = b(i) => S = Before(R, S, i))
    BY <2>1, FS_Subset
  <2>3. b(i) \in Nat  BY <2>2, FS_CardinalityType
  <2> QED BY <1>1, <2>1, <2>2, <2>3
<1>3. \A i, j \in S : <<i, j>> \in R => b(i) < b(j)  BY BeforeGrows
<1>4. ASSUME NEW i \in S, NEW j \in S, b(i) = b(j) PROVE i = j
  <2>1. b(i) \in Nat /\ ~(b(i) < b(j)) /\ ~(b(j) < b(i))  BY <1>2, <1>4
  <2>2. <<i, j>> \notin R /\ <<j, i>> \notin R  BY <1>3, <2>1
  <2> QED BY <2>2 DEF Orders
<1>5. place \in Injection(S, 1..N)
  <2>1. place \in [S -> 1..N]  BY <1>2
  <2>2. \A i, j \in S : place[i] = place[j] => i = j  BY <1>2, <1>4
  <2> QED BY <2>1, <2>2 DEF Injection, IsInjective
<1>6. place \in Surjection(S, 1..N)  BY <1>1, <1>5, FS_Injection
<1>7. \A n \in 1..N : \E i \in S : b(i) = n - 1
  <2>1. \A n \in 1..N : \E i \in S : place[i] = n  BY <1>6 DEF Surjection
  <2> QED BY <1>2, <2>1
<1>8. l = [n \in 1..N |-> CHOOSE i \in S : b(i) = n - 1]  BY DEF InOrder, Before
<1> HIDE DEF b, N
<1>9. \A n \in 1..N : l[n] \in S /\ b(l[n]) = n - 1  BY <1>7, <1>8
<1>10. l \in [1..N -> S]  BY <1>8, <1>9
<1>11. ASSUME NEW i \in S PROVE \E n \in 1..N : l[n] = i
  <2>1. b(i) \in Nat /\ b(i) + 1 \in 1..N  BY <1>2
  <2>2. b(l[b(i) + 1]) = b(i) /\ l[b(i) + 1] \in S  BY <1>9, <2>1
  <2> QED BY <1>4, <2>1, <2>2
<1>12. ASSUME NEW m \in 1..N, NEW n \in 1..N, m < n PROVE <<l[m], l[n]>> \in R
  <2>1. l[m] \in S /\ l[n] \in S /\ b(l[m]) < b(l[n])  BY <1>1, <1>9, <1>12
  <2>2. l[m] # l[n] /\ ~(b(l[n]) < b(l[m]))  BY <1>2, <2>1
  <2> QED BY <1>3, <2>1, <2>2 DEF Orders
<1> QED BY <1>1, <1>10, <1>11, <1>12 DEF N

\* What holds first, and at each place if it holds at the one before, holds at all of them:
\* the least place where it does not would follow one where it does.
LEMMA PlaceByPlace ==
  ASSUME NEW N \in Nat, NEW G, 0 \in G, \A n \in 1..N : n - 1 \in G => n \in G
  PROVE  \A n \in 0..N : n \in G
<1> DEFINE Bad == (0..N) \ G
<1> SUFFICES ASSUME Bad # {} PROVE FALSE  OBVIOUS
<1>1. IsWellFoundedOn(OpToRel(<, Nat), Nat)  BY NatLessThanWellFounded
<1>2. Bad \subseteq Nat  OBVIOUS
<1> HIDE DEF Bad
<1>3. PICK n \in Bad : \A m \in Bad : ~(<<m, n>> \in OpToRel(<, Nat))  BY <1>1, <1>2, WFMin
<1>4. \A m \in Bad : ~(m < n)
  <2>1. \A m, k \in Nat : m < k => <<m, k>> \in OpToRel(<, Nat)  BY DEF OpToRel
  <2> QED BY <1>2, <1>3, <2>1
<1>5. n \in 1..N /\ n \notin G
  <2>1. n \in 0..N /\ n \notin G /\ n # 0  BY <1>3 DEF Bad
  <2> QED BY <2>1
<1>6. n - 1 \in 0..N /\ n - 1 < n  BY <1>5
<1> QED BY <1>4, <1>5, <1>6 DEF Bad

\* A loop over a list's places, from a value, has a value after each of them.
Runs(N, V, base, step) == \E g \in [0..N -> V] : g[0] = base /\ \A n \in 1..N : g[n] = step[n][g[n - 1]]
LEMMA LoopRuns ==
  ASSUME NEW N \in Nat, NEW V, NEW base \in V, NEW step,
         \A n \in 1..N, v \in V : step[n][v] \in V
  PROVE  Runs(N, V, base, step)
<1> DEFINE R(m) == \E g \in [0..m -> V] : g[0] = base /\ \A n \in 1..m : g[n] = step[n][g[n - 1]]
           G == {m \in 0..N : R(m)}
<1>1. R(0)
  <2> DEFINE g == [n \in 0..0 |-> base]
  <2>1. g \in [0..0 -> V] /\ g[0] = base /\ \A n \in 1..0 : g[n] = step[n][g[n - 1]]  OBVIOUS
  <2> QED BY <2>1
<1>2. ASSUME NEW m \in 1..N, R(m - 1) PROVE R(m)
  <2>1. PICK g \in [0..(m - 1) -> V] : g[0] = base /\ \A n \in 1..(m - 1) : g[n] = step[n][g[n - 1]]  BY <1>2
  <2>2. m - 1 \in 0..(m - 1) /\ 0 \in 0..(m - 1) /\ 0 # m /\ m \in 0..m  OBVIOUS
  <2>3. g[m - 1] \in V /\ step[m][g[m - 1]] \in V  BY <2>2
  <2> DEFINE h == [n \in 0..m |-> IF n = m THEN step[m][g[m - 1]] ELSE g[n]]
  <2>4. \A n \in 0..m : n # m => n \in 0..(m - 1)  OBVIOUS
  <2>5. h \in [0..m -> V]  BY <2>3, <2>4
  <2>6. h[0] = base /\ h[m] = step[m][g[m - 1]] /\ \A n \in 0..(m - 1) : h[n] = g[n]  BY <2>1, <2>2
  <2> HIDE DEF h
  <2>7. ASSUME NEW n \in 1..m PROVE h[n] = step[n][h[n - 1]]
    <3>1. n - 1 \in 0..(m - 1) /\ (n # m => n \in 1..(m - 1) /\ n \in 0..(m - 1))  OBVIOUS
    <3> QED BY <2>1, <2>6, <3>1
  <2> QED BY <2>5, <2>6, <2>7
<1>3. 0 \in G  BY <1>1
<1>4. ASSUME NEW n \in 1..N, n - 1 \in G PROVE n \in G
  <2>1. R(n - 1)  BY <1>4
  <2>2. R(n)  BY <1>2, <2>1
  <2> QED BY <2>2
<1>5. N \in G
  <2> HIDE DEF G
  <2>1. N \in 0..N  OBVIOUS
  <2> QED BY <1>3, <1>4, <2>1, PlaceByPlace
<1> QED BY <1>5 DEF Runs

LEMMA PooledNumber == ASSUME NEW sizes \in Seq(Nat) PROVE Pooled(sizes) \in Nat
<1> DEFINE N == Len(sizes)
           Sum(g) == [n \in 0..N |-> IF n = 0 THEN 0 ELSE g[n - 1] + sizes[n]]
           sum == CHOOSE s : s = Sum(s)
<1>1. N \in Nat /\ \A n \in 1..N : sizes[n] \in Nat  OBVIOUS
<1>2. Pooled(sizes) = IF Unreadable \in ToSet(sizes) THEN 0 ELSE sum[N]  BY DEF Pooled
<1> HIDE DEF N
<1>3. \E g : g = Sum(g)
  <2> DEFINE step == [n \in 1..N |-> [b \in Nat |-> b + sizes[n]]]
  <2>1. \A n \in 1..N, b \in Nat : step[n][b] \in Nat  BY <1>1
  <2>2. \A n \in 1..N, b \in Nat : step[n][b] = b + sizes[n]  OBVIOUS
  <2> HIDE DEF step
  <2>3. PICK g \in [0..N -> Nat] : g[0] = 0 /\ \A n \in 1..N : g[n] = step[n][g[n - 1]]
    <3> DEFINE none == 0
    <3>1. none \in Nat  OBVIOUS
    <3> HIDE DEF none
    <3>2. Runs(N, Nat, none, step)  BY <1>1, <2>1, <3>1, LoopRuns
    <3> QED BY <3>2 DEF none, Runs
  <2>4. \A n \in 0..N : n = 0 \/ (n \in 1..N /\ n - 1 \in 0..N)  BY <1>1
  <2>5. \A n \in 0..N : g[n] = IF n = 0 THEN 0 ELSE g[n - 1] + sizes[n]  BY <2>2, <2>3, <2>4
  <2>6. g = Sum(g)  BY <2>5
  <2> QED BY <2>6
<1>4. sum = Sum(sum)  BY <1>3
<1>5. \A n \in 0..N : sum[n] = IF n = 0 THEN 0 ELSE sum[n - 1] + sizes[n]  BY <1>4
<1> HIDE DEF sum
<1>6. sum[0] \in Nat  BY <1>1, <1>5
<1>7. ASSUME NEW n \in 1..N, sum[n - 1] \in Nat PROVE sum[n] \in Nat
  <2>1. n \in 0..N /\ n # 0 /\ sizes[n] \in Nat  BY <1>1
  <2>2. sum[n] = sum[n - 1] + sizes[n]  BY <1>5, <2>1
  <2> QED BY <1>7, <2>1, <2>2
<1>8. sum[N] \in Nat
  <2> DEFINE G == {n \in 0..N : sum[n] \in Nat}
  <2>1. 0 \in G /\ N \in 0..N  BY <1>1, <1>6
  <2>2. ASSUME NEW n \in 1..N, n - 1 \in G PROVE n \in G  BY <1>1, <1>7, <2>2
  <2>3. N \in G
    <3> HIDE DEF G
    <3> QED BY <1>1, <2>1, <2>2, PlaceByPlace
  <2> QED BY <2>3
<1> QED BY <1>2, <1>8

\* BestVariant's loop finds the largest of the places it looks at.
LEMMA LargestIsLargest ==
  ASSUME NEW sizes \in Seq(Nat), NEW among \in SUBSET DOMAIN sizes
  PROVE  LET b == Largest(sizes, among) IN
         IF among = {} THEN b = 0 ELSE b \in among /\ \A i \in among : sizes[b] >= sizes[i]
<1> DEFINE N == Len(sizes)
           Better(n, b) == IF n \in among /\ (b = 0 \/ sizes[n] > sizes[b]) THEN n ELSE b
           Best(g) == [n \in 0..N |-> IF n = 0 THEN 0 ELSE Better(n, g[n - 1])]
           best == CHOOSE g : g = Best(g)
<1>1. N \in Nat /\ (\A n \in 1..N : sizes[n] \in Nat) /\ among \subseteq 1..N  OBVIOUS
<1>2. Largest(sizes, among) = best[N]  BY DEF Largest
<1> HIDE DEF N
<1>3. \E g : g = Best(g)
  <2> DEFINE step == [n \in 1..N |-> [b \in 0..N |-> Better(n, b)]]
  <2>1. \A n \in 1..N, b \in 0..N : step[n][b] \in 0..N  BY <1>1
  <2>2. \A n \in 1..N, b \in 0..N : step[n][b] = Better(n, b)  OBVIOUS
  <2> HIDE DEF step, Better
  <2>3. PICK g \in [0..N -> 0..N] : g[0] = 0 /\ \A n \in 1..N : g[n] = step[n][g[n - 1]]
    <3> DEFINE none == 0
    <3>1. none \in 0..N  BY <1>1
    <3> HIDE DEF none
    <3>2. Runs(N, 0..N, none, step)  BY <1>1, <2>1, <3>1, LoopRuns
    <3> QED BY <3>2 DEF none, Runs
  <2>4. \A n \in 0..N : n = 0 \/ (n \in 1..N /\ n - 1 \in 0..N)  BY <1>1
  <2>5. \A n \in 0..N : g[n] = IF n = 0 THEN 0 ELSE Better(n, g[n - 1])  BY <2>2, <2>3, <2>4
  <2>6. g = Best(g)  BY <2>5
  <2> QED BY <2>6
<1>4. best = Best(best)  BY <1>3
<1>5. \A n \in 0..N : best[n] = IF n = 0 THEN 0 ELSE Better(n, best[n - 1])
  <2> HIDE DEF Better
  <2> QED BY <1>4
<1> HIDE DEF best
<1> DEFINE Seen(n) == {i \in among : i <= n}
           Right(n) == IF Seen(n) = {} THEN best[n] = 0 ELSE best[n] \in Seen(n) /\ \A i \in Seen(n) : sizes[best[n]] >= sizes[i]
           G == {n \in 0..N : Right(n)}
<1>6. Right(0)
  <2>1. Seen(0) = {} /\ 0 \in 0..N  BY <1>1
  <2> QED BY <1>5, <2>1
<1>7. ASSUME NEW n \in 1..N, Right(n - 1) PROVE Right(n)
  <2>1. Seen(n) = IF n \in among THEN Seen(n - 1) \cup {n} ELSE Seen(n - 1)  BY <1>1
  <2>2. best[n] = Better(n, best[n - 1])
    <3>1. n \in 0..N /\ n # 0  BY <1>1
    <3> HIDE DEF Better
    <3> QED BY <1>5, <3>1
  <2>3. \A i \in among : sizes[i] \in Nat  BY <1>1
  <2>4. n \notin Seen(n - 1) /\ 0 \notin Seen(n - 1) /\ Seen(n - 1) \subseteq among  BY <1>1
  <2>5. CASE Seen(n - 1) = {}
    <3>1. best[n - 1] = 0  BY <1>7, <2>5
    <3>2. best[n] = IF n \in among THEN n ELSE 0  BY <2>2, <3>1
    <3>3. Seen(n) = IF n \in among THEN {n} ELSE {}  BY <2>1, <2>5
    <3> HIDE DEF Seen
    <3> QED BY <2>3, <3>2, <3>3
  <2>6. CASE Seen(n - 1) # {}
    <3> DEFINE b == best[n - 1]
    <3>1. b \in Seen(n - 1) /\ \A i \in Seen(n - 1) : sizes[b] >= sizes[i]  BY <1>7, <2>6
    <3>2. best[n] = IF n \in among /\ sizes[n] > sizes[b] THEN n ELSE b  BY <2>2, <2>4, <3>1
    <3> HIDE DEF Seen, b
    <3>3. b \in among /\ sizes[b] \in Nat  BY <2>3, <2>4, <3>1
    <3>4. Seen(n) # {} /\ best[n] \in Seen(n)  BY <2>1, <3>1, <3>2
    <3>5. ASSUME NEW i \in Seen(n) PROVE sizes[best[n]] >= sizes[i]
      <4>1. i \in among /\ sizes[i] \in Nat /\ (i = n \/ i \in Seen(n - 1))  BY <2>1, <2>3, <2>4
      <4> QED BY <2>3, <3>1, <3>2, <3>3, <4>1
    <3> QED BY <3>4, <3>5
  <2> QED BY <2>5, <2>6
<1>8. Right(N)
  <2>1. 0 \in G /\ N \in 0..N  BY <1>1, <1>6
  <2>2. ASSUME NEW n \in 1..N, n - 1 \in G PROVE n \in G
    <3>1. Right(n - 1)  BY <2>2
    <3>2. Right(n)  BY <1>7, <3>1
    <3> HIDE DEF Right
    <3> QED BY <1>1, <3>2
  <2>3. N \in G
    <3> HIDE DEF G
    <3> QED BY <1>1, <2>1, <2>2, PlaceByPlace
  <2> QED BY <2>3
<1>9. Seen(N) = among  BY <1>1
<1> QED BY <1>2, <1>8, <1>9

\* A listing's models, in the form the lemmas need.
Sized(U) == \A m \in U : m.sizes \in Seq(Nat) /\ m.sizes # <<>> /\ m.score \in Nat

LEMMA RankBounds == ASSUME NEW k, NEW h, NEW size PROVE VariantRank(k, h, size) \in 0..3
<1>1. \A level : FitRank(level) \in 0..3  BY DEF FitRank
<1> QED BY <1>1 DEF VariantRank

\* BestVariant finds what ListingIsBest says the best is, or one as large.
LEMMA BestIsBest ==
  ASSUME NEW k, NEW h, NEW m, m.sizes \in Seq(Nat), m.sizes # <<>>
  PROVE  VariantRank(k, h, m.sizes[BestOf(k, h, m)]) = BestRank(k, h, m)
<1> DEFINE sizes == m.sizes
           usable == {i \in DOMAIN sizes : VariantRank(k, h, sizes[i]) >= 2}
           among == IF usable = {} THEN DOMAIN sizes ELSE usable
           a == BestOf(k, h, m)
           b == BestVariant(k, h, sizes)
<1>1. /\ DOMAIN sizes # {} /\ 0 \notin DOMAIN sizes /\ among \subseteq DOMAIN sizes /\ among # {}
      /\ \A i \in DOMAIN sizes : sizes[i] \in Nat
  <2>1. sizes \in Seq(Nat) /\ Len(sizes) \in Nat \ {0} /\ DOMAIN sizes = 1..Len(sizes)  OBVIOUS
  <2>2. \A i \in 1..Len(sizes) : sizes[i] \in Nat  BY <2>1
  <2>3. 1 \in DOMAIN sizes /\ 0 \notin DOMAIN sizes  BY <2>1
  <2> HIDE DEF sizes
  <2> QED BY <2>1, <2>2, <2>3
<1>2. b = IF Largest(sizes, usable) # 0 THEN Largest(sizes, usable) ELSE Largest(sizes, DOMAIN sizes)  BY DEF BestVariant
<1>3. a = CHOOSE i \in among : \A j \in among : sizes[i] >= sizes[j]  BY DEF BestOf
<1>4. usable \in SUBSET DOMAIN sizes  OBVIOUS
<1> HIDE DEF sizes, usable, a, b
<1>5. b \in among /\ \A j \in among : sizes[b] >= sizes[j]
  <2>1. IF usable = {} THEN Largest(sizes, usable) = 0
        ELSE Largest(sizes, usable) \in usable /\ \A i \in usable : sizes[Largest(sizes, usable)] >= sizes[i]
    BY <1>4, LargestIsLargest DEF sizes
  <2>2. Largest(sizes, DOMAIN sizes) \in DOMAIN sizes /\ \A i \in DOMAIN sizes : sizes[Largest(sizes, DOMAIN sizes)] >= sizes[i]
    BY <1>1, LargestIsLargest DEF sizes
  <2> QED BY <1>1, <1>2, <1>4, <2>1, <2>2
<1>6. a \in among /\ \A j \in among : sizes[a] >= sizes[j]  BY <1>3, <1>5
<1>7. sizes[a] = sizes[b]
  <2>1. sizes[a] >= sizes[b] /\ sizes[b] >= sizes[a] /\ sizes[a] \in Nat /\ sizes[b] \in Nat  BY <1>1, <1>5, <1>6
  <2> QED BY <2>1
<1> QED BY <1>7 DEF BestRank, sizes, a, b

\* A list is some of another, in its order.
Follows(l, models) ==
  \E at \in [DOMAIN l -> DOMAIN models] :
    \A i \in DOMAIN l : l[i] = models[at[i]] /\ \A j \in DOMAIN l : j < i => at[j] < at[i]

\* A loop that appends the models it keeps.
LEMMA KeepProperties ==
  ASSUME NEW U, NEW models \in Seq(U), NEW S \in SUBSET DOMAIN models
  PROVE  /\ Keep(models, S) \in Seq(U) /\ ToSet(Keep(models, S)) = {models[i] : i \in S}
         /\ Follows(Keep(models, S), models)
<1> DEFINE R == {e \in S \X S : e[1] < e[2]}
           l == InOrder(S, R)
           n == Cardinality(S)
<1>1. S \subseteq 1..Len(models) /\ Len(models) \in Nat /\ DOMAIN models = 1..Len(models) /\ \A i \in S : models[i] \in U  OBVIOUS
<1>2. IsFiniteSet(S)
  <2>1. IsFiniteSet(1..Len(models))  BY <1>1, FS_Interval
  <2> QED BY <1>1, <2>1, FS_Subset
<1>3. Orders(R, S)
  <2>1. \A i, j \in S : <<i, j>> \in R <=> i < j  OBVIOUS
  <2>2. \A i \in S : i \in Nat  BY <1>1
  <2> HIDE DEF R
  <2> QED BY <2>1, <2>2 DEF Orders
<1> HIDE DEF R, l, n
<1>4. /\ n \in Nat /\ l \in [1..n -> S] /\ \A i \in S : \E m \in 1..n : l[m] = i
      /\ \A i, j \in 1..n : i < j => <<l[i], l[j]>> \in R
  BY <1>2, <1>3, InOrderProperties DEF l, n
<1>5. Keep(models, S) = [m \in 1..n |-> models[l[m]]]  BY <1>4 DEF Keep, Take, R, l
<1>6. Keep(models, S) \in [1..n -> U]  BY <1>1, <1>4, <1>5
<1>7. Keep(models, S) \in Seq(U)  BY <1>4, <1>6
<1>8. ToSet(Keep(models, S)) = {models[i] : i \in S}
  <2>1. ToSet(Keep(models, S)) = {models[l[m]] : m \in 1..n}  BY <1>5 DEF ToSet
  <2>2. \A m \in 1..n : l[m] \in S  BY <1>4
  <2> QED BY <1>4, <2>1, <2>2
<1>9. Follows(Keep(models, S), models)
  <2>1. DOMAIN Keep(models, S) = 1..n /\ \A i \in 1..n : Keep(models, S)[i] = models[l[i]]  BY <1>5
  <2>2. l \in [1..n -> DOMAIN models]  BY <1>1, <1>4
  <2>3. \A i, j \in 1..n : j < i => l[j] < l[i]  BY <1>4 DEF R
  <2> QED BY <2>1, <2>2, <2>3 DEF Follows
<1> QED BY <1>7, <1>8, <1>9

\* The page's order: all the models are there, the best by what was asked first.
LEMMA SortProperties ==
  ASSUME NEW U, \A m \in U : m.score \in Nat, NEW models \in Seq(U), NEW k, NEW h, NEW by, by # "given"
  PROVE  LET l == SortCatalog(k, h, by, models) IN
         /\ l \in Seq(U) /\ ToSet(l) = ToSet(models)
         /\ \A i \in 2..Len(l) : CatalogOrder(k, h, by, l[i - 1]) >= CatalogOrder(k, h, by, l[i])
<1> DEFINE S == DOMAIN models
           rank == [i \in S |-> CatalogOrder(k, h, by, models[i])]
           R == {e \in S \X S : rank[e[1]] > rank[e[2]] \/ (rank[e[1]] = rank[e[2]] /\ e[1] < e[2])}
           l == InOrder(S, R)
           n == Cardinality(S)
           sorted == SortCatalog(k, h, by, models)
<1>1. S = 1..Len(models) /\ Len(models) \in Nat /\ \A i \in S : models[i] \in U  OBVIOUS
<1>2. IsFiniteSet(S)  BY <1>1, FS_Interval
<1>3. \A i \in S : rank[i] = CatalogOrder(k, h, by, models[i]) /\ rank[i] \in Nat
  <2>1. \A m : BestRank(k, h, m) \in Nat  BY RankBounds DEF BestRank
  <2> QED BY <1>1, <2>1 DEF CatalogOrder
<1>4. \A i, j \in S : <<i, j>> \in R <=> rank[i] > rank[j] \/ (rank[i] = rank[j] /\ i < j)  OBVIOUS
<1>5. sorted = Take(models, l)  BY DEF SortCatalog
<1> HIDE DEF S, rank, R, l, n, sorted
<1>6. Orders(R, S)
  <2>1. \A i \in S : i \in Nat /\ rank[i] \in Nat  BY <1>1, <1>3
  <2>2. \A i \in S : <<i, i>> \notin R  BY <1>4, <2>1
  <2>3. \A i, j \in S : i # j => <<i, j>> \in R \/ <<j, i>> \in R  BY <1>4, <2>1
  <2>4. ASSUME NEW i \in S, NEW j \in S, NEW m \in S, <<i, j>> \in R, <<j, m>> \in R PROVE <<i, m>> \in R
    <3>1. i \in Nat /\ j \in Nat /\ m \in Nat /\ rank[i] \in Nat /\ rank[j] \in Nat /\ rank[m] \in Nat  BY <2>1
    <3>2. /\ rank[i] > rank[j] \/ (rank[i] = rank[j] /\ i < j)
          /\ rank[j] > rank[m] \/ (rank[j] = rank[m] /\ j < m)
      BY <1>4, <2>4
    <3>3. rank[i] > rank[m] \/ (rank[i] = rank[m] /\ i < m)  BY <3>1, <3>2
    <3> QED BY <1>4, <3>3
  <2> QED BY <2>2, <2>3, <2>4 DEF Orders
<1>7. /\ n \in Nat /\ l \in [1..n -> S] /\ \A i \in S : \E m \in 1..n : l[m] = i
      /\ \A i, j \in 1..n : i < j => <<l[i], l[j]>> \in R
  BY <1>2, <1>6, InOrderProperties DEF l, n
<1>8. sorted = [m \in 1..n |-> models[l[m]]]  BY <1>5, <1>7 DEF Take
<1>9. sorted \in [1..n -> U]  BY <1>1, <1>7, <1>8
<1>10. sorted \in Seq(U) /\ Len(sorted) = n  BY <1>7, <1>9
<1>11. ToSet(sorted) = ToSet(models)  BY <1>7, <1>8 DEF ToSet, S
<1>12. ASSUME NEW i \in 2..n PROVE CatalogOrder(k, h, by, sorted[i - 1]) >= CatalogOrder(k, h, by, sorted[i])
  <2>1. i \in 1..n /\ i - 1 \in 1..n /\ i - 1 < i  BY <1>7
  <2>2. l[i] \in S /\ l[i - 1] \in S /\ <<l[i - 1], l[i]>> \in R  BY <1>7, <2>1
  <2>3. rank[l[i - 1]] > rank[l[i]] \/ rank[l[i - 1]] = rank[l[i]]  BY <1>4, <2>2
  <2>4. rank[l[i]] \in Nat /\ rank[l[i - 1]] \in Nat  BY <1>3, <2>2
  <2>5. sorted[i - 1] = models[l[i - 1]] /\ sorted[i] = models[l[i]]  BY <1>8, <2>1
  <2> QED BY <1>3, <2>2, <2>3, <2>4, <2>5
<1> QED BY <1>10, <1>11, <1>12 DEF sorted

\* The models of a page have variants, with their sizes.
LEMMA ModelsSized ==
  ASSUME NEW k, NEW models \in Listings
  PROVE  \E U : Sized(U) /\ Models(k, models) \in Seq(U)
<1> DEFINE N == Len(models)
           listing == [i \in DOMAIN models |-> Variants(k, models[i])]
           S == {i \in DOMAIN models : listing[i].sizes # <<>>}
           All == {listing[i] : i \in 1..N}
<1>1. /\ N \in Nat /\ DOMAIN models = 1..N
      /\ \A i \in 1..N : LET m == models[i] IN
           m = [id |-> m.id, mlx |-> m.mlx, sizes |-> m.sizes, score |-> m.score] /\ m.sizes \in Seq(Nat) /\ m.score \in Nat
  BY ListingsOK
<1>2. ASSUME NEW i \in 1..N PROVE listing[i].sizes \in Seq(Nat) /\ listing[i].score \in Nat
  <2> DEFINE m == models[i]
             sizes == CASE k = "llamacpp" -> GGUFVariants(m) [] k = "mlx" -> MLXVariants(m) [] OTHER -> <<>>
  <2>1. m = [id |-> m.id, mlx |-> m.mlx, sizes |-> m.sizes, score |-> m.score] /\ m.sizes \in Seq(Nat) /\ m.score \in Nat  BY <1>1
  <2>2. <<>> \in Seq(Nat) /\ Pooled(m.sizes) \in Nat  BY <2>1, PooledNumber
  <2>3. GGUFVariants(m) \in Seq(Nat)  BY <2>1, <2>2 DEF GGUFVariants
  <2>4. MLXVariants(m) \in Seq(Nat)  BY <2>2 DEF MLXVariants
  <2>5. sizes \in Seq(Nat)  BY <2>2, <2>3, <2>4
  <2>6. listing[i] = [m EXCEPT !.sizes = sizes]  BY <1>1 DEF Variants
  <2> HIDE DEF sizes, listing
  <2>7. listing[i].sizes = sizes /\ listing[i].score = m.score
    <3>1. "sizes" \in DOMAIN m /\ "score" \in DOMAIN m  BY <2>1
    <3> HIDE DEF m
    <3> QED BY <2>6, <3>1
  <2> QED BY <2>1, <2>5, <2>7
<1>3. S \subseteq 1..N /\ \A i \in S : listing[i].sizes # <<>>  BY <1>1
<1>4. Models(k, models) = Keep(listing, S)  BY DEF Models
<1>5. listing \in Seq(All) /\ DOMAIN listing = 1..N
  <2>1. listing \in [1..N -> All]  BY <1>1
  <2> HIDE DEF listing, All
  <2> QED BY <1>1, <2>1
<1> HIDE DEF listing, S, N
<1> DEFINE U == {m \in All : m.sizes # <<>>}
<1>6. Keep(listing, S) \in Seq(All) /\ ToSet(Keep(listing, S)) = {listing[i] : i \in S}
  <2> HIDE DEF All
  <2> QED BY <1>3, <1>5, KeepProperties
<1>7. Keep(listing, S) \in Seq(U)
  <2> DEFINE l == Keep(listing, S)
  <2>0. {listing[j] : j \in S} \subseteq U  BY <1>3
  <2>1. \A i \in DOMAIN l : l[i] \in ToSet(l)  BY DEF ToSet
  <2>2. \A i \in DOMAIN l : l[i] \in U  BY <1>6, <2>0, <2>1
  <2> HIDE DEF All, U, l
  <2>3. l \in Seq(All)  BY <1>6 DEF l
  <2>4. l \in Seq(U)  BY <2>2, <2>3
  <2> QED BY <2>4 DEF l
<1>8. Sized(U)  BY <1>2 DEF Sized
<1> QED BY <1>4, <1>7, <1>8

\* What a listing of those models for a host says.
LEMMA FilterProperties ==
  ASSUME NEW U, Sized(U), NEW models \in Seq(U), NEW k, NEW h, NEW min \in {0, 2, 3}
  PROVE  LET l == FilterByFit(k, h, models, min) IN
         /\ l \in Seq(U) /\ Follows(l, models)
         /\ \A i \in DOMAIN models : models[i] \in ToSet(l) <=> BestRank(k, h, models[i]) >= min
<1>1. \A m : BestRank(k, h, m) >= 0 /\ BestRank(k, h, m) \in Nat  BY RankBounds DEF BestRank
<1>2. CASE min = 0
  <2>1. FilterByFit(k, h, models, min) = models  BY <1>2 DEF FilterByFit
  <2>2. \A i \in DOMAIN models : models[i] \in ToSet(models)  BY DEF ToSet
  <2>3. Follows(models, models)
    <3> DEFINE at == [i \in DOMAIN models |-> i]
    <3>1. at \in [DOMAIN models -> DOMAIN models] /\ \A i \in DOMAIN models : at[i] = i  OBVIOUS
    <3> HIDE DEF at
    <3> QED BY <3>1 DEF Follows
  <2> QED BY <1>1, <1>2, <2>1, <2>2, <2>3
<1>3. CASE min # 0
  <2> DEFINE S == {i \in DOMAIN models : BestRank(k, h, models[i]) >= min}
  <2>1. FilterByFit(k, h, models, min) = Keep(models, S)  BY <1>3 DEF FilterByFit
  <2>2. Keep(models, S) \in Seq(U) /\ ToSet(Keep(models, S)) = {models[i] : i \in S} /\ Follows(Keep(models, S), models)
    BY KeepProperties
  <2>3. \A i \in DOMAIN models : models[i] \in {models[j] : j \in S} <=> BestRank(k, h, models[i]) >= min  OBVIOUS
  <2> QED BY <2>1, <2>2, <2>3
<1> QED BY <1>2, <1>3

LEMMA Lists == ASSUME ListModelCatalog PROVE ListingIsBest'
<1>1. PICK k \in {"llamacpp", "mlx", "strata"}, h \in Hosts, given \in Listings, min \in {0, 2, 3}, by \in SortKeys :
        page' = Page(k, h, given, min, by)
  BY DEF ListModelCatalog
<1> DEFINE models == Models(k, given)
           kept == FilterByFit(k, h, models, min)
           listed == SortCatalog(k, h, by, kept)
<1>2. /\ page'.key = k /\ page'.host = h /\ page'.models = models /\ page'.min = min /\ page'.by = by
      /\ page'.listed = listed
  BY <1>1 DEF Page, Listed
<1> HIDE DEF models
<1>3. PICK U : Sized(U) /\ models \in Seq(U)  BY ModelsSized DEF models
<1> HIDE DEF kept
<1>4. /\ kept \in Seq(U) /\ Follows(kept, models)
      /\ \A i \in DOMAIN models : models[i] \in ToSet(kept) <=> BestRank(k, h, models[i]) >= min
  BY <1>3, FilterProperties DEF kept
<1> HIDE DEF listed
<1>5. /\ listed \in Seq(U) /\ ToSet(listed) = ToSet(kept)
      /\ by # "given" => \A i \in 2..Len(listed) : CatalogOrder(k, h, by, listed[i - 1]) >= CatalogOrder(k, h, by, listed[i])
      /\ by = "given" => listed = kept
  <2>1. CASE by = "given"  BY <1>4, <2>1 DEF listed, SortCatalog
  <2>2. CASE by # "given"  BY <1>3, <1>4, <2>2, SortProperties DEF listed, Sized
  <2> QED BY <2>1, <2>2
<1>6. \A m \in U : VariantRank(k, h, m.sizes[BestOf(k, h, m)]) = BestRank(k, h, m) /\ m.sizes # <<>>
  BY <1>3, BestIsBest DEF Sized
<1>7. \A i \in DOMAIN models :
        models[i] \in ToSet(listed) <=> models[i].sizes # <<>> /\ VariantRank(k, h, models[i].sizes[BestOf(k, h, models[i])]) >= min
  <2>1. \A i \in DOMAIN models : models[i] \in U  BY <1>3
  <2> QED BY <1>4, <1>5, <1>6, <2>1
<1>8. by = "fit" => \A i \in 2..Len(listed) :
        VariantRank(k, h, listed[i - 1].sizes[BestOf(k, h, listed[i - 1])]) >= VariantRank(k, h, listed[i].sizes[BestOf(k, h, listed[i])])
  <2>1. \A i \in 2..Len(listed) : listed[i - 1] \in U /\ listed[i] \in U  BY <1>5
  <2> QED BY <1>5, <1>6, <2>1 DEF CatalogOrder
<1>9. by = "score" => \A i \in 2..Len(listed) : listed[i - 1].score >= listed[i].score  BY <1>5 DEF CatalogOrder
<1>10. by = "given" => Follows(listed, models)  BY <1>4, <1>5
<1> QED BY <1>2, <1>7, <1>8, <1>9, <1>10 DEF ListingIsBest, Follows

-----------------------------------------------------------------------------
(* Theorems                                                                *)

IInv == RefreshInv /\ KVInv /\ Snapshots

\* What each of the three parts depends on.
LEMMA RefreshFrame ==
  ASSUME RefreshInv, UNCHANGED <<remote, calls, busy, cache, last>>, work' \in Nat PROVE RefreshInv'
BY DEF RefreshInv, CallsOK, Claims, Fresh
LEMMA KVFrame ==
  ASSUME KVInv, UNCHANGED <<disk, stage, mtime, rewound, entries, gets>>, work' \in Nat PROVE KVInv'
BY DEF KVInv, Times, Parsed, KVIsCurrent
LEMMA SnapshotsFrame ==
  ASSUME Snapshots, UNCHANGED <<snap, local, uses>>, remote' \in Nat \ {0}, uses = "snapshots" => remote' <= Len(Trees)
  PROVE  Snapshots'
BY DEF Snapshots, Pinned

LEMMA Initially == Init => IInv
<1> SUFFICES ASSUME Init PROVE IInv  OBVIOUS
<1>1. CallsOK
  <2>1. cache = [k \in Keys |-> [v |-> 0, at |-> 0]] /\ calls = {} /\ remote = 1 /\ work = 0  BY DEF Init, NoEntry
  <2>2. CacheOK(cache)  BY <2>1 DEF CacheOK
  <2>3. last \in [key : Keys, v : Nat, asked : Nat, refresh : BOOLEAN]  BY DEF Init
  <2> QED BY <2>1, <2>2, <2>3 DEF CallsOK
<1>2. Claims /\ Fresh  BY DEF Init, Claims, Fresh
<1>3. KVInv
  <2>1. /\ disk = [f \in Files |-> Gone] /\ stage = [f \in Files |-> 0] /\ gets = {} /\ mtime = [f \in Files |-> 0] /\ work = 0
        /\ entries = [f \in Files |-> [m |-> 0, kv |-> 0]]
    BY DEF Init
  <2>2. Gone \in [c : Content, m : Nat]  BY DEF Gone, Content
  <2>3. Times  BY <2>1, <2>2 DEF Times, Content
  <2>4. Parsed /\ KVIsCurrent  BY <2>1 DEF Parsed, KVIsCurrent
  <2> QED BY <2>3, <2>4 DEF KVInv
<1>4. Snapshots
  <2>1. snap = NoSnap /\ local = Absent /\ remote = 1  BY DEF Init
  <2>2. NoTree = [n \in DOMAIN NoTree |-> NoTree[n]]  BY DEF NoTree
  <2>3. Pinned(NoSnap)  BY <2>2 DEF Pinned, NoSnap
  <2>4. local.rev = Main  BY <2>1 DEF Absent
  <2> QED BY <2>1, <2>3, <2>4, CatalogOK DEF Snapshots
<1> QED BY <1>1, <1>2, <1>3, <1>4 DEF IInv, RefreshInv

LEMMA Preserved == IInv /\ [Next]_vars => IInv'
<1> SUFFICES ASSUME IInv, [Next]_vars PROVE IInv'  OBVIOUS
<1>0. /\ RefreshInv /\ KVInv /\ Snapshots /\ work \in Nat /\ remote \in Nat \ {0}
      /\ (uses = "snapshots" => remote <= Len(Trees)) /\ Len(Trees) \in Nat
  BY CatalogOK DEF IInv, RefreshInv, CallsOK, Snapshots
<1>1. CASE uses = "catalog" /\ CatalogStep /\ UNCHANGED snapVars /\ UNCHANGED uses
  <2>1. RefreshInv'  BY <1>0, <1>1, CatalogSteps
  <2>2. remote' \in Nat \ {0} /\ work' \in Nat  BY <2>1 DEF RefreshInv, CallsOK
  <2>3. UNCHANGED <<disk, stage, mtime, rewound, entries, gets>>
    BY <1>1 DEF CatalogStep, Search, Subscribe, WatchModelCatalog, RemoteChanges, Tick, Claim, Fetch, Store, SearchFails, Publish, Release,
                fileVars, kvVars
  <2>4. KVInv'  BY <1>0, <2>2, <2>3, KVFrame
  <2>5. Snapshots'  BY <1>0, <1>1, <2>2, SnapshotsFrame DEF snapVars
  <2> QED BY <2>1, <2>4, <2>5 DEF IInv
<1>2. CASE uses = "listing" /\ ListModelCatalog /\ UNCHANGED snapVars /\ UNCHANGED uses
  <2>1. UNCHANGED <<catalogVars, fileVars, kvVars>> /\ work' = work + 1  BY <1>2 DEF ListModelCatalog, Works
  <2> QED BY <1>0, <1>2, <2>1, RefreshFrame, KVFrame, SnapshotsFrame DEF IInv, catalogVars, fileVars, kvVars, snapVars
<1>3. CASE uses = "files" /\ FileStep /\ UNCHANGED uses
  <2>1. UNCHANGED <<catalogVars, snap, local>>  BY <1>3 DEF FileStep
  <2>2. KVInv'  BY <1>0, <1>3, FileSteps
  <2>3. work' \in Nat  BY <2>2 DEF KVInv, Times
  <2> QED BY <1>0, <1>3, <2>1, <2>2, <2>3, RefreshFrame, SnapshotsFrame DEF IInv, catalogVars
<1>4. CASE uses = "files" /\ KVStep /\ UNCHANGED snapVars /\ UNCHANGED uses
  <2>1. UNCHANGED catalogVars  BY <1>4 DEF KVStep
  <2>2. KVInv'  BY <1>0, <1>4, KVSteps
  <2>3. work' \in Nat  BY <2>2 DEF KVInv, Times
  <2> QED BY <1>0, <1>4, <2>1, <2>2, <2>3, RefreshFrame, SnapshotsFrame DEF IInv, catalogVars, snapVars
<1>5. CASE uses = "snapshots" /\ SnapshotStep /\ UNCHANGED uses
  <2>1. UNCHANGED <<catalogVars, fileVars, kvVars>>  BY <1>5 DEF SnapshotStep
  <2>2. work' \in Nat  BY <1>0, <1>5 DEF SnapshotStep, Resolve, FetchItem, FinishSnapshot, FetchFails, DeleteSnapshot, Works
  <2>3. Snapshots'  BY <1>0, <1>5, SnapshotSteps
  <2> QED BY <1>0, <2>1, <2>2, <2>3, RefreshFrame, KVFrame DEF IInv, catalogVars, fileVars, kvVars
<1>6. CASE uses = "snapshots" /\ RemoteChanges /\ UNCHANGED snapVars /\ UNCHANGED uses
  <2>1. RefreshInv'  BY <1>0, <1>6, CatalogSteps DEF CatalogStep
  <2>2. UNCHANGED <<fileVars, kvVars, work>> /\ remote' = remote + 1 /\ remote < Len(Trees)  BY <1>6 DEF RemoteChanges
  <2>3. remote' <= Len(Trees) /\ remote' \in Nat \ {0}  BY <1>0, <2>2
  <2> QED BY <1>0, <1>6, <2>1, <2>2, <2>3, KVFrame, SnapshotsFrame DEF IInv, fileVars, kvVars, snapVars
<1>7. CASE Restart /\ UNCHANGED uses
  <2>1. /\ calls' = {} /\ busy' = {} /\ gets' = {} /\ entries' = [f \in Files |-> [m |-> 0, kv |-> 0]]
        /\ snap' = [snap EXCEPT !.got = NoTree] /\ UNCHANGED <<remote, cache, last, disk, stage, mtime, rewound, local, work>>
    BY <1>7 DEF Restart, fileVars
  <2>2. RefreshInv'
    <3>1. CallsOK' /\ Claims' /\ Fresh'  BY <1>0, <2>1 DEF RefreshInv, CallsOK, Claims, Fresh
    <3> QED BY <3>1 DEF RefreshInv
  <2>3. KVInv'
    <3>1. \A f \in Files : entries'[f].m = 0 /\ (disk[f] # Gone => disk[f].m # 0)  BY <1>0, <2>1 DEF KVInv, Times
    <3>2. Times'  BY <1>0, <2>1 DEF KVInv, Times
    <3>3. Parsed' /\ KVIsCurrent'  BY <2>1, <3>1 DEF Parsed, KVIsCurrent
    <3> QED BY <3>2, <3>3 DEF KVInv
  <2>4. Pinned(snap)'
    <3>1. NoTree = [n \in DOMAIN NoTree |-> NoTree[n]] /\ DOMAIN NoTree = {}  BY DEF NoTree
    <3>2. snap' = [pc |-> snap.pc, names |-> snap.names, rev |-> snap.rev, want |-> snap.want, got |-> NoTree]
      BY <1>0, <2>1 DEF Snapshots, Pinned
    <3>3. snap'.names = snap.names /\ snap'.rev = snap.rev /\ snap'.got = NoTree  BY <3>2
    <3>4. snap' = [pc |-> snap'.pc, names |-> snap'.names, rev |-> snap'.rev, want |-> snap'.want, got |-> snap'.got]  BY <3>2
    <3> QED BY <1>0, <3>1, <3>3, <3>4 DEF Snapshots, Pinned
  <2>5. Snapshots'  BY <1>0, <1>7, <2>1, <2>4 DEF Snapshots
  <2> QED BY <2>2, <2>3, <2>5 DEF IInv
<1>8. CASE UNCHANGED vars
  BY <1>0, <1>8, RefreshFrame, KVFrame, SnapshotsFrame DEF IInv, vars, catalogVars, fileVars, snapVars, kvVars
<1> QED BY <1>1, <1>2, <1>3, <1>4, <1>5, <1>6, <1>7, <1>8 DEF Next

LEMMA Invariance == Spec => []IInv
BY Initially, Preserved, PTL DEF Spec

\* However many stale reads of a key there are, one refresh of it is under way or
\* none, a refresh that fails gives the key up again, and a read that asks for a
\* refresh gets nothing older than what the catalog had when it asked
\* (Client.Search, refresh).
THEOREM RefreshesAreSound == Spec => []RefreshIsSound
<1>1. ASSUME IInv PROVE RefreshIsSound
  <2>1. CallsOK /\ Claims /\ Fresh  BY <1>1 DEF IInv, RefreshInv
  <2>2. ASSUME NEW k \in Keys
        PROVE  Cardinality({x \in calls : x.key = k /\ x.kind = "refresh" /\ x.pc # "claim"}) = IF k \in busy THEN 1 ELSE 0
    <3> DEFINE S == {x \in calls : x.key = k /\ x.kind = "refresh" /\ x.pc # "claim"}
    <3>1. CASE k \in busy
      <4>1. PICK x \in calls : Refreshes(x, k)  BY <2>1, <3>1 DEF Claims
      <4>2. S = {x}  BY <2>1, <4>1 DEF Claims, Refreshes
      <4> HIDE DEF S
      <4>3. Cardinality(S) = 1  BY <4>2, FS_Singleton
      <4> QED BY <3>1, <4>3 DEF S
    <3>2. CASE k \notin busy
      <4>1. S = {}  BY <2>1, <3>2 DEF Claims
      <4> HIDE DEF S
      <4>2. Cardinality(S) = 0  BY <4>1, FS_EmptySet
      <4> QED BY <3>2, <4>2 DEF S
    <3> QED BY <3>1, <3>2
  <2> QED BY <2>1, <2>2 DEF Fresh, RefreshIsSound
<1> QED BY <1>1, Invariance, PTL

\* The memory cache never answers for a content that a file no longer has, if the file was
\* never given a time that it, or a newer content of it, has had before; although
\* the file may be replaced between the look at its time and its parse: an entry
\* is kept under the time read first (ggufKVCache.get).
THEOREM CacheIsCurrent == Spec => []KVIsCurrent
<1>1. IInv => KVIsCurrent  BY DEF IInv, KVInv
<1> QED BY <1>1, Invariance, PTL

\* A snapshot that is listed under a commit is that commit's tree, however the
\* repository moves between its files and whatever restarts there are
\* (the MLX backend's Resolve and pinnedRevision).
THEOREM SnapshotsAreWhole == Spec => []SnapshotIsWhole
<1>1. IInv => SnapshotIsWhole  BY DEF IInv, Snapshots, SnapshotIsWhole
<1> QED BY <1>1, Invariance, PTL

\* Whatever a search answered and whatever the host has, a page shows each model as its
\* best variant is for that host, leaves out exactly those below what was asked for, and
\* has them in the order asked for, the best first, or the source's (ListModelCatalog, FilterByFit, SortCatalog, BestVariant).
THEOREM ListingsAreBest == Spec => []ListingIsBest
<1>1. Init => ListingIsBest
  <2> SUFFICES ASSUME Init PROVE ListingIsBest  OBVIOUS
  <2>1. page.models = <<>> /\ page.listed = <<>>  BY DEF Init
  <2>2. DOMAIN <<>> = {} /\ Len(<<>>) = 0  OBVIOUS
  <2>3. ASSUME page.by = "given" PROVE Follows(page.listed, page.models)
    <3> DEFINE at == [i \in DOMAIN page.listed |-> i]
    <3>1. at \in [DOMAIN page.listed -> DOMAIN page.models]  BY <2>1
    <3> HIDE DEF at
    <3> QED BY <2>1, <2>2, <3>1 DEF Follows
  <2> QED BY <2>1, <2>2, <2>3 DEF ListingIsBest, Follows
<1>2. ASSUME ListingIsBest, [Next]_vars PROVE ListingIsBest'
  <2>1. page' = page \/ ListModelCatalog  BY <1>2 DEF Next, vars
  <2>2. ASSUME page' = page PROVE ListingIsBest'  BY <1>2, <2>2 DEF ListingIsBest
  <2> QED BY <2>1, <2>2, Lists
<1> QED BY <1>1, <1>2, PTL DEF Spec
=============================================================================
