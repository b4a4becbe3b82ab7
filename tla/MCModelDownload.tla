-------------------------- MODULE MCModelDownload --------------------------
(* An instance of DuplicateStart for TLC: jobs for a single file, with every *)
(* fault, or for a directory while the daemon stays up.  Both jobs of a      *)
(* behaviour have the same target, since that is where jobs meet, and at most*)
(* one of them fails to write a record.  A second daemon is started at most  *)
(* once, beside one that stays up, for a file that nobody deletes, from a    *)
(* server that keeps to its first version and ends no transfer early.        *)
EXTENDS DuplicateStart

Stays == up' /\ serves' = serves
About(t) ==
  /\ caller'.target \in {"none", t} /\ \A j \in Jobs : req'[j].target \in {"none", t}
  /\ \A u \in Targets \ {t} : serves'[u] = serves[u]
  /\ t \in Multi => Stays /\ ~met'
SameTarget == Cardinality(stale') <= 1 /\ \E t \in Targets : About(t)

CutShort(w) ==
  \E j \in Jobs : w'[j].err = "failed" /\ (w[j].pc = "copy" \/ (w[j].pc = "get" /\ Offset(T(j)) < Size))
Steady ==
  /\ Stays /\ stale' = {} /\ (\A t \in Targets : serves[t] = 1)
  /\ ~CutShort(work) /\ ~CutShort(work2) /\ ~\E t \in Targets : UserDeletes(t)
SecondOnce == met' => Steady /\ (met /\ ~up2 => ~up2')

MCSpec == DInit /\ [][DNext /\ SameTarget /\ SecondOnce]_dvars /\ Fairness
=============================================================================
