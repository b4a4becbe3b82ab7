---------------------------- MODULE MCDocuments ----------------------------
EXTENDS Documents, TLC

CONSTANTS c1, c2, p, q

Symmetry == Permutations({c1, c2}) \cup Permutations({p, q})

D(ok, b, s) == [ok |-> ok, backend |-> b, addr |-> "a", source |-> s, note |-> "n"]

\* Two sources that are downloaded to the same file, and an invalid document.
MCTarget(s) == IF s = "hub:m1" THEN "m1" ELSE s
MCDocs == {D(TRUE, "R", "m1"), D(TRUE, "R", "hub:m1"), D(FALSE, "R", "m1")}
MCHandCfgs ==
  {[auto |-> {}, services |-> {"web"}, bind |-> b, noauth |-> TRUE, allow |-> FALSE] : b \in {"loopback", "network", "odd"}}
  \cup {[auto |-> {}, services |-> {"bogus"}, bind |-> "network", noauth |-> TRUE, allow |-> FALSE]}
=============================================================================
