----------------------------- MODULE MCInstall -----------------------------
(* Releases for TLC: three that install, one that does not run, and one     *)
(* whose archive is refused.                                                *)
EXTENDS Install

Good == [assets |-> Accels, digest |-> "right", entries |-> {"file", "link"}, exes |-> 1, runs |-> TRUE]

MCReleases ==
  [v \in Versions |->
     CASE v = "dud"  -> [Good EXCEPT !.runs = FALSE]
       [] v = "odd"  -> [Good EXCEPT !.entries = {"file", "device"}]
       [] OTHER      -> Good]
=============================================================================
