---------------------------- MODULE MCGenerated ----------------------------
EXTENDS Generated, TLC

Symm == Permutations(Names)

MCCanon == [k \in RawKeys |-> IF k = "batch" THEN "batch-size" ELSE k]
\* A reference picks the file of a repository; a path names itself.
MCPathOf == [f \in Sources \X (Refs \cup {No}) |-> IF f[2] = No THEN f[1] ELSE "a.gguf"]
MCScalar == [v \in Values |-> IF v = "0x1" THEN "1" ELSE v]
=============================================================================
