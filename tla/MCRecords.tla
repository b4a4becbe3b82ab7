----------------------------- MODULE MCRecords -----------------------------
EXTENDS Records

CONSTANTS g, h

MCSymmetry == Permutations({g, h})
=============================================================================
