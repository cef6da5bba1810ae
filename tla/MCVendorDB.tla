----------------------------- MODULE MCVendorDB -----------------------------
(* Model-checking instance of VendorDB: three keys and a cache of two, so  *)
(* that eviction, a partly filled cache and cache warming all occur.       *)
EXTENDS VendorDB

CONSTANTS k1, k2, k3

MCKeys == {k1, k2, k3}

MCSymmetry == Permutations(MCKeys)
=============================================================================
