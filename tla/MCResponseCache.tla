--------------------------- MODULE MCResponseCache ---------------------------
(* Instances of ResponseCache for TLC.                                     *)
EXTENDS ResponseCache, TLC

(* Readers, writers and keys are interchangeable.                          *)
CacheSymmetry ==
    Permutations(Readers) \cup Permutations(Writers) \cup Permutations(Keys)
==============================================================================
