-------------------------- MODULE MCCacheControl --------------------------
(* One repository of one cache. *)
EXTENDS CacheControl, TLC

ControlSymmetry == Permutations(Digests) \cup Permutations(Syncers)
=============================================================================
