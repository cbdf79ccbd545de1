------------------------------- MODULE MCLru -------------------------------
(* Model checking of Lru: four keys, and node sizes of which one is larger   *)
(* than the memory limit on its own, so that a value can evict itself.       *)
EXTENDS Lru
=============================================================================
