-------------------------- MODULE MCPpposCounters --------------------------
(* TLC checks PpposCounters with counters that wrap around after a few      *)
(* bytes.  The callers are interchangeable.                                 *)
EXTENDS PpposCounters, TLC

Symmetry == Permutations(Callers)
============================================================================
