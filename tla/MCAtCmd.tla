------------------------------ MODULE MCAtCmd ------------------------------
(* TLC checks AtCmd with small buffers.  A text of two bytes stands within   *)
(* one chunk, across two, or across the end of what is kept.                 *)
EXTENDS AtCmd

MCSpots ==
  {[text |-> "resp", first |-> n, last |-> n + 1] : n \in {2, 5}}
    \cup {[text |-> "resp1", first |-> n, last |-> n + 1] : n \in {4, 7}}
============================================================================
