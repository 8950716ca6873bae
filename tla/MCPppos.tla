------------------------------ MODULE MCPppos ------------------------------
(* Scenarios in which TLC checks Pppos.                                    *)
EXTENDS Pppos

AllFaults == FaultKinds
NoFaults == {}
\* Everything but a set-up failure, which ppposInit may wait out for ever.
RunningFaults == {"pcb", "modem", "link", "silent"}

AllOps == OpKinds
NoOps == {}
DisconnectOps == {"disconnect", "endtask"}
============================================================================
