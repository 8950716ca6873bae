---------------------------- MODULE MCFirmware -----------------------------
(* TLC checks Firmware with one more task, which makes calls of all kinds. *)
EXTENDS Firmware

AllOps == {"disconnect", "endtask", "rfoff", "rfon"}
AllFaults == {"setup", "pcb", "modem", "link", "silent"}
============================================================================
