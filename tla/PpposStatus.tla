---------------------------- MODULE PpposStatus ----------------------------
(***************************************************************************)
(* What the GSM/PPPoS client promises to a task that only calls            *)
(* ppposStatus(): how the reported state may move, and how it follows the  *)
(* PPP link.  The states are those of components/pppos/libGSM.h; the       *)
(* transitions are the writes to gsm_status in components/pppos/libGSM.c.  *)
(* Pppos implements this module (Pppos!Abstract, proved in PpposProofs)    *)
(* and GprsTask is checked on top of it.                                   *)
(***************************************************************************)
VARIABLES status,   \* gsm_status
          up        \* the PPP link carries IP traffic

Connected    == "CONNECTED"
Disconnected == "DISCONNECTED"
Idle         == "IDLE"
FirstInit    == "FIRSTINIT"

States == {Connected, Disconnected, Idle, FirstInit}

Init ==
    /\ status = FirstInit
    /\ up = FALSE

\* The client dials, redials, or parks after a requested disconnect.
GoIdle ==
    /\ ~up
    /\ status \in {FirstInit, Disconnected, Idle}
    /\ status' = Idle
    /\ UNCHANGED up

\* The negotiation succeeds.
ComeUp ==
    /\ ~up
    /\ status = Idle
    /\ status' = Connected
    /\ up' = TRUE

\* The link, or the attempt to bring it up, ends and the end is reported.
EndReported ==
    /\ status # FirstInit
    /\ status' = Disconnected
    /\ up' = FALSE

\* The link stops carrying traffic before the end is reported: the client has
\* asked for a close the peer has not confirmed yet, or the link ended with an
\* error code that ppp_status_cb ignores and the report never comes.
GoDownUnreported ==
    /\ up
    /\ up' = FALSE
    /\ UNCHANGED status

\* The client task terminates, or a new one begins.
Restart ==
    /\ ~up
    /\ status \in {Idle, FirstInit}
    /\ status' = FirstInit
    /\ UNCHANGED up

Next == \/ GoIdle \/ ComeUp \/ EndReported \/ GoDownUnreported
        \/ Restart

Spec == Init /\ [][Next]_<<status, up>>
============================================================================
