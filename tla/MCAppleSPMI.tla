----------------------------- MODULE MCAppleSPMI -----------------------------
(* Instance of AppleSPMI for TLC. *)
EXTENDS AppleSPMI

SPMIEnable == {Bits}

\* From alarm 1 to alarm 2 the bytes pass through 0, from 2 to 1 through 3.
SPMIWrites ==
    [alarm |-> {1, 2}, alarm_ctrl |-> {0, 1}, irq_mask |-> {1},
     alarm_event |-> {0}, rtc |-> {0}, offset |-> {1}]

=============================================================================
