------------------------- MODULE USBPacketService --------------------------
(***************************************************************************)
(* What a USB host controller relies on when it gives packets to a device  *)
(* (hw/usb/core.c: usb_handle_packet, usb_packet_complete and              *)
(* usb_cancel_packet; hw/usb/bus.c: usb_device_attach and _detach).  A     *)
(* packet handed over is either given back by the same call or kept; a     *)
(* kept packet is given back once, by its completion or by its             *)
(* cancellation; a device that is unplugged gives back all it has kept.    *)
(***************************************************************************)
CONSTANT Packets

VARIABLES
    phase,    \* "home", "busy" in the call, "kept" (async), "leaving" (cancel)
    plugged,  \* the device is attached to the controller's port
    alive     \* FALSE once the process has failed

vars == <<phase, plugged, alive>>

Init ==
    /\ phase = [p \in Packets |-> "home"]
    /\ plugged = FALSE
    /\ alive = TRUE

Move(p, from, to) ==
    /\ alive
    /\ phase[p] = from
    /\ phase' = [phase EXCEPT ![p] = to]
    /\ UNCHANGED <<plugged, alive>>

\* One call at a time, on an attached device.
Submit(p) ==
    /\ plugged
    /\ \A q \in Packets : phase[q] \notin {"busy", "leaving"}
    /\ Move(p, "home", "busy")

\* The call returns: USB_RET_ASYNC keeps the packet, anything else ends it.
Answer(p) == Move(p, "busy", "home") \/ Move(p, "busy", "kept")

\* Completions: some of the kept packets come home.
Complete(S) ==
    /\ alive
    /\ \A p \in S : phase[p] = "kept"
    /\ phase' = [p \in Packets |-> IF p \in S THEN "home" ELSE phase[p]]
    /\ UNCHANGED <<plugged, alive>>

Cancel(p) == Move(p, "kept", "leaving")

Cancelled(p) == Move(p, "leaving", "home")

Attach ==
    /\ alive
    /\ ~plugged
    /\ plugged' = TRUE
    /\ UNCHANGED <<phase, alive>>

\* Every kept packet comes home; a call is not cut short by it.
Detach ==
    /\ alive
    /\ plugged
    /\ \A p \in Packets : phase[p] # "busy"
    /\ plugged' = FALSE
    /\ phase' = [p \in Packets |-> IF phase[p] = "kept" THEN "home" ELSE phase[p]]
    /\ UNCHANGED alive

Fail == alive' = FALSE /\ UNCHANGED <<phase, plugged>>

Next ==
    \/ \E p \in Packets : Submit(p) \/ Answer(p) \/ Cancel(p) \/ Cancelled(p)
    \/ \E S \in SUBSET Packets : Complete(S)
    \/ Attach
    \/ Detach
    \/ Fail

\* What never happens to a packet.
Safety == Init /\ [][Next]_vars

\* The calls return; a kept packet may stay with the device for ever.
Spec ==
    /\ Safety
    /\ \A p \in Packets : WF_vars(Answer(p)) /\ WF_vars(Cancelled(p))
============================================================================
