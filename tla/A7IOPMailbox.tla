---------------------------- MODULE A7IOPMailbox ----------------------------
(***************************************************************************)
(* The pair of mailboxes between the application processor (AP) and an     *)
(* I/O processor (IOP): hw/misc/apple-silicon/a7iop/mailbox/core.c and the *)
(* register blocks of mailbox/regs-v2.c and regs-v4.c.                     *)
(*                                                                         *)
(* Each mailbox has an inbox, its own copy of the two direction enables,   *)
(* an interrupt mask and four interrupt outputs that describe BOTH         *)
(* inboxes.  A processor works through the registers of one mailbox, via,  *)
(* and reaches from there either inbox, d: the code's send_iop, recv_iop,  *)
(* iop_dir_en are d = "iop", and send_ap, recv_ap, ap_dir_en are d = "ap". *)
(*                                                                         *)
(* Register accesses, bottom halves and resets hold the big lock, so each  *)
(* is one step.  Writing all but the last word of a message only fills the *)
(* send register and is left out.                                          *)
(***************************************************************************)
EXTENDS Integers, Sequences

CONSTANTS
    Messages,     \* the messages
    NoMessage,    \* a receive that returns NULL
    IsSEP,        \* the roles are SEP-iop and SEP-ap
    Masks,        \* the values written to REG_INT_MASK_SET and _CLR
    Enables,      \* the CTRL_ENABLE bits written to REG_IOP_CTRL, REG_AP_CTRL
    MaxInbox      \* bound: nobody sends to an inbox of this length

Boxes == {"iop", "ap"}

Kinds == {"empty", "nonempty"}

\* The interrupt outputs irqs[] and the bits of int_mask: one per inbox and kind.
Sources == Boxes \X Kinds

ASSUME MaskAssumption == Masks \subseteq SUBSET Sources
ASSUME EnableAssumption == Enables \subseteq BOOLEAN
ASSUME SEPAssumption == IsSEP \in BOOLEAN
ASSUME MessageAssumption == NoMessage \notin Messages

VARIABLES
    inbox,        \* inbox[d]: the queue of mailbox d, oldest first
    underflow,    \* underflow[d]: mailbox d was read while empty
    dir_en,       \* dir_en[via][d]: via's copy of d's direction enable
    int_mask,     \* int_mask[m]: the sources mailbox m masks
    irqs,         \* irqs[m]: the outputs of mailbox m that are high
    bh            \* the message handler of the IOP mailbox is scheduled

mboxVars == <<inbox, underflow, dir_en, int_mask, irqs, bh>>

-----------------------------------------------------------------------------
\* The outputs apple_a7iop_mailbox_update_irq_status gives a mailbox whose mask
\* is mask: an underflow overrides the mask of the nonempty output.
Output(boxes, under, mask) ==
    {s \in Sources :
        IF s[2] = "empty"
        THEN s \notin mask /\ boxes[s[1]] = <<>>
        ELSE (s \notin mask /\ boxes[s[1]] # <<>>) \/ under[s[1]]}

\* Mutation: an update stays with its mailbox.
UpdatedAlone(m) == {m}

\* An update of the SEP's AP mailbox goes on to update its IOP mailbox.
Updated(m) ==
    IF IsSEP /\ m = "ap" THEN {"ap", "iop"} ELSE {m}

apple_a7iop_mailbox_update_irq(m) ==
    irqs' = [b \in Boxes |->
                IF b \in Updated(m)
                THEN Output(inbox', underflow', int_mask'[b])
                ELSE irqs[b]]

-----------------------------------------------------------------------------
(* Sending and receiving.                                                  *)

apple_a7iop_mailbox_is_empty(d) == underflow[d] \/ inbox[d] = <<>>

\* Mutation: the handler of the IOP mailbox is not scheduled.
SendUnscheduled(via, d, msg) ==
    IF dir_en[via][d]
    THEN /\ inbox' = [inbox EXCEPT ![d] = Append(@, msg)]
         /\ UNCHANGED <<underflow, dir_en, int_mask, bh>>
         /\ apple_a7iop_mailbox_update_irq(d)
    ELSE UNCHANGED mboxVars

\* apple_a7iop_mailbox_send_iop and _send_ap: a message for a disabled direction
\* is dropped.  Only the IOP mailbox has a handler to schedule.
Send(via, d, msg) ==
    IF dir_en[via][d]
    THEN /\ inbox' = [inbox EXCEPT ![d] = Append(@, msg)]
         /\ bh' = (bh \/ d = "iop")
         /\ UNCHANGED <<underflow, dir_en, int_mask>>
         /\ apple_a7iop_mailbox_update_irq(d)
    ELSE UNCHANGED mboxVars

\* What apple_a7iop_mailbox_recv_iop and _recv_ap return.
Received(via, d) ==
    IF dir_en[via][d] /\ ~apple_a7iop_mailbox_is_empty(d)
    THEN Head(inbox[d])
    ELSE NoMessage

\* Mutation: the outputs are not updated when a message is taken.
RecvNoUpdate(via, d) ==
    IF dir_en[via][d] /\ ~underflow[d]
    THEN /\ IF inbox[d] = <<>>
            THEN /\ underflow' = [underflow EXCEPT ![d] = TRUE]
                 /\ UNCHANGED inbox
            ELSE /\ inbox' = [inbox EXCEPT ![d] = Tail(@)]
                 /\ UNCHANGED underflow
         /\ UNCHANGED <<dir_en, int_mask, bh, irqs>>
    ELSE UNCHANGED mboxVars

\* A receive from an empty inbox latches its underflow; from then on the inbox
\* gives nothing until the mailbox is reset.
Recv(via, d) ==
    IF dir_en[via][d] /\ ~underflow[d]
    THEN /\ IF inbox[d] = <<>>
            THEN /\ underflow' = [underflow EXCEPT ![d] = TRUE]
                 /\ UNCHANGED inbox
            ELSE /\ inbox' = [inbox EXCEPT ![d] = Tail(@)]
                 /\ UNCHANGED underflow
         /\ UNCHANGED <<dir_en, int_mask, bh>>
         /\ apple_a7iop_mailbox_update_irq(d)
    ELSE UNCHANGED mboxVars

-----------------------------------------------------------------------------
(* The other registers.                                                    *)

SetMask(m, new) ==
    /\ int_mask' = [int_mask EXCEPT ![m] = new]
    /\ UNCHANGED <<inbox, underflow, dir_en, bh>>
    /\ apple_a7iop_mailbox_update_irq(m)

apple_a7iop_mailbox_set_int_mask(m, value) ==
    SetMask(m, int_mask[m] \union value)

apple_a7iop_mailbox_clear_int_mask(m, value) ==
    SetMask(m, int_mask[m] \ value)

\* apple_a7iop_mailbox_set_iop_ctrl and _set_ap_ctrl.
SetCtrl(via, d, enable) ==
    /\ dir_en' = [dir_en EXCEPT ![via][d] = enable]
    /\ UNCHANGED <<inbox, underflow, int_mask, irqs, bh>>

\* The mailboxes are children of the system bus, the AP mailbox in front of the
\* IOP mailbox, and are reset in that order: the outputs of the AP mailbox are
\* computed while the IOP mailbox still holds its messages.  The masks, and a
\* handler that is scheduled, survive the reset.
apple_a7iop_mailbox_reset ==
    /\ inbox' = [d \in Boxes |-> <<>>]
    /\ underflow' = [d \in Boxes |-> FALSE]
    /\ dir_en' = [via \in Boxes |-> [d \in Boxes |-> TRUE]]
    /\ irqs' = [m \in Boxes |->
                   IF m = "ap"
                   THEN Output([inbox EXCEPT !["ap"] = <<>>],
                               [underflow EXCEPT !["ap"] = FALSE], int_mask[m])
                   ELSE Output(inbox', underflow', int_mask[m])]
    /\ UNCHANGED <<int_mask, bh>>

-----------------------------------------------------------------------------
(* The mailboxes by themselves: both processors use their registers        *)
(* freely, and the handler of the IOP mailbox takes nothing from it.       *)

\* A machine is reset before it runs.
MboxInit ==
    /\ inbox = [d \in Boxes |-> <<>>]
    /\ underflow = [d \in Boxes |-> FALSE]
    /\ dir_en = [via \in Boxes |-> [d \in Boxes |-> TRUE]]
    /\ int_mask = [m \in Boxes |-> {}]
    /\ irqs = [m \in Boxes |-> Output(inbox, underflow, {})]
    /\ bh = FALSE

RegSend == \E via, d \in Boxes, msg \in Messages :
    Len(inbox[d]) < MaxInbox /\ Send(via, d, msg)

RegRecv == \E via, d \in Boxes : Recv(via, d)

RegSetMask == \E m \in Boxes, value \in Masks :
    apple_a7iop_mailbox_set_int_mask(m, value)

RegClearMask == \E m \in Boxes, value \in Masks :
    apple_a7iop_mailbox_clear_int_mask(m, value)

RegCtrl == \E via, d \in Boxes, enable \in Enables : SetCtrl(via, d, enable)

MboxNext ==
    RegSend \/ RegRecv \/ RegSetMask \/ RegClearMask \/ RegCtrl
      \/ apple_a7iop_mailbox_reset

MboxSpec == MboxInit /\ [][MboxNext]_mboxVars

-----------------------------------------------------------------------------
(* Properties.                                                             *)

MboxTypeOK ==
    /\ inbox \in [Boxes -> Seq(Messages)]
    /\ underflow \in [Boxes -> BOOLEAN]
    /\ dir_en \in [Boxes -> [Boxes -> BOOLEAN]]
    /\ int_mask \in [Boxes -> SUBSET Sources]
    /\ irqs \in [Boxes -> SUBSET Sources]
    /\ bh \in BOOLEAN

\* The output mailbox m would have if it were updated now.
Current(m) == Output(inbox, underflow, int_mask[m])

\* The two outputs of a mailbox about its own inbox follow that inbox, its mask
\* and its underflow at all times: whoever waits for its own mail is told of it,
\* whichever register block the sender, the receiver or the reset worked through.
OwnOutputsFollow ==
    \A m \in Boxes : \A k \in Kinds :
        <<m, k>> \in irqs[m] <=> <<m, k>> \in Current(m)

\* Every output of the SEP's IOP mailbox is current, those about the AP inbox
\* included, because an update of the SEP's AP mailbox updates both.
SEPOutputsFollow == IsSEP => irqs["iop"] = Current("iop")
=============================================================================
