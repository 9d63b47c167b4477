------------------------------ MODULE A7IOPKic ------------------------------
(***************************************************************************)
(* The interrupt controller of the emulated Secure Enclave processor: the  *)
(* interrupt_status list and the enables of mailbox/core.c, the KIC and    *)
(* AKF registers of a7iop/regs-v4.c, and the one write in sep.c that gates *)
(* them all.  It sits on the mailbox pair in its SEP role: the four        *)
(* outputs of the IOP mailbox come first, then the list.                   *)
(*                                                                         *)
(* apple_a7iop_mailbox_update_irq drives the processor's interrupt line;   *)
(* a handler that does not call it leaves the line as it was.              *)
(***************************************************************************)
EXTENDS A7IOPMailbox, FiniteSetsExt

CONSTANTS
    Exts,         \* external interrupts pushed by the SEP's devices (0x100xx)
    Timers        \* the timer interrupts (IRQ_SEP_TIMER0, IRQ_SEP_TIMER1)

ASSUME StatusAssumption ==
    Exts \subseteq Nat /\ Timers \subseteq Nat /\ Exts \intersect Timers = {}

VARIABLES
    status,       \* interrupt_status; a push never adds what is there
    exts_on,      \* interrupts_enabled
    glb_ext,      \* KIC_GLB_CFG_EXT_INT_EN of glb_cfg
    timers_on,    \* timers whose enable bits are all set
    timers_masked,
    sepd_enabled,
    sep_cpu_irq,  \* the interrupt line of the SEP's processor
    pmgr,         \* sepd_enabled was written, or a reset done, since the last update
    taken,        \* sources read by the processor and not enabled again since
    quiet         \* nothing new happens any more: the processor only reads

kicVars == <<status, exts_on, glb_ext, timers_on, timers_masked, sepd_enabled,
             sep_cpu_irq, pmgr, taken, quiet>>
vars == <<mboxVars, kicVars>>

\* A status as a member of taken, beside the outputs of the mailbox.
Tag(s) == <<"status", s>>

-----------------------------------------------------------------------------
\* is_interrupt_enabled, for the statuses that are ever pushed.
EnabledStatus ==
    {s \in status :
        /\ sepd_enabled
        /\ \/ s \in Exts /\ glb_ext /\ s \in exts_on
           \/ s \in Timers /\ s \in timers_on /\ s \notin timers_masked}

Raised == irqs["iop"] # {} \/ EnabledStatus # {}

\* The end of apple_a7iop_mailbox_update_irq for the role SEP-iop.
UpdateCPULine == sep_cpu_irq' = Raised' /\ pmgr' = FALSE

\* Mutation: the lowest status, whatever its kind.
PreferredLowest == Min(EnabledStatus)

\* The status apple_a7iop_interrupt_status_pop takes: a timer before an external
\* interrupt, the lower of two of a kind.
Preferred ==
    IF EnabledStatus \intersect Timers # {}
    THEN Min(EnabledStatus \intersect Timers)
    ELSE Min(EnabledStatus)

-----------------------------------------------------------------------------
(* The mailbox operations, with the processor's line.                      *)

MailboxStep ==
    /\ ~quiet
    /\ \/ \E via, d \in Boxes, msg \in Messages :
             /\ Len(inbox[d]) < MaxInbox
             /\ dir_en[via][d]
             /\ Send(via, d, msg)
             /\ UNCHANGED taken
       \/ \E via, d \in Boxes :
             /\ dir_en[via][d]
             /\ ~underflow[d]
             /\ Recv(via, d)
             /\ UNCHANGED taken
       \/ \E m \in Boxes, value \in Masks :
             apple_a7iop_mailbox_set_int_mask(m, value) /\ UNCHANGED taken
       \/ \E m \in Boxes, value \in Masks :
             /\ apple_a7iop_mailbox_clear_int_mask(m, value)
             /\ taken' = IF m = "iop" THEN taken \ value ELSE taken
    /\ UNCHANGED <<status, exts_on, glb_ext, timers_on, timers_masked,
                   sepd_enabled, quiet>>
    /\ UpdateCPULine

-----------------------------------------------------------------------------
(* The registers of the controller and its inputs.                         *)

\* The register writes of apple_a7iop_v4_reg_write end with an update of the IOP
\* mailbox.  Its outputs do not depend on what they write.
RegisterWrite ==
    /\ ~quiet
    /\ \/ \E s \in Exts :                       \* AKF_DISABLE_INTERRUPT
             /\ exts_on' = exts_on \ {s}
             /\ UNCHANGED <<glb_ext, timers_on, timers_masked, taken>>
       \/ \E s \in Exts :                       \* AKF_ENABLE_INTERRUPT
             /\ exts_on' = exts_on \union {s}
             /\ taken' = taken \ {Tag(s)}
             /\ UNCHANGED <<glb_ext, timers_on, timers_masked>>
       \/ \E b \in BOOLEAN :                    \* KIC_GLB_CFG
             /\ glb_ext' = b
             /\ UNCHANGED <<exts_on, timers_on, timers_masked, taken>>
       \/ \E s \in Timers :                     \* KIC_TMR0_EN, KIC_TMR1_EN
             /\ timers_on' \in {timers_on \union {s}, timers_on \ {s}}
             /\ UNCHANGED <<exts_on, glb_ext, timers_masked, taken>>
       \/ \E s \in Timers :                     \* KIC_TMR_INT_MASK_SET
             /\ timers_masked' = timers_masked \union {s}
             /\ UNCHANGED <<exts_on, glb_ext, timers_on, taken>>
       \/ \E s \in Timers :                     \* KIC_TMR_INT_MASK_CLR
             /\ timers_masked' = timers_masked \ {s}
             /\ taken' = taken \ {Tag(s)}
             /\ UNCHANGED <<exts_on, glb_ext, timers_on>>
    /\ UNCHANGED <<inbox, underflow, dir_en, int_mask, bh>>
    /\ apple_a7iop_mailbox_update_irq("iop")
    /\ UNCHANGED <<status, sepd_enabled, quiet>>
    /\ UpdateCPULine

\* Mutation: a new status does not update the line.
PushNoUpdate(s) ==
    /\ ~quiet
    /\ status' = status \union {s}
    /\ UNCHANGED mboxVars
    /\ UNCHANGED <<exts_on, glb_ext, timers_on, timers_masked, sepd_enabled,
                   sep_cpu_irq, pmgr, taken, quiet>>

\* A timer input that goes high, or a device of sep.c, pushes its status.
apple_a7iop_interrupt_status_push(s) ==
    /\ ~quiet
    /\ status' = status \union {s}
    /\ UNCHANGED <<inbox, underflow, dir_en, int_mask, bh>>
    /\ apple_a7iop_mailbox_update_irq("iop")
    /\ UNCHANGED <<exts_on, glb_ext, timers_on, timers_masked, sepd_enabled,
                   taken, quiet>>
    /\ UpdateCPULine

Push == \E s \in Exts \union Timers : apple_a7iop_interrupt_status_push(s)

\* The power state write of sep.c sets the gate and updates nothing.
PMGRWrite ==
    /\ ~quiet
    /\ sepd_enabled' \in BOOLEAN
    /\ pmgr' = TRUE
    /\ UNCHANGED <<mboxVars, status, exts_on, glb_ext, timers_on, timers_masked,
                   sep_cpu_irq, taken, quiet>>

-----------------------------------------------------------------------------
(* apple_a7iop_mailbox_read_interrupt_status.                              *)

\* The order in which the outputs of the IOP mailbox are tried.
OutputOrder == << <<"iop", "nonempty">>, <<"iop", "empty">>,
                  <<"ap", "nonempty">>, <<"ap", "empty">> >>

FirstOutput ==
    OutputOrder[Min({i \in 1 .. 4 : OutputOrder[i] \in irqs["iop"]})]

\* A source is masked as it is returned.
Take(s) == taken' = taken \union {s}

\* Mutation: an output is returned and not masked.
ReadOutputUnmasked ==
    /\ irqs["iop"] # {}
    /\ Take(FirstOutput)
    /\ UNCHANGED <<int_mask, status, exts_on, timers_masked>>

ReadOutput ==
    /\ irqs["iop"] # {}
    /\ Take(FirstOutput)
    /\ int_mask' = [int_mask EXCEPT !["iop"] = @ \union {FirstOutput}]
    /\ UNCHANGED <<status, exts_on, timers_masked>>

\* Mutation: a status is returned and stays in the list.
ReadStatusKept ==
    /\ irqs["iop"] = {}
    /\ EnabledStatus # {}
    /\ Take(Tag(Preferred))
    /\ UNCHANGED <<int_mask, status, exts_on, timers_masked>>

ReadStatus ==
    /\ irqs["iop"] = {}
    /\ EnabledStatus # {}
    /\ Take(Tag(Preferred))
    /\ status' = status \ {Preferred}
    /\ exts_on' = exts_on \ {Preferred}
    /\ timers_masked' =
           timers_masked \union ({Preferred} \intersect Timers)
    /\ UNCHANGED int_mask

ReadNothing ==
    /\ ~Raised
    /\ UNCHANGED <<int_mask, status, exts_on, timers_masked, taken>>

apple_a7iop_mailbox_read_interrupt_status ==
    /\ ReadOutput \/ ReadStatus \/ ReadNothing
    /\ UNCHANGED <<inbox, underflow, dir_en, bh>>
    /\ apple_a7iop_mailbox_update_irq("iop")
    /\ UNCHANGED <<glb_ext, timers_on, sepd_enabled, quiet>>
    /\ UpdateCPULine

\* The reset empties the list and clears every enable, but it updates only the
\* outputs of the mailboxes and not the processor's line.
Reset ==
    /\ ~quiet
    /\ apple_a7iop_mailbox_reset
    /\ status' = {} /\ exts_on' = {} /\ glb_ext' = FALSE
    /\ timers_on' = {} /\ timers_masked' = {}
    /\ sepd_enabled' = FALSE
    /\ pmgr' = TRUE
    /\ taken' = taken \ {Tag(t) : t \in Timers}
    /\ UNCHANGED <<sep_cpu_irq, quiet>>

\* The devices, the AP and the rest of the SEP's firmware fall silent.
Quiesce == ~quiet /\ quiet' = TRUE
           /\ UNCHANGED <<mboxVars, status, exts_on, glb_ext, timers_on,
                          timers_masked, sepd_enabled, sep_cpu_irq, pmgr, taken>>

-----------------------------------------------------------------------------
Init ==
    /\ MboxInit
    /\ status = {} /\ exts_on = {} /\ glb_ext = FALSE
    /\ timers_on = {} /\ timers_masked = {}
    /\ sepd_enabled = FALSE
    /\ sep_cpu_irq = FALSE
    /\ pmgr = TRUE
    /\ taken = {}
    /\ quiet = FALSE

Next ==
    \/ MailboxStep \/ RegisterWrite \/ Push \/ PMGRWrite
    \/ apple_a7iop_mailbox_read_interrupt_status
    \/ Reset \/ Quiesce

Spec == Init /\ [][Next]_vars

\* A processor whose interrupt line is high reads the status.
SEPTakesInterrupt == sep_cpu_irq /\ apple_a7iop_mailbox_read_interrupt_status

FairSpec == Spec /\ WF_vars(SEPTakesInterrupt)

-----------------------------------------------------------------------------
(* Properties.                                                             *)

TypeOK ==
    /\ MboxTypeOK
    /\ status \subseteq Exts \union Timers
    /\ exts_on \subseteq Exts
    /\ timers_on \subseteq Timers
    /\ timers_masked \subseteq Timers
    /\ {glb_ext, sepd_enabled, sep_cpu_irq, pmgr, quiet} \subseteq BOOLEAN
    /\ taken \subseteq {Tag(s) : s \in Exts \union Timers} \union Sources

\* The processor's line is high exactly when a read of the status would return a
\* source, whichever mailbox, register or device was last used; the exceptions
\* are the power state write and the reset, which leave the line to the next
\* update.
CPULineFollows == ~pmgr => (sep_cpu_irq <=> Raised)

\* A source that was read is not offered again until it has been enabled again,
\* however many messages arrive or statuses are pushed meanwhile; an inbox that
\* underflowed is the exception, its nonempty output overrides the mask.
ReadOnce ==
    /\ \A s \in taken \intersect irqs["iop"] : s[2] = "nonempty" /\ underflow[s[1]]
    /\ \A s \in EnabledStatus : Tag(s) \notin taken

\* The comment in apple_a7iop_mailbox_read_interrupt_status, "the order should be:
\* 0x4..., 0x7..., 0x1...": an external interrupt is returned only when no mailbox
\* source is pending and no enabled timer is (a reset, which also removes it,
\* leaves pmgr set).
ReadOrder ==
    [][\A s \in status \ status' : s \in Exts /\ ~pmgr' =>
         irqs["iop"] = {} /\ EnabledStatus \intersect Timers = {}]_vars

\* The handler comes to an end: when nothing new happens and no inbox has
\* underflowed, reading the status lowers the line for good.
LineDrains ==
    (quiet /\ \A d \in Boxes : ~underflow[d]) ~> [](~sep_cpu_irq)
=============================================================================
