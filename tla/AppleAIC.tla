------------------------------ MODULE AppleAIC ------------------------------
(***************************************************************************)
(* The Apple Interrupt Controller, hw/intc/apple_aic.c.                    *)
(*                                                                         *)
(* Devices drive numIRQ external interrupt lines (EIRs); CPUs send each    *)
(* other inter-processor interrupts (IPIs); a 64 us timer calls            *)
(* apple_aic_update, which picks the CPUs to interrupt.  A CPU that takes  *)
(* the interrupt reads REG_AIC_IACK to learn its cause.                    *)
(*                                                                         *)
(* Every MMIO handler, the GPIO input and the timer callback run under     *)
(* s->mutex from start to end, so each is one action.  The per-CPU alias   *)
(* window (REG_AIC_WHOAMI_Pn) re-enters the handler as CPU n: the CPU "o"  *)
(* of an action is the register bank addressed, whoever addresses it.      *)
(*                                                                         *)
(* Bit masks are sets of bit numbers.  A uint32_t destination may have     *)
(* bits that name no CPU: DestVals decides which values the guest writes.  *)
(***************************************************************************)
EXTENDS Integers, FiniteSets

CONSTANTS
    numCPU,     \* AppleAICState.numCPU
    numIRQ,     \* AppleAICState.numIRQ
    DestVals,   \* the values the guest writes to REG_AIC_EIR_DEST
    IPIVals,    \* the values the guest writes to the REG_AIC_IPI_* registers
    EIRVals,    \* the values the guest writes to the REG_AIC_EIR_* registers
    NoCPU       \* "no CPU has acknowledged this EIR"

CPUs == 0 .. numCPU - 1
IRQs == 0 .. numIRQ - 1

\* Bits of pendingIPI, deferredIPI, ipi_mask and of what is written to them.
AIC_IPI_NORMAL == 0
AIC_IPI_SELF == 31
IPIBits == CPUs \cup {AIC_IPI_SELF}
IPIMaskBits == {AIC_IPI_NORMAL, AIC_IPI_SELF}

ASSUME AICAssumption ==
    /\ numCPU \in 1 .. 31
    /\ numIRQ \in Nat \ {0}
    /\ DestVals \subseteq SUBSET (0 .. 31)
    /\ IPIVals \subseteq SUBSET (0 .. 31)
    /\ EIRVals \subseteq SUBSET IRQs
    /\ NoCPU \notin CPUs

VARIABLES
    eir_state,    \* the set of asserted EIRs
    eir_mask,     \* the set of masked EIRs
    eir_dest,     \* EIR -> set of destination bits
    ipi_mask,     \* CPU -> set of masked IPI kinds
    pendingIPI,   \* CPU -> set of IPI bits
    deferredIPI,  \* CPU -> set of IPI bits that wait for the timer
    irq,          \* CPU -> level of its interrupt line
    claim         \* history: EIR -> the CPU that acknowledged it and has not
                  \* had it unmasked since

vars == <<eir_state, eir_mask, eir_dest, ipi_mask, pendingIPI, deferredIPI,
          irq, claim>>
eirVars == <<eir_state, eir_mask, eir_dest, claim>>
ipiVars == <<ipi_mask, pendingIPI, deferredIPI>>

TypeOK ==
    /\ eir_state \subseteq IRQs
    /\ eir_mask \subseteq IRQs
    /\ eir_dest \in [IRQs -> SUBSET (0 .. 31)]
    /\ ipi_mask \in [CPUs -> SUBSET IPIMaskBits]
    /\ pendingIPI \in [CPUs -> SUBSET IPIBits]
    /\ deferredIPI \in [CPUs -> SUBSET IPIBits]
    /\ irq \in [CPUs -> BOOLEAN]
    /\ claim \in [IRQs -> CPUs \cup {NoCPU}]

(***************************************************************************)
(* The state after the reset that starts the machine.                      *)
(***************************************************************************)
Init ==
    /\ eir_state = {}
    /\ eir_mask = IRQs
    /\ eir_dest = [i \in IRQs |-> {}]
    /\ ipi_mask = [c \in CPUs |-> IPIMaskBits]
    /\ pendingIPI = [c \in CPUs |-> {}]
    /\ deferredIPI = [c \in CPUs |-> {}]
    /\ irq = [c \in CPUs |-> FALSE]
    /\ claim = [i \in IRQs |-> NoCPU]

-----------------------------------------------------------------------------
(***************************************************************************)
(* apple_aic_update                                                        *)
(***************************************************************************)

\* CPU c has an IPI that its mask lets through, with pending IPIs ipi.
SelfIPIReady(c, ipi) ==
    AIC_IPI_SELF \in ipi /\ AIC_IPI_SELF \notin ipi_mask[c]
NormalIPIReady(c, ipi) ==
    ipi \cap CPUs # {} /\ AIC_IPI_NORMAL \notin ipi_mask[c]

Merged(c) == pendingIPI[c] \cup deferredIPI[c]

\* find_first_bit32(&bits, numCPU): numCPU if no CPU's bit is set.
FirstCPU(bits) ==
    IF bits \cap CPUs = {} THEN numCPU
    ELSE CHOOSE c \in bits \cap CPUs : \A d \in bits \cap CPUs : c <= d

\* The body of the scan for EIR i, given the intr and potential of the EIRs
\* below it: an EIR none of whose destinations is interrupted gets its first
\* CPU; any other brings in one more CPU that could take an earlier EIR.
Deliverable(i) == i \in eir_state /\ i \notin eir_mask /\ eir_dest[i] # {}

\* Mutation: the helper need not be able to take an earlier EIR.
AssignAnyHelper(i, acc) ==
    IF ~Deliverable(i) THEN acc
    ELSE IF acc.intr \cap eir_dest[i] = {}
    THEN [intr |-> acc.intr \cup {FirstCPU(eir_dest[i])},
          potential |-> acc.potential \cup eir_dest[i]]
    ELSE [acc EXCEPT !.intr = @ \cup {FirstCPU(CPUs \ @)}]

Assign(i, acc) ==
    IF ~Deliverable(i) THEN acc
    ELSE IF acc.intr \cap eir_dest[i] = {}
    THEN [intr |-> acc.intr \cup {FirstCPU(eir_dest[i])},
          potential |-> acc.potential \cup eir_dest[i]]
    ELSE LET helpers == (CPUs \ acc.intr) \cap acc.potential
         IN [acc EXCEPT !.intr = IF helpers = {} THEN @
                                 ELSE @ \cup {FirstCPU(helpers)}]

\* Mutation: the SELF IPIs are not looked at.
IPICPUsNoSelf == {c \in CPUs : NormalIPIReady(c, Merged(c))}

\* The CPUs whose IPIs alone interrupt them, once the deferred are merged.
IPICPUs == {c \in CPUs : \/ SelfIPIReady(c, Merged(c))
                         \/ NormalIPIReady(c, Merged(c))}

\* intr and potential when the scan has visited the EIRs below n.
Scan[n \in 0 .. numIRQ] ==
    IF n = 0 THEN [intr |-> IPICPUs, potential |-> {}]
    ELSE Assign(n - 1, Scan[n - 1])

\* Mutation: the scan stops before the last EIR.
InterruptedOffByOne == Scan[numIRQ - 1].intr

\* The bits of intr when the scan is over.
Interrupted == Scan[numIRQ].intr

apple_aic_update ==
    /\ pendingIPI' = [c \in CPUs |-> Merged(c)]
    /\ deferredIPI' = [c \in CPUs |-> {}]
    /\ irq' = [c \in CPUs |-> irq[c] \/ c \in Interrupted]
    /\ UNCHANGED <<eirVars, ipi_mask>>

\* The timer callback; it re-arms the timer, so it is always enabled.
apple_aic_tick == apple_aic_update
-----------------------------------------------------------------------------
(***************************************************************************)
(* The GPIO input of a device, the reset, and the register writes.         *)
(***************************************************************************)
apple_aic_set_irq(i, level) ==
    /\ eir_state' = IF level THEN eir_state \cup {i} ELSE eir_state \ {i}
    /\ UNCHANGED <<eir_mask, eir_dest, claim, ipiVars, irq>>

\* REG_AIC_RST and the system reset.  The input levels and the CPU lines stay.
apple_aic_reset ==
    /\ eir_mask' = IRQs
    /\ eir_dest' = [i \in IRQs |-> {}]
    /\ ipi_mask' = [c \in CPUs |-> IPIMaskBits]
    /\ pendingIPI' = [c \in CPUs |-> {}]
    /\ deferredIPI' = [c \in CPUs |-> {}]
    /\ claim' = [i \in IRQs |-> NoCPU]
    /\ UNCHANGED <<eir_state, irq>>

\* Bank o's own bit, for the CPUs named in val, and SELF for o itself.
IPIFrom(o, val, c) ==
    (IF c \in val THEN {o} ELSE {}) \cup
    (IF c = o /\ AIC_IPI_SELF \in val THEN {AIC_IPI_SELF} ELSE {})

REG_AIC_IPI_SET(o, val) ==
    /\ pendingIPI' = [c \in CPUs |-> pendingIPI[c] \cup IPIFrom(o, val, c)]
    /\ irq' = [c \in CPUs |->
                 \/ irq[c]
                 \/ c \in val /\ AIC_IPI_NORMAL \notin ipi_mask[c]
                 \/ c = o /\ AIC_IPI_SELF \in val \ ipi_mask[c]]
    /\ UNCHANGED <<eirVars, ipi_mask, deferredIPI>>

REG_AIC_IPI_CLR(o, val) ==
    /\ pendingIPI' = [c \in CPUs |-> pendingIPI[c] \ IPIFrom(o, val, c)]
    /\ UNCHANGED <<eirVars, ipi_mask, deferredIPI, irq>>

REG_AIC_IPI_MASK_SET(o, val) ==
    /\ ipi_mask' = [ipi_mask EXCEPT ![o] = @ \cup (val \cap IPIMaskBits)]
    /\ UNCHANGED <<eirVars, pendingIPI, deferredIPI, irq>>

REG_AIC_IPI_MASK_CLR(o, val) ==
    /\ ipi_mask' = [ipi_mask EXCEPT ![o] = @ \ (val \cap IPIMaskBits)]
    /\ UNCHANGED <<eirVars, pendingIPI, deferredIPI, irq>>

REG_AIC_IPI_DEFER_SET(o, val) ==
    /\ deferredIPI' = [c \in CPUs |-> deferredIPI[c] \cup IPIFrom(o, val, c)]
    /\ UNCHANGED <<eirVars, ipi_mask, pendingIPI, irq>>

REG_AIC_IPI_DEFER_CLR(o, val) ==
    /\ deferredIPI' = [c \in CPUs |-> deferredIPI[c] \ IPIFrom(o, val, c)]
    /\ UNCHANGED <<eirVars, ipi_mask, pendingIPI, irq>>

REG_AIC_EIR_DEST(i, val) ==
    /\ eir_dest' = [eir_dest EXCEPT ![i] = val]
    /\ UNCHANGED <<eir_state, eir_mask, claim, ipiVars, irq>>

REG_AIC_EIR_SW_SET(val) ==
    /\ eir_state' = eir_state \cup val
    /\ UNCHANGED <<eir_mask, eir_dest, claim, ipiVars, irq>>

REG_AIC_EIR_SW_CLR(val) ==
    /\ eir_state' = eir_state \ val
    /\ UNCHANGED <<eir_mask, eir_dest, claim, ipiVars, irq>>

REG_AIC_EIR_MASK_SET(val) ==
    /\ eir_mask' = eir_mask \cup val
    /\ UNCHANGED <<eir_state, eir_dest, claim, ipiVars, irq>>

REG_AIC_EIR_MASK_CLR(val) ==
    /\ eir_mask' = eir_mask \ val
    /\ claim' = [i \in IRQs |-> IF i \in val THEN NoCPU ELSE claim[i]]
    /\ UNCHANGED <<eir_state, eir_dest, ipiVars, irq>>
-----------------------------------------------------------------------------
(***************************************************************************)
(* The read of REG_AIC_IACK: it lowers the reader's line, then reports and *)
(* masks the first of a SELF IPI, a NORMAL IPI, the lowest EIR for this    *)
(* CPU; failing all three it reports kAIC_INT_SPURIOUS.                    *)
(***************************************************************************)
EIRsFor(o) == {i \in eir_state \ eir_mask : o \in eir_dest[i]}

AckSelfIPI(o) ==
    /\ SelfIPIReady(o, pendingIPI[o])
    /\ ipi_mask' = [ipi_mask EXCEPT ![o] = @ \cup {AIC_IPI_SELF}]
    /\ UNCHANGED <<eirVars, pendingIPI, deferredIPI>>

AckNormalIPI(o) ==
    /\ ~SelfIPIReady(o, pendingIPI[o])
    /\ NormalIPIReady(o, pendingIPI[o])
    /\ ipi_mask' = [ipi_mask EXCEPT ![o] = @ \cup {AIC_IPI_NORMAL}]
    /\ UNCHANGED <<eirVars, pendingIPI, deferredIPI>>

\* Mutation: the reported EIR is not masked.
AckEIRUnmasked(o) ==
    /\ ~SelfIPIReady(o, pendingIPI[o])
    /\ ~NormalIPIReady(o, pendingIPI[o])
    /\ \E i \in EIRsFor(o) :
          /\ \A j \in EIRsFor(o) : i <= j
          /\ claim' = [claim EXCEPT ![i] = o]
    /\ UNCHANGED <<eir_state, eir_mask, eir_dest, ipiVars>>

AckEIR(o) ==
    /\ ~SelfIPIReady(o, pendingIPI[o])
    /\ ~NormalIPIReady(o, pendingIPI[o])
    /\ \E i \in EIRsFor(o) :
          /\ \A j \in EIRsFor(o) : i <= j
          /\ eir_mask' = eir_mask \cup {i}
          /\ claim' = [claim EXCEPT ![i] = o]
    /\ UNCHANGED <<eir_state, eir_dest, ipiVars>>

AckSpurious(o) ==
    /\ ~SelfIPIReady(o, pendingIPI[o])
    /\ ~NormalIPIReady(o, pendingIPI[o])
    /\ EIRsFor(o) = {}
    /\ UNCHANGED <<eirVars, ipiVars>>

REG_AIC_IACK(o) ==
    /\ irq' = [irq EXCEPT ![o] = FALSE]
    /\ AckSelfIPI(o) \/ AckNormalIPI(o) \/ AckEIR(o) \/ AckSpurious(o)
-----------------------------------------------------------------------------
IPIWrite(o, val) ==
    \/ REG_AIC_IPI_SET(o, val)
    \/ REG_AIC_IPI_CLR(o, val)
    \/ REG_AIC_IPI_MASK_SET(o, val)
    \/ REG_AIC_IPI_MASK_CLR(o, val)
    \/ REG_AIC_IPI_DEFER_SET(o, val)
    \/ REG_AIC_IPI_DEFER_CLR(o, val)

EIRWrite(val) ==
    \/ REG_AIC_EIR_SW_SET(val)
    \/ REG_AIC_EIR_SW_CLR(val)
    \/ REG_AIC_EIR_MASK_SET(val)
    \/ REG_AIC_EIR_MASK_CLR(val)

Next ==
    \/ apple_aic_tick
    \/ apple_aic_reset
    \/ \E i \in IRQs, level \in BOOLEAN : apple_aic_set_irq(i, level)
    \/ \E i \in IRQs, val \in DestVals : REG_AIC_EIR_DEST(i, val)
    \/ \E val \in EIRVals : EIRWrite(val)
    \/ \E o \in CPUs, val \in IPIVals : IPIWrite(o, val)
    \/ \E o \in CPUs : REG_AIC_IACK(o)

Spec == Init /\ [][Next]_vars

\* The timer runs on the virtual clock and every tick re-arms it.
FairSpec == Spec /\ WF_vars(apple_aic_tick)
-----------------------------------------------------------------------------
(***************************************************************************)
(* Properties                                                              *)
(***************************************************************************)

\* An EIR some CPU has acknowledged and nobody has unmasked since stays
\* masked, whatever the other banks, the timer and the reset do meanwhile:
\* REG_AIC_IACK's set_bit32(i, s->eir_mask) is what makes a handler exclusive.
ClaimedIsMasked == \A i \in IRQs : claim[i] # NoCPU => i \in eir_mask

\* Two CPUs never handle one EIR at once: between two acknowledgements of an
\* EIR there is an unmask or a reset.
NoDoubleClaim ==
    [][\A i \in IRQs : claim[i] # NoCPU /\ claim'[i] # claim[i]
                          => claim'[i] = NoCPU]_vars

\* apple_aic_update leaves nothing waiting: whenever the timer fires, each
\* unmasked pending or deferred IPI gets its CPU's line up, and each
\* deliverable EIR that names a CPU has the line of one of its destinations
\* up, though the scan may have spent that EIR's turn on a CPU for an earlier
\* one.
TickServesAll ==
    /\ \A c \in CPUs :
          SelfIPIReady(c, Merged(c)) \/ NormalIPIReady(c, Merged(c))
             => c \in Interrupted
    /\ \A i \in IRQs : Deliverable(i) /\ eir_dest[i] \cap CPUs # {}
             => eir_dest[i] \cap CPUs \cap Interrupted # {}

\* apple_aic_update wakes nobody in vain: a CPU it interrupts would get a
\* cause, not kAIC_INT_SPURIOUS, from REG_AIC_IACK, were it to read it next.
TickWakesNobodyInVain ==
    \A c \in Interrupted \cap CPUs : c \in IPICPUs \/ EIRsFor(c) # {}

\* An asserted, unmasked EIR with a CPU among its destinations does not wait
\* for ever: a destination's line goes up, or the EIR stops being one.
EIRReachesCPU ==
    \A i \in IRQs :
        (Deliverable(i) /\ eir_dest[i] \cap CPUs # {}) ~>
            \/ ~Deliverable(i)
            \/ eir_dest[i] \cap CPUs = {}
            \/ \E c \in eir_dest[i] \cap CPUs : irq[c]

\* A deferred or pending IPI that its target does not mask raises the
\* target's line in the end, unless it is retracted or masked first; in
\* particular a NORMAL IPI hidden by the acknowledgement of a SELF IPI, or
\* one that was masked when it was sent, is not forgotten.
IPIReachesCPU ==
    \A c \in CPUs :
        (SelfIPIReady(c, Merged(c)) \/ NormalIPIReady(c, Merged(c))) ~>
            \/ ~(SelfIPIReady(c, Merged(c)) \/ NormalIPIReady(c, Merged(c)))
            \/ irq[c]
=============================================================================
