------------------------------ MODULE AppleA13 ------------------------------
(***************************************************************************)
(* The fast inter-processor interrupts of the A13 CPU clusters,            *)
(* hw/arm/apple-silicon/a13.c.                                             *)
(*                                                                         *)
(* A CPU writes ARM64_REG_IPI_RR_LOCAL or _GLOBAL to send an immediate, a  *)
(* deferred or a no-wake IPI, or to retract the last two.  An IPI that is  *)
(* delivered is latched in the target's ipi_sr and raises its FIQ input;   *)
(* deferred and no-wake IPIs wait in the target's cluster for a timer.     *)
(* The target acknowledges by writing ipi_sr back.                         *)
(*                                                                         *)
(* The registers are ARM_CP_IO and the timer runs in the main loop: each   *)
(* handler holds the big lock and is one action.  A request for a CPU that *)
(* does not exist changes nothing and is left out.                         *)
(***************************************************************************)
EXTENDS Integers

CONSTANTS
    CPUs,        \* the cpu_ids
    ClusterOf,   \* cpu_id -> cluster_id
    Senders,     \* the CPUs that send
    RRTypes,     \* the request types they use
    CRVals,      \* whether the timeouts the guest writes to IPI_CR are > 0
    None         \* ipi_sr = 0

IMMEDIATE == "immediate"
RETRACT == "retract"
DEFERRED == "deferred"
NOWAKE == "nowake"

ASSUME A13Assumption ==
    /\ CPUs \subseteq 0 .. 5
    /\ ClusterOf \in [CPUs -> Nat]
    /\ Senders \subseteq CPUs
    /\ RRTypes \subseteq {IMMEDIATE, RETRACT, DEFERRED, NOWAKE}
    /\ CRVals \subseteq BOOLEAN
    /\ None \notin [src : CPUs, type : {IMMEDIATE, DEFERRED, NOWAKE}]

VARIABLES
    ipi_sr,       \* CPU -> the latched IPI: its source and type, or None
    fast_ipi,     \* the CPUs whose FIQ input is high
    deferredIPI,  \* the pairs <<src, dst>> of the clusters' deferredIPI masks
    noWakeIPI,    \* the same of noWakeIPI
    on,           \* the CPUs whose power_state is not PSCI_OFF
    halted,       \* the CPUs that are halted
    ipicr_timer,  \* the deferred-IPI timer is armed
    quiet,        \* environment: the guest sends no more
    owed          \* history: the <<type, src, dst>> requested, and since then
                  \* neither latched, retracted nor merged with a latched one

ipiVars == <<ipi_sr, fast_ipi, deferredIPI, noWakeIPI, owed>>
vars == <<ipiVars, on, halted, ipicr_timer, quiet>>

TypeOK ==
    /\ ipi_sr \in [CPUs -> {None} \cup
                      [src : CPUs, type : {IMMEDIATE, DEFERRED, NOWAKE}]]
    /\ fast_ipi \subseteq CPUs
    /\ deferredIPI \subseteq CPUs \X CPUs
    /\ noWakeIPI \subseteq CPUs \X CPUs
    /\ on \subseteq CPUs
    /\ halted \subseteq CPUs
    /\ ipicr_timer \in BOOLEAN
    /\ quiet \in BOOLEAN
    /\ owed \subseteq {DEFERRED, NOWAKE} \X CPUs \X CPUs

(***************************************************************************)
(* Every CPU is created "start-powered-off".                               *)
(***************************************************************************)
Init ==
    /\ ipi_sr = [c \in CPUs |-> None]
    /\ fast_ipi = {}
    /\ deferredIPI = {}
    /\ noWakeIPI = {}
    /\ on = {}
    /\ halted = CPUs
    /\ ipicr_timer = TRUE
    /\ quiet = FALSE
    /\ owed = {}
-----------------------------------------------------------------------------
(***************************************************************************)
(* The request registers.  A pair is kept in the cluster of its target; as *)
(* a CPU has one cluster, the pair says which.                             *)
(***************************************************************************)

\* An IPI is dropped while its target has one latched.
apple_a13_deliver_ipi(dst, src, type) ==
    /\ ipi_sr' = IF ipi_sr[dst] # None THEN ipi_sr
                 ELSE [ipi_sr EXCEPT ![dst] = [src |-> src, type |-> type]]
    /\ fast_ipi' = fast_ipi \cup {c \in {dst} : ipi_sr[c] = None}

RequestNoWake(src, dst) ==
    IF dst \in halted
    THEN /\ noWakeIPI' = noWakeIPI \cup {<<src, dst>>}
         /\ owed' = owed \cup {<<NOWAKE, src, dst>>}
         /\ UNCHANGED <<ipi_sr, fast_ipi, deferredIPI>>
    ELSE /\ apple_a13_deliver_ipi(dst, src, IMMEDIATE)
         /\ UNCHANGED <<deferredIPI, noWakeIPI, owed>>

RequestDeferred(src, dst) ==
    /\ deferredIPI' = deferredIPI \cup {<<src, dst>>}
    /\ owed' = owed \cup {<<DEFERRED, src, dst>>}
    /\ UNCHANGED <<ipi_sr, fast_ipi, noWakeIPI>>

RequestRetract(src, dst) ==
    /\ deferredIPI' = deferredIPI \ {<<src, dst>>}
    /\ noWakeIPI' = noWakeIPI \ {<<src, dst>>}
    /\ owed' = owed \ {<<DEFERRED, src, dst>>, <<NOWAKE, src, dst>>}
    /\ UNCHANGED <<ipi_sr, fast_ipi>>

RequestImmediate(src, dst) ==
    /\ apple_a13_deliver_ipi(dst, src, IMMEDIATE)
    /\ UNCHANGED <<deferredIPI, noWakeIPI, owed>>

Request(src, dst) ==
    /\ src \in on \ halted
    /\ ~quiet
    /\ \/ NOWAKE \in RRTypes /\ RequestNoWake(src, dst)
       \/ DEFERRED \in RRTypes /\ RequestDeferred(src, dst)
       \/ RETRACT \in RRTypes /\ RequestRetract(src, dst)
       \/ IMMEDIATE \in RRTypes /\ RequestImmediate(src, dst)
    /\ UNCHANGED <<on, halted, ipicr_timer, quiet>>

apple_a13_ipi_rr_local(src, dst) ==
    /\ ClusterOf[src] = ClusterOf[dst]
    /\ Request(src, dst)

apple_a13_ipi_rr_global(src, dst) == Request(src, dst)

\* Mutation: the acknowledged request stays pending.
WriteSRKeepsPending(c) ==
    /\ c \in on \ halted
    /\ ipi_sr[c] # None
    /\ ipi_sr' = [ipi_sr EXCEPT ![c] = None]
    /\ fast_ipi' = fast_ipi \ {c}
    /\ UNCHANGED <<deferredIPI, noWakeIPI, owed, on, halted, ipicr_timer, quiet>>

\* Mutation: the FIQ input is not lowered.
WriteSRNoLower(c) ==
    /\ c \in on \ halted
    /\ ipi_sr[c] # None
    /\ ipi_sr' = [ipi_sr EXCEPT ![c] = None]
    /\ UNCHANGED <<fast_ipi, deferredIPI, noWakeIPI, owed, on, halted,
                   ipicr_timer, quiet>>

\* The guest writes back the value it read.  What was requested again since
\* it was latched is merged with it.
apple_a13_ipi_write_sr(c) ==
    /\ c \in on \ halted
    /\ ipi_sr[c] # None
    /\ LET src == ipi_sr[c].src
           type == ipi_sr[c].type
       IN /\ noWakeIPI' = noWakeIPI \ {p \in {<<src, c>>} : type = NOWAKE}
          /\ deferredIPI' = deferredIPI \ {p \in {<<src, c>>} : type = DEFERRED}
          /\ owed' = owed \ {<<type, src, c>>}
    /\ ipi_sr' = [ipi_sr EXCEPT ![c] = None]
    /\ fast_ipi' = fast_ipi \ {c}
    /\ UNCHANGED <<on, halted, ipicr_timer, quiet>>

\* A timeout of 0 stops the timer.
apple_a13_ipi_write_cr(c, positive) ==
    /\ c \in on \ halted
    /\ ipicr_timer' = positive
    /\ UNCHANGED <<ipiVars, on, halted, quiet>>
-----------------------------------------------------------------------------
(***************************************************************************)
(* The timer: for every CPU of a cluster that has requests pending there,  *)
(* in order, deliver the one for the lowest target.                        *)
(***************************************************************************)
Lowest(S) == CHOOSE c \in S : \A d \in S : c <= d

\* Mutation: a sleeping CPU is a no-wake candidate too.
NoWakeCandidatesOn(src) == {d \in on : <<src, d>> \in noWakeIPI}

NoWakeCandidates(src) == {d \in on \ halted : <<src, d>> \in noWakeIPI}

Candidates(k, src) ==
    {d \in CPUs : /\ ClusterOf[d] = k
                  /\ \/ d \in NoWakeCandidates(src)
                     \/ d \in on /\ <<src, d>> \in deferredIPI}

\* The sources whose request for dst the tick delivers: the scan of cluster
\* k skips the sources that are not CPUs of k.
SourcesFor(dst) ==
    LET k == ClusterOf[dst]
    IN {src \in CPUs : /\ ClusterOf[src] = k
                       /\ Candidates(k, src) # {}
                       /\ dst = Lowest(Candidates(k, src))}

\* The first of them finds ipi_sr clear, the others are dropped.
Delivered(dst) ==
    LET src == Lowest(SourcesFor(dst))
    IN [src |-> src,
        type |-> IF dst \in NoWakeCandidates(src) THEN NOWAKE ELSE DEFERRED]

apple_a13_cluster_ipicr_tick ==
    LET hit == {d \in CPUs : ipi_sr[d] = None /\ SourcesFor(d) # {}}
    IN /\ ipicr_timer
       /\ ipi_sr' = [c \in CPUs |-> IF c \in hit THEN Delivered(c) ELSE ipi_sr[c]]
       /\ fast_ipi' = fast_ipi \cup hit
       /\ owed' = owed \ {<<Delivered(d).type, Delivered(d).src, d>> : d \in hit}
       /\ UNCHANGED <<deferredIPI, noWakeIPI, on, halted, ipicr_timer, quiet>>

\* A system reset re-arms the timer and powers the CPUs off.  The latches and
\* the inputs of the FIQ gates are not reset, and neither are the masks:
\* apple_a13_cluster_reset would clear them, but the clusters are realized
\* without a bus, so the reset does not reach it.
apple_a13_cluster_reset_handler ==
    /\ on' = {}
    /\ halted' = CPUs
    /\ ipicr_timer' = TRUE
    /\ UNCHANGED <<ipiVars, quiet>>

apple_a13_set_on(c) ==
    /\ c \notin on
    /\ on' = on \cup {c}
    /\ halted' = halted \ {c}
    /\ UNCHANGED <<ipiVars, ipicr_timer, quiet>>

\* WFI halts a CPU with no interrupt pending; an interrupt, the fast IPI or
\* any other, ends it.
Sleep(c) ==
    /\ c \in (on \ halted) \ fast_ipi
    /\ halted' = halted \cup {c}
    /\ UNCHANGED <<ipiVars, on, ipicr_timer, quiet>>

Wake(c) ==
    /\ c \in on \cap halted
    /\ halted' = halted \ {c}
    /\ UNCHANGED <<ipiVars, on, ipicr_timer, quiet>>

Quiesce ==
    /\ ~quiet
    /\ quiet' = TRUE
    /\ UNCHANGED <<ipiVars, on, halted, ipicr_timer>>
-----------------------------------------------------------------------------
Next ==
    \/ \E src \in Senders, dst \in CPUs :
          apple_a13_ipi_rr_local(src, dst) \/ apple_a13_ipi_rr_global(src, dst)
    \/ \E c \in CPUs : \/ apple_a13_ipi_write_sr(c)
                       \/ apple_a13_set_on(c)
                       \/ Sleep(c)
                       \/ Wake(c)
    \/ \E c \in CPUs, positive \in CRVals : apple_a13_ipi_write_cr(c, positive)
    \/ apple_a13_cluster_ipicr_tick
    \/ apple_a13_cluster_reset_handler
    \/ Quiesce

Spec == Init /\ [][Next]_vars

\* The timer runs on the virtual clock and re-arms itself; a CPU with its FIQ
\* input high wakes and acknowledges.
FairSpec ==
    /\ Spec
    /\ WF_vars(apple_a13_cluster_ipicr_tick)
    /\ \A c \in CPUs : /\ WF_vars(c \in fast_ipi /\ Wake(c))
                       /\ WF_vars(apple_a13_ipi_write_sr(c))
-----------------------------------------------------------------------------
(***************************************************************************)
(* Properties                                                              *)
(***************************************************************************)

\* The FIQ input is high exactly while an IPI is latched, so a CPU is never
\* interrupted without a cause and never left with an IPI that interrupts
\* nobody (deliver_ipi drops every further one).
LineIsLatch == \A c \in CPUs : c \in fast_ipi <=> ipi_sr[c] # None

Pending(type) == IF type = NOWAKE THEN noWakeIPI ELSE deferredIPI

\* A pending bit that no request justifies any more is the one its target
\* has latched just now: the timer, which leaves the bit for the
\* acknowledgement to clear, cannot deliver one request twice, though ticks,
\* requests, retractions and acknowledgements come in any order and a reset,
\* which keeps both the bit and the latch, may fall between any two.
DeliveredOnce ==
    \A type \in {DEFERRED, NOWAKE}, src \in CPUs, dst \in CPUs :
        <<src, dst>> \in Pending(type) /\ <<type, src, dst>> \notin owed
           => ipi_sr[dst] = [src |-> src, type |-> type]

\* No timer tick latches an IPI that was not requested since it was last
\* latched or retracted.
OnlyOwedIsLatched ==
    [][\A c \in CPUs :
          ipi_sr'[c] # ipi_sr[c] /\ ipi_sr'[c] # None =>
             \/ ipi_sr'[c].type = IMMEDIATE
             \/ <<ipi_sr'[c].type, ipi_sr'[c].src, c>> \in owed]_vars

\* A no-wake IPI never interrupts a sleeping CPU, though the CPU may fall
\* asleep between the request and the tick.
NoWakeLetsSleep ==
    [][\A c \in halted :
          ipi_sr'[c] # ipi_sr[c] /\ ipi_sr'[c] # None
             => ipi_sr'[c].type # NOWAKE]_vars

\* Once the senders stop, each deferred IPI of a powered CPU's own cluster is
\* delivered and acknowledged unless the timer is stopped or a reset powers the
\* target off, although every tick serves only the lowest target of a source
\* and only the first source of a target.
LocalDeferredDrains ==
    \A src \in CPUs, dst \in CPUs :
        ClusterOf[src] = ClusterOf[dst] =>
           (quiet /\ dst \in on /\ <<src, dst>> \in deferredIPI
               ~> \/ <<src, dst>> \notin deferredIPI
                  \/ ~ipicr_timer
                  \/ dst \notin on)

\* The same for every deferred IPI, the ones of other clusters too.
DeferredDrains ==
    \A src \in CPUs, dst \in CPUs :
        quiet /\ dst \in on /\ <<src, dst>> \in deferredIPI
           ~> \/ <<src, dst>> \notin deferredIPI
              \/ ~ipicr_timer
              \/ dst \notin on
=============================================================================
