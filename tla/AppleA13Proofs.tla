--------------------------- MODULE AppleA13Proofs ---------------------------
(***************************************************************************)
(* Proofs about AppleA13, for any assignment of CPUs to clusters, any      *)
(* senders and any request types.                                          *)
(***************************************************************************)
EXTENDS AppleA13, TLAPS, WellFoundedInduction

LEMMA NatMin ==
  ASSUME NEW T \in SUBSET Nat, T # {}
  PROVE \E x \in T : \A y \in T : x <= y
<1>1. \E x \in T : \A y \in T : ~(<<y, x>> \in OpToRel(<, Nat))
  BY NatLessThanWellFounded, WFMin
<1>2. OpToRel(<, Nat) = {ss \in Nat \X Nat : ss[1] < ss[2]}
  BY Zenon DEF OpToRel
<1>3. PICK x \in T : \A y \in T : ~(<<y, x>> \in {ss \in Nat \X Nat : ss[1] < ss[2]})
  BY <1>1, <1>2, Zenon
<1>4. \A y \in T : ~(y < x)
  BY <1>3
<1> QED
  BY <1>4

\* ctz32 of a mask that is not 0 is one of its bits.
LEMMA LowestIn ==
  ASSUME NEW S, S \subseteq CPUs, S # {}
  PROVE Lowest(S) \in S
<1>1. S \in SUBSET Nat
  BY A13Assumption
<1>2. \E c \in S : \A d \in S : c <= d
  BY <1>1, NatMin, Zenon
<1> QED
  BY <1>2 DEF Lowest

\* What a tick latches is pending in the cluster's masks.
LEMMA DeliveredIsPending ==
  ASSUME NEW d \in CPUs, SourcesFor(d) # {}
  PROVE /\ Delivered(d) \in [src : CPUs, type : {DEFERRED, NOWAKE}]
        /\ <<Delivered(d).src, d>> \in Pending(Delivered(d).type)
        /\ Delivered(d).type = NOWAKE => d \notin halted
<1> DEFINE src == Lowest(SourcesFor(d))
<1>1. src \in SourcesFor(d)
  BY LowestIn DEF SourcesFor
<1>2. /\ src \in CPUs
      /\ Candidates(ClusterOf[d], src) # {}
      /\ d = Lowest(Candidates(ClusterOf[d], src))
  BY <1>1 DEF SourcesFor
<1>3. d \in Candidates(ClusterOf[d], src)
  BY <1>2, LowestIn DEF Candidates
<1> QED
  BY <1>2, <1>3 DEF Delivered, Candidates, NoWakeCandidates, Pending,
                    NOWAKE, DEFERRED

(***************************************************************************)
(* The registers, the masks and the power states keep their ranges.        *)
(***************************************************************************)
THEOREM TypeCorrect == Spec => []TypeOK
<1>1. Init => TypeOK
  BY A13Assumption DEF Init, TypeOK
<1>2. TypeOK /\ [Next]_vars => TypeOK'
  <2> SUFFICES ASSUME TypeOK, [Next]_vars
               PROVE TypeOK'
    OBVIOUS
  <2> USE A13Assumption DEF TypeOK, ipiVars
  <2>1. ASSUME NEW src \in Senders, NEW dst \in CPUs, Request(src, dst)
        PROVE TypeOK'
    <3>0. UNCHANGED <<on, halted, ipicr_timer, quiet>> /\ src \in CPUs
      BY <2>1 DEF Request
    <3>1. ASSUME apple_a13_deliver_ipi(dst, src, IMMEDIATE)
          PROVE /\ ipi_sr' \in [CPUs -> {None} \cup
                      [src : CPUs, type : {IMMEDIATE, DEFERRED, NOWAKE}]]
                /\ fast_ipi' \subseteq CPUs
      BY <3>0, <3>1 DEF apple_a13_deliver_ipi
    <3>2. CASE RequestNoWake(src, dst)
      <4>1. CASE dst \in halted
        <5>1. /\ noWakeIPI' = noWakeIPI \cup {<<src, dst>>}
              /\ owed' = owed \cup {<<NOWAKE, src, dst>>}
              /\ UNCHANGED <<ipi_sr, fast_ipi, deferredIPI>>
          BY <3>2, <4>1 DEF RequestNoWake
        <5> QED
          BY <3>0, <5>1
      <4>2. CASE dst \notin halted
        BY <3>0, <3>1, <3>2, <4>2 DEF RequestNoWake
      <4> QED
        BY <4>1, <4>2
    <3>3. CASE RequestDeferred(src, dst)
      BY <3>0, <3>3 DEF RequestDeferred
    <3>4. CASE RequestRetract(src, dst)
      BY <3>0, <3>4 DEF RequestRetract
    <3>5. CASE RequestImmediate(src, dst)
      BY <3>0, <3>1, <3>5 DEF RequestImmediate
    <3> QED
      BY <2>1, <3>2, <3>3, <3>4, <3>5 DEF Request
  <2>2. ASSUME NEW c \in CPUs, apple_a13_ipi_write_sr(c)
        PROVE TypeOK'
    BY <2>2 DEF apple_a13_ipi_write_sr
  <2>3. CASE apple_a13_cluster_ipicr_tick
    BY <2>3, DeliveredIsPending DEF apple_a13_cluster_ipicr_tick
  <2>4. CASE apple_a13_cluster_reset_handler
    BY <2>4 DEF apple_a13_cluster_reset_handler
  <2>5. ASSUME NEW c \in CPUs, apple_a13_set_on(c) \/ Sleep(c) \/ Wake(c)
        PROVE TypeOK'
    BY <2>5 DEF apple_a13_set_on, Sleep, Wake
  <2>6. ASSUME NEW c \in CPUs, NEW positive \in CRVals,
               apple_a13_ipi_write_cr(c, positive)
        PROVE TypeOK'
    BY <2>6 DEF apple_a13_ipi_write_cr
  <2>7. CASE Quiesce \/ UNCHANGED vars
    BY <2>7 DEF Quiesce, vars
  <2> QED
    BY <2>1, <2>2, <2>3, <2>4, <2>5, <2>6, <2>7
    DEF Next, apple_a13_ipi_rr_local, apple_a13_ipi_rr_global
<1> QED
  BY <1>1, <1>2, PTL DEF Spec

(***************************************************************************)
(* The FIQ input follows the latch.                                        *)
(***************************************************************************)
THEOREM LineFollowsLatch == Spec => []LineIsLatch
<1>1. Init => LineIsLatch
  BY DEF Init, LineIsLatch
<1>2. TypeOK /\ LineIsLatch /\ [Next]_vars => LineIsLatch'
  <2> SUFFICES ASSUME TypeOK, LineIsLatch, [Next]_vars
               PROVE LineIsLatch'
    OBVIOUS
  <2> USE A13Assumption DEF TypeOK, LineIsLatch
  <2>1. CASE UNCHANGED <<ipi_sr, fast_ipi>>
    BY <2>1
  <2>2. ASSUME NEW src \in Senders, NEW dst \in CPUs,
               apple_a13_deliver_ipi(dst, src, IMMEDIATE)
        PROVE LineIsLatch'
    <3>1. [src |-> src, type |-> IMMEDIATE] # None
      OBVIOUS
    <3> QED
      BY <2>2, <3>1 DEF apple_a13_deliver_ipi
  <2>3. ASSUME NEW c \in CPUs, apple_a13_ipi_write_sr(c)
        PROVE LineIsLatch'
    BY <2>3 DEF apple_a13_ipi_write_sr
  <2>4. CASE apple_a13_cluster_ipicr_tick
    <3>1. \A d \in CPUs : SourcesFor(d) # {} => Delivered(d) # None
      BY DeliveredIsPending
    <3> QED
      BY <2>4, <3>1 DEF apple_a13_cluster_ipicr_tick
  <2> QED
    BY <2>1, <2>2, <2>3, <2>4
    DEF Next, vars, ipiVars, apple_a13_ipi_rr_local, apple_a13_ipi_rr_global,
        Request, RequestNoWake, RequestDeferred, RequestRetract,
        RequestImmediate, apple_a13_cluster_reset_handler, apple_a13_set_on,
        Sleep, Wake, apple_a13_ipi_write_cr, Quiesce
<1> QED
  BY <1>1, <1>2, TypeCorrect, PTL DEF Spec

(***************************************************************************)
(* The timer delivers no request twice: a pending bit without a request    *)
(* behind it belongs to the IPI its target has latched.  This is inductive *)
(* because the acknowledgement clears the bit together with the latch.     *)
(***************************************************************************)
THEOREM NoSecondDelivery == Spec => []DeliveredOnce
<1>1. Init => DeliveredOnce
  BY DEF Init, DeliveredOnce, Pending
<1>2. TypeOK /\ DeliveredOnce /\ [Next]_vars => DeliveredOnce'
  <2> SUFFICES ASSUME TypeOK, DeliveredOnce, [Next]_vars,
                      NEW type \in {DEFERRED, NOWAKE},
                      NEW s \in CPUs, NEW d \in CPUs,
                      <<s, d>> \in Pending(type)',
                      <<type, s, d>> \notin owed'
               PROVE ipi_sr'[d] = [src |-> s, type |-> type]
    BY DEF DeliveredOnce, Pending
  <2> USE A13Assumption DEF TypeOK, Pending, DEFERRED, NOWAKE, IMMEDIATE
  <2>0. <<s, d>> \in Pending(type) /\ <<type, s, d>> \notin owed
           => ipi_sr[d] = [src |-> s, type |-> type]
    BY SMTT(20) DEF DeliveredOnce
  <2>1. CASE UNCHANGED <<ipi_sr, deferredIPI, noWakeIPI, owed>>
    BY <2>0, <2>1
  <2>2. ASSUME NEW src \in Senders, NEW dst \in CPUs, Request(src, dst)
        PROVE ipi_sr'[d] = [src |-> s, type |-> type]
    <3>1. CASE apple_a13_deliver_ipi(dst, src, IMMEDIATE)
               /\ UNCHANGED <<deferredIPI, noWakeIPI, owed>>
      <4>1. ipi_sr[d] = [src |-> s, type |-> type] /\ ipi_sr[d] # None
        BY <2>0, <3>1
      <4> QED
        BY <3>1, <4>1 DEF apple_a13_deliver_ipi
    <3>2. CASE /\ noWakeIPI' = noWakeIPI \cup {<<src, dst>>}
               /\ owed' = owed \cup {<<NOWAKE, src, dst>>}
               /\ UNCHANGED <<ipi_sr, fast_ipi, deferredIPI>>
      BY <2>0, <3>2
    <3>3. CASE RequestDeferred(src, dst)
      BY <2>0, <3>3 DEF RequestDeferred
    <3>4. CASE RequestRetract(src, dst)
      BY <2>0, <3>4 DEF RequestRetract
    <3> QED
      BY <2>2, <3>1, <3>2, <3>3, <3>4
      DEF Request, RequestNoWake, RequestImmediate
  <2>3. ASSUME NEW c \in CPUs, apple_a13_ipi_write_sr(c)
        PROVE ipi_sr'[d] = [src |-> s, type |-> type]
    <3>1. CASE c # d
      BY <2>0, <2>3, <3>1 DEF apple_a13_ipi_write_sr
    <3>2. CASE c = d
      BY <2>0, <2>3, <3>2 DEF apple_a13_ipi_write_sr
    <3> QED
      BY <3>1, <3>2
  <2>4. CASE apple_a13_cluster_ipicr_tick
    <3>1. <<s, d>> \in Pending(type)
      BY <2>4 DEF apple_a13_cluster_ipicr_tick
    <3>2. CASE <<type, s, d>> \notin owed
      BY <2>0, <2>4, <3>1, <3>2 DEF apple_a13_cluster_ipicr_tick
    <3>3. CASE <<type, s, d>> \in owed
      <4>1. PICK e \in CPUs : /\ ipi_sr[e] = None
                              /\ SourcesFor(e) # {}
                              /\ <<type, s, d>> =
                                   <<Delivered(e).type, Delivered(e).src, e>>
        BY <2>4, <3>3 DEF apple_a13_cluster_ipicr_tick
      <4>2. Delivered(d) = [src |-> s, type |-> type]
        BY <4>1, DeliveredIsPending
      <4> QED
        BY <2>4, <4>1, <4>2 DEF apple_a13_cluster_ipicr_tick
    <3> QED
      BY <3>2, <3>3
  <2> QED
    BY <2>1, <2>2, <2>3, <2>4
    DEF Next, vars, ipiVars, apple_a13_ipi_rr_local, apple_a13_ipi_rr_global,
        apple_a13_cluster_reset_handler, apple_a13_set_on, Sleep, Wake,
        apple_a13_ipi_write_cr, Quiesce
<1> QED
  BY <1>1, <1>2, TypeCorrect, PTL DEF Spec

(***************************************************************************)
(* A latch that is filled is filled by an immediate IPI or by the tick.    *)
(***************************************************************************)
LEMMA LatchStep ==
  ASSUME TypeOK, Next, NEW c \in CPUs,
         ipi_sr'[c] # ipi_sr[c], ipi_sr'[c] # None,
         ipi_sr'[c].type # IMMEDIATE
  PROVE /\ ipi_sr[c] = None
        /\ SourcesFor(c) # {}
        /\ ipi_sr'[c] = Delivered(c)
<1> USE A13Assumption DEF TypeOK
<1>1. CASE UNCHANGED ipi_sr
  BY <1>1
<1>2. ASSUME NEW src \in Senders, NEW dst \in CPUs,
             apple_a13_deliver_ipi(dst, src, IMMEDIATE)
      PROVE FALSE
  BY <1>2 DEF apple_a13_deliver_ipi
<1>3. ASSUME NEW d \in CPUs, apple_a13_ipi_write_sr(d)
      PROVE FALSE
  BY <1>3 DEF apple_a13_ipi_write_sr
<1>4. CASE apple_a13_cluster_ipicr_tick
  BY <1>4 DEF apple_a13_cluster_ipicr_tick
<1> QED
  BY <1>1, <1>2, <1>3, <1>4
  DEF Next, ipiVars, apple_a13_ipi_rr_local, apple_a13_ipi_rr_global,
      Request, RequestNoWake, RequestDeferred, RequestRetract,
      RequestImmediate, apple_a13_cluster_reset_handler, apple_a13_set_on,
      Sleep, Wake, apple_a13_ipi_write_cr, Quiesce

(***************************************************************************)
(* What the timer latches was requested since it was last latched or       *)
(* retracted.                                                              *)
(***************************************************************************)
THEOREM LatchIsOwed == Spec => OnlyOwedIsLatched
<1> DEFINE Step == \A c \in CPUs :
          ipi_sr'[c] # ipi_sr[c] /\ ipi_sr'[c] # None =>
             \/ ipi_sr'[c].type = IMMEDIATE
             \/ <<ipi_sr'[c].type, ipi_sr'[c].src, c>> \in owed
<1>1. TypeOK /\ DeliveredOnce /\ [Next]_vars => [Step]_vars
  <2> SUFFICES ASSUME TypeOK, DeliveredOnce, Next, NEW c \in CPUs,
                      ipi_sr'[c] # ipi_sr[c], ipi_sr'[c] # None,
                      ipi_sr'[c].type # IMMEDIATE
               PROVE <<ipi_sr'[c].type, ipi_sr'[c].src, c>> \in owed
    OBVIOUS
  <2>1. ipi_sr[c] = None /\ SourcesFor(c) # {} /\ ipi_sr'[c] = Delivered(c)
    BY LatchStep
  <2>2. /\ Delivered(c) \in [src : CPUs, type : {DEFERRED, NOWAKE}]
        /\ <<Delivered(c).src, c>> \in Pending(Delivered(c).type)
    BY <2>1, DeliveredIsPending
  <2>3. ipi_sr[c] # [src |-> Delivered(c).src, type |-> Delivered(c).type]
    BY <2>1, <2>2, A13Assumption
  <2> QED
    BY <2>1, <2>2, <2>3 DEF DeliveredOnce
<1> QED
  BY <1>1, TypeCorrect, NoSecondDelivery, PTL DEF Spec, OnlyOwedIsLatched

(***************************************************************************)
(* No step latches a no-wake IPI at a CPU that sleeps.                     *)
(***************************************************************************)
THEOREM SleepersSleep == Spec => NoWakeLetsSleep
<1> DEFINE Step == \A c \in halted :
          ipi_sr'[c] # ipi_sr[c] /\ ipi_sr'[c] # None
             => ipi_sr'[c].type # NOWAKE
<1>1. TypeOK /\ [Next]_vars => [Step]_vars
  <2> SUFFICES ASSUME TypeOK, Next, NEW c \in halted,
                      ipi_sr'[c] # ipi_sr[c], ipi_sr'[c] # None,
                      ipi_sr'[c].type = NOWAKE
               PROVE FALSE
    OBVIOUS
  <2>1. c \in CPUs /\ ipi_sr'[c].type # IMMEDIATE
    BY DEF TypeOK, NOWAKE, IMMEDIATE
  <2>2. SourcesFor(c) # {} /\ ipi_sr'[c] = Delivered(c)
    BY <2>1, LatchStep
  <2> QED
    BY <2>1, <2>2, DeliveredIsPending
<1> QED
  BY <1>1, TypeCorrect, PTL DEF Spec, NoWakeLetsSleep
=============================================================================
