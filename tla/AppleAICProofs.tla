--------------------------- MODULE AppleAICProofs ---------------------------
(***************************************************************************)
(* Proofs about AppleAIC, for any number of CPUs and interrupts and any    *)
(* values the guest may write.                                             *)
(***************************************************************************)
EXTENDS AppleAIC, TLAPS, WellFoundedInduction

(***************************************************************************)
(* Every handler of apple_aic.c keeps the registers in range: no bit that  *)
(* is no CPU enters pendingIPI, no bit but NORMAL and SELF enters ipi_mask.*)
(***************************************************************************)
THEOREM TypeCorrect == Spec => []TypeOK
<1>1. Init => TypeOK
  BY AICAssumption DEF Init, TypeOK, IPIBits, IPIMaskBits
<1>2. TypeOK /\ [Next]_vars => TypeOK'
  <2> SUFFICES ASSUME TypeOK, [Next]_vars PROVE TypeOK'
    OBVIOUS
  <2> USE AICAssumption DEF TypeOK, eirVars, ipiVars
  <2>1. CASE apple_aic_tick
    BY <2>1 DEF apple_aic_tick, apple_aic_update, Merged
  <2>2. CASE apple_aic_reset
    BY <2>2 DEF apple_aic_reset
  <2>3. ASSUME NEW i \in IRQs, NEW level \in BOOLEAN,
               apple_aic_set_irq(i, level)
        PROVE TypeOK'
    BY <2>3 DEF apple_aic_set_irq
  <2>4. ASSUME NEW i \in IRQs, NEW val \in DestVals, REG_AIC_EIR_DEST(i, val)
        PROVE TypeOK'
    BY <2>4 DEF REG_AIC_EIR_DEST
  <2>5. ASSUME NEW val \in EIRVals, EIRWrite(val)
        PROVE TypeOK'
    BY <2>5 DEF EIRWrite, REG_AIC_EIR_SW_SET, REG_AIC_EIR_SW_CLR,
                REG_AIC_EIR_MASK_SET, REG_AIC_EIR_MASK_CLR
  <2>6. ASSUME NEW o \in CPUs, NEW val \in IPIVals, IPIWrite(o, val)
        PROVE TypeOK'
    <3>1. \A c \in CPUs : IPIFrom(o, val, c) \subseteq IPIBits
      BY DEF IPIFrom, IPIBits
    <3>2. CASE REG_AIC_IPI_SET(o, val)
      BY <3>1, <3>2 DEF REG_AIC_IPI_SET
    <3>3. CASE REG_AIC_IPI_CLR(o, val)
      BY <3>3 DEF REG_AIC_IPI_CLR
    <3>4. CASE REG_AIC_IPI_MASK_SET(o, val)
      BY <3>4 DEF REG_AIC_IPI_MASK_SET
    <3>5. CASE REG_AIC_IPI_MASK_CLR(o, val)
      BY <3>5 DEF REG_AIC_IPI_MASK_CLR
    <3>6. CASE REG_AIC_IPI_DEFER_SET(o, val)
      BY <3>1, <3>6 DEF REG_AIC_IPI_DEFER_SET
    <3>7. CASE REG_AIC_IPI_DEFER_CLR(o, val)
      BY <3>7 DEF REG_AIC_IPI_DEFER_CLR
    <3> QED
      BY <2>6, <3>2, <3>3, <3>4, <3>5, <3>6, <3>7 DEF IPIWrite
  <2>7. ASSUME NEW o \in CPUs, REG_AIC_IACK(o)
        PROVE TypeOK'
    <3>1. CASE AckSelfIPI(o)
      BY <2>7, <3>1 DEF REG_AIC_IACK, AckSelfIPI, IPIMaskBits
    <3>2. CASE AckNormalIPI(o)
      BY <2>7, <3>2 DEF REG_AIC_IACK, AckNormalIPI, IPIMaskBits
    <3>3. CASE AckEIR(o)
      BY <2>7, <3>3 DEF REG_AIC_IACK, AckEIR, EIRsFor
    <3>4. CASE AckSpurious(o)
      BY <2>7, <3>4 DEF REG_AIC_IACK, AckSpurious
    <3> QED
      BY <2>7, <3>1, <3>2, <3>3, <3>4 DEF REG_AIC_IACK
  <2>8. CASE UNCHANGED vars
    BY <2>8 DEF vars
  <2> QED
    BY <2>1, <2>2, <2>3, <2>4, <2>5, <2>6, <2>7, <2>8 DEF Next
<1> QED
  BY <1>1, <1>2, PTL DEF Spec

(***************************************************************************)
(* An EIR acknowledged through REG_AIC_IACK stays masked until it is       *)
(* unmasked, for any interleaving of banks, timer, devices and resets.     *)
(***************************************************************************)
THEOREM ClaimedStaysMasked == Spec => []ClaimedIsMasked
<1>1. Init => ClaimedIsMasked
  BY SMTT(20) DEF Init, ClaimedIsMasked
<1>2. TypeOK /\ ClaimedIsMasked /\ [Next]_vars => ClaimedIsMasked'
  <2> SUFFICES ASSUME TypeOK, ClaimedIsMasked, [Next]_vars
               PROVE ClaimedIsMasked'
    OBVIOUS
  <2> USE AICAssumption DEF TypeOK, ClaimedIsMasked, eirVars, ipiVars
  <2>1. CASE UNCHANGED eirVars
    BY <2>1
  <2>2. CASE apple_aic_reset
    BY <2>2 DEF apple_aic_reset
  <2>3. ASSUME NEW val \in EIRVals, EIRWrite(val)
        PROVE ClaimedIsMasked'
    BY <2>3 DEF EIRWrite, REG_AIC_EIR_SW_SET, REG_AIC_EIR_SW_CLR,
                REG_AIC_EIR_MASK_SET, REG_AIC_EIR_MASK_CLR
  <2>4. ASSUME NEW o \in CPUs, AckEIR(o)
        PROVE ClaimedIsMasked'
    BY <2>4 DEF AckEIR, EIRsFor
  <2>5. ASSUME NEW i \in IRQs, NEW val \in DestVals, REG_AIC_EIR_DEST(i, val)
        PROVE ClaimedIsMasked'
    BY <2>5 DEF REG_AIC_EIR_DEST
  <2>6. ASSUME NEW i \in IRQs, NEW level \in BOOLEAN,
               apple_aic_set_irq(i, level)
        PROVE ClaimedIsMasked'
    BY <2>6 DEF apple_aic_set_irq
  <2> QED
    BY <2>1, <2>2, <2>3, <2>4, <2>5, <2>6
    DEF Next, vars, apple_aic_tick, apple_aic_update, IPIWrite,
        REG_AIC_IPI_SET, REG_AIC_IPI_CLR, REG_AIC_IPI_MASK_SET,
        REG_AIC_IPI_MASK_CLR, REG_AIC_IPI_DEFER_SET, REG_AIC_IPI_DEFER_CLR,
        REG_AIC_IACK, AckSelfIPI, AckNormalIPI, AckSpurious
<1> QED
  BY <1>1, <1>2, TypeCorrect, PTL DEF Spec

(***************************************************************************)
(* Hence an EIR has one handler at a time: a second REG_AIC_IACK cannot    *)
(* return it before an unmask or a reset.                                  *)
(***************************************************************************)
THEOREM OneHandler == Spec => NoDoubleClaim
<1> DEFINE Step == \A i \in IRQs : claim[i] # NoCPU /\ claim'[i] # claim[i]
                                      => claim'[i] = NoCPU
<1>1. TypeOK /\ ClaimedIsMasked /\ [Next]_vars => [Step]_vars
  <2> SUFFICES ASSUME TypeOK, ClaimedIsMasked, Next
               PROVE Step
    OBVIOUS
  <2> USE AICAssumption DEF TypeOK, ClaimedIsMasked, eirVars, ipiVars
  <2>1. CASE UNCHANGED claim
    BY <2>1
  <2>2. CASE apple_aic_reset
    BY <2>2 DEF apple_aic_reset
  <2>3. ASSUME NEW val \in EIRVals, REG_AIC_EIR_MASK_CLR(val)
        PROVE Step
    BY <2>3 DEF REG_AIC_EIR_MASK_CLR
  <2>4. ASSUME NEW o \in CPUs, AckEIR(o)
        PROVE Step
    <3>1. PICK i \in EIRsFor(o) : claim' = [claim EXCEPT ![i] = o]
      BY <2>4 DEF AckEIR
    <3>2. i \in IRQs /\ claim[i] = NoCPU
      BY <3>1 DEF EIRsFor
    <3> QED
      BY <3>1, <3>2
  <2> QED
    BY <2>1, <2>2, <2>3, <2>4
    DEF Next, apple_aic_tick, apple_aic_update, IPIWrite, EIRWrite,
        REG_AIC_EIR_SW_SET, REG_AIC_EIR_SW_CLR, REG_AIC_EIR_MASK_SET,
        REG_AIC_IPI_SET, REG_AIC_IPI_CLR, REG_AIC_IPI_MASK_SET,
        REG_AIC_IPI_MASK_CLR, REG_AIC_IPI_DEFER_SET, REG_AIC_IPI_DEFER_CLR,
        REG_AIC_IACK, AckSelfIPI, AckNormalIPI, AckSpurious,
        REG_AIC_EIR_DEST, apple_aic_set_irq
<1> QED
  BY <1>1, TypeCorrect, ClaimedStaysMasked, PTL DEF Spec, NoDoubleClaim
-----------------------------------------------------------------------------
(***************************************************************************)
(* The scan of apple_aic_update.  A non-empty set of naturals has a least  *)
(* element; every induction below looks at the least counterexample.       *)
(***************************************************************************)
LEMMA NatMin ==
  ASSUME NEW T \in SUBSET Nat, T # {}
  PROVE \E x \in T : \A y \in T : x <= y
<1>1. \E x \in T : \A y \in T : ~(<<y, x>> \in OpToRel(<, Nat))
  BY NatLessThanWellFounded, WFMin
<1>2. OpToRel(<, Nat) = {ss \in Nat \X Nat : ss[1] < ss[2]}
  BY Zenon DEF OpToRel
<1>3. PICK x \in T : \A y \in T : ~(<<y, x>> \in {ss \in Nat \X Nat : ss[1] < ss[2]})
  BY <1>1, <1>2, Zenon
<1>4. \A y \in T : ~(y < x)
  BY <1>3
<1> QED
  BY <1>4

\* find_first_bit32 finds a CPU of the mask when there is one.
LEMMA FirstCPUIsCPU ==
  ASSUME NEW bits
  PROVE /\ FirstCPU(bits) \in 0 .. numCPU
        /\ bits \cap CPUs # {} => FirstCPU(bits) \in bits \cap CPUs
<1> USE AICAssumption
<1>1. CASE bits \cap CPUs = {}
  BY <1>1 DEF FirstCPU
<1>2. CASE bits \cap CPUs # {}
  <2>1. \E c \in bits \cap CPUs : \A d \in bits \cap CPUs : c <= d
    <3>1. bits \cap CPUs \in SUBSET Nat
      BY DEF CPUs
    <3> QED
      BY <1>2, <3>1, NatMin, Zenon
  <2> QED
    BY <1>2, <2>1 DEF FirstCPU, CPUs
<1> QED
  BY <1>1, <1>2

\* The recursive definition of Scan defines a function.
LEMMA ScanUnfolds ==
  \A n \in 0 .. numIRQ :
     Scan[n] = IF n = 0 THEN [intr |-> IPICPUs, potential |-> {}]
               ELSE Assign(n - 1, Scan[n - 1])
<1> USE AICAssumption
<1> DEFINE Upto(m, f) ==
      f = [n \in 0 .. m |->
             IF n = 0 THEN [intr |-> IPICPUs, potential |-> {}]
             ELSE Assign(n - 1, f[n - 1])]
    Bad == {m \in 0 .. numIRQ : ~ \E f : Upto(m, f)}
<1>1. Bad = {}
  <2> SUFFICES ASSUME Bad # {} PROVE FALSE
    OBVIOUS
  <2>1. PICK m \in Bad : \A y \in Bad : m <= y
    <3>1. Bad \in SUBSET Nat
      OBVIOUS
    <3> QED
      BY <3>1, NatMin, Zenon
  <2>2. CASE m = 0
    <3> DEFINE g == [n \in 0 .. 0 |-> [intr |-> IPICPUs, potential |-> {}]]
    <3>1. Upto(0, g)
      OBVIOUS
    <3> QED
      BY <2>1, <2>2, <3>1
  <2>3. CASE m # 0
    <3>1. m - 1 \in 0 .. numIRQ /\ m - 1 \notin Bad /\ m \in Nat \ {0}
      <4>1. m \in 0 .. numIRQ
        BY <2>1, Zenon
      <4> HIDE DEF Bad
      <4> QED
        BY <2>1, <2>3, <4>1
    <3>2. PICK f : Upto(m - 1, f)
      BY <3>1
    <3> DEFINE g == [n \in 0 .. m |-> IF n = m THEN Assign(m - 1, f[m - 1])
                                      ELSE f[n]]
    <3>3. \A n \in 0 .. m :
            g[n] = IF n = 0 THEN [intr |-> IPICPUs, potential |-> {}]
                   ELSE Assign(n - 1, g[n - 1])
      <4> SUFFICES ASSUME NEW n \in 0 .. m
                   PROVE g[n] = IF n = 0
                                THEN [intr |-> IPICPUs, potential |-> {}]
                                ELSE Assign(n - 1, g[n - 1])
        OBVIOUS
      <4>1. CASE n = m
        <5>1. g[n] = Assign(m - 1, f[m - 1]) /\ g[m - 1] = f[m - 1]
          BY <3>1, <4>1
        <5> QED
          BY <3>1, <4>1, <5>1
      <4>2. CASE n # m
        <5>1. n \in 0 .. m - 1 /\ g[n] = f[n] /\ (n # 0 => g[n - 1] = f[n - 1])
          BY <3>1, <4>2
        <5>2. f[n] = IF n = 0 THEN [intr |-> IPICPUs, potential |-> {}]
                     ELSE Assign(n - 1, f[n - 1])
          BY <3>2, <5>1
        <5> QED
          BY <5>1, <5>2
      <4> QED
        BY <4>1, <4>2
    <3>4. Upto(m, g)
      BY <3>3, SMTT(20)
    <3> QED
      BY <2>1, <3>4
  <2> QED
    BY <2>2, <2>3
<1>2. \E f : Upto(numIRQ, f)
  <2>1. numIRQ \in 0 .. numIRQ
    OBVIOUS
  <2> HIDE DEF Upto
  <2> QED
    BY <1>1, <2>1, Zenon
<1>3. Scan = CHOOSE f : Upto(numIRQ, f)
  BY DEF Scan
<1>4. Upto(numIRQ, Scan)
  BY <1>2, <1>3
<1> QED
  BY <1>4

(***************************************************************************)
(* What the scan knows after the EIRs below n.  The second group needs     *)
(* that no destination holds bit numCPU, the one find_first_bit32 returns  *)
(* for "none".                                                             *)
(***************************************************************************)
AccOK(acc) ==
    /\ acc \in [intr : SUBSET (0 .. numCPU), potential : SUBSET (0 .. 31)]
    /\ IPICPUs \subseteq acc.intr
    /\ \A c \in acc.potential \cap CPUs : EIRsFor(c) # {}
    /\ \A c \in acc.intr \cap CPUs : c \in IPICPUs \/ EIRsFor(c) # {}

Served(i, acc) == Deliverable(i) /\ eir_dest[i] \cap CPUs # {}
                     => eir_dest[i] \cap CPUs \cap acc.intr # {}

NoStray == \A i \in IRQs : numCPU \notin eir_dest[i]

\* One turn of the scan keeps what is known and serves its own EIR.
LEMMA AssignStep ==
  ASSUME TypeOK, NEW i \in IRQs, NEW acc, AccOK(acc)
  PROVE /\ AccOK(Assign(i, acc))
        /\ acc.intr \subseteq Assign(i, acc).intr
        /\ NoStray => Served(i, Assign(i, acc))
<1> DEFINE dest == eir_dest[i]
           helpers == (CPUs \ acc.intr) \cap acc.potential
<1> USE AICAssumption
<1>0. dest \in SUBSET (0 .. 31) /\ CPUs \subseteq 0 .. numCPU
      /\ numCPU \notin CPUs
  BY DEF TypeOK, CPUs
<1>a. Deliverable(i) => \A c \in dest : EIRsFor(c) # {}
  BY DEF TypeOK, Deliverable, EIRsFor
<1>1. CASE ~Deliverable(i)
  BY <1>1 DEF Assign, Served
<1>2. CASE Deliverable(i) /\ acc.intr \cap dest = {}
  <2> DEFINE new == [intr |-> acc.intr \cup {FirstCPU(dest)},
                     potential |-> acc.potential \cup dest]
  <2>1. Assign(i, acc) = new
    BY <1>2 DEF Assign
  <2>2. /\ FirstCPU(dest) \in 0 .. numCPU
        /\ dest \cap CPUs # {} => FirstCPU(dest) \in dest \cap CPUs
        /\ dest \cap CPUs = {} => FirstCPU(dest) \notin CPUs
    BY <1>0, FirstCPUIsCPU DEF FirstCPU
  <2>3. AccOK(new)
    BY <1>0, <1>2, <1>a, <2>2 DEF AccOK
  <2>4. Served(i, new)
    BY <2>2 DEF Served
  <2> QED
    BY <2>1, <2>3, <2>4
<1>3. CASE Deliverable(i) /\ acc.intr \cap dest # {}
  <2> DEFINE new == [acc EXCEPT !.intr = IF helpers = {} THEN @
                                         ELSE @ \cup {FirstCPU(helpers)}]
  <2>1. Assign(i, acc) = new
    BY <1>3 DEF Assign
  <2>2. helpers # {} => FirstCPU(helpers) \in helpers
    BY FirstCPUIsCPU
  <2>3. AccOK(new) /\ acc.intr \subseteq new.intr
    BY <1>0, <2>2 DEF AccOK
  <2>4. NoStray => dest \cap CPUs \cap acc.intr # {}
    BY <1>3 DEF NoStray, AccOK, CPUs
  <2> QED
    BY <2>1, <2>3, <2>4 DEF Served
<1> QED
  BY <1>1, <1>2, <1>3

\* By induction, the whole scan does.
LEMMA ScanServes ==
  ASSUME TypeOK
  PROVE /\ AccOK(Scan[numIRQ])
        /\ NoStray => \A i \in IRQs : Served(i, Scan[numIRQ])
<1> DEFINE Good(n) == /\ AccOK(Scan[n])
                      /\ NoStray => \A i \in 0 .. n - 1 : Served(i, Scan[n])
           Bad == {n \in 0 .. numIRQ : ~Good(n)}
<1> USE AICAssumption
<1>1. Good(0)
  <2>1. Scan[0] = [intr |-> IPICPUs, potential |-> {}]
    <3>1. 0 \in 0 .. numIRQ
      OBVIOUS
    <3> QED
      BY <3>1, ScanUnfolds, Zenon
  <2> QED
    BY <2>1 DEF AccOK, IPICPUs, CPUs
<1>2. ASSUME NEW n \in 1 .. numIRQ, Good(n - 1)
      PROVE Good(n)
  <2>1. n - 1 \in IRQs /\ Scan[n] = Assign(n - 1, Scan[n - 1])
    BY ScanUnfolds DEF IRQs
  <2>2. /\ AccOK(Scan[n])
        /\ Scan[n - 1].intr \subseteq Scan[n].intr
        /\ NoStray => Served(n - 1, Scan[n])
    BY <1>2, <2>1, AssignStep
  <2>3. ASSUME NoStray, NEW i \in 0 .. n - 1
        PROVE Served(i, Scan[n])
    <3>1. CASE i = n - 1
      BY <2>2, <2>3, <3>1
    <3>2. CASE i # n - 1
      <4>1. i \in 0 .. (n - 1) - 1
        BY <3>2
      <4>2. Served(i, Scan[n - 1])
        BY <1>2, <2>3, <4>1
      <4> QED
        BY <2>2, <4>2 DEF Served
    <3> QED
      BY <3>1, <3>2
  <2> QED
    BY <2>2, <2>3
<1> HIDE DEF Good
<1>3. Bad = {}
  <2> SUFFICES ASSUME Bad # {} PROVE FALSE
    OBVIOUS
  <2>1. Bad \in SUBSET Nat
    OBVIOUS
  <2>2. PICK m \in Bad : \A y \in Bad : m <= y
    BY <2>1, NatMin, Zenon
  <2>3. m \in 1 .. numIRQ
    BY <1>1, <2>2
  <2>4. Good(m - 1)
    BY <2>2, <2>3
  <2> QED
    BY <1>2, <2>2, <2>3, <2>4
<1>4. Good(numIRQ)
  BY <1>3
<1> QED
  BY <1>4 DEF Good, IRQs

(***************************************************************************)
(* apple_aic_update never interrupts a CPU that has nothing to take,       *)
(* whatever destinations the guest wrote.                                  *)
(***************************************************************************)
THEOREM NobodyInVain == Spec => []TickWakesNobodyInVain
<1>1. TypeOK => TickWakesNobodyInVain
  BY ScanServes DEF AccOK, TickWakesNobodyInVain, Interrupted
<1> QED
  BY <1>1, TypeCorrect, PTL

(***************************************************************************)
(* apple_aic_update serves every deliverable interrupt, provided the guest *)
(* never sets the destination bit just past the last CPU: that bit is the  *)
(* only way to lose one, for any number of CPUs and interrupts.            *)
(***************************************************************************)
THEOREM ServesAll ==
  ASSUME \A v \in DestVals : numCPU \notin v
  PROVE Spec => []TickServesAll
<1>1. Init => NoStray
  BY SMTT(20) DEF Init, NoStray
<1>2. TypeOK /\ NoStray /\ [Next]_vars => NoStray'
  <2> SUFFICES ASSUME TypeOK, NoStray, [Next]_vars
               PROVE NoStray'
    OBVIOUS
  <2> USE DEF TypeOK, NoStray, eirVars, ipiVars
  <2>1. CASE UNCHANGED eir_dest
    BY <2>1
  <2>2. CASE apple_aic_reset
    BY <2>2 DEF apple_aic_reset
  <2>3. ASSUME NEW i \in IRQs, NEW val \in DestVals, REG_AIC_EIR_DEST(i, val)
        PROVE NoStray'
    BY <2>3 DEF REG_AIC_EIR_DEST
  <2> QED
    BY <2>1, <2>2, <2>3
    DEF Next, vars, apple_aic_tick, apple_aic_update, IPIWrite, EIRWrite,
        REG_AIC_EIR_SW_SET, REG_AIC_EIR_SW_CLR, REG_AIC_EIR_MASK_SET,
        REG_AIC_EIR_MASK_CLR, REG_AIC_IPI_SET, REG_AIC_IPI_CLR,
        REG_AIC_IPI_MASK_SET, REG_AIC_IPI_MASK_CLR, REG_AIC_IPI_DEFER_SET,
        REG_AIC_IPI_DEFER_CLR, REG_AIC_IACK, AckSelfIPI, AckNormalIPI,
        AckEIR, AckSpurious, apple_aic_set_irq
<1>3. TypeOK /\ NoStray => TickServesAll
  BY ScanServes DEF AccOK, Served, TickServesAll, Interrupted, IPICPUs
<1> QED
  BY <1>1, <1>2, <1>3, TypeCorrect, PTL DEF Spec
=============================================================================
