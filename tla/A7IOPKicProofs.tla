--------------------------- MODULE A7IOPKicProofs ---------------------------
(***************************************************************************)
(* Proofs about the mailbox pair and about the SEP's interrupt controller, *)
(* for every set of messages, masks, enables, external interrupts and      *)
(* timers, and every length of the inboxes.                                *)
(*                                                                         *)
(* The mailboxes have one inductive invariant, MboxInv: the types, the     *)
(* outputs of a mailbox about its own inbox, and all outputs of the SEP's  *)
(* IOP mailbox.  The controller's line follows its sources step by step;   *)
(* that a source is read once needs more: what was read is masked or       *)
(* disabled until it is enabled again.                                     *)
(***************************************************************************)
EXTENDS A7IOPKic, TLAPS, WellFoundedInduction

-----------------------------------------------------------------------------
(* The mailbox pair.                                                       *)

\* An output set is a set of sources.
LEMMA OutputType ==
    ASSUME NEW boxes, NEW under, NEW mask
    PROVE  Output(boxes, under, mask) \in SUBSET Sources
BY DEF Output

\* An update refreshes the mailbox itself, and the SEP's IOP mailbox whichever
\* mailbox is updated.
LEMMA UpdatedSelf ==
    ASSUME NEW m \in Boxes
    PROVE  /\ m \in Updated(m)
           /\ IsSEP => "iop" \in Updated(m)
BY DEF Updated, Boxes

\* The outputs of a mailbox about its own inbox depend on nothing of the other.
LEMMA OwnOutputs ==
    ASSUME NEW m \in Boxes, NEW k \in Kinds, NEW mask,
           NEW boxes1, NEW under1, NEW boxes2, NEW under2,
           boxes1[m] = boxes2[m], under1[m] = under2[m]
    PROVE  <<m, k>> \in Output(boxes1, under1, mask)
             <=> <<m, k>> \in Output(boxes2, under2, mask)
BY DEF Output, Sources

\* After an update of m the outputs of all refreshed mailboxes are current, and
\* another mailbox keeps its own if its inbox, underflow and mask did not change.
LEMMA UpdateFollows ==
    ASSUME NEW m \in Boxes,
           MboxTypeOK, OwnOutputsFollow, SEPOutputsFollow,
           apple_a7iop_mailbox_update_irq(m),
           \A b \in Boxes \ {m} : /\ inbox'[b] = inbox[b]
                                  /\ underflow'[b] = underflow[b]
                                  /\ int_mask'[b] = int_mask[b]
    PROVE  /\ irqs' \in [Boxes -> SUBSET Sources]
           /\ OwnOutputsFollow'
           /\ SEPOutputsFollow'
<1>1. irqs' \in [Boxes -> SUBSET Sources]
  BY OutputType DEF apple_a7iop_mailbox_update_irq, MboxTypeOK
<1>2. \A b \in Updated(m) \intersect Boxes : irqs'[b] = Current(b)'
  BY DEF apple_a7iop_mailbox_update_irq, Current
<1>3. OwnOutputsFollow'
  <2> SUFFICES ASSUME NEW b \in Boxes, NEW k \in Kinds
               PROVE  <<b, k>> \in irqs'[b] <=> <<b, k>> \in Current(b)'
    BY DEF OwnOutputsFollow
  <2>1. CASE b \in Updated(m)
    BY <2>1, <1>2
  <2>2. CASE b \notin Updated(m)
    <3>1. b # m /\ irqs'[b] = irqs[b]
      BY <2>2, UpdatedSelf DEF apple_a7iop_mailbox_update_irq
    <3>2. <<b, k>> \in irqs[b] <=> <<b, k>> \in Output(inbox, underflow, int_mask[b])
      BY DEF OwnOutputsFollow, Current
    <3>3. <<b, k>> \in Output(inbox, underflow, int_mask[b])
            <=> <<b, k>> \in Output(inbox', underflow', int_mask[b])
      BY <3>1, OwnOutputs
    <3> QED BY <3>1, <3>2, <3>3 DEF Current
  <2> QED BY <2>1, <2>2
<1>4. SEPOutputsFollow'
  BY <1>2, UpdatedSelf DEF SEPOutputsFollow, Boxes
<1> QED BY <1>1, <1>3, <1>4

MboxInv == MboxTypeOK /\ OwnOutputsFollow /\ SEPOutputsFollow

LEMMA MboxInitInv == MboxInit => MboxInv
<1> SUFFICES ASSUME MboxInit PROVE MboxInv
  OBVIOUS
<1>1. MboxTypeOK
  <2>1. irqs \in [Boxes -> SUBSET Sources]
    BY OutputType DEF MboxInit
  <2>2. inbox \in [Boxes -> Seq(Messages)]
    BY DEF MboxInit
  <2> QED BY <2>1, <2>2 DEF MboxInit, MboxTypeOK
<1>2. \A m \in Boxes : irqs[m] = Current(m)
  BY DEF MboxInit, Current
<1>3. OwnOutputsFollow /\ SEPOutputsFollow
  BY <1>2 DEF OwnOutputsFollow, SEPOutputsFollow, Boxes
<1> QED BY <1>1, <1>3 DEF MboxInv

LEMMA MboxStutter ==
    ASSUME MboxInv, UNCHANGED mboxVars
    PROVE  MboxInv'
BY DEF MboxInv, mboxVars, MboxTypeOK, OwnOutputsFollow, SEPOutputsFollow, Current

LEMMA SendInv ==
    ASSUME MboxInv, NEW via \in Boxes, NEW d \in Boxes, NEW msg \in Messages,
           Send(via, d, msg)
    PROVE  MboxInv'
<1>1. CASE dir_en[via][d]
  <2>1. /\ inbox' = [inbox EXCEPT ![d] = Append(@, msg)]
        /\ bh' = (bh \/ d = "iop")
        /\ UNCHANGED <<underflow, dir_en, int_mask>>
        /\ apple_a7iop_mailbox_update_irq(d)
    BY <1>1 DEF Send
  <2>2. inbox' \in [Boxes -> Seq(Messages)] /\ bh' \in BOOLEAN
    BY <2>1 DEF MboxInv, MboxTypeOK
  <2>3. \A b \in Boxes \ {d} : inbox'[b] = inbox[b]
    BY <2>1 DEF MboxInv, MboxTypeOK
  <2>4. /\ irqs' \in [Boxes -> SUBSET Sources]
        /\ OwnOutputsFollow'
        /\ SEPOutputsFollow'
    BY <2>1, <2>3, UpdateFollows DEF MboxInv
  <2> QED BY <2>1, <2>2, <2>4 DEF MboxInv, MboxTypeOK
<1>2. CASE ~dir_en[via][d]
  BY <1>2, MboxStutter DEF Send
<1> QED BY <1>1, <1>2

LEMMA RecvInv ==
    ASSUME MboxInv, NEW via \in Boxes, NEW d \in Boxes, Recv(via, d)
    PROVE  MboxInv'
<1>1. CASE dir_en[via][d] /\ ~underflow[d]
  <2>1. /\ UNCHANGED <<dir_en, int_mask, bh>>
        /\ apple_a7iop_mailbox_update_irq(d)
        /\ \/ /\ underflow' = [underflow EXCEPT ![d] = TRUE]
              /\ inbox' = inbox
           \/ /\ inbox[d] # <<>>
              /\ inbox' = [inbox EXCEPT ![d] = Tail(@)]
              /\ underflow' = underflow
    BY <1>1 DEF Recv
  <2>2. inbox' \in [Boxes -> Seq(Messages)] /\ underflow' \in [Boxes -> BOOLEAN]
    <3>1. inbox[d] # <<>> => Tail(inbox[d]) \in Seq(Messages)
      BY DEF MboxInv, MboxTypeOK
    <3> QED BY <2>1, <3>1 DEF MboxInv, MboxTypeOK
  <2>3. \A b \in Boxes \ {d} : inbox'[b] = inbox[b] /\ underflow'[b] = underflow[b]
    BY <2>1 DEF MboxInv, MboxTypeOK
  <2>4. /\ irqs' \in [Boxes -> SUBSET Sources]
        /\ OwnOutputsFollow'
        /\ SEPOutputsFollow'
    BY <2>1, <2>3, UpdateFollows DEF MboxInv
  <2> QED BY <2>1, <2>2, <2>4 DEF MboxInv, MboxTypeOK
<1>2. CASE ~(dir_en[via][d] /\ ~underflow[d])
  BY <1>2, MboxStutter DEF Recv
<1> QED BY <1>1, <1>2

LEMMA MaskInv ==
    ASSUME MboxInv, NEW m \in Boxes, NEW new \in SUBSET Sources, SetMask(m, new)
    PROVE  MboxInv'
<1>1. int_mask' \in [Boxes -> SUBSET Sources]
  BY DEF SetMask, MboxInv, MboxTypeOK
<1>2. \A b \in Boxes \ {m} : int_mask'[b] = int_mask[b]
  BY DEF SetMask, MboxInv, MboxTypeOK
<1>3. /\ irqs' \in [Boxes -> SUBSET Sources]
      /\ OwnOutputsFollow'
      /\ SEPOutputsFollow'
  BY <1>2, UpdateFollows DEF MboxInv, SetMask
<1> QED BY <1>1, <1>3 DEF MboxInv, MboxTypeOK, SetMask

LEMMA CtrlInv ==
    ASSUME MboxInv, NEW via \in Boxes, NEW d \in Boxes, NEW enable \in BOOLEAN,
           SetCtrl(via, d, enable)
    PROVE  MboxInv'
BY DEF MboxInv, MboxTypeOK, OwnOutputsFollow, SEPOutputsFollow, Current, SetCtrl

LEMMA ResetInv ==
    ASSUME MboxInv, apple_a7iop_mailbox_reset
    PROVE  MboxInv'
<1> USE DEF apple_a7iop_mailbox_reset
<1>1. MboxTypeOK'
  BY OutputType DEF MboxInv, MboxTypeOK
<1>2. irqs'["iop"] = Current("iop")'
  BY DEF Current, Boxes
<1>3. ASSUME NEW k \in Kinds
      PROVE  <<"ap", k>> \in irqs'["ap"] <=> <<"ap", k>> \in Current("ap")'
  <2> DEFINE box == [inbox EXCEPT !["ap"] = <<>>]
             und == [underflow EXCEPT !["ap"] = FALSE]
  <2>1. irqs'["ap"] = Output(box, und, int_mask["ap"])
    BY DEF Boxes
  <2>2. box["ap"] = inbox'["ap"] /\ und["ap"] = underflow'["ap"]
    BY DEF Boxes, MboxInv, MboxTypeOK
  <2> HIDE DEF box, und, apple_a7iop_mailbox_reset
  <2>3. <<"ap", k>> \in Output(box, und, int_mask["ap"])
          <=> <<"ap", k>> \in Output(inbox', underflow', int_mask["ap"])
    <3>1. "ap" \in Boxes
      BY DEF Boxes
    <3>2. k \in Kinds
      BY <1>3
    <3> QED BY ONLY <2>2, <3>1, <3>2, OwnOutputs, Zenon
  <2>4. int_mask' = int_mask
    BY DEF apple_a7iop_mailbox_reset
  <2> QED BY <2>1, <2>3, <2>4 DEF Current
<1> QED BY <1>1, <1>2, <1>3 DEF MboxInv, OwnOutputsFollow, SEPOutputsFollow, Boxes

LEMMA MboxNextInv == MboxInv /\ [MboxNext]_mboxVars => MboxInv'
<1> SUFFICES ASSUME MboxInv, [MboxNext]_mboxVars PROVE MboxInv'
  OBVIOUS
<1>1. CASE RegSend
  BY <1>1, SendInv DEF RegSend
<1>2. CASE RegRecv
  BY <1>2, RecvInv DEF RegRecv
<1>3. CASE RegSetMask
  <2>1. PICK m \in Boxes, value \in Masks : SetMask(m, int_mask[m] \union value)
    BY <1>3 DEF RegSetMask, apple_a7iop_mailbox_set_int_mask
  <2>2. int_mask[m] \union value \in SUBSET Sources
    BY MaskAssumption DEF MboxInv, MboxTypeOK
  <2> QED BY <2>1, <2>2, MaskInv
<1>4. CASE RegClearMask
  <2>1. PICK m \in Boxes, value \in Masks : SetMask(m, int_mask[m] \ value)
    BY <1>4 DEF RegClearMask, apple_a7iop_mailbox_clear_int_mask
  <2>2. int_mask[m] \ value \in SUBSET Sources
    BY DEF MboxInv, MboxTypeOK
  <2> QED BY <2>1, <2>2, MaskInv
<1>5. CASE RegCtrl
  BY <1>5, CtrlInv, EnableAssumption DEF RegCtrl
<1>6. CASE apple_a7iop_mailbox_reset
  BY <1>6, ResetInv
<1>7. CASE UNCHANGED mboxVars
  BY <1>7, MboxStutter
<1> QED BY <1>1, <1>2, <1>3, <1>4, <1>5, <1>6, <1>7 DEF MboxNext

LEMMA MboxInvariant == MboxSpec => []MboxInv
BY MboxInitInv, MboxNextInv, PTL DEF MboxSpec

\* The state of the mailboxes is well typed, whatever the registers are used for.
THEOREM MboxTypeCorrect == MboxSpec => []MboxTypeOK
BY MboxInvariant, PTL DEF MboxInv

\* Each mailbox tells the truth about its own inbox after every register access
\* and every reset (apple_a7iop_mailbox_update_irq_status).
THEOREM OwnOutputsAlwaysFollow == MboxSpec => []OwnOutputsFollow
BY MboxInvariant, PTL DEF MboxInv

\* The SEP's processor sees current outputs about both inboxes, because
\* apple_a7iop_mailbox_update_irq goes on from the AP mailbox to the IOP mailbox,
\* and because the IOP mailbox is reset last.
THEOREM SEPOutputsAlwaysFollow == MboxSpec => []SEPOutputsFollow
BY MboxInvariant, PTL DEF MboxInv
-----------------------------------------------------------------------------
(* The SEP's interrupt controller.                                         *)

LEMMA TagNotSource == \A s : Tag(s) \notin Sources
BY DEF Tag, Sources, Boxes, Kinds

LEMMA TagInjective == \A s, t : Tag(s) = Tag(t) => s = t
BY DEF Tag

\* The first output that is high is an output.
LEMMA FirstIsSource ==
    ASSUME MboxTypeOK, irqs["iop"] # {}
    PROVE  FirstOutput \in Sources
<1> DEFINE high == {i \in 1 .. 4 : OutputOrder[i] \in irqs["iop"]}
<1>1. \A i \in 1 .. 4 : OutputOrder[i] \in Sources
  BY DEF OutputOrder, Sources, Boxes, Kinds
<1>2. \A s \in Sources : \E i \in 1 .. 4 : OutputOrder[i] = s
  BY DEF OutputOrder, Sources, Boxes, Kinds
<1>3. high # {}
  BY <1>2 DEF MboxTypeOK, Boxes
<1>4. \E x \in high : \A y \in high : x =< y
  <2>1. high \subseteq 1 .. 4
    OBVIOUS
  <2> HIDE DEF high
  <2>2. CASE 1 \in high
    BY <2>1, <2>2
  <2>3. CASE 1 \notin high /\ 2 \in high
    BY <2>1, <2>3
  <2>4. CASE 1 \notin high /\ 2 \notin high /\ 3 \in high
    BY <2>1, <2>4
  <2>5. CASE 1 \notin high /\ 2 \notin high /\ 3 \notin high
    <3>1. \A y \in high : y = 4
      BY <2>1, <2>5
    <3>2. PICK y \in high : TRUE
      BY <1>3
    <3> QED BY <3>1, <3>2
  <2> QED BY <2>2, <2>3, <2>4, <2>5
<1>5. Min(high) \in 1 .. 4
  BY <1>4 DEF Min
<1> QED BY <1>1, <1>5 DEF FirstOutput

-----------------------------------------------------------------------------
\* What was read and not enabled again is masked or disabled.
TakenMasked ==
    /\ \A s \in Sources : s \in taken => s \in int_mask["iop"]
    /\ \A s \in Exts : Tag(s) \in taken => s \notin exts_on
    /\ \A s \in Timers : Tag(s) \in taken => s \in timers_masked

KicInv == MboxInv /\ TakenMasked

LEMMA KicInitInv == Init => KicInv
BY MboxInitInv DEF Init, KicInv, TakenMasked

LEMMA UpdateIOPInv ==
    ASSUME MboxInv, UNCHANGED <<inbox, underflow, dir_en, bh>>,
           NEW new \in SUBSET Sources,
           int_mask' = [int_mask EXCEPT !["iop"] = new],
           apple_a7iop_mailbox_update_irq("iop")
    PROVE  MboxInv'
<1>1. SetMask("iop", new)
  BY DEF SetMask
<1> QED BY <1>1, MaskInv DEF Boxes

LEMMA SameMaskInv ==
    ASSUME MboxInv, UNCHANGED <<inbox, underflow, dir_en, int_mask, bh>>,
           apple_a7iop_mailbox_update_irq("iop")
    PROVE  MboxInv'
<1>1. int_mask' = [int_mask EXCEPT !["iop"] = int_mask["iop"]]
  BY DEF MboxInv, MboxTypeOK, Boxes
<1>2. int_mask["iop"] \in SUBSET Sources
  BY DEF MboxInv, MboxTypeOK, Boxes
<1> QED BY <1>1, <1>2, UpdateIOPInv

LEMMA MailboxStepInv == KicInv /\ MailboxStep => KicInv'
<1> SUFFICES ASSUME KicInv, MailboxStep PROVE KicInv'
  OBVIOUS
<1>0. MboxInv /\ TakenMasked /\ UNCHANGED <<exts_on, timers_masked>>
  BY DEF KicInv, MailboxStep
<1>1. ASSUME NEW via \in Boxes, NEW d \in Boxes, NEW msg \in Messages,
             Send(via, d, msg), UNCHANGED taken
      PROVE  KicInv'
  <2>1. MboxInv'
    BY <1>0, <1>1, SendInv
  <2>2. int_mask' = int_mask
    BY <1>1 DEF Send, mboxVars
  <2> QED BY <1>0, <1>1, <2>1, <2>2 DEF KicInv, TakenMasked
<1>2. ASSUME NEW via \in Boxes, NEW d \in Boxes, Recv(via, d), UNCHANGED taken
      PROVE  KicInv'
  <2>1. MboxInv'
    BY <1>0, <1>2, RecvInv
  <2>2. int_mask' = int_mask
    BY <1>2 DEF Recv, mboxVars
  <2> QED BY <1>0, <1>2, <2>1, <2>2 DEF KicInv, TakenMasked
<1>3. ASSUME NEW m \in Boxes, NEW value \in Masks,
             apple_a7iop_mailbox_set_int_mask(m, value), UNCHANGED taken
      PROVE  KicInv'
  <2>1. int_mask[m] \union value \in SUBSET Sources
    BY <1>0, MaskAssumption DEF MboxInv, MboxTypeOK
  <2>2. SetMask(m, int_mask[m] \union value)
    BY <1>3 DEF apple_a7iop_mailbox_set_int_mask
  <2>3. MboxInv'
    BY <1>0, <2>1, <2>2, MaskInv
  <2>4. int_mask["iop"] \subseteq int_mask'["iop"]
    BY <1>0, <2>2 DEF SetMask, MboxInv, MboxTypeOK, Boxes
  <2> QED BY <1>0, <1>3, <2>3, <2>4 DEF KicInv, TakenMasked
<1>4. ASSUME NEW m \in Boxes, NEW value \in Masks,
             apple_a7iop_mailbox_clear_int_mask(m, value),
             taken' = IF m = "iop" THEN taken \ value ELSE taken
      PROVE  KicInv'
  <2>1. int_mask[m] \ value \in SUBSET Sources
    BY <1>0 DEF MboxInv, MboxTypeOK
  <2>2. SetMask(m, int_mask[m] \ value)
    BY <1>4 DEF apple_a7iop_mailbox_clear_int_mask
  <2>3. MboxInv'
    BY <1>0, <2>1, <2>2, MaskInv
  <2>4. \A s \in taken' : s \in int_mask["iop"] => s \in int_mask'["iop"]
    BY <1>0, <1>4, <2>2 DEF SetMask, MboxInv, MboxTypeOK, Boxes
  <2>5. taken' \subseteq taken
    BY <1>4
  <2> QED BY <1>0, <2>3, <2>4, <2>5 DEF KicInv, TakenMasked
<1> QED BY <1>1, <1>2, <1>3, <1>4 DEF MailboxStep

LEMMA RegisterWriteInv == KicInv /\ RegisterWrite => KicInv'
<1> SUFFICES ASSUME KicInv, RegisterWrite PROVE KicInv'
  OBVIOUS
<1>1. MboxInv' /\ int_mask' = int_mask
  BY SameMaskInv DEF KicInv, RegisterWrite
<1>2. taken' \subseteq taken
  BY DEF RegisterWrite
<1>3. \A s \in Exts : Tag(s) \in taken' => s \notin exts_on'
  BY <1>2 DEF RegisterWrite, KicInv, TakenMasked
<1>4. \A s \in Timers : Tag(s) \in taken' => s \in timers_masked'
  BY <1>2 DEF RegisterWrite, KicInv, TakenMasked
<1> QED BY <1>1, <1>2, <1>3, <1>4 DEF KicInv, TakenMasked

LEMMA ReadInv == KicInv /\ apple_a7iop_mailbox_read_interrupt_status => KicInv'
<1> SUFFICES ASSUME KicInv, apple_a7iop_mailbox_read_interrupt_status PROVE KicInv'
  OBVIOUS
<1>0. /\ UNCHANGED <<inbox, underflow, dir_en, bh>>
      /\ apple_a7iop_mailbox_update_irq("iop")
      /\ MboxInv /\ MboxTypeOK /\ TakenMasked
  BY DEF apple_a7iop_mailbox_read_interrupt_status, KicInv, MboxInv
<1>1. CASE ReadOutput
  <2>1. FirstOutput \in Sources
    BY <1>0, <1>1, FirstIsSource DEF ReadOutput
  <2>2. int_mask["iop"] \union {FirstOutput} \in SUBSET Sources
    BY <1>0, <2>1 DEF MboxTypeOK, Boxes
  <2>3. int_mask' = [int_mask EXCEPT !["iop"] = int_mask["iop"] \union {FirstOutput}]
    BY <1>1 DEF ReadOutput
  <2>4. MboxInv'
    BY <1>0, <2>2, <2>3, UpdateIOPInv
  <2>5. int_mask'["iop"] = int_mask["iop"] \union {FirstOutput}
    BY <1>0, <2>3 DEF MboxTypeOK, Boxes
  <2>6. taken' = taken \union {FirstOutput} /\ UNCHANGED <<exts_on, timers_masked>>
    BY <1>1 DEF ReadOutput, Take
  <2>7. \A s : Tag(s) \in taken' => Tag(s) \in taken
    BY <2>1, <2>6, TagNotSource
  <2> QED BY <1>0, <2>4, <2>5, <2>6, <2>7 DEF KicInv, TakenMasked
<1>2. CASE ReadStatus
  <2>1. /\ taken' = taken \union {Tag(Preferred)}
        /\ exts_on' = exts_on \ {Preferred}
        /\ timers_masked' = timers_masked \union ({Preferred} \intersect Timers)
        /\ UNCHANGED int_mask
    BY <1>2 DEF ReadStatus, Take
  <2>2. MboxInv'
    BY <1>0, <2>1, SameMaskInv
  <2>3. \A s \in Sources : s \in taken' => s \in taken
    BY <2>1, TagNotSource
  <2>4. \A s : Tag(s) \in taken' => Tag(s) \in taken \/ s = Preferred
    BY <2>1, TagInjective
  <2> QED BY <1>0, <2>1, <2>2, <2>3, <2>4 DEF KicInv, TakenMasked
<1>3. CASE ReadNothing
  <2>1. MboxInv'
    BY <1>0, <1>3, SameMaskInv DEF ReadNothing
  <2> QED BY <1>0, <1>3, <2>1 DEF ReadNothing, KicInv, TakenMasked
<1> QED BY <1>1, <1>2, <1>3 DEF apple_a7iop_mailbox_read_interrupt_status

LEMMA KicResetInv == KicInv /\ Reset => KicInv'
<1> SUFFICES ASSUME KicInv, Reset PROVE KicInv'
  OBVIOUS
<1>1. MboxInv' /\ int_mask' = int_mask
  BY ResetInv DEF KicInv, Reset, apple_a7iop_mailbox_reset
<1>2. /\ exts_on' = {}
      /\ taken' = taken \ {Tag(t) : t \in Timers}
  BY DEF Reset
<1> QED BY <1>1, <1>2 DEF KicInv, TakenMasked

LEMMA KicNextInv == KicInv /\ [Next]_vars => KicInv'
<1> SUFFICES ASSUME KicInv, [Next]_vars PROVE KicInv'
  OBVIOUS
<1>1. CASE Push
  <2>1. MboxInv'
    BY <1>1, SameMaskInv DEF Push, apple_a7iop_interrupt_status_push, KicInv
  <2> QED BY <1>1, <2>1 DEF Push, apple_a7iop_interrupt_status_push, KicInv,
                            TakenMasked
<1>2. CASE PMGRWrite \/ Quiesce \/ UNCHANGED vars
  <2>1. UNCHANGED mboxVars /\ UNCHANGED <<taken, exts_on, timers_masked>>
    BY <1>2 DEF PMGRWrite, Quiesce, vars, kicVars
  <2>2. MboxInv'
    BY <2>1, MboxStutter DEF KicInv
  <2> QED BY <2>1, <2>2 DEF KicInv, TakenMasked, mboxVars
<1> QED BY <1>1, <1>2, MailboxStepInv, RegisterWriteInv, ReadInv, KicResetInv DEF Next

-----------------------------------------------------------------------------
\* A source that apple_a7iop_mailbox_read_interrupt_status returned is not offered
\* to the SEP's processor again before it was enabled or unmasked again.
THEOREM SourcesReadOnce ==
    ASSUME IsSEP
    PROVE  Spec => []ReadOnce
<1>1. KicInv => ReadOnce
  <2> SUFFICES ASSUME KicInv PROVE ReadOnce
    OBVIOUS
  <2>1. irqs["iop"] = Output(inbox, underflow, int_mask["iop"])
    BY DEF KicInv, MboxInv, SEPOutputsFollow, Current
  <2>2. ASSUME NEW s \in taken \intersect irqs["iop"]
        PROVE  s[2] = "nonempty" /\ underflow[s[1]]
    <3>1. s \in Sources /\ s \in int_mask["iop"]
      BY <2>1, <2>2 DEF KicInv, TakenMasked, Output
    <3>2. s[2] = "empty" \/ s[2] = "nonempty"
      BY <3>1 DEF Sources, Kinds
    <3> QED BY <2>1, <2>2, <3>1, <3>2 DEF Output
  <2>3. \A s \in EnabledStatus : Tag(s) \notin taken
    BY DEF EnabledStatus, KicInv, TakenMasked
  <2> QED BY <2>2, <2>3 DEF ReadOnce
<1> QED BY <1>1, KicInitInv, KicNextInv, PTL DEF Spec

\* The processor's interrupt line is high exactly when a status read would return
\* a source, except between a power state write or a reset and the next call of
\* apple_a7iop_mailbox_update_irq.
THEOREM LineFollows == Spec => []CPULineFollows
<1>1. Init => CPULineFollows
  BY SMTT(20) DEF Init, CPULineFollows
<1>2. CPULineFollows /\ [Next]_vars => CPULineFollows'
  <2> SUFFICES ASSUME CPULineFollows, [Next]_vars PROVE CPULineFollows'
    OBVIOUS
  <2>1. CASE UpdateCPULine
    BY <2>1 DEF UpdateCPULine, CPULineFollows
  <2>2. CASE pmgr' = TRUE
    BY <2>2 DEF CPULineFollows
  <2>3. CASE Quiesce \/ UNCHANGED vars
    <3>1. UNCHANGED <<irqs, status, exts_on, glb_ext, timers_on, timers_masked,
                      sepd_enabled, sep_cpu_irq, pmgr>>
      BY <2>3 DEF Quiesce, vars, kicVars, mboxVars
    <3>2. EnabledStatus' = EnabledStatus
      BY <3>1 DEF EnabledStatus
    <3>3. Raised' <=> Raised
      BY <3>1, <3>2 DEF Raised
    <3> QED BY <3>1, <3>3 DEF CPULineFollows
  <2> QED BY <2>1, <2>2, <2>3 DEF Next, MailboxStep, RegisterWrite, Push,
             apple_a7iop_interrupt_status_push, PMGRWrite, Reset,
             apple_a7iop_mailbox_read_interrupt_status
<1> QED BY <1>1, <1>2, PTL DEF Spec
\* Every nonempty set of naturals has a least element, which Min returns.
LEMMA MinIsMember ==
    ASSUME NEW S \in SUBSET Nat, S # {}
    PROVE  Min(S) \in S
<1>1. \E x \in S : \A y \in S : ~(<<y, x>> \in OpToRel(<, Nat))
  BY NatLessThanWellFounded, WFMin
<1>2. OpToRel(<, Nat) = {p \in Nat \X Nat : p[1] < p[2]}
  BY Zenon DEF OpToRel
<1>3. PICK x \in S : \A y \in S : ~(<<y, x>> \in {p \in Nat \X Nat : p[1] < p[2]})
  BY <1>1, <1>2, Zenon
<1>4. \A y \in S : ~(y < x)
  BY <1>3
<1>5. \A y \in S : x =< y
  BY <1>4
<1> QED BY <1>5 DEF Min

\* A timer that is pending and enabled goes before every external interrupt.
LEMMA TimersFirst ==
    ASSUME EnabledStatus \intersect Timers # {}
    PROVE  Preferred \in Timers
<1>1. EnabledStatus \intersect Timers \in SUBSET Nat
  BY StatusAssumption
<1>2. Min(EnabledStatus \intersect Timers) \in EnabledStatus \intersect Timers
  BY <1>1, MinIsMember
<1> QED BY <1>2 DEF Preferred

\* The order the comment in apple_a7iop_mailbox_read_interrupt_status asks for:
\* no step but a reset removes an external interrupt from the list while an output
\* of the mailbox is high or an enabled timer is pending.
THEOREM ReadsInOrder == Spec => ReadOrder
<1> DEFINE Order == \A s \in status \ status' : s \in Exts /\ ~pmgr' =>
               irqs["iop"] = {} /\ EnabledStatus \intersect Timers = {}
<1>1. ASSUME [Next]_vars PROVE Order
  <2>1. CASE ReadStatus
    <3>1. irqs["iop"] = {} /\ status' = status \ {Preferred}
      BY <2>1 DEF ReadStatus
    <3>2. Preferred \in Exts => EnabledStatus \intersect Timers = {}
      BY TimersFirst, StatusAssumption
    <3> QED BY <3>1, <3>2
  <2>2. CASE pmgr' = TRUE
    BY <2>2
  <2>3. CASE status \subseteq status'
    BY <2>3, SMTT(20)
  <2>4. ReadStatus \/ pmgr' = TRUE \/ status \subseteq status'
    BY <1>1 DEF Next, vars, kicVars, MailboxStep, RegisterWrite, Push,
                apple_a7iop_interrupt_status_push, PMGRWrite, Reset, Quiesce,
                apple_a7iop_mailbox_read_interrupt_status, ReadOutput, ReadNothing
  <2> QED BY <2>1, <2>2, <2>3, <2>4
<1>2. [Next]_vars => [Order]_vars
  BY <1>1
<1> QED BY <1>2, PTL DEF Spec, ReadOrder
\* In the composed system too, where status reads mask what they return, both
\* mailboxes tell the truth about their own inboxes, and the SEP's about both.
THEOREM ComposedOutputsFollow == Spec => [](OwnOutputsFollow /\ SEPOutputsFollow)
<1>1. KicInv => OwnOutputsFollow /\ SEPOutputsFollow
  BY DEF KicInv, MboxInv
<1> QED BY <1>1, KicInitInv, KicNextInv, PTL DEF Spec

\* What an enabled status is chosen from is a status, so the least is one too.
LEMMA PreferredIsEnabled ==
    ASSUME EnabledStatus # {}
    PROVE  Preferred \in EnabledStatus
<1>1. EnabledStatus \in SUBSET Nat /\ EnabledStatus \intersect Timers \in SUBSET Nat
  BY StatusAssumption DEF EnabledStatus
<1>2. Min(EnabledStatus) \in EnabledStatus
  BY <1>1, MinIsMember
<1>3. EnabledStatus \intersect Timers # {} =>
        Min(EnabledStatus \intersect Timers) \in EnabledStatus \intersect Timers
  BY <1>1, MinIsMember
<1> QED BY <1>2, <1>3 DEF Preferred

KicTypes ==
    /\ status \subseteq Exts \union Timers
    /\ exts_on \subseteq Exts
    /\ timers_on \subseteq Timers
    /\ timers_masked \subseteq Timers
    /\ taken \subseteq {Tag(s) : s \in Exts \union Timers} \union Sources

Flags ==
    /\ glb_ext \in BOOLEAN
    /\ sepd_enabled \in BOOLEAN
    /\ sep_cpu_irq \in BOOLEAN
    /\ pmgr \in BOOLEAN
    /\ quiet \in BOOLEAN

LEMMA FlagsNext == Flags /\ [Next]_vars => Flags'
<1> SUFFICES ASSUME Flags, [Next]_vars PROVE Flags'
  OBVIOUS
<1>1. Raised' \in BOOLEAN
  BY DEF Raised
<1>2. UpdateCPULine => sep_cpu_irq' \in BOOLEAN /\ pmgr' \in BOOLEAN
  BY <1>1 DEF UpdateCPULine
<1> QED BY <1>2 DEF Flags, Next, vars, kicVars, MailboxStep, RegisterWrite, Push,
           apple_a7iop_interrupt_status_push, PMGRWrite, Reset, Quiesce,
           apple_a7iop_mailbox_read_interrupt_status

LEMMA KicTypesNext == KicInv /\ KicTypes /\ [Next]_vars => KicTypes'
<1> SUFFICES ASSUME KicInv, KicTypes, [Next]_vars PROVE KicTypes'
  OBVIOUS
<1>1. CASE MailboxStep
  <2>1. UNCHANGED <<status, exts_on, timers_on, timers_masked>> /\ taken' \subseteq taken
    BY <1>1 DEF MailboxStep
  <2> QED BY <2>1 DEF KicTypes
<1>2. CASE RegisterWrite
  <2>1. UNCHANGED status /\ taken' \subseteq taken
    BY <1>2 DEF RegisterWrite
  <2>2. exts_on' \subseteq Exts /\ timers_on' \subseteq Timers /\ timers_masked' \subseteq Timers
    BY <1>2 DEF RegisterWrite, KicTypes
  <2> QED BY <2>1, <2>2 DEF KicTypes
<1>3. CASE Push
  BY <1>3 DEF Push, apple_a7iop_interrupt_status_push, KicTypes
<1>4. CASE apple_a7iop_mailbox_read_interrupt_status
  <2>1. CASE ReadOutput
    <3>1. FirstOutput \in Sources
      BY <2>1, FirstIsSource DEF ReadOutput, KicInv, MboxInv
    <3> QED BY <1>4, <2>1, <3>1 DEF ReadOutput, Take, KicTypes,
               apple_a7iop_mailbox_read_interrupt_status
  <2>2. CASE ReadStatus
    <3>1. Preferred \in Exts \union Timers
      BY <2>2, PreferredIsEnabled DEF ReadStatus, EnabledStatus, KicTypes
    <3>2. Tag(Preferred) \in {Tag(s) : s \in Exts \union Timers}
      BY <3>1, SMTT(20)
    <3>3. taken' = taken \union {Tag(Preferred)} /\ UNCHANGED timers_on
      BY <1>4, <2>2 DEF ReadStatus, Take, apple_a7iop_mailbox_read_interrupt_status
    <3>4. /\ status' \subseteq status
          /\ exts_on' \subseteq exts_on
          /\ timers_masked' \subseteq timers_masked \union Timers
      BY <2>2 DEF ReadStatus
    <3> QED BY <3>2, <3>3, <3>4 DEF KicTypes
  <2>3. CASE ReadNothing
    BY <1>4, <2>3 DEF ReadNothing, KicTypes, apple_a7iop_mailbox_read_interrupt_status
  <2> QED BY <1>4, <2>1, <2>2, <2>3 DEF apple_a7iop_mailbox_read_interrupt_status
<1>5. CASE Reset
  BY <1>5 DEF Reset, KicTypes
<1>6. CASE PMGRWrite \/ Quiesce \/ UNCHANGED vars
  BY <1>6 DEF PMGRWrite, Quiesce, vars, kicVars, KicTypes
<1> QED BY <1>1, <1>2, <1>3, <1>4, <1>5, <1>6 DEF Next

\* The state of the interrupt controller and its mailboxes is well typed.
THEOREM KicTypeCorrect == Spec => []TypeOK
<1>1. Init => KicTypes /\ Flags
  BY DEF Init, KicTypes, Flags
<1>2. KicInv /\ KicTypes /\ Flags => TypeOK
  BY DEF KicInv, MboxInv, KicTypes, Flags, TypeOK
<1> QED BY <1>1, <1>2, KicInitInv, KicNextInv, KicTypesNext, FlagsNext, PTL DEF Spec

=============================================================================
