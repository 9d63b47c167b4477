--------------------------- MODULE AppleSPMIProofs ---------------------------
(***************************************************************************)
(* Proofs about the SPMI controller and its PMU, for any depth of the      *)
(* response FIFO, any values the guest writes and any registers it reads.  *)
(***************************************************************************)
EXTENDS AppleSPMI, TLAPS

\* What is left of a transfer of any length is in range.
LEMMA DataWordsType == \A reg \in Regs : DataWords[reg] \in 1 .. 2
BY DEF DataWords, Regs

LEMMA NoCommandType == NoCommand \in [reg : Regs, value : Alarms, final : BOOLEAN]
BY DEF NoCommand, Regs, DataWords, Alarms

\* The answers of the slave are a sequence of words, at least one.
LEMMA ResponseWordsType ==
    \A n \in 1 .. 3 : /\ ResponseWords(n) \in Seq({"head", "word"})
                      /\ Len(ResponseWords(n)) = n
BY DEF ResponseWords

LEMMA AnswersType ==
    ASSUME NEW q \in Seq({"head", "word"}), NEW n \in 1 .. 3
    PROVE  /\ q \o ResponseWords(n) \in Seq({"head", "word"})
           /\ q \o ResponseWords(n) # <<>>
<1>1. /\ ResponseWords(n) \in Seq({"head", "word"})
      /\ Len(ResponseWords(n)) = n
  BY ResponseWordsType
<1>2. Len(q \o ResponseWords(n)) > 0
  BY <1>1
<1> QED BY <1>1, <1>2

-----------------------------------------------------------------------------
(***************************************************************************)
(* Every handler of apple_spmi.c and spmi-pmu.c keeps the registers in     *)
(* range; a transfer never has more data words to come than it began with. *)
(***************************************************************************)
THEOREM TypeCorrect == Spec => []TypeOK
<1>1. Init => TypeOK
  <2> SUFFICES ASSUME Init PROVE TypeOK
    OBVIOUS
  <2>1. /\ now \in 0 .. MaxNow /\ alarm \in Alarms /\ offset \in Alarms
        /\ timer \in Nat /\ data \in 0 .. 2 /\ expect \in 0 .. 2
    BY BoundsAssumption DEF Init, Alarms, NoTimer
  <2>2. command \in [reg : Regs, value : Alarms, final : BOOLEAN]
    BY NoCommandType DEF Init
  <2>3. resp_fifo \in Seq({"head", "word"})
    BY SMTT(20) DEF Init
  <2> QED BY <2>1, <2>2, <2>3 DEF Init, TypeOK
<1>2. TypeOK /\ [Next]_vars => TypeOK'
  <2> SUFFICES ASSUME TypeOK, [Next]_vars PROVE TypeOK'
    OBVIOUS
  <2> USE DEF TypeOK, controller, guest, pmu, Bits, apple_spmi_update_irq
  <2>1. ASSUME NEW match \in BOOLEAN, NEW final \in BOOLEAN, NEW reg \in Regs,
               NEW v \in WriteVals[reg], RequestWrite(reg, v, match, final)
        PROVE TypeOK'
    <3>1. v \in Alarms
      BY ValuesAssumption
    <3>2. command' \in [reg : Regs, value : Alarms, final : BOOLEAN]
      BY <2>1, <3>1 DEF RequestWrite
    <3> QED BY <2>1, <3>2, DataWordsType DEF RequestWrite, Found
  <2>2. ASSUME NEW match \in BOOLEAN, NEW final \in BOOLEAN, NEW reg \in ReadRegs,
               RequestRead(reg, match, final)
        PROVE TypeOK'
    <3>1. 1 + DataWords[reg] \in 1 .. 3
      BY ValuesAssumption, DataWordsType
    <3>2. CASE Found(match)
      <4>1. Answer(resp_fifo \o ResponseWords(1 + DataWords[reg]), int_status, final)
        BY <2>2, <3>2 DEF RequestRead
      <4>2. resp_fifo' \in Seq({"head", "word"})
        BY <3>1, <4>1, AnswersType DEF Answer
      <4>3. int_status' \subseteq Bits /\ irq' \in BOOLEAN /\ open' \in BOOLEAN
        BY <4>1 DEF Answer, WithResponses, WithInput
      <4>4. int_enab' = int_enab
        BY <4>1 DEF Answer
      <4> QED BY <2>2, <4>2, <4>3, <4>4 DEF RequestRead, Found
    <3>3. CASE ~Found(match)
      BY <2>2, <3>3 DEF RequestRead, Found
    <3> QED BY <3>2, <3>3
  <2>3. ASSUME NEW match \in BOOLEAN, RequestOther(match)
        PROVE TypeOK'
    BY <2>3 DEF RequestOther, Found
  <2>4. CASE PushData
    <3>1. data' \in 0 .. 2 /\ expect' \in 0 .. 2
      BY <2>4 DEF PushData
    <3>2. CASE data > 1
      <4>1. UNCHANGED <<command, resp_fifo, int_status, int_enab, irq, open, pmu,
                        current_dev, isr, now>>
        BY <2>4, <3>2 DEF PushData
      <4> QED BY <3>1, <4>1
    <3>3. CASE ~(data > 1)
      <4> DEFINE status == IF current_dev /\ Rings(command.reg, command.value)
                           THEN WithAlarm(int_status) ELSE int_status
      <4>1. /\ command' = NoCommand
            /\ Answer(resp_fifo \o ResponseWords(1), status, command.final)
            /\ UNCHANGED <<current_dev, isr, now>>
            /\ IF current_dev THEN apple_spmi_pmu_send(command.reg, command.value)
               ELSE UNCHANGED pmu
        BY <2>4, <3>3 DEF PushData
      <4>2. resp_fifo' \in Seq({"head", "word"})
        BY <4>1, AnswersType DEF Answer
      <4>3. status \subseteq Bits
        BY DEF WithAlarm, WithInput
      <4>4. /\ int_status' \subseteq Bits /\ irq' \in BOOLEAN
            /\ open' \in BOOLEAN /\ int_enab' = int_enab
        BY <4>1, <4>3 DEF Answer, WithResponses, WithInput
      <4>5. /\ alarm' \in Alarms /\ alarm_en' \in BOOLEAN /\ irq_mask' \in BOOLEAN
            /\ event' \in BOOLEAN /\ offset' \in Alarms
        BY <4>1 DEF apple_spmi_pmu_send, Rings, Due
      <4>6. skewed' \in BOOLEAN
        <5>1. CASE current_dev
          <6>1. \/ skewed' = (now < offset)
                \/ skewed' = (skewed \/ command.reg = "offset")
            BY <4>1, <5>1 DEF apple_spmi_pmu_send
          <6>2. (now < offset) \in BOOLEAN
            BY BoundsAssumption DEF Alarms
          <6>3. (skewed \/ command.reg = "offset") \in BOOLEAN
            BY Zenon
          <6> QED BY <6>1, <6>2, <6>3
        <5>2. CASE ~current_dev
          BY <4>1, <5>2
        <5> QED BY <5>1, <5>2
      <4>7. timer' \in Nat
        BY <4>1, <4>5 DEF apple_spmi_pmu_send, Alarms, NoTimer
      <4> QED BY <3>1, <4>1, <4>2, <4>4, <4>5, <4>6, <4>7, NoCommandType
    <3> QED BY <3>2, <3>3
  <2>5. ASSUME NEW enab \in EnableVals, WriteIntEnab(enab)
        PROVE TypeOK'
    BY <2>5, EnableAssumption DEF WriteIntEnab
  <2>6. CASE ResetQueue
    BY <2>6 DEF ResetQueue, apple_spmi_update_queues_status, WithResponses, WithInput
  <2>7. ASSUME Pop, isr' \in {"no", "acked", "read"}
        PROVE TypeOK'
    <3>1. resp_fifo' \in Seq({"head", "word"})
      BY <2>7 DEF Pop
    <3> QED BY <2>7, <3>1
        DEF Pop, apple_spmi_update_queues_status, WithResponses, WithInput
  <2>8. CASE IsrBegin
    BY <2>8 DEF IsrBegin
  <2>9. CASE IsrEnd
    BY <2>9 DEF IsrEnd
  <2>10. CASE apple_spmi_pmu_alarm
    BY <2>10 DEF apple_spmi_pmu_alarm, WithAlarm, WithInput, NoTimer
  <2>11. CASE Tick
    <3>1. now' \in 0 .. MaxNow
      BY <2>11, BoundsAssumption DEF Tick
    <3> QED BY <2>11, <3>1 DEF Tick
  <2>12. CASE Reset
    <3>1. resp_fifo' \in Seq({"head", "word"})
      BY <2>12 DEF Reset
    <3>2. command' \in [reg : Regs, value : Alarms, final : BOOLEAN]
      BY <2>12, NoCommandType DEF Reset
    <3>3. data' \in 0 .. 2 /\ expect' \in 0 .. 2 /\ isr' \in {"no", "acked", "read"}
      BY <2>12 DEF Reset
    <3>4. int_status' \subseteq Bits /\ int_enab' \subseteq Bits /\ irq' \in BOOLEAN
      BY <2>12 DEF Reset
    <3> QED BY <2>12, <3>1, <3>2, <3>3, <3>4 DEF Reset
  <2>13. CASE UNCHANGED vars
    BY <2>13 DEF vars
  <2> QED
    BY <2>1, <2>2, <2>3, <2>4, <2>5, <2>6, <2>7, <2>8, <2>9, <2>10, <2>11, <2>12,
       <2>13, ZenonT(30)
    DEF Next, Request, PollPop, IsrPop
<1> QED BY <1>1, <1>2, PTL DEF Spec

(***************************************************************************)
(* apple_spmi_queue_reg_write takes a word for data exactly when the guest *)
(* means it so, whether or not the bus finds the slave of the write.       *)
(***************************************************************************)
THEOREM ControllerInStep == Spec => []InStep
<1>1. Init => InStep
  BY DEF Init, InStep
<1>2. InStep /\ [Next]_vars => InStep'
  <2> SUFFICES ASSUME InStep, [Next]_vars PROVE InStep'
    OBVIOUS
  <2> USE DEF InStep, controller, guest
  <2>1. CASE Request
    BY <2>1 DEF Request, RequestWrite, RequestRead, RequestOther
  <2>2. CASE PushData
    BY <2>2 DEF PushData
  <2>3. ASSUME NEW enab \in EnableVals, WriteIntEnab(enab)
        PROVE InStep'
    BY <2>3 DEF WriteIntEnab
  <2>4. CASE ResetQueue \/ PollPop \/ IsrBegin \/ IsrPop \/ IsrEnd
    BY <2>4 DEF ResetQueue, PollPop, IsrBegin, IsrPop, IsrEnd, Pop
  <2>5. CASE apple_spmi_pmu_alarm \/ Tick \/ Reset
    BY <2>5 DEF apple_spmi_pmu_alarm, Tick, Reset
  <2>6. CASE UNCHANGED vars
    BY <2>6 DEF vars
  <2> QED BY <2>1, <2>2, <2>3, <2>4, <2>5, <2>6 DEF Next
<1> QED BY <1>1, <1>2, PTL DEF Spec

-----------------------------------------------------------------------------
(* The response bit.                                                       *)

LEMMA FollowsFIFO ==
    \A status, fifo : fifo # <<>> => "resp" \in WithResponses(status, fifo)
BY DEF WithResponses, WithInput

LEMMA AlarmKeepsResp ==
    \A status : "resp" \in WithAlarm(status) <=> "resp" \in status
BY DEF WithAlarm, WithInput

\* A transfer leaves the response bit right, whatever the alarm did to the
\* status meanwhile: the final one sets it, any other says more is to come.
LEMMA AnswerSignals ==
    ASSUME NEW resp, NEW status, NEW final \in BOOLEAN, Answer(resp, status, final)
    PROVE  RespSignalled'
<1>1. CASE final
  BY <1>1, FollowsFIFO DEF Answer, RespSignalled, apple_spmi_update_irq
<1>2. CASE ~final
  BY <1>2 DEF Answer, RespSignalled
<1> QED BY <1>1, <1>2

(***************************************************************************)
(* No interleaving of transfers, partial reads, acknowledgements of the    *)
(* interrupt, queue resets and alarms loses the bit of a waiting response. *)
(***************************************************************************)
THEOREM ResponsesSignalled == Spec => []RespSignalled
<1>1. Init => RespSignalled
  BY DEF Init, RespSignalled
<1>2. TypeOK /\ RespSignalled /\ [Next]_vars => RespSignalled'
  <2> SUFFICES ASSUME TypeOK, RespSignalled, [Next]_vars PROVE RespSignalled'
    OBVIOUS
  <2>1. CASE UNCHANGED <<resp_fifo, open, isr, int_status>>
    BY <2>1 DEF RespSignalled
  <2>2. CASE Request
    <3>1. PICK match \in BOOLEAN, final \in BOOLEAN :
             \/ \E reg \in Regs : \E v \in WriteVals[reg] : RequestWrite(reg, v, match, final)
             \/ \E reg \in ReadRegs : RequestRead(reg, match, final)
             \/ RequestOther(match)
      BY <2>2 DEF Request
    <3>2. ASSUME NEW reg \in ReadRegs, RequestRead(reg, match, final)
          PROVE RespSignalled'
      BY <2>1, <3>2, AnswerSignals DEF RequestRead, guest
    <3> QED BY <2>1, <3>1, <3>2 DEF RequestWrite, RequestOther, controller, guest
  <2>3. CASE PushData
    <3>1. command.final \in BOOLEAN
      BY DEF TypeOK
    <3> QED BY <2>1, <2>3, <3>1, AnswerSignals DEF PushData
  <2>4. CASE ResetQueue
    BY <2>4 DEF ResetQueue, RespSignalled
  <2>5. CASE Pop
    BY <2>5, FollowsFIFO
    DEF Pop, apple_spmi_update_queues_status, apple_spmi_update_irq, RespSignalled
  <2>6. CASE IsrBegin
    BY <2>6 DEF IsrBegin, RespSignalled
  <2>7. CASE IsrEnd
    BY <2>7 DEF IsrEnd, RespSignalled, controller
  <2>8. CASE apple_spmi_pmu_alarm
    BY <2>8, AlarmKeepsResp
    DEF apple_spmi_pmu_alarm, apple_spmi_update_irq, RespSignalled, guest
  <2>9. CASE Reset
    BY <2>9 DEF Reset, RespSignalled
  <2> QED BY <2>1, <2>2, <2>3, <2>4, <2>5, <2>6, <2>7, <2>8, <2>9
          DEF Next, WriteIntEnab, apple_spmi_update_irq, PollPop, IsrPop, Tick,
              controller, guest, vars
<1> QED BY <1>1, <1>2, TypeCorrect, PTL DEF Spec

-----------------------------------------------------------------------------
(* The alarm.                                                              *)

\* An alarm that lies ahead is armed for a second after zero.
LEMMA AheadIsLater ==
    ASSUME TypeOK, NEW a \in Alarms, ~Due(TRUE, a)
    PROVE  a + offset > now /\ a + offset # NoTimer /\ ~(now < offset)
BY BoundsAssumption DEF TypeOK, Due, Alarms, NoTimer

\* The inductive invariant: a clock that has not been set since it was last
\* looked at is past its zero, so an alarm it has reached stays reached.
AlarmInv == AlarmArmed /\ (skewed \/ offset <= now)

(***************************************************************************)
(* The timer follows the alarm and its enable bit through every write of   *)
(* either, the values half-written on the way included, through its own    *)
(* expiry and the resets of the controller (apple_spmi_pmu_set_alarm,      *)
(* apple_spmi_pmu_alarm); a clock set meanwhile is followed with the next  *)
(* such write.                                                             *)
(***************************************************************************)
THEOREM FutureAlarmArmed == Spec => []AlarmArmed
<1>1. Init => AlarmInv
  BY DEF Init, AlarmInv, AlarmArmed
<1>2. TypeOK /\ AlarmInv /\ [Next]_vars => AlarmInv'
  <2> SUFFICES ASSUME TypeOK, AlarmInv, [Next]_vars PROVE AlarmInv'
    OBVIOUS
  <2> USE DEF AlarmInv
  <2>1. CASE UNCHANGED <<pmu, now>>
    BY <2>1 DEF AlarmArmed, Due, pmu
  <2>2. CASE PushData
    <3>1. CASE UNCHANGED pmu
      BY <2>1, <2>2, <3>1 DEF PushData
    <3>2. ASSUME apple_spmi_pmu_send(command.reg, command.value)
          PROVE  AlarmInv'
      <4>1. /\ now' = now
            /\ alarm' \in Alarms /\ alarm_en' \in BOOLEAN
        BY <2>2, <3>2 DEF PushData, apple_spmi_pmu_send, TypeOK
      <4>2. CASE Looks(command.reg)
        <5>1. /\ offset' = offset /\ skewed' = (now < offset)
              /\ timer' = IF alarm_en' /\ ~Due(alarm_en', alarm')
                         THEN alarm' + offset ELSE NoTimer
          BY <3>2, <4>2 DEF apple_spmi_pmu_send, Looks
        <5>2. (skewed \/ offset <= now)'
          BY <4>1, <5>1, BoundsAssumption DEF TypeOK, Alarms
        <5>3. CASE alarm_en' /\ ~Due(alarm_en', alarm')
          <6>1. ~Due(TRUE, alarm')
            BY <5>3 DEF Due
          <6>2. timer' = alarm' + offset' /\ timer' # NoTimer
            BY <4>1, <5>1, <5>3, <6>1, AheadIsLater
          <6> QED BY <5>3, <5>2, <6>2 DEF AlarmArmed
        <5>4. CASE ~(alarm_en' /\ ~Due(alarm_en', alarm'))
          <6>1. ~(alarm_en /\ ~Due(alarm_en, alarm))' /\ timer' = NoTimer
            BY <4>1, <5>1, <5>4 DEF Due
          <6> QED BY <5>2, <6>1 DEF AlarmArmed
        <5> QED BY <5>3, <5>4
      <4>3. CASE ~Looks(command.reg)
        <5>1. /\ alarm' = alarm /\ alarm_en' = alarm_en /\ timer' = timer
              /\ skewed' \/ (offset' = offset /\ ~skewed)
          BY <3>2, <4>3 DEF apple_spmi_pmu_send, Looks
        <5> QED BY <4>1, <5>1 DEF AlarmArmed, Due
      <4> QED BY <4>2, <4>3
    <3> QED BY <2>2, <3>1, <3>2 DEF PushData
  <2>3. CASE apple_spmi_pmu_alarm
    <3>1. /\ UNCHANGED <<alarm, alarm_en, offset, skewed, now>>
          /\ timer # NoTimer /\ now >= timer /\ timer' = NoTimer
      BY <2>3 DEF apple_spmi_pmu_alarm
    <3>2. ~skewed => timer = alarm + offset
      BY <3>1 DEF AlarmArmed
    <3>3. ~skewed /\ alarm_en => Due(alarm_en, alarm)
      BY <3>1, <3>2, AheadIsLater DEF TypeOK, Due, Alarms
    <3> QED BY <3>1, <3>3 DEF AlarmArmed, Due
  <2>4. CASE Tick
    <3>1. UNCHANGED <<alarm, alarm_en, offset, skewed, timer>> /\ now' = now + 1
      BY <2>4 DEF Tick, pmu
    <3>2. alarm_en /\ ~skewed /\ ~Due(alarm_en, alarm)' => ~Due(alarm_en, alarm)
      BY <3>1, BoundsAssumption DEF Due, TypeOK, Alarms
    <3>3. (skewed \/ offset <= now)'
      BY <3>1, BoundsAssumption DEF TypeOK, Alarms
    <3> QED BY <3>1, <3>2, <3>3 DEF AlarmArmed, Due
  <2> QED BY <2>1, <2>2, <2>3, <2>4
          DEF Next, Request, RequestWrite, RequestRead, RequestOther, WriteIntEnab,
              ResetQueue, PollPop, IsrBegin, IsrPop, IsrEnd, Pop, Reset, vars
<1> QED BY <1>1, <1>2, TypeCorrect, PTL DEF Spec, AlarmInv
==============================================================================
