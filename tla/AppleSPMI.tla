------------------------------ MODULE AppleSPMI ------------------------------
(***************************************************************************)
(* The SPMI controller (hw/spmi/apple_spmi.c), its bus (hw/spmi/core.c)    *)
(* and the power management unit on it with its alarm clock                *)
(* (hw/misc/apple-silicon/spmi-pmu.c).                                     *)
(*                                                                         *)
(* The guest pushes a request word, and after a write its data words; the  *)
(* answers go to a response FIFO.  A response and the alarm each have a    *)
(* bit in the controller's interrupt status.  Every handler runs with the  *)
(* big lock held and is one step.                                          *)
(***************************************************************************)
EXTENDS Integers, Sequences

CONSTANTS
    Depth,        \* bound: response words the guest leaves unread
    EnableVals,   \* the values it writes to INT_ENAB
    WriteVals,    \* the values it writes to each register of the PMU
    ReadRegs,     \* the registers it reads
    MaxNow        \* bound: seconds counted by the clock

\* The registers of the PMU and the data words of a transfer to each: the
\* alarm, its enable bit, the interrupt mask, the event bit, the clock and the
\* seconds of the clock's offset in the scratchpad.
DataWords == [alarm |-> 1, alarm_ctrl |-> 1, irq_mask |-> 1, alarm_event |-> 1, rtc |-> 2,
              offset |-> 1]
Regs == DOMAIN DataWords
Bits == {"resp", "pmu"}

\* The alarm is written byte by byte; two binary digits stand for its bytes.
Alarms == 0 .. 3
LowByteWritten(old, new) == 2 * (old \div 2) + (new % 2)

\* The timer when it is not armed: an alarm that lies ahead is never at zero.
NoTimer == 0

ASSUME EnableAssumption == EnableVals \subseteq SUBSET Bits
ASSUME ValuesAssumption == WriteVals \in [Regs -> SUBSET Alarms] /\ ReadRegs \subseteq Regs
ASSUME BoundsAssumption == Depth \in Nat /\ MaxNow \in Nat

VARIABLES
    data,         \* the data words still to come for the write begun; 0: none
    command,      \* that write, while data words are to come
    resp_fifo,
    int_status,
    int_enab,
    irq,
    current_dev,  \* the bus has found its slave
    open,         \* history: the last transfer was not the final one
    expect,       \* the guest: data words it still has to push
    isr,          \* the guest's interrupt handler: "no", "acked" or "read"
    alarm,
    alarm_en,     \* ALARM_EN in the alarm control register
    irq_mask,
    event,        \* RTC_EVENT_ALARM
    timer,        \* the host's second the alarm timer is armed for, or NoTimer
    offset,       \* the host's second at which the clock of the PMU shows zero:
                  \* when the PMU is made, until the guest sets the clock
    skewed,       \* history: that clock was set after the alarm was last looked at,
                  \* or was before its zero then
    now           \* the host's clock, from when the PMU is made

controller == <<data, command, resp_fifo, int_status, int_enab, irq, open>>
guest == <<expect, isr>>
pmu == <<alarm, alarm_en, irq_mask, event, timer, offset, skewed>>
vars == <<controller, current_dev, guest, pmu, now>>

NoCommand == [reg |-> "rtc", value |-> 0, final |-> FALSE]

Init ==
    /\ data = 0
    /\ command = NoCommand
    /\ resp_fifo = <<>>
    /\ int_status = {}
    /\ int_enab = {}
    /\ irq = FALSE
    /\ current_dev = FALSE
    /\ open = FALSE
    /\ expect = 0
    /\ isr = "no"
    /\ alarm = 0
    /\ alarm_en = FALSE
    /\ irq_mask = FALSE
    /\ event = FALSE
    /\ timer = NoTimer
    /\ offset = 0
    /\ skewed = FALSE
    /\ now = 0

-----------------------------------------------------------------------------
(* Interrupts of the controller.                                           *)

apple_spmi_update_irq(status, enab) ==
    /\ int_status' = status
    /\ int_enab' = enab
    /\ irq' = (status \cap enab # {})

\* apple_spmi_set_irq: an input writes its status bit.
WithInput(status, bit, input) ==
    IF input THEN status \cup {bit} ELSE status \ {bit}

\* apple_spmi_update_queues_status: the response input follows the FIFO.
WithResponses(status, fifo) == WithInput(status, "resp", fifo # <<>>)

\* Mutation: the response bit is left to the next transfer.
UpdateQueuesNothing(fifo) == UNCHANGED <<int_status, int_enab, irq>>

apple_spmi_update_queues_status(fifo) ==
    apple_spmi_update_irq(WithResponses(int_status, fifo), int_enab)

-----------------------------------------------------------------------------
(* The alarm of the PMU: apple_spmi_pmu_set_alarm for one value.           *)

\* A clock set ahead of the host's wraps around and is past every alarm.
Due(en, a) == en /\ (now < offset \/ a <= now - offset)

\* The alarm goes off during a write: the clock is looked at after each byte of
\* the alarm and after its control register.
Rings(reg, value) ==
    \/ reg = "alarm" /\ (Due(alarm_en, LowByteWritten(alarm, value)) \/ Due(alarm_en, value))
    \/ reg = "alarm_ctrl" /\ Due(value = 1, alarm)

\* apple_spmi_pmu_set_alarm is called after these are written, after the offset
\* it is not.
Looks(reg) == reg \in {"alarm", "alarm_ctrl"}

\* Mutation: an alarm that goes off half-written is not armed again.
SendRungOnce(reg, value) ==
    /\ alarm' = IF reg = "alarm" THEN value ELSE alarm
    /\ alarm_en' = IF reg = "alarm_ctrl" THEN value = 1 ELSE alarm_en
    /\ irq_mask' = IF reg = "irq_mask" THEN value = 1 ELSE irq_mask
    /\ event' = (Rings(reg, value) \/ IF reg = "alarm_event" THEN value = 1 ELSE event)
    /\ offset' = IF reg = "offset" THEN value ELSE offset
    /\ IF Looks(reg)
       THEN /\ timer' = IF alarm_en' /\ ~Rings(reg, value) THEN alarm' + offset ELSE NoTimer
            /\ skewed' = (now < offset)
       ELSE /\ timer' = timer
            /\ skewed' = (skewed \/ reg = "offset")

apple_spmi_pmu_send(reg, value) ==
    /\ alarm' = IF reg = "alarm" THEN value ELSE alarm
    /\ alarm_en' = IF reg = "alarm_ctrl" THEN value = 1 ELSE alarm_en
    /\ irq_mask' = IF reg = "irq_mask" THEN value = 1 ELSE irq_mask
    /\ event' = (Rings(reg, value) \/ IF reg = "alarm_event" THEN value = 1 ELSE event)
    /\ offset' = IF reg = "offset" THEN value ELSE offset
    /\ IF Looks(reg)
       THEN /\ timer' = IF alarm_en' /\ ~Due(alarm_en', alarm') THEN alarm' + offset ELSE NoTimer
            /\ skewed' = (now < offset)
       ELSE /\ timer' = timer
            /\ skewed' = (skewed \/ reg = "offset")

\* apple_spmi_pmu_update_irq, called when the alarm goes off and only then.
WithAlarm(status) == WithInput(status, "pmu", irq_mask)

\* Mutation: the timer runs a second longer.
AlarmLate ==
    /\ timer # NoTimer
    /\ now > timer
    /\ timer' = NoTimer
    /\ event' = TRUE
    /\ apple_spmi_update_irq(WithAlarm(int_status), int_enab)
    /\ UNCHANGED <<data, command, resp_fifo, open, current_dev, guest, alarm,
                   alarm_en, irq_mask, offset, skewed, now>>

\* apple_spmi_pmu_alarm: the timer has run out.
apple_spmi_pmu_alarm ==
    /\ timer # NoTimer
    /\ now >= timer
    /\ timer' = NoTimer
    /\ event' = TRUE
    /\ apple_spmi_update_irq(WithAlarm(int_status), int_enab)
    /\ UNCHANGED <<data, command, resp_fifo, open, current_dev, guest, alarm,
                   alarm_en, irq_mask, offset, skewed, now>>

Tick ==
    /\ now < MaxNow
    /\ now' = now + 1
    /\ UNCHANGED <<controller, current_dev, guest, pmu>>

-----------------------------------------------------------------------------
(* Requests: apple_spmi_queue_reg_write.                                   *)

ResponseWords(n) == [k \in 1 .. n |-> IF k = 1 THEN "head" ELSE "word"]

\* Mutation: the final transfer does not look at the FIFO.
AnswerSilently(resp, status, final) ==
    /\ Len(resp) <= Depth
    /\ resp_fifo' = resp
    /\ open' = ~final
    /\ apple_spmi_update_irq(status, int_enab)

\* After the answers the FIFO is resp, the status is status; the final transfer
\* lets the response bit follow.
Answer(resp, status, final) ==
    /\ Len(resp) <= Depth
    /\ resp_fifo' = resp
    /\ open' = ~final
    /\ apple_spmi_update_irq(IF final THEN WithResponses(status, resp) ELSE status, int_enab)

\* spmi_start_transfer: the slave is looked for unless the bus has one.
Found(match) == current_dev \/ match

\* Mutation: a write whose slave is not found is forgotten.
WriteDropped(reg, value, match, final) ==
    /\ data = 0 /\ expect = 0
    /\ data' = IF Found(match) THEN DataWords[reg] ELSE 0
    /\ command' = [reg |-> reg, value |-> value, final |-> final]
    /\ expect' = DataWords[reg]
    /\ current_dev' = Found(match)
    /\ UNCHANGED <<resp_fifo, int_status, int_enab, irq, open, isr, pmu, now>>

\* An extended write: the data words are awaited whether or not the transfer
\* could be started.
RequestWrite(reg, value, match, final) ==
    /\ data = 0 /\ expect = 0
    /\ data' = DataWords[reg]
    /\ command' = [reg |-> reg, value |-> value, final |-> final]
    /\ expect' = DataWords[reg]
    /\ current_dev' = Found(match)
    /\ UNCHANGED <<resp_fifo, int_status, int_enab, irq, open, isr, pmu, now>>

\* An extended read: answered at once, not at all when there is no slave.
RequestRead(reg, match, final) ==
    /\ data = 0 /\ expect = 0
    /\ current_dev' = Found(match)
    /\ IF Found(match)
       THEN Answer(resp_fifo \o ResponseWords(1 + DataWords[reg]), int_status, final)
       ELSE UNCHANGED <<resp_fifo, int_status, int_enab, irq, open>>
    /\ UNCHANGED <<data, command, guest, pmu, now>>

\* Any other command is refused by the slave.
RequestOther(match) ==
    /\ data = 0 /\ expect = 0
    /\ current_dev' = Found(match)
    /\ UNCHANGED <<controller, guest, pmu, now>>

\* A data word; the last one makes the transfer, to nobody without a slave.
PushData ==
    /\ data > 0 /\ expect > 0
    /\ data' = data - 1
    /\ expect' = expect - 1
    /\ IF data > 1
       THEN UNCHANGED <<command, resp_fifo, int_status, int_enab, irq, open, pmu>>
       ELSE /\ command' = NoCommand
            /\ IF current_dev THEN apple_spmi_pmu_send(command.reg, command.value)
               ELSE UNCHANGED pmu
            /\ Answer(resp_fifo \o ResponseWords(1),
                      IF current_dev /\ Rings(command.reg, command.value)
                      THEN WithAlarm(int_status) ELSE int_status,
                      command.final)
    /\ UNCHANGED <<current_dev, isr, now>>

-----------------------------------------------------------------------------
(* The other registers and the guest's interrupt handler.                  *)

WriteIntEnab(enab) ==
    /\ apple_spmi_update_irq(int_status, enab)
    /\ UNCHANGED <<data, command, resp_fifo, open, current_dev, guest, pmu, now>>

\* QUEUE_RESET with the response bit.
ResetQueue ==
    /\ resp_fifo' = <<>>
    /\ apple_spmi_update_queues_status(<<>>)
    /\ UNCHANGED <<data, command, open, current_dev, guest, pmu, now>>

\* A read of RSP_QUEUE_POP.
Pop ==
    /\ resp_fifo' = IF resp_fifo = <<>> THEN <<>> ELSE Tail(resp_fifo)
    /\ apple_spmi_update_queues_status(resp_fifo')
    /\ UNCHANGED <<data, command, open, current_dev, expect, pmu, now>>

PollPop == Pop /\ UNCHANGED isr

\* The handler clears the status bits and then reads responses: one word at
\* least, unless QUEUE_STATUS says there are none.
IsrBegin ==
    /\ irq /\ isr = "no"
    /\ isr' = "acked"
    /\ apple_spmi_update_irq({}, int_enab)
    /\ UNCHANGED <<data, command, resp_fifo, open, current_dev, expect, pmu, now>>

IsrPop ==
    /\ isr # "no" /\ resp_fifo # <<>>
    /\ isr' = "read"
    /\ Pop

IsrEnd ==
    /\ isr = "read" \/ (isr = "acked" /\ resp_fifo = <<>>)
    /\ isr' = "no"
    /\ UNCHANGED <<controller, current_dev, expect, pmu, now>>

\* apple_spmi_reset_enter and _exit; the bus and the PMU keep their state.
Reset ==
    /\ data' = 0
    /\ command' = NoCommand
    /\ resp_fifo' = <<>>
    /\ apple_spmi_update_irq({}, {})
    /\ open' = FALSE
    /\ expect' = 0
    /\ isr' = "no"
    /\ UNCHANGED <<current_dev, pmu, now>>

Request ==
    \E match, final \in BOOLEAN :
        \/ \E reg \in Regs : \E v \in WriteVals[reg] : RequestWrite(reg, v, match, final)
        \/ \E reg \in ReadRegs : RequestRead(reg, match, final)
        \/ RequestOther(match)

Next ==
    \/ Request \/ PushData
    \/ \E enab \in EnableVals : WriteIntEnab(enab)
    \/ ResetQueue \/ PollPop
    \/ IsrBegin \/ IsrPop \/ IsrEnd
    \/ apple_spmi_pmu_alarm \/ Tick
    \/ Reset

\* The guest's handler runs, time passes and the main loop runs the timer.
Fairness ==
    /\ WF_vars(IsrBegin) /\ WF_vars(IsrPop \/ IsrEnd)
    /\ WF_vars(Tick) /\ WF_vars(apple_spmi_pmu_alarm)

Spec == Init /\ [][Next]_vars /\ Fairness

-----------------------------------------------------------------------------
(* Properties.                                                             *)

\* Types of the variables.
TypeOK ==
    /\ data \in 0 .. 2
    /\ expect \in 0 .. 2
    /\ command \in [reg : Regs, value : Alarms, final : BOOLEAN]
    /\ resp_fifo \in Seq({"head", "word"})
    /\ int_status \subseteq Bits
    /\ int_enab \subseteq Bits
    /\ alarm \in Alarms
    /\ offset \in Alarms
    /\ timer \in Nat
    /\ now \in 0 .. MaxNow
    /\ isr \in {"no", "acked", "read"}
    /\ irq \in BOOLEAN /\ current_dev \in BOOLEAN /\ open \in BOOLEAN
    /\ alarm_en \in BOOLEAN /\ irq_mask \in BOOLEAN
    /\ event \in BOOLEAN /\ skewed \in BOOLEAN

\* A word is taken for data by the controller exactly when the guest means it
\* so: a write to a slave that does not exist still swallows its data words.
InStep == data = expect

\* A response that is complete and that no handler is about to read has its
\* status bit set: clearing the status, or reading a part of the responses,
\* loses no interrupt.
RespSignalled == (resp_fifo # <<>> /\ ~open /\ isr # "acked") => "resp" \in int_status

\* While responses are waiting, their transfer is over and their interrupt is
\* enabled, the handler keeps reading them.
ResponsesRead ==
    <>[](resp_fifo # <<>> /\ ~open /\ "resp" \in int_enab)
        => []<><<Len(resp_fifo') < Len(resp_fifo)>>_vars

\* The timer is armed only for an enabled alarm, and for the second at which the
\* PMU's clock will show it; and an enabled alarm still ahead has its timer,
\* although a value half-written byte by byte may have gone off and deleted it
\* (the loop of apple_spmi_pmu_send).  Setting the clock breaks both until the
\* alarm or its control register is written again, with the clock past its zero.
AlarmArmed ==
    /\ timer # NoTimer => alarm_en /\ (skewed \/ timer = alarm + offset)
    /\ alarm_en /\ ~skewed /\ ~Due(alarm_en, alarm) => timer # NoTimer

\* An alarm whose timer is armed goes off, unless it is disabled or moved, and
\* whatever the clock of the PMU is set to meanwhile.
AlarmGoesOff ==
    \A a \in WriteVals["alarm"] :
        (alarm_en /\ timer # NoTimer /\ alarm = a) ~> (event \/ ~alarm_en \/ alarm # a)

=============================================================================
