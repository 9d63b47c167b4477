# Inferno: a TLA+ model of the emulated Apple devices

Inferno is QEMU with the devices of Apple's ARM system-on-chips added: interrupt
controller, CPU clusters with fast inter-processor interrupts, I/O processors
behind mailboxes, an AES engine, buses, and so on. This directory holds TLA+
modules of the parts where concurrency, ordering or a protocol makes the code
hard to test, TLC configurations that check them on small instances, and proofs
that TLAPS checks for every value of the constants.

Only code that Inferno adds is considered; the rest of QEMU is upstream and is
taken as it is (its big lock, timers, bottom halves and interrupt lines).

Contents: 1 how the program runs; 2 inventory; 3 modules and runs; 4 proofs;
5 disagreements found; 6 what is only model-checked; 7 what is not modelled;
8 plan; 9 running the tools.

## 1. How the program runs, and what a step is

Register handlers, timers, bottom halves and resets hold QEMU's big lock
(BQL). They are mutually atomic, so each is **one action, the whole handler**,
with the line updates it ends in. Two parts of Inferno have threads of their
own: the AES engine and the USB-over-TCP device. In these a step is what happens
between two operations on a lock, a socket or a condition variable. A handler that
runs long loops under the lock (the SPI controller) has one step per turn, and
nothing else moves until it has returned.

The guest is the environment. Where only register values matter it writes any
value of a small set in any order. Where a protocol matters (RTKit, SPMI
interrupts, SIO buffers, the SEP's interrupt handler) it is a small driver written from what
the device expects of it; these definitions are marked external in the map.

Bit masks are sets, messages are records or model values, and a
register that is only stored and read back is left out.

## 2. Inventory

State, operations and the behaviours that are hard to test, by part. Parts
without a module are in section 7.

| Part | Source | State | Operations | Hard to test |
|---|---|---|---|---|
| AIC | `hw/intc/apple_aic.c` | EIR state, mask, destination; IPI pending, deferred, mask; line per CPU | set_irq, register writes, IACK, 64 us timer, reset | two CPUs acknowledging one interrupt; the scan that spreads interrupts over CPUs; delivery that rests on the timer only |
| A13 fast IPIs | `hw/arm/apple-silicon/a13.c` | IPI latch and FIQ input per CPU, deferred and no-wake masks per cluster, timer | IPI_RR local and global, IPI_SR, IPI_CR, tick, power-on, reset | repeat, retract, tick and acknowledge in any order; CPU asleep at one and awake at the other |
| A7IOP mailbox | `hw/misc/apple-silicon/a7iop/mailbox/` | two inboxes, masks, enables, underflow, four outputs each | send, receive, mask, control, reset | outputs of one mailbox describe the inbox of the other |
| SEP interrupt controller | same `core.c`, `a7iop/regs-v4.c` | status list, enables, timer masks, power gate, CPU line | status push and read, register writes, power write, reset | a source read twice, a line left up for ever |
| A7IOP core, RTKit | `a7iop/core.c`, `a7iop/rtkit.c` | endpoint-0 state, rollcall queue, idle flag, bottom half | start, wakeup, hello, rollcall, power, reset | a handshake crossing a power request, refused versions, lost wakeups, assertions |
| AES engine | `hw/misc/apple-silicon/aes.c` | FIFO, level, queue, status, worker, cipher | FIFO write, start, stop, clear, reset, worker | join with the lock held, lost signals, a second worker, level wrap |
| SPMI, PMU alarm | `hw/spmi/`, `hw/misc/apple-silicon/spmi-pmu.c` | request in progress, response FIFO, status, current slave; alarm, event, timer | request, data, pop, enables, alarm, reset | data taken for commands, unannounced responses, an alarm looked at while half written, a clock set under it |
| USB over TCP | `hw/usb/dev-tcp-remote.c`, `hw/usb/hcd-tcp.c` | connection, closed flag, attachment, inflight record, completed queue, bottom halves; the peer's channel and endpoint queues | accept, read, write, submit, cancel, reset, clean-up; the peer's loop and completions | five threads in two processes; pointers kept over an unlocked read; a wait with a time-out; a connection lost at any point |
| SIO DMA | `hw/dma/apple_sio.c` | buffers of each endpoint, messages both ways | MAP, STOP, read, write, completion, reset | a STOP crossing completions and MAPs; a buffer that cannot be mapped in the middle of a transfer |
| SPI controller | `hw/ssi/apple_spi.c` | two FIFOs, two counts, configuration, RUN | a run and its two loops, register writes and reads, reset | loops that end by count, FIFO and DMA room together; short DMA transfers |

Interactions: the AIC takes the interrupt outputs of every device. RTKit and the
SEP's interrupt controller are built on the mailbox, and their modules EXTEND
`A7IOPMailbox`. The SPI controller moves its data through SIO buffers, and
`AppleSPI` EXTENDS `AppleSIO`. SIO, SMC, AOP and ANS are RTKit clients. DMA of AES, SIO, ANS
and the display goes through a DART. The PMU hangs on the SPMI bus and raises an
input of its controller, which is why controller, bus and PMU are one module.

`PROJECT.json` lists the hazards with their lines and the properties that would
catch them.

## 3. Modules and runs

Each component has a module. The `MC` module of that component only defines
values for constants. `USBPacketService` is an abstract specification, which
`USBTCPRemote` implements. Operators whose comment begins "Mutation:" are wrong
variants of the operator that follows them. No specification uses them; they are there
to show that each property fails when the code does.

### AppleAIC

Variables are the arrays of `AppleAICState`; masks are sets of bit numbers.
`apple_aic_tick` is the timer: it merges deferred IPIs, then `Scan` visits the
external interrupts in index order as `apple_aic_update` does and returns the
CPUs to interrupt (`Interrupted`). Everything else is one action per register.
`claim` is a history variable: the CPU whose IACK returned an EIR, until it is
unmasked.

* **aic_eir**, two CPUs, three EIRs with shared, private and CPU-less
  destinations. An acknowledged EIR has one handler (`NoDoubleClaim`); a tick
  serves every deliverable EIR (`TickServesAll`) and wakes nobody in vain
  (`TickWakesNobodyInVain`). Two CPUs and three EIRs are the least with which the
  scan lends a CPU to an earlier EIR and must find a helper for a later one.
  Under weak fairness of the timer, which re-arms itself, every unmasked EIR
  raises a line (`EIRReachesCPU`). No destination here has the bit `numCPU`: see
  section 4 for what happens otherwise.
* **aic_ipi**, both IPI kinds: under the same fairness every unmasked IPI raises
  a line (`IPIReachesCPU`).

### AppleA13

`ipi_sr` is the latch of a CPU and `fast_ipi` its FIQ input; `deferredIPI` and
`noWakeIPI` are the cluster masks as pairs of sender and target. `owed` records
each request until it is latched, retracted or merged. Sleep and power-on are actions of the
environment. A running CPU whose FIQ input is high acknowledges: a guest
that never does would never get another IPI. A system reset reaches the timer and
the CPUs. It leaves `ipi_sr`, and also the masks: `apple_a13_cluster_reset` would clear
them, but the machines put the clusters on no bus, so that nothing calls it.

* **a13_one**, two CPUs of a cluster. Latch and line agree (`LineIsLatch`); no
  request is delivered twice or after retraction (`DeliveredOnce`,
  `OnlyOwedIsLatched`); no-wake IPIs let sleepers sleep (`NoWakeLetsSleep`);
  once senders stop, deferred IPIs to CPUs that are on drain (`LocalDeferredDrains`).
  Fairness: the timer, and a CPU taking a pending FIQ.
* **a13_global**, expected to fail: section 5.

### A7IOPMailbox and A7IOPKic

`A7IOPMailbox` is the pair of mailboxes. `Updated` is
`apple_a7iop_mailbox_update_irq`, with the SEP's rule that a use of the AP
mailbox also updates the IOP mailbox. `underflow` silences an inbox until reset.
The reset resets the AP mailbox first, so its outputs are computed while the IOP
mailbox still holds its messages. Masks and a scheduled bottom half survive it.

`A7IOPKic` adds the SEP's interrupt controller: list of pushed statuses,
enables, timer masks and the power gate of `sep.c`. The status list is a set: a
push adds no status twice, and the pop looks at kind and number, not at age.
`taken` is the history of what was read and not enabled again; `pmgr` marks the
time after a power write or reset, in which the code leaves the line alone.

* **kic_list**, a timer and an external interrupt: the line is right
  (`CPULineFollows`), statuses are read in the order the comment promises
  (`ReadOrder`), the handler ends (`LineDrains`). Fairness: a processor whose
  line is high reads the status.
* **kic_mail**, one message, masks, both mailboxes: outputs follow
  (`OwnOutputsFollow`, `SEPOutputsFollow`), a source read is not offered again
  (`ReadOnce`). Bound: one message per inbox; outputs only depend on emptiness.

### AppleRTKit

The management endpoint on top of the mailboxes, with a driver at the AP side.
The bottom half takes a message (`cur`), handles it in one step and looks
again; while it runs (`inBH`) it holds the lock. An assertion of the code sets `failed`.
`Replies` are the driver's answers to hello: refuse, version 10, version 12. One that
refused the first hello may panic at the second, as a FIXME in `rtkit.c` reports of
iOS; only a reset ends that (`APPanic`).

* **rtkit_boot**, three endpoint blocks, pings, sleep, wake and reset at any
  time. No assertion fails (`NeverAborts`), no mail is without a handler
  (`MailHandled`), silence means agreement (`QuietMeansAgreed`), a driver that
  is up has seen all endpoints (`UpMeansAnnounced`), boot and sleep end
  (`BootEnds`, `SleepEnds`; boot may end in the panic, which needs a first hello
  refused). Fairness: main loop and a guest that takes its
  interrupts. Three blocks have a first, a middle and a last.

`Hasty` is FALSE: the driver asks for sleep only when it is up. A driver that
asks for it during a rollcall leaves blocks in the queue, and the next HELLO_ACK
fails the assertion at `rtkit.c:241`; with `Hasty` TRUE, `NeverAborts` is
violated in this way.

### AppleAES

Words are written into `command`, which moves to `queue` when complete. A worker
goes through `loop, take, begin, crypt, lock, done, test, sleep, wait`: `sleep`
holds `queue_mutex`, `lock` waits for the BQL, `crypt` runs without locks.
`joining` is `aes_stop` waiting with the BQL held. One key context is modelled.
A FLAG may stop the engine (`stop_flag`). A save of a running engine is a stop that
puts `stopped` back; the saved machine goes on either here (`SaveDone`) or in a process
that loads it (`apple_aes_post_load`), which starts a worker of its own. A stopped
engine is saved without joining anybody and is loaded stopped. The words of a command
in assembly are not saved (`Lost`): the loading process stores the next word through
NULL.

Four history flags delimit what can be promised, and each of them names a real
limit of the code:
`disturbed`: an unknown opcode was written, or the FIFO emptied under a
command, after which the level is off. `abandoned`: a FLAG or a reset set `stopped`
under a living worker, which nobody then joins, so that the next start runs a
second one beside it; a start that finds no worker ends this. `calm`: at the call of `aes_stop` the worker was gone or the
only one waiting; otherwise `aes_stop` need not return. `lost`: the machine went on
after a save, and nothing started a worker again (`aes.c:777`). Because it really may
hang, deadlock is not checked in these runs.

* **aes_work**: the level counts the words, in its eight bits (`LevelCounts`). The join
  in `aes_stop` keeps workers apart, through starts, stops, saves and loads, and so
  DATA never runs on a freed cipher (`LoneWorker`). Two workers are interchangeable (symmetry).
* **aes_wake**: queued commands are taken (`QueueServed`), a calm stop returns
  (`StopReturns`), and a machine that was loaded has a worker. Fairness: the host
  runs every thread that can run. `QueueServed`
  says that a queue that stays nonempty is served again and again, since the
  guest may refill it for ever.

Bounds: one queued command and `MaxLevel` words per side. The 8-bit wrap is
reached from zero downwards, so a small level is enough.

### AppleSPMI

A request opens a transfer, data words follow a write, responses go to
`resp_fifo`. `expect` is the guest's own count of data words, `isr` its handler,
which acknowledges and then pops until empty. The PMU has an alarm of two
"bytes" of one bit each, because the code looks at the clock after every byte. The
guest sets the PMU's clock by writing its offset from the host's (`offset`, in whole
seconds); the armed timer is a second of the host's clock. `skewed` is a history
variable: the clock was set after the alarm was last looked at, or showed a time
before its zero then, which wraps around.

* **spmi**: controller and guest agree which words are data (`InStep`),
  responses are announced and read (`RespSignalled`, `ResponsesRead`). The timer is
  armed for the second at which the PMU's clock will show an enabled alarm, and such
  an alarm that is still ahead has its timer (`AlarmArmed`, unless `skewed`); an armed
  alarm goes off (`AlarmGoesOff`). Fairness: the handler, the clock and the timer.

What the model shows beside these: an enabled alarm that is rewritten goes off early if
its first bytes make a time that has passed, and a clock that is set moves the alarm
only when the alarm or its control register is next written.

Bounds: `Depth` two response words (the code has 256 and asserts that they do not
overflow), so that one command's response meets the next; `MaxNow` = 3 seconds and one
offset besides zero, so that an alarm can be past, present and to come by either clock.
Only the alarm is read back: the controller does not look at what it reads.

### USBPacketService and USBTCPRemote

`USBPacketService` says what a host controller relies on (`hw/usb/core.c`,
`hw/usb/bus.c`): a packet is home, in a call, kept by the device, or leaving by a
cancellation. A call returns, a kept packet is given back once, and a device that
is unplugged gives back all it has.

`USBTCPRemote` has the accept thread (`apc`), a read thread for each connection
(`reader`), the controller's call in progress with its inflight record (`op`), the
state of each packet as the USB core sees it (`pstate`), the completed queue, the
pending bottom halves, the socket in both directions and the peer. `gen` counts
the submissions of a packet: identifiers are used again, so a response carries
the submission it answers and the code cannot see it. A pointer is a packet with
its `gen`; using one after the packet was given back makes `fate` "wild", a
failed assertion makes it "abort". A message is read in two or three `recv()` calls
(`Recv`, `RecvRest`, `ReadData`), each on what `s->fd` is when it is made. A read
thread that outlives its connection may so take parts of two messages for one: `fate`
is then "mixed", and the model follows it no further, since what happens next depends
on the bytes. `gaveUp` records a cancellation that stopped
waiting after its second.

* **usb**: one packet submitted twice, two connections. The device implements
  `USBPacketService` (`KeepsContract`, by the mapping of `Service`), liveness
  included: each call returns whatever happens to the connection. On the first
  connection and without a time-out, responses belong to the present submission
  (`RepliesAreCurrent`). Failures need a stated cause (`FailsOnlyWithCause`). An
  accept thread that sleeps is brought back (`AcceptsAgain`).

The exceptions in these properties are what the code really does:
a cancellation that gives up lets a late answer meet another submission
(`dev-tcp-remote.c:692`); a pointer found for a response is used after its data
were read without the lock (`:272`); the accept thread acts on `closed` before
the clean-up has detached the device, and attaches it a second time, which
`bus.c:511` asserts against (`:382`); after that, two read threads share a connection,
or one reads the rest of a message from the next (`:189`); a broadcast between the accept thread's test
and its wait is lost (`:390`).

Bounds: two submissions and two connections, which is the least for an identifier
or a connection to be used again; each packet has an endpoint of its own. Two
packets take TLC too long. Fairness: threads and bottom halves run, a wait that
was answered or timed out ends, the peer reads; nothing makes the guest or the
peer submit, cancel, connect or complete. Deadlock is not checked: a process that has
failed stops.

### AppleSIO and AppleSPI

`AppleSIO` keeps the buffers of two endpoints as records of tag, size, progress
and whether they are mapped; the driver (external) hands them out by tag and gets
them back by messages. `Transfer` is the loop of `apple_sio_dma_read` and
`_write`. A buffer is mapped at its first use, and which of them cannot be is chosen
by `Unmappable` at that moment, since the page tables belong to the guest.

`AppleSPI` EXTENDS it. A register access that calls `apple_spi_run` sets `pc` to
"start", and the run then goes through `BeginRun`, the turns `SendWord`,
`EndSending`, the turns `ReceiveWord`, `EndRun` and `EndAccess`, before anything
else happens. `sound`, `failed` and `short` are history variables of a run.

* **spi**: every buffer handed out is in exactly one place and comes back in
  order, across completions, STOP, refusals and reset (`BuffersAccounted`).
  A DMA transfer falls short only if a buffer cannot be mapped
  (`ShortNeedsBadMapping`): the controller ignores what `apple_sio_dma_read` and
  `_write` return, so `apple_sio_dma_remaining` must never promise more than they find. A
  run with enough buffers completes with every word in memory
  (`SoundRunCompletes`). Each step of a run uses up `Fuel` (`RunProgresses`), so the big lock
  is released.

What the model shows beside these: an auto-generated receive longer than the FIFO
stops with RXCNT left over, because the loop (`apple_spi.c:327`) ends on a full
FIFO before the flush inside it (`:334`) can happen, which is why
`HasAllItNeeds` bounds it by one FIFO; a MAP that arrives after RUN does not
restart the controller.

Bounds: a FIFO of `Depth` two and counts of three, so that it is refilled and
flushed within a run; two buffers of two words to send from, one of three words to
receive into; two messages under way when the driver sends another, so that a STOP
can be sent while a MAP and its refusal or a completion are under way. Tags are
interchangeable (symmetry; the run has no liveness property). Word size one byte,
DMA mode, a controller that is DMA capable.

## 4. Proofs

All proofs are for arbitrary constants under the named assumptions of the
modules (`numCPU` is between 1 and 31, sizes are naturals, written values have
their type).

* `AppleAICProofs`. `TypeCorrect`; `ClaimedStaysMasked` and, from it, the action
  property `OneHandler`. `NobodyInVain` and `ServesAll` are about the scan:
  `ScanUnfolds` shows that the recursive function is defined, `AccOK` is what is
  known after the EIRs below n, `AssignStep` is one turn, `ScanServes` the
  induction, done with least counterexamples because the library's induction
  rule takes an operator. `ServesAll` assumes that no
  written destination has bit `numCPU`. It must: an EIR whose destination names
  no CPU puts this bit into the scan's set (`apple_aic.c:164`), and a later EIR
  with the bit in its destination is then skipped at every tick.
* `AppleA13Proofs`. `TypeCorrect`, `LineFollowsLatch`, `NoSecondDelivery`
  (inductive with the types, because the acknowledgement clears the bit together
  with the latch), and from `LatchStep` the action properties `LatchIsOwed` and
  `SleepersSleep`.
* `A7IOPKicProofs`, the mailbox pair and the SEP's interrupt controller. The
  inductive invariant `MboxInv` joins types, own outputs and SEP outputs; one
  lemma per operation. Theorems `MboxTypeCorrect`, `OwnOutputsAlwaysFollow`,
  `SEPOutputsAlwaysFollow` about the mailboxes used freely, and
  `ComposedOutputsFollow` about them inside the SEP. `ReadOnce` is not inductive:
  what was read must also be known to be masked or disabled (`TakenMasked`);
  `KicInv` adds that to `MboxInv`. Theorems `SourcesReadOnce` (for the SEP role,
  a hypothesis), `LineFollows`, `ReadsInOrder`, `KicTypeCorrect`.
* `AppleRTKitProofs`. For any driver: `TypeCorrect` and `NoMailForgotten`, from
  the types and from the facts that no direction is ever disabled, no inbox
  underflows and the driver's interrupt is never high over an empty inbox
  (`MailOK`). For a driver that asks for sleep only when the IOP is up (hypothesis
  `~Hasty`, see above why it is needed): `HandshakeInv` says that at most one
  message of the handshake is under way, in the inbox of one side or in the hands
  of the bottom half, with pings around it, and that its place decides the phase:
  off, waking, greeting, announcing, started, sleeping. `KeepsPhase` covers all
  steps that only move pings or take a message out of the IOP's inbox;
  `HandleHandshake` and `ReceiveHandshake` are the two sides. `EmulatorSurvives`,
  `SilenceIsAgreement` and `UpKnowsEndpoints` are read off the phases, for any
  number of blocks, any answers to hello and any number of pings.
* `AppleSPMIProofs`. `InStep` is inductive by itself, `RespSignalled` with the
  types (`ControllerInStep`, `ResponsesSignalled`). `FutureAlarmArmed` is `AlarmArmed`
  through byte-wise rewrites, disables, resets and settings of the clock. It is not
  inductive: `AlarmInv` adds that a clock that is not skewed has reached its zero, without
  which time passing would make an alarm due that had wrapped around.
* `AppleAESProofs`. `TypeCorrect`; `WorkerIsAlone`: until a FLAG or a reset abandons
  a worker there is at most one, and the cipher that its DATA runs on exists. The
  inductive invariant is `Joined`: only the thread that a join would wait for is alive,
  and none while the engine is stopped and nobody joins. The second half rests on it: a
  KEY command frees the cipher without a lock, and only because the same
  worker runs both can it not come between the test and the use of a DATA command.
  `LevelCountsWords`: the words of a queue, and of the commands in
  the workers' hands, are the elements of a set of pairs (`WordsOf`), so that adding,
  taking and finishing a command change a cardinality (`OneMore`, `OneTaken`). `Counted`
  adds to `LevelCounts` that these sets are finite and that a worker outside
  `aes_process_command` has no command; the first is needed for the sum to mean
  anything, the second because a command must come off once.
* `AppleSPIProofs`. `TypeCorrect` for controller and buffers together. The DMA loop
  `Transfer` is a recursive function over the buffers: `TurnsRec` shows that it is
  defined, `TurnInv` is what holds after a number of turns, `InductionTo` the
  induction over them (over a set, for the reason given under the AIC).
  `TransferMoved` is the result: asked for no more than there is room for, it moves
  all of it unless a buffer cannot be mapped. From it `RunEnds` (every step of a run lowers `Fuel`),
  `ShortOnlyOnBadMapping` and, with the invariant `SoundInv` that accounts for
  counts, FIFOs, and buffer room at every point of the two loops, `SoundRunsComplete`.
  `BuffersStayAccounted` needs more than `BuffersAccounted`: the tags of an endpoint
  are distinct, every refusal is about a tag the driver holds, a STOP is the last
  message of its endpoint in its queue, and its end comes when nothing of that endpoint
  is left in the SIO or on its way to it. `Accounts` says this of sequences of tags,
  `Placed` of the two queues, a list of buffers and the driver's list, and `AllPlaced`
  of the state. The proof has three layers: laws of `Only` (what filtering does to
  concatenations, found by the same induction over sets), what each kind of message
  does to `Placed`, and `TransferInOrder`, which shows that the DMA loop completes a
  first part of the buffers and leaves the others in order.
* `USBTCPRemoteProofs`. `TypeCorrect`, one lemma per thread, for any packets and
  any number of submissions and connections. `CallsOwnTheirPacket`: a packet is
  in a call, as the USB core sees it, exactly while the controller's call for it is in
  progress. `KeepsContractSafely` is the refinement without fairness: the initial
  states map to initial states of `USBPacketService`, and each step of any thread
  is a step of the contract or changes nothing in it (`ServiceStep`; the steps that
  complete several packets at once are in `ServiceCompletes`).
  `EndsAgree` is the message protocol: while the first connection is open and no
  cancellation has given up (`FirstOpen`), `PacketInv` says for each packet what can
  still end it -- a request in the socket, an entry of the peer's endpoint queue, a
  response in the socket or in the hands of the read thread, an entry of the completed
  queue -- and that it is in one place at most, is about the present submission, and is
  gone when the packet is given back. `LinksOK` and `OpeningOK` are what is known of
  the connections and threads otherwise. `RepliesStayCurrent` and
  `FailuresHaveACause` are read off it: under it, the tests by identifier find the packet
  that is meant, no assertion or pointer can go wrong and no message is put together from
  two, unless a stated cause holds.

Each of these inductive invariants was first an invariant of a TLC run on the
configuration of its component.

## 5. Disagreement between code and comments

It is a run that is expected to fail, and a finding in `PROJECT.json`.

* **a13_global**: a deferred IPI to another cluster is stored and never
  delivered, because the tick skips sources outside its cluster.

## 6. Only model-checked

* Liveness under fairness and ENABLED are beyond the prover: `EIRReachesCPU`,
  `IPIReachesCPU`, `LocalDeferredDrains`, `LineDrains`, `BootEnds`, `SleepEnds`,
  `QueueServed`, `StopReturns`, `ResponsesRead`, `AlarmGoesOff`, `AcceptsAgain` and
  the fairness part of `KeepsContract`.
* Fairness is also why `RunEnds` is about `Fuel` and not about the end of a run: that
  a quantity of naturals cannot fall for ever is an induction the prover does not do.
* NeverAborts with a hasty driver is false, as section 3 says.

Every invariant and every action property that a passing run checks is also a theorem.
`TypeOK` is proved for every module, for SPI in its proof module; only aes_work
checks it as well.

## 7. Not modelled

| Part | Why, or what a model would be about |
|---|---|
| DART | planned: fault status and line against DMA threads; an access during a flush fails silently (`dart.c:524`), reset leaves the line (`dart.c:598`) |
| SMC, AOP | planned: RTKit clients; one reply per key request; ring wrap (`aop.c:491`) |
| GPIO | planned: acknowledged level interrupt still active (`apple_gpio.c:323`), pin moved to another group (`:107`), reset (`:246`) |
| Watchdog | planned: 32-bit clock (`apple_wdt.c:103`), zero time base after reset (`:235`), interrupt raised again (`:184`) |
| I2C, touchscreen, scaler | planned, small: FIFO and completion interrupts; a touch sent with later coordinates (`mt-spi.c:917`), end timer against a new press (`:954`) |
| SEP devices, SEP simulation | firmware-driven registers and ASN.1 replies; only its periodic timer (`sep.c:2044`) is a candidate |
| UART, ANS, NVMe MMU, SART | thin layers over upstream devices, or tables |
| GXF/SPRR | CPU state within an instruction |
| Displays, audio, dwc3, Type-C, PCIe host, baseband | pixels, samples and register decoding; dwc3 is a project of its own |
| NVRAM, PMU D2255, sensors, buttons | file format and register files |
| Machines, boot, device tree, patcher | construction, run once before the guest |

Within the modelled parts:

* AES: the ciphers; the second key context (a KEY and a DATA for different contexts
  disturb each other less than the model says); a key length that
  `qcrypto_cipher_new` refuses, which aborts the process (`aes.c:251`); the bit of a
  FLAG that asks for an interrupt (`:354`), taken as set. SPMI: a second slave; `current_dev` is
  not cleared by the end of a transfer (`hw/spmi/core.c:93`), which one slave per
  bus, as the machines wire it, does not show.
* Mailbox: the words of a message and the count stamped into them (at sixteen
  messages it becomes zero, `mailbox/core.c:233`); a direction disabled between a
  send and its bottom half (`:390`).
* SEP interrupt controller: the branches of `is_interrupt_enabled` for statuses that are
  neither timers nor external interrupts (`mailbox/core.c:73-88`, `:111-113`; the
  mailboxes' own interrupts are read from their state), which only the debug registers
  of `sep.c:3887-3942` push.
* RTKit: the SEP starts its processor even when it is awake
  (`SEP_BOOT_MONITOR_RUN`, `a7iop/core.c:52`), but is no RTKit client; what a client does
  in its own start and wakeup hooks.
* USB over TCP: controllers other than EHCI. EHCI handles its packets in a guarded
  bottom half and cancels all packets of a port before resetting it; so `HandlePacket` does not
  start while a vCPU waits in a cancel (`dev-tcp-remote.c:686`), and the reset's clean-up of
  the inflight queue (`:631`) finds nothing. xHCI resets a port without cancelling
  (`hcd-xhci.c:2672`). Further: the device address and its bottom half, combined packets,
  calls of the controller on several packets at once, unrealize (the accept thread goes back to its
  lock without releasing it, `dev-tcp-remote.c:370`), a peer whose socket is full
  (`hcd-tcp.c:183`), packets split over writes.
* SIO and SPI: messages that change no buffer, timestamps, REG_STATUS and the
  interrupt line, chip select, wider words (size 3 is an assertion,
  `apple_spi.c:116`), a run without DMA, which returns at once (`:281`), a MAP whose
  parameter is zero, an assertion (`apple_sio.c:482`). Loading a snapshot with buffers
  queued: their segments are read by a count that is itself read later, into memory
  that was not cleared (`apple_sio.c:735`), so that what is loaded is not determined;
  with no buffer queued a load changes nothing. `apple_spi_reset` leaves the line as it
  was.

## 8. Plan

1. Prove: the protocol of a later USB connection, once the clean-up of the one
   before has ended, from the same invariant with the connection as a parameter.
2. Model: DART (fault status against DMA threads), watchdog and GPIO as small
   modules, a second SPMI slave, the peer's response coroutines.
3. Abstract specifications: a reliable channel that the mailbox pair with
   RTKit's bottom half implements, under which `AppleSIO` can be put; a job queue
   that AES implements while neither abandoned nor disturbed.

## 9. Running the tools

    tlc -workers 2 -config AppleAIC_eir.cfg MCAppleAIC
    tlapm AppleAICProofs.tla

`PROJECT.json` names the module and configuration of each run. The longest runs
are spi (1.9 million states), aes_work (1.3 million), spmi (610,000), aes_wake
(400,000) and usb (370,000), two to four minutes each.
