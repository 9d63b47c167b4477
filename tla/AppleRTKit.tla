----------------------------- MODULE AppleRTKit -----------------------------
(***************************************************************************)
(* The RTKit management endpoint of an emulated I/O processor (rtkit.c),   *)
(* on top of the mailbox pair and the start and idle logic of              *)
(* a7iop/core.c, with the guest's driver at the AP side.                   *)
(*                                                                         *)
(* A write of CPU_CTRL or a power request starts the IOP, which says       *)
(* hello; the driver acknowledges a version; the IOP announces its         *)
(* endpoints in rollcall blocks, each acknowledged; then it is up.  The    *)
(* driver may put it to sleep and start it again.                          *)
(*                                                                         *)
(* The message handler of the IOP mailbox is a bottom half that holds the  *)
(* big lock while it drains the inbox: while inBH nobody else moves.       *)
(***************************************************************************)
EXTENDS A7IOPMailbox

CONSTANTS
    Blocks,       \* the number of blocks of 32 endpoints with a registered one
    Replies,      \* the driver's answers to the first hello: a version or Reject
    Hasty,        \* the driver may ask for sleep before the IOP is up
    MaxPings      \* bound: pings and other echoed messages in flight to the IOP

Reject == 0                        \* min 0xFFFF, max 0xBAD
RTKIT_MAX_VERSION_PRE_IOS14 == 10
RTKIT_MAX_VERSION == 12
UpState == 32                      \* the power state of the last POWER_ACK
Sleep == 1                         \* PSTATE_SLEEP, PSTATE_OFF, PSTATE_PWRGATE
On == 2                            \* PSTATE_ON

ASSUME BlocksAssumption == Blocks \in Nat \ {0}

Msg(type, arg) == [type |-> type, arg |-> arg]

\* The messages of the management endpoint, in both directions.
AllMessages ==
    UNION {{Msg("hello", v) : v \in {RTKIT_MAX_VERSION_PRE_IOS14, RTKIT_MAX_VERSION}},
           {Msg("hello_ack", v) : v \in Replies \union {RTKIT_MAX_VERSION_PRE_IOS14}},
           {Msg("rollcall", b) : b \in 0 .. Blocks},
           {Msg(t, 0) : t \in {"rollcall_ack", "ping", "ping_ack"}},
           {Msg("req_power", p) : p \in {Sleep, On}},
           {Msg("power_ack", p) : p \in {Sleep, UpState}}}

ASSUME AllMessagesAssumption == AllMessages \subseteq Messages

VARIABLES
    ep0,          \* ep0_status
    rollcall,     \* the blocks still to be announced, by number
    idle,         \* CPU_STATUS_IDLE
    inBH,         \* the bottom half is running
    cur,          \* the message it has taken from the inbox, or NoMessage
    failed,       \* the check at which the emulator aborted, or "none"
    boots,        \* calls of boot_done since the IOP last said hello
    ap,           \* the driver: "off", "booting", "up", "sleeping", the message
                  \* it is about to answer, or "panicked"
    seen          \* the rollcall blocks it has seen since the last hello

rtkitVars == <<ep0, rollcall, idle, inBH, cur, failed, boots>>
vars == <<mboxVars, rtkitVars, ap, seen>>

-----------------------------------------------------------------------------
(* The IOP.                                                                *)

\* apple_rtkit_send_msg: the IOP sends through its own mailbox.
SendAP(type, arg) == Send("iop", "ap", Msg(type, arg))

apple_rtkit_mgmt_send_hello ==
    /\ SendAP("hello", RTKIT_MAX_VERSION)
    /\ ep0' = "WAIT_HELLO"
    /\ boots' = 0

\* apple_a7iop_cpu_start, with the start and wakeup operations of rtkit.c.
apple_a7iop_cpu_start ==
    IF idle
    THEN idle' = FALSE /\ apple_rtkit_mgmt_send_hello /\ UNCHANGED rollcall
    ELSE UNCHANGED <<mboxVars, ep0, rollcall, idle, boots>>

Abort(check) ==
    /\ failed' = check
    /\ UNCHANGED <<mboxVars, ep0, rollcall, idle, boots>>

\* apple_rtkit_mgmt_rollcall_v11: queue every block, send the first.
apple_rtkit_mgmt_rollcall_v11 ==
    IF rollcall # <<>>
    THEN Abort("rollcall_v11")
    ELSE /\ rollcall' = [k \in 1 .. Blocks - 1 |-> k + 1]
         /\ SendAP("rollcall", 1)
         /\ ep0' = "WAIT_ROLLCALL"
         /\ UNCHANGED <<idle, boots, failed>>

\* apple_rtkit_mgmt_rollcall_v10: one message with every endpoint.
apple_rtkit_mgmt_rollcall_v10 ==
    /\ SendAP("rollcall", 0)
    /\ ep0' = "WAIT_ROLLCALL"
    /\ UNCHANGED <<rollcall, idle, boots, failed>>

\* Mutation: the second hello is sent, but its acknowledgement is not awaited.
HelloAckNoBreak(version) ==
    IF ep0 # "WAIT_HELLO"
    THEN Abort("hello_ack")
    ELSE \/ /\ version = Reject
            /\ SendAP("hello", RTKIT_MAX_VERSION_PRE_IOS14)
            /\ ep0' = "WAIT_ROLLCALL"
            /\ UNCHANGED <<rollcall, idle, boots, failed>>
         \/ version \in 1 .. 10 /\ apple_rtkit_mgmt_rollcall_v10
         \/ version > 10 /\ apple_rtkit_mgmt_rollcall_v11

HandleHelloAck(version) ==
    IF ep0 # "WAIT_HELLO"
    THEN Abort("hello_ack")
    ELSE \/ /\ version = Reject
            /\ SendAP("hello", RTKIT_MAX_VERSION_PRE_IOS14)
            /\ UNCHANGED <<ep0, rollcall, idle, boots, failed>>
         \/ version \in 1 .. 10 /\ apple_rtkit_mgmt_rollcall_v10
         \/ version > 10 /\ apple_rtkit_mgmt_rollcall_v11

\* Mutation: a request to switch on does not start the IOP.
ReqPowerIgnoresOn(state) ==
    /\ UNCHANGED <<failed, ep0, rollcall, boots>>
    /\ \/ state = On /\ UNCHANGED <<mboxVars, idle>>
       \/ state = Sleep /\ idle' = TRUE /\ SendAP("power_ack", Sleep)

\* Mutation: a request to sleep is not acknowledged.
ReqPowerNoAck(state) ==
    /\ UNCHANGED failed
    /\ \/ state = On /\ apple_a7iop_cpu_start
       \/ /\ state = Sleep
          /\ idle' = TRUE
          /\ UNCHANGED <<mboxVars, ep0, rollcall, boots>>

HandleReqPower(state) ==
    /\ UNCHANGED failed
    /\ \/ state = On /\ apple_a7iop_cpu_start
       \/ /\ state = Sleep
          /\ idle' = TRUE
          /\ SendAP("power_ack", Sleep)
          /\ UNCHANGED <<ep0, rollcall, boots>>

\* Mutation: the last block is taken for the end of the queue.
RollcallAckEarly ==
    IF ep0 # "WAIT_ROLLCALL"
    THEN Abort("rollcall")
    ELSE /\ IF Len(rollcall) <= 1
            THEN /\ ep0' = "IDLE"
                 /\ SendAP("power_ack", UpState)
                 /\ boots' = boots + 1
                 /\ rollcall' = <<>>
            ELSE /\ SendAP("rollcall", Head(rollcall))
                 /\ rollcall' = Tail(rollcall)
                 /\ UNCHANGED <<ep0, boots>>
         /\ UNCHANGED <<idle, failed>>

HandleRollcallAck ==
    IF ep0 # "WAIT_ROLLCALL"
    THEN Abort("rollcall")
    ELSE /\ IF rollcall = <<>>
            THEN /\ ep0' = "IDLE"
                 /\ SendAP("power_ack", UpState)
                 /\ boots' = boots + 1
                 /\ UNCHANGED rollcall
            ELSE /\ SendAP("rollcall", Head(rollcall))
                 /\ rollcall' = Tail(rollcall)
                 /\ UNCHANGED <<ep0, boots>>
         /\ UNCHANGED <<idle, failed>>

\* MSG_TYPE_PING and MSG_TYPE_AP_POWER are answered with what they carry.
HandlePing ==
    SendAP("ping_ack", 0) /\ UNCHANGED <<ep0, rollcall, idle, boots, failed>>

apple_rtkit_mgmt_handle_msg(msg) ==
    \/ msg.type = "hello_ack" /\ HandleHelloAck(msg.arg)
    \/ msg.type = "ping" /\ HandlePing
    \/ msg.type = "req_power" /\ HandleReqPower(msg.arg)
    \/ msg.type = "rollcall_ack" /\ HandleRollcallAck

-----------------------------------------------------------------------------
(* The bottom half, one message at a time: take it, then handle it.        *)

apple_rtkit_handle_messages_bh ==
    /\ bh
    /\ ~inBH
    /\ inBH' = TRUE
    /\ bh' = FALSE
    /\ UNCHANGED <<inbox, underflow, dir_en, int_mask, irqs, ep0, rollcall,
                   idle, cur, failed, boots>>

BHTake ==
    /\ inBH
    /\ cur = NoMessage
    /\ ~apple_a7iop_mailbox_is_empty("iop")
    /\ Recv("ap", "iop")
    /\ cur' = Received("ap", "iop")
    /\ failed' = IF cur' = NoMessage THEN "null message" ELSE failed
    /\ UNCHANGED <<ep0, rollcall, idle, inBH, boots>>

BHHandle ==
    /\ inBH
    /\ cur # NoMessage
    /\ apple_rtkit_mgmt_handle_msg(cur)
    /\ cur' = NoMessage
    /\ UNCHANGED inBH

\* Mutation: the bottom half handles one message and returns.
BHDoneEarly ==
    /\ inBH
    /\ cur = NoMessage
    /\ inBH' = FALSE
    /\ UNCHANGED <<mboxVars, ep0, rollcall, idle, cur, failed, boots>>

BHDone ==
    /\ inBH
    /\ cur = NoMessage
    /\ apple_a7iop_mailbox_is_empty("iop")
    /\ inBH' = FALSE
    /\ UNCHANGED <<mboxVars, ep0, rollcall, idle, cur, failed, boots>>

IOPStep ==
    /\ failed = "none"
    /\ apple_rtkit_handle_messages_bh \/ BHTake \/ BHHandle \/ BHDone
    /\ UNCHANGED <<ap, seen>>

-----------------------------------------------------------------------------
(* The driver, which is guest code: it answers each message of the         *)
(* handshake and starts, pings and stops the IOP as it likes.              *)

\* The driver runs only while the emulator is alive and the big lock is free.
Free == failed = "none" /\ ~inBH

SendIOP(type, arg) == Send("ap", "iop", Msg(type, arg))

\* apple_a7iop_set_cpu_ctrl with CPU_CTRL_RUN.
APRun ==
    /\ Free
    /\ ap = "off"
    /\ ap' = "booting"
    /\ apple_a7iop_cpu_start
    /\ UNCHANGED <<inBH, cur, failed, seen>>

APWake ==
    /\ Free
    /\ ap = "off"
    /\ ap' = "booting"
    /\ SendIOP("req_power", On)
    /\ UNCHANGED <<rtkitVars, seen>>

APSleep ==
    /\ Free
    /\ ap = "up" \/ (Hasty /\ ap = "booting")
    /\ ap' = "sleeping"
    /\ SendIOP("req_power", Sleep)
    /\ UNCHANGED <<rtkitVars, seen>>

APPing ==
    /\ Free
    /\ ap = "up"
    /\ Len(inbox["iop"]) < MaxPings /\ Len(inbox["ap"]) < MaxPings
    /\ SendIOP("ping", 0)
    /\ UNCHANGED <<rtkitVars, ap, seen>>

\* The driver takes a message when its nonempty interrupt is high, and answers
\* it in a later step: its registers are used one at a time.
APReceive ==
    /\ Free
    /\ ap # "panicked"
    /\ <<"ap", "nonempty">> \in irqs["ap"]
    /\ Recv("ap", "ap")
    /\ LET msg == Received("ap", "ap")
       IN  /\ ap' = CASE msg.type = "power_ack" /\ msg.arg = UpState
                           /\ ap = "booting" -> "up"
                      [] msg.type = "power_ack" /\ msg.arg = Sleep -> "off"
                      [] msg.type = "hello" /\ ap = "booting" ->
                           IF msg.arg = RTKIT_MAX_VERSION
                           THEN "ack first" ELSE "ack second"
                      [] msg.type = "rollcall" /\ ap = "booting" -> "ack rollcall"
                      [] OTHER -> ap
           /\ seen' = CASE msg.type = "hello" -> {}
                        [] msg.type = "rollcall" -> seen \union {msg.arg}
                        [] OTHER -> seen
    /\ UNCHANGED rtkitVars

APAnswer ==
    /\ Free
    /\ \/ /\ ap = "ack first"
          /\ \E v \in Replies : SendIOP("hello_ack", v)
       \/ /\ ap = "ack second"
          /\ SendIOP("hello_ack", RTKIT_MAX_VERSION_PRE_IOS14)
       \/ /\ ap = "ack rollcall"
          /\ SendIOP("rollcall_ack", 0)
    /\ ap' = "booting"
    /\ UNCHANGED <<rtkitVars, seen>>

\* A driver that refused the first hello may panic about the version of the
\* second one instead: the FIXME in apple_rtkit_mgmt_handle_msg says that iOS
\* sometimes does.  Only a reset ends that.
APPanic ==
    /\ Free
    /\ ap = "ack second"
    /\ ap' = "panicked"
    /\ UNCHANGED <<mboxVars, rtkitVars, seen>>

\* A system reset, at any moment the big lock is free: both mailboxes,
\* apple_a7iop_reset, apple_rtkit_reset_hold, and the guest.
Reset ==
    /\ Free
    /\ apple_a7iop_mailbox_reset
    /\ idle' = TRUE
    /\ ep0' = "IDLE"
    /\ rollcall' = <<>>
    /\ ap' = "off"
    /\ seen' = {}
    /\ UNCHANGED <<inBH, cur, failed, boots>>

-----------------------------------------------------------------------------
Init ==
    /\ MboxInit
    /\ ep0 = "IDLE"
    /\ rollcall = <<>>
    /\ idle = TRUE
    /\ inBH = FALSE
    /\ cur = NoMessage
    /\ failed = "none"
    /\ boots = 0
    /\ ap = "off"
    /\ seen = {}

Next ==
    \/ IOPStep
    \/ APRun \/ APWake \/ APSleep \/ APPing \/ APReceive \/ APAnswer
    \/ APPanic \/ Reset

Spec == Init /\ [][Next]_vars

\* The main loop runs the bottom half it was asked for; a guest whose interrupt
\* is high takes it, and finishes the answer it began.
FairSpec == Spec /\ WF_vars(IOPStep) /\ WF_vars(APReceive) /\ WF_vars(APAnswer)

-----------------------------------------------------------------------------
(* Properties.                                                             *)

TypeOK ==
    /\ inbox \in [Boxes -> Seq(AllMessages)]
    /\ irqs \in [Boxes -> SUBSET Sources]
    /\ bh \in BOOLEAN
    /\ ep0 \in {"IDLE", "WAIT_HELLO", "WAIT_ROLLCALL"}
    /\ rollcall \in Seq(1 .. Blocks)
    /\ idle \in BOOLEAN
    /\ inBH \in BOOLEAN
    /\ cur \in AllMessages \union {NoMessage}
    /\ failed \in {"none", "null message", "hello_ack", "rollcall", "rollcall_v11"}
    /\ boots \in Nat
    /\ ap \in {"off", "booting", "up", "sleeping",
               "ack first", "ack second", "ack rollcall", "panicked"}
    /\ seen \subseteq 0 .. Blocks

\* The emulator never aborts: no acknowledgement finds the management endpoint
\* in another state, no rollcall starts while blocks of an earlier one are
\* queued, and the handler never takes a message that is not there.
NeverAborts == failed = "none"

\* Mail for the IOP is never left without a handler to take it: one is running
\* or scheduled (the wakeup is not lost between the drain loop's last test and
\* the next send, nor in a reset).
MailHandled == inbox["iop"] # <<>> => bh \/ inBH

\* Once no message is under way the two sides agree: nobody waits for the
\* other, and the driver believes the IOP up, or off, exactly when it is.  The
\* exception is a driver that panicked: the IOP waits for its version.
QuietMeansAgreed ==
    (~bh /\ ~inBH /\ inbox["iop"] = <<>> /\ inbox["ap"] = <<>>) =>
        \/ ap = "off" /\ idle
        \/ ap = "up" /\ ~idle /\ ep0 = "IDLE"
        \/ ap \in {"ack first", "ack second"} /\ ep0 = "WAIT_HELLO"
        \/ ap = "ack rollcall" /\ ep0 = "WAIT_ROLLCALL"
        \/ ap = "panicked" /\ ep0 = "WAIT_HELLO"

\* A driver that believes the IOP up has been told of every endpoint since the
\* last hello, in one version 10 message or in all blocks of a later version,
\* and boot_done ran exactly once.
UpMeansAnnounced ==
    ap = "up" => seen \in {{0}, 1 .. Blocks} /\ boots = 1

\* The handshake ends: a driver that is booting the IOP gets it up, or the
\* machine is reset, or the driver panics.  It can panic only at the second
\* hello: one that accepts the first, whatever version it answers, gets the IOP
\* up.
Booting == ap \in {"booting", "ack first", "ack second", "ack rollcall"}
BootEnds == Booting ~> ap \in {"up", "off", "panicked"}

\* A request to sleep is answered.
SleepEnds == ap = "sleeping" ~> ap = "off"
=============================================================================
