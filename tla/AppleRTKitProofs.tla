-------------------------- MODULE AppleRTKitProofs --------------------------
(***************************************************************************)
(* Proofs about the RTKit handshake, for any number of endpoint blocks,    *)
(* any answers of the driver to hello and any number of pings.             *)
(*                                                                         *)
(* For any driver: the types, and that no mail is left without a handler.  *)
(* For a driver that asks for sleep only when the IOP is up: at any moment *)
(* at most one message of the handshake is under way, and where it is says *)
(* what both sides wait for.  The phases below list these situations; the  *)
(* four safety properties are read off them.                               *)
(***************************************************************************)
EXTENDS AppleRTKit, TLAPS, SequenceTheorems

-----------------------------------------------------------------------------
(* Messages under way.                                                     *)

\* Pings and their answers belong to no handshake.
Noise(msg) == msg.type \in {"ping", "ping_ack"}

\* A queue with no message of the handshake, and one with only msg.
Quiet(q) == \A i \in 1 .. Len(q) : Noise(q[i])

Carries(q, msg) ==
    \E i \in 1 .. Len(q) :
        /\ q[i] = msg
        /\ \A j \in 1 .. Len(q) : j # i => Noise(q[j])

\* The bottom half holds no message of the handshake.
CurQuiet == cur # NoMessage => Noise(cur)

Silent == CurQuiet /\ Quiet(inbox["iop"]) /\ Quiet(inbox["ap"])

ToIOP(msg) ==
    /\ Quiet(inbox["ap"])
    /\ \/ CurQuiet /\ Carries(inbox["iop"], msg)
       \/ cur = msg /\ Quiet(inbox["iop"])

ToAP(msg) == CurQuiet /\ Quiet(inbox["iop"]) /\ Carries(inbox["ap"], msg)

-----------------------------------------------------------------------------
(* The phases of a patient driver and its IOP.                             *)

\* The blocks in s and those in the queue are all blocks; or s is the answer of
\* version 10.
Announced(s) ==
    \/ s = {0} /\ rollcall = <<>>
    \/ /\ s \subseteq 1 .. Blocks
       /\ \A n \in 1 .. Blocks : n \in s \/ \E i \in 1 .. Len(rollcall) : rollcall[i] = n

Off == ap = "off" /\ idle /\ rollcall = <<>> /\ Silent

Waking == ap = "booting" /\ idle /\ rollcall = <<>> /\ ToIOP(Msg("req_power", On))

\* The IOP has said hello and waits for a version.
WaitsForVersion == ~idle /\ ep0 = "WAIT_HELLO" /\ rollcall = <<>> /\ boots = 0

Greeting ==
    /\ WaitsForVersion
    /\ \/ /\ ap = "booting"
          /\ \E v \in {RTKIT_MAX_VERSION_PRE_IOS14, RTKIT_MAX_VERSION} :
                ToAP(Msg("hello", v))
       \/ ap \in {"ack first", "ack second", "panicked"} /\ seen = {} /\ Silent
       \/ /\ ap = "booting"
          /\ seen = {}
          /\ \E v \in Replies \union {RTKIT_MAX_VERSION_PRE_IOS14} :
                ToIOP(Msg("hello_ack", v))

\* The IOP has sent a block and waits for its acknowledgement.
Announcing ==
    /\ ~idle /\ ep0 = "WAIT_ROLLCALL" /\ boots = 0
    /\ \/ /\ ap = "booting"
          /\ \E b \in 0 .. Blocks :
                ToAP(Msg("rollcall", b)) /\ Announced(seen \union {b})
       \/ ap = "ack rollcall" /\ Announced(seen) /\ Silent
       \/ ap = "booting" /\ Announced(seen) /\ ToIOP(Msg("rollcall_ack", 0))

\* The IOP is up; the driver learns of it, works with it or has asked for sleep.
Started ==
    /\ ~idle /\ ep0 = "IDLE" /\ rollcall = <<>>
    /\ boots = 1
    /\ seen \in {{0}, 1 .. Blocks}
    /\ \/ ap = "booting" /\ ToAP(Msg("power_ack", UpState))
       \/ ap = "up" /\ Silent
       \/ ap = "sleeping" /\ ToIOP(Msg("req_power", Sleep))

Sleeping ==
    ap = "sleeping" /\ idle /\ rollcall = <<>> /\ ToAP(Msg("power_ack", Sleep))

HandshakeInv ==
    /\ failed = "none"
    /\ Off \/ Waking \/ Greeting \/ Announcing \/ Started \/ Sleeping

-----------------------------------------------------------------------------
(* The mailboxes as RTKit and its driver use them.                         *)

\* No direction is disabled, no inbox underflows, and the driver's interrupt
\* tells of its mail.
MailOK ==
    /\ inbox \in [Boxes -> Seq(AllMessages)]
    /\ underflow = [d \in Boxes |-> FALSE]
    /\ dir_en = [via \in Boxes |-> [d \in Boxes |-> TRUE]]
    /\ irqs \in [Boxes -> SUBSET Sources]
    /\ <<"ap", "nonempty">> \in irqs["ap"] => inbox["ap"] # <<>>

\* The bottom half holds a message only while it runs.
HandlerOK ==
    /\ cur # NoMessage => inBH
    /\ MailHandled

LEMMA OutputType ==
    ASSUME NEW boxes, NEW under, NEW mask
    PROVE  Output(boxes, under, mask) \in SUBSET Sources
BY DEF Output

\* An update leaves the driver's interrupt high only over a nonempty inbox.
LEMMA UpdateTells ==
    ASSUME NEW d \in Boxes, MailOK, apple_a7iop_mailbox_update_irq(d),
           underflow' = underflow, d = "ap" \/ inbox'["ap"] = inbox["ap"]
    PROVE  /\ irqs' \in [Boxes -> SUBSET Sources]
           /\ <<"ap", "nonempty">> \in irqs'["ap"] => inbox'["ap"] # <<>>
<1>1. irqs' \in [Boxes -> SUBSET Sources]
  BY OutputType DEF apple_a7iop_mailbox_update_irq, MailOK
<1>2. CASE "ap" \in Updated(d)
  <2>1. irqs'["ap"] = Output(inbox', underflow', int_mask'["ap"])
    BY <1>2 DEF apple_a7iop_mailbox_update_irq, Boxes
  <2>2. ~underflow'["ap"]
    BY DEF MailOK, Boxes
  <2> QED BY <1>1, <2>1, <2>2 DEF Output
<1>3. CASE "ap" \notin Updated(d)
  <2>1. d # "ap" /\ irqs'["ap"] = irqs["ap"]
    BY <1>3 DEF apple_a7iop_mailbox_update_irq, Boxes, Updated
  <2> QED BY <1>1, <2>1 DEF MailOK
<1> QED BY <1>2, <1>3

LEMMA SendDelivers ==
    ASSUME MailOK, NEW via \in Boxes, NEW d \in Boxes, NEW msg \in AllMessages,
           Send(via, d, msg)
    PROVE  /\ MailOK'
           /\ inbox' = [inbox EXCEPT ![d] = Append(@, msg)]
           /\ bh' = (bh \/ d = "iop")
<1>1. dir_en[via][d]
  BY DEF MailOK
<1>2. /\ inbox' = [inbox EXCEPT ![d] = Append(@, msg)]
      /\ bh' = (bh \/ d = "iop")
      /\ UNCHANGED <<underflow, dir_en, int_mask>>
      /\ apple_a7iop_mailbox_update_irq(d)
  BY <1>1 DEF Send
<1>3. inbox' \in [Boxes -> Seq(AllMessages)]
  BY <1>2 DEF MailOK
<1>4. d = "ap" \/ inbox'["ap"] = inbox["ap"]
  BY <1>2 DEF MailOK, Boxes
<1>5. /\ irqs' \in [Boxes -> SUBSET Sources]
      /\ <<"ap", "nonempty">> \in irqs'["ap"] => inbox'["ap"] # <<>>
  BY <1>2, <1>4, UpdateTells
<1> QED BY <1>2, <1>3, <1>5 DEF MailOK

LEMMA RecvTakes ==
    ASSUME MailOK, NEW d \in Boxes, inbox[d] # <<>>, Recv("ap", d)
    PROVE  /\ MailOK'
           /\ inbox' = [inbox EXCEPT ![d] = Tail(@)]
           /\ bh' = bh
           /\ Received("ap", d) = Head(inbox[d])
<1>1. dir_en["ap"][d] /\ ~underflow[d]
  BY DEF MailOK, Boxes
<1>2. /\ inbox' = [inbox EXCEPT ![d] = Tail(@)]
      /\ UNCHANGED <<underflow, dir_en, int_mask, bh>>
      /\ apple_a7iop_mailbox_update_irq(d)
  BY <1>1 DEF Recv
<1>3. inbox' \in [Boxes -> Seq(AllMessages)]
  <2>1. Tail(inbox[d]) \in Seq(AllMessages)
    BY DEF MailOK
  <2> QED BY <1>2, <2>1 DEF MailOK
<1>4. d = "ap" \/ inbox'["ap"] = inbox["ap"]
  BY <1>2 DEF MailOK, Boxes
<1>5. /\ irqs' \in [Boxes -> SUBSET Sources]
      /\ <<"ap", "nonempty">> \in irqs'["ap"] => inbox'["ap"] # <<>>
  BY <1>2, <1>4, UpdateTells
<1>6. Received("ap", d) = Head(inbox[d])
  BY <1>1 DEF Received, apple_a7iop_mailbox_is_empty
<1> QED BY <1>2, <1>3, <1>5, <1>6 DEF MailOK

LEMMA ResetEmpties ==
    ASSUME MailOK, apple_a7iop_mailbox_reset
    PROVE  MailOK' /\ inbox' = [d \in Boxes |-> <<>>] /\ bh' = bh
<1> USE DEF apple_a7iop_mailbox_reset
<1>1. inbox' \in [Boxes -> Seq(AllMessages)]
  OBVIOUS
<1>2. irqs' \in [Boxes -> SUBSET Sources]
  BY OutputType
<1>3. <<"ap", "nonempty">> \notin irqs'["ap"]
  <2>1. irqs'["ap"] = Output([inbox EXCEPT !["ap"] = <<>>],
                             [underflow EXCEPT !["ap"] = FALSE], int_mask["ap"])
    BY DEF Boxes
  <2>2. [inbox EXCEPT !["ap"] = <<>>]["ap"] = <<>>
    BY DEF MailOK, Boxes
  <2>3. [underflow EXCEPT !["ap"] = FALSE]["ap"] = FALSE
    BY DEF MailOK, Boxes
  <2> QED BY <2>1, <2>2, <2>3 DEF Output
<1> QED BY <1>1, <1>2, <1>3 DEF MailOK

LEMMA MailStutter ==
    ASSUME MailOK, UNCHANGED mboxVars
    PROVE  MailOK'
BY DEF MailOK, mboxVars

-----------------------------------------------------------------------------
(* Any driver: the types, and mail is handled.                             *)

LEMMA Known ==
    /\ \A v \in {RTKIT_MAX_VERSION_PRE_IOS14, RTKIT_MAX_VERSION} :
          Msg("hello", v) \in AllMessages
    /\ \A v \in Replies \union {RTKIT_MAX_VERSION_PRE_IOS14} :
          Msg("hello_ack", v) \in AllMessages
    /\ \A b \in 0 .. Blocks : Msg("rollcall", b) \in AllMessages
    /\ Msg("rollcall_ack", 0) \in AllMessages
    /\ Msg("ping", 0) \in AllMessages
    /\ Msg("ping_ack", 0) \in AllMessages
    /\ \A p \in {Sleep, On} : Msg("req_power", p) \in AllMessages
    /\ \A p \in {Sleep, UpState} : Msg("power_ack", p) \in AllMessages
BY DEF AllMessages

LEMMA BlocksKnown ==
    ASSUME NEW msg \in AllMessages, msg.type = "rollcall"
    PROVE  msg.arg \in 0 .. Blocks
BY DEF AllMessages, Msg

LEMMA MessagesAreMessages ==
    \A msg \in AllMessages : msg # NoMessage
BY AllMessagesAssumption, MessageAssumption

IOPTypes ==
    /\ ep0 \in {"IDLE", "WAIT_HELLO", "WAIT_ROLLCALL"}
    /\ rollcall \in Seq(1 .. Blocks)
    /\ idle \in BOOLEAN
    /\ boots \in Nat

HandlerTypes ==
    /\ bh \in BOOLEAN
    /\ inBH \in BOOLEAN
    /\ cur \in AllMessages \union {NoMessage}
    /\ failed \in {"none", "null message", "hello_ack", "rollcall", "rollcall_v11"}

DriverTypes ==
    /\ ap \in {"off", "booting", "up", "sleeping",
               "ack first", "ack second", "ack rollcall", "panicked"}
    /\ seen \subseteq 0 .. Blocks

AnyDriverInv == MailOK /\ IOPTypes /\ HandlerTypes /\ DriverTypes /\ HandlerOK

\* What the IOP sends goes to the driver, and leaves its own mail alone.
LEMMA SendAPDelivers ==
    ASSUME MailOK, bh \in BOOLEAN, NEW type, NEW arg, Msg(type, arg) \in AllMessages,
           SendAP(type, arg)
    PROVE  /\ MailOK'
           /\ inbox'["ap"] = Append(inbox["ap"], Msg(type, arg))
           /\ inbox'["iop"] = inbox["iop"]
           /\ bh' = bh
<1>1. /\ MailOK'
      /\ inbox' = [inbox EXCEPT !["ap"] = Append(@, Msg(type, arg))]
      /\ bh' = (bh \/ "ap" = "iop")
  <2>1. "ap" \in Boxes /\ "iop" \in Boxes
    BY DEF Boxes
  <2> QED BY <2>1, SendDelivers DEF SendAP
<1>2. inbox'["ap"] = Append(inbox["ap"], Msg(type, arg)) /\ inbox'["iop"] = inbox["iop"]
  BY <1>1 DEF MailOK, Boxes
<1> QED BY <1>1, <1>2

LEMMA SendIOPDelivers ==
    ASSUME MailOK, bh \in BOOLEAN, NEW type, NEW arg, Msg(type, arg) \in AllMessages,
           SendIOP(type, arg)
    PROVE  /\ MailOK'
           /\ inbox'["iop"] = Append(inbox["iop"], Msg(type, arg))
           /\ inbox'["ap"] = inbox["ap"]
           /\ bh' = TRUE
<1>1. /\ MailOK'
      /\ inbox' = [inbox EXCEPT !["iop"] = Append(@, Msg(type, arg))]
      /\ bh' = (bh \/ "iop" = "iop")
  <2>1. "ap" \in Boxes /\ "iop" \in Boxes
    BY DEF Boxes
  <2> QED BY <2>1, SendDelivers DEF SendIOP
<1>2. inbox'["iop"] = Append(inbox["iop"], Msg(type, arg)) /\ inbox'["ap"] = inbox["ap"]
  BY <1>1 DEF MailOK, Boxes
<1> QED BY <1>1, <1>2

\* What a handler of the management endpoint leaves true, whichever it is.
HandledWell ==
    /\ MailOK'
    /\ IOPTypes'
    /\ inbox'["iop"] = inbox["iop"]
    /\ bh' = bh
    /\ failed' \in {failed, "hello_ack", "rollcall", "rollcall_v11"}

LEMMA StartWell ==
    ASSUME MailOK, IOPTypes, bh \in BOOLEAN, apple_a7iop_cpu_start, UNCHANGED failed
    PROVE  HandledWell
<1>1. CASE idle
  <2>1. SendAP("hello", RTKIT_MAX_VERSION) /\ idle' = FALSE /\ ep0' = "WAIT_HELLO"
          /\ boots' = 0 /\ UNCHANGED rollcall
    BY <1>1 DEF apple_a7iop_cpu_start, apple_rtkit_mgmt_send_hello
  <2>2. MailOK' /\ inbox'["iop"] = inbox["iop"] /\ bh' = bh
    BY <2>1, SendAPDelivers, Known
  <2> QED BY <2>1, <2>2 DEF HandledWell, IOPTypes
<1>2. CASE ~idle
  BY <1>2, MailStutter DEF apple_a7iop_cpu_start, HandledWell, IOPTypes, mboxVars
<1> QED BY <1>1, <1>2

LEMMA AbortWell ==
    ASSUME MailOK, IOPTypes, NEW check \in {"hello_ack", "rollcall", "rollcall_v11"},
           Abort(check)
    PROVE  HandledWell
BY MailStutter DEF Abort, HandledWell, IOPTypes, mboxVars

LEMMA SendWell ==
    ASSUME MailOK, IOPTypes', bh \in BOOLEAN, NEW type, NEW arg,
           Msg(type, arg) \in AllMessages, SendAP(type, arg), UNCHANGED failed
    PROVE  HandledWell
BY SendAPDelivers DEF HandledWell

LEMMA RollcallWell ==
    ASSUME MailOK, IOPTypes, bh \in BOOLEAN,
           apple_rtkit_mgmt_rollcall_v10 \/ apple_rtkit_mgmt_rollcall_v11
    PROVE  HandledWell
<1>1. CASE apple_rtkit_mgmt_rollcall_v10
  <2>1. IOPTypes'
    BY <1>1 DEF apple_rtkit_mgmt_rollcall_v10, IOPTypes
  <2>2. Msg("rollcall", 0) \in AllMessages
    BY Known, BlocksAssumption
  <2> QED BY <1>1, <2>1, <2>2, SendWell DEF apple_rtkit_mgmt_rollcall_v10
<1>2. CASE apple_rtkit_mgmt_rollcall_v11 /\ rollcall # <<>>
  BY <1>2, AbortWell DEF apple_rtkit_mgmt_rollcall_v11
<1>3. CASE apple_rtkit_mgmt_rollcall_v11 /\ rollcall = <<>>
  <2>1. /\ rollcall' = [k \in 1 .. Blocks - 1 |-> k + 1]
        /\ SendAP("rollcall", 1)
        /\ ep0' = "WAIT_ROLLCALL"
        /\ UNCHANGED <<idle, boots, failed>>
    BY <1>3 DEF apple_rtkit_mgmt_rollcall_v11
  <2>2. rollcall' \in Seq(1 .. Blocks)
    <3>1. Blocks - 1 \in Nat /\ \A k \in 1 .. Blocks - 1 : k + 1 \in 1 .. Blocks
      BY BlocksAssumption
    <3> DEFINE f == [k \in 1 .. Blocks - 1 |-> k + 1]
    <3>2. f \in [1 .. Blocks - 1 -> 1 .. Blocks]
      BY <3>1
    <3> HIDE DEF f
    <3>3. f \in UNION {[1 .. n -> 1 .. Blocks] : n \in Nat}
      BY <3>1, <3>2
    <3>4. f \in Seq(1 .. Blocks)
      BY ONLY <3>3, SeqDef, Zenon
    <3> QED BY <2>1, <3>4 DEF f
  <2>3. IOPTypes'
    BY <2>1, <2>2 DEF IOPTypes
  <2>4. Msg("rollcall", 1) \in AllMessages
    BY Known, BlocksAssumption
  <2> QED BY <2>1, <2>3, <2>4, SendWell
<1> QED BY <1>1, <1>2, <1>3

LEMMA HandleMsgWell ==
    ASSUME MailOK, IOPTypes, bh \in BOOLEAN, NEW msg \in AllMessages,
           apple_rtkit_mgmt_handle_msg(msg)
    PROVE  HandledWell
<1>1. CASE HandleHelloAck(msg.arg)
  <2>1. CASE ep0 # "WAIT_HELLO"
    BY <1>1, <2>1, AbortWell DEF HandleHelloAck
  <2>2. CASE apple_rtkit_mgmt_rollcall_v10 \/ apple_rtkit_mgmt_rollcall_v11
    BY <2>2, RollcallWell
  <2>3. CASE SendAP("hello", RTKIT_MAX_VERSION_PRE_IOS14)
               /\ UNCHANGED <<ep0, rollcall, idle, boots, failed>>
    <3>1. IOPTypes'
      BY <2>3 DEF IOPTypes
    <3> QED BY <2>3, <3>1, SendWell, Known
  <2> QED BY <1>1, <2>1, <2>2, <2>3 DEF HandleHelloAck
<1>2. CASE HandlePing
  <2>1. IOPTypes'
    BY <1>2 DEF HandlePing, IOPTypes
  <2> QED BY <1>2, <2>1, SendWell, Known DEF HandlePing
<1>3. CASE HandleReqPower(msg.arg)
  <2>1. CASE apple_a7iop_cpu_start
    BY <1>3, <2>1, StartWell DEF HandleReqPower
  <2>2. CASE idle' = TRUE /\ SendAP("power_ack", Sleep)
               /\ UNCHANGED <<ep0, rollcall, boots>>
    <3>1. IOPTypes'
      BY <2>2 DEF IOPTypes
    <3>2. UNCHANGED failed
      BY <1>3 DEF HandleReqPower
    <3> QED BY <2>2, <3>1, <3>2, SendWell, Known
  <2> QED BY <1>3, <2>1, <2>2 DEF HandleReqPower
<1>4. CASE HandleRollcallAck
  <2>1. CASE ep0 # "WAIT_ROLLCALL"
    BY <1>4, <2>1, AbortWell DEF HandleRollcallAck
  <2>2. CASE ep0 = "WAIT_ROLLCALL" /\ rollcall = <<>>
    <3>1. /\ ep0' = "IDLE" /\ SendAP("power_ack", UpState) /\ boots' = boots + 1
          /\ UNCHANGED <<rollcall, idle, failed>>
      BY <1>4, <2>2 DEF HandleRollcallAck
    <3>2. IOPTypes'
      BY <3>1 DEF IOPTypes
    <3> QED BY <3>1, <3>2, SendWell, Known
  <2>3. CASE ep0 = "WAIT_ROLLCALL" /\ rollcall # <<>>
    <3>1. /\ SendAP("rollcall", Head(rollcall)) /\ rollcall' = Tail(rollcall)
          /\ UNCHANGED <<ep0, boots, idle, failed>>
      BY <1>4, <2>3 DEF HandleRollcallAck
    <3>2. IOPTypes'
      BY <2>3, <3>1 DEF IOPTypes
    <3>3. Head(rollcall) \in 0 .. Blocks
      <4>1. rollcall \in Seq(1 .. Blocks)
        BY DEF IOPTypes
      <4>2. Head(rollcall) \in 1 .. Blocks
        BY <2>3, <4>1, HeadTailProperties
      <4> QED BY <4>2, BlocksAssumption
    <3> QED BY <3>1, <3>2, <3>3, SendWell, Known
  <2> QED BY <2>1, <2>2, <2>3
<1> QED BY <1>1, <1>2, <1>3, <1>4 DEF apple_rtkit_mgmt_handle_msg

LEMMA AnyDriverInit == Init => AnyDriverInv
<1> SUFFICES ASSUME Init PROVE AnyDriverInv
  OBVIOUS
<1>1. MailOK
  <2>1. irqs \in [Boxes -> SUBSET Sources] /\ inbox \in [Boxes -> Seq(AllMessages)]
    BY OutputType DEF Init, MboxInit
  <2>2. <<"ap", "nonempty">> \notin irqs["ap"]
    BY DEF Init, MboxInit, Output, Boxes
  <2> QED BY <2>1, <2>2 DEF Init, MboxInit, MailOK
<1>2. IOPTypes
  BY DEF Init, IOPTypes
<1>3. HandlerTypes /\ DriverTypes
  BY DEF Init, MboxInit, HandlerTypes, DriverTypes
<1>4. HandlerOK
  BY DEF Init, MboxInit, HandlerOK, MailHandled, Boxes
<1> QED BY <1>1, <1>2, <1>3, <1>4 DEF AnyDriverInv

\* The bottom half finds mail when it looks for some, and takes its head.
LEMMA TakesHead ==
    ASSUME AnyDriverInv, BHTake
    PROVE  /\ MailOK'
           /\ inbox["iop"] # <<>>
           /\ inbox' = [inbox EXCEPT !["iop"] = Tail(@)]
           /\ inbox'["ap"] = inbox["ap"]
           /\ inbox'["iop"] = Tail(inbox["iop"])
           /\ bh' = bh
           /\ cur' = Head(inbox["iop"])
           /\ cur' \in AllMessages
           /\ cur' # NoMessage
           /\ failed' = failed
<1>1. "iop" \in Boxes /\ "ap" \in Boxes
  BY DEF Boxes
<1>2. MailOK /\ inbox["iop"] \in Seq(AllMessages)
  BY <1>1 DEF AnyDriverInv, MailOK
<1>3. inbox["iop"] # <<>>
  BY DEF BHTake, apple_a7iop_mailbox_is_empty
<1>4. /\ MailOK'
      /\ inbox' = [inbox EXCEPT !["iop"] = Tail(@)]
      /\ bh' = bh
      /\ Received("ap", "iop") = Head(inbox["iop"])
  BY <1>1, <1>2, <1>3, RecvTakes DEF BHTake
<1>5. Head(inbox["iop"]) \in AllMessages
  BY <1>2, <1>3, HeadTailProperties
<1>6. cur' = Head(inbox["iop"]) /\ cur' # NoMessage
  BY <1>4, <1>5, MessagesAreMessages DEF BHTake
<1>7. inbox'["ap"] = inbox["ap"] /\ inbox'["iop"] = Tail(inbox["iop"])
  BY <1>1, <1>2, <1>4 DEF MailOK
<1> QED BY <1>3, <1>4, <1>5, <1>6, <1>7 DEF BHTake

LEMMA AnyDriverIOPStep == AnyDriverInv /\ IOPStep => AnyDriverInv'
<1> SUFFICES ASSUME AnyDriverInv, IOPStep PROVE AnyDriverInv'
  OBVIOUS
<1>0. MailOK /\ IOPTypes /\ HandlerTypes /\ HandlerOK /\ DriverTypes'
  BY DEF AnyDriverInv, IOPStep, DriverTypes
<1>1. CASE apple_rtkit_handle_messages_bh
  <2>1. MailOK' /\ IOPTypes'
    BY <1>0, <1>1 DEF apple_rtkit_handle_messages_bh, MailOK, IOPTypes
  <2>2. HandlerTypes' /\ HandlerOK'
    BY <1>0, <1>1 DEF apple_rtkit_handle_messages_bh, HandlerTypes, HandlerOK, MailHandled
  <2> QED BY <1>0, <2>1, <2>2 DEF AnyDriverInv
<1>2. CASE BHTake
  <2>1. IOPTypes' /\ inBH' = inBH /\ inBH
    BY <1>0, <1>2 DEF BHTake, IOPTypes
  <2>2. HandlerTypes' /\ HandlerOK'
    BY <1>0, <1>2, <2>1, TakesHead DEF HandlerTypes, HandlerOK, MailHandled
  <2> QED BY <1>0, <1>2, <2>1, <2>2, TakesHead DEF AnyDriverInv
<1>3. CASE BHHandle
  <2>1. /\ cur \in AllMessages /\ cur' = NoMessage
        /\ inBH /\ inBH' = inBH
        /\ apple_rtkit_mgmt_handle_msg(cur)
    BY <1>0, <1>3 DEF BHHandle, HandlerTypes
  <2>2. HandledWell
    BY <1>0, <2>1, HandleMsgWell DEF HandlerTypes
  <2>3. HandlerTypes' /\ HandlerOK'
    BY <1>0, <2>1, <2>2 DEF HandledWell, HandlerTypes, HandlerOK, MailHandled
  <2> QED BY <1>0, <2>2, <2>3 DEF AnyDriverInv, HandledWell
<1>4. CASE BHDone
  <2>1. MailOK' /\ IOPTypes'
    BY <1>0, <1>4, MailStutter DEF BHDone, IOPTypes
  <2>2. inbox'["iop"] = <<>>
    BY <1>0, <1>4 DEF BHDone, apple_a7iop_mailbox_is_empty, MailOK, mboxVars, Boxes
  <2>3. HandlerTypes' /\ HandlerOK'
    BY <1>0, <1>4, <2>2 DEF BHDone, HandlerTypes, HandlerOK, MailHandled, mboxVars
  <2> QED BY <1>0, <2>1, <2>3 DEF AnyDriverInv
<1> QED BY <1>1, <1>2, <1>3, <1>4 DEF IOPStep

\* A driver's step that sends a message leaves a bottom half to take it.
LEMMA AnyDriverSend ==
    ASSUME AnyDriverInv, UNCHANGED rtkitVars, DriverTypes', NEW type, NEW arg,
           Msg(type, arg) \in AllMessages, SendIOP(type, arg)
    PROVE  AnyDriverInv'
<1>0. MailOK /\ bh \in BOOLEAN
  BY DEF AnyDriverInv, HandlerTypes
<1>1. MailOK' /\ bh' = TRUE
  BY <1>0, SendIOPDelivers
<1>2. IOPTypes'
  BY DEF AnyDriverInv, IOPTypes, rtkitVars
<1>3. HandlerTypes' /\ HandlerOK'
  BY <1>1 DEF AnyDriverInv, HandlerTypes, HandlerOK, MailHandled, rtkitVars
<1> QED BY <1>1, <1>2, <1>3 DEF AnyDriverInv

\* The driver finds mail when its interrupt is high, and takes its head.
LEMMA DriverTakesHead ==
    ASSUME MailOK, <<"ap", "nonempty">> \in irqs["ap"], Recv("ap", "ap")
    PROVE  /\ MailOK'
           /\ inbox["ap"] # <<>>
           /\ inbox'["ap"] = Tail(inbox["ap"])
           /\ inbox'["iop"] = inbox["iop"]
           /\ bh' = bh
           /\ Received("ap", "ap") = Head(inbox["ap"])
           /\ Head(inbox["ap"]) \in AllMessages
<1>1. "iop" \in Boxes /\ "ap" \in Boxes
  BY DEF Boxes
<1>2. inbox["ap"] # <<>> /\ inbox["ap"] \in Seq(AllMessages)
  BY <1>1 DEF MailOK
<1>3. /\ MailOK'
      /\ inbox' = [inbox EXCEPT !["ap"] = Tail(@)]
      /\ bh' = bh
      /\ Received("ap", "ap") = Head(inbox["ap"])
  BY <1>1, <1>2, RecvTakes
<1>4. Head(inbox["ap"]) \in AllMessages
  BY <1>2, HeadTailProperties
<1>5. inbox'["ap"] = Tail(inbox["ap"]) /\ inbox'["iop"] = inbox["iop"]
  BY <1>1, <1>3 DEF MailOK
<1> QED BY <1>2, <1>3, <1>4, <1>5

LEMMA AnyDriverReceive == AnyDriverInv /\ APReceive => AnyDriverInv'
<1> SUFFICES ASSUME AnyDriverInv, APReceive PROVE AnyDriverInv'
  OBVIOUS
<1> DEFINE msg == Received("ap", "ap")
<1>1. MailOK /\ IOPTypes' /\ UNCHANGED rtkitVars
  BY DEF AnyDriverInv, APReceive, IOPTypes, rtkitVars
<1>2. /\ MailOK' /\ inbox'["iop"] = inbox["iop"] /\ bh' = bh
      /\ msg \in AllMessages
  BY <1>1, DriverTakesHead DEF APReceive
<1>3. HandlerTypes' /\ HandlerOK'
  BY <1>1, <1>2 DEF AnyDriverInv, HandlerTypes, HandlerOK, MailHandled, rtkitVars
<1>4. ap' \in {"off", "booting", "up", "sleeping",
               "ack first", "ack second", "ack rollcall", "panicked"}
  BY DEF APReceive, AnyDriverInv, DriverTypes
<1>5. seen' \subseteq 0 .. Blocks
  <2>1. seen' \in {{}, seen} \/ (msg.type = "rollcall" /\ seen' = seen \union {msg.arg})
    BY DEF APReceive
  <2> QED BY <1>2, <2>1, BlocksKnown DEF AnyDriverInv, DriverTypes
<1> QED BY <1>1, <1>2, <1>3, <1>4, <1>5 DEF AnyDriverInv, DriverTypes

LEMMA AnyDriverNext == AnyDriverInv /\ [Next]_vars => AnyDriverInv'
<1> SUFFICES ASSUME AnyDriverInv, [Next]_vars PROVE AnyDriverInv'
  OBVIOUS
<1>0. MailOK /\ IOPTypes /\ HandlerTypes /\ DriverTypes /\ HandlerOK
  BY DEF AnyDriverInv
<1>1. CASE APRun
  <2>1. apple_a7iop_cpu_start /\ UNCHANGED <<inBH, cur, failed>> /\ DriverTypes'
    BY <1>0, <1>1 DEF APRun, DriverTypes
  <2>2. HandledWell
    BY <1>0, <2>1, StartWell DEF HandlerTypes
  <2>3. HandlerTypes' /\ HandlerOK'
    BY <1>0, <2>1, <2>2 DEF HandledWell, HandlerTypes, HandlerOK, MailHandled
  <2> QED BY <2>1, <2>2, <2>3 DEF HandledWell, AnyDriverInv
<1>2. CASE APWake
  <2>1. UNCHANGED rtkitVars /\ DriverTypes' /\ SendIOP("req_power", On)
    BY <1>0, <1>2 DEF APWake, DriverTypes
  <2> QED BY <2>1, AnyDriverSend, Known
<1>3. CASE APSleep
  <2>1. UNCHANGED rtkitVars /\ DriverTypes' /\ SendIOP("req_power", Sleep)
    BY <1>0, <1>3 DEF APSleep, DriverTypes
  <2> QED BY <2>1, AnyDriverSend, Known
<1>4. CASE APPing
  <2>1. UNCHANGED rtkitVars /\ DriverTypes' /\ SendIOP("ping", 0)
    BY <1>0, <1>4 DEF APPing, DriverTypes
  <2> QED BY <2>1, AnyDriverSend, Known
<1>5. CASE APAnswer
  <2>1. UNCHANGED rtkitVars /\ DriverTypes'
    BY <1>0, <1>5 DEF APAnswer, DriverTypes
  <2>2. \/ \E v \in Replies \union {RTKIT_MAX_VERSION_PRE_IOS14} : SendIOP("hello_ack", v)
        \/ SendIOP("rollcall_ack", 0)
    BY <1>5 DEF APAnswer
  <2> QED BY <2>1, <2>2, AnyDriverSend, Known
<1>6. CASE Reset
  <2>1. MailOK' /\ inbox' = [d \in Boxes |-> <<>>] /\ bh' = bh
    BY <1>0, <1>6, ResetEmpties DEF Reset
  <2>2. IOPTypes' /\ DriverTypes'
    <3>1. <<>> \in Seq(1 .. Blocks)
      OBVIOUS
    <3> QED BY <1>0, <1>6, <3>1 DEF Reset, IOPTypes, DriverTypes
  <2>3. HandlerTypes' /\ HandlerOK'
    BY <1>0, <1>6, <2>1 DEF Reset, HandlerTypes, HandlerOK, MailHandled, Boxes
  <2> QED BY <2>1, <2>2, <2>3 DEF AnyDriverInv
<1>7. CASE APPanic \/ UNCHANGED vars
  <2>1. UNCHANGED rtkitVars /\ UNCHANGED <<inbox, bh>> /\ UNCHANGED mboxVars
    BY <1>7 DEF APPanic, vars, mboxVars
  <2>2. MailOK'
    BY <1>0, <2>1 DEF mboxVars, MailOK
  <2>5. UNCHANGED <<ep0, rollcall, idle, inBH, cur, failed, boots, inbox, bh>>
    BY <1>7, <2>1 DEF vars, rtkitVars
  <2>7. seen' = seen /\ ap' \in {ap, "panicked"}
    BY <1>7 DEF APPanic, vars
  <2>3. IOPTypes' /\ DriverTypes'
    BY <1>0, <2>5, <2>7 DEF IOPTypes, DriverTypes
  <2>6. HandlerTypes'
    BY <1>0, <2>5 DEF HandlerTypes
  <2>4. HandlerOK'
    BY <1>0, <2>5, ZenonT(30) DEF HandlerOK, MailHandled
  <2> QED BY <2>2, <2>3, <2>6, <2>4 DEF AnyDriverInv
<1> QED BY <1>1, <1>2, <1>3, <1>4, <1>5, <1>6, <1>7, AnyDriverIOPStep,
           AnyDriverReceive DEF Next

LEMMA AnyDriver == Spec => []AnyDriverInv
BY AnyDriverInit, AnyDriverNext, PTL DEF Spec

\* The state of the management endpoint, its mailboxes and its driver is well
\* typed, whenever the driver asks for sleep.
THEOREM TypeCorrect == Spec => []TypeOK
<1>1. AnyDriverInv => TypeOK
  BY DEF AnyDriverInv, MailOK, IOPTypes, HandlerTypes, DriverTypes, TypeOK
<1> QED BY <1>1, AnyDriver, PTL

\* Mail for the IOP never waits without apple_rtkit_handle_messages_bh running or
\* scheduled: the wakeup is not lost between its last test and the next send, nor
\* in a reset, whatever the driver does.
THEOREM NoMailForgotten == Spec => []MailHandled
<1>1. AnyDriverInv => MailHandled
  BY DEF AnyDriverInv, HandlerOK
<1> QED BY <1>1, AnyDriver, PTL

-----------------------------------------------------------------------------
(* A patient driver: where the message of the handshake is.                *)

LEMMA QueueGrows ==
    ASSUME NEW q \in Seq(AllMessages), NEW x \in AllMessages
    PROVE  /\ Quiet(q) /\ Noise(x) => Quiet(Append(q, x))
           /\ \A m : Carries(q, m) /\ Noise(x) => Carries(Append(q, x), m)
           /\ Quiet(q) => Carries(Append(q, x), x)
<1> DEFINE r == Append(q, x)
<1>1. /\ Len(q) \in Nat
      /\ Len(r) = Len(q) + 1
      /\ r[Len(q) + 1] = x
      /\ \A i \in 1 .. Len(q) : r[i] = q[i]
  OBVIOUS
<1> HIDE DEF r
<1>2. \A i \in 1 .. Len(r) : i = Len(q) + 1 \/ i \in 1 .. Len(q)
  BY <1>1
<1>3. 1 .. Len(q) \subseteq 1 .. Len(r) /\ Len(q) + 1 \in 1 .. Len(r)
  BY <1>1
<1>4. Quiet(q) /\ Noise(x) => Quiet(r)
  BY <1>1, <1>2 DEF Quiet
<1>5. ASSUME NEW m, Carries(q, m), Noise(x) PROVE Carries(r, m)
  <2>1. PICK i \in 1 .. Len(q) : q[i] = m /\ \A j \in 1 .. Len(q) : j # i => Noise(q[j])
    BY <1>5 DEF Carries
  <2>2. r[i] = m /\ \A j \in 1 .. Len(r) : j # i => Noise(r[j])
    BY <1>1, <1>2, <1>5, <2>1
  <2> QED BY <1>3, <2>2 DEF Carries
<1>6. ASSUME Quiet(q) PROVE Carries(r, x)
  <2>1. \A j \in 1 .. Len(r) : j # Len(q) + 1 => Noise(r[j])
    BY <1>1, <1>2, <1>6 DEF Quiet
  <2> QED BY <1>1, <1>3, <2>1 DEF Carries
<1> QED BY <1>4, <1>5, <1>6 DEF r

LEMMA QueueShrinks ==
    ASSUME NEW q \in Seq(AllMessages), q # <<>>
    PROVE  /\ Quiet(q) => Noise(Head(q)) /\ Quiet(Tail(q))
           /\ \A m : Carries(q, m) =>
                 \/ Head(q) = m /\ Quiet(Tail(q))
                 \/ Noise(Head(q)) /\ Carries(Tail(q), m)
<1> DEFINE r == Tail(q)
<1>1. /\ Len(q) \in Nat /\ Len(q) > 0
      /\ Head(q) = q[1]
  OBVIOUS
<1>2. Len(r) = Len(q) - 1 /\ \A i \in 1 .. Len(r) : r[i] = q[i + 1]
  BY HeadTailProperties
<1> HIDE DEF r
<1>3. 1 \in 1 .. Len(q) /\ \A i \in 1 .. Len(r) : i + 1 \in 1 .. Len(q) /\ i + 1 # 1
  BY <1>1, <1>2
<1>4. Quiet(q) => Noise(Head(q)) /\ Quiet(r)
  BY <1>1, <1>2, <1>3 DEF Quiet
<1>5. ASSUME NEW m, Carries(q, m)
      PROVE  \/ Head(q) = m /\ Quiet(r)
             \/ Noise(Head(q)) /\ Carries(r, m)
  <2>1. PICK i \in 1 .. Len(q) : q[i] = m /\ \A j \in 1 .. Len(q) : j # i => Noise(q[j])
    BY <1>5 DEF Carries
  <2>2. CASE i = 1
    BY <1>1, <1>2, <1>3, <2>1, <2>2 DEF Quiet
  <2>3. CASE i # 1
    <3>1. i - 1 \in 1 .. Len(r) /\ i = (i - 1) + 1
      BY <1>1, <1>2, <2>3
    <3>2. r[i - 1] = m
      BY <1>2, <2>1, <3>1
    <3>3. \A j \in 1 .. Len(r) : j # i - 1 => j + 1 # i
      BY <1>1, <1>2
    <3>4. \A j \in 1 .. Len(r) : j # i - 1 => Noise(r[j])
      BY <1>2, <1>3, <2>1, <3>3
    <3> QED BY <1>1, <1>3, <2>1, <2>3, <3>1, <3>2, <3>4 DEF Carries
  <2> QED BY <2>2, <2>3
<1> QED BY <1>4, <1>5 DEF r

\* The messages of the handshake.
Tokens == {msg \in AllMessages : ~Noise(msg)}

LEMMA KnownTokens ==
    /\ \A v \in {RTKIT_MAX_VERSION_PRE_IOS14, RTKIT_MAX_VERSION} :
          Msg("hello", v) \in Tokens
    /\ \A v \in Replies \union {RTKIT_MAX_VERSION_PRE_IOS14} :
          Msg("hello_ack", v) \in Tokens
    /\ \A b \in 0 .. Blocks : Msg("rollcall", b) \in Tokens
    /\ Msg("rollcall_ack", 0) \in Tokens
    /\ \A p \in {Sleep, On} : Msg("req_power", p) \in Tokens
    /\ \A p \in {Sleep, UpState} : Msg("power_ack", p) \in Tokens
BY Known DEF Tokens, Noise, Msg

\* A step that moves no message of the handshake from one side to the other.
KeepsTokens ==
    /\ Silent => Silent'
    /\ \A m \in Tokens : ToIOP(m) => ToIOP(m)'
    /\ \A m \in Tokens : ToAP(m) => ToAP(m)'

LEMMA KeepsPhase ==
    ASSUME HandshakeInv, KeepsTokens,
           UNCHANGED <<ep0, rollcall, idle, failed, boots, ap, seen>>
    PROVE  HandshakeInv'
<1>1. CASE Off
  <2>1. Off'
    BY <1>1 DEF Off, KeepsTokens
  <2> QED BY <2>1 DEF HandshakeInv
<1>2. CASE Waking
  <2>1. Waking'
    BY <1>2, KnownTokens DEF Waking, KeepsTokens
  <2> QED BY <2>1 DEF HandshakeInv
<1>3. CASE Greeting
  <2>1. WaitsForVersion'
    BY <1>3 DEF Greeting, WaitsForVersion
  <2>2. Greeting'
    BY <1>3, <2>1, KnownTokens DEF Greeting, KeepsTokens
  <2> QED BY <2>2 DEF HandshakeInv
<1>4. CASE Announcing
  <2>1. \A t : Announced(t) => Announced(t)'
    BY DEF Announced
  <2>2. Announcing'
    BY <1>4, <2>1, KnownTokens DEF Announcing, KeepsTokens
  <2> QED BY <2>2 DEF HandshakeInv
<1>5. CASE Started
  <2>1. Started'
    BY <1>5, KnownTokens DEF Started, KeepsTokens
  <2> QED BY <2>1 DEF HandshakeInv
<1>6. CASE Sleeping
  <2>1. Sleeping'
    BY <1>6, KnownTokens DEF Sleeping, KeepsTokens
  <2> QED BY <2>1 DEF HandshakeInv
<1> QED BY <1>1, <1>2, <1>3, <1>4, <1>5, <1>6 DEF HandshakeInv

\* Taking a message from the inbox leaves it on its way to the IOP.
LEMMA TakeKeeps ==
    ASSUME AnyDriverInv, BHTake
    PROVE  KeepsTokens
<1>1. cur = NoMessage /\ inbox["iop"] \in Seq(AllMessages)
  BY DEF BHTake, AnyDriverInv, MailOK, Boxes
<1>2. /\ inbox["iop"] # <<>>
      /\ inbox'["ap"] = inbox["ap"]
      /\ inbox'["iop"] = Tail(inbox["iop"])
      /\ cur' = Head(inbox["iop"])
  BY TakesHead
<1>3. Quiet(inbox["iop"]) => Noise(cur') /\ Quiet(inbox'["iop"])
  BY <1>1, <1>2, QueueShrinks, SMTT(20)
<1>4. \A m \in Tokens : Carries(inbox["iop"], m) =>
          \/ cur' = m /\ Quiet(inbox'["iop"])
          \/ Noise(cur') /\ Carries(inbox'["iop"], m)
  BY <1>1, <1>2, QueueShrinks
<1>5. \A m \in Tokens : cur # m
  BY <1>1, MessagesAreMessages DEF Tokens
<1>6. Silent => Silent'
  BY <1>2, <1>3, SMTT(20) DEF Silent, CurQuiet
<1>7. \A m \in Tokens : ToIOP(m) => ToIOP(m)'
  BY <1>2, <1>4, <1>5 DEF ToIOP, CurQuiet
<1>8. \A m \in Tokens : ToAP(m) => ToAP(m)'
  BY <1>2, <1>3, SMTT(20) DEF ToAP, CurQuiet
<1> QED BY <1>6, <1>7, <1>8 DEF KeepsTokens

\* A ping, and its answer, travel beside the message of the handshake.
LEMMA PingKeeps ==
    ASSUME MailOK, bh \in BOOLEAN, SendIOP("ping", 0), UNCHANGED cur
    PROVE  KeepsTokens
<1> DEFINE ping == Msg("ping", 0)
<1>1. inbox["iop"] \in Seq(AllMessages) /\ ping \in AllMessages /\ Noise(ping)
  BY Known DEF MailOK, Boxes, Noise, Msg
<1>2. inbox'["ap"] = inbox["ap"] /\ inbox'["iop"] = Append(inbox["iop"], ping)
  BY Known, SendIOPDelivers
<1> HIDE DEF ping
<1>3. /\ Quiet(inbox["iop"]) => Quiet(inbox'["iop"])
      /\ \A m : Carries(inbox["iop"], m) => Carries(inbox'["iop"], m)
  BY <1>1, <1>2, QueueGrows
<1> QED BY <1>2, <1>3 DEF KeepsTokens, Silent, ToIOP, ToAP, CurQuiet

LEMMA AnswerPingKeeps ==
    ASSUME MailOK, bh \in BOOLEAN, SendAP("ping_ack", 0), Noise(cur), cur' = NoMessage
    PROVE  KeepsTokens
<1> DEFINE ack == Msg("ping_ack", 0)
<1>1. inbox["ap"] \in Seq(AllMessages) /\ ack \in AllMessages /\ Noise(ack)
  BY Known DEF MailOK, Boxes, Noise, Msg
<1>2. inbox'["iop"] = inbox["iop"] /\ inbox'["ap"] = Append(inbox["ap"], ack)
  BY Known, SendAPDelivers
<1> HIDE DEF ack
<1>3. /\ Quiet(inbox["ap"]) => Quiet(inbox'["ap"])
      /\ \A m : Carries(inbox["ap"], m) => Carries(inbox'["ap"], m)
  BY <1>1, <1>2, QueueGrows
<1>4. \A m \in Tokens : cur # m
  BY SMTT(20) DEF Tokens
<1> QED BY <1>2, <1>3, <1>4 DEF KeepsTokens, Silent, ToIOP, ToAP, CurQuiet

\* What the IOP sends in answer to a message of the handshake is the only one.
LEMMA AnswerIsToken ==
    ASSUME MailOK, bh \in BOOLEAN, Quiet(inbox["iop"]), Quiet(inbox["ap"]),
           cur' = NoMessage, NEW type, NEW arg, Msg(type, arg) \in AllMessages,
           SendAP(type, arg)
    PROVE  ToAP(Msg(type, arg))'
<1>1. inbox["ap"] \in Seq(AllMessages)
  BY DEF MailOK, Boxes
<1>2. inbox'["iop"] = inbox["iop"] /\ inbox'["ap"] = Append(inbox["ap"], Msg(type, arg))
  BY SendAPDelivers
<1>3. Carries(inbox'["ap"], Msg(type, arg))
  BY <1>1, <1>2, QueueGrows, SMTT(20)
<1> QED BY <1>2, <1>3 DEF ToAP, CurQuiet

LEMMA RequestIsToken ==
    ASSUME MailOK, bh \in BOOLEAN, Silent, UNCHANGED cur,
           NEW type, NEW arg, Msg(type, arg) \in AllMessages,
           SendIOP(type, arg)
    PROVE  ToIOP(Msg(type, arg))'
<1>1. inbox["iop"] \in Seq(AllMessages)
  BY DEF MailOK, Boxes
<1>2. inbox'["ap"] = inbox["ap"] /\ inbox'["iop"] = Append(inbox["iop"], Msg(type, arg))
  BY SendIOPDelivers
<1>3. Carries(inbox'["iop"], Msg(type, arg))
  BY <1>1, <1>2, QueueGrows DEF Silent
<1> QED BY <1>2, <1>3 DEF ToIOP, CurQuiet, Silent

\* The bottom half handles a message of the handshake: the answer is on its way.
LEMMA HandleHandshake ==
    ASSUME AnyDriverInv, HandshakeInv, BHHandle, ~Noise(cur), UNCHANGED <<ap, seen>>
    PROVE  HandshakeInv'
<1>0. /\ MailOK /\ bh \in BOOLEAN /\ rollcall \in Seq(1 .. Blocks)
      /\ cur # NoMessage /\ ~CurQuiet /\ cur' = NoMessage
      /\ apple_rtkit_mgmt_handle_msg(cur)
      /\ failed = "none"
  BY DEF AnyDriverInv, HandlerTypes, IOPTypes, BHHandle, CurQuiet, HandshakeInv
<1>1. ~Silent /\ \A m : ~ToAP(m)
  BY <1>0 DEF Silent, ToAP
<1>2. \A m : ToIOP(m) => cur = m /\ Quiet(inbox["iop"]) /\ Quiet(inbox["ap"])
  BY <1>0 DEF ToIOP
<1>3. CASE Waking
  <2>1. cur = Msg("req_power", On) /\ Quiet(inbox["iop"]) /\ Quiet(inbox["ap"])
    BY <1>2, <1>3 DEF Waking
  <2>2. HandleReqPower(On)
    BY <1>0, <2>1 DEF apple_rtkit_mgmt_handle_msg, Msg
  <2>3. apple_a7iop_cpu_start /\ UNCHANGED failed
    BY <2>2 DEF HandleReqPower, On, Sleep
  <2>4. /\ SendAP("hello", RTKIT_MAX_VERSION) /\ idle' = FALSE
        /\ ep0' = "WAIT_HELLO" /\ boots' = 0 /\ UNCHANGED rollcall
    BY <1>3, <2>3 DEF apple_a7iop_cpu_start, apple_rtkit_mgmt_send_hello, Waking
  <2>5. ToAP(Msg("hello", RTKIT_MAX_VERSION))'
    BY <1>0, <2>1, <2>4, AnswerIsToken, Known
  <2>6. Greeting'
    BY <1>3, <2>4, <2>5 DEF Greeting, WaitsForVersion, Waking
  <2> QED BY <1>0, <2>3, <2>6 DEF HandshakeInv
<1>4. CASE Greeting
  <2>1. PICK v \in Replies \union {RTKIT_MAX_VERSION_PRE_IOS14} :
            ToIOP(Msg("hello_ack", v)) /\ ap = "booting" /\ seen = {}
    BY <1>1, <1>4 DEF Greeting
  <2>2. cur = Msg("hello_ack", v) /\ Quiet(inbox["iop"]) /\ Quiet(inbox["ap"])
    BY <1>2, <2>1
  <2>3. WaitsForVersion
    BY <1>4 DEF Greeting
  <2>4. HandleHelloAck(v)
    BY <1>0, <2>2 DEF apple_rtkit_mgmt_handle_msg, Msg
  <2>5. CASE SendAP("hello", RTKIT_MAX_VERSION_PRE_IOS14)
               /\ UNCHANGED <<ep0, rollcall, idle, boots, failed>>
    <3>1. ToAP(Msg("hello", RTKIT_MAX_VERSION_PRE_IOS14))'
      BY <1>0, <2>2, <2>5, AnswerIsToken, Known
    <3>2. Greeting'
      BY <2>1, <2>3, <2>5, <3>1 DEF Greeting, WaitsForVersion
    <3> QED BY <1>0, <2>5, <3>2 DEF HandshakeInv
  <2>6. CASE apple_rtkit_mgmt_rollcall_v10
    <3>1. /\ SendAP("rollcall", 0) /\ ep0' = "WAIT_ROLLCALL"
          /\ UNCHANGED <<rollcall, idle, boots, failed>>
      BY <2>6 DEF apple_rtkit_mgmt_rollcall_v10
    <3>2. 0 \in 0 .. Blocks
      BY BlocksAssumption
    <3>3. ToAP(Msg("rollcall", 0))'
      BY <1>0, <2>2, <3>1, <3>2, AnswerIsToken, Known
    <3>4. Announced(seen \union {0})'
      BY <2>1, <2>3, <3>1 DEF Announced, WaitsForVersion
    <3>5. Announcing'
      BY <2>1, <2>3, <3>1, <3>2, <3>3, <3>4 DEF Announcing, WaitsForVersion
    <3> QED BY <1>0, <3>1, <3>5 DEF HandshakeInv
  <2>7. CASE apple_rtkit_mgmt_rollcall_v11
    <3>1. /\ rollcall' = [k \in 1 .. Blocks - 1 |-> k + 1]
          /\ SendAP("rollcall", 1)
          /\ ep0' = "WAIT_ROLLCALL"
          /\ UNCHANGED <<idle, boots, failed>>
      BY <2>3, <2>7 DEF apple_rtkit_mgmt_rollcall_v11, WaitsForVersion
    <3>2. 1 \in 0 .. Blocks /\ 1 \in 1 .. Blocks
      BY BlocksAssumption
    <3>3. ToAP(Msg("rollcall", 1))'
      BY <1>0, <2>2, <3>1, <3>2, AnswerIsToken, Known
    <3>4. Announced(seen \union {1})'
      <4>1. Len(rollcall') = Blocks - 1
        BY <3>1, BlocksAssumption
      <4>2. ASSUME NEW n \in 1 .. Blocks, n # 1
            PROVE  \E i \in 1 .. Len(rollcall') : rollcall'[i] = n
        <5>1. n - 1 \in 1 .. Blocks - 1 /\ (n - 1) + 1 = n
          BY <4>2, BlocksAssumption
        <5> QED BY <3>1, <4>1, <5>1
      <4>3. \A n \in 1 .. Blocks :
              n \in (seen \union {1})' \/ \E i \in 1 .. Len(rollcall') : rollcall'[i] = n
        BY <4>2
      <4> QED BY <2>1, <3>2, <4>3 DEF Announced
    <3>5. Announcing'
      BY <2>1, <2>3, <3>1, <3>2, <3>3, <3>4 DEF Announcing, WaitsForVersion
    <3> QED BY <1>0, <3>1, <3>5 DEF HandshakeInv
  <2> QED BY <2>3, <2>4, <2>5, <2>6, <2>7 DEF HandleHelloAck, WaitsForVersion
<1>5. CASE Announcing
  <2>1. /\ ToIOP(Msg("rollcall_ack", 0)) /\ ap = "booting" /\ Announced(seen)
        /\ ~idle /\ ep0 = "WAIT_ROLLCALL" /\ boots = 0
    BY <1>1, <1>5 DEF Announcing
  <2>2. cur = Msg("rollcall_ack", 0) /\ Quiet(inbox["iop"]) /\ Quiet(inbox["ap"])
    BY <1>2, <2>1
  <2>3. HandleRollcallAck
    BY <1>0, <2>2 DEF apple_rtkit_mgmt_handle_msg, Msg
  <2>4. CASE rollcall = <<>>
    <3>1. /\ ep0' = "IDLE" /\ SendAP("power_ack", UpState) /\ boots' = 1
          /\ UNCHANGED <<rollcall, idle, failed>>
      BY <2>1, <2>3, <2>4 DEF HandleRollcallAck
    <3>2. ToAP(Msg("power_ack", UpState))'
      BY <1>0, <2>2, <3>1, AnswerIsToken, Known
    <3>3. seen \in {{0}, 1 .. Blocks}
      <4>1. \A i \in 1 .. Len(rollcall) : FALSE
        BY <2>4
      <4> QED BY <2>1, <4>1 DEF Announced
    <3>4. Started'
      BY <2>1, <2>4, <3>1, <3>2, <3>3 DEF Started
    <3> QED BY <1>0, <3>1, <3>4 DEF HandshakeInv
  <2>5. CASE rollcall # <<>>
    <3>1. PICK b : b = Head(rollcall)
      OBVIOUS
    <3>2. /\ SendAP("rollcall", b) /\ rollcall' = Tail(rollcall)
          /\ UNCHANGED <<ep0, boots, idle, failed>>
      BY <2>1, <2>3, <2>5, <3>1 DEF HandleRollcallAck
    <3>3. b \in 1 .. Blocks /\ b = rollcall[1]
      <4>1. b \in 1 .. Blocks
        BY <1>0, <2>5, <3>1, HeadTailProperties
      <4> QED BY <1>0, <2>5, <3>1, <4>1
    <3>4. b \in 0 .. Blocks
      BY <3>3, BlocksAssumption
    <3>5. ToAP(Msg("rollcall", b))'
      BY <1>0, <2>2, <3>2, <3>4, AnswerIsToken, Known
    <3>6. Announced(seen \union {b})'
      <4>1. /\ Len(rollcall') = Len(rollcall) - 1 /\ Len(rollcall) \in Nat
            /\ \A i \in 1 .. Len(rollcall') : rollcall'[i] = rollcall[i + 1]
        BY <1>0, <2>5, <3>2, HeadTailProperties
      <4>2. ASSUME NEW n \in 1 .. Blocks, n \notin seen, n # b
            PROVE  \E i \in 1 .. Len(rollcall') : rollcall'[i] = n
        <5>1. PICK i \in 1 .. Len(rollcall) : rollcall[i] = n
          BY <2>1, <2>5, <4>2 DEF Announced
        <5>2. i - 1 \in 1 .. Len(rollcall') /\ (i - 1) + 1 = i
          BY <3>3, <4>1, <4>2, <5>1
        <5> QED BY <4>1, <5>1, <5>2
      <4>3. seen' = seen /\ seen \subseteq 1 .. Blocks
        BY <2>1, <2>5 DEF Announced
      <4>4. (seen \union {b})' \subseteq 1 .. Blocks
        BY <3>3, <4>3
      <4>5. \A n \in 1 .. Blocks :
              n \in (seen \union {b})' \/ \E i \in 1 .. Len(rollcall') : rollcall'[i] = n
        BY <4>2, <4>3
      <4> QED BY <4>4, <4>5 DEF Announced
    <3>7. Announcing'
      BY <2>1, <3>2, <3>4, <3>5, <3>6 DEF Announcing
    <3> QED BY <1>0, <3>2, <3>7 DEF HandshakeInv
  <2> QED BY <2>4, <2>5
<1>6. CASE Started
  <2>1. ToIOP(Msg("req_power", Sleep)) /\ ap = "sleeping" /\ rollcall = <<>>
    BY <1>1, <1>6 DEF Started
  <2>2. cur = Msg("req_power", Sleep) /\ Quiet(inbox["iop"]) /\ Quiet(inbox["ap"])
    BY <1>2, <2>1
  <2>3. HandleReqPower(Sleep)
    BY <1>0, <2>2 DEF apple_rtkit_mgmt_handle_msg, Msg
  <2>4. /\ idle' = TRUE /\ SendAP("power_ack", Sleep)
        /\ UNCHANGED <<ep0, rollcall, boots, failed>>
    BY <2>3 DEF HandleReqPower, On, Sleep
  <2>5. ToAP(Msg("power_ack", Sleep))'
    BY <1>0, <2>2, <2>4, AnswerIsToken, Known
  <2>6. Sleeping'
    BY <2>1, <2>4, <2>5 DEF Sleeping
  <2> QED BY <1>0, <2>4, <2>6 DEF HandshakeInv
<1>7. ~Off /\ ~Sleeping
  BY <1>1 DEF Off, Sleeping
<1> QED BY <1>3, <1>4, <1>5, <1>6, <1>7 DEF HandshakeInv

\* The driver takes a ping's answer, which changes nothing, or the message of the
\* handshake, which then is nobody's until the driver answers it.
LEMMA ReceiveHandshake ==
    ASSUME AnyDriverInv, HandshakeInv, APReceive
    PROVE  HandshakeInv'
<1>0. /\ MailOK /\ failed = "none"
      /\ UNCHANGED <<ep0, rollcall, idle, failed, boots, cur>>
      /\ inbox["ap"] \in Seq(AllMessages)
  BY DEF AnyDriverInv, HandshakeInv, APReceive, rtkitVars, MailOK, Boxes
<1>1. PICK msg : msg = Received("ap", "ap")
  OBVIOUS
<1>2. /\ inbox["ap"] # <<>>
      /\ inbox'["ap"] = Tail(inbox["ap"])
      /\ inbox'["iop"] = inbox["iop"]
      /\ msg = Head(inbox["ap"])
  BY <1>0, <1>1, DriverTakesHead DEF APReceive
<1>3. /\ ap' = CASE msg.type = "power_ack" /\ msg.arg = UpState
                        /\ ap = "booting" -> "up"
                   [] msg.type = "power_ack" /\ msg.arg = Sleep -> "off"
                   [] msg.type = "hello" /\ ap = "booting" ->
                        IF msg.arg = RTKIT_MAX_VERSION
                        THEN "ack first" ELSE "ack second"
                   [] msg.type = "rollcall" /\ ap = "booting" -> "ack rollcall"
                   [] OTHER -> ap
      /\ seen' = CASE msg.type = "hello" -> {}
                     [] msg.type = "rollcall" -> seen \union {msg.arg}
                     [] OTHER -> seen
  BY <1>1 DEF APReceive
<1>4. Quiet(inbox["ap"]) => Noise(msg) /\ Quiet(inbox'["ap"])
  BY <1>0, <1>2, QueueShrinks, SMTT(20)
<1>5. \A m : Carries(inbox["ap"], m) => \/ msg = m /\ Quiet(inbox'["ap"])
                                        \/ Noise(msg) /\ Carries(inbox'["ap"], m)
  BY <1>0, <1>2, QueueShrinks
<1>6. CASE Noise(msg)
  <2>1. UNCHANGED <<ap, seen>>
    BY <1>3, <1>6 DEF Noise
  <2>2. \A m \in Tokens : msg # m
    BY <1>6, SMTT(20) DEF Tokens
  <2>3. KeepsTokens
    BY <1>0, <1>2, <1>4, <1>5, <2>2 DEF KeepsTokens, Silent, ToIOP, ToAP, CurQuiet
  <2> QED BY <1>0, <2>1, <2>3, KeepsPhase
<1>7. CASE ~Noise(msg)
  <2>1. ~Silent /\ \A m : ~ToIOP(m)
    BY <1>4, <1>7, SMTT(20) DEF Silent, ToIOP
  <2>2. \A m : ToAP(m) => msg = m /\ Silent'
    BY <1>0, <1>2, <1>5, <1>7 DEF ToAP, Silent, CurQuiet
  <2>3. CASE Greeting
    <3>1. /\ ap = "booting" /\ Silent' /\ WaitsForVersion
          /\ \E v \in {RTKIT_MAX_VERSION_PRE_IOS14, RTKIT_MAX_VERSION} :
                msg = Msg("hello", v)
      BY <2>1, <2>2, <2>3 DEF Greeting
    <3>2. msg.type = "hello"
      BY <3>1 DEF Msg
    <3>3. ap' \in {"ack first", "ack second"} /\ seen' = {}
      BY <1>3, <3>1, <3>2
    <3>4. Greeting'
      BY <1>0, <3>1, <3>3 DEF Greeting, WaitsForVersion
    <3> QED BY <1>0, <3>4 DEF HandshakeInv
  <2>4. CASE Announcing
    <3>1. PICK b \in 0 .. Blocks :
            /\ msg = Msg("rollcall", b) /\ Announced(seen \union {b})
            /\ ap = "booting" /\ Silent'
      BY <2>1, <2>2, <2>4 DEF Announcing
    <3>2. ap' = "ack rollcall" /\ seen' = seen \union {b}
      BY <1>3, <3>1 DEF Msg
    <3>3. Announced(seen)'
      BY <1>0, <3>1, <3>2 DEF Announced
    <3>4. Announcing'
      BY <1>0, <2>4, <3>1, <3>2, <3>3 DEF Announcing
    <3> QED BY <1>0, <3>4 DEF HandshakeInv
  <2>5. CASE Started
    <3>1. msg = Msg("power_ack", UpState) /\ ap = "booting" /\ Silent'
      BY <2>1, <2>2, <2>5 DEF Started
    <3>2. msg.type = "power_ack" /\ msg.arg = UpState /\ msg.arg # Sleep
      BY <3>1 DEF Msg, UpState, Sleep
    <3>3. ap' = "up"
      BY <1>3, <3>1, <3>2
    <3>4. seen' = seen
      BY <1>3, <3>2
    <3>5. Started'
      BY <1>0, <2>5, <3>1, <3>3, <3>4 DEF Started
    <3> QED BY <1>0, <3>5 DEF HandshakeInv
  <2>6. CASE Sleeping
    <3>1. msg = Msg("power_ack", Sleep) /\ Silent'
      BY <2>2, <2>6 DEF Sleeping
    <3>2. ap' = "off"
      BY <1>3, <3>1 DEF Msg, Sleep, UpState
    <3>3. Off'
      BY <1>0, <2>6, <3>1, <3>2 DEF Off, Sleeping
    <3> QED BY <1>0, <3>3 DEF HandshakeInv
  <2>7. ~Off /\ ~Waking
    BY <2>1, SMTT(20) DEF Off, Waking
  <2> QED BY <2>3, <2>4, <2>5, <2>6, <2>7 DEF HandshakeInv
<1> QED BY <1>6, <1>7

\* The phase tells the driver's state.
LEMMA PhaseOfDriver ==
    ASSUME HandshakeInv
    PROVE  /\ ap = "off" => Off
           /\ ap \in {"ack first", "ack second"} =>
                 WaitsForVersion /\ seen = {} /\ Silent
           /\ ap = "ack rollcall" => Announcing /\ Announced(seen) /\ Silent
           /\ ap = "up" => Started /\ Silent
BY DEF HandshakeInv, Off, Waking, Greeting, Announcing, Started, Sleeping

LEMMA HandshakeInit == Init => HandshakeInv
<1> SUFFICES ASSUME Init PROVE HandshakeInv
  OBVIOUS
<1>1. Silent
  BY DEF Init, MboxInit, Silent, CurQuiet, Quiet, Boxes
<1> QED BY <1>1 DEF Init, HandshakeInv, Off

LEMMA HandshakeNext ==
    ASSUME ~Hasty, AnyDriverInv, HandshakeInv, [Next]_vars
    PROVE  HandshakeInv'
<1>0. MailOK /\ bh \in BOOLEAN /\ failed = "none"
  BY DEF AnyDriverInv, HandlerTypes, HandshakeInv
<1>1. CASE IOPStep /\ (apple_rtkit_handle_messages_bh \/ BHDone)
  <2>1. UNCHANGED <<ep0, rollcall, idle, failed, boots, ap, seen, inbox, cur>>
    BY <1>1 DEF IOPStep, apple_rtkit_handle_messages_bh, BHDone, mboxVars
  <2>2. KeepsTokens
    BY <2>1 DEF KeepsTokens, Silent, ToIOP, ToAP, CurQuiet
  <2> QED BY <2>1, <2>2, KeepsPhase, SMTT(20)
<1>2. CASE IOPStep /\ BHTake
  <2>1. UNCHANGED <<ep0, rollcall, idle, boots, ap, seen>>
    BY <1>2 DEF IOPStep, BHTake
  <2>2. UNCHANGED failed /\ KeepsTokens
    BY <1>2, TakesHead, TakeKeeps
  <2> QED BY <2>1, <2>2, KeepsPhase, SMTT(20)
<1>3. CASE IOPStep /\ BHHandle
  <2>1. UNCHANGED <<ap, seen>>
    BY <1>3 DEF IOPStep
  <2>2. CASE Noise(cur)
    <3>1. HandlePing /\ cur' = NoMessage
      BY <1>3, <2>2 DEF BHHandle, apple_rtkit_mgmt_handle_msg, Noise
    <3>2. SendAP("ping_ack", 0) /\ UNCHANGED <<ep0, rollcall, idle, boots, failed>>
      BY <3>1 DEF HandlePing
    <3>3. KeepsTokens
      BY <1>0, <2>2, <3>1, <3>2, AnswerPingKeeps
    <3> QED BY <2>1, <3>2, <3>3, KeepsPhase
  <2>3. CASE ~Noise(cur)
    BY <1>3, <2>1, <2>3, HandleHandshake
  <2> QED BY <2>2, <2>3
<1>4. CASE APRun
  <2>1. Off /\ apple_a7iop_cpu_start /\ UNCHANGED <<cur, failed, seen>> /\ ap' = "booting"
    BY <1>4, PhaseOfDriver DEF APRun
  <2>2. /\ SendAP("hello", RTKIT_MAX_VERSION) /\ idle' = FALSE
        /\ ep0' = "WAIT_HELLO" /\ boots' = 0 /\ UNCHANGED rollcall
    BY <2>1 DEF apple_a7iop_cpu_start, apple_rtkit_mgmt_send_hello, Off
  <2>3. cur' = NoMessage /\ Quiet(inbox["iop"]) /\ Quiet(inbox["ap"])
    BY <1>4, <2>1 DEF APRun, Free, AnyDriverInv, HandlerOK, Off, Silent
  <2>4. ToAP(Msg("hello", RTKIT_MAX_VERSION))'
    BY <1>0, <2>2, <2>3, AnswerIsToken, Known
  <2>5. Greeting'
    BY <2>1, <2>2, <2>4 DEF Greeting, WaitsForVersion, Off
  <2> QED BY <1>0, <2>1, <2>5 DEF HandshakeInv
<1>5. CASE APWake
  <2>1. /\ Off /\ Silent /\ SendIOP("req_power", On) /\ ap' = "booting"
        /\ UNCHANGED <<idle, rollcall, failed, cur>>
    BY <1>5, PhaseOfDriver, SMTT(20) DEF APWake, rtkitVars, Off
  <2>2. ToIOP(Msg("req_power", On))'
    BY <1>0, <2>1, RequestIsToken, Known
  <2>3. Waking'
    BY <2>1, <2>2 DEF Waking, Off
  <2> QED BY <1>0, <2>1, <2>3 DEF HandshakeInv
<1>6. CASE APSleep
  <2>1. /\ Started /\ Silent /\ SendIOP("req_power", Sleep) /\ ap' = "sleeping"
        /\ UNCHANGED <<ep0, idle, rollcall, failed, cur, boots, seen>>
    BY <1>6, PhaseOfDriver DEF APSleep, rtkitVars
  <2>2. ToIOP(Msg("req_power", Sleep))'
    BY <1>0, <2>1, RequestIsToken, Known, SMTT(20)
  <2>3. Started'
    BY <2>1, <2>2 DEF Started
  <2> QED BY <1>0, <2>1, <2>3 DEF HandshakeInv
<1>7. CASE APPing
  <2>1. /\ SendIOP("ping", 0)
        /\ UNCHANGED <<ep0, rollcall, idle, failed, boots, ap, seen, cur>>
    BY <1>7 DEF APPing, rtkitVars
  <2>2. KeepsTokens
    BY <1>0, <2>1, PingKeeps
  <2> QED BY <2>1, <2>2, KeepsPhase
<1>8. CASE APReceive
  BY <1>8, ReceiveHandshake
<1>9. CASE APAnswer
  <2>1. UNCHANGED <<ep0, rollcall, idle, failed, boots, cur, seen>> /\ ap' = "booting"
    BY <1>9 DEF APAnswer, rtkitVars
  <2>2. CASE ap \in {"ack first", "ack second"}
    <3>1. PICK v \in Replies \union {RTKIT_MAX_VERSION_PRE_IOS14} : SendIOP("hello_ack", v)
      BY <1>9, <2>2 DEF APAnswer
    <3>2. WaitsForVersion /\ seen = {} /\ Silent
      BY <2>2, PhaseOfDriver
    <3>3. ToIOP(Msg("hello_ack", v))'
      BY <1>0, <2>1, <3>1, <3>2, RequestIsToken, Known, SMTT(20)
    <3>4. Greeting'
      BY <2>1, <3>2, <3>3 DEF Greeting, WaitsForVersion
    <3> QED BY <1>0, <2>1, <3>4 DEF HandshakeInv
  <2>3. CASE ap = "ack rollcall"
    <3>1. SendIOP("rollcall_ack", 0)
      BY <1>9, <2>3 DEF APAnswer
    <3>2. Announcing /\ Announced(seen) /\ Silent
      BY <2>3, PhaseOfDriver
    <3>3. ToIOP(Msg("rollcall_ack", 0))'
      BY <1>0, <2>1, <3>1, <3>2, RequestIsToken, Known
    <3>4. Announced(seen)'
      BY <2>1, <3>2 DEF Announced
    <3>5. Announcing'
      BY <2>1, <3>2, <3>3, <3>4 DEF Announcing
    <3> QED BY <1>0, <2>1, <3>5 DEF HandshakeInv
  <2> QED BY <1>9, <2>2, <2>3 DEF APAnswer
<1>10. CASE Reset
  <2>1. inbox' = [d \in Boxes |-> <<>>]
    BY <1>0, <1>10, ResetEmpties DEF Reset
  <2>2. cur' = NoMessage
    BY <1>10 DEF Reset, Free, AnyDriverInv, HandlerOK
  <2>3. Silent'
    BY <2>1, <2>2 DEF Silent, CurQuiet, Quiet, Boxes
  <2>4. Off'
    BY <1>10, <2>3 DEF Reset, Off
  <2> QED BY <1>0, <1>10, <2>4 DEF HandshakeInv, Reset
<1>11. CASE UNCHANGED vars
  <2>1. UNCHANGED <<ep0, rollcall, idle, failed, boots, ap, seen, inbox, cur>>
    BY <1>11 DEF vars, mboxVars, rtkitVars
  <2>2. KeepsTokens
    BY <2>1 DEF KeepsTokens, Silent, ToIOP, ToAP, CurQuiet
  <2> QED BY <2>1, <2>2, KeepsPhase, SMTT(20)
<1>12. CASE APPanic
  <2>1. /\ UNCHANGED <<ep0, rollcall, idle, failed, boots, seen, inbox, cur>>
        /\ ap = "ack second" /\ ap' = "panicked"
    BY <1>12 DEF APPanic, mboxVars, rtkitVars
  <2>2. WaitsForVersion /\ seen = {} /\ Silent
    BY <2>1, PhaseOfDriver
  <2>3. Silent'
    BY <2>1, <2>2 DEF Silent, CurQuiet
  <2>4. Greeting'
    BY <2>1, <2>2, <2>3 DEF Greeting, WaitsForVersion
  <2> QED BY <1>0, <2>1, <2>4 DEF HandshakeInv
<1> QED BY <1>1, <1>2, <1>3, <1>4, <1>5, <1>6, <1>7, <1>8, <1>9, <1>10, <1>11,
           <1>12 DEF Next, IOPStep

LEMMA Handshake ==
    ASSUME ~Hasty
    PROVE  Spec => []HandshakeInv
<1>1. AnyDriverInv /\ HandshakeInv /\ [Next]_vars => HandshakeInv'
  BY HandshakeNext
<1> QED BY <1>1, HandshakeInit, AnyDriver, PTL DEF Spec

-----------------------------------------------------------------------------
\* With a driver that asks for sleep only when the IOP is up, no assertion of
\* rtkit.c fails: every acknowledgement finds ep0_status where it must be, every
\* rollcall starts with an empty queue, and the bottom half never gets a NULL.
THEOREM EmulatorSurvives ==
    ASSUME ~Hasty
    PROVE  Spec => []NeverAborts
<1>1. HandshakeInv => NeverAborts
  BY DEF HandshakeInv, NeverAborts
<1> QED BY <1>1, Handshake, PTL

\* With such a driver, when the mailboxes are empty and no handler is due the two
\* sides of apple_rtkit_mgmt_handle_msg agree on whether the IOP runs, or it is
\* the driver's turn: unless it panicked at the second hello, nobody waits for a
\* message that is not under way.
THEOREM SilenceIsAgreement ==
    ASSUME ~Hasty
    PROVE  Spec => []QuietMeansAgreed
<1>1. AnyDriverInv /\ HandshakeInv => QuietMeansAgreed
  <2> SUFFICES ASSUME AnyDriverInv, HandshakeInv, ~inBH,
                      inbox["iop"] = <<>>, inbox["ap"] = <<>>
               PROVE  \/ ap = "off" /\ idle
                      \/ ap = "up" /\ ~idle /\ ep0 = "IDLE"
                      \/ ap \in {"ack first", "ack second"} /\ ep0 = "WAIT_HELLO"
                      \/ ap = "ack rollcall" /\ ep0 = "WAIT_ROLLCALL"
                      \/ ap = "panicked" /\ ep0 = "WAIT_HELLO"
    BY DEF QuietMeansAgreed
  <2>1. cur = NoMessage
    BY DEF AnyDriverInv, HandlerOK
  <2>2. \A m : ~Carries(<<>>, m)
    BY DEF Carries
  <2>3. \A m \in Tokens : ~ToIOP(m) /\ ~ToAP(m)
    BY <2>1, <2>2, MessagesAreMessages DEF ToIOP, ToAP, Tokens
  <2> QED BY <2>3, KnownTokens DEF HandshakeInv, Off, Waking, Greeting, WaitsForVersion,
             Announcing, Started, Sleeping
<1> QED BY <1>1, AnyDriver, Handshake, PTL

\* With such a driver, one that believes the IOP up has been told of every block of
\* endpoints since the last hello, and boot_done ran once: the queue filled by
\* apple_rtkit_mgmt_rollcall_v11 and emptied by the acknowledgements loses none.
THEOREM UpKnowsEndpoints ==
    ASSUME ~Hasty
    PROVE  Spec => []UpMeansAnnounced
<1>1. HandshakeInv => UpMeansAnnounced
  BY PhaseOfDriver DEF UpMeansAnnounced, Started
<1> QED BY <1>1, Handshake, PTL

=============================================================================
