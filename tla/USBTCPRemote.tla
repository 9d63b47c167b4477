---------------------------- MODULE USBTCPRemote ----------------------------
(***************************************************************************)
(* USB over a socket.  hw/usb/dev-tcp-remote.c is a USB device plugged     *)
(* into the controller of one virtual machine; hw/usb/hcd-tcp.c, in        *)
(* another process, is the controller the real (emulated) device is        *)
(* plugged into.  Requests and cancellations cross the socket one way,     *)
(* responses the other.                                                    *)
(*                                                                         *)
(* The device side has four kinds of threads: the accept thread, one read  *)
(* thread per accepted connection, the main loop (the controller and the   *)
(* bottom halves) and the vCPU that may cancel packets or reset the port.  *)
(* A step is what a thread does while it holds the big lock, or one access *)
(* of the accept thread, which takes the lock only to attach.  The peer's  *)
(* coroutines run under its own big lock; its socket always has room.      *)
(***************************************************************************)
EXTENDS Naturals, Sequences, FiniteSetsExt

CONSTANTS
    Packets,     \* what (pid, ep, id) identify; each has an endpoint of its own
    NoPacket,
    MaxConns,    \* bound: connections the peer makes
    MaxSubmits   \* bound: requests sent to the peer

ASSUME USBAssumption ==
    /\ NoPacket \notin Packets
    /\ MaxConns \in Nat \ {0}
    /\ MaxSubmits \in Nat \ {0}

Conns == 1 .. MaxConns

VARIABLES
    fd,        \* s->fd: the connection, 0 for -1
    closed,    \* s->closed
    attached,  \* USB_DEVICE(s)->attached
    apc,       \* where the accept thread is
    reader,    \* the read thread made for each connection
    op,        \* the controller's call in progress and its inflight record
    pstate,    \* USBPacket state of each packet ("free": not the device's)
    gen,       \* how often each packet was sent to the peer
    completed, \* s->completed_queue
    bhs,       \* pending bottom halves
    accepted,  \* connections taken by accept()
    made,      \* connections made by the peer
    cut,       \* connections the peer has hung up
    toPeer,    \* per connection, what the device wrote and the peer has not read
    toDev,     \* per connection, what the peer wrote and the device has not read
    ioc,       \* the peer's channel, 0 for NULL
    hqueue,    \* per packet, the peer's endpoint queue: generations in flight
    gaveUp,    \* a cancellation stopped waiting after its second
    fate       \* "fine", "abort" (failed assertion), "wild" (a freed packet used),
               \* "mixed" (parts of two messages taken for one)

devVars == <<fd, closed, attached, apc, reader, op, pstate, gen, completed, bhs,
             accepted, gaveUp>>
peerVars == <<made, cut, ioc, hqueue>>
vars == <<devVars, peerVars, toPeer, toDev, fate>>

NoMsg == [p |-> NoPacket, g |-> 0, status |-> "none"]
NoOp == [kind |-> "none", p |-> NoPacket, handled |-> FALSE,
         status |-> "none"]
NoReader == [pc |-> "none", on |-> 0, m |-> NoMsg, hit |-> "none", g |-> 0]

Messages == [p : Packets, g : Nat, status : {"async", "nak", "ok"}]
Requests == [type : {"request", "cancel"}, p : Packets, g : Nat]
            \cup {[type |-> "reset", p |-> NoPacket, g |-> 0]}
Readers == [pc : {"none", "enter", "recv", "head", "got", "data", "fail", "done"},
            on : 0 .. MaxConns, m : Messages \cup {NoMsg},
            hit : {"none", "packet", "cancel", "queue"}, g : Nat]
Calls == [kind : {"none", "packet", "cancel"}, p : Packets \cup {NoPacket},
          handled : BOOLEAN, status : {"none", "async", "nak", "ok", "stall"}]

\* Types of the state: a reader inside recv() is on a connection, and one that
\* has got a response holds it.
TypeOK ==
    /\ fd \in 0 .. MaxConns
    /\ closed \in BOOLEAN
    /\ attached \in BOOLEAN
    /\ apc \in {"accept", "opened", "attach", "test", "wait", "asleep"}
    /\ reader \in [Conns -> Readers]
    /\ \A c \in Conns :
           /\ reader[c].pc \in {"recv", "head", "got", "data"} => reader[c].on \in Conns
           /\ reader[c].pc \in {"got", "data"} => reader[c].m \in Messages
    /\ op \in Calls
    /\ pstate \in [Packets -> {"free", "setup", "async", "canceled"}]
    /\ gen \in [Packets -> Nat]
    /\ completed \in Seq([p : Packets, g : Nat])
    /\ bhs \subseteq {"completed", "cleanup"}
    /\ accepted \in 0 .. made
    /\ made \in 0 .. MaxConns
    /\ cut \subseteq 1 .. made
    /\ toPeer \in [Conns -> Seq(Requests)]
    /\ toDev \in [Conns -> Seq(Messages)]
    /\ ioc \in 0 .. made
    /\ hqueue \in [Packets -> Seq(Nat)]
    /\ gaveUp \in BOOLEAN
    /\ fate \in {"fine", "abort", "wild", "mixed"}

Init ==
    /\ fd = 0
    /\ closed = TRUE
    /\ attached = FALSE
    /\ apc = "accept"
    /\ reader = [c \in Conns |-> NoReader]
    /\ op = NoOp
    /\ pstate = [p \in Packets |-> "free"]
    /\ gen = [p \in Packets |-> 0]
    /\ completed = <<>>
    /\ bhs = {}
    /\ accepted = 0
    /\ made = 0
    /\ cut = {}
    /\ toPeer = [c \in Conns |-> <<>>]
    /\ toDev = [c \in Conns |-> <<>>]
    /\ ioc = 0
    /\ hqueue = [p \in Packets |-> <<>>]
    /\ gaveUp = FALSE
    /\ fate = "fine"

\* Nothing happens in a process that has failed.
Running == fate = "fine"

-----------------------------------------------------------------------------
(* The accept thread. *)

\* s->fd = accept(...): no lock is held.
Accept ==
    /\ Running
    /\ apc = "accept"
    /\ accepted < made
    /\ accepted' = accepted + 1
    /\ fd' = accepted + 1
    /\ apc' = "opened"
    /\ UNCHANGED <<closed, attached, reader, op, pstate, gen, completed, bhs, gaveUp>>
    /\ UNCHANGED <<peerVars, toPeer, toDev, fate>>

Open ==
    /\ Running
    /\ apc = "opened"
    /\ closed' = FALSE
    /\ apc' = "attach"
    /\ UNCHANGED <<fd, attached, reader, op, pstate, gen, completed, bhs, accepted, gaveUp>>
    /\ UNCHANGED <<peerVars, toPeer, toDev, fate>>

\* usb_device_attach, under the big lock: it asserts that the device is not
\* attached already.  The read thread made next has done nothing yet when the
\* flag is tested.
Attach ==
    /\ Running
    /\ apc = "attach"
    /\ IF attached
       THEN fate' = "abort" /\ UNCHANGED <<attached, apc, reader>>
       ELSE /\ attached' = TRUE
            /\ reader' = [reader EXCEPT ![accepted].pc = "enter"]
            /\ apc' = "test"
            /\ UNCHANGED fate
    /\ UNCHANGED <<fd, closed, op, pstate, gen, completed, bhs, accepted, gaveUp>>
    /\ UNCHANGED <<peerVars, toPeer, toDev>>

\* while (!s->closed): the flag is read under thr_mutex, which nobody else takes.
Test ==
    /\ Running
    /\ apc = "test"
    /\ apc' = IF closed THEN "accept" ELSE "wait"
    /\ UNCHANGED <<fd, closed, attached, reader, op, pstate, gen, completed, bhs,
                   accepted, gaveUp>>
    /\ UNCHANGED <<peerVars, toPeer, toDev, fate>>

\* qemu_cond_wait begins: only from here on does a broadcast wake the thread.
Sleep ==
    /\ Running
    /\ apc = "wait"
    /\ apc' = "asleep"
    /\ UNCHANGED <<fd, closed, attached, reader, op, pstate, gen, completed, bhs,
                   accepted, gaveUp>>
    /\ UNCHANGED <<peerVars, toPeer, toDev, fate>>

-----------------------------------------------------------------------------
(* Closing a connection. *)

\* usb_tcp_remote_clean_inflight_queue on the record r.
CleanInflight(r) ==
    IF r.kind = "none" THEN r ELSE [r EXCEPT !.handled = TRUE, !.status = "stall"]

\* Mutation: a closed connection leaves the record waiting.
ClosedKeepsInflight(r) ==
    /\ op' = r
    /\ IF fd = 0 THEN UNCHANGED <<closed, bhs>>
       ELSE closed' = TRUE /\ bhs' = bhs \cup {"cleanup"}

\* usb_tcp_remote_closed, with the record r in the inflight queue.
Closed(r) ==
    IF fd = 0
    THEN op' = r /\ UNCHANGED <<closed, bhs>>
    ELSE /\ closed' = TRUE
         /\ op' = CleanInflight(r)
         /\ bhs' = bhs \cup {"cleanup"}

\* Is the packet behind this pointer still the one that was handed over?
Live(ref) == gen[ref.p] = ref.g /\ pstate[ref.p] # "free"

\* usb_packet_complete on every packet of the queue that is still in flight.
CompleteAll(q) ==
    [p \in Packets |->
        IF pstate[p] = "async" /\ \E i \in DOMAIN q : q[i].p = p
        THEN "free" ELSE pstate[p]]

\* usb_tcp_remote_clean_completed_queue: every packet in it must be live, must
\* be in state async (usb_packet_check_state) and must not be in it twice.
CleanCompletedFate ==
    IF \E i \in DOMAIN completed :
           \/ ~Live(completed[i])
           \/ \E j \in DOMAIN completed : j # i /\ completed[i] = completed[j]
    THEN "wild"
    ELSE IF \E i \in DOMAIN completed : pstate[completed[i].p] # "async"
    THEN "abort"
    ELSE "fine"

\* The main loop runs bottom halves unless it waits in handle_packet; packets
\* are cancelled by it or by a vCPU that writes a register of the controller.
MainLoopFree == op.kind # "packet"

\* A recv() in progress keeps its connection when the descriptor is closed.
InRecv(k) == \E c \in Conns : reader[c].pc \in {"recv", "head"} /\ reader[c].on = k

\* Mutation: the accept thread is not told.
CleanupSilently ==
    /\ Running
    /\ "cleanup" \in bhs
    /\ MainLoopFree
    /\ bhs' = bhs \ {"cleanup"}
    /\ fate' = IF fd = 0 THEN fate ELSE CleanCompletedFate
    /\ IF fd = 0 \/ CleanCompletedFate # "fine"
       THEN UNCHANGED <<fd, closed, attached, pstate, completed>>
       ELSE /\ fd' = 0
            /\ closed' = TRUE
            /\ completed' = <<>>
            /\ pstate' = IF attached
                         THEN [p \in Packets |-> IF pstate[p] = "async" THEN "free"
                                                 ELSE pstate[p]]
                         ELSE CompleteAll(completed)
            /\ attached' = FALSE
    /\ toDev' = IF fd = 0 \/ InRecv(fd) THEN toDev ELSE [toDev EXCEPT ![fd] = <<>>]
    /\ UNCHANGED <<apc, reader, op, gen, accepted, gaveUp>>
    /\ UNCHANGED <<peerVars, toPeer>>

\* usb_tcp_remote_cleanup.  Detaching makes the controller cancel every packet
\* the device still has; as the connection is closed, each cancellation returns
\* at once.
CleanupBH ==
    /\ Running
    /\ "cleanup" \in bhs
    /\ MainLoopFree
    /\ bhs' = bhs \ {"cleanup"}
    /\ fate' = IF fd = 0 THEN fate ELSE CleanCompletedFate
    /\ IF fd = 0 \/ CleanCompletedFate # "fine"
       THEN UNCHANGED <<fd, closed, attached, apc, pstate, completed>>
       ELSE /\ fd' = 0
            /\ closed' = TRUE
            /\ completed' = <<>>
            /\ pstate' = IF attached
                         THEN [p \in Packets |-> IF pstate[p] = "async" THEN "free"
                                                 ELSE pstate[p]]
                         ELSE CompleteAll(completed)
            /\ attached' = FALSE
            /\ apc' = IF apc = "asleep" THEN "test" ELSE apc
    /\ toDev' = IF fd = 0 \/ InRecv(fd) THEN toDev ELSE [toDev EXCEPT ![fd] = <<>>]
    /\ UNCHANGED <<reader, op, gen, accepted, gaveUp>>
    /\ UNCHANGED <<peerVars, toPeer>>

\* usb_tcp_remote_completed_bh: unlike the clean-up it skips packets that are no
\* longer in flight, but it has to look at them to know.
CompletedBH ==
    /\ Running
    /\ "completed" \in bhs
    /\ MainLoopFree
    /\ bhs' = bhs \ {"completed"}
    /\ completed' = <<>>
    /\ IF \A i \in DOMAIN completed : Live(completed[i])
       THEN pstate' = CompleteAll(completed) /\ UNCHANGED fate
       ELSE fate' = "wild" /\ UNCHANGED pstate
    /\ UNCHANGED <<fd, closed, attached, apc, reader, op, gen, accepted, gaveUp>>
    /\ UNCHANGED <<peerVars, toPeer, toDev>>

-----------------------------------------------------------------------------
(* A read thread.  It holds the big lock except inside recv(). *)

\* The next recv() is made on what s->fd is now.
ReadEnter(c) ==
    /\ Running
    /\ reader[c].pc = "enter"
    /\ reader' = [reader EXCEPT ![c] = [NoReader EXCEPT
                      !.pc = IF fd = 0 THEN "fail" ELSE "recv", !.on = fd]]
    /\ UNCHANGED <<fd, closed, attached, apc, op, pstate, gen, completed, bhs,
                   accepted, gaveUp>>
    /\ UNCHANGED <<peerVars, toPeer, toDev, fate>>

\* A message is read in two or three calls of recv(), each on what s->fd is when
\* it is made.  Somebody has read a part of a message of connection k:
Begun(k) == \E c \in Conns : reader[c].pc \in {"head", "data"} /\ reader[c].on = k

\* The type of a message arrives, or the end of the stream; the lock is not held.
\* What another thread has left of a message is taken for a type.
Recv(c) ==
    LET r == reader[c] IN
    /\ Running
    /\ r.pc = "recv"
    /\ \/ /\ Begun(r.on)
          /\ fate' = "mixed"
          /\ UNCHANGED reader
       \/ /\ ~Begun(r.on)
          /\ toDev[r.on] # <<>> \/ r.on \in cut
          /\ reader' = [reader EXCEPT ![c].pc = IF toDev[r.on] = <<>> THEN "fail" ELSE "head"]
          /\ UNCHANGED fate
    /\ UNCHANGED <<fd, closed, attached, apc, op, pstate, gen, completed, bhs,
                   accepted, gaveUp>>
    /\ UNCHANGED <<peerVars, toPeer, toDev>>

\* The next recv() of a message was made after s->fd had changed: it fails, or
\* takes a part of another connection's message for one of this.  A thread that
\* is still in recv() on the old connection gets what is left of the message.
RecvElsewhere(c) ==
    LET on == reader[c].on IN
    /\ fd # on
    /\ \/ /\ fd # 0 \/ \E e \in Conns : reader[e].pc = "recv" /\ reader[e].on = on
          /\ fate' = "mixed"
          /\ UNCHANGED reader
       \/ /\ fd = 0 \/ (fd \in cut /\ toDev[fd] = <<>>)
          /\ \A e \in Conns : ~(reader[e].pc = "recv" /\ reader[e].on = on)
          /\ reader' = [reader EXCEPT ![c].pc = "fail"]
          /\ UNCHANGED fate

\* The response header that goes with the type.
RecvRest(c) ==
    LET r == reader[c] IN
    /\ Running
    /\ r.pc = "head"
    /\ \/ /\ toDev[r.on] # <<>>
          /\ reader' = [reader EXCEPT ![c].pc = "got", ![c].m = Head(toDev[r.on])]
          /\ toDev' = [toDev EXCEPT ![r.on] = Tail(@)]
          /\ UNCHANGED fate
       \/ RecvElsewhere(c) /\ UNCHANGED toDev
    /\ UNCHANGED <<fd, closed, attached, apc, op, pstate, gen, completed, bhs,
                   accepted, gaveUp>>
    /\ UNCHANGED <<peerVars, toPeer>>

\* recv() failed: usb_tcp_remote_closed, whatever connection s->fd is by now.
ReadFail(c) ==
    /\ Running
    /\ reader[c].pc = "fail"
    /\ Closed(op)
    /\ reader' = [reader EXCEPT ![c] = [NoReader EXCEPT !.pc = "done"]]
    /\ UNCHANGED <<fd, attached, apc, pstate, gen, completed, accepted, gaveUp>>
    /\ UNCHANGED <<peerVars, toPeer, toDev, fate>>

\* Whom a response is for: usb_tcp_remote_find_inflight_packet, then
\* usb_ep_find_packet_by_id.  Both compare identifiers only.
HitOf(m) ==
    IF op.kind # "none" /\ op.p = m.p THEN op.kind
    ELSE IF pstate[m.p] = "async" THEN "queue"
    ELSE "none"

\* The rest of usb_tcp_remote_read_one for the response m that was found to be
\* for generation g of its packet, and the loop of the read thread.  The packet
\* may have been freed, and the record (it is on the stack of the caller) may
\* have gone, if the lock was dropped since.
Apply(c, m, hit, g) ==
    LET p == m.p
        next(cl) == [reader EXCEPT ![c] =
                        [NoReader EXCEPT !.pc = IF cl THEN "done" ELSE "enter"]]
    IN
    IF hit = "none"
    THEN reader' = next(closed) /\ UNCHANGED <<op, closed, bhs, completed, fate>>
    ELSE IF ~Live([p |-> p, g |-> g]) \/ (hit # "queue" /\ ~(op.kind = hit /\ op.p = p))
    THEN fate' = "wild" /\ UNCHANGED <<reader, op, closed, bhs, completed>>
    ELSE IF pstate[p] = "async" /\ m.status \in {"nak", "async"}
    THEN /\ Closed(op)
         /\ reader' = next(TRUE)
         /\ UNCHANGED <<completed, fate>>
    ELSE /\ reader' = next(closed)
         /\ IF hit # "queue"
            THEN /\ op' = [op EXCEPT !.handled = TRUE, !.status = m.status]
                 /\ UNCHANGED <<completed, bhs>>
            ELSE /\ IF pstate[p] = "canceled"
                    THEN UNCHANGED <<completed, bhs>>
                    ELSE /\ completed' = Append(completed, [p |-> p, g |-> g])
                         /\ bhs' = bhs \cup {"completed"}
                 /\ UNCHANGED op
         /\ UNCHANGED <<closed, fate>>

\* The response is looked up; the data of an IN transfer is read with the lock
\* dropped, and the pointers found are kept meanwhile.
ReadGot(c) ==
    LET m == reader[c].m
        hit == HitOf(m)
    IN
    /\ Running
    /\ reader[c].pc = "got"
    /\ \/ Apply(c, m, hit, gen[m.p])
       \/ /\ m.status = "ok"
          /\ reader' = [reader EXCEPT ![c].pc = "data", ![c].hit = hit,
                                      ![c].g = gen[m.p]]
          /\ UNCHANGED <<op, closed, bhs, completed, fate>>
    /\ UNCHANGED <<fd, attached, apc, pstate, gen, accepted, gaveUp>>
    /\ UNCHANGED <<peerVars, toPeer, toDev>>

ReadData(c) ==
    LET r == reader[c] IN
    /\ Running
    /\ r.pc = "data"
    /\ \/ Apply(c, r.m, r.hit, r.g)
       \/ /\ r.on \in cut
          /\ reader' = [reader EXCEPT ![c].pc = "fail"]
          /\ UNCHANGED <<op, closed, bhs, completed, fate>>
       \/ RecvElsewhere(c) /\ UNCHANGED <<op, closed, bhs, completed>>
    /\ UNCHANGED <<fd, attached, apc, pstate, gen, accepted, gaveUp>>
    /\ UNCHANGED <<peerVars, toPeer, toDev>>

-----------------------------------------------------------------------------
(* The calls of the controller: one at a time. *)

\* What is written to a peer that has hung up is lost.
Write(msg) ==
    toPeer' = IF fd \in cut THEN toPeer ELSE [toPeer EXCEPT ![fd] = Append(@, msg)]

\* send() fails on no connection, and may fail once the peer has hung up.
WriteFails == fd = 0 \/ fd \in cut

\* usb_tcp_remote_handle_packet up to its wait, called by the main loop.
HandlePacket(p) ==
    LET r == [kind |-> "packet", p |-> p, handled |-> FALSE,
              status |-> "none"]
    IN
    /\ Running
    /\ op.kind = "none"
    /\ attached
    /\ pstate[p] = "free"
    /\ \/ closed /\ UNCHANGED <<op, closed, bhs, pstate, gen, toPeer>>
       \/ /\ ~closed /\ WriteFails
          /\ IF fd = 0 THEN UNCHANGED <<closed, bhs>>
             ELSE closed' = TRUE /\ bhs' = bhs \cup {"cleanup"}
          /\ UNCHANGED <<op, pstate, gen, toPeer>>
       \/ /\ ~closed /\ fd # 0 /\ MapThenSumSet(LAMBDA q : gen[q], Packets) < MaxSubmits
          /\ gen' = [gen EXCEPT ![p] = @ + 1]
          /\ op' = r
          /\ pstate' = [pstate EXCEPT ![p] = "setup"]
          /\ Write([type |-> "request", p |-> p, g |-> gen[p] + 1])
          /\ UNCHANGED <<closed, bhs>>
    /\ UNCHANGED <<fd, attached, apc, reader, completed, accepted, gaveUp>>
    /\ UNCHANGED <<peerVars, toDev, fate>>

\* The wait of usb_tcp_remote_handle_packet ends and usb_handle_packet goes by
\* the status.
PacketDone ==
    /\ Running
    /\ op.kind = "packet"
    /\ op.handled
    /\ pstate' = [pstate EXCEPT ![op.p] = IF op.status = "async" THEN "async" ELSE "free"]
    /\ op' = NoOp
    /\ UNCHANGED <<fd, closed, attached, apc, reader, gen, completed, bhs, accepted, gaveUp>>
    /\ UNCHANGED <<peerVars, toPeer, toDev, fate>>

\* Mutation: the peer's answer is not waited for.
CancelPacketNoWait(p) ==
    /\ Running
    /\ op.kind = "none"
    /\ pstate[p] = "async"
    /\ pstate' = [pstate EXCEPT ![p] = "free"]
    /\ IF closed \/ fd = 0 THEN UNCHANGED toPeer
       ELSE Write([type |-> "cancel", p |-> p, g |-> gen[p]])
    /\ UNCHANGED <<fd, closed, attached, apc, reader, op, gen, completed, bhs, accepted,
                   gaveUp>>
    /\ UNCHANGED <<peerVars, toDev, fate>>

\* usb_cancel_packet and usb_tcp_remote_cancel_packet up to its wait.
CancelPacket(p) ==
    LET r == [kind |-> "cancel", p |-> p, handled |-> FALSE,
              status |-> "none"]
    IN
    /\ Running
    /\ op.kind = "none"
    /\ pstate[p] = "async"
    /\ \/ /\ closed
          /\ pstate' = [pstate EXCEPT ![p] = "free"]
          /\ UNCHANGED <<op, closed, bhs, toPeer>>
       \/ /\ ~closed
          /\ pstate' = [pstate EXCEPT ![p] = "canceled"]
          /\ \/ WriteFails /\ Closed(r) /\ UNCHANGED toPeer
             \/ /\ fd # 0
                /\ Write([type |-> "cancel", p |-> p, g |-> gen[p]])
                /\ op' = r
                /\ UNCHANGED <<closed, bhs>>
    /\ UNCHANGED <<fd, attached, apc, reader, gen, completed, accepted, gaveUp>>
    /\ UNCHANGED <<peerVars, toDev, fate>>

\* The wait ends, answered or after NANOSECONDS_PER_SECOND; the controller frees
\* the packet.
CancelDone ==
    /\ Running
    /\ op.kind = "cancel"
    /\ gaveUp' = (gaveUp \/ ~op.handled)
    /\ pstate' = [pstate EXCEPT ![op.p] = "free"]
    /\ op' = NoOp
    /\ UNCHANGED <<fd, closed, attached, apc, reader, gen, completed, bhs, accepted>>
    /\ UNCHANGED <<peerVars, toPeer, toDev, fate>>

\* usb_port_reset and usb_tcp_remote_handle_reset.  The controller has cancelled
\* every packet before the device is reset.
HandleReset ==
    /\ Running
    /\ op.kind = "none"
    /\ attached
    /\ ~closed
    /\ \A p \in Packets : pstate[p] = "free"
    /\ fd # 0 => \A i \in DOMAIN toPeer[fd] : toPeer[fd][i].type # "reset"  \* bound
    /\ fate' = CleanCompletedFate
    /\ completed' = <<>>
    /\ \/ WriteFails /\ Closed(op) /\ UNCHANGED toPeer
       \/ /\ fd # 0
          /\ Write([type |-> "reset", p |-> NoPacket, g |-> 0])
          /\ UNCHANGED <<op, closed, bhs>>
    /\ UNCHANGED <<fd, attached, apc, reader, pstate, gen, accepted, gaveUp>>
    /\ UNCHANGED <<peerVars, toDev>>

-----------------------------------------------------------------------------
(* The peer: hw/usb/hcd-tcp.c. *)

\* usb_tcp_host_attach connects; the listening socket takes the connection
\* before accept() does.
PeerConnect ==
    /\ Running
    /\ ioc = 0
    /\ made < MaxConns
    /\ made' = made + 1
    /\ ioc' = made + 1
    /\ UNCHANGED <<cut, hqueue, devVars, toPeer, toDev, fate>>

\* usb_tcp_host_closed, on a detach or on the end of the stream.  Packets the
\* real device still has stay with it.
PeerClosed ==
    /\ Running
    /\ ioc # 0
    /\ cut' = cut \cup {ioc}
    /\ ioc' = 0
    /\ toPeer' = [toPeer EXCEPT ![ioc] = <<>>]
    /\ UNCHANGED <<made, hqueue, devVars, toDev, fate>>

\* usb_tcp_host_respond_packet_co: nothing is written once closed.
Respond(p, g, status) ==
    toDev' = IF ioc = 0 THEN toDev
             ELSE [toDev EXCEPT ![ioc] = Append(@, [p |-> p, g |-> g, status |-> status])]

\* One turn of usb_tcp_host_msg_loop_co.  A request behind another one on its
\* endpoint is queued and answered USB_RET_ASYNC; a cancellation finds the first
\* packet with the identifier, whose status is still USB_RET_ASYNC, or nothing.
PeerRead ==
    /\ Running
    /\ ioc # 0
    /\ toPeer[ioc] # <<>>
    /\ toPeer' = [toPeer EXCEPT ![ioc] = Tail(@)]
    /\ LET m == Head(toPeer[ioc]) IN
       \/ /\ m.type = "request"
          /\ \/ /\ hqueue' = [hqueue EXCEPT ![m.p] = Append(@, m.g)]
                /\ Respond(m.p, m.g, "async")
             \/ /\ hqueue[m.p] = <<>>
                /\ \E status \in {"ok", "nak"} : Respond(m.p, m.g, status)
                /\ UNCHANGED hqueue
       \/ /\ m.type = "cancel"
          /\ IF hqueue[m.p] = <<>>
             THEN UNCHANGED <<hqueue, toDev>>
             ELSE /\ hqueue' = [hqueue EXCEPT ![m.p] = Tail(@)]
                  /\ Respond(m.p, Head(hqueue[m.p]), "async")
       \/ /\ m.type = "reset"
          /\ UNCHANGED <<hqueue, toDev>>
    /\ UNCHANGED <<made, cut, ioc, devVars, fate>>

\* The real device completes the packet at the head of an endpoint's queue:
\* usb_tcp_host_async_packet_complete.
PeerComplete(p) ==
    /\ Running
    /\ hqueue[p] # <<>>
    /\ hqueue' = [hqueue EXCEPT ![p] = Tail(@)]
    /\ Respond(p, Head(hqueue[p]), "ok")
    /\ UNCHANGED <<made, cut, ioc, devVars, toPeer, fate>>

-----------------------------------------------------------------------------

AcceptThread == Accept \/ Open \/ Attach \/ Test \/ Sleep
ReadThread(c) ==
    ReadEnter(c) \/ Recv(c) \/ RecvRest(c) \/ ReadFail(c) \/ ReadGot(c) \/ ReadData(c)
BottomHalves == CleanupBH \/ CompletedBH
Controller ==
    \/ \E p \in Packets : HandlePacket(p) \/ CancelPacket(p)
    \/ PacketDone
    \/ CancelDone
    \/ HandleReset
Peer == PeerConnect \/ PeerClosed \/ PeerRead \/ \E p \in Packets : PeerComplete(p)

Next ==
    \/ AcceptThread
    \/ \E c \in Conns : ReadThread(c)
    \/ BottomHalves
    \/ Controller
    \/ Peer

\* Threads and bottom halves run; a wait that was answered, or whose second is
\* over, ends; the peer's loop reads what was sent.  Nothing makes the guest
\* submit, cancel or reset, nor the peer connect, hang up or complete.
Fairness ==
    /\ WF_vars(AcceptThread)
    /\ \A c \in Conns : WF_vars(ReadThread(c))
    /\ WF_vars(CleanupBH)
    /\ WF_vars(CompletedBH)
    /\ WF_vars(PacketDone)
    /\ WF_vars(CancelDone)
    /\ WF_vars(PeerRead)

Spec == Init /\ [][Next]_vars /\ Fairness

-----------------------------------------------------------------------------

\* The device keeps the contract of a USB device (USBPacketService): every call
\* of the controller returns (dev-tcp-remote.c:173 "Cleanup inflights, otherwise
\* mainloop is stuck"), a packet is given back once, and none is kept by a device
\* that is detached -- as long as no assertion fails, no freed packet is used and
\* no message is put together from two.
Service == INSTANCE USBPacketService WITH
    phase <- [p \in Packets |-> CASE pstate[p] = "free" -> "home"
                                  [] pstate[p] = "setup" -> "busy"
                                  [] pstate[p] = "async" -> "kept"
                                  [] pstate[p] = "canceled" -> "leaving"],
    plugged <- attached,
    alive <- (fate = "fine")
KeepsContract == Service!Spec

\* While the first connection is open and no cancellation has given up, every
\* response on its way belongs to the packet's present submission: comparing
\* identifiers, as usb_tcp_remote_read_one does, finds the right packet.
RepliesAreCurrent ==
    (fate = "fine" /\ ~gaveUp /\ ~closed /\ accepted = 1) =>
        LET held == {reader[c].m : c \in Conns} \ {NoMsg}
        IN \A m \in held \cup {toDev[1][i] : i \in DOMAIN toDev[1]} :
               m.g = gen[m.p] /\ pstate[m.p] # "free"

\* An assertion fails, a freed packet or a dead record is used, or parts of two
\* messages are taken for one, only if a cancellation gave up, the connection was
\* closed or replaced, or a read thread kept a pointer while it read the data of
\* a transfer without the lock (dev-tcp-remote.c:272).  The failed assertion is the one of
\* usb_device_attach: the accept thread sees `closed' before the clean-up has
\* detached the device and attaches it for the next connection.
FailsOnlyWithCause ==
    fate # "fine" =>
        \/ gaveUp
        \/ closed
        \/ accepted > 1
        \/ \E c \in Conns : reader[c].pc = "data"

\* The accept thread asleep in qemu_cond_wait when a connection is cleaned up
\* returns to accept().  (If the broadcast falls between its test of the flag and
\* the wait, nothing wakes it: thr_mutex is not held by the clean-up.)
AcceptsAgain ==
    (apc = "asleep" /\ "cleanup" \in bhs /\ fd # 0) ~> (apc = "accept" \/ fate # "fine")
=============================================================================
