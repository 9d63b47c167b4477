------------------------------ MODULE AppleSIO ------------------------------
(***************************************************************************)
(* The SIO co-processor (hw/dma/apple_sio.c) as the DMA engine of one      *)
(* peripheral.  The guest driver hands it buffers by MAP messages; the     *)
(* peripheral (AppleSPI) pulls and pushes data through the buffers of its  *)
(* two endpoints; a buffer that is used up is answered by a COMPLETE       *)
(* message with its tag.  The RTKit mailbox in between keeps the order of  *)
(* the messages (AppleRTKit, A7IOPMailbox), so that it is two queues here. *)
(*                                                                         *)
(* Data are abstracted to their lengths.  The messages that change nothing *)
(* (PING, CONFIGURE, QUERY, parameters) and the acknowledgements are left  *)
(* out.  Every handler runs under the QEMU lock: the messages are taken    *)
(* one at a time by the bottom half of the mailbox, and never in the       *)
(* middle of a register access.                                            *)
(***************************************************************************)
EXTENDS Integers, Sequences, FiniteSetsExt

CONSTANTS
    Tags,       \* tags the driver gives to its buffers
    NoTag,      \* no buffer
    Sizes,      \* per endpoint: sizes of the scatter lists of a MAP
    MaxHeld,    \* bound, per endpoint: buffers the driver hands out at a time
    MaxMail     \* bound: messages under way when the driver sends another

VARIABLES
    buffers,    \* per endpoint: ep->buffers, oldest first: records of the tag,
                \* the size of all segments, completed and mapped
    toSIO,      \* messages of the driver not handled yet
    toAP,       \* messages of the SIO the driver has not read
    held,       \* driver: per endpoint, the tags it has handed out, in order
    stopping,   \* driver: endpoints whose STOP has not been completed
    failed,     \* history: a buffer could not be mapped in the current run
    short       \* history: a dma_read or dma_write of the run fell short

sioVars == <<buffers, toSIO, toAP, held, stopping, failed, short>>
history == <<failed, short>>

\* The TO_DEVICE and the FROM_DEVICE endpoint of the peripheral.
Endpoints == {"tx", "rx"}

ASSUME SIOConstants == /\ Sizes \in [Endpoints -> SUBSET Nat]
                       /\ MaxHeld \in [Endpoints -> Nat]
                       /\ MaxMail \in Nat
                       /\ NoTag \notin Tags

Message(op, ep, tag) == [op |-> op, ep |-> ep, tag |-> tag]

\* The entries of a sequence that are in a set, in order.
Only(s, S) ==
    LET f[i \in 0..Len(s)] ==
            IF i = 0 THEN <<>>
            ELSE IF s[i] \in S THEN Append(f[i - 1], s[i]) ELSE f[i - 1]
    IN  f[Len(s)]

SIOInit ==
    /\ buffers = [ep \in Endpoints |-> <<>>]
    /\ toSIO = <<>> /\ toAP = <<>>
    /\ held = [ep \in Endpoints |-> <<>>]
    /\ stopping = {}
    /\ failed = FALSE /\ short = FALSE

(***************************************************************************)
(* The interface to the peripheral                                         *)
(***************************************************************************)
\* The buffers whose mapping can fail: those that are not mapped yet.
Unmappable(ep) ==
    {NoTag} \cup {b.tag : b \in {c \in Range(buffers[ep]) : ~c.mapped}}

\* Mutation: the mapped size is summed, whatever was used of it.
RemainingOfSizes(ep) ==
    LET sum[i \in 0..Len(buffers[ep])] ==
            IF i = 0 THEN 0 ELSE sum[i - 1] + buffers[ep][i].size
    IN  sum[Len(buffers[ep])]

\* What the buffers of an endpoint still have room for, mappable or not.
apple_sio_dma_remaining(ep) ==
    LET sum[i \in 0..Len(buffers[ep])] ==
            IF i = 0 THEN 0
            ELSE sum[i - 1] + buffers[ep][i].size - buffers[ep][i].completed
    IN  sum[Len(buffers[ep])]

\* One turn of the loop of dma_read and dma_write: the head buffer is mapped
\* unless it is (apple_sio_dma_map_buf) and used; a failure ends the loop, a
\* buffer used up is written back.
Use(acc, b) ==
    LET n == Min({acc.left, b.size - b.completed}) IN
    IF acc.left = 0 \/ acc.stuck
    THEN [acc EXCEPT !.rest = Append(@, b)]
    ELSE IF ~b.mapped /\ b.tag = acc.unmappable
    THEN [acc EXCEPT !.rest = Append(@, b), !.stuck = TRUE]
    ELSE IF b.completed + n >= b.size
    THEN [acc EXCEPT !.left = @ - n, !.done = Append(@, b.tag)]
    ELSE [acc EXCEPT !.left = @ - n,
                     !.rest = Append(@, [b EXCEPT !.completed = @ + n,
                                                  !.mapped = TRUE])]

\* apple_sio_dma_read and apple_sio_dma_write of `len' words when the page
\* tables do not let `bad' be mapped: the words that were not moved, the
\* buffers that remain and the tags written back.
Transfer(ep, len, bad) ==
    LET after[i \in 0..Len(buffers[ep])] ==
            IF i = 0 THEN [left |-> len, stuck |-> FALSE, unmappable |-> bad,
                           rest |-> <<>>, done |-> <<>>]
            ELSE Use(after[i - 1], buffers[ep][i])
    IN  after[Len(buffers[ep])]

NoTransfer(ep) == Transfer(ep, 0, NoTag)

\* apple_sio_dma_writeback: one COMPLETE, with the tag, per buffer used up.
Completions(ep, tags) ==
    [i \in DOMAIN tags |-> Message("complete", ep, tags[i])]

\* The effect on the SIO of a read `r' on "tx", then of a write `w' on "rx".
Transferred(r, w) ==
    /\ buffers' = [tx |-> r.rest, rx |-> w.rest]
    /\ toAP' = toAP \o Completions("tx", r.done) \o Completions("rx", w.done)
    /\ failed' = (failed \/ r.stuck \/ w.stuck)
    /\ short' = (short \/ r.left > 0 \/ w.left > 0)

(***************************************************************************)
(* The messages of the driver                                              *)
(***************************************************************************)
\* OP_MAP: the segments are read from memory, which may fail, and a buffer
\* is queued; whether it can be mapped is only found out at its first use.
HandleMap(m) ==
    /\ m.op = "map"
    /\ \/ /\ toAP' = Append(toAP, Message("error", m.ep, m.tag))
          /\ UNCHANGED buffers
       \/ \E size \in Sizes[m.ep] :
             /\ buffers' = [buffers EXCEPT ![m.ep] =
                    Append(@, [tag |-> m.tag, size |-> size,
                               completed |-> 0, mapped |-> FALSE])]
             /\ UNCHANGED toAP

\* Mutation: a STOP keeps the buffer the peripheral has begun to use.
StopKeepsBegun(m) ==
    /\ m.op = "stop"
    /\ buffers' = [buffers EXCEPT ![m.ep] =
                       SelectSeq(@, LAMBDA b : b.completed > 0)]
    /\ toAP' = Append(toAP, Message("stopped", m.ep, NoTag))

\* OP_STOP: acknowledged, then all buffers are destroyed without a COMPLETE
\* of their own; the COMPLETE without a tag ends the STOP (apple_sio_dma_stop).
HandleStop(m) ==
    /\ m.op = "stop"
    /\ buffers' = [buffers EXCEPT ![m.ep] = <<>>]
    /\ toAP' = Append(toAP, Message("stopped", m.ep, NoTag))

\* apple_sio_handle_endpoint, from the bottom half of the mailbox.
apple_sio_handle_endpoint ==
    /\ toSIO # <<>>
    /\ toSIO' = Tail(toSIO)
    /\ LET m == Head(toSIO) IN HandleMap(m) \/ HandleStop(m)
    /\ UNCHANGED <<held, stopping>> /\ UNCHANGED history

(***************************************************************************)
(* The driver in the guest                                                 *)
(***************************************************************************)
Send(m) ==
    /\ Len(toSIO) + Len(toAP) < MaxMail
    /\ toSIO' = Append(toSIO, m)
    /\ UNCHANGED <<buffers, toAP>> /\ UNCHANGED history

\* A tag is used again only when the driver has its buffer back.
DriverMap(ep, tag) ==
    /\ ep \notin stopping
    /\ tag \notin Range(held[ep]) /\ Len(held[ep]) < MaxHeld[ep]
    /\ Send(Message("map", ep, tag))
    /\ held' = [held EXCEPT ![ep] = Append(@, tag)]
    /\ UNCHANGED stopping

DriverStop(ep) ==
    /\ ep \notin stopping
    /\ Send(Message("stop", ep, NoTag))
    /\ stopping' = stopping \cup {ep}
    /\ UNCHANGED held

\* A COMPLETE or the refusal of a MAP gives one buffer back, the end of a STOP
\* all of them.
DriverReceive ==
    /\ toAP # <<>>
    /\ toAP' = Tail(toAP)
    /\ LET m == Head(toAP) IN
        /\ held' = CASE m.op = "stopped" -> [held EXCEPT ![m.ep] = <<>>]
                     [] m.op \in {"complete", "error"} ->
                            [held EXCEPT ![m.ep] = Only(@, Tags \ {m.tag})]
                     [] OTHER -> held
        /\ stopping' = IF m.op = "stopped" THEN stopping \ {m.ep} ELSE stopping
    /\ UNCHANGED <<buffers, toSIO>> /\ UNCHANGED history

\* System reset: apple_sio_reset_hold deletes the buffers of all endpoints,
\* the mailbox loses its messages, the driver starts afresh.
apple_sio_reset_hold ==
    /\ buffers' = [ep \in Endpoints |-> <<>>]
    /\ toSIO' = <<>> /\ toAP' = <<>>
    /\ held' = [ep \in Endpoints |-> <<>>]
    /\ stopping' = {}
    /\ UNCHANGED history

(***************************************************************************)
(* Properties                                                              *)
(***************************************************************************)
\* The tags of the messages `op' of endpoint `ep' in a queue, in order.
TagsOf(queue, op, ep) ==
    LET s == Only(queue, [op : {op}, ep : {ep}, tag : Tags \cup {NoTag}])
    IN  [i \in DOMAIN s |-> s[i].tag]

BufferTags(ep) == [i \in DOMAIN buffers[ep] |-> buffers[ep][i].tag]

\* Every buffer the driver has handed out is in exactly one place, and comes
\* back in the order it was handed out: the driver's list is what was
\* completed and not read yet, then what the SIO holds, then what it has not
\* been told of yet, except for refused buffers; and what a STOP has thrown
\* away is waiting for the end of the STOP (apple_sio_dma_writeback,
\* apple_sio_dma_stop, the MAP case of apple_sio_dma).
BuffersAccounted ==
    \A ep \in Endpoints :
        LET refused == Range(TagsOf(toAP, "error", ep))
            kept == Only(held[ep], Tags \ refused)
            places == TagsOf(toAP, "complete", ep) \o BufferTags(ep)
                          \o TagsOf(toSIO, "map", ep)
        IN  IF TagsOf(toAP, "stopped", ep) # <<>>
            THEN \E n \in 0 .. Len(kept) : places = SubSeq(kept, 1, n)
            ELSE places = kept
=============================================================================
