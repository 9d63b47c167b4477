------------------------------ MODULE AppleSPI ------------------------------
(***************************************************************************)
(* The SPI controller (hw/ssi/apple_spi.c) composed with the SIO endpoints *)
(* it uses for DMA.  The FIFOs are their fill levels, a word is one byte.  *)
(* REG_STATUS and the interrupt line, which nothing in the controller      *)
(* reads, and the chip select are left out.                                *)
(*                                                                         *)
(* apple_spi_run moves the words of a whole transfer inside one register   *)
(* access.  Each turn of its loops is a step here; `pc' says where it is,  *)
(* and nothing else happens until it is idle again, because the register   *)
(* access holds the QEMU lock.                                             *)
(***************************************************************************)
EXTENDS AppleSIO

CONSTANTS
    Depth,      \* REG_FIFO_DEPTH
    Configs,    \* values written to REG_CFG: records of mode and agd
    Counts      \* values written to REG_TXCNT and REG_RXCNT

ASSUME SPIConstants == Depth \in Nat \ {0} /\ Counts \subseteq Nat

VARIABLES
    cfg,        \* REG_CFG
    run,        \* REG_CTRL_RUN
    txcnt, rxcnt,   \* REG_TXCNT, REG_RXCNT
    txfifo, rxfifo, \* words in tx_fifo and in rx_fifo
    pc,         \* where apple_spi_run is: idle, start, send, full, generate, done
    sound       \* history: the run that is going on has all it needs

spiVars == <<cfg, run, txcnt, rxcnt, txfifo, rxfifo, pc, sound>>
vars == <<sioVars, spiVars>>

CfgReset == [mode |-> "INVALID", agd |-> FALSE]

Init ==
    /\ SIOInit
    /\ cfg = CfgReset /\ run = FALSE
    /\ txcnt = 0 /\ rxcnt = 0 /\ txfifo = 0 /\ rxfifo = 0
    /\ pc = "idle" /\ sound = FALSE

(***************************************************************************)
(* The FIFOs and the SIO                                                   *)
(***************************************************************************)
\* apple_spi_update_xfer_tx with `n' words in the FIFO and `cnt' to send: an
\* empty FIFO is filled from the DMA buffers.  What dma_read returns is not
\* looked at: `n' grows by what was asked for.
Refill(n, cnt, bad) ==
    LET dma_len == Min({cnt, Depth, apple_sio_dma_remaining("tx")})
    IN  IF n > 0 \/ cfg.mode # "DMA" \/ dma_len = 0
        THEN [n |-> n, move |-> NoTransfer("tx")]
        ELSE [n |-> dma_len, move |-> Transfer("tx", dma_len, bad)]

\* apple_spi_flush_rx with `n' words in the FIFO: as many as there is memory
\* for are popped and written, whatever dma_write returns.
Flush(n, bad) ==
    LET dma_len == Min({n, apple_sio_dma_remaining("rx")})
    IN  IF cfg.mode = "DMA" /\ dma_len > 0
        THEN [n |-> n - dma_len, move |-> Transfer("rx", dma_len, bad)]
        ELSE [n |-> n, move |-> NoTransfer("rx")]

FlushIfFull(n, bad) ==
    IF n = Depth THEN Flush(n, bad) ELSE [n |-> n, move |-> NoTransfer("rx")]

(***************************************************************************)
(* apple_spi_run                                                           *)
(***************************************************************************)
\* The call at the end of a register access: it returns at once unless there
\* is a mode, RUN is set and a count is not used up.
apple_spi_run ==
    pc' = IF cfg'.mode = "INVALID" \/ ~run' \/ (txcnt' = 0 /\ rxcnt' = 0)
          THEN "idle" ELSE "start"

\* Nothing stands in the way of the transfer: DMA buffers that can be mapped
\* for all the words, and received words that the sent ones or, up to one
\* FIFO, the auto-generated clock bring in.
HasAllItNeeds ==
    /\ cfg.mode = "DMA"
    /\ apple_sio_dma_remaining("tx") + txfifo >= txcnt
    /\ apple_sio_dma_remaining("rx") >= rxcnt + rxfifo
    /\ \/ rxcnt <= txcnt
       \/ cfg.agd /\ txcnt = 0 /\ rxcnt + rxfifo <= Depth

BeginRun ==
    /\ pc = "start"
    /\ \E bad \in Unmappable("tx") : LET r == Refill(txfifo, txcnt, bad) IN
        /\ txfifo' = r.n
        /\ Transferred(r.move, NoTransfer("rx"))
    /\ sound' = HasAllItNeeds
    /\ pc' = "send"
    /\ UNCHANGED <<toSIO, held, stopping>>
    /\ UNCHANGED <<cfg, run, txcnt, rxcnt, rxfifo>>

\* Mutation: the word is sent, the count is only kept by the receiver.
SendWordUncounted ==
    /\ pc = "send" /\ txcnt > 0 /\ txfifo > 0
    /\ \E bad \in Unmappable("tx"), badrx \in Unmappable("rx") :
       LET r == Refill(txfifo - 1, txcnt, bad)
           f == IF rxcnt > 0 THEN FlushIfFull(rxfifo, badrx)
                ELSE [n |-> rxfifo, move |-> NoTransfer("rx")]
           full == rxcnt > 0 /\ f.n = Depth
           push == rxcnt > 0 /\ ~full
       IN /\ txfifo' = r.n
          /\ rxfifo' = IF push THEN f.n + 1 ELSE f.n
          /\ rxcnt' = IF push THEN rxcnt - 1 ELSE rxcnt
          /\ Transferred(r.move, f.move)
          /\ pc' = IF full THEN "full" ELSE "send"
    /\ UNCHANGED <<toSIO, held, stopping>>
    /\ UNCHANGED <<cfg, run, txcnt, sound>>

\* One turn of the sending loop.  The word that comes back is lost when the
\* receive FIFO is full and cannot be flushed, and the loop is left.
SendWord ==
    /\ pc = "send" /\ txcnt > 0 /\ txfifo > 0
    /\ txcnt' = txcnt - 1
    /\ \E bad \in Unmappable("tx"), badrx \in Unmappable("rx") :
       LET r == Refill(txfifo - 1, txcnt - 1, bad)
           f == IF rxcnt > 0 THEN FlushIfFull(rxfifo, badrx)
                ELSE [n |-> rxfifo, move |-> NoTransfer("rx")]
           full == rxcnt > 0 /\ f.n = Depth
           push == rxcnt > 0 /\ ~full
       IN /\ txfifo' = r.n
          /\ rxfifo' = IF push THEN f.n + 1 ELSE f.n
          /\ rxcnt' = IF push THEN rxcnt - 1 ELSE rxcnt
          /\ Transferred(r.move, f.move)
          /\ pc' = IF full THEN "full" ELSE "send"
    /\ UNCHANGED <<toSIO, held, stopping>>
    /\ UNCHANGED <<cfg, run, sound>>

\* A receive FIFO that is full when the sending loop is left is flushed.
EndSending ==
    /\ \/ pc = "full"
       \/ pc = "send" /\ (txcnt = 0 \/ txfifo = 0)
    /\ \E bad \in Unmappable("rx") : LET f == FlushIfFull(rxfifo, bad) IN
        /\ rxfifo' = f.n
        /\ Transferred(NoTransfer("tx"), f.move)
    /\ pc' = "generate"
    /\ UNCHANGED <<toSIO, held, stopping>>
    /\ UNCHANGED <<cfg, run, txcnt, rxcnt, txfifo, sound>>

\* One turn of the receiving loop (auto-generated data).  It is left when the
\* FIFO is full, so that the flush inside the loop is never reached.
ReceiveWord ==
    /\ pc = "generate" /\ rxfifo < Depth /\ rxcnt > 0 /\ cfg.agd
    /\ rxfifo' = rxfifo + 1
    /\ rxcnt' = rxcnt - 1
    /\ UNCHANGED <<cfg, run, txcnt, txfifo, pc, sound>>
    /\ UNCHANGED sioVars

\* Mutation: the last words stay in the FIFO.
EndRunUnflushed ==
    /\ pc = "generate" /\ ~(rxfifo < Depth /\ rxcnt > 0 /\ cfg.agd)
    /\ pc' = "done"
    /\ UNCHANGED <<cfg, run, txcnt, rxcnt, txfifo, rxfifo, sound>>
    /\ UNCHANGED sioVars

\* The last flush; COMPLETE is raised if both counts are used up now.
EndRun ==
    /\ pc = "generate" /\ ~(rxfifo < Depth /\ rxcnt > 0 /\ cfg.agd)
    /\ \E bad \in Unmappable("rx") : LET f == Flush(rxfifo, bad) IN
        /\ rxfifo' = f.n
        /\ Transferred(NoTransfer("tx"), f.move)
    /\ pc' = "done"
    /\ UNCHANGED <<toSIO, held, stopping>>
    /\ UNCHANGED <<cfg, run, txcnt, rxcnt, txfifo, sound>>

\* The register access returns.
EndAccess ==
    /\ pc = "done"
    /\ pc' = "idle"
    /\ sound' = FALSE /\ failed' = FALSE /\ short' = FALSE
    /\ UNCHANGED <<buffers, toSIO, toAP, held, stopping>>
    /\ UNCHANGED <<cfg, run, txcnt, rxcnt, txfifo, rxfifo>>

RunStep ==
    \/ BeginRun \/ SendWord \/ EndSending \/ ReceiveWord
    \/ EndRun \/ EndAccess

(***************************************************************************)
(* The registers                                                           *)
(***************************************************************************)
\* REG_CTRL: FIFO resets, and a run if RUN is written.
WriteCtrl(tx_reset, rx_reset, r) ==
    /\ pc = "idle"
    /\ txfifo' = IF tx_reset THEN 0 ELSE txfifo
    /\ rxfifo' = IF rx_reset THEN 0 ELSE rxfifo
    /\ run' = r
    /\ UNCHANGED <<cfg, txcnt, rxcnt, sound>>
    /\ IF r THEN apple_spi_run ELSE UNCHANGED pc
    /\ UNCHANGED sioVars

WriteCfg(c) ==
    /\ pc = "idle"
    /\ cfg' = c
    /\ UNCHANGED <<run, txcnt, rxcnt, txfifo, rxfifo, sound>>
    /\ apple_spi_run
    /\ UNCHANGED sioVars

WriteCount(tx, n) ==
    /\ pc = "idle"
    /\ IF tx THEN txcnt' = n /\ UNCHANGED rxcnt
             ELSE rxcnt' = n /\ UNCHANGED txcnt
    /\ UNCHANGED <<cfg, run, txfifo, rxfifo, sound>>
    /\ apple_spi_run
    /\ UNCHANGED sioVars

\* A write to a full FIFO is dropped and does not run.
WriteTxData ==
    /\ pc = "idle"
    /\ IF txfifo = Depth
       THEN UNCHANGED <<cfg, run, txcnt, rxcnt, txfifo, pc>>
       ELSE /\ txfifo' = txfifo + 1
            /\ UNCHANGED <<cfg, run, txcnt, rxcnt>>
            /\ apple_spi_run
    /\ UNCHANGED <<rxfifo, sound>>
    /\ UNCHANGED sioVars

\* The read that empties the FIFO runs again.
ReadRxData ==
    /\ pc = "idle"
    /\ rxfifo > 0
    /\ rxfifo' = rxfifo - 1
    /\ UNCHANGED <<cfg, run, txcnt, rxcnt, txfifo, sound>>
    /\ IF rxfifo = 1 THEN apple_spi_run ELSE UNCHANGED pc
    /\ UNCHANGED sioVars

\* System reset of both devices: the registers and FIFOs are cleared, the
\* interrupt line is left as it was.
Reset ==
    /\ pc = "idle"
    /\ apple_sio_reset_hold
    /\ cfg' = CfgReset /\ run' = FALSE
    /\ txcnt' = 0 /\ rxcnt' = 0 /\ txfifo' = 0 /\ rxfifo' = 0
    /\ UNCHANGED <<pc, sound>>

(***************************************************************************)
(* The specification                                                       *)
(***************************************************************************)
RegisterStep ==
    \/ \E t, r, n \in BOOLEAN : WriteCtrl(t, r, n)
    \/ \E c \in Configs : WriteCfg(c)
    \/ \E tx \in BOOLEAN, n \in Counts : WriteCount(tx, n)
    \/ WriteTxData
    \/ ReadRxData

\* The bottom half and the driver, between two register accesses.
SIOStep ==
    /\ pc = "idle"
    /\ \/ apple_sio_handle_endpoint
       \/ DriverReceive
       \/ \E ep \in Endpoints, tag \in Tags : DriverMap(ep, tag)
       \/ \E ep \in Endpoints : DriverStop(ep)
    /\ UNCHANGED spiVars

Next ==
    \/ RunStep
    \/ RegisterStep
    \/ SIOStep
    \/ Reset

Spec == Init /\ [][Next]_vars

(***************************************************************************)
(* Properties                                                              *)
(***************************************************************************)
\* The controller never looks at how much dma_read and dma_write have moved:
\* when they fall short it sends words that were never read, or drops words
\* it has received.  They only fall short when a buffer cannot be mapped: the
\* length asked for is never more than apple_sio_dma_remaining has promised
\* (apple_spi_update_xfer_tx, apple_spi_flush_rx).
ShortNeedsBadMapping == short => failed

\* A run that has all it needs when it begins, and whose buffers can be mapped,
\* ends with both counts used up, so that COMPLETE is raised, and with every
\* received word in memory by then (apple_spi_run).
SoundRunCompletes ==
    pc = "done" /\ sound /\ ~failed => txcnt = 0 /\ rxcnt = 0 /\ rxfifo = 0

\* A bound on the steps a run has left.
Fuel ==
    txcnt + rxcnt + (CASE pc = "start" -> 4 [] pc \in {"send", "full"} -> 3
                       [] pc = "generate" -> 2 [] pc = "done" -> 1
                       [] OTHER -> 0)

\* apple_spi_run comes to its end, whatever the FIFOs, the counts and the DMA
\* buffers are, because each turn of its loops uses up some of the counts:
\* otherwise the QEMU lock would never be released.
RunProgresses == [][pc # "idle" => Fuel' < Fuel]_vars
=============================================================================
