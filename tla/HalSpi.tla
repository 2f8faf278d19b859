------------------------------- MODULE HalSpi -------------------------------
(***************************************************************************)
(* Transfers of the SPI driver (rtos-hal/hal/source/spi/hal_spi.c) that    *)
(* share the pool of DMA channels with a stream of sound                   *)
(* (rtos-hal/include/hal/sound/dma_wrap.h).                                *)
(*                                                                         *)
(* One task uses each port, and calls hal_spi_xfer again and again.  An    *)
(* interrupt that is enabled and pending is taken before a task goes on.   *)
(* Configuration, the data and the alignment of buffers are left out.      *)
(***************************************************************************)
EXTENDS HalDma, FiniteSetsExt

CONSTANTS
    Port,           \* the ports
    Sound,          \* the stream, as the parameter of a callback
    Kinds,          \* Kinds[p]: the transfers port p is used for
    MaxFailures     \* bound on what goes wrong

(* What the constants are. *)
SpiParameters ==
    /\ NrMaxChan \in Nat \ {0}
    /\ Sound \notin Port /\ None \notin Port \cup {Sound}
    /\ None \notin Chan
    /\ Kinds \in [Port -> SUBSET {"tx", "rx", "duplex", "write", "read"}]
    /\ MaxFailures \in Nat

VARIABLES
    spi,            \* g_sunxi_spi, and the call of hal_spi_xfer
    bus,            \* the controller of each port
    stream          \* the stream of sound, and its channel

vars == <<chan, dmac, spi, bus, stream>>

(* A controller that is not used.  moved: the data has been written to, or *)
(* read from, its FIFO; over: the transfer on the bus has ended; late: one *)
(* that a former call has given up has not.                                *)
AtRest == [on |-> FALSE, moved |-> FALSE, over |-> FALSE, late |-> FALSE,
           stat |-> {}, en |-> {}]

(* A port between calls.  clean, of a call: nothing was left of former     *)
(* ones when it began; ret is what the last call returns; failures counts  *)
(* the time-outs, the errors of the controller, and the calls that got no  *)
(* channel or descriptor.                                                  *)
IdlePort ==
    [pc |-> "idle", kind |-> None, result |-> "ready", sem |-> FALSE,
     semTx |-> 0, semRx |-> 0, chan |-> None, clean |-> FALSE,
     ret |-> "none", failures |-> 0]

Init ==
    /\ DmaInit
    /\ spi = [p \in Port |-> IdlePort]
    /\ bus = [p \in Port |-> AtRest]
    /\ stream = [pc |-> "closed", chan |-> None]

SpiTypeOK ==
    /\ DmaTypeOK
    /\ \A p \in Port :
        /\ spi[p].pc \in {"idle", "request", "submit", "read", "wait", "stop",
                          "free"}
        /\ spi[p].result \in {"ready", "ok", "failed"}
        /\ spi[p].semTx \in Nat /\ spi[p].semRx \in Nat
        /\ spi[p].ret \in {"none", "ok", "error"}
        /\ bus[p].stat \cup bus[p].en \subseteq {"tc", "err"}
    /\ stream.pc \in {"closed", "open", "running"}

-----------------------------------------------------------------------------
(* Interrupts preempt the tasks. *)
SpiPending(p) == bus[p].stat \cap bus[p].en # {}
Quiet == ~DmaPending /\ \A p \in Port : ~SpiPending(p)

At(p, pc) == Quiet /\ spi[p].pc = pc

(* The call returns. *)
Return(record, ret) ==
    [record EXCEPT !.pc = "idle", !.kind = None, !.chan = None,
                   !.clean = FALSE, !.ret = ret]

Unfinished(p) == bus[p].late \/ (bus[p].on /\ ~bus[p].over)

(* A call that returns does not stop the controller, nor disable an        *)
(* interrupt that has not come.                                            *)
Leave(p) ==
    bus' = [bus EXCEPT ![p] =
              [AtRest EXCEPT !.late = Unfinished(p),
                             !.en = bus[p].en]]

MayFail == MapThenSumSet(LAMBDA p : spi[p].failures, Port) < MaxFailures

(* The call fails before there is anything to wait for. *)
Fail(p) ==
    /\ MayFail
    /\ spi' = [spi EXCEPT ![p] = [Return(spi[p], "error") EXCEPT
                                   !.failures = @ + 1]]
    /\ Leave(p)

(* No semaphore, and no transfer, is left of former calls. *)
NothingLeft(p) ==
    spi[p].semTx = 0 /\ spi[p].semRx = 0 /\ ~spi[p].sem /\ ~bus[p].late

(* Where a call of each kind goes on. *)
FirstStep(kind) ==
    CASE kind = "write" -> "wait" [] kind = "read" -> "read"
      [] OTHER -> "request"

(* hal_spi_xfer to spi_start_xfer, which a receive by DMA postpones; the   *)
(* end of a receive is that of its DMA, so the TC interrupt is disabled.   *)
(* Only the FIFOs and the status of the controller are reset.  What a      *)
(* "write" writes (at most BULK_DATA_BOUNDARY bytes) fits in the FIFO:     *)
(* when spi_cpu_write gives up it has written the last byte.  More may go  *)
(* before a receive; if it gives up there the transfer is never over.      *)
Begin(p) ==
    /\ At(p, "idle")
    /\ \E kind \in Kinds[p] :
        /\ spi' = [spi EXCEPT
                     ![p].pc = FirstStep(kind),
                     ![p].kind = kind, ![p].result = "ready",
                     ![p].sem = @ \/ kind = "tx", ![p].ret = "none",
                     ![p].clean = NothingLeft(p)]
        /\ bus' = [bus EXCEPT ![p] =
                     [on |-> kind # "rx", moved |-> kind = "write",
                      over |-> FALSE, late |-> bus[p].late, stat |-> {},
                      en |-> IF kind \in {"rx", "duplex"} THEN {"err"}
                             ELSE {"tc", "err"}]]
    /\ UNCHANGED <<chan, dmac, stream>>

(* spi_cpu_read has one budget of polls for all its bytes.  If it runs out *)
(* the call gives up, or takes a byte before it has come and goes on,      *)
(* since poll_time has wrapped round; nobody looks at the result.          *)
CpuRead(p) ==
    /\ At(p, "read")
    /\ \E all \in {FALSE, bus[p].over} :
          bus' = [bus EXCEPT ![p].moved = all]
    /\ spi' = [spi EXCEPT ![p].pc = "wait"]
    /\ UNCHANGED <<chan, dmac, stream>>

(* spi_dma_tx_config and spi_dma_rx_config ask for a channel. *)
Config(p) ==
    /\ At(p, "request")
    /\ \/ \E c \in Chan :
            /\ Request(c)
            /\ spi' = [spi EXCEPT ![p].pc = "submit", ![p].chan = c]
            /\ UNCHANGED bus
       \/ /\ Busy
          /\ Fail(p)
          /\ UNCHANGED <<chan, dmac>>
    /\ UNCHANGED stream

(* spi_dma_tx_submit and spi_dma_rx_submit: descriptor, callback (of a     *)
(* receive), start, and then spi_start_xfer of a receive.  Without memory  *)
(* for the descriptor the call fails and the channel stays used.           *)
Prep(p) ==
    /\ At(p, "submit") /\ ~chan[spi[p].chan].desc
    /\ \/ /\ PrepDevice(spi[p].chan)
          /\ UNCHANGED <<spi, bus>>
       \/ /\ Fail(p)
          /\ UNCHANGED <<chan, dmac>>
    /\ UNCHANGED stream

Install(p) ==
    /\ At(p, "submit") /\ chan[spi[p].chan].desc
    /\ spi[p].kind # "tx" /\ chan[spi[p].chan].callback # p
    /\ CallbackInstall(spi[p].chan, p)
    /\ UNCHANGED <<spi, bus, stream>>

Submit(p) ==
    /\ At(p, "submit") /\ chan[spi[p].chan].desc
    /\ spi[p].kind = "tx" \/ chan[spi[p].chan].callback = p
    /\ Start(spi[p].chan)
    /\ spi' = [spi EXCEPT ![p].pc = "wait"]
    /\ bus' = [bus EXCEPT ![p].on = TRUE]
    /\ UNCHANGED stream

(* spi_dma_tx_complete: the semaphore, and then the result. *)
TxComplete(p) ==
    /\ At(p, "wait") /\ spi[p].kind = "tx" /\ spi[p].semTx > 0
    /\ spi' = [spi EXCEPT
                 ![p].pc = "stop", ![p].semTx = @ - 1,
                 ![p].ret = IF spi[p].result = "failed" THEN "error"
                            ELSE "ok"]
    /\ UNCHANGED <<chan, dmac, bus, stream>>

(* A time-out gives the semaphore to nobody: the next call will take it. *)
TxTimeout(p) ==
    /\ At(p, "wait") /\ spi[p].kind = "tx" /\ spi[p].semTx = 0
    /\ MayFail
    /\ spi' = [spi EXCEPT
                 ![p].pc = "stop", ![p].semTx = @ + 1,
                 ![p].result = "failed", ![p].ret = "error",
                 ![p].failures = @ + 1]
    /\ UNCHANGED <<chan, dmac, bus, stream>>

(* spi_dma_rx_complete does not look at the result the interrupt handler   *)
(* has set.  Both interrupts of the port are disabled at its end.          *)
RxComplete(p) ==
    /\ At(p, "wait") /\ spi[p].kind \in {"rx", "duplex"}
    /\ \/ /\ spi[p].semRx > 0
          /\ spi' = [spi EXCEPT ![p].pc = "stop", ![p].semRx = @ - 1,
                                ![p].result = "ok", ![p].ret = "ok"]
       \/ /\ spi[p].semRx = 0 /\ MayFail
          /\ spi' = [spi EXCEPT
                       ![p].pc = "stop", ![p].result = "failed",
                       ![p].ret = "error", ![p].failures = @ + 1]
    /\ bus' = [bus EXCEPT ![p].en = {}]
    /\ UNCHANGED <<chan, dmac, stream>>

(* spi_cpu_complete polls the result.  At the end of its patience timeout  *)
(* has wrapped round, so that the time-out is not seen and OK returned; it *)
(* is seen when the result comes in the very last round.                   *)
CpuComplete(p) ==
    /\ At(p, "wait") /\ spi[p].kind \in {"write", "read"}
    /\ \/ /\ spi[p].result # "ready"
          /\ \E ret \in {"error"} \cup
                        (IF spi[p].result = "ok" THEN {"ok"} ELSE {}) :
              spi' = [spi EXCEPT ![p] = Return(@, ret)]
       \/ /\ spi[p].result = "ready" /\ MayFail
          /\ spi' = [spi EXCEPT
                       ![p] = [Return(spi[p], "ok") EXCEPT
                                 !.failures = @ + 1]]
    /\ Leave(p)
    /\ UNCHANGED <<chan, dmac, stream>>

(* hal_dma_stop and hal_dma_chan_free, whatever the wait came to *)
StopDma(p) ==
    /\ At(p, "stop")
    /\ Stop(spi[p].chan)
    /\ spi' = [spi EXCEPT ![p].pc = "free"]
    /\ UNCHANGED <<bus, stream>>

FreeDma(p) ==
    /\ At(p, "free")
    /\ ChanFree(spi[p].chan)
    /\ spi' = [spi EXCEPT ![p] = Return(@, spi[p].ret)]
    /\ Leave(p)
    /\ UNCHANGED stream

-----------------------------------------------------------------------------
(* Interrupts. *)

(* spi_irq_handler: of a transfer that is over and had an error, only the  *)
(* first is seen.                                                          *)
SpiIrqHandler(p) ==
    /\ SpiPending(p)
    /\ bus' = [bus EXCEPT ![p].stat = {}, ![p].en = {}]
    /\ spi' = [spi EXCEPT
                 ![p].result = IF "tc" \in bus[p].stat THEN "ok"
                               ELSE "failed",
                 ![p].sem = FALSE,
                 ![p].semTx = IF spi[p].sem THEN @ + 1 ELSE @]
    /\ UNCHANGED <<chan, dmac, stream>>

(* The interrupt of the DMA, with the callbacks: that of a receive gives   *)
(* its semaphore, that of the stream stops it when it has run dry.         *)
DmaInterrupt ==
    LET streams == {c \in Served : chan[c].callback = Sound}
    IN \E stopped \in {{}, streams} :
        /\ DmaIrqHandle(stopped)
        /\ spi' = [p \in Port |->
                     IF \E c \in Served : chan[c].callback = p
                     THEN [spi[p] EXCEPT !.semRx = @ + 1] ELSE spi[p]]
        /\ stream' = IF stopped # {} THEN [stream EXCEPT !.pc = "open"]
                     ELSE stream
        /\ UNCHANGED bus

-----------------------------------------------------------------------------
(* The stream of sound: open, trigger with the stream locked, and close. *)

StreamOpen ==
    /\ Quiet /\ stream.pc = "closed"
    /\ \E c \in Chan :
        /\ Request(c)
        /\ stream' = [pc |-> "open", chan |-> c]
    /\ UNCHANGED <<spi, bus>>

(* dmaengine_pcm_prepare_and_submit and dma_async_issue_pending *)
StreamStart ==
    /\ Quiet /\ stream.pc = "open"
    /\ LET c == stream.chan
           ready == [PreparedCyclic(chan[c]) EXCEPT !.callback = Sound]
           started == Started(ready, dmac[c])
       IN \/ /\ chan' = [chan EXCEPT ![c] = started[1]]
             /\ dmac' = [dmac EXCEPT ![c] = started[2]]
             /\ stream' = [stream EXCEPT !.pc = "running"]
          \/ CyclicNoMem(c) /\ UNCHANGED stream
    /\ UNCHANGED <<spi, bus>>

StreamStop ==
    /\ Quiet /\ stream.pc = "running"
    /\ Stop(stream.chan)
    /\ stream' = [stream EXCEPT !.pc = "open"]
    /\ UNCHANGED <<spi, bus>>

StreamClose ==
    /\ Quiet /\ stream.pc = "open"
    /\ ChanFree(stream.chan)
    /\ stream' = [pc |-> "closed", chan |-> None]
    /\ UNCHANGED <<spi, bus>>

-----------------------------------------------------------------------------
(* The hardware. *)

User(c) == {p \in Port : spi[p].chan = c /\ spi[p].pc # "idle"}

(* The DMA moves what the bus asks for: all of a transmission before it is *)
(* over, the last of a receive when it is.                                 *)
DmaWorks ==
    \E c \in Chan :
        /\ Worked(c)
        /\ \A p \in User(c) :
            bus[p].on /\ (spi[p].kind # "tx" => bus[p].over)
        /\ bus' = [p \in Port |->
                     IF p \in User(c)
                     THEN [bus[p] EXCEPT !.moved = TRUE]
                     ELSE bus[p]]
        /\ UNCHANGED <<spi, stream>>

(* The transfer is over when everything has been sent, or has come. *)
BusOver(p) ==
    /\ bus[p].on /\ ~bus[p].over
    /\ bus[p].moved \/ spi[p].kind \in {"rx", "duplex", "read"}
    /\ bus' = [bus EXCEPT ![p].over = TRUE, ![p].stat = @ \cup {"tc"}]
    /\ UNCHANGED <<chan, dmac, spi, stream>>

(* So is one that a former call has given up: the status bit is the same. *)
LateOver(p) ==
    /\ bus[p].late
    /\ bus' = [bus EXCEPT ![p].late = FALSE, ![p].stat = @ \cup {"tc"}]
    /\ UNCHANGED <<chan, dmac, spi, stream>>

BusError(p) ==
    /\ Unfinished(p)
    /\ "err" \in bus[p].en \ bus[p].stat
    /\ MayFail
    /\ bus' = [bus EXCEPT ![p].stat = @ \cup {"err"}]
    /\ spi' = [spi EXCEPT ![p].failures = @ + 1]
    /\ UNCHANGED <<chan, dmac, stream>>

CallStep(p) ==
    \/ Begin(p) \/ CpuRead(p) \/ Config(p) \/ Prep(p) \/ Install(p) \/ Submit(p)
    \/ TxComplete(p) \/ TxTimeout(p) \/ RxComplete(p) \/ CpuComplete(p)
    \/ StopDma(p) \/ FreeDma(p)

Next ==
    \/ \E p \in Port :
          \/ CallStep(p) \/ SpiIrqHandler(p)
          \/ BusOver(p) \/ LateOver(p) \/ BusError(p)
    \/ DmaInterrupt \/ DmaWorks
    \/ StreamOpen \/ StreamStart \/ StreamStop \/ StreamClose

Spec == Init /\ [][Next]_vars

-----------------------------------------------------------------------------
(* Properties. *)

ReturnsOk(p) ==
    spi[p].pc # "idle" /\ spi'[p].pc = "idle" /\ spi'[p].ret = "ok"

(* Hazard: hal_spi_xfer ends with a semaphore that two interrupt handlers  *)
(* and a time-out give, and a result that it may not look at.  When a call *)
(* returns OK the words have been sent, or received by the DMA, and those  *)
(* that the processor receives have come: of every call, after failures    *)
(* too, that finds neither a semaphore nor a transfer of a former one, and *)
(* does not return by the time-out that is not seen.                       *)
DoneWhenReturned ==
    [][\A p \in Port :
         ReturnsOk(p) /\ spi[p].clean /\ spi[p].result # "ready" =>
             bus[p].over /\ (bus[p].moved \/ spi[p].kind = "read")
      ]_vars

(* hal_spi.c:1502 says of hal_spi_xfer "wait for done completion in this   *)
(* function": of every call that returns OK, its words have been sent, or  *)
(* received and read.                                                      *)
WaitsForDone ==
    [][\A p \in Port : ReturnsOk(p) => bus[p].over /\ bus[p].moved]_vars

(* A channel has one user.                                                 *)
Exclusive ==
    \A c \in Chan :
        /\ \A p, q \in User(c) : p = q
        /\ stream.chan = c => User(c) = {}

(* A channel calls back nobody but who has it.                             *)
CallsOwner ==
    \A c \in Chan : chan[c].callback # None =>
        chan[c].callback \in
            User(c) \cup (IF stream.chan = c THEN {Sound} ELSE {})

(* A channel nobody has is at rest and interrupts nobody.                  *)
FreeAtRest ==
    \A c \in Chan :
        ~chan[c].used => dmac[c].run = "off" /\ dmac[c].en = {}

(* Hazard: the record of a channel outlives its owner, and the handler     *)
(* goes by it: what a former owner installed (hal_dma_callback_install)    *)
(* or enabled must be gone when the channel has a new one, which may       *)
(* install no callback; and the descriptor whose length the handler reads  *)
(* must be there, although a callback may have stopped the channel.        *)
ChannelsOwned ==
    Exclusive /\ CallsOwner /\ FreeAtRest /\ RingHasDescriptor
=============================================================================
