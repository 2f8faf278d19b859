------------------------------- MODULE HalDma -------------------------------
(***************************************************************************)
(* The pool of DMA channels: rtos-hal/hal/source/dma/hal_dma.c.            *)
(*                                                                         *)
(* Every function of the interface works under dma_lock with interrupts    *)
(* masked, so that each is one step on the channel and its registers; the  *)
(* definitions below are those steps, for the modules of the drivers to    *)
(* use.  The processor has one core: the interrupt handler preempts the    *)
(* tasks and runs to its end.  Addresses, widths and bursts are left out.  *)
(***************************************************************************)
EXTENDS Naturals

CONSTANTS
    NrMaxChan,      \* NR_MAX_CHAN
    None            \* no callback

VARIABLES
    chan,           \* dma_chan_source
    dmac            \* the registers of each channel

Chan == 1 .. NrMaxChan

(* IRQ_PKG: a descriptor has been worked off; IRQ_QUEUE: the last one has. *)
Irq == {"pkg", "queue"}

(* hal_dma_init.  irq_type is 0 until the first start. *)
DmaInit ==
    /\ chan = [c \in Chan |-> [used |-> FALSE, desc |-> FALSE,
                               cyclic |-> FALSE, irqType |-> None,
                               callback |-> None]]
    /\ dmac = [c \in Chan |-> [en |-> {}, stat |-> {}, run |-> "off"]]

DmaTypeOK ==
    /\ \A c \in Chan :
        /\ chan[c].used \in BOOLEAN /\ chan[c].desc \in BOOLEAN
        /\ chan[c].cyclic \in BOOLEAN
        /\ chan[c].irqType \in Irq \cup {None}
    /\ dmac \in [Chan -> [en : SUBSET Irq, stat : SUBSET Irq,
                          run : {"off", "once", "loop"}]]

-----------------------------------------------------------------------------
(* The functions of the interface. *)

(* The channel hal_dma_chan_request finds: the first that is not used. *)
FirstFree(c) ==
    ~chan[c].used /\ \A e \in Chan : e < c => chan[e].used

Busy == \A c \in Chan : chan[c].used

(* Only used is set: irq_type is still that of the former owner. *)
Request(c) ==
    /\ FirstFree(c)
    /\ chan' = [chan EXCEPT ![c].used = TRUE]
    /\ UNCHANGED dmac

(* hal_dma_prep_device and hal_dma_prep_memcpy: one descriptor. *)
PrepDevice(c) ==
    /\ chan' = [chan EXCEPT ![c].desc = TRUE]
    /\ UNCHANGED dmac

(* hal_dma_callback_install, and the assignments of the SPI driver *)
CallbackInstall(c, callback) ==
    /\ chan' = [chan EXCEPT ![c].callback = callback]
    /\ UNCHANGED dmac

(* A channel that hal_dma_start has started. *)
Started(record, registers) ==
    LET type == IF record.cyclic THEN "pkg" ELSE "queue"
    IN <<[record EXCEPT !.irqType = type],
         [registers EXCEPT !.en = @ \cup {type},
                           !.run = IF record.cyclic THEN "loop" ELSE "once"]>>

Start(c) ==
    LET started == Started(chan[c], dmac[c])
    IN /\ chan' = [chan EXCEPT ![c] = started[1]]
       /\ dmac' = [dmac EXCEPT ![c] = started[2]]

(* hal_dma_prep_cyclic frees the old descriptors before it links new ones. *)
PreparedCyclic(record) == [record EXCEPT !.desc = TRUE, !.cyclic = TRUE]

(* The same without memory for all of the new ones. *)
CyclicNoMem(c) ==
    /\ \E some \in BOOLEAN : chan' = [chan EXCEPT ![c].desc = some]
    /\ UNCHANGED dmac

(* hal_dma_stop: the descriptors and the interrupt enable stay. *)
Stopped(record) == [record EXCEPT !.cyclic = FALSE]

Stop(c) ==
    /\ chan' = [chan EXCEPT ![c] = Stopped(@)]
    /\ dmac' = [dmac EXCEPT ![c].run = "off"]

(* Mutant: the descriptors are freed, but the callback stays. *)
FreeIllKeeps(record) == [record EXCEPT !.desc = FALSE]

(* sunxi_dma_free_ill *)
FreeIll(record) == [record EXCEPT !.desc = FALSE, !.callback = None]

(* hal_dma_chan_free: the enable bit of the last irq_type is cleared. *)
ChanFree(c) ==
    /\ chan[c].used
    /\ chan' = [chan EXCEPT ![c] = [FreeIll(@) EXCEPT !.used = FALSE]]
    /\ dmac' = [dmac EXCEPT ![c].en = @ \ {chan[c].irqType}]

-----------------------------------------------------------------------------
(* The hardware and the interrupt. *)

(* The descriptor of a transfer, or one of the ring, has been worked off. *)
Worked(c) ==
    /\ dmac[c].run # "off"
    /\ dmac' = IF dmac[c].run = "once"
               THEN [dmac EXCEPT ![c].stat = Irq, ![c].run = "off"]
               ELSE [dmac EXCEPT ![c].stat = @ \cup {"pkg"}]
    /\ UNCHANGED chan

DmaPending == \E c \in Chan : dmac[c].stat \cap dmac[c].en # {}

(* Mutant: the status of the channel is not looked at. *)
ServedUsed == {c \in Chan : chan[c].used}

(* The channels whose callbacks sunxi_dma_irq_handle calls. *)
Served == {c \in Chan : chan[c].used /\ chan[c].irqType \in dmac[c].stat}

(* sunxi_dma_irq_handle: every status bit is cleared, those of channels    *)
(* that did not ask for an interrupt too.  A callback may stop its own     *)
(* channel: the lock is dropped for it.                                    *)
DmaIrqHandle(stopped) ==
    /\ DmaPending
    /\ chan' = [c \in Chan |-> IF c \in stopped THEN Stopped(chan[c])
                               ELSE chan[c]]
    /\ dmac' = [c \in Chan |->
                    [dmac[c] EXCEPT !.stat = {},
                                    !.run = IF c \in stopped THEN "off"
                                            ELSE @]]

(* What the handler takes for granted: the descriptor whose length it      *)
(* reads is there.                                                         *)
RingHasDescriptor ==
    \A c \in Chan : chan[c].used /\ chan[c].cyclic => chan[c].desc
=============================================================================
