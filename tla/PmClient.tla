------------------------------- MODULE PmClient -------------------------------
(***************************************************************************)
(* The power management client (freertos/components/aw/pm_client/pm_msg.c):*)
(* its initialisation by main, before the scheduler starts; the callback   *)
(* that queues each word of the message box; the task that answers the     *)
(* word and, for a Suspend, puts the processor to sleep with every         *)
(* interrupt but the message box's masked.  One core: an interrupt is taken *)
(* between two steps, and its handler runs to its end before the next.     *)
(***************************************************************************)
EXTENDS Naturals, Sequences

CONSTANTS
    Word,          \* the words the remote core sends
    Suspend,       \* PM_DSP_POWER_SUSPEND
    Irq,           \* the interrupts of the core
    Msgbox,        \* MSGBOX_IRQNO
    Level,         \* [Irq -> Nat], the priority level of each interrupt
    Freq,          \* the frequencies of the core
    Low,           \* STANDBY_FREQ
    None,          \* dsp_get_freq failed
    FreqFails,     \* the clock functions may fail
    CreateFails,   \* the queue, the channel or the task may not be had
    Patience,      \* whether the remote core may be one that sends nothing
                   \* after a Suspend until the processor has gone to sleep,
                   \* or one that does: a subset of BOOLEAN
    QueueLength,   \* MSGBOX_PM_XQUEUE_LENTH
    FifoDepth,     \* MSGBOX_MAX_QUEUE
    Window,        \* bound: the words the remote core leaves unanswered
    MaxWords       \* bound: the words the remote core sends

ASSUME WordAssumption == Suspend \in Word
ASSUME LevelAssumption ==
    Msgbox \in Irq /\ Level \in [Irq -> 1..14] /\ Level[Msgbox] > 2
ASSUME FreqAssumption == Low \in Freq /\ None \notin Freq
ASSUME SwitchAssumption ==
    {FreqFails, CreateFails} \subseteq BOOLEAN /\ Patience \subseteq BOOLEAN
ASSUME BoundAssumption ==
    {QueueLength, FifoDepth, Window, MaxWords} \subseteq Nat

VARIABLES
    main,          \* where main is
    patient,       \* the remote core waits after a Suspend
    service,       \* pm_msg_inst.inited; xQueue "none", "live" or "deleted";
                   \* pm_edp is linked into the message box driver
    sent,          \* how many words the remote core has sent
    last,          \* the last word it has sent
    fifo,          \* the words in the receive FIFO
    queue,         \* the words in xQueue
    tx,            \* the words in the send FIFO
    dropped,       \* history: a word has found no room in the queue
    raised,        \* interrupts pending for other handlers, or for another
                   \* endpoint of the message box
    cpu,           \* PS.INTLEVEL, INTENABLE, the scheduler is suspended, the
                   \* frequency
    pc,            \* where the task is
    data,          \* its local variable of that name
    saved,         \* its local variables freq and irq_status
    wanted,        \* history: the frequency and interrupts others asked for
    freqFailed     \* history: a clock function has failed in the task

words == <<sent, last, fifo, queue, tx, dropped>>
past  == <<wanted, freqFailed, patient>>
vars  == <<main, service, words, raised, cpu, pc, data, saved, past>>

WaitLevel == 2        \* the operand of waiti
DisabledLevel == 15   \* xthal_disable_interrupts

Going == {"suspend_all", "get_freq", "low_freq", "disable", "get_enable",
          "mask", "waiti"}
Back == {"unmask", "enable", "old_freq", "resume_all"}

PmTypeOK ==
    /\ main \in {"create_queue", "alloc", "create_task", "publish", "start",
                 "delete", "running"}
    /\ service \in [inited : BOOLEAN, xQueue : {"none", "live", "deleted"},
                    linked : BOOLEAN]
    /\ patient \in Patience
    /\ sent \in 0..MaxWords
    /\ last \in Word /\ data \in Word
    /\ fifo \in Seq(Word) /\ Len(fifo) <= FifoDepth
    /\ queue \in Seq(Word) /\ Len(queue) <= QueueLength
    /\ tx \in Seq(Word) /\ Len(tx) <= FifoDepth
    /\ dropped \in BOOLEAN /\ freqFailed \in BOOLEAN
    /\ raised \subseteq Irq
    /\ cpu \in [level : {0, WaitLevel, DisabledLevel}, enable : SUBSET Irq,
                suspended : BOOLEAN, freq : Freq]
    /\ pc \in {"none", "receive", "answer", "asleep"} \cup Going \cup Back
    /\ saved \in [freq : Freq \cup {None}, enable : SUBSET Irq]
    /\ wanted \in [freq : Freq, enable : SUBSET Irq]

Init ==
    /\ main = "create_queue"
    /\ service = [inited |-> FALSE, xQueue |-> "none", linked |-> FALSE]
    /\ patient \in Patience
    /\ sent = 0 /\ last \in Word \ {Suspend}
    /\ fifo = <<>> /\ queue = <<>> /\ tx = <<>>
    /\ raised = {} /\ dropped = FALSE /\ freqFailed = FALSE
    /\ wanted \in [freq : Freq \ {Low}, enable : {Irq}]
    /\ cpu = [level |-> 0, enable |-> Irq, suspended |-> FALSE,
              freq |-> wanted.freq]
    /\ pc = "none" /\ data = last /\ saved = [freq |-> None, enable |-> {}]

-----------------------------------------------------------------------------
(* The remote core and the interrupt lines (external). *)

Unanswered ==
    Len(fifo) + Len(queue) + Len(tx) + IF pc = "answer" THEN 1 ELSE 0

(* Every word has been taken, and for a Suspend the processor has slept. *)
Settled ==
    fifo = <<>> /\ queue = <<>> /\ pc \in {"receive", "asleep"} \cup Back

RemoteSend(w) ==
    /\ sent < MaxWords
    /\ Len(fifo) < FifoDepth
    /\ Unanswered < Window
    /\ patient /\ last = Suspend => Settled
    /\ sent' = sent + 1
    /\ last' = w
    /\ fifo' = Append(fifo, w)
    /\ UNCHANGED <<main, service, queue, tx, dropped, raised, cpu, pc, data,
                   saved, past>>

RemoteRead ==
    /\ tx # <<>>
    /\ tx' = Tail(tx)
    /\ UNCHANGED <<main, service, sent, last, fifo, queue, dropped, raised,
                   cpu, pc, data, saved, past>>

Raise(i) ==
    /\ raised' = raised \cup {i}
    /\ UNCHANGED <<main, service, words, cpu, pc, data, saved, past>>

-----------------------------------------------------------------------------
(* Interrupts.  waiti completes when the handler has returned. *)

Taken(i) ==
    /\ i \in cpu.enable
    /\ Level[i] > cpu.level
    /\ pc' = IF pc = "asleep" THEN "unmask" ELSE pc
    /\ UNCHANGED <<main, service, sent, last, tx, cpu, data, saved, past>>

(* Mutant: the queue holds one word less. *)
RoomShort == QueueLength - Len(queue) - 1

Room == QueueLength - Len(queue)

Kept == IF service.xQueue # "live" THEN 0
        ELSE IF Len(fifo) <= Room THEN Len(fifo) ELSE Room

(* pm_msg_recv_callback, called for every word of the FIFO by the handler  *)
(* of the message box: a word is lost in a queue that is full or deleted.  *)
MsgboxInterrupt ==
    /\ fifo # <<>>
    /\ service.linked
    /\ Taken(Msgbox)
    /\ queue' = queue \o SubSeq(fifo, 1, Kept)
    /\ dropped' = (dropped \/ Kept < Len(fifo))
    /\ fifo' = <<>>
    /\ UNCHANGED raised

(* Another interrupt, or the message box's for another endpoint. *)
OtherInterrupt(i) ==
    /\ i \in raised
    /\ Taken(i)
    /\ raised' = raised \ {i}
    /\ UNCHANGED <<fifo, queue, dropped>>

-----------------------------------------------------------------------------
(* pm_standby_service_init, called by main before vTaskStartScheduler. *)

Main(from, to, s) ==
    /\ main = from
    /\ main' = to
    /\ service' = s
    /\ UNCHANGED <<words, raised, cpu, data, saved, past>>

(* Mutant: the channel is allocated before the queue exists. *)
CreateQueueLinks ==
    Main("create_queue", "alloc", [service EXCEPT !.linked = TRUE])
    /\ UNCHANGED pc

CreateQueue ==
    Main("create_queue", "alloc", [service EXCEPT !.xQueue = "live"])
    /\ UNCHANGED pc

CreateQueueFails ==
    CreateFails /\ Main("create_queue", "start", service) /\ UNCHANGED pc

AllocChannel ==
    Main("alloc", "create_task", [service EXCEPT !.linked = TRUE])
    /\ UNCHANGED pc

(* Not with the drivers of this repository, whose alloc always returns 0. *)
AllocChannelFails ==
    CreateFails /\ Main("alloc", "delete", service) /\ UNCHANGED pc

CreateTask ==
    Main("create_task", "publish", service) /\ pc' = "receive"

CreateTaskFails ==
    CreateFails /\ Main("create_task", "delete", service) /\ UNCHANGED pc

(* failed_create_task and failed_alloc_channel: vQueueDelete has no defined *)
(* effect on the NULL that xSemaphore is in this build; the queue goes, the *)
(* endpoint stays if there is one.                                         *)
DeleteHandles ==
    Main("delete", "start", [service EXCEPT !.xQueue = "deleted"])
    /\ UNCHANGED pc

Publish ==
    Main("publish", "start", [service EXCEPT !.inited = TRUE])
    /\ UNCHANGED pc

StartScheduler == Main("start", "running", service) /\ UNCHANGED pc

Boot ==
    \/ CreateQueue \/ CreateQueueFails \/ AllocChannel \/ AllocChannelFails
    \/ CreateTask \/ CreateTaskFails \/ DeleteHandles \/ Publish \/ StartScheduler

-----------------------------------------------------------------------------
(* pm_msgbox_dotask. *)

Scheduled == main = "running"

At(point) == Scheduled /\ pc = point

Receive ==
    /\ At("receive")
    /\ queue # <<>>
    /\ data' = Head(queue)
    /\ queue' = Tail(queue)
    /\ pc' = "answer"
    /\ UNCHANGED <<main, service, sent, last, fifo, tx, dropped, raised, cpu,
                   saved, past>>

(* Mutant: only a Suspend is answered. *)
SendSuspendOnly ==
    /\ Len(tx) < FifoDepth
    /\ tx' = IF data = Suspend THEN Append(tx, data) ELSE tx

(* hal_msgbox_channel_send waits for room in the FIFO. *)
SendData == Len(tx) < FifoDepth /\ tx' = Append(tx, data)

(* pm_msgbox_send, which refuses as long as the service is not initialised. *)
Answer ==
    /\ At("answer")
    /\ IF service.inited THEN SendData ELSE UNCHANGED tx
    /\ pc' = IF data = Suspend THEN "suspend_all" ELSE "receive"
    /\ UNCHANGED <<main, service, sent, last, fifo, queue, dropped, raised,
                   cpu, data, saved, past>>

-----------------------------------------------------------------------------
(* pm_dsp_standby. *)

Standby(from, to, c) ==
    /\ At(from)
    /\ pc' = to
    /\ cpu' = c
    /\ UNCHANGED <<main, service, words, raised, data, wanted, patient>>

(* Mutant: the other tasks are not frozen. *)
SuspendAllNot ==
    Standby("suspend_all", "get_freq", cpu) /\ UNCHANGED <<saved, freqFailed>>

SuspendAll ==
    /\ Standby("suspend_all", "get_freq", [cpu EXCEPT !.suspended = TRUE])
    /\ UNCHANGED <<saved, freqFailed>>

GetFreq ==
    /\ Standby("get_freq", "low_freq", cpu)
    /\ \/ /\ saved' = [saved EXCEPT !.freq = cpu.freq]
          /\ UNCHANGED freqFailed
       \/ /\ FreqFails
          /\ saved' = [saved EXCEPT !.freq = None]
          /\ freqFailed' = TRUE

(* dsp_set_freq(f), whose failure is only printed. *)
SetFreq(from, to, f) ==
    /\ UNCHANGED saved
    /\ \/ /\ f # None
          /\ Standby(from, to, [cpu EXCEPT !.freq = f])
          /\ UNCHANGED freqFailed
       \/ /\ FreqFails \/ f = None
          /\ Standby(from, to, cpu)
          /\ freqFailed' = TRUE

DisableInterrupts ==
    /\ Standby("disable", "get_enable", [cpu EXCEPT !.level = DisabledLevel])
    /\ UNCHANGED <<saved, freqFailed>>

GetIntenable ==
    /\ Standby("get_enable", "mask", cpu)
    /\ saved' = [saved EXCEPT !.enable = cpu.enable]
    /\ UNCHANGED freqFailed

(* Mutant: the interrupt of the message box is the one masked. *)
MaskMsgbox ==
    /\ Standby("mask", "waiti",
               [cpu EXCEPT !.enable = saved.enable \ {Msgbox}])
    /\ UNCHANGED <<saved, freqFailed>>

MaskOthers ==
    /\ Standby("mask", "waiti",
               [cpu EXCEPT !.enable = saved.enable \cap {Msgbox}])
    /\ UNCHANGED <<saved, freqFailed>>

Waiti ==
    /\ Standby("waiti", "asleep", [cpu EXCEPT !.level = WaitLevel])
    /\ UNCHANGED <<saved, freqFailed>>

Unmask ==
    /\ Standby("unmask", "enable", [cpu EXCEPT !.enable = saved.enable])
    /\ UNCHANGED <<saved, freqFailed>>

EnableInterrupts ==
    /\ Standby("enable", "old_freq", [cpu EXCEPT !.level = 0])
    /\ UNCHANGED <<saved, freqFailed>>

ResumeAll ==
    /\ Standby("resume_all", "receive", [cpu EXCEPT !.suspended = FALSE])
    /\ UNCHANGED <<saved, freqFailed>>

TaskStep ==
    \/ Receive \/ Answer
    \/ SuspendAll \/ GetFreq \/ SetFreq("low_freq", "disable", Low)
    \/ DisableInterrupts \/ GetIntenable \/ MaskOthers \/ Waiti
    \/ Unmask \/ EnableInterrupts
    \/ SetFreq("old_freq", "resume_all", saved.freq) \/ ResumeAll

(* Another task changes the frequency, or the interrupts its driver has    *)
(* enabled (external).                                                     *)
OtherTask(f, irqs) ==
    /\ Scheduled
    /\ ~cpu.suspended
    /\ Msgbox \in irqs
    /\ cpu' = [cpu EXCEPT !.freq = f, !.enable = irqs]
    /\ wanted' = [freq |-> f, enable |-> irqs]
    /\ UNCHANGED <<main, service, words, raised, pc, data, saved, freqFailed,
                   patient>>

Next ==
    \/ Boot
    \/ TaskStep
    \/ MsgboxInterrupt
    \/ \E i \in Irq : Raise(i) \/ OtherInterrupt(i)
    \/ RemoteRead
    \/ \E w \in Word : RemoteSend(w)
    \/ \E f \in Freq, irqs \in SUBSET Irq : OtherTask(f, irqs)

(* Main runs, an interrupt that stays possible is taken, the task gets the *)
(* processor, and the remote core reads its answers.                       *)
Fairness ==
    /\ WF_vars(Boot)
    /\ WF_vars(TaskStep)
    /\ WF_vars(MsgboxInterrupt)
    /\ WF_vars(RemoteRead)

Spec == Init /\ [][Next]_vars /\ Fairness

-----------------------------------------------------------------------------
(* Hazard: the frequency, the scheduler and the interrupt mask are changed *)
(* in one order and restored in the reverse one.  While the task waits for *)
(* a word they are what the other tasks have last asked for: no change of  *)
(* theirs is undone by the values the standby has saved.                   *)
StandbyUndoesNothing ==
    pc \in {"none", "receive", "answer"} =>
        /\ ~cpu.suspended
        /\ cpu.level = 0
        /\ cpu.enable = wanted.enable
        /\ freqFailed \/ cpu.freq = wanted.freq

(* Hazard: the result of xQueueSendFromISR is ignored.  No word is lost as *)
(* long as the remote core leaves at most QueueLength words unanswered and *)
(* the service could be built, or has at least no endpoint.                *)
NothingDropped ==
    Window <= QueueLength /\ service.xQueue # "deleted" => ~dropped

(* Hazard: the endpoint is allocated, its interrupt enabled, and the task  *)
(* created while main is still building the service.  The callback always  *)
(* finds a queue, though it may be one that has been deleted; and the task *)
(* does not refuse to answer because `inited' is not set.                  *)
BuiltInOrder ==
    /\ service.linked => service.xQueue # "none"
    /\ At("answer") => service.inited

(* pm_standby_service_init has failed, or is about to: no queue to come. *)
Unbuilt ==
    \/ service.xQueue = "deleted"
    \/ service.xQueue = "none" /\ main # "create_queue"

(* Hazard: a word queued after the Suspend and before waiti does not wake  *)
(* the processor.  If the remote core waits for the processor to sleep,    *)
(* every word it sends is answered, unless main, which ignores the result  *)
(* of pm_standby_service_init, goes on without the service.                *)
EveryWordAnswered == patient /\ Unanswered > 0 ~> (Unanswered = 0 \/ Unbuilt)

Promise == INSTANCE PmService WITH
    line    <- (IF pc = "answer" THEN <<data>> ELSE <<>>) \o queue \o fifo,
    answers <- tx,
    power   <- IF Unbuilt THEN "failed"
               ELSE IF pc \in Going THEN "going"
               ELSE IF pc = "asleep" THEN "asleep" ELSE "up"

(* Every word is answered once, in order, and every Suspend answered puts  *)
(* the processor to sleep once and nothing else does.                      *)
ImplementsPmService == Promise!Spec

(* pm_msg.c:203 says of the standby "enter waiti mode and wait msg": the   *)
(* processor sleeps only when no word is left to answer.                   *)
SleepsOnlyWithoutWord == pc = "asleep" => queue = <<>>
=============================================================================
