------------------------------ MODULE MsgboxAmp ------------------------------
(***************************************************************************)
(* The receive side of the AMP message box driver                          *)
(* (rtos-hal/hal/source/msgbox/msgbox_amp/msgbox_amp.c): the list of       *)
(* endpoints `it_edp', linked and unlinked by tasks under `it_edp_mutex',  *)
(* walked by the interrupt handler, which drains the hardware FIFO of the  *)
(* channel of every endpoint it meets and hands each word to the           *)
(* endpoint's `rec' callback.                                              *)
(*                                                                         *)
(* One core: the handler preempts a task between any two of its accesses   *)
(* and no task runs before the handler returns.  Only the remote core acts *)
(* while the handler runs.                                                 *)
(***************************************************************************)
EXTENDS Naturals, Sequences

CONSTANTS
    Endpoint,      \* the msg_endpoint objects of the program
    Channel,       \* the read channels of the one remote core modelled
    ReadCh,        \* [Endpoint -> Channel], the channel each caller asks for
    Static,        \* the endpoints that are never freed (rpaf_medp, pm_edp)
    Task,          \* the tasks that allocate and free endpoints
    Null,          \* the NULL pointer, and the holder of a free mutex
    StaleNext,     \* what `next' may hold in an endpoint handed to alloc: an
                   \* endpoint on a stack is not cleared (msgbox_demo.c:105);
                   \* memory that is none is read as some endpoint
    LevelStatus,   \* the status bit is set while the FIFO holds a word; if
                   \* FALSE it is latched when a word arrives
    FifoDepth,     \* MSGBOX_MAX_QUEUE
    MaxWords       \* bound: words the remote core sends on a channel

ASSUME ReadChAssumption == ReadCh \in [Endpoint -> Channel]
ASSUME NullAssumption == Null \notin Endpoint /\ Null \notin Task
ASSUME StaticAssumption == Static \subseteq Endpoint
ASSUME StaleNextAssumption == StaleNext \subseteq Endpoint \cup {Null}
ASSUME StatusAssumption == LevelStatus \in BOOLEAN
ASSUME BoundAssumption == FifoDepth \in Nat \ {0} /\ MaxWords \in Nat

VARIABLES
    head,          \* it_edp
    next,          \* the `next' field of each endpoint
    mutexCount,    \* it_edp_mutex: uxMessagesWaiting, 0 or 1
    mutexHolder,   \* it_edp_mutex: xMutexHolder
    irqEn,         \* the channels enabled in the interrupt enable register
    irqSta,        \* the channels whose interrupt status bit is set
    fifo,          \* the words in the hardware FIFO of each channel
    sent,          \* how many words the remote core has sent on a channel
    received,      \* the words `rec' was called with, per endpoint
    isrPc,         \* where the interrupt handler is
    isrCur,        \* its loop variable t
    pc,            \* where each task is
    ep,            \* the endpoint each task is working on
    cur,           \* its loop variable t
    reg,           \* its copy of the interrupt enable register
    opened,        \* history: endpoints whose alloc has returned and whose
                   \* free has not been called
    muted          \* history: those of them whose channel the free of another
                   \* endpoint of that channel has switched off

hardware == <<irqEn, irqSta, fifo, sent>>
list     == <<head, next>>
mutex    == <<mutexCount, mutexHolder>>
isr      == <<isrPc, isrCur, received>>
history  == <<opened, muted>>
tasks    == <<pc, ep, cur, reg, history>>
vars     == <<hardware, list, mutex, isr, tasks>>

Pointer == Endpoint \cup {Null}
IsrPoints == {"idle", "drain", "clear", "unlock"}
AllocPoints == {"alloc_lock", "alloc_walk", "alloc_null", "alloc_unlock",
                "enable_read", "enable_write"}
FreePoints == {"disable_read", "disable_write", "free_lock", "free_first",
               "free_walk", "free_unlock"}

TypeOK ==
    /\ head \in Pointer
    /\ next \in [Endpoint -> Pointer]
    /\ mutexCount \in {0, 1}
    /\ mutexHolder \in Task \cup {Null}
    /\ irqEn \subseteq Channel
    /\ irqSta \subseteq Channel
    /\ fifo \in [Channel -> Seq(Nat)]
    /\ sent \in [Channel -> Nat]
    /\ received \in [Endpoint -> Seq(Nat)]
    /\ isrPc \in IsrPoints
    /\ isrCur \in Pointer
    /\ pc \in [Task -> {"idle"} \cup AllocPoints \cup FreePoints]
    /\ ep \in [Task -> Pointer]
    /\ cur \in [Task -> Pointer]
    /\ reg \in [Task -> SUBSET Channel]
    /\ opened \subseteq Endpoint
    /\ muted \subseteq opened

Init ==
    /\ head = Null
    /\ next = [e \in Endpoint |-> Null]
    /\ mutexCount = 1
    /\ mutexHolder = Null
    /\ irqEn = {}
    /\ irqSta = {}
    /\ fifo = [c \in Channel |-> <<>>]
    /\ sent = [c \in Channel |-> 0]
    /\ received = [e \in Endpoint |-> <<>>]
    /\ isrPc = "idle"
    /\ isrCur = Null
    /\ pc = [t \in Task |-> "idle"]
    /\ ep = [t \in Task |-> Null]
    /\ cur = [t \in Task |-> Null]
    /\ reg = [t \in Task |-> {}]
    /\ opened = {}
    /\ muted = {}

-----------------------------------------------------------------------------
(* The list as a set: the endpoints that a walk from pointer h along the   *)
(* pointers n meets are the least set that is closed under following them. *)

Closed(S, h, n) ==
    /\ h # Null => h \in S
    /\ \A e \in S : n[e] # Null => n[e] \in S

Reachable(h, n) ==
    {e \in Endpoint : \A S \in SUBSET Endpoint : Closed(S, h, n) => e \in S}

(* Between `t->next = edp' and `edp->next = NULL' the `next' of the new     *)
(* last endpoint is what its caller left there.  The list is meant to end   *)
(* with that endpoint; a walk that starts now goes on to wherever a pointer *)
(* that is not NULL leads.                                                  *)
Settled ==
    [e \in Endpoint |->
        IF \E t \in Task : pc[t] = "alloc_null" /\ ep[t] = e THEN Null ELSE next[e]]

OnList == Reachable(head, Settled)

StaleLink == \E t \in Task : pc[t] = "alloc_null" /\ next[ep[t]] # Null

SameChannel(e) == {f \in Endpoint : ReadCh[f] = ReadCh[e]}

(* The endpoint is the argument of a call in progress. *)
Busy(e) == \E t \in Task : pc[t] # "idle" /\ ep[t] = e

-----------------------------------------------------------------------------
(* The remote core and the hardware (external). *)

RemoteSend(c) ==
    /\ Len(fifo[c]) < FifoDepth
    /\ sent[c] < MaxWords
    /\ sent' = [sent EXCEPT ![c] = @ + 1]
    /\ fifo' = [fifo EXCEPT ![c] = Append(@, sent[c] + 1)]
    /\ irqSta' = irqSta \cup {c}
    /\ UNCHANGED <<irqEn, list, mutex, isr, tasks>>

(* Writing 1 to a status bit: a level bit stays set while words remain. *)
StatusCleared(c) ==
    IF LevelStatus /\ fifo[c] # <<>> THEN irqSta ELSE irqSta \ {c}

-----------------------------------------------------------------------------
(* irq_msgbox_handler and irq_msgbox_channel_handler.  hal_mutex_lock in   *)
(* interrupt context takes the mutex if it is free and otherwise fails;    *)
(* the handler does not look at the result, walks the list, and gives the  *)
(* mutex back whether or not it has taken it.                              *)

IsrEnter ==
    /\ isrPc = "idle"
    /\ irqEn \cap irqSta # {}
    /\ mutexCount' = 0
    /\ isrCur' = head
    /\ isrPc' = IF head = Null THEN "unlock" ELSE "drain"
    /\ UNCHANGED <<hardware, list, mutexHolder, received, tasks>>

(* Mutant: the FIFO is flushed and only its oldest word handed over. *)
IsrReadFlushes ==
    /\ isrPc = "drain"
    /\ fifo[ReadCh[isrCur]] # <<>>
    /\ fifo' = [fifo EXCEPT ![ReadCh[isrCur]] = <<>>]
    /\ received' = [received EXCEPT
                      ![isrCur] = Append(@, Head(fifo[ReadCh[isrCur]]))]
    /\ UNCHANGED <<irqEn, irqSta, sent, list, mutex, isrPc, isrCur, tasks>>

IsrRead ==
    /\ isrPc = "drain"
    /\ fifo[ReadCh[isrCur]] # <<>>
    /\ fifo' = [fifo EXCEPT ![ReadCh[isrCur]] = Tail(@)]
    /\ received' = [received EXCEPT
                      ![isrCur] = Append(@, Head(fifo[ReadCh[isrCur]]))]
    /\ UNCHANGED <<irqEn, irqSta, sent, list, mutex, isrPc, isrCur, tasks>>

IsrDrained ==
    /\ isrPc = "drain"
    /\ fifo[ReadCh[isrCur]] = <<>>
    /\ isrPc' = "clear"
    /\ UNCHANGED <<hardware, list, mutex, isrCur, received, tasks>>

IsrClear ==
    /\ isrPc = "clear"
    /\ irqSta' = StatusCleared(ReadCh[isrCur])
    /\ isrCur' = next[isrCur]
    /\ isrPc' = IF next[isrCur] = Null THEN "unlock" ELSE "drain"
    /\ UNCHANGED <<irqEn, fifo, sent, list, mutex, received, tasks>>

IsrUnlock ==
    /\ isrPc = "unlock"
    /\ mutexCount' = 1
    /\ isrPc' = "idle"
    /\ UNCHANGED <<hardware, list, mutexHolder, isrCur, received, tasks>>

IsrStep == IsrEnter \/ IsrRead \/ IsrDrained \/ IsrClear \/ IsrUnlock

-----------------------------------------------------------------------------
(* Tasks.  Every action of a task needs the handler to be idle. *)

At(t, point) == isrPc = "idle" /\ pc[t] = point
Goto(t, point) == pc' = [pc EXCEPT ![t] = point]

(* hal_mutex_lock in a task blocks; hal_mutex_unlock fails without effect  *)
(* when the handler has already given the mutex back.                      *)
Lock(t) ==
    /\ mutexCount = 1
    /\ mutexCount' = 0
    /\ mutexHolder' = t

(* Mutant: the give does not check that the semaphore is below its maximum. *)
UnlockUnchecked(t) ==
    /\ mutexCount' = mutexCount + 1
    /\ mutexHolder' = Null

Unlock(t) ==
    IF mutexCount = 0
    THEN mutexCount' = 1 /\ mutexHolder' = Null
    ELSE UNCHANGED mutex

(* hal_msgbox_alloc_channel: called with an endpoint that is not in use. *)
AllocCall(t, e, stale) ==
    /\ At(t, "idle")
    /\ e \notin opened
    /\ ~Busy(e)
    /\ next' = [next EXCEPT ![e] = stale]
    /\ ep' = [ep EXCEPT ![t] = e]
    /\ Goto(t, "alloc_lock")
    /\ UNCHANGED <<hardware, head, mutex, isr, cur, reg, history>>

AllocLock(t) ==
    /\ At(t, "alloc_lock")
    /\ Lock(t)
    /\ cur' = [cur EXCEPT ![t] = head]
    /\ Goto(t, "alloc_walk")
    /\ UNCHANGED <<hardware, list, isr, ep, reg, history>>

AllocFirst(t) ==
    /\ At(t, "alloc_walk")
    /\ cur[t] = Null
    /\ head' = ep[t]
    /\ Goto(t, "alloc_null")
    /\ UNCHANGED <<hardware, next, mutex, isr, ep, cur, reg, history>>

AllocWalk(t) ==
    /\ At(t, "alloc_walk")
    /\ cur[t] # Null
    /\ next[cur[t]] # Null
    /\ cur' = [cur EXCEPT ![t] = next[cur[t]]]
    /\ UNCHANGED <<hardware, list, mutex, isr, pc, ep, reg, history>>

AllocAppend(t) ==
    /\ At(t, "alloc_walk")
    /\ cur[t] # Null
    /\ next[cur[t]] = Null
    /\ next' = [next EXCEPT ![cur[t]] = ep[t]]
    /\ Goto(t, "alloc_null")
    /\ UNCHANGED <<hardware, head, mutex, isr, ep, cur, reg, history>>

(* Mutant: `next' stays as the caller left it. *)
AllocNullMissing(t) ==
    /\ At(t, "alloc_null")
    /\ Goto(t, "alloc_unlock")
    /\ UNCHANGED <<hardware, list, mutex, isr, ep, cur, reg, history>>

AllocNull(t) ==
    /\ At(t, "alloc_null")
    /\ next' = [next EXCEPT ![ep[t]] = Null]
    /\ Goto(t, "alloc_unlock")
    /\ UNCHANGED <<hardware, head, mutex, isr, ep, cur, reg, history>>

AllocUnlock(t) ==
    /\ At(t, "alloc_unlock")
    /\ Unlock(t)
    /\ Goto(t, "enable_read")
    /\ UNCHANGED <<hardware, list, isr, ep, cur, reg, history>>

(* msgbox_enable_rec_int: read, modify and write of a register that holds  *)
(* the bits of every channel, outside the mutex.                           *)
(* Mutant: the register is set to the bit of this channel alone. *)
EnableReadOverwrites(t) ==
    /\ At(t, "enable_read")
    /\ reg' = [reg EXCEPT ![t] = {ReadCh[ep[t]]}]
    /\ Goto(t, "enable_write")
    /\ UNCHANGED <<hardware, list, mutex, isr, ep, cur, history>>

EnableRead(t) ==
    /\ At(t, "enable_read")
    /\ reg' = [reg EXCEPT ![t] = irqEn \cup {ReadCh[ep[t]]}]
    /\ Goto(t, "enable_write")
    /\ UNCHANGED <<hardware, list, mutex, isr, ep, cur, history>>

EnableWrite(t) ==
    /\ At(t, "enable_write")
    /\ irqEn' = reg[t]
    /\ opened' = opened \cup {ep[t]}
    /\ muted' = muted \ SameChannel(ep[t])
    /\ Goto(t, "idle")
    /\ UNCHANGED <<irqSta, fifo, sent, list, mutex, isr, ep, cur, reg>>

(* hal_msgbox_free_channel: called with an endpoint in use. *)
FreeCall(t, e) ==
    /\ At(t, "idle")
    /\ e \in opened \ Static
    /\ opened' = opened \ {e}
    /\ muted' = muted \ {e}
    /\ ep' = [ep EXCEPT ![t] = e]
    /\ Goto(t, "disable_read")
    /\ UNCHANGED <<hardware, list, mutex, isr, cur, reg>>

(* Mutant: the bit is not masked out before the register is written back. *)
DisableReadKeeps(t) ==
    /\ At(t, "disable_read")
    /\ reg' = [reg EXCEPT ![t] = irqEn]
    /\ Goto(t, "disable_write")
    /\ UNCHANGED <<hardware, list, mutex, isr, ep, cur, history>>

DisableRead(t) ==
    /\ At(t, "disable_read")
    /\ reg' = [reg EXCEPT ![t] = irqEn \ {ReadCh[ep[t]]}]
    /\ Goto(t, "disable_write")
    /\ UNCHANGED <<hardware, list, mutex, isr, ep, cur, history>>

DisableWrite(t) ==
    /\ At(t, "disable_write")
    /\ irqEn' = reg[t]
    /\ muted' = muted \cup (opened \cap SameChannel(ep[t]))
    /\ Goto(t, "free_lock")
    /\ UNCHANGED <<irqSta, fifo, sent, list, mutex, isr, ep, cur, reg, opened>>

FreeLock(t) ==
    /\ At(t, "free_lock")
    /\ Lock(t)
    /\ Goto(t, "free_first")
    /\ UNCHANGED <<hardware, list, isr, ep, cur, reg, history>>

FreeFirst(t) ==
    /\ At(t, "free_first")
    /\ head = ep[t]
    /\ head' = next[head]
    /\ Goto(t, "free_unlock")
    /\ UNCHANGED <<hardware, next, mutex, isr, ep, cur, reg, history>>

FreeSeek(t) ==
    /\ At(t, "free_first")
    /\ head # ep[t]
    /\ cur' = [cur EXCEPT ![t] = head]
    /\ Goto(t, "free_walk")
    /\ UNCHANGED <<hardware, list, mutex, isr, ep, reg, history>>

FreeWalk(t) ==
    /\ At(t, "free_walk")
    /\ next[cur[t]] \notin {Null, ep[t]}
    /\ cur' = [cur EXCEPT ![t] = next[cur[t]]]
    /\ UNCHANGED <<hardware, list, mutex, isr, pc, ep, reg, history>>

(* Mutant: the walk ends one endpoint early and unlinks nothing. *)
FreeUnlinkMisses(t) ==
    /\ At(t, "free_walk")
    /\ next[cur[t]] \in {Null, ep[t]}
    /\ Goto(t, "free_unlock")
    /\ UNCHANGED <<hardware, list, mutex, isr, ep, cur, reg, history>>

(* Mutant: the endpoints behind the one unlinked go with it. *)
FreeUnlinkTruncates(t) ==
    /\ At(t, "free_walk")
    /\ next[cur[t]] \in {Null, ep[t]}
    /\ next' = [next EXCEPT ![cur[t]] = Null]
    /\ Goto(t, "free_unlock")
    /\ UNCHANGED <<hardware, head, mutex, isr, ep, cur, reg, history>>

FreeUnlink(t) ==
    /\ At(t, "free_walk")
    /\ next[cur[t]] \in {Null, ep[t]}
    /\ next' = IF next[cur[t]] = ep[t]
               THEN [next EXCEPT ![cur[t]] = next[ep[t]]] ELSE next
    /\ Goto(t, "free_unlock")
    /\ UNCHANGED <<hardware, head, mutex, isr, ep, cur, reg, history>>

FreeUnlock(t) ==
    /\ At(t, "free_unlock")
    /\ Unlock(t)
    /\ Goto(t, "idle")
    /\ UNCHANGED <<hardware, list, isr, ep, cur, reg, history>>

(* What a task does once it has called one of the two functions. *)
TaskStep(t) ==
    \/ AllocLock(t) \/ AllocFirst(t) \/ AllocWalk(t) \/ AllocAppend(t)
    \/ AllocNull(t) \/ AllocUnlock(t) \/ EnableRead(t) \/ EnableWrite(t)
    \/ DisableRead(t) \/ DisableWrite(t) \/ FreeLock(t) \/ FreeFirst(t)
    \/ FreeSeek(t) \/ FreeWalk(t) \/ FreeUnlink(t) \/ FreeUnlock(t)

TaskCall(t) ==
    \E e \in Endpoint :
        \/ \E stale \in StaleNext : AllocCall(t, e, stale)
        \/ FreeCall(t, e)

Next ==
    \/ \E c \in Channel : RemoteSend(c)
    \/ IsrStep
    \/ \E t \in Task : TaskStep(t) \/ TaskCall(t)

(* The handler runs when its interrupt is raised and finishes; a task that *)
(* is inside one of the functions goes on.  Nothing makes a task call them *)
(* or the remote core send.                                                *)
Fairness == WF_vars(IsrStep) /\ \A t \in Task : WF_vars(TaskStep(t))

Spec == Init /\ [][Next]_vars /\ Fairness
-----------------------------------------------------------------------------
(* An allocation that has returned stays in force until the endpoint is    *)
(* freed: every endpoint in use can be reached from `it_edp', nothing else  *)
(* can but the argument of a call in progress, and the list has an end.     *)
(* This is the list once the store of NULL that follows a link is done.     *)
RegistryIntact ==
    /\ opened \subseteq OnList
    /\ \A e \in OnList : e \in opened \/ Busy(e)
    /\ head = Null \/ \E e \in OnList : Settled[e] = Null

(* The handler never calls the `rec' of an endpoint that is neither in use  *)
(* nor being linked or unlinked: the caller may have released its memory    *)
(* (msgbox_demo frees an endpoint on its stack and returns).  Only a walk   *)
(* that interrupts an allocation before `edp->next = NULL', with an         *)
(* endpoint whose caller has not cleared that field, may go astray.         *)
NoCallbackAfterFree ==
    isrPc \in {"drain", "clear"} =>
        isrCur \in opened \/ Busy(isrCur) \/ StaleLink

(* A channel whose interrupt is enabled has an endpoint on the list: the    *)
(* handler can always empty the FIFO and so silence a raised interrupt.     *)
(* hal_msgbox_alloc_channel links before it enables, and                    *)
(* hal_msgbox_free_channel disables before it unlinks.  And the interrupt   *)
(* of an endpoint in use is enabled, unless the free of another endpoint of *)
(* its channel has switched it off.                                         *)
NoOrphanInterrupt ==
    /\ \A c \in irqEn : \E e \in OnList : ReadCh[e] = c
    /\ \A e \in opened \ muted : ReadCh[e] \in irqEn

(* The handler gives `it_edp_mutex' back only when no task holds it, as     *)
(* xQueueGiveFromISR asserts.                                               *)
GivenFromIsrOnlyUnheld ==
    isrPc = "unlock" => mutexHolder = Null

(* The handler returns: it meets the end of the list, and a FIFO that       *)
(* empties, every time it runs but on a list that ends in a stale pointer.  *)
HandlerReturns == isrPc # "idle" ~> isrPc = "idle" \/ StaleLink

(* A word in the FIFO of an endpoint in use is handed over, although the    *)
(* interrupt may be raised before the endpoint is linked, while the handler *)
(* runs, or while another endpoint is linked or unlinked; also on a channel *)
(* that several endpoints read, until one of them is freed: that free       *)
(* switches the interrupt of the channel off for the others as well, until  *)
(* the next allocation on it.                                               *)
Attended(e) == e \in opened /\ e \notin muted

WordsDelivered ==
    \A e \in Endpoint :
        Attended(e) /\ fifo[ReadCh[e]] # <<>>
            ~> fifo[ReadCh[e]] = <<>> \/ ~Attended(e) \/ StaleLink

(* The driver implements the service its callers rely on: the open         *)
(* endpoints are those on the list, and whatever the handler and the tasks  *)
(* interleave, a step that hands a word over hands the oldest word of its   *)
(* channel to an endpoint of that channel, and one that is on the list      *)
(* unless the walk has followed a stale pointer.                            *)
Promise == INSTANCE MsgboxService
               WITH open <- OnList, inbox <- fifo, Word <- 1 .. MaxWords

StrayStep == StaleLink /\ \E e \in Endpoint : Promise!Deliver(e)

ImplementsService ==
    Promise!ServiceInit /\ [][Promise!ServiceNext \/ StrayStep]_Promise!serviceVars
=============================================================================
