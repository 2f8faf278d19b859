---------------------------- MODULE KernelQueue ----------------------------
(***************************************************************************)
(* A queue of the FreeRTOS kernel (FreeRTOS/queue.c) with the part of the  *)
(* scheduler its calls rely on (tasks.c).  The calls of a task are cut     *)
(* where an interrupt or a task switch may come in between: at the critical *)
(* sections, and while the scheduler is suspended and the queue locked.    *)
(***************************************************************************)
EXTENDS Integers, Sequences, FiniteSets

CONSTANTS
    Task,
    Priority,      \* [Task -> Nat]
    Ops,           \* [Task -> what it may call]: "back", "front",
                   \* "overwrite", "receive", "peek"
    Waits,         \* the block times: "none", "finite", "forever"
    IsrOps,        \* what interrupts call
    Item,
    Length,        \* uxLength
    LockMax,       \* the largest value of cTxLock and cRxLock, INT8_MAX
    IsrBurst,      \* bound: interrupts of a kind while the queue is locked
    None

VARIABLES
    q,             \* the storage, pcWriteTo, pcReadFrom, uxMessagesWaiting,
                   \* cTxLock and cRxLock
    waitSend,      \* xTasksWaitingToSend
    waitRecv,      \* xTasksWaitingToReceive
    sched,         \* the running task; the one that suspended the scheduler;
                   \* the ready tasks; xPendingReadyList
    call,          \* per task: where it is, its operation, item and block
                   \* time, and whether that has run out
    taken          \* history: the item taken or looked at last

vars == <<q, waitSend, waitRecv, sched, call, taken>>

Unlocked == -1
Unmodified == 0

Sends == {"back", "front", "overwrite"}
Points == {"idle", "try", "suspend", "lock", "timeout", "check", "place",
           "unlock_tx", "unlock_rx", "resume", "late"}

KqTypeOK ==
    /\ q \in [buf : [0..Length - 1 -> Item], write : 0..Length - 1,
              read : 0..Length - 1, waiting : 0..Length,
              tx : -LockMax - 1..LockMax, rx : -LockMax - 1..LockMax]
    /\ waitSend \subseteq Task /\ waitRecv \subseteq Task
    /\ sched \in [current : Task, suspender : Task \cup {None},
                  ready : SUBSET Task, pending : SUBSET Task]
    /\ call \in [Task -> [pc : Points, op : Sends \cup {"receive", "peek"},
                          item : Item \cup {None}, expired : BOOLEAN,
                          wait : {"none", "finite", "forever"},
                          next : {"try", "fail"}]]
    /\ taken \in Item

NoCall == [pc |-> "idle", op |-> "receive", item |-> None, wait |-> "none",
           expired |-> FALSE, next |-> "try"]

(* xQueueGenericReset of a new queue *)
Init ==
    /\ \E x \in Item :
         /\ q = [buf |-> [i \in 0..Length - 1 |-> x], write |-> 0,
                 read |-> Length - 1, waiting |-> 0,
                 tx |-> Unlocked, rx |-> Unlocked]
         /\ taken = x
    /\ call = [t \in Task |-> NoCall]
    /\ waitSend = {} /\ waitRecv = {}
    /\ \E t \in Task : sched = [current |-> t, suspender |-> None,
                                ready |-> Task, pending |-> {}]

-----------------------------------------------------------------------------
(* The ring: prvCopyDataToQueue and prvCopyDataFromQueue. *)

Up(p) == IF p + 1 >= Length THEN 0 ELSE p + 1
Down(p) == IF p - 1 < 0 THEN Length - 1 ELSE p - 1

(* Mutant: the item in front is written after the pointer has moved. *)
PutMoved(r, x, position) ==
    IF position = "back"
    THEN [r EXCEPT !.buf[r.write] = x, !.write = Up(@), !.waiting = @ + 1]
    ELSE [r EXCEPT !.buf[Down(r.read)] = x, !.read = Down(@),
                   !.waiting = IF position = "overwrite" /\ @ > 0 THEN @
                               ELSE @ + 1]

Put(r, x, position) ==
    IF position = "back"
    THEN [r EXCEPT !.buf[r.write] = x, !.write = Up(@), !.waiting = @ + 1]
    ELSE [r EXCEPT !.buf[r.read] = x, !.read = Down(@),
                   !.waiting = IF position = "overwrite" /\ @ > 0 THEN @
                               ELSE @ + 1]

First(r) == r.buf[Up(r.read)]
Got(r) == [r EXCEPT !.read = Up(@), !.waiting = @ - 1]

Room(r, op) == r.waiting < Length \/ op = "overwrite"

(* The sequence the ring stands for. *)
Items(r) == [i \in 1..r.waiting |-> r.buf[(r.read + i) % Length]]

-----------------------------------------------------------------------------
(* The scheduler. *)

Highest(S) == {t \in S : \A u \in S : Priority[u] <= Priority[t]}

(* n tasks that xTaskRemoveFromEventList takes from list, one by one.  *)
Firsts(list, n) ==
    {S \in SUBSET list :
        /\ Cardinality(S) = IF n < Cardinality(list) THEN n
                            ELSE Cardinality(list)
        /\ \A t \in S, u \in list \ S : Priority[u] <= Priority[t]}

Readied(S) ==
    IF sched.suspender = None THEN [sched EXCEPT !.ready = @ \cup S]
    ELSE [sched EXCEPT !.pending = @ \cup S]

WakeReceivers(n) ==
    \E S \in Firsts(waitRecv, n) :
        /\ waitRecv' = waitRecv \ S
        /\ sched' = Readied(S)
        /\ UNCHANGED waitSend

WakeSenders(n) ==
    \E S \in Firsts(waitSend, n) :
        /\ waitSend' = waitSend \ S
        /\ sched' = Readied(S)
        /\ UNCHANGED waitRecv

(* A yield, or the tick: not only to a task of a higher priority at once,  *)
(* because a handler that ignores pxHigherPriorityTaskWoken leaves the     *)
(* switch to the next tick.                                                *)
SwitchContext ==
    /\ sched.suspender = None
    /\ \E t \in Highest(sched.ready) \ {sched.current} :
         sched' = [sched EXCEPT !.current = t]
    /\ UNCHANGED <<q, waitSend, waitRecv, call, taken>>

(* Mutant: the task is made ready and stays on its event list. *)
TimePassesListed(t) ==
    /\ sched.suspender = None
    /\ call[t].pc # "idle" /\ call[t].wait = "finite" /\ ~call[t].expired
    /\ call' = [call EXCEPT ![t].expired = TRUE]
    /\ sched' = [sched EXCEPT !.ready = @ \cup {t}]
    /\ UNCHANGED <<q, waitSend, waitRecv, taken>>

(* xTaskIncrementTick finds that the block time of t is over.  While the   *)
(* scheduler is suspended ticks are only counted.                          *)
TimePasses(t) ==
    /\ sched.suspender = None
    /\ call[t].pc # "idle" /\ call[t].wait = "finite" /\ ~call[t].expired
    /\ call' = [call EXCEPT ![t].expired = TRUE]
    /\ sched' = [sched EXCEPT !.ready = @ \cup {t}]
    /\ waitSend' = waitSend \ {t}
    /\ waitRecv' = waitRecv \ {t}
    /\ UNCHANGED <<q, taken>>

-----------------------------------------------------------------------------
(* xQueueGenericSend, xQueueReceive and xQueuePeek, by the running task. *)

At(t, point) ==
    /\ sched.current = t
    /\ t \in sched.ready
    /\ call[t].pc = point

Goto(t, point) == call' = [call EXCEPT ![t].pc = point]
Return(t) == call' = [call EXCEPT ![t] = NoCall]

Call(t) ==
    /\ At(t, "idle")
    /\ \E op \in Ops[t], wait \in Waits,
          x \in Item \cup {None} :
         /\ op \in Sends <=> x # None
         /\ call' = [call EXCEPT ![t] = [pc |-> "try", op |-> op, item |-> x,
                                         wait |-> wait, expired |-> FALSE,
                                         next |-> "try"]]
    /\ UNCHANGED <<q, waitSend, waitRecv, sched, taken>>

Peek(t) ==
    /\ At(t, "try") /\ call[t].op = "peek"
    /\ q.waiting > 0
    /\ taken' = First(q)
    /\ WakeReceivers(1)
    /\ Return(t)
    /\ UNCHANGED q

Receive(t) ==
    /\ At(t, "try") /\ call[t].op = "receive"
    /\ q.waiting > 0
    /\ taken' = First(q)
    /\ q' = Got(q)
    /\ WakeSenders(1)
    /\ Return(t)

Send(t) ==
    /\ At(t, "try") /\ call[t].op \in Sends
    /\ Room(q, call[t].op)
    /\ q' = Put(q, call[t].item, call[t].op)
    /\ WakeReceivers(1)
    /\ Return(t)
    /\ UNCHANGED taken

Blocked(r, op) == IF op \in Sends THEN ~Room(r, op) ELSE r.waiting = 0

(* No room or no item: return at once, or prepare to block. *)
TryFails(t) ==
    /\ At(t, "try")
    /\ Blocked(q, call[t].op)
    /\ IF call[t].wait = "none" THEN Return(t) ELSE Goto(t, "suspend")
    /\ UNCHANGED <<q, waitSend, waitRecv, sched, taken>>

SuspendAll(t) ==
    /\ At(t, "suspend")
    /\ sched' = [sched EXCEPT !.suspender = t]
    /\ Goto(t, "lock")
    /\ UNCHANGED <<q, waitSend, waitRecv, taken>>

Locked(lock) == IF lock = Unlocked THEN Unmodified ELSE lock

(* prvLockQueue *)
LockQueue(t) ==
    /\ At(t, "lock")
    /\ q' = [q EXCEPT !.tx = Locked(@), !.rx = Locked(@)]
    /\ Goto(t, "timeout")
    /\ UNCHANGED <<waitSend, waitRecv, sched, taken>>

(* xTaskCheckForTimeOut; a send that is late fails. *)
CheckForTimeOut(t) ==
    /\ At(t, "timeout")
    /\ call' = [call EXCEPT ![t].pc = IF call[t].expired
                                      THEN "unlock_tx" ELSE "check",
                            ![t].next = IF call[t].expired THEN "fail"
                                        ELSE "try",
                            ![t].wait = IF call[t].expired THEN "none"
                                        ELSE @]
    /\ UNCHANGED <<q, waitSend, waitRecv, sched, taken>>

(* prvIsQueueFull, prvIsQueueEmpty *)
CheckQueue(t) ==
    /\ At(t, "check")
    /\ Goto(t, IF Blocked(q, call[t].op) THEN "place" ELSE "unlock_tx")
    /\ UNCHANGED <<q, waitSend, waitRecv, sched, taken>>

(* vTaskPlaceOnEventList *)
PlaceOnEventList(t) ==
    /\ At(t, "place")
    /\ IF call[t].op \in Sends
       THEN waitSend' = waitSend \cup {t} /\ UNCHANGED waitRecv
       ELSE waitRecv' = waitRecv \cup {t} /\ UNCHANGED waitSend
    /\ Goto(t, "unlock_tx")
    /\ UNCHANGED <<q, sched, taken>>

(* Mutant: the interrupts that came while the queue was locked are missed. *)
UnlockTxForgets(t) ==
    /\ At(t, "unlock_tx")
    /\ q' = [q EXCEPT !.tx = Unlocked]
    /\ Goto(t, "unlock_rx")
    /\ UNCHANGED <<waitSend, waitRecv, sched, taken>>

(* prvUnlockQueue *)
UnlockTx(t) ==
    /\ At(t, "unlock_tx")
    /\ WakeReceivers(IF q.tx > Unmodified THEN q.tx ELSE 0)
    /\ q' = [q EXCEPT !.tx = Unlocked]
    /\ Goto(t, "unlock_rx")
    /\ UNCHANGED taken

UnlockRx(t) ==
    /\ At(t, "unlock_rx")
    /\ WakeSenders(IF q.rx > Unmodified THEN q.rx ELSE 0)
    /\ q' = [q EXCEPT !.rx = Unlocked]
    /\ Goto(t, "resume")
    /\ UNCHANGED taken

(* xTaskResumeAll, and the yield of a task that has placed itself on a     *)
(* list and was not woken meanwhile.  In the list of ready tasks it is as  *)
(* long as it runs.                                                        *)
ResumeAll(t) ==
    /\ At(t, "resume")
    /\ LET listed == t \in waitSend \cup waitRecv
           ready == (sched.ready \ IF listed THEN {t} ELSE {})
                        \cup sched.pending
       IN  sched' = [sched EXCEPT !.suspender = None, !.pending = {},
                                  !.ready = ready]
    /\ CASE call[t].next = "try" -> Goto(t, "try")
         [] call[t].next = "fail" /\ call[t].op \in Sends -> Return(t)
         [] call[t].next = "fail" /\ call[t].op \notin Sends -> Goto(t, "late")
    /\ UNCHANGED <<q, waitSend, waitRecv, taken>>

(* A receive that is late looks once more. *)
LateReceive(t) ==
    /\ At(t, "late")
    /\ IF q.waiting = 0 THEN Return(t) ELSE Goto(t, "try")
    /\ UNCHANGED <<q, waitSend, waitRecv, sched, taken>>

-----------------------------------------------------------------------------
(* Interrupts: xQueueGenericSendFromISR and xQueueReceiveFromISR. *)

(* A lock count is a signed byte. *)
Counted(lock) == IF lock = LockMax THEN -LockMax - 1 ELSE lock + 1

IsrSend(x) ==
    /\ \E op \in IsrOps \cap Sends :
         /\ Room(q, op) /\ q.tx < IsrBurst
         /\ IF q.tx = Unlocked
            THEN q' = Put(q, x, op) /\ WakeReceivers(1)
            ELSE /\ q' = [Put(q, x, op) EXCEPT !.tx = Counted(@)]
                 /\ UNCHANGED <<waitSend, waitRecv, sched>>
    /\ UNCHANGED <<call, taken>>

IsrReceive ==
    /\ "receive" \in IsrOps
    /\ q.waiting > 0 /\ q.rx < IsrBurst
    /\ taken' = First(q)
    /\ IF q.rx = Unlocked
       THEN q' = Got(q) /\ WakeSenders(1)
       ELSE /\ q' = [Got(q) EXCEPT !.rx = Counted(@)]
            /\ UNCHANGED <<waitSend, waitRecv, sched>>
    /\ UNCHANGED call

TaskStep(t) ==
    \/ Call(t) \/ Send(t) \/ Receive(t) \/ Peek(t) \/ TryFails(t)
    \/ SuspendAll(t) \/ LockQueue(t) \/ CheckForTimeOut(t) \/ CheckQueue(t)
    \/ PlaceOnEventList(t) \/ UnlockTx(t) \/ UnlockRx(t) \/ ResumeAll(t)
    \/ LateReceive(t)

Next ==
    \/ \E t \in Task : TaskStep(t) \/ TimePasses(t)
    \/ SwitchContext
    \/ \E x \in Item : IsrSend(x)
    \/ IsrReceive

Spec == Init /\ [][Next]_vars

-----------------------------------------------------------------------------
(* A task in a call that will look at the queue again. *)
Looks(t) ==
    /\ call[t].pc # "idle"
    /\ t \in sched.ready \cup sched.pending
    /\ t \notin waitSend \cup waitRecv

(* Hazard: an item or a place that comes while a task is on its way to the *)
(* list of waiting tasks.  Nobody is left waiting for what is there: some  *)
(* task is still to look at the queue, or the unlocking will wake one.     *)
NoLostWakeup ==
    /\ q.waiting > 0 /\ waitRecv # {} =>
          \/ q.tx > Unmodified
          \/ \E t \in Task : call[t].op \notin Sends /\ Looks(t)
    /\ q.waiting < Length /\ waitSend # {} =>
          \/ q.rx > Unmodified
          \/ \E t \in Task : call[t].op \in Sends /\ Looks(t)

(* Hazard: the event lists may not be touched by an interrupt while a task *)
(* works on them, and a task is woken from one list only.  A task that     *)
(* waits is on one event list and not ready, one that is ready is on none, *)
(* but for the task that is about to yield.                                *)
ListsConsistent ==
    /\ waitSend \cap waitRecv = {}
    /\ sched.pending \cap (waitSend \cup waitRecv) = {}
    /\ \A t \in sched.ready \cap (waitSend \cup waitRecv) : sched.suspender = t
    /\ \A t \in Task \ sched.ready :
          t \in waitSend \cup waitRecv \cup sched.pending
    /\ q.tx # Unlocked \/ q.rx # Unlocked => sched.suspender # None

Promise == INSTANCE QueueService WITH items <- Items(q)

(* The ring of pointers, written and read by tasks and interrupts at       *)
(* either end, is a sequence of at most Length items.                      *)
ImplementsQueueService == Promise!Spec
=============================================================================
