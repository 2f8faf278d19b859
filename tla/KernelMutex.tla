---------------------------- MODULE KernelMutex ----------------------------
(***************************************************************************)
(* Mutexes of the FreeRTOS kernel: xQueueSemaphoreTake, the give of        *)
(* xQueueGenericSend, the recursive pair, and the inheritance of           *)
(* priorities in tasks.c.  Interrupts do not use mutexes, and ticks are    *)
(* held back while the scheduler is suspended, so that from vTaskSuspendAll *)
(* to xTaskResumeAll a call is one step.                                   *)
(***************************************************************************)
EXTENDS Integers, Sequences, SequencesExt, FiniteSets

CONSTANTS
    Task,
    Base,          \* [Task -> Nat], uxBasePriority
    Mutex,
    Recursive,     \* the mutexes that are taken with the recursive pair
    MaxDepth,      \* bound: how often a task takes a mutex it has
    NestedWaits,   \* whether a task that has a mutex waits for another
    Idle,          \* the idle task: always ready, uses no mutexes
    NoTask

VARIABLES
    mutex,         \* per mutex: xMutexHolder, uxRecursiveCallCount and
                   \* xTasksWaitingToReceive; it can be taken without holder
    prio,          \* uxPriority, and the value of the event list item
    held,          \* uxMutexesHeld
    current,       \* pxCurrentTCB
    ready,         \* the tasks in the ready lists
    call,          \* per task: where in xQueueSemaphoreTake it is
    fallen         \* history: a give that woke a task of no higher priority
                   \* went on although a third task was to run

vars == <<mutex, prio, held, current, ready, call, fallen>>

MutexParameters ==
    /\ NoTask \notin Task
    /\ Idle \in Task
    /\ Base \in [Task -> Nat]
    /\ \A t \in Task : Base[Idle] <= Base[t]
    /\ IsFiniteSet(Mutex) /\ Mutex # {} /\ Recursive \subseteq Mutex
    /\ MaxDepth \in Nat \ {0}
    /\ NestedWaits \in BOOLEAN

Points == {"idle", "try", "block", "late", "disinherit"}

NoCall(m) == [pc |-> "idle", mutex |-> m, wait |-> "none", expired |-> FALSE,
              inherited |-> FALSE]

KmTypeOK ==
    /\ mutex \in [Mutex -> [holder : Task \cup {NoTask}, depth : 0..MaxDepth,
                            waiting : Seq(Task)]]
    /\ prio \in [Task -> {Base[t] : t \in Task}]
    /\ held \in [Task -> 0..Cardinality(Mutex)]
    /\ current \in ready /\ ready \subseteq Task
    /\ call \in [Task -> [pc : Points, mutex : Mutex, expired : BOOLEAN,
                          inherited : BOOLEAN,
                          wait : {"none", "finite"}]]
    /\ fallen \in BOOLEAN

Highest(S, p) == {t \in S : \A u \in S : p[u] <= p[t]}

Init ==
    /\ mutex = [m \in Mutex |-> [holder |-> NoTask, depth |-> 0,
                                 waiting |-> <<>>]]
    /\ prio = Base
    /\ held = [t \in Task |-> 0]
    /\ ready = Task
    /\ current \in Highest(Task, Base)
    /\ call = [t \in Task |-> NoCall(CHOOSE m \in Mutex : TRUE)]
    /\ fallen = FALSE

-----------------------------------------------------------------------------
At(t, point) == current = t /\ call[t].pc = point
Goto(t, point) == call' = [call EXCEPT ![t].pc = point]
Return(t) == call' = [call EXCEPT ![t] = NoCall(call[t].mutex)]

(* portYIELD: one of the highest ready priority; it may be the same again. *)
Yield == current' \in Highest(ready', prio')

(* A task is made ready, and runs at once if its priority is higher. *)
Readied(t) ==
    /\ ready' = ready \cup {t}
    /\ IF t \notin ready /\ prio[t] >= prio[current]
       THEN current' \in Highest(ready', prio)
       ELSE UNCHANGED current

(* vListInsert: behind those of its priority, before the lower ones. *)
Place(list, t) ==
    {k \in 1 .. Len(list) + 1 :
        /\ \A i \in 1 .. k - 1 : prio[list[i]] >= prio[t]
        /\ k <= Len(list) => prio[list[k]] < prio[t]}

(* Mutant: the holder keeps its priority. *)
InheritNothing(h, t) == prio

(* xTaskPriorityInherit: the priority of the holder, and whether the call  *)
(* counts as an inheritance.                                               *)
Inherit(h, t) ==
    IF h # NoTask /\ prio[h] < prio[t] THEN [prio EXCEPT ![h] = prio[t]]
    ELSE prio
Inherited(h, t) == h # NoTask /\ (prio[h] < prio[t] \/ Base[h] < prio[t])

(* Mutant: an inherited priority falls with the first mutex of two only. *)
DisinheritLate(t) == IF held[t] > 1 THEN [prio EXCEPT ![t] = Base[t]] ELSE prio

(* xTaskPriorityDisinherit *)
Disinherit(t) ==
    IF held[t] = 1 THEN [prio EXCEPT ![t] = Base[t]] ELSE prio

-----------------------------------------------------------------------------
(* A tick lets another task run if there is one of the same priority. *)
Tick ==
    /\ \E t \in ready \ {current} : prio[t] = prio[current]
    /\ current' \in Highest(ready, prio) \ {current}
    /\ UNCHANGED <<mutex, prio, held, ready, call, fallen>>

(* xTaskIncrementTick: the block time of t is over. *)
TimePasses(t) ==
    /\ call[t].wait = "finite" /\ ~call[t].expired
    /\ call' = [call EXCEPT ![t].expired = TRUE]
    /\ Readied(t)
    /\ IF t \in ready THEN UNCHANGED mutex
       ELSE \E i \in DOMAIN mutex[call[t].mutex].waiting :
              /\ mutex[call[t].mutex].waiting[i] = t
              /\ mutex' = [mutex EXCEPT ![call[t].mutex].waiting =
                                            RemoveAt(@, i)]
    /\ UNCHANGED <<prio, held, fallen>>

(* The task waits for something else, a delay or an event, and goes on. *)
Rest(t) ==
    /\ At(t, "idle")
    /\ ready' = ready \ {t}
    /\ current' \in Highest(ready', prio)
    /\ UNCHANGED <<mutex, prio, held, call, fallen>>

Rested(t) ==
    /\ call[t].pc = "idle" /\ t \notin ready
    /\ Readied(t)
    /\ UNCHANGED <<mutex, prio, held, call, fallen>>

(* A wait without end is one whose time does not run out. *)
Take(t) ==
    /\ At(t, "idle")
    /\ \E m \in Mutex, wait \in {"none", "finite"} :
         /\ mutex[m].holder # t
         /\ held[t] > 0 /\ wait # "none" => NestedWaits
         /\ call' = [call EXCEPT ![t] = [NoCall(m) EXCEPT !.pc = "try",
                                                          !.wait = wait]]
    /\ UNCHANGED <<mutex, prio, held, current, ready, fallen>>

(* xQueueTakeMutexRecursive of a mutex it has *)
TakeAgain(t) ==
    /\ At(t, "idle")
    /\ \E m \in Recursive :
         /\ mutex[m].holder = t /\ mutex[m].depth < MaxDepth
         /\ mutex' = [mutex EXCEPT ![m].depth = @ + 1]
    /\ UNCHANGED <<prio, held, current, ready, call, fallen>>

TryTakes(t) ==
    /\ At(t, "try")
    /\ mutex[call[t].mutex].holder = NoTask
    /\ mutex' = [mutex EXCEPT ![call[t].mutex].holder = t,
                              ![call[t].mutex].depth = 1]
    /\ held' = [held EXCEPT ![t] = @ + 1]
    /\ Return(t)
    /\ UNCHANGED <<prio, current, ready, fallen>>

TryFails(t) ==
    /\ At(t, "try")
    /\ mutex[call[t].mutex].holder # NoTask
    /\ IF call[t].wait = "none" THEN Return(t) ELSE Goto(t, "block")
    /\ UNCHANGED <<mutex, prio, held, current, ready, fallen>>

(* vTaskSuspendAll to xTaskResumeAll: too late, no longer held, or to sleep. *)
BlockLate(t) ==
    /\ At(t, "block") /\ call[t].expired
    /\ call' = [call EXCEPT ![t].pc = "late", ![t].wait = "none"]
    /\ UNCHANGED <<mutex, prio, held, current, ready, fallen>>

BlockRetries(t) ==
    /\ At(t, "block") /\ ~call[t].expired
    /\ mutex[call[t].mutex].holder = NoTask
    /\ Goto(t, "try")
    /\ UNCHANGED <<mutex, prio, held, current, ready, fallen>>

Block(t) ==
    /\ At(t, "block") /\ ~call[t].expired
    /\ LET m == call[t].mutex
           h == mutex[m].holder
       IN  /\ h # NoTask
           /\ prio' = Inherit(h, t)
           /\ call' = [call EXCEPT ![t].pc = "try",
                                   ![t].inherited = Inherited(h, t)]
           /\ \E k \in Place(mutex[m].waiting, t) :
                mutex' = [mutex EXCEPT ![m].waiting = InsertAt(@, k, t)]
    /\ ready' = ready \ {t}
    /\ Yield
    /\ UNCHANGED <<held, fallen>>

(* prvIsQueueEmpty after the time-out *)
LateTake(t) ==
    /\ At(t, "late")
    /\ IF mutex[call[t].mutex].holder = NoTask THEN Goto(t, "try")
       ELSE IF call[t].inherited THEN Goto(t, "disinherit") ELSE Return(t)
    /\ UNCHANGED <<mutex, prio, held, current, ready, fallen>>

(* vTaskPriorityDisinheritAfterTimeout, for whoever holds the mutex by now *)
DisinheritAfterTimeout(t) ==
    /\ At(t, "disinherit")
    /\ LET m == mutex[call[t].mutex]
           h == m.holder
           floor == IF m.waiting = <<>> THEN 0 ELSE prio[Head(m.waiting)]
       IN  prio' = IF h # NoTask /\ held[h] = 1
                   THEN [prio EXCEPT ![h] = IF floor > Base[h] THEN floor
                                            ELSE Base[h]]
                   ELSE prio
    /\ Return(t)
    /\ UNCHANGED <<mutex, held, current, ready, fallen>>

(* xQueueGiveMutexRecursive that is not the last *)
GiveOne(t) ==
    /\ At(t, "idle")
    /\ \E m \in Mutex :
         /\ mutex[m].holder = t /\ mutex[m].depth > 1
         /\ mutex' = [mutex EXCEPT ![m].depth = @ - 1]
    /\ UNCHANGED <<prio, held, current, ready, call, fallen>>

(* Mutant: no yield when the priority has dropped. *)
GiveQuietly(t) ==
    /\ At(t, "idle")
    /\ \E m \in Mutex :
         /\ mutex[m].holder = t /\ mutex[m].depth = 1
         /\ prio' = Disinherit(t)
         /\ held' = [held EXCEPT ![t] = @ - 1]
         /\ LET list == mutex[m].waiting
                woken == IF list = <<>> THEN {} ELSE {Head(list)}
                higher == \E u \in woken : prio'[u] > prio'[t]
            IN
            /\ mutex' = [mutex EXCEPT ![m] =
                   [holder |-> NoTask, depth |-> 0,
                    waiting |-> IF list = <<>> THEN list ELSE Tail(list)]]
            /\ ready' = ready \cup woken
            /\ IF higher THEN Yield ELSE UNCHANGED current
            /\ fallen' = \/ fallen
                         \/ /\ woken # {} /\ ~higher
                            /\ current \notin Highest(ready', prio')
    /\ UNCHANGED call

(* xQueueGenericSend of a mutex: it yields to the task it wakes if that is *)
(* of a higher priority, and if it wakes none, when its own has dropped.   *)
Give(t) ==
    /\ At(t, "idle")
    /\ \E m \in Mutex :
         /\ mutex[m].holder = t /\ mutex[m].depth = 1
         /\ prio' = Disinherit(t)
         /\ held' = [held EXCEPT ![t] = @ - 1]
         /\ LET list == mutex[m].waiting
                woken == IF list = <<>> THEN {} ELSE {Head(list)}
                higher == \E u \in woken : prio'[u] > prio'[t]
            IN
            /\ mutex' = [mutex EXCEPT ![m] =
                   [holder |-> NoTask, depth |-> 0,
                    waiting |-> IF list = <<>> THEN list ELSE Tail(list)]]
            /\ ready' = ready \cup woken
            /\ IF higher \/ (woken = {} /\ prio' # prio)
               THEN Yield ELSE UNCHANGED current
            /\ fallen' = \/ fallen
                         \/ /\ woken # {} /\ ~higher
                            /\ current \notin Highest(ready', prio')
    /\ UNCHANGED call

TaskStep(t) ==
    \/ Rest(t) \/ Take(t) \/ TakeAgain(t) \/ TryTakes(t) \/ TryFails(t)
    \/ BlockLate(t) \/ BlockRetries(t) \/ Block(t)
    \/ LateTake(t) \/ DisinheritAfterTimeout(t)
    \/ GiveOne(t) \/ Give(t)

(* The idle task is the one that is left when all others wait. *)
Next ==
    \/ Tick
    \/ \E t \in Task \ {Idle} : TaskStep(t) \/ TimePasses(t) \/ Rested(t)

Spec == Init /\ [][Next]_vars

-----------------------------------------------------------------------------
(* Hazard: a task of middle priority runs while one of high priority waits *)
(* for a mutex of one of low priority (PriorityInherit, and the way back   *)
(* after a time-out).  Whoever has a mutex runs at least at the base       *)
(* priority of every task that waits for it, as long as no give has gone   *)
(* on as GiveSwitches says.                                                *)
NoInversion ==
    ~fallen =>
        \A m \in Mutex : mutex[m].holder # NoTask =>
            \A i \in DOMAIN mutex[m].waiting :
                prio[mutex[m].holder] >= Base[mutex[m].waiting[i]]

(* Hazard: an inherited priority is kept: the priority falls with the last *)
(* mutex only, and a time-out lowers that of whoever has the mutex by then. *)
(* A task without a mutex has its own priority.                            *)
BaseWithoutMutex == \A t \in Task : held[t] = 0 => prio[t] = Base[t]

(* Hazard: priorities fall while nobody calls the scheduler, after a       *)
(* time-out.  The task that runs is one of the highest priority among      *)
(* those that are ready, as long as no give has gone on as GiveSwitches    *)
(* says.                                                                   *)
RunsHighest == ~fallen => current \in Highest(ready, prio)

(* tasks.c says of the result of xTaskPriorityDisinherit that `a context   *)
(* switch should occur when the last mutex is returned whether a task is   *)
(* waiting on it or not'.  It does not, if a task is waiting on it that is *)
(* not of a higher priority: queue.c then does not look at the result.     *)
GiveSwitches == ~fallen
=============================================================================
