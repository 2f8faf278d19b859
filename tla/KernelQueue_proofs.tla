------------------------- MODULE KernelQueue_proofs -------------------------
(***************************************************************************)
(* Theorems about KernelQueue, for any number of tasks of any priorities,  *)
(* any length of the queue and whatever tasks and interrupts call: nobody  *)
(* waits for what is there, a task that waits is on one list, and the ring *)
(* is a bounded sequence of items.                                         *)
(***************************************************************************)
EXTENDS KernelQueue, FiniteSetTheorems, SequenceTheorems, TLAPS

(* What the kernel is configured with: tasks are finitely many, the lock   *)
(* counts do not wrap, and only a queue of length one is overwritten       *)
(* (xQueueGenericSend asserts it).                                         *)
Parameters ==
    /\ IsFiniteSet(Task) /\ None \notin Task
    /\ Length \in Nat /\ Length > 0
    /\ LockMax \in Nat /\ IsrBurst \in Int /\ IsrBurst <= LockMax
    /\ Ops \in [Task -> SUBSET (Sends \cup {"receive", "peek"})]
    /\ Waits \subseteq {"none", "finite", "forever"}
    /\ IsrOps \subseteq Sends \cup {"receive"}
    /\ Length # 1 => /\ \A t \in Task : "overwrite" \notin Ops[t]
                     /\ "overwrite" \notin IsrOps

(* A call that sends has an item. *)
ItemInv == \A t \in Task : call[t].op \in Sends => call[t].item # None

(* Only a queue of length one is overwritten. *)
OpInv == \A t \in Task : call[t].op = "overwrite" => Length = 1

Suspending == {"lock", "timeout", "check", "place", "unlock_tx", "unlock_rx",
               "resume"}
TxHeld == {"timeout", "check", "place", "unlock_tx"}
RxHeld == {"timeout", "check", "place", "unlock_tx", "unlock_rx"}
Entering == {"lock", "timeout", "check", "place"}
Leaving == {"unlock_tx", "unlock_rx", "resume"}
Listed == waitSend \cup waitRecv

(* Who has suspended the scheduler, and what it holds locked. *)
SchedInv ==
    /\ q.tx >= Unlocked /\ q.rx >= Unlocked
    /\ \A t \in Task : call[t].pc \in Suspending <=> sched.suspender = t
    /\ sched.suspender # None =>
          sched.current = sched.suspender /\ sched.suspender \in sched.ready
    /\ sched.suspender = None =>
          sched.pending = {} /\ q.tx = Unlocked /\ q.rx = Unlocked
    /\ \A t \in Task :
          /\ call[t].pc \in Suspending =>
               /\ q.tx # Unlocked <=> call[t].pc \in TxHeld
               /\ q.rx # Unlocked <=> call[t].pc \in RxHeld
          /\ call[t].pc \in {"check", "place"} => call[t].next = "try"

(* Who is on an event list, and where its call is. *)
ListInv ==
    /\ \A t \in waitSend : call[t].op \in Sends
    /\ \A t \in waitRecv : call[t].op \notin Sends
    /\ \A t \in Listed :
          /\ t \notin sched.pending
          /\ call[t].next = "try"
          /\ \/ call[t].pc \in Leaving
             \/ call[t].pc = "try" /\ t \notin sched.ready
    /\ \A t \in Task \cap sched.pending : call[t].pc \notin Entering
    /\ \A t \in Task \ sched.ready : t \in Listed \cup sched.pending

(* Who is about to look at the queue again, in a receive and in a send:    *)
(* those who wait among them.                                              *)
Keen(t) == \/ call[t].pc = "try"
           \/ call[t].pc \in Leaving /\ call[t].next = "try"
Receivers == {t \in Task : Keen(t) /\ call[t].op \notin Sends}
Senders == {t \in Task : Keen(t) /\ call[t].op \in Sends}

Pos(n) == IF n > 0 THEN n ELSE 0

(* For every item there is a keen receiver that does not wait, or a count  *)
(* in the lock that will wake one; the same of places and senders.         *)
WakeInv ==
    /\ waitRecv # {} => q.waiting + Cardinality(waitRecv)
                           <= Cardinality(Receivers) + Pos(q.tx)
    /\ waitSend # {} => Length - q.waiting + Cardinality(waitSend)
                           <= Cardinality(Senders) + Pos(q.rx)
    /\ \A t \in Task : call[t].pc = "place" =>
          IF call[t].op \in Sends THEN Length - q.waiting <= q.rx
          ELSE q.waiting <= q.tx

-----------------------------------------------------------------------------
(* Types. *)

Ring == [buf : [0..Length - 1 -> Item], write : 0..Length - 1,
         read : 0..Length - 1, waiting : 0..Length,
         tx : -LockMax - 1..LockMax, rx : -LockMax - 1..LockMax]

Scheduler == [current : Task, suspender : Task \cup {None},
              ready : SUBSET Task, pending : SUBSET Task]

Calls == [pc : Points, op : Sends \cup {"receive", "peek"},
          item : Item \cup {None}, expired : BOOLEAN,
          wait : {"none", "finite", "forever"}, next : {"try", "fail"}]

(* The pointers stay in the storage. *)
LEMMA Pointers ==
    ASSUME Parameters, NEW p \in 0..Length - 1
    PROVE  Up(p) \in 0..Length - 1 /\ Down(p) \in 0..Length - 1
BY DEF Parameters, Up, Down

(* What an operation on the ring returns, field by field. *)
LEMMA PutType ==
    ASSUME Parameters, NEW r \in Ring, NEW x \in Item, NEW op \in Sends,
           Room(r, op)
    PROVE  /\ Put(r, x, op) \in Ring
           /\ Put(r, x, op).tx = r.tx /\ Put(r, x, op).rx = r.rx
           /\ r.waiting <= Put(r, x, op).waiting
           /\ Put(r, x, op).waiting <= r.waiting + 1
<1>1. /\ r.buf \in [0..Length - 1 -> Item] /\ r.write \in 0..Length - 1
      /\ r.read \in 0..Length - 1 /\ r.waiting \in 0..Length
      /\ Length \in Nat /\ Length > 0
  BY DEF Ring, Parameters
<1>2. Up(r.write) \in 0..Length - 1 /\ Down(r.read) \in 0..Length - 1
  BY <1>1, Pointers
<1>3. CASE op = "back"
  <2> DEFINE b == [r.buf EXCEPT ![r.write] = x]
             w == Up(r.write)
  <2>1. r.waiting + 1 \in 0..Length /\ r.waiting \in Int
    BY <1>1, <1>3 DEF Room
  <2>2. b \in [0..Length - 1 -> Item] /\ w \in 0..Length - 1
    BY <1>1, <1>2
  <2>3. Put(r, x, op) = [buf |-> b, write |-> w, read |-> r.read,
                         waiting |-> r.waiting + 1, tx |-> r.tx, rx |-> r.rx]
    BY <1>3 DEF Put, Ring
  <2> HIDE DEF b, w
  <2> QED BY <1>1, <2>1, <2>2, <2>3 DEF Ring
<1>4. CASE op # "back"
  <2> DEFINE n == IF op = "overwrite" /\ r.waiting > 0 THEN r.waiting
                  ELSE r.waiting + 1
             b == [r.buf EXCEPT ![r.read] = x]
             d == Down(r.read)
  <2>1. n \in 0..Length /\ r.waiting <= n /\ n <= r.waiting + 1
    BY <1>1, <1>4 DEF Room
  <2>2. b \in [0..Length - 1 -> Item] /\ d \in 0..Length - 1
    BY <1>1, <1>2
  <2>3. Put(r, x, op) = [buf |-> b, write |-> r.write, read |-> d,
                         waiting |-> n, tx |-> r.tx, rx |-> r.rx]
    BY <1>4 DEF Put, Ring
  <2> HIDE DEF n, b, d
  <2> QED BY <1>1, <2>1, <2>2, <2>3 DEF Ring
<1> QED BY <1>3, <1>4

LEMMA GotType ==
    ASSUME Parameters, NEW r \in Ring, r.waiting > 0
    PROVE  /\ Got(r) \in Ring
           /\ Got(r).tx = r.tx /\ Got(r).rx = r.rx
           /\ Got(r).waiting = r.waiting - 1
           /\ First(r) \in Item
<1>1. /\ r.buf \in [0..Length - 1 -> Item] /\ r.read \in 0..Length - 1
      /\ r.waiting \in 0..Length /\ Length \in Nat
  BY DEF Ring, Parameters
<1>2. Up(r.read) \in 0..Length - 1 /\ r.waiting - 1 \in 0..Length
  BY <1>1, Pointers, SMTT(40)
<1> QED BY <1>1, <1>2 DEF Got, First, Ring

LEMMA FirstsType ==
    ASSUME NEW list, NEW n, NEW S \in Firsts(list, n)
    PROVE  S \subseteq list
BY DEF Firsts

-----------------------------------------------------------------------------
(* Types. *)

LEMMA TypeInit == ASSUME Parameters PROVE Init => KqTypeOK /\ ItemInv
<1> SUFFICES ASSUME Init PROVE KqTypeOK /\ ItemInv
  OBVIOUS
<1>1. Length \in Nat /\ Length > 0 /\ LockMax \in Nat
  BY DEF Parameters
<1>2. q \in Ring /\ taken \in Item
  BY <1>1 DEF Init, Ring, Unlocked
<1>3. sched \in Scheduler
  BY DEF Init, Scheduler
<1>4. call \in [Task -> Calls] /\ ItemInv
  BY DEF Init, NoCall, Calls, Points, Sends, ItemInv
<1> QED BY <1>2, <1>3, <1>4
        DEF Init, KqTypeOK, Ring, Scheduler, Calls

(* A step that changes the call of one task only. *)
LEMMA CallType ==
    ASSUME call \in [Task -> Calls], ItemInv, NEW t \in Task,
           NEW c \in Calls, c.op \in Sends => c.item # None,
           call' = [call EXCEPT ![t] = c]
    PROVE  call' \in [Task -> Calls] /\ ItemInv'
BY DEF ItemInv

LEMMA GotoType ==
    ASSUME call \in [Task -> Calls], ItemInv, NEW t \in Task,
           \/ Return(t)
           \/ \E point \in Points : Goto(t, point)
    PROVE  call' \in [Task -> Calls] /\ ItemInv'
<1>1. CASE Return(t)
  <2>1. NoCall \in Calls /\ NoCall.op \notin Sends
    BY DEF NoCall, Calls, Points, Sends
  <2> QED BY <1>1, <2>1, CallType DEF Return
<1>2. CASE \E point \in Points : Goto(t, point)
  <2>1. PICK point \in Points : Goto(t, point)
    BY <1>2
  <2> DEFINE c == [call[t] EXCEPT !.pc = point]
  <2>2. call' = [call EXCEPT ![t] = c]
    BY <2>1 DEF Goto
  <2>3. c \in Calls /\ c.op = call[t].op /\ c.item = call[t].item
    BY DEF Calls
  <2> HIDE DEF c
  <2> QED BY <2>2, <2>3, CallType DEF ItemInv
<1> QED BY <1>1, <1>2

LEMMA ReadiedType ==
    ASSUME sched \in Scheduler, NEW S \in SUBSET Task
    PROVE  Readied(S) \in Scheduler
BY DEF Scheduler, Readied

LEMMA WakeType ==
    ASSUME KqTypeOK, NEW n, WakeReceivers(n) \/ WakeSenders(n)
    PROVE  waitSend' \subseteq Task /\ waitRecv' \subseteq Task
           /\ sched' \in Scheduler
<1>1. sched \in Scheduler /\ waitSend \subseteq Task /\ waitRecv \subseteq Task
  BY DEF KqTypeOK, Scheduler
<1>2. CASE WakeReceivers(n)
  <2>1. PICK S \in Firsts(waitRecv, n) :
          waitRecv' = waitRecv \ S /\ sched' = Readied(S)
          /\ waitSend' = waitSend
    BY <1>2 DEF WakeReceivers
  <2>2. S \in SUBSET Task
    BY <1>1, <2>1, FirstsType
  <2> QED BY <1>1, <2>1, <2>2, ReadiedType
<1>3. CASE WakeSenders(n)
  <2>1. PICK S \in Firsts(waitSend, n) :
          waitSend' = waitSend \ S /\ sched' = Readied(S)
          /\ waitRecv' = waitRecv
    BY <1>3 DEF WakeSenders
  <2>2. S \in SUBSET Task
    BY <1>1, <2>1, FirstsType
  <2> QED BY <1>1, <2>1, <2>2, ReadiedType
<1> QED BY <1>2, <1>3

LEMMA TypeStep ==
    ASSUME Parameters, KqTypeOK, ItemInv, [Next]_vars
    PROVE  KqTypeOK' /\ ItemInv'
<1> DEFINE Typed == /\ q \in Ring /\ taken \in Item
                    /\ waitSend \subseteq Task /\ waitRecv \subseteq Task
                    /\ sched \in Scheduler
                    /\ call \in [Task -> Calls] /\ ItemInv
<1>a. Typed /\ Length \in Nat /\ LockMax \in Nat
  BY DEF KqTypeOK, Ring, Scheduler, Calls, Parameters
<1> SUFFICES Typed'
  BY DEF KqTypeOK, Ring, Scheduler, Calls
<1>1. CASE UNCHANGED vars
  BY <1>a, <1>1 DEF vars, ItemInv
<1>2. ASSUME NEW t \in Task, TaskStep(t)
      PROVE  Typed'
  <2>1. CASE Call(t)
    <3>1. PICK op \in Ops[t], wait \in Waits, x \in Item \cup {None} :
            /\ op \in Sends <=> x # None
            /\ call' = [call EXCEPT ![t] = [pc |-> "try", op |-> op,
                           item |-> x, wait |-> wait, expired |-> FALSE,
                           next |-> "try"]]
      BY <2>1 DEF Call
    <3>2. op \in Sends \cup {"receive", "peek"}
          /\ wait \in {"none", "finite", "forever"}
      BY DEF Parameters
    <3>3. [pc |-> "try", op |-> op, item |-> x, wait |-> wait,
           expired |-> FALSE, next |-> "try"] \in Calls
      BY <3>2 DEF Calls, Points
    <3>4. call' \in [Task -> Calls] /\ ItemInv'
      BY <1>a, <3>1, <3>3, CallType
    <3> QED BY <1>a, <2>1, <3>4 DEF Call
  <2>2. CASE Peek(t)
    <3>1. First(q) \in Item
      BY <1>a, <2>2, GotType DEF Peek
    <3> QED BY <1>a, <2>2, <3>1, WakeType, GotoType DEF Peek
  <2>3. CASE Receive(t)
    <3>1. First(q) \in Item /\ Got(q) \in Ring
      BY <1>a, <2>3, GotType DEF Receive
    <3> QED BY <1>a, <2>3, <3>1, WakeType, GotoType DEF Receive
  <2>4. CASE Send(t)
    <3>1. call[t].item \in Item
      BY <1>a, <2>4 DEF Send, ItemInv, Calls
    <3>2. Put(q, call[t].item, call[t].op) \in Ring
      BY <1>a, <2>4, <3>1, PutType DEF Send
    <3> QED BY <1>a, <2>4, <3>2, WakeType, GotoType DEF Send
  <2>5. CASE TryFails(t)
    <3>1. Return(t) \/ Goto(t, "suspend")
      BY <2>5 DEF TryFails
    <3> QED BY <1>a, <2>5, <3>1, GotoType DEF TryFails, Points
  <2>6. CASE SuspendAll(t)
    <3>1. sched' \in Scheduler
      BY <1>a, <2>6 DEF SuspendAll, Scheduler
    <3> QED BY <1>a, <2>6, <3>1, GotoType DEF SuspendAll, Points
  <2>7. CASE LockQueue(t)
    <3> DEFINE tx == Locked(q.tx)
               rx == Locked(q.rx)
    <3>2. /\ tx \in -LockMax - 1..LockMax /\ rx \in -LockMax - 1..LockMax
          /\ q' = [q EXCEPT !.tx = tx, !.rx = rx]
      BY <1>a, <2>7 DEF LockQueue, Ring, Locked, Unlocked, Unmodified
    <3> HIDE DEF tx, rx
    <3>1. q' \in Ring
      BY <1>a, <3>2 DEF Ring
    <3> QED BY <1>a, <2>7, <3>1, GotoType DEF LockQueue, Points
  <2>8. CASE CheckForTimeOut(t)
    <3> DEFINE pc == IF call[t].expired THEN "unlock_tx" ELSE "check"
               next == IF call[t].expired THEN "fail" ELSE "try"
               wait == IF call[t].expired THEN "none" ELSE call[t].wait
               c == [call[t] EXCEPT !.pc = pc, !.next = next, !.wait = wait]
    <3>3. /\ pc \in Points /\ next \in {"try", "fail"}
          /\ wait \in {"none", "finite", "forever"}
      BY <1>a DEF Calls, Points
    <3>1. call' = [call EXCEPT ![t] = c]
      BY <1>a, <2>8 DEF CheckForTimeOut, Calls
    <3> HIDE DEF pc, next, wait
    <3>2. c \in Calls /\ (c.op \in Sends => c.item # None)
      BY <1>a, <3>3 DEF Calls, ItemInv
    <3> HIDE DEF c
    <3> QED BY <1>a, <2>8, <3>1, <3>2, CallType DEF CheckForTimeOut
  <2>9. CASE CheckQueue(t)
    <3>1. Goto(t, "place") \/ Goto(t, "unlock_tx")
      BY <2>9 DEF CheckQueue
    <3> QED BY <1>a, <2>9, <3>1, GotoType DEF CheckQueue, Points
  <2>10. CASE PlaceOnEventList(t)
    BY <1>a, <2>10, GotoType DEF PlaceOnEventList, Points
  <2>11. CASE UnlockTx(t)
    <3>1. q' \in Ring
      BY <1>a, <2>11, SMTT(40) DEF UnlockTx, Ring, Unlocked
    <3> QED BY <1>a, <2>11, <3>1, WakeType, GotoType DEF UnlockTx, Points
  <2>12. CASE UnlockRx(t)
    <3>1. q' \in Ring
      BY <1>a, <2>12, SMTT(40) DEF UnlockRx, Ring, Unlocked
    <3> QED BY <1>a, <2>12, <3>1, WakeType, GotoType DEF UnlockRx, Points
  <2>13. CASE ResumeAll(t)
    <3>1. sched' \in Scheduler
      BY <1>a, <2>13 DEF ResumeAll, Scheduler
    <3>2. Goto(t, "try") \/ Return(t) \/ Goto(t, "late")
      BY <1>a, <2>13 DEF ResumeAll, Calls
    <3> QED BY <1>a, <2>13, <3>1, <3>2, GotoType DEF ResumeAll, Points
  <2>14. CASE LateReceive(t)
    <3>1. Return(t) \/ Goto(t, "try")
      BY <2>14 DEF LateReceive
    <3> QED BY <1>a, <2>14, <3>1, GotoType DEF LateReceive, Points
  <2> QED BY <1>2, <2>1, <2>2, <2>3, <2>4, <2>5, <2>6, <2>7, <2>8, <2>9,
             <2>10, <2>11, <2>12, <2>13, <2>14 DEF TaskStep
<1>3. ASSUME NEW t \in Task, TimePasses(t)
      PROVE  Typed'
  <2> DEFINE c == [call[t] EXCEPT !.expired = TRUE]
  <2>1. call' = [call EXCEPT ![t] = c]
    BY <1>a, <1>3 DEF TimePasses, Calls
  <2>2. c \in Calls /\ (c.op \in Sends => c.item # None)
    BY <1>a DEF Calls, ItemInv
  <2> HIDE DEF c
  <2>3. call' \in [Task -> Calls] /\ ItemInv'
    BY <1>a, <2>1, <2>2, CallType
  <2>4. sched' \in Scheduler
    BY <1>a, <1>3 DEF TimePasses, Scheduler
  <2> QED BY <1>a, <1>3, <2>3, <2>4 DEF TimePasses
<1>4. CASE SwitchContext
  <2>1. sched' \in Scheduler
    BY <1>a, <1>4 DEF SwitchContext, Scheduler, Highest
  <2> QED BY <1>a, <1>4, <2>1 DEF SwitchContext, ItemInv
<1>5. ASSUME NEW x \in Item, IsrSend(x)
      PROVE  Typed'
  <2>1. PICK op \in IsrOps \cap Sends :
          /\ Room(q, op)
          /\ IF q.tx = Unlocked
             THEN q' = Put(q, x, op) /\ WakeReceivers(1)
             ELSE /\ q' = [Put(q, x, op) EXCEPT !.tx = Counted(@)]
                  /\ UNCHANGED <<waitSend, waitRecv, sched>>
    BY <1>5 DEF IsrSend
  <2>2. Put(q, x, op) \in Ring
    BY <1>a, <2>1, PutType
  <2>3. Counted(Put(q, x, op).tx) \in -LockMax - 1..LockMax
    BY <1>a, <2>2 DEF Counted, Ring
  <2>4. q' \in Ring
    <3> DEFINE r == Put(q, x, op)
    <3>1. q' = r \/ q' = [r EXCEPT !.tx = Counted(r.tx)]
      BY <2>1
    <3> HIDE DEF r
    <3> QED BY <2>2, <2>3, <3>1 DEF Ring, r
  <2>5. /\ waitSend' \subseteq Task /\ waitRecv' \subseteq Task
        /\ sched' \in Scheduler
    BY <1>a, <2>1, WakeType
  <2> QED BY <1>a, <1>5, <2>4, <2>5 DEF IsrSend, ItemInv
<1>6. CASE IsrReceive
  <2>1. First(q) \in Item /\ Got(q) \in Ring
    BY <1>a, <1>6, GotType DEF IsrReceive
  <2>2. Counted(Got(q).rx) \in -LockMax - 1..LockMax
    BY <1>a, <2>1, SMTT(40) DEF Counted, Ring
  <2>3. q' \in Ring
    <3> DEFINE r == Got(q)
    <3>1. q' = r \/ q' = [r EXCEPT !.rx = Counted(r.rx)]
      BY <1>6 DEF IsrReceive
    <3> HIDE DEF r
    <3> QED BY <2>1, <2>2, <3>1 DEF Ring, r
  <2>4. /\ waitSend' \subseteq Task /\ waitRecv' \subseteq Task
        /\ sched' \in Scheduler
    BY <1>a, <1>6, WakeType DEF IsrReceive
  <2> QED BY <1>a, <1>6, <2>1, <2>3, <2>4 DEF IsrReceive, ItemInv
<1> QED BY <1>1, <1>2, <1>3, <1>4, <1>5, <1>6 DEF Next

(* The queue, the scheduler and the calls keep their types, whatever tasks *)
(* and interrupts call.                                                    *)
THEOREM KqTypeCorrect == ASSUME Parameters PROVE Spec => []KqTypeOK
<1>1. Init => KqTypeOK /\ ItemInv
  BY TypeInit
<1>2. KqTypeOK /\ ItemInv /\ [Next]_vars => KqTypeOK' /\ ItemInv'
  BY TypeStep
<1> QED BY <1>1, <1>2, PTL DEF Spec

-----------------------------------------------------------------------------
(* The lists. *)

(* What waking some tasks does. *)
LEMMA WakeEffect ==
    ASSUME KqTypeOK, NEW n, WakeReceivers(n) \/ WakeSenders(n)
    PROVE  \E S \in SUBSET Task :
             /\ \/ S \subseteq waitRecv /\ waitSend' = waitSend
                   /\ waitRecv' = waitRecv \ S
                \/ S \subseteq waitSend /\ waitRecv' = waitRecv
                   /\ waitSend' = waitSend \ S
             /\ sched'.current = sched.current
             /\ sched'.suspender = sched.suspender
             /\ \/ sched.suspender = None
                   /\ sched'.ready = sched.ready \cup S
                   /\ sched'.pending = sched.pending
                \/ sched.suspender # None
                   /\ sched'.ready = sched.ready
                   /\ sched'.pending = sched.pending \cup S
<1>1. sched \in Scheduler /\ waitSend \subseteq Task /\ waitRecv \subseteq Task
  BY DEF KqTypeOK, Scheduler
<1>2. CASE WakeReceivers(n)
  BY <1>1, <1>2, FirstsType DEF WakeReceivers, Readied, Scheduler
<1>3. CASE WakeSenders(n)
  BY <1>1, <1>3, FirstsType DEF WakeSenders, Readied, Scheduler
<1> QED BY <1>2, <1>3

(* Where a call goes. *)
LEMMA GotoEffect ==
    ASSUME KqTypeOK, NEW t \in Task
    PROVE  /\ \A point : Goto(t, point) =>
                /\ \A u \in Task \ {t} : call'[u] = call[u]
                /\ call'[t].pc = point /\ call'[t].op = call[t].op
                /\ call'[t].next = call[t].next
           /\ Return(t) =>
                /\ \A u \in Task \ {t} : call'[u] = call[u]
                /\ call'[t].pc = "idle" /\ call'[t].op = "receive"
                /\ call'[t].next = "try"
BY DEF KqTypeOK, Goto, Return, NoCall

LEMMA SchedStep ==
    ASSUME Parameters, KqTypeOK, SchedInv, [Next]_vars
    PROVE  SchedInv'
<1>a. /\ sched \in Scheduler /\ q \in Ring /\ None \notin Task
      /\ call \in [Task -> Calls] /\ Length \in Nat
  BY DEF KqTypeOK, Scheduler, Parameters, Ring, Calls
<1> USE DEF SchedInv, Suspending, TxHeld, RxHeld
<1>1. CASE UNCHANGED vars
  BY <1>1 DEF vars
<1>2. ASSUME NEW t \in Task, TaskStep(t)
      PROVE  SchedInv'
  <2> USE DEF At
  <2>1. CASE Call(t)
    <3>1. /\ \A u \in Task \ {t} : call'[u] = call[u]
          /\ call'[t].pc = "try" /\ UNCHANGED <<q, sched>>
      BY <1>a, <2>1 DEF Call
    <3> QED BY <1>a, <2>1, <3>1 DEF Call
  <2>2. CASE Peek(t)
    BY <1>a, <2>2, WakeEffect, GotoEffect DEF Peek
  <2>3. CASE Receive(t)
    BY <1>a, <2>3, WakeEffect, GotoEffect, GotType DEF Receive
  <2>4. CASE Send(t)
    <3>1. q'.tx = q.tx /\ q'.rx = q.rx
      BY <1>a, <2>4 DEF Send, Put, Ring
    <3> QED BY <1>a, <2>4, <3>1, WakeEffect, GotoEffect DEF Send
  <2>5. CASE TryFails(t)
    BY <1>a, <2>5, GotoEffect DEF TryFails
  <2>6. CASE SuspendAll(t)
    BY <1>a, <2>6, GotoEffect DEF SuspendAll, Scheduler
  <2>7. CASE LockQueue(t)
    BY <1>a, <2>7, GotoEffect
       DEF LockQueue, Ring, Locked, Unlocked, Unmodified
  <2>8. CASE CheckForTimeOut(t)
    BY <1>a, <2>8 DEF CheckForTimeOut, Calls
  <2>9. CASE CheckQueue(t)
    BY <1>a, <2>9, GotoEffect DEF CheckQueue
  <2>10. CASE PlaceOnEventList(t)
    BY <1>a, <2>10, GotoEffect DEF PlaceOnEventList
  <2>11. CASE UnlockTx(t)
    <3>1. q'.rx = q.rx /\ q'.tx = Unlocked /\ sched.suspender = t
      BY <1>a, <2>11 DEF UnlockTx, Ring
    <3> QED BY <1>a, <2>11, <3>1, WakeEffect, GotoEffect
            DEF UnlockTx, Unlocked
  <2>12. CASE UnlockRx(t)
    <3>1. q'.tx = q.tx /\ q'.rx = Unlocked
      BY <1>a, <2>12 DEF UnlockRx, Ring
    <3>2. sched.suspender = t /\ q.tx = Unlocked
      BY <2>12 DEF UnlockRx
    <3> QED BY <1>a, <2>12, <3>1, <3>2, WakeEffect, GotoEffect
            DEF UnlockRx, Unlocked
  <2>13. CASE ResumeAll(t)
    <3>1. /\ sched'.suspender = None /\ sched'.pending = {} /\ q' = q
          /\ sched.suspender = t /\ q.tx = Unlocked /\ q.rx = Unlocked
      BY <1>a, <2>13 DEF ResumeAll, Scheduler
    <3>2. /\ \A u \in Task \ {t} : call'[u] = call[u]
          /\ call'[t].pc \in {"try", "idle", "late"}
      <4>1. Goto(t, "try") \/ Return(t) \/ Goto(t, "late")
        BY <1>a, <2>13 DEF ResumeAll, Calls
      <4> QED BY <4>1, GotoEffect
    <3> QED BY <1>a, <3>1, <3>2
  <2>14. CASE LateReceive(t)
    BY <1>a, <2>14, GotoEffect DEF LateReceive
  <2> QED BY <1>2, <2>1, <2>2, <2>3, <2>4, <2>5, <2>6, <2>7, <2>8, <2>9,
             <2>10, <2>11, <2>12, <2>13, <2>14 DEF TaskStep
<1>3. ASSUME NEW t \in Task, TimePasses(t)
      PROVE  SchedInv'
  BY <1>a, <1>3 DEF TimePasses, Scheduler, Calls
<1>4. CASE SwitchContext
  BY <1>a, <1>4 DEF SwitchContext, Scheduler
<1>5. ASSUME NEW x \in Item, IsrSend(x)
      PROVE  SchedInv'
  <2>1. PICK op \in IsrOps \cap Sends :
          /\ Room(q, op) /\ q.tx < IsrBurst
          /\ IF q.tx = Unlocked
             THEN q' = Put(q, x, op) /\ WakeReceivers(1)
             ELSE /\ q' = [Put(q, x, op) EXCEPT !.tx = Counted(@)]
                  /\ UNCHANGED <<waitSend, waitRecv, sched>>
    BY <1>5 DEF IsrSend
  <2>2. Put(q, x, op) \in Ring /\ Put(q, x, op).tx = q.tx
        /\ Put(q, x, op).rx = q.rx
    BY <1>a, <2>1, PutType
  <2>3. /\ q'.rx = q.rx /\ q'.tx >= Unlocked
        /\ q.tx = Unlocked <=> q'.tx = Unlocked
    <3>1. CASE q.tx = Unlocked
      BY <2>1, <2>2, <3>1
    <3>2. CASE q.tx # Unlocked
      <4>1. q.tx \in Int /\ q.tx >= 0 /\ Counted(q.tx) = q.tx + 1
        BY <1>a, <2>1, <3>2 DEF Ring, Counted, Unlocked, Parameters
      <4> DEFINE r == Put(q, x, op)
      <4>2. q' = [r EXCEPT !.tx = Counted(r.tx)] /\ r \in Ring
            /\ r.tx = q.tx /\ r.rx = q.rx
        BY <2>1, <2>2, <3>2
      <4> HIDE DEF r
      <4> QED BY <4>1, <4>2 DEF Ring, Unlocked
    <3> QED BY <3>1, <3>2
  <2> QED BY <1>a, <1>5, <2>1, <2>3, WakeEffect DEF IsrSend
<1>6. CASE IsrReceive
  <2>1. Got(q) \in Ring /\ Got(q).tx = q.tx /\ Got(q).rx = q.rx
    BY <1>a, <1>6, GotType DEF IsrReceive
  <2>2. /\ q'.tx = q.tx /\ q'.rx >= Unlocked
        /\ q.rx = Unlocked <=> q'.rx = Unlocked
    <3>1. CASE q.rx = Unlocked
      BY <1>6, <2>1, <3>1 DEF IsrReceive
    <3>2. CASE q.rx # Unlocked
      <4>1. q.rx \in Int /\ q.rx >= 0 /\ Counted(q.rx) = q.rx + 1
        BY <1>a, <1>6, <3>2
           DEF IsrReceive, Ring, Counted, Unlocked, Parameters
      <4> DEFINE r == Got(q)
      <4>2. q' = [r EXCEPT !.rx = Counted(r.rx)] /\ r \in Ring
            /\ r.tx = q.tx /\ r.rx = q.rx
        BY <1>6, <2>1, <3>2 DEF IsrReceive
      <4> HIDE DEF r
      <4> QED BY <4>1, <4>2 DEF Ring, Unlocked
    <3> QED BY <3>1, <3>2
  <2> QED BY <1>a, <1>6, <2>2, WakeEffect DEF IsrReceive
<1> QED BY <1>1, <1>2, <1>3, <1>4, <1>5, <1>6 DEF Next

(* Waking keeps the lists in order: whoever is woken leaves its list.  *)
LEMMA ListWake ==
    ASSUME KqTypeOK, ListInv, NEW n, WakeReceivers(n) \/ WakeSenders(n)
    PROVE  /\ waitSend' \subseteq waitSend /\ waitRecv' \subseteq waitRecv
           /\ \A t \in Task \cap sched'.pending : call[t].pc \notin Entering
           /\ \A t \in Listed' : t \notin sched'.pending
                                /\ (t \in sched'.ready => t \in sched.ready)
           /\ \A t \in Task \ sched'.ready : t \in Listed' \cup sched'.pending
<1>1. \A t \in Listed : \/ call[t].op \in Sends /\ t \notin waitRecv
                        \/ call[t].op \notin Sends /\ t \notin waitSend
  BY DEF ListInv, Listed
<1>2. PICK S \in SUBSET Task :
         /\ \/ S \subseteq waitRecv /\ waitSend' = waitSend
               /\ waitRecv' = waitRecv \ S
            \/ S \subseteq waitSend /\ waitRecv' = waitRecv
               /\ waitSend' = waitSend \ S
         /\ \/ sched.suspender = None
               /\ sched'.ready = sched.ready \cup S
               /\ sched'.pending = sched.pending
            \/ sched.suspender # None
               /\ sched'.ready = sched.ready
               /\ sched'.pending = sched.pending \cup S
  BY WakeEffect
<1> QED BY <1>1, <1>2 DEF Listed, ListInv, Entering, Leaving

(* The running task is on no list until it has put itself there. *)
LEMMA RunningUnlisted ==
    ASSUME SchedInv, ListInv, NEW t \in Task, NEW point, At(t, point),
           point \in Points \ Leaving
    PROVE  t \notin Listed /\ t \notin sched.pending
<1>1. t \notin Listed
  BY DEF ListInv, At
<1>2. t \notin sched.pending
  BY DEF SchedInv, ListInv, At, Suspending, Entering, Leaving
<1> QED BY <1>1, <1>2

LEMMA ListStep ==
    ASSUME Parameters, KqTypeOK, SchedInv, ListInv, [Next]_vars
    PROVE  ListInv'
<1>a. /\ sched \in Scheduler /\ q \in Ring /\ None \notin Task
      /\ call \in [Task -> Calls] /\ Length \in Nat
      /\ waitSend \subseteq Task /\ waitRecv \subseteq Task
  BY DEF KqTypeOK, Scheduler, Parameters, Ring, Calls
<1>b. ASSUME NEW t \in Task, t \notin Listed, t \notin sched.pending,
             \A u \in Task \ {t} : call'[u] = call[u],
             UNCHANGED <<waitSend, waitRecv, sched>>
      PROVE  ListInv'
  BY <1>a, <1>b DEF ListInv, Listed
<1>c. ASSUME NEW t \in Task, t \notin Listed,
             \A u \in Task \ {t} : call'[u] = call[u],
             call'[t].pc = "idle",
             NEW n, WakeReceivers(n) \/ WakeSenders(n)
      PROVE  ListInv'
  BY <1>a, <1>c, ListWake DEF ListInv, Listed, Entering
<1>1. CASE UNCHANGED vars
  BY <1>1 DEF vars, ListInv, Listed
<1>2. ASSUME NEW t \in Task, TaskStep(t)
      PROVE  ListInv'
  <2>1. CASE Call(t)
    BY <1>a, <1>b, <2>1, RunningUnlisted DEF Points, Call, Leaving
  <2>2. CASE Peek(t)
    BY <1>c, <2>2, RunningUnlisted, GotoEffect DEF Points, Peek, Leaving
  <2>3. CASE Receive(t)
    BY <1>c, <2>3, RunningUnlisted, GotoEffect DEF Points, Receive, Leaving
  <2>4. CASE Send(t)
    BY <1>c, <2>4, RunningUnlisted, GotoEffect DEF Points, Send, Leaving
  <2>5. CASE TryFails(t)
    BY <1>b, <2>5, RunningUnlisted, GotoEffect DEF Points, TryFails, Leaving
  <2>6. CASE SuspendAll(t)
    <3>1. t \notin Listed /\ UNCHANGED <<waitSend, waitRecv>>
      BY <2>6, RunningUnlisted DEF Points, SuspendAll, Leaving
    <3>2. sched'.ready = sched.ready /\ sched'.pending = sched.pending
          /\ t \notin sched.pending
      BY <1>a, <2>6, RunningUnlisted
         DEF SuspendAll, Scheduler, Points, Leaving
    <3>3. \A u \in Task \ {t} : call'[u] = call[u]
      BY <2>6, GotoEffect DEF Points, SuspendAll
    <3> QED BY <1>a, <3>1, <3>2, <3>3 DEF ListInv, Listed
  <2>7. CASE LockQueue(t)
    BY <1>b, <2>7, RunningUnlisted, GotoEffect DEF Points, LockQueue, Leaving
  <2>8. CASE CheckForTimeOut(t)
    BY <1>a, <1>b, <2>8, RunningUnlisted DEF Points, CheckForTimeOut, Leaving
  <2>9. CASE CheckQueue(t)
    BY <1>b, <2>9, RunningUnlisted, GotoEffect DEF Points, CheckQueue, Leaving
  <2>10. CASE PlaceOnEventList(t)
    <3>1. t \notin Listed /\ UNCHANGED sched /\ Listed' = Listed \cup {t}
          /\ call[t].next = "try" /\ sched.suspender = t
      BY <2>10, RunningUnlisted
         DEF Points, PlaceOnEventList, Leaving, Listed, At, SchedInv,
             Suspending
    <3>2. /\ \A u \in Task \ {t} : call'[u] = call[u]
          /\ call'[t].pc = "unlock_tx" /\ call'[t].op = call[t].op
          /\ call'[t].next = "try"
      BY <2>10, <3>1, GotoEffect DEF Points, PlaceOnEventList
    <3>3. t \notin sched.pending
      BY <2>10, RunningUnlisted DEF Points, PlaceOnEventList, Leaving
    <3> QED BY <1>a, <2>10, <3>1, <3>2, <3>3
            DEF PlaceOnEventList, ListInv, Listed, Leaving, Entering
  <2>11. CASE UnlockTx(t)
    <3>1. /\ \A u \in Task \ {t} : call'[u] = call[u]
          /\ call'[t].pc = "unlock_rx" /\ call'[t].op = call[t].op
          /\ call'[t].next = call[t].next /\ call[t].pc \in Leaving
      BY <2>11, GotoEffect DEF Points, UnlockTx, Leaving, At
    <3> QED BY <1>a, <2>11, <3>1, ListWake
            DEF UnlockTx, ListInv, Listed, Leaving, Entering
  <2>12. CASE UnlockRx(t)
    <3>1. /\ \A u \in Task \ {t} : call'[u] = call[u]
          /\ call'[t].pc = "resume" /\ call'[t].op = call[t].op
          /\ call'[t].next = call[t].next /\ call[t].pc \in Leaving
      BY <2>12, GotoEffect DEF Points, UnlockRx, Leaving, At
    <3> QED BY <1>a, <2>12, <3>1, ListWake
            DEF UnlockRx, ListInv, Listed, Leaving, Entering
  <2>13. CASE ResumeAll(t)
    <3>1. /\ sched'.ready = (sched.ready \ IF t \in Listed THEN {t} ELSE {})
                              \cup sched.pending
          /\ sched'.pending = {} /\ UNCHANGED <<waitSend, waitRecv>>
      BY <1>a, <2>13 DEF ResumeAll, Scheduler, Listed
    <3>2. \A u \in Task \ {t} : call'[u] = call[u] /\ call[u].pc \notin Leaving
      <4>1. Goto(t, "try") \/ Return(t) \/ Goto(t, "late")
        BY <1>a, <2>13 DEF ResumeAll, Calls
      <4>2. sched.suspender = t
        BY <2>13 DEF ResumeAll, At, SchedInv, Suspending
      <4> QED BY <4>1, <4>2, GotoEffect DEF SchedInv, Suspending, Leaving
    <3>3. t \in Listed => call'[t].pc = "try" /\ call'[t].next = "try"
                          /\ call'[t].op = call[t].op
      <4> SUFFICES ASSUME t \in Listed
                   PROVE  call'[t].pc = "try" /\ call'[t].next = "try"
                          /\ call'[t].op = call[t].op
        OBVIOUS
      <4>1. call[t].next = "try"
        BY DEF ListInv
      <4>2. Goto(t, "try")
        BY <2>13, <4>1 DEF ResumeAll
      <4> QED BY <4>1, <4>2, GotoEffect
    <3> QED BY <1>a, <3>1, <3>2, <3>3 DEF ListInv, Listed
  <2>14. CASE LateReceive(t)
    BY <1>b, <2>14, RunningUnlisted, GotoEffect
       DEF Points, LateReceive, Leaving
  <2> QED BY <1>2, <2>1, <2>2, <2>3, <2>4, <2>5, <2>6, <2>7, <2>8, <2>9,
             <2>10, <2>11, <2>12, <2>13, <2>14 DEF TaskStep
<1>3. ASSUME NEW t \in Task, TimePasses(t)
      PROVE  ListInv'
  <2>1. /\ waitSend' = waitSend \ {t} /\ waitRecv' = waitRecv \ {t}
        /\ sched'.ready = sched.ready \cup {t}
        /\ sched.pending = {} /\ sched'.pending = {}
        /\ \A u \in Task \ {t} : call'[u] = call[u]
    BY <1>a, <1>3 DEF TimePasses, Scheduler, SchedInv
  <2> QED BY <1>a, <2>1 DEF ListInv, Listed
<1>4. CASE SwitchContext
  <2>1. /\ sched'.ready = sched.ready /\ sched'.pending = sched.pending
        /\ UNCHANGED <<waitSend, waitRecv, call>>
    BY <1>a, <1>4 DEF SwitchContext, Scheduler
  <2> QED BY <2>1 DEF ListInv, Listed
<1>5. ASSUME UNCHANGED call,
             \/ WakeReceivers(1) \/ WakeSenders(1)
             \/ UNCHANGED <<waitSend, waitRecv, sched>>
      PROVE  ListInv'
  <2>1. CASE WakeReceivers(1) \/ WakeSenders(1)
    BY <1>a, <1>5, <2>1, ListWake DEF ListInv, Listed
  <2>2. CASE UNCHANGED <<waitSend, waitRecv, sched>>
    BY <1>5, <2>2 DEF ListInv, Listed
  <2> QED BY <1>5, <2>1, <2>2
<1>6. ASSUME NEW x \in Item, IsrSend(x)
      PROVE  ListInv'
  BY <1>5, <1>6 DEF IsrSend
<1>7. CASE IsrReceive
  BY <1>5, <1>7 DEF IsrReceive
<1> QED BY <1>1, <1>2, <1>3, <1>4, <1>6, <1>7 DEF Next

(* The event lists are consistent. *)
LEMMA ListsFollow ==
    ASSUME Parameters, KqTypeOK, SchedInv, ListInv
    PROVE  ListsConsistent
<1>1. waitSend \subseteq Task /\ waitRecv \subseteq Task /\ None \notin Task
  BY DEF KqTypeOK, Parameters
<1>2. waitSend \cap waitRecv = {}
  BY DEF ListInv
<1>3. \A t \in sched.ready \cap Listed : sched.suspender = t
  BY <1>1 DEF ListInv, SchedInv, Listed, Leaving, Suspending
<1> QED BY <1>2, <1>3 DEF ListsConsistent, ListInv, SchedInv, Listed

(* A task that waits is on one event list and not ready, one that is ready *)
(* is on none, but for the task that is about to yield; and interrupts     *)
(* find the queue locked while a task works on the lists.                  *)
THEOREM ListsAlways == ASSUME Parameters PROVE Spec => []ListsConsistent
<1> DEFINE Inv == KqTypeOK /\ ItemInv /\ SchedInv /\ ListInv
<1>1. Init => Inv
  <2>1. Init => SchedInv /\ ListInv
    BY DEF Init, SchedInv, ListInv, NoCall, Listed, Suspending, Unlocked,
           Parameters
  <2> QED BY <2>1, TypeInit
<1>2. Inv /\ [Next]_vars => Inv'
  BY TypeStep, SchedStep, ListStep
<1>3. Inv => ListsConsistent
  BY ListsFollow
<1> QED BY <1>1, <1>2, <1>3, PTL DEF Spec

-----------------------------------------------------------------------------
(* No lost wakeup. *)

LEMMA Finite ==
    ASSUME Parameters, NEW S \in SUBSET Task
    PROVE  IsFiniteSet(S) /\ Cardinality(S) \in Nat
BY FS_Subset, FS_CardinalityType DEF Parameters

(* One task's call changes: the keen ones are one fewer at most. *)
LEMMA KeenCount ==
    ASSUME Parameters, NEW t \in Task,
           \A u \in Task \ {t} : call'[u] = call[u]
    PROVE  /\ Cardinality(Receivers) - 1 <= Cardinality(Receivers')
           /\ (t \in Receivers => t \in Receivers')
                => Cardinality(Receivers) <= Cardinality(Receivers')
           /\ Cardinality(Senders) - 1 <= Cardinality(Senders')
           /\ (t \in Senders => t \in Senders')
                => Cardinality(Senders) <= Cardinality(Senders')
<1>1. ASSUME NEW R \in SUBSET Task, NEW P \in SUBSET Task, R \ {t} \subseteq P
      PROVE  /\ Cardinality(R) - 1 <= Cardinality(P)
             /\ (t \in R => t \in P) => Cardinality(R) <= Cardinality(P)
  <2>1. IsFiniteSet(R) /\ IsFiniteSet(P) /\ Cardinality(R) \in Nat
        /\ Cardinality(P) \in Nat
    BY Finite
  <2>2. Cardinality(R \ {t}) <= Cardinality(P)
    BY <1>1, <2>1, FS_Subset
  <2>3. Cardinality(R \ {t}) = IF t \in R THEN Cardinality(R) - 1
                               ELSE Cardinality(R)
    BY <2>1, FS_RemoveElement
  <2>4. (t \in R => t \in P) => Cardinality(R) <= Cardinality(P)
    <3> SUFFICES ASSUME t \in R => t \in P
                 PROVE  Cardinality(R) <= Cardinality(P)
      OBVIOUS
    <3>1. R \subseteq P
      BY <1>1
    <3> QED BY <2>1, <3>1, FS_Subset
  <2> QED BY <2>1, <2>2, <2>3, <2>4
<1>2. /\ Receivers \in SUBSET Task /\ Receivers' \in SUBSET Task
      /\ Senders \in SUBSET Task /\ Senders' \in SUBSET Task
  BY DEF Receivers, Senders
<1>3. Receivers \ {t} \subseteq Receivers' /\ Senders \ {t} \subseteq Senders'
  BY DEF Receivers, Senders, Keen
<1> QED BY <1>1, <1>2, <1>3

(* Waking n tasks leaves n fewer, or none. *)
LEMMA FirstsCount ==
    ASSUME Parameters, NEW list \in SUBSET Task, NEW n \in Nat,
           NEW S \in Firsts(list, n), list \ S # {}
    PROVE  list # {} /\ Cardinality(list \ S) = Cardinality(list) - n
<1>1. S \subseteq list /\ IsFiniteSet(list) /\ Cardinality(list) \in Nat
      /\ IsFiniteSet(S) /\ Cardinality(S) \in Nat
  BY Finite, FirstsType
<1>2. Cardinality(S) # Cardinality(list)
  BY <1>1, FS_Subset
<1>3. Cardinality(S) = n
  BY <1>2 DEF Firsts
<1>4. Cardinality(list \ S) = Cardinality(list) - Cardinality(list \cap S)
  BY <1>1, FS_Difference
<1>5. list \cap S = S
  BY <1>1
<1> QED BY <1>3, <1>4, <1>5

LEMMA WokenCount ==
    ASSUME Parameters, KqTypeOK, NEW n \in Nat
    PROVE  /\ WakeReceivers(n) =>
                /\ waitSend' = waitSend
                /\ waitRecv' # {} => waitRecv # {} /\ Cardinality(waitRecv')
                                       = Cardinality(waitRecv) - n
           /\ WakeSenders(n) =>
                /\ waitRecv' = waitRecv
                /\ waitSend' # {} => waitSend # {} /\ Cardinality(waitSend')
                                       = Cardinality(waitSend) - n
<1>1. waitSend \in SUBSET Task /\ waitRecv \in SUBSET Task
  BY DEF KqTypeOK
<1> QED BY <1>1, FirstsCount DEF WakeReceivers, WakeSenders

(* A task that has blocked finds nothing: the queue is empty, or full. *)
LEMMA BlockedMeans ==
    ASSUME Parameters, KqTypeOK, NEW op
    PROVE  /\ op \in Sends /\ Blocked(q, op) => q.waiting = Length
           /\ op \notin Sends /\ Blocked(q, op) => q.waiting = 0
BY DEF Parameters, KqTypeOK, Blocked, Room

LEMMA OpStep ==
    ASSUME Parameters, KqTypeOK, OpInv, [Next]_vars
    PROVE  OpInv'
<1>a. call \in [Task -> Calls]
  BY DEF KqTypeOK, Calls
<1>b. ASSUME NEW t \in Task, Return(t) \/ \E point : Goto(t, point)
      PROVE  OpInv'
  BY <1>b, GotoEffect DEF OpInv
<1>1. ASSUME NEW t \in Task, TaskStep(t)
      PROVE  OpInv'
  <2>1. CASE Call(t)
    BY <1>a, <2>1 DEF Call, OpInv, Parameters
  <2>2. CASE CheckForTimeOut(t)
    BY <1>a, <2>2 DEF CheckForTimeOut, OpInv, Calls
  <2>3. CASE ResumeAll(t)
    <3>1. Return(t) \/ \E point : Goto(t, point)
      BY <1>a, <2>3 DEF ResumeAll, Calls
    <3> QED BY <1>b, <3>1
  <2>4. CASE \/ Send(t) \/ Receive(t) \/ Peek(t) \/ TryFails(t)
            \/ SuspendAll(t) \/ LockQueue(t) \/ CheckQueue(t)
            \/ PlaceOnEventList(t) \/ UnlockTx(t) \/ UnlockRx(t)
            \/ LateReceive(t)
    BY <1>b, <2>4 DEF Send, Receive, Peek, TryFails, SuspendAll, LockQueue,
                      CheckQueue, PlaceOnEventList, UnlockTx, UnlockRx,
                      LateReceive
  <2> QED BY <1>1, <2>1, <2>2, <2>3, <2>4 DEF TaskStep
<1>2. ASSUME NEW t \in Task, TimePasses(t)
      PROVE  OpInv'
  BY <1>a, <1>2 DEF TimePasses, OpInv, Calls
<1>3. CASE UNCHANGED call
  BY <1>3 DEF OpInv
<1> QED BY <1>1, <1>2, <1>3 DEF Next, vars, SwitchContext, IsrSend, IsrReceive

LEMMA WakeStep ==
    ASSUME Parameters, KqTypeOK, ItemInv, OpInv, SchedInv, ListInv, WakeInv,
           [Next]_vars
    PROVE  WakeInv'
<1>a. /\ q \in Ring /\ q' \in Ring /\ Length \in Nat
      /\ q.waiting \in Nat /\ q.waiting <= Length /\ q.tx \in Int
      /\ q.rx \in Int /\ q'.waiting \in Nat /\ q'.waiting <= Length
      /\ call \in [Task -> Calls]
  BY TypeStep DEF KqTypeOK, Parameters, Ring, Calls
<1>b. /\ Cardinality(Receivers) \in Nat /\ Cardinality(Receivers') \in Nat
      /\ Cardinality(Senders) \in Nat /\ Cardinality(Senders') \in Nat
  BY Finite DEF Receivers, Senders
<1>c. /\ Cardinality(waitRecv) \in Nat /\ Cardinality(waitRecv') \in Nat
      /\ Cardinality(waitSend) \in Nat /\ Cardinality(waitSend') \in Nat
  BY Finite, TypeStep DEF KqTypeOK
<1>w. /\ Cardinality(waitRecv') <= Cardinality(Receivers')
      /\ Cardinality(waitSend') <= Cardinality(Senders')
  <2>1. waitRecv' \subseteq Receivers' /\ waitSend' \subseteq Senders'
    BY TypeStep, ListStep
       DEF KqTypeOK, ListInv, Listed, Receivers, Senders, Keen
  <2>2. IsFiniteSet(Receivers') /\ IsFiniteSet(Senders')
    BY Finite DEF Receivers, Senders
  <2> QED BY <2>1, <2>2, FS_Subset
<1>p. ASSUME NEW n \in Int
      PROVE  Pos(n) \in Nat /\ (n > 0 => Pos(n) = n) /\ (n <= 0 => Pos(n) = 0)
  BY DEF Pos
(* The other tasks are not about to place themselves on a list. *)
<1>o. ASSUME NEW t \in Task, NEW point, At(t, point)
      PROVE  \A u \in Task \ {t} : call[u].pc # "place"
  BY <1>o DEF At, SchedInv, Suspending, Parameters
(* A step of a task that adds no receive and no send to those in want. *)
<1>d. ASSUME NEW t \in Task, \A u \in Task \ {t} : call'[u] = call[u],
             NEW point, At(t, point), call'[t].pc # "place",
             UNCHANGED <<waitSend, waitRecv>>, q'.waiting = q.waiting,
             Pos(q'.tx) = Pos(q.tx), Pos(q'.rx) = Pos(q.rx),
             t \in Receivers => t \in Receivers',
             t \in Senders => t \in Senders'
      PROVE  WakeInv'
  <2>1. /\ Cardinality(Receivers) <= Cardinality(Receivers')
        /\ Cardinality(Senders) <= Cardinality(Senders')
    BY <1>d, KeenCount
  <2>2. \A u \in Task : call'[u].pc # "place"
    BY <1>d, <1>o
  <2>3. Pos(q.tx) \in Int /\ Pos(q.rx) \in Int
    BY <1>a, <1>p
  <2> QED BY <1>a, <1>b, <1>c, <1>d, <2>1, <2>2, <2>3 DEF WakeInv
<1>1. CASE UNCHANGED vars
  <2>1. UNCHANGED <<Receivers, Senders>>
    BY <1>1 DEF vars, Receivers, Senders, Keen
  <2> QED BY <1>1, <2>1 DEF vars, WakeInv
<1>2. ASSUME NEW t \in Task, TaskStep(t)
      PROVE  WakeInv'
  <2>1. CASE Call(t)
    <3>1. /\ t \notin Receivers /\ t \notin Senders /\ At(t, "idle")
          /\ \A u \in Task \ {t} : call'[u] = call[u]
          /\ call'[t].pc = "try" /\ UNCHANGED <<q, waitSend, waitRecv>>
      BY <1>a, <2>1 DEF Call, At, Receivers, Senders, Keen, Leaving
    <3> QED BY <1>d, <3>1
  <2>2. CASE Peek(t)
    <3>1. /\ At(t, "try") /\ q' = q /\ WakeReceivers(1) /\ Return(t)
          /\ t \notin Senders
      BY <2>2 DEF Peek, Senders, Sends
    <3>2. \A u \in Task : call'[u].pc # "place"
      BY <1>o, <3>1, GotoEffect
    <3>3. /\ Cardinality(Receivers) - 1 <= Cardinality(Receivers')
          /\ Cardinality(Senders) <= Cardinality(Senders')
      BY <3>1, KeenCount, GotoEffect
    <3>4. /\ waitSend' = waitSend
          /\ waitRecv' # {} => waitRecv # {} /\ Cardinality(waitRecv')
                                    = Cardinality(waitRecv) - 1
      BY <3>1, WokenCount
    <3> QED BY <1>a, <1>b, <1>c, <1>p, <3>1, <3>2, <3>3, <3>4 DEF WakeInv
  <2>3. CASE Receive(t)
    <3>1. /\ At(t, "try") /\ WakeSenders(1) /\ Return(t)
          /\ t \notin Senders
          /\ q'.waiting = q.waiting - 1 /\ q'.tx = q.tx /\ q'.rx = q.rx
      BY <1>a, <2>3, GotType DEF Receive, Senders, Sends
    <3>2. \A u \in Task : call'[u].pc # "place"
      BY <1>o, <3>1, GotoEffect
    <3>3. /\ Cardinality(Receivers) - 1 <= Cardinality(Receivers')
          /\ Cardinality(Senders) <= Cardinality(Senders')
      BY <3>1, KeenCount, GotoEffect
    <3>4. /\ waitRecv' = waitRecv
          /\ waitSend' # {} => waitSend # {} /\ Cardinality(waitSend')
                                    = Cardinality(waitSend) - 1
      BY <3>1, WokenCount
    <3> QED BY <1>a, <1>b, <1>c, <1>p, <3>1, <3>2, <3>3, <3>4 DEF WakeInv
  <2>4. CASE Send(t)
    <3>1. /\ At(t, "try") /\ WakeReceivers(1) /\ Return(t)
          /\ t \notin Receivers
      BY <2>4 DEF Send, Receivers
    <3>5. /\ q'.tx = q.tx /\ q'.rx = q.rx
          /\ \/ q'.waiting = q.waiting + 1
             \/ q'.waiting = q.waiting /\ q'.waiting = Length
      <4>1. call[t].op = "overwrite" => Length = 1
        BY DEF OpInv
      <4>2. q' = Put(q, call[t].item, call[t].op)
        BY <2>4 DEF Send
      <4> QED BY <1>a, <4>1, <4>2 DEF Put, Ring
    <3>2. \A u \in Task : call'[u].pc # "place"
      BY <1>o, <3>1, GotoEffect
    <3>3. /\ Cardinality(Receivers) <= Cardinality(Receivers')
          /\ Cardinality(Senders) - 1 <= Cardinality(Senders')
      BY <3>1, KeenCount, GotoEffect
    <3>4. /\ waitSend' = waitSend
          /\ waitRecv' # {} => waitRecv # {} /\ Cardinality(waitRecv')
                                    = Cardinality(waitRecv) - 1
      BY <3>1, WokenCount
    <3> QED BY <1>a, <1>b, <1>c, <1>p, <1>w, <3>1, <3>2, <3>3, <3>4, <3>5
            DEF WakeInv
  <2>5. CASE TryFails(t)
    <3>1. /\ At(t, "try") /\ Blocked(q, call[t].op)
          /\ UNCHANGED <<q, waitSend, waitRecv>>
          /\ \A u \in Task \ {t} : call'[u] = call[u]
          /\ call'[t].pc # "place"
      BY <2>5, GotoEffect DEF TryFails
    <3>2. \A u \in Task : call'[u].pc # "place"
      BY <1>o, <3>1
    <3>3. CASE call[t].op \in Sends
      <4>1. q.waiting = Length
        BY <3>1, <3>3, BlockedMeans
      <4>2. Cardinality(Receivers) <= Cardinality(Receivers')
        BY <3>1, <3>3, KeenCount DEF Receivers
      <4> QED BY <1>a, <1>b, <1>c, <1>p, <1>w, <3>1, <3>2, <4>1, <4>2
              DEF WakeInv
    <3>4. CASE call[t].op \notin Sends
      <4>1. q.waiting = 0
        BY <3>1, <3>4, BlockedMeans
      <4>2. Cardinality(Senders) <= Cardinality(Senders')
        BY <3>1, <3>4, KeenCount DEF Senders
      <4> QED BY <1>a, <1>b, <1>c, <1>p, <1>w, <3>1, <3>2, <4>1, <4>2
              DEF WakeInv
    <3> QED BY <3>3, <3>4
  <2>6. CASE SuspendAll(t)
    BY <1>d, <2>6, GotoEffect
       DEF SuspendAll, At, Receivers, Senders, Keen, Leaving
  <2>7. CASE LockQueue(t)
    <3>1. Pos(q'.tx) = Pos(q.tx) /\ Pos(q'.rx) = Pos(q.rx)
          /\ q'.waiting = q.waiting
      BY <1>a, <2>7 DEF LockQueue, Locked, Unlocked, Unmodified, Pos, Ring
    <3> QED BY <1>d, <2>7, <3>1, GotoEffect
            DEF LockQueue, At, Receivers, Senders, Keen, Leaving
  <2>8. CASE CheckForTimeOut(t)
    <3>1. /\ At(t, "timeout") /\ UNCHANGED <<q, waitSend, waitRecv>>
          /\ \A u \in Task \ {t} : call'[u] = call[u]
          /\ call'[t].pc # "place" /\ t \notin Receivers /\ t \notin Senders
      BY <1>a, <2>8
         DEF CheckForTimeOut, At, Receivers, Senders, Keen, Leaving, Calls
    <3> QED BY <1>d, <3>1
  <2>9. CASE CheckQueue(t)
    <3>1. /\ At(t, "check") /\ UNCHANGED <<q, waitSend, waitRecv>>
          /\ \A u \in Task \ {t} : call'[u] = call[u]
          /\ t \notin Receivers /\ t \notin Senders
          /\ call'[t].op = call[t].op
          /\ call'[t].pc = IF Blocked(q, call[t].op) THEN "place"
                           ELSE "unlock_tx"
      BY <2>9, GotoEffect
         DEF CheckQueue, At, Receivers, Senders, Keen, Leaving
    <3>2. CASE call'[t].pc # "place"
      BY <1>d, <3>1, <3>2
    <3>3. CASE call'[t].pc = "place"
      <4>1. IF call[t].op \in Sends THEN q.waiting = Length
            ELSE q.waiting = 0
        BY <3>1, <3>3, BlockedMeans
      <4>2. q.tx >= 0 /\ q.rx >= 0
        BY <1>a, <3>1
           DEF SchedInv, At, Suspending, TxHeld, RxHeld, Unlocked
      <4>3. \A u \in Task \ {t} : call'[u].pc # "place"
        BY <1>o, <3>1
      <4>4. /\ Cardinality(Receivers) <= Cardinality(Receivers')
            /\ Cardinality(Senders) <= Cardinality(Senders')
        BY <3>1, KeenCount
      <4> QED BY <1>a, <1>b, <1>c, <1>p, <3>1, <4>1, <4>2, <4>3, <4>4
              DEF WakeInv
    <3> QED BY <3>2, <3>3
  <2>10. CASE PlaceOnEventList(t)
    <3>1. /\ At(t, "place") /\ q' = q /\ call'[t].pc = "unlock_tx"
          /\ \A u \in Task \ {t} : call'[u] = call[u]
          /\ t \notin Receivers /\ t \notin Senders
      BY <2>10, GotoEffect
         DEF PlaceOnEventList, At, Receivers, Senders, Keen, Leaving
    <3>2. \A u \in Task : call'[u].pc # "place"
      BY <1>o, <3>1
    <3>3. /\ Cardinality(Receivers) <= Cardinality(Receivers')
          /\ Cardinality(Senders) <= Cardinality(Senders')
      BY <3>1, KeenCount
    <3>4. CASE call[t].op \in Sends
      <4>1. waitRecv' = waitRecv /\ Length - q.waiting <= q.rx
        BY <2>10, <3>1, <3>4 DEF PlaceOnEventList, WakeInv, At
      <4> QED BY <1>a, <1>b, <1>c, <1>p, <1>w, <3>1, <3>2, <3>3, <4>1
              DEF WakeInv
    <3>5. CASE call[t].op \notin Sends
      <4>1. waitSend' = waitSend /\ q.waiting <= q.tx
        BY <2>10, <3>1, <3>5 DEF PlaceOnEventList, WakeInv, At
      <4> QED BY <1>a, <1>b, <1>c, <1>p, <1>w, <3>1, <3>2, <3>3, <4>1
              DEF WakeInv
    <3> QED BY <3>4, <3>5
  <2>11. CASE UnlockTx(t)
    <3>1. /\ At(t, "unlock_tx") /\ WakeReceivers(Pos(q.tx))
          /\ q'.tx = Unlocked /\ q'.rx = q.rx /\ q'.waiting = q.waiting
          /\ Goto(t, "unlock_rx")
      BY <1>a, <2>11 DEF UnlockTx, Ring, Pos, Unmodified
    <3>2. \A u \in Task : call'[u].pc # "place"
      BY <1>o, <3>1, GotoEffect
    <3>3. /\ Cardinality(Receivers) <= Cardinality(Receivers')
          /\ Cardinality(Senders) <= Cardinality(Senders')
      <4>1. /\ t \in Receivers => t \in Receivers'
            /\ t \in Senders => t \in Senders'
        BY <3>1, GotoEffect DEF At, Receivers, Senders, Keen, Leaving
      <4> QED BY <3>1, <4>1, KeenCount, GotoEffect
    <3>4. /\ waitSend' = waitSend
          /\ waitRecv' # {} => waitRecv # {} /\ Cardinality(waitRecv')
                                    = Cardinality(waitRecv) - Pos(q.tx)
      BY <1>a, <1>p, <3>1, WokenCount
    <3>5. Pos(q'.tx) = 0
      BY <3>1 DEF Pos, Unlocked
    <3> QED BY <1>a, <1>b, <1>c, <1>p, <3>1, <3>2, <3>3, <3>4, <3>5
            DEF WakeInv
  <2>12. CASE UnlockRx(t)
    <3>1. /\ At(t, "unlock_rx") /\ WakeSenders(Pos(q.rx))
          /\ q'.rx = Unlocked /\ q'.tx = q.tx /\ q'.waiting = q.waiting
          /\ Goto(t, "resume")
      BY <1>a, <2>12 DEF UnlockRx, Ring, Pos, Unmodified
    <3>2. \A u \in Task : call'[u].pc # "place"
      BY <1>o, <3>1, GotoEffect
    <3>3. /\ Cardinality(Receivers) <= Cardinality(Receivers')
          /\ Cardinality(Senders) <= Cardinality(Senders')
      <4>1. /\ t \in Receivers => t \in Receivers'
            /\ t \in Senders => t \in Senders'
        BY <3>1, GotoEffect DEF At, Receivers, Senders, Keen, Leaving
      <4> QED BY <3>1, <4>1, KeenCount, GotoEffect
    <3>4. /\ waitRecv' = waitRecv
          /\ waitSend' # {} => waitSend # {} /\ Cardinality(waitSend')
                                    = Cardinality(waitSend) - Pos(q.rx)
      BY <1>a, <1>p, <3>1, WokenCount
    <3>5. Pos(q'.rx) = 0
      BY <3>1 DEF Pos, Unlocked
    <3> QED BY <1>a, <1>b, <1>c, <1>p, <3>1, <3>2, <3>3, <3>4, <3>5
            DEF WakeInv
  <2>13. CASE ResumeAll(t)
    <3>1. At(t, "resume") /\ UNCHANGED <<q, waitSend, waitRecv>>
      BY <2>13 DEF ResumeAll
    <3>2. CASE call[t].next = "try"
      <4>1. Goto(t, "try")
        BY <2>13, <3>2 DEF ResumeAll
      <4> QED BY <1>d, <3>1, <4>1, GotoEffect DEF Receivers, Senders, Keen
    <3>3. CASE call[t].next # "try"
      <4>1. t \notin Receivers /\ t \notin Senders
        BY <3>1, <3>3 DEF At, Receivers, Senders, Keen
      <4>2. Return(t) \/ Goto(t, "late")
        BY <1>a, <2>13, <3>3 DEF ResumeAll, Calls
      <4> QED BY <1>d, <3>1, <4>1, <4>2, GotoEffect
    <3> QED BY <3>2, <3>3
  <2>14. CASE LateReceive(t)
    <3>1. /\ At(t, "late") /\ UNCHANGED <<q, waitSend, waitRecv>>
          /\ Return(t) \/ Goto(t, "try")
      BY <2>14 DEF LateReceive
    <3>2. t \notin Receivers /\ t \notin Senders
      BY <3>1 DEF At, Receivers, Senders, Keen, Leaving
    <3> QED BY <1>d, <3>1, <3>2, GotoEffect
  <2> QED BY <1>2, <2>1, <2>2, <2>3, <2>4, <2>5, <2>6, <2>7, <2>8, <2>9,
             <2>10, <2>11, <2>12, <2>13, <2>14 DEF TaskStep
<1>3. ASSUME NEW t \in Task, TimePasses(t)
      PROVE  WakeInv'
  <2>1. /\ q' = q /\ sched.suspender = None
        /\ waitSend' = waitSend \ {t} /\ waitRecv' = waitRecv \ {t}
        /\ \A u \in Task : /\ call'[u].pc = call[u].pc
                            /\ call'[u].op = call[u].op
                            /\ call'[u].next = call[u].next
    BY <1>a, <1>3 DEF TimePasses, Calls
  <2>2. UNCHANGED <<Receivers, Senders>>
    BY <2>1 DEF Receivers, Senders, Keen
  <2>3. /\ Cardinality(waitRecv') <= Cardinality(waitRecv)
        /\ Cardinality(waitSend') <= Cardinality(waitSend)
    <3>1. IsFiniteSet(waitRecv) /\ IsFiniteSet(waitSend)
      BY Finite DEF KqTypeOK
    <3> QED BY <2>1, <3>1, FS_Subset
  <2>4. \A u \in Task : call[u].pc # "place"
    BY <2>1 DEF SchedInv, Suspending, Parameters
  <2> QED BY <1>a, <1>b, <1>c, <1>p, <2>1, <2>2, <2>3, <2>4 DEF WakeInv
<1>4. CASE SwitchContext
  <2>1. UNCHANGED <<Receivers, Senders>>
    BY <1>4 DEF SwitchContext, Receivers, Senders, Keen
  <2> QED BY <1>4, <2>1 DEF SwitchContext, WakeInv
<1>5. ASSUME NEW x \in Item, IsrSend(x)
      PROVE  WakeInv'
  <2>1. UNCHANGED <<call, Receivers, Senders>>
    BY <1>5 DEF IsrSend, Receivers, Senders, Keen
  <2>2. PICK op \in IsrOps \cap Sends :
          /\ Room(q, op) /\ q.tx < IsrBurst
          /\ IF q.tx = Unlocked
             THEN q' = Put(q, x, op) /\ WakeReceivers(1)
             ELSE /\ q' = [Put(q, x, op) EXCEPT !.tx = Counted(@)]
                  /\ UNCHANGED <<waitSend, waitRecv, sched>>
    BY <1>5 DEF IsrSend
  <2> DEFINE r == Put(q, x, op)
  <2>3. /\ r \in Ring /\ r.tx = q.tx /\ r.rx = q.rx
        /\ \/ r.waiting = q.waiting + 1
           \/ r.waiting = q.waiting /\ r.waiting = Length
    <3>1. op = "overwrite" => Length = 1
      BY DEF Parameters
    <3>2. \/ r.waiting = q.waiting + 1
          \/ r.waiting = q.waiting /\ r.waiting = Length
      BY <1>a, <2>2, <3>1 DEF Put, Ring
    <3> QED BY <1>a, <2>2, <3>2, PutType
  <2> HIDE DEF r
  <2>4. CASE q.tx = Unlocked
    <3>1. q' = r /\ WakeReceivers(1)
      BY <2>2, <2>4 DEF r
    <3>2. /\ waitSend' = waitSend
          /\ waitRecv' # {} => waitRecv # {} /\ Cardinality(waitRecv')
                                    = Cardinality(waitRecv) - 1
      BY <3>1, WokenCount
    <3>3. \A u \in Task : call[u].pc # "place"
      BY <2>4 DEF SchedInv, Suspending, TxHeld
    <3> QED BY <1>a, <1>b, <1>c, <1>p, <1>w, <2>1, <2>3, <3>1, <3>2, <3>3
            DEF WakeInv
  <2>5. CASE q.tx # Unlocked
    <3>1. q.tx >= 0 /\ Counted(q.tx) = q.tx + 1
      BY <1>a, <2>2, <2>5 DEF Counted, Unlocked, SchedInv, Parameters
    <3>2. q' = [r EXCEPT !.tx = Counted(r.tx)]
          /\ UNCHANGED <<waitSend, waitRecv>>
      BY <2>2, <2>5 DEF r
    <3>3. q'.waiting = r.waiting /\ q'.tx = q.tx + 1 /\ q'.rx = q.rx
      BY <2>3, <3>1, <3>2 DEF Ring
    <3> QED BY <1>a, <1>b, <1>c, <1>p, <1>w, <2>1, <2>3, <3>1, <3>2, <3>3
            DEF WakeInv
  <2> QED BY <2>4, <2>5
<1>6. CASE IsrReceive
  <2>1. UNCHANGED <<call, Receivers, Senders>>
    BY <1>6 DEF IsrReceive, Receivers, Senders, Keen
  <2> DEFINE r == Got(q)
  <2>2. /\ q.rx < IsrBurst
        /\ IF q.rx = Unlocked
           THEN q' = r /\ WakeSenders(1)
           ELSE /\ q' = [r EXCEPT !.rx = Counted(@)]
                /\ UNCHANGED <<waitSend, waitRecv, sched>>
    BY <1>6 DEF IsrReceive
  <2>3. /\ r \in Ring /\ r.tx = q.tx /\ r.rx = q.rx
        /\ r.waiting = q.waiting - 1
    BY <1>a, <1>6, GotType DEF IsrReceive
  <2> HIDE DEF r
  <2>4. CASE q.rx = Unlocked
    <3>1. q' = r /\ WakeSenders(1)
      BY <2>2, <2>4
    <3>2. /\ waitRecv' = waitRecv
          /\ waitSend' # {} => waitSend # {} /\ Cardinality(waitSend')
                                    = Cardinality(waitSend) - 1
      BY <3>1, WokenCount
    <3>3. \A u \in Task : call[u].pc # "place"
      BY <2>4 DEF SchedInv, Suspending, RxHeld
    <3> QED BY <1>a, <1>b, <1>c, <1>p, <2>1, <2>3, <3>1, <3>2, <3>3
            DEF WakeInv
  <2>5. CASE q.rx # Unlocked
    <3>1. q.rx >= 0 /\ Counted(q.rx) = q.rx + 1
      BY <1>a, <2>2, <2>5 DEF Counted, Unlocked, SchedInv, Parameters
    <3>2. q' = [r EXCEPT !.rx = Counted(r.rx)]
          /\ UNCHANGED <<waitSend, waitRecv>>
      BY <2>2, <2>5
    <3>3. q'.waiting = r.waiting /\ q'.rx = q.rx + 1 /\ q'.tx = q.tx
      BY <2>3, <3>1, <3>2 DEF Ring
    <3> QED BY <1>a, <1>b, <1>c, <1>p, <2>1, <2>3, <3>1, <3>2, <3>3
            DEF WakeInv
  <2> QED BY <2>4, <2>5
<1> QED BY <1>1, <1>2, <1>3, <1>4, <1>5, <1>6 DEF Next

(* The keen receiver, or sender, that the invariant counts is one that     *)
(* will look.                                                              *)
LEMMA NothingMissed ==
    ASSUME Parameters, KqTypeOK, SchedInv, ListInv, WakeInv
    PROVE  NoLostWakeup
<1>a. /\ q.waiting \in Nat /\ Length \in Nat /\ q.tx \in Int /\ q.rx \in Int
      /\ waitRecv \in SUBSET Task /\ waitSend \in SUBSET Task
  BY DEF KqTypeOK, Parameters
<1>b. Receivers \in SUBSET Task /\ Senders \in SUBSET Task
  BY DEF Receivers, Senders
<1>c. ASSUME NEW t \in Task, Keen(t), t \notin Listed
      PROVE  Looks(t)
  BY <1>c DEF Keen, Looks, ListInv, Listed, Leaving
<1>1. ASSUME q.waiting > 0, waitRecv # {}, ~(q.tx > Unmodified)
      PROVE  \E t \in Task : call[t].op \notin Sends /\ Looks(t)
  <2>1. Cardinality(waitRecv) < Cardinality(Receivers)
    BY <1>1, <1>a, <1>b, Finite DEF WakeInv, Pos, Unmodified
  <2>2. PICK t \in Receivers : t \notin waitRecv
    <3> SUFFICES ASSUME Receivers \subseteq waitRecv PROVE FALSE
      OBVIOUS
    <3>1. Cardinality(Receivers) <= Cardinality(waitRecv)
      BY <1>a, Finite, FS_Subset
    <3> QED BY <1>a, <1>b, <2>1, <3>1, Finite
  <2>3. t \in Task /\ Keen(t) /\ call[t].op \notin Sends
    BY DEF Receivers
  <2>4. t \notin Listed
    BY <2>2, <2>3 DEF ListInv, Listed
  <2> QED BY <1>c, <2>3, <2>4
<1>2. ASSUME q.waiting < Length, waitSend # {}, ~(q.rx > Unmodified)
      PROVE  \E t \in Task : call[t].op \in Sends /\ Looks(t)
  <2>1. Cardinality(waitSend) < Cardinality(Senders)
    BY <1>2, <1>a, <1>b, Finite DEF WakeInv, Pos, Unmodified
  <2>2. PICK t \in Senders : t \notin waitSend
    <3> SUFFICES ASSUME Senders \subseteq waitSend PROVE FALSE
      OBVIOUS
    <3>1. Cardinality(Senders) <= Cardinality(waitSend)
      BY <1>a, Finite, FS_Subset
    <3> QED BY <1>a, <1>b, <2>1, <3>1, Finite
  <2>3. t \in Task /\ Keen(t) /\ call[t].op \in Sends
    BY DEF Senders
  <2>4. t \notin Listed
    BY <2>2, <2>3 DEF ListInv, Listed
  <2> QED BY <1>c, <2>3, <2>4
<1> QED BY <1>1, <1>2 DEF NoLostWakeup

(* An item that comes while a task is on its way to the list of waiting    *)
(* tasks, or a place, is not missed, however many tasks wait and however   *)
(* many items interrupts send meanwhile.                                   *)
THEOREM NoLostWakeupEver == ASSUME Parameters PROVE Spec => []NoLostWakeup
<1> DEFINE Inv == /\ KqTypeOK /\ ItemInv /\ OpInv
                  /\ SchedInv /\ ListInv /\ WakeInv
<1>1. Init => Inv
  <2> SUFFICES ASSUME Init PROVE Inv
    OBVIOUS
  <2>1. \A t \in Task : call[t] = NoCall
    BY DEF Init
  <2>2. SchedInv /\ ListInv /\ WakeInv /\ OpInv
    BY <2>1 DEF Init, SchedInv, ListInv, NoCall, Listed, Suspending, Unlocked,
                Parameters, WakeInv, OpInv
  <2> QED BY <2>2, TypeInit
<1>2. Inv /\ [Next]_vars => Inv'
  BY TypeStep, OpStep, SchedStep, ListStep, WakeStep
<1>3. Inv => NoLostWakeup
  BY NothingMissed
<1> QED BY <1>1, <1>2, <1>3, PTL DEF Spec

-----------------------------------------------------------------------------
(* The ring is a sequence. *)

(* The next place to write is behind the last item. *)
Behind(write, read, n) ==
    \/ write = read + 1 + n
    \/ write = read + 1 + n - Length
    \/ write = read + 1 + n - 2 * Length

RingOK(r) == Behind(r.write, r.read, r.waiting)

(* Where the i-th item is. *)
Slot(read, i) == IF read + i < Length THEN read + i ELSE read + i - Length

LEMMA SlotIs ==
    ASSUME Parameters, NEW read \in 0..Length - 1, NEW i \in 1..Length
    PROVE  /\ (read + i) % Length = Slot(read, i)
           /\ Slot(read, i) \in 0..Length - 1
<1> DEFINE n == read + i
<1>1. n \in 0..2 * Length - 1 /\ Length \in Nat /\ Length > 0
  BY DEF Parameters
<1> HIDE DEF n
<1>2. n % Length = IF n < Length THEN n ELSE n - Length
  <2>1. CASE n < Length
    BY <1>1, <2>1
  <2>2. CASE n >= Length
    BY <1>1, <2>2
  <2> QED BY <1>1, <2>1, <2>2
<1> QED BY <1>1, <1>2 DEF n, Slot

LEMMA BackSlots ==
    ASSUME Parameters, NEW read \in 0..Length - 1,
           NEW write \in 0..Length - 1, NEW n \in 0..Length, n < Length,
           Behind(write, read, n)
    PROVE  /\ write = Slot(read, n + 1)
           /\ \A i \in 1..n : Slot(read, i) # write
           /\ Behind(Up(write), read, n + 1)
<1>1. Length \in Nat /\ Length > 0
  BY DEF Parameters
<1>2. write = Slot(read, n + 1)
  BY <1>1 DEF Behind, Slot
<1>3. ASSUME NEW i \in 1..n
      PROVE  Slot(read, i) # write
  BY <1>1, <1>2 DEF Slot
<1>4. Behind(Up(write), read, n + 1)
  BY <1>1 DEF Behind, Up
<1> QED BY <1>2, <1>3, <1>4

LEMMA FrontSlots ==
    ASSUME Parameters, NEW read \in 0..Length - 1,
           NEW write \in 0..Length - 1, NEW n \in 0..Length, n < Length,
           Behind(write, read, n)
    PROVE  /\ Slot(Down(read), 1) = read
           /\ \A i \in 1..n : /\ Slot(Down(read), i + 1) = Slot(read, i)
                            /\ Slot(read, i) # read
           /\ Behind(write, Down(read), n + 1)
<1>1. Length \in Nat /\ Length > 0
  BY DEF Parameters
<1>2. Slot(Down(read), 1) = read
  BY <1>1 DEF Down, Slot
<1>3. ASSUME NEW i \in 1..n
      PROVE  Slot(Down(read), i + 1) = Slot(read, i) /\ Slot(read, i) # read
  BY <1>1 DEF Slot, Down
<1>4. Behind(write, Down(read), n + 1)
  BY <1>1 DEF Behind, Down
<1> QED BY <1>2, <1>3, <1>4

LEMMA FirstSlots ==
    ASSUME Parameters, NEW read \in 0..Length - 1,
           NEW write \in 0..Length - 1, NEW n \in 1..Length,
           Behind(write, read, n)
    PROVE  /\ Slot(read, 1) = Up(read)
           /\ \A i \in 1..n - 1 : Slot(Up(read), i) = Slot(read, i + 1)
           /\ Behind(write, Up(read), n - 1)
<1>1. Length \in Nat /\ Length > 0
  BY DEF Parameters
<1>2. Slot(read, 1) = Up(read)
  BY <1>1 DEF Up, Slot
<1>3. ASSUME NEW i \in 1..n - 1
      PROVE  Slot(Up(read), i) = Slot(read, i + 1)
  BY <1>1 DEF Slot, Up
<1>4. Behind(write, Up(read), n - 1)
  BY <1>1 DEF Behind, Up
<1> QED BY <1>2, <1>3, <1>4

LEMMA ItemsAre ==
    ASSUME Parameters, NEW r \in Ring
    PROVE  /\ Items(r) \in Seq(Item) /\ Len(Items(r)) = r.waiting
           /\ \A i \in 1..r.waiting : Items(r)[i] = r.buf[Slot(r.read, i)]
<1>1. /\ r.read \in 0..Length - 1 /\ r.waiting \in 0..Length
      /\ r.buf \in [0..Length - 1 -> Item] /\ Length \in Nat
  BY DEF Ring, Parameters
<1>2. \A i \in 1..r.waiting :
        /\ (r.read + i) % Length = Slot(r.read, i)
        /\ Slot(r.read, i) \in 0..Length - 1
  <2> SUFFICES ASSUME NEW i \in 1..r.waiting
               PROVE  /\ (r.read + i) % Length = Slot(r.read, i)
                      /\ Slot(r.read, i) \in 0..Length - 1
    OBVIOUS
  <2>1. i \in 1..Length
    BY <1>1
  <2> QED BY <1>1, <2>1, SlotIs
<1>3. Items(r) \in [1..r.waiting -> Item]
  BY <1>1, <1>2 DEF Items
<1>4. Items(r) \in Seq(Item) /\ Len(Items(r)) = r.waiting
  BY <1>1, <1>3, SeqDef, LenProperties
<1> QED BY <1>2, <1>4 DEF Items

LEMMA PutBack ==
    ASSUME Parameters, NEW r \in Ring, RingOK(r), NEW x \in Item,
           r.waiting < Length
    PROVE  /\ Items(Put(r, x, "back")) = Append(Items(r), x)
           /\ RingOK(Put(r, x, "back"))
<1> DEFINE p == Put(r, x, "back")
           s == Items(r)
           u == Items(p)
<1>1. /\ r.read \in 0..Length - 1 /\ r.waiting \in 0..Length
      /\ r.write \in 0..Length - 1
      /\ r.buf \in [0..Length - 1 -> Item] /\ Length \in Nat
  BY DEF Ring, Parameters
<1>2. /\ p.read = r.read /\ p.waiting = r.waiting + 1 /\ p.write = Up(r.write)
      /\ p.buf = [r.buf EXCEPT ![r.write] = x]
  BY DEF Put, Ring
<1>3. p \in Ring
  BY PutType DEF Room, Sends
<1> HIDE DEF p
<1>4. /\ r.write = Slot(r.read, r.waiting + 1)
      /\ \A i \in 1..r.waiting : Slot(r.read, i) # r.write
      /\ Behind(Up(r.write), r.read, r.waiting + 1)
  BY <1>1, BackSlots DEF RingOK
<1>5. ASSUME NEW i \in 1..r.waiting
      PROVE  Slot(r.read, i) \in 0..Length - 1 /\ i \in 1..r.waiting + 1
  <2>1. i \in 1..Length /\ i \in 1..r.waiting + 1
    BY <1>1
  <2> QED BY <1>1, <2>1, SlotIs
<1>6. /\ u \in Seq(Item) /\ Len(u) = r.waiting + 1
      /\ \A i \in 1..r.waiting + 1 : u[i] = p.buf[Slot(r.read, i)]
  BY <1>2, <1>3, ItemsAre, ZenonT(60)
<1>7. /\ s \in Seq(Item) /\ Len(s) = r.waiting
      /\ \A i \in 1..r.waiting : s[i] = r.buf[Slot(r.read, i)]
  BY ItemsAre
<1> HIDE DEF s, u
<1>8. ASSUME NEW i \in 1..r.waiting
      PROVE  u[i] = s[i]
  <2>1. u[i] = p.buf[Slot(r.read, i)] /\ s[i] = r.buf[Slot(r.read, i)]
    BY <1>5, <1>6, <1>7
  <2>2. Slot(r.read, i) # r.write /\ Slot(r.read, i) \in 0..Length - 1
    BY <1>4, <1>5
  <2> QED BY <1>1, <1>2, <2>1, <2>2
<1>9. u[r.waiting + 1] = x
  BY <1>1, <1>2, <1>4, <1>6
<1>10. u = Append(s, x)
  <2>1. Append(s, x) \in Seq(Item) /\ Len(Append(s, x)) = r.waiting + 1
        /\ \A i \in 1..r.waiting : Append(s, x)[i] = s[i]
        /\ Append(s, x)[r.waiting + 1] = x
    BY <1>1, <1>7, AppendProperties
  <2> QED BY <1>1, <1>6, <1>8, <1>9, <2>1, SeqEqual
<1>11. RingOK(p)
  BY <1>2, <1>4 DEF RingOK
<1> QED BY <1>10, <1>11 DEF p, s, u

LEMMA PutFront ==
    ASSUME Parameters, NEW r \in Ring, RingOK(r), NEW x \in Item,
           NEW op \in {"front", "overwrite"}, r.waiting < Length,
           op = "overwrite" => r.waiting = 0
    PROVE  /\ Items(Put(r, x, op)) = <<x>> \o Items(r)
           /\ RingOK(Put(r, x, op))
<1> DEFINE p == Put(r, x, op)
           s == Items(r)
           u == Items(p)
<1>1. /\ r.read \in 0..Length - 1 /\ r.waiting \in 0..Length
      /\ r.write \in 0..Length - 1
      /\ r.buf \in [0..Length - 1 -> Item] /\ Length \in Nat
  BY DEF Ring, Parameters
<1>2. /\ p.read = Down(r.read) /\ p.waiting = r.waiting + 1
      /\ p.write = r.write /\ p.buf = [r.buf EXCEPT ![r.read] = x]
  BY <1>1 DEF Put, Ring
<1>3. p \in Ring
  BY PutType DEF Room, Sends
<1> HIDE DEF p
<1>4. /\ Slot(p.read, 1) = r.read
      /\ \A i \in 1..r.waiting : /\ Slot(p.read, i + 1) = Slot(r.read, i)
                                /\ Slot(r.read, i) # r.read
      /\ Behind(r.write, p.read, r.waiting + 1)
  BY <1>1, <1>2, FrontSlots DEF RingOK
<1>5. ASSUME NEW i \in 1..r.waiting
      PROVE  Slot(r.read, i) \in 0..Length - 1 /\ i + 1 \in 1..r.waiting + 1
  <2>1. i \in 1..Length /\ i + 1 \in 1..r.waiting + 1
    BY <1>1
  <2> QED BY <1>1, <2>1, SlotIs
<1>6. /\ u \in Seq(Item) /\ Len(u) = r.waiting + 1
      /\ \A i \in 1..r.waiting + 1 : u[i] = p.buf[Slot(p.read, i)]
  BY <1>2, <1>3, ItemsAre
<1>7. /\ s \in Seq(Item) /\ Len(s) = r.waiting
      /\ \A i \in 1..r.waiting : s[i] = r.buf[Slot(r.read, i)]
  BY ItemsAre
<1> HIDE DEF s, u
<1>8. ASSUME NEW i \in 1..r.waiting
      PROVE  u[i + 1] = s[i]
  <2>1. u[i + 1] = p.buf[Slot(p.read, i + 1)] /\ s[i] = r.buf[Slot(r.read, i)]
    BY <1>5, <1>6, <1>7
  <2>2. /\ Slot(p.read, i + 1) = Slot(r.read, i) /\ Slot(r.read, i) # r.read
        /\ Slot(r.read, i) \in 0..Length - 1
    BY <1>4, <1>5
  <2> QED BY <1>1, <1>2, <2>1, <2>2
<1>9. u[1] = x
  BY <1>1, <1>2, <1>4, <1>6
<1>10. u = <<x>> \o s
  <2> DEFINE v == <<x>> \o s
  <2>1. <<x>> \in Seq(Item) /\ Len(<<x>>) = 1 /\ <<x>>[1] = x
    OBVIOUS
  <2>2. v \in Seq(Item) /\ Len(v) = r.waiting + 1
        /\ v[1] = x /\ \A i \in 2..r.waiting + 1 : v[i] = s[i - 1]
    BY <1>1, <1>7, <2>1, ConcatProperties
  <2> HIDE DEF v
  <2>3. \A i \in 2..r.waiting + 1 : u[i] = s[i - 1]
    <3> SUFFICES ASSUME NEW i \in 2..r.waiting + 1 PROVE u[i] = s[i - 1]
      OBVIOUS
    <3>1. i - 1 \in 1..r.waiting /\ (i - 1) + 1 = i
      BY <1>1
    <3> QED BY <1>8, <3>1
  <2>4. \A i \in 1..r.waiting + 1 : u[i] = v[i]
    BY <1>1, <1>9, <2>2, <2>3
  <2>5. u = v
    BY <1>6, <2>2, <2>4, SeqEqual
  <2> QED BY <2>5 DEF v
<1>11. RingOK(p)
  BY <1>2, <1>4 DEF RingOK
<1> QED BY <1>10, <1>11 DEF p, s, u

LEMMA Overwritten ==
    ASSUME Parameters, NEW r \in Ring, RingOK(r), NEW x \in Item,
           Length = 1, r.waiting = 1
    PROVE  /\ Items(Put(r, x, "overwrite")) = <<x>>
           /\ RingOK(Put(r, x, "overwrite"))
<1> DEFINE p == Put(r, x, "overwrite")
           u == Items(p)
<1>1. r.read = 0 /\ r.write = 0 /\ r.buf \in [0..0 -> Item]
  BY DEF Ring
<1>2. /\ p.read = 0 /\ p.waiting = 1 /\ p.write = 0
      /\ p.buf = [r.buf EXCEPT ![0] = x]
  BY <1>1 DEF Put, Ring, Down
<1>3. p \in Ring
  BY PutType DEF Room, Sends
<1> HIDE DEF p
<1>4. u \in Seq(Item) /\ Len(u) = 1 /\ u[1] = p.buf[Slot(0, 1)]
  <2>1. 1 \in 1..p.waiting
    BY <1>2
  <2> QED BY <1>2, <1>3, <2>1, ItemsAre, ZenonT(60)
<1> HIDE DEF u
<1>5. u[1] = x
  BY <1>1, <1>2, <1>4 DEF Slot
<1>6. <<x>> \in Seq(Item) /\ Len(<<x>>) = 1 /\ <<x>>[1] = x
  OBVIOUS
<1>7. u = <<x>>
  BY <1>4, <1>5, <1>6, SeqEqual
<1>8. RingOK(p)
  BY <1>2 DEF RingOK, Behind
<1> QED BY <1>7, <1>8 DEF p, u

LEMMA GotFirst ==
    ASSUME Parameters, NEW r \in Ring, RingOK(r), r.waiting > 0
    PROVE  /\ Items(r) # <<>> /\ First(r) = Head(Items(r))
           /\ Items(Got(r)) = Tail(Items(r)) /\ RingOK(Got(r))
<1> DEFINE g == Got(r)
           s == Items(r)
           u == Items(g)
<1>1. /\ r.read \in 0..Length - 1 /\ r.waiting \in 0..Length
      /\ r.write \in 0..Length - 1
      /\ r.buf \in [0..Length - 1 -> Item] /\ Length \in Nat
  BY DEF Ring, Parameters
<1>2. /\ g.read = Up(r.read) /\ g.waiting = r.waiting - 1
      /\ g.write = r.write /\ g.buf = r.buf /\ g \in Ring
  BY GotType DEF Got, Ring
<1> HIDE DEF g
<1>3. /\ Slot(r.read, 1) = Up(r.read)
      /\ \A i \in 1..r.waiting - 1 : Slot(g.read, i) = Slot(r.read, i + 1)
      /\ Behind(r.write, g.read, r.waiting - 1)
  BY <1>1, <1>2, FirstSlots DEF RingOK
<1>4. /\ u \in Seq(Item) /\ Len(u) = r.waiting - 1
      /\ \A i \in 1..r.waiting - 1 : u[i] = r.buf[Slot(g.read, i)]
  BY <1>2, ItemsAre
<1>5. /\ s \in Seq(Item) /\ Len(s) = r.waiting
      /\ \A i \in 1..r.waiting : s[i] = r.buf[Slot(r.read, i)]
  BY ItemsAre
<1> HIDE DEF s, u
<1>6. s # <<>>
  BY <1>5, EmptySeq
<1>7. /\ Head(s) = s[1] /\ Tail(s) \in Seq(Item)
      /\ Len(Tail(s)) = r.waiting - 1
      /\ \A i \in 1..r.waiting - 1 : Tail(s)[i] = s[i + 1]
  BY <1>5, <1>6, HeadTailProperties
<1>8. First(r) = Head(s)
  BY <1>1, <1>3, <1>5, <1>7 DEF First
<1>9. ASSUME NEW i \in 1..r.waiting - 1
      PROVE  u[i] = s[i + 1]
  <2>1. i + 1 \in 1..r.waiting
    BY <1>1
  <2> QED BY <1>3, <1>4, <1>5, <2>1
<1>10. u = Tail(s)
  <2>1. \A i \in 1..Len(u) : u[i] = Tail(s)[i]
    BY <1>4, <1>7, <1>9
  <2> QED BY <1>4, <1>7, <2>1, SeqEqual
<1>11. RingOK(g)
  BY <1>2, <1>3 DEF RingOK
<1> QED BY <1>6, <1>8, <1>10, <1>11 DEF g, s, u

(* What a send does to the sequence. *)
LEMMA PutAdds ==
    ASSUME Parameters, NEW r \in Ring, RingOK(r), NEW x \in Item,
           NEW op \in Sends, Room(r, op), op = "overwrite" => Length = 1
    PROVE  /\ RingOK(Put(r, x, op))
           /\ \/ /\ Len(Items(r)) < Length
                 /\ \/ Items(Put(r, x, op)) = Append(Items(r), x)
                    \/ Items(Put(r, x, op)) = <<x>> \o Items(r)
              \/ Length = 1 /\ Items(Put(r, x, op)) = <<x>>
<1>1. /\ r.waiting \in 0..Length /\ Length \in Nat
      /\ Len(Items(r)) = r.waiting
  BY ItemsAre DEF Ring, Parameters
<1>2. op = "back" \/ op = "front" \/ op = "overwrite"
  BY DEF Sends
<1>3. CASE r.waiting < Length /\ op = "back"
  BY <1>1, <1>3, PutBack
<1>4. CASE r.waiting < Length /\ op # "back"
  <2>1. op \in {"front", "overwrite"} /\ (op = "overwrite" => r.waiting = 0)
    BY <1>1, <1>2, <1>4
  <2> QED BY <1>1, <1>4, <2>1, PutFront
<1>5. CASE ~(r.waiting < Length)
  <2>1. op = "overwrite" /\ Length = 1 /\ r.waiting = 1
    BY <1>1, <1>5 DEF Room
  <2> QED BY <2>1, Overwritten
<1> QED BY <1>1, <1>3, <1>4, <1>5

(* The lock counts are no part of the sequence. *)
LEMMA SameItems ==
    ASSUME NEW r, NEW s, s.buf = r.buf, s.read = r.read,
           s.waiting = r.waiting, s.write = r.write
    PROVE  Items(s) = Items(r) /\ (RingOK(r) => RingOK(s))
BY DEF Items, RingOK

LEMMA RefinementStep ==
    ASSUME Parameters, KqTypeOK, ItemInv, OpInv, RingOK(q), [Next]_vars
    PROVE  /\ RingOK(q)'
           /\ Promise!Next \/ UNCHANGED <<Items(q), taken>>
<1>a. q \in Ring /\ q' \in Ring /\ call \in [Task -> Calls]
  BY TypeStep DEF KqTypeOK, Ring, Calls
<1>u. ASSUME UNCHANGED <<q, taken>>
      PROVE  /\ RingOK(q)' /\ UNCHANGED <<Items(q), taken>>
  BY <1>u
(* A send, by a task or by an interrupt. *)
<1>s. ASSUME NEW x \in Item, NEW op \in Sends, Room(q, op),
             op = "overwrite" => Length = 1, UNCHANGED taken,
             LET r == Put(q, x, op)
             IN  q' = r \/ q' = [r EXCEPT !.tx = Counted(@)]
      PROVE  RingOK(q)' /\ Promise!Next
  <2> DEFINE r == Put(q, x, op)
  <2>1. /\ RingOK(r)
        /\ \/ /\ Len(Items(q)) < Length
              /\ \/ Items(r) = Append(Items(q), x)
                 \/ Items(r) = <<x>> \o Items(q)
           \/ Length = 1 /\ Items(r) = <<x>>
    BY <1>a, <1>s, PutAdds
  <2>2. r \in Ring
    BY <1>a, <1>s, PutType
  <2>3. q' = r \/ q' = [r EXCEPT !.tx = Counted(@)]
    BY <1>s
  <2> HIDE DEF r
  <2>4. Items(q') = Items(r) /\ RingOK(q')
    <3>1. /\ q'.buf = r.buf /\ q'.read = r.read /\ q'.waiting = r.waiting
          /\ q'.write = r.write
      BY <2>2, <2>3 DEF Ring
    <3> QED BY <2>1, <3>1, SameItems
  <2>5. Items(q)' = Items(q')
    OBVIOUS
  <2>6. Promise!Add(x)
    BY <1>s, <2>1, <2>4, <2>5 DEF Promise!Add
  <2> QED BY <2>4, <2>6 DEF Promise!Next
(* A receive, by a task or by an interrupt. *)
<1>r. ASSUME q.waiting > 0, taken' = First(q),
             LET r == Got(q)
             IN  q' = r \/ q' = [r EXCEPT !.rx = Counted(@)]
      PROVE  RingOK(q)' /\ Promise!Next
  <2> DEFINE r == Got(q)
  <2>1. /\ Items(q) # <<>> /\ First(q) = Head(Items(q))
        /\ Items(r) = Tail(Items(q)) /\ RingOK(r)
    BY <1>a, <1>r, GotFirst
  <2>2. r \in Ring
    BY <1>a, <1>r, GotType
  <2>3. q' = r \/ q' = [r EXCEPT !.rx = Counted(@)]
    BY <1>r
  <2> HIDE DEF r
  <2>4. Items(q') = Items(r) /\ RingOK(q')
    <3>1. /\ q'.buf = r.buf /\ q'.read = r.read /\ q'.waiting = r.waiting
          /\ q'.write = r.write
      BY <2>2, <2>3 DEF Ring
    <3> QED BY <2>1, <3>1, SameItems
  <2>5. Promise!Take
    BY <1>r, <2>1, <2>4 DEF Promise!Take
  <2> QED BY <2>4, <2>5 DEF Promise!Next
(* The lock counts change. *)
<1>l. ASSUME NEW lock, UNCHANGED taken,
             \/ q' = [q EXCEPT !.tx = lock]
             \/ q' = [q EXCEPT !.rx = lock]
             \/ \E other : q' = [q EXCEPT !.tx = lock, !.rx = other]
      PROVE  RingOK(q)' /\ UNCHANGED <<Items(q), taken>>
  <2>1. /\ q'.buf = q.buf /\ q'.read = q.read /\ q'.waiting = q.waiting
        /\ q'.write = q.write
    BY <1>a, <1>l DEF Ring
  <2> QED BY <1>l, <2>1, SameItems
<1>1. CASE UNCHANGED vars
  BY <1>1, <1>u DEF vars
<1>2. ASSUME NEW t \in Task, TaskStep(t)
      PROVE  RingOK(q)' /\ (Promise!Next \/ UNCHANGED <<Items(q), taken>>)
  <2>1. CASE Send(t)
    <3>1. call[t].item \in Item
      BY <1>a, <2>1 DEF Send, ItemInv, Calls
    <3> QED BY <1>s, <2>1, <3>1 DEF Send, OpInv
  <2>2. CASE Receive(t)
    BY <1>r, <2>2 DEF Receive
  <2>3. CASE Peek(t)
    <3>1. Items(q) # <<>> /\ First(q) = Head(Items(q))
      BY <1>a, <2>3, GotFirst DEF Peek
    <3>2. taken' = First(q) /\ q' = q
      BY <2>3 DEF Peek
    <3>3. Promise!Take
      BY <3>1, <3>2 DEF Promise!Take
    <3> QED BY <3>2, <3>3 DEF Promise!Next
  <2>4. CASE LockQueue(t)
    BY <1>l, <2>4 DEF LockQueue
  <2>5. CASE UnlockTx(t) \/ UnlockRx(t)
    BY <1>l, <2>5 DEF UnlockTx, UnlockRx
  <2>6. CASE \/ Call(t) \/ TryFails(t) \/ SuspendAll(t) \/ CheckForTimeOut(t)
            \/ CheckQueue(t) \/ PlaceOnEventList(t) \/ ResumeAll(t)
            \/ LateReceive(t)
    BY <1>u, <2>6 DEF Call, TryFails, SuspendAll, CheckForTimeOut, CheckQueue,
                      PlaceOnEventList, ResumeAll, LateReceive
  <2> QED BY <1>2, <2>1, <2>2, <2>3, <2>4, <2>5, <2>6 DEF TaskStep
<1>3. CASE SwitchContext \/ \E t \in Task : TimePasses(t)
  BY <1>3, <1>u DEF SwitchContext, TimePasses
<1>4. ASSUME NEW x \in Item, IsrSend(x)
      PROVE  RingOK(q)' /\ Promise!Next
  <2>1. PICK op \in IsrOps \cap Sends :
          /\ Room(q, op)
          /\ IF q.tx = Unlocked
             THEN q' = Put(q, x, op) /\ WakeReceivers(1)
             ELSE /\ q' = [Put(q, x, op) EXCEPT !.tx = Counted(@)]
                  /\ UNCHANGED <<waitSend, waitRecv, sched>>
    BY <1>4 DEF IsrSend
  <2>2. op = "overwrite" => Length = 1
    BY DEF Parameters
  <2> QED BY <1>4, <1>s, <2>1, <2>2 DEF IsrSend
<1>5. CASE IsrReceive
  BY <1>5, <1>r DEF IsrReceive
<1> QED BY <1>1, <1>2, <1>3, <1>4, <1>5 DEF Next

(* The ring, whose pointers tasks and interrupts move at either end, is a  *)
(* sequence of at most Length items, to which one is added at an end and   *)
(* from which the first is taken, whatever the length of the queue.        *)
THEOREM QueueImplementsService ==
    ASSUME Parameters PROVE Spec => ImplementsQueueService
<1> DEFINE Inv == KqTypeOK /\ ItemInv /\ OpInv /\ RingOK(q)
<1>1. Init => Inv /\ Promise!Init
  <2> SUFFICES ASSUME Init PROVE Inv /\ Promise!Init
    OBVIOUS
  <2>1. KqTypeOK /\ ItemInv
    BY TypeInit
  <2>2. OpInv
    BY DEF Init, OpInv, NoCall
  <2>3. RingOK(q)
    BY DEF Init, RingOK, Behind, Parameters
  <2>4. q \in Ring /\ q.waiting = 0 /\ taken \in Item
    BY <2>1 DEF KqTypeOK, Ring, Init
  <2>5. Items(q) = <<>>
    BY <2>4, ItemsAre, EmptySeq
  <2> QED BY <2>1, <2>2, <2>3, <2>4, <2>5 DEF Promise!Init
<1>2. Inv /\ [Next]_vars => Inv' /\ [Promise!Next]_<<Items(q), taken>>
  BY TypeStep, OpStep, RefinementStep
<1> QED BY <1>1, <1>2, PTL DEF Spec, ImplementsQueueService, Promise!Spec
=============================================================================
