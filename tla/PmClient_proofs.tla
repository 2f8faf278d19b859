--------------------------- MODULE PmClient_proofs ---------------------------
(***************************************************************************)
(* Theorems about PmClient, for any words, interrupts, frequencies, queue  *)
(* and FIFO sizes, and whatever may fail: the service is built in an order *)
(* that main's interrupts cannot upset, the standby undoes nobody's work,  *)
(* and a queue as long as the window loses no word, upon which the client  *)
(* keeps the promise of PmService.                                         *)
(***************************************************************************)
EXTENDS PmClient, SequenceTheorems, TLAPS

(* A word, and a sequence of words, taken off, put behind, cut. *)
LEMMA Words ==
    ASSUME NEW s \in Seq(Word), NEW w \in Word
    PROVE  /\ Append(s, w) \in Seq(Word) /\ Len(Append(s, w)) = Len(s) + 1
           /\ Len(s) \in Nat
           /\ s # <<>> => /\ Head(s) \in Word /\ Tail(s) \in Seq(Word)
                          /\ Len(Tail(s)) = Len(s) - 1 /\ Len(s) > 0
<1>1. Append(s, w) \in Seq(Word) /\ Len(Append(s, w)) = Len(s) + 1
      /\ Len(s) \in Nat
  OBVIOUS
<1>2. ASSUME s # <<>>
      PROVE  /\ Head(s) \in Word /\ Tail(s) \in Seq(Word)
             /\ Len(Tail(s)) = Len(s) - 1 /\ Len(s) > 0
  BY <1>2, HeadTailProperties, EmptySeq
<1> QED BY <1>1, <1>2

LEMMA Cut ==
    ASSUME NEW s \in Seq(Word), NEW n \in 0..Len(s)
    PROVE  /\ SubSeq(s, 1, n) \in Seq(Word)
           /\ Len(SubSeq(s, 1, n)) = n
<1>1. n \in Int /\ 1 \in Int /\ Len(s) \in Nat
  OBVIOUS
<1>2. \A i \in 1..n : s[i] \in Word
  <2> SUFFICES ASSUME NEW i \in 1..n PROVE s[i] \in Word
    OBVIOUS
  <2>1. i \in 1..Len(s)
    BY <1>1
  <2> QED BY <2>1, ElementOfSeq
<1> QED BY <1>1, <1>2, SubSeqProperties

(* What the callback keeps of the FIFO. *)
LEMMA KeptBounds ==
    ASSUME PmTypeOK
    PROVE  /\ Kept \in 0..Len(fifo)
           /\ Len(queue) + Kept <= QueueLength
<1>1. Len(fifo) \in Nat /\ Len(queue) \in Nat /\ QueueLength \in Nat
      /\ Len(queue) <= QueueLength
  BY BoundAssumption DEF PmTypeOK
<1> QED BY <1>1 DEF Kept, Room

-----------------------------------------------------------------------------
(* Types. *)

LEMMA TypeInit == Init => PmTypeOK
<1> SUFFICES ASSUME Init PROVE PmTypeOK
  OBVIOUS
<1>1. wanted \in [freq : Freq, enable : SUBSET Irq]
  <2>1. wanted \in [freq : Freq \ {Low}, enable : {Irq}]
    BY DEF Init
  <2> QED BY <2>1
<1>2. cpu \in [level : {0, WaitLevel, DisabledLevel}, enable : SUBSET Irq,
               suspended : BOOLEAN, freq : Freq]
  BY <1>1 DEF Init
<1>3. fifo \in Seq(Word) /\ Len(fifo) <= FifoDepth
      /\ queue \in Seq(Word) /\ Len(queue) <= QueueLength
      /\ tx \in Seq(Word) /\ Len(tx) <= FifoDepth
  BY BoundAssumption, EmptySeq DEF Init
<1>4. sent \in 0..MaxWords /\ last \in Word /\ data \in Word
      /\ patient \in Patience
  BY BoundAssumption DEF Init
<1>5. service \in [inited : BOOLEAN, xQueue : {"none", "live", "deleted"},
                   linked : BOOLEAN]
      /\ saved \in [freq : Freq \cup {None}, enable : SUBSET Irq]
  BY DEF Init
<1>6. main = "create_queue" /\ pc = "none" /\ raised = {}
      /\ dropped = FALSE /\ freqFailed = FALSE
  BY DEF Init
<1> QED BY <1>1, <1>2, <1>3, <1>4, <1>5, <1>6 DEF PmTypeOK

(* One step of each action keeps the types. *)
LEMMA TypeStep ==
    ASSUME PmTypeOK, [Next]_vars
    PROVE  PmTypeOK'
<1> USE DEF PmTypeOK, words, past
<1>1. CASE UNCHANGED vars
  BY <1>1 DEF vars
<1>2. CASE Boot
  BY <1>2, ZenonT(60)
     DEF Boot, CreateQueue, CreateQueueFails, AllocChannel,
         AllocChannelFails, CreateTask, CreateTaskFails,
         DeleteHandles, Publish, StartScheduler, Main
<1>3. CASE TaskStep
  <2>1. CASE Receive
    <3>1. Head(queue) \in Word /\ Tail(queue) \in Seq(Word)
          /\ Len(Tail(queue)) <= QueueLength
      BY <2>1, Words, BoundAssumption DEF Receive
    <3>2. /\ data' \in Word /\ queue' \in Seq(Word)
          /\ Len(queue') <= QueueLength
          /\ pc' = "answer"
      BY <2>1, <3>1 DEF Receive
    <3> QED BY <2>1, <3>2 DEF Receive
  <2>2. CASE Answer
    <3>1. tx' \in Seq(Word) /\ Len(tx') <= FifoDepth
      <4>1. tx' = tx \/ (Len(tx) < FifoDepth /\ tx' = Append(tx, data))
        BY <2>2 DEF Answer, SendData
      <4>2. /\ Append(tx, data) \in Seq(Word)
            /\ Len(Append(tx, data)) = Len(tx) + 1
            /\ Len(tx) \in Nat
        BY Words
      <4>3. CASE tx' = tx
        BY <4>3
      <4>4. CASE Len(tx) < FifoDepth /\ tx' = Append(tx, data)
        <5> DEFINE t == Append(tx, data)
        <5>1. t \in Seq(Word) /\ Len(t) = Len(tx) + 1 /\ FifoDepth \in Nat
          BY <4>2, BoundAssumption
        <5> HIDE DEF t
        <5> QED BY <4>2, <4>4, <5>1 DEF t
      <4> QED BY <4>1, <4>3, <4>4
    <3>2. pc' \in Going \cup {"receive"}
      BY <2>2 DEF Answer, Going
    <3> QED BY <2>2, <3>1, <3>2 DEF Answer
  <2>3. ASSUME NEW c, c \in [level : {0, WaitLevel, DisabledLevel},
                             enable : SUBSET Irq, suspended : BOOLEAN,
                             freq : Freq],
               NEW from, NEW to \in {"receive", "asleep"} \cup Going \cup Back,
               Standby(from, to, c), freqFailed' \in BOOLEAN,
               saved' \in [freq : Freq \cup {None}, enable : SUBSET Irq]
        PROVE  PmTypeOK'
    BY <2>3 DEF Standby
  <2>4. CASE SuspendAll
    BY <2>4, <2>3 DEF SuspendAll, Going
  <2>5. CASE GetFreq
    BY <2>5, <2>3 DEF GetFreq, Going
  <2>6. CASE SetFreq("low_freq", "disable", Low)
    BY <2>6, <2>3, FreqAssumption DEF SetFreq, Going
  <2>7. CASE DisableInterrupts
    BY <2>7, <2>3 DEF DisableInterrupts, Going
  <2>8. CASE GetIntenable
    BY <2>8, <2>3 DEF GetIntenable, Going
  <2>9. CASE MaskOthers
    BY <2>9, <2>3 DEF MaskOthers, Going
  <2>10. CASE Waiti
    BY <2>10, <2>3 DEF Waiti
  <2>11. CASE Unmask
    BY <2>11, <2>3 DEF Unmask, Back
  <2>12. CASE EnableInterrupts
    BY <2>12, <2>3 DEF EnableInterrupts, Back
  <2>13. CASE SetFreq("old_freq", "resume_all", saved.freq)
    BY <2>13, <2>3 DEF SetFreq, Back
  <2>14. CASE ResumeAll
    BY <2>14, <2>3 DEF ResumeAll
  <2> QED BY <1>3, <2>1, <2>2, <2>4, <2>5, <2>6, <2>7, <2>8, <2>9, <2>10,
             <2>11, <2>12, <2>13, <2>14 DEF TaskStep
<1>4. CASE MsgboxInterrupt
  <2>1. queue' \in Seq(Word) /\ Len(queue') <= QueueLength
    <3>1. SubSeq(fifo, 1, Kept) \in Seq(Word)
          /\ Len(SubSeq(fifo, 1, Kept)) = Kept
      BY KeptBounds, Cut
    <3>2. queue' = queue \o SubSeq(fifo, 1, Kept)
      BY <1>4 DEF MsgboxInterrupt
    <3>3. queue' \in Seq(Word) /\ Len(queue') = Len(queue) + Kept
      BY <3>1, <3>2, ConcatProperties
    <3> QED BY <3>3, KeptBounds
  <2>2. fifo' \in Seq(Word) /\ Len(fifo') <= FifoDepth
    BY <1>4, BoundAssumption, EmptySeq DEF MsgboxInterrupt
  <2>3. dropped' \in BOOLEAN
    BY <1>4 DEF MsgboxInterrupt
  <2> QED BY <1>4, <2>1, <2>2, <2>3 DEF MsgboxInterrupt, Taken, Back
<1>5. ASSUME NEW i \in Irq, Raise(i) \/ OtherInterrupt(i)
      PROVE  PmTypeOK'
  BY <1>5 DEF Raise, OtherInterrupt, Taken, Back
<1>6. CASE RemoteRead
  <2>1. tx' \in Seq(Word) /\ Len(tx') <= FifoDepth
    BY <1>6, Words, BoundAssumption DEF RemoteRead
  <2> QED BY <1>6, <2>1 DEF RemoteRead
<1>7. ASSUME NEW w \in Word, RemoteSend(w)
      PROVE  PmTypeOK'
  <2>1. fifo' \in Seq(Word) /\ Len(fifo') <= FifoDepth
    <3>1. Len(fifo) < FifoDepth /\ fifo' = Append(fifo, w)
      BY <1>7 DEF RemoteSend
    <3> QED BY <3>1, Words, BoundAssumption
  <2>2. sent' \in 0..MaxWords
    BY <1>7, BoundAssumption DEF RemoteSend
  <2> QED BY <1>7, <2>1, <2>2 DEF RemoteSend
<1>8. ASSUME NEW f \in Freq, NEW irqs \in SUBSET Irq, OtherTask(f, irqs)
      PROVE  PmTypeOK'
  <2>1. cpu' \in [level : {0, WaitLevel, DisabledLevel}, enable : SUBSET Irq,
                  suspended : BOOLEAN, freq : Freq]
    BY <1>8 DEF OtherTask
  <2>2. wanted' \in [freq : Freq, enable : SUBSET Irq]
    BY <1>8 DEF OtherTask
  <2> QED BY <1>8, <2>1, <2>2 DEF OtherTask
<1> QED BY <1>1, <1>2, <1>3, <1>4, <1>5, <1>6, <1>7, <1>8 DEF Next

(* Every variable keeps its type. *)
THEOREM PmTypeCorrect == Spec => []PmTypeOK
BY TypeInit, TypeStep, PTL DEF Spec

-----------------------------------------------------------------------------
(* How far main has come, and what exists by then. *)
Building == {"create_queue", "alloc", "create_task", "delete"}

OrderInv ==
    /\ service.xQueue = "none" =>
          pc = "none" /\ main \in {"create_queue", "start", "running"}
    /\ service.xQueue = "deleted" =>
          pc = "none" /\ main \in {"start", "running"}
    /\ main = "create_queue" => service.xQueue = "none"
    /\ service.linked =>
          service.xQueue # "none" /\ main \notin {"create_queue", "alloc"}
    /\ main \in {"start", "running"} =>
          service.inited \/ service.xQueue # "live"
    /\ main \in Building => pc = "none"
    /\ pc \notin {"none", "receive"} => main = "running"
    /\ main # "running" => tx = <<>>

LEMMA OrderInit == Init => OrderInv
BY DEF Init, OrderInv, Building

LEMMA OrderStep ==
    ASSUME PmTypeOK, OrderInv, [Next]_vars
    PROVE  OrderInv'
<1> USE DEF OrderInv, Building, words, past
<1>1. CASE UNCHANGED vars
  BY <1>1 DEF vars
<1>2. CASE Boot
  BY <1>2 DEF PmTypeOK, Boot, CreateQueue, CreateQueueFails, AllocChannel,
              AllocChannelFails, CreateTask, CreateTaskFails, DeleteHandles,
              Publish, StartScheduler, Main
<1>3. CASE TaskStep
  <2>1. main = "running" /\ pc # "none" /\ UNCHANGED <<main, service>>
        /\ pc' # "none"
    BY <1>3 DEF TaskStep, Receive, Answer, SuspendAll, GetFreq, SetFreq,
                DisableInterrupts, GetIntenable, MaskOthers, Waiti, Unmask,
                EnableInterrupts, ResumeAll, Standby, At, Scheduled
  <2> QED BY <2>1
<1>4. ASSUME NEW i \in Irq, Taken(i), UNCHANGED <<main, service, tx>>
      PROVE  OrderInv'
  BY <1>4 DEF Taken
<1>5. CASE MsgboxInterrupt
  <2>1. PICK i \in Irq : Taken(i)
    BY <1>5, LevelAssumption DEF MsgboxInterrupt
  <2> QED BY <1>4, <1>5, <2>1 DEF Taken
<1>6. ASSUME NEW i \in Irq, Raise(i) \/ OtherInterrupt(i)
      PROVE  OrderInv'
  BY <1>6 DEF Raise, OtherInterrupt, Taken
<1>7. CASE RemoteRead
  BY <1>7 DEF RemoteRead
<1>8. ASSUME NEW w \in Word, RemoteSend(w)
      PROVE  OrderInv'
  BY <1>8 DEF RemoteSend
<1>9. ASSUME NEW f \in Freq, NEW irqs \in SUBSET Irq, OtherTask(f, irqs)
      PROVE  OrderInv'
  BY <1>9 DEF OtherTask
<1> QED BY <1>1, <1>2, <1>3, <1>5, <1>6, <1>7, <1>8, <1>9 DEF Next

(* The callback finds a queue as soon as the endpoint is linked, and the   *)
(* task finds the service initialised: the scheduler starts after both.    *)
THEOREM BuiltInOrderAlways == Spec => []BuiltInOrder
<1>1. OrderInv /\ PmTypeOK => BuiltInOrder
  BY DEF OrderInv, BuiltInOrder, PmTypeOK, At, Scheduled
<1> QED BY <1>1, TypeInit, TypeStep, OrderInit, OrderStep, PTL DEF Spec

-----------------------------------------------------------------------------
(* What the standby has changed at each of its steps, and what it has kept *)
(* to restore it with.                                                     *)
Awake == {"none", "receive", "answer", "suspend_all"}

StandbyInv ==
    /\ cpu.suspended <=> pc \notin Awake
    /\ pc \in Awake \cup {"get_freq", "low_freq", "disable", "old_freq",
                          "resume_all"} => cpu.level = 0
    /\ pc \notin {"waiti", "asleep", "unmask"} =>
          cpu.enable = wanted.enable
    /\ pc \in {"mask", "waiti", "asleep", "unmask"} =>
          saved.enable = wanted.enable
    /\ pc \in Awake \cup {"get_freq", "resume_all"} =>
          freqFailed \/ cpu.freq = wanted.freq
    /\ pc \notin Awake \cup {"get_freq", "resume_all"} =>
          freqFailed \/ saved.freq = wanted.freq

LEMMA StandbyInit == Init => StandbyInv
BY DEF Init, StandbyInv, Awake

LEMMA StandbyStep ==
    ASSUME PmTypeOK, OrderInv, StandbyInv, [Next]_vars
    PROVE  StandbyInv'
<1> USE DEF StandbyInv, Awake, words, past
<1>1. CASE UNCHANGED vars
  BY <1>1 DEF vars
<1>2. CASE Boot
  BY <1>2 DEF Boot, CreateQueue, CreateQueueFails, AllocChannel,
              AllocChannelFails, CreateTask, CreateTaskFails,
              DeleteHandles, Publish, StartScheduler, Main, OrderInv, Building
<1>3. CASE TaskStep
  <2> USE DEF Standby, At, PmTypeOK
  <2>1. CASE Receive
    BY <2>1 DEF Receive
  <2>2. CASE Answer
    BY <2>2 DEF Answer
  <2>3. CASE SuspendAll
    BY <2>3 DEF SuspendAll
  <2>4. CASE GetFreq
    BY <2>4 DEF GetFreq
  <2>5. CASE SetFreq("low_freq", "disable", Low)
    BY <2>5 DEF SetFreq
  <2>6. CASE DisableInterrupts
    BY <2>6 DEF DisableInterrupts
  <2>7. CASE GetIntenable
    BY <2>7 DEF GetIntenable
  <2>8. CASE MaskOthers
    BY <2>8 DEF MaskOthers
  <2>9. CASE Waiti
    BY <2>9 DEF Waiti
  <2>10. CASE Unmask
    BY <2>10 DEF Unmask
  <2>11. CASE EnableInterrupts
    BY <2>11 DEF EnableInterrupts
  <2>12. CASE SetFreq("old_freq", "resume_all", saved.freq)
    BY <2>12 DEF SetFreq
  <2>13. CASE ResumeAll
    BY <2>13 DEF ResumeAll
  <2> QED BY <1>3, <2>1, <2>2, <2>3, <2>4, <2>5, <2>6, <2>7, <2>8, <2>9,
             <2>10, <2>11, <2>12, <2>13 DEF TaskStep
<1>4. CASE MsgboxInterrupt
  BY <1>4 DEF MsgboxInterrupt, Taken
<1>5. ASSUME NEW i \in Irq, Raise(i) \/ OtherInterrupt(i)
      PROVE  StandbyInv'
  BY <1>5 DEF Raise, OtherInterrupt, Taken
<1>6. CASE RemoteRead
  BY <1>6 DEF RemoteRead
<1>7. ASSUME NEW w \in Word, RemoteSend(w)
      PROVE  StandbyInv'
  BY <1>7 DEF RemoteSend
<1>8. ASSUME NEW f \in Freq, NEW irqs \in SUBSET Irq, OtherTask(f, irqs)
      PROVE  StandbyInv'
  BY <1>8 DEF OtherTask, PmTypeOK
<1> QED BY <1>1, <1>2, <1>3, <1>4, <1>5, <1>6, <1>7, <1>8 DEF Next

(* Whatever the clock functions do and other tasks ask for: when the task  *)
(* waits for a word, the scheduler runs, the interrupts are those that are *)
(* wanted, and so is the frequency unless a clock function has failed.     *)
THEOREM StandbyUndoesNothingAlways == Spec => []StandbyUndoesNothing
<1>1. StandbyInv => StandbyUndoesNothing
  BY DEF StandbyInv, StandbyUndoesNothing, Awake
<1> QED BY <1>1, TypeInit, TypeStep, OrderInit, OrderStep, StandbyInit,
           StandbyStep, PTL DEF Spec

-----------------------------------------------------------------------------
(* The words that the callback may still have to queue fit into the queue. *)
WindowInv ==
    /\ Len(fifo) + Len(queue) <= Window
    /\ Window <= QueueLength /\ service.xQueue # "deleted" => ~dropped

LEMMA WindowInit == Init => WindowInv
BY BoundAssumption, EmptySeq DEF Init, WindowInv

LEMMA WindowStep ==
    ASSUME PmTypeOK, OrderInv, WindowInv, [Next]_vars
    PROVE  WindowInv'
<1>0. /\ Len(fifo) \in Nat /\ Len(queue) \in Nat /\ Len(tx) \in Nat
      /\ fifo \in Seq(Word) /\ queue \in Seq(Word) /\ tx \in Seq(Word)
      /\ {Window, QueueLength} \subseteq Nat
  BY BoundAssumption DEF PmTypeOK
<1> USE DEF WindowInv, words, past
<1>1. CASE UNCHANGED <<fifo, queue, dropped>> /\ UNCHANGED service
  BY <1>1
<1>2. CASE Boot
  BY <1>2 DEF Boot, CreateQueue, CreateQueueFails, AllocChannel,
              AllocChannelFails, CreateTask, CreateTaskFails,
              DeleteHandles, Publish, StartScheduler, Main, OrderInv, Building
<1>3. CASE TaskStep
  <2>1. CASE Receive
    <3>1. Len(queue') = Len(queue) - 1
      BY <2>1, <1>0, Words DEF Receive
    <3> QED BY <2>1, <3>1, <1>0 DEF Receive
  <2>2. ASSUME ~Receive PROVE UNCHANGED <<fifo, queue, dropped, service>>
    BY <1>3, <2>2
       DEF TaskStep, Answer, SuspendAll, GetFreq, SetFreq, DisableInterrupts,
           GetIntenable, MaskOthers, Waiti, Unmask, EnableInterrupts,
           ResumeAll, Standby
  <2> QED BY <2>1, <2>2, <1>1
<1>4. CASE MsgboxInterrupt
  <2>1. /\ queue' = queue \o SubSeq(fifo, 1, Kept)
        /\ fifo' = <<>>
        /\ dropped' = (dropped \/ Kept < Len(fifo))
        /\ service.linked /\ service' = service
    BY <1>4 DEF MsgboxInterrupt, Taken
  <2>2. SubSeq(fifo, 1, Kept) \in Seq(Word)
        /\ Len(SubSeq(fifo, 1, Kept)) = Kept
    BY KeptBounds, Cut, <1>0
  <2>3. Len(queue') = Len(queue) + Kept /\ Len(fifo') = 0
    BY <2>1, <2>2, <1>0, ConcatProperties, EmptySeq
  <2>4. Len(fifo') + Len(queue') <= Window
    BY <2>3, KeptBounds, <1>0
  <2>5. ASSUME Window <= QueueLength, service.xQueue # "deleted"
        PROVE  Kept = Len(fifo)
    <3>1. service.xQueue = "live"
      BY <2>1, <2>5 DEF OrderInv, PmTypeOK
    <3> QED BY <3>1, <2>5, <1>0 DEF Kept, Room
  <2>6. Kept = Len(fifo) => ~(Kept < Len(fifo))
    BY <1>0
  <2>7. Window <= QueueLength /\ service'.xQueue # "deleted" => ~dropped'
    BY <2>1, <2>5, <2>6, Zenon
  <2> QED BY <2>4, <2>7
<1>5. ASSUME NEW i \in Irq, Raise(i) \/ OtherInterrupt(i)
      PROVE  WindowInv'
  BY <1>5 DEF Raise, OtherInterrupt, Taken
<1>6. CASE RemoteRead
  BY <1>6 DEF RemoteRead
<1>7. ASSUME NEW w \in Word, RemoteSend(w)
      PROVE  WindowInv'
  <2>1. Unanswered < Window /\ fifo' = Append(fifo, w)
        /\ UNCHANGED <<queue, dropped, service>>
    BY <1>7 DEF RemoteSend
  <2>2. Len(fifo) + Len(queue) < Window
    <3>1. \E n \in {0, 1} : Unanswered = Len(fifo) + Len(queue) + Len(tx) + n
      BY DEF Unanswered
    <3> QED BY <2>1, <3>1, <1>0
  <2>3. Len(fifo') = Len(fifo) + 1
    BY <2>1, <1>0, Words
  <2> QED BY <2>1, <2>2, <2>3, <1>0
<1>8. ASSUME NEW f \in Freq, NEW irqs \in SUBSET Irq, OtherTask(f, irqs)
      PROVE  WindowInv'
  BY <1>8 DEF OtherTask
<1> QED BY <1>1, <1>2, <1>3, <1>4, <1>5, <1>6, <1>7, <1>8 DEF Next, vars

(* xQueueSendFromISR, whose result nobody looks at, never fails as long as *)
(* the remote core leaves no more words unanswered than the queue holds.   *)
THEOREM NothingDroppedEver == Spec => []NothingDropped
<1>1. WindowInv => NothingDropped
  BY DEF WindowInv, NothingDropped
<1> QED BY <1>1, TypeInit, TypeStep, OrderInit, OrderStep, WindowInit,
           WindowStep, PTL DEF Spec

-----------------------------------------------------------------------------
(* The refinement of PmService: the words that are on their way, and what  *)
(* the remote core takes the processor to be doing.                        *)
Held == IF pc = "answer" THEN <<data>> ELSE <<>>
Line == Held \o queue \o fifo
Power == IF Unbuilt THEN "failed"
         ELSE IF pc \in Going THEN "going"
         ELSE IF pc = "asleep" THEN "asleep" ELSE "up"

Inv == PmTypeOK /\ OrderInv /\ WindowInv

LEMMA LineType ==
    ASSUME PmTypeOK
    PROVE  /\ Held \in Seq(Word) /\ queue \in Seq(Word) /\ fifo \in Seq(Word)
           /\ Held \o queue \in Seq(Word) /\ Line \in Seq(Word)
           /\ tx \in Seq(Word)
<1>1. Held \in Seq(Word)
  BY DEF PmTypeOK, Held
<1>2. queue \in Seq(Word) /\ fifo \in Seq(Word) /\ tx \in Seq(Word)
  BY DEF PmTypeOK
<1>3. Held \o queue \in Seq(Word)
  BY <1>1, <1>2, ConcatProperties
<1> QED BY <1>1, <1>2, <1>3, ConcatProperties DEF Line

(* A word behind two sequences is behind the second; the first of two, if  *)
(* it is one word, is what is taken off.                                   *)
LEMMA AppendConcat ==
    ASSUME NEW s \in Seq(Word), NEW t \in Seq(Word), NEW w \in Word
    PROVE  s \o Append(t, w) = Append(s \o t, w)
<1>1. Append(t, w) = t \o <<w>> /\ <<w>> \in Seq(Word)
  OBVIOUS
<1>2. s \o t \in Seq(Word)
  BY ConcatProperties
<1>3. Append(s \o t, w) = (s \o t) \o <<w>>
  BY <1>2
<1> QED BY <1>1, <1>3, ConcatAssociative

LEMMA HeadConcat ==
    ASSUME NEW s \in Seq(Word), NEW w \in Word
    PROVE  /\ <<w>> \o s # <<>>
           /\ Head(<<w>> \o s) = w
           /\ Tail(<<w>> \o s) = s
<1> DEFINE l == <<w>> \o s
<1>1. <<w>> \in Seq(Word) /\ Len(<<w>>) = 1 /\ <<w>>[1] = w
  OBVIOUS
<1>2. /\ l \in Seq(Word) /\ Len(l) = 1 + Len(s)
      /\ \A i \in 1..1 + Len(s) : l[i] = IF i <= 1 THEN w ELSE s[i - 1]
  BY <1>1, ConcatProperties
<1>3. l # <<>> /\ l[1] = w
  BY <1>2, EmptySeq
<1>4. /\ Tail(l) \in Seq(Word) /\ Len(Tail(l)) = Len(s)
      /\ \A i \in 1..Len(s) : Tail(l)[i] = l[i + 1]
  BY <1>2, <1>3, HeadTailProperties
<1>5. \A i \in 1..Len(s) : Tail(l)[i] = s[i]
  BY <1>2, <1>4
<1>6. Tail(l) = s
  BY <1>4, <1>5, SeqEqual
<1>7. Head(l) = w
  BY <1>2, <1>3
<1> QED BY <1>3, <1>6, <1>7

LEMMA FirstAndRest ==
    ASSUME NEW s \in Seq(Word), s # <<>>
    PROVE  <<Head(s)>> \o Tail(s) = s
<1> DEFINE l == <<Head(s)>> \o Tail(s)
<1>1. /\ Head(s) \in Word /\ Tail(s) \in Seq(Word)
      /\ Len(Tail(s)) = Len(s) - 1 /\ Len(s) \in Nat /\ Len(s) > 0
      /\ \A i \in 1..Len(Tail(s)) : Tail(s)[i] = s[i + 1]
      /\ Head(s) = s[1]
  BY HeadTailProperties, EmptySeq
<1>2. <<Head(s)>> \in Seq(Word) /\ Len(<<Head(s)>>) = 1
      /\ <<Head(s)>>[1] = Head(s)
  BY <1>1
<1>3. /\ l \in Seq(Word) /\ Len(l) = Len(s)
      /\ \A i \in 1..Len(s) : l[i] = IF i <= 1 THEN <<Head(s)>>[i]
                                    ELSE Tail(s)[i - 1]
  BY <1>1, <1>2, ConcatProperties
<1>4. \A i \in 1..Len(s) : l[i] = s[i]
  <2> SUFFICES ASSUME NEW i \in 1..Len(s) PROVE l[i] = s[i]
    OBVIOUS
  <2>1. CASE i = 1
    BY <1>1, <1>2, <1>3, <2>1
  <2>2. CASE i > 1
    <3>1. i - 1 \in 1..Len(Tail(s)) /\ (i - 1) + 1 = i
      BY <1>1, <2>2
    <3>2. l[i] = Tail(s)[i - 1]
      BY <1>3, <2>2
    <3> QED BY <1>1, <3>1, <3>2
  <2> QED BY <1>1, <2>1, <2>2
<1> QED BY <1>3, <1>4, SeqEqual

LEMMA Front ==
    ASSUME NEW s \in Seq(Word), NEW t \in Seq(Word)
    PROVE  /\ Len(s) \in 0..Len(s \o t)
           /\ SubSeq(s \o t, 1, Len(s)) = s
<1>1. Len(s) \in Nat /\ Len(t) \in Nat /\ Len(s \o t) = Len(s) + Len(t)
  BY ConcatProperties
<1>2. CASE Len(s) = 0
  <2>1. s = <<>>
    BY <1>2, EmptySeq
  <2>2. SubSeq(s \o t, 1, Len(s)) = <<>>
    BY <1>2, SubSeqEmpty
  <2> QED BY <1>1, <2>1, <2>2
<1>3. CASE Len(s) > 0
  <2>1. 1 \in 1..Len(s) /\ Len(s) \in 1..Len(s)
    BY <1>1, <1>3
  <2>2. SubSeq(s \o t, 1, Len(s)) = SubSeq(s, 1, Len(s))
    BY <2>1, SubSeqOfConcat1
  <2> QED BY <1>1, <2>2, SubSeqFull
<1> QED BY <1>1, <1>2, <1>3

(* The callback moves the whole FIFO behind the queue. *)
LEMMA MsgboxRefines ==
    ASSUME Inv, Window <= QueueLength, MsgboxInterrupt
    PROVE  Promise!Next \/ UNCHANGED <<Line, tx, Power>>
<1> USE DEF Inv
<1>1. /\ queue' = queue \o SubSeq(fifo, 1, Kept) /\ fifo' = <<>>
      /\ tx' = tx /\ service' = service /\ main' = main /\ data' = data
      /\ service.linked
      /\ pc' = IF pc = "asleep" THEN "unmask" ELSE pc
  BY DEF MsgboxInterrupt, Taken, words, past
<1>2. Held' = Held
  BY <1>1 DEF Held
<1>3. CASE service.xQueue = "deleted"
  <2>1. pc = "none" /\ pc' = "none"
    BY <1>1, <1>3 DEF OrderInv
  <2>2. Held = <<>> /\ Line = queue \o fifo
    <3>1. Held = <<>> /\ <<>> \o queue = queue
      BY <2>1, LineType, ConcatEmptySeq DEF Held
    <3> QED BY <3>1 DEF Line
  <2>3. Kept = 0
    BY <1>3 DEF Kept
  <2>4. queue' = queue
    BY <1>1, <2>3, LineType, SubSeqEmpty, ConcatEmptySeq
  <2>5. Line' = queue
    <3>1. Line' = (<<>> \o queue) \o <<>>
      BY <1>1, <1>2, <2>2, <2>4 DEF Line
    <3> QED BY <3>1, LineType, ConcatEmptySeq
  <2>6. Power = "failed" /\ Power' = "failed"
    BY <1>1, <1>3 DEF Power, Unbuilt
  <2>7. Line' = SubSeq(Line, 1, Len(queue)) /\ Len(queue) \in 0..Len(Line)
    BY <2>2, <2>5, LineType, Front
  <2>8. Promise!Lose
    BY <1>1, <2>6, <2>7 DEF Promise!Lose, Line, Power, Held
  <2> QED BY <2>8 DEF Promise!Next
<1>4. CASE service.xQueue # "deleted"
  <2>1. service.xQueue = "live"
    BY <1>1, <1>4 DEF OrderInv, PmTypeOK
  <2>2. Kept = Len(fifo)
    BY <2>1, BoundAssumption DEF Kept, Room, WindowInv, PmTypeOK
  <2>3. SubSeq(fifo, 1, Kept) = fifo
    BY <2>2, LineType, SubSeqFull
  <2>4. Line' = Line
    <3>1. Line' = (Held \o (queue \o fifo)) \o <<>>
      BY <1>1, <1>2, <2>3 DEF Line
    <3>2. Held \o (queue \o fifo) = Line
      BY LineType, ConcatAssociative, SMTT(40) DEF Line
    <3> QED BY <3>1, <3>2, LineType, ConcatEmptySeq
  <2>5. CASE pc = "asleep"
    <3>1. Power = "asleep" /\ Power' = "up"
      BY <1>1, <2>1, <2>5 DEF Power, Unbuilt, Going
    <3>2. Promise!Wake
      BY <1>1, <2>4, <3>1 DEF Promise!Wake, Line, Power, Held
    <3> QED BY <3>2 DEF Promise!Next
  <2>6. CASE pc # "asleep"
    BY <1>1, <2>1, <2>4, <2>6 DEF Power, Unbuilt
  <2> QED BY <2>5, <2>6
<1> QED BY <1>3, <1>4

(* Receiving moves nothing, and answering takes the first word. *)
LEMMA TaskRefines ==
    ASSUME Inv, TaskStep
    PROVE  Promise!Next \/ UNCHANGED <<Line, tx, Power>>
<1> USE DEF Inv
<1>0. main = "running" /\ pc # "none" /\ service' = service
      /\ service.xQueue = "live"
  BY DEF TaskStep, Receive, Answer, SuspendAll, GetFreq, SetFreq, words, past,
         DisableInterrupts, GetIntenable, MaskOthers, Waiti, Unmask,
         EnableInterrupts, ResumeAll, Standby, At, Scheduled, OrderInv, PmTypeOK
<1>1. CASE Receive
  <2>1. /\ pc = "receive" /\ pc' = "answer" /\ queue # <<>> /\ tx' = tx
        /\ data' = Head(queue) /\ queue' = Tail(queue) /\ fifo' = fifo
    BY <1>1 DEF Receive, At
  <2>2. Line = queue \o fifo
    BY <2>1, LineType, ConcatEmptySeq DEF Line, Held
  <2>3. Line' = (<<Head(queue)>> \o Tail(queue)) \o fifo
    BY <2>1 DEF Line, Held
  <2>4. Line' = Line
    BY <2>1, <2>2, <2>3, LineType, FirstAndRest
  <2>5. Power = "up" /\ Power' = "up"
    BY <1>0, <2>1 DEF Power, Unbuilt, Going
  <2> QED BY <2>1, <2>4, <2>5
<1>2. CASE Answer
  <2>1. /\ pc = "answer" /\ tx' = Append(tx, data) /\ queue' = queue
        /\ fifo' = fifo /\ data \in Word
        /\ pc' = IF data = Suspend THEN "suspend_all" ELSE "receive"
    BY <1>0, <1>2 DEF Answer, SendData, At, OrderInv, PmTypeOK
  <2>2. Line = <<data>> \o (queue \o fifo)
    <3>1. Held = <<data>> /\ Line = (<<data>> \o queue) \o fifo
      BY <2>1 DEF Held, Line
    <3> QED BY <3>1, LineType, ConcatAssociative
  <2>3. Line' = queue \o fifo
    <3>1. Line' = (<<>> \o queue) \o fifo
      BY <2>1 DEF Line, Held
    <3> QED BY <3>1, LineType, ConcatEmptySeq
  <2>4. Line # <<>> /\ Head(Line) = data /\ Tail(Line) = queue \o fifo
    <3>1. queue \o fifo \in Seq(Word)
      BY LineType, ConcatProperties
    <3> QED BY <2>1, <2>2, <3>1, HeadConcat
  <2>5. Power = "up" /\ Power' = IF data = Suspend THEN "going" ELSE "up"
    BY <1>0, <2>1 DEF Power, Unbuilt, Going
  <2>6. Promise!Answer
    BY <2>1, <2>3, <2>4, <2>5 DEF Promise!Answer, Line, Power, Held
  <2> QED BY <2>6 DEF Promise!Next
<1>3. CASE ~Receive /\ ~Answer
  <2>1. /\ UNCHANGED <<tx, queue, fifo, data, service>>
        /\ pc # "answer" /\ pc' # "answer"
    BY <1>3 DEF TaskStep, SuspendAll, GetFreq, SetFreq, DisableInterrupts,
                GetIntenable, MaskOthers, Waiti, Unmask, EnableInterrupts,
                ResumeAll, Standby, At, words
  <2>2. Line' = Line
    BY <2>1 DEF Line, Held
  <2>3. \/ pc \in Going /\ pc' \in Going
        \/ pc \in Going /\ pc' = "asleep"
        \/ pc \notin Going \cup {"asleep"} /\ pc' \notin Going \cup {"asleep"}
    BY <1>3 DEF TaskStep, SuspendAll, GetFreq, SetFreq, DisableInterrupts,
                GetIntenable, MaskOthers, Waiti, Unmask, EnableInterrupts,
                ResumeAll, Standby, At, Going
  <2>4. CASE pc \in Going /\ pc' = "asleep"
    <3>1. Power = "going" /\ Power' = "asleep"
      BY <1>0, <2>1, <2>4 DEF Power, Unbuilt, Going
    <3>2. Promise!Sleep
      BY <2>1, <2>2, <3>1 DEF Promise!Sleep, Line, Power, Held
    <3> QED BY <3>2 DEF Promise!Next
  <2>5. CASE ~(pc \in Going /\ pc' = "asleep")
    <3>1. Power' = Power
      BY <1>0, <2>1, <2>3, <2>5 DEF Power, Unbuilt, Going
    <3> QED BY <2>1, <2>2, <3>1
  <2> QED BY <2>4, <2>5
<1> QED BY <1>1, <1>2, <1>3

(* The rest: main, the remote core, other interrupts and other tasks. *)
LEMMA OthersRefine ==
    ASSUME Inv, Next, ~TaskStep, ~MsgboxInterrupt
    PROVE  Promise!Next \/ UNCHANGED <<Line, tx, Power>>
<1> USE DEF Inv
<1>1. CASE Boot
  <2>2. main # "running" /\ tx = <<>> /\ pc \in {"none", "receive"}
        /\ pc' \in {"none", "receive"} /\ UNCHANGED <<tx, queue, fifo, data>>
    BY <1>1 DEF Boot, CreateQueue, CreateQueueFails, AllocChannel,
                AllocChannelFails, CreateTask, CreateTaskFails,
                DeleteHandles, Publish, StartScheduler, Main, words, OrderInv,
                Building
  <2>3. Line' = Line
    BY <2>2 DEF Line, Held
  <2>4. Power \in {"up", "failed"} /\ Power' \in {"up", "failed"}
    BY <2>2 DEF Power, Unbuilt, Going
  <2>5. CASE Power' = Power
    BY <2>2, <2>3, <2>5
  <2>6. CASE Power' # Power /\ Power' = "failed"
    <3>1. Promise!Fail
      BY <2>2, <2>3, <2>6 DEF Promise!Fail, Line, Power, Held
    <3> QED BY <3>1 DEF Promise!Next
  <2>7. CASE Power' # Power /\ Power' = "up"
    <3>1. Unbuilt /\ ~Unbuilt'
      BY <2>2, <2>4, <2>7 DEF Power, Going
    <3>2. main \notin {"create_queue", "alloc", "create_task", "delete",
                      "publish"}
      BY <3>1, <2>2 DEF OrderInv, Unbuilt
    <3>3. StartScheduler
      BY <1>1, <3>2 DEF Boot, CreateQueue, CreateQueueFails, AllocChannel,
                        AllocChannelFails, CreateTask, CreateTaskFails,
                        DeleteHandles, Publish, Main
    <3> QED BY <3>1, <3>3 DEF StartScheduler, Main, Unbuilt
  <2> QED BY <2>4, <2>5, <2>6, <2>7
<1>2. CASE RemoteRead
  <2>1. /\ tx # <<>> /\ tx' = Tail(tx)
        /\ UNCHANGED <<queue, fifo, data, pc, main, service>>
    BY <1>2 DEF RemoteRead
  <2>2. Line' = Line /\ Power' = Power
    BY <2>1 DEF Line, Held, Power, Unbuilt
  <2>3. Promise!Read
    BY <2>1, <2>2 DEF Promise!Read, Line, Power, Held
  <2> QED BY <2>3 DEF Promise!Next
<1>3. ASSUME NEW w \in Word, RemoteSend(w)
      PROVE  Promise!Next
  <2>1. fifo' = Append(fifo, w) /\ UNCHANGED <<queue, tx, data, pc, main, service>>
    BY <1>3 DEF RemoteSend
  <2>2. Power' = Power /\ Held' = Held
    BY <2>1 DEF Power, Unbuilt, Held
  <2>3. Line' = Append(Line, w)
    <3>1. Line' = (Held \o queue) \o Append(fifo, w)
      BY <2>1, <2>2 DEF Line
    <3> QED BY <3>1, LineType, AppendConcat DEF Line
  <2>4. Promise!Send(w)
    BY <2>1, <2>2, <2>3 DEF Promise!Send, Line, Power, Held
  <2> QED BY <2>4 DEF Promise!Next
<1>4. ASSUME NEW i \in Irq, Raise(i)
      PROVE  UNCHANGED <<Line, tx, Power>>
  BY <1>4 DEF Raise, words, Line, Held, Power, Unbuilt
<1>5. ASSUME NEW i \in Irq, OtherInterrupt(i)
      PROVE  Promise!Next \/ UNCHANGED <<Line, tx, Power>>
  <2>1. /\ UNCHANGED <<queue, fifo, tx, data, main, service>>
        /\ pc' = IF pc = "asleep" THEN "unmask" ELSE pc
    BY <1>5 DEF OtherInterrupt, Taken
  <2>2. Line' = Line
    BY <2>1 DEF Line, Held
  <2>3. CASE pc = "asleep"
    <3>1. Power = "asleep" /\ Power' = "up"
      BY <2>1, <2>3 DEF Power, Unbuilt, Going, OrderInv
    <3>2. Promise!Wake
      BY <2>1, <2>2, <3>1 DEF Promise!Wake, Line, Power, Held
    <3> QED BY <3>2 DEF Promise!Next
  <2>4. CASE pc # "asleep"
    BY <2>1, <2>2, <2>4 DEF Power, Unbuilt
  <2> QED BY <2>3, <2>4
<1>6. ASSUME NEW f \in Freq, NEW irqs \in SUBSET Irq, OtherTask(f, irqs)
      PROVE  UNCHANGED <<Line, tx, Power>>
  BY <1>6 DEF OtherTask, words, Line, Held, Power, Unbuilt
<1> QED BY <1>1, <1>2, <1>3, <1>4, <1>5, <1>6 DEF Next

(* With a queue as long as the window, the client implements PmService:    *)
(* every word is answered with itself, once and in order, and the          *)
(* processor goes to sleep once for each Suspend answered.                 *)
THEOREM ClientImplementsService ==
    ASSUME Window <= QueueLength
    PROVE  Spec => ImplementsPmService
<1>1. Init => Promise!Init
  <2> SUFFICES ASSUME Init PROVE Promise!Init
    OBVIOUS
  <2>1. pc = "none" /\ queue = <<>> /\ fifo = <<>> /\ tx = <<>>
        /\ service.xQueue = "none" /\ main = "create_queue"
    BY DEF Init
  <2>2. <<>> \o <<>> \o <<>> = <<>>
    BY EmptySeq, ConcatEmptySeq
  <2> QED BY <2>1, <2>2 DEF Promise!Init, Going, Unbuilt
<1>2. Inv /\ [Next]_vars => [Promise!Next]_(Promise!vars)
  <2> SUFFICES ASSUME Inv, [Next]_vars
               PROVE  Promise!Next \/ UNCHANGED Promise!vars
    OBVIOUS
  <2>1. CASE UNCHANGED vars
    BY <2>1 DEF vars, words, past, Promise!vars, Unbuilt
  <2>2. CASE Next
    <3>1. Promise!Next \/ UNCHANGED <<Line, tx, Power>>
      BY <2>2, MsgboxRefines, TaskRefines, OthersRefine
    <3> QED BY <3>1 DEF Promise!vars, Line, Power, Held
  <2> QED BY <2>1, <2>2
<1>3. Spec => []Inv
  BY TypeInit, TypeStep, OrderInit, OrderStep, WindowInit, WindowStep, PTL
     DEF Spec, Inv
<1> QED BY <1>1, <1>2, <1>3, PTL DEF Spec, ImplementsPmService, Promise!Spec
=============================================================================
