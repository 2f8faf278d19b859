-------------------------- MODULE RpafServer_proofs --------------------------
(***************************************************************************)
(* Theorems about RpafServer, for any number of clients, components and    *)
(* commands.  Four parts; the last two rest on the first two:              *)
(*                                                                         *)
(* packages, whatever may fail and however long the queues and the FIFOs   *)
(* are: until a command has failed the answers leave in whole packages,    *)
(* each with the address of an object, in whatever order the callback, the *)
(* two tasks of the server and those of the components run;                *)
(*                                                                         *)
(* accounting: until a command has failed, queues that are as long as      *)
(* there are clients lose nothing and every command has one place on its   *)
(* way;                                                                    *)
(*                                                                         *)
(* components, until a command has failed: a command finds the queue of    *)
(* its component; and if no client uses the component of another, the task *)
(* of a component performs the command it has received, although it reads  *)
(* parameters that AudioSend writes, and processes data only while the     *)
(* component has its algorithms;                                           *)
(*                                                                         *)
(* service: where no command fails, the server implements RpafService.     *)
(***************************************************************************)
EXTENDS RpafServer, SequenceTheorems, FiniteSetTheorems, TLAPS

-----------------------------------------------------------------------------
(* Packages. *)

(* A word is the first of a package or the second, as those before it say. *)
Alternate(fifo, V, first) ==
    \A k \in 1 .. Len(fifo) : (fifo[k] \in V) <=> ((k % 2 = 1) <=> first)

(* What the callback receives are packages: the value first, then an       *)
(* object.                                                                 *)
WordsIn ==
    /\ rx \in Seq(Word)
    /\ rxVal \in MsgVal \cup {Null}
    /\ (Len(rx) % 2 = 0) <=> (rxVal = Null)
    /\ Alternate(rx, MsgVal, rxVal = Null)

(* What the server handles are objects. *)
Handled ==
    /\ serverSend \in Seq(Item)
    /\ sendPc # "receive" => sendItem \in Item
    /\ cmdQueue \in [Id -> Seq(Object)]
    /\ compItem \in [Id -> Object \cup {Null}]
    /\ compPc \in [Id -> {"none", "start", "receive", "execute", "reply", "halted"}]
    /\ \A i \in Id : compPc[i] \in {"execute", "reply"}
                        => compItem[i] \in Object
    /\ receQueue \in Seq(Object)

SendPoint == {"idle", "val_wait", "val_write", "ptr_wait", "ptr_write"}

(* An answer carries one value only, and an object. *)
Answer == {"component"} \cup Object

Sent ==
    /\ sendingPc \in [Sender -> SendPoint]
    /\ sendingObj \in [Sender -> Object \cup {Null}]
    /\ \A s \in Sender : sendingPc[s] # "idle" => sendingObj[s] \in Object
    /\ tx \in Seq(Answer)
    /\ cpuVal \in Answer \cup {Null}

AtValue == sendingPc["AudioRece"] \in {"idle", "val_wait", "val_write"}

(* Until a command has failed AudioRece alone sends, and what it writes    *)
(* next is what the words sent before leave to write.                      *)
OneSender ==
    ~failed =>
        /\ sendingPc["AudioSend"] = "idle"
        /\ Len(tx) <= FifoDepth
        /\ sendingPc["AudioRece"] \in {"val_write", "ptr_write"}
              => Len(tx) < FifoDepth
        /\ (Len(tx) % 2 = 0) <=> ((cpuVal = Null) <=> AtValue)
        /\ cpuVal \in {"component", Null}

PackageInv == WordsIn /\ Handled /\ Sent /\ OneSender /\ PackagesWhole

-----------------------------------------------------------------------------
(* Queues of anything: what is put behind, what is taken off. *)
LEMMA Behind ==
    ASSUME NEW S, NEW q \in Seq(S), NEW x \in S
    PROVE  /\ Append(q, x) \in Seq(S)
           /\ Len(Append(q, x)) = Len(q) + 1
           /\ \A k \in 1 .. Len(q) : Append(q, x)[k] = q[k]
           /\ Append(q, x)[Len(q) + 1] = x
           /\ Len(q) \in Nat
BY AppendProperties

LEMMA Off ==
    ASSUME NEW S, NEW q \in Seq(S), q # <<>>
    PROVE  /\ Head(q) \in S
           /\ Tail(q) \in Seq(S)
           /\ Len(q) \in Nat \ {0}
           /\ Len(Tail(q)) = Len(q) - 1
           /\ Head(q) = q[1]
           /\ \A k \in 1 .. Len(q) - 1 : Tail(q)[k] = q[k + 1]
<1>1. Len(q) \in Nat \ {0}
  BY EmptySeq, LenProperties
<1> QED BY <1>1, HeadTailProperties, ElementOfSeq

LEMMA PushedType ==
    ASSUME NEW S, NEW q \in Seq(S), NEW x \in S, NEW n
    PROVE  Pushed(q, x, n) \in Seq(S)
BY Behind DEF Pushed

(* A word written behind whole words, and the first one read. *)
LEMMA WriteAlternates ==
    ASSUME NEW V, NEW S, NEW q \in Seq(S), NEW x \in S, NEW first \in BOOLEAN,
           Alternate(q, V, first),
           (x \in V) <=> (((Len(q) + 1) % 2 = 1) <=> first)
    PROVE  Alternate(Append(q, x), V, first)
<1> SUFFICES ASSUME NEW k \in 1 .. Len(Append(q, x))
             PROVE  (Append(q, x)[k] \in V) <=> ((k % 2 = 1) <=> first)
  BY DEF Alternate
<1>1. k \in 1 .. Len(q) \/ k = Len(q) + 1
  BY Behind
<1>2. CASE k \in 1 .. Len(q)
  BY <1>2, Behind DEF Alternate
<1>3. CASE k = Len(q) + 1
  BY <1>3, Behind
<1> QED BY <1>1, <1>2, <1>3

LEMMA ReadAlternates ==
    ASSUME NEW V, NEW S, NEW q \in Seq(S), q # <<>>, NEW first \in BOOLEAN,
           Alternate(q, V, first)
    PROVE  Alternate(Tail(q), V, ~first) /\ ((Head(q) \in V) <=> first)
<1>1. Len(q) \in Nat \ {0} /\ 1 \in 1 .. Len(q) /\ Head(q) = q[1]
  BY Off
<1>2. (Head(q) \in V) <=> first
  BY <1>1 DEF Alternate
<1>3. ASSUME NEW k \in 1 .. Len(Tail(q))
      PROVE  (Tail(q)[k] \in V) <=> ((k % 2 = 1) <=> ~first)
  <2>1. k + 1 \in 1 .. Len(q) /\ Tail(q)[k] = q[k + 1] /\ k \in Nat
    BY <1>1, Off
  <2>2. (q[k + 1] \in V) <=> (((k + 1) % 2 = 1) <=> first)
    BY <2>1 DEF Alternate
  <2>3. ((k + 1) % 2 = 1) <=> ~(k % 2 = 1)
    BY <2>1
  <2> QED BY <2>1, <2>2, <2>3
<1> QED BY <1>2, <1>3 DEF Alternate

LEMMA NullIsNoWord == Null \notin Word /\ \A o \in Object : o \notin MsgVal
BY ObjectAssumption DEF Word

-----------------------------------------------------------------------------
(* One step of the client or of the callback: what is received. *)

LEMMA WordsInInit == Init => WordsIn
<1> SUFFICES ASSUME Init PROVE WordsIn
  OBVIOUS
<1>1. rx = <<>> /\ rxVal = Null /\ rx \in Seq(Word) /\ Len(rx) = 0
  BY EmptySeq DEF Init
<1> QED BY <1>1 DEF WordsIn, Alternate

LEMMA WordsInSubmit ==
    ASSUME WordsIn, NEW o \in Object, Submit(o) PROVE WordsIn'
<1>1. PICK r \in Requests(o) : rx' = rx \o <<r.val, o>>
  BY DEF Submit
<1>2. rxVal' = rxVal
  BY DEF Submit, callback
<1>3. r.val \in MsgVal /\ o \notin MsgVal
  BY NullIsNoWord DEF Requests, Plain, Command, MsgVal
<1> DEFINE v == r.val
           one == Append(rx, v)
<1>4. rx' = Append(one, o)
  <2>1. rx \in Seq(Word) /\ v \in Word /\ o \in Word
    BY <1>3 DEF WordsIn, Word
  <2>2. \A w \in Seq(Word), x \in Word, y \in Word :
           w \o <<x, y>> = Append(Append(w, x), y)
    OBVIOUS
  <2> QED BY <1>1, <2>1, <2>2
<1>5. v \in MsgVal /\ v \in Word /\ o \in Word
  BY <1>3 DEF Word
<1> HIDE DEF v
<1>6. Alternate(one, MsgVal, rxVal = Null) /\ one \in Seq(Word)
      /\ Len(one) = Len(rx) + 1 /\ Len(rx) \in Nat
  <2>1. Len(rx) \in Nat /\ ((Len(rx) + 1) % 2 = 1 <=> Len(rx) % 2 = 0)
    BY DEF WordsIn
  <2> QED BY <1>5, <2>1, WriteAlternates, Behind DEF WordsIn
<1> HIDE DEF one
<1>7. Alternate(rx', MsgVal, rxVal = Null) /\ rx' \in Seq(Word)
      /\ Len(rx') = Len(one) + 1
  <2>1. ((Len(one) + 1) % 2 = 1) <=> (Len(rx) % 2 = 1)
    BY <1>6
  <2>2. Len(rx) % 2 = 1 <=> ~(Len(rx) % 2 = 0)
    BY <1>6
  <2> QED BY <1>3, <1>4, <1>5, <1>6, <2>1, <2>2, WriteAlternates, Behind
          DEF WordsIn
<1>8. (Len(rx') % 2 = 0) <=> (Len(rx) % 2 = 0)
  BY <1>6, <1>7
<1> QED BY <1>2, <1>7, <1>8 DEF WordsIn

LEMMA WordsInCallback ==
    ASSUME WordsIn, Callback PROVE WordsIn'
<1>1. rx # <<>> /\ rx \in Seq(Word) /\ rx' = Tail(rx)
  BY DEF WordsIn, Callback, ReceiveFirstWord, ReceiveSecondWord
<1>2. /\ Alternate(rx', MsgVal, ~(rxVal = Null))
      /\ (Head(rx) \in MsgVal) <=> (rxVal = Null)
      /\ rx' \in Seq(Word) /\ Len(rx) \in Nat \ {0} /\ Len(rx') = Len(rx) - 1
  BY <1>1, ReadAlternates, Off DEF WordsIn
<1>3. (rxVal' = Null) <=> ~(rxVal = Null)
  BY <1>2, NullIsNoWord
     DEF Callback, ReceiveFirstWord, ReceiveSecondWord, Word
<1>4. rxVal' \in MsgVal \cup {Null}
  BY <1>2 DEF Callback, ReceiveFirstWord, ReceiveSecondWord
<1>5. (Len(rx') % 2 = 0) <=> ~(Len(rx) % 2 = 0)
  BY <1>2
<1>6. Alternate(rx', MsgVal, rxVal' = Null)
  BY <1>2, <1>3 DEF Alternate
<1> QED BY <1>2, <1>3, <1>4, <1>5, <1>6 DEF WordsIn

LEMMA WordsInStep ==
    ASSUME WordsIn, [Next]_vars PROVE WordsIn'
<1>1. CASE \E o \in Object : Submit(o)
  BY <1>1, WordsInSubmit
<1>2. CASE Callback
  BY <1>2, WordsInCallback
<1>3. CASE UNCHANGED <<rx, rxVal>>
  BY <1>3 DEF WordsIn
<1>4. CASE TakeWord
  BY <1>3, <1>4 DEF TakeWord, TakeFirstWord, TakeSecondWord, callback
<1>5. CASE AudioSend
  BY <1>3, <1>5 DEF AudioSend, SendReceive, Lookup, LookupFails, NoMemory,
                    Dispatch, ProcessOther, ProcessNothing, CreateTask,
                    WaitTask, Pass, callback
<1>6. CASE \E i \in Id : CompTask(i)
  BY <1>3, <1>6 DEF CompTask, CompStart, CompReceive, CompExecute, CompReply,
                    callback
<1>7. CASE ReceTask \/ \E s \in Sender : Sending(s)
  BY <1>3, <1>7 DEF ReceTask, Sending, SendWait, SendWrite, callback
<1>8. CASE UNCHANGED vars
  BY <1>3, <1>8 DEF vars, callback
<1> QED BY <1>1, <1>2, <1>4, <1>5, <1>6, <1>7, <1>8 DEF Next

-----------------------------------------------------------------------------
(* What the server handles. *)

LEMMA HandledInit == Init => Handled
<1> SUFFICES ASSUME Init PROVE Handled
  OBVIOUS
<1>1. serverSend \in Seq(Item) /\ receQueue \in Seq(Object)
  BY EmptySeq DEF Init
<1>2. cmdQueue \in [Id -> Seq(Object)]
  <2>1. \A i \in Id : cmdQueue[i] = <<>> /\ <<>> \in Seq(Object)
    BY EmptySeq DEF Init
  <2>2. cmdQueue = [i \in Id |-> <<>>]
    BY DEF Init
  <2> QED BY <2>1, <2>2
<1>3. compItem \in [Id -> Object \cup {Null}]
      /\ compPc \in [Id -> {"none", "start", "receive", "execute", "reply", "halted"}]
      /\ \A i \in Id : compPc[i] = "none"
  BY DEF Init
<1>4. sendPc = "receive"
  BY DEF Init
<1> QED BY <1>1, <1>2, <1>3, <1>4 DEF Handled

(* AudioSend, and the callback, which hands it what it receives. *)
LEMMA HandledSend ==
    ASSUME Handled, WordsIn, Callback \/ AudioSend PROVE Handled'
<1> USE DEF callback, sendTask, sending, compTasks, SendAt
<1>1. CASE ReceiveFirstWord
  BY <1>1 DEF Handled, ReceiveFirstWord
<1>2. CASE ReceiveSecondWord
  <2>1. rx \in Seq(Word) /\ rx # <<>> /\ rxVal \in MsgVal
    BY <1>2 DEF ReceiveSecondWord, WordsIn
  <2>2. Head(rx) \in Object
    <3>1. Head(rx) \in Word /\ ~(Head(rx) \in MsgVal)
      BY <2>1, Off, ReadAlternates, NullIsNoWord DEF WordsIn, Word
    <3> QED BY <3>1 DEF Word
  <2> DEFINE item == [val |-> rxVal, obj |-> Head(rx)]
  <2>3. item \in Item
    BY <2>1, <2>2 DEF Item
  <2>4. serverSend' = Pushed(serverSend, item, QueueLen)
    BY <1>2 DEF ReceiveSecondWord
  <2> HIDE DEF item
  <2>5. serverSend' \in Seq(Item)
    BY <2>3, <2>4, PushedType DEF Handled
  <2> QED BY <1>2, <2>5 DEF Handled, ReceiveSecondWord
<1>3. CASE SendReceive
  <2>1. serverSend' \in Seq(Item) /\ sendItem' \in Item
    BY <1>3, Off DEF SendReceive, Handled
  <2> QED BY <1>3, <2>1 DEF Handled, SendReceive
<1>4. CASE Lookup \/ LookupFails \/ ProcessNothing
  BY <1>4 DEF Handled, Lookup, LookupFails, ProcessNothing
<1>5. ASSUME sendPc # "receive", NEW n PROVE
        Pushed(receQueue, sendItem.obj, n) \in Seq(Object)
  <2>1. sendItem.obj \in Object
    BY <1>5 DEF Handled, Item
  <2> QED BY <2>1, PushedType DEF Handled
<1>6. CASE NoMemory
  BY <1>5, <1>6 DEF Handled, NoMemory, Fail
<1>7. CASE Dispatch
  BY <1>5, <1>7 DEF Handled, Dispatch
<1>8. CASE ProcessOther
  BY <1>5, <1>8 DEF Handled, ProcessOther, Fail
<1>9. ASSUME NEW i \in Id, CreateTask(i) PROVE Handled'
  BY <1>9 DEF Handled, CreateTask
<1>10. ASSUME NEW i \in Id, WaitTask(i) PROVE Handled'
  BY <1>10 DEF Handled, WaitTask
<1>11. ASSUME NEW i \in Id, Pass(i) PROVE Handled'
  <2>1. sendItem.obj \in Object
    BY <1>11 DEF Pass, Handled, Item
  <2>2. Pushed(cmdQueue[i], sendItem.obj, CmdQueueLen) \in Seq(Object)
    BY <2>1, PushedType DEF Handled
  <2>3. cmdQueue' \in [Id -> Seq(Object)]
    BY <1>11, <2>2 DEF Pass, Handled
  <2> QED BY <1>11, <2>3 DEF Pass, Handled
<1> QED BY <1>1, <1>2, <1>3, <1>4, <1>6, <1>7, <1>8, <1>9, <1>10, <1>11
        DEF Callback, AudioSend

(* The tasks of the components, and AudioRece. *)
LEMMA HandledTasks ==
    ASSUME Handled, ReceTask \/ \E i \in Id : CompTask(i) PROVE Handled'
<1> USE DEF callback, sendTask, sending, compTasks
<1>1. ASSUME NEW i \in Id, CompStart(i) PROVE Handled'
  BY <1>1 DEF Handled, CompStart
<1>2. ASSUME NEW i \in Id, CompReceive(i) PROVE Handled'
  <2>1. Head(cmdQueue[i]) \in Object /\ Tail(cmdQueue[i]) \in Seq(Object)
    BY <1>2, Off DEF Handled, CompReceive
  <2> QED BY <1>2, <2>1 DEF Handled, CompReceive
<1>3. ASSUME NEW i \in Id, CompExecute(i) PROVE Handled'
  BY <1>3 DEF Handled, CompExecute
<1>4. ASSUME NEW i \in Id, CompReply(i) PROVE Handled'
  <2>1. Pushed(receQueue, compItem[i], QueueLen) \in Seq(Object)
    BY <1>4, PushedType DEF Handled, CompReply
  <2> QED BY <1>4, <2>1 DEF Handled, CompReply
<1>5. CASE ReceTask
  BY <1>5, Off DEF Handled, ReceTask
<1> QED BY <1>1, <1>2, <1>3, <1>4, <1>5 DEF CompTask

LEMMA HandledStep ==
    ASSUME Handled, WordsIn, [Next]_vars PROVE Handled'
<1>1. CASE UNCHANGED <<serverSend, sendPc, sendItem, cmdQueue, compItem,
                       compPc, receQueue>>
  BY <1>1 DEF Handled
<1>2. CASE (\E o \in Object : Submit(o)) \/ TakeWord
  BY <1>1, <1>2 DEF Submit, TakeWord, TakeFirstWord, TakeSecondWord, callback,
                    sendTask, sending, compTasks
<1>3. CASE \E s \in Sender : Sending(s)
  BY <1>1, <1>3 DEF Sending, SendWait, SendWrite, callback, sendTask, sending,
                    compTasks
<1>4. CASE UNCHANGED vars
  BY <1>1, <1>4 DEF vars, callback, sendTask, sending, compTasks
<1> QED BY <1>2, <1>3, <1>4, HandledSend, HandledTasks DEF Next

-----------------------------------------------------------------------------
(* What the server sends. *)

LEMMA SentInit == Init => Sent /\ OneSender /\ PackagesWhole
<1> SUFFICES ASSUME Init PROVE Sent /\ OneSender /\ PackagesWhole
  OBVIOUS
<1>1. tx = <<>> /\ tx \in Seq(Answer) /\ Len(tx) = 0 /\ cpuVal = Null
  BY EmptySeq DEF Init
<1>2. /\ sendingPc \in [Sender -> SendPoint]
      /\ sendingObj \in [Sender -> Object \cup {Null}]
      /\ \A s \in Sender : sendingPc[s] = "idle"
  BY DEF Init, SendPoint
<1>3. sendingPc["AudioSend"] = "idle" /\ sendingPc["AudioRece"] = "idle"
  BY <1>2 DEF Sender
<1>4. FifoDepth \in Nat
  BY BoundAssumption
<1> QED BY <1>1, <1>2, <1>3, <1>4 DEF Sent, OneSender, PackagesWhole, AtValue

LEMMA Whole ==
    PackagesWhole <=>
        (~failed => Alternate(tx, {"component"}, cpuVal = Null))
BY DEF PackagesWhole, Alternate

(* A negative result: what follows is no more promised. *)
LEMMA SentFail ==
    ASSUME Sent, Handled, SendAt("no_memory") \/ SendAt("process"), Fail,
           UNCHANGED <<tx, cpuVal>>
    PROVE  Sent' /\ OneSender' /\ PackagesWhole'
<1>1. sendItem.obj \in Object
  BY DEF Handled, Item, SendAt
<1>2. failed'
  BY DEF Fail
<1>3. Sent'
  BY <1>1 DEF Sent, Fail, BeginSending, Sender, SendPoint
<1> QED BY <1>2, <1>3 DEF OneSender, PackagesWhole

LEMMA SentReceTask ==
    ASSUME Sent, OneSender, PackagesWhole, Handled, ReceTask
    PROVE  Sent' /\ OneSender' /\ PackagesWhole'
<1>1. Head(receQueue) \in Object
  BY Off DEF ReceTask, Handled
<1>2. UNCHANGED <<tx, cpuVal, failed>>
  BY DEF ReceTask, client, failures
<1>3. Sent'
  BY <1>1, <1>2 DEF Sent, ReceTask, BeginSending, Sender, SendPoint
<1>4. /\ sendingPc'["AudioSend"] = sendingPc["AudioSend"]
      /\ sendingPc'["AudioRece"] = "val_wait"
      /\ sendingPc["AudioRece"] = "idle"
  BY DEF ReceTask, BeginSending, Sent, Sender
<1>5. OneSender'
  BY <1>2, <1>4 DEF OneSender, AtValue
<1>6. PackagesWhole'
  BY <1>2 DEF PackagesWhole
<1> QED BY <1>3, <1>5, <1>6

LEMMA SentWait ==
    ASSUME Sent, OneSender, PackagesWhole, NEW s \in Sender, SendWait(s)
    PROVE  Sent' /\ OneSender' /\ PackagesWhole'
<1>1. UNCHANGED <<tx, cpuVal, failed, sendingObj>>
  BY DEF SendWait, client, failures
<1>2. /\ sendingPc' = [sendingPc EXCEPT
                         ![s] = IF @ = "val_wait" THEN "val_write"
                                                  ELSE "ptr_write"]
      /\ sendingPc[s] \in {"val_wait", "ptr_wait"}
      /\ Len(tx) # FifoDepth
  BY DEF SendWait
<1>3. Sent'
  BY <1>1, <1>2 DEF Sent, SendPoint
<1>4. ASSUME ~failed PROVE OneSender'
  <2>1. s = "AudioRece"
    BY <1>2, <1>4 DEF OneSender, Sender
  <2>2. /\ sendingPc'["AudioSend"] = "idle"
        /\ AtValue' <=> AtValue
    BY <1>2, <1>4, <2>1 DEF Sent, OneSender, AtValue, Sender
  <2>3. Len(tx) < FifoDepth
    <3>1. Len(tx) \in Nat /\ FifoDepth \in Nat /\ Len(tx) <= FifoDepth
      BY <1>4, BoundAssumption, LenProperties DEF Sent, OneSender
    <3> QED BY <1>2, <3>1
  <2> QED BY <1>1, <1>4, <2>2, <2>3 DEF OneSender
<1>5. OneSender'
  BY <1>1, <1>4 DEF OneSender
<1>6. PackagesWhole'
  BY <1>1 DEF PackagesWhole
<1> QED BY <1>3, <1>5, <1>6

LEMMA SentWrite ==
    ASSUME Sent, OneSender, PackagesWhole, NEW s \in Sender, SendWrite(s)
    PROVE  Sent' /\ OneSender' /\ PackagesWhole'
<1> DEFINE w == IF sendingPc[s] = "val_write" THEN "component"
                                              ELSE sendingObj[s]
<1>1. UNCHANGED <<cpuVal, failed, sendingObj>>
  BY DEF SendWrite, client, failures
<1>2. /\ sendingPc' = [sendingPc EXCEPT
                         ![s] = IF @ = "val_write" THEN "ptr_wait"
                                                   ELSE "idle"]
      /\ sendingPc[s] \in {"val_write", "ptr_write"}
      /\ tx' = Pushed(tx, w, FifoDepth)
  BY DEF SendWrite
<1>3. w \in Answer
  BY <1>2 DEF Sent, Answer
<1>4. tx' \in Seq(Answer)
  BY <1>2, <1>3, PushedType DEF Sent
<1>5. Sent'
  <2>1. cpuVal' \in Answer \cup {Null}
    BY <1>1 DEF Sent
  <2>2. sendingPc' \in [Sender -> SendPoint]
    BY <1>2 DEF Sent, SendPoint
  <2>3. \A r \in Sender : sendingPc'[r] # "idle" => sendingObj'[r] \in Object
    BY <1>1, <1>2 DEF Sent
  <2>4. sendingObj' \in [Sender -> Object \cup {Null}]
    BY <1>1 DEF Sent
  <2> QED BY <1>4, <2>1, <2>2, <2>3, <2>4 DEF Sent
<1>6. ASSUME ~failed PROVE OneSender' /\ PackagesWhole'
  <2>1. s = "AudioRece" /\ sendingPc["AudioSend"] = "idle"
    BY <1>2, <1>6 DEF OneSender, Sender
  <2>2. /\ sendingPc'["AudioSend"] = "idle"
        /\ sendingPc'["AudioRece"] \in {"ptr_wait", "idle"}
        /\ AtValue <=> sendingPc[s] = "val_write"
        /\ AtValue' <=> ~AtValue
    BY <1>2, <2>1 DEF Sent, AtValue, Sender
  <2>3. Len(tx) < FifoDepth /\ Len(tx) \in Nat
    BY <1>2, <1>6, <2>1, LenProperties DEF OneSender, Sent
  <2>4. tx' = Append(tx, w) /\ Len(tx') = Len(tx) + 1
    BY <1>2, <1>3, <2>3, Behind DEF Pushed, Sent
  <2>5. w \in {"component"} <=> AtValue
    <3>1. sendingPc[s] # "val_write" => w \in Object
      BY <1>2 DEF Sent
    <3>2. "component" \notin Object
      BY ObjectAssumption DEF MsgVal
    <3> QED BY <2>2, <3>1, <3>2
  <2> HIDE DEF w
  <2>6. (Len(tx) % 2 = 0) <=> ((cpuVal = Null) <=> AtValue)
    BY <1>6 DEF OneSender
  <2>7. (Len(tx') % 2 = 0) <=> ~(Len(tx) % 2 = 0)
    BY <2>3, <2>4
  <2>8. OneSender'
    <3>1. FifoDepth \in Nat
      BY BoundAssumption
    <3>2. Len(tx') <= FifoDepth
      BY <2>3, <2>4, <3>1
    <3>3. (Len(tx') % 2 = 0) <=> ((cpuVal' = Null) <=> AtValue')
      BY <1>1, <2>2, <2>6, <2>7
    <3>4. cpuVal' \in {"component", Null}
      BY <1>1, <1>6 DEF OneSender
    <3> QED BY <2>2, <3>2, <3>3, <3>4 DEF OneSender
  <2>9. PackagesWhole'
    <3>1. ((Len(tx) + 1) % 2 = 1) <=> (Len(tx) % 2 = 0)
      BY <2>3
    <3>2. w \in {"component"}
            <=> (((Len(tx) + 1) % 2 = 1) <=> (cpuVal = Null))
      BY <2>5, <2>6, <3>1
    <3>3. Alternate(tx, {"component"}, cpuVal = Null)
      BY <1>6, Whole
    <3>4. tx \in Seq(Answer)
      BY DEF Sent
    <3>5. Alternate(tx', {"component"}, cpuVal = Null)
      BY <1>3, <2>4, <3>2, <3>3, <3>4, WriteAlternates
    <3> QED BY <1>1, <3>5 DEF PackagesWhole, Alternate
  <2> QED BY <2>8, <2>9
<1>7. failed => OneSender' /\ PackagesWhole'
  BY <1>1 DEF OneSender, PackagesWhole
<1> QED BY <1>5, <1>6, <1>7

LEMMA SentTaken ==
    ASSUME Sent, OneSender, PackagesWhole, TakeWord
    PROVE  Sent' /\ OneSender' /\ PackagesWhole'
<1>1. UNCHANGED <<failed, sendingPc, sendingObj>>
  BY DEF TakeWord, TakeFirstWord, TakeSecondWord, senders, failures
<1>2. tx # <<>> /\ tx' = Tail(tx) /\ tx \in Seq(Answer)
  BY DEF TakeWord, TakeFirstWord, TakeSecondWord, Sent
<1>3. /\ Head(tx) \in Answer /\ tx' \in Seq(Answer)
      /\ Len(tx) \in Nat \ {0} /\ Len(tx') = Len(tx) - 1
  BY <1>2, Off
<1>4. (cpuVal' = Null) <=> ~(cpuVal = Null)
  BY <1>3, NullIsNoWord
     DEF TakeWord, TakeFirstWord, TakeSecondWord, Answer, Word, MsgVal
<1>5. cpuVal' \in Answer \cup {Null}
  BY <1>3 DEF TakeWord, TakeFirstWord, TakeSecondWord
<1>6. Sent'
  BY <1>1, <1>3, <1>5 DEF Sent
<1>7. OneSender'
  <2>1. FifoDepth \in Nat
    BY BoundAssumption
  <2>2. AtValue' <=> AtValue
    BY <1>1 DEF AtValue
  <2>3. (Len(tx') % 2 = 0) <=> ~(Len(tx) % 2 = 0)
    BY <1>3
  <2>4. ~failed => cpuVal' \in {"component", Null}
    <3>1. ~failed => Alternate(tx, {"component"}, cpuVal = Null)
      BY Whole
    <3>2. ~failed => (Head(tx) = "component" <=> cpuVal = Null)
      BY <1>2, <3>1, ReadAlternates
    <3> QED BY <3>2 DEF TakeWord, TakeFirstWord, TakeSecondWord
  <2> QED BY <1>1, <1>3, <1>4, <2>1, <2>2, <2>3, <2>4 DEF OneSender
<1>8. PackagesWhole'
  <2>1. ASSUME ~failed PROVE PackagesWhole'
    <3>1. Alternate(tx, {"component"}, cpuVal = Null)
      BY <2>1, Whole
    <3>2. Alternate(tx', {"component"}, ~(cpuVal = Null))
      BY <1>2, <3>1, ReadAlternates
    <3> QED BY <1>4, <3>2 DEF PackagesWhole, Alternate
  <2> QED BY <1>1, <2>1 DEF PackagesWhole
<1> QED BY <1>6, <1>7, <1>8

LEMMA SentStep ==
    ASSUME Handled, Sent, OneSender, PackagesWhole, [Next]_vars
    PROVE  Sent' /\ OneSender' /\ PackagesWhole'
<1> DEFINE Idle == UNCHANGED <<tx, cpuVal, failed, sendingPc, sendingObj>>
           Goal == Sent' /\ OneSender' /\ PackagesWhole'
<1>1. CASE Idle
  BY <1>1 DEF Sent, OneSender, PackagesWhole, AtValue
<1> USE DEF client, senders, failures
<1>2. CASE (\E o \in Object : Submit(o)) \/ Callback
  BY <1>1, <1>2 DEF Submit, Callback, ReceiveFirstWord, ReceiveSecondWord
<1>3. CASE NoMemory
  BY <1>3, SentFail DEF NoMemory
<1>4. CASE ProcessOther
  BY <1>1, <1>4, SentFail DEF ProcessOther
<1>5. CASE SendReceive \/ Lookup \/ LookupFails \/ Dispatch \/ ProcessNothing
  BY <1>1, <1>5 DEF SendReceive, Lookup, LookupFails, Dispatch,
                    ProcessNothing
<1>6. ASSUME NEW i \in Id, CreateTask(i) \/ WaitTask(i) \/ Pass(i) PROVE Goal
  BY <1>1, <1>6 DEF CreateTask, WaitTask, Pass
<1>7. ASSUME NEW i \in Id, CompTask(i) PROVE Goal
  BY <1>1, <1>7 DEF CompTask, CompStart, CompReceive, CompExecute, CompReply
<1>8. ASSUME NEW s \in Sender, Sending(s) PROVE Goal
  BY <1>8, SentWait, SentWrite DEF Sending
<1>9. CASE UNCHANGED vars
  BY <1>1, <1>9 DEF vars
<1> QED BY <1>2, <1>3, <1>4, <1>5, <1>6, <1>7, <1>8, <1>9, SentTaken,
           SentReceTask DEF Next, AudioSend

-----------------------------------------------------------------------------
(* The words the server puts in the FIFO are whole packages until a command *)
(* has failed (arpaf_msgbox_send, called by AudioRece alone), however the   *)
(* two sends of a package and the reads of the other core are interleaved.  *)
THEOREM PackagesWholeAlways == Spec => []PackagesWhole
<1>1. Init => PackageInv
  BY WordsInInit, HandledInit, SentInit DEF PackageInv
<1>2. PackageInv /\ [Next]_vars => PackageInv'
  BY WordsInStep, HandledStep, SentStep DEF PackageInv
<1>3. PackageInv => PackagesWhole
  BY DEF PackageInv
<1> QED BY <1>1, <1>2, <1>3, PTL DEF Spec

-----------------------------------------------------------------------------
(* Accounting. *)

(* An object in a queue of words, or of items; no object twice. *)
In(queue, o) == \E k \in 1 .. Len(queue) : queue[k] = o
InItems(queue, o) == \E k \in 1 .. Len(queue) : queue[k].obj = o

Once(queue) ==
    \A j, k \in 1 .. Len(queue) :
        queue[j] \in Object /\ queue[j] = queue[k] => j = k
OnceItems(queue) ==
    \A j, k \in 1 .. Len(queue) : queue[j].obj = queue[k].obj => j = k

(* What clients ask. *)
Asked ==
    /\ request \in [Object -> Request]
    /\ waiting \subseteq Object
    /\ session \in [Object -> Id \cup {Null}]
    /\ \A o \in Object : request[o].cmd # "unknown" =>
          request[o].val = "component" /\ request[o].mode = "independence"

(* A package holds the value of its object. *)
ValuesKept ==
    /\ \A k \in 1 .. Len(serverSend) :
          serverSend[k].val = request[serverSend[k].obj].val
    /\ \A k \in 1 .. Len(rx) : rx[k] \in Object =>
          (IF k = 1 THEN rxVal ELSE rx[k - 1]) = request[rx[k]].val

NoneTwice ==
    /\ Once(rx) /\ OnceItems(serverSend) /\ Once(receQueue) /\ Once(tx)
    /\ \A i \in Id : Once(cmdQueue[i])

Where == {"nowhere", "rx", "serverSend", "AudioSend", "cmdQueue", "compTask",
          "receQueue", "sender", "tx"}

(* where[o] is the one place of object o, with[o] the component there.     *)
Located(where, with) ==
    \A o \in Object :
        /\ where[o] = "rx" <=> In(rx, o)
        /\ where[o] = "serverSend" <=> InItems(serverSend, o)
        /\ where[o] = "AudioSend" <=> sendPc # "receive" /\ sendItem.obj = o
        /\ \A i \in Id :
              /\ where[o] = "cmdQueue" /\ with[o] = i <=> In(cmdQueue[i], o)
              /\ where[o] = "compTask" /\ with[o] = i <=>
                    compPc[i] \in {"execute", "reply"} /\ compItem[i] = o
        /\ where[o] = "receQueue" <=> In(receQueue, o)
        /\ where[o] = "sender" <=> /\ sendingPc["AudioRece"] # "idle"
                                   /\ sendingObj["AudioRece"] = o
        /\ where[o] = "tx" <=> In(tx, o)
        /\ where[o] \in {"cmdQueue", "compTask"} => with[o] \in Id

(* A client waits for what is somewhere, and what it waits for is          *)
(* somewhere.                                                              *)
Awaited(where) ==
    \A o \in Object :
        /\ where[o] # "nowhere" => o \in waiting
        /\ o \in waiting /\ Answerable(o) => where[o] # "nowhere"

OnePlace ==
    \E where \in [Object -> Where],
      with \in [Object -> Id \cup {Null}] :
        Located(where, with) /\ Awaited(where)

AccountInv == Asked /\ (~failed => ValuesKept /\ NoneTwice /\ OnePlace)

-----------------------------------------------------------------------------
(* What a queue holds after something is put behind, or taken off. *)
LEMMA InAppend ==
    ASSUME NEW S, NEW q \in Seq(S), NEW x \in S
    PROVE  \A y : In(Append(q, x), y) <=> In(q, y) \/ y = x
<1> DEFINE a == Append(q, x)
<1>1. /\ Len(a) = Len(q) + 1 /\ Len(q) \in Nat
      /\ \A k \in 1 .. Len(q) : a[k] = q[k]
      /\ a[Len(q) + 1] = x
  BY Behind
<1> HIDE DEF a
<1> SUFFICES ASSUME NEW y PROVE In(a, y) <=> In(q, y) \/ y = x
  BY DEF a
<1>2. ASSUME In(a, y) PROVE In(q, y) \/ y = x
  <2>1. PICK k \in 1 .. Len(a) : a[k] = y
    BY <1>2 DEF In
  <2>2. k \in 1 .. Len(q) \/ k = Len(q) + 1
    BY <1>1
  <2> QED BY <1>1, <2>1, <2>2 DEF In
<1>3. ASSUME In(q, y) \/ y = x PROVE In(a, y)
  <2>1. Len(q) + 1 \in 1 .. Len(a) /\ 1 .. Len(q) \subseteq 1 .. Len(a)
    BY <1>1
  <2> QED BY <1>1, <1>3, <2>1 DEF In
<1> QED BY <1>2, <1>3

LEMMA InTail ==
    ASSUME NEW S, NEW q \in Seq(S), q # <<>>, Once(q), NEW y \in Object
    PROVE  In(Tail(q), y) <=> In(q, y) /\ y # Head(q)
<1> DEFINE t == Tail(q)
<1>1. /\ Len(q) \in Nat \ {0} /\ Len(t) = Len(q) - 1 /\ Head(q) = q[1]
      /\ \A k \in 1 .. Len(q) - 1 : t[k] = q[k + 1]
  BY Off
<1> HIDE DEF t
<1>2. ASSUME In(t, y) PROVE In(q, y) /\ y # Head(q)
  <2>1. PICK k \in 1 .. Len(t) : t[k] = y
    BY <1>2 DEF In
  <2>2. k + 1 \in 1 .. Len(q) /\ 1 \in 1 .. Len(q) /\ q[k + 1] = y /\ k + 1 # 1
    BY <1>1, <2>1
  <2> QED BY <1>1, <2>2 DEF In, Once
<1>3. ASSUME In(q, y), y # Head(q) PROVE In(t, y)
  <2>1. PICK k \in 1 .. Len(q) : q[k] = y
    BY <1>3 DEF In
  <2>2. k # 1
    BY <1>1, <1>3, <2>1
  <2>3. k - 1 \in 1 .. Len(t) /\ k - 1 \in 1 .. Len(q) - 1 /\ k - 1 + 1 = k
    BY <1>1, <2>2
  <2>4. t[k - 1] = y
    BY <1>1, <2>1, <2>3
  <2> QED BY <2>3, <2>4 DEF In
<1> QED BY <1>2, <1>3 DEF t

LEMMA OnceAppend ==
    ASSUME NEW S, NEW q \in Seq(S), NEW x \in S, Once(q),
           x \in Object => ~In(q, x)
    PROVE  Once(Append(q, x))
<1> DEFINE a == Append(q, x)
<1>1. /\ Len(a) = Len(q) + 1 /\ Len(q) \in Nat
      /\ \A k \in 1 .. Len(q) : a[k] = q[k]
      /\ a[Len(q) + 1] = x
  BY Behind
<1> HIDE DEF a
<1> SUFFICES ASSUME NEW j \in 1 .. Len(a), NEW k \in 1 .. Len(a),
                    a[j] \in Object, a[j] = a[k]
             PROVE  j = k
  BY DEF Once, a
<1>2. /\ j \in 1 .. Len(q) \/ j = Len(q) + 1
      /\ k \in 1 .. Len(q) \/ k = Len(q) + 1
  BY <1>1
<1> QED BY <1>1, <1>2 DEF Once, In

LEMMA OnceTail ==
    ASSUME NEW S, NEW q \in Seq(S), q # <<>>, Once(q)
    PROVE  Once(Tail(q))
<1> DEFINE t == Tail(q)
<1>1. /\ Len(q) \in Nat \ {0} /\ Len(t) = Len(q) - 1
      /\ \A k \in 1 .. Len(q) - 1 : t[k] = q[k + 1]
  BY Off
<1> HIDE DEF t
<1> SUFFICES ASSUME NEW j \in 1 .. Len(t), NEW k \in 1 .. Len(t),
                    t[j] \in Object, t[j] = t[k]
             PROVE  j = k
  BY DEF Once, t
<1>2. j + 1 \in 1 .. Len(q) /\ k + 1 \in 1 .. Len(q)
      /\ t[j] = q[j + 1] /\ t[k] = q[k + 1]
  BY <1>1
<1>3. j + 1 = k + 1
  BY <1>2 DEF Once
<1> QED BY <1>3

(* A queue that holds no object twice, and not all, has room for one.      *)
LEMMA Room ==
    ASSUME IsFiniteSet(Object), NEW q \in Seq(Object), Once(q),
           NEW x \in Object, ~In(q, x),
           NEW n \in Nat, Cardinality(Object) <= n
    PROVE  Len(q) < n
<1>1. Len(q) \in Nat /\ q \in [1 .. Len(q) -> Object]
  BY LenProperties
<1>2. /\ IsFiniteSet(Object \ {x})
      /\ Cardinality(Object \ {x}) = Cardinality(Object) - 1
      /\ Cardinality(Object) \in Nat
  BY FS_RemoveElement, FS_CardinalityType
<1>3. IsFiniteSet(1 .. Len(q)) /\ Cardinality(1 .. Len(q)) = Len(q)
  <2> DEFINE n1 == Len(q)
  <2>1. 1 \in Int /\ n1 \in Int /\ n1 \in Nat
    BY <1>1
  <2> HIDE DEF n1
  <2>2. /\ IsFiniteSet(1 .. n1)
        /\ Cardinality(1 .. n1) = IF 1 > n1 THEN 0 ELSE n1 - 1 + 1
    BY <2>1, FS_Interval
  <2>3. Cardinality(1 .. n1) = n1
    BY <2>1, <2>2
  <2> QED BY <2>2, <2>3 DEF n1
<1>4. q \in [1 .. Len(q) -> Object \ {x}]
  BY <1>1 DEF In
<1>5. ~(Cardinality(Object \ {x}) < Cardinality(1 .. Len(q)))
  <2> SUFFICES ASSUME Cardinality(Object \ {x}) < Cardinality(1 .. Len(q))
               PROVE  FALSE
    OBVIOUS
  <2>1. \E j, k \in 1 .. Len(q) : j # k /\ q[j] = q[k]
    BY <1>2, <1>3, <1>4, FS_PigeonHole
  <2> QED BY <1>1, <2>1 DEF Once
<1> QED BY <1>1, <1>2, <1>3, <1>5

(* The same of the queue of items. *)
LEMMA ItemObjects ==
    ASSUME NEW q \in Seq(Item)
    PROVE  LET objs == [k \in 1 .. Len(q) |-> q[k].obj]
           IN  /\ objs \in Seq(Object) /\ Len(objs) = Len(q)
               /\ \A o : InItems(q, o) <=> In(objs, o)
               /\ OnceItems(q) <=> Once(objs)
<1> DEFINE objs == [k \in 1 .. Len(q) |-> q[k].obj]
<1>1. Len(q) \in Nat /\ \A k \in 1 .. Len(q) : q[k].obj \in Object
  <2>1. \A k \in 1 .. Len(q) : q[k] \in Item
    BY ElementOfSeq
  <2> QED BY <2>1, LenProperties DEF Item
<1>2. objs \in Seq(Object) /\ Len(objs) = Len(q)
  BY <1>1, IsASeq
<1>3. \A k \in 1 .. Len(q) : objs[k] = q[k].obj
  OBVIOUS
<1> HIDE DEF objs
<1>4. OnceItems(q) <=> Once(objs)
  BY <1>1, <1>2, <1>3 DEF OnceItems, Once
<1>5. \A o : InItems(q, o) <=> In(objs, o)
  BY <1>2, <1>3 DEF InItems, In
<1> QED BY <1>2, <1>4, <1>5 DEF objs

LEMMA ItemAppend ==
    ASSUME NEW q \in Seq(Item), NEW x \in Item
    PROVE  /\ \A y : InItems(Append(q, x), y) <=> InItems(q, y) \/ y = x.obj
           /\ OnceItems(q) /\ ~InItems(q, x.obj) => OnceItems(Append(q, x))
<1> DEFINE a == Append(q, x)
<1>1. /\ Len(a) = Len(q) + 1 /\ Len(q) \in Nat
      /\ \A k \in 1 .. Len(q) : a[k] = q[k]
      /\ a[Len(q) + 1] = x
  BY Behind
<1> HIDE DEF a
<1>2. \A k : k \in 1 .. Len(a) <=> k \in 1 .. Len(q) \/ k = Len(q) + 1
  BY <1>1
<1>3. \A y : InItems(a, y) <=> InItems(q, y) \/ y = x.obj
  BY <1>1, <1>2 DEF InItems
<1>4. ASSUME OnceItems(q), ~InItems(q, x.obj) PROVE OnceItems(a)
  <2> SUFFICES ASSUME NEW j \in 1 .. Len(a), NEW k \in 1 .. Len(a),
                      a[j].obj = a[k].obj
               PROVE  j = k
    BY DEF OnceItems
  <2> QED BY <1>1, <1>2, <1>4 DEF OnceItems, InItems
<1> QED BY <1>3, <1>4 DEF a

LEMMA ItemTail ==
    ASSUME NEW q \in Seq(Item), q # <<>>, OnceItems(q)
    PROVE  /\ OnceItems(Tail(q))
           /\ \A y : InItems(Tail(q), y) <=> InItems(q, y) /\ y # Head(q).obj
<1> DEFINE t == Tail(q)
<1>1. /\ Len(q) \in Nat \ {0} /\ Len(t) = Len(q) - 1 /\ Head(q) = q[1]
      /\ \A k \in 1 .. Len(q) - 1 : t[k] = q[k + 1]
  BY Off
<1> HIDE DEF t
<1>2. /\ \A k \in 1 .. Len(t) : k + 1 \in 1 .. Len(q) /\ t[k] = q[k + 1]
      /\ \A k \in 1 .. Len(q) : k # 1 => /\ k - 1 \in 1 .. Len(t)
                                         /\ t[k - 1] = q[k]
      /\ 1 \in 1 .. Len(q)
  <2>1. \A k \in 1 .. Len(t) : k + 1 \in 1 .. Len(q) /\ t[k] = q[k + 1]
    BY <1>1
  <2>2. ASSUME NEW k \in 1 .. Len(q), k # 1
        PROVE  k - 1 \in 1 .. Len(t) /\ t[k - 1] = q[k]
    <3>1. k - 1 \in 1 .. Len(q) - 1 /\ k - 1 + 1 = k
      BY <1>1, <2>2
    <3> QED BY <1>1, <3>1
  <2> QED BY <1>1, <2>1, <2>2
<1>3. OnceItems(t)
  <2> SUFFICES ASSUME NEW j \in 1 .. Len(t), NEW k \in 1 .. Len(t),
                      t[j].obj = t[k].obj
               PROVE  j = k
    BY DEF OnceItems
  <2>1. j + 1 = k + 1
    BY <1>2 DEF OnceItems
  <2> QED BY <2>1
<1>4. ASSUME NEW y PROVE InItems(t, y) <=> InItems(q, y) /\ y # Head(q).obj
  <2>1. ASSUME InItems(t, y) PROVE InItems(q, y) /\ y # Head(q).obj
    <3>1. PICK k \in 1 .. Len(t) : t[k].obj = y
      BY <2>1 DEF InItems
    <3>2. k + 1 \in 1 .. Len(q) /\ q[k + 1].obj = y /\ k + 1 # 1
      BY <1>2, <3>1
    <3> QED BY <1>1, <1>2, <3>2 DEF InItems, OnceItems
  <2>2. ASSUME InItems(q, y), y # Head(q).obj PROVE InItems(t, y)
    <3>1. PICK k \in 1 .. Len(q) : q[k].obj = y
      BY <2>2 DEF InItems
    <3> QED BY <1>1, <1>2, <2>2, <3>1 DEF InItems
  <2> QED BY <2>1, <2>2
<1> QED BY <1>3, <1>4 DEF t

LEMMA ItemRoom ==
    ASSUME IsFiniteSet(Object), NEW q \in Seq(Item), OnceItems(q),
           NEW x \in Object, ~InItems(q, x),
           NEW n \in Nat, Cardinality(Object) <= n
    PROVE  Len(q) < n
BY ItemObjects, Room

-----------------------------------------------------------------------------
(* What is placed, and how a step moves it. *)

Placed == ValuesKept /\ NoneTwice /\ OnePlace

LEMMA AccountInit == Init => AccountInv
<1> SUFFICES ASSUME Init PROVE AccountInv
  OBVIOUS
<1>1. Asked
  <2>1. \A o \in Object : request[o] = [val |-> "component",
              mode |-> "independence", cmd |-> "unknown", id |-> Null]
    BY DEF Init
  <2>2. request \in [Object -> Request]
    BY DEF Init, Request, MsgVal, Mode, AllCmds
  <2> QED BY <2>1, <2>2 DEF Init, Asked
<1>2. \A o : ~In(<<>>, o) /\ ~InItems(<<>>, o)
  BY EmptySeq DEF In, InItems
<1>3. ValuesKept /\ NoneTwice
  <2>1. Len(<<>>) = 0
    OBVIOUS
  <2> QED BY <2>1 DEF Init, ValuesKept, NoneTwice, Once, OnceItems
<1>4. OnePlace
  <2> DEFINE where == [o \in Object |-> "nowhere"]
             with == [o \in Object |-> Null]
  <2>1. where \in [Object -> Where] /\ with \in [Object -> Id \cup {Null}]
    BY DEF Where
  <2>2. \A o \in Object : where[o] = "nowhere"
    OBVIOUS
  <2> HIDE DEF where, with
  <2>3. Located(where, with)
    <3>1. /\ rx = <<>> /\ serverSend = <<>> /\ sendPc = "receive"
          /\ receQueue = <<>> /\ tx = <<>>
          /\ sendingPc["AudioRece"] = "idle"
          /\ \A i \in Id : cmdQueue[i] = <<>> /\ compPc[i] = "none"
      BY DEF Init, Sender
    <3> QED BY <1>2, <2>2, <3>1 DEF Located
  <2>4. Awaited(where)
    BY <2>2 DEF Init, Awaited
  <2> QED BY <2>1, <2>3, <2>4 DEF OnePlace
<1> QED BY <1>1, <1>3, <1>4 DEF AccountInv

(* An object that nobody waits for is nowhere. *)
LEMMA NobodyWaits ==
    ASSUME OnePlace, NEW o \in Object, o \notin waiting
    PROVE  /\ ~In(rx, o) /\ ~InItems(serverSend, o)
           /\ ~(sendPc # "receive" /\ sendItem.obj = o)
           /\ ~In(receQueue, o) /\ ~In(tx, o)
           /\ \A i \in Id :
                 /\ ~In(cmdQueue[i], o)
                 /\ ~(compPc[i] \in {"execute", "reply"} /\ compItem[i] = o)
BY DEF OnePlace, Located, Awaited

LEMMA Still ==
    ASSUME Placed,
           UNCHANGED <<request, waiting, rx, rxVal, serverSend, sendItem,
                       cmdQueue, compItem, receQueue, sendingObj, tx>>,
           sendPc' = "receive" <=> sendPc = "receive",
           \A i \in Id : compPc'[i] \in {"execute", "reply"}
                            <=> compPc[i] \in {"execute", "reply"},
           sendingPc'["AudioRece"] = "idle" <=> sendingPc["AudioRece"] = "idle"
    PROVE  Placed'
<1>1. ValuesKept' /\ NoneTwice'
  BY DEF Placed, ValuesKept, NoneTwice
<1>2. OnePlace'
  <2>1. PICK where \in [Object -> Where],
             with \in [Object -> Id \cup {Null}] :
             Located(where, with) /\ Awaited(where)
    BY DEF Placed, OnePlace
  <2>2. Located(where, with)'
    BY <2>1 DEF Located
  <2>3. Awaited(where)'
    BY <2>1 DEF Awaited, Answerable
  <2> QED BY <2>2, <2>3 DEF OnePlace
<1> QED BY <1>1, <1>2 DEF Placed

LEMMA PlacedSubmit ==
    ASSUME PackageInv, Asked, Placed, NEW o \in Object, Submit(o)
    PROVE  Placed'
<1>1. PICK r \in Requests(o) : /\ request' = [request EXCEPT ![o] = r]
                               /\ rx' = rx \o <<r.val, o>>
  BY DEF Submit
<1>2. r.val \in MsgVal /\ o \notin MsgVal /\ r.val \notin Object
  BY NullIsNoWord, ObjectAssumption DEF Requests, Plain, Command, MsgVal
<1> DEFINE v == r.val
           one == Append(rx, v)
<1>3. rx \in Seq(Word) /\ v \in Word /\ o \in Word
  BY <1>2 DEF PackageInv, WordsIn, Word
<1>4. rx' = Append(one, o)
  <2>1. \A w \in Seq(Word), x \in Word, y \in Word :
           w \o <<x, y>> = Append(Append(w, x), y)
    OBVIOUS
  <2> QED BY <1>1, <1>3, <2>1
<1>5. request'[o] = r /\ \A p \in Object \ {o} : request'[p] = request[p]
  BY <1>1 DEF Asked
<1>6. o \notin waiting /\ waiting' = waiting \cup {o}
  BY DEF Submit
<1>7. UNCHANGED <<rxVal, serverSend, sendPc, sendItem, cmdQueue, compPc,
                  compItem, receQueue, sendingPc, sendingObj, tx>>
  BY DEF Submit, callback, sendTask, sending, compTasks, senders
<1>8. v \in MsgVal /\ v \notin Object /\ request'[o].val = v
  BY <1>2, <1>5
<1> HIDE DEF v
<1>9. one \in Seq(Word) /\ \A y : In(one, y) <=> In(rx, y) \/ y = v
  BY <1>3, Behind, InAppend
<1>10. \A p \in Object : In(one, p) <=> In(rx, p)
  BY <1>8, <1>9
<1>11. /\ Len(one) = Len(rx) + 1 /\ Len(rx) \in Nat
       /\ \A k \in 1 .. Len(rx) : one[k] = rx[k]
       /\ one[Len(rx) + 1] = v
  BY <1>3, Behind
<1>12. Once(one)
  BY <1>3, <1>8, OnceAppend DEF Placed, NoneTwice
<1> HIDE DEF one
<1>13. ~In(rx, o) /\ ~InItems(serverSend, o)
  BY <1>6, NobodyWaits DEF Placed
<1>14. Once(rx')
  BY <1>3, <1>4, <1>9, <1>10, <1>12, <1>13, OnceAppend
<1>15. \A p \in Object : In(rx', p) <=> In(rx, p) \/ p = o
  BY <1>3, <1>4, <1>9, <1>10, InAppend
<1>16. ValuesKept'
  <2>1. \A k \in 1 .. Len(serverSend) :
            /\ serverSend[k].obj \in Object /\ serverSend[k].obj # o
            /\ serverSend[k].val = request[serverSend[k].obj].val
    <3>1. \A k \in 1 .. Len(serverSend) : serverSend[k] \in Item
      BY ElementOfSeq DEF PackageInv, Handled
    <3> QED BY <1>13, <3>1 DEF Placed, ValuesKept, InItems, Item
  <2>2. \A k \in 1 .. Len(serverSend') :
            serverSend'[k].val = request'[serverSend'[k].obj].val
    BY <1>5, <1>7, <2>1
  <2>3. /\ Len(rx') = Len(one) + 1
        /\ \A k \in 1 .. Len(one) : rx'[k] = one[k]
        /\ rx'[Len(one) + 1] = o
    BY <1>3, <1>4, <1>9, Behind
  <2>4. ASSUME NEW k \in 1 .. Len(rx'), rx'[k] \in Object
        PROVE  (IF k = 1 THEN rxVal ELSE rx'[k - 1]) = request'[rx'[k]].val
    <3>1. CASE k \in 1 .. Len(rx)
      <4>1. rx'[k] = rx[k] /\ (k # 1 => rx'[k - 1] = rx[k - 1])
        BY <1>11, <2>3, <3>1
      <4>2. rx[k] # o
        BY <1>13, <3>1 DEF In
      <4> QED BY <1>5, <2>4, <3>1, <4>1, <4>2 DEF Placed, ValuesKept
    <3>2. CASE k = Len(rx) + 1
      BY <1>8, <1>11, <2>3, <2>4, <3>2
    <3>3. CASE k = Len(rx) + 2
      <4>1. rx'[k] = o /\ rx'[k - 1] = v /\ k # 1
        BY <1>11, <2>3, <3>3
      <4> QED BY <1>8, <4>1
    <3>4. k \in 1 .. Len(rx) \/ k = Len(rx) + 1 \/ k = Len(rx) + 2
      BY <1>11, <2>3
    <3> QED BY <3>1, <3>2, <3>3, <3>4
  <2> QED BY <1>7, <2>2, <2>4 DEF ValuesKept
<1>17. NoneTwice'
  BY <1>7, <1>14 DEF Placed, NoneTwice
<1>18. OnePlace'
  <2>1. PICK where \in [Object -> Where],
             with \in [Object -> Id \cup {Null}] :
             Located(where, with) /\ Awaited(where)
    BY DEF Placed, OnePlace
  <2> DEFINE there == [where EXCEPT ![o] = "rx"]
  <2>2. where[o] = "nowhere"
    BY <1>6, <2>1 DEF Awaited
  <2>3. /\ there \in [Object -> Where] /\ there[o] = "rx"
        /\ \A p \in Object \ {o} : there[p] = where[p]
    BY DEF Where
  <2> HIDE DEF there
  <2>4. Located(there, with)'
    BY <1>7, <1>15, <2>1, <2>2, <2>3 DEF Located
  <2>5. Awaited(there)'
    BY <1>5, <1>6, <2>1, <2>3 DEF Awaited, Answerable
  <2> QED BY <2>3, <2>4, <2>5 DEF OnePlace
<1> QED BY <1>16, <1>17, <1>18 DEF Placed

(* Queues as long as there are clients. *)
Long ==
    /\ IsFiniteSet(Object)
    /\ Cardinality(Object) <= QueueLen
    /\ Cardinality(Object) <= CmdQueueLen

LEMMA PlacedFirstWord ==
    ASSUME PackageInv, Placed, ReceiveFirstWord
    PROVE  Placed'
<1>1. /\ rx \in Seq(Word) /\ rx # <<>> /\ rx' = Tail(rx)
      /\ rxVal = Null /\ rxVal' = Head(rx) /\ Once(rx)
  BY DEF PackageInv, WordsIn, ReceiveFirstWord, Placed, NoneTwice
<1>2. UNCHANGED <<request, waiting, serverSend, sendPc, sendItem, cmdQueue,
                  compPc, compItem, receQueue, sendingPc, sendingObj, tx>>
  BY DEF ReceiveFirstWord, client, sendTask, sending, compTasks, senders
<1>3. Head(rx) \notin Object
  <2>1. Head(rx) \in MsgVal
    BY <1>1, ReadAlternates DEF PackageInv, WordsIn
  <2> QED BY <2>1, ObjectAssumption
<1>4. \A p \in Object : In(rx', p) <=> In(rx, p)
  BY <1>1, <1>3, InTail
<1>5. NoneTwice'
  BY <1>1, <1>2, OnceTail DEF Placed, NoneTwice
<1>6. ValuesKept'
  <2>1. /\ Len(rx) \in Nat \ {0} /\ Len(rx') = Len(rx) - 1
        /\ Head(rx) = rx[1]
        /\ \A k \in 1 .. Len(rx) - 1 : rx'[k] = rx[k + 1]
    BY <1>1, Off
  <2>2. ASSUME NEW k \in 1 .. Len(rx'), rx'[k] \in Object
        PROVE  (IF k = 1 THEN rxVal' ELSE rx'[k - 1]) = request[rx'[k]].val
    <3>1. k + 1 \in 1 .. Len(rx) /\ k + 1 # 1 /\ k + 1 - 1 = k
          /\ rx[k + 1] = rx'[k]
      BY <2>1
    <3>2. rx[k] = request[rx'[k]].val
      BY <2>2, <3>1 DEF Placed, ValuesKept
    <3>3. k # 1 => rx'[k - 1] = rx[k]
      <4>1. k # 1 => k - 1 \in 1 .. Len(rx) - 1 /\ k - 1 + 1 = k
        BY <2>1
      <4> QED BY <2>1, <4>1
    <3> QED BY <1>1, <2>1, <3>2, <3>3
  <2> QED BY <1>2, <2>2 DEF Placed, ValuesKept
<1>7. OnePlace'
  <2>1. PICK where \in [Object -> Where],
             with \in [Object -> Id \cup {Null}] :
             Located(where, with) /\ Awaited(where)
    BY DEF Placed, OnePlace
  <2>2. Located(where, with)'
    BY <1>2, <1>4, <2>1 DEF Located
  <2>3. Awaited(where)'
    BY <1>2, <2>1 DEF Awaited, Answerable
  <2> QED BY <2>2, <2>3 DEF OnePlace
<1> QED BY <1>5, <1>6, <1>7 DEF Placed

LEMMA PlacedSecondWord ==
    ASSUME Long, PackageInv, Asked, Placed, ReceiveSecondWord
    PROVE  Placed'
<1>1. /\ rx \in Seq(Word) /\ rx # <<>> /\ rx' = Tail(rx)
      /\ rxVal # Null /\ rxVal' = Null /\ Once(rx) /\ rxVal \in MsgVal
  BY DEF PackageInv, WordsIn, ReceiveSecondWord, Placed, NoneTwice
<1>2. UNCHANGED <<request, waiting, sendPc, sendItem, cmdQueue,
                  compPc, compItem, receQueue, sendingPc, sendingObj, tx>>
  BY DEF ReceiveSecondWord, client, sendTask, sending, compTasks, senders
<1>3. PICK o \in Object : o = Head(rx)
  <2>1. Head(rx) \in Word /\ ~(Head(rx) \in MsgVal)
    BY <1>1, Off, ReadAlternates DEF PackageInv, WordsIn
  <2> QED BY <2>1 DEF Word
<1> DEFINE item == [val |-> rxVal, obj |-> o]
<1>4. /\ Len(rx) \in Nat \ {0} /\ Len(rx') = Len(rx) - 1
      /\ o = rx[1] /\ 1 \in 1 .. Len(rx)
      /\ \A k \in 1 .. Len(rx) - 1 : rx'[k] = rx[k + 1]
  BY <1>1, <1>3, Off
<1>5. In(rx, o) /\ rxVal = request[o].val
  BY <1>4 DEF In, Placed, ValuesKept
<1>6. item \in Item /\ item.obj = o /\ item.val = rxVal
  BY <1>1, <1>3 DEF Item
<1>7. serverSend' = Pushed(serverSend, item, QueueLen)
  BY <1>3 DEF ReceiveSecondWord
<1> HIDE DEF item
<1>8. \A p \in Object : In(rx', p) <=> In(rx, p) /\ p # o
  BY <1>1, <1>3, InTail
<1>9. ~InItems(serverSend, o)
  BY <1>5 DEF Placed, OnePlace, Located
<1>10. serverSend' = Append(serverSend, item)
  <2>1. Len(serverSend) < QueueLen
    BY <1>3, <1>9, ItemRoom, BoundAssumption
       DEF Long, Placed, NoneTwice, PackageInv, Handled
  <2> QED BY <1>7, <2>1 DEF Pushed
<1>11. /\ \A p : InItems(serverSend', p) <=> InItems(serverSend, p) \/ p = o
       /\ OnceItems(serverSend')
  BY <1>6, <1>9, <1>10, ItemAppend
     DEF PackageInv, Handled, Placed, NoneTwice
<1>12. NoneTwice'
  BY <1>1, <1>2, <1>11, OnceTail DEF Placed, NoneTwice
<1>13. ValuesKept'
  <2>1. \A k \in 1 .. Len(serverSend') :
            serverSend'[k].val = request[serverSend'[k].obj].val
    <3>1. /\ Len(serverSend') = Len(serverSend) + 1
          /\ Len(serverSend) \in Nat
          /\ \A k \in 1 .. Len(serverSend) : serverSend'[k] = serverSend[k]
          /\ serverSend'[Len(serverSend) + 1] = item
      BY <1>6, <1>10, Behind DEF PackageInv, Handled
    <3>2. \A k \in 1 .. Len(serverSend') :
              k \in 1 .. Len(serverSend) \/ k = Len(serverSend) + 1
      BY <3>1
    <3> QED BY <1>5, <1>6, <3>1, <3>2 DEF Placed, ValuesKept
  <2>2. ASSUME NEW k \in 1 .. Len(rx'), rx'[k] \in Object
        PROVE  (IF k = 1 THEN rxVal' ELSE rx'[k - 1]) = request[rx'[k]].val
    <3>1. k # 1
      <4>1. Alternate(rx', MsgVal, rxVal' = Null)
        BY WordsInCallback DEF PackageInv, Callback, WordsIn
      <4>2. k = 1 => rx'[k] \in MsgVal
        BY <1>1, <4>1 DEF Alternate
      <4> QED BY <2>2, <4>2, ObjectAssumption
    <3>2. /\ k + 1 \in 1 .. Len(rx) /\ k + 1 # 1 /\ k + 1 - 1 = k
          /\ rx[k + 1] = rx'[k]
          /\ k - 1 \in 1 .. Len(rx) - 1 /\ k - 1 + 1 = k
      BY <1>4, <3>1
    <3>3. rx[k] = request[rx'[k]].val
      BY <2>2, <3>2 DEF Placed, ValuesKept
    <3>4. rx'[k - 1] = rx[k]
      BY <1>4, <3>2
    <3> QED BY <3>1, <3>3, <3>4
  <2> QED BY <1>2, <2>1, <2>2 DEF ValuesKept
<1>14. OnePlace'
  <2>1. PICK where \in [Object -> Where],
             with \in [Object -> Id \cup {Null}] :
             Located(where, with) /\ Awaited(where)
    BY DEF Placed, OnePlace
  <2>2. where[o] = "rx"
    BY <1>3, <1>5, <2>1 DEF Located
  <2> DEFINE there == [where EXCEPT ![o] = "serverSend"]
  <2>3. /\ there \in [Object -> Where] /\ there[o] = "serverSend"
        /\ \A p \in Object \ {o} : there[p] = where[p]
    BY DEF Where
  <2> HIDE DEF there
  <2>4. Located(there, with)'
    BY <1>2, <1>3, <1>8, <1>11, <2>1, <2>2, <2>3 DEF Located
  <2>5. Awaited(there)'
    BY <1>2, <2>1, <2>2, <2>3 DEF Awaited, Answerable
  <2> QED BY <2>3, <2>4, <2>5 DEF OnePlace
<1> QED BY <1>12, <1>13, <1>14 DEF Placed

LEMMA PlacedReceive ==
    ASSUME PackageInv, Asked, Placed, SendReceive
    PROVE  Placed'
<1>0. serverSend # <<>> /\ serverSend \in Seq(Item)
  BY DEF SendReceive, PackageInv, Handled
<1> PICK item \in Item : item = Head(serverSend)
  BY <1>0, Off
<1> DEFINE o == item.obj
<1>1. /\ serverSend # <<>> /\ serverSend' = Tail(serverSend)
      /\ serverSend \in Seq(Item) /\ sendPc = "receive"
      /\ sendItem' = item
      /\ sendPc' = IF item.val = "component" THEN "process" ELSE "receive"
  BY DEF SendReceive, SendAt, PackageInv, Handled
<1>2. UNCHANGED <<request, waiting, rx, rxVal, cmdQueue, compPc, compItem,
                  receQueue, sendingPc, sendingObj, tx>>
  BY DEF SendReceive, client, compTasks, senders
<1>3. /\ Len(serverSend) \in Nat \ {0} /\ item = serverSend[1]
      /\ item \in Item /\ Len(serverSend') = Len(serverSend) - 1
      /\ \A k \in 1 .. Len(serverSend) - 1 : serverSend'[k] = serverSend[k + 1]
  BY <1>1, Off
<1>4. o \in Object /\ InItems(serverSend, o) /\ item.val = request[o].val
  <2>1. 1 \in 1 .. Len(serverSend)
    BY <1>3
  <2> QED BY <1>3, <2>1 DEF Item, InItems, Placed, ValuesKept
<1>5. /\ OnceItems(serverSend')
      /\ \A p : InItems(serverSend', p) <=> InItems(serverSend, p) /\ p # o
  BY <1>1, ItemTail DEF Placed, NoneTwice
<1>6. sendItem'.obj = o
  BY <1>1
<1> DEFINE to == IF item.val = "component" THEN "AudioSend" ELSE "nowhere"
<1>7. /\ to \in Where
      /\ sendPc' # "receive" <=> to = "AudioSend"
      /\ to = "AudioSend" \/ to = "nowhere"
      /\ to = "nowhere" => ~Answerable(o)
  BY <1>1, <1>4 DEF Where, Answerable
<1> HIDE DEF to, o
<1>8. NoneTwice'
  BY <1>2, <1>5 DEF Placed, NoneTwice
<1>9. ValuesKept'
  <2>1. \A k \in 1 .. Len(serverSend') :
            k + 1 \in 1 .. Len(serverSend) /\ serverSend'[k] = serverSend[k + 1]
    BY <1>3
  <2> QED BY <1>2, <2>1 DEF Placed, ValuesKept
<1>10. OnePlace'
  <2>1. PICK where \in [Object -> Where],
             with \in [Object -> Id \cup {Null}] :
             Located(where, with) /\ Awaited(where)
    BY DEF Placed, OnePlace
  <2>2. where[o] = "serverSend"
    BY <1>4, <2>1 DEF Located
  <2> DEFINE there == [where EXCEPT ![o] = to]
  <2>3. /\ there \in [Object -> Where] /\ there[o] = to
        /\ \A p \in Object \ {o} : there[p] = where[p]
    BY <1>4, <1>7
  <2> HIDE DEF there
  <2>4. Located(there, with)'
    BY <1>1, <1>2, <1>4, <1>5, <1>6, <1>7, <2>1, <2>2, <2>3 DEF Located
  <2>5. Awaited(there)'
    BY <1>2, <1>7, <2>1, <2>2, <2>3 DEF Awaited, Answerable
  <2> QED BY <2>3, <2>4, <2>5 DEF OnePlace
<1> QED BY <1>8, <1>9, <1>10 DEF Placed

(* An object goes behind the queue of AudioRece. *)
LEMMA QueuedForRece ==
    ASSUME Long, Handled, Placed, NEW o \in Object, ~In(receQueue, o),
           receQueue' = Pushed(receQueue, o, QueueLen)
    PROVE  /\ \A p : In(receQueue', p) <=> In(receQueue, p) \/ p = o
           /\ Once(receQueue')
<1>1. receQueue \in Seq(Object) /\ Once(receQueue) /\ QueueLen \in Nat
  BY BoundAssumption DEF Handled, Placed, NoneTwice
<1>2. Len(receQueue) < QueueLen
  BY <1>1, Room DEF Long
<1>3. receQueue' = Append(receQueue, o)
  BY <1>2 DEF Pushed
<1> QED BY <1>1, <1>3, InAppend, OnceAppend

(* AudioSend answers, or has done with what has no handler. *)
LEMMA PlacedDone ==
    ASSUME Long, PackageInv, Placed, NEW o \in Object, sendItem.obj = o,
           sendPc # "receive", sendPc' = "receive",
           UNCHANGED <<request, waiting, rx, rxVal, serverSend, sendItem,
                       cmdQueue, compPc, compItem, sendingPc, sendingObj,
                       tx>>,
           \/ receQueue' = Pushed(receQueue, o, QueueLen)
           \/ receQueue' = receQueue /\ ~Answerable(o)
    PROVE  Placed'
<1>1. PICK where \in [Object -> Where],
           with \in [Object -> Id \cup {Null}] :
           Located(where, with) /\ Awaited(where)
  BY DEF Placed, OnePlace
<1>2. where[o] = "AudioSend"
  BY <1>1 DEF Located
<1>3. ~In(receQueue, o)
  BY <1>1, <1>2 DEF Located
<1>4. PICK to \in {"receQueue", "nowhere"} :
        /\ \A p : In(receQueue', p)
                     <=> In(receQueue, p) \/ (p = o /\ to = "receQueue")
        /\ Once(receQueue')
        /\ to = "nowhere" => ~Answerable(o)
  <2>1. CASE receQueue' = Pushed(receQueue, o, QueueLen)
    BY <1>3, <2>1, QueuedForRece DEF PackageInv
  <2>2. CASE receQueue' = receQueue /\ ~Answerable(o)
    BY <2>2 DEF Placed, NoneTwice
  <2> QED BY <2>1, <2>2
<1> DEFINE there == [where EXCEPT ![o] = to]
<1>5. /\ there \in [Object -> Where] /\ there[o] = to
      /\ \A p \in Object \ {o} : there[p] = where[p]
  BY DEF Where
<1> HIDE DEF there
<1>6. Located(there, with)'
  BY <1>1, <1>2, <1>4, <1>5 DEF Located
<1>7. Awaited(there)'
  BY <1>1, <1>2, <1>4, <1>5 DEF Awaited, Answerable
<1>8. OnePlace'
  BY <1>5, <1>6, <1>7 DEF OnePlace
<1>9. ValuesKept' /\ NoneTwice'
  BY <1>4 DEF Placed, ValuesKept, NoneTwice
<1> QED BY <1>8, <1>9 DEF Placed

LEMMA PlacedPass ==
    ASSUME Long, PackageInv, Placed, NEW i \in Id, Pass(i)
    PROVE  Placed'
<1>1. UNCHANGED <<request, waiting, rx, rxVal, serverSend, sendItem, compPc,
                  compItem, receQueue, sendingPc, sendingObj, tx>>
  BY DEF Pass, client, callback, sending, compTasks, senders
<1>2. sendPc = "pass" /\ sendItem \in Item
  BY DEF Pass, SendAt, PackageInv, Handled
<1>3. CASE i \notin queues
  BY <1>1, <1>2, <1>3, Still DEF Pass
<1>4. CASE i \in queues
  <2>1. PICK where \in [Object -> Where],
             with \in [Object -> Id \cup {Null}] :
             Located(where, with) /\ Awaited(where)
    BY DEF Placed, OnePlace
  <2>2. PICK o \in Object : o = sendItem.obj
    BY <1>2 DEF Item
  <2>3. where[o] = "AudioSend" /\ ~In(cmdQueue[i], o)
    BY <1>2, <2>1, <2>2 DEF Located
  <2>4. /\ cmdQueue[i] \in Seq(Object) /\ Once(cmdQueue[i])
        /\ CmdQueueLen \in Nat /\ cmdQueue \in [Id -> Seq(Object)]
    BY BoundAssumption DEF PackageInv, Handled, Placed, NoneTwice
  <2>5. Len(cmdQueue[i]) < CmdQueueLen
    BY <2>3, <2>4, Room DEF Long
  <2>6. /\ sendPc' = "receive"
        /\ cmdQueue' = [cmdQueue EXCEPT ![i] = Append(cmdQueue[i], o)]
    BY <1>4, <2>2, <2>5 DEF Pass, Pushed
  <2> DEFINE longer == Append(cmdQueue[i], o)
  <2>7. /\ \A p : In(longer, p) <=> In(cmdQueue[i], p) \/ p = o
        /\ Once(longer)
    BY <2>3, <2>4, InAppend, OnceAppend
  <2>8. /\ cmdQueue'[i] = longer
        /\ \A j \in Id \ {i} : cmdQueue'[j] = cmdQueue[j]
    BY <2>4, <2>6
  <2> HIDE DEF longer
  <2>9. NoneTwice'
    BY <1>1, <2>7, <2>8 DEF Placed, NoneTwice
  <2>10. ValuesKept'
    BY <1>1 DEF Placed, ValuesKept
  <2> DEFINE there == [where EXCEPT ![o] = "cmdQueue"]
             comp == [with EXCEPT ![o] = i]
  <2>11. /\ there \in [Object -> Where] /\ there[o] = "cmdQueue"
         /\ comp \in [Object -> Id \cup {Null}] /\ comp[o] = i
         /\ \A p \in Object \ {o} : there[p] = where[p] /\ comp[p] = with[p]
    BY DEF Where
  <2> HIDE DEF there, comp
  <2>12. Located(there, comp)'
    <3> SUFFICES ASSUME NEW p \in Object
                 PROVE  /\ there[p] = "rx" <=> In(rx, p)
                        /\ there[p] = "serverSend" <=> InItems(serverSend, p)
                        /\ there[p] = "AudioSend" <=>
                              sendPc' # "receive" /\ sendItem.obj = p
                        /\ \A j \in Id :
                              /\ there[p] = "cmdQueue" /\ comp[p] = j
                                    <=> In(cmdQueue'[j], p)
                              /\ there[p] = "compTask" /\ comp[p] = j <=>
                                    /\ compPc[j] \in {"execute", "reply"}
                                    /\ compItem[j] = p
                        /\ there[p] = "receQueue" <=> In(receQueue, p)
                        /\ there[p] = "sender" <=>
                              /\ sendingPc["AudioRece"] # "idle"
                              /\ sendingObj["AudioRece"] = p
                        /\ there[p] = "tx" <=> In(tx, p)
                        /\ there[p] \in {"cmdQueue", "compTask"} =>
                              comp[p] \in Id
      BY <1>1 DEF Located
    <3>1. ASSUME NEW j \in Id
          PROVE  there[p] = "cmdQueue" /\ comp[p] = j <=> In(cmdQueue'[j], p)
      <4>1. where[p] = "cmdQueue" /\ with[p] = j <=> In(cmdQueue[j], p)
        BY <2>1 DEF Located
      <4>2. In(cmdQueue'[j], p) <=> In(cmdQueue[j], p) \/ (j = i /\ p = o)
        BY <2>7, <2>8
      <4>3. CASE p = o
        BY <2>3, <2>11, <4>1, <4>2, <4>3
      <4>4. CASE p # o
        BY <2>11, <4>1, <4>2, <4>4
      <4> QED BY <4>3, <4>4
    <3>2. ASSUME NEW j \in Id
          PROVE  there[p] = "compTask" /\ comp[p] = j <=>
                    compPc[j] \in {"execute", "reply"} /\ compItem[j] = p
      BY <2>1, <2>3, <2>11 DEF Located
    <3>3. /\ there[p] = "rx" <=> In(rx, p)
          /\ there[p] = "serverSend" <=> InItems(serverSend, p)
          /\ there[p] = "receQueue" <=> In(receQueue, p)
          /\ there[p] = "sender" <=> /\ sendingPc["AudioRece"] # "idle"
                                     /\ sendingObj["AudioRece"] = p
          /\ there[p] = "tx" <=> In(tx, p)
      BY <2>1, <2>3, <2>11 DEF Located
    <3>4. there[p] = "AudioSend" <=> sendPc' # "receive" /\ sendItem.obj = p
      BY <1>2, <2>1, <2>2, <2>3, <2>6, <2>11 DEF Located
    <3>5. there[p] \in {"cmdQueue", "compTask"} => comp[p] \in Id
      BY <2>1, <2>11 DEF Located
    <3> QED BY <3>1, <3>2, <3>3, <3>4, <3>5
  <2>13. Awaited(there)'
    BY <1>1, <2>1, <2>3, <2>11 DEF Awaited, Answerable
  <2> QED BY <2>9, <2>10, <2>11, <2>12, <2>13 DEF Placed, OnePlace
<1> QED BY <1>3, <1>4

LEMMA PlacedSend ==
    ASSUME Long, PackageInv, Asked, Placed, AudioSend, ~failed'
    PROVE  Placed'
<1> USE DEF client, callback, sendTask, sending, compTasks, senders, SendAt
<1>1. sendPc # "receive" => sendItem.obj \in Object
  BY DEF PackageInv, Handled, Item
<1>2. CASE SendReceive
  BY <1>2, PlacedReceive
<1>3. CASE Lookup \/ LookupFails
  BY <1>3, Still DEF Lookup, LookupFails
<1>4. CASE NoMemory
  BY <1>4 DEF NoMemory, Fail
<1>5. CASE Dispatch
  <2>1. CASE Current.cmd = "unknown"
    BY <1>1, <1>5, <2>1, PlacedDone DEF Dispatch
  <2>2. CASE Current.cmd # "unknown"
    BY <1>5, <2>2, Still DEF Dispatch
  <2> QED BY <2>1, <2>2
<1>6. CASE ProcessOther
  <2>1. Current.mode = "algo"
    BY <1>6 DEF ProcessOther, Fail
  <2> QED BY <1>1, <1>6, <2>1, PlacedDone DEF ProcessOther
<1>7. CASE ProcessNothing
  <2>1. ~Answerable(sendItem.obj)
    BY <1>7 DEF ProcessNothing, Answerable, Current
  <2> QED BY <1>1, <1>7, <2>1, PlacedDone DEF ProcessNothing
<1>8. ASSUME NEW i \in Id, CreateTask(i) PROVE Placed'
  <2>1. \A j \in Id : compPc'[j] \in {"execute", "reply"}
                         <=> compPc[j] \in {"execute", "reply"}
    BY <1>8 DEF CreateTask, PackageInv, Handled
  <2> QED BY <1>8, <2>1, Still DEF CreateTask
<1>9. ASSUME NEW i \in Id, WaitTask(i) PROVE Placed'
  BY <1>9, Still DEF WaitTask
<1> QED BY <1>2, <1>3, <1>4, <1>5, <1>6, <1>7, <1>8, <1>9, PlacedPass
        DEF AudioSend

LEMMA PlacedCompReceive ==
    ASSUME PackageInv, Placed, NEW i \in Id, CompReceive(i)
    PROVE  Placed'
<1>1. UNCHANGED <<request, waiting, rx, rxVal, serverSend, sendPc, sendItem,
                  receQueue, sendingPc, sendingObj, tx>>
  BY DEF CompReceive, client, callback, sendTask, sending, senders
<1>2. /\ cmdQueue[i] \in Seq(Object) /\ cmdQueue[i] # <<>>
      /\ Once(cmdQueue[i]) /\ compPc[i] = "receive"
      /\ cmdQueue \in [Id -> Seq(Object)]
      /\ compItem \in [Id -> Object \cup {Null}]
      /\ compPc \in [Id -> {"none", "start", "receive", "execute", "reply", "halted"}]
  BY DEF CompReceive, PackageInv, Handled, Placed, NoneTwice
<1>3. PICK o \in Object : o = Head(cmdQueue[i])
  BY <1>2, Off
<1>4. PICK where \in [Object -> Where],
           with \in [Object -> Id \cup {Null}] :
           Located(where, with) /\ Awaited(where)
  BY DEF Placed, OnePlace
<1>5. In(cmdQueue[i], o)
  BY <1>2, <1>3, Off DEF In
<1>6. where[o] = "cmdQueue" /\ with[o] = i
  BY <1>4, <1>5 DEF Located
<1>7. /\ cmdQueue'[i] = Tail(cmdQueue[i])
      /\ \A j \in Id \ {i} : cmdQueue'[j] = cmdQueue[j]
  BY <1>2 DEF CompReceive
<1>8. /\ Once(cmdQueue'[i])
      /\ \A p \in Object :
            In(cmdQueue'[i], p) <=> In(cmdQueue[i], p) /\ p # o
  BY <1>2, <1>3, <1>7, InTail, OnceTail
<1>9. /\ compItem'[i] = o /\ compPc'[i] = "execute"
      /\ \A j \in Id \ {i} :
            compItem'[j] = compItem[j] /\ compPc'[j] = compPc[j]
  BY <1>2, <1>3 DEF CompReceive
<1> DEFINE there == [where EXCEPT ![o] = "compTask"]
<1>10. /\ there \in [Object -> Where] /\ there[o] = "compTask"
       /\ \A p \in Object \ {o} : there[p] = where[p]
  BY DEF Where
<1> HIDE DEF there
<1>11. Located(there, with)'
  <2> SUFFICES ASSUME NEW p \in Object
               PROVE  /\ there[p] = "rx" <=> In(rx, p)
                      /\ there[p] = "serverSend" <=> InItems(serverSend, p)
                      /\ there[p] = "AudioSend" <=>
                            sendPc # "receive" /\ sendItem.obj = p
                      /\ \A j \in Id :
                            /\ there[p] = "cmdQueue" /\ with[p] = j
                                  <=> In(cmdQueue'[j], p)
                            /\ there[p] = "compTask" /\ with[p] = j <=>
                                  /\ compPc'[j] \in {"execute", "reply"}
                                  /\ compItem'[j] = p
                      /\ there[p] = "receQueue" <=> In(receQueue, p)
                      /\ there[p] = "sender" <=>
                            /\ sendingPc["AudioRece"] # "idle"
                            /\ sendingObj["AudioRece"] = p
                      /\ there[p] = "tx" <=> In(tx, p)
                      /\ there[p] \in {"cmdQueue", "compTask"} =>
                            with[p] \in Id
    BY <1>1 DEF Located
  <2>1. ASSUME NEW j \in Id
        PROVE  there[p] = "cmdQueue" /\ with[p] = j <=> In(cmdQueue'[j], p)
    <3>1. where[p] = "cmdQueue" /\ with[p] = j <=> In(cmdQueue[j], p)
      BY <1>4 DEF Located
    <3>2. In(cmdQueue'[j], p) <=> In(cmdQueue[j], p) /\ ~(j = i /\ p = o)
      BY <1>7, <1>8
    <3> QED BY <1>6, <1>10, <3>1, <3>2
  <2>2. ASSUME NEW j \in Id
        PROVE  there[p] = "compTask" /\ with[p] = j <=>
                  compPc'[j] \in {"execute", "reply"} /\ compItem'[j] = p
    <3>1. where[p] = "compTask" /\ with[p] = j <=>
             compPc[j] \in {"execute", "reply"} /\ compItem[j] = p
      BY <1>4 DEF Located
    <3>2. CASE j = i
      BY <1>2, <1>6, <1>9, <1>10, <3>1, <3>2
    <3>3. CASE j # i
      BY <1>6, <1>9, <1>10, <3>1, <3>3
    <3> QED BY <3>2, <3>3
  <2>3. /\ there[p] = "rx" <=> In(rx, p)
        /\ there[p] = "serverSend" <=> InItems(serverSend, p)
        /\ there[p] = "AudioSend" <=> sendPc # "receive" /\ sendItem.obj = p
        /\ there[p] = "receQueue" <=> In(receQueue, p)
        /\ there[p] = "sender" <=> /\ sendingPc["AudioRece"] # "idle"
                                   /\ sendingObj["AudioRece"] = p
        /\ there[p] = "tx" <=> In(tx, p)
    BY <1>4, <1>6, <1>10 DEF Located
  <2>4. there[p] \in {"cmdQueue", "compTask"} => with[p] \in Id
    BY <1>4, <1>6, <1>10 DEF Located
  <2> QED BY <2>1, <2>2, <2>3, <2>4
<1>12. Awaited(there)'
  BY <1>1, <1>4, <1>6, <1>10 DEF Awaited, Answerable
<1>13. ValuesKept' /\ NoneTwice'
  BY <1>1, <1>7, <1>8 DEF Placed, ValuesKept, NoneTwice
<1> QED BY <1>10, <1>11, <1>12, <1>13 DEF Placed, OnePlace

LEMMA PlacedCompReply ==
    ASSUME Long, PackageInv, Placed, NEW i \in Id, CompReply(i)
    PROVE  Placed'
<1>1. UNCHANGED <<request, waiting, rx, rxVal, serverSend, sendPc, sendItem,
                  cmdQueue, compItem, sendingPc, sendingObj, tx>>
  BY DEF CompReply, client, callback, sendTask, sending, senders
<1>2. /\ compPc[i] = "reply"
      /\ compPc \in [Id -> {"none", "start", "receive", "execute", "reply", "halted"}]
  BY DEF CompReply, PackageInv, Handled
<1>3. PICK o \in Object : o = compItem[i]
  BY <1>2 DEF PackageInv, Handled
<1>4. PICK where \in [Object -> Where],
           with \in [Object -> Id \cup {Null}] :
           Located(where, with) /\ Awaited(where)
  BY DEF Placed, OnePlace
<1>5. where[o] = "compTask" /\ with[o] = i /\ ~In(receQueue, o)
  BY <1>2, <1>3, <1>4 DEF Located
<1>6. /\ \A p : In(receQueue', p) <=> In(receQueue, p) \/ p = o
      /\ Once(receQueue')
  BY <1>3, <1>5, QueuedForRece DEF CompReply, PackageInv
<1>7. /\ compPc'[i] = "receive"
      /\ \A j \in Id \ {i} : compPc'[j] = compPc[j]
  BY <1>2 DEF CompReply
<1> DEFINE there == [where EXCEPT ![o] = "receQueue"]
<1>8. /\ there \in [Object -> Where] /\ there[o] = "receQueue"
      /\ \A p \in Object \ {o} : there[p] = where[p]
  BY DEF Where
<1> HIDE DEF there
<1>9. Located(there, with)'
  <2> SUFFICES ASSUME NEW p \in Object
               PROVE  /\ there[p] = "rx" <=> In(rx, p)
                      /\ there[p] = "serverSend" <=> InItems(serverSend, p)
                      /\ there[p] = "AudioSend" <=>
                            sendPc # "receive" /\ sendItem.obj = p
                      /\ \A j \in Id :
                            /\ there[p] = "cmdQueue" /\ with[p] = j
                                  <=> In(cmdQueue[j], p)
                            /\ there[p] = "compTask" /\ with[p] = j <=>
                                  /\ compPc'[j] \in {"execute", "reply"}
                                  /\ compItem[j] = p
                      /\ there[p] = "receQueue" <=> In(receQueue', p)
                      /\ there[p] = "sender" <=>
                            /\ sendingPc["AudioRece"] # "idle"
                            /\ sendingObj["AudioRece"] = p
                      /\ there[p] = "tx" <=> In(tx, p)
                      /\ there[p] \in {"cmdQueue", "compTask"} =>
                            with[p] \in Id
    BY <1>1 DEF Located
  <2>1. ASSUME NEW j \in Id
        PROVE  there[p] = "cmdQueue" /\ with[p] = j <=> In(cmdQueue[j], p)
    BY <1>4, <1>5, <1>8 DEF Located
  <2>2. ASSUME NEW j \in Id
        PROVE  there[p] = "compTask" /\ with[p] = j <=>
                  compPc'[j] \in {"execute", "reply"} /\ compItem[j] = p
    <3>1. where[p] = "compTask" /\ with[p] = j <=>
             compPc[j] \in {"execute", "reply"} /\ compItem[j] = p
      BY <1>4 DEF Located
    <3>2. CASE j = i
      BY <1>2, <1>3, <1>5, <1>7, <1>8, <3>1, <3>2
    <3>3. CASE j # i
      BY <1>5, <1>7, <1>8, <3>1, <3>3
    <3> QED BY <3>2, <3>3
  <2>3. /\ there[p] = "rx" <=> In(rx, p)
        /\ there[p] = "serverSend" <=> InItems(serverSend, p)
        /\ there[p] = "AudioSend" <=> sendPc # "receive" /\ sendItem.obj = p
        /\ there[p] = "sender" <=> /\ sendingPc["AudioRece"] # "idle"
                                   /\ sendingObj["AudioRece"] = p
        /\ there[p] = "tx" <=> In(tx, p)
    BY <1>4, <1>5, <1>8 DEF Located
  <2>4. there[p] = "receQueue" <=> In(receQueue', p)
    BY <1>4, <1>5, <1>6, <1>8 DEF Located
  <2>5. there[p] \in {"cmdQueue", "compTask"} => with[p] \in Id
    BY <1>4, <1>8 DEF Located
  <2> QED BY <2>1, <2>2, <2>3, <2>4, <2>5
<1>10. Awaited(there)'
  BY <1>1, <1>4, <1>5, <1>8 DEF Awaited, Answerable
<1>11. ValuesKept' /\ NoneTwice'
  BY <1>1, <1>6 DEF Placed, ValuesKept, NoneTwice
<1> QED BY <1>8, <1>9, <1>10, <1>11 DEF Placed, OnePlace

LEMMA PlacedComp ==
    ASSUME Long, PackageInv, Placed, NEW i \in Id, CompTask(i)
    PROVE  Placed'
<1> USE DEF client, callback, sending, senders
<1>1. CASE CompStart(i)
  <2>1. \A j \in Id : compPc'[j] \in {"execute", "reply"}
                         <=> compPc[j] \in {"execute", "reply"}
    BY <1>1 DEF CompStart, PackageInv, Handled
  <2> QED BY <1>1, <2>1, Still DEF CompStart
<1>2. CASE CompExecute(i)
  <2>1. \A j \in Id : compPc'[j] \in {"execute", "reply"}
                         <=> compPc[j] \in {"execute", "reply"}
    BY <1>2 DEF CompExecute, PackageInv, Handled
  <2> QED BY <1>2, <2>1, Still DEF CompExecute, sendTask
<1> QED BY <1>1, <1>2, PlacedCompReceive, PlacedCompReply DEF CompTask

LEMMA PlacedRece ==
    ASSUME PackageInv, Placed, ReceTask
    PROVE  Placed'
<1>1. UNCHANGED <<request, waiting, rx, rxVal, serverSend, sendPc, sendItem,
                  cmdQueue, compPc, compItem, tx>>
  BY DEF ReceTask, client, callback, sendTask, sending, compTasks
<1>2. /\ receQueue \in Seq(Object) /\ receQueue # <<>> /\ Once(receQueue)
      /\ receQueue' = Tail(receQueue) /\ sendingPc["AudioRece"] = "idle"
  BY DEF ReceTask, PackageInv, Handled, Placed, NoneTwice
<1>3. PICK o \in Object : o = Head(receQueue)
  BY <1>2, Off
<1>4. In(receQueue, o)
  BY <1>2, <1>3, Off DEF In
<1>5. /\ Once(receQueue')
      /\ \A p \in Object : In(receQueue', p) <=> In(receQueue, p) /\ p # o
  BY <1>2, <1>3, InTail, OnceTail
<1>6. sendingPc'["AudioRece"] # "idle" /\ sendingObj'["AudioRece"] = o
  BY <1>3 DEF ReceTask, BeginSending, PackageInv, Sent, Sender
<1>7. OnePlace'
  <2>1. PICK where \in [Object -> Where],
             with \in [Object -> Id \cup {Null}] :
             Located(where, with) /\ Awaited(where)
    BY DEF Placed, OnePlace
  <2>2. where[o] = "receQueue"
    BY <1>4, <2>1 DEF Located
  <2> DEFINE there == [where EXCEPT ![o] = "sender"]
  <2>3. /\ there \in [Object -> Where] /\ there[o] = "sender"
        /\ \A p \in Object \ {o} : there[p] = where[p]
    BY DEF Where
  <2> HIDE DEF there
  <2>4. Located(there, with)'
    BY <1>1, <1>2, <1>5, <1>6, <2>1, <2>2, <2>3 DEF Located
  <2>5. Awaited(there)'
    BY <1>1, <2>1, <2>2, <2>3 DEF Awaited, Answerable
  <2> QED BY <2>3, <2>4, <2>5 DEF OnePlace
<1> QED BY <1>1, <1>5, <1>7 DEF Placed, ValuesKept, NoneTwice

LEMMA PlacedSending ==
    ASSUME PackageInv, Placed, ~failed, NEW s \in Sender, Sending(s)
    PROVE  Placed'
<1>1. UNCHANGED <<request, waiting, rx, rxVal, serverSend, sendPc, sendItem,
                  cmdQueue, compPc, compItem, receQueue, sendingObj>>
  BY DEF Sending, SendWait, SendWrite, client, callback, sendTask, sending,
         compTasks
<1>2. s = "AudioRece"
  BY DEF PackageInv, OneSender, Sending, SendWait, SendWrite, Sender
<1>3. CASE SendWait(s)
  <2>1. tx' = tx /\ sendingPc'["AudioRece"] # "idle"
        /\ sendingPc["AudioRece"] # "idle"
    BY <1>2, <1>3 DEF SendWait, PackageInv, Sent, Sender
  <2> QED BY <1>1, <2>1, Still
<1>4. CASE SendWrite(s)
  <2> DEFINE w == IF sendingPc["AudioRece"] = "val_write"
                  THEN "component" ELSE sendingObj["AudioRece"]
  <2>1. /\ sendingPc["AudioRece"] \in {"val_write", "ptr_write"}
        /\ sendingPc'["AudioRece"] = "idle"
              <=> sendingPc["AudioRece"] = "ptr_write"
        /\ tx' = Pushed(tx, w, FifoDepth)
    BY <1>2, <1>4 DEF SendWrite, PackageInv, Sent, Sender
  <2>2. tx \in Seq(Answer) /\ Once(tx) /\ Len(tx) < FifoDepth
    BY <2>1 DEF PackageInv, Sent, OneSender, Placed, NoneTwice
  <2>3. PICK o \in Object : o = sendingObj["AudioRece"]
    BY <2>1 DEF PackageInv, Sent, Sender
  <2>4. tx' = Append(tx, w) /\ w \in Answer
    BY <2>1, <2>2, <2>3 DEF Pushed, Answer
  <2>5. PICK where \in [Object -> Where],
             with \in [Object -> Id \cup {Null}] :
             Located(where, with) /\ Awaited(where)
    BY DEF Placed, OnePlace
  <2>6. where[o] = "sender" /\ ~In(tx, o)
    BY <2>1, <2>3, <2>5 DEF Located
  <2>7. CASE sendingPc["AudioRece"] = "val_write"
    <3>1. w = "component" /\ w \notin Object
      BY <2>7, ObjectAssumption DEF MsgVal
    <3>2. Once(tx') /\ \A p \in Object : In(tx', p) <=> In(tx, p)
      BY <2>2, <2>4, <3>1, InAppend, OnceAppend
    <3>3. sendingPc'["AudioRece"] # "idle"
      BY <2>1, <2>7
    <3>4. Located(where, with)'
      BY <1>1, <2>1, <2>5, <3>2, <3>3 DEF Located
    <3>5. Awaited(where)'
      BY <1>1, <2>5 DEF Awaited, Answerable
    <3>6. ValuesKept' /\ NoneTwice'
      BY <1>1, <3>2 DEF Placed, ValuesKept, NoneTwice
    <3> QED BY <3>4, <3>5, <3>6 DEF Placed, OnePlace
  <2>8. CASE sendingPc["AudioRece"] = "ptr_write"
    <3>1. w = o
      BY <2>3, <2>8
    <3>2. Once(tx') /\ \A p \in Object : In(tx', p) <=> In(tx, p) \/ p = o
      BY <2>2, <2>4, <2>6, <3>1, InAppend, OnceAppend
    <3>3. sendingPc'["AudioRece"] = "idle"
      BY <2>1, <2>8
    <3> DEFINE there == [where EXCEPT ![o] = "tx"]
    <3>4. /\ there \in [Object -> Where] /\ there[o] = "tx"
          /\ \A p \in Object \ {o} : there[p] = where[p]
      BY DEF Where
    <3> HIDE DEF there
    <3>5. Located(there, with)'
      BY <1>1, <2>1, <2>3, <2>5, <2>6, <3>2, <3>3, <3>4 DEF Located
    <3>6. Awaited(there)'
      BY <1>1, <2>5, <2>6, <3>4 DEF Awaited, Answerable
    <3>7. ValuesKept' /\ NoneTwice'
      BY <1>1, <3>2 DEF Placed, ValuesKept, NoneTwice
    <3> QED BY <3>4, <3>5, <3>6, <3>7 DEF Placed, OnePlace
  <2> QED BY <2>1, <2>7, <2>8
<1> QED BY <1>3, <1>4 DEF Sending

LEMMA PlacedTaken ==
    ASSUME PackageInv, Placed, ~failed, TakeWord
    PROVE  Placed'
<1>1. UNCHANGED <<request, rx, rxVal, serverSend, sendPc, sendItem, cmdQueue,
                  compPc, compItem, receQueue, sendingPc, sendingObj>>
  BY DEF TakeWord, TakeFirstWord, TakeSecondWord, callback, sendTask, sending,
         compTasks, senders
<1>2. tx \in Seq(Answer) /\ tx # <<>> /\ tx' = Tail(tx) /\ Once(tx)
  BY DEF TakeWord, TakeFirstWord, TakeSecondWord, PackageInv, Sent, Placed,
         NoneTwice
<1>3. /\ \A p \in Object : In(tx', p) <=> In(tx, p) /\ p # Head(tx)
      /\ Once(tx') /\ Head(tx) \in Answer /\ In(tx, Head(tx))
  <2>1. 1 \in 1 .. Len(tx) /\ Head(tx) = tx[1]
    BY <1>2, Off
  <2> QED BY <1>2, <2>1, Off, InTail, OnceTail DEF In
<1>4. Head(tx) = "component" <=> cpuVal = Null
  <2>1. Alternate(tx, {"component"}, cpuVal = Null)
    BY Whole DEF PackageInv
  <2> QED BY <1>2, <2>1, ReadAlternates
<1>5. ValuesKept' /\ NoneTwice'
  BY <1>1, <1>3 DEF Placed, ValuesKept, NoneTwice
<1>6. PICK where \in [Object -> Where],
           with \in [Object -> Id \cup {Null}] :
           Located(where, with) /\ Awaited(where)
  BY DEF Placed, OnePlace
<1>7. CASE TakeFirstWord
  <2>1. Head(tx) \notin Object /\ waiting' = waiting
    BY <1>4, <1>7, ObjectAssumption DEF TakeFirstWord, MsgVal
  <2>2. Located(where, with)'
    BY <1>1, <1>3, <1>6, <2>1 DEF Located
  <2>3. Awaited(where)'
    BY <1>1, <1>6, <2>1 DEF Awaited, Answerable
  <2> QED BY <1>5, <2>2, <2>3 DEF Placed, OnePlace
<1>8. CASE TakeSecondWord
  <2>1. /\ waiting' = waiting \ (IF cpuVal = "component"
                                 THEN {Head(tx)} \cap waiting ELSE {})
        /\ cpuVal # Null /\ cpuVal' = Null
    BY <1>8 DEF TakeSecondWord
  <2>2. PICK o \in Object : o = Head(tx)
    BY <1>3, <1>4, <2>1 DEF Answer
  <2>3. where[o] = "tx" /\ o \in waiting
    BY <1>3, <1>6, <2>2 DEF Located, Awaited
  <2>4. waiting' = waiting \ {o}
    BY <2>1, <2>2, <2>3 DEF PackageInv, OneSender
  <2> DEFINE there == [where EXCEPT ![o] = "nowhere"]
  <2>5. /\ there \in [Object -> Where] /\ there[o] = "nowhere"
        /\ \A p \in Object \ {o} : there[p] = where[p]
    BY DEF Where
  <2> HIDE DEF there
  <2>6. Located(there, with)'
    BY <1>1, <1>3, <1>6, <2>2, <2>3, <2>5 DEF Located
  <2>7. Awaited(there)'
    BY <1>1, <1>6, <2>3, <2>4, <2>5 DEF Awaited, Answerable
  <2> QED BY <1>5, <2>5, <2>6, <2>7 DEF Placed, OnePlace
<1> QED BY <1>7, <1>8 DEF TakeWord

-----------------------------------------------------------------------------
(* What the clients ask, whatever fails. *)
LEMMA AskedStep ==
    ASSUME Asked, [Next]_vars PROVE Asked'
<1>1. CASE UNCHANGED <<request, waiting, session>>
  BY <1>1 DEF Asked
<1> USE DEF client
<1>2. ASSUME NEW o \in Object, Submit(o) PROVE Asked'
  <2>1. PICK r \in Requests(o) :
          /\ request' = [request EXCEPT ![o] = r]
          /\ session' = [session EXCEPT
                           ![o] = IF r.cmd = "create" THEN r.id ELSE @]
          /\ waiting' = waiting \cup {o}
    BY <1>2 DEF Submit
  <2>2. /\ r \in Request
        /\ r.cmd # "unknown"
              => r.val = "component" /\ r.mode = "independence"
    <3>1. \A v \in MsgVal, m \in Mode :
              /\ Plain(v, m) \in Request
              /\ Plain(v, m).cmd = "unknown"
      BY DEF Plain, Request, AllCmds
    <3>2. \A c \in AllCmds, i \in Id \cup {Null} :
              /\ Command(c, i) \in Request
              /\ Command(c, i).val = "component"
              /\ Command(c, i).mode = "independence"
      BY DEF Command, Request, MsgVal, Mode
    <3>3. /\ {"component", "no_handler"} = MsgVal
          /\ {"algo", "algo_missing", "stream", "no_mode"} \subseteq Mode
          /\ "create" \in AllCmds /\ Cmd \subseteq AllCmds
          /\ session[o] \in Id \cup {Null} /\ FreeIds \subseteq Id
      BY CmdAssumption DEF MsgVal, Mode, AllCmds, Asked, FreeIds
    <3>4. \/ \E v \in MsgVal, m \in Mode : r = Plain(v, m)
          \/ \E c \in AllCmds, i \in Id \cup {Null} : r = Command(c, i)
      BY <3>3 DEF Requests
    <3> QED BY <3>1, <3>2, <3>4
  <2>3. request' \in [Object -> Request] /\ session' \in [Object -> Id \cup {Null}]
    BY <2>1, <2>2 DEF Asked, Request
  <2>4. \A p \in Object : request'[p] = IF p = o THEN r ELSE request[p]
    BY <2>1 DEF Asked
  <2> QED BY <2>1, <2>2, <2>3, <2>4 DEF Asked
<1>3. CASE TakeFirstWord \/ Callback
  BY <1>1, <1>3 DEF TakeFirstWord, Callback, ReceiveFirstWord,
                    ReceiveSecondWord
<1>4. CASE TakeSecondWord
  <2>1. request' = request /\ waiting' \subseteq waiting
        /\ session' \in [Object -> Id \cup {Null}]
    BY <1>4 DEF TakeSecondWord, Asked
  <2> QED BY <2>1 DEF Asked
<1>5. CASE AudioSend
  BY <1>1, <1>5 DEF AudioSend, SendReceive, Lookup, LookupFails, NoMemory,
                    Dispatch, ProcessOther, ProcessNothing, CreateTask,
                    WaitTask, Pass
<1>6. CASE \E i \in Id : CompTask(i)
  BY <1>1, <1>6 DEF CompTask, CompStart, CompReceive, CompExecute, CompReply
<1>7. CASE ReceTask \/ \E s \in Sender : Sending(s)
  BY <1>1, <1>7 DEF ReceTask, Sending, SendWait, SendWrite
<1>8. CASE UNCHANGED vars
  BY <1>1, <1>8 DEF vars
<1> QED BY <1>2, <1>3, <1>4, <1>5, <1>6, <1>7, <1>8 DEF Next, TakeWord

(* A failure is not forgotten. *)
LEMMA FailedStays ==
    ASSUME Asked, [Next]_vars, failed PROVE failed'
<1> USE DEF failures
<1>1. CASE (\E o \in Object : Submit(o)) \/ TakeWord \/ Callback
  BY <1>1 DEF Submit, TakeWord, TakeFirstWord, TakeSecondWord, Callback,
              ReceiveFirstWord, ReceiveSecondWord
<1>2. CASE AudioSend
  BY <1>2 DEF AudioSend, SendReceive, Lookup, LookupFails, NoMemory, Dispatch,
              ProcessOther, ProcessNothing, CreateTask, WaitTask, Pass, Fail
<1>3. CASE \E i \in Id : CompTask(i)
  BY <1>3 DEF CompTask, CompStart, CompReceive, CompExecute, CompReply
<1>4. CASE ReceTask \/ \E s \in Sender : Sending(s)
  BY <1>4 DEF ReceTask, Sending, SendWait, SendWrite
<1>5. CASE UNCHANGED vars
  BY <1>5 DEF vars
<1> QED BY <1>1, <1>2, <1>3, <1>4, <1>5 DEF Next

LEMMA AccountStep ==
    ASSUME Long, PackageInv, AccountInv, [Next]_vars PROVE AccountInv'
<1>1. Asked /\ Asked'
  BY AskedStep DEF AccountInv
<1>2. ASSUME ~failed' PROVE Placed'
  <2>1. ~failed /\ Placed
    BY <1>1, <1>2, FailedStays DEF AccountInv, Placed
  <2>2. CASE UNCHANGED vars
    BY <2>1, <2>2, Still DEF vars, client, callback, sendTask, sending,
                             compTasks, senders
  <2>3. CASE Callback
    BY <1>1, <2>1, <2>3, PlacedFirstWord, PlacedSecondWord DEF Callback
  <2>4. CASE AudioSend
    BY <1>1, <1>2, <2>1, <2>4, PlacedSend
  <2> QED BY <1>1, <2>1, <2>2, <2>3, <2>4, PlacedSubmit, PlacedTaken,
             PlacedComp, PlacedRece, PlacedSending DEF Next
<1> QED BY <1>1, <1>2 DEF AccountInv, Placed

(* An object is in one place only. *)
LEMMA AccountImplies ==
    ASSUME PackageInv, AccountInv PROVE Accounting
<1> SUFFICES ASSUME ~failed, NEW o \in Object
             PROVE  /\ Cardinality(Places(o)) <= 1
                    /\ Places(o) # {} => o \in waiting
                    /\ o \in waiting /\ Answerable(o) => Places(o) # {}
  BY DEF Accounting
<1>1. PICK where \in [Object -> Where],
           with \in [Object -> Id \cup {Null}] :
           Located(where, with) /\ Awaited(where)
  BY DEF AccountInv, OnePlace
<1>2. NoneTwice /\ sendingPc["AudioSend"] = "idle"
  BY DEF AccountInv, PackageInv, OneSender
<1>3. /\ Indices(rx, o) # {} <=> where[o] = "rx"
      /\ Indices(receQueue, o) # {} <=> where[o] = "receQueue"
      /\ Indices(tx, o) # {} <=> where[o] = "tx"
      /\ \A i \in Id : Indices(cmdQueue[i], o) # {}
                          <=> where[o] = "cmdQueue" /\ with[o] = i
      /\ {n \in 1 .. Len(serverSend) : serverSend[n].obj = o} # {}
            <=> where[o] = "serverSend"
  BY <1>1 DEF Located, Indices, In, InItems
<1>4. /\ \A j, k \in Indices(rx, o) : j = k
      /\ \A j, k \in Indices(receQueue, o) : j = k
      /\ \A j, k \in Indices(tx, o) : j = k
      /\ \A i \in Id : \A j, k \in Indices(cmdQueue[i], o) : j = k
      /\ \A j, k \in {n \in 1 .. Len(serverSend) : serverSend[n].obj = o} :
            j = k
  BY <1>2 DEF NoneTwice, Once, OnceItems, Indices
<1> DEFINE inSend == {n \in 1 .. Len(serverSend) : serverSend[n].obj = o}
<1>5. ASSUME NEW p \in Places(o)
      PROVE
        \/ where[o] = "rx" /\ \E k \in Indices(rx, o) : p = <<"rx", Null, k>>
        \/ /\ where[o] = "serverSend"
           /\ \E k \in inSend : p = <<"serverSend", Null, k>>
        \/ where[o] = "AudioSend" /\ p = <<"AudioSend", Null, 0>>
        \/ /\ where[o] = "cmdQueue" /\ with[o] \in Id
           /\ \E k \in Indices(cmdQueue[with[o]], o) :
                 p = <<"cmdQueue", with[o], k>>
        \/ where[o] = "compTask" /\ p = <<"compTask", with[o], 0>>
        \/ /\ where[o] = "receQueue"
           /\ \E k \in Indices(receQueue, o) : p = <<"receQueue", Null, k>>
        \/ where[o] = "sender" /\ p = <<"sender", "AudioRece", 0>>
        \/ where[o] = "tx" /\ \E k \in Indices(tx, o) : p = <<"tx", Null, k>>
  <2>1. \/ \E k \in Indices(rx, o) : p = <<"rx", Null, k>>
        \/ \E k \in inSend : p = <<"serverSend", Null, k>>
        \/ /\ p = <<"AudioSend", Null, 0>>
           /\ sendPc # "receive" /\ sendItem.obj = o
        \/ \E i \in Id : \E k \in Indices(cmdQueue[i], o) :
              p = <<"cmdQueue", i, k>>
        \/ \E i \in Id : /\ compPc[i] \in {"execute", "reply"}
                         /\ compItem[i] = o /\ p = <<"compTask", i, 0>>
        \/ \E k \in Indices(receQueue, o) : p = <<"receQueue", Null, k>>
        \/ \E s \in Sender : /\ sendingPc[s] # "idle" /\ sendingObj[s] = o
                             /\ p = <<"sender", s, 0>>
        \/ \E k \in Indices(tx, o) : p = <<"tx", Null, k>>
    BY DEF Places
  <2>2. CASE \E i \in Id : \E k \in Indices(cmdQueue[i], o) :
                p = <<"cmdQueue", i, k>>
    <3>1. PICK i \in Id : \E k \in Indices(cmdQueue[i], o) :
                p = <<"cmdQueue", i, k>>
      BY <2>2
    <3>2. where[o] = "cmdQueue" /\ with[o] = i
      BY <1>3, <3>1
    <3> QED BY <3>1, <3>2
  <2>3. CASE \E i \in Id : /\ compPc[i] \in {"execute", "reply"}
                         /\ compItem[i] = o /\ p = <<"compTask", i, 0>>
    <3>1. PICK i \in Id : /\ compPc[i] \in {"execute", "reply"}
                         /\ compItem[i] = o /\ p = <<"compTask", i, 0>>
      BY <2>3
    <3>2. where[o] = "compTask" /\ with[o] = i
      BY <1>1, <3>1 DEF Located
    <3> QED BY <3>1, <3>2
  <2>4. CASE \E s \in Sender : /\ sendingPc[s] # "idle" /\ sendingObj[s] = o
                             /\ p = <<"sender", s, 0>>
    <3>1. PICK s \in Sender : /\ sendingPc[s] # "idle" /\ sendingObj[s] = o
                             /\ p = <<"sender", s, 0>>
      BY <2>4
    <3>2. s = "AudioRece"
      BY <1>2, <3>1 DEF Sender
    <3>3. where[o] = "sender"
      BY <1>1, <3>1, <3>2 DEF Located
    <3> QED BY <3>1, <3>2, <3>3
  <2>5. CASE p = <<"AudioSend", Null, 0>> /\ sendPc # "receive"
             /\ sendItem.obj = o
    BY <1>1, <2>5 DEF Located
  <2>6. CASE \/ \E k \in Indices(rx, o) : p = <<"rx", Null, k>>
             \/ \E k \in inSend : p = <<"serverSend", Null, k>>
             \/ \E k \in Indices(receQueue, o) : p = <<"receQueue", Null, k>>
             \/ \E k \in Indices(tx, o) : p = <<"tx", Null, k>>
    BY <1>3, <2>6
  <2> QED BY <2>1, <2>2, <2>3, <2>4, <2>5, <2>6
<1>6. \A p, r \in Places(o) : p = r
  <2> SUFFICES ASSUME NEW p \in Places(o), NEW r \in Places(o) PROVE p = r
    OBVIOUS
  <2>1. CASE where[o] = "rx"
    BY <1>4, <1>5, <2>1
  <2>2. CASE where[o] = "serverSend"
    BY <1>4, <1>5, <2>2
  <2>3. CASE where[o] = "cmdQueue"
    BY <1>4, <1>5, <2>3
  <2>4. CASE where[o] = "receQueue"
    BY <1>4, <1>5, <2>4
  <2>5. CASE where[o] = "tx"
    BY <1>4, <1>5, <2>5
  <2>6. CASE where[o] \in {"AudioSend", "compTask", "sender"}
    BY <1>5, <2>6
  <2> QED BY <1>5, <2>1, <2>2, <2>3, <2>4, <2>5, <2>6
<1>7. Cardinality(Places(o)) <= 1
  <2>1. CASE Places(o) = {}
    BY <2>1, FS_EmptySet
  <2>2. CASE Places(o) # {}
    <3>1. PICK p \in Places(o) : TRUE
      BY <2>2
    <3>2. Places(o) = {p}
      BY <1>6, <3>1
    <3>3. Cardinality({p}) = 1
      BY FS_Singleton
    <3> QED BY <3>2, <3>3
  <2> QED BY <2>1, <2>2
<1>8. Places(o) # {} <=> where[o] # "nowhere"
  <2>1. ASSUME Places(o) # {} PROVE where[o] # "nowhere"
    BY <1>5, <2>1
  <2>2. ASSUME where[o] # "nowhere" PROVE Places(o) # {}
    <3>1. CASE where[o] = "rx"
      <4>1. PICK k \in Indices(rx, o) : TRUE
        BY <1>3, <3>1
      <4>2. <<"rx", Null, k>> \in Places(o)
        BY <4>1 DEF Places
      <4> QED BY <4>2
    <3>2. CASE where[o] = "serverSend"
      <4>1. PICK k \in inSend : TRUE
        BY <1>3, <3>2
      <4>2. <<"serverSend", Null, k>> \in Places(o)
        BY <4>1 DEF Places
      <4> QED BY <4>2
    <3>3. CASE where[o] = "AudioSend"
      <4>1. <<"AudioSend", Null, 0>> \in Places(o)
        BY <1>1, <3>3 DEF Places, Located
      <4> QED BY <4>1
    <3>4. CASE where[o] = "cmdQueue"
      <4>1. with[o] \in Id /\ Indices(cmdQueue[with[o]], o) # {}
        BY <1>1, <1>3, <3>4 DEF Located
      <4>2. PICK k \in Indices(cmdQueue[with[o]], o) : TRUE
        BY <4>1
      <4>3. <<"cmdQueue", with[o], k>> \in Places(o)
        BY <4>1, <4>2 DEF Places
      <4> QED BY <4>3
    <3>5. CASE where[o] = "compTask"
      <4>1. /\ with[o] \in Id /\ compItem[with[o]] = o
            /\ compPc[with[o]] \in {"execute", "reply"}
        BY <1>1, <3>5 DEF Located
      <4>2. <<"compTask", with[o], 0>> \in Places(o)
        BY <4>1 DEF Places
      <4> QED BY <4>2
    <3>6. CASE where[o] = "receQueue"
      <4>1. PICK k \in Indices(receQueue, o) : TRUE
        BY <1>3, <3>6
      <4>2. <<"receQueue", Null, k>> \in Places(o)
        BY <4>1 DEF Places
      <4> QED BY <4>2
    <3>7. CASE where[o] = "sender"
      <4>1. <<"sender", "AudioRece", 0>> \in Places(o)
        BY <1>1, <3>7 DEF Places, Located, Sender
      <4> QED BY <4>1
    <3>8. CASE where[o] = "tx"
      <4>1. PICK k \in Indices(tx, o) : TRUE
        BY <1>3, <3>8
      <4>2. <<"tx", Null, k>> \in Places(o)
        BY <4>1 DEF Places
      <4> QED BY <4>2
    <3>9. where[o] \in Where
      BY <1>1
    <3> QED BY <2>2, <3>1, <3>2, <3>3, <3>4, <3>5, <3>6, <3>7, <3>8, <3>9
            DEF Where
  <2> QED BY <2>1, <2>2
<1> QED BY <1>1, <1>7, <1>8 DEF Awaited

-----------------------------------------------------------------------------
(* With queues as long as there are clients (a client has one object, and   *)
(* waits for its answer) the two results the server ignores never matter:   *)
(* until a command has failed no command is lost on its way through         *)
(* ServerSendQueue, cmdQueue and ServerReceQueue or answered twice, whatever*)
(* components the clients share.                                            *)
THEOREM AccountingAlways ==
    ASSUME Long PROVE Spec => []Accounting
<1>1. Init => PackageInv /\ AccountInv
  BY WordsInInit, HandledInit, SentInit, AccountInit DEF PackageInv
<1>2. PackageInv /\ AccountInv /\ [Next]_vars => (PackageInv /\ AccountInv)'
  BY WordsInStep, HandledStep, SentStep, AccountStep DEF PackageInv
<1>3. PackageInv /\ AccountInv => Accounting
  BY AccountImplies
<1> QED BY <1>1, <1>2, <1>3, PTL DEF Spec

-----------------------------------------------------------------------------
(* Components. *)

(* A client asks the component it has, and with Exclusive has it alone.    *)
Sessions ==
    /\ \A o \in waiting : request[o].mode = "independence" =>
          request[o].id \in Id /\ session[o] = request[o].id
    /\ Exclusive => \A o, p \in Object :
          session[o] # Null /\ session[o] = session[p] => o = p

Own(o, i) ==
    /\ request[o].mode = "independence"
    /\ request[o].id = i
    /\ Exclusive => native[i] = request[o].cmd

(* A command on its way to its component finds its parameters there.       *)
Copied ==
    /\ native \in [Id -> AllCmds]
    /\ sendPc \in {"dispatch", "wait", "blocked", "pass"} =>
          sendComp \in Id /\ Own(sendItem.obj, sendComp)
    /\ \A i \in Id :
          /\ \A o \in Object : In(cmdQueue[i], o) => Own(o, i)
          /\ compPc[i] = "execute" => Own(compItem[i], i)

(* Where object o is on its way to its component.                          *)
Received(o) == In(rx, o) \/ InItems(serverSend, o)
AtSend(o) == sendPc # "receive" /\ sendItem.obj = o
AtComp(o, i) == compPc[i] \in {"execute", "reply"} /\ compItem[i] = o

(* A component that a client has has a task, or AudioSend will make it.    *)
HasTask(o) ==
    \/ compPc[session[o]] # "none"
    \/ /\ o \in waiting /\ request[o].cmd = "create"
       /\ \/ Received(o)
          \/ /\ sendPc \in {"process", "no_memory", "dispatch", "wait",
                            "blocked"}
             /\ sendItem.obj = o

(* A task sets its bit itself, and was made after its queue, unless there  *)
(* was no memory for that queue.                                           *)
MadeTasks ==
    \A i \in Id :
        /\ i \in eventSet => compPc[i] # "none"
        /\ compPc[i] # "none" => i \in queues \/ "nomem" \in Faults

(* AudioSend passes a command to a component that has a task.              *)
AtTask ==
    /\ sendPc = "pass" => compPc[sendComp] # "none"
    /\ sendPc = "halted" => sendComp \in Id /\ QueueMissing(sendComp)

(* ... and its algorithms, from the time it is created to its removal.     *)
HasAlgorithms(o) ==
    \/ session[o] \in live
    \/ o \in waiting /\ request[o].cmd = "remove"
    \/ /\ o \in waiting /\ request[o].cmd = "create"
       /\ \/ Received(o) \/ AtSend(o) \/ In(cmdQueue[session[o]], o)
          \/ compPc[session[o]] = "execute" /\ compItem[session[o]] = o

Tasks ==
    /\ \A o \in Object : session[o] # Null => HasTask(o)
    /\ MadeTasks
    /\ AtTask

Algorithms ==
    Exclusive => \A o \in Object : session[o] # Null => HasAlgorithms(o)

Kept == Sessions /\ Copied /\ Tasks /\ Algorithms

ComponentInv == ~failed => Kept

-----------------------------------------------------------------------------
(* An object on its way is waited for, and is in no other place. *)
LEMMA Apart ==
    ASSUME Placed, NEW o \in Object, NEW i \in Id
    PROVE  /\ Received(o) => o \in waiting /\ ~In(tx, o)
           /\ AtSend(o) => /\ o \in waiting /\ ~In(tx, o)
                           /\ ~In(cmdQueue[i], o) /\ ~AtComp(o, i)
           /\ In(cmdQueue[i], o) => o \in waiting /\ ~In(tx, o)
           /\ AtComp(o, i) => o \in waiting /\ ~In(tx, o)
<1>1. PICK where \in [Object -> Where],
           with \in [Object -> Id \cup {Null}] :
           Located(where, with) /\ Awaited(where)
  BY DEF Placed, OnePlace
<1>2. /\ In(tx, o) => where[o] = "tx"
      /\ Received(o) => where[o] \in {"rx", "serverSend"}
      /\ AtSend(o) => where[o] = "AudioSend"
      /\ In(cmdQueue[i], o) => where[o] = "cmdQueue"
      /\ AtComp(o, i) => where[o] = "compTask"
  BY <1>1 DEF Located, Received, AtSend, AtComp
<1> QED BY <1>1, <1>2 DEF Awaited

(* AudioSend has an object, and it is in the hands of nobody else. *)
LEMMA Sends ==
    ASSUME PackageInv, sendPc # "receive"
    PROVE  sendItem.obj \in Object /\ AtSend(sendItem.obj)
BY DEF PackageInv, Handled, Item, AtSend

(* No task is made, and AudioSend does not come to pass a command. *)
LEMMA StaysMade ==
    ASSUME MadeTasks, AtTask, UNCHANGED <<eventSet, queues, sendComp>>,
           \/ sendPc' = sendPc /\ (sendPc = "pass" => sendComp \in Id)
           \/ sendPc' \notin {"pass", "halted"},
           \A i \in Id : compPc'[i] # "none" <=> compPc[i] # "none"
    PROVE  MadeTasks' /\ AtTask'
<1>1. MadeTasks'
  BY DEF MadeTasks
<1>2. AtTask'
  BY DEF AtTask, QueueMissing
<1> QED BY <1>1, <1>2

LEMMA Same ==
    ASSUME Kept,
           UNCHANGED <<request, waiting, session, native, live, serverSend,
                       sendPc, sendItem, sendComp, eventSet, queues, cmdQueue,
                       compPc, compItem>>,
           \A o \in Object : In(rx', o) <=> In(rx, o)
    PROVE  Kept'
<1>1. Sessions' /\ Copied'
  BY DEF Kept, Sessions, Copied, Own
<1>2. Tasks'
  BY DEF Kept, Tasks, HasTask, Received, MadeTasks, AtTask,
         QueueMissing
<1>3. Algorithms'
  BY DEF Kept, Algorithms, HasAlgorithms, Received, AtSend
<1> QED BY <1>1, <1>2, <1>3 DEF Kept

LEMMA KeptSubmit ==
    ASSUME PackageInv, Asked, Placed, Kept, NEW o \in Object, Submit(o)
    PROVE  Kept'
<1>1. PICK r \in Requests(o) :
           /\ request' = [request EXCEPT ![o] = r]
           /\ rx' = rx \o <<r.val, o>>
           /\ session' = [session EXCEPT
                            ![o] = IF r.cmd = "create" THEN r.id ELSE @]
  BY DEF Submit
<1>2. /\ request'[o] = r /\ \A p \in Object \ {o} : request'[p] = request[p]
      /\ session'[o] = IF r.cmd = "create" THEN r.id ELSE session[o]
      /\ \A p \in Object \ {o} : session'[p] = session[p]
  BY <1>1 DEF Asked
<1>3. o \notin waiting /\ waiting' = waiting \cup {o}
  BY DEF Submit
<1>4. UNCHANGED <<native, live, serverSend, sendPc, sendItem, sendComp,
                  eventSet, queues, cmdQueue, compPc, compItem>>
  BY DEF Submit, callback, sendTask, sending, lookup, creation, compTasks,
         components
<1>5. \A p \in Object : In(rx', p) <=> In(rx, p) \/ p = o
  <2>1. r.val \in MsgVal
    BY DEF Requests, Plain, Command, MsgVal
  <2>2. r.val \in Word /\ o \in Word /\ r.val \notin Object
    BY <2>1, ObjectAssumption DEF Word
  <2>3. rx \in Seq(Word)
    BY DEF PackageInv, WordsIn
  <2>4. rx' = Append(Append(rx, r.val), o)
    <3>1. \A w \in Seq(Word), x \in Word, y \in Word :
             w \o <<x, y>> = Append(Append(w, x), y)
      OBVIOUS
    <3> QED BY <1>1, <2>2, <2>3, <3>1
  <2> DEFINE one == Append(rx, r.val)
  <2>5. one \in Seq(Word) /\ \A y : In(one, y) <=> In(rx, y) \/ y = r.val
    BY <2>2, <2>3, Behind, InAppend
  <2>6. rx' = Append(one, o)
    BY <2>4
  <2> HIDE DEF one
  <2>7. \A y : In(rx', y) <=> In(one, y) \/ y = o
    BY <2>2, <2>5, <2>6, InAppend
  <2> QED BY <2>2, <2>5, <2>7
(* What is asked of a component: to be created, or the one it has. *)
<1>6. /\ r.mode = "independence" =>
            \/ r.cmd = "create" /\ r.id \in FreeIds
            \/ r.cmd # "create" /\ session[o] # Null /\ r.id = session[o]
      /\ r.mode # "independence" => r.cmd # "create"
  BY DEF Requests, Plain, Command, Mode, AllCmds
<1>7. FreeIds \subseteq Id /\ Null \notin Id /\ session[o] \in Id \cup {Null}
  BY IdAssumption DEF FreeIds, Asked
<1>8. Sessions'
  <2>1. ASSUME NEW p \in waiting', request'[p].mode = "independence"
        PROVE  request'[p].id \in Id /\ session'[p] = request'[p].id
    <3>1. CASE p = o
      BY <1>2, <1>6, <1>7, <2>1, <3>1
    <3>2. CASE p # o
      BY <1>2, <1>3, <2>1, <3>2 DEF Kept, Sessions, Asked
    <3> QED BY <3>1, <3>2
  <2>2. ASSUME Exclusive, NEW p \in Object, NEW q \in Object,
               session'[p] # Null, session'[p] = session'[q]
        PROVE  p = q
    <3>1. r.cmd = "create" =>
              r.id \in Id /\ \A x \in Object : session[x] # r.id
      BY <1>6, <2>2 DEF FreeIds
    <3> QED BY <1>2, <2>2, <3>1 DEF Kept, Sessions
  <2> QED BY <2>1, <2>2 DEF Sessions
<1>9. /\ sendPc # "receive" => sendItem.obj \in Object \ {o}
      /\ \A i \in Id : ~In(cmdQueue[i], o)
      /\ \A i \in Id : compPc[i] = "execute" => compItem[i] \in Object \ {o}
  <2>1. sendPc # "receive" => sendItem.obj \in Object
    BY Sends
  <2>2. \A i \in Id : compPc[i] = "execute" => compItem[i] \in Object
    BY DEF PackageInv, Handled
  <2> QED BY <1>3, <2>1, <2>2, NobodyWaits DEF Placed
<1>10. Copied'
  <2>1. \A p \in Object \ {o}, i \in Id : Own(p, i)' <=> Own(p, i)
    BY <1>2, <1>4 DEF Own
  <2>2. sendPc' \in {"dispatch", "wait", "blocked", "pass"} =>
          sendComp' \in Id /\ Own(sendItem.obj, sendComp)'
    BY <1>4, <1>9, <2>1 DEF Kept, Copied, Own
  <2>3. ASSUME NEW i \in Id
        PROVE  /\ \A p \in Object : In(cmdQueue'[i], p) => Own(p, i)'
               /\ compPc'[i] = "execute" => Own(compItem[i], i)'
    <3>1. \A p \in Object : In(cmdQueue[i], p) => p \in Object \ {o}
      BY <1>9
    <3> QED BY <1>4, <1>9, <2>1, <3>1 DEF Kept, Copied
  <2> QED BY <1>4, <2>2, <2>3 DEF Kept, Copied
<1>11. Tasks'
  <2>1. ASSUME NEW p \in Object, session'[p] # Null PROVE HasTask(p)'
    <3>1. CASE p = o
      BY <1>2, <1>3, <1>4, <1>5, <2>1, <3>1
         DEF Kept, Tasks, HasTask, Received
    <3>2. CASE p # o
      BY <1>2, <1>3, <1>4, <1>5, <2>1, <3>2
         DEF Kept, Tasks, HasTask, Received
    <3> QED BY <3>1, <3>2
  <2>2. MadeTasks' /\ AtTask'
    BY <1>4 DEF Kept, Tasks, MadeTasks, AtTask, QueueMissing
  <2> QED BY <2>1, <2>2 DEF Tasks
<1>12. Algorithms'
  <2>1. ASSUME Exclusive, NEW p \in Object, session'[p] # Null
        PROVE  HasAlgorithms(p)'
    <3>1. CASE p = o
      BY <1>2, <1>3, <1>4, <1>5, <2>1, <3>1
         DEF Kept, Algorithms, HasAlgorithms, Received
    <3>2. CASE p # o
      BY <1>2, <1>3, <1>4, <1>5, <2>1, <3>2
         DEF Kept, Algorithms, HasAlgorithms, Received, AtSend
    <3> QED BY <3>1, <3>2
  <2> QED BY <2>1 DEF Algorithms
<1> QED BY <1>8, <1>10, <1>11, <1>12 DEF Kept

LEMMA KeptTaken ==
    ASSUME PackageInv, Asked, Placed, Kept, TakeSecondWord
    PROVE  Kept'
<1> PICK answered \in SUBSET waiting :
        /\ answered \subseteq {Head(tx)} /\ tx # <<>>
        /\ waiting' = waiting \ answered
        /\ session' = [o \in Object |->
                         IF o \in answered /\ request[o].cmd = "remove"
                         THEN Null ELSE session[o]]
  <2> DEFINE got == IF cpuVal = "component" THEN {Head(tx)} \cap waiting
                                            ELSE {}
  <2>1. got \in SUBSET waiting /\ got \subseteq {Head(tx)}
    OBVIOUS
  <2>2. /\ tx # <<>> /\ waiting' = waiting \ got
        /\ session' = [o \in Object |->
                         IF o \in got /\ request[o].cmd = "remove"
                         THEN Null ELSE session[o]]
    BY DEF TakeSecondWord
  <2> HIDE DEF got
  <2> QED BY <2>1, <2>2
<1>1. UNCHANGED <<request, native, live, rx, serverSend, sendPc, sendItem,
                  sendComp, eventSet, queues, cmdQueue, compPc, compItem>>
  BY DEF TakeSecondWord, callback, sendTask, sending, lookup, creation,
         compTasks, components
<1>2. \A o \in answered : In(tx, o)
  <2>1. tx \in Seq(Answer)
    BY DEF PackageInv, Sent
  <2>2. Len(tx) \in Nat \ {0} /\ Head(tx) = tx[1]
    BY <2>1, Off
  <2>3. 1 \in 1 .. Len(tx)
    BY <2>2
  <2> QED BY <2>2, <2>3 DEF In
<1>3. \A o \in Object : session'[o] # Null =>
          /\ session'[o] = session[o]
          /\ o \in answered => request[o].cmd # "remove"
  OBVIOUS
<1>4. Sessions'
  <2>1. \A o \in waiting' : o \in Object /\ o \in waiting /\ o \notin answered
    BY DEF Asked
  <2>2. \A o \in waiting' : session'[o] = session[o]
    BY <2>1
  <2> QED BY <1>1, <1>3, <2>1, <2>2 DEF Kept, Sessions
<1>5. Copied'
  BY <1>1 DEF Kept, Copied, Own
<1>6. Tasks'
  <2>1. ASSUME NEW o \in Object, session'[o] # Null PROVE HasTask(o)'
    <3>1. session'[o] = session[o] /\ HasTask(o) /\ session[o] \in Id
      BY <1>3, <2>1 DEF Kept, Tasks, Asked
    <3>2. Received(o) \/ AtSend(o) => o \notin answered
      BY <1>2, <3>1, Apart
    <3> QED BY <1>1, <3>1, <3>2 DEF HasTask, Received, AtSend
  <2>2. MadeTasks' /\ AtTask'
    BY <1>1 DEF Kept, Tasks, MadeTasks, AtTask, QueueMissing
  <2> QED BY <2>1, <2>2 DEF Tasks
<1>7. Algorithms'
  <2>1. ASSUME Exclusive, NEW o \in Object, session'[o] # Null
        PROVE  HasAlgorithms(o)'
    <3>1. /\ session'[o] = session[o] /\ HasAlgorithms(o) /\ session[o] \in Id
          /\ o \in answered => request[o].cmd # "remove"
      BY <1>3, <2>1 DEF Kept, Algorithms, Asked
    <3>2. Received(o) \/ AtSend(o) \/ In(cmdQueue[session[o]], o)
             \/ AtComp(o, session[o]) => o \notin answered
      BY <1>2, <3>1, Apart
    <3> QED BY <1>1, <3>1, <3>2 DEF HasAlgorithms, Received, AtSend, AtComp
  <2> QED BY <2>1 DEF Algorithms
<1> QED BY <1>4, <1>5, <1>6, <1>7 DEF Kept

-----------------------------------------------------------------------------
(* The callback: an object stays received. *)
LEMMA KeptCallback ==
    ASSUME Long, PackageInv, Asked, Placed, Kept, Callback
    PROVE  Kept'
<1>1. /\ rx \in Seq(Word) /\ rx # <<>> /\ rx' = Tail(rx) /\ Once(rx)
      /\ serverSend \in Seq(Item) /\ OnceItems(serverSend)
  BY DEF PackageInv, WordsIn, Handled, Callback, ReceiveFirstWord,
         ReceiveSecondWord, Placed, NoneTwice
<1>2. UNCHANGED <<request, waiting, session, native, live, sendPc, sendItem,
                  sendComp, eventSet, queues, cmdQueue, compPc, compItem>>
  BY DEF Callback, ReceiveFirstWord, ReceiveSecondWord, client, sendTask,
         sending, lookup, creation, compTasks, components
<1>3. \A p \in Object : Received(p)' <=> Received(p)
  <2>1. CASE ReceiveFirstWord
    <3>1. serverSend' = serverSend /\ rxVal = Null
      BY <2>1 DEF ReceiveFirstWord
    <3>2. Head(rx) \in MsgVal
      BY <1>1, <3>1, ReadAlternates DEF PackageInv, WordsIn
    <3>3. Head(rx) \notin Object
      BY <3>2, ObjectAssumption
    <3>4. \A p \in Object : In(rx', p) <=> In(rx, p)
      BY <1>1, <3>3, InTail
    <3> QED BY <3>1, <3>4 DEF Received
  <2>2. CASE ReceiveSecondWord
    <3>1. rxVal # Null /\ rxVal \in MsgVal
      BY <2>2 DEF ReceiveSecondWord, PackageInv, WordsIn
    <3>2. Head(rx) \in Word /\ Head(rx) \notin MsgVal
      BY <1>1, <3>1, Off, ReadAlternates DEF PackageInv, WordsIn
    <3>3. PICK o \in Object : o = Head(rx)
      BY <3>2 DEF Word
    <3>4. In(rx, o)
      <4>1. Len(rx) \in Nat \ {0} /\ o = rx[1]
        BY <1>1, <3>3, Off
      <4>2. 1 \in 1 .. Len(rx)
        BY <4>1
      <4> QED BY <4>1, <4>2 DEF In
    <3>5. ~InItems(serverSend, o)
      BY <3>4 DEF Placed, OnePlace, Located
    <3>6. Len(serverSend) < QueueLen
      BY <1>1, <3>5, ItemRoom, BoundAssumption DEF Long
    <3> DEFINE item == [val |-> rxVal, obj |-> o]
    <3>7. item \in Item /\ item.obj = o
      BY <3>1 DEF Item
    <3>8. serverSend' = Append(serverSend, item)
      BY <2>2, <3>3, <3>6 DEF ReceiveSecondWord, Pushed
    <3> HIDE DEF item
    <3>9. \A p : InItems(serverSend', p) <=> InItems(serverSend, p) \/ p = o
      BY <1>1, <3>7, <3>8, ItemAppend
    <3>10. \A p \in Object : In(rx', p) <=> In(rx, p) /\ p # o
      BY <1>1, <3>3, InTail
    <3> QED BY <3>4, <3>9, <3>10 DEF Received
  <2> QED BY <2>1, <2>2 DEF Callback
<1>4. Sessions' /\ Copied'
  BY <1>2 DEF Kept, Sessions, Copied, Own
<1>5. Tasks'
  <2>1. \A o \in Object : session'[o] # Null => HasTask(o)'
    BY <1>2, <1>3 DEF Kept, Tasks, HasTask
  <2>2. MadeTasks' /\ AtTask'
    BY <1>2 DEF Kept, Tasks, MadeTasks, AtTask, QueueMissing
  <2> QED BY <2>1, <2>2 DEF Tasks
<1>6. Algorithms'
  BY <1>2, <1>3 DEF Kept, Algorithms, HasAlgorithms, AtSend
<1> QED BY <1>4, <1>5, <1>6 DEF Kept

LEMMA KeptSendReceive ==
    ASSUME PackageInv, Asked, Placed, Kept, SendReceive
    PROVE  Kept'
<1>1. serverSend # <<>> /\ serverSend \in Seq(Item) /\ OnceItems(serverSend)
  BY DEF SendReceive, PackageInv, Handled, Placed, NoneTwice
<1> PICK item \in Item : item = Head(serverSend)
  BY <1>1, Off
<1> PICK o \in Object : o = item.obj
  BY DEF Item
<1>2. /\ serverSend' = Tail(serverSend) /\ sendPc = "receive"
      /\ sendItem'.obj = o
      /\ sendPc' = IF item.val = "component" THEN "process" ELSE "receive"
  BY DEF SendReceive, SendAt
<1>3. UNCHANGED <<request, waiting, session, native, live, rx, sendComp,
                  eventSet, queues, cmdQueue, compPc, compItem>>
  BY DEF SendReceive, client, lookup, creation, compTasks, components
<1>4. \A p : InItems(serverSend', p) <=> InItems(serverSend, p) /\ p # o
  BY <1>1, <1>2, ItemTail
<1>5. item.val = request[o].val
  <2>1. Len(serverSend) \in Nat \ {0} /\ item = serverSend[1]
    BY <1>1, Off
  <2>2. 1 \in 1 .. Len(serverSend)
    BY <2>1
  <2> QED BY <2>1, <2>2 DEF Placed, ValuesKept
<1>6. request[o].cmd = "create" => sendPc' = "process"
  BY <1>2, <1>5 DEF Asked
<1>7. Sessions' /\ Copied'
  <2>1. sendPc' \notin {"dispatch", "wait", "blocked", "pass"}
    BY <1>2
  <2>2. \A p \in Object, i \in Id : Own(p, i)' <=> Own(p, i)
    BY <1>3 DEF Own
  <2>3. \A i \in Id : Own(compItem[i], i)' <=> Own(compItem[i], i)
    BY <1>3 DEF Own
  <2>4. Copied'
    BY <1>3, <2>1, <2>2, <2>3 DEF Kept, Copied
  <2>5. Sessions'
    BY <1>3 DEF Kept, Sessions
  <2> QED BY <2>4, <2>5
<1>8. \A p \in Object : Received(p) /\ request[p].cmd = "create" =>
          Received(p)' \/ (sendPc' = "process" /\ sendItem'.obj = p)
  BY <1>2, <1>3, <1>4, <1>6 DEF Received
<1>9. Tasks'
  <2>1. \A p \in Object : session'[p] # Null => HasTask(p)'
    BY <1>2, <1>3, <1>8 DEF Kept, Tasks, HasTask
  <2>2. MadeTasks' /\ AtTask'
    BY <1>2, <1>3, StaysMade DEF Kept, Tasks
  <2> QED BY <2>1, <2>2 DEF Tasks
<1>10. Algorithms'
  BY <1>2, <1>3, <1>8 DEF Kept, Algorithms, HasAlgorithms, AtSend
<1> QED BY <1>7, <1>9, <1>10 DEF Kept

(* AudioSend copies the parameters: nobody else uses those of the client's *)
(* own component.                                                          *)
LEMMA KeptLookup ==
    ASSUME PackageInv, Asked, Placed, Kept, Lookup
    PROVE  Kept'
<1>1. PICK o \in Object : o = sendItem.obj /\ sendPc = "process" /\ AtSend(o)
  <2>1. sendPc = "process"
    BY DEF Lookup, SendAt
  <2> QED BY <2>1, Sends
<1>2. o \in waiting
  <2>1. PICK where \in [Object -> Where],
             with \in [Object -> Id \cup {Null}] :
             Located(where, with) /\ Awaited(where)
    BY DEF Placed, OnePlace
  <2>2. where[o] = "AudioSend"
    BY <1>1, <2>1 DEF Located, AtSend
  <2> QED BY <2>1, <2>2 DEF Awaited
<1>3. PICK i \in Id : /\ request[o].id = i /\ session[o] = i
                      /\ request[o].mode = "independence"
  BY <1>1, <1>2 DEF Lookup, Current, Kept, Sessions
<1>4. /\ native' = [native EXCEPT ![i] = request[o].cmd]
      /\ sendComp' = i /\ sendPc' = "dispatch" /\ sendItem' = sendItem
  BY <1>1, <1>3 DEF Lookup, Current, sending
<1>5. UNCHANGED <<request, waiting, session, live, rx, serverSend,
                  eventSet, queues, cmdQueue, compPc, compItem>>
  BY DEF Lookup, client, callback, creation, compTasks, components
<1>6. /\ native' \in [Id -> AllCmds] /\ native'[i] = request[o].cmd
      /\ \A j \in Id \ {i} : native'[j] = native[j]
  BY <1>4 DEF Kept, Copied, Asked, Request
<1>7. Sessions'
  BY <1>5 DEF Kept, Sessions
<1>8. Copied'
  <2>1. Own(o, i)'
    BY <1>3, <1>5, <1>6 DEF Own
  <2>2. ASSUME NEW j \in Id, NEW p \in Object, Own(p, j),
               In(cmdQueue[j], p) \/ AtComp(p, j)
        PROVE  Own(p, j)'
    <3>1. p # o /\ p \in waiting
      BY <1>1, <2>2, Apart
    <3>2. ASSUME Exclusive PROVE j # i
      <4>1. session[p] = j
        BY <2>2, <3>1 DEF Own, Kept, Sessions
      <4>2. i # Null
        BY IdAssumption
      <4> QED BY <1>3, <3>1, <3>2, <4>1, <4>2 DEF Kept, Sessions
    <3> QED BY <1>5, <1>6, <2>2, <3>2 DEF Own
  <2>3. ASSUME NEW j \in Id, compPc[j] = "execute"
        PROVE  Own(compItem[j], j)'
    <3>1. compItem[j] \in Object /\ AtComp(compItem[j], j)
      BY <2>3 DEF PackageInv, Handled, AtComp
    <3> QED BY <1>5, <2>2, <2>3, <3>1 DEF Kept, Copied
  <2>4. ASSUME NEW j \in Id, NEW p \in Object, In(cmdQueue[j], p)
        PROVE  Own(p, j)'
    BY <2>2, <2>4 DEF Kept, Copied
  <2> QED BY <1>1, <1>4, <1>5, <1>6, <2>1, <2>3, <2>4 DEF Copied
<1>9. Tasks'
  <2>1. \A p \in Object : session'[p] # Null => HasTask(p)'
    BY <1>1, <1>4, <1>5 DEF Kept, Tasks, HasTask, Received
  <2>2. MadeTasks' /\ AtTask'
    BY <1>4, <1>5 DEF Kept, Tasks, MadeTasks, AtTask
  <2> QED BY <2>1, <2>2 DEF Tasks
<1>10. Algorithms'
  BY <1>1, <1>4, <1>5 DEF Kept, Algorithms, HasAlgorithms, Received, AtSend
<1> QED BY <1>7, <1>8, <1>9, <1>10 DEF Kept

(* AudioSend has done with an object that is not to be created. *)
LEMMA KeptDone ==
    ASSUME PackageInv, Kept, sendPc # "receive",
           request[sendItem.obj].cmd # "create",
           UNCHANGED <<request, waiting, session, native, live, rx, serverSend,
                       eventSet, queues, cmdQueue, compPc, compItem>>,
           sendPc' = "receive"
    PROVE  Kept'
<1>1. Sessions' /\ Copied'
  BY DEF Kept, Sessions, Copied, Own
<1>2. Tasks'
  <2>1. \A p \in Object : session'[p] # Null => HasTask(p)'
    BY DEF Kept, Tasks, HasTask, Received
  <2>2. MadeTasks' /\ AtTask'
    BY DEF Kept, Tasks, MadeTasks, AtTask
  <2> QED BY <2>1, <2>2 DEF Tasks
<1>3. Algorithms'
  BY DEF Kept, Algorithms, HasAlgorithms, Received, AtSend
<1> QED BY <1>1, <1>2, <1>3 DEF Kept

(* AudioSend goes on with an object whose component has a task. *)
LEMMA KeptGoesOn ==
    ASSUME PackageInv, Asked, Placed, Kept,
           UNCHANGED <<request, waiting, session, native, live, rx, serverSend,
                       sendItem, sendComp, cmdQueue, compItem>>,
           \A i \in Id : /\ compPc[i] # "none" => compPc'[i] # "none"
                         /\ compPc'[i] = "execute" <=> compPc[i] = "execute",
           sendPc \in {"dispatch", "wait", "blocked", "pass"},
           sendPc' \in {"wait", "blocked", "pass", "halted"},
           sendPc' \in {"wait", "blocked"} \/ compPc'[sendComp] # "none",
           MadeTasks', AtTask'
    PROVE  Kept'
<1>1. Sessions' /\ Copied'
  BY DEF Kept, Sessions, Copied, Own
<1>2. Tasks'
  <2>1. ASSUME NEW o \in Object, session[o] # Null PROVE HasTask(o)'
    <3>1. session[o] \in Id /\ HasTask(o)
      BY <2>1 DEF Asked, Kept, Tasks
    <3>2. sendItem.obj = o /\ o \in waiting => session[o] = sendComp
      BY DEF Kept, Sessions, Copied, Own
    <3> QED BY <3>1, <3>2 DEF HasTask, Received
  <2> QED BY <2>1 DEF Tasks
<1>3. Algorithms'
  <2>1. ASSUME Exclusive, NEW o \in Object, session[o] # Null
        PROVE  HasAlgorithms(o)'
    <3>1. session[o] \in Id /\ HasAlgorithms(o)
      BY <2>1 DEF Asked, Kept, Algorithms
    <3>2. /\ compPc'[session[o]] = "execute" <=> compPc[session[o]] = "execute"
          /\ AtSend(o) => AtSend(o)'
      BY <3>1 DEF AtSend
    <3> QED BY <3>1, <3>2 DEF HasAlgorithms, Received
  <2> QED BY <2>1 DEF Algorithms
<1> QED BY <1>1, <1>2, <1>3 DEF Kept

LEMMA KeptCreateTask ==
    ASSUME PackageInv, Asked, Placed, Kept, NEW i \in Id, CreateTask(i)
    PROVE  Kept'
<1>1. /\ compPc \in [Id -> {"none", "start", "receive", "execute", "reply", "halted"}]
      /\ compPc' \in {compPc, [compPc EXCEPT ![i] = "start"]}
      /\ compPc[i] = "none"
      /\ "nomem" \in Faults \/ i \in queues'
      /\ eventSet' = eventSet /\ \A j \in Id \ {i} : j \in queues' <=> j \in queues
  BY DEF CreateTask, MemoryFor, PackageInv, Handled
<1>2. /\ \A j \in Id : /\ compPc[j] # "none" => compPc'[j] # "none"
                       /\ compPc'[j] = "execute" <=> compPc[j] = "execute"
      /\ \A j \in Id \ {i} : compPc'[j] = compPc[j]
  BY <1>1
<1>3. sendPc = "dispatch" /\ sendPc' = "wait" /\ sendComp = i
  BY DEF CreateTask, SendAt
<1>4. UNCHANGED <<request, waiting, session, native, live, rx, serverSend,
                  sendItem, sendComp, cmdQueue, compItem>>
  BY DEF CreateTask, client, callback, sending, lookup, components
<1>5. MadeTasks' /\ AtTask'
  BY <1>1, <1>2, <1>3 DEF Kept, Tasks, MadeTasks, AtTask
<1> QED BY <1>2, <1>3, <1>4, <1>5, KeptGoesOn

LEMMA KeptWaitTask ==
    ASSUME PackageInv, Asked, Placed, Kept, NEW i \in Id, WaitTask(i)
    PROVE  Kept'
<1>1. /\ sendPc = "wait" /\ sendPc' \in {"blocked", "pass"} /\ sendComp = i
      /\ UNCHANGED <<request, waiting, session, native, live, rx, serverSend,
                     sendItem, sendComp, queues, cmdQueue, compPc, compItem>>
      /\ eventSet' \in {eventSet, eventSet \ {i}}
  BY DEF WaitTask, SendAt, client, callback, sending, lookup, compTasks,
         components
<1>2. sendPc' = "pass" => compPc[i] # "none"
  BY DEF WaitTask, Kept, Tasks, MadeTasks
<1>3. MadeTasks' /\ AtTask'
  BY <1>1, <1>2 DEF Kept, Tasks, MadeTasks, AtTask
<1> QED BY <1>1, <1>2, <1>3, KeptGoesOn

LEMMA KeptDispatch ==
    ASSUME PackageInv, Asked, Placed, Kept, Dispatch
    PROVE  Kept'
<1>1. PICK o \in Object : o = sendItem.obj /\ AtSend(o)
  BY Sends DEF Dispatch, SendAt
<1>2. /\ sendPc = "dispatch"
      /\ request[o].cmd # "create" \/ compPc[sendComp] # "none"
      /\ sendPc' = IF request[o].cmd = "unknown" THEN "receive" ELSE "pass"
  BY <1>1 DEF Dispatch, SendAt, Current
<1>3. UNCHANGED <<request, waiting, session, native, live, rx, serverSend,
                  sendItem, sendComp, eventSet, queues, cmdQueue, compPc,
                  compItem>>
  BY DEF Dispatch, client, callback, sending, lookup, creation, compTasks,
         components
<1>4. CASE request[o].cmd = "unknown"
  BY <1>1, <1>2, <1>3, <1>4, KeptDone
<1>5. CASE request[o].cmd # "unknown"
  <2>1. sendComp \in Id /\ Own(o, sendComp)
    BY <1>1, <1>2 DEF Kept, Copied
  <2>2. o \in waiting
    BY <1>1, <2>1, Apart
  <2>3. session[o] = sendComp /\ session[o] # Null
    BY <2>1, <2>2, IdAssumption DEF Own, Kept, Sessions
  <2>4. compPc[sendComp] # "none"
    BY <1>2, <2>3 DEF Kept, Tasks, HasTask
  <2>5. MadeTasks' /\ AtTask'
    BY <1>2, <1>3, <1>5, <2>4 DEF Kept, Tasks, MadeTasks, AtTask
  <2> QED BY <1>2, <1>3, <1>5, <2>4, <2>5, KeptGoesOn
<1> QED BY <1>4, <1>5

(* The command goes to a queue that exists, and has room, unless there was *)
(* no memory for that queue.                                               *)
LEMMA KeptPass ==
    ASSUME Long, PackageInv, Asked, Placed, Kept, NEW i \in Id, Pass(i)
    PROVE  Kept'
<1>1. PICK o \in Object : o = sendItem.obj /\ AtSend(o)
  BY Sends DEF Pass, SendAt
<1>2. sendPc = "pass" /\ sendComp = i /\ compPc[i] # "none" /\ Own(o, i)
  <2>1. sendPc = "pass" /\ sendComp = i
    BY DEF Pass, SendAt
  <2> QED BY <1>1, <2>1 DEF Kept, Tasks, AtTask, Copied
<1>3. UNCHANGED <<request, waiting, session, native, live, rx, serverSend,
                  sendItem, sendComp, eventSet, queues, compPc, compItem>>
  BY DEF Pass, client, callback, sending, lookup, creation, compTasks,
         components
<1>0. CASE i \notin queues
  <2>1. sendPc' = "halted" /\ cmdQueue' = cmdQueue
    BY <1>0 DEF Pass
  <2>2. "nomem" \in Faults
    BY <1>0, <1>2 DEF Kept, Tasks, MadeTasks
  <2>3. MadeTasks' /\ AtTask'
    BY <1>0, <1>2, <1>3, <2>1, <2>2
       DEF Kept, Tasks, MadeTasks, AtTask, QueueMissing
  <2> QED BY <1>2, <1>3, <2>1, <2>3, KeptGoesOn
<1> SUFFICES ASSUME i \in queues PROVE Kept'
  BY <1>0
<1>4. o \in waiting /\ ~In(cmdQueue[i], o)
  BY <1>1, Apart
<1>5. /\ cmdQueue[i] \in Seq(Object) /\ Once(cmdQueue[i])
      /\ CmdQueueLen \in Nat /\ cmdQueue \in [Id -> Seq(Object)]
  BY BoundAssumption DEF PackageInv, Handled, Placed, NoneTwice
<1>6. Len(cmdQueue[i]) < CmdQueueLen
  BY <1>4, <1>5, Room DEF Long
<1>7. /\ sendPc' = "receive"
      /\ cmdQueue' = [cmdQueue EXCEPT ![i] = Append(cmdQueue[i], o)]
  BY <1>1, <1>2, <1>6 DEF Pass, Pushed
<1> DEFINE longer == Append(cmdQueue[i], o)
<1>8. /\ cmdQueue'[i] = longer
      /\ \A j \in Id \ {i} : cmdQueue'[j] = cmdQueue[j]
  BY <1>5, <1>7
<1>9. \A p : In(longer, p) <=> In(cmdQueue[i], p) \/ p = o
  BY <1>5, InAppend
<1> HIDE DEF longer
<1>10. \A j \in Id, p \in Object :
          In(cmdQueue'[j], p) <=> In(cmdQueue[j], p) \/ (j = i /\ p = o)
  BY <1>8, <1>9
<1>11. Sessions'
  BY <1>3 DEF Kept, Sessions
<1>12. Copied'
  <2>1. \A p : \A j \in Id : Own(p, j)' <=> Own(p, j)
    BY <1>3 DEF Own
  <2>2. \A j \in Id, p \in Object : In(cmdQueue'[j], p) => Own(p, j)'
    BY <1>2, <1>10, <2>1 DEF Kept, Copied
  <2>3. \A j \in Id : compPc'[j] = "execute" => Own(compItem[j], j)'
    BY <1>3, <2>1 DEF Kept, Copied
  <2> QED BY <1>3, <1>7, <2>2, <2>3 DEF Kept, Copied
<1>13. Tasks'
  <2>1. \A p \in Object : session'[p] # Null => HasTask(p)'
    BY <1>2, <1>3, <1>7 DEF Kept, Tasks, HasTask, Received
  <2>2. MadeTasks' /\ AtTask'
    BY <1>3, <1>7 DEF Kept, Tasks, MadeTasks, AtTask
  <2> QED BY <2>1, <2>2 DEF Tasks
<1>14. Algorithms'
  <2>1. ASSUME Exclusive, NEW p \in Object, session[p] # Null
        PROVE  HasAlgorithms(p)'
    <3>1. session[p] \in Id /\ HasAlgorithms(p)
      BY <2>1 DEF Asked, Kept, Algorithms
    <3>2. AtSend(p) => In(cmdQueue'[session[p]], p)
      <4>1. AtSend(p) => p = o
        BY <1>1 DEF AtSend
      <4>2. session[o] = i
        BY <1>2, <1>4 DEF Own, Kept, Sessions
      <4> QED BY <1>10, <4>1, <4>2
    <3> QED BY <1>3, <1>10, <3>1, <3>2 DEF HasAlgorithms, Received
  <2> QED BY <1>3, <2>1 DEF Algorithms
<1> QED BY <1>11, <1>12, <1>13, <1>14 DEF Kept

LEMMA KeptSend ==
    ASSUME Long, PackageInv, Asked, Placed, Kept, AudioSend, ~failed'
    PROVE  Kept'
<1>1. CASE SendReceive
  BY <1>1, KeptSendReceive
<1>2. CASE Lookup
  BY <1>2, KeptLookup
<1>3. CASE LookupFails
  <2>1. /\ sendPc = "process" /\ sendPc' = "no_memory"
        /\ UNCHANGED <<request, waiting, session, native, live, rx,
                       serverSend, sendItem, sendComp, eventSet, queues,
                       cmdQueue, compPc, compItem>>
    BY <1>3 DEF LookupFails, SendAt, client, callback, sending, lookup,
                creation, compTasks, components
  <2>2. Sessions' /\ Copied'
    BY <2>1 DEF Kept, Sessions, Copied, Own
  <2>3. Tasks'
    <3>1. \A p \in Object : session'[p] # Null => HasTask(p)'
      BY <2>1 DEF Kept, Tasks, HasTask, Received
    <3>2. MadeTasks' /\ AtTask'
      BY <2>1 DEF Kept, Tasks, MadeTasks, AtTask
    <3> QED BY <3>1, <3>2 DEF Tasks
  <2>4. Algorithms'
    BY <2>1 DEF Kept, Algorithms, HasAlgorithms, Received, AtSend
  <2> QED BY <2>2, <2>3, <2>4 DEF Kept
<1>4. CASE NoMemory
  BY <1>4 DEF NoMemory, Fail
<1>5. CASE Dispatch
  BY <1>5, KeptDispatch
<1>6. CASE ProcessOther \/ ProcessNothing
  <2>1. sendPc = "process" /\ Current.mode # "independence"
    BY <1>6 DEF ProcessOther, ProcessNothing, SendAt
  <2>2. sendItem.obj \in Object
    BY <2>1, Sends
  <2>3. Current.cmd # "create"
    BY <2>1, <2>2 DEF Asked, Current
  <2>4. /\ sendPc' = "receive"
        /\ UNCHANGED <<request, waiting, session, native, live, rx,
                       serverSend, eventSet, queues, cmdQueue, compPc,
                       compItem>>
    BY <1>6 DEF ProcessOther, ProcessNothing, Fail, client, callback, lookup,
                creation, compTasks, components
  <2> QED BY <2>1, <2>3, <2>4, KeptDone DEF Current
<1>7. ASSUME NEW i \in Id, CreateTask(i) PROVE Kept'
  BY <1>7, KeptCreateTask
<1>8. ASSUME NEW i \in Id, WaitTask(i) PROVE Kept'
  BY <1>8, KeptWaitTask
<1>9. ASSUME NEW i \in Id, Pass(i) PROVE Kept'
  BY <1>9, KeptPass
<1> QED BY <1>1, <1>2, <1>3, <1>4, <1>5, <1>6, <1>7, <1>8, <1>9 DEF AudioSend

-----------------------------------------------------------------------------
(* The task of a component performs what it has received. *)
LEMMA KeptReceive ==
    ASSUME PackageInv, Asked, Placed, Kept, NEW i \in Id, CompReceive(i)
    PROVE  Kept'
<1>1. /\ compPc \in [Id -> {"none", "start", "receive", "execute", "reply", "halted"}]
      /\ cmdQueue \in [Id -> Seq(Object)] /\ cmdQueue[i] # <<>>
      /\ compItem \in [Id -> Object \cup {Null}] /\ Once(cmdQueue[i])
      /\ compPc[i] = "receive"
  BY DEF CompReceive, PackageInv, Handled, Placed, NoneTwice
<1>2. PICK o \in Object : o = Head(cmdQueue[i]) /\ In(cmdQueue[i], o)
  <2>1. /\ Len(cmdQueue[i]) \in Nat \ {0}
        /\ Head(cmdQueue[i]) \in Object /\ Head(cmdQueue[i]) = cmdQueue[i][1]
    BY <1>1, Off
  <2>2. 1 \in 1 .. Len(cmdQueue[i])
    BY <2>1
  <2> QED BY <2>1, <2>2 DEF In
<1> DEFINE rest == Tail(cmdQueue[i])
<1>3. /\ cmdQueue'[i] = rest
      /\ \A j \in Id \ {i} : cmdQueue'[j] = cmdQueue[j]
      /\ compItem'[i] = o /\ compPc'[i] = "execute"
      /\ \A j \in Id \ {i} : /\ compItem'[j] = compItem[j]
                             /\ compPc'[j] = compPc[j]
  BY <1>1, <1>2 DEF CompReceive
<1>4. \A p \in Object : In(rest, p) <=> In(cmdQueue[i], p) /\ p # o
  BY <1>1, <1>2, InTail
<1> HIDE DEF rest
<1>5. UNCHANGED <<request, waiting, session, native, live, rx, serverSend,
                  sendPc, sendItem, sendComp, eventSet, queues>>
  BY DEF CompReceive, client, callback, sendTask, sending, lookup, creation,
         components
<1>6. Sessions'
  BY <1>5 DEF Kept, Sessions
<1>7. Copied'
  <2>1. \A p : \A j \in Id : Own(p, j)' <=> Own(p, j)
    BY <1>5 DEF Own
  <2>2. \A j \in Id, p \in Object : In(cmdQueue'[j], p) => Own(p, j)'
    BY <1>3, <1>4, <2>1 DEF Kept, Copied
  <2>3. ASSUME NEW j \in Id, compPc'[j] = "execute"
        PROVE  Own(compItem[j], j)'
    <3>1. CASE j = i
      <4>1. Own(o, i)
        BY <1>2 DEF Kept, Copied
      <4> QED BY <1>3, <1>5, <3>1, <4>1 DEF Own
    <3>2. CASE j # i
      <4>1. Own(compItem[j], j)
        BY <1>3, <2>3, <3>2 DEF Kept, Copied
      <4> QED BY <1>3, <1>5, <3>2, <4>1 DEF Own
    <3> QED BY <3>1, <3>2
  <2>4. sendPc' \in {"dispatch", "wait", "blocked", "pass"} =>
          sendComp' \in Id /\ Own(sendItem.obj, sendComp)'
    BY <1>5 DEF Kept, Copied, Own
  <2> QED BY <1>5, <2>2, <2>3, <2>4 DEF Kept, Copied
<1>8. Tasks'
  <2>1. ASSUME NEW p \in Object, session[p] # Null PROVE HasTask(p)'
    <3>1. session[p] \in Id /\ HasTask(p)
      BY <2>1 DEF Asked, Kept, Tasks
    <3> QED BY <1>3, <1>5, <3>1 DEF HasTask, Received
  <2>2. \A j \in Id : compPc'[j] # "none" <=> compPc[j] # "none"
    BY <1>1, <1>3
  <2>3. sendPc = "pass" => sendComp \in Id
    BY DEF Kept, Copied
  <2>4. MadeTasks' /\ AtTask'
    BY <1>5, <2>2, <2>3, StaysMade DEF Kept, Tasks
  <2> QED BY <1>5, <2>1, <2>4 DEF Tasks
<1>9. Algorithms'
  <2>1. ASSUME Exclusive, NEW p \in Object, session[p] # Null
        PROVE  HasAlgorithms(p)'
    <3>1. session[p] \in Id /\ HasAlgorithms(p)
      BY <2>1 DEF Asked, Kept, Algorithms
    <3>2. In(cmdQueue[session[p]], p) =>
             \/ In(cmdQueue'[session[p]], p)
             \/ /\ compPc'[session[p]] = "execute"
                /\ compItem'[session[p]] = p
      BY <1>3, <1>4, <3>1
    <3>3. compPc[session[p]] = "execute" /\ compItem[session[p]] = p =>
             compPc'[session[p]] = "execute" /\ compItem'[session[p]] = p
      BY <1>1, <1>3, <3>1
    <3> QED BY <1>5, <3>1, <3>2, <3>3 DEF HasAlgorithms, Received, AtSend
  <2> QED BY <1>5, <2>1 DEF Algorithms
<1> QED BY <1>6, <1>7, <1>8, <1>9 DEF Kept

LEMMA KeptExecute ==
    ASSUME PackageInv, Asked, Placed, Kept, NEW i \in Id, CompExecute(i)
    PROVE  Kept'
<1>1. /\ compPc \in [Id -> {"none", "start", "receive", "execute", "reply", "halted"}]
      /\ compPc[i] = "execute" /\ compPc' = [compPc EXCEPT ![i] = "reply"]
      /\ compItem[i] \in Object
  BY DEF CompExecute, PackageInv, Handled
<1>2. /\ compPc'[i] = "reply" /\ \A j \in Id \ {i} : compPc'[j] = compPc[j]
      /\ AtComp(compItem[i], i) /\ Own(compItem[i], i)
  BY <1>1 DEF AtComp, Kept, Copied
<1>3. UNCHANGED <<request, waiting, session, native, rx, serverSend, sendPc,
                  sendItem, sendComp, eventSet, queues, cmdQueue, compItem>>
  BY DEF CompExecute, client, callback, sendTask, sending, lookup, creation
<1>4. /\ native[i] = "create" => live' = live \cup {i}
      /\ native[i] = "remove" => live' = live \ {i}
      /\ native[i] \notin {"create", "remove"} => live' = live
  BY DEF CompExecute
<1>5. Sessions'
  BY <1>3 DEF Kept, Sessions
<1>6. Copied'
  BY <1>2, <1>3 DEF Kept, Copied, Own
<1>7. Tasks'
  <2>1. ASSUME NEW p \in Object, session[p] # Null PROVE HasTask(p)'
    <3>1. session[p] \in Id /\ HasTask(p)
      BY <2>1 DEF Asked, Kept, Tasks
    <3> QED BY <1>2, <1>3, <3>1 DEF HasTask, Received
  <2>2. \A j \in Id : compPc'[j] # "none" <=> compPc[j] # "none"
    BY <1>1, <1>2
  <2>3. sendPc = "pass" => sendComp \in Id
    BY DEF Kept, Copied
  <2>4. MadeTasks' /\ AtTask'
    BY <1>3, <2>2, <2>3, StaysMade DEF Kept, Tasks
  <2> QED BY <1>3, <2>1, <2>4 DEF Tasks
<1>8. Algorithms'
  <2>1. ASSUME Exclusive, NEW p \in Object, session[p] # Null
        PROVE  HasAlgorithms(p)'
    <3>1. session[p] \in Id /\ HasAlgorithms(p)
      BY <2>1 DEF Asked, Kept, Algorithms
    <3>2. CASE session[p] = i
      <4>1. compItem[i] \in waiting
        BY <1>1, <1>2, Apart
      <4>2. session[compItem[i]] = i
        BY <1>2, <4>1 DEF Own, Kept, Sessions
      <4>3. compItem[i] = p /\ native[i] = request[p].cmd
        BY <1>1, <1>2, <2>1, <3>2, <4>2 DEF Own, Kept, Sessions
      <4>4. CASE native[i] = "create"
        BY <1>3, <1>4, <3>2, <4>4 DEF HasAlgorithms
      <4>5. CASE native[i] = "remove"
        BY <1>3, <4>1, <4>3, <4>5 DEF HasAlgorithms
      <4>6. CASE native[i] \notin {"create", "remove"}
        BY <1>3, <1>4, <3>1, <3>2, <4>3, <4>6 DEF HasAlgorithms
      <4> QED BY <4>4, <4>5, <4>6
    <3>3. CASE session[p] # i
      <4>1. session[p] \in live' <=> session[p] \in live
        BY <1>4, <3>3
      <4> QED BY <1>2, <1>3, <3>1, <3>3, <4>1
              DEF HasAlgorithms, Received, AtSend
    <3> QED BY <3>2, <3>3
  <2> QED BY <1>3, <2>1 DEF Algorithms
<1> QED BY <1>5, <1>6, <1>7, <1>8 DEF Kept

(* The task of a component starts, or answers. *)
LEMMA KeptStartReply ==
    ASSUME PackageInv, Asked, Placed, Kept, NEW i \in Id,
           CompStart(i) \/ CompReply(i)
    PROVE  Kept'
<1>1. /\ compPc \in [Id -> {"none", "start", "receive", "execute", "reply", "halted"}]
      /\ compPc[i] \in {"start", "reply"}
      /\ compPc' = [compPc EXCEPT ![i] = IF compPc[i] = "start" /\ i \notin queues
                                         THEN "halted" ELSE "receive"]
  BY DEF CompStart, CompReply, PackageInv, Handled
<1>2. compPc'[i] \in {"receive", "halted"} /\ \A j \in Id \ {i} : compPc'[j] = compPc[j]
  BY <1>1
<1>3. /\ UNCHANGED <<request, waiting, session, native, live, rx, serverSend,
                     sendItem, sendComp, queues, cmdQueue, compItem>>
      /\ \/ sendPc' = sendPc
         \/ sendPc = "blocked" /\ sendPc' = "pass" /\ sendComp = i
      /\ eventSet' \in {eventSet, eventSet \cup {i}}
  BY DEF CompStart, CompReply, client, callback, sendTask, sending, lookup,
         creation, components
<1>4. Sessions'
  BY <1>3 DEF Kept, Sessions
<1>5. Copied'
  BY <1>1, <1>2, <1>3 DEF Kept, Copied, Own
<1>6. Tasks'
  <2>1. ASSUME NEW p \in Object, session[p] # Null PROVE HasTask(p)'
    <3>1. session[p] \in Id /\ HasTask(p)
      BY <2>1 DEF Asked, Kept, Tasks
    <3>2. compPc'[session[p]] # "none" <=> compPc[session[p]] # "none"
      BY <1>1, <1>2, <3>1
    <3>3. CASE compPc[session[p]] # "none"
      BY <1>3, <3>2, <3>3 DEF HasTask
    <3>4. CASE compPc[session[p]] = "none"
      <4>1. p \in waiting /\ sendItem.obj = p => session[p] = sendComp \/ sendPc # "blocked"
        BY DEF Kept, Sessions, Copied, Own
      <4>2. compPc[i] # "none"
        BY <1>1
      <4> QED BY <1>3, <3>1, <3>2, <3>4, <4>1, <4>2 DEF HasTask, Received
    <3> QED BY <3>3, <3>4
  <2>2. \A j \in Id : compPc'[j] # "none" <=> compPc[j] # "none"
    BY <1>1, <1>2
  <2>3. MadeTasks'
    BY <1>2, <1>3, <2>2 DEF Kept, Tasks, MadeTasks
  <2>4. AtTask'
    <3>1. sendPc = "pass" => sendComp \in Id
      BY DEF Kept, Copied
    <3> QED BY <1>2, <1>3, <2>2, <3>1 DEF Kept, Tasks, AtTask, QueueMissing
  <2> QED BY <1>3, <2>1, <2>3, <2>4 DEF Tasks
<1>7. Algorithms'
  <2>1. ASSUME Exclusive, NEW p \in Object, session[p] # Null
        PROVE  HasAlgorithms(p)'
    <3>1. session[p] \in Id /\ HasAlgorithms(p)
      BY <2>1 DEF Asked, Kept, Algorithms
    <3>2. compPc'[session[p]] = "execute" <=> compPc[session[p]] = "execute"
      BY <1>1, <1>2, <3>1
    <3> QED BY <1>3, <3>1, <3>2 DEF HasAlgorithms, Received, AtSend
  <2> QED BY <1>3, <2>1 DEF Algorithms
<1> QED BY <1>4, <1>5, <1>6, <1>7 DEF Kept

LEMMA ComponentInit == Init => ComponentInv
<1> SUFFICES ASSUME Init PROVE Kept
  BY DEF ComponentInv
<1>1. Sessions
  <2>1. waiting = {} /\ \A o \in Object : session[o] = Null
    BY DEF Init
  <2> QED BY <2>1 DEF Sessions
<1>2. Copied
  <2>1. \A i \in Id : cmdQueue[i] = <<>> /\ compPc[i] = "none"
    BY DEF Init
  <2>2. \A i \in Id : Len(cmdQueue[i]) = 0
    BY <2>1
  <2>3. \A i \in Id, o \in Object : ~In(cmdQueue[i], o)
    BY <2>2 DEF In
  <2>4. native \in [Id -> AllCmds] /\ sendPc = "receive"
    BY DEF Init, AllCmds
  <2> QED BY <2>1, <2>3, <2>4 DEF Copied
<1>3. Tasks /\ Algorithms
  <2>1. /\ sendPc = "receive" /\ eventSet = {}
        /\ \A o \in Object : session[o] = Null
        /\ \A i \in Id : compPc[i] = "none"
    BY DEF Init
  <2> QED BY <2>1 DEF Tasks, Algorithms, MadeTasks, AtTask
<1> QED BY <1>1, <1>2, <1>3 DEF Kept

LEMMA ComponentStep ==
    ASSUME Long, PackageInv, AccountInv, ComponentInv, [Next]_vars
    PROVE  ComponentInv'
<1> SUFFICES ASSUME ~failed' PROVE Kept'
  BY DEF ComponentInv
<1>1. Asked
  BY DEF AccountInv
<1>2. ~failed /\ Placed /\ Kept
  BY <1>1, FailedStays DEF AccountInv, Placed, ComponentInv
<1>3. CASE TakeFirstWord
  <2>1. UNCHANGED <<request, waiting, session, native, live, rx, serverSend,
                    sendPc, sendItem, sendComp, eventSet, queues, cmdQueue,
                    compPc, compItem>>
    BY <1>3 DEF TakeFirstWord, callback, sendTask, sending, lookup, creation,
                compTasks, components
  <2> QED BY <1>2, <2>1, Same
<1>4. CASE ReceTask \/ \E s \in Sender : Sending(s)
  <2>1. UNCHANGED <<request, waiting, session, native, live, rx, serverSend,
                    sendPc, sendItem, sendComp, eventSet, queues, cmdQueue,
                    compPc, compItem>>
    BY <1>4 DEF ReceTask, Sending, SendWait, SendWrite, client, callback,
                sendTask, sending, lookup, creation, compTasks, components
  <2> QED BY <1>2, <2>1, Same
<1>5. CASE UNCHANGED vars
  <2>1. UNCHANGED <<request, waiting, session, native, live, rx, serverSend,
                    sendPc, sendItem, sendComp, eventSet, queues, cmdQueue,
                    compPc, compItem>>
    BY <1>5 DEF vars, client, callback, sendTask, sending, lookup, creation,
                compTasks, components
  <2> QED BY <1>2, <2>1, Same
<1>6. ASSUME NEW i \in Id, CompTask(i) PROVE Kept'
  BY <1>1, <1>2, <1>6, KeptReceive, KeptExecute, KeptStartReply DEF CompTask
<1> QED BY <1>1, <1>2, <1>3, <1>4, <1>5, <1>6, KeptSubmit, KeptTaken,
           KeptCallback, KeptSend DEF Next, TakeWord

-----------------------------------------------------------------------------
(* What the properties say of a state. *)
LEMMA ComponentImplies ==
    ASSUME PackageInv, AccountInv, ComponentInv
    PROVE  RunsItsCommand /\ ComponentReady
<1> SUFFICES ASSUME ~failed
             PROVE  /\ sendPc = "halted" => QueueMissing(sendComp)
                    /\ Exclusive => \A i \in Id :
                          compPc[i] = "execute" =>
                             /\ native[i] = request[compItem[i]].cmd
                             /\ native[i] = "write" => i \in live
  BY DEF RunsItsCommand, ComponentReady
<1>1. Placed /\ Kept
  BY DEF AccountInv, Placed, ComponentInv
<1>2. ASSUME Exclusive, NEW i \in Id, compPc[i] = "execute"
      PROVE  /\ native[i] = request[compItem[i]].cmd
             /\ native[i] = "write" => i \in live
  <2>1. PICK o \in Object : o = compItem[i]
    BY <1>2 DEF PackageInv, Handled
  <2>2. Own(o, i) /\ AtComp(o, i)
    BY <1>1, <1>2, <2>1 DEF Kept, Copied, AtComp
  <2>3. o \in waiting
    BY <1>1, <2>2, Apart
  <2>4. session[o] = i /\ i # Null
    BY <1>1, <2>2, <2>3, IdAssumption DEF Own, Kept, Sessions
  <2>5. HasAlgorithms(o)
    BY <1>1, <1>2, <2>4 DEF Kept, Algorithms
  <2> QED BY <1>2, <2>1, <2>2, <2>4, <2>5 DEF Own, HasAlgorithms
<1> QED BY <1>1, <1>2 DEF Kept, Tasks, AtTask

(* With queues as long as there are clients, and clients that keep to       *)
(* components of their own (Exclusive), the task of a component performs    *)
(* the command of the object it has received (pxAudioCompTask switches on   *)
(* parameters AudioSend copied), until a command has failed.                *)
THEOREM RunsItsCommandAlways ==
    ASSUME Long PROVE Spec => []RunsItsCommand
<1> DEFINE Inv == PackageInv /\ AccountInv /\ ComponentInv
<1>1. Init => Inv
  BY WordsInInit, HandledInit, SentInit, AccountInit, ComponentInit
     DEF PackageInv
<1>2. Inv /\ [Next]_vars => Inv'
  BY WordsInStep, HandledStep, SentStep, AccountStep, ComponentStep
     DEF PackageInv
<1>3. Inv => RunsItsCommand
  BY ComponentImplies
<1> QED BY <1>1, <1>2, <1>3, PTL DEF Spec

(* Until a command has failed AudioSend passes a command only to a          *)
(* component whose task has been made, shared or not, and to a queue that   *)
(* exists unless there was no memory for it when that task was made; and a  *)
(* component that is not shared processes data only while it has its        *)
(* algorithms.                                                              *)
THEOREM ComponentReadyAlways ==
    ASSUME Long PROVE Spec => []ComponentReady
<1> DEFINE Inv == PackageInv /\ AccountInv /\ ComponentInv
<1>1. Init => Inv
  BY WordsInInit, HandledInit, SentInit, AccountInit, ComponentInit
     DEF PackageInv
<1>2. Inv /\ [Next]_vars => Inv'
  BY WordsInStep, HandledStep, SentStep, AccountStep, ComponentStep
     DEF PackageInv
<1>3. Inv => ComponentReady
  BY ComponentImplies
<1> QED BY <1>1, <1>2, <1>3, PTL DEF Spec

-----------------------------------------------------------------------------
(* The service.  Where nothing fails, the server performs and answers.     *)

(* No client asks for what is refused, and memory does not run out.        *)
NoFailure == Faults \cap {"nomem", "unsupported"} = {}

Unfailed ==
    /\ ~failed /\ sendPc # "no_memory"
    /\ \A o \in Object : request[o].mode \notin {"algo_missing", "stream"}

LEMMA UnfailedInit == Init => Unfailed
<1> SUFFICES ASSUME Init PROVE Unfailed
  OBVIOUS
<1>1. \A o \in Object : request[o] = [val |-> "component",
            mode |-> "independence", cmd |-> "unknown", id |-> Null]
  BY DEF Init
<1> QED BY <1>1 DEF Init, Unfailed

LEMMA UnfailedStep ==
    ASSUME NoFailure, PackageInv, Asked, Unfailed, [Next]_vars
    PROVE  Unfailed'
<1> USE DEF failures
<1>1. ASSUME NEW o \in Object, Submit(o) PROVE Unfailed'
  <2>1. PICK r \in Requests(o) : request' = [request EXCEPT ![o] = r]
    BY <1>1 DEF Submit
  <2>2. r.mode \notin {"algo_missing", "stream"}
    BY DEF Requests, NoFailure, Plain, Command
  <2>3. \A p \in Object : request'[p] = IF p = o THEN r ELSE request[p]
    BY <2>1 DEF Asked
  <2>4. sendPc' = sendPc /\ failed' = failed
    BY <1>1 DEF Submit, sendTask
  <2> QED BY <2>2, <2>3, <2>4 DEF Unfailed
<1>2. CASE UNCHANGED <<request, sendPc, failed>>
  BY <1>2 DEF Unfailed
<1>3. CASE TakeWord \/ Callback
  BY <1>2, <1>3 DEF TakeWord, TakeFirstWord, TakeSecondWord, Callback,
                    ReceiveFirstWord, ReceiveSecondWord, client, sendTask
<1>4. CASE AudioSend
  <2>1. ~LookupFails /\ ~NoMemory
    BY DEF LookupFails, NoMemory, NoFailure, Unfailed, SendAt
  <2>2. CASE ProcessOther
    <3>1. sendItem.obj \in Object
      BY <2>2 DEF ProcessOther, SendAt, PackageInv, Handled, Item
    <3>2. Current.mode = "algo"
      BY <2>2, <3>1 DEF ProcessOther, Current, Unfailed
    <3> QED BY <2>2, <3>2 DEF ProcessOther, client, Unfailed
  <2> QED BY <1>4, <2>1, <2>2 DEF AudioSend, SendReceive, Lookup, Dispatch,
             ProcessNothing, CreateTask, WaitTask, Pass, client, Unfailed
<1>5. CASE \E i \in Id : CompTask(i)
  BY <1>5 DEF CompTask, CompStart, CompReceive, CompExecute, CompReply,
              client, sendTask, Unfailed
<1>6. CASE ReceTask \/ \E s \in Sender : Sending(s)
  BY <1>2, <1>6 DEF ReceTask, Sending, SendWait, SendWrite, client, sendTask
<1>7. CASE UNCHANGED vars
  BY <1>2, <1>7 DEF vars, client, sendTask
<1> QED BY <1>1, <1>3, <1>4, <1>5, <1>6, <1>7 DEF Next

(* The status of each command, as the service sees it. *)
Status == [o \in Object |-> IF o \notin waiting THEN "idle"
                            ELSE IF Performed(o) THEN "done"
                            ELSE "asked"]

(* What the component of an object has performed; what AudioRece sends.    *)
Replying(o) == \E i \in Id : compPc[i] = "reply" /\ compItem[i] = o
Leaving(o) == sendingPc["AudioRece"] # "idle" /\ sendingObj["AudioRece"] = o

(* A performed command is on its way out. *)
Out(o) == Replying(o) \/ In(receQueue, o) \/ Leaving(o) \/ In(tx, o)

LEMMA PerformedOut ==
    ASSUME OneSender, ~failed, NEW o PROVE Performed(o) <=> Out(o)
BY DEF OneSender, Performed, Out, Replying, Leaving, In, Sender

LEMMA PerformedOutNext ==
    ASSUME OneSender', ~failed', NEW o PROVE Performed(o)' <=> Out(o)'
BY DEF OneSender, Performed, Out, Replying, Leaving, In, Sender

(* A step that performs nothing, and one that moves one command on.        *)
LEMMA Stutters ==
    ASSUME waiting' = waiting,
           \A p \in Object : p \in waiting => (Performed(p)' <=> Performed(p))
    PROVE  UNCHANGED Status
<1> SUFFICES ASSUME NEW p \in Object
             PROVE  Status'[p] = Status[p]
  BY DEF Status
<1>1. /\ Status[p] = IF p \notin waiting THEN "idle"
                     ELSE IF Performed(p) THEN "done" ELSE "asked"
      /\ Status'[p] = IF p \notin waiting' THEN "idle"
                      ELSE IF Performed(p)' THEN "done" ELSE "asked"
  BY DEF Status
<1> HIDE DEF Status
<1> QED BY <1>1

LEMMA Moves ==
    ASSUME NEW o \in Object, NEW from, NEW to,
           Status[o] = from, Status'[o] = to,
           \A p \in Object \ {o} :
              /\ p \in waiting' <=> p \in waiting
              /\ p \in waiting => (Performed(p)' <=> Performed(p))
    PROVE  Status' = [Status EXCEPT ![o] = to] /\ Promise!Move(o, from, to)
<1>1. \A p \in Object \ {o} : Status'[p] = Status[p]
  <2> SUFFICES ASSUME NEW p \in Object \ {o} PROVE Status'[p] = Status[p]
    OBVIOUS
  <2>1. /\ Status[p] = IF p \notin waiting THEN "idle"
                       ELSE IF Performed(p) THEN "done" ELSE "asked"
        /\ Status'[p] = IF p \notin waiting' THEN "idle"
                        ELSE IF Performed(p)' THEN "done" ELSE "asked"
    BY DEF Status
  <2> HIDE DEF Status
  <2> QED BY <2>1
<1>2. /\ Status = [p \in Object |-> Status[p]]
      /\ Status' = [p \in Object |-> Status'[p]]
  BY DEF Status
<1> HIDE DEF Status
<1>3. Status' = [Status EXCEPT ![o] = to]
  BY <1>1, <1>2
<1> QED BY <1>3 DEF Promise!Move, Status

(* What holds when no command fails. *)
Served == PackageInv /\ Asked /\ Placed /\ Unfailed

LEMMA Quiet ==
    ASSUME Served, Served', waiting' = waiting,
           \A p \in Object : Out(p)' <=> Out(p)
    PROVE  UNCHANGED Status
<1>1. ASSUME NEW p \in Object PROVE Performed(p)' <=> Performed(p)
  <2>1. Performed(p) <=> Out(p)
    BY PerformedOut DEF Served, PackageInv, Unfailed
  <2>2. Performed(p)' <=> Out(p)'
    BY PerformedOutNext DEF Served, PackageInv, Unfailed
  <2> QED BY <2>1, <2>2
<1> QED BY <1>1, Stutters

(* An object that the server performs is asked for, and becomes done.      *)
LEMMA PerformsOne ==
    ASSUME Served, Served', NEW o \in Object, o \in waiting, ~Out(o), Out(o)',
           waiting' = waiting,
           \A p \in Object \ {o} : Out(p)' <=> Out(p)
    PROVE  Promise!Next
<1>1. ASSUME NEW p \in Object
      PROVE  (Performed(p) <=> Out(p)) /\ (Performed(p)' <=> Out(p)')
  <2>1. Performed(p) <=> Out(p)
    BY PerformedOut DEF Served, PackageInv, Unfailed
  <2>2. Performed(p)' <=> Out(p)'
    BY PerformedOutNext DEF Served, PackageInv, Unfailed
  <2> QED BY <2>1, <2>2
<1>2. Status[o] = "asked" /\ Status'[o] = "done"
  BY <1>1 DEF Status
<1>3. \A p \in Object \ {o} : /\ p \in waiting' <=> p \in waiting
                              /\ p \in waiting => (Performed(p)' <=> Performed(p))
  BY <1>1
<1>4. Promise!Move(o, "asked", "done")
  BY <1>2, <1>3, Moves
<1> QED BY <1>4 DEF Promise!Next, Promise!Perform

LEMMA ServeSubmit ==
    ASSUME Served, Served', NEW o \in Object, Submit(o)
    PROVE  Promise!Next
<1>1. /\ waiting' = waiting \cup {o} /\ o \notin waiting
      /\ UNCHANGED <<compPc, compItem, receQueue, sendingPc, sendingObj, tx>>
  BY DEF Submit, compTasks, senders
<1>2. ~Out(o)
  BY <1>1 DEF Served, Placed, OnePlace, Located, Awaited, Out, Replying,
              Leaving
<1>3. \A p : Out(p)' <=> Out(p)
  BY <1>1 DEF Out, Replying, Leaving
<1>4. ASSUME NEW p \in Object
      PROVE  (Performed(p) <=> Out(p)) /\ (Performed(p)' <=> Out(p)')
  <2>1. Performed(p) <=> Out(p)
    BY PerformedOut DEF Served, PackageInv, Unfailed
  <2>2. Performed(p)' <=> Out(p)'
    BY PerformedOutNext DEF Served, PackageInv, Unfailed
  <2> QED BY <2>1, <2>2
<1>5. Status[o] = "idle" /\ Status'[o] = "asked"
  BY <1>1, <1>2, <1>3, <1>4 DEF Status
<1>6. \A p \in Object \ {o} : /\ p \in waiting' <=> p \in waiting
                              /\ p \in waiting => (Performed(p)' <=> Performed(p))
  BY <1>1, <1>3, <1>4
<1>7. Promise!Move(o, "idle", "asked")
  BY <1>5, <1>6, Moves
<1> QED BY <1>7 DEF Promise!Next, Promise!Ask

LEMMA ServeTaken ==
    ASSUME Served, Served', TakeWord
    PROVE  Promise!Next \/ UNCHANGED Status
<1>1. UNCHANGED <<compPc, compItem, receQueue, sendingPc, sendingObj>>
  BY DEF TakeWord, TakeFirstWord, TakeSecondWord, compTasks, senders
<1>2. tx \in Seq(Answer) /\ tx # <<>> /\ tx' = Tail(tx) /\ Once(tx)
  BY DEF TakeWord, TakeFirstWord, TakeSecondWord, Served, PackageInv, Sent,
         Placed, NoneTwice
<1>3. /\ \A p \in Object : In(tx', p) <=> In(tx, p) /\ p # Head(tx)
      /\ Head(tx) \in Answer /\ In(tx, Head(tx))
  <2>1. 1 \in 1 .. Len(tx) /\ Head(tx) = tx[1]
    BY <1>2, Off
  <2> QED BY <1>2, <2>1, Off, InTail DEF In
<1>4. Head(tx) = "component" <=> cpuVal = Null
  <2>1. Alternate(tx, {"component"}, cpuVal = Null)
    BY Whole DEF Served, PackageInv, Unfailed
  <2> QED BY <1>2, <2>1, ReadAlternates
<1>5. CASE TakeFirstWord
  <2>1. Head(tx) \notin Object /\ waiting' = waiting
    BY <1>4, <1>5, ObjectAssumption DEF TakeFirstWord, MsgVal
  <2>2. \A p \in Object : Out(p)' <=> Out(p)
    BY <1>1, <1>3, <2>1 DEF Out, Replying, Leaving
  <2> QED BY <2>1, <2>2, Quiet
<1>6. CASE TakeSecondWord
  <2>1. /\ waiting' = waiting \ (IF cpuVal = "component"
                                 THEN {Head(tx)} \cap waiting ELSE {})
        /\ cpuVal # Null
    BY <1>6 DEF TakeSecondWord
  <2>2. PICK o \in Object : o = Head(tx)
    BY <1>3, <1>4, <2>1 DEF Answer
  <2>3. o \in waiting
    BY <1>3, <2>2 DEF Served, Placed, OnePlace, Located, Awaited
  <2>4. waiting' = waiting \ {o}
    BY <2>1, <2>2, <2>3 DEF Served, PackageInv, OneSender, Unfailed
  <2>5. ASSUME NEW p \in Object
        PROVE  (Performed(p) <=> Out(p)) /\ (Performed(p)' <=> Out(p)')
    <3>1. Performed(p) <=> Out(p)
      BY PerformedOut DEF Served, PackageInv, Unfailed
    <3>2. Performed(p)' <=> Out(p)'
      BY PerformedOutNext DEF Served, PackageInv, Unfailed
    <3> QED BY <3>1, <3>2
  <2>6. Out(o) /\ \A p \in Object \ {o} : Out(p)' <=> Out(p)
    BY <1>1, <1>3, <2>2 DEF Out, Replying, Leaving
  <2>7. Status[o] = "done" /\ Status'[o] = "idle"
    BY <2>3, <2>4, <2>5, <2>6 DEF Status
  <2>8. \A p \in Object \ {o} :
          /\ p \in waiting' <=> p \in waiting
          /\ p \in waiting => (Performed(p)' <=> Performed(p))
    BY <2>4, <2>5, <2>6
  <2>9. Promise!Move(o, "done", "idle")
    BY <2>7, <2>8, Moves
  <2> QED BY <2>9 DEF Promise!Next, Promise!Answer
<1> QED BY <1>5, <1>6 DEF TakeWord

(* AudioSend hands an object to AudioRece: it has been performed.          *)
LEMMA ServeQueued ==
    ASSUME Long, Served, Served', sendPc # "receive",
           receQueue' = Pushed(receQueue, sendItem.obj, QueueLen),
           UNCHANGED <<waiting, compPc, compItem, sendingPc, sendingObj, tx>>
    PROVE  Promise!Next
<1>1. PICK o \in Object : o = sendItem.obj
  BY DEF Served, PackageInv, Handled, Item
<1>2. o \in waiting /\ ~Out(o)
  BY <1>1 DEF Served, Placed, OnePlace, Located, Awaited, Out, Replying,
              Leaving
<1>3. \A p : In(receQueue', p) <=> In(receQueue, p) \/ p = o
  BY <1>1, <1>2, QueuedForRece DEF Served, PackageInv, Out
<1>4. Out(o)' /\ \A p \in Object \ {o} : Out(p)' <=> Out(p)
  BY <1>3 DEF Out, Replying, Leaving
<1> QED BY <1>2, <1>4, PerformsOne

LEMMA ServeSend ==
    ASSUME Long, Served, Served', AudioSend
    PROVE  Promise!Next \/ UNCHANGED Status
<1> USE DEF client, callback, sendTask, sending, compTasks, senders, SendAt
<1>1. CASE UNCHANGED <<waiting, compPc, compItem, receQueue, sendingPc,
                       sendingObj, tx>>
  <2>1. \A p \in Object : Out(p)' <=> Out(p)
    BY <1>1 DEF Out, Replying, Leaving
  <2> QED BY <1>1, <2>1, Quiet
<1>2. ~NoMemory
  BY DEF NoMemory, Served, Unfailed
<1>3. CASE Dispatch
  <2>1. CASE Current.cmd = "unknown"
    BY <1>3, <2>1, ServeQueued DEF Dispatch
  <2>2. CASE Current.cmd # "unknown"
    BY <1>1, <1>3, <2>2 DEF Dispatch
  <2> QED BY <2>1, <2>2
<1>4. CASE ProcessOther
  <2>1. Current.mode = "algo"
    BY <1>4 DEF ProcessOther, Fail, Served, Unfailed
  <2> QED BY <1>4, <2>1, ServeQueued DEF ProcessOther
<1>5. ASSUME NEW i \in Id, CreateTask(i) PROVE UNCHANGED Status
  <2>1. \A j \in Id : compPc'[j] = "reply" <=> compPc[j] = "reply"
    BY <1>5 DEF CreateTask, Served, PackageInv, Handled
  <2>2. \A p \in Object : Out(p)' <=> Out(p)
    BY <1>5, <2>1 DEF CreateTask, Out, Replying, Leaving
  <2> QED BY <1>5, <2>2, Quiet DEF CreateTask
<1> QED BY <1>1, <1>2, <1>3, <1>4, <1>5 DEF AudioSend, SendReceive, Lookup,
           LookupFails, ProcessNothing, WaitTask, Pass

LEMMA ServeComp ==
    ASSUME Long, Served, Served', NEW i \in Id, CompTask(i)
    PROVE  Promise!Next \/ UNCHANGED Status
<1>1. UNCHANGED <<waiting, sendingPc, sendingObj, tx>>
  BY DEF CompTask, CompStart, CompReceive, CompExecute, CompReply, client,
         senders
<1>2. /\ compPc \in [Id -> {"none", "start", "receive", "execute", "reply", "halted"}]
      /\ compItem \in [Id -> Object \cup {Null}]
  BY DEF Served, PackageInv, Handled
<1>3. CASE CompStart(i) \/ CompReceive(i)
  <2>1. \A j \in Id : compPc'[j] = "reply" <=> compPc[j] = "reply"
    BY <1>2, <1>3 DEF CompStart, CompReceive
  <2>2. \A j \in Id : compPc[j] = "reply" => compItem'[j] = compItem[j]
    BY <1>2, <1>3 DEF CompStart, CompReceive
  <2>3. receQueue' = receQueue
    BY <1>3 DEF CompStart, CompReceive
  <2>4. \A p \in Object : Out(p)' <=> Out(p)
    BY <1>1, <2>1, <2>2, <2>3 DEF Out, Replying, Leaving
  <2> QED BY <1>1, <2>4, Quiet
<1>4. CASE CompExecute(i)
  <2>1. /\ compPc[i] = "execute" /\ compItem' = compItem
        /\ receQueue' = receQueue /\ compPc'[i] = "reply"
        /\ \A j \in Id \ {i} : compPc'[j] = compPc[j]
    BY <1>2, <1>4 DEF CompExecute
  <2>2. PICK o \in Object : o = compItem[i]
    BY <2>1 DEF Served, PackageInv, Handled
  <2>3. o \in waiting /\ ~Out(o)
    <3>1. PICK where \in [Object -> Where],
               with \in [Object -> Id \cup {Null}] :
               Located(where, with) /\ Awaited(where)
      BY DEF Served, Placed, OnePlace
    <3>2. where[o] = "compTask" /\ with[o] = i
      BY <2>1, <2>2, <3>1 DEF Located
    <3>3. ~Replying(o)
      BY <2>1, <3>1, <3>2 DEF Located, Replying
    <3> QED BY <3>1, <3>2, <3>3 DEF Located, Awaited, Out, Leaving
  <2>4. Out(o)' /\ \A p \in Object \ {o} : Out(p)' <=> Out(p)
    BY <1>1, <2>1, <2>2 DEF Out, Replying, Leaving
  <2> QED BY <1>1, <2>3, <2>4, PerformsOne
<1>5. CASE CompReply(i)
  <2>1. /\ compPc[i] = "reply" /\ compItem' = compItem
        /\ receQueue' = Pushed(receQueue, compItem[i], QueueLen)
        /\ compPc'[i] = "receive"
        /\ \A j \in Id \ {i} : compPc'[j] = compPc[j]
    BY <1>2, <1>5 DEF CompReply
  <2>2. PICK o \in Object : o = compItem[i]
    BY <2>1 DEF Served, PackageInv, Handled
  <2>3. ~In(receQueue, o)
    BY <2>1, <2>2 DEF Served, Placed, OnePlace, Located
  <2>4. \A p : In(receQueue', p) <=> In(receQueue, p) \/ p = o
    BY <2>1, <2>2, <2>3, QueuedForRece DEF Served, PackageInv
  <2>5. Out(o) /\ Out(o)'
    BY <2>1, <2>2, <2>4 DEF Out, Replying
  <2>6. \A p \in Object \ {o} : Out(p)' <=> Out(p)
    <3> SUFFICES ASSUME NEW p \in Object \ {o} PROVE Out(p)' <=> Out(p)
      OBVIOUS
    <3>1. Replying(p)' <=> Replying(p)
      BY <2>1, <2>2 DEF Replying
    <3> QED BY <1>1, <2>4, <3>1 DEF Out, Leaving
  <2> QED BY <1>1, <2>5, <2>6, Quiet
<1> QED BY <1>3, <1>4, <1>5 DEF CompTask

LEMMA ServeRece ==
    ASSUME Served, Served', ReceTask
    PROVE  UNCHANGED Status
<1>1. UNCHANGED <<waiting, compPc, compItem, tx>>
  BY DEF ReceTask, client, compTasks
<1>2. /\ receQueue \in Seq(Object) /\ receQueue # <<>> /\ Once(receQueue)
      /\ receQueue' = Tail(receQueue) /\ sendingPc["AudioRece"] = "idle"
  BY DEF ReceTask, Served, PackageInv, Handled, Placed, NoneTwice
<1>3. PICK o \in Object : o = Head(receQueue)
  BY <1>2, Off
<1>4. In(receQueue, o)
  BY <1>2, <1>3, Off DEF In
<1>5. \A p \in Object : In(receQueue', p) <=> In(receQueue, p) /\ p # o
  BY <1>2, <1>3, InTail
<1>6. sendingPc'["AudioRece"] # "idle" /\ sendingObj'["AudioRece"] = o
  BY <1>3 DEF ReceTask, BeginSending, Served, PackageInv, Sent, Sender
<1>7. \A p \in Object : Out(p)' <=> Out(p)
  BY <1>1, <1>2, <1>4, <1>5, <1>6 DEF Out, Replying, Leaving
<1> QED BY <1>1, <1>7, Quiet

LEMMA ServeSending ==
    ASSUME Served, Served', NEW s \in Sender, Sending(s)
    PROVE  UNCHANGED Status
<1>1. UNCHANGED <<waiting, compPc, compItem, receQueue, sendingObj>>
  BY DEF Sending, SendWait, SendWrite, client, compTasks
<1>2. s = "AudioRece"
  BY DEF Served, PackageInv, OneSender, Unfailed, Sending, SendWait,
         SendWrite, Sender
<1>3. CASE SendWait(s)
  <2>1. tx' = tx /\ sendingPc'["AudioRece"] # "idle"
        /\ sendingPc["AudioRece"] # "idle"
    BY <1>2, <1>3 DEF SendWait, Served, PackageInv, Sent, Sender
  <2>2. \A p \in Object : Out(p)' <=> Out(p)
    BY <1>1, <2>1 DEF Out, Replying, Leaving
  <2> QED BY <1>1, <2>2, Quiet
<1>4. CASE SendWrite(s)
  <2> DEFINE w == IF sendingPc["AudioRece"] = "val_write"
                  THEN "component" ELSE sendingObj["AudioRece"]
  <2>1. /\ sendingPc["AudioRece"] \in {"val_write", "ptr_write"}
        /\ sendingPc'["AudioRece"] = "idle"
              <=> sendingPc["AudioRece"] = "ptr_write"
        /\ tx' = Pushed(tx, w, FifoDepth)
    BY <1>2, <1>4 DEF SendWrite, Served, PackageInv, Sent, Sender
  <2>2. tx \in Seq(Answer) /\ Len(tx) < FifoDepth
    BY <2>1 DEF Served, PackageInv, Sent, OneSender, Unfailed
  <2>3. sendingObj["AudioRece"] \in Object
    BY <2>1 DEF Served, PackageInv, Sent, Sender
  <2>4. tx' = Append(tx, w) /\ w \in Answer
    BY <2>1, <2>2, <2>3 DEF Pushed, Answer
  <2>5. \A p : In(tx', p) <=> In(tx, p) \/ p = w
    BY <2>2, <2>4, InAppend
  <2>6. w \in Object <=> sendingPc["AudioRece"] = "ptr_write"
    BY <2>1, <2>3, ObjectAssumption DEF MsgVal
  <2>7. sendingPc["AudioRece"] = "ptr_write" => w = sendingObj["AudioRece"]
    OBVIOUS
  <2> HIDE DEF w
  <2>8. \A p \in Object : Out(p)' <=> Out(p)
    BY <1>1, <2>1, <2>5, <2>6, <2>7 DEF Out, Replying, Leaving
  <2> QED BY <1>1, <2>8, Quiet
<1> QED BY <1>3, <1>4 DEF Sending

LEMMA ServeStep ==
    ASSUME Long, Served, Served', [Next]_vars
    PROVE  Promise!Next \/ UNCHANGED Status
<1>1. CASE Callback \/ UNCHANGED vars
  <2>1. UNCHANGED <<waiting, compPc, compItem, receQueue, sendingPc,
                    sendingObj, tx>>
    BY <1>1 DEF Callback, ReceiveFirstWord, ReceiveSecondWord, vars, client,
                compTasks, senders
  <2>2. \A p \in Object : Out(p)' <=> Out(p)
    BY <2>1 DEF Out, Replying, Leaving
  <2> QED BY <2>1, <2>2, Quiet
<1> QED BY <1>1, ServeSubmit, ServeTaken, ServeSend, ServeComp, ServeRece,
           ServeSending DEF Next

(* With queues as long as there are clients, and where no command fails,    *)
(* the server implements request and answer, however its contexts           *)
(* interleave and whatever components the clients share: a command is       *)
(* performed once and answered once, after it has been performed.           *)
THEOREM ServerImplementsService ==
    ASSUME Long, NoFailure PROVE Spec => ImplementsService
<1> DEFINE Inv == PackageInv /\ AccountInv /\ Unfailed
<1>1. Init => Inv
  BY WordsInInit, HandledInit, SentInit, AccountInit, UnfailedInit
     DEF PackageInv
<1>2. Inv /\ [Next]_vars => Inv'
  BY WordsInStep, HandledStep, SentStep, AccountStep, UnfailedStep
     DEF PackageInv, AccountInv
<1>3. (Inv => Served) /\ (Inv' => Served')
  BY DEF Served, AccountInv, Placed, Unfailed
<1>4. Init => Promise!Init
  <2>1. Init => Status = [o \in Object |-> "idle"]
    BY DEF Init, Status
  <2> QED BY <2>1 DEF Promise!Init, Status
<1>5. Inv /\ Inv' /\ [Next]_vars => [Promise!Next]_Status
  BY <1>3, ServeStep
<1>6. [Promise!Next]_Status <=> Promise!Next \/ UNCHANGED Status
  OBVIOUS
<1> QED BY <1>1, <1>2, <1>4, <1>5, PTL
        DEF Spec, ImplementsService, Promise!Service, Status
=============================================================================
