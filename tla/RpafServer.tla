----------------------------- MODULE RpafServer ------------------------------
(***************************************************************************)
(* The remote audio server (components/aw/sound/aw-rpaf).  The other core  *)
(* puts a command in an object in shared memory and sends its address in a *)
(* package of two message box words.  The receive callback, in interrupt   *)
(* context, puts the words together and queues the command; AudioSend      *)
(* performs it or passes it to the task of its component; AudioRece sends  *)
(* the address back as the answer.  All the tasks have the same priority,  *)
(* so any of them may be preempted by any other, and by the callback.      *)
(*                                                                         *)
(* As configured for this firmware: only the component commands have a     *)
(* handler, and there are no substreams.                                   *)
(***************************************************************************)
EXTENDS Naturals, Sequences, FiniteSets

CONSTANTS
    Object,        \* the snd_soc_dsp_component objects in shared memory
    Id,            \* the values of their `id' field
    Cmd,           \* the commands clients give to a component of their own
    Null,          \* NULL
    QueueLen,      \* length of ServerSendQueue and ServerReceQueue (20)
    CmdQueueLen,   \* length of a component's cmdQueue (10)
    FifoDepth,     \* words in a hardware FIFO (8)
    EventBits,     \* bits of an event group that users may wait for (24)
    Exclusive,     \* clients do not share the id of a component
    Faults,        \* what may go wrong, see below
    MaxLate        \* bound: commands asked after the first that failed

(* "nomem": an object, a queue or a task cannot be allocated;               *)
(* "unsupported": clients ask for an algorithm that is not installed or for *)
(* a substream; "silent": clients send a message or a mode that has no      *)
(* handler, to which there is no answer.                                    *)
AllFaults == {"nomem", "unsupported", "silent"}

(* "other" is a command whose function changes nothing modelled here (the   *)
(* STATUS, SW_PARAMS, READ, SUSPEND and RESUME commands); "unknown" is a    *)
(* value outside the enumeration.                                           *)
AllCmds == {"create", "write", "start", "stop", "remove", "other", "unknown"}

MsgVal == {"component", "no_handler"}
Mode == {"independence", "algo", "algo_missing", "stream", "no_mode"}

ASSUME ObjectAssumption ==
    Null \notin Object \cup MsgVal /\ Object \cap MsgVal = {}
ASSUME IdAssumption == Null \notin Id
ASSUME CmdAssumption == Cmd \subseteq AllCmds
ASSUME FaultsAssumption == Faults \subseteq AllFaults /\ Exclusive \in BOOLEAN
ASSUME BoundAssumption ==
    /\ {QueueLen, CmdQueueLen, FifoDepth, EventBits} \subseteq Nat \ {0}
    /\ MaxLate \in Nat

VARIABLES
    (* the clients on the other core *)
    request,       \* what each object holds
    waiting,       \* the objects whose answer is outstanding
    session,       \* the component id each object has created
    cpuVal,        \* the first word of the package being received
    (* the two hardware FIFOs *)
    rx, tx,
    (* the receive callback *)
    rxVal,         \* the first word, Null if data_count = 0
    serverSend,    \* ServerSendQueue
    (* AudioSend *)
    sendPc, sendItem,
    sendComp,      \* hal_component
    (* the components, by the id they were first seen with *)
    known,         \* list_hal_component
    native,        \* native_component.soc_component.cmd_val
    slot,          \* hal_component->id, the bit of the component's task
    eventSet,      \* components whose bit in xTaskCreateEvent is set
    handleBits,    \* component_handle_bit
    queues,        \* components whose cmdQueue is not NULL
    cmdQueue,      \* cmdQueue
    compPc, compItem,
    live,          \* components whose algorithms have been created
    dump,          \* components with dump_start set
    (* AudioRece and the two senders *)
    receQueue,     \* ServerReceQueue
    sendingPc, sendingObj,
    (* history *)
    failed,        \* a command has failed
    late           \* commands asked since

client     == <<request, waiting, session, cpuVal>>
callback   == <<rxVal, serverSend>>
sending    == <<sendItem, sendComp>>
sendTask   == <<sendPc, sending>>
lookup     == <<known, native>>
creation   == <<slot, eventSet, handleBits, queues>>
compTasks  == <<compPc, compItem>>
components == <<live, dump>>
senders    == <<sendingPc, sendingObj>>
failures   == <<failed, late>>
vars == <<client, rx, tx, callback, sendTask, lookup, creation, cmdQueue,
          compTasks, components, receQueue, senders, failures>>

Request == [val : MsgVal, mode : Mode, cmd : AllCmds, id : Id \cup {Null}]
Item == [val : MsgVal, obj : Object]
Word == MsgVal \cup Object
Sender == {"AudioSend", "AudioRece"}

TypeOK ==
    /\ request \in [Object -> Request]
    /\ waiting \subseteq Object
    /\ session \in [Object -> Id \cup {Null}]
    /\ cpuVal \in Word \cup {Null}
    /\ rx \in Seq(Word)
    /\ tx \in Seq(Word)
    /\ rxVal \in MsgVal \cup {Null}
    /\ serverSend \in Seq(Item)
    /\ sendPc \in {"receive", "process", "no_memory", "dispatch",
                   "wait", "blocked", "pass", "halted"}
    /\ sendItem \in Item \cup {Null}
    /\ sendComp \in Id \cup {Null}
    /\ known \subseteq Id
    /\ native \in [Id -> AllCmds]
    /\ slot \in [Id -> Nat]
    /\ eventSet \subseteq Id
    /\ handleBits \subseteq Nat
    /\ cmdQueue \in [Id -> Seq(Object)]
    /\ queues \subseteq Id
    /\ compPc \in [Id -> {"none", "start", "receive", "execute", "reply", "halted"}]
    /\ compItem \in [Id -> Object \cup {Null}]
    /\ live \subseteq Id
    /\ dump \subseteq Id
    /\ receQueue \in Seq(Object)
    /\ sendingPc \in
         [Sender -> {"idle", "val_wait", "val_write", "ptr_wait", "ptr_write"}]
    /\ sendingObj \in [Sender -> Object \cup {Null}]
    /\ failed \in BOOLEAN
    /\ late \in Nat

Init ==
    /\ request \in [Object -> {[val |-> "component", mode |-> "independence",
                                cmd |-> "unknown", id |-> Null]}]
    /\ waiting = {}
    /\ session = [o \in Object |-> Null]
    /\ cpuVal = Null
    /\ rx = <<>>
    /\ tx = <<>>
    /\ rxVal = Null
    /\ serverSend = <<>>
    /\ sendPc = "receive"
    /\ sendItem = Null
    /\ sendComp = Null
    /\ known = {}
    /\ native = [i \in Id |-> "unknown"]
    /\ slot = [i \in Id |-> 0]
    /\ eventSet = {}
    /\ handleBits = {}
    /\ queues = {}
    /\ cmdQueue = [i \in Id |-> <<>>]
    /\ compPc = [i \in Id |-> "none"]
    /\ compItem = [i \in Id |-> Null]
    /\ live = {}
    /\ dump = {}
    /\ receQueue = <<>>
    /\ sendingPc = [s \in Sender |-> "idle"]
    /\ sendingObj = [s \in Sender |-> Null]
    /\ failed = FALSE
    /\ late = 0

(* xQueueSendToBack without waiting: an item that does not fit is dropped. *)
Pushed(queue, item, length) ==
    IF Len(queue) < length THEN Append(queue, item) ELSE queue

-----------------------------------------------------------------------------
(* The clients on the other core (external).  A client owns an object,      *)
(* waits for the answer before it uses the object again, creates a          *)
(* component before it uses it, and removes it last.                        *)

Plain(val, mode) ==
    [val |-> val, mode |-> mode, cmd |-> "unknown", id |-> Null]
Command(cmd, i) ==
    [val |-> "component", mode |-> "independence", cmd |-> cmd, id |-> i]

FreeIds == IF Exclusive THEN {i \in Id : \A o \in Object : session[o] # i}
                        ELSE Id

Requests(o) ==
    {Plain("component", "algo")}
    \cup (IF "unsupported" \in Faults
          THEN {Plain("component", m) : m \in {"algo_missing", "stream"}}
          ELSE {})
    \cup (IF "silent" \in Faults
          THEN {Plain("component", "no_mode"), Plain("no_handler", "no_mode")}
          ELSE {})
    \cup (IF session[o] = Null
          THEN {Command("create", i) : i \in FreeIds}
          ELSE {Command(c, session[o]) : c \in Cmd \ {"create"}})

Submit(o) ==
    /\ o \notin waiting
    /\ Len(rx) + 2 <= FifoDepth
    /\ \E r \in Requests(o) :
        /\ request' = [request EXCEPT ![o] = r]
        /\ session' = [session EXCEPT
                         ![o] = IF r.cmd = "create" THEN r.id ELSE @]
        /\ rx' = rx \o <<r.val, o>>
    /\ waiting' = waiting \cup {o}
    /\ failed => late < MaxLate
    /\ late' = IF failed THEN late + 1 ELSE late
    /\ UNCHANGED <<cpuVal, tx, callback, sendTask, lookup, creation, cmdQueue,
                   compTasks, components, receQueue, senders, failed>>

TakeFirstWord ==
    /\ tx # <<>>
    /\ cpuVal = Null
    /\ cpuVal' = Head(tx)
    /\ tx' = Tail(tx)
    /\ UNCHANGED <<request, waiting, session, rx, callback, sendTask, lookup,
                   creation, cmdQueue, compTasks, components, receQueue,
                   senders, failures>>

TakeSecondWord ==
    /\ tx # <<>>
    /\ cpuVal # Null
    /\ cpuVal' = Null
    /\ tx' = Tail(tx)
    /\ LET answered == IF cpuVal = "component" THEN {Head(tx)} \cap waiting
                                               ELSE {}
       IN  /\ waiting' = waiting \ answered
           /\ session' = [o \in Object |->
                            IF o \in answered /\ request[o].cmd = "remove"
                            THEN Null ELSE session[o]]
    /\ UNCHANGED <<request, rx, callback, sendTask, lookup, creation, cmdQueue,
                   compTasks, components, receQueue, senders, failures>>

-----------------------------------------------------------------------------
(* arpaf_rxch_from_cpu_callback, called for each word received. *)

ReceiveFirstWord ==
    /\ rx # <<>>
    /\ rxVal = Null
    /\ rxVal' = Head(rx)
    /\ rx' = Tail(rx)
    /\ UNCHANGED <<client, tx, serverSend, sendTask, lookup, creation,
                   cmdQueue, compTasks, components, receQueue, senders,
                   failures>>

ReceiveSecondWord ==
    /\ rx # <<>>
    /\ rxVal # Null
    /\ serverSend' = Pushed(serverSend, [val |-> rxVal, obj |-> Head(rx)],
                            QueueLen)
    /\ rxVal' = Null
    /\ rx' = Tail(rx)
    /\ UNCHANGED <<client, tx, sendTask, lookup, creation, cmdQueue, compTasks,
                   components, receQueue, senders, failures>>

-----------------------------------------------------------------------------
(* pxAudioServerSendTask: snd_dsp_hal_component_process and                 *)
(* snd_dsp_hal_component_independence_process. *)

SendAt(point) == sendPc = point /\ sendingPc["AudioSend"] = "idle"
Current == request[sendItem.obj]

(* arpaf_msgbox_send: the next two words of `sender' are for object o. *)
BeginSending(sender, o) ==
    /\ sendingPc' = [sendingPc EXCEPT ![sender] = "val_wait"]
    /\ sendingObj' = [sendingObj EXCEPT ![sender] = o]

(* A negative result is answered by AudioSend itself. *)
Fail ==
    /\ BeginSending("AudioSend", sendItem.obj)
    /\ failed' = TRUE
    /\ UNCHANGED late
    /\ sendPc' = "receive"

SendReceive ==
    /\ SendAt("receive")
    /\ serverSend # <<>>
    /\ sendItem' = Head(serverSend)
    /\ serverSend' = Tail(serverSend)
    /\ sendPc' = IF Head(serverSend).val = "component" THEN "process"
                                                       ELSE "receive"
    /\ UNCHANGED <<client, rx, tx, rxVal, sendComp, lookup, creation, cmdQueue,
                   compTasks, components, receQueue, senders, failures>>

(* Mutant: the parameters are copied only when the object is made. *)
LookupCopiesOnce ==
    /\ SendAt("process")
    /\ Current.mode = "independence"
    /\ known' = known \cup {Current.id}
    /\ native' = IF Current.id \in known THEN native
                 ELSE [native EXCEPT ![Current.id] = Current.cmd]
    /\ sendComp' = Current.id
    /\ sendPc' = "dispatch"
    /\ UNCHANGED <<client, rx, tx, callback, sendItem, creation, cmdQueue,
                   compTasks, components, receQueue, senders, failures>>

(* The object found or made, and the parameters copied into it. *)
Lookup ==
    /\ SendAt("process")
    /\ Current.mode = "independence"
    /\ known' = known \cup {Current.id}
    /\ native' = [native EXCEPT ![Current.id] = Current.cmd]
    /\ sendComp' = Current.id
    /\ sendPc' = "dispatch"
    /\ UNCHANGED <<client, rx, tx, callback, sendItem, creation, cmdQueue,
                   compTasks, components, receQueue, senders, failures>>

(* rpaf_malloc or xEventGroupCreate fails for a component not yet known. *)
LookupFails ==
    /\ "nomem" \in Faults
    /\ SendAt("process")
    /\ Current.mode = "independence"
    /\ Current.id \notin known
    /\ sendPc' = "no_memory"
    /\ UNCHANGED <<client, rx, tx, callback, sending, lookup, creation,
                   cmdQueue, compTasks, components, receQueue, senders,
                   failures>>

(* The command is queued for AudioRece, waiting 20 ms, and then answered. *)
NoMemory ==
    /\ SendAt("no_memory")
    /\ receQueue' = Pushed(receQueue, sendItem.obj, QueueLen)
    /\ Fail
    /\ UNCHANGED <<client, rx, tx, callback, sending, lookup, creation,
                   cmdQueue, compTasks, components>>

(* component_handle_bit is searched for a bit with no bit set above it: `!' *)
(* applies before `&'.  The bits are never cleared.                         *)
HandleBit ==
    CHOOSE n \in 0 .. Cardinality(Id) :
        /\ \A b \in handleBits : b < n
        /\ \A m \in 0 .. n - 1 : \E b \in handleBits : m <= b

(* The first CREATE of a component makes its queue and its task; whether    *)
(* xQueueCreate and xTaskCreate had the memory for them is not looked at.   *)
MemoryFor == IF "nomem" \in Faults THEN BOOLEAN ELSE {TRUE}

CreateTask(i) ==
    /\ SendAt("dispatch")
    /\ sendComp = i
    /\ Current.cmd = "create"
    /\ compPc[i] = "none"
    /\ slot' = [slot EXCEPT ![i] = HandleBit]
    /\ \E queue \in MemoryFor : queues' = IF queue THEN queues \cup {i}
                                                  ELSE queues \ {i}
    /\ \E task \in MemoryFor : compPc' = IF task THEN [compPc EXCEPT ![i] = "start"]
                                                 ELSE compPc
    /\ sendPc' = "wait"
    /\ UNCHANGED <<client, rx, tx, callback, sending, lookup, eventSet,
                   handleBits, cmdQueue, compItem, components, receQueue,
                   senders, failures>>

(* Mutant: a bit set before the wait is not seen. *)
WaitTaskLate(i) ==
    /\ SendAt("wait")
    /\ sendComp = i
    /\ sendPc' = "blocked"
    /\ UNCHANGED <<eventSet, handleBits>>
    /\ UNCHANGED <<client, rx, tx, callback, sending, lookup, slot, queues,
                   cmdQueue, compTasks, components, receQueue, senders, failures>>

(* xEventGroupWaitBits: a bit that is set is seen at once, whichever it is. *)
WaitTask(i) ==
    /\ SendAt("wait")
    /\ sendComp = i
    /\ IF i \in eventSet
       THEN /\ eventSet' = eventSet \ {i}
            /\ handleBits' = handleBits \cup {slot[i]}
            /\ sendPc' = "pass"
       ELSE /\ sendPc' = "blocked"
            /\ UNCHANGED <<eventSet, handleBits>>
    /\ UNCHANGED <<client, rx, tx, callback, sending, lookup, slot, queues,
                   cmdQueue, compTasks, components, receQueue, senders, failures>>

(* Mutant: CREATE of a component that has a task is answered at once. *)
DispatchAnswersCreate ==
    /\ SendAt("dispatch")
    /\ Current.cmd # "create" \/ compPc[sendComp] # "none"
    /\ LET passed == Current.cmd \notin {"unknown", "create"}
       IN  /\ sendPc' = IF passed THEN "pass" ELSE "receive"
           /\ receQueue' = IF passed THEN receQueue
                           ELSE Pushed(receQueue, sendItem.obj, QueueLen)
    /\ UNCHANGED <<client, rx, tx, callback, sending, lookup, creation,
                   cmdQueue, compTasks, components, senders, failures>>

Dispatch ==
    /\ SendAt("dispatch")
    /\ Current.cmd # "create" \/ compPc[sendComp] # "none"
    /\ sendPc' = IF Current.cmd = "unknown" THEN "receive" ELSE "pass"
    /\ receQueue' = IF Current.cmd = "unknown"
                    THEN Pushed(receQueue, sendItem.obj, QueueLen)
                    ELSE receQueue
    /\ UNCHANGED <<client, rx, tx, callback, sending, lookup, creation,
                   cmdQueue, compTasks, components, senders, failures>>

(* Mutant: the command is answered as it is passed. *)
PassAndAnswer(i) ==
    /\ SendAt("pass")
    /\ sendComp = i
    /\ IF i \notin queues
       THEN sendPc' = "halted" /\ UNCHANGED <<cmdQueue, receQueue>>
       ELSE /\ sendPc' = "receive"
            /\ receQueue' = Pushed(receQueue, sendItem.obj, QueueLen)
            /\ cmdQueue' = [cmdQueue EXCEPT
                              ![i] = Pushed(@, sendItem.obj, CmdQueueLen)]
    /\ UNCHANGED <<client, rx, tx, callback, sending, lookup, creation,
                   compTasks, components, senders, failures>>

(* A component that was never created, or for whose queue there was no      *)
(* memory, has no cmdQueue: xQueueSendToBack is called with NULL.           *)
Pass(i) ==
    /\ SendAt("pass")
    /\ sendComp = i
    /\ IF i \notin queues
       THEN sendPc' = "halted" /\ UNCHANGED cmdQueue
       ELSE /\ sendPc' = "receive"
            /\ cmdQueue' = [cmdQueue EXCEPT
                              ![i] = Pushed(@, sendItem.obj, CmdQueueLen)]
    /\ UNCHANGED <<client, rx, tx, callback, sending, lookup, creation,
                   compTasks, components, receQueue, senders, failures>>

(* ALGO_GET and ALGO_SET, and a stream component, for which there is never  *)
(* a substream: queued for AudioRece, and a negative result besides.        *)
ProcessOther ==
    /\ SendAt("process")
    /\ Current.mode \in {"algo", "algo_missing", "stream"}
    /\ receQueue' = Pushed(receQueue, sendItem.obj, QueueLen)
    /\ IF Current.mode = "algo"
       THEN sendPc' = "receive" /\ UNCHANGED <<senders, failures>>
       ELSE Fail
    /\ UNCHANGED <<client, rx, tx, callback, sending, lookup, creation,
                   cmdQueue, compTasks, components>>

ProcessNothing ==
    /\ SendAt("process")
    /\ Current.mode = "no_mode"
    /\ sendPc' = "receive"
    /\ UNCHANGED <<client, rx, tx, callback, sending, lookup, creation,
                   cmdQueue, compTasks, components, receQueue, senders,
                   failures>>

-----------------------------------------------------------------------------
(* pxAudioCompTask, the task of component i. *)

(* xEventGroupSetBits wakes AudioSend only from a bit below the 8 bits that *)
(* the kernel keeps for itself.  Without a cmdQueue the task then calls     *)
(* xQueueReceive with NULL.                                                 *)
CompStart(i) ==
    /\ compPc[i] = "start"
    /\ compPc' = [compPc EXCEPT ![i] = IF i \in queues THEN "receive" ELSE "halted"]
    /\ IF sendPc = "blocked" /\ sendComp = i /\ slot[i] < EventBits
       THEN /\ sendPc' = "pass"
            /\ handleBits' = handleBits \cup {slot[i]}
            /\ UNCHANGED eventSet
       ELSE /\ eventSet' = eventSet \cup {i}
            /\ UNCHANGED <<sendPc, handleBits>>
    /\ UNCHANGED <<client, rx, tx, callback, sending, lookup, slot, queues,
                   cmdQueue, compItem, components, receQueue, senders, failures>>

CompReceive(i) ==
    /\ compPc[i] = "receive"
    /\ cmdQueue[i] # <<>>
    /\ compItem' = [compItem EXCEPT ![i] = Head(cmdQueue[i])]
    /\ cmdQueue' = [cmdQueue EXCEPT ![i] = Tail(@)]
    /\ compPc' = [compPc EXCEPT ![i] = "execute"]
    /\ UNCHANGED <<client, rx, tx, callback, sendTask, lookup, creation,
                   components, receQueue, senders, failures>>

(* The switch is on the parameters last copied, not on the item received.   *)
CompExecute(i) ==
    /\ compPc[i] = "execute"
    /\ live' = CASE native[i] = "create" -> live \cup {i}
                 [] native[i] = "remove" -> live \ {i}
                 [] OTHER -> live
    /\ dump' = CASE native[i] = "start" -> dump \cup {i}
                 [] native[i] = "stop" -> dump \ {i}
                 [] OTHER -> dump
    /\ compPc' = [compPc EXCEPT ![i] = "reply"]
    /\ UNCHANGED <<client, rx, tx, callback, sendTask, lookup, creation,
                   cmdQueue, compItem, receQueue, senders, failures>>

CompReply(i) ==
    /\ compPc[i] = "reply"
    /\ receQueue' = Pushed(receQueue, compItem[i], QueueLen)
    /\ compPc' = [compPc EXCEPT ![i] = "receive"]
    /\ UNCHANGED <<client, rx, tx, callback, sendTask, lookup, creation,
                   cmdQueue, compItem, components, senders, failures>>

-----------------------------------------------------------------------------
(* pxAudioServerReceTask. *)

(* Mutant: the answer is left in the queue. *)
ReceTaskPeeks ==
    /\ sendingPc["AudioRece"] = "idle"
    /\ receQueue # <<>>
    /\ receQueue' = receQueue
    /\ BeginSending("AudioRece", Head(receQueue))
    /\ UNCHANGED <<client, rx, tx, callback, sendTask, lookup, creation,
                   cmdQueue, compTasks, components, failures>>

ReceTask ==
    /\ sendingPc["AudioRece"] = "idle"
    /\ receQueue # <<>>
    /\ receQueue' = Tail(receQueue)
    /\ BeginSending("AudioRece", Head(receQueue))
    /\ UNCHANGED <<client, rx, tx, callback, sendTask, lookup, creation,
                   cmdQueue, compTasks, components, failures>>

(* hal_msgbox_channel_send: each word waits for room in the FIFO, without   *)
(* excluding the other sender; a word written to a full FIFO is lost.       *)
SendWait(s) ==
    /\ sendingPc[s] \in {"val_wait", "ptr_wait"}
    /\ Len(tx) # FifoDepth
    /\ sendingPc' = [sendingPc EXCEPT
                       ![s] = IF @ = "val_wait" THEN "val_write"
                                                ELSE "ptr_write"]
    /\ UNCHANGED <<client, rx, tx, callback, sendTask, lookup, creation,
                   cmdQueue, compTasks, components, receQueue, sendingObj,
                   failures>>

(* Mutant: the words of a package are sent in the wrong order. *)
SendWriteSwaps(s) ==
    /\ sendingPc[s] \in {"val_write", "ptr_write"}
    /\ tx' = Pushed(tx, IF sendingPc[s] = "ptr_write" THEN "component"
                                                      ELSE sendingObj[s],
                    FifoDepth)
    /\ sendingPc' = [sendingPc EXCEPT
                       ![s] = IF @ = "val_write" THEN "ptr_wait" ELSE "idle"]
    /\ UNCHANGED <<client, rx, callback, sendTask, lookup, creation, cmdQueue,
                   compTasks, components, receQueue, sendingObj, failures>>

SendWrite(s) ==
    /\ sendingPc[s] \in {"val_write", "ptr_write"}
    /\ tx' = Pushed(tx, IF sendingPc[s] = "val_write" THEN "component"
                                                      ELSE sendingObj[s],
                    FifoDepth)
    /\ sendingPc' = [sendingPc EXCEPT
                       ![s] = IF @ = "val_write" THEN "ptr_wait" ELSE "idle"]
    /\ UNCHANGED <<client, rx, callback, sendTask, lookup, creation, cmdQueue,
                   compTasks, components, receQueue, sendingObj, failures>>

-----------------------------------------------------------------------------
Callback == ReceiveFirstWord \/ ReceiveSecondWord

AudioSend ==
    \/ SendReceive \/ Lookup \/ LookupFails \/ NoMemory \/ Dispatch
    \/ ProcessOther \/ ProcessNothing
    \/ \E i \in Id : CreateTask(i) \/ WaitTask(i) \/ Pass(i)

CompTask(i) == CompStart(i) \/ CompReceive(i) \/ CompExecute(i) \/ CompReply(i)

Sending(s) == SendWait(s) \/ SendWrite(s)

TakeWord == TakeFirstWord \/ TakeSecondWord

Next ==
    \/ \E o \in Object : Submit(o)
    \/ TakeWord
    \/ Callback
    \/ AudioSend
    \/ \E i \in Id : CompTask(i)
    \/ ReceTask
    \/ \E s \in Sender : Sending(s)

(* The interrupt is served, tasks of one priority share the processor, and  *)
(* the other core reads what it is sent.  Nothing makes a client ask.       *)
Fairness ==
    /\ WF_vars(Callback) /\ WF_vars(TakeWord)
    /\ WF_vars(AudioSend) /\ WF_vars(ReceTask)
    /\ \A i \in Id : WF_vars(CompTask(i))
    /\ \A s \in Sender : WF_vars(Sending(s))

Spec == Init /\ [][Next]_vars /\ Fairness
-----------------------------------------------------------------------------
(* Where the address of object o is on its way through the server. *)
Indices(queue, o) == {k \in 1 .. Len(queue) : queue[k] = o}

Places(o) ==
    {<<"rx", Null, k>> : k \in Indices(rx, o)}
    \cup {<<"serverSend", Null, k>> :
            k \in {n \in 1 .. Len(serverSend) : serverSend[n].obj = o}}
    \cup {p \in {<<"AudioSend", Null, 0>>} :
            sendPc # "receive" /\ sendItem.obj = o}
    \cup (UNION {{<<"cmdQueue", i, k>> : k \in Indices(cmdQueue[i], o)} :
                 i \in Id})
    \cup {<<"compTask", i, 0>> : i \in {j \in Id :
                compPc[j] \in {"execute", "reply"} /\ compItem[j] = o}}
    \cup {<<"receQueue", Null, k>> : k \in Indices(receQueue, o)}
    \cup {<<"sender", s, 0>> : s \in {r \in Sender :
                sendingPc[r] # "idle" /\ sendingObj[r] = o}}
    \cup {<<"tx", Null, k>> : k \in Indices(tx, o)}

Answerable(o) == request[o].val = "component" /\ request[o].mode # "no_mode"

(* Until a command has failed, no queue overflows and nothing is answered   *)
(* twice: the address of an object is in one place of the server as long as *)
(* its client waits for an answer that will come, and nowhere once it has   *)
(* been answered.  The results of xQueueSendFromISR and xQueueSendToBack    *)
(* are ignored, so a lost command would leave its client waiting.           *)
Accounting ==
    ~failed => \A o \in Object :
        /\ Cardinality(Places(o)) <= 1
        /\ Places(o) # {} => o \in waiting
        /\ o \in waiting /\ Answerable(o) => Places(o) # {}

(* The task of a component performs the command of the object it has        *)
(* received, although the switch reads the parameters AudioSend copied      *)
(* last: they are still those of that object, unless a command has failed   *)
(* or clients share the component.                                          *)
RunsItsCommand ==
    Exclusive /\ ~failed => \A i \in Id :
        compPc[i] = "execute" => native[i] = request[compItem[i]].cmd

(* Until a command has failed only AudioRece sends, so that the words in    *)
(* the FIFO are whole packages, but for the one being read or written.      *)
PackagesWhole ==
    ~failed => \A k \in 1 .. Len(tx) :
        (tx[k] = "component") <=> ((k % 2 = 1) = (cpuVal = Null))

(* Until a command has failed the server finds the cmdQueue of the          *)
(* component it passes a command to, unless there was no memory for that    *)
(* queue when the component's task was made; and a component that is not    *)
(* shared processes data between its creation and its removal only: the     *)
(* handles of the algorithms are valid.                                     *)
QueueMissing(i) == "nomem" \in Faults /\ compPc[i] # "none" /\ i \notin queues

ComponentReady ==
    ~failed =>
        /\ sendPc = "halted" => QueueMissing(sendComp)
        /\ Exclusive => \A i \in Id :
              compPc[i] = "execute" /\ native[i] = "write" => i \in live

(* The two tasks that send on the message box channel exclude each other    *)
(* ("mutually exclusive access to resources has to be considered").         *)
SendersExclude == \E s \in Sender : sendingPc[s] = "idle"

(* The kernel's own bits of an event group are not waited for, as           *)
(* xEventGroupWaitBits asserts.                                             *)
WaitsForUserBits ==
    sendPc \in {"wait", "blocked"} => slot[sendComp] < EventBits

(* Every command that has a handler is answered. *)
Answered ==
    \A o \in Object : o \in waiting /\ Answerable(o) ~> o \notin waiting

(* The server implements request and answer: a command is answered once,    *)
(* after it has been performed. *)
Performed(o) ==
    \/ \E i \in Id : compPc[i] = "reply" /\ compItem[i] = o
    \/ \E k \in 1 .. Len(receQueue) : receQueue[k] = o
    \/ \E s \in Sender : sendingPc[s] # "idle" /\ sendingObj[s] = o
    \/ \E k \in 1 .. Len(tx) : tx[k] = o

Promise == INSTANCE RpafService
    WITH status <- [o \in Object |-> IF o \notin waiting THEN "idle"
                                     ELSE IF Performed(o) THEN "done"
                                     ELSE "asked"]

ImplementsService == Promise!Service
=============================================================================
