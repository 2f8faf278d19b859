---------------------------- MODULE MessageManager ----------------------------
(***************************************************************************)
(* The message manager (freertos/components/aw/message_manager) over the   *)
(* SX message box driver (rtos-hal/hal/source/msgbox/msgbox_sx).  The      *)
(* interrupt handler puts words together to packages in a small pool of    *)
(* buffers and queues the full ones; the task handles them, answers the    *)
(* synchronous ones word by word and gives the buffers back.  A word is    *)
(* <<package, position>>; position 2 holds the number of parameters.       *)
(***************************************************************************)
EXTENDS Naturals, Sequences, FiniteSetsExt

CONSTANTS
    Packages,      \* what the remote core sends: a sequence of records of the
                   \* number of parameters and the attribute
    Junk,          \* what a word that is not a count means when read as one
    Buffers,       \* MESSAGE_QUEUE_LEN
    IndexWords,    \* the words after which the index of a buffer wraps
    FifoDepth,     \* MSGBOX_CHANNEL_DEPTH
    Window,        \* bound: packages sent and not yet handled
    EarlyWords,    \* the remote core sends before the task has initialised
    GapAfterAbort  \* a remote core that gives up a package is silent for the
                   \* time limit before it sends the next

ManagerParameters ==
    /\ Packages \in Seq([count : Nat, attr : STRING])
    /\ {Buffers, IndexWords, FifoDepth} \subseteq Nat \ {0}
    /\ Window \in Nat /\ {EarlyWords, GapAfterAbort} \subseteq BOOLEAN

VARIABLES
    fifo,          \* the words in the receive FIFO
    out,           \* the words in the send FIFO
    remote,        \* the remote core: package and words of it sent, and
                   \* whether it must keep silent
    late,          \* TIMEOUT_MS have passed since last_tick
    irqEn,         \* the channels whose interrupt is enabled
    isr,           \* the handler: {} or "in" and the channels to serve
    mctrl,         \* the buffer being filled, 0 if NULL
    buf,           \* the buffers: words, idx (0 or their number), used
    queue,         \* msg_queue
    queueLive,     \* q_handle is set
    pc,            \* where the task is
    cur,           \* pmsgctrl_q
    left,          \* the words of the answer still to send
    txWord,        \* the word handed to the send channel, <<>> when sent
    sendFinish,    \* send_finish
    heard          \* history: the words the remote core has read

lines == <<fifo, out, remote, heard>>
mgr   == <<late, mctrl, buf, queue>>
tx    == <<irqEn, txWord, sendFinish>>
task  == <<queueLive, pc, cur, left>>
vars  == <<lines, mgr, tx, isr, task>>

Buffer == 1..Buffers
WordOfPackage == UNION {{p} \X (1..Packages[p].count + 2) : p \in DOMAIN Packages}

MmTypeOK ==
    /\ fifo \in Seq(WordOfPackage) /\ Len(fifo) <= FifoDepth
    /\ out \in Seq(WordOfPackage) /\ Len(out) <= FifoDepth
    /\ remote \in [package : 1..Len(Packages) + 1, sent : Nat, silent : BOOLEAN]
    /\ {late, queueLive, sendFinish} \subseteq BOOLEAN
    /\ irqEn \subseteq {"rx", "tx"} /\ isr \subseteq {"in", "rx", "tx"}
    /\ mctrl \in 0..Buffers /\ cur \in 0..Buffers
    /\ buf \in [Buffer -> [words : Seq(WordOfPackage), idx : 0..IndexWords - 1,
                           used : BOOLEAN]]
    /\ queue \in Seq(Buffer)
    /\ pc \in {"alloc_rx", "alloc_tx", "create_queue", "receive", "handle",
               "feedback", "spin", "release"}
    /\ left \in Seq(WordOfPackage) /\ heard \in Seq(WordOfPackage)
    /\ txWord \in WordOfPackage \cup {<<>>}

Init ==
    /\ fifo = <<>> /\ out = <<>> /\ heard = <<>>
    /\ remote = [package |-> 1, sent |-> 0, silent |-> FALSE]
    /\ late = FALSE /\ queueLive = FALSE /\ sendFinish = TRUE
    /\ irqEn = {} /\ isr = {}
    /\ mctrl = 1 /\ cur = 0
    /\ buf = [b \in Buffer |-> [words |-> <<>>, idx |-> 0, used |-> FALSE]]
    /\ queue = <<>> /\ left = <<>> /\ txWord = <<>>
    /\ pc = "alloc_rx"

-----------------------------------------------------------------------------
(* The remote core and the clock (external). *)

Words(p) == [i \in 1..Packages[p].count + 2 |-> <<p, i>>]

Unhandled == Cardinality({b \in Buffer : buf[b].used})

RemoteSend ==
    /\ remote.package <= Len(Packages)
    /\ ~remote.silent
    /\ Len(fifo) < FifoDepth
    /\ EarlyWords \/ queueLive
    /\ remote.sent = 0 => Unhandled < Window /\ fifo = <<>>
    /\ LET next == remote.sent + 1
           last == next = Packages[remote.package].count + 2
       IN  /\ fifo' = Append(fifo, <<remote.package, next>>)
           /\ remote' = IF last THEN [remote EXCEPT !.package = @ + 1, !.sent = 0]
                        ELSE [remote EXCEPT !.sent = next]
    /\ UNCHANGED <<out, heard, mgr, tx, isr, task>>

RemoteAbort ==
    /\ remote.sent > 0
    /\ remote' = [package |-> remote.package + 1, sent |-> 0,
                  silent |-> GapAfterAbort]
    /\ UNCHANGED <<fifo, out, heard, mgr, tx, isr, task>>

(* More than TIMEOUT_MS pass: not while the remote core is sending a       *)
(* package, and by then every word sent has been taken.                    *)
TimePasses ==
    /\ remote.sent = 0
    /\ fifo = <<>>
    /\ isr = {}
    /\ late' = TRUE
    /\ remote' = [remote EXCEPT !.silent = FALSE]
    /\ UNCHANGED <<fifo, out, heard, mctrl, buf, queue, tx, isr, task>>

RemoteRead ==
    /\ out # <<>>
    /\ out' = Tail(out)
    /\ heard' = Append(heard, Head(out))
    /\ UNCHANGED <<fifo, remote, mgr, tx, isr, task>>

-----------------------------------------------------------------------------
(* msg_irq_handler_sx serves the channels that are enabled and pending when *)
(* it is entered; the status bits follow the FIFOs.                         *)

Pending ==
    irqEn \cap ((IF fifo # <<>> THEN {"rx"} ELSE {})
                \cup (IF Len(out) < FifoDepth THEN {"tx"} ELSE {}))

IsrEnter ==
    /\ isr = {}
    /\ Pending # {}
    /\ isr' = {"in"} \cup Pending
    /\ UNCHANGED <<lines, mgr, tx, task>>

IsrReturn ==
    /\ isr = {"in"}
    /\ isr' = {}
    /\ UNCHANGED <<lines, mgr, tx, task>>

(* get_available_buf *)
Available(b) ==
    LET free == {i \in Buffer : ~b[i].used} IN IF free = {} THEN 0 ELSE Min(free)

(* Mutant: the index is kept, whatever time has passed. *)
StartOverNever(b) == b.idx = 0

(* A word starts a package, or comes too late to continue one. *)
StartOver(b) == b.idx = 0 \/ late

(* What buf[4] says when the word is there. *)
Count(w) == IF w[2] = 2 THEN Packages[w[1]].count ELSE Junk

(* The index, a byte, is 0 again after IndexWords words. *)
Complete(ws) ==
    Len(ws) >= 2 /\ Len(ws) < IndexWords /\ Len(ws) = Count(ws[2]) + 2

(* Mutant: the full buffer is not marked used. *)
FullUnmarked(b, ws) == [buf EXCEPT ![b] = [words |-> ws, idx |-> 0, used |-> FALSE]]

(* mctrl->used = 1, idx = 0 *)
Full(b, ws) == [buf EXCEPT ![b] = [words |-> ws, idx |-> 0, used |-> TRUE]]

(* Mutant: the index is an int, and leaves the buffer. *)
PartialGrows(b, ws) ==
    [buf EXCEPT ![b] = [words |-> ws, used |-> FALSE, idx |-> Len(ws)]]

Partial(b, ws) ==
    [buf EXCEPT ![b] = [words |-> ws, used |-> FALSE,
                        idx |-> IF Len(ws) = IndexWords THEN 0 ELSE Len(ws)]]

(* msgbox_rev_handler with rev_callback, for one word. *)
RevCallback ==
    /\ "rx" \in isr
    /\ fifo # <<>>
    /\ fifo' = Tail(fifo)
    /\ LET b  == IF mctrl = 0 THEN Available(buf) ELSE mctrl
           ws == IF StartOver(buf[b]) THEN <<Head(fifo)>>
                 ELSE Append(buf[b].words, Head(fifo))
       IN  IF b = 0 THEN UNCHANGED mgr
           ELSE /\ late' = FALSE
                /\ IF ~Complete(ws)
                   THEN /\ buf' = Partial(b, ws)
                        /\ mctrl' = b
                        /\ UNCHANGED queue
                   ELSE IF Len(queue) < Buffers
                   THEN /\ buf' = Full(b, ws)
                        /\ mctrl' = Available(Full(b, ws))
                        /\ queue' = Append(queue, b)
                   ELSE /\ buf' = [buf EXCEPT ![b] = [@ EXCEPT !.idx = 0]]
                        /\ mctrl' = b
                        /\ UNCHANGED queue
    /\ UNCHANGED <<out, remote, heard, tx, isr, task>>

RevDone ==
    /\ "rx" \in isr
    /\ fifo = <<>>
    /\ isr' = isr \ {"rx"}
    /\ UNCHANGED <<lines, mgr, tx, task>>

(* msgbox_send_handler *)
Sending == "tx" \in isr /\ "rx" \notin isr

SendWord ==
    /\ Sending
    /\ Len(out) < FifoDepth
    /\ txWord # <<>>
    /\ out' = Append(out, txWord)
    /\ txWord' = <<>>
    /\ UNCHANGED <<fifo, remote, heard, mgr, irqEn, sendFinish, isr, task>>

SendFull ==
    /\ Sending
    /\ Len(out) = FifoDepth
    /\ isr' = isr \ {"tx"}
    /\ UNCHANGED <<lines, mgr, tx, task>>

(* Mutant: the interrupt of the channel stays enabled. *)
SendDoneKeeps ==
    /\ Sending
    /\ Len(out) < FifoDepth
    /\ txWord = <<>>
    /\ sendFinish' = TRUE
    /\ isr' = isr \ {"tx"}
    /\ UNCHANGED <<lines, mgr, irqEn, txWord, task>>

SendDone ==
    /\ Sending
    /\ Len(out) < FifoDepth
    /\ txWord = <<>>
    /\ irqEn' = irqEn \ {"tx"}
    /\ sendFinish' = TRUE
    /\ isr' = isr \ {"tx"}
    /\ UNCHANGED <<lines, mgr, txWord, task>>

Isr == IsrEnter \/ RevCallback \/ RevDone \/ SendWord \/ SendFull \/ SendDone
       \/ IsrReturn

-----------------------------------------------------------------------------
(* task_message_manage *)

At(point) == isr = {} /\ pc = point
Goto(point) == pc' = point

AllocRx ==
    /\ At("alloc_rx")
    /\ irqEn' = irqEn \cup {"rx"}
    /\ Goto("alloc_tx")
    /\ UNCHANGED <<lines, mgr, txWord, sendFinish, isr, queueLive, cur, left>>

AllocTx ==
    /\ At("alloc_tx")
    /\ Goto("create_queue")
    /\ UNCHANGED <<lines, mgr, tx, isr, queueLive, cur, left>>

CreateQueue ==
    /\ At("create_queue")
    /\ queueLive' = TRUE
    /\ Goto("receive")
    /\ UNCHANGED <<lines, mgr, tx, isr, cur, left>>

Receive ==
    /\ At("receive")
    /\ queue # <<>>
    /\ cur' = Head(queue)
    /\ queue' = Tail(queue)
    /\ Goto("handle")
    /\ UNCHANGED <<lines, late, mctrl, buf, tx, isr, queueLive, left>>

(* coming_msg_handler; only a hard synchronous message is answered. *)
Handle ==
    /\ At("handle")
    /\ LET ws == buf[cur].words
       IN  left' = IF Packages[ws[1][1]].attr = "hard" THEN ws ELSE <<>>
    /\ Goto("feedback")
    /\ UNCHANGED <<lines, mgr, tx, isr, queueLive, cur>>

(* Mutant: the word is handed over while the one before is being sent. *)
IdleUnchecked == TRUE

(* while (!send_finish) *)
Idle == sendFinish

(* msg_feedback: one arisc_send_to_cpu. *)
Feedback ==
    /\ At("feedback")
    /\ left # <<>>
    /\ Idle
    /\ sendFinish' = FALSE
    /\ txWord' = Head(left)
    /\ irqEn' = irqEn \cup {"tx"}
    /\ left' = Tail(left)
    /\ UNCHANGED <<lines, mgr, isr, queueLive, pc, cur>>

Fed ==
    /\ At("feedback")
    /\ left = <<>>
    /\ Idle
    /\ Goto("release")
    /\ UNCHANGED <<lines, mgr, tx, isr, queueLive, cur, left>>

(* pmsgctrl_q->used = 0 *)
Release ==
    /\ At("release")
    /\ buf' = [buf EXCEPT ![cur].used = FALSE]
    /\ cur' = 0
    /\ Goto("receive")
    /\ UNCHANGED <<lines, late, mctrl, queue, tx, isr, queueLive, left>>

Task == AllocRx \/ AllocTx \/ CreateQueue \/ Receive \/ Handle \/ Feedback
        \/ Fed \/ Release

Next == RemoteSend \/ RemoteAbort \/ TimePasses \/ RemoteRead \/ Isr \/ Task

Fairness == WF_vars(Isr) /\ WF_vars(Task) /\ WF_vars(RemoteRead)

Spec == Init /\ [][Next]_vars /\ Fairness

-----------------------------------------------------------------------------
(* Hazard: the task gives a buffer back while the handler looks for one.   *)
(* A buffer is used exactly when it is in the queue, once, or with the     *)
(* task, and the handler never fills one of those.                         *)
BuffersOwned ==
    /\ \A b \in Buffer :
         LET places == {i \in DOMAIN queue : queue[i] = b}
         IN  /\ Cardinality(places) + (IF cur = b THEN 1 ELSE 0)
                  = IF buf[b].used THEN 1 ELSE 0
             /\ buf[b].used => mctrl # b

(* A remote core that leaves no more than Buffers packages unhandled, is    *)
(* silent after a package it gives up, and sends none that is longer than  *)
(* a buffer.                                                               *)
Orderly ==
    /\ Window <= Buffers /\ GapAfterAbort
    /\ \A p \in DOMAIN Packages : Packages[p].count + 2 <= IndexWords

(* Hazard: a package that stops half way, a length compared with an index  *)
(* of eight bits.  What the task takes from the queue is one whole package *)
(* as it was sent, if the remote core is orderly; a package of as many      *)
(* words as the index holds is dropped whole.                              *)
WholePackages ==
    Orderly =>
        \A b \in Buffer : buf[b].used => buf[b].words = Words(buf[b].words[1][1])

(* Hazard: the send is asynchronous and keeps a pointer to a variable of   *)
(* the caller; a word handed over before the last was sent replaces it.    *)
(* The remote core reads the words of an answer in their order, if it is   *)
(* orderly.                                                                *)
AnswersWhole ==
    Orderly =>
        \A i \in DOMAIN heard : heard[i][2] > 1 =>
            i > 1 /\ heard[i - 1] = <<heard[i][1], heard[i][2] - 1>>

(* Every buffer that was filled is given back.                             *)
BuffersReturn == \A b \in Buffer : buf[b].used ~> ~buf[b].used
=============================================================================
