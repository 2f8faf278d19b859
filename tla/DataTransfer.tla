---------------------------- MODULE DataTransfer ----------------------------
(***************************************************************************)
(* The data transfer sample (freertos/components/thirdparty/algo_sample/   *)
(* data_transfer.c): an owner that cuts what it sends into the buffers of a *)
(* pool and queues them, a task that writes them to a sound card, and the  *)
(* destruction.  Data are units <<call, position>>.                        *)
(***************************************************************************)
EXTENDS Naturals, SequencesExt

CONSTANTS
    Lengths,       \* the lengths the owner sends, one for each call
    BlockLength,   \* length of a buffer
    QueueSize      \* ADT_QUEUE_SIZE

TransferParameters ==
    /\ Lengths \in Seq(Nat) /\ Lengths # <<>>
    /\ {BlockLength, QueueSize} \subseteq Nat \ {0}

VARIABLES
    adt,           \* "none", "live" or "freed"
    pool,          \* pcm_queue: used, and the units of pcm_data
    work,          \* work_queue
    pc,            \* where adt_task is
    item,          \* its local variable: the buffer, or 0
    handle,        \* the stream: "closed" or "open"
    played,        \* history: the units written to the card
    owner          \* the owner: where it is, its call, buffer and offset

vars == <<adt, pool, work, pc, item, handle, played, owner>>

Buffer == 1..QueueSize
Exit == 0                \* ADT_QUEUE_EXIT, which carries no buffer
Unit == (1..Len(Lengths)) \X Nat

DtTypeOK ==
    /\ adt \in {"none", "live", "freed"} /\ handle \in {"open", "closed"}
    /\ pool \in [Buffer -> [used : BOOLEAN, units : Seq(Unit)]]
    /\ work \in Seq(Buffer \cup {Exit}) /\ Len(work) <= QueueSize
    /\ pc \in {"none", "receive", "write", "release", "exit", "deleted"}
    /\ item \in Buffer \cup {Exit}
    /\ played \in Seq(Unit)
    /\ owner \in [at : {"create", "find", "queue", "destroy", "done"},
                  call : 1..Len(Lengths) + 1, buffer : Buffer, offset : Nat]

Init ==
    /\ adt = "none" /\ handle = "closed"
    /\ pool = [b \in Buffer |-> [used |-> FALSE, units |-> <<>>]]
    /\ work = <<>> /\ pc = "none" /\ item = Exit
    /\ played = <<>>
    /\ owner = [at |-> "create", call |-> 1, buffer |-> 1, offset |-> 0]

-----------------------------------------------------------------------------
(* The owner: aw_data_transfer_create, _send and _destroy. *)

CreateReturnsNull ==
    /\ owner.at = "create"
    /\ owner' = [owner EXCEPT !.at = "done"]
    /\ UNCHANGED <<adt, pool, work, pc, item, handle, played>>

Create ==
    /\ owner.at = "create"
    /\ owner' = [owner EXCEPT !.at = "find"]
    /\ adt' = "live"
    /\ handle' = "open"
    /\ pc' = "receive"
    /\ UNCHANGED <<pool, work, item, played>>

(* Mutant: a buffer is taken whether or not it is used. *)
FreeUnchecked == Buffer

Free == {b \in Buffer : ~pool[b].used}

(* The length of the next block is chosen by the whole length, not by what *)
(* remains.                                                                *)
SendLen(len) == IF BlockLength >= len THEN len ELSE BlockLength

(* get_free_pcm_queue, used = 1 and the copy. *)
FillBlock ==
    /\ owner.at = "find"
    /\ Free # {}
    /\ LET b == Min(Free)
           block == [i \in 1..SendLen(Lengths[owner.call]) |->
                        <<owner.call, owner.offset + i>>]
       IN  /\ pool' = [pool EXCEPT ![b] = [used |-> TRUE, units |-> block]]
           /\ owner' = [owner EXCEPT !.at = "queue", !.buffer = b]
    /\ UNCHANGED <<adt, work, pc, item, handle, played>>

(* offset += send_len, and the next block, call, or the end. *)
AfterBlock ==
    LET len == Lengths[owner.call]
        offset == owner.offset + SendLen(len)
    IN  IF offset < len THEN [owner EXCEPT !.at = "find", !.offset = offset]
        ELSE [owner EXCEPT !.at = IF @ = "queue" /\ owner.call = Len(Lengths)
                                  THEN "destroy" ELSE "find",
                           !.call = @ + 1, !.offset = 0]

(* The queue has room for every buffer, and SendFindsRoom says that the    *)
(* limit of 200 ms never runs out.                                         *)
QueueBlock ==
    /\ owner.at = "queue"
    /\ Len(work) < QueueSize
    /\ work' = Append(work, owner.buffer)
    /\ owner' = AfterBlock
    /\ UNCHANGED <<adt, pool, pc, item, handle, played>>

QueueExit ==
    /\ owner.at = "destroy"
    /\ Len(work) < QueueSize
    /\ work' = Append(work, Exit)
    /\ owner' = [owner EXCEPT !.at = "done"]
    /\ UNCHANGED <<adt, pool, pc, item, handle, played>>

(* Mutant: the destruction is given up. *)
QueueExitGivesUp ==
    /\ owner.at = "destroy"
    /\ Len(work) = QueueSize
    /\ owner' = [owner EXCEPT !.at = "done"]
    /\ UNCHANGED <<adt, pool, work, pc, item, handle, played>>

(* After 20 ms aw_data_transfer_destroy frees what the task uses. *)
QueueExitFails ==
    /\ owner.at = "destroy"
    /\ Len(work) = QueueSize
    /\ adt' = "freed"
    /\ handle' = "closed"
    /\ owner' = [owner EXCEPT !.at = "done"]
    /\ UNCHANGED <<pool, work, pc, item, played>>

Owner == Create \/ CreateReturnsNull \/ FillBlock \/ QueueBlock
         \/ QueueExit \/ QueueExitFails

-----------------------------------------------------------------------------
(* adt_task; what it does with the memory after adt is freed is undefined. *)

At(point) == pc = point /\ adt = "live"

(* Mutant: the buffer is free as soon as it has left the queue. *)
ReceiveReleases ==
    /\ At("receive")
    /\ work # <<>>
    /\ item' = Head(work)
    /\ work' = Tail(work)
    /\ pc' = IF Head(work) = Exit THEN "exit" ELSE "write"
    /\ pool' = [b \in Buffer |->
                   IF b = Head(work) THEN [pool[b] EXCEPT !.used = FALSE]
                   ELSE pool[b]]
    /\ UNCHANGED <<adt, handle, played, owner>>

Receive ==
    /\ At("receive")
    /\ work # <<>>
    /\ item' = Head(work)
    /\ work' = Tail(work)
    /\ pc' = IF Head(work) = Exit THEN "exit" ELSE "write"
    /\ UNCHANGED <<adt, pool, handle, played, owner>>

Write ==
    /\ At("write")
    /\ played' = played \o pool[item].units
    /\ pc' = "release"
    /\ UNCHANGED <<adt, pool, work, item, handle, owner>>

Release ==
    /\ At("release")
    /\ pool' = [pool EXCEPT ![item].used = FALSE]
    /\ pc' = "receive"
    /\ UNCHANGED <<adt, work, item, handle, played, owner>>

Finish ==
    /\ At("exit")
    /\ handle' = "closed"
    /\ adt' = "freed"
    /\ pc' = "deleted"
    /\ UNCHANGED <<pool, work, item, played, owner>>

Task == Receive \/ Write \/ Release \/ Finish

Next == Owner \/ Task

(* The owner and the task both get the processor. *)
Fairness == WF_vars(Task) /\ WF_vars(Owner)

Spec == Init /\ [][Next]_vars /\ Fairness

-----------------------------------------------------------------------------
(* A call of no more than a block, or of whole blocks. *)
Whole(call) ==
    Lengths[call] <= BlockLength \/ Lengths[call] % BlockLength = 0

(* What such calls give, and the order in which it is to be played. *)
Given == UNION {{c} \X (1..Lengths[c]) : c \in {d \in DOMAIN Lengths : Whole(d)}}

Before(u, v) == u[1] < v[1] \/ (u[1] = v[1] /\ u[2] < v[2])

(* Hazard: the length of a block is chosen by the whole length of the call. *)
(* Of such calls the units that have been played are the first of those     *)
(* given, each once and in their order, and all of them in the end.         *)
PlaysWhatWasSent ==
    /\ \A i \in DOMAIN played : Whole(played[i][1]) =>
          /\ played[i] \in Given
          /\ \A u \in Given :
                Before(u, played[i]) <=> \E j \in 1..i - 1 : played[j] = u
    /\ pc = "deleted" => \A u \in Given : \E i \in DOMAIN played : played[i] = u

(* Hazard: a full queue, whose error send returns only for its last block. *)
(* There is always room for a block whose buffer was free.                 *)
SendFindsRoom == owner.at = "queue" => Len(work) < QueueSize

(* The stream that was opened is closed after the owner has destroyed it.  *)
StreamCloses == owner.at = "done" ~> handle = "closed"
=============================================================================
