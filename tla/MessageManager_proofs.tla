------------------------ MODULE MessageManager_proofs ------------------------
(***************************************************************************)
(* Theorems about MessageManager, for any packages, any number of buffers, *)
(* any depth of the FIFOs and any window: a buffer has one user, whatever  *)
(* the remote core sends; and of an orderly remote core the task gets      *)
(* whole packages, and their answers reach it in their order.              *)
(***************************************************************************)
EXTENDS MessageManager, FiniteSetTheorems, SequenceTheorems,
        WellFoundedInduction, TLAPS

Points == {"alloc_rx", "alloc_tx", "create_queue", "receive", "handle",
           "feedback", "spin", "release"}

BufferState == [words : Seq(WordOfPackage), idx : 0..IndexWords - 1,
                used : BOOLEAN]

(* The remote core has not sent more words than the package has.           *)
RemoteInv ==
    IF remote.package <= Len(Packages)
    THEN remote.sent < Packages[remote.package].count + 2
    ELSE remote.sent = 0

(* Only the buffer that is being filled has an index, the number of its    *)
(* words.                                                                  *)
IndexInv ==
    \A b \in Buffer :
        /\ b # mctrl => buf[b].idx = 0
        /\ buf[b].idx # 0 => Len(buf[b].words) = buf[b].idx

(* The task has a buffer while it handles a package, and words of an       *)
(* answer while it sends one.                                              *)
TaskInv ==
    /\ pc \in {"handle", "feedback", "release"} <=> cur # 0
    /\ pc # "feedback" => left = <<>>
    /\ sendFinish => txWord = <<>>

(* A buffer is in the queue once or with the task, and is used then.       *)
Queued(b) == \E i \in 1..Len(queue) : queue[i] = b

OwnInv ==
    /\ \A i, j \in 1..Len(queue) : queue[i] = queue[j] => i = j
    /\ \A b \in Buffer : buf[b].used <=> (Queued(b) \/ cur = b)
    /\ cur # 0 => ~Queued(cur)
    /\ mctrl # 0 => ~buf[mctrl].used

BasicInv == MmTypeOK /\ RemoteInv /\ IndexInv /\ TaskInv /\ OwnInv

(* The next word will start a package.                                     *)
Fresh == mctrl = 0 \/ buf[mctrl].idx = 0 \/ late

(* The first n words of package p have been collected, in time.            *)
Open(p, n) ==
    /\ mctrl # 0 /\ ~late
    /\ buf[mctrl].idx = n /\ n # 0
    /\ \A i \in 1..n : buf[mctrl].words[i] = <<p, i>>

(* What is in the FIFO continues what has been collected, and ends with    *)
(* the word sent last; and what starts there will find a buffer.           *)
InFifo(p, k) ==
    /\ \A i \in 1..Len(fifo) : fifo[i] = <<p, k + i - 1>>
    /\ IF remote.sent > 0
       THEN p = remote.package /\ k + Len(fifo) - 1 = remote.sent
       ELSE remote.silent \/ k + Len(fifo) - 1 = Packages[p].count + 2
    /\ IF k = 1 THEN Fresh /\ \E b \in Buffer : ~buf[b].used
       ELSE Open(p, k - 1)

FlowInv ==
    /\ fifo # <<>> =>
          \E p \in DOMAIN Packages :
              \E k \in 1..Packages[p].count + 2 : InFifo(p, k)
    /\ fifo = <<>> => IF remote.sent > 0 THEN Open(remote.package, remote.sent)
                      ELSE remote.silent \/ Fresh

(* What has been handed over for the remote core, in order.                *)
Sent ==
    heard \o out \o (IF txWord = <<>> THEN <<>> ELSE <<txWord>>) \o left

Chain(words) ==
    \A i \in 1..Len(words) : words[i][2] > 1 =>
        i > 1 /\ words[i - 1] = <<words[i][1], words[i][2] - 1>>

(* The inductive invariant.                                                *)
MmInv ==
    /\ BasicInv
    /\ Orderly => FlowInv /\ WholePackages /\ Chain(Sent)

-----------------------------------------------------------------------------
(* Helpers. *)

(* A set of natural numbers that is not empty has a least element.         *)
LEMMA Least ==
    ASSUME NEW S, S \subseteq Nat, S # {}
    PROVE  Min(S) \in S
<1> DEFINE R == OpToRel(<, Nat)
<1>1. IsWellFoundedOn(R, Nat)
  BY NatLessThanWellFounded
<1>2. \A x, y \in Nat : x < y => <<x, y>> \in R
  BY DEF OpToRel
<1> HIDE DEF R
<1>3. PICK x \in S : \A y \in S : ~ (<<y, x>> \in R)
  BY <1>1, WFMin
<1>4. \A y \in S : x <= y
  <2> TAKE y \in S
  <2>1. x \in Nat /\ y \in Nat
    OBVIOUS
  <2>2. ~ (y < x)
    BY <1>2, <1>3, <2>1
  <2> QED BY <2>1, <2>2
<1> QED BY <1>4 DEF Min

(* get_available_buf finds a buffer that is not used, if there is one.     *)
LEMMA Found ==
    ASSUME ManagerParameters, NEW b
    PROVE  /\ Available(b) \in 0..Buffers
           /\ Available(b) # 0 => Available(b) \in Buffer /\ ~b[Available(b)].used
           /\ Available(b) = 0 => \A i \in Buffer : b[i].used
<1> DEFINE free == {i \in Buffer : ~b[i].used}
<1>1. CASE free = {}
  BY <1>1 DEF Available, ManagerParameters
<1>2. ASSUME free # {}
      PROVE  /\ Available(b) = Min(free) /\ Min(free) \in free
             /\ Min(free) \in Buffer /\ Min(free) \in 1..Buffers
  <2>1. free \subseteq Nat
    BY DEF Buffer, ManagerParameters
  <2>2. Min(free) \in free
    BY <1>2, <2>1, Least
  <2> QED BY <1>2, <2>2 DEF Available, Buffer
<1> HIDE DEF free
<1>3. CASE free # {}
  <2>1. Min(free) \in 0..Buffers /\ Min(free) # 0 /\ ~b[Min(free)].used
    BY <1>2, <1>3 DEF ManagerParameters, free
  <2> QED BY <1>2, <1>3, <2>1
<1> QED BY <1>1, <1>3

(* The words of a package, and what they say.                              *)
LEMMA WordFacts ==
    ASSUME ManagerParameters
    PROVE  /\ \A p \in DOMAIN Packages :
                /\ p \in 1..Len(Packages) /\ p \in Nat
                /\ Packages[p].count \in Nat
                /\ \A i \in 1..Packages[p].count + 2 : <<p, i>> \in WordOfPackage
           /\ \A w \in WordOfPackage :
                /\ w = <<w[1], w[2]>> /\ w # <<>>
                /\ w[1] \in DOMAIN Packages
                /\ w[2] \in 1..Packages[w[1]].count + 2 /\ w[2] \in Nat
           /\ DOMAIN Packages = 1..Len(Packages) /\ Len(Packages) \in Nat
<1>1. /\ DOMAIN Packages = 1..Len(Packages) /\ Len(Packages) \in Nat
      /\ \A p \in DOMAIN Packages :
            /\ p \in 1..Len(Packages) /\ p \in Nat
            /\ Packages[p].count \in Nat
  <2> DEFINE Package == [count : Nat, attr : STRING]
  <2>1. \A x \in Package : x.count \in Nat
    OBVIOUS
  <2>2. Packages \in Seq(Package)
    BY DEF ManagerParameters
  <2> HIDE DEF Package
  <2>3. /\ DOMAIN Packages = 1..Len(Packages) /\ Len(Packages) \in Nat
        /\ \A p \in 1..Len(Packages) : Packages[p] \in Package
    BY <2>2
  <2> QED BY <2>1, <2>3
<1>2. ASSUME NEW p \in DOMAIN Packages, NEW i \in 1..Packages[p].count + 2
      PROVE  <<p, i>> \in WordOfPackage
  BY <1>1 DEF WordOfPackage
<1>3. ASSUME NEW w \in WordOfPackage
      PROVE  /\ w = <<w[1], w[2]>> /\ w # <<>>
             /\ w[1] \in DOMAIN Packages
             /\ w[2] \in 1..Packages[w[1]].count + 2 /\ w[2] \in Nat
  <2>1. PICK p \in DOMAIN Packages : w \in {p} \X (1..Packages[p].count + 2)
    BY DEF WordOfPackage
  <2>2. PICK i \in 1..Packages[p].count + 2 : w = <<p, i>>
    BY <2>1
  <2> QED BY <1>1, <2>2
<1> QED BY <1>1, <1>2, <1>3

(* What the types say of the remote core, the queue and the FIFOs.         *)
LEMMA Fields ==
    ASSUME ManagerParameters, BasicInv
    PROVE  /\ remote.package \in 1..Len(Packages) + 1 /\ remote.package \in Nat
           /\ remote.sent \in Nat /\ remote.silent \in BOOLEAN
           /\ remote = [package |-> remote.package, sent |-> remote.sent,
                        silent |-> remote.silent]
           /\ remote.sent > 0 => remote.package \in DOMAIN Packages
           /\ remote.package \in DOMAIN Packages =>
                 remote.sent < Packages[remote.package].count + 2
           /\ fifo # <<>> => /\ Head(fifo) \in WordOfPackage
                             /\ Tail(fifo) \in Seq(WordOfPackage)
                             /\ Len(Tail(fifo)) = Len(fifo) - 1
           /\ queue # <<>> => Head(queue) \in Buffer /\ Tail(queue) \in Seq(Buffer)
           /\ cur # 0 => cur \in Buffer
           /\ mctrl # 0 => mctrl \in Buffer
<1> USE DEF BasicInv
<1>1. /\ remote.package \in 1..Len(Packages) + 1 /\ remote.sent \in Nat
      /\ remote.silent \in BOOLEAN
      /\ remote = [package |-> remote.package, sent |-> remote.sent,
                   silent |-> remote.silent]
  BY DEF MmTypeOK
<1>2. /\ remote.package \in Nat
      /\ remote.sent > 0 => remote.package \in DOMAIN Packages
      /\ remote.package \in DOMAIN Packages =>
            remote.sent < Packages[remote.package].count + 2
  BY <1>1, WordFacts DEF RemoteInv
<1>3. fifo # <<>> => /\ Head(fifo) \in WordOfPackage
                     /\ Tail(fifo) \in Seq(WordOfPackage)
                     /\ Len(Tail(fifo)) = Len(fifo) - 1
  BY DEF MmTypeOK
<1>4. queue # <<>> => Head(queue) \in Buffer /\ Tail(queue) \in Seq(Buffer)
  BY DEF MmTypeOK
<1>5. (cur # 0 => cur \in Buffer) /\ (mctrl # 0 => mctrl \in Buffer)
  BY DEF MmTypeOK, Buffer, ManagerParameters
<1> QED BY <1>1, <1>2, <1>3, <1>4, <1>5

(* The four ways through rev_callback.                                     *)
Target == IF mctrl = 0 THEN Available(buf) ELSE mctrl

Collected ==
    IF StartOver(buf[Target]) THEN <<Head(fifo)>>
    ELSE Append(buf[Target].words, Head(fifo))

RevNothing == Target = 0 /\ UNCHANGED mgr

RevPartial ==
    /\ Target # 0 /\ ~Complete(Collected)
    /\ buf' = Partial(Target, Collected) /\ mctrl' = Target
    /\ late' = FALSE /\ UNCHANGED queue

RevFull ==
    /\ Target # 0 /\ Complete(Collected)
    /\ buf' = Full(Target, Collected)
    /\ mctrl' = Available(Full(Target, Collected))
    /\ late' = FALSE /\ queue' = Append(queue, Target)

RevLost ==
    /\ Target # 0 /\ Complete(Collected)
    /\ buf' = [buf EXCEPT ![Target] = [@ EXCEPT !.idx = 0]]
    /\ mctrl' = Target
    /\ late' = FALSE /\ UNCHANGED queue

LEMMA RevCases ==
    ASSUME RevCallback
    PROVE  /\ fifo # <<>> /\ fifo' = Tail(fifo)
           /\ UNCHANGED <<out, remote, heard, tx, isr, task>>
           /\ RevNothing \/ RevPartial \/ RevFull \/ RevLost
BY DEF RevCallback, Target, Collected, RevNothing, RevPartial, RevFull, RevLost,
       mgr

(* The buffer it fills is not used, and its words are those of the FIFO.   *)
LEMMA RevTarget ==
    ASSUME ManagerParameters, BasicInv, RevCallback
    PROVE  /\ Target \in 0..Buffers
           /\ Target # 0 => Target \in Buffer /\ ~buf[Target].used
           /\ mctrl # 0 => Target = mctrl
           /\ Target = 0 => \A i \in Buffer : buf[i].used
           /\ Head(fifo) \in WordOfPackage /\ Tail(fifo) \in Seq(WordOfPackage)
           /\ Len(Tail(fifo)) = Len(fifo) - 1
           /\ Target # 0 =>
                /\ Collected \in Seq(WordOfPackage)
                /\ Len(Collected) \in 1..IndexWords
                /\ IF StartOver(buf[Target]) THEN Collected = <<Head(fifo)>>
                   ELSE Collected = Append(buf[Target].words, Head(fifo))
<1> USE DEF BasicInv
<1>1. /\ Target \in 0..Buffers
      /\ Target # 0 => Target \in Buffer /\ ~buf[Target].used
      /\ mctrl # 0 => Target = mctrl
      /\ Target = 0 => \A i \in Buffer : buf[i].used
  <2>1. mctrl \in 0..Buffers /\ (mctrl # 0 => ~buf[mctrl].used)
    BY DEF OwnInv, MmTypeOK
  <2>2. CASE mctrl = 0
    BY <2>2, Found DEF Target
  <2>3. CASE mctrl # 0
    BY <2>1, <2>3 DEF Target, Buffer, ManagerParameters
  <2> QED BY <2>2, <2>3
<1>2. /\ fifo \in Seq(WordOfPackage) /\ fifo # <<>>
  BY RevCases DEF MmTypeOK
<1>3. /\ Head(fifo) \in WordOfPackage /\ Tail(fifo) \in Seq(WordOfPackage)
      /\ Len(Tail(fifo)) = Len(fifo) - 1
  BY <1>2
<1>4. ASSUME Target # 0
      PROVE  /\ Collected \in Seq(WordOfPackage)
             /\ Len(Collected) \in 1..IndexWords
  <2>1. Target \in Buffer /\ IndexWords \in Nat \ {0}
    BY <1>1, <1>4 DEF ManagerParameters
  <2>2. /\ buf[Target].words \in Seq(WordOfPackage)
        /\ buf[Target].idx \in 0..IndexWords - 1
        /\ buf[Target].idx # 0 => Len(buf[Target].words) = buf[Target].idx
    BY <2>1 DEF MmTypeOK, IndexInv
  <2>3. CASE StartOver(buf[Target])
    BY <1>3, <2>1, <2>3 DEF Collected
  <2>4. CASE ~StartOver(buf[Target])
    <3>1. Len(buf[Target].words) \in 1..IndexWords - 1
      BY <2>1, <2>2, <2>4 DEF StartOver
    <3>2. Collected = Append(buf[Target].words, Head(fifo))
      BY <2>4 DEF Collected
    <3> QED BY <1>3, <2>1, <2>2, <3>1, <3>2
  <2> QED BY <2>3, <2>4
<1> QED BY <1>1, <1>3, <1>4 DEF Collected

-----------------------------------------------------------------------------
(* Types. *)

LEMMA TypeStep ==
    ASSUME ManagerParameters, BasicInv, [Next]_vars
    PROVE  MmTypeOK'
<1> USE DEF lines, mgr, tx, task
<1>0. MmTypeOK /\ FifoDepth \in Nat \ {0} /\ Buffers \in Nat \ {0}
  BY DEF BasicInv, ManagerParameters
<1>1. CASE RemoteSend
  <2> DEFINE next == remote.sent + 1
             last == next = Packages[remote.package].count + 2
  <2>1. /\ remote.package \in DOMAIN Packages /\ remote.sent \in Nat
        /\ next \in 1..Packages[remote.package].count + 2
        /\ remote.package \in Nat /\ Len(Packages) \in Nat
    <3>1. /\ Len(Packages) \in Nat /\ DOMAIN Packages = 1..Len(Packages)
          /\ remote.package \in 1..Len(Packages) + 1 /\ remote.sent \in Nat
          /\ remote.package <= Len(Packages)
      BY <1>1, Fields, WordFacts DEF RemoteSend
    <3>2. remote.package \in DOMAIN Packages
      BY <3>1
    <3>3. /\ Packages[remote.package].count \in Nat
          /\ remote.sent < Packages[remote.package].count + 2
      BY <3>2, Fields, WordFacts
    <3> QED BY <3>1, <3>2, <3>3
  <2>2. fifo' = Append(fifo, <<remote.package, next>>)
    BY <1>1 DEF RemoteSend
  <2>3. fifo' \in Seq(WordOfPackage) /\ Len(fifo') <= FifoDepth
    <3>1. Len(fifo) < FifoDepth
      BY <1>1 DEF RemoteSend
    <3>2. <<remote.package, next>> \in WordOfPackage
      BY <2>1, WordFacts
    <3> QED BY <1>0, <2>2, <3>1, <3>2 DEF MmTypeOK
  <2>4. remote' \in [package : 1..Len(Packages) + 1, sent : Nat, silent : BOOLEAN]
    <3>1. remote' = IF last THEN [remote EXCEPT !.package = @ + 1, !.sent = 0]
                    ELSE [remote EXCEPT !.sent = next]
      BY <1>1 DEF RemoteSend
    <3>2. remote.package + 1 \in 1..Len(Packages) + 1 /\ next \in Nat
      BY <2>1, WordFacts
    <3> HIDE DEF last, next
    <3> QED BY <1>0, <3>1, <3>2 DEF MmTypeOK
  <2> QED BY <1>0, <1>1, <2>3, <2>4 DEF RemoteSend, MmTypeOK
<1>2. CASE RemoteAbort
  <2>1. /\ remote.package \in 1..Len(Packages) /\ Len(Packages) \in Nat
        /\ GapAfterAbort \in BOOLEAN
    BY <1>2, Fields, WordFacts DEF RemoteAbort, ManagerParameters
  <2>2. remote.package + 1 \in 1..Len(Packages) + 1
    BY <2>1
  <2>3. remote' \in [package : 1..Len(Packages) + 1, sent : Nat, silent : BOOLEAN]
    BY <1>2, <2>1, <2>2 DEF RemoteAbort
  <2> QED BY <1>0, <1>2, <2>3 DEF RemoteAbort, MmTypeOK
<1>3. CASE TimePasses
  BY <1>0, <1>3 DEF TimePasses, MmTypeOK
<1>4. CASE RemoteRead
  BY <1>0, <1>4 DEF RemoteRead, MmTypeOK
<1>5. CASE IsrEnter
  BY <1>0, <1>5 DEF IsrEnter, Pending, MmTypeOK
<1>6. CASE RevCallback
  <2>1. /\ fifo' \in Seq(WordOfPackage) /\ Len(fifo') <= FifoDepth
        /\ UNCHANGED <<out, remote, heard, tx, isr, task>>
    <3>1. /\ fifo' = Tail(fifo) /\ Tail(fifo) \in Seq(WordOfPackage)
          /\ Len(Tail(fifo)) = Len(fifo) - 1
          /\ UNCHANGED <<out, remote, heard, tx, isr, task>>
      BY <1>6, RevCases, RevTarget
    <3>2. Len(fifo) \in Nat /\ Len(fifo) <= FifoDepth
      BY <1>0 DEF MmTypeOK
    <3> QED BY <1>0, <3>1, <3>2
  <2>2. /\ late' \in BOOLEAN /\ mctrl' \in 0..Buffers
        /\ buf' \in [Buffer -> BufferState] /\ queue' \in Seq(Buffer)
    <3>0. /\ late \in BOOLEAN /\ mctrl \in 0..Buffers
          /\ buf \in [Buffer -> BufferState] /\ queue \in Seq(Buffer)
          /\ Target \in 0..Buffers /\ (Target # 0 => Target \in Buffer)
          /\ 0 \in 0..IndexWords - 1
      BY <1>0, <1>6, RevTarget DEF MmTypeOK, BufferState, ManagerParameters
    <3>1. CASE RevNothing
      BY <3>0, <3>1 DEF RevNothing
    <3>2. CASE RevPartial
      <4>1. /\ Collected \in Seq(WordOfPackage)
            /\ (IF Len(Collected) = IndexWords THEN 0 ELSE Len(Collected))
                  \in 0..IndexWords - 1
        BY <1>6, <3>2, RevTarget DEF RevPartial, ManagerParameters
      <4> QED BY <3>0, <3>2, <4>1 DEF RevPartial, Partial, BufferState
    <3>3. CASE RevFull
      <4>1. Collected \in Seq(WordOfPackage)
        BY <1>6, <3>3, RevTarget DEF RevFull
      <4>2. mctrl' \in 0..Buffers
        <5> DEFINE full == Full(Target, Collected)
        <5>1. mctrl' = Available(full)
          BY <3>3 DEF RevFull
        <5> HIDE DEF full
        <5> QED BY <5>1, Found
      <4>3. buf' \in [Buffer -> BufferState]
        <5>1. [words |-> Collected, idx |-> 0, used |-> TRUE] \in BufferState
          BY <3>0, <4>1 DEF BufferState
        <5> QED BY <3>0, <3>3, <5>1 DEF RevFull, Full
      <4>4. queue' \in Seq(Buffer) /\ late' \in BOOLEAN
        <5>1. Target \in Buffer /\ queue' = Append(queue, Target) /\ late' = FALSE
          BY <3>0, <3>3 DEF RevFull
        <5>2. queue \in Seq(Buffer)
          BY <3>0
        <5>3. Append(queue, Target) \in Seq(Buffer)
          BY <5>1, <5>2
        <5> QED BY <5>1, <5>3
      <4> QED BY <4>2, <4>3, <4>4
    <3>4. CASE RevLost
      BY <3>0, <3>4 DEF RevLost, BufferState
    <3> QED BY <1>6, <3>1, <3>2, <3>3, <3>4, RevCases
  <2> QED BY <1>0, <2>1, <2>2 DEF MmTypeOK, BufferState
<1>7. CASE RevDone
  BY <1>0, <1>7 DEF RevDone, MmTypeOK
<1>8. CASE SendWord
  BY <1>0, <1>8 DEF SendWord, MmTypeOK
<1>9. CASE SendFull
  BY <1>0, <1>9 DEF SendFull, MmTypeOK
<1>10. CASE SendDone
  BY <1>0, <1>10 DEF SendDone, MmTypeOK
<1>11. CASE IsrReturn
  BY <1>0, <1>11 DEF IsrReturn, MmTypeOK
<1>12. CASE AllocRx
  BY <1>0, <1>12 DEF AllocRx, Goto, MmTypeOK
<1>13. CASE AllocTx
  BY <1>0, <1>13 DEF AllocTx, Goto, MmTypeOK
<1>14. CASE CreateQueue
  BY <1>0, <1>14 DEF CreateQueue, Goto, MmTypeOK
<1>15. CASE Receive
  <2>1. Head(queue) \in 0..Buffers /\ Tail(queue) \in Seq(Buffer)
    BY <1>15, Fields DEF Receive, Buffer, ManagerParameters
  <2> QED BY <1>0, <1>15, <2>1 DEF Receive, Goto, MmTypeOK
<1>16. CASE Handle
  <2>1. cur \in Buffer
    BY <1>0, <1>16 DEF Handle, At, BasicInv, TaskInv, MmTypeOK, Buffer
  <2>2. left' \in Seq(WordOfPackage)
    BY <1>0, <1>16, <2>1 DEF Handle, MmTypeOK
  <2> QED BY <1>0, <1>16, <2>2 DEF Handle, Goto, MmTypeOK
<1>17. CASE Feedback
  <2>1. Head(left) \in WordOfPackage /\ Tail(left) \in Seq(WordOfPackage)
    BY <1>0, <1>17 DEF Feedback, MmTypeOK
  <2> QED BY <1>0, <1>17, <2>1 DEF Feedback, MmTypeOK
<1>18. CASE Fed
  BY <1>0, <1>18 DEF Fed, Goto, MmTypeOK
<1>19. CASE Release
  <2>1. buf' \in [Buffer -> BufferState]
    BY <1>0, <1>19 DEF Release, MmTypeOK, BufferState
  <2> QED BY <1>0, <1>19, <2>1 DEF Release, Goto, MmTypeOK, BufferState
<1>20. CASE UNCHANGED vars
  BY <1>0, <1>20 DEF MmTypeOK, vars
<1> QED BY <1>1, <1>2, <1>3, <1>4, <1>5, <1>6, <1>7, <1>8, <1>9, <1>10, <1>11, <1>12, <1>13, <1>14, <1>15, <1>16, <1>17, <1>18, <1>19, <1>20
        DEF Next, Isr, Task

-----------------------------------------------------------------------------
(* Who changes what. *)

LEMMA Frames ==
    ASSUME [Next]_vars
    PROVE  /\ RemoteSend \/ RemoteAbort \/ TimePasses \/ UNCHANGED remote
           /\ RemoteSend \/ RevCallback \/ UNCHANGED fifo
           /\ RevCallback \/ TimePasses \/ UNCHANGED late
           /\ RevCallback \/ UNCHANGED mctrl
           /\ RevCallback \/ Release \/ UNCHANGED buf
           /\ RevCallback \/ Receive \/ UNCHANGED queue
           /\ Receive \/ Release \/ UNCHANGED cur
           /\ \/ RemoteRead \/ SendWord \/ Handle \/ Feedback
              \/ UNCHANGED <<heard, out, txWord, left>>
           /\ \/ AllocRx \/ AllocTx \/ CreateQueue \/ Receive \/ Handle
              \/ Feedback \/ Fed \/ Release \/ UNCHANGED <<pc, cur, left>>
           /\ SendWord \/ SendDone \/ Feedback \/ UNCHANGED <<sendFinish, txWord>>
BY DEF Next, Isr, Task, vars, lines, mgr, tx, task, RemoteSend, RemoteAbort,
       TimePasses, RemoteRead, IsrEnter, RevCallback, RevDone, SendWord,
       SendFull, SendDone, IsrReturn, AllocRx, AllocTx, CreateQueue, Receive,
       Handle, Feedback, Fed, Release, At, Goto

(* What Receive and Release do to the buffers.                             *)
LEMMA TaskEffect ==
    ASSUME ManagerParameters, BasicInv
    PROVE  /\ Receive => /\ queue # <<>> /\ queue' = Tail(queue)
                         /\ cur = 0 /\ cur' = Head(queue)
                         /\ UNCHANGED <<fifo, remote, late, mctrl, buf>>
           /\ Release => /\ cur \in Buffer /\ cur' = 0
                         /\ buf' = [buf EXCEPT ![cur].used = FALSE]
                         /\ UNCHANGED <<fifo, remote, late, mctrl, queue>>
<1>1. ASSUME Release PROVE cur \in Buffer
  BY <1>1, Fields DEF Release, At, BasicInv, TaskInv
<1>2. ASSUME Receive PROVE cur = 0
  BY <1>2 DEF Receive, At, BasicInv, TaskInv
<1> QED BY <1>1, <1>2 DEF Receive, Release, lines

(* What rev_callback does to the buffers.                                  *)
LEMMA RevEffect ==
    ASSUME ManagerParameters, BasicInv, RevCallback, NEW b \in Buffer
    PROVE  /\ b # Target \/ RevNothing => buf'[b] = buf[b]
           /\ RevPartial /\ b = Target =>
                /\ buf'[b].words = Collected /\ ~buf'[b].used
                /\ buf'[b].idx = IF Len(Collected) = IndexWords THEN 0
                                 ELSE Len(Collected)
           /\ RevFull /\ b = Target =>
                buf'[b].words = Collected /\ buf'[b].used /\ buf'[b].idx = 0
           /\ RevLost /\ b = Target =>
                /\ buf'[b].words = buf[b].words /\ buf'[b].used = buf[b].used
                /\ buf'[b].idx = 0
<1>0. /\ buf \in [Buffer -> BufferState] /\ buf[b] \in BufferState
      /\ Target # 0 => Target \in Buffer
  BY RevTarget DEF BasicInv, MmTypeOK, BufferState
<1>1. CASE RevNothing
  <2>1. buf' = buf /\ Target = 0 /\ b # 0
    BY <1>1 DEF RevNothing, mgr, Buffer, ManagerParameters
  <2> QED BY <2>1 DEF RevPartial, RevFull, RevLost
<1>2. CASE RevPartial
  <2>1. /\ Target \in Buffer /\ ~RevNothing /\ ~RevFull /\ ~RevLost
        /\ buf' = Partial(Target, Collected)
    BY <1>0, <1>2 DEF RevPartial, RevNothing, RevFull, RevLost
  <2>2. b # Target => buf'[b] = buf[b]
    BY <1>0, <2>1 DEF Partial
  <2>3. b = Target =>
          buf'[b] = [words |-> Collected, used |-> FALSE,
                     idx |-> IF Len(Collected) = IndexWords THEN 0
                             ELSE Len(Collected)]
    BY <1>0, <2>1 DEF Partial
  <2> QED BY <2>1, <2>2, <2>3
<1>3. CASE RevFull
  <2>1. /\ Target \in Buffer /\ ~RevNothing /\ ~RevPartial
        /\ buf' = Full(Target, Collected)
    BY <1>0, <1>3 DEF RevPartial, RevNothing, RevFull
  <2>2. b # Target => buf'[b] = buf[b]
    BY <1>0, <2>1 DEF Full
  <2>3. b = Target => buf'[b] = [words |-> Collected, idx |-> 0, used |-> TRUE]
    BY <1>0, <2>1 DEF Full
  <2>4. ~RevLost
    <3>1. SUFFICES ASSUME RevLost PROVE FALSE
      OBVIOUS
    <3>2. queue' = queue /\ queue' = Append(queue, Target)
      BY <1>3, <3>1 DEF RevFull, RevLost
    <3>3. queue \in Seq(Buffer)
      BY DEF BasicInv, MmTypeOK
    <3>4. Len(Append(queue, Target)) = Len(queue) + 1 /\ Len(queue) \in Nat
      BY <3>3
    <3> QED BY <3>2, <3>4
  <2> QED BY <2>1, <2>2, <2>3, <2>4
<1>4. CASE RevLost
  <2>1. /\ Target \in Buffer /\ ~RevNothing /\ ~RevPartial
        /\ buf' = [buf EXCEPT ![Target] = [@ EXCEPT !.idx = 0]]
    BY <1>0, <1>4 DEF RevPartial, RevNothing, RevLost
  <2>2. b # Target => buf'[b] = buf[b]
    BY <1>0, <2>1
  <2>3. b = Target => buf'[b] = [buf[b] EXCEPT !.idx = 0]
    BY <1>0, <2>1
  <2>4. b = Target => /\ buf'[b].words = buf[b].words /\ buf'[b].used = buf[b].used
                      /\ buf'[b].idx = 0
    BY <1>0, <2>3 DEF BufferState
  <2>5. ~RevFull
    <3>1. SUFFICES ASSUME RevFull PROVE FALSE
      OBVIOUS
    <3>2. queue' = queue /\ queue' = Append(queue, Target)
      BY <1>4, <3>1 DEF RevFull, RevLost
    <3>3. queue \in Seq(Buffer)
      BY DEF BasicInv, MmTypeOK
    <3>4. Len(Append(queue, Target)) = Len(queue) + 1 /\ Len(queue) \in Nat
      BY <3>3
    <3> QED BY <3>2, <3>4
  <2> QED BY <2>1, <2>2, <2>4, <2>5
<1> QED BY <1>1, <1>2, <1>3, <1>4, RevCases

(* Release changes nothing of a buffer but used.                           *)
LEMMA ReleaseEffect ==
    ASSUME ManagerParameters, BasicInv, Release, NEW b \in Buffer
    PROVE  /\ buf'[b].words = buf[b].words /\ buf'[b].idx = buf[b].idx
           /\ buf'[b].used = (b # cur /\ buf[b].used)
<1>1. /\ buf \in [Buffer -> BufferState] /\ buf[b] \in BufferState
      /\ cur \in Buffer /\ buf' = [buf EXCEPT ![cur].used = FALSE]
  BY TaskEffect DEF BasicInv, MmTypeOK, BufferState
<1>2. CASE b = cur
  <2>1. buf'[b] = [buf[b] EXCEPT !.used = FALSE]
    BY <1>1, <1>2
  <2> QED BY <1>1, <1>2, <2>1 DEF BufferState
<1>3. CASE b # cur
  <2>1. buf'[b] = buf[b]
    BY <1>1, <1>3
  <2> QED BY <1>1, <1>3, <2>1 DEF BufferState
<1> QED BY <1>2, <1>3

LEMMA RemoteInvStep ==
    ASSUME ManagerParameters, BasicInv, [Next]_vars
    PROVE  RemoteInv'
<1>0. RemoteInv
  BY DEF BasicInv
<1>1. CASE RemoteSend
  <2> DEFINE next == remote.sent + 1
             last == next = Packages[remote.package].count + 2
  <2>1. /\ remote.package \in DOMAIN Packages /\ remote.sent \in Nat
        /\ remote.package \in Nat /\ Packages[remote.package].count \in Nat
        /\ remote.sent < Packages[remote.package].count + 2
    <3>1. remote.package \in DOMAIN Packages
      BY <1>1, Fields, WordFacts DEF RemoteSend
    <3> QED BY <3>1, Fields, WordFacts
  <2>2. remote' = IF last THEN [remote EXCEPT !.package = @ + 1, !.sent = 0]
                  ELSE [remote EXCEPT !.sent = next]
    BY <1>1 DEF RemoteSend
  <2>3. CASE last
    <3>1. remote'.package = remote.package + 1 /\ remote'.sent = 0
      BY <2>2, <2>3, Fields
    <3>2. remote.package + 1 <= Len(Packages) =>
            Packages[remote.package + 1].count \in Nat
      BY <2>1, WordFacts
    <3> QED BY <3>1, <3>2 DEF RemoteInv
  <2>4. CASE ~last
    <3>1. remote'.package = remote.package /\ remote'.sent = next
      BY <2>2, <2>4, Fields
    <3>2. next < Packages[remote.package].count + 2
      BY <2>1, <2>4
    <3>3. remote.package <= Len(Packages)
      BY <2>1, WordFacts
    <3> QED BY <3>1, <3>2, <3>3 DEF RemoteInv
  <2> QED BY <2>3, <2>4
<1>2. CASE RemoteAbort
  <2>1. remote'.package = remote.package + 1 /\ remote'.sent = 0
    BY <1>2 DEF RemoteAbort
  <2>2. remote.package + 1 <= Len(Packages) =>
          Packages[remote.package + 1].count \in Nat
    BY Fields, WordFacts
  <2> QED BY <2>1, <2>2 DEF RemoteInv
<1>3. CASE TimePasses
  <2>1. remote'.package = remote.package /\ remote'.sent = remote.sent
    BY <1>3, Fields DEF TimePasses
  <2> QED BY <1>0, <2>1 DEF RemoteInv
<1>4. CASE UNCHANGED remote
  BY <1>0, <1>4 DEF RemoteInv
<1> QED BY <1>1, <1>2, <1>3, <1>4, Frames

LEMMA TaskInvStep ==
    ASSUME ManagerParameters, BasicInv, [Next]_vars
    PROVE  TaskInv'
<1>0. TaskInv
  BY DEF BasicInv
<1>1. /\ pc' \in {"handle", "feedback", "release"} <=> cur' # 0
      /\ pc' # "feedback" => left' = <<>>
  <2>1. CASE AllocRx \/ AllocTx \/ CreateQueue \/ Feedback \/ Fed
    BY <1>0, <2>1
    DEF TaskInv, AllocRx, AllocTx, CreateQueue, Feedback, Fed, At, Goto
  <2>2. CASE Receive
    <3>1. cur' # 0
      BY <2>2, Fields DEF Receive, Buffer, ManagerParameters
    <3> QED BY <1>0, <2>2, <3>1 DEF TaskInv, Receive, At, Goto
  <2>3. CASE Handle
    BY <1>0, <2>3 DEF TaskInv, Handle, At, Goto
  <2>4. CASE Release
    BY <1>0, <2>4 DEF TaskInv, Release, At, Goto
  <2>5. CASE UNCHANGED <<pc, cur, left>>
    BY <1>0, <2>5 DEF TaskInv
  <2> QED BY <2>1, <2>2, <2>3, <2>4, <2>5, Frames
<1>2. sendFinish' => txWord' = <<>>
  BY <1>0, Frames DEF TaskInv, SendWord, SendDone, Feedback
<1> QED BY <1>1, <1>2 DEF TaskInv

LEMMA IndexInvStep ==
    ASSUME ManagerParameters, BasicInv, [Next]_vars
    PROVE  IndexInv'
<1>0. IndexInv /\ IndexWords \in Nat \ {0}
  BY DEF BasicInv, ManagerParameters
<1> SUFFICES ASSUME NEW b \in Buffer
             PROVE  /\ b # mctrl' => buf'[b].idx = 0
                    /\ buf'[b].idx # 0 => Len(buf'[b].words) = buf'[b].idx
  BY DEF IndexInv
<1>1. CASE RevCallback
  <2>1. mctrl # 0 => Target = mctrl
    BY <1>1, RevTarget
  <2>2. CASE RevNothing
    <3>1. buf'[b] = buf[b] /\ mctrl' = mctrl
      BY <1>1, <2>2, RevEffect DEF RevNothing, mgr
    <3> QED BY <1>0, <3>1 DEF IndexInv
  <2>3. CASE RevPartial \/ RevFull \/ RevLost
    <3>1. CASE b # Target
      <4>1. buf'[b] = buf[b]
        BY <1>1, <3>1, RevEffect
      <4>2. b # mctrl
        BY <2>1, <3>1 DEF Buffer, ManagerParameters
      <4> QED BY <1>0, <4>1, <4>2 DEF IndexInv
    <3>2. CASE b = Target /\ RevPartial
      <4>1. mctrl' = Target
        BY <3>2 DEF RevPartial
      <4> QED BY <1>1, <3>2, <4>1, RevEffect
    <3>3. CASE b = Target /\ (RevFull \/ RevLost)
      BY <1>1, <3>3, RevEffect
    <3> QED BY <2>3, <3>1, <3>2, <3>3
  <2> QED BY <1>1, <2>2, <2>3, RevCases
<1>2. CASE Release
  <2>1. mctrl' = mctrl /\ buf'[b].idx = buf[b].idx /\ buf'[b].words = buf[b].words
    BY <1>2, TaskEffect, ReleaseEffect
  <2> QED BY <1>0, <2>1 DEF IndexInv
<1>3. CASE UNCHANGED buf /\ UNCHANGED mctrl
  BY <1>0, <1>3 DEF IndexInv
<1> QED BY <1>1, <1>2, <1>3, Frames DEF Release, lines, tx

LEMMA OwnInvStep ==
    ASSUME ManagerParameters, BasicInv, [Next]_vars
    PROVE  OwnInv'
<1>0. /\ OwnInv /\ queue \in Seq(Buffer) /\ Len(queue) \in Nat
      /\ \A i \in 1..Len(queue) : queue[i] \in Buffer
      /\ 0 \notin Buffer
  <2>1. OwnInv /\ queue \in Seq(Buffer)
    BY DEF BasicInv, MmTypeOK
  <2>2. 0 \notin Buffer
    BY DEF Buffer, ManagerParameters
  <2> QED BY <2>1, <2>2
<1>1. CASE RevCallback
  <2>1. /\ Target # 0 => Target \in Buffer /\ ~buf[Target].used
        /\ UNCHANGED cur
    BY <1>1, RevTarget, RevCases DEF task
  <2>2. CASE RevNothing
    BY <1>0, <2>1, <2>2 DEF RevNothing, OwnInv, Queued, mgr
  <2>3. CASE RevPartial \/ RevLost
    <3>1. /\ UNCHANGED queue /\ mctrl' = Target /\ Target # 0
          /\ \A b \in Buffer : buf'[b].used <=> buf[b].used
      <4>1. UNCHANGED queue /\ mctrl' = Target /\ Target # 0
        BY <2>3 DEF RevPartial, RevLost
      <4>2. ASSUME NEW b \in Buffer PROVE buf'[b].used <=> buf[b].used
        <5>1. buf[b].used \in BOOLEAN
          BY DEF BasicInv, MmTypeOK
        <5> QED BY <1>1, <2>1, <2>3, <4>1, <5>1, RevEffect
      <4> QED BY <4>1, <4>2
    <3> QED BY <1>0, <2>1, <3>1 DEF OwnInv, Queued
  <2>4. CASE RevFull
    <3>1. /\ Target \in Buffer /\ ~buf[Target].used
          /\ queue' = Append(queue, Target)
          /\ \A b \in Buffer : buf'[b].used <=> (b = Target \/ buf[b].used)
      <4>1. Target \in Buffer /\ ~buf[Target].used /\ queue' = Append(queue, Target)
        BY <2>1, <2>4 DEF RevFull
      <4>2. ASSUME NEW b \in Buffer
            PROVE  buf'[b].used <=> (b = Target \/ buf[b].used)
        <5>1. buf[b].used \in BOOLEAN
          BY DEF BasicInv, MmTypeOK
        <5>2. CASE b = Target
          BY <1>1, <2>4, <5>2, RevEffect
        <5>3. CASE b # Target
          BY <1>1, <5>1, <5>3, RevEffect
        <5> QED BY <5>2, <5>3
      <4> QED BY <4>1, <4>2
    <3>2. ~Queued(Target) /\ cur # Target
      BY <1>0, <3>1 DEF OwnInv
    <3>3. /\ Len(queue') = Len(queue) + 1
          /\ \A i \in 1..Len(queue) + 1 :
                queue'[i] = IF i <= Len(queue) THEN queue[i] ELSE Target
      BY <1>0, <3>1
    <3>4. ASSUME NEW b PROVE Queued(b)' <=> Queued(b) \/ b = Target
      BY <1>0, <3>3 DEF Queued
    <3>5. \A i, j \in 1..Len(queue') : queue'[i] = queue'[j] => i = j
      BY <1>0, <3>2, <3>3 DEF OwnInv, Queued
    <3>6. mctrl' # 0 => ~buf'[mctrl'].used
      <4> DEFINE full == Full(Target, Collected)
      <4>1. buf' = full /\ mctrl' = Available(full)
        BY <2>4 DEF RevFull
      <4> HIDE DEF full
      <4> QED BY <4>1, Found
    <3> QED BY <1>0, <2>1, <3>1, <3>2, <3>4, <3>5, <3>6 DEF OwnInv
  <2> QED BY <1>1, <2>2, <2>3, <2>4, RevCases
<1>2. CASE Receive
  <2>1. /\ queue # <<>> /\ queue' = Tail(queue) /\ cur = 0 /\ cur' = Head(queue)
        /\ UNCHANGED <<mctrl, buf>>
    BY <1>2, TaskEffect
  <2>2. /\ Len(queue') = Len(queue) - 1 /\ Len(queue) >= 1
        /\ \A i \in 1..Len(queue) - 1 : queue'[i] = queue[i + 1]
        /\ cur' = queue[1] /\ cur' \in Buffer
    BY <1>0, <2>1
  <2>3. ASSUME NEW b PROVE Queued(b) <=> Queued(b)' \/ b = cur'
    <3>1. ASSUME Queued(b), b # cur' PROVE Queued(b)'
      <4>1. PICK i \in 1..Len(queue) : queue[i] = b
        BY <3>1 DEF Queued
      <4>2. i - 1 \in 1..Len(queue) - 1 /\ queue'[i - 1] = b
        BY <1>0, <2>2, <3>1, <4>1
      <4> QED BY <2>2, <4>2 DEF Queued
    <3>2. ASSUME Queued(b)' PROVE Queued(b)
      <4>1. PICK i \in 1..Len(queue') : queue'[i] = b
        BY <3>2 DEF Queued
      <4>2. i + 1 \in 1..Len(queue) /\ queue[i + 1] = b
        BY <1>0, <2>2, <4>1
      <4> QED BY <4>2 DEF Queued
    <3>3. Queued(cur')
      BY <1>0, <2>2 DEF Queued
    <3> QED BY <3>1, <3>2, <3>3
  <2>4. \A i, j \in 1..Len(queue') : queue'[i] = queue'[j] => i = j
    BY <1>0, <2>2 DEF OwnInv
  <2>5. ~(\E i \in 1..Len(queue') : queue'[i] = cur')
    BY <1>0, <2>2 DEF OwnInv, Queued
  <2> QED BY <1>0, <2>1, <2>2, <2>3, <2>4, <2>5 DEF OwnInv, Queued
<1>3. CASE Release
  <2>1. /\ cur \in Buffer /\ cur' = 0 /\ UNCHANGED <<mctrl, queue>>
        /\ \A b \in Buffer : buf'[b].used = (b # cur /\ buf[b].used)
    BY <1>3, TaskEffect, ReleaseEffect
  <2>2. mctrl # 0 => mctrl \in Buffer
    BY Fields
  <2> QED BY <1>0, <2>1, <2>2 DEF OwnInv, Queued
<1>4. CASE UNCHANGED buf /\ UNCHANGED mctrl /\ UNCHANGED queue /\ UNCHANGED cur
  BY <1>0, <1>4 DEF OwnInv, Queued
<1> QED BY <1>1, <1>2, <1>3, <1>4, Frames

LEMMA BasicStep ==
    ASSUME ManagerParameters, BasicInv, [Next]_vars
    PROVE  BasicInv'
BY TypeStep, RemoteInvStep, TaskInvStep, IndexInvStep, OwnInvStep DEF BasicInv

LEMMA BasicInit == ASSUME ManagerParameters, Init PROVE BasicInv
<1>1. 0 \in 0..IndexWords - 1 /\ 1 \in 0..Buffers /\ 0 \in 0..Buffers
  BY DEF ManagerParameters
<1>2. /\ Len(Packages) \in Nat /\ 1 \in 1..Len(Packages) + 1
      /\ 1 <= Len(Packages) => Packages[1].count \in Nat
  BY WordFacts
<1>3. MmTypeOK
  <2>1. buf \in [Buffer -> BufferState]
    BY <1>1 DEF Init, BufferState
  <2>2. remote \in [package : 1..Len(Packages) + 1, sent : Nat, silent : BOOLEAN]
    BY <1>2 DEF Init
  <2>3. /\ fifo \in Seq(WordOfPackage) /\ Len(fifo) <= FifoDepth
        /\ out \in Seq(WordOfPackage) /\ Len(out) <= FifoDepth
        /\ left \in Seq(WordOfPackage) /\ heard \in Seq(WordOfPackage)
        /\ queue \in Seq(Buffer)
    BY DEF Init, ManagerParameters
  <2> QED BY <1>1, <2>1, <2>2, <2>3 DEF Init, MmTypeOK, BufferState
<1>4. RemoteInv /\ TaskInv
  BY <1>2 DEF Init, RemoteInv, TaskInv
<1>5. IndexInv /\ OwnInv
  <2>1. /\ \A b \in Buffer : ~buf[b].used /\ buf[b].idx = 0
        /\ Len(queue) = 0 /\ cur = 0 /\ mctrl = 1 /\ 1 \in Buffer /\ 0 \notin Buffer
    BY DEF Init, Buffer, ManagerParameters
  <2> QED BY <2>1 DEF IndexInv, OwnInv, Queued
<1> QED BY <1>3, <1>4, <1>5 DEF BasicInv

(* A buffer is used exactly when it is in the queue, once, or with the     *)
(* task: the places are none or one.                                       *)
LEMMA OwnedOnce == ASSUME ManagerParameters, BasicInv PROVE BuffersOwned
<1> SUFFICES ASSUME NEW b \in Buffer
             PROVE  /\ Cardinality({i \in DOMAIN queue : queue[i] = b})
                         + (IF cur = b THEN 1 ELSE 0)
                         = IF buf[b].used THEN 1 ELSE 0
                    /\ buf[b].used => mctrl # b
  BY DEF BuffersOwned
<1> DEFINE places == {i \in DOMAIN queue : queue[i] = b}
<1>1. /\ DOMAIN queue = 1..Len(queue) /\ OwnInv /\ b # 0
  BY DEF BasicInv, MmTypeOK, Buffer, ManagerParameters
<1>2. CASE Queued(b)
  <2>1. PICK i \in 1..Len(queue) : queue[i] = b
    BY <1>2 DEF Queued
  <2>2. places = {i}
    BY <1>1, <2>1 DEF OwnInv
  <2>3. Cardinality(places) = 1
    BY <2>2, FS_Singleton
  <2>4. cur # b /\ buf[b].used
    BY <1>1, <1>2 DEF OwnInv
  <2>5. buf[b].used => mctrl # b
    BY <1>1 DEF OwnInv
  <2> HIDE DEF places
  <2>6. Cardinality(places) + (IF cur = b THEN 1 ELSE 0)
          = IF buf[b].used THEN 1 ELSE 0
    BY <2>3, <2>4
  <2> QED BY <2>5, <2>6 DEF places
<1>3. CASE ~Queued(b)
  <2>1. places = {}
    BY <1>1, <1>3 DEF Queued
  <2>2. Cardinality(places) = 0
    BY <2>1, FS_EmptySet
  <2>3. buf[b].used <=> cur = b
    BY <1>1, <1>3 DEF OwnInv
  <2>4. buf[b].used => mctrl # b
    BY <1>1 DEF OwnInv
  <2> HIDE DEF places
  <2>5. Cardinality(places) + (IF cur = b THEN 1 ELSE 0)
          = IF buf[b].used THEN 1 ELSE 0
    BY <2>2, <2>3
  <2> QED BY <2>4, <2>5 DEF places
<1> QED BY <1>2, <1>3

(* What the remote core starts while others are unhandled finds a buffer.  *)
LEMMA RoomForPackage ==
    ASSUME ManagerParameters, Orderly, BasicInv, Unhandled < Window
    PROVE  \E b \in Buffer : ~buf[b].used
<1> SUFFICES ASSUME \A b \in Buffer : buf[b].used
             PROVE  FALSE
  OBVIOUS
<1>1. {b \in Buffer : buf[b].used} = 1..Buffers
  BY DEF Buffer
<1>2. Cardinality(1..Buffers) = Buffers
  BY FS_Interval DEF ManagerParameters
<1>3. Unhandled = Buffers
  BY <1>1, <1>2 DEF Unhandled
<1>4. Window <= Buffers /\ Window \in Nat /\ Buffers \in Nat
  BY DEF Orderly, ManagerParameters
<1> QED BY <1>3, <1>4

-----------------------------------------------------------------------------
(* What is collected, of an orderly remote core. *)

(* The word at the head of the FIFO starts a package, and finds a buffer,  *)
(* or continues what has been collected of its package.                    *)
LEMMA RevFlow ==
    ASSUME ManagerParameters, Orderly, BasicInv, RevCallback,
           NEW p \in DOMAIN Packages, NEW k \in 1..Packages[p].count + 2,
           InFifo(p, k)
    PROVE  /\ Target # 0 /\ Target \in Buffer /\ k \in Nat \ {0}
           /\ Packages[p].count \in Nat /\ Packages[p].count + 2 <= IndexWords
           /\ IndexWords \in Nat
           /\ Collected \in Seq(WordOfPackage) /\ Len(Collected) = k
           /\ \A i \in 1..k : Collected[i] = <<p, i>>
           /\ Complete(Collected) <=> (k = Packages[p].count + 2 /\ k < IndexWords)
<1>1. /\ p \in Nat /\ Packages[p].count \in Nat /\ k \in Nat \ {0}
      /\ Packages[p].count + 2 <= IndexWords /\ IndexWords \in Nat
  BY WordFacts DEF Orderly, ManagerParameters
<1>2. /\ fifo \in Seq(WordOfPackage) /\ fifo # <<>> /\ Head(fifo) \in WordOfPackage
      /\ Head(fifo) = <<p, k>>
  <2>1. fifo \in Seq(WordOfPackage) /\ fifo # <<>> /\ Head(fifo) \in WordOfPackage
    BY RevCases, Fields DEF BasicInv, MmTypeOK
  <2>2. Head(fifo) = fifo[1] /\ 1 \in 1..Len(fifo)
    BY <2>1
  <2>3. fifo[1] = <<p, k + 1 - 1>>
    BY <2>2 DEF InFifo
  <2> QED BY <1>1, <2>1, <2>2, <2>3
<1>3. CASE k = 1
  <2>1. Fresh /\ \E b \in Buffer : ~buf[b].used
    BY <1>3 DEF InFifo
  <2>2. Target # 0 /\ Target \in Buffer
    BY <2>1, RevTarget
  <2>3. StartOver(buf[Target])
    <3>1. CASE mctrl = 0
      <4>1. buf[Target].idx = 0
        BY <2>2, <3>1 DEF BasicInv, IndexInv
      <4> QED BY <4>1 DEF StartOver
    <3>2. CASE mctrl # 0
      BY <2>1, <3>2, RevTarget DEF Fresh, StartOver
    <3> QED BY <3>1, <3>2
  <2>4. Collected = <<Head(fifo)>>
    BY <2>3 DEF Collected
  <2>5. /\ Collected \in Seq(WordOfPackage) /\ Len(Collected) = 1
        /\ Collected[1] = <<p, 1>>
    BY <1>2, <1>3, <2>4
  <2>6. ~Complete(Collected)
    BY <2>5 DEF Complete
  <2> QED BY <1>1, <1>3, <2>2, <2>5, <2>6
<1>4. CASE k # 1
  <2>1. Open(p, k - 1)
    BY <1>4 DEF InFifo
  <2>2. Target = mctrl /\ Target # 0 /\ Target \in Buffer
    BY <2>1, RevTarget DEF Open
  <2> DEFINE words == buf[Target].words
  <2>3. /\ words \in Seq(WordOfPackage) /\ Len(words) = k - 1
        /\ \A i \in 1..k - 1 : words[i] = <<p, i>>
        /\ ~StartOver(buf[Target])
    <3>1. words \in Seq(WordOfPackage)
      BY <2>2 DEF BasicInv, MmTypeOK
    <3>2. buf[Target].idx = k - 1 /\ k - 1 # 0 /\ ~late
      BY <2>1, <2>2 DEF Open
    <3>3. Len(words) = k - 1
      BY <2>2, <3>2 DEF BasicInv, IndexInv
    <3> QED BY <2>1, <2>2, <3>1, <3>2, <3>3 DEF Open, StartOver
  <2>4. Collected = Append(words, <<p, k>>) /\ <<p, k>> \in WordOfPackage
    BY <1>2, <2>3 DEF Collected
  <2> HIDE DEF words
  <2>5. /\ Collected \in Seq(WordOfPackage) /\ Len(Collected) = k
        /\ \A i \in 1..k : Collected[i] = IF i <= k - 1 THEN words[i] ELSE <<p, k>>
    BY <1>1, <2>3, <2>4
  <2>6. \A i \in 1..k : Collected[i] = <<p, i>>
    BY <1>1, <2>3, <2>5
  <2>7. k >= 2 /\ Collected[2] = <<p, 2>> /\ Count(Collected[2]) = Packages[p].count
    BY <1>1, <1>4, <2>6 DEF Count
  <2>8. Complete(Collected) <=> (k = Packages[p].count + 2 /\ k < IndexWords)
    BY <1>1, <2>5, <2>7 DEF Complete
  <2> QED BY <1>1, <2>2, <2>5, <2>6, <2>8
<1> QED BY <1>3, <1>4

(* What has been collected is kept while other buffers change.             *)
LEMMA Kept ==
    ASSUME ManagerParameters, BasicInv, UNCHANGED <<mctrl, late>>,
           \A b \in Buffer : buf'[b].words = buf[b].words /\ buf'[b].idx = buf[b].idx
    PROVE  /\ \A p, n : Open(p, n) => Open(p, n)'
           /\ Fresh => Fresh'
BY Fields DEF Open, Fresh

LEMMA FlowRev ==
    ASSUME ManagerParameters, Orderly, BasicInv, FlowInv, RevCallback
    PROVE  FlowInv'
<1>1. /\ fifo # <<>> /\ fifo' = Tail(fifo) /\ UNCHANGED remote
      /\ fifo \in Seq(WordOfPackage) /\ Len(fifo) \in Nat \ {0}
      /\ Len(fifo') = Len(fifo) - 1
      /\ \A i \in 1..Len(fifo) - 1 : fifo'[i] = fifo[i + 1]
  <2>1. fifo # <<>> /\ fifo' = Tail(fifo) /\ UNCHANGED remote
    BY RevCases
  <2>2. fifo \in Seq(WordOfPackage)
    BY DEF BasicInv, MmTypeOK
  <2> QED BY <2>1, <2>2
<1>a. PICK p \in DOMAIN Packages :
          \E k \in 1..Packages[p].count + 2 : InFifo(p, k)
  BY <1>1 DEF FlowInv
<1>2. PICK k \in 1..Packages[p].count + 2 : InFifo(p, k)
  BY <1>a
<1>3. /\ Target # 0 /\ Target \in Buffer /\ k \in Nat \ {0}
      /\ Packages[p].count \in Nat /\ Packages[p].count + 2 <= IndexWords
      /\ IndexWords \in Nat
      /\ Collected \in Seq(WordOfPackage) /\ Len(Collected) = k
      /\ \A i \in 1..k : Collected[i] = <<p, i>>
      /\ Complete(Collected) <=> (k = Packages[p].count + 2 /\ k < IndexWords)
  BY <1>2, RevFlow
<1>4. RevPartial \/ RevFull \/ RevLost
  BY <1>3, RevCases DEF RevNothing
<1>5. ASSUME k < Packages[p].count + 2 PROVE Open(p, k)'
  <2>1. RevPartial
    BY <1>3, <1>4, <1>5 DEF RevFull, RevLost
  <2>2. buf'[Target].words = Collected /\ buf'[Target].idx = k
    BY <1>3, <1>5, <2>1, RevEffect
  <2>3. mctrl' = Target /\ late' = FALSE
    BY <2>1 DEF RevPartial
  <2> QED BY <1>3, <2>2, <2>3 DEF Open
<1>6. ASSUME k = Packages[p].count + 2 PROVE Fresh'
  <2>1. CASE RevPartial
    <3>1. k = IndexWords
      BY <1>3, <1>6, <2>1 DEF RevPartial
    <3>2. mctrl' = Target /\ buf'[Target].idx = 0
      BY <1>3, <2>1, <3>1, RevEffect DEF RevPartial
    <3> QED BY <3>2 DEF Fresh
  <2>2. CASE RevFull
    <3>1. mctrl' \in 0..Buffers
      <4> DEFINE full == Full(Target, Collected)
      <4>1. mctrl' = Available(full)
        BY <2>2 DEF RevFull
      <4> HIDE DEF full
      <4> QED BY <4>1, Found
    <3>2. ASSUME NEW b \in Buffer PROVE buf'[b].idx = 0
      <4>1. CASE b = Target
        BY <2>2, <4>1, RevEffect
      <4>2. CASE b # Target
        <5>1. buf'[b] = buf[b]
          BY <4>2, RevEffect
        <5>2. b # mctrl
          BY <4>2, RevTarget DEF Buffer, ManagerParameters
        <5> QED BY <5>1, <5>2 DEF BasicInv, IndexInv
      <4> QED BY <4>1, <4>2
    <3>3. mctrl' # 0 => mctrl' \in Buffer
      BY <3>1 DEF Buffer, ManagerParameters
    <3> QED BY <3>2, <3>3 DEF Fresh
  <2>3. CASE RevLost
    BY <1>3, <2>3, RevEffect DEF RevLost, Fresh
  <2> QED BY <1>4, <2>1, <2>2, <2>3
<1>7. CASE fifo' # <<>>
  <2>1. Len(fifo) - 1 \in Nat \ {0} /\ 2 \in 1..Len(fifo)
    <3>1. fifo' \in Seq(WordOfPackage)
      BY <1>1
    <3>2. Len(fifo') # 0
      BY <1>7, <3>1
    <3> QED BY <1>1, <3>2
  <2>2. fifo[2] = <<p, k + 1>> /\ fifo[2] \in WordOfPackage
    BY <1>1, <1>2, <1>3, <2>1 DEF InFifo
  <2>3. k + 1 \in 1..Packages[p].count + 2 /\ k + 1 # 1
    <3>1. fifo[2][1] = p /\ fifo[2][2] = k + 1
      BY <2>2
    <3> QED BY <1>3, <2>2, <3>1, WordFacts
  <2>4. Open(p, k)'
    BY <1>3, <1>5, <2>3
  <2>5. InFifo(p, k + 1)'
    <3>1. \A i \in 1..Len(fifo') : fifo'[i] = <<p, (k + 1) + i - 1>>
      BY <1>1, <1>2, <1>3 DEF InFifo
    <3>2. IF remote'.sent > 0
          THEN p = remote'.package /\ (k + 1) + Len(fifo') - 1 = remote'.sent
          ELSE remote'.silent \/ (k + 1) + Len(fifo') - 1 = Packages[p].count + 2
      BY <1>1, <1>2, <1>3 DEF InFifo
    <3>3. (k + 1) - 1 = k
      BY <1>3
    <3> QED BY <2>3, <2>4, <3>1, <3>2, <3>3 DEF InFifo
  <2> QED BY <1>7, <2>3, <2>5 DEF FlowInv
<1>8. CASE fifo' = <<>>
  <2>1. Len(fifo) = 1
    <3>1. Len(fifo') = 0
      BY <1>8
    <3> QED BY <1>1, <3>1
  <2>2. CASE remote.sent > 0
    <3>1. p = remote.package /\ k = remote.sent
      BY <1>2, <1>3, <2>1, <2>2, Fields DEF InFifo
    <3>2. Open(p, k)'
      BY <1>5, <3>1, Fields
    <3> QED BY <1>1, <1>8, <2>2, <3>1, <3>2 DEF FlowInv
  <2>3. CASE ~(remote.sent > 0)
    <3>1. remote.silent \/ k = Packages[p].count + 2
      BY <1>2, <1>3, <2>1, <2>3 DEF InFifo
    <3> QED BY <1>1, <1>6, <1>8, <2>3, <3>1 DEF FlowInv
  <2> QED BY <2>2, <2>3
<1> QED BY <1>7, <1>8

LEMMA FlowStep ==
    ASSUME ManagerParameters, Orderly, BasicInv, FlowInv, [Next]_vars
    PROVE  FlowInv'
<1>0. fifo \in Seq(WordOfPackage) /\ Len(fifo) \in Nat
  BY DEF BasicInv, MmTypeOK
<1>1. CASE RemoteSend
  <2>0. PICK p \in DOMAIN Packages : p = remote.package
    BY <1>1, Fields, WordFacts DEF RemoteSend
  <2> DEFINE next == remote.sent + 1
             last == next = Packages[p].count + 2
  <2>1. /\ p \in Nat /\ remote.sent \in Nat
        /\ Packages[p].count \in Nat /\ next \in 1..Packages[p].count + 2
    BY <2>0, Fields, WordFacts
  <2>2. /\ fifo' = Append(fifo, <<p, next>>)
        /\ remote' = IF last THEN [remote EXCEPT !.package = @ + 1, !.sent = 0]
                     ELSE [remote EXCEPT !.sent = next]
        /\ UNCHANGED <<mctrl, late, buf>> /\ ~remote.silent
        /\ remote.sent = 0 => Unhandled < Window /\ fifo = <<>>
    BY <1>1, <2>0 DEF RemoteSend, mgr
  <2>3. /\ fifo' # <<>> /\ Len(fifo') = Len(fifo) + 1
        /\ \A i \in 1..Len(fifo') :
              fifo'[i] = IF i <= Len(fifo) THEN fifo[i] ELSE <<p, next>>
    <3> HIDE DEF next
    <3>1. <<p, next>> \in WordOfPackage
      BY <2>1, WordFacts
    <3> QED BY <1>0, <2>2, <3>1
  <2>4. IF last THEN remote'.package = p + 1 /\ remote'.sent = 0
        ELSE remote'.package = p /\ remote'.sent = next
    BY <2>0, <2>2, Fields
  <2>5. /\ \A q, n : Open(q, n) => Open(q, n)'
        /\ Fresh => Fresh'
        /\ (\E b \in Buffer : ~buf[b].used) => (\E b \in Buffer : ~buf[b].used)'
    BY <2>2, Kept
  (* The words in the FIFO go on to the new one. *)
  <2>6. ASSUME NEW k \in 1..Packages[p].count + 2,
               \A i \in 1..Len(fifo') : fifo'[i] = <<p, k + i - 1>>,
               k + Len(fifo') - 1 = next,
               IF k = 1 THEN Fresh /\ \E b \in Buffer : ~buf[b].used
               ELSE Open(p, k - 1)
        PROVE  FlowInv'
    <3>1. IF remote'.sent > 0
          THEN p = remote'.package /\ k + Len(fifo') - 1 = remote'.sent
          ELSE remote'.silent \/ k + Len(fifo') - 1 = Packages[p].count + 2
      BY <2>1, <2>4, <2>6
    <3>2. InFifo(p, k)'
      BY <2>5, <2>6, <3>1 DEF InFifo
    <3> QED BY <2>1, <2>3, <3>2 DEF FlowInv
  <2>7. CASE fifo = <<>>
    <3>1. /\ Len(fifo') = 1 /\ fifo'[1] = <<p, next>>
          /\ \A i \in 1..Len(fifo') : fifo'[i] = <<p, next + i - 1>>
          /\ next + Len(fifo') - 1 = next
      BY <2>1, <2>3, <2>7
    <3>2. CASE remote.sent = 0
      <4>1. next = 1 /\ Fresh /\ \E b \in Buffer : ~buf[b].used
        BY <2>2, <2>7, <3>2, RoomForPackage DEF FlowInv
      <4> QED BY <2>1, <2>6, <3>1, <4>1
    <3>3. CASE remote.sent # 0
      <4>1. next # 1 /\ next - 1 = remote.sent /\ Open(p, remote.sent)
        BY <2>0, <2>1, <2>7, <3>3 DEF FlowInv
      <4> QED BY <2>1, <2>6, <3>1, <4>1
    <3> QED BY <3>2, <3>3
  <2>8. CASE fifo # <<>>
    <3>1. remote.sent > 0
      BY <2>1, <2>2, <2>8
    <3>2. PICK q \in DOMAIN Packages :
              \E k \in 1..Packages[q].count + 2 : InFifo(q, k)
      BY <2>8 DEF FlowInv
    <3>3. PICK k \in 1..Packages[q].count + 2 : InFifo(q, k)
      BY <3>2
    <3>4. /\ q = p /\ k + Len(fifo) - 1 = remote.sent /\ k \in Nat
          /\ \A i \in 1..Len(fifo) : fifo[i] = <<p, k + i - 1>>
          /\ IF k = 1 THEN Fresh /\ \E b \in Buffer : ~buf[b].used
             ELSE Open(p, k - 1)
      BY <2>0, <2>1, <3>1, <3>3 DEF InFifo
    <3>5. k + Len(fifo') - 1 = next /\ k + (Len(fifo) + 1) - 1 = next
      BY <1>0, <2>1, <2>3, <3>4
    <3>6. ASSUME NEW i \in 1..Len(fifo') PROVE fifo'[i] = <<p, k + i - 1>>
      <4>1. CASE i <= Len(fifo)
        BY <1>0, <2>3, <3>4, <4>1
      <4>2. CASE i = Len(fifo) + 1
        BY <1>0, <2>3, <3>5, <4>2
      <4> QED BY <1>0, <2>3, <4>1, <4>2
    <3> HIDE DEF next
    <3> QED BY <2>6, <3>3, <3>4, <3>5, <3>6
  <2> QED BY <2>7, <2>8
<1>2. CASE RemoteAbort
  <2>1. /\ remote.sent > 0 /\ UNCHANGED <<fifo, mctrl, late, buf>>
        /\ remote'.package = remote.package + 1 /\ remote'.sent = 0
        /\ remote'.silent
    BY <1>2 DEF RemoteAbort, mgr, Orderly
  <2>2. /\ \A q, n : Open(q, n) => Open(q, n)'
        /\ Fresh => Fresh'
    BY <2>1, Kept
  <2>3. ASSUME NEW q \in DOMAIN Packages, NEW k \in 1..Packages[q].count + 2,
               InFifo(q, k)
        PROVE  InFifo(q, k)'
    BY <2>1, <2>2, <2>3 DEF InFifo
  <2> QED BY <2>1, <2>3 DEF FlowInv
<1>3. CASE TimePasses
  BY <1>3, Fields DEF TimePasses, FlowInv, Fresh
<1>4. CASE RevCallback
  BY <1>4, FlowRev
<1>5. ASSUME UNCHANGED <<fifo, remote, mctrl, late>>, Release \/ UNCHANGED buf
      PROVE  FlowInv'
  <2>1. \A b \in Buffer :
            buf'[b].words = buf[b].words /\ buf'[b].idx = buf[b].idx
    BY <1>5, ReleaseEffect
  <2>2. /\ \A q, n : Open(q, n) => Open(q, n)'
        /\ Fresh => Fresh'
    BY <1>5, <2>1, Kept
  <2>3. (\E b \in Buffer : ~buf[b].used) => (\E b \in Buffer : ~buf[b].used)'
    BY <1>5, ReleaseEffect
  <2>4. ASSUME NEW q \in DOMAIN Packages, NEW k \in 1..Packages[q].count + 2,
               InFifo(q, k)
        PROVE  InFifo(q, k)'
    BY <1>5, <2>2, <2>3, <2>4 DEF InFifo
  <2> QED BY <1>5, <2>2, <2>4 DEF FlowInv
<1> QED BY <1>1, <1>2, <1>3, <1>4, <1>5, Frames

(* A full buffer holds a package as it was sent.                           *)
LEMMA WholeStep ==
    ASSUME ManagerParameters, Orderly, BasicInv, FlowInv, WholePackages,
           [Next]_vars
    PROVE  WholePackages'
<1> SUFFICES ASSUME NEW b \in Buffer, buf'[b].used
             PROVE  buf'[b].words = Words(buf'[b].words[1][1])
  BY DEF WholePackages
<1>1. CASE RevCallback
  <2>1. CASE b # Target \/ RevNothing
    <3>1. buf'[b] = buf[b]
      BY <1>1, <2>1, RevEffect
    <3> QED BY <3>1 DEF WholePackages
  <2>2. CASE b = Target /\ ~RevNothing
    <3>1. RevFull
      BY <1>1, <2>2, RevCases, RevEffect, RevTarget DEF RevPartial, RevLost
    <3>2. fifo # <<>>
      BY <1>1, RevCases
    <3>3. PICK p \in DOMAIN Packages :
              \E k \in 1..Packages[p].count + 2 : InFifo(p, k)
      BY <3>2 DEF FlowInv
    <3>4. PICK k \in 1..Packages[p].count + 2 : InFifo(p, k)
      BY <3>3
    <3>5. /\ Collected \in Seq(WordOfPackage) /\ Len(Collected) = k
          /\ \A i \in 1..k : Collected[i] = <<p, i>>
          /\ k = Packages[p].count + 2 /\ Packages[p].count \in Nat
      BY <1>1, <3>1, <3>4, RevFlow DEF RevFull
    <3>6. buf'[b].words = Collected
      BY <1>1, <2>2, <3>1, RevEffect
    <3>7. Collected = Words(p)
      <4>1. Collected = [i \in 1..k |-> Collected[i]]
        BY <3>5
      <4>2. [i \in 1..k |-> Collected[i]] = [i \in 1..k |-> <<p, i>>]
        BY <3>5
      <4> QED BY <3>5, <4>1, <4>2 DEF Words
    <3>8. Collected[1][1] = p
      <4>1. Collected[1] = <<p, 1>>
        BY <3>5
      <4> QED BY <4>1
    <3> QED BY <3>6, <3>7, <3>8
  <2> QED BY <2>1, <2>2
<1>2. CASE Release
  BY <1>2, ReleaseEffect DEF WholePackages
<1>3. CASE UNCHANGED buf
  BY <1>3 DEF WholePackages
<1> QED BY <1>1, <1>2, <1>3, Frames

-----------------------------------------------------------------------------
(* The answers. *)

(* Words put behind others that end where they start anew.                 *)
LEMMA ChainJoined ==
    ASSUME NEW s \in Seq(WordOfPackage), NEW t \in Seq(WordOfPackage),
           Chain(s), Chain(t)
    PROVE  Chain(s \o t)
<1>1. /\ Len(s \o t) = Len(s) + Len(t) /\ Len(s) \in Nat /\ Len(t) \in Nat
      /\ \A i \in 1..Len(s) + Len(t) :
            (s \o t)[i] = IF i <= Len(s) THEN s[i] ELSE t[i - Len(s)]
  OBVIOUS
<1> DEFINE u == s \o t
<1> HIDE DEF u
<1> SUFFICES ASSUME NEW i \in 1..Len(s) + Len(t), u[i][2] > 1
             PROVE  i > 1 /\ u[i - 1] = <<u[i][1], u[i][2] - 1>>
  BY <1>1 DEF Chain, u
<1>2. CASE i <= Len(s)
  <2>1. i \in 1..Len(s) /\ u[i] = s[i]
    BY <1>1, <1>2 DEF u
  <2>2. i > 1 /\ s[i - 1] = <<s[i][1], s[i][2] - 1>>
    BY <2>1 DEF Chain
  <2>3. u[i - 1] = s[i - 1]
    BY <1>1, <1>2, <2>2 DEF u
  <2> QED BY <2>1, <2>2, <2>3
<1>3. CASE i > Len(s)
  <2>1. i - Len(s) \in 1..Len(t) /\ u[i] = t[i - Len(s)]
    BY <1>1, <1>3 DEF u
  <2>2. /\ i - Len(s) > 1
        /\ t[(i - Len(s)) - 1] = <<t[i - Len(s)][1], t[i - Len(s)][2] - 1>>
    BY <2>1 DEF Chain
  <2>3. i > 1 /\ u[i - 1] = t[(i - Len(s)) - 1]
    BY <1>1, <1>3, <2>2 DEF u
  <2> QED BY <2>1, <2>2, <2>3
<1> QED BY <1>1, <1>2, <1>3

(* A word taken from the front of one goes to the end of the other.        *)
LEMMA Handed ==
    ASSUME NEW s \in Seq(WordOfPackage), NEW t \in Seq(WordOfPackage), t # <<>>
    PROVE  /\ Append(s, Head(t)) \o Tail(t) = s \o t
           /\ s \o <<Head(t)>> = Append(s, Head(t))
           /\ <<Head(t)>> \o Tail(t) = t
OBVIOUS

LEMMA ChainStep ==
    ASSUME ManagerParameters, Orderly, BasicInv, WholePackages, Chain(Sent),
           [Next]_vars
    PROVE  Chain(Sent)'
<1> DEFINE given == IF txWord = <<>> THEN <<>> ELSE <<txWord>>
<1>0. /\ heard \in Seq(WordOfPackage) /\ out \in Seq(WordOfPackage)
      /\ left \in Seq(WordOfPackage) /\ given \in Seq(WordOfPackage)
      /\ Sent = heard \o out \o given \o left
      /\ Sent' = heard' \o out' \o given' \o left'
  BY DEF BasicInv, MmTypeOK, Sent
<1>1. CASE RemoteRead
  <2>1. /\ out # <<>> /\ heard' = Append(heard, Head(out)) /\ out' = Tail(out)
        /\ given' = given /\ left' = left
    BY <1>1 DEF RemoteRead, tx, task
  <2>2. heard' \o out' = heard \o out
    BY <1>0, <2>1, Handed
  <2> HIDE DEF given
  <2>3. Sent' = Sent
    BY <1>0, <2>1, <2>2
  <2> QED BY <2>3 DEF Chain
<1>2. CASE SendWord
  <2>1. /\ txWord # <<>> /\ out' = Append(out, txWord) /\ txWord' = <<>>
        /\ heard' = heard /\ left' = left
    BY <1>2 DEF SendWord, task
  <2>2. txWord \in WordOfPackage
    BY <2>1 DEF BasicInv, MmTypeOK
  <2>3. heard \o out \o <<txWord>> = heard \o Append(out, txWord) \o <<>>
    <3>1. <<txWord>> \in Seq(WordOfPackage) /\ Append(out, txWord) \in Seq(WordOfPackage)
      BY <1>0, <2>2
    <3>2. Append(out, txWord) = out \o <<txWord>>
      BY <1>0, <2>2
    <3>3. heard \o out \o <<txWord>> = heard \o (out \o <<txWord>>)
      BY <1>0, <3>1
    <3>4. heard \o Append(out, txWord) \in Seq(WordOfPackage)
      BY <1>0, <3>1
    <3>5. heard \o Append(out, txWord) \o <<>> = heard \o Append(out, txWord)
      BY <3>4
    <3> QED BY <3>2, <3>3, <3>5
  <2>4. Sent' = Sent
    BY <1>0, <2>1, <2>3
  <2> QED BY <2>4 DEF Chain
<1>3. CASE Handle
  <2>1. /\ left' = <<>> \/ left' = buf[cur].words
        /\ UNCHANGED <<heard, out, txWord>> /\ left = <<>>
        /\ cur \in Buffer
    BY <1>3, Fields DEF Handle, At, lines, tx, BasicInv, TaskInv
  <2>2. CASE left' = <<>>
    <3>1. Sent' = Sent
      BY <1>0, <2>1, <2>2
    <3> QED BY <3>1 DEF Chain
  <2>3. CASE left' = buf[cur].words
    <3>1. buf[cur].used
      BY <2>1 DEF BasicInv, OwnInv
    <3>2. PICK p : left' = Words(p)
      BY <2>1, <2>3, <3>1 DEF WholePackages
    <3>3. left' \in Seq(WordOfPackage)
      BY <2>1, <2>3 DEF BasicInv, MmTypeOK
    <3>4. Chain(left')
      <4>1. ASSUME NEW i \in 1..Len(left'), left'[i][2] > 1
            PROVE  i > 1 /\ left'[i - 1] = <<left'[i][1], left'[i][2] - 1>>
        <5>1. /\ DOMAIN left' = 1..Len(left') /\ Len(left') \in Nat
              /\ \A j \in 1..Len(left') : left'[j] = <<p, j>>
          <6>1. DOMAIN left' = 1..Len(left') /\ Len(left') \in Nat
            BY <3>3
          <6>2. \A j \in DOMAIN left' : left'[j] = <<p, j>>
            BY <3>2 DEF Words
          <6>3. \A j \in 1..Len(left') : left'[j] = <<p, j>>
            BY <6>1, <6>2
          <6> QED BY <6>1, <6>3
        <5>2. left'[i] = <<p, i>> /\ i > 1
          BY <4>1, <5>1
        <5>3. left'[i - 1] = <<p, i - 1>>
          BY <5>1, <5>2
        <5> QED BY <5>2, <5>3
      <4> QED BY <4>1 DEF Chain
    <3>5. Sent' = Sent \o left' /\ Sent \in Seq(WordOfPackage)
      <4>1. given' = given
        BY <2>1
      <4> HIDE DEF given
      <4> QED BY <1>0, <2>1, <3>3, <4>1
    <3>6. Chain(Sent \o left')
      BY <3>3, <3>4, <3>5, ChainJoined
    <3> QED BY <3>5, <3>6 DEF Chain
  <2> QED BY <2>1, <2>2, <2>3
<1>4. CASE Feedback
  <2>1. /\ left # <<>> /\ txWord' = Head(left) /\ left' = Tail(left)
        /\ UNCHANGED <<heard, out>> /\ txWord = <<>>
    BY <1>4 DEF Feedback, Idle, lines, BasicInv, TaskInv
  <2>2. Head(left) # <<>>
    BY <1>0, <2>1, WordFacts
  <2>3. given' = <<Head(left)>> /\ given = <<>>
    BY <2>1, <2>2
  <2> HIDE DEF given
  <2>4. <<Head(left)>> \o Tail(left) = left
    BY <1>0, <2>1, Handed
  <2>5. Sent' = Sent
    <3>1. /\ Head(left) \in WordOfPackage /\ Tail(left) \in Seq(WordOfPackage)
      BY <1>0, <2>1
    <3>2. heard \o out \o <<Head(left)>> \o Tail(left)
            = heard \o out \o (<<Head(left)>> \o Tail(left))
      BY <1>0, <3>1
    <3>3. heard \o out \o <<>> \o left = heard \o out \o left
      BY <1>0
    <3> QED BY <1>0, <2>1, <2>3, <2>4, <3>2, <3>3
  <2> QED BY <2>5 DEF Chain
<1>5. CASE UNCHANGED <<heard, out, txWord, left>>
  <2>1. Sent' = Sent
    BY <1>5 DEF Sent
  <2> QED BY <2>1 DEF Chain
<1> QED BY <1>1, <1>2, <1>3, <1>4, <1>5, Frames

-----------------------------------------------------------------------------
(* The theorems. *)

LEMMA InvInit == ASSUME ManagerParameters, Init PROVE MmInv
<1>1. BasicInv
  BY BasicInit
<1>2. FlowInv
  <2>1. 1 \in Buffer
    BY DEF Buffer, ManagerParameters
  <2>2. fifo = <<>> /\ remote.sent = 0 /\ mctrl = 1 /\ buf[1].idx = 0
    BY <2>1 DEF Init
  <2> QED BY <2>2 DEF FlowInv, Fresh
<1>3. WholePackages
  BY DEF Init, WholePackages
<1>4. Chain(Sent)
  <2>1. Sent = <<>>
    BY DEF Init, Sent
  <2> QED BY <2>1 DEF Chain
<1> QED BY <1>1, <1>2, <1>3, <1>4 DEF MmInv

LEMMA InvStep ==
    ASSUME ManagerParameters, MmInv, [Next]_vars
    PROVE  MmInv'
<1>1. BasicInv /\ BasicInv'
  BY BasicStep DEF MmInv
<1>2. ASSUME Orderly PROVE FlowInv' /\ WholePackages' /\ Chain(Sent)'
  BY <1>2, <1>1, FlowStep, WholeStep, ChainStep DEF MmInv
<1> QED BY <1>1, <1>2 DEF MmInv, Orderly

(* What the invariant says of the answers the remote core has read.        *)
LEMMA InvAnswers == ASSUME ManagerParameters, MmInv PROVE AnswersWhole
<1> SUFFICES ASSUME Orderly, NEW i \in DOMAIN heard, heard[i][2] > 1
             PROVE  i > 1 /\ heard[i - 1] = <<heard[i][1], heard[i][2] - 1>>
  BY DEF AnswersWhole
<1> DEFINE rest == out \o (IF txWord = <<>> THEN <<>> ELSE <<txWord>>) \o left
<1> DEFINE given == IF txWord = <<>> THEN <<>> ELSE <<txWord>>
<1>0. /\ heard \in Seq(WordOfPackage) /\ out \in Seq(WordOfPackage)
      /\ left \in Seq(WordOfPackage) /\ given \in Seq(WordOfPackage)
  BY DEF MmInv, BasicInv, MmTypeOK
<1>1. heard \in Seq(WordOfPackage) /\ rest \in Seq(WordOfPackage)
  <2>1. rest = out \o given \o left
    OBVIOUS
  <2> HIDE DEF given, rest
  <2> QED BY <1>0, <2>1
<1>2. Sent = heard \o rest
  <2>1. Sent = heard \o out \o given \o left /\ rest = out \o given \o left
    BY DEF Sent
  <2> HIDE DEF given, rest
  <2>2. /\ out \o given \in Seq(WordOfPackage)
        /\ heard \o out \o given = heard \o (out \o given)
    BY <1>0
  <2>3. heard \o (out \o given) \o left = heard \o (out \o given \o left)
    BY <1>0, <2>2
  <2> QED BY <2>1, <2>2, <2>3
<1> HIDE DEF rest
<1>3. /\ i \in 1..Len(heard) /\ i \in 1..Len(Sent)
      /\ \A j \in 1..Len(heard) : Sent[j] = heard[j]
  BY <1>1, <1>2
<1>4. i > 1 /\ Sent[i - 1] = <<Sent[i][1], Sent[i][2] - 1>>
  BY <1>3 DEF MmInv, Chain
<1>5. i - 1 \in 1..Len(heard)
  BY <1>1, <1>3, <1>4
<1> QED BY <1>3, <1>4, <1>5

(* The steps alone, without the fairness, keep the invariant.              *)
LEMMA Invariant == ASSUME ManagerParameters PROVE Init /\ [][Next]_vars => []MmInv
<1>1. Init => MmInv
  BY InvInit
<1>2. MmInv /\ [Next]_vars => MmInv'
  BY InvStep
<1> QED BY <1>1, <1>2, PTL

(* The variables keep their types.                                         *)
THEOREM MmTypeCorrect == ASSUME ManagerParameters PROVE Spec => []MmTypeOK
<1>1. MmInv => MmTypeOK
  BY DEF MmInv, BasicInv
<1> QED BY <1>1, Invariant, PTL DEF Spec

(* rev_callback, the queue and the task hand the buffers round, whatever   *)
(* the remote core sends: a buffer is used exactly when it is queued, once, *)
(* or with the task, and never being filled then.                          *)
THEOREM BuffersOwnedAlways == ASSUME ManagerParameters PROVE Spec => []BuffersOwned
<1>1. MmInv => BuffersOwned
  BY OwnedOnce DEF MmInv
<1> QED BY <1>1, Invariant, PTL DEF Spec

(* Of a remote core that is orderly the task gets whole packages, although *)
(* packages are given up half way and idx wraps.                           *)
THEOREM WholePackagesAlways == ASSUME ManagerParameters PROVE Spec => []WholePackages
<1>1. MmInv => WholePackages
  BY DEF MmInv, WholePackages
<1> QED BY <1>1, Invariant, PTL DEF Spec

(* Then the remote core reads the words of every answer in their order,    *)
(* although the send of a word returns before the word has left.           *)
THEOREM AnswersWholeAlways == ASSUME ManagerParameters PROVE Spec => []AnswersWhole
<1>1. MmInv => AnswersWhole
  BY InvAnswers
<1> QED BY <1>1, Invariant, PTL DEF Spec
=============================================================================
