--------------------------- MODULE Services_proofs ---------------------------
(***************************************************************************)
(* Theorems about Services: the invariants of its parts hold of the parts  *)
(* side by side.  Those of the message manager, of the mutexes and of the  *)
(* power management client are proved in modules of their own and carried  *)
(* over; those of the data transfer sample are proved here, for any lengths *)
(* of the calls, of a buffer and of the queue.                             *)
(***************************************************************************)
EXTENDS Services, PmClient_proofs, FiniteSetTheorems, WellFoundedInduction

KmProofs == INSTANCE KernelMutex_proofs WITH
    Task <- KmTask, Idle <- KmIdle, Base <- KmBase, Mutex <- KmMutex,
    Recursive <- KmRecursive, MaxDepth <- KmMaxDepth,
    NestedWaits <- KmNestedWaits, NoTask <- None,
    mutex <- kMutex, prio <- kPrio, held <- kHeld, current <- kCurrent,
    ready <- kReady, call <- kCall, fallen <- kFallen

MmProofs == INSTANCE MessageManager_proofs WITH
    Packages <- MmPackages, Junk <- MmJunk, Buffers <- MmBuffers,
    IndexWords <- MmIndexWords, FifoDepth <- MmFifoDepth, Window <- MmWindow,
    EarlyWords <- MmEarlyWords, GapAfterAbort <- MmGapAfterAbort,
    fifo <- mFifo, out <- mOut, remote <- mRemote, late <- mLate,
    irqEn <- mIrqEn, isr <- mIsr, mctrl <- mMctrl, buf <- mBuf,
    queue <- mQueue, queueLive <- mQueueLive, pc <- mPc, cur <- mCur,
    left <- mLeft, txWord <- mTxWord, sendFinish <- mSendFinish,
    heard <- mHeard

-----------------------------------------------------------------------------
(* A step of the services is a step of a part, or leaves it as it is. *)
LEMMA Parts ==
    ASSUME [ServicesNext]_allVars
    PROVE  /\ [Next]_vars /\ [Manager!Next]_mvars
           /\ [Transfer!Next]_dvars /\ [Mutexes!Next]_kvars
<1>1. CASE ServicesNext
  BY <1>1 DEF ServicesNext
<1>2. CASE UNCHANGED allVars
  BY <1>2 DEF allVars
<1> QED BY <1>1, <1>2

(* The modules of the parts' proofs say the same as those Services has.    *)
LEMMA MutexesSame ==
    /\ Mutexes!Init => KmProofs!Init
    /\ [Mutexes!Next]_kvars => [KmProofs!Next]_KmProofs!vars
<1>1. Mutexes!Init => KmProofs!Init
  BY DEF Mutexes!Init, KmProofs!Init, Mutexes!NoCall, KmProofs!NoCall,
         Mutexes!Highest, KmProofs!Highest
<1>2. Mutexes!Tick => KmProofs!Tick
  BY DEF Mutexes!Tick, KmProofs!Tick, Mutexes!Highest, KmProofs!Highest
<1>3. ASSUME NEW t, Mutexes!Rest(t) PROVE KmProofs!Rest(t)
  BY <1>3 DEF Mutexes!Rest, KmProofs!Rest, Mutexes!At, KmProofs!At,
              Mutexes!Highest, KmProofs!Highest
<1>4. ASSUME NEW t, Mutexes!Take(t) PROVE KmProofs!Take(t)
  BY <1>4 DEF Mutexes!Take, KmProofs!Take, Mutexes!At, KmProofs!At,
              Mutexes!NoCall, KmProofs!NoCall
<1>5. ASSUME NEW t, Mutexes!TakeAgain(t) PROVE KmProofs!TakeAgain(t)
  BY <1>5 DEF Mutexes!TakeAgain, KmProofs!TakeAgain, Mutexes!At, KmProofs!At
<1>6. ASSUME NEW t, Mutexes!TryTakes(t) PROVE KmProofs!TryTakes(t)
  BY <1>6 DEF Mutexes!TryTakes, KmProofs!TryTakes, Mutexes!At, KmProofs!At,
              Mutexes!Return, KmProofs!Return, Mutexes!NoCall, KmProofs!NoCall
<1>7. ASSUME NEW t, Mutexes!TryFails(t) PROVE KmProofs!TryFails(t)
  BY <1>7 DEF Mutexes!TryFails, KmProofs!TryFails, Mutexes!At, KmProofs!At,
              Mutexes!Return, KmProofs!Return, Mutexes!Goto, KmProofs!Goto,
              Mutexes!NoCall, KmProofs!NoCall
<1>8. ASSUME NEW t, Mutexes!BlockLate(t) PROVE KmProofs!BlockLate(t)
  BY <1>8 DEF Mutexes!BlockLate, KmProofs!BlockLate, Mutexes!At, KmProofs!At
<1>9. ASSUME NEW t, Mutexes!BlockRetries(t) PROVE KmProofs!BlockRetries(t)
  BY <1>9 DEF Mutexes!BlockRetries, KmProofs!BlockRetries, Mutexes!At,
              KmProofs!At, Mutexes!Goto, KmProofs!Goto
<1>10. ASSUME NEW t, Mutexes!Block(t) PROVE KmProofs!Block(t)
  BY <1>10 DEF Mutexes!Block, KmProofs!Block, Mutexes!At, KmProofs!At,
               Mutexes!Inherit, KmProofs!Inherit, Mutexes!Inherited,
               KmProofs!Inherited, Mutexes!Place, KmProofs!Place,
               Mutexes!InsertAt, KmProofs!InsertAt, Mutexes!Yield,
               KmProofs!Yield, Mutexes!Highest, KmProofs!Highest
<1>11. ASSUME NEW t, Mutexes!LateTake(t) PROVE KmProofs!LateTake(t)
  BY <1>11 DEF Mutexes!LateTake, KmProofs!LateTake, Mutexes!At, KmProofs!At,
               Mutexes!Goto, KmProofs!Goto, Mutexes!Return, KmProofs!Return,
               Mutexes!NoCall, KmProofs!NoCall
<1>12. ASSUME NEW t, Mutexes!DisinheritAfterTimeout(t)
              PROVE KmProofs!DisinheritAfterTimeout(t)
  BY <1>12 DEF Mutexes!DisinheritAfterTimeout, KmProofs!DisinheritAfterTimeout,
               Mutexes!At, KmProofs!At, Mutexes!Return, KmProofs!Return,
               Mutexes!NoCall, KmProofs!NoCall
<1>13. ASSUME NEW t, Mutexes!GiveOne(t) PROVE KmProofs!GiveOne(t)
  BY <1>13 DEF Mutexes!GiveOne, KmProofs!GiveOne, Mutexes!At, KmProofs!At
<1>14. ASSUME NEW t, Mutexes!Give(t) PROVE KmProofs!Give(t)
  BY <1>14 DEF Mutexes!Give, KmProofs!Give, Mutexes!At, KmProofs!At,
               Mutexes!Disinherit, KmProofs!Disinherit, Mutexes!Yield,
               KmProofs!Yield, Mutexes!Highest, KmProofs!Highest
<1>15. ASSUME NEW t, Mutexes!TimePasses(t) PROVE KmProofs!TimePasses(t)
  BY <1>15 DEF Mutexes!TimePasses, KmProofs!TimePasses, Mutexes!Readied,
               KmProofs!Readied, Mutexes!RemoveAt, KmProofs!RemoveAt,
               Mutexes!Highest, KmProofs!Highest
<1>16. ASSUME NEW t, Mutexes!Rested(t) PROVE KmProofs!Rested(t)
  BY <1>16 DEF Mutexes!Rested, KmProofs!Rested, Mutexes!Readied,
               KmProofs!Readied, Mutexes!Highest, KmProofs!Highest
<1>17. Mutexes!Next => KmProofs!Next
  BY <1>2, <1>3, <1>4, <1>5, <1>6, <1>7, <1>8, <1>9, <1>10, <1>11, <1>12,
     <1>13, <1>14, <1>15, <1>16
     DEF Mutexes!Next, KmProofs!Next, Mutexes!TaskStep, KmProofs!TaskStep
<1>18. UNCHANGED kvars => UNCHANGED KmProofs!vars
  BY DEF kvars, KmProofs!vars
<1> QED BY <1>1, <1>17, <1>18

LEMMA ManagerSame ==
    /\ Manager!Init => MmProofs!Init
    /\ [Manager!Next]_mvars => [MmProofs!Next]_MmProofs!vars
<1>1. Manager!Init => MmProofs!Init
  BY DEF Manager!Init, MmProofs!Init, Manager!Buffer, MmProofs!Buffer
<1>2. Manager!RemoteSend => MmProofs!RemoteSend
  BY DEF Manager!RemoteSend, MmProofs!RemoteSend, Manager!Unhandled,
         MmProofs!Unhandled, Manager!mgr, MmProofs!mgr, Manager!tx,
         MmProofs!tx, Manager!task, MmProofs!task, Manager!Cardinality,
         MmProofs!Cardinality, Manager!Buffer, MmProofs!Buffer
<1>3. Manager!RemoteAbort => MmProofs!RemoteAbort
  BY DEF Manager!RemoteAbort, MmProofs!RemoteAbort, Manager!mgr, MmProofs!mgr,
         Manager!tx, MmProofs!tx, Manager!task, MmProofs!task
<1>4. Manager!TimePasses => MmProofs!TimePasses
  BY DEF Manager!TimePasses, MmProofs!TimePasses, Manager!tx, MmProofs!tx,
         Manager!task, MmProofs!task
<1>5. Manager!RemoteRead => MmProofs!RemoteRead
  BY DEF Manager!RemoteRead, MmProofs!RemoteRead, Manager!mgr, MmProofs!mgr,
         Manager!tx, MmProofs!tx, Manager!task, MmProofs!task
<1>6. Manager!IsrEnter => MmProofs!IsrEnter
  BY DEF Manager!IsrEnter, MmProofs!IsrEnter, Manager!Pending,
         MmProofs!Pending, Manager!lines, MmProofs!lines, Manager!mgr,
         MmProofs!mgr, Manager!tx, MmProofs!tx, Manager!task, MmProofs!task
<1>7. Manager!RevCallback => MmProofs!RevCallback
  BY DEF Manager!RevCallback, MmProofs!RevCallback, Manager!Available,
         MmProofs!Available, Manager!StartOver, MmProofs!StartOver,
         Manager!mgr, MmProofs!mgr, Manager!Complete, MmProofs!Complete,
         Manager!Partial, MmProofs!Partial, Manager!Full, MmProofs!Full,
         Manager!tx, MmProofs!tx, Manager!task, MmProofs!task, Manager!Buffer,
         MmProofs!Buffer, Manager!Min, MmProofs!Min, Manager!Count,
         MmProofs!Count
<1>8. Manager!RevDone => MmProofs!RevDone
  BY DEF Manager!RevDone, MmProofs!RevDone, Manager!lines, MmProofs!lines,
         Manager!mgr, MmProofs!mgr, Manager!tx, MmProofs!tx, Manager!task,
         MmProofs!task
<1>9. Manager!SendWord => MmProofs!SendWord
  BY DEF Manager!SendWord, MmProofs!SendWord, Manager!Sending,
         MmProofs!Sending, Manager!mgr, MmProofs!mgr, Manager!task,
         MmProofs!task
<1>10. Manager!SendFull => MmProofs!SendFull
  BY DEF Manager!SendFull, MmProofs!SendFull, Manager!Sending,
         MmProofs!Sending, Manager!lines, MmProofs!lines, Manager!mgr,
         MmProofs!mgr, Manager!tx, MmProofs!tx, Manager!task, MmProofs!task
<1>11. Manager!SendDone => MmProofs!SendDone
  BY DEF Manager!SendDone, MmProofs!SendDone, Manager!Sending,
         MmProofs!Sending, Manager!lines, MmProofs!lines, Manager!mgr,
         MmProofs!mgr, Manager!task, MmProofs!task
<1>12. Manager!IsrReturn => MmProofs!IsrReturn
  BY DEF Manager!IsrReturn, MmProofs!IsrReturn, Manager!lines, MmProofs!lines,
         Manager!mgr, MmProofs!mgr, Manager!tx, MmProofs!tx, Manager!task,
         MmProofs!task
<1>13. Manager!AllocRx => MmProofs!AllocRx
  BY DEF Manager!AllocRx, MmProofs!AllocRx, Manager!At, MmProofs!At,
         Manager!Goto, MmProofs!Goto, Manager!lines, MmProofs!lines,
         Manager!mgr, MmProofs!mgr
<1>14. Manager!AllocTx => MmProofs!AllocTx
  BY DEF Manager!AllocTx, MmProofs!AllocTx, Manager!At, MmProofs!At,
         Manager!Goto, MmProofs!Goto, Manager!lines, MmProofs!lines,
         Manager!mgr, MmProofs!mgr, Manager!tx, MmProofs!tx
<1>15. Manager!CreateQueue => MmProofs!CreateQueue
  BY DEF Manager!CreateQueue, MmProofs!CreateQueue, Manager!At, MmProofs!At,
         Manager!Goto, MmProofs!Goto, Manager!lines, MmProofs!lines,
         Manager!mgr, MmProofs!mgr, Manager!tx, MmProofs!tx
<1>16. Manager!Receive => MmProofs!Receive
  BY DEF Manager!Receive, MmProofs!Receive, Manager!At, MmProofs!At,
         Manager!Goto, MmProofs!Goto, Manager!lines, MmProofs!lines,
         Manager!tx, MmProofs!tx
<1>17. Manager!Handle => MmProofs!Handle
  BY DEF Manager!Handle, MmProofs!Handle, Manager!At, MmProofs!At,
         Manager!Goto, MmProofs!Goto, Manager!lines, MmProofs!lines,
         Manager!mgr, MmProofs!mgr, Manager!tx, MmProofs!tx
<1>18. Manager!Feedback => MmProofs!Feedback
  BY DEF Manager!Feedback, MmProofs!Feedback, Manager!At, MmProofs!At,
         Manager!Idle, MmProofs!Idle, Manager!lines, MmProofs!lines,
         Manager!mgr, MmProofs!mgr
<1>19. Manager!Fed => MmProofs!Fed
  BY DEF Manager!Fed, MmProofs!Fed, Manager!At, MmProofs!At, Manager!Idle,
         MmProofs!Idle, Manager!Goto, MmProofs!Goto, Manager!lines,
         MmProofs!lines, Manager!mgr, MmProofs!mgr, Manager!tx, MmProofs!tx
<1>20. Manager!Release => MmProofs!Release
  BY DEF Manager!Release, MmProofs!Release, Manager!At, MmProofs!At,
         Manager!Goto, MmProofs!Goto, Manager!lines, MmProofs!lines,
         Manager!tx, MmProofs!tx
<1>21. Manager!Next => MmProofs!Next
  BY <1>2, <1>3, <1>4, <1>5, <1>6, <1>7, <1>8, <1>9, <1>10, <1>11, <1>12,
     <1>13, <1>14, <1>15, <1>16, <1>17, <1>18, <1>19, <1>20
     DEF Manager!Next, MmProofs!Next, Manager!Isr, MmProofs!Isr,
         Manager!Task, MmProofs!Task
<1>22. UNCHANGED mvars => UNCHANGED MmProofs!vars
  BY DEF mvars, MmProofs!vars, MmProofs!lines, MmProofs!mgr, MmProofs!tx,
         MmProofs!task
<1> QED BY <1>1, <1>21, <1>22

(* So do the properties and the suppositions.                              *)
LEMMA MutexesMean ==
    /\ Mutexes!MutexParameters /\ ~KmNestedWaits => KmProofs!Simple
    /\ KmProofs!KmTypeOK => Mutexes!KmTypeOK
    /\ KmProofs!NoInversion => Mutexes!NoInversion
    /\ KmProofs!BaseWithoutMutex => Mutexes!BaseWithoutMutex
    /\ KmProofs!RunsHighest => Mutexes!RunsHighest
<1>1. Mutexes!MutexParameters /\ ~KmNestedWaits => KmProofs!Simple
  BY DEF KmProofs!Simple, KmProofs!MutexParameters, Mutexes!MutexParameters,
         KmProofs!IsFiniteSet, Mutexes!IsFiniteSet
<1>2. KmProofs!KmTypeOK => Mutexes!KmTypeOK
  BY DEF KmProofs!KmTypeOK, Mutexes!KmTypeOK, KmProofs!Cardinality,
         Mutexes!Cardinality, KmProofs!Points, Mutexes!Points
<1>3. KmProofs!NoInversion => Mutexes!NoInversion
  BY DEF KmProofs!NoInversion, Mutexes!NoInversion
<1>4. KmProofs!BaseWithoutMutex => Mutexes!BaseWithoutMutex
  BY DEF KmProofs!BaseWithoutMutex, Mutexes!BaseWithoutMutex
<1>5. KmProofs!RunsHighest => Mutexes!RunsHighest
  BY DEF KmProofs!RunsHighest, Mutexes!RunsHighest, KmProofs!Highest,
         Mutexes!Highest
<1> QED BY <1>1, <1>2, <1>3, <1>4, <1>5

LEMMA ManagerMeans ==
    /\ Manager!ManagerParameters => MmProofs!ManagerParameters
    /\ MmProofs!MmTypeOK => Manager!MmTypeOK
    /\ MmProofs!BuffersOwned => Manager!BuffersOwned
    /\ MmProofs!WholePackages => Manager!WholePackages
    /\ MmProofs!AnswersWhole => Manager!AnswersWhole
<1>1. Manager!ManagerParameters => MmProofs!ManagerParameters
  BY DEF MmProofs!ManagerParameters, Manager!ManagerParameters
<1>2. MmProofs!MmTypeOK => Manager!MmTypeOK
  BY DEF MmProofs!MmTypeOK, Manager!MmTypeOK, MmProofs!WordOfPackage,
         Manager!WordOfPackage, MmProofs!Buffer, Manager!Buffer
<1>3. MmProofs!BuffersOwned => Manager!BuffersOwned
  BY DEF MmProofs!BuffersOwned, Manager!BuffersOwned, MmProofs!Buffer,
         Manager!Buffer, MmProofs!Cardinality, Manager!Cardinality
<1>4. MmProofs!WholePackages => Manager!WholePackages
  BY DEF MmProofs!WholePackages, Manager!WholePackages, MmProofs!Orderly,
         Manager!Orderly, MmProofs!Buffer, Manager!Buffer, MmProofs!Words,
         Manager!Words
<1>5. MmProofs!AnswersWhole => Manager!AnswersWhole
  BY DEF MmProofs!AnswersWhole, Manager!AnswersWhole, MmProofs!Orderly,
         Manager!Orderly
<1> QED BY <1>1, <1>2, <1>3, <1>4, <1>5

(* The invariant of the mutexes, of the message manager.                   *)
LEMMA MutexesInvariant ==
    ASSUME Mutexes!MutexParameters, ~KmNestedWaits
    PROVE  ServicesSpec => [](/\ Mutexes!KmTypeOK /\ Mutexes!NoInversion
                              /\ Mutexes!BaseWithoutMutex
                              /\ Mutexes!RunsHighest)
<1>1. KmProofs!Simple
  BY MutexesMean
<1>2. KmProofs!Spec => []KmProofs!KmTypeOK
  BY <1>1, KmProofs!KmTypeCorrect
<1>3. KmProofs!Spec => []KmProofs!NoInversion
  BY <1>1, KmProofs!NoInversionAlways
<1>4. KmProofs!Spec => []KmProofs!BaseWithoutMutex
  BY <1>1, KmProofs!BaseWithoutMutexAlways
<1>5. KmProofs!Spec => []KmProofs!RunsHighest
  BY <1>1, KmProofs!RunsHighestAlways
<1>6. ServicesInit => KmProofs!Init
  BY MutexesSame DEF ServicesInit
<1>7. [ServicesNext]_allVars => [KmProofs!Next]_KmProofs!vars
  BY Parts, MutexesSame
<1>8. ServicesSpec => KmProofs!Spec
  BY <1>6, <1>7, PTL DEF ServicesSpec, KmProofs!Spec
<1>9. /\ KmProofs!KmTypeOK /\ KmProofs!NoInversion /\ KmProofs!BaseWithoutMutex
      /\ KmProofs!RunsHighest
      => /\ Mutexes!KmTypeOK /\ Mutexes!NoInversion /\ Mutexes!BaseWithoutMutex
         /\ Mutexes!RunsHighest
  BY MutexesMean
<1> QED BY <1>2, <1>3, <1>4, <1>5, <1>8, <1>9, PTL

LEMMA ManagerInvariant ==
    ASSUME Manager!ManagerParameters
    PROVE  ServicesSpec => [](/\ Manager!MmTypeOK /\ Manager!BuffersOwned
                              /\ Manager!WholePackages /\ Manager!AnswersWhole)
<1>1. MmProofs!ManagerParameters
  BY ManagerMeans
<1>2. MmProofs!Init /\ [][MmProofs!Next]_MmProofs!vars => []MmProofs!MmInv
  BY <1>1, MmProofs!Invariant
<1>3. ServicesInit => MmProofs!Init
  BY ManagerSame DEF ServicesInit
<1>4. [ServicesNext]_allVars => [MmProofs!Next]_MmProofs!vars
  BY Parts, ManagerSame
<1>5. ASSUME MmProofs!MmInv
      PROVE  /\ Manager!MmTypeOK /\ Manager!BuffersOwned
             /\ Manager!WholePackages /\ Manager!AnswersWhole
  <2>1. MmProofs!MmTypeOK /\ MmProofs!BasicInv
    BY <1>5 DEF MmProofs!MmInv, MmProofs!BasicInv
  <2>2. MmProofs!BuffersOwned
    BY <1>1, <2>1, MmProofs!OwnedOnce
  <2>3. MmProofs!WholePackages
    BY <1>5 DEF MmProofs!MmInv, MmProofs!WholePackages
  <2>4. MmProofs!AnswersWhole
    BY <1>1, <1>5, MmProofs!InvAnswers
  <2> QED BY <2>1, <2>2, <2>3, <2>4, ManagerMeans
<1> QED BY <1>2, <1>3, <1>4, <1>5, PTL DEF ServicesSpec

-----------------------------------------------------------------------------
(* The data transfer sample.                                               *)
Inside(b) == \E i \in 1..Len(dWork) : dWork[i] = b

Block == [used : BOOLEAN, units : Seq(Transfer!Unit)]

OwnerState == [at : {"create", "find", "queue", "destroy", "done"},
               call : 1..Len(DtLengths) + 1, buffer : Transfer!Buffer,
               offset : Nat]

(* A buffer is in the queue once, or with the task, or about to be queued, *)
(* and is used then; Exit is put into the queue once, and last.            *)
RoomInv ==
    /\ \A i, j \in 1..Len(dWork) : dWork[i] = dWork[j] => i = j
    /\ \A i \in 1..Len(dWork) : dWork[i] \in Transfer!Buffer =>
       dPool[dWork[i]].used
    /\ Inside(Transfer!Exit) => dOwner.at = "done"
    /\ dPc \in {"write", "release"} =>
          dItem \in Transfer!Buffer /\ dPool[dItem].used /\ ~Inside(dItem)
    /\ dOwner.at = "queue" =>
          /\ dPool[dOwner.buffer].used /\ ~Inside(dOwner.buffer)
          /\ dPc \in {"write", "release"} => dItem # dOwner.buffer
    /\ dOwner.at \in {"create", "find", "queue"} =>
       dOwner.call <= Len(DtLengths)

DtInv == Transfer!DtTypeOK /\ RoomInv

LEMMA DtFields ==
    ASSUME Transfer!TransferParameters, DtInv
    PROVE  /\ dOwner \in OwnerState /\ dPool \in [Transfer!Buffer -> Block]
           /\ dWork \in Seq(Transfer!Buffer \cup {Transfer!Exit})
           /\ Len(dWork) \in Nat
           /\ \A i \in 1..Len(dWork) : dWork[i] \in Transfer!Buffer
              \cup {Transfer!Exit}
           /\ Transfer!Exit \notin Transfer!Buffer
           /\ Transfer!Buffer \subseteq Nat
           /\ DtBlockLength \in Nat \ {0} /\ DtQueueSize \in Nat \ {0}
           /\ Len(DtLengths) \in Nat \ {0}
           /\ \A c \in 1..Len(DtLengths) : DtLengths[c] \in Nat
<1>1. dOwner \in OwnerState /\ dPool \in [Transfer!Buffer -> Block]
  BY DEF DtInv, Transfer!DtTypeOK, OwnerState, Block
<1>2. dWork \in Seq(Transfer!Buffer \cup {Transfer!Exit})
  BY DEF DtInv, Transfer!DtTypeOK
<1>3. Transfer!Exit \notin Transfer!Buffer /\ Transfer!Buffer \subseteq Nat
  BY DEF Transfer!Exit, Transfer!Buffer, Transfer!TransferParameters
<1>4. /\ DtBlockLength \in Nat \ {0} /\ DtQueueSize \in Nat \ {0}
      /\ Len(DtLengths) \in Nat \ {0}
      /\ \A c \in 1..Len(DtLengths) : DtLengths[c] \in Nat
  BY DEF Transfer!TransferParameters
<1> QED BY <1>1, <1>2, <1>3, <1>4

(* What is put at the end of the queue.                                    *)
LEMMA OneQueued ==
    ASSUME Transfer!TransferParameters, DtInv, NEW x \in Transfer!Buffer
           \cup {Transfer!Exit}, ~Inside(x),
           Len(dWork) < DtQueueSize, dWork' = Append(dWork, x)
    PROVE  /\ dWork' \in Seq(Transfer!Buffer \cup {Transfer!Exit})
           /\ Len(dWork') = Len(dWork) + 1
           /\ Len(dWork') <= DtQueueSize
           /\ \A i \in 1..Len(dWork') :
                 dWork'[i] = IF i <= Len(dWork) THEN dWork[i] ELSE x
           /\ \A i, j \in 1..Len(dWork') : dWork'[i] = dWork'[j] => i = j
           /\ \A b : Inside(b)' <=> (Inside(b) \/ b = x)
<1>1. /\ dWork \in Seq(Transfer!Buffer \cup {Transfer!Exit})
      /\ Len(dWork) \in Nat /\ DtQueueSize \in Nat
  BY DtFields
<1>2. /\ dWork' \in Seq(Transfer!Buffer \cup {Transfer!Exit})
      /\ Len(dWork') = Len(dWork) + 1
      /\ \A i \in 1..Len(dWork') :
            dWork'[i] = IF i <= Len(dWork) THEN dWork[i] ELSE x
  BY <1>1
<1>3. \A i, j \in 1..Len(dWork') : dWork'[i] = dWork'[j] => i = j
  BY <1>1, <1>2 DEF DtInv, RoomInv, Inside
<1>4. ASSUME NEW b PROVE Inside(b)' <=> (Inside(b) \/ b = x)
  BY <1>1, <1>2 DEF Inside
<1> QED BY <1>1, <1>2, <1>3, <1>4

(* What Receive takes from the front.                                      *)
LEMMA OneTaken ==
    ASSUME Transfer!TransferParameters, DtInv, dWork # <<>>,
           dWork' = Tail(dWork)
    PROVE  /\ dWork' \in Seq(Transfer!Buffer \cup {Transfer!Exit})
           /\ Len(dWork') <= Len(dWork)
           /\ Head(dWork) \in Transfer!Buffer \cup {Transfer!Exit}
           /\ Inside(Head(dWork))
           /\ \A i, j \in 1..Len(dWork') : dWork'[i] = dWork'[j] => i = j
           /\ \A b : Inside(b)' <=> (Inside(b) /\ b # Head(dWork))
<1>1. /\ dWork \in Seq(Transfer!Buffer \cup {Transfer!Exit})
      /\ Len(dWork) \in Nat \ {0}
      /\ Head(dWork) = dWork[1] /\ Head(dWork) \in Transfer!Buffer
         \cup {Transfer!Exit}
      /\ dWork' \in Seq(Transfer!Buffer \cup {Transfer!Exit})
      /\ Len(dWork') = Len(dWork) - 1
      /\ \A i \in 1..Len(dWork) - 1 : dWork'[i] = dWork[i + 1]
  <2>1. dWork \in Seq(Transfer!Buffer \cup {Transfer!Exit})
    BY DtFields
  <2> QED BY <2>1
<1>2. \A i, j \in 1..Len(dWork') : dWork'[i] = dWork'[j] => i = j
  BY <1>1 DEF DtInv, RoomInv
<1>3. ASSUME NEW b, Inside(b), b # Head(dWork) PROVE Inside(b)'
  <2>1. PICK i \in 1..Len(dWork) : dWork[i] = b
    BY <1>3 DEF Inside
  <2>2. i - 1 \in 1..Len(dWork') /\ dWork'[i - 1] = b
    BY <1>1, <1>3, <2>1
  <2> QED BY <2>2 DEF Inside
<1>4. ASSUME NEW b, Inside(b)' PROVE Inside(b) /\ b # Head(dWork)
  <2>1. PICK i \in 1..Len(dWork') : dWork'[i] = b
    BY <1>4 DEF Inside
  <2>2. i + 1 \in 1..Len(dWork) /\ dWork[i + 1] = b /\ 1 \in 1..Len(dWork)
    BY <1>1, <2>1
  <2>3. b # dWork[1]
    <3>1. i + 1 # 1
      BY <2>1
    <3> QED BY <2>2, <3>1 DEF DtInv, RoomInv
  <2> QED BY <1>1, <2>2, <2>3 DEF Inside
<1>5. Inside(Head(dWork))
  BY <1>1 DEF Inside
<1> QED BY <1>1, <1>2, <1>3, <1>4, <1>5

(* The free buffer with the least number.                                  *)
LEMMA FreeLeast ==
    ASSUME Transfer!TransferParameters, DtInv, Transfer!Free # {}
    PROVE  Transfer!Min(Transfer!Free) \in Transfer!Buffer
           /\ ~dPool[Transfer!Min(Transfer!Free)].used
<1> DEFINE R == OpToRel(<, Nat)
<1>1. IsWellFoundedOn(R, Nat)
  BY NatLessThanWellFounded
<1>2. \A x, y \in Nat : x < y => <<x, y>> \in R
  BY DEF OpToRel
<1> HIDE DEF R
<1>3. Transfer!Free \subseteq Nat
  BY DtFields DEF Transfer!Free
<1>4. PICK x \in Transfer!Free : \A y \in Transfer!Free : ~ (<<y, x>> \in R)
  BY <1>1, <1>3, WFMin
<1>5. \A y \in Transfer!Free : x <= y
  <2> TAKE y \in Transfer!Free
  <2>1. x \in Nat /\ y \in Nat
    BY <1>3
  <2>2. ~ (y < x)
    BY <1>2, <1>4, <2>1
  <2> QED BY <2>1, <2>2
<1>6. Transfer!Min(Transfer!Free) \in Transfer!Free
  BY <1>5 DEF Transfer!Min
<1> QED BY <1>6 DEF Transfer!Free

LEMMA DtInit == ASSUME Transfer!TransferParameters, Transfer!Init PROVE DtInv
<1>1. /\ DtQueueSize \in Nat \ {0} /\ Len(DtLengths) \in Nat \ {0}
      /\ 1 \in Transfer!Buffer /\ 1 \in 1..Len(DtLengths) + 1
  BY DEF Transfer!TransferParameters, Transfer!Buffer
<1>2. Transfer!DtTypeOK
  <2>1. dOwner \in OwnerState
    BY <1>1 DEF Transfer!Init, OwnerState
  <2>2. dPool \in [Transfer!Buffer -> Block]
    BY DEF Transfer!Init, Block
  <2> QED BY <1>1, <2>1, <2>2 DEF Transfer!Init, Transfer!DtTypeOK, OwnerState,
  Block
<1>3. RoomInv
  BY <1>1 DEF Transfer!Init, RoomInv, Inside
<1> QED BY <1>2, <1>3 DEF DtInv

(* The parts of an owner.                                                  *)
LEMMA OwnerParts ==
    ASSUME Transfer!TransferParameters, DtInv
    PROVE  /\ dOwner = [at |-> dOwner.at, call |-> dOwner.call,
                       buffer |-> dOwner.buffer, offset |-> dOwner.offset]
           /\ dOwner.at \in {"create", "find", "queue", "destroy", "done"}
           /\ dOwner.call \in 1..Len(DtLengths) + 1
           /\ dOwner.buffer \in Transfer!Buffer /\ dOwner.offset \in Nat
  BY DtFields DEF OwnerState

(* What the owner does to itself when a block is queued.                   *)
LEMMA NextBlock ==
    ASSUME Transfer!TransferParameters, DtInv, dOwner.at = "queue",
           dOwner' = Transfer!AfterBlock
    PROVE  /\ dOwner' \in OwnerState
           /\ dOwner'.at \in {"find", "destroy"}
           /\ dOwner'.at = "find" => dOwner'.call <= Len(DtLengths)
<1> DEFINE len == DtLengths[dOwner.call]
           offset == dOwner.offset + Transfer!SendLen(len)
<1>1. /\ dOwner = [at |-> dOwner.at, call |-> dOwner.call,
                  buffer |-> dOwner.buffer, offset |-> dOwner.offset]
      /\ dOwner.call \in 1..Len(DtLengths) /\ dOwner.buffer \in Transfer!Buffer
      /\ Len(DtLengths) \in Nat
  BY OwnerParts, DtFields DEF DtInv, RoomInv
<1>2. len \in Nat /\ offset \in Nat
  BY <1>1, OwnerParts, DtFields DEF Transfer!SendLen
<1> HIDE DEF len, offset
<1>3. dOwner' = IF offset < len THEN [dOwner EXCEPT !.at = "find",
      !.offset = offset]
               ELSE [dOwner EXCEPT !.at = IF dOwner.call = Len(DtLengths)
                                         THEN "destroy" ELSE "find",
                                  !.call = dOwner.call + 1, !.offset = 0]
  BY <1>1 DEF Transfer!AfterBlock, len, offset
<1>4. CASE offset < len
  <2>1. dOwner' = [at |-> "find", call |-> dOwner.call,
        buffer |-> dOwner.buffer,
                  offset |-> offset]
    BY <1>1, <1>3, <1>4
  <2> QED BY <1>1, <1>2, <2>1 DEF OwnerState
<1>5. CASE ~(offset < len)
  <2>1. dOwner' = [at |-> IF dOwner.call = Len(DtLengths) THEN "destroy"
        ELSE "find",
                  call |-> dOwner.call + 1, buffer |-> dOwner.buffer,
                  offset |-> 0]
    BY <1>1, <1>3, <1>5
  <2> QED BY <1>1, <2>1 DEF OwnerState
<1> QED BY <1>4, <1>5

LEMMA DtStep == ASSUME Transfer!TransferParameters, DtInv,
                [Transfer!Next]_dvars PROVE DtInv'
<1>0. /\ dOwner \in OwnerState /\ dPool \in [Transfer!Buffer -> Block]
      /\ dWork \in Seq(Transfer!Buffer \cup {Transfer!Exit})
      /\ Len(dWork) <= DtQueueSize
      /\ dPlayed \in Seq(Transfer!Unit) /\ dItem \in Transfer!Buffer
         \cup {Transfer!Exit}
      /\ dAdt \in {"none", "live", "freed"} /\ dHandle \in {"open", "closed"}
      /\ dPc \in {"none", "receive", "write", "release", "exit", "deleted"}
  BY DEF DtInv, Transfer!DtTypeOK, OwnerState, Block
<1>a. ASSUME dOwner' \in OwnerState, dPool' \in [Transfer!Buffer -> Block],
             dWork' \in Seq(Transfer!Buffer \cup {Transfer!Exit}),
             Len(dWork') <= DtQueueSize,
             dPlayed' \in Seq(Transfer!Unit), dItem' \in Transfer!Buffer
             \cup {Transfer!Exit},
             dAdt' \in {"none", "live", "freed"}, dHandle' \in {"open",
             "closed"},
             dPc' \in {"none", "receive", "write", "release", "exit",
             "deleted"}
      PROVE  Transfer!DtTypeOK'
  BY <1>a DEF Transfer!DtTypeOK, OwnerState, Block
<1>1. CASE Transfer!Create
  <2>1. /\ dOwner.at = "create" /\ dOwner' = [dOwner EXCEPT !.at = "find"]
        /\ dAdt' = "live" /\ dHandle' = "open" /\ dPc' = "receive"
        /\ UNCHANGED <<dPool, dWork, dItem, dPlayed>>
    BY <1>1 DEF Transfer!Create
  <2>2. /\ dOwner' \in OwnerState /\ dOwner'.at = "find"
        /\ dOwner'.call = dOwner.call
    BY <1>0, <2>1 DEF OwnerState
  <2>3. Transfer!DtTypeOK'
    BY <1>0, <1>a, <2>1, <2>2
  <2>4. RoomInv'
    BY <2>1, <2>2, OwnerParts DEF DtInv, RoomInv, Inside
  <2> QED BY <2>3, <2>4 DEF DtInv
<1>2. CASE Transfer!CreateReturnsNull
  <2>1. /\ dOwner.at = "create" /\ dOwner' = [dOwner EXCEPT !.at = "done"]
        /\ UNCHANGED <<dAdt, dHandle, dPc, dPool, dWork, dItem, dPlayed>>
    BY <1>2 DEF Transfer!CreateReturnsNull
  <2>2. /\ dOwner' \in OwnerState /\ dOwner'.at = "done"
    BY <1>0, <2>1 DEF OwnerState
  <2>3. Transfer!DtTypeOK'
    BY <1>0, <1>a, <2>1, <2>2
  <2>4. RoomInv'
    BY <2>1, <2>2 DEF DtInv, RoomInv, Inside
  <2> QED BY <2>3, <2>4 DEF DtInv
<1>3. CASE Transfer!FillBlock
  <2> DEFINE b == Transfer!Min(Transfer!Free)
             block == [i \in 1..Transfer!SendLen(DtLengths[dOwner.call]) |->
                          <<dOwner.call, dOwner.offset + i>>]
  <2>1. /\ dOwner.at = "find" /\ Transfer!Free # {}
        /\ dPool' = [dPool EXCEPT ![b] = [used |-> TRUE, units |-> block]]
        /\ dOwner' = [dOwner EXCEPT !.at = "queue", !.buffer = b]
        /\ UNCHANGED <<dAdt, dWork, dPc, dItem, dHandle, dPlayed>>
    BY <1>3 DEF Transfer!FillBlock
  <2>2. b \in Transfer!Buffer /\ ~dPool[b].used
    BY <2>1, FreeLeast
  <2>3. block \in Seq(Transfer!Unit)
    <3>1. dOwner.call \in 1..Len(DtLengths) /\ dOwner.offset \in Nat
      BY <2>1, OwnerParts, DtFields DEF DtInv, RoomInv
    <3>2. Transfer!SendLen(DtLengths[dOwner.call]) \in Nat
      BY <3>1, DtFields DEF Transfer!SendLen
    <3>3. \A i \in 1..Transfer!SendLen(DtLengths[dOwner.call]) :
              <<dOwner.call, dOwner.offset + i>> \in Transfer!Unit
      BY <3>1, <3>2 DEF Transfer!Unit
    <3> QED BY <3>2, <3>3
  <2> HIDE DEF b, block
  <2>4. /\ dOwner' \in OwnerState /\ dOwner'.at = "queue" /\ dOwner'.buffer = b
        /\ dOwner'.call = dOwner.call
    BY <1>0, <2>1, <2>2 DEF OwnerState
  <2>5. [used |-> TRUE, units |-> block] \in Block
    BY <2>3 DEF Block
  <2>6. /\ dPool' \in [Transfer!Buffer -> Block] /\ dPool'[b].used
        /\ \A c \in Transfer!Buffer : c # b => dPool'[c] = dPool[c]
    BY <1>0, <2>1, <2>2, <2>5
  <2>7. Transfer!DtTypeOK'
    BY <1>0, <1>a, <2>1, <2>4, <2>6
  <2>8. ~Inside(b) /\ (dPc \in {"write", "release"} => dItem # b)
    BY <2>2 DEF DtInv, RoomInv, Inside
  <2>9. RoomInv'
    <3>1. \A c \in Transfer!Buffer : dPool[c].used => dPool'[c].used
      BY <2>2, <2>6
    <3>2. \A c : Inside(c)' <=> Inside(c)
      BY <2>1 DEF Inside
    <3>3. \A i \in 1..Len(dWork) : dWork[i] \in Transfer!Buffer =>
          dPool[dWork[i]].used
      BY DEF DtInv, RoomInv
    <3>4. \A i \in 1..Len(dWork') : dWork'[i] \in Transfer!Buffer =>
          dPool'[dWork'[i]].used
      BY <2>1, <3>1, <3>3
    <3>5. \A i, j \in 1..Len(dWork') : dWork'[i] = dWork'[j] => i = j
      BY <2>1 DEF DtInv, RoomInv
    <3>6. dOwner.call <= Len(DtLengths)
      BY <2>1 DEF DtInv, RoomInv
    <3>7. ~Inside(Transfer!Exit)
      BY <2>1 DEF DtInv, RoomInv
    <3>8. dPc' \in {"write", "release"} =>
              dItem' \in Transfer!Buffer /\ dPool'[dItem'].used
              /\ ~Inside(dItem)'
      BY <2>1, <3>1, <3>2 DEF DtInv, RoomInv
    <3>9. dPool'[dOwner'.buffer].used /\ ~Inside(dOwner.buffer)'
      BY <2>1, <2>4, <2>6, <2>8 DEF Inside
    <3> QED BY <2>1, <2>4, <2>8, <3>2, <3>4, <3>5, <3>6, <3>7, <3>8, <3>9
    DEF RoomInv
  <2> QED BY <2>7, <2>9 DEF DtInv
<1>4. CASE Transfer!QueueBlock
  <2>1. /\ dOwner.at = "queue" /\ Len(dWork) < DtQueueSize
        /\ dWork' = Append(dWork, dOwner.buffer)
        /\ dOwner' = Transfer!AfterBlock
        /\ UNCHANGED <<dAdt, dPool, dPc, dItem, dHandle, dPlayed>>
    BY <1>4 DEF Transfer!QueueBlock
  <2>2. /\ dOwner.buffer \in Transfer!Buffer /\ ~Inside(dOwner.buffer)
        /\ dPool[dOwner.buffer].used
        /\ dPc \in {"write", "release"} => dItem # dOwner.buffer
    BY <2>1, OwnerParts DEF DtInv, RoomInv
  <2>3. /\ dWork' \in Seq(Transfer!Buffer \cup {Transfer!Exit})
        /\ Len(dWork') = Len(dWork) + 1
        /\ Len(dWork') <= DtQueueSize /\ Len(dWork) \in Nat
        /\ \A i \in 1..Len(dWork') :
              dWork'[i] = IF i <= Len(dWork) THEN dWork[i] ELSE dOwner.buffer
        /\ \A i, j \in 1..Len(dWork') : dWork'[i] = dWork'[j] => i = j
        /\ \A c : Inside(c)' <=> (Inside(c) \/ c = dOwner.buffer)
    BY <2>1, <2>2, OneQueued, DtFields
  <2>4. /\ dOwner' \in OwnerState
        /\ dOwner'.at \in {"find", "destroy"}
        /\ dOwner'.at = "find" => dOwner'.call <= Len(DtLengths)
    BY <2>1, NextBlock
  <2>5. Transfer!DtTypeOK'
    BY <1>0, <1>a, <2>1, <2>3, <2>4
  <2>6. RoomInv'
    <3>1. \A i \in 1..Len(dWork) : dWork[i] \in Transfer!Buffer =>
          dPool[dWork[i]].used
      BY DEF DtInv, RoomInv
    <3>2. \A i \in 1..Len(dWork') : dWork'[i] \in Transfer!Buffer =>
          dPool'[dWork'[i]].used
      BY <2>1, <2>2, <2>3, <3>1
    <3>3. ~Inside(Transfer!Exit)'
      BY <2>1, <2>2, <2>3, DtFields DEF DtInv, RoomInv
    <3>4. dPc' \in {"write", "release"} =>
              dItem' \in Transfer!Buffer /\ dPool'[dItem'].used
              /\ ~Inside(dItem)'
      <4>1. dPc \in {"write", "release"} =>
              dItem \in Transfer!Buffer /\ dPool[dItem].used /\ ~Inside(dItem)
        BY DEF DtInv, RoomInv
      <4>3. Inside(dItem)' <=> (Inside(dItem) \/ dItem = dOwner.buffer)
        <5>1. dItem' = dItem
          BY <2>1
        <5>2. \A c : (\E i \in 1..Len(dWork') : dWork'[i] = c)
                        <=> (Inside(c) \/ c = dOwner.buffer)
          BY <2>3 DEF Inside
        <5> QED BY <5>1, <5>2 DEF Inside
      <4> QED BY <2>1, <2>2, <4>1, <4>3
    <3> QED BY <2>3, <2>4, <3>2, <3>3, <3>4 DEF RoomInv
  <2> QED BY <2>5, <2>6 DEF DtInv
<1>5. CASE Transfer!QueueExit
  <2>1. /\ dOwner.at = "destroy" /\ Len(dWork) < DtQueueSize
        /\ dWork' = Append(dWork, Transfer!Exit)
        /\ dOwner' = [dOwner EXCEPT !.at = "done"]
        /\ UNCHANGED <<dAdt, dPool, dPc, dItem, dHandle, dPlayed>>
    BY <1>5 DEF Transfer!QueueExit
  <2>2. Transfer!Exit \in Transfer!Buffer \cup {Transfer!Exit}
        /\ Transfer!Exit \notin Transfer!Buffer /\ ~Inside(Transfer!Exit)
    BY <2>1, DtFields DEF DtInv, RoomInv
  <2>3. /\ dWork' \in Seq(Transfer!Buffer \cup {Transfer!Exit})
        /\ Len(dWork') = Len(dWork) + 1
        /\ Len(dWork') <= DtQueueSize /\ Len(dWork) \in Nat
        /\ \A i \in 1..Len(dWork') :
              dWork'[i] = IF i <= Len(dWork) THEN dWork[i] ELSE Transfer!Exit
        /\ \A i, j \in 1..Len(dWork') : dWork'[i] = dWork'[j] => i = j
        /\ \A c : Inside(c)' <=> (Inside(c) \/ c = Transfer!Exit)
    BY <2>1, <2>2, OneQueued, DtFields
  <2>4. dOwner' \in OwnerState /\ dOwner'.at = "done"
    BY <1>0, <2>1 DEF OwnerState
  <2>5. Transfer!DtTypeOK'
    BY <1>0, <1>a, <2>1, <2>3, <2>4
  <2>6. RoomInv'
    <3>1. \A i \in 1..Len(dWork) : dWork[i] \in Transfer!Buffer =>
          dPool[dWork[i]].used
      BY DEF DtInv, RoomInv
    <3>2. \A i \in 1..Len(dWork') : dWork'[i] \in Transfer!Buffer =>
          dPool'[dWork'[i]].used
      BY <2>1, <2>2, <2>3, <3>1
    <3>4. dPc' \in {"write", "release"} =>
              dItem' \in Transfer!Buffer /\ dPool'[dItem'].used
              /\ ~Inside(dItem)'
      <4>1. dPc \in {"write", "release"} =>
              dItem \in Transfer!Buffer /\ dPool[dItem].used /\ ~Inside(dItem)
        BY DEF DtInv, RoomInv
      <4>3. Inside(dItem)' <=> (Inside(dItem) \/ dItem = Transfer!Exit)
        <5>1. dItem' = dItem
          BY <2>1
        <5>2. \A c : (\E i \in 1..Len(dWork') : dWork'[i] = c)
                        <=> (Inside(c) \/ c = Transfer!Exit)
          BY <2>3 DEF Inside
        <5> QED BY <5>1, <5>2 DEF Inside
      <4> QED BY <2>1, <2>2, <4>1, <4>3
    <3> QED BY <2>3, <2>4, <3>2, <3>4 DEF RoomInv
  <2> QED BY <2>5, <2>6 DEF DtInv
<1>6. CASE Transfer!QueueExitFails
  <2>1. /\ dOwner.at = "destroy" /\ dOwner' = [dOwner EXCEPT !.at = "done"]
        /\ dAdt' = "freed" /\ dHandle' = "closed"
        /\ UNCHANGED <<dPool, dWork, dPc, dItem, dPlayed>>
    BY <1>6 DEF Transfer!QueueExitFails
  <2>2. dOwner' \in OwnerState /\ dOwner'.at = "done"
    BY <1>0, <2>1 DEF OwnerState
  <2>3. Transfer!DtTypeOK'
    BY <1>0, <1>a, <2>1, <2>2
  <2>4. RoomInv'
    BY <2>1, <2>2 DEF DtInv, RoomInv, Inside
  <2> QED BY <2>3, <2>4 DEF DtInv
<1>7. CASE Transfer!Receive
  <2>1. /\ dPc = "receive" /\ dWork # <<>>
        /\ dItem' = Head(dWork) /\ dWork' = Tail(dWork)
        /\ dPc' = IF Head(dWork) = Transfer!Exit THEN "exit" ELSE "write"
        /\ UNCHANGED <<dAdt, dPool, dHandle, dPlayed, dOwner>>
    BY <1>7 DEF Transfer!Receive, Transfer!At
  <2>2. /\ dWork' \in Seq(Transfer!Buffer \cup {Transfer!Exit})
        /\ Len(dWork') <= Len(dWork)
        /\ Head(dWork) \in Transfer!Buffer \cup {Transfer!Exit}
        /\ Inside(Head(dWork))
        /\ \A i, j \in 1..Len(dWork') : dWork'[i] = dWork'[j] => i = j
        /\ \A b : Inside(b)' <=> (Inside(b) /\ b # Head(dWork))
    BY <2>1, OneTaken
  <2>3. Len(dWork') <= DtQueueSize /\ Len(dWork') \in Nat
    BY <1>0, <2>2, DtFields
  <2>4. Transfer!DtTypeOK'
    BY <1>0, <1>a, <2>1, <2>2, <2>3
  <2>5. \A c : (\E i \in 1..Len(dWork') : dWork'[i] = c)
                        <=> (Inside(c) /\ c # Head(dWork))
    BY <2>2 DEF Inside
  <2>6. \A c \in Transfer!Buffer : Inside(c) => dPool[c].used
    BY DEF DtInv, RoomInv, Inside
  <2>7. \A i \in 1..Len(dWork') : dWork'[i] \in Transfer!Buffer =>
        dPool'[dWork'[i]].used
    BY <2>1, <2>5, <2>6
  <2>8. Inside(Transfer!Exit)' => dOwner'.at = "done"
    BY <2>1, <2>2 DEF DtInv, RoomInv
  <2>9. dPc' \in {"write", "release"} =>
              dItem' \in Transfer!Buffer /\ dPool'[dItem'].used
              /\ ~Inside(dItem)'
    BY <2>1, <2>2, <2>5, <2>6 DEF Inside
  <2>10. dOwner'.at = "queue" =>
          /\ dPool'[dOwner'.buffer].used /\ ~Inside(dOwner.buffer)'
          /\ dPc' \in {"write", "release"} => dItem' # dOwner'.buffer
    BY <2>1, <2>2, <2>5 DEF DtInv, RoomInv, Inside
  <2>11. dOwner'.at \in {"create", "find", "queue"} =>
         dOwner'.call <= Len(DtLengths)
    BY <2>1 DEF DtInv, RoomInv
  <2>12. RoomInv'
    BY <2>2, <2>7, <2>8, <2>9, <2>10, <2>11 DEF RoomInv
  <2> QED BY <2>4, <2>12 DEF DtInv
<1>8. CASE Transfer!Write
  <2>1. /\ dPc = "write" /\ dPlayed' = dPlayed \o dPool[dItem].units
        /\ dPc' = "release"
        /\ UNCHANGED <<dAdt, dPool, dWork, dItem, dHandle, dOwner>>
    BY <1>8 DEF Transfer!Write, Transfer!At
  <2>2. dPool[dItem].units \in Seq(Transfer!Unit)
    <3>1. dItem \in Transfer!Buffer
      BY <2>1 DEF DtInv, RoomInv
    <3> QED BY <1>0, <3>1 DEF Block
  <2>3. dPlayed' \in Seq(Transfer!Unit)
    BY <1>0, <2>1, <2>2
  <2>4. Transfer!DtTypeOK'
    BY <1>0, <1>a, <2>1, <2>3
  <2>5. RoomInv'
    BY <2>1 DEF DtInv, RoomInv, Inside
  <2> QED BY <2>4, <2>5 DEF DtInv
<1>9. CASE Transfer!Release
  <2>1. /\ dPc = "release" /\ dPool' = [dPool EXCEPT ![dItem].used = FALSE]
        /\ dPc' = "receive"
        /\ UNCHANGED <<dAdt, dWork, dItem, dHandle, dPlayed, dOwner>>
    BY <1>9 DEF Transfer!Release, Transfer!At
  <2>2. dItem \in Transfer!Buffer /\ ~Inside(dItem)
        /\ (dOwner.at = "queue" => dItem # dOwner.buffer)
    BY <2>1 DEF DtInv, RoomInv
  <2>3. /\ dPool' \in [Transfer!Buffer -> Block]
        /\ \A c \in Transfer!Buffer : c # dItem => dPool'[c] = dPool[c]
    <3>1. dPool[dItem] \in Block
      BY <1>0, <2>2
    <3>2. [dPool[dItem] EXCEPT !.used = FALSE] \in Block
      BY <3>1 DEF Block
    <3>3. dPool' = [dPool EXCEPT ![dItem] = [dPool[dItem] EXCEPT !.used = FALSE]]
      BY <2>1
    <3> QED BY <1>0, <2>2, <3>2, <3>3
  <2>4. Transfer!DtTypeOK'
    BY <1>0, <1>a, <2>1, <2>3
  <2>5. RoomInv'
    <3>1. \A i \in 1..Len(dWork') : dWork'[i] \in Transfer!Buffer =>
          dPool'[dWork'[i]].used
      BY <2>1, <2>2, <2>3 DEF DtInv, RoomInv, Inside
    <3>2. dOwner'.at = "queue" => dPool'[dOwner'.buffer].used
          /\ ~Inside(dOwner.buffer)'
      BY <2>1, <2>2, <2>3, OwnerParts DEF DtInv, RoomInv, Inside
    <3> QED BY <2>1, <3>1, <3>2 DEF DtInv, RoomInv, Inside
  <2> QED BY <2>4, <2>5 DEF DtInv
<1>10. CASE Transfer!Finish
  <2>1. /\ dAdt' = "freed" /\ dHandle' = "closed" /\ dPc' = "deleted"
        /\ UNCHANGED <<dPool, dWork, dItem, dPlayed, dOwner>>
    BY <1>10 DEF Transfer!Finish
  <2>2. Transfer!DtTypeOK'
    BY <1>0, <1>a, <2>1
  <2>3. RoomInv'
    BY <2>1 DEF DtInv, RoomInv, Inside
  <2> QED BY <2>2, <2>3 DEF DtInv
<1>11. CASE UNCHANGED dvars
  BY <1>11 DEF dvars, DtInv, Transfer!DtTypeOK, RoomInv, Inside
<1> QED BY <1>1, <1>2, <1>3, <1>4, <1>5, <1>6, <1>7, <1>8, <1>9, <1>10, <1>11
        DEF Transfer!Next, Transfer!Owner, Transfer!Task

(* A queue that holds only buffers, each once, and not the one about to be *)
(* queued, has room: there are QueueSize buffers.                          *)
LEMMA RoomFound ==
    ASSUME Transfer!TransferParameters, DtInv PROVE Transfer!SendFindsRoom
<1> SUFFICES ASSUME dOwner.at = "queue", Len(dWork) >= DtQueueSize PROVE FALSE
  BY DtFields DEF Transfer!SendFindsRoom
<1> DEFINE Rest == Transfer!Buffer \ {dOwner.buffer}
<1>1. /\ dOwner.buffer \in Transfer!Buffer /\ ~Inside(dOwner.buffer)
      /\ ~Inside(Transfer!Exit)
      /\ \A i, j \in 1..Len(dWork) : dWork[i] = dWork[j] => i = j
  BY OwnerParts DEF DtInv, RoomInv
<1>2. /\ DtQueueSize \in Nat \ {0} /\ Len(dWork) \in Nat
      /\ \A i \in 1..Len(dWork) : dWork[i] \in Rest
  BY <1>1, DtFields DEF Inside
<1>3. IsFiniteSet(Transfer!Buffer)
      /\ Cardinality(Transfer!Buffer) = DtQueueSize
  BY <1>2, FS_Interval DEF Transfer!Buffer
<1>4. IsFiniteSet(Rest) /\ Cardinality(Rest) = DtQueueSize - 1
  BY <1>1, <1>3, FS_RemoveElement
<1>5. IsFiniteSet(1..Len(dWork)) /\ Cardinality(1..Len(dWork)) = Len(dWork)
  BY <1>2, FS_Interval
<1>6. [i \in 1..Len(dWork) |-> dWork[i]] \in [1..Len(dWork) -> Rest]
  BY <1>2
<1>7. Cardinality(1..Len(dWork)) > Cardinality(Rest)
  BY <1>2, <1>4, <1>5
<1> HIDE DEF Rest
<1>8. \E i, j \in 1..Len(dWork) : i # j /\ dWork[i] = dWork[j]
  <2> DEFINE f == [i \in 1..Len(dWork) |-> dWork[i]]
  <2>1. f \in [1..Len(dWork) -> Rest]
    BY <1>6
  <2> HIDE DEF f
  <2>2. \E i, j \in 1..Len(dWork) : i # j /\ f[i] = f[j]
    BY <1>4, <1>5, <1>7, <2>1, FS_PigeonHole
  <2> QED BY <2>2 DEF f
<1> QED BY <1>1, <1>8

(* What the task plays, in what order.  A block is known by the position   *)
(* where it starts: its call, and its offset in the call.                  *)
Size(c) == Transfer!SendLen(DtLengths[c])

BlockAt(q) == [i \in 1..Size(q[1]) |-> <<q[1], q[2] + i>>]

Starts(q) ==
    /\ q \in (1..Len(DtLengths)) \X Nat
    /\ q[2] # 0 => /\ DtBlockLength < DtLengths[q[1]]
                   /\ q[2] < DtLengths[q[1]] /\ q[2] % DtBlockLength = 0

(* Where the block behind that at q starts. *)
Ahead(q) ==
    IF q[2] + Size(q[1]) < DtLengths[q[1]] THEN <<q[1], q[2] + Size(q[1])>>
    ELSE <<q[1] + 1, 0>>

Within(u, q) == u[1] < q[1] \/ (u[1] = q[1] /\ u[2] <= q[2])

(* Of calls of whole blocks, p has everything up to position q, in order.  *)
UpTo(p, q) ==
    /\ \A i, j \in 1..Len(p) :
          i < j /\ Transfer!Whole(p[i][1]) /\ Transfer!Whole(p[j][1])
          => Transfer!Before(p[i], p[j])
    /\ \A i \in 1..Len(p) : Transfer!Whole(p[i][1]) =>
          p[i] \in Transfer!Given /\ Within(p[i], q)
    /\ \A u \in Transfer!Given : Within(u, q) => \E i \in 1..Len(p) : p[i] = u

(* Where what is in place i of the queue starts, and behind the last one   *)
(* what the owner queues next.                                             *)
OwnerAt == <<dOwner.call, dOwner.offset>>
Place(at, i) ==
    IF i <= Len(dWork) /\ dWork[i] # Transfer!Exit THEN at[dWork[i]]
    ELSE OwnerAt

(* Buffer b holds the block at at[b], and what follows it starts at q. *)
Holds(at, b, q) ==
    /\ Starts(at[b]) /\ dPool[b].units = BlockAt(at[b]) /\ q = Ahead(at[b])

(* The blocks in the queue follow each other, and what has been played.    *)
Follow(at) ==
    /\ \A i \in 1..Len(dWork) :
          IF dWork[i] = Transfer!Exit THEN i = Len(dWork)
          ELSE Holds(at, dWork[i], Place(at, i + 1))
    /\ dPc = "write" => Holds(at, dItem, Place(at, 1))
    /\ UpTo(dPlayed, IF dPc = "write" THEN at[dItem] ELSE Place(at, 1))

OwnerInv ==
    /\ dOwner.at \in {"create", "find", "queue"} => Starts(OwnerAt)
    /\ dOwner.at = "queue" => dPool[dOwner.buffer].units = BlockAt(OwnerAt)
    /\ dOwner.at = "create" => dPc = "none"
    /\ dOwner.at = "destroy" \/ (dOwner.at = "done" /\ dPc # "none")
          => OwnerAt = <<Len(DtLengths) + 1, 0>>
    /\ dPc \in {"exit", "deleted"} => dOwner.at = "done" /\ dWork = <<>>

FlowInv ==
    OwnerInv /\ \E at \in [Transfer!Buffer -> Nat \X Nat] : Follow(at)

(* Numbers. *)
LEMMA StepWithin ==
    ASSUME NEW B \in Nat \ {0}, NEW a \in Nat, NEW b \in Nat,
           a % B = 0, b % B = 0, a < b
    PROVE  a + B <= b
<1> DEFINE i == a \div B
           j == b \div B
<1>1. i \in Nat /\ j \in Nat /\ a = B * i /\ b = B * j
  OBVIOUS
<1> HIDE DEF i, j
<1>2. i < j
  BY <1>1
<1>3. B * j >= B * (i + 1)
  BY <1>1, <1>2
<1>4. B * (i + 1) = a + B
  BY <1>1
<1> QED BY <1>1, <1>3, <1>4

LEMMA NextMultiple ==
    ASSUME NEW B \in Nat \ {0}, NEW a \in Nat, a % B = 0
    PROVE  (a + B) % B = 0
<1> DEFINE i == a \div B
<1>1. i \in Nat /\ a = B * i
  OBVIOUS
<1> HIDE DEF i
<1>2. B * (i + 1) = a + B
  BY <1>1
<1>3. (B * (i + 1)) % B = 0
  BY <1>1
<1> QED BY <1>2, <1>3

LEMMA GivenUnits ==
    ASSUME Transfer!TransferParameters
    PROVE  \A u : u \in Transfer!Given <=>
              /\ u \in (1..Len(DtLengths)) \X Nat
              /\ Transfer!Whole(u[1]) /\ 1 <= u[2] /\ u[2] <= DtLengths[u[1]]
<1>1. /\ DOMAIN DtLengths = 1..Len(DtLengths)
      /\ \A c \in 1..Len(DtLengths) : DtLengths[c] \in Nat
  BY DEF Transfer!TransferParameters
<1> QED BY <1>1 DEF Transfer!Given

(* The size of a block, and where the next one starts. *)
LEMMA BlockSizes ==
    ASSUME Transfer!TransferParameters, NEW q, Starts(q)
    PROVE  /\ q = <<q[1], q[2]>> /\ q[1] \in 1..Len(DtLengths) /\ q[2] \in Nat
           /\ Len(DtLengths) \in Nat /\ DtLengths[q[1]] \in Nat
           /\ Size(q[1]) \in Nat
           /\ BlockAt(q) \in Seq(Transfer!Unit) /\ Len(BlockAt(q)) = Size(q[1])
           /\ \A i \in 1..Size(q[1]) : BlockAt(q)[i] = <<q[1], q[2] + i>>
           /\ Transfer!Whole(q[1]) => q[2] + Size(q[1]) <= DtLengths[q[1]]
<1>1. /\ q = <<q[1], q[2]>> /\ q[1] \in 1..Len(DtLengths) /\ q[2] \in Nat
      /\ Len(DtLengths) \in Nat /\ DtLengths[q[1]] \in Nat
      /\ DtBlockLength \in Nat \ {0}
  BY DEF Starts, Transfer!TransferParameters
<1>2. Size(q[1]) = IF DtBlockLength >= DtLengths[q[1]] THEN DtLengths[q[1]]
                   ELSE DtBlockLength
  BY DEF Size, Transfer!SendLen
<1>3. Size(q[1]) \in Nat
  BY <1>1, <1>2
<1>4. /\ BlockAt(q) \in Seq(Transfer!Unit) /\ Len(BlockAt(q)) = Size(q[1])
      /\ \A i \in 1..Size(q[1]) : BlockAt(q)[i] = <<q[1], q[2] + i>>
  <2> DEFINE n == Size(q[1])
  <2>1. \A i \in 1..n : <<q[1], q[2] + i>> \in Transfer!Unit
    BY <1>1, <1>3 DEF Transfer!Unit
  <2> HIDE DEF n
  <2>2. n \in Nat
    BY <1>3 DEF n
  <2>3. BlockAt(q) = [i \in 1..n |-> <<q[1], q[2] + i>>]
    BY DEF BlockAt, n
  <2>4. /\ [i \in 1..n |-> <<q[1], q[2] + i>>] \in Seq(Transfer!Unit)
        /\ Len([i \in 1..n |-> <<q[1], q[2] + i>>]) = n
    BY <2>1, <2>2
  <2> QED BY <2>3, <2>4 DEF n
<1>5. ASSUME Transfer!Whole(q[1])
      PROVE  q[2] + Size(q[1]) <= DtLengths[q[1]]
  <2>1. CASE DtLengths[q[1]] <= DtBlockLength
    <3>1. q[2] = 0
      BY <1>1, <2>1 DEF Starts
    <3> QED BY <1>1, <1>2, <2>1, <3>1
  <2>2. CASE ~(DtLengths[q[1]] <= DtBlockLength)
    <3>1. Size(q[1]) = DtBlockLength /\ DtBlockLength < DtLengths[q[1]]
      BY <1>1, <1>2, <2>2
    <3>2. CASE q[2] = 0
      BY <1>1, <3>1, <3>2
    <3>3. CASE q[2] # 0
      <4>1. /\ q[2] % DtBlockLength = 0 /\ DtLengths[q[1]] % DtBlockLength = 0
            /\ q[2] < DtLengths[q[1]]
        BY <1>5, <2>2, <3>3 DEF Starts, Transfer!Whole
      <4> QED BY <1>1, <3>1, <4>1, StepWithin
    <3> QED BY <3>2, <3>3
  <2> QED BY <2>1, <2>2
<1> QED BY <1>1, <1>3, <1>4, <1>5

LEMMA AheadStarts ==
    ASSUME Transfer!TransferParameters, NEW q, Starts(q)
    PROVE  /\ Ahead(q)[1] <= Len(DtLengths) => Starts(Ahead(q))
           /\ Ahead(q)[1] > Len(DtLengths)
                 => Ahead(q) = <<Len(DtLengths) + 1, 0>>
           /\ Ahead(q) \in Nat \X Nat
<1>1. /\ q[1] \in 1..Len(DtLengths) /\ q[2] \in Nat
      /\ Len(DtLengths) \in Nat /\ DtLengths[q[1]] \in Nat
      /\ Size(q[1]) \in Nat /\ DtBlockLength \in Nat \ {0}
  BY BlockSizes DEF Transfer!TransferParameters
<1>2. CASE q[2] + Size(q[1]) < DtLengths[q[1]]
  <2>1. Ahead(q) = <<q[1], q[2] + Size(q[1])>>
    BY <1>2 DEF Ahead
  <2>2. Size(q[1]) = DtBlockLength /\ DtBlockLength < DtLengths[q[1]]
    BY <1>1, <1>2 DEF Size, Transfer!SendLen
  <2>3. q[2] % DtBlockLength = 0
    BY <1>1 DEF Starts
  <2>4. (q[2] + DtBlockLength) % DtBlockLength = 0
    BY <1>1, <2>3, NextMultiple
  <2> QED BY <1>1, <1>2, <2>1, <2>2, <2>4 DEF Starts
<1>3. CASE ~(q[2] + Size(q[1]) < DtLengths[q[1]])
  <2>1. Ahead(q) = <<q[1] + 1, 0>>
    BY <1>3 DEF Ahead
  <2> QED BY <1>1, <2>1 DEF Starts
<1> QED BY <1>2, <1>3

(* A block that is written behind what comes before it. *)
LEMMA WriteFlows ==
    ASSUME Transfer!TransferParameters, NEW q, Starts(q),
           NEW p \in Seq(Transfer!Unit), UpTo(p, q)
    PROVE  UpTo(p \o BlockAt(q), Ahead(q))
<1> DEFINE n == Len(p)
           s == Size(q[1])
           c == q[1]
           o == q[2]
           r == p \o BlockAt(q)
           t == Ahead(q)
<1>1. /\ c \in 1..Len(DtLengths) /\ o \in Nat /\ Len(DtLengths) \in Nat
      /\ DtLengths[c] \in Nat /\ s \in Nat /\ n \in Nat
      /\ Transfer!Whole(c) => o + s <= DtLengths[c]
  BY BlockSizes
<1>2. /\ Len(r) = n + s
      /\ \A i \in 1..n : r[i] = p[i]
      /\ \A i \in 1..Len(r) : i > n => r[i] = <<c, o + (i - n)>>
  <2>1. /\ BlockAt(q) \in Seq(Transfer!Unit) /\ Len(BlockAt(q)) = s
        /\ \A i \in 1..s : BlockAt(q)[i] = <<c, o + i>>
    BY BlockSizes
  <2> HIDE DEF s, c, o
  <2>2. /\ Len(r) = n + s
        /\ \A i \in 1..Len(r) :
              r[i] = IF i <= n THEN p[i] ELSE BlockAt(q)[i - n]
    <3>1. BlockAt(q) \in Seq(Transfer!Unit) /\ p \in Seq(Transfer!Unit)
      BY <2>1
    <3>2. /\ Len(p \o BlockAt(q)) = Len(p) + Len(BlockAt(q))
          /\ \A i \in 1..Len(p) + Len(BlockAt(q)) :
                (p \o BlockAt(q))[i] =
                   IF i <= Len(p) THEN p[i] ELSE BlockAt(q)[i - Len(p)]
      <4> HIDE DEF n, r
      <4> QED BY <3>1
    <3> QED BY <2>1, <3>2
  <2>3. \A i \in 1..Len(r) : i > n => i - n \in 1..s
    BY <1>1, <2>2
  <2> QED BY <1>1, <2>1, <2>2, <2>3
<1>3. \A i \in 1..n : p[i] \in Transfer!Unit
  OBVIOUS
<1>4. \A i \in 1..n : p[i][1] \in Nat /\ p[i][2] \in Nat
                      /\ p[i] = <<p[i][1], p[i][2]>>
  <2> TAKE i \in 1..n
  <2>1. \A x \in (1..Len(DtLengths)) \X Nat :
           x[1] \in Nat /\ x[2] \in Nat /\ x = <<x[1], x[2]>>
    OBVIOUS
  <2>2. p[i] \in Transfer!Unit
    BY <1>3
  <2>3. Transfer!Unit = (1..Len(DtLengths)) \X Nat
    BY DEF Transfer!Unit
  <2> HIDE DEF n
  <2> QED BY <2>1, <2>2, <2>3
<1>5. t = IF o + s < DtLengths[c] THEN <<c, o + s>> ELSE <<c + 1, 0>>
  BY DEF Ahead
<1> HIDE DEF n, s, c, o, r, t
<1>6. \A i \in 1..n : Transfer!Whole(p[i][1]) =>
         /\ p[i] \in Transfer!Given
         /\ p[i][1] < c \/ (p[i][1] = c /\ p[i][2] <= o)
  BY DEF UpTo, Within, n, c, o
<1>7. ASSUME NEW i \in 1..Len(r), NEW j \in 1..Len(r), i < j,
             Transfer!Whole(r[i][1]), Transfer!Whole(r[j][1])
      PROVE  Transfer!Before(r[i], r[j])
  <2>1. CASE j <= n
    <3>1. i \in 1..n /\ j \in 1..n /\ r[i] = p[i] /\ r[j] = p[j]
      BY <1>1, <1>2, <1>7, <2>1
    <3> QED BY <1>7, <3>1 DEF UpTo, n
  <2>2. CASE i <= n /\ j > n
    <3>1. i \in 1..n /\ r[i] = p[i] /\ r[j] = <<c, o + (j - n)>>
      BY <1>1, <1>2, <2>2
    <3>2. p[i][1] < c \/ (p[i][1] = c /\ p[i][2] <= o)
      BY <1>6, <1>7, <3>1
    <3> QED BY <1>1, <1>2, <1>4, <2>2, <3>1, <3>2 DEF Transfer!Before
  <2>3. CASE i > n
    <3>1. r[i] = <<c, o + (i - n)>> /\ r[j] = <<c, o + (j - n)>>
      BY <1>1, <1>2, <1>7, <2>3
    <3> QED BY <1>1, <1>2, <1>7, <2>3, <3>1 DEF Transfer!Before
  <2> QED BY <1>1, <1>2, <1>7, <2>1, <2>2, <2>3
<1>8. ASSUME NEW i \in 1..Len(r), Transfer!Whole(r[i][1])
      PROVE  r[i] \in Transfer!Given /\ Within(r[i], t)
  <2>1. CASE i <= n
    <3>1. i \in 1..n /\ r[i] = p[i]
      BY <1>1, <1>2, <2>1
    <3>2. p[i] \in Transfer!Given
          /\ (p[i][1] < c \/ (p[i][1] = c /\ p[i][2] <= o))
      BY <1>6, <1>8, <3>1
    <3> QED BY <1>1, <1>4, <1>5, <3>1, <3>2 DEF Within
  <2>2. CASE i > n
    <3>1. r[i] = <<c, o + (i - n)>> /\ i - n \in 1..s
      BY <1>1, <1>2, <2>2
    <3>2. Transfer!Whole(c)
      BY <1>8, <3>1
    <3>3. o + (i - n) \in 1..DtLengths[c] /\ o + (i - n) <= o + s
      <4> DEFINE k == i - n
                 l == DtLengths[c]
      <4>1. /\ k \in 1..s /\ o \in Nat /\ s \in Nat /\ l \in Nat
            /\ o + s <= l
        BY <1>1, <3>1, <3>2
      <4> HIDE DEF k, l
      <4>2. o + k \in 1..l /\ o + k <= o + s
        BY <4>1
      <4> QED BY <4>2 DEF k, l
    <3>4. r[i] \in Transfer!Given
      BY <1>1, <3>1, <3>2, <3>3, GivenUnits
    <3> QED BY <1>1, <1>5, <3>1, <3>3, <3>4 DEF Within
  <2> QED BY <1>1, <1>2, <2>1, <2>2
<1>9. ASSUME NEW u \in Transfer!Given, Within(u, t)
      PROVE  \E i \in 1..Len(r) : r[i] = u
  <2>1. /\ u = <<u[1], u[2]>> /\ u[1] \in 1..Len(DtLengths) /\ u[2] \in Nat
        /\ Transfer!Whole(u[1]) /\ 1 <= u[2] /\ u[2] <= DtLengths[u[1]]
    BY GivenUnits
  <2>2. CASE Within(u, <<c, o>>)
    <3>1. <<c, o>> = q
      BY BlockSizes DEF c, o
    <3>2. PICK i \in 1..n : p[i] = u
      BY <2>2, <3>1 DEF UpTo, n
    <3>3. i \in 1..Len(r) /\ r[i] = u
      BY <1>1, <1>2, <3>2
    <3> QED BY <3>3
  <2>3. CASE ~Within(u, <<c, o>>)
    <3>1. u[1] = c /\ u[2] > o
      BY <1>1, <1>5, <1>9, <2>1, <2>3 DEF Within
    <3>2. u[2] <= o + s
      BY <1>1, <1>5, <1>9, <2>1, <3>1 DEF Within
    <3>3. /\ n + (u[2] - o) \in 1..Len(r) /\ n + (u[2] - o) > n
          /\ o + ((n + (u[2] - o)) - n) = u[2]
      <4> DEFINE k == u[2]
                 l == Len(r)
      <4>1. /\ k \in Nat /\ k > o /\ k <= o + s /\ l = n + s
            /\ o \in Nat /\ s \in Nat /\ n \in Nat
        BY <1>1, <1>2, <2>1, <3>1, <3>2
      <4> HIDE DEF k, l
      <4>2. /\ n + (k - o) \in 1..l /\ n + (k - o) > n
            /\ o + ((n + (k - o)) - n) = k
        BY <4>1
      <4> QED BY <4>2 DEF k, l
    <3>4. r[n + (u[2] - o)] = u
      BY <1>2, <2>1, <3>1, <3>3
    <3> QED BY <3>3, <3>4
  <2> QED BY <2>2, <2>3
<1>10. UpTo(r, t)
  BY <1>7, <1>8, <1>9 DEF UpTo
<1> QED BY <1>10 DEF r, t


LEMMA OwnerPlace ==
    ASSUME Transfer!TransferParameters, DtInv PROVE OwnerAt \in Nat \X Nat
<1>1. dOwner.call \in Nat /\ dOwner.offset \in Nat
  BY OwnerParts, DtFields
<1> QED BY <1>1 DEF OwnerAt

(* What the owner queues next starts where what it has queued ends.        *)
LEMMA OwnerAhead ==
    ASSUME Transfer!TransferParameters, DtInv, dOwner.at = "queue",
           dOwner' = Transfer!AfterBlock
    PROVE  /\ OwnerAt' = Ahead(OwnerAt)
           /\ dOwner'.at = "find" => Ahead(OwnerAt)[1] <= Len(DtLengths)
           /\ dOwner'.at = "destroy" => Ahead(OwnerAt)[1] > Len(DtLengths)
<1> DEFINE len == DtLengths[dOwner.call]
           offset == dOwner.offset + Size(dOwner.call)
<1>1. /\ dOwner = [at |-> dOwner.at, call |-> dOwner.call,
                  buffer |-> dOwner.buffer, offset |-> dOwner.offset]
      /\ dOwner.call \in 1..Len(DtLengths) /\ Len(DtLengths) \in Nat
  BY OwnerParts, DtFields DEF DtInv, RoomInv
<1>2. Ahead(OwnerAt) = IF offset < len THEN <<dOwner.call, offset>>
                       ELSE <<dOwner.call + 1, 0>>
  BY DEF Ahead, OwnerAt
<1>3. dOwner' = IF offset < len
                THEN [dOwner EXCEPT !.at = "find", !.offset = offset]
                ELSE [dOwner EXCEPT !.at = IF dOwner.call = Len(DtLengths)
                                          THEN "destroy" ELSE "find",
                                   !.call = dOwner.call + 1, !.offset = 0]
  BY <1>1 DEF Transfer!AfterBlock, Size
<1> HIDE DEF len, offset
<1>4. CASE offset < len
  <2>1. /\ dOwner'.at = "find" /\ dOwner'.call = dOwner.call
        /\ dOwner'.offset = offset
    BY <1>1, <1>3, <1>4
  <2>2. OwnerAt' = <<dOwner.call, offset>>
    BY <2>1 DEF OwnerAt
  <2>3. Ahead(OwnerAt) = <<dOwner.call, offset>>
    BY <1>2, <1>4
  <2> QED BY <1>1, <2>1, <2>2, <2>3
<1>5. CASE ~(offset < len)
  <2>1. /\ dOwner'.at = IF dOwner.call = Len(DtLengths) THEN "destroy"
                        ELSE "find"
        /\ dOwner'.call = dOwner.call + 1 /\ dOwner'.offset = 0
    BY <1>1, <1>3, <1>5
  <2>2. OwnerAt' = <<dOwner.call + 1, 0>>
    BY <2>1 DEF OwnerAt
  <2>3. Ahead(OwnerAt) = <<dOwner.call + 1, 0>>
    BY <1>2, <1>5
  <2> QED BY <1>1, <2>1, <2>2, <2>3
<1> QED BY <1>4, <1>5

(* A step that leaves the queue, and what is in its buffers, as it is.     *)
LEMMA FollowKept ==
    ASSUME NEW at, Follow(at), dWork' = dWork, OwnerAt' = OwnerAt,
           dPlayed' = dPlayed, (dPc' = "write") <=> (dPc = "write"),
           \A i \in 1..Len(dWork) : dWork[i] # Transfer!Exit =>
              dPool'[dWork[i]].units = dPool[dWork[i]].units,
           dPc = "write" => /\ dItem' = dItem
                            /\ dPool'[dItem].units = dPool[dItem].units
    PROVE  Follow(at)'
<1>1. \A i : Place(at, i)' = Place(at, i)
  BY DEF Place
<1>2. ASSUME NEW i \in 1..Len(dWork')
      PROVE  IF dWork'[i] = Transfer!Exit THEN i = Len(dWork')
             ELSE Holds(at, dWork[i], Place(at, i + 1))'
  <2>1. i \in 1..Len(dWork) /\ dWork'[i] = dWork[i]
    BY <1>2
  <2>2. CASE dWork[i] = Transfer!Exit
    BY <2>1, <2>2 DEF Follow
  <2>3. CASE dWork[i] # Transfer!Exit
    <3>1. Holds(at, dWork[i], Place(at, i + 1))
      BY <2>1, <2>3 DEF Follow
    <3>2. dPool'[dWork'[i]].units = dPool[dWork[i]].units
      BY <2>1, <2>3
    <3> QED BY <1>1, <2>1, <2>3, <3>1, <3>2 DEF Holds
  <2> QED BY <2>2, <2>3
<1>3. (dPc = "write" => Holds(at, dItem, Place(at, 1)))'
  BY <1>1 DEF Follow, Holds
<1>4. UpTo(dPlayed, IF dPc = "write" THEN at[dItem] ELSE Place(at, 1))'
  <2>1. (IF dPc = "write" THEN at[dItem] ELSE Place(at, 1))'
        = IF dPc = "write" THEN at[dItem] ELSE Place(at, 1)
    BY <1>1
  <2>2. UpTo(dPlayed, IF dPc = "write" THEN at[dItem] ELSE Place(at, 1))
    BY DEF Follow
  <2> QED BY <2>1, <2>2 DEF UpTo
<1> QED BY <1>2, <1>3, <1>4 DEF Follow

(* A block at the end of the queue.                                        *)
LEMMA QueueFlows ==
    ASSUME Transfer!TransferParameters, DtInv, OwnerInv,
           NEW at \in [Transfer!Buffer -> Nat \X Nat], Follow(at),
           NEW b, b = dOwner.buffer, NEW to, to = [at EXCEPT ![b] = OwnerAt],
           Transfer!QueueBlock
    PROVE  to \in [Transfer!Buffer -> Nat \X Nat] /\ Follow(to)' /\ OwnerInv'
<1>0. PICK n : n = Len(dWork)
  OBVIOUS
<1>1. /\ dOwner.at = "queue" /\ n < DtQueueSize /\ dWork' = Append(dWork, b)
      /\ dOwner' = Transfer!AfterBlock
      /\ UNCHANGED <<dAdt, dPool, dPc, dItem, dHandle, dPlayed>>
  BY <1>0 DEF Transfer!QueueBlock
<1>2. /\ b \in Transfer!Buffer /\ ~Inside(b) /\ ~Inside(Transfer!Exit)
      /\ dPc = "write" => dItem # b /\ dItem \in Transfer!Buffer
  BY <1>0, <1>1, OwnerParts DEF DtInv, RoomInv
<1>3. /\ n \in Nat /\ Len(dWork') = n + 1
      /\ \A i \in 1..n : dWork'[i] = dWork[i]
      /\ dWork'[n + 1] = b
      /\ \A i \in 1..n : dWork[i] \in Transfer!Buffer
                         /\ dWork[i] # b /\ dWork[i] # Transfer!Exit
  <2>1. /\ n \in Nat /\ Len(dWork') = n + 1
        /\ \A i \in 1..Len(dWork') :
              dWork'[i] = IF i <= n THEN dWork[i] ELSE b
    BY <1>0, <1>1, <1>2, OneQueued, DtFields
  <2>2. \A i \in 1..n : dWork[i] \in Transfer!Buffer \cup {Transfer!Exit}
    BY <1>0, DtFields
  <2>3. \A i \in 1..n : dWork[i] # b /\ dWork[i] # Transfer!Exit
    BY <1>0, <1>2 DEF Inside
  <2>4. n + 1 \in 1..n + 1 /\ \A i \in 1..n : i \in 1..n + 1 /\ i <= n
    BY <2>1
  <2>5. dWork'[n + 1] = b
    BY <2>1, <2>4
  <2> QED BY <2>1, <2>2, <2>3, <2>4, <2>5
<1>4. b # Transfer!Exit
  BY <1>2, DtFields
<1>5. /\ OwnerAt \in Nat \X Nat /\ OwnerAt' = Ahead(OwnerAt)
      /\ Starts(OwnerAt) /\ dPool[b].units = BlockAt(OwnerAt)
  BY <1>1, OwnerPlace, OwnerAhead DEF OwnerInv
<1>6. to[b] = OwnerAt /\ \A c \in Transfer!Buffer : c # b => to[c] = at[c]
  BY <1>2, <1>5
<1>7. ASSUME NEW i \in 1..n + 1 PROVE Place(to, i)' = Place(at, i)
  <2>1. CASE i \in 1..n
    <3>1. Place(at, i) = at[dWork[i]]
      BY <1>0, <1>3, <2>1 DEF Place
    <3>2. Place(to, i)' = to[dWork'[i]]
      <4>1. i <= Len(dWork') /\ dWork'[i] # Transfer!Exit
        BY <1>3, <2>1
      <4> QED BY <4>1 DEF Place
    <3> QED BY <1>3, <1>6, <2>1, <3>1, <3>2
  <2>2. CASE i = n + 1
    <3>1. Place(at, i) = OwnerAt
      BY <1>0, <1>3, <2>2 DEF Place
    <3>2. Place(to, i)' = to[dWork'[i]]
      <4>1. i <= Len(dWork') /\ dWork'[i] # Transfer!Exit
        BY <1>3, <1>4, <2>2
      <4> QED BY <4>1 DEF Place
    <3> QED BY <1>3, <1>6, <2>2, <3>1, <3>2
  <2> QED BY <1>3, <2>1, <2>2
<1>8. Place(to, n + 2)' = OwnerAt'
  <2>1. ~(n + 2 <= Len(dWork'))
    BY <1>3
  <2> QED BY <2>1 DEF Place
<1>9. ASSUME NEW i \in 1..n + 1
      PROVE  dWork'[i] # Transfer!Exit
             /\ Holds(to, dWork[i], Place(to, i + 1))'
  <2>1. CASE i \in 1..n
    <3>1. /\ dWork'[i] = dWork[i] /\ to[dWork[i]] = at[dWork[i]]
          /\ dWork'[i] # Transfer!Exit /\ i \in 1..Len(dWork)
      BY <1>0, <1>3, <1>6, <2>1
    <3>2. Holds(at, dWork[i], Place(at, i + 1))
      BY <3>1 DEF Follow
    <3>3. Place(to, i + 1)' = Place(at, i + 1)
      BY <1>3, <1>7, <2>1 DEF Place
    <3> QED BY <1>1, <3>1, <3>2, <3>3 DEF Holds
  <2>2. CASE i = n + 1
    <3>1. /\ dWork'[i] = b /\ to[dWork'[i]] = OwnerAt /\ i + 1 = n + 2
      BY <1>3, <1>6, <2>2
    <3>2. Place(to, i + 1)' = Ahead(OwnerAt)
      BY <1>5, <1>8, <3>1
    <3>3. Starts(to[dWork'[i]]) /\ Ahead(to[dWork'[i]]) = Ahead(OwnerAt)
          /\ dPool'[dWork'[i]].units = BlockAt(to[dWork'[i]])
      BY <1>1, <1>5, <3>1
    <3>4. Holds(to, dWork[i], Place(to, i + 1))'
      BY <3>2, <3>3 DEF Holds
    <3> QED BY <1>4, <3>1, <3>4
  <2> QED BY <1>3, <2>1, <2>2
<1>10. (dPc = "write" => Holds(to, dItem, Place(to, 1)))'
  <2> SUFFICES ASSUME dPc' = "write" PROVE Holds(to, dItem, Place(to, 1))'
    OBVIOUS
  <2>1. dItem' = dItem /\ dPc = "write" /\ to[dItem] = at[dItem]
    BY <1>1, <1>2, <1>6
  <2>2. Holds(at, dItem, Place(at, 1))
    BY <2>1 DEF Follow
  <2>3. Place(to, 1)' = Place(at, 1)
    BY <1>3, <1>7 DEF Place
  <2> QED BY <1>1, <2>1, <2>2, <2>3 DEF Holds
<1>11. UpTo(dPlayed, IF dPc = "write" THEN to[dItem] ELSE Place(to, 1))'
  <2>1. Place(to, 1)' = Place(at, 1)
    BY <1>3, <1>7 DEF Place
  <2>2. (IF dPc = "write" THEN to[dItem] ELSE Place(to, 1))'
        = IF dPc = "write" THEN at[dItem] ELSE Place(at, 1)
    BY <1>1, <1>2, <1>6, <2>1
  <2>3. UpTo(dPlayed, IF dPc = "write" THEN at[dItem] ELSE Place(at, 1))
    BY DEF Follow
  <2>4. dPlayed' = dPlayed
    BY <1>1
  <2> QED BY <2>2, <2>3, <2>4
<1>12. Follow(to)'
  <2>1. ASSUME NEW i \in 1..Len(dWork')
        PROVE  IF dWork'[i] = Transfer!Exit THEN i = Len(dWork')
               ELSE Holds(to, dWork[i], Place(to, i + 1))'
    <3>1. i \in 1..n + 1
      BY <1>3, <2>1
    <3> QED BY <1>9, <3>1 DEF Holds, Place
  <2> QED BY <1>10, <1>11, <2>1 DEF Follow
<1>13. OwnerInv'
  <2>1. /\ dOwner'.at \in {"find", "destroy"}
        /\ dOwner'.at = "find" => Ahead(OwnerAt)[1] <= Len(DtLengths)
        /\ dOwner'.at = "destroy" => Ahead(OwnerAt)[1] > Len(DtLengths)
    BY <1>1, NextBlock, OwnerAhead
  <2>2. dOwner'.at = "find" => Starts(OwnerAt')
    BY <1>5, <2>1, AheadStarts
  <2>3. dOwner'.at = "destroy" => OwnerAt' = <<Len(DtLengths) + 1, 0>>
    BY <1>5, <2>1, AheadStarts
  <2>4. dPc' \notin {"exit", "deleted"}
    BY <1>1 DEF OwnerInv
  <2> QED BY <2>1, <2>2, <2>3, <2>4 DEF OwnerInv
<1> QED BY <1>5, <1>12, <1>13

(* Exit at the end of the queue.                                           *)
LEMMA ExitFlows ==
    ASSUME Transfer!TransferParameters, DtInv, OwnerInv,
           NEW at, Follow(at), Transfer!QueueExit
    PROVE  Follow(at)' /\ OwnerInv'
<1>0. PICK n : n = Len(dWork)
  OBVIOUS
<1>1. /\ dOwner.at = "destroy" /\ n < DtQueueSize
      /\ dWork' = Append(dWork, Transfer!Exit)
      /\ dOwner' = [dOwner EXCEPT !.at = "done"]
      /\ UNCHANGED <<dAdt, dPool, dPc, dItem, dHandle, dPlayed>>
  BY <1>0 DEF Transfer!QueueExit
<1>2. ~Inside(Transfer!Exit)
  BY <1>1 DEF DtInv, RoomInv
<1>3. /\ n \in Nat /\ Len(dWork') = n + 1
      /\ \A i \in 1..n : dWork'[i] = dWork[i] /\ dWork[i] # Transfer!Exit
      /\ dWork'[n + 1] = Transfer!Exit
  <2>1. /\ n \in Nat /\ Len(dWork') = n + 1
        /\ \A i \in 1..Len(dWork') :
              dWork'[i] = IF i <= n THEN dWork[i] ELSE Transfer!Exit
    BY <1>0, <1>1, <1>2, OneQueued, DtFields
  <2>2. \A i \in 1..n : dWork[i] # Transfer!Exit
    BY <1>0, <1>2 DEF Inside
  <2>3. n + 1 \in 1..n + 1 /\ \A i \in 1..n : i \in 1..n + 1 /\ i <= n
    BY <2>1
  <2>4. dWork'[n + 1] = Transfer!Exit
    BY <2>1, <2>3
  <2> QED BY <2>1, <2>2, <2>3, <2>4
<1>4. dOwner'.at = "done" /\ OwnerAt' = OwnerAt
  BY <1>1, OwnerParts DEF OwnerAt
<1>5. ASSUME NEW i \in 1..n + 1 PROVE Place(at, i)' = Place(at, i)
  <2>1. CASE i \in 1..n
    BY <1>0, <1>3, <2>1 DEF Place
  <2>2. CASE i = n + 1
    <3>1. Place(at, i) = OwnerAt
      BY <1>0, <1>3, <2>2 DEF Place
    <3>2. Place(at, i)' = OwnerAt'
      <4>1. dWork'[i] = Transfer!Exit
        BY <1>3, <2>2
      <4> QED BY <4>1 DEF Place
    <3> QED BY <1>4, <3>1, <3>2
  <2> QED BY <1>3, <2>1, <2>2
<1>6. ASSUME NEW i \in 1..Len(dWork')
      PROVE  IF dWork'[i] = Transfer!Exit THEN i = Len(dWork')
             ELSE Holds(at, dWork[i], Place(at, i + 1))'
  <2>1. CASE i \in 1..n
    <3>1. dWork'[i] = dWork[i] /\ dWork[i] # Transfer!Exit
          /\ i \in 1..Len(dWork) /\ i + 1 \in 1..n + 1
      BY <1>0, <1>3, <2>1
    <3>2. Holds(at, dWork[i], Place(at, i + 1))
      BY <3>1 DEF Follow
    <3>3. Place(at, i + 1)' = Place(at, i + 1)
      BY <1>5, <3>1 DEF Place
    <3>4. Holds(at, dWork[i], Place(at, i + 1))'
      BY <1>1, <3>1, <3>2, <3>3 DEF Holds
    <3> QED BY <3>1, <3>4
  <2>2. CASE i = n + 1
    BY <1>3, <2>2
  <2> QED BY <1>3, <1>6, <2>1, <2>2
<1>7. Place(at, 1)' = Place(at, 1)
  BY <1>3, <1>5 DEF Place
<1>8. (dPc = "write" => Holds(at, dItem, Place(at, 1)))'
  BY <1>1, <1>7 DEF Follow, Holds
<1>9. UpTo(dPlayed, IF dPc = "write" THEN at[dItem] ELSE Place(at, 1))'
  <2>1. (IF dPc = "write" THEN at[dItem] ELSE Place(at, 1))'
        = IF dPc = "write" THEN at[dItem] ELSE Place(at, 1)
    BY <1>1, <1>7
  <2>2. UpTo(dPlayed, IF dPc = "write" THEN at[dItem] ELSE Place(at, 1))
        /\ dPlayed' = dPlayed
    BY <1>1 DEF Follow
  <2> QED BY <2>1, <2>2
<1>10. Follow(at)'
  BY <1>6, <1>8, <1>9 DEF Follow
<1>11. OwnerInv'
  <2>1. OwnerAt = <<Len(DtLengths) + 1, 0>> /\ dPc \notin {"exit", "deleted"}
    BY <1>1 DEF OwnerInv
  <2> QED BY <1>1, <1>4, <2>1 DEF OwnerInv
<1> QED BY <1>10, <1>11

(* What is taken from the front of the queue.                              *)
LEMMA ReceiveFlows ==
    ASSUME Transfer!TransferParameters, DtInv, OwnerInv,
           NEW at, Follow(at), Transfer!Receive
    PROVE  Follow(at)' /\ OwnerInv'
<1>0. PICK n : n = Len(dWork)
  OBVIOUS
<1>1. /\ dPc = "receive" /\ dWork # <<>>
      /\ dItem' = Head(dWork) /\ dWork' = Tail(dWork)
      /\ dPc' = IF Head(dWork) = Transfer!Exit THEN "exit" ELSE "write"
      /\ UNCHANGED <<dAdt, dPool, dHandle, dPlayed, dOwner>>
  BY DEF Transfer!Receive, Transfer!At
<1>2. /\ n \in Nat \ {0} /\ Head(dWork) = dWork[1] /\ Len(dWork') = n - 1
      /\ \A i \in 1..n - 1 : dWork'[i] = dWork[i + 1]
  <2>1. dWork \in Seq(Transfer!Buffer \cup {Transfer!Exit})
    BY DtFields
  <2> QED BY <1>0, <1>1, <2>1
<1>3. OwnerAt' = OwnerAt
  BY <1>1 DEF OwnerAt
<1>4. ASSUME NEW i \in 1..n PROVE Place(at, i)' = Place(at, i + 1)
  <2>1. CASE i <= n - 1
    <3>1. i \in 1..n - 1 /\ i + 1 <= n
      BY <1>2, <2>1
    <3>2. dWork'[i] = dWork[i + 1]
      BY <1>2, <3>1
    <3> QED BY <1>0, <1>2, <1>3, <2>1, <3>1, <3>2 DEF Place
  <2>2. CASE ~(i <= n - 1)
    <3>1. ~(i <= Len(dWork')) /\ ~(i + 1 <= Len(dWork))
      BY <1>0, <1>2, <2>2
    <3> QED BY <1>3, <3>1 DEF Place
  <2> QED BY <2>1, <2>2
<1>5. UpTo(dPlayed, Place(at, 1))
  BY <1>1 DEF Follow
<1>6. \A i \in 1..n : IF dWork[i] = Transfer!Exit THEN i = n
                      ELSE Holds(at, dWork[i], Place(at, i + 1))
  BY <1>0 DEF Follow
<1>7. ASSUME NEW i \in 1..Len(dWork')
      PROVE  IF dWork'[i] = Transfer!Exit THEN i = Len(dWork')
             ELSE Holds(at, dWork[i], Place(at, i + 1))'
  <2>1. /\ i \in 1..n - 1 /\ i + 1 \in 1..n /\ i \in Nat
        /\ dWork'[i] = dWork[i + 1]
    BY <1>2
  <2>2. CASE dWork'[i] = Transfer!Exit
    <3>1. i + 1 = n
      BY <1>6, <2>1, <2>2
    <3>2. i = Len(dWork')
      BY <1>2, <2>1, <3>1
    <3> QED BY <2>2, <3>2
  <2>3. CASE dWork'[i] # Transfer!Exit
    <3>1. Holds(at, dWork[i + 1], Place(at, (i + 1) + 1))
      BY <1>6, <2>1, <2>3
    <3>2. Place(at, i + 1)' = Place(at, (i + 1) + 1)
      BY <1>4, <2>1 DEF Place
    <3>3. Holds(at, dWork[i], Place(at, i + 1))'
      BY <1>1, <2>1, <3>1, <3>2 DEF Holds
    <3> QED BY <2>3, <3>3
  <2> QED BY <2>2, <2>3
<1>8. CASE dWork[1] = Transfer!Exit
  <2>1. /\ dPc' = "exit" /\ n = 1 /\ Len(dWork') = 0
    BY <1>1, <1>2, <1>6, <1>8
  <2>2. Place(at, 1) = OwnerAt /\ Place(at, 1)' = OwnerAt'
    BY <1>8, <2>1 DEF Place
  <2>3. UpTo(dPlayed, IF dPc = "write" THEN at[dItem] ELSE Place(at, 1))'
    BY <1>1, <1>3, <1>5, <2>1, <2>2
  <2>4. Follow(at)'
    BY <1>7, <2>1, <2>3 DEF Follow
  <2>5. dOwner.at = "done"
    <3>1. Inside(Transfer!Exit)
      BY <1>0, <1>2, <1>8 DEF Inside
    <3> QED BY <3>1 DEF DtInv, RoomInv
  <2>6. dWork' = <<>>
    <3>1. dWork' \in Seq(Transfer!Buffer \cup {Transfer!Exit})
      BY <1>1, OneTaken
    <3> QED BY <2>1, <3>1
  <2>7. OwnerInv'
    BY <1>1, <1>3, <2>1, <2>5, <2>6 DEF OwnerInv
  <2> QED BY <2>4, <2>7
<1>9. CASE dWork[1] # Transfer!Exit
  <2>1. dPc' = "write" /\ dItem' = dWork[1]
    BY <1>1, <1>2, <1>9
  <2>2. Place(at, 1)' = Place(at, 2) /\ Place(at, 1) = at[dWork[1]]
    <3>1. 1 \in 1..n /\ 1 <= Len(dWork)
      BY <1>0, <1>2
    <3>2. Place(at, 1)' = Place(at, 1 + 1)
      BY <1>4, <3>1 DEF Place
    <3> QED BY <1>9, <3>1, <3>2 DEF Place
  <2>3. Holds(at, dWork[1], Place(at, 2))
    BY <1>2, <1>6, <1>9
  <2>4. Holds(at, dItem, Place(at, 1))'
    BY <1>1, <2>1, <2>2, <2>3 DEF Holds
  <2>5. UpTo(dPlayed, IF dPc = "write" THEN at[dItem] ELSE Place(at, 1))'
    BY <1>1, <1>5, <2>1, <2>2
  <2>6. Follow(at)'
    BY <1>7, <2>4, <2>5 DEF Follow
  <2>7. OwnerInv'
    BY <1>1, <1>3, <2>1 DEF OwnerInv
  <2> QED BY <2>6, <2>7
<1> QED BY <1>8, <1>9

LEMMA FlowInit ==
    ASSUME Transfer!TransferParameters, Transfer!Init PROVE FlowInv
<1>1. DtInv
  BY DtInit
<1>2. OwnerInv
  <2>1. OwnerAt = <<1, 0>> /\ dOwner.at = "create" /\ dPc = "none"
    BY DEF Transfer!Init, OwnerAt
  <2>2. Len(DtLengths) \in Nat \ {0}
    BY <1>1, DtFields
  <2>3. Starts(<<1, 0>>)
    BY <2>2 DEF Starts
  <2> QED BY <2>1, <2>3 DEF OwnerInv
<1>3. PICK at : at = [b \in Transfer!Buffer |-> <<1, 0>>]
  OBVIOUS
<1>4. at \in [Transfer!Buffer -> Nat \X Nat]
  BY <1>3
<1>5. Follow(at)
  <2>1. /\ dWork = <<>> /\ dPlayed = <<>> /\ dPc = "none"
        /\ OwnerAt = <<1, 0>>
    BY DEF Transfer!Init, OwnerAt
  <2>2. Len(dWork) = 0 /\ Len(dPlayed) = 0
    BY <2>1
  <2>3. Place(at, 1) = <<1, 0>>
    BY <2>1, <2>2 DEF Place
  <2>4. \A u \in Transfer!Given : ~Within(u, <<1, 0>>)
    <3>1. Len(DtLengths) \in Nat
      BY <1>1, DtFields
    <3> QED BY <3>1, GivenUnits DEF Within
  <2>5. UpTo(dPlayed, <<1, 0>>)
    BY <2>2, <2>4 DEF UpTo
  <2> QED BY <2>1, <2>2, <2>3, <2>5 DEF Follow
<1> QED BY <1>2, <1>4, <1>5 DEF FlowInv

LEMMA FlowStep ==
    ASSUME Transfer!TransferParameters, DtInv, FlowInv, [Transfer!Next]_dvars
    PROVE  FlowInv'
<1>1. PICK at \in [Transfer!Buffer -> Nat \X Nat] : Follow(at)
  BY DEF FlowInv
<1>2. OwnerInv
  BY DEF FlowInv
<1>3. SUFFICES OwnerInv'
               /\ \E to \in [Transfer!Buffer -> Nat \X Nat] : Follow(to)'
  <2>1. Transfer!Buffer' = Transfer!Buffer
    BY DEF Transfer!Buffer
  <2> QED BY <2>1 DEF FlowInv, Follow, Place, Holds
<1>4. CASE Transfer!Create
  <2>1. /\ dOwner.at = "create" /\ dOwner' = [dOwner EXCEPT !.at = "find"]
        /\ dPc' = "receive"
        /\ UNCHANGED <<dPool, dWork, dItem, dPlayed>>
    BY <1>4 DEF Transfer!Create
  <2>2. dOwner'.at = "find" /\ OwnerAt' = OwnerAt
    BY <2>1, OwnerParts DEF OwnerAt
  <2>3. dPc = "none" /\ Starts(OwnerAt)
    BY <1>2, <2>1 DEF OwnerInv
  <2>4. Follow(at)'
    BY <1>1, <2>1, <2>2, <2>3, FollowKept
  <2>5. OwnerInv'
    BY <2>1, <2>2, <2>3 DEF OwnerInv
  <2> QED BY <2>4, <2>5
<1>5. CASE Transfer!CreateReturnsNull
  <2>1. /\ dOwner.at = "create" /\ dOwner' = [dOwner EXCEPT !.at = "done"]
        /\ UNCHANGED <<dPool, dWork, dItem, dPlayed, dPc>>
    BY <1>5 DEF Transfer!CreateReturnsNull
  <2>2. dOwner'.at = "done" /\ OwnerAt' = OwnerAt
    BY <2>1, OwnerParts DEF OwnerAt
  <2>3. Follow(at)'
    BY <1>1, <2>1, <2>2, FollowKept
  <2>4. dPc = "none" /\ dPc' = dPc
    BY <1>2, <2>1 DEF OwnerInv
  <2>5. OwnerInv'
    BY <2>2, <2>4 DEF OwnerInv
  <2> QED BY <2>3, <2>5
<1>6. CASE Transfer!FillBlock
  <2> DEFINE b == Transfer!Min(Transfer!Free)
  <2>1. /\ dOwner.at = "find" /\ Transfer!Free # {}
        /\ dPool' = [dPool EXCEPT ![b] =
                        [used |-> TRUE, units |-> BlockAt(OwnerAt)]]
        /\ dOwner' = [dOwner EXCEPT !.at = "queue", !.buffer = b]
        /\ UNCHANGED <<dWork, dPc, dItem, dPlayed>>
    BY <1>6 DEF Transfer!FillBlock, BlockAt, OwnerAt, Size
  <2>2. b \in Transfer!Buffer /\ ~dPool[b].used
    BY <2>1, FreeLeast
  <2> HIDE DEF b
  <2>3. /\ dOwner'.at = "queue" /\ dOwner'.buffer = b /\ OwnerAt' = OwnerAt
    BY <2>1, OwnerParts DEF OwnerAt
  <2>4. /\ dPool'[b].units = BlockAt(OwnerAt)
        /\ \A c \in Transfer!Buffer : c # b => dPool'[c] = dPool[c]
    <3>1. dPool \in [Transfer!Buffer -> Block]
      BY DtFields
    <3> QED BY <2>1, <2>2, <3>1
  <2>5. /\ \A i \in 1..Len(dWork) : dWork[i] # Transfer!Exit =>
           dWork[i] \in Transfer!Buffer /\ dWork[i] # b
        /\ dPc = "write" => dItem \in Transfer!Buffer /\ dItem # b
    BY <2>2, DtFields DEF DtInv, RoomInv
  <2>6. Follow(at)'
    BY <1>1, <2>1, <2>3, <2>4, <2>5, FollowKept
  <2>7. OwnerInv'
    <3>1. Starts(OwnerAt) /\ dPc \notin {"exit", "deleted"} /\ dPc' = dPc
      BY <1>2, <2>1 DEF OwnerInv
    <3>2. dPool'[dOwner'.buffer].units = BlockAt(OwnerAt')
      BY <2>3, <2>4
    <3> QED BY <2>3, <3>1, <3>2 DEF OwnerInv
  <2> QED BY <2>6, <2>7
<1>7. CASE Transfer!QueueBlock
  <2>1. PICK b : b = dOwner.buffer
    OBVIOUS
  <2>2. PICK to : to = [at EXCEPT ![b] = OwnerAt]
    OBVIOUS
  <2>3. to \in [Transfer!Buffer -> Nat \X Nat] /\ Follow(to)' /\ OwnerInv'
    BY <1>1, <1>2, <1>7, <2>1, <2>2, QueueFlows
  <2> QED BY <2>3
<1>8. CASE Transfer!QueueExit
  BY <1>1, <1>2, <1>8, ExitFlows
<1>9. CASE Transfer!QueueExitFails
  <2>1. /\ dOwner.at = "destroy" /\ dOwner' = [dOwner EXCEPT !.at = "done"]
        /\ UNCHANGED <<dPool, dWork, dPc, dItem, dPlayed>>
    BY <1>9 DEF Transfer!QueueExitFails
  <2>2. dOwner'.at = "done" /\ OwnerAt' = OwnerAt
    BY <2>1, OwnerParts DEF OwnerAt
  <2>3. Follow(at)'
    BY <1>1, <2>1, <2>2, FollowKept
  <2>4. OwnerAt = <<Len(DtLengths) + 1, 0>> /\ dPc \notin {"exit", "deleted"}
        /\ dPc' = dPc
    BY <1>2, <2>1 DEF OwnerInv
  <2>5. OwnerInv'
    BY <2>2, <2>4 DEF OwnerInv
  <2> QED BY <2>3, <2>5
<1>10. CASE Transfer!Receive
  BY <1>1, <1>2, <1>10, ReceiveFlows
<1>11. CASE Transfer!Write
  <2>1. /\ dPc = "write" /\ dPlayed' = dPlayed \o dPool[dItem].units
        /\ dPc' = "release"
        /\ UNCHANGED <<dAdt, dPool, dWork, dItem, dHandle, dOwner>>
    BY <1>11 DEF Transfer!Write, Transfer!At
  <2>2. /\ Holds(at, dItem, Place(at, 1)) /\ UpTo(dPlayed, at[dItem])
    BY <1>1, <2>1 DEF Follow
  <2>3. dPlayed \in Seq(Transfer!Unit)
    BY DEF DtInv, Transfer!DtTypeOK
  <2>4. /\ Starts(at[dItem]) /\ dPool[dItem].units = BlockAt(at[dItem])
        /\ Place(at, 1) = Ahead(at[dItem])
    BY <2>2 DEF Holds
  <2>5. UpTo(dPlayed \o BlockAt(at[dItem]), Ahead(at[dItem]))
    BY <2>2, <2>3, <2>4, WriteFlows
  <2>6. UpTo(dPlayed', Place(at, 1))
    BY <2>1, <2>4, <2>5
  <2>7. \A i : Place(at, i)' = Place(at, i)
    BY <2>1 DEF Place, OwnerAt
  <2>8. Follow(at)'
    <3>1. ASSUME NEW i \in 1..Len(dWork')
          PROVE  IF dWork'[i] = Transfer!Exit THEN i = Len(dWork')
                 ELSE Holds(at, dWork[i], Place(at, i + 1))'
      <4>1. Place(at, i + 1)' = Place(at, i + 1)
        BY <2>7 DEF Place
      <4> QED BY <1>1, <2>1, <3>1, <4>1 DEF Follow, Holds
    <3>2. Place(at, 1)' = Place(at, 1)
      BY <2>7 DEF Place
    <3>3. UpTo(dPlayed, IF dPc = "write" THEN at[dItem] ELSE Place(at, 1))'
      BY <2>1, <2>6, <3>2
    <3>4. (dPc = "write" => Holds(at, dItem, Place(at, 1)))'
      BY <2>1
    <3> QED BY <3>1, <3>3, <3>4 DEF Follow
  <2>9. OwnerInv'
    <3>1. OwnerAt' = OwnerAt
      BY <2>1 DEF OwnerAt
    <3> QED BY <1>2, <2>1, <3>1 DEF OwnerInv
  <2> QED BY <2>8, <2>9
<1>12. CASE Transfer!Release
  <2>1. /\ dPc = "release" /\ dPool' = [dPool EXCEPT ![dItem].used = FALSE]
        /\ dPc' = "receive"
        /\ UNCHANGED <<dWork, dItem, dPlayed, dOwner>>
    BY <1>12 DEF Transfer!Release, Transfer!At
  <2>2. OwnerAt' = OwnerAt
    BY <2>1 DEF OwnerAt
  <2>3. \A c \in Transfer!Buffer : dPool'[c].units = dPool[c].units
    <3>1. dPool \in [Transfer!Buffer -> Block] /\ dItem \in Transfer!Buffer
      BY <2>1, DtFields DEF DtInv, RoomInv
    <3>2. [dPool[dItem] EXCEPT !.used = FALSE].units = dPool[dItem].units
      BY <3>1 DEF Block
    <3>3. dPool' = [dPool EXCEPT ![dItem] =
                       [dPool[dItem] EXCEPT !.used = FALSE]]
      BY <2>1
    <3> QED BY <3>1, <3>2, <3>3
  <2>4. \A i \in 1..Len(dWork) : dWork[i] # Transfer!Exit =>
           dWork[i] \in Transfer!Buffer
    BY DtFields
  <2>5. Follow(at)'
    BY <1>1, <2>1, <2>2, <2>3, <2>4, FollowKept
  <2>6. OwnerInv'
    <3>1. dOwner.at = "queue" => dOwner.buffer \in Transfer!Buffer
      BY OwnerParts
    <3> QED BY <1>2, <2>1, <2>2, <2>3, <3>1 DEF OwnerInv
  <2> QED BY <2>5, <2>6
<1>13. CASE Transfer!Finish
  <2>1. /\ dPc = "exit" /\ dPc' = "deleted"
        /\ UNCHANGED <<dPool, dWork, dItem, dPlayed, dOwner>>
    BY <1>13 DEF Transfer!Finish, Transfer!At
  <2>2. OwnerAt' = OwnerAt
    BY <2>1 DEF OwnerAt
  <2>3. Follow(at)'
    BY <1>1, <2>1, <2>2, FollowKept
  <2>4. OwnerInv'
    BY <1>2, <2>1, <2>2 DEF OwnerInv
  <2> QED BY <2>3, <2>4
<1>14. CASE UNCHANGED dvars
  <2>1. UNCHANGED <<dPool, dWork, dPc, dItem, dPlayed, dOwner>>
    BY <1>14 DEF dvars
  <2>2. OwnerAt' = OwnerAt
    BY <2>1 DEF OwnerAt
  <2>3. Follow(at)'
    BY <1>1, <2>1, <2>2, FollowKept
  <2>4. OwnerInv'
    BY <1>2, <2>1, <2>2 DEF OwnerInv
  <2> QED BY <2>3, <2>4
<1> QED BY <1>4, <1>5, <1>6, <1>7, <1>8, <1>9, <1>10, <1>11, <1>12, <1>13,
           <1>14 DEF Transfer!Next, Transfer!Owner, Transfer!Task

LEMMA BeforeWithin ==
    ASSUME NEW u, NEW v, NEW q, u[1] \in Nat, u[2] \in Nat, v[1] \in Nat,
           v[2] \in Nat, q[1] \in Nat, q[2] \in Nat,
           Transfer!Before(u, v), Within(v, q)
    PROVE  Within(u, q)
  BY DEF Within, Transfer!Before

(* What has been played of whole calls is the first of what they give.     *)
LEMMA FlowMeans ==
    ASSUME Transfer!TransferParameters, DtInv, FlowInv
    PROVE  Transfer!PlaysWhatWasSent
<1>1. PICK at \in [Transfer!Buffer -> Nat \X Nat] : Follow(at)
  BY DEF FlowInv
<1>2. PICK p, q : p = dPlayed /\ q = IF dPc = "write" THEN at[dItem]
                                     ELSE Place(at, 1)
  OBVIOUS
<1>3. /\ \A i, j \in 1..Len(p) :
            i < j /\ Transfer!Whole(p[i][1]) /\ Transfer!Whole(p[j][1])
            => Transfer!Before(p[i], p[j])
      /\ \A i \in 1..Len(p) : Transfer!Whole(p[i][1]) =>
            p[i] \in Transfer!Given /\ Within(p[i], q)
      /\ \A u \in Transfer!Given :
            Within(u, q) => \E i \in 1..Len(p) : p[i] = u
  BY <1>1, <1>2 DEF Follow, UpTo
<1>4. p \in Seq(Transfer!Unit) /\ Len(p) \in Nat /\ DOMAIN p = 1..Len(p)
  BY <1>2 DEF DtInv, Transfer!DtTypeOK
<1>5. \A u \in Transfer!Given : /\ u[1] \in Nat /\ u[2] \in Nat
                                /\ Transfer!Whole(u[1])
                                /\ u[1] <= Len(DtLengths)
  BY GivenUnits, DtFields
<1>6. q[1] \in Nat /\ q[2] \in Nat
  <2>1. OwnerAt \in Nat \X Nat
    BY OwnerPlace
  <2>2. /\ \A i \in 1..Len(dWork) : dWork[i] # Transfer!Exit =>
              dWork[i] \in Transfer!Buffer
        /\ dPc = "write" => dItem \in Transfer!Buffer
        /\ 1 <= Len(dWork) => 1 \in 1..Len(dWork)
    BY DtFields DEF DtInv, RoomInv
  <2>3. Place(at, 1) \in Nat \X Nat
    BY <2>1, <2>2 DEF Place
  <2>4. q \in Nat \X Nat
    BY <1>2, <2>2, <2>3
  <2> QED BY <2>4
<1>7. ASSUME NEW i \in 1..Len(p), Transfer!Whole(p[i][1]),
             NEW u \in Transfer!Given
      PROVE  Transfer!Before(u, p[i]) <=> \E j \in 1..i - 1 : p[j] = u
  <2>1. p[i] \in Transfer!Given /\ Within(p[i], q)
    BY <1>3, <1>7
  <2>2. ASSUME NEW j \in 1..i - 1, p[j] = u PROVE Transfer!Before(u, p[i])
    <3>1. j \in 1..Len(p) /\ j < i
      BY <1>4
    <3> QED BY <1>3, <1>5, <1>7, <2>2, <3>1
  <2>3. ASSUME Transfer!Before(u, p[i]) PROVE \E j \in 1..i - 1 : p[j] = u
    <3>1. Within(u, q)
      <4>1. u[1] \in Nat /\ u[2] \in Nat
            /\ p[i][1] \in Nat /\ p[i][2] \in Nat
        BY <1>5, <2>1
      <4> QED BY <1>6, <2>1, <2>3, <4>1, BeforeWithin
    <3>2. PICK j \in 1..Len(p) : p[j] = u
      BY <1>3, <3>1
    <3>3. ~Transfer!Before(p[i], u) /\ u # p[i]
      BY <1>5, <2>1, <2>3 DEF Transfer!Before
    <3>4. ~(i < j) /\ i # j
      BY <1>3, <1>5, <1>7, <3>2, <3>3
    <3>5. j \in 1..i - 1
      BY <1>4, <3>4
    <3> QED BY <3>2, <3>5
  <2> QED BY <2>2, <2>3
<1>8. ASSUME dPc = "deleted", NEW u \in Transfer!Given
      PROVE  \E i \in 1..Len(p) : p[i] = u
  <2>1. /\ dWork = <<>> /\ dOwner.at = "done"
        /\ OwnerAt = <<Len(DtLengths) + 1, 0>>
    BY <1>8 DEF FlowInv, OwnerInv
  <2>2. q = <<Len(DtLengths) + 1, 0>>
    <3>1. Len(dWork) = 0
      BY <2>1
    <3> QED BY <1>2, <1>8, <2>1, <3>1 DEF Place
  <2>3. Within(u, q)
    <3>1. Len(DtLengths) \in Nat
      BY DtFields
    <3> QED BY <1>5, <2>2, <3>1 DEF Within
  <2> QED BY <1>3, <2>3
<1>9. ASSUME NEW i \in DOMAIN p, Transfer!Whole(p[i][1])
      PROVE  /\ p[i] \in Transfer!Given
             /\ \A u \in Transfer!Given :
                   Transfer!Before(u, p[i]) <=> \E j \in 1..i - 1 : p[j] = u
  <2>1. i \in 1..Len(p)
    BY <1>4
  <2> QED BY <1>3, <1>7, <1>9, <2>1
<1>10. dPc = "deleted" =>
          \A u \in Transfer!Given : \E i \in DOMAIN p : p[i] = u
  BY <1>4, <1>8
<1>11. p = dPlayed
  BY <1>2
<1> QED BY <1>9, <1>10, <1>11 DEF Transfer!PlaysWhatWasSent

LEMMA TransferInvariant ==
    ASSUME Transfer!TransferParameters
    PROVE  ServicesSpec => [](/\ Transfer!DtTypeOK /\ Transfer!SendFindsRoom
                              /\ Transfer!PlaysWhatWasSent)
<1>1. ServicesInit => DtInv /\ FlowInv
  BY DtInit, FlowInit DEF ServicesInit
<1>2. DtInv /\ FlowInv /\ [ServicesNext]_allVars => DtInv' /\ FlowInv'
  BY Parts, DtStep, FlowStep
<1>3. DtInv /\ FlowInv => /\ Transfer!DtTypeOK /\ Transfer!SendFindsRoom
                         /\ Transfer!PlaysWhatWasSent
  BY RoomFound, FlowMeans DEF DtInv
<1> QED BY <1>1, <1>2, <1>3, PTL DEF ServicesSpec

-----------------------------------------------------------------------------
(* The variables of the four parts keep their types.                       *)
THEOREM ServicesTypeCorrect ==
    ASSUME Manager!ManagerParameters, Transfer!TransferParameters,
           Mutexes!MutexParameters, ~KmNestedWaits
    PROVE  ServicesSpec => []ServicesTypeOK
<1>1. ServicesInit => PmTypeOK
  BY TypeInit DEF ServicesInit
<1>2. PmTypeOK /\ [ServicesNext]_allVars => PmTypeOK'
  BY Parts, TypeStep
<1>3. ServicesSpec => []PmTypeOK
  BY <1>1, <1>2, PTL DEF ServicesSpec
<1>4. ASSUME PmTypeOK, Manager!MmTypeOK, Transfer!DtTypeOK, Mutexes!KmTypeOK
      PROVE  ServicesTypeOK
  BY <1>4 DEF ServicesTypeOK, InPart
<1> QED BY <1>3, <1>4, ManagerInvariant, TransferInvariant, MutexesInvariant,
           PTL

(* A buffer of the message manager is used exactly when it is queued, once, *)
(* or with the task, whatever the remote core sends, for any number of     *)
(* buffers.                                                                *)
THEOREM BuffersOwnedHere ==
    ASSUME Manager!ManagerParameters PROVE ServicesSpec => []BuffersOwned
<1>1. Manager!BuffersOwned => BuffersOwned
  BY DEF BuffersOwned, InPart
<1> QED BY <1>1, ManagerInvariant, PTL

(* Of an orderly remote core the task gets whole packages, although        *)
(* packages are given up half way and the index wraps.                     *)
THEOREM WholePackagesHere ==
    ASSUME Manager!ManagerParameters PROVE ServicesSpec => []WholePackages
<1>1. Manager!WholePackages => WholePackages
  BY DEF WholePackages, InPart
<1> QED BY <1>1, ManagerInvariant, PTL

(* The words of every answer are read in their order, although the send of *)
(* a word returns before the word has left.                                *)
THEOREM AnswersWholeHere ==
    ASSUME Manager!ManagerParameters PROVE ServicesSpec => []AnswersWhole
<1>1. Manager!AnswersWhole => AnswersWhole
  BY DEF AnswersWhole
<1> QED BY <1>1, ManagerInvariant, PTL

(* Whoever sends data finds room in the queue: a buffer that was free is   *)
(* neither queued nor with the task, whatever the lengths.                 *)
THEOREM SendFindsRoomAlways ==
    ASSUME Transfer!TransferParameters PROVE ServicesSpec => []SendFindsRoom
<1>1. Transfer!SendFindsRoom => SendFindsRoom
  BY DEF SendFindsRoom, InPart
<1> QED BY <1>1, TransferInvariant, PTL

(* Of calls of at most a block, or of whole blocks, the card gets each unit *)
(* once, in the order in which it was given, and all of them in the end,   *)
(* although the length of a block is chosen by the length of the call.     *)
THEOREM PlaysWhatWasSentAlways ==
    ASSUME Transfer!TransferParameters PROVE ServicesSpec => []PlaysWhatWasSent
<1>1. Transfer!PlaysWhatWasSent => PlaysWhatWasSent
  BY DEF PlaysWhatWasSent, InPart
<1> QED BY <1>1, TransferInvariant, PTL

(* Without nested waits, nobody has a mutex at a lower priority than that  *)
(* of a task that waits for it, until a give goes on although it should    *)
(* not.                                                                    *)
THEOREM NoInversionHere ==
    ASSUME Mutexes!MutexParameters, ~KmNestedWaits
    PROVE  ServicesSpec => []NoInversion
<1>1. Mutexes!NoInversion => NoInversion
  BY DEF NoInversion, InPart
<1> QED BY <1>1, MutexesInvariant, PTL

(* Then a task without a mutex has its own priority, although a time-out   *)
(* lowers the priority of whoever has the mutex by then.                   *)
THEOREM BaseWithoutMutexHere ==
    ASSUME Mutexes!MutexParameters, ~KmNestedWaits
    PROVE  ServicesSpec => []BaseWithoutMutex
<1>1. Mutexes!BaseWithoutMutex => BaseWithoutMutex
  BY DEF BaseWithoutMutex, InPart
<1> QED BY <1>1, MutexesInvariant, PTL

(* Then the task that runs is one of the highest priority, until a give    *)
(* goes on although it should not.                                         *)
THEOREM RunsHighestHere ==
    ASSUME Mutexes!MutexParameters, ~KmNestedWaits
    PROVE  ServicesSpec => []RunsHighest
<1>1. Mutexes!RunsHighest => RunsHighest
  BY DEF RunsHighest, InPart
<1> QED BY <1>1, MutexesInvariant, PTL
=============================================================================
