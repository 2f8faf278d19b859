------------------------------ MODULE Services ------------------------------
(***************************************************************************)
(* Parts that share no state, side by side: the power management client,   *)
(* the message manager, the data transfer sample, and mutexes of the       *)
(* kernel.  A behaviour exercises one of them; the others stay in their    *)
(* initial states.                                                         *)
(***************************************************************************)
EXTENDS PmClient

CONSTANTS
    (* of the message manager *)
    MmPackages, MmJunk, MmBuffers, MmIndexWords, MmFifoDepth, MmWindow,
    MmEarlyWords, MmGapAfterAbort,
    (* of the data transfer sample *)
    DtLengths, DtBlockLength, DtQueueSize,
    (* of the mutexes *)
    KmTask, KmIdle, KmBase, KmMutex, KmRecursive, KmMaxDepth, KmNestedWaits

VARIABLES
    exercised,     \* which part this behaviour is one of
    mFifo, mOut, mRemote, mLate, mIrqEn, mIsr, mMctrl, mBuf, mQueue,
    mQueueLive, mPc, mCur, mLeft, mTxWord, mSendFinish, mHeard,
    dAdt, dPool, dWork, dPc, dItem, dHandle, dPlayed, dOwner,
    kMutex, kPrio, kHeld, kCurrent, kReady, kCall, kFallen

Manager == INSTANCE MessageManager WITH
    Packages <- MmPackages, Junk <- MmJunk, Buffers <- MmBuffers,
    IndexWords <- MmIndexWords, FifoDepth <- MmFifoDepth, Window <- MmWindow,
    EarlyWords <- MmEarlyWords, GapAfterAbort <- MmGapAfterAbort,
    fifo <- mFifo, out <- mOut, remote <- mRemote, late <- mLate,
    irqEn <- mIrqEn, isr <- mIsr, mctrl <- mMctrl, buf <- mBuf,
    queue <- mQueue, queueLive <- mQueueLive, pc <- mPc, cur <- mCur,
    left <- mLeft, txWord <- mTxWord, sendFinish <- mSendFinish,
    heard <- mHeard

Transfer == INSTANCE DataTransfer WITH
    Lengths <- DtLengths, BlockLength <- DtBlockLength,
    QueueSize <- DtQueueSize,
    adt <- dAdt, pool <- dPool, work <- dWork, pc <- dPc, item <- dItem,
    handle <- dHandle, played <- dPlayed, owner <- dOwner

Mutexes == INSTANCE KernelMutex WITH
    Task <- KmTask, Idle <- KmIdle, Base <- KmBase, Mutex <- KmMutex,
    Recursive <- KmRecursive, MaxDepth <- KmMaxDepth,
    NestedWaits <- KmNestedWaits, NoTask <- None,
    mutex <- kMutex, prio <- kPrio, held <- kHeld, current <- kCurrent,
    ready <- kReady, call <- kCall, fallen <- kFallen

mvars == <<mFifo, mOut, mRemote, mLate, mIrqEn, mIsr, mMctrl, mBuf, mQueue,
           mQueueLive, mPc, mCur, mLeft, mTxWord, mSendFinish, mHeard>>
dvars == <<dAdt, dPool, dWork, dPc, dItem, dHandle, dPlayed, dOwner>>
kvars == <<kMutex, kPrio, kHeld, kCurrent, kReady, kCall, kFallen>>
allVars == <<exercised, vars, mvars, dvars, kvars>>

ServicesInit ==
    /\ exercised \in {"client", "manager", "transfer", "mutexes"}
    /\ Init
    /\ Manager!Init
    /\ Transfer!Init
    /\ Mutexes!Init
    (* choices that do not matter where they are not exercised *)
    /\ exercised # "client" => patient = TRUE

Exercise(name) == exercised = name /\ UNCHANGED exercised

ServicesNext ==
    \/ Exercise("client") /\ Next /\ UNCHANGED <<mvars, dvars, kvars>>
    \/ Exercise("manager") /\ Manager!Next /\ UNCHANGED <<vars, dvars, kvars>>
    \/ Exercise("transfer") /\ Transfer!Next /\ UNCHANGED <<vars, mvars, kvars>>
    \/ Exercise("mutexes") /\ Mutexes!Next /\ UNCHANGED <<vars, mvars, dvars>>

(* The fairness of each service, for the one that is exercised. *)
ServicesFairness ==
    /\ WF_vars(exercised = "client" /\ Boot)
    /\ WF_vars(exercised = "client" /\ TaskStep)
    /\ WF_vars(exercised = "client" /\ MsgboxInterrupt)
    /\ WF_vars(exercised = "client" /\ RemoteRead)
    /\ WF_mvars(exercised = "manager" /\ Manager!Isr)
    /\ WF_mvars(exercised = "manager" /\ Manager!Task)
    /\ WF_mvars(exercised = "manager" /\ Manager!RemoteRead)
    /\ WF_dvars(exercised = "transfer" /\ Transfer!Task)
    /\ WF_dvars(exercised = "transfer" /\ Transfer!Owner)

ServicesSpec == ServicesInit /\ [][ServicesNext]_allVars /\ ServicesFairness

-----------------------------------------------------------------------------
(* The properties of the instances: see their modules.  The variables of a *)
(* part that is not exercised keep their initial values, and are looked at *)
(* where it is.                                                            *)
InPart(name, property) == exercised = name => property

(* The variables of the four parts keep their types. *)
ServicesTypeOK ==
    /\ InPart("client", PmTypeOK) /\ InPart("manager", Manager!MmTypeOK)
    /\ InPart("transfer", Transfer!DtTypeOK)
    /\ InPart("mutexes", Mutexes!KmTypeOK)

(* A buffer is used exactly when it is queued or with the task. *)
BuffersOwned == InPart("manager", Manager!BuffersOwned)

(* The task gets whole packages. *)
WholePackages == InPart("manager", Manager!WholePackages)

(* The remote core reads the words of an answer in their order. *)
AnswersWhole == Manager!AnswersWhole

(* Every buffer that was filled is given back. *)
BuffersReturn == Manager!BuffersReturn

(* What was given in whole blocks is played as it was given. *)
PlaysWhatWasSent == InPart("transfer", Transfer!PlaysWhatWasSent)

(* There is always room for a block whose buffer was free. *)
SendFindsRoom == InPart("transfer", Transfer!SendFindsRoom)

(* The stream is closed after the owner has destroyed it. *)
StreamCloses == Transfer!StreamCloses

(* Whoever has a mutex has at least the priority of those who wait, until *)
(* a give goes on although a higher priority is ready.                    *)
NoInversion == InPart("mutexes", Mutexes!NoInversion)

(* A task without a mutex has its own priority. *)
BaseWithoutMutex == InPart("mutexes", Mutexes!BaseWithoutMutex)

(* The task that runs is one of the highest priority, until then. *)
RunsHighest == InPart("mutexes", Mutexes!RunsHighest)

(* The give that drops a priority makes the scheduler choose again. *)
GiveSwitches == InPart("mutexes", Mutexes!GiveSwitches)
=============================================================================
