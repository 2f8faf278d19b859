---------------------------- MODULE MCMsgboxAmp ----------------------------
(***************************************************************************)
(* Two instances of MsgboxAmp that share no state: in the first, whose     *)
(* variables are those of the module, msgbox_test opens channel 1, which   *)
(* the audio service reads as well, and the status bit follows the FIFO;   *)
(* in the second every endpoint has a channel of its own and the status    *)
(* bit is latched.  A behaviour exercises one of them.  In both the        *)
(* endpoint of the audio service is never freed, two come and go, and an   *)
(* endpoint may be handed over with a pointer left in its `next'.          *)
(***************************************************************************)
EXTENDS MsgboxAmp, TLC

CONSTANTS rpaf, demo, test, c1, c2, c3

VARIABLES
    exercised,     \* which of the two this behaviour is one of
    oHead, oNext, oMutexCount, oMutexHolder, oIrqEn, oIrqSta, oFifo, oSent,
    oReceived, oIsrPc, oIsrCur, oPc, oEp, oCur, oReg, oOpened, oMuted

MCEndpoint == {rpaf, demo, test}
MCStatic == {rpaf}
MCStaleNext == {Null, test}
MCSharedChannel == {c1, c2}
MCSharedReadCh == rpaf :> c1 @@ demo :> c2 @@ test :> c1

(* A channel for each endpoint. *)
Own == INSTANCE MsgboxAmp WITH
    Channel <- {c1, c2, c3},
    ReadCh <- rpaf :> c1 @@ demo :> c2 @@ test :> c3,
    LevelStatus <- FALSE, FifoDepth <- 1, MaxWords <- 1,
    head <- oHead, next <- oNext,
    mutexCount <- oMutexCount, mutexHolder <- oMutexHolder,
    irqEn <- oIrqEn, irqSta <- oIrqSta, fifo <- oFifo, sent <- oSent,
    received <- oReceived, isrPc <- oIsrPc, isrCur <- oIsrCur,
    pc <- oPc, ep <- oEp, cur <- oCur, reg <- oReg, opened <- oOpened,
    muted <- oMuted

ownVars == <<oHead, oNext, oMutexCount, oMutexHolder, oIrqEn, oIrqSta, oFifo,
             oSent, oReceived, oIsrPc, oIsrCur, oPc, oEp, oCur, oReg, oOpened,
             oMuted>>

MCInit == Init /\ Own!Init /\ exercised \in {"shared", "own"}

MCNext ==
    /\ UNCHANGED exercised
    /\ \/ exercised = "shared" /\ Next /\ UNCHANGED ownVars
       \/ exercised = "own" /\ Own!Next /\ UNCHANGED vars

(* The fairness of the one that is exercised. *)
MCFairness ==
    /\ WF_vars(exercised = "shared" /\ IsrStep)
    /\ \A t \in Task : WF_vars(exercised = "shared" /\ TaskStep(t))
    /\ WF_ownVars(exercised = "own" /\ Own!IsrStep)
    /\ \A t \in Task : WF_ownVars(exercised = "own" /\ Own!TaskStep(t))

MCSpec == MCInit /\ [][MCNext]_<<exercised, vars, ownVars>> /\ MCFairness

-----------------------------------------------------------------------------
(* The liveness properties of the module, of the instances they hold of.   *)

(* The interrupt handler returns every time it runs, in both instances. *)
HandlersReturn == HandlerReturns /\ Own!HandlerReturns
(* A word in the FIFO of an endpoint in use is handed over: where the      *)
(* status bit follows the FIFO, on a shared channel and on one of its own. *)
WordsArrive == WordsDelivered
=============================================================================
