-------------------------- MODULE MsgboxAmp_proofs --------------------------
(***************************************************************************)
(* Theorems about MsgboxAmp, for any endpoints, channels, FIFO depth and   *)
(* either kind of interrupt status bit, and whatever the callers leave in  *)
(* the `next' field of the endpoints they allocate: what holds of the      *)
(* endpoint list when one task at a time allocates and frees endpoints.    *)
(***************************************************************************)
EXTENDS MsgboxAmp, TLAPS

(* What the least closed set is: closed, and inside every closed set.      *)
LEMMA ReachableClosed ==
    ASSUME NEW h \in Pointer, NEW n \in [Endpoint -> Pointer]
    PROVE  Closed(Reachable(h, n), h, n)
BY NullAssumption DEF Closed, Reachable, Pointer

LEMMA ReachableLeast ==
    ASSUME NEW h \in Pointer, NEW n \in [Endpoint -> Pointer],
           NEW S \in SUBSET Endpoint, Closed(S, h, n)
    PROVE  Reachable(h, n) \subseteq S
BY DEF Reachable

(* Writing the pointer of an endpoint that is not on the list. *)
LEMMA WriteOutside ==
    ASSUME NEW h \in Pointer, NEW n \in [Endpoint -> Pointer],
           NEW e \in Endpoint, e \notin Reachable(h, n),
           NEW m \in [Endpoint -> Pointer],
           \A f \in Endpoint : f # e => m[f] = n[f]
    PROVE  Reachable(h, m) = Reachable(h, n)
<1> DEFINE R == Reachable(h, n)
           Q == Reachable(h, m)
<1>1. m \in [Endpoint -> Pointer] /\ R \subseteq Endpoint /\ Q \subseteq Endpoint
  BY DEF Reachable
<1>2. Closed(R, h, n) /\ Closed(Q, h, m)
  BY <1>1, ReachableClosed
<1>3. Closed(R, h, m)
  BY <1>1, <1>2 DEF Closed
<1>4. Q \subseteq R
  BY <1>1, <1>3, ReachableLeast
<1>5. Closed(Q, h, n)
  BY <1>1, <1>2, <1>4 DEF Closed
<1>6. R \subseteq Q
  BY <1>1, <1>5, ReachableLeast
<1> QED BY <1>4, <1>6

(* Linking an endpoint behind the last one. *)
LEMMA LinkLast ==
    ASSUME NEW h \in Pointer, NEW n \in [Endpoint -> Pointer],
           NEW e \in Endpoint, NEW c \in Endpoint,
           n[e] = Null, n[c] = Null,
           e \notin Reachable(h, n), c \in Reachable(h, n),
           NEW m \in [Endpoint -> Pointer], m[c] = e,
           \A f \in Endpoint : f # c => m[f] = n[f]
    PROVE  Reachable(h, m) = Reachable(h, n) \cup {e}
<1> DEFINE R == Reachable(h, n)
           Q == Reachable(h, m)
<1>1. m \in [Endpoint -> Pointer] /\ R \subseteq Endpoint /\ Q \subseteq Endpoint
  BY DEF Reachable, Pointer
<1>2. Closed(R, h, n) /\ Closed(Q, h, m)
  BY <1>1, ReachableClosed
<1>3. R \cup {e} \in SUBSET Endpoint /\ Closed(R \cup {e}, h, m)
  BY <1>1, <1>2 DEF Closed
<1>4. Q \subseteq R \cup {e}
  BY <1>1, <1>3, ReachableLeast
<1>5. Closed(Q, h, n)
  BY <1>1, <1>2 DEF Closed
<1>6. R \subseteq Q
  BY <1>1, <1>5, ReachableLeast
<1>7. e \in Q
  BY <1>1, <1>2, <1>6, NullAssumption DEF Closed
<1> QED BY <1>4, <1>6, <1>7

(* Moving the head past the first endpoint, which no other points to. *)
LEMMA UnlinkFirst ==
    ASSUME NEW h \in Endpoint, NEW n \in [Endpoint -> Pointer],
           \A e \in Reachable(h, n) : n[e] # h
    PROVE  Reachable(n[h], n) = Reachable(h, n) \ {h}
<1> DEFINE R == Reachable(h, n)
           Q == Reachable(n[h], n)
<1>1. h \in Pointer /\ n[h] \in Pointer /\ R \subseteq Endpoint /\ Q \subseteq Endpoint
  BY DEF Reachable, Pointer
<1>2. Closed(R, h, n) /\ Closed(Q, n[h], n)
  BY <1>1, ReachableClosed
<1>3. Closed(R \ {h}, n[h], n)
  BY <1>1, <1>2, NullAssumption DEF Closed
<1>4. Q \subseteq R \ {h}
  BY <1>1, <1>3, ReachableLeast
<1>5. Closed(Q \cup {h}, h, n)
  BY <1>1, <1>2 DEF Closed
<1>6. R \subseteq Q \cup {h}
  BY <1>1, <1>5, ReachableLeast
<1> QED BY <1>4, <1>6

(* Unlinking an endpoint e that only its predecessor c points to. *)
LEMMA UnlinkBehind ==
    ASSUME NEW h \in Pointer, NEW n \in [Endpoint -> Pointer],
           NEW e \in Endpoint, NEW c \in Endpoint,
           h # e, n[c] = e, c \in Reachable(h, n),
           \A f \in Reachable(h, n) : n[f] = e => f = c,
           c # e,
           NEW m \in [Endpoint -> Pointer], m[c] = n[e],
           \A f \in Endpoint : f # c => m[f] = n[f]
    PROVE  Reachable(h, m) = Reachable(h, n) \ {e}
<1> DEFINE R == Reachable(h, n)
           Q == Reachable(h, m)
<1>1. m \in [Endpoint -> Pointer] /\ R \subseteq Endpoint /\ Q \subseteq Endpoint
  BY DEF Reachable
<1>2. Closed(R, h, n) /\ Closed(Q, h, m)
  BY <1>1, ReachableClosed
<1>3. e \in R
  BY <1>1, <1>2, NullAssumption DEF Closed
<1>4. R \ {e} \in SUBSET Endpoint /\ Closed(R \ {e}, h, m)
  BY <1>1, <1>2, <1>3 DEF Closed
<1>5. Q \subseteq R \ {e}
  <2> DEFINE P == R \ {e}
  <2>1. P \in SUBSET Endpoint /\ Closed(P, h, m)
    BY <1>4
  <2> HIDE DEF P, Q, R
  <2>2. Reachable(h, m) \subseteq P
    BY <1>1, <2>1, ReachableLeast
  <2> QED BY <2>2 DEF P, Q
<1>6. c \in Q
  <2> SUFFICES ASSUME c \notin Q PROVE FALSE
    OBVIOUS
  <2>1. Closed(Q, h, n)
    BY <1>1, <1>2, <1>5 DEF Closed
  <2>2. R \subseteq Q
    BY <1>1, <2>1, ReachableLeast
  <2> QED BY <2>2
<1>7. Closed(Q \cup {e}, h, n)
  BY <1>1, <1>2, <1>6 DEF Closed
<1>8. R \subseteq Q \cup {e}
  BY <1>1, <1>7, ReachableLeast
<1> QED BY <1>5, <1>8

(* Following a pointer loses no endpoint but the one it is followed from. *)
LEMMA StepForward ==
    ASSUME NEW n \in [Endpoint -> Pointer], NEW c \in Endpoint
    PROVE  Reachable(c, n) \subseteq Reachable(n[c], n) \cup {c}
<1> DEFINE S == Reachable(n[c], n) \cup {c}
<1>1. c \in Pointer /\ n[c] \in Pointer
  BY DEF Pointer
<1>2. S \in SUBSET Endpoint
  BY DEF Reachable
<1>3. Closed(Reachable(n[c], n), n[c], n)
  BY <1>1, ReachableClosed
<1>4. Closed(S, c, n)
  BY <1>3 DEF Closed
<1> HIDE DEF S
<1>5. Reachable(c, n) \subseteq S
  BY <1>1, <1>2, <1>4, ReachableLeast
<1> QED BY <1>5 DEF S

LEMMA ReachableNull ==
    ASSUME NEW n \in [Endpoint -> Pointer]
    PROVE  Reachable(Null, n) = {}
<1> DEFINE S == {}
<1>1. S \in SUBSET Endpoint /\ Null \in Pointer
  BY DEF Pointer
<1>2. Closed(S, Null, n)
  BY DEF Closed
<1> HIDE DEF S
<1>3. Reachable(Null, n) \subseteq S
  BY <1>1, <1>2, ReachableLeast
<1> QED BY <1>3 DEF S

LEMMA ReachableOne ==
    ASSUME NEW n \in [Endpoint -> Pointer], NEW c \in Endpoint, n[c] = Null
    PROVE  Reachable(c, n) = {c}
<1>1. Reachable(c, n) \subseteq {c}
  BY StepForward, ReachableNull
<1>2. c \in Reachable(c, n)
  BY ReachableClosed, NullAssumption DEF Closed, Pointer
<1> QED BY <1>1, <1>2

-----------------------------------------------------------------------------
(* The inductive invariant.                                                *)

SingleMutator == \A t, u \in Task : t = u

(* A call in progress works on an endpoint that is not in use. *)
CallArgument ==
    \A t \in Task : pc[t] # "idle" => ep[t] \in Endpoint \ opened

(* Which endpoints are on the list. *)
LinkedPoints == {"alloc_null", "alloc_unlock", "enable_read", "enable_write",
                 "disable_read", "disable_write", "free_lock", "free_first",
                 "free_walk"}
Membership ==
    OnList = opened \cup {ep[t] : t \in {u \in Task : pc[u] \in LinkedPoints}}

(* Where a task's walk is: an allocation is on the list, a free still has   *)
(* the endpoint it looks for ahead of it.                                  *)
WalkPosition ==
    \A t \in Task :
        /\ pc[t] = "alloc_walk" => \/ cur[t] \in OnList
                                   \/ cur[t] = Null /\ head = Null
        /\ pc[t] = "free_walk" => /\ cur[t] \in OnList
                                  /\ cur[t] # ep[t]
                                  /\ head # ep[t]
                                  /\ ep[t] \in Reachable(cur[t], Settled)

(* The list is one chain: nothing points to its head, at most one endpoint  *)
(* points to another, and it has an end.                                   *)
Chain ==
    /\ \A e \in OnList : Settled[e] # Null => Settled[e] # head
    /\ \A e, f \in OnList : Settled[e] # Null /\ Settled[e] = Settled[f] => e = f
    /\ head # Null => \E e \in OnList : Settled[e] = Null

(* The handler is on the list, or has followed a stale pointer.            *)
HandlerOnList ==
    isrPc \in {"drain", "clear"} =>
        /\ isrCur \in Endpoint
        /\ isrCur \in OnList \/ StaleLink

(* The interrupt enable register and the copies of it. *)
Enabled ==
    /\ NoOrphanInterrupt
    /\ \A t \in Task :
        /\ pc[t] = "enable_write" => reg[t] = irqEn \cup {ReadCh[ep[t]]}
        /\ pc[t] = "disable_write" => reg[t] = irqEn \ {ReadCh[ep[t]]}
        /\ pc[t] \in {"free_lock", "free_first", "free_walk"} =>
               ReadCh[ep[t]] \notin irqEn

IInv ==
    /\ TypeOK /\ CallArgument /\ Membership /\ WalkPosition
    /\ Chain /\ HandlerOnList /\ Enabled
-----------------------------------------------------------------------------
(* The pointers as they will be: a function, and the pointers themselves   *)
(* but between the two stores of an allocation.                            *)
LEMMA SettledPointers ==
    ASSUME TypeOK
    PROVE  /\ Settled \in [Endpoint -> Pointer]
           /\ (\A t \in Task : pc[t] # "alloc_null") => Settled = next
           /\ ~StaleLink => Settled = next
BY DEF TypeOK, Settled, StaleLink, Pointer

LEMMA InitInvariant == Init => IInv
<1> SUFFICES ASSUME Init PROVE IInv
  OBVIOUS
<1>1. OnList = {}
  <2>1. TypeOK
    BY BoundAssumption DEF Init, TypeOK, Pointer, IsrPoints
  <2> QED
    BY <2>1, SettledPointers, ReachableNull DEF Init, OnList
<1>2. TypeOK
  BY BoundAssumption DEF Init, TypeOK, Pointer, IsrPoints
<1> QED
  BY <1>1, <1>2 DEF Init, IInv, CallArgument, Membership, WalkPosition, Chain,
     HandlerOnList, Enabled, NoOrphanInterrupt, LinkedPoints

(* Type correctness: no step dereferences a null pointer, given where the   *)
(* pointers are when it starts.                                            *)
LEMMA TypeStep ==
    ASSUME TypeOK, [Next]_vars,
           \A t \in Task : pc[t] # "idle" => ep[t] \in Endpoint,
           \A t \in Task : pc[t] = "free_walk" => cur[t] \in Endpoint,
           isrPc \in {"drain", "clear"} => isrCur \in Endpoint
    PROVE  TypeOK'
<1>1. ASSUME NEW c \in Channel, RemoteSend(c) PROVE TypeOK'
  BY <1>1 DEF TypeOK, RemoteSend, list, mutex, isr, tasks, history
<1>2. CASE IsrEnter
  BY <1>2 DEF TypeOK, IsrEnter, IsrPoints, hardware, list, tasks, history
<1>3. CASE IsrRead
  <2> DEFINE c == ReadCh[isrCur]
  <2>1. c \in Channel /\ isrCur \in Endpoint
    BY <1>3, ReadChAssumption DEF IsrRead
  <2>2. fifo[c] \in Seq(Nat) /\ fifo[c] # <<>> /\ received[isrCur] \in Seq(Nat)
    BY <1>3, <2>1 DEF IsrRead, TypeOK
  <2>3. Tail(fifo[c]) \in Seq(Nat) /\ Append(received[isrCur], Head(fifo[c])) \in Seq(Nat)
    BY <2>2
  <2>4. fifo' \in [Channel -> Seq(Nat)] /\ received' \in [Endpoint -> Seq(Nat)]
    BY <1>3, <2>1, <2>3 DEF IsrRead, TypeOK
  <2> QED
    BY <1>3, <2>4 DEF IsrRead, TypeOK, list, mutex, tasks, history
<1>4. CASE IsrDrained
  BY <1>4 DEF TypeOK, IsrDrained, IsrPoints, hardware, list, mutex, tasks, history
<1>5. CASE IsrClear
  BY <1>5, ReadChAssumption
  DEF TypeOK, IsrClear, StatusCleared, IsrPoints, list, mutex, tasks, history
<1>6. CASE IsrUnlock
  BY <1>6 DEF TypeOK, IsrUnlock, IsrPoints, hardware, list, tasks, history
<1>7. ASSUME NEW t \in Task, TaskStep(t) \/ TaskCall(t) PROVE TypeOK'
  <2> USE DEF TypeOK, At, Goto, AllocPoints, FreePoints, hardware, list, mutex, isr,
              history
  <2>1. CASE \E e \in Endpoint, stale \in StaleNext : AllocCall(t, e, stale)
    BY <2>1, StaleNextAssumption DEF AllocCall, Pointer
  <2>2. CASE AllocLock(t)
    BY <2>2 DEF AllocLock, Lock
  <2>3. CASE AllocFirst(t)
    BY <2>3 DEF AllocFirst
  <2>4. CASE AllocWalk(t)
    BY <2>4 DEF AllocWalk, Pointer
  <2>5. CASE AllocAppend(t)
    BY <2>5 DEF AllocAppend, Pointer
  <2>6. CASE AllocNull(t)
    BY <2>6 DEF AllocNull, Pointer
  <2>7. CASE AllocUnlock(t)
    BY <2>7 DEF AllocUnlock, Unlock
  <2>8. CASE EnableRead(t)
    BY <2>8, ReadChAssumption DEF EnableRead
  <2>9. CASE EnableWrite(t)
    BY <2>9 DEF EnableWrite
  <2>10. CASE \E e \in Endpoint : FreeCall(t, e)
    BY <2>10 DEF FreeCall, Pointer
  <2>11. CASE DisableRead(t)
    BY <2>11 DEF DisableRead
  <2>12. CASE DisableWrite(t)
    BY <2>12 DEF DisableWrite
  <2>13. CASE FreeLock(t)
    BY <2>13 DEF FreeLock, Lock
  <2>14. CASE FreeFirst(t)
    BY <2>14 DEF FreeFirst, Pointer
  <2>15. CASE FreeSeek(t)
    BY <2>15 DEF FreeSeek
  <2>16. CASE FreeWalk(t)
    BY <2>16 DEF FreeWalk, Pointer
  <2>17. CASE FreeUnlink(t)
    BY <2>17 DEF FreeUnlink, Pointer
  <2>18. CASE FreeUnlock(t)
    BY <2>18 DEF FreeUnlock, Unlock
  <2> HIDE DEF TypeOK, At, Goto, AllocPoints, FreePoints, hardware, list, mutex, isr,
               history
  <2> QED
    BY <1>7, <2>1, <2>2, <2>3, <2>4, <2>5, <2>6, <2>7, <2>8, <2>9, <2>10, <2>11,
       <2>12, <2>13, <2>14, <2>15, <2>16, <2>17, <2>18 DEF TaskStep, TaskCall
<1>8. CASE UNCHANGED vars
  BY <1>8 DEF TypeOK, vars, hardware, list, mutex, isr, tasks, history
<1> QED
  BY <1>1, <1>2, <1>3, <1>4, <1>5, <1>6, <1>7, <1>8 DEF Next, IsrStep
(* A step that leaves `it_edp' and every pointer alone leaves the list alone. *)
LEMMA SameList ==
    ASSUME head' = head, Settled' = Settled
    PROVE  OnList' = OnList /\ \A p : Reachable(p, Settled)' = Reachable(p, Settled)
BY DEF OnList, Reachable, Closed

LEMMA OnListFacts ==
    ASSUME TypeOK
    PROVE  OnList \subseteq Endpoint /\ Closed(OnList, head, Settled)
BY ReachableClosed, SettledPointers DEF TypeOK, OnList, Reachable

(* The remote core and the handler leave the list and the tasks alone. *)
LEMMA HandlerStep ==
    ASSUME IInv, TypeOK',
           (\E c \in Channel : RemoteSend(c)) \/ IsrStep \/ UNCHANGED vars
    PROVE  IInv'
<1>1. UNCHANGED <<head, next, pc, ep, cur, reg, opened, muted, irqEn>>
  BY DEF RemoteSend, IsrStep, IsrEnter, IsrRead, IsrDrained, IsrClear, IsrUnlock,
         vars, hardware, list, mutex, isr, tasks, history
<1>6. Settled' = Settled /\ (StaleLink <=> StaleLink')
  BY <1>1 DEF Settled, StaleLink
<1>2. /\ OnList' = OnList
      /\ \A t \in Task : Reachable(cur[t], Settled)' = Reachable(cur[t], Settled)
  BY <1>1, <1>6 DEF OnList, Reachable, Closed
<1>3. (CallArgument /\ Membership /\ WalkPosition /\ Chain /\ Enabled)'
  BY <1>1, <1>2, <1>6 DEF IInv, CallArgument, Membership, WalkPosition, Chain, Enabled,
     NoOrphanInterrupt
<1>4. HandlerOnList'
  <2>1. /\ Closed(OnList, head, Settled) /\ OnList \subseteq Endpoint
        /\ ~StaleLink => Settled = next
        /\ head \in Pointer /\ next \in [Endpoint -> Pointer]
    BY OnListFacts, SettledPointers DEF IInv, TypeOK
  <2>2. CASE IsrClear
    <3>1. isrCur \in Endpoint /\ (isrCur \in OnList \/ StaleLink)
      BY <2>2 DEF IInv, HandlerOnList, IsrClear
    <3>2. isrPc' = "drain" => next[isrCur] \in Endpoint
      BY <2>1, <2>2, <3>1 DEF IsrClear, Pointer
    <3>3. isrPc' = "drain" /\ ~StaleLink => next[isrCur] \in OnList
      BY <2>1, <2>2, <3>1 DEF IsrClear, Closed
    <3> QED
      BY <1>2, <1>6, <2>2, <3>2, <3>3 DEF HandlerOnList, IsrClear
  <2>3. CASE ~IsrClear
    BY <1>2, <1>6, <2>1, <2>3 DEF IInv, HandlerOnList, Closed, RemoteSend, IsrStep,
       IsrEnter, IsrRead, IsrDrained, IsrUnlock, vars, isr
  <2> QED
    BY <2>2, <2>3
<1> QED
  BY <1>3, <1>4 DEF IInv
(* A task's step that does not write the list.  With a single mutator no    *)
(* other task is inside a call.                                            *)
LEMMA TaskReadStep ==
    ASSUME IInv, TypeOK', SingleMutator, NEW t \in Task,
           \/ AllocLock(t) \/ AllocWalk(t) \/ AllocUnlock(t)
           \/ EnableRead(t) \/ EnableWrite(t)
           \/ \E e \in Endpoint : FreeCall(t, e)
           \/ DisableRead(t) \/ DisableWrite(t) \/ FreeLock(t)
           \/ FreeSeek(t) \/ FreeWalk(t) \/ FreeUnlock(t)
    PROVE  IInv'
<1> USE DEF IInv, At, Goto
<1>1. UNCHANGED list /\ UNCHANGED isr
  BY DEF AllocLock, AllocWalk, AllocUnlock, EnableRead, EnableWrite, FreeCall,
         DisableRead, DisableWrite, FreeLock, FreeSeek, FreeWalk, FreeUnlock
<1>4. \A u \in Task : u = t
  BY DEF SingleMutator
<1>20. /\ pc[t] # "alloc_null" /\ pc'[t] # "alloc_null" /\ isrPc = "idle"
  BY DEF TypeOK, AllocLock, AllocWalk, AllocUnlock, EnableRead, EnableWrite, FreeCall,
         DisableRead, DisableWrite, FreeLock, FreeSeek, FreeWalk, FreeUnlock
<1>21. Settled = next /\ Settled' = Settled
  <2>1. Settled = next
    BY <1>4, <1>20, SettledPointers
  <2>2. Settled' = [e \in Endpoint |-> next'[e]]
    BY <1>4, <1>20 DEF Settled
  <2> QED
    BY <1>1, <2>1, <2>2 DEF TypeOK, list
<1>2. OnList' = OnList /\ \A p : Reachable(p, Settled)' = Reachable(p, Settled)
  BY <1>1, <1>21, SameList DEF list
<1>3. OnList \subseteq Endpoint /\ Closed(OnList, head, Settled)
  BY OnListFacts
<1>5. Chain' /\ HandlerOnList'
  BY <1>1, <1>2, <1>20, <1>21 DEF Chain, HandlerOnList, list, isr
<1> HIDE DEF IInv
<1> DEFINE Rest == CallArgument /\ Membership /\ WalkPosition /\ Enabled
<1>6. Rest /\ TypeOK
  BY DEF IInv
<1> USE DEF TypeOK, CallArgument, Membership, WalkPosition, Enabled,
        NoOrphanInterrupt, LinkedPoints, list
<1>7. ASSUME AllocLock(t) PROVE Rest'
  <2>1. /\ cur'[t] = head /\ pc[t] = "alloc_lock" /\ pc'[t] = "alloc_walk"
        /\ UNCHANGED <<head, ep, irqEn, reg, opened, muted>>
    BY <1>6, <1>7 DEF AllocLock, hardware, history
  <2>2. head = Null \/ head \in OnList
    BY <1>3 DEF Closed
  <2>3. Membership' /\ CallArgument'
    BY <1>2, <1>4, <1>6, <2>1
  <2>4. WalkPosition' /\ Enabled'
    BY <1>2, <1>4, <1>6, <2>1, <2>2
  <2> QED
    BY <2>3, <2>4
<1>8. ASSUME AllocWalk(t) PROVE Rest'
  <2>1. cur[t] \in OnList /\ next[cur[t]] # Null
    BY <1>6, <1>8 DEF AllocWalk
  <2>2. next[cur[t]] \in OnList
    BY <1>3, <1>21, <2>1 DEF Closed
  <2>3. /\ cur'[t] = next[cur[t]] /\ pc[t] = "alloc_walk" /\ pc' = pc
        /\ UNCHANGED <<head, ep, irqEn, reg, opened, muted>>
    BY <1>6, <1>8 DEF AllocWalk, hardware, history
  <2>4. Membership' /\ CallArgument'
    BY <1>2, <1>4, <1>6, <2>3
  <2>5. WalkPosition' /\ Enabled'
    BY <1>2, <1>4, <1>6, <2>2, <2>3
  <2> QED
    BY <2>4, <2>5
<1>9. ASSUME AllocUnlock(t) PROVE Rest'
  BY <1>1, <1>2, <1>3, <1>4, <1>6, <1>21, <1>9
  DEF AllocUnlock, hardware, history, SameChannel
<1>10. ASSUME EnableRead(t) PROVE Rest'
  BY <1>1, <1>2, <1>3, <1>4, <1>6, <1>21, <1>10
  DEF EnableRead, hardware, history, SameChannel
<1>11. ASSUME EnableWrite(t) PROVE Rest'
  <2>1. irqEn' = irqEn \cup {ReadCh[ep[t]]} /\ ep[t] \in OnList
    BY <1>6, <1>21, <1>11 DEF EnableWrite, SameChannel
  <2>2. NoOrphanInterrupt'
    BY <1>1, <1>2, <1>6, <1>11, <2>1 DEF EnableWrite, SameChannel
  <2>3. Membership'
    BY <1>1, <1>2, <1>4, <1>6, <1>21, <1>11 DEF EnableWrite, SameChannel
  <2> QED
    BY <1>1, <1>2, <1>3, <1>4, <1>6, <1>21, <1>11, <2>2, <2>3 DEF EnableWrite, SameChannel
<1>12. ASSUME \E e \in Endpoint : FreeCall(t, e) PROVE Rest'
  BY <1>1, <1>2, <1>3, <1>4, <1>6, <1>21, <1>12
  DEF FreeCall, hardware, history, SameChannel
<1>13. ASSUME DisableRead(t) PROVE Rest'
  BY <1>1, <1>2, <1>3, <1>4, <1>6, <1>21, <1>13
  DEF DisableRead, hardware, history, SameChannel
<1>14. ASSUME DisableWrite(t) PROVE Rest'
  BY <1>1, <1>2, <1>3, <1>4, <1>6, <1>21, <1>14 DEF DisableWrite, SameChannel
<1>15. ASSUME FreeLock(t) PROVE Rest'
  BY <1>1, <1>2, <1>3, <1>4, <1>6, <1>21, <1>15
  DEF FreeLock, hardware, history, SameChannel
<1>16. ASSUME FreeSeek(t) PROVE Rest'
  <2>1. ep[t] \in Reachable(head, Settled) /\ head \in OnList
    <3>1. ep[t] \in OnList
      BY <1>6, <1>21, <1>16 DEF FreeSeek
    <3>2. head # Null
      BY <1>6, <3>1, ReachableNull, <1>21 DEF OnList
    <3> QED
      BY <1>3, <3>1, <3>2 DEF OnList, Closed
  <2> QED
    BY <1>1, <1>2, <1>3, <1>4, <1>6, <1>21, <1>16, <2>1
    DEF FreeSeek, hardware, history, SameChannel
<1>17. ASSUME FreeWalk(t) PROVE Rest'
  <2>1. ep[t] \in Reachable(next[cur[t]], Settled)
    <3>1. /\ cur[t] \in Endpoint /\ cur[t] # ep[t]
          /\ ep[t] \in Reachable(cur[t], Settled)
      BY <1>3, <1>6, <1>21, <1>17 DEF FreeWalk
    <3>2. Reachable(cur[t], Settled) \subseteq Reachable(next[cur[t]], Settled) \cup {cur[t]}
      BY <1>6, <3>1, StepForward, <1>21
    <3> QED
      BY <3>1, <3>2
  <2> QED
    BY <1>1, <1>2, <1>3, <1>4, <1>6, <1>21, <1>17, <2>1
    DEF FreeWalk, hardware, history, SameChannel, Closed
<1>18. ASSUME FreeUnlock(t) PROVE Rest'
  BY <1>1, <1>2, <1>3, <1>4, <1>6, <1>21, <1>18
  DEF FreeUnlock, hardware, history, SameChannel
<1> HIDE DEF TypeOK, CallArgument, Membership, WalkPosition, Enabled,
        NoOrphanInterrupt, LinkedPoints, list, At, Goto
<1>19. Rest'
  BY <1>7, <1>8, <1>9, <1>10, <1>11, <1>12, <1>13, <1>14, <1>15, <1>16, <1>17, <1>18
<1> QED
  BY <1>5, <1>19 DEF IInv
(* The steps that write the list. *)
LEMMA TaskWriteStep ==
    ASSUME IInv, TypeOK', SingleMutator, NEW t \in Task,
           \/ \E e \in Endpoint, stale \in StaleNext : AllocCall(t, e, stale)
           \/ AllocFirst(t) \/ AllocAppend(t) \/ AllocNull(t)
           \/ FreeFirst(t) \/ FreeUnlink(t)
    PROVE  IInv'
<1> DEFINE e == ep[t]
           c == cur[t]
<1>1. /\ TypeOK /\ CallArgument /\ Membership /\ WalkPosition
      /\ Chain /\ HandlerOnList /\ Enabled
  BY DEF IInv
<1>2. OnList \subseteq Endpoint /\ Closed(OnList, head, Settled)
  BY <1>1, OnListFacts
<1>3. \A u \in Task : u = t
  BY DEF SingleMutator
<1>4. /\ next \in [Endpoint -> Pointer] /\ head \in Pointer
      /\ isrPc = "idle" /\ isrPc' = "idle"
  BY <1>1 DEF TypeOK, AllocCall, AllocFirst, AllocAppend, AllocNull, FreeFirst,
              FreeUnlink, At, isr
<1>5. HandlerOnList'
  BY <1>4 DEF HandlerOnList
<1>13. /\ Settled \in [Endpoint -> Pointer]
       /\ pc[t] # "alloc_null" => Settled = next
       /\ pc'[t] # "alloc_null" => Settled' = next'
       /\ pc'[t] = "alloc_null" =>
              Settled' = [g \in Endpoint |-> IF ep'[t] = g THEN Null ELSE next'[g]]
  <2>1. Settled' = [g \in Endpoint |-> IF pc'[t] = "alloc_null" /\ ep'[t] = g
                                       THEN Null ELSE next'[g]]
    BY <1>3 DEF Settled
  <2>2. next' \in [Endpoint -> Pointer]
    BY DEF TypeOK
  <2> QED
    BY <1>1, <1>3, <2>1, <2>2, SettledPointers
<1> DEFINE Rest == CallArgument /\ Membership /\ WalkPosition /\ Chain /\ Enabled
<1>6. ASSUME NEW f \in Endpoint, NEW stale \in StaleNext, AllocCall(t, f, stale)
      PROVE  Rest'
  <2>1. stale \in Pointer /\ f \notin opened /\ pc[t] = "idle"
    BY <1>6, StaleNextAssumption DEF AllocCall, At, Pointer
  <2>8. Settled = next /\ Settled' = next'
    BY <1>1, <1>6, <1>13, <2>1 DEF AllocCall, Goto, TypeOK
  <2>2. f \notin OnList /\ OnList = opened
    BY <1>1, <1>3, <2>1 DEF Membership, LinkedPoints
  <2>3. next' = [next EXCEPT ![f] = stale] /\ OnList' = OnList
    <3>1. /\ next' = [next EXCEPT ![f] = stale] /\ head' = head
          /\ next' \in [Endpoint -> Pointer]
          /\ \A g \in Endpoint : g # f => next'[g] = next[g]
      BY <1>4, <1>6, <2>1 DEF AllocCall, Pointer
    <3>2. Reachable(head, next') = Reachable(head, next)
      BY <1>4, <2>2, <2>8, <3>1, WriteOutside DEF OnList
    <3> QED
      BY <2>8, <3>1, <3>2 DEF OnList
  <2>4. \A g \in OnList : next'[g] = next[g]
    BY <1>2, <1>4, <2>2, <2>3
  <2>5. Chain'
    BY <1>1, <1>6, <2>3, <2>4, <2>8 DEF Chain, AllocCall
  <2>6. (CallArgument /\ Membership)'
    BY <1>1, <1>3, <1>4, <1>6, <2>1, <2>2, <2>3
    DEF AllocCall, Goto, TypeOK, CallArgument, Membership, LinkedPoints, history
  <2>7. (WalkPosition /\ Enabled)'
    BY <1>1, <1>3, <1>6, <2>1, <2>2, <2>3
    DEF AllocCall, Goto, TypeOK, WalkPosition, Enabled, NoOrphanInterrupt, hardware, history
  <2> QED
    BY <2>5, <2>6, <2>7
<1>7. ASSUME AllocFirst(t) PROVE Rest'
  <2>1. e \in Endpoint /\ head = Null
    BY <1>1, <1>2, <1>7, NullAssumption DEF AllocFirst, At, CallArgument, WalkPosition
  <2>2. OnList = {} /\ opened = {}
    BY <1>1, <1>4, <1>13, <2>1, ReachableNull DEF OnList, Membership
  <2>7. Settled' \in [Endpoint -> Pointer] /\ Settled'[e] = Null
    BY <1>1, <1>4, <1>7, <1>13, <2>1 DEF AllocFirst, Goto, TypeOK, Pointer
  <2>3. head' = e /\ OnList' = {e}
    BY <1>7, <2>1, <2>7, ReachableOne DEF AllocFirst, OnList
  <2>4. Chain'
    BY <2>1, <2>3, <2>7 DEF Chain
  <2>5. (CallArgument /\ Membership)'
    BY <1>1, <1>3, <1>4, <1>7, <2>1, <2>2, <2>3
    DEF AllocFirst, Goto, TypeOK, CallArgument, Membership, LinkedPoints, history
  <2>6. (WalkPosition /\ Enabled)'
    BY <1>1, <1>3, <1>7, <2>2, <2>3
    DEF AllocFirst, Goto, TypeOK, WalkPosition, Enabled, NoOrphanInterrupt, hardware, history
  <2> QED
    BY <2>4, <2>5, <2>6
<1>8. ASSUME AllocAppend(t) PROVE Rest'
  <2>1. /\ e \in Endpoint
        /\ c \in OnList /\ c \in Endpoint /\ next[c] = Null
    BY <1>1, <1>2, <1>8 DEF AllocAppend, At, CallArgument, WalkPosition
  <2>8. Settled = next
    BY <1>8, <1>13 DEF AllocAppend, At
  <2>2. e \notin OnList /\ OnList = opened
    BY <1>1, <1>3, <1>8 DEF AllocAppend, At, CallArgument, Membership, LinkedPoints
  <2>7. /\ Settled' \in [Endpoint -> Pointer] /\ head' = head
        /\ \A g \in Endpoint :
              Settled'[g] = IF g = e THEN Null ELSE IF g = c THEN e ELSE next[g]
    <3>1. Settled' = [g \in Endpoint |-> IF e = g THEN Null ELSE next'[g]]
      BY <1>1, <1>8, <1>13 DEF AllocAppend, Goto, TypeOK
    <3> QED
      BY <1>4, <1>8, <2>1, <3>1 DEF AllocAppend, Pointer
  <2>3. OnList' = OnList \cup {e}
    <3> DEFINE n == [next EXCEPT ![e] = Null]
    <3>1. /\ n \in [Endpoint -> Pointer] /\ n[e] = Null /\ n[c] = Null
          /\ \A g \in Endpoint : g # e => n[g] = next[g]
      BY <1>4, <2>1 DEF Pointer
    <3>2. /\ Settled' \in [Endpoint -> Pointer] /\ Settled'[c] = e
          /\ \A g \in Endpoint : g # c => Settled'[g] = n[g]
      BY <1>4, <2>1, <2>2, <2>7
    <3> HIDE DEF n
    <3>3. Reachable(head, n) = Reachable(head, next)
      BY <1>4, <2>1, <2>2, <2>8, <3>1, WriteOutside DEF OnList
    <3>4. e \notin Reachable(head, n) /\ c \in Reachable(head, n)
      BY <2>1, <2>2, <2>8, <3>3 DEF OnList
    <3>5. Reachable(head, Settled') = Reachable(head, n) \cup {e}
      BY <1>4, <2>1, <3>1, <3>2, <3>4, LinkLast
    <3> QED
      BY <2>7, <2>8, <3>3, <3>5 DEF OnList
  <2>4. Chain'
    <3>1. head # e
      BY <1>2, <2>1, <2>2, NullAssumption DEF Closed
    <3>2. \A f \in OnList : next[f] # e
      BY <1>2, <2>1, <2>2, <2>8, NullAssumption DEF Closed
    <3>3. /\ Settled'[e] = Null /\ Settled'[c] = e
          /\ \A g \in OnList \ {c} : Settled'[g] = next[g]
      BY <1>2, <2>1, <2>2, <2>7
    <3> QED
      BY <1>1, <1>2, <1>4, <2>1, <2>2, <2>3, <2>7, <2>8, <3>1, <3>2, <3>3 DEF Chain
  <2>5. (CallArgument /\ Membership)'
    BY <1>1, <1>3, <1>4, <1>8, <2>1, <2>2, <2>3
    DEF AllocAppend, Goto, TypeOK, CallArgument, Membership, LinkedPoints, history
  <2>6. (WalkPosition /\ Enabled)'
    BY <1>1, <1>3, <1>8, <2>2, <2>3
    DEF AllocAppend, Goto, TypeOK, WalkPosition, Enabled, NoOrphanInterrupt, hardware, history
  <2> QED
    BY <2>4, <2>5, <2>6
<1>9. ASSUME AllocNull(t) PROVE Rest'
  <2>1. Settled' = Settled /\ head' = head
    <3>1. /\ Settled = [g \in Endpoint |-> IF ep[t] = g THEN Null ELSE next[g]]
          /\ Settled' = next' /\ ep[t] \in Endpoint
      BY <1>1, <1>3, <1>9, <1>13 DEF AllocNull, At, Goto, TypeOK, CallArgument, Settled
    <3> QED
      BY <1>4, <1>9, <3>1 DEF AllocNull
  <2>2. OnList' = OnList
    BY <2>1, SameList
  <2>3. (Chain /\ CallArgument /\ Membership)'
    BY <1>1, <1>3, <1>9, <2>1, <2>2
    DEF AllocNull, At, Goto, TypeOK, Chain, CallArgument, Membership, LinkedPoints,
        history
  <2>4. (WalkPosition /\ Enabled)'
    BY <1>1, <1>3, <1>9, <2>2
    DEF AllocNull, Goto, TypeOK, WalkPosition, Enabled, NoOrphanInterrupt, hardware, history
  <2> QED
    BY <2>3, <2>4
<1>10. ASSUME FreeFirst(t) PROVE Rest'
  <2>1. /\ e \in Endpoint /\ e = head /\ e \in OnList /\ e \notin opened
        /\ OnList = opened \cup {e}
    BY <1>1, <1>3, <1>10 DEF FreeFirst, At, CallArgument, Membership, LinkedPoints
  <2>7. Settled = next /\ Settled' = next'
    BY <1>1, <1>10, <1>13 DEF FreeFirst, At, Goto, TypeOK
  <2>2. \A f \in OnList : next[f] # head
    BY <1>1, <2>1, <2>7, NullAssumption DEF Chain
  <2>3. head' = next[e] /\ next' = next /\ OnList' = OnList \ {e}
    BY <1>4, <1>10, <2>1, <2>2, <2>7, UnlinkFirst DEF FreeFirst, OnList
  <2>4. Chain'
    <3>1. \A f \in OnList \ {e} : next[f] # Null => next[f] # next[e]
      BY <1>1, <2>1, <2>7 DEF Chain
    <3>2. next[e] # Null => \E f \in OnList \ {e} : next[f] = Null
      BY <1>1, <2>1, <2>7, NullAssumption DEF Chain
    <3> QED
      BY <1>1, <2>3, <2>7, <3>1, <3>2 DEF Chain
  <2>5. (CallArgument /\ Membership)'
    BY <1>1, <1>3, <1>4, <1>10, <2>1, <2>3
    DEF FreeFirst, At, Goto, TypeOK, CallArgument, Membership, LinkedPoints, history
  <2>6. (WalkPosition /\ Enabled)'
    <3>1. pc'[t] = "free_unlock" /\ UNCHANGED <<irqEn, reg, ep, opened, muted>>
      BY <1>1, <1>10 DEF FreeFirst, Goto, TypeOK, hardware, history
    <3>2. WalkPosition'
      BY <1>3, <3>1 DEF WalkPosition
    <3>3. ReadCh[e] \notin irqEn
      BY <1>1, <1>10 DEF FreeFirst, At, Enabled
    <3>4. NoOrphanInterrupt'
      BY <1>1, <2>1, <2>3, <3>1, <3>3 DEF Enabled, NoOrphanInterrupt
    <3> QED
      BY <1>3, <3>1, <3>2, <3>4 DEF Enabled
  <2> QED
    BY <2>4, <2>5, <2>6
<1>11. ASSUME FreeUnlink(t) PROVE Rest'
  <2>1. /\ e \in Endpoint /\ e \in OnList /\ e \notin opened
        /\ OnList = opened \cup {e}
    BY <1>1, <1>3, <1>11 DEF FreeUnlink, At, CallArgument, Membership, LinkedPoints
  <2>10. Settled = next /\ Settled' = next'
    BY <1>1, <1>11, <1>13 DEF FreeUnlink, At, Goto, TypeOK
  <2>2. /\ c \in OnList /\ c \in Endpoint /\ c # e /\ head # e
        /\ e \in Reachable(c, next)
    BY <1>1, <1>2, <1>11, <2>10 DEF FreeUnlink, At, WalkPosition
  <2>3. next[c] = e
    BY <1>4, <1>11, <2>2, ReachableOne DEF FreeUnlink
  <2>4. \A f \in OnList : next[f] = e => f = c
    BY <1>1, <2>1, <2>2, <2>3, <2>10, NullAssumption DEF Chain
  <2>5. next' = [next EXCEPT ![c] = next[e]] /\ head' = head
    BY <1>11, <2>3 DEF FreeUnlink
  <2>6. OnList' = OnList \ {e}
    <3>1. /\ c \in Reachable(head, next)
          /\ \A f \in Reachable(head, next) : next[f] = e => f = c
      BY <2>2, <2>4, <2>10 DEF OnList
    <3>2. /\ next' \in [Endpoint -> Pointer] /\ next'[c] = next[e]
          /\ \A f \in Endpoint : f # c => next'[f] = next[f]
      BY <1>4, <2>1, <2>2, <2>5
    <3>3. Reachable(head, next') = Reachable(head, next) \ {e}
      BY <1>4, <2>1, <2>2, <2>3, <3>1, <3>2, UnlinkBehind, SMTT(40)
    <3> QED
      BY <2>5, <2>10, <3>3 DEF OnList
  <2>7. Chain'
    <3>1. \A f \in OnList \ {e} : next'[f] = IF f = c THEN next[e] ELSE next[f]
      BY <1>2, <1>4, <2>5
    <3>2. \A f \in OnList \ {e} : next'[f] # Null => next'[f] # head
      BY <1>1, <2>1, <2>10, <3>1 DEF Chain
    <3>3. \A f, g \in OnList \ {e} : next'[f] # Null /\ next'[f] = next'[g] => f = g
      BY <1>1, <2>1, <2>2, <2>10, <3>1 DEF Chain
    <3>4. \E f \in OnList \ {e} : next'[f] = Null
      <4>1. head # Null
        BY <1>4, <2>1, <2>10, ReachableNull DEF OnList
      <4>4. PICK g \in OnList : next[g] = Null
        BY <1>1, <2>10, <4>1 DEF Chain
      <4>2. CASE g = e
        BY <2>2, <3>1, <4>4, <4>2
      <4>3. CASE g # e
        BY <1>2, <2>3, <2>1, <3>1, <4>4, <4>3, NullAssumption
      <4> QED BY <4>2, <4>3
    <3> QED
      BY <2>5, <2>6, <2>10, <3>2, <3>3, <3>4 DEF Chain
  <2>8. (CallArgument /\ Membership)'
    BY <1>1, <1>3, <1>4, <1>11, <2>1, <2>6
    DEF FreeUnlink, At, Goto, TypeOK, CallArgument, Membership, LinkedPoints, history
  <2>9. (WalkPosition /\ Enabled)'
    <3>1. pc'[t] = "free_unlock" /\ UNCHANGED <<irqEn, reg, ep, opened, muted>>
      BY <1>1, <1>11 DEF FreeUnlink, Goto, TypeOK, hardware, history
    <3>2. WalkPosition'
      BY <1>3, <3>1 DEF WalkPosition
    <3>3. ReadCh[e] \notin irqEn
      BY <1>1, <1>11 DEF FreeUnlink, At, Enabled
    <3>4. NoOrphanInterrupt'
      BY <1>1, <2>1, <2>6, <3>1, <3>3 DEF Enabled, NoOrphanInterrupt
    <3> QED
      BY <1>3, <3>1, <3>2, <3>4 DEF Enabled
  <2> QED
    BY <2>7, <2>8, <2>9
<1> HIDE DEF Rest
<1>12. Rest'
  BY <1>6, <1>7, <1>8, <1>9, <1>10, <1>11
<1> QED
  BY <1>5, <1>12 DEF IInv, Rest
LEMMA StepInvariant ==
    ASSUME SingleMutator, IInv, [Next]_vars
    PROVE  IInv'
<1>1. TypeOK'
  <2>1. OnList \subseteq Endpoint
    BY OnListFacts DEF IInv
  <2> QED
    BY <2>1, TypeStep DEF IInv, CallArgument, WalkPosition, HandlerOnList
<1>2. CASE (\E c \in Channel : RemoteSend(c)) \/ IsrStep \/ UNCHANGED vars
  BY <1>1, <1>2, HandlerStep
<1>3. ASSUME NEW t \in Task, TaskStep(t) \/ TaskCall(t) PROVE IInv'
  BY <1>1, <1>3, TaskReadStep, TaskWriteStep DEF TaskStep, TaskCall
<1> QED
  BY <1>2, <1>3 DEF Next

(* Every invariant below follows from this one. *)
THEOREM Invariance ==
    ASSUME SingleMutator
    PROVE  Spec => []IInv
<1>1. Init => IInv
  BY InitInvariant
<1>2. IInv /\ [Next]_vars => IInv'
  BY StepInvariant
<1> QED
  BY <1>1, <1>2, PTL DEF Spec

(* Every state of every execution is well typed: in particular no step      *)
(* follows a null pointer, neither of the handler nor of a task.           *)
THEOREM TypeCorrect ==
    ASSUME SingleMutator
    PROVE  Spec => []TypeOK
<1>1. IInv => TypeOK
  BY DEF IInv
<1> QED
  BY <1>1, Invariance, PTL

(* The endpoint list of msgbox_amp.c is one chain that ends and holds the   *)
(* endpoints in use, whatever the handler interrupts.                      *)
THEOREM RegistryStaysIntact ==
    ASSUME SingleMutator
    PROVE  Spec => []RegistryIntact
<1>1. IInv => RegistryIntact
  BY DEF IInv, Membership, Chain, RegistryIntact, Busy, LinkedPoints
<1> QED
  BY <1>1, Invariance, PTL

(* irq_msgbox_handler calls no callback of an endpoint after                *)
(* hal_msgbox_free_channel has returned, unless it interrupts the linking   *)
(* of an endpoint whose `next' the caller has not cleared.                  *)
THEOREM CallbacksOnlyInUse ==
    ASSUME SingleMutator
    PROVE  Spec => []NoCallbackAfterFree
<1>1. IInv => NoCallbackAfterFree
  BY DEF IInv, Membership, HandlerOnList, NoCallbackAfterFree, Busy, LinkedPoints
<1> QED
  BY <1>1, Invariance, PTL

(* A receive interrupt is enabled only while some endpoint on the list      *)
(* drains its channel, and that of an endpoint in use is enabled until the  *)
(* free of another endpoint of the same channel disables it.                *)
THEOREM InterruptsAreServed ==
    ASSUME SingleMutator
    PROVE  Spec => []NoOrphanInterrupt
<1>1. IInv => NoOrphanInterrupt
  BY DEF IInv, Enabled
<1> QED
  BY <1>1, Invariance, PTL

-----------------------------------------------------------------------------
(* The driver implements MsgboxService.                                    *)

LEMMA InitRefines == Init => Promise!ServiceInit
<1> SUFFICES ASSUME Init PROVE Promise!ServiceInit
  OBVIOUS
<1>1. OnList = {}
  <2>1. TypeOK
    BY InitInvariant DEF IInv
  <2> QED
    BY <2>1, SettledPointers, ReachableNull DEF Init, OnList
<1> QED
  BY <1>1 DEF Init, Promise!ServiceInit

LEMMA StepRefines ==
    ASSUME SingleMutator, IInv, IInv', [Next]_vars
    PROVE  [Promise!ServiceNext \/ StrayStep]_Promise!serviceVars
<1> USE DEF Promise!ServiceNext, Promise!serviceVars
<1>1. TypeOK /\ HandlerOnList /\ CallArgument /\ Membership /\ Membership'
  BY DEF IInv
<1>2. OnList \subseteq Endpoint
  BY <1>1, OnListFacts
<1>3. CASE UNCHANGED <<list, fifo, received, pc, ep>>
  <2>1. OnList' = OnList
    BY <1>3 DEF list, OnList, Reachable, Closed, Settled
  <2> QED
    BY <1>3, <2>1
<1>4. ASSUME NEW c \in Channel, RemoteSend(c) PROVE Promise!ServiceNext
  <2>1. OnList' = OnList
    BY <1>4 DEF RemoteSend, list, tasks, OnList, Reachable, Closed, Settled
  <2>2. sent[c] + 1 \in 1 .. MaxWords
    BY <1>1, <1>4, BoundAssumption DEF RemoteSend, TypeOK
  <2>3. Promise!Send(c)
    BY <1>4, <2>1, <2>2 DEF RemoteSend, isr, Promise!Send
  <2> QED
    BY <2>3
<1>5. CASE IsrRead
  <2>1. OnList' = OnList
    BY <1>5 DEF IsrRead, list, tasks, OnList, Reachable, Closed, Settled
  <2>2. isrCur \in Endpoint /\ (isrCur \in OnList \/ StaleLink)
    BY <1>1, <1>5 DEF IsrRead, HandlerOnList
  <2>3. Promise!Deliver(isrCur)
    BY <1>5, <2>1 DEF IsrRead, Promise!Deliver
  <2> QED
    BY <1>2, <2>2, <2>3 DEF Promise!Receive, StrayStep
<1>6. CASE IsrEnter \/ IsrDrained \/ IsrClear \/ IsrUnlock \/ UNCHANGED vars
  BY <1>3, <1>6 DEF IsrEnter, IsrDrained, IsrClear, IsrUnlock, vars, hardware,
     isr, tasks
<1>7. ASSUME NEW t \in Task, TaskStep(t) \/ TaskCall(t)
      PROVE  [Promise!ServiceNext \/ StrayStep]_Promise!serviceVars
  <2>1. UNCHANGED <<fifo, received>>
    BY <1>7 DEF TaskStep, TaskCall, AllocCall, AllocLock, AllocFirst, AllocWalk,
       AllocAppend, AllocNull, AllocUnlock, EnableRead, EnableWrite, FreeCall,
       DisableRead, DisableWrite, FreeLock, FreeFirst, FreeSeek, FreeWalk,
       FreeUnlink, FreeUnlock, hardware, isr
  <2>2. \A u \in Task : u = t
    BY DEF SingleMutator
  <2> DEFINE linked == IF pc[t] \in LinkedPoints THEN {ep[t]} ELSE {}
  <2>3. OnList = opened \cup linked /\ OnList' = opened' \cup linked'
    BY <1>1, <2>2 DEF Membership
  <2>4. \/ OnList' = OnList
        \/ \E e \in Endpoint : e \notin OnList /\ OnList' = OnList \cup {e}
        \/ \E e \in Endpoint : e \in OnList /\ OnList' = OnList \ {e}
    <3> USE DEF At, Goto, LinkedPoints, history
    <3>1. pc \in [Task -> {"idle"} \cup AllocPoints \cup FreePoints]
      BY <1>1 DEF TypeOK
    <3>2. CASE AllocFirst(t) \/ AllocAppend(t)
      <4>1. /\ ep[t] \in Endpoint \ opened /\ ep' = ep /\ opened' = opened
            /\ pc[t] = "alloc_walk" /\ pc'[t] = "alloc_null"
        BY <1>1, <3>1, <3>2 DEF AllocFirst, AllocAppend, CallArgument
      <4> QED
        BY <2>3, <4>1
    <3>3. CASE FreeFirst(t) \/ FreeUnlink(t)
      <4>1. /\ ep[t] \in Endpoint \ opened /\ ep' = ep /\ opened' = opened
            /\ pc[t] \in {"free_first", "free_walk"} /\ pc'[t] = "free_unlock"
        BY <1>1, <3>1, <3>3 DEF FreeFirst, FreeUnlink, CallArgument
      <4> QED
        BY <2>3, <4>1
    <3>4. CASE EnableWrite(t)
      BY <2>3, <3>1, <3>4 DEF EnableWrite
    <3>5. CASE \E e \in Endpoint : FreeCall(t, e)
      BY <1>1, <2>3, <3>1, <3>5 DEF FreeCall, TypeOK
    <3>6. CASE \E e \in Endpoint, stale \in StaleNext : AllocCall(t, e, stale)
      BY <2>3, <3>1, <3>6 DEF AllocCall
    <3>7. CASE \/ AllocLock(t) \/ AllocWalk(t) \/ AllocNull(t) \/ AllocUnlock(t)
               \/ EnableRead(t) \/ DisableRead(t) \/ DisableWrite(t)
               \/ FreeLock(t) \/ FreeSeek(t) \/ FreeWalk(t) \/ FreeUnlock(t)
      <4>1. /\ ep' = ep /\ opened' = opened
            /\ pc[t] \in LinkedPoints <=> pc'[t] \in LinkedPoints
        BY <3>1, <3>7 DEF AllocLock, AllocWalk, AllocNull, AllocUnlock, EnableRead,
           DisableRead, DisableWrite, FreeLock, FreeSeek, FreeWalk, FreeUnlock
      <4> QED
        BY <2>3, <4>1
    <3> QED
      BY <1>7, <3>2, <3>3, <3>4, <3>5, <3>6, <3>7 DEF TaskStep, TaskCall
  <2> QED
    BY <2>1, <2>4 DEF Promise!Open, Promise!Close
<1> QED
  BY <1>4, <1>5, <1>6, <1>7 DEF Next, IsrStep

(* What the handler and the tasks do is, at every step, what the service    *)
(* its callers see may do: open or close one endpoint, accept one word, or  *)
(* hand the oldest word of a channel to an open endpoint of that channel -  *)
(* to any endpoint of the channel if the walk goes astray (StaleLink).      *)
THEOREM Refinement ==
    ASSUME SingleMutator
    PROVE  Spec => ImplementsService
<1>1. Init => Promise!ServiceInit
  BY InitRefines
<1>2. IInv /\ IInv' /\ [Next]_vars
         => [Promise!ServiceNext \/ StrayStep]_Promise!serviceVars
  BY StepRefines
<1> QED
  BY <1>1, <1>2, Invariance, PTL DEF Spec, ImplementsService
=============================================================================
