------------------------- MODULE KernelMutex_proofs -------------------------
(***************************************************************************)
(* Theorems about KernelMutex, for any tasks of any priorities and any     *)
(* finite number of mutexes, when no task that has a mutex waits for       *)
(* another: who has a mutex runs at the priority of those who wait for it, *)
(* the task that runs is of the highest priority, until a give goes on     *)
(* although it should not, and a priority is inherited with a mutex only.  *)
(***************************************************************************)
EXTENDS KernelMutex, FiniteSetTheorems, SequenceTheorems, TLAPS

(* What the theorems suppose of the constants. *)
Simple == MutexParameters /\ ~NestedWaits

Has(t) == {m \in Mutex : mutex[m].holder = t}

(* What is counted, and the priority that comes with it. *)
CountInv ==
    \A t \in Task :
        /\ held[t] = Cardinality(Has(t))
        /\ prio[t] >= Base[t]
        /\ held[t] = 0 => prio[t] = Base[t]

(* A task that waits has no mutex. *)
CallInv ==
    \A t \in Task :
        /\ call[t].wait = "finite" => held[t] = 0
        /\ call[t].pc = "block" => call[t].wait = "finite"
        /\ call[t].pc \in {"late", "disinherit"} => held[t] = 0

Waits(t, m) ==
    /\ call[t].pc = "try" /\ call[t].mutex = m /\ call[t].wait = "finite"
    /\ ~call[t].expired /\ t \notin ready

Ordered(list) ==
    \A i, j \in DOMAIN list :
        i < j => list[i] # list[j] /\ Base[list[i]] >= Base[list[j]]

(* A list holds tasks that wait, each once, those of high priority first.  *)
WaitInv ==
    \A m \in Mutex :
        /\ \A i \in DOMAIN mutex[m].waiting : Waits(mutex[m].waiting[i], m)
        /\ Ordered(mutex[m].waiting)

(* t is about to take m, and none of those who wait is of higher priority. *)
Heir(t, m) ==
    /\ t \in ready
    /\ call[t].pc = "try" /\ call[t].mutex = m /\ call[t].wait = "finite"
    /\ \A i \in DOMAIN mutex[m].waiting : Base[t] >= Base[mutex[m].waiting[i]]

(* A mutex that nobody has while tasks wait for it has an heir. *)
HeirInv ==
    \A m \in Mutex :
        mutex[m].holder = NoTask /\ mutex[m].waiting # <<>> =>
            \E t \in Task : Heir(t, m)

MutexInv ==
    /\ KmTypeOK /\ CountInv /\ CallInv /\ WaitInv /\ HeirInv
    /\ NoInversion /\ RunsHighest

-----------------------------------------------------------------------------
(* Sequences. *)

(* An element put in is where it was put, the others keep their order.     *)
LEMMA InsertedAt ==
    ASSUME NEW s \in Seq(Task), NEW k \in 1 .. Len(s) + 1, NEW x \in Task
    PROVE  /\ InsertAt(s, k, x) \in Seq(Task)
           /\ Len(InsertAt(s, k, x)) = Len(s) + 1
           /\ \A i \in 1 .. Len(s) + 1 :
                InsertAt(s, k, x)[i] = IF i < k THEN s[i]
                                       ELSE IF i = k THEN x ELSE s[i - 1]
<1> DEFINE l == SubSeq(s, 1, k - 1)
           r == SubSeq(s, k, Len(s))
<1>1. /\ l \in Seq(Task) /\ Len(l) = k - 1
      /\ \A i \in 1 .. k - 1 : l[i] = s[i]
  OBVIOUS
<1>2. /\ r \in Seq(Task) /\ Len(r) = Len(s) - k + 1
      /\ \A i \in 1 .. Len(s) - k + 1 : r[i] = s[k + i - 1]
  <2>1. \A i \in k .. Len(s) : s[i] \in Task
    OBVIOUS
  <2>2. /\ r \in Seq(Task)
        /\ Len(r) = IF k <= Len(s) THEN Len(s) - k + 1 ELSE 0
        /\ \A i \in 1 .. Len(s) - k + 1 : r[i] = s[k + i - 1]
    BY <2>1, SubSeqProperties
  <2> QED BY <2>2
<1> HIDE DEF l, r
<1>3. /\ l \o <<x>> \in Seq(Task) /\ Len(l \o <<x>>) = k
      /\ \A i \in 1 .. k : (l \o <<x>>)[i] = IF i < k THEN s[i] ELSE x
  BY <1>1
<1> DEFINE lx == l \o <<x>>
<1> HIDE DEF lx
<1>4. /\ lx \o r \in Seq(Task) /\ Len(lx \o r) = Len(s) + 1
      /\ \A i \in 1 .. Len(s) + 1 :
           (lx \o r)[i] = IF i <= k THEN lx[i] ELSE r[i - k]
  <2>1. /\ lx \in Seq(Task) /\ Len(lx) = k /\ r \in Seq(Task)
        /\ k + Len(r) = Len(s) + 1
    BY <1>2, <1>3 DEF lx
  <2>2. /\ lx \o r \in Seq(Task) /\ Len(lx \o r) = Len(lx) + Len(r)
        /\ \A i \in 1 .. Len(lx) + Len(r) :
             (lx \o r)[i] = IF i <= Len(lx) THEN lx[i] ELSE r[i - Len(lx)]
    BY <2>1, ConcatProperties
  <2> QED BY <2>1, <2>2
<1>5. InsertAt(s, k, x) = lx \o r
  BY DEF InsertAt, l, r, lx
<1>6. \A i \in 1 .. Len(s) + 1 :
        (lx \o r)[i] = IF i < k THEN s[i] ELSE IF i = k THEN x ELSE s[i - 1]
  <2> SUFFICES ASSUME NEW i \in 1 .. Len(s) + 1
      PROVE (lx \o r)[i] = IF i < k THEN s[i] ELSE IF i = k THEN x ELSE s[i - 1]
    OBVIOUS
  <2>1. CASE i <= k
    BY <2>1, <1>3, <1>4 DEF lx
  <2>2. CASE ~(i <= k)
    <3> DEFINE j == i - k
    <3>1. j \in 1 .. Len(s) - k + 1 /\ k + j - 1 = i - 1
      BY <2>2
    <3>2. (lx \o r)[i] = r[j]
      BY <2>2, <1>4
    <3> HIDE DEF j
    <3>3. r[j] = s[k + j - 1]
      BY <3>1, <1>2
    <3>4. (lx \o r)[i] = s[i - 1]
      BY <3>1, <3>2, <3>3
    <3>5. ~(i < k) /\ i # k
      BY <2>2
    <3> QED BY <3>4, <3>5
  <2> QED BY <2>1, <2>2
<1> QED BY <1>4, <1>5, <1>6

(* The others move up to where one was taken out.                          *)
LEMMA RemovedAt ==
    ASSUME NEW s \in Seq(Task), NEW k \in 1 .. Len(s)
    PROVE  /\ RemoveAt(s, k) \in Seq(Task)
           /\ Len(RemoveAt(s, k)) = Len(s) - 1
           /\ \A i \in 1 .. Len(s) - 1 :
                RemoveAt(s, k)[i] = IF i < k THEN s[i] ELSE s[i + 1]
<1> DEFINE l == SubSeq(s, 1, k - 1)
           r == SubSeq(s, k + 1, Len(s))
<1>1. /\ l \in Seq(Task) /\ Len(l) = k - 1
      /\ \A i \in 1 .. k - 1 : l[i] = s[i]
  OBVIOUS
<1>2. /\ r \in Seq(Task) /\ Len(r) = Len(s) - k
      /\ \A i \in 1 .. Len(s) - k : r[i] = s[k + i]
  <2>1. \A i \in k + 1 .. Len(s) : s[i] \in Task
    OBVIOUS
  <2>2. /\ r \in Seq(Task)
        /\ Len(r) = IF k + 1 <= Len(s) THEN Len(s) - (k + 1) + 1 ELSE 0
        /\ \A i \in 1 .. Len(s) - (k + 1) + 1 : r[i] = s[(k + 1) + i - 1]
    BY <2>1, SubSeqProperties
  <2>3. \A i \in 1 .. Len(s) - k : (k + 1) + i - 1 = k + i
    OBVIOUS
  <2> QED BY <2>2, <2>3
<1> HIDE DEF l, r
<1>3. /\ l \o r \in Seq(Task) /\ Len(l \o r) = Len(s) - 1
      /\ \A i \in 1 .. Len(s) - 1 :
           (l \o r)[i] = IF i < k THEN l[i] ELSE r[i - (k - 1)]
  <2>1. /\ Len(l) + Len(r) = Len(s) - 1
        /\ \A i \in 1 .. Len(s) - 1 : i < k <=> i <= Len(l)
    BY <1>1, <1>2
  <2>2. /\ l \o r \in Seq(Task) /\ Len(l \o r) = Len(l) + Len(r)
        /\ \A i \in 1 .. Len(l) + Len(r) :
             (l \o r)[i] = IF i <= Len(l) THEN l[i] ELSE r[i - Len(l)]
    BY <1>1, <1>2, ConcatProperties
  <2> QED BY <1>1, <2>1, <2>2
<1>4. RemoveAt(s, k) = l \o r
  BY DEF RemoveAt, l, r
<1>5. \A i \in 1 .. Len(s) - 1 :
        (l \o r)[i] = IF i < k THEN s[i] ELSE s[i + 1]
  <2> SUFFICES ASSUME NEW i \in 1 .. Len(s) - 1
      PROVE (l \o r)[i] = IF i < k THEN s[i] ELSE s[i + 1]
    OBVIOUS
  <2>1. CASE i < k
    BY <2>1, <1>1, <1>3
  <2>2. CASE ~(i < k)
    <3> DEFINE j == i - (k - 1)
    <3>1. j \in 1 .. Len(s) - k /\ k + j = i + 1
      BY <2>2
    <3>2. (l \o r)[i] = r[j]
      BY <2>2, <1>3
    <3> HIDE DEF j
    <3>3. r[j] = s[k + j]
      BY <3>1, <1>2
    <3>4. (l \o r)[i] = s[i + 1]
      BY <3>1, <3>2, <3>3
    <3>5. ~(i < k)
      BY <2>2
    <3> QED BY <3>4, <3>5
  <2> QED BY <2>1, <2>2
<1> QED BY <1>3, <1>4, <1>5

-----------------------------------------------------------------------------
(* Types. *)

Mutexes == [Mutex -> [holder : Task \cup {NoTask}, depth : 0..MaxDepth,
                      waiting : Seq(Task)]]
Calls == [pc : Points, mutex : Mutex, expired : BOOLEAN,
          inherited : BOOLEAN, wait : {"none", "finite"}]

LEMMA Fields ==
    ASSUME Simple, KmTypeOK
    PROVE  /\ \A t \in Task :
                /\ prio[t] \in Nat /\ Base[t] \in Nat /\ held[t] \in Nat
                /\ call[t] \in Calls
           /\ \A m \in Mutex :
                /\ mutex[m].holder \in Task \cup {NoTask}
                /\ mutex[m].depth \in 0 .. MaxDepth
                /\ mutex[m].waiting \in Seq(Task)
<1>1. \A t \in Task : Base[t] \in Nat
  BY DEF Simple, MutexParameters
<1>2. \A t \in Task : prio[t] \in {Base[u] : u \in Task}
  BY DEF KmTypeOK
<1>3. \A t \in Task : prio[t] \in Nat
  BY <1>1, <1>2
<1>4. Cardinality(Mutex) \in Nat
  BY FS_CardinalityType DEF Simple, MutexParameters
<1>5. \A t \in Task : held[t] \in Nat
  BY <1>4 DEF KmTypeOK
<1> QED BY <1>1, <1>3, <1>5 DEF KmTypeOK, Calls

(* A task has as many mutexes as it counts. *)
LEMMA Counted ==
    ASSUME Simple, KmTypeOK, CountInv, NEW t \in Task
    PROVE  /\ IsFiniteSet(Has(t))
           /\ held[t] = Cardinality(Has(t))
           /\ \A m \in Mutex : mutex[m].holder = t => held[t] >= 1
           /\ held[t] = 1 => \A m, n \in Has(t) : m = n
<1>1. IsFiniteSet(Has(t)) /\ Cardinality(Has(t)) \in Nat
  BY FS_Subset, FS_CardinalityType DEF Simple, MutexParameters, Has
<1>2. held[t] = Cardinality(Has(t))
  BY DEF CountInv
<1>3. ASSUME NEW m \in Mutex, mutex[m].holder = t
      PROVE  held[t] >= 1
  <2>1. m \in Has(t)
    BY <1>3 DEF Has
  <2>2. Cardinality(Has(t)) # 0
    BY <1>1, <2>1, FS_EmptySet
  <2> QED BY <1>1, <1>2, <2>2
<1>4. ASSUME held[t] = 1
      PROVE  \A m, n \in Has(t) : m = n
  <2>1. PICK x : Has(t) = {x}
    BY <1>1, <1>2, <1>4, FS_Singleton
  <2> QED BY <2>1
<1> QED BY <1>1, <1>2, <1>3, <1>4

LEMMA TypeInit == ASSUME Simple PROVE Init => KmTypeOK
<1> SUFFICES ASSUME Init PROVE KmTypeOK
  OBVIOUS
<1>1. Cardinality(Mutex) \in Nat
  BY FS_CardinalityType DEF Simple, MutexParameters
<1>2. (CHOOSE m \in Mutex : TRUE) \in Mutex
  BY DEF Simple, MutexParameters
<1>3. mutex \in Mutexes
  BY DEF Init, Mutexes, Simple, MutexParameters
<1>4. call \in [Task -> Calls]
  BY <1>2 DEF Init, Calls, NoCall, Points
<1>5. prio \in [Task -> {Base[t] : t \in Task}]
  BY DEF Init, Simple, MutexParameters
<1>6. held \in [Task -> 0..Cardinality(Mutex)]
  BY <1>1 DEF Init
<1>7. current \in ready /\ ready \subseteq Task /\ fallen \in BOOLEAN
  BY DEF Init, Highest
<1> QED BY <1>3, <1>4, <1>5, <1>6, <1>7 DEF KmTypeOK, Mutexes, Calls

(* The call of one task changes, and how. *)
LEMMA CallStep ==
    ASSUME KmTypeOK, NEW t \in Task
    PROVE  /\ \A pt \in Points : Goto(t, pt) =>
                /\ call' = [call EXCEPT ![t] = [call[t] EXCEPT !.pc = pt]]
                /\ call' \in [Task -> Calls]
           /\ Return(t) => /\ call' = [call EXCEPT ![t] = NoCall(call[t].mutex)]
                           /\ call' \in [Task -> Calls]
<1>1. call \in [Task -> Calls]
  BY DEF KmTypeOK, Calls
<1>2. ASSUME NEW pt \in Points, Goto(t, pt)
      PROVE  /\ call' = [call EXCEPT ![t] = [call[t] EXCEPT !.pc = pt]]
             /\ call' \in [Task -> Calls]
  BY <1>1, <1>2 DEF Goto, Calls
<1>3. ASSUME Return(t)
      PROVE  /\ call' = [call EXCEPT ![t] = NoCall(call[t].mutex)]
             /\ call' \in [Task -> Calls]
  BY <1>1, <1>3 DEF Return, Calls, NoCall, Points
<1> QED BY <1>2, <1>3

(* What a step does with the mutexes: one is taken, given back, or a task  *)
(* joins or leaves the list of those who wait.                             *)
LEMMA TakeEffect ==
    ASSUME Simple, KmTypeOK, NEW t \in Task, TryTakes(t)
    PROVE  LET m == call[t].mutex IN
           /\ m \in Mutex /\ mutex[m].holder = NoTask
           /\ mutex' \in Mutexes
           /\ mutex'[m].holder = t
           /\ \A n \in Mutex : /\ mutex'[n].waiting = mutex[n].waiting
                               /\ n # m => mutex'[n] = mutex[n]
<1>1. call[t].mutex \in Mutex
  BY DEF KmTypeOK
<1>2. mutex' = [mutex EXCEPT ![call[t].mutex] =
                  [mutex[call[t].mutex] EXCEPT !.holder = t, !.depth = 1]]
  BY <1>1 DEF TryTakes, KmTypeOK
<1>3. 1 \in 0 .. MaxDepth
  BY DEF Simple, MutexParameters
<1>4. mutex \in Mutexes
  BY DEF KmTypeOK, Mutexes
<1>5. [mutex[call[t].mutex] EXCEPT !.holder = t, !.depth = 1]
        \in [holder : Task \cup {NoTask}, depth : 0..MaxDepth,
             waiting : Seq(Task)]
  BY <1>1, <1>3, <1>4 DEF Mutexes
<1>6. mutex' \in Mutexes
  BY <1>1, <1>2, <1>4, <1>5 DEF Mutexes
<1>7. mutex[call[t].mutex].holder = NoTask
  BY DEF TryTakes
<1> DEFINE m == call[t].mutex
           taken == [mutex[m] EXCEPT !.holder = t, !.depth = 1]
<1>8. taken.holder = t /\ taken.waiting = mutex[m].waiting
  BY <1>1, <1>4 DEF Mutexes
<1>9. /\ mutex'[m] = taken
      /\ \A n \in Mutex : n # m => mutex'[n] = mutex[n]
  <2> HIDE DEF taken
  <2>1. mutex' = [mutex EXCEPT ![m] = taken]
    BY <1>2 DEF taken
  <2> QED BY <1>1, <1>4, <2>1 DEF Mutexes
<1> HIDE DEF taken, m
<1>10. \A n \in Mutex : mutex'[n].waiting = mutex[n].waiting
  BY <1>8, <1>9
<1> QED BY <1>1, <1>6, <1>7, <1>8, <1>9, <1>10 DEF m

LEMMA DepthEffect ==
    ASSUME Simple, KmTypeOK, NEW t \in Task, TakeAgain(t) \/ GiveOne(t)
    PROVE  /\ mutex' \in Mutexes
           /\ \A n \in Mutex : /\ mutex'[n].waiting = mutex[n].waiting
                               /\ mutex'[n].holder = mutex[n].holder
<1>1. PICK m \in Mutex, d \in 0 .. MaxDepth :
        mutex' = [mutex EXCEPT ![m].depth = d]
  <2>1. ASSUME NEW m \in Mutex
        PROVE  mutex[m].depth \in 0 .. MaxDepth /\ MaxDepth \in Nat
    BY DEF KmTypeOK, Simple, MutexParameters
  <2>2. CASE TakeAgain(t)
    <3>1. PICK m \in Mutex : /\ mutex[m].depth < MaxDepth
                             /\ mutex' = [mutex EXCEPT ![m].depth = @ + 1]
      BY <2>2 DEF TakeAgain, Simple, MutexParameters
    <3>2. mutex[m].depth + 1 \in 0 .. MaxDepth
      BY <2>1, <3>1
    <3> QED BY <3>1, <3>2
  <2>3. CASE GiveOne(t)
    <3>1. PICK m \in Mutex : /\ mutex[m].depth > 1
                             /\ mutex' = [mutex EXCEPT ![m].depth = @ - 1]
      BY <2>3 DEF GiveOne
    <3>2. mutex[m].depth - 1 \in 0 .. MaxDepth
      BY <2>1, <3>1
    <3> QED BY <3>1, <3>2
  <2> QED BY <2>2, <2>3
<1>2. mutex \in Mutexes
  BY DEF KmTypeOK, Mutexes
<1> QED BY <1>1, <1>2 DEF Mutexes

LEMMA GiveEffect ==
    ASSUME Simple, KmTypeOK, NEW t \in Task, NEW m \in Mutex,
           mutex' = [mutex EXCEPT ![m] =
               [holder |-> NoTask, depth |-> 0,
                waiting |-> IF mutex[m].waiting = <<>> THEN mutex[m].waiting
                            ELSE Tail(mutex[m].waiting)]]
    PROVE  /\ mutex' \in Mutexes
           /\ mutex'[m].holder = NoTask
           /\ mutex[m].waiting = <<>> => mutex'[m].waiting = <<>>
           /\ mutex[m].waiting # <<>> =>
                /\ mutex[m].waiting[1] = Head(mutex[m].waiting)
                /\ mutex[m].waiting[1] \in Task
                /\ Len(mutex'[m].waiting) = Len(mutex[m].waiting) - 1
                /\ \A i \in DOMAIN mutex'[m].waiting :
                     /\ i + 1 \in DOMAIN mutex[m].waiting
                     /\ mutex'[m].waiting[i] = mutex[m].waiting[i + 1]
           /\ \A n \in Mutex : n # m => mutex'[n] = mutex[n]
<1>1. mutex \in Mutexes /\ mutex[m].waiting \in Seq(Task)
  BY DEF KmTypeOK, Mutexes
<1> DEFINE list == mutex[m].waiting
           rest == IF list = <<>> THEN list ELSE Tail(list)
<1>2. rest \in Seq(Task)
  BY <1>1
<1>3. list # <<>> =>
        /\ list[1] = Head(list) /\ list[1] \in Task
        /\ Len(rest) = Len(list) - 1
        /\ \A i \in DOMAIN rest : i + 1 \in DOMAIN list /\ rest[i] = list[i + 1]
  BY <1>1
<1>4. 0 \in 0 .. MaxDepth
  BY DEF Simple, MutexParameters
<1>5. mutex' = [mutex EXCEPT ![m] =
                  [holder |-> NoTask, depth |-> 0, waiting |-> rest]]
  OBVIOUS
<1> HIDE DEF rest
<1>6. mutex' \in Mutexes /\ mutex'[m].holder = NoTask
      /\ mutex'[m].waiting = rest
      /\ \A n \in Mutex : n # m => mutex'[n] = mutex[n]
  BY <1>1, <1>2, <1>4, <1>5 DEF Mutexes
<1>7. list = <<>> => rest = <<>>
  BY DEF rest
<1> QED BY <1>3, <1>6, <1>7

LEMMA BlockEffect ==
    ASSUME Simple, KmTypeOK, NEW t \in Task, NEW m \in Mutex,
           NEW k \in Place(mutex[m].waiting, t),
           mutex' = [mutex EXCEPT ![m].waiting = InsertAt(@, k, t)]
    PROVE  /\ mutex' \in Mutexes
           /\ \A n \in Mutex : /\ mutex'[n].holder = mutex[n].holder
                               /\ n # m => mutex'[n] = mutex[n]
           /\ mutex'[m].waiting = InsertAt(mutex[m].waiting, k, t)
<1>1. mutex \in Mutexes /\ mutex[m].waiting \in Seq(Task)
  BY DEF KmTypeOK, Mutexes
<1>2. k \in 1 .. Len(mutex[m].waiting) + 1
  BY DEF Place
<1>3. InsertAt(mutex[m].waiting, k, t) \in Seq(Task)
  BY <1>1, <1>2, InsertedAt
<1> QED BY <1>1, <1>3 DEF Mutexes

LEMMA LeaveEffect ==
    ASSUME Simple, KmTypeOK, NEW m \in Mutex, NEW k \in DOMAIN mutex[m].waiting,
           mutex' = [mutex EXCEPT ![m].waiting = RemoveAt(@, k)]
    PROVE  /\ mutex' \in Mutexes
           /\ \A n \in Mutex : /\ mutex'[n].holder = mutex[n].holder
                               /\ n # m => mutex'[n] = mutex[n]
           /\ mutex'[m].waiting = RemoveAt(mutex[m].waiting, k)
<1>1. mutex \in Mutexes /\ mutex[m].waiting \in Seq(Task)
  BY DEF KmTypeOK, Mutexes
<1>2. k \in 1 .. Len(mutex[m].waiting)
  BY <1>1
<1>3. RemoveAt(mutex[m].waiting, k) \in Seq(Task)
  BY <1>1, <1>2, RemovedAt
<1> QED BY <1>1, <1>3 DEF Mutexes

(* What a step does with the priorities. *)
LEMMA BlockRaises ==
    ASSUME Simple, KmTypeOK, NEW t \in Task, NEW h \in Task,
           prio' = Inherit(h, t)
    PROVE  /\ prio' \in [Task -> {Base[u] : u \in Task}]
           /\ prio'[h] >= prio[t] /\ prio'[h] >= prio[h]
           /\ \A u \in Task : u # h => prio'[u] = prio[u]
<1>1. prio \in [Task -> {Base[u] : u \in Task}]
  BY DEF KmTypeOK
<1>2. prio[h] \in Nat /\ prio[t] \in Nat /\ h # NoTask
  BY Fields DEF Simple, MutexParameters
<1>3. CASE prio[h] < prio[t]
  <2>1. prio' = [prio EXCEPT ![h] = prio[t]]
    BY <1>2, <1>3 DEF Inherit
  <2> QED BY <1>1, <1>2, <1>3, <2>1
<1>4. CASE ~(prio[h] < prio[t])
  <2>1. prio' = prio
    BY <1>4 DEF Inherit
  <2> QED BY <1>1, <1>2, <1>4, <2>1
<1> QED BY <1>3, <1>4

LEMMA TimeoutLowers ==
    ASSUME Simple, KmTypeOK, NEW t \in Task, DisinheritAfterTimeout(t)
    PROVE  LET m == call[t].mutex
               h == mutex[m].holder
           IN  /\ m \in Mutex
               /\ prio' \in [Task -> {Base[u] : u \in Task}]
               /\ prio' # prio => h \in Task /\ held[h] = 1
               /\ \A u \in Task : u # h => prio'[u] = prio[u]
               /\ h \in Task /\ held[h] = 1 =>
                    /\ prio'[h] >= Base[h]
                    /\ \/ prio'[h] = Base[h]
                       \/ /\ mutex[m].waiting # <<>>
                          /\ prio'[h] = prio[mutex[m].waiting[1]]
                    /\ mutex[m].waiting # <<>> =>
                          prio'[h] >= prio[mutex[m].waiting[1]]
<1> DEFINE m == call[t].mutex
           h == mutex[m].holder
           list == mutex[m].waiting
           floor == IF list = <<>> THEN 0 ELSE prio[Head(list)]
           x == IF floor > Base[h] THEN floor ELSE Base[h]
<1>1. m \in Mutex /\ h \in Task \cup {NoTask} /\ list \in Seq(Task)
  BY Fields DEF Calls
<1>2. prio \in [Task -> {Base[u] : u \in Task}] /\ NoTask \notin Task
  BY DEF KmTypeOK, Simple, MutexParameters
<1>3. prio' = IF h # NoTask /\ held[h] = 1 THEN [prio EXCEPT ![h] = x] ELSE prio
  BY DEF DisinheritAfterTimeout
<1>4. list # <<>> => Head(list) = list[1] /\ list[1] \in Task
  BY <1>1
<1> HIDE DEF m, h, list
<1>5. CASE h \in Task /\ held[h] = 1
  <2>1. prio' = [prio EXCEPT ![h] = x]
    BY <1>2, <1>3, <1>5
  <2>2. Base[h] \in Nat /\ \A u \in Task : prio[u] \in Nat
    BY <1>5, Fields
  <2>3. floor \in Nat
    BY <1>4, <2>2
  <2>4. /\ x >= Base[h] /\ x >= floor
        /\ x = Base[h] \/ (list # <<>> /\ x = prio[list[1]])
        /\ list # <<>> => floor = prio[list[1]]
    BY <1>4, <2>2, <2>3
  <2>5. x \in {Base[u] : u \in Task}
    BY <1>2, <1>4, <1>5, <2>4
  <2> HIDE DEF x, floor
  <2>6. prio' \in [Task -> {Base[u] : u \in Task}] /\ prio'[h] = x
        /\ \A u \in Task : u # h => prio'[u] = prio[u]
    BY <1>2, <1>5, <2>1, <2>5
  <2> QED BY <1>1, <1>5, <2>4, <2>6 DEF m, h, list
<1>6. CASE ~(h \in Task /\ held[h] = 1)
  <2>1. prio' = prio
    BY <1>1, <1>3, <1>6
  <2> QED BY <1>1, <1>2, <1>6, <2>1 DEF m, h, list
<1> QED BY <1>5, <1>6

(* The give of a mutex, part by part. *)
LEMMA GiveIs ==
    ASSUME Simple, KmTypeOK, NEW t \in Task, Give(t)
    PROVE  \E m \in Mutex :
             /\ mutex[m].holder = t
             /\ prio' = Disinherit(t)
             /\ prio' \in [Task -> {Base[u] : u \in Task}]
             /\ held' = [held EXCEPT ![t] = @ - 1]
             /\ mutex' = [mutex EXCEPT ![m] =
                  [holder |-> NoTask, depth |-> 0,
                   waiting |-> IF mutex[m].waiting = <<>>
                               THEN mutex[m].waiting
                               ELSE Tail(mutex[m].waiting)]]
             /\ ready' = ready \cup (IF mutex[m].waiting = <<>> THEN {}
                                     ELSE {mutex[m].waiting[1]})
             /\ ready' \subseteq Task
             /\ current' \in ready'
             /\ fallen => fallen'
             /\ fallen' \in BOOLEAN
             /\ ~fallen' =>
                  \/ current' \in Highest(ready', prio')
                  \/ current' = current /\ prio' = prio /\ ready' = ready
             /\ UNCHANGED call
<1>1. PICK m \in Mutex :
        LET list == mutex[m].waiting
            woken == IF list = <<>> THEN {} ELSE {Head(list)}
            higher == \E u \in woken : prio'[u] > prio'[t]
        IN  /\ mutex[m].holder = t
            /\ prio' = Disinherit(t)
            /\ held' = [held EXCEPT ![t] = @ - 1]
            /\ mutex' = [mutex EXCEPT ![m] =
                 [holder |-> NoTask, depth |-> 0,
                  waiting |-> IF list = <<>> THEN list ELSE Tail(list)]]
            /\ ready' = ready \cup woken
            /\ IF higher \/ (woken = {} /\ prio' # prio)
               THEN Yield ELSE UNCHANGED current
            /\ fallen' = \/ fallen
                         \/ /\ woken # {} /\ ~higher
                            /\ current \notin Highest(ready', prio')
  BY DEF Give
<1> DEFINE list == mutex[m].waiting
           woken == IF list = <<>> THEN {} ELSE {Head(list)}
           higher == \E u \in woken : prio'[u] > prio'[t]
<1>2. list \in Seq(Task)
  BY Fields
<1>3. list # <<>> => Head(list) = list[1] /\ list[1] \in Task
  BY <1>2
<1>4. ready' = ready \cup woken /\ woken \subseteq Task
  BY <1>1, <1>3
<1>5. ready' \subseteq Task /\ current \in ready'
  BY <1>4 DEF KmTypeOK
<1>6. IF higher \/ (woken = {} /\ prio' # prio)
      THEN Yield ELSE UNCHANGED current
  BY <1>1
<1>7. fallen' = \/ fallen
                \/ /\ woken # {} /\ ~higher
                   /\ current \notin Highest(ready', prio')
  BY <1>1
<1>8. fallen \in BOOLEAN
  BY DEF KmTypeOK
<1>9. prio' \in [Task -> {Base[u] : u \in Task}]
  BY <1>1 DEF KmTypeOK, Disinherit
<1>10. UNCHANGED call
  BY DEF Give
<1>11. ready' = ready \cup (IF mutex[m].waiting = <<>> THEN {}
                            ELSE {mutex[m].waiting[1]})
  BY <1>3, <1>4
<1>12. mutex[m].holder = t /\ prio' = Disinherit(t)
       /\ held' = [held EXCEPT ![t] = @ - 1]
       /\ mutex' = [mutex EXCEPT ![m] =
                 [holder |-> NoTask, depth |-> 0,
                  waiting |-> IF list = <<>> THEN list ELSE Tail(list)]]
  BY <1>1
<1> HIDE DEF woken, higher
<1>13. current' \in ready'
  BY <1>5, <1>6 DEF Yield, Highest
<1>14. /\ fallen => fallen'
       /\ fallen' \in BOOLEAN
  BY <1>7, <1>8
<1>15. ASSUME ~fallen'
       PROVE  \/ current' \in Highest(ready', prio')
              \/ current' = current /\ prio' = prio /\ ready' = ready
  <2>1. CASE higher \/ (woken = {} /\ prio' # prio)
    BY <1>6, <2>1 DEF Yield
  <2>2. CASE ~higher /\ woken = {} /\ prio' = prio
    BY <1>4, <1>6, <2>2
  <2>3. CASE ~higher /\ woken # {}
    BY <1>6, <1>7, <1>15, <2>3
  <2> QED BY <2>1, <2>2, <2>3
<1> QED BY <1>5, <1>9, <1>10, <1>11, <1>12, <1>13, <1>14, <1>15

(* A task that is made ready. *)
LEMMA ReadiedEffect ==
    ASSUME Simple, KmTypeOK, NEW t \in Task, Readied(t), prio' = prio
    PROVE  /\ ready' = ready \cup {t} /\ ready' \subseteq Task
           /\ current' \in ready'
           /\ current \in Highest(ready, prio) =>
                 current' \in Highest(ready', prio')
<1>1. ready' = ready \cup {t} /\ ready' \subseteq Task /\ current \in ready
  BY DEF Readied, KmTypeOK
<1>2. \A u \in Task : prio[u] \in Nat
  BY Fields
<1>3. CASE t \notin ready /\ prio[t] >= prio[current]
  BY <1>1, <1>3 DEF Readied, Highest
<1>4. CASE ~(t \notin ready /\ prio[t] >= prio[current])
  <2>1. current' = current
    BY <1>4 DEF Readied
  <2>2. t \in ready \/ prio[t] <= prio[current]
    BY <1>1, <1>2, <1>4
  <2> QED BY <1>1, <2>1, <2>2 DEF Highest
<1> QED BY <1>3, <1>4

(* A task whose time is over leaves the list it is on.                     *)
LEMMA TimeEffect ==
    ASSUME Simple, KmTypeOK, NEW t \in Task, TimePasses(t)
    PROVE  /\ mutex' \in Mutexes
           /\ call' \in [Task -> Calls]
           /\ call' = [call EXCEPT ![t] = [call[t] EXCEPT !.expired = TRUE]]
           /\ \A n \in Mutex : mutex'[n].holder = mutex[n].holder
           /\ t \in ready => mutex' = mutex
           /\ t \notin ready =>
                \E k \in DOMAIN mutex[call[t].mutex].waiting :
                  /\ mutex[call[t].mutex].waiting[k] = t
                  /\ mutex'[call[t].mutex].waiting =
                        RemoveAt(mutex[call[t].mutex].waiting, k)
                  /\ \A n \in Mutex : n # call[t].mutex => mutex'[n] = mutex[n]
<1>1. call \in [Task -> Calls] /\ mutex \in Mutexes
  BY DEF KmTypeOK, Calls, Mutexes
<1>2. call' = [call EXCEPT ![t] = [call[t] EXCEPT !.expired = TRUE]]
      /\ call' \in [Task -> Calls]
  BY <1>1 DEF TimePasses, Calls
<1>3. CASE t \in ready
  BY <1>1, <1>2, <1>3 DEF TimePasses
<1>4. CASE t \notin ready
  <2>1. call[t].mutex \in Mutex
    BY <1>1 DEF Calls
  <2>2. PICK k \in DOMAIN mutex[call[t].mutex].waiting :
          /\ mutex[call[t].mutex].waiting[k] = t
          /\ mutex' = [mutex EXCEPT ![call[t].mutex].waiting = RemoveAt(@, k)]
    BY <1>4 DEF TimePasses
  <2>3. /\ mutex' \in Mutexes
        /\ \A n \in Mutex : /\ mutex'[n].holder = mutex[n].holder
                            /\ n # call[t].mutex => mutex'[n] = mutex[n]
        /\ mutex'[call[t].mutex].waiting =
              RemoveAt(mutex[call[t].mutex].waiting, k)
    BY <2>1, <2>2, LeaveEffect
  <2> QED BY <1>2, <1>4, <2>2, <2>3
<1> QED BY <1>3, <1>4

(* A task that goes to sleep. *)
LEMMA SleepEffect ==
    ASSUME Simple, KmTypeOK, NEW t \in Task, Block(t)
    PROVE  LET m == call[t].mutex
               h == mutex[m].holder
           IN  /\ m \in Mutex /\ h \in Task
               /\ prio' = Inherit(h, t)
               /\ mutex' \in Mutexes
               /\ \A n \in Mutex : /\ mutex'[n].holder = mutex[n].holder
                                   /\ n # m => mutex'[n] = mutex[n]
               /\ \E k \in Place(mutex[m].waiting, t) :
                    mutex'[m].waiting = InsertAt(mutex[m].waiting, k, t)
               /\ call' = [call EXCEPT ![t] = [call[t] EXCEPT
                              !.pc = "try", !.inherited = Inherited(h, t)]]
               /\ call' \in [Task -> Calls]
<1> DEFINE m == call[t].mutex
           h == mutex[m].holder
<1>1. call \in [Task -> Calls]
  BY DEF KmTypeOK, Calls
<1>2. m \in Mutex
  BY <1>1 DEF Calls
<1>3. /\ h # NoTask
      /\ prio' = Inherit(h, t)
      /\ call' = [call EXCEPT ![t].pc = "try",
                              ![t].inherited = Inherited(h, t)]
      /\ \E k \in Place(mutex[m].waiting, t) :
           mutex' = [mutex EXCEPT ![m].waiting = InsertAt(@, k, t)]
  BY DEF Block
<1>4. h \in Task
  BY <1>2, <1>3, Fields
<1>5. Inherited(h, t) \in BOOLEAN
  BY DEF Inherited
<1> HIDE DEF h
<1>6. /\ call' = [call EXCEPT ![t] = [call[t] EXCEPT
                              !.pc = "try", !.inherited = Inherited(h, t)]]
      /\ call' \in [Task -> Calls]
  <2> DEFINE b == Inherited(h, t)
             c == [call[t] EXCEPT !.pc = "try", !.inherited = b]
  <2>1. b \in BOOLEAN
    BY <1>5
  <2>2. call' = [call EXCEPT ![t].pc = "try", ![t].inherited = b]
    BY <1>3
  <2> HIDE DEF b
  <2>3. c \in Calls
    BY <1>1, <2>1 DEF Calls, Points
  <2>4. call' = [call EXCEPT ![t] = c]
    BY <1>1, <2>2
  <2>5. call' \in [Task -> Calls]
    BY <1>1, <2>3, <2>4
  <2> QED BY <2>4, <2>5 DEF b
<1>7. PICK k \in Place(mutex[m].waiting, t) :
        mutex' = [mutex EXCEPT ![m].waiting = InsertAt(@, k, t)]
  BY <1>3
<1> HIDE DEF m
<1>8. /\ mutex' \in Mutexes
      /\ \A n \in Mutex : /\ mutex'[n].holder = mutex[n].holder
                          /\ n # m => mutex'[n] = mutex[n]
      /\ mutex'[m].waiting = InsertAt(mutex[m].waiting, k, t)
  BY <1>2, <1>7, BlockEffect
<1> QED BY <1>2, <1>3, <1>4, <1>6, <1>7, <1>8 DEF m, h

-----------------------------------------------------------------------------
(* Steps. *)

LEMMA TypeStep ==
    ASSUME Simple, KmTypeOK, CountInv, [Next]_vars
    PROVE  KmTypeOK'
<1> DEFINE Rest1 == /\ prio' \in [Task -> {Base[t] : t \in Task}]
                    /\ held' \in [Task -> 0..Cardinality(Mutex)]
           Rest2 == /\ current' \in ready' /\ ready' \subseteq Task
                    /\ fallen' \in BOOLEAN
<1>1. mutex' \in Mutexes /\ call' \in [Task -> Calls] /\ Rest1 /\ Rest2
        => KmTypeOK'
  BY DEF KmTypeOK, Mutexes, Calls
<1>2. /\ mutex \in Mutexes /\ call \in [Task -> Calls]
      /\ prio \in [Task -> {Base[t] : t \in Task}]
      /\ held \in [Task -> 0..Cardinality(Mutex)]
      /\ current \in ready /\ ready \subseteq Task /\ fallen \in BOOLEAN
  BY DEF KmTypeOK, Mutexes, Calls
<1>3. CASE Tick
  BY <1>1, <1>2, <1>3 DEF Tick, Highest
<1>4. CASE UNCHANGED vars
  BY <1>1, <1>2, <1>4 DEF vars
<1>5. ASSUME NEW t \in Task, TimePasses(t)
      PROVE  KmTypeOK'
  <2>1. Readied(t) /\ prio' = prio /\ held' = held /\ fallen' = fallen
    BY <1>5 DEF TimePasses
  <2> QED BY <1>1, <1>2, <1>5, <2>1, ReadiedEffect, TimeEffect
<1>6. ASSUME NEW t \in Task, Rested(t)
      PROVE  KmTypeOK'
  <2>1. Readied(t) /\ UNCHANGED <<mutex, prio, held, call, fallen>>
    BY <1>6 DEF Rested
  <2> QED BY <1>1, <1>2, <2>1, ReadiedEffect
<1>7. ASSUME NEW t \in Task, TaskStep(t)
      PROVE  KmTypeOK'
  <2>1. CASE Rest(t)
    BY <1>1, <1>2, <2>1 DEF Rest, Highest
  <2>2. CASE Take(t)
    <3>1. PICK m \in Mutex, wait \in {"none", "finite"} :
            call' = [call EXCEPT ![t] = [NoCall(m) EXCEPT !.pc = "try",
                                                          !.wait = wait]]
      BY <2>2 DEF Take
    <3>2. call' \in [Task -> Calls]
      BY <1>2, <3>1 DEF NoCall, Calls, Points
    <3> QED BY <1>1, <1>2, <2>2, <3>2 DEF Take
  <2>3. CASE TakeAgain(t) \/ GiveOne(t)
    BY <1>1, <1>2, <2>3, DepthEffect DEF TakeAgain, GiveOne
  <2>4. CASE TryTakes(t)
    <3> DEFINE m == call[t].mutex
    <3>1. /\ m \in Mutex /\ mutex[m].holder = NoTask
          /\ mutex' \in Mutexes
      BY <2>4, TakeEffect
    <3>2. m \notin Has(t)
      BY <3>1 DEF Has, Simple, MutexParameters
    <3>3. /\ IsFiniteSet(Has(t)) /\ held[t] = Cardinality(Has(t))
          /\ Has(t) \cup {m} \in SUBSET Mutex
      BY <3>1, Counted DEF Has
    <3>4. Cardinality(Has(t) \cup {m}) = held[t] + 1
      BY <3>2, <3>3, FS_AddElement
    <3>5. Cardinality(Has(t) \cup {m}) <= Cardinality(Mutex)
      BY <3>3, FS_Subset DEF Simple, MutexParameters
    <3>6. held[t] \in Nat /\ Cardinality(Mutex) \in Nat
      BY Fields, FS_CardinalityType DEF Simple, MutexParameters
    <3>7. held[t] + 1 \in 0 .. Cardinality(Mutex)
      BY <3>4, <3>5, <3>6
    <3>8. held' \in [Task -> 0..Cardinality(Mutex)]
      BY <1>2, <2>4, <3>7 DEF TryTakes
    <3> QED BY <1>1, <1>2, <2>4, <3>1, <3>8, CallStep DEF TryTakes
  <2>5. CASE TryFails(t)
    <3>1. Return(t) \/ Goto(t, "block")
      BY <2>5 DEF TryFails
    <3>2. "block" \in Points
      BY DEF Points
    <3>3. call' \in [Task -> Calls]
      BY <1>1, <3>1, <3>2, CallStep
    <3> QED BY <1>1, <1>2, <2>5, <3>3 DEF TryFails
  <2>6. CASE BlockLate(t)
    <3>1. call' \in [Task -> Calls]
      BY <1>2, <2>6, ZenonT(60) DEF BlockLate, Calls, Points
    <3> QED BY <1>1, <1>2, <2>6, <3>1 DEF BlockLate
  <2>7. CASE BlockRetries(t)
    <3>1. call' \in [Task -> Calls]
      BY <2>7, CallStep DEF BlockRetries, Points
    <3> QED BY <1>1, <1>2, <2>7, <3>1 DEF BlockRetries
  <2>8. CASE Block(t)
    <3>1. /\ mutex' \in Mutexes /\ call' \in [Task -> Calls]
          /\ prio' \in [Task -> {Base[u] : u \in Task}]
      BY <2>8, SleepEffect, BlockRaises
    <3> QED BY <1>1, <1>2, <2>8, <3>1 DEF Block, Yield, Highest
  <2>9. CASE LateTake(t)
    <3>1. Goto(t, "try") \/ Goto(t, "disinherit") \/ Return(t)
      BY <2>9 DEF LateTake
    <3>2. call' \in [Task -> Calls]
      BY <3>1, CallStep DEF Points
    <3> QED BY <1>1, <1>2, <2>9, <3>2 DEF LateTake
  <2>10. CASE DisinheritAfterTimeout(t)
    <3>1. prio' \in [Task -> {Base[u] : u \in Task}]
      BY <2>10, TimeoutLowers
    <3>2. call' \in [Task -> Calls]
      BY <2>10, CallStep DEF DisinheritAfterTimeout
    <3> QED BY <1>1, <1>2, <2>10, <3>1, <3>2 DEF DisinheritAfterTimeout
  <2>11. CASE Give(t)
    <3>1. PICK m \in Mutex :
             /\ mutex[m].holder = t
             /\ prio' \in [Task -> {Base[u] : u \in Task}]
             /\ held' = [held EXCEPT ![t] = @ - 1]
             /\ mutex' = [mutex EXCEPT ![m] =
                  [holder |-> NoTask, depth |-> 0,
                   waiting |-> IF mutex[m].waiting = <<>>
                               THEN mutex[m].waiting
                               ELSE Tail(mutex[m].waiting)]]
             /\ Rest2
             /\ UNCHANGED call
      BY <2>11, GiveIs
    <3>2. mutex' \in Mutexes
      BY <3>1, GiveEffect
    <3>3. held[t] >= 1
      BY <3>1, Counted
    <3>4. held[t] - 1 \in 0 .. Cardinality(Mutex)
      <4>1. Cardinality(Mutex) \in Nat
        BY FS_CardinalityType DEF Simple, MutexParameters
      <4>2. held[t] \in 0 .. Cardinality(Mutex)
        BY <1>2
      <4> QED BY <3>3, <4>1, <4>2
    <3>5. held' \in [Task -> 0..Cardinality(Mutex)]
      BY <1>2, <3>1, <3>4
    <3> QED BY <1>1, <1>2, <3>1, <3>2, <3>5
  <2> QED
    BY <1>7, <2>1, <2>2, <2>3, <2>4, <2>5, <2>6, <2>7, <2>8, <2>9, <2>10,
       <2>11 DEF TaskStep
<1> QED BY <1>3, <1>4, <1>5, <1>6, <1>7 DEF Next

(* Nobody takes or gives a mutex. *)
LEMMA SameHas ==
    ASSUME \A m \in Mutex : mutex'[m].holder = mutex[m].holder
    PROVE  \A t \in Task : Has(t)' = Has(t)
BY DEF Has

LEMMA CountStep ==
    ASSUME Simple, KmTypeOK, KmTypeOK', CountInv, CallInv, [Next]_vars
    PROVE  CountInv'
<1>1. ASSUME \A m \in Mutex : mutex'[m].holder = mutex[m].holder,
             held' = held, prio' = prio
      PROVE  CountInv'
  BY <1>1, SameHas DEF CountInv
<1>2. CASE Tick \/ UNCHANGED vars
  BY <1>1, <1>2 DEF Tick, vars
<1>3. ASSUME NEW t \in Task, TimePasses(t) \/ Rested(t)
      PROVE  CountInv'
  <2>1. held' = held /\ prio' = prio
    BY <1>3 DEF TimePasses, Rested
  <2>2. \A m \in Mutex : mutex'[m].holder = mutex[m].holder
    BY <1>3, TimeEffect DEF Rested
  <2> QED BY <1>1, <2>1, <2>2
<1>4. ASSUME NEW t \in Task, TaskStep(t)
      PROVE  CountInv'
  <2>1. CASE Rest(t) \/ Take(t) \/ TryFails(t) \/ BlockLate(t)
             \/ BlockRetries(t) \/ LateTake(t)
    BY <1>1, <2>1
       DEF Rest, Take, TryFails, BlockLate, BlockRetries, LateTake
  <2>2. CASE TakeAgain(t) \/ GiveOne(t)
    BY <1>1, <2>2, DepthEffect DEF TakeAgain, GiveOne
  <2>3. CASE TryTakes(t)
    <3> DEFINE m == call[t].mutex
    <3>1. /\ m \in Mutex /\ mutex[m].holder = NoTask
          /\ mutex'[m].holder = t
          /\ \A n \in Mutex : n # m => mutex'[n] = mutex[n]
          /\ NoTask \notin Task
      BY <2>3, TakeEffect DEF Simple, MutexParameters
    <3> HIDE DEF m
    <3>2. held' = [held EXCEPT ![t] = @ + 1] /\ prio' = prio
      BY <2>3 DEF TryTakes
    <3>3. Has(t)' = Has(t) \cup {m} /\ m \notin Has(t)
      BY <3>1 DEF Has
    <3>4. \A u \in Task : u # t => Has(u)' = Has(u)
      BY <3>1 DEF Has
    <3>5. Cardinality(Has(t)') = held[t] + 1
      BY <3>3, Counted, FS_AddElement
    <3>6. held'[t] = held[t] + 1 /\ held[t] \in Nat
          /\ \A u \in Task : u # t => held'[u] = held[u]
      BY <3>2, Fields DEF KmTypeOK
    <3> QED BY <3>2, <3>4, <3>5, <3>6 DEF CountInv
  <2>4. CASE Block(t)
    <3> DEFINE h == mutex[call[t].mutex].holder
    <3>1. /\ h \in Task /\ call[t].mutex \in Mutex
          /\ prio' = Inherit(h, t) /\ held' = held
          /\ \A n \in Mutex : mutex'[n].holder = mutex[n].holder
      BY <2>4, SleepEffect DEF Block
    <3>2. held[h] >= 1
      BY <3>1, Counted
    <3>3. prio'[h] >= prio[h] /\ \A u \in Task : u # h => prio'[u] = prio[u]
      BY <3>1, BlockRaises
    <3> HIDE DEF h
    <3>4. prio[h] >= Base[h] /\ prio[h] \in Nat /\ Base[h] \in Nat
          /\ prio'[h] \in Nat /\ held[h] \in Nat
      <4>1. prio'[h] \in Nat
        <5>1. prio' \in [Task -> {Base[u] : u \in Task}]
          BY DEF KmTypeOK
        <5>2. \A u \in Task : Base[u] \in Nat
          BY DEF Simple, MutexParameters
        <5> QED BY <3>1, <5>1, <5>2
      <4> QED BY <3>1, <4>1, Fields DEF CountInv
    <3>5. prio'[h] >= Base[h] /\ held[h] # 0
      BY <3>2, <3>3, <3>4
    <3> QED BY <3>1, <3>3, <3>5, SameHas DEF CountInv
  <2>5. CASE DisinheritAfterTimeout(t)
    <3> DEFINE h == mutex[call[t].mutex].holder
    <3>1. mutex' = mutex /\ held' = held
      BY <2>5 DEF DisinheritAfterTimeout
    <3>2. CASE prio' = prio
      BY <1>1, <3>1, <3>2
    <3>3. CASE prio' # prio
      <4>1. /\ h \in Task /\ held[h] = 1 /\ prio'[h] >= Base[h]
            /\ \A u \in Task : u # h => prio'[u] = prio[u]
        BY <2>5, <3>3, TimeoutLowers
      <4> HIDE DEF h
      <4> QED BY <3>1, <4>1, SameHas DEF CountInv
    <3> QED BY <3>2, <3>3
  <2>6. CASE Give(t)
    <3>1. PICK m \in Mutex :
             /\ mutex[m].holder = t
             /\ prio' = Disinherit(t)
             /\ held' = [held EXCEPT ![t] = @ - 1]
             /\ mutex' = [mutex EXCEPT ![m] =
                  [holder |-> NoTask, depth |-> 0,
                   waiting |-> IF mutex[m].waiting = <<>>
                               THEN mutex[m].waiting
                               ELSE Tail(mutex[m].waiting)]]
      BY <2>6, GiveIs
    <3>2. /\ mutex'[m].holder = NoTask /\ NoTask \notin Task
          /\ \A n \in Mutex : n # m => mutex'[n] = mutex[n]
      BY <3>1, GiveEffect DEF Simple, MutexParameters
    <3>3. Has(t)' = Has(t) \ {m} /\ m \in Has(t)
      BY <3>1, <3>2 DEF Has
    <3>4. \A u \in Task : u # t => Has(u)' = Has(u)
      BY <3>1, <3>2 DEF Has
    <3>5. Cardinality(Has(t)') = held[t] - 1 /\ held[t] >= 1
      BY <3>1, <3>3, Counted, FS_RemoveElement
    <3>6. held'[t] = held[t] - 1 /\ held[t] \in Nat
          /\ \A u \in Task : u # t => held'[u] = held[u]
      BY <3>1, Fields DEF KmTypeOK
    <3>7. /\ prio'[t] >= Base[t]
          /\ held'[t] = 0 => prio'[t] = Base[t]
          /\ \A u \in Task : u # t => prio'[u] = prio[u]
      <4>1. prio \in [Task -> {Base[u] : u \in Task}] /\ Base[t] \in Nat
            /\ prio[t] >= Base[t]
        BY DEF KmTypeOK, CountInv, Simple, MutexParameters
      <4>2. CASE held[t] = 1
        BY <3>1, <4>1, <4>2 DEF Disinherit
      <4>3. CASE held[t] # 1
        BY <3>1, <3>5, <3>6, <4>1, <4>3 DEF Disinherit
      <4> QED BY <4>2, <4>3
    <3> QED BY <3>4, <3>5, <3>6, <3>7 DEF CountInv
  <2> QED BY <1>4, <2>1, <2>2, <2>3, <2>4, <2>5, <2>6 DEF TaskStep
<1> QED BY <1>2, <1>3, <1>4 DEF Next

LEMMA CallInvStep ==
    ASSUME Simple, KmTypeOK, CountInv, CallInv, [Next]_vars
    PROVE  CallInv'
<1> DEFINE Fine(t) == /\ call'[t].wait = "finite" => held'[t] = 0
                      /\ call'[t].pc = "block" => call'[t].wait = "finite"
                      /\ call'[t].pc \in {"late", "disinherit"} => held'[t] = 0
<1>1. (\A t \in Task : Fine(t)) => CallInv'
  BY DEF CallInv
<1>2. call \in [Task -> Calls] /\ held \in [Task -> 0..Cardinality(Mutex)]
  BY DEF KmTypeOK, Calls
<1>3. ASSUME held' = held, call' = call
      PROVE  CallInv'
  BY <1>3 DEF CallInv
<1>4. ASSUME NEW t \in Task,
             \A u \in Task : u # t => call'[u] = call[u] /\ held'[u] = held[u],
             Fine(t)
      PROVE  CallInv'
  BY <1>1, <1>4 DEF CallInv
<1> HIDE DEF Fine
<1>5. CASE Tick \/ UNCHANGED vars
  BY <1>3, <1>5 DEF Tick, vars
<1>6. ASSUME NEW t \in Task, Rested(t)
      PROVE  CallInv'
  BY <1>3, <1>6 DEF Rested
<1>7. ASSUME NEW t \in Task, TimePasses(t)
      PROVE  CallInv'
  <2>1. call' = [call EXCEPT ![t] = [call[t] EXCEPT !.expired = TRUE]]
        /\ held' = held
    BY <1>7, TimeEffect DEF TimePasses
  <2>2. call'[t].wait = call[t].wait /\ call'[t].pc = call[t].pc
        /\ \A u \in Task : u # t => call'[u] = call[u]
    BY <1>2, <2>1 DEF Calls
  <2>3. Fine(t)
    BY <2>1, <2>2 DEF CallInv, Fine
  <2> QED BY <1>4, <2>1, <2>2, <2>3
<1>8. ASSUME NEW t \in Task, TaskStep(t)
      PROVE  CallInv'
  <2>1. CASE Rest(t) \/ TakeAgain(t) \/ GiveOne(t)
    BY <1>3, <2>1 DEF Rest, TakeAgain, GiveOne
  <2>2. CASE Take(t)
    <3>1. PICK m \in Mutex, wait \in {"none", "finite"} :
            /\ held[t] > 0 /\ wait # "none" => NestedWaits
            /\ call' = [call EXCEPT ![t] = [NoCall(m) EXCEPT !.pc = "try",
                                                             !.wait = wait]]
            /\ held' = held
      BY <2>2 DEF Take
    <3>2. call'[t].pc = "try" /\ call'[t].wait = wait
          /\ \A u \in Task : u # t => call'[u] = call[u]
      BY <1>2, <3>1 DEF NoCall
    <3>3. wait = "finite" => held[t] = 0
      BY <3>1, Fields DEF Simple
    <3>4. Fine(t)
      BY <3>1, <3>2, <3>3 DEF Fine
    <3> QED BY <1>4, <3>1, <3>2, <3>4
  <2>3. CASE TryTakes(t) \/ DisinheritAfterTimeout(t)
    <3>1. call' = [call EXCEPT ![t] = NoCall(call[t].mutex)]
      BY <2>3, CallStep DEF TryTakes, DisinheritAfterTimeout
    <3>2. \A u \in Task : u # t => held'[u] = held[u]
      BY <1>2, <2>3 DEF TryTakes, DisinheritAfterTimeout
    <3>3. call'[t].pc = "idle" /\ call'[t].wait = "none"
          /\ \A u \in Task : u # t => call'[u] = call[u]
      BY <1>2, <3>1 DEF NoCall
    <3>4. Fine(t)
      BY <3>3 DEF Fine
    <3> QED BY <1>4, <3>2, <3>3, <3>4
  <2>4. CASE TryFails(t)
    <3>1. held' = held
      BY <2>4 DEF TryFails
    <3>2. CASE call[t].wait = "none"
      <4>1. call' = [call EXCEPT ![t] = NoCall(call[t].mutex)]
        BY <2>4, <3>2, CallStep DEF TryFails
      <4>2. call'[t].pc = "idle" /\ call'[t].wait = "none"
            /\ \A u \in Task : u # t => call'[u] = call[u]
        BY <1>2, <4>1 DEF NoCall
      <4>3. Fine(t)
        BY <4>2 DEF Fine
      <4> QED BY <1>4, <3>1, <4>2, <4>3
    <3>3. CASE call[t].wait = "finite"
      <4>1. call' = [call EXCEPT ![t] = [call[t] EXCEPT !.pc = "block"]]
        BY <2>4, <3>3, CallStep DEF TryFails, Points
      <4>2. call'[t].pc = "block" /\ call'[t].wait = "finite"
            /\ \A u \in Task : u # t => call'[u] = call[u]
        BY <1>2, <3>3, <4>1 DEF Calls
      <4>3. Fine(t)
        BY <3>1, <3>3, <4>2 DEF Fine, CallInv
      <4> QED BY <1>4, <3>1, <4>2, <4>3
    <3> QED BY <1>2, <3>2, <3>3 DEF Calls
  <2>5. CASE BlockLate(t)
    <3>1. call' = [call EXCEPT ![t].pc = "late", ![t].wait = "none"]
          /\ held' = held /\ call[t].pc = "block"
      BY <2>5 DEF BlockLate, At
    <3>2. call'[t].pc = "late" /\ call'[t].wait = "none"
          /\ \A u \in Task : u # t => call'[u] = call[u]
      BY <1>2, <3>1 DEF Calls
    <3>3. Fine(t)
      BY <3>1, <3>2 DEF Fine, CallInv
    <3> QED BY <1>4, <3>1, <3>2, <3>3
  <2>6. CASE BlockRetries(t) \/ (LateTake(t) /\ ~Return(t))
    <3>1. held' = held /\ (Goto(t, "try") \/ (Goto(t, "disinherit")
                                              /\ call[t].pc = "late"))
      BY <2>6 DEF BlockRetries, LateTake, At
    <3>2. PICK pt \in {"try", "disinherit"} :
            /\ call' = [call EXCEPT ![t] = [call[t] EXCEPT !.pc = pt]]
            /\ pt = "disinherit" => call[t].pc = "late"
      BY <3>1, CallStep DEF Points
    <3>3. call'[t].pc = pt /\ call'[t].wait = call[t].wait
          /\ \A u \in Task : u # t => call'[u] = call[u]
      BY <1>2, <3>2 DEF Calls
    <3>4. Fine(t)
      BY <3>1, <3>2, <3>3 DEF Fine, CallInv
    <3> QED BY <1>4, <3>1, <3>3, <3>4
  <2>7. CASE LateTake(t) /\ Return(t)
    <3>1. call' = [call EXCEPT ![t] = NoCall(call[t].mutex)] /\ held' = held
      BY <2>7, CallStep DEF LateTake
    <3>2. call'[t].pc = "idle" /\ call'[t].wait = "none"
          /\ \A u \in Task : u # t => call'[u] = call[u]
      BY <1>2, <3>1 DEF NoCall
    <3>3. Fine(t)
      BY <3>2 DEF Fine
    <3> QED BY <1>4, <3>1, <3>2, <3>3
  <2>8. CASE Block(t)
    <3>1. call' = [call EXCEPT ![t] = [call[t] EXCEPT
             !.pc = "try",
             !.inherited = Inherited(mutex[call[t].mutex].holder, t)]]
          /\ held' = held
      BY <2>8, SleepEffect DEF Block
    <3>2. call'[t].pc = "try" /\ call'[t].wait = call[t].wait
          /\ \A u \in Task : u # t => call'[u] = call[u]
      BY <1>2, <3>1 DEF Calls
    <3>3. Fine(t)
      BY <3>1, <3>2 DEF Fine, CallInv
    <3> QED BY <1>4, <3>1, <3>2, <3>3
  <2>9. CASE Give(t)
    <3>1. PICK m \in Mutex : /\ mutex[m].holder = t
                             /\ held' = [held EXCEPT ![t] = @ - 1]
                             /\ UNCHANGED call
      BY <2>9, GiveIs
    <3>2. held[t] >= 1 /\ held[t] \in Nat
      BY <3>1, Counted, Fields
    <3>3. Fine(t)
      BY <3>1, <3>2 DEF Fine, CallInv
    <3>4. \A u \in Task : u # t => call'[u] = call[u] /\ held'[u] = held[u]
      BY <1>2, <3>1
    <3> QED BY <1>4, <3>3, <3>4
  <2> QED BY <1>8, <2>1, <2>2, <2>3, <2>4, <2>5, <2>6, <2>7, <2>8, <2>9
          DEF TaskStep
<1> QED BY <1>5, <1>6, <1>7, <1>8 DEF Next

-----------------------------------------------------------------------------
(* Those who wait. *)

LEMMA OrderedInsert ==
    ASSUME Simple, NEW list \in Seq(Task), Ordered(list), NEW t \in Task,
           \A i \in DOMAIN list : list[i] # t,
           NEW k \in 1 .. Len(list) + 1,
           \A i \in 1 .. k - 1 : Base[list[i]] >= Base[t],
           k <= Len(list) => Base[list[k]] < Base[t],
           NEW new \in Seq(Task), Len(new) = Len(list) + 1,
           \A i \in 1 .. Len(list) + 1 : new[i] =
               IF i < k THEN list[i] ELSE IF i = k THEN t ELSE list[i - 1]
    PROVE  Ordered(new)
<1>1. /\ new \in Seq(Task) /\ Len(new) = Len(list) + 1
      /\ \A i \in 1 .. Len(list) + 1 : new[i] =
           IF i < k THEN list[i] ELSE IF i = k THEN t ELSE list[i - 1]
  OBVIOUS
<1>2. \A i \in DOMAIN list : list[i] \in Task /\ Base[list[i]] \in Nat
  BY DEF Simple, MutexParameters
<1>3. Base[t] \in Nat
  BY DEF Simple, MutexParameters
<1>4. ASSUME NEW i \in DOMAIN new, NEW j \in DOMAIN new, i < j
      PROVE  new[i] # new[j] /\ Base[new[i]] >= Base[new[j]]
  <2>1. i \in 1 .. Len(list) + 1 /\ j \in 1 .. Len(list) + 1 /\ Len(list) \in Nat
    BY <1>1
  <2>2. CASE j < k
    <3>1. new[i] = list[i] /\ new[j] = list[j]
          /\ i \in DOMAIN list /\ j \in DOMAIN list
      BY <1>1, <1>4, <2>1, <2>2
    <3> QED BY <1>4, <3>1 DEF Ordered
  <2>3. CASE j = k
    <3>1. new[i] = list[i] /\ new[j] = t /\ i \in DOMAIN list /\ i \in 1 .. k - 1
      BY <1>1, <1>4, <2>1, <2>3
    <3> QED BY <3>1
  <2>4. CASE j > k /\ i < k
    <3>1. new[i] = list[i] /\ new[j] = list[j - 1]
          /\ i \in DOMAIN list /\ j - 1 \in DOMAIN list /\ i < j - 1
      BY <1>1, <1>4, <2>1, <2>4
    <3> QED BY <3>1 DEF Ordered
  <2>5. CASE j > k /\ i = k
    <3>1. new[i] = t /\ new[j] = list[j - 1] /\ j - 1 \in DOMAIN list
          /\ k \in DOMAIN list /\ k <= Len(list)
      BY <1>1, <1>4, <2>1, <2>5
    <3>2. k = j - 1 \/ k < j - 1
      BY <2>1, <2>5
    <3>3. Base[list[k]] >= Base[list[j - 1]]
      <4>1. CASE k = j - 1
        BY <1>2, <3>1, <4>1
      <4>2. CASE k < j - 1
        BY <3>1, <4>2 DEF Ordered
      <4> QED BY <3>2, <4>1, <4>2
    <3>4. Base[list[k]] \in Nat /\ Base[list[j - 1]] \in Nat
      BY <1>2, <3>1
    <3> QED BY <1>3, <3>1, <3>3, <3>4
  <2>6. CASE i > k
    <3>1. new[i] = list[i - 1] /\ new[j] = list[j - 1]
          /\ i - 1 \in DOMAIN list /\ j - 1 \in DOMAIN list /\ i - 1 < j - 1
      BY <1>1, <1>4, <2>1, <2>6
    <3> QED BY <3>1 DEF Ordered
  <2> QED BY <1>4, <2>1, <2>2, <2>3, <2>4, <2>5, <2>6
<1> QED BY <1>4 DEF Ordered

LEMMA OrderedRemove ==
    ASSUME Simple, NEW list \in Seq(Task), Ordered(list),
           NEW k \in 1 .. Len(list)
    PROVE  /\ Ordered(RemoveAt(list, k))
           /\ \A i \in DOMAIN RemoveAt(list, k) :
                \E j \in DOMAIN list :
                   j # k /\ RemoveAt(list, k)[i] = list[j]
<1> DEFINE new == RemoveAt(list, k)
           Was(i) == IF i < k THEN i ELSE i + 1
<1>1. /\ new \in Seq(Task) /\ Len(new) = Len(list) - 1
      /\ \A i \in 1 .. Len(list) - 1 :
           new[i] = IF i < k THEN list[i] ELSE list[i + 1]
  BY RemovedAt
<1> HIDE DEF new
<1>2. ASSUME NEW i \in DOMAIN new
      PROVE  Was(i) \in DOMAIN list /\ Was(i) # k /\ new[i] = list[Was(i)]
  <2>1. i \in 1 .. Len(list) - 1 /\ Len(list) \in Nat
    BY <1>1
  <2>2. new[i] = list[Was(i)]
    BY <1>1, <2>1
  <2> QED BY <2>1, <2>2
<1>3. ASSUME NEW i \in DOMAIN new, NEW j \in DOMAIN new, i < j
      PROVE  Was(i) < Was(j)
  BY <1>1, <1>3
<1> HIDE DEF Was
<1>4. Ordered(new)
  BY <1>2, <1>3 DEF Ordered
<1> QED BY <1>2, <1>4 DEF new

(* The step of a task changes its own call and, but for a call that blocks *)
(* and a give, neither the lists nor what others are ready for.            *)
LEMMA Alone ==
    ASSUME Simple, KmTypeOK, NEW t \in Task, TaskStep(t)
    PROVE  /\ current = t /\ t \in ready
           /\ \A u \in Task : u # t => call'[u] = call[u]
           /\ ready \ {t} \subseteq ready'
           /\ ~Block(t) /\ ~Give(t) =>
                /\ ready' \subseteq ready
                /\ \A n \in Mutex : mutex'[n].waiting = mutex[n].waiting
<1>1. call \in [Task -> Calls] /\ current \in ready
  BY DEF KmTypeOK, Calls
<1>2. current = t
  BY DEF TaskStep, At, Rest, Take, TakeAgain, TryTakes, TryFails, BlockLate,
         BlockRetries, Block, LateTake, DisinheritAfterTimeout, GiveOne, Give
<1>3. ASSUME NEW u \in Task, u # t
      PROVE  call'[u] = call[u]
  <2>1. ASSUME Goto(t, "try") \/ Goto(t, "block") \/ Goto(t, "disinherit")
               \/ Return(t)
        PROVE  call'[u] = call[u]
    BY <1>1, <1>3, <2>1 DEF Goto, Return
  <2>2. CASE TryTakes(t) \/ TryFails(t) \/ BlockRetries(t) \/ LateTake(t)
             \/ DisinheritAfterTimeout(t)
    BY <2>1, <2>2 DEF TryTakes, TryFails, BlockRetries, LateTake,
                      DisinheritAfterTimeout
  <2>3. CASE Take(t) \/ BlockLate(t)
    BY <1>1, <1>3, <2>3 DEF Take, BlockLate
  <2>4. CASE Rest(t) \/ TakeAgain(t) \/ GiveOne(t) \/ Give(t)
    BY <2>4 DEF Rest, TakeAgain, GiveOne, Give
  <2>5. CASE Block(t)
    <3>1. call' = [call EXCEPT ![t] = [call[t] EXCEPT
             !.pc = "try",
             !.inherited = Inherited(mutex[call[t].mutex].holder, t)]]
      BY <2>5, SleepEffect
    <3> QED BY <1>1, <1>3, <3>1
  <2> QED BY <2>2, <2>3, <2>4, <2>5 DEF TaskStep
<1>4. ready \ {t} \subseteq ready'
  <2>1. CASE Give(t)
    BY <2>1, GiveIs
  <2>2. CASE Rest(t) \/ Block(t)
    BY <2>2 DEF Rest, Block
  <2>3. CASE ~Give(t) /\ ~Rest(t) /\ ~Block(t)
    BY <2>3 DEF TaskStep, Take, TakeAgain, TryTakes, TryFails, BlockLate,
         BlockRetries, LateTake, DisinheritAfterTimeout, GiveOne
  <2> QED BY <2>1, <2>2, <2>3
<1>5. ASSUME ~Block(t), ~Give(t)
      PROVE  /\ ready' \subseteq ready
             /\ \A n \in Mutex : mutex'[n].waiting = mutex[n].waiting
  <2>1. ready' \subseteq ready
    BY <1>5 DEF TaskStep, Rest, Take, TakeAgain, TryTakes, TryFails, BlockLate,
         BlockRetries, LateTake, DisinheritAfterTimeout, GiveOne
  <2>2. CASE TakeAgain(t) \/ GiveOne(t)
    BY <2>1, <2>2, DepthEffect
  <2>3. CASE TryTakes(t)
    BY <2>1, <2>3, TakeEffect
  <2>4. CASE Rest(t) \/ Take(t) \/ TryFails(t) \/ BlockLate(t)
             \/ BlockRetries(t) \/ LateTake(t) \/ DisinheritAfterTimeout(t)
    BY <2>1, <2>4 DEF Rest, Take, TryFails, BlockLate, BlockRetries,
                      LateTake, DisinheritAfterTimeout
  <2> QED BY <1>5, <2>2, <2>3, <2>4 DEF TaskStep
<1> QED BY <1>1, <1>2, <1>3, <1>4, <1>5

LEMMA WaitStep ==
    ASSUME Simple, KmTypeOK, CountInv, CallInv, WaitInv, [Next]_vars
    PROVE  WaitInv'
<1>1. ASSUME \A n \in Mutex : mutex'[n].waiting = mutex[n].waiting,
             \A u \in Task : u \notin ready /\ call[u].pc = "try" =>
                                call'[u] = call[u] /\ u \notin ready'
      PROVE  WaitInv'
  <2>1. ASSUME NEW n \in Mutex, NEW i \in DOMAIN mutex[n].waiting
        PROVE  Waits(mutex[n].waiting[i], n)'
    <3>1. mutex[n].waiting[i] \in Task
      BY Fields
    <3>2. Waits(mutex[n].waiting[i], n)
      BY DEF WaitInv
    <3> DEFINE u == mutex[n].waiting[i]
    <3>3. mutex'[n].waiting[i] = u
      BY <1>1
    <3> HIDE DEF u
    <3>4. call'[u] = call[u] /\ u \notin ready'
      BY <1>1, <3>1, <3>2 DEF Waits, u
    <3> QED BY <3>2, <3>3, <3>4 DEF Waits, u
  <2> QED BY <1>1, <2>1 DEF WaitInv
<1>2. CASE Tick \/ UNCHANGED vars
  BY <1>1, <1>2 DEF Tick, vars
<1>3. ASSUME NEW t \in Task, Rested(t)
      PROVE  WaitInv'
  <2>1. ready' = ready \cup {t} /\ call[t].pc = "idle"
        /\ UNCHANGED <<mutex, call>>
    BY <1>3 DEF Rested, Readied
  <2> QED BY <1>1, <2>1
<1>4. ASSUME NEW t \in Task, TimePasses(t)
      PROVE  WaitInv'
  <2>1. /\ ready' = ready \cup {t}
        /\ \A u \in Task : u # t => call'[u] = call[u]
    <3>1. call \in [Task -> Calls]
      BY DEF KmTypeOK, Calls
    <3> QED BY <1>4, <3>1 DEF TimePasses, Readied
  <2>2. CASE t \in ready
    BY <1>1, <1>4, <2>1, <2>2, TimeEffect
  <2>3. CASE t \notin ready
    <3> DEFINE m == call[t].mutex
               list == mutex[m].waiting
    <3>1. PICK k \in DOMAIN list :
            /\ list[k] = t
            /\ mutex'[m].waiting = RemoveAt(list, k)
            /\ \A n \in Mutex : n # m => mutex'[n] = mutex[n]
      BY <1>4, <2>3, TimeEffect
    <3>2. m \in Mutex /\ list \in Seq(Task)
      BY Fields DEF Calls
    <3>3. /\ \A i \in DOMAIN list : Waits(list[i], m)
          /\ Ordered(list)
      BY <3>2 DEF WaitInv
    <3>4. /\ Ordered(mutex'[m].waiting)
          /\ \A i \in DOMAIN mutex'[m].waiting :
                \E j \in DOMAIN list : j # k /\ mutex'[m].waiting[i] = list[j]
      BY <3>1, <3>2, <3>3, OrderedRemove
    <3>5. \A j \in DOMAIN list : j # k => list[j] # t /\ list[j] \in Task
      <4>1. ASSUME NEW j \in DOMAIN list, j # k
            PROVE  list[j] # t /\ list[j] \in Task
        <5> HIDE DEF list
        <5>1. j < k \/ k < j
          BY <3>1, <3>2, <4>1
        <5>2. list[j] # list[k]
          BY <3>1, <3>3, <5>1 DEF Ordered
        <5> QED BY <3>1, <3>2, <5>2
      <4> QED BY <4>1
    <3>6. \A u \in Task, n \in Mutex : u # t /\ Waits(u, n) =>
             /\ call'[u].pc = "try" /\ call'[u].mutex = n
             /\ call'[u].wait = "finite" /\ ~call'[u].expired /\ u \notin ready'
      BY <2>1 DEF Waits
    <3>7. ASSUME NEW n \in Mutex
          PROVE  /\ \A i \in DOMAIN mutex'[n].waiting :
                       Waits(mutex[n].waiting[i], n)'
                 /\ Ordered(mutex'[n].waiting)
      <4>1. CASE n = m
        <5> HIDE DEF m, list
        <5>1. ASSUME NEW i \in DOMAIN mutex'[n].waiting
              PROVE  Waits(mutex[n].waiting[i], n)'
          <6>1. PICK j \in DOMAIN list :
                  j # k /\ mutex'[n].waiting[i] = list[j]
            BY <3>4, <4>1
          <6>2. /\ list[j] # t /\ list[j] \in Task /\ Waits(list[j], n)
            BY <3>3, <3>5, <4>1, <6>1
          <6> QED BY <3>6, <6>1, <6>2 DEF Waits
        <5> QED BY <3>4, <4>1, <5>1
      <4>2. CASE n # m
        <5>1. mutex'[n].waiting = mutex[n].waiting
          BY <3>1, <4>2
        <5>2. /\ \A i \in DOMAIN mutex[n].waiting :
                    Waits(mutex[n].waiting[i], n) /\ mutex[n].waiting[i] \in Task
              /\ Ordered(mutex[n].waiting)
          BY Fields DEF WaitInv
        <5>3. \A i \in DOMAIN mutex[n].waiting : mutex[n].waiting[i] # t
          BY <4>2, <5>2 DEF Waits
        <5>4. ASSUME NEW i \in DOMAIN mutex'[n].waiting
              PROVE  Waits(mutex[n].waiting[i], n)'
          <6> DEFINE u == mutex[n].waiting[i]
          <6>1. /\ u # t /\ u \in Task /\ Waits(u, n)
                /\ mutex'[n].waiting[i] = u
            BY <5>1, <5>2, <5>3
          <6> HIDE DEF u
          <6> QED BY <3>6, <6>1 DEF Waits
        <5> QED BY <5>1, <5>2, <5>4
      <4> QED BY <4>1, <4>2
    <3> QED BY <3>7 DEF WaitInv
  <2> QED BY <2>2, <2>3
<1>5. ASSUME NEW t \in Task, TaskStep(t)
      PROVE  WaitInv'
  <2>1. /\ t \in ready
        /\ \A u \in Task : u # t => call'[u] = call[u]
        /\ ~Block(t) /\ ~Give(t) =>
             /\ ready' \subseteq ready
             /\ \A n \in Mutex : mutex'[n].waiting = mutex[n].waiting
    BY <1>5, Alone
  <2>2. CASE ~Block(t) /\ ~Give(t)
    <3>1. \A u \in Task : u \notin ready =>
             u # t /\ u \notin ready' /\ call'[u] = call[u]
      BY <2>1, <2>2
    <3> QED BY <1>1, <2>1, <2>2, <3>1
  <2>3. CASE Block(t)
    <3> DEFINE m == call[t].mutex
               list == mutex[m].waiting
    <3>1. /\ m \in Mutex
          /\ \A n \in Mutex : n # m => mutex'[n] = mutex[n]
          /\ \E k \in Place(list, t) : mutex'[m].waiting = InsertAt(list, k, t)
          /\ call' = [call EXCEPT ![t] = [call[t] EXCEPT
                         !.pc = "try",
                         !.inherited = Inherited(mutex[m].holder, t)]]
      BY <2>3, SleepEffect
    <3>2. PICK k \in Place(list, t) : mutex'[m].waiting = InsertAt(list, k, t)
      BY <3>1
    <3>3. ready' = ready \ {t} /\ call[t].pc = "block" /\ ~call[t].expired
      BY <2>3 DEF Block, At
    <3>4. list \in Seq(Task) /\ call \in [Task -> Calls]
          /\ call[t].wait = "finite" /\ held[t] = 0 /\ prio[t] = Base[t]
      BY <3>1, <3>3, Fields DEF CallInv, CountInv, KmTypeOK, Calls
    <3>5. /\ \A i \in DOMAIN list : Waits(list[i], m) /\ list[i] \in Task
          /\ Ordered(list)
      BY <3>1, <3>4 DEF WaitInv
    <3>6. \A i \in DOMAIN list : list[i] # t /\ prio[list[i]] = Base[list[i]]
      <4>1. ASSUME NEW i \in DOMAIN list
            PROVE  list[i] # t /\ prio[list[i]] = Base[list[i]]
        <5> DEFINE u == list[i]
        <5>1. u \in Task /\ Waits(u, m)
          BY <3>5
        <5> HIDE DEF u
        <5>2. u # t /\ held[u] = 0 /\ prio[u] = Base[u]
          BY <2>1, <5>1 DEF Waits, CallInv, CountInv
        <5> QED BY <5>2 DEF u
      <4> QED BY <4>1
    <3>7. /\ k \in 1 .. Len(list) + 1
          /\ \A i \in 1 .. k - 1 : prio[list[i]] >= prio[t]
          /\ k <= Len(list) => prio[list[k]] < prio[t]
      BY DEF Place
    <3>8. \A i \in 1 .. k - 1 : i \in DOMAIN list
      BY <3>4, <3>7
    <3>9. k <= Len(list) => k \in DOMAIN list
      BY <3>4, <3>7
    <3>10. /\ \A i \in 1 .. k - 1 : Base[list[i]] >= Base[t]
           /\ k <= Len(list) => Base[list[k]] < Base[t]
      BY <3>4, <3>6, <3>7, <3>8, <3>9
    <3>11. /\ Len(mutex'[m].waiting) = Len(list) + 1
           /\ mutex'[m].waiting \in Seq(Task)
           /\ \A i \in 1 .. Len(list) + 1 : mutex'[m].waiting[i] =
                 IF i < k THEN list[i] ELSE IF i = k THEN t ELSE list[i - 1]
      <4> HIDE DEF list
      <4>1. /\ InsertAt(list, k, t) \in Seq(Task)
            /\ Len(InsertAt(list, k, t)) = Len(list) + 1
            /\ \A i \in 1 .. Len(list) + 1 : InsertAt(list, k, t)[i] =
                 IF i < k THEN list[i] ELSE IF i = k THEN t ELSE list[i - 1]
        BY <3>4, <3>7, InsertedAt
      <4> QED BY <3>2, <4>1
    <3>12. Ordered(mutex'[m].waiting)
      <4> DEFINE new == mutex'[m].waiting
      <4>1. /\ list \in Seq(Task) /\ Ordered(list)
            /\ k \in 1 .. Len(list) + 1
            /\ \A i \in DOMAIN list : list[i] # t
        BY <3>4, <3>5, <3>6, <3>7
      <4>2. /\ new \in Seq(Task) /\ Len(new) = Len(list) + 1
            /\ \A i \in 1 .. Len(list) + 1 : new[i] =
                 IF i < k THEN list[i] ELSE IF i = k THEN t ELSE list[i - 1]
        BY <3>11
      <4> HIDE DEF list, new
      <4>3. Ordered(new)
        BY <4>1, <4>2, <3>10, OrderedInsert
      <4> QED BY <4>3 DEF new
    <3>13. \A i \in DOMAIN mutex'[m].waiting :
              \/ mutex'[m].waiting[i] = t
              \/ \E j \in DOMAIN list : mutex'[m].waiting[i] = list[j]
      <4>1. ASSUME NEW i \in DOMAIN mutex'[m].waiting
            PROVE  \/ mutex'[m].waiting[i] = t
                   \/ \E j \in DOMAIN list : mutex'[m].waiting[i] = list[j]
        <5>1. i \in 1 .. Len(list) + 1 /\ Len(list) \in Nat
          BY <3>4, <3>11
        <5>2. CASE i < k
          BY <3>4, <3>7, <3>11, <5>1, <5>2
        <5>3. CASE i = k
          BY <3>11, <5>1, <5>3
        <5>4. CASE i > k
          <6>1. i - 1 \in 1 .. Len(list) /\ ~(i < k) /\ i # k
            BY <3>7, <5>1, <5>4, SMTT(40)
          <6>2. mutex'[m].waiting[i] = list[i - 1]
            BY <3>11, <5>1, <6>1
          <6>3. i - 1 \in DOMAIN list
            BY <3>4, <6>1
          <6> QED BY <6>2, <6>3
        <5> QED BY <3>7, <5>1, <5>2, <5>3, <5>4
      <4> QED BY <4>1
    <3>14. /\ call'[t].pc = "try" /\ call'[t].mutex = m
           /\ call'[t].wait = "finite" /\ ~call'[t].expired
      BY <3>1, <3>3, <3>4 DEF Calls
    <3>15. \A u \in Task, n \in Mutex : Waits(u, n) =>
             /\ call'[u].pc = "try" /\ call'[u].mutex = n
             /\ call'[u].wait = "finite" /\ ~call'[u].expired /\ u \notin ready'
      BY <2>1, <3>3 DEF Waits
    <3>16. ASSUME NEW n \in Mutex
           PROVE  /\ \A i \in DOMAIN mutex'[n].waiting :
                        Waits(mutex[n].waiting[i], n)'
                  /\ Ordered(mutex'[n].waiting)
      <4>1. CASE n = m
        <5> HIDE DEF m, list
        <5>1. ASSUME NEW i \in DOMAIN mutex'[n].waiting
              PROVE  Waits(mutex[n].waiting[i], n)'
          <6>1. CASE mutex'[n].waiting[i] = t
            BY <3>3, <3>14, <4>1, <6>1 DEF Waits
          <6>2. CASE \E j \in DOMAIN list : mutex'[n].waiting[i] = list[j]
            <7>1. PICK j \in DOMAIN list : mutex'[n].waiting[i] = list[j]
              BY <6>2
            <7>2. list[j] \in Task /\ Waits(list[j], n)
              BY <3>5, <4>1, <7>1
            <7> QED BY <3>15, <7>1, <7>2 DEF Waits
          <6> QED BY <3>13, <4>1, <6>1, <6>2
        <5> QED BY <3>12, <4>1, <5>1
      <4>2. CASE n # m
        <5>1. mutex'[n].waiting = mutex[n].waiting
          BY <3>1, <4>2
        <5>2. ASSUME NEW i \in DOMAIN mutex'[n].waiting
              PROVE  Waits(mutex[n].waiting[i], n)'
          <6> DEFINE u == mutex[n].waiting[i]
          <6>1. /\ u \in Task /\ Waits(u, n)
                /\ mutex'[n].waiting[i] = u
            BY <5>1, Fields DEF WaitInv
          <6> HIDE DEF u
          <6> QED BY <3>15, <6>1 DEF Waits
        <5> QED BY <5>1, <5>2 DEF WaitInv
      <4> QED BY <4>1, <4>2
    <3> QED BY <3>16 DEF WaitInv
  <2>4. CASE Give(t)
    <3>1. PICK m \in Mutex :
             /\ mutex' = [mutex EXCEPT ![m] =
                  [holder |-> NoTask, depth |-> 0,
                   waiting |-> IF mutex[m].waiting = <<>>
                               THEN mutex[m].waiting
                               ELSE Tail(mutex[m].waiting)]]
             /\ ready' = ready \cup (IF mutex[m].waiting = <<>> THEN {}
                                     ELSE {mutex[m].waiting[1]})
             /\ UNCHANGED call
      BY <2>4, GiveIs
    <3> DEFINE list == mutex[m].waiting
    <3>2. /\ list = <<>> => mutex'[m].waiting = <<>>
          /\ list # <<>> =>
                /\ Len(mutex'[m].waiting) = Len(list) - 1
                /\ \A i \in DOMAIN mutex'[m].waiting :
                     /\ i + 1 \in DOMAIN list
                     /\ mutex'[m].waiting[i] = list[i + 1]
          /\ \A n \in Mutex : n # m => mutex'[n] = mutex[n]
          /\ mutex' \in Mutexes
      BY <3>1, GiveEffect
    <3>3. list \in Seq(Task) /\ mutex'[m].waiting \in Seq(Task)
      BY <3>2, Fields DEF Mutexes
    <3>4. /\ \A i \in DOMAIN list : Waits(list[i], m)
          /\ Ordered(list)
      BY <3>1 DEF WaitInv
    <3>5. CASE list = <<>>
      <4>1. \A n \in Mutex : mutex'[n].waiting = mutex[n].waiting
        BY <3>2, <3>5
      <4>2. ready' = ready
        BY <3>1, <3>5
      <4> QED BY <1>1, <3>1, <4>1, <4>2
    <3>6. CASE list # <<>>
      <4>1. ready' = ready \cup {list[1]} /\ 1 \in DOMAIN list
        BY <3>1, <3>3, <3>6
      <4>2. Ordered(mutex'[m].waiting)
        <5>1. ASSUME NEW i \in DOMAIN mutex'[m].waiting,
                     NEW j \in DOMAIN mutex'[m].waiting, i < j
              PROVE  /\ mutex'[m].waiting[i] # mutex'[m].waiting[j]
                     /\ Base[mutex'[m].waiting[i]] >= Base[mutex'[m].waiting[j]]
          <6>1. i + 1 \in DOMAIN list /\ j + 1 \in DOMAIN list
                /\ mutex'[m].waiting[i] = list[i + 1]
                /\ mutex'[m].waiting[j] = list[j + 1]
            BY <3>2, <3>6
          <6>2. i + 1 < j + 1
            BY <3>3, <5>1
          <6> QED BY <3>4, <6>1, <6>2 DEF Ordered
        <5> QED BY <5>1 DEF Ordered
      <4>3. ASSUME NEW i \in DOMAIN mutex'[m].waiting
            PROVE  Waits(mutex[m].waiting[i], m)'
        <5> DEFINE u == list[i + 1]
        <5>1. i + 1 \in DOMAIN list /\ mutex'[m].waiting[i] = u /\ 1 < i + 1
          BY <3>2, <3>3, <3>6
        <5>2. list[1] # u /\ Waits(u, m)
          BY <3>4, <4>1, <5>1 DEF Ordered
        <5> HIDE DEF u
        <5> QED BY <3>1, <4>1, <5>1, <5>2 DEF Waits
      <4>4. ASSUME NEW n \in Mutex, n # m, NEW i \in DOMAIN mutex'[n].waiting
            PROVE  Waits(mutex[n].waiting[i], n)'
        <5> DEFINE u == mutex[n].waiting[i]
        <5>1. mutex'[n].waiting[i] = u /\ Waits(u, n) /\ Waits(list[1], m)
          BY <3>2, <3>4, <4>1, <4>4 DEF WaitInv
        <5>2. u # list[1]
          BY <4>4, <5>1 DEF Waits
        <5> HIDE DEF u
        <5> QED BY <3>1, <4>1, <5>1, <5>2 DEF Waits
      <4>5. \A n \in Mutex : n # m => Ordered(mutex'[n].waiting)
        BY <3>2 DEF WaitInv
      <4> QED BY <4>2, <4>3, <4>4, <4>5 DEF WaitInv
    <3> QED BY <3>5, <3>6
  <2> QED BY <2>2, <2>3, <2>4
<1> QED BY <1>2, <1>3, <1>4, <1>5 DEF Next

(* What a step leaves of a list, and who gives a mutex back. *)
LEMMA ListEffect ==
    ASSUME Simple, KmTypeOK, [Next]_vars, NEW m \in Mutex
    PROVE  \/ \A i \in DOMAIN mutex'[m].waiting :
                \E j \in DOMAIN mutex[m].waiting :
                   mutex'[m].waiting[i] = mutex[m].waiting[j]
           \/ \E t \in Task : Block(t) /\ call[t].mutex = m
<1> DEFINE Sub == \A i \in DOMAIN mutex'[m].waiting :
                     \E j \in DOMAIN mutex[m].waiting :
                        mutex'[m].waiting[i] = mutex[m].waiting[j]
<1>1. mutex'[m].waiting = mutex[m].waiting => Sub
  OBVIOUS
<1>2. ASSUME Tick \/ UNCHANGED vars
      PROVE  Sub
  BY <1>1, <1>2 DEF Tick, vars
<1>3. ASSUME NEW t \in Task, Rested(t)
      PROVE  Sub
  BY <1>1, <1>3 DEF Rested
<1>4. ASSUME NEW t \in Task, TimePasses(t)
      PROVE  Sub
  <2>1. CASE t \in ready \/ call[t].mutex # m
    BY <1>1, <1>4, <2>1, TimeEffect
  <2>2. CASE t \notin ready /\ call[t].mutex = m
    <3>1. PICK k \in DOMAIN mutex[m].waiting :
            mutex'[m].waiting = RemoveAt(mutex[m].waiting, k)
      BY <1>4, <2>2, TimeEffect
    <3>2. mutex[m].waiting \in Seq(Task)
      BY Fields
    <3> DEFINE list == mutex[m].waiting
    <3> HIDE DEF list
    <3>3. k \in 1 .. Len(list) /\ list \in Seq(Task)
      BY <3>1, <3>2 DEF list
    <3>4. /\ RemoveAt(list, k) \in Seq(Task)
          /\ Len(RemoveAt(list, k)) = Len(list) - 1
          /\ \A i \in 1 .. Len(list) - 1 :
                RemoveAt(list, k)[i] = IF i < k THEN list[i] ELSE list[i + 1]
      BY <3>3, RemovedAt
    <3>5. \A i \in DOMAIN RemoveAt(list, k) :
            /\ i \in DOMAIN list /\ i + 1 \in DOMAIN list
            /\ RemoveAt(list, k)[i] = list[i] \/ RemoveAt(list, k)[i] = list[i + 1]
      BY <3>3, <3>4
    <3> QED BY <3>1, <3>5 DEF list
  <2> QED BY <2>1, <2>2
<1>5. ASSUME NEW t \in Task, TaskStep(t), ~(Block(t) /\ call[t].mutex = m)
      PROVE  Sub
  <2>1. CASE ~Block(t) /\ ~Give(t)
    BY <1>1, <1>5, <2>1, Alone
  <2>2. CASE Block(t)
    BY <1>1, <1>5, <2>2, SleepEffect
  <2>3. CASE Give(t)
    <3>1. PICK n \in Mutex :
             mutex' = [mutex EXCEPT ![n] =
                  [holder |-> NoTask, depth |-> 0,
                   waiting |-> IF mutex[n].waiting = <<>>
                               THEN mutex[n].waiting
                               ELSE Tail(mutex[n].waiting)]]
      BY <2>3, GiveIs
    <3>2. /\ mutex[n].waiting = <<>> => mutex'[n].waiting = <<>>
          /\ mutex[n].waiting # <<>> =>
                \A i \in DOMAIN mutex'[n].waiting :
                     /\ i + 1 \in DOMAIN mutex[n].waiting
                     /\ mutex'[n].waiting[i] = mutex[n].waiting[i + 1]
          /\ n # m => mutex'[m] = mutex[m]
      BY <3>1, GiveEffect
    <3>3. CASE n # m
      BY <1>1, <3>2, <3>3
    <3>4. CASE n = m /\ mutex[m].waiting = <<>>
      BY <1>1, <3>2, <3>4
    <3>5. CASE n = m /\ mutex[m].waiting # <<>>
      BY <3>2, <3>5
    <3> QED BY <3>3, <3>4, <3>5
  <2> QED BY <2>1, <2>2, <2>3
<1> HIDE DEF Sub
<1>6. ASSUME NEW t \in Task, TaskStep(t)
      PROVE  Sub \/ \E u \in Task : Block(u) /\ call[u].mutex = m
  BY <1>5, <1>6
<1>7. Tick \/ UNCHANGED vars
      \/ \E t \in Task : TaskStep(t) \/ TimePasses(t) \/ Rested(t)
  BY DEF Next
<1>8. Sub \/ \E t \in Task : Block(t) /\ call[t].mutex = m
  BY <1>2, <1>3, <1>4, <1>6, <1>7
<1> QED BY <1>8 DEF Sub

LEMMA HolderEffect ==
    ASSUME Simple, KmTypeOK, [Next]_vars, NEW m \in Mutex,
           mutex'[m].holder # mutex[m].holder
    PROVE  \E t \in Task :
             \/ /\ TryTakes(t) /\ call[t].mutex = m
                /\ mutex[m].holder = NoTask /\ mutex'[m].holder = t
                /\ mutex'[m].waiting = mutex[m].waiting
             \/ /\ Give(t) /\ mutex[m].holder = t /\ mutex'[m].holder = NoTask
                /\ mutex'[m].waiting # <<>> =>
                     /\ mutex[m].waiting # <<>>
                     /\ ready' = ready \cup {mutex[m].waiting[1]}
                /\ UNCHANGED call
<1>1. CASE Tick \/ UNCHANGED vars
  BY <1>1 DEF Tick, vars
<1>2. ASSUME NEW t \in Task, Rested(t) \/ TimePasses(t)
      PROVE  FALSE
  BY <1>2, TimeEffect DEF Rested
<1>3. ASSUME NEW t \in Task, TaskStep(t)
      PROVE  TryTakes(t) \/ Give(t)
  <2>1. CASE TakeAgain(t) \/ GiveOne(t) \/ Block(t)
    BY <2>1, DepthEffect, SleepEffect
  <2>2. CASE Rest(t) \/ Take(t) \/ TryFails(t) \/ BlockLate(t)
             \/ BlockRetries(t) \/ LateTake(t) \/ DisinheritAfterTimeout(t)
    BY <2>2 DEF Rest, Take, TryFails, BlockLate, BlockRetries, LateTake,
                DisinheritAfterTimeout
  <2> QED BY <1>3, <2>1, <2>2 DEF TaskStep
<1>4. PICK t \in Task : TryTakes(t) \/ Give(t)
  BY <1>1, <1>2, <1>3 DEF Next
<1>5. CASE TryTakes(t)
  <2>1. /\ mutex[call[t].mutex].holder = NoTask
        /\ mutex'[call[t].mutex].holder = t
        /\ \A n \in Mutex : /\ mutex'[n].waiting = mutex[n].waiting
                            /\ n # call[t].mutex => mutex'[n] = mutex[n]
    BY <1>5, TakeEffect
  <2>2. call[t].mutex = m
    BY <2>1
  <2> QED BY <1>5, <2>1, <2>2
<1>6. CASE Give(t)
  <2>1. PICK n \in Mutex :
             /\ mutex[n].holder = t
             /\ mutex' = [mutex EXCEPT ![n] =
                  [holder |-> NoTask, depth |-> 0,
                   waiting |-> IF mutex[n].waiting = <<>>
                               THEN mutex[n].waiting
                               ELSE Tail(mutex[n].waiting)]]
             /\ ready' = ready \cup (IF mutex[n].waiting = <<>> THEN {}
                                     ELSE {mutex[n].waiting[1]})
             /\ UNCHANGED call
    BY <1>6, GiveIs
  <2>2. /\ mutex'[n].holder = NoTask
        /\ mutex[n].waiting = <<>> => mutex'[n].waiting = <<>>
        /\ n # m => mutex'[m] = mutex[m]
    BY <2>1, GiveEffect
  <2>3. n = m
    BY <2>2
  <2> QED BY <1>6, <2>1, <2>2, <2>3
<1> QED BY <1>4, <1>5, <1>6

LEMMA HeirStep ==
    ASSUME Simple, KmTypeOK, KmTypeOK', WaitInv, HeirInv, [Next]_vars
    PROVE  HeirInv'
<1> SUFFICES ASSUME NEW m \in Mutex, mutex'[m].holder = NoTask,
                    mutex'[m].waiting # <<>>
             PROVE  \E t \in Task : Heir(t, m)'
  BY DEF HeirInv
<1>1. mutex[m].waiting \in Seq(Task) /\ mutex'[m].waiting \in Seq(Task)
  BY DEF KmTypeOK
<1>2. CASE mutex[m].holder # NoTask
  <2>1. PICK t \in Task :
          /\ mutex[m].waiting # <<>>
          /\ ready' = ready \cup {mutex[m].waiting[1]}
          /\ UNCHANGED call /\ Give(t)
    BY <1>2, HolderEffect
  <2> DEFINE w == mutex[m].waiting[1]
  <2>2. 1 \in DOMAIN mutex[m].waiting /\ w \in Task
    BY <1>1, <2>1
  <2>3. Waits(w, m) /\ Ordered(mutex[m].waiting)
    BY <2>2 DEF WaitInv
  <2>4. \A j \in DOMAIN mutex[m].waiting : Base[w] >= Base[mutex[m].waiting[j]]
    <3>1. ASSUME NEW j \in DOMAIN mutex[m].waiting
          PROVE  Base[w] >= Base[mutex[m].waiting[j]]
      <4>1. j = 1 \/ 1 < j
        BY <1>1
      <4>2. Base[w] \in Nat
        BY <2>2 DEF Simple, MutexParameters
      <4> QED BY <2>2, <2>3, <4>1, <4>2 DEF Ordered
    <3> QED BY <3>1
  <2>5. \A i \in DOMAIN mutex'[m].waiting :
          \E j \in DOMAIN mutex[m].waiting :
             mutex'[m].waiting[i] = mutex[m].waiting[j]
    <3>1. \A u \in Task : ~Block(u)
      <4>1. ASSUME NEW u \in Task, Block(u)
            PROVE  FALSE
        BY <2>1, <4>1 DEF Give, Block, At
      <4> QED BY <4>1
    <3> QED BY <3>1, ListEffect
  <2> HIDE DEF w
  <2>6. \A i \in DOMAIN mutex'[m].waiting :
          Base[w] >= Base[mutex'[m].waiting[i]]
    BY <2>4, <2>5
  <2>7. w \in ready' /\ call'[w] = call[w]
    BY <2>1 DEF w
  <2> QED BY <2>2, <2>3, <2>6, <2>7 DEF Heir, Waits
<1>3. CASE mutex[m].holder = NoTask
  <2>1. \A t \in Task : Block(t) => call[t].mutex # m
    BY <1>3 DEF Block
  <2>2. \A i \in DOMAIN mutex'[m].waiting :
          \E j \in DOMAIN mutex[m].waiting :
             mutex'[m].waiting[i] = mutex[m].waiting[j]
    BY <2>1, ListEffect
  <2>3. 1 \in DOMAIN mutex'[m].waiting
    BY <1>1
  <2>4. mutex[m].waiting # <<>>
    BY <2>2, <2>3
  <2>5. PICK w \in Task : Heir(w, m)
    BY <1>3, <2>4 DEF HeirInv
  <2>6. ASSUME w \in ready', call'[w].pc = call[w].pc,
               call'[w].mutex = call[w].mutex, call'[w].wait = call[w].wait
        PROVE  Heir(w, m)'
    BY <2>2, <2>5, <2>6 DEF Heir
  <2>7. CASE Tick \/ UNCHANGED vars
    BY <2>5, <2>6, <2>7 DEF Tick, vars, Heir
  <2>8. ASSUME NEW t \in Task, Rested(t) \/ TimePasses(t)
        PROVE  Heir(w, m)'
    <3>1. ready' = ready \cup {t}
      BY <2>8 DEF Rested, TimePasses, Readied
    <3>2. call'[w].pc = call[w].pc /\ call'[w].mutex = call[w].mutex
          /\ call'[w].wait = call[w].wait
      <4>1. call \in [Task -> Calls]
        BY DEF KmTypeOK, Calls
      <4> QED BY <2>8, <4>1, TimeEffect DEF Rested, Calls
    <3> QED BY <2>5, <2>6, <3>1, <3>2 DEF Heir
  <2>9. ASSUME NEW t \in Task, TaskStep(t)
        PROVE  Heir(w, m)'
    <3>1. CASE t = w
      <4>1. call[t].pc = "try" /\ call[t].mutex = m
        BY <2>5, <3>1 DEF Heir
      <4>2. TryTakes(t) \/ TryFails(t)
        BY <2>9, <4>1 DEF TaskStep, At, Rest, Take, TakeAgain, BlockLate,
           BlockRetries, Block, LateTake, DisinheritAfterTimeout, GiveOne, Give
      <4>3. TryTakes(t)
        BY <1>3, <4>1, <4>2 DEF TryFails
      <4>4. mutex'[m].holder = t /\ NoTask \notin Task
        BY <4>1, <4>3, TakeEffect DEF Simple, MutexParameters
      <4> QED BY <4>4
    <3>2. CASE t # w
      <4>1. call'[w] = call[w] /\ w \in ready'
        BY <2>5, <2>9, <3>2, Alone DEF Heir
      <4> QED BY <2>6, <4>1
    <3> QED BY <3>1, <3>2
  <2> QED BY <2>7, <2>8, <2>9 DEF Next
<1> QED BY <1>2, <1>3

-----------------------------------------------------------------------------
(* Who is to run. *)

(* The priority of the holder of a mutex falls only as far as those allow  *)
(* who wait for it.                                                        *)
LEMMA InversionStep ==
    ASSUME Simple, KmTypeOK, KmTypeOK', CountInv, CallInv, WaitInv, HeirInv,
           NoInversion, RunsHighest, [Next]_vars
    PROVE  NoInversion'
<1> SUFFICES ASSUME ~fallen', NEW m \in Mutex, mutex'[m].holder # NoTask,
                    NEW i \in DOMAIN mutex'[m].waiting
             PROVE  prio'[mutex'[m].holder] >= Base[mutex'[m].waiting[i]]
  BY DEF NoInversion
<1>1. ~fallen
  <2>1. ASSUME NEW t \in Task, Give(t)
        PROVE  fallen => fallen'
    BY <2>1, GiveIs
  <2>2. fallen => fallen'
    BY <2>1 DEF Next, vars, Tick, TimePasses, Rested, TaskStep, Rest, Take,
       TakeAgain, TryTakes, TryFails, BlockLate, BlockRetries, Block, LateTake,
       DisinheritAfterTimeout, GiveOne
  <2> QED BY <2>2
<1> DEFINE h == mutex[m].holder
           list == mutex[m].waiting
           new == mutex'[m].waiting
<1>2. /\ list \in Seq(Task) /\ new \in Seq(Task)
      /\ h \in Task \cup {NoTask} /\ mutex'[m].holder \in Task
      /\ NoTask \notin Task
  BY DEF KmTypeOK, Simple, MutexParameters
<1>3. \A u \in Task : prio[u] \in Nat /\ prio'[u] \in Nat /\ Base[u] \in Nat
  <2>1. prio' \in [Task -> {Base[u] : u \in Task}]
    BY DEF KmTypeOK
  <2>2. \A u \in Task : Base[u] \in Nat /\ prio[u] \in Nat
    BY Fields
  <2> QED BY <2>1, <2>2
<1>4. /\ new[i] \in Task
      /\ \A j \in DOMAIN list : list[j] \in Task
  BY <1>2
<1>5. CASE mutex'[m].holder # h
  (* m is taken by the task that runs, of a priority not below the heir's *)
  <2>1. PICK t \in Task :
          /\ TryTakes(t) /\ call[t].mutex = m
          /\ h = NoTask /\ mutex'[m].holder = t /\ new = list
    BY <1>5, HolderEffect
  <2>2. list # <<>>
    BY <1>2, <2>1
  <2>3. PICK w \in Task : Heir(w, m)
    BY <2>1, <2>2 DEF HeirInv
  <2>4. current = t /\ prio' = prio
    BY <2>1 DEF TryTakes, At
  <2>5. prio[w] <= prio[t]
    BY <1>1, <2>3, <2>4 DEF RunsHighest, Highest, Heir
  <2>6. prio[w] >= Base[w] /\ Base[w] >= Base[new[i]]
    BY <2>1, <2>3 DEF CountInv, Heir
  <2> QED BY <1>3, <1>4, <2>1, <2>4, <2>5, <2>6
<1>6. CASE mutex'[m].holder = h
  <2> HIDE DEF h, list, new
  <2>1. h \in Task /\ held[h] >= 1
    BY <1>2, <1>6, Counted DEF h
  <2>2. \A j \in DOMAIN list : prio[h] >= Base[list[j]]
    BY <1>1, <1>6 DEF NoInversion, h, list
  <2>3. ASSUME prio'[h] >= prio[h],
               \E j \in DOMAIN list : new[i] = list[j]
        PROVE  prio'[h] >= Base[new[i]]
    <3>1. PICK j \in DOMAIN list : new[i] = list[j]
      BY <2>3
    <3>2. prio[h] >= Base[new[i]]
      BY <2>2, <3>1
    <3> QED BY <1>3, <1>4, <2>1, <2>3, <3>2
  <2>4. ASSUME NEW t \in Task, Block(t)
        PROVE  prio'[h] >= Base[new[i]]
    <3> DEFINE n == call[t].mutex
               g == mutex[n].holder
    <3>1. /\ n \in Mutex /\ g \in Task /\ prio' = Inherit(g, t)
          /\ \A o \in Mutex : o # n => mutex'[o] = mutex[o]
          /\ \E k \in Place(mutex[n].waiting, t) :
               mutex'[n].waiting = InsertAt(mutex[n].waiting, k, t)
      BY <2>4, SleepEffect
    <3>2. /\ prio'[g] >= prio[t] /\ prio'[g] >= prio[g]
          /\ \A u \in Task : u # g => prio'[u] = prio[u]
      BY <3>1, BlockRaises
    <3> HIDE DEF n, g
    <3>3. prio'[h] >= prio[h]
      BY <1>3, <2>1, <3>2
    <3>4. CASE n # m
      <4>1. new = list
        BY <3>1, <3>4 DEF new, list
      <4> QED BY <2>3, <3>3, <4>1 DEF new
    <3>5. CASE n = m
      <4>1. g = h
        BY <3>5 DEF g, h
      <4>2. PICK k \in Place(list, t) : new = InsertAt(list, k, t)
        BY <3>1, <3>5 DEF new, list
      <4>3. k \in 1 .. Len(list) + 1
        BY DEF Place
      <4>4. /\ Len(new) = Len(list) + 1
            /\ \A o \in 1 .. Len(list) + 1 : new[o] =
                 IF o < k THEN list[o] ELSE IF o = k THEN t ELSE list[o - 1]
        <5>1. list \in Seq(Task)
          BY <1>2
        <5>2. /\ Len(InsertAt(list, k, t)) = Len(list) + 1
              /\ \A o \in 1 .. Len(list) + 1 : InsertAt(list, k, t)[o] =
                   IF o < k THEN list[o] ELSE IF o = k THEN t ELSE list[o - 1]
          BY <4>3, <5>1, InsertedAt, SMTT(30)
        <5> QED BY <4>2, <5>2
      <4>5. i \in 1 .. Len(list) + 1 /\ Len(list) \in Nat
        BY <1>2, <4>4 DEF new
      <4>6. CASE i = k
        <5>1. new[i] = t
          BY <4>4, <4>5, <4>6
        <5>2. prio'[h] >= prio[t] /\ prio[t] >= Base[t]
          BY <3>2, <4>1 DEF CountInv
        <5> QED BY <1>3, <2>1, <5>1, <5>2
      <4>7. CASE i < k
        <5>1. i \in DOMAIN list /\ new[i] = list[i]
          BY <1>2, <4>3, <4>4, <4>5, <4>7
        <5> QED BY <2>3, <3>3, <5>1
      <4>8. CASE i > k
        <5>1. i - 1 \in DOMAIN list /\ new[i] = list[i - 1]
          BY <1>2, <4>3, <4>4, <4>5, <4>8
        <5> QED BY <2>3, <3>3, <5>1
      <4> QED BY <4>3, <4>5, <4>6, <4>7, <4>8
    <3> QED BY <3>4, <3>5
  <2>5. ASSUME \A t \in Task : ~Block(t)
        PROVE  \E j \in DOMAIN list : new[i] = list[j]
    BY <2>5, ListEffect DEF list, new
  <2>6. ASSUME NEW t \in Task, DisinheritAfterTimeout(t)
        PROVE  prio'[h] >= Base[new[i]]
    <3> DEFINE n == call[t].mutex
               g == mutex[n].holder
    <3>1. /\ n \in Mutex
          /\ \A u \in Task : u # g => prio'[u] = prio[u]
          /\ prio' # prio => g \in Task /\ held[g] = 1
          /\ g \in Task /\ held[g] = 1 /\ mutex[n].waiting # <<>> =>
                prio'[g] >= prio[mutex[n].waiting[1]]
      BY <2>6, TimeoutLowers
    <3> HIDE DEF n
    <3>2. new = list
      BY <2>6 DEF DisinheritAfterTimeout, new, list
    <3>3. i \in DOMAIN list
      BY <3>2 DEF new
    <3>4. CASE prio'[h] = prio[h]
      BY <2>2, <3>2, <3>3, <3>4
    <3>5. CASE prio'[h] # prio[h]
      <4>1. g = h /\ held[h] = 1
        BY <2>1, <3>1, <3>5
      <4>2. n \in Has(h) /\ m \in Has(h)
        BY <3>1, <4>1 DEF Has, g, h
      <4>3. n = m
        BY <2>1, <4>1, <4>2, Counted
      <4>4. 1 \in DOMAIN list /\ list # <<>>
        BY <1>2, <3>3
      <4>5. prio'[h] >= prio[list[1]] /\ prio[list[1]] >= Base[list[1]]
        BY <1>4, <2>1, <3>1, <4>1, <4>3, <4>4 DEF list, CountInv
      <4>6. Ordered(list)
        BY DEF WaitInv, list
      <4>7. i = 1 \/ 1 < i
        BY <1>2, <3>3
      <4>8. Base[list[1]] >= Base[list[i]]
        <5>1. CASE i = 1
          BY <1>3, <1>4, <4>4, <5>1
        <5>2. CASE 1 < i
          BY <3>3, <4>4, <4>6, <5>2 DEF Ordered
        <5> QED BY <4>7, <5>1, <5>2
      <4> QED BY <1>3, <1>4, <2>1, <3>2, <3>3, <4>4, <4>5, <4>8
    <3> QED BY <3>4, <3>5
  <2>7. ASSUME NEW t \in Task, Give(t)
        PROVE  prio'[h] >= Base[new[i]]
    <3>1. PICK n \in Mutex :
             /\ mutex[n].holder = t
             /\ prio' = Disinherit(t)
             /\ mutex' = [mutex EXCEPT ![n] =
                  [holder |-> NoTask, depth |-> 0,
                   waiting |-> IF mutex[n].waiting = <<>>
                               THEN mutex[n].waiting
                               ELSE Tail(mutex[n].waiting)]]
      BY <2>7, GiveIs
    <3>2. /\ mutex'[n].holder = NoTask
          /\ \A o \in Mutex : o # n => mutex'[o] = mutex[o]
      BY <3>1, GiveEffect
    <3>3. n # m /\ new = list
      BY <1>2, <1>6, <2>1, <3>2 DEF new, list
    <3>4. prio'[h] = prio[h]
      <4>1. CASE h # t
        BY <2>1, <3>1, <4>1 DEF Disinherit, KmTypeOK
      <4>2. CASE h = t
        <5>1. n \in Has(t) /\ m \in Has(t)
          BY <3>1, <4>2 DEF Has, h
        <5>2. held[t] # 1
          BY <3>3, <5>1, Counted
        <5> QED BY <3>1, <5>2 DEF Disinherit
      <4> QED BY <4>1, <4>2
    <3> QED BY <2>2, <3>3, <3>4 DEF new
  <2>8. ASSUME NEW t \in Task, TaskStep(t), ~Block(t), ~Give(t),
               ~DisinheritAfterTimeout(t)
        PROVE  prio' = prio
    BY <2>8 DEF TaskStep, Rest, Take, TakeAgain, TryTakes, TryFails, BlockLate,
       BlockRetries, LateTake, GiveOne
  <2>9. ASSUME NEW t \in Task, TimePasses(t) \/ Rested(t)
        PROVE  prio' = prio
    BY <2>9 DEF TimePasses, Rested
  <2>10. ASSUME Tick \/ UNCHANGED vars
         PROVE  prio'[h] >= Base[new[i]]
    <3>1. prio' = prio /\ new = list
      BY <2>10 DEF Tick, vars, new, list
    <3> QED BY <2>2, <3>1 DEF new
  <2>11. \/ \E t \in Task : Block(t) \/ DisinheritAfterTimeout(t) \/ Give(t)
         \/ /\ \A t \in Task : ~Block(t)
            /\ prio' = prio
         \/ Tick \/ UNCHANGED vars
    BY <2>8, <2>9 DEF Next
  <2>12. ASSUME \A t \in Task : ~Block(t), prio' = prio
         PROVE  prio'[h] >= Base[new[i]]
    <3>1. PICK j \in DOMAIN list : new[i] = list[j]
      BY <2>5, <2>12
    <3> QED BY <2>2, <2>12, <3>1
  <2>13. prio'[h] >= Base[new[i]]
    BY <2>4, <2>6, <2>7, <2>10, <2>11, <2>12
  <2> QED BY <1>6, <2>13 DEF new
<1> QED BY <1>5, <1>6

(* The task that runs stays one of the highest priority.                   *)
LEMMA HighestStep ==
    ASSUME Simple, KmTypeOK, CountInv, CallInv, WaitInv, NoInversion,
           RunsHighest, [Next]_vars
    PROVE  RunsHighest'
<1> SUFFICES ASSUME ~fallen' PROVE current' \in Highest(ready', prio')
  BY DEF RunsHighest, Highest
<1> DEFINE Goal == current' \in Highest(ready', prio')
<1>1. ~fallen
  <2>1. ASSUME NEW t \in Task, Give(t)
        PROVE  fallen => fallen'
    BY <2>1, GiveIs
  <2>2. fallen => fallen'
    BY <2>1 DEF Next, vars, Tick, TimePasses, Rested, TaskStep, Rest, Take,
       TakeAgain, TryTakes, TryFails, BlockLate, BlockRetries, Block, LateTake,
       DisinheritAfterTimeout, GiveOne
  <2> QED BY <2>2
<1>2. current \in Highest(ready, prio)
  BY <1>1 DEF RunsHighest
<1>3. ASSUME current' = current, ready' = ready, prio' = prio
      PROVE  Goal
  BY <1>2, <1>3
<1>4. ASSUME Tick \/ UNCHANGED vars
      PROVE  Goal
  BY <1>3, <1>4 DEF Tick, vars, Highest
<1>5. ASSUME NEW t \in Task, TimePasses(t) \/ Rested(t)
      PROVE  Goal
  <2>1. Readied(t) /\ prio' = prio
    BY <1>5 DEF TimePasses, Rested
  <2> QED BY <1>2, <2>1, ReadiedEffect
<1>6. ASSUME NEW t \in Task, TaskStep(t)
      PROVE  Goal
  <2>1. CASE Rest(t)
    BY <2>1 DEF Rest, Highest
  <2>2. CASE Block(t)
    BY <2>2 DEF Block, Yield
  <2>3. CASE Take(t) \/ TakeAgain(t) \/ TryTakes(t) \/ TryFails(t)
             \/ BlockLate(t) \/ BlockRetries(t) \/ LateTake(t) \/ GiveOne(t)
    BY <1>3, <2>3 DEF Take, TakeAgain, TryTakes, TryFails, BlockLate,
                      BlockRetries, LateTake, GiveOne
  <2>4. CASE Give(t)
    BY <1>2, <2>4, GiveIs DEF Highest
  <2>5. CASE DisinheritAfterTimeout(t)
    <3> DEFINE m == call[t].mutex
               h == mutex[m].holder
    <3>1. /\ current = t /\ current' = t /\ ready' = ready
          /\ call[t].pc = "disinherit"
      BY <2>5 DEF DisinheritAfterTimeout, At
    <3>2. /\ m \in Mutex
          /\ \A u \in Task : u # h => prio'[u] = prio[u]
          /\ prio' # prio => h \in Task /\ held[h] = 1
          /\ h \in Task /\ held[h] = 1 =>
               \/ prio'[h] = Base[h]
               \/ /\ mutex[m].waiting # <<>>
                  /\ prio'[h] = prio[mutex[m].waiting[1]]
      BY <2>5, TimeoutLowers
    <3>3. held[t] = 0
      BY <3>1 DEF CallInv
    <3>4. CASE prio' = prio
      BY <1>3, <3>1, <3>4
    <3>5. CASE prio' # prio
      <4>1. h \in Task /\ held[h] = 1 /\ h # t
        BY <3>2, <3>3, <3>5
      <4>2. prio[h] >= Base[h] /\ prio[h] \in Nat /\ Base[h] \in Nat
        BY <4>1, Fields DEF CountInv
      <4>3. prio'[h] <= prio[h]
        <5>1. CASE prio'[h] = Base[h]
          BY <4>2, <5>1
        <5>2. CASE /\ mutex[m].waiting # <<>>
                   /\ prio'[h] = prio[mutex[m].waiting[1]]
          <6> DEFINE w == mutex[m].waiting[1]
          <6>1. mutex[m].waiting \in Seq(Task)
            BY <3>2, Fields
          <6>2. 1 \in DOMAIN mutex[m].waiting /\ w \in Task
            BY <5>2, <6>1
          <6>3. Waits(w, m)
            BY <3>2, <6>2 DEF WaitInv
          <6>4. prio[h] >= Base[w]
            <7>1. h # NoTask
              BY <4>1 DEF Simple, MutexParameters
            <7> QED BY <1>1, <3>2, <6>2, <7>1 DEF NoInversion
          <6> HIDE DEF w
          <6>5. prio[w] = Base[w]
            BY <6>2, <6>3 DEF Waits, CallInv, CountInv
          <6> QED BY <4>2, <5>2, <6>2, <6>4, <6>5, Fields DEF w
        <5> QED BY <3>2, <4>1, <5>1, <5>2
      <4> HIDE DEF h, m
      <4>4. prio'[t] = prio[t]
        BY <3>2, <4>1
      <4>5. ASSUME NEW u \in ready
            PROVE  prio'[u] <= prio[t]
        <5>1. u \in Task /\ prio[u] <= prio[t] /\ prio[u] \in Nat
              /\ prio[t] \in Nat
          BY <1>2, <3>1, Fields DEF Highest, KmTypeOK
        <5>2. CASE u = h
          <6>1. prio'[h] \in Nat
            <7>1. prio' \in [Task -> {Base[x] : x \in Task}]
              BY <2>5, TimeoutLowers
            <7>2. \A x \in Task : Base[x] \in Nat
              BY Fields
            <7> QED BY <4>1, <7>1, <7>2
          <6> QED BY <4>2, <4>3, <5>1, <5>2, <6>1
        <5>3. CASE u # h
          BY <3>2, <5>1, <5>3
        <5> QED BY <5>2, <5>3
      <4> QED BY <1>2, <3>1, <4>4, <4>5 DEF Highest
    <3> QED BY <3>4, <3>5
  <2> QED BY <1>6, <2>1, <2>2, <2>3, <2>4, <2>5 DEF TaskStep
<1> QED BY <1>4, <1>5, <1>6 DEF Next

LEMMA InvInit == ASSUME Simple PROVE Init => MutexInv
<1> SUFFICES ASSUME Init PROVE MutexInv
  OBVIOUS
<1>1. KmTypeOK
  BY TypeInit
<1>2. \A m \in Mutex : mutex[m].holder = NoTask /\ mutex[m].waiting = <<>>
  BY DEF Init
<1>3. \A t \in Task : Has(t) = {}
  BY <1>2 DEF Has, Simple, MutexParameters
<1>4. CountInv
  <2>1. \A t \in Task : held[t] = 0 /\ prio[t] = Base[t] /\ Base[t] \in Nat
    BY DEF Init, Simple, MutexParameters
  <2> QED BY <1>3, <2>1, FS_EmptySet DEF CountInv
<1>5. CallInv
  BY DEF Init, CallInv, NoCall
<1>6. WaitInv /\ HeirInv
  BY <1>2 DEF WaitInv, HeirInv, Ordered
<1>7. NoInversion
  BY <1>2 DEF NoInversion
<1>8. RunsHighest
  BY DEF RunsHighest, Init, Highest
<1> QED BY <1>1, <1>4, <1>5, <1>6, <1>7, <1>8 DEF MutexInv

(* The invariant is inductive. *)
LEMMA Invariant == ASSUME Simple PROVE Spec => []MutexInv
<1>1. Init => MutexInv
  BY InvInit
<1>2. MutexInv /\ [Next]_vars => MutexInv'
  <2> SUFFICES ASSUME MutexInv, [Next]_vars PROVE MutexInv'
    OBVIOUS
  <2>1. /\ KmTypeOK /\ CountInv /\ CallInv /\ WaitInv /\ HeirInv
        /\ NoInversion /\ RunsHighest
    BY DEF MutexInv
  <2>2. KmTypeOK'
    BY <2>1, TypeStep
  <2>3. CountInv' /\ CallInv' /\ WaitInv'
    BY <2>1, <2>2, CountStep, CallInvStep, WaitStep
  <2>4. HeirInv'
    BY <2>1, <2>2, HeirStep
  <2>5. NoInversion'
    BY <2>1, <2>2, InversionStep
  <2>6. RunsHighest'
    BY <2>1, HighestStep
  <2> QED BY <2>2, <2>3, <2>4, <2>5, <2>6 DEF MutexInv
<1> QED BY <1>1, <1>2, PTL DEF Spec

-----------------------------------------------------------------------------
(* The variables keep their types, however many tasks and mutexes. *)
THEOREM KmTypeCorrect == ASSUME Simple PROVE Spec => []KmTypeOK
<1>1. MutexInv => KmTypeOK
  BY DEF MutexInv
<1> QED BY <1>1, Invariant, PTL

(* A task that has no mutex has its own priority (uxMutexesHeld counts     *)
(* what xTaskPriorityDisinherit and the way back after a time-out need).   *)
THEOREM BaseWithoutMutexAlways == ASSUME Simple PROVE Spec => []BaseWithoutMutex
<1>1. MutexInv => BaseWithoutMutex
  BY DEF MutexInv, CountInv, BaseWithoutMutex
<1> QED BY <1>1, Invariant, PTL

(* Nobody has a mutex at a lower priority than that of a task that waits   *)
(* for it, until a give goes on although it should not: whoever takes a    *)
(* mutex others wait for has to be of the highest priority, and a time-out *)
(* lowers the holder's only to that of the first on the list.              *)
THEOREM NoInversionAlways == ASSUME Simple PROVE Spec => []NoInversion
<1>1. MutexInv => NoInversion
  BY DEF MutexInv
<1> QED BY <1>1, Invariant, PTL

(* The task that runs is one of the highest priority, until then. *)
THEOREM RunsHighestAlways == ASSUME Simple PROVE Spec => []RunsHighest
<1>1. MutexInv => RunsHighest
  BY DEF MutexInv
<1> QED BY <1>1, Invariant, PTL
=============================================================================
