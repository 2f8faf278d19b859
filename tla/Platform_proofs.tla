-------------------------- MODULE Platform_proofs ---------------------------
(***************************************************************************)
(* Proofs about the composition Platform: the stream of the sound core     *)
(* and the transfers by DMA, and with KernelQueue_proofs the queue.  Each  *)
(* part has an inductive invariant of its own, which a step of another     *)
(* part leaves as it is.                                                   *)
(***************************************************************************)
EXTENDS Platform, KernelQueue_proofs

-----------------------------------------------------------------------------
(* The stream of the sound core.                                           *)
RtState ==
    [stream : PcmStreams, state : Pcm!States, hw : 0..PcmBoundary - 1,
     base : {b \in 0..PcmBoundary - 1 : b % PcmBuffer = 0},
     appl : 0..PcmBoundary - 1, twake : 0..PcmPeriod,
     dma : {"off", "on", "paused"}, irq : BOOLEAN,
     done : 0..PcmBoundary - 1, tsleep : Pcm!Sleepers, sleep : Pcm!Sleepers]

AppState ==
    [pc : Pcm!Points, op : {"transfer", "drain"}, size : Nat,
     avail : 0..PcmBoundary - 1, moved : Nat, frames : 0..PcmBuffer,
     from : 0..PcmBoundary - 1, late : BOOLEAN]

(* A stream whose pointers mean something: its DMA is on or on hold, or    *)
(* nothing has moved yet.                                                  *)
Alive(r) == r.dma # "off" \/ r.state = "prepared"

PeriodOf(x) == x - (x % PcmPeriod)

(* hw_ptr and the DMA are in the same period, or the DMA is in the next.   *)
Same(r) == PeriodOf(r.done) = PeriodOf(r.hw) /\ r.hw <= r.done
Near(r) ==
    \/ Same(r)
    \/ PeriodOf(r.done) = PeriodOf(r.hw) + PcmPeriod
    \/ PeriodOf(r.done) = 0 /\ PeriodOf(r.hw) = PcmBoundary - PcmPeriod

(* What an update of hw_ptr relies upon, and what holds between steps: the *)
(* DMA has left the period of hw_ptr only if an interrupt is pending.      *)
Ready(r) ==
    /\ Near(r) /\ Pcm!Avail(r) <= PcmBuffer
    /\ r.base = r.hw - (r.hw % PcmBuffer)
    /\ r.dma # "on" => r.hw = r.done

Follows(r) ==
    /\ r.dma = "on" => Pcm!Running(r)
    /\ r.dma = "paused" => r.state = "paused"

Updatable(r) == r \in RtState /\ Follows(r) /\ (Alive(r) => Ready(r))
RtInv(r) == Updatable(r) /\ (Alive(r) /\ ~r.irq => Same(r))

Queued(r) == PcmBuffer - Pcm!Avail(r)

RingInv(g, r) ==
    Pcm!Playback(r) /\ Alive(r) =>
        \A j \in 0..Queued(r) - 1 :
            g[(r.hw + j) % PcmBuffer] = (r.hw + j) % PcmBoundary

(* A copy is of frames for which there is room, or which are there.        *)
AppInv(r, a) ==
    /\ a \in AppState
    /\ a.pc # "idle" /\ a.op = "transfer" => r.twake > 0
    /\ a.pc = "copy" =>
          /\ a.op = "transfer" /\ a.from = r.appl
          /\ 0 < a.frames /\ a.frames <= a.avail /\ a.frames <= a.size
          /\ Alive(r) => a.avail <= Pcm!Avail(r)
    /\ a.pc \notin {"idle", "copy"} =>
          /\ a.avail = 0
          /\ a.op = "transfer" => a.size > 0

RingTyped(g) ==
    /\ DOMAIN g = 0..PcmBuffer - 1
    /\ \A i \in DOMAIN g : g[i] \in 0..PcmBoundary - 1 \cup {PcmSilence}

PcmInv ==
    /\ RtInv(pRt) /\ RingInv(pRing, pRt) /\ AppInv(pRt, pApp)
    /\ RingTyped(pRing) /\ pControl \in 0..PcmMaxControl

(* Numbers.                                                                *)
LEMMA ModOf ==
    ASSUME NEW B \in Nat \ {0}, NEW a \in Int
    PROVE  /\ a % B \in 0..B - 1
           /\ a \in 0..B - 1 => a % B = a
           /\ a \in B..2 * B - 1 => a % B = a - B
OBVIOUS

LEMMA Multiples ==
    ASSUME NEW B \in Nat \ {0}, NEW a \in Nat, NEW b \in Nat,
           a % B = 0, b % B = 0, a < b
    PROVE  a + B <= b /\ (a + B) % B = 0
<1> DEFINE i == a \div B
           j == b \div B
<1>1. i \in Nat /\ j \in Nat /\ a = B * i /\ b = B * j
  OBVIOUS
<1> HIDE DEF i, j
<1>2. i < j
  BY <1>1
<1>3. B * j >= B * (i + 1)
  BY <1>1, <1>2
<1>4. B * (i + 1) = a + B
  BY <1>1
<1>5. (B * (i + 1)) % B = 0
  BY <1>1
<1> QED BY <1>1, <1>3, <1>4, <1>5

(* What the sizes are to each other.                                       *)
LEMMA SizesAre ==
    ASSUME Pcm!PcmParameters
    PROVE  /\ PcmBuffer \in Nat \ {0} /\ PcmPeriod \in Nat \ {0}
           /\ PcmBoundary \in Nat \ {0}
           /\ PcmBuffer % PcmPeriod = 0 /\ PcmBoundary % PcmBuffer = 0
           /\ PcmBoundary % PcmPeriod = 0
           /\ 2 * PcmPeriod <= PcmBuffer /\ 3 * PcmBuffer <= PcmBoundary
<1>1. /\ PcmBuffer \in Nat \ {0} /\ PcmPeriod \in Nat \ {0}
      /\ PcmBoundary \in Nat \ {0} /\ PcmPeriod < PcmBuffer
      /\ PcmBuffer % PcmPeriod = 0 /\ PcmBoundary % PcmBuffer = 0
      /\ 3 * PcmBuffer <= PcmBoundary
  BY DEF Pcm!PcmParameters
<1>2. PcmPeriod % PcmPeriod = 0
  BY <1>1
<1>3. PcmPeriod + PcmPeriod <= PcmBuffer
  BY <1>1, <1>2, Multiples
<1>4. PcmBoundary % PcmPeriod = 0
  <2> DEFINE m == PcmBoundary \div PcmBuffer
             n == PcmBuffer \div PcmPeriod
  <2>1. m \in Nat /\ n \in Nat /\ PcmBoundary = PcmBuffer * m
        /\ PcmBuffer = PcmPeriod * n
    BY <1>1
  <2> HIDE DEF m, n
  <2> DEFINE k == n * m
  <2>2. k \in Nat /\ PcmBoundary = PcmPeriod * k
    BY <1>1, <2>1
  <2> HIDE DEF k
  <2>3. (PcmPeriod * k) % PcmPeriod = 0
    BY <1>1, <2>2
  <2> QED BY <2>2, <2>3
<1> QED BY <1>1, <1>3, <1>4

LEMMA RtFields ==
    ASSUME NEW r \in RtState
    PROVE  /\ r.stream \in PcmStreams /\ r.state \in Pcm!States
           /\ r.hw \in 0..PcmBoundary - 1 /\ r.base \in 0..PcmBoundary - 1
           /\ r.base % PcmBuffer = 0
           /\ r.appl \in 0..PcmBoundary - 1 /\ r.twake \in 0..PcmPeriod
           /\ r.dma \in {"off", "on", "paused"} /\ r.irq \in BOOLEAN
           /\ r.done \in 0..PcmBoundary - 1
           /\ r.tsleep \in Pcm!Sleepers /\ r.sleep \in Pcm!Sleepers
BY DEF RtState

LEMMA AvailIs ==
    ASSUME Pcm!PcmParameters, NEW r \in RtState
    PROVE  /\ Pcm!Avail(r) \in 0..PcmBoundary - 1
           /\ Pcm!Playback(r) =>
                \/ Pcm!Avail(r) = r.hw + PcmBuffer - r.appl
                \/ Pcm!Avail(r) = r.hw + PcmBuffer - r.appl + PcmBoundary
                \/ Pcm!Avail(r) = r.hw + PcmBuffer - r.appl - PcmBoundary
           /\ ~Pcm!Playback(r) =>
                \/ Pcm!Avail(r) = r.hw - r.appl
                \/ Pcm!Avail(r) = r.hw - r.appl + PcmBoundary
BY SizesAre, RtFields DEF Pcm!Avail

(* The pointers alone decide about it.                                     *)
LEMMA AvailOf ==
    ASSUME Pcm!PcmParameters, NEW r \in RtState, NEW s \in RtState,
           s.stream = r.stream, s.hw = r.hw, s.appl = r.appl
    PROVE  Pcm!Avail(s) = Pcm!Avail(r)
BY DEF Pcm!Avail, Pcm!Playback

LEMMA WokenIs ==
    ASSUME Pcm!PcmParameters, NEW s \in Pcm!Sleepers
    PROVE  Pcm!Woken(s) \in Pcm!Sleepers
<1>1. s.tokens \in 0..PcmMaxTokens /\ s.waiting \in BOOLEAN
      /\ PcmMaxTokens \in Nat
  BY DEF Pcm!Sleepers, Pcm!PcmParameters
<1>2. Pcm!Smaller(s.tokens + 1, PcmMaxTokens) \in 0..PcmMaxTokens
  BY <1>1 DEF Pcm!Smaller
<1> DEFINE n == Pcm!Smaller(s.tokens + 1, PcmMaxTokens)
<1> HIDE DEF n
<1>3. [s EXCEPT !.tokens = n] \in Pcm!Sleepers
  BY <1>1, <1>2 DEF Pcm!Sleepers, n
<1> QED BY <1>3 DEF Pcm!Woken, n

(* Records that differ in nothing but the state, the DMA and the sleepers. *)
Kept(r, s) ==
    /\ s \in RtState
    /\ s.stream = r.stream /\ s.hw = r.hw /\ s.base = r.base
    /\ s.appl = r.appl /\ s.done = r.done /\ (s.irq <=> r.irq)
    /\ s.twake = r.twake

LEMMA StoppedIs ==
    ASSUME Pcm!PcmParameters, NEW r \in RtState, NEW state \in Pcm!States
    PROVE  /\ Kept(r, Pcm!Stopped(r, state))
           /\ Pcm!Stopped(r, state).state = state
           /\ Pcm!Stopped(r, state).dma = IF Pcm!Running(r) THEN "off" ELSE r.dma
<1> DEFINE t == Pcm!Woken(r.tsleep)
           w == Pcm!Woken(r.sleep)
           d == IF Pcm!Running(r) THEN "off" ELSE r.dma
           s == [r EXCEPT !.dma = d, !.state = state, !.tsleep = t, !.sleep = w]
<1>1. t \in Pcm!Sleepers /\ w \in Pcm!Sleepers
  BY WokenIs, RtFields
<1>2. d \in {"off", "on", "paused"}
  BY RtFields
<1>3. Pcm!Stopped(r, state) = s
  BY DEF Pcm!Stopped
<1> HIDE DEF t, w, d
<1>4. /\ s \in RtState /\ s.state = state /\ s.dma = d
      /\ s.stream = r.stream /\ s.hw = r.hw /\ s.base = r.base
      /\ s.appl = r.appl /\ s.done = r.done /\ s.irq = r.irq
      /\ s.twake = r.twake
  BY <1>1, <1>2 DEF RtState
<1> QED BY <1>3, <1>4 DEF Kept, d

(* snd_pcm_update_state stops a stream or leaves it as it is.              *)
LEMMA UpdatedIs ==
    ASSUME Pcm!PcmParameters, NEW r \in RtState
    PROVE  /\ Kept(r, Pcm!StateUpdated(r))
           /\ Pcm!Avail(r) < PcmBuffer => /\ Pcm!StateUpdated(r).state = r.state
                                          /\ Pcm!StateUpdated(r).dma = r.dma
           /\ Pcm!Avail(r) >= PcmBuffer =>
                 /\ Pcm!StateUpdated(r).state \in {"setup", "xrun"}
                 /\ r.state = "draining" => Pcm!StateUpdated(r).state = "setup"
                 /\ r.state # "draining" => Pcm!StateUpdated(r).state = "xrun"
                 /\ Pcm!StateUpdated(r).dma = IF Pcm!Running(r) THEN "off" ELSE r.dma
<1>1. Pcm!Avail(r) \in Int /\ PcmBuffer \in Int /\ PcmPeriod \in Int
      /\ r.twake \in Int
  BY AvailIs, SizesAre, RtFields
<1>2. CASE Pcm!Avail(r) >= PcmBuffer
  <2>1. Pcm!StateUpdated(r) = Pcm!Stopped(r, IF r.state = "draining" THEN "setup" ELSE "xrun")
    BY <1>2 DEF Pcm!StateUpdated
  <2>2. "setup" \in Pcm!States /\ "xrun" \in Pcm!States
    BY DEF Pcm!States
  <2> QED BY <1>1, <1>2, <2>1, <2>2, StoppedIs
<1>3. CASE ~(Pcm!Avail(r) >= PcmBuffer)
  <2> DEFINE t == Pcm!Woken(r.tsleep)
             w == Pcm!Woken(r.sleep)
  <2>1. Pcm!StateUpdated(r) \in {r, [r EXCEPT !.tsleep = t], [r EXCEPT !.sleep = w]}
    BY <1>3 DEF Pcm!StateUpdated
  <2>2. t \in Pcm!Sleepers /\ w \in Pcm!Sleepers
    BY WokenIs, RtFields
  <2> HIDE DEF t, w
  <2>3. ASSUME NEW s \in {r, [r EXCEPT !.tsleep = t], [r EXCEPT !.sleep = w]}
        PROVE  Kept(r, s) /\ s.state = r.state /\ s.dma = r.dma
    <3>1. CASE s = r
      BY <3>1 DEF Kept
    <3>2. CASE s = [r EXCEPT !.tsleep = t]
      BY <2>2, <3>2 DEF Kept, RtState
    <3>3. CASE s = [r EXCEPT !.sleep = w]
      BY <2>2, <3>3 DEF Kept, RtState
    <3> QED BY <3>1, <3>2, <3>3
  <2> QED BY <1>1, <1>3, <2>1, <2>3
<1> QED BY <1>2, <1>3

(* A number is in one block of a given size.                               *)
LEMMA BlockIs ==
    ASSUME NEW B \in Nat \ {0}, NEW b \in Nat, NEW x \in Nat,
           b % B = 0, b <= x, x < b + B
    PROVE  b = x - (x % B)
<1> DEFINE c == x - (x % B)
<1>1. c \in Nat /\ c <= x /\ x < c + B
  OBVIOUS
<1>2. c % B = 0
  <2> DEFINE i == x \div B
  <2>1. i \in Nat /\ c = B * i
    OBVIOUS
  <2> HIDE DEF i, c
  <2> QED BY <2>1
<1> HIDE DEF c
<1>3. ~(b < c)
  <2> SUFFICES ASSUME b < c PROVE FALSE
    OBVIOUS
  <2>1. b + B <= c
    BY <1>1, <1>2, Multiples
  <2> QED BY <1>1, <2>1
<1>4. ~(c < b)
  <2> SUFFICES ASSUME c < b PROVE FALSE
    OBVIOUS
  <2>1. c + B <= b
    BY <1>1, <1>2, Multiples
  <2> QED BY <1>1, <2>1
<1>5. b = c
  BY <1>1, <1>3, <1>4
<1> QED BY <1>5 DEF c

LEMMA StartOf ==
    ASSUME NEW B \in Nat \ {0}, NEW x \in Nat
    PROVE  /\ x - (x % B) \in Nat /\ (x - (x % B)) % B = 0
           /\ x - (x % B) <= x /\ x < x - (x % B) + B
<1> DEFINE i == x \div B
           c == x - (x % B)
<1>1. i \in Nat /\ c = B * i /\ c \in Nat /\ c <= x /\ x < c + B
  OBVIOUS
<1> HIDE DEF i, c
<1>2. c % B = 0
  BY <1>1
<1> QED BY <1>1, <1>2 DEF c

(* A multiple of the buffer is one of the period.                          *)
LEMMA BlocksOfPeriods ==
    ASSUME Pcm!PcmParameters, NEW b \in Nat, b % PcmBuffer = 0
    PROVE  b % PcmPeriod = 0
<1>1. PcmBuffer \in Nat \ {0} /\ PcmPeriod \in Nat \ {0}
      /\ PcmBuffer % PcmPeriod = 0
  BY SizesAre
<1> DEFINE m == b \div PcmBuffer
           n == PcmBuffer \div PcmPeriod
           k == n * m
<1>2. m \in Nat /\ n \in Nat /\ b = PcmBuffer * m /\ PcmBuffer = PcmPeriod * n
  BY <1>1
<1> HIDE DEF m, n
<1>3. k \in Nat /\ b = PcmPeriod * k
  BY <1>1, <1>2
<1> HIDE DEF k
<1>4. (PcmPeriod * k) % PcmPeriod = 0
  BY <1>1, <1>3
<1> QED BY <1>3, <1>4

(* The base that an update finds for hw_ptr, when the DMA has not gone     *)
(* past the next period, is that of the DMA's position.                    *)
LEMMA Catches ==
    ASSUME Pcm!PcmParameters, NEW hw \in 0..PcmBoundary - 1,
           NEW done \in 0..PcmBoundary - 1,
           \/ PeriodOf(done) = PeriodOf(hw) /\ hw <= done
           \/ PeriodOf(done) = PeriodOf(hw) + PcmPeriod
           \/ PeriodOf(done) = 0 /\ PeriodOf(hw) = PcmBoundary - PcmPeriod
    PROVE  LET b == hw - (hw % PcmBuffer)
               at == done % PcmBuffer
           IN  /\ (IF b + at >= hw THEN b
                   ELSE IF b + PcmBuffer >= PcmBoundary THEN 0 ELSE b + PcmBuffer)
                  = done - at
               /\ (IF done < hw THEN done - hw + PcmBoundary ELSE done - hw)
                  \in 0..2 * PcmPeriod - 1
<1> DEFINE b == hw - (hw % PcmBuffer)
           at == done % PcmBuffer
           h == PeriodOf(hw)
           e == PeriodOf(done)
<1>1. /\ PcmBuffer \in Nat \ {0} /\ PcmPeriod \in Nat \ {0}
      /\ PcmBoundary \in Nat \ {0}
      /\ PcmBuffer % PcmPeriod = 0 /\ PcmBoundary % PcmBuffer = 0
      /\ PcmBoundary % PcmPeriod = 0
      /\ 2 * PcmPeriod <= PcmBuffer /\ 3 * PcmBuffer <= PcmBoundary
  BY SizesAre
<1>2. hw \in Nat /\ done \in Nat /\ hw < PcmBoundary /\ done < PcmBoundary
  BY <1>1
<1>3. b \in Nat /\ b % PcmBuffer = 0 /\ b <= hw /\ hw < b + PcmBuffer
  BY <1>1, <1>2, StartOf
<1>4. h \in Nat /\ h % PcmPeriod = 0 /\ h <= hw /\ hw < h + PcmPeriod
  BY <1>1, <1>2, StartOf DEF PeriodOf
<1>5. e \in Nat /\ e % PcmPeriod = 0 /\ e <= done /\ done < e + PcmPeriod
  BY <1>1, <1>2, StartOf DEF PeriodOf
<1>6. at \in 0..PcmBuffer - 1 /\ done - at \in Nat
      /\ (done - at) % PcmBuffer = 0
  <2>1. at \in 0..PcmBuffer - 1
    BY <1>1, <1>2
  <2> QED BY <1>1, <1>2, <2>1, StartOf
<1>7. \A c \in Nat : c % PcmBuffer = 0 /\ c <= done /\ done < c + PcmBuffer => c = done - at
  BY <1>1, <1>2, BlockIs
<1>9. \/ e = h /\ hw <= done
      \/ e = h + PcmPeriod
      \/ e = 0 /\ h = PcmBoundary - PcmPeriod
  OBVIOUS
<1> HIDE DEF b, h, e, at
<1>10. b % PcmPeriod = 0
  BY <1>3, BlocksOfPeriods
<1>11. b <= h
  <2> SUFFICES ASSUME h < b PROVE FALSE
    BY <1>3, <1>4
  <2>1. h + PcmPeriod <= b
    BY <1>1, <1>3, <1>4, <1>10, Multiples
  <2> QED BY <1>1, <1>3, <1>4, <2>1
<1>12. (b + PcmBuffer) % PcmPeriod = 0 /\ b + PcmBuffer \in Nat
       /\ (b + PcmBuffer) % PcmBuffer = 0 /\ b + PcmBuffer <= PcmBoundary
  <2>3. b < PcmBoundary
    BY <1>1, <1>2, <1>3
  <2>1. b + PcmBuffer <= PcmBoundary /\ (b + PcmBuffer) % PcmBuffer = 0
    BY <1>1, <1>3, <2>3, Multiples
  <2>2. b + PcmBuffer \in Nat
    BY <1>1, <1>3
  <2> QED BY <2>1, <2>2, BlocksOfPeriods
<1>13. h + PcmPeriod <= b + PcmBuffer
  <2>1. h < b + PcmBuffer
    BY <1>3, <1>4, <1>1
  <2> QED BY <1>1, <1>4, <1>12, <2>1, Multiples
<1>14. CASE e = h /\ hw <= done
  <2>1. b = done - at
    BY <1>1, <1>2, <1>3, <1>4, <1>5, <1>7, <1>11, <1>13, <1>14
  <2>2. done - hw \in 0..2 * PcmPeriod - 1
    BY <1>1, <1>2, <1>4, <1>5, <1>14
  <2> QED BY <1>1, <1>2, <1>3, <1>6, <1>14, <2>1, <2>2 DEF b, at
<1>15. CASE e = h + PcmPeriod
  <2>1. done > hw /\ done - hw \in 0..2 * PcmPeriod - 1
    BY <1>1, <1>2, <1>4, <1>5, <1>15
  <2>2. CASE e < b + PcmBuffer
    <3>1. e + PcmPeriod <= b + PcmBuffer
      BY <1>1, <1>5, <1>12, <2>2, Multiples
    <3>2. b = done - at
      BY <1>1, <1>2, <1>3, <1>4, <1>5, <1>7, <1>11, <1>15, <3>1
    <3> QED BY <1>1, <1>2, <1>3, <1>6, <2>1, <3>2 DEF b, at
  <2>3. CASE ~(e < b + PcmBuffer)
    <3>1. e = b + PcmBuffer
      BY <1>1, <1>3, <1>4, <1>5, <1>13, <1>15, <2>3
    <3>2. b + PcmBuffer = done - at
      BY <1>1, <1>2, <1>5, <1>7, <1>12, <3>1
    <3>3. b + at < hw
      BY <1>1, <1>2, <1>3, <1>4, <1>5, <1>6, <1>15, <3>1, <3>2
    <3>4. b + PcmBuffer < PcmBoundary
      BY <1>1, <1>2, <1>5, <3>1
    <3> QED BY <1>1, <1>2, <1>3, <1>6, <2>1, <3>2, <3>3, <3>4 DEF b, at
  <2> QED BY <2>2, <2>3
<1>16. CASE e = 0 /\ h = PcmBoundary - PcmPeriod
  <2>1. 0 = done - at
    BY <1>1, <1>2, <1>5, <1>7, <1>16
  <2>2. b + PcmBuffer = PcmBoundary
    <3> SUFFICES ASSUME b + PcmBuffer < PcmBoundary PROVE FALSE
      BY <1>1, <1>3, <1>12
    <3>1. b + PcmBuffer + PcmPeriod <= PcmBoundary
      BY <1>1, <1>12, Multiples
    <3> QED BY <1>1, <1>3, <1>4, <1>16, <3>1
  <2>3. b + at < hw /\ done < hw
    BY <1>1, <1>2, <1>3, <1>4, <1>5, <1>6, <1>16, <2>1, <2>2
  <2>4. done - hw + PcmBoundary \in 0..2 * PcmPeriod - 1
    BY <1>1, <1>2, <1>4, <1>5, <1>16
  <2> QED BY <1>1, <1>2, <1>3, <1>6, <2>1, <2>2, <2>3, <2>4 DEF b, at
<1> QED BY <1>9, <1>14, <1>15, <1>16

LEMMA PointerIs ==
    ASSUME Pcm!PcmParameters, NEW r \in RtState
    PROVE  /\ Pcm!Pointer(r) \in 0..PcmBuffer - 1
           /\ r.dma # "off" => Pcm!Pointer(r) = r.done % PcmBuffer
<1>1. /\ PcmBuffer \in Nat \ {0} /\ PcmPeriod \in Nat \ {0}
      /\ 2 * PcmPeriod <= PcmBuffer /\ r.done \in Nat
  BY SizesAre, RtFields
<1>2. r.done % PcmBuffer \in 0..PcmBuffer - 1
      /\ r.done % PcmPeriod \in 0..PcmPeriod - 1
  BY <1>1
<1> QED BY <1>1, <1>2 DEF Pcm!Pointer

(* Any update of hw_ptr leaves a stream of the right type.                 *)
LEMMA HwPtrTyped ==
    ASSUME Pcm!PcmParameters, NEW r \in RtState
    PROVE  LET s == Pcm!HwPtrUpdated(r)
           IN  /\ s \in RtState /\ s.stream = r.stream /\ s.appl = r.appl
               /\ s.done = r.done /\ (s.irq <=> r.irq) /\ s.twake = r.twake
               /\ \/ s.state = r.state /\ s.dma = r.dma
                  \/ /\ s.state \in {"setup", "xrun"}
                     /\ s.dma = IF Pcm!Running(r) THEN "off" ELSE r.dma
<1> DEFINE base == IF r.base + Pcm!Pointer(r) >= r.hw THEN r.base
                   ELSE IF r.base + PcmBuffer >= PcmBoundary THEN 0
                   ELSE r.base + PcmBuffer
           new == base + Pcm!Pointer(r)
           u == [r EXCEPT !.base = base, !.hw = new]
<1>1. /\ PcmBuffer \in Nat \ {0} /\ PcmBoundary \in Nat \ {0}
      /\ PcmBoundary % PcmBuffer = 0 /\ 3 * PcmBuffer <= PcmBoundary
      /\ Pcm!Pointer(r) \in 0..PcmBuffer - 1
  BY SizesAre, PointerIs
<1>2. r.base \in Nat /\ r.base < PcmBoundary /\ r.base % PcmBuffer = 0
  BY <1>1, RtFields
<1>3. r.base + PcmBuffer <= PcmBoundary /\ (r.base + PcmBuffer) % PcmBuffer = 0
  BY <1>1, <1>2, Multiples
<1>4. base \in 0..PcmBoundary - 1 /\ base % PcmBuffer = 0
  BY <1>1, <1>2, <1>3
<1>5. base + PcmBuffer <= PcmBoundary
  <2> HIDE DEF base
  <2>1. base \in Nat /\ base < PcmBoundary
    BY <1>1, <1>4
  <2> QED BY <1>1, <1>4, <2>1, Multiples
<1>6. new \in 0..PcmBoundary - 1
  BY <1>1, <1>4, <1>5
<1>7. Pcm!HwPtrUpdated(r) \in {r, Pcm!StateUpdated(u)}
  BY DEF Pcm!HwPtrUpdated
<1> HIDE DEF base, new
<1>8. /\ u \in RtState /\ u.stream = r.stream /\ u.appl = r.appl
      /\ u.done = r.done /\ u.irq = r.irq /\ u.twake = r.twake
      /\ u.state = r.state /\ u.dma = r.dma
  BY <1>4, <1>6 DEF RtState
<1> HIDE DEF u
<1>9. Pcm!Running(u) <=> Pcm!Running(r)
  BY <1>8 DEF Pcm!Running, Pcm!Playback
<1>10. LET s == Pcm!StateUpdated(u)
       IN  /\ Kept(u, s)
           /\ \/ s.state = u.state /\ s.dma = u.dma
              \/ /\ s.state \in {"setup", "xrun"}
                 /\ s.dma = IF Pcm!Running(u) THEN "off" ELSE u.dma
  <2>1. Pcm!Avail(u) \in Int /\ PcmBuffer \in Int
    BY <1>1, <1>8, AvailIs
  <2>2. Pcm!Avail(u) < PcmBuffer \/ Pcm!Avail(u) >= PcmBuffer
    BY <2>1
  <2> QED BY <1>8, <2>2, UpdatedIs
<1> QED BY <1>7, <1>8, <1>9, <1>10 DEF Kept

(* While the DMA is on an update brings hw_ptr to where it is; an underrun *)
(* is found, and stops it.                                                 *)
LEMMA HwPtrCatchesUp ==
    ASSUME Pcm!PcmParameters, NEW r, Updatable(r), r.dma = "on"
    PROVE  LET s == Pcm!HwPtrUpdated(r)
               d == IF r.done < r.hw THEN r.done - r.hw + PcmBoundary
                    ELSE r.done - r.hw
           IN  /\ s \in RtState /\ s.hw = r.done
               /\ s.base = s.hw - (s.hw % PcmBuffer)
               /\ d \in 0..2 * PcmPeriod - 1 /\ Pcm!Avail(s) = Pcm!Avail(r) + d
               /\ \/ s.state = r.state /\ s.dma = "on" /\ Pcm!Avail(s) <= PcmBuffer
                  \/ /\ s.state \in {"setup", "xrun"} /\ s.dma = "off"
                     /\ Pcm!Avail(s) >= PcmBuffer
<1> DEFINE base == IF r.base + Pcm!Pointer(r) >= r.hw THEN r.base
                   ELSE IF r.base + PcmBuffer >= PcmBoundary THEN 0
                   ELSE r.base + PcmBuffer
           new == base + Pcm!Pointer(r)
           d == IF r.done < r.hw THEN r.done - r.hw + PcmBoundary
                ELSE r.done - r.hw
           u == [r EXCEPT !.base = base, !.hw = new]
<1>1. /\ PcmBuffer \in Nat \ {0} /\ PcmPeriod \in Nat \ {0}
      /\ PcmBoundary \in Nat \ {0}
      /\ 2 * PcmPeriod <= PcmBuffer /\ 3 * PcmBuffer <= PcmBoundary
  BY SizesAre
<1>2. /\ r \in RtState /\ Near(r) /\ Pcm!Avail(r) <= PcmBuffer
      /\ Pcm!Running(r)
      /\ r.base = r.hw - (r.hw % PcmBuffer)
  BY DEF Updatable, Alive, Ready, Follows
<1>3. r.done \in 0..PcmBoundary - 1 /\ r.hw \in 0..PcmBoundary - 1
  BY <1>2, RtFields
<1>4. Pcm!Pointer(r) = r.done % PcmBuffer
  BY <1>2, PointerIs
<1>5. base = r.done - (r.done % PcmBuffer) /\ d \in 0..2 * PcmPeriod - 1
  BY <1>2, <1>3, <1>4, Catches DEF Near, Same
<1>6. new = r.done
  <2>1. r.done % PcmBuffer \in Int
    BY <1>1, <1>3
  <2> QED BY <1>3, <1>4, <1>5, <2>1
<1>7. base \in 0..PcmBoundary - 1 /\ base % PcmBuffer = 0
  <2>1. r.done \in Nat
    BY <1>1, <1>3
  <2>2. /\ r.done - (r.done % PcmBuffer) \in Nat
        /\ (r.done - (r.done % PcmBuffer)) % PcmBuffer = 0
        /\ r.done - (r.done % PcmBuffer) <= r.done
    BY <1>1, <2>1, StartOf
  <2> QED BY <1>1, <1>3, <1>5, <2>2
<1>8. Pcm!HwPtrUpdated(r) = IF d = 0 THEN r ELSE Pcm!StateUpdated(u)
  <2>1. (IF new < r.hw THEN new - r.hw + PcmBoundary ELSE new - r.hw) = d
    BY <1>6
  <2>2. ~(d >= PcmBuffer + PcmPeriod)
    BY <1>1, <1>5
  <2> QED BY <2>1, <2>2 DEF Pcm!HwPtrUpdated
<1> HIDE DEF base, new, d
<1>9. /\ u \in RtState /\ u.stream = r.stream /\ u.appl = r.appl
      /\ u.state = r.state /\ u.dma = r.dma /\ u.hw = r.done /\ u.base = base
  BY <1>2, <1>3, <1>6, <1>7 DEF RtState
<1> HIDE DEF u
<1>10. Pcm!Running(u)
  BY <1>2, <1>9 DEF Pcm!Running, Pcm!Playback
<1>11. /\ \/ d = r.done - r.hw
          \/ d = r.done - r.hw + PcmBoundary
       /\ d = 0 => r.done = r.hw
  BY <1>1, <1>3 DEF d
<1>12. Pcm!Avail(r) \in 0..PcmBoundary - 1
       /\ Pcm!Avail(u) \in 0..PcmBoundary - 1
  BY <1>2, <1>9, AvailIs
<1>13. Pcm!Avail(u) = Pcm!Avail(r) + d
  <2>1. \/ Pcm!Avail(u) = Pcm!Avail(r) + d
        \/ Pcm!Avail(u) = Pcm!Avail(r) + d + PcmBoundary
        \/ Pcm!Avail(u) = Pcm!Avail(r) + d - PcmBoundary
        \/ Pcm!Avail(u) = Pcm!Avail(r) + d + 2 * PcmBoundary
        \/ Pcm!Avail(u) = Pcm!Avail(r) + d - 2 * PcmBoundary
        \/ Pcm!Avail(u) = Pcm!Avail(r) + d - 3 * PcmBoundary
        \/ Pcm!Avail(u) = Pcm!Avail(r) + d + 3 * PcmBoundary
    <3>1. r.appl \in Int /\ r.hw \in Int /\ r.done \in Int
      BY <1>2, RtFields
    <3>2. Pcm!Playback(u) <=> Pcm!Playback(r)
      BY <1>9 DEF Pcm!Playback
    <3>3. CASE Pcm!Playback(r)
      BY <1>1, <1>2, <1>9, <1>11, <1>12, <3>1, <3>2, <3>3, AvailIs
    <3>4. CASE ~Pcm!Playback(r)
      BY <1>1, <1>2, <1>9, <1>11, <1>12, <3>1, <3>2, <3>4, AvailIs
    <3> QED BY <3>3, <3>4
  <2> QED BY <1>1, <1>2, <1>5, <1>12, <2>1
<1>14. CASE d = 0
  BY <1>1, <1>2, <1>3, <1>5, <1>8, <1>11, <1>12, <1>14
<1>15. CASE d # 0
  <2>1. Kept(u, Pcm!StateUpdated(u))
    BY <1>9, UpdatedIs
  <2>2. Pcm!Avail(Pcm!StateUpdated(u)) = Pcm!Avail(u)
    BY <1>9, <2>1, AvailOf DEF Kept
  <2> DEFINE s == Pcm!StateUpdated(u)
  <2>3. Pcm!HwPtrUpdated(r) = s
    BY <1>8, <1>15
  <2>4. s \in RtState /\ s.hw = r.done /\ s.base = base
    BY <1>9, <2>1 DEF Kept
  <2>5. \/ s.state = r.state /\ s.dma = "on" /\ Pcm!Avail(s) <= PcmBuffer
        \/ /\ s.state \in {"setup", "xrun"} /\ s.dma = "off"
           /\ Pcm!Avail(s) >= PcmBuffer
    <3>1. CASE Pcm!Avail(u) < PcmBuffer
      <4>1. s.state = u.state /\ s.dma = u.dma
        BY <1>9, <3>1, UpdatedIs
      <4> QED BY <1>1, <1>9, <1>12, <2>2, <3>1, <4>1
    <3>2. CASE Pcm!Avail(u) >= PcmBuffer
      <4>1. s.state \in {"setup", "xrun"} /\ s.dma = "off"
        BY <1>9, <1>10, <3>2, UpdatedIs
      <4> QED BY <2>2, <3>2, <4>1
    <3> QED BY <1>1, <1>12, <3>1, <3>2
  <2> HIDE DEF s
  <2>6. Pcm!Avail(s) = Pcm!Avail(r) + d
    BY <1>13, <2>2 DEF s
  <2>7. s.base = s.hw - (s.hw % PcmBuffer)
    BY <1>5, <2>4
  <2> QED BY <1>5, <2>3, <2>4, <2>5, <2>6, <2>7 DEF d
<1> QED BY <1>14, <1>15 DEF d

LEMMA ModRest ==
    ASSUME NEW B \in Nat \ {0}, NEW i \in Int, NEW u \in 0..B - 1
    PROVE  (B * i + u) % B = u
OBVIOUS

LEMMA ModShift ==
    ASSUME NEW B \in Nat \ {0}, NEW m \in Int, NEW x \in Int
    PROVE  (x + B * m) % B = x % B
<1> DEFINE i == x \div B
           u == x % B
           k == i + m
<1>1. i \in Int /\ u \in 0..B - 1 /\ x = B * i + u
  OBVIOUS
<1>2. k \in Int
  BY <1>1
<1> HIDE DEF i, u
<1>3. x + B * m = B * k + u
  BY <1>1
<1> HIDE DEF k
<1>4. (B * k + u) % B = u
  BY <1>1, <1>2, ModRest
<1> QED BY <1>3, <1>4 DEF u

(* A turn through the boundary is so many turns through the buffer.        *)
LEMMA Turn ==
    ASSUME Pcm!PcmParameters, NEW x \in Int
    PROVE  /\ (x - PcmBoundary) % PcmBuffer = x % PcmBuffer
           /\ (x + PcmBoundary) % PcmBuffer = x % PcmBuffer
           /\ (x - PcmBoundary) % PcmBoundary = x % PcmBoundary
           /\ (x + PcmBoundary) % PcmBoundary = x % PcmBoundary
<1>1. PcmBuffer \in Nat \ {0} /\ PcmBoundary \in Nat \ {0}
      /\ PcmBoundary % PcmBuffer = 0
  BY SizesAre
<1> DEFINE m == PcmBoundary \div PcmBuffer
           n == -m
<1>2. m \in Int /\ PcmBoundary = PcmBuffer * m /\ n \in Int
      /\ -PcmBoundary = PcmBuffer * n
  BY <1>1
<1> HIDE DEF m, n
<1>3. (x + PcmBuffer * m) % PcmBuffer = x % PcmBuffer
  BY <1>1, <1>2, ModShift
<1>4. (x + PcmBuffer * n) % PcmBuffer = x % PcmBuffer
  BY <1>1, <1>2, ModShift
<1>5. /\ (x + PcmBoundary) % PcmBoundary = x % PcmBoundary
      /\ (x - PcmBoundary) % PcmBoundary = x % PcmBoundary
  <2> DEFINE one == 1
             less == -1
  <2>1. one \in Int /\ less \in Int
    OBVIOUS
  <2>2. x + PcmBoundary * one = x + PcmBoundary
        /\ x + PcmBoundary * less = x - PcmBoundary
    BY <1>1
  <2> HIDE DEF one, less
  <2>3. (x + PcmBoundary * one) % PcmBoundary = x % PcmBoundary
    BY <1>1, <2>1, ModShift
  <2>4. (x + PcmBoundary * less) % PcmBoundary = x % PcmBoundary
    BY <1>1, <2>1, ModShift
  <2> QED BY <2>2, <2>3, <2>4
<1>6. x + PcmBuffer * m = x + PcmBoundary
      /\ x + PcmBuffer * n = x - PcmBoundary
  BY <1>1, <1>2
<1> QED BY <1>3, <1>4, <1>5, <1>6

(* An update of a stream that runs.                                        *)
LEMMA RunningUpdated ==
    ASSUME Pcm!PcmParameters, NEW g, NEW r, Updatable(r), Pcm!Running(r)
    PROVE  LET s == Pcm!HwPtrUpdated(r)
           IN  /\ RtInv(s) /\ s.stream = r.stream /\ s.appl = r.appl
               /\ s.twake = r.twake /\ s.done = r.done
               /\ s.dma # "paused"
               /\ s.state = r.state \/ s.state \in {"setup", "xrun"}
               /\ s.dma = "on" => s.hw = s.done /\ s.state = r.state
               /\ Alive(s) => /\ s.dma = "on" /\ r.dma = "on"
                              /\ Pcm!Avail(s) >= Pcm!Avail(r)
               /\ RingInv(g, r) => RingInv(g, s)
<1> DEFINE s == Pcm!HwPtrUpdated(r)
<1>1. /\ r \in RtState /\ r.state # "prepared" /\ r.dma \in {"on", "off"}
      /\ r.state # "paused"
  BY RtFields DEF Updatable, Follows, Pcm!Running
<1>2. /\ s \in RtState /\ s.stream = r.stream /\ s.appl = r.appl
      /\ s.done = r.done /\ s.twake = r.twake
      /\ \/ s.state = r.state /\ s.dma = r.dma
         \/ /\ s.state \in {"setup", "xrun"}
            /\ s.dma = IF Pcm!Running(r) THEN "off" ELSE r.dma
  BY <1>1, HwPtrTyped
<1>3. CASE r.dma = "off"
  <2>1. s.dma = "off" /\ ~Alive(s)
    BY <1>1, <1>2, <1>3 DEF Alive
  <2>2. RtInv(s) /\ RingInv(g, s)
    BY <1>2, <2>1 DEF RtInv, Updatable, Follows, RingInv
  <2> HIDE DEF s
  <2> QED BY <1>2, <2>1, <2>2 DEF s
<1>4. CASE r.dma = "on"
  <2> DEFINE d == IF r.done < r.hw THEN r.done - r.hw + PcmBoundary
                  ELSE r.done - r.hw
  <2>1. /\ s.hw = r.done /\ s.base = s.hw - (s.hw % PcmBuffer)
        /\ d \in 0..2 * PcmPeriod - 1 /\ Pcm!Avail(s) = Pcm!Avail(r) + d
        /\ \/ s.state = r.state /\ s.dma = "on" /\ Pcm!Avail(s) <= PcmBuffer
           \/ /\ s.state \in {"setup", "xrun"} /\ s.dma = "off"
              /\ Pcm!Avail(s) >= PcmBuffer
    BY <1>4, HwPtrCatchesUp
  <2> HIDE DEF s
  <2>2. Alive(s) => s.dma = "on" /\ s.state = r.state /\ Pcm!Avail(s) <= PcmBuffer
    BY <1>1, <2>1 DEF Alive
  <2>3. Same(s)
    <3>1. s.hw = s.done /\ s.hw \in Int
      BY <1>2, <2>1, RtFields
    <3> QED BY <3>1 DEF Same
  <2>4. RtInv(s)
    <3>1. s.dma = "on" => Pcm!Running(s)
      BY <1>2, <2>1 DEF Pcm!Running, Pcm!Playback
    <3> QED BY <1>2, <2>1, <2>2, <2>3, <3>1
            DEF RtInv, Updatable, Follows, Ready, Near
  <2>5. Pcm!Avail(s) >= Pcm!Avail(r)
    <3>1. Pcm!Avail(r) \in Int /\ PcmPeriod \in Int
      BY <1>1, AvailIs, SizesAre
    <3> QED BY <2>1, <3>1
  <2>6. ASSUME RingInv(g, r), Pcm!Playback(s), Alive(s),
               NEW j \in 0..Queued(s) - 1
        PROVE  g[(s.hw + j) % PcmBuffer] = (s.hw + j) % PcmBoundary
    <3>0. /\ Pcm!Avail(r) \in Int /\ Pcm!Avail(s) \in Int /\ PcmBuffer \in Int
          /\ PcmBoundary \in Int /\ d \in Int /\ r.hw \in Int /\ r.done \in Int
          /\ d >= 0 /\ PcmPeriod \in Int
      BY <1>1, <1>2, <2>1, AvailIs, SizesAre, RtFields
    <3>1. d + j \in 0..Queued(r) - 1
      BY <2>1, <3>0 DEF Queued
    <3>2. Pcm!Playback(r) /\ Alive(r)
      BY <1>2, <1>4, <2>6 DEF Pcm!Playback, Alive
    <3>3. g[(r.hw + (d + j)) % PcmBuffer] = (r.hw + (d + j)) % PcmBoundary
      BY <2>6, <3>1, <3>2 DEF RingInv
    <3>4. \/ r.hw + (d + j) = s.hw + j
          \/ r.hw + (d + j) = s.hw + j + PcmBoundary
      BY <2>1, <3>0
    <3>5. /\ (s.hw + j + PcmBoundary) % PcmBuffer = (s.hw + j) % PcmBuffer
          /\ (s.hw + j + PcmBoundary) % PcmBoundary = (s.hw + j) % PcmBoundary
      <4>1. s.hw + j \in Int
        BY <2>1, <3>0
      <4> QED BY <4>1, Turn
    <3> QED BY <3>3, <3>4, <3>5
  <2>7. RingInv(g, r) => RingInv(g, s)
    BY <2>6 DEF RingInv
  <2>8. s.dma = "on" => s.hw = s.done /\ s.state = r.state
    BY <1>2, <2>1
  <2> QED BY <1>2, <1>4, <2>1, <2>2, <2>4, <2>5, <2>7, <2>8 DEF s
<1> QED BY <1>1, <1>3, <1>4

(* Records that differ in what the invariant does not look at.             *)
Beside(r, s) ==
    /\ s \in RtState
    /\ s.stream = r.stream /\ s.state = r.state /\ s.hw = r.hw
    /\ s.base = r.base /\ s.appl = r.appl /\ s.dma = r.dma
    /\ s.done = r.done /\ (s.irq <=> r.irq)

LEMMA BesideIs ==
    ASSUME Pcm!PcmParameters, NEW g, NEW r \in RtState, NEW s, Beside(r, s)
    PROVE  /\ RtInv(r) => RtInv(s)
           /\ RingInv(g, r) => RingInv(g, s)
           /\ Pcm!Avail(s) = Pcm!Avail(r) /\ (Alive(s) <=> Alive(r))
           /\ (Pcm!Running(s) <=> Pcm!Running(r))
           /\ (Pcm!Playback(s) <=> Pcm!Playback(r))
<1>1. Pcm!Avail(s) = Pcm!Avail(r)
  BY AvailOf DEF Beside
<1>2. /\ Alive(s) <=> Alive(r)
      /\ Pcm!Running(s) <=> Pcm!Running(r)
      /\ Pcm!Playback(s) <=> Pcm!Playback(r)
      /\ Same(s) <=> Same(r)
      /\ Near(s) <=> Near(r)
  BY DEF Beside, Alive, Pcm!Running, Pcm!Playback, Same, Near
<1>3. Ready(r) => Ready(s)
  BY <1>1, <1>2 DEF Ready, Beside
<1>4. RtInv(r) => RtInv(s)
  BY <1>2, <1>3 DEF RtInv, Updatable, Follows, Beside
<1>5. RingInv(g, r) => RingInv(g, s)
  BY <1>1, <1>2 DEF RingInv, Queued, Beside
<1> QED BY <1>1, <1>2, <1>4, <1>5

(* A stream that is at rest.                                               *)
LEMMA AtRestIs ==
    ASSUME NEW g, NEW s \in RtState, s.dma = "off", s.state # "prepared"
    PROVE  RtInv(s) /\ RingInv(g, s) /\ ~Alive(s)
BY DEF RtInv, Updatable, Follows, Alive, RingInv

LEMMA StartedIs ==
    ASSUME Pcm!PcmParameters, NEW g, NEW r, RtInv(r), RingInv(g, r),
           NEW state \in {"running", "draining"},
           state = "draining" => Pcm!Playback(r)
    PROVE  LET s == Pcm!Started(r, state)
           IN  /\ RtInv(s) /\ RingInv(g, s) /\ Pcm!Avail(s) = Pcm!Avail(r)
               /\ s.stream = r.stream /\ s.hw = r.hw /\ s.appl = r.appl
               /\ s.twake = r.twake /\ s.done = r.done
               /\ Alive(s) => Alive(r)
               /\ s.dma = "paused" => r.dma = "paused"
               /\ \/ s.state = r.state /\ s.dma = r.dma
                  \/ s.state = state /\ s.dma = "on"
<1>0. r \in RtState
  BY DEF RtInv, Updatable
<1>1. CASE ~Pcm!MayStart(r)
  <2>1. Pcm!Started(r, state) = r
    BY <1>1 DEF Pcm!Started
  <2> QED BY <2>1
<1>2. CASE Pcm!MayStart(r)
  <2> DEFINE s == [r EXCEPT !.dma = "on", !.state = state]
  <2>1. Pcm!Started(r, state) = s
    BY <1>2 DEF Pcm!Started
  <2>2. /\ s \in RtState /\ s.dma = "on" /\ s.state = state
        /\ s.stream = r.stream /\ s.hw = r.hw /\ s.base = r.base
        /\ s.appl = r.appl /\ s.done = r.done /\ s.irq = r.irq
        /\ s.twake = r.twake
    BY <1>0 DEF RtState, Pcm!States
  <2> HIDE DEF s
  <2>3. r.state = "prepared" /\ Alive(r)
    BY <1>2 DEF Pcm!MayStart, Alive
  <2>4. Ready(r) /\ (~r.irq => Same(r))
    BY <2>3 DEF RtInv, Updatable
  <2>5. Pcm!Avail(s) = Pcm!Avail(r)
    BY <1>0, <2>2, AvailOf
  <2>6. /\ Same(s) <=> Same(r)
        /\ Near(s) <=> Near(r)
        /\ Pcm!Playback(s) <=> Pcm!Playback(r)
    BY <2>2 DEF Same, Near, Pcm!Playback
  <2>7. Ready(s)
    BY <2>2, <2>4, <2>5, <2>6 DEF Ready
  <2>8. Pcm!Running(s)
    BY <2>2, <2>6 DEF Pcm!Running
  <2>9. RtInv(s)
    BY <2>2, <2>4, <2>6, <2>7, <2>8 DEF RtInv, Updatable, Follows
  <2>10. RingInv(g, s)
    BY <2>2, <2>3, <2>5, <2>6 DEF RingInv, Queued
  <2> QED BY <2>1, <2>2, <2>3, <2>5, <2>9, <2>10
<1> QED BY <1>1, <1>2

(* Nothing that is on hold is stopped: there was no underrun.              *)
LEMMA QuietlyUpdated ==
    ASSUME Pcm!PcmParameters, NEW g, NEW r, RtInv(r), RingInv(g, r),
           r.dma = "paused" => Pcm!Avail(r) < PcmBuffer
    PROVE  LET s == Pcm!StateUpdated(r)
           IN  RtInv(s) /\ RingInv(g, s) /\ (Alive(s) => Alive(r))
<1>0. r \in RtState /\ Follows(r) /\ r.dma \in {"off", "on", "paused"}
  BY RtFields DEF RtInv, Updatable
<1> DEFINE s == Pcm!StateUpdated(r)
<1>1. Kept(r, s)
  BY <1>0, UpdatedIs
<1>2. CASE Pcm!Avail(r) < PcmBuffer
  <2>1. Beside(r, s)
    BY <1>0, <1>1, <1>2, UpdatedIs DEF Kept, Beside
  <2> QED BY <1>0, <2>1, BesideIs
<1>3. CASE Pcm!Avail(r) >= PcmBuffer
  <2>1. /\ s.state \in {"setup", "xrun"}
        /\ s.dma = IF Pcm!Running(r) THEN "off" ELSE r.dma
    BY <1>0, <1>3, UpdatedIs
  <2>2. r.dma # "paused"
    <3>1. Pcm!Avail(r) \in Int /\ PcmBuffer \in Int
      BY <1>0, AvailIs, SizesAre
    <3> QED BY <1>3, <3>1
  <2>3. s.dma = "off"
    BY <1>0, <2>1, <2>2 DEF Follows
  <2> QED BY <1>1, <2>1, <2>3, AtRestIs DEF Kept
<1>4. Pcm!Avail(r) < PcmBuffer \/ Pcm!Avail(r) >= PcmBuffer
  <2>1. Pcm!Avail(r) \in Int /\ PcmBuffer \in Int
    BY <1>0, AvailIs, SizesAre
  <2> QED BY <2>1
<1> QED BY <1>2, <1>3, <1>4

LEMMA IdleIs ==
    ASSUME Pcm!PcmParameters, NEW r
    PROVE  AppInv(r, Pcm!Idle) /\ Pcm!Idle \in AppState /\ Pcm!Idle.pc = "idle"
<1>1. 0 \in 0..PcmBoundary - 1 /\ 0 \in 0..PcmBuffer
  BY SizesAre
<1> QED BY <1>1 DEF AppInv, AppState, Pcm!Idle, Pcm!Points

LEMMA EndsIs ==
    ASSUME Pcm!PcmParameters, NEW g, NEW r, RtInv(r), RingInv(g, r), NEW a,
           NEW failed \in BOOLEAN,
           ~failed /\ r.dma = "paused" => Pcm!Avail(r) < PcmBuffer
    PROVE  LET c == Pcm!Ends(r, a, failed)
           IN  /\ RtInv(c[1]) /\ RingInv(g, c[1]) /\ AppInv(c[1], c[2])
               /\ c[2].pc = "idle" /\ c[2] \in AppState
<1> DEFINE l == [r EXCEPT !.twake = 0]
<1>0. r \in RtState
  BY DEF RtInv, Updatable
<1>1. Beside(r, l) /\ l \in RtState
  <2>1. 0 \in 0..PcmPeriod
    BY SizesAre
  <2> QED BY <1>0, <2>1 DEF Beside, RtState
<1> HIDE DEF l
<1>2. /\ RtInv(l) /\ RingInv(g, l) /\ Pcm!Avail(l) = Pcm!Avail(r)
      /\ l.dma = r.dma
  BY <1>0, <1>1, BesideIs DEF Beside
<1> DEFINE s == IF a.moved > 0 /\ ~failed THEN Pcm!StateUpdated(l) ELSE l
<1>3. Pcm!Ends(r, a, failed) = <<s, Pcm!Idle>>
  BY DEF Pcm!Ends, l
<1>4. RtInv(s) /\ RingInv(g, s)
  BY <1>2, QuietlyUpdated
<1> HIDE DEF s
<1>5. Pcm!Ends(r, a, failed)[1] = s /\ Pcm!Ends(r, a, failed)[2] = Pcm!Idle
  BY <1>3
<1> QED BY <1>4, <1>5, IdleIs

LEMMA CopiesIs ==
    ASSUME Pcm!PcmParameters, NEW r, RtInv(r), NEW a \in AppState,
           a.op = "transfer", a.size > 0, a.avail > 0, r.twake > 0,
           Alive(r) => a.avail <= Pcm!Avail(r)
    PROVE  LET c == Pcm!Copies(r, a)
           IN  c[1] = r /\ AppInv(r, c[2]) /\ c[2].pc = "copy"
<1>0. r \in RtState /\ r.appl \in 0..PcmBoundary - 1
  BY RtFields DEF RtInv, Updatable
<1>1. /\ PcmBuffer \in Nat \ {0} /\ PcmBoundary \in Nat \ {0}
      /\ r.appl % PcmBuffer \in 0..PcmBuffer - 1
  <2>1. PcmBuffer \in Nat \ {0} /\ PcmBoundary \in Nat \ {0}
    BY SizesAre
  <2>2. r.appl \in Int
    BY <1>0
  <2> QED BY <2>1, <2>2
<1>2. a.size \in Nat /\ a.avail \in 0..PcmBoundary - 1
  BY DEF AppState
<1> DEFINE room == PcmBuffer - (r.appl % PcmBuffer)
           n == Pcm!Smaller(Pcm!Smaller(a.size, a.avail), room)
           b == [a EXCEPT !.pc = "copy", !.from = r.appl, !.frames = n]
<1>3. room \in 1..PcmBuffer
  BY <1>1
<1> HIDE DEF room
<1>4. n \in 0..PcmBuffer /\ n > 0 /\ n <= a.size /\ n <= a.avail
  BY <1>1, <1>2, <1>3 DEF Pcm!Smaller
<1>5. Pcm!Copies(r, a) = <<r, b>>
  BY DEF Pcm!Copies, room
<1> HIDE DEF n
<1>6. /\ b \in AppState /\ b.pc = "copy" /\ b.from = r.appl /\ b.frames = n
      /\ b.op = "transfer" /\ b.size = a.size /\ b.avail = a.avail
  BY <1>0, <1>4 DEF AppState, Pcm!Points
<1> HIDE DEF b
<1>7. AppInv(r, b)
  BY <1>4, <1>6 DEF AppInv
<1> QED BY <1>5, <1>6, <1>7

LEMMA AwaitsIs ==
    ASSUME Pcm!PcmParameters, NEW r, RtInv(r), NEW a \in AppState,
           a.op = "transfer", a.size > 0, r.twake > 0
    PROVE  LET c == Pcm!Awaits(r, a)
           IN  c[1] = r /\ AppInv(r, c[2])
<1>0. r \in RtState /\ r.twake \in Int
  <2>1. r \in RtState
    BY DEF RtInv, Updatable
  <2> QED BY <2>1, RtFields
<1>1. Pcm!Avail(r) \in 0..PcmBoundary - 1 /\ 0 \in 0..PcmBoundary - 1
  BY <1>0, AvailIs, SizesAre
<1>2. CASE Pcm!Avail(r) >= r.twake
  <2> DEFINE b == [a EXCEPT !.avail = Pcm!Avail(r)]
  <2>1. /\ b \in AppState /\ b.op = "transfer" /\ b.size > 0
        /\ b.avail = Pcm!Avail(r)
    BY <1>1 DEF AppState
  <2>2. Pcm!Awaits(r, a) = Pcm!Copies(r, b)
    BY <1>2 DEF Pcm!Awaits
  <2> HIDE DEF b
  <2>3. b.avail > 0 /\ b.avail <= Pcm!Avail(r)
    BY <1>0, <1>1, <1>2, <2>1
  <2> QED BY <2>1, <2>2, <2>3, CopiesIs
<1>3. CASE ~(Pcm!Avail(r) >= r.twake)
  <2> DEFINE b == [a EXCEPT !.pc = "unlocked", !.avail = 0]
  <2>1. Pcm!Awaits(r, a) = <<r, b>>
    BY <1>3 DEF Pcm!Awaits
  <2>2. /\ b \in AppState /\ b.op = "transfer" /\ b.size > 0
        /\ b.avail = 0 /\ b.pc = "unlocked"
    BY <1>1 DEF AppState, Pcm!Points
  <2> HIDE DEF b
  <2>3. AppInv(r, b)
    BY <2>2 DEF AppInv
  <2> QED BY <2>1, <2>3
<1> QED BY <1>2, <1>3

LEMMA ContinuesIs ==
    ASSUME Pcm!PcmParameters, NEW g, NEW r, RtInv(r), RingInv(g, r),
           NEW a \in AppState,
           a.op = "transfer", r.twake > 0,
           Alive(r) => a.avail <= Pcm!Avail(r),
           a.size = 0 /\ r.dma = "paused" => Pcm!Avail(r) < PcmBuffer
    PROVE  LET c == Pcm!Continues(r, a)
           IN  RtInv(c[1]) /\ RingInv(g, c[1]) /\ AppInv(c[1], c[2])
<1>0. r \in RtState /\ a.size \in Nat /\ a.avail \in Nat
  BY SizesAre DEF RtInv, Updatable, AppState
<1>1. CASE a.size = 0
  <2>1. Pcm!Continues(r, a) = Pcm!Ends(r, a, FALSE)
    BY <1>0, <1>1 DEF Pcm!Continues
  <2> QED BY <1>1, <2>1, EndsIs
<1>2. CASE a.size > 0 /\ a.avail > 0
  <2>1. Pcm!Continues(r, a) = Pcm!Copies(r, a)
    <3>1. ~(a.size = 0) /\ ~(a.avail = 0)
      BY <1>0, <1>2
    <3> QED BY <1>2, <3>1, Zenon DEF Pcm!Continues
  <2> QED BY <1>2, <2>1, CopiesIs
<1>3. CASE a.size > 0 /\ a.avail = 0 /\ r.state = "draining" /\ ~Pcm!Playback(r)
  <2> DEFINE s == Pcm!Stopped(r, "setup")
  <2>1. Pcm!Continues(r, a) = Pcm!Ends(s, a, FALSE)
    <3>1. ~(a.size = 0) /\ ~(a.avail > 0)
      BY <1>0, <1>3
    <3> QED BY <1>3, <3>1, Zenon DEF Pcm!Continues
  <2>2. s \in RtState /\ s.state = "setup" /\ s.dma = "off"
    <3>1. Kept(r, s) /\ s.state = "setup"
          /\ s.dma = IF Pcm!Running(r) THEN "off" ELSE r.dma
      BY <1>0, StoppedIs DEF Pcm!States
    <3>2. r.dma = "off"
      BY <1>0, <1>3, RtFields DEF RtInv, Updatable, Follows, Pcm!Running
    <3> QED BY <3>1, <3>2 DEF Kept
  <2> HIDE DEF s
  <2>3. RtInv(s) /\ RingInv(g, s)
    BY <2>2, AtRestIs
  <2> QED BY <2>1, <2>2, <2>3, EndsIs
<1>4. CASE a.size > 0 /\ a.avail = 0 /\ ~(r.state = "draining" /\ ~Pcm!Playback(r))
  <2> DEFINE t == Pcm!Smaller(a.size, r.twake)
             s == [r EXCEPT !.twake = t]
  <2>1. Pcm!Continues(r, a) = Pcm!Awaits(s, a)
    <3>1. ~(a.size = 0) /\ ~(a.avail > 0)
      BY <1>0, <1>4
    <3> QED BY <1>4, <3>1, Zenon DEF Pcm!Continues
  <2>2. t \in 0..PcmPeriod /\ t > 0
    BY <1>0, <1>4, RtFields, SizesAre DEF Pcm!Smaller
  <2> HIDE DEF t
  <2>3. Beside(r, s) /\ s \in RtState /\ s.twake = t
    BY <1>0, <2>2 DEF Beside, RtState
  <2> HIDE DEF s
  <2>4. RtInv(s) /\ RingInv(g, s)
    BY <1>0, <2>3, BesideIs
  <2> QED BY <1>4, <2>1, <2>2, <2>3, <2>4, AwaitsIs
<1> QED BY <1>0, <1>1, <1>2, <1>3, <1>4

LEMMA Becomes ==
    ASSUME NEW s, NEW a, NEW g,
           pRt' = s, pApp' = a, pRing' = g, pControl' \in 0..PcmMaxControl,
           RtInv(s), RingInv(g, s), AppInv(s, a), RingTyped(g)
    PROVE  PcmInv'
BY DEF PcmInv, RtInv, Updatable, Follows, Alive, Ready, Near, Same,
   Pcm!Running,
       Pcm!Playback, Pcm!Avail, PeriodOf, Queued, RingInv, AppInv, RingTyped

LEMMA AppKept ==
    ASSUME Pcm!PcmParameters, NEW r \in RtState, NEW s \in RtState, NEW a,
           AppInv(r, a), s.twake = r.twake, s.appl = r.appl,
           Alive(s) => Alive(r) /\ Pcm!Avail(s) >= Pcm!Avail(r)
    PROVE  AppInv(s, a)
<1>1. /\ Pcm!Avail(r) \in Int /\ Pcm!Avail(s) \in Int
      /\ a \in AppState /\ a.avail \in Int
  BY AvailIs, SizesAre DEF AppInv, AppState
<1> QED BY <1>1 DEF AppInv

LEMMA AppIdle ==
    ASSUME NEW r, NEW s, NEW a, AppInv(r, a), a.pc = "idle"
    PROVE  AppInv(s, a)
BY DEF AppInv

LEMMA ResumedIs ==
    ASSUME Pcm!PcmParameters, NEW g, NEW r, RtInv(r), RingInv(g, r),
           NEW s \in RtState,
           s.stream = r.stream, s.hw = r.hw, s.base = r.base,
           s.appl = r.appl, s.done = r.done, s.irq <=> r.irq,
           s.state = IF r.state = "paused" THEN "running" ELSE r.state,
           s.dma = IF r.dma = "paused" THEN "on" ELSE r.dma
    PROVE  /\ RtInv(s) /\ RingInv(g, s) /\ Pcm!Avail(s) = Pcm!Avail(r)
           /\ Alive(s) <=> Alive(r)
           /\ s.dma # "paused"
<1>0. r \in RtState /\ Follows(r)
  BY DEF RtInv, Updatable
<1>1. Pcm!Avail(s) = Pcm!Avail(r)
  BY <1>0, AvailOf
<1>2. /\ Alive(s) <=> Alive(r)
      /\ Pcm!Playback(s) <=> Pcm!Playback(r)
      /\ Same(s) <=> Same(r)
      /\ Near(s) <=> Near(r)
  BY DEF Alive, Pcm!Playback, Same, Near
<1>3. Follows(s) /\ s.dma # "paused"
  BY <1>0, <1>2 DEF Follows, Pcm!Running
<1>4. Alive(r) => Ready(s)
  BY <1>1, <1>2 DEF RtInv, Updatable, Ready
<1>5. RtInv(s)
  BY <1>2, <1>3, <1>4 DEF RtInv, Updatable
<1>6. RingInv(g, s)
  BY <1>1, <1>2 DEF RingInv, Queued
<1> QED BY <1>1, <1>2, <1>3, <1>5, <1>6

LEMMA UnpausedIs ==
    ASSUME Pcm!PcmParameters, NEW g, NEW r, RtInv(r), RingInv(g, r)
    PROVE  LET s == Pcm!Unpaused(r)
           IN  /\ RtInv(s) /\ RingInv(g, s) /\ Pcm!Avail(s) = Pcm!Avail(r)
               /\ Alive(s) <=> Alive(r)
               /\ s.dma # "paused" /\ s.state # "paused"
               /\ s.appl = r.appl /\ s.twake = r.twake
<1>0. r \in RtState /\ Follows(r)
  BY DEF RtInv, Updatable
<1> DEFINE d == IF r.dma = "paused" THEN "on" ELSE r.dma
           s == [r EXCEPT !.dma = d, !.state = "running"]
<1>1. CASE r.state # "paused"
  BY <1>0, <1>1 DEF Pcm!Unpaused, Follows
<1>2. CASE r.state = "paused"
  <2>1. Pcm!Unpaused(r) = s
    BY <1>2 DEF Pcm!Unpaused
  <2>2. d \in {"off", "on", "paused"}
    BY <1>0, RtFields
  <2> HIDE DEF d
  <2>3. /\ s \in RtState /\ s.dma = d /\ s.state = "running"
        /\ s.stream = r.stream /\ s.hw = r.hw /\ s.base = r.base
        /\ s.appl = r.appl /\ s.done = r.done /\ s.irq = r.irq
        /\ s.twake = r.twake
    BY <1>0, <2>2 DEF RtState, Pcm!States
  <2> HIDE DEF s
  <2>4. /\ RtInv(s) /\ RingInv(g, s) /\ Pcm!Avail(s) = Pcm!Avail(r)
        /\ Alive(s) <=> Alive(r)
        /\ s.dma # "paused"
    BY <1>2, <2>3, ResumedIs DEF d
  <2> QED BY <2>1, <2>3, <2>4
<1> QED BY <1>1, <1>2

LEMMA PcmParts ==
    ASSUME PcmInv
    PROVE  /\ pRt \in RtState /\ Updatable(pRt) /\ RtInv(pRt) /\ Follows(pRt)
           /\ RingInv(pRing, pRt) /\ AppInv(pRt, pApp) /\ pApp \in AppState
           /\ RingTyped(pRing) /\ pControl \in 0..PcmMaxControl
BY DEF PcmInv, RtInv, Updatable, AppInv

(* The calls of the task, between which nothing is under way.              *)
LEMMA PcmPrepare ==
    ASSUME Pcm!PcmParameters, PcmInv, Pcm!Prepare
    PROVE  PcmInv'
<1> DEFINE s == [pRt EXCEPT !.state = "prepared", !.hw = 0, !.base = 0,
                            !.appl = 0, !.done = 0]
           g == [i \in DOMAIN pRing |-> PcmSilence]
<1>1. /\ pRt \in RtState /\ RtInv(pRt) /\ Follows(pRt) /\ AppInv(pRt, pApp)
      /\ RingTyped(pRing) /\ pControl \in 0..PcmMaxControl
  BY PcmParts
<1>2. /\ pApp.pc = "idle" /\ pRt.state \in {"setup", "xrun", "prepared"}
      /\ pRt' = s /\ pRing' = g /\ pApp' = pApp /\ pControl' = pControl
  BY DEF Pcm!Prepare
<1>3. PcmBuffer \in Nat \ {0} /\ PcmBoundary \in Nat \ {0}
      /\ 3 * PcmBuffer <= PcmBoundary
      /\ PcmPeriod \in Nat \ {0}
  BY SizesAre
<1>4. 0 \in 0..PcmBoundary - 1 /\ 0 % PcmBuffer = 0 /\ 0 % PcmPeriod = 0
  BY <1>3
<1>5. pRt.dma = "off"
  BY <1>1, <1>2, RtFields DEF Follows, Pcm!Running
<1>6. /\ s \in RtState /\ s.state = "prepared" /\ s.dma = "off"
      /\ s.stream = pRt.stream /\ s.hw = 0 /\ s.base = 0
      /\ s.appl = 0 /\ s.done = 0
  BY <1>1, <1>4, <1>5 DEF RtState, Pcm!States
<1> HIDE DEF s
<1>7. /\ Pcm!Avail(s) <= PcmBuffer
      /\ Pcm!Playback(s) => Queued(s) = 0
  BY <1>3, <1>6 DEF Pcm!Avail, Queued
<1>8. Same(s)
  BY <1>3, <1>4, <1>6 DEF Same
<1>9. s.base = s.hw - (s.hw % PcmBuffer)
  BY <1>4, <1>6
<1>10. RtInv(s)
  BY <1>6, <1>7, <1>8, <1>9
  DEF RtInv, Updatable, Follows, Ready, Near, Pcm!Running
<1>11. RingTyped(g)
  BY <1>1 DEF RingTyped
<1>12. AppInv(s, pApp)
  BY <1>1, <1>2, AppIdle
<1>13. RingInv(g, s)
  BY <1>7 DEF RingInv
<1> HIDE DEF g
<1> QED BY <1>1, <1>2, <1>10, <1>11, <1>12, <1>13, Becomes

LEMMA PcmStart ==
    ASSUME Pcm!PcmParameters, PcmInv, Pcm!Start
    PROVE  PcmInv'
<1> DEFINE s == Pcm!Started(pRt, "running")
<1>1. RtInv(s) /\ RingInv(pRing, s)
  BY PcmParts, StartedIs
<1>2. pRt' = s /\ pRing' = pRing /\ pApp' = pApp /\ pControl' = pControl
  BY DEF Pcm!Start
<1>3. AppInv(s, pApp)
  BY PcmParts, AppIdle DEF Pcm!Start
<1> HIDE DEF s
<1> QED BY <1>1, <1>2, <1>3, PcmParts, Becomes

LEMMA PcmTransfer ==
    ASSUME Pcm!PcmParameters, PcmInv, Pcm!Transfer
    PROVE  PcmInv'
<1> DEFINE begun == IF Pcm!Playback(pRt) THEN pRt ELSE Pcm!Started(pRt, "running")
           woken == [begun EXCEPT !.twake = PcmPeriod]
           r == IF woken.state = "running" THEN Pcm!HwPtrUpdated(woken) ELSE woken
<1>1. PICK size \in PcmSizes :
         Pcm!Become(Pcm!Continues(r, [Pcm!Idle EXCEPT !.size = size, !.avail = Pcm!Avail(r)]))
  BY DEF Pcm!Transfer
<1> DEFINE a == [Pcm!Idle EXCEPT !.size = size, !.avail = Pcm!Avail(r)]
<1>2. pRing' = pRing /\ pControl' = pControl /\ pApp.pc = "idle"
  BY DEF Pcm!Transfer
<1>3. RtInv(begun) /\ RingInv(pRing, begun) /\ begun \in RtState
  <2>1. Pcm!Started(pRt, "running") \in RtState
    BY PcmParts, StartedIs DEF RtInv, Updatable
  <2> QED BY <2>1, PcmParts, StartedIs
<1> HIDE DEF begun
<1>4. Beside(begun, woken) /\ woken \in RtState /\ woken.twake = PcmPeriod
  <2>1. PcmPeriod \in 0..PcmPeriod
    BY SizesAre
  <2> QED BY <1>3, <2>1 DEF RtState, Beside
<1> HIDE DEF woken
<1>5. RtInv(woken) /\ RingInv(pRing, woken) /\ Updatable(woken)
  BY <1>3, <1>4, BesideIs DEF RtInv
<1>6. RtInv(r) /\ RingInv(pRing, r) /\ r.twake = PcmPeriod
  <2>1. CASE woken.state = "running"
    <3>1. Pcm!Running(woken)
      BY <2>1 DEF Pcm!Running
    <3> QED BY <1>4, <1>5, <2>1, <3>1, RunningUpdated
  <2>2. CASE woken.state # "running"
    BY <1>4, <1>5, <2>2
  <2> QED BY <2>1, <2>2
<1> HIDE DEF r
<1>7. Pcm!Avail(r) \in 0..PcmBoundary - 1 /\ r.twake > 0
  BY <1>6, AvailIs, SizesAre DEF RtInv, Updatable
<1>8. size \in Nat /\ size > 0
  BY DEF Pcm!PcmParameters
<1>9. /\ a \in AppState /\ a.op = "transfer" /\ a.size = size
      /\ a.avail = Pcm!Avail(r)
  <2>1. 0 \in 0..PcmBoundary - 1 /\ 0 \in 0..PcmBuffer
    BY SizesAre
  <2> QED BY <1>7, <1>8, <2>1 DEF AppState, Pcm!Idle, Pcm!Points
<1>10. pRt' = Pcm!Continues(r, a)[1] /\ pApp' = Pcm!Continues(r, a)[2]
  BY <1>1 DEF Pcm!Become
<1> HIDE DEF a
<1>11. /\ RtInv(Pcm!Continues(r, a)[1])
       /\ RingInv(pRing, Pcm!Continues(r, a)[1])
       /\ AppInv(Pcm!Continues(r, a)[1], Pcm!Continues(r, a)[2])
  BY <1>6, <1>7, <1>8, <1>9, ContinuesIs
<1> QED BY <1>2, <1>10, <1>11, PcmParts, Becomes

LEMMA PcmHwSync ==
    ASSUME Pcm!PcmParameters, PcmInv, Pcm!HwSync
    PROVE  PcmInv'
<1> DEFINE s == Pcm!HwPtrUpdated(pRt)
<1>1. RtInv(s) /\ RingInv(pRing, s)
  BY PcmParts, RunningUpdated DEF Pcm!HwSync
<1>2. pRt' = s /\ pRing' = pRing /\ pApp' = pApp /\ pControl' = pControl
  BY DEF Pcm!HwSync
<1>3. AppInv(s, pApp)
  BY PcmParts, AppIdle DEF Pcm!HwSync
<1> HIDE DEF s
<1> QED BY <1>1, <1>2, <1>3, PcmParts, Becomes

(* appl_ptr is taken back by frames that have not been played.             *)
LEMMA PcmRewind ==
    ASSUME Pcm!PcmParameters, PcmInv, Pcm!Rewind
    PROVE  PcmInv'
<1> DEFINE r == IF Pcm!Running(pRt) THEN Pcm!HwPtrUpdated(pRt) ELSE pRt
           queued == PcmBuffer - Pcm!Avail(r)
<1>1. /\ pApp.pc = "idle" /\ Pcm!Playback(pRt)
      /\ UNCHANGED <<pRing, pApp, pControl>>
      /\ IF r.state = "xrun" \/ queued <= 0 THEN pRt' = r
         ELSE \E frames \in PcmSizes :
                  pRt' = [r EXCEPT !.appl = (@ + PcmBoundary
                                   - Pcm!Smaller(frames, queued)) % PcmBoundary]
  BY DEF Pcm!Rewind
<1>2. RtInv(r) /\ RingInv(pRing, r) /\ r.stream = pRt.stream
  BY PcmParts, RunningUpdated
<1> HIDE DEF r
<1>3. Pcm!Playback(r) /\ r \in RtState
  BY <1>1, <1>2 DEF Pcm!Playback, RtInv, Updatable
<1>4. ASSUME NEW s, RtInv(s), RingInv(pRing, s), pRt' = s PROVE PcmInv'
  <2>1. AppInv(s, pApp)
    BY <1>1, PcmParts, AppIdle
  <2> QED BY <1>1, <1>4, <2>1, PcmParts, Becomes
<1>5. CASE r.state = "xrun" \/ queued <= 0
  BY <1>1, <1>2, <1>4, <1>5
<1>6. CASE ~(r.state = "xrun" \/ queued <= 0)
  <2>1. PICK frames \in PcmSizes :
           pRt' = [r EXCEPT !.appl = (@ + PcmBoundary
                                   - Pcm!Smaller(frames, queued)) % PcmBoundary]
    BY <1>1, <1>6
  <2> DEFINE n == Pcm!Smaller(frames, queued)
             p == (r.appl + PcmBoundary - n) % PcmBoundary
             s == [r EXCEPT !.appl = p]
  <2>2. /\ PcmBuffer \in Nat \ {0} /\ PcmBoundary \in Nat \ {0}
        /\ 3 * PcmBuffer <= PcmBoundary /\ frames \in Nat
        /\ r.appl \in 0..PcmBoundary - 1 /\ r.hw \in 0..PcmBoundary - 1
        /\ Pcm!Avail(r) \in 0..PcmBoundary - 1
    BY <1>3, SizesAre, RtFields, AvailIs DEF Pcm!PcmParameters
  <2>3. n \in 0..PcmBuffer /\ n <= queued
    BY <1>6, <2>2 DEF Pcm!Smaller
  <2> HIDE DEF n
  <2>4. /\ p \in 0..PcmBoundary - 1
        /\ p = r.appl - n \/ p = r.appl - n + PcmBoundary
    <3> DEFINE z == r.appl + PcmBoundary - n
    <3>1. z \in 0..2 * PcmBoundary - 1
      BY <2>2, <2>3
    <3>2. p = z % PcmBoundary
      OBVIOUS
    <3> HIDE DEF p, z
    <3>3. /\ p \in 0..PcmBoundary - 1
          /\ z \in 0..PcmBoundary - 1 => p = z
          /\ z \in PcmBoundary..2 * PcmBoundary - 1 => p = z - PcmBoundary
      <4>1. z \in Int /\ PcmBoundary \in Nat \ {0}
        BY <2>2, <3>1
      <4>2. /\ z % PcmBoundary \in 0..PcmBoundary - 1
            /\ z \in 0..PcmBoundary - 1 => z % PcmBoundary = z
            /\ z \in PcmBoundary..2 * PcmBoundary - 1 => z % PcmBoundary = z - PcmBoundary
        BY <4>1, ModOf
      <4> QED BY <3>2, <4>2
    <3> QED BY <2>2, <2>3, <3>1, <3>3 DEF z
  <2>5. pRt' = s
    BY <2>1 DEF n
  <2> HIDE DEF p
  <2>6. /\ s \in RtState /\ s.appl = p
        /\ s.stream = r.stream /\ s.hw = r.hw /\ s.base = r.base
        /\ s.state = r.state /\ s.dma = r.dma /\ s.done = r.done
        /\ s.irq = r.irq
    BY <1>3, <2>4 DEF RtState
  <2> HIDE DEF s
  <2>7. /\ Alive(s) <=> Alive(r)
        /\ Pcm!Playback(s)
        /\ Pcm!Running(s) <=> Pcm!Running(r)
        /\ Same(s) <=> Same(r)
        /\ Near(s) <=> Near(r)
    BY <1>3, <2>6 DEF Alive, Pcm!Playback, Pcm!Running, Same, Near
  <2>8. Pcm!Avail(s) = Pcm!Avail(r) + n
    <3>1. Pcm!Avail(s) \in 0..PcmBoundary - 1
      BY <2>6, AvailIs
    <3>2. \/ Pcm!Avail(s) = s.hw + PcmBuffer - s.appl
          \/ Pcm!Avail(s) = s.hw + PcmBuffer - s.appl + PcmBoundary
          \/ Pcm!Avail(s) = s.hw + PcmBuffer - s.appl - PcmBoundary
      BY <2>6, <2>7, AvailIs
    <3>3. \/ Pcm!Avail(r) = r.hw + PcmBuffer - r.appl
          \/ Pcm!Avail(r) = r.hw + PcmBuffer - r.appl + PcmBoundary
          \/ Pcm!Avail(r) = r.hw + PcmBuffer - r.appl - PcmBoundary
      BY <1>3, AvailIs
    <3>4. Pcm!Avail(r) + n \in 0..PcmBoundary - 1
      BY <2>2, <2>3
    <3> QED BY <2>2, <2>3, <2>4, <2>6, <3>1, <3>2, <3>3, <3>4
  <2>9. Pcm!Avail(s) <= PcmBuffer
    BY <2>2, <2>3, <2>8
  <2>10. RtInv(s)
    BY <1>2, <2>6, <2>7, <2>9 DEF RtInv, Updatable, Follows, Ready
  <2>11. RingInv(pRing, s)
    <3>1. \A j \in 0..Queued(s) - 1 : j \in 0..Queued(r) - 1
      BY <2>2, <2>3, <2>8 DEF Queued
    <3> QED BY <1>2, <1>3, <2>6, <2>7, <3>1 DEF RingInv
  <2> QED BY <1>4, <2>5, <2>10, <2>11
<1> QED BY <1>5, <1>6

LEMMA ModDiff ==
    ASSUME NEW B \in Nat \ {0}, NEW x \in Int, NEW y \in Int
    PROVE  ((x % B) + B - (y % B)) % B = (x - y) % B
<1> DEFINE i == x \div B
           u == x % B
           j == y \div B
           v == y % B
           m == 1 - i + j
<1>1. /\ i \in Int /\ u \in 0..B - 1 /\ x = B * i + u
      /\ j \in Int /\ v \in 0..B - 1 /\ y = B * j + v
  OBVIOUS
<1>2. m \in Int
  BY <1>1
<1> HIDE DEF i, u, j, v
<1>3. u + B - v = (x - y) + B * m
  BY <1>1
<1> HIDE DEF m
<1>4. x - y \in Int
  OBVIOUS
<1>5. ((x - y) + B * m) % B = (x - y) % B
  BY <1>2, <1>4, ModShift
<1> QED BY <1>3, <1>5 DEF u, v

(* What a copy of n frames from number p makes of the ring.                *)
Written(p, n) ==
    [i \in DOMAIN pRing |->
        LET k == (i + PcmBuffer - (p % PcmBuffer)) % PcmBuffer
        IN  IF k < n THEN (p + k) % PcmBoundary ELSE pRing[i]]

LEMMA WrittenTyped ==
    ASSUME Pcm!PcmParameters, RingTyped(pRing), NEW p \in Int, NEW n \in Nat
    PROVE  RingTyped(Written(p, n))
<1>1. PcmBuffer \in Nat \ {0} /\ PcmBoundary \in Nat \ {0}
  BY SizesAre
<1> DEFINE k(i) == (i + PcmBuffer - (p % PcmBuffer)) % PcmBuffer
<1>2. ASSUME NEW i \in DOMAIN pRing
      PROVE  (p + k(i)) % PcmBoundary \in 0..PcmBoundary - 1
  <2>1. p % PcmBuffer \in Int /\ i \in Int
    BY <1>1 DEF RingTyped
  <2> DEFINE z == i + PcmBuffer - (p % PcmBuffer)
  <2>2. z \in Int
    BY <1>1, <2>1
  <2> HIDE DEF z
  <2>3. z % PcmBuffer \in Int
    BY <1>1, <2>2
  <2>4. k(i) \in Int
    BY <2>3 DEF z
  <2> HIDE DEF k
  <2>5. p + k(i) \in Int
    BY <2>4
  <2> QED BY <1>1, <2>5
<1>3. Written(p, n) = [i \in DOMAIN pRing |->
                         IF k(i) < n THEN (p + k(i)) % PcmBoundary ELSE pRing[i]]
  BY DEF Written
<1> HIDE DEF k
<1> QED BY <1>2, <1>3 DEF RingTyped

(* There is room for what is written, and it is written where it belongs.  *)
LEMMA RingGrows ==
    ASSUME Pcm!PcmParameters, NEW r \in RtState, NEW s \in RtState,
           NEW n \in 1..PcmBuffer,
           Alive(r), RingInv(pRing, r), RingTyped(pRing),
           Pcm!Avail(r) <= PcmBuffer, n <= Pcm!Avail(r),
           s.stream = r.stream, s.hw = r.hw, Pcm!Avail(s) = Pcm!Avail(r) - n
    PROVE  RingInv(Written(r.appl, n), s)
<1> DEFINE l == Queued(r)
           g == Written(r.appl, n)
<1>1. /\ PcmBuffer \in Nat \ {0} /\ PcmBoundary \in Nat \ {0}
      /\ r.hw \in 0..PcmBoundary - 1 /\ r.appl \in 0..PcmBoundary - 1
      /\ Pcm!Avail(r) \in 0..PcmBoundary - 1
  BY SizesAre, RtFields, AvailIs
<1>2. l \in 0..PcmBuffer /\ l + n <= PcmBuffer /\ Queued(s) = l + n
  BY <1>1 DEF Queued
<1> SUFFICES ASSUME Pcm!Playback(s), Alive(s), NEW j \in 0..l + n - 1
             PROVE  g[(s.hw + j) % PcmBuffer] = (s.hw + j) % PcmBoundary
  BY <1>2 DEF RingInv
<1>3. Pcm!Playback(r)
  BY DEF Pcm!Playback
<1>4. \/ r.appl = r.hw + l
      \/ r.appl = r.hw + l - PcmBoundary
      \/ r.appl = r.hw + l + PcmBoundary
  <2>1. \/ Pcm!Avail(r) = r.hw + PcmBuffer - r.appl
        \/ Pcm!Avail(r) = r.hw + PcmBuffer - r.appl + PcmBoundary
        \/ Pcm!Avail(r) = r.hw + PcmBuffer - r.appl - PcmBoundary
    BY <1>3, AvailIs
  <2> QED BY <1>1, <2>1 DEF Queued
<1> HIDE DEF l
<1> DEFINE x == r.hw + j
           y == r.hw + l
           i == x % PcmBuffer
           k == (i + PcmBuffer - (r.appl % PcmBuffer)) % PcmBuffer
<1>5. x \in Int /\ y \in Int /\ x - y = j - l /\ j \in Int
  BY <1>1, <1>2
<1>6. r.appl % PcmBuffer = y % PcmBuffer
  <2>2. \/ r.appl = y
        \/ r.appl = y - PcmBoundary
        \/ r.appl = y + PcmBoundary
    BY <1>1, <1>2, <1>4, <1>5
  <2> HIDE DEF y
  <2>1. /\ (y - PcmBoundary) % PcmBuffer = y % PcmBuffer
        /\ (y + PcmBoundary) % PcmBuffer = y % PcmBuffer
    BY <1>5, Turn
  <2> QED BY <2>1, <2>2
<1>7. k = (j - l) % PcmBuffer
  <2> HIDE DEF x, y
  <2>1. ((x % PcmBuffer) + PcmBuffer - (y % PcmBuffer)) % PcmBuffer = (x - y) % PcmBuffer
    BY <1>1, <1>5, ModDiff
  <2> QED BY <1>5, <1>6, <2>1
<1>8. i \in DOMAIN pRing
  <2> HIDE DEF x
  <2>1. i \in 0..PcmBuffer - 1
    BY <1>1, <1>5
  <2> QED BY <2>1 DEF RingTyped
<1>9. g[i] = IF k < n THEN (r.appl + k) % PcmBoundary ELSE pRing[i]
  BY <1>8 DEF Written
<1> HIDE DEF k, i, g
<1>10. CASE j < l
  <2> DEFINE z == j - l + PcmBuffer
             one == 1
  <2>1. z \in n..PcmBuffer - 1 /\ z = (j - l) + PcmBuffer * one /\ one \in Int
    BY <1>1, <1>2, <1>5, <1>10
  <2>2. j - l \in Int
    BY <1>2, <1>5
  <2> HIDE DEF one
  <2>3. ((j - l) + PcmBuffer * one) % PcmBuffer = (j - l) % PcmBuffer
    BY <1>1, <2>1, <2>2, ModShift
  <2> HIDE DEF z
  <2>4. z % PcmBuffer = z
    BY <1>1, <2>1
  <2>5. k = z
    BY <1>7, <2>1, <2>3, <2>4
  <2>6. ~(k < n)
    BY <2>1, <2>5
  <2>7. pRing[x % PcmBuffer] = x % PcmBoundary
    <3>1. j \in 0..Queued(r) - 1
      BY <1>2, <1>5, <1>10 DEF l
    <3> QED BY <1>3, <3>1 DEF RingInv
  <2> QED BY <1>9, <2>6, <2>7 DEF i
<1>11. CASE ~(j < l)
  <2>1. j - l \in 0..n - 1 /\ j - l \in 0..PcmBuffer - 1
    BY <1>1, <1>2, <1>5, <1>11
  <2>2. k = j - l
    <3> DEFINE z == j - l
    <3>1. z \in 0..PcmBuffer - 1
      BY <2>1
    <3> HIDE DEF z
    <3>2. z % PcmBuffer = z
      BY <1>1, <3>1
    <3> QED BY <1>7, <3>2 DEF z
  <2>3. k < n
    BY <2>1, <2>2
  <2>4. \/ r.appl + k = x
        \/ r.appl + k = x - PcmBoundary
        \/ r.appl + k = x + PcmBoundary
    BY <1>1, <1>2, <1>4, <1>5, <2>2
  <2> HIDE DEF x
  <2>5. (r.appl + k) % PcmBoundary = x % PcmBoundary
    BY <1>5, <2>4, Turn
  <2>6. g[i] = x % PcmBoundary
    BY <1>9, <2>3, <2>5
  <2> QED BY <2>6 DEF i, x
<1> QED BY <1>10, <1>11

(* Where the DMA is after one more frame.                                  *)
LEMMA NextFrame ==
    ASSUME Pcm!PcmParameters, NEW x \in 0..PcmBoundary - 1
    PROVE  LET y == (x + 1) % PcmBoundary
           IN  /\ y \in 0..PcmBoundary - 1
               /\ (x + 1) % PcmPeriod # 0 =>
                     y = x + 1 /\ PeriodOf(y) = PeriodOf(x)
               /\ (x + 1) % PcmPeriod = 0 =>
                     \/ y = x + 1 /\ PeriodOf(y) = PeriodOf(x) + PcmPeriod
                     \/ PeriodOf(y) = 0 /\ PeriodOf(x) = PcmBoundary - PcmPeriod
<1> DEFINE c == PeriodOf(x)
           n == x + 1
           y == n % PcmBoundary
<1>1. /\ PcmPeriod \in Nat \ {0} /\ PcmBoundary \in Nat \ {0}
      /\ PcmBoundary % PcmPeriod = 0
  BY SizesAre
<1>2. x \in Nat /\ n \in Nat /\ n = x + 1 /\ n \in 0..2 * PcmBoundary - 1
      /\ n <= PcmBoundary /\ n # 0
  BY <1>1
<1>3. c \in Nat /\ c % PcmPeriod = 0 /\ c <= x /\ x < c + PcmPeriod
  BY <1>1, <1>2, StartOf DEF PeriodOf
<1>4. /\ y \in 0..PcmBoundary - 1
      /\ n \in 0..PcmBoundary - 1 => y = n
      /\ n \in PcmBoundary..2 * PcmBoundary - 1 => y = n - PcmBoundary
  <2> HIDE DEF n
  <2>1. PcmBoundary \in Nat \ {0} /\ n \in Int
    BY <1>1, <1>2
  <2>2. /\ n % PcmBoundary \in 0..PcmBoundary - 1
        /\ n \in 0..PcmBoundary - 1 => n % PcmBoundary = n
        /\ n \in PcmBoundary..2 * PcmBoundary - 1 => n % PcmBoundary = n - PcmBoundary
    BY <2>1, ModOf
  <2> QED BY <2>2
<1> HIDE DEF c, y, n
<1>5. CASE n < c + PcmPeriod
  <2>1. c = n - (n % PcmPeriod)
    <3>1. c <= n
      BY <1>2, <1>3
    <3> QED BY <1>1, <1>2, <1>3, <1>5, <3>1, BlockIs
  <2>2. n % PcmPeriod # 0
    <3>1. CASE n % PcmPeriod = 0
      <4>1. c = n
        BY <1>2, <2>1, <3>1
      <4> QED BY <1>2, <1>3, <4>1
    <3> QED BY <3>1
  <2>3. n # PcmBoundary
    BY <1>1, <2>2
  <2>4. y = n
    BY <1>1, <1>2, <1>4, <2>3
  <2>5. PeriodOf(y) = c
    BY <2>1, <2>4 DEF PeriodOf
  <2> QED BY <1>4, <2>2, <2>4, <2>5 DEF c, n, y
<1>6. CASE ~(n < c + PcmPeriod)
  <2> DEFINE one == 1
  <2>1. n = c + PcmPeriod * one /\ one \in Int
    BY <1>1, <1>2, <1>3, <1>6
  <2>2. n = c + PcmPeriod
    BY <1>1, <1>2, <1>3, <1>6
  <2> HIDE DEF one
  <2>3. n % PcmPeriod = 0
    <3>1. c \in Int /\ PcmPeriod \in Nat \ {0}
      BY <1>1, <1>3
    <3>2. (c + PcmPeriod * one) % PcmPeriod = c % PcmPeriod
      BY <2>1, <3>1, ModShift
    <3> QED BY <1>3, <2>1, <3>2
  <2>4. CASE n = PcmBoundary
    <3>1. y = 0
      BY <1>1, <1>2, <1>4, <2>4
    <3>2. PeriodOf(y) = 0
      BY <1>1, <3>1 DEF PeriodOf
    <3>3. c = PcmBoundary - PcmPeriod
      BY <1>1, <1>3, <2>2, <2>4
    <3> QED BY <1>4, <2>3, <3>2, <3>3 DEF c, n, y
  <2>5. CASE n # PcmBoundary
    <3>1. y = n
      BY <1>1, <1>2, <1>4, <2>5
    <3>2. PeriodOf(y) = n
      BY <1>2, <2>3, <3>1 DEF PeriodOf
    <3> QED BY <1>4, <2>2, <2>3, <3>1, <3>2 DEF c, n, y
  <2> QED BY <2>4, <2>5
<1> QED BY <1>5, <1>6

LEMMA PcmDmaStep ==
    ASSUME Pcm!PcmParameters, PcmInv, Pcm!DmaStep
    PROVE  PcmInv'
<1> DEFINE ends == (pRt.done + 1) % PcmPeriod = 0
           e == (pRt.done + 1) % PcmBoundary
           i == pRt.irq \/ ends
           s == [pRt EXCEPT !.done = e, !.irq = i]
           g == IF Pcm!Playback(pRt) THEN pRing
                ELSE [pRing EXCEPT ![pRt.done % PcmBuffer] = pRt.done]
<1>1. /\ pRt.dma = "on" /\ (ends => ~pRt.irq) /\ pRt' = s /\ pRing' = g
      /\ pApp' = pApp /\ pControl' = pControl
  BY DEF Pcm!DmaStep
<1>2. /\ pRt \in RtState /\ RtInv(pRt) /\ RingInv(pRing, pRt)
      /\ AppInv(pRt, pApp)
      /\ RingTyped(pRing) /\ pControl \in 0..PcmMaxControl /\ Follows(pRt)
  BY PcmParts
<1>3. Alive(pRt) /\ Ready(pRt) /\ (~pRt.irq => Same(pRt)) /\ Near(pRt)
  BY <1>1, <1>2 DEF RtInv, Updatable, Alive, Ready
<1>4. /\ pRt.hw \in Nat /\ pRt.done \in 0..PcmBoundary - 1 /\ pRt.done \in Nat
      /\ pRt.irq \in BOOLEAN
      /\ PcmPeriod \in Nat \ {0}
  BY <1>2, RtFields, SizesAre
<1>5. /\ e \in 0..PcmBoundary - 1
      /\ ~ends => e = pRt.done + 1 /\ PeriodOf(e) = PeriodOf(pRt.done)
      /\ ends => \/ e = pRt.done + 1 /\ PeriodOf(e) = PeriodOf(pRt.done) + PcmPeriod
                 \/ PeriodOf(e) = 0 /\ PeriodOf(pRt.done) = PcmBoundary - PcmPeriod
  BY <1>4, NextFrame
<1> HIDE DEF ends, e
<1>6. /\ s \in RtState /\ s.done = e /\ (s.irq <=> pRt.irq \/ ends)
      /\ s.stream = pRt.stream /\ s.hw = pRt.hw /\ s.base = pRt.base
      /\ s.appl = pRt.appl /\ s.state = pRt.state /\ s.dma = pRt.dma
      /\ s.twake = pRt.twake
  <2>1. i \in BOOLEAN
    OBVIOUS
  <2> HIDE DEF i
  <2>2. /\ s \in RtState /\ s.done = e /\ s.irq = i
        /\ s.stream = pRt.stream /\ s.hw = pRt.hw /\ s.base = pRt.base
        /\ s.appl = pRt.appl /\ s.state = pRt.state /\ s.dma = pRt.dma
        /\ s.twake = pRt.twake
    BY <1>2, <1>5, <2>1 DEF RtState
  <2> QED BY <2>2 DEF i
<1> HIDE DEF s
<1>7. /\ Pcm!Avail(s) = Pcm!Avail(pRt)
      /\ Alive(s) <=> Alive(pRt)
      /\ Pcm!Running(s) <=> Pcm!Running(pRt)
      /\ Pcm!Playback(s) <=> Pcm!Playback(pRt)
  BY <1>2, <1>6, AvailOf DEF Alive, Pcm!Running, Pcm!Playback
<1>8. Near(s) /\ (~s.irq => Same(s))
  <2>1. CASE ends
    <3>1. PeriodOf(pRt.done) = PeriodOf(pRt.hw) /\ s.irq
      BY <1>1, <1>3, <1>6, <2>1 DEF Same
    <3> QED BY <1>5, <1>6, <2>1, <3>1 DEF Near
  <2>2. CASE ~ends
    <3>1. Same(pRt) => Same(s)
      <4>1. pRt.hw <= pRt.done => pRt.hw <= pRt.done + 1
        BY <1>4
      <4> QED BY <1>5, <1>6, <2>2, <4>1 DEF Same
    <3> QED BY <1>3, <1>5, <1>6, <2>2, <3>1 DEF Near
  <2> QED BY <2>1, <2>2
<1>9. RtInv(s)
  <2>1. Follows(s)
    BY <1>2, <1>6, <1>7 DEF Follows
  <2>2. Ready(s)
    BY <1>1, <1>3, <1>6, <1>7, <1>8 DEF Ready
  <2> QED BY <1>6, <1>8, <2>1, <2>2 DEF RtInv, Updatable
<1>10. RingInv(g, s)
  <2>1. CASE Pcm!Playback(pRt)
    BY <1>2, <1>3, <1>6, <1>7, <2>1 DEF RingInv, Queued
  <2>2. CASE ~Pcm!Playback(pRt)
    BY <1>7, <2>2 DEF RingInv
  <2> QED BY <2>1, <2>2
<1>11. RingTyped(g)
  BY <1>2, <1>4 DEF RingTyped
<1>12. AppInv(s, pApp)
  <2>1. Pcm!Avail(s) >= Pcm!Avail(pRt)
    BY <1>2, <1>7, AvailIs
  <2> QED BY <1>2, <1>3, <1>6, <2>1, AppKept
<1> HIDE DEF g
<1> QED BY <1>1, <1>2, <1>9, <1>10, <1>11, <1>12, Becomes

LEMMA PcmPeriodElapsed ==
    ASSUME Pcm!PcmParameters, PcmInv, Pcm!PeriodElapsed
    PROVE  PcmInv'
<1> DEFINE r == [pRt EXCEPT !.irq = FALSE]
           s == IF Pcm!Running(r) THEN Pcm!HwPtrUpdated(r) ELSE r
<1>1. pRt' = s /\ pRing' = pRing /\ pApp' = pApp /\ pControl' = pControl
  BY DEF Pcm!PeriodElapsed
<1>2. /\ pRt \in RtState /\ Updatable(pRt) /\ RingInv(pRing, pRt)
      /\ AppInv(pRt, pApp) /\ RingTyped(pRing) /\ pControl \in 0..PcmMaxControl
  BY PcmParts
<1>3. /\ r \in RtState /\ r.done = pRt.done /\ ~r.irq
      /\ r.stream = pRt.stream /\ r.hw = pRt.hw /\ r.base = pRt.base
      /\ r.appl = pRt.appl /\ r.state = pRt.state /\ r.dma = pRt.dma
      /\ r.twake = pRt.twake
  BY <1>2 DEF RtState
<1> HIDE DEF r
<1>4. /\ Pcm!Avail(r) = Pcm!Avail(pRt)
      /\ Alive(r) <=> Alive(pRt)
      /\ Pcm!Running(r) <=> Pcm!Running(pRt)
      /\ Pcm!Playback(r) <=> Pcm!Playback(pRt)
      /\ Near(r) <=> Near(pRt)
  BY <1>2, <1>3, AvailOf DEF Alive, Pcm!Running, Pcm!Playback, Near, Same
<1>5. Updatable(r) /\ RingInv(pRing, r) /\ AppInv(r, pApp)
  <2>1. Pcm!Avail(r) >= Pcm!Avail(pRt)
    BY <1>2, <1>4, AvailIs
  <2>2. Updatable(r)
    BY <1>2, <1>3, <1>4 DEF Updatable, Follows, Ready
  <2>3. RingInv(pRing, r)
    BY <1>2, <1>3, <1>4 DEF RingInv, Queued
  <2> QED BY <1>2, <1>3, <1>4, <2>1, <2>2, <2>3, AppKept
<1>6. RtInv(s) /\ RingInv(pRing, s) /\ AppInv(s, pApp)
  <2>1. CASE Pcm!Running(r)
    <3>1. /\ RtInv(s) /\ RingInv(pRing, s) /\ s \in RtState
          /\ s.appl = r.appl /\ s.twake = r.twake
          /\ Alive(s) => r.dma = "on" /\ Pcm!Avail(s) >= Pcm!Avail(r)
      BY <1>5, <2>1, RunningUpdated DEF RtInv, Updatable
    <3> HIDE DEF s
    <3>2. AppInv(s, pApp)
      BY <1>3, <1>5, <3>1, AppKept DEF Alive
    <3> QED BY <3>1, <3>2
  <2>2. CASE ~Pcm!Running(r)
    <3>1. Alive(r) => Same(r)
      <4>1. r.dma # "on" /\ (Alive(r) => r.hw = r.done)
        BY <1>5, <2>2 DEF Updatable, Follows, Ready
      <4>2. r.hw <= r.hw
        BY <1>3, RtFields
      <4> QED BY <4>1, <4>2 DEF Same
    <3> QED BY <1>5, <2>2, <3>1 DEF RtInv
  <2> QED BY <2>1, <2>2
<1> HIDE DEF s
<1> QED BY <1>1, <1>2, <1>6, Becomes

(* The task goes to sleep and wakes: only a sleeper changes.               *)
LEMMA SleeperSet ==
    ASSUME Pcm!PcmParameters, PcmInv, NEW z \in Pcm!Sleepers,
           Pcm!SetSleeper(z),
           pRing' = pRing, pControl' = pControl,
           NEW a, pApp' = a, AppInv(pRt, a)
    PROVE  PcmInv'
<1> DEFINE s == IF pApp.op = "transfer" THEN [pRt EXCEPT !.tsleep = z]
                ELSE [pRt EXCEPT !.sleep = z]
<1>1. pRt' = s
  BY DEF Pcm!SetSleeper
<1>2. pRt \in RtState /\ RtInv(pRt) /\ RingInv(pRing, pRt)
  BY PcmParts
<1>3. Beside(pRt, s) /\ s.twake = pRt.twake
  BY <1>2 DEF RtState, Beside
<1> HIDE DEF s
<1>4. RtInv(s) /\ RingInv(pRing, s) /\ Pcm!Avail(s) = Pcm!Avail(pRt)
      /\ (Alive(s) <=> Alive(pRt)) /\ s \in RtState /\ s.appl = pRt.appl
  BY <1>2, <1>3, BesideIs DEF Beside
<1>5. AppInv(s, a)
  <2>1. Pcm!Avail(s) >= Pcm!Avail(pRt)
    BY <1>2, <1>4, AvailIs
  <2> QED BY <1>2, <1>3, <1>4, <2>1, AppKept
<1> QED BY <1>1, <1>4, <1>5, PcmParts, Becomes

(* A task that is not copying may change its point and lateness.           *)
LEMMA PointSet ==
    ASSUME NEW r, NEW a, AppInv(r, a), a.pc \notin {"idle", "copy"},
           NEW pc \in Pcm!Points \ {"idle", "copy"}, NEW late \in BOOLEAN
    PROVE  AppInv(r, [a EXCEPT !.pc = pc, !.late = late])
<1> DEFINE b == [a EXCEPT !.pc = pc, !.late = late]
<1>1. a \in AppState /\ a.avail = 0
  BY DEF AppInv
<1>2. /\ b \in AppState /\ b.pc = pc /\ b.op = a.op /\ b.size = a.size
      /\ b.avail = a.avail
  BY <1>1 DEF AppState
<1> HIDE DEF b
<1>3. b.pc # "idle" /\ b.pc # "copy" /\ a.pc # "idle" /\ a.pc # "copy"
  BY <1>2
<1>4. /\ a.op = "transfer" => r.twake > 0
      /\ a.op = "transfer" => a.size > 0
  BY <1>3 DEF AppInv
<1>5. AppInv(r, b)
  BY <1>1, <1>2, <1>3, <1>4 DEF AppInv
<1> QED BY <1>5 DEF b

LEMMA PcmSleeps ==
    ASSUME Pcm!PcmParameters, PcmInv,
           Pcm!Announce \/ Pcm!TakeToken \/ Pcm!StopWaiting
    PROVE  PcmInv'
<1>1. /\ pRt \in RtState /\ AppInv(pRt, pApp) /\ pApp \in AppState
      /\ pApp.late \in BOOLEAN
  BY PcmParts DEF AppState
<1>2. Pcm!Sleeper \in Pcm!Sleepers
  BY <1>1, RtFields DEF Pcm!Sleeper
<1>3. CASE Pcm!Announce
  <2> DEFINE z == [Pcm!Sleeper EXCEPT !.waiting = TRUE]
             a == [pApp EXCEPT !.pc = "asleep"]
  <2>1. z \in Pcm!Sleepers
    BY <1>2 DEF Pcm!Sleepers
  <2>2. a = [pApp EXCEPT !.pc = "asleep", !.late = pApp.late]
    BY <1>1 DEF AppState
  <2>3. pApp.pc = "unlocked" /\ "asleep" \in Pcm!Points \ {"idle", "copy"}
    BY <1>3 DEF Pcm!Announce, Pcm!Points
  <2>4. AppInv(pRt, a)
    <3> HIDE DEF a
    <3>1. AppInv(pRt, [pApp EXCEPT !.pc = "asleep", !.late = pApp.late])
      BY <1>1, <2>3, PointSet
    <3> QED BY <2>2, <3>1
  <2>5. Pcm!SetSleeper(z) /\ pApp' = a /\ pRing' = pRing
        /\ pControl' = pControl
    BY <1>3 DEF Pcm!Announce
  <2> HIDE DEF z, a
  <2> QED BY <2>1, <2>4, <2>5, SleeperSet
<1>4. CASE Pcm!TakeToken
  <2> DEFINE n == Pcm!Sleeper.tokens - 1
             z == [Pcm!Sleeper EXCEPT !.tokens = n]
             a == [pApp EXCEPT !.pc = "woken", !.late = FALSE]
  <2>1. n \in 0..PcmMaxTokens
    BY <1>2, <1>4 DEF Pcm!Sleepers, Pcm!TakeToken, Pcm!PcmParameters
  <2>2. Pcm!SetSleeper(z) /\ pApp' = a /\ pRing' = pRing
        /\ pControl' = pControl
    BY <1>4 DEF Pcm!TakeToken
  <2> HIDE DEF n
  <2>3. z \in Pcm!Sleepers
    BY <1>2, <2>1 DEF Pcm!Sleepers
  <2>4. pApp.pc = "asleep" /\ "woken" \in Pcm!Points \ {"idle", "copy"}
    BY <1>4 DEF Pcm!TakeToken, Pcm!Points
  <2>5. AppInv(pRt, a)
    BY <1>1, <2>4, PointSet
  <2> HIDE DEF z, a
  <2> QED BY <2>2, <2>3, <2>5, SleeperSet
<1>5. CASE Pcm!StopWaiting
  <2> DEFINE z == [Pcm!Sleeper EXCEPT !.waiting = FALSE]
             a == [pApp EXCEPT !.pc = "relock"]
  <2>1. z \in Pcm!Sleepers
    BY <1>2 DEF Pcm!Sleepers
  <2>2. a = [pApp EXCEPT !.pc = "relock", !.late = pApp.late]
    BY <1>1 DEF AppState
  <2>3. pApp.pc = "woken" /\ "relock" \in Pcm!Points \ {"idle", "copy"}
    BY <1>5 DEF Pcm!StopWaiting, Pcm!Points
  <2>4. AppInv(pRt, a)
    <3> HIDE DEF a
    <3>1. AppInv(pRt, [pApp EXCEPT !.pc = "relock", !.late = pApp.late])
      BY <1>1, <2>3, PointSet
    <3> QED BY <2>2, <3>1
  <2>5. Pcm!SetSleeper(z) /\ pApp' = a /\ pRing' = pRing
        /\ pControl' = pControl
    BY <1>5 DEF Pcm!StopWaiting
  <2> HIDE DEF z, a
  <2> QED BY <2>1, <2>4, <2>5, SleeperSet
<1> QED BY <1>3, <1>4, <1>5

LEMMA PcmTimeOut ==
    ASSUME Pcm!PcmParameters, PcmInv, Pcm!TimeOut
    PROVE  PcmInv'
<1> DEFINE a == [pApp EXCEPT !.pc = "woken", !.late = TRUE]
<1>1. /\ pApp.pc = "asleep" /\ pApp' = a /\ pRt' = pRt /\ pRing' = pRing
      /\ pControl' = pControl
  BY DEF Pcm!TimeOut
<1>2. "woken" \in Pcm!Points \ {"idle", "copy"}
  BY DEF Pcm!Points
<1>3. AppInv(pRt, a)
  BY <1>1, <1>2, PcmParts, PointSet
<1> HIDE DEF a
<1> QED BY <1>1, <1>3, PcmParts, Becomes

LEMMA PcmDrainWakes ==
    ASSUME Pcm!PcmParameters, PcmInv, Pcm!DrainWakes
    PROVE  PcmInv'
<1> DEFINE b == [pApp EXCEPT !.pc = "unlocked"]
           a == IF pRt.state = "draining" /\ ~pApp.late THEN b ELSE Pcm!Idle
<1>1. /\ pApp.pc = "relock" /\ pApp' = a /\ pRt' = pRt /\ pRing' = pRing
      /\ pControl' = pControl
  BY DEF Pcm!DrainWakes
<1>2. AppInv(pRt, pApp) /\ pApp \in AppState
  BY PcmParts
<1>3. AppInv(pRt, b)
  <2>1. b = [pApp EXCEPT !.pc = "unlocked", !.late = pApp.late]
    BY <1>2 DEF AppState
  <2>2. "unlocked" \in Pcm!Points \ {"idle", "copy"} /\ pApp.late \in BOOLEAN
    BY <1>2 DEF Pcm!Points, AppState
  <2> HIDE DEF b
  <2> QED BY <1>1, <1>2, <2>1, <2>2, PointSet
<1>4. AppInv(pRt, a)
  BY <1>3, IdleIs
<1> HIDE DEF a
<1> QED BY <1>1, <1>4, PcmParts, Becomes

(* The other task.                                                         *)
LEMMA PcmPause ==
    ASSUME Pcm!PcmParameters, PcmInv, Pcm!Pause
    PROVE  PcmInv'
<1> DEFINE r == Pcm!HwPtrUpdated(pRt)
           d == IF r.dma = "on" THEN "paused" ELSE r.dma
           t == Pcm!Woken(r.tsleep)
           w == Pcm!Woken(r.sleep)
           s == [r EXCEPT !.dma = d, !.state = "paused", !.tsleep = t, !.sleep = w]
<1>1. /\ pRt.state = "running" /\ pRt' = s /\ pRing' = pRing /\ pApp' = pApp
  BY DEF Pcm!Pause
<1>2. pControl' \in 0..PcmMaxControl
  BY PcmParts DEF Pcm!Pause, Pcm!Controls, Pcm!PcmParameters
<1>3. /\ RtInv(r) /\ RingInv(pRing, r) /\ r \in RtState
      /\ r.appl = pRt.appl /\ r.twake = pRt.twake /\ r.dma # "paused"
      /\ r.dma = "on" => r.hw = r.done
      /\ Alive(r) => r.dma = "on" /\ pRt.dma = "on" /\ Pcm!Avail(r) >= Pcm!Avail(pRt)
  <2>1. Pcm!Running(pRt)
    BY <1>1 DEF Pcm!Running
  <2> QED BY <2>1, PcmParts, RunningUpdated DEF RtInv, Updatable
<1> HIDE DEF r
<1>4. /\ t \in Pcm!Sleepers /\ w \in Pcm!Sleepers
      /\ d \in {"off", "paused"}
      /\ d = "paused" <=> r.dma = "on"
  BY <1>3, RtFields, WokenIs
<1> HIDE DEF t, w, d
<1>5. /\ s \in RtState /\ s.stream = r.stream /\ s.hw = r.hw /\ s.base = r.base
      /\ s.appl = r.appl /\ s.done = r.done /\ s.irq = r.irq
      /\ s.twake = r.twake /\ s.dma = d /\ s.state = "paused"
  BY <1>3, <1>4 DEF RtState, Pcm!States
<1> HIDE DEF s
<1>6. Pcm!Avail(s) = Pcm!Avail(r) /\ (Alive(s) => d = "paused" /\ Alive(r))
  BY <1>3, <1>4, <1>5, AvailOf DEF Alive
<1>7. RtInv(s) /\ RingInv(pRing, s)
  <2>1. CASE d = "off"
    <3>1. s.dma = "off" /\ s.state # "prepared"
      BY <1>5, <2>1
    <3> QED BY <1>5, <3>1, AtRestIs
  <2>2. CASE d = "paused"
    <3>1. Alive(r) /\ Ready(r) /\ (~r.irq => Same(r)) /\ r.hw = r.done
      BY <1>3, <1>4, <2>2 DEF RtInv, Updatable, Alive
    <3>2. /\ Near(s) <=> Near(r)
          /\ Same(s) <=> Same(r)
          /\ Pcm!Playback(s) <=> Pcm!Playback(r)
      BY <1>5 DEF Near, Same, Pcm!Playback
    <3>3. Ready(s)
      BY <1>5, <1>6, <3>1, <3>2 DEF Ready
    <3>4. RtInv(s)
      BY <1>5, <2>2, <3>1, <3>2, <3>3 DEF RtInv, Updatable, Follows
    <3>5. RingInv(pRing, s)
      BY <1>3, <1>5, <1>6, <3>1, <3>2 DEF RingInv, Queued
    <3> QED BY <3>4, <3>5
  <2> QED BY <1>4, <2>1, <2>2
<1>8. AppInv(s, pApp)
  <2>1. pRt \in RtState /\ AppInv(pRt, pApp)
    BY PcmParts
  <2>2. Alive(s) => Alive(pRt) /\ Pcm!Avail(s) >= Pcm!Avail(pRt)
    BY <1>3, <1>6 DEF Alive
  <2> QED BY <1>3, <1>5, <2>1, <2>2, AppKept
<1> QED BY <1>1, <1>2, <1>7, <1>8, PcmParts, Becomes

LEMMA PcmRelease ==
    ASSUME Pcm!PcmParameters, PcmInv, Pcm!Release
    PROVE  PcmInv'
<1> DEFINE s == Pcm!Unpaused(pRt)
<1>1. /\ RtInv(s) /\ RingInv(pRing, s) /\ Pcm!Avail(s) = Pcm!Avail(pRt)
      /\ (Alive(s) <=> Alive(pRt)) /\ s.appl = pRt.appl /\ s.twake = pRt.twake
      /\ s \in RtState
  BY PcmParts, UnpausedIs DEF RtInv, Updatable
<1>2. pRt' = s /\ pRing' = pRing /\ pApp' = pApp /\ pControl' = pControl
  BY DEF Pcm!Release
<1> HIDE DEF s
<1>3. AppInv(s, pApp)
  <2>1. Pcm!Avail(s) >= Pcm!Avail(pRt)
    BY <1>1, PcmParts, AvailIs
  <2> QED BY <1>1, <2>1, PcmParts, AppKept
<1> QED BY <1>1, <1>2, <1>3, PcmParts, Becomes

LEMMA PcmDrop ==
    ASSUME Pcm!PcmParameters, PcmInv, Pcm!Drop
    PROVE  PcmInv'
<1> DEFINE r == Pcm!Unpaused(pRt)
           s == Pcm!Stopped(r, "setup")
<1>1. /\ RtInv(r) /\ r \in RtState /\ r.dma # "paused"
      /\ r.appl = pRt.appl /\ r.twake = pRt.twake
  BY PcmParts, UnpausedIs DEF RtInv, Updatable
<1>2. pRt' = s /\ pRing' = pRing /\ pApp' = pApp
  BY DEF Pcm!Drop
<1>3. pControl' \in 0..PcmMaxControl
  <2>1. pControl \in 0..PcmMaxControl /\ PcmMaxControl \in Nat
    BY PcmParts DEF Pcm!PcmParameters
  <2> QED BY <2>1 DEF Pcm!Drop, Pcm!Controls
<1> HIDE DEF r
<1>4. /\ s \in RtState /\ s.state = "setup" /\ s.dma = "off"
      /\ s.appl = r.appl /\ s.twake = r.twake
  <2>1. Kept(r, s) /\ s.state = "setup"
        /\ s.dma = IF Pcm!Running(r) THEN "off" ELSE r.dma
    BY <1>1, StoppedIs DEF Pcm!States
  <2>2. Pcm!Running(r) \/ r.dma = "off"
    BY <1>1, RtFields DEF RtInv, Updatable, Follows
  <2> QED BY <2>1, <2>2 DEF Kept
<1> HIDE DEF s
<1>5. RtInv(s) /\ RingInv(pRing, s) /\ ~Alive(s)
  BY <1>4, AtRestIs
<1>6. AppInv(s, pApp)
  BY <1>1, <1>4, <1>5, PcmParts, AppKept
<1> QED BY <1>2, <1>3, <1>5, <1>6, PcmParts, Becomes

(* A drain begins on a stream that runs, or starts one that has data.      *)
LEMMA DrainingIs ==
    ASSUME Pcm!PcmParameters, NEW g, NEW r, RtInv(r), RingInv(g, r),
           Pcm!Running(r)
    PROVE  LET s == [r EXCEPT !.state = "draining"]
           IN  Pcm!Playback(r) => RtInv(s) /\ RingInv(g, s)
<1> DEFINE s == [r EXCEPT !.state = "draining"]
<1> SUFFICES ASSUME Pcm!Playback(r) PROVE RtInv(s) /\ RingInv(g, s)
  OBVIOUS
<1>0. r \in RtState
  BY DEF RtInv, Updatable
<1>1. /\ s \in RtState /\ s.state = "draining" /\ s.dma = r.dma
      /\ s.stream = r.stream /\ s.hw = r.hw /\ s.base = r.base
      /\ s.appl = r.appl /\ s.done = r.done /\ s.irq = r.irq
  BY <1>0 DEF RtState, Pcm!States
<1> HIDE DEF s
<1>2. /\ Pcm!Avail(s) = Pcm!Avail(r)
      /\ Pcm!Playback(s)
      /\ Pcm!Running(s)
      /\ Same(s) <=> Same(r)
      /\ Near(s) <=> Near(r)
      /\ Alive(s) => Alive(r)
  BY <1>0, <1>1, AvailOf DEF Pcm!Playback, Pcm!Running, Same, Near, Alive
<1>3. s.dma # "paused"
  BY <1>1 DEF RtInv, Updatable, Follows, Pcm!Running
<1>4. RtInv(s)
  BY <1>1, <1>2, <1>3 DEF RtInv, Updatable, Follows, Ready
<1>5. RingInv(g, s)
  BY <1>1, <1>2 DEF RingInv, Queued
<1> QED BY <1>4, <1>5

LEMMA PcmDrainBegins ==
    ASSUME Pcm!PcmParameters, PcmInv, Pcm!DrainBegins
    PROVE  PcmInv'
<1> DEFINE state == IF pRt.state = "paused" THEN "running" ELSE pRt.state
           d == IF pRt.dma = "paused" THEN "on" ELSE pRt.dma
           r == [pRt EXCEPT !.state = state, !.dma = d]
           drained ==
             CASE Pcm!Playback(r) /\ state = "prepared" ->
                    IF Pcm!Avail(r) < PcmBuffer THEN Pcm!Started(r, "draining")
                    ELSE [r EXCEPT !.state = "setup"]
               [] Pcm!Playback(r) /\ state = "running" ->
                    [r EXCEPT !.state = "draining"]
               [] Pcm!Playback(r) /\ state = "xrun" -> [r EXCEPT !.state = "setup"]
               [] ~Pcm!Playback(r) /\ state = "running" ->
                    Pcm!Stopped(r, IF Pcm!Avail(r) > 0 THEN "draining" ELSE "setup")
               [] OTHER -> r
           a == IF Pcm!Playback(r) /\ drained.state = "draining"
                THEN [Pcm!Idle EXCEPT !.op = "drain", !.pc = "unlocked"]
                ELSE Pcm!Idle
<1>1. pRt' = drained /\ pApp' = a /\ pRing' = pRing /\ pControl' = pControl
  BY DEF Pcm!DrainBegins
<1>2. pRt \in RtState /\ RtInv(pRt) /\ RingInv(pRing, pRt) /\ Follows(pRt)
  BY PcmParts
<1>3. state \in Pcm!States /\ d \in {"off", "on", "paused"}
  BY <1>2, RtFields DEF Pcm!States
<1>4. /\ r \in RtState /\ r.state = state /\ r.dma = d
      /\ r.stream = pRt.stream /\ r.hw = pRt.hw /\ r.base = pRt.base
      /\ r.appl = pRt.appl /\ r.done = pRt.done /\ r.irq = pRt.irq
  <2> HIDE DEF state, d
  <2> QED BY <1>2, <1>3 DEF RtState
<1> HIDE DEF r
<1>5. /\ RtInv(r) /\ RingInv(pRing, r) /\ r.dma # "paused" /\ r.state = state
      /\ Follows(r)
  <2>1. RtInv(r) /\ RingInv(pRing, r) /\ r.dma # "paused"
    BY <1>2, <1>4, ResumedIs
  <2> QED BY <1>4, <2>1 DEF RtInv, Updatable
<1>6. ASSUME NEW x \in RtState, x.state = "setup", x.dma = "off"
      PROVE  RtInv(x) /\ RingInv(pRing, x)
  BY <1>6, AtRestIs
<1>7. r.dma = "on" => Pcm!Running(r)
  BY <1>5 DEF Follows
<1> HIDE DEF state, d
<1>8. RtInv(drained) /\ RingInv(pRing, drained)
  <2>1. CASE Pcm!Playback(r) /\ state = "prepared"
    <3>1. drained = IF Pcm!Avail(r) < PcmBuffer THEN Pcm!Started(r, "draining")
                    ELSE [r EXCEPT !.state = "setup"]
      BY <2>1
    <3>2. CASE Pcm!Avail(r) < PcmBuffer
      BY <1>5, <2>1, <3>1, <3>2, StartedIs
    <3>3. CASE ~(Pcm!Avail(r) < PcmBuffer)
      <4> DEFINE x == [r EXCEPT !.state = "setup"]
      <4>1. drained = x
        BY <3>1, <3>3
      <4>2. r.dma = "off"
        BY <1>4, <1>5, <1>7, <2>1, RtFields DEF Pcm!Running
      <4>3. x \in RtState /\ x.state = "setup" /\ x.dma = "off"
        BY <1>4, <4>2 DEF RtState, Pcm!States
      <4> HIDE DEF x, drained
      <4> QED BY <1>6, <4>1, <4>3
    <3> QED BY <3>2, <3>3
  <2>2. CASE Pcm!Playback(r) /\ state = "running"
    <3>1. drained = [r EXCEPT !.state = "draining"]
      BY <2>2
    <3>2. Pcm!Running(r)
      BY <1>5, <2>2 DEF Pcm!Running
    <3> HIDE DEF drained
    <3> QED BY <1>5, <2>2, <3>1, <3>2, DrainingIs
  <2>3. CASE Pcm!Playback(r) /\ state = "xrun"
    <3> DEFINE x == [r EXCEPT !.state = "setup"]
    <3>1. drained = x
      BY <2>3
    <3>2. r.dma = "off"
      BY <1>4, <1>5, <1>7, <2>3, RtFields DEF Pcm!Running
    <3>3. x \in RtState /\ x.state = "setup" /\ x.dma = "off"
      BY <1>4, <3>2 DEF RtState, Pcm!States
    <3> HIDE DEF x, drained
    <3> QED BY <1>6, <3>1, <3>3
  <2>4. CASE ~Pcm!Playback(r) /\ state = "running"
    <3> DEFINE to == IF Pcm!Avail(r) > 0 THEN "draining" ELSE "setup"
               x == Pcm!Stopped(r, to)
    <3>1. drained = x
      BY <2>4
    <3>2. to \in Pcm!States /\ to # "prepared"
      BY DEF Pcm!States
    <3> HIDE DEF to
    <3>3. /\ x \in RtState /\ x.state = to
          /\ x.dma = IF Pcm!Running(r) THEN "off" ELSE r.dma
      BY <1>4, <3>2, StoppedIs DEF Kept
    <3>4. Pcm!Running(r)
      BY <1>5, <2>4 DEF Pcm!Running
    <3> HIDE DEF x, drained
    <3> QED BY <3>1, <3>2, <3>3, <3>4, AtRestIs
  <2>5. CASE /\ ~(Pcm!Playback(r) /\ state = "prepared")
             /\ ~(Pcm!Playback(r) /\ state = "running")
             /\ ~(Pcm!Playback(r) /\ state = "xrun")
             /\ ~(~Pcm!Playback(r) /\ state = "running")
    <3>1. drained = r
      BY <2>5, Zenon
    <3> HIDE DEF drained
    <3> QED BY <1>5, <3>1
  <2> HIDE DEF drained
  <2> QED BY <2>1, <2>2, <2>3, <2>4, <2>5
<1> HIDE DEF drained
<1>9. AppInv(drained, a)
  <2> DEFINE b == [Pcm!Idle EXCEPT !.op = "drain", !.pc = "unlocked"]
  <2>1. /\ b \in AppState /\ b.op = "drain" /\ b.pc = "unlocked" /\ b.avail = 0
    BY IdleIs DEF AppState, Pcm!Points, Pcm!Idle
  <2> HIDE DEF b
  <2>2. AppInv(drained, b)
    BY <2>1 DEF AppInv
  <2>3. a = b \/ a = Pcm!Idle
    BY DEF b
  <2> QED BY <2>2, <2>3, IdleIs
<1> HIDE DEF a
<1> QED BY <1>1, <1>8, <1>9, PcmParts, Becomes

(* wait_for_avail goes on after a wake-up.                                 *)
LEMMA PcmTransferWakes ==
    ASSUME Pcm!PcmParameters, PcmInv, Pcm!TransferWakes
    PROVE  PcmInv'
<1> DEFINE c == CASE pRt.state \in {"xrun", "setup"} -> Pcm!Ends(pRt, pApp, TRUE)
           [] pRt.state = "draining" /\ Pcm!Playback(pRt) -> Pcm!Ends(pRt, pApp, TRUE)
           [] pRt.state = "draining" /\ ~Pcm!Playback(pRt) -> Pcm!Continues(pRt, pApp)
           [] pRt.state = "paused" -> Pcm!Awaits(pRt, pApp)
           [] pRt.state \in {"prepared", "running"} ->
                 IF pApp.late THEN Pcm!Ends(pRt, pApp, TRUE) ELSE Pcm!Awaits(pRt, pApp)
<1>1. /\ pApp.pc = "relock" /\ pApp.op = "transfer"
      /\ pRt' = c[1] /\ pApp' = c[2] /\ pRing' = pRing /\ pControl' = pControl
  BY DEF Pcm!TransferWakes, Pcm!Become
<1>2. /\ pRt \in RtState /\ RtInv(pRt) /\ RingInv(pRing, pRt) /\ Follows(pRt)
      /\ AppInv(pRt, pApp) /\ pApp \in AppState
  BY PcmParts
<1>3. pApp.avail = 0 /\ pApp.size > 0 /\ pRt.twake > 0
  BY <1>1, <1>2 DEF AppInv
<1>4. c \in {Pcm!Ends(pRt, pApp, TRUE), Pcm!Continues(pRt, pApp), Pcm!Awaits(pRt, pApp)}
  <2>1. CASE pRt.state \in {"xrun", "setup"}
    <3>1. c = Pcm!Ends(pRt, pApp, TRUE)
      BY <2>1
    <3> QED BY <3>1
  <2>2. CASE pRt.state = "draining"
    <3>1. ~(pRt.state \in {"xrun", "setup"})
      BY <2>2
    <3>2. CASE Pcm!Playback(pRt)
      <4>1. c = Pcm!Ends(pRt, pApp, TRUE)
        BY <2>2, <3>1, <3>2
      <4> QED BY <4>1
    <3>3. CASE ~Pcm!Playback(pRt)
      <4>1. c = Pcm!Continues(pRt, pApp)
        BY <2>2, <3>1, <3>3
      <4> QED BY <4>1
    <3> QED BY <3>2, <3>3
  <2>3. CASE pRt.state = "paused"
    <3>1. c = Pcm!Awaits(pRt, pApp)
      BY <2>3
    <3> QED BY <3>1
  <2>4. CASE pRt.state \in {"prepared", "running"}
    <3>1. c = IF pApp.late THEN Pcm!Ends(pRt, pApp, TRUE) ELSE Pcm!Awaits(pRt, pApp)
      BY <2>4
    <3> QED BY <3>1
  <2> HIDE DEF c
  <2> QED BY <1>2, <2>1, <2>2, <2>3, <2>4, RtFields DEF Pcm!States
<1> HIDE DEF c
<1>5. RtInv(c[1]) /\ RingInv(pRing, c[1]) /\ AppInv(c[1], c[2])
  <2>1. CASE c = Pcm!Ends(pRt, pApp, TRUE)
    BY <1>2, <2>1, EndsIs
  <2>2. CASE c = Pcm!Continues(pRt, pApp)
    <3>1. Alive(pRt) => pApp.avail <= Pcm!Avail(pRt)
      BY <1>2, <1>3, AvailIs
    <3>2. ~(pApp.size = 0)
      BY <1>2, <1>3 DEF AppState
    <3> QED BY <1>1, <1>2, <1>3, <2>2, <3>1, <3>2, ContinuesIs
  <2>3. CASE c = Pcm!Awaits(pRt, pApp)
    BY <1>1, <1>2, <1>3, <2>3, AwaitsIs
  <2> QED BY <1>4, <2>1, <2>2, <2>3
<1> QED BY <1>1, <1>5, PcmParts, Becomes

(* appl_ptr moves on by what was copied.                                   *)
LEMMA MovedIs ==
    ASSUME Pcm!PcmParameters, PcmInv, pApp.pc = "copy"
    PROVE  LET appl == pApp.from + pApp.frames
               m == [pRt EXCEPT !.appl = IF appl >= PcmBoundary
                                         THEN appl - PcmBoundary ELSE appl]
               g == IF ~Pcm!Playback(pRt) THEN pRing
                    ELSE Written(pApp.from, pApp.frames)
           IN  /\ RtInv(m) /\ RingInv(g, m) /\ RingTyped(g)
               /\ m.twake = pRt.twake /\ m.dma = pRt.dma /\ m.state = pRt.state
               /\ Alive(m) <=> Alive(pRt)
               /\ Alive(pRt) => Pcm!Avail(m) = Pcm!Avail(pRt) - pApp.frames
<1> DEFINE n == pApp.frames
           appl == pApp.from + n
           p == IF appl >= PcmBoundary THEN appl - PcmBoundary ELSE appl
           m == [pRt EXCEPT !.appl = p]
           g == IF ~Pcm!Playback(pRt) THEN pRing ELSE Written(pApp.from, n)
<1>1. /\ pRt \in RtState /\ RtInv(pRt) /\ RingInv(pRing, pRt)
      /\ AppInv(pRt, pApp) /\ pApp \in AppState /\ RingTyped(pRing)
  BY PcmParts
<1>2. /\ pApp.from = pRt.appl /\ n \in 1..PcmBuffer
      /\ pApp.avail \in 0..PcmBoundary - 1
      /\ n <= pApp.avail
      /\ Alive(pRt) => pApp.avail <= Pcm!Avail(pRt)
  <2>1. n \in 0..PcmBuffer /\ PcmBuffer \in Nat \ {0}
    BY <1>1, SizesAre DEF AppState
  <2> HIDE DEF n
  <2>2. n > 0 => n \in 1..PcmBuffer
    BY <2>1
  <2> QED BY <1>1, <2>2 DEF AppInv, AppState, n
<1>3. /\ PcmBuffer \in Nat \ {0} /\ PcmBoundary \in Nat \ {0}
      /\ 3 * PcmBuffer <= PcmBoundary
      /\ pRt.appl \in 0..PcmBoundary - 1 /\ pRt.hw \in 0..PcmBoundary - 1
      /\ Pcm!Avail(pRt) \in 0..PcmBoundary - 1
  BY <1>1, SizesAre, RtFields, AvailIs
<1>4. RingTyped(g)
  <2>1. pApp.from \in Int /\ n \in Nat
    BY <1>2, <1>3
  <2> HIDE DEF n
  <2> QED BY <1>1, <2>1, WrittenTyped
<1> HIDE DEF n, g
<1>5. p \in 0..PcmBoundary - 1
      /\ (p = pRt.appl + n \/ p = pRt.appl + n - PcmBoundary)
  BY <1>2, <1>3
<1> HIDE DEF p
<1>6. /\ m \in RtState /\ m.appl = p /\ m.irq = pRt.irq
      /\ m.stream = pRt.stream /\ m.hw = pRt.hw /\ m.base = pRt.base
      /\ m.state = pRt.state /\ m.dma = pRt.dma /\ m.done = pRt.done
      /\ m.twake = pRt.twake
  BY <1>1, <1>5 DEF RtState
<1> HIDE DEF m
<1>7. /\ Alive(m) <=> Alive(pRt)
      /\ Pcm!Playback(m) <=> Pcm!Playback(pRt)
      /\ Pcm!Running(m) <=> Pcm!Running(pRt)
      /\ Same(m) <=> Same(pRt)
      /\ Near(m) <=> Near(pRt)
  BY <1>6 DEF Alive, Pcm!Playback, Pcm!Running, Same, Near
<1>8. ASSUME Alive(pRt)
      PROVE  /\ Pcm!Avail(m) = Pcm!Avail(pRt) - n /\ n <= Pcm!Avail(pRt)
             /\ Pcm!Avail(pRt) <= PcmBuffer /\ Pcm!Avail(m) <= PcmBuffer
  <2>1. Pcm!Avail(pRt) <= PcmBuffer /\ n <= Pcm!Avail(pRt)
    <3>1. pApp.avail <= Pcm!Avail(pRt)
      BY <1>2, <1>8
    <3>2. Pcm!Avail(pRt) <= PcmBuffer
      BY <1>1, <1>8 DEF RtInv, Updatable, Ready
    <3> QED BY <1>2, <1>3, <3>1, <3>2
  <2>2. Pcm!Avail(m) \in 0..PcmBoundary - 1
    BY <1>6, AvailIs
  <2>3. Pcm!Avail(m) = Pcm!Avail(pRt) - n
    <3>1. CASE Pcm!Playback(pRt)
      <4>1. \/ Pcm!Avail(pRt) = pRt.hw + PcmBuffer - pRt.appl
            \/ Pcm!Avail(pRt) = pRt.hw + PcmBuffer - pRt.appl + PcmBoundary
            \/ Pcm!Avail(pRt) = pRt.hw + PcmBuffer - pRt.appl - PcmBoundary
        BY <1>1, <3>1, AvailIs
      <4>2. \/ Pcm!Avail(m) = pRt.hw + PcmBuffer - p
            \/ Pcm!Avail(m) = pRt.hw + PcmBuffer - p + PcmBoundary
            \/ Pcm!Avail(m) = pRt.hw + PcmBuffer - p - PcmBoundary
        BY <1>6, <1>7, <3>1, AvailIs
      <4> QED BY <1>2, <1>3, <1>5, <2>1, <2>2, <4>1, <4>2
    <3>2. CASE ~Pcm!Playback(pRt)
      <4>1. \/ Pcm!Avail(pRt) = pRt.hw - pRt.appl
            \/ Pcm!Avail(pRt) = pRt.hw - pRt.appl + PcmBoundary
        BY <1>1, <3>2, AvailIs
      <4>2. \/ Pcm!Avail(m) = pRt.hw - p
            \/ Pcm!Avail(m) = pRt.hw - p + PcmBoundary
        BY <1>6, <1>7, <3>2, AvailIs
      <4> QED BY <1>2, <1>3, <1>5, <2>1, <2>2, <4>1, <4>2
    <3> QED BY <3>1, <3>2
  <2>4. Pcm!Avail(m) <= PcmBuffer
    BY <1>2, <1>3, <2>1, <2>3
  <2> QED BY <2>1, <2>3, <2>4
<1>9. RtInv(m)
  BY <1>1, <1>6, <1>7, <1>8 DEF RtInv, Updatable, Follows, Ready
<1>10. RingInv(g, m)
  <2>1. CASE Alive(pRt) /\ Pcm!Playback(pRt)
    <3>1. RingInv(Written(pRt.appl, n), m)
      BY <1>1, <1>2, <1>6, <1>8, <2>1, RingGrows
    <3> QED BY <1>2, <2>1, <3>1 DEF g
  <2>2. CASE ~(Alive(pRt) /\ Pcm!Playback(pRt))
    BY <1>7, <2>2 DEF RingInv
  <2> QED BY <2>1, <2>2
<1> QED BY <1>4, <1>6, <1>7, <1>8, <1>9, <1>10 DEF g, m, p, n

LEMMA PcmCommit ==
    ASSUME Pcm!PcmParameters, PcmInv, Pcm!Commit
    PROVE  PcmInv'
<1> DEFINE appl == pApp.from + pApp.frames
           m == [pRt EXCEPT !.appl = IF appl >= PcmBoundary
                                     THEN appl - PcmBoundary ELSE appl]
           full == Pcm!Playback(pRt) /\ PcmBuffer - Pcm!Avail(m) >= PcmBuffer
           r == IF full THEN Pcm!Started(m, "running") ELSE m
           x == pApp.size - pApp.frames
           y == pApp.moved + pApp.frames
           z == pApp.avail - pApp.frames
           a == [pApp EXCEPT !.size = x, !.moved = y, !.avail = z]
           c == IF pRt.state = "xrun" THEN Pcm!Ends(pRt, pApp, TRUE)
                ELSE Pcm!Continues(r, a)
           g == IF ~Pcm!Playback(pRt) THEN pRing
                ELSE Written(pApp.from, pApp.frames)
<1>1. /\ pApp.pc = "copy" /\ pRt' = c[1] /\ pApp' = c[2]
      /\ pControl' = pControl
      /\ pRing' = g
  <2>1. /\ pApp.pc = "copy" /\ pRt' = c[1] /\ pApp' = c[2]
        /\ pControl' = pControl
    BY DEF Pcm!Commit, Pcm!Become
  <2>2. pRing' = g
    BY DEF Pcm!Commit, Written
  <2> QED BY <2>1, <2>2
<1>2. /\ pRt \in RtState /\ RtInv(pRt) /\ Follows(pRt)
      /\ AppInv(pRt, pApp) /\ pApp \in AppState
  BY PcmParts
<1>3. /\ RtInv(m) /\ RingInv(g, m) /\ RingTyped(g)
      /\ m.twake = pRt.twake /\ m.dma = pRt.dma /\ m.state = pRt.state
      /\ (Alive(m) <=> Alive(pRt))
      /\ (Alive(pRt) => Pcm!Avail(m) = Pcm!Avail(pRt) - pApp.frames)
  BY <1>1, MovedIs
<1>4. /\ pApp.op = "transfer" /\ pRt.twake > 0
      /\ pApp.frames \in Nat \ {0} /\ pApp.frames <= pApp.size
      /\ pApp.frames <= pApp.avail /\ pApp.size \in Nat /\ pApp.moved \in Nat
      /\ pApp.avail \in 0..PcmBoundary - 1 /\ PcmBoundary \in Nat \ {0}
      /\ PcmBuffer \in Nat
      /\ Alive(pRt) => /\ pApp.avail <= Pcm!Avail(pRt) /\ Pcm!Avail(pRt) <= PcmBuffer
                       /\ Pcm!Avail(pRt) \in 0..PcmBoundary - 1
  <2>1. pApp.frames \in Nat /\ pApp.frames > 0
    BY <1>1, <1>2, SizesAre DEF AppInv, AppState
  <2>2. pApp.frames \in Nat \ {0}
    BY <2>1
  <2>3. /\ pApp.op = "transfer" /\ pRt.twake > 0
        /\ pApp.frames <= pApp.size /\ pApp.frames <= pApp.avail
        /\ Alive(pRt) => pApp.avail <= Pcm!Avail(pRt)
    BY <1>1, <1>2 DEF AppInv
  <2>4. /\ pApp.size \in Nat /\ pApp.moved \in Nat
        /\ pApp.avail \in 0..PcmBoundary - 1
    BY <1>2 DEF AppState
  <2>5. Alive(pRt) => Pcm!Avail(pRt) <= PcmBuffer
    BY <1>2 DEF RtInv, Updatable, Ready
  <2> QED BY <1>2, <2>2, <2>3, <2>4, <2>5, AvailIs, SizesAre
<1> HIDE DEF m, g
<1>5. /\ RtInv(r) /\ RingInv(g, r) /\ Pcm!Avail(r) = Pcm!Avail(m)
      /\ r.twake = pRt.twake
      /\ Alive(r) => Alive(pRt)
      /\ r.dma = "paused" => pRt.dma = "paused"
  BY <1>3, StartedIs
<1> HIDE DEF r
<1>6. x \in Nat /\ y \in Nat /\ z \in 0..PcmBoundary - 1
  BY <1>4
<1>7. a \in AppState /\ a.op = "transfer" /\ a.size = x /\ a.avail = z
  <2> HIDE DEF x, y, z
  <2> QED BY <1>2, <1>4, <1>6 DEF AppState
<1>8. /\ Alive(pRt) => z <= Pcm!Avail(m) /\ Pcm!Avail(m) < PcmBuffer
  BY <1>3, <1>4
<1> HIDE DEF a, x, y, z
<1>9. RtInv(c[1]) /\ RingInv(g, c[1]) /\ AppInv(c[1], c[2])
  <2>1. CASE pRt.state = "xrun"
    <3>1. c = Pcm!Ends(pRt, pApp, TRUE)
      BY <2>1
    <3> HIDE DEF c
    <3>2. pRt.dma = "off"
      BY <1>2, <2>1, RtFields DEF Follows, Pcm!Running
    <3>3. RingInv(g, pRt)
      BY <2>1, <3>2 DEF RingInv, Alive
    <3> QED BY <1>2, <3>1, <3>3, EndsIs
  <2>2. CASE pRt.state # "xrun"
    <3>1. c = Pcm!Continues(r, a)
      BY <2>2
    <3> HIDE DEF c
    <3>2. Alive(r) => a.avail <= Pcm!Avail(r)
      BY <1>5, <1>7, <1>8
    <3>3. a.size = 0 /\ r.dma = "paused" => Pcm!Avail(r) < PcmBuffer
      BY <1>5, <1>8 DEF Alive
    <3>4. r.twake > 0
      BY <1>4, <1>5
    <3> QED BY <1>5, <1>7, <3>1, <3>2, <3>3, <3>4, ContinuesIs
  <2> QED BY <2>1, <2>2
<1> HIDE DEF c
<1> QED BY <1>1, <1>3, <1>9, PcmParts, Becomes

LEMMA PcmInit ==
    ASSUME Pcm!PcmParameters, Pcm!Init
    PROVE  PcmInv
<1>1. /\ PcmBuffer \in Nat \ {0} /\ PcmBoundary \in Nat \ {0}
      /\ 3 * PcmBuffer <= PcmBoundary /\ PcmPeriod \in Nat \ {0}
      /\ PcmMaxTokens \in Nat /\ PcmMaxControl \in Nat
  BY SizesAre DEF Pcm!PcmParameters
<1>2. 0 \in 0..PcmBoundary - 1 /\ 0 % PcmBuffer = 0 /\ 0 \in 0..PcmPeriod
      /\ 0 \in 0..PcmMaxTokens /\ PcmMaxControl \in 0..PcmMaxControl
  BY <1>1
<1> DEFINE none == [waiting |-> FALSE, tokens |-> 0]
<1>3. none \in Pcm!Sleepers
  BY <1>2 DEF Pcm!Sleepers
<1> HIDE DEF none
<1>4. pRt \in RtState /\ pRt.dma = "off" /\ pRt.state # "prepared"
  <2>1. PICK stream \in PcmStreams :
         pRt = [stream |-> stream, state |-> "setup", hw |-> 0, base |-> 0,
                appl |-> 0, twake |-> 0, dma |-> "off", irq |-> FALSE,
                done |-> 0, tsleep |-> none, sleep |-> none]
    BY DEF Pcm!Init, none
  <2> QED BY <1>2, <1>3, <2>1 DEF RtState, Pcm!States
<1>5. RtInv(pRt) /\ RingInv(pRing, pRt)
  BY <1>4, AtRestIs
<1>6. AppInv(pRt, pApp)
  BY IdleIs DEF Pcm!Init
<1>7. RingTyped(pRing) /\ pControl \in 0..PcmMaxControl
  BY <1>2 DEF Pcm!Init, RingTyped
<1> QED BY <1>5, <1>6, <1>7 DEF PcmInv

LEMMA PcmStep ==
    ASSUME Pcm!PcmParameters, PcmInv, [Pcm!Next]_pvars
    PROVE  PcmInv'
<1>1. CASE UNCHANGED pvars
  <2>1. pRt' = pRt /\ pRing' = pRing /\ pApp' = pApp /\ pControl' = pControl
    BY <1>1 DEF pvars
  <2> QED BY <2>1, PcmParts, Becomes
<1>2. CASE Pcm!Next
  BY <1>2, PcmPrepare, PcmStart, PcmTransfer, PcmDrainBegins, PcmHwSync,
     PcmRewind, PcmCommit, PcmSleeps, PcmTimeOut, PcmTransferWakes,
     PcmDrainWakes, PcmPause, PcmRelease, PcmDrop, PcmDmaStep,
     PcmPeriodElapsed DEF Pcm!Next, Pcm!TaskStep
<1> QED BY <1>1, <1>2

(* How far the DMA is from hw_ptr, and the task from the DMA.              *)
Lag(r) ==
    IF r.done < r.hw THEN r.done - r.hw + PcmBoundary ELSE r.done - r.hw

LEMMA LagIs ==
    ASSUME Pcm!PcmParameters, NEW r \in RtState, Near(r)
    PROVE  /\ Lag(r) \in 0..2 * PcmPeriod - 1
           /\ (r.done + PcmBoundary - r.hw) % PcmBoundary = Lag(r)
<1>1. /\ r.hw \in 0..PcmBoundary - 1 /\ r.done \in 0..PcmBoundary - 1
      /\ PcmBoundary \in Nat \ {0}
  BY RtFields, SizesAre
<1>2. Lag(r) \in 0..2 * PcmPeriod - 1
  <2>1. \/ PeriodOf(r.done) = PeriodOf(r.hw) /\ r.hw <= r.done
        \/ PeriodOf(r.done) = PeriodOf(r.hw) + PcmPeriod
        \/ PeriodOf(r.done) = 0 /\ PeriodOf(r.hw) = PcmBoundary - PcmPeriod
    BY DEF Near, Same
  <2> QED BY <1>1, <2>1, Catches DEF Lag
<1>3. (r.done + PcmBoundary - r.hw) % PcmBoundary = Lag(r)
  <2> DEFINE x == r.done + PcmBoundary - r.hw
  <2>1. x \in Int /\ x \in 0..2 * PcmBoundary - 1
    BY <1>1
  <2>2. Lag(r) = IF x < PcmBoundary THEN x ELSE x - PcmBoundary
    BY <1>1 DEF Lag
  <2> HIDE DEF x
  <2>3. /\ x \in 0..PcmBoundary - 1 => x % PcmBoundary = x
        /\ x \in PcmBoundary..2 * PcmBoundary - 1 => x % PcmBoundary = x - PcmBoundary
    BY <1>1, <2>1, ModOf
  <2>4. x % PcmBoundary = Lag(r)
    BY <1>1, <2>1, <2>2, <2>3
  <2> QED BY <2>4 DEF x
<1> QED BY <1>2, <1>3

LEMMA AheadIs ==
    ASSUME Pcm!PcmParameters, PcmInv, Alive(pRt), Pcm!Playback(pRt)
    PROVE  /\ Queued(pRt) \in 0..PcmBuffer /\ Lag(pRt) \in 0..2 * PcmPeriod - 1
           /\ Queued(pRt) >= Lag(pRt) =>
                 Pcm!Left = Queued(pRt) - Lag(pRt) /\ Pcm!Stale = 0
           /\ Queued(pRt) < Lag(pRt) =>
                 Pcm!Left = 0 /\ Pcm!Stale = Lag(pRt) - Queued(pRt)
<1> DEFINE l == Queued(pRt)
           d == Lag(pRt)
           z == pRt.appl + PcmBoundary - pRt.done
<1>1. pRt \in RtState /\ Near(pRt) /\ Pcm!Avail(pRt) <= PcmBuffer
  BY PcmParts DEF Updatable, Ready
<1>2. /\ PcmBuffer \in Nat \ {0} /\ PcmPeriod \in Nat \ {0}
      /\ PcmBoundary \in Nat \ {0} /\ 2 * PcmPeriod <= PcmBuffer
      /\ 3 * PcmBuffer <= PcmBoundary
      /\ pRt.hw \in 0..PcmBoundary - 1 /\ pRt.done \in 0..PcmBoundary - 1
      /\ pRt.appl \in 0..PcmBoundary - 1
      /\ Pcm!Avail(pRt) \in 0..PcmBoundary - 1
  BY <1>1, SizesAre, RtFields, AvailIs
<1>3. l \in 0..PcmBuffer /\ d \in 0..2 * PcmPeriod - 1
  BY <1>1, <1>2, LagIs DEF Queued
<1>4. \/ pRt.appl = pRt.hw + l
      \/ pRt.appl = pRt.hw + l - PcmBoundary
      \/ pRt.appl = pRt.hw + l + PcmBoundary
  <2>1. \/ Pcm!Avail(pRt) = pRt.hw + PcmBuffer - pRt.appl
        \/ Pcm!Avail(pRt) = pRt.hw + PcmBuffer - pRt.appl + PcmBoundary
        \/ Pcm!Avail(pRt) = pRt.hw + PcmBuffer - pRt.appl - PcmBoundary
    BY <1>1, AvailIs
  <2> QED BY <1>2, <2>1 DEF Queued
<1>5. pRt.done = pRt.hw + d \/ pRt.done = pRt.hw + d - PcmBoundary
  BY <1>2 DEF Lag
<1> HIDE DEF l, d
<1>6. z \in Int /\ z \in 0..2 * PcmBoundary - 1
  BY <1>2
<1>7. /\ Pcm!Ahead = z % PcmBoundary
      /\ z \in 0..PcmBoundary - 1 => z % PcmBoundary = z
      /\ z \in PcmBoundary..2 * PcmBoundary - 1 => z % PcmBoundary = z - PcmBoundary
  <2>1. Pcm!Ahead = z % PcmBoundary
    BY DEF Pcm!Ahead
  <2> HIDE DEF z
  <2> QED BY <1>2, <1>6, <2>1, ModOf
<1>8. /\ l >= d => Pcm!Ahead = l - d
      /\ l < d => Pcm!Ahead = l - d + PcmBoundary
  BY <1>2, <1>3, <1>4, <1>5, <1>6, <1>7
<1> HIDE DEF z
<1>9. /\ l >= d => Pcm!Left = l - d /\ Pcm!Stale = 0
      /\ l < d => Pcm!Left = 0 /\ Pcm!Stale = d - l
  BY <1>2, <1>3, <1>8 DEF Pcm!Left, Pcm!Stale
<1> QED BY <1>3, <1>9 DEF l, d

LEMMA PcmMeans ==
    ASSUME Pcm!PcmParameters, PcmInv
    PROVE  /\ Pcm!PcmTypeOK /\ Pcm!DmaFollowsState /\ Pcm!HwPtrTracks
           /\ Pcm!UnderrunStops /\ Pcm!NothingOverwritten
<1>1. /\ pRt \in RtState /\ Follows(pRt) /\ RingInv(pRing, pRt)
      /\ pApp \in AppState /\ RingTyped(pRing) /\ pControl \in 0..PcmMaxControl
      /\ Alive(pRt) => Near(pRt)
  BY PcmParts DEF Updatable, Ready
<1>2. Pcm!PcmTypeOK
  BY <1>1 DEF Pcm!PcmTypeOK, RtState, AppState, RingTyped
<1>3. Pcm!DmaFollowsState
  BY <1>1 DEF Pcm!DmaFollowsState, Follows
<1>4. Pcm!HwPtrTracks
  <2>1. 2 * PcmPeriod \in Int
    BY SizesAre
  <2> QED BY <1>1, <2>1, LagIs DEF Pcm!HwPtrTracks, Alive
<1>5. Pcm!UnderrunStops
  <2> SUFFICES ASSUME pRt.dma = "on",
                      Pcm!Playback(pRt) PROVE Pcm!Stale < 2 * PcmPeriod
    BY DEF Pcm!UnderrunStops
  <2>1. Alive(pRt) /\ PcmPeriod \in Nat \ {0} /\ PcmBuffer \in Nat
    BY SizesAre DEF Alive
  <2> QED BY <2>1, AheadIs
<1>6. Pcm!NothingOverwritten
  <2> SUFFICES ASSUME Pcm!Playback(pRt), Alive(pRt), NEW i \in 0..Pcm!Left - 1
               PROVE  pRing[(pRt.done + i) % PcmBuffer] = (pRt.done + i) % PcmBoundary
    BY DEF Pcm!NothingOverwritten, Alive
  <2> DEFINE l == Queued(pRt)
             d == Lag(pRt)
             j == d + i
             y == pRt.done + i
  <2>1. /\ l \in 0..PcmBuffer /\ d \in 0..2 * PcmPeriod - 1
        /\ l >= d => Pcm!Left = l - d
        /\ l < d => Pcm!Left = 0
    BY AheadIs
  <2>2. /\ pRt.hw \in 0..PcmBoundary - 1 /\ pRt.done \in 0..PcmBoundary - 1
        /\ PcmBoundary \in Nat \ {0} /\ PcmBuffer \in Nat \ {0}
        /\ PcmPeriod \in Nat \ {0}
    BY <1>1, RtFields, SizesAre
  <2>3. pRt.done = pRt.hw + d \/ pRt.done = pRt.hw + d - PcmBoundary
    BY <2>2 DEF Lag
  <2> HIDE DEF l, d
  <2>4. j \in 0..l - 1 /\ y \in Int /\ i \in Int
    BY <2>1, <2>2
  <2>5. pRt.hw + j = y \/ pRt.hw + j = y + PcmBoundary
    BY <2>1, <2>2, <2>3, <2>4
  <2> HIDE DEF j
  <2>6. pRing[(pRt.hw + j) % PcmBuffer] = (pRt.hw + j) % PcmBoundary
    BY <1>1, <2>4 DEF RingInv, l
  <2> HIDE DEF y
  <2>7. /\ (pRt.hw + j) % PcmBuffer = y % PcmBuffer
        /\ (pRt.hw + j) % PcmBoundary = y % PcmBoundary
    BY <2>4, <2>5, Turn
  <2> QED BY <2>6, <2>7 DEF y
<1> QED BY <1>2, <1>3, <1>4, <1>5, <1>6

(* Of what the task does on a stream that drains, nothing ends the drain.  *)
LEMMA DrainGoesOn ==
    ASSUME Pcm!PcmParameters, NEW r \in RtState, Pcm!Running(r),
           r.state = "draining",
           NEW a \in AppState, Pcm!Avail(r) < PcmBuffer
    PROVE  Pcm!Continues(r, a)[1].state = "draining"
<1>1. Pcm!Playback(r)
  BY DEF Pcm!Running
<1>2. CASE a.size = 0
  <2> DEFINE l == [r EXCEPT !.twake = 0]
             s == IF a.moved > 0 /\ ~FALSE THEN Pcm!StateUpdated(l) ELSE l
  <2>1. Pcm!Continues(r, a) = <<s, Pcm!Idle>>
    <3>1. ~(a.size > 0)
      BY <1>2
    <3> QED BY <1>2, <3>1 DEF Pcm!Continues, Pcm!Ends
  <2>2. l \in RtState /\ l.state = "draining" /\ Beside(r, l)
    <3>1. 0 \in 0..PcmPeriod
      BY SizesAre
    <3> QED BY <3>1 DEF RtState, Beside
  <2> HIDE DEF l
  <2>3. Pcm!Avail(l) < PcmBuffer
    BY <2>2, AvailOf DEF Beside
  <2>4. s.state = "draining"
    BY <2>2, <2>3, UpdatedIs
  <2> QED BY <2>1, <2>4
<1>3. CASE a.size > 0 /\ a.avail > 0
  <2>1. ~(a.size = 0) /\ ~(a.avail = 0)
    BY <1>3
  <2>2. Pcm!Continues(r, a) = Pcm!Copies(r, a)
    BY <1>3, <2>1, Zenon DEF Pcm!Continues
  <2> QED BY <2>2 DEF Pcm!Copies
<1>4. CASE a.size > 0 /\ ~(a.avail > 0)
  <2> DEFINE t == Pcm!Smaller(a.size, r.twake)
             s == [r EXCEPT !.twake = t]
  <2>1. ~(a.size = 0)
    BY <1>4
  <2>2. Pcm!Continues(r, a) = Pcm!Awaits(s, a)
    BY <1>1, <1>4, <2>1, Zenon DEF Pcm!Continues
  <2>3. s.state = "draining"
    <3> HIDE DEF t
    <3> QED BY DEF RtState
  <2> HIDE DEF s
  <2>4. Pcm!Awaits(s, a)[1] = s
    BY DEF Pcm!Awaits, Pcm!Copies
  <2> QED BY <2>2, <2>3, <2>4
<1>5. a.size = 0 \/ a.size > 0
  BY DEF AppState
<1> QED BY <1>2, <1>3, <1>4, <1>5

LEMMA DrainPlays ==
    ASSUME Pcm!PcmParameters, PcmInv, [Pcm!Next]_pvars,
           pRt.state = "draining", pRt'.state = "setup", pRt.dma = "on",
           pApp.pc # "idle", pControl' = pControl
    PROVE  Pcm!Left = 0
<1>1. /\ pRt \in RtState /\ Updatable(pRt) /\ Follows(pRt) /\ RtInv(pRt)
      /\ AppInv(pRt, pApp) /\ pApp \in AppState /\ pControl \in Nat
  BY PcmParts DEF Pcm!PcmParameters
<1>2. /\ Pcm!Running(pRt) /\ Pcm!Playback(pRt) /\ Alive(pRt)
  BY <1>1 DEF Follows, Pcm!Running, Alive
<1>3. ~Pcm!Controls
  BY <1>1 DEF Pcm!Controls
<1>4. CASE Pcm!Commit
  <2> DEFINE appl == pApp.from + pApp.frames
             m == [pRt EXCEPT !.appl = IF appl >= PcmBoundary
                                       THEN appl - PcmBoundary ELSE appl]
             full == Pcm!Playback(pRt) /\ PcmBuffer - Pcm!Avail(m) >= PcmBuffer
             r == IF full THEN Pcm!Started(m, "running") ELSE m
             x == pApp.size - pApp.frames
             y == pApp.moved + pApp.frames
             z == pApp.avail - pApp.frames
             a == [pApp EXCEPT !.size = x, !.moved = y, !.avail = z]
  <2>1. pRt' = Pcm!Continues(r, a)[1] /\ pApp.pc = "copy"
    BY <1>4 DEF Pcm!Commit, Pcm!Become
  <2>2. RtInv(m) /\ m.state = "draining"
        /\ Pcm!Avail(m) = Pcm!Avail(pRt) - pApp.frames
        /\ m.dma = "on"
    BY <1>2, <2>1, MovedIs
  <2> HIDE DEF m
  <2>3. r = m
    BY <2>2 DEF Pcm!Started, Pcm!MayStart
  <2>4. /\ x \in Nat /\ y \in Nat /\ z \in 0..PcmBoundary - 1
        /\ Pcm!Avail(m) < PcmBuffer
    <3>1. /\ pApp.frames \in 0..PcmBuffer /\ pApp.size \in Nat
          /\ pApp.moved \in Nat /\ pApp.avail \in 0..PcmBoundary - 1
      BY <1>1 DEF AppState
    <3>2. 0 < pApp.frames /\ pApp.frames <= pApp.avail
          /\ pApp.frames <= pApp.size
      BY <1>1, <2>1 DEF AppInv
    <3>3. Pcm!Avail(pRt) <= PcmBuffer /\ Pcm!Avail(pRt) \in 0..PcmBoundary - 1
      BY <1>1, <1>2, AvailIs DEF Updatable, Ready
    <3> QED BY <2>2, <3>1, <3>2, <3>3, SizesAre
  <2>5. a \in AppState
    <3> HIDE DEF x, y, z
    <3> QED BY <1>1, <2>4 DEF AppState
  <2> HIDE DEF r, a, x, y, z
  <2>6. m \in RtState /\ Pcm!Running(m)
    BY <2>2 DEF RtInv, Updatable, Follows
  <2>7. Pcm!Continues(m, a)[1].state = "draining"
    BY <2>2, <2>4, <2>5, <2>6, DrainGoesOn
  <2> QED BY <2>1, <2>3, <2>7
<1>5. CASE Pcm!TransferWakes
  <2> DEFINE c == CASE pRt.state \in {"xrun", "setup"} -> Pcm!Ends(pRt, pApp, TRUE)
           [] pRt.state = "draining" /\ Pcm!Playback(pRt) -> Pcm!Ends(pRt, pApp, TRUE)
           [] pRt.state = "draining" /\ ~Pcm!Playback(pRt) -> Pcm!Continues(pRt, pApp)
           [] pRt.state = "paused" -> Pcm!Awaits(pRt, pApp)
           [] pRt.state \in {"prepared", "running"} ->
                 IF pApp.late THEN Pcm!Ends(pRt, pApp, TRUE) ELSE Pcm!Awaits(pRt, pApp)
  <2>1. pRt' = c[1]
    BY <1>5 DEF Pcm!TransferWakes, Pcm!Become
  <2>2. c = Pcm!Ends(pRt, pApp, TRUE)
    BY <1>2
  <2> HIDE DEF c
  <2>3. Pcm!Ends(pRt, pApp, TRUE)[1].state = "draining"
    BY <1>1 DEF Pcm!Ends, RtState
  <2> QED BY <2>1, <2>2, <2>3
<1>6. CASE Pcm!PeriodElapsed
  <2> DEFINE r == [pRt EXCEPT !.irq = FALSE]
             s == Pcm!HwPtrUpdated(r)
  <2>1. /\ r \in RtState /\ r.done = pRt.done
        /\ r.stream = pRt.stream /\ r.hw = pRt.hw /\ r.base = pRt.base
        /\ r.appl = pRt.appl /\ r.state = pRt.state /\ r.dma = pRt.dma
    BY <1>1 DEF RtState
  <2> HIDE DEF r
  <2>2. /\ Pcm!Avail(r) = Pcm!Avail(pRt)
        /\ Alive(r) <=> Alive(pRt)
        /\ Pcm!Running(r) <=> Pcm!Running(pRt)
        /\ Near(r) <=> Near(pRt)
    BY <1>1, <2>1, AvailOf DEF Alive, Pcm!Running, Pcm!Playback, Near, Same
  <2>3. Updatable(r)
    BY <1>1, <2>1, <2>2 DEF Updatable, Follows, Ready
  <2>4. pRt' = s
    BY <1>2, <1>6, <2>2 DEF Pcm!PeriodElapsed, r
  <2>5. /\ Pcm!Avail(s) = Pcm!Avail(r) + Lag(r) /\ Pcm!Avail(s) >= PcmBuffer
    BY <2>1, <2>3, <2>4, HwPtrCatchesUp DEF Lag
  <2> HIDE DEF s
  <2>6. Lag(r) = Lag(pRt)
    BY <2>1 DEF Lag
  <2>7. Queued(pRt) <= Lag(pRt)
    <3>1. Pcm!Avail(pRt) \in Int /\ PcmBuffer \in Int /\ Lag(pRt) \in Int
      BY <1>1, <1>2, AvailIs, SizesAre, AheadIs
    <3> QED BY <2>2, <2>5, <2>6, <3>1 DEF Queued
  <2>8. Queued(pRt) >= Lag(pRt) \/ Queued(pRt) < Lag(pRt)
    BY <1>2, AheadIs, SizesAre
  <2> QED BY <1>2, <2>7, <2>8, AheadIs, SizesAre
<1>7. ASSUME pRt'.state = pRt.state PROVE FALSE
  BY <1>7
<1>8. CASE Pcm!Announce \/ Pcm!TakeToken \/ Pcm!StopWaiting
  <2>1. PICK z : Pcm!SetSleeper(z)
    BY <1>8 DEF Pcm!Announce, Pcm!TakeToken, Pcm!StopWaiting
  <2>2. pRt'.state = pRt.state
    BY <1>1, <2>1 DEF Pcm!SetSleeper, RtState
  <2> QED BY <1>7, <2>2
<1>9. CASE Pcm!DmaStep
  <2> DEFINE e == (pRt.done + 1) % PcmBoundary
             i == pRt.irq \/ (pRt.done + 1) % PcmPeriod = 0
  <2>1. pRt' = [pRt EXCEPT !.done = e, !.irq = i]
    BY <1>9 DEF Pcm!DmaStep
  <2> HIDE DEF e, i
  <2>2. pRt'.state = pRt.state
    BY <1>1, <2>1 DEF RtState
  <2> QED BY <1>7, <2>2
<1>10. CASE Pcm!TimeOut \/ Pcm!DrainWakes \/ UNCHANGED pvars
  BY <1>7, <1>10 DEF Pcm!TimeOut, Pcm!DrainWakes, pvars
<1>11. ~(Pcm!Pause \/ Pcm!Release \/ Pcm!Drop)
  BY <1>3 DEF Pcm!Pause, Pcm!Release, Pcm!Drop
<1>12. ~(Pcm!Prepare \/ Pcm!Start \/ Pcm!Transfer \/ Pcm!DrainBegins \/ Pcm!HwSync \/ Pcm!Rewind)
  BY DEF Pcm!Prepare, Pcm!Start, Pcm!Transfer, Pcm!DrainBegins, Pcm!HwSync,
     Pcm!Rewind
<1> QED BY <1>4, <1>5, <1>6, <1>8, <1>9, <1>10, <1>11, <1>12
        DEF Pcm!Next, Pcm!TaskStep

-----------------------------------------------------------------------------
(* The transfers by DMA.                                                   *)
ChanState == [used : BOOLEAN, desc : BOOLEAN, cyclic : BOOLEAN,
              irqType : Spi!Irq \cup {None}, callback : SpiPort \cup {SpiSound, None}]

DmacState == [en : SUBSET Spi!Irq, stat : SUBSET Spi!Irq, run : {"off", "once", "loop"}]

PortState == [pc : {"idle", "request", "submit", "read", "wait", "stop",
                    "free"},
              kind : {"tx", "rx", "duplex", "write", "read", None},
              result : {"ready", "ok", "failed"}, sem : BOOLEAN,
              semTx : Nat, semRx : Nat, chan : Spi!Chan \cup {None},
              clean : BOOLEAN, ret : {"none", "ok", "error"}, failures : Nat]

BusState == [on : BOOLEAN, moved : BOOLEAN, over : BOOLEAN, late : BOOLEAN,
             stat : SUBSET {"tc", "err"}, en : SUBSET {"tc", "err"}]

Typed ==
    /\ tChan \in [Spi!Chan -> ChanState] /\ tDmac \in [Spi!Chan -> DmacState]
    /\ tSpi \in [SpiPort -> PortState] /\ tBus \in [SpiPort -> BusState]
    /\ tStream \in [pc : {"closed", "open", "running"}, chan : Spi!Chan \cup {None}]

Receives(p) == tSpi[p].kind \in {"rx", "duplex"}

(* A call that has a channel. *)
Holds(p) ==
    \/ tSpi[p].pc \in {"submit", "stop", "free"}
    \/ tSpi[p].pc = "wait" /\ tSpi[p].kind \notin {"write", "read"}

PortOK(p) ==
    /\ Holds(p) => /\ tSpi[p].chan \in Spi!Chan /\ tChan[tSpi[p].chan].used
                   /\ tSpi[p].kind \in {"tx", "rx", "duplex"}
    /\ ~Holds(p) => tSpi[p].chan = None
    /\ tSpi[p].pc = "request" => tSpi[p].kind \in {"tx", "rx", "duplex"}
    /\ tSpi[p].pc = "wait" =>
           tSpi[p].kind \in {"tx", "rx", "duplex", "write", "read"}
    /\ tSpi[p].pc = "read" => tSpi[p].kind = "read"
    /\ tSpi[p].pc = "submit" =>
           /\ tDmac[tSpi[p].chan].run = "off" /\ tDmac[tSpi[p].chan].en = {}
           /\ ~tChan[tSpi[p].chan].desc => tChan[tSpi[p].chan].callback = None
    /\ tSpi[p].pc = "free" => tDmac[tSpi[p].chan].run = "off"

PortInv == \A p \in SpiPort : PortOK(p)

StreamInv ==
    /\ tStream.pc = "closed" <=> tStream.chan = None
    /\ tStream.pc # "closed" => /\ tChan[tStream.chan].used
                                /\ tDmac[tStream.chan].en \subseteq {"pkg"}
    /\ tStream.pc = "open" => tDmac[tStream.chan].run = "off"

ChanInv ==
    \A c \in Spi!Chan :
        /\ tDmac[c].en \subseteq {tChan[c].irqType}
        /\ ~tChan[c].used => /\ ~tChan[c].desc /\ tChan[c].callback = None
                             /\ tDmac[c].run = "off" /\ tDmac[c].en = {}
        /\ tChan[c].cyclic => tChan[c].desc /\ tStream = [pc |-> "running", chan |-> c]
        /\ tChan[c].callback = SpiSound => tStream.chan = c
        /\ \A p \in SpiPort : tChan[c].callback = p =>
              tSpi[p].chan = c /\ tSpi[p].kind \in {"rx", "duplex"}

OneUser ==
    \A p \in SpiPort : tSpi[p].chan # None =>
        /\ tStream.chan # tSpi[p].chan
        /\ \A o \in SpiPort : tSpi[o].chan = tSpi[p].chan => o = p

OwnInv == Typed /\ PortInv /\ StreamInv /\ ChanInv /\ OneUser

(* A status bit that is set is one whose interrupt is enabled, a channel  *)
(* that runs will interrupt at its end, and only the stream's runs for    *)
(* ever.                                                                   *)
StatOK(c) ==
    /\ tDmac[c].stat # {} => tDmac[c].stat \cap tDmac[c].en # {}
    /\ tDmac[c].run = "once" => "queue" \in tDmac[c].en
    /\ tDmac[c].run = "loop" => "pkg" \in tDmac[c].en /\ tStream.chan = c

StatInv == \A c \in Spi!Chan : StatOK(c)

(* What the state of a call says that found nothing of former ones. *)
Done(p) == tBus[p].over /\ tBus[p].moved

(* The semaphore of a transmission is given once, with its result. *)
TxState(p) ==
    /\ tSpi[p].semRx = 0
    /\ \/ /\ tSpi[p].semTx = 0 /\ tSpi[p].sem /\ tSpi[p].result = "ready"
       \/ /\ tSpi[p].semTx = 1 /\ ~tSpi[p].sem /\ tBus[p].en = {}
          /\ tSpi[p].result = "failed" \/ (tSpi[p].result = "ok" /\ Done(p))

(* That of a receive is given by the DMA, when it has moved everything. *)
RxState(p) ==
    /\ tSpi[p].semTx = 0 /\ ~tSpi[p].sem
    /\ \/ tSpi[p].semRx = 0
       \/ /\ tSpi[p].semRx = 1 /\ tSpi[p].pc = "wait" /\ Done(p)
          /\ tDmac[tSpi[p].chan].run = "off" /\ tDmac[tSpi[p].chan].stat = {}
    /\ tSpi[p].chan # None /\ tDmac[tSpi[p].chan].stat # {} =>
           Done(p) /\ tSpi[p].semRx = 0 /\ tDmac[tSpi[p].chan].run = "off"

(* The result of a transfer by the processor is set when it is over; what *)
(* is to be sent has been written at once.                                 *)
CpuState(p) ==
    /\ tSpi[p].kind = "write" => tBus[p].moved
    /\ tSpi[p].result = "ok" => tBus[p].over

EndState(p) == tSpi[p].ret = "ok" => Done(p)

DoneOK(p) ==
    tSpi[p].clean =>
         /\ ~tBus[p].late
         /\ "tc" \in tBus[p].stat => tBus[p].over
         /\ tBus[p].over =>
                tBus[p].moved \/ Receives(p) \/ tSpi[p].kind = "read"
         /\ tSpi[p].pc \in {"request", "submit", "read", "wait"} =>
                /\ tSpi[p].kind = "tx" => TxState(p)
                /\ Receives(p) => RxState(p)
                /\ tSpi[p].kind \in {"write", "read"} => CpuState(p)
         /\ tSpi[p].pc \in {"stop", "free"} => EndState(p)

DoneInv == \A p \in SpiPort : DoneOK(p)

DoneAll == OwnInv /\ StatInv /\ DoneInv

(* A call that returns OK returns from a transfer that is done. *)
Returns(p) ==
    /\ tSpi[p].pc # "idle" /\ tSpi'[p].pc = "idle"
    /\ tSpi'[p].ret = "ok" /\ tSpi[p].clean /\ tSpi[p].result # "ready"
    => tBus[p].over /\ (tBus[p].moved \/ tSpi[p].kind = "read")

(* What the constants are taken to be.                                     *)
LEMMA Names ==
    ASSUME Spi!SpiParameters
    PROVE  /\ None \notin Spi!Chan /\ None \notin SpiPort
           /\ SpiSound \notin SpiPort
           /\ SpiSound # None
           /\ \A p \in SpiPort :
                 SpiKinds[p] \subseteq {"tx", "rx", "duplex", "write", "read"}
BY DEF Spi!SpiParameters

LEMMA FieldTypes ==
    ASSUME Typed
    PROVE  /\ \A c \in Spi!Chan :
                /\ tChan[c] \in ChanState /\ tDmac[c] \in DmacState
                /\ tChan[c].used \in BOOLEAN /\ tChan[c].desc \in BOOLEAN
                /\ tChan[c].cyclic \in BOOLEAN
                /\ tChan[c].irqType \in Spi!Irq \cup {None}
                /\ tChan[c].callback \in SpiPort \cup {SpiSound, None}
                /\ tDmac[c].en \subseteq Spi!Irq
                /\ tDmac[c].stat \subseteq Spi!Irq
                /\ tDmac[c].run \in {"off", "once", "loop"}
           /\ \A p \in SpiPort : tSpi[p] \in PortState /\ tBus[p] \in BusState
           /\ tStream.pc \in {"closed", "open", "running"}
           /\ tStream.chan \in Spi!Chan \cup {None}
           /\ tStream = [pc |-> tStream.pc, chan |-> tStream.chan]
<1>1. \A c \in Spi!Chan : tChan[c] \in ChanState /\ tDmac[c] \in DmacState
  BY DEF Typed
<1>2. \A p \in SpiPort : tSpi[p] \in PortState /\ tBus[p] \in BusState
  BY DEF Typed
<1>3. /\ tStream.pc \in {"closed", "open", "running"}
      /\ tStream.chan \in Spi!Chan \cup {None}
      /\ tStream = [pc |-> tStream.pc, chan |-> tStream.chan]
  BY DEF Typed
<1> QED BY <1>1, <1>2, <1>3 DEF ChanState, DmacState

(* A record of a port that is changed. *)
LEMMA SetPort ==
    ASSUME Typed, NEW p \in SpiPort, NEW r \in PortState,
           tSpi' = [tSpi EXCEPT ![p] = r]
    PROVE  /\ tSpi' \in [SpiPort -> PortState] /\ tSpi'[p] = r
           /\ \A o \in SpiPort : o # p => tSpi'[o] = tSpi[o]
BY DEF Typed

LEMMA SetBus ==
    ASSUME Typed, NEW p \in SpiPort, NEW r \in BusState,
           tBus' = [tBus EXCEPT ![p] = r]
    PROVE  /\ tBus' \in [SpiPort -> BusState] /\ tBus'[p] = r
           /\ \A o \in SpiPort : o # p => tBus'[o] = tBus[o]
BY DEF Typed

LEMMA SetChan ==
    ASSUME Typed, NEW c \in Spi!Chan, NEW r \in ChanState,
           tChan' = [tChan EXCEPT ![c] = r]
    PROVE  /\ tChan' \in [Spi!Chan -> ChanState] /\ tChan'[c] = r
           /\ \A d \in Spi!Chan : d # c => tChan'[d] = tChan[d]
BY DEF Typed

LEMMA SetDmac ==
    ASSUME Typed, NEW c \in Spi!Chan, NEW r \in DmacState,
           tDmac' = [tDmac EXCEPT ![c] = r]
    PROVE  /\ tDmac' \in [Spi!Chan -> DmacState] /\ tDmac'[c] = r
           /\ \A d \in Spi!Chan : d # c => tDmac'[d] = tDmac[d]
BY DEF Typed

(* A call that returns. *)
LEMMA LeaveEffect ==
    ASSUME Typed, NEW p \in SpiPort, Spi!Leave(p)
    PROVE  /\ tBus' \in [SpiPort -> BusState]
           /\ \A o \in SpiPort : o # p => tBus'[o] = tBus[o]
<1> DEFINE b == [Spi!AtRest EXCEPT !.late = Spi!Unfinished(p), !.en = tBus[p].en]
<1>1. tBus[p] \in BusState
  BY DEF Typed
<1>2. b \in BusState
  BY <1>1 DEF BusState, Spi!AtRest, Spi!Unfinished
<1>3. tBus' = [tBus EXCEPT ![p] = b]
  BY DEF Spi!Leave
<1> HIDE DEF b
<1> QED BY <1>2, <1>3, SetBus

LEMMA FailEffect ==
    ASSUME Typed, NEW p \in SpiPort, Spi!Fail(p)
    PROVE  /\ tSpi' \in [SpiPort -> PortState]
           /\ tBus' \in [SpiPort -> BusState]
           /\ \A o \in SpiPort : o # p => tSpi'[o] = tSpi[o] /\ tBus'[o] = tBus[o]
           /\ tSpi'[p].pc = "idle" /\ tSpi'[p].chan = None
           /\ ~tSpi'[p].clean /\ tSpi'[p].ret = "error"
<1> DEFINE r == [tSpi[p] EXCEPT !.pc = "idle", !.kind = None, !.chan = None,
                                !.clean = FALSE, !.ret = "error",
                                !.failures = @ + 1]
<1>1. tSpi[p] \in PortState /\ tSpi[p].failures + 1 \in Nat
  BY DEF Typed, PortState
<1>2. /\ r \in PortState /\ r.pc = "idle" /\ r.chan = None /\ ~r.clean
      /\ r.ret = "error"
  BY <1>1 DEF PortState
<1>3. tSpi' = [tSpi EXCEPT ![p] = r]
  BY <1>1 DEF Spi!Fail, Spi!Return, PortState
<1> HIDE DEF r
<1>4. /\ tSpi' \in [SpiPort -> PortState] /\ tSpi'[p] = r
      /\ \A o \in SpiPort : o # p => tSpi'[o] = tSpi[o]
  BY <1>2, <1>3, SetPort
<1>5. Spi!Leave(p)
  BY DEF Spi!Fail
<1> QED BY <1>2, <1>4, <1>5, LeaveEffect

(* The steps of the pool, as far as the channel is concerned.              *)
LEMMA RequestEffect ==
    ASSUME OwnInv, NEW c \in Spi!Chan, Spi!Request(c)
    PROVE  /\ tChan' \in [Spi!Chan -> ChanState] /\ UNCHANGED tDmac
           /\ ~tChan[c].used /\ tChan'[c].used
           /\ tChan'[c].desc = tChan[c].desc
           /\ tChan'[c].cyclic = tChan[c].cyclic
           /\ tChan'[c].irqType = tChan[c].irqType
           /\ tChan'[c].callback = tChan[c].callback
           /\ \A d \in Spi!Chan : d # c => tChan'[d] = tChan[d]
<1>1. tChan[c] \in ChanState
  BY FieldTypes DEF OwnInv
<1>2. [tChan[c] EXCEPT !.used = TRUE] \in ChanState
  BY <1>1 DEF ChanState
<1>3. tChan' = [tChan EXCEPT ![c] = [tChan[c] EXCEPT !.used = TRUE]]
  BY DEF Spi!Request
<1>4. ~tChan[c].used /\ UNCHANGED tDmac
  BY DEF Spi!Request, Spi!FirstFree
<1>5. /\ tChan' \in [Spi!Chan -> ChanState]
      /\ tChan'[c] = [tChan[c] EXCEPT !.used = TRUE]
      /\ \A d \in Spi!Chan : d # c => tChan'[d] = tChan[d]
  BY <1>2, <1>3, SetChan DEF OwnInv
<1> QED BY <1>1, <1>4, <1>5 DEF ChanState

LEMMA StartEffect ==
    ASSUME OwnInv, NEW c \in Spi!Chan, ~tChan[c].cyclic, Spi!Start(c)
    PROVE  /\ tChan' \in [Spi!Chan -> ChanState]
           /\ tDmac' \in [Spi!Chan -> DmacState]
           /\ tChan'[c].used = tChan[c].used /\ tChan'[c].desc = tChan[c].desc
           /\ ~tChan'[c].cyclic /\ tChan'[c].callback = tChan[c].callback
           /\ tChan'[c].irqType = "queue"
           /\ tDmac'[c].en = tDmac[c].en \cup {"queue"}
           /\ tDmac'[c].stat = tDmac[c].stat /\ tDmac'[c].run = "once"
           /\ \A d \in Spi!Chan : d # c => tChan'[d] = tChan[d] /\ tDmac'[d] = tDmac[d]
<1>1. tChan[c] \in ChanState /\ tDmac[c] \in DmacState
  BY FieldTypes DEF OwnInv
<1> DEFINE r == [tChan[c] EXCEPT !.irqType = "queue"]
           s == [tDmac[c] EXCEPT !.en = @ \cup {"queue"}, !.run = "once"]
<1>2. tChan' = [tChan EXCEPT ![c] = r] /\ tDmac' = [tDmac EXCEPT ![c] = s]
  BY DEF Spi!Start, Spi!Started
<1>3. r \in ChanState /\ s \in DmacState
  BY <1>1 DEF ChanState, DmacState, Spi!Irq
<1>4. /\ r.used = tChan[c].used /\ r.desc = tChan[c].desc /\ ~r.cyclic
      /\ r.callback = tChan[c].callback /\ r.irqType = "queue"
      /\ s.en = tDmac[c].en \cup {"queue"} /\ s.stat = tDmac[c].stat
      /\ s.run = "once"
  BY <1>1 DEF ChanState, DmacState
<1> HIDE DEF r, s
<1>5. /\ tChan' \in [Spi!Chan -> ChanState] /\ tChan'[c] = r
      /\ \A d \in Spi!Chan : d # c => tChan'[d] = tChan[d]
  BY <1>2, <1>3, SetChan DEF OwnInv
<1>6. /\ tDmac' \in [Spi!Chan -> DmacState] /\ tDmac'[c] = s
      /\ \A d \in Spi!Chan : d # c => tDmac'[d] = tDmac[d]
  BY <1>2, <1>3, SetDmac DEF OwnInv
<1> QED BY <1>4, <1>5, <1>6

LEMMA StopEffect ==
    ASSUME OwnInv, NEW c \in Spi!Chan, Spi!Stop(c)
    PROVE  /\ tChan' \in [Spi!Chan -> ChanState]
           /\ tDmac' \in [Spi!Chan -> DmacState]
           /\ tChan'[c].used = tChan[c].used /\ tChan'[c].desc = tChan[c].desc
           /\ ~tChan'[c].cyclic /\ tChan'[c].callback = tChan[c].callback
           /\ tChan'[c].irqType = tChan[c].irqType
           /\ tDmac'[c].en = tDmac[c].en /\ tDmac'[c].stat = tDmac[c].stat
           /\ tDmac'[c].run = "off"
           /\ \A d \in Spi!Chan : d # c => tChan'[d] = tChan[d] /\ tDmac'[d] = tDmac[d]
<1>1. tChan[c] \in ChanState /\ tDmac[c] \in DmacState
  BY FieldTypes DEF OwnInv
<1> DEFINE r == [tChan[c] EXCEPT !.cyclic = FALSE]
           s == [tDmac[c] EXCEPT !.run = "off"]
<1>2. tChan' = [tChan EXCEPT ![c] = r] /\ tDmac' = [tDmac EXCEPT ![c] = s]
  BY DEF Spi!Stop, Spi!Stopped
<1>3. r \in ChanState /\ s \in DmacState
  BY <1>1 DEF ChanState, DmacState
<1>4. /\ r.used = tChan[c].used /\ r.desc = tChan[c].desc /\ ~r.cyclic
      /\ r.callback = tChan[c].callback /\ r.irqType = tChan[c].irqType
      /\ s.en = tDmac[c].en /\ s.stat = tDmac[c].stat /\ s.run = "off"
  BY <1>1 DEF ChanState, DmacState
<1> HIDE DEF r, s
<1>5. /\ tChan' \in [Spi!Chan -> ChanState] /\ tChan'[c] = r
      /\ \A d \in Spi!Chan : d # c => tChan'[d] = tChan[d]
  BY <1>2, <1>3, SetChan DEF OwnInv
<1>6. /\ tDmac' \in [Spi!Chan -> DmacState] /\ tDmac'[c] = s
      /\ \A d \in Spi!Chan : d # c => tDmac'[d] = tDmac[d]
  BY <1>2, <1>3, SetDmac DEF OwnInv
<1> QED BY <1>4, <1>5, <1>6

LEMMA FreeEffect ==
    ASSUME OwnInv, NEW c \in Spi!Chan, Spi!ChanFree(c)
    PROVE  /\ tChan' \in [Spi!Chan -> ChanState]
           /\ tDmac' \in [Spi!Chan -> DmacState]
           /\ ~tChan'[c].used /\ ~tChan'[c].desc /\ tChan'[c].callback = None
           /\ tChan'[c].cyclic = tChan[c].cyclic
           /\ tChan'[c].irqType = tChan[c].irqType
           /\ tDmac'[c].en = {} /\ tDmac'[c].stat = tDmac[c].stat
           /\ tDmac'[c].run = tDmac[c].run
           /\ \A d \in Spi!Chan : d # c => tChan'[d] = tChan[d] /\ tDmac'[d] = tDmac[d]
<1>1. tChan[c] \in ChanState /\ tDmac[c] \in DmacState
  BY FieldTypes DEF OwnInv
<1> DEFINE r == [tChan[c] EXCEPT !.desc = FALSE, !.callback = None, !.used = FALSE]
           s == [tDmac[c] EXCEPT !.en = @ \ {tChan[c].irqType}]
<1>2. tChan' = [tChan EXCEPT ![c] = r] /\ tDmac' = [tDmac EXCEPT ![c] = s]
  BY DEF Spi!ChanFree, Spi!FreeIll
<1>3. r \in ChanState /\ s \in DmacState
  BY <1>1 DEF ChanState, DmacState
<1>4. tDmac[c].en \subseteq {tChan[c].irqType}
  BY DEF OwnInv, ChanInv
<1>5. /\ ~r.used /\ ~r.desc /\ r.cyclic = tChan[c].cyclic
      /\ r.callback = None /\ r.irqType = tChan[c].irqType
      /\ s.en = {} /\ s.stat = tDmac[c].stat /\ s.run = tDmac[c].run
  BY <1>1, <1>4 DEF ChanState, DmacState
<1> HIDE DEF r, s
<1>6. /\ tChan' \in [Spi!Chan -> ChanState] /\ tChan'[c] = r
      /\ \A d \in Spi!Chan : d # c => tChan'[d] = tChan[d]
  BY <1>2, <1>3, SetChan DEF OwnInv
<1>7. /\ tDmac' \in [Spi!Chan -> DmacState] /\ tDmac'[c] = s
      /\ \A d \in Spi!Chan : d # c => tDmac'[d] = tDmac[d]
  BY <1>2, <1>3, SetDmac DEF OwnInv
<1> QED BY <1>5, <1>6, <1>7

(* A step of a port that leaves the channels alone.                        *)
LEMMA PortMoves ==
    ASSUME Spi!SpiParameters, OwnInv, NEW p \in SpiPort,
           UNCHANGED <<tChan, tDmac, tStream>>,
           tSpi' \in [SpiPort -> PortState], tBus' \in [SpiPort -> BusState],
           \A o \in SpiPort : o # p => tSpi'[o] = tSpi[o],
           tSpi'[p].chan = tSpi[p].chan,
           tSpi'[p].kind = tSpi[p].kind \/ tSpi[p].chan = None,
           PortOK(p)'
    PROVE  OwnInv'
<1>1. Typed'
  BY DEF OwnInv, Typed
<1>2. PortInv'
  <2>1. ASSUME NEW o \in SpiPort, o # p PROVE PortOK(o)'
    <3>1. PortOK(o)
      BY DEF OwnInv, PortInv
    <3>2. tSpi'[o] = tSpi[o]
      BY <2>1
    <3> QED BY <3>1, <3>2 DEF PortOK, Holds
  <2> QED BY <2>1 DEF PortInv
<1>3. StreamInv'
  BY DEF OwnInv, StreamInv
<1>4. \A o \in SpiPort : tSpi'[o].chan = tSpi[o].chan
  OBVIOUS
<1>5. OneUser'
  BY <1>4 DEF OwnInv, OneUser
<1>6. ChanInv'
  <2> SUFFICES ASSUME NEW c \in Spi!Chan, NEW o \in SpiPort,
                      tChan[c].callback = o
               PROVE  tSpi'[o].chan = c /\ tSpi'[o].kind \in {"rx", "duplex"}
    BY DEF OwnInv, ChanInv
  <2>1. tSpi[o].chan = c /\ tSpi[o].kind \in {"rx", "duplex"}
    BY DEF OwnInv, ChanInv
  <2>2. c # None
    BY Names
  <2> QED BY <1>4, <2>1, <2>2
<1> QED BY <1>1, <1>2, <1>3, <1>5, <1>6 DEF OwnInv

(* A step on the channel of a port that has one.                           *)
LEMMA ChanMoves ==
    ASSUME Spi!SpiParameters, OwnInv, NEW p \in SpiPort, NEW c \in Spi!Chan,
           tStream' = tStream, tStream.chan # c,
           tChan' \in [Spi!Chan -> ChanState], tDmac' \in [Spi!Chan -> DmacState],
           tSpi' \in [SpiPort -> PortState], tBus' \in [SpiPort -> BusState],
           \A d \in Spi!Chan : d # c => tChan'[d] = tChan[d] /\ tDmac'[d] = tDmac[d],
           \A o \in SpiPort : o # p => tSpi'[o] = tSpi[o] /\ tSpi[o].chan # c,
           tSpi[p].chan \in {c, None}, tSpi'[p].chan \in {c, None},
           tDmac'[c].en \subseteq {tChan'[c].irqType},
           ~tChan'[c].used => /\ ~tChan'[c].desc /\ tChan'[c].callback = None
                              /\ tDmac'[c].run = "off" /\ tDmac'[c].en = {},
           ~tChan'[c].cyclic, tChan'[c].callback \in {p, None},
           tChan'[c].callback = p =>
              tSpi'[p].chan = c /\ tSpi'[p].kind \in {"rx", "duplex"},
           PortOK(p)'
    PROVE  OwnInv'
<1>1. Typed'
  BY DEF OwnInv, Typed
<1>2. PortInv'
  <2>1. ASSUME NEW o \in SpiPort, o # p PROVE PortOK(o)'
    <3>1. PortOK(o)
      BY DEF OwnInv, PortInv
    <3>2. tSpi'[o] = tSpi[o] /\ tSpi[o].chan # c
      BY <2>1
    <3>3. tSpi[o].chan \in Spi!Chan => /\ tChan'[tSpi[o].chan] = tChan[tSpi[o].chan]
                                       /\ tDmac'[tSpi[o].chan] = tDmac[tSpi[o].chan]
      BY <3>2
    <3> QED BY <3>1, <3>2, <3>3 DEF PortOK, Holds
  <2> QED BY <2>1 DEF PortInv
<1>3. StreamInv'
  <2>1. tStream.pc # "closed" => tStream.chan \in Spi!Chan
    BY FieldTypes DEF OwnInv, StreamInv
  <2>2. tStream.pc # "closed" => /\ tChan'[tStream.chan] = tChan[tStream.chan]
                                 /\ tDmac'[tStream.chan] = tDmac[tStream.chan]
    BY <2>1
  <2> QED BY <2>2 DEF OwnInv, StreamInv
<1>4. OneUser'
  BY Names DEF OwnInv, OneUser
<1>5. ChanInv'
  <2>1. ASSUME NEW d \in Spi!Chan, d # c, NEW o \in SpiPort,
               tChan'[d].callback = o
        PROVE  tSpi'[o].chan = d /\ tSpi'[o].kind \in {"rx", "duplex"}
    <3>1. tSpi[o].chan = d /\ tSpi[o].kind \in {"rx", "duplex"}
      BY <2>1 DEF OwnInv, ChanInv
    <3>2. o # p
      BY <2>1, <3>1, Names
    <3> QED BY <3>1, <3>2
  <2>2. ASSUME NEW d \in Spi!Chan, d # c
        PROVE  /\ tDmac'[d].en \subseteq {tChan'[d].irqType}
               /\ ~tChan'[d].used =>
                     /\ ~tChan'[d].desc /\ tChan'[d].callback = None
                     /\ tDmac'[d].run = "off" /\ tDmac'[d].en = {}
               /\ tChan'[d].cyclic => /\ tChan'[d].desc
                                      /\ tStream' = [pc |-> "running", chan |-> d]
               /\ tChan'[d].callback = SpiSound => tStream'.chan = d
    BY <2>2 DEF OwnInv, ChanInv
  <2>3. tChan'[c].callback # SpiSound
    BY Names
  <2>4. ASSUME NEW o \in SpiPort, tChan'[c].callback = o
        PROVE  tSpi'[o].chan = c /\ tSpi'[o].kind \in {"rx", "duplex"}
    BY <2>4, Names
  <2> QED BY <2>1, <2>2, <2>3, <2>4 DEF ChanInv
<1> QED BY <1>1, <1>2, <1>3, <1>4, <1>5 DEF OwnInv

(* A step of the stream on its channel.                                    *)
LEMMA StreamMoves ==
    ASSUME Spi!SpiParameters, OwnInv, NEW c \in Spi!Chan,
           UNCHANGED <<tSpi, tBus>>,
           tChan' \in [Spi!Chan -> ChanState], tDmac' \in [Spi!Chan -> DmacState],
           \A d \in Spi!Chan : d # c => tChan'[d] = tChan[d] /\ tDmac'[d] = tDmac[d],
           \A o \in SpiPort : tSpi[o].chan # c,
           tStream.chan \in {c, None}, tStream'.chan \in {c, None},
           tStream' \in [pc : {"closed", "open", "running"},
                         chan : Spi!Chan \cup {None}],
           StreamInv',
           tDmac'[c].en \subseteq {tChan'[c].irqType},
           ~tChan'[c].used => /\ ~tChan'[c].desc /\ tChan'[c].callback = None
                              /\ tDmac'[c].run = "off" /\ tDmac'[c].en = {},
           tChan'[c].cyclic => /\ tChan'[c].desc
                               /\ tStream' = [pc |-> "running", chan |-> c],
           tChan'[c].callback \in {SpiSound, None},
           tChan'[c].callback = SpiSound => tStream'.chan = c
    PROVE  OwnInv'
<1>1. Typed'
  BY DEF OwnInv, Typed
<1>2. PortInv'
  <2>1. ASSUME NEW o \in SpiPort PROVE PortOK(o)'
    <3>1. PortOK(o)
      BY DEF OwnInv, PortInv
    <3>2. tSpi'[o] = tSpi[o] /\ tSpi[o].chan # c
      OBVIOUS
    <3>3. tSpi[o].chan \in Spi!Chan => /\ tChan'[tSpi[o].chan] = tChan[tSpi[o].chan]
                                       /\ tDmac'[tSpi[o].chan] = tDmac[tSpi[o].chan]
      BY <3>2
    <3> QED BY <3>1, <3>2, <3>3 DEF PortOK, Holds
  <2> QED BY <2>1 DEF PortInv
<1>4. OneUser'
  BY Names DEF OwnInv, OneUser
<1>5. ChanInv'
  <2>1. ASSUME NEW d \in Spi!Chan, NEW o \in SpiPort, tChan'[d].callback = o
        PROVE  tSpi'[o].chan = d /\ tSpi'[o].kind \in {"rx", "duplex"}
    <3>1. d # c
      BY <2>1, Names
    <3> QED BY <2>1, <3>1 DEF OwnInv, ChanInv
  <2>2. ASSUME NEW d \in Spi!Chan, d # c
        PROVE  /\ tDmac'[d].en \subseteq {tChan'[d].irqType}
               /\ ~tChan'[d].used =>
                     /\ ~tChan'[d].desc /\ tChan'[d].callback = None
                     /\ tDmac'[d].run = "off" /\ tDmac'[d].en = {}
               /\ ~tChan'[d].cyclic
               /\ tChan'[d].callback # SpiSound
    <3>1. tStream.chan # d
      BY <2>2, Names
    <3>2. tStream # [pc |-> "running", chan |-> d]
      BY <3>1
    <3> QED BY <2>2, <3>1, <3>2 DEF OwnInv, ChanInv
  <2> QED BY <2>1, <2>2 DEF ChanInv
<1> QED BY <1>1, <1>2, <1>4, <1>5 DEF OwnInv

(* The channel of a port is in use, and nobody else's.                     *)
LEMMA ChanOfPort ==
    ASSUME Spi!SpiParameters, OwnInv, NEW p \in SpiPort, Holds(p)
    PROVE  /\ tSpi[p].chan \in Spi!Chan /\ tChan[tSpi[p].chan].used
           /\ tSpi[p].kind \in {"tx", "rx", "duplex"}
           /\ tStream.chan # tSpi[p].chan
           /\ \A o \in SpiPort : o # p => tSpi[o].chan # tSpi[p].chan
           /\ ~tChan[tSpi[p].chan].cyclic
           /\ tChan[tSpi[p].chan].callback \in {p, None}
           /\ tChan[tSpi[p].chan].callback = p => tSpi[p].kind \in {"rx", "duplex"}
<1> DEFINE c == tSpi[p].chan
<1>1. c \in Spi!Chan /\ tChan[c].used
      /\ tSpi[p].kind \in {"tx", "rx", "duplex"}
  BY DEF OwnInv, PortInv, PortOK
<1>2. /\ tStream.chan # c /\ \A o \in SpiPort : o # p => tSpi[o].chan # c
  BY <1>1, Names DEF OwnInv, OneUser
<1>3. ~tChan[c].cyclic /\ tChan[c].callback # SpiSound
  <2>1. tStream # [pc |-> "running", chan |-> c]
    BY <1>2
  <2> QED BY <1>1, <1>2, <2>1 DEF OwnInv, ChanInv
<1>4. tChan[c].callback \in SpiPort \cup {SpiSound, None}
  BY <1>1, FieldTypes DEF OwnInv
<1>5. \A o \in SpiPort : tChan[c].callback = o =>
          tSpi[o].chan = c /\ tSpi[o].kind \in {"rx", "duplex"}
  BY <1>1 DEF OwnInv, ChanInv
<1> QED BY <1>1, <1>2, <1>3, <1>4, <1>5

(* A channel that is not used is nobody's.                                 *)
LEMMA FreeChan ==
    ASSUME Spi!SpiParameters, OwnInv, NEW c \in Spi!Chan, ~tChan[c].used
    PROVE  /\ tStream.chan # c /\ \A o \in SpiPort : tSpi[o].chan # c
           /\ ~tChan[c].desc /\ ~tChan[c].cyclic /\ tChan[c].callback = None
           /\ tDmac[c].run = "off" /\ tDmac[c].en = {}
<1>1. \A o \in SpiPort : tSpi[o].chan # c
  <2> SUFFICES ASSUME NEW o \in SpiPort, tSpi[o].chan = c PROVE FALSE
    OBVIOUS
  <2>1. PortOK(o) /\ c # None
    BY Names DEF OwnInv, PortInv
  <2> QED BY <2>1 DEF PortOK
<1>2. tStream.chan # c
  BY Names DEF OwnInv, StreamInv
<1>3. ~tChan[c].cyclic
  BY <1>2 DEF OwnInv, ChanInv
<1> QED BY <1>1, <1>2, <1>3 DEF OwnInv, ChanInv

LEMMA OwnPort ==
    ASSUME Spi!SpiParameters, OwnInv, NEW p \in SpiPort, Spi!CallStep(p)
    PROVE  OwnInv'
<1>0. /\ tSpi[p] \in PortState /\ tBus[p] \in BusState /\ PortOK(p)
      /\ tSpi \in [SpiPort -> PortState] /\ tBus \in [SpiPort -> BusState]
      /\ tChan \in [Spi!Chan -> ChanState] /\ tDmac \in [Spi!Chan -> DmacState]
  BY FieldTypes DEF OwnInv, PortInv, Typed
<1>1. CASE Spi!Begin(p)
  <2>1. /\ tSpi[p].pc = "idle" /\ UNCHANGED <<tChan, tDmac, tStream>>
    BY <1>1 DEF Spi!Begin, Spi!At
  <2>2. PICK kind \in SpiKinds[p] :
             /\ tSpi' = [tSpi EXCEPT
                      ![p].pc = Spi!FirstStep(kind),
                      ![p].kind = kind, ![p].result = "ready",
                      ![p].sem = @ \/ kind = "tx", ![p].ret = "none",
                      ![p].clean = Spi!NothingLeft(p)]
             /\ tBus' = [tBus EXCEPT ![p] =
                      [on |-> kind # "rx", moved |-> kind = "write",
                       over |-> FALSE, late |-> tBus[p].late, stat |-> {},
                       en |-> IF kind \in {"rx", "duplex"} THEN {"err"}
                              ELSE {"tc", "err"}]]
    BY <1>1 DEF Spi!Begin
  <2>11. kind \in {"tx", "rx", "duplex", "write", "read"}
    BY Names
  <2>12. /\ Spi!FirstStep(kind) \in {"request", "wait", "read"}
         /\ Spi!FirstStep(kind) = "wait" => kind = "write"
         /\ Spi!FirstStep(kind) = "read" => kind = "read"
         /\ Spi!FirstStep(kind) = "request" => kind \in {"tx", "rx", "duplex"}
    BY <2>11 DEF Spi!FirstStep
  <2>13. Spi!NothingLeft(p) \in BOOLEAN
    BY DEF Spi!NothingLeft
  <2> DEFINE r == [tSpi[p] EXCEPT
                     !.pc = Spi!FirstStep(kind),
                     !.kind = kind, !.result = "ready",
                     !.sem = @ \/ kind = "tx", !.ret = "none",
                     !.clean = Spi!NothingLeft(p)]
             b == [on |-> kind # "rx", moved |-> kind = "write",
                      over |-> FALSE, late |-> tBus[p].late, stat |-> {},
                      en |-> IF kind \in {"rx", "duplex"} THEN {"err"}
                             ELSE {"tc", "err"}]
  <2>3. r \in PortState
    BY <1>0, <2>11, <2>12, <2>13 DEF PortState
  <2>4. b \in BusState
    BY <1>0 DEF BusState
  <2>5. /\ r.pc = Spi!FirstStep(kind)
        /\ r.kind = kind /\ r.chan = tSpi[p].chan
    BY <1>0 DEF PortState
  <2>10. tSpi' = [tSpi EXCEPT ![p] = r]
    BY <1>0, <2>2
  <2> HIDE DEF r, b
  <2>6. /\ tSpi' \in [SpiPort -> PortState] /\ tSpi'[p] = r
        /\ \A o \in SpiPort : o # p => tSpi'[o] = tSpi[o]
    BY <2>3, <2>10, SetPort DEF OwnInv
  <2>7. tBus' \in [SpiPort -> BusState]
    BY <2>2, <2>4, SetBus DEF OwnInv, b
  <2>8. tSpi[p].chan = None
    BY <1>0, <2>1 DEF PortOK, Holds
  <2>9. PortOK(p)'
    BY <2>5, <2>6, <2>8, <2>11, <2>12 DEF PortOK, Holds
  <2> QED BY <2>1, <2>5, <2>6, <2>7, <2>8, <2>9, PortMoves
<1>2. CASE Spi!Config(p)
  <2>0. /\ tSpi[p].pc = "request" /\ tStream' = tStream
        /\ tSpi[p].kind \in {"tx", "rx", "duplex"} /\ tSpi[p].chan = None
    BY <1>0, <1>2 DEF Spi!Config, Spi!At, PortOK, Holds
  <2>1. ASSUME NEW c \in Spi!Chan, Spi!Request(c), UNCHANGED tBus,
               tSpi' = [tSpi EXCEPT ![p].pc = "submit", ![p].chan = c]
        PROVE  OwnInv'
    <3> DEFINE r == [tSpi[p] EXCEPT !.pc = "submit", !.chan = c]
    <3>1. r \in PortState /\ r.pc = "submit" /\ r.chan = c
          /\ r.kind = tSpi[p].kind
      BY <1>0 DEF PortState
    <3>2. tSpi' = [tSpi EXCEPT ![p] = r]
      BY <1>0, <2>1
    <3> HIDE DEF r
    <3>3. /\ tSpi' \in [SpiPort -> PortState] /\ tSpi'[p] = r
          /\ \A o \in SpiPort : o # p => tSpi'[o] = tSpi[o]
      BY <3>1, <3>2, SetPort DEF OwnInv
    <3>4. /\ tChan' \in [Spi!Chan -> ChanState] /\ UNCHANGED tDmac
          /\ ~tChan[c].used /\ tChan'[c].used
          /\ tChan'[c].desc = tChan[c].desc
          /\ tChan'[c].cyclic = tChan[c].cyclic
          /\ tChan'[c].irqType = tChan[c].irqType
          /\ tChan'[c].callback = tChan[c].callback
          /\ \A d \in Spi!Chan : d # c => tChan'[d] = tChan[d]
      BY <2>1, RequestEffect
    <3>5. /\ tStream.chan # c /\ \A o \in SpiPort : tSpi[o].chan # c
          /\ ~tChan[c].desc /\ ~tChan[c].cyclic /\ tChan[c].callback = None
          /\ tDmac[c].run = "off" /\ tDmac[c].en = {}
      BY <3>4, FreeChan
    <3>6. PortOK(p)'
      BY <2>0, <3>1, <3>3, <3>4, <3>5 DEF PortOK, Holds
    <3> QED BY <1>0, <2>0, <2>1, <3>1, <3>3, <3>4, <3>5, <3>6, ChanMoves, Names
  <2>2. ASSUME Spi!Fail(p), UNCHANGED <<tChan, tDmac>> PROVE OwnInv'
    <3>1. /\ tSpi' \in [SpiPort -> PortState]
          /\ tBus' \in [SpiPort -> BusState]
          /\ \A o \in SpiPort : o # p => tSpi'[o] = tSpi[o]
          /\ tSpi'[p].pc = "idle" /\ tSpi'[p].chan = None
      BY <2>2, FailEffect DEF OwnInv
    <3>2. PortOK(p)'
      BY <3>1 DEF PortOK, Holds
    <3> QED BY <2>0, <2>2, <3>1, <3>2, PortMoves
  <2> QED BY <1>2, <2>1, <2>2 DEF Spi!Config
<1>3. CASE Spi!Prep(p)
  <2> DEFINE c == tSpi[p].chan
  <2>0. /\ tSpi[p].pc = "submit" /\ ~tChan[c].desc
        /\ tStream' = tStream
    BY <1>3 DEF Spi!Prep, Spi!At
  <2>1. /\ c \in Spi!Chan /\ tChan[c].used
        /\ tSpi[p].kind \in {"tx", "rx", "duplex"}
        /\ tStream.chan # c /\ \A o \in SpiPort : o # p => tSpi[o].chan # c
        /\ ~tChan[c].cyclic
        /\ tDmac[c].run = "off" /\ tDmac[c].en = {} /\ tChan[c].callback = None
    BY <1>0, <2>0, ChanOfPort DEF Holds, PortOK
  <2>2. tChan[c] \in ChanState
    BY <2>1, FieldTypes DEF OwnInv
  <2>3. CASE Spi!PrepDevice(c) /\ UNCHANGED <<tSpi, tBus>>
    <3> DEFINE r == [tChan[c] EXCEPT !.desc = TRUE]
    <3>1. /\ r \in ChanState /\ r.used = tChan[c].used
          /\ r.cyclic = tChan[c].cyclic /\ r.callback = tChan[c].callback
          /\ r.irqType = tChan[c].irqType
      BY <2>2 DEF ChanState
    <3>2. tChan' = [tChan EXCEPT ![c] = r] /\ UNCHANGED tDmac
      BY <2>3 DEF Spi!PrepDevice
    <3> HIDE DEF r
    <3>3. /\ tChan' \in [Spi!Chan -> ChanState] /\ tChan'[c] = r
          /\ \A d \in Spi!Chan : d # c => tChan'[d] = tChan[d]
      BY <2>1, <3>1, <3>2, SetChan DEF OwnInv
    <3>4. PortOK(p)'
      BY <1>0, <2>0, <2>1, <2>3, <3>1, <3>2, <3>3 DEF PortOK, Holds
    <3>5. /\ tChan'[c].used /\ ~tChan'[c].cyclic
          /\ tChan'[c].callback = None /\ tDmac'[c].en = {}
      BY <2>1, <3>1, <3>2, <3>3
    <3>7. tChan'[c].callback # p
      BY <3>5, Names
    <3>6. /\ tDmac' \in [Spi!Chan -> DmacState] /\ tSpi' = tSpi
          /\ tStream' = tStream
          /\ tSpi' \in [SpiPort -> PortState]
          /\ tBus' \in [SpiPort -> BusState]
          /\ \A d \in Spi!Chan : d # c => tChan'[d] = tChan[d] /\ tDmac'[d] = tDmac[d]
      BY <1>0, <2>0, <2>3, <3>2, <3>3
    <3> QED BY <2>1, <3>3, <3>4, <3>5, <3>6, <3>7, ChanMoves
  <2>4. CASE Spi!Fail(p) /\ UNCHANGED <<tChan, tDmac>>
    <3>3. /\ tSpi' \in [SpiPort -> PortState]
          /\ tBus' \in [SpiPort -> BusState]
          /\ \A o \in SpiPort : o # p => tSpi'[o] = tSpi[o]
          /\ tSpi'[p].pc = "idle" /\ tSpi'[p].chan = None
      BY <2>4, FailEffect DEF OwnInv
    <3>4. PortOK(p)'
      BY <3>3 DEF PortOK, Holds
    <3>5. /\ tDmac'[c].en \subseteq {tChan'[c].irqType}
          /\ ~tChan'[c].used => /\ ~tChan'[c].desc /\ tChan'[c].callback = None
                                /\ tDmac'[c].run = "off" /\ tDmac'[c].en = {}
          /\ tChan'[c].callback \in {p, None} /\ ~tChan'[c].cyclic
          /\ tChan'[c].callback # p
      BY <2>1, <2>2, <2>4, Names
    <3>6. /\ tChan' \in [Spi!Chan -> ChanState]
          /\ tDmac' \in [Spi!Chan -> DmacState]
          /\ tStream' = tStream
          /\ \A d \in Spi!Chan : d # c => tChan'[d] = tChan[d] /\ tDmac'[d] = tDmac[d]
      BY <1>0, <2>0, <2>4
    <3> QED BY <2>1, <3>3, <3>4, <3>5, <3>6, ChanMoves
  <2> QED BY <1>3, <2>3, <2>4 DEF Spi!Prep
<1>4. CASE Spi!Install(p)
  <2> DEFINE c == tSpi[p].chan
             r == [tChan[c] EXCEPT !.callback = p]
  <2>0. /\ tSpi[p].pc = "submit" /\ tChan[c].desc
        /\ UNCHANGED <<tSpi, tBus, tStream>>
        /\ tSpi[p].kind # "tx" /\ UNCHANGED tDmac
        /\ tChan' = [tChan EXCEPT ![c] = r]
    BY <1>4 DEF Spi!Install, Spi!At, Spi!CallbackInstall
  <2>1. /\ c \in Spi!Chan /\ tChan[c].used
        /\ tSpi[p].kind \in {"tx", "rx", "duplex"}
        /\ tStream.chan # c /\ \A o \in SpiPort : o # p => tSpi[o].chan # c
        /\ ~tChan[c].cyclic
        /\ tDmac[c].run = "off" /\ tDmac[c].en = {}
    BY <1>0, <2>0, ChanOfPort DEF Holds, PortOK
  <2>2. tChan[c] \in ChanState
    BY <2>1, FieldTypes DEF OwnInv
  <2>3. /\ r \in ChanState /\ r.used = tChan[c].used /\ r.desc = tChan[c].desc
        /\ r.cyclic = tChan[c].cyclic /\ r.callback = p
        /\ r.irqType = tChan[c].irqType
    BY <2>2 DEF ChanState
  <2> HIDE DEF r
  <2>4. /\ tChan' \in [Spi!Chan -> ChanState] /\ tChan'[c] = r
        /\ \A d \in Spi!Chan : d # c => tChan'[d] = tChan[d]
    BY <2>0, <2>1, <2>3, SetChan DEF OwnInv
  <2>5. PortOK(p)'
    BY <1>0, <2>0, <2>1, <2>3, <2>4 DEF PortOK, Holds
  <2>6. /\ tChan'[c].used /\ ~tChan'[c].cyclic
        /\ tChan'[c].callback = p /\ tDmac'[c].en = {}
    BY <2>0, <2>1, <2>3, <2>4
  <2>7. /\ tDmac' \in [Spi!Chan -> DmacState] /\ tSpi' = tSpi
        /\ tStream' = tStream
        /\ tSpi' \in [SpiPort -> PortState] /\ tBus' \in [SpiPort -> BusState]
        /\ \A d \in Spi!Chan : d # c => tChan'[d] = tChan[d] /\ tDmac'[d] = tDmac[d]
        /\ tSpi'[p].chan = c /\ tSpi'[p].kind \in {"rx", "duplex"}
    BY <1>0, <2>0, <2>1, <2>4
  <2> QED BY <2>1, <2>4, <2>5, <2>6, <2>7, ChanMoves
<1>5. CASE Spi!Submit(p)
  <2> DEFINE c == tSpi[p].chan
             r == [tSpi[p] EXCEPT !.pc = "wait"]
             b == [tBus[p] EXCEPT !.on = TRUE]
  <2>0. /\ tSpi[p].pc = "submit" /\ Spi!Start(c) /\ tStream' = tStream
        /\ tSpi' = [tSpi EXCEPT ![p] = r] /\ tBus' = [tBus EXCEPT ![p] = b]
    BY <1>5 DEF Spi!Submit, Spi!At
  <2>1. /\ c \in Spi!Chan /\ tChan[c].used
        /\ tSpi[p].kind \in {"tx", "rx", "duplex"}
        /\ tStream.chan # c /\ \A o \in SpiPort : o # p => tSpi[o].chan # c
        /\ ~tChan[c].cyclic /\ tChan[c].callback \in {p, None}
        /\ tChan[c].callback = p => tSpi[p].kind \in {"rx", "duplex"}
        /\ tDmac[c].run = "off" /\ tDmac[c].en = {}
    BY <1>0, <2>0, ChanOfPort DEF Holds, PortOK
  <2>2. /\ r \in PortState /\ r.pc = "wait" /\ r.chan = c
        /\ r.kind = tSpi[p].kind /\ b \in BusState
    BY <1>0 DEF PortState, BusState
  <2> HIDE DEF r, b
  <2>3. /\ tSpi' \in [SpiPort -> PortState] /\ tSpi'[p] = r
        /\ \A o \in SpiPort : o # p => tSpi'[o] = tSpi[o]
        /\ tBus' \in [SpiPort -> BusState]
    BY <2>0, <2>2, SetPort, SetBus DEF OwnInv
  <2>4. /\ tChan' \in [Spi!Chan -> ChanState]
        /\ tDmac' \in [Spi!Chan -> DmacState]
        /\ tChan'[c].used = tChan[c].used /\ tChan'[c].desc = tChan[c].desc
        /\ ~tChan'[c].cyclic /\ tChan'[c].callback = tChan[c].callback
        /\ tChan'[c].irqType = "queue"
        /\ tDmac'[c].en = tDmac[c].en \cup {"queue"}
        /\ \A d \in Spi!Chan : d # c => tChan'[d] = tChan[d] /\ tDmac'[d] = tDmac[d]
    BY <2>0, <2>1, StartEffect
  <2>5. PortOK(p)'
    BY <2>1, <2>2, <2>3, <2>4 DEF PortOK, Holds
  <2> QED BY <2>0, <2>1, <2>2, <2>3, <2>4, <2>5, ChanMoves
<1>6. CASE Spi!TxComplete(p)
  <2> DEFINE r == [tSpi[p] EXCEPT !.pc = "stop", !.semTx = @ - 1,
                                  !.ret = IF tSpi[p].result = "failed"
                                          THEN "error" ELSE "ok"]
  <2>0. /\ tSpi[p].pc = "wait" /\ tSpi[p].kind = "tx" /\ tSpi[p].semTx > 0
        /\ UNCHANGED <<tChan, tDmac, tBus, tStream>>
    BY <1>6 DEF Spi!TxComplete, Spi!At
  <2>1. tSpi' = [tSpi EXCEPT ![p] = r]
    BY <1>0, <1>6 DEF Spi!TxComplete
  <2>2. tSpi[p].semTx - 1 \in Nat
    BY <1>0, <2>0 DEF PortState
  <2>3. /\ r \in PortState /\ r.pc = "stop" /\ r.kind = tSpi[p].kind
        /\ r.chan = tSpi[p].chan
    BY <1>0, <2>2 DEF PortState
  <2> HIDE DEF r
  <2>4. /\ tSpi' \in [SpiPort -> PortState] /\ tSpi'[p] = r
        /\ \A o \in SpiPort : o # p => tSpi'[o] = tSpi[o]
    BY <2>1, <2>3, SetPort DEF OwnInv
  <2>5. PortOK(p)'
    BY <1>0, <2>0, <2>3, <2>4 DEF PortOK, Holds
  <2> QED BY <1>0, <2>0, <2>3, <2>4, <2>5, PortMoves
<1>7. CASE Spi!TxTimeout(p)
  <2> DEFINE r == [tSpi[p] EXCEPT !.pc = "stop", !.semTx = @ + 1,
                                  !.result = "failed", !.ret = "error",
                                  !.failures = @ + 1]
  <2>0. /\ tSpi[p].pc = "wait" /\ tSpi[p].kind = "tx"
        /\ UNCHANGED <<tChan, tDmac, tBus, tStream>>
    BY <1>7 DEF Spi!TxTimeout, Spi!At
  <2>1. tSpi' = [tSpi EXCEPT ![p] = r]
    BY <1>0, <1>7 DEF Spi!TxTimeout
  <2>2. tSpi[p].semTx + 1 \in Nat /\ tSpi[p].failures + 1 \in Nat
    BY <1>0 DEF PortState
  <2>3. /\ r \in PortState /\ r.pc = "stop" /\ r.kind = tSpi[p].kind
        /\ r.chan = tSpi[p].chan
    BY <1>0, <2>2 DEF PortState
  <2> HIDE DEF r
  <2>4. /\ tSpi' \in [SpiPort -> PortState] /\ tSpi'[p] = r
        /\ \A o \in SpiPort : o # p => tSpi'[o] = tSpi[o]
    BY <2>1, <2>3, SetPort DEF OwnInv
  <2>5. PortOK(p)'
    BY <1>0, <2>0, <2>3, <2>4 DEF PortOK, Holds
  <2> QED BY <1>0, <2>0, <2>3, <2>4, <2>5, PortMoves
<1>8. CASE Spi!RxComplete(p)
  <2> DEFINE b == [tBus[p] EXCEPT !.en = {}]
  <2>0. /\ tSpi[p].pc = "wait" /\ tSpi[p].kind \in {"rx", "duplex"}
        /\ UNCHANGED <<tChan, tDmac, tStream>>
        /\ tBus' = [tBus EXCEPT ![p] = b]
    BY <1>8 DEF Spi!RxComplete, Spi!At
  <2>1. b \in BusState
    BY <1>0 DEF BusState
  <2> HIDE DEF b
  <2>2. tBus' \in [SpiPort -> BusState]
    BY <2>0, <2>1, SetBus DEF OwnInv
  <2>3. ASSUME NEW r \in PortState, tSpi' = [tSpi EXCEPT ![p] = r],
               r.pc = "stop", r.kind = tSpi[p].kind, r.chan = tSpi[p].chan
        PROVE  OwnInv'
    <3>1. /\ tSpi' \in [SpiPort -> PortState] /\ tSpi'[p] = r
          /\ \A o \in SpiPort : o # p => tSpi'[o] = tSpi[o]
      BY <2>3, SetPort DEF OwnInv
    <3>2. PortOK(p)'
      BY <1>0, <2>0, <2>3, <3>1 DEF PortOK, Holds
    <3> QED BY <1>0, <2>0, <2>2, <2>3, <3>1, <3>2, PortMoves
  <2>4. CASE /\ tSpi[p].semRx > 0
             /\ tSpi' = [tSpi EXCEPT ![p].pc = "stop", ![p].semRx = @ - 1,
                                ![p].result = "ok", ![p].ret = "ok"]
    <3> DEFINE r == [tSpi[p] EXCEPT !.pc = "stop", !.semRx = @ - 1,
                                    !.result = "ok", !.ret = "ok"]
    <3>1. tSpi' = [tSpi EXCEPT ![p] = r]
      BY <1>0, <2>4
    <3>2. tSpi[p].semRx - 1 \in Nat
      BY <1>0, <2>4 DEF PortState
    <3>3. /\ r \in PortState /\ r.pc = "stop" /\ r.kind = tSpi[p].kind
          /\ r.chan = tSpi[p].chan
      BY <1>0, <3>2 DEF PortState
    <3> HIDE DEF r
    <3> QED BY <2>3, <3>1, <3>3
  <2>5. CASE tSpi' = [tSpi EXCEPT ![p].pc = "stop", ![p].result = "failed",
                       ![p].ret = "error", ![p].failures = @ + 1]
    <3> DEFINE r == [tSpi[p] EXCEPT !.pc = "stop", !.result = "failed",
                                    !.ret = "error", !.failures = @ + 1]
    <3>1. tSpi' = [tSpi EXCEPT ![p] = r]
      BY <1>0, <2>5
    <3>2. tSpi[p].failures + 1 \in Nat
      BY <1>0 DEF PortState
    <3>3. /\ r \in PortState /\ r.pc = "stop" /\ r.kind = tSpi[p].kind
          /\ r.chan = tSpi[p].chan
      BY <1>0, <3>2 DEF PortState
    <3> HIDE DEF r
    <3> QED BY <2>3, <3>1, <3>3
  <2> QED BY <1>8, <2>4, <2>5 DEF Spi!RxComplete
<1>9. CASE Spi!CpuComplete(p)
  <2>0. /\ tSpi[p].pc = "wait" /\ tSpi[p].kind \in {"write", "read"}
        /\ Spi!Leave(p) /\ UNCHANGED <<tChan, tDmac, tStream>>
    BY <1>9 DEF Spi!CpuComplete, Spi!At
  <2>1. tSpi[p].chan = None
    BY <1>0, <2>0 DEF PortOK, Holds
  <2>2. tBus' \in [SpiPort -> BusState]
    BY <2>0, LeaveEffect DEF OwnInv
  <2>3. ASSUME NEW r \in PortState, tSpi' = [tSpi EXCEPT ![p] = r],
               r.pc = "idle", r.chan = None
        PROVE  OwnInv'
    <3>1. /\ tSpi' \in [SpiPort -> PortState] /\ tSpi'[p] = r
          /\ \A o \in SpiPort : o # p => tSpi'[o] = tSpi[o]
      BY <2>3, SetPort DEF OwnInv
    <3>2. PortOK(p)'
      BY <2>3, <3>1 DEF PortOK, Holds
    <3> QED BY <1>0, <2>0, <2>1, <2>2, <2>3, <3>1, <3>2, PortMoves
  <2>4. ASSUME NEW ret \in {"ok", "error"},
               tSpi' = [tSpi EXCEPT ![p] = Spi!Return(@, ret)]
        PROVE  OwnInv'
    <3> DEFINE r == Spi!Return(tSpi[p], ret)
    <3>1. r \in PortState /\ r.pc = "idle" /\ r.chan = None
      BY <1>0 DEF PortState, Spi!Return
    <3> HIDE DEF r
    <3> QED BY <2>3, <2>4, <3>1 DEF r
  <2>5. CASE tSpi' = [tSpi EXCEPT ![p] = [Spi!Return(tSpi[p], "ok") EXCEPT
                                          !.failures = @ + 1]]
    <3> DEFINE r == [tSpi[p] EXCEPT !.pc = "idle", !.kind = None, !.chan = None,
                                    !.clean = FALSE, !.ret = "ok",
                                    !.failures = @ + 1]
    <3>0. tSpi[p].failures + 1 \in Nat
      BY <1>0 DEF PortState
    <3>1. r \in PortState /\ r.pc = "idle" /\ r.chan = None
      BY <1>0, <3>0 DEF PortState
    <3>2. tSpi' = [tSpi EXCEPT ![p] = r]
      BY <1>0, <2>5 DEF Spi!Return, PortState
    <3> HIDE DEF r
    <3> QED BY <2>3, <3>1, <3>2
  <2> QED BY <1>9, <2>4, <2>5 DEF Spi!CpuComplete
<1>10. CASE Spi!StopDma(p)
  <2> DEFINE c == tSpi[p].chan
             r == [tSpi[p] EXCEPT !.pc = "free"]
  <2>0. /\ tSpi[p].pc = "stop" /\ Spi!Stop(c) /\ UNCHANGED <<tBus, tStream>>
        /\ tSpi' = [tSpi EXCEPT ![p] = r]
    BY <1>10 DEF Spi!StopDma, Spi!At
  <2>1. /\ c \in Spi!Chan /\ tChan[c].used
        /\ tSpi[p].kind \in {"tx", "rx", "duplex"}
        /\ tStream.chan # c /\ \A o \in SpiPort : o # p => tSpi[o].chan # c
        /\ tChan[c].callback \in {p, None}
        /\ tChan[c].callback = p => tSpi[p].kind \in {"rx", "duplex"}
        /\ tDmac[c].en \subseteq {tChan[c].irqType}
    BY <2>0, ChanOfPort DEF Holds, OwnInv, ChanInv
  <2>2. /\ r \in PortState /\ r.pc = "free" /\ r.chan = c
        /\ r.kind = tSpi[p].kind
    BY <1>0 DEF PortState
  <2> HIDE DEF r
  <2>3. /\ tSpi' \in [SpiPort -> PortState] /\ tSpi'[p] = r
        /\ \A o \in SpiPort : o # p => tSpi'[o] = tSpi[o]
    BY <2>0, <2>2, SetPort DEF OwnInv
  <2>4. /\ tChan' \in [Spi!Chan -> ChanState]
        /\ tDmac' \in [Spi!Chan -> DmacState]
        /\ tChan'[c].used = tChan[c].used /\ tChan'[c].desc = tChan[c].desc
        /\ ~tChan'[c].cyclic /\ tChan'[c].callback = tChan[c].callback
        /\ tChan'[c].irqType = tChan[c].irqType
        /\ tDmac'[c].en = tDmac[c].en /\ tDmac'[c].run = "off"
        /\ \A d \in Spi!Chan : d # c => tChan'[d] = tChan[d] /\ tDmac'[d] = tDmac[d]
    BY <2>0, <2>1, StopEffect
  <2>5. PortOK(p)'
    BY <2>1, <2>2, <2>3, <2>4 DEF PortOK, Holds
  <2>6. /\ tDmac'[c].en \subseteq {tChan'[c].irqType}
        /\ ~tChan'[c].used => /\ ~tChan'[c].desc /\ tChan'[c].callback = None
                              /\ tDmac'[c].run = "off" /\ tDmac'[c].en = {}
        /\ tChan'[c].callback \in {p, None} /\ ~tChan'[c].cyclic
    BY <2>1, <2>4
  <2>7. /\ tChan'[c].callback = p =>
              tSpi'[p].chan = c /\ tSpi'[p].kind \in {"rx", "duplex"}
        /\ tBus' \in [SpiPort -> BusState] /\ tSpi'[p].chan \in {c, None}
        /\ \A o \in SpiPort : o # p => tSpi'[o] = tSpi[o] /\ tSpi[o].chan # c
    BY <1>0, <2>0, <2>1, <2>2, <2>3, <2>4
  <2> QED BY <2>0, <2>1, <2>3, <2>4, <2>5, <2>6, <2>7, ChanMoves
<1>11. CASE Spi!FreeDma(p)
  <2> DEFINE c == tSpi[p].chan
             r == Spi!Return(tSpi[p], tSpi[p].ret)
  <2>0. /\ tSpi[p].pc = "free" /\ Spi!ChanFree(c) /\ tStream' = tStream
        /\ Spi!Leave(p)
        /\ tSpi' = [tSpi EXCEPT ![p] = r]
    BY <1>11 DEF Spi!FreeDma, Spi!At
  <2>1. /\ c \in Spi!Chan /\ tChan[c].used
        /\ tStream.chan # c /\ \A o \in SpiPort : o # p => tSpi[o].chan # c
        /\ ~tChan[c].cyclic /\ tDmac[c].run = "off"
    BY <1>0, <2>0, ChanOfPort DEF Holds, PortOK
  <2>2. r \in PortState /\ r.pc = "idle" /\ r.chan = None
    BY <1>0 DEF PortState, Spi!Return
  <2> HIDE DEF r
  <2>3. /\ tSpi' \in [SpiPort -> PortState] /\ tSpi'[p] = r
        /\ \A o \in SpiPort : o # p => tSpi'[o] = tSpi[o]
    BY <2>0, <2>2, SetPort DEF OwnInv
  <2>4. tBus' \in [SpiPort -> BusState]
    BY <2>0, LeaveEffect DEF OwnInv
  <2>5. /\ tChan' \in [Spi!Chan -> ChanState]
        /\ tDmac' \in [Spi!Chan -> DmacState]
        /\ ~tChan'[c].used /\ ~tChan'[c].desc /\ tChan'[c].callback = None
        /\ ~tChan'[c].cyclic /\ tDmac'[c].en = {} /\ tDmac'[c].run = "off"
        /\ \A d \in Spi!Chan : d # c => tChan'[d] = tChan[d] /\ tDmac'[d] = tDmac[d]
    BY <2>0, <2>1, FreeEffect
  <2>6. PortOK(p)'
    BY <2>2, <2>3 DEF PortOK, Holds
  <2>7. None # p
    BY Names
  <2> QED BY <1>0, <2>0, <2>1, <2>2, <2>3, <2>4, <2>5, <2>6, <2>7, ChanMoves
<1>12. CASE Spi!CpuRead(p)
  <2>1. /\ tSpi[p].pc = "read" /\ UNCHANGED <<tChan, tDmac, tStream>>
        /\ tSpi' = [tSpi EXCEPT ![p].pc = "wait"]
    BY <1>12 DEF Spi!CpuRead, Spi!At
  <2>2. PICK all \in {FALSE, tBus[p].over} :
             tBus' = [tBus EXCEPT ![p].moved = all]
    BY <1>12 DEF Spi!CpuRead
  <2> DEFINE r == [tSpi[p] EXCEPT !.pc = "wait"]
             b == [tBus[p] EXCEPT !.moved = all]
  <2>3. /\ r \in PortState /\ r.pc = "wait" /\ r.kind = tSpi[p].kind
        /\ r.chan = tSpi[p].chan /\ b \in BusState
    BY <1>0 DEF PortState, BusState
  <2>4. tSpi' = [tSpi EXCEPT ![p] = r] /\ tBus' = [tBus EXCEPT ![p] = b]
    BY <1>0, <2>1, <2>2
  <2> HIDE DEF r, b
  <2>5. /\ tSpi' \in [SpiPort -> PortState] /\ tSpi'[p] = r
        /\ \A o \in SpiPort : o # p => tSpi'[o] = tSpi[o]
    BY <2>3, <2>4, SetPort DEF OwnInv
  <2>6. tBus' \in [SpiPort -> BusState]
    BY <2>3, <2>4, SetBus DEF OwnInv
  <2>7. PortOK(p)'
    BY <1>0, <2>1, <2>3, <2>5 DEF PortOK, Holds
  <2> QED BY <2>1, <2>3, <2>5, <2>6, <2>7, PortMoves
<1> QED BY <1>1, <1>2, <1>3, <1>4, <1>5, <1>6, <1>7, <1>8, <1>9, <1>10, <1>11,
           <1>12 DEF Spi!CallStep

(* The interrupt of a port, and what happens on its bus. *)
BusStep(p) ==
    Spi!SpiIrqHandler(p) \/ Spi!BusOver(p) \/ Spi!LateOver(p) \/ Spi!BusError(p)

LEMMA OwnBus ==
    ASSUME Spi!SpiParameters, OwnInv, NEW p \in SpiPort, BusStep(p)
    PROVE  OwnInv'
<1>0. /\ tSpi[p] \in PortState /\ tBus[p] \in BusState /\ PortOK(p)
      /\ tSpi \in [SpiPort -> PortState] /\ tBus \in [SpiPort -> BusState]
  BY FieldTypes DEF OwnInv, PortInv, Typed
<1>1. ASSUME NEW b \in BusState, tBus' = [tBus EXCEPT ![p] = b]
      PROVE  tBus' \in [SpiPort -> BusState]
  BY <1>1, SetBus DEF OwnInv
<1>2. CASE Spi!SpiIrqHandler(p)
  <2> DEFINE r == [tSpi[p] EXCEPT
                     !.result = IF "tc" \in tBus[p].stat THEN "ok"
                                ELSE "failed",
                     !.sem = FALSE,
                     !.semTx = IF tSpi[p].sem THEN @ + 1 ELSE @]
             b == [tBus[p] EXCEPT !.stat = {}, !.en = {}]
  <2>1. UNCHANGED <<tChan, tDmac, tStream>>
    BY <1>2 DEF Spi!SpiIrqHandler
  <2>2. tSpi' = [tSpi EXCEPT ![p] = r] /\ tBus' = [tBus EXCEPT ![p] = b]
    BY <1>0, <1>2 DEF Spi!SpiIrqHandler
  <2>3. tSpi[p].semTx + 1 \in Nat
    BY <1>0 DEF PortState
  <2>4. /\ r \in PortState /\ r.pc = tSpi[p].pc /\ r.kind = tSpi[p].kind
        /\ r.chan = tSpi[p].chan
    BY <1>0, <2>3 DEF PortState
  <2>5. b \in BusState
    BY <1>0 DEF BusState
  <2> HIDE DEF r, b
  <2>6. /\ tSpi' \in [SpiPort -> PortState] /\ tSpi'[p] = r
        /\ \A o \in SpiPort : o # p => tSpi'[o] = tSpi[o]
    BY <2>2, <2>4, SetPort DEF OwnInv
  <2>7. PortOK(p)'
    BY <1>0, <2>1, <2>4, <2>6 DEF PortOK, Holds
  <2> QED BY <1>1, <2>1, <2>2, <2>4, <2>5, <2>6, <2>7, PortMoves
<1>3. ASSUME NEW b \in BusState, tBus' = [tBus EXCEPT ![p] = b],
             UNCHANGED <<tChan, tDmac, tSpi, tStream>>
      PROVE  OwnInv'
  <2>1. PortOK(p)'
    BY <1>0, <1>3 DEF PortOK, Holds
  <2> QED BY <1>0, <1>1, <1>3, <2>1, PortMoves
<1>4. CASE Spi!BusOver(p)
  <2> DEFINE b == [tBus[p] EXCEPT !.over = TRUE, !.stat = @ \cup {"tc"}]
  <2>1. b \in BusState
    BY <1>0 DEF BusState
  <2>2. tBus' = [tBus EXCEPT ![p] = b]
        /\ UNCHANGED <<tChan, tDmac, tSpi, tStream>>
    BY <1>0, <1>4 DEF Spi!BusOver
  <2> QED BY <1>3, <2>1, <2>2
<1>5. CASE Spi!LateOver(p)
  <2> DEFINE b == [tBus[p] EXCEPT !.late = FALSE, !.stat = @ \cup {"tc"}]
  <2>1. b \in BusState
    BY <1>0 DEF BusState
  <2>2. tBus' = [tBus EXCEPT ![p] = b]
        /\ UNCHANGED <<tChan, tDmac, tSpi, tStream>>
    BY <1>0, <1>5 DEF Spi!LateOver
  <2> QED BY <1>3, <2>1, <2>2
<1>6. CASE Spi!BusError(p)
  <2> DEFINE b == [tBus[p] EXCEPT !.stat = @ \cup {"err"}]
             r == [tSpi[p] EXCEPT !.failures = @ + 1]
  <2>1. b \in BusState
    BY <1>0 DEF BusState
  <2>2. /\ tBus' = [tBus EXCEPT ![p] = b] /\ tSpi' = [tSpi EXCEPT ![p] = r]
        /\ UNCHANGED <<tChan, tDmac, tStream>>
    BY <1>0, <1>6 DEF Spi!BusError
  <2>3. tSpi[p].failures + 1 \in Nat
    BY <1>0 DEF PortState
  <2>4. /\ r \in PortState /\ r.pc = tSpi[p].pc /\ r.kind = tSpi[p].kind
        /\ r.chan = tSpi[p].chan
    BY <1>0, <2>3 DEF PortState
  <2> HIDE DEF r, b
  <2>5. /\ tSpi' \in [SpiPort -> PortState] /\ tSpi'[p] = r
        /\ \A o \in SpiPort : o # p => tSpi'[o] = tSpi[o]
    BY <2>2, <2>4, SetPort DEF OwnInv
  <2>6. PortOK(p)'
    BY <1>0, <2>2, <2>4, <2>5 DEF PortOK, Holds
  <2> QED BY <1>1, <2>1, <2>2, <2>4, <2>5, <2>6, PortMoves
<1> QED BY <1>2, <1>4, <1>5, <1>6 DEF BusStep

(* A step that neither enables a channel nor gives it to anybody: the      *)
(* registers' status, and channels that stop.                              *)
LEMMA OwnQuieter ==
    ASSUME Spi!SpiParameters, OwnInv,
           tChan' \in [Spi!Chan -> ChanState], tDmac' \in [Spi!Chan -> DmacState],
           tSpi' \in [SpiPort -> PortState], tBus' \in [SpiPort -> BusState],
           \A p \in SpiPort : /\ tSpi'[p].pc = tSpi[p].pc
                              /\ tSpi'[p].kind = tSpi[p].kind
                              /\ tSpi'[p].chan = tSpi[p].chan,
           \A c \in Spi!Chan :
              /\ tChan'[c].used <=> tChan[c].used
              /\ tChan'[c].desc <=> tChan[c].desc
              /\ tChan'[c].irqType = tChan[c].irqType
              /\ tChan'[c].callback = tChan[c].callback
              /\ tDmac'[c].en = tDmac[c].en
              /\ tDmac'[c].run \in {tDmac[c].run, "off"}
              /\ tChan'[c].cyclic =>
                    /\ tChan[c].cyclic
                    /\ tStream = [pc |-> "running", chan |-> c] => tStream' = tStream,
           tStream' = tStream \/ /\ tStream.pc # "closed"
                                 /\ tStream' = [tStream EXCEPT !.pc = "open"]
                                 /\ tDmac'[tStream.chan].run = "off"
    PROVE  OwnInv'
<1>0. /\ tStream.pc \in {"closed", "open", "running"}
      /\ tStream.chan \in Spi!Chan \cup {None}
      /\ tStream = [pc |-> tStream.pc, chan |-> tStream.chan]
  BY FieldTypes DEF OwnInv
<1>1. /\ tStream' \in [pc : {"closed", "open", "running"}, chan : Spi!Chan \cup {None}]
      /\ tStream'.chan = tStream.chan
      /\ tStream'.pc = "closed" <=> tStream.pc = "closed"
      /\ tStream'.pc = "open" => tStream.pc = "open" \/ tDmac'[tStream.chan].run = "off"
  BY <1>0
<1>2. Typed'
  BY <1>1 DEF OwnInv, Typed
<1>3. PortInv'
  <2> SUFFICES ASSUME NEW p \in SpiPort PROVE PortOK(p)'
    BY DEF PortInv
  <2>1. PortOK(p)
    BY DEF OwnInv, PortInv
  <2>2. Holds(p)' <=> Holds(p)
    BY DEF Holds
  <2>3. Holds(p) => tSpi[p].chan \in Spi!Chan /\ tChan'[tSpi[p].chan].used
    BY <2>1 DEF PortOK
  <2>4. tSpi[p].pc \in {"submit", "free"} => tDmac'[tSpi[p].chan].run = "off"
    BY <2>1, <2>3 DEF PortOK, Holds
  <2>5. tSpi[p].pc = "submit" =>
             /\ tDmac'[tSpi[p].chan].en = {}
             /\ ~tChan'[tSpi[p].chan].desc => tChan'[tSpi[p].chan].callback = None
    BY <2>1, <2>3 DEF PortOK, Holds
  <2> QED BY <2>1, <2>2, <2>3, <2>4, <2>5 DEF PortOK
<1>4. StreamInv'
  <2>1. tStream.pc # "closed" => tStream.chan \in Spi!Chan
    BY <1>0 DEF OwnInv, StreamInv
  <2>2. tStream.pc # "closed" => /\ tChan'[tStream.chan].used
                                 /\ tDmac'[tStream.chan].en \subseteq {"pkg"}
    BY <2>1 DEF OwnInv, StreamInv
  <2>3. tStream.pc = "open" => tDmac'[tStream.chan].run = "off"
    BY <2>1 DEF OwnInv, StreamInv
  <2> QED BY <1>1, <2>1, <2>2, <2>3 DEF OwnInv, StreamInv
<1>5. OneUser'
  BY <1>1 DEF OwnInv, OneUser
<1>6. ChanInv'
  <2> SUFFICES ASSUME NEW c \in Spi!Chan
               PROVE /\ tDmac'[c].en \subseteq {tChan'[c].irqType}
                     /\ ~tChan'[c].used =>
                           /\ ~tChan'[c].desc /\ tChan'[c].callback = None
                           /\ tDmac'[c].run = "off" /\ tDmac'[c].en = {}
                     /\ tChan'[c].cyclic =>
                           /\ tChan'[c].desc
                           /\ tStream' = [pc |-> "running", chan |-> c]
                     /\ tChan'[c].callback = SpiSound => tStream'.chan = c
                     /\ \A p \in SpiPort : tChan'[c].callback = p =>
                           tSpi'[p].chan = c /\ tSpi'[p].kind \in {"rx", "duplex"}
    BY DEF ChanInv
  <2>1. /\ tDmac'[c].en \subseteq {tChan'[c].irqType}
        /\ ~tChan'[c].used => /\ ~tChan'[c].desc /\ tChan'[c].callback = None
                              /\ tDmac'[c].run = "off" /\ tDmac'[c].en = {}
    BY DEF OwnInv, ChanInv
  <2>2. tChan'[c].cyclic => /\ tChan'[c].desc
                            /\ tStream' = [pc |-> "running", chan |-> c]
    BY DEF OwnInv, ChanInv
  <2>3. tChan'[c].callback = SpiSound => tStream'.chan = c
    BY <1>1 DEF OwnInv, ChanInv
  <2>4. \A p \in SpiPort : tChan'[c].callback = p =>
            tSpi'[p].chan = c /\ tSpi'[p].kind \in {"rx", "duplex"}
    BY DEF OwnInv, ChanInv
  <2> QED BY <2>1, <2>2, <2>3, <2>4
<1> QED BY <1>2, <1>3, <1>4, <1>5, <1>6 DEF OwnInv

(* The interrupt of the DMA stops no channel but that of the stream.       *)
LEMMA OwnDmaIrq ==
    ASSUME Spi!SpiParameters, OwnInv, Spi!DmaInterrupt
    PROVE  OwnInv'
<1> DEFINE streams == {c \in Spi!Served : tChan[c].callback = SpiSound}
<1>1. PICK stopped \in {{}, streams} :
        /\ Spi!DmaIrqHandle(stopped)
        /\ tSpi' = [p \in SpiPort |->
                      IF \E c \in Spi!Served : tChan[c].callback = p
                      THEN [tSpi[p] EXCEPT !.semRx = @ + 1] ELSE tSpi[p]]
        /\ tStream' = IF stopped # {} THEN [tStream EXCEPT !.pc = "open"]
                      ELSE tStream
        /\ UNCHANGED tBus
  BY DEF Spi!DmaInterrupt
<1>2. \A c \in stopped : c \in Spi!Chan /\ tChan[c].used /\ tStream.chan = c
  BY DEF OwnInv, ChanInv, Spi!Served
<1>3. ASSUME NEW c \in Spi!Chan
      PROVE  /\ tChan'[c] \in ChanState /\ tDmac'[c] \in DmacState
             /\ tChan'[c].used <=> tChan[c].used
             /\ tChan'[c].desc <=> tChan[c].desc
             /\ tChan'[c].irqType = tChan[c].irqType
             /\ tChan'[c].callback = tChan[c].callback
             /\ tDmac'[c].en = tDmac[c].en /\ tDmac'[c].stat = {}
             /\ tDmac'[c].run = IF c \in stopped THEN "off" ELSE tDmac[c].run
             /\ tChan'[c].cyclic <=> tChan[c].cyclic /\ c \notin stopped
  <2>1. tChan[c] \in ChanState /\ tDmac[c] \in DmacState
    BY FieldTypes DEF OwnInv
  <2> DEFINE r == [tChan[c] EXCEPT !.cyclic = FALSE]
             s == [tDmac[c] EXCEPT !.stat = {},
                          !.run = IF c \in stopped THEN "off" ELSE @]
  <2>2. /\ tChan'[c] = IF c \in stopped THEN r ELSE tChan[c]
        /\ tDmac'[c] = s
    BY <1>1 DEF Spi!DmaIrqHandle, Spi!Stopped
  <2>3. /\ r \in ChanState /\ r.used = tChan[c].used /\ r.desc = tChan[c].desc
        /\ r.irqType = tChan[c].irqType /\ r.callback = tChan[c].callback
        /\ ~r.cyclic
    BY <2>1 DEF ChanState
  <2>4. /\ s \in DmacState /\ s.en = tDmac[c].en /\ s.stat = {}
        /\ s.run = IF c \in stopped THEN "off" ELSE tDmac[c].run
    BY <2>1 DEF DmacState
  <2> HIDE DEF r, s
  <2>5. CASE c \in stopped
    BY <2>2, <2>3, <2>4, <2>5
  <2>6. CASE c \notin stopped
    BY <2>1, <2>2, <2>4, <2>6
  <2> QED BY <2>5, <2>6
<1>4. tChan' \in [Spi!Chan -> ChanState] /\ tDmac' \in [Spi!Chan -> DmacState]
  <2>1. DOMAIN tChan' = Spi!Chan /\ tChan' = [c \in Spi!Chan |-> tChan'[c]]
        /\ DOMAIN tDmac' = Spi!Chan /\ tDmac' = [c \in Spi!Chan |-> tDmac'[c]]
    BY <1>1 DEF Spi!DmaIrqHandle
  <2> QED BY <1>3, <2>1
<1>5. ASSUME NEW p \in SpiPort
      PROVE  /\ tSpi'[p] \in PortState /\ tSpi'[p].pc = tSpi[p].pc
             /\ tSpi'[p].kind = tSpi[p].kind /\ tSpi'[p].chan = tSpi[p].chan
  <2>1. tSpi[p] \in PortState
    BY FieldTypes DEF OwnInv
  <2> DEFINE r == [tSpi[p] EXCEPT !.semRx = @ + 1]
  <2>2. tSpi[p].semRx + 1 \in Nat
    BY <2>1 DEF PortState
  <2>3. /\ r \in PortState /\ r.pc = tSpi[p].pc
        /\ r.kind = tSpi[p].kind /\ r.chan = tSpi[p].chan
    BY <2>1, <2>2 DEF PortState
  <2>4. tSpi'[p] \in {r, tSpi[p]}
    BY <1>1
  <2> HIDE DEF r
  <2> QED BY <2>1, <2>3, <2>4
<1>6. tSpi' \in [SpiPort -> PortState]
  <2>1. tSpi' = [p \in SpiPort |-> tSpi'[p]]
    BY <1>1
  <2> QED BY <1>5, <2>1
<1>7. tBus' \in [SpiPort -> BusState]
  BY <1>1 DEF OwnInv, Typed
<1>8. \/ stopped = {} /\ tStream' = tStream
      \/ /\ stopped # {} /\ tStream.pc # "closed"
         /\ tStream' = [tStream EXCEPT !.pc = "open"]
         /\ tDmac'[tStream.chan].run = "off"
         /\ tStream.chan \in stopped
  <2>1. CASE stopped = {}
    BY <1>1, <2>1
  <2>2. ASSUME NEW c \in stopped
        PROVE  /\ tStream.pc # "closed" /\ tDmac'[tStream.chan].run = "off"
               /\ tStream.chan \in stopped
    <3>1. c \in Spi!Chan /\ tStream.chan = c /\ c # None
      BY <1>2, Names
    <3> QED BY <1>3, <3>1 DEF OwnInv, StreamInv
  <2> QED BY <1>1, <2>1, <2>2
<1>9. ASSUME NEW c \in Spi!Chan, tChan'[c].cyclic,
             tStream = [pc |-> "running", chan |-> c]
      PROVE  tStream' = tStream
  BY <1>3, <1>8, <1>9
<1> HIDE DEF streams
<1>10. \A c \in Spi!Chan : tDmac'[c].run \in {tDmac[c].run, "off"}
  BY <1>3
<1> QED BY <1>3, <1>4, <1>5, <1>6, <1>7, <1>8, <1>9, <1>10, OwnQuieter

LEMMA OwnDmaWorks ==
    ASSUME Spi!SpiParameters, OwnInv, Spi!DmaWorks
    PROVE  OwnInv'
<1>1. PICK c \in Spi!Chan :
        /\ Spi!Worked(c)
        /\ tBus' = [p \in SpiPort |->
                      IF p \in Spi!User(c)
                      THEN [tBus[p] EXCEPT !.moved = TRUE]
                      ELSE tBus[p]]
        /\ UNCHANGED <<tSpi, tStream>>
  BY DEF Spi!DmaWorks
<1>2. tBus' \in [SpiPort -> BusState]
  <2>1. ASSUME NEW p \in SpiPort PROVE [tBus[p] EXCEPT !.moved = TRUE] \in BusState
    <3>1. tBus[p] \in BusState
      BY FieldTypes DEF OwnInv
    <3> QED BY <3>1 DEF BusState
  <2> QED BY <1>1, <2>1, FieldTypes DEF OwnInv
<1> DEFINE s == IF tDmac[c].run = "once"
                THEN [tDmac[c] EXCEPT !.stat = Spi!Irq, !.run = "off"]
                ELSE [tDmac[c] EXCEPT !.stat = @ \cup {"pkg"}]
<1>3. tDmac[c] \in DmacState /\ tDmac \in [Spi!Chan -> DmacState]
  BY FieldTypes DEF OwnInv, Typed
<1>4. tDmac' = [tDmac EXCEPT ![c] = s] /\ tChan' = tChan
  BY <1>1, <1>3 DEF Spi!Worked
<1>5. /\ s \in DmacState /\ s.en = tDmac[c].en
      /\ s.run \in {tDmac[c].run, "off"}
  BY <1>3 DEF DmacState, Spi!Irq
<1> HIDE DEF s
<1>6. /\ tDmac' \in [Spi!Chan -> DmacState] /\ tDmac'[c] = s
      /\ \A d \in Spi!Chan : d # c => tDmac'[d] = tDmac[d]
  BY <1>4, <1>5, SetDmac DEF OwnInv
<1>7. \A d \in Spi!Chan : tDmac'[d].en = tDmac[d].en /\ tDmac'[d].run \in {tDmac[d].run, "off"}
  BY <1>5, <1>6
<1>8. tChan' \in [Spi!Chan -> ChanState] /\ tSpi' \in [SpiPort -> PortState]
  BY <1>1, <1>4 DEF OwnInv, Typed
<1> QED BY <1>1, <1>2, <1>4, <1>6, <1>7, <1>8, OwnQuieter

(* The stream's channel is nobody else's.                                  *)
LEMMA ChanOfStream ==
    ASSUME Spi!SpiParameters, OwnInv, tStream.pc # "closed"
    PROVE  /\ tStream.chan \in Spi!Chan /\ tChan[tStream.chan].used
           /\ tDmac[tStream.chan].en \subseteq {"pkg"}
           /\ tDmac[tStream.chan].en \subseteq {tChan[tStream.chan].irqType}
           /\ \A p \in SpiPort : tSpi[p].chan # tStream.chan
           /\ tChan[tStream.chan].callback \in {SpiSound, None}
           /\ tStream.pc = "open" => ~tChan[tStream.chan].cyclic
           /\ tChan[tStream.chan].cyclic => tChan[tStream.chan].desc
<1>1. /\ tStream.chan \in Spi!Chan /\ tChan[tStream.chan].used
      /\ tDmac[tStream.chan].en \subseteq {"pkg"}
  BY FieldTypes DEF OwnInv, StreamInv
<1>2. \A p \in SpiPort : tSpi[p].chan # tStream.chan
  BY <1>1, Names DEF OwnInv, OneUser
<1>3. tChan[tStream.chan].callback \in {SpiSound, None}
  <2>1. tChan[tStream.chan].callback \in SpiPort \cup {SpiSound, None}
    BY <1>1, FieldTypes DEF OwnInv
  <2>2. \A p \in SpiPort : tChan[tStream.chan].callback # p
    BY <1>1, <1>2 DEF OwnInv, ChanInv
  <2> QED BY <2>1, <2>2
<1>4. /\ tDmac[tStream.chan].en \subseteq {tChan[tStream.chan].irqType}
      /\ tChan[tStream.chan].cyclic =>
            tChan[tStream.chan].desc /\ tStream.pc = "running"
  <2>1. tStream = [pc |-> "running", chan |-> tStream.chan] => tStream.pc = "running"
    OBVIOUS
  <2> QED BY <1>1, <2>1 DEF OwnInv, ChanInv
<1> QED BY <1>1, <1>2, <1>3, <1>4

LEMMA OwnStream ==
    ASSUME Spi!SpiParameters, OwnInv,
           Spi!StreamOpen \/ Spi!StreamStart \/ Spi!StreamStop \/ Spi!StreamClose
    PROVE  OwnInv'
<1>0. /\ tChan \in [Spi!Chan -> ChanState] /\ tDmac \in [Spi!Chan -> DmacState]
      /\ tStream.chan \in Spi!Chan \cup {None}
      /\ tStream = [pc |-> tStream.pc, chan |-> tStream.chan]
  BY FieldTypes DEF OwnInv, Typed
<1>1. CASE Spi!StreamOpen
  <2>1. PICK c \in Spi!Chan : Spi!Request(c) /\ tStream' = [pc |-> "open", chan |-> c]
    BY <1>1 DEF Spi!StreamOpen
  <2>2. tStream.chan = None /\ UNCHANGED <<tSpi, tBus>>
    BY <1>1 DEF Spi!StreamOpen, OwnInv, StreamInv
  <2>3. /\ tChan' \in [Spi!Chan -> ChanState] /\ UNCHANGED tDmac
        /\ ~tChan[c].used /\ tChan'[c].used
        /\ tChan'[c].desc = tChan[c].desc /\ tChan'[c].cyclic = tChan[c].cyclic
        /\ tChan'[c].callback = tChan[c].callback
        /\ \A d \in Spi!Chan : d # c => tChan'[d] = tChan[d]
    BY <2>1, RequestEffect
  <2>4. /\ \A o \in SpiPort : tSpi[o].chan # c
        /\ ~tChan[c].cyclic /\ tChan[c].callback = None
        /\ tDmac[c].run = "off" /\ tDmac[c].en = {}
    BY <2>3, FreeChan
  <2>5. /\ tStream'.pc = "open" /\ tStream'.chan = c
        /\ tStream' \in [pc : {"closed", "open", "running"},
                         chan : Spi!Chan \cup {None}]
    BY <2>1
  <2>6. StreamInv'
    BY <2>3, <2>4, <2>5, Names DEF StreamInv
  <2>7. /\ tChan'[c].used /\ ~tChan'[c].cyclic /\ tChan'[c].callback = None
        /\ tDmac'[c].en = {} /\ tDmac' \in [Spi!Chan -> DmacState]
        /\ \A d \in Spi!Chan : d # c => tChan'[d] = tChan[d] /\ tDmac'[d] = tDmac[d]
    BY <1>0, <2>3, <2>4
  <2> QED BY <2>2, <2>3, <2>4, <2>5, <2>6, <2>7, StreamMoves, Names
<1>2. CASE Spi!StreamStart
  <2> DEFINE c == tStream.chan
             r == [Spi!PreparedCyclic(tChan[c]) EXCEPT !.callback = SpiSound]
             t == [r EXCEPT !.irqType = "pkg"]
             s == [tDmac[c] EXCEPT !.en = @ \cup {"pkg"}, !.run = "loop"]
  <2>1. tStream.pc = "open" /\ UNCHANGED <<tSpi, tBus>>
    BY <1>2 DEF Spi!StreamStart
  <2>2. /\ c \in Spi!Chan /\ tChan[c].used /\ \A p \in SpiPort : tSpi[p].chan # c
        /\ tChan[c].callback \in {SpiSound, None} /\ ~tChan[c].cyclic
        /\ tDmac[c].en \subseteq {"pkg"}
        /\ tDmac[c].en \subseteq {tChan[c].irqType} /\ tDmac[c].run = "off"
    BY <2>1, ChanOfStream DEF OwnInv, StreamInv
  <2>3. tChan[c] \in ChanState /\ tDmac[c] \in DmacState
    BY <2>2, FieldTypes DEF OwnInv
  <2>4. CASE /\ tChan' = [tChan EXCEPT ![c] = Spi!Started(r, tDmac[c])[1]]
             /\ tDmac' = [tDmac EXCEPT ![c] = Spi!Started(r, tDmac[c])[2]]
             /\ tStream' = [tStream EXCEPT !.pc = "running"]
    <3>1. /\ r \in ChanState /\ r.cyclic /\ r.used /\ r.desc
          /\ r.callback = SpiSound
      BY <2>2, <2>3 DEF Spi!PreparedCyclic, ChanState
    <3> HIDE DEF r
    <3>2. Spi!Started(r, tDmac[c])[1] = t /\ Spi!Started(r, tDmac[c])[2] = s
      BY <3>1 DEF Spi!Started
    <3>3. /\ t \in ChanState /\ t.used /\ t.desc /\ t.cyclic
          /\ t.irqType = "pkg" /\ t.callback = SpiSound
      BY <3>1 DEF ChanState, Spi!Irq
    <3>4. /\ s \in DmacState /\ s.en \subseteq {"pkg"}
          /\ s.en = tDmac[c].en \cup {"pkg"} /\ s.run = "loop"
      BY <2>2, <2>3 DEF DmacState, Spi!Irq
    <3> HIDE DEF s, t
    <3>5. tChan' = [tChan EXCEPT ![c] = t] /\ tDmac' = [tDmac EXCEPT ![c] = s]
      BY <2>4, <3>2
    <3>6. /\ tChan' \in [Spi!Chan -> ChanState] /\ tChan'[c] = t
          /\ \A d \in Spi!Chan : d # c => tChan'[d] = tChan[d]
      BY <2>2, <3>3, <3>5, SetChan DEF OwnInv
    <3>7. /\ tDmac' \in [Spi!Chan -> DmacState] /\ tDmac'[c] = s
          /\ \A d \in Spi!Chan : d # c => tDmac'[d] = tDmac[d]
      BY <2>2, <3>4, <3>5, SetDmac DEF OwnInv
    <3>8. /\ tStream' = [pc |-> "running", chan |-> c]
          /\ tStream'.pc = "running" /\ tStream'.chan = c
          /\ tStream' \in [pc : {"closed", "open", "running"},
                           chan : Spi!Chan \cup {None}]
      BY <1>0, <2>4
    <3>9. StreamInv'
      BY <2>2, <3>3, <3>4, <3>6, <3>7, <3>8, Names DEF StreamInv
    <3> HIDE DEF c
    <3>10. /\ tChan'[c].used /\ tChan'[c].desc /\ tChan'[c].callback = SpiSound
           /\ tDmac'[c].en \subseteq {tChan'[c].irqType}
           /\ \A d \in Spi!Chan : d # c => tChan'[d] = tChan[d] /\ tDmac'[d] = tDmac[d]
      BY <3>3, <3>4, <3>6, <3>7
    <3>11. tStream.chan = c
      BY DEF c
    <3> QED BY <2>1, <2>2, <3>6, <3>7, <3>8, <3>9, <3>10, <3>11, StreamMoves
  <2>5. CASE Spi!CyclicNoMem(c) /\ UNCHANGED tStream
    <3>1. PICK some \in BOOLEAN : tChan' = [tChan EXCEPT ![c].desc = some]
      BY <2>5 DEF Spi!CyclicNoMem
    <3> DEFINE u == [tChan[c] EXCEPT !.desc = some]
    <3>2. /\ u \in ChanState /\ u.used /\ ~u.cyclic
          /\ u.callback = tChan[c].callback /\ u.irqType = tChan[c].irqType
      BY <2>2, <2>3 DEF ChanState
    <3>3. tChan' = [tChan EXCEPT ![c] = u] /\ UNCHANGED <<tDmac, tStream>>
      BY <2>2, <2>5, <3>1 DEF Spi!CyclicNoMem
    <3> HIDE DEF u
    <3>4. /\ tChan' \in [Spi!Chan -> ChanState] /\ tChan'[c] = u
          /\ \A d \in Spi!Chan : d # c => tChan'[d] = tChan[d]
      BY <2>2, <3>2, <3>3, SetChan DEF OwnInv
    <3>5. StreamInv'
      BY <2>1, <2>2, <3>2, <3>3, <3>4, Names DEF StreamInv
    <3>6. /\ tChan'[c].used /\ ~tChan'[c].cyclic
          /\ tChan'[c].callback \in {SpiSound, None}
          /\ tDmac'[c].en \subseteq {tChan'[c].irqType}
          /\ tDmac' \in [Spi!Chan -> DmacState] /\ tStream'.chan = c
          /\ tStream' \in [pc : {"closed", "open", "running"},
                           chan : Spi!Chan \cup {None}]
          /\ \A d \in Spi!Chan : d # c => tChan'[d] = tChan[d] /\ tDmac'[d] = tDmac[d]
      BY <1>0, <2>1, <2>2, <3>2, <3>3, <3>4
    <3>7. tStream.chan = c
      OBVIOUS
    <3> HIDE DEF c
    <3> QED BY <2>1, <2>2, <3>4, <3>5, <3>6, <3>7, StreamMoves
  <2> QED BY <1>2, <2>4, <2>5 DEF Spi!StreamStart
<1>3. CASE Spi!StreamStop
  <2> DEFINE c == tStream.chan
  <2>1. /\ tStream.pc = "running" /\ Spi!Stop(c) /\ UNCHANGED <<tSpi, tBus>>
        /\ tStream' = [tStream EXCEPT !.pc = "open"]
    BY <1>3 DEF Spi!StreamStop
  <2>2. /\ c \in Spi!Chan /\ tChan[c].used /\ \A p \in SpiPort : tSpi[p].chan # c
        /\ tChan[c].callback \in {SpiSound, None}
        /\ tDmac[c].en \subseteq {"pkg"}
        /\ tDmac[c].en \subseteq {tChan[c].irqType}
    BY <2>1, ChanOfStream
  <2>3. /\ tChan' \in [Spi!Chan -> ChanState]
        /\ tDmac' \in [Spi!Chan -> DmacState]
        /\ tChan'[c].used = tChan[c].used
        /\ ~tChan'[c].cyclic /\ tChan'[c].callback = tChan[c].callback
        /\ tChan'[c].irqType = tChan[c].irqType
        /\ tDmac'[c].en = tDmac[c].en /\ tDmac'[c].run = "off"
        /\ \A d \in Spi!Chan : d # c => tChan'[d] = tChan[d] /\ tDmac'[d] = tDmac[d]
    BY <2>1, <2>2, StopEffect
  <2>4. /\ tStream'.pc = "open" /\ tStream'.chan = c
        /\ tStream' \in [pc : {"closed", "open", "running"},
                         chan : Spi!Chan \cup {None}]
    BY <1>0, <2>1
  <2>8. c # None /\ tChan'[c].used /\ tDmac'[c].en \subseteq {"pkg"}
    BY <2>2, <2>3, Names
  <2>5. StreamInv'
    BY <2>3, <2>4, <2>8 DEF StreamInv
  <2>6. /\ tChan'[c].used /\ tChan'[c].callback \in {SpiSound, None}
        /\ tDmac'[c].en \subseteq {tChan'[c].irqType}
    BY <2>2, <2>3
  <2>7. tStream.chan = c
    OBVIOUS
  <2> HIDE DEF c
  <2> QED BY <2>1, <2>2, <2>3, <2>4, <2>5, <2>6, <2>7, StreamMoves
<1>4. CASE Spi!StreamClose
  <2> DEFINE c == tStream.chan
  <2>1. /\ tStream.pc = "open" /\ Spi!ChanFree(c) /\ UNCHANGED <<tSpi, tBus>>
        /\ tStream' = [pc |-> "closed", chan |-> None]
    BY <1>4 DEF Spi!StreamClose
  <2>2. /\ c \in Spi!Chan /\ \A p \in SpiPort : tSpi[p].chan # c
        /\ ~tChan[c].cyclic /\ tDmac[c].run = "off"
    BY <2>1, ChanOfStream DEF OwnInv, StreamInv
  <2>3. /\ tChan' \in [Spi!Chan -> ChanState]
        /\ tDmac' \in [Spi!Chan -> DmacState]
        /\ ~tChan'[c].used /\ ~tChan'[c].desc /\ tChan'[c].callback = None
        /\ tChan'[c].cyclic = tChan[c].cyclic
        /\ tDmac'[c].en = {} /\ tDmac'[c].run = tDmac[c].run
        /\ \A d \in Spi!Chan : d # c => tChan'[d] = tChan[d] /\ tDmac'[d] = tDmac[d]
    BY <2>1, <2>2, FreeEffect
  <2>4. /\ tStream'.pc = "closed" /\ tStream'.chan = None
        /\ tStream' \in [pc : {"closed", "open", "running"},
                         chan : Spi!Chan \cup {None}]
    BY <2>1
  <2>5. StreamInv'
    BY <2>4 DEF StreamInv
  <2>6. ~tChan'[c].cyclic /\ tDmac'[c].run = "off" /\ SpiSound # None
    BY <2>2, <2>3, Names
  <2>7. tStream.chan = c
    OBVIOUS
  <2> HIDE DEF c
  <2> QED BY <2>1, <2>2, <2>3, <2>4, <2>5, <2>6, <2>7, StreamMoves
<1> QED BY <1>1, <1>2, <1>3, <1>4

LEMMA OwnInit ==
    ASSUME Spi!SpiParameters, Spi!Init
    PROVE  OwnInv
<1>1. \A c \in Spi!Chan :
        /\ tChan[c] = [used |-> FALSE, desc |-> FALSE, cyclic |-> FALSE,
                       irqType |-> None, callback |-> None]
        /\ tDmac[c] = [en |-> {}, stat |-> {}, run |-> "off"]
  BY DEF Spi!Init, Spi!DmaInit
<1>2. \A p \in SpiPort : tSpi[p] = Spi!IdlePort /\ tBus[p] = Spi!AtRest
  BY DEF Spi!Init
<1>3. tStream = [pc |-> "closed", chan |-> None]
  BY DEF Spi!Init
<1>4. Typed
  <2>1. /\ \A c \in Spi!Chan : tChan[c] \in ChanState
        /\ \A c \in Spi!Chan : tDmac[c] \in DmacState
    <3>1. [used |-> FALSE, desc |-> FALSE, cyclic |-> FALSE,
           irqType |-> None, callback |-> None] \in ChanState
      BY DEF ChanState
    <3>2. [en |-> {}, stat |-> {}, run |-> "off"] \in DmacState
      BY DEF DmacState
    <3> QED BY <1>1, <3>1, <3>2
  <2>2. /\ \A p \in SpiPort : tSpi[p] \in PortState
        /\ \A p \in SpiPort : tBus[p] \in BusState
    <3>1. Spi!IdlePort \in PortState
      BY DEF PortState, Spi!IdlePort
    <3>2. Spi!AtRest \in BusState
      BY DEF BusState, Spi!AtRest
    <3> QED BY <1>2, <3>1, <3>2
  <2>3. /\ tChan = [c \in Spi!Chan |-> tChan[c]]
        /\ tDmac = [c \in Spi!Chan |-> tDmac[c]]
        /\ tSpi = [p \in SpiPort |-> tSpi[p]]
        /\ tBus = [p \in SpiPort |-> tBus[p]]
    BY DEF Spi!Init, Spi!DmaInit
  <2>4. tStream \in [pc : {"closed", "open", "running"}, chan : Spi!Chan \cup {None}]
    BY <1>3
  <2> QED BY <2>1, <2>2, <2>3, <2>4 DEF Typed
<1>5. PortInv
  BY <1>2 DEF PortInv, PortOK, Holds, Spi!IdlePort
<1>6. StreamInv
  BY <1>3 DEF StreamInv
<1>7. ChanInv
  BY <1>1, Names DEF ChanInv
<1>8. OneUser
  BY <1>2 DEF OneUser, Spi!IdlePort
<1> QED BY <1>4, <1>5, <1>6, <1>7, <1>8 DEF OwnInv

LEMMA OwnStep ==
    ASSUME Spi!SpiParameters, OwnInv, [Spi!Next]_tvars
    PROVE  OwnInv'
<1>1. CASE UNCHANGED tvars
  BY <1>1 DEF tvars, OwnInv, Typed, PortInv, PortOK, Holds, StreamInv, ChanInv,
              OneUser
<1>2. ASSUME NEW p \in SpiPort, Spi!CallStep(p) PROVE OwnInv'
  BY <1>2, OwnPort
<1>3. ASSUME NEW p \in SpiPort,
             BusStep(p)
      PROVE  OwnInv'
  BY <1>3, OwnBus
<1>4. CASE Spi!DmaInterrupt
  BY <1>4, OwnDmaIrq
<1>5. CASE Spi!DmaWorks
  BY <1>5, OwnDmaWorks
<1>6. CASE Spi!StreamOpen \/ Spi!StreamStart \/ Spi!StreamStop \/ Spi!StreamClose
  BY <1>6, OwnStream
<1> QED BY <1>1, <1>2, <1>3, <1>4, <1>5, <1>6 DEF Spi!Next, BusStep

LEMMA OwnMeans ==
    ASSUME Spi!SpiParameters, OwnInv
    PROVE  Spi!SpiTypeOK /\ Spi!ChannelsOwned
<1>0. \A p \in SpiPort : /\ tSpi[p] \in PortState /\ tBus[p] \in BusState
                         /\ PortOK(p)
  BY FieldTypes DEF OwnInv, PortInv
<1>1. Spi!SpiTypeOK
  <2>1. Spi!DmaTypeOK
    BY FieldTypes DEF OwnInv, Typed, Spi!DmaTypeOK, DmacState
  <2>2. \A p \in SpiPort :
        /\ tSpi[p].pc \in {"idle", "request", "submit", "read", "wait", "stop",
                           "free"}
        /\ tSpi[p].result \in {"ready", "ok", "failed"}
        /\ tSpi[p].semTx \in Nat /\ tSpi[p].semRx \in Nat
        /\ tSpi[p].ret \in {"none", "ok", "error"}
        /\ tBus[p].stat \cup tBus[p].en \subseteq {"tc", "err"}
    BY <1>0 DEF PortState, BusState
  <2> QED BY <2>1, <2>2, FieldTypes DEF OwnInv, Spi!SpiTypeOK
<1>2. Spi!Exclusive
  BY Names DEF OwnInv, OneUser, Spi!Exclusive, Spi!User
<1>3. Spi!CallsOwner
  <2> SUFFICES ASSUME NEW c \in Spi!Chan, tChan[c].callback # None
               PROVE  tChan[c].callback \in
                  Spi!User(c) \cup (IF tStream.chan = c THEN {SpiSound} ELSE {})
    BY DEF Spi!CallsOwner
  <2>1. tChan[c].callback \in SpiPort \cup {SpiSound}
    BY FieldTypes DEF OwnInv
  <2>2. ASSUME NEW p \in SpiPort, tChan[c].callback = p PROVE p \in Spi!User(c)
    <3>1. tSpi[p].chan = c /\ tSpi[p].chan # None
      BY <2>2, Names DEF OwnInv, ChanInv
    <3>2. Holds(p)
      BY <1>0, <3>1 DEF PortOK
    <3> QED BY <3>1, <3>2 DEF Spi!User, Holds
  <2>3. tChan[c].callback = SpiSound => tStream.chan = c
    BY DEF OwnInv, ChanInv
  <2> QED BY <2>1, <2>2, <2>3
<1>4. Spi!FreeAtRest
  BY DEF OwnInv, ChanInv, Spi!FreeAtRest
<1>5. Spi!RingHasDescriptor
  BY DEF OwnInv, ChanInv, Spi!RingHasDescriptor
<1> QED BY <1>1, <1>2, <1>3, <1>4, <1>5 DEF Spi!ChannelsOwned

(* A step of a port leaves the other ports, and the channels that are not *)
(* the port's, as they are.                                                *)
LEMMA OthersStay ==
    ASSUME Spi!SpiParameters, OwnInv, NEW p \in SpiPort, Spi!CallStep(p)
    PROVE  /\ \A o \in SpiPort : o # p => tSpi'[o] = tSpi[o] /\ tBus'[o] = tBus[o]
           /\ \A d \in Spi!Chan : d # tSpi[p].chan => tDmac'[d] = tDmac[d]
           /\ tStream' = tStream /\ Spi!Quiet
<1>0. /\ tSpi \in [SpiPort -> PortState] /\ tBus \in [SpiPort -> BusState]
      /\ tDmac \in [Spi!Chan -> DmacState]
  BY DEF OwnInv, Typed
<1>1. CASE Spi!Begin(p)
  BY <1>0, <1>1 DEF Spi!Begin, Spi!At
<1>2. CASE Spi!Config(p)
  BY <1>0, <1>2 DEF Spi!Config, Spi!At, Spi!Request, Spi!Fail, Spi!Leave
<1>3. CASE Spi!Prep(p)
  BY <1>0, <1>3 DEF Spi!Prep, Spi!At, Spi!PrepDevice, Spi!Fail, Spi!Leave
<1>4. CASE Spi!Install(p)
  BY <1>0, <1>4 DEF Spi!Install, Spi!At, Spi!CallbackInstall
<1>5. CASE Spi!Submit(p)
  BY <1>0, <1>5 DEF Spi!Submit, Spi!At, Spi!Start
<1>6. CASE Spi!TxComplete(p)
  BY <1>0, <1>6 DEF Spi!TxComplete, Spi!At
<1>7. CASE Spi!TxTimeout(p)
  BY <1>0, <1>7 DEF Spi!TxTimeout, Spi!At
<1>8. CASE Spi!RxComplete(p)
  BY <1>0, <1>8 DEF Spi!RxComplete, Spi!At
<1>9. CASE Spi!CpuComplete(p)
  BY <1>0, <1>9 DEF Spi!CpuComplete, Spi!At, Spi!Leave
<1>10. CASE Spi!StopDma(p)
  BY <1>0, <1>10 DEF Spi!StopDma, Spi!At, Spi!Stop
<1>11. CASE Spi!FreeDma(p)
  BY <1>0, <1>11 DEF Spi!FreeDma, Spi!At, Spi!ChanFree, Spi!Leave
<1>12. CASE Spi!CpuRead(p)
  BY <1>0, <1>12 DEF Spi!CpuRead, Spi!At
<1> QED BY <1>1, <1>2, <1>3, <1>4, <1>5, <1>6, <1>7, <1>8, <1>9, <1>10, <1>11,
           <1>12 DEF Spi!CallStep

(* Between interrupts no status bit is set.                                *)
LEMMA QuietStat ==
    ASSUME OwnInv, StatInv, NEW c \in Spi!Chan, Spi!Quiet \/ tDmac[c].en = {}
    PROVE  tDmac[c].stat = {}
BY DEF StatInv, StatOK, Spi!Quiet, Spi!DmaPending

LEMMA StatPort ==
    ASSUME Spi!SpiParameters, OwnInv, StatInv, NEW p \in SpiPort,
           Spi!CallStep(p)
    PROVE  StatInv'
<1>0. /\ PortOK(p) /\ tStream' = tStream /\ Spi!Quiet
      /\ \A d \in Spi!Chan : d # tSpi[p].chan => tDmac'[d] = tDmac[d]
  BY OthersStay DEF OwnInv, PortInv
<1>1. ASSUME NEW d \in Spi!Chan, tDmac'[d] = tDmac[d] PROVE StatOK(d)'
  BY <1>0, <1>1 DEF StatInv, StatOK
<1>2. SUFFICES ASSUME NEW c \in Spi!Chan, c = tSpi[p].chan PROVE StatOK(c)'
  BY <1>0, <1>1 DEF StatInv
<1>3. CASE UNCHANGED tDmac
  BY <1>1, <1>2, <1>3
<1>4. CASE Spi!Submit(p)
  <2>1. Spi!Start(c) /\ Holds(p)
    BY <1>2, <1>4 DEF Spi!Submit, Spi!At, Holds
  <2>2. /\ tDmac'[c].en = tDmac[c].en \cup {"queue"}
        /\ tDmac'[c].stat = tDmac[c].stat /\ tDmac'[c].run = "once"
    BY <1>2, <2>1, ChanOfPort, StartEffect
  <2> QED BY <1>2, <2>2 DEF StatInv, StatOK
<1>5. CASE Spi!StopDma(p)
  <2>1. /\ tDmac'[c].en = tDmac[c].en
        /\ tDmac'[c].stat = tDmac[c].stat /\ tDmac'[c].run = "off"
    BY <1>2, <1>5, StopEffect DEF Spi!StopDma
  <2> QED BY <1>2, <2>1 DEF StatInv, StatOK
<1>6. CASE Spi!FreeDma(p)
  <2>1. /\ tDmac'[c].en = {} /\ tDmac'[c].stat = tDmac[c].stat
        /\ tDmac'[c].run = tDmac[c].run
    BY <1>2, <1>6, FreeEffect DEF Spi!FreeDma
  <2>2. tDmac[c].stat = {} /\ tDmac[c].run = "off"
    BY <1>0, <1>2, <1>6, QuietStat DEF Spi!FreeDma, Spi!At, PortOK
  <2> QED BY <2>1, <2>2 DEF StatOK
<1> QED BY <1>3, <1>4, <1>5, <1>6
        DEF Spi!CallStep, Spi!Begin, Spi!CpuRead, Spi!Config, Spi!Request, Spi!Prep,
            Spi!PrepDevice, Spi!Install,
            Spi!CallbackInstall, Spi!TxComplete, Spi!TxTimeout, Spi!RxComplete, Spi!CpuComplete

(* What the interrupt and the work of the DMA do to the registers.         *)
LEMMA IrqEffect ==
    ASSUME OwnInv, Spi!DmaInterrupt
    PROVE  /\ \A c \in Spi!Chan : /\ tDmac'[c].en = tDmac[c].en
                                  /\ tDmac'[c].stat = {}
                                  /\ tDmac'[c].run \in {tDmac[c].run, "off"}
           /\ tStream'.chan = tStream.chan /\ UNCHANGED tBus
           /\ \A p \in SpiPort :
                 tSpi'[p] = IF \E c \in Spi!Served : tChan[c].callback = p
                            THEN [tSpi[p] EXCEPT !.semRx = @ + 1] ELSE tSpi[p]
<1>0. /\ \A c \in Spi!Chan : tDmac[c] \in DmacState
      /\ tStream = [pc |-> tStream.pc, chan |-> tStream.chan]
  BY FieldTypes DEF OwnInv
<1>1. PICK stopped \in {{}, {c \in Spi!Served : tChan[c].callback = SpiSound}} :
        /\ Spi!DmaIrqHandle(stopped)
        /\ tSpi' = [p \in SpiPort |->
                      IF \E c \in Spi!Served : tChan[c].callback = p
                      THEN [tSpi[p] EXCEPT !.semRx = @ + 1] ELSE tSpi[p]]
        /\ tStream' = IF stopped # {} THEN [tStream EXCEPT !.pc = "open"]
                      ELSE tStream
        /\ UNCHANGED tBus
  BY DEF Spi!DmaInterrupt
<1>2. tStream'.chan = tStream.chan
  BY <1>0, <1>1
<1>3. ASSUME NEW c \in Spi!Chan
      PROVE  /\ tDmac'[c].en = tDmac[c].en /\ tDmac'[c].stat = {}
             /\ tDmac'[c].run \in {tDmac[c].run, "off"}
  <2>1. tDmac'[c] = [tDmac[c] EXCEPT !.stat = {},
                            !.run = IF c \in stopped THEN "off" ELSE @]
    BY <1>1 DEF Spi!DmaIrqHandle
  <2> QED BY <1>0, <2>1 DEF DmacState
<1> QED BY <1>1, <1>2, <1>3

LEMMA WorkEffect ==
    ASSUME OwnInv, NEW c \in Spi!Chan, Spi!Worked(c)
    PROVE  /\ \A d \in Spi!Chan : d # c => tDmac'[d] = tDmac[d]
           /\ tDmac[c].run # "off" /\ tDmac'[c].en = tDmac[c].en
           /\ tDmac[c].run = "once" =>
                 tDmac'[c].stat = Spi!Irq /\ tDmac'[c].run = "off"
           /\ tDmac[c].run # "once" =>
                 /\ tDmac'[c].stat = tDmac[c].stat \cup {"pkg"}
                 /\ tDmac'[c].run = tDmac[c].run
<1>0. tDmac[c] \in DmacState /\ tDmac \in [Spi!Chan -> DmacState]
  BY FieldTypes DEF OwnInv, Typed
<1>1. CASE tDmac[c].run = "once"
  <2>1. tDmac' = [tDmac EXCEPT ![c] = [tDmac[c] EXCEPT !.stat = Spi!Irq,
                                                       !.run = "off"]]
    BY <1>0, <1>1 DEF Spi!Worked
  <2>2. tDmac'[c] = [tDmac[c] EXCEPT !.stat = Spi!Irq, !.run = "off"]
    BY <1>0, <2>1
  <2> QED BY <1>0, <1>1, <2>1, <2>2 DEF DmacState
<1>2. CASE tDmac[c].run # "once"
  <2>1. tDmac' = [tDmac EXCEPT ![c] = [tDmac[c] EXCEPT !.stat = @ \cup {"pkg"}]]
    BY <1>0, <1>2 DEF Spi!Worked
  <2>2. tDmac'[c] = [tDmac[c] EXCEPT !.stat = @ \cup {"pkg"}]
    BY <1>0, <2>1
  <2> QED BY <1>0, <1>2, <2>1, <2>2 DEF DmacState, Spi!Worked
<1> QED BY <1>1, <1>2

LEMMA StatStep ==
    ASSUME Spi!SpiParameters, OwnInv, StatInv, [Spi!Next]_tvars
    PROVE  StatInv'
<1>0. /\ tStream.pc \in {"closed", "open", "running"}
      /\ tStream.chan \in Spi!Chan \cup {None}
  BY FieldTypes DEF OwnInv
<1>1. CASE UNCHANGED <<tDmac, tStream>>
  BY <1>1 DEF StatInv, StatOK
<1>2. ASSUME NEW p \in SpiPort, Spi!CallStep(p) PROVE StatInv'
  BY <1>2, StatPort
<1>3. CASE Spi!DmaInterrupt
  BY <1>3, IrqEffect DEF StatInv, StatOK
<1>4. CASE Spi!DmaWorks
  <2>1. PICK c \in Spi!Chan : Spi!Worked(c) /\ tStream' = tStream
    BY <1>4 DEF Spi!DmaWorks
  <2>2. tDmac[c] \in DmacState
    BY FieldTypes DEF OwnInv
  <2>3. /\ tDmac'[c].en = tDmac[c].en /\ tDmac[c].run \in {"once", "loop"}
        /\ \/ /\ tDmac[c].run = "once" /\ tDmac'[c].stat = Spi!Irq
              /\ tDmac'[c].run = "off"
           \/ /\ tDmac[c].run = "loop" /\ tDmac'[c].run = "loop"
              /\ tDmac'[c].stat = tDmac[c].stat \cup {"pkg"}
    BY <2>1, <2>2, WorkEffect DEF DmacState
  <2>4. StatOK(c)'
    BY <2>1, <2>3 DEF StatInv, StatOK, Spi!Irq
  <2>5. ASSUME NEW d \in Spi!Chan, d # c PROVE StatOK(d)'
    BY <2>1, <2>5, WorkEffect DEF StatInv, StatOK
  <2> QED BY <2>4, <2>5 DEF StatInv
<1>5. ASSUME NEW c \in Spi!Chan, tStream'.chan \in {c, None},
             tStream.chan \in {c, None}, StatOK(c)',
             \A d \in Spi!Chan : d # c => tDmac'[d] = tDmac[d]
      PROVE  StatInv'
  <2>1. ASSUME NEW d \in Spi!Chan, d # c PROVE StatOK(d)'
    <3>1. StatOK(d) /\ tDmac'[d] = tDmac[d] /\ tStream.chan # d
      BY <1>5, <2>1, Names DEF StatInv
    <3> QED BY <3>1 DEF StatOK
  <2> QED BY <1>5, <2>1 DEF StatInv
<1>6. CASE Spi!StreamOpen
  <2>1. PICK c \in Spi!Chan : Spi!Request(c) /\ tStream' = [pc |-> "open", chan |-> c]
    BY <1>6 DEF Spi!StreamOpen
  <2>2. tStream.chan = None /\ ~tChan[c].used /\ tDmac' = tDmac
    BY <1>6, <2>1
    DEF Spi!StreamOpen, OwnInv, StreamInv, Spi!Request, Spi!FirstFree
  <2>3. tDmac[c].en = {} /\ tDmac[c].run = "off"
    BY <2>2, FreeChan
  <2>4. StatOK(c)'
    BY <2>2, <2>3 DEF StatInv, StatOK
  <2>5. tStream'.chan = c
    BY <2>1
  <2> QED BY <1>5, <2>2, <2>4, <2>5
<1>7. CASE Spi!StreamStart
  <2>1. PICK c \in Spi!Chan : c = tStream.chan
    BY <1>7, ChanOfStream DEF Spi!StreamStart
  <2>2. CASE Spi!CyclicNoMem(c) /\ UNCHANGED tStream
    BY <1>1, <2>2 DEF Spi!CyclicNoMem
  <2>3. CASE ~(Spi!CyclicNoMem(c) /\ UNCHANGED tStream)
    <3>1. /\ tDmac' = [tDmac EXCEPT ![c] = [tDmac[c] EXCEPT
                        !.en = @ \cup {"pkg"}, !.run = "loop"]]
          /\ tStream' = [tStream EXCEPT !.pc = "running"]
      <4>1. tChan[c] \in ChanState
        BY FieldTypes DEF OwnInv
      <4>2. [Spi!PreparedCyclic(tChan[c]) EXCEPT !.callback = SpiSound].cyclic
        BY <4>1 DEF Spi!PreparedCyclic, ChanState
      <4> QED BY <1>7, <2>1, <2>3, <4>2 DEF Spi!StreamStart, Spi!Started
    <3>2. /\ tDmac'[c].en = tDmac[c].en \cup {"pkg"}
          /\ tDmac'[c].stat = tDmac[c].stat /\ tDmac'[c].run = "loop"
          /\ \A d \in Spi!Chan : d # c => tDmac'[d] = tDmac[d]
      <4>1. tDmac[c] \in DmacState /\ tDmac \in [Spi!Chan -> DmacState]
        BY FieldTypes DEF OwnInv, Typed
      <4>2. tDmac'[c] = [tDmac[c] EXCEPT !.en = @ \cup {"pkg"}, !.run = "loop"]
        BY <3>1, <4>1
      <4> QED BY <3>1, <4>1, <4>2 DEF DmacState
    <3>3. tStream'.chan = c
      BY <2>1, <3>1, FieldTypes DEF OwnInv
    <3>4. StatOK(c)'
      BY <3>2, <3>3 DEF StatInv, StatOK
    <3> QED BY <1>5, <2>1, <3>2, <3>3, <3>4
  <2> QED BY <2>2, <2>3
<1>8. CASE Spi!StreamStop
  <2>1. PICK c \in Spi!Chan : c = tStream.chan /\ Spi!Stop(c)
    BY <1>8, ChanOfStream DEF Spi!StreamStop
  <2>2. /\ tDmac'[c].en = tDmac[c].en
        /\ tDmac'[c].stat = tDmac[c].stat /\ tDmac'[c].run = "off"
        /\ \A d \in Spi!Chan : d # c => tDmac'[d] = tDmac[d]
    BY <2>1, StopEffect
  <2>3. tStream'.chan = c
    BY <1>8, <2>1, FieldTypes DEF OwnInv, Spi!StreamStop
  <2>4. StatOK(c)'
    BY <2>2 DEF StatInv, StatOK
  <2> QED BY <1>5, <2>1, <2>2, <2>3, <2>4
<1>9. CASE Spi!StreamClose
  <2>1. PICK c \in Spi!Chan : c = tStream.chan /\ Spi!ChanFree(c)
    BY <1>9, ChanOfStream DEF Spi!StreamClose
  <2>2. /\ tStream.pc = "open" /\ Spi!Quiet /\ tStream'.chan = None
    BY <1>9 DEF Spi!StreamClose
  <2>3. /\ tDmac'[c].en = {} /\ tDmac'[c].stat = tDmac[c].stat
        /\ tDmac'[c].run = tDmac[c].run
        /\ \A d \in Spi!Chan : d # c => tDmac'[d] = tDmac[d]
    BY <2>1, FreeEffect
  <2>4. tDmac[c].stat = {} /\ tDmac[c].run = "off"
    BY <2>1, <2>2, QuietStat DEF OwnInv, StreamInv
  <2>5. StatOK(c)'
    BY <2>3, <2>4 DEF StatOK
  <2> QED BY <1>5, <2>1, <2>2, <2>3, <2>5
<1>10. CASE \E p \in SpiPort : BusStep(p)
  BY <1>1, <1>10 DEF BusStep, Spi!SpiIrqHandler, Spi!BusOver, Spi!LateOver,
     Spi!BusError
<1>11. CASE UNCHANGED tvars
  BY <1>1, <1>11 DEF tvars
<1> QED BY <1>2, <1>3, <1>4, <1>6, <1>7, <1>8, <1>9, <1>10, <1>11
        DEF Spi!Next, BusStep

LEMMA StatInit ==
    ASSUME Spi!Init
    PROVE  StatInv
BY DEF Spi!Init, Spi!DmaInit, StatInv, StatOK

(* A port that a step leaves alone, with its channel.                      *)
LEMMA DoneStays ==
    ASSUME OwnInv, DoneInv, NEW o \in SpiPort,
           tSpi'[o] = tSpi[o], tBus'[o] = tBus[o],
           tSpi[o].chan \in Spi!Chan =>
               /\ tDmac'[tSpi[o].chan].stat = tDmac[tSpi[o].chan].stat
               /\ tDmac'[tSpi[o].chan].run = tDmac[tSpi[o].chan].run
    PROVE  DoneOK(o)'
<1>1. DoneOK(o) /\ PortOK(o)
  BY DEF DoneInv, OwnInv, PortInv
<1>2. CASE tSpi[o].chan \in Spi!Chan
  BY <1>1, <1>2 DEF DoneOK, TxState, RxState, CpuState, EndState, Done, Receives
<1>3. CASE tSpi[o].chan \notin Spi!Chan
  <2>1. ~Holds(o) /\ tSpi[o].chan = None
    BY <1>1, <1>3 DEF PortOK
  <2> QED BY <1>1, <2>1
          DEF DoneOK, TxState, RxState, CpuState, EndState, Done, Receives, Holds
<1> QED BY <1>2, <1>3

(* A call that fails returns no OK, and one that times out will not.       *)
LEMMA DonePort ==
    ASSUME Spi!SpiParameters, OwnInv, StatInv, DoneInv, NEW p \in SpiPort,
           Spi!CallStep(p)
    PROVE  DoneOK(p)' /\ Returns(p)
<1>0. /\ tSpi[p] \in PortState /\ tBus[p] \in BusState
      /\ PortOK(p) /\ DoneOK(p) /\ Spi!Quiet
      /\ tSpi \in [SpiPort -> PortState] /\ tBus \in [SpiPort -> BusState]
  BY OthersStay, FieldTypes DEF OwnInv, PortInv, Typed, DoneInv
<1>1. ASSUME Spi!Fail(p) PROVE DoneOK(p)' /\ Returns(p)
  BY <1>1, FailEffect DEF DoneOK, Returns, OwnInv
<1>2. CASE Spi!Begin(p)
  <2>1. PICK kind \in SpiKinds[p] :
             /\ tSpi' = [tSpi EXCEPT
                      ![p].pc = Spi!FirstStep(kind),
                      ![p].kind = kind, ![p].result = "ready",
                      ![p].sem = @ \/ kind = "tx", ![p].ret = "none",
                      ![p].clean = Spi!NothingLeft(p)]
             /\ tBus' = [tBus EXCEPT ![p] =
                      [on |-> kind # "rx", moved |-> kind = "write",
                       over |-> FALSE, late |-> tBus[p].late, stat |-> {},
                       en |-> IF kind \in {"rx", "duplex"} THEN {"err"}
                              ELSE {"tc", "err"}]]
    BY <1>2 DEF Spi!Begin
  <2>2. /\ kind \in {"tx", "rx", "duplex", "write", "read"}
        /\ tSpi[p].pc = "idle" /\ tSpi[p].chan = None
    BY <1>0, <1>2, Names DEF Spi!Begin, Spi!At, PortOK, Holds
  <2>3. Spi!FirstStep(kind) \in {"request", "read", "wait"}
    BY <2>2 DEF Spi!FirstStep
  <2>4. /\ tSpi'[p].pc \in {"request", "read", "wait"}
        /\ tSpi'[p].kind = kind /\ tSpi'[p].result = "ready"
        /\ tSpi'[p].sem <=> tSpi[p].sem \/ kind = "tx"
        /\ tSpi'[p].semTx = tSpi[p].semTx /\ tSpi'[p].semRx = tSpi[p].semRx
        /\ tSpi'[p].chan = None /\ tSpi'[p].clean = Spi!NothingLeft(p)
    BY <1>0, <2>1, <2>2, <2>3 DEF PortState
  <2>5. /\ ~tBus'[p].over /\ tBus'[p].stat = {}
        /\ tBus'[p].moved <=> kind = "write"
        /\ tBus'[p].late <=> tBus[p].late
    BY <1>0, <2>1 DEF BusState
  <2>6. Returns(p)
    BY <2>4 DEF Returns
  <2> SUFFICES ASSUME Spi!NothingLeft(p) PROVE DoneOK(p)'
    BY <2>4, <2>6 DEF DoneOK
  <2>7. tSpi[p].semTx = 0 /\ tSpi[p].semRx = 0 /\ ~tSpi[p].sem /\ ~tBus[p].late
    BY DEF Spi!NothingLeft
  <2>8. CASE kind = "tx"
    BY <2>4, <2>5, <2>7, <2>8 DEF DoneOK, TxState, Receives
  <2>9. CASE kind \in {"rx", "duplex"}
    BY <2>4, <2>5, <2>7, <2>9 DEF DoneOK, RxState, Receives
  <2>10. CASE kind \in {"write", "read"}
    BY <2>4, <2>5, <2>7, <2>10 DEF DoneOK, CpuState, Receives
  <2> QED BY <2>2, <2>8, <2>9, <2>10
<1>3. CASE Spi!CpuRead(p)
  <2>1. /\ tSpi[p].pc = "read" /\ tSpi[p].kind = "read"
        /\ tSpi' = [tSpi EXCEPT ![p].pc = "wait"]
    BY <1>0, <1>3 DEF Spi!CpuRead, Spi!At, PortOK
  <2>2. PICK all \in {FALSE, tBus[p].over} : tBus' = [tBus EXCEPT ![p].moved = all]
    BY <1>3 DEF Spi!CpuRead
  <2>3. /\ tSpi'[p].pc = "wait" /\ tSpi'[p].kind = "read"
        /\ tSpi'[p].result = tSpi[p].result /\ tSpi'[p].clean = tSpi[p].clean
    BY <1>0, <2>1 DEF PortState
  <2>4. /\ tBus'[p].stat = tBus[p].stat /\ tBus'[p].over = tBus[p].over
        /\ tBus'[p].late = tBus[p].late
    BY <1>0, <2>2 DEF BusState
  <2> QED BY <1>0, <2>1, <2>3, <2>4 DEF DoneOK, CpuState, Receives, Returns
<1>4. CASE Spi!Config(p)
  <2>1. CASE Spi!Fail(p)
    BY <1>1, <2>1
  <2>2. ASSUME NEW c \in Spi!Chan, Spi!Request(c), tBus' = tBus,
               tSpi' = [tSpi EXCEPT ![p].pc = "submit", ![p].chan = c]
        PROVE  DoneOK(p)' /\ Returns(p)
    <3>1. /\ tSpi[p].pc = "request" /\ tDmac' = tDmac
          /\ tSpi[p].kind \in {"tx", "rx", "duplex"}
      BY <1>0, <1>4, <2>2 DEF Spi!Config, Spi!At, Spi!Request, PortOK
    <3>2. /\ tSpi'[p].pc = "submit" /\ tSpi'[p].kind = tSpi[p].kind
          /\ tSpi'[p].result = tSpi[p].result /\ tSpi'[p].sem = tSpi[p].sem
          /\ tSpi'[p].semTx = tSpi[p].semTx /\ tSpi'[p].semRx = tSpi[p].semRx
          /\ tSpi'[p].chan = c /\ tSpi'[p].clean = tSpi[p].clean
      BY <1>0, <2>2 DEF PortState
    <3>3. tDmac'[c].stat = {}
      BY <1>0, <3>1, QuietStat
    <3> QED BY <1>0, <2>2, <3>1, <3>2, <3>3
            DEF DoneOK, TxState, RxState, Done, Receives, Returns
  <2> QED BY <1>4, <2>1, <2>2 DEF Spi!Config
<1>5. CASE Spi!Prep(p)
  <2>1. CASE Spi!Fail(p)
    BY <1>1, <2>1
  <2>2. CASE UNCHANGED <<tSpi, tBus, tDmac>>
    <3>1. tSpi[p].pc = "submit"
      BY <1>5 DEF Spi!Prep, Spi!At
    <3> QED BY <2>2, <3>1, DoneStays DEF Returns
  <2> QED BY <1>5, <2>1, <2>2 DEF Spi!Prep, Spi!PrepDevice
<1>6. CASE Spi!Install(p)
  <2>1. tSpi[p].pc = "submit" /\ UNCHANGED <<tSpi, tBus, tDmac>>
    BY <1>6 DEF Spi!Install, Spi!At, Spi!CallbackInstall
  <2> QED BY <2>1, DoneStays DEF Returns
<1>7. CASE Spi!Submit(p)
  <2> DEFINE c == tSpi[p].chan
  <2>1. /\ tSpi[p].pc = "submit" /\ Spi!Start(c)
        /\ tSpi' = [tSpi EXCEPT ![p].pc = "wait"]
        /\ tBus' = [tBus EXCEPT ![p].on = TRUE]
    BY <1>7 DEF Spi!Submit, Spi!At
  <2>2. /\ c \in Spi!Chan /\ tSpi[p].kind \in {"tx", "rx", "duplex"}
        /\ ~tChan[c].cyclic /\ tDmac[c].en = {}
    BY <1>0, <2>1, ChanOfPort DEF Holds, PortOK
  <2>3. tDmac'[c].stat = {}
    <3>1. tDmac'[c].stat = tDmac[c].stat
      BY <2>1, <2>2, StartEffect
    <3> QED BY <2>2, <3>1, QuietStat
  <2>4. /\ tSpi'[p].pc = "wait" /\ tSpi'[p].kind = tSpi[p].kind
        /\ tSpi'[p].result = tSpi[p].result /\ tSpi'[p].sem = tSpi[p].sem
        /\ tSpi'[p].semTx = tSpi[p].semTx /\ tSpi'[p].semRx = tSpi[p].semRx
        /\ tSpi'[p].chan = c /\ tSpi'[p].clean = tSpi[p].clean
    BY <1>0, <2>1 DEF PortState
  <2>5. /\ tBus'[p].stat = tBus[p].stat /\ tBus'[p].en = tBus[p].en
        /\ tBus'[p].over = tBus[p].over /\ tBus'[p].moved = tBus[p].moved
        /\ tBus'[p].late = tBus[p].late
    BY <1>0, <2>1 DEF BusState
  <2> QED BY <1>0, <2>1, <2>2, <2>3, <2>4, <2>5
          DEF DoneOK, TxState, RxState, Done, Receives, Returns
<1>8. CASE Spi!TxComplete(p)
  <2>1. /\ tSpi[p].pc = "wait" /\ tSpi[p].kind = "tx" /\ tSpi[p].semTx > 0
        /\ tBus' = tBus
        /\ tSpi' = [tSpi EXCEPT
                 ![p].pc = "stop", ![p].semTx = @ - 1,
                 ![p].ret = IF tSpi[p].result = "failed" THEN "error"
                            ELSE "ok"]
    BY <1>8 DEF Spi!TxComplete, Spi!At
  <2>2. /\ tSpi'[p].pc = "stop" /\ tSpi'[p].kind = "tx"
        /\ tSpi'[p].ret = "ok" => tSpi[p].result # "failed"
        /\ tSpi'[p].clean = tSpi[p].clean
    BY <1>0, <2>1 DEF PortState
  <2>3. tSpi[p].clean /\ tSpi[p].result # "failed" => Done(p)
    <3>1. tSpi[p].clean => TxState(p)
      BY <1>0, <2>1 DEF DoneOK
    <3> QED BY <2>1, <3>1 DEF TxState
  <2> QED BY <1>0, <2>1, <2>2, <2>3 DEF DoneOK, EndState, Done, Receives, Returns
<1>9. ASSUME tSpi'[p].pc = "stop", tSpi'[p].kind = tSpi[p].kind,
             tSpi'[p].clean = tSpi[p].clean, tSpi'[p].ret = "error",
             tBus'[p].stat = tBus[p].stat, tBus'[p].over = tBus[p].over,
             tBus'[p].moved = tBus[p].moved, tBus'[p].late = tBus[p].late
      PROVE  DoneOK(p)' /\ Returns(p)
  BY <1>0, <1>9 DEF DoneOK, EndState, Receives, Returns
<1>10. CASE Spi!TxTimeout(p)
  <2>1. /\ tSpi'[p].pc = "stop" /\ tSpi'[p].kind = tSpi[p].kind
        /\ tSpi'[p].clean = tSpi[p].clean /\ tSpi'[p].ret = "error"
        /\ tBus' = tBus
    BY <1>0, <1>10 DEF Spi!TxTimeout, PortState
  <2> QED BY <1>9, <2>1
<1>11. CASE Spi!RxComplete(p)
  <2>0. /\ tSpi[p].pc = "wait" /\ Receives(p)
        /\ tSpi[p].kind \in {"rx", "duplex"}
        /\ tBus' = [tBus EXCEPT ![p].en = {}]
    BY <1>11 DEF Spi!RxComplete, Spi!At, Receives
  <2>1. /\ tBus'[p].stat = tBus[p].stat /\ tBus'[p].late = tBus[p].late
        /\ tBus'[p].over = tBus[p].over /\ tBus'[p].moved = tBus[p].moved
    BY <1>0, <2>0 DEF BusState
  <2>2. CASE tSpi' = [tSpi EXCEPT ![p].pc = "stop", ![p].result = "failed",
                       ![p].ret = "error", ![p].failures = @ + 1]
    <3>1. /\ tSpi'[p].pc = "stop" /\ tSpi'[p].kind = tSpi[p].kind
          /\ tSpi'[p].clean = tSpi[p].clean /\ tSpi'[p].ret = "error"
      BY <1>0, <2>2 DEF PortState
    <3> QED BY <1>9, <2>1, <3>1
  <2>3. CASE /\ tSpi[p].semRx > 0
             /\ tSpi' = [tSpi EXCEPT ![p].pc = "stop", ![p].semRx = @ - 1,
                                ![p].result = "ok", ![p].ret = "ok"]
    <3>1. /\ tSpi'[p].pc = "stop" /\ tSpi'[p].kind = tSpi[p].kind
          /\ tSpi'[p].clean = tSpi[p].clean
      BY <1>0, <2>3 DEF PortState
    <3>2. tSpi[p].clean => Done(p)
      <4>1. tSpi[p].clean => RxState(p)
        BY <1>0, <2>0 DEF DoneOK
      <4> QED BY <2>3, <4>1 DEF RxState
    <3> QED BY <1>0, <2>0, <2>1, <3>1, <3>2
            DEF DoneOK, EndState, Done, Receives, Returns
  <2> QED BY <1>11, <2>2, <2>3 DEF Spi!RxComplete
<1>12. CASE Spi!CpuComplete(p)
  <2>0. tSpi[p].pc = "wait" /\ tSpi[p].kind \in {"write", "read"}
    BY <1>12 DEF Spi!CpuComplete, Spi!At
  <2>1. CASE /\ tSpi[p].result = "ready"
             /\ tSpi' = [tSpi EXCEPT ![p] = [Spi!Return(tSpi[p], "ok") EXCEPT
                                          !.failures = @ + 1]]
    <3>1. ~tSpi'[p].clean
      BY <1>0, <2>1 DEF Spi!Return, PortState
    <3> QED BY <2>1, <3>1 DEF DoneOK, Returns
  <2>2. ASSUME NEW ret \in {"error"} \cup
                        (IF tSpi[p].result = "ok" THEN {"ok"} ELSE {}),
               tSpi' = [tSpi EXCEPT ![p] = Spi!Return(@, ret)]
        PROVE  DoneOK(p)' /\ Returns(p)
    <3>1. ~tSpi'[p].clean /\ (tSpi'[p].ret = "ok" => tSpi[p].result = "ok")
      BY <1>0, <2>2 DEF PortState, Spi!Return
    <3>2. tSpi[p].clean => CpuState(p)
      BY <1>0, <2>0 DEF DoneOK
    <3> QED BY <2>0, <3>1, <3>2 DEF DoneOK, CpuState, Returns
  <2> QED BY <1>12, <2>1, <2>2 DEF Spi!CpuComplete
<1>13. CASE Spi!StopDma(p)
  <2>1. /\ tSpi[p].pc = "stop" /\ tBus' = tBus
        /\ tSpi' = [tSpi EXCEPT ![p].pc = "free"]
    BY <1>13 DEF Spi!StopDma, Spi!At
  <2>2. /\ tSpi'[p].pc = "free" /\ tSpi'[p].kind = tSpi[p].kind
        /\ tSpi'[p].ret = tSpi[p].ret /\ tSpi'[p].clean = tSpi[p].clean
    BY <1>0, <2>1 DEF PortState
  <2> QED BY <1>0, <2>1, <2>2 DEF DoneOK, EndState, Done, Receives, Returns
<1>14. CASE Spi!FreeDma(p)
  <2>1. /\ tSpi[p].pc = "free"
        /\ tSpi' = [tSpi EXCEPT ![p] = Spi!Return(@, tSpi[p].ret)]
    BY <1>14 DEF Spi!FreeDma, Spi!At
  <2>2. ~tSpi'[p].clean /\ tSpi'[p].ret = tSpi[p].ret
    BY <1>0, <2>1 DEF PortState, Spi!Return
  <2>3. tSpi[p].clean => EndState(p)
    BY <1>0, <2>1 DEF DoneOK
  <2> QED BY <2>2, <2>3 DEF DoneOK, EndState, Done, Returns
<1> QED BY <1>2, <1>3, <1>4, <1>5, <1>6, <1>7, <1>8, <1>10, <1>11, <1>12,
           <1>13, <1>14
        DEF Spi!CallStep

(* The interrupt of a port, and what happens on its bus.  A transfer that  *)
(* ends late is one that a call which found nothing left does not have.    *)
LEMMA DoneBus ==
    ASSUME Spi!SpiParameters, OwnInv, StatInv, DoneInv, NEW p \in SpiPort,
           BusStep(p)
    PROVE  /\ DoneOK(p)' /\ tSpi'[p].pc = tSpi[p].pc /\ UNCHANGED tDmac
           /\ \A o \in SpiPort : o # p => tSpi'[o] = tSpi[o] /\ tBus'[o] = tBus[o]
<1>0. /\ tSpi[p] \in PortState /\ tBus[p] \in BusState
      /\ PortOK(p) /\ DoneOK(p)
      /\ tSpi \in [SpiPort -> PortState] /\ tBus \in [SpiPort -> BusState]
  BY FieldTypes DEF OwnInv, PortInv, Typed, DoneInv
<1>1. CASE Spi!SpiIrqHandler(p)
  <2>1. /\ tBus' = [tBus EXCEPT ![p].stat = {}, ![p].en = {}]
        /\ tSpi' = [tSpi EXCEPT
                 ![p].result = IF "tc" \in tBus[p].stat THEN "ok"
                               ELSE "failed",
                 ![p].sem = FALSE,
                 ![p].semTx = IF tSpi[p].sem THEN @ + 1 ELSE @]
        /\ UNCHANGED tDmac /\ tBus[p].en # {}
    BY <1>1 DEF Spi!SpiIrqHandler, Spi!SpiPending
  <2>2. /\ tSpi'[p].pc = tSpi[p].pc /\ tSpi'[p].kind = tSpi[p].kind
        /\ tSpi'[p].result = IF "tc" \in tBus[p].stat THEN "ok" ELSE "failed"
        /\ ~tSpi'[p].sem /\ tSpi'[p].semRx = tSpi[p].semRx
        /\ tSpi'[p].semTx = IF tSpi[p].sem THEN tSpi[p].semTx + 1
                            ELSE tSpi[p].semTx
        /\ tSpi'[p].chan = tSpi[p].chan /\ tSpi'[p].ret = tSpi[p].ret
        /\ tSpi'[p].clean = tSpi[p].clean
        /\ \A o \in SpiPort : o # p => tSpi'[o] = tSpi[o] /\ tBus'[o] = tBus[o]
    BY <1>0, <2>1 DEF PortState
  <2>3. /\ tBus'[p].stat = {} /\ tBus'[p].en = {}
        /\ tBus'[p].over = tBus[p].over /\ tBus'[p].moved = tBus[p].moved
        /\ tBus'[p].late = tBus[p].late
    BY <1>0, <2>1 DEF BusState
  <2>4. DoneOK(p)'
    <3> SUFFICES ASSUME tSpi[p].clean PROVE DoneOK(p)'
      BY <2>2 DEF DoneOK
    <3>1. "tc" \in tBus[p].stat => tBus[p].over
      BY <1>0 DEF DoneOK
    <3>2. CASE tSpi[p].pc \notin {"request", "submit", "read", "wait"}
      BY <1>0, <2>2, <2>3, <3>2 DEF DoneOK, EndState, Done, Receives
    <3>3. CASE tSpi[p].pc \in {"request", "submit", "read", "wait"}
      <4>1. TxState(p) /\ tSpi[p].kind = "tx" => TxState(p)'
        <5> SUFFICES ASSUME TxState(p), tSpi[p].kind = "tx" PROVE TxState(p)'
          OBVIOUS
        <5>1. "tc" \in tBus[p].stat => Done(p)
          BY <1>0, <3>1 DEF DoneOK, Done, Receives
        <5>2. tSpi[p].semRx = 0 /\ tSpi[p].semTx = 0 /\ tSpi[p].sem
          BY <2>1 DEF TxState
        <5> QED BY <2>2, <2>3, <5>1, <5>2 DEF TxState, Done
      <4>2. RxState(p) => RxState(p)'
        BY <2>1, <2>2, <2>3 DEF RxState, Done
      <4>3. CpuState(p) => CpuState(p)'
        BY <2>2, <2>3, <3>1 DEF CpuState
      <4> QED BY <1>0, <2>2, <2>3, <3>3, <4>1, <4>2, <4>3 DEF DoneOK, Receives
    <3> QED BY <3>2, <3>3
  <2> QED BY <2>1, <2>2, <2>4
<1>2. ASSUME NEW r \in PortState, tSpi'[p] = r,
             r.pc = tSpi[p].pc, r.kind = tSpi[p].kind, r.sem = tSpi[p].sem,
             r.result = tSpi[p].result, r.semTx = tSpi[p].semTx,
             r.semRx = tSpi[p].semRx, r.chan = tSpi[p].chan,
             r.clean = tSpi[p].clean, r.ret = tSpi[p].ret,
             tDmac' = tDmac, tBus'[p].en = tBus[p].en,
             tBus'[p].moved = tBus[p].moved, tBus'[p].late = tBus[p].late,
             tBus[p].over => tBus'[p].over,
             "tc" \in tBus'[p].stat => "tc" \in tBus[p].stat \/ tBus'[p].over,
             tBus'[p].over => \/ tBus[p].over \/ tBus[p].moved
                              \/ Receives(p) \/ tSpi[p].kind = "read"
      PROVE  DoneOK(p)'
  <2>1. TxState(p) => TxState(p)'
    BY <1>2 DEF TxState, Done
  <2>2. RxState(p) => RxState(p)'
    BY <1>2 DEF RxState, Done
  <2>3. CpuState(p) => CpuState(p)'
    BY <1>2 DEF CpuState
  <2>4. EndState(p) => EndState(p)'
    BY <1>2 DEF EndState, Done
  <2> QED BY <1>0, <1>2, <2>1, <2>2, <2>3, <2>4 DEF DoneOK, Receives
<1>3. CASE Spi!BusOver(p)
  <2>1. /\ tBus' = [tBus EXCEPT ![p].over = TRUE, ![p].stat = @ \cup {"tc"}]
        /\ UNCHANGED <<tDmac, tSpi>>
        /\ tBus[p].moved \/ Receives(p) \/ tSpi[p].kind = "read"
    BY <1>3 DEF Spi!BusOver, Receives
  <2>2. /\ tBus'[p].over /\ tBus'[p].moved = tBus[p].moved
        /\ tBus'[p].en = tBus[p].en /\ tBus'[p].late = tBus[p].late
        /\ \A o \in SpiPort : o # p => tBus'[o] = tBus[o]
    BY <1>0, <2>1 DEF BusState
  <2>3. DoneOK(p)'
    BY <1>0, <1>2, <2>1, <2>2
  <2> QED BY <2>1, <2>2, <2>3
<1>4. CASE Spi!LateOver(p)
  <2>1. /\ tBus[p].late /\ UNCHANGED <<tDmac, tSpi>>
        /\ tBus' = [tBus EXCEPT ![p].late = FALSE, ![p].stat = @ \cup {"tc"}]
    BY <1>4 DEF Spi!LateOver
  <2>2. ~tSpi[p].clean
    BY <1>0, <2>1 DEF DoneOK
  <2>3. \A o \in SpiPort : o # p => tBus'[o] = tBus[o]
    BY <1>0, <2>1
  <2> QED BY <2>1, <2>2, <2>3 DEF DoneOK
<1>5. CASE Spi!BusError(p)
  <2> DEFINE r == [tSpi[p] EXCEPT !.failures = @ + 1]
  <2>1. /\ tSpi' = [tSpi EXCEPT ![p] = r] /\ UNCHANGED tDmac
        /\ tBus' = [tBus EXCEPT ![p].stat = @ \cup {"err"}]
    BY <1>0, <1>5 DEF Spi!BusError
  <2>2. tSpi[p].failures + 1 \in Nat
    BY <1>0 DEF PortState
  <2>3. /\ r \in PortState /\ r.pc = tSpi[p].pc /\ r.kind = tSpi[p].kind
        /\ r.sem = tSpi[p].sem /\ r.result = tSpi[p].result
        /\ r.semTx = tSpi[p].semTx /\ r.semRx = tSpi[p].semRx
        /\ r.chan = tSpi[p].chan /\ r.clean = tSpi[p].clean
        /\ r.ret = tSpi[p].ret
    BY <1>0, <2>2 DEF PortState
  <2> HIDE DEF r
  <2>4. tSpi'[p] = r /\ \A o \in SpiPort : o # p => tSpi'[o] = tSpi[o]
    BY <1>0, <2>1
  <2>5. /\ tBus'[p].over = tBus[p].over /\ tBus'[p].moved = tBus[p].moved
        /\ tBus'[p].en = tBus[p].en /\ tBus'[p].late = tBus[p].late
        /\ tBus'[p].stat = tBus[p].stat \cup {"err"}
        /\ \A o \in SpiPort : o # p => tBus'[o] = tBus[o]
    BY <1>0, <2>1 DEF BusState
  <2>6. DoneOK(p)'
    BY <1>0, <1>2, <2>1, <2>3, <2>4, <2>5
  <2> QED BY <2>1, <2>3, <2>4, <2>5, <2>6
<1> QED BY <1>1, <1>3, <1>4, <1>5 DEF BusStep

(* The callback of the DMA gives the semaphore of a receive that waits for *)
(* it, when everything has been moved.                                     *)
LEMMA DoneIrq ==
    ASSUME Spi!SpiParameters, OwnInv, StatInv, DoneInv, Spi!DmaInterrupt,
           NEW p \in SpiPort
    PROVE  DoneOK(p)' /\ tSpi'[p].pc = tSpi[p].pc
<1>0. /\ tSpi[p] \in PortState /\ tBus[p] \in BusState
      /\ PortOK(p) /\ DoneOK(p)
  BY FieldTypes DEF OwnInv, PortInv, DoneInv
<1>1. /\ \A c \in Spi!Chan : /\ tDmac'[c].stat = {}
                             /\ tDmac'[c].run \in {tDmac[c].run, "off"}
      /\ tBus' = tBus
      /\ tSpi'[p] = IF \E c \in Spi!Served : tChan[c].callback = p
                    THEN [tSpi[p] EXCEPT !.semRx = @ + 1] ELSE tSpi[p]
  BY IrqEffect
<1>2. ASSUME NEW c \in Spi!Served, tChan[c].callback = p
      PROVE  DoneOK(p)' /\ tSpi'[p].pc = tSpi[p].pc
  <2>1. /\ c \in Spi!Chan /\ tDmac[c].stat # {} /\ tSpi[p].chan = c
        /\ Receives(p) /\ c # None
    BY <1>2, Names DEF Spi!Served, OwnInv, ChanInv, Receives
  <2>2. Holds(p)
    BY <1>0, <2>1 DEF PortOK
  <2>3. /\ tSpi'[p].pc = tSpi[p].pc /\ tSpi'[p].kind = tSpi[p].kind
        /\ tSpi'[p].sem = tSpi[p].sem /\ tSpi'[p].semTx = tSpi[p].semTx
        /\ tSpi'[p].semRx = tSpi[p].semRx + 1 /\ tSpi'[p].ret = tSpi[p].ret
        /\ tSpi'[p].chan = tSpi[p].chan /\ tSpi'[p].clean = tSpi[p].clean
    BY <1>0, <1>1, <1>2 DEF PortState
  <2> SUFFICES ASSUME tSpi[p].clean PROVE DoneOK(p)'
    BY <2>3 DEF DoneOK
  <2>4. tSpi[p].pc # "submit"
    BY <1>0, <2>1, QuietStat DEF PortOK
  <2>5. CASE tSpi[p].pc \in {"stop", "free"}
    BY <1>0, <1>1, <2>3, <2>5 DEF DoneOK, EndState, Done, Receives
  <2>6. CASE tSpi[p].pc = "wait"
    <3>1. RxState(p)
      BY <1>0, <2>1, <2>6 DEF DoneOK
    <3>2. /\ tSpi[p].semTx = 0 /\ ~tSpi[p].sem /\ Done(p)
          /\ tSpi[p].semRx = 0 /\ tDmac[c].run = "off"
      BY <2>1, <3>1 DEF RxState
    <3>3. RxState(p)'
      BY <1>1, <2>1, <2>3, <2>6, <3>2 DEF RxState, Done
    <3> QED BY <1>0, <1>1, <2>1, <2>3, <2>6, <3>3 DEF DoneOK, Receives
  <2> QED BY <2>2, <2>4, <2>5, <2>6 DEF Holds
<1>3. ASSUME tSpi'[p] = tSpi[p]
      PROVE  DoneOK(p)' /\ tSpi'[p].pc = tSpi[p].pc
  <2>1. CASE tSpi[p].chan \in Spi!Chan
    <3>1. tDmac'[tSpi[p].chan].stat = {}
          /\ tDmac'[tSpi[p].chan].run \in {tDmac[tSpi[p].chan].run, "off"}
      BY <1>1, <2>1
    <3>2. RxState(p) => RxState(p)'
      BY <1>1, <1>3, <3>1 DEF RxState, Done
    <3>3. /\ TxState(p) => TxState(p)'
          /\ CpuState(p) => CpuState(p)'
          /\ EndState(p) => EndState(p)'
      BY <1>1, <1>3 DEF TxState, CpuState, EndState, Done
    <3> QED BY <1>0, <1>1, <1>3, <3>2, <3>3 DEF DoneOK, Receives
  <2>2. CASE tSpi[p].chan \notin Spi!Chan
    BY <1>1, <1>3, <2>2, DoneStays
  <2> QED BY <2>1, <2>2
<1> QED BY <1>1, <1>2, <1>3

(* The DMA has moved everything: of a receive, when the bus is through.    *)
LEMMA DoneWorks ==
    ASSUME Spi!SpiParameters, OwnInv, StatInv, DoneInv, Spi!DmaWorks,
           NEW p \in SpiPort
    PROVE  DoneOK(p)' /\ tSpi' = tSpi
<1>0. /\ tSpi[p] \in PortState /\ tBus[p] \in BusState
      /\ PortOK(p) /\ DoneOK(p)
  BY FieldTypes DEF OwnInv, PortInv, DoneInv
<1>1. PICK c \in Spi!Chan :
        /\ Spi!Worked(c)
        /\ \A o \in Spi!User(c) :
            tBus[o].on /\ (tSpi[o].kind # "tx" => tBus[o].over)
        /\ tBus' = [o \in SpiPort |->
                      IF o \in Spi!User(c)
                      THEN [tBus[o] EXCEPT !.moved = TRUE]
                      ELSE tBus[o]]
        /\ UNCHANGED <<tSpi, tStream>>
  BY DEF Spi!DmaWorks
<1>2. CASE tSpi[p].chan # c
  <2>1. tBus'[p] = tBus[p]
    BY <1>1, <1>2 DEF Spi!User
  <2>2. \A d \in Spi!Chan : d # c => tDmac'[d] = tDmac[d]
    BY <1>1, WorkEffect
  <2> QED BY <1>1, <1>2, <2>1, <2>2, DoneStays
<1>3. CASE tSpi[p].chan = c
  <2>1. Holds(p) /\ tStream.chan # c /\ c # None
    BY <1>0, <1>3, Names, ChanOfPort DEF PortOK
  <2>2. p \in Spi!User(c)
    BY <1>3, <2>1 DEF Spi!User, Holds
  <2>3. /\ tBus'[p].moved /\ tBus'[p].over = tBus[p].over
        /\ tBus'[p].en = tBus[p].en /\ tBus'[p].stat = tBus[p].stat
        /\ tBus'[p].late = tBus[p].late
    BY <1>0, <1>1, <2>2 DEF BusState
  <2>4. tDmac[c].run = "once" /\ tDmac'[c].run = "off"
    <3>1. tDmac[c].run # "off"
      BY <1>1, WorkEffect
    <3>2. tDmac[c].run # "loop"
      BY <2>1 DEF StatInv, StatOK
    <3>3. tDmac[c].run = "once"
      BY <3>1, <3>2, FieldTypes DEF OwnInv
    <3> QED BY <1>1, <3>3, WorkEffect
  <2>5. tSpi[p].pc \in {"wait", "stop"}
    BY <1>0, <1>3, <2>1, <2>4 DEF PortOK, Holds
  <2>6. EndState(p) => EndState(p)'
    BY <1>1, <2>3 DEF EndState, Done
  <2>7. TxState(p) => TxState(p)'
    BY <1>1, <2>3 DEF TxState, Done
  <2>8. CASE tSpi[p].kind = "tx"
    BY <1>0, <1>1, <2>3, <2>5, <2>6, <2>7, <2>8 DEF DoneOK, Receives
  <2>9. CASE tSpi[p].kind \in {"rx", "duplex"}
    <3>1. Receives(p) /\ tBus[p].over
      BY <1>1, <2>2, <2>9 DEF Receives
    <3>2. RxState(p) /\ tSpi[p].pc = "wait" => RxState(p)'
      <4> SUFFICES ASSUME RxState(p), tSpi[p].pc = "wait" PROVE RxState(p)'
        OBVIOUS
      <4>1. tSpi[p].semRx = 0 /\ tSpi[p].semTx = 0 /\ ~tSpi[p].sem
        BY <1>3, <2>4 DEF RxState
      <4> QED BY <1>1, <1>3, <2>3, <2>4, <3>1, <4>1 DEF RxState, Done
    <3> QED BY <1>0, <1>1, <2>3, <2>5, <2>6, <2>9, <3>1, <3>2 DEF DoneOK, Receives
  <2>10. tSpi[p].kind \in {"tx", "rx", "duplex"}
    BY <1>0, <2>1 DEF PortOK
  <2> QED BY <2>8, <2>9, <2>10
<1> QED BY <1>1, <1>2, <1>3

LEMMA DoneStream ==
    ASSUME Spi!SpiParameters, OwnInv, DoneInv, NEW p \in SpiPort,
           Spi!StreamOpen \/ Spi!StreamStart \/ Spi!StreamStop \/ Spi!StreamClose
    PROVE  DoneOK(p)' /\ tSpi' = tSpi
<1>0. /\ tDmac \in [Spi!Chan -> DmacState] /\ UNCHANGED <<tSpi, tBus>>
  BY DEF OwnInv, Typed, Spi!StreamOpen, Spi!StreamStart, Spi!StreamStop,
     Spi!StreamClose
<1>1. CASE UNCHANGED tDmac
  BY <1>0, <1>1, DoneStays
<1>2. CASE tStream.pc # "closed" /\
           \A d \in Spi!Chan : d # tStream.chan => tDmac'[d] = tDmac[d]
  BY <1>0, <1>2, ChanOfStream, DoneStays
<1>3. CASE Spi!StreamOpen
  BY <1>1, <1>3 DEF Spi!StreamOpen, Spi!Request
<1>4. CASE Spi!StreamStart
  BY <1>0, <1>1, <1>2, <1>4 DEF Spi!StreamStart, Spi!CyclicNoMem
<1>5. CASE Spi!StreamStop
  BY <1>0, <1>2, <1>5 DEF Spi!StreamStop, Spi!Stop
<1>6. CASE Spi!StreamClose
  BY <1>0, <1>2, <1>6 DEF Spi!StreamClose, Spi!ChanFree
<1> QED BY <1>3, <1>4, <1>5, <1>6

LEMMA DoneInit ==
    ASSUME Spi!Init
    PROVE  DoneInv
<1>1. \A p \in SpiPort : tSpi[p] = Spi!IdlePort /\ tBus[p] = Spi!AtRest
  BY DEF Spi!Init
<1> QED BY <1>1 DEF DoneInv, DoneOK, Spi!IdlePort

LEMMA DoneStep ==
    ASSUME Spi!SpiParameters, OwnInv, StatInv, DoneInv, [Spi!Next]_tvars
    PROVE  DoneInv' /\ \A p \in SpiPort : Returns(p)
<1> SUFFICES ASSUME NEW p \in SpiPort PROVE DoneOK(p)' /\ Returns(p)
  BY DEF DoneInv
<1>1. CASE UNCHANGED tvars
  BY <1>1, DoneStays DEF tvars, Returns
<1>2. CASE Spi!CallStep(p)
  BY <1>2, DonePort
<1>3. ASSUME NEW o \in SpiPort, o # p, Spi!CallStep(o)
      PROVE  DoneOK(p)' /\ Returns(p)
  <2>1. /\ tSpi'[p] = tSpi[p] /\ tBus'[p] = tBus[p]
        /\ \A d \in Spi!Chan : d # tSpi[o].chan => tDmac'[d] = tDmac[d]
    BY <1>3, OthersStay
  <2>2. tSpi[p].chan \in Spi!Chan => tSpi[p].chan # tSpi[o].chan
    BY <1>3, Names DEF OwnInv, OneUser
  <2> QED BY <2>1, <2>2, DoneStays DEF Returns
<1>4. ASSUME NEW o \in SpiPort,
             BusStep(o)
      PROVE  DoneOK(p)' /\ Returns(p)
  <2>1. CASE o = p
    BY <1>4, <2>1, DoneBus DEF Returns
  <2>2. CASE o # p
    <3>1. tSpi'[p] = tSpi[p] /\ tBus'[p] = tBus[p] /\ tDmac' = tDmac
      BY <1>4, <2>2, DoneBus
    <3> QED BY <3>1, DoneStays DEF Returns
  <2> QED BY <2>1, <2>2
<1>5. CASE Spi!DmaInterrupt
  BY <1>5, DoneIrq DEF Returns
<1>6. CASE Spi!DmaWorks
  BY <1>6, DoneWorks DEF Returns
<1>7. CASE Spi!StreamOpen \/ Spi!StreamStart \/ Spi!StreamStop \/ Spi!StreamClose
  BY <1>7, DoneStream DEF Returns
<1> QED BY <1>1, <1>2, <1>3, <1>4, <1>5, <1>6, <1>7 DEF Spi!Next, BusStep

-----------------------------------------------------------------------------
(* A step of the composition is a step of every part, or leaves it alone.  *)
LEMMA Parts ==
    ASSUME [PlatformNext]_allVars
    PROVE  /\ [Next]_vars /\ [Pcm!Next]_pvars /\ [Spi!Next]_tvars
           /\ UNCHANGED exercised
BY DEF PlatformNext, Exercise, allVars

LEMMA StreamInvariant ==
    ASSUME Pcm!PcmParameters
    PROVE  PlatformSpec => []PcmInv
<1>1. PlatformInit => PcmInv
  BY PcmInit DEF PlatformInit
<1>2. PcmInv /\ [PlatformNext]_allVars => PcmInv'
  BY Parts, PcmStep
<1> QED BY <1>1, <1>2, PTL DEF PlatformSpec

LEMMA TransfersInvariant ==
    ASSUME Spi!SpiParameters
    PROVE  PlatformSpec => []OwnInv
<1>1. PlatformInit => OwnInv
  BY OwnInit DEF PlatformInit
<1>2. OwnInv /\ [PlatformNext]_allVars => OwnInv'
  BY Parts, OwnStep
<1> QED BY <1>1, <1>2, PTL DEF PlatformSpec

LEMMA CallsInvariant ==
    ASSUME Spi!SpiParameters
    PROVE  PlatformSpec => []DoneAll
<1>1. PlatformInit => DoneAll
  BY OwnInit, StatInit, DoneInit DEF PlatformInit, DoneAll
<1>2. DoneAll /\ [PlatformNext]_allVars => DoneAll'
  BY Parts, OwnStep, StatStep, DoneStep DEF DoneAll
<1> QED BY <1>1, <1>2, PTL DEF PlatformSpec

(* The queue of the composition is the queue of its own specification.     *)
LEMMA QueuePart ==
    ASSUME Parameters
    PROVE  PlatformSpec => []KqTypeOK
<1>1. Spec => []KqTypeOK
  BY KqTypeCorrect
<1>2. PlatformInit => Init
  BY DEF PlatformInit
<1>3. [PlatformNext]_allVars => [Next]_vars
  BY Parts
<1> QED BY <1>1, <1>2, <1>3, PTL DEF PlatformSpec, Spec

(* The three parts keep the types of their variables: the queue and its    *)
(* tasks, the runtime of the stream and the calls on it, the channels of   *)
(* the DMA controller and the calls of the SPI driver.                     *)
THEOREM PlatformTypeCorrect ==
    ASSUME Parameters, Pcm!PcmParameters, Spi!SpiParameters
    PROVE  PlatformSpec => []PlatformTypeOK
<1>1. PlatformSpec => []KqTypeOK
  BY QueuePart
<1>2. PlatformSpec => []PcmInv
  BY StreamInvariant
<1>3. PlatformSpec => []OwnInv
  BY TransfersInvariant
<1>4. KqTypeOK /\ PcmInv /\ OwnInv => PlatformTypeOK
  BY PcmMeans, OwnMeans DEF PlatformTypeOK, InPart
<1> QED BY <1>1, <1>2, <1>3, <1>4, PTL

(* A frame that snd_pcm_lib_write has put into the ring is still in its    *)
(* place when the DMA comes to it, however writes, rewinds, interrupts     *)
(* and the turns through buffer and boundary interleave.                   *)
THEOREM NothingOverwrittenEver ==
    ASSUME Pcm!PcmParameters
    PROVE  PlatformSpec => []NothingOverwritten
<1>1. PlatformSpec => []PcmInv
  BY StreamInvariant
<1>2. PcmInv => NothingOverwritten
  BY PcmMeans DEF NothingOverwritten, InPart
<1> QED BY <1>1, <1>2, PTL

(* snd_pcm_update_hw_ptr0 keeps hw_ptr within two periods of the DMA,      *)
(* though it has only the position in the buffer to go by.                 *)
THEOREM HwPtrTracksAlways ==
    ASSUME Pcm!PcmParameters
    PROVE  PlatformSpec => []HwPtrTracks
<1>1. PlatformSpec => []PcmInv
  BY StreamInvariant
<1>2. PcmInv => HwPtrTracks
  BY PcmMeans DEF HwPtrTracks, InPart
<1> QED BY <1>1, <1>2, PTL

(* snd_pcm_update_state stops a stream that has run dry before its DMA has *)
(* played two periods of old frames.                                       *)
THEOREM UnderrunStopsAlways ==
    ASSUME Pcm!PcmParameters
    PROVE  PlatformSpec => []UnderrunStops
<1>1. PlatformSpec => []PcmInv
  BY StreamInvariant
<1>2. PcmInv => UnderrunStops
  BY PcmMeans DEF UnderrunStops, InPart
<1> QED BY <1>1, <1>2, PTL

(* Whatever two tasks and the interrupt do to a stream, its DMA is on only *)
(* in the states that snd_pcm_running names, and on hold only when paused. *)
THEOREM DmaFollowsStateAlways ==
    ASSUME Pcm!PcmParameters
    PROVE  PlatformSpec => []DmaFollowsState
<1>1. PlatformSpec => []PcmInv
  BY StreamInvariant
<1>2. PcmInv => DmaFollowsState
  BY PcmMeans DEF DmaFollowsState, InPart
<1> QED BY <1>1, <1>2, PTL

(* The interrupt that ends ksnd_pcm_drain comes when nothing is left in    *)
(* the ring to play.                                                       *)
THEOREM DrainPlaysAllAlways ==
    ASSUME Pcm!PcmParameters
    PROVE  PlatformSpec => DrainPlaysAll
<1>1. PlatformSpec => []PcmInv
  BY StreamInvariant
<1>2. PcmInv /\ [PlatformNext]_allVars
      => [pRt.state = "draining" /\ pRt'.state = "setup" /\ pRt.dma = "on"
          /\ pApp.pc # "idle" /\ pControl' = pControl
          => Pcm!Left = 0]_pvars
  BY Parts, DrainPlays
<1> QED BY <1>1, <1>2, PTL
        DEF PlatformSpec, DrainPlaysAll, Pcm!DrainPlaysAll, pvars,
            Pcm!vars

(* hal_dma_chan_request and hal_dma_chan_free: a channel is the one of its *)
(* user and calls back nobody else, and one that is free is at rest.       *)
THEOREM ChannelsOwnedAlways ==
    ASSUME Spi!SpiParameters
    PROVE  PlatformSpec => []ChannelsOwned
<1>1. PlatformSpec => []OwnInv
  BY TransfersInvariant
<1>2. OwnInv => ChannelsOwned
  BY OwnMeans DEF ChannelsOwned, InPart
<1> QED BY <1>1, <1>2, PTL

(* hal_spi_xfer: a call that finds nothing of former ones, and returns OK  *)
(* by no time-out that is not seen, returns when its words have been sent, *)
(* stored by the DMA, or have come for the processor: whichever of the two *)
(* interrupts came first, whatever failed before and on other ports, and   *)
(* whatever these and the stream do with the other channels.               *)
THEOREM DoneWhenReturnedAlways ==
    ASSUME Spi!SpiParameters
    PROVE  PlatformSpec => DoneWhenReturned
<1>1. PlatformSpec => []DoneAll
  BY CallsInvariant
<1>2. DoneAll /\ [PlatformNext]_allVars
      => [\A p \in SpiPort :
            Spi!ReturnsOk(p) /\ tSpi[p].clean /\ tSpi[p].result # "ready" =>
               tBus[p].over /\ (tBus[p].moved \/ tSpi[p].kind = "read")]_tvars
  BY Parts, DoneStep DEF DoneAll, Returns, Spi!ReturnsOk
<1> QED BY <1>1, <1>2, PTL
        DEF PlatformSpec, DoneWhenReturned, Spi!DoneWhenReturned, tvars,
            Spi!vars
=============================================================================
