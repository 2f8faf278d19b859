------------------------------- MODULE SndPcm -------------------------------
(***************************************************************************)
(* A stream of the sound core (sound/core/snd_pcm.c) between the task that *)
(* writes or reads it, a second task that may pause or drop it, and the    *)
(* DMA that goes round in its ring buffer and interrupts after each period *)
(* (snd_dma.c).  The functions of the core work on the runtime under the   *)
(* stream lock, that is without interrupts, and each locked section is one *)
(* step; what they do is written as operators on the record rt.            *)
(***************************************************************************)
EXTENDS Integers, FiniteSets

CONSTANTS
    Streams,       \* "playback", "capture"
    Buffer,        \* buffer_size, in frames
    Period,        \* period_size, and avail_min
    Boundary,      \* of hw_ptr and appl_ptr: a multiple of Buffer
    Sizes,         \* the frames of a write or read
    MaxTokens,     \* bound: the value of a semaphore
    MaxControl,    \* bound: what the second task does
    Silence        \* a frame that nobody has written

(* What a stream is set up with. *)
PcmParameters ==
    /\ {Buffer, Period, Boundary} \subseteq Nat \ {0}
    /\ Period < Buffer /\ Buffer % Period = 0
    /\ Boundary % Buffer = 0 /\ Boundary >= 3 * Buffer
    /\ Sizes \subseteq Nat \ {0}
    /\ MaxTokens \in Nat /\ MaxControl \in Nat
    /\ Silence \notin 0..Boundary - 1

VARIABLES
    rt,            \* runtime: state, hw_ptr, hw_ptr_base, appl_ptr, twake, the
                   \* state of the DMA and its interrupt, tsleep and sleep;
                   \* done is the number of frames the DMA has been through
    ring,          \* per place of the buffer, the number of the frame in it
    app,           \* the task: where in which call it is, and its variables
    control        \* what the second task may still do

vars == <<rt, ring, app, control>>

States == {"setup", "prepared", "running", "xrun", "draining", "paused"}
Points == {"idle", "unlocked", "asleep", "woken", "relock", "copy"}
Sleepers == [waiting : BOOLEAN, tokens : 0..MaxTokens]

PcmTypeOK ==
    /\ rt \in [stream : Streams, state : States, hw : 0..Boundary - 1,
               base : {b \in 0..Boundary - 1 : b % Buffer = 0},
               appl : 0..Boundary - 1, twake : 0..Period,
               dma : {"off", "on", "paused"}, irq : BOOLEAN,
               done : 0..Boundary - 1, tsleep : Sleepers, sleep : Sleepers]
    /\ DOMAIN ring = 0..Buffer - 1
    /\ app \in [pc : Points, op : {"transfer", "drain"}, size : Nat,
                avail : 0..Boundary - 1, moved : Nat, frames : 0..Buffer,
                from : 0..Boundary - 1, late : BOOLEAN]
    /\ \A i \in DOMAIN ring : ring[i] \in 0..Boundary - 1 \cup {Silence}
    /\ control \in 0..MaxControl

Idle == [pc |-> "idle", op |-> "transfer", size |-> 0, avail |-> 0,
         moved |-> 0, frames |-> 0, from |-> 0, late |-> FALSE]

(* ksnd_pcm_open and ksnd_pcm_hw_params *)
Init ==
    /\ \E stream \in Streams :
         rt = [stream |-> stream, state |-> "setup", hw |-> 0, base |-> 0,
               appl |-> 0, twake |-> 0, dma |-> "off", irq |-> FALSE,
               done |-> 0, tsleep |-> [waiting |-> FALSE, tokens |-> 0],
               sleep |-> [waiting |-> FALSE, tokens |-> 0]]
    /\ ring = [i \in 0..Buffer - 1 |-> Silence]
    /\ app = Idle
    /\ control = MaxControl

-----------------------------------------------------------------------------
Smaller(i, j) == IF i < j THEN i ELSE j
Playback(r) == r.stream = "playback"

(* snd_pcm_running *)
Running(r) == r.state = "running" \/ (r.state = "draining" /\ Playback(r))

(* snd_pcm_playback_avail and snd_pcm_capture_avail: signed differences,   *)
(* brought back into the boundary.                                         *)
Avail(r) ==
    LET avail == IF Playback(r) THEN r.hw + Buffer - r.appl ELSE r.hw - r.appl
    IN  IF avail < 0 THEN avail + Boundary
        ELSE IF avail >= Boundary THEN avail - Boundary
        ELSE avail

(* snd_schd_wakeup: posts only when somebody has said to wait. *)
Woken(s) ==
    IF s.waiting THEN [s EXCEPT !.tokens = Smaller(@ + 1, MaxTokens)] ELSE s

(* Mutant: the state is set before it is looked at. *)
StoppedLate(r, state) ==
    [r EXCEPT !.dma = IF Running([r EXCEPT !.state = state]) THEN "off"
                      ELSE @,
              !.state = state,
              !.tsleep = Woken(@), !.sleep = Woken(@)]

(* snd_pcm_stop: SNDRV_PCM_TRIGGER_STOP is hal_dma_stop. *)
Stopped(r, state) ==
    [r EXCEPT !.dma = IF Running(r) THEN "off" ELSE @,
              !.state = state,
              !.tsleep = Woken(@), !.sleep = Woken(@)]

(* Mutant: a drain ends when there is room for a period. *)
StateUpdatedEarly(r) ==
    IF r.state = "draining"
    THEN IF Avail(r) >= Period THEN Stopped(r, "setup")
         ELSE IF Avail(r) >= Period THEN [r EXCEPT !.sleep = Woken(@)] ELSE r
    ELSE IF Avail(r) >= Buffer THEN Stopped(r, "xrun")
    ELSE IF r.twake # 0
    THEN IF Avail(r) >= r.twake THEN [r EXCEPT !.tsleep = Woken(@)] ELSE r
    ELSE IF Avail(r) >= Period THEN [r EXCEPT !.sleep = Woken(@)]
    ELSE r

(* Mutant: the threshold for an underrun is past the end. *)
StateUpdatedLate(r) ==
    IF r.state = "draining"
    THEN IF Avail(r) >= Buffer THEN Stopped(r, "setup")
         ELSE IF Avail(r) >= Period THEN [r EXCEPT !.sleep = Woken(@)] ELSE r
    ELSE IF Avail(r) > Buffer + 1 THEN Stopped(r, "xrun")
    ELSE IF r.twake # 0
    THEN IF Avail(r) >= r.twake THEN [r EXCEPT !.tsleep = Woken(@)] ELSE r
    ELSE IF Avail(r) >= Period THEN [r EXCEPT !.sleep = Woken(@)]
    ELSE r

(* snd_pcm_update_state; what is left of the result is the new state. *)
StateUpdated(r) ==
    IF r.state = "draining"
    THEN IF Avail(r) >= Buffer THEN Stopped(r, "setup")
         ELSE IF Avail(r) >= Period THEN [r EXCEPT !.sleep = Woken(@)] ELSE r
    ELSE IF Avail(r) >= Buffer THEN Stopped(r, "xrun")
    ELSE IF r.twake # 0
    THEN IF Avail(r) >= r.twake THEN [r EXCEPT !.tsleep = Woken(@)] ELSE r
    ELSE IF Avail(r) >= Period THEN [r EXCEPT !.sleep = Woken(@)]
    ELSE r

(* snd_dmaengine_pcm_pointer, hal_dma_tx_status: a channel that has been   *)
(* stopped is no longer cyclic and reports the rest of its period only.    *)
Pointer(r) ==
    IF r.dma = "off" THEN Buffer - Period + (r.done % Period)
    ELSE r.done % Buffer

(* Mutant: the base does not wrap at the boundary. *)
HwPtrUnwrapped(r) ==
    LET base == IF r.base + Pointer(r) >= r.hw THEN r.base
                ELSE r.base + Buffer
        new == base + Pointer(r)
        delta == IF new < r.hw THEN new - r.hw + Boundary ELSE new - r.hw
    IN  IF delta >= Buffer + Period \/ delta = 0 THEN r
        ELSE StateUpdated([r EXCEPT !.base = base, !.hw = new])

(* Mutant: the end of the buffer is not noticed. *)
HwPtrInBuffer(r) ==
    LET base == r.base
        new == base + Pointer(r)
        delta == IF new < r.hw THEN new - r.hw + Boundary ELSE new - r.hw
    IN  IF delta >= Buffer + Period \/ delta = 0 THEN r
        ELSE StateUpdated([r EXCEPT !.base = base, !.hw = new])

(* snd_pcm_update_hw_ptr0 *)
HwPtrUpdated(r) ==
    LET base == IF r.base + Pointer(r) >= r.hw THEN r.base
                ELSE IF r.base + Buffer >= Boundary THEN 0
                ELSE r.base + Buffer
        new == base + Pointer(r)
        delta == IF new < r.hw THEN new - r.hw + Boundary ELSE new - r.hw
    IN  IF delta >= Buffer + Period \/ delta = 0 THEN r
        ELSE StateUpdated([r EXCEPT !.base = base, !.hw = new])

(* snd_pcm_do_start: a playback needs data. *)
MayStart(r) == r.state = "prepared" /\ (Playback(r) => Avail(r) < Buffer)
Started(r, state) ==
    IF MayStart(r) THEN [r EXCEPT !.dma = "on", !.state = state] ELSE r

-----------------------------------------------------------------------------
(* snd_pcm_lib_write and snd_pcm_lib_read, from one unlocking to the next. *)

Become(pair) == rt' = pair[1] /\ app' = pair[2]

(* _end_unlock *)
Ends(r, a, failed) ==
    LET quiet == [r EXCEPT !.twake = 0]
    IN  <<IF a.moved > 0 /\ ~failed THEN StateUpdated(quiet) ELSE quiet, Idle>>

(* Mutant: what is written is not limited by the room there is. *)
CopiesAll(r, a) ==
    <<r, [a EXCEPT !.pc = "copy", !.from = r.appl,
              !.frames = Smaller(a.size, Buffer - (r.appl % Buffer))]>>

(* The frames up to the end of the buffer, to be copied without the lock. *)
Copies(r, a) ==
    <<r, [a EXCEPT !.pc = "copy", !.from = r.appl,
              !.frames = Smaller(Smaller(a.size, a.avail),
                                 Buffer - (r.appl % Buffer))]>>

(* wait_for_avail, at the head of its loop *)
Awaits(r, a) ==
    IF Avail(r) >= r.twake THEN Copies(r, [a EXCEPT !.avail = Avail(r)])
    ELSE <<r, [a EXCEPT !.pc = "unlocked", !.avail = 0]>>

Continues(r, a) ==
    CASE a.size = 0 -> Ends(r, a, FALSE)
      [] a.size > 0 /\ a.avail > 0 -> Copies(r, a)
      [] a.size > 0 /\ a.avail = 0 /\ r.state = "draining" /\ ~Playback(r) ->
            Ends(Stopped(r, "setup"), a, FALSE)
      [] OTHER -> Awaits([r EXCEPT !.twake = Smaller(a.size, @)], a)

Transfer ==
    /\ app.pc = "idle"
    /\ rt.state \in {"prepared", "running", "paused"}
                    \cup (IF Playback(rt) THEN {} ELSE {"draining"})
    /\ \E size \in Sizes :
         LET begun == IF Playback(rt) THEN rt ELSE Started(rt, "running")
             woken == [begun EXCEPT !.twake = Period]
             r == IF woken.state = "running" THEN HwPtrUpdated(woken)
                  ELSE woken
         IN  Become(Continues(r, [Idle EXCEPT !.size = size,
                                              !.avail = Avail(r)]))
    /\ UNCHANGED <<ring, control>>

(* snd_pcm_lib_write_transfer, snd_pcm_lib_read_transfer, the stream lock  *)
(* taken again, and the pointer moved from where it was.                   *)
Commit ==
    /\ app.pc = "copy"
    /\ LET appl == app.from + app.frames
           moved == [rt EXCEPT !.appl = IF appl >= Boundary
                                        THEN appl - Boundary ELSE appl]
           full == Playback(rt) /\ Buffer - Avail(moved) >= Buffer
           r == IF full THEN Started(moved, "running") ELSE moved
           a == [app EXCEPT !.size = @ - app.frames,
                            !.moved = @ + app.frames,
                            !.avail = @ - app.frames]
       IN  Become(IF rt.state = "xrun" THEN Ends(rt, app, TRUE)
                  ELSE Continues(r, a))
    /\ ring' = IF ~Playback(rt) THEN ring
               ELSE [i \in DOMAIN ring |->
                       LET k == (i + Buffer - (app.from % Buffer)) % Buffer
                       IN  IF k < app.frames THEN (app.from + k) % Boundary
                           ELSE ring[i]]
    /\ UNCHANGED control

-----------------------------------------------------------------------------
(* snd_schd_timeout, on tsleep for a transfer and on sleep for a drain. *)

Sleeper == IF app.op = "transfer" THEN rt.tsleep ELSE rt.sleep
SetSleeper(s) ==
    rt' = IF app.op = "transfer" THEN [rt EXCEPT !.tsleep = s]
          ELSE [rt EXCEPT !.sleep = s]

Announce ==
    /\ app.pc = "unlocked"
    /\ SetSleeper([Sleeper EXCEPT !.waiting = TRUE])
    /\ app' = [app EXCEPT !.pc = "asleep"]
    /\ UNCHANGED <<ring, control>>

TakeToken ==
    /\ app.pc = "asleep"
    /\ Sleeper.tokens > 0
    /\ SetSleeper([Sleeper EXCEPT !.tokens = @ - 1])
    /\ app' = [app EXCEPT !.pc = "woken", !.late = FALSE]
    /\ UNCHANGED <<ring, control>>

(* The time-out is of ten seconds or more, many periods. *)
TimeOut ==
    /\ app.pc = "asleep"
    /\ Sleeper.tokens = 0 /\ rt.dma # "on"
    /\ app' = [app EXCEPT !.pc = "woken", !.late = TRUE]
    /\ UNCHANGED <<rt, ring, control>>

StopWaiting ==
    /\ app.pc = "woken"
    /\ SetSleeper([Sleeper EXCEPT !.waiting = FALSE])
    /\ app' = [app EXCEPT !.pc = "relock"]
    /\ UNCHANGED <<ring, control>>

(* Mutant: a stream that was dropped is waited for as one that is paused. *)
TransferWaitsOn ==
    /\ app.pc = "relock" /\ app.op = "transfer"
    /\ Become(
         CASE rt.state = "xrun" -> Ends(rt, app, TRUE)
           [] rt.state = "draining" /\ Playback(rt) -> Ends(rt, app, TRUE)
           [] rt.state = "draining" /\ ~Playback(rt) -> Continues(rt, app)
           [] rt.state \in {"paused", "setup"} -> Awaits(rt, app)
           [] rt.state \in {"prepared", "running"} ->
                IF app.late THEN Ends(rt, app, TRUE) ELSE Awaits(rt, app))
    /\ UNCHANGED <<ring, control>>

(* wait_for_avail goes on *)
TransferWakes ==
    /\ app.pc = "relock" /\ app.op = "transfer"
    /\ Become(
         CASE rt.state \in {"xrun", "setup"} -> Ends(rt, app, TRUE)
           [] rt.state = "draining" /\ Playback(rt) -> Ends(rt, app, TRUE)
           [] rt.state = "draining" /\ ~Playback(rt) -> Continues(rt, app)
           [] rt.state = "paused" -> Awaits(rt, app)
           [] rt.state \in {"prepared", "running"} ->
                IF app.late THEN Ends(rt, app, TRUE) ELSE Awaits(rt, app))
    /\ UNCHANGED <<ring, control>>

(* ksnd_pcm_drain.  The task is Idle when it is through. *)
DrainBegins ==
    /\ app.pc = "idle"
    /\ LET state == IF rt.state = "paused" THEN "running" ELSE rt.state
           r == [rt EXCEPT !.state = state,
                           !.dma = IF @ = "paused" THEN "on" ELSE @]
           drained ==
             CASE Playback(r) /\ state = "prepared" ->
                    IF Avail(r) < Buffer THEN Started(r, "draining")
                    ELSE [r EXCEPT !.state = "setup"]
               [] Playback(r) /\ state = "running" ->
                    [r EXCEPT !.state = "draining"]
               [] Playback(r) /\ state = "xrun" -> [r EXCEPT !.state = "setup"]
               [] ~Playback(r) /\ state = "running" ->
                    Stopped(r, IF Avail(r) > 0 THEN "draining" ELSE "setup")
               [] OTHER -> r
       IN  /\ rt' = drained
           /\ app' = IF Playback(r) /\ drained.state = "draining"
                     THEN [Idle EXCEPT !.op = "drain", !.pc = "unlocked"]
                     ELSE Idle
    /\ UNCHANGED <<ring, control>>

DrainWakes ==
    /\ app.pc = "relock" /\ app.op = "drain"
    /\ app' = IF rt.state = "draining" /\ ~app.late
              THEN [app EXCEPT !.pc = "unlocked"] ELSE Idle
    /\ UNCHANGED <<rt, ring, control>>

-----------------------------------------------------------------------------
(* ksnd_pcm_prepare, which the task calls before it writes and after an    *)
(* error: snd_pcm_do_reset of a stream that is not running.                *)
Prepare ==
    /\ app.pc = "idle"
    /\ rt.state \in {"setup", "xrun", "prepared"}
    /\ rt' = [rt EXCEPT !.state = "prepared", !.hw = 0, !.base = 0,
                        !.appl = 0, !.done = 0]
    /\ ring' = [i \in DOMAIN ring |-> Silence]
    /\ UNCHANGED <<app, control>>

(* ksnd_pcm_start *)
Start ==
    /\ app.pc = "idle" /\ MayStart(rt)
    /\ rt' = Started(rt, "running")
    /\ UNCHANGED <<ring, app, control>>

(* snd_pcm_hw_sync, ksnd_pcm_delay *)
HwSync ==
    /\ app.pc = "idle" /\ Running(rt)
    /\ rt' = HwPtrUpdated(rt)
    /\ UNCHANGED <<ring, app, control>>

(* ksnd_pcm_rewind of a playback; frames that are not yet played are       *)
(* written again.                                                          *)
Rewind ==
    /\ app.pc = "idle" /\ Playback(rt)
    /\ rt.state \in {"prepared", "running"}
    /\ LET r == IF Running(rt) THEN HwPtrUpdated(rt) ELSE rt
           queued == Buffer - Avail(r)
       IN  IF r.state = "xrun" \/ queued <= 0 THEN rt' = r
           ELSE \E frames \in Sizes :
                  rt' = [r EXCEPT !.appl = (@ + Boundary
                                  - Smaller(frames, queued)) % Boundary]
    /\ UNCHANGED <<ring, app, control>>

Controls == control > 0 /\ control' = control - 1

(* snd_pcm_paused: the result of the update is not looked at. *)
Pause ==
    /\ Controls
    /\ rt.state = "running"
    /\ LET r == HwPtrUpdated(rt)
       IN  rt' = [r EXCEPT !.dma = IF @ = "on" THEN "paused" ELSE @,
                           !.state = "paused",
                           !.tsleep = Woken(@), !.sleep = Woken(@)]
    /\ UNCHANGED <<ring, app>>

Unpaused(r) ==
    IF r.state # "paused" THEN r
    ELSE [r EXCEPT !.dma = IF @ = "paused" THEN "on" ELSE @,
                   !.state = "running"]

Release ==
    /\ rt.state = "paused"
    /\ rt' = Unpaused(rt)
    /\ UNCHANGED <<ring, app, control>>

(* ksnd_pcm_drop, by either task *)
Drop ==
    /\ \/ Controls
       \/ app.pc = "idle" /\ UNCHANGED control
    /\ rt' = Stopped(Unpaused(rt), "setup")
    /\ UNCHANGED <<ring, app>>

-----------------------------------------------------------------------------
(* The DMA takes a frame from the ring, or puts one there.  An interrupt   *)
(* is taken before the next is raised.                                     *)
DmaStep ==
    /\ rt.dma = "on"
    /\ LET ends == (rt.done + 1) % Period = 0
       IN  /\ ends => ~rt.irq
           /\ rt' = [rt EXCEPT !.done = (@ + 1) % Boundary,
                               !.irq = @ \/ ends]
    /\ ring' = IF Playback(rt) THEN ring
               ELSE [ring EXCEPT ![rt.done % Buffer] = rt.done]
    /\ UNCHANGED <<app, control>>

(* dmaengine_pcm_dma_complete and snd_pcm_period_elapsed, also of a DMA    *)
(* that was stopped meanwhile.                                             *)
PeriodElapsed ==
    /\ rt.irq
    /\ LET r == [rt EXCEPT !.irq = FALSE]
       IN  rt' = IF Running(r) THEN HwPtrUpdated(r) ELSE r
    /\ UNCHANGED <<ring, app, control>>

TaskStep ==
    \/ Commit \/ Announce \/ TakeToken \/ TimeOut \/ StopWaiting
    \/ TransferWakes \/ DrainWakes

Next ==
    \/ Prepare \/ Start \/ Transfer \/ DrainBegins \/ HwSync \/ Rewind
    \/ TaskStep
    \/ Pause \/ Release \/ Drop
    \/ DmaStep \/ PeriodElapsed

(* Who has something to do here: some of it gets done, in whatever order.  *)
SystemStep == TaskStep \/ DmaStep \/ PeriodElapsed

Fairness == WF_vars(SystemStep) /\ WF_vars(Release)

Spec == Init /\ [][Next]_vars /\ Fairness

-----------------------------------------------------------------------------
(* The frames written and not yet played, and those played once more.      *)
Ahead == (rt.appl + Boundary - rt.done) % Boundary
Left == IF Ahead <= Buffer THEN Ahead ELSE 0
Stale == IF Ahead <= Buffer THEN 0 ELSE Boundary - Ahead

(* Hazard: the room in the ring is computed under the lock and used after  *)
(* the copy without it, hw_ptr lags behind the DMA, both wrap at the       *)
(* boundary, and appl_ptr may be taken back.  A frame that has been        *)
(* written and not yet played is in its place.                             *)
NothingOverwritten ==
    Playback(rt) /\ (rt.dma # "off" \/ rt.state = "prepared") =>
        \A i \in 0..Left - 1 :
            ring[(rt.done + i) % Buffer] = (rt.done + i) % Boundary

(* Hazard: hw_ptr is put together from the position in the buffer and a    *)
(* base, at interrupts and from tasks, and wraps twice.  While the DMA     *)
(* works it is behind it by less than two periods.                         *)
HwPtrTracks ==
    rt.dma # "off" => (rt.done + Boundary - rt.hw) % Boundary < 2 * Period

(* Hazard: an underrun is seen at the end of a period only, and not if a   *)
(* task moves appl_ptr just before.  The DMA does not go on for two        *)
(* periods with what it has played already.                                *)
UnderrunStops == rt.dma = "on" /\ Playback(rt) => Stale < 2 * Period

(* Hazard: the state and the DMA are changed by two tasks and the          *)
(* interrupt.  The DMA works only for a stream that runs or drains, and    *)
(* is on hold only for one that is paused.                                 *)
DmaFollowsState ==
    /\ rt.dma = "on" => Running(rt)
    /\ rt.dma = "paused" => rt.state = "paused"

(* Hazard: the drain ends by the same count as an underrun.  A drain that  *)
(* nobody cuts short ends when everything that was written is played.      *)
DrainPlaysAll ==
    [][rt.state = "draining" /\ rt'.state = "setup" /\ rt.dma = "on"
       /\ app.pc # "idle" /\ control' = control => Left = 0]_vars

(* snd_pcm_paused refuses every state but running as an "unsupport state   *)
(* transform": what is paused is a stream that runs.  An underrun that the *)
(* update of hw_ptr has just found is paused too, without its DMA.         *)
PauseHoldsDma == rt.state = "paused" => rt.dma = "paused"

(* Hazard: a wake-up that comes between the unlocking and the mark that    *)
(* somebody waits is lost.  A write, a read or a drain comes to its end,   *)
(* at the latest by its time-out.                                          *)
CallsReturn == []<>(app.pc = "idle")
=============================================================================
