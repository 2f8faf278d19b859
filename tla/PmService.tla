------------------------------ MODULE PmService ------------------------------
(***************************************************************************)
(* What the power management client promises the remote core: every word   *)
(* sent is answered with itself, once and in the order of sending, and the *)
(* processor goes to sleep only after it has answered a Suspend, once for  *)
(* each of them.  A client that could not be built answers nothing.        *)
(***************************************************************************)
EXTENDS Naturals, Sequences

CONSTANTS
    Word,       \* the words the remote core may send
    Suspend     \* PM_DSP_POWER_SUSPEND

VARIABLES
    line,       \* the words sent and not yet answered
    answers,    \* the answers the remote core has not yet read
    power       \* "up", "going" (Suspend answered, not yet asleep), "asleep",
                \* or "failed" (the client could not be built)

vars == <<line, answers, power>>

Init == line = <<>> /\ answers = <<>> /\ power = "up"

Send(w) ==
    /\ line' = Append(line, w)
    /\ UNCHANGED <<answers, power>>

Answer ==
    /\ power = "up"
    /\ line # <<>>
    /\ line' = Tail(line)
    /\ answers' = Append(answers, Head(line))
    /\ power' = IF Head(line) = Suspend THEN "going" ELSE "up"

Read ==
    /\ answers # <<>>
    /\ answers' = Tail(answers)
    /\ UNCHANGED <<line, power>>

Sleep == power = "going" /\ power' = "asleep" /\ UNCHANGED <<line, answers>>

Wake == power = "asleep" /\ power' = "up" /\ UNCHANGED <<line, answers>>

Fail == answers = <<>> /\ power' = "failed" /\ UNCHANGED <<line, answers>>

Lose ==
    /\ power = "failed"
    /\ \E n \in 0..Len(line) : line' = SubSeq(line, 1, n)
    /\ UNCHANGED <<answers, power>>

Next ==
    \/ \E w \in Word : Send(w)
    \/ Answer \/ Read \/ Sleep \/ Wake \/ Fail \/ Lose

Spec == Init /\ [][Next]_vars
=============================================================================
