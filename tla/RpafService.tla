----------------------------- MODULE RpafService -----------------------------
(***************************************************************************)
(* What the audio server promises the other core: a command handed over in *)
(* a shared object is performed, and answered once it has been performed;  *)
(* until then the object belongs to the server.                            *)
(***************************************************************************)
CONSTANT Object      \* the snd_soc_dsp_component objects in shared memory

VARIABLE status      \* of the command in each object

Init == status = [o \in Object |-> "idle"]

Move(o, from, to) ==
    status[o] = from /\ status' = [status EXCEPT ![o] = to]

Ask(o)     == Move(o, "idle", "asked")
Perform(o) == Move(o, "asked", "done")
Answer(o)  == Move(o, "done", "idle")

Next == \E o \in Object : Ask(o) \/ Perform(o) \/ Answer(o)

Service == Init /\ [][Next]_status
=============================================================================
