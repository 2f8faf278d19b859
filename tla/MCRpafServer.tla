---------------------------- MODULE MCRpafServer -----------------------------
(* RpafServer with two clients.  A component's commands are restricted to   *)
(* the ones that the properties of a run tell apart. *)
EXTENDS RpafServer

CONSTANTS o1, o2, i1, i2

Clients == {o1, o2}
OneId == {i1}
TwoIds == {i1, i2}

LifeCycle == {"create", "write", "remove", "unknown"}
DumpCycle == LifeCycle \cup {"start", "stop"}

NoFaults == {}
Loud == {"nomem", "unsupported"}
=============================================================================
