---------------------------- MODULE MsgboxService ----------------------------
(***************************************************************************)
(* What the message box promises its callers: an endpoint is open or not,  *)
(* a word sent on a channel waits there, and an open endpoint of the       *)
(* channel receives the words in the order they were sent, each once.      *)
(* MsgboxAmp implements it.                                                *)
(***************************************************************************)
EXTENDS Naturals, Sequences

CONSTANTS Endpoint, Channel, ReadCh, FifoDepth, Word

VARIABLES
    open,          \* the open endpoints
    inbox,         \* the words that wait on each channel
    received       \* the words each endpoint has received

serviceVars == <<open, inbox, received>>

ServiceInit ==
    /\ open = {}
    /\ inbox = [c \in Channel |-> <<>>]
    /\ received = [e \in Endpoint |-> <<>>]

Send(c) ==
    /\ Len(inbox[c]) < FifoDepth
    /\ \E word \in Word : inbox' = [inbox EXCEPT ![c] = Append(@, word)]
    /\ UNCHANGED <<open, received>>

Open(e) ==
    /\ e \notin open
    /\ open' = open \cup {e}
    /\ UNCHANGED <<inbox, received>>

Close(e) ==
    /\ e \in open
    /\ open' = open \ {e}
    /\ UNCHANGED <<inbox, received>>

Deliver(e) ==
    /\ inbox[ReadCh[e]] # <<>>
    /\ received' = [received EXCEPT ![e] = Append(@, Head(inbox[ReadCh[e]]))]
    /\ inbox' = [inbox EXCEPT ![ReadCh[e]] = Tail(@)]
    /\ UNCHANGED open

Receive(e) == e \in open /\ Deliver(e)

ServiceNext ==
    \/ \E c \in Channel : Send(c)
    \/ \E e \in Endpoint : Open(e) \/ Close(e) \/ Receive(e)

Service == ServiceInit /\ [][ServiceNext]_serviceVars
=============================================================================
