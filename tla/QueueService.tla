---------------------------- MODULE QueueService ----------------------------
(***************************************************************************)
(* What a queue of the kernel promises: a bounded sequence of items, to    *)
(* which items are added at one end or the other and from which the first  *)
(* is taken, or only looked at.                                            *)
(***************************************************************************)
EXTENDS Naturals, Sequences

CONSTANTS Item, Length

VARIABLES
    items,         \* the items in the queue
    taken          \* the item that was taken or looked at last

Init == items = <<>> /\ taken \in Item

Add(x) ==
    /\ \/ Len(items) < Length /\ items' \in {Append(items, x), <<x>> \o items}
       \/ Length = 1 /\ items' = <<x>>
    /\ UNCHANGED taken

Take ==
    /\ items # <<>>
    /\ taken' = Head(items)
    /\ items' \in {items, Tail(items)}

Next == Take \/ \E x \in Item : Add(x)

Spec == Init /\ [][Next]_<<items, taken>>
=============================================================================
