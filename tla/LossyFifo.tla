----------------------------- MODULE LossyFifo -----------------------------
(***************************************************************************)
(* What a byte pipe of the daemon promises: the items put into a channel   *)
(* come out in the order they went in, none twice, none invented.  Items   *)
(* may be lost (a pipe whose far end is down drops them).  Item n of a     *)
(* channel is represented by its number n.                                 *)
(***************************************************************************)
EXTENDS Integers, Sequences

CONSTANT Chans         \* the channels

VARIABLES sent,        \* sent[c]: how many items were put into c so far
          got          \* got[c]: the numbers of the items that came out of c

vars == <<sent, got>>

\* q holds numbers of sent items, in the order they were sent, none twice.
InOrder(q, n) ==
    /\ \A i \in 1..Len(q) : q[i] \in 1..n
    /\ \A i, j \in 1..Len(q) : i < j => q[i] < q[j]

\* Nothing that came out is taken back.
Extends(p, q) ==
    /\ Len(p) <= Len(q)
    /\ \A i \in 1..Len(p) : q[i] = p[i]

Init ==
    /\ sent = [c \in Chans |-> 0]
    /\ got = [c \in Chans |-> <<>>]

\* A channel takes items in, hands some out, or both.
ChanStep(c) ==
    /\ sent'[c] >= sent[c]
    /\ Extends(got[c], got'[c])
    /\ InOrder(got'[c], sent'[c])

Next == \A c \in Chans : ChanStep(c)

Spec == Init /\ [][Next]_vars
=============================================================================
