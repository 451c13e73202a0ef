------------------------------ MODULE Delivery ------------------------------
(***************************************************************************)
(* What the pipes and the receive thread promise a monitor thread: each    *)
(* channel delivers a subsequence of the messages 1, 2, ... sent on it, in *)
(* order, none twice; the first message is never the one that is lost.     *)
(* A message is sent on a channel only once the channel is open.           *)
(***************************************************************************)
EXTENDS Integers, Sequences

CONSTANT Channels

VARIABLES sent, got

vars == <<sent, got>>

Init ==
  /\ sent = [c \in Channels |-> 0]
  /\ got = [c \in Channels |-> <<>>]

Send(c) ==
  /\ sent' = [sent EXCEPT ![c] = @ + 1]
  /\ UNCHANGED got

Newest(c) == got[c][Len(got[c])]

(* Message m arrives; those between the last one that did and m are lost.  *)
Deliver(c, m) ==
  /\ m \in 1 .. sent[c]
  /\ IF got[c] = <<>> THEN m = 1 ELSE m > Newest(c)
  /\ got' = [got EXCEPT ![c] = Append(@, m)]
  /\ UNCHANGED sent

Next == \E c \in Channels : Send(c) \/ \E m \in 1 .. sent[c] : Deliver(c, m)

Spec == Init /\ [][Next]_vars
=============================================================================
