---------------------------- MODULE FifoChannel ----------------------------
(***************************************************************************)
(* What one direction of a session promises to the code above it: frames   *)
(* come out in the order they went in, none before its predecessors, and   *)
(* none twice as long as the receiver is steady.  A receiver that was      *)
(* disturbed, by a restart say, may be given frames again, but still skips *)
(* none.  A frame is its position in the sender's order.  The uplink and   *)
(* the downlink are each shown to implement this channel.                  *)
(***************************************************************************)
EXTENDS Integers, Sequences

VARIABLES
  sent,        \* how many frames the sender has handed over
  delivered,   \* the frames the receiver has been given, in order
  steady       \* the receiver has not been disturbed

vars == <<sent, delivered, steady>>

Init ==
  /\ sent = 0
  /\ delivered = <<>>
  /\ steady = TRUE

Send ==
  /\ sent' \in Nat
  /\ sent' > sent
  /\ UNCHANGED <<delivered, steady>>

Disturb ==
  /\ steady
  /\ steady' = FALSE
  /\ UNCHANGED <<sent, delivered>>

\* Every frame was given after all that were sent before it.
InOrder(frames) ==
  \A i \in 1..Len(frames) :
    \A f \in 1..(frames[i] - 1) : \E j \in 1..(i - 1) : frames[j] = f

\* One or more frames are handed on after those before.
Deliver ==
  /\ delivered' \in Seq(Nat)
  /\ Len(delivered') > Len(delivered)
  /\ \A i \in 1..Len(delivered) : delivered'[i] = delivered[i]
  /\ \A i \in 1..Len(delivered') : delivered'[i] \in 1..sent
  /\ InOrder(delivered')
  /\ steady => \A i \in 1..Len(delivered') : delivered'[i] = i
  /\ UNCHANGED <<sent, steady>>

Next == Send \/ Disturb \/ Deliver

Spec == Init /\ [][Next]_vars
=============================================================================
