------------------------------ MODULE LossyFifo ------------------------------
(***************************************************************************)
(* What the network of src/src/base.rs promises one flow: its packets      *)
(* reach the acker in the order they were sent, except those the network   *)
(* dropped, none twice; and every packet that arrives is acked, the acks   *)
(* reaching the sender in the same order with none lost.  TcpFlow gives    *)
(* the TCP sender this network.                                            *)
(***************************************************************************)
EXTENDS Integers, Sequences

VARIABLES
  sent,         \* how many packets the sender has sent
  wire,         \* the packets on their way to the acker, oldest first
  acks          \* the packets whose acks are on their way, oldest first

fifoVars == <<sent, wire, acks>>

Drop(i) ==
  /\ i \in DOMAIN wire
  /\ wire' = SubSeq(wire, 1, i - 1) \o SubSeq(wire, i + 1, Len(wire))
  /\ UNCHANGED <<sent, acks>>

Send ==
  /\ wire' = Append(wire, sent)
  /\ sent' = sent + 1
  /\ UNCHANGED acks

Arrive ==
  /\ wire # <<>>
  /\ wire' = Tail(wire)
  /\ acks' = Append(acks, Head(wire))
  /\ UNCHANGED sent

Acked ==
  /\ acks # <<>>
  /\ acks' = Tail(acks)
  /\ UNCHANGED <<sent, wire>>

FifoInit == sent = 0 /\ wire = <<>> /\ acks = <<>>

FifoNext == Send \/ Arrive \/ Acked \/ \E i \in DOMAIN wire : Drop(i)

FifoSpec == FifoInit /\ [][FifoNext]_fifoVars
=============================================================================
