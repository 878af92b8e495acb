----------------------------- MODULE MCTcpFlow -----------------------------
(* Values for the constants of TcpFlow that a .cfg cannot write. *)
EXTENDS TcpFlow

Bytes(n)     == [kind |-> "Bytes", amount |-> n]
ThreePackets == Bytes(3)
OddBytes     == Bytes(5)
EndlessFlow  == [kind |-> "Infinite", amount |-> 0]
=============================================================================
