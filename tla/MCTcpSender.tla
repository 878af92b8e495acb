---------------------------- MODULE MCTcpSender ----------------------------
(* Values for the constants of TcpSender that a .cfg cannot write. *)
EXTENDS TcpSender

TimedFlow == [kind |-> "Duration", amount |-> 3]
=============================================================================
