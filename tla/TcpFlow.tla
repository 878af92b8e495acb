------------------------------- MODULE TcpFlow -------------------------------
(***************************************************************************)
(* A whole flow of src/src/transport.rs: the TcpSender, the path its       *)
(* packets take, the Acker and the path of the acks.                       *)
(*                                                                         *)
(* The topology gives a flow a FIFO data path that can drop (Delay, then a *)
(* drop-tail Link, then Router) and a FIFO ack path that cannot            *)
(* (Aggregator).  Both take any time here: `wire` is the data path.        *)
(***************************************************************************)
EXTENDS TcpSender

CONSTANTS MaxSack,      \* the SACK blocks of an ack: 3 in Acker::push
          MaxLosses     \* bound on the packets the data path drops

ASSUME FlowAssumption == MaxSack \in Nat \ {0} /\ MaxLosses \in Nat

VARIABLES
  acker,        \* Acker::track_rx
  ackPath,      \* acks on their way to the sender, oldest first
  losses        \* packets dropped so far

flowVars == <<senderVars, acker, ackPath, losses>>

-----------------------------------------------------------------------------
FlowInit ==
  /\ SenderInit
  /\ acker = NewTracker /\ ackPath = <<>> /\ losses = 0

(* Fault: everything below the highest packet acked cumulatively. *)
AckOfHighest(t, pkt) ==
  [sentTime |-> pkt.sentTime, cum |-> t.right,
   sack     |-> Sacked(GenerateSack(t, MaxSack))]

(* The ack an acker with the tracker t returns for a packet. *)
AckOf(t, pkt) ==
  [sentTime |-> pkt.sentTime,
   cum      |-> ReceivedTill(t),
   sack     |-> Sacked(GenerateSack(t, MaxSack))]

(* Fault: the ack made before the packet is marked. *)
DeliverAckFirst ==
  /\ ~panicked
  /\ NetworkTakes(1)
  /\ acker' = MarkPkt(acker, Head(wire).seq, Received)
  /\ ackPath' = Append(ackPath, AckOf(acker, Head(wire)))
  /\ UNCHANGED losses

(* Acker::push: every data packet is acked, a duplicate too. *)
Deliver ==
  /\ ~panicked
  /\ NetworkTakes(1)
  /\ acker' = MarkPkt(acker, Head(wire).seq, Received)
  /\ ackPath' = Append(ackPath, AckOf(acker', Head(wire)))
  /\ UNCHANGED losses

(* Link::push with a full buffer. *)
Lose ==
  /\ ~panicked
  /\ losses < MaxLosses
  /\ \E i \in DOMAIN wire : NetworkTakes(i)
  /\ losses' = losses + 1
  /\ UNCHANGED <<acker, ackPath>>

(* Fault: acks overtake each other. *)
ReturnAckReordered ==
  /\ ~panicked
  /\ \E i \in DOMAIN ackPath : /\ HandleAck(ackPath[i])
                               /\ ackPath' = Without(ackPath, i)
  /\ UNCHANGED <<acker, losses>>

ReturnAck ==
  /\ ~panicked
  /\ ackPath # <<>>
  /\ HandleAck(Head(ackPath))
  /\ ackPath' = Tail(ackPath)
  /\ UNCHANGED <<acker, losses>>

RunEvent ==
  /\ ~panicked
  /\ \E e \in pending : HandleEvent(e)
  /\ UNCHANGED <<acker, ackPath, losses>>

(* Fault: the clock moves on while an event is due. *)
TickEarly ==
  /\ ~panicked /\ now < Till /\ now' = now + 1
  /\ UNCHANGED <<nextPkt, trackRx, lastTxTime, lastAckTime, txScheduled, rto, cc,
                 pending, nextUid, wire, panicked, acker, ackPath, losses>>

Tick == ~panicked /\ AdvanceTime /\ UNCHANGED <<acker, ackPath, losses>>

FlowNext == Deliver \/ Lose \/ ReturnAck \/ RunEvent \/ Tick

FlowSpec == FlowInit /\ [][FlowNext]_flowVars

(* The scheduler runs every event that is due, its clock moves on while     *)
(* events are left, and every packet that is not dropped arrives.           *)
FairFlow ==
  /\ FlowSpec
  /\ WF_flowVars(RunEvent) /\ WF_flowVars(Tick)
  /\ WF_flowVars(Deliver)  /\ WF_flowVars(ReturnAck)

-----------------------------------------------------------------------------
(* Safety *)

FlowTypeOK ==
  /\ TrackerSound(acker)
  /\ losses \in 0..MaxLosses
  /\ \A i \in DOMAIN ackPath :
       ackPath[i] \in [sentTime : 0..now, cum : 0..nextPkt, sack : SUBSET Window(0, nextPkt)]

(* The sender believes received only what the acker has received, and the   *)
(* acker has only what was sent, acks still on their way included.          *)
AcksAreTrue ==
  /\ KnownReceived(trackRx) \subseteq KnownReceived(acker)
  /\ KnownReceived(acker) \subseteq Window(0, nextPkt)
  /\ \A i \in DOMAIN ackPath : AckedBy(ackPath[i]) \subseteq KnownReceived(acker)

(* No ack, however late, is behind what the sender knows to be received:    *)
(* `cum_ack - received_till`, which push traces, never underflows.          *)
AcksNeverGoBack ==
  \A i \in DOMAIN ackPath : ackPath[i].cum >= ReceivedTill(trackRx)

(* With no ack on its way, a sender that still listens knows everything the *)
(* acker has received without a gap: the last ack told it.                  *)
CumAckCatchesUp ==
  ackPath = <<>> /\ ~Ended => ReceivedTill(trackRx) = ReceivedTill(acker)

OnWire(q) == \E i \in DOMAIN wire : wire[i].seq = q

(* The packets an ack makes the sender give up by counting dupacks. *)
LostByDupacks ==
  {q \in LostIn(trackRx') \cap Window(trackRx.left, trackRx.right) :
     /\ trackRx.status[q] # Lost
     /\ ackPath # <<>> /\ ackPath' = Tail(ackPath)}

(* Fast retransmit never gives up a packet of which a copy may still arrive *)
(* (the path is FIFO, and packets sent after that copy have arrived);       *)
(* nor, when it was never retransmitted, a packet that did arrive.          *)
FastRetransmitIsNeeded ==
  [][\A q \in LostByDupacks :
       /\ ~OnWire(q)
       /\ trackRx.status[q].st = "NotReceived" => q \notin KnownReceived(acker)]_flowVars

(* What the sender counts as in flight is really somewhere: on the wire or  *)
(* at the acker, unless the network dropped every copy of it; a packet that *)
(* was retransmitted had at least two.                                      *)
InFlightIsSomewhere ==
  LET gone  == {q \in Window(trackRx.left, trackRx.right) :
                  /\ trackRx.status[q] \notin {Received, Lost}
                  /\ ~OnWire(q) /\ q \notin KnownReceived(acker)}
      again == {q \in gone : trackRx.status[q].st = "Retransmitted"}
  IN  Cardinality(gone) + Cardinality(again) <= losses

-----------------------------------------------------------------------------
(* What the comments of the code say *)

(* "A sender which sends a given amount of data": a flow that is not over    *)
(* and knows of a lost packet has its retransmission scheduled, as soon as   *)
(* the window has room for it.                                               *)
LossesRepaired ==
  TxLength.kind = "Bytes" /\ ~Ended /\ trackRx.lost > 0 =>
    txScheduled \/ \E w \in Cwnds : w <= InFlight(nextPkt, trackRx)

-----------------------------------------------------------------------------
(* Liveness *)

(* When the network drops nothing, a flow of a given number of bytes ends.  *)
FlowCompletes == [](losses = 0) => <>Ended
=============================================================================
