---------------------------- MODULE TcpFlowProofs ----------------------------
(***************************************************************************)
(* Invariants of TcpFlow, and that it implements the open TcpSender.       *)
(*                                                                         *)
(* The acks that TcpSender takes from its environment are those that cover *)
(* packets already sent and take no cumulative ack back.  FlowInv says     *)
(* that the acks of a receiver on a FIFO path are such.  It is inductive   *)
(* because of PathInOrder: the cumulative ack of an ack on its way is the  *)
(* first packet the receiver misses, so that nothing the sender knows, and *)
(* no earlier ack, covers it.                                              *)
(*                                                                         *)
(* FateInv adds where the copies of each packet in flight are.  The data   *)
(* path is FIFO, so that nothing sent after the last copy of a packet has  *)
(* arrived while that copy is on the wire; the acks come back in order, so *)
(* that the sender hears of a packet before it hears of later ones; and a  *)
(* packet that is nowhere has cost as many losses as it had copies.  It    *)
(* follows that fast retransmit gives up only what did not arrive.         *)
(***************************************************************************)
EXTENDS TcpFlow, TcpSenderProofs

AckType == [sentTime : Nat, cum : Nat, sack : SUBSET Nat]

WireSent ==
  \A i \in DOMAIN wire : wire[i].seq < nextPkt /\ wire[i].sentTime <= now

AckerSound == TrackerSound(acker) /\ acker.right <= nextPkt

PathTrue ==
  /\ ackPath \in Seq(AckType)
  /\ \A i \in DOMAIN ackPath :
       /\ ackPath[i].sentTime <= now /\ ackPath[i].cum <= nextPkt
       /\ AckedBy(ackPath[i]) \subseteq KnownReceived(acker)

PathInOrder ==
  \A i \in DOMAIN ackPath :
    /\ ackPath[i].cum \notin KnownReceived(trackRx)
    /\ \A j \in 1..i : ackPath[i].cum \notin AckedBy(ackPath[j])

LastAckTells ==
  IF ackPath = <<>> THEN ~Ended => trackRx.left = acker.left
  ELSE ackPath[Len(ackPath)].cum = acker.left

FlowInv ==
  /\ SenderInv
  /\ losses \in 0..MaxLosses
  /\ WireSent
  /\ AckerSound
  /\ KnownReceived(trackRx) \subseteq KnownReceived(acker)
  /\ PathTrue
  /\ PathInOrder
  /\ LastAckTells

-----------------------------------------------------------------------------
(* What the acker's tracker says is true of it. *)
LEMMA AckOfTrue ==
  ASSUME NEW t, TrackerSound(t), NEW pkt \in PacketsOnWire
  PROVE  LET ack == AckOf(t, pkt)
         IN  /\ ack \in AckType /\ ack.sentTime = pkt.sentTime /\ ack.cum = t.left
             /\ AckedBy(ack) \subseteq KnownReceived(t)
<1>1. /\ Sacked(GenerateSack(t, MaxSack)) \subseteq ReceivedIn(t)
      /\ t.left \in Nat /\ ReceivedIn(t) \subseteq Nat /\ pkt.sentTime \in Nat
  BY SackedReceived DEF TrackerSound, TrackerType, ReceivedIn, Window, PacketsOnWire
<1> HIDE DEF Sacked
<1>2. AckOf(t, pkt) = [sentTime |-> pkt.sentTime, cum |-> t.left,
                       sack |-> Sacked(GenerateSack(t, MaxSack))]
  BY DEF AckOf, ReceivedTill
<1> QED
  BY <1>1, <1>2 DEF AckType, AckedBy, KnownReceived

(* What FlowInv says of the two trackers and the acks between them. *)
LEMMA FlowFacts ==
  ASSUME FlowInv
  PROVE  /\ TrackerSound(trackRx) /\ TrackerSound(acker)
         /\ nextPkt \in Nat /\ now \in Nat /\ wire \in Seq(PacketsOnWire)
         /\ trackRx.left \in Nat /\ acker.left \in Nat /\ acker.left <= nextPkt
         /\ trackRx.right = nextPkt /\ trackRx.unreported = 0
         /\ KnownReceived(acker) \subseteq Window(0, nextPkt)
         /\ \A i \in DOMAIN ackPath :
              /\ ackPath[i] \in Acks /\ ackPath[i] \in AckType
              /\ ackPath[i] \in [sentTime : 0..now, cum : 0..nextPkt,
                                 sack : SUBSET Window(0, nextPkt)]
              /\ AckedBy(ackPath[i]) \subseteq Window(0, nextPkt)
<1>1. /\ TrackerSound(trackRx) /\ TrackerSound(acker) /\ trackRx.right = nextPkt
      /\ nextPkt \in Nat /\ now \in Nat /\ wire \in Seq(PacketsOnWire)
      /\ acker.right <= nextPkt /\ acker.right \in Nat /\ trackRx.unreported = 0
  BY InvFacts DEF FlowInv, AckerSound, SenderInv, TypeOK, TrackerSound, TrackerType
<1>2. /\ KnownReceived(acker) \subseteq Window(0, nextPkt)
      /\ trackRx.left \in Nat /\ acker.left \in Nat /\ acker.left <= nextPkt
      /\ Window(0, trackRx.left) \subseteq KnownReceived(trackRx)
  BY <1>1, KnownBounds DEF Window
<1>3. ASSUME NEW i \in DOMAIN ackPath
      PROVE  /\ ackPath[i] \in Acks /\ ackPath[i] \in AckType
             /\ ackPath[i] \in [sentTime : 0..now, cum : 0..nextPkt,
                                sack : SUBSET Window(0, nextPkt)]
             /\ AckedBy(ackPath[i]) \subseteq Window(0, nextPkt)
  <2> DEFINE ack == ackPath[i]
  <2>1. /\ ack \in AckType /\ ack.sentTime <= now /\ ack.cum <= nextPkt
        /\ AckedBy(ack) \subseteq KnownReceived(acker)
        /\ ack.cum \notin KnownReceived(trackRx)
    BY DEF FlowInv, PathTrue, PathInOrder
  <2> HIDE DEF ack
  <2>2. AckedBy(ack) \subseteq Window(0, nextPkt) /\ ack.sack \subseteq Window(0, nextPkt)
    BY <1>2, <2>1 DEF AckedBy
  <2>3. ack.cum >= trackRx.left
    BY <1>2, <2>1 DEF AckType, Window
  <2> QED
    BY <1>1, <1>2, <2>1, <2>2, <2>3 DEF AckType, Acks, ReceivedTill, ack
<1> QED
  BY <1>1, <1>2, <1>3

-----------------------------------------------------------------------------
(* The invariant holds at first.                                            *)
LEMMA FlowInitEstablishes == FlowInit => FlowInv
<1> SUFFICES ASSUME FlowInit PROVE FlowInv
  OBVIOUS
<1>1. SenderInit /\ acker = NewTracker /\ ackPath = <<>> /\ losses = 0
  BY DEF FlowInit
<1>2. SenderInv /\ trackRx = NewTracker /\ nextPkt = 0 /\ wire = <<>>
  BY <1>1, InitEstablishes DEF SenderInit
<1>3. WireSent /\ AckerSound
  BY <1>1, <1>2, NewTrackerSound DEF WireSent, AckerSound
<1>4. PathTrue /\ PathInOrder /\ LastAckTells
  BY <1>1, <1>2 DEF PathTrue, PathInOrder, LastAckTells
<1>5. losses \in 0..MaxLosses
  BY <1>1, FlowAssumption
<1> QED
  BY <1>1, <1>2, <1>3, <1>4, <1>5 DEF FlowInv

(* A step of the sender that learns of no packet: a packet may be sent.     *)
LEMMA NothingLearnt ==
  ASSUME FlowInv, SenderInv', UNCHANGED <<acker, ackPath>>, losses' \in 0..MaxLosses,
         KnownReceived(trackRx') = KnownReceived(trackRx), WireSent',
         nextPkt' >= nextPkt, now' >= now, Ended => Ended'
  PROVE  FlowInv'
<1>1. nextPkt' \in Nat /\ now' \in Nat /\ TrackerSound(trackRx')
  BY DEF SenderInv, TypeOK, TrackerMatchesSender
<1>2. TrackerSound(trackRx) /\ nextPkt \in Nat /\ now \in Nat /\ acker.right \in Nat
  BY FlowFacts DEF TrackerSound, TrackerType
<1>3. trackRx'.left = trackRx.left
  <2>1. trackRx'.left <= trackRx.left /\ trackRx.left <= trackRx'.left
    BY <1>1, <1>2, LeftIsFirstGap
  <2>2. trackRx'.left \in Nat /\ trackRx.left \in Nat
    BY <1>1, <1>2, KnownBounds
  <2> QED
    BY <2>1, <2>2
<1>4. AckerSound'
  BY <1>1, <1>2 DEF FlowInv, AckerSound
<1>5. PathTrue'
  <2>1. ASSUME NEW i \in DOMAIN ackPath
        PROVE  /\ ackPath[i].sentTime <= now' /\ ackPath[i].cum <= nextPkt'
    <3>1. /\ ackPath[i].sentTime \in Nat /\ ackPath[i].cum \in Nat
          /\ ackPath[i].sentTime <= now /\ ackPath[i].cum <= nextPkt
      BY FlowFacts DEF AckType, FlowInv, PathTrue
    <3> QED
      BY <1>1, <1>2, <3>1
  <2> QED
    BY <2>1 DEF FlowInv, PathTrue, AckedBy
<1>6. PathInOrder'
  BY DEF FlowInv, PathInOrder, AckedBy
<1>7. LastAckTells'
  BY <1>3 DEF FlowInv, LastAckTells
<1> QED
  BY <1>4, <1>5, <1>6, <1>7 DEF FlowInv

(* Every step of a flow is one the open sender may take. *)
LEMMA FlowStepIsSenderStep == FlowInv /\ [FlowNext]_flowVars => [SenderNext]_senderVars
<1> SUFFICES ASSUME FlowInv, [FlowNext]_flowVars PROVE [SenderNext]_senderVars
  OBVIOUS
<1>1. CASE Deliver
  BY <1>1 DEF Deliver, NetworkTakes, SenderNext
<1>2. CASE Lose
  BY <1>2 DEF Lose, SenderNext
<1>3. CASE ReturnAck
  <2>1. ackPath # <<>> /\ HandleAck(Head(ackPath)) /\ ~panicked
    BY <1>3 DEF ReturnAck
  <2>2. 1 \in DOMAIN ackPath /\ Head(ackPath) = ackPath[1]
    BY <2>1 DEF FlowInv, PathTrue
  <2>3. Head(ackPath) \in Acks
    BY <2>2, FlowFacts
  <2> QED
    BY <2>1, <2>3 DEF SenderNext
<1>4. CASE RunEvent
  BY <1>4 DEF RunEvent, SenderNext
<1>5. CASE Tick
  BY <1>5 DEF Tick, SenderNext
<1>6. CASE UNCHANGED flowVars
  BY <1>6 DEF flowVars, senderVars
<1> QED
  BY <1>1, <1>2, <1>3, <1>4, <1>5, <1>6 DEF FlowNext

(* What an event or the clock leaves: nothing is learnt of any packet, and  *)
(* what is on the wire was sent.                                            *)
LEMMA EventLearnsNothing ==
  ASSUME FlowInv, SenderInv', NEW e \in pending, HandleEvent(e)
  PROVE  /\ KnownReceived(trackRx') = KnownReceived(trackRx) /\ WireSent'
         /\ nextPkt' >= nextPkt /\ now' = now /\ (Ended => Ended')
<1>1. /\ TrackerSound(trackRx) /\ nextPkt \in Nat /\ now \in Nat
      /\ wire \in Seq(PacketsOnWire) /\ trackRx.right = nextPkt
  BY FlowFacts
<1>2. ASSUME UNCHANGED <<trackRx, nextPkt, now, wire>>
      PROVE  /\ KnownReceived(trackRx') = KnownReceived(trackRx) /\ WireSent'
             /\ nextPkt' >= nextPkt /\ now' = now /\ (Ended => Ended')
  BY <1>1, <1>2 DEF FlowInv, WireSent, Ended, HasEnded, PastDuration, Covers, ReceivedTill
<1>3. ASSUME NEW seq, wire' = Append(wire, [seq |-> seq, sentTime |-> now]),
             seq \in Nat, seq < nextPkt', nextPkt' \in Nat, nextPkt' >= nextPkt, now' = now
      PROVE  WireSent'
  <2> DEFINE pkt == [seq |-> seq, sentTime |-> now]
  <2>1. pkt \in PacketsOnWire
    BY <1>1, <1>3 DEF PacketsOnWire
  <2>2. /\ DOMAIN wire' = 1..(Len(wire) + 1) /\ wire'[Len(wire) + 1] = pkt
        /\ \A i \in 1..Len(wire) : wire'[i] = wire[i]
    BY <1>1, <1>3, <2>1
  <2>3. \A i \in 1..Len(wire) : wire[i].seq < nextPkt' /\ wire[i].sentTime <= now'
    <3>1. \A i \in 1..Len(wire) : wire[i] \in PacketsOnWire
      BY <1>1
    <3>2. \A i \in 1..Len(wire) : wire[i].seq < nextPkt /\ wire[i].sentTime <= now
      BY <1>1 DEF FlowInv, WireSent
    <3> QED
      BY <1>1, <1>3, <3>1, <3>2 DEF PacketsOnWire
  <2> QED
    BY <1>1, <1>3, <2>2, <2>3 DEF WireSent
<1>4. CASE EventAfterEnd(e)
  BY <1>2, <1>4 DEF EventAfterEnd
<1>5. CASE TimeoutStale(e)
  BY <1>2, <1>5 DEF TimeoutStale
<1>6. CASE TimeoutFires(e)
  <2>1. /\ trackRx' = MarkAllAsLost(trackRx) /\ ~Ended
        /\ UNCHANGED <<nextPkt, now, wire>>
    BY <1>6 DEF TimeoutFires, Ended
  <2> QED
    BY <1>1, <2>1, MarkAllAsLostKnown DEF FlowInv, WireSent
<1>7. CASE Retransmit(e)
  <2> DEFINE seq == FirstLost(trackRx)
  <2>1. /\ trackRx.lost > 0 /\ nextPkt' = nextPkt /\ now' = now /\ ~Ended
        /\ trackRx' = MarkPkt(trackRx, seq, Retransmitted(0, nextPkt))
        /\ wire' = Append(wire, [seq |-> seq, sentTime |-> now])
    BY <1>7 DEF Retransmit, Send, Ended
  <2>2. seq \in LostIn(trackRx)
    BY <1>1, <2>1, FirstLostFound
  <2>3. trackRx.left \in Nat
    BY <1>1 DEF TrackerSound, TrackerType
  <2>4. seq \in Nat /\ seq < nextPkt /\ seq \notin KnownReceived(trackRx)
    BY <1>1, <2>2, <2>3, StatusesDistinct DEF LostIn, KnownReceived, ReceivedIn, Window
  <2>5. KnownReceived(trackRx') = KnownReceived(trackRx)
    BY <1>1, <2>1, <2>4, MarkPktKnown, StatusesDistinct
  <2> HIDE DEF seq
  <2> QED
    BY <1>1, <1>3, <2>1, <2>4, <2>5
<1>8. CASE TransmitFresh(e)
  <2>1. /\ nextPkt' = nextPkt + 1 /\ now' = now /\ ~Ended
        /\ trackRx' = MarkPkt(trackRx, nextPkt, NotReceived(0))
        /\ wire' = Append(wire, [seq |-> nextPkt, sentTime |-> now])
    BY <1>8 DEF TransmitFresh, Send, Ended
  <2>2. nextPkt \notin KnownReceived(trackRx)
    BY <1>1, KnownBounds DEF Window
  <2>3. KnownReceived(trackRx') = KnownReceived(trackRx)
    BY <1>1, <2>1, <2>2, MarkPktKnown, StatusesDistinct
  <2> QED
    BY <1>1, <1>3, <2>1, <2>3
<1> QED
  BY <1>4, <1>5, <1>6, <1>7, <1>8 DEF HandleEvent

(* The arrival of a packet: its ack is the newest on the path and tells the *)
(* first gap.                                                               *)
LEMMA DeliverPreserves ==
  ASSUME FlowInv, SenderInv', Deliver
  PROVE  FlowInv'
<1> DEFINE pkt == Head(wire)
           ack == AckOf(acker', pkt)
           n   == Len(ackPath)
<1>1. /\ TrackerSound(trackRx) /\ TrackerSound(acker) /\ nextPkt \in Nat /\ now \in Nat
      /\ wire \in Seq(PacketsOnWire) /\ ackPath \in Seq(AckType) /\ acker.right <= nextPkt
      /\ \A i \in DOMAIN ackPath : ackPath[i] \in AckType
  BY FlowFacts DEF FlowInv, PathTrue, AckerSound
<1>2. /\ 1 \in DOMAIN wire /\ wire' = Without(wire, 1) /\ losses' = losses
      /\ UNCHANGED <<now, nextPkt, trackRx>>
      /\ acker' = MarkPkt(acker, pkt.seq, Received) /\ ackPath' = Append(ackPath, ack)
  BY DEF Deliver, NetworkTakes
<1>3. /\ pkt \in PacketsOnWire /\ pkt.seq \in Nat /\ pkt.seq < nextPkt /\ pkt.sentTime <= now
  <2>1. pkt = wire[1] /\ wire[1] \in PacketsOnWire
    BY <1>1, <1>2
  <2> QED
    BY <1>2, <2>1 DEF FlowInv, WireSent, PacketsOnWire
<1>4. AckerSound' /\ TrackerSound(acker')
  <2>1. /\ TrackerSound(acker')
        /\ acker'.right = IF pkt.seq < acker.right THEN acker.right ELSE pkt.seq + 1
    BY <1>1, <1>2, <1>3, MarkPktSound, StatusesDistinct
  <2> QED
    BY <1>1, <1>2, <1>3, <2>1 DEF AckerSound
<1>5. KnownReceived(acker') = KnownReceived(acker) \cup {pkt.seq}
  BY <1>1, <1>2, <1>3, MarkPktKnown, StatusesDistinct
<1>6. /\ ack \in AckType /\ ack.sentTime = pkt.sentTime /\ ack.cum = acker'.left
      /\ AckedBy(ack) \subseteq KnownReceived(acker')
  BY <1>3, <1>4, AckOfTrue
<1>7. /\ acker'.left \in Nat /\ acker'.left <= nextPkt
      /\ acker'.left \notin KnownReceived(acker')
  <2>1. /\ acker'.left \in Nat /\ acker'.left <= acker'.right
        /\ acker'.left \notin KnownReceived(acker')
    BY <1>4, KnownBounds
  <2>2. acker'.right \in Nat /\ acker'.right <= nextPkt
    BY <1>2, <1>4 DEF AckerSound, TrackerSound, TrackerType
  <2> QED
    BY <1>1, <2>1, <2>2
<1> HIDE DEF ack, pkt
<1>8. /\ n \in Nat /\ ackPath' \in Seq(AckType) /\ ackPath' # <<>>
      /\ DOMAIN ackPath' = 1..(n + 1) /\ Len(ackPath') = n + 1
      /\ ackPath'[n + 1] = ack /\ \A i \in 1..n : ackPath'[i] = ackPath[i]
      /\ DOMAIN ackPath = 1..n
  BY <1>1, <1>2, <1>6, AppendProperties
<1>9. WireSent'
  <2>1. /\ DOMAIN wire' = 1..(Len(wire) - 1) /\ Len(wire') = Len(wire) - 1
        /\ \A j \in 1..(Len(wire) - 1) : wire'[j] = wire[IF j < 1 THEN j ELSE j + 1]
    BY <1>1, <1>2, WithoutKeeps
  <2>2. Len(wire) \in Nat
    BY <1>1, LenProperties
  <2>3. ASSUME NEW j \in 1..(Len(wire) - 1)
        PROVE  wire'[j].seq < nextPkt /\ wire'[j].sentTime <= now
    <3>1. wire'[j] = wire[IF j < 1 THEN j ELSE j + 1]
      BY <2>1
    <3>2. j + 1 \in DOMAIN wire /\ ~(j < 1)
      BY <1>1, <2>2, LenProperties
    <3> QED
      BY <3>1, <3>2 DEF FlowInv, WireSent
  <2> QED
    BY <1>2, <2>1, <2>3 DEF WireSent
<1>10. PathTrue'
  <2>1. ASSUME NEW i \in 1..(n + 1)
        PROVE  /\ ackPath'[i].sentTime <= now' /\ ackPath'[i].cum <= nextPkt'
               /\ AckedBy(ackPath'[i]) \subseteq KnownReceived(acker')
    <3>1. CASE i = n + 1
      BY <1>2, <1>3, <1>6, <1>7, <1>8, <3>1
    <3>2. CASE i \in 1..n
      BY <1>2, <1>5, <1>8, <3>2 DEF FlowInv, PathTrue
    <3> QED
      BY <1>8, <3>1, <3>2
  <2> QED
    BY <1>8, <2>1 DEF PathTrue, AckedBy
<1>11. PathInOrder'
  <2>1. ASSUME NEW i \in 1..(n + 1)
        PROVE  /\ ackPath'[i].cum \notin KnownReceived(trackRx')
               /\ \A j \in 1..i : ackPath'[i].cum \notin AckedBy(ackPath'[j])
    <3>1. CASE i = n + 1
      <4>1. ack.cum \notin KnownReceived(trackRx')
        BY <1>2, <1>5, <1>6, <1>7 DEF FlowInv
      <4>2. \A j \in 1..n : ack.cum \notin AckedBy(ackPath[j])
        BY <1>5, <1>6, <1>7, <1>8 DEF FlowInv, PathTrue
      <4>3. ack.cum \notin AckedBy(ack)
        BY <1>6, <1>7
      <4> QED
        BY <1>8, <3>1, <4>1, <4>2, <4>3
    <3>2. CASE i \in 1..n
      BY <1>2, <1>8, <3>2 DEF FlowInv, PathInOrder
    <3> QED
      BY <1>8, <3>1, <3>2
  <2> QED
    BY <1>8, <2>1 DEF PathInOrder, AckedBy
<1>12. LastAckTells'
  BY <1>6, <1>8 DEF LastAckTells
<1>13. KnownReceived(trackRx') \subseteq KnownReceived(acker')
  BY <1>2, <1>5 DEF FlowInv
<1> QED
  BY <1>2, <1>4, <1>9, <1>10, <1>11, <1>12, <1>13 DEF FlowInv

(* The return of an ack: the sender then knows what it covers, and what the *)
(* acks behind it tell is still ahead of what the sender knows.             *)
LEMMA ReturnPreserves ==
  ASSUME FlowInv, SenderInv', ReturnAck
  PROVE  FlowInv'
<1> DEFINE ack == Head(ackPath)
           n   == Len(ackPath)
<1>1. /\ TrackerSound(trackRx) /\ TrackerSound(acker) /\ nextPkt \in Nat /\ now \in Nat
      /\ ackPath \in Seq(AckType) /\ trackRx.right = nextPkt
      /\ trackRx.left \in Nat /\ acker.left \in Nat
      /\ \A i \in DOMAIN ackPath : /\ ackPath[i] \in AckType
                                   /\ AckedBy(ackPath[i]) \subseteq Window(0, nextPkt)
  BY FlowFacts DEF FlowInv, PathTrue
<1>2. /\ ackPath # <<>> /\ ackPath' = Tail(ackPath) /\ HandleAck(ack)
      /\ UNCHANGED <<acker, losses>>
  BY DEF ReturnAck
<1>3. /\ n \in Nat /\ n > 0 /\ DOMAIN ackPath = 1..n /\ ack = ackPath[1] /\ 1 \in 1..n
      /\ ackPath' \in Seq(AckType) /\ Len(ackPath') = n - 1 /\ DOMAIN ackPath' = 1..(n - 1)
      /\ \A i \in 1..(n - 1) : ackPath'[i] = ackPath[i + 1]
  BY <1>1, <1>2, HeadTailProperties
<1> HIDE DEF ack
<1>4. /\ ack \in AckType /\ AckedBy(ack) \subseteq Window(0, nextPkt)
      /\ AckedBy(ack) \subseteq KnownReceived(acker)
  BY <1>1, <1>3 DEF FlowInv, PathTrue
<1>5. /\ UNCHANGED <<now, nextPkt, wire>>
      /\ \/ trackRx' = trackRx /\ (Ended \/ ack.cum = 0)
         \/ trackRx' = Reported(MarkAcked(trackRx, AckedBy(ack)))
  BY <1>2 DEF HandleAck, IgnoreAck, PushAck, AckPanics, senderVars, Ended
<1>6. KnownReceived(trackRx') \in {KnownReceived(trackRx), KnownReceived(trackRx) \cup AckedBy(ack)}
  <2>1. AckedBy(ack) \in SUBSET Window(0, trackRx.right) /\ AckedBy(ack) \in SUBSET Nat
    BY <1>1, <1>4 DEF Window
  <2>2. TrackerSound(MarkAcked(trackRx, AckedBy(ack)))
    BY <1>1, <2>1, MarkAckedSound
  <2>3. /\ KnownReceived(Reported(MarkAcked(trackRx, AckedBy(ack))))
              = KnownReceived(MarkAcked(trackRx, AckedBy(ack)))
        /\ KnownReceived(MarkAcked(trackRx, AckedBy(ack))) = KnownReceived(trackRx) \cup AckedBy(ack)
    BY <1>1, <2>1, <2>2, ReportedKnown, MarkAckedKnown
  <2> QED
    BY <1>5, <2>3
<1>7. KnownReceived(trackRx') \subseteq KnownReceived(acker')
  BY <1>2, <1>4, <1>6 DEF FlowInv
<1>8. WireSent' /\ AckerSound'
  BY <1>2, <1>5 DEF FlowInv, WireSent, AckerSound
<1>9. PathTrue'
  <2>1. ASSUME NEW i \in 1..(n - 1)
        PROVE  /\ ackPath'[i].sentTime <= now' /\ ackPath'[i].cum <= nextPkt'
               /\ AckedBy(ackPath'[i]) \subseteq KnownReceived(acker')
    <3>1. i + 1 \in 1..n /\ ackPath'[i] = ackPath[i + 1]
      BY <1>3
    <3> QED
      BY <1>2, <1>3, <1>5, <3>1 DEF FlowInv, PathTrue
  <2> QED
    BY <1>3, <2>1 DEF PathTrue, AckedBy
<1>10. PathInOrder'
  <2>1. ASSUME NEW i \in 1..(n - 1)
        PROVE  /\ ackPath'[i].cum \notin KnownReceived(trackRx')
               /\ \A j \in 1..i : ackPath'[i].cum \notin AckedBy(ackPath'[j])
    <3>1. i + 1 \in 1..n /\ 1 \in 1..(i + 1) /\ ackPath'[i] = ackPath[i + 1]
      BY <1>3
    <3>2. /\ ackPath[i + 1].cum \notin KnownReceived(trackRx)
          /\ \A j \in 1..(i + 1) : ackPath[i + 1].cum \notin AckedBy(ackPath[j])
      BY <1>3, <3>1 DEF FlowInv, PathInOrder
    <3>3. ASSUME NEW j \in 1..i
          PROVE  ackPath'[i].cum \notin AckedBy(ackPath'[j])
      <4>1. j + 1 \in 1..(i + 1) /\ ackPath'[j] = ackPath[j + 1]
        BY <1>3
      <4> QED
        BY <3>1, <3>2, <4>1
    <3> QED
      BY <1>3, <1>6, <3>1, <3>2, <3>3
  <2> QED
    BY <1>3, <2>1 DEF PathInOrder, AckedBy
<1>11. LastAckTells'
  <2>1. CASE n = 1
    <3>1. ackPath' = <<>> /\ ack.cum = acker.left
      BY <1>1, <1>2, <1>3, <2>1 DEF FlowInv, LastAckTells
    <3>2. CASE trackRx' = trackRx /\ Ended
      BY <1>5, <3>1, <3>2
         DEF LastAckTells, Ended, HasEnded, PastDuration, Covers, ReceivedTill
    <3>3. CASE trackRx' = trackRx /\ ack.cum = 0
      <4>1. trackRx.left <= acker.left
        BY <1>1, LeftIsFirstGap DEF FlowInv
      <4> QED
        BY <1>1, <1>2, <3>1, <3>3, <4>1 DEF LastAckTells
    <3>4. CASE trackRx' = Reported(MarkAcked(trackRx, AckedBy(ack)))
      <4>1. AckedBy(ack) \subseteq KnownReceived(trackRx')
        <5>1. AckedBy(ack) \in SUBSET Window(0, trackRx.right) /\ AckedBy(ack) \in SUBSET Nat
          BY <1>1, <1>4 DEF Window
        <5>2. TrackerSound(MarkAcked(trackRx, AckedBy(ack)))
          BY <1>1, <5>1, MarkAckedSound
        <5> QED
          BY <1>1, <3>4, <5>1, <5>2, ReportedKnown, MarkAckedKnown
      <4>2. TrackerSound(trackRx')
        BY DEF SenderInv, TrackerMatchesSender
      <4>3. trackRx'.left \in Nat /\ trackRx'.left \notin Window(0, acker.left)
        BY <3>1, <4>1, <4>2, KnownBounds DEF AckedBy
      <4>4. trackRx'.left <= acker.left
        BY <1>1, <1>2, <1>7, <4>2, LeftIsFirstGap
      <4>5. trackRx'.left = acker.left
        BY <1>1, <4>3, <4>4 DEF Window
      <4> QED
        BY <1>2, <3>1, <4>5 DEF LastAckTells
    <3> QED
      BY <1>5, <3>2, <3>3, <3>4
  <2>2. CASE n # 1
    <3>1. n - 1 \in 1..(n - 1) /\ ackPath'[n - 1] = ackPath[n] /\ ackPath' # <<>>
      BY <1>3, <2>2
    <3>2. ackPath[n].cum = acker.left
      BY <1>2 DEF FlowInv, LastAckTells
    <3> QED
      BY <1>2, <1>3, <3>1, <3>2 DEF LastAckTells
  <2> QED
    BY <2>1, <2>2
<1> QED
  BY <1>2, <1>7, <1>8, <1>9, <1>10, <1>11 DEF FlowInv

-----------------------------------------------------------------------------
(* Every step keeps the invariant.                                          *)
LEMMA FlowStepPreserves == FlowInv /\ [FlowNext]_flowVars => FlowInv'
<1> SUFFICES ASSUME FlowInv, [FlowNext]_flowVars PROVE FlowInv'
  OBVIOUS
<1>1. SenderInv'
  BY FlowStepIsSenderStep, StepPreserves DEF FlowInv
<1>2. /\ nextPkt \in Nat /\ now \in Nat /\ wire \in Seq(PacketsOnWire) /\ losses \in 0..MaxLosses
  BY FlowFacts DEF FlowInv
<1>3. CASE Deliver
  BY <1>1, <1>3, DeliverPreserves
<1>4. CASE Lose
  <2>1. /\ losses < MaxLosses /\ losses' = losses + 1 /\ UNCHANGED <<acker, ackPath>>
        /\ UNCHANGED <<now, nextPkt, trackRx>>
    BY <1>4 DEF Lose, NetworkTakes
  <2>2. PICK i \in DOMAIN wire : wire' = Without(wire, i)
    BY <1>4 DEF Lose, NetworkTakes
  <2>3. WireSent'
    <3>1. /\ DOMAIN wire' = 1..(Len(wire) - 1) /\ Len(wire') = Len(wire) - 1
          /\ \A j \in 1..(Len(wire) - 1) : wire'[j] = wire[IF j < i THEN j ELSE j + 1]
      BY <1>2, <2>2, WithoutKeeps
    <3> QED
      BY <1>2, <2>1, <3>1 DEF FlowInv, WireSent
  <2>4. losses' \in 0..MaxLosses
    BY <1>2, <2>1, FlowAssumption
  <2>5. Ended => Ended'
    BY <2>1 DEF Ended, HasEnded, PastDuration, Covers, ReceivedTill
  <2> QED
    BY <1>1, <1>2, <2>1, <2>3, <2>4, <2>5, NothingLearnt
<1>5. CASE ReturnAck
  BY <1>1, <1>5, ReturnPreserves
<1>6. CASE RunEvent
  <2>1. PICK e \in pending : HandleEvent(e)
    BY <1>6 DEF RunEvent
  <2> QED
    BY <1>1, <1>2, <1>6, <2>1, EventLearnsNothing, NothingLearnt DEF RunEvent
<1>7. CASE Tick
  <2>1. now' = now + 1 /\ UNCHANGED <<acker, ackPath, losses, nextPkt, trackRx, wire>>
    BY <1>7 DEF Tick, AdvanceTime
  <2>2. WireSent'
    <3>1. \A i \in DOMAIN wire : wire[i].seq < nextPkt /\ wire[i].sentTime <= now
      BY DEF FlowInv, WireSent
    <3>2. ASSUME NEW i \in DOMAIN wire
          PROVE  wire[i].sentTime \in Nat
      <4>1. wire[i] \in PacketsOnWire
        BY <1>2
      <4> QED
        BY <4>1 DEF PacketsOnWire
    <3> QED
      BY <1>2, <2>1, <3>1, <3>2 DEF WireSent
  <2>3. Ended => Ended'
    BY <1>2, <2>1, SenderAssumption DEF Ended, HasEnded, PastDuration, Covers, ReceivedTill
  <2> QED
    BY <1>1, <1>2, <2>1, <2>2, <2>3, NothingLearnt
<1>8. CASE UNCHANGED flowVars
  <2>1. UNCHANGED <<now, acker, ackPath, losses, nextPkt, trackRx, wire>>
    BY <1>8 DEF flowVars, senderVars
  <2>2. WireSent' /\ (Ended => Ended')
    BY <2>1 DEF FlowInv, WireSent, Ended, HasEnded, PastDuration, Covers, ReceivedTill
  <2> QED
    BY <1>1, <1>2, <2>1, <2>2, NothingLearnt
<1> QED
  BY <1>3, <1>4, <1>5, <1>6, <1>7, <1>8 DEF FlowNext

(* What is true of the acker, the paths and the sender together, in every    *)
(* reachable state of a flow.                                                *)
THEOREM FlowInvariant == FlowSpec => []FlowInv
BY FlowInitEstablishes, FlowStepPreserves, PTL DEF FlowSpec

(* A sender in a flow does nothing that the open sender, with its arbitrary *)
(* acks, cannot do: what is proved of TcpSender holds of every flow.        *)
THEOREM FlowImplementsSender == FlowSpec => SenderSpec
<1>1. FlowInit => SenderInit
  BY DEF FlowInit
<1> QED
  BY <1>1, FlowInvariant, FlowStepIsSenderStep, PTL DEF FlowSpec, SenderSpec

(* Losses are bounded, and every ack is one of packets the sender has sent. *)
THEOREM FlowTypeCorrect == FlowSpec => []FlowTypeOK
<1>1. FlowInv => FlowTypeOK
  <2> SUFFICES ASSUME FlowInv PROVE FlowTypeOK
    OBVIOUS
  <2> QED
    BY FlowFacts DEF FlowInv, FlowTypeOK
<1> QED
  BY <1>1, FlowInvariant, PTL

(* The sender believes received only what the acker received, the acker has *)
(* only what was sent, and so say all acks on their way.                    *)
THEOREM AcksAlwaysTrue == FlowSpec => []AcksAreTrue
<1>1. FlowInv => AcksAreTrue
  <2> SUFFICES ASSUME FlowInv PROVE AcksAreTrue
    OBVIOUS
  <2> QED
    BY FlowFacts DEF FlowInv, PathTrue, AcksAreTrue
<1> QED
  BY <1>1, FlowInvariant, PTL

(* No ack is behind what the sender knows: the subtraction that push traces *)
(* never underflows.                                                        *)
THEOREM AcksNeverBehind == FlowSpec => []AcksNeverGoBack
<1>1. FlowInv => AcksNeverGoBack
  <2> SUFFICES ASSUME FlowInv PROVE AcksNeverGoBack
    OBVIOUS
  <2> QED
    BY FlowFacts DEF Acks, AcksNeverGoBack, ReceivedTill
<1> QED
  BY <1>1, FlowInvariant, PTL

(* When no ack is on its way, the sender knows all that arrived in order.   *)
THEOREM CumAckAlwaysCatchesUp == FlowSpec => []CumAckCatchesUp
<1>1. FlowInv => CumAckCatchesUp
  BY DEF FlowInv, LastAckTells, CumAckCatchesUp, ReceivedTill
<1> QED
  BY <1>1, FlowInvariant, PTL

-----------------------------------------------------------------------------
(***************************************************************************)
(* Where the packets in flight are.                                        *)
(***************************************************************************)
Flies(w, q) == \E i \in DOMAIN w : w[i].seq = q

Twice(w, q) == \E i, j \in DOMAIN w : i # j /\ w[i].seq = q /\ w[j].seq = q

Before(w, q, p) == \A i, j \in DOMAIN w : w[i].seq = q /\ w[j].seq = p => i < j

(* The path is FIFO: what was sent after the last copy of a packet has not  *)
(* arrived while a copy is on the wire.                                     *)
SentBefore(t, w, a, n) ==
  \A q \in Window(t.left, t.right), p \in Window(0, n) :
    Undecided(t.status, q) /\ p > MarkOf(t.status[q], q) =>
      Before(w, q, p) /\ (Flies(w, q) => p \notin KnownReceived(a))

(* The acker has a packet that was sent once: an ack that says so is on its *)
(* way, and comes before any that tells of later packets.                   *)
Tells(path, q) ==
  /\ \E j \in DOMAIN path : q \in AckedBy(path[j])
  /\ \A i \in DOMAIN path : \A p \in AckedBy(path[i]) :
       p > q => \E j \in 1..i : q \in AckedBy(path[j])

ArrivalsTold(t, a, path) ==
  \A q \in Window(t.left, t.right) :
    t.status[q].st = "NotReceived" /\ q \in KnownReceived(a) => Tells(path, q)

(* Every packet that is nowhere costs a loss, and two if it was sent twice; *)
(* one that was sent twice and is on the wire once has cost one.            *)
Missing(t, a) == Window(t.left, t.right) \ KnownReceived(a)

SentAgain(t, q) == t.status[q].st = "Retransmitted"

LostOnce(t, w, a) ==
  {q \in Missing(t, a) : ~Flies(w, q) \/ (SentAgain(t, q) /\ ~Twice(w, q))}

LostTwice(t, w, a) == {q \in Missing(t, a) : ~Flies(w, q) /\ SentAgain(t, q)}

FateInv ==
  /\ SentBefore(trackRx, wire, acker, nextPkt)
  /\ ~Ended /\ ~panicked => ArrivalsTold(trackRx, acker, ackPath)
  /\ Cardinality(LostOnce(trackRx, wire, acker))
       + Cardinality(LostTwice(trackRx, wire, acker)) <= losses

-----------------------------------------------------------------------------
(* The wire *)

(* A packet that is sent is the last on the wire. *)
LEMMA SentLast ==
  ASSUME NEW w \in Seq(PacketsOnWire), NEW pkt \in PacketsOnWire, NEW v, v = Append(w, pkt),
         NEW q
  PROVE  /\ Flies(v, q) <=> Flies(w, q) \/ pkt.seq = q
         /\ Twice(w, q) \/ (Flies(w, q) /\ pkt.seq = q) => Twice(v, q)
         /\ \A p : Before(w, q, p) /\ pkt.seq # q => Before(v, q, p)
<1>1. /\ Len(w) \in Nat /\ DOMAIN w = 1..Len(w) /\ DOMAIN v = 1..(Len(w) + 1)
      /\ v[Len(w) + 1] = pkt /\ \A i \in 1..Len(w) : v[i] = w[i]
  BY AppendProperties
<1> DEFINE n == Len(w)
<1> HIDE DEF n
<1>2. /\ n \in Nat /\ DOMAIN w = 1..n /\ DOMAIN v = 1..(n + 1)
      /\ v[n + 1] = pkt /\ \A i \in 1..n : v[i] = w[i]
  BY <1>1 DEF n
<1>3. Flies(v, q) <=> Flies(w, q) \/ pkt.seq = q
  BY ONLY <1>2 DEF Flies
<1>4. Twice(w, q) => Twice(v, q)
  BY ONLY <1>2 DEF Twice
<1>5. Flies(w, q) /\ pkt.seq = q => Twice(v, q)
  <2> SUFFICES ASSUME NEW i \in 1..n, w[i].seq = q, pkt.seq = q PROVE Twice(v, q)
    BY <1>2 DEF Flies
  <2>1. i \in DOMAIN v /\ n + 1 \in DOMAIN v /\ i # n + 1 /\ v[i].seq = q /\ v[n + 1].seq = q
    BY <1>2
  <2> QED
    BY <2>1 DEF Twice
<1>6. ASSUME NEW p, Before(w, q, p), pkt.seq # q PROVE Before(v, q, p)
  BY <1>2, <1>6 DEF Before
<1> QED
  BY <1>3, <1>4, <1>5, <1>6

(* A packet is taken off the wire. *)
LEMMA TakenOff ==
  ASSUME NEW w \in Seq(PacketsOnWire), NEW i \in DOMAIN w, NEW v, v = Without(w, i), NEW q
  PROVE  /\ Flies(v, q) => Flies(w, q)
         /\ w[i].seq # q => (Flies(w, q) => Flies(v, q)) /\ (Twice(w, q) => Twice(v, q))
         /\ Twice(w, q) => Flies(v, q)
         /\ \A p : Before(w, q, p) => Before(v, q, p)
<1> DEFINE n == Len(w)
           place(j) == IF j < i THEN j ELSE j + 1
           left(j) == IF j < i THEN j ELSE j - 1
<1>1. /\ n \in Nat /\ DOMAIN w = 1..n /\ DOMAIN v = 1..(n - 1) /\ i \in 1..n
      /\ \A j \in 1..(n - 1) : v[j] = w[place(j)]
  <2>1. /\ DOMAIN v = 1..(n - 1) /\ \A j \in 1..(n - 1) : v[j] = w[place(j)]
    BY WithoutKeeps
  <2> QED
    BY <2>1, LenProperties
<1> HIDE DEF n
<1>2. \A j \in 1..(n - 1) : place(j) \in 1..n /\ place(j) # i
  BY <1>1
<1>3. \A j, k \in 1..(n - 1) : place(j) < place(k) => j < k
  BY <1>1
<1>4. \A j \in 1..n : j # i => left(j) \in 1..(n - 1) /\ place(left(j)) = j
  BY <1>1
<1> HIDE DEF place, left
<1>5. \A j \in 1..n : j # i => left(j) \in DOMAIN v /\ v[left(j)] = w[j]
  BY <1>1, <1>4
<1>6. Flies(v, q) => Flies(w, q)
  BY <1>1, <1>2 DEF Flies
<1>7. w[i].seq # q /\ Flies(w, q) => Flies(v, q)
  BY <1>1, <1>5 DEF Flies
<1>8. w[i].seq # q /\ Twice(w, q) => Twice(v, q)
  <2> SUFFICES ASSUME w[i].seq # q, NEW j \in 1..n, NEW k \in 1..n, j # k,
                      w[j].seq = q, w[k].seq = q
               PROVE  Twice(v, q)
    BY <1>1 DEF Twice
  <2>1. /\ left(j) \in DOMAIN v /\ v[left(j)] = w[j] /\ left(k) \in DOMAIN v /\ v[left(k)] = w[k]
        /\ place(left(j)) = j /\ place(left(k)) = k
    BY <1>4, <1>5
  <2>2. left(j) # left(k)
    BY <2>1
  <2> QED
    BY <2>1, <2>2 DEF Twice
<1>9. Twice(w, q) => Flies(v, q)
  <2> SUFFICES ASSUME NEW j \in 1..n, NEW k \in 1..n, j # k, w[j].seq = q, w[k].seq = q
               PROVE  Flies(v, q)
    BY <1>1 DEF Twice
  <2>1. j # i \/ k # i
    OBVIOUS
  <2> QED
    BY <1>5, <2>1 DEF Flies
<1>10. ASSUME NEW p, Before(w, q, p) PROVE Before(v, q, p)
  BY <1>1, <1>2, <1>3, <1>10 DEF Before
<1> QED
  BY <1>6, <1>7, <1>8, <1>9, <1>10

(* Nothing that was to be sent before it is behind the packet at the front. *)
LEMMA FrontIsBefore ==
  ASSUME NEW w \in Seq(PacketsOnWire), 1 \in DOMAIN w, NEW q, Before(w, q, w[1].seq)
  PROVE  ~Flies(w, q)
<1>1. DOMAIN w = 1..Len(w) /\ Len(w) \in Nat
  BY LenProperties
<1> QED
  BY <1>1 DEF Flies, Before

-----------------------------------------------------------------------------
(* The path of the acks *)

(* An ack added to the path tells of q, or leaves what was told.            *)
LEMMA StillTold ==
  ASSUME NEW path \in Seq(AckType), NEW ack \in AckType, NEW q, Tells(path, q)
  PROVE  Tells(Append(path, ack), q)
<1> DEFINE n == Len(path)
           new == Append(path, ack)
<1>1. /\ n \in Nat /\ DOMAIN path = 1..n /\ DOMAIN new = 1..(n + 1)
      /\ \A i \in 1..n : new[i] = path[i]
  BY AppendProperties
<1> HIDE DEF n, new
<1>2. PICK j \in 1..n : q \in AckedBy(path[j])
  BY <1>1 DEF Tells
<1>3. j \in DOMAIN new /\ q \in AckedBy(new[j])
  BY <1>1, <1>2
<1>4. ASSUME NEW i \in 1..(n + 1), NEW p \in AckedBy(new[i]), p > q
      PROVE  \E k \in 1..i : q \in AckedBy(new[k])
  <2>1. CASE i = n + 1
    BY <1>1, <1>3, <2>1
  <2>2. CASE i \in 1..n
    <3>1. PICK k \in 1..i : q \in AckedBy(path[k])
      BY <1>1, <1>4, <2>2 DEF Tells
    <3> QED
      BY <1>1, <2>2, <3>1
  <2> QED
    BY <1>1, <2>1, <2>2
<1>5. Tells(new, q)
  BY <1>1, <1>3, <1>4 DEF Tells
<1> QED
  BY <1>5 DEF new

(* The first ack that tells of q is added to the path, none before tells of *)
(* more.                                                                    *)
LEMMA NowTold ==
  ASSUME NEW path \in Seq(AckType), NEW ack \in AckType, NEW q, q \in AckedBy(ack),
         \A i \in DOMAIN path : \A p \in AckedBy(path[i]) : ~(p > q)
  PROVE  Tells(Append(path, ack), q)
<1> DEFINE n == Len(path)
           new == Append(path, ack)
<1>1. /\ n \in Nat /\ DOMAIN path = 1..n /\ DOMAIN new = 1..(n + 1)
      /\ new[n + 1] = ack /\ \A i \in 1..n : new[i] = path[i]
  BY AppendProperties
<1> HIDE DEF n, new
<1>2. n + 1 \in DOMAIN new /\ q \in AckedBy(new[n + 1])
  BY <1>1
<1>3. ASSUME NEW i \in 1..(n + 1), NEW p \in AckedBy(new[i]), p > q
      PROVE  \E k \in 1..i : q \in AckedBy(new[k])
  <2>1. i = n + 1
    BY <1>1, <1>3
  <2> QED
    BY <1>1, <1>2, <2>1
<1>4. Tells(new, q)
  BY <1>1, <1>2, <1>3 DEF Tells
<1> QED
  BY <1>4 DEF new

(* The oldest ack leaves the path and did not tell of q. *)
LEMMA ToldLater ==
  ASSUME NEW path \in Seq(AckType), path # <<>>, NEW q, Tells(path, q),
         q \notin AckedBy(path[1])
  PROVE  Tells(Tail(path), q)
<1> DEFINE n == Len(path)
           rest == Tail(path)
<1>1. /\ n \in Nat /\ n > 0 /\ DOMAIN path = 1..n /\ DOMAIN rest = 1..(n - 1)
      /\ \A i \in 1..(n - 1) : rest[i] = path[i + 1]
  <2>1. Len(path) \in Nat /\ Len(path) # 0 /\ DOMAIN path = 1..Len(path)
    BY LenProperties, EmptySeq
  <2>2. /\ rest \in Seq(AckType) /\ Len(rest) = Len(path) - 1
        /\ \A i \in 1..(Len(path) - 1) : rest[i] = path[i + 1]
    BY HeadTailProperties
  <2>3. DOMAIN rest = 1..(Len(path) - 1)
    BY <2>2, LenProperties
  <2> QED
    BY <2>1, <2>2, <2>3
<1> HIDE DEF n, rest
<1>2. PICK j \in 1..n : q \in AckedBy(path[j])
  BY <1>1 DEF Tells
<1>3. j - 1 \in 1..(n - 1) /\ rest[j - 1] = path[j]
  <2>1. j # 1
    BY <1>2
  <2>2. j - 1 \in 1..(n - 1) /\ (j - 1) + 1 = j
    BY <1>1, <2>1
  <2> QED
    BY <1>1, <2>2
<1>4. ASSUME NEW i \in 1..(n - 1), NEW p \in AckedBy(rest[i]), p > q
      PROVE  \E k \in 1..i : q \in AckedBy(rest[k])
  <2>1. i + 1 \in 1..n /\ rest[i] = path[i + 1]
    BY <1>1
  <2>2. PICK k \in 1..(i + 1) : q \in AckedBy(path[k])
    BY <1>1, <1>4, <2>1 DEF Tells
  <2>3. k # 1
    BY <2>2
  <2>4. k - 1 \in 1..i /\ k - 1 \in 1..(n - 1) /\ (k - 1) + 1 = k
    BY <1>1, <2>2, <2>3
  <2>5. rest[k - 1] = path[k]
    BY <1>1, <2>4
  <2> QED
    BY <2>2, <2>4, <2>5
<1>5. Tells(rest, q)
  BY <1>1, <1>2, <1>3, <1>4 DEF Tells
<1> QED
  BY <1>5 DEF rest

-----------------------------------------------------------------------------
(* What a step keeps of the fate of the packets. *)

(* Statuses as before, packets taken off the wire: the order stays, as long *)
(* as the acker learns of no packet that a copy on the wire was before.     *)
LEMMA SendOrderKept ==
  ASSUME NEW t, NEW u, StatusesKept(t, u), NEW w, NEW v, NEW a, NEW b, NEW n,
         SentBefore(t, w, a, n),
         \A q, p : Before(w, q, p) => Before(v, q, p),
         \A q : Flies(v, q) => Flies(w, q),
         \A q, p : Before(w, q, p) /\ Flies(v, q) /\ p \in KnownReceived(b)
                     => p \in KnownReceived(a)
  PROVE  SentBefore(u, v, b, n)
<1> SUFFICES ASSUME NEW q \in Window(u.left, u.right), NEW p \in Window(0, n),
                    Undecided(u.status, q), p > MarkOf(u.status[q], q)
             PROVE  Before(v, q, p) /\ (Flies(v, q) => p \notin KnownReceived(b))
  BY DEF SentBefore
<1>1. /\ q \in Window(t.left, t.right) /\ Undecided(t.status, q)
      /\ MarkOf(t.status[q], q) = MarkOf(u.status[q], q)
  BY DEF StatusesKept, MarkOf
<1>2. Before(w, q, p) /\ (Flies(w, q) => p \notin KnownReceived(a))
  BY <1>1 DEF SentBefore
<1> QED
  BY <1>2

(* What is nowhere was nowhere before. *)
LEMMA NowhereBefore ==
  ASSUME NEW t, NEW u, StatusesKept(t, u), NEW w, NEW v, NEW a, NEW b,
         KnownReceived(a) \subseteq KnownReceived(b),
         \A q : q \notin KnownReceived(b) =>
                  (Flies(w, q) => Flies(v, q)) /\ (Twice(w, q) => Twice(v, q))
  PROVE  /\ LostOnce(u, v, b) \subseteq LostOnce(t, w, a)
         /\ LostTwice(u, v, b) \subseteq LostTwice(t, w, a)
<1>1. ASSUME NEW q \in Missing(u, b)
      PROVE  /\ q \in Missing(t, a) /\ (SentAgain(u, q) => SentAgain(t, q))
             /\ (Flies(w, q) => Flies(v, q)) /\ (Twice(w, q) => Twice(v, q))
  <2>1. q \in Window(u.left, u.right) /\ q \notin KnownReceived(b)
    BY DEF Missing
  <2>2. SentAgain(u, q) => Undecided(u.status, q)
    BY DEF SentAgain, Undecided, Received, Lost
  <2> QED
    BY <2>1, <2>2 DEF StatusesKept, Missing, SentAgain
<1> QED
  BY <1>1 DEF LostOnce, LostTwice

(* The packets that are nowhere can be counted. *)
LEMMA NowhereCounted ==
  ASSUME NEW t, TrackerSound(t), NEW w, NEW a
  PROVE  /\ IsFiniteSet(LostOnce(t, w, a)) /\ Cardinality(LostOnce(t, w, a)) \in Nat
         /\ IsFiniteSet(LostTwice(t, w, a)) /\ Cardinality(LostTwice(t, w, a)) \in Nat
<1>1. t.left \in Nat /\ t.right \in Nat
  BY DEF TrackerSound, TrackerType
<1>2. /\ LostOnce(t, w, a) \in SUBSET Window(t.left, t.right)
      /\ LostTwice(t, w, a) \in SUBSET Window(t.left, t.right)
  BY DEF LostOnce, LostTwice, Missing
<1> QED
  BY <1>1, <1>2, WindowParts

(* The losses cover any part of the packets that are nowhere. *)
LEMMA StillCovered ==
  ASSUME NEW A, NEW B, IsFiniteSet(A), IsFiniteSet(B), NEW C \in SUBSET A, NEW D \in SUBSET B,
         NEW l \in Nat, Cardinality(A) + Cardinality(B) <= l
  PROVE  Cardinality(C) + Cardinality(D) <= l
<1>1. Cardinality(C) <= Cardinality(A) /\ Cardinality(D) <= Cardinality(B)
  BY FS_Subset
<1>2. /\ Cardinality(A) \in Nat /\ Cardinality(B) \in Nat
      /\ Cardinality(C) \in Nat /\ Cardinality(D) \in Nat
  BY FS_Subset, FS_CardinalityType
<1> QED
  BY <1>1, <1>2

(* One loss covers the packet that it makes go missing. *)
LEMMA OneMoreCovered ==
  ASSUME NEW A, NEW B, IsFiniteSet(A), IsFiniteSet(B), NEW q,
         NEW C \in SUBSET (A \cup {q}), NEW D \in SUBSET (B \cup {q}), q \in D => q \in A,
         NEW l \in Nat, Cardinality(A) + Cardinality(B) <= l
  PROVE  Cardinality(C) + Cardinality(D) <= l + 1
<1>1. /\ IsFiniteSet(A \cup {q}) /\ Cardinality(A \cup {q}) <= Cardinality(A) + 1
      /\ IsFiniteSet(B \cup {q}) /\ Cardinality(B \cup {q}) <= Cardinality(B) + 1
      /\ Cardinality(A) \in Nat /\ Cardinality(B) \in Nat
  <2>1. ASSUME NEW S, IsFiniteSet(S)
        PROVE  /\ IsFiniteSet(S \cup {q}) /\ Cardinality(S \cup {q}) <= Cardinality(S) + 1
               /\ Cardinality(S) \in Nat
    <3>1. /\ IsFiniteSet(S \cup {q})
          /\ Cardinality(S \cup {q}) = IF q \in S THEN Cardinality(S) ELSE Cardinality(S) + 1
      BY <2>1, FS_AddElement
    <3>2. Cardinality(S) \in Nat
      BY <2>1, FS_CardinalityType
    <3> QED
      BY <3>1, <3>2
  <2> QED
    BY <2>1
<1>2. /\ Cardinality(A \cup {q}) \in Nat /\ Cardinality(B \cup {q}) \in Nat
  BY <1>1, FS_CardinalityType
<1>3. CASE q \in A
  <2>1. C \in SUBSET A
    BY <1>3
  <2> QED
    BY <1>1, <1>2, <2>1, StillCovered
<1>4. CASE q \notin A
  <2>1. D \in SUBSET B
    BY <1>4
  <2> QED
    BY <1>1, <1>2, <2>1, StillCovered
<1> QED
  BY <1>3, <1>4

-----------------------------------------------------------------------------
(* The steps of the flow *)

(* At first nothing was sent. *)
LEMMA FateInit == FlowInit => FateInv
<1> SUFFICES ASSUME FlowInit PROVE FateInv
  OBVIOUS
<1>1. trackRx = NewTracker /\ losses = 0
  BY DEF FlowInit, SenderInit
<1>2. Window(trackRx.left, trackRx.right) = {}
  BY <1>1 DEF NewTracker, Tracker, Window
<1>3. LostOnce(trackRx, wire, acker) = {} /\ LostTwice(trackRx, wire, acker) = {}
  BY <1>2 DEF LostOnce, LostTwice, Missing
<1>4. Cardinality({}) + Cardinality({}) <= losses
  BY <1>1, FS_EmptySet
<1> QED
  BY <1>2, <1>3, <1>4 DEF FateInv, SentBefore, ArrivalsTold

(* A step of the sender that sends nothing. *)
LEMMA FateQuiet ==
  ASSUME FlowInv, FateInv, StatusesKept(trackRx, trackRx'),
         UNCHANGED <<nextPkt, wire, acker, losses>>
  PROVE  /\ SentBefore(trackRx', wire', acker', nextPkt')
         /\ Cardinality(LostOnce(trackRx', wire', acker'))
              + Cardinality(LostTwice(trackRx', wire', acker')) <= losses'
<1>1. TrackerSound(trackRx) /\ losses \in Nat
  BY FlowFacts, FlowAssumption DEF FlowInv
<1>2. SentBefore(trackRx', wire, acker, nextPkt)
  BY SendOrderKept DEF FateInv
<1>3. /\ LostOnce(trackRx', wire, acker) \in SUBSET LostOnce(trackRx, wire, acker)
      /\ LostTwice(trackRx', wire, acker) \in SUBSET LostTwice(trackRx, wire, acker)
  BY NowhereBefore
<1>4. Cardinality(LostOnce(trackRx', wire, acker))
        + Cardinality(LostTwice(trackRx', wire, acker)) <= losses
  BY <1>1, <1>3, NowhereCounted, StillCovered DEF FateInv
<1> QED
  BY <1>2, <1>4

(* What was told is told as long as the acks stay on their way. *)
LEMMA ToldQuiet ==
  ASSUME NEW t, NEW u, StatusesKept(t, u), NEW a, NEW path, ArrivalsTold(t, a, path)
  PROVE  ArrivalsTold(u, a, path)
<1> SUFFICES ASSUME NEW q \in Window(u.left, u.right), u.status[q].st = "NotReceived",
                    q \in KnownReceived(a)
             PROVE  Tells(path, q)
  BY DEF ArrivalsTold
<1>1. Undecided(u.status, q)
  BY DEF Undecided, Received, Lost
<1>2. q \in Window(t.left, t.right) /\ t.status[q].st = "NotReceived"
  BY <1>1 DEF StatusesKept
<1> QED
  BY <1>2 DEF ArrivalsTold

(* A packet is sent: it is last on the wire, and its status says so.        *)
LEMMA FateSend ==
  ASSUME FlowInv, FateInv, ~Ended, ~panicked, NEW seq \in Nat, NEW new \in PktStatus,
         new # Received, seq >= trackRx.left, seq <= nextPkt,
         trackRx' = MarkPkt(trackRx, seq, new), MarkOf(new, seq) = nextPkt,
         new.st = "NotReceived" => seq = nextPkt,
         new.st = "Retransmitted" => seq \in LostIn(trackRx),
         new.st \in {"NotReceived", "Retransmitted"},
         nextPkt' \in Nat, nextPkt' <= nextPkt + 1,
         wire' = Append(wire, [seq |-> seq, sentTime |-> now]),
         UNCHANGED <<acker, ackPath, losses>>
  PROVE  FateInv'
<1> DEFINE pkt == [seq |-> seq, sentTime |-> now]
<1>1. /\ TrackerSound(trackRx) /\ losses \in Nat /\ nextPkt \in Nat /\ now \in Nat
      /\ wire \in Seq(PacketsOnWire) /\ trackRx.right = nextPkt
      /\ KnownReceived(acker) \subseteq Window(0, nextPkt)
      /\ \A i \in DOMAIN wire : wire[i].seq < nextPkt
  BY FlowFacts, FlowAssumption DEF FlowInv, WireSent
<1>2. pkt \in PacketsOnWire /\ pkt.seq = seq
  BY <1>1 DEF PacketsOnWire
<1> HIDE DEF pkt
<1>3. \A q \in Window(trackRx'.left, trackRx'.right) :
        \/ q = seq /\ trackRx'.status[q] = new
        \/ q # seq /\ q \in Window(trackRx.left, trackRx.right)
             /\ trackRx'.status[q] = trackRx.status[q]
  <2> DEFINE u == MarkPkt(trackRx, seq, new)
  <2>1. /\ TrackerSound(trackRx) /\ seq \in Nat /\ new \in PktStatus /\ new # Received
        /\ seq >= trackRx.left /\ seq <= trackRx.right
    BY <1>1
  <2>2. \A q \in Window(u.left, u.right) :
          \/ q = seq /\ u.status[q] = new
          \/ q # seq /\ q \in Window(trackRx.left, trackRx.right)
               /\ u.status[q] = trackRx.status[q]
    BY ONLY <2>1, MarkPktStatus
  <2>3. trackRx' = u
    OBVIOUS
  <2> HIDE DEF u
  <2> QED
    BY ONLY <2>2, <2>3
<1>4. nextPkt \notin KnownReceived(acker) /\ \A q : Before(wire, q, nextPkt)
  BY <1>1 DEF Window, Before
<1>5. wire' = Append(wire, pkt)
  BY DEF pkt
<1>6. SentBefore(trackRx', wire', acker, nextPkt')
  <2> SUFFICES ASSUME NEW q \in Window(trackRx'.left, trackRx'.right), NEW p \in Window(0, nextPkt'),
                      Undecided(trackRx'.status, q), p > MarkOf(trackRx'.status[q], q)
               PROVE  Before(wire', q, p) /\ (Flies(wire', q) => p \notin KnownReceived(acker))
    BY DEF SentBefore
  <2>1. p \in Nat /\ p <= nextPkt /\ (p < nextPkt => p \in Window(0, nextPkt))
    BY <1>1 DEF Window
  <2>2. /\ q # seq /\ q \in Window(trackRx.left, trackRx.right)
        /\ trackRx'.status[q] = trackRx.status[q]
    BY <1>1, <1>3, <2>1
  <2>3. Before(wire, q, p) /\ (Flies(wire, q) => p \notin KnownReceived(acker))
    <3>1. CASE p = nextPkt
      BY <1>4, <3>1
    <3>2. CASE p # nextPkt
      <4>1. p \in Window(0, nextPkt)
        BY <1>1, <2>1, <3>2
      <4>2. Undecided(trackRx.status, q)
        BY <2>2 DEF Undecided
      <4> QED
        BY <2>2, <4>1, <4>2 DEF FateInv, SentBefore
    <3> QED
      BY <3>1, <3>2
  <2> QED
    BY <1>1, <1>2, <1>5, <2>2, <2>3, SentLast
<1>7. ArrivalsTold(trackRx', acker, ackPath)
  <2> SUFFICES ASSUME NEW q \in Window(trackRx'.left, trackRx'.right),
                      trackRx'.status[q].st = "NotReceived", q \in KnownReceived(acker)
               PROVE  Tells(ackPath, q)
    BY DEF ArrivalsTold
  <2>1. CASE q = seq
    BY <1>3, <1>4, <2>1
  <2>2. CASE q # seq
    BY <1>3, <2>2 DEF FateInv, ArrivalsTold
  <2> QED
    BY <2>1, <2>2
<1>8. ASSUME NEW q \in Missing(trackRx', acker)
      PROVE  /\ q \in LostOnce(trackRx', wire', acker) => q \in LostOnce(trackRx, wire, acker)
             /\ q \in LostTwice(trackRx', wire', acker) => q \in LostTwice(trackRx, wire, acker)
  <2>1. q \in Window(trackRx'.left, trackRx'.right) /\ q \notin KnownReceived(acker)
    BY <1>8 DEF Missing
  <2>2. /\ Flies(wire', q) <=> Flies(wire, q) \/ q = seq
        /\ Twice(wire, q) \/ (Flies(wire, q) /\ q = seq) => Twice(wire', q)
    BY <1>1, <1>2, <1>5, SentLast
  <2>3. CASE q = seq
    <3>1. trackRx'.status[q] = new
      BY <1>3, <2>1, <2>3
    <3>2. CASE new.st = "NotReceived"
      BY <2>2, <2>3, <3>1, <3>2 DEF LostOnce, LostTwice, SentAgain
    <3>3. CASE new.st = "Retransmitted"
      <4>1. q \in Missing(trackRx, acker)
        BY <2>1, <2>3, <3>3 DEF Missing, LostIn
      <4> QED
        BY <2>2, <2>3, <4>1 DEF LostOnce, LostTwice
    <3> QED
      BY <3>2, <3>3
  <2>4. CASE q # seq
    <3>1. q \in Missing(trackRx, acker) /\ (SentAgain(trackRx', q) <=> SentAgain(trackRx, q))
      BY <1>3, <2>1, <2>4 DEF Missing, SentAgain
    <3> QED
      BY <2>2, <2>4, <3>1 DEF LostOnce, LostTwice
  <2> QED
    BY <2>3, <2>4
<1>9. /\ LostOnce(trackRx', wire', acker) \in SUBSET LostOnce(trackRx, wire, acker)
      /\ LostTwice(trackRx', wire', acker) \in SUBSET LostTwice(trackRx, wire, acker)
  BY <1>8 DEF LostOnce, LostTwice
<1>10. Cardinality(LostOnce(trackRx', wire', acker))
         + Cardinality(LostTwice(trackRx', wire', acker)) <= losses
  BY <1>1, <1>9, NowhereCounted, StillCovered DEF FateInv
<1> QED
  BY <1>6, <1>7, <1>10 DEF FateInv

(* A packet arrives: what was sent before it has arrived or was dropped; if *)
(* it is the first copy, its ack is the first to tell of it.                *)
LEMMA FateDeliver ==
  ASSUME FlowInv, FateInv, FlowInv', Deliver
  PROVE  FateInv'
<1> DEFINE pkt == Head(wire)
           ack == AckOf(acker', pkt)
           q1  == pkt.seq
<1>1. /\ TrackerSound(trackRx) /\ TrackerSound(acker) /\ TrackerSound(acker')
      /\ nextPkt \in Nat /\ losses \in Nat
      /\ wire \in Seq(PacketsOnWire) /\ ackPath \in Seq(AckType)
      /\ trackRx.right = nextPkt /\ KnownReceived(acker) \subseteq Window(0, nextPkt)
  BY FlowFacts, FlowAssumption DEF FlowInv, PathTrue, AckerSound
<1>2. /\ 1 \in DOMAIN wire /\ wire' = Without(wire, 1) /\ losses' = losses /\ ~panicked
      /\ UNCHANGED <<now, nextPkt, trackRx, panicked>>
      /\ acker' = MarkPkt(acker, q1, Received) /\ ackPath' = Append(ackPath, ack)
  BY DEF Deliver, NetworkTakes
<1>3. pkt = wire[1] /\ pkt \in PacketsOnWire /\ q1 \in Nat
  <2>1. pkt = wire[1] /\ wire[1] \in PacketsOnWire
    BY <1>1, <1>2
  <2> QED
    BY <2>1 DEF PacketsOnWire
<1>4. KnownReceived(acker') = KnownReceived(acker) \cup {q1}
  BY <1>1, <1>2, <1>3, MarkPktKnown, StatusesDistinct
<1>5. /\ ack \in AckType /\ ack.cum = acker'.left
      /\ ack.sack = Sacked(GenerateSack(acker', MaxSack))
  <2>1. ack \in AckType /\ ack.cum = acker'.left
    BY <1>1, <1>3, AckOfTrue
  <2> QED
    BY <2>1 DEF AckOf
<1> HIDE DEF pkt, ack
<1>6. wire[1].seq = q1
  BY <1>3
<1>7. ASSUME NEW q
      PROVE  /\ Flies(wire', q) => Flies(wire, q)
             /\ q # q1 => (Flies(wire, q) => Flies(wire', q)) /\ (Twice(wire, q) => Twice(wire', q))
             /\ \A p : Before(wire, q, p) => Before(wire', q, p)
  BY <1>1, <1>2, <1>6, TakenOff
<1>8. StatusesKept(trackRx, trackRx)
  BY DEF StatusesKept
<1>9. SentBefore(trackRx, wire', acker', nextPkt)
  <2>1. ASSUME NEW q, NEW p, Before(wire, q, p), Flies(wire', q), p \in KnownReceived(acker')
        PROVE  p \in KnownReceived(acker)
    <3>1. Flies(wire, q)
      BY <1>7, <2>1
    <3>2. p # q1
      BY <1>1, <1>2, <1>6, <2>1, <3>1, FrontIsBefore
    <3> QED
      BY <1>4, <2>1, <3>2
  <2>2. SentBefore(trackRx, wire, acker, nextPkt)
    BY DEF FateInv
  <2> QED
    BY <1>7, <1>8, <2>1, <2>2, SendOrderKept
<1>10. Cardinality(LostOnce(trackRx, wire', acker'))
         + Cardinality(LostTwice(trackRx, wire', acker')) <= losses
  <2>1. KnownReceived(acker) \subseteq KnownReceived(acker')
    BY <1>4
  <2>2. \A q : q \notin KnownReceived(acker') =>
                 (Flies(wire, q) => Flies(wire', q)) /\ (Twice(wire, q) => Twice(wire', q))
    BY <1>4, <1>7
  <2>3. /\ LostOnce(trackRx, wire', acker') \in SUBSET LostOnce(trackRx, wire, acker)
        /\ LostTwice(trackRx, wire', acker') \in SUBSET LostTwice(trackRx, wire, acker)
    BY <1>8, <2>1, <2>2, NowhereBefore
  <2> QED
    BY <1>1, <2>3, NowhereCounted, StillCovered DEF FateInv
<1>11. ASSUME ~Ended, NEW q \in Window(trackRx.left, trackRx.right),
              trackRx.status[q].st = "NotReceived", q \in KnownReceived(acker')
       PROVE  Tells(ackPath', q)
  <2>1. CASE q \in KnownReceived(acker)
    <3>1. Tells(ackPath, q)
      BY <1>2, <1>11, <2>1 DEF FateInv, ArrivalsTold
    <3> QED
      BY <1>1, <1>2, <1>5, <3>1, StillTold
  <2>2. CASE q \notin KnownReceived(acker)
    <3>1. q = q1 /\ Flies(wire, q)
      BY <1>2, <1>4, <1>6, <1>11, <2>2 DEF Flies
    <3>2. Undecided(trackRx.status, q) /\ MarkOf(trackRx.status[q], q) = q
      BY <1>11 DEF Undecided, MarkOf, Received, Lost
    <3>3. \A p \in KnownReceived(acker) : ~(p > q)
      BY <1>1, <3>1, <3>2 DEF FateInv, SentBefore
    <3>4. \A i \in DOMAIN ackPath : \A p \in AckedBy(ackPath[i]) : ~(p > q)
      BY <3>3 DEF FlowInv, PathTrue
    <3>5. q \in AckedBy(ack)
      <4>1. q \in KnownReceived(acker')
        BY <1>11
      <4>2. CASE q \in Window(0, acker'.left)
        BY <1>5, <4>2 DEF AckedBy
      <4>3. CASE q \in ReceivedIn(acker')
        <5>1. ASSUME NEW p \in ReceivedIn(acker') PROVE p <= q
          <6>1. p \in KnownReceived(acker') /\ p \in Nat /\ q \in Nat
            BY <1>1, <1>3, <3>1 DEF KnownReceived, ReceivedIn, Window, TrackerSound, TrackerType
          <6>2. CASE p = q
            BY <6>1, <6>2
          <6>3. CASE p # q
            BY <1>4, <3>1, <3>3, <6>1, <6>3
          <6> QED
            BY <6>2, <6>3
        <5>2. q \in Sacked(GenerateSack(acker', MaxSack))
          BY <1>1, <4>3, <5>1, HighestSacked, FlowAssumption
        <5> QED
          BY <1>5, <5>2 DEF AckedBy
      <4> QED
        BY <4>1, <4>2, <4>3 DEF KnownReceived
    <3> QED
      BY <1>1, <1>2, <1>5, <3>4, <3>5, NowTold
  <2> QED
    BY <2>1, <2>2
<1>12. Ended <=> Ended'
  BY <1>2 DEF Ended, HasEnded, PastDuration, Covers, ReceivedTill
<1>13. ~Ended' => ArrivalsTold(trackRx, acker', ackPath')
  BY <1>11, <1>12 DEF ArrivalsTold
<1> QED
  BY <1>2, <1>9, <1>10, <1>13 DEF FateInv

(* A packet is dropped: only its own fate changes, and one loss is charged. *)
LEMMA FateLose ==
  ASSUME FlowInv, FateInv, Lose
  PROVE  FateInv'
<1>1. /\ TrackerSound(trackRx) /\ losses \in Nat /\ wire \in Seq(PacketsOnWire)
  BY FlowFacts, FlowAssumption DEF FlowInv
<1>2. /\ losses' = losses + 1 /\ ~panicked
      /\ UNCHANGED <<now, nextPkt, trackRx, panicked, acker, ackPath>>
  BY DEF Lose, NetworkTakes
<1>3. PICK i \in DOMAIN wire : wire' = Without(wire, i)
  BY DEF Lose, NetworkTakes
<1> DEFINE q1 == wire[i].seq
<1>4. ASSUME NEW q
      PROVE  /\ Flies(wire', q) => Flies(wire, q)
             /\ q # q1 => (Flies(wire, q) => Flies(wire', q)) /\ (Twice(wire, q) => Twice(wire', q))
             /\ Twice(wire, q) => Flies(wire', q)
             /\ \A p : Before(wire, q, p) => Before(wire', q, p)
  BY <1>1, <1>3, TakenOff
<1> HIDE DEF q1
<1>5. SentBefore(trackRx, wire', acker, nextPkt)
  <2>1. StatusesKept(trackRx, trackRx)
    BY DEF StatusesKept
  <2>2. SentBefore(trackRx, wire, acker, nextPkt)
    BY DEF FateInv
  <2> QED
    BY <1>4, <2>1, <2>2, SendOrderKept
<1>6. /\ LostOnce(trackRx, wire', acker) \in SUBSET (LostOnce(trackRx, wire, acker) \cup {q1})
      /\ LostTwice(trackRx, wire', acker) \in SUBSET (LostTwice(trackRx, wire, acker) \cup {q1})
      /\ q1 \in LostTwice(trackRx, wire', acker) => q1 \in LostOnce(trackRx, wire, acker)
  BY <1>4 DEF LostOnce, LostTwice
<1>7. Cardinality(LostOnce(trackRx, wire', acker))
        + Cardinality(LostTwice(trackRx, wire', acker)) <= losses + 1
  BY <1>1, <1>6, NowhereCounted, OneMoreCovered DEF FateInv
<1>8. Ended <=> Ended'
  BY <1>2 DEF Ended, HasEnded, PastDuration, Covers, ReceivedTill
<1> QED
  BY <1>2, <1>5, <1>7, <1>8 DEF FateInv

(* An ack comes back: what the acks on their way do not cover has its status *)
(* from before, and what it covers need not be told again.                  *)
LEMMA FateReturn ==
  ASSUME FlowInv, FateInv, ReturnAck
  PROVE  FateInv'
<1> DEFINE ack    == Head(ackPath)
           acked  == AckedBy(ack)
           marked == MarkAcked(trackRx, acked)
<1>1. /\ TrackerSound(trackRx) /\ trackRx.right = nextPkt /\ ackPath \in Seq(AckType)
      /\ \A i \in DOMAIN ackPath : AckedBy(ackPath[i]) \subseteq Window(0, nextPkt)
  BY FlowFacts DEF FlowInv, PathTrue
<1>2. /\ ~panicked /\ ackPath # <<>> /\ HandleAck(ack) /\ ackPath' = Tail(ackPath)
      /\ UNCHANGED <<acker, losses>>
  BY DEF ReturnAck
<1>3. ack = ackPath[1] /\ 1 \in DOMAIN ackPath /\ acked \in SUBSET Window(0, trackRx.right)
  BY <1>1, <1>2
<1> HIDE DEF ack
<1>4. CASE IgnoreAck
  <2>1. Ended /\ UNCHANGED senderVars
    BY <1>4 DEF IgnoreAck, Ended
  <2>2. StatusesKept(trackRx, trackRx') /\ Ended' /\ UNCHANGED <<nextPkt, wire>>
    BY <2>1 DEF StatusesKept, senderVars, Ended, HasEnded, PastDuration, Covers, ReceivedTill
  <2> QED
    BY <1>2, <2>2, FateQuiet DEF FateInv
<1>5. CASE AckPanics(ack)
  <2>1. StatusesKept(trackRx, trackRx') /\ panicked' /\ UNCHANGED <<nextPkt, wire>>
    BY <1>5 DEF StatusesKept, AckPanics
  <2> QED
    BY <1>2, <2>1, FateQuiet DEF FateInv
<1>6. CASE PushAck(ack)
  <2>1. /\ ~Ended /\ UNCHANGED <<nextPkt, wire>> /\ trackRx' = Reported(marked)
    BY <1>6 DEF PushAck, Ended
  <2>2. /\ StatusesKept(trackRx, marked)
        /\ \A q \in Window(marked.left, marked.right) : q \in acked => marked.status[q] = Received
    BY <1>1, <1>3, MarkAckedStatus
  <2>3. /\ trackRx'.left = marked.left /\ trackRx'.right = marked.right
        /\ trackRx'.status = marked.status
    BY <2>1 DEF Reported, MarkAcked, Shrink, Tracker
  <2> HIDE DEF marked, acked
  <2>4. /\ StatusesKept(trackRx, trackRx')
        /\ \A q \in Window(trackRx'.left, trackRx'.right) :
             q \in acked => trackRx'.status[q] = Received
    BY <2>2, <2>3 DEF StatusesKept
  <2>5. ASSUME NEW q \in Window(trackRx'.left, trackRx'.right),
               trackRx'.status[q].st = "NotReceived", q \in KnownReceived(acker)
        PROVE  Tells(Tail(ackPath), q)
    <3>1. ArrivalsTold(trackRx', acker, ackPath)
      BY <1>2, <2>1, <2>4, ToldQuiet DEF FateInv
    <3>2. Tells(ackPath, q)
      BY <2>5, <3>1 DEF ArrivalsTold
    <3>3. q \notin acked
      BY <2>4, <2>5 DEF Received
    <3>4. q \notin AckedBy(ackPath[1])
      BY <1>3, <3>3 DEF acked
    <3> QED
      BY <1>1, <1>2, <3>2, <3>4, ToldLater
  <2>6. ArrivalsTold(trackRx', acker, ackPath')
    BY <1>2, <2>5 DEF ArrivalsTold
  <2> QED
    BY <1>2, <2>1, <2>4, <2>6, FateQuiet DEF FateInv
<1> QED
  BY <1>2, <1>4, <1>5, <1>6 DEF HandleAck

(* A timeout gives up all that is undecided. *)
LEMMA TimeoutStatus ==
  ASSUME NEW t, TrackerSound(t)
  PROVE  StatusesKept(t, MarkAllAsLost(t))
<1> DEFINE status == [q \in Window(t.left, t.right) |->
                        IF t.status[q] = Received THEN Received ELSE Lost]
           u == MarkAllAsLost(t)
<1>1. u.left = t.left /\ u.right = t.right /\ u.status = status
  BY DEF MarkAllAsLost, TrackerSound, TrackerType, Tracker
<1>2. \A q \in Window(t.left, t.right) : status[q] \in {Received, Lost}
  OBVIOUS
<1> HIDE DEF status, u
<1>3. StatusesKept(t, u)
  BY <1>1, <1>2 DEF StatusesKept, Undecided
<1> QED
  BY <1>3 DEF u

(* An event runs. *)
LEMMA FateEvent ==
  ASSUME FlowInv, FateInv, RunEvent
  PROVE  FateInv'
<1>1. /\ TrackerSound(trackRx) /\ nextPkt \in Nat /\ now \in Nat /\ trackRx.right = nextPkt
      /\ trackRx.left \in Nat /\ trackRx.left <= nextPkt
  BY FlowFacts, KnownBounds
<1>2. ~panicked /\ UNCHANGED <<acker, ackPath, losses>>
  BY DEF RunEvent
<1>3. PICK e \in pending : HandleEvent(e)
  BY DEF RunEvent
<1>4. ASSUME StatusesKept(trackRx, trackRx'), UNCHANGED <<nextPkt, wire, panicked>>,
             Ended => Ended'
      PROVE  FateInv'
  <2>1. ~Ended => ArrivalsTold(trackRx', acker, ackPath)
    BY <1>2, <1>4, ToldQuiet DEF FateInv
  <2> QED
    BY <1>2, <1>4, <2>1, FateQuiet DEF FateInv
<1>5. CASE EventAfterEnd(e) \/ TimeoutStale(e)
  <2>1. StatusesKept(trackRx, trackRx') /\ UNCHANGED <<now, trackRx, nextPkt, wire, panicked>>
    BY <1>5 DEF EventAfterEnd, TimeoutStale, StatusesKept
  <2>2. Ended => Ended'
    BY <2>1 DEF Ended, HasEnded, PastDuration, Covers, ReceivedTill
  <2> QED
    BY <1>4, <2>1, <2>2
<1>6. CASE TimeoutFires(e)
  <2>1. ~Ended /\ trackRx' = MarkAllAsLost(trackRx) /\ UNCHANGED <<nextPkt, wire, panicked>>
    BY <1>6 DEF TimeoutFires, Ended
  <2> QED
    BY <1>1, <1>4, <2>1, TimeoutStatus
<1>7. CASE Retransmit(e)
  <2> DEFINE seq == FirstLost(trackRx)
             new == Retransmitted(0, nextPkt)
  <2>1. /\ trackRx.lost > 0 /\ ~Ended /\ nextPkt' = nextPkt
        /\ trackRx' = MarkPkt(trackRx, seq, new)
        /\ wire' = Append(wire, [seq |-> seq, sentTime |-> now])
    BY <1>7 DEF Retransmit, Send, Ended
  <2>2. seq \in LostIn(trackRx)
    BY <1>1, <2>1, FirstLostFound
  <2>3. seq \in Nat /\ seq >= trackRx.left /\ seq <= nextPkt
    BY <1>1, <2>2 DEF LostIn, Window
  <2>4. /\ new \in PktStatus /\ new # Received
    BY <1>1, StatusesDistinct
  <2>5. new.st = "Retransmitted" /\ MarkOf(new, seq) = nextPkt
    BY DEF Retransmitted, MarkOf
  <2>6. nextPkt' \in Nat /\ nextPkt' <= nextPkt + 1
    BY <1>1, <2>1
  <2> HIDE DEF seq, new
  <2> QED
    BY <1>1, <1>2, <2>1, <2>2, <2>3, <2>4, <2>5, <2>6, FateSend
<1>8. CASE TransmitFresh(e)
  <2> DEFINE new == NotReceived(0)
  <2>1. /\ ~Ended /\ nextPkt' = nextPkt + 1
        /\ trackRx' = MarkPkt(trackRx, nextPkt, new)
        /\ wire' = Append(wire, [seq |-> nextPkt, sentTime |-> now])
    BY <1>8 DEF TransmitFresh, Send, Ended
  <2>2. new \in PktStatus /\ new # Received
    BY StatusesDistinct
  <2>3. new.st = "NotReceived" /\ MarkOf(new, nextPkt) = nextPkt
    BY DEF NotReceived, MarkOf
  <2>4. nextPkt' \in Nat /\ nextPkt' <= nextPkt + 1 /\ nextPkt >= trackRx.left
    BY <1>1, <2>1
  <2> HIDE DEF new
  <2> QED
    BY <1>1, <1>2, <2>1, <2>2, <2>3, <2>4, FateSend
<1> QED
  BY <1>3, <1>5, <1>6, <1>7, <1>8 DEF HandleEvent

(* The fate of the packets is kept by every step of a flow. *)
LEMMA FateStep == FlowInv /\ FateInv /\ FlowInv' /\ [FlowNext]_flowVars => FateInv'
<1> SUFFICES ASSUME FlowInv, FateInv, FlowInv', [FlowNext]_flowVars PROVE FateInv'
  OBVIOUS
<1>1. CASE Deliver
  BY <1>1, FateDeliver
<1>2. CASE Lose
  BY <1>2, FateLose
<1>3. CASE ReturnAck
  BY <1>3, FateReturn
<1>4. CASE RunEvent
  BY <1>4, FateEvent
<1>5. CASE Tick \/ UNCHANGED flowVars
  <2>1. /\ UNCHANGED <<trackRx, nextPkt, wire, panicked, acker, ackPath, losses>>
        /\ now' = now \/ now' = now + 1
    BY <1>5 DEF Tick, AdvanceTime, flowVars, senderVars
  <2>2. Ended => Ended'
    BY <2>1, FlowFacts, SenderAssumption DEF Ended, HasEnded, PastDuration, Covers, ReceivedTill
  <2>3. StatusesKept(trackRx, trackRx')
    BY <2>1 DEF StatusesKept
  <2> QED
    BY <2>1, <2>2, <2>3, FateQuiet DEF FateInv
<1> QED
  BY <1>1, <1>2, <1>3, <1>4, <1>5 DEF FlowNext

(* Where the copies of every undecided packet are, in every reachable state *)
(* of a flow: the path is FIFO, arrivals are told, and what is nowhere was  *)
(* dropped.                                                                 *)
THEOREM FlowFate == FlowSpec => [](FlowInv /\ FateInv)
<1>1. FlowInit => FlowInv /\ FateInv
  BY FlowInitEstablishes, FateInit
<1>2. (FlowInv /\ FateInv) /\ [FlowNext]_flowVars => (FlowInv /\ FateInv)'
  BY FlowStepPreserves, FateStep
<1> QED
  BY <1>1, <1>2, PTL DEF FlowSpec

(* What the sender counts as in flight is on the wire or at the acker,      *)
(* unless the network dropped every copy: the losses cover what is nowhere. *)
THEOREM InFlightAlwaysSomewhere == FlowSpec => []InFlightIsSomewhere
<1>1. FlowInv /\ FateInv => InFlightIsSomewhere
  <2> SUFFICES ASSUME FlowInv, FateInv PROVE InFlightIsSomewhere
    OBVIOUS
  <2> DEFINE gone  == {q \in Window(trackRx.left, trackRx.right) :
                         /\ trackRx.status[q] \notin {Received, Lost}
                         /\ ~OnWire(q) /\ q \notin KnownReceived(acker)}
             again == {q \in gone : trackRx.status[q].st = "Retransmitted"}
  <2>1. \A q : OnWire(q) <=> Flies(wire, q)
    BY DEF OnWire, Flies
  <2>2. /\ gone \in SUBSET LostOnce(trackRx, wire, acker)
        /\ again \in SUBSET LostTwice(trackRx, wire, acker)
    BY <2>1 DEF LostOnce, LostTwice, Missing, SentAgain
  <2>3. TrackerSound(trackRx) /\ losses \in Nat
    BY FlowFacts, FlowAssumption DEF FlowInv
  <2> HIDE DEF gone, again
  <2>4. Cardinality(gone) + Cardinality(again) <= losses
    BY <2>2, <2>3, NowhereCounted, StillCovered DEF FateInv
  <2> QED
    BY <2>4 DEF InFlightIsSomewhere, gone, again
<1> QED
  BY <1>1, FlowFate, PTL

(* A packet that dupacks make the sender give up has no copy on the wire    *)
(* left, and did not arrive if it was sent only once: fast retransmit is    *)
(* never spurious on a FIFO path, but for a retransmission that arrived.    *)
THEOREM FastRetransmitAlwaysNeeded == FlowSpec => FastRetransmitIsNeeded
<1> DEFINE Needed == \A q \in LostByDupacks :
                       /\ ~OnWire(q)
                       /\ trackRx.status[q].st = "NotReceived" => q \notin KnownReceived(acker)
<1>1. FlowInv /\ FateInv /\ [FlowNext]_flowVars => [Needed]_flowVars
  <2> SUFFICES ASSUME FlowInv, FateInv, FlowNext, NEW q \in LostByDupacks
               PROVE  /\ ~OnWire(q)
                      /\ trackRx.status[q].st = "NotReceived" => q \notin KnownReceived(acker)
    OBVIOUS
  <2>1. /\ q \in Window(trackRx'.left, trackRx'.right) /\ trackRx'.status[q] = Lost
        /\ trackRx.status[q] # Lost /\ ackPath # <<>> /\ ackPath' = Tail(ackPath)
        /\ trackRx' # trackRx
    BY DEF LostByDupacks, LostIn
  <2>2. /\ TrackerSound(trackRx) /\ trackRx.right = nextPkt /\ ackPath \in Seq(AckType)
        /\ \A i \in DOMAIN ackPath : AckedBy(ackPath[i]) \subseteq Window(0, nextPkt)
    BY FlowFacts DEF FlowInv, PathTrue
  <2> DEFINE ack == Head(ackPath)
             acked == AckedBy(ack)
  <2>3. ackPath' # ackPath
    <3> DEFINE rest == Tail(ackPath)
    <3>1. Len(rest) = Len(ackPath) - 1 /\ Len(ackPath) \in Nat
      BY <2>1, <2>2, HeadTailProperties
    <3>2. ackPath' = rest
      BY <2>1
    <3> HIDE DEF rest
    <3>3. rest # ackPath
      BY <3>1
    <3> QED
      BY <3>2, <3>3
  <2>4. ReturnAck
    BY <2>1, <2>3 DEF FlowNext, Deliver, NetworkTakes, Lose, RunEvent, Tick
  <2>5. ack = ackPath[1] /\ 1 \in DOMAIN ackPath /\ acked \in SUBSET Window(0, trackRx.right)
    BY <2>1, <2>2
  <2> HIDE DEF ack
  <2>6. ~panicked /\ PushAck(ack)
    <3>1. ~panicked /\ HandleAck(ack)
      BY <2>4 DEF ReturnAck, ack
    <3> QED
      BY <2>1, <3>1 DEF HandleAck, IgnoreAck, AckPanics, senderVars
  <2> DEFINE marked == MarkAcked(trackRx, acked)
  <2>7. ~Ended /\ trackRx' = Reported(marked)
    BY <2>6 DEF PushAck, Ended
  <2>8. /\ trackRx'.left = marked.left /\ trackRx'.right = marked.right
        /\ trackRx'.status = marked.status
    BY <2>7 DEF Reported, MarkAcked, Shrink, Tracker
  <2>9. /\ StatusesKept(trackRx, marked)
        /\ \A r \in Window(marked.left, marked.right) : r \in acked => marked.status[r] = Received
        /\ \A r \in Window(marked.left, marked.right) :
             marked.status[r] = Lost /\ trackRx.status[r] # Lost =>
               /\ trackRx.status[r].st \in {"NotReceived", "Retransmitted"}
               /\ \E p \in acked \cap Window(trackRx.left, trackRx.right) : p > MarkOf(trackRx.status[r], r)
    BY <2>2, <2>5, MarkAckedStatus
  <2> HIDE DEF marked
  <2>10. /\ q \in Window(trackRx.left, trackRx.right)
         /\ trackRx.status[q].st \in {"NotReceived", "Retransmitted"} /\ q \notin acked
    BY <2>1, <2>8, <2>9 DEF StatusesKept, Received, Lost
  <2>11. PICK p \in acked : p > MarkOf(trackRx.status[q], q)
    BY <2>1, <2>8, <2>9
  <2>12. p \in Window(0, nextPkt) /\ p \in KnownReceived(acker)
    BY <2>2, <2>5 DEF FlowInv, PathTrue, acked
  <2>13. Undecided(trackRx.status, q)
    BY <2>10 DEF Undecided, Received, Lost
  <2>14. ~Flies(wire, q)
    BY <2>10, <2>11, <2>12, <2>13 DEF FateInv, SentBefore
  <2>15. ASSUME trackRx.status[q].st = "NotReceived", q \in KnownReceived(acker)
         PROVE  FALSE
    <3>1. Tells(ackPath, q)
      BY <2>6, <2>7, <2>10, <2>15 DEF FateInv, ArrivalsTold
    <3>2. p > q /\ p \in AckedBy(ackPath[1])
      BY <2>5, <2>11, <2>15 DEF MarkOf, acked
    <3>3. PICK j \in 1..1 : q \in AckedBy(ackPath[j])
      BY <2>5, <3>1, <3>2 DEF Tells
    <3>4. j = 1
      OBVIOUS
    <3> QED
      BY <2>5, <2>10, <3>3, <3>4 DEF acked
  <2> QED
    BY <2>14, <2>15 DEF OnWire, Flies
<1>2. FlowSpec => [][Needed]_flowVars
  BY <1>1, FlowFate, PTL DEF FlowSpec
<1> QED
  BY <1>2 DEF FastRetransmitIsNeeded
=============================================================================
