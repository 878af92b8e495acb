------------------------------- MODULE CcFlow -------------------------------
(***************************************************************************)
(* A flow of TcpFlow whose sender runs one of the congestion controls of   *)
(* the repository and is observed by the tracer.  The actions are those of *)
(* TcpFlow: the callbacks of the algorithm fix what it answers there.      *)
(***************************************************************************)
EXTENDS TcpFlow, CongestionControl, SenderStats

CONSTANT CcConfigs      \* the configurations the first state may choose

(* What topology.rs reads of a configuration, and that no time a simulation  *)
(* reaches is Time::MAX.                                                    *)
ASSUME CcFlowAssumption ==
  /\ Till < TimeMax
  /\ \A config \in CcConfigs :
       /\ config.kind \in {"Const", "AIMD", "InstantCC", "OscInstantCC", "StableLinearCC",
                          "IncreaseBdpCC", "Copa", "Copa2"}
       /\ config.kind = "Const" => config.cwnd \in Nat /\ config.intersend \in Nat
       /\ config.kind = "StableLinearCC" => config.delay \in Nat

VARIABLES
  alg,          \* TcpSender::cc
  lastUid,      \* PktId::next
  wireUids,     \* the uids of the packets on `wire'
  ackUids,      \* ack_uid of the acks on `ackPath'
  stats         \* the sender's entry in Tracer::sender_stats

ccVars == <<flowVars, alg, lastUid, wireUids, ackUids, stats>>

-----------------------------------------------------------------------------
CcInit ==
  /\ alg \in {NewCc(config) : config \in CcConfigs}
  /\ cc \in Answers(alg)
  /\ FlowInit
  /\ lastUid = 0 /\ wireUids = <<>> /\ ackUids = <<>>
  /\ stats = NewSenderStats

NextSeq == IF trackRx.lost > 0 THEN FirstLost(trackRx) ELSE nextPkt

(* tx_packet: on_send is told the uid the packet carries. *)
CcSend ==
  /\ \E e \in Transmits :
       /\ Due(e) /\ ~Ended
       /\ alg' \in OnSend(alg, now, NextSeq, lastUid + 1)
       /\ cc' \in Answers(alg')
       /\ Retransmit(e) \/ TransmitFresh(e)
  /\ lastUid' = lastUid + 1
  /\ wireUids' = Append(wireUids, lastUid')
  /\ UNCHANGED <<acker, ackPath, losses, ackUids, stats>>

CcTimeout ==
  /\ \E e \in pending :
       /\ Due(e) /\ e.kind = "Timeout" /\ ~Ended
       /\ alg' = OnTimeout(alg)
       /\ cc' \in Answers(alg')
       /\ TimeoutFires(e)
  /\ stats' = LogSender(stats, now, 0, 0, 1)
  /\ UNCHANGED <<acker, ackPath, losses, lastUid, wireUids, ackUids>>

(* Events that do not reach the algorithm. *)
CcEventOver ==
  /\ \E e \in pending : EventAfterEnd(e) \/ TimeoutStale(e)
  /\ UNCHANGED <<acker, ackPath, losses, alg, lastUid, wireUids, ackUids, stats>>

(* What push computes for on_ack and for the tracer. *)
AckSeen(ack) ==
  [now  |-> now, cum |-> ack.cum, uid |-> Head(ackUids), rtt |-> now - ack.sentTime,
   lost |-> MarkAcked(trackRx, AckedBy(ack)).unreported]

CcPush ==
  /\ ackPath # <<>> /\ ~Ended /\ Head(ackPath).cum > 0
  /\ LET seen == AckSeen(Head(ackPath))
     IN  /\ alg' \in OnAck(alg, seen)
         /\ cc' \in Answers(alg')
         /\ stats' = LogSender(stats, now, seen.cum - ReceivedTill(trackRx), seen.lost, 0)
  /\ ReturnAck
  /\ ackUids' = Tail(ackUids)
  /\ UNCHANGED <<lastUid, wireUids>>

(* Acks that do not reach it: the flow has ended, or the sender aborts. *)
CcPushOver ==
  /\ ackPath # <<>> /\ (Ended \/ Head(ackPath).cum = 0)
  /\ ReturnAck
  /\ ackUids' = Tail(ackUids)
  /\ UNCHANGED <<alg, lastUid, wireUids, stats>>

(* Fault: the ack names the latest packet sent. *)
CcDeliverLatest ==
  /\ Deliver
  /\ wireUids' = Tail(wireUids)
  /\ ackUids' = Append(ackUids, lastUid)
  /\ UNCHANGED <<alg, lastUid, stats>>

(* The ack names the packet.  It also takes a uid for itself, from the same  *)
(* counter, which nobody looks at: only those of data packets are counted.   *)
CcDeliver ==
  /\ Deliver
  /\ wireUids' = Tail(wireUids)
  /\ ackUids' = Append(ackUids, Head(wireUids))
  /\ UNCHANGED <<alg, lastUid, stats>>

CcLose ==
  /\ Lose
  /\ \E i \in DOMAIN wire : /\ wire' = Without(wire, i)
                            /\ wireUids' = Without(wireUids, i)
  /\ UNCHANGED <<alg, lastUid, ackUids, stats>>

CcTick == Tick /\ UNCHANGED <<alg, lastUid, wireUids, ackUids, stats>>

Running == ~panicked /\ ~alg.aborted

CcRunEvent == Running /\ (CcSend \/ CcTimeout \/ CcEventOver)
CcReturn   == Running /\ (CcPush \/ CcPushOver)
CcArrive   == Running /\ CcDeliver
CcPass     == Running /\ CcTick

CcNext == CcRunEvent \/ CcReturn \/ CcArrive \/ CcPass \/ (Running /\ CcLose)

CcSpec == CcInit /\ [][CcNext]_ccVars

-----------------------------------------------------------------------------
(* Types *)

(* With the types: all that the algorithm may answer is an answer TcpFlow    *)
(* allows, so that no step of it is cut off.                                 *)
CcTypeOK ==
  /\ alg \in AlgType
  /\ cc \in Answers(alg) /\ Answers(alg) \subseteq CcStates
  /\ DOMAIN wireUids = DOMAIN wire /\ DOMAIN ackUids = DOMAIN ackPath
  /\ \A i \in DOMAIN wireUids : wireUids[i] \in 1..lastUid
  /\ \A i \in DOMAIN ackUids : ackUids[i] \in 1..lastUid

-----------------------------------------------------------------------------
(* Safety *)

(* The algorithms assert, unwrap and subtract what the order of their       *)
(* callbacks should make safe.  It does, but for Copa when round trips are   *)
(* longer than half its base window, so that the standing window is the     *)
(* longer one: no RTT is below the least RTT (InstantCC), no uid is unknown *)
(* (Copa2, whatever is dropped or retransmitted), no marker is missing      *)
(* (IncreaseBdpCC), and no loss is seen where nothing is dropped (Copa2).   *)
(* HistoryCoversAcks and Copa2SeesNoLoss are about the two that remain.     *)
AbortsExplained ==
  /\ alg.aborted =>
       \/ alg.kind = "StableLinearCC"
       \/ alg.kind = "Copa2" /\ losses > 0
       \/ alg.kind = "Copa" /\ \E s \in alg.standing.samples : 2 * s.rtt > BaseHist
  /\ alg.kind = "Copa2" /\ ~alg.aborted =>
       /\ \A i \in DOMAIN wireUids : wireUids[i] \in alg.known
       /\ \A i \in DOMAIN ackUids : ackUids[i] \in alg.known

(* The minimum of each RTTWindow is that of the samples it holds, however   *)
(* the period of its history changed; and Copa's standing window holds      *)
(* nothing that its base window has forgotten, slow round trips excepted,   *)
(* or the standing RTT could be below the base RTT.                         *)
WindowsExact ==
  /\ alg.kind = "Copa" =>
       /\ MinExact(alg.base) /\ MinExact(alg.standing)
       /\ \A s \in alg.standing.samples \ alg.base.samples : 2 * s.rtt > BaseHist
  /\ alg.kind = "Copa2" => MinExact(alg.long)

(* No series of losses and timeouts closes the window for good; but         *)
(* OscInstantCC does, once it has seen a round trip that took no time.      *)
WindowNeverCloses ==
  \/ cc.cwnd >= 1
  \/ alg.kind = "OscInstantCC" /\ alg.rttMin = 0

(* The intervals of the configuration share out all time. *)
Partition ==
  /\ StatsIntervals # <<>> /\ StatsIntervals[1].from = 0
  /\ StatsIntervals[Len(StatsIntervals)].to = TimeMax
  /\ \A i \in DOMAIN StatsIntervals : StatsIntervals[i].from <= StatsIntervals[i].to
  /\ \A i \in 2..Len(StatsIntervals) : StatsIntervals[i].from = StatsIntervals[i - 1].to

Total(entry, field) ==
  LET sum[n \in 0..Len(entry)] == IF n = 0 THEN 0 ELSE sum[n - 1] + entry[n][field]
  IN  sum[Len(entry)]

(* Over intervals that share out the time, the statistics add up: the       *)
(* packets counted as acked are those the sender knows to have arrived      *)
(* without a gap, each counted once; and no more losses are counted than    *)
(* packets were dropped, as long as the SACK blocks of an ack have room for *)
(* all gaps (with three packets they do).                                   *)
StatsAddUp ==
  Partition =>
    /\ Total(stats, "cumAcked") = ReceivedTill(trackRx)
    /\ Total(stats, "lost") <= losses

-----------------------------------------------------------------------------
(* What the comments of the algorithms say *)

(* The ack the sender handles next, when that reaches the algorithm. *)
AckIsNext ==
  /\ Running /\ ~Ended
  /\ ackPath # <<>> /\ Head(ackPath).cum > 0

(* StableLinearCC keeps "a historical record of cwnds when each unacked      *)
(* packet was sent (assumes no re-ordering)": an ack that comes in order and *)
(* tells of no loss finds the record of a packet it covers.                 *)
HistoryCoversAcks ==
  alg.kind = "StableLinearCC" /\ AckIsNext /\ AckSeen(Head(ackPath)).lost = 0
    => Forgotten(alg.hist, Head(ackPath).cum) > 0

(* Copa2 asserts that no ack tells it of a loss, on any path. *)
Copa2SeesNoLoss ==
  alg.kind = "Copa2" /\ AckIsNext => AckSeen(Head(ackPath)).lost = 0
=============================================================================
