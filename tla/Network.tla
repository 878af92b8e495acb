------------------------------- MODULE Network -------------------------------
(***************************************************************************)
(* The network objects of src/src/base.rs wired as src/src/topology.rs     *)
(* does, between senders that send when they like and ackers that ack      *)
(* every packet:                                                           *)
(*                                                                         *)
(*   sender -> delay -> link -> router -> acker -> aggregator -> sender    *)
(*                                                                         *)
(* `agenda` is the scheduler's calendar in the order of scheduling; the    *)
(* module Scheduler shows that it runs as here, earliest first and in that *)
(* order at equal times.  One step is one call of a handler.               *)
(***************************************************************************)
EXTENDS Topology, LinkTrace, LinkStats, FiniteSets

CONSTANTS Delays,       \* the delay of each flow
          Links,        \* the configurations the link's trace may have
          BufSizes,     \* its bufsize: [kind |-> "Finite", size |-> n] or
                        \* [kind |-> "Infinite"]
          AggGaps,      \* each flow's samples of agg_intersend; {0} is Const(0)
          SendGaps,     \* the times a sender may wait between packets
          MaxPkts,      \* bound on the packets of a flow
          Till          \* config.sim_dur

ASSUME NetworkAssumption ==
  /\ Delays \in [Flows -> Nat]
  /\ \A link \in Links : IsLink(link)
  /\ \A size \in BufSizes :
       size.kind = "Infinite" \/ (size.kind = "Finite" /\ size.size \in Nat)
  /\ AggGaps \in [Flows -> SUBSET Nat]
  /\ \A f \in Flows : \E longest \in AggGaps[f] : \A g \in AggGaps[f] : g <= longest
  /\ SendGaps \subseteq Nat /\ MaxPkts \in Nat /\ Till \in Nat

VARIABLES
  now,          \* Scheduler::now
  agenda,       \* scheduled actions: [when, to, act, pkt]
  bufsize,      \* Link::bufsize
  buffer,       \* Link::buffer
  trace,        \* Link::link_trace
  nextOpp,      \* Aggregator::next_opp of each flow
  sent,         \* how many packets each sender has sent
  linkStats,    \* Tracer::link_stats of the link: its buckets
  opps          \* history: the opportunities the link has had

netVars == <<now, agenda, bufsize, buffer, trace, nextOpp, sent, linkStats,
             opps>>

-----------------------------------------------------------------------------
Packet(type, src, dest, seq, sentTime) ==
  [type |-> type, src |-> src, dest |-> dest, seq |-> seq, sentTime |-> sentTime]

NoPacket == Packet("None", None, None, 0, 0)

Push(when, to, pkt) == [when |-> when, to |-> to, act |-> "Push", pkt |-> pkt]
Event(when, to)     == [when |-> when, to |-> to, act |-> "Event", pkt |-> NoPacket]

Packets == [type : {"Data", "Ack", "None"}, src : Int, dest : Int, seq : Nat, sentTime : Nat]

Actions == [when : Nat, to : Ids, act : {"Event", "Push"}, pkt : Packets]

(* The elements of s that are in S, in the order of s. *)
Chosen(s, S) ==
  LET upTo[n \in 0..Len(s)] ==
        IF n = 0 THEN <<>>
        ELSE IF s[n] \in S THEN Append(upTo[n - 1], s[n]) ELSE upTo[n - 1]
  IN  upTo[Len(s)]

(* The init() of every object, in the order of their ids. *)
InitialEvents ==
  Chosen([i \in 1..Len(Objects) |-> Event(0, i - 1)],
         {e \in Actions : Obj(e.to).kind \in {"Link", "Sender"}})

Init ==
  /\ now = 0
  /\ agenda = InitialEvents
  /\ bufsize \in BufSizes /\ buffer = <<>>
  /\ trace \in {NewTrace(link) : link \in Links}
  /\ nextOpp = [f \in Flows |-> 0]
  /\ sent = [f \in Flows |-> 0]
  /\ linkStats = <<>> /\ opps = 0

(* The i-th action on the agenda runs, for an object of this kind: the       *)
(* handler returned these actions.                                          *)
Without(s, i) == SubSeq(s, 1, i - 1) \o SubSeq(s, i + 1, Len(s))

(* Fault: the latest of those at the same time. *)
IsNextLast(i) ==
  /\ agenda[i].when <= Till
  /\ \A j \in DOMAIN agenda :
       \/ agenda[i].when < agenda[j].when
       \/ agenda[i].when = agenda[j].when /\ i >= j

IsNext(i) ==
  /\ agenda[i].when <= Till
  /\ \A j \in DOMAIN agenda :
       \/ agenda[i].when < agenda[j].when
       \/ agenda[i].when = agenda[j].when /\ i <= j

Runs(i, kind, act) == IsNext(i) /\ Obj(agenda[i].to).kind = kind /\ agenda[i].act = act

Returns(i, actions) ==
  /\ now' = agenda[i].when
  /\ agenda' = Without(agenda, i) \o actions

-----------------------------------------------------------------------------
(* TcpSender::event sends a packet (tx_packet), or has nothing left to send. *)
SenderSends(i) ==
  LET self == Obj(agenda[i].to)
      pkt  == Packet("Data", self.addr, self.dest, sent[self.flow], now')
  IN  /\ Runs(i, "Sender", "Event") /\ sent[self.flow] < MaxPkts
      /\ \E g \in SendGaps :
           Returns(i, <<Push(now', self.next, pkt), Event(now' + g, agenda[i].to)>>)
      /\ sent' = [sent EXCEPT ![self.flow] = @ + 1]
      /\ UNCHANGED <<bufsize, buffer, trace, nextOpp, linkStats, opps>>

(* Fault: a sender with nothing left to send tries again at once. *)
SenderSpins(i) ==
  /\ Runs(i, "Sender", "Event") /\ sent[Obj(agenda[i].to).flow] = MaxPkts
  /\ Returns(i, <<Event(now', agenda[i].to)>>)
  /\ UNCHANGED <<bufsize, buffer, trace, nextOpp, sent, linkStats, opps>>

SenderStops(i) ==
  /\ Runs(i, "Sender", "Event") /\ sent[Obj(agenda[i].to).flow] = MaxPkts
  /\ Returns(i, <<>>)
  /\ UNCHANGED <<bufsize, buffer, trace, nextOpp, sent, linkStats, opps>>

(* TcpSender::push asserts that the ack is for it. *)
SenderGetsAck(i) ==
  /\ Runs(i, "Sender", "Push") /\ agenda[i].pkt.dest = Obj(agenda[i].to).addr
  /\ Returns(i, <<>>)
  /\ UNCHANGED <<bufsize, buffer, trace, nextOpp, sent, linkStats, opps>>

DelayPush(i) ==
  LET self == Obj(agenda[i].to)
  IN  /\ Runs(i, "Delay", "Push")
      /\ Returns(i, <<Push(now' + Delays[self.flow], self.next, agenda[i].pkt)>>)
      /\ UNCHANGED <<bufsize, buffer, trace, nextOpp, sent, linkStats, opps>>

(* Fault: off by one. *)
BufferFullLate == bufsize.kind = "Finite" /\ Len(buffer) > bufsize.size

BufferFull == bufsize.kind = "Finite" /\ Len(buffer) >= bufsize.size

(* Link::push traces every packet, before it knows whether it has room. *)
LinkLogsIngress(i) ==
  linkStats' = LogIngress(linkStats, agenda[i].when, agenda[i].pkt.src, PktSize)

LinkQueues(i) ==
  /\ Runs(i, "Link", "Push") /\ ~BufferFull
  /\ buffer' = Append(buffer, agenda[i].pkt)
  /\ Returns(i, <<>>)
  /\ LinkLogsIngress(i)
  /\ UNCHANGED <<bufsize, trace, nextOpp, sent, opps>>

LinkDrops(i) ==
  /\ Runs(i, "Link", "Push") /\ BufferFull
  /\ Returns(i, <<>>)
  /\ LinkLogsIngress(i)
  /\ UNCHANGED <<bufsize, buffer, trace, nextOpp, sent, opps>>

(* A transmit opportunity: it carries pkt_size bytes, which is one packet,  *)
(* as the senders make all of theirs that large.                            *)
Departing == IF buffer = <<>> THEN <<>> ELSE <<Head(buffer)>>

LinkEvent(i) ==
  LET self == Obj(agenda[i].to)
  IN  /\ Runs(i, "Link", "Event")
      /\ \E tx \in NextTx(trace, agenda[i].when) :
           /\ trace' = tx.trace
           /\ Returns(i, <<Event(tx.at, agenda[i].to)>>
                           \o [k \in DOMAIN Departing |-> Push(now', self.next, Departing[k])])
      /\ buffer' = SubSeq(buffer, Len(Departing) + 1, Len(buffer))
      /\ LET counted == LogOpportunity(linkStats, now')
         IN  linkStats' = IF Departing = <<>> THEN counted ELSE LogEgress(counted, now', PktSize)
      /\ opps' = opps + 1
      /\ UNCHANGED <<bufsize, nextOpp, sent>>

(* With no route, the handler returns an error. *)
RouterPush(i) ==
  /\ Runs(i, "Router", "Push") /\ HasRoute(agenda[i].pkt.dest)
  /\ Returns(i, <<Push(now', PortTo(agenda[i].pkt.dest), agenda[i].pkt)>>)
  /\ UNCHANGED <<bufsize, buffer, trace, nextOpp, sent, linkStats, opps>>

(* Acker::push asserts that the packet is for it; TcpFlow has its tracker. *)
AckerPush(i) ==
  LET self == Obj(agenda[i].to)
      pkt  == agenda[i].pkt
      ack  == Packet("Ack", self.addr, pkt.src, pkt.seq, pkt.sentTime)
  IN  /\ Runs(i, "Acker", "Push") /\ pkt.dest = self.addr
      /\ Returns(i, <<Push(now', self.next, ack)>>)
      /\ UNCHANGED <<bufsize, buffer, trace, nextOpp, sent, linkStats, opps>>

(* Fault: one sample only (`if` for `while`). *)
MovedOnOnce(opp, gaps, t) == IF opp > t THEN {opp} ELSE {opp + g : g \in gaps}

(* Fault: an interval of its own for every ack. *)
MovedOnFromNow(opp, gaps, t) == {t + g : g \in gaps}

(***************************************************************************)
(* Aggregator::push: next_opp moves on by samples until it is in the       *)
(* future, or to `now` when there is no aggregation.  Samples below one    *)
(* microsecond are truncated to 0 and do not move it.                      *)
(***************************************************************************)
Longest(gaps) == CHOOSE g \in gaps : \A h \in gaps : h <= g

MovedOn(opp, gaps, t) ==
  LET from[o \in opp..(t + Longest(gaps))] ==
        IF o > t THEN {o} ELSE UNION {from[o + g] : g \in gaps \ {0}}
  IN  IF opp > t THEN {opp} ELSE IF gaps = {0} THEN {t} ELSE from[opp]

AggregatorPush(i) ==
  LET self == Obj(agenda[i].to)
  IN  /\ Runs(i, "Aggregator", "Push")
      /\ \E opp \in MovedOn(nextOpp[self.flow], AggGaps[self.flow], agenda[i].when) :
           /\ nextOpp' = [nextOpp EXCEPT ![self.flow] = opp]
           /\ Returns(i, <<Push(opp, self.next, agenda[i].pkt)>>)
      /\ UNCHANGED <<bufsize, buffer, trace, sent, linkStats, opps>>

(* simulate stops at the first action after `till`. *)
Finished == \A i \in DOMAIN agenda : agenda[i].when > Till

Stop == Finished /\ UNCHANGED netVars

Step(i) ==
  \/ SenderSends(i) \/ SenderStops(i) \/ SenderGetsAck(i) \/ DelayPush(i)
  \/ LinkQueues(i) \/ LinkDrops(i) \/ LinkEvent(i) \/ RouterPush(i)
  \/ AckerPush(i) \/ AggregatorPush(i)

Next == Stop \/ \E i \in DOMAIN agenda : Step(i)

Spec     == Init /\ [][Next]_netVars
FairSpec == Spec /\ WF_netVars(Next)

-----------------------------------------------------------------------------
(* Types *)

TypeOK ==
  /\ now \in 0..Till
  /\ sent \in [Flows -> 0..MaxPkts]
  /\ DOMAIN nextOpp = Flows
  /\ \A i \in DOMAIN agenda :
       agenda[i].when >= now /\ agenda[i].to \in Ids /\ agenda[i].act \in {"Event", "Push"}

-----------------------------------------------------------------------------
(* Safety *)

(* Every packet on the agenda is where its handler can take it: at its own   *)
(* flow's objects, at an acker or a sender only when it is addressed to it,  *)
(* at the router only with a route.  This is what the two assertions and the *)
(* error of Router::push check, and depends on ids computed in advance.      *)
Routed ==
  \A i \in DOMAIN agenda :
    LET at  == Obj(agenda[i].to)
        pkt == agenda[i].pkt
    IN  agenda[i].act = "Push" =>
          CASE at.kind = "Sender"     -> pkt.type = "Ack" /\ pkt.dest = at.addr
            [] at.kind = "Aggregator" -> pkt.type = "Ack" /\ pkt.dest = Obj(at.next).addr
            [] at.kind = "Acker"      -> pkt.type = "Data" /\ pkt.dest = at.addr
            [] at.kind = "Router"     -> pkt.type = "Data" /\ HasRoute(pkt.dest)
            [] OTHER                  -> pkt.type = "Data"

(* Exactly one opportunity is pending at the link, and it is due when it     *)
(* should be: the k-th at k gaps at a constant rate; in a trace file of n    *)
(* lines, at the lines' times less that of the first, pass after pass, the   *)
(* first line of a pass at the time of the last of the pass before.          *)
OpportunityTime(link, k) ==
  CASE link.kind = "Const" -> k * Gap(link.rate)
    [] link.kind = "Mahimahi" ->
         IF k = 0 THEN 0
         ELSE LET n    == Len(link.times)
                  pass == (k - 1) \div n
                  line == ((k - 1) % n) + 1
              IN  pass * (link.times[n] - link.times[1]) + link.times[line] - link.times[1]

Opportunities ==
  {i \in DOMAIN agenda : agenda[i].to = LinkId /\ agenda[i].act = "Event"}

LinkOnSchedule ==
  \E i \in Opportunities :
    /\ Opportunities = {i}
    /\ trace.link.kind \in {"Const", "Mahimahi"} =>
         agenda[i].when = OpportunityTime(trace.link, opps)

(* The flow a packet belongs to is that of the object that made it. *)
FlowOf(pkt) == Obj(CHOOSE id \in Ids : Obj(id).addr = pkt.src).flow

PushesAt(kind, flow) ==
  {e \in Actions : e.act = "Push" /\ Obj(e.to).kind = kind /\ FlowOf(e.pkt) = flow}

AtKind(kind, flow) == Chosen(agenda, PushesAt(kind, flow))

InBuffer(flow) == Chosen(buffer, {pkt \in Packets : FlowOf(pkt) = flow})

(* At a constant rate a packet waits for no more opportunities than there   *)
(* are places in the buffer, and its ack for one aggregation interval: no   *)
(* packet and no ack takes longer, whatever the flows send.                 *)
LatestArrival(pkt) ==
  pkt.sentTime + Delays[FlowOf(pkt)] + bufsize.size * Gap(trace.link.rate)

QueueingBounded ==
  trace.link.kind = "Const" /\ bufsize.kind = "Finite" =>
    /\ \A i \in DOMAIN buffer : now <= LatestArrival(buffer[i])
    /\ \A i \in DOMAIN agenda :
         agenda[i].act = "Push" =>
           agenda[i].when <=
             LatestArrival(agenda[i].pkt)
               + (IF Obj(agenda[i].to).kind # "Sender" THEN 0
                  ELSE Longest(AggGaps[FlowOf(agenda[i].pkt)]))

(* An aggregator lets acks go together or at least one interval apart: acks *)
(* on their way to a sender are due at the same time or that far apart.     *)
AcksAggregated ==
  \A flow \in Flows :
    LET acks == AtKind("Sender", flow)
    IN  \A i, j \in DOMAIN acks :
          acks[i].when < acks[j].when =>
            \E g \in AggGaps[flow] : acks[j].when >= acks[i].when + g

(* The buckets account for every packet and every opportunity: they follow  *)
(* each other without a gap up to the present; a flow's ingress is what it   *)
(* sent and is not delayed any more, dropped packets included; the egress is *)
(* the ingress that neither waits nor was dropped, and within what the       *)
(* opportunities of the bucket allow; a flow once seen is in every bucket.   *)
Total(count) ==
  LET upTo[n \in 0..Len(count)] == IF n = 0 THEN 0 ELSE upTo[n - 1] + count[n]
  IN  upTo[Len(count)]

InBuckets(field) == Total([k \in DOMAIN linkStats |-> linkStats[k][field]])

IngressOf(flow) ==
  LET from == CHOOSE obj \in {Obj(id) : id \in Ids} : obj.kind = "Sender" /\ obj.flow = flow
  IN  Total([k \in DOMAIN linkStats |->
               IF from.addr \in DOMAIN linkStats[k].ingress
               THEN linkStats[k].ingress[from.addr] ELSE 0])

Arrived(flow) == sent[flow] - Len(AtKind("Delay", flow)) - Len(AtKind("Link", flow))

LinkTraced ==
  /\ \A k \in DOMAIN linkStats :
       /\ linkStats[k].start = (k - 1) * LinkBucketSize /\ linkStats[k].start <= now
       /\ PktSize <= TxOppBytes => linkStats[k].egress <= linkStats[k].opps
       /\ k > 1 => DOMAIN linkStats[k - 1].ingress \subseteq DOMAIN linkStats[k].ingress
  /\ InBuckets("opps") = opps * TxOppBytes
  /\ \A flow \in Flows : IngressOf(flow) = Arrived(flow) * PktSize
  /\ bufsize.kind = "Infinite" =>
       InBuckets("egress") + Len(buffer) * PktSize = Total([n \in 1..NumFlows |-> Arrived(n - 1) * PktSize])

(* The doc of Piecewise: "Give the rate and duration for which it applies   *)
(* [...]. Loops after it reaches the end."  The piece an opportunity uses   *)
(* is one that applies at its time (two of them do where one ends).         *)
PieceStart(k) ==
  LET start[j \in 0..Len(trace.link.spans)] == IF j = 0 THEN 0 ELSE start[j - 1] + trace.link.spans[j]
  IN  start[k]

PiecesAt(t) ==
  LET n     == Len(trace.link.spans)
      phase == t % PieceStart(n)
  IN  {k \in 0..(n - 1) : PieceStart(k) <= phase /\ phase <= PieceStart(k + 1)}
        \cup (IF phase = 0 THEN {n - 1} ELSE {})

PiecewiseFollows ==
  [][opps' # opps /\ trace.link.kind = "Piecewise" => trace'.cur \in PiecesAt(now')]_netVars

-----------------------------------------------------------------------------
(* The packets of a flow between its sender and its acker, the oldest first, *)
(* and the acks on their way back: what LossyFifo calls wire and acks.       *)
SeqsOf(pushes) == [i \in DOMAIN pushes |-> pushes[i].pkt.seq]

OnWire(flow) ==
  SeqsOf(AtKind("Acker", flow)) \o SeqsOf(AtKind("Router", flow))
    \o [i \in DOMAIN InBuffer(flow) |-> InBuffer(flow)[i].seq]
    \o SeqsOf(AtKind("Link", flow)) \o SeqsOf(AtKind("Delay", flow))

OnAckPath(flow) ==
  SeqsOf(AtKind("Sender", flow)) \o SeqsOf(AtKind("Aggregator", flow))

Path(flow) == INSTANCE LossyFifo WITH
  sent <- sent[flow], wire <- OnWire(flow), acks <- OnAckPath(flow)

(* To each flow the network is a FIFO path that may drop, and a FIFO return  *)
(* path that may not, whatever the other flows do: Path(flow)!FifoSpec for   *)
(* each of them, written as one formula.                                     *)
PerFlowFifo ==
  /\ \A flow \in Flows : Path(flow)!FifoInit
  /\ [][\A flow \in Flows : [Path(flow)!FifoNext]_(Path(flow)!fifoVars)]_netVars

(* The simulated time passes: the simulation comes to its end.               *)
SimulationEnds == <>Finished
=============================================================================
