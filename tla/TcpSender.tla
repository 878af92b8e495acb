----------------------------- MODULE TcpSender -----------------------------
(***************************************************************************)
(* TcpSender of src/src/transport.rs, with the scheduler that calls it     *)
(* back and an environment that may return any ack for what was sent.      *)
(*                                                                         *)
(* One action is one call of a handler of the NetObj: `event` for a        *)
(* Transmit or a Timeout that falls due, `push` for an ack.  The           *)
(* congestion control is known by what it answers: each callback (on_send, *)
(* on_ack, on_timeout) lets it choose a new window and intersend time.     *)
(***************************************************************************)
EXTENDS TrackRxPackets, TcpRto, Sequences

CONSTANTS StartTime,    \* start_time
          TxLength,     \* tx_length: [kind, amount], in ticks or in bytes
          PktSize,      \* config.pkt_size
          Cwnds,        \* the windows the congestion control may answer
          Intersends,   \* the intersend times it may answer
          Till,         \* config.sim_dur: no event runs after it
          MaxEvents     \* bound on the events a sender schedules

ASSUME SenderAssumption ==
  /\ StartTime \in Nat /\ Till \in Nat /\ MaxEvents \in Nat
  /\ TxLength \in [kind : {"Duration", "Bytes", "Infinite"}, amount : Nat]
  /\ PktSize \in Nat \ {0}
  /\ Cwnds \subseteq Nat /\ Intersends \subseteq Nat

VARIABLES
  now,          \* Scheduler::now
  nextPkt,      \* next_pkt
  trackRx,      \* track_rx
  lastTxTime,   \* last_tx_time
  lastAckTime,  \* last_ack_time
  txScheduled,  \* tx_scheduled
  rto,          \* rto
  cc,           \* what cc answers: [cwnd, intersend]
  pending,      \* scheduled events, each with its entry of event_uid_map
  nextUid,      \* event_uid_map.next_uid
  wire,         \* packets pushed to `next`, oldest first: [seq, sentTime]
  panicked      \* the process aborted

senderVars == <<now, nextPkt, trackRx, lastTxTime, lastAckTime, txScheduled,
                rto, cc, pending, nextUid, wire, panicked>>

-----------------------------------------------------------------------------
CcStates == [cwnd : Cwnds, intersend : Intersends]

(* An event and its entry in the map; `start` is the payload of Timeout. *)
Transmit(uid, when)       == [uid |-> uid, when |-> when, kind |-> "Transmit", start |-> 0]
Timeout(uid, when, start) == [uid |-> uid, when |-> when, kind |-> "Timeout", start |-> start]

Events == [uid : Nat, when : Nat, kind : {"Transmit", "Timeout"}, start : Nat]

PastDuration == TxLength.kind = "Duration" /\ StartTime + TxLength.amount < now
Covers(n)    == TxLength.kind = "Bytes" /\ n * PktSize >= TxLength.amount

(* Fault: one packet too few. *)
SentAllEarly(n) == PastDuration \/ Covers(n + 1)

(* Fault: one packet too many. *)
SentAllLate(n) == PastDuration \/ Covers(n - 1)

(* has_ended and sent_all *)
HasEnded(t) == PastDuration \/ Covers(ReceivedTill(t))
SentAll(n)  == PastDuration \/ Covers(n)

InFlight(n, t) == n - NumPktsReceived(t) - t.lost

-----------------------------------------------------------------------------
(***************************************************************************)
(* schedule_tx, at the end of a handler: it reads the packet counters the  *)
(* handler leaves.  `scheduled` is tx_scheduled when it is called, `events`*)
(* the events still pending, `answer` the congestion control's answers.    *)
(* The timeout's uid is taken before that of the transmission.             *)
(***************************************************************************)
(* Fault: a transmission due in the past. *)
DueTimeUnclamped(answer) == lastTxTime + answer.intersend

DueTime(answer) == Larger(now, lastTxTime + answer.intersend)

(* Fault: one packet more than the window. *)
MayTransmitAtWindow(answer) ==
  ~SentAll(nextPkt') /\ answer.cwnd >= InFlight(nextPkt', trackRx')

(* Fault: lost packets taken as in flight. *)
MayTransmitWithLost(answer) ==
  ~SentAll(nextPkt') /\ answer.cwnd > nextPkt' - NumPktsReceived(trackRx')

MayTransmit(answer) ==
  /\ ~SentAll(nextPkt')
  /\ answer.cwnd > InFlight(nextPkt', trackRx')

ScheduleTx(scheduled, events, answer) ==
  LET timer == Timeout(nextUid, now + Rto(rto'), now)
      tx    == Transmit(nextUid + 1, DueTime(answer))
  IN  /\ nextUid < MaxEvents
      /\ \/ /\ ~scheduled /\ MayTransmit(answer)
            /\ pending' = events \cup {timer, tx}
            /\ nextUid' = nextUid + 2
            /\ lastTxTime' = DueTime(answer)
            /\ txScheduled' = TRUE
         \/ /\ scheduled \/ ~MayTransmit(answer)
            /\ pending' = events \cup {timer}
            /\ nextUid' = nextUid + 1
            /\ txScheduled' = scheduled
            /\ UNCHANGED lastTxTime

-----------------------------------------------------------------------------
(* init: the first transmission and the first timeout. *)
FirstEvents == {Transmit(0, StartTime), Timeout(1, StartTime + Rto(NewRto), 0)}

(* new, and then init at time 0 *)
SenderInit ==
  /\ now = 0 /\ nextPkt = 0 /\ trackRx = NewTracker
  /\ lastTxTime = 0 /\ lastAckTime = 0 /\ txScheduled = TRUE
  /\ rto = NewRto
  /\ cc \in CcStates
  /\ pending = FirstEvents
  /\ nextUid = 2
  /\ wire = <<>>
  /\ panicked = FALSE

(* event: the scheduler takes the due event e off its calendar. *)
Due(e) == e \in pending /\ e.when = now

EventAfterEnd(e) ==
  /\ Due(e) /\ HasEnded(trackRx)
  /\ pending' = pending \ {e}
  /\ UNCHANGED <<now, nextPkt, trackRx, lastTxTime, lastAckTime, txScheduled,
                 rto, cc, nextUid, wire, panicked>>

(* tx_packet, then schedule_tx *)
Send(e, seq) ==
  /\ Due(e) /\ ~HasEnded(trackRx) /\ e.kind = "Transmit"
  /\ wire' = Append(wire, [seq |-> seq, sentTime |-> now])
  /\ cc' \in CcStates
  /\ UNCHANGED rto
  /\ ScheduleTx(FALSE, pending \ {e}, cc')
  /\ UNCHANGED <<now, lastAckTime, panicked>>

(* Fault: a fresh packet goes out in place of the lost one. *)
RetransmitOther(e) ==
  /\ trackRx.lost > 0
  /\ trackRx' = MarkPkt(trackRx, FirstLost(trackRx), Retransmitted(0, nextPkt))
  /\ UNCHANGED nextPkt
  /\ Send(e, nextPkt)

Retransmit(e) ==
  /\ trackRx.lost > 0
  /\ trackRx' = MarkPkt(trackRx, FirstLost(trackRx), Retransmitted(0, nextPkt))
  /\ UNCHANGED nextPkt
  /\ Send(e, FirstLost(trackRx))

TransmitFresh(e) ==
  /\ trackRx.lost = 0
  /\ trackRx' = MarkPkt(trackRx, nextPkt, NotReceived(0))
  /\ nextPkt' = nextPkt + 1
  /\ Send(e, nextPkt)

(* Fault: tx_scheduled is forgotten. *)
TimeoutFiresAnew(e) ==
  /\ Due(e) /\ ~HasEnded(trackRx)
  /\ e.kind = "Timeout" /\ lastAckTime <= e.start
  /\ trackRx' = MarkAllAsLost(trackRx)
  /\ rto' = ReportTimeout(rto)
  /\ cc' \in CcStates
  /\ UNCHANGED nextPkt
  /\ ScheduleTx(FALSE, pending \ {e}, cc')
  /\ UNCHANGED <<now, lastAckTime, wire, panicked>>

TimeoutFires(e) ==
  /\ Due(e) /\ ~HasEnded(trackRx)
  /\ e.kind = "Timeout" /\ lastAckTime <= e.start
  /\ trackRx' = MarkAllAsLost(trackRx)
  /\ rto' = ReportTimeout(rto)
  /\ cc' \in CcStates
  /\ UNCHANGED nextPkt
  /\ ScheduleTx(txScheduled, pending \ {e}, cc')
  /\ UNCHANGED <<now, lastAckTime, wire, panicked>>

(* Fault: an ack at the time the timer started makes it stale. *)
TimeoutStaleAtStart(e) ==
  /\ Due(e) /\ ~HasEnded(trackRx)
  /\ e.kind = "Timeout" /\ lastAckTime >= e.start
  /\ pending' = pending \ {e}
  /\ UNCHANGED <<now, nextPkt, trackRx, lastTxTime, lastAckTime, txScheduled,
                 rto, cc, nextUid, wire, panicked>>

TimeoutStale(e) ==
  /\ Due(e) /\ ~HasEnded(trackRx)
  /\ e.kind = "Timeout" /\ lastAckTime > e.start
  /\ pending' = pending \ {e}
  /\ UNCHANGED <<now, nextPkt, trackRx, lastTxTime, lastAckTime, txScheduled,
                 rto, cc, nextUid, wire, panicked>>

-----------------------------------------------------------------------------
(* push: an ack is [sentTime, cum, sack], sack the packets its blocks cover. *)

AckedBy(ack) == Window(0, ack.cum) \cup ack.sack

IgnoreAck == HasEnded(trackRx) /\ UNCHANGED senderVars

(* Fault: it is asked before the ack is applied. *)
AckIsFreshBefore(marked, ack) == GetPktStatus(trackRx, ack.cum - 1) = NotReceived(0)

(* Whether the ack resets the backoff: asked of the tracker that already has *)
(* the packet down as received.                                             *)
AckIsFresh(marked, ack) == GetPktStatus(marked, ack.cum - 1) = NotReceived(0)

(***************************************************************************)
(* With num_lost > 0, schedule_tx runs before on_ack, and reads the old    *)
(* answers of the congestion control; otherwise after it.                  *)
(***************************************************************************)
PushAck(ack) ==
  LET marked  == MarkAcked(trackRx, AckedBy(ack))
      sampled == ReportRtt(rto, now - ack.sentTime)
  IN  /\ ~HasEnded(trackRx) /\ ack.cum > 0
      /\ UNCHANGED <<now, nextPkt, wire, panicked>>
      /\ trackRx' = Reported(marked)
      /\ lastAckTime' = now
      /\ rto' = IF AckIsFresh(marked, ack) THEN ReportFreshAck(sampled) ELSE sampled
      /\ cc' \in CcStates
      /\ ScheduleTx(txScheduled, pending, IF marked.unreported > 0 THEN cc ELSE cc')

(* `*cum_ack - 1` when nothing is acked cumulatively: 0 - 1 on a u64 panics, *)
(* or in a release build indexes the deque far out of its bounds.            *)
AckPanics(ack) ==
  /\ ~HasEnded(trackRx) /\ ack.cum = 0
  /\ panicked' = TRUE
  /\ UNCHANGED <<now, nextPkt, trackRx, lastTxTime, lastAckTime, txScheduled,
                 rto, cc, pending, nextUid, wire>>

-----------------------------------------------------------------------------
(* The environment *)

(* The scheduler moves on when nothing is left to do at this time. *)
AdvanceTime ==
  /\ now < Till
  /\ \A e \in pending : e.when # now
  /\ now' = now + 1
  /\ UNCHANGED <<nextPkt, trackRx, lastTxTime, lastAckTime, txScheduled,
                 rto, cc, pending, nextUid, wire, panicked>>

(* The network takes a packet: the oldest arrives, or any of them is dropped. *)
Without(s, i) == SubSeq(s, 1, i - 1) \o SubSeq(s, i + 1, Len(s))

NetworkTakes(i) ==
  /\ i \in DOMAIN wire
  /\ wire' = Without(wire, i)
  /\ UNCHANGED <<now, nextPkt, trackRx, lastTxTime, lastAckTime, txScheduled,
                 rto, cc, pending, nextUid, panicked>>

(* Any ack of packets already sent that does not take back a cumulative ack: *)
(* TcpFlow shows that the acks of a real receiver on a FIFO path are such.   *)
Acks == [sentTime : 0..now,
         cum : ReceivedTill(trackRx)..nextPkt,
         sack : SUBSET Window(0, nextPkt)]

HandleEvent(e) ==
  \/ EventAfterEnd(e) \/ Retransmit(e) \/ TransmitFresh(e)
  \/ TimeoutFires(e)  \/ TimeoutStale(e)

HandleAck(ack) == IgnoreAck \/ PushAck(ack) \/ AckPanics(ack)

SenderNext ==
  /\ ~panicked
  /\ \/ \E e \in pending : HandleEvent(e)
     \/ AdvanceTime
     \/ \E i \in DOMAIN wire : NetworkTakes(i)
     \/ \E ack \in Acks : HandleAck(ack)

SenderSpec == SenderInit /\ [][SenderNext]_senderVars

-----------------------------------------------------------------------------
(* Types *)

PacketsOnWire == [seq : Nat, sentTime : Nat]

TypeOK ==
  /\ now \in Nat /\ nextPkt \in Nat
  /\ lastTxTime \in Nat /\ lastAckTime \in Nat /\ nextUid \in Nat
  /\ txScheduled \in BOOLEAN /\ panicked \in BOOLEAN
  /\ TrackerType(trackRx)
  /\ rto \in RtoType
  /\ cc \in CcStates
  /\ pending \subseteq Events
  /\ wire \in Seq(PacketsOnWire)

-----------------------------------------------------------------------------
(* Safety *)

Ended       == HasEnded(trackRx)
Transmits   == {e \in pending : e.kind = "Transmit"}
LiveTimers  == {e \in pending : e.kind = "Timeout" /\ e.start >= lastAckTime}

(* The tracker is sound, its window ends at next_pkt, and every loss found  *)
(* by dupacks has been reported to the congestion control: the assertions   *)
(* of mark_pkt and push, and the unsigned subtractions of schedule_tx.      *)
TrackerMatchesSender ==
  /\ TrackerSound(trackRx)
  /\ trackRx.right = nextPkt
  /\ trackRx.unreported = 0

(* tx_scheduled is TRUE exactly when one Transmit is pending: a flow never  *)
(* has two transmit chains (it would send at twice its rate) and the flag   *)
(* is never left set without an event (it would never send again).          *)
OneTransmitPending ==
  ~Ended => /\ txScheduled <=> Transmits # {}
            /\ \A d, e \in Transmits : d = e

(* A flow that has not ended always has a timeout pending that no ack       *)
(* received so far has made stale: whatever is lost, it will wake up.       *)
TimerPending == ~Ended => LiveTimers # {}

(* Event uids are never reused, so no entry of event_uid_map is overwritten *)
(* and retrieve() always finds the event; and no event is in the past.      *)
EventsKnown ==
  \A d \in pending : /\ d.uid < nextUid /\ d.when >= now
                     /\ \A e \in pending : d.uid = e.uid => d = e

(* The packets in flight, counting the one a scheduled transmission will    *)
(* add, never exceed the largest window the congestion control answered     *)
(* (the first packet is sent without asking); and they never underflow.     *)
WindowRespected ==
  LET busy == InFlight(nextPkt, trackRx) + (IF txScheduled THEN 1 ELSE 0)
  IN  /\ InFlight(nextPkt, trackRx) >= 0
      /\ \/ busy <= 1
         \/ \E w \in Cwnds : busy <= w

(* No missed wake-up: a sender that still has data and has no transmission  *)
(* scheduled is held back by its window.                                    *)
WindowFilled ==
  ~Ended /\ ~txScheduled /\ ~SentAll(nextPkt)
    => \E w \in Cwnds : w <= InFlight(nextPkt, trackRx)

(* A flow of a given number of bytes sends no fresh packet beyond them.     *)
LengthRespected ==
  TxLength.kind = "Bytes" /\ nextPkt > 0 => (nextPkt - 1) * PktSize < TxLength.amount

(* What the order of push makes of the backoff: the packet it asks about is  *)
(* received by then, so no ack, fresh or not, ever resets the backoff,      *)
(* though report_fresh_ack "must be called when a newly transmitted packet  *)
(* is acked, so we may reset the backoff".                                  *)
BackoffNeverResets == [][rto'.backoff >= rto.backoff]_senderVars

(* CongestionControl::get_intersend_time is "the minimum interval between   *)
(* any two transmitted packets".                                            *)
Paced ==
  \A i \in 1..(Len(wire) - 1) :
    \E d \in Intersends : wire[i + 1].sentTime >= wire[i].sentTime + d

(* The process never aborts.                                                *)
NoPanic == ~panicked
=============================================================================
