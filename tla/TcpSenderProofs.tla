--------------------------- MODULE TcpSenderProofs ---------------------------
(***************************************************************************)
(* Invariants of TcpSender, for every flow, window, pacing and ack.        *)
(*                                                                         *)
(* They are proved together: SenderInv is inductive, and each step of the  *)
(* proof is one handler.  Two conjuncts are there to make it inductive:    *)
(* a scheduled transmission still has a packet to send (LengthReserved),   *)
(* and no ack was received in the future (AckTimePast).  The second part   *)
(* is about the window and the pacing.                                     *)
(***************************************************************************)
EXTENDS TcpSender, TrackRxProofs, SequenceTheorems

LengthReserved == ~Ended /\ txScheduled => ~Covers(nextPkt)

AckTimePast == lastAckTime <= now

SenderInv ==
  /\ TypeOK
  /\ AckTimePast
  /\ TrackerMatchesSender
  /\ EventsKnown
  /\ OneTransmitPending
  /\ TimerPending
  /\ LengthReserved
  /\ LengthRespected

-----------------------------------------------------------------------------
(* TcpRto *)

(* The types of the retransmission timeout and its constants.               *)
LEMMA RtoTypes ==
  ASSUME NEW r \in RtoType
  PROVE  /\ Rto(r) \in Nat
         /\ ReportTimeout(r) \in RtoType /\ ReportFreshAck(r) \in RtoType
         /\ \A rtt \in Nat : ReportRtt(r, rtt) \in RtoType
<1>1. /\ r.srtt \in Nat /\ r.rttvar \in Nat /\ r.backoff \in 1..MaxBackoff
      /\ r = [srtt |-> r.srtt, rttvar |-> r.rttvar, backoff |-> r.backoff]
  BY DEF RtoType
<1>2. Rto(r) \in Nat
  <2> DEFINE n == (r.srtt + 4 * r.rttvar) * r.backoff
  <2>1. n \in Int
    BY <1>1
  <2> HIDE DEF n
  <2>2. Larger(MinRto, Smaller(MaxRto, n)) \in Nat
    BY <2>1, RtoAssumption DEF Larger, Smaller
  <2> QED
    BY <2>2 DEF Rto, n
<1>3. ReportTimeout(r) \in RtoType
  <2>1. Smaller(MaxBackoff, 2 * r.backoff) \in 1..MaxBackoff
    BY <1>1, RtoAssumption DEF Smaller
  <2> QED
    BY <1>1, <2>1 DEF ReportTimeout, RtoType
<1>4. ReportFreshAck(r) \in RtoType
  BY <1>1, RtoAssumption DEF ReportFreshAck, RtoType
<1>5. ASSUME NEW rtt \in Nat
      PROVE  ReportRtt(r, rtt) \in RtoType
  <2>1. rtt \div 2 \in Nat /\ (7 * r.srtt + rtt) \div 8 \in Nat
    BY <1>1
  <2>2. Abs(r.srtt - rtt) \in Nat
    BY <1>1 DEF Abs
  <2>3. (3 * r.rttvar + Abs(r.srtt - rtt)) \div 4 \in Nat
    BY <1>1, <2>2
  <2> QED
    BY <1>1, <2>1, <2>3 DEF ReportRtt, RtoType
<1> QED
  BY <1>2, <1>3, <1>4, <1>5

(* A new retransmission timeout has its type.                               *)
LEMMA NewRtoType == NewRto \in RtoType
BY RtoAssumption DEF NewRto, RtoType

-----------------------------------------------------------------------------
(***************************************************************************)
(* schedule_tx: whatever the handler did before it, it leaves well-typed   *)
(* events with fresh uids, arms a timeout that starts now, and adds a      *)
(* transmission only when none was scheduled and there is data to send.    *)
(***************************************************************************)
ScheduledWell(scheduled, events) ==
  \E timer, tx \in Events :
    /\ timer.kind = "Timeout" /\ timer.start = now
    /\ timer.uid = nextUid /\ timer.when >= now
    /\ tx.kind = "Transmit" /\ tx.uid = nextUid + 1 /\ tx.when >= now
    /\ \/ /\ ~scheduled /\ txScheduled' = TRUE /\ ~Covers(nextPkt')
          /\ pending' = events \cup {timer, tx} /\ nextUid' = nextUid + 2
       \/ /\ txScheduled' = scheduled
          /\ pending' = events \cup {timer} /\ nextUid' = nextUid + 1

(* schedule_tx restores the invariants about events.                        *)
LEMMA ScheduleTxWell ==
  ASSUME TypeOK, rto' \in RtoType,
         NEW scheduled \in BOOLEAN, NEW events \in SUBSET Events,
         NEW answer \in CcStates, ScheduleTx(scheduled, events, answer)
  PROVE  ScheduledWell(scheduled, events) /\ lastTxTime' \in Nat
<1> DEFINE timer == Timeout(nextUid, now + Rto(rto'), now)
           tx    == Transmit(nextUid + 1, DueTime(answer))
<1>1. now \in Nat /\ nextUid \in Nat /\ lastTxTime \in Nat /\ Rto(rto') \in Nat
  BY RtoTypes DEF TypeOK
<1>2. DueTime(answer) \in Nat /\ DueTime(answer) >= now
  <2>1. answer.intersend \in Nat
    BY SenderAssumption DEF CcStates
  <2> QED
    BY <1>1, <2>1 DEF DueTime, Larger
<1>3. /\ timer \in Events /\ timer.kind = "Timeout" /\ timer.start = now
      /\ timer.uid = nextUid /\ timer.when >= now
  BY <1>1 DEF Timeout, Events
<1>4. tx \in Events /\ tx.kind = "Transmit" /\ tx.uid = nextUid + 1 /\ tx.when >= now
  BY <1>1, <1>2 DEF Transmit, Events
<1>5. \/ /\ ~scheduled /\ txScheduled' = TRUE /\ ~Covers(nextPkt')
         /\ pending' = events \cup {timer, tx} /\ nextUid' = nextUid + 2
         /\ lastTxTime' = DueTime(answer)
      \/ /\ txScheduled' = scheduled
         /\ pending' = events \cup {timer} /\ nextUid' = nextUid + 1
         /\ lastTxTime' = lastTxTime
  BY DEF ScheduleTx, MayTransmit, SentAll
<1> HIDE DEF timer, tx
<1>6. lastTxTime' \in Nat
  BY <1>1, <1>2, <1>5
<1> QED
  BY <1>3, <1>4, <1>5, <1>6 DEF ScheduledWell
(***************************************************************************)
(* The events of a flow after schedule_tx.  `events` are those that were   *)
(* pending, without the one being handled.                                 *)
(***************************************************************************)
LEMMA EventsAfterScheduling ==
  ASSUME TypeOK, EventsKnown, now' = now, nextPkt' \in Nat,
         NEW events \in SUBSET pending, NEW scheduled \in BOOLEAN,
         ScheduledWell(scheduled, events),
         scheduled <=> {e \in events : e.kind = "Transmit"} # {},
         \A d, e \in events : d.kind = "Transmit" /\ e.kind = "Transmit" => d = e,
         lastAckTime' <= now
  PROVE  /\ pending' \in SUBSET Events /\ nextUid' \in Nat /\ txScheduled' \in BOOLEAN
         /\ EventsKnown'
         /\ txScheduled' <=> Transmits' # {}
         /\ \A d, e \in Transmits' : d = e
         /\ LiveTimers' # {}
         /\ txScheduled' => scheduled \/ ~Covers(nextPkt')
<1>1. PICK timer, tx \in Events :
    /\ timer.kind = "Timeout" /\ timer.start = now
    /\ timer.uid = nextUid /\ timer.when >= now
    /\ tx.kind = "Transmit" /\ tx.uid = nextUid + 1 /\ tx.when >= now
    /\ \/ /\ ~scheduled /\ txScheduled' = TRUE /\ ~Covers(nextPkt')
          /\ pending' = events \cup {timer, tx} /\ nextUid' = nextUid + 2
       \/ /\ txScheduled' = scheduled
          /\ pending' = events \cup {timer} /\ nextUid' = nextUid + 1
  BY DEF ScheduledWell
<1>2. /\ now \in Nat /\ nextUid \in Nat /\ pending \in SUBSET Events
      /\ \A d \in events : d \in Events /\ d.uid < nextUid /\ d.uid \in Nat /\ d.when >= now
      /\ \A d, e \in events : d.uid = e.uid => d = e
  BY DEF TypeOK, EventsKnown, Events
<1>3. timer \in pending' /\ timer.start >= lastAckTime'
  BY <1>1, <1>2
<1>4. EventsKnown'
  <2>1. \A d \in pending' : d.uid < nextUid' /\ d.when >= now
    BY <1>1, <1>2
  <2>2. \A d, e \in pending' : d.uid = e.uid => d = e
    BY <1>1, <1>2
  <2> QED
    BY <2>1, <2>2 DEF EventsKnown
<1>5. pending' \in SUBSET Events /\ nextUid' \in Nat /\ txScheduled' \in BOOLEAN
  <2>1. pending' \in SUBSET Events /\ nextUid' \in Nat
    BY <1>1, <1>2
  <2>2. txScheduled' \in BOOLEAN
    BY <1>1, Zenon
  <2> QED
    BY <2>1, <2>2
<1>6. LiveTimers' # {}
  BY <1>1, <1>3 DEF LiveTimers
<1>7. CASE ~scheduled /\ txScheduled' = TRUE /\ ~Covers(nextPkt') /\ pending' = events \cup {timer, tx}
  <2>1. Transmits' = {tx}
    BY <1>1, <1>7 DEF Transmits
  <2> QED
    BY <1>4, <1>5, <1>6, <1>7, <2>1
<1>8. CASE txScheduled' = scheduled /\ pending' = events \cup {timer}
  <2>1. Transmits' = {e \in events : e.kind = "Transmit"}
    BY <1>1, <1>8 DEF Transmits
  <2> QED
    BY <1>4, <1>5, <1>6, <1>8, <2>1
<1> QED
  BY <1>1, <1>7, <1>8
-----------------------------------------------------------------------------
(* The handlers *)

(* new and init establish the invariant. *)
LEMMA InitEstablishes == SenderInit => SenderInv
<1> SUFFICES ASSUME SenderInit PROVE SenderInv
  OBVIOUS
<1> DEFINE tx    == Transmit(0, StartTime)
           timer == Timeout(1, StartTime + Rto(NewRto), 0)
<1>1. /\ tx \in Events /\ tx.kind = "Transmit" /\ tx.uid = 0 /\ tx.when >= 0
      /\ timer \in Events /\ timer.kind = "Timeout" /\ timer.uid = 1
      /\ timer.when >= 0 /\ timer.start = 0
  BY RtoTypes, NewRtoType, SenderAssumption DEF Transmit, Timeout, Events
<1> HIDE DEF tx, timer
<1>2. /\ pending = {tx, timer} /\ nextUid = 2 /\ now = 0 /\ nextPkt = 0
      /\ lastTxTime = 0 /\ lastAckTime = 0 /\ txScheduled = TRUE /\ panicked = FALSE
      /\ rto = NewRto /\ cc \in CcStates /\ wire = <<>> /\ trackRx = NewTracker
  BY DEF SenderInit, FirstEvents, tx, timer
<1>3. TrackerMatchesSender
  BY <1>2, NewTrackerSound DEF TrackerMatchesSender
<1>4. TypeOK
  <2>1. wire \in Seq(PacketsOnWire)
    BY <1>2
  <2>2. TrackerType(trackRx)
    BY <1>3 DEF TrackerMatchesSender, TrackerSound
  <2>3. pending \subseteq Events
    BY <1>1, <1>2
  <2>4. rto \in RtoType
    BY <1>2, NewRtoType
  <2>5. txScheduled \in BOOLEAN /\ panicked \in BOOLEAN
    BY <1>2
  <2>6. now \in Nat /\ nextPkt \in Nat /\ lastTxTime \in Nat /\ lastAckTime \in Nat /\ nextUid \in Nat
    BY <1>2
  <2> QED
    BY <1>2, <2>1, <2>2, <2>3, <2>4, <2>5, <2>6 DEF TypeOK
<1>5. EventsKnown
  <2>1. \A d \in pending : d.uid < nextUid /\ d.when >= now
    BY <1>1, <1>2
  <2>2. \A d, e \in pending : d.uid = e.uid => d = e
    BY <1>1, <1>2
  <2> QED
    BY <2>1, <2>2 DEF EventsKnown
<1>6. OneTransmitPending /\ TimerPending /\ AckTimePast
  <2>1. Transmits = {tx} /\ timer \in LiveTimers
    BY <1>1, <1>2 DEF Transmits, LiveTimers
  <2> QED
    BY <1>2, <2>1 DEF OneTransmitPending, TimerPending, AckTimePast
<1>7. LengthReserved /\ LengthRespected
  <2>1. nextPkt = 0 /\ ReceivedTill(trackRx) = 0
    BY DEF SenderInit, NewTracker, Tracker, ReceivedTill
  <2> QED
    BY <2>1 DEF LengthReserved, LengthRespected, Ended, HasEnded
<1> QED
  BY <1>3, <1>4, <1>5, <1>6, <1>7 DEF SenderInv

(* A handler that ends with schedule_tx, and what it must do before it. *)
LEMMA SchedulingHandler ==
  ASSUME SenderInv, now' = now,
         NEW events \in SUBSET pending, NEW scheduled \in BOOLEAN, NEW answer \in CcStates,
         ScheduleTx(scheduled, events, answer), rto' \in RtoType,
         scheduled <=> {e \in events : e.kind = "Transmit"} # {},
         \A d, e \in events : d.kind = "Transmit" /\ e.kind = "Transmit" => d = e,
         lastAckTime' \in Nat, lastAckTime' <= now,
         nextPkt' \in Nat, TrackerMatchesSender', cc' \in CcStates,
         wire' \in Seq(PacketsOnWire), panicked' \in BOOLEAN,
         scheduled => nextPkt' = nextPkt /\ txScheduled, ~Ended,
         LengthRespected'
  PROVE  SenderInv'
<1>1. TypeOK /\ EventsKnown
  BY DEF SenderInv
<1>2. events \in SUBSET Events
  BY <1>1 DEF TypeOK
<1>3. ScheduledWell(scheduled, events) /\ lastTxTime' \in Nat
  BY <1>1, <1>2, ScheduleTxWell
<1>4. /\ pending' \in SUBSET Events /\ nextUid' \in Nat /\ txScheduled' \in BOOLEAN
      /\ EventsKnown'
      /\ txScheduled' <=> Transmits' # {}
      /\ \A d, e \in Transmits' : d = e
      /\ LiveTimers' # {}
      /\ txScheduled' => scheduled \/ ~Covers(nextPkt')
  BY <1>1, <1>3, EventsAfterScheduling
<1>5. TypeOK'
  BY <1>1, <1>3, <1>4 DEF TypeOK, TrackerMatchesSender, TrackerSound
<1>6. OneTransmitPending' /\ TimerPending' /\ AckTimePast'
  BY <1>4 DEF OneTransmitPending, TimerPending, AckTimePast
<1>7. LengthReserved'
  <2>1. txScheduled' => ~Covers(nextPkt')
    BY <1>4 DEF SenderInv, LengthReserved
  <2> QED
    BY <2>1 DEF LengthReserved, Covers
<1> QED
  BY <1>4, <1>5, <1>6, <1>7 DEF SenderInv

(* What the invariant says of the tracker and the clock. *)
LEMMA InvFacts ==
  ASSUME SenderInv
  PROVE  /\ trackRx.right = nextPkt /\ trackRx.left \in Nat /\ trackRx.left <= nextPkt
         /\ nextPkt \in Nat /\ now \in Nat /\ TrackerSound(trackRx) /\ trackRx.unreported = 0
BY DEF SenderInv, TypeOK, TrackerMatchesSender, TrackerSound, TrackerType, WindowSound
(* A handler or a step of the environment that schedules nothing: it may    *)
(* take an event off the calendar, but not the transmission of a flow that  *)
(* goes on, nor its last live timeout.                                      *)
LEMMA QuietStep ==
  ASSUME SenderInv, now' \in Nat, now <= now', pending' \in SUBSET pending,
         UNCHANGED <<nextPkt, trackRx, lastTxTime, lastAckTime, txScheduled, rto, cc, nextUid>>,
         wire' \in Seq(PacketsOnWire), panicked' \in BOOLEAN,
         \A e \in pending' : e.when >= now',
         ~Ended' => /\ ~Ended
                    /\ Transmits' = Transmits
                    /\ LiveTimers' = LiveTimers
  PROVE  SenderInv'
<1>1. TypeOK' /\ TrackerMatchesSender'
  <2>1. TrackerType(trackRx)'
    BY DEF SenderInv, TypeOK
  <2>2. TypeOK'
    BY <2>1 DEF SenderInv, TypeOK
  <2>3. TrackerMatchesSender'
    BY DEF SenderInv, TrackerMatchesSender
  <2> QED
    BY <2>2, <2>3
<1>2. EventsKnown'
  BY DEF SenderInv, EventsKnown
<1>3. AckTimePast'
  BY DEF SenderInv, TypeOK, AckTimePast
<1>4. OneTransmitPending' /\ TimerPending'
  BY DEF SenderInv, OneTransmitPending, TimerPending
<1>5. LengthReserved' /\ LengthRespected'
  BY DEF SenderInv, LengthReserved, LengthRespected, Covers
<1> QED
  BY <1>1, <1>2, <1>3, <1>4, <1>5 DEF SenderInv

(* Taking the transmission e off the calendar leaves none. *)
LEMMA NoOtherTransmit ==
  ASSUME SenderInv, ~Ended, NEW e \in pending, e.kind = "Transmit"
  PROVE  {d \in pending \ {e} : d.kind = "Transmit"} = {} /\ txScheduled
BY DEF SenderInv, OneTransmitPending, Transmits

(* Taking a timeout off it, or nothing, leaves the transmission.            *)
LEMMA SameTransmits ==
  ASSUME SenderInv, ~Ended, NEW events \in SUBSET pending,
         \A e \in pending \ events : e.kind = "Timeout"
  PROVE  /\ txScheduled <=> {e \in events : e.kind = "Transmit"} # {}
         /\ \A d, e \in events : d.kind = "Transmit" /\ e.kind = "Transmit" => d = e
BY DEF SenderInv, OneTransmitPending, Transmits

(* Each handler, and each step of the environment, preserves the invariant. *)
LEMMA StepPreserves == SenderInv /\ [SenderNext]_senderVars => SenderInv'
<1> SUFFICES ASSUME SenderInv, [SenderNext]_senderVars PROVE SenderInv'
  OBVIOUS
<1>1. /\ trackRx.right = nextPkt /\ trackRx.left \in Nat /\ trackRx.left <= nextPkt
      /\ nextPkt \in Nat /\ now \in Nat /\ TrackerSound(trackRx) /\ trackRx.unreported = 0
  BY InvFacts
<1>2. /\ lastAckTime \in Nat /\ lastAckTime <= now /\ rto \in RtoType /\ txScheduled \in BOOLEAN
      /\ wire \in Seq(PacketsOnWire) /\ panicked \in BOOLEAN /\ cc \in CcStates
      /\ pending \subseteq Events /\ LengthRespected
      /\ \A e \in pending : e.when >= now
  BY DEF SenderInv, TypeOK, AckTimePast, EventsKnown
<1>3. ASSUME NEW e \in pending, EventAfterEnd(e)
      PROVE  SenderInv'
  <2>1. Ended'
    BY <1>3 DEF EventAfterEnd, Ended, HasEnded, PastDuration, Covers, ReceivedTill
  <2> QED
    BY <1>1, <1>2, <1>3, <2>1, QuietStep DEF EventAfterEnd
<1>4. ASSUME NEW e \in pending, Retransmit(e)
      PROVE  SenderInv'
  <2>1. /\ trackRx.lost > 0 /\ nextPkt' = nextPkt
        /\ trackRx' = MarkPkt(trackRx, FirstLost(trackRx), Retransmitted(0, nextPkt))
        /\ ~Ended /\ e.kind = "Transmit" /\ cc' \in CcStates /\ rto' = rto
        /\ wire' = Append(wire, [seq |-> FirstLost(trackRx), sentTime |-> now])
        /\ ScheduleTx(FALSE, pending \ {e}, cc')
        /\ now' = now /\ lastAckTime' = lastAckTime /\ panicked' = panicked
    BY <1>4 DEF Retransmit, Send, Ended
  <2>2. FirstLost(trackRx) \in Window(0, nextPkt)
    BY <1>1, <2>1, FirstLostFound DEF LostIn, Window
  <2>3. TrackerMatchesSender'
    <3>1. FirstLost(trackRx) \in Nat /\ FirstLost(trackRx) < trackRx.right
      BY <1>1, <2>2 DEF Window
    <3>2. TrackerSound(trackRx') /\ trackRx'.right = trackRx.right /\ trackRx'.unreported = trackRx.unreported
      BY <1>1, <2>1, <3>1, MarkPktSound, StatusesDistinct
    <3> QED
      BY <1>1, <2>1, <3>2 DEF TrackerMatchesSender
  <2>4. wire' \in Seq(PacketsOnWire)
    BY <1>1, <1>2, <2>1, <2>2 DEF PacketsOnWire, Window
  <2>5. LengthRespected'
    BY <1>2, <2>1 DEF LengthRespected
  <2> QED
    BY <1>1, <1>2, <2>1, <2>3, <2>4, <2>5, NoOtherTransmit, SchedulingHandler
<1>5. ASSUME NEW e \in pending, TransmitFresh(e)
      PROVE  SenderInv'
  <2>1. /\ nextPkt' = nextPkt + 1
        /\ trackRx' = MarkPkt(trackRx, nextPkt, NotReceived(0))
        /\ ~Ended /\ e.kind = "Transmit" /\ cc' \in CcStates /\ rto' = rto
        /\ wire' = Append(wire, [seq |-> nextPkt, sentTime |-> now])
        /\ ScheduleTx(FALSE, pending \ {e}, cc')
        /\ now' = now /\ lastAckTime' = lastAckTime /\ panicked' = panicked
    BY <1>5 DEF TransmitFresh, Send, Ended
  <2>2. TrackerMatchesSender'
    <3> DEFINE u == MarkPkt(trackRx, nextPkt, NotReceived(0))
    <3>1. /\ TrackerSound(u)
          /\ u.right = IF nextPkt < trackRx.right THEN trackRx.right ELSE nextPkt + 1
          /\ u.unreported = trackRx.unreported
      <4>1. NotReceived(0) \in PktStatus /\ NotReceived(0) # Lost /\ NotReceived(0) # Received
        BY StatusesDistinct
      <4>2. TrackerSound(trackRx) /\ nextPkt \in Nat
        BY <1>1
      <4> QED
        BY <4>1, <4>2, MarkPktSound
    <3> HIDE DEF u
    <3>2. trackRx' = u
      BY <2>1 DEF u
    <3> QED
      BY <1>1, <2>1, <3>1, <3>2 DEF TrackerMatchesSender
  <2>3. wire' \in Seq(PacketsOnWire)
    BY <1>1, <1>2, <2>1 DEF PacketsOnWire
  <2>4. ~Covers(nextPkt)
    BY <2>1, NoOtherTransmit DEF SenderInv, LengthReserved
  <2>5. LengthRespected'
    <3>1. nextPkt' - 1 = nextPkt
      BY <1>1, <2>1
    <3>2. nextPkt * PktSize \in Int /\ TxLength.amount \in Nat
      BY <1>1, SenderAssumption
    <3> QED
      BY <2>4, <3>1, <3>2 DEF LengthRespected, Covers
  <2>6. {d \in pending \ {e} : d.kind = "Transmit"} = {}
    BY <2>1, NoOtherTransmit
  <2>7. nextPkt' \in Nat
    BY <1>1, <2>1
  <2> QED
    BY <1>1, <1>2, <2>1, <2>2, <2>3, <2>5, <2>6, <2>7, SchedulingHandler
<1>6. ASSUME NEW e \in pending, TimeoutFires(e)
      PROVE  SenderInv'
  <2>1. /\ trackRx' = MarkAllAsLost(trackRx) /\ nextPkt' = nextPkt
        /\ rto' = ReportTimeout(rto) /\ cc' \in CcStates
        /\ ~Ended /\ e.kind = "Timeout"
        /\ ScheduleTx(txScheduled, pending \ {e}, cc')
        /\ now' = now /\ lastAckTime' = lastAckTime /\ wire' = wire /\ panicked' = panicked
    BY <1>6 DEF TimeoutFires, Ended
  <2>2. TrackerMatchesSender' /\ rto' \in RtoType
    BY <1>1, <1>2, <2>1, MarkAllAsLostSound, RtoTypes DEF TrackerMatchesSender
  <2>3. LengthRespected'
    BY <1>2, <2>1 DEF LengthRespected
  <2>4. /\ txScheduled <=> {d \in pending \ {e} : d.kind = "Transmit"} # {}
        /\ \A c, d \in pending \ {e} : c.kind = "Transmit" /\ d.kind = "Transmit" => c = d
    BY <2>1, SameTransmits
  <2> QED
    BY <1>1, <1>2, <2>1, <2>2, <2>3, <2>4, SchedulingHandler
<1>7. ASSUME NEW e \in pending, TimeoutStale(e)
      PROVE  SenderInv'
  <2>1. /\ e.kind = "Timeout" /\ lastAckTime > e.start /\ ~Ended /\ pending' = pending \ {e}
        /\ lastAckTime' = lastAckTime
    BY <1>7 DEF TimeoutStale, Ended
  <2>2. e.start \in Nat
    BY <1>2 DEF Events
  <2>3. Transmits' = Transmits /\ LiveTimers' = LiveTimers
    BY <1>2, <2>1, <2>2 DEF Transmits, LiveTimers
  <2> QED
    BY <1>1, <1>2, <1>7, <2>1, <2>3, QuietStep DEF TimeoutStale
<1>8. ASSUME NEW ack \in Acks, PushAck(ack)
      PROVE  SenderInv'
  <2> DEFINE marked  == MarkAcked(trackRx, AckedBy(ack))
             sampled == ReportRtt(rto, now - ack.sentTime)
             answer  == IF marked.unreported > 0 THEN cc ELSE cc'
  <2>1. /\ trackRx' = Reported(marked) /\ lastAckTime' = now /\ nextPkt' = nextPkt
        /\ rto' \in {ReportFreshAck(sampled), sampled} /\ cc' \in CcStates
        /\ ScheduleTx(txScheduled, pending, answer) /\ ~Ended
        /\ now' = now /\ wire' = wire /\ panicked' = panicked
    BY <1>8 DEF PushAck, Ended
  <2>2. AckedBy(ack) \in SUBSET Nat /\ now - ack.sentTime \in Nat
    BY <1>1 DEF Acks, AckedBy, Window, ReceivedTill
  <2>3. TrackerMatchesSender'
    <3>1. TrackerSound(marked) /\ marked.right = nextPkt
      BY <1>1, <2>2, MarkAckedSound
    <3> HIDE DEF marked
    <3> QED
      BY <2>1, <3>1, ReportedSound DEF TrackerMatchesSender
  <2>4. rto' \in RtoType
    <3>1. sampled \in RtoType
      BY <1>2, <2>2, RtoTypes
    <3> HIDE DEF sampled
    <3> QED
      BY <2>1, <3>1, RtoTypes
  <2>5. answer \in CcStates
    BY <1>2, <2>1
  <2>6. LengthRespected'
    BY <1>2, <2>1 DEF LengthRespected
  <2>7. /\ txScheduled <=> {d \in pending : d.kind = "Transmit"} # {}
        /\ \A c, d \in pending : c.kind = "Transmit" /\ d.kind = "Transmit" => c = d
    BY <2>1, SameTransmits
  <2> HIDE DEF answer, marked, sampled
  <2> QED
    BY <1>1, <1>2, <2>1, <2>3, <2>4, <2>5, <2>6, <2>7, SchedulingHandler
<1>9. ASSUME NEW ack \in Acks, AckPanics(ack)
      PROVE  SenderInv'
  <2>1. (Ended' => Ended) /\ (Ended => Ended') /\ Transmits' = Transmits /\ LiveTimers' = LiveTimers
    BY <1>9 DEF AckPanics, Ended, HasEnded, PastDuration, Covers, ReceivedTill, Transmits, LiveTimers
  <2> QED
    BY <1>1, <1>2, <1>9, <2>1, QuietStep DEF AckPanics
<1>10. CASE AdvanceTime
  <2>1. /\ now' = now + 1 /\ pending' = pending /\ trackRx' = trackRx
        /\ \A e \in pending : e.when # now
    BY <1>10 DEF AdvanceTime
  <2>2. \A e \in pending : e.when >= now'
    BY <1>1, <1>2, <2>1 DEF Events
  <2>3. Ended => Ended'
    BY <1>1, <2>1, SenderAssumption DEF Ended, HasEnded, PastDuration, Covers, ReceivedTill
  <2>4. Transmits' = Transmits /\ LiveTimers' = LiveTimers
    BY <1>10 DEF AdvanceTime, Transmits, LiveTimers
  <2> QED
    BY <1>1, <1>2, <1>10, <2>1, <2>2, <2>3, <2>4, QuietStep DEF AdvanceTime
<1>11. ASSUME NEW i \in DOMAIN wire, NetworkTakes(i)
       PROVE  SenderInv'
  <2>1. wire' \in Seq(PacketsOnWire)
    <3>1. wire' = SubSeq(wire, 1, i - 1) \o SubSeq(wire, i + 1, Len(wire))
      BY <1>11 DEF NetworkTakes, Without
    <3>2. /\ SubSeq(wire, 1, i - 1) \in Seq(PacketsOnWire)
          /\ SubSeq(wire, i + 1, Len(wire)) \in Seq(PacketsOnWire)
      BY <1>2
    <3> QED
      BY <3>1, <3>2
  <2>2. (Ended => Ended') /\ Transmits' = Transmits /\ LiveTimers' = LiveTimers
    BY <1>11 DEF NetworkTakes, Ended, HasEnded, PastDuration, Covers, ReceivedTill, Transmits, LiveTimers
  <2> QED
    BY <1>1, <1>2, <1>11, <2>1, <2>2, QuietStep DEF NetworkTakes
<1>12. CASE UNCHANGED senderVars
  <2>1. (Ended => Ended') /\ Transmits' = Transmits /\ LiveTimers' = LiveTimers
    BY <1>12 DEF senderVars, Ended, HasEnded, PastDuration, Covers, ReceivedTill, Transmits, LiveTimers
  <2> QED
    BY <1>1, <1>2, <1>12, <2>1, QuietStep DEF senderVars
<1> QED
  BY <1>3, <1>4, <1>5, <1>6, <1>7, <1>8, <1>9, <1>10, <1>11, <1>12
     DEF SenderNext, HandleEvent, HandleAck, IgnoreAck

(* A packet taken off the wire leaves the others in their order. *)
LEMMA WithoutKeeps ==
  ASSUME NEW S, NEW s \in Seq(S), NEW i \in DOMAIN s
  PROVE  /\ Without(s, i) \in Seq(S)
         /\ DOMAIN Without(s, i) = 1..(Len(s) - 1) /\ Len(Without(s, i)) = Len(s) - 1
         /\ \A j \in 1..(Len(s) - 1) :
              Without(s, i)[j] = s[IF j < i THEN j ELSE j + 1]
<1>1. i \in 1..Len(s) /\ Len(s) \in Nat
  OBVIOUS
<1> DEFINE a == SubSeq(s, 1, i - 1)
           b == SubSeq(s, i + 1, Len(s))
<1>2. a \in Seq(S) /\ Len(a) = i - 1 /\ \A j \in 1..(i - 1) : a[j] = s[j]
  <2>1. \A j \in 1..(i - 1) : s[j] \in S
    BY <1>1
  <2> QED
    BY <1>1, <2>1, SubSeqProperties
<1>3. b \in Seq(S) /\ Len(b) = Len(s) - i /\ \A j \in 1..(Len(s) - i) : b[j] = s[i + j]
  <2>1. \A j \in (i + 1)..Len(s) : s[j] \in S
    BY <1>1
  <2>2. /\ b \in Seq(S) /\ Len(b) = IF i + 1 <= Len(s) THEN Len(s) - (i + 1) + 1 ELSE 0
        /\ \A j \in 1..(Len(s) - (i + 1) + 1) : b[j] = s[(i + 1) + j - 1]
    BY <1>1, <2>1, SubSeqProperties
  <2> HIDE DEF b
  <2> QED
    BY <1>1, <2>2
<1> HIDE DEF a, b
<1>4. /\ a \o b \in Seq(S) /\ Len(a \o b) = Len(a) + Len(b)
      /\ \A j \in 1..(Len(a) + Len(b)) :
           (a \o b)[j] = IF j <= Len(a) THEN a[j] ELSE b[j - Len(a)]
  BY <1>2, <1>3, ConcatProperties
<1>5. Len(a) + Len(b) = Len(s) - 1
  BY <1>1, <1>2, <1>3
<1>6. ASSUME NEW j \in 1..(Len(s) - 1)
      PROVE  (a \o b)[j] = s[IF j < i THEN j ELSE j + 1]
  <2>1. CASE j < i
    BY <1>1, <1>2, <1>4, <1>5, <2>1
  <2>2. CASE ~(j < i)
    <3>0. j \in Int /\ ~(j <= Len(a)) /\ Len(a) = i - 1 /\ j \in 1..(Len(a) + Len(b))
      BY <1>1, <1>2, <1>5, <2>2
    <3>1. (a \o b)[j] = b[j - (i - 1)] /\ j - (i - 1) \in 1..(Len(s) - i)
      <4>1. (a \o b)[j] = b[j - (i - 1)]
        BY <1>4, <3>0
      <4>2. j - (i - 1) \in 1..(Len(s) - i)
        BY <1>1, <2>2
      <4> QED
        BY <4>1, <4>2
    <3>2. i + (j - (i - 1)) = j + 1
      BY <1>1
    <3> QED
      BY <1>3, <2>2, <3>1, <3>2
  <2> QED
    BY <2>1, <2>2
<1>7. Without(s, i) = a \o b
  BY DEF Without, a, b
<1>8. DOMAIN (a \o b) = 1..(Len(s) - 1) /\ Len(a \o b) = Len(s) - 1
  BY <1>4, <1>5
<1> QED
  BY <1>4, <1>6, <1>7, <1>8

(* The invariant holds in every state of every behaviour. *)
THEOREM SenderInvariant == SenderSpec => []SenderInv
BY InitEstablishes, StepPreserves, PTL DEF SenderSpec
(* Every variable of a sender keeps its type: the unsigned counters, the    *)
(* times and the RTO never leave their ranges.                              *)
THEOREM TypeCorrect == SenderSpec => []TypeOK
BY SenderInvariant, PTL DEF SenderInv

(* The tracker's counters agree with its deque and the deque with next_pkt, *)
(* whatever acks arrive: no assertion and no unreachable!() of the tracker  *)
(* can be reached from the sender.                                          *)
THEOREM TrackerAlwaysSound == SenderSpec => []TrackerMatchesSender
BY SenderInvariant, PTL DEF SenderInv

(* The uid the scheduler hands back always names one entry of the map.      *)
THEOREM EventsAlwaysKnown == SenderSpec => []EventsKnown
BY SenderInvariant, PTL DEF SenderInv

(* A flow never has two transmit chains and never loses its only one.       *)
THEOREM OneTransmitChain == SenderSpec => []OneTransmitPending
BY SenderInvariant, PTL DEF SenderInv

(* A flow that goes on always has a timeout pending that can still fire.    *)
THEOREM AlwaysATimer == SenderSpec => []TimerPending
BY SenderInvariant, PTL DEF SenderInv

(* A flow of a given number of bytes never sends a packet beyond them.      *)
THEOREM LengthAlwaysRespected == SenderSpec => []LengthRespected
BY SenderInvariant, PTL DEF SenderInv

(* An ack is never fresh: the last packet it covers is received once the    *)
(* ack has been applied.                                                    *)
LEMMA NoAckIsFresh ==
  ASSUME SenderInv, NEW ack \in Acks, ack.cum > 0
  PROVE  ~AckIsFresh(MarkAcked(trackRx, AckedBy(ack)), ack)
<1> DEFINE marked == MarkAcked(trackRx, AckedBy(ack))
           last   == ack.cum - 1
<1>1. TrackerSound(trackRx) /\ trackRx.right = nextPkt /\ nextPkt \in Nat
  BY DEF SenderInv, TypeOK, TrackerMatchesSender
<1>2. ack.cum \in trackRx.left..nextPkt /\ ack.sack \in SUBSET Window(0, nextPkt) /\ trackRx.left \in Nat
  BY <1>1 DEF Acks, ReceivedTill, TrackerSound, TrackerType
<1>3. last \in AckedBy(ack) /\ AckedBy(ack) \in SUBSET Window(0, trackRx.right)
  BY <1>1, <1>2 DEF AckedBy, Window
<1>4. KnownReceived(marked) = KnownReceived(trackRx) \cup AckedBy(ack)
  BY <1>1, <1>3, MarkAckedKnown
<1>5. last \in KnownReceived(marked)
  BY <1>3, <1>4
<1>6. marked.left \in Nat /\ marked.right \in Nat /\ last \in Nat
  <2>1. AckedBy(ack) \in SUBSET Nat
    BY <1>1, <1>3 DEF Window
  <2>2. TrackerSound(marked)
    BY <1>1, <2>1, MarkAckedSound
  <2> HIDE DEF marked
  <2> QED
    BY <1>2, <2>2, <1>1 DEF TrackerSound, TrackerType
<1> HIDE DEF marked, last
<1>7. GetPktStatus(marked, last) = Received
  BY <1>5, <1>6 DEF KnownReceived, ReceivedIn, GetPktStatus, Window
<1>8. Received # NotReceived(0)
  BY DEF Received, NotReceived
<1> QED
  BY <1>7, <1>8 DEF AckIsFresh, marked, last

(* No ack, timeout or loss ever lowers the backoff of a flow again, though  *)
(* a fresh ack should reset it.                                             *)
THEOREM BackoffIsForEver == SenderSpec => BackoffNeverResets
<1>1. ASSUME SenderInv, [SenderNext]_senderVars
      PROVE  [rto'.backoff >= rto.backoff]_senderVars
  <2>1. rto \in RtoType /\ now \in Nat
    BY <1>1 DEF SenderInv, TypeOK
  <2>2. rto.backoff \in 1..MaxBackoff
    BY <2>1 DEF RtoType
  <2>3. ASSUME NEW e \in pending, TimeoutFires(e)
        PROVE  rto'.backoff >= rto.backoff
    <3>1. rto'.backoff = Smaller(MaxBackoff, 2 * rto.backoff)
      BY <2>1, <2>3 DEF TimeoutFires, ReportTimeout, RtoType
    <3> QED
      BY <2>2, <3>1, RtoAssumption DEF Smaller
  <2>4. ASSUME NEW ack \in Acks, PushAck(ack)
        PROVE  rto'.backoff >= rto.backoff
    <3>1. rto' = ReportRtt(rto, now - ack.sentTime)
      BY <1>1, <2>4, NoAckIsFresh DEF PushAck
    <3>2. rto'.backoff = rto.backoff
      BY <2>1, <3>1 DEF ReportRtt, RtoType
    <3> QED
      BY <2>2, <3>2
  <2>5. rto' = rto => rto'.backoff >= rto.backoff
    BY <2>2
  <2> QED
    BY <1>1, <2>3, <2>4, <2>5
       DEF SenderNext, HandleEvent, HandleAck, EventAfterEnd, Retransmit, TransmitFresh, Send,
           TimeoutStale, IgnoreAck, AckPanics, AdvanceTime, NetworkTakes, senderVars
<1> QED
  BY <1>1, SenderInvariant, PTL DEF SenderSpec, BackoffNeverResets

-----------------------------------------------------------------------------
(***************************************************************************)
(* How much and how fast a sender sends.                                   *)
(*                                                                         *)
(* The packets in flight are never more than a window the congestion       *)
(* control answered, and never fewer while the sender waits.  The code     *)
(* computes their number from three counters; the proof counts the packets *)
(* themselves: Flying is the set of those the tracker holds as neither     *)
(* received nor lost, and what a handler may add to it is a set inclusion. *)
(*                                                                         *)
(* The gap between two packets is never less than an intersend time        *)
(* answered, if the flow starts at time 0.  This rests on last_tx_time:    *)
(* it is the time of the scheduled transmission, or that of the last one.  *)
(***************************************************************************)
Flying(t) == {q \in Window(t.left, t.right) : Undecided(t.status, q)}

-----------------------------------------------------------------------------
(* The tracker *)

(* Counting two sets that have nothing in common. *)
LEMMA CountDisjoint ==
  ASSUME NEW S, IsFiniteSet(S), NEW T, IsFiniteSet(T), S \cap T = {}
  PROVE  /\ IsFiniteSet(S \cup T)
         /\ Cardinality(S \cup T) = Cardinality(S) + Cardinality(T)
<1>1. /\ IsFiniteSet(S \cup T)
      /\ Cardinality(S \cup T) = Cardinality(S) + Cardinality(T) - Cardinality(S \cap T)
  BY FS_Union
<1>2. Cardinality(S \cap T) = 0 /\ Cardinality(S) \in Nat /\ Cardinality(T) \in Nat
  BY FS_EmptySet, FS_CardinalityType
<1> QED
  BY <1>1, <1>2

(* The subtractions of schedule_tx count the packets in flight. *)
LEMMA InFlightCounts ==
  ASSUME NEW t, TrackerSound(t)
  PROVE  /\ IsFiniteSet(Flying(t)) /\ Cardinality(Flying(t)) \in Nat
         /\ InFlight(t.right, t) = Cardinality(Flying(t))
<1> DEFINE window == Window(t.left, t.right)
           got    == ReceivedIn(t)
           lost   == LostIn(t)
<1>1. /\ t.left \in Nat /\ t.right \in Nat /\ t.left <= t.right
      /\ t.lost = Cardinality(lost)
  BY DEF TrackerSound, TrackerType, WindowSound, LostCounted
<1>2. /\ got \in SUBSET window /\ lost \in SUBSET window /\ Flying(t) \in SUBSET window
      /\ window \in SUBSET window
  BY DEF ReceivedIn, LostIn, Flying
<1>3. /\ IsFiniteSet(window) /\ IsFiniteSet(got) /\ IsFiniteSet(lost) /\ IsFiniteSet(Flying(t))
      /\ Cardinality(window) \in Nat /\ Cardinality(got) \in Nat
      /\ Cardinality(lost) \in Nat /\ Cardinality(Flying(t)) \in Nat
  BY <1>1, <1>2, WindowParts
<1>4. Cardinality(window) = t.right - t.left
  <2>1. t.left \in Int /\ t.right - 1 \in Int
    BY <1>1
  <2>2. Cardinality(t.left..(t.right - 1))
          = IF t.left > t.right - 1 THEN 0 ELSE (t.right - 1) - t.left + 1
    BY <2>1, FS_Interval
  <2> QED
    BY <1>1, <2>2 DEF Window
<1>5. window = Flying(t) \cup (got \cup lost) /\ Flying(t) \cap (got \cup lost) = {}
  BY DEF Flying, Undecided, ReceivedIn, LostIn
<1>6. got \cap lost = {}
  BY StatusesDistinct DEF ReceivedIn, LostIn
<1> HIDE DEF window, got, lost
<1>7. IsFiniteSet(got \cup lost) /\ Cardinality(got \cup lost) = Cardinality(got) + Cardinality(lost)
  BY <1>3, <1>6, CountDisjoint
<1>8. Cardinality(Flying(t) \cup (got \cup lost)) = Cardinality(Flying(t)) + Cardinality(got \cup lost)
  BY <1>3, <1>5, <1>7, CountDisjoint
<1>9. Cardinality(window) = Cardinality(Flying(t)) + Cardinality(got) + Cardinality(lost)
  BY <1>3, <1>5, <1>7, <1>8
<1>10. InFlight(t.right, t) = t.right - (t.left + Cardinality(got)) - Cardinality(lost)
  BY <1>1 DEF InFlight, NumPktsReceived, got
<1> QED
  BY <1>1, <1>3, <1>4, <1>9, <1>10

(* Fewer packets flying, fewer in flight; one more, at most one more. *)
LEMMA FewerInFlight ==
  ASSUME NEW t, TrackerSound(t), NEW u, TrackerSound(u), NEW q, Flying(u) \subseteq Flying(t) \cup {q}
  PROVE  /\ InFlight(u.right, u) <= InFlight(t.right, t) + 1
         /\ Flying(u) \subseteq Flying(t) => InFlight(u.right, u) <= InFlight(t.right, t)
<1>1. /\ IsFiniteSet(Flying(t)) /\ Cardinality(Flying(t)) \in Nat
      /\ InFlight(t.right, t) = Cardinality(Flying(t))
  BY InFlightCounts
<1>2. /\ IsFiniteSet(Flying(u)) /\ Cardinality(Flying(u)) \in Nat
      /\ InFlight(u.right, u) = Cardinality(Flying(u))
  BY InFlightCounts
<1>3. /\ IsFiniteSet(Flying(t) \cup {q})
      /\ Cardinality(Flying(t) \cup {q}) <= Cardinality(Flying(t)) + 1
      /\ Cardinality(Flying(t) \cup {q}) \in Nat
  <2>1. /\ IsFiniteSet(Flying(t) \cup {q})
        /\ \/ Cardinality(Flying(t) \cup {q}) = Cardinality(Flying(t))
           \/ Cardinality(Flying(t) \cup {q}) = Cardinality(Flying(t)) + 1
    BY <1>1, FS_AddElement
  <2> QED
    BY <1>1, <2>1
<1>4. Cardinality(Flying(u)) <= Cardinality(Flying(t) \cup {q})
  BY <1>3, FS_Subset
<1>5. Flying(u) \subseteq Flying(t) => Cardinality(Flying(u)) <= Cardinality(Flying(t))
  BY <1>1, FS_Subset
<1> QED
  BY <1>1, <1>2, <1>3, <1>4, <1>5

(* Popping the received front leaves the packets in flight. *)
LEMMA ShrinkFlying ==
  ASSUME NEW l \in Nat, NEW r \in Nat, l <= r, NEW status, NEW lost, NEW unreported
  PROVE  Flying(Shrink(l, r, status, lost, unreported))
           = {q \in Window(l, r) : Undecided(status, q)}
<1> DEFINE f == FrontOf(l, r, status)
           t == Shrink(l, r, status, lost, unreported)
<1>1. f \in l..r /\ \A q \in l..(f - 1) : status[q] = Received
  BY FrontFound
<1> HIDE DEF f
<1>2. t = [left |-> f, right |-> r, status |-> [q \in Window(f, r) |-> status[q]],
           lost |-> lost, unreported |-> unreported]
  BY DEF Shrink, Tracker, f
<1> HIDE DEF t
<1>3. Flying(t) = {q \in Window(f, r) : Undecided(status, q)}
  BY <1>2 DEF Flying, Undecided
<1>4. Window(l, r) = l..(f - 1) \cup Window(f, r)
  BY <1>1 DEF Window
<1> QED
  BY <1>1, <1>3, <1>4 DEF t, Undecided

(* A transmission puts at most its own packet in flight. *)
LEMMA MarkPktFlying ==
  ASSUME NEW t, TrackerSound(t), NEW seq \in Nat, seq <= t.right,
         NEW new \in PktStatus, new # Received
  PROVE  Flying(MarkPkt(t, seq, new)) \subseteq Flying(t) \cup {seq}
<1> DEFINE r   == IF seq < t.right THEN t.right ELSE seq + 1
           old == ExtendedStatus(t, seq)
           marked == [q \in DOMAIN old |-> IF q = seq THEN new ELSE old[q]]
<1>0. t.left \in Nat /\ t.right \in Nat /\ t.left <= t.right
  BY DEF TrackerSound, TrackerType, WindowSound
<1>1. CASE seq < t.left
  BY <1>1 DEF MarkPkt
<1>2. CASE ~(seq < t.left)
  <2>1. r \in Nat /\ t.left <= r /\ \A q \in Window(t.left, r) : q = seq \/ q < t.right
    BY <1>0, <1>2 DEF Window
  <2>2. \E lost, unreported : MarkPkt(t, seq, new) = Shrink(t.left, r, marked, lost, unreported)
    BY <1>2 DEF MarkPkt
  <2>3. DOMAIN old = Window(t.left, r)
    BY DEF ExtendedStatus
  <2>4. \A q \in Window(t.left, r) : q < t.right => old[q] = t.status[q]
    BY <1>0 DEF ExtendedStatus
  <2> HIDE DEF old, r
  <2>5. \A q \in Window(t.left, r) : Undecided(marked, q) => q \in Flying(t) \cup {seq}
    <3>1. \A q \in Window(t.left, r) : q # seq => q \in Window(t.left, t.right) /\ marked[q] = t.status[q]
      BY <1>0, <2>1, <2>3, <2>4 DEF Window
    <3> HIDE DEF marked
    <3> QED
      BY <3>1 DEF Flying, Undecided
  <2> HIDE DEF marked
  <2>6. Flying(MarkPkt(t, seq, new)) = {q \in Window(t.left, r) : Undecided(marked, q)}
    BY <1>0, <2>1, <2>2, ShrinkFlying
  <2> QED
    BY <2>5, <2>6
<1> QED
  BY <1>1, <1>2

(* An ack puts no packet in flight. *)
LEMMA MarkAckedFlying ==
  ASSUME NEW t, TrackerSound(t), NEW acked
  PROVE  Flying(MarkAcked(t, acked)) \subseteq Flying(t)
<1> DEFINE window == Window(t.left, t.right)
           status == StatusAfterAck(t, acked)
<1>1. /\ t.left \in Nat /\ t.right \in Nat /\ t.left <= t.right
      /\ t.status \in [window -> PktStatus]
  BY DEF TrackerSound, TrackerType, WindowSound
<1>2. ASSUME NEW q \in window, Undecided(status, q)
      PROVE  Undecided(t.status, q)
  <2>1. q \notin acked
    BY <1>2 DEF Undecided, StatusAfterAck
  <2>2. CASE DupacksFor(t, acked, q) = {}
    BY <1>2, <2>1, <2>2 DEF Undecided, StatusAfterAck
  <2>3. CASE DupacksFor(t, acked, q) # {}
    <3>1. PICK p \in DupacksFor(t, acked, q) : p \in Nat /\ Counts(t.status[q], p)
      BY <2>3, <1>1 DEF DupacksFor, FreshlyAcked, Window
    <3>2. t.status[q] \in PktStatus /\ 0 \in Nat
      BY <1>1
    <3>3. t.status[q] # Lost /\ t.status[q] # Received
      BY <3>1, <3>2, DupackedStatus
    <3> QED
      BY <3>3 DEF Undecided
  <2> QED
    BY <2>2, <2>3
<1>3. \E lost, unreported :
        MarkAcked(t, acked) = Shrink(t.left, t.right, status, lost, unreported)
  BY DEF MarkAcked
<1> HIDE DEF status
<1>4. Flying(MarkAcked(t, acked)) = {q \in window : Undecided(status, q)}
  BY <1>1, <1>3, ShrinkFlying
<1> QED
  BY <1>2, <1>4 DEF Flying

(* A timeout leaves none in flight, and a report of losses all that were.   *)
LEMMA MarkAllAsLostFlying ==
  ASSUME NEW t, TrackerSound(t)
  PROVE  Flying(MarkAllAsLost(t)) = {} /\ Flying(Reported(t)) = Flying(t)
<1>1. MarkAllAsLost(t).left = t.left /\ MarkAllAsLost(t).right = t.right
      /\ MarkAllAsLost(t).status = [q \in Window(t.left, t.right) |->
                                      IF t.status[q] = Received THEN Received ELSE Lost]
  BY DEF MarkAllAsLost, TrackerSound, TrackerType, Tracker
<1>2. Reported(t).left = t.left /\ Reported(t).right = t.right /\ Reported(t).status = t.status
  BY DEF Reported, TrackerSound, TrackerType, Tracker
<1> QED
  BY <1>1, <1>2 DEF Flying, Undecided

-----------------------------------------------------------------------------
(* The handlers *)

(***************************************************************************)
(* A handler that ends with schedule_tx: when it puts at most one packet   *)
(* in flight for the transmission it took off the calendar, or none, the   *)
(* window is respected, and filled if the sender goes on to wait.          *)
(***************************************************************************)
LEMMA WindowAfterScheduling ==
  ASSUME SenderInv, SenderInv', WindowRespected, now' = now,
         NEW scheduled \in BOOLEAN, NEW events, NEW answer \in CcStates,
         ScheduleTx(scheduled, events, answer),
         InFlight(nextPkt', trackRx') + (IF scheduled THEN 1 ELSE 0)
           <= InFlight(nextPkt, trackRx) + (IF txScheduled THEN 1 ELSE 0)
  PROVE  WindowRespected' /\ WindowFilled'
<1> DEFINE before == InFlight(nextPkt, trackRx)
           after  == InFlight(nextPkt', trackRx')
<1>1. before \in Nat /\ after \in Nat
  <2>1. TrackerSound(trackRx) /\ trackRx.right = nextPkt
    BY DEF SenderInv, TrackerMatchesSender
  <2>2. TrackerSound(trackRx') /\ trackRx'.right = nextPkt'
    BY DEF SenderInv, TrackerMatchesSender
  <2> QED
    BY <2>1, <2>2, InFlightCounts
<1>2. answer.cwnd \in Cwnds /\ answer.cwnd \in Nat /\ Cwnds \subseteq Nat
  BY SenderAssumption DEF CcStates
<1>3. \/ txScheduled' = TRUE /\ answer.cwnd > after
      \/ /\ txScheduled' = scheduled
         /\ scheduled \/ SentAll(nextPkt') \/ ~(answer.cwnd > after)
  BY DEF ScheduleTx, MayTransmit
<1>4. txScheduled \in BOOLEAN /\ txScheduled' \in BOOLEAN
  BY DEF SenderInv, TypeOK
<1>5. LET busy == before + (IF txScheduled THEN 1 ELSE 0)
      IN  busy <= 1 \/ \E w \in Cwnds : busy <= w
  BY DEF WindowRespected
<1>6. after + (IF scheduled THEN 1 ELSE 0) <= before + (IF txScheduled THEN 1 ELSE 0)
  OBVIOUS
<1>7. WindowRespected' <=> LET busy == after + (IF txScheduled' THEN 1 ELSE 0)
                           IN  after >= 0 /\ (busy <= 1 \/ \E w \in Cwnds : busy <= w)
  BY DEF WindowRespected, InFlight, NumPktsReceived, ReceivedIn, Window
<1>8. WindowFilled' <=> (~Ended' /\ ~txScheduled' /\ ~SentAll(nextPkt)'
                           => \E w \in Cwnds : w <= after)
  BY DEF WindowFilled, InFlight, NumPktsReceived, ReceivedIn, Window
<1>9. (SentAll(nextPkt)' => SentAll(nextPkt')) /\ (SentAll(nextPkt') => SentAll(nextPkt)')
  BY DEF SentAll, Covers, PastDuration
<1> HIDE DEF before, after
<1>10. WindowRespected'
  <2>1. CASE txScheduled' = TRUE /\ answer.cwnd > after
    <3>1. after + 1 <= answer.cwnd /\ (IF txScheduled' THEN 1 ELSE 0) = 1 /\ after >= 0
      BY <1>1, <1>2, <2>1
    <3> QED
      BY <1>2, <1>7, <3>1
  <2>2. CASE txScheduled' = scheduled
    <3>1. after + (IF txScheduled' THEN 1 ELSE 0) <= before + (IF txScheduled THEN 1 ELSE 0)
      BY <1>6, <2>2
    <3> QED
      BY <1>1, <1>2, <1>4, <1>5, <1>7, <3>1
  <2> QED
    BY <1>3, <2>1, <2>2
<1>11. WindowFilled'
  <2>1. ASSUME ~txScheduled', ~SentAll(nextPkt')
        PROVE  answer.cwnd <= after
    <3>1. ~(answer.cwnd > after)
      BY <1>3, <1>4, <2>1
    <3> QED
      BY <1>1, <1>2, <3>1
  <2> QED
    BY <1>2, <1>8, <1>9, <2>1
<1> QED
  BY <1>10, <1>11

(* A step that neither schedules nor touches the tracker, time or not.      *)
LEMMA WindowQuiet ==
  ASSUME SenderInv, WindowRespected, WindowFilled, now' \in Nat, now <= now',
         UNCHANGED <<nextPkt, trackRx, txScheduled>>
  PROVE  WindowRespected' /\ WindowFilled'
<1>1. WindowRespected'
  BY DEF WindowRespected, InFlight, NumPktsReceived, ReceivedIn, Window
<1>2. PastDuration => PastDuration'
  <2>1. now \in Nat /\ StartTime + TxLength.amount \in Nat
    BY SenderAssumption DEF SenderInv, TypeOK
  <2> QED
    BY <2>1 DEF PastDuration
<1>3. (Ended => Ended') /\ (SentAll(nextPkt) => SentAll(nextPkt)')
  BY <1>2 DEF Ended, HasEnded, SentAll, Covers, ReceivedTill
<1>4. WindowFilled'
  BY <1>3 DEF WindowFilled, InFlight, NumPktsReceived, ReceivedIn, Window
<1> QED
  BY <1>1, <1>4

WindowInv == SenderInv /\ WindowRespected /\ WindowFilled

(* At the start nothing is in flight and the first packet is scheduled.     *)
LEMMA WindowAtStart == SenderInit => WindowRespected /\ WindowFilled
<1> SUFFICES ASSUME SenderInit PROVE WindowRespected /\ WindowFilled
  OBVIOUS
<1>1. nextPkt = 0 /\ trackRx = NewTracker /\ txScheduled = TRUE
  BY DEF SenderInit
<1>2. NewTracker.left = 0 /\ NewTracker.right = 0 /\ NewTracker.lost = 0 /\ ReceivedIn(NewTracker) = {}
  BY DEF NewTracker, Tracker, ReceivedIn, Window
<1>3. InFlight(nextPkt, trackRx) = 0
  BY <1>1, <1>2, FS_EmptySet DEF InFlight, NumPktsReceived
<1> QED
  BY <1>1, <1>3 DEF WindowRespected, WindowFilled

(* Each handler, and each step of the environment. *)
LEMMA WindowStep == WindowInv /\ [SenderNext]_senderVars => WindowInv'
<1> SUFFICES ASSUME SenderInv, WindowRespected, WindowFilled, [SenderNext]_senderVars
             PROVE  WindowRespected' /\ WindowFilled' /\ SenderInv'
  BY DEF WindowInv
<1>1. SenderInv'
  BY StepPreserves
<1>2. /\ trackRx.right = nextPkt /\ nextPkt \in Nat /\ now \in Nat /\ TrackerSound(trackRx)
      /\ txScheduled \in BOOLEAN /\ cc \in CcStates
  BY InvFacts DEF SenderInv, TypeOK
<1>3. TrackerSound(trackRx') /\ trackRx'.right = nextPkt'
  BY <1>1 DEF SenderInv, TrackerMatchesSender
<1>4. /\ InFlight(nextPkt, trackRx) \in Nat /\ InFlight(nextPkt', trackRx') \in Nat
      /\ \A q : Flying(trackRx') \subseteq Flying(trackRx) \cup {q}
                  => InFlight(nextPkt', trackRx') <= InFlight(nextPkt, trackRx) + 1
      /\ Flying(trackRx') \subseteq Flying(trackRx)
           => InFlight(nextPkt', trackRx') <= InFlight(nextPkt, trackRx)
  <2>1. InFlight(nextPkt, trackRx) \in Nat /\ InFlight(nextPkt', trackRx') \in Nat
    BY <1>2, <1>3, InFlightCounts
  <2>2. ASSUME NEW q, Flying(trackRx') \subseteq Flying(trackRx) \cup {q}
        PROVE  InFlight(nextPkt', trackRx') <= InFlight(nextPkt, trackRx) + 1
    BY <1>2, <1>3, <2>2, FewerInFlight
  <2>3. ASSUME Flying(trackRx') \subseteq Flying(trackRx)
        PROVE  InFlight(nextPkt', trackRx') <= InFlight(nextPkt, trackRx)
    <3>1. Flying(trackRx') \subseteq Flying(trackRx) \cup {0}
      BY <2>3
    <3> QED
      BY <1>2, <1>3, <2>3, <3>1, FewerInFlight
  <2> QED
    BY <2>1, <2>2, <2>3
<1>5. ASSUME NEW e \in pending, Retransmit(e)
      PROVE  WindowRespected' /\ WindowFilled'
  <2>1. /\ trackRx.lost > 0 /\ ~Ended /\ e.kind = "Transmit" /\ now' = now /\ cc' \in CcStates
        /\ trackRx' = MarkPkt(trackRx, FirstLost(trackRx), Retransmitted(0, nextPkt))
        /\ ScheduleTx(FALSE, pending \ {e}, cc')
    BY <1>1, <1>5 DEF Retransmit, Send, Ended
  <2>2. FirstLost(trackRx) \in Nat /\ FirstLost(trackRx) <= trackRx.right
    BY <1>2, <2>1, FirstLostFound DEF LostIn, Window, TrackerSound, TrackerType
  <2>3. Flying(trackRx') \subseteq Flying(trackRx) \cup {FirstLost(trackRx)}
    <3>1. Retransmitted(0, nextPkt) \in PktStatus /\ Retransmitted(0, nextPkt) # Received
      BY <1>2, StatusesDistinct
    <3> QED
      BY <1>2, <2>1, <2>2, <3>1, MarkPktFlying
  <2>4. txScheduled
    BY <2>1, NoOtherTransmit
  <2>5. InFlight(nextPkt', trackRx') + (IF FALSE THEN 1 ELSE 0)
          <= InFlight(nextPkt, trackRx) + (IF txScheduled THEN 1 ELSE 0)
    BY <1>4, <2>3, <2>4
  <2> QED
    BY <1>1, <2>1, <2>5, WindowAfterScheduling
<1>6. ASSUME NEW e \in pending, TransmitFresh(e)
      PROVE  WindowRespected' /\ WindowFilled'
  <2>1. /\ ~Ended /\ e.kind = "Transmit" /\ now' = now /\ cc' \in CcStates
        /\ trackRx' = MarkPkt(trackRx, nextPkt, NotReceived(0))
        /\ ScheduleTx(FALSE, pending \ {e}, cc')
    BY <1>6 DEF TransmitFresh, Send, Ended
  <2>2. Flying(trackRx') \subseteq Flying(trackRx) \cup {nextPkt}
    <3>1. NotReceived(0) \in PktStatus /\ NotReceived(0) # Received
      BY StatusesDistinct
    <3>2. nextPkt <= trackRx.right
      BY <1>2
    <3> QED
      BY <1>2, <2>1, <3>1, <3>2, MarkPktFlying
  <2>3. txScheduled
    BY <2>1, NoOtherTransmit
  <2>4. InFlight(nextPkt', trackRx') + (IF FALSE THEN 1 ELSE 0)
          <= InFlight(nextPkt, trackRx) + (IF txScheduled THEN 1 ELSE 0)
    BY <1>4, <2>2, <2>3
  <2> QED
    BY <1>1, <2>1, <2>4, WindowAfterScheduling
<1>7. ASSUME NEW e \in pending, TimeoutFires(e)
      PROVE  WindowRespected' /\ WindowFilled'
  <2>1. /\ now' = now /\ cc' \in CcStates /\ trackRx' = MarkAllAsLost(trackRx)
        /\ ScheduleTx(txScheduled, pending \ {e}, cc')
    BY <1>7 DEF TimeoutFires
  <2>2. Flying(trackRx') \subseteq Flying(trackRx)
    BY <1>2, <2>1, MarkAllAsLostFlying
  <2>3. InFlight(nextPkt', trackRx') + (IF txScheduled THEN 1 ELSE 0)
          <= InFlight(nextPkt, trackRx) + (IF txScheduled THEN 1 ELSE 0)
    BY <1>4, <2>2
  <2> QED
    BY <1>1, <1>2, <2>1, <2>3, WindowAfterScheduling
<1>8. ASSUME NEW ack \in Acks, PushAck(ack)
      PROVE  WindowRespected' /\ WindowFilled'
  <2> DEFINE marked == MarkAcked(trackRx, AckedBy(ack))
             answer == IF marked.unreported > 0 THEN cc ELSE cc'
  <2>1. /\ now' = now /\ cc' \in CcStates /\ trackRx' = Reported(marked)
        /\ ScheduleTx(txScheduled, pending, answer)
    BY <1>8 DEF PushAck
  <2>2. answer \in CcStates
    BY <1>2, <2>1
  <2>3. Flying(trackRx') \subseteq Flying(trackRx)
    <3>1. AckedBy(ack) \in SUBSET Nat
      BY <1>2 DEF Acks, AckedBy, Window, ReceivedTill
    <3>2. TrackerSound(marked) /\ Flying(marked) \subseteq Flying(trackRx)
      BY <1>2, <3>1, MarkAckedSound, MarkAckedFlying
    <3> HIDE DEF marked
    <3> QED
      BY <2>1, <3>2, MarkAllAsLostFlying
  <2>4. InFlight(nextPkt', trackRx') + (IF txScheduled THEN 1 ELSE 0)
          <= InFlight(nextPkt, trackRx) + (IF txScheduled THEN 1 ELSE 0)
    BY <1>4, <2>3
  <2> HIDE DEF answer, marked
  <2> QED
    BY <1>1, <1>2, <2>1, <2>2, <2>4, WindowAfterScheduling
<1>9. ASSUME UNCHANGED <<nextPkt, trackRx, txScheduled>>, now' \in {now, now + 1}
      PROVE  WindowRespected' /\ WindowFilled'
  BY <1>2, <1>9, WindowQuiet
<1>10. ASSUME NEW e \in pending, EventAfterEnd(e) \/ TimeoutStale(e)
       PROVE  WindowRespected' /\ WindowFilled'
  BY <1>9, <1>10 DEF EventAfterEnd, TimeoutStale
<1>11. ASSUME NEW ack \in Acks, AckPanics(ack)
       PROVE  WindowRespected' /\ WindowFilled'
  BY <1>9, <1>11 DEF AckPanics
<1>12. ASSUME NEW i \in DOMAIN wire, NetworkTakes(i)
       PROVE  WindowRespected' /\ WindowFilled'
  BY <1>9, <1>12 DEF NetworkTakes
<1>13. CASE AdvanceTime
  BY <1>1, <1>9, <1>13 DEF AdvanceTime
<1>14. CASE UNCHANGED senderVars
  BY <1>1, <1>9, <1>14 DEF senderVars
<1> QED
  BY <1>1, <1>5, <1>6, <1>7, <1>8, <1>10, <1>11, <1>12, <1>13, <1>14
     DEF SenderNext, HandleEvent, HandleAck, IgnoreAck

(* The invariant of the window holds in every state of every behaviour.     *)
THEOREM WindowInvariant == SenderSpec => []WindowInv
<1>1. SenderInit => WindowInv
  BY InitEstablishes, WindowAtStart DEF WindowInv
<1> QED
  BY <1>1, WindowStep, PTL DEF SenderSpec

(* The packets in flight, with the one a scheduled transmission will add,   *)
(* never exceed the largest window answered, and the unsigned subtractions  *)
(* of schedule_tx never underflow.                                          *)
THEOREM WindowAlwaysRespected == SenderSpec => []WindowRespected
BY WindowInvariant, PTL DEF WindowInv

(* A sender with data and no transmission scheduled is held by its window:  *)
(* no handler forgets to wake it.                                           *)
THEOREM WindowAlwaysFilled == SenderSpec => []WindowFilled
BY WindowInvariant, PTL DEF WindowInv

-----------------------------------------------------------------------------
(* Pacing *)

Sent == {wire[i].sentTime : i \in DOMAIN wire}

Apart(a, b) == \E d \in Intersends : b >= a + d

PacketsApart ==
  \A i, j \in DOMAIN wire : i < j => Apart(wire[i].sentTime, wire[j].sentTime)

(* last_tx_time, while the flow goes on. *)
LastTxTimeTells ==
  ~Ended => /\ \A s \in Sent : s <= lastTxTime
            /\ \A e \in Transmits : /\ e.when = lastTxTime
                                    /\ \A s \in Sent : Apart(s, lastTxTime)

PacingInv == SenderInv /\ PacketsApart /\ LastTxTimeTells

(* Packets are sent at times. *)
LEMMA SentTimes ==
  ASSUME NEW s \in Seq(PacketsOnWire)
  PROVE  {s[i].sentTime : i \in DOMAIN s} \subseteq Nat
<1>1. \A i \in DOMAIN s : s[i] \in PacketsOnWire
  BY ElementOfSeq, LenProperties
<1> QED
  BY <1>1 DEF PacketsOnWire

(* schedule_tx sets last_tx_time an intersend time after any packet sent.   *)
LEMMA PacedAfterScheduling ==
  ASSUME SenderInv, SenderInv', NEW scheduled \in BOOLEAN, NEW events \in SUBSET pending,
         NEW answer \in CcStates, ScheduleTx(scheduled, events, answer),
         Sent' \subseteq Nat, \A s \in Sent' : s <= lastTxTime,
         scheduled <=> {e \in events : e.kind = "Transmit"} # {},
         \A e \in events : e.kind = "Transmit" => /\ e.when = lastTxTime
                                                  /\ \A s \in Sent' : Apart(s, lastTxTime)
  PROVE  LastTxTimeTells'
<1> DEFINE timer == Timeout(nextUid, now + Rto(rto'), now)
           tx    == Transmit(nextUid + 1, DueTime(answer))
<1>1. /\ now \in Nat /\ lastTxTime \in Nat
      /\ answer.intersend \in Intersends /\ answer.intersend \in Nat
  BY SenderAssumption DEF SenderInv, TypeOK, CcStates
<1>2. /\ DueTime(answer) \in Nat /\ DueTime(answer) >= lastTxTime + answer.intersend
  BY <1>1 DEF DueTime, Larger
<1>3. timer.kind = "Timeout" /\ tx.kind = "Transmit" /\ tx.when = DueTime(answer)
  BY DEF Timeout, Transmit
<1>4. \/ ~scheduled /\ pending' = events \cup {timer, tx} /\ lastTxTime' = DueTime(answer)
      \/ pending' = events \cup {timer} /\ lastTxTime' = lastTxTime
  BY DEF ScheduleTx
<1> HIDE DEF timer, tx
<1>5. CASE ~scheduled /\ pending' = events \cup {timer, tx} /\ lastTxTime' = DueTime(answer)
  <2>1. \A e \in Transmits' : e.when = lastTxTime'
    BY <1>3, <1>5 DEF Transmits
  <2>2. \A s \in Sent' : lastTxTime' >= s + answer.intersend /\ s <= lastTxTime'
    BY <1>1, <1>2, <1>5
  <2>3. \A s \in Sent' : Apart(s, lastTxTime')
    BY <1>1, <2>2 DEF Apart
  <2> QED
    BY <2>1, <2>2, <2>3 DEF LastTxTimeTells, Apart
<1>6. CASE pending' = events \cup {timer} /\ lastTxTime' = lastTxTime
  <2>1. \A e \in Transmits' : e \in events /\ e.kind = "Transmit"
    BY <1>3, <1>6 DEF Transmits
  <2> QED
    BY <1>6, <2>1 DEF LastTxTimeTells, Apart
<1> QED
  BY <1>4, <1>5, <1>6

(* A step that schedules nothing, when the wire gains nothing.              *)
LEMMA PacedQuiet ==
  ASSUME PacingInv, wire' = wire, lastTxTime' = lastTxTime,
         ~Ended' => ~Ended /\ Transmits' \subseteq Transmits
  PROVE  PacketsApart' /\ LastTxTimeTells'
<1>1. PacketsApart'
  BY DEF PacingInv, PacketsApart, Apart
<1>2. LastTxTimeTells'
  BY DEF PacingInv, LastTxTimeTells, Sent, Apart
<1> QED
  BY <1>1, <1>2

(* A transmission: the packet joins the wire, and the next is scheduled.    *)
LEMMA SendPaced ==
  ASSUME PacingInv, SenderInv', NEW e \in pending, NEW seq, Send(e, seq)
  PROVE  PacketsApart' /\ LastTxTimeTells'
<1> DEFINE pkt == [seq |-> seq, sentTime |-> now]
<1>1. /\ e.when = now /\ e.kind = "Transmit" /\ ~Ended /\ wire' = Append(wire, pkt)
      /\ cc' \in CcStates /\ ScheduleTx(FALSE, pending \ {e}, cc')
  BY DEF Send, Due, Ended
<1>2. now = lastTxTime /\ now \in Nat /\ \A s \in Sent : Apart(s, now)
  BY <1>1 DEF PacingInv, LastTxTimeTells, Transmits, SenderInv, TypeOK
<1>3. /\ wire \in Seq(PacketsOnWire) /\ wire' \in Seq(PacketsOnWire)
      /\ {d \in pending \ {e} : d.kind = "Transmit"} = {}
  BY <1>1, NoOtherTransmit DEF PacingInv, SenderInv, TypeOK
<1>4. /\ DOMAIN wire = 1..Len(wire) /\ Len(wire) \in Nat
      /\ DOMAIN wire' = 1..(Len(wire) + 1)
      /\ wire'[Len(wire) + 1].sentTime = now
      /\ \A i \in DOMAIN wire : wire'[i] = wire[i]
  BY <1>1, <1>3
<1>5. Sent' \subseteq Sent \cup {now}
  BY <1>4 DEF Sent
<1>6. Sent' \subseteq Nat
  BY <1>3, SentTimes DEF Sent
<1>7. \A s \in Sent' : s <= lastTxTime
  <2>1. \A s \in Sent : s <= lastTxTime
    BY <1>1 DEF PacingInv, LastTxTimeTells
  <2> QED
    BY <1>2, <1>5, <2>1
<1>8. PacketsApart'
  <2>1. ASSUME NEW i \in DOMAIN wire', NEW j \in DOMAIN wire', i < j
        PROVE  Apart(wire'[i].sentTime, wire'[j].sentTime)
    <3>1. i \in DOMAIN wire /\ wire'[i] = wire[i]
      BY <1>4, <2>1
    <3>2. CASE j \in DOMAIN wire
      BY <1>4, <2>1, <3>1, <3>2 DEF PacingInv, PacketsApart
    <3>3. CASE j = Len(wire) + 1
      <4>1. wire[i].sentTime \in Sent
        BY <3>1 DEF Sent
      <4> QED
        BY <1>2, <1>4, <3>1, <3>3, <4>1
    <3> QED
      BY <1>4, <3>2, <3>3
  <2> QED
    BY <2>1 DEF PacketsApart, Apart
<1>9. LastTxTimeTells'
  BY <1>1, <1>3, <1>6, <1>7, PacedAfterScheduling DEF PacingInv
<1> QED
  BY <1>8, <1>9

(* A handler that transmits nothing and ends with schedule_tx.              *)
LEMMA ReschedulePaced ==
  ASSUME PacingInv, SenderInv', ~Ended, wire' = wire, NEW events \in SUBSET pending,
         \A e \in pending \ events : e.kind = "Timeout",
         NEW answer \in CcStates, ScheduleTx(txScheduled, events, answer)
  PROVE  PacketsApart' /\ LastTxTimeTells'
<1>1. PacketsApart'
  BY DEF PacingInv, PacketsApart, Apart
<1>2. Sent' = Sent /\ Sent \subseteq Nat
  BY SentTimes DEF Sent, PacingInv, SenderInv, TypeOK
<1>3. /\ \A s \in Sent' : s <= lastTxTime
      /\ \A e \in events : e.kind = "Transmit" => /\ e.when = lastTxTime
                                                  /\ \A s \in Sent' : Apart(s, lastTxTime)
  BY <1>2 DEF PacingInv, LastTxTimeTells, Transmits
<1>4. /\ txScheduled <=> {e \in events : e.kind = "Transmit"} # {}
      /\ txScheduled \in BOOLEAN /\ SenderInv
  BY SameTransmits DEF PacingInv, SenderInv, TypeOK
<1>5. LastTxTimeTells'
  BY <1>2, <1>3, <1>4, PacedAfterScheduling
<1> QED
  BY <1>1, <1>5

(* The network takes a packet: those that are left were as far apart.       *)
LEMMA TakenPaced ==
  ASSUME PacingInv, NEW i \in DOMAIN wire, NetworkTakes(i)
  PROVE  PacketsApart' /\ LastTxTimeTells'
<1>1. /\ wire' = Without(wire, i) /\ lastTxTime' = lastTxTime
      /\ Transmits' = Transmits /\ (Ended <=> Ended')
  BY DEF NetworkTakes, Transmits, Ended, HasEnded, PastDuration, Covers, ReceivedTill
<1>2. /\ DOMAIN wire = 1..Len(wire) /\ Len(wire) \in Nat
      /\ DOMAIN wire' = 1..(Len(wire) - 1)
      /\ \A j \in 1..(Len(wire) - 1) : wire'[j] = wire[IF j < i THEN j ELSE j + 1]
  BY <1>1, WithoutKeeps DEF PacingInv, SenderInv, TypeOK
<1> DEFINE place(j) == IF j < i THEN j ELSE j + 1
<1>3. \A j \in DOMAIN wire' : place(j) \in DOMAIN wire /\ wire'[j] = wire[place(j)]
  BY <1>2
<1>4. \A j, k \in DOMAIN wire' : j < k => place(j) < place(k)
  BY <1>2
<1> HIDE DEF place
<1>5. PacketsApart'
  BY <1>3, <1>4 DEF PacingInv, PacketsApart, Apart
<1>6. Sent' \subseteq Sent
  BY <1>3 DEF Sent
<1>7. LastTxTimeTells'
  BY <1>1, <1>6 DEF PacingInv, LastTxTimeTells, Apart
<1> QED
  BY <1>5, <1>7

(* Each handler, and each step of the environment. *)
LEMMA PacingStep == PacingInv /\ [SenderNext]_senderVars => PacingInv'
<1> SUFFICES ASSUME PacingInv, [SenderNext]_senderVars
             PROVE  SenderInv' /\ PacketsApart' /\ LastTxTimeTells'
  BY DEF PacingInv
<1>1. SenderInv' /\ SenderInv
  BY StepPreserves DEF PacingInv
<1>2. now \in Nat /\ cc \in CcStates
  BY <1>1 DEF SenderInv, TypeOK
<1>3. ASSUME NEW e \in pending, Retransmit(e) \/ TransmitFresh(e)
      PROVE  PacketsApart' /\ LastTxTimeTells'
  <2>1. PICK seq : Send(e, seq)
    BY <1>3 DEF Retransmit, TransmitFresh
  <2> QED
    BY <1>1, <2>1, SendPaced
<1>4. ASSUME NEW e \in pending, TimeoutFires(e)
      PROVE  PacketsApart' /\ LastTxTimeTells'
  <2>1. /\ ~Ended /\ wire' = wire /\ e.kind = "Timeout" /\ cc' \in CcStates
        /\ ScheduleTx(txScheduled, pending \ {e}, cc')
    BY <1>4 DEF TimeoutFires, Ended
  <2> QED
    BY <1>1, <2>1, ReschedulePaced
<1>5. ASSUME NEW ack \in Acks, PushAck(ack)
      PROVE  PacketsApart' /\ LastTxTimeTells'
  <2> DEFINE answer == IF MarkAcked(trackRx, AckedBy(ack)).unreported > 0 THEN cc ELSE cc'
  <2>1. /\ ~Ended /\ wire' = wire /\ cc' \in CcStates
        /\ ScheduleTx(txScheduled, pending, answer)
    BY <1>5 DEF PushAck, Ended
  <2>2. answer \in CcStates
    BY <1>2, <2>1
  <2> HIDE DEF answer
  <2> QED
    BY <1>1, <2>1, <2>2, ReschedulePaced
<1>6. PastDuration /\ now' \in Nat /\ now <= now' => PastDuration'
  BY <1>2, SenderAssumption DEF PastDuration
<1>7. ASSUME UNCHANGED <<wire, lastTxTime, trackRx>>, now' \in {now, now + 1},
             pending' \subseteq pending
      PROVE  PacketsApart' /\ LastTxTimeTells'
  <2>1. Ended => Ended'
    BY <1>2, <1>6, <1>7 DEF Ended, HasEnded, Covers, ReceivedTill
  <2>2. Transmits' \subseteq Transmits
    BY <1>7 DEF Transmits
  <2> QED
    BY <1>7, <2>1, <2>2, PacedQuiet
<1>8. ASSUME NEW e \in pending, EventAfterEnd(e) \/ TimeoutStale(e)
      PROVE  PacketsApart' /\ LastTxTimeTells'
  BY <1>7, <1>8 DEF EventAfterEnd, TimeoutStale
<1>9. ASSUME NEW ack \in Acks, AckPanics(ack)
      PROVE  PacketsApart' /\ LastTxTimeTells'
  BY <1>7, <1>9 DEF AckPanics
<1>10. ASSUME NEW i \in DOMAIN wire, NetworkTakes(i)
       PROVE  PacketsApart' /\ LastTxTimeTells'
  BY <1>10, TakenPaced
<1>11. CASE AdvanceTime
  BY <1>1, <1>7, <1>11 DEF AdvanceTime
<1>12. CASE UNCHANGED senderVars
  BY <1>1, <1>7, <1>12 DEF senderVars
<1> QED
  BY <1>1, <1>3, <1>4, <1>5, <1>8, <1>9, <1>10, <1>11, <1>12
     DEF SenderNext, HandleEvent, HandleAck, IgnoreAck

(* The documented promise of get_intersend_time holds of every flow that    *)
(* starts at time 0, on any path and whatever the congestion control says.  *)
THEOREM AlwaysPaced ==
  ASSUME StartTime = 0
  PROVE  SenderSpec => []Paced
<1>1. SenderInit => PacingInv
  <2> SUFFICES ASSUME SenderInit PROVE PacketsApart /\ LastTxTimeTells
    BY InitEstablishes DEF PacingInv
  <2>1. Sent = {} /\ DOMAIN wire = {}
    BY DEF Sent, SenderInit
  <2>2. \A e \in Transmits : e.when = lastTxTime
    BY DEF Transmits, SenderInit, FirstEvents, Transmit, Timeout
  <2> QED
    BY <2>1, <2>2 DEF PacketsApart, LastTxTimeTells
<1>2. PacingInv => Paced
  <2> SUFFICES ASSUME PacingInv, NEW i \in 1..(Len(wire) - 1)
               PROVE  Apart(wire[i].sentTime, wire[i + 1].sentTime)
    BY DEF Paced, Apart
  <2>1. i \in DOMAIN wire /\ i + 1 \in DOMAIN wire /\ i < i + 1
    BY DEF PacingInv, SenderInv, TypeOK
  <2> QED
    BY <2>1 DEF PacingInv, PacketsApart
<1> QED
  BY <1>1, <1>2, PacingStep, PTL DEF SenderSpec
=============================================================================
