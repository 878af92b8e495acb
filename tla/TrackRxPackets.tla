--------------------------- MODULE TrackRxPackets ---------------------------
(***************************************************************************)
(* The packet tracker of src/src/transport.rs (struct TrackRxPackets).     *)
(* The TCP sender keeps one to know what was acked, lost or retransmitted; *)
(* the acker keeps one to build cumulative acks and SACK blocks.           *)
(*                                                                         *)
(* A tracker is a record:                                                  *)
(*   left, right  the window of sequence numbers [left, right) in `range`  *)
(*   status       the `status` deque, indexed by sequence number           *)
(*   lost         the counter num_lost                                     *)
(*   unreported   the counter num_unreported_lost                          *)
(*                                                                         *)
(* The loops of the code walk the deque; here each is a set or a function  *)
(* over the window.  TrackerCalls compares them with the loops.            *)
(*                                                                         *)
(* In this and the other modules, a definition marked `Fault' is a wrong    *)
(* version of the one that follows it, which some property must reject.    *)
(***************************************************************************)
EXTENDS Integers, FiniteSets

CONSTANT DupackLimit    \* dupacks a packet survives: the literal 2 in mark_pkt

ASSUME DupackLimitAssumption == DupackLimit \in Nat

-----------------------------------------------------------------------------
(* PktStatus *)

Received == [st |-> "Received", dup |-> 0, rtx |-> 0]
Lost     == [st |-> "Lost",     dup |-> 0, rtx |-> 0]
NotReceived(i)      == [st |-> "NotReceived",   dup |-> i, rtx |-> 0]
Retransmitted(i, s) == [st |-> "Retransmitted", dup |-> i, rtx |-> s]

PktStatus ==
  {Received, Lost}
    \cup [st : {"NotReceived"}, dup : 0..DupackLimit, rtx : {0}]
    \cup [st : {"Retransmitted"}, dup : 0..DupackLimit, rtx : Nat]

Window(l, r) == l..(r - 1)

Tracker(l, r, status, lost, unreported) ==
  [left |-> l, right |-> r, status |-> status,
   lost |-> lost, unreported |-> unreported]

(* TrackRxPackets::new *)
NewTracker == Tracker(0, 0, [q \in Window(0, 0) |-> Received], 0, 0)

-----------------------------------------------------------------------------
(* What the deque says about its packets *)

ReceivedIn(t) == {q \in Window(t.left, t.right) : t.status[q] = Received}
LostIn(t)     == {q \in Window(t.left, t.right) : t.status[q] = Lost}

(* Every packet the tracker knows to be received, below its window or in it. *)
KnownReceived(t) == Window(0, t.left) \cup ReceivedIn(t)

(* received_till *)
ReceivedTill(t) == t.left

(* num_pkts_received *)
NumPktsReceived(t) == t.left + Cardinality(ReceivedIn(t))

(* The packet lost_packets() offers for retransmission, when t.lost > 0. *)
FirstLost(t) ==
  CHOOSE q \in LostIn(t) : \A p \in LostIn(t) : q <= p

(* get_pkt_status *)
GetPktStatus(t, seq) == IF seq < t.left THEN Received ELSE t.status[seq]

-----------------------------------------------------------------------------
(* mark_pkt *)

(* The `while Some(Received) = front` loop: drop the acked prefix. *)
FrontOf(l, r, status) ==
  CHOOSE f \in l..r : /\ \A q \in l..(f - 1) : status[q] = Received
                      /\ f < r => status[f] # Received

Shrink(l, r, status, lost, unreported) ==
  LET f == FrontOf(l, r, status)
  IN  Tracker(f, r, [q \in Window(f, r) |-> status[q]], lost, unreported)

(* The window grows to the right until it holds seq. *)
ExtendedStatus(t, seq) ==
  [q \in Window(t.left, IF seq < t.right THEN t.right ELSE seq + 1)
     |-> IF q < t.right THEN t.status[q] ELSE NotReceived(0)]

(* Fault: a retransmitted packet is charged for packets sent before it. *)
CountsAny(s, seq) == s.st \in {"NotReceived", "Retransmitted"}

(* One dupack for a packet whose status is s, caused by the arrival of seq. *)
Counts(s, seq) ==
  \/ s.st = "NotReceived"
  \/ s.st = "Retransmitted" /\ seq > s.rtx

Dupacked(s, n) == IF s.dup + n > DupackLimit THEN Lost ELSE [s EXCEPT !.dup = @ + n]

MarkPkt(t, seq, new) ==
  IF seq < t.left
  THEN t
  ELSE LET old    == ExtendedStatus(t, seq)
           window == DOMAIN old
           fresh  == new = Received /\ old[seq] # Received
           hit    == {q \in window : fresh /\ q < seq /\ Counts(old[q], seq)}
           marked == [q \in window |->
                        IF q = seq THEN new
                        ELSE IF q \in hit THEN Dupacked(old[q], 1)
                        ELSE old[q]]
           newly  == {q \in hit : marked[q] = Lost}
           found  == IF old[seq] = Lost /\ new # Lost THEN 1 ELSE 0
       IN  Shrink(t.left, IF seq < t.right THEN t.right ELSE seq + 1, marked,
                  t.lost - found + Cardinality(newly),
                  t.unreported + Cardinality(newly))

(***************************************************************************)
(* The two loops of TcpSender::push mark every packet an ack covers as     *)
(* received, in ascending order: first the cumulative part, then the SACK  *)
(* blocks.  `acked` is the set of all those packets.  A packet outside     *)
(* `acked` gets one dupack from every newly received packet above it       *)
(* (above its retransmission mark too); a packet inside is already         *)
(* received when a later one could give it a dupack.                       *)
(***************************************************************************)
FreshlyAcked(t, acked) ==
  {q \in acked \cap Window(t.left, t.right) : t.status[q] # Received}

(* Fault: every packet above counts, as for packets never retransmitted. *)
DupacksForAny(t, acked, q) == {p \in FreshlyAcked(t, acked) : q < p}

DupacksFor(t, acked, q) ==
  {p \in FreshlyAcked(t, acked) : q < p /\ Counts(t.status[q], p)}

StatusAfterAck(t, acked) ==
  [q \in Window(t.left, t.right) |->
     IF q \in acked THEN Received
     ELSE IF DupacksFor(t, acked, q) = {} THEN t.status[q]
     ELSE Dupacked(t.status[q], Cardinality(DupacksFor(t, acked, q)))]

NewlyLost(t, acked) ==
  {q \in Window(t.left, t.right) :
     t.status[q] # Lost /\ StatusAfterAck(t, acked)[q] = Lost}

MarkAcked(t, acked) ==
  Shrink(t.left, t.right, StatusAfterAck(t, acked),
         t.lost - Cardinality(LostIn(t) \cap acked) + Cardinality(NewlyLost(t, acked)),
         t.unreported + Cardinality(NewlyLost(t, acked)))

-----------------------------------------------------------------------------
(* Fault: packets that are Lost already are counted again. *)
MarkAllAsLostRecounting(t) ==
  [t EXCEPT !.status = [q \in Window(t.left, t.right) |->
                          IF t.status[q] = Received THEN Received ELSE Lost],
            !.lost = @ + Cardinality(Window(t.left, t.right) \ ReceivedIn(t))]

(* Fault: received packets are lost too. *)
MarkAllAsLostBlindly(t) ==
  [t EXCEPT !.status = [q \in Window(t.left, t.right) |-> Lost],
            !.lost = t.right - t.left]

(* mark_all_as_lost: the packets it marks are not added to `unreported`. *)
MarkAllAsLost(t) ==
  [t EXCEPT !.status = [q \in Window(t.left, t.right) |->
                          IF t.status[q] = Received THEN Received ELSE Lost],
            !.lost = @ + Cardinality({q \in Window(t.left, t.right) :
                                        t.status[q] \notin {Received, Lost}})]

(* Fault: the counter is not reset. *)
ReportedStays(t) == t

(* num_unreported_lost: the value is t.unreported, the effect is this. *)
Reported(t) == [t EXCEPT !.unreported = 0]

(***************************************************************************)
(* generate_sack: the maximal runs of received packets, the `max` highest  *)
(* of them.  The code returns them in ascending order, so a set says the   *)
(* same.  Its branch for a run that reaches the left edge of the window    *)
(* is never taken: mark_pkt leaves no received packet at the front.        *)
(***************************************************************************)
SackBlocks(t) ==
  {b \in (t.left..t.right) \X (t.left..t.right) :
     /\ b[1] < b[2]
     /\ \A q \in b[1]..(b[2] - 1) : t.status[q] = Received
     /\ b[1] > t.left => t.status[b[1] - 1] # Received
     /\ b[2] < t.right => t.status[b[2]] # Received}

(* Fault: the lowest blocks instead of the highest. *)
GenerateSackLowest(t, max) ==
  {b \in SackBlocks(t) : Cardinality({c \in SackBlocks(t) : c[1] < b[1]}) < max}

GenerateSack(t, max) ==
  {b \in SackBlocks(t) : Cardinality({c \in SackBlocks(t) : c[1] > b[1]}) < max}

(* Fault: the right edge of a block taken as covered. *)
SackedWithEdge(blocks) == UNION {b[1]..b[2] : b \in blocks}

(* The packets a set of SACK blocks covers. *)
Sacked(blocks) == UNION {b[1]..(b[2] - 1) : b \in blocks}

-----------------------------------------------------------------------------
(* What the assertions and the unreachable!() of the code rely on. *)

TrackerType(t) ==
  /\ t = Tracker(t.left, t.right, t.status, t.lost, t.unreported)
  /\ t.left \in Nat /\ t.right \in Nat
  /\ t.status \in [Window(t.left, t.right) -> PktStatus]
  /\ t.lost \in Nat /\ t.unreported \in Nat

WindowSound(t) ==
  /\ t.left <= t.right
  /\ t.left < t.right => t.status[t.left] # Received

LostCounted(t) == t.lost = Cardinality(LostIn(t))

TrackerSound(t) == TrackerType(t) /\ WindowSound(t) /\ LostCounted(t)
=============================================================================
