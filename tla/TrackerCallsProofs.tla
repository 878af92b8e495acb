-------------------------- MODULE TrackerCallsProofs --------------------------
(***************************************************************************)
(* Every sequence of calls of a tracker's two users keeps the tracker      *)
(* sound and undoes no ack, for any number of packets: also the calls that *)
(* TcpSender never combines so.                                            *)
(*                                                                         *)
(* Then that the loops of the code compute what the other modules state in *)
(* closed form: the marking loops of TcpSender::push, and generate_sack.   *)
(* Both by the least step at which the loop would go astray.               *)
(***************************************************************************)
EXTENDS TrackerCalls, TrackRxProofs, SequenceTheorems

(* The packets a sender has sent are those of its tracker's window, or      *)
(* below it; an acker sends none.                                           *)
CallsInv ==
  /\ user \in {"sender", "acker"} /\ nextPkt \in Nat
  /\ TrackerSound(tracker)
  /\ user = "sender" => tracker.right = nextPkt

(* A new tracker, of a sender or an acker, is sound. *)
LEMMA CallsStart == Init => CallsInv
BY NewTrackerSound DEF Init, CallsInv

(* Each call keeps the tracker sound and knows what it knew.                *)
LEMMA CallsStep ==
  ASSUME CallsInv, [Next]_vars
  PROVE  CallsInv' /\ KnownReceived(tracker) \subseteq KnownReceived(tracker')
<1>1. /\ user \in {"sender", "acker"} /\ nextPkt \in Nat /\ TrackerSound(tracker)
      /\ user = "sender" => tracker.right = nextPkt
  BY DEF CallsInv
<1>2. tracker.left \in Nat /\ tracker.right \in Nat
  BY <1>1 DEF TrackerSound, TrackerType
<1>3. CASE Send
  <2>1. /\ user = "sender" /\ user' = user /\ nextPkt' = nextPkt + 1
        /\ tracker' = MarkPkt(tracker, nextPkt, NotReceived(0))
    BY <1>3 DEF Send
  <2>2. /\ TrackerSound(tracker')
        /\ tracker'.right = IF nextPkt < tracker.right THEN tracker.right ELSE nextPkt + 1
    BY <1>1, <2>1, MarkPktSound, StatusesDistinct
  <2>3. nextPkt \notin KnownReceived(tracker)
    BY <1>1, <2>1, KnownBounds DEF Window
  <2>4. KnownReceived(tracker') = KnownReceived(tracker)
    BY <1>1, <2>1, <2>3, MarkPktKnown, StatusesDistinct
  <2> QED
    BY <1>1, <2>1, <2>2, <2>4 DEF CallsInv
<1>4. CASE Retransmit
  <2> DEFINE seq == FirstLost(tracker)
             new == Retransmitted(0, nextPkt)
  <2>1. /\ user = "sender" /\ user' = user /\ nextPkt' = nextPkt
        /\ tracker' = MarkPkt(tracker, seq, new) /\ tracker.lost > 0
    BY <1>4 DEF Retransmit
  <2>2. seq \in LostIn(tracker)
    BY <1>1, <2>1, FirstLostFound
  <2>3. /\ seq \in Window(tracker.left, tracker.right) /\ tracker.status[seq] = Lost
        /\ seq \in Nat /\ seq < tracker.right
    BY <1>2, <2>2 DEF LostIn, Window
  <2>4. seq \notin KnownReceived(tracker)
    BY <1>2, <2>3, StatusesDistinct DEF KnownReceived, ReceivedIn, Window
  <2>5. new \in PktStatus /\ new # Lost /\ new # Received
    BY <1>1, StatusesDistinct
  <2> HIDE DEF seq, new
  <2>6. /\ TrackerSound(tracker')
        /\ tracker'.right = IF seq < tracker.right THEN tracker.right ELSE seq + 1
    BY <1>1, <2>1, <2>3, <2>5, MarkPktSound
  <2>7. KnownReceived(tracker') = KnownReceived(tracker)
    BY <1>1, <2>1, <2>3, <2>4, <2>5, MarkPktKnown
  <2> QED
    BY <1>1, <2>1, <2>3, <2>6, <2>7 DEF CallsInv
<1>5. CASE Ack
  <2>1. PICK acked \in SUBSET Window(0, nextPkt) :
          tracker' = Reported(MarkAcked(tracker, acked))
    BY <1>5 DEF Ack
  <2>2. user = "sender" /\ user' = user /\ nextPkt' = nextPkt
    BY <1>5 DEF Ack
  <2>3. acked \in SUBSET Window(0, tracker.right) /\ acked \in SUBSET Nat
    BY <1>1, <2>2 DEF Window
  <2> DEFINE u == MarkAcked(tracker, acked)
  <2>4. TrackerSound(u) /\ u.right = tracker.right
    BY <1>1, <2>3, MarkAckedSound
  <2>5. KnownReceived(u) = KnownReceived(tracker) \cup acked
    BY <1>1, <2>3, MarkAckedKnown
  <2> HIDE DEF u
  <2>6. TrackerSound(tracker') /\ tracker'.right = tracker.right
    BY <2>1, <2>4, ReportedSound DEF u
  <2>7. KnownReceived(tracker') = KnownReceived(u)
    BY <2>1, <2>4, ReportedKnown DEF u
  <2> QED
    BY <1>1, <2>2, <2>5, <2>6, <2>7 DEF CallsInv
<1>6. CASE Timeout
  <2>1. /\ user = "sender" /\ user' = user /\ nextPkt' = nextPkt
        /\ tracker' = MarkAllAsLost(tracker)
    BY <1>6 DEF Timeout
  <2>2. TrackerSound(tracker') /\ tracker'.right = tracker.right
    BY <1>1, <2>1, MarkAllAsLostSound
  <2>3. KnownReceived(tracker') = KnownReceived(tracker)
    BY <1>1, <2>1, MarkAllAsLostKnown
  <2> QED
    BY <1>1, <2>1, <2>2, <2>3 DEF CallsInv
<1>7. CASE Arrive
  <2>1. PICK seq \in Window(0, MaxArrivals) : tracker' = MarkPkt(tracker, seq, Received)
    BY <1>7 DEF Arrive
  <2>2. user = "acker" /\ user' = user /\ nextPkt' = nextPkt /\ seq \in Nat
    BY <1>7, CallsAssumption DEF Arrive, Window
  <2>3. TrackerSound(tracker')
    BY <1>1, <2>1, <2>2, MarkPktSound, StatusesDistinct
  <2>4. KnownReceived(tracker') = KnownReceived(tracker) \cup {seq}
    BY <1>1, <2>1, <2>2, MarkPktKnown, StatusesDistinct
  <2> QED
    BY <1>1, <2>2, <2>3, <2>4 DEF CallsInv
<1>8. CASE UNCHANGED vars
  BY <1>1, <1>8 DEF vars, CallsInv
<1> QED
  BY <1>3, <1>4, <1>5, <1>6, <1>7, <1>8 DEF Next

(* What the assertions and the unreachable!() of the tracker rely on holds  *)
(* after any calls of a sender or an acker.                                 *)
THEOREM TrackerAlwaysIsSound == Spec => []TrackerIsSound
<1>1. CallsInv /\ [Next]_vars => CallsInv'
  BY CallsStep
<1>2. CallsInv => TrackerIsSound
  BY DEF CallsInv, TrackerIsSound
<1> QED
  BY <1>1, <1>2, CallsStart, PTL DEF Spec

(* No call takes back that a packet was received: retransmissions, timeouts *)
(* and late duplicates undo no ack.                                         *)
THEOREM ReceivedStaysReceived == Spec => ReceivedIsStable
<1>1. CallsInv /\ [Next]_vars => CallsInv'
  BY CallsStep
<1>2. CallsInv /\ [Next]_vars => [KnownReceived(tracker) \subseteq KnownReceived(tracker')]_vars
  BY CallsStep
<1> QED
  BY <1>1, <1>2, CallsStart, PTL DEF Spec, ReceivedIsStable

-----------------------------------------------------------------------------
(* Marking the packets of an ack at once or one by one *)

(* The status of q when seq is marked received: at most one dupack.         *)
StatusAfterMark(t, seq, q) ==
  IF q = seq THEN Received
  ELSE IF t.status[seq] # Received /\ q < seq /\ Counts(t.status[q], seq)
       THEN Dupacked(t.status[q], 1)
       ELSE t.status[q]

(* Two sound trackers that know the same packets, give them the same        *)
(* statuses and have the same losses to report are the same tracker.        *)
LEMMA TrackersEqual ==
  ASSUME NEW t, TrackerSound(t), NEW u, TrackerSound(u),
         t.right = u.right, KnownReceived(t) = KnownReceived(u),
         \A q \in Window(t.left, t.right) : t.status[q] = u.status[q],
         t.unreported - t.lost = u.unreported - u.lost
  PROVE  t = u
<1>1. /\ t = Tracker(t.left, t.right, t.status, t.lost, t.unreported)
      /\ t.left \in Nat /\ t.status \in [Window(t.left, t.right) -> PktStatus]
      /\ t.lost \in Nat /\ t.unreported \in Nat /\ t.lost = Cardinality(LostIn(t))
  BY DEF TrackerSound, TrackerType, LostCounted
<1>2. /\ u = Tracker(u.left, u.right, u.status, u.lost, u.unreported)
      /\ u.left \in Nat /\ u.status \in [Window(u.left, u.right) -> PktStatus]
      /\ u.lost \in Nat /\ u.unreported \in Nat /\ u.lost = Cardinality(LostIn(u))
  BY DEF TrackerSound, TrackerType, LostCounted
<1>3. t.left = u.left
  <2>1. t.left <= u.left
    BY LeftIsFirstGap
  <2>2. u.left <= t.left
    BY LeftIsFirstGap
  <2> QED
    BY <1>1, <1>2, <2>1, <2>2
<1>4. t.status = u.status
  BY <1>1, <1>2, <1>3
<1>5. LostIn(t) = LostIn(u)
  BY <1>3, <1>4 DEF LostIn
<1>6. t.lost = u.lost
  BY <1>1, <1>2, <1>5
<1>7. t.unreported = u.unreported
  BY <1>1, <1>2, <1>6
<1> QED
  BY <1>1, <1>2, <1>3, <1>4, <1>6, <1>7

(* An ack that covers nothing changes nothing.                              *)
LEMMA StatusAfterNoAck ==
  ASSUME NEW t, NEW q \in Window(t.left, t.right)
  PROVE  StatusAfterAck(t, {})[q] = t.status[q]
BY DEF StatusAfterAck, DupacksFor, FreshlyAcked

(* What MarkAcked does to the status of each packet, and that it reports    *)
(* as many losses as it adds to the lost packets.                           *)
LEMMA MarkAckedExactly ==
  ASSUME NEW t, TrackerSound(t), NEW acked \in SUBSET Nat
  PROVE  LET u == MarkAcked(t, acked)
         IN  /\ \A q \in Window(u.left, u.right) :
                  q \in Window(t.left, t.right) /\ u.status[q] = StatusAfterAck(t, acked)[q]
             /\ u.unreported - u.lost
                  = t.unreported - t.lost + Cardinality(LostIn(t) \cap acked)
<1> DEFINE status == StatusAfterAck(t, acked)
           newly  == Cardinality(NewlyLost(t, acked))
           found  == Cardinality(LostIn(t) \cap acked)
           u      == MarkAcked(t, acked)
<1>1. /\ t.left \in Nat /\ t.right \in Nat /\ t.left <= t.right
      /\ t.lost \in Nat /\ t.unreported \in Nat
  BY DEF TrackerSound, TrackerType, WindowSound
<1>2. newly \in Nat /\ found \in Nat
  <2>1. NewlyLost(t, acked) \in SUBSET Window(t.left, t.right)
    BY DEF NewlyLost
  <2>2. LostIn(t) \cap acked \in SUBSET Window(t.left, t.right)
    BY DEF LostIn
  <2> QED
    BY <1>1, <2>1, <2>2, WindowParts
<1>3. u = Shrink(t.left, t.right, status, t.lost - found + newly, t.unreported + newly)
  BY DEF MarkAcked
<1> HIDE DEF status, newly, found, u
<1>4. u.lost = t.lost - found + newly /\ u.unreported = t.unreported + newly
  BY <1>3 DEF Shrink, Tracker
<1>5. \A q \in Window(u.left, u.right) : q \in Window(t.left, t.right) /\ u.status[q] = status[q]
  BY <1>1, <1>3, ShrinkStatus
<1>6. u.unreported - u.lost = t.unreported - t.lost + found
  BY <1>1, <1>2, <1>4
<1> QED
  BY <1>5, <1>6 DEF u, status, found

(* The same for mark_pkt and a received packet of the window.               *)
LEMMA MarkReceivedExactly ==
  ASSUME NEW t, TrackerSound(t), NEW seq \in Window(t.left, t.right)
  PROVE  LET u == MarkPkt(t, seq, Received)
         IN  /\ \A q \in Window(u.left, u.right) :
                  q \in Window(t.left, t.right) /\ u.status[q] = StatusAfterMark(t, seq, q)
             /\ u.unreported - u.lost
                  = t.unreported - t.lost + (IF t.status[seq] = Lost THEN 1 ELSE 0)
<1> DEFINE old    == ExtendedStatus(t, seq)
           fresh  == Received = Received /\ old[seq] # Received
           hit    == {q \in DOMAIN old : fresh /\ q < seq /\ Counts(old[q], seq)}
           marked == [q \in DOMAIN old |->
                        IF q = seq THEN Received
                        ELSE IF q \in hit THEN Dupacked(old[q], 1)
                        ELSE old[q]]
           lostNow == {q \in hit : marked[q] = Lost}
           newly  == Cardinality(lostNow)
           found  == IF old[seq] = Lost /\ Received # Lost THEN 1 ELSE 0
           u      == MarkPkt(t, seq, Received)
<1>1. /\ t.left \in Nat /\ t.right \in Nat /\ t.left <= t.right
      /\ t.status \in [Window(t.left, t.right) -> PktStatus]
      /\ t.lost \in Nat /\ t.unreported \in Nat
  BY DEF TrackerSound, TrackerType, WindowSound
<1>2. ~(seq < t.left) /\ seq < t.right /\ seq \in Nat
  BY <1>1 DEF Window
<1>3. old = t.status /\ DOMAIN old = Window(t.left, t.right)
  <2>1. old = [q \in Window(t.left, t.right) |-> IF q < t.right THEN t.status[q] ELSE NotReceived(0)]
    BY <1>2 DEF ExtendedStatus
  <2>2. \A q \in Window(t.left, t.right) : q < t.right
    BY <1>1 DEF Window
  <2> QED
    BY <1>1, <2>1, <2>2
<1>4. u = Shrink(t.left, t.right, marked, t.lost - found + newly, t.unreported + newly)
  BY <1>2 DEF MarkPkt
<1>5. \A q \in Window(t.left, t.right) : marked[q] = StatusAfterMark(t, seq, q)
  BY <1>3 DEF StatusAfterMark
<1>6. newly \in Nat
  <2>1. lostNow \in SUBSET Window(t.left, t.right)
    BY <1>3
  <2> HIDE DEF lostNow
  <2> QED
    BY <1>1, <2>1, WindowParts
<1>7. found = IF t.status[seq] = Lost THEN 1 ELSE 0
  BY <1>3, StatusesDistinct
<1> HIDE DEF old, hit, marked, newly, found, u, lostNow
<1>8. u.lost = t.lost - found + newly /\ u.unreported = t.unreported + newly
  BY <1>4 DEF Shrink, Tracker
<1>9. \A q \in Window(u.left, u.right) : q \in Window(t.left, t.right) /\ u.status[q] = marked[q]
  BY <1>1, <1>4, ShrinkStatus
<1>10. u.unreported - u.lost = t.unreported - t.lost + (IF t.status[seq] = Lost THEN 1 ELSE 0)
  BY <1>1, <1>6, <1>7, <1>8
<1> QED
  BY <1>5, <1>9, <1>10 DEF u

(* n dupacks and one more are n + 1 dupacks, for a packet that counts them. *)
LEMMA DupackedAgain ==
  ASSUME NEW s \in PktStatus, NEW seq \in Nat, NEW n \in Nat, n > 0, Counts(s, seq)
  PROVE  /\ Counts(Dupacked(s, n), seq) => Dupacked(Dupacked(s, n), 1) = Dupacked(s, n + 1)
         /\ ~Counts(Dupacked(s, n), seq) => Dupacked(s, n) = Dupacked(s, n + 1)
<1>1. /\ s.st \in {"NotReceived", "Retransmitted"} /\ s.dup \in Nat
      /\ DOMAIN s = {"st", "dup", "rtx"}
      /\ s = [st |-> s.st, dup |-> s.dup, rtx |-> s.rtx]
  BY DupackLimitAssumption DEF PktStatus, Counts, Received, Lost
<1>2. CASE s.dup + n > DupackLimit
  <2>1. Dupacked(s, n) = Lost
    BY <1>2 DEF Dupacked
  <2>2. Dupacked(s, n + 1) = Lost
    BY <1>1, <1>2, DupackLimitAssumption DEF Dupacked
  <2>3. ~Counts(Lost, seq)
    BY DEF Counts, Lost
  <2> QED
    BY <2>1, <2>2, <2>3
<1>3. CASE ~(s.dup + n > DupackLimit)
  <2> DEFINE v == [st |-> s.st, dup |-> s.dup + n, rtx |-> s.rtx]
  <2>1. Dupacked(s, n) = v
    BY <1>1, <1>3 DEF Dupacked
  <2>2. Counts(v, seq)
    BY DEF Counts
  <2>3. Dupacked(v, 1) = Dupacked(s, n + 1)
    BY <1>1 DEF Dupacked
  <2> QED
    BY <2>1, <2>2, <2>3
<1> QED
  BY <1>2, <1>3

(* One more packet of the window, above those an ack covers already: it     *)
(* gives one dupack where it is news, as mark_pkt would.                    *)
LEMMA StatusAfterOneMore ==
  ASSUME NEW t, TrackerSound(t), NEW acked \in SUBSET Nat,
         NEW p \in Window(t.left, t.right), \A a \in acked : a < p,
         NEW q \in Window(t.left, t.right)
  PROVE  LET status == StatusAfterAck(t, acked)
         IN  StatusAfterAck(t, acked \cup {p})[q]
               = IF q = p THEN Received
                 ELSE IF status[p] # Received /\ q < p /\ Counts(status[q], p)
                      THEN Dupacked(status[q], 1)
                      ELSE status[q]
<1> DEFINE window == Window(t.left, t.right)
           more == acked \cup {p}
           status == StatusAfterAck(t, acked)
           after == StatusAfterAck(t, more)
           D == DupacksFor(t, acked, q)
           E == DupacksFor(t, more, q)
<1>1. /\ t.left \in Nat /\ t.right \in Nat
      /\ \A x \in window : x \in Nat
      /\ t.status[q] \in PktStatus
  BY DEF TrackerSound, TrackerType, Window
<1>2. p \in Nat /\ q \in Nat /\ p \notin acked
  BY <1>1
<1>3. /\ status[q] = IF q \in acked THEN Received
                     ELSE IF D = {} THEN t.status[q] ELSE Dupacked(t.status[q], Cardinality(D))
      /\ after[q] = IF q \in more THEN Received
                    ELSE IF E = {} THEN t.status[q] ELSE Dupacked(t.status[q], Cardinality(E))
  BY DEF StatusAfterAck
<1>4. status[p] = t.status[p]
  <2>1. \A x \in acked : ~(p < x)
    BY <1>2
  <2>2. DupacksFor(t, acked, p) = {}
    BY <2>1 DEF DupacksFor, FreshlyAcked
  <2> QED
    BY <1>2, <2>2 DEF StatusAfterAck
<1>5. E = IF t.status[p] # Received /\ q < p /\ Counts(t.status[q], p) THEN D \cup {p} ELSE D
  BY DEF DupacksFor, FreshlyAcked
<1>6. D \subseteq window /\ \A x \in D : q < x /\ x \in acked /\ Counts(t.status[q], x)
  BY DEF DupacksFor, FreshlyAcked
<1>7. IsFiniteSet(D) /\ Cardinality(D) \in Nat /\ p \notin D
  BY <1>1, <1>2, <1>6, WindowParts
<1>8. Cardinality(D \cup {p}) = Cardinality(D) + 1
  BY <1>7, FS_AddElement
<1> HIDE DEF D, E, status, after
<1>9. CASE q = p
  BY <1>3, <1>9 DEF status, after
<1>10. CASE q \in acked
  <2>1. ~Counts(Received, p)
    BY DEF Counts, Received
  <2> QED
    BY <1>2, <1>3, <1>10, <2>1 DEF status, after
<1>11. CASE q # p /\ q \notin acked
  <2>1. q \notin more
    BY <1>11
  <2>2. CASE ~(t.status[p] # Received /\ q < p /\ Counts(t.status[q], p))
    <3>1. after[q] = status[q]
      BY <1>3, <1>5, <1>11, <2>1, <2>2
    <3>2. ~(t.status[p] # Received /\ q < p /\ Counts(status[q], p))
      <4>1. CASE D = {}
        BY <1>3, <1>11, <2>2, <4>1
      <4>2. CASE D # {}
        <5>1. PICK x \in D : x \in Nat /\ q < x /\ Counts(t.status[q], x)
          BY <1>1, <1>6, <4>2
        <5>2. \/ status[q] = Lost
              \/ status[q].st = t.status[q].st /\ status[q].rtx = t.status[q].rtx
          BY <1>1, <1>3, <1>7, <1>11, <4>2, <5>1, DupackedKeeps
        <5>3. ~Counts(Lost, p)
          BY DEF Counts, Lost
        <5> QED
          BY <2>2, <5>2, <5>3 DEF Counts
      <4> QED
        BY <4>1, <4>2
    <3> QED
      BY <1>4, <1>11, <3>1, <3>2 DEF status, after
  <2>3. CASE t.status[p] # Received /\ q < p /\ Counts(t.status[q], p)
    <3>1. after[q] = Dupacked(t.status[q], Cardinality(D) + 1)
      BY <1>3, <1>5, <1>8, <2>1, <2>3
    <3>2. CASE D = {}
      <4>1. Cardinality(D) = 0
        BY <3>2, FS_EmptySet
      <4>2. status[q] = t.status[q] /\ after[q] = Dupacked(t.status[q], 1)
        BY <1>3, <1>11, <3>1, <3>2, <4>1
      <4> QED
        BY <1>4, <1>11, <2>3, <4>2 DEF status, after
    <3>3. CASE D # {}
      <4>1. Cardinality(D) > 0
        BY <1>7, <3>3, FS_EmptySet
      <4>2. status[q] = Dupacked(t.status[q], Cardinality(D))
        BY <1>3, <1>11, <3>3
      <4>3. after[q] = IF Counts(status[q], p) THEN Dupacked(status[q], 1) ELSE status[q]
        BY <1>1, <1>2, <1>7, <2>3, <3>1, <4>1, <4>2, DupackedAgain
      <4> QED
        BY <1>4, <1>11, <2>3, <4>3 DEF status, after
    <3> QED
      BY <3>2, <3>3
  <2> QED
    BY <2>2, <2>3
<1> QED
  BY <1>9, <1>10, <1>11

(* So an ack of one packet more is the ack, and then mark_pkt.              *)
LEMMA AckOneMore ==
  ASSUME NEW t, TrackerSound(t), NEW acked \in SUBSET Window(0, t.right),
         NEW p \in Nat, p < t.right, \A a \in acked : a < p
  PROVE  LET u == MarkAcked(t, acked)
         IN  MarkAcked(t, acked \cup {p})
               = IF p < ReceivedTill(u) THEN u ELSE MarkPkt(u, p, Received)
<1> DEFINE more == acked \cup {p}
           u == MarkAcked(t, acked)
           v == MarkPkt(u, p, Received)
           w == MarkAcked(t, more)
           status == StatusAfterAck(t, acked)
           after == StatusAfterAck(t, more)
           found == Cardinality(LostIn(t) \cap acked)
           foundMore == Cardinality(LostIn(t) \cap more)
<1>1. /\ t.left \in Nat /\ t.right \in Nat
      /\ t.lost \in Nat /\ t.unreported \in Nat
  BY DEF TrackerSound, TrackerType
<1>2. /\ more \in SUBSET Window(0, t.right) /\ more \in SUBSET Nat
      /\ acked \in SUBSET Nat /\ p \notin acked
  BY <1>1 DEF Window
<1>3. /\ TrackerSound(u) /\ u.right = t.right /\ u.left >= t.left
      /\ TrackerSound(w) /\ w.right = t.right /\ w.left >= t.left
  BY <1>2, MarkAckedSound
<1>4. /\ KnownReceived(u) = KnownReceived(t) \cup acked
      /\ KnownReceived(w) = KnownReceived(u) \cup {p}
  BY <1>2, MarkAckedKnown
<1>5. /\ \A q \in Window(u.left, u.right) :
           q \in Window(t.left, t.right) /\ u.status[q] = status[q]
      /\ u.unreported - u.lost = t.unreported - t.lost + found
  BY <1>2, MarkAckedExactly
<1>6. /\ \A q \in Window(w.left, w.right) :
           q \in Window(t.left, t.right) /\ w.status[q] = after[q]
      /\ w.unreported - w.lost = t.unreported - t.lost + foundMore
  BY <1>2, MarkAckedExactly
<1>7. /\ u.left \in Nat /\ u.right \in Nat /\ u.lost \in Nat /\ u.unreported \in Nat
      /\ w.left \in Nat /\ w.lost \in Nat /\ w.unreported \in Nat
  BY <1>3 DEF TrackerSound, TrackerType
<1>8. found \in Nat /\ IsFiniteSet(LostIn(t) \cap acked)
  <2>1. LostIn(t) \cap acked \in SUBSET Window(t.left, t.right)
    BY DEF LostIn
  <2> QED
    BY <1>1, <2>1, WindowParts
<1>9. foundMore = IF p \in LostIn(t) THEN found + 1 ELSE found
  <2>1. CASE p \in LostIn(t)
    <3>1. LostIn(t) \cap more = (LostIn(t) \cap acked) \cup {p} /\ p \notin LostIn(t) \cap acked
      BY <1>2, <2>1
    <3> QED
      BY <1>8, <2>1, <3>1, FS_AddElement
  <2>2. CASE p \notin LostIn(t)
    <3>1. LostIn(t) \cap more = LostIn(t) \cap acked
      BY <2>2
    <3> QED
      BY <2>2, <3>1
  <2> QED
    BY <2>1, <2>2
<1> HIDE DEF u, w, status, after, found, foundMore
<1>10. CASE p < u.left
  <2>1. p \in KnownReceived(u)
    BY <1>3, <1>10, KnownBounds DEF Window
  <2>2. p < t.left \/ (p \in Window(t.left, t.right) /\ t.status[p] = Received)
    BY <1>1, <1>2, <1>4, <2>1 DEF KnownReceived, ReceivedIn, Window
  <2>3. p \notin LostIn(t)
    BY <1>1, <2>2, StatusesDistinct DEF LostIn, Window
  <2>4. ASSUME NEW q \in Window(w.left, w.right)
        PROVE  w.status[q] = u.status[q]
    <3>1. w.left >= u.left
      BY <1>3, <1>4, LeftIsFirstGap
    <3>2. q \in Nat /\ q > p /\ q \in Window(u.left, u.right) /\ q \in Window(t.left, t.right)
      BY <1>3, <1>6, <1>7, <1>10, <3>1 DEF Window
    <3>3. after[q] = status[q]
      <4>1. CASE p < t.left
        <5>1. FreshlyAcked(t, more) = FreshlyAcked(t, acked)
          BY <1>1, <4>1 DEF FreshlyAcked, Window
        <5>2. q \in more <=> q \in acked
          BY <3>2
        <5> QED
          BY <3>2, <5>1, <5>2 DEF after, status, StatusAfterAck, DupacksFor
      <4>2. CASE p \in Window(t.left, t.right)
        <5>1. q # p /\ ~(q < p)
          BY <3>2
        <5> QED
          BY <1>2, <3>2, <4>2, <5>1, StatusAfterOneMore DEF after, status
      <4> QED
        BY <2>2, <4>1, <4>2
    <3> QED
      BY <1>5, <1>6, <3>2, <3>3
  <2>5. KnownReceived(w) = KnownReceived(u)
    BY <1>4, <2>1
  <2>6. w.unreported - w.lost = u.unreported - u.lost
    BY <1>5, <1>6, <1>9, <2>3
  <2>7. w = u
    BY <1>3, <2>4, <2>5, <2>6, TrackersEqual
  <2> QED
    BY <1>10, <2>7 DEF u, w, ReceivedTill
<1>11. CASE ~(p < u.left)
  <2>1. p \in Window(u.left, u.right) /\ p \in Window(t.left, t.right)
    BY <1>1, <1>3, <1>7, <1>11 DEF Window
  <2>2. /\ \A q \in Window(v.left, v.right) :
             q \in Window(u.left, u.right) /\ v.status[q] = StatusAfterMark(u, p, q)
        /\ v.unreported - v.lost
             = u.unreported - u.lost + (IF u.status[p] = Lost THEN 1 ELSE 0)
    BY <1>3, <2>1, MarkReceivedExactly
  <2>3. TrackerSound(v) /\ v.right = t.right
    BY <1>3, MarkPktSound, StatusesDistinct
  <2>4. KnownReceived(v) = KnownReceived(u) \cup {p}
    BY <1>3, MarkPktKnown, StatusesDistinct
  <2> HIDE DEF v
  <2>5. u.status[p] = t.status[p]
    <3>1. DupacksFor(t, acked, p) = {}
      BY <1>1, <1>2 DEF DupacksFor, FreshlyAcked, Window
    <3>2. status[p] = t.status[p]
      BY <1>2, <2>1, <3>1 DEF status, StatusAfterAck
    <3> QED
      BY <1>5, <2>1, <3>2
  <2>6. u.status[p] = Lost <=> p \in LostIn(t)
    BY <2>1, <2>5 DEF LostIn
  <2>7. ASSUME NEW q \in Window(v.left, v.right)
        PROVE  v.status[q] = w.status[q]
    <3>1. q \in Window(u.left, u.right) /\ v.status[q] = StatusAfterMark(u, p, q)
      BY <2>2
    <3>2. q \in Window(t.left, t.right) /\ u.status[q] = status[q] /\ u.status[p] = status[p]
      BY <1>5, <2>1, <3>1
    <3>3. v.left = w.left
      <4>1. v.left <= w.left
        BY <1>3, <1>4, <2>3, <2>4, LeftIsFirstGap
      <4>2. w.left <= v.left
        BY <1>3, <1>4, <2>3, <2>4, LeftIsFirstGap
      <4>3. v.left \in Nat
        BY <2>3 DEF TrackerSound, TrackerType
      <4> QED
        BY <1>7, <4>1, <4>2, <4>3
    <3>4. w.status[q] = after[q]
      BY <1>3, <1>6, <2>3, <3>3
    <3>5. after[q] = IF q = p THEN Received
                     ELSE IF status[p] # Received /\ q < p /\ Counts(status[q], p)
                          THEN Dupacked(status[q], 1)
                          ELSE status[q]
      BY <1>2, <2>1, <3>2, StatusAfterOneMore DEF after, status
    <3> QED
      BY <3>1, <3>2, <3>4, <3>5 DEF StatusAfterMark
  <2>8. KnownReceived(v) = KnownReceived(w)
    BY <1>4, <2>4
  <2>9. v.unreported - v.lost = w.unreported - w.lost
    <3>1. w.unreported - w.lost = t.unreported - t.lost + found + (IF p \in LostIn(t) THEN 1 ELSE 0)
      BY <1>1, <1>6, <1>8, <1>9
    <3> QED
      BY <1>1, <1>5, <1>8, <2>2, <2>6, <3>1
  <2>10. v = w
    BY <1>3, <2>3, <2>7, <2>8, <2>9, TrackersEqual
  <2> QED
    BY <1>11, <2>10 DEF u, v, w, ReceivedTill
<1> QED
  BY <1>10, <1>11

(* The empty part of an ack leaves a sound tracker as it is.                *)
LEMMA AckOfNothing ==
  ASSUME NEW t, TrackerSound(t)
  PROVE  MarkAcked(t, {}) = t
<1> DEFINE u == MarkAcked(t, {})
<1>1. t.left \in Nat /\ t.right \in Nat /\ t.lost \in Nat /\ t.unreported \in Nat
  BY DEF TrackerSound, TrackerType
<1>2. TrackerSound(u) /\ u.right = t.right
  BY MarkAckedSound
<1>3. KnownReceived(u) = KnownReceived(t)
  BY MarkAckedKnown
<1>4. /\ \A q \in Window(u.left, u.right) :
           q \in Window(t.left, t.right) /\ u.status[q] = StatusAfterAck(t, {})[q]
      /\ u.unreported - u.lost = t.unreported - t.lost + Cardinality(LostIn(t) \cap {})
  BY MarkAckedExactly
<1> HIDE DEF u
<1>5. \A q \in Window(u.left, u.right) : u.status[q] = t.status[q]
  BY <1>4, StatusAfterNoAck
<1>6. u.unreported - u.lost = t.unreported - t.lost
  <2>1. LostIn(t) \cap {} = {}
    OBVIOUS
  <2> QED
    BY <1>1, <1>4, <2>1, FS_EmptySet
<1>7. u = t
  BY <1>2, <1>3, <1>5, <1>6, TrackersEqual
<1> QED
  BY <1>7 DEF u

(* The marking loops of push, packet by packet, are MarkAcked.              *)
LEMMA OneByOneIsAtOnce ==
  ASSUME NEW t, TrackerSound(t), NEW acked \in SUBSET Window(0, t.right)
  PROVE  MarkOneByOne(t, acked) = MarkAcked(t, acked)
<1> DEFINE below(n) == acked \cap Window(0, n)
           f == [n \in 0..t.right |-> MarkAcked(t, below(n))]
           Turn(g, n) == IF n = 0 THEN t
                         ELSE IF n - 1 \in acked /\ ~(n - 1 < ReceivedTill(g[n - 1]))
                              THEN MarkPkt(g[n - 1], n - 1, Received)
                              ELSE g[n - 1]
           IsMark(g) == g = [n \in 0..t.right |-> Turn(g, n)]
           mark == CHOOSE g : IsMark(g)
<1>1. t.right \in Nat
  BY DEF TrackerSound, TrackerType
<1>2. MarkOneByOne(t, acked) = mark[t.right]
  BY DEF MarkOneByOne
<1>3. ASSUME NEW n \in 0..t.right
      PROVE  f[n] = Turn(f, n)
  <2>1. CASE n = 0
    <3>1. below(0) = {}
      BY DEF Window
    <3>2. f[0] = t
      BY <1>1, <3>1, AckOfNothing
    <3> QED
      BY <2>1, <3>2
  <2>2. CASE n # 0
    <3> DEFINE p == n - 1
               A == below(p)
    <3>1. p \in Nat /\ p < t.right /\ p \in 0..t.right
      BY <1>1, <2>2
    <3>2. f[p] = MarkAcked(t, A) /\ f[n] = MarkAcked(t, below(n))
      BY <3>1
    <3>3. A \in SUBSET Window(0, t.right) /\ \A a \in A : a < p
      BY <3>1 DEF Window
    <3>4. below(n) = IF p \in acked THEN A \cup {p} ELSE A
      BY <3>1 DEF Window
    <3> HIDE DEF f, below, p
    <3>5. MarkAcked(t, A \cup {p})
            = IF p < ReceivedTill(f[p]) THEN f[p] ELSE MarkPkt(f[p], p, Received)
      BY <3>1, <3>2, <3>3, AckOneMore
    <3>6. f[n] = IF p \in acked /\ ~(p < ReceivedTill(f[p])) THEN MarkPkt(f[p], p, Received) ELSE f[p]
      BY <3>2, <3>4, <3>5
    <3> QED
      BY <2>2, <3>6 DEF p
  <2> QED
    BY <2>1, <2>2
<1>4. IsMark(f)
  BY <1>3
<1> HIDE DEF f, Turn
<1>5. IsMark(mark)
  BY <1>4
<1> HIDE DEF mark
<1>6. mark[t.right] = f[t.right]
  <2> DEFINE Wrong == {n \in 0..t.right : mark[n] # f[n]}
  <2> SUFFICES ASSUME Wrong # {} PROVE FALSE
    BY <1>1
  <2>1. PICK m \in Wrong : \A k \in Wrong : m <= k
    <3>1. Wrong \in SUBSET Nat
      BY <1>1
    <3> HIDE DEF Wrong
    <3> QED
      BY <3>1, NatMin
  <2>2. mark[m] = Turn(mark, m) /\ f[m] = Turn(f, m) /\ mark[m] # f[m]
    BY <1>3, <1>5, <2>1
  <2>3. m # 0 => mark[m - 1] = f[m - 1]
    <3> SUFFICES ASSUME m # 0 PROVE m - 1 \notin Wrong /\ m - 1 \in 0..t.right
      OBVIOUS
    <3> QED
      BY <1>1, <2>1
  <2>4. Turn(mark, m) = Turn(f, m)
    BY <2>3 DEF Turn
  <2> QED
    BY <2>2, <2>4
<1>7. f[t.right] = MarkAcked(t, acked)
  <2>1. below(t.right) = acked
    OBVIOUS
  <2> HIDE DEF below
  <2> QED
    BY <1>1, <2>1 DEF f
<1> QED
  BY <1>2, <1>6, <1>7 DEF mark

(* After any calls, marking the packets of any ack at once, as the model of *)
(* TcpSender does, is the same as the marking loops of TcpSender::push.     *)
THEOREM AckLoopAlwaysMatches == Spec => []AckLoopMatches
<1>1. CallsInv /\ [Next]_vars => CallsInv'
  BY CallsStep
<1>2. CallsInv /\ (user = "acker" => nextPkt = 0) => AckLoopMatches
  <2> SUFFICES ASSUME CallsInv, user = "acker" => nextPkt = 0,
                      NEW acked \in SUBSET Window(0, nextPkt)
               PROVE  MarkAcked(tracker, acked) = MarkOneByOne(tracker, acked)
    BY DEF AckLoopMatches
  <2>1. TrackerSound(tracker) /\ tracker.right \in Nat
    BY DEF CallsInv, TrackerSound, TrackerType
  <2>2. Window(0, nextPkt) \subseteq Window(0, tracker.right)
    BY <2>1 DEF CallsInv, Window
  <2>3. acked \in SUBSET Window(0, tracker.right)
    BY <2>2
  <2> QED
    BY <2>1, <2>3, OneByOneIsAtOnce
<1>3. Init => (user = "acker" => nextPkt = 0)
  BY DEF Init
<1>4. (user = "acker" => nextPkt = 0) /\ [Next]_vars => (user = "acker" => nextPkt = 0)'
  BY DEF Next, Send, Retransmit, Ack, Timeout, Arrive, vars
<1> QED
  BY <1>1, <1>2, <1>3, <1>4, CallsStart, PTL DEF Spec
-----------------------------------------------------------------------------
(* The backward scan of generate_sack *)

(* The blocks that begin above the packet e. *)
BlocksAbove(t, e) == {b \in SackBlocks(t) : b[1] > e}

(* From e to x - 1 everything is received, and x is not (or past the end).  *)
RunFrom(t, e, x) ==
  /\ x \in (e + 1)..t.right
  /\ \A q \in e..(x - 1) : t.status[q] = Received
  /\ x < t.right => t.status[x] # Received

(* The scan has looked at the packets from e on.  It has all the blocks     *)
(* that begin above some h, the highest first: above e, until it has max.   *)
(* The block it is building is the run of received packets that begins at e *)
ScanInv(t, max, e, scan) ==
  /\ scan = [sack |-> scan.sack, start |-> scan.start]
  /\ scan.sack \in Seq(Nat \X Nat) /\ Len(scan.sack) <= max
  /\ IsFiniteSet(Range(scan.sack)) /\ Cardinality(Range(scan.sack)) = Len(scan.sack)
  /\ \A i \in 1..(Len(scan.sack) - 1) : scan.sack[i + 1][2] < scan.sack[i][1]
  /\ \E h \in e..t.right : /\ Range(scan.sack) = BlocksAbove(t, h)
                           /\ Len(scan.sack) < max => h = e
  /\ Len(scan.sack) = max => scan.start = None
  /\ Len(scan.sack) < max =>
       IF e < t.right /\ t.status[e] = Received
       THEN RunFrom(t, e, scan.start)
       ELSE scan.start = None

(* A block of a tracker, and the packets at its edges.                      *)
LEMMA BlockEdges ==
  ASSUME NEW t, TrackerSound(t), NEW b \in SackBlocks(t)
  PROVE  /\ b \in Nat \X Nat /\ b = <<b[1], b[2]>>
         /\ b[1] \in Nat /\ b[2] \in Nat
         /\ t.left < b[1] /\ b[1] < b[2] /\ b[2] <= t.right
         /\ \A q \in b[1]..(b[2] - 1) : t.status[q] = Received
         /\ t.status[b[1] - 1] # Received
         /\ b[2] < t.right => t.status[b[2]] # Received
<1>1. t.left \in Nat /\ t.right \in Nat /\ (t.left < t.right => t.status[t.left] # Received)
  BY DEF TrackerSound, TrackerType, WindowSound
<1>2. /\ b \in (t.left..t.right) \X (t.left..t.right)
      /\ b[1] < b[2]
      /\ \A q \in b[1]..(b[2] - 1) : t.status[q] = Received
      /\ b[1] > t.left => t.status[b[1] - 1] # Received
      /\ b[2] < t.right => t.status[b[2]] # Received
  BY DEF SackBlocks
<1>3. /\ b = <<b[1], b[2]>> /\ b[1] \in Nat /\ b[2] \in Nat
      /\ t.left <= b[1] /\ b[2] <= t.right
  BY <1>1, <1>2
<1>4. b[1] # t.left
  BY <1>1, <1>2, <1>3
<1> QED
  BY <1>1, <1>2, <1>3, <1>4

(* The blocks above q, where the blocks above q + 1 are known: there is one *)
(* more exactly when q ends a run that begins at q + 1.                     *)
LEMMA BlocksBelow ==
  ASSUME NEW t, TrackerSound(t), NEW q \in Window(t.left, t.right)
  PROVE  /\ t.status[q] = Received => BlocksAbove(t, q) = BlocksAbove(t, q + 1)
         /\ ~(q + 1 < t.right /\ t.status[q + 1] = Received)
              => BlocksAbove(t, q) = BlocksAbove(t, q + 1)
         /\ \A x : t.status[q] # Received /\ RunFrom(t, q + 1, x) =>
              /\ BlocksAbove(t, q) = BlocksAbove(t, q + 1) \cup {<<q + 1, x>>}
              /\ <<q + 1, x>> \in Nat \X Nat
              /\ <<q + 1, x>> \notin BlocksAbove(t, q + 1)
              /\ \A b \in BlocksAbove(t, q + 1) : x < b[1]
<1>1. t.left \in Nat /\ t.right \in Nat /\ q \in Nat /\ t.left <= q /\ q < t.right
  BY DEF TrackerSound, TrackerType, Window
<1>2. \A b \in BlocksAbove(t, q) : b \in SackBlocks(t) /\ (b[1] = q + 1 \/ b \in BlocksAbove(t, q + 1))
  BY <1>1, BlockEdges DEF BlocksAbove
<1>3. BlocksAbove(t, q + 1) \subseteq BlocksAbove(t, q)
  BY <1>1, BlockEdges DEF BlocksAbove
<1>4. ASSUME t.status[q] = Received
      PROVE  BlocksAbove(t, q) = BlocksAbove(t, q + 1)
  <2>1. \A b \in SackBlocks(t) : b[1] # q + 1
    BY <1>1, <1>4, BlockEdges
  <2> QED
    BY <1>2, <1>3, <2>1
<1>5. ASSUME ~(q + 1 < t.right /\ t.status[q + 1] = Received)
      PROVE  BlocksAbove(t, q) = BlocksAbove(t, q + 1)
  <2>1. ASSUME NEW b \in SackBlocks(t), b[1] = q + 1
        PROVE  FALSE
    <3>1. b[1] < b[2] /\ b[2] <= t.right /\ b[2] \in Nat
          /\ \A p \in b[1]..(b[2] - 1) : t.status[p] = Received
      BY BlockEdges
    <3>2. b[1] \in b[1]..(b[2] - 1)
      BY <1>1, <2>1, <3>1
    <3> QED
      BY <1>1, <1>5, <2>1, <3>1, <3>2
  <2> QED
    BY <1>2, <1>3, <2>1
<1>6. ASSUME NEW x, t.status[q] # Received, RunFrom(t, q + 1, x)
      PROVE  /\ BlocksAbove(t, q) = BlocksAbove(t, q + 1) \cup {<<q + 1, x>>}
             /\ <<q + 1, x>> \in Nat \X Nat
             /\ <<q + 1, x>> \notin BlocksAbove(t, q + 1)
             /\ \A b \in BlocksAbove(t, q + 1) : x < b[1]
  <2> DEFINE c == <<q + 1, x>>
  <2>1. /\ x \in Nat /\ q + 1 < x /\ x <= t.right
        /\ \A p \in (q + 1)..(x - 1) : t.status[p] = Received
        /\ x < t.right => t.status[x] # Received
    BY <1>1, <1>6 DEF RunFrom
  <2>2. c \in SackBlocks(t)
    <3>1. c \in (t.left..t.right) \X (t.left..t.right) /\ c[1] = q + 1 /\ c[2] = x
      BY <1>1, <2>1
    <3>2. c[1] - 1 = q
      BY <1>1, <3>1
    <3> QED
      BY <1>6, <2>1, <3>1, <3>2 DEF SackBlocks
  <2>3. ASSUME NEW b \in SackBlocks(t), b[1] = q + 1
        PROVE  b = c
    <3>1. /\ b = <<b[1], b[2]>> /\ b[2] \in Nat /\ b[1] < b[2] /\ b[2] <= t.right
          /\ \A p \in b[1]..(b[2] - 1) : t.status[p] = Received
          /\ b[2] < t.right => t.status[b[2]] # Received
      BY BlockEdges
    <3>2. ~(b[2] < x)
      <4> SUFFICES ASSUME b[2] < x PROVE FALSE
        OBVIOUS
      <4>1. b[2] \in (q + 1)..(x - 1) /\ b[2] < t.right
        BY <1>1, <2>1, <2>3, <3>1
      <4> QED
        BY <2>1, <3>1, <4>1
    <3>3. ~(x < b[2])
      <4> SUFFICES ASSUME x < b[2] PROVE FALSE
        OBVIOUS
      <4>1. x \in b[1]..(b[2] - 1) /\ x < t.right
        BY <1>1, <2>1, <2>3, <3>1
      <4> QED
        BY <2>1, <3>1, <4>1
    <3> QED
      BY <2>1, <2>3, <3>1, <3>2, <3>3
  <2>4. c \in BlocksAbove(t, q) /\ c \notin BlocksAbove(t, q + 1)
    BY <1>1, <2>2 DEF BlocksAbove
  <2>5. c \in Nat \X Nat
    BY <1>1, <2>1
  <2>6. ASSUME NEW b \in BlocksAbove(t, q + 1)
        PROVE  x < b[1]
    <3>1. b[1] \in Nat /\ q + 1 < b[1] /\ t.status[b[1] - 1] # Received
      BY <1>1, BlockEdges DEF BlocksAbove
    <3>2. b[1] - 1 \notin (q + 1)..(x - 1)
      BY <2>1, <3>1
    <3> QED
      BY <1>1, <2>1, <3>1, <3>2
  <2> QED
    BY <1>2, <1>3, <2>3, <2>4, <2>5, <2>6
<1> QED
  BY <1>4, <1>5, <1>6

(* One more block at the end of a list of blocks.                           *)
LEMMA BlockAppended ==
  ASSUME NEW S, NEW s \in Seq(S), NEW b \in S, b \notin Range(s),
         IsFiniteSet(Range(s)), Cardinality(Range(s)) = Len(s)
  PROVE  LET a == Append(s, b)
         IN  /\ a \in Seq(S) /\ Len(a) = Len(s) + 1
             /\ Range(a) = Range(s) \cup {b}
             /\ IsFiniteSet(Range(a)) /\ Cardinality(Range(a)) = Len(a)
             /\ \A i \in 1..Len(s) : a[i] = s[i]
             /\ a[Len(s) + 1] = b
<1> DEFINE a == Append(s, b)
<1>1. /\ a \in Seq(S) /\ Len(a) = Len(s) + 1
      /\ \A i \in 1..Len(s) : a[i] = s[i]
      /\ a[Len(s) + 1] = b
  BY AppendProperties
<1> HIDE DEF a
<1>2. Len(s) \in Nat /\ DOMAIN s = 1..Len(s) /\ DOMAIN a = 1..(Len(s) + 1)
  BY <1>1, LenProperties
<1>3. Range(a) = Range(s) \cup {b}
  <2>1. 1..(Len(s) + 1) = (1..Len(s)) \cup {Len(s) + 1}
    BY <1>2
  <2>2. ASSUME NEW x \in Range(a) PROVE x \in Range(s) \cup {b}
    <3>1. PICK i \in 1..(Len(s) + 1) : x = a[i]
      BY <1>2 DEF Range
    <3> QED
      BY <1>1, <1>2, <2>1, <3>1 DEF Range
  <2>3. ASSUME NEW x \in Range(s) PROVE x \in Range(a)
    <3>1. PICK i \in 1..Len(s) : x = s[i]
      BY <1>2 DEF Range
    <3>2. i \in DOMAIN a /\ a[i] = x
      BY <1>1, <1>2, <2>1, <3>1
    <3> QED
      BY <3>2 DEF Range
  <2>4. b \in Range(a)
    <3>1. Len(s) + 1 \in DOMAIN a
      BY <1>2
    <3> QED
      BY <1>1, <3>1 DEF Range
  <2> QED
    BY <2>2, <2>3, <2>4
<1>4. IsFiniteSet(Range(a)) /\ Cardinality(Range(a)) = Len(a)
  BY <1>1, <1>3, FS_AddElement
<1> QED
  BY <1>1, <1>3, <1>4 DEF a

(* Before its first packet the scan has no block. *)
LEMMA ScanStart ==
  ASSUME NEW t, TrackerSound(t), NEW max \in Nat \ {0}
  PROVE  ScanInv(t, max, t.right, [sack |-> <<>>, start |-> None])
<1>1. t.right \in Nat
  BY DEF TrackerSound, TrackerType
<1>2. BlocksAbove(t, t.right) = {}
  <2>1. \A b \in SackBlocks(t) : ~(b[1] > t.right)
    BY <1>1, BlockEdges
  <2> QED
    BY <2>1 DEF BlocksAbove
<1>3. /\ <<>> \in Seq(Nat \X Nat) /\ Len(<<>>) = 0 /\ Range(<<>>) = {}
      /\ IsFiniteSet(Range(<<>>)) /\ Cardinality(Range(<<>>)) = 0
  BY FS_EmptySet DEF Range
<1> DEFINE scan == [sack |-> <<>>, start |-> None]
<1>4. /\ scan.sack = <<>> /\ scan.start = None
      /\ scan = [sack |-> scan.sack, start |-> scan.start]
  OBVIOUS
<1> HIDE DEF scan
<1>5. \E h \in t.right..t.right : Range(scan.sack) = BlocksAbove(t, h) /\ h = t.right
  <2>1. Range(scan.sack) = BlocksAbove(t, t.right)
    BY <1>2, <1>3, <1>4, Zenon
  <2>2. t.right \in t.right..t.right
    BY <1>1
  <2> QED
    BY <2>1, <2>2
<1>6. \A i \in 1..(0 - 1) : FALSE
  OBVIOUS
<1>7. max # 0 /\ 0 <= max /\ ~(t.right < t.right)
  BY <1>1
<1>8. /\ scan.sack \in Seq(Nat \X Nat) /\ Len(scan.sack) = 0
      /\ IsFiniteSet(Range(scan.sack)) /\ Cardinality(Range(scan.sack)) = 0
  BY <1>3, <1>4
<1>9. ScanInv(t, max, t.right, scan)
  BY <1>4, <1>5, <1>6, <1>7, <1>8 DEF ScanInv
<1> QED
  BY <1>9 DEF scan

(* Each packet the scan looks at keeps it so.                               *)
LEMMA ScanStep ==
  ASSUME NEW t, TrackerSound(t), NEW max \in Nat \ {0},
         NEW q \in Window(t.left, t.right), NEW scan, ScanInv(t, max, q + 1, scan)
  PROVE  ScanInv(t, max, q, SackStep(t, max, scan, q))
<1> DEFINE sack == scan.sack
           next == SackStep(t, max, scan, q)
<1>1. t.left \in Nat /\ t.right \in Nat /\ q \in Nat /\ q < t.right
  BY DEF TrackerSound, TrackerType, Window
<1>2. /\ sack \in Seq(Nat \X Nat) /\ Len(sack) <= max
      /\ IsFiniteSet(Range(sack)) /\ Cardinality(Range(sack)) = Len(sack)
      /\ \A i \in 1..(Len(sack) - 1) : sack[i + 1][2] < sack[i][1]
      /\ Len(sack) = max => scan.start = None
      /\ Len(sack) < max =>
           IF q + 1 < t.right /\ t.status[q + 1] = Received
           THEN RunFrom(t, q + 1, scan.start)
           ELSE scan.start = None
  BY DEF ScanInv
<1>3. PICK h \in (q + 1)..t.right : /\ Range(sack) = BlocksAbove(t, h)
                                    /\ Len(sack) < max => h = q + 1
  BY DEF ScanInv
<1>4. Len(sack) \in Nat /\ scan = [sack |-> sack, start |-> scan.start]
  BY <1>2, LenProperties DEF ScanInv
<1>5. RunFrom(t, q + 1, scan.start) => scan.start # None
  BY <1>1 DEF RunFrom, None
<1> HIDE DEF sack, next
<1>6. CASE Len(sack) = max
  <2>1. next = scan /\ h \in q..t.right
    BY <1>1, <1>6 DEF next, sack, SackStep
  <2>2. ScanInv(t, max, q, scan)
    BY <1>2, <1>3, <1>6, <2>1 DEF ScanInv, sack
  <2> QED
    BY <2>1, <2>2 DEF next
<1>7. CASE Len(sack) < max /\ t.status[q] # Received /\ scan.start # None
  <2> DEFINE x == scan.start
             b == <<q + 1, x>>
             longer == Append(sack, b)
  <2>1. RunFrom(t, q + 1, x)
    BY <1>2, <1>7
  <2>2. /\ BlocksAbove(t, q) = BlocksAbove(t, q + 1) \cup {b}
        /\ b \in Nat \X Nat
        /\ b \notin BlocksAbove(t, q + 1)
        /\ \A c \in BlocksAbove(t, q + 1) : x < c[1]
    BY <1>7, <2>1, BlocksBelow
  <2>3. Range(sack) = BlocksAbove(t, q + 1)
    BY <1>3, <1>7
  <2>4. b[2] = x
    OBVIOUS
  <2>5. next = [sack |-> longer, start |-> None]
    BY <1>4, <1>7 DEF next, sack, SackStep
  <2> HIDE DEF b, x
  <2>6. /\ longer \in Seq(Nat \X Nat) /\ Len(longer) = Len(sack) + 1
        /\ Range(longer) = Range(sack) \cup {b}
        /\ IsFiniteSet(Range(longer)) /\ Cardinality(Range(longer)) = Len(longer)
        /\ \A i \in 1..Len(sack) : longer[i] = sack[i]
        /\ longer[Len(sack) + 1] = b
    BY <1>2, <2>2, <2>3, BlockAppended
  <2> HIDE DEF longer
  <2>7. ASSUME NEW i \in 1..(Len(longer) - 1)
        PROVE  longer[i + 1][2] < longer[i][1]
    <3>1. i \in 1..Len(sack)
      BY <1>4, <2>6
    <3>2. CASE i = Len(sack)
      <4>1. sack[i] \in Range(sack)
        BY <1>2, <3>1, LenProperties DEF Range
      <4> QED
        BY <2>2, <2>3, <2>4, <2>6, <3>1, <3>2, <4>1
    <3>3. CASE i # Len(sack)
      <4>1. i \in 1..(Len(sack) - 1) /\ i + 1 \in 1..Len(sack)
        BY <1>4, <3>1, <3>3
      <4> QED
        BY <1>2, <2>6, <3>1, <4>1
    <3> QED
      BY <3>2, <3>3
  <2>8. /\ next.sack = longer /\ next.start = None
        /\ next = [sack |-> next.sack, start |-> next.start]
    BY <2>5
  <2>9. Range(longer) = BlocksAbove(t, q) /\ q \in q..t.right /\ Len(longer) <= max
    BY <1>1, <1>4, <1>7, <2>2, <2>3, <2>6
  <2>10. ScanInv(t, max, q, next)
    BY <1>7, <2>6, <2>7, <2>8, <2>9 DEF ScanInv
  <2> QED
    BY <2>10 DEF next
<1>8. CASE Len(sack) < max /\ ~(t.status[q] # Received /\ scan.start # None)
  <2>1. BlocksAbove(t, q) = BlocksAbove(t, q + 1)
    <3>1. CASE t.status[q] = Received
      BY <3>1, BlocksBelow
    <3>2. CASE t.status[q] # Received
      <4>1. ~(q + 1 < t.right /\ t.status[q + 1] = Received)
        BY <1>2, <1>5, <1>8, <3>2
      <4> QED
        BY <4>1, BlocksBelow
    <3> QED
      BY <3>1, <3>2
  <2>2. Range(sack) = BlocksAbove(t, q) /\ q \in q..t.right
    BY <1>1, <1>3, <1>8, <2>1
  <2>3. /\ next.sack = sack
        /\ next = [sack |-> next.sack, start |-> next.start]
        /\ IF t.status[q] = Received THEN RunFrom(t, q, next.start) ELSE next.start = None
    <3>1. CASE t.status[q] # Received
      <4>1. next = scan
        BY <1>4, <1>8, <3>1 DEF next, sack, SackStep
      <4> QED
        BY <1>4, <1>8, <3>1, <4>1 DEF sack
    <3>2. CASE t.status[q] = Received /\ scan.start # None
      <4>1. next = scan
        BY <1>4, <1>8, <3>2 DEF next, sack, SackStep
      <4>2. RunFrom(t, q + 1, scan.start)
        BY <1>2, <1>8, <3>2
      <4>3. RunFrom(t, q, scan.start)
        <5>1. scan.start \in (q + 1)..t.right
          BY <1>1, <4>2 DEF RunFrom
        <5>2. \A p \in q..(scan.start - 1) : p = q \/ p \in (q + 1)..(scan.start - 1)
          BY <1>1, <5>1
        <5> QED
          BY <3>2, <4>2, <5>1, <5>2 DEF RunFrom
      <4> QED
        BY <1>4, <3>2, <4>1, <4>3 DEF sack
    <3>3. CASE t.status[q] = Received /\ scan.start = None
      <4>1. next = [scan EXCEPT !.start = q + 1]
        BY <1>4, <1>8, <3>3 DEF next, sack, SackStep
      <4>2. ~(q + 1 < t.right /\ t.status[q + 1] = Received)
        BY <1>2, <1>5, <1>8, <3>3
      <4>3. RunFrom(t, q, q + 1)
        <5>1. q + 1 \in (q + 1)..t.right /\ \A p \in q..((q + 1) - 1) : p = q
          BY <1>1
        <5>2. q + 1 < t.right => t.status[q + 1] # Received
          BY <4>2
        <5>3. \A p \in q..((q + 1) - 1) : t.status[p] = Received
          BY <3>3, <5>1
        <5> QED
          BY <5>1, <5>2, <5>3 DEF RunFrom
      <4>4. next.sack = sack /\ next.start = q + 1
        BY <1>4, <4>1
      <4>5. next = [sack |-> sack, start |-> q + 1]
        BY <1>4, <4>1
      <4> QED
        BY <3>3, <4>3, <4>4, <4>5
    <3> QED
      BY <3>1, <3>2, <3>3
  <2>4. ScanInv(t, max, q, next)
    BY <1>1, <1>2, <1>4, <1>8, <2>2, <2>3 DEF ScanInv
  <2> QED
    BY <2>4 DEF next
<1> QED
  BY <1>2, <1>4, <1>6, <1>7, <1>8

(* The scan is over: it is not in the middle of a block, and what it has    *)
(* are the max highest blocks.                                              *)
LEMMA ScanEnd ==
  ASSUME NEW t, TrackerSound(t), NEW max \in Nat \ {0},
         NEW scan, ScanInv(t, max, t.left, scan)
  PROVE  /\ scan.start = None
         /\ Range(scan.sack) = GenerateSack(t, max)
         /\ \A b \in Range(scan.sack) : b[1] > ReceivedTill(t)
<1> DEFINE sack == scan.sack
           Higher(b) == {c \in SackBlocks(t) : c[1] > b[1]}
<1>1. /\ t.left \in Nat /\ t.right \in Nat /\ t.left <= t.right
      /\ t.left < t.right => t.status[t.left] # Received
  BY DEF TrackerSound, TrackerType, WindowSound
<1>2. /\ sack \in Seq(Nat \X Nat) /\ Len(sack) <= max
      /\ IsFiniteSet(Range(sack)) /\ Cardinality(Range(sack)) = Len(sack)
      /\ Len(sack) = max => scan.start = None
      /\ Len(sack) < max =>
           IF t.left < t.right /\ t.status[t.left] = Received
           THEN RunFrom(t, t.left, scan.start)
           ELSE scan.start = None
  BY DEF ScanInv
<1>3. PICK h \in t.left..t.right : /\ Range(sack) = BlocksAbove(t, h)
                                   /\ Len(sack) < max => h = t.left
  BY DEF ScanInv
<1>4. Len(sack) \in Nat
  BY <1>2, LenProperties
<1> HIDE DEF sack
<1>5. scan.start = None
  BY <1>1, <1>2, <1>4
<1>6. \A b \in Range(sack) : b[1] > t.left
  BY <1>1, <1>3, BlockEdges DEF BlocksAbove
<1>7. Range(sack) = GenerateSack(t, max)
  <2>1. CASE Len(sack) < max
    <3>1. Range(sack) = SackBlocks(t)
      BY <1>3, <2>1, BlockEdges DEF BlocksAbove
    <3>2. ASSUME NEW b \in SackBlocks(t)
          PROVE  Cardinality(Higher(b)) < max
      <4>1. Higher(b) \subseteq Range(sack)
        BY <3>1
      <4> HIDE DEF Higher
      <4>2. Cardinality(Higher(b)) <= Len(sack) /\ IsFiniteSet(Higher(b))
        BY <1>2, <4>1, FS_Subset
      <4> QED
        BY <1>4, <2>1, <4>2, FS_CardinalityType
    <3> QED
      BY <3>1, <3>2 DEF GenerateSack
  <2>2. CASE Len(sack) = max
    <3>1. ASSUME NEW b \in Range(sack)
          PROVE  Cardinality(Higher(b)) < max
      <4>1. Higher(b) \subseteq Range(sack) /\ b \notin Higher(b)
        BY <1>1, <1>3, BlockEdges DEF BlocksAbove
      <4> HIDE DEF Higher
      <4>2. Higher(b) \subseteq Range(sack) \ {b}
        BY <4>1
      <4>3. /\ IsFiniteSet(Range(sack) \ {b})
            /\ Cardinality(Range(sack) \ {b}) = Len(sack) - 1
        BY <1>2, FS_RemoveElement
      <4>4. Cardinality(Higher(b)) <= Len(sack) - 1 /\ IsFiniteSet(Higher(b))
        BY <4>2, <4>3, FS_Subset
      <4> QED
        BY <1>4, <2>2, <4>4, FS_CardinalityType
    <3>2. ASSUME NEW b \in SackBlocks(t), b \notin Range(sack)
          PROVE  ~(Cardinality(Higher(b)) < max)
      <4>1. Range(sack) \subseteq Higher(b)
        BY <1>1, <1>3, <3>2, BlockEdges DEF BlocksAbove
      <4>2. IsFiniteSet(Higher(b))
        <5>1. SackBlocks(t) \subseteq (t.left..t.right) \X (t.left..t.right)
          <6> SUFFICES ASSUME NEW b2 \in SackBlocks(t)
                       PROVE  b2 \in (t.left..t.right) \X (t.left..t.right)
            OBVIOUS
          <6> QED
            BY DEF SackBlocks
        <5>2. IsFiniteSet(t.left..t.right)
          <6>1. t.left \in Int /\ t.right \in Int
            BY <1>1
          <6> QED
            BY ONLY <6>1, FS_Interval
        <5>3. IsFiniteSet((t.left..t.right) \X (t.left..t.right))
          BY <5>2, FS_Product
        <5>4. Higher(b) \subseteq (t.left..t.right) \X (t.left..t.right)
          BY <5>1
        <5> HIDE DEF Higher
        <5> QED
          BY <5>3, <5>4, FS_Subset
      <4> HIDE DEF Higher
      <4>3. Len(sack) <= Cardinality(Higher(b))
        BY <1>2, <4>1, <4>2, FS_Subset
      <4> QED
        BY <1>4, <2>2, <4>2, <4>3, FS_CardinalityType
    <3>3. Range(sack) \subseteq SackBlocks(t)
      BY <1>3 DEF BlocksAbove
    <3> HIDE DEF Higher
    <3>4. Range(sack) = {b \in SackBlocks(t) : Cardinality(Higher(b)) < max}
      BY <3>1, <3>2, <3>3
    <3> QED
      BY <3>4 DEF GenerateSack, Higher
  <2> QED
    BY <1>2, <1>4, <2>1, <2>2
<1> QED
  BY <1>5, <1>6, <1>7 DEF sack, ReceivedTill

(* generate_sack as the code computes it, from the back of the deque, yields *)
(* the max highest blocks in ascending order, apart from each other.         *)
LEMMA LoopIsGenerateSack ==
  ASSUME NEW t, TrackerSound(t), NEW max \in Nat \ {0}
  PROVE  LET blocks == SackLoop(t, max)
         IN  /\ Range(blocks) = GenerateSack(t, max)
             /\ \A i \in 1..(Len(blocks) - 1) : blocks[i][2] < blocks[i + 1][1]
             /\ \A i \in DOMAIN blocks : blocks[i][1] > ReceivedTill(t)
<1> DEFINE len == t.right - t.left
           Turn(g, n) == IF n = 0 THEN [sack |-> <<>>, start |-> None]
                         ELSE SackStep(t, max, g[n - 1], t.right - n)
           IsScan(g) == g = [n \in 0..len |-> Turn(g, n)]
           scan == CHOOSE g : IsScan(g)
           all == IF scan[len].start # None
                  THEN Append(scan[len].sack, <<scan[len].start, t.right>>)
                  ELSE scan[len].sack
<1>1. t.left \in Nat /\ t.right \in Nat /\ t.left <= t.right /\ len \in Nat
  BY DEF TrackerSound, TrackerType, WindowSound
<1>2. SackLoop(t, max) = Reverse(all)
  BY DEF SackLoop
<1> HIDE DEF len
<1>3. \E g : IsScan(g)
  <2> DEFINE Part(g, n) == \A k \in 0..n : g[k] = Turn(g, k)
             Fits(n) == \E g : g = [k \in 0..n |-> g[k]] /\ Part(g, n)
             Sizes == {n \in 0..len : ~Fits(n)}
  <2>1. Sizes = {}
    <3> SUFFICES ASSUME Sizes # {} PROVE FALSE
      OBVIOUS
    <3>1. Sizes \in SUBSET Nat
      BY <1>1
    <3>2. PICK m \in Sizes : \A k \in Sizes : m <= k
      <4> HIDE DEF Sizes
      <4> QED
        BY <3>1, NatMin
    <3>3. m \in 0..len /\ m \in Nat /\ ~Fits(m)
      <4> HIDE DEF Fits
      <4> QED
        BY <1>1, <3>2
    <3>4. CASE m = 0
      <4> DEFINE g == [k \in 0..0 |-> [sack |-> <<>>, start |-> None]]
      <4>1. g = [k \in 0..0 |-> g[k]] /\ Part(g, 0)
        OBVIOUS
      <4> HIDE DEF g
      <4> QED
        BY <3>3, <3>4, <4>1
    <3>5. CASE m # 0
      <4>1. Fits(m - 1)
        <5> HIDE DEF Fits
        <5>1. m - 1 \in 0..len /\ ~(m <= m - 1)
          BY <1>1, <3>3, <3>5
        <5> QED
          BY <3>2, <5>1
      <4>2. PICK f : f = [k \in 0..(m - 1) |-> f[k]] /\ Part(f, m - 1)
        BY <4>1
      <4> DEFINE g == [k \in 0..m |-> IF k = m THEN Turn(f, m) ELSE f[k]]
      <4>3. /\ \A k \in 0..(m - 1) : g[k] = f[k] /\ f[k] = Turn(f, k)
            /\ g[m] = Turn(f, m)
        BY <3>3, <4>2
      <4>4. g = [k \in 0..m |-> g[k]]
        OBVIOUS
      <4> HIDE DEF g
      <4>5. ASSUME NEW k \in 0..m PROVE Turn(g, k) = Turn(f, k)
        <5>1. k # 0 => k - 1 \in 0..(m - 1)
          BY <3>3
        <5> QED
          BY <4>3, <5>1
      <4>6. Part(g, m)
        <5>1. \A k \in 0..m : k = m \/ k \in 0..(m - 1)
          BY <3>3
        <5> HIDE DEF Turn
        <5> QED
          BY <4>3, <4>5, <5>1
      <4> QED
        BY <3>3, <4>4, <4>6
    <3> QED
      BY <3>4, <3>5
  <2>2. Fits(len)
    <3> HIDE DEF Fits
    <3>1. len \in 0..len
      BY <1>1
    <3> QED
      BY <2>1, <3>1
  <2>3. PICK g : g = [k \in 0..len |-> g[k]] /\ Part(g, len)
    BY <2>2
  <2>4. IsScan(g)
    <3> HIDE DEF Turn
    <3> QED
      BY <2>3
  <2> QED
    BY <2>4
<1>4. IsScan(scan)
  BY <1>3
<1>5. ASSUME NEW n \in 0..len PROVE scan[n] = Turn(scan, n)
  <2> HIDE DEF Turn, scan
  <2> QED
    BY <1>4
<1> HIDE DEF scan
<1>6. ScanInv(t, max, t.left, scan[len])
  <2> DEFINE Wrong == {n \in 0..len : ~ScanInv(t, max, t.right - n, scan[n])}
  <2>1. Wrong = {}
    <3> SUFFICES ASSUME Wrong # {} PROVE FALSE
      OBVIOUS
    <3>1. Wrong \in SUBSET Nat
      BY <1>1
    <3>2. PICK m \in Wrong : \A k \in Wrong : m <= k
      <4> HIDE DEF Wrong
      <4> QED
        BY <3>1, NatMin
    <3>3. m \in 0..len /\ m \in Nat /\ ~ScanInv(t, max, t.right - m, scan[m])
      BY <1>1, <3>2
    <3>4. CASE m = 0
      <4>1. scan[m] = [sack |-> <<>>, start |-> None] /\ t.right - m = t.right
        BY <1>1, <1>5, <3>3, <3>4
      <4> QED
        BY <3>3, <4>1, ScanStart
    <3>5. CASE m # 0
      <4> DEFINE q == t.right - m
      <4>1. m - 1 \in 0..len /\ m - 1 \notin Wrong
        BY <1>1, <3>2, <3>3, <3>5
      <4>2. q \in Window(t.left, t.right) /\ t.right - (m - 1) = q + 1
        BY <1>1, <3>3, <3>5 DEF len, Window
      <4>3. ScanInv(t, max, q + 1, scan[m - 1])
        BY <4>1, <4>2
      <4>4. scan[m] = SackStep(t, max, scan[m - 1], q)
        BY <1>5, <3>3, <3>5
      <4> QED
        BY <3>3, <4>2, <4>3, <4>4, ScanStep
    <3> QED
      BY <3>4, <3>5
  <2>2. len \in 0..len /\ t.right - len = t.left
    BY <1>1 DEF len
  <2> QED
    BY <2>1, <2>2
<1> DEFINE sack == scan[len].sack
<1>7. /\ scan[len].start = None
      /\ Range(sack) = GenerateSack(t, max)
      /\ \A b \in Range(sack) : b[1] > ReceivedTill(t)
  BY <1>6, ScanEnd
<1>8. /\ sack \in Seq(Nat \X Nat)
      /\ \A i \in 1..(Len(sack) - 1) : sack[i + 1][2] < sack[i][1]
  BY <1>6 DEF ScanInv
<1>9. SackLoop(t, max) = Reverse(sack)
  BY <1>2, <1>7
<1> HIDE DEF sack
<1> DEFINE blocks == Reverse(sack)
<1>10. /\ Len(sack) \in Nat /\ DOMAIN sack = 1..Len(sack)
       /\ blocks = [i \in 1..Len(sack) |-> sack[(Len(sack) - i) + 1]]
  BY <1>8, LenProperties DEF Reverse
<1>11. blocks \in Seq(Nat \X Nat) /\ Len(blocks) = Len(sack)
  <2>1. \A i \in 1..Len(sack) : (Len(sack) - i) + 1 \in 1..Len(sack)
    BY <1>10
  <2>2. blocks \in [1..Len(sack) -> Nat \X Nat]
    <3>1. \A i \in 1..Len(sack) : sack[i] \in Nat \X Nat
      BY <1>8, ElementOfSeq
    <3> HIDE DEF blocks
    <3> QED
      BY <1>10, <2>1, <3>1
  <2> HIDE DEF blocks
  <2>3. blocks \in Seq(Nat \X Nat)
    <3> DEFINE n == Len(sack)
    <3>1. n \in Nat
      BY <1>10
    <3> HIDE DEF n
    <3>2. blocks \in [1..n -> Nat \X Nat]
      BY <2>2 DEF n
    <3>3. blocks \in UNION {[1..m -> Nat \X Nat] : m \in Nat}
      BY ONLY <3>1, <3>2
    <3> QED
      BY ONLY <3>3, SeqDef
  <2>4. DOMAIN blocks = 1..Len(sack) /\ DOMAIN blocks = 1..Len(blocks) /\ Len(blocks) \in Nat
    BY <2>2, <2>3, LenProperties
  <2>5. ~(Len(blocks) > Len(sack))
    <3>1. Len(blocks) > Len(sack) => Len(blocks) \in 1..Len(blocks) /\ Len(blocks) \notin 1..Len(sack)
      BY <1>10, <2>4
    <3> QED
      BY <2>4, <3>1
  <2>6. ~(Len(sack) > Len(blocks))
    <3>1. Len(sack) > Len(blocks) => Len(sack) \in 1..Len(sack) /\ Len(sack) \notin 1..Len(blocks)
      BY <1>10, <2>4
    <3> QED
      BY <2>4, <3>1
  <2> QED
    BY <1>10, <2>3, <2>4, <2>5, <2>6
<1> HIDE DEF blocks
<1>12. Range(blocks) = Range(sack)
  <2>1. DOMAIN blocks = 1..Len(sack)
    BY <1>10
  <2>2. ASSUME NEW x \in Range(blocks) PROVE x \in Range(sack)
    <3>1. PICK i \in 1..Len(sack) : x = blocks[i]
      BY <2>1 DEF Range
    <3>2. (Len(sack) - i) + 1 \in DOMAIN sack /\ x = sack[(Len(sack) - i) + 1]
      BY <1>10, <3>1
    <3> QED
      BY <3>2 DEF Range
  <2>3. ASSUME NEW x \in Range(sack) PROVE x \in Range(blocks)
    <3>1. PICK i \in 1..Len(sack) : x = sack[i]
      BY <1>10 DEF Range
    <3> DEFINE j == (Len(sack) - i) + 1
    <3>2. j \in 1..Len(sack) /\ (Len(sack) - j) + 1 = i
      BY <1>10
    <3> HIDE DEF j
    <3>3. x = blocks[j]
      BY <1>10, <3>1, <3>2
    <3> QED
      BY <2>1, <3>2, <3>3 DEF Range
  <2> QED
    BY <2>2, <2>3
<1>13. ASSUME NEW i \in 1..(Len(blocks) - 1)
       PROVE  blocks[i][2] < blocks[i + 1][1]
  <2> DEFINE j == Len(sack) - i
  <2>1. /\ j \in 1..(Len(sack) - 1) /\ i \in 1..Len(sack) /\ i + 1 \in 1..Len(sack)
        /\ (Len(sack) - i) + 1 = j + 1 /\ (Len(sack) - (i + 1)) + 1 = j
    BY <1>10, <1>11
  <2> HIDE DEF j
  <2>2. blocks[i] = sack[j + 1] /\ blocks[i + 1] = sack[j]
    BY <1>10, <2>1
  <2> QED
    BY <1>8, <2>1, <2>2
<1>14. \A i \in DOMAIN blocks : blocks[i][1] > ReceivedTill(t)
  BY <1>7, <1>12 DEF Range
<1> QED
  BY <1>7, <1>9, <1>12, <1>13, <1>14 DEF blocks

(* After any calls, the loop of generate_sack returns the blocks the models *)
(* send in acks, in ascending order, apart, and above the cumulative ack.   *)
THEOREM SackLoopAlwaysMatches == Spec => []SackLoopMatches
<1>1. CallsInv /\ [Next]_vars => CallsInv'
  BY CallsStep
<1>2. CallsInv => SackLoopMatches
  BY CallsAssumption, LoopIsGenerateSack DEF CallsInv, SackLoopMatches
<1> QED
  BY <1>1, <1>2, CallsStart, PTL DEF Spec
=============================================================================
