----------------------------- MODULE CcFlowProofs -----------------------------
(***************************************************************************)
(* Invariants of CcFlow, and that it implements TcpFlow.                   *)
(*                                                                         *)
(* First, callback by callback, what an algorithm keeps whatever acks it   *)
(* is given.  What is left are the promises the flow makes to it: which    *)
(* acks come, and in what order, up to CcInv.  They rest on the            *)
(* order of the paths: a packet acked again is one sent again, later       *)
(* (MarksInOrder, for IncreaseBdpCC), and an ack carries the uid of a      *)
(* packet sent and not acked before (UidsApart, for Copa2).  On a path that *)
(* drops nothing the acker misses nothing either (NothingMissing), so no   *)
(* ack makes the sender count a loss.                                      *)
(*                                                                         *)
(* Last, what the tracer counts of the sender: AckedInv for the packets    *)
(* acked, LossInv for the packets lost, which rests on where the copies of *)
(* the packets are (FateInv of TcpFlowProofs).                             *)
(***************************************************************************)
EXTENDS CcFlow, TcpFlowProofs

(* What an algorithm is told of an ack. *)
AcksTold == [now : Times, cum : Nat, uid : Nat, rtt : Times, lost : Nat]

-----------------------------------------------------------------------------
(* RTTWindow *)

(* A set of samples that is not empty has a least RTT. *)
LEMMA LeastRttFound ==
  ASSUME NEW T \in SUBSET Samples, T # {}
  PROVE  LeastRtt(T) \in Times /\ IsLeastRtt(LeastRtt(T), T)
<1> DEFINE rtts == {s.rtt : s \in T}
<1>1. rtts \in SUBSET Nat /\ rtts # {} /\ rtts \subseteq Times
  BY DEF Samples, Times
<1>2. PICK m \in rtts : \A k \in rtts : m <= k
  BY <1>1, NatMin
<1>3. IsLeastRtt(m, T)
  BY <1>2 DEF IsLeastRtt
<1>4. LeastRtt(T) \in rtts /\ IsLeastRtt(LeastRtt(T), T)
  BY <1>3 DEF LeastRtt
<1> QED
  BY <1>1, <1>4

(* The sample just taken is kept. *)
LEMMA NewSampleKept ==
  ASSUME NEW hist \in Nat, NEW time \in Nat
  PROVE  OldestKept(hist, time) \in Nat /\ time >= OldestKept(hist, time)
BY DEF OldestKept

(* new_rtt_sample keeps a window's type and its minimum exact, although it  *)
(* looks at all samples only when a low one is dropped.                     *)
LEMMA NewRttSampleExact ==
  ASSUME NEW w \in WindowType, MinExact(w), NEW rtt \in Times, NEW time \in Times
  PROVE  LET v == NewRttSample(w, rtt, time)
         IN  /\ v \in WindowType /\ MinExact(v) /\ v.hist = w.hist
             /\ v.samples = {s \in w.samples \cup {[rtt |-> rtt, at |-> time]} :
                               s.at >= OldestKept(w.hist, time)}
             /\ [rtt |-> rtt, at |-> time] \in v.samples
             /\ IsLeastRtt(v.min, v.samples) /\ v.min \in Times
<1> DEFINE new  == [rtt |-> rtt, at |-> time]
           all  == w.samples \cup {new}
           kept == {s \in all : s.at >= OldestKept(w.hist, time)}
           min  == IF rtt < w.min THEN rtt ELSE w.min
           v    == NewRttSample(w, rtt, time)
<1>1. /\ w.hist \in Nat /\ w.min \in 0..TimeMax /\ w.srtt \in Nat /\ w.samples \in SUBSET Samples
      /\ TimeMax \in Nat /\ rtt \in Nat /\ rtt < TimeMax /\ time \in Nat
  BY TimeMaxAssumption DEF WindowType, Times
<1>2. new \in Samples /\ all \in SUBSET Samples /\ new.at = time /\ new.rtt = rtt
  BY <1>1 DEF Samples
<1>3. new \in kept /\ kept \in SUBSET Samples /\ kept # {}
  BY <1>1, <1>2, NewSampleKept
<1>4. IsLeastRtt(min, all) /\ min \in Times
  <2>1. CASE w.samples = {}
    <3>1. w.min = TimeMax
      BY <2>1 DEF MinExact
    <3> QED
      BY <1>1, <1>2, <2>1, <3>1 DEF IsLeastRtt, Times
  <2>2. CASE w.samples # {}
    <3>1. /\ \E s \in w.samples : s.rtt = w.min
          /\ \A s \in w.samples : w.min <= s.rtt
      BY <2>2 DEF MinExact, IsLeastRtt
    <3>2. \A s \in w.samples : s.rtt \in Nat
      BY <1>1 DEF Samples, Times
    <3>3. \A s \in all : min <= s.rtt
      BY <1>1, <1>2, <3>1, <3>2
    <3>4. \E s \in all : s.rtt = min
      BY <1>2, <3>1
    <3>5. min \in Times
      BY <1>1, <3>4 DEF Times
    <3> QED
      BY <3>3, <3>4, <3>5 DEF IsLeastRtt
  <2> QED
    BY <2>1, <2>2
<1>5. v = [hist |-> w.hist, min |-> MinAfter(min, kept, all \ kept),
           srtt |-> SmoothedRtt(w.srtt, rtt), samples |-> kept]
  BY DEF NewRttSample
<1> HIDE DEF v, min, kept, all
<1>6. IsLeastRtt(MinAfter(min, kept, all \ kept), kept) /\ MinAfter(min, kept, all \ kept) \in Times
  <2>1. CASE \E s \in all \ kept : s.rtt <= min
    BY <1>3, <2>1, LeastRttFound DEF MinAfter
  <2>2. CASE ~\E s \in all \ kept : s.rtt <= min
    <3>1. MinAfter(min, kept, all \ kept) = min
      BY <2>2 DEF MinAfter
    <3>2. PICK s \in all : s.rtt = min
      BY <1>4 DEF IsLeastRtt
    <3>3. s \in kept
      BY <1>4, <2>2, <3>2 DEF Times
    <3>4. \A r \in kept : min <= r.rtt
      BY <1>4 DEF IsLeastRtt, kept
    <3> QED
      BY <1>4, <3>1, <3>2, <3>3, <3>4 DEF IsLeastRtt
  <2> QED
    BY <2>1, <2>2
<1>7. SmoothedRtt(w.srtt, rtt) \in Nat
  BY <1>1 DEF SmoothedRtt
<1>8. v \in WindowType /\ MinExact(v) /\ v.hist = w.hist /\ v.samples = kept
  <2>1. MinAfter(min, kept, all \ kept) \in 0..TimeMax
    BY <1>1, <1>6 DEF Times
  <2> QED
    BY <1>1, <1>3, <1>5, <1>6, <1>7, <2>1 DEF WindowType, MinExact
<1> QED
  BY <1>3, <1>5, <1>6, <1>8 DEF v, kept, all

(* change_hist_period touches neither samples nor minimum.                  *)
LEMMA HistPeriodChanged ==
  ASSUME NEW w \in WindowType, NEW hist \in Nat
  PROVE  LET v == ChangeHistPeriod(w, hist)
         IN  /\ v \in WindowType /\ v.hist = hist
             /\ v.min = w.min /\ v.srtt = w.srtt /\ v.samples = w.samples
             /\ MinExact(w) => MinExact(v)
<1>1. ChangeHistPeriod(w, hist)
        = [hist |-> hist, min |-> w.min, srtt |-> w.srtt, samples |-> w.samples]
  BY DEF ChangeHistPeriod, WindowType
<1> QED
  BY <1>1 DEF WindowType, MinExact

(* A new window has no samples and no minimum.                              *)
LEMMA NewWindowExact ==
  ASSUME NEW hist \in Nat
  PROVE  NewWindow(hist) \in WindowType /\ MinExact(NewWindow(hist))
BY TimeMaxAssumption DEF NewWindow, WindowType, MinExact

-----------------------------------------------------------------------------
(* Copa *)

SlowSample(s) == 2 * s.rtt > BaseHist

(* Its two windows.  The standing window may hold what the base window has  *)
(* forgotten only when it is the longer one; it is then twice a base RTT of *)
(* more than half the base window, below which no sample is.                *)
CopaInv(a) ==
  /\ a \in CopaType
  /\ MinExact(a.base) /\ MinExact(a.standing)
  /\ a.base.hist >= BaseHist
  /\ \A s \in a.standing.samples \ a.base.samples : SlowSample(s)
  /\ a.standing.hist > a.base.hist => \A s \in a.base.samples : SlowSample(s)
  /\ a.aborted => \E s \in a.standing.samples : SlowSample(s)

(* Copa starts sound.                                                       *)
LEMMA NewCopaInv == CopaInv(NewCopa)
<1>1. NewWindow(BaseHist) \in WindowType /\ MinExact(NewWindow(BaseHist)) /\ BaseHist \in Nat
  BY NewWindowExact, CopaAssumption
<1>2. NewWindow(BaseHist).samples = {} /\ NewWindow(BaseHist).hist = BaseHist
  BY DEF NewWindow
<1> QED
  BY <1>1, <1>2 DEF NewCopa, CopaInv, CopaType

(* The windows that Copa's law may answer are at least 2.                   *)
LEMMA CopaWindows ==
  ASSUME NEW w \in Nat, NEW base, NEW queue
  PROVE  CopaMoves(w, base, queue) \subseteq Nat \ {0}
BY DEF CopaMoves, CopaUp, CopaDown

(* Copa: an ack keeps both windows exact; it aborts only after slow round   *)
(* trips.                                                                   *)
LEMMA CopaOnAckKeeps ==
  ASSUME NEW a, CopaInv(a), ~a.aborted, NEW ack \in AcksTold, NEW b \in CopaOnAck(a, ack)
  PROVE  CopaInv(b)
<1> DEFINE base     == NewRttSample(a.base, ack.rtt, ack.now)
           standing == NewRttSample(a.standing, ack.rtt, ack.now)
           queue    == standing.min - base.min
           base2     == ChangeHistPeriod(base, Larger(BaseHist, 30 * base.srtt))
           standing2 == ChangeHistPeriod(standing, 2 * base.min)
           sampled  == [a EXCEPT !.base = base2, !.standing = standing2]
           reduced  == IF ack.lost > 0 THEN HalfRounded(a.cwnd) ELSE {a.cwnd}
           new      == [rtt |-> ack.rtt, at |-> ack.now]
<1>1. /\ a.base \in WindowType /\ a.standing \in WindowType /\ a.cwnd \in Nat \ {0}
      /\ a.aborted = FALSE /\ a.kind = "Copa"
      /\ MinExact(a.base) /\ MinExact(a.standing)
      /\ a \in CopaType
  BY DEF CopaInv, CopaType
<1>2. /\ ack.rtt \in Times /\ ack.now \in Times /\ ack.now \in Nat /\ ack.rtt \in Nat
  BY DEF AcksTold, Times
<1>3. /\ base \in WindowType /\ MinExact(base) /\ base.hist = a.base.hist
      /\ base.samples = {s \in a.base.samples \cup {new} : s.at >= OldestKept(a.base.hist, ack.now)}
      /\ new \in base.samples /\ IsLeastRtt(base.min, base.samples) /\ base.min \in Times
  BY <1>1, <1>2, NewRttSampleExact
<1>4. /\ standing \in WindowType /\ MinExact(standing) /\ standing.hist = a.standing.hist
      /\ standing.samples = {s \in a.standing.samples \cup {new} :
                               s.at >= OldestKept(a.standing.hist, ack.now)}
      /\ new \in standing.samples
      /\ IsLeastRtt(standing.min, standing.samples) /\ standing.min \in Times
  BY <1>1, <1>2, NewRttSampleExact
<1> HIDE DEF base, standing
<1>5. /\ base.srtt \in Nat /\ base.min \in Nat /\ standing.min \in Nat /\ BaseHist \in Nat
      /\ Larger(BaseHist, 30 * base.srtt) \in Nat /\ Larger(BaseHist, 30 * base.srtt) >= BaseHist
      /\ 2 * base.min \in Nat
  BY <1>3, <1>4, CopaAssumption DEF WindowType, Times, Larger
<1>6. /\ base2 \in WindowType /\ MinExact(base2) /\ base2.hist >= BaseHist
      /\ base2.samples = base.samples
      /\ standing2 \in WindowType /\ MinExact(standing2) /\ standing2.hist = 2 * base.min
      /\ standing2.samples = standing.samples
  BY <1>3, <1>4, <1>5, HistPeriodChanged
<1> HIDE DEF base2, standing2
<1>7. \A s \in standing.samples \ base.samples : SlowSample(s)
  <2> SUFFICES ASSUME NEW s \in standing.samples, s \notin base.samples
               PROVE  SlowSample(s)
    OBVIOUS
  <2>1. s # new /\ s \in a.standing.samples /\ s.at >= OldestKept(a.standing.hist, ack.now)
    BY <1>3, <1>4
  <2>2. CASE s \notin a.base.samples
    BY <2>1, <2>2 DEF CopaInv
  <2>3. CASE s \in a.base.samples
    <3>1. ~(s.at >= OldestKept(a.base.hist, ack.now))
      BY <1>3, <2>3
    <3>2. s.at \in Nat /\ a.base.hist \in Nat /\ a.standing.hist \in Nat
      BY <1>1, <2>3 DEF WindowType, Samples, Times
    <3>3. a.standing.hist > a.base.hist
      BY <1>2, <2>1, <3>1, <3>2 DEF OldestKept
    <3> QED
      BY <2>3, <3>3 DEF CopaInv
  <2> QED
    BY <2>2, <2>3
<1>8. standing2.hist > base2.hist => \A s \in base.samples : SlowSample(s)
  <2> SUFFICES ASSUME standing2.hist > base2.hist, NEW s \in base.samples
               PROVE  SlowSample(s)
    OBVIOUS
  <2>1. base.min <= s.rtt /\ s.rtt \in Nat
    BY <1>3 DEF IsLeastRtt, WindowType, Samples, Times
  <2>2. base2.hist \in Nat
    BY <1>6 DEF WindowType
  <2>3. 2 * base.min > BaseHist
    BY <1>5, <1>6, <2>2
  <2> QED
    BY <1>5, <2>1, <2>3 DEF SlowSample
<1>9. queue < 0 => \E s \in standing.samples : SlowSample(s)
  <2> SUFFICES ASSUME queue < 0 PROVE \E s \in standing.samples : SlowSample(s)
    OBVIOUS
  <2>1. PICK s \in standing.samples : s.rtt = standing.min
    BY <1>4 DEF IsLeastRtt
  <2>2. s \notin base.samples
    <3>1. ASSUME s \in base.samples PROVE FALSE
      <4>1. base.min <= s.rtt
        BY <1>3, <3>1 DEF IsLeastRtt
      <4> QED
        BY <1>5, <2>1, <4>1
    <3> QED
      BY <3>1
  <2> QED
    BY <1>7, <2>1, <2>2
<1>10. sampled = [kind |-> "Copa", aborted |-> FALSE, cwnd |-> a.cwnd,
                  base |-> base2, standing |-> standing2]
  <2>1. sampled = [a EXCEPT !.base = base2, !.standing = standing2]
    OBVIOUS
  <2> HIDE DEF sampled
  <2> QED
    BY <1>1, <2>1 DEF CopaType
<1>11. b \in IF queue < 0 THEN {Aborted(sampled)}
             ELSE {[sampled EXCEPT !.cwnd = n] :
                     n \in UNION {CopaMoves(w, base.min, queue) : w \in reduced}}
  BY DEF CopaOnAck, base, standing, base2, standing2
<1> HIDE DEF sampled
<1>12. \E aborted \in BOOLEAN, n \in Nat \ {0} :
         /\ b = [kind |-> "Copa", aborted |-> aborted, cwnd |-> n,
                 base |-> base2, standing |-> standing2]
         /\ aborted => queue < 0
  <2>1. CASE queue < 0
    BY <1>1, <1>10, <1>11, <2>1 DEF Aborted
  <2>2. CASE ~(queue < 0)
    <3>1. reduced \subseteq Nat
      BY <1>1 DEF HalfRounded
    <3> HIDE DEF reduced
    <3>2. PICK w \in reduced : \E n \in CopaMoves(w, base.min, queue) : b = [sampled EXCEPT !.cwnd = n]
      BY <1>11, <2>2
    <3>3. PICK n \in CopaMoves(w, base.min, queue) : b = [sampled EXCEPT !.cwnd = n]
      BY <3>2
    <3>4. n \in Nat \ {0}
      BY <3>1, <3>3, CopaWindows
    <3> QED
      BY <1>1, <1>10, <3>3, <3>4
  <2> QED
    BY <2>1, <2>2
<1> QED
  BY <1>6, <1>7, <1>8, <1>9, <1>12 DEF CopaInv, CopaType

-----------------------------------------------------------------------------
(* Copa2 *)

Copa2Inv(a) == a \in Copa2Type /\ MinExact(a.long)

(* Copa2 starts sound.                                                      *)
LEMMA NewCopa2Inv == Copa2Inv(NewCopa2)
<1>1. NewWindow(LongHist) \in WindowType /\ MinExact(NewWindow(LongHist))
  BY NewWindowExact, CopaAssumption
<1>2. <<>> \in Seq(Nat)
  BY EmptySeq
<1> QED
  BY <1>1, <1>2 DEF NewCopa2, Copa2Inv, Copa2Type

(* Popping old acks stops at the latest the ack just added. *)
LEMMA RecentAcks ==
  ASSUME NEW acks \in Seq(Nat), NEW time \in Nat
  PROVE  Recent(Append(acks, time), time) \in Seq(Nat)
<1> DEFINE s == Append(acks, time)
           n == Len(acks) + 1
           Kept == {i \in DOMAIN s : s[i] + AckWindow >= time}
           First(i) == /\ s[i] + AckWindow >= time
                       /\ \A j \in 1..(i - 1) : s[j] + AckWindow < time
           first == CHOOSE i \in DOMAIN s : First(i)
<1>1. /\ s \in Seq(Nat) /\ n \in Nat /\ DOMAIN s = 1..n /\ n \in 1..n /\ s[n] = time
      /\ Len(s) = n /\ \A i \in 1..n : s[i] \in Nat
  BY AppendProperties
<1> HIDE DEF s, n
<1>2. n \in Kept /\ Kept \in SUBSET Nat
  BY <1>1, CopaAssumption
<1>3. PICK m \in Kept : \A k \in Kept : m <= k
  BY <1>2, NatMin
<1>4. ASSUME NEW j \in 1..(m - 1)
      PROVE  s[j] + AckWindow < time
  <2>1. j \in 1..n /\ ~(m <= j) /\ s[j] \in Nat
    BY <1>1, <1>3
  <2>2. j \notin Kept
    BY <1>3, <2>1
  <2>3. ~(s[j] + AckWindow >= time)
    BY <1>1, <2>1, <2>2
  <2> QED
    BY <2>1, <2>3, CopaAssumption
<1>5. m \in DOMAIN s /\ First(m)
  BY <1>3, <1>4
<1>6. first \in 1..n
  BY <1>1, <1>5
<1> HIDE DEF first
<1>7. SubSeq(s, first, Len(s)) \in Seq(Nat)
  <2>1. \A j \in first..n : s[j] \in Nat
    BY <1>1, <1>6
  <2> QED
    BY <1>1, <1>6, <2>1, SubSeqProperties
<1> QED
  BY <1>7 DEF Recent, first, s

(* Copa2: an ack of a known packet without a loss keeps it sound.           *)
LEMMA Copa2OnAckKeeps ==
  ASSUME NEW a, Copa2Inv(a), ~a.aborted, NEW ack \in AcksTold, NEW b \in Copa2OnAck(a, ack)
  PROVE  /\ Copa2Inv(b)
         /\ b.aborted => ack.uid \notin a.known \/ ack.lost > 0
         /\ ~b.aborted => b.known = a.known \ {ack.uid}
<1> DEFINE acks == Recent(Append(a.acks, ack.now), ack.now)
           long == NewRttSample(a.long, ack.rtt, ack.now)
<1>1. /\ a \in Copa2Type /\ a.aborted = FALSE /\ a.acks \in Seq(Nat) /\ a.known \in SUBSET Nat
      /\ a.long \in WindowType /\ MinExact(a.long)
  BY DEF Copa2Inv, Copa2Type
<1>2. /\ ack.rtt \in Times /\ ack.now \in Times /\ ack.now \in Nat /\ ack.uid \in Nat
  BY DEF AcksTold, Times
<1>3. acks \in Seq(Nat) /\ Len(acks) \in Nat
  <2>1. acks \in Seq(Nat)
    BY <1>1, <1>2, RecentAcks
  <2> HIDE DEF acks
  <2> QED
    BY <2>1, LenProperties
<1>4. long \in WindowType /\ MinExact(long)
  BY <1>1, <1>2, NewRttSampleExact
<1> DEFINE cwnd == Larger(2, Len(acks) + 1)
<1>5. cwnd \in Nat \ {0}
  BY <1>3 DEF Larger
<1>6. \/ /\ ack.uid \notin a.known \/ ack.lost > 0
         /\ b = [a EXCEPT !.aborted = TRUE]
      \/ b = [a EXCEPT !.known = @ \ {ack.uid}, !.long = long, !.acks = acks, !.cwnd = cwnd]
  BY DEF Copa2OnAck, Aborted
<1> HIDE DEF acks, long, cwnd
<1>7. CASE b = [a EXCEPT !.aborted = TRUE] /\ (ack.uid \notin a.known \/ ack.lost > 0)
  BY <1>1, <1>7 DEF Copa2Inv, Copa2Type
<1>8. CASE b = [a EXCEPT !.known = @ \ {ack.uid}, !.long = long, !.acks = acks, !.cwnd = cwnd]
  <2>1. a.known \ {ack.uid} \in SUBSET Nat
    BY <1>1
  <2>2. b = [kind |-> "Copa2", aborted |-> FALSE, cwnd |-> cwnd, acks |-> acks,
             known |-> a.known \ {ack.uid}, long |-> long]
    BY <1>1, <1>8 DEF Copa2Type
  <2> QED
    BY <1>3, <1>4, <1>5, <2>1, <2>2 DEF Copa2Inv, Copa2Type
<1> QED
  BY <1>6, <1>7, <1>8

(* Copa2: a packet sent is known.                                           *)
LEMMA Copa2OnSendKeeps ==
  ASSUME NEW a, Copa2Inv(a), NEW uid \in Nat
  PROVE  LET b == Copa2OnSend(a, uid)
         IN  Copa2Inv(b) /\ b.known = a.known \cup {uid} /\ b.aborted = a.aborted
<1> DEFINE b == Copa2OnSend(a, uid)
<1>1. b = [a EXCEPT !.known = @ \cup {uid}]
  BY DEF Copa2OnSend
<1> HIDE DEF b
<1>2. b \in Copa2Type /\ b.known = a.known \cup {uid} /\ b.aborted = a.aborted /\ b.long = a.long
  BY <1>1 DEF Copa2Inv, Copa2Type
<1> QED
  BY <1>2 DEF Copa2Inv, b

-----------------------------------------------------------------------------
(* InstantCC: the RTT standing for a round was seen while the least RTT      *)
(* already counted it, so that it is not below; to raise the least RTT ends  *)
(* the round.                                                                *)
InstantInv(a) == a \in InstantType /\ a.aborted = FALSE /\ a.rttMin <= a.standing

(* InstantCC starts sound.                                                  *)
LEMMA NewInstantInv == InstantInv(NewInstant)
BY TimeMaxAssumption DEF NewInstant, InstantInv, InstantType

(* Half a window is at least one packet.                                    *)
LEMMA HalvedWindow ==
  ASSUME NEW n \in Nat \ {0}
  PROVE  Halved(n) \in Nat \ {0}
BY DEF Halved, Larger

(* InstantCC: no ack makes it subtract a larger RTT from a smaller.         *)
LEMMA InstantOnAckKeeps ==
  ASSUME NEW a, InstantInv(a), NEW ack \in AcksTold, NEW b \in InstantOnAck(a, ack)
  PROVE  InstantInv(b)
<1> DEFINE seen   == [a EXCEPT !.rttMin = Smaller(@, ack.rtt)]
           stands == [seen EXCEPT !.standing = Smaller(@, ack.rtt)]
<1>1. /\ a \in InstantType /\ a.aborted = FALSE /\ a.rttMin \in 0..TimeMax
      /\ a.standing \in 0..TimeMax /\ a.rttMin <= a.standing /\ TimeMax \in Nat
      /\ ack.rtt \in Nat /\ ack.rtt < TimeMax
  BY TimeMaxAssumption DEF InstantInv, InstantType, AcksTold, Times
<1>2. /\ seen \in InstantType /\ seen.aborted = FALSE /\ seen.standing = a.standing
      /\ seen.rttMin <= ack.rtt /\ seen.rttMin <= seen.standing /\ seen.cwnd = a.cwnd
  <2>1. Smaller(a.rttMin, ack.rtt) \in 0..TimeMax /\ Smaller(a.rttMin, ack.rtt) <= ack.rtt
        /\ Smaller(a.rttMin, ack.rtt) <= a.standing
    BY <1>1 DEF Smaller
  <2>2. seen = [a EXCEPT !.rttMin = Smaller(a.rttMin, ack.rtt)]
    OBVIOUS
  <2> HIDE DEF seen
  <2> QED
    BY <1>1, <2>1, <2>2 DEF InstantType
<1> HIDE DEF seen
<1>3. /\ stands \in InstantType /\ stands.aborted = FALSE /\ stands.rttMin <= stands.standing
  <2>1. /\ Smaller(seen.standing, ack.rtt) \in 0..TimeMax
        /\ seen.rttMin <= Smaller(seen.standing, ack.rtt)
    BY <1>1, <1>2 DEF Smaller
  <2>2. stands = [seen EXCEPT !.standing = Smaller(seen.standing, ack.rtt)]
    OBVIOUS
  <2> HIDE DEF stands
  <2> QED
    BY <1>2, <2>1, <2>2 DEF InstantType
<1> HIDE DEF stands
<1>4. b \in {[seen EXCEPT !.cwnd = Halved(@)]} \/ b \in {seen, stands} \/ b \in InstantUpdate(stands)
  BY DEF InstantOnAck, seen, stands
<1>5. CASE b = [seen EXCEPT !.cwnd = Halved(@)]
  <2>1. Halved(seen.cwnd) \in Nat \ {0}
    BY <1>2, HalvedWindow DEF InstantType
  <2> QED
    BY <1>2, <1>5, <2>1 DEF InstantInv, InstantType
<1>6. CASE b \in {seen, stands}
  BY <1>2, <1>3, <1>6 DEF InstantInv
<1>7. CASE b \in InstantUpdate(stands)
  <2>1. stands.cwnd \in Nat \ {0} /\ stands.rttMin \in 0..TimeMax /\ stands.standing \in 0..TimeMax
    BY <1>3 DEF InstantType
  <2>2. \E n \in Nat \ {0}, rttMin \in 0..TimeMax :
          b = [kind |-> "InstantCC", aborted |-> FALSE, cwnd |-> n, rttMin |-> rttMin,
               waiting |-> NoSeq, standing |-> TimeMax]
    <3>1. ~(stands.standing < stands.rttMin)
      BY <1>3, <2>1
    <3>2. CASE stands.standing = stands.rttMin
      <4>1. PICK n \in Doubled(stands.cwnd) : b = RoundEnded([stands EXCEPT !.cwnd = n])
        BY <1>7, <3>1, <3>2 DEF InstantUpdate
      <4>2. n \in Nat \ {0}
        BY <2>1 DEF Doubled
      <4> DEFINE c == [stands EXCEPT !.cwnd = n]
      <4>3. c = [stands EXCEPT !.cwnd = n]
        OBVIOUS
      <4>4. b = [c EXCEPT !.waiting = NoSeq, !.standing = TimeMax]
        BY <4>1 DEF RoundEnded
      <4> HIDE DEF c
      <4>6. c = [kind |-> "InstantCC", aborted |-> FALSE, cwnd |-> n, rttMin |-> stands.rttMin,
                 waiting |-> stands.waiting, standing |-> stands.standing]
        BY <1>3, <4>3 DEF InstantType
      <4>5. b = [kind |-> "InstantCC", aborted |-> FALSE, cwnd |-> n, rttMin |-> stands.rttMin,
                 waiting |-> NoSeq, standing |-> TimeMax]
        BY <4>4, <4>6
      <4> QED
        BY <2>1, <4>2, <4>5
    <3>3. CASE stands.standing # stands.rttMin
      <4>1. PICK n \in 1..(2 * stands.cwnd + 1) :
              b = RoundEnded([stands EXCEPT !.cwnd = n, !.rttMin = RttMinReset])
        BY <1>7, <3>1, <3>3 DEF InstantUpdate
      <4>2. n \in Nat \ {0}
        BY <2>1
      <4> DEFINE c == [stands EXCEPT !.cwnd = n, !.rttMin = RttMinReset]
      <4>3. c = [stands EXCEPT !.cwnd = n, !.rttMin = RttMinReset]
        OBVIOUS
      <4>4. b = [c EXCEPT !.waiting = NoSeq, !.standing = TimeMax]
        BY <4>1 DEF RoundEnded
      <4> HIDE DEF c
      <4>5. c = [kind |-> "InstantCC", aborted |-> FALSE, cwnd |-> n, rttMin |-> RttMinReset,
                 waiting |-> stands.waiting, standing |-> stands.standing]
        BY <1>3, <4>3 DEF InstantType
      <4>6. b = [kind |-> "InstantCC", aborted |-> FALSE, cwnd |-> n, rttMin |-> RttMinReset,
                 waiting |-> NoSeq, standing |-> TimeMax]
        BY <4>4, <4>5
      <4>7. RttMinReset \in 0..TimeMax
        BY <1>1, CcAssumption DEF Times
      <4> QED
        BY <4>2, <4>6, <4>7
    <3> QED
      BY <3>2, <3>3
  <2> QED
    BY <1>1, <2>2 DEF InstantInv, InstantType
<1> QED
  BY <1>4, <1>5, <1>6, <1>7

(* These fields make a sound state of InstantCC.                            *)
LEMMA InstantMade ==
  ASSUME NEW n \in Nat \ {0}, NEW rttMin \in 0..TimeMax, NEW waiting \in Nat \cup {NoSeq},
         NEW b, b = [kind |-> "InstantCC", aborted |-> FALSE, cwnd |-> n, rttMin |-> rttMin,
                     waiting |-> waiting, standing |-> TimeMax]
  PROVE  InstantInv(b)
BY TimeMaxAssumption DEF InstantInv, InstantType

(* InstantCC: a packet sent starts a round at most.                         *)
LEMMA InstantOnSendKeeps ==
  ASSUME NEW a, InstantInv(a), NEW seq \in Nat
  PROVE  InstantInv(InstantOnSend(a, seq))
<1> DEFINE b == InstantOnSend(a, seq)
<1>1. b = a \/ b = [a EXCEPT !.waiting = seq, !.standing = TimeMax]
  BY DEF InstantOnSend
<1> HIDE DEF b
<1>2. ASSUME b = [a EXCEPT !.waiting = seq, !.standing = TimeMax]
      PROVE  InstantInv(b)
  <2>1. b = [kind |-> "InstantCC", aborted |-> FALSE, cwnd |-> a.cwnd, rttMin |-> a.rttMin,
             waiting |-> seq, standing |-> TimeMax]
    BY <1>2 DEF InstantInv, InstantType
  <2>2. a.cwnd \in Nat \ {0} /\ a.rttMin \in 0..TimeMax /\ seq \in Nat \cup {NoSeq}
    BY DEF InstantInv, InstantType
  <2> QED
    BY <2>1, <2>2, InstantMade
<1>3. InstantInv(b)
  BY <1>1, <1>2
<1> QED
  BY <1>3 DEF b

(* InstantCC: a timeout ends the round.                                     *)
LEMMA InstantOnTimeoutKeeps ==
  ASSUME NEW a, InstantInv(a)
  PROVE  InstantInv(InstantOnTimeout(a))
<1> DEFINE c == [a EXCEPT !.cwnd = 1]
           b == InstantOnTimeout(a)
<1>1. c = [a EXCEPT !.cwnd = 1]
  OBVIOUS
<1>2. b = [c EXCEPT !.waiting = NoSeq, !.standing = TimeMax]
  BY DEF InstantOnTimeout, RoundEnded
<1> HIDE DEF b, c
<1>3. c = [kind |-> "InstantCC", aborted |-> FALSE, cwnd |-> 1, rttMin |-> a.rttMin,
           waiting |-> a.waiting, standing |-> a.standing]
  BY <1>1 DEF InstantInv, InstantType
<1>4. b = [kind |-> "InstantCC", aborted |-> FALSE, cwnd |-> 1, rttMin |-> a.rttMin,
           waiting |-> NoSeq, standing |-> TimeMax]
  BY <1>2, <1>3
<1>5. a.rttMin \in 0..TimeMax /\ NoSeq \in Nat \cup {NoSeq} /\ 1 \in Nat \ {0}
  BY DEF InstantInv, InstantType
<1>6. InstantInv(b)
  BY <1>4, <1>5, InstantMade
<1> QED
  BY <1>6 DEF b

-----------------------------------------------------------------------------
(* AIMD *)

(* AIMD: the window stays at least one packet.                              *)
LEMMA AimdKeeps ==
  ASSUME NEW a \in AimdType
  PROVE  /\ AimdOnTimeout(a) \in AimdType
         /\ \A ack \in AcksTold : AimdOnAck(a, ack) \subseteq AimdType
<1>1. a.cwnd \in Nat \ {0} /\ a.lastLoss \in Nat
  BY DEF AimdType
<1>2. AimdOnTimeout(a) \in AimdType
  <2> DEFINE b == AimdOnTimeout(a)
  <2>1. b = [a EXCEPT !.cwnd = 1]
    BY DEF AimdOnTimeout
  <2> HIDE DEF b
  <2>2. b = [kind |-> "AIMD", aborted |-> FALSE, cwnd |-> 1, lastLoss |-> a.lastLoss]
    BY <2>1 DEF AimdType
  <2>3. b \in AimdType
    BY <1>1, <2>2 DEF AimdType
  <2> QED
    BY <2>3 DEF b
<1>3. ASSUME NEW ack \in AcksTold, NEW b \in AimdOnAck(a, ack)
      PROVE  b \in AimdType
  <2>1. ack.cum \in Nat /\ Halved(a.cwnd) \in Nat \ {0} /\ Increased(a.cwnd) \subseteq Nat \ {0}
    BY <1>1, HalvedWindow DEF AcksTold, Increased
  <2>2. \/ b = a
        \/ b = [a EXCEPT !.cwnd = Halved(a.cwnd), !.lastLoss = ack.cum]
        \/ \E n \in Increased(a.cwnd) : b = [a EXCEPT !.cwnd = n]
    BY <1>3 DEF AimdOnAck
  <2>3. CASE \E n \in Increased(a.cwnd) : b = [a EXCEPT !.cwnd = n]
    <3>1. PICK n \in Increased(a.cwnd) : b = [a EXCEPT !.cwnd = n]
      BY <2>3
    <3> QED
      BY <2>1, <3>1 DEF AimdType
  <2>4. CASE b = [a EXCEPT !.cwnd = Halved(a.cwnd), !.lastLoss = ack.cum]
    BY <2>1, <2>4 DEF AimdType
  <2> QED
    BY <2>2, <2>3, <2>4
<1> QED
  BY <1>2, <1>3

-----------------------------------------------------------------------------
(* OscInstantCC: time does not run backwards for it, and its window is 0    *)
(* only once its least RTT is.                                              *)
OscBase(a) == a \in OscType /\ a.aborted = FALSE /\ (a.b = NotANumber => a.rttMin = 0)

OscInv(a, time) == OscBase(a) /\ a.now <= time /\ (a.swung = 0 => a.rttMin = 0)

(* OscInstantCC starts sound.                                               *)
LEMMA NewOscInv == OscInv(NewOsc, 0)
BY TimeMaxAssumption DEF NewOsc, OscInv, OscBase, OscType, NotANumber

(* The window of OscInstantCC is at least 1 as long as its base is a number. *)
LEMMA OscSwings ==
  ASSUME NEW a, OscBase(a), NEW time \in Nat, NEW w \in Swings(a.b), NEW b,
         b = [a EXCEPT !.now = time, !.swung = w]
  PROVE  OscInv(b, time) /\ b.now = time
<1>1. a.b = NotANumber => w = 0 /\ a.rttMin = 0
  BY DEF Swings, OscBase
<1>2. a.b # NotANumber => w \in Nat /\ w >= 1
  <2> SUFFICES ASSUME a.b # NotANumber PROVE w \in Nat /\ w >= 1
    OBVIOUS
  <2> DEFINE m == a.b * (100 - OscSwing)
             n == (a.b + 1) * (100 + OscSwing)
  <2>1. a.b \in Nat /\ OscSwing \in Nat
    BY CcAssumption DEF OscBase, OscType
  <2>2. m \in Int /\ n \in Int
    BY <2>1
  <2>3. w \in Larger(1, m \div 100)..Larger(1, n \div 100)
    BY DEF Swings
  <2> HIDE DEF m, n
  <2>4. m \div 100 \in Int /\ n \div 100 \in Int
    BY <2>2
  <2> QED
    BY <2>3, <2>4 DEF Larger
<1>3. a \in OscType /\ a.aborted = FALSE /\ w \in Nat
  BY <1>1, <1>2 DEF OscBase
<1>4. /\ b \in OscType /\ b.aborted = FALSE /\ b.b = a.b /\ b.rttMin = a.rttMin
      /\ b.swung = w /\ b.now = time
  BY <1>3 DEF OscType
<1> QED
  BY <1>1, <1>2, <1>4 DEF OscInv, OscBase

(* The base stops being a number only after an instantaneous round trip.    *)
LEMMA OscBases ==
  ASSUME NEW a, OscBase(a), NEW n \in NextBases(a)
  PROVE  n \in Nat \cup {NotANumber} /\ (n = NotANumber => a.rttMin = 0)
<1>1. CASE a.rttMin = 0
  BY <1>1 DEF NextBases
<1>2. CASE a.rttMin # 0
  <2>1. a.b \in Nat
    BY <1>2 DEF OscBase, OscType
  <2> QED
    BY <1>2, <2>1 DEF NextBases, Doubled, Larger, NotANumber
<1> QED
  BY <1>1, <1>2

(* An RTT observed keeps OscInstantCC sound.                                *)
LEMMA OscObserved ==
  ASSUME NEW a, OscBase(a), NEW rtt \in Times
  PROVE  OscBase(OscObserve(a, rtt))
<1> DEFINE b == OscObserve(a, rtt)
<1>1. b = [a EXCEPT !.rttMin = Smaller(a.rttMin, rtt), !.winMin = Smaller(a.winMin, rtt),
                    !.winMax = Larger(a.winMax, rtt)]
  BY DEF OscObserve
<1>2. /\ a \in OscType /\ a.aborted = FALSE /\ a.rttMin \in 0..TimeMax /\ a.winMin \in 0..TimeMax
      /\ a.winMax \in Nat /\ TimeMax \in Nat /\ rtt \in Nat /\ rtt < TimeMax
  BY TimeMaxAssumption DEF OscBase, OscType, Times
<1>3. /\ Smaller(a.rttMin, rtt) \in 0..TimeMax /\ Smaller(a.winMin, rtt) \in 0..TimeMax
      /\ Larger(a.winMax, rtt) \in Nat /\ (a.rttMin = 0 => Smaller(a.rttMin, rtt) = 0)
  BY <1>2 DEF Smaller, Larger
<1> HIDE DEF b
<1>4. b \in OscType /\ b.aborted = FALSE /\ b.b = a.b /\ b.rttMin = Smaller(a.rttMin, rtt)
  BY <1>1, <1>2, <1>3 DEF OscType
<1>5. OscBase(b)
  BY <1>3, <1>4 DEF OscBase
<1> QED
  BY <1>5 DEF b

(* The end of an interval keeps it sound.                                   *)
LEMMA OscUpdated ==
  ASSUME NEW a, OscBase(a), NEW time \in Nat, NEW b \in OscUpdate(a, time)
  PROVE  OscBase(b)
<1>1. /\ a \in OscType /\ a.aborted = FALSE /\ TimeMax \in 0..TimeMax
  BY TimeMaxAssumption DEF OscBase
<1>2. CASE b = [a EXCEPT !.lastObs = time]
  <2>1. b \in OscType /\ b.aborted = FALSE /\ b.b = a.b /\ b.rttMin = a.rttMin
    BY <1>1, <1>2 DEF OscType
  <2> QED
    BY <2>1 DEF OscBase
<1>3. ASSUME NEW n \in NextBases(a),
             b = [a EXCEPT !.lastObs = time, !.b = n, !.winMin = TimeMax, !.winMax = 0]
      PROVE  OscBase(b)
  <2>1. n \in Nat \cup {NotANumber} /\ (n = NotANumber => a.rttMin = 0)
    BY OscBases
  <2>2. b \in OscType /\ b.aborted = FALSE /\ b.b = n /\ b.rttMin = a.rttMin
    BY <1>1, <1>3, <2>1 DEF OscType
  <2> QED
    BY <2>1, <2>2 DEF OscBase
<1> QED
  BY <1>2, <1>3 DEF OscUpdate

(* OscInstantCC: an ack keeps it sound, as the clock does not go back.      *)
LEMMA OscOnAckKeeps ==
  ASSUME NEW a, NEW ack \in AcksTold, OscInv(a, ack.now), NEW b \in OscOnAck(a, ack)
  PROVE  OscInv(b, ack.now)
<1>1. ack.now \in Nat /\ ack.rtt \in Times /\ a.now \in Nat /\ a.now <= ack.now /\ OscBase(a)
  BY DEF AcksTold, Times, OscInv, OscBase, OscType
<1> DEFINE halved == [a EXCEPT !.b = IF @ = NotANumber THEN @ ELSE @ \div 2, !.lastLoss = ack.now]
           states == IF ack.lost > 0 /\ ack.now + ack.rtt > a.lastLoss
                     THEN {halved}
                     ELSE IF ack.now < a.lastObs + Larger(ack.rtt, OscInterval)
                     THEN {OscObserve(a, ack.rtt)}
                     ELSE OscUpdate(a, ack.now)
<1>2. b \in Swung(states, ack.now)
  BY <1>1 DEF OscOnAck
<1>3. OscBase(halved)
  <2> DEFINE n == IF a.b = NotANumber THEN a.b ELSE a.b \div 2
  <2>1. halved = [a EXCEPT !.b = n, !.lastLoss = ack.now]
    OBVIOUS
  <2>2. n \in Nat \cup {NotANumber} /\ (n = NotANumber => a.b = NotANumber)
    BY <1>1 DEF OscBase, OscType, NotANumber
  <2> HIDE DEF halved, n
  <2>3. /\ halved \in OscType /\ halved.aborted = FALSE /\ halved.b = n
        /\ halved.rttMin = a.rttMin
    BY <1>1, <2>1, <2>2 DEF OscBase, OscType
  <2> QED
    BY <1>1, <2>2, <2>3 DEF OscBase
<1> HIDE DEF halved
<1>4. \A st \in states : OscBase(st)
  BY <1>1, <1>3, OscObserved, OscUpdated
<1> HIDE DEF states
<1>5. PICK st \in states : \E w \in Swings(st.b) : b = [st EXCEPT !.now = ack.now, !.swung = w]
  BY <1>2 DEF Swung
<1>6. PICK w \in Swings(st.b) : b = [st EXCEPT !.now = ack.now, !.swung = w]
  BY <1>5
<1> QED
  BY <1>1, <1>4, <1>6, OscSwings

(* OscInstantCC: so does a packet sent.                                     *)
LEMMA OscOnSendKeeps ==
  ASSUME NEW a, NEW time \in Nat, OscInv(a, time), NEW b \in OscOnSend(a, time)
  PROVE  OscInv(b, time)
<1>1. a.now \in Nat /\ a.now <= time /\ OscBase(a)
  BY DEF OscInv, OscBase, OscType
<1>2. b \in Swung({a}, time)
  BY <1>1 DEF OscOnSend
<1>3. PICK st \in {a} : \E w \in Swings(st.b) : b = [st EXCEPT !.now = time, !.swung = w]
  BY <1>2 DEF Swung
<1>4. PICK w \in Swings(st.b) : b = [st EXCEPT !.now = time, !.swung = w]
  BY <1>3
<1> QED
  BY <1>1, <1>3, <1>4, OscSwings

-----------------------------------------------------------------------------
(* StableLinearCC *)

(* The number of records taken off the history is within it.                *)
LEMMA ForgottenBounds ==
  ASSUME NEW hist \in Seq([seq : Nat, cwnd : Nat \ {0}]), NEW cum \in Nat
  PROVE  Forgotten(hist, cum) \in 0..Len(hist)
<1> DEFINE n     == Len(hist)
           Stops == {k \in 0..n : k < n => hist[k + 1].seq > cum}
<1>1. n \in Nat /\ \A i \in 1..n : hist[i] \in [seq : Nat, cwnd : Nat \ {0}]
  BY LenProperties
<1>2. n \in Stops /\ Stops \in SUBSET Nat
  BY <1>1
<1>3. PICK m \in Stops : \A k \in Stops : m <= k
  BY <1>2, NatMin
<1>4. ASSUME NEW i \in 1..m
      PROVE  hist[i].seq <= cum
  <2>1. i - 1 \in 0..n /\ i - 1 < n /\ ~(m <= i - 1) /\ i \in 1..n /\ (i - 1) + 1 = i
    BY <1>1, <1>3
  <2>2. i - 1 \notin Stops
    BY <1>3, <2>1
  <2>3. ~(hist[i].seq > cum)
    BY <2>1, <2>2
  <2>4. hist[i].seq \in Nat
    BY <1>1, <2>1
  <2> QED
    BY <2>3, <2>4
<1>5. m \in 0..Len(hist) /\ (m < Len(hist) => hist[m + 1].seq > cum)
  BY <1>3
<1> QED
  BY <1>4, <1>5 DEF Forgotten

(* StableLinearCC: each callback keeps its type.                            *)
LEMMA LinearKeeps ==
  ASSUME NEW a \in LinearType
  PROVE  /\ LinearWindow(a) \in Nat \ {0}
         /\ \A seq \in Nat : LinearOnSend(a, seq) \in LinearType
         /\ \A ack \in AcksTold : LinearOnAck(a, ack) \subseteq LinearType
<1> DEFINE Records == [seq : Nat, cwnd : Nat \ {0}]
<1>1. a.cwnd \in Nat /\ a.hist \in Seq(Records) /\ a.rttMin \in Nat
  BY DEF LinearType
<1>2. LinearWindow(a) \in Nat \ {0}
  BY <1>1 DEF LinearWindow, Larger
<1>3. ASSUME NEW seq \in Nat
      PROVE  LinearOnSend(a, seq) \in LinearType
  <2> DEFINE pkt == [seq |-> seq, cwnd |-> LinearWindow(a)]
             b   == LinearOnSend(a, seq)
  <2>1. pkt \in Records
    BY <1>2
  <2>2. Append(a.hist, pkt) \in Seq(Records)
    BY <1>1, <2>1, AppendProperties
  <2>3. b = [a EXCEPT !.hist = Append(a.hist, pkt)]
    BY DEF LinearOnSend
  <2> HIDE DEF b, pkt
  <2>4. b \in LinearType
    BY <2>2, <2>3 DEF LinearType
  <2> QED
    BY <2>4 DEF b
<1>4. ASSUME NEW ack \in AcksTold, NEW b \in LinearOnAck(a, ack)
      PROVE  b \in LinearType
  <2> DEFINE k == Forgotten(a.hist, ack.cum)
  <2>1. k \in 0..Len(a.hist) /\ Len(a.hist) \in Nat
    BY <1>1, ForgottenBounds, LenProperties DEF AcksTold
  <2>2. \/ b = [a EXCEPT !.cwnd = 2]
        \/ b = [a EXCEPT !.aborted = TRUE]
        \/ /\ k # 0
           /\ \E n \in (IF ack.rtt = a.rttMin THEN 2 * a.hist[k].cwnd ELSE 0)..(2 * a.hist[k].cwnd) :
                 b = [a EXCEPT !.cwnd = n, !.hist = SubSeq(@, k + 1, Len(@))]
    BY <1>4 DEF LinearOnAck, Aborted
  <2> HIDE DEF k
  <2>3. CASE b = [a EXCEPT !.cwnd = 2]
    BY <2>3 DEF LinearType
  <2>4. CASE b = [a EXCEPT !.aborted = TRUE]
    BY <2>4 DEF LinearType
  <2>5. ASSUME k # 0,
               NEW n \in (IF ack.rtt = a.rttMin THEN 2 * a.hist[k].cwnd ELSE 0)..(2 * a.hist[k].cwnd),
               b = [a EXCEPT !.cwnd = n, !.hist = SubSeq(@, k + 1, Len(@))]
        PROVE  b \in LinearType
    <3>0. \A i \in 1..Len(a.hist) : a.hist[i] \in Records
      <4> HIDE DEF Records
      <4> QED
        BY <1>1, ElementOfSeq
    <3>1. a.hist[k] \in Records
      <4> HIDE DEF Records
      <4> QED
        BY <2>1, <2>5, <3>0
    <3>2. n \in Nat
      BY <2>5, <3>1
    <3>3. \A i \in (k + 1)..Len(a.hist) : a.hist[i] \in Records
      <4> HIDE DEF Records
      <4> QED
        BY <2>1, <3>0
    <3> DEFINE rest == SubSeq(a.hist, k + 1, Len(a.hist))
    <3>4. rest \in Seq(Records)
      BY <2>1, <3>3, SubSeqProperties
    <3>5. b = [a EXCEPT !.cwnd = n, !.hist = rest]
      BY <2>5
    <3> HIDE DEF rest
    <3> QED
      BY <3>2, <3>4, <3>5 DEF LinearType
  <2> QED
    BY <2>2, <2>3, <2>4, <2>5
<1> QED
  BY <1>2, <1>3, <1>4

-----------------------------------------------------------------------------
(* IncreaseBdpCC.  That an ack past the marker is of a packet sent no        *)
(* earlier is for the flow to show: an estimate over no time is then one of  *)
(* round trips that took none, and is not infinite.                          *)
AckSince(a, ack) ==
  /\ a.marker # NoPkt
  /\ ack.cum > a.marker.seq => a.marker.at <= ack.now - ack.rtt

(* A quotient rounded is a natural number.                                  *)
LEMMA RoundedNat ==
  ASSUME NEW n \in Nat, NEW d \in Nat \ {0}
  PROVE  Rounded(n, d) \in Nat
<1> DEFINE m == 2 * n + d
           k == 2 * d
<1>1. m \in Nat /\ k \in Nat /\ k > 0
  OBVIOUS
<1> HIDE DEF m, k
<1>2. m \div k \in Nat
  BY <1>1
<1> QED
  BY <1>2 DEF Rounded, m, k

(* IncreaseBdpCC: an ack that passes the marker only if it is of a packet   *)
(* sent since keeps it sound.                                               *)
LEMMA BdpOnAckKeeps ==
  ASSUME NEW a \in BdpType, a.aborted = FALSE, NEW ack \in AcksTold, AckSince(a, ack),
         NEW b \in BdpOnAck(a, ack)
  PROVE  /\ b \in BdpType /\ b.aborted = FALSE
         /\ b.lastSent = a.lastSent /\ b.marker \in {a.marker, a.lastSent}
<1> DEFINE counted == [a EXCEPT !.acks = @ + 1, !.minRtt = Smaller(@, ack.rtt)]
           over    == ack.now - a.marker.at
           next    == [counted EXCEPT !.marker = a.lastSent, !.acks = 0]
<1>1. /\ a.minRtt \in 0..TimeMax /\ TimeMax \in Nat /\ a.acks \in Nat
      /\ a.marker \in SentPkts /\ a.lastSent \in SentPkts /\ a.bdp \in Nat
      /\ a.kind = "IncreaseBdpCC"
  BY TimeMaxAssumption DEF BdpType
<1>2. ack.now \in Nat /\ ack.rtt \in Nat /\ ack.rtt < TimeMax
  BY TimeMaxAssumption DEF AcksTold, Times
<1>3. a.marker.at \in Nat /\ a.marker # NoPkt
  BY <1>1 DEF SentPkts, AckSince, NoPkt
<1>4. /\ counted \in BdpType /\ counted.aborted = FALSE /\ counted.lastSent = a.lastSent
      /\ counted.marker = a.marker /\ counted.minRtt \in Nat /\ counted.minRtt <= ack.rtt
      /\ counted.acks \in Nat
  <2>1. /\ Smaller(a.minRtt, ack.rtt) \in 0..TimeMax /\ Smaller(a.minRtt, ack.rtt) <= ack.rtt
        /\ a.acks + 1 \in Nat
    BY <1>1, <1>2 DEF Smaller
  <2> DEFINE acks == a.acks + 1
             rtt  == Smaller(a.minRtt, ack.rtt)
  <2>2. counted = [a EXCEPT !.acks = acks, !.minRtt = rtt]
    OBVIOUS
  <2> HIDE DEF counted, acks, rtt
  <2>3. acks \in Nat /\ rtt \in 0..TimeMax /\ rtt \in Nat /\ rtt <= ack.rtt
    BY <1>1, <2>1 DEF acks, rtt
  <2>4. counted = [kind |-> "IncreaseBdpCC", aborted |-> FALSE, minRtt |-> rtt, bdp |-> a.bdp,
                   marker |-> a.marker, acks |-> acks, lastSent |-> a.lastSent]
    BY <2>2 DEF BdpType
  <2> QED
    BY <1>1, <2>3, <2>4 DEF BdpType
<1> HIDE DEF counted
<1>5. b = counted \/ (b \in BdpUpdate(counted, ack.now) /\ ack.cum > a.marker.seq)
  BY <1>3 DEF BdpOnAck, counted
<1>6. CASE b = counted
  BY <1>4, <1>6
<1>7. CASE b \in BdpUpdate(counted, ack.now) /\ ack.cum > a.marker.seq
  <2>1. over >= ack.rtt /\ over \in Nat
    BY <1>2, <1>3, <1>7 DEF AckSince
  <2>2. next = [counted EXCEPT !.marker = a.lastSent, !.acks = 0]
    OBVIOUS
  <2>3. BdpUpdate(counted, ack.now)
          = IF over > 0 THEN {[next EXCEPT !.bdp = Rounded(counted.acks * counted.minRtt, over)]}
            ELSE IF counted.minRtt = 0 THEN {[next EXCEPT !.bdp = 0]}
            ELSE {Aborted(counted)}
    BY <1>4 DEF BdpUpdate
  <2> HIDE DEF next, over
  <2>4. /\ next \in BdpType /\ next.aborted = FALSE /\ next.lastSent = a.lastSent
        /\ next.marker = a.lastSent
    BY <1>1, <1>4, <2>2 DEF BdpType
  <2>5. ~(over > 0) => counted.minRtt = 0
    BY <1>2, <1>4, <2>1
  <2>6. over > 0 => Rounded(counted.acks * counted.minRtt, over) \in Nat
    <3> DEFINE n == counted.acks * counted.minRtt
    <3>1. n \in Nat
      BY <1>4
    <3> HIDE DEF n
    <3>2. over > 0 => Rounded(n, over) \in Nat
      BY <2>1, <3>1, RoundedNat
    <3> QED
      BY <3>2 DEF n
  <2>7. PICK bdp \in Nat : b = [next EXCEPT !.bdp = bdp]
    BY <1>7, <2>3, <2>5, <2>6
  <2> QED
    BY <2>4, <2>7 DEF BdpType
<1> QED
  BY <1>5, <1>6, <1>7

(* IncreaseBdpCC: a packet sent keeps it sound.                             *)
LEMMA BdpOnSendKeeps ==
  ASSUME NEW a \in BdpType, NEW time \in Nat, NEW seq \in Nat
  PROVE  LET b   == BdpOnSend(a, time, seq)
             pkt == [seq |-> seq, at |-> time]
         IN  /\ b \in BdpType /\ b.aborted = a.aborted
             /\ IF a.lastSent = NoPkt THEN b.lastSent = pkt /\ b.marker = pkt
                ELSE /\ b.marker = a.marker
                     /\ b.lastSent = IF seq > a.lastSent.seq THEN pkt ELSE a.lastSent
<1> DEFINE b   == BdpOnSend(a, time, seq)
           pkt == [seq |-> seq, at |-> time]
<1>1. pkt \in SentPkts
  BY DEF SentPkts
<1>2. b = IF a.lastSent = NoPkt THEN [a EXCEPT !.lastSent = pkt, !.marker = pkt]
          ELSE IF seq > a.lastSent.seq THEN [a EXCEPT !.lastSent = pkt]
          ELSE a
  BY DEF BdpOnSend
<1> HIDE DEF b, pkt
<1>3. /\ b \in BdpType /\ b.aborted = a.aborted
      /\ IF a.lastSent = NoPkt THEN b.lastSent = pkt /\ b.marker = pkt
         ELSE /\ b.marker = a.marker
              /\ b.lastSent = IF seq > a.lastSent.seq THEN pkt ELSE a.lastSent
  <2>1. CASE a.lastSent = NoPkt
    <3>1. b = [a EXCEPT !.lastSent = pkt, !.marker = pkt]
      BY <1>2, <2>1
    <3>2. b \in BdpType /\ b.aborted = a.aborted /\ b.lastSent = pkt /\ b.marker = pkt
      BY <1>1, <3>1 DEF BdpType
    <3> QED
      BY <2>1, <3>2
  <2>2. CASE a.lastSent # NoPkt /\ seq > a.lastSent.seq
    <3>1. b = [a EXCEPT !.lastSent = pkt]
      BY <1>2, <2>2
    <3>2. b \in BdpType /\ b.aborted = a.aborted /\ b.lastSent = pkt /\ b.marker = a.marker
      BY <1>1, <3>1 DEF BdpType
    <3> QED
      BY <2>2, <3>2
  <2>3. CASE a.lastSent # NoPkt /\ ~(seq > a.lastSent.seq)
    BY <1>2, <2>3
  <2> QED
    BY <2>1, <2>2, <2>3
<1> QED
  BY <1>3 DEF b, pkt

-----------------------------------------------------------------------------
(* Any of them, at a time *)

AlgSound(a, time) ==
  \/ a \in ConstType \/ a \in AimdType
  \/ InstantInv(a) \/ OscInv(a, time) \/ a \in LinearType
  \/ a \in BdpType /\ a.aborted = FALSE
  \/ CopaInv(a) \/ Copa2Inv(a)

(* The kind tells which. *)
LEMMA KindTells ==
  ASSUME NEW a, NEW time, AlgSound(a, time)
  PROVE  /\ a.kind \in {"Const", "AIMD", "InstantCC", "OscInstantCC", "StableLinearCC",
                        "IncreaseBdpCC", "Copa", "Copa2"}
         /\ a.kind = "Const" <=> a \in ConstType
         /\ a.kind = "AIMD" <=> a \in AimdType
         /\ a.kind = "InstantCC" <=> InstantInv(a)
         /\ a.kind = "OscInstantCC" <=> OscInv(a, time)
         /\ a.kind = "StableLinearCC" <=> a \in LinearType
         /\ a.kind = "IncreaseBdpCC" <=> a \in BdpType /\ a.aborted = FALSE
         /\ a.kind = "Copa" <=> CopaInv(a)
         /\ a.kind = "Copa2" <=> Copa2Inv(a)
<1>1. /\ a \in ConstType => a.kind = "Const"
      /\ a \in AimdType => a.kind = "AIMD"
      /\ InstantInv(a) => a.kind = "InstantCC"
      /\ OscInv(a, time) => a.kind = "OscInstantCC"
      /\ a \in LinearType => a.kind = "StableLinearCC"
      /\ a \in BdpType => a.kind = "IncreaseBdpCC"
      /\ CopaInv(a) => a.kind = "Copa"
      /\ Copa2Inv(a) => a.kind = "Copa2"
  BY DEF ConstType, AimdType, InstantInv, InstantType, OscInv, OscBase, OscType, LinearType,
         BdpType, CopaInv, CopaType, Copa2Inv, Copa2Type
<1>2. \/ a \in ConstType \/ a \in AimdType
      \/ InstantInv(a) \/ OscInv(a, time) \/ a \in LinearType
      \/ a \in BdpType /\ a.aborted = FALSE
      \/ CopaInv(a) \/ Copa2Inv(a)
  BY DEF AlgSound
<1> QED
  BY <1>1, <1>2

(* Time may pass. *)
LEMMA SoundLater ==
  ASSUME NEW a, NEW time \in Nat, AlgSound(a, time), NEW later \in Nat, time <= later
  PROVE  AlgSound(a, later)
<1>1. OscInv(a, time) => OscInv(a, later)
  BY DEF OscInv, OscBase, OscType
<1> QED
  BY <1>1 DEF AlgSound

(* What makes an algorithm abort on an ack. *)
AbortDue(a, ack, b) ==
  \/ a.kind = "StableLinearCC"
  \/ a.kind = "Copa2" /\ (ack.uid \notin a.known \/ ack.lost > 0)
  \/ a.kind = "Copa" /\ \E s \in b.standing.samples : SlowSample(s)

(* on_ack of any algorithm keeps it sound.                                  *)
LEMMA OnAckKeeps ==
  ASSUME NEW a, NEW ack \in AcksTold, AlgSound(a, ack.now), ~a.aborted,
         a.kind = "IncreaseBdpCC" => AckSince(a, ack), NEW b \in OnAck(a, ack)
  PROVE  /\ AlgSound(b, ack.now) /\ b.kind = a.kind
         /\ b.aborted => AbortDue(a, ack, b)
         /\ a.kind = "Const" => b = a
         /\ a.kind = "IncreaseBdpCC" => /\ b.lastSent = a.lastSent
                                       /\ b.marker \in {a.marker, a.lastSent}
         /\ a.kind = "Copa2" /\ ~b.aborted => b.known = a.known \ {ack.uid}
<1>1. CASE a.kind = "Const"
  <2>1. b = a /\ AlgSound(b, ack.now)
    BY <1>1 DEF OnAck
  <2> QED
    BY <1>1, <2>1
<1>2. CASE a.kind = "AIMD"
  <2>1. a \in AimdType /\ b \in AimdOnAck(a, ack)
    BY <1>2, KindTells DEF OnAck
  <2>2. b \in AimdType
    BY <2>1, AimdKeeps
  <2>3. b.kind = "AIMD" /\ b.aborted = FALSE
    BY <2>2 DEF AimdType
  <2> QED
    BY <1>2, <2>2, <2>3 DEF AlgSound
<1>3. CASE a.kind = "InstantCC"
  <2>1. InstantInv(a) /\ b \in InstantOnAck(a, ack)
    BY <1>3, KindTells DEF OnAck
  <2>2. InstantInv(b)
    BY <2>1, InstantOnAckKeeps
  <2>3. b.kind = "InstantCC" /\ b.aborted = FALSE
    BY <2>2 DEF InstantInv, InstantType
  <2> QED
    BY <1>3, <2>2, <2>3 DEF AlgSound
<1>4. CASE a.kind = "OscInstantCC"
  <2>1. OscInv(a, ack.now) /\ b \in OscOnAck(a, ack)
    BY <1>4, KindTells DEF OnAck
  <2>2. OscInv(b, ack.now)
    BY <2>1, OscOnAckKeeps
  <2>3. b.kind = "OscInstantCC" /\ b.aborted = FALSE
    BY <2>2 DEF OscInv, OscBase, OscType
  <2> QED
    BY <1>4, <2>2, <2>3 DEF AlgSound
<1>5. CASE a.kind = "StableLinearCC"
  <2>1. a \in LinearType /\ b \in LinearOnAck(a, ack)
    BY <1>5, KindTells DEF OnAck
  <2>2. b \in LinearType
    BY <2>1, LinearKeeps
  <2>3. b.kind = "StableLinearCC"
    BY <2>2 DEF LinearType
  <2> QED
    BY <1>5, <2>2, <2>3 DEF AlgSound, AbortDue
<1>6. CASE a.kind = "IncreaseBdpCC"
  <2>1. a \in BdpType /\ a.aborted = FALSE /\ b \in BdpOnAck(a, ack)
    BY <1>6, KindTells DEF OnAck
  <2>2. /\ b \in BdpType /\ b.aborted = FALSE
        /\ b.lastSent = a.lastSent /\ b.marker \in {a.marker, a.lastSent}
    BY <1>6, <2>1, BdpOnAckKeeps
  <2>3. b.kind = "IncreaseBdpCC"
    BY <2>2 DEF BdpType
  <2> QED
    BY <1>6, <2>2, <2>3 DEF AlgSound
<1>7. CASE a.kind = "Copa"
  <2>1. CopaInv(a) /\ b \in CopaOnAck(a, ack)
    BY <1>7, KindTells DEF OnAck
  <2>2. CopaInv(b)
    BY <2>1, CopaOnAckKeeps
  <2>3. b.kind = "Copa" /\ (b.aborted => \E s \in b.standing.samples : SlowSample(s))
    BY <2>2 DEF CopaInv, CopaType
  <2> QED
    BY <1>7, <2>2, <2>3 DEF AlgSound, AbortDue
<1>8. CASE a.kind = "Copa2"
  <2>1. Copa2Inv(a) /\ b \in Copa2OnAck(a, ack)
    BY <1>8, KindTells DEF OnAck
  <2>2. /\ Copa2Inv(b) /\ (b.aborted => ack.uid \notin a.known \/ ack.lost > 0)
        /\ ~b.aborted => b.known = a.known \ {ack.uid}
    BY <2>1, Copa2OnAckKeeps
  <2>3. b.kind = "Copa2"
    BY <2>2 DEF Copa2Inv, Copa2Type
  <2> QED
    BY <1>8, <2>2, <2>3 DEF AlgSound, AbortDue
<1> QED
  BY <1>1, <1>2, <1>3, <1>4, <1>5, <1>6, <1>7, <1>8, KindTells

(* on_send of any algorithm keeps it sound.                                 *)
LEMMA OnSendKeeps ==
  ASSUME NEW a, NEW time \in Nat, AlgSound(a, time), ~a.aborted,
         NEW seq \in Nat, NEW uid \in Nat, NEW b \in OnSend(a, time, seq, uid)
  PROVE  /\ AlgSound(b, time) /\ b.kind = a.kind /\ ~b.aborted
         /\ a.kind = "Const" => b = a
         /\ a.kind = "IncreaseBdpCC" => b = BdpOnSend(a, time, seq)
         /\ a.kind = "Copa2" => b.known = a.known \cup {uid}
<1>1. CASE a.kind \in {"Const", "AIMD", "Copa"}
  <2>1. b = a
    BY <1>1 DEF OnSend
  <2> QED
    BY <1>1, <2>1
<1>2. CASE a.kind = "InstantCC"
  <2>1. InstantInv(a) /\ b = InstantOnSend(a, seq)
    BY <1>2, KindTells DEF OnSend
  <2>2. InstantInv(b)
    BY <2>1, InstantOnSendKeeps
  <2>3. b.kind = "InstantCC" /\ b.aborted = FALSE
    BY <2>2 DEF InstantInv, InstantType
  <2> QED
    BY <1>2, <2>2, <2>3 DEF AlgSound
<1>3. CASE a.kind = "OscInstantCC"
  <2>1. OscInv(a, time) /\ b \in OscOnSend(a, time)
    BY <1>3, KindTells DEF OnSend
  <2>2. OscInv(b, time)
    BY <2>1, OscOnSendKeeps
  <2>3. b.kind = "OscInstantCC" /\ b.aborted = FALSE
    BY <2>2 DEF OscInv, OscBase, OscType
  <2> QED
    BY <1>3, <2>2, <2>3 DEF AlgSound
<1>4. CASE a.kind = "StableLinearCC"
  <2>1. a \in LinearType /\ b = LinearOnSend(a, seq)
    BY <1>4, KindTells DEF OnSend
  <2>2. b \in LinearType
    BY <2>1, LinearKeeps
  <2>3. b.kind = "StableLinearCC" /\ b.aborted = a.aborted
    <3>1. b = [a EXCEPT !.hist = Append(@, [seq |-> seq, cwnd |-> LinearWindow(a)])]
      BY <2>1 DEF LinearOnSend
    <3> QED
      BY <2>1, <3>1 DEF LinearType
  <2> QED
    BY <1>4, <2>2, <2>3 DEF AlgSound
<1>5. CASE a.kind = "IncreaseBdpCC"
  <2>1. a \in BdpType /\ a.aborted = FALSE /\ b = BdpOnSend(a, time, seq)
    BY <1>5, KindTells DEF OnSend
  <2>2. b \in BdpType /\ b.aborted = FALSE
    BY <2>1, BdpOnSendKeeps
  <2>3. b.kind = "IncreaseBdpCC"
    BY <2>2 DEF BdpType
  <2> QED
    BY <1>5, <2>1, <2>2, <2>3 DEF AlgSound
<1>6. CASE a.kind = "Copa2"
  <2>1. Copa2Inv(a) /\ b = Copa2OnSend(a, uid)
    BY <1>6, KindTells DEF OnSend
  <2>2. Copa2Inv(b) /\ b.known = a.known \cup {uid} /\ b.aborted = a.aborted
    BY <2>1, Copa2OnSendKeeps
  <2>3. b.kind = "Copa2"
    BY <2>2 DEF Copa2Inv, Copa2Type
  <2> QED
    BY <1>6, <2>2, <2>3 DEF AlgSound
<1> QED
  BY <1>1, <1>2, <1>3, <1>4, <1>5, <1>6, KindTells

(* on_timeout of any algorithm keeps it sound.                              *)
LEMMA OnTimeoutKeeps ==
  ASSUME NEW a, NEW time \in Nat, AlgSound(a, time), ~a.aborted
  PROVE  LET b == OnTimeout(a)
         IN  /\ AlgSound(b, time) /\ b.kind = a.kind /\ ~b.aborted
             /\ a.kind \notin {"AIMD", "InstantCC", "Copa"} => b = a
<1> DEFINE b == OnTimeout(a)
<1>1. CASE a.kind = "AIMD"
  <2>1. a \in AimdType /\ b = AimdOnTimeout(a)
    BY <1>1, KindTells DEF OnTimeout
  <2> HIDE DEF b
  <2>2. b \in AimdType
    BY <2>1, AimdKeeps
  <2>3. AlgSound(b, time) /\ b.kind = "AIMD" /\ ~b.aborted
    BY <2>2 DEF AlgSound, AimdType
  <2> QED
    BY <1>1, <2>3 DEF b
<1>2. CASE a.kind = "InstantCC"
  <2>1. InstantInv(a) /\ b = InstantOnTimeout(a)
    BY <1>2, KindTells DEF OnTimeout
  <2> HIDE DEF b
  <2>2. InstantInv(b)
    BY <2>1, InstantOnTimeoutKeeps
  <2>3. AlgSound(b, time) /\ b.kind = "InstantCC" /\ ~b.aborted
    BY <2>2 DEF AlgSound, InstantInv, InstantType
  <2> QED
    BY <1>2, <2>3 DEF b
<1>3. CASE a.kind = "Copa"
  <2>1. CopaInv(a) /\ b = [a EXCEPT !.cwnd = 2]
    BY <1>3, KindTells DEF OnTimeout, CopaOnTimeout
  <2> HIDE DEF b
  <2>2. /\ b \in CopaType /\ b.aborted = a.aborted /\ b.base = a.base /\ b.standing = a.standing
        /\ b.kind = "Copa"
    BY <2>1 DEF CopaInv, CopaType
  <2>3. CopaInv(b)
    BY <2>1, <2>2 DEF CopaInv
  <2>4. AlgSound(b, time) /\ ~b.aborted
    BY <2>2, <2>3 DEF AlgSound
  <2> QED
    BY <1>3, <2>2, <2>4 DEF b
<1>4. CASE a.kind \notin {"AIMD", "InstantCC", "Copa"}
  <2>1. b = a
    BY <1>4 DEF OnTimeout
  <2> QED
    BY <2>1
<1> QED
  BY <1>1, <1>2, <1>3, <1>4

(* Every window answered has room for a packet, but a constant one of 0 and *)
(* that of OscInstantCC once its least RTT is 0.                            *)
LEMMA WindowsOpen ==
  ASSUME NEW a, NEW time \in Nat, AlgSound(a, time)
  PROVE  /\ GetCwnd(a) \in Nat
         /\ \/ GetCwnd(a) >= 1
            \/ a.kind = "OscInstantCC" /\ a.rttMin = 0
            \/ a.kind = "Const" /\ a.cwnd = 0
<1>1. CASE a.kind = "Const"
  <2>1. GetCwnd(a) = a.cwnd /\ a \in ConstType
    BY <1>1, KindTells DEF GetCwnd
  <2> QED
    BY <1>1, <2>1 DEF ConstType
<1>2. CASE a.kind = "AIMD"
  <2>1. GetCwnd(a) = a.cwnd /\ a \in AimdType
    BY <1>2, KindTells DEF GetCwnd
  <2> QED
    BY <2>1 DEF AimdType
<1>3. CASE a.kind = "InstantCC"
  <2>1. GetCwnd(a) = a.cwnd /\ a \in InstantType
    BY <1>3, KindTells DEF GetCwnd, InstantInv
  <2> QED
    BY <2>1 DEF InstantType
<1>4. CASE a.kind = "OscInstantCC"
  <2>1. GetCwnd(a) = a.swung /\ OscInv(a, time)
    BY <1>4, KindTells DEF GetCwnd
  <2> QED
    BY <1>4, <2>1 DEF OscInv, OscBase, OscType
<1>5. CASE a.kind = "StableLinearCC"
  <2>1. GetCwnd(a) = LinearWindow(a) /\ a \in LinearType
    BY <1>5, KindTells DEF GetCwnd
  <2> QED
    BY <2>1, LinearKeeps
<1>6. CASE a.kind = "IncreaseBdpCC"
  <2>1. GetCwnd(a) = BdpWindow(a) /\ a \in BdpType
    BY <1>6, KindTells DEF GetCwnd
  <2> QED
    BY <2>1 DEF BdpType, BdpWindow, Larger
<1>7. CASE a.kind = "Copa"
  <2>1. GetCwnd(a) = a.cwnd /\ a \in CopaType
    BY <1>7, KindTells DEF GetCwnd, CopaInv
  <2> QED
    BY <2>1 DEF CopaType
<1>8. CASE a.kind = "Copa2"
  <2>1. GetCwnd(a) = a.cwnd /\ a \in Copa2Type
    BY <1>8, KindTells DEF GetCwnd, Copa2Inv
  <2> QED
    BY <2>1 DEF Copa2Type
<1> QED
  BY <1>1, <1>2, <1>3, <1>4, <1>5, <1>6, <1>7, <1>8, KindTells

-----------------------------------------------------------------------------
WireInOrder ==
  \A i, j \in DOMAIN wire : i <= j => wire[i].sentTime <= wire[j].sentTime

UidsMatch ==
  /\ lastUid \in Nat /\ wireUids \in Seq(Nat \ {0}) /\ ackUids \in Seq(Nat \ {0})
  /\ Len(wireUids) = Len(wire) /\ Len(ackUids) = Len(ackPath)
  /\ \A i \in DOMAIN wireUids : wireUids[i] <= lastUid
  /\ \A i \in DOMAIN ackUids : ackUids[i] <= lastUid

(* No two packets or acks on the paths carry the same uid. *)
UidsApart ==
  /\ \A i, j \in DOMAIN wireUids : wireUids[i] = wireUids[j] => i = j
  /\ \A i, j \in DOMAIN ackUids : ackUids[i] = ackUids[j] => i = j
  /\ \A i \in DOMAIN wireUids, j \in DOMAIN ackUids : wireUids[i] # ackUids[j]

Carried ==
  {wireUids[i] : i \in DOMAIN wireUids} \cup {ackUids[i] : i \in DOMAIN ackUids}

UidsKnown == alg.kind = "Copa2" /\ ~alg.aborted => Carried \subseteq alg.known

(* Of a packet first sent at m.at: no copy of it, and no ack that covers it, *)
(* is of a packet sent before.                                              *)
MarkHolds(m) ==
  /\ m.at <= now /\ m.seq < nextPkt
  /\ \A i \in DOMAIN wire :
       wire[i].seq = m.seq \/ m.seq \in KnownReceived(acker) => wire[i].sentTime >= m.at
  /\ \A i \in DOMAIN ackPath :
       m.seq \in AckedBy(ackPath[i]) => ackPath[i].sentTime >= m.at

MarksInOrder ==
  alg.kind = "IncreaseBdpCC" =>
    IF nextPkt = 0 THEN alg.lastSent = NoPkt
    ELSE /\ alg.lastSent # NoPkt /\ alg.lastSent.seq = nextPkt - 1 /\ alg.marker # NoPkt
         /\ MarkHolds(alg.lastSent) /\ MarkHolds(alg.marker)

ConstAsConfigured == alg.kind = "Const" => alg \in {NewConst(config) : config \in
                       {c \in CcConfigs : c.kind = "Const"}}

(* The first conjunct of AbortsExplained; UidsKnown is the second.           *)
AbortsReasoned ==
  alg.aborted =>
    \/ alg.kind = "StableLinearCC"
    \/ alg.kind = "Copa2" /\ losses > 0
    \/ alg.kind = "Copa" /\ \E s \in alg.standing.samples : SlowSample(s)

(* A set of packets that starts with the first one and has no gap. *)
NoGap(S) == \A p \in S : Window(0, p) \subseteq S

(* While nothing is dropped, every packet sent has arrived or is on the     *)
(* wire, none arrives before all that come before it, and no ack has a gap. *)
NothingMissing ==
  losses = 0 =>
    /\ \A q \in Window(0, nextPkt) : q \in KnownReceived(acker) \/ Flies(wire, q)
    /\ \A i \in DOMAIN wire : \A q \in Window(0, wire[i].seq) :
         q \in KnownReceived(acker) \/ \E j \in 1..(i - 1) : wire[j].seq = q
    /\ NoGap(KnownReceived(acker))
    /\ \A i \in DOMAIN ackPath : NoGap(AckedBy(ackPath[i]))

CallsSound ==
  /\ UidsMatch /\ UidsApart /\ UidsKnown
  /\ AlgSound(alg, now) /\ cc \in Answers(alg) /\ ConstAsConfigured
  /\ MarksInOrder
  /\ AbortsReasoned

CcInv == FlowInv /\ now <= Till /\ WireInOrder /\ NothingMissing /\ CallsSound

-----------------------------------------------------------------------------
(* The algorithms only choose among the answers TcpFlow allows. *)
LEMMA CcStepIsFlowStep == [CcNext]_ccVars => [FlowNext]_flowVars
<1> SUFFICES ASSUME [CcNext]_ccVars PROVE [FlowNext]_flowVars
  OBVIOUS
<1>1. CASE Running /\ CcSend
  <2>1. PICK e \in Transmits : Retransmit(e) \/ TransmitFresh(e)
    BY <1>1 DEF CcSend
  <2>2. e \in pending /\ HandleEvent(e)
    BY <2>1 DEF Transmits, HandleEvent
  <2> QED
    BY <1>1, <2>2 DEF Running, CcSend, RunEvent, FlowNext
<1>2. CASE Running /\ CcTimeout
  <2>1. PICK e \in pending : TimeoutFires(e)
    BY <1>2 DEF CcTimeout
  <2>2. HandleEvent(e)
    BY <2>1 DEF HandleEvent
  <2> QED
    BY <1>2, <2>2 DEF Running, CcTimeout, RunEvent, FlowNext
<1>3. CASE Running /\ CcEventOver
  <2>1. PICK e \in pending : EventAfterEnd(e) \/ TimeoutStale(e)
    BY <1>3 DEF CcEventOver
  <2>2. HandleEvent(e)
    BY <2>1 DEF HandleEvent
  <2> QED
    BY <1>3, <2>2 DEF Running, CcEventOver, RunEvent, FlowNext
<1>4. CASE CcReturn
  BY <1>4 DEF CcReturn, CcPush, CcPushOver, FlowNext
<1>5. CASE CcArrive
  BY <1>5 DEF CcArrive, CcDeliver, FlowNext
<1>6. CASE CcPass
  BY <1>6 DEF CcPass, CcTick, FlowNext
<1>7. CASE Running /\ CcLose
  BY <1>7 DEF CcLose, FlowNext
<1>8. CASE UNCHANGED ccVars
  BY <1>8 DEF ccVars
<1> QED
  BY <1>1, <1>2, <1>3, <1>4, <1>5, <1>6, <1>7, <1>8 DEF CcNext, CcRunEvent

(* What a transmission does to the wire. *)
LEMMA SendDoes ==
  ASSUME FlowInv, NEW e, Retransmit(e) \/ TransmitFresh(e)
  PROVE  /\ NextSeq \in Nat /\ now' = now
         /\ wire' = Append(wire, [seq |-> NextSeq, sentTime |-> now])
         /\ \/ NextSeq < nextPkt /\ nextPkt' = nextPkt
            \/ NextSeq = nextPkt /\ nextPkt' = nextPkt + 1
<1>1. TrackerSound(trackRx) /\ trackRx.right = nextPkt /\ nextPkt \in Nat /\ trackRx.lost \in Nat
  BY FlowFacts DEF TrackerSound, TrackerType
<1>2. CASE Retransmit(e)
  <2>1. /\ trackRx.lost > 0 /\ nextPkt' = nextPkt /\ now' = now
        /\ wire' = Append(wire, [seq |-> FirstLost(trackRx), sentTime |-> now])
    BY <1>2 DEF Retransmit, Send
  <2>2. FirstLost(trackRx) \in LostIn(trackRx)
    BY <1>1, <2>1, FirstLostFound
  <2>3. FirstLost(trackRx) \in Nat /\ FirstLost(trackRx) < nextPkt
    BY <1>1, <2>2 DEF TrackerSound, TrackerType, LostIn, Window
  <2> QED
    BY <2>1, <2>3 DEF NextSeq
<1>3. CASE TransmitFresh(e)
  <2>1. /\ trackRx.lost = 0 /\ nextPkt' = nextPkt + 1 /\ now' = now
        /\ wire' = Append(wire, [seq |-> nextPkt, sentTime |-> now])
    BY <1>3 DEF TransmitFresh, Send
  <2> QED
    BY <1>1, <2>1 DEF NextSeq
<1> QED
  BY <1>2, <1>3

(* What a step of the flow does to its two paths. *)
Sends ==
  /\ \E seq \in Nat : /\ wire' = Append(wire, [seq |-> seq, sentTime |-> now])
                     /\ \/ seq < nextPkt /\ nextPkt' = nextPkt
                        \/ seq = nextPkt /\ nextPkt' = nextPkt + 1
  /\ nextPkt' >= nextPkt /\ UNCHANGED <<now, acker, ackPath, losses>>

Delivers ==
  /\ wire # <<>> /\ wire' = Without(wire, 1)
  /\ acker' = MarkPkt(acker, Head(wire).seq, Received)
  /\ ackPath' = Append(ackPath, AckOf(acker', Head(wire)))
  /\ UNCHANGED <<now, nextPkt, losses>>

Loses ==
  /\ \E i \in DOMAIN wire : wire' = Without(wire, i)
  /\ losses' = losses + 1 /\ UNCHANGED <<now, nextPkt, acker, ackPath>>

Returns ==
  /\ ackPath # <<>> /\ ackPath' = Tail(ackPath)
  /\ UNCHANGED <<now, nextPkt, wire, acker, losses>>

Waits ==
  /\ \/ now' = now
     \/ now < Till /\ now' = now + 1
  /\ UNCHANGED <<nextPkt, wire, acker, ackPath, losses>>

(* How each action changes the paths: a packet is added at the end of the   *)
(* wire or taken off it, an ack added at the end of its path or taken off.  *)
LEMMA StepShapes ==
  ASSUME FlowInv, [FlowNext]_flowVars
  PROVE  Sends \/ Delivers \/ Loses \/ Returns \/ Waits
<1>1. wire \in Seq(PacketsOnWire) /\ nextPkt \in Nat
  BY FlowFacts
<1>2. CASE Deliver
  BY <1>1, <1>2 DEF Deliver, NetworkTakes, Delivers
<1>3. CASE Lose
  BY <1>3 DEF Lose, NetworkTakes, Loses
<1>4. CASE ReturnAck
  BY <1>4 DEF ReturnAck, HandleAck, IgnoreAck, PushAck, AckPanics, senderVars, Returns
<1>5. CASE RunEvent
  <2>1. PICK e \in pending : HandleEvent(e)
    BY <1>5 DEF RunEvent
  <2>2. UNCHANGED <<acker, ackPath, losses>>
    BY <1>5 DEF RunEvent
  <2>3. CASE Retransmit(e) \/ TransmitFresh(e)
    <3>1. /\ NextSeq \in Nat /\ now' = now
          /\ wire' = Append(wire, [seq |-> NextSeq, sentTime |-> now])
          /\ nextPkt' >= nextPkt
          /\ \/ NextSeq < nextPkt /\ nextPkt' = nextPkt
             \/ NextSeq = nextPkt /\ nextPkt' = nextPkt + 1
      BY <1>1, <2>3, SendDoes
    <3> QED
      BY <2>2, <3>1 DEF Sends
  <2>4. CASE EventAfterEnd(e) \/ TimeoutStale(e)
    BY <2>2, <2>4 DEF EventAfterEnd, TimeoutStale, Waits
  <2>5. CASE TimeoutFires(e)
    BY <2>2, <2>5 DEF TimeoutFires, Waits
  <2> QED
    BY <2>1, <2>3, <2>4, <2>5 DEF HandleEvent
<1>6. CASE Tick
  BY <1>6 DEF Tick, AdvanceTime, Waits
<1>7. CASE UNCHANGED flowVars
  BY <1>7 DEF flowVars, senderVars, Waits
<1> QED
  BY <1>2, <1>3, <1>4, <1>5, <1>6, <1>7 DEF FlowNext

(* An element of what is left of the wire, and its place before. *)
LEMMA PlaceBefore ==
  ASSUME wire \in Seq(PacketsOnWire), NEW i \in DOMAIN wire, wire' = Without(wire, i),
         NEW j \in DOMAIN wire'
  PROVE  LET k == IF j < i THEN j ELSE j + 1
         IN  k \in DOMAIN wire /\ wire'[j] = wire[k]
<1>1. /\ DOMAIN wire' = 1..(Len(wire) - 1)
      /\ \A k \in 1..(Len(wire) - 1) : wire'[k] = wire[IF k < i THEN k ELSE k + 1]
  BY WithoutKeeps
<1>2. DOMAIN wire = 1..Len(wire) /\ Len(wire) \in Nat
  BY LenProperties
<1> QED
  BY <1>1, <1>2

(* An element of the wire after a transmission: the packet just sent, or    *)
(* one that was there.                                                      *)
LEMMA WireAfterSend ==
  ASSUME wire \in Seq(PacketsOnWire), NEW pkt \in PacketsOnWire, wire' = Append(wire, pkt),
         NEW j \in DOMAIN wire'
  PROVE  \/ j \in DOMAIN wire /\ wire'[j] = wire[j]
         \/ j = Len(wire) + 1 /\ wire'[j] = pkt
<1>1. /\ DOMAIN wire' = 1..(Len(wire) + 1) /\ Len(wire) \in Nat /\ DOMAIN wire = 1..Len(wire)
      /\ wire'[Len(wire) + 1] = pkt /\ \A k \in 1..Len(wire) : wire'[k] = wire[k]
  BY AppendProperties, LenProperties
<1> QED
  BY <1>1

(* Packets stay on the wire in the order of sending.                        *)
LEMMA OrderKept ==
  ASSUME FlowInv, WireInOrder, now <= Till, [FlowNext]_flowVars
  PROVE  WireInOrder' /\ now' <= Till
<1>1. /\ wire \in Seq(PacketsOnWire) /\ now \in Nat
      /\ \A i \in DOMAIN wire : wire[i].sentTime <= now
  BY FlowFacts DEF FlowInv, WireSent
<1>2. Till \in Nat /\ DOMAIN wire = 1..Len(wire) /\ Len(wire) \in Nat
  BY <1>1, SenderAssumption, LenProperties
<1>3. CASE Sends
  <2>1. PICK seq \in Nat : wire' = Append(wire, [seq |-> seq, sentTime |-> now])
    BY <1>3 DEF Sends
  <2> DEFINE pkt == [seq |-> seq, sentTime |-> now]
  <2>2. pkt \in PacketsOnWire /\ pkt.sentTime = now
    BY <1>1 DEF PacketsOnWire
  <2> HIDE DEF pkt
  <2>3. wire' = Append(wire, pkt)
    BY <2>1 DEF pkt
  <2>4. ASSUME NEW i \in DOMAIN wire', NEW j \in DOMAIN wire', i <= j
        PROVE  wire'[i].sentTime <= wire'[j].sentTime
    <3>1. \/ i \in DOMAIN wire /\ wire'[i] = wire[i]
          \/ i = Len(wire) + 1 /\ wire'[i] = pkt
      BY <1>1, <2>2, <2>3, WireAfterSend
    <3>2. \/ j \in DOMAIN wire /\ wire'[j] = wire[j]
          \/ j = Len(wire) + 1 /\ wire'[j] = pkt
      BY <1>1, <2>2, <2>3, WireAfterSend
    <3> QED
      BY <1>1, <1>2, <2>2, <2>4, <3>1, <3>2 DEF WireInOrder
  <2> QED
    BY <1>3, <2>4 DEF WireInOrder, Sends
<1>4. ASSUME NEW i \in DOMAIN wire, wire' = Without(wire, i)
      PROVE  WireInOrder'
  <2>1. ASSUME NEW j \in DOMAIN wire', NEW k \in DOMAIN wire', j <= k
        PROVE  wire'[j].sentTime <= wire'[k].sentTime
    <3>1. DOMAIN wire' = 1..(Len(wire) - 1)
      BY <1>1, <1>4, WithoutKeeps
    <3> DEFINE was(n) == IF n < i THEN n ELSE n + 1
    <3>2. was(j) \in DOMAIN wire /\ wire'[j] = wire[was(j)]
      BY <1>1, <1>4, PlaceBefore
    <3>3. was(k) \in DOMAIN wire /\ wire'[k] = wire[was(k)]
      BY <1>1, <1>4, PlaceBefore
    <3>4. was(j) <= was(k)
      BY <1>2, <2>1, <3>1
    <3> HIDE DEF was
    <3> QED
      BY <3>2, <3>3, <3>4 DEF WireInOrder
  <2> QED
    BY <2>1 DEF WireInOrder
<1>5. CASE Delivers
  <2>1. 1 \in DOMAIN wire
    BY <1>1, <1>5 DEF Delivers
  <2> QED
    BY <1>4, <1>5, <2>1 DEF Delivers
<1>6. CASE Loses
  BY <1>4, <1>6 DEF Loses
<1>7. CASE Returns \/ Waits
  BY <1>1, <1>2, <1>7 DEF Returns, Waits, WireInOrder
<1> QED
  BY <1>3, <1>5, <1>6, <1>7, StepShapes

-----------------------------------------------------------------------------
(* A path that drops nothing *)

(* The ack of an acker without gaps has none: it has no SACK block. *)
LEMMA AckHasNoGap ==
  ASSUME NEW t, TrackerSound(t), NoGap(KnownReceived(t)), NEW pkt
  PROVE  NoGap(AckedBy(AckOf(t, pkt)))
<1>1. t.left \in Nat /\ t.left \notin KnownReceived(t)
  BY KnownBounds
<1>2. ASSUME NEW p \in ReceivedIn(t)
      PROVE  FALSE
  <2>1. p \in KnownReceived(t) /\ p \in Nat /\ t.left <= p
    BY <1>1, <1>2 DEF KnownReceived, ReceivedIn, Window, TrackerSound, TrackerType
  <2>2. p = t.left \/ t.left \in Window(0, p)
    BY <1>1, <2>1 DEF Window
  <2> QED
    BY <1>1, <2>1, <2>2 DEF NoGap
<1>3. Sacked(GenerateSack(t, MaxSack)) = {}
  BY <1>2, SackedReceived
<1> HIDE DEF Sacked
<1>4. AckedBy(AckOf(t, pkt)) = Window(0, t.left)
  BY <1>3 DEF AckedBy, AckOf, ReceivedTill
<1> QED
  BY <1>1, <1>4 DEF NoGap, Window

(* As long as nothing is dropped, nothing goes missing. *)
LEMMA StillNothingMissing ==
  ASSUME FlowInv, NothingMissing, [FlowNext]_flowVars
  PROVE  NothingMissing'
<1>1. /\ wire \in Seq(PacketsOnWire) /\ ackPath \in Seq(AckType) /\ nextPkt \in Nat
      /\ TrackerSound(acker) /\ losses \in Nat
  BY FlowFacts, FlowAssumption DEF FlowInv, PathTrue
<1>2. DOMAIN wire = 1..Len(wire) /\ Len(wire) \in Nat
  BY <1>1, LenProperties
<1>3. CASE Loses
  BY <1>1, <1>3 DEF Loses, NothingMissing
<1>4. CASE Waits
  BY <1>4 DEF Waits, NothingMissing, Flies
<1>5. CASE Returns
  <2>1. ASSUME NEW i \in DOMAIN ackPath'
        PROVE  i + 1 \in DOMAIN ackPath /\ ackPath'[i] = ackPath[i + 1]
    BY <1>1, <1>5, <2>1, HeadTailProperties, LenProperties DEF Returns
  <2> QED
    BY <1>5, <2>1 DEF Returns, NothingMissing, Flies
<1>6. CASE Sends
  <2>1. PICK seq \in Nat : /\ wire' = Append(wire, [seq |-> seq, sentTime |-> now])
                           /\ \/ seq < nextPkt /\ nextPkt' = nextPkt
                              \/ seq = nextPkt /\ nextPkt' = nextPkt + 1
    BY <1>6 DEF Sends
  <2>2. UNCHANGED <<acker, ackPath, losses>>
    BY <1>6 DEF Sends
  <2> SUFFICES ASSUME losses = 0 PROVE NothingMissing'
    BY <2>2 DEF NothingMissing
  <2>3. /\ DOMAIN wire' = 1..(Len(wire) + 1) /\ wire'[Len(wire) + 1].seq = seq
        /\ \A k \in 1..Len(wire) : wire'[k] = wire[k]
    BY <1>2, <2>1, AppendProperties
  <2>4. \A q : Flies(wire, q) \/ q = seq => Flies(wire', q)
    BY <1>2, <2>3 DEF Flies
  <2>5. \A q \in Window(0, nextPkt') : q \in KnownReceived(acker) \/ Flies(wire', q)
    BY <1>1, <2>1, <2>4 DEF NothingMissing, Window
  <2>6. ASSUME NEW i \in DOMAIN wire', NEW q \in Window(0, wire'[i].seq), q \notin KnownReceived(acker)
        PROVE  \E j \in 1..(i - 1) : wire'[j].seq = q
    <3>1. CASE i \in 1..Len(wire)
      <4>1. PICK j \in 1..(i - 1) : wire[j].seq = q
        BY <1>2, <2>3, <2>6, <3>1 DEF NothingMissing
      <4> QED
        BY <1>2, <2>3, <3>1, <4>1
    <3>2. CASE i = Len(wire) + 1
      <4>1. q \in Window(0, nextPkt)
        BY <1>1, <2>1, <2>3, <2>6, <3>2 DEF Window
      <4>2. PICK j \in 1..Len(wire) : wire[j].seq = q
        BY <1>2, <2>6, <4>1 DEF NothingMissing, Flies
      <4> QED
        BY <1>2, <2>3, <3>2, <4>2
    <3> QED
      BY <1>2, <2>3, <3>1, <3>2
  <2> QED
    BY <2>2, <2>5, <2>6 DEF NothingMissing
<1>7. CASE Delivers
  <2> SUFFICES ASSUME losses = 0 PROVE NothingMissing'
    BY <1>7 DEF NothingMissing, Delivers
  <2> DEFINE q1  == wire[1].seq
             ack == AckOf(acker', Head(wire))
  <2>1. /\ 1 \in DOMAIN wire /\ wire' = Without(wire, 1) /\ Head(wire) = wire[1]
        /\ acker' = MarkPkt(acker, q1, Received) /\ ackPath' = Append(ackPath, ack)
        /\ nextPkt' = nextPkt
    BY <1>1, <1>2, <1>7 DEF Delivers
  <2>2. Head(wire) \in PacketsOnWire /\ q1 \in Nat
    <3>1. wire[1] \in PacketsOnWire
      BY <1>1, <1>2, <2>1, ElementOfSeq
    <3>2. wire[1].seq \in Nat
      BY <3>1 DEF PacketsOnWire
    <3> QED
      BY <2>1, <3>1, <3>2
  <2> HIDE DEF q1
  <2>3. TrackerSound(acker') /\ KnownReceived(acker') = KnownReceived(acker) \cup {q1}
    <3>1. TrackerSound(acker')
      BY <1>1, <2>1, <2>2, MarkPktSound, StatusesDistinct
    <3>2. KnownReceived(acker') = KnownReceived(acker) \cup {q1}
      BY <1>1, <2>1, <2>2, MarkPktKnown, StatusesDistinct
    <3> QED
      BY <3>1, <3>2
  <2>4. \A q \in Window(0, q1) : q \in KnownReceived(acker)
    BY <2>1 DEF NothingMissing, q1
  <2>5. NoGap(KnownReceived(acker'))
    BY <2>3, <2>4 DEF NothingMissing, NoGap
  <2>6. /\ NoGap(AckedBy(ack)) /\ ack \in AckType
    BY <2>2, <2>3, <2>5, AckHasNoGap, AckOfTrue
  <2> HIDE DEF ack
  <2>7. \A i \in DOMAIN ackPath' : NoGap(AckedBy(ackPath'[i]))
    <3>1. \A i \in DOMAIN ackPath' :
            ackPath'[i] = ack \/ (i \in DOMAIN ackPath /\ ackPath'[i] = ackPath[i])
      BY <1>1, <2>1, <2>6, AppendProperties, LenProperties
    <3> QED
      BY <2>6, <3>1 DEF NothingMissing
  <2>8. /\ DOMAIN wire' = 1..(Len(wire) - 1)
        /\ \A k \in 1..(Len(wire) - 1) : wire'[k] = wire[k + 1]
    <3>1. /\ DOMAIN wire' = 1..(Len(wire) - 1)
          /\ \A k \in 1..(Len(wire) - 1) : wire'[k] = wire[IF k < 1 THEN k ELSE k + 1]
      BY <1>1, <2>1, WithoutKeeps
    <3> QED
      BY <1>2, <3>1
  <2>9. ASSUME NEW q \in Window(0, nextPkt), q \notin KnownReceived(acker')
        PROVE  Flies(wire', q)
    <3>1. PICK j \in 1..Len(wire) : wire[j].seq = q /\ j # 1
      BY <1>2, <2>3, <2>9 DEF NothingMissing, Flies, q1
    <3>2. j - 1 \in DOMAIN wire' /\ wire'[j - 1] = wire[j]
      BY <1>2, <2>8, <3>1
    <3> QED
      BY <3>1, <3>2 DEF Flies
  <2>10. ASSUME NEW i \in DOMAIN wire', NEW q \in Window(0, wire'[i].seq), q \notin KnownReceived(acker')
         PROVE  \E j \in 1..(i - 1) : wire'[j].seq = q
    <3>1. i + 1 \in DOMAIN wire /\ wire'[i] = wire[i + 1] /\ i \in 1..(Len(wire) - 1)
      BY <1>2, <2>8
    <3>2. PICK j \in 1..((i + 1) - 1) : wire[j].seq = q
      BY <2>3, <2>10, <3>1 DEF NothingMissing
    <3>3. j # 1
      BY <2>3, <2>10, <3>2 DEF q1
    <3>4. j - 1 \in 1..(i - 1) /\ wire'[j - 1] = wire[j]
      BY <1>2, <2>8, <3>1, <3>2, <3>3
    <3> QED
      BY <3>2, <3>4
  <2> QED
    BY <2>1, <2>5, <2>7, <2>9, <2>10 DEF NothingMissing
<1> QED
  BY <1>3, <1>4, <1>5, <1>6, <1>7, StepShapes

-----------------------------------------------------------------------------
(* IncreaseBdpCC *)

(* What holds of a marked packet goes on holding while it is on its way.    *)
LEMMA MarkKept ==
  ASSUME FlowInv, WireInOrder, [FlowNext]_flowVars,
         NEW m \in [seq : Nat, at : Nat], MarkHolds(m)
  PROVE  MarkHolds(m)'
<1>1. /\ wire \in Seq(PacketsOnWire) /\ now \in Nat /\ nextPkt \in Nat
      /\ TrackerSound(acker) /\ ackPath \in Seq(AckType)
  BY FlowFacts DEF FlowInv, PathTrue
<1>2. m.seq \in Nat /\ m.at \in Nat
  OBVIOUS
<1>3. /\ m.at <= now /\ m.seq < nextPkt
      /\ \A i \in DOMAIN wire :
           wire[i].seq = m.seq \/ m.seq \in KnownReceived(acker) => wire[i].sentTime >= m.at
      /\ \A i \in DOMAIN ackPath :
           m.seq \in AckedBy(ackPath[i]) => ackPath[i].sentTime >= m.at
  BY DEF MarkHolds
<1>4. CASE Sends
  <2>1. PICK seq \in Nat : wire' = Append(wire, [seq |-> seq, sentTime |-> now])
    BY <1>4 DEF Sends
  <2> DEFINE pkt == [seq |-> seq, sentTime |-> now]
  <2>2. pkt \in PacketsOnWire /\ pkt.sentTime = now
    BY <1>1 DEF PacketsOnWire
  <2> HIDE DEF pkt
  <2>3. nextPkt' >= nextPkt /\ UNCHANGED <<now, acker, ackPath>> /\ wire' = Append(wire, pkt)
    BY <1>4, <2>1 DEF Sends, pkt
  <2>4. nextPkt' \in Nat
    BY <1>1, FlowStepIsSenderStep, StepPreserves DEF FlowInv, SenderInv, TypeOK
  <2>5. ASSUME NEW j \in DOMAIN wire', wire'[j].seq = m.seq \/ m.seq \in KnownReceived(acker)
        PROVE  wire'[j].sentTime >= m.at
    <3>1. \/ j \in DOMAIN wire /\ wire'[j] = wire[j]
          \/ j = Len(wire) + 1 /\ wire'[j] = pkt
      BY <1>1, <2>2, <2>3, WireAfterSend
    <3> QED
      BY <1>2, <1>3, <1>1, <2>2, <2>5, <3>1
  <2> QED
    BY <1>1, <1>2, <1>3, <2>3, <2>4, <2>5 DEF MarkHolds, AckedBy
<1>5. CASE Delivers
  <2> DEFINE pkt == Head(wire)
             ack == AckOf(acker', pkt)
             n   == Len(ackPath)
  <2>1. /\ 1 \in DOMAIN wire /\ pkt = wire[1] /\ pkt \in PacketsOnWire
        /\ pkt.seq \in Nat /\ pkt.sentTime \in Nat
    <3>1. 1 \in DOMAIN wire /\ pkt = wire[1]
      BY <1>1, <1>5 DEF Delivers
    <3>2. pkt \in PacketsOnWire
      BY <1>1, <3>1
    <3> QED
      BY <3>1, <3>2 DEF PacketsOnWire
  <2>2. /\ wire' = Without(wire, 1) /\ acker' = MarkPkt(acker, pkt.seq, Received)
        /\ ackPath' = Append(ackPath, ack) /\ UNCHANGED <<now, nextPkt>>
    BY <1>5 DEF Delivers
  <2>3. TrackerSound(acker') /\ KnownReceived(acker') = KnownReceived(acker) \cup {pkt.seq}
    <3>1. /\ TrackerSound(acker')
          /\ acker'.right = IF pkt.seq < acker.right THEN acker.right ELSE pkt.seq + 1
      BY <1>1, <2>1, <2>2, MarkPktSound, StatusesDistinct
    <3>2. KnownReceived(acker') = KnownReceived(acker) \cup {pkt.seq}
      BY <1>1, <2>1, <2>2, MarkPktKnown, StatusesDistinct
    <3> QED
      BY <3>1, <3>2
  <2>4. ack \in AckType /\ ack.sentTime = pkt.sentTime /\ AckedBy(ack) \subseteq KnownReceived(acker')
    BY <2>1, <2>3, AckOfTrue
  <2> HIDE DEF pkt, ack
  <2>5. m.seq \in KnownReceived(acker') => pkt.sentTime >= m.at
    BY <1>3, <2>1, <2>3
  <2>6. /\ n \in Nat /\ DOMAIN ackPath' = 1..(n + 1) /\ ackPath'[n + 1] = ack
        /\ \A i \in 1..n : ackPath'[i] = ackPath[i] /\ i \in DOMAIN ackPath
    BY <1>1, <2>2, <2>4, AppendProperties, LenProperties
  <2>7. ASSUME NEW j \in DOMAIN wire', wire'[j].seq = m.seq \/ m.seq \in KnownReceived(acker')
        PROVE  wire'[j].sentTime >= m.at
    <3> DEFINE k == IF j < 1 THEN j ELSE j + 1
    <3>1. k \in DOMAIN wire /\ wire'[j] = wire[k]
      BY <1>1, <2>1, <2>2, PlaceBefore
    <3> HIDE DEF k
    <3>2. wire[k] \in PacketsOnWire /\ 1 <= k
      BY <1>1, <3>1, LenProperties
    <3>3. wire[1].sentTime <= wire[k].sentTime /\ wire[k].sentTime \in Nat
      BY <2>1, <3>1, <3>2 DEF WireInOrder, PacketsOnWire
    <3> QED
      BY <1>2, <1>3, <2>1, <2>5, <2>7, <3>1, <3>3
  <2>8. ASSUME NEW i \in DOMAIN ackPath', m.seq \in AckedBy(ackPath'[i])
        PROVE  ackPath'[i].sentTime >= m.at
    BY <1>3, <2>4, <2>5, <2>6, <2>8
  <2> QED
    BY <1>3, <2>2, <2>7, <2>8 DEF MarkHolds, AckedBy
<1>6. CASE Loses
  <2>1. PICK i \in DOMAIN wire : wire' = Without(wire, i)
    BY <1>6 DEF Loses
  <2>2. ASSUME NEW j \in DOMAIN wire', wire'[j].seq = m.seq \/ m.seq \in KnownReceived(acker)
        PROVE  wire'[j].sentTime >= m.at
    <3> DEFINE k == IF j < i THEN j ELSE j + 1
    <3>1. k \in DOMAIN wire /\ wire'[j] = wire[k]
      BY <1>1, <2>1, PlaceBefore
    <3> HIDE DEF k
    <3> QED
      BY <1>3, <2>2, <3>1
  <2> QED
    BY <1>3, <1>6, <2>2 DEF MarkHolds, AckedBy, Loses
<1>7. CASE Returns
  <2>1. /\ ackPath # <<>> /\ ackPath' = Tail(ackPath) /\ UNCHANGED <<now, nextPkt, wire, acker>>
    BY <1>7 DEF Returns
  <2>2. /\ DOMAIN ackPath' = 1..(Len(ackPath) - 1) /\ DOMAIN ackPath = 1..Len(ackPath)
        /\ Len(ackPath) \in Nat /\ \A i \in 1..(Len(ackPath) - 1) : ackPath'[i] = ackPath[i + 1]
    BY <1>1, <2>1, HeadTailProperties, LenProperties
  <2>3. ASSUME NEW i \in DOMAIN ackPath', m.seq \in AckedBy(ackPath'[i])
        PROVE  ackPath'[i].sentTime >= m.at
    <3>1. i + 1 \in DOMAIN ackPath /\ ackPath'[i] = ackPath[i + 1]
      BY <2>2
    <3> QED
      BY <1>3, <2>3, <3>1
  <2> QED
    BY <1>3, <2>1, <2>3 DEF MarkHolds, AckedBy
<1>8. CASE Waits
  <2>1. now' >= now /\ now' \in Nat /\ UNCHANGED <<nextPkt, wire, acker, ackPath>>
    BY <1>1, <1>8 DEF Waits
  <2> QED
    BY <1>1, <1>2, <1>3, <2>1 DEF MarkHolds, AckedBy
<1> QED
  BY <1>4, <1>5, <1>6, <1>7, <1>8, StepShapes

(* A packet sent for the first time. *)
LEMMA FreshMark ==
  ASSUME FlowInv, NEW m, m = [seq |-> nextPkt, at |-> now], now' = now, nextPkt' = nextPkt + 1, UNCHANGED <<acker, ackPath>>,
         wire' = Append(wire, [seq |-> nextPkt, sentTime |-> now])
  PROVE  MarkHolds(m)'
<1> DEFINE pkt == [seq |-> nextPkt, sentTime |-> now]
<1>1. /\ wire \in Seq(PacketsOnWire) /\ now \in Nat /\ nextPkt \in Nat
      /\ KnownReceived(acker) \subseteq Window(0, nextPkt)
  BY FlowFacts
<1>2. nextPkt \notin KnownReceived(acker)
  BY <1>1 DEF Window
<1>3. pkt \in PacketsOnWire /\ pkt.sentTime = now
  BY <1>1 DEF PacketsOnWire
<1> HIDE DEF pkt
<1>4. wire' = Append(wire, pkt)
  BY DEF pkt
<1>5. ASSUME NEW j \in DOMAIN wire', wire'[j].seq = nextPkt
      PROVE  wire'[j].sentTime >= now
  <2>1. \/ j \in DOMAIN wire /\ wire'[j] = wire[j]
        \/ j = Len(wire) + 1 /\ wire'[j] = pkt
    BY <1>1, <1>3, <1>4, WireAfterSend
  <2>2. \A i \in DOMAIN wire : wire[i].seq < nextPkt
    BY DEF FlowInv, WireSent
  <2> QED
    BY <1>1, <1>3, <1>5, <2>1, <2>2
<1>6. \A i \in DOMAIN ackPath : nextPkt \notin AckedBy(ackPath[i])
  BY <1>2 DEF FlowInv, PathTrue
<1> QED
  BY <1>1, <1>2, <1>5, <1>6 DEF MarkHolds, AckedBy

-----------------------------------------------------------------------------
(* Copa2: the uids on the paths after each step. *)

(* What the uids on the paths are, in terms the provers use directly.       *)
LEMMA UidFacts ==
  ASSUME FlowInv, UidsMatch
  PROVE  /\ wire \in Seq(PacketsOnWire) /\ ackPath \in Seq(AckType)
         /\ Len(wire) \in Nat /\ Len(ackPath) \in Nat
         /\ DOMAIN wire = 1..Len(wire) /\ DOMAIN wireUids = 1..Len(wire)
         /\ DOMAIN ackPath = 1..Len(ackPath) /\ DOMAIN ackUids = 1..Len(ackPath)
         /\ \A i \in 1..Len(wire) : wireUids[i] \in Nat /\ wireUids[i] <= lastUid
         /\ \A i \in 1..Len(ackPath) : ackUids[i] \in Nat /\ ackUids[i] <= lastUid
<1>1. wire \in Seq(PacketsOnWire) /\ ackPath \in Seq(AckType)
  BY FlowFacts DEF FlowInv, PathTrue
<1> QED
  BY <1>1, LenProperties DEF UidsMatch

(* A packet sent carries a uid that nothing else carries.                   *)
LEMMA UidsAfterSend ==
  ASSUME FlowInv, UidsMatch, UidsApart, NEW pkt \in PacketsOnWire, wire' = Append(wire, pkt),
         lastUid' = lastUid + 1, wireUids' = Append(wireUids, lastUid'),
         UNCHANGED <<ackPath, ackUids>>
  PROVE  UidsMatch' /\ UidsApart' /\ Carried' \subseteq Carried \cup {lastUid + 1}
<1> DEFINE n == Len(wire)
<1>1. /\ wire \in Seq(PacketsOnWire) /\ n \in Nat /\ DOMAIN wireUids = 1..n
      /\ wireUids \in Seq(Nat \ {0}) /\ ackUids \in Seq(Nat \ {0}) /\ Len(wireUids) = n /\ lastUid \in Nat
      /\ \A i \in 1..n : wireUids[i] \in Nat /\ wireUids[i] <= lastUid
      /\ \A i \in DOMAIN ackUids : ackUids[i] \in Nat /\ ackUids[i] <= lastUid
  BY UidFacts DEF UidsMatch
<1>2. Len(wire') = n + 1
  BY <1>1, AppendProperties
<1>3. /\ wireUids' \in Seq(Nat \ {0}) /\ Len(wireUids') = n + 1 /\ DOMAIN wireUids' = 1..(n + 1)
      /\ wireUids'[n + 1] = lastUid + 1 /\ \A i \in 1..n : wireUids'[i] = wireUids[i]
  BY <1>1, AppendProperties
<1> HIDE DEF n
<1>4. UidsMatch'
  BY <1>1, <1>2, <1>3 DEF UidsMatch
<1>5. UidsApart'
  <2>1. \A i \in 1..n : wireUids'[i] = wireUids[i] /\ wireUids'[i] < wireUids'[n + 1]
    BY <1>1, <1>3
  <2>2. \A i \in DOMAIN ackUids : ackUids[i] < wireUids'[n + 1]
    BY <1>1, <1>3
  <2>3. \A i \in 1..(n + 1) : i \in 1..n \/ i = n + 1
    BY <1>1
  <2>4. ASSUME NEW i \in DOMAIN wireUids', NEW j \in DOMAIN wireUids',
               wireUids'[i] = wireUids'[j]
        PROVE  i = j
    <3>1. CASE i \in 1..n /\ j \in 1..n
      BY <1>1, <2>1, <2>4, <3>1 DEF UidsApart
    <3>2. CASE i = n + 1 \/ j = n + 1
      <4>1. \A k \in 1..n : wireUids'[k] \in Nat /\ wireUids'[n + 1] \in Nat
        BY <1>1, <1>3
      <4> QED
        BY <1>3, <2>1, <2>3, <2>4, <3>2, <4>1
    <3> QED
      BY <1>3, <2>3, <3>1, <3>2
  <2>5. ASSUME NEW i \in DOMAIN wireUids', NEW j \in DOMAIN ackUids
        PROVE  wireUids'[i] # ackUids[j]
    <3>1. CASE i \in 1..n
      BY <1>1, <2>1, <3>1 DEF UidsApart
    <3>2. CASE i = n + 1
      BY <1>1, <1>3, <2>2, <3>2
    <3> QED
      BY <1>3, <2>3, <3>1, <3>2
  <2> QED
    BY <2>4, <2>5 DEF UidsApart
<1>6. Carried' \subseteq Carried \cup {lastUid + 1}
  BY <1>1, <1>3 DEF Carried
<1> QED
  BY <1>4, <1>5, <1>6

(* A packet dropped takes its uid along.                                    *)
LEMMA UidsAfterLoss ==
  ASSUME FlowInv, UidsMatch, UidsApart, NEW i \in DOMAIN wire, wire' = Without(wire, i),
         wireUids' = Without(wireUids, i), UNCHANGED <<ackPath, ackUids, lastUid>>
  PROVE  UidsMatch' /\ UidsApart' /\ Carried' \subseteq Carried
<1> DEFINE n == Len(wire)
           was(j) == IF j < i THEN j ELSE j + 1
<1>1. /\ wire \in Seq(PacketsOnWire) /\ n \in Nat /\ DOMAIN wireUids = 1..n /\ i \in 1..n
      /\ wireUids \in Seq(Nat \ {0}) /\ Len(wireUids) = n
      /\ \A j \in 1..n : wireUids[j] \in Nat /\ wireUids[j] <= lastUid
  BY UidFacts DEF UidsMatch
<1>2. Len(wire') = n - 1
  BY <1>1, WithoutKeeps
<1>3. /\ wireUids' \in Seq(Nat \ {0}) /\ DOMAIN wireUids' = 1..(n - 1) /\ Len(wireUids') = n - 1
      /\ \A j \in 1..(n - 1) : wireUids'[j] = wireUids[was(j)]
  <2>1. /\ Without(wireUids, i) \in Seq(Nat \ {0})
        /\ DOMAIN Without(wireUids, i) = 1..(Len(wireUids) - 1)
        /\ Len(Without(wireUids, i)) = Len(wireUids) - 1
        /\ \A j \in 1..(Len(wireUids) - 1) : Without(wireUids, i)[j] = wireUids[IF j < i THEN j ELSE j + 1]
    <3>1. i \in DOMAIN wireUids
      BY <1>1
    <3> QED
      BY <1>1, <3>1, WithoutKeeps
  <2> HIDE DEF n
  <2> QED
    BY <1>1, <2>1
<1>4. \A j, k \in 1..(n - 1) : was(j) \in 1..n /\ (was(j) = was(k) => j = k)
  BY <1>1
<1> HIDE DEF n, was
<1>5. UidsMatch'
  <2>1. \A j \in DOMAIN wireUids' : wireUids'[j] <= lastUid
    BY <1>1, <1>3, <1>4
  <2> QED
    BY <1>1, <1>2, <1>3, <2>1 DEF UidsMatch
<1>6. UidsApart'
  <2>1. ASSUME NEW j \in 1..(n - 1), NEW k \in 1..(n - 1), wireUids'[j] = wireUids'[k]
        PROVE  j = k
    BY <1>1, <1>3, <1>4, <2>1 DEF UidsApart
  <2>2. ASSUME NEW j \in 1..(n - 1), NEW k \in DOMAIN ackUids
        PROVE  wireUids'[j] # ackUids[k]
    BY <1>1, <1>3, <1>4 DEF UidsApart
  <2> QED
    BY <1>3, <2>1, <2>2 DEF UidsApart
<1>7. Carried' \subseteq Carried
  BY <1>1, <1>3, <1>4 DEF Carried
<1> QED
  BY <1>5, <1>6, <1>7

(* An ack takes over the uid of its packet, which leaves the wire.          *)
LEMMA UidsAfterArrival ==
  ASSUME FlowInv, UidsMatch, UidsApart, wire # <<>>, wire' = Without(wire, 1),
         NEW ack \in AckType, ackPath' = Append(ackPath, ack),
         wireUids' = Tail(wireUids), ackUids' = Append(ackUids, Head(wireUids)),
         UNCHANGED lastUid
  PROVE  UidsMatch' /\ UidsApart' /\ Carried' \subseteq Carried
<1> DEFINE n == Len(wire)
           k == Len(ackPath)
<1>1. /\ wire \in Seq(PacketsOnWire) /\ n \in Nat /\ DOMAIN wireUids = 1..n /\ DOMAIN wire = 1..n
      /\ ackPath \in Seq(AckType) /\ k \in Nat /\ DOMAIN ackUids = 1..k
      /\ wireUids \in Seq(Nat \ {0}) /\ ackUids \in Seq(Nat \ {0}) /\ Len(wireUids) = n /\ Len(ackUids) = k
      /\ \A i \in 1..n : wireUids[i] \in Nat /\ wireUids[i] <= lastUid
      /\ \A i \in 1..k : ackUids[i] \in Nat /\ ackUids[i] <= lastUid
  BY UidFacts DEF UidsMatch
<1>2. 1 \in 1..n /\ Head(wireUids) = wireUids[1] /\ wireUids # <<>>
  BY <1>1
<1>3. Len(wire') = n - 1
  BY <1>1, <1>2, WithoutKeeps
<1>4. Len(ackPath') = k + 1
  BY <1>1, AppendProperties
<1>5. /\ wireUids' \in Seq(Nat \ {0}) /\ Len(wireUids') = n - 1 /\ DOMAIN wireUids' = 1..(n - 1)
      /\ \A i \in 1..(n - 1) : wireUids'[i] = wireUids[i + 1] /\ i + 1 \in 1..n
  BY <1>1, <1>2, HeadTailProperties
<1>6. /\ ackUids' \in Seq(Nat \ {0}) /\ Len(ackUids') = k + 1 /\ DOMAIN ackUids' = 1..(k + 1)
      /\ ackUids'[k + 1] = wireUids[1] /\ \A i \in 1..k : ackUids'[i] = ackUids[i]
  BY <1>1, <1>2, AppendProperties
<1> HIDE DEF n, k
<1>7. UidsMatch'
  BY <1>1, <1>2, <1>3, <1>4, <1>5, <1>6 DEF UidsMatch
<1>8. UidsApart'
  <2>1. \A i, j \in 1..n : wireUids[i] = wireUids[j] => i = j
    BY <1>1 DEF UidsApart
  <2>2. /\ \A i, j \in 1..k : ackUids[i] = ackUids[j] => i = j
        /\ \A i \in 1..n, j \in 1..k : wireUids[i] # ackUids[j]
    BY <1>1 DEF UidsApart
  <2>3. ASSUME NEW i \in 1..(n - 1), NEW j \in 1..(n - 1), wireUids'[i] = wireUids'[j]
        PROVE  i = j
    <3>1. i + 1 = j + 1
      BY <1>5, <2>1, <2>3
    <3> QED
      BY <1>1, <3>1
  <2>4. ASSUME NEW i \in 1..(k + 1), NEW j \in 1..(k + 1), ackUids'[i] = ackUids'[j]
        PROVE  i = j
    BY <1>1, <1>2, <1>6, <2>2, <2>4
  <2>5. ASSUME NEW i \in 1..(n - 1), NEW j \in 1..(k + 1)
        PROVE  wireUids'[i] # ackUids'[j]
    <3>1. i + 1 \in 1..n /\ i + 1 # 1 /\ wireUids'[i] = wireUids[i + 1]
      BY <1>1, <1>5
    <3>2. CASE j = k + 1
      BY <1>2, <1>6, <2>1, <3>1, <3>2
    <3>3. CASE j \in 1..k
      BY <1>6, <2>2, <3>1, <3>3
    <3> QED
      BY <1>1, <3>2, <3>3
  <2>6. \A i, j \in DOMAIN wireUids' : wireUids'[i] = wireUids'[j] => i = j
    BY <1>5, <2>3
  <2>7. \A i, j \in DOMAIN ackUids' : ackUids'[i] = ackUids'[j] => i = j
    BY <1>6, <2>4
  <2>8. \A i \in DOMAIN wireUids', j \in DOMAIN ackUids' : wireUids'[i] # ackUids'[j]
    <3>1. DOMAIN wireUids' = 1..(n - 1) /\ DOMAIN ackUids' = 1..(k + 1)
      BY <1>5, <1>6
    <3> QED
      BY <2>5, <3>1
  <2> QED
    BY <2>6, <2>7, <2>8 DEF UidsApart
<1>9. Carried' \subseteq Carried
  <2>1. ASSUME NEW i \in 1..(k + 1)
        PROVE  ackUids'[i] \in Carried
    <3>1. i = k + 1 \/ i \in 1..k
      BY <1>1
    <3> QED
      BY <1>1, <1>2, <1>6, <3>1 DEF Carried
  <2>2. \A i \in 1..(n - 1) : wireUids'[i] \in Carried
    BY <1>1, <1>5 DEF Carried
  <2> QED
    BY <1>5, <1>6, <2>1, <2>2 DEF Carried
<1> QED
  BY <1>7, <1>8, <1>9

(* An ack that arrives takes its uid off the path.                          *)
LEMMA UidsAfterReturn ==
  ASSUME FlowInv, UidsMatch, UidsApart, ackPath # <<>>, ackPath' = Tail(ackPath),
         ackUids' = Tail(ackUids), UNCHANGED <<wire, wireUids, lastUid>>
  PROVE  /\ UidsMatch' /\ UidsApart'
         /\ Head(ackUids) \in Carried /\ Carried' \subseteq Carried \ {Head(ackUids)}
<1> DEFINE k == Len(ackPath)
<1>1. /\ ackPath \in Seq(AckType) /\ k \in Nat /\ DOMAIN ackUids = 1..k
      /\ ackUids \in Seq(Nat \ {0}) /\ Len(ackUids) = k
      /\ \A i \in 1..k : ackUids[i] \in Nat /\ ackUids[i] <= lastUid
  BY UidFacts DEF UidsMatch
<1>2. 1 \in 1..k /\ Head(ackUids) = ackUids[1] /\ ackUids # <<>>
  BY <1>1
<1>3. Len(ackPath') = k - 1
  BY <1>1, HeadTailProperties
<1>4. /\ ackUids' \in Seq(Nat \ {0}) /\ Len(ackUids') = k - 1 /\ DOMAIN ackUids' = 1..(k - 1)
      /\ \A i \in 1..(k - 1) : ackUids'[i] = ackUids[i + 1] /\ i + 1 \in 1..k
  BY <1>1, <1>2, HeadTailProperties
<1> HIDE DEF k
<1>5. UidsMatch'
  BY <1>1, <1>3, <1>4 DEF UidsMatch
<1>6. /\ \A i, j \in 1..k : ackUids[i] = ackUids[j] => i = j
      /\ \A i \in DOMAIN wireUids, j \in 1..k : wireUids[i] # ackUids[j]
  BY <1>1 DEF UidsApart
<1>7. UidsApart'
  <2>1. ASSUME NEW i \in 1..(k - 1), NEW j \in 1..(k - 1), ackUids'[i] = ackUids'[j]
        PROVE  i = j
    <3>1. i + 1 = j + 1
      BY <1>4, <1>6, <2>1
    <3> QED
      BY <1>1, <3>1
  <2>2. ASSUME NEW i \in DOMAIN wireUids, NEW j \in 1..(k - 1)
        PROVE  wireUids[i] # ackUids'[j]
    BY <1>4, <1>6
  <2>3. /\ \A i, j \in DOMAIN ackUids' : ackUids'[i] = ackUids'[j] => i = j
        /\ \A i \in DOMAIN wireUids', j \in DOMAIN ackUids' : wireUids'[i] # ackUids'[j]
    BY <1>4, <2>1, <2>2
  <2> QED
    BY <2>3 DEF UidsApart
<1>8. Head(ackUids) \in Carried
  BY <1>1, <1>2 DEF Carried
<1>9. ASSUME NEW u \in Carried'
      PROVE  u \in Carried /\ u # Head(ackUids)
  <2>1. CASE \E i \in DOMAIN wireUids : u = wireUids[i]
    BY <1>2, <1>6, <2>1 DEF Carried
  <2>2. CASE \E i \in 1..(k - 1) : u = ackUids'[i]
    <3>1. PICK i \in 1..(k - 1) : u = ackUids'[i]
      BY <2>2
    <3>2. u = ackUids[i + 1] /\ i + 1 \in 1..k /\ i + 1 # 1
      BY <1>1, <1>4, <3>1
    <3> QED
      BY <1>1, <1>2, <1>6, <3>2 DEF Carried
  <2> QED
    BY <1>4, <1>9, <2>1, <2>2 DEF Carried
<1> QED
  BY <1>5, <1>7, <1>8, <1>9

-----------------------------------------------------------------------------
(* An ack without a gap tells of no loss. *)
LEMMA NoGapNoLoss ==
  ASSUME NEW t, TrackerSound(t), t.unreported = 0, NEW acked \in SUBSET Nat
  PROVE  LET u == MarkAcked(t, acked)
         IN  u.unreported \in Nat /\ (NoGap(acked) => u.unreported = 0)
<1> DEFINE u     == MarkAcked(t, acked)
           newly == NewlyLost(t, acked)
<1>1. TrackerSound(u)
  BY MarkAckedSound
<1>2. u.unreported = t.unreported + Cardinality(newly)
  BY DEF MarkAcked, Shrink, Tracker
<1>3. ASSUME NoGap(acked), NEW q \in newly
      PROVE  FALSE
  <2>1. /\ q \in Window(t.left, t.right) /\ t.status[q] # Lost
        /\ StatusAfterAck(t, acked)[q] = Lost
    BY <1>3 DEF NewlyLost
  <2>2. q \notin acked /\ DupacksFor(t, acked, q) # {}
    BY <2>1, StatusesDistinct DEF StatusAfterAck
  <2>3. PICK p \in acked : q < p
    BY <2>2 DEF DupacksFor, FreshlyAcked
  <2>4. q \in Window(0, p)
    BY <2>1, <2>3 DEF Window, TrackerSound, TrackerType
  <2> QED
    BY <1>3, <2>2, <2>3, <2>4 DEF NoGap
<1>4. NoGap(acked) => Cardinality(newly) = 0
  BY <1>3, FS_EmptySet
<1> HIDE DEF u, newly
<1>5. u.unreported \in Nat /\ (NoGap(acked) => u.unreported = 0)
  BY <1>1, <1>2, <1>4 DEF TrackerSound, TrackerType
<1> QED
  BY <1>5 DEF u

(* A step that sends nothing, and leaves the markers or moves one. *)
LEMMA MarksKept ==
  ASSUME CcInv, [FlowNext]_flowVars, nextPkt' = nextPkt, alg'.kind = alg.kind,
         alg.kind = "IncreaseBdpCC" =>
           alg'.lastSent = alg.lastSent /\ alg'.marker \in {alg.marker, alg.lastSent}
  PROVE  MarksInOrder'
<1> SUFFICES ASSUME alg.kind = "IncreaseBdpCC", nextPkt # 0
             PROVE  MarksInOrder'
  BY DEF MarksInOrder, CcInv, CallsSound
<1>1. alg.lastSent \in [seq : Nat, at : Nat] /\ alg.marker \in [seq : Nat, at : Nat]
  <2>1. now \in Nat
    BY FlowFacts DEF CcInv
  <2>2. alg \in BdpType
    BY <2>1, KindTells DEF CcInv, CallsSound
  <2> QED
    BY <2>2 DEF BdpType, SentPkts, CcInv, CallsSound, MarksInOrder
<1>2. /\ alg.lastSent # NoPkt /\ alg.lastSent.seq = nextPkt - 1 /\ alg.marker # NoPkt
      /\ MarkHolds(alg.lastSent) /\ MarkHolds(alg.marker)
  BY DEF CcInv, CallsSound, MarksInOrder
<1>3. \A m \in [seq : Nat, at : Nat] : MarkHolds(m) => MarkHolds(m)'
  BY MarkKept DEF CcInv
<1> QED
  BY <1>1, <1>2, <1>3 DEF MarksInOrder

(* on_send: the packet's uid becomes known, and a fresh packet is the next  *)
(* one IncreaseBdpCC may mark.                                              *)
LEMMA SendKeeps ==
  ASSUME CcInv, ~alg.aborted, CcSend, [FlowNext]_flowVars
  PROVE  CallsSound'
<1>1. PICK e \in Transmits :
        /\ alg' \in OnSend(alg, now, NextSeq, lastUid + 1)
        /\ cc' \in Answers(alg')
        /\ Retransmit(e) \/ TransmitFresh(e)
  BY DEF CcSend
<1>2. /\ lastUid' = lastUid + 1 /\ wireUids' = Append(wireUids, lastUid')
      /\ UNCHANGED <<acker, ackPath, ackUids>>
  BY DEF CcSend
<1>3. /\ FlowInv /\ UidsMatch /\ UidsApart /\ UidsKnown /\ AlgSound(alg, now)
      /\ ConstAsConfigured /\ MarksInOrder /\ WireInOrder
      /\ now \in Nat /\ nextPkt \in Nat /\ lastUid \in Nat
  BY FlowFacts DEF CcInv, CallsSound, UidsMatch
<1>4. /\ NextSeq \in Nat /\ now' = now
      /\ wire' = Append(wire, [seq |-> NextSeq, sentTime |-> now])
      /\ \/ NextSeq < nextPkt /\ nextPkt' = nextPkt
         \/ NextSeq = nextPkt /\ nextPkt' = nextPkt + 1
  BY <1>1, <1>3, SendDoes
<1>5. /\ AlgSound(alg', now) /\ alg'.kind = alg.kind /\ ~alg'.aborted
      /\ alg.kind = "Const" => alg' = alg
      /\ alg.kind = "IncreaseBdpCC" => alg' = BdpOnSend(alg, now, NextSeq)
      /\ alg.kind = "Copa2" => alg'.known = alg.known \cup {lastUid + 1}
  <2>1. lastUid + 1 \in Nat
    BY <1>3
  <2> QED
    BY <1>1, <1>3, <1>4, <2>1, OnSendKeeps
<1>6. UidsMatch' /\ UidsApart' /\ Carried' \subseteq Carried \cup {lastUid + 1}
  <2> DEFINE pkt == [seq |-> NextSeq, sentTime |-> now]
  <2>1. pkt \in PacketsOnWire
    BY <1>3, <1>4 DEF PacketsOnWire
  <2>2. wire' = Append(wire, pkt)
    BY <1>4
  <2> HIDE DEF pkt
  <2> QED
    BY <1>2, <1>3, <2>1, <2>2, UidsAfterSend
<1>7. UidsKnown'
  BY <1>3, <1>5, <1>6 DEF UidsKnown, CcInv, CallsSound
<1>8. ConstAsConfigured'
  BY <1>3, <1>5 DEF ConstAsConfigured
<1>9. AbortsReasoned'
  BY <1>5 DEF AbortsReasoned
<1>10. MarksInOrder'
  <2> SUFFICES ASSUME alg.kind = "IncreaseBdpCC" PROVE MarksInOrder'
    BY <1>5 DEF MarksInOrder
  <2> DEFINE pkt == [seq |-> NextSeq, at |-> now]
  <2>1. alg \in BdpType
    BY <1>3, KindTells
  <2>2. IF alg.lastSent = NoPkt THEN alg'.lastSent = pkt /\ alg'.marker = pkt
        ELSE /\ alg'.marker = alg.marker
             /\ alg'.lastSent = IF NextSeq > alg.lastSent.seq THEN pkt ELSE alg.lastSent
    BY <1>3, <1>4, <1>5, <2>1, BdpOnSendKeeps
  <2>3. pkt \in [seq : Nat, at : Nat] /\ pkt # NoPkt /\ pkt.seq = NextSeq
    BY <1>3, <1>4 DEF NoPkt, NoSeq
  <2>4. CASE nextPkt' = nextPkt
    <3>1. NextSeq < nextPkt /\ nextPkt # 0
      BY <1>3, <1>4, <2>4
    <3>2. alg.lastSent # NoPkt /\ alg.lastSent.seq = nextPkt - 1
      BY <1>3, <3>1 DEF MarksInOrder
    <3>3. alg'.marker = alg.marker /\ alg'.lastSent = alg.lastSent
      BY <1>3, <1>4, <2>2, <3>1, <3>2
    <3> QED
      BY <1>5, <2>4, <3>3, MarksKept
  <2>5. CASE NextSeq = nextPkt /\ nextPkt' = nextPkt + 1
    <3>1. pkt = [seq |-> nextPkt, at |-> now]
      BY <2>5
    <3>2. \A m : m = pkt => MarkHolds(m)'
      <4>1. wire' = Append(wire, [seq |-> nextPkt, sentTime |-> now])
        BY <1>4, <2>5
      <4> QED
        BY <1>2, <1>3, <1>4, <2>5, <3>1, <4>1, FreshMark
    <3>3. nextPkt' # 0 /\ pkt.seq = nextPkt' - 1
      BY <1>3, <2>3, <2>5
    <3> HIDE DEF pkt
    <3>4. CASE nextPkt = 0
      <4>1. alg'.lastSent = pkt /\ alg'.marker = pkt
        BY <1>3, <2>2, <3>4 DEF MarksInOrder
      <4> QED
        BY <2>3, <3>2, <3>3, <4>1 DEF MarksInOrder
    <3>5. CASE nextPkt # 0
      <4>1. /\ alg.lastSent # NoPkt /\ alg.lastSent.seq = nextPkt - 1 /\ alg.marker # NoPkt
            /\ MarkHolds(alg.marker)
        BY <1>3, <3>5 DEF MarksInOrder
      <4>2. alg'.lastSent = pkt /\ alg'.marker = alg.marker
        BY <1>3, <2>2, <2>5, <4>1
      <4>3. alg.marker \in [seq : Nat, at : Nat]
        BY <2>1, <4>1 DEF BdpType, SentPkts
      <4>4. \A m \in [seq : Nat, at : Nat] : MarkHolds(m) => MarkHolds(m)'
        BY <1>3, MarkKept
      <4> QED
        BY <2>3, <3>2, <3>3, <4>1, <4>2, <4>3, <4>4 DEF MarksInOrder
    <3> QED
      BY <3>4, <3>5
  <2> QED
    BY <1>4, <2>4, <2>5
<1> QED
  BY <1>1, <1>4, <1>5, <1>6, <1>7, <1>8, <1>9, <1>10 DEF CallsSound

(* A step in which the algorithm learns nothing of a packet. *)
LEMMA NotCalledKeeps ==
  ASSUME CcInv, ~alg.aborted, [FlowNext]_flowVars, nextPkt' = nextPkt,
         AlgSound(alg', now'), alg'.kind = alg.kind, ~alg'.aborted,
         alg.kind \in {"Const", "Copa2", "IncreaseBdpCC"} => alg' = alg,
         cc' \in Answers(alg'), UidsMatch', UidsApart', Carried' \subseteq Carried
  PROVE  CallsSound'
<1>1. UidsKnown /\ ConstAsConfigured
  BY DEF CcInv, CallsSound
<1>2. UidsKnown' /\ ConstAsConfigured' /\ AbortsReasoned'
  BY <1>1 DEF UidsKnown, ConstAsConfigured, AbortsReasoned
<1>3. MarksInOrder'
  BY MarksKept
<1> QED
  BY <1>2, <1>3 DEF CallsSound

(* A timeout keeps the promises to the algorithm.                           *)
LEMMA TimeoutKeeps ==
  ASSUME CcInv, ~alg.aborted, CcTimeout, [FlowNext]_flowVars
  PROVE  CallsSound'
<1>1. PICK e \in pending :
        alg' = OnTimeout(alg) /\ cc' \in Answers(alg') /\ TimeoutFires(e)
  BY DEF CcTimeout
<1>2. /\ UNCHANGED <<now, nextPkt, wire>>
      /\ UNCHANGED <<ackPath, lastUid, wireUids, ackUids>>
  BY <1>1 DEF TimeoutFires, CcTimeout
<1>3. /\ AlgSound(alg, now) /\ now \in Nat /\ UidsMatch /\ UidsApart
  BY FlowFacts DEF CcInv, CallsSound
<1>4. /\ AlgSound(alg', now) /\ alg'.kind = alg.kind /\ ~alg'.aborted
      /\ alg.kind \notin {"AIMD", "InstantCC", "Copa"} => alg' = alg
  BY <1>1, <1>3, OnTimeoutKeeps
<1>5. UidsMatch' /\ UidsApart' /\ Carried' = Carried
  BY <1>2, <1>3 DEF UidsMatch, UidsApart, Carried
<1> QED
  BY <1>1, <1>2, <1>4, <1>5, NotCalledKeeps

(* on_ack: the flow keeps its promises to the algorithm. *)
LEMMA PushKeeps ==
  ASSUME CcInv, ~alg.aborted, CcPush, [FlowNext]_flowVars
  PROVE  CallsSound'
<1> DEFINE ack  == Head(ackPath)
           seen == AckSeen(ack)
<1>1. /\ ackPath # <<>> /\ ~Ended /\ ack.cum > 0
      /\ alg' \in OnAck(alg, seen) /\ cc' \in Answers(alg')
      /\ ReturnAck /\ ackUids' = Tail(ackUids) /\ UNCHANGED <<lastUid, wireUids>>
  BY DEF CcPush
<1>2. /\ FlowInv /\ UidsMatch /\ UidsApart /\ UidsKnown /\ AlgSound(alg, now)
      /\ ConstAsConfigured /\ MarksInOrder /\ now <= Till
      /\ now \in Nat /\ nextPkt \in Nat /\ lastUid \in Nat
      /\ TrackerSound(trackRx) /\ trackRx.unreported = 0
  BY FlowFacts DEF CcInv, CallsSound, UidsMatch
<1>3. /\ ack \in AckType /\ ack.sentTime <= now /\ ack.cum <= nextPkt
      /\ ack.sentTime \in Nat /\ ack.cum \in Nat /\ AckedBy(ack) \in SUBSET Nat
      /\ \E i \in DOMAIN ackPath : ack = ackPath[i]
  <2>1. ackPath \in Seq(AckType)
    BY <1>2 DEF FlowInv, PathTrue
  <2>2. 1 \in DOMAIN ackPath /\ ack = ackPath[1]
    BY <1>1, <2>1
  <2>3. ack \in AckType /\ ack.sentTime <= now /\ ack.cum <= nextPkt
    BY <1>2, <2>2, FlowFacts DEF FlowInv, PathTrue
  <2> HIDE DEF ack
  <2> QED
    BY <2>2, <2>3 DEF AckType, AckedBy, Window
<1> DEFINE marked == MarkAcked(trackRx, AckedBy(ack))
<1>4. /\ UNCHANGED <<now, nextPkt, wire, acker>> /\ ackPath' = Tail(ackPath)
      /\ trackRx' = Reported(marked)
  BY <1>1 DEF ReturnAck, HandleAck, IgnoreAck, PushAck, AckPanics, Ended
<1>5. /\ seen.now = now /\ seen.cum = ack.cum /\ seen.uid = Head(ackUids)
      /\ seen.rtt = now - ack.sentTime /\ seen.lost = marked.unreported
      /\ seen = [now |-> now, cum |-> ack.cum, uid |-> Head(ackUids),
                 rtt |-> now - ack.sentTime, lost |-> marked.unreported]
  BY DEF AckSeen
<1>6. /\ marked.unreported \in Nat /\ losses' = losses /\ losses \in Nat
      /\ marked.unreported > 0 => losses > 0
  <2>1. losses' = losses /\ losses \in Nat
    BY <1>1, <1>2, FlowAssumption DEF ReturnAck, FlowInv
  <2>2. losses = 0 => NoGap(AckedBy(ack))
    BY <1>3 DEF CcInv, NothingMissing
  <2>3. marked.unreported \in Nat /\ (NoGap(AckedBy(ack)) => marked.unreported = 0)
    BY <1>2, <1>3, NoGapNoLoss
  <2> HIDE DEF marked
  <2> QED
    BY <2>1, <2>2, <2>3
<1>7. /\ UidsMatch' /\ UidsApart'
      /\ Head(ackUids) \in Carried /\ Carried' \subseteq Carried \ {Head(ackUids)}
  BY <1>1, <1>2, <1>4, UidsAfterReturn
<1>8. Head(ackUids) \in Nat
  <2>1. \A u \in Carried : u \in Nat
    BY <1>2, UidFacts DEF Carried
  <2> QED
    BY <1>7, <2>1
<1> HIDE DEF ack, seen, marked
<1>9. seen \in AcksTold
  <2>1. now \in Times /\ now - ack.sentTime \in Times
    BY <1>2, <1>3, CcFlowAssumption, TimeMaxAssumption, SenderAssumption DEF Times
  <2> QED
    BY <1>3, <1>5, <1>6, <1>8, <2>1 DEF AcksTold
<1>10. alg.kind = "IncreaseBdpCC" => AckSince(alg, seen)
  <2> SUFFICES ASSUME alg.kind = "IncreaseBdpCC" PROVE AckSince(alg, seen)
    OBVIOUS
  <2>1. nextPkt # 0
    BY <1>1, <1>2, <1>3
  <2>2. alg.marker # NoPkt /\ MarkHolds(alg.marker)
    BY <1>2, <2>1 DEF MarksInOrder
  <2>3. alg \in BdpType
    BY <1>2, KindTells
  <2>4. alg.marker.seq \in Nat /\ alg.marker.at \in Nat
    BY <2>2, <2>3 DEF BdpType, SentPkts
  <2>5. ASSUME seen.cum > alg.marker.seq
        PROVE  alg.marker.at <= seen.now - seen.rtt
    <3>1. alg.marker.seq \in AckedBy(ack)
      BY <1>3, <1>5, <2>4, <2>5 DEF AckedBy, Window
    <3>2. ack.sentTime >= alg.marker.at
      BY <1>3, <2>2, <3>1 DEF MarkHolds
    <3>3. seen.now - seen.rtt = ack.sentTime
      BY <1>2, <1>3, <1>5
    <3> QED
      BY <1>3, <2>4, <3>2, <3>3
  <2> QED
    BY <2>2, <2>5 DEF AckSince
<1>11. /\ AlgSound(alg', now) /\ alg'.kind = alg.kind
       /\ alg'.aborted => AbortDue(alg, seen, alg')
       /\ alg.kind = "Const" => alg' = alg
       /\ alg.kind = "IncreaseBdpCC" => /\ alg'.lastSent = alg.lastSent
                                       /\ alg'.marker \in {alg.marker, alg.lastSent}
       /\ alg.kind = "Copa2" /\ ~alg'.aborted => alg'.known = alg.known \ {seen.uid}
  <2>1. AlgSound(alg, seen.now)
    BY <1>2, <1>5
  <2>2. /\ AlgSound(alg', seen.now) /\ alg'.kind = alg.kind
        /\ alg'.aborted => AbortDue(alg, seen, alg')
        /\ alg.kind = "Const" => alg' = alg
        /\ alg.kind = "IncreaseBdpCC" => /\ alg'.lastSent = alg.lastSent
                                        /\ alg'.marker \in {alg.marker, alg.lastSent}
        /\ alg.kind = "Copa2" /\ ~alg'.aborted => alg'.known = alg.known \ {seen.uid}
    BY <1>1, <1>9, <1>10, <2>1, OnAckKeeps
  <2> QED
    BY <1>5, <2>2
<1>12. UidsKnown'
  BY <1>2, <1>5, <1>7, <1>11 DEF UidsKnown
<1>13. ConstAsConfigured'
  BY <1>2, <1>11 DEF ConstAsConfigured
<1>14. MarksInOrder'
  BY <1>4, <1>11, MarksKept
<1>15. AbortsReasoned'
  <2> SUFFICES ASSUME alg'.aborted PROVE AbortsReasoned'
    BY DEF AbortsReasoned
  <2>1. AbortDue(alg, seen, alg')
    BY <1>11
  <2>2. CASE alg.kind = "StableLinearCC"
    BY <1>11, <2>2 DEF AbortsReasoned
  <2>3. CASE alg.kind = "Copa2" /\ (seen.uid \notin alg.known \/ seen.lost > 0)
    <3>1. seen.uid \in alg.known
      BY <1>2, <1>5, <1>7, <2>3 DEF UidsKnown
    <3>2. losses' > 0
      BY <1>5, <1>6, <2>3, <3>1
    <3> QED
      BY <1>11, <2>3, <3>2 DEF AbortsReasoned
  <2>4. CASE alg.kind = "Copa" /\ \E s \in alg'.standing.samples : SlowSample(s)
    BY <1>11, <2>4 DEF AbortsReasoned, SlowSample
  <2> QED
    BY <2>1, <2>2, <2>3, <2>4 DEF AbortDue
<1> QED
  BY <1>1, <1>4, <1>7, <1>11, <1>12, <1>13, <1>14, <1>15 DEF CallsSound

(* Steps that do not call the algorithm. *)
LEMMA OtherStepsKeep ==
  ASSUME CcInv, ~alg.aborted, [FlowNext]_flowVars,
         CcEventOver \/ CcPushOver \/ CcDeliver \/ CcLose \/ CcTick
  PROVE  CallsSound'
<1>1. /\ FlowInv /\ UidsMatch /\ UidsApart /\ AlgSound(alg, now) /\ now \in Nat
      /\ cc \in Answers(alg) /\ TrackerSound(acker)
      /\ wire \in Seq(PacketsOnWire) /\ ackPath \in Seq(AckType)
  BY FlowFacts DEF CcInv, CallsSound, FlowInv, PathTrue
<1>2. CASE CcEventOver
  <2>1. PICK e \in pending : EventAfterEnd(e) \/ TimeoutStale(e)
    BY <1>2 DEF CcEventOver
  <2>2. /\ UNCHANGED <<now, nextPkt, wire, cc>>
        /\ UNCHANGED <<ackPath, alg, lastUid, wireUids, ackUids>>
    BY <1>2, <2>1 DEF EventAfterEnd, TimeoutStale, CcEventOver
  <2>3. UidsMatch' /\ UidsApart' /\ Carried' = Carried
    BY <1>1, <2>2 DEF UidsMatch, UidsApart, Carried
  <2> QED
    BY <1>1, <2>2, <2>3, NotCalledKeeps
<1>3. CASE CcPushOver
  <2>1. /\ ackPath # <<>> /\ (Ended \/ Head(ackPath).cum = 0) /\ ReturnAck
        /\ ackUids' = Tail(ackUids) /\ UNCHANGED <<alg, lastUid, wireUids>>
    BY <1>3 DEF CcPushOver
  <2>2. UNCHANGED <<now, nextPkt, wire, cc>> /\ ackPath' = Tail(ackPath)
    BY <1>1, <2>1 DEF ReturnAck, HandleAck, IgnoreAck, PushAck, AckPanics, senderVars, Ended
  <2>3. UidsMatch' /\ UidsApart' /\ Carried' \subseteq Carried
    BY <1>1, <2>1, <2>2, UidsAfterReturn
  <2> QED
    BY <1>1, <2>1, <2>2, <2>3, NotCalledKeeps
<1>4. CASE CcDeliver
  <2> DEFINE ack == AckOf(acker', Head(wire))
  <2>1. /\ 1 \in DOMAIN wire /\ wire' = Without(wire, 1)
        /\ acker' = MarkPkt(acker, Head(wire).seq, Received)
        /\ ackPath' = Append(ackPath, ack)
        /\ UNCHANGED <<now, nextPkt, cc, alg, lastUid>>
        /\ wireUids' = Tail(wireUids) /\ ackUids' = Append(ackUids, Head(wireUids))
    BY <1>4 DEF CcDeliver, Deliver, NetworkTakes
  <2>2. Head(wire) \in PacketsOnWire /\ Head(wire).seq \in Nat
    <3>1. Head(wire) = wire[1]
      OBVIOUS
    <3>2. Head(wire) \in PacketsOnWire
      BY <1>1, <2>1, <3>1
    <3> QED
      BY <3>2 DEF PacketsOnWire
  <2>3. TrackerSound(acker')
    <3>1. /\ TrackerSound(acker')
          /\ acker'.right = IF Head(wire).seq < acker.right THEN acker.right ELSE Head(wire).seq + 1
      BY <1>1, <2>1, <2>2, MarkPktSound, StatusesDistinct
    <3> QED
      BY <3>1
  <2>4. ack \in AckType
    BY <2>2, <2>3, AckOfTrue
  <2> HIDE DEF ack
  <2>5. wire # <<>>
    BY <1>1, <2>1
  <2>6. UidsMatch' /\ UidsApart' /\ Carried' \subseteq Carried
    BY <1>1, <2>1, <2>4, <2>5, UidsAfterArrival
  <2> QED
    BY <1>1, <2>1, <2>6, NotCalledKeeps
<1>5. CASE CcLose
  <2>1. PICK i \in DOMAIN wire : wire' = Without(wire, i) /\ wireUids' = Without(wireUids, i)
    BY <1>5 DEF CcLose
  <2>2. UNCHANGED <<now, nextPkt, cc, ackPath, alg, lastUid, ackUids>>
    BY <1>5 DEF CcLose, Lose, NetworkTakes
  <2>3. UidsMatch' /\ UidsApart' /\ Carried' \subseteq Carried
    BY <1>1, <2>1, <2>2, UidsAfterLoss
  <2> QED
    BY <1>1, <2>2, <2>3, NotCalledKeeps
<1>6. CASE CcTick
  <2>1. now' = now + 1 /\ UNCHANGED <<nextPkt, cc, wire, ackPath, alg, lastUid, wireUids, ackUids>>
    BY <1>6 DEF CcTick, Tick, AdvanceTime
  <2>2. AlgSound(alg', now')
    <3>1. now' \in Nat /\ now <= now'
      BY <1>1, <2>1
    <3> QED
      BY <1>1, <2>1, <3>1, SoundLater
  <2>3. UidsMatch' /\ UidsApart' /\ Carried' = Carried
    BY <1>1, <2>1 DEF UidsMatch, UidsApart, Carried
  <2> QED
    BY <1>1, <2>1, <2>2, <2>3, NotCalledKeeps
<1> QED
  BY <1>2, <1>3, <1>4, <1>5, <1>6

-----------------------------------------------------------------------------
(* The algorithm topology.rs makes of a configuration. *)
LEMMA NewCcSound ==
  ASSUME NEW config \in CcConfigs
  PROVE  LET a == NewCc(config)
         IN  /\ AlgSound(a, 0) /\ a.kind = config.kind /\ ~a.aborted
             /\ config.kind = "Const" => a = NewConst(config)
             /\ config.kind = "IncreaseBdpCC" => a.lastSent = NoPkt
<1> DEFINE a == NewCc(config)
<1>1. /\ config.kind \in {"Const", "AIMD", "InstantCC", "OscInstantCC", "StableLinearCC",
                          "IncreaseBdpCC", "Copa", "Copa2"}
      /\ config.kind = "Const" => config.cwnd \in Nat /\ config.intersend \in Nat
      /\ config.kind = "StableLinearCC" => config.delay \in Nat
  BY CcFlowAssumption
<1>2. CASE config.kind = "Const"
  <2>1. a = NewConst(config)
    BY <1>2 DEF NewCc
  <2>2. a \in ConstType
    BY <1>1, <1>2, <2>1 DEF NewConst, ConstType
  <2> HIDE DEF a
  <2> QED
    BY <1>2, <2>1, <2>2 DEF AlgSound, ConstType, a
<1>3. CASE config.kind = "AIMD"
  <2>1. a = NewAimd
    BY <1>3 DEF NewCc
  <2> HIDE DEF a
  <2> QED
    BY <1>3, <2>1 DEF NewAimd, AimdType, AlgSound, a
<1>4. CASE config.kind = "InstantCC"
  <2>1. a = NewInstant
    BY <1>4 DEF NewCc
  <2> HIDE DEF a
  <2> QED
    BY <1>4, <2>1, NewInstantInv DEF NewInstant, AlgSound, a
<1>5. CASE config.kind = "OscInstantCC"
  <2>1. a = NewOsc
    BY <1>5 DEF NewCc
  <2> HIDE DEF a
  <2> QED
    BY <1>5, <2>1, NewOscInv DEF NewOsc, AlgSound, a
<1>6. CASE config.kind = "StableLinearCC"
  <2>1. a = NewLinear(config.delay)
    BY <1>6 DEF NewCc
  <2>2. NewLinear(config.delay) \in LinearType
    <3>1. <<>> \in Seq([seq : Nat, cwnd : Nat \ {0}])
      OBVIOUS
    <3> QED
      BY <1>1, <1>6, <3>1 DEF NewLinear, LinearType
  <2>3. NewLinear(config.delay).kind = "StableLinearCC" /\ NewLinear(config.delay).aborted = FALSE
    BY DEF NewLinear
  <2> HIDE DEF a
  <2> QED
    BY <1>6, <2>1, <2>2, <2>3 DEF AlgSound, a
<1>7. CASE config.kind = "IncreaseBdpCC"
  <2>1. a = NewBdp
    BY <1>7 DEF NewCc
  <2>2. NewBdp \in BdpType
    BY TimeMaxAssumption DEF NewBdp, BdpType, SentPkts
  <2> HIDE DEF a
  <2> QED
    BY <1>7, <2>1, <2>2 DEF NewBdp, AlgSound, a
<1>8. CASE config.kind = "Copa"
  <2>1. a = NewCopa
    BY <1>8 DEF NewCc
  <2> HIDE DEF a
  <2> QED
    BY <1>8, <2>1, NewCopaInv DEF NewCopa, AlgSound, a
<1>9. CASE config.kind = "Copa2"
  <2>1. a = NewCopa2
    BY <1>9 DEF NewCc
  <2> HIDE DEF a
  <2> QED
    BY <1>9, <2>1, NewCopa2Inv DEF NewCopa2, AlgSound, a
<1> QED
  BY <1>1, <1>2, <1>3, <1>4, <1>5, <1>6, <1>7, <1>8, <1>9

(* The invariant holds at first.                                            *)
LEMMA CcInitEstablishes == CcInit => CcInv
<1> SUFFICES ASSUME CcInit PROVE CcInv
  OBVIOUS
<1>1. /\ cc \in Answers(alg) /\ FlowInit
      /\ lastUid = 0 /\ wireUids = <<>> /\ ackUids = <<>>
  BY DEF CcInit
<1>2. PICK config \in CcConfigs : alg = NewCc(config)
  BY DEF CcInit
<1>3. FlowInv /\ now = 0 /\ nextPkt = 0 /\ wire = <<>> /\ ackPath = <<>>
  BY <1>1, FlowInitEstablishes DEF FlowInit, SenderInit
<1>4. /\ AlgSound(alg, 0) /\ alg.kind = config.kind /\ ~alg.aborted
      /\ config.kind = "Const" => alg = NewConst(config)
      /\ config.kind = "IncreaseBdpCC" => alg.lastSent = NoPkt
  BY <1>2, NewCcSound
<1>5. UidsMatch /\ UidsApart /\ UidsKnown
  BY <1>1, <1>3 DEF UidsMatch, UidsApart, UidsKnown, Carried
<1>6. now <= Till /\ WireInOrder /\ NothingMissing
  <2>1. KnownReceived(acker) = {}
    BY <1>1, NewTrackerKnown DEF FlowInit
  <2> QED
    BY <1>3, <2>1, SenderAssumption DEF WireInOrder, NothingMissing, NoGap, Window
<1>7. ConstAsConfigured /\ MarksInOrder /\ AbortsReasoned
  BY <1>3, <1>4 DEF ConstAsConfigured, MarksInOrder, AbortsReasoned
<1> QED
  BY <1>1, <1>3, <1>4, <1>5, <1>6, <1>7 DEF CcInv, CallsSound

(* Every step keeps the invariant.                                          *)
LEMMA CcStepPreserves == CcInv /\ [CcNext]_ccVars => CcInv'
<1> SUFFICES ASSUME CcInv, [CcNext]_ccVars PROVE CcInv'
  OBVIOUS
<1>1. [FlowNext]_flowVars
  BY CcStepIsFlowStep
<1>2. FlowInv' /\ now' <= Till /\ WireInOrder' /\ NothingMissing'
  BY <1>1, FlowStepPreserves, OrderKept, StillNothingMissing DEF CcInv
<1>3. CallsSound'
  <2>1. CASE UNCHANGED ccVars
    <3>1. UNCHANGED <<now, nextPkt, trackRx, wire, cc, acker, ackPath, losses>>
      BY <2>1 DEF ccVars, flowVars, senderVars
    <3>2. UNCHANGED <<alg, lastUid, wireUids, ackUids>>
      BY <2>1 DEF ccVars
    <3>3. UidsMatch' /\ UidsApart' /\ UidsKnown'
      BY <3>1, <3>2 DEF CcInv, CallsSound, UidsMatch, UidsApart, UidsKnown, Carried
    <3>4. AlgSound(alg', now') /\ cc' \in Answers(alg') /\ ConstAsConfigured'
      BY <3>1, <3>2 DEF CcInv, CallsSound, ConstAsConfigured
    <3>5. AbortsReasoned'
      BY <3>1, <3>2 DEF CcInv, CallsSound, AbortsReasoned
    <3>6. MarksInOrder'
      BY <1>1, <3>1, <3>2, MarksKept
    <3> QED
      BY <3>3, <3>4, <3>5, <3>6 DEF CallsSound
  <2>2. CASE CcNext
    <3>1. ~alg.aborted
      BY <2>2 DEF CcNext, CcRunEvent, CcReturn, CcArrive, CcPass, Running
    <3>2. \/ CcSend \/ CcTimeout \/ CcPush
          \/ CcEventOver \/ CcPushOver \/ CcDeliver \/ CcLose \/ CcTick
      BY <2>2 DEF CcNext, CcRunEvent, CcReturn, CcArrive, CcPass
    <3> QED
      BY <1>1, <3>1, <3>2, SendKeeps, TimeoutKeeps, PushKeeps, OtherStepsKeep
  <2> QED
    BY <2>1, <2>2
<1> QED
  BY <1>2, <1>3 DEF CcInv

(* What is true of the paths and the algorithm together, in every reachable  *)
(* state of a flow under a congestion control.                               *)
THEOREM CcInvariant == CcSpec => []CcInv
BY CcInitEstablishes, CcStepPreserves, PTL DEF CcSpec

(* A flow with a congestion control is one of the flows of TcpFlow, whose   *)
(* congestion control answers what it likes.                                *)
THEOREM CcImplementsFlow == CcSpec => FlowSpec
<1>1. CcInit => FlowInit
  BY DEF CcInit
<1> QED
  BY <1>1, CcStepIsFlowStep, PTL DEF CcSpec, FlowSpec

(* No algorithm aborts but StableLinearCC, Copa2 on a loss, and Copa on     *)
(* round trips of more than half its base window.                           *)
THEOREM AbortsAlwaysExplained == CcSpec => []AbortsExplained
<1>1. CcInv => AbortsExplained
  <2> SUFFICES ASSUME CcInv PROVE AbortsExplained
    OBVIOUS
  <2>1. AbortsReasoned /\ UidsKnown
    BY DEF CcInv, CallsSound
  <2> QED
    BY <2>1 DEF AbortsExplained, AbortsReasoned, UidsKnown, Carried, SlowSample
<1> QED
  BY <1>1, CcInvariant, PTL

(* Every RTTWindow always has the minimum of its samples, and the standing  *)
(* window of Copa no fast sample its base window has forgotten.             *)
THEOREM WindowsAlwaysExact == CcSpec => []WindowsExact
<1>1. CcInv => WindowsExact
  <2> SUFFICES ASSUME CcInv PROVE WindowsExact
    OBVIOUS
  <2>1. AlgSound(alg, now)
    BY DEF CcInv, CallsSound
  <2> QED
    BY <2>1, KindTells DEF WindowsExact, CopaInv, SlowSample, Copa2Inv
<1> QED
  BY <1>1, CcInvariant, PTL

(* No algorithm but OscInstantCC ever closes its window, if the constant    *)
(* windows configured are not closed from the start.                        *)
THEOREM WindowsStayOpen ==
  ASSUME MaxWindow >= 1,
         \A config \in CcConfigs : config.kind = "Const" => config.cwnd >= 1
  PROVE  CcSpec => []WindowNeverCloses
<1>1. CcInv => WindowNeverCloses
  <2> SUFFICES ASSUME CcInv PROVE WindowNeverCloses
    OBVIOUS
  <2>1. AlgSound(alg, now) /\ cc \in Answers(alg) /\ ConstAsConfigured /\ now \in Nat
    BY FlowFacts DEF CcInv, CallsSound
  <2>2. /\ GetCwnd(alg) \in Nat
        /\ \/ GetCwnd(alg) >= 1
           \/ alg.kind = "OscInstantCC" /\ alg.rttMin = 0
           \/ alg.kind = "Const" /\ alg.cwnd = 0
    BY <2>1, WindowsOpen
  <2>3. ~(alg.kind = "Const" /\ alg.cwnd = 0)
    BY <2>1, CcFlowAssumption DEF ConstAsConfigured, NewConst
  <2>4. cc.cwnd = Smaller(GetCwnd(alg), MaxWindow)
    BY <2>1 DEF Answers
  <2> QED
    BY <2>2, <2>3, <2>4, MaxWindowAssumption DEF WindowNeverCloses, Smaller
<1> QED
  BY <1>1, CcInvariant, PTL
-----------------------------------------------------------------------------
(* Types *)

(* Time between sends is a whole number of ticks: 2 * srtt / cwnd of Copa   *)
(* and 0.75 * srtt / cwnd of Copa2 divide by a window that is never 0.      *)
LEMMA IntersendsNat ==
  ASSUME NEW a, NEW time \in Nat, AlgSound(a, time)
  PROVE  GetIntersends(a) \subseteq Nat
<1>1. CASE a.kind = "Const"
  <2>1. GetIntersends(a) = {a.intersend} /\ a \in ConstType
    BY <1>1, KindTells DEF GetIntersends
  <2> QED
    BY <2>1 DEF ConstType
<1>2. CASE a.kind = "Copa"
  <2>1. GetIntersends(a) = CopaIntersends(a) /\ a \in CopaType
    BY <1>2, KindTells DEF GetIntersends, CopaInv
  <2>2. a.base.srtt \in Nat /\ a.cwnd \in Nat \ {0}
    BY <2>1 DEF CopaType, WindowType
  <2> DEFINE four == 4 * a.base.srtt
             wide == 2 * a.cwnd + 1
             slim == Larger(4, 2 * a.cwnd - 1)
  <2>3. four \in Nat /\ wide \in Nat \ {0} /\ slim \in Nat \ {0}
    BY <2>2 DEF Larger
  <2>4. CopaIntersends(a) = (four \div wide)..(four \div slim)
    BY DEF CopaIntersends
  <2> HIDE DEF four, wide, slim
  <2>5. four \div wide \in Nat /\ four \div slim \in Nat
    BY <2>3
  <2> QED
    BY <2>1, <2>4, <2>5
<1>3. CASE a.kind = "Copa2"
  <2>1. GetIntersends(a) = {Copa2Intersend(a)} /\ a \in Copa2Type
    BY <1>3, KindTells DEF GetIntersends, Copa2Inv
  <2>2. a.long.srtt \in Nat /\ a.cwnd \in Nat \ {0}
    BY <2>1 DEF Copa2Type, WindowType
  <2> DEFINE three == 3 * a.long.srtt
             four  == 4 * a.cwnd
  <2>3. three \in Nat /\ four \in Nat \ {0}
    BY <2>2
  <2>4. Copa2Intersend(a) = three \div four
    BY DEF Copa2Intersend
  <2> HIDE DEF three, four
  <2>5. three \div four \in Nat
    BY <2>3
  <2> QED
    BY <2>1, <2>4, <2>5
<1>4. CASE a.kind \notin {"Const", "Copa", "Copa2"}
  BY <1>4 DEF GetIntersends
<1> QED
  BY <1>1, <1>2, <1>3, <1>4

(* A sound algorithm is one of the types.                                   *)
LEMMA SoundTyped ==
  ASSUME NEW a, NEW time, AlgSound(a, time)
  PROVE  a \in AlgType
<1>1. \/ a \in ConstType \/ a \in AimdType \/ a \in InstantType \/ a \in OscType
      \/ a \in LinearType \/ a \in BdpType \/ a \in CopaType \/ a \in Copa2Type
  BY DEF AlgSound, InstantInv, OscInv, OscBase, CopaInv, Copa2Inv
<1> QED
  BY <1>1 DEF AlgType

(* The algorithm, its answers and the uids keep their types, and an         *)
(* algorithm answers nothing that a flow could not act on, if the sender    *)
(* takes any window up to the bound and any intersend time.                 *)
THEOREM CcAlwaysTyped ==
  ASSUME 0..MaxWindow \subseteq Cwnds, Nat \subseteq Intersends
  PROVE  CcSpec => []CcTypeOK
<1>1. CcInv => CcTypeOK
  <2> SUFFICES ASSUME CcInv PROVE CcTypeOK
    OBVIOUS
  <2>1. /\ FlowInv /\ UidsMatch
        /\ AlgSound(alg, now) /\ cc \in Answers(alg) /\ now \in Nat
    BY FlowFacts DEF CcInv, CallsSound
  <2>2. alg \in AlgType
    BY <2>1, SoundTyped
  <2>3. Answers(alg) \subseteq CcStates
    <3>1. GetCwnd(alg) \in Nat /\ GetIntersends(alg) \subseteq Nat
      BY <2>1, WindowsOpen, IntersendsNat
    <3>2. Smaller(GetCwnd(alg), MaxWindow) \in 0..MaxWindow
      BY <3>1, MaxWindowAssumption DEF Smaller
    <3> QED
      BY <3>1, <3>2 DEF Answers, CcStates
  <2>4. /\ DOMAIN wireUids = DOMAIN wire /\ DOMAIN ackUids = DOMAIN ackPath
        /\ DOMAIN wireUids = 1..Len(wireUids) /\ DOMAIN ackUids = 1..Len(ackUids)
    BY <2>1, UidFacts, LenProperties DEF UidsMatch
  <2>5. /\ \A i \in DOMAIN wireUids : wireUids[i] \in Nat \ {0}
        /\ \A i \in DOMAIN ackUids : ackUids[i] \in Nat \ {0}
    BY <2>1, <2>4 DEF UidsMatch
  <2>6. /\ \A i \in DOMAIN wireUids : wireUids[i] \in 1..lastUid
        /\ \A i \in DOMAIN ackUids : ackUids[i] \in 1..lastUid
    BY <2>1, <2>5 DEF UidsMatch
  <2> QED
    BY <2>1, <2>2, <2>3, <2>4, <2>6 DEF CcTypeOK
<1> QED
  BY <1>1, CcInvariant, PTL

-----------------------------------------------------------------------------
(* Statistics: adding up a field of the entries of the intervals *)

StatsEntry ==
  [pktPeriod : {<<>>} \cup (Nat \X Nat), cumAcked : Int, lost : Int, timeouts : Int]

StatsTyped(s) == s \in Seq(StatsEntry) /\ Len(s) = Len(StatsIntervals)

(* sum of Total, as far as the n-th entry *)
Sums(g, s, field, n) ==
  g = [k \in 0..n |-> IF k = 0 THEN 0 ELSE g[k - 1] + s[k][field]]

(* Adding up entry by entry is a function of how far it got.                *)
LEMMA SumsExist == ASSUME NEW s, NEW field, NEW m \in Nat PROVE \E g : Sums(g, s, field, m)
<1> DEFINE Stuck == {k \in Nat : ~\E g : Sums(g, s, field, k)}
<1>1. SUFFICES ASSUME Stuck # {} PROVE FALSE
  OBVIOUS
<1>2. PICK k \in Stuck : \A j \in Stuck : k <= j
  <2>1. Stuck \in SUBSET Nat
    OBVIOUS
  <2> HIDE DEF Stuck
  <2> QED
    BY <1>1, <2>1, NatMin
<1>3. k \in Nat /\ ~\E g : Sums(g, s, field, k)
  BY <1>2
<1>4. k # 0
  <2> DEFINE g == [n \in 0..0 |-> 0]
  <2>1. g = [n \in 0..0 |-> IF n = 0 THEN 0 ELSE g[n - 1] + s[n][field]]
    OBVIOUS
  <2> HIDE DEF g
  <2>2. Sums(g, s, field, 0)
    BY <2>1 DEF Sums
  <2> QED
    BY <1>3, <2>2
<1>5. k - 1 \in Nat /\ k - 1 \notin Stuck
  BY <1>2, <1>3, <1>4
<1>6. PICK g : Sums(g, s, field, k - 1)
  BY <1>5
<1> DEFINE h == [n \in 0..k |-> IF n = k THEN g[n - 1] + s[n][field] ELSE g[n]]
<1>7. ASSUME NEW n \in 0..k
      PROVE  h[n] = IF n = 0 THEN 0 ELSE h[n - 1] + s[n][field]
  <2>1. n # 0 => n - 1 \in 0..k /\ n - 1 # k
    BY <1>3
  <2>2. n # 0 => h[n - 1] = g[n - 1]
    BY <2>1
  <2>3. CASE n = k
    BY <1>4, <2>2, <2>3
  <2>4. CASE n # k
    <3>1. n \in 0..(k - 1)
      BY <1>3, <2>4
    <3>2. g[n] = IF n = 0 THEN 0 ELSE g[n - 1] + s[n][field]
      BY <1>6, <3>1 DEF Sums
    <3>3. h[n] = g[n]
      BY <2>4
    <3> QED
      BY <2>2, <3>2, <3>3
  <2> QED
    BY <2>3, <2>4
<1>8. DOMAIN h = 0..k /\ h = [n \in DOMAIN h |-> h[n]]
  OBVIOUS
<1> HIDE DEF h
<1>9. Sums(h, s, field, k)
  BY <1>7, <1>8 DEF Sums
<1> QED
  BY <1>3, <1>9

(* Total is the sum at the last entry.                                      *)
LEMMA TotalSums ==
  ASSUME NEW s, StatsTyped(s), NEW field
  PROVE  \E g : Sums(g, s, field, Len(s)) /\ Total(s, field) = g[Len(s)]
<1> DEFINE sum == CHOOSE g :
             g = [n \in 0..Len(s) |-> IF n = 0 THEN 0 ELSE g[n - 1] + s[n][field]]
<1>1. Total(s, field) = sum[Len(s)]
  BY DEF Total
<1>2. \E g : Sums(g, s, field, Len(s))
  BY SumsExist, LenProperties DEF StatsTyped
<1>3. Sums(sum, s, field, Len(s))
  BY <1>2 DEF Sums
<1> HIDE DEF sum
<1> QED
  BY <1>1, <1>3

(* r is s with x more in a field of its k-th entry; sums h are sums g with  *)
(* x more from the k-th entry on.                                           *)
MoreAt(r, s, field, m, k, x) ==
  \A n \in 1..m : s[n][field] \in Int /\ r[n][field] = IF n = k THEN s[n][field] + x ELSE s[n][field]

MoreFrom(h, g, m, k, x) ==
  \A n \in 0..m : g[n] \in Int /\ h[n] = IF 1 <= k /\ k <= n THEN g[n] + x ELSE g[n]

(* Entries that differ by x in one place have sums that do from there on.   *)
LEMMA SumsDiffer ==
  ASSUME NEW s, NEW r, NEW field, NEW m \in Nat, NEW x \in Int, NEW k \in Nat,
         MoreAt(r, s, field, m, k, x),
         NEW g, Sums(g, s, field, m), NEW h, Sums(h, r, field, m)
  PROVE  MoreFrom(h, g, m, k, x)
<1> DEFINE Fits(n) == g[n] \in Int /\ h[n] = IF 1 <= k /\ k <= n THEN g[n] + x ELSE g[n]
           Wrong == {n \in 0..m : ~Fits(n)}
<1>1. SUFFICES ASSUME Wrong # {} PROVE FALSE
  BY DEF MoreFrom
<1> HIDE DEF Fits
<1>2. PICK n \in Wrong : \A j \in Wrong : n <= j
  <2>1. Wrong \in SUBSET Nat
    OBVIOUS
  <2> HIDE DEF Wrong
  <2> QED
    BY <1>1, <2>1, NatMin
<1>3. n \in 0..m /\ ~Fits(n)
  BY <1>2
<1>4. /\ g[n] = IF n = 0 THEN 0 ELSE g[n - 1] + s[n][field]
      /\ h[n] = IF n = 0 THEN 0 ELSE h[n - 1] + r[n][field]
  BY <1>3 DEF Sums
<1>5. n # 0
  BY <1>3, <1>4 DEF Fits
<1>6. n - 1 \in 0..m /\ n - 1 \notin Wrong /\ n \in 1..m
  BY <1>2, <1>3, <1>5
<1>7. Fits(n - 1)
  BY <1>6
<1>8. s[n][field] \in Int /\ r[n][field] = IF n = k THEN s[n][field] + x ELSE s[n][field]
  BY <1>6 DEF MoreAt
<1>9. Fits(n)
  <2> DEFINE a == g[n - 1]
             b == h[n - 1]
             y == s[n][field]
             z == r[n][field]
  <2>1. a \in Int /\ b = IF 1 <= k /\ k <= n - 1 THEN a + x ELSE a
    BY <1>7 DEF Fits
  <2>2. y \in Int /\ z = (IF n = k THEN y + x ELSE y) /\ n \in Nat /\ n >= 1
    BY <1>6, <1>8
  <2>3. g[n] = a + y /\ h[n] = b + z
    BY <1>4, <1>5
  <2> HIDE DEF a, b, y, z
  <2>4. a + y \in Int
    BY <2>1, <2>2
  <2>5. b + z = IF 1 <= k /\ k <= n THEN (a + y) + x ELSE a + y
    BY <2>1, <2>2
  <2> QED
    BY <2>3, <2>4, <2>5 DEF Fits
<1> QED
  BY <1>3, <1>9

(* x more in one entry is x more in total.                                  *)
LEMMA TotalChanges ==
  ASSUME NEW s, StatsTyped(s), NEW r, StatsTyped(r), NEW field, NEW x \in Int,
         NEW k \in 1..Len(s), MoreAt(r, s, field, Len(s), k, x)
  PROVE  Total(s, field) \in Int /\ Total(r, field) = Total(s, field) + x
<1>1. PICK g : Sums(g, s, field, Len(s)) /\ Total(s, field) = g[Len(s)]
  BY TotalSums
<1>2. PICK h : Sums(h, r, field, Len(s)) /\ Total(r, field) = h[Len(s)]
  BY TotalSums DEF StatsTyped
<1>3. Len(s) \in Nat /\ k \in Nat /\ 1 <= k /\ k <= Len(s)
  BY LenProperties DEF StatsTyped
<1>4. MoreFrom(h, g, Len(s), k, x)
  BY <1>1, <1>2, <1>3, SumsDiffer
<1> QED
  BY <1>1, <1>2, <1>3, <1>4 DEF MoreFrom

(* Entries of 0 are 0 in total.                                             *)
LEMMA TotalOfNothing ==
  ASSUME NEW s, StatsTyped(s), NEW field, \A n \in 1..Len(s) : s[n][field] = 0
  PROVE  Total(s, field) = 0
<1>1. PICK g : Sums(g, s, field, Len(s)) /\ Total(s, field) = g[Len(s)]
  BY TotalSums
<1>2. Len(s) \in Nat
  BY LenProperties DEF StatsTyped
<1> DEFINE Wrong == {n \in 0..Len(s) : g[n] # 0}
<1>3. SUFFICES ASSUME Wrong # {} PROVE FALSE
  BY <1>1, <1>2
<1>4. PICK n \in Wrong : \A j \in Wrong : n <= j
  <2>1. Wrong \in SUBSET Nat
    BY <1>2
  <2> HIDE DEF Wrong
  <2> QED
    BY <1>3, <2>1, NatMin
<1>5. n \in 0..Len(s) /\ g[n] # 0
  BY <1>4
<1>6. g[n] = IF n = 0 THEN 0 ELSE g[n - 1] + s[n][field]
  BY <1>1, <1>5 DEF Sums
<1>7. n # 0 /\ n \in 1..Len(s) /\ n - 1 \in 0..Len(s) /\ n - 1 \notin Wrong
  BY <1>2, <1>4, <1>5, <1>6
<1> QED
  BY <1>5, <1>6, <1>7
(* The intervals that share out the time come one after the other.          *)
LEMMA IntervalsInOrder ==
  ASSUME Partition, NEW i \in DOMAIN StatsIntervals, NEW j \in DOMAIN StatsIntervals, i < j
  PROVE  StatsIntervals[i].to <= StatsIntervals[j].from
<1> DEFINE n == Len(StatsIntervals)
           from(k) == StatsIntervals[k].from
           to(k) == StatsIntervals[k].to
<1>1. /\ n \in Nat /\ DOMAIN StatsIntervals = 1..n
      /\ \A k \in 1..n : from(k) \in Nat /\ to(k) \in Nat
  <2>1. n \in Nat /\ DOMAIN StatsIntervals = 1..n
    BY StatsAssumption, LenProperties
  <2>2. \A k \in 1..n : StatsIntervals[k] \in [from : Nat, to : Nat]
    BY <2>1, StatsAssumption, ElementOfSeq
  <2> QED
    BY <2>1, <2>2
<1>2. /\ \A k \in 1..n : from(k) <= to(k)
      /\ \A k \in 2..n : from(k) = to(k - 1)
  BY <1>1 DEF Partition
<1> HIDE DEF n, from, to
<1> DEFINE Wrong == {k \in 1..n : i < k /\ ~(to(i) <= from(k))}
<1>3. SUFFICES ASSUME Wrong # {} PROVE FALSE
  BY <1>1 DEF to, from
<1>4. PICK k \in Wrong : \A l \in Wrong : k <= l
  <2>1. Wrong \in SUBSET Nat
    BY <1>1
  <2> HIDE DEF Wrong
  <2> QED
    BY <1>3, <2>1, NatMin
<1>5. k \in 1..n /\ i < k /\ i \in 1..n /\ ~(to(i) <= from(k))
  BY <1>1, <1>4
<1>6. k \in 2..n /\ k - 1 \in 1..n /\ from(k) = to(k - 1)
  BY <1>1, <1>2, <1>5
<1>7. k - 1 \notin Wrong
  BY <1>1, <1>4, <1>5
<1>8. k - 1 # i
  BY <1>1, <1>5, <1>6
<1>9. i < k - 1 /\ to(i) <= from(k - 1)
  BY <1>1, <1>5, <1>6, <1>7, <1>8
<1>10. from(k - 1) <= to(k - 1) /\ to(i) \in Nat /\ from(k - 1) \in Nat /\ to(k - 1) \in Nat
  BY <1>1, <1>2, <1>5, <1>6
<1> QED
  BY <1>5, <1>6, <1>9, <1>10

(* So that every time before Time::MAX is in exactly one of them.           *)
LEMMA OneInterval ==
  ASSUME Partition, NEW t \in Nat, t < TimeMax
  PROVE  \E i \in DOMAIN StatsIntervals :
           InInterval(t, i) /\ \A j \in DOMAIN StatsIntervals : InInterval(t, j) => j = i
<1> DEFINE n == Len(StatsIntervals)
           from(k) == StatsIntervals[k].from
           to(k) == StatsIntervals[k].to
<1>1. /\ n \in Nat /\ DOMAIN StatsIntervals = 1..n /\ n # 0
      /\ \A k \in 1..n : from(k) \in Nat /\ to(k) \in Nat
  <2>1. n \in Nat /\ DOMAIN StatsIntervals = 1..n
    BY StatsAssumption, LenProperties
  <2>2. \A k \in 1..n : StatsIntervals[k] \in [from : Nat, to : Nat]
    BY <2>1, StatsAssumption, ElementOfSeq
  <2>3. n # 0
    BY <2>1, StatsAssumption, EmptySeq DEF Partition
  <2> QED
    BY <2>1, <2>2, <2>3
<1>2. /\ from(1) = 0 /\ to(n) = TimeMax
      /\ \A k \in 2..n : from(k) = to(k - 1)
      /\ \A k, l \in 1..n : k < l => to(k) <= from(l)
  BY <1>1, IntervalsInOrder DEF Partition
<1>3. \A k \in 1..n : InInterval(t, k) <=> from(k) <= t /\ t < to(k)
  BY DEF InInterval
<1> HIDE DEF n, from, to
<1> DEFINE Later == {k \in 1..n : t < to(k)}
<1>4. PICK i \in Later : \A l \in Later : i <= l
  <2>1. Later \in SUBSET Nat /\ n \in Later
    BY <1>1, <1>2
  <2> HIDE DEF Later
  <2> QED
    BY <2>1, NatMin
<1>5. i \in 1..n /\ t < to(i) /\ i \in Nat
  BY <1>1, <1>4
<1>6. from(i) <= t
  <2>1. CASE i = 1
    BY <1>2, <2>1
  <2>2. CASE i # 1
    <3>1. i \in 2..n /\ i - 1 \in 1..n /\ from(i) = to(i - 1)
      BY <1>1, <1>2, <1>5, <2>2
    <3>2. i - 1 \notin Later
      BY <1>1, <1>4, <1>5
    <3>3. to(i - 1) \in Nat /\ ~(t < to(i - 1))
      BY <1>1, <3>1, <3>2
    <3> QED
      BY <3>1, <3>3
  <2> QED
    BY <2>1, <2>2
<1>7. ASSUME NEW j \in 1..n, InInterval(t, j) PROVE j = i
  <2>1. from(j) <= t /\ t < to(j) /\ from(j) \in Nat /\ to(j) \in Nat /\ from(i) \in Nat /\ to(i) \in Nat
    BY <1>1, <1>3, <1>5, <1>7
  <2>2. ~(j < i)
    BY <1>2, <1>5, <1>6, <2>1
  <2>3. ~(i < j)
    BY <1>2, <1>5, <2>1
  <2> QED
    BY <1>5, <2>2, <2>3
<1> QED
  BY <1>1, <1>3, <1>5, <1>6, <1>7

(* The entry of a new sender. *)
LEMMA NewStatsTyped ==
  /\ StatsTyped(NewSenderStats)
  /\ Total(NewSenderStats, "cumAcked") = 0 /\ Total(NewSenderStats, "lost") = 0
<1> DEFINE n == Len(StatsIntervals)
           new == [pktPeriod |-> <<>>, cumAcked |-> 0, lost |-> 0, timeouts |-> 0]
           s == NewSenderStats
<1>1. n \in Nat /\ DOMAIN StatsIntervals = 1..n
  BY StatsAssumption, LenProperties
<1>2. s = [i \in 1..n |-> new]
  BY <1>1 DEF NewSenderStats
<1>3. new \in StatsEntry
  BY DEF StatsEntry
<1>4. \A i \in 1..n : s[i].cumAcked = 0 /\ s[i].lost = 0
  BY <1>2
<1> HIDE DEF n, s, new
<1>5. s \in Seq(StatsEntry) /\ Len(s) = n
  BY <1>1, <1>2, <1>3
<1>6. StatsTyped(s)
  BY <1>5 DEF StatsTyped, n
<1>7. \A i \in 1..Len(s) : s[i]["cumAcked"] = 0 /\ s[i]["lost"] = 0
  BY <1>4, <1>5
<1>8. Total(s, "cumAcked") = 0 /\ Total(s, "lost") = 0
  BY <1>6, <1>7, TotalOfNothing
<1> QED
  BY <1>6, <1>8 DEF s

(* What a handler logs keeps the types, and over intervals that share out   *)
(* the time it is counted once.                                             *)
LEMMA LoggedOnce ==
  ASSUME NEW s, StatsTyped(s), NEW time \in Nat, NEW acked \in Int, NEW lost \in Int,
         NEW timeouts \in Int
  PROVE  LET r == LogSender(s, time, acked, lost, timeouts)
         IN  /\ StatsTyped(r)
             /\ Partition /\ time < TimeMax =>
                  /\ Total(r, "cumAcked") = Total(s, "cumAcked") + acked
                  /\ Total(r, "lost") = Total(s, "lost") + lost
<1> DEFINE n == Len(StatsIntervals)
           r == LogSender(s, time, acked, lost, timeouts)
           entry(i) == [pktPeriod |-> Extended(s[i].pktPeriod, time),
                        cumAcked  |-> s[i].cumAcked + acked,
                        lost      |-> s[i].lost + lost,
                        timeouts  |-> s[i].timeouts + timeouts]
<1>1. /\ n \in Nat /\ DOMAIN StatsIntervals = 1..n /\ Len(s) = n /\ DOMAIN s = 1..n
      /\ \A i \in 1..n : s[i] \in StatsEntry
  BY StatsAssumption, LenProperties, ElementOfSeq DEF StatsTyped
<1>2. /\ r = [i \in 1..n |-> r[i]]
      /\ \A i \in 1..n : r[i] = IF InInterval(time, i) THEN entry(i) ELSE s[i]
  BY <1>1 DEF LogSender
<1>3. ASSUME NEW i \in 1..n
      PROVE  entry(i) \in StatsEntry
  <2>1. s[i] \in StatsEntry
    BY <1>1
  <2>2. /\ s[i].cumAcked + acked \in Int /\ s[i].lost + lost \in Int
        /\ s[i].timeouts + timeouts \in Int
        /\ s[i].pktPeriod \in {<<>>} \cup (Nat \X Nat)
    BY <2>1 DEF StatsEntry
  <2>3. Extended(s[i].pktPeriod, time) \in Nat \X Nat
    BY <2>2 DEF Extended
  <2> QED
    BY <2>2, <2>3 DEF StatsEntry
<1>4. \A i \in 1..n : /\ s[i].cumAcked \in Int /\ s[i].lost \in Int
                      /\ entry(i).cumAcked = s[i].cumAcked + acked
                      /\ entry(i).lost = s[i].lost + lost
  BY <1>1 DEF StatsEntry
<1> HIDE DEF n, r, entry
<1>5. r \in Seq(StatsEntry) /\ Len(r) = n
  <2>1. \A i \in 1..n : r[i] \in StatsEntry
    BY <1>1, <1>2, <1>3
  <2> QED
    BY <1>1, <1>2, <2>1
<1>6. StatsTyped(r)
  BY <1>5 DEF StatsTyped, n
<1>7. ASSUME Partition, time < TimeMax
      PROVE  /\ Total(r, "cumAcked") = Total(s, "cumAcked") + acked
             /\ Total(r, "lost") = Total(s, "lost") + lost
  <2>1. PICK i \in 1..n : InInterval(time, i) /\ \A j \in 1..n : InInterval(time, j) => j = i
    BY <1>1, <1>7, OneInterval
  <2>2. \A j \in 1..n : r[j] = IF j = i THEN entry(j) ELSE s[j]
    BY <1>2, <2>1
  <2>3. MoreAt(r, s, "cumAcked", Len(s), i, acked) /\ MoreAt(r, s, "lost", Len(s), i, lost)
    <3>1. \A j \in 1..n : /\ s[j].cumAcked \in Int /\ s[j].lost \in Int
                          /\ r[j].cumAcked = IF j = i THEN s[j].cumAcked + acked ELSE s[j].cumAcked
                          /\ r[j].lost = IF j = i THEN s[j].lost + lost ELSE s[j].lost
      BY <1>4, <2>2
    <3> QED
      BY <1>1, <3>1 DEF MoreAt
  <2> QED
    BY <1>1, <1>6, <2>3, TotalChanges
<1> QED
  BY <1>6, <1>7 DEF r
-----------------------------------------------------------------------------
(* Statistics: packets acked *)

(* What was counted as acked is what was received without a gap.            *)
AckedInv ==
  /\ StatsTyped(stats)
  /\ Partition => Total(stats, "cumAcked") = trackRx.left

(* What push does with an ack that reaches the algorithm.                   *)
LEMMA PushDoes ==
  ASSUME FlowInv, FlowInv', CcPush
  PROVE  LET ack == Head(ackPath)
         IN  /\ ack = ackPath[1] /\ 1 \in DOMAIN ackPath /\ ack \in AckType
             /\ ackPath \in Seq(AckType) /\ ackPath # <<>> /\ ackPath' = Tail(ackPath)
             /\ AckedBy(ack) \in SUBSET Window(0, trackRx.right) /\ AckedBy(ack) \in SUBSET Nat
             /\ trackRx' = Reported(MarkAcked(trackRx, AckedBy(ack)))
             /\ KnownReceived(trackRx') = KnownReceived(trackRx) \cup AckedBy(ack)
             /\ UNCHANGED <<now, wire, acker, losses, nextPkt>>
<1> DEFINE ack == Head(ackPath)
<1>1. /\ TrackerSound(trackRx) /\ trackRx.right = nextPkt /\ nextPkt \in Nat
      /\ ackPath \in Seq(AckType)
      /\ \A i \in DOMAIN ackPath : /\ ackPath[i] \in AckType
                                   /\ AckedBy(ackPath[i]) \subseteq Window(0, nextPkt)
  BY FlowFacts DEF FlowInv, PathTrue
<1>2. /\ ackPath # <<>> /\ ~Ended /\ ack.cum > 0 /\ HandleAck(ack) /\ ackPath' = Tail(ackPath)
      /\ UNCHANGED <<acker, losses>>
  BY DEF CcPush, ReturnAck
<1>3. ack = ackPath[1] /\ 1 \in DOMAIN ackPath
  BY <1>1, <1>2
<1> HIDE DEF ack
<1>4. ack \in AckType /\ AckedBy(ack) \in SUBSET Window(0, trackRx.right)
  BY <1>1, <1>3
<1>5. AckedBy(ack) \in SUBSET Nat
  BY <1>1, <1>4 DEF Window
<1>6. PushAck(ack)
  <2>1. ack.cum \in Nat
    BY <1>4 DEF AckType
  <2> QED
    BY <1>2, <2>1 DEF HandleAck, IgnoreAck, AckPanics, Ended
<1>7. /\ trackRx' = Reported(MarkAcked(trackRx, AckedBy(ack)))
      /\ UNCHANGED <<now, wire, nextPkt>>
  BY <1>6 DEF PushAck
<1>8. KnownReceived(trackRx') = KnownReceived(trackRx) \cup AckedBy(ack)
  <2>1. TrackerSound(MarkAcked(trackRx, AckedBy(ack)))
    BY <1>1, <1>4, <1>5, MarkAckedSound
  <2> QED
    BY <1>1, <1>4, <1>7, <2>1, ReportedKnown, MarkAckedKnown
<1> QED
  BY <1>1, <1>2, <1>3, <1>4, <1>5, <1>7, <1>8 DEF ack

(* The sender then has received everything up to the cumulative ack, and    *)
(* the packet it names as missing it does not have.                         *)
LEMMA PushReachesCum ==
  ASSUME FlowInv, FlowInv', CcPush
  PROVE  trackRx'.left = Head(ackPath).cum
<1> DEFINE ack == Head(ackPath)
<1>1. /\ ack = ackPath[1] /\ 1 \in DOMAIN ackPath /\ ack \in AckType
      /\ KnownReceived(trackRx') = KnownReceived(trackRx) \cup AckedBy(ack)
  BY PushDoes
<1> HIDE DEF ack
<1>2. ack.cum \in Nat /\ Window(0, ack.cum) \subseteq AckedBy(ack)
  BY <1>1 DEF AckType, AckedBy
<1>3. ack.cum \notin KnownReceived(trackRx) /\ ack.cum \notin AckedBy(ack)
  <2>1. 1 \in 1..1
    OBVIOUS
  <2>2. /\ ackPath[1].cum \notin KnownReceived(trackRx)
        /\ \A j \in 1..1 : ackPath[1].cum \notin AckedBy(ackPath[j])
    BY <1>1 DEF FlowInv, PathInOrder
  <2> QED
    BY <1>1, <2>1, <2>2
<1>4. TrackerSound(trackRx')
  BY DEF FlowInv, SenderInv, TrackerMatchesSender
<1>5. /\ trackRx'.left \in Nat /\ trackRx'.left \notin KnownReceived(trackRx')
      /\ Window(0, trackRx'.left) \subseteq KnownReceived(trackRx')
  BY <1>4, KnownBounds
<1>6. trackRx'.left \notin Window(0, ack.cum) /\ ack.cum \notin Window(0, trackRx'.left)
  BY <1>1, <1>2, <1>3, <1>5
<1> QED
  BY <1>2, <1>5, <1>6 DEF Window, ack

(* Steps without such an ack leave the cumulative ack where it is.          *)
LEMMA LeftStays ==
  ASSUME FlowInv, FlowInv', [CcNext]_ccVars
  PROVE  CcPush \/ trackRx'.left = trackRx.left
<1>1. TrackerSound(trackRx) /\ TrackerSound(trackRx') /\ SenderInv'
  BY FlowFacts DEF FlowInv, SenderInv, TrackerMatchesSender
<1>2. ASSUME NEW e \in pending, HandleEvent(e) PROVE trackRx'.left = trackRx.left
  <2>1. KnownReceived(trackRx') = KnownReceived(trackRx)
    BY <1>1, <1>2, EventLearnsNothing
  <2>2. trackRx'.left <= trackRx.left /\ trackRx.left <= trackRx'.left
    BY <1>1, <2>1, LeftIsFirstGap
  <2>3. trackRx'.left \in Nat /\ trackRx.left \in Nat
    BY <1>1, KnownBounds
  <2> QED
    BY <2>2, <2>3
<1>3. CASE CcSend \/ CcTimeout \/ CcEventOver
  <2>1. PICK e \in pending : HandleEvent(e)
    BY <1>3 DEF CcSend, CcTimeout, CcEventOver, HandleEvent, Transmits
  <2> QED
    BY <1>2, <2>1
<1>4. CASE CcPushOver
  <2>1. HandleAck(Head(ackPath)) /\ (Ended \/ Head(ackPath).cum = 0)
    BY <1>4 DEF CcPushOver, ReturnAck
  <2>2. trackRx' = trackRx
    BY <2>1 DEF HandleAck, IgnoreAck, AckPanics, PushAck, Ended, senderVars
  <2> QED
    BY <2>2
<1>5. CASE CcDeliver \/ CcLose \/ CcTick \/ UNCHANGED ccVars
  BY <1>5 DEF CcDeliver, Deliver, CcLose, Lose, NetworkTakes, CcTick, Tick, AdvanceTime,
              ccVars, flowVars, senderVars
<1> QED
  BY <1>3, <1>4, <1>5 DEF CcNext, CcRunEvent, CcReturn, CcArrive, CcPass

(* What each step counts.                                                   *)
LEMMA StepLogs ==
  ASSUME [CcNext]_ccVars
  PROVE  \/ CcPush
         \/ stats' \in {LogSender(stats, now, 0, 0, 1), stats}
BY DEF CcNext, CcRunEvent, CcReturn, CcArrive, CcPass, CcSend, CcTimeout, CcEventOver,
       CcPushOver, CcDeliver, CcLose, CcTick, ccVars
(* Time::MAX is never reached. *)
LEMMA TimeLeft == ASSUME CcInv PROVE now \in Nat /\ now < TimeMax
<1>1. now \in Nat /\ now <= Till
  BY FlowFacts DEF CcInv
<1> QED
  BY <1>1, CcFlowAssumption, SenderAssumption, TimeMaxAssumption

(* What push counts. *)
LEMMA PushLogs ==
  ASSUME FlowInv, FlowInv', CcPush
  PROVE  LET acked == trackRx'.left - trackRx.left
             lost  == Cardinality(NewlyLost(trackRx, AckedBy(Head(ackPath))))
         IN  acked \in Int /\ lost \in Int /\ stats' = LogSender(stats, now, acked, lost, 0)
<1> DEFINE acked == AckedBy(Head(ackPath))
           newly == NewlyLost(trackRx, acked)
           marked == MarkAcked(trackRx, acked)
           gain == trackRx'.left - trackRx.left
<1>1. stats' = LogSender(stats, now, Head(ackPath).cum - trackRx.left, marked.unreported, 0)
  BY DEF CcPush, AckSeen, ReceivedTill
<1>2. trackRx'.left = Head(ackPath).cum
  BY PushReachesCum
<1>3. TrackerSound(trackRx) /\ trackRx.unreported = 0 /\ TrackerSound(trackRx')
  BY FlowFacts DEF FlowInv, SenderInv, TrackerMatchesSender
<1>4. trackRx.left \in Nat /\ trackRx'.left \in Nat /\ trackRx.right \in Nat
  BY <1>3, KnownBounds DEF TrackerSound, TrackerType
<1>5. Cardinality(newly) \in Nat
  <2>1. newly \in SUBSET Window(trackRx.left, trackRx.right)
    BY DEF NewlyLost
  <2> HIDE DEF newly
  <2> QED
    BY <1>4, <2>1, WindowParts
<1>6. marked.unreported = Cardinality(newly)
  <2>1. marked.unreported = trackRx.unreported + Cardinality(newly)
    BY DEF MarkAcked, Shrink, Tracker
  <2> QED
    BY <1>3, <1>5, <2>1
<1>7. gain \in Int /\ gain = Head(ackPath).cum - trackRx.left
  BY <1>2, <1>4
<1> HIDE DEF gain, marked, newly
<1>8. gain \in Int /\ Cardinality(newly) \in Int
      /\ stats' = LogSender(stats, now, gain, Cardinality(newly), 0)
  BY <1>1, <1>5, <1>6, <1>7
<1> QED
  BY <1>8 DEF gain, newly, acked

(* At first nothing is acked or counted. *)
LEMMA AckedInit == CcInit => AckedInv
<1> SUFFICES ASSUME CcInit PROVE AckedInv
  OBVIOUS
<1>1. stats = NewSenderStats /\ trackRx.left = 0
  BY DEF CcInit, FlowInit, SenderInit, NewTracker, Tracker
<1> QED
  BY <1>1, NewStatsTyped DEF AckedInv

(* Every step keeps the count of the packets acked. *)
LEMMA AckedStep == CcInv /\ CcInv' /\ AckedInv /\ [CcNext]_ccVars => AckedInv'
<1> SUFFICES ASSUME CcInv, CcInv', AckedInv, [CcNext]_ccVars PROVE AckedInv'
  OBVIOUS
<1>1. FlowInv /\ FlowInv' /\ now \in Nat /\ now < TimeMax
  BY TimeLeft DEF CcInv
<1>2. trackRx.left \in Nat /\ trackRx'.left \in Nat
  <2>1. TrackerSound(trackRx) /\ TrackerSound(trackRx')
    BY <1>1 DEF FlowInv, SenderInv, TrackerMatchesSender
  <2> QED
    BY <2>1, KnownBounds
<1>3. CASE CcPush
  <2> DEFINE gain == trackRx'.left - trackRx.left
             lost == Cardinality(NewlyLost(trackRx, AckedBy(Head(ackPath))))
  <2>1. gain \in Int /\ lost \in Int /\ stats' = LogSender(stats, now, gain, lost, 0)
    BY <1>1, <1>3, PushLogs
  <2>2. trackRx'.left = trackRx.left + gain
    BY <1>2
  <2> HIDE DEF gain, lost
  <2>3. /\ StatsTyped(stats')
        /\ Partition => Total(stats', "cumAcked") = Total(stats, "cumAcked") + gain
    BY <1>1, <2>1, LoggedOnce DEF AckedInv
  <2> QED
    BY <2>2, <2>3 DEF AckedInv, Partition
<1>4. CASE ~CcPush
  <2>1. trackRx'.left = trackRx.left
    BY <1>1, <1>4, LeftStays
  <2>2. CASE stats' = stats
    BY <2>1, <2>2 DEF AckedInv, Partition
  <2>3. CASE stats' = LogSender(stats, now, 0, 0, 1)
    <3>1. /\ StatsTyped(stats')
          /\ Partition => Total(stats', "cumAcked") = Total(stats, "cumAcked") + 0
      BY <1>1, <2>3, LoggedOnce DEF AckedInv
    <3> QED
      BY <1>2, <2>1, <3>1 DEF AckedInv, Partition
  <2> QED
    BY <1>4, <2>2, <2>3, StepLogs
<1> QED
  BY <1>3, <1>4

-----------------------------------------------------------------------------
(* Statistics: packets lost.  First, acks that tell everything.             *)

(* The SACK blocks of an ack have room for all that the acker has received  *)
(* beyond a gap.                                                            *)
RoomForGaps == Cardinality(SackBlocks(acker)) <= MaxSack

(* Every received packet of the window is in a block.                       *)
LEMMA InSomeBlock ==
  ASSUME NEW t, TrackerSound(t), NEW q \in ReceivedIn(t)
  PROVE  \E b \in SackBlocks(t) : q \in b[1]..(b[2] - 1)
<1>1. /\ t.left \in Nat /\ t.right \in Nat /\ q \in Nat /\ t.left <= q /\ q < t.right
      /\ t.status[q] = Received
  BY DEF TrackerSound, TrackerType, ReceivedIn, Window
<1> DEFINE runs == {a \in t.left..q : \A p \in a..q : t.status[p] = Received}
           ends == {e \in (q + 1)..t.right : e = t.right \/ t.status[e] # Received}
<1>2. PICK a \in runs : \A c \in runs : a <= c
  <2>1. runs \in SUBSET Nat /\ q \in runs
    BY <1>1
  <2> HIDE DEF runs
  <2> QED
    BY <2>1, NatMin
<1>3. a \in Nat /\ t.left <= a /\ a <= q /\ \A p \in a..q : t.status[p] = Received
  BY <1>1
<1>4. a > t.left => t.status[a - 1] # Received
  <2> SUFFICES ASSUME a > t.left, t.status[a - 1] = Received PROVE FALSE
    OBVIOUS
  <2>1. a - 1 \in t.left..q /\ (a - 1)..q = {a - 1} \cup (a..q)
    BY <1>1, <1>3
  <2>2. a - 1 \in runs
    BY <1>3, <2>1
  <2> QED
    BY <1>2, <1>3, <2>2
<1> HIDE DEF runs
<1>5. PICK e \in ends : \A c \in ends : e <= c
  <2>1. ends \in SUBSET Nat /\ t.right \in ends
    BY <1>1
  <2> HIDE DEF ends
  <2> QED
    BY <2>1, NatMin
<1>6. e \in Nat /\ q < e /\ e <= t.right /\ (e < t.right => t.status[e] # Received)
  BY <1>1, <1>5
<1>7. ASSUME NEW p \in a..(e - 1) PROVE t.status[p] = Received
  <2>1. CASE p <= q
    BY <1>1, <1>3, <2>1
  <2>2. CASE ~(p <= q)
    <3>1. p \in (q + 1)..t.right /\ ~(e <= p) /\ p # t.right
      BY <1>1, <1>3, <1>6, <2>2
    <3>2. p \notin ends
      BY <1>5, <3>1
    <3> QED
      BY <3>1, <3>2
  <2> QED
    BY <2>1, <2>2
<1> HIDE DEF ends
<1> DEFINE b == <<a, e>>
<1>8. b \in (t.left..t.right) \X (t.left..t.right) /\ b[1] = a /\ b[2] = e
  BY <1>1, <1>3, <1>6
<1> HIDE DEF b
<1>9. b \in SackBlocks(t)
  BY <1>1, <1>3, <1>4, <1>6, <1>7, <1>8 DEF SackBlocks
<1>10. q \in b[1]..(b[2] - 1)
  BY <1>1, <1>3, <1>6, <1>8
<1> QED
  BY <1>9, <1>10

(* The blocks can be counted. *)
LEMMA BlocksFinite ==
  ASSUME NEW t, TrackerSound(t)
  PROVE  IsFiniteSet(SackBlocks(t)) /\ Cardinality(SackBlocks(t)) \in Nat
<1> DEFINE edges == t.left..t.right
<1>1. IsFiniteSet(edges)
  <2>1. t.left \in Int /\ t.right \in Int
    BY DEF TrackerSound, TrackerType
  <2> QED
    BY <2>1, FS_Interval
<1>2. IsFiniteSet(edges \X edges)
  BY <1>1, FS_Product
<1>3. SackBlocks(t) \in SUBSET (edges \X edges)
  BY DEF SackBlocks
<1> QED
  BY <1>2, <1>3, FS_Subset, FS_CardinalityType

(* With room for all blocks, all are sent. *)
LEMMA AllSacked ==
  ASSUME NEW t, TrackerSound(t), NEW max \in Nat, Cardinality(SackBlocks(t)) <= max
  PROVE  ReceivedIn(t) \subseteq Sacked(GenerateSack(t, max))
<1>1. ASSUME NEW b \in SackBlocks(t)
      PROVE  b \in GenerateSack(t, max)
  <2> DEFINE above == {c \in SackBlocks(t) : c[1] > b[1]}
             others == SackBlocks(t) \ {b}
  <2>1. /\ IsFiniteSet(others) /\ Cardinality(others) = Cardinality(SackBlocks(t)) - 1
        /\ Cardinality(SackBlocks(t)) \in Nat
    BY BlocksFinite, FS_RemoveElement
  <2>2. above \in SUBSET others
    <3>1. b[1] \in Int
      BY DEF SackBlocks, TrackerSound, TrackerType
    <3>2. ~(b[1] > b[1])
      BY <3>1
    <3> QED
      BY <3>2
  <2>3. Cardinality(above) <= Cardinality(others) /\ Cardinality(above) \in Nat
    <3> HIDE DEF above, others
    <3> QED
      BY <2>1, <2>2, FS_Subset, FS_CardinalityType
  <2>4. Cardinality(above) < max
    BY <2>1, <2>3
  <2> QED
    BY <2>4 DEF GenerateSack
<1>2. ASSUME NEW q \in ReceivedIn(t)
      PROVE  q \in Sacked(GenerateSack(t, max))
  <2>1. PICK b \in SackBlocks(t) : q \in b[1]..(b[2] - 1)
    BY InSomeBlock
  <2> QED
    BY <1>1, <2>1 DEF Sacked
<1> QED
  BY <1>2

(* Then an ack tells everything the acker has received.                     *)
LEMMA AckTellsAll ==
  ASSUME NEW t, TrackerSound(t), Cardinality(SackBlocks(t)) <= MaxSack, NEW pkt
  PROVE  KnownReceived(t) \subseteq AckedBy(AckOf(t, pkt))
<1>1. ReceivedIn(t) \subseteq Sacked(GenerateSack(t, MaxSack))
  BY AllSacked, FlowAssumption
<1>2. AckOf(t, pkt).cum = t.left /\ AckOf(t, pkt).sack = Sacked(GenerateSack(t, MaxSack))
  BY DEF AckOf, ReceivedTill
<1> QED
  BY <1>1, <1>2 DEF AckedBy, KnownReceived

(* Blocks of packets that lie apart: a short flow has few.                  *)
LEMMA BlocksApart ==
  ASSUME NEW t, TrackerSound(t), NEW b \in SackBlocks(t)
  PROVE  /\ b[1] \in Nat /\ 1 <= b[1] /\ b[1] + 1 <= t.right
         /\ \A c \in SackBlocks(t) : b[1] < c[1] => b[1] + 2 <= c[1]
         /\ \A c \in SackBlocks(t) : b[1] = c[1] => b = c
<1>1. /\ t.left \in Nat /\ t.right \in Nat
      /\ t.left < t.right => t.status[t.left] # Received
  BY DEF TrackerSound, TrackerType, WindowSound
<1>2. \A c \in SackBlocks(t) :
        /\ c \in (t.left..t.right) \X (t.left..t.right)
        /\ c[1] \in t.left..t.right /\ c[2] \in t.left..t.right /\ c[1] < c[2]
        /\ \A p \in c[1]..(c[2] - 1) : t.status[p] = Received
        /\ c[1] > t.left => t.status[c[1] - 1] # Received
        /\ c[2] < t.right => t.status[c[2]] # Received
  BY DEF SackBlocks
<1>3. /\ b[1] \in Nat /\ b[2] \in Nat /\ t.left <= b[1] /\ b[1] < b[2] /\ b[2] <= t.right
      /\ t.status[b[1]] = Received
  <2>1. /\ b[1] \in t.left..t.right /\ b[2] \in t.left..t.right /\ b[1] < b[2]
        /\ \A p \in b[1]..(b[2] - 1) : t.status[p] = Received
    BY <1>2
  <2>2. b[1] \in b[1]..(b[2] - 1)
    BY <1>1, <2>1
  <2> QED
    BY <1>1, <2>1, <2>2
<1>4. b[1] # t.left
  BY <1>1, <1>3
<1>5. ASSUME NEW c \in SackBlocks(t), b[1] < c[1] PROVE b[1] + 2 <= c[1]
  <2>1. c[1] \in Nat /\ c[1] > t.left /\ t.status[c[1] - 1] # Received
    BY <1>1, <1>2, <1>3, <1>5
  <2>2. c[1] - 1 # b[1]
    BY <1>3, <2>1
  <2> QED
    BY <1>3, <1>5, <2>1, <2>2
<1>6. ASSUME NEW c \in SackBlocks(t), b[1] = c[1] PROVE b = c
  <2>1. /\ c[2] \in Nat /\ c[1] < c[2] /\ c[2] <= t.right
        /\ \A p \in c[1]..(c[2] - 1) : t.status[p] = Received
        /\ c[2] < t.right => t.status[c[2]] # Received
    BY <1>1, <1>2
  <2>2. /\ \A p \in b[1]..(b[2] - 1) : t.status[p] = Received
        /\ b[2] < t.right => t.status[b[2]] # Received
    BY <1>2
  <2>3. ~(b[2] < c[2])
    <3>1. b[2] < c[2] => b[2] \in c[1]..(c[2] - 1)
      BY <1>3, <1>6, <2>1
    <3> QED
      BY <1>1, <1>3, <2>1, <2>2, <3>1
  <2>4. ~(c[2] < b[2])
    <3>1. c[2] < b[2] => c[2] \in b[1]..(b[2] - 1)
      BY <1>3, <1>6, <2>1
    <3> QED
      BY <1>1, <1>3, <2>1, <2>2, <3>1
  <2>5. b[2] = c[2]
    BY <1>3, <2>1, <2>3, <2>4
  <2>6. b = <<b[1], b[2]>> /\ c = <<c[1], c[2]>>
    BY <1>2
  <2> QED
    BY <1>6, <2>5, <2>6
<1> QED
  BY <1>1, <1>3, <1>4, <1>5, <1>6

(* A tracker that has seen 2 * max + 1 packets has at most max blocks: its  *)
(* first packet is in none, and two blocks have a gap between them.         *)
LEMMA FewBlocks ==
  ASSUME NEW t, TrackerSound(t), NEW max \in Nat, t.right <= 2 * max + 1
  PROVE  Cardinality(SackBlocks(t)) <= max
<1> DEFINE half == [b \in SackBlocks(t) |-> (b[1] - 1) \div 2]
<1>1. ASSUME NEW b \in SackBlocks(t)
      PROVE  half[b] \in 0..(max - 1)
  <2>1. b[1] \in Nat /\ 1 <= b[1] /\ b[1] + 1 <= t.right /\ t.right \in Nat
    BY BlocksApart DEF TrackerSound, TrackerType
  <2> QED
    BY <2>1
<1>2. ASSUME NEW b \in SackBlocks(t), NEW c \in SackBlocks(t), half[b] = half[c]
      PROVE  b = c
  <2>1. /\ b[1] \in Nat /\ c[1] \in Nat
        /\ b[1] < c[1] => b[1] + 2 <= c[1]
        /\ c[1] < b[1] => c[1] + 2 <= b[1]
        /\ b[1] = c[1] => b = c
    BY BlocksApart
  <2>2. (b[1] - 1) \div 2 = (c[1] - 1) \div 2
    BY <1>2
  <2>3. b[1] = c[1]
    BY <2>1, <2>2
  <2> QED
    BY <2>1, <2>3
<1>3. half \in Injection(SackBlocks(t), 0..(max - 1))
  BY <1>1, <1>2 DEF Injection, IsInjective
<1>4. IsFiniteSet(0..(max - 1)) /\ Cardinality(0..(max - 1)) = max
  <2> DEFINE top == max - 1
  <2>1. 0 \in Int /\ top \in Int /\ (0 > top => max = 0) /\ (~(0 > top) => top - 0 + 1 = max)
    OBVIOUS
  <2> HIDE DEF top
  <2>2. IsFiniteSet(0..top) /\ Cardinality(0..top) = IF 0 > top THEN 0 ELSE top - 0 + 1
    BY <2>1, FS_Interval
  <2>3. IsFiniteSet(0..top) /\ Cardinality(0..top) = max
    BY <2>1, <2>2
  <2> QED
    BY <2>3 DEF top
<1> HIDE DEF half
<1> QED
  BY <1>3, <1>4, FS_Injection

-----------------------------------------------------------------------------
(* Statistics: packets lost.  Second, the packets that are undecided, and  *)
(* neither on the wire nor at the acker: each has cost a loss that the      *)
(* sender has not counted yet.                                              *)
Gone(t, w, a) ==
  {q \in Window(t.left, t.right) :
     Undecided(t.status, q) /\ q \notin KnownReceived(a) /\ ~Flies(w, q)}

(* An ack that covers a packet sent after the last copy of another covers   *)
(* that one as well, or it is nowhere.                                      *)
Passes(t, w, a, ack) ==
  \A q \in Window(t.left, t.right), p \in AckedBy(ack) :
    Undecided(t.status, q) /\ p > MarkOf(t.status[q], q) =>
      q \in AckedBy(ack) \/ q \in Gone(t, w, a)

NoneOvertaken(t, w, a, path) == \A i \in DOMAIN path : Passes(t, w, a, path[i])

(* The losses cover what was counted and what is gone.                      *)
LossInv ==
  /\ NoneOvertaken(trackRx, wire, acker, ackPath)
  /\ Partition =>
       /\ Total(stats, "lost") \in Int
       /\ Total(stats, "lost") + Cardinality(Gone(trackRx, wire, acker)) <= losses

(* What is gone can be counted. *)
LEMMA GoneCounted ==
  ASSUME NEW t, TrackerSound(t), NEW w, NEW a
  PROVE  IsFiniteSet(Gone(t, w, a)) /\ Cardinality(Gone(t, w, a)) \in Nat
<1>1. t.left \in Nat /\ t.right \in Nat
  BY DEF TrackerSound, TrackerType
<1>2. Gone(t, w, a) \in SUBSET Window(t.left, t.right)
  BY DEF Gone
<1> QED
  BY <1>1, <1>2, WindowParts

(* When the statuses are kept and only what arrives leaves the wire, what   *)
(* is gone was gone before.                                                 *)
LEMMA GoneBefore ==
  ASSUME NEW t, NEW u, StatusesKept(t, u), NEW w, NEW v, NEW a, NEW b,
         KnownReceived(a) \subseteq KnownReceived(b),
         \A q : q \notin KnownReceived(b) => (Flies(w, q) => Flies(v, q))
  PROVE  Gone(u, v, b) \subseteq Gone(t, w, a)
BY DEF Gone, StatusesKept

(* And what was gone and is still undecided is gone.                        *)
LEMMA PassesKept ==
  ASSUME NEW t, NEW u, StatusesKept(t, u), NEW w, NEW v, NEW a, NEW b, NEW ack,
         \A q : q \notin KnownReceived(a) /\ ~Flies(w, q) =>
                  q \notin KnownReceived(b) /\ ~Flies(v, q),
         Passes(t, w, a, ack)
  PROVE  Passes(u, v, b, ack)
<1> SUFFICES ASSUME NEW q \in Window(u.left, u.right), NEW p \in AckedBy(ack),
                    Undecided(u.status, q), p > MarkOf(u.status[q], q)
             PROVE  q \in AckedBy(ack) \/ q \in Gone(u, v, b)
  BY DEF Passes
<1>1. /\ q \in Window(t.left, t.right) /\ Undecided(t.status, q)
      /\ MarkOf(t.status[q], q) = MarkOf(u.status[q], q)
  BY DEF StatusesKept, MarkOf
<1>2. q \in AckedBy(ack) \/ q \in Gone(t, w, a)
  BY <1>1 DEF Passes
<1> QED
  BY <1>2 DEF Gone

(* Fewer gone, and no loss reported. *)
LEMMA LossQuiet ==
  ASSUME CcInv, LossInv, NoneOvertaken(trackRx', wire', acker', ackPath'),
         Gone(trackRx', wire', acker') \subseteq Gone(trackRx, wire, acker),
         Partition => Total(stats', "lost") = Total(stats, "lost"), losses' = losses
  PROVE  LossInv'
<1>1. TrackerSound(trackRx) /\ losses \in Nat
  BY FlowFacts, FlowAssumption DEF CcInv, FlowInv
<1> DEFINE A == Gone(trackRx, wire, acker)
           B == Gone(trackRx', wire', acker')
<1>2. IsFiniteSet(A) /\ Cardinality(A) \in Nat
  BY <1>1, GoneCounted
<1>3. B \in SUBSET A
  OBVIOUS
<1>4. Partition => Total(stats, "lost") \in Int /\ Total(stats, "lost") + Cardinality(A) <= losses
  BY DEF LossInv
<1>5. NoneOvertaken(trackRx', wire', acker', ackPath')
  OBVIOUS
<1>6. LossInv' <=> /\ NoneOvertaken(trackRx', wire', acker', ackPath')
                   /\ Partition => /\ Total(stats', "lost") \in Int
                                   /\ Total(stats', "lost") + Cardinality(B) <= losses'
  BY DEF LossInv, Partition
<1> HIDE DEF A, B
<1>7. Cardinality(B) <= Cardinality(A) /\ Cardinality(B) \in Nat
  BY <1>2, <1>3, FS_Subset, FS_CardinalityType
<1> QED
  BY <1>1, <1>2, <1>4, <1>5, <1>6, <1>7
(* Only push reports losses. *)
LEMMA NoLossReported ==
  ASSUME CcInv, AckedInv, LossInv, [CcNext]_ccVars
  PROVE  CcPush \/ (Partition => Total(stats', "lost") = Total(stats, "lost"))
<1>1. now \in Nat /\ now < TimeMax
  BY TimeLeft
<1>2. ASSUME stats' = LogSender(stats, now, 0, 0, 1), Partition
      PROVE  Total(stats', "lost") = Total(stats, "lost")
  <2>1. Total(stats', "lost") = Total(stats, "lost") + 0
    BY <1>1, <1>2, LoggedOnce DEF AckedInv
  <2> QED
    BY <1>2, <2>1 DEF LossInv
<1> QED
  BY <1>2, StepLogs

(* A step that keeps the statuses and the wire: a timeout, or no step at    *)
(* all, or an ack that is not heard.                                        *)
LEMMA LossStill ==
  ASSUME CcInv, AckedInv, LossInv, [CcNext]_ccVars, ~CcPush,
         StatusesKept(trackRx, trackRx'), UNCHANGED <<wire, acker, losses>>,
         ackPath' = ackPath \/ (ackPath # <<>> /\ ackPath' = Tail(ackPath))
  PROVE  LossInv'
<1>1. ackPath \in Seq(AckType)
  BY FlowFacts DEF CcInv, FlowInv, PathTrue
<1>2. \A i \in DOMAIN ackPath' : \E j \in DOMAIN ackPath : ackPath'[i] = ackPath[j]
  <2>1. CASE ackPath' = ackPath
    BY <2>1
  <2>2. CASE ackPath # <<>> /\ ackPath' = Tail(ackPath)
    <3>1. /\ Len(ackPath) \in Nat /\ DOMAIN ackPath = 1..Len(ackPath)
          /\ DOMAIN ackPath' = 1..(Len(ackPath) - 1)
          /\ \A i \in 1..(Len(ackPath) - 1) : ackPath'[i] = ackPath[i + 1]
      BY <1>1, <2>2, HeadTailProperties, LenProperties
    <3>2. \A i \in 1..(Len(ackPath) - 1) : i + 1 \in 1..Len(ackPath)
      BY <3>1
    <3> QED
      BY <3>1, <3>2
  <2> QED
    BY <2>1, <2>2
<1>3. \A i \in DOMAIN ackPath : Passes(trackRx', wire', acker', ackPath[i])
  BY PassesKept DEF LossInv, NoneOvertaken
<1>4. NoneOvertaken(trackRx', wire', acker', ackPath')
  BY <1>2, <1>3 DEF NoneOvertaken
<1>5. Gone(trackRx', wire', acker') \subseteq Gone(trackRx, wire, acker)
  BY GoneBefore
<1> QED
  BY <1>4, <1>5, NoLossReported, LossQuiet

(* A packet is sent: it is on the wire, and no ack is ahead of it.          *)
LEMMA LossSent ==
  ASSUME CcInv, LossInv, NEW seq \in Nat, NEW new \in PktStatus,
         new # Received, seq >= trackRx.left, seq <= nextPkt,
         trackRx' = MarkPkt(trackRx, seq, new), MarkOf(new, seq) = nextPkt,
         wire' = Append(wire, [seq |-> seq, sentTime |-> now]),
         UNCHANGED <<acker, ackPath, losses, stats>>
  PROVE  LossInv'
<1> DEFINE pkt == [seq |-> seq, sentTime |-> now]
<1>1. /\ TrackerSound(trackRx) /\ nextPkt \in Nat /\ now \in Nat
      /\ wire \in Seq(PacketsOnWire) /\ trackRx.right = nextPkt
      /\ \A i \in DOMAIN ackPath : AckedBy(ackPath[i]) \subseteq Window(0, nextPkt)
  BY FlowFacts DEF CcInv
<1>2. pkt \in PacketsOnWire /\ pkt.seq = seq
  BY <1>1 DEF PacketsOnWire
<1> HIDE DEF pkt
<1>3. \A q \in Window(trackRx'.left, trackRx'.right) :
        \/ q = seq /\ trackRx'.status[q] = new
        \/ q # seq /\ q \in Window(trackRx.left, trackRx.right)
             /\ trackRx'.status[q] = trackRx.status[q]
  <2> DEFINE u == MarkPkt(trackRx, seq, new)
  <2>1. /\ TrackerSound(trackRx) /\ seq \in Nat /\ new \in PktStatus /\ new # Received
        /\ seq >= trackRx.left /\ seq <= trackRx.right
    BY <1>1
  <2>2. \A q \in Window(u.left, u.right) :
          \/ q = seq /\ u.status[q] = new
          \/ q # seq /\ q \in Window(trackRx.left, trackRx.right)
               /\ u.status[q] = trackRx.status[q]
    BY ONLY <2>1, MarkPktStatus
  <2>3. trackRx' = u
    OBVIOUS
  <2> HIDE DEF u
  <2> QED
    BY ONLY <2>2, <2>3
<1>4. wire' = Append(wire, pkt)
  BY DEF pkt
<1>5. \A q : Flies(wire', q) <=> Flies(wire, q) \/ seq = q
  BY <1>1, <1>2, <1>4, SentLast
<1>6. Gone(trackRx', wire', acker') \subseteq Gone(trackRx, wire, acker)
  BY <1>3, <1>5 DEF Gone, Undecided
<1>7. ASSUME NEW i \in DOMAIN ackPath
      PROVE  Passes(trackRx', wire', acker', ackPath[i])
  <2> DEFINE ack == ackPath[i]
  <2>1. AckedBy(ack) \subseteq Window(0, nextPkt) /\ Passes(trackRx, wire, acker, ack)
    BY <1>1 DEF LossInv, NoneOvertaken
  <2> HIDE DEF ack
  <2>2. ASSUME NEW q \in Window(trackRx'.left, trackRx'.right), NEW p \in AckedBy(ack),
               Undecided(trackRx'.status, q), p > MarkOf(trackRx'.status[q], q)
        PROVE  q \in AckedBy(ack) \/ q \in Gone(trackRx', wire', acker')
    <3>1. p \in Window(0, nextPkt)
      BY <2>1
    <3>2. ~(p > nextPkt)
      BY <1>1, <3>1 DEF Window
    <3>3. /\ q # seq /\ q \in Window(trackRx.left, trackRx.right)
          /\ trackRx'.status[q] = trackRx.status[q]
      BY <1>3, <2>2, <3>2
    <3>4. q \in AckedBy(ack) \/ q \in Gone(trackRx, wire, acker)
      BY <2>1, <2>2, <3>3 DEF Passes, Undecided
    <3> QED
      BY <1>5, <2>2, <3>3, <3>4 DEF Gone
  <2> QED
    BY <2>2 DEF Passes, ack
<1>8. NoneOvertaken(trackRx', wire', acker', ackPath')
  BY <1>7 DEF NoneOvertaken
<1> QED
  BY <1>6, <1>8, LossQuiet

(* An event of the sender, a transmission or a timeout.                     *)
LEMMA LossEvent ==
  ASSUME CcInv, AckedInv, LossInv, [CcNext]_ccVars, ~CcPush, CcSend \/ CcTimeout \/ CcEventOver
  PROVE  LossInv'
<1>1. /\ TrackerSound(trackRx) /\ nextPkt \in Nat /\ now \in Nat /\ trackRx.right = nextPkt
      /\ trackRx.left \in Nat /\ trackRx.left <= nextPkt
  BY FlowFacts, KnownBounds DEF CcInv
<1>2. CASE CcSend
  <2>1. UNCHANGED <<acker, ackPath, losses, stats>>
    BY <1>2 DEF CcSend
  <2>2. PICK e \in Transmits : Retransmit(e) \/ TransmitFresh(e)
    BY <1>2 DEF CcSend
  <2>3. CASE Retransmit(e)
    <3> DEFINE seq == FirstLost(trackRx)
               new == Retransmitted(0, nextPkt)
    <3>1. /\ trackRx.lost > 0
          /\ trackRx' = MarkPkt(trackRx, seq, new)
          /\ wire' = Append(wire, [seq |-> seq, sentTime |-> now])
      BY <2>3 DEF Retransmit, Send
    <3>2. seq \in LostIn(trackRx)
      BY <1>1, <3>1, FirstLostFound
    <3>3. seq \in Nat /\ seq >= trackRx.left /\ seq <= nextPkt
      BY <1>1, <3>2 DEF LostIn, Window
    <3>4. /\ new \in PktStatus /\ new # Received
      BY <1>1, StatusesDistinct
    <3>5. MarkOf(new, seq) = nextPkt
      BY DEF Retransmitted, MarkOf
    <3> HIDE DEF seq, new
    <3> QED
      BY <2>1, <3>1, <3>3, <3>4, <3>5, LossSent
  <2>4. CASE TransmitFresh(e)
    <3> DEFINE new == NotReceived(0)
    <3>1. /\ trackRx' = MarkPkt(trackRx, nextPkt, new)
          /\ wire' = Append(wire, [seq |-> nextPkt, sentTime |-> now])
      BY <2>4 DEF TransmitFresh, Send
    <3>2. new \in PktStatus /\ new # Received
      BY StatusesDistinct
    <3>3. MarkOf(new, nextPkt) = nextPkt
      BY DEF NotReceived, MarkOf
    <3> HIDE DEF new
    <3>4. nextPkt \in Nat /\ nextPkt >= trackRx.left /\ nextPkt <= nextPkt
      BY <1>1
    <3> QED
      BY <2>1, <3>1, <3>2, <3>3, <3>4, LossSent
  <2> QED
    BY <2>2, <2>3, <2>4
<1>3. CASE CcTimeout
  <2>1. UNCHANGED <<acker, ackPath, losses>>
    BY <1>3 DEF CcTimeout
  <2>2. PICK e \in pending : TimeoutFires(e)
    BY <1>3 DEF CcTimeout
  <2>3. trackRx' = MarkAllAsLost(trackRx) /\ wire' = wire
    BY <2>2 DEF TimeoutFires
  <2>4. StatusesKept(trackRx, trackRx')
    BY <1>1, <2>3, TimeoutStatus
  <2> QED
    BY <2>1, <2>3, <2>4, LossStill
<1>4. CASE CcEventOver
  <2>1. UNCHANGED <<trackRx, wire, acker, ackPath, losses>>
    BY <1>4 DEF CcEventOver, EventAfterEnd, TimeoutStale
  <2>2. StatusesKept(trackRx, trackRx')
    BY <2>1 DEF StatusesKept
  <2> QED
    BY <2>1, <2>2, LossStill
<1> QED
  BY <1>2, <1>3, <1>4

-----------------------------------------------------------------------------
(* At first no ack is on its way and no packet is gone. *)
LEMMA LossInit == CcInit => LossInv
<1> SUFFICES ASSUME CcInit PROVE LossInv
  OBVIOUS
<1>1. /\ stats = NewSenderStats /\ trackRx = NewTracker /\ losses = 0 /\ ackPath = <<>>
  BY DEF CcInit, FlowInit, SenderInit
<1>2. Gone(trackRx, wire, acker) = {}
  BY <1>1 DEF Gone, NewTracker, Tracker, Window
<1>3. Cardinality({}) = 0
  BY FS_EmptySet
<1>4. NoneOvertaken(trackRx, wire, acker, ackPath)
  BY <1>1 DEF NoneOvertaken
<1> QED
  BY <1>1, <1>2, <1>3, <1>4, NewStatsTyped DEF LossInv

(* A packet arrives.  What its ack does not tell of the acker does not have, *)
(* and of what was sent before the packets it tells of nothing is on the     *)
(* wire any more.                                                            *)
LEMMA LossDelivered ==
  ASSUME CcInv, LossInv, FlowInv', FateInv', RoomForGaps', CcDeliver
  PROVE  LossInv'
<1> DEFINE pkt == Head(wire)
           ack == AckOf(acker', pkt)
           q1  == pkt.seq
<1>1. /\ FlowInv /\ TrackerSound(trackRx) /\ TrackerSound(acker) /\ TrackerSound(acker')
      /\ wire \in Seq(PacketsOnWire) /\ ackPath \in Seq(AckType)
      /\ KnownReceived(acker') \subseteq Window(0, nextPkt')
  <2>1. /\ FlowInv /\ TrackerSound(trackRx) /\ TrackerSound(acker) /\ TrackerSound(acker')
        /\ wire \in Seq(PacketsOnWire) /\ ackPath \in Seq(AckType) /\ nextPkt \in Nat
        /\ acker'.right <= nextPkt'
    BY FlowFacts DEF CcInv, FlowInv, PathTrue, AckerSound
  <2>2. nextPkt' = nextPkt
    BY DEF CcDeliver, Deliver, NetworkTakes
  <2>3. KnownReceived(acker') \subseteq Window(0, acker'.right) /\ acker'.right \in Nat
    BY <2>1, KnownBounds DEF TrackerSound, TrackerType
  <2> QED
    BY <2>1, <2>2, <2>3 DEF Window
<1>2. /\ 1 \in DOMAIN wire /\ wire' = Without(wire, 1)
      /\ UNCHANGED <<nextPkt, trackRx, losses, stats>>
      /\ acker' = MarkPkt(acker, q1, Received) /\ ackPath' = Append(ackPath, ack)
  BY DEF CcDeliver, Deliver, NetworkTakes
<1>3. pkt = wire[1] /\ pkt \in PacketsOnWire /\ q1 \in Nat
  <2>1. pkt = wire[1] /\ wire[1] \in PacketsOnWire
    BY <1>1, <1>2
  <2> QED
    BY <2>1 DEF PacketsOnWire
<1>4. KnownReceived(acker') = KnownReceived(acker) \cup {q1}
  BY <1>1, <1>2, <1>3, MarkPktKnown, StatusesDistinct
<1>5. /\ ack \in AckType /\ AckedBy(ack) \subseteq KnownReceived(acker')
      /\ KnownReceived(acker') \subseteq AckedBy(ack)
  <2>1. ack \in AckType /\ AckedBy(ack) \subseteq KnownReceived(acker')
    BY <1>1, <1>3, AckOfTrue
  <2>2. Cardinality(SackBlocks(acker')) <= MaxSack
    BY DEF RoomForGaps
  <2> QED
    BY <1>1, <2>1, <2>2, AckTellsAll
<1> HIDE DEF pkt, ack
<1>6. wire[1].seq = q1
  BY <1>3
<1>7. ASSUME NEW q
      PROVE  /\ Flies(wire', q) => Flies(wire, q)
             /\ q # q1 => (Flies(wire, q) => Flies(wire', q))
  BY <1>1, <1>2, <1>6, TakenOff
<1>8. Flies(wire, q1) /\ StatusesKept(trackRx, trackRx')
  BY <1>2, <1>6 DEF Flies, StatusesKept
<1> HIDE DEF q1
<1>9. Gone(trackRx', wire', acker') \subseteq Gone(trackRx, wire, acker)
  BY <1>4, <1>7, <1>8, GoneBefore
<1>10. ASSUME NEW i \in DOMAIN ackPath
       PROVE  Passes(trackRx', wire', acker', ackPath[i])
  <2>1. \A q : q \notin KnownReceived(acker) /\ ~Flies(wire, q) =>
                 q \notin KnownReceived(acker') /\ ~Flies(wire', q)
    BY <1>4, <1>7, <1>8
  <2>2. Passes(trackRx, wire, acker, ackPath[i])
    BY DEF LossInv, NoneOvertaken
  <2> QED
    BY <1>8, <2>1, <2>2, PassesKept
<1>11. Passes(trackRx', wire', acker', ack)
  <2> SUFFICES ASSUME NEW q \in Window(trackRx'.left, trackRx'.right), NEW p \in AckedBy(ack),
                      Undecided(trackRx'.status, q), p > MarkOf(trackRx'.status[q], q)
               PROVE  q \in AckedBy(ack) \/ q \in Gone(trackRx', wire', acker')
    BY DEF Passes
  <2>1. p \in KnownReceived(acker') /\ p \in Window(0, nextPkt')
    BY <1>1, <1>5
  <2>2. SentBefore(trackRx', wire', acker', nextPkt')
    BY DEF FateInv
  <2>3. ~Flies(wire', q)
    BY <2>1, <2>2 DEF SentBefore
  <2> QED
    BY <1>5, <2>3 DEF Gone
<1>12. NoneOvertaken(trackRx', wire', acker', ackPath')
  <2>1. /\ DOMAIN ackPath = 1..Len(ackPath) /\ Len(ackPath) \in Nat
        /\ DOMAIN ackPath' = 1..(Len(ackPath) + 1)
        /\ ackPath'[Len(ackPath) + 1] = ack
        /\ \A i \in 1..Len(ackPath) : ackPath'[i] = ackPath[i]
    BY <1>1, <1>2, <1>5, AppendProperties, LenProperties
  <2>2. ASSUME NEW i \in DOMAIN ackPath' PROVE Passes(trackRx', wire', acker', ackPath'[i])
    <3>1. i \in 1..Len(ackPath) \/ i = Len(ackPath) + 1
      BY <2>1
    <3> QED
      BY <1>10, <1>11, <2>1, <3>1
  <2> QED
    BY <2>2 DEF NoneOvertaken
<1> QED
  BY <1>2, <1>9, <1>12, LossQuiet

(* A packet is dropped: it may be gone, and one loss is charged. *)
LEMMA LossDropped ==
  ASSUME CcInv, LossInv, CcLose
  PROVE  LossInv'
<1>1. /\ TrackerSound(trackRx) /\ losses \in Nat /\ wire \in Seq(PacketsOnWire)
  BY FlowFacts, FlowAssumption DEF CcInv, FlowInv
<1>2. /\ losses' = losses + 1
      /\ UNCHANGED <<trackRx, acker, ackPath, stats>>
  BY DEF CcLose, Lose, NetworkTakes
<1>3. PICK i \in DOMAIN wire : wire' = Without(wire, i)
  BY DEF CcLose
<1> DEFINE q1 == wire[i].seq
           A == Gone(trackRx, wire, acker)
           B == Gone(trackRx', wire', acker')
           sum == Total(stats, "lost")
<1>4. ASSUME NEW q
      PROVE  /\ Flies(wire', q) => Flies(wire, q)
             /\ q # q1 => (Flies(wire, q) => Flies(wire', q))
  BY <1>1, <1>3, TakenOff
<1> HIDE DEF q1
<1>5. B \in SUBSET (A \cup {q1})
  BY <1>2, <1>4 DEF Gone
<1>6. IsFiniteSet(A) /\ Cardinality(A) \in Nat
  BY <1>1, GoneCounted
<1>7. NoneOvertaken(trackRx', wire', acker', ackPath')
  <2>1. StatusesKept(trackRx, trackRx')
    BY <1>2 DEF StatusesKept
  <2>2. \A q : q \notin KnownReceived(acker) /\ ~Flies(wire, q) =>
                 q \notin KnownReceived(acker') /\ ~Flies(wire', q)
    BY <1>2, <1>4
  <2>3. ASSUME NEW j \in DOMAIN ackPath' PROVE Passes(trackRx', wire', acker', ackPath'[j])
    <3>1. Passes(trackRx, wire, acker, ackPath'[j])
      BY <1>2 DEF LossInv, NoneOvertaken
    <3> QED
      BY <2>1, <2>2, <3>1, PassesKept
  <2> QED
    BY <2>3 DEF NoneOvertaken
<1>8. Partition => sum \in Int /\ sum + Cardinality(A) <= losses
  BY DEF LossInv
<1>9. LossInv' <=> /\ NoneOvertaken(trackRx', wire', acker', ackPath')
                   /\ Partition => sum \in Int /\ sum + Cardinality(B) <= losses'
  BY <1>2 DEF LossInv, Partition
<1> HIDE DEF A, B, sum
<1>10. Cardinality(B) \in Nat /\ Cardinality(B) <= Cardinality(A) + 1
  <2>1. /\ IsFiniteSet(A \cup {q1})
        /\ Cardinality(A \cup {q1}) = IF q1 \in A THEN Cardinality(A) ELSE Cardinality(A) + 1
    BY <1>6, FS_AddElement
  <2>2. IsFiniteSet(B) /\ Cardinality(B) <= Cardinality(A \cup {q1}) /\ Cardinality(B) \in Nat
    BY <1>5, <2>1, FS_Subset, FS_CardinalityType
  <2> QED
    BY <1>6, <2>1, <2>2
<1> QED
  BY <1>1, <1>2, <1>6, <1>7, <1>8, <1>9, <1>10

(* Of two parts that have nothing in common, the rest is what one leaves.   *)
LEMMA PartsCounted ==
  ASSUME NEW A, IsFiniteSet(A), NEW N \in SUBSET A, NEW B \in SUBSET (A \ N)
  PROVE  /\ Cardinality(N) \in Nat /\ Cardinality(B) \in Nat
         /\ Cardinality(B) + Cardinality(N) <= Cardinality(A)
<1>1. IsFiniteSet(N) /\ IsFiniteSet(B) /\ N \cap B = {} /\ N \cup B \in SUBSET A
  BY FS_Subset
<1>2. Cardinality(N \cup B) = Cardinality(N) + Cardinality(B)
  BY <1>1, CountDisjoint
<1>3. Cardinality(N \cup B) <= Cardinality(A)
  BY <1>1, FS_Subset
<1>4. Cardinality(N) \in Nat /\ Cardinality(B) \in Nat
  BY <1>1, FS_CardinalityType
<1> QED
  BY <1>2, <1>3, <1>4

(* The packets an ack makes the sender give up: undecided, not covered by   *)
(* the ack, which covers one sent later.                                    *)
LEMMA NewlyLostPassed ==
  ASSUME NEW t, TrackerSound(t), NEW acked \in SUBSET Window(0, t.right),
         NEW q \in NewlyLost(t, acked)
  PROVE  /\ q \in Window(t.left, t.right) /\ Undecided(t.status, q) /\ q \notin acked
         /\ \E p \in acked : p > MarkOf(t.status[q], q)
<1>1. /\ t.left \in Nat /\ t.right \in Nat
      /\ t.status \in [Window(t.left, t.right) -> PktStatus]
  BY DEF TrackerSound, TrackerType
<1>2. /\ q \in Window(t.left, t.right) /\ t.status[q] # Lost
      /\ StatusAfterAck(t, acked)[q] = Lost
  BY DEF NewlyLost
<1>3. /\ q \notin acked /\ DupacksFor(t, acked, q) # {}
  BY <1>2 DEF StatusAfterAck, Received, Lost
<1>4. PICK p \in DupacksFor(t, acked, q) : TRUE
  BY <1>3
<1>5. p \in Nat /\ p \in acked /\ q < p /\ Counts(t.status[q], p)
  BY <1>1 DEF DupacksFor, FreshlyAcked, Window
<1>6. t.status[q] \notin {Received, Lost} /\ p > MarkOf(t.status[q], q)
  BY <1>5 DEF Counts, MarkOf, Received, Lost
<1> QED
  BY <1>2, <1>3, <1>5, <1>6 DEF Undecided

(* After the ack they are decided. *)
LEMMA NewlyLostDecided ==
  ASSUME NEW t, TrackerSound(t), NEW acked \in SUBSET Window(0, t.right),
         NEW u, u = Reported(MarkAcked(t, acked))
  PROVE  /\ StatusesKept(t, u)
         /\ \A q \in Window(u.left, u.right) :
              /\ q \in acked => u.status[q] = Received
              /\ Undecided(u.status, q) => q \notin NewlyLost(t, acked)
<1> DEFINE marked == MarkAcked(t, acked)
           status == StatusAfterAck(t, acked)
<1>1. u.left = marked.left /\ u.right = marked.right /\ u.status = marked.status
  BY DEF Reported, MarkAcked, Shrink, Tracker
<1>2. /\ StatusesKept(t, marked)
      /\ \A q \in Window(marked.left, marked.right) : q \in acked => marked.status[q] = Received
  BY MarkAckedStatus
<1>3. \A q \in Window(marked.left, marked.right) : marked.status[q] = status[q]
  <2>1. t.left \in Nat /\ t.right \in Nat /\ t.left <= t.right
    BY DEF TrackerSound, TrackerType, WindowSound
  <2>2. \E lost, unreported : marked = Shrink(t.left, t.right, status, lost, unreported)
    BY DEF MarkAcked
  <2> HIDE DEF marked, status
  <2> QED
    BY <2>1, <2>2, ShrinkStatus
<1>4. \A q \in NewlyLost(t, acked) : status[q] = Lost
  BY DEF NewlyLost
<1> HIDE DEF marked, status
<1>5. StatusesKept(t, u)
  BY <1>1, <1>2 DEF StatusesKept
<1> QED
  BY <1>1, <1>2, <1>3, <1>4, <1>5 DEF Undecided

(* An ack is heard: the packets it makes the sender give up were gone, and  *)
(* are counted as lost instead.                                             *)
LEMMA LossPushed ==
  ASSUME CcInv, AckedInv, LossInv, FlowInv', CcPush
  PROVE  LossInv'
<1> DEFINE ack == Head(ackPath)
           acked == AckedBy(ack)
           N == NewlyLost(trackRx, acked)
           A == Gone(trackRx, wire, acker)
           B == Gone(trackRx', wire', acker')
<1>1. /\ FlowInv /\ TrackerSound(trackRx) /\ losses \in Nat /\ now \in Nat /\ now < TimeMax
  BY FlowFacts, FlowAssumption, TimeLeft DEF CcInv, FlowInv
<1>2. /\ ack = ackPath[1] /\ 1 \in DOMAIN ackPath
      /\ ackPath \in Seq(AckType) /\ ackPath # <<>> /\ ackPath' = Tail(ackPath)
      /\ acked \in SUBSET Window(0, trackRx.right)
      /\ trackRx' = Reported(MarkAcked(trackRx, acked))
      /\ UNCHANGED <<wire, acker, losses>>
  BY <1>1, PushDoes
<1>3. /\ \E gain \in Int : stats' = LogSender(stats, now, gain, Cardinality(N), 0)
      /\ Cardinality(N) \in Int
  BY <1>1, PushLogs
<1> HIDE DEF ack
<1>4. Passes(trackRx, wire, acker, ack)
  BY <1>2 DEF LossInv, NoneOvertaken
<1>5. N \in SUBSET A
  <2> SUFFICES ASSUME NEW q \in N PROVE q \in A
    OBVIOUS
  <2>1. /\ q \in Window(trackRx.left, trackRx.right) /\ Undecided(trackRx.status, q)
        /\ q \notin acked
        /\ \E p \in acked : p > MarkOf(trackRx.status[q], q)
    BY <1>1, <1>2, NewlyLostPassed
  <2> QED
    BY <1>4, <2>1 DEF Passes
<1>6. /\ StatusesKept(trackRx, trackRx')
      /\ \A q \in Window(trackRx'.left, trackRx'.right) :
           Undecided(trackRx'.status, q) => q \notin N
  BY <1>1, <1>2, NewlyLostDecided
<1>7. B \in SUBSET (A \ N)
  <2>1. B \subseteq A
    BY <1>2, <1>6, GoneBefore
  <2>2. \A q \in B : q \notin N
    BY <1>6 DEF Gone
  <2> QED
    BY <2>1, <2>2
<1>8. NoneOvertaken(trackRx', wire', acker', ackPath')
  <2> DEFINE rest == Tail(ackPath)
  <2>1. /\ Len(ackPath) \in Nat /\ DOMAIN ackPath = 1..Len(ackPath)
        /\ DOMAIN rest = 1..(Len(ackPath) - 1)
        /\ \A i \in 1..(Len(ackPath) - 1) : rest[i] = ackPath[i + 1]
    BY <1>2, HeadTailProperties, LenProperties
  <2>2. ackPath' = rest
    BY <1>2
  <2> HIDE DEF rest
  <2>3. ASSUME NEW i \in DOMAIN rest PROVE Passes(trackRx', wire', acker', rest[i])
    <3>1. i + 1 \in DOMAIN ackPath /\ rest[i] = ackPath[i + 1]
      BY <2>1
    <3>2. Passes(trackRx, wire, acker, rest[i])
      BY <3>1 DEF LossInv, NoneOvertaken
    <3>3. \A q : q \notin KnownReceived(acker) /\ ~Flies(wire, q) =>
                   q \notin KnownReceived(acker') /\ ~Flies(wire', q)
      BY <1>2
    <3> QED
      BY <1>6, <3>2, <3>3, PassesKept
  <2> QED
    BY <2>2, <2>3 DEF NoneOvertaken
<1>9. IsFiniteSet(A) /\ Cardinality(A) \in Nat
  BY <1>1, GoneCounted
<1>10. LossInv' <=> /\ NoneOvertaken(trackRx', wire', acker', ackPath')
                    /\ Partition => /\ Total(stats', "lost") \in Int
                                    /\ Total(stats', "lost") + Cardinality(B) <= losses'
  BY DEF LossInv, Partition
<1>11. Partition => /\ Total(stats, "lost") \in Int
                    /\ Total(stats, "lost") + Cardinality(A) <= losses
  BY DEF LossInv
<1>12. Partition => Total(stats', "lost") = Total(stats, "lost") + Cardinality(N)
  <2>1. PICK gain \in Int : stats' = LogSender(stats, now, gain, Cardinality(N), 0)
    BY <1>3
  <2>2. Cardinality(N) \in Int /\ StatsTyped(stats)
    BY <1>3 DEF AckedInv
  <2> HIDE DEF N
  <2> QED
    BY <1>1, <2>1, <2>2, LoggedOnce
<1> HIDE DEF A, B, N
<1>13. /\ Cardinality(N) \in Nat /\ Cardinality(B) \in Nat
       /\ Cardinality(B) + Cardinality(N) <= Cardinality(A)
  BY <1>5, <1>7, <1>9, PartsCounted
<1> QED
  BY <1>1, <1>2, <1>8, <1>9, <1>10, <1>11, <1>12, <1>13
-----------------------------------------------------------------------------
(* Every step keeps the count of the losses, as long as the SACK blocks of  *)
(* the acks have room for all gaps.                                         *)
LEMMA LossStep ==
  CcInv /\ FateInv /\ AckedInv /\ LossInv /\ CcInv' /\ FateInv' /\ RoomForGaps' /\ [CcNext]_ccVars
    => LossInv'
<1> SUFFICES ASSUME CcInv, FateInv, AckedInv, LossInv, CcInv', FateInv', RoomForGaps',
                    [CcNext]_ccVars
             PROVE  LossInv'
  OBVIOUS
<1>1. FlowInv' /\ FlowInv
  BY DEF CcInv
<1>2. CASE CcPush
  BY <1>1, <1>2, LossPushed
<1>3. CASE ~CcPush /\ (CcSend \/ CcTimeout \/ CcEventOver)
  BY <1>3, LossEvent
<1>4. CASE ~CcPush /\ CcPushOver
  <2>1. /\ HandleAck(Head(ackPath)) /\ (Ended \/ Head(ackPath).cum = 0)
        /\ ackPath # <<>> /\ ackPath' = Tail(ackPath) /\ UNCHANGED <<acker, losses>>
    BY <1>4 DEF CcPushOver, ReturnAck
  <2>2. trackRx' = trackRx /\ wire' = wire
    BY <2>1 DEF HandleAck, IgnoreAck, AckPanics, PushAck, Ended, senderVars
  <2>3. StatusesKept(trackRx, trackRx')
    BY <2>2 DEF StatusesKept
  <2> QED
    BY <1>4, <2>1, <2>2, <2>3, LossStill
<1>5. CASE ~CcPush /\ CcDeliver
  BY <1>1, <1>5, LossDelivered
<1>6. CASE ~CcPush /\ CcLose
  BY <1>6, LossDropped
<1>7. CASE ~CcPush /\ (CcTick \/ UNCHANGED ccVars)
  <2>1. UNCHANGED <<trackRx, wire, acker, ackPath, losses>>
    BY <1>7 DEF CcTick, Tick, AdvanceTime, ccVars, flowVars, senderVars
  <2>2. StatusesKept(trackRx, trackRx')
    BY <2>1 DEF StatusesKept
  <2> QED
    BY <1>7, <2>1, <2>2, LossStill
<1> QED
  BY <1>2, <1>3, <1>4, <1>5, <1>6, <1>7 DEF CcNext, CcRunEvent, CcReturn, CcArrive, CcPass

(* The two invariants imply what the statistics promise. *)
LEMMA SoundStatsAddUp == ASSUME CcInv, AckedInv, LossInv PROVE StatsAddUp
<1>1. TrackerSound(trackRx) /\ losses \in Nat
  BY FlowFacts, FlowAssumption DEF CcInv, FlowInv
<1> DEFINE gone == Cardinality(Gone(trackRx, wire, acker))
           sum == Total(stats, "lost")
<1>2. gone \in Nat
  BY <1>1, GoneCounted
<1>3. Partition => sum \in Int /\ sum + gone <= losses
  BY DEF LossInv
<1>4. StatsAddUp <=> (Partition => Total(stats, "cumAcked") = trackRx.left /\ sum <= losses)
  BY DEF StatsAddUp, ReceivedTill
<1> HIDE DEF gone, sum
<1> QED
  BY <1>1, <1>2, <1>3, <1>4 DEF AckedInv

(* The packets the tracer counts as acked are those the sender has received *)
(* without a gap, each counted once, whatever the network does.             *)
THEOREM AckedPacketsAddUp ==
  CcSpec => [](Partition => Total(stats, "cumAcked") = ReceivedTill(trackRx))
<1>1. CcInit => AckedInv
  BY AckedInit
<1>2. AckedInv => (Partition => Total(stats, "cumAcked") = ReceivedTill(trackRx))
  BY DEF AckedInv, ReceivedTill
<1> QED
  BY <1>1, <1>2, AckedStep, CcInvariant, PTL DEF CcSpec

(* As long as the SACK blocks of an ack have room for all gaps, the tracer  *)
(* counts no more losses than packets were dropped.  Without that, a packet *)
(* of a block that was left out can be given up although it arrived.        *)
THEOREM StatsAlwaysAddUp == CcSpec /\ []RoomForGaps => []StatsAddUp
<1>1. CcInit => AckedInv /\ LossInv
  BY AckedInit, LossInit
<1>2. CcSpec => [](CcInv /\ FateInv)
  BY CcInvariant, CcImplementsFlow, FlowFate, PTL
<1>3. CcInv /\ AckedInv /\ LossInv => StatsAddUp
  BY SoundStatsAddUp
<1> QED
  BY <1>1, <1>2, <1>3, AckedStep, LossStep, PTL DEF CcSpec

(* A flow of so few packets never has more blocks than an ack has room for. *)
ShortFlow == TxLength.kind = "Bytes" /\ TxLength.amount <= (2 * MaxSack + 1) * PktSize

(* So the statistics of a short flow add up, whatever the network drops.    *)
THEOREM ShortFlowsAddUp == ASSUME ShortFlow PROVE CcSpec => []StatsAddUp
<1>1. FlowInv => RoomForGaps
  <2> SUFFICES ASSUME FlowInv PROVE RoomForGaps
    OBVIOUS
  <2> DEFINE max == MaxSack
  <2>1. /\ TrackerSound(acker) /\ nextPkt \in Nat /\ acker.right <= nextPkt /\ acker.right \in Nat
        /\ max \in Nat /\ PktSize \in Nat /\ PktSize > 0
    BY FlowFacts, FlowAssumption, SenderAssumption
       DEF FlowInv, AckerSound, TrackerSound, TrackerType
  <2>2. LengthRespected
    BY DEF FlowInv, SenderInv
  <2> DEFINE a == 2 * max + 1
             b == nextPkt - 1
  <2>3. /\ nextPkt > 0 => b * PktSize < TxLength.amount
        /\ TxLength.amount <= a * PktSize /\ TxLength.amount \in Nat
    BY <2>2, SenderAssumption DEF LengthRespected, ShortFlow
  <2>4. a \in Int /\ b \in Int
    BY <2>1
  <2> HIDE DEF a, b
  <2>5. nextPkt > 0 => b < a
    BY <2>1, <2>3, <2>4
  <2>6. acker.right <= 2 * max + 1
    BY <2>1, <2>5 DEF a, b
  <2> HIDE DEF max
  <2>7. Cardinality(SackBlocks(acker)) <= max
    BY <2>1, <2>6, FewBlocks
  <2> QED
    BY <2>7 DEF RoomForGaps, max
<1> QED
  BY <1>1, CcImplementsFlow, FlowInvariant, StatsAlwaysAddUp, PTL
=============================================================================
