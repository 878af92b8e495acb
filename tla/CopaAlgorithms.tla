--------------------------- MODULE CopaAlgorithms ---------------------------
(***************************************************************************)
(* Copa and Copa2, of src/src/copa.rs and src/src/copa2.rs, in the form of *)
(* CcAlgorithms.  Copa's get_cwnd rounds its window, so `cwnd' is that.    *)
(***************************************************************************)
EXTENDS CcAlgorithms

CONSTANTS BaseHist,     \* 10 s, in ticks
          LongHist,     \* 400 s
          AckWindow     \* 45 ms

ASSUME CopaAssumption ==
  /\ BaseHist \in Nat \ {0} /\ LongHist \in Nat /\ AckWindow \in Nat

CopaType ==
  [kind : {"Copa"}, aborted : BOOLEAN, cwnd : Nat \ {0},
   base : WindowType, standing : WindowType]

NewCopa ==
  [kind |-> "Copa", aborted |-> FALSE, cwnd |-> 2,
   base |-> NewWindow(BaseHist), standing |-> NewWindow(BaseHist)]

(* `cwnd /= 2.' of a window that rounds to w *)
HalfRounded(w) == {w \div 2, (w + 1) \div 2}

(* `cwnd += 2. / cwnd', and the other way, not below 2 *)
CopaUp(w)   == IF w <= 2 THEN {3} ELSE {w, w + 1}
CopaDown(w) == IF w <= 2 THEN {2} ELSE {w - 1, w}

(* The target is base / (delta * queue): 0, or 0/0, which no window is       *)
(* below, when the least RTT is 0; otherwise infinite without a queue.       *)
CopaMoves(w, base, queue) ==
  IF base = 0 THEN CopaDown(w)
  ELSE IF queue = 0 THEN CopaUp(w)
  ELSE CopaUp(w) \cup CopaDown(w)

CopaOnAck(a, ack) ==
  LET base     == NewRttSample(a.base, ack.rtt, ack.now)
      standing == NewRttSample(a.standing, ack.rtt, ack.now)
      queue    == standing.min - base.min
      sampled  == [a EXCEPT
                     !.base     = ChangeHistPeriod(base, Larger(BaseHist, 30 * base.srtt)),
                     !.standing = ChangeHistPeriod(standing, 2 * base.min)]
      reduced  == IF ack.lost > 0 THEN HalfRounded(a.cwnd) ELSE {a.cwnd}
  IN  IF queue < 0 THEN {Aborted(sampled)}
      ELSE {[sampled EXCEPT !.cwnd = n] :
              n \in UNION {CopaMoves(w, base.min, queue) : w \in reduced}}

CopaOnTimeout(a) == [a EXCEPT !.cwnd = 2]

(* 2 * srtt / cwnd, for the windows that round to this one *)
CopaIntersends(a) ==
  ((4 * a.base.srtt) \div (2 * a.cwnd + 1))..((4 * a.base.srtt) \div Larger(4, 2 * a.cwnd - 1))

-----------------------------------------------------------------------------
(* Copa2.  Of pkt_data only the uids matter: what it stores is never read.   *)
Copa2Type ==
  [kind : {"Copa2"}, aborted : BOOLEAN, cwnd : Nat \ {0}, acks : Seq(Nat),
   known : SUBSET Nat, long : WindowType]

NewCopa2 ==
  [kind |-> "Copa2", aborted |-> FALSE, cwnd |-> 2, acks |-> <<>>, known |-> {},
   long |-> NewWindow(LongHist)]

(* ack_data, once the acks older than 45 ms are popped off its front *)
Recent(acks, now) ==
  LET first == CHOOSE i \in DOMAIN acks : /\ acks[i] + AckWindow >= now
                                          /\ \A j \in 1..(i - 1) : acks[j] + AckWindow < now
  IN  SubSeq(acks, first, Len(acks))

(* The uid must be known, and no packet lost. *)
Copa2OnAck(a, ack) ==
  LET acks == Recent(Append(a.acks, ack.now), ack.now)
  IN  IF ack.uid \notin a.known \/ ack.lost > 0 THEN {Aborted(a)}
      ELSE {[a EXCEPT !.known = @ \ {ack.uid},
                      !.long  = NewRttSample(@, ack.rtt, ack.now),
                      !.acks  = acks,
                      !.cwnd  = Larger(2, Len(acks) + 1)]}

Copa2OnSend(a, uid) == [a EXCEPT !.known = @ \cup {uid}]

(* 0.75 * srtt / cwnd *)
Copa2Intersend(a) == (3 * a.long.srtt) \div (4 * a.cwnd)
=============================================================================
