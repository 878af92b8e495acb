---------------------------- MODULE CcAlgorithms ----------------------------
(***************************************************************************)
(* The congestion controls of src/src/cc.rs.                               *)
(*                                                                         *)
(* The state of an algorithm is a record; on_ack maps it to the set of     *)
(* states it may have next, an ack being [now, cum, uid, rtt, lost].       *)
(* Windows are f64 in the code: they are known here by their whole part,   *)
(* which is what get_cwnd returns, and what a floating-point law computes  *)
(* is any number that the code's limits on it allow.  `aborted' stands for *)
(* a failed assertion, unwrap or subtraction.  Fields that are written and *)
(* never read (achieved_bdp, last_sent_pkt) are left out.                  *)
(***************************************************************************)
EXTENDS RttWindow, TcpRto, Sequences

CONSTANTS RttMinReset,  \* 200 ms, in ticks
          OscSwing,     \* get_s() of OscInstantCC, in percent
          OscInterval   \* its two periods of oscillation, in ticks

ASSUME CcAssumption ==
  /\ RttMinReset \in Times /\ OscSwing \in 1..99 /\ OscInterval \in Nat

NoSeq == -1
NoPkt == [seq |-> NoSeq, at |-> 0]

SentPkts == [seq : Nat, at : Nat] \cup {NoPkt}

Aborted(a) == [a EXCEPT !.aborted = TRUE]

(* Fault: a window below one packet. *)
HalvedToZero(n) == n \div 2

(* `cwnd /= 2.', but not below 1 *)
Halved(n) == Larger(1, n \div 2)

(* `cwnd *= 2.', whatever follows the point *)
Doubled(n) == {2 * n, 2 * n + 1}

-----------------------------------------------------------------------------
ConstType ==
  [kind : {"Const"}, aborted : {FALSE}, cwnd : Nat, intersend : Nat]

NewConst(config) ==
  [kind |-> "Const", aborted |-> FALSE,
   cwnd |-> config.cwnd, intersend |-> config.intersend]

-----------------------------------------------------------------------------
(* AIMD.  slow_start is FALSE at first and nothing sets it, so ss_thresh,    *)
(* which only ever clears it, has no effect.                                 *)
AimdType ==
  [kind : {"AIMD"}, aborted : {FALSE}, cwnd : Nat \ {0}, lastLoss : Nat]

NewAimd == [kind |-> "AIMD", aborted |-> FALSE, cwnd |-> 4, lastLoss |-> 0]

(* `cwnd += 1. / cwnd' *)
Increased(n) == IF n = 1 THEN {2} ELSE {n, n + 1}

AimdOnAck(a, ack) ==
  IF ack.lost = 0 THEN {[a EXCEPT !.cwnd = n] : n \in Increased(a.cwnd)}
  ELSE IF a.lastLoss < ack.cum
  THEN {[a EXCEPT !.cwnd = Halved(@), !.lastLoss = ack.cum]}
  ELSE {a}

AimdOnTimeout(a) == [a EXCEPT !.cwnd = 1]

-----------------------------------------------------------------------------
(* InstantCC.  waiting_seq and rtt_standing are Some together; `standing' is *)
(* Time::MAX while they are None.                                            *)
InstantType ==
  [kind : {"InstantCC"}, aborted : BOOLEAN, cwnd : Nat \ {0}, rttMin : 0..TimeMax,
   waiting : Nat \cup {NoSeq}, standing : 0..TimeMax]

NewInstant ==
  [kind |-> "InstantCC", aborted |-> FALSE, cwnd |-> 1, rttMin |-> TimeMax,
   waiting |-> NoSeq, standing |-> TimeMax]

RoundEnded(a) == [a EXCEPT !.waiting = NoSeq, !.standing = TimeMax]

(* The end of a round: double without queueing, at most double with it.      *)
InstantUpdate(a) ==
  IF a.standing < a.rttMin THEN {Aborted(a)}
  ELSE IF a.standing = a.rttMin
  THEN {RoundEnded([a EXCEPT !.cwnd = n]) : n \in Doubled(a.cwnd)}
  ELSE {RoundEnded([a EXCEPT !.cwnd = n, !.rttMin = RttMinReset]) : n \in 1..(2 * a.cwnd + 1)}

InstantOnAck(a, ack) ==
  LET seen   == [a EXCEPT !.rttMin = Smaller(@, ack.rtt)]
      stands == [seen EXCEPT !.standing = Smaller(@, ack.rtt)]
  IN  IF ack.lost > 0 THEN {[seen EXCEPT !.cwnd = Halved(@)]}
      ELSE IF a.waiting = NoSeq THEN {seen}
      ELSE IF ack.cum < a.waiting THEN {stands}
      ELSE InstantUpdate(stands)

InstantOnSend(a, seq) ==
  IF a.waiting = NoSeq THEN [a EXCEPT !.waiting = seq, !.standing = TimeMax] ELSE a

InstantOnTimeout(a) == RoundEnded([a EXCEPT !.cwnd = 1])

-----------------------------------------------------------------------------
(* OscInstantCC.  The estimate of the BDP only feeds the target for b, which *)
(* is open here.  `swung' is the window for the time in `now': it moves with *)
(* the sine, at every ack and every packet sent.                             *)
NotANumber == -1        \* b once it is 0/0

Swings(b) ==
  IF b = NotANumber THEN {0}
  ELSE Larger(1, (b * (100 - OscSwing)) \div 100)..Larger(1, ((b + 1) * (100 + OscSwing)) \div 100)

OscType ==
  [kind : {"OscInstantCC"}, aborted : BOOLEAN, now : Nat, b : Nat \cup {NotANumber},
   swung : Nat, rttMin : 0..TimeMax, winMin : 0..TimeMax, winMax : Nat,
   lastObs : Nat, lastLoss : Nat]

NewOsc ==
  [kind |-> "OscInstantCC", aborted |-> FALSE, now |-> 0, b |-> 5, swung |-> 5,
   rttMin |-> TimeMax, winMin |-> TimeMax, winMax |-> 0, lastObs |-> 0, lastLoss |-> 0]

(* Set b to its target, at most its double and at least 5.  Without a        *)
(* difference between the RTTs the target is infinite.  With a least RTT of  *)
(* 0 it is 0, or 0/0 without a difference, which no comparison bounds; and b *)
(* is 0/0 only once the least RTT is 0, for ever.                            *)
NextBases(a) ==
  IF a.rttMin = 0 THEN {IF a.winMax = a.winMin THEN NotANumber ELSE 5}
  ELSE IF a.winMax = a.winMin THEN {Larger(5, n) : n \in Doubled(a.b)}
  ELSE 5..Larger(5, 2 * a.b + 1)

OscUpdate(a, now) ==
  IF a.winMin = TimeMax \/ a.winMax = 0 THEN {[a EXCEPT !.lastObs = now]}
  ELSE {[a EXCEPT !.lastObs = now, !.b = b, !.winMin = TimeMax, !.winMax = 0] : b \in NextBases(a)}

OscObserve(a, rtt) ==
  [a EXCEPT !.rttMin = Smaller(@, rtt), !.winMin = Smaller(@, rtt), !.winMax = Larger(@, rtt)]

(* Every state with any window its b allows, at this time. *)
Swung(states, now) ==
  UNION {{[a EXCEPT !.now = now, !.swung = w] : w \in Swings(a.b)} : a \in states}

OscOnAck(a, ack) ==
  IF ack.now < a.now THEN {Aborted(a)}
  ELSE Swung(
    IF ack.lost > 0 /\ ack.now + ack.rtt > a.lastLoss
    THEN {[a EXCEPT !.b = IF @ = NotANumber THEN @ ELSE @ \div 2, !.lastLoss = ack.now]}
    ELSE IF ack.now < a.lastObs + Larger(ack.rtt, OscInterval)
    THEN {OscObserve(a, ack.rtt)}
    ELSE OscUpdate(a, ack.now), ack.now)

OscOnSend(a, now) == IF now < a.now THEN {Aborted(a)} ELSE Swung({a}, now)

-----------------------------------------------------------------------------
(* StableLinearCC.  cwnd_hist is a queue of [seq, cwnd]. *)
LinearType ==
  [kind : {"StableLinearCC"}, aborted : BOOLEAN, cwnd : Nat,
   hist : Seq([seq : Nat, cwnd : Nat \ {0}]), rttMin : Nat]

NewLinear(delay) ==
  [kind |-> "StableLinearCC", aborted |-> FALSE, cwnd |-> 2, hist |-> <<>>, rttMin |-> delay]

LinearWindow(a) == Larger(1, a.cwnd)

(* How many records the loop of on_ack takes off: it stops at a packet above *)
(* the cumulative ack, so that it takes the record of the first packet not   *)
(* acked as well.                                                            *)
Forgotten(hist, cum) ==
  CHOOSE k \in 0..Len(hist) :
    /\ \A i \in 1..k : hist[i].seq <= cum
    /\ k < Len(hist) => hist[k + 1].seq > cum

(* An RTT of 0 makes beta 1, or 0/0.  Without queueing the target is         *)
(* infinite.                                                                 *)
LinearOnAck(a, ack) ==
  IF ack.lost > 0 THEN {[a EXCEPT !.cwnd = 2]}
  ELSE LET k == Forgotten(a.hist, ack.cum)
       IN  IF k = 0 \/ ack.rtt < a.rttMin \/ ack.rtt = 0 THEN {Aborted(a)}
           ELSE {[a EXCEPT !.cwnd = n, !.hist = SubSeq(@, k + 1, Len(@))] :
                   n \in (IF ack.rtt = a.rttMin THEN 2 * a.hist[k].cwnd ELSE 0)..(2 * a.hist[k].cwnd)}

(* Fault: the window as it is, not as get_cwnd answers it. *)
LinearOnSendRaw(a, seq) ==
  [a EXCEPT !.hist = Append(@, [seq |-> seq, cwnd |-> a.cwnd])]

LinearOnSend(a, seq) ==
  [a EXCEPT !.hist = Append(@, [seq |-> seq, cwnd |-> LinearWindow(a)])]

-----------------------------------------------------------------------------
(* IncreaseBdpCC.  bdp is kept rounded, as get_cwnd uses it. *)
BdpType ==
  [kind : {"IncreaseBdpCC"}, aborted : BOOLEAN, minRtt : 0..TimeMax, bdp : Nat,
   marker : SentPkts, acks : Nat, lastSent : SentPkts]

NewBdp ==
  [kind |-> "IncreaseBdpCC", aborted |-> FALSE, minRtt |-> TimeMax, bdp |-> 1,
   marker |-> NoPkt, acks |-> 0, lastSent |-> NoPkt]

Rounded(n, d) == (2 * n + d) \div (2 * d)

(* An estimate over no time is 0/0, which becomes 0, or infinite, to which   *)
(* get_cwnd cannot add 2.                                                    *)
BdpUpdate(a, now) ==
  LET over == now - a.marker.at
      next == [a EXCEPT !.marker = a.lastSent, !.acks = 0]
  IN  IF over > 0 THEN {[next EXCEPT !.bdp = Rounded(a.acks * a.minRtt, over)]}
      ELSE IF a.minRtt = 0 THEN {[next EXCEPT !.bdp = 0]}
      ELSE {Aborted(a)}

BdpOnAck(a, ack) ==
  LET counted == [a EXCEPT !.acks = @ + 1, !.minRtt = Smaller(@, ack.rtt)]
  IN  IF a.marker = NoPkt THEN {Aborted(a)}
      ELSE IF ack.cum > a.marker.seq THEN BdpUpdate(counted, ack.now)
      ELSE {counted}

BdpOnSend(a, now, seq) ==
  LET pkt == [seq |-> seq, at |-> now]
  IN  IF a.lastSent = NoPkt THEN [a EXCEPT !.lastSent = pkt, !.marker = pkt]
      ELSE IF seq > a.lastSent.seq THEN [a EXCEPT !.lastSent = pkt]
      ELSE a

BdpWindow(a) == Larger(1, a.bdp) + 2
=============================================================================
