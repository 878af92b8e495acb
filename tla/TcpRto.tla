------------------------------- MODULE TcpRto -------------------------------
(***************************************************************************)
(* struct TcpRto of src/src/transport.rs: the retransmission timeout, in   *)
(* rough compliance with RFC 6298.  Times are whole ticks; the constants   *)
(* are the literals of the code in ticks, so that a model may use a coarse *)
(* tick.  The code computes in f64 and truncates; the sums stay far below  *)
(* 2^53, where that is exactly \div.                                       *)
(***************************************************************************)
EXTENDS Integers

CONSTANTS InitSrtt,     \* 1 s, the srtt of a sender that has no measurement
          MinRto,       \* 1 s
          MaxRto,       \* 60 s
          MaxBackoff    \* 256

ASSUME RtoAssumption ==
  /\ InitSrtt \in Nat \ {0} /\ MinRto \in Nat \ {0} /\ MaxRto \in Nat
  /\ MinRto <= MaxRto /\ MaxBackoff \in Nat \ {0}

Abs(n)       == IF n < 0 THEN -n ELSE n
Smaller(a, b) == IF a < b THEN a ELSE b
Larger(a, b)  == IF a < b THEN b ELSE a

(* TcpRto::new *)
NewRto == [srtt |-> InitSrtt, rttvar |-> 0, backoff |-> 1]

(* An srtt of exactly one second stands for "no measurement yet". *)
FirstMeasurement(r) == r.srtt = InitSrtt

ReportRtt(r, rtt) ==
  IF FirstMeasurement(r)
  THEN [r EXCEPT !.srtt = rtt, !.rttvar = rtt \div 2]
  ELSE [r EXCEPT !.srtt = (7 * r.srtt + rtt) \div 8,
                 !.rttvar = (3 * r.rttvar + Abs(r.srtt - rtt)) \div 4]

(* Fault: no cap. *)
ReportTimeoutUncapped(r) == [r EXCEPT !.backoff = 2 * @]

ReportTimeout(r) == [r EXCEPT !.backoff = Smaller(MaxBackoff, 2 * @)]

ReportFreshAck(r) == [r EXCEPT !.backoff = 1]

(* rto() *)
Rto(r) ==
  Larger(MinRto, Smaller(MaxRto, (r.srtt + 4 * r.rttvar) * r.backoff))

RtoType == [srtt : Nat, rttvar : Nat, backoff : 1..MaxBackoff]
=============================================================================
