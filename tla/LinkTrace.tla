------------------------------ MODULE LinkTrace ------------------------------
(***************************************************************************)
(* LinkTrace of src/src/base.rs: when a link may transmit.                 *)
(*                                                                         *)
(* A link is configured by a record of one of four kinds:                  *)
(*   [kind |-> "Const",     rate  |-> bytes per second]                    *)
(*   [kind |-> "Random",    gaps  |-> the set of inter-send samples]       *)
(*   [kind |-> "Piecewise", rates |-> <<..>>, spans |-> <<..>>]            *)
(*   [kind |-> "Mahimahi",  times |-> <<..>>]                              *)
(* The state of a trace is [link, cur, switch, next]: its configuration,   *)
(* and cur_id, next_switch and next_id of the code, counted from 0.        *)
(***************************************************************************)
EXTENDS Integers, Sequences

CONSTANTS Second,       \* ticks in a second: 1_000_000 in the code
          PktSize       \* config.pkt_size

ASSUME TraceAssumption == Second \in Nat \ {0} /\ PktSize \in Nat \ {0}

(* What a configuration may be: new_piecewise asserts that there is a piece, *)
(* new_mahimahi_from_file refuses times that go back; with an empty trace    *)
(* file next_tx indexes out of range.                                        *)
IsLink(link) ==
  \/ link.kind = "Const" /\ link.rate \in Nat \ {0}
  \/ link.kind = "Random" /\ link.gaps \subseteq Nat
  \/ /\ link.kind = "Piecewise" /\ link.rates # <<>> /\ link.rates \in Seq(Nat \ {0})
     /\ link.spans \in Seq(Nat) /\ Len(link.spans) = Len(link.rates)
  \/ /\ link.kind = "Mahimahi" /\ link.times # <<>> /\ link.times \in Seq(Nat)
     /\ \A i, j \in DOMAIN link.times : i <= j => link.times[i] <= link.times[j]

(* new_const, new_random, new_piecewise, new_mahimahi_from_file *)
NewTrace(link) ==
  [link |-> link, cur |-> 0, next |-> 0,
   switch |-> IF link.kind = "Piecewise" THEN link.spans[1] ELSE 0]

(* The time of a full-sized packet at this rate, in whole ticks: rounded    *)
(* down by the cast to u64, and 0 for a rate above one packet per tick.     *)
Gap(rate) == (Second * PktSize) \div rate

(* Fault: the next piece lasts from the opportunity that starts it. *)
SwitchedFromNow(trace, now) ==
  LET piece == (trace.cur + 1) % Len(trace.link.rates)
  IN  IF now > trace.switch
      THEN [trace EXCEPT !.cur = piece, !.switch = now + trace.link.spans[piece + 1]]
      ELSE trace

(* `now > next_switch` moves on by one piece, however late it is. *)
Switched(trace, now) ==
  LET piece == (trace.cur + 1) % Len(trace.link.rates)
  IN  IF now > trace.switch
      THEN [trace EXCEPT !.cur = piece, !.switch = @ + trace.link.spans[piece + 1]]
      ELSE trace

(* Fault: every pass starts with the wait for its first line. *)
MahimahiGapWhole(link, id) ==
  link.times[id + 1] - (IF id > 0 THEN link.times[id] ELSE 0)

(* The first line of a trace file is its own predecessor. *)
MahimahiGap(link, id) ==
  link.times[id + 1] - link.times[(IF id > 0 THEN id - 1 ELSE 0) + 1]

(* next_tx: the opportunities that may follow one at `now`. *)
NextTx(trace, now) ==
  LET link == trace.link IN
  CASE link.kind = "Const" ->
         {[at |-> now + Gap(link.rate), trace |-> trace]}
    [] link.kind = "Random" ->
         {[at |-> now + g, trace |-> trace] : g \in link.gaps}
    [] link.kind = "Piecewise" ->
         LET s == Switched(trace, now)
         IN  {[at |-> now + Gap(link.rates[s.cur + 1]), trace |-> s]}
    [] link.kind = "Mahimahi" ->
         {[at    |-> now + MahimahiGap(link, trace.next),
           trace |-> [trace EXCEPT !.next = (@ + 1) % Len(link.times)]]}
=============================================================================
