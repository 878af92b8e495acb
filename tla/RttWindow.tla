------------------------------ MODULE RttWindow ------------------------------
(***************************************************************************)
(* RTTWindow of src/src/rtt_window.rs: the least RTT of a sliding window   *)
(* of time, and a smoothed one.                                            *)
(*                                                                         *)
(* The samples, two deques in the code, are a set of [rtt, at]: they come  *)
(* in the order of time, so to pop those older than `max_time' off the     *)
(* front is to keep the others.  The newest is never older than that, so   *)
(* the code's exception for the last sample does not occur.                *)
(***************************************************************************)
EXTENDS Integers

CONSTANT TimeMax        \* Time::MAX, which stands for "no minimum yet"

ASSUME TimeMaxAssumption == TimeMax \in Nat \ {0}

Times == 0..(TimeMax - 1)

Samples == [rtt : Times, at : Times]

WindowType == [hist : Nat, min : 0..TimeMax, srtt : Nat, samples : SUBSET Samples]

(* new *)
NewWindow(hist) == [hist |-> hist, min |-> TimeMax, srtt |-> 0, samples |-> {}]

(* max_time: the code's Time cannot be negative. *)
OldestKept(hist, now) == IF now < hist THEN 0 ELSE now - hist

SmoothedRtt(srtt, rtt) == IF srtt = 0 THEN rtt ELSE (15 * srtt + rtt) \div 16

IsLeastRtt(rtt, samples) ==
  /\ \E s \in samples : s.rtt = rtt
  /\ \A s \in samples : rtt <= s.rtt

(* Fault: the minimum starts over with the latest sample. *)
LatestRtt(samples) ==
  CHOOSE rtt \in {s.rtt : s \in samples} :
    \E s \in samples : s.rtt = rtt /\ \A r \in samples : r.at <= s.at

LeastRtt(samples) == CHOOSE rtt \in {s.rtt : s \in samples} : IsLeastRtt(rtt, samples)

(* clear_old_hist: the minimum is computed anew only when a sample as low   *)
(* as it is dropped.                                                        *)
MinAfter(min, kept, dropped) ==
  IF \E s \in dropped : s.rtt <= min THEN LeastRtt(kept) ELSE min

(* new_rtt_sample *)
NewRttSample(w, rtt, now) ==
  LET all  == w.samples \cup {[rtt |-> rtt, at |-> now]}
      kept == {s \in all : s.at >= OldestKept(w.hist, now)}
      min  == IF rtt < w.min THEN rtt ELSE w.min
  IN  [hist    |-> w.hist,
       min     |-> MinAfter(min, kept, all \ kept),
       srtt    |-> SmoothedRtt(w.srtt, rtt),
       samples |-> kept]

(* change_hist_period: it takes effect at the next sample. *)
ChangeHistPeriod(w, hist) == [w EXCEPT !.hist = hist]

-----------------------------------------------------------------------------
(* The minimum, kept up to date sample by sample, is exactly that of the    *)
(* samples the window holds, or Time::MAX when it holds none.               *)
MinExact(w) ==
  IF w.samples = {} THEN w.min = TimeMax ELSE IsLeastRtt(w.min, w.samples)
=============================================================================
