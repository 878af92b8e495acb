---------------------------- MODULE SenderStats ----------------------------
(***************************************************************************)
(* SenderStats of src/src/tracer.rs: what Tracer::log counts of a sender   *)
(* in each of the intervals of the configuration.  Histograms of windows   *)
(* and round trips, and the series that are only plotted, are left out.    *)
(***************************************************************************)
EXTENDS Integers, Sequences

CONSTANT StatsIntervals     \* log.stats_intervals: <<[from, to], ...>>, to being
                            \* Time::MAX when the configuration gives no end

ASSUME StatsAssumption == StatsIntervals \in Seq([from : Nat, to : Nat])

(* new: pkt_period is <<>> until there is an event, then the times   *)
(* of the first and the last.                                                *)
NewSenderStats ==
  [i \in DOMAIN StatsIntervals |->
     [pktPeriod |-> <<>>, cumAcked |-> 0, lost |-> 0, timeouts |-> 0]]

(* Fault: an event at the end of an interval is counted in it as well. *)
InIntervalClosed(now, i) == StatsIntervals[i].from <= now /\ now <= StatsIntervals[i].to

InInterval(now, i) == StatsIntervals[i].from <= now /\ now < StatsIntervals[i].to

Extended(period, now) == IF period = <<>> THEN <<now, now>> ELSE <<period[1], now>>

(* The elements that one handler of a sender logs, all of them at once. *)
LogSender(stats, now, acked, lost, timeouts) ==
  [i \in DOMAIN stats |->
     IF InInterval(now, i)
     THEN [pktPeriod |-> Extended(stats[i].pktPeriod, now),
           cumAcked  |-> stats[i].cumAcked + acked,
           lost      |-> stats[i].lost + lost,
           timeouts  |-> stats[i].timeouts + timeouts]
     ELSE stats[i]]
=============================================================================
