----------------------------- MODULE LinkStats -----------------------------
(***************************************************************************)
(* The buckets of time in which Tracer::log of src/src/tracer.rs counts    *)
(* the bytes and the opportunities of a link, its plot switched on.        *)
(***************************************************************************)
EXTENDS Integers, Sequences

CONSTANTS LinkBucketSize,   \* log.link_bucket_size
          TxOppBytes        \* 1500: what an opportunity is counted as, in bytes

ASSUME LinkStatsAssumption == LinkBucketSize \in Nat \ {0} /\ TxOppBytes \in Nat

(* LinkBucket *)
NewBucket(start, sources) ==
  [start |-> start, opps |-> 0, egress |-> 0, ingress |-> [src \in sources |-> 0]]

(* Fault: a new bucket does not know the sources of the last one. *)
NextBucketEmpty(last) == NewBucket(last.start + LinkBucketSize, {})

(* All sources of the last bucket are in it, so that one that is silent shows. *)
NextBucket(last) == NewBucket(last.start + LinkBucketSize, DOMAIN last.ingress)

(* The first bucket begins at the first event; then as many are added as it  *)
(* takes for the last to hold `now'.                                         *)
Rolled(buckets, now) ==
  LET first == IF buckets = <<>> THEN <<NewBucket(now, {})>> ELSE buckets
      ahead == (now - first[Len(first)].start) \div LinkBucketSize
      roll[n \in 0..ahead] ==
        IF n = 0 THEN first ELSE Append(roll[n - 1], NextBucket(roll[n - 1][Len(roll[n - 1])]))
  IN  roll[ahead]

InLast(buckets, bucket) == [buckets EXCEPT ![Len(buckets)] = bucket]

LogIngress(buckets, now, src, size) ==
  LET rolled == Rolled(buckets, now)
      last   == rolled[Len(rolled)]
      before == [s \in DOMAIN last.ingress \cup {src} |->
                   IF s \in DOMAIN last.ingress THEN last.ingress[s] ELSE 0]
  IN  InLast(rolled, [last EXCEPT !.ingress = [before EXCEPT ![src] = @ + size]])

LogEgress(buckets, now, size) ==
  LET rolled == Rolled(buckets, now)
  IN  [rolled EXCEPT ![Len(rolled)].egress = @ + size]

LogOpportunity(buckets, now) ==
  LET rolled == Rolled(buckets, now)
  IN  [rolled EXCEPT ![Len(rolled)].opps = @ + TxOppBytes]
=============================================================================
