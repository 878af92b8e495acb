---------------------------- MODULE TrackerCalls ----------------------------
(***************************************************************************)
(* One TrackRxPackets under every sequence of calls its two users make:    *)
(* the TCP sender (sends, retransmits, acks, timeouts) or the acker        *)
(* (arrivals in any order, duplicates included).                           *)
(*                                                                         *)
(* The operators of TrackRxPackets are closed forms.  This module writes   *)
(* the loops of the code as functions, step by step, and compares the two  *)
(* in every reachable tracker.                                             *)
(***************************************************************************)
EXTENDS TrackRxPackets, SequencesExt

CONSTANTS MaxPkts,      \* bound on the packets a sender sends
          MaxArrivals,  \* bound on the sequence numbers arriving at an acker
          MaxSack       \* the argument of generate_sack: 3 in the code

ASSUME CallsAssumption ==
  MaxPkts \in Nat /\ MaxArrivals \in Nat /\ MaxSack \in Nat \ {0}

VARIABLES
  user,         \* whose tracker it is: "sender" or "acker"
  tracker,
  nextPkt       \* the sender's next_pkt

vars == <<user, tracker, nextPkt>>

-----------------------------------------------------------------------------
(* The loops of the code *)

(* push marks the packets of an ack one by one: 0..cum-1, then each block.  *)
(* mark[n] is the tracker when every packet below n has had its turn.       *)
MarkOneByOne(t, acked) ==
  LET mark[n \in 0..t.right] ==
        IF n = 0 THEN t
        ELSE IF n - 1 \in acked /\ ~(n - 1 < ReceivedTill(mark[n - 1]))
             THEN MarkPkt(mark[n - 1], n - 1, Received)
             ELSE mark[n - 1]
  IN  mark[t.right]

(* generate_sack walks the deque from its back.  `start` is block_start, one *)
(* past the last packet of the block being built; None outside of a block.   *)
None == -1

SackStep(t, max, scan, q) ==
  IF Len(scan.sack) = max THEN scan
  ELSE IF scan.start # None
       THEN IF t.status[q] # Received
            THEN [sack |-> Append(scan.sack, <<q + 1, scan.start>>), start |-> None]
            ELSE scan
       ELSE IF t.status[q] = Received THEN [scan EXCEPT !.start = q + 1] ELSE scan

SackLoop(t, max) ==
  LET scan[n \in 0..(t.right - t.left)] ==
        IF n = 0 THEN [sack |-> <<>>, start |-> None]
        ELSE SackStep(t, max, scan[n - 1], t.right - n)
      end == scan[t.right - t.left]
      all == IF end.start # None THEN Append(end.sack, <<end.start, t.right>>)
             ELSE end.sack
  IN  Reverse(all)

-----------------------------------------------------------------------------
(* The calls *)

Init == user \in {"sender", "acker"} /\ tracker = NewTracker /\ nextPkt = 0

Send ==
  /\ user = "sender" /\ nextPkt < MaxPkts
  /\ tracker' = MarkPkt(tracker, nextPkt, NotReceived(0))
  /\ nextPkt' = nextPkt + 1
  /\ UNCHANGED user

Retransmit ==
  /\ user = "sender" /\ tracker.lost > 0
  /\ tracker' = MarkPkt(tracker, FirstLost(tracker), Retransmitted(0, nextPkt))
  /\ UNCHANGED <<user, nextPkt>>

Ack ==
  /\ user = "sender"
  /\ \E acked \in SUBSET Window(0, nextPkt) :
       tracker' = Reported(MarkAcked(tracker, acked))
  /\ UNCHANGED <<user, nextPkt>>

Timeout ==
  /\ user = "sender"
  /\ tracker' = MarkAllAsLost(tracker)
  /\ UNCHANGED <<user, nextPkt>>

(* The acker marks what arrives; the packets it skips enter as NotReceived. *)
Arrive ==
  /\ user = "acker"
  /\ \E seq \in Window(0, MaxArrivals) : tracker' = MarkPkt(tracker, seq, Received)
  /\ UNCHANGED <<user, nextPkt>>

Next == Send \/ Retransmit \/ Ack \/ Timeout \/ Arrive

Spec == Init /\ [][Next]_vars

-----------------------------------------------------------------------------
(* Properties *)

(* The tracker is what the code's assertions say: its front packet is not   *)
(* received, the deque fills the window, and num_lost is the number of Lost *)
(* packets, so lost_packets() never reaches its unreachable!().             *)
TrackerIsSound == TrackerSound(tracker)

(* Marking the packets of any ack at once, as the sender model does, is the *)
(* same as the two marking loops of TcpSender::push, dupacks included.      *)
AckLoopMatches ==
  \A acked \in SUBSET Window(0, nextPkt) :
    MarkAcked(tracker, acked) = MarkOneByOne(tracker, acked)

(* The closed form of generate_sack yields the blocks of its backward scan, *)
(* which the code returns in ascending order and without overlap; the       *)
(* branch of the code for a run reaching the left edge (it would use the    *)
(* deque's length as the right edge of the block) is never needed.          *)
SackLoopMatches ==
  LET blocks == SackLoop(tracker, MaxSack)
  IN  /\ Range(blocks) = GenerateSack(tracker, MaxSack)
      /\ \A i \in 1..(Len(blocks) - 1) : blocks[i][2] < blocks[i + 1][1]
      /\ \A i \in DOMAIN blocks : blocks[i][1] > ReceivedTill(tracker)

(* What was received stays received, and the left edge never moves back:    *)
(* retransmissions, timeouts and late duplicates undo no ack.               *)
ReceivedIsStable ==
  [][KnownReceived(tracker) \subseteq KnownReceived(tracker')]_vars
=============================================================================
