------------------------------ MODULE MCCcFlow ------------------------------
(* Values for the constants of CcFlow that a .cfg cannot write. *)
EXTENDS CcFlow

Bytes(n)     == [kind |-> "Bytes", amount |-> n]
ThreePackets == Bytes(3)
TwelvePackets == Bytes(12)

AnyInterval == 0..20

Config(kind) == [kind |-> kind, delay |-> 0]
TwoPackets   == [kind |-> "Const", delay |-> 0, cwnd |-> 2, intersend |-> 0]

(* One of each.  The flow's propagation delay is 0. *)
AllConfigs ==
  {TwoPackets} \cup {Config(kind) : kind \in
     {"AIMD", "InstantCC", "OscInstantCC", "StableLinearCC", "IncreaseBdpCC", "Copa", "Copa2"}}

OnlyLinear == {Config("StableLinearCC")}
OnlyCopa2  == {Config("Copa2")}

(* Two intervals that share out the time. *)
Intervals == <<[from |-> 0, to |-> 2], [from |-> 2, to |-> TimeMax]>>

-----------------------------------------------------------------------------
(* Two exceptions of the properties need longer runs than TLC can check, so *)
(* they are shown here on the algorithm alone: the states it can be in when *)
(* these acks come one after the other.                                     *)
Acked(at, rtt) == [now |-> at, cum |-> 1, uid |-> 1, rtt |-> rtt, lost |-> 0]

After(start, acks) ==
  LET states[n \in 0..Len(acks)] ==
        IF n = 0 THEN {start} ELSE UNION {OnAck(a, acks[n]) : a \in states[n - 1]}
  IN  states[Len(acks)]

(* Copa subtracts a larger base RTT from a smaller standing RTT: round trips *)
(* grow beyond half the base window while the smoothed RTT, which lengthens  *)
(* that window, lags behind.                                                 *)
ASSUME CopaCanAbort ==
  \A a \in After(NewCopa, <<Acked(1, 1), Acked(40, 16), Acked(71, 17)>>) : a.aborted

(* OscInstantCC answers a window of 0 packets, after a round trip that took  *)
(* no time and an interval in which all took the same.                       *)
ASSUME OscCanClose ==
  \E a \in After(NewOsc, <<Acked(0, 0), Acked(1, 1), Acked(2, 2), Acked(3, 2), Acked(4, 2)>>) :
    GetCwnd(a) = 0
=============================================================================
