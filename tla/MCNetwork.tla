------------------------------ MODULE MCNetwork ------------------------------
(* Values for the constants of Network that a .cfg cannot write. *)
EXTENDS Network

Places(n) == [kind |-> "Finite", size |-> n]
NoLimit   == [kind |-> "Infinite"]
AnySize   == {Places(2), NoLimit}
OnePlace  == {Places(1)}

OneDelay  == [f \in {0} |-> 1]
TwoDelays == [f \in {0, 1} |-> IF f = 0 THEN 0 ELSE 2]

(* The acks of flow 0 are aggregated, those of flow 1 are not. *)
AggregateFirst == [f \in {0, 1} |-> IF f = 0 THEN {2, 3} ELSE {0}]
AggregateNone  == [f \in {0} |-> {0}]

(* With 12 ticks in a second and packets of 1 byte, a rate of 6 sends a      *)
(* packet in 2 ticks, a rate of 4 in 3 ticks and a rate of 12 in 1 tick.     *)
ConstLink  == [kind |-> "Const", rate |-> 6]
RandomLink == [kind |-> "Random", gaps |-> {1, 3}]
TraceLink  == [kind |-> "Mahimahi", times |-> <<1, 2, 4>>]
Pieces(first, second) ==
  [kind |-> "Piecewise", rates |-> <<4, 12>>, spans |-> <<first, second>>]

(* Pieces that last at least the time of a packet, and pieces that do not. *)
AnyLink     == {ConstLink, RandomLink, TraceLink, Pieces(3, 4)}
ShortPieces == {Pieces(1, 2)}
=============================================================================
