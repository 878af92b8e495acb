---------------------------- MODULE TrackRxProofs ----------------------------
(***************************************************************************)
(* What the operators of TrackRxPackets preserve, for every tracker: each  *)
(* of them takes a sound tracker to a sound tracker, what it makes known   *)
(* to be received, and what becomes of the status of every packet.         *)
(* TcpSenderProofs and TcpFlowProofs cite these lemmas for the handlers    *)
(* that call the operators.                                                *)
(***************************************************************************)
EXTENDS TrackRxPackets, FiniteSetTheorems, WellFoundedInduction, TLAPS

-----------------------------------------------------------------------------
(* Minima and counting *)

(* A non-empty set of natural numbers has a least element. *)
LEMMA NatMin ==
  ASSUME NEW T \in SUBSET Nat, T # {}
  PROVE  \E m \in T : \A k \in T : m <= k
<1>1. PICK m \in T : \A k \in T : <<k, m>> \notin OpToRel(<, Nat)
  BY WFMin, NatLessThanWellFounded, Zenon
<1>2. \A k \in T : ~(k < m)
  BY <1>1, Zenon DEF OpToRel
<1> QED
  BY <1>2

(* Every part of a window is finite. *)
LEMMA WindowParts ==
  ASSUME NEW l \in Nat, NEW r \in Nat, NEW S \in SUBSET Window(l, r)
  PROVE  IsFiniteSet(S) /\ Cardinality(S) \in Nat
<1>1. IsFiniteSet(Window(l, r))
  BY FS_Interval DEF Window
<1> QED
  BY <1>1, FS_Subset, FS_CardinalityType

(* Removing part of a finite set and adding fresh elements. *)
LEMMA CountReplaced ==
  ASSUME NEW S, IsFiniteSet(S), NEW R, IsFiniteSet(R),
         NEW A, IsFiniteSet(A), S \cap A = {}
  PROVE  /\ Cardinality(S \cap R) <= Cardinality(S)
         /\ Cardinality((S \ R) \cup A)
              = Cardinality(S) - Cardinality(S \cap R) + Cardinality(A)
<1>1. /\ IsFiniteSet(S \ R)
      /\ Cardinality(S \ R) = Cardinality(S) - Cardinality(S \cap R)
  BY FS_Difference
<1>2. Cardinality(S \cap R) <= Cardinality(S)
  BY FS_Intersection
<1>3. (S \ R) \cap A = {}
  OBVIOUS
<1>4. Cardinality((S \ R) \cup A) = Cardinality(S \ R) + Cardinality(A) - Cardinality({})
  BY <1>1, <1>3, FS_Union
<1>5. Cardinality({}) = 0
  BY FS_EmptySet
<1>6. /\ Cardinality(S) \in Nat /\ Cardinality(A) \in Nat
      /\ Cardinality(S \cap R) \in Nat /\ Cardinality(S \ R) \in Nat
  BY <1>1, FS_CardinalityType, FS_Intersection
<1> QED
  BY <1>1, <1>2, <1>4, <1>5, <1>6

-----------------------------------------------------------------------------
(* The front of the window *)

(* The scan for the first packet that is not received finds it. *)
LEMMA FrontFound ==
  ASSUME NEW l \in Nat, NEW r \in Nat, l <= r, NEW status
  PROVE  LET f == FrontOf(l, r, status)
         IN  /\ f \in l..r
             /\ \A q \in l..(f - 1) : status[q] = Received
             /\ f < r => status[f] # Received
<1> DEFINE Stops == {q \in l..r : q = r \/ status[q] # Received}
<1>1. Stops \in SUBSET Nat /\ Stops # {}
  <2>1. r \in Stops
    OBVIOUS
  <2> QED
    BY <2>1
<1>2. PICK m \in Stops : \A k \in Stops : m <= k
  BY <1>1, NatMin
<1>3. /\ m \in l..r
      /\ \A q \in l..(m - 1) : status[q] = Received
      /\ m < r => status[m] # Received
  <2>1. m \in l..r /\ (m = r \/ status[m] # Received)
    BY <1>2
  <2>2. ASSUME NEW q \in l..(m - 1)
        PROVE  status[q] = Received
    <3>1. q \in l..r /\ ~(m <= q)
      BY <2>1
    <3> QED
      BY <1>2, <3>1
  <2> QED
    BY <2>1, <2>2
<1> HIDE DEF Stops
<1> QED
  BY <1>3 DEF FrontOf

(* A tracker that counts its lost packets has one to offer. *)
LEMMA FirstLostFound ==
  ASSUME NEW t, TrackerSound(t), t.lost > 0
  PROVE  FirstLost(t) \in LostIn(t)
<1>1. LostIn(t) \in SUBSET Nat
  BY DEF TrackerSound, TrackerType, LostIn, Window
<1>2. LostIn(t) # {}
  BY FS_EmptySet DEF TrackerSound, LostCounted, TrackerType
<1>3. PICK m \in LostIn(t) : \A k \in LostIn(t) : m <= k
  BY <1>1, <1>2, NatMin
<1> QED
  BY <1>3 DEF FirstLost

-----------------------------------------------------------------------------
(* Popping the received front leaves a sound tracker. *)
LEMMA ShrinkSound ==
  ASSUME NEW l \in Nat, NEW r \in Nat, l <= r,
         NEW status \in [Window(l, r) -> PktStatus],
         NEW lost, lost = Cardinality({q \in Window(l, r) : status[q] = Lost}),
         NEW unreported \in Nat
  PROVE  LET t == Shrink(l, r, status, lost, unreported)
         IN  /\ TrackerSound(t)
             /\ t.right = r /\ t.unreported = unreported /\ t.left >= l
<1> DEFINE f == FrontOf(l, r, status)
           t == Shrink(l, r, status, lost, unreported)
<1>1. /\ f \in l..r
      /\ \A q \in l..(f - 1) : status[q] = Received
      /\ f < r => status[f] # Received
  BY FrontFound
<1> HIDE DEF f
<1>2. t = [left |-> f, right |-> r, status |-> [q \in Window(f, r) |-> status[q]],
           lost |-> lost, unreported |-> unreported]
  BY DEF Shrink, Tracker, f
<1> HIDE DEF t
<1>3. LostIn(t) = {q \in Window(l, r) : status[q] = Lost}
  <2>1. \A q \in Window(l, r) : status[q] = Lost => q \in Window(f, r)
    BY <1>1 DEF Window, Lost, Received
  <2>2. Window(f, r) \subseteq Window(l, r)
    BY <1>1 DEF Window
  <2> QED
    BY <1>2, <2>1, <2>2 DEF LostIn
<1>4. lost \in Nat
  <2>1. {q \in Window(l, r) : status[q] = Lost} \in SUBSET Window(l, r)
    OBVIOUS
  <2> QED
    BY <2>1, WindowParts
<1>5. t.status \in [Window(t.left, t.right) -> PktStatus]
  <2>1. \A q \in Window(f, r) : status[q] \in PktStatus
    BY <1>1 DEF Window
  <2> QED
    BY <1>2, <2>1
<1>6. TrackerType(t)
  BY <1>1, <1>2, <1>4, <1>5 DEF TrackerType, Tracker
<1>7. WindowSound(t)
  BY <1>1, <1>2 DEF WindowSound, Window
<1>8. LostCounted(t)
  BY <1>2, <1>3 DEF LostCounted
<1>9. TrackerSound(t) /\ t.right = r /\ t.unreported = unreported /\ t.left >= l
  BY <1>1, <1>2, <1>6, <1>7, <1>8 DEF TrackerSound
<1> QED
  BY <1>9 DEF t
-----------------------------------------------------------------------------
(* Statuses *)

(* Counting n dupacks against a packet that counts them leaves it a status; *)
(* a packet that counts dupacks is neither received nor lost.               *)
LEMMA DupackedStatus ==
  ASSUME NEW s \in PktStatus, NEW seq \in Nat, Counts(s, seq), NEW n \in Nat
  PROVE  /\ Dupacked(s, n) \in PktStatus /\ Dupacked(s, n) # Received
         /\ s # Lost /\ s # Received
<1>1. CASE s \in [st : {"NotReceived"}, dup : 0..DupackLimit, rtx : {0}]
  <2>1. s.dup + n <= DupackLimit
          => [s EXCEPT !.dup = @ + n] \in [st : {"NotReceived"}, dup : 0..DupackLimit, rtx : {0}]
    BY <1>1, DupackLimitAssumption
  <2> QED
    BY <1>1, <2>1, DupackLimitAssumption DEF Dupacked, PktStatus, Received, Lost
<1>2. CASE s \in [st : {"Retransmitted"}, dup : 0..DupackLimit, rtx : Nat]
  <2>1. s.dup + n <= DupackLimit
          => [s EXCEPT !.dup = @ + n] \in [st : {"Retransmitted"}, dup : 0..DupackLimit, rtx : Nat]
    BY <1>2, DupackLimitAssumption
  <2> QED
    BY <1>2, <2>1, DupackLimitAssumption DEF Dupacked, PktStatus, Received, Lost
<1>3. CASE s \in {Received, Lost}
  BY <1>3 DEF Counts, Received, Lost
<1> QED
  BY <1>1, <1>2, <1>3 DEF PktStatus

(* The statuses the sender gives to packets. *)
LEMMA StatusesDistinct ==
  /\ NotReceived(0) \in PktStatus /\ NotReceived(0) # Lost /\ NotReceived(0) # Received
  /\ Received \in PktStatus /\ Lost \in PktStatus /\ Received # Lost
  /\ \A s \in Nat : /\ Retransmitted(0, s) \in PktStatus
                    /\ Retransmitted(0, s) # Lost /\ Retransmitted(0, s) # Received
BY DupackLimitAssumption DEF NotReceived, Retransmitted, Received, Lost, PktStatus

-----------------------------------------------------------------------------
(* mark_pkt, for any packet and any status the program marks packets with,  *)
(* keeps the tracker sound and grows its window to hold the packet.         *)
LEMMA MarkPktSound ==
  ASSUME NEW t, TrackerSound(t), NEW seq \in Nat, NEW new \in PktStatus, new # Lost
  PROVE  LET u == MarkPkt(t, seq, new)
         IN  /\ TrackerSound(u)
             /\ u.right = (IF seq < t.right THEN t.right ELSE seq + 1)
             /\ u.left >= t.left
             /\ new # Received => u.unreported = t.unreported
<1> DEFINE r   == IF seq < t.right THEN t.right ELSE seq + 1
           old == ExtendedStatus(t, seq)
           fresh == new = Received /\ old[seq] # Received
           hit == {q \in DOMAIN old : fresh /\ q < seq /\ Counts(old[q], seq)}
           marked == [q \in DOMAIN old |->
                        IF q = seq THEN new
                        ELSE IF q \in hit THEN Dupacked(old[q], 1)
                        ELSE old[q]]
           newly == {q \in hit : marked[q] = Lost}
           found == IF old[seq] = Lost /\ new # Lost THEN 1 ELSE 0
           lost  == t.lost - found + Cardinality(newly)
<1>0. /\ t.left \in Nat /\ t.right \in Nat /\ t.left <= t.right
      /\ t.status \in [Window(t.left, t.right) -> PktStatus]
      /\ t.lost \in Nat /\ t.unreported \in Nat /\ t.lost = Cardinality(LostIn(t))
  BY DEF TrackerSound, TrackerType, WindowSound, LostCounted
<1>1. CASE seq < t.left
  BY <1>0, <1>1 DEF MarkPkt
<1>2. CASE ~(seq < t.left)
  <2>1. r \in Nat /\ t.left <= r /\ seq \in Window(t.left, r)
    BY <1>0, <1>2 DEF Window
  <2>2. /\ old \in [Window(t.left, r) -> PktStatus]
        /\ \A q \in Window(t.left, r) :
             old[q] = IF q < t.right THEN t.status[q] ELSE NotReceived(0)
    BY <1>0, <2>1, StatusesDistinct DEF ExtendedStatus, Window
  <2>3. {q \in Window(t.left, r) : old[q] = Lost} = LostIn(t)
    BY <1>0, <2>1, <2>2, StatusesDistinct DEF LostIn, Window
  <2> HIDE DEF old, r
  <2>4. DOMAIN old = Window(t.left, r)
    BY <2>2
  <2>5. ASSUME NEW q \in hit
        PROVE  /\ Dupacked(old[q], 1) \in PktStatus
               /\ old[q] # Lost /\ q # seq /\ q \in Window(t.left, r)
    <3>1. old[q] \in PktStatus /\ Counts(old[q], seq) /\ q \in Window(t.left, r)
      BY <2>2, <2>4
    <3>2. q # seq
      BY <3>1, <1>0, <2>1 DEF Window
    <3> QED
      BY <3>1, <3>2, DupackedStatus
  <2>6. marked \in [Window(t.left, r) -> PktStatus]
    BY <2>2, <2>4, <2>5
  <2>7. {q \in Window(t.left, r) : marked[q] = Lost} = (LostIn(t) \ {seq}) \cup newly
    BY <2>3, <2>4, <2>5
  <2>8. LostIn(t) \cap newly = {}
    BY <2>3, <2>5
  <2>9. Cardinality(LostIn(t) \cap {seq}) = found
    <3>1. seq \in LostIn(t) <=> old[seq] = Lost
      BY <2>1, <2>3
    <3>2. CASE old[seq] = Lost
      <4>1. LostIn(t) \cap {seq} = {seq}
        BY <3>1, <3>2
      <4> QED
        BY <4>1, <3>2, FS_Singleton
    <3>3. CASE old[seq] # Lost
      <4>1. LostIn(t) \cap {seq} = {}
        BY <3>1, <3>3
      <4> QED
        BY <4>1, <3>3, FS_EmptySet
    <3> QED
      BY <3>2, <3>3
  <2>10. newly \in SUBSET Window(t.left, r) /\ LostIn(t) \in SUBSET Window(t.left, r)
    BY <2>3, <2>5
  <2>11. IsFiniteSet(newly) /\ IsFiniteSet(LostIn(t)) /\ Cardinality(newly) \in Nat
    BY <1>0, <2>1, <2>10, WindowParts
  <2>12. lost = Cardinality({q \in Window(t.left, r) : marked[q] = Lost})
    <3> HIDE DEF newly, found
    <3>1. IsFiniteSet({seq})
      BY FS_Singleton
    <3>2. Cardinality((LostIn(t) \ {seq}) \cup newly)
            = Cardinality(LostIn(t)) - Cardinality(LostIn(t) \cap {seq}) + Cardinality(newly)
      BY <2>8, <2>11, <3>1, CountReplaced
    <3> QED
      BY <1>0, <2>7, <2>9, <3>2
  <2>13. t.unreported + Cardinality(newly) \in Nat
    BY <1>0, <2>11
  <2>14. MarkPkt(t, seq, new) = Shrink(t.left, r, marked, lost, t.unreported + Cardinality(newly))
    BY <1>2 DEF MarkPkt, old, r
  <2>15. new # Received => t.unreported + Cardinality(newly) = t.unreported
    <3>1. new # Received => hit = {}
      BY Zenon
    <3> HIDE DEF hit
    <3>2. new # Received => newly = {}
      BY <3>1
    <3> HIDE DEF newly
    <3> QED
      BY <3>2, <1>0, FS_EmptySet
  <2> HIDE DEF marked, newly, lost
  <2>16. LET u == Shrink(t.left, r, marked, lost, t.unreported + Cardinality(newly))
         IN  /\ TrackerSound(u)
             /\ u.right = r /\ u.unreported = t.unreported + Cardinality(newly)
             /\ u.left >= t.left
    BY <1>0, <2>1, <2>6, <2>12, <2>13, ShrinkSound
  <2> QED
    BY <2>14, <2>15, <2>16 DEF r
<1> QED
  BY <1>1, <1>2
-----------------------------------------------------------------------------
(* An ack, processed as a whole, keeps the tracker sound, its right edge    *)
(* where it is, and never moves the left edge back.                         *)
LEMMA MarkAckedSound ==
  ASSUME NEW t, TrackerSound(t), NEW acked \in SUBSET Nat
  PROVE  LET u == MarkAcked(t, acked)
         IN  TrackerSound(u) /\ u.right = t.right /\ u.left >= t.left
<1> DEFINE window == Window(t.left, t.right)
           status == StatusAfterAck(t, acked)
           newly  == NewlyLost(t, acked)
           lost   == t.lost - Cardinality(LostIn(t) \cap acked) + Cardinality(newly)
<1>1. /\ t.left \in Nat /\ t.right \in Nat /\ t.left <= t.right
      /\ t.status \in [window -> PktStatus]
      /\ t.lost \in Nat /\ t.unreported \in Nat /\ t.lost = Cardinality(LostIn(t))
  BY DEF TrackerSound, TrackerType, WindowSound, LostCounted
<1>2. ASSUME NEW q \in window
      PROVE  /\ status[q] \in PktStatus
             /\ status[q] = Lost <=> (q \in LostIn(t) \ acked \/ q \in newly)
  <2>1. t.status[q] \in PktStatus
    BY <1>1
  <2>2. CASE q \in acked
    BY <2>2, StatusesDistinct DEF StatusAfterAck, NewlyLost, LostIn
  <2>3. CASE q \notin acked /\ DupacksFor(t, acked, q) = {}
    BY <2>1, <2>3 DEF StatusAfterAck, NewlyLost, LostIn
  <2>4. CASE q \notin acked /\ DupacksFor(t, acked, q) # {}
    <3>1. DupacksFor(t, acked, q) \in SUBSET window
      BY DEF DupacksFor, FreshlyAcked
    <3>2. Cardinality(DupacksFor(t, acked, q)) \in Nat
      BY <1>1, <3>1, WindowParts
    <3>3. PICK p \in DupacksFor(t, acked, q) : p \in Nat /\ Counts(t.status[q], p)
      BY <2>4, <3>1, <1>1 DEF DupacksFor, Window
    <3>4. /\ Dupacked(t.status[q], Cardinality(DupacksFor(t, acked, q))) \in PktStatus
          /\ t.status[q] # Lost
      BY <2>1, <3>2, <3>3, DupackedStatus
    <3>5. status[q] = Dupacked(t.status[q], Cardinality(DupacksFor(t, acked, q)))
      BY <2>4 DEF StatusAfterAck
    <3> QED
      BY <3>4, <3>5 DEF NewlyLost, LostIn
  <2> QED
    BY <2>2, <2>3, <2>4
<1>3. status \in [window -> PktStatus]
  BY <1>2 DEF StatusAfterAck
<1>4. {q \in window : status[q] = Lost} = (LostIn(t) \ acked) \cup newly
  BY <1>2 DEF NewlyLost, LostIn
<1>5. newly \in SUBSET window /\ LostIn(t) \in SUBSET window /\ LostIn(t) \cap newly = {}
  BY DEF NewlyLost, LostIn
<1>6. IsFiniteSet(newly) /\ IsFiniteSet(LostIn(t)) /\ Cardinality(newly) \in Nat
  BY <1>1, <1>5, WindowParts
<1>7. lost = Cardinality({q \in window : status[q] = Lost})
  <2> DEFINE found == LostIn(t) \cap acked
  <2> HIDE DEF newly, status, window
  <2>1. IsFiniteSet(found) /\ LostIn(t) \ acked = LostIn(t) \ found /\ LostIn(t) \cap found = found
    BY <1>6, FS_Intersection
  <2> HIDE DEF found
  <2>2. Cardinality((LostIn(t) \ found) \cup newly)
          = Cardinality(LostIn(t)) - Cardinality(LostIn(t) \cap found) + Cardinality(newly)
    BY <1>5, <1>6, <2>1, CountReplaced
  <2>3. Cardinality({q \in window : status[q] = Lost})
          = t.lost - Cardinality(found) + Cardinality(newly)
    BY <1>1, <1>4, <2>1, <2>2
  <2> QED
    BY <2>3 DEF found
<1>8. MarkAcked(t, acked)
        = Shrink(t.left, t.right, status, lost, t.unreported + Cardinality(newly))
  BY DEF MarkAcked
<1>9. t.unreported + Cardinality(newly) \in Nat
  BY <1>1, <1>6
<1> HIDE DEF status, newly, lost
<1>10. LET u == Shrink(t.left, t.right, status, lost, t.unreported + Cardinality(newly))
       IN  TrackerSound(u) /\ u.right = t.right /\ u.left >= t.left
  BY <1>1, <1>3, <1>7, <1>9, ShrinkSound
<1> QED
  BY <1>8, <1>10

(* A timeout keeps the tracker sound. *)
LEMMA MarkAllAsLostSound ==
  ASSUME NEW t, TrackerSound(t)
  PROVE  LET u == MarkAllAsLost(t)
         IN  /\ TrackerSound(u) /\ u.left = t.left /\ u.right = t.right
             /\ u.unreported = t.unreported
<1> DEFINE window == Window(t.left, t.right)
           status == [q \in window |-> IF t.status[q] = Received THEN Received ELSE Lost]
           newly  == {q \in window : t.status[q] \notin {Received, Lost}}
           lost   == t.lost + Cardinality(newly)
           u      == MarkAllAsLost(t)
<1>1. /\ t.left \in Nat /\ t.right \in Nat /\ t.left <= t.right
      /\ t.status \in [window -> PktStatus]
      /\ t.lost \in Nat /\ t.unreported \in Nat /\ t.lost = Cardinality(LostIn(t))
      /\ t.left < t.right => t.status[t.left] # Received
      /\ t = Tracker(t.left, t.right, t.status, t.lost, t.unreported)
  BY DEF TrackerSound, TrackerType, WindowSound, LostCounted
<1>2. u = Tracker(t.left, t.right, status, lost, t.unreported)
  <2>1. u = [t EXCEPT !.status = status, !.lost = @ + Cardinality(newly)]
    BY DEF MarkAllAsLost
  <2> HIDE DEF u, status, newly
  <2> QED
    BY <1>1, <2>1 DEF Tracker
<1>3. status \in [window -> PktStatus]
  BY StatusesDistinct
<1>4. LostIn(u) = LostIn(t) \cup newly /\ LostIn(t) \cap newly = {}
  BY <1>2, StatusesDistinct DEF LostIn, Tracker
<1>5. LostIn(t) \in SUBSET window /\ newly \in SUBSET window
  BY DEF LostIn
<1>6. /\ IsFiniteSet(LostIn(t)) /\ IsFiniteSet(newly) /\ Cardinality(newly) \in Nat
  BY <1>1, <1>5, WindowParts
<1>7. lost = Cardinality(LostIn(u)) /\ lost \in Nat
  <2> HIDE DEF newly, u
  <2>1. LostIn(u) = (LostIn(t) \ {}) \cup newly /\ LostIn(t) \cap {} = {}
    BY <1>4
  <2>2. Cardinality(LostIn(u)) = Cardinality(LostIn(t)) - Cardinality({}) + Cardinality(newly)
    BY <1>4, <1>6, <2>1, CountReplaced, FS_EmptySet
  <2> QED
    BY <1>1, <1>6, <2>2, FS_EmptySet
<1>8. u.left < u.right => u.status[u.left] # Received
  BY <1>1, <1>2, StatusesDistinct DEF Tracker, Window
<1> HIDE DEF status, newly, lost, u
<1>9. TrackerSound(u) /\ u.left = t.left /\ u.right = t.right /\ u.unreported = t.unreported
  BY <1>1, <1>2, <1>3, <1>7, <1>8
     DEF TrackerSound, TrackerType, WindowSound, LostCounted, Tracker
<1> QED
  BY <1>9 DEF u

(* Telling the congestion control about losses changes nothing else. *)
LEMMA ReportedSound ==
  ASSUME NEW t, TrackerSound(t)
  PROVE  LET u == Reported(t)
         IN  TrackerSound(u) /\ u.left = t.left /\ u.right = t.right /\ u.unreported = 0
<1> DEFINE u == Reported(t)
<1>1. u = [left |-> t.left, right |-> t.right, status |-> t.status,
           lost |-> t.lost, unreported |-> 0]
  BY DEF TrackerSound, TrackerType, Tracker, Reported
<1> HIDE DEF u
<1>2. TrackerSound(u)
  BY <1>1 DEF TrackerSound, TrackerType, WindowSound, LostCounted, LostIn, Tracker
<1> QED
  BY <1>1, <1>2 DEF u

(* TrackRxPackets::new *)
LEMMA NewTrackerSound == TrackerSound(NewTracker) /\ NewTracker.right = 0 /\ NewTracker.unreported = 0
<1> DEFINE u == NewTracker
<1>1. u = [left |-> 0, right |-> 0, status |-> [q \in Window(0, 0) |-> Received],
           lost |-> 0, unreported |-> 0]
  BY DEF NewTracker, Tracker
<1>2. Window(0, 0) = {}
  BY DEF Window
<1> HIDE DEF u
<1>3. LostIn(u) = {}
  BY <1>1, <1>2 DEF LostIn
<1>4. TrackerSound(u)
  BY <1>1, <1>2, <1>3, FS_EmptySet
     DEF TrackerSound, TrackerType, WindowSound, LostCounted, Tracker
<1> QED
  BY <1>1, <1>4 DEF u
-----------------------------------------------------------------------------
(* What a tracker knows to be received *)

(* It is below the right edge of the window, and its first gap is the left  *)
(* edge: two trackers that know the same packets have the same left edge.   *)
LEMMA KnownBounds ==
  ASSUME NEW t, TrackerSound(t)
  PROVE  /\ KnownReceived(t) \subseteq Window(0, t.right)
         /\ t.left \in Nat /\ t.left <= t.right /\ t.left \notin KnownReceived(t)
         /\ Window(0, t.left) \subseteq KnownReceived(t)
BY DEF TrackerSound, TrackerType, WindowSound, KnownReceived, ReceivedIn, Window

(* The front of a sound window is the first packet not received.            *)
LEMMA LeftIsFirstGap ==
  ASSUME NEW t, TrackerSound(t), NEW u, TrackerSound(u),
         KnownReceived(t) \subseteq KnownReceived(u)
  PROVE  t.left <= u.left
<1>1. /\ t.left \in Nat /\ Window(0, t.left) \subseteq KnownReceived(u)
      /\ u.left \in Nat /\ u.left \notin KnownReceived(u)
  BY KnownBounds
<1> QED
  BY <1>1 DEF Window

(* Popping the received front forgets nothing. *)
LEMMA ShrinkKnown ==
  ASSUME NEW l \in Nat, NEW r \in Nat, l <= r, NEW status, NEW lost, NEW unreported
  PROVE  KnownReceived(Shrink(l, r, status, lost, unreported))
           = Window(0, l) \cup {q \in Window(l, r) : status[q] = Received}
<1> DEFINE f == FrontOf(l, r, status)
           t == Shrink(l, r, status, lost, unreported)
<1>1. f \in l..r /\ \A q \in l..(f - 1) : status[q] = Received
  BY FrontFound
<1> HIDE DEF f
<1>2. t = [left |-> f, right |-> r, status |-> [q \in Window(f, r) |-> status[q]],
           lost |-> lost, unreported |-> unreported]
  BY DEF Shrink, Tracker, f
<1> HIDE DEF t
<1>3. KnownReceived(t) = Window(0, f) \cup {q \in Window(f, r) : status[q] = Received}
  BY <1>2 DEF KnownReceived, ReceivedIn
<1>4. Window(0, f) = Window(0, l) \cup l..(f - 1) /\ Window(l, r) = l..(f - 1) \cup Window(f, r)
  BY <1>1 DEF Window
<1> QED
  BY <1>1, <1>3, <1>4 DEF t

(* mark_pkt: a packet marked as received becomes known, and no other; a     *)
(* packet that was not known may take any other status.                     *)
LEMMA MarkPktKnown ==
  ASSUME NEW t, TrackerSound(t), NEW seq \in Nat, NEW new \in PktStatus,
         new # Received => seq \notin KnownReceived(t)
  PROVE  KnownReceived(MarkPkt(t, seq, new))
           = IF new = Received THEN KnownReceived(t) \cup {seq} ELSE KnownReceived(t)
<1> DEFINE r   == IF seq < t.right THEN t.right ELSE seq + 1
           old == ExtendedStatus(t, seq)
           hit == {q \in DOMAIN old :
                     (new = Received /\ old[seq] # Received) /\ q < seq /\ Counts(old[q], seq)}
           marked == [q \in DOMAIN old |->
                        IF q = seq THEN new
                        ELSE IF q \in hit THEN Dupacked(old[q], 1)
                        ELSE old[q]]
<1>0. /\ t.left \in Nat /\ t.right \in Nat /\ t.left <= t.right
      /\ t.status \in [Window(t.left, t.right) -> PktStatus]
  BY DEF TrackerSound, TrackerType, WindowSound
<1>1. CASE seq < t.left
  BY <1>0, <1>1 DEF MarkPkt, KnownReceived, Window
<1>2. CASE ~(seq < t.left)
  <2>1. r \in Nat /\ t.left <= r /\ t.right <= r /\ seq \in Window(t.left, r)
    BY <1>0, <1>2 DEF Window
  <2>2. /\ old \in [Window(t.left, r) -> PktStatus]
        /\ \A q \in Window(t.left, r) :
             old[q] = IF q < t.right THEN t.status[q] ELSE NotReceived(0)
    BY <1>0, <2>1, StatusesDistinct DEF ExtendedStatus, Window
  <2>3. {q \in Window(t.left, r) : old[q] = Received} = ReceivedIn(t)
    BY <1>0, <2>1, <2>2, StatusesDistinct DEF ReceivedIn, Window
  <2>4. DOMAIN old = Window(t.left, r)
    BY <2>2
  <2>5. \E lost, unreported : MarkPkt(t, seq, new) = Shrink(t.left, r, marked, lost, unreported)
    BY <1>2 DEF MarkPkt
  <2> HIDE DEF old, r
  <2>6. \A q \in hit : Dupacked(old[q], 1) # Received /\ old[q] # Received
    BY <2>2, <2>4, DupackedStatus
  <2>7. {q \in Window(t.left, r) : marked[q] = Received}
          = IF new = Received THEN ReceivedIn(t) \cup {seq} ELSE ReceivedIn(t) \ {seq}
    BY <2>1, <2>3, <2>4, <2>6
  <2> HIDE DEF marked
  <2>8. KnownReceived(MarkPkt(t, seq, new))
          = Window(0, t.left) \cup {q \in Window(t.left, r) : marked[q] = Received}
    BY <1>0, <2>1, <2>5, ShrinkKnown
  <2> QED
    BY <2>7, <2>8 DEF KnownReceived
<1> QED
  BY <1>1, <1>2

(* An ack makes known the packets it covers, and no other. *)
LEMMA MarkAckedKnown ==
  ASSUME NEW t, TrackerSound(t), NEW acked \in SUBSET Window(0, t.right)
  PROVE  KnownReceived(MarkAcked(t, acked)) = KnownReceived(t) \cup acked
<1> DEFINE window == Window(t.left, t.right)
           status == StatusAfterAck(t, acked)
<1>1. /\ t.left \in Nat /\ t.right \in Nat /\ t.left <= t.right
      /\ t.status \in [window -> PktStatus]
  BY DEF TrackerSound, TrackerType, WindowSound
<1>2. ASSUME NEW q \in window
      PROVE  status[q] = Received <=> q \in acked \/ t.status[q] = Received
  <2>1. CASE q \in acked
    BY <2>1 DEF StatusAfterAck
  <2>2. CASE q \notin acked /\ DupacksFor(t, acked, q) = {}
    BY <2>2 DEF StatusAfterAck
  <2>3. CASE q \notin acked /\ DupacksFor(t, acked, q) # {}
    <3>1. DupacksFor(t, acked, q) \in SUBSET window
      BY DEF DupacksFor, FreshlyAcked
    <3>2. Cardinality(DupacksFor(t, acked, q)) \in Nat
      BY <1>1, <3>1, WindowParts
    <3>3. PICK p \in DupacksFor(t, acked, q) : p \in Nat /\ Counts(t.status[q], p)
      BY <2>3, <3>1, <1>1 DEF DupacksFor, Window
    <3>4. t.status[q] \in PktStatus
      BY <1>1
    <3>5. /\ Dupacked(t.status[q], Cardinality(DupacksFor(t, acked, q))) # Received
          /\ t.status[q] # Received
      BY <3>2, <3>3, <3>4, DupackedStatus
    <3> QED
      BY <2>3, <3>5 DEF StatusAfterAck
  <2> QED
    BY <2>1, <2>2, <2>3
<1>3. \E lost, unreported :
        MarkAcked(t, acked) = Shrink(t.left, t.right, status, lost, unreported)
  BY DEF MarkAcked
<1> HIDE DEF status
<1>4. KnownReceived(MarkAcked(t, acked))
        = Window(0, t.left) \cup {q \in window : status[q] = Received}
  BY <1>1, <1>3, ShrinkKnown
<1>5. acked \subseteq Window(0, t.left) \cup window
  BY <1>1 DEF Window
<1> QED
  BY <1>2, <1>4, <1>5 DEF KnownReceived, ReceivedIn

(* A timeout, and a report of losses, make nothing known and forget nothing. *)
LEMMA MarkAllAsLostKnown ==
  ASSUME NEW t, TrackerSound(t)
  PROVE  KnownReceived(MarkAllAsLost(t)) = KnownReceived(t)
<1> DEFINE status == [q \in Window(t.left, t.right) |->
                        IF t.status[q] = Received THEN Received ELSE Lost]
<1>1. /\ MarkAllAsLost(t).left = t.left /\ MarkAllAsLost(t).right = t.right
      /\ MarkAllAsLost(t).status = status
  BY DEF MarkAllAsLost, TrackerSound, TrackerType, Tracker
<1> QED
  BY <1>1, StatusesDistinct DEF KnownReceived, ReceivedIn

(* num_unreported_lost changes nothing of what is known to be received.     *)
LEMMA ReportedKnown ==
  ASSUME NEW t, TrackerSound(t)
  PROVE  KnownReceived(Reported(t)) = KnownReceived(t)
BY DEF TrackerSound, TrackerType, Tracker, Reported, KnownReceived, ReceivedIn

(* A new tracker knows nothing to be received.                              *)
LEMMA NewTrackerKnown == KnownReceived(NewTracker) = {}
BY DEF KnownReceived, ReceivedIn, NewTracker, Tracker, Window

(* generate_sack: its blocks cover received packets of the window only. *)
LEMMA SackedReceived ==
  ASSUME NEW t, TrackerSound(t), NEW max
  PROVE  Sacked(GenerateSack(t, max)) \subseteq ReceivedIn(t)
<1>1. t.left \in Nat /\ t.right \in Nat
  BY DEF TrackerSound, TrackerType
<1>2. ASSUME NEW b \in GenerateSack(t, max), NEW q \in b[1]..(b[2] - 1)
      PROVE  q \in ReceivedIn(t)
  <2>1. b \in (t.left..t.right) \X (t.left..t.right) /\ t.status[q] = Received
    BY <1>2 DEF GenerateSack, SackBlocks
  <2>2. q \in Window(t.left, t.right)
    BY <1>1, <2>1 DEF Window
  <2> QED
    BY <2>1, <2>2 DEF ReceivedIn
<1> QED
  BY <1>2 DEF Sacked

-----------------------------------------------------------------------------
(* What becomes of the status of a packet. *)

(* Popping the received front changes no status. *)
LEMMA ShrinkStatus ==
  ASSUME NEW l \in Nat, NEW r \in Nat, l <= r, NEW status, NEW lost, NEW unreported
  PROVE  LET u == Shrink(l, r, status, lost, unreported)
         IN  \A q \in Window(u.left, u.right) : q \in Window(l, r) /\ u.status[q] = status[q]
<1> DEFINE f == FrontOf(l, r, status)
           u == Shrink(l, r, status, lost, unreported)
<1>1. f \in l..r
  BY FrontFound
<1> HIDE DEF f
<1>2. u = [left |-> f, right |-> r, status |-> [q \in Window(f, r) |-> status[q]],
           lost |-> lost, unreported |-> unreported]
  BY DEF Shrink, Tracker, f
<1> HIDE DEF u
<1>3. \A q \in Window(u.left, u.right) : q \in Window(l, r) /\ u.status[q] = status[q]
  BY <1>1, <1>2 DEF Window
<1> QED
  BY <1>3 DEF u

(* A packet above its mark was sent after the last copy of q, whose status  *)
(* is s: above q itself, or new after its retransmission.                   *)
MarkOf(s, q) == IF s.st = "Retransmitted" THEN s.rtx ELSE q

(* Neither received nor given up. *)
Undecided(status, q) == status[q] \notin {Received, Lost}

(* From the tracker t to u: what is undecided was so before, sent as often. *)
StatusesKept(t, u) ==
  \A q \in Window(u.left, u.right) :
    /\ q \in Window(t.left, t.right)
    /\ Undecided(u.status, q) =>
         /\ Undecided(t.status, q)
         /\ t.status[q].st = u.status[q].st /\ t.status[q].rtx = u.status[q].rtx

(* mark_pkt for a packet that is sent gives it its new status, and no other *)
(* packet of the window one.                                                *)
LEMMA MarkPktStatus ==
  ASSUME NEW t, TrackerSound(t), NEW seq \in Nat, NEW new \in PktStatus, new # Received,
         seq >= t.left, seq <= t.right
  PROVE  LET u == MarkPkt(t, seq, new)
         IN  \A q \in Window(u.left, u.right) :
               \/ q = seq /\ u.status[q] = new
               \/ q # seq /\ q \in Window(t.left, t.right) /\ u.status[q] = t.status[q]
<1> DEFINE r   == IF seq < t.right THEN t.right ELSE seq + 1
           old == ExtendedStatus(t, seq)
           hit == {q \in DOMAIN old :
                     (new = Received /\ old[seq] # Received) /\ q < seq /\ Counts(old[q], seq)}
           marked == [q \in DOMAIN old |->
                        IF q = seq THEN new
                        ELSE IF q \in hit THEN Dupacked(old[q], 1)
                        ELSE old[q]]
           u == MarkPkt(t, seq, new)
<1>1. /\ t.left \in Nat /\ t.right \in Nat /\ t.left <= t.right
      /\ t.status \in [Window(t.left, t.right) -> PktStatus]
  BY DEF TrackerSound, TrackerType, WindowSound
<1>2. r \in Nat /\ t.left <= r /\ \A q \in Window(t.left, r) : q = seq \/ q \in Window(t.left, t.right)
  BY <1>1 DEF Window
<1>3. \E lost, unreported : u = Shrink(t.left, r, marked, lost, unreported)
  <2>1. ~(seq < t.left)
    BY <1>1
  <2> QED
    BY <2>1 DEF MarkPkt
<1>4. \A q \in Window(t.left, r) :
        marked[q] = IF q = seq THEN new ELSE t.status[q]
  <2>1. DOMAIN old = Window(t.left, r) /\ hit = {}
    BY DEF ExtendedStatus
  <2>2. \A q \in Window(t.left, r) : q # seq => old[q] = t.status[q]
    BY <1>1 DEF ExtendedStatus, Window
  <2> HIDE DEF old, hit, r
  <2> QED
    BY <2>1, <2>2
<1> HIDE DEF marked, r, u
<1>5. \A q \in Window(u.left, u.right) : q \in Window(t.left, r) /\ u.status[q] = marked[q]
  BY <1>1, <1>2, <1>3, ShrinkStatus
<1> QED
  BY <1>2, <1>4, <1>5 DEF u

(* A status that counted dupacks has the mark it had, unless it is lost.    *)
LEMMA DupackedKeeps ==
  ASSUME NEW s \in PktStatus, NEW seq \in Nat, Counts(s, seq), NEW n \in Nat
  PROVE  \/ Dupacked(s, n) = Lost
         \/ Dupacked(s, n).st = s.st /\ Dupacked(s, n).rtx = s.rtx
<1>1. s \in [st : {"NotReceived"}, dup : 0..DupackLimit, rtx : {0}]
        \/ s \in [st : {"Retransmitted"}, dup : 0..DupackLimit, rtx : Nat]
  BY DEF PktStatus, Counts, Received, Lost
<1> QED
  BY <1>1 DEF Dupacked

(* An ack marks the packets it covers as received; others stay as they are, *)
(* or are lost, because the ack covers a packet above their mark.           *)
LEMMA MarkAckedStatus ==
  ASSUME NEW t, TrackerSound(t), NEW acked \in SUBSET Window(0, t.right)
  PROVE  LET u == MarkAcked(t, acked)
         IN  /\ StatusesKept(t, u)
             /\ \A q \in Window(u.left, u.right) : q \in acked => u.status[q] = Received
             /\ \A q \in Window(u.left, u.right) :
                  u.status[q] = Lost /\ t.status[q] # Lost =>
                    /\ t.status[q].st \in {"NotReceived", "Retransmitted"}
                    /\ \E p \in acked \cap Window(t.left, t.right) : p > MarkOf(t.status[q], q)
<1> DEFINE window == Window(t.left, t.right)
           status == StatusAfterAck(t, acked)
           u == MarkAcked(t, acked)
<1>1. /\ t.left \in Nat /\ t.right \in Nat /\ t.left <= t.right
      /\ t.status \in [window -> PktStatus]
  BY DEF TrackerSound, TrackerType, WindowSound
<1>2. \A q \in window : q \in acked => status[q] = Received
  BY DEF StatusAfterAck
<1>3. ASSUME NEW q \in window
      PROVE  /\ status[q] \notin {Received, Lost} =>
                  /\ t.status[q] \notin {Received, Lost}
                  /\ t.status[q].st = status[q].st /\ t.status[q].rtx = status[q].rtx
             /\ status[q] = Lost /\ t.status[q] # Lost =>
                  /\ t.status[q].st \in {"NotReceived", "Retransmitted"}
                  /\ \E p \in acked \cap window : p > MarkOf(t.status[q], q)
  <2>1. CASE q \in acked
    BY <1>2, <2>1 DEF Received, Lost
  <2>2. CASE q \notin acked /\ DupacksFor(t, acked, q) = {}
    BY <2>2 DEF StatusAfterAck
  <2>3. CASE q \notin acked /\ DupacksFor(t, acked, q) # {}
    <3> DEFINE n == Cardinality(DupacksFor(t, acked, q))
    <3>1. DupacksFor(t, acked, q) \in SUBSET window
      BY DEF DupacksFor, FreshlyAcked
    <3>2. n \in Nat
      BY <1>1, <3>1, WindowParts
    <3>3. PICK p \in DupacksFor(t, acked, q) : TRUE
      BY <2>3
    <3>4. p \in Nat /\ p \in acked \cap window /\ q < p /\ Counts(t.status[q], p)
      BY <1>1 DEF DupacksFor, FreshlyAcked, Window
    <3>5. status[q] = Dupacked(t.status[q], n) /\ t.status[q] \in PktStatus
      BY <1>1, <2>3 DEF StatusAfterAck
    <3> HIDE DEF n, status
    <3>6. /\ t.status[q] \notin {Received, Lost}
          /\ \/ status[q] = Lost
             \/ status[q].st = t.status[q].st /\ status[q].rtx = t.status[q].rtx
      BY <3>2, <3>4, <3>5, DupackedStatus, DupackedKeeps
    <3>7. t.status[q].st \in {"NotReceived", "Retransmitted"} /\ p > MarkOf(t.status[q], q)
      BY <3>4 DEF Counts, MarkOf
    <3> QED
      BY <3>4, <3>6, <3>7
  <2> QED
    BY <2>1, <2>2, <2>3
<1>4. \E lost, unreported : u = Shrink(t.left, t.right, status, lost, unreported)
  BY DEF MarkAcked
<1> HIDE DEF status, u
<1>5. \A q \in Window(u.left, u.right) : q \in window /\ u.status[q] = status[q]
  BY <1>1, <1>4, ShrinkStatus
<1>6. StatusesKept(t, u)
  BY <1>3, <1>5 DEF StatusesKept, Undecided
<1>7. /\ \A q \in Window(u.left, u.right) : q \in acked => u.status[q] = Received
      /\ \A q \in Window(u.left, u.right) :
           u.status[q] = Lost /\ t.status[q] # Lost =>
             /\ t.status[q].st \in {"NotReceived", "Retransmitted"}
             /\ \E p \in acked \cap window : p > MarkOf(t.status[q], q)
  BY <1>2, <1>3, <1>5
<1> QED
  BY <1>6, <1>7 DEF u

(* generate_sack always covers the highest packet received. *)
LEMMA HighestSacked ==
  ASSUME NEW t, TrackerSound(t), NEW max \in Nat \ {0}, NEW q \in ReceivedIn(t),
         \A p \in ReceivedIn(t) : p <= q
  PROVE  q \in Sacked(GenerateSack(t, max))
<1>1. /\ t.left \in Nat /\ t.right \in Nat /\ q \in Nat /\ t.left <= q /\ q < t.right
      /\ t.status[q] = Received
  BY DEF TrackerSound, TrackerType, ReceivedIn, Window
<1> DEFINE runs == {a \in t.left..q : \A p \in a..q : t.status[p] = Received}
<1>2. runs \in SUBSET Nat /\ q \in runs
  BY <1>1
<1>3. PICK a \in runs : \A c \in runs : a <= c
  BY <1>2, NatMin
<1>4. a \in Nat /\ t.left <= a /\ a <= q /\ \A p \in a..q : t.status[p] = Received
  BY <1>1
<1>5. a > t.left => t.status[a - 1] # Received
  <2> SUFFICES ASSUME a > t.left, t.status[a - 1] = Received PROVE FALSE
    OBVIOUS
  <2>1. a - 1 \in t.left..q /\ (a - 1)..q = {a - 1} \cup (a..q)
    BY <1>1, <1>4
  <2>2. a - 1 \in runs
    BY <1>4, <2>1
  <2> QED
    BY <1>3, <1>4, <2>2
<1> HIDE DEF runs
<1>6. q + 1 < t.right => t.status[q + 1] # Received
  <2> SUFFICES ASSUME q + 1 < t.right, t.status[q + 1] = Received PROVE FALSE
    OBVIOUS
  <2>1. q + 1 \in ReceivedIn(t)
    BY <1>1 DEF ReceivedIn, Window
  <2> QED
    BY <1>1, <2>1
<1> DEFINE b == <<a, q + 1>>
<1>7. b \in SackBlocks(t)
  <2>1. b \in (t.left..t.right) \X (t.left..t.right) /\ b[1] = a /\ b[2] = q + 1
    BY <1>1, <1>4
  <2>2. b[1]..(b[2] - 1) = a..q
    BY <1>1, <1>4
  <2> QED
    BY <1>1, <1>4, <1>5, <1>6, <2>1, <2>2 DEF SackBlocks
<1>8. {c \in SackBlocks(t) : c[1] > b[1]} = {}
  <2> SUFFICES ASSUME NEW c \in SackBlocks(t), c[1] > a PROVE FALSE
    OBVIOUS
  <2>1. /\ c[1] \in t.left..t.right /\ c[2] \in t.left..t.right /\ c[1] < c[2]
        /\ \A p \in c[1]..(c[2] - 1) : t.status[p] = Received
        /\ c[1] > t.left => t.status[c[1] - 1] # Received
    BY DEF SackBlocks
  <2>2. c[1] \in c[1]..(c[2] - 1) /\ c[1] \in Window(t.left, t.right)
    BY <1>1, <2>1 DEF Window
  <2>3. c[1] \in ReceivedIn(t)
    BY <2>1, <2>2 DEF ReceivedIn
  <2>4. c[1] - 1 \in a..q /\ c[1] > t.left
    BY <1>1, <1>4, <2>1, <2>3
  <2> QED
    BY <1>4, <2>1, <2>4
<1>9. b \in GenerateSack(t, max)
  <2>1. Cardinality({c \in SackBlocks(t) : c[1] > b[1]}) < max
    BY <1>8, FS_EmptySet
  <2> QED
    BY <1>7, <2>1 DEF GenerateSack
<1>10. q \in b[1]..(b[2] - 1)
  BY <1>1, <1>4
<1> QED
  BY <1>9, <1>10 DEF Sacked
=============================================================================
