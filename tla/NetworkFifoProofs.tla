------------------------- MODULE NetworkFifoProofs -------------------------
(***************************************************************************)
(* To each flow the network is a LossyFifo, and the link's buckets account *)
(* for what it carries.                                                    *)
(*                                                                         *)
(* A flow's packets are spread over the agenda and the buffer.  NetInv has *)
(* what is scheduled first at a place due first, so that an action that    *)
(* runs is the first of its flow's at its place (QueueChanges); then what  *)
(* a handler does to the wire is algebra of five queues one after the      *)
(* other.                                                                  *)
(*                                                                         *)
(* How many packets of a flow have reached the link follows from two of    *)
(* those queues and changes where Link::push takes one only (SameReached). *)
(* A reading of the buckets (their egress, say, or the bytes of a source)  *)
(* is unchanged by new buckets, and what is logged is added to one sum of  *)
(* them (ReadsLast), so that the sums of TraceInv follow step by step.     *)
(***************************************************************************)
EXTENDS NetworkProofs

-----------------------------------------------------------------------------
(* Each flow sees a FIFO.                                                   *)

(* What is chosen of a sequence where one element only is in the set.       *)
LEMMA ChosenSingle ==
  ASSUME NEW T, NEW s \in Seq(T), NEW S, NEW k \in DOMAIN s, s[k] \in S,
         \A l \in DOMAIN s : l # k => s[l] \notin S
  PROVE  Chosen(s, S) = <<s[k]>>
<1>1. DOMAIN s = 1..Len(s) /\ Len(s) \in Nat /\ k \in 1..Len(s)
  BY LenProperties
<1> DEFINE w == Without(s, k)
           none == <<>>
           u == w \o none
<1>2. /\ s[k] \in S /\ (\A j \in 1..(k - 1) : s[j] \notin S) =>
           Chosen(s, S) = <<s[k]>> \o Chosen(w, S)
      /\ w \in Seq(T)
  BY ChosenWithout
<1>3. \A j \in 1..(k - 1) : s[j] \notin S
  BY <1>1
<1>4. none \in Seq(T) /\ Len(none) = 0
  BY EmptySeq
<1> HIDE DEF w
<1>5. u = w
  BY <1>2, ConcatEmptySeq
<1> HIDE DEF none
<1>6. Follows(u, s, k, none)
  BY <1>4, Rearranged DEF w
<1>7. /\ Len(w) = Len(s) - 1
      /\ \A p \in 1..(Len(s) - 1) : w[p] = s[IF p < k THEN p ELSE p + 1]
  BY <1>1, <1>4, <1>5, <1>6 DEF Follows
<1>8. \A p \in DOMAIN w : w[p] \notin S
  <2>1. DOMAIN w = 1..(Len(s) - 1)
    BY <1>2, <1>7, LenProperties
  <2>2. ASSUME NEW p \in 1..(Len(s) - 1)
        PROVE  (IF p < k THEN p ELSE p + 1) \in DOMAIN s /\ (IF p < k THEN p ELSE p + 1) # k
    BY <1>1
  <2> QED
    BY <1>7, <2>1, <2>2
<1>9. Chosen(w, S) = <<>>
  BY <1>2, <1>8, ChosenNone
<1>10. <<s[k]>> \in Seq(T)
  BY <1>1, ElementOfSeq
<1>11. <<s[k]>> \o <<>> = <<s[k]>>
  BY <1>10, ConcatEmptySeq
<1> QED
  BY <1>2, <1>3, <1>9, <1>11

(* A function applied to every element of a sequence. *)
Mapped(F, s) == [k \in DOMAIN s |-> F[s[k]]]

Maps(F, s, q) ==
  q \in Seq(Nat) /\ Len(q) = Len(s) /\ \A k \in 1..Len(s) : q[k] = F[s[k]]

(* Applying a function to a sequence's elements gives a sequence as long.   *)
LEMMA MappedType ==
  ASSUME NEW T, NEW F \in [T -> Nat], NEW s \in Seq(T)
  PROVE  Maps(F, s, Mapped(F, s))
<1> DEFINE q == Mapped(F, s)
<1>1. DOMAIN s = 1..Len(s) /\ Len(s) \in Nat
  BY LenProperties
<1>2. q = [k \in 1..Len(s) |-> F[s[k]]]
  BY <1>1 DEF Mapped
<1>3. \A k \in 1..Len(s) : F[s[k]] \in Nat
  BY ElementOfSeq
<1> HIDE DEF q
<1>4. q \in [1..Len(s) -> Nat]
  BY <1>2, <1>3
<1>5. q \in Seq(Nat)
  <2> DEFINE n == Len(s)
  <2>1. n \in Nat /\ q \in [1..n -> Nat]
    BY <1>1, <1>4
  <2> HIDE DEF n
  <2>2. q \in UNION {[1..m -> Nat] : m \in Nat}
    BY ONLY <2>1
  <2> QED
    BY ONLY <2>2, SeqDef
<1>6. Len(q) \in Nat /\ 1..Len(q) = 1..Len(s)
  BY <1>2, <1>5, LenProperties
<1>7. Len(q) = Len(s)
  BY <1>1, <1>6
<1> QED
  BY <1>2, <1>5, <1>7 DEF q, Maps

(* It can be done to two sequences before or after joining them.            *)
LEMMA MappedConcat ==
  ASSUME NEW T, NEW F \in [T -> Nat], NEW s \in Seq(T), NEW t \in Seq(T)
  PROVE  Mapped(F, s \o t) = Mapped(F, s) \o Mapped(F, t)
<1> DEFINE u == s \o t
           x == Mapped(F, s)
           y == Mapped(F, t)
           z == Mapped(F, u)
           w == x \o y
<1>1. /\ u \in Seq(T) /\ Len(u) = Len(s) + Len(t)
      /\ \A k \in 1..(Len(s) + Len(t)) : u[k] = IF k <= Len(s) THEN s[k] ELSE t[k - Len(s)]
  BY ConcatProperties
<1> HIDE DEF u
<1>2. /\ x \in Seq(Nat) /\ Len(x) = Len(s) /\ \A k \in 1..Len(s) : x[k] = F[s[k]]
      /\ y \in Seq(Nat) /\ Len(y) = Len(t) /\ \A k \in 1..Len(t) : y[k] = F[t[k]]
      /\ z \in Seq(Nat) /\ Len(z) = Len(u) /\ \A k \in 1..Len(u) : z[k] = F[u[k]]
  <2>1. Maps(F, s, x) /\ Maps(F, t, y)
    BY MappedType
  <2>2. Maps(F, u, z)
    BY <1>1, MappedType
  <2> QED
    BY <2>1, <2>2 DEF Maps
<1> HIDE DEF x, y, z
<1>3. /\ w \in Seq(Nat) /\ Len(w) = Len(x) + Len(y)
      /\ \A k \in 1..(Len(x) + Len(y)) : w[k] = IF k <= Len(x) THEN x[k] ELSE y[k - Len(x)]
  <2>1. x \in Seq(Nat) /\ y \in Seq(Nat)
    BY <1>2
  <2> QED
    BY <2>1, ConcatProperties
<1> HIDE DEF w
<1>4. Len(s) \in Nat /\ Len(t) \in Nat
  BY LenProperties
<1>5. Len(z) = Len(w)
  BY <1>1, <1>2, <1>3
<1>6. ASSUME NEW k \in 1..Len(z) PROVE z[k] = w[k]
  <2>1. k \in 1..(Len(s) + Len(t))
    BY <1>1, <1>2
  <2>2. z[k] = F[u[k]]
    BY <1>2
  <2>3. CASE k <= Len(s)
    <3>1. u[k] = s[k] /\ w[k] = x[k] /\ k \in 1..Len(s)
      BY <1>1, <1>2, <1>3, <1>4, <2>1, <2>3
    <3> QED
      BY <1>2, <2>2, <3>1
  <2>4. CASE k > Len(s)
    <3>1. k - Len(s) \in 1..Len(t) /\ ~(k <= Len(s))
      BY <1>4, <2>1, <2>4
    <3>2. u[k] = t[k - Len(s)]
      BY <1>1, <2>1, <3>1
    <3>3. w[k] = y[k - Len(s)]
      BY <1>2, <1>3, <2>1, <3>1
    <3> QED
      BY <1>2, <2>2, <3>1, <3>2, <3>3
  <2>5. k <= Len(s) \/ k > Len(s)
    BY <1>4, <2>1
  <2> QED
    BY <2>3, <2>4, <2>5
<1>7. z = w
  BY <1>2, <1>3, <1>5, <1>6, SeqEqual
<1> QED
  BY <1>7 DEF z, u, w, x, y

(* Of a sequence of one element it gives one.                               *)
LEMMA MappedOne ==
  ASSUME NEW T, NEW F \in [T -> Nat], NEW e \in T
  PROVE  Mapped(F, <<e>>) = <<F[e]>>
<1>1. DOMAIN <<e>> = {1} /\ <<e>>[1] = e
  OBVIOUS
<1>2. Mapped(F, <<e>>) = [k \in {1} |-> F[e]]
  BY <1>1 DEF Mapped
<1> QED
  BY <1>2

(* The sequence numbers of pushes, and of packets. *)
SeqIn == [e \in Actions |-> e.pkt.seq]

SeqOfPkt == [pkt \in Packets |-> pkt.seq]

(* The sequence number of a push or a packet, as a function.                *)
LEMMA SeqInType ==
  /\ SeqIn \in [Actions -> Nat] /\ \A e \in Actions : SeqIn[e] = e.pkt.seq
  /\ SeqOfPkt \in [Packets -> Nat] /\ \A pkt \in Packets : SeqOfPkt[pkt] = pkt.seq
<1>1. \A e \in Actions : e.pkt.seq \in Nat
  BY DEF Actions, Packets
<1>2. \A pkt \in Packets : pkt.seq \in Nat
  BY DEF Packets
<1> QED
  BY <1>1, <1>2 DEF SeqIn, SeqOfPkt

(* The sequence numbers of pushes are that function applied to them.        *)
LEMMA SeqsOfMapped ==
  ASSUME NEW s \in Seq(Actions)
  PROVE  SeqsOf(s) = Mapped(SeqIn, s)
<1>1. \A k \in DOMAIN s : SeqIn[s[k]] = s[k].pkt.seq
  <2>1. \A k \in DOMAIN s : s[k] \in Actions
    BY ElementOfSeq, LenProperties
  <2> QED
    BY <2>1, SeqInType
<1> QED
  BY <1>1 DEF SeqsOf, Mapped

(* The sequence numbers of pushes that follow others.                       *)
LEMMA SeqsOfIs ==
  ASSUME NEW s \in Seq(Actions), NEW t \in Seq(Actions)
  PROVE  SeqsOf(s) \in Seq(Nat) /\ SeqsOf(s \o t) = SeqsOf(s) \o SeqsOf(t)
<1>1. s \o t \in Seq(Actions)
  BY ConcatProperties
<1>2. SeqsOf(s \o t) = Mapped(SeqIn, s \o t)
  BY <1>1, SeqsOfMapped
<1>3. Mapped(SeqIn, s \o t) = Mapped(SeqIn, s) \o Mapped(SeqIn, t)
  BY SeqInType, MappedConcat
<1>4. Mapped(SeqIn, s) \in Seq(Nat)
  BY SeqInType, MappedType DEF Maps
<1>5. SeqsOf(s) = Mapped(SeqIn, s) /\ SeqsOf(t) = Mapped(SeqIn, t)
  BY SeqsOfMapped
<1> QED
  BY <1>2, <1>3, <1>4, <1>5

(* The sequence number of one push.                                         *)
LEMMA SeqsOfOne ==
  ASSUME NEW e \in Actions
  PROVE  SeqsOf(<<e>>) = <<e.pkt.seq>>
<1>1. <<e>> \in Seq(Actions)
  OBVIOUS
<1>2. SeqsOf(<<e>>) = Mapped(SeqIn, <<e>>)
  BY <1>1, SeqsOfMapped
<1>3. Mapped(SeqIn, <<e>>) = <<SeqIn[e]>> /\ SeqIn[e] = e.pkt.seq
  BY SeqInType, MappedOne
<1> QED
  BY <1>2, <1>3

(* What waits at one place, in order: its sequence numbers. *)
Queue(kind, f) == SeqsOf(AtKind(kind, f))

(* A queue, before and after the action e is run: if e is one of its pushes  *)
(* it is taken from the front, and what is added is added at the end.        *)
QueueMoves(before, after, e, pushes, added) ==
  \E w \in Seq(Nat) :
    /\ after = w \o added
    /\ e \in pushes => before = <<e.pkt.seq>> \o w
    /\ e \notin pushes => before = w

(* A step takes the push it runs from the front of its queue, and adds what *)
(* the handler returned to the end of the queues it is for.                 *)
LEMMA QueueChanges ==
  ASSUME NetInv, NEW i \in DOMAIN agenda, IsNext(i),
         NEW actions \in Seq(Actions), Returns(i, actions), NEW kind \in Kinds, NEW f \in Flows
  PROVE  QueueMoves(Queue(kind, f), Queue(kind, f)', agenda[i], At(kind, f),
                    SeqsOf(Chosen(actions, PushesAt(kind, f))))
<1> DEFINE S == PushesAt(kind, f)
           rest == Without(agenda, i)
           left == Chosen(rest, S)
           new == Chosen(actions, S)
           all == Chosen(agenda, S)
           w == SeqsOf(left)
<1>1. Typed /\ Scheduled /\ InOrder
  BY DEF NetInv
<1>2. agenda \in Seq(Actions) /\ DOMAIN agenda = 1..Len(agenda) /\ Len(agenda) \in Nat
  BY <1>1, LenProperties DEF Typed
<1>3. /\ agenda[i] \in Actions /\ Placed(agenda[i])
      /\ agenda[i] \in At(kind, f) => \A j \in 1..(i - 1) : agenda[j] \notin At(kind, f)
  BY <1>1, NextIs
<1>4. \A j \in DOMAIN agenda : agenda[j] \in S <=> agenda[j] \in At(kind, f)
  BY <1>1, PushesAtIs DEF Scheduled
<1> HIDE DEF S
<1>5. /\ agenda[i] \notin S => left = all
      /\ agenda[i] \in S /\ (\A j \in 1..(i - 1) : agenda[j] \notin S) => all = <<agenda[i]>> \o left
      /\ rest \in Seq(Actions)
  BY <1>2, ChosenWithout
<1>6. left \in Seq(Actions) /\ new \in Seq(Actions)
  <2>1. left \in Seq(Actions \cap S) /\ new \in Seq(Actions \cap S)
    BY <1>5, ChosenType
  <2> QED
    BY <2>1, SeqMonotonic
<1>7. Chosen(agenda', S) = left \o new
  <2>1. agenda' = rest \o actions
    BY DEF Returns
  <2> HIDE DEF rest
  <2>2. Chosen(rest \o actions, S) = Chosen(rest, S) \o Chosen(actions, S)
    BY <1>5, ChosenConcat
  <2> QED
    BY <2>1, <2>2
<1>8. Queue(kind, f)' = SeqsOf(Chosen(agenda', S)) /\ Queue(kind, f) = SeqsOf(all)
  BY DEF Queue, AtKind, S
<1> HIDE DEF left, new, all
<1>9. Queue(kind, f)' = w \o SeqsOf(new) /\ w \in Seq(Nat)
  BY <1>6, <1>7, <1>8, SeqsOfIs
<1>10. ASSUME agenda[i] \in At(kind, f) PROVE Queue(kind, f) = <<agenda[i].pkt.seq>> \o w
  <2> DEFINE e == agenda[i]
             first == <<e>>
  <2>1. \A j \in 1..(i - 1) : agenda[j] \notin S
    BY <1>2, <1>3, <1>4, <1>10
  <2>2. e \in S
    BY <1>4, <1>10
  <2>3. all = first \o left
    BY <1>5, <2>1, <2>2
  <2>4. first \in Seq(Actions) /\ SeqsOf(first) = <<e.pkt.seq>>
    BY <1>3, SeqsOfOne
  <2> HIDE DEF first
  <2>5. SeqsOf(all) = SeqsOf(first) \o SeqsOf(left)
    BY <1>6, <2>3, <2>4, SeqsOfIs
  <2> QED
    BY <1>8, <2>4, <2>5
<1>11. ASSUME agenda[i] \notin At(kind, f) PROVE Queue(kind, f) = w
  BY <1>4, <1>5, <1>8, <1>11
<1> HIDE DEF w
<1>12. QueueMoves(Queue(kind, f), Queue(kind, f)', agenda[i], At(kind, f), SeqsOf(new))
  BY <1>9, <1>10, <1>11 DEF QueueMoves
<1> QED
  BY <1>12 DEF new, S

(* The sequence numbers of chosen pushes are a sequence of numbers.         *)
LEMMA QueueType ==
  ASSUME NEW s \in Seq(Actions), NEW S
  PROVE  SeqsOf(Chosen(s, S)) \in Seq(Nat)
<1>1. Chosen(s, S) \in Seq(Actions)
  <2>1. Chosen(s, S) \in Seq(Actions \cap S)
    BY ChosenType
  <2> QED
    BY <2>1, SeqMonotonic
<1> QED
  BY <1>1, SeqsOfIs

(* What is queued at a place is a sequence of numbers, before and after a   *)
(* step.                                                                    *)
LEMMA QueuesTyped ==
  ASSUME Typed, NEW i \in DOMAIN agenda, NEW actions \in Seq(Actions), Returns(i, actions),
         NEW kind, NEW f
  PROVE  Queue(kind, f) \in Seq(Nat) /\ Queue(kind, f)' \in Seq(Nat)
<1> DEFINE S == PushesAt(kind, f)
<1>1. agenda \in Seq(Actions) /\ agenda' \in Seq(Actions)
  BY AgendaFollows DEF Typed
<1>2. Queue(kind, f) = SeqsOf(Chosen(agenda, S)) /\ Queue(kind, f)' = SeqsOf(Chosen(agenda', S))
  BY DEF Queue, AtKind
<1> HIDE DEF S
<1> QED
  BY <1>1, <1>2, QueueType

(* What a handler returns: one push at most. *)
Carried(actions) ==
  /\ actions \in Seq(Actions) /\ \A k \in DOMAIN actions : Placed(actions[k])
  /\ \A k, l \in DOMAIN actions : actions[k].act = "Push" /\ actions[l].act = "Push" => k = l

(* What a step does to the queue at one place. *)
LEMMA QueueStays ==
  ASSUME NetInv, NEW i \in DOMAIN agenda, IsNext(i), NEW actions, Carried(actions),
         Returns(i, actions), NEW kind \in Kinds, NEW f \in Flows,
         agenda[i] \notin At(kind, f), \A k \in DOMAIN actions : actions[k] \notin At(kind, f)
  PROVE  Queue(kind, f)' = Queue(kind, f)
<1>1. actions \in Seq(Actions) /\ \A k \in DOMAIN actions : Placed(actions[k])
  BY DEF Carried
<1> DEFINE S == PushesAt(kind, f)
           new == SeqsOf(Chosen(actions, S))
<1>2. PICK w \in Seq(Nat) : Queue(kind, f)' = w \o new /\ Queue(kind, f) = w
  <2>1. QueueMoves(Queue(kind, f), Queue(kind, f)', agenda[i], At(kind, f), new)
    BY <1>1, QueueChanges
  <2> HIDE DEF new
  <2> QED
    BY <2>1 DEF QueueMoves
<1>3. \A k \in DOMAIN actions : actions[k] \notin S
  BY <1>1, PushesAtIs
<1> HIDE DEF S
<1>4. Chosen(actions, S) = <<>>
  BY <1>1, <1>3, ChosenNone
<1>5. SeqsOf(<<>>) = <<>>
  BY DEF SeqsOf
<1>6. w \o <<>> = w
  BY ConcatEmptySeq
<1> QED
  BY <1>2, <1>4, <1>5, <1>6

(* One that it takes a push from loses its first.                           *)
LEMMA QueueLoses ==
  ASSUME NetInv, NEW i \in DOMAIN agenda, IsNext(i), NEW actions, Carried(actions),
         Returns(i, actions), NEW kind \in Kinds, NEW f \in Flows,
         agenda[i] \in At(kind, f), \A k \in DOMAIN actions : actions[k] \notin At(kind, f)
  PROVE  Queue(kind, f) = <<agenda[i].pkt.seq>> \o Queue(kind, f)'
<1>1. actions \in Seq(Actions) /\ \A k \in DOMAIN actions : Placed(actions[k])
  BY DEF Carried
<1> DEFINE S == PushesAt(kind, f)
           new == SeqsOf(Chosen(actions, S))
<1>2. PICK w \in Seq(Nat) :
        Queue(kind, f)' = w \o new /\ Queue(kind, f) = <<agenda[i].pkt.seq>> \o w
  <2>1. QueueMoves(Queue(kind, f), Queue(kind, f)', agenda[i], At(kind, f), new)
    BY <1>1, QueueChanges
  <2> HIDE DEF new
  <2> QED
    BY <2>1 DEF QueueMoves
<1>3. \A k \in DOMAIN actions : actions[k] \notin S
  BY <1>1, PushesAtIs
<1> HIDE DEF S
<1>4. Chosen(actions, S) = <<>>
  BY <1>1, <1>3, ChosenNone
<1>5. SeqsOf(<<>>) = <<>>
  BY DEF SeqsOf
<1>6. w \o <<>> = w
  BY ConcatEmptySeq
<1> QED
  BY <1>2, <1>4, <1>5, <1>6

(* One that it adds a push to has it at the end.                            *)
LEMMA QueueGains ==
  ASSUME NetInv, NEW i \in DOMAIN agenda, IsNext(i), NEW actions, Carried(actions),
         Returns(i, actions), NEW kind \in Kinds, NEW f \in Flows,
         agenda[i] \notin At(kind, f), NEW k \in DOMAIN actions, actions[k] \in At(kind, f)
  PROVE  Queue(kind, f)' = Queue(kind, f) \o <<actions[k].pkt.seq>>
<1>1. /\ actions \in Seq(Actions) /\ \A l \in DOMAIN actions : Placed(actions[l])
      /\ \A l, m \in DOMAIN actions : actions[l].act = "Push" /\ actions[m].act = "Push" => l = m
  BY DEF Carried
<1> DEFINE S == PushesAt(kind, f)
           new == SeqsOf(Chosen(actions, S))
<1>2. PICK w \in Seq(Nat) : Queue(kind, f)' = w \o new /\ Queue(kind, f) = w
  <2>1. QueueMoves(Queue(kind, f), Queue(kind, f)', agenda[i], At(kind, f), new)
    BY <1>1, QueueChanges
  <2> HIDE DEF new
  <2> QED
    BY <2>1 DEF QueueMoves
<1>3. actions[k] \in S /\ \A l \in DOMAIN actions : l # k => actions[l] \notin S
  <2>1. \A l \in DOMAIN actions : actions[l] \in S <=> actions[l] \in At(kind, f)
    BY <1>1, PushesAtIs
  <2>2. \A e : e \in At(kind, f) => e.act = "Push"
    BY DEF At
  <2> QED
    BY <1>1, <2>1, <2>2
<1> HIDE DEF S
<1>4. Chosen(actions, S) = <<actions[k]>>
  BY <1>1, <1>3, ChosenSingle
<1>5. actions[k] \in Actions
  BY AtIs
<1>6. SeqsOf(<<actions[k]>>) = <<actions[k].pkt.seq>>
  BY <1>5, SeqsOfOne
<1> QED
  BY <1>2, <1>4, <1>6

-----------------------------------------------------------------------------
(* What waits in the buffer.                                                *)
BufferSeqs(f) == [k \in DOMAIN InBuffer(f) |-> InBuffer(f)[k].seq]

OfFlow(s, f) == Mapped(SeqOfPkt, Chosen(s, {pkt \in Packets : FlowOf(pkt) = f}))

(* The packets of a flow among those that follow others.                    *)
LEMMA OfFlowIs ==
  ASSUME NEW f, NEW s \in Seq(Packets)
  PROVE  /\ OfFlow(s, f) \in Seq(Nat)
         /\ \A t \in Seq(Packets) : OfFlow(s \o t, f) = OfFlow(s, f) \o OfFlow(t, f)
<1> DEFINE S == {pkt \in Packets : FlowOf(pkt) = f}
<1>1. ASSUME NEW t \in Seq(Packets) PROVE Chosen(t, S) \in Seq(Packets)
  <2> HIDE DEF S
  <2>1. Chosen(t, S) \in Seq(Packets \cap S)
    BY ChosenType
  <2> QED
    BY <2>1, SeqMonotonic
<1>2. OfFlow(s, f) \in Seq(Nat)
  <2>1. Chosen(s, S) \in Seq(Packets)
    BY <1>1
  <2> HIDE DEF S
  <2>2. Maps(SeqOfPkt, Chosen(s, S), Mapped(SeqOfPkt, Chosen(s, S)))
    BY <2>1, SeqInType, MappedType
  <2> QED
    BY <2>2 DEF Maps, OfFlow, S
<1>3. ASSUME NEW t \in Seq(Packets) PROVE OfFlow(s \o t, f) = OfFlow(s, f) \o OfFlow(t, f)
  <2> DEFINE x == Chosen(s, S)
             y == Chosen(t, S)
  <2>1. x \in Seq(Packets) /\ y \in Seq(Packets)
    BY <1>1
  <2>2. Chosen(s \o t, S) = x \o y
    <3> HIDE DEF S
    <3> QED
      BY ChosenConcat
  <2>3. OfFlow(s \o t, f) = Mapped(SeqOfPkt, Chosen(s \o t, S))
        /\ OfFlow(s, f) = Mapped(SeqOfPkt, x) /\ OfFlow(t, f) = Mapped(SeqOfPkt, y)
    BY DEF OfFlow
  <2> HIDE DEF x, y, S
  <2>4. Mapped(SeqOfPkt, x \o y) = Mapped(SeqOfPkt, x) \o Mapped(SeqOfPkt, y)
    BY <2>1, SeqInType, MappedConcat
  <2> QED
    BY <2>2, <2>3, <2>4
<1> QED
  BY <1>2, <1>3

(* One packet is of the flow or not.                                        *)
LEMMA OfFlowOne ==
  ASSUME NEW f, NEW pkt \in Packets
  PROVE  /\ FlowOf(pkt) = f => OfFlow(<<pkt>>, f) = <<pkt.seq>>
         /\ FlowOf(pkt) # f => OfFlow(<<pkt>>, f) = <<>>
<1> DEFINE S == {p \in Packets : FlowOf(p) = f}
           one == <<pkt>>
<1>1. one \in Seq(Packets) /\ DOMAIN one = {1} /\ one[1] = pkt
  OBVIOUS
<1>2. OfFlow(one, f) = Mapped(SeqOfPkt, Chosen(one, S))
  BY DEF OfFlow
<1>3. pkt \in S <=> FlowOf(pkt) = f
  OBVIOUS
<1>4. Mapped(SeqOfPkt, <<pkt>>) = <<pkt.seq>>
  <2>1. Mapped(SeqOfPkt, <<pkt>>) = <<SeqOfPkt[pkt]>> /\ SeqOfPkt[pkt] = pkt.seq
    BY SeqInType, MappedOne
  <2> QED
    BY <2>1
<1>5. Mapped(SeqOfPkt, <<>>) = <<>>
  BY DEF Mapped
<1> HIDE DEF S
<1>6. pkt \in S => Chosen(<<pkt>>, S) = <<pkt>>
  BY ChosenOne
<1> HIDE DEF one
<1>7. pkt \notin S => Chosen(one, S) = <<>>
  BY <1>1, ChosenNone
<1> QED
  BY <1>2, <1>3, <1>4, <1>5, <1>6, <1>7 DEF one

(* What a flow has in the buffer, in these terms.                           *)
LEMMA BufferSeqsAre ==
  ASSUME NEW f, buffer \in Seq(Packets), buffer' \in Seq(Packets)
  PROVE  BufferSeqs(f) = OfFlow(buffer, f) /\ BufferSeqs(f)' = OfFlow(buffer', f)
<1> DEFINE S == {pkt \in Packets : FlowOf(pkt) = f}
<1>1. ASSUME NEW s \in Seq(Packets)
      PROVE  [k \in DOMAIN Chosen(s, S) |-> Chosen(s, S)[k].seq] = Mapped(SeqOfPkt, Chosen(s, S))
  <2> HIDE DEF S
  <2> DEFINE c == Chosen(s, S)
  <2>1. c \in Seq(Packets \cap S)
    BY ChosenType
  <2> HIDE DEF c
  <2>2. \A k \in DOMAIN c : c[k] \in Packets
    BY <2>1, ElementOfSeq, LenProperties
  <2>3. \A k \in DOMAIN c : SeqOfPkt[c[k]] = c[k].seq
    BY <2>2, SeqInType
  <2>4. [k \in DOMAIN c |-> c[k].seq] = Mapped(SeqOfPkt, c)
    BY <2>3 DEF Mapped
  <2> QED
    BY <2>4 DEF c
<1>2. BufferSeqs(f) = [k \in DOMAIN Chosen(buffer, S) |-> Chosen(buffer, S)[k].seq]
  BY DEF BufferSeqs, InBuffer
<1>3. BufferSeqs(f)' = [k \in DOMAIN Chosen(buffer', S) |-> Chosen(buffer', S)[k].seq]
  BY DEF BufferSeqs, InBuffer
<1> QED
  BY <1>1, <1>2, <1>3 DEF OfFlow

(* A packet that is buffered is the last of its flow's there.               *)
LEMMA BufferGains ==
  ASSUME buffer \in Seq(Packets), NEW f \in Flows, NEW pkt \in DataOf(f),
         buffer' = Append(buffer, pkt), NEW g \in Flows
  PROVE  BufferSeqs(g)' = IF g = f THEN BufferSeqs(g) \o <<pkt.seq>> ELSE BufferSeqs(g)
<1>1. pkt \in Packets /\ FlowOf(pkt) = f
  BY FlowOfIs DEF DataOf
<1> DEFINE one == <<pkt>>
<1>2. one \in Seq(Packets) /\ buffer' \in Seq(Packets)
  BY <1>1
<1>3. buffer' = buffer \o one
  BY <1>1
<1> HIDE DEF one
<1>4. OfFlow(buffer \o one, g) = OfFlow(buffer, g) \o OfFlow(one, g) /\ OfFlow(buffer, g) \in Seq(Nat)
  BY <1>2, OfFlowIs
<1>5. OfFlow(one, g) = IF g = f THEN <<pkt.seq>> ELSE <<>>
  BY <1>1, OfFlowOne DEF one
<1>6. BufferSeqs(g) = OfFlow(buffer, g) /\ BufferSeqs(g)' = OfFlow(buffer', g)
  BY <1>2, BufferSeqsAre
<1>7. OfFlow(buffer, g) \o <<>> = OfFlow(buffer, g)
  BY <1>4, ConcatEmptySeq
<1> QED
  BY <1>3, <1>4, <1>5, <1>6, <1>7

(* A packet that leaves the buffer was the first of its flow's there.       *)
LEMMA BufferLoses ==
  ASSUME buffer \in Seq(Packets), buffer' \in Seq(Packets), NEW f \in Flows, NEW pkt \in DataOf(f),
         buffer = <<pkt>> \o buffer', NEW g \in Flows
  PROVE  BufferSeqs(g) = IF g = f THEN <<pkt.seq>> \o BufferSeqs(g)' ELSE BufferSeqs(g)'
<1>1. pkt \in Packets /\ FlowOf(pkt) = f
  BY FlowOfIs DEF DataOf
<1> DEFINE one == <<pkt>>
<1>2. one \in Seq(Packets)
  BY <1>1
<1> HIDE DEF one
<1>4. OfFlow(one \o buffer', g) = OfFlow(one, g) \o OfFlow(buffer', g) /\ OfFlow(buffer', g) \in Seq(Nat)
  BY <1>2, OfFlowIs
<1>5. OfFlow(one, g) = IF g = f THEN <<pkt.seq>> ELSE <<>>
  BY <1>1, OfFlowOne DEF one
<1>6. BufferSeqs(g) = OfFlow(buffer, g) /\ BufferSeqs(g)' = OfFlow(buffer', g)
  BY BufferSeqsAre
<1>7. <<>> \o OfFlow(buffer', g) = OfFlow(buffer', g)
  BY <1>4, ConcatEmptySeq
<1>8. buffer = one \o buffer'
  BY DEF one
<1> QED
  BY <1>4, <1>5, <1>6, <1>7, <1>8

-----------------------------------------------------------------------------
(* The wire: what is at the acker, the router, in the buffer, at the link   *)
(* and in the delay, one after the other.                                   *)
WireOf(a, r, b, l, d) == a \o r \o b \o l \o d

Cat(s, t) == s \o t

(* x and then rest; s and then x. *)
Starts(s, x, rest) == s = <<x>> \o rest

Wires(a, r, b, l, d) ==
  a \in Seq(Nat) /\ r \in Seq(Nat) /\ b \in Seq(Nat) /\ l \in Seq(Nat) /\ d \in Seq(Nat)

Extends(more, s, x) == more = s \o <<x>>

(* Joining queues is associative.                                           *)
LEMMA CatIs ==
  /\ \A s, t \in Seq(Nat) : Cat(s, t) \in Seq(Nat)
  /\ \A s, t, u \in Seq(Nat) : Cat(Cat(s, t), u) = Cat(s, Cat(t, u))
<1>1. \A s, t \in Seq(Nat) : Cat(s, t) \in Seq(Nat)
  BY ConcatProperties DEF Cat
<1>2. \A s, t, u \in Seq(Nat) : Cat(Cat(s, t), u) = Cat(s, Cat(t, u))
  BY ConcatAssociative DEF Cat
<1> QED
  BY <1>1, <1>2

(* The wire is its queues joined.                                           *)
LEMMA WireIsCat ==
  ASSUME NEW a, NEW r, NEW b, NEW l, NEW d
  PROVE  WireOf(a, r, b, l, d) = Cat(Cat(Cat(Cat(a, r), b), l), d)
BY DEF WireOf, Cat

(* An element goes from the front of a queue to the end of the one before   *)
(* it.                                                                      *)
LEMMA Passes ==
  ASSUME NEW p \in Seq(Nat), NEW to \in Seq(Nat), NEW rest \in Seq(Nat), NEW one \in Seq(Nat)
  PROVE  Cat(Cat(p, to), Cat(one, rest)) = Cat(Cat(p, Cat(to, one)), rest)
<1>1. Cat(p, to) \in Seq(Nat)
  BY CatIs
<1>2. Cat(Cat(p, to), Cat(one, rest)) = Cat(Cat(Cat(p, to), one), rest)
  BY <1>1, CatIs
<1>3. Cat(Cat(p, to), one) = Cat(p, Cat(to, one))
  BY CatIs
<1> QED
  BY <1>2, <1>3

(* A packet that goes from one place to the one before it stays where it is *)
(* on the wire.                                                             *)
LEMMA DelayToLink ==
  ASSUME NEW a, NEW r, NEW b, NEW l, NEW d, Wires(a, r, b, l, d),
         NEW x \in Nat, NEW rest \in Seq(Nat), Starts(d, x, rest),
         NEW got, Extends(got, l, x)
  PROVE  WireOf(a, r, b, got, rest) = WireOf(a, r, b, l, d)
<1> DEFINE one == <<x>>
           p == Cat(Cat(a, r), b)
<1>0. a \in Seq(Nat) /\ r \in Seq(Nat) /\ b \in Seq(Nat) /\ l \in Seq(Nat) /\ d \in Seq(Nat)
  BY DEF Wires
<1>1. one \in Seq(Nat) /\ p \in Seq(Nat)
  BY <1>0, CatIs
<1>2. d = Cat(one, rest) /\ got = Cat(l, one)
  BY DEF Cat, Starts, Extends
<1>3. /\ WireOf(a, r, b, got, rest) = Cat(Cat(p, got), rest)
      /\ WireOf(a, r, b, l, d) = Cat(Cat(p, l), d)
  BY WireIsCat
<1> HIDE DEF one, p
<1>4. Cat(Cat(p, l), Cat(one, rest)) = Cat(Cat(p, Cat(l, one)), rest)
  BY <1>0, <1>1, Passes
<1> QED
  BY <1>2, <1>3, <1>4

(* so does one that is buffered,                                            *)
LEMMA LinkToBuffer ==
  ASSUME NEW a, NEW r, NEW b, NEW l, NEW d, Wires(a, r, b, l, d),
         NEW x \in Nat, NEW rest \in Seq(Nat), Starts(l, x, rest),
         NEW got, Extends(got, b, x)
  PROVE  WireOf(a, r, got, rest, d) = WireOf(a, r, b, l, d)
<1> DEFINE one == <<x>>
           p == Cat(a, r)
<1>0. a \in Seq(Nat) /\ r \in Seq(Nat) /\ b \in Seq(Nat) /\ l \in Seq(Nat) /\ d \in Seq(Nat)
  BY DEF Wires
<1>1. one \in Seq(Nat) /\ p \in Seq(Nat)
  BY <1>0, CatIs
<1>2. l = Cat(one, rest) /\ got = Cat(b, one)
  BY DEF Cat, Starts, Extends
<1>3. /\ WireOf(a, r, got, rest, d) = Cat(Cat(Cat(p, got), rest), d)
      /\ WireOf(a, r, b, l, d) = Cat(Cat(Cat(p, b), l), d)
  BY WireIsCat
<1> HIDE DEF one, p
<1>4. Cat(Cat(p, b), Cat(one, rest)) = Cat(Cat(p, Cat(b, one)), rest)
  BY <1>0, <1>1, Passes
<1> QED
  BY <1>2, <1>3, <1>4

(* one that leaves the buffer for the router,                               *)
LEMMA BufferToRouter ==
  ASSUME NEW a, NEW r, NEW b, NEW l, NEW d, Wires(a, r, b, l, d),
         NEW x \in Nat, NEW rest \in Seq(Nat), Starts(b, x, rest),
         NEW got, Extends(got, r, x)
  PROVE  WireOf(a, got, rest, l, d) = WireOf(a, r, b, l, d)
<1> DEFINE one == <<x>>
<1>0. a \in Seq(Nat) /\ r \in Seq(Nat) /\ b \in Seq(Nat) /\ l \in Seq(Nat) /\ d \in Seq(Nat)
  BY DEF Wires
<1>1. one \in Seq(Nat) /\ a \in Seq(Nat)
  BY <1>0, CatIs
<1>2. b = Cat(one, rest) /\ got = Cat(r, one)
  BY DEF Cat, Starts, Extends
<1>3. /\ WireOf(a, got, rest, l, d) = Cat(Cat(Cat(Cat(a, got), rest), l), d)
      /\ WireOf(a, r, b, l, d) = Cat(Cat(Cat(Cat(a, r), b), l), d)
  BY WireIsCat
<1> HIDE DEF one
<1>4. Cat(Cat(a, r), Cat(one, rest)) = Cat(Cat(a, Cat(r, one)), rest)
  BY <1>0, <1>1, Passes
<1> QED
  BY <1>2, <1>3, <1>4

(* and one that the router passes on.                                       *)
LEMMA RouterToAcker ==
  ASSUME NEW a, NEW r, NEW b, NEW l, NEW d, Wires(a, r, b, l, d),
         NEW x \in Nat, NEW rest \in Seq(Nat), Starts(r, x, rest),
         NEW got, Extends(got, a, x)
  PROVE  WireOf(got, rest, b, l, d) = WireOf(a, r, b, l, d)
<1> DEFINE one == <<x>>
<1>0. a \in Seq(Nat) /\ r \in Seq(Nat) /\ b \in Seq(Nat) /\ l \in Seq(Nat) /\ d \in Seq(Nat)
  BY DEF Wires
<1>1. one \in Seq(Nat) /\ a \in Seq(Nat)
  BY <1>0, CatIs
<1>2. r = Cat(one, rest) /\ got = Cat(a, one)
  BY DEF Cat, Starts, Extends
<1>3. /\ WireOf(got, rest, b, l, d) = Cat(Cat(Cat(Cat(got, rest), b), l), d)
      /\ WireOf(a, r, b, l, d) = Cat(Cat(Cat(Cat(a, r), b), l), d)
  BY WireIsCat
<1> HIDE DEF one
<1>4. Cat(a, Cat(one, rest)) = Cat(Cat(a, one), rest)
  BY <1>0, <1>1, CatIs
<1> QED
  BY <1>2, <1>3, <1>4

(* Appending is joining with one element.                                   *)
LEMMA AppendIsCat ==
  ASSUME NEW s \in Seq(Nat), NEW x \in Nat
  PROVE  Append(s, x) = s \o <<x>>
OBVIOUS

(* A packet sent is the last on the wire.                                   *)
LEMMA WireGrows ==
  ASSUME NEW a, NEW r, NEW b, NEW l, NEW d, Wires(a, r, b, l, d),
         NEW x \in Nat, NEW more, Extends(more, d, x)
  PROVE  WireOf(a, r, b, l, more) = Append(WireOf(a, r, b, l, d), x)
<1> DEFINE p == Cat(Cat(Cat(a, r), b), l)
           one == <<x>>
           w == Cat(p, d)
<1>0. a \in Seq(Nat) /\ r \in Seq(Nat) /\ b \in Seq(Nat) /\ l \in Seq(Nat) /\ d \in Seq(Nat)
  BY DEF Wires
<1>1. p \in Seq(Nat) /\ one \in Seq(Nat) /\ more = Cat(d, one)
  BY <1>0, CatIs DEF Cat, Extends
<1>2. WireOf(a, r, b, l, more) = Cat(p, more) /\ WireOf(a, r, b, l, d) = w
  BY WireIsCat
<1> HIDE DEF p
<1>3. w \in Seq(Nat)
  BY <1>0, <1>1, CatIs
<1>4. Cat(p, Cat(d, one)) = Cat(w, one)
  <2> HIDE DEF one
  <2> QED
    BY <1>0, <1>1, CatIs
<1> HIDE DEF w
<1>5. Append(w, x) = w \o <<x>>
  BY <1>3, AppendIsCat
<1>6. Append(w, x) = Cat(w, one)
  BY <1>5 DEF Cat
<1> QED
  BY <1>1, <1>2, <1>4, <1>6

(* A packet that leaves the acker was the first on the wire.                *)
LEMMA WireEnds ==
  ASSUME NEW a, NEW r, NEW b, NEW l, NEW d, Wires(a, r, b, l, d),
         NEW x \in Nat, NEW rest \in Seq(Nat), Starts(a, x, rest)
  PROVE  /\ Starts(WireOf(a, r, b, l, d), x, WireOf(rest, r, b, l, d))
         /\ WireOf(rest, r, b, l, d) \in Seq(Nat)
<1> DEFINE one == <<x>>
           p == Cat(rest, r)
           q == Cat(p, b)
           s == Cat(q, l)
           w == Cat(s, d)
<1>0. a \in Seq(Nat) /\ r \in Seq(Nat) /\ b \in Seq(Nat) /\ l \in Seq(Nat) /\ d \in Seq(Nat)
  BY DEF Wires
<1>1. one \in Seq(Nat) /\ a = Cat(one, rest)
  BY DEF Cat, Starts
<1>2. p \in Seq(Nat) /\ q \in Seq(Nat) /\ s \in Seq(Nat) /\ w \in Seq(Nat)
  BY <1>0, CatIs
<1>3. WireOf(rest, r, b, l, d) = w
  BY WireIsCat
<1> HIDE DEF one
<1>4. Cat(a, r) = Cat(one, p)
  <2>1. a = Cat(one, rest) /\ one \in Seq(Nat)
    BY <1>1
  <2>2. Cat(Cat(one, rest), r) = Cat(one, Cat(rest, r))
    BY <1>0, <2>1, CatIs
  <2>3. Cat(a, r) = Cat(Cat(one, rest), r)
    BY <2>1
  <2> QED
    BY <2>2, <2>3
<1> HIDE DEF p
<1>5. Cat(Cat(a, r), b) = Cat(one, q)
  BY <1>0, <1>1, <1>2, <1>4, CatIs
<1> HIDE DEF q
<1>6. Cat(Cat(Cat(a, r), b), l) = Cat(one, s)
  BY <1>0, <1>1, <1>2, <1>5, CatIs
<1> HIDE DEF s
<1>7. Cat(Cat(Cat(Cat(a, r), b), l), d) = Cat(one, w)
  BY <1>0, <1>1, <1>2, <1>6, CatIs
<1>8. WireOf(a, r, b, l, d) = Cat(one, w)
  BY <1>7, WireIsCat
<1> HIDE DEF w
<1> QED
  BY <1>2, <1>3, <1>8 DEF Cat, Starts, one

(* The head of a queue that starts with an element.                         *)
LEMMA HeadIsFirst ==
  ASSUME NEW x \in Nat, NEW rest \in Seq(Nat), NEW s, Starts(s, x, rest)
  PROVE  s # <<>> /\ Head(s) = x /\ Tail(s) = rest
<1> DEFINE one == <<x>>
<1>1. one \in Seq(Nat) /\ Len(one) = 1 /\ one[1] = x /\ s = one \o rest
  BY DEF Starts
<1> HIDE DEF one
<1>2. /\ s \in Seq(Nat) /\ Len(s) = Len(one) + Len(rest)
      /\ \A k \in 1..(Len(one) + Len(rest)) :
           s[k] = IF k <= Len(one) THEN one[k] ELSE rest[k - Len(one)]
  BY <1>1, ConcatProperties
<1>3. Len(rest) \in Nat
  BY LenProperties
<1>4. /\ Len(s) = 1 + Len(rest) /\ s[1] = x
      /\ \A k \in 1..Len(rest) : s[k + 1] = rest[k]
  <2>1. 1 \in 1..(Len(one) + Len(rest)) /\ 1 <= Len(one)
    BY <1>1, <1>3
  <2>2. ASSUME NEW k \in 1..Len(rest) PROVE s[k + 1] = rest[k]
    <3>1. k + 1 \in 1..(Len(one) + Len(rest)) /\ ~(k + 1 <= Len(one)) /\ (k + 1) - Len(one) = k
      BY <1>1, <1>3
    <3> QED
      BY <1>2, <3>1
  <2> QED
    BY <1>1, <1>2, <2>1, <2>2
<1>5. s # <<>>
  BY <1>3, <1>4, EmptySeq
<1>6. /\ Head(s) = s[1] /\ Tail(s) \in Seq(Nat) /\ Len(Tail(s)) = Len(s) - 1
      /\ \A k \in 1..Len(Tail(s)) : Tail(s)[k] = s[k + 1]
  BY <1>2, <1>5, HeadTailProperties
<1> DEFINE t == Tail(s)
<1>7. t \in Seq(Nat) /\ Len(t) = Len(rest) /\ \A k \in 1..Len(t) : t[k] = rest[k]
  BY <1>3, <1>4, <1>6
<1> HIDE DEF t
<1>8. t = rest
  BY <1>7, SeqEqual
<1> QED
  BY <1>4, <1>5, <1>6, <1>8 DEF t

(* Without its n-th element, w is p and tail. *)
Gone(w, n, p, tail) == n \in DOMAIN w /\ Without(w, n) = p \o tail

(* One element less in the middle. *)
LEMMA MiddleGoes ==
  ASSUME NEW p \in Seq(Nat), NEW x \in Nat, NEW tail \in Seq(Nat), NEW mid, mid = <<x>> \o tail,
         NEW w, w = p \o mid
  PROVE  Gone(w, Len(p) + 1, p, tail)
<1> DEFINE one == <<x>>
           n == Len(p) + 1
<1>1. one \in Seq(Nat) /\ Len(one) = 1 /\ mid = one \o tail
  OBVIOUS
<1> HIDE DEF one
<1>2. /\ mid \in Seq(Nat) /\ Len(mid) = Len(one) + Len(tail)
      /\ \A k \in 1..(Len(one) + Len(tail)) :
           mid[k] = IF k <= Len(one) THEN one[k] ELSE tail[k - Len(one)]
  BY <1>1, ConcatProperties
<1>3. Len(p) \in Nat /\ Len(tail) \in Nat
  BY LenProperties
<1>4. Len(mid) = 1 + Len(tail) /\ \A k \in 1..Len(tail) : mid[k + 1] = tail[k]
  <2>1. ASSUME NEW k \in 1..Len(tail) PROVE mid[k + 1] = tail[k]
    <3>1. k + 1 \in 1..(Len(one) + Len(tail)) /\ ~(k + 1 <= Len(one)) /\ (k + 1) - Len(one) = k
      BY <1>1, <1>3
    <3> QED
      BY <1>2, <3>1
  <2> QED
    BY <1>1, <1>2, <2>1
<1>5. mid \in Seq(Nat)
  BY <1>2
<1>6. /\ w \in Seq(Nat) /\ Len(w) = Len(p) + Len(mid)
      /\ \A k \in 1..(Len(p) + Len(mid)) : w[k] = IF k <= Len(p) THEN p[k] ELSE mid[k - Len(p)]
  BY <1>5, ConcatProperties
<1>7. DOMAIN w = 1..Len(w) /\ Len(w) = Len(p) + 1 + Len(tail) /\ Len(w) \in Nat
  BY <1>3, <1>4, <1>6, LenProperties
<1>8. n \in DOMAIN w /\ n \in Nat
  BY <1>3, <1>7
<1>9. PICK front, back \in Seq(Nat) : Halves(front, back, w, n)
  BY <1>6, <1>8, Splits
<1>10. /\ Len(front) = n - 1 /\ \A j \in 1..(n - 1) : front[j] = w[j]
       /\ Len(back) = Len(w) - n /\ \A j \in 1..(Len(w) - n) : back[j] = w[n + j]
       /\ Without(w, n) = front \o back
  BY <1>9 DEF Halves
<1>11. front = p
  <2>1. Len(front) = Len(p)
    BY <1>3, <1>10
  <2>2. ASSUME NEW j \in 1..Len(front) PROVE front[j] = p[j]
    <3>1. j \in 1..(n - 1) /\ j \in 1..(Len(p) + Len(mid)) /\ j <= Len(p)
      BY <1>3, <1>4, <2>1
    <3> QED
      BY <1>6, <1>10, <3>1
  <2> QED
    BY <1>9, <2>1, <2>2, SeqEqual
<1>12. back = tail
  <2>1. Len(back) = Len(tail)
    BY <1>3, <1>7, <1>10
  <2>2. ASSUME NEW j \in 1..Len(back) PROVE back[j] = tail[j]
    <3>1. j \in 1..Len(tail) /\ j \in 1..(Len(w) - n)
      BY <1>3, <1>7, <2>1
    <3>2. n + j \in 1..(Len(p) + Len(mid)) /\ ~(n + j <= Len(p)) /\ (n + j) - Len(p) = j + 1
      BY <1>3, <1>4, <3>1
    <3>3. back[j] = w[n + j]
      BY <1>10, <3>1
    <3>4. w[n + j] = mid[(n + j) - Len(p)]
      <4> HIDE DEF n
      <4> QED
        BY <1>6, <3>2
    <3>5. mid[j + 1] = tail[j]
      BY <1>4, <3>1
    <3> QED
      BY <3>2, <3>3, <3>4, <3>5
  <2> QED
    BY <1>9, <2>1, <2>2, SeqEqual
<1> QED
  BY <1>8, <1>10, <1>11, <1>12 DEF Gone

LosesOne(w, v) == \E n \in DOMAIN w : v = Without(w, n)

(* A packet the link drops leaves the wire in the middle. *)
LEMMA WireDrops ==
  ASSUME NEW a, NEW r, NEW b, NEW l, NEW d, Wires(a, r, b, l, d),
         NEW x \in Nat, NEW rest \in Seq(Nat), Starts(l, x, rest)
  PROVE  LosesOne(WireOf(a, r, b, l, d), WireOf(a, r, b, rest, d))
<1> DEFINE p == Cat(Cat(a, r), b)
           one == <<x>>
           tail == Cat(rest, d)
           mid == Cat(one, tail)
           w == Cat(p, mid)
<1>0. a \in Seq(Nat) /\ r \in Seq(Nat) /\ b \in Seq(Nat) /\ l \in Seq(Nat) /\ d \in Seq(Nat)
  BY DEF Wires
<1>1. one \in Seq(Nat) /\ l = Cat(one, rest)
  BY DEF Cat, Starts
<1>2. p \in Seq(Nat) /\ tail \in Seq(Nat) /\ Cat(p, rest) \in Seq(Nat)
  BY <1>0, CatIs
<1>3. WireOf(a, r, b, l, d) = Cat(Cat(p, l), d) /\ WireOf(a, r, b, rest, d) = Cat(Cat(p, rest), d)
  BY WireIsCat
<1> HIDE DEF p
<1>4. Cat(Cat(p, rest), d) = Cat(p, tail)
  BY <1>0, <1>2, CatIs
<1>5. Cat(Cat(p, l), d) = w
  <2> HIDE DEF one
  <2>1. Cat(Cat(p, l), d) = Cat(p, Cat(l, d))
    BY <1>0, <1>2, CatIs
  <2>2. Cat(Cat(one, rest), d) = Cat(one, Cat(rest, d))
    <3>1. one \in Seq(Nat)
      BY <1>1
    <3> QED
      BY <1>0, <3>1, CatIs
  <2>3. Cat(l, d) = Cat(Cat(one, rest), d)
    BY <1>1
  <2> QED
    BY <2>1, <2>2, <2>3
<1> HIDE DEF tail
<1>6. mid = <<x>> \o tail /\ w = p \o mid /\ Cat(p, tail) = p \o tail
  BY DEF Cat
<1> HIDE DEF mid, w
<1>7. Gone(w, Len(p) + 1, p, tail)
  BY <1>2, <1>6, MiddleGoes
<1>8. \E n \in DOMAIN w : Cat(p, tail) = Without(w, n)
  BY <1>6, <1>7 DEF Gone
<1> QED
  BY <1>3, <1>4, <1>5, <1>8 DEF LosesOne

-----------------------------------------------------------------------------
(* What a step is to the path of a flow.                                    *)
FifoStep(f) == [Path(f)!FifoNext]_(Path(f)!fifoVars)

(* A step that leaves a flow's paths alone,                                 *)
LEMMA FifoStutters ==
  ASSUME NEW f \in Flows, sent'[f] = sent[f], OnWire(f)' = OnWire(f),
         OnAckPath(f)' = OnAckPath(f)
  PROVE  FifoStep(f)
BY DEF FifoStep, Path!fifoVars

(* one that sends a packet at the end of its wire,                          *)
LEMMA FifoSends ==
  ASSUME NEW f \in Flows, sent'[f] = sent[f] + 1, OnWire(f)' = Append(OnWire(f), sent[f]),
         OnAckPath(f)' = OnAckPath(f)
  PROVE  FifoStep(f)
BY DEF FifoStep, Path!FifoNext, Path!Send

(* one that loses a packet on its wire,                                     *)
LEMMA FifoDrops ==
  ASSUME NEW f \in Flows, sent'[f] = sent[f], OnAckPath(f)' = OnAckPath(f),
         NEW n \in DOMAIN OnWire(f), OnWire(f)' = Without(OnWire(f), n)
  PROVE  FifoStep(f)
BY DEF FifoStep, Path!FifoNext, Path!Drop, Without

(* one that takes the first packet to the end of its acks,                  *)
LEMMA FifoArrives ==
  ASSUME NEW f \in Flows, sent'[f] = sent[f], OnWire(f) # <<>>,
         OnWire(f)' = Tail(OnWire(f)), OnAckPath(f)' = Append(OnAckPath(f), Head(OnWire(f)))
  PROVE  FifoStep(f)
BY DEF FifoStep, Path!FifoNext, Path!Arrive

(* and one that takes the first of its acks are steps of LossyFifo.         *)
LEMMA FifoAcked ==
  ASSUME NEW f \in Flows, sent'[f] = sent[f], OnWire(f)' = OnWire(f),
         OnAckPath(f) # <<>>, OnAckPath(f)' = Tail(OnAckPath(f))
  PROVE  FifoStep(f)
BY DEF FifoStep, Path!FifoNext, Path!Acked

-----------------------------------------------------------------------------
(* The two paths of a flow, from its queues.                                *)
LEMMA OnWireIs ==
  ASSUME NEW f \in Flows
  PROVE  /\ OnWire(f) = WireOf(Queue("Acker", f), Queue("Router", f), BufferSeqs(f),
                               Queue("Link", f), Queue("Delay", f))
         /\ OnWire(f)' = WireOf(Queue("Acker", f)', Queue("Router", f)', BufferSeqs(f)',
                                Queue("Link", f)', Queue("Delay", f)')
         /\ OnAckPath(f) = Queue("Sender", f) \o Queue("Aggregator", f)
         /\ OnAckPath(f)' = Queue("Sender", f)' \o Queue("Aggregator", f)'
BY DEF OnWire, OnAckPath, WireOf, Queue, BufferSeqs

(* At first nothing is queued anywhere: only events are scheduled.          *)
LEMMA NothingQueued ==
  ASSUME Init, NEW f
  PROVE  \A kind : Queue(kind, f) = <<>>
<1>1. agenda \in Seq(Actions) /\ \A i \in DOMAIN agenda : agenda[i].act = "Event"
  BY InitialEventsAre DEF Init
<1> SUFFICES ASSUME NEW kind PROVE Queue(kind, f) = <<>>
  OBVIOUS
<1> DEFINE S == PushesAt(kind, f)
<1>2. \A i \in DOMAIN agenda : agenda[i] \notin S
  BY <1>1 DEF PushesAt
<1>3. Queue(kind, f) = SeqsOf(Chosen(agenda, S))
  BY DEF Queue, AtKind
<1> HIDE DEF S
<1>4. Chosen(agenda, S) = <<>>
  BY <1>1, <1>2, ChosenNone
<1> QED
  BY <1>3, <1>4 DEF SeqsOf

(* At the start both paths of every flow are empty.                         *)
LEMMA PathsStart ==
  ASSUME Init, NEW f \in Flows
  PROVE  Path(f)!FifoInit
<1>1. agenda = InitialEvents /\ buffer = <<>> /\ sent = [g \in Flows |-> 0]
  BY DEF Init
<1>3. \A kind : Queue(kind, f) = <<>>
  BY NothingQueued
<1>4. BufferSeqs(f) = <<>>
  <2> DEFINE S == {pkt \in Packets : FlowOf(pkt) = f}
  <2>1. buffer \in Seq(Packets) /\ DOMAIN buffer = {}
    BY <1>1
  <2>2. BufferSeqs(f) = [k \in DOMAIN Chosen(buffer, S) |-> Chosen(buffer, S)[k].seq]
    BY DEF BufferSeqs, InBuffer
  <2> HIDE DEF S
  <2>3. Chosen(buffer, S) = <<>>
    BY <2>1, ChosenNone
  <2> QED
    BY <2>2, <2>3
<1>5. <<>> \o <<>> = <<>>
  BY ConcatEmptySeq, EmptySeq
<1>6. OnWire(f) = <<>> /\ OnAckPath(f) = <<>>
  BY <1>3, <1>4, <1>5, OnWireIs DEF WireOf
<1> QED
  BY <1>1, <1>6 DEF Path!FifoInit

-----------------------------------------------------------------------------
(* What a step does to a queue.                                             *)
Stays(kind, f)    == Queue(kind, f)' = Queue(kind, f)
Loses(kind, f, x) == Starts(Queue(kind, f), x, Queue(kind, f)')
Gains(kind, f, x) == Extends(Queue(kind, f)', Queue(kind, f), x)

(* The handler of an action that is no push returns one of flow f's pushes,  *)
(* or none; that of a push takes it from its queue.                          *)
LEMMA OneComes ==
  ASSUME NetInv, NEW i \in DOMAIN agenda, IsNext(i), NEW actions, Carried(actions),
         Returns(i, actions), NEW to \in Kinds, NEW f \in Flows,
         \A kind \in Kinds, g \in Flows : agenda[i] \notin At(kind, g),
         NEW k \in DOMAIN actions, actions[k] \in At(to, f)
  PROVE  /\ Gains(to, f, actions[k].pkt.seq)
         /\ \A kind \in Kinds, g \in Flows : kind # to \/ g # f => Stays(kind, g)
<1>1. \A l \in DOMAIN actions : l # k => actions[l].act # "Push"
  BY AtIs DEF Carried
<1>2. Gains(to, f, actions[k].pkt.seq)
  BY QueueGains DEF Gains, Extends
<1>3. ASSUME NEW kind \in Kinds, NEW g \in Flows, kind # to \/ g # f PROVE Stays(kind, g)
  <2>1. \A l \in DOMAIN actions : actions[l] \notin At(kind, g)
    BY <1>1, <1>3, AtIs, AtDiffers
  <2> QED
    BY <2>1, QueueStays DEF Stays
<1> QED
  BY <1>2, <1>3

(* A handler that returns no push takes one packet from its queue.          *)
LEMMA OneGoes ==
  ASSUME NetInv, NEW i \in DOMAIN agenda, IsNext(i), NEW actions, Carried(actions),
         Returns(i, actions), NEW from \in Kinds, NEW f \in Flows, agenda[i] \in At(from, f),
         \A k \in DOMAIN actions : actions[k].act # "Push"
  PROVE  /\ Loses(from, f, agenda[i].pkt.seq)
         /\ \A kind \in Kinds, g \in Flows : kind # from \/ g # f => Stays(kind, g)
<1>1. \A kind \in Kinds, g \in Flows, k \in DOMAIN actions : actions[k] \notin At(kind, g)
  BY AtIs
<1>2. Loses(from, f, agenda[i].pkt.seq)
  BY <1>1, QueueLoses DEF Loses, Starts
<1>3. ASSUME NEW kind \in Kinds, NEW g \in Flows, kind # from \/ g # f PROVE Stays(kind, g)
  <2>1. agenda[i] \notin At(kind, g)
    BY <1>3, AtDiffers
  <2> QED
    BY <1>1, <2>1, QueueStays DEF Stays
<1> QED
  BY <1>2, <1>3

(* One that returns a push for another place of the flow takes the packet   *)
(* from the one queue to the other.                                         *)
LEMMA OneHops ==
  ASSUME NetInv, NEW i \in DOMAIN agenda, IsNext(i), NEW actions, Carried(actions),
         Returns(i, actions), NEW from \in Kinds, NEW to \in Kinds, from # to,
         NEW f \in Flows, agenda[i] \in At(from, f),
         NEW k \in DOMAIN actions, actions[k] \in At(to, f)
  PROVE  /\ Loses(from, f, agenda[i].pkt.seq) /\ Gains(to, f, actions[k].pkt.seq)
         /\ \A kind \in Kinds, g \in Flows :
              (kind # from /\ kind # to) \/ g # f => Stays(kind, g)
<1>1. \A l \in DOMAIN actions : l # k => actions[l].act # "Push"
  BY AtIs DEF Carried
<1>2. \A l \in DOMAIN actions : actions[l] \notin At(from, f)
  BY <1>1, AtIs, AtDiffers
<1>3. Loses(from, f, agenda[i].pkt.seq)
  BY <1>2, QueueLoses DEF Loses, Starts
<1>4. Gains(to, f, actions[k].pkt.seq)
  <2>1. agenda[i] \notin At(to, f)
    BY AtDiffers
  <2> QED
    BY <2>1, QueueGains DEF Gains, Extends
<1>5. ASSUME NEW kind \in Kinds, NEW g \in Flows, (kind # from /\ kind # to) \/ g # f
      PROVE  Stays(kind, g)
  <2>1. agenda[i] \notin At(kind, g)
    BY <1>5, AtDiffers
  <2>2. \A l \in DOMAIN actions : actions[l] \notin At(kind, g)
    BY <1>1, <1>5, AtIs, AtDiffers
  <2> QED
    BY <2>1, <2>2, QueueStays DEF Stays
<1> QED
  BY <1>3, <1>4, <1>5

-----------------------------------------------------------------------------
(* The handlers.                                                            *)

PathTyped(f) ==
  /\ \A kind \in Kinds : Queue(kind, f) \in Seq(Nat) /\ Queue(kind, f)' \in Seq(Nat)
  /\ BufferSeqs(f) \in Seq(Nat) /\ BufferSeqs(f)' \in Seq(Nat)

(* All queues are sequences of numbers.                                     *)
LEMMA PathsTyped ==
  ASSUME Typed, NEW i \in DOMAIN agenda, NEW actions \in Seq(Actions), Returns(i, actions),
         buffer' \in Seq(Packets), NEW f \in Flows
  PROVE  PathTyped(f)
<1>1. \A kind \in Kinds : Queue(kind, f) \in Seq(Nat) /\ Queue(kind, f)' \in Seq(Nat)
  BY QueuesTyped
<1>2. buffer \in Seq(Packets)
  BY DEF Typed
<1>3. BufferSeqs(f) \in Seq(Nat) /\ BufferSeqs(f)' \in Seq(Nat)
  BY <1>2, BufferSeqsAre, OfFlowIs
<1> QED
  BY <1>1, <1>3 DEF PathTyped

(* A push of one packet. *)
LEMMA OneCarried ==
  ASSUME NEW kind \in Kinds, NEW f \in Flows, NEW pkt \in LoadOf(kind, f), NEW when \in Nat,
         NEW e, e = Push(when, PlaceOf(kind, f), pkt), NEW one, one = <<e>>
  PROVE  /\ Carried(one) /\ one \in Seq(Actions) /\ 1 \in DOMAIN one /\ one[1] \in At(kind, f)
         /\ one[1].pkt = pkt
<1>1. pkt \in Packets
  BY DEF LoadOf, DataOf, AcksOf
<1>2. e \in Actions /\ e.act = "Push" /\ e.to = PlaceOf(kind, f) /\ e.pkt = pkt
  BY <1>1, PlacesAre DEF Actions, Push
<1>3. e \in At(kind, f)
  BY <1>2 DEF At
<1>4. Placed(e)
  BY <1>3 DEF Placed
<1>5. one \in Seq(Actions) /\ DOMAIN one = {1} /\ one[1] = e
  BY <1>2
<1> QED
  BY <1>2, <1>3, <1>4, <1>5 DEF Carried

(* Returning nothing.                                                       *)
LEMMA NoneCarried == Carried(<<>>) /\ <<>> \in Seq(Actions) /\ DOMAIN <<>> = {}
BY EmptySeq, LenProperties DEF Carried

-----------------------------------------------------------------------------
(* What the paths see of it.                                                *)

(* How many of a flow's packets have reached the link. *)
Reached(f) == sent[f] - Len(Queue("Delay", f)) - Len(Queue("Link", f))

SameReached(f) == Reached(f)' = Reached(f)

(* How long a queue is with one more.                                       *)
LEMMA QueueLengths ==
  ASSUME NEW s, NEW x \in Nat, NEW rest \in Seq(Nat)
  PROVE  /\ Len(rest) \in Nat
         /\ Starts(s, x, rest) => Len(s) = Len(rest) + 1
         /\ Extends(s, rest, x) => Len(s) = Len(rest) + 1
<1> DEFINE one == <<x>>
<1>1. one \in Seq(Nat) /\ Len(one) = 1 /\ Len(rest) \in Nat
  BY LenProperties
<1> HIDE DEF one
<1>2. Len(one \o rest) = Len(one) + Len(rest) /\ Len(rest \o one) = Len(rest) + Len(one)
  BY <1>1, ConcatProperties
<1> QED
  BY <1>1, <1>2 DEF Starts, Extends, one

(* A step that leaves what is before the link alone,                        *)
LEMMA ReachedStays ==
  ASSUME NEW f, Stays("Delay", f), Stays("Link", f), sent'[f] = sent[f]
  PROVE  SameReached(f)
BY DEF Stays, Reached, SameReached

(* one that takes a packet from the delay to the link's door,               *)
LEMMA ReachedMoves ==
  ASSUME NEW f, NEW x \in Nat, Loses("Delay", f, x), Gains("Link", f, x), sent'[f] = sent[f],
         Queue("Delay", f)' \in Seq(Nat), Queue("Link", f) \in Seq(Nat), sent[f] \in Nat
  PROVE  SameReached(f)
<1> DEFINE d == Len(Queue("Delay", f))
           d1 == Len(Queue("Delay", f)')
           l == Len(Queue("Link", f))
           l1 == Len(Queue("Link", f)')
           n == sent[f]
<1>1. d = d1 + 1 /\ d1 \in Nat /\ l1 = l + 1 /\ l \in Nat /\ n \in Nat
  BY QueueLengths DEF Loses, Gains
<1>2. Reached(f) = n - d - l /\ Reached(f)' = n - d1 - l1
  BY DEF Reached
<1> HIDE DEF d, d1, l, l1, n
<1>3. n - d - l = n - d1 - l1
  BY <1>1
<1> QED
  BY <1>2, <1>3 DEF SameReached

(* and one that sends a packet change nothing of what has reached the link. *)
LEMMA ReachedSent ==
  ASSUME NEW f, sent[f] \in Nat, Gains("Delay", f, sent[f]), Stays("Link", f),
         sent'[f] = sent[f] + 1, Queue("Delay", f) \in Seq(Nat), Queue("Link", f) \in Seq(Nat)
  PROVE  SameReached(f)
<1>1. /\ Len(Queue("Delay", f)') = Len(Queue("Delay", f)) + 1 /\ Len(Queue("Delay", f)) \in Nat
      /\ Queue("Link", f)' = Queue("Link", f) /\ Len(Queue("Link", f)) \in Nat
  BY QueueLengths, LenProperties DEF Gains, Stays
<1> QED
  BY <1>1 DEF Reached, SameReached

(* A flow of which nothing moves.                                           *)
LEMMA PathStays ==
  ASSUME NEW f \in Flows, \A kind \in Kinds : Stays(kind, f), BufferSeqs(f)' = BufferSeqs(f),
         sent'[f] = sent[f]
  PROVE  FifoStep(f) /\ SameReached(f)
<1>1. /\ Queue("Acker", f)' = Queue("Acker", f) /\ Queue("Router", f)' = Queue("Router", f)
      /\ Queue("Link", f)' = Queue("Link", f) /\ Queue("Delay", f)' = Queue("Delay", f)
      /\ Queue("Sender", f)' = Queue("Sender", f)
      /\ Queue("Aggregator", f)' = Queue("Aggregator", f)
  BY DEF Stays, Kinds
<1>2. OnWire(f)' = OnWire(f) /\ OnAckPath(f)' = OnAckPath(f)
  BY <1>1, OnWireIs
<1>20. SameReached(f)
  BY ReachedStays DEF Kinds
<1> QED
  BY <1>20, <1>2, FifoStutters

(* To the flow, going from the delay to the link is no step,                *)
LEMMA DelayedToLink ==
  ASSUME NEW f \in Flows, PathTyped(f), NEW x \in Nat, Loses("Delay", f, x), Gains("Link", f, x),
         \A kind \in Kinds : kind # "Delay" /\ kind # "Link" => Stays(kind, f),
         BufferSeqs(f)' = BufferSeqs(f), sent'[f] = sent[f], sent[f] \in Nat
  PROVE  FifoStep(f) /\ SameReached(f)
<1> DEFINE a == Queue("Acker", f)
           r == Queue("Router", f)
           b == BufferSeqs(f)
           l == Queue("Link", f)
           d == Queue("Delay", f)
           d1 == Queue("Delay", f)'
           l1 == Queue("Link", f)'
<1>1. /\ Queue("Acker", f)' = Queue("Acker", f) /\ Queue("Router", f)' = Queue("Router", f)
      /\ Queue("Sender", f)' = Queue("Sender", f)
      /\ Queue("Aggregator", f)' = Queue("Aggregator", f)
  BY DEF Stays, Kinds
<1>2. Starts(d, x, d1) /\ Extends(l1, l, x)
  BY DEF Loses, Gains
<1>3. /\ a \in Seq(Nat) /\ r \in Seq(Nat)
      /\ b \in Seq(Nat) /\ l \in Seq(Nat)
      /\ d \in Seq(Nat) /\ d1 \in Seq(Nat)
  BY DEF PathTyped, Kinds
<1>3a. Wires(a, r, b, l, d)
  BY <1>3 DEF Wires
<1>4. WireOf(a, r, b, l1, d1)
        = WireOf(a, r, b, l, d)
  <2> HIDE DEF a, r, b, l, d, d1, l1
  <2> QED
    BY <1>2, <1>3, <1>3a, DelayToLink
<1>5. OnWire(f)' = OnWire(f) /\ OnAckPath(f)' = OnAckPath(f)
  BY <1>1, <1>4, OnWireIs
<1>20. SameReached(f)
  BY ReachedMoves DEF PathTyped, Kinds
<1> QED
  BY <1>20, <1>5, FifoStutters

(* nor is going from the router to the acker.                               *)
LEMMA RoutedToAcker ==
  ASSUME NEW f \in Flows, PathTyped(f), NEW x \in Nat, Loses("Router", f, x), Gains("Acker", f, x),
         \A kind \in Kinds : kind # "Router" /\ kind # "Acker" => Stays(kind, f),
         BufferSeqs(f)' = BufferSeqs(f), sent'[f] = sent[f]
  PROVE  FifoStep(f) /\ SameReached(f)
<1> DEFINE a == Queue("Acker", f)
           r == Queue("Router", f)
           b == BufferSeqs(f)
           l == Queue("Link", f)
           d == Queue("Delay", f)
           r1 == Queue("Router", f)'
           a1 == Queue("Acker", f)'
<1>1. /\ Queue("Link", f)' = Queue("Link", f) /\ Queue("Delay", f)' = Queue("Delay", f)
      /\ Queue("Sender", f)' = Queue("Sender", f)
      /\ Queue("Aggregator", f)' = Queue("Aggregator", f)
  BY DEF Stays, Kinds
<1>2. Starts(r, x, r1) /\ Extends(a1, a, x)
  BY DEF Loses, Gains
<1>3. /\ a \in Seq(Nat) /\ r \in Seq(Nat)
      /\ b \in Seq(Nat) /\ l \in Seq(Nat)
      /\ d \in Seq(Nat) /\ r1 \in Seq(Nat)
  BY DEF PathTyped, Kinds
<1>3a. Wires(a, r, b, l, d)
  BY <1>3 DEF Wires
<1>4. WireOf(a1, r1, b, l, d)
        = WireOf(a, r, b, l, d)
  <2> HIDE DEF a, r, b, l, d, r1, a1
  <2> QED
    BY <1>2, <1>3, <1>3a, RouterToAcker
<1>5. OnWire(f)' = OnWire(f) /\ OnAckPath(f)' = OnAckPath(f)
  BY <1>1, <1>4, OnWireIs
<1>20. SameReached(f)
  BY ReachedStays DEF Kinds
<1> QED
  BY <1>20, <1>5, FifoStutters

(* The link takes a packet into its buffer, *)
LEMMA LinkedToBuffer ==
  ASSUME NEW f \in Flows, PathTyped(f), NEW x \in Nat, Loses("Link", f, x),
         \A kind \in Kinds : kind # "Link" => Stays(kind, f),
         Extends(BufferSeqs(f)', BufferSeqs(f), x), sent'[f] = sent[f]
  PROVE  FifoStep(f)
<1> DEFINE a == Queue("Acker", f)
           r == Queue("Router", f)
           b == BufferSeqs(f)
           l == Queue("Link", f)
           d == Queue("Delay", f)
           l1 == Queue("Link", f)'
           b1 == BufferSeqs(f)'
<1>1. /\ Queue("Acker", f)' = Queue("Acker", f) /\ Queue("Router", f)' = Queue("Router", f)
      /\ Queue("Delay", f)' = Queue("Delay", f) /\ Queue("Sender", f)' = Queue("Sender", f)
      /\ Queue("Aggregator", f)' = Queue("Aggregator", f)
  BY DEF Stays, Kinds
<1>2. Starts(l, x, l1)
  BY DEF Loses
<1>2a. Extends(b1, b, x)
  OBVIOUS
<1>3. /\ a \in Seq(Nat) /\ r \in Seq(Nat)
      /\ b \in Seq(Nat) /\ l \in Seq(Nat)
      /\ d \in Seq(Nat) /\ l1 \in Seq(Nat)
  BY DEF PathTyped, Kinds
<1>3a. Wires(a, r, b, l, d)
  BY <1>3 DEF Wires
<1>4. WireOf(a, r, b1, l1, d)
        = WireOf(a, r, b, l, d)
  <2> HIDE DEF a, r, b, l, d, l1, b1
  <2> QED
    BY <1>2, <1>2a, <1>3, <1>3a, LinkToBuffer
<1>5. OnWire(f)' = OnWire(f) /\ OnAckPath(f)' = OnAckPath(f)
  BY <1>1, <1>4, OnWireIs
<1> QED
  BY <1>5, FifoStutters

(* and lets one go from it. *)
LEMMA BufferedToRouter ==
  ASSUME NEW f \in Flows, PathTyped(f), NEW x \in Nat, Gains("Router", f, x),
         \A kind \in Kinds : kind # "Router" => Stays(kind, f),
         Starts(BufferSeqs(f), x, BufferSeqs(f)'), sent'[f] = sent[f]
  PROVE  FifoStep(f) /\ SameReached(f)
<1> DEFINE a == Queue("Acker", f)
           r == Queue("Router", f)
           b == BufferSeqs(f)
           l == Queue("Link", f)
           d == Queue("Delay", f)
           b1 == BufferSeqs(f)'
           r1 == Queue("Router", f)'
<1>1. /\ Queue("Acker", f)' = Queue("Acker", f) /\ Queue("Link", f)' = Queue("Link", f)
      /\ Queue("Delay", f)' = Queue("Delay", f) /\ Queue("Sender", f)' = Queue("Sender", f)
      /\ Queue("Aggregator", f)' = Queue("Aggregator", f)
  BY DEF Stays, Kinds
<1>2. Extends(r1, r, x)
  BY DEF Gains
<1>2a. Starts(b, x, b1)
  OBVIOUS
<1>3. /\ a \in Seq(Nat) /\ r \in Seq(Nat)
      /\ b \in Seq(Nat) /\ l \in Seq(Nat)
      /\ d \in Seq(Nat) /\ b1 \in Seq(Nat)
  BY DEF PathTyped, Kinds
<1>3a. Wires(a, r, b, l, d)
  BY <1>3 DEF Wires
<1>4. WireOf(a, r1, b1, l, d)
        = WireOf(a, r, b, l, d)
  <2> HIDE DEF a, r, b, l, d, b1, r1
  <2> QED
    BY <1>2, <1>2a, <1>3, <1>3a, BufferToRouter
<1>5. OnWire(f)' = OnWire(f) /\ OnAckPath(f)' = OnAckPath(f)
  BY <1>1, <1>4, OnWireIs
<1>20. SameReached(f)
  BY ReachedStays DEF Kinds
<1> QED
  BY <1>20, <1>5, FifoStutters

(* A dropped packet. *)
LEMMA LinkedToNowhere ==
  ASSUME NEW f \in Flows, PathTyped(f), NEW x \in Nat, Loses("Link", f, x),
         \A kind \in Kinds : kind # "Link" => Stays(kind, f),
         BufferSeqs(f)' = BufferSeqs(f), sent'[f] = sent[f]
  PROVE  FifoStep(f)
<1> DEFINE a == Queue("Acker", f)
           r == Queue("Router", f)
           b == BufferSeqs(f)
           l == Queue("Link", f)
           d == Queue("Delay", f)
           l1 == Queue("Link", f)'
<1>1. /\ Queue("Acker", f)' = Queue("Acker", f) /\ Queue("Router", f)' = Queue("Router", f)
      /\ Queue("Delay", f)' = Queue("Delay", f) /\ Queue("Sender", f)' = Queue("Sender", f)
      /\ Queue("Aggregator", f)' = Queue("Aggregator", f)
  BY DEF Stays, Kinds
<1>2. Starts(l, x, l1)
  BY DEF Loses
<1>3. /\ a \in Seq(Nat) /\ r \in Seq(Nat)
      /\ b \in Seq(Nat) /\ l \in Seq(Nat)
      /\ d \in Seq(Nat) /\ l1 \in Seq(Nat)
  BY DEF PathTyped, Kinds
<1>3a. Wires(a, r, b, l, d)
  BY <1>3 DEF Wires
<1> DEFINE w == WireOf(a, r, b, l, d)
           v == WireOf(a, r, b, l1, d)
<1>4. LosesOne(w, v)
  <2> HIDE DEF a, r, b, l, d, l1
  <2> QED
    BY <1>2, <1>3, <1>3a, WireDrops
<1>5. OnWire(f) = w /\ OnWire(f)' = v /\ OnAckPath(f)' = OnAckPath(f)
  BY <1>1, OnWireIs
<1> HIDE DEF w, v
<1> QED
  BY <1>4, <1>5, FifoDrops DEF LosesOne

(* A packet sent to the delay is sent.                                      *)
LEMMA SentToDelay ==
  ASSUME NEW f \in Flows, PathTyped(f), sent[f] \in Nat, Gains("Delay", f, sent[f]),
         \A kind \in Kinds : kind # "Delay" => Stays(kind, f),
         BufferSeqs(f)' = BufferSeqs(f), sent'[f] = sent[f] + 1
  PROVE  FifoStep(f) /\ SameReached(f)
<1> DEFINE a == Queue("Acker", f)
           r == Queue("Router", f)
           b == BufferSeqs(f)
           l == Queue("Link", f)
           d == Queue("Delay", f)
           d1 == Queue("Delay", f)'
           x == sent[f]
<1>1. /\ Queue("Acker", f)' = Queue("Acker", f) /\ Queue("Router", f)' = Queue("Router", f)
      /\ Queue("Link", f)' = Queue("Link", f) /\ Queue("Sender", f)' = Queue("Sender", f)
      /\ Queue("Aggregator", f)' = Queue("Aggregator", f)
  BY DEF Stays, Kinds
<1>2. Extends(d1, d, x)
  BY DEF Gains
<1>3. /\ a \in Seq(Nat) /\ r \in Seq(Nat)
      /\ b \in Seq(Nat) /\ l \in Seq(Nat)
      /\ d \in Seq(Nat) /\ x \in Nat
  BY DEF PathTyped, Kinds
<1>3a. Wires(a, r, b, l, d)
  BY <1>3 DEF Wires
<1>4. WireOf(a, r, b, l, d1)
        = Append(WireOf(a, r, b, l, d),
                 x)
  <2> HIDE DEF a, r, b, l, d, d1, x
  <2> QED
    BY <1>2, <1>3, <1>3a, WireGrows
<1>5. OnWire(f)' = Append(OnWire(f), sent[f]) /\ OnAckPath(f)' = OnAckPath(f)
  BY <1>1, <1>4, OnWireIs
<1>20. SameReached(f)
  BY ReachedSent DEF PathTyped, Kinds
<1> QED
  BY <1>20, <1>5, FifoSends

(* The way back: what is due at the sender, then what is at the aggregator. *)
BackOf(s, g) == Cat(s, g)

(* The way back is its two queues joined.                                   *)
LEMMA BackIs ==
  ASSUME NEW f \in Flows
  PROVE  /\ OnAckPath(f) = BackOf(Queue("Sender", f), Queue("Aggregator", f))
         /\ OnAckPath(f)' = BackOf(Queue("Sender", f)', Queue("Aggregator", f)')
BY OnWireIs DEF BackOf, Cat

(* An ack for the aggregator is the last on the way back.                   *)
LEMMA BackGrows ==
  ASSUME NEW s \in Seq(Nat), NEW g \in Seq(Nat), NEW x \in Nat, NEW more, Extends(more, g, x)
  PROVE  BackOf(s, more) = Append(BackOf(s, g), x)
<1> DEFINE one == <<x>>
           w == Cat(s, g)
<1>1. one \in Seq(Nat) /\ w \in Seq(Nat) /\ more = Cat(g, one)
  BY CatIs DEF Cat, Extends
<1>2. BackOf(s, g) = w /\ BackOf(s, more) = Cat(s, more) /\ w = Cat(s, g)
  BY DEF BackOf
<1> HIDE DEF one, w
<1>3. Cat(s, Cat(g, one)) = Cat(Cat(s, g), one)
  BY <1>1, CatIs
<1>4. Append(w, x) = w \o <<x>>
  BY <1>1, AppendIsCat
<1>5. Append(w, x) = Cat(w, one)
  BY <1>4 DEF Cat, one
<1> QED
  BY <1>1, <1>2, <1>3, <1>5

(* One that the aggregator passes on keeps its place.                       *)
LEMMA BackKeeps ==
  ASSUME NEW s \in Seq(Nat), NEW g \in Seq(Nat), NEW x \in Nat, NEW rest \in Seq(Nat),
         Starts(g, x, rest), NEW more, Extends(more, s, x)
  PROVE  BackOf(more, rest) = BackOf(s, g)
<1> DEFINE one == <<x>>
<1>1. one \in Seq(Nat) /\ more = Cat(s, one) /\ g = Cat(one, rest)
  BY DEF Cat, Extends, Starts
<1> HIDE DEF one
<1>2. Cat(s, Cat(one, rest)) = Cat(Cat(s, one), rest)
  BY <1>1, CatIs
<1> QED
  BY <1>1, <1>2 DEF BackOf

(* One that the sender gets was the first.                                  *)
LEMMA BackEnds ==
  ASSUME NEW s \in Seq(Nat), NEW g \in Seq(Nat), NEW x \in Nat, NEW rest \in Seq(Nat),
         Starts(s, x, rest)
  PROVE  Starts(BackOf(s, g), x, BackOf(rest, g)) /\ BackOf(rest, g) \in Seq(Nat)
<1> DEFINE one == <<x>>
<1>1. one \in Seq(Nat) /\ s = Cat(one, rest)
  BY DEF Cat, Starts
<1> HIDE DEF one
<1>2. Cat(one, Cat(rest, g)) = Cat(Cat(one, rest), g) /\ Cat(rest, g) \in Seq(Nat)
  BY <1>1, CatIs
<1>3. BackOf(s, g) = Cat(one, BackOf(rest, g))
  BY <1>1, <1>2 DEF BackOf
<1> QED
  BY <1>2, <1>3 DEF BackOf, Starts, Cat, one

-----------------------------------------------------------------------------

(* A packet acked arrives and its ack is the last on the way back.          *)
LEMMA AckedToAggregator ==
  ASSUME NEW f \in Flows, PathTyped(f), NEW x \in Nat, Loses("Acker", f, x),
         Gains("Aggregator", f, x),
         \A kind \in Kinds : kind # "Acker" /\ kind # "Aggregator" => Stays(kind, f),
         BufferSeqs(f)' = BufferSeqs(f), sent'[f] = sent[f]
  PROVE  FifoStep(f) /\ SameReached(f)
<1> DEFINE a == Queue("Acker", f)
           r == Queue("Router", f)
           b == BufferSeqs(f)
           l == Queue("Link", f)
           d == Queue("Delay", f)
           a1 == Queue("Acker", f)'
           s == Queue("Sender", f)
           g == Queue("Aggregator", f)
           g1 == Queue("Aggregator", f)'
<1>1. /\ Queue("Router", f)' = Queue("Router", f) /\ Queue("Link", f)' = Queue("Link", f)
      /\ Queue("Delay", f)' = Queue("Delay", f) /\ Queue("Sender", f)' = Queue("Sender", f)
  BY DEF Stays, Kinds
<1>2. Starts(a, x, a1) /\ Extends(g1, g, x)
  BY DEF Loses, Gains
<1>3. /\ a \in Seq(Nat) /\ r \in Seq(Nat) /\ b \in Seq(Nat) /\ l \in Seq(Nat)
      /\ d \in Seq(Nat) /\ a1 \in Seq(Nat) /\ s \in Seq(Nat) /\ g \in Seq(Nat)
  BY DEF PathTyped, Kinds
<1>4. Wires(a, r, b, l, d)
  BY <1>3 DEF Wires
<1> DEFINE w == WireOf(a, r, b, l, d)
           v == WireOf(a1, r, b, l, d)
<1>5. OnWire(f) = w /\ OnWire(f)' = v
  BY <1>1, OnWireIs
<1>6. OnAckPath(f) = BackOf(s, g) /\ OnAckPath(f)' = BackOf(s, g1)
  BY <1>1, BackIs
<1>7. Starts(w, x, v) /\ v \in Seq(Nat)
  <2> HIDE DEF a, r, b, l, d, a1
  <2> QED
    BY <1>2, <1>3, <1>4, WireEnds
<1>8. BackOf(s, g1) = Append(BackOf(s, g), x)
  <2> HIDE DEF s, g, g1
  <2> QED
    BY <1>2, <1>3, BackGrows
<1> HIDE DEF w, v, s, g, g1
<1>9. w # <<>> /\ Head(w) = x /\ Tail(w) = v
  BY <1>7, HeadIsFirst
<1>10. OnWire(f) # <<>> /\ OnWire(f)' = Tail(OnWire(f))
  BY <1>5, <1>9
<1>11. OnAckPath(f)' = Append(OnAckPath(f), Head(OnWire(f)))
  BY <1>5, <1>6, <1>8, <1>9
<1>20. SameReached(f)
  BY ReachedStays DEF Kinds
<1> QED
  BY <1>20, <1>10, <1>11, FifoArrives

(* Going through the aggregator is no step to the flow.                     *)
LEMMA AggregatedToSender ==
  ASSUME NEW f \in Flows, PathTyped(f), NEW x \in Nat, Loses("Aggregator", f, x),
         Gains("Sender", f, x),
         \A kind \in Kinds : kind # "Aggregator" /\ kind # "Sender" => Stays(kind, f),
         BufferSeqs(f)' = BufferSeqs(f), sent'[f] = sent[f]
  PROVE  FifoStep(f) /\ SameReached(f)
<1> DEFINE s == Queue("Sender", f)
           s1 == Queue("Sender", f)'
           g == Queue("Aggregator", f)
           g1 == Queue("Aggregator", f)'
<1>1. /\ Queue("Acker", f)' = Queue("Acker", f) /\ Queue("Router", f)' = Queue("Router", f)
      /\ Queue("Link", f)' = Queue("Link", f) /\ Queue("Delay", f)' = Queue("Delay", f)
  BY DEF Stays, Kinds
<1>2. Starts(g, x, g1) /\ Extends(s1, s, x)
  BY DEF Loses, Gains
<1>3. s \in Seq(Nat) /\ g \in Seq(Nat) /\ g1 \in Seq(Nat)
  BY DEF PathTyped, Kinds
<1>4. OnWire(f)' = OnWire(f)
  BY <1>1, OnWireIs
<1>5. OnAckPath(f) = BackOf(s, g) /\ OnAckPath(f)' = BackOf(s1, g1)
  BY BackIs
<1>6. BackOf(s1, g1) = BackOf(s, g)
  <2> HIDE DEF s, s1, g, g1
  <2> QED
    BY <1>2, <1>3, BackKeeps
<1>20. SameReached(f)
  BY ReachedStays DEF Kinds
<1> QED
  BY <1>20, <1>4, <1>5, <1>6, FifoStutters

(* An ack that the sender gets is acked.                                    *)
LEMMA AckedToSender ==
  ASSUME NEW f \in Flows, PathTyped(f), NEW x \in Nat, Loses("Sender", f, x),
         \A kind \in Kinds : kind # "Sender" => Stays(kind, f),
         BufferSeqs(f)' = BufferSeqs(f), sent'[f] = sent[f]
  PROVE  FifoStep(f) /\ SameReached(f)
<1> DEFINE s == Queue("Sender", f)
           s1 == Queue("Sender", f)'
           g == Queue("Aggregator", f)
<1>1. /\ Queue("Acker", f)' = Queue("Acker", f) /\ Queue("Router", f)' = Queue("Router", f)
      /\ Queue("Link", f)' = Queue("Link", f) /\ Queue("Delay", f)' = Queue("Delay", f)
      /\ Queue("Aggregator", f)' = Queue("Aggregator", f)
  BY DEF Stays, Kinds
<1>2. Starts(s, x, s1)
  BY DEF Loses
<1>3. s \in Seq(Nat) /\ g \in Seq(Nat) /\ s1 \in Seq(Nat)
  BY DEF PathTyped, Kinds
<1>4. OnWire(f)' = OnWire(f)
  BY <1>1, OnWireIs
<1> DEFINE w == BackOf(s, g)
           v == BackOf(s1, g)
<1>5. OnAckPath(f) = w /\ OnAckPath(f)' = v
  BY <1>1, BackIs
<1>6. Starts(w, x, v) /\ v \in Seq(Nat)
  <2> HIDE DEF s, s1, g
  <2> QED
    BY <1>2, <1>3, BackEnds
<1> HIDE DEF w, v
<1>7. w # <<>> /\ Tail(w) = v
  BY <1>6, HeadIsFirst
<1>8. OnAckPath(f) # <<>> /\ OnAckPath(f)' = Tail(OnAckPath(f))
  BY <1>5, <1>7
<1>20. SameReached(f)
  BY ReachedStays DEF Kinds
<1> QED
  BY <1>20, <1>4, <1>8, FifoAcked

-----------------------------------------------------------------------------
(* A packet of flow f goes from one place to another and all else stays.    *)
Hops(from, to, f, x) ==
  /\ Loses(from, f, x) /\ Gains(to, f, x)
  /\ \A kind \in Kinds : kind # from /\ kind # to => Stays(kind, f)
  /\ \A kind \in Kinds, g \in Flows : g # f => Stays(kind, g)
  /\ \A g \in Flows : PathTyped(g)

Goes(from, f, x) ==
  /\ Loses(from, f, x)
  /\ \A kind \in Kinds : kind # from => Stays(kind, f)
  /\ \A kind \in Kinds, g \in Flows : g # f => Stays(kind, g)
  /\ \A g \in Flows : PathTyped(g)

Comes(to, f, x) ==
  /\ Gains(to, f, x)
  /\ \A kind \in Kinds : kind # to => Stays(kind, f)
  /\ \A kind \in Kinds, g \in Flows : g # f => Stays(kind, g)
  /\ \A g \in Flows : PathTyped(g)

(* What does not touch the buffer leaves each flow's part alone.            *)
LEMMA BufferStays ==
  ASSUME buffer' = buffer, NEW f \in Flows
  PROVE  BufferSeqs(f)' = BufferSeqs(f)
BY DEF BufferSeqs, InBuffer

(* The flow whose packet goes nowhere, at a step that leaves the buffer.    *)
LEMMA OthersStay ==
  ASSUME NEW f, NEW g \in Flows, g # f, BufferSeqs(g)' = BufferSeqs(g), sent'[g] = sent[g],
         \A kind \in Kinds, h \in Flows : h # f => Stays(kind, h)
  PROVE  FifoStep(g) /\ SameReached(g)
BY PathStays

(* A handler that returns its packet, or an ack for it, as one push.        *)
LEMMA PushHops ==
  ASSUME NetInv, NEW i \in DOMAIN agenda, IsNext(i), NEW from \in Kinds, NEW to \in Kinds,
         from # to, NEW f \in Flows, agenda[i] \in At(from, f), NEW pkt \in LoadOf(to, f),
         pkt.seq = agenda[i].pkt.seq, NEW when \in Nat,
         Returns(i, <<Push(when, PlaceOf(to, f), pkt)>>), buffer' = buffer
  PROVE  Hops(from, to, f, agenda[i].pkt.seq) /\ agenda[i].pkt.seq \in Nat
<1> DEFINE e == Push(when, PlaceOf(to, f), pkt)
           one == <<e>>
           x == agenda[i].pkt.seq
<1>1. Carried(one) /\ one \in Seq(Actions) /\ 1 \in DOMAIN one /\ one[1] \in At(to, f)
      /\ one[1].pkt = pkt
  BY OneCarried
<1>2. Returns(i, one)
  OBVIOUS
<1>3. pkt \in Packets
  BY DEF LoadOf, DataOf, AcksOf
<1>4. x \in Nat
  BY <1>3 DEF Packets
<1> HIDE DEF one, e
<1>5. /\ Loses(from, f, x) /\ Gains(to, f, one[1].pkt.seq)
      /\ \A kind \in Kinds, g \in Flows :
           (kind # from /\ kind # to) \/ g # f => Stays(kind, g)
  BY <1>1, <1>2, OneHops
<1>6. Typed /\ buffer' \in Seq(Packets)
  BY DEF NetInv, Typed
<1>7. \A g \in Flows : PathTyped(g)
  BY <1>1, <1>2, <1>6, PathsTyped
<1>8. Gains(to, f, x)
  BY <1>1, <1>5
<1> HIDE DEF x
<1> QED
  BY <1>4, <1>5, <1>7, <1>8 DEF Hops, x

(* A handler that returns nothing.                                          *)
LEMMA NothingGoes ==
  ASSUME NetInv, NEW i \in DOMAIN agenda, IsNext(i), NEW from \in Kinds, NEW f \in Flows,
         agenda[i] \in At(from, f), Returns(i, <<>>), buffer' \in Seq(Packets)
  PROVE  Goes(from, f, agenda[i].pkt.seq) /\ agenda[i].pkt.seq \in Nat
<1> DEFINE x == agenda[i].pkt.seq
           none == <<>>
<1>1. Carried(none) /\ none \in Seq(Actions) /\ DOMAIN none = {} /\ Returns(i, none)
  BY NoneCarried
<1>2. agenda[i].pkt \in Packets
  BY AtIs DEF Actions
<1>3. x \in Nat
  BY <1>2 DEF Packets
<1>4. Typed
  BY DEF NetInv
<1> HIDE DEF none
<1>5. /\ Loses(from, f, x)
      /\ \A kind \in Kinds, g \in Flows : kind # from \/ g # f => Stays(kind, g)
  BY <1>1, OneGoes
<1>6. \A g \in Flows : PathTyped(g)
  BY <1>1, <1>4, PathsTyped
<1> HIDE DEF x
<1> QED
  BY <1>3, <1>5, <1>6 DEF Goes, x

-----------------------------------------------------------------------------
(* The handlers, to every flow.                                             *)
LEMMA DelayPushIsFifo ==
  ASSUME NetInv, NEW i \in DOMAIN agenda, DelayPush(i), NEW g \in Flows
  PROVE  FifoStep(g) /\ SameReached(g)
<1> DEFINE e == agenda[i]
           to == Obj(e.to)
<1>1. /\ Runs(i, "Delay", "Push")
      /\ Returns(i, <<Push(now' + Delays[to.flow], to.next, e.pkt)>>)
      /\ buffer' = buffer /\ sent' = sent
  BY DEF DelayPush
<1>2. now' = agenda[i].when /\ "Delay" \in Kinds /\ "Link" \in Kinds
  BY <1>1 DEF Returns, Kinds
<1>3. /\ \E f \in Flows : agenda[i] \in At("Delay", f)
      /\ IsNext(i) /\ agenda[i] \notin LinkTurns /\ now' \in Nat /\ now <= now'
  BY <1>1, <1>2, PushRuns
<1>4. PICK f \in Flows : agenda[i] \in At("Delay", f)
  BY <1>3
<1>5. /\ to.flow = f /\ to.next = PlaceOf("Link", f)
  BY <1>2, <1>4, AtIs, ObjectsAre DEF Object, PlaceOf
<1>6. e.pkt \in LoadOf("Link", f)
  BY <1>2, <1>4, AtIs DEF LoadOf
<1>7. Delays[f] \in Nat
  BY NetworkAssumption
<1>8. Returns(i, <<Push(now' + Delays[f], PlaceOf("Link", f), e.pkt)>>) /\ now' + Delays[f] \in Nat
  BY <1>1, <1>3, <1>5, <1>7
<1>9. Hops("Delay", "Link", f, agenda[i].pkt.seq) /\ agenda[i].pkt.seq \in Nat
  <2> DEFINE from == "Delay"
             into == "Link"
  <2>1. from \in Kinds /\ into \in Kinds /\ from # into /\ agenda[i] \in At(from, f)
        /\ e.pkt \in LoadOf(into, f)
    BY <1>2, <1>4, <1>6
  <2>2. Returns(i, <<Push(now' + Delays[f], PlaceOf(into, f), e.pkt)>>)
    BY <1>8
  <2> HIDE DEF from, into
  <2>3. Hops(from, into, f, agenda[i].pkt.seq) /\ agenda[i].pkt.seq \in Nat
    BY <1>1, <1>3, <1>8, <2>1, <2>2, PushHops
  <2> QED
    BY <2>3 DEF from, into
<1> DEFINE x == agenda[i].pkt.seq
<1> HIDE DEF x
<1>10. BufferSeqs(g)' = BufferSeqs(g) /\ sent'[g] = sent[g]
  BY <1>1, BufferStays
<1>11. CASE g # f
  BY <1>9, <1>10, <1>11, OthersStay DEF Hops
<1>12. CASE g = f
  <2>1. /\ PathTyped(f) /\ Loses("Delay", f, x) /\ Gains("Link", f, x) /\ x \in Nat
        /\ \A kind \in Kinds : kind # "Delay" /\ kind # "Link" => Stays(kind, f)
    BY <1>9 DEF Hops, x
  <2>2. sent[f] \in Nat
    BY NetworkAssumption DEF NetInv, Typed
  <2> QED
    BY <1>10, <1>12, <2>1, <2>2, DelayedToLink
<1> QED
  BY <1>11, <1>12

(* Router::push is a step of LossyFifo or a stutter, for each flow.         *)
LEMMA RouterPushIsFifo ==
  ASSUME NetInv, NEW i \in DOMAIN agenda, RouterPush(i), NEW g \in Flows
  PROVE  FifoStep(g) /\ SameReached(g)
<1> DEFINE e == agenda[i]
           x == agenda[i].pkt.seq
<1>1. /\ Runs(i, "Router", "Push")
      /\ Returns(i, <<Push(now', PortTo(e.pkt.dest), e.pkt)>>)
      /\ buffer' = buffer /\ sent' = sent
  BY DEF RouterPush
<1>2. now' = agenda[i].when /\ "Router" \in Kinds /\ "Acker" \in Kinds
  BY <1>1 DEF Returns, Kinds
<1>3. /\ \E f \in Flows : agenda[i] \in At("Router", f)
      /\ IsNext(i) /\ agenda[i] \notin LinkTurns /\ now' \in Nat /\ now <= now'
  BY <1>1, <1>2, PushRuns
<1>4. PICK f \in Flows : agenda[i] \in At("Router", f)
  BY <1>3
<1>5. e.pkt \in DataOf(f)
  BY <1>2, <1>4, AtIs DEF LoadOf
<1>6. e.pkt \in LoadOf("Acker", f)
  BY <1>5 DEF LoadOf
<1>7. PortTo(e.pkt.dest) = PlaceOf("Acker", f)
  BY <1>5, RoutesAre DEF DataOf, PlaceOf
<1>8. Returns(i, <<Push(now', PlaceOf("Acker", f), e.pkt)>>)
  BY <1>1, <1>7
<1>9. Hops("Router", "Acker", f, x) /\ x \in Nat
  <2> DEFINE from == "Router"
             into == "Acker"
  <2>1. from \in Kinds /\ into \in Kinds /\ from # into /\ agenda[i] \in At(from, f)
        /\ e.pkt \in LoadOf(into, f)
    BY <1>2, <1>4, <1>6
  <2>2. Returns(i, <<Push(now', PlaceOf(into, f), e.pkt)>>)
    BY <1>8
  <2> HIDE DEF from, into
  <2>3. Hops(from, into, f, agenda[i].pkt.seq) /\ agenda[i].pkt.seq \in Nat
    BY <1>1, <1>3, <2>1, <2>2, PushHops
  <2> QED
    BY <2>3 DEF from, into
<1> HIDE DEF x
<1>10. BufferSeqs(g)' = BufferSeqs(g) /\ sent'[g] = sent[g]
  BY <1>1, BufferStays
<1>11. CASE g # f
  BY <1>9, <1>10, <1>11, OthersStay DEF Hops
<1>12. CASE g = f
  <2>1. /\ PathTyped(f) /\ Loses("Router", f, x) /\ Gains("Acker", f, x) /\ x \in Nat
        /\ \A kind \in Kinds : kind # "Router" /\ kind # "Acker" => Stays(kind, f)
    BY <1>9 DEF Hops
  <2> QED
    BY <1>10, <1>12, <2>1, RoutedToAcker
<1> QED
  BY <1>11, <1>12

(* TcpSender::push takes the first ack of its flow.                         *)
LEMMA SenderGetsAckIsFifo ==
  ASSUME NetInv, NEW i \in DOMAIN agenda, SenderGetsAck(i), NEW g \in Flows
  PROVE  FifoStep(g) /\ SameReached(g)
<1> DEFINE x == agenda[i].pkt.seq
<1>1. Runs(i, "Sender", "Push") /\ Returns(i, <<>>) /\ buffer' = buffer /\ sent' = sent
  BY DEF SenderGetsAck
<1>2. now' = agenda[i].when /\ "Sender" \in Kinds
  BY <1>1 DEF Returns, Kinds
<1>3. (\E f \in Flows : agenda[i] \in At("Sender", f)) /\ IsNext(i)
  BY <1>1, <1>2, PushRuns
<1>4. PICK f \in Flows : agenda[i] \in At("Sender", f)
  BY <1>3
<1>5. buffer' \in Seq(Packets)
  BY <1>1 DEF NetInv, Typed
<1>6. Goes("Sender", f, x) /\ x \in Nat
  BY <1>1, <1>2, <1>3, <1>4, <1>5, NothingGoes
<1> HIDE DEF x
<1>7. BufferSeqs(g)' = BufferSeqs(g) /\ sent'[g] = sent[g]
  BY <1>1, BufferStays
<1>8. CASE g # f
  BY <1>6, <1>7, <1>8, OthersStay DEF Goes
<1>9. CASE g = f
  <2>1. /\ PathTyped(f) /\ Loses("Sender", f, x) /\ x \in Nat
        /\ \A kind \in Kinds : kind # "Sender" => Stays(kind, f)
    BY <1>6 DEF Goes
  <2> QED
    BY <1>7, <1>9, <2>1, AckedToSender
<1> QED
  BY <1>8, <1>9

(* A drop of Link::push loses one packet of one flow.                       *)
LEMMA LinkDropsIsFifo ==
  ASSUME NetInv, NEW i \in DOMAIN agenda, LinkDrops(i), NEW g \in Flows
  PROVE  FifoStep(g)
<1> DEFINE x == agenda[i].pkt.seq
<1>1. Runs(i, "Link", "Push") /\ Returns(i, <<>>) /\ buffer' = buffer /\ sent' = sent
  BY DEF LinkDrops
<1>2. now' = agenda[i].when /\ "Link" \in Kinds
  BY <1>1 DEF Returns, Kinds
<1>3. (\E f \in Flows : agenda[i] \in At("Link", f)) /\ IsNext(i)
  BY <1>1, <1>2, PushRuns
<1>4. PICK f \in Flows : agenda[i] \in At("Link", f)
  BY <1>3
<1>5. buffer' \in Seq(Packets)
  BY <1>1 DEF NetInv, Typed
<1>6. Goes("Link", f, x) /\ x \in Nat
  BY <1>1, <1>2, <1>3, <1>4, <1>5, NothingGoes
<1> HIDE DEF x
<1>7. BufferSeqs(g)' = BufferSeqs(g) /\ sent'[g] = sent[g]
  BY <1>1, BufferStays
<1>8. CASE g # f
  BY <1>6, <1>7, <1>8, OthersStay DEF Goes
<1>9. CASE g = f
  <2>1. /\ PathTyped(f) /\ Loses("Link", f, x) /\ x \in Nat
        /\ \A kind \in Kinds : kind # "Link" => Stays(kind, f)
    BY <1>6 DEF Goes
  <2> QED
    BY <1>7, <1>9, <2>1, LinkedToNowhere
<1> QED
  BY <1>8, <1>9

(* A packet that Link::push buffers keeps its place among its flow's.       *)
LEMMA LinkQueuesIsFifo ==
  ASSUME NetInv, NEW i \in DOMAIN agenda, LinkQueues(i), NEW g \in Flows
  PROVE  FifoStep(g)
<1> DEFINE pkt == agenda[i].pkt
           x == agenda[i].pkt.seq
<1>1. Runs(i, "Link", "Push") /\ Returns(i, <<>>) /\ buffer' = Append(buffer, pkt) /\ sent' = sent
  BY DEF LinkQueues
<1>2. now' = agenda[i].when /\ "Link" \in Kinds
  BY <1>1 DEF Returns, Kinds
<1>3. (\E f \in Flows : agenda[i] \in At("Link", f)) /\ IsNext(i)
  BY <1>1, <1>2, PushRuns
<1>4. PICK f \in Flows : agenda[i] \in At("Link", f)
  BY <1>3
<1>5. pkt \in DataOf(f) /\ pkt \in Packets
  BY <1>2, <1>4, AtIs DEF LoadOf, DataOf
<1>6. buffer \in Seq(Packets) /\ buffer' \in Seq(Packets)
  BY <1>1, <1>5 DEF NetInv, Typed
<1>7. Goes("Link", f, x) /\ x \in Nat
  BY <1>1, <1>2, <1>3, <1>4, <1>6, NothingGoes
<1>8. BufferSeqs(g)' = IF g = f THEN BufferSeqs(g) \o <<pkt.seq>> ELSE BufferSeqs(g)
  BY <1>1, <1>5, <1>6, BufferGains
<1> HIDE DEF x
<1>9. CASE g # f
  BY <1>1, <1>7, <1>8, <1>9, OthersStay DEF Goes
<1>10. CASE g = f
  <2>1. /\ PathTyped(f) /\ Loses("Link", f, x) /\ x \in Nat
        /\ \A kind \in Kinds : kind # "Link" => Stays(kind, f)
    BY <1>7 DEF Goes
  <2>2. Extends(BufferSeqs(f)', BufferSeqs(f), x)
    BY <1>8, <1>10 DEF Extends, x
  <2> QED
    BY <1>1, <1>10, <2>1, <2>2, LinkedToBuffer
<1> QED
  BY <1>9, <1>10

(* Acker::push takes the first packet of its flow and acks it.              *)
LEMMA AckerPushIsFifo ==
  ASSUME NetInv, NEW i \in DOMAIN agenda, AckerPush(i), NEW g \in Flows
  PROVE  FifoStep(g) /\ SameReached(g)
<1> DEFINE e == agenda[i]
           to == Obj(e.to)
           ack == Packet("Ack", to.addr, e.pkt.src, e.pkt.seq, e.pkt.sentTime)
           x == agenda[i].pkt.seq
<1>1. /\ Runs(i, "Acker", "Push") /\ Returns(i, <<Push(now', to.next, ack)>>)
      /\ buffer' = buffer /\ sent' = sent
  BY DEF AckerPush
<1>2. now' = agenda[i].when /\ "Aggregator" \in Kinds /\ "Acker" \in Kinds
  BY <1>1 DEF Returns, Kinds
<1>3. /\ \E f \in Flows : agenda[i] \in At("Acker", f)
      /\ IsNext(i) /\ agenda[i] \notin LinkTurns /\ now' \in Nat /\ now <= now'
  BY <1>1, <1>2, PushRuns
<1>4. PICK f \in Flows : agenda[i] \in At("Acker", f)
  BY <1>3
<1>5. e.pkt \in DataOf(f) /\ to.addr = AckerAddrOf(f) /\ to.next = PlaceOf("Aggregator", f)
  <2>1. e.pkt \in DataOf(f) /\ e.to = AckerOf(f)
    BY <1>2, <1>4, AtIs DEF LoadOf, PlaceOf
  <2>2. to = Object("Acker", f, AckerAddrOf(f), AggOf(f), None)
    BY <2>1, ObjectsAre
  <2> QED
    BY <2>1, <2>2 DEF Object, PlaceOf
<1>6. ack \in LoadOf("Aggregator", f) /\ ack.seq = x
  <2>1. ack = [type |-> "Ack", src |-> AckerAddrOf(f), dest |-> SenderAddrOf(f),
               seq |-> e.pkt.seq, sentTime |-> e.pkt.sentTime]
    BY <1>5 DEF Packet, DataOf
  <2>2. e.pkt.seq \in Nat /\ e.pkt.sentTime \in Nat
    BY <1>5 DEF DataOf, Packets
  <2>3. AckerAddrOf(f) \in Int /\ SenderAddrOf(f) \in Int
    BY <1>5 DEF DataOf, Packets
  <2> HIDE DEF ack
  <2>4. ack \in Packets
    BY <2>1, <2>2, <2>3 DEF Packets
  <2> QED
    BY <2>1, <2>4 DEF AcksOf, LoadOf
<1>7. Returns(i, <<Push(now', PlaceOf("Aggregator", f), ack)>>)
  BY <1>1, <1>5
<1> HIDE DEF ack, to, e
<1>8. Hops("Acker", "Aggregator", f, x) /\ x \in Nat
  <2> DEFINE from == "Acker"
             into == "Aggregator"
  <2>1. from \in Kinds /\ into \in Kinds /\ from # into /\ agenda[i] \in At(from, f)
        /\ ack \in LoadOf(into, f)
    BY <1>2, <1>4, <1>6
  <2>2. Returns(i, <<Push(now', PlaceOf(into, f), ack)>>)
    BY <1>7
  <2> HIDE DEF from, into
  <2>3. Hops(from, into, f, agenda[i].pkt.seq) /\ agenda[i].pkt.seq \in Nat
    BY <1>1, <1>3, <1>6, <2>1, <2>2, PushHops
  <2> QED
    BY <2>3 DEF from, into
<1> HIDE DEF x
<1>9. BufferSeqs(g)' = BufferSeqs(g) /\ sent'[g] = sent[g]
  BY <1>1, BufferStays
<1>10. CASE g # f
  BY <1>8, <1>9, <1>10, OthersStay DEF Hops
<1>11. CASE g = f
  <2>1. /\ PathTyped(f) /\ Loses("Acker", f, x) /\ Gains("Aggregator", f, x) /\ x \in Nat
        /\ \A kind \in Kinds : kind # "Acker" /\ kind # "Aggregator" => Stays(kind, f)
    BY <1>8 DEF Hops
  <2> QED
    BY <1>9, <1>11, <2>1, AckedToAggregator
<1> QED
  BY <1>10, <1>11

(* Aggregator::push keeps the order of its flow's acks: next_opp never goes *)
(* back.                                                                    *)
LEMMA AggregatorPushIsFifo ==
  ASSUME NetInv, NEW i \in DOMAIN agenda, AggregatorPush(i), NEW g \in Flows
  PROVE  FifoStep(g) /\ SameReached(g)
<1> DEFINE e == agenda[i]
           to == Obj(e.to)
           x == agenda[i].pkt.seq
<1>1. Runs(i, "Aggregator", "Push") /\ buffer' = buffer /\ sent' = sent
  BY DEF AggregatorPush
<1>2. PICK opp \in MovedOn(nextOpp[to.flow], AggGaps[to.flow], e.when) :
        /\ nextOpp' = [nextOpp EXCEPT ![to.flow] = opp]
        /\ Returns(i, <<Push(opp, to.next, e.pkt)>>)
  BY DEF AggregatorPush
<1>3. now' = agenda[i].when /\ "Aggregator" \in Kinds /\ "Sender" \in Kinds
  BY <1>2 DEF Returns, Kinds
<1>4. /\ \E f \in Flows : agenda[i] \in At("Aggregator", f)
      /\ IsNext(i) /\ agenda[i] \notin LinkTurns /\ now' \in Nat /\ now <= now'
  BY <1>1, <1>3, PushRuns
<1>5. PICK f \in Flows : agenda[i] \in At("Aggregator", f)
  BY <1>4
<1>6. to.flow = f /\ to.next = PlaceOf("Sender", f) /\ e.pkt \in LoadOf("Sender", f)
  <2>1. e.pkt \in AcksOf(f) /\ e.to = AggOf(f)
    BY <1>3, <1>5, AtIs DEF LoadOf, PlaceOf
  <2>2. to = Object("Aggregator", f, None, SenderOf(f), None)
    BY <2>1, ObjectsAre
  <2> QED
    BY <2>1, <2>2 DEF Object, PlaceOf, LoadOf
<1>7. /\ nextOpp[f] \in Nat /\ e.when \in Nat /\ now \in Nat
      /\ nextOpp[f] <= now + Longest(AggGaps[f])
  BY <1>3, <1>4 DEF NetInv, Typed, OppsNear
<1>8. /\ opp \in Nat /\ opp >= e.when /\ opp >= nextOpp[f]
      /\ opp = nextOpp[f] \/ GapBefore(f, nextOpp[f], opp)
      /\ nextOpp[f] <= e.when + Longest(AggGaps[f]) => opp <= e.when + Longest(AggGaps[f])
  BY <1>2, <1>6, <1>7, MovedOnIs
<1>9. Returns(i, <<Push(opp, PlaceOf("Sender", f), e.pkt)>>)
  BY <1>2, <1>6
<1>10. Hops("Aggregator", "Sender", f, x) /\ x \in Nat
  <2> DEFINE from == "Aggregator"
             into == "Sender"
  <2>1. from \in Kinds /\ into \in Kinds /\ from # into /\ agenda[i] \in At(from, f)
        /\ e.pkt \in LoadOf(into, f)
    BY <1>3, <1>5, <1>6
  <2>2. Returns(i, <<Push(opp, PlaceOf(into, f), e.pkt)>>) /\ opp \in Nat
    BY <1>8, <1>9
  <2> HIDE DEF from, into
  <2>3. Hops(from, into, f, agenda[i].pkt.seq) /\ agenda[i].pkt.seq \in Nat
    BY <1>1, <1>4, <2>1, <2>2, PushHops
  <2> QED
    BY <2>3 DEF from, into
<1> HIDE DEF x
<1>11. BufferSeqs(g)' = BufferSeqs(g) /\ sent'[g] = sent[g]
  BY <1>1, BufferStays
<1>12. CASE g # f
  BY <1>10, <1>11, <1>12, OthersStay DEF Hops
<1>13. CASE g = f
  <2>1. /\ PathTyped(f) /\ Loses("Aggregator", f, x) /\ Gains("Sender", f, x) /\ x \in Nat
        /\ \A kind \in Kinds : kind # "Aggregator" /\ kind # "Sender" => Stays(kind, f)
    BY <1>10 DEF Hops
  <2> QED
    BY <1>11, <1>13, <2>1, AggregatedToSender
<1> QED
  BY <1>12, <1>13

(* An action that is no push, whose handler pushes nothing. *)
LEMMA NothingMoves ==
  ASSUME NetInv, NEW i \in DOMAIN agenda, IsNext(i), NEW actions, Carried(actions),
         Returns(i, actions), \A kind \in Kinds, f \in Flows : agenda[i] \notin At(kind, f),
         \A k \in DOMAIN actions : actions[k].act # "Push", NEW g \in Flows,
         BufferSeqs(g)' = BufferSeqs(g), sent'[g] = sent[g]
  PROVE  FifoStep(g) /\ SameReached(g)
<1>1. \A kind \in Kinds, f \in Flows, k \in DOMAIN actions : actions[k] \notin At(kind, f)
  BY AtIs
<1>2. \A kind \in Kinds : Stays(kind, g)
  BY <1>1, QueueStays DEF Stays
<1> QED
  BY <1>2, PathStays

(* A sender that stops changes nothing on any path.                         *)
LEMMA SenderStopsIsFifo ==
  ASSUME NetInv, NEW i \in DOMAIN agenda, SenderStops(i), NEW g \in Flows
  PROVE  FifoStep(g) /\ SameReached(g)
<1>1. Runs(i, "Sender", "Event") /\ Returns(i, <<>>) /\ buffer' = buffer /\ sent' = sent
  BY DEF SenderStops
<1>2. now' = agenda[i].when
  BY <1>1 DEF Returns
<1>3. IsNext(i) /\ \E f \in Flows : agenda[i] \in SenderTurns(f)
  BY <1>1, <1>2, SenderRuns
<1>4. \A kind \in Kinds, f \in Flows : agenda[i] \notin At(kind, f)
  BY <1>3, TurnsDiffer
<1> DEFINE none == <<>>
<1>5. Carried(none) /\ DOMAIN none = {} /\ Returns(i, none)
  BY <1>1, NoneCarried
<1> HIDE DEF none
<1>6. BufferSeqs(g)' = BufferSeqs(g) /\ sent'[g] = sent[g]
  BY <1>1, BufferStays
<1> QED
  BY <1>3, <1>4, <1>5, <1>6, NothingMoves

(* A push that comes out of no queue. *)
LEMMA SomethingComes ==
  ASSUME NetInv, NEW i \in DOMAIN agenda, IsNext(i), NEW actions, Carried(actions),
         Returns(i, actions), \A kind \in Kinds, g \in Flows : agenda[i] \notin At(kind, g),
         NEW to \in Kinds, NEW f \in Flows, NEW k \in DOMAIN actions, actions[k] \in At(to, f),
         buffer' \in Seq(Packets)
  PROVE  Comes(to, f, actions[k].pkt.seq)
<1>1. /\ Gains(to, f, actions[k].pkt.seq)
      /\ \A kind \in Kinds, g \in Flows : kind # to \/ g # f => Stays(kind, g)
  BY OneComes
<1>2. Typed /\ actions \in Seq(Actions)
  BY DEF NetInv, Carried
<1>3. \A g \in Flows : PathTyped(g)
  BY <1>2, PathsTyped
<1> QED
  BY <1>1, <1>3 DEF Comes

(* A sender that sends puts a packet at the end of its own wire.            *)
LEMMA SenderSendsIsFifo ==
  ASSUME NetInv, NEW i \in DOMAIN agenda, SenderSends(i), NEW g \in Flows
  PROVE  FifoStep(g) /\ SameReached(g)
<1> DEFINE to == Obj(agenda[i].to)
           pkt == Packet("Data", to.addr, to.dest, sent[to.flow], now')
<1>1. /\ Runs(i, "Sender", "Event") /\ sent' = [sent EXCEPT ![to.flow] = @ + 1]
      /\ buffer' = buffer
  BY DEF SenderSends
<1>2. PICK gap \in SendGaps :
        Returns(i, <<Push(now', to.next, pkt), Event(now' + gap, agenda[i].to)>>)
  BY DEF SenderSends
<1>3. now' = agenda[i].when /\ "Delay" \in Kinds /\ gap \in Nat
  BY <1>2, NetworkAssumption DEF Returns, Kinds
<1>4. /\ \E f \in Flows : agenda[i] \in SenderTurns(f)
      /\ IsNext(i) /\ agenda[i] \notin LinkTurns /\ now' \in Nat /\ now <= now'
  BY <1>1, <1>3, SenderRuns
<1>5. PICK f \in Flows : agenda[i] \in SenderTurns(f)
  BY <1>4
<1>6. /\ agenda[i].to = SenderOf(f) /\ to.flow = f /\ to.addr = SenderAddrOf(f)
      /\ to.dest = AckerAddrOf(f) /\ to.next = PlaceOf("Delay", f)
  <2>1. agenda[i].to = SenderOf(f)
    BY <1>5 DEF SenderTurns
  <2>2. to = Object("Sender", f, SenderAddrOf(f), DelayOf(f), AckerAddrOf(f))
    BY <2>1, ObjectsAre
  <2> QED
    BY <2>1, <2>2 DEF Object, PlaceOf
<1>7. sent \in [Flows -> 0..MaxPkts] /\ MaxPkts \in Nat /\ sent[f] \in Nat
  BY NetworkAssumption DEF NetInv, Typed
<1>8. sent'[f] = sent[f] + 1 /\ (g # f => sent'[g] = sent[g])
  BY <1>1, <1>6, <1>7
<1>9. pkt \in LoadOf("Delay", f) /\ pkt.seq = sent[f]
  <2>1. pkt = [type |-> "Data", src |-> SenderAddrOf(f), dest |-> AckerAddrOf(f),
               seq |-> sent[f], sentTime |-> now']
    BY <1>6 DEF Packet
  <2>2. AckerAddrOf(f) \in Int /\ SenderAddrOf(f) \in Int
    BY NumFlowsAssumption DEF AckerAddrOf, SenderAddrOf, Flows
  <2> HIDE DEF pkt
  <2>3. pkt \in Packets
    BY <1>4, <1>7, <2>1, <2>2 DEF Packets
  <2> QED
    BY <2>1, <2>3 DEF DataOf, LoadOf
<1> HIDE DEF pkt, to
<1> DEFINE e == Push(now', PlaceOf("Delay", f), pkt)
           turn == Event(now' + gap, SenderOf(f))
           both == <<e, turn>>
<1>10. pkt \in Packets
  BY <1>9 DEF LoadOf, DataOf
<1>11. e \in Actions /\ e \in At("Delay", f) /\ Placed(e) /\ e.pkt = pkt
  <2>1. e \in Actions /\ e.act = "Push" /\ e.to = PlaceOf("Delay", f) /\ e.pkt = pkt
    BY <1>3, <1>4, <1>10, PlacesAre DEF Actions, Push
  <2> HIDE DEF e
  <2>2. e \in At("Delay", f)
    BY <1>9, <2>1 DEF At
  <2> QED
    BY <1>3, <2>1, <2>2 DEF Placed
<1>12. now' + gap \in Nat
  BY <1>3, <1>4
<1>13. turn \in Actions /\ Placed(turn) /\ turn.act = "Event"
  <2>1. SenderOf(f) \in Ids
    BY PlacesAre DEF Kinds, PlaceOf
  <2>2. NoPacket \in Packets
    BY DEF NoPacket, Packet, Packets, None
  <2>3. turn \in Actions /\ turn.act = "Event" /\ turn.to = SenderOf(f)
    BY <1>12, <2>1, <2>2 DEF Event, Actions
  <2> QED
    BY <2>3 DEF Placed, SenderTurns
<1>14. both \in Seq(Actions) /\ DOMAIN both = {1, 2} /\ both[1] = e /\ both[2] = turn
  <2> HIDE DEF e, turn
  <2> QED
    BY <1>11, <1>13
<1>15. Returns(i, both)
  BY <1>2, <1>6
<1> HIDE DEF e, turn, both
<1>16. Carried(both)
  BY <1>11, <1>13, <1>14 DEF Carried
<1>17. \A kind \in Kinds, h \in Flows : agenda[i] \notin At(kind, h)
  BY <1>5, TurnsDiffer
<1>18. buffer' \in Seq(Packets)
  BY <1>1 DEF NetInv, Typed
<1>19. Comes("Delay", f, sent[f])
  <2>1. 1 \in DOMAIN both /\ both[1] \in At("Delay", f) /\ both[1].pkt.seq = sent[f]
    BY <1>9, <1>11, <1>14
  <2>2. Comes("Delay", f, both[1].pkt.seq)
    BY <1>3, <1>4, <1>15, <1>16, <1>17, <1>18, <2>1, SomethingComes
  <2> QED
    BY <2>1, <2>2
<1>20. BufferSeqs(g)' = BufferSeqs(g)
  BY <1>1, BufferStays
<1>21. CASE g # f
  BY <1>8, <1>19, <1>20, <1>21, OthersStay DEF Comes
<1>22. CASE g = f
  <2>1. /\ PathTyped(f) /\ Gains("Delay", f, sent[f])
        /\ \A kind \in Kinds : kind # "Delay" => Stays(kind, f)
    BY <1>19 DEF Comes
  <2> QED
    BY <1>7, <1>8, <1>20, <1>22, <2>1, SentToDelay
<1> QED
  BY <1>21, <1>22

(* Link::event keeps the order of each flow's packets.                      *)
LEMMA LinkEventIsFifo ==
  ASSUME NetInv, NEW i \in DOMAIN agenda, LinkEvent(i), NEW g \in Flows
  PROVE  FifoStep(g) /\ SameReached(g)
<1>1. PICK tx \in NextTx(trace, agenda[i].when) :
        \E actions \in Seq(Actions) : trace' = tx.trace /\ LinkReturns(i, tx.at, actions)
  BY LinkEventIs
<1>2. PICK actions \in Seq(Actions) : trace' = tx.trace /\ LinkReturns(i, tx.at, actions)
  BY <1>1
<1>3. Runs(i, "Link", "Event") /\ sent' = sent
  BY DEF LinkEvent
<1>4. /\ Returns(i, actions) /\ Carried(actions)
      /\ DOMAIN actions = 1..Len(actions) /\ Len(actions) \in {1, 2}
      /\ actions[1] \in LinkTurns
      /\ Len(actions) = 2 <=> Len(buffer) > 0
  BY <1>2 DEF LinkReturns, Returned, Carried
<1>5. /\ Len(actions) = 2 =>
           \E f \in Flows : /\ buffer[1] \in DataOf(f)
                            /\ actions[2] = Push(now', RouterId, buffer[1])
                            /\ actions[2] \in At("Router", f)
      /\ buffer' \in Seq(Packets)
      /\ Len(buffer') = (IF Len(buffer) = 0 THEN 0 ELSE Len(buffer) - 1)
      /\ \A p \in DOMAIN buffer' : p + 1 \in DOMAIN buffer /\ buffer'[p] = buffer[p + 1]
  BY <1>2 DEF LinkReturns
<1>6. /\ Typed /\ Scheduled /\ InOrder /\ buffer \in Seq(Packets) /\ Len(buffer) \in Nat
      /\ DOMAIN buffer = 1..Len(buffer) /\ DOMAIN buffer' = 1..Len(buffer') /\ Len(buffer') \in Nat
  BY <1>5, LenProperties DEF NetInv, Typed
<1>6a. /\ Len(actions) = 1 => Len(buffer) = 0 /\ Len(buffer') = 0
       /\ Len(actions) = 2 => Len(buffer) > 0 /\ Len(buffer') = Len(buffer) - 1
  <2> DEFINE m == Len(actions)
             n == Len(buffer)
             n1 == Len(buffer')
  <2>1. /\ m = 2 <=> n > 0
        /\ m \in {1, 2} /\ n \in Nat
    BY <1>4, <1>6
  <2>2. n1 = IF n = 0 THEN 0 ELSE n - 1
    BY <1>5
  <2> HIDE DEF m, n, n1
  <2>3. /\ m = 1 => n = 0 /\ n1 = 0
        /\ m = 2 => n > 0 /\ n1 = n - 1
    BY <2>1, <2>2
  <2> QED
    BY <2>3 DEF m, n, n1
<1>7. IsNext(i) /\ agenda[i] \in LinkTurns
  BY <1>3, <1>6, NextIs, EventAt DEF Runs
<1>8. \A kind \in Kinds, f \in Flows : agenda[i] \notin At(kind, f)
  BY <1>7, TurnsDiffer
<1>9. sent'[g] = sent[g]
  BY <1>3
<1>10. CASE Len(actions) = 1
  <2>1. Len(buffer) = 0 /\ Len(buffer') = 0
    BY <1>6a, <1>10
  <2>2. buffer' = buffer
    BY <1>5, <1>6, <2>1, SeqEqual
  <2>3. \A k \in DOMAIN actions : actions[k].act # "Push"
    BY <1>4, <1>10 DEF LinkTurns
  <2>4. BufferSeqs(g)' = BufferSeqs(g)
    BY <2>2, BufferStays
  <2> QED
    BY <1>4, <1>7, <1>8, <1>9, <2>3, <2>4, NothingMoves
<1>11. CASE Len(actions) = 2
  <2> DEFINE pkt == buffer[1]
             x == pkt.seq
             k == 2
  <2>1. PICK f \in Flows : /\ pkt \in DataOf(f) /\ actions[2] = Push(now', RouterId, pkt)
                           /\ actions[2] \in At("Router", f)
    BY <1>5, <1>11
  <2>2. k \in DOMAIN actions /\ "Router" \in Kinds /\ actions[k] \in At("Router", f)
        /\ actions[k].pkt = pkt
    BY <1>4, <1>11, <2>1 DEF Kinds, Push
  <2>3. Comes("Router", f, actions[k].pkt.seq)
    <3> HIDE DEF k
    <3> QED
      BY <1>4, <1>5, <1>7, <1>8, <2>2, SomethingComes
  <2>4. pkt \in Packets /\ x \in Nat
    BY <2>1 DEF DataOf, Packets
  <2>5. buffer = <<pkt>> \o buffer'
    <3>1. Len(buffer) > 0 /\ Len(buffer') = Len(buffer) - 1
      BY <1>6a, <1>11
    <3> DEFINE one == <<pkt>>
               rest == buffer'
               both == one \o rest
    <3>1a. /\ rest \in Seq(Packets) /\ DOMAIN rest = 1..Len(rest) /\ Len(rest) \in Nat
           /\ Len(rest) = Len(buffer) - 1
           /\ \A p \in DOMAIN rest : p + 1 \in DOMAIN buffer /\ rest[p] = buffer[p + 1]
      BY <1>5, <1>6, <3>1
    <3>2a. rest \in Seq(Packets)
      BY <1>5
    <3>2. one \in Seq(Packets) /\ Len(one) = 1 /\ one[1] = pkt
      <4> HIDE DEF pkt
      <4> QED
        BY <2>4
    <3> HIDE DEF one, rest
    <3>3. /\ both \in Seq(Packets) /\ Len(both) = Len(one) + Len(rest)
          /\ \A j \in 1..(Len(one) + Len(rest)) :
               both[j] = IF j <= Len(one) THEN one[j] ELSE rest[j - Len(one)]
      BY <3>2, <3>2a, ConcatProperties
    <3> HIDE DEF both
    <3>4. Len(both) = Len(buffer)
      BY <1>6, <3>1, <3>1a, <3>2, <3>3
    <3>5. ASSUME NEW j \in 1..Len(both) PROVE both[j] = buffer[j]
      <4>1. both[j] = IF j <= 1 THEN one[j] ELSE rest[j - 1]
        BY <1>6, <3>1a, <3>2, <3>3
      <4>2. CASE j = 1
        BY <3>2, <4>1, <4>2
      <4>3. CASE j # 1
        <5>1. j - 1 \in DOMAIN rest /\ (j - 1) + 1 = j /\ ~(j <= 1)
          BY <1>6, <3>1, <3>1a, <3>4, <4>3
        <5>2. rest[j - 1] = buffer[(j - 1) + 1]
          BY <3>1a, <5>1
        <5> QED
          BY <4>1, <5>1, <5>2
      <4> QED
        BY <4>2, <4>3
    <3>6. both = buffer
      BY <1>6, <3>3, <3>4, <3>5, SeqEqual
    <3> QED
      BY <3>6 DEF both, one, rest
  <2>6. BufferSeqs(g) = IF g = f THEN <<pkt.seq>> \o BufferSeqs(g)' ELSE BufferSeqs(g)'
    <3> HIDE DEF pkt
    <3> QED
      BY <1>5, <1>6, <2>1, <2>5, BufferLoses
  <2> HIDE DEF pkt, k
  <2>7. CASE g # f
    <3>1. BufferSeqs(g)' = BufferSeqs(g)
      BY <2>6, <2>7
    <3> QED
      BY <1>9, <2>3, <2>7, <3>1, OthersStay DEF Comes
  <2>8. CASE g = f
    <3>1. /\ PathTyped(f) /\ Gains("Router", f, x)
          /\ \A kind \in Kinds : kind # "Router" => Stays(kind, f)
      BY <2>2, <2>3 DEF Comes
    <3>2. Starts(BufferSeqs(f), x, BufferSeqs(f)')
      BY <2>6, <2>8 DEF Starts
    <3> QED
      BY <1>9, <2>4, <2>8, <3>1, <3>2, BufferedToRouter
  <2> QED
    BY <2>7, <2>8
<1> QED
  BY <1>4, <1>10, <1>11

(* Where nothing changes, nothing does for a flow.                          *)
LEMMA NetworkStutterIsFifo ==
  ASSUME UNCHANGED netVars, NEW g \in Flows
  PROVE  FifoStep(g)
<1>1. agenda' = agenda /\ buffer' = buffer /\ sent' = sent
  BY DEF netVars
<1>2. OnWire(g)' = OnWire(g) /\ OnAckPath(g)' = OnAckPath(g) /\ sent'[g] = sent[g]
  BY <1>1 DEF OnWire, OnAckPath, AtKind, InBuffer
<1> QED
  BY <1>2, FifoStutters

(* Every step of the network is one of each flow's path, or none of its.    *)
LEMMA NetworkStepIsFifo ==
  NetInv /\ [Next]_netVars => \A flow \in Flows : [Path(flow)!FifoNext]_(Path(flow)!fifoVars)
<1> SUFFICES ASSUME NetInv, [Next]_netVars, NEW g \in Flows PROVE FifoStep(g)
  BY DEF FifoStep
<1>1. CASE UNCHANGED netVars
  BY <1>1, NetworkStutterIsFifo
<1>2. CASE Stop
  BY <1>2, NetworkStutterIsFifo DEF Stop
<1>3. ASSUME NEW i \in DOMAIN agenda, Step(i) PROVE FifoStep(g)
  <2>1. CASE SenderSends(i)
    BY <2>1, SenderSendsIsFifo
  <2>2. CASE SenderStops(i)
    BY <2>2, SenderStopsIsFifo
  <2>3. CASE SenderGetsAck(i)
    BY <2>3, SenderGetsAckIsFifo
  <2>4. CASE DelayPush(i)
    BY <2>4, DelayPushIsFifo
  <2>5. CASE LinkQueues(i)
    BY <2>5, LinkQueuesIsFifo
  <2>6. CASE LinkDrops(i)
    BY <2>6, LinkDropsIsFifo
  <2>7. CASE LinkEvent(i)
    BY <2>7, LinkEventIsFifo
  <2>8. CASE RouterPush(i)
    BY <2>8, RouterPushIsFifo
  <2>9. CASE AckerPush(i)
    BY <2>9, AckerPushIsFifo
  <2>10. CASE AggregatorPush(i)
    BY <2>10, AggregatorPushIsFifo
  <2> QED
    BY <1>3, <2>1, <2>2, <2>3, <2>4, <2>5, <2>6, <2>7, <2>8, <2>9, <2>10 DEF Step
<1> QED
  BY <1>1, <1>2, <1>3 DEF Next

(* To each flow, what lies between sender and acker is a FIFO that may      *)
(* drop, and the way back a FIFO that does not, as TcpFlow assumes of its   *)
(* paths: whatever the other flows do, with several flows in one buffer,    *)
(* through delays, opportunities, routing and aggregation.                  *)
THEOREM NetworkIsFifo == Spec => PerFlowFifo
<1>1. Init => \A flow \in Flows : Path(flow)!FifoInit
  BY PathsStart
<1>2. NetInv /\ [Next]_netVars =>
        [\A flow \in Flows : [Path(flow)!FifoNext]_(Path(flow)!fifoVars)]_netVars
  BY NetworkStepIsFifo
<1> QED
  BY <1>1, <1>2, NetworkInvariant, PTL DEF Spec, PerFlowFifo

-----------------------------------------------------------------------------
(* What the link's buckets add up to.                                       *)

(* upTo of Total, as far as the m-th number. *)
Sums(g, q, m) == g = [n \in 0..m |-> IF n = 0 THEN 0 ELSE g[n - 1] + q[n]]

(* Adding up number by number is a function of how far it got.              *)
LEMMA SumsExist == ASSUME NEW q, NEW m \in Nat PROVE \E g : Sums(g, q, m)
<1> DEFINE Stuck == {k \in Nat : ~\E g : Sums(g, q, k)}
<1>1. SUFFICES ASSUME Stuck # {} PROVE FALSE
  OBVIOUS
<1>2. PICK k \in Stuck : \A j \in Stuck : k <= j
  BY <1>1, LeastNat
<1>3. k \in Nat /\ ~\E g : Sums(g, q, k)
  BY <1>2
<1>4. k # 0
  <2> DEFINE g == [n \in 0..0 |-> 0]
  <2>1. g = [n \in 0..0 |-> IF n = 0 THEN 0 ELSE g[n - 1] + q[n]]
    OBVIOUS
  <2> HIDE DEF g
  <2>2. Sums(g, q, 0)
    BY <2>1 DEF Sums
  <2> QED
    BY <1>3, <2>2
<1>5. k - 1 \in Nat /\ k - 1 \notin Stuck
  BY <1>2, <1>3, <1>4
<1>6. PICK g : Sums(g, q, k - 1)
  BY <1>5
<1> DEFINE h == [n \in 0..k |-> IF n = k THEN g[n - 1] + q[n] ELSE g[n]]
<1>7. ASSUME NEW n \in 0..k
      PROVE  h[n] = IF n = 0 THEN 0 ELSE h[n - 1] + q[n]
  <2>1. n # 0 => n - 1 \in 0..k /\ n - 1 # k
    BY <1>3
  <2>2. n # 0 => h[n - 1] = g[n - 1]
    BY <2>1
  <2>3. CASE n = k
    BY <1>4, <2>2, <2>3
  <2>4. CASE n # k
    <3>1. n \in 0..(k - 1)
      BY <1>3, <2>4
    <3>2. g[n] = IF n = 0 THEN 0 ELSE g[n - 1] + q[n]
      BY <1>6, <3>1 DEF Sums
    <3>3. h[n] = g[n]
      BY <2>4
    <3> QED
      BY <2>2, <3>2, <3>3
  <2> QED
    BY <2>3, <2>4
<1>8. DOMAIN h = 0..k /\ h = [n \in DOMAIN h |-> h[n]]
  OBVIOUS
<1> HIDE DEF h
<1>9. Sums(h, q, k)
  BY <1>7, <1>8 DEF Sums
<1> QED
  BY <1>3, <1>9

(* Total is its value at the end of the sequence.                           *)
LEMMA TotalSums ==
  ASSUME NEW q \in Seq(Int)
  PROVE  \E g : Sums(g, q, Len(q)) /\ Total(q) = g[Len(q)]
<1> DEFINE upTo == CHOOSE g :
             g = [n \in 0..Len(q) |-> IF n = 0 THEN 0 ELSE g[n - 1] + q[n]]
<1>1. Total(q) = upTo[Len(q)]
  BY DEF Total
<1>2. \E g : Sums(g, q, Len(q))
  BY SumsExist, LenProperties
<1>3. Sums(upTo, q, Len(q))
  BY <1>2 DEF Sums
<1> HIDE DEF upTo
<1> QED
  BY <1>1, <1>3

(* Up to the m-th number, r is q with x more at the k-th; so far up to the  *)
(* m-th, sums h are sums g with x more from the k-th on.                    *)
MoreAt(r, q, m, k, x) == \A n \in 1..m : r[n] = IF n = k THEN q[n] + x ELSE q[n]

MoreFrom(h, g, m, k, x) ==
  \A n \in 0..m : /\ g[n] \in Int /\ h[n] \in Int
                  /\ h[n] = IF 1 <= k /\ k <= n THEN g[n] + x ELSE g[n]

(* Of two sequences that differ by x at the k-th number only, the sums      *)
(* differ by x from there on.                                               *)
LEMMA SumsDiffer ==
  ASSUME NEW q \in Seq(Int), NEW r \in Seq(Int), NEW m \in Nat, m <= Len(q), m <= Len(r),
         NEW x \in Int, NEW k \in Nat, MoreAt(r, q, m, k, x),
         NEW g, Sums(g, q, Len(q)), NEW h, Sums(h, r, Len(r))
  PROVE  MoreFrom(h, g, m, k, x)
<1> DEFINE Fits(n) == /\ g[n] \in Int /\ h[n] \in Int
                      /\ h[n] = IF 1 <= k /\ k <= n THEN g[n] + x ELSE g[n]
           Wrong == {n \in 0..m : ~Fits(n)}
<1>1. SUFFICES ASSUME Wrong # {} PROVE FALSE
  BY DEF MoreFrom
<1> HIDE DEF Fits
<1>2. PICK n \in Wrong : \A j \in Wrong : n <= j
  <2>1. Wrong \in SUBSET Nat
    OBVIOUS
  <2> HIDE DEF Wrong
  <2> QED
    BY <1>1, <2>1, LeastNat
<1>3. n \in 0..m /\ ~Fits(n)
  BY <1>2
<1>3a. Len(q) \in Nat /\ Len(r) \in Nat /\ n \in 0..Len(q) /\ n \in 0..Len(r)
  BY <1>3, LenProperties
<1>4. /\ g[n] = IF n = 0 THEN 0 ELSE g[n - 1] + q[n]
      /\ h[n] = IF n = 0 THEN 0 ELSE h[n - 1] + r[n]
  BY <1>3a DEF Sums
<1>5. n # 0
  BY <1>3, <1>4 DEF Fits
<1>6. n - 1 \in 0..m /\ n - 1 \notin Wrong /\ n \in 1..m /\ n \in 1..Len(q)
  BY <1>2, <1>3, <1>3a, <1>5
<1>7. Fits(n - 1)
  BY <1>6
<1>8. q[n] \in Int /\ r[n] = IF n = k THEN q[n] + x ELSE q[n]
  BY <1>6, ElementOfSeq DEF MoreAt
<1>9. Fits(n)
  <2> DEFINE a == g[n - 1]
             b == h[n - 1]
             y == q[n]
             z == r[n]
  <2>1. /\ a \in Int /\ b \in Int
        /\ b = IF 1 <= k /\ k <= n - 1 THEN a + x ELSE a
    BY <1>7 DEF Fits
  <2>2. y \in Int /\ z = (IF n = k THEN y + x ELSE y) /\ n \in Nat /\ n >= 1
    BY <1>6, <1>8
  <2>3. g[n] = a + y /\ h[n] = b + z
    BY <1>4, <1>5
  <2> HIDE DEF a, b, y, z
  <2>4. a + y \in Int /\ b + z \in Int
    BY <2>1, <2>2
  <2>5. b + z = IF 1 <= k /\ k <= n THEN (a + y) + x ELSE a + y
    BY <2>1, <2>2
  <2> QED
    BY <2>3, <2>4, <2>5 DEF Fits
<1> QED
  BY <1>3, <1>9

(* A sum of numbers is a number; changing one by x changes it by x.         *)
LEMMA TotalChanges ==
  ASSUME NEW q \in Seq(Int), NEW r \in Seq(Int), Len(r) = Len(q), NEW x \in Int,
         NEW k \in 1..Len(q), MoreAt(r, q, Len(q), k, x)
  PROVE  Total(q) \in Int /\ Total(r) = Total(q) + x
<1>1. PICK g : Sums(g, q, Len(q)) /\ Total(q) = g[Len(q)]
  BY TotalSums
<1>2. PICK h : Sums(h, r, Len(r)) /\ Total(r) = h[Len(r)]
  BY TotalSums
<1>3. Len(q) \in Nat /\ k \in Nat
  BY LenProperties
<1>4. MoreFrom(h, g, Len(q), k, x)
  BY <1>1, <1>2, <1>3, SumsDiffer
<1>5. Len(q) \in 0..Len(q) /\ 1 <= k /\ k <= Len(q)
  BY <1>3
<1> QED
  BY <1>1, <1>2, <1>4, <1>5 DEF MoreFrom

(* One number more adds itself.                                             *)
LEMMA TotalAppend ==
  ASSUME NEW q \in Seq(Int), NEW x \in Int
  PROVE  Total(q) \in Int /\ Total(Append(q, x)) = Total(q) + x
<1> DEFINE r == Append(q, x)
<1>1. /\ r \in Seq(Int) /\ Len(r) = Len(q) + 1 /\ r[Len(q) + 1] = x
      /\ \A n \in 1..Len(q) : r[n] = q[n]
  BY AppendProperties
<1> HIDE DEF r
<1>2. PICK g : Sums(g, q, Len(q)) /\ Total(q) = g[Len(q)]
  BY TotalSums
<1>3. PICK h : Sums(h, r, Len(r)) /\ Total(r) = h[Len(r)]
  BY <1>1, TotalSums
<1>4. Len(q) \in Nat
  BY LenProperties
<1>5. MoreFrom(h, g, Len(q), 0, 0)
  <2>1. MoreAt(r, q, Len(q), 0, 0)
    BY <1>1, <1>4 DEF MoreAt
  <2>2. Len(q) <= Len(q) /\ Len(q) <= Len(r) /\ 0 \in Int /\ 0 \in Nat
    BY <1>1, <1>4
  <2> QED
    BY <1>1, <1>2, <1>3, <1>4, <2>1, <2>2, SumsDiffer
<1>6. Len(q) \in 0..Len(q) /\ Len(r) \in 0..Len(r) /\ Len(r) # 0 /\ Len(r) - 1 = Len(q)
  BY <1>1, <1>4
<1>7. h[Len(r)] = h[Len(r) - 1] + r[Len(r)]
  BY <1>3, <1>6 DEF Sums
<1>8. g[Len(q)] \in Int /\ h[Len(q)] = g[Len(q)]
  BY <1>5, <1>6 DEF MoreFrom
<1>9. Total(r) = Total(q) + x
  BY <1>1, <1>2, <1>3, <1>6, <1>7, <1>8
<1> QED
  BY <1>2, <1>8, <1>9 DEF r

(* Nothing adds up to 0. *)
LEMMA TotalNothing ==
  ASSUME NEW q \in Seq(Int), \A n \in 1..Len(q) : q[n] = 0
  PROVE  Total(q) = 0
<1>1. PICK g : Sums(g, q, Len(q)) /\ Total(q) = g[Len(q)]
  BY TotalSums
<1>2. Len(q) \in Nat
  BY LenProperties
<1> DEFINE Wrong == {n \in 0..Len(q) : g[n] # 0}
<1>3. Wrong = {}
  <2>1. SUFFICES ASSUME Wrong # {} PROVE FALSE
    OBVIOUS
  <2>2. PICK n \in Wrong : \A j \in Wrong : n <= j
    <3>1. Wrong \in SUBSET Nat
      OBVIOUS
    <3> HIDE DEF Wrong
    <3> QED
      BY <2>1, <3>1, LeastNat
  <2>3. n \in 0..Len(q) /\ g[n] # 0
    BY <2>2
  <2>4. g[n] = IF n = 0 THEN 0 ELSE g[n - 1] + q[n]
    BY <1>1, <2>3 DEF Sums
  <2>5. n - 1 \in 0..Len(q) /\ n - 1 \notin Wrong /\ n \in 1..Len(q)
    BY <1>2, <2>2, <2>3, <2>4
  <2>6. g[n - 1] = 0
    BY <2>5
  <2> QED
    BY <2>3, <2>4, <2>5, <2>6
<1>4. Len(q) \in 0..Len(q)
  BY <1>2
<1> QED
  BY <1>1, <1>3, <1>4

(* The buckets of Tracer: one after the other without a gap, no more egress *)
(* than the opportunities allow, no source forgotten.                       *)
AnyBucket ==
  [start : Nat, opps : Nat, egress : Nat, ingress : UNION {[D -> Nat] : D \in SUBSET Int}]

Bucketed(s) ==
  /\ s \in Seq(AnyBucket)
  /\ \A k \in 1..Len(s) :
       /\ s[k].start = (k - 1) * LinkBucketSize
       /\ PktSize <= TxOppBytes => s[k].egress <= s[k].opps
       /\ k > 1 => DOMAIN s[k - 1].ingress \subseteq DOMAIN s[k].ingress

(* A reading of buckets that finds nothing in a new one. *)
Reading(F) ==
  F \in [AnyBucket -> Nat] /\ \A start \in Nat, D \in SUBSET Int : F[NewBucket(start, D)] = 0

(* What the buckets add up to by a reading. *)
Reads(F, s) == Total(Mapped(F, s))

(* A new bucket. *)
LEMMA NewBucketIs ==
  ASSUME NEW start \in Nat, NEW D \in SUBSET Int
  PROVE  /\ NewBucket(start, D) \in AnyBucket /\ NewBucket(start, D).start = start
         /\ NewBucket(start, D).egress = 0 /\ NewBucket(start, D).opps = 0
         /\ DOMAIN NewBucket(start, D).ingress = D
<1> DEFINE zero == [src \in D |-> 0]
<1>1. zero \in [D -> Nat] /\ DOMAIN zero = D
  OBVIOUS
<1>2. zero \in UNION {[E -> Nat] : E \in SUBSET Int}
  BY <1>1
<1>3. NewBucket(start, D) = [start |-> start, opps |-> 0, egress |-> 0, ingress |-> zero]
  BY DEF NewBucket
<1> HIDE DEF zero
<1> QED
  BY <1>1, <1>2, <1>3 DEF AnyBucket

(* A bucket's ingress is a function on sources. *)
LEMMA IngressType ==
  ASSUME NEW b \in AnyBucket
  PROVE  /\ b.start \in Nat /\ b.opps \in Nat /\ b.egress \in Nat
         /\ DOMAIN b.ingress \in SUBSET Int /\ \A src \in DOMAIN b.ingress : b.ingress[src] \in Nat
<1>1. b.ingress \in UNION {[D -> Nat] : D \in SUBSET Int}
  BY DEF AnyBucket
<1>2. PICK D \in SUBSET Int : b.ingress \in [D -> Nat]
  BY <1>1
<1> QED
  BY <1>2 DEF AnyBucket

(* A bucket with one of its counts changed, *)
LEMMA CountChanged ==
  ASSUME NEW b \in AnyBucket, NEW n \in Nat
  PROVE  /\ [b EXCEPT !.opps = @ + n] \in AnyBucket
         /\ [b EXCEPT !.opps = @ + n].start = b.start
         /\ [b EXCEPT !.opps = @ + n].opps = b.opps + n
         /\ [b EXCEPT !.opps = @ + n].egress = b.egress
         /\ [b EXCEPT !.opps = @ + n].ingress = b.ingress
         /\ [b EXCEPT !.egress = @ + n] \in AnyBucket
         /\ [b EXCEPT !.egress = @ + n].start = b.start
         /\ [b EXCEPT !.egress = @ + n].opps = b.opps
         /\ [b EXCEPT !.egress = @ + n].egress = b.egress + n
         /\ [b EXCEPT !.egress = @ + n].ingress = b.ingress
<1> DEFINE Ingresses == UNION {[E -> Nat] : E \in SUBSET Int}
<1>1. AnyBucket = [start : Nat, opps : Nat, egress : Nat, ingress : Ingresses]
  BY DEF AnyBucket
<1> HIDE DEF Ingresses
<1>2. b \in [start : Nat, opps : Nat, egress : Nat, ingress : Ingresses]
  BY <1>1
<1>3. b.opps + n \in Nat /\ b.egress + n \in Nat
  BY <1>2
<1>4. /\ [b EXCEPT !.opps = @ + n] =
           [start |-> b.start, opps |-> b.opps + n, egress |-> b.egress, ingress |-> b.ingress]
      /\ [b EXCEPT !.egress = @ + n] =
           [start |-> b.start, opps |-> b.opps, egress |-> b.egress + n, ingress |-> b.ingress]
  BY <1>2
<1> QED
  BY <1>1, <1>2, <1>3, <1>4

(* and one with its ingress changed. *)
LEMMA IngressChanged ==
  ASSUME NEW b \in AnyBucket, NEW D \in SUBSET Int, NEW ingress \in [D -> Nat]
  PROVE  /\ [b EXCEPT !.ingress = ingress] \in AnyBucket
         /\ [b EXCEPT !.ingress = ingress].start = b.start
         /\ [b EXCEPT !.ingress = ingress].opps = b.opps
         /\ [b EXCEPT !.ingress = ingress].egress = b.egress
         /\ [b EXCEPT !.ingress = ingress].ingress = ingress
<1> DEFINE Ingresses == UNION {[E -> Nat] : E \in SUBSET Int}
<1>1. AnyBucket = [start : Nat, opps : Nat, egress : Nat, ingress : Ingresses]
  BY DEF AnyBucket
<1>2. ingress \in Ingresses
  OBVIOUS
<1> HIDE DEF Ingresses
<1>3. b \in [start : Nat, opps : Nat, egress : Nat, ingress : Ingresses]
  BY <1>1
<1>4. [b EXCEPT !.ingress = ingress] =
        [start |-> b.start, opps |-> b.opps, egress |-> b.egress, ingress |-> ingress]
  BY <1>3
<1> QED
  BY <1>1, <1>2, <1>3, <1>4

(* What buckets add up to is a number; one more bucket adds what it is read *)
(* as,                                                                      *)
LEMMA ReadsAppend ==
  ASSUME NEW s \in Seq(AnyBucket), NEW b \in AnyBucket, NEW F \in [AnyBucket -> Nat]
  PROVE  Reads(F, s) \in Int /\ Reads(F, Append(s, b)) = Reads(F, s) + F[b]
<1> DEFINE q == Mapped(F, s)
           r == Append(q, F[b])
           t == Append(s, b)
           p == Mapped(F, t)
<1>1. q \in Seq(Nat) /\ Len(q) = Len(s) /\ \A k \in 1..Len(s) : q[k] = F[s[k]]
  BY MappedType DEF Maps
<1>2. t \in Seq(AnyBucket) /\ Len(t) = Len(s) + 1 /\ t[Len(s) + 1] = b
      /\ \A k \in 1..Len(s) : t[k] = s[k]
  BY AppendProperties
<1> HIDE DEF t
<1>3. p \in Seq(Nat) /\ Len(p) = Len(t) /\ \A k \in 1..Len(t) : p[k] = F[t[k]]
  <2>1. Maps(F, t, p)
    BY <1>2, MappedType
  <2> QED
    BY <2>1 DEF Maps
<1> HIDE DEF q, p
<1>4. F[b] \in Nat /\ Len(s) \in Nat
  BY LenProperties
<1>5. r \in Seq(Nat) /\ Len(r) = Len(q) + 1 /\ r[Len(q) + 1] = F[b]
      /\ \A k \in 1..Len(q) : r[k] = q[k]
  BY <1>1, <1>4, AppendProperties
<1>6. q \in Seq(Int) /\ F[b] \in Int
  BY <1>1, <1>4, SeqMonotonic
<1>7. Total(q) \in Int /\ Total(r) = Total(q) + F[b]
  BY <1>6, TotalAppend
<1> HIDE DEF r
<1>8. Len(p) = Len(r)
  BY <1>1, <1>2, <1>3, <1>5
<1>9. ASSUME NEW k \in 1..Len(p) PROVE p[k] = r[k]
  <2>1. k \in 1..(Len(s) + 1) /\ (k \in 1..Len(s) \/ k = Len(s) + 1)
    BY <1>2, <1>3, <1>4
  <2>2. p[k] = F[t[k]]
    BY <1>3
  <2>3. CASE k \in 1..Len(s)
    BY <1>1, <1>2, <1>5, <2>2, <2>3
  <2>4. CASE k = Len(s) + 1
    BY <1>1, <1>2, <1>5, <2>2, <2>4
  <2> QED
    BY <2>1, <2>3, <2>4
<1>10. p = r
  BY <1>3, <1>5, <1>8, <1>9, SeqEqual
<1> QED
  BY <1>7, <1>10 DEF Reads, p, q, t

(* and another bucket in the place of the last one the difference.          *)
LEMMA ReadsLast ==
  ASSUME NEW s \in Seq(AnyBucket), s # <<>>, NEW b \in AnyBucket, NEW F \in [AnyBucket -> Nat]
  PROVE  Reads(F, InLast(s, b)) = Reads(F, s) + (F[b] - F[s[Len(s)]])
<1> DEFINE n == Len(s)
           t == InLast(s, b)
           q == Mapped(F, s)
           p == Mapped(F, t)
           x == F[b] - F[s[n]]
<1>1. n \in Nat /\ n # 0 /\ n \in 1..n
  BY EmptySeq, LenProperties
<1>2. t \in Seq(AnyBucket) /\ Len(t) = n /\ \A k \in 1..n : t[k] = IF k = n THEN b ELSE s[k]
  BY <1>1, ExceptSeq DEF InLast
<1> HIDE DEF t
<1>3. q \in Seq(Nat) /\ Len(q) = n /\ \A k \in 1..n : q[k] = F[s[k]]
  BY MappedType DEF Maps
<1>4. p \in Seq(Nat) /\ Len(p) = n /\ \A k \in 1..n : p[k] = F[t[k]]
  BY <1>2, MappedType DEF Maps
<1> HIDE DEF q, p
<1>5. s[n] \in AnyBucket
  BY <1>1, ElementOfSeq
<1>6. F[b] \in Nat /\ F[s[n]] \in Nat
  BY <1>5
<1>7. x \in Int /\ F[b] = F[s[n]] + x
  BY <1>6
<1>8. q \in Seq(Int) /\ p \in Seq(Int)
  BY <1>3, <1>4, SeqMonotonic
<1> HIDE DEF n, x
<1>9. \A k \in 1..n : p[k] = IF k = n THEN q[k] + x ELSE q[k]
  BY <1>2, <1>3, <1>4, <1>7
<1>10. MoreAt(p, q, Len(q), n, x)
  BY <1>3, <1>9 DEF MoreAt
<1>11. Total(p) = Total(q) + x
  BY <1>1, <1>3, <1>4, <1>7, <1>8, <1>10, TotalChanges
<1> QED
  BY <1>11 DEF Reads, p, q, t, n, x

(* roll of Rolled, as far as the m-th new bucket, from where it begins. *)
Begun(s, t) == IF s = <<>> THEN <<NewBucket(t, {})>> ELSE s

Rolls(g, first, m) ==
  g = [n \in 0..m |->
         IF n = 0 THEN first ELSE Append(g[n - 1], NextBucket(g[n - 1][Len(g[n - 1])]))]

(* Adding bucket after bucket is a function of how far it got.              *)
LEMMA RollsExist == ASSUME NEW first, NEW m \in Nat PROVE \E g : Rolls(g, first, m)
<1> DEFINE More(s) == Append(s, NextBucket(s[Len(s)]))
           Stuck == {k \in Nat : ~\E g : Rolls(g, first, k)}
<1>1. SUFFICES ASSUME Stuck # {} PROVE FALSE
  OBVIOUS
<1>2. PICK k \in Stuck : \A j \in Stuck : k <= j
  BY <1>1, LeastNat
<1>3. k \in Nat /\ ~\E g : Rolls(g, first, k)
  BY <1>2
<1>4. k # 0
  <2> DEFINE g == [n \in 0..0 |-> first]
  <2>1. g = [n \in 0..0 |-> IF n = 0 THEN first ELSE More(g[n - 1])]
    OBVIOUS
  <2> HIDE DEF g
  <2>2. Rolls(g, first, 0)
    BY <2>1 DEF Rolls
  <2> QED
    BY <1>3, <2>2
<1>5. k - 1 \in Nat /\ k - 1 \notin Stuck
  BY <1>2, <1>3, <1>4
<1>6. PICK g : Rolls(g, first, k - 1)
  BY <1>5
<1> DEFINE h == [n \in 0..k |-> IF n = k THEN More(g[n - 1]) ELSE g[n]]
<1>7. ASSUME NEW n \in 0..k
      PROVE  h[n] = IF n = 0 THEN first ELSE More(h[n - 1])
  <2>1. n # 0 => n - 1 \in 0..k /\ n - 1 # k
    BY <1>3
  <2>2. n # 0 => h[n - 1] = g[n - 1]
    BY <2>1
  <2>3. CASE n = k
    <3> HIDE DEF More
    <3> QED
      BY <1>4, <2>2, <2>3
  <2>4. CASE n # k
    <3>1. n \in 0..(k - 1)
      BY <1>3, <2>4
    <3>2. g[n] = IF n = 0 THEN first ELSE More(g[n - 1])
      BY <1>6, <3>1 DEF Rolls
    <3>3. h[n] = g[n]
      BY <2>4
    <3> HIDE DEF More
    <3> QED
      BY <2>2, <3>2, <3>3
  <2> QED
    BY <2>3, <2>4
<1>8. DOMAIN h = 0..k /\ h = [n \in DOMAIN h |-> h[n]]
  OBVIOUS
<1> HIDE DEF h
<1>9. Rolls(h, first, k)
  BY <1>7, <1>8 DEF Rolls
<1> QED
  BY <1>3, <1>9

(* Rolled is what there is after the last new bucket.                       *)
LEMMA RolledRolls ==
  ASSUME NEW s, NEW t, (t - Begun(s, t)[Len(Begun(s, t))].start) \div LinkBucketSize \in Nat
  PROVE  \E g, m : /\ m = (t - Begun(s, t)[Len(Begun(s, t))].start) \div LinkBucketSize
                   /\ Rolls(g, Begun(s, t), m) /\ Rolled(s, t) = g[m]
<1> DEFINE first == Begun(s, t)
           m == (t - first[Len(first)].start) \div LinkBucketSize
           roll == CHOOSE g : g = [n \in 0..m |->
                     IF n = 0 THEN first
                     ELSE Append(g[n - 1], NextBucket(g[n - 1][Len(g[n - 1])]))]
<1>1. Rolled(s, t) = roll[m]
  BY DEF Rolled, Begun
<1> HIDE DEF first, m
<1>2. m \in Nat
  BY DEF m, first
<1>3. \E g : Rolls(g, first, m)
  BY <1>2, RollsExist
<1>4. Rolls(roll, first, m)
  BY <1>3 DEF Rolls
<1> HIDE DEF roll
<1> QED
  BY <1>1, <1>4 DEF m, first

(* The next bucket starts where the last one ends, and nothing is in it.    *)
LEMMA NextRolls ==
  ASSUME NEW s, Bucketed(s), s # <<>>
  PROVE  /\ Bucketed(Append(s, NextBucket(s[Len(s)])))
         /\ Len(Append(s, NextBucket(s[Len(s)]))) = Len(s) + 1
         /\ Append(s, NextBucket(s[Len(s)])) # <<>>
         /\ \A F : Reading(F) => Reads(F, Append(s, NextBucket(s[Len(s)]))) = Reads(F, s)
<1> DEFINE n == Len(s)
           last == s[n]
           b == NextBucket(last)
           r == Append(s, b)
<1>1. s \in Seq(AnyBucket) /\ n \in Nat /\ n \in 1..n
  BY EmptySeq, LenProperties DEF Bucketed
<1>2. last \in AnyBucket /\ last.start = (n - 1) * LinkBucketSize
  BY <1>1, ElementOfSeq DEF Bucketed
<1>3. LinkBucketSize \in Nat /\ n - 1 \in Nat /\ (n - 1) + 1 = n
  BY <1>1, LinkStatsAssumption
<1>4. last.start + LinkBucketSize = n * LinkBucketSize /\ n * LinkBucketSize \in Nat
  <2>1. ((n - 1) + 1) * LinkBucketSize = (n - 1) * LinkBucketSize + LinkBucketSize
    BY <1>3, Products
  <2>2. n * LinkBucketSize \in Nat
    BY <1>1, <1>3, Products
  <2> HIDE DEF n, last
  <2> QED
    BY <1>2, <1>3, <2>1, <2>2
<1> DEFINE D == DOMAIN last.ingress
<1>5. D \in SUBSET Int
  BY <1>2, IngressType
<1>6. b = NewBucket(n * LinkBucketSize, D)
  BY <1>4 DEF NextBucket
<1> HIDE DEF n, last, b, D
<1>7. /\ b \in AnyBucket /\ b.start = n * LinkBucketSize /\ b.egress = 0 /\ b.opps = 0
      /\ DOMAIN b.ingress = D
  BY <1>4, <1>5, <1>6, NewBucketIs
<1>8. r \in Seq(AnyBucket) /\ Len(r) = n + 1 /\ r[n + 1] = b /\ r # <<>>
      /\ \A k \in 1..n : r[k] = s[k]
  BY <1>1, <1>7, AppendProperties DEF n
<1> HIDE DEF r
<1>9. ASSUME NEW k \in 1..(n + 1)
      PROVE  /\ r[k].start = (k - 1) * LinkBucketSize
             /\ PktSize <= TxOppBytes => r[k].egress <= r[k].opps
             /\ k > 1 => DOMAIN r[k - 1].ingress \subseteq DOMAIN r[k].ingress
  <2>1. CASE k \in 1..n
    <3>1. k > 1 => k - 1 \in 1..n
      BY <1>1, <2>1
    <3> QED
      BY <1>8, <2>1, <3>1 DEF Bucketed, n
  <2>2. CASE k = n + 1
    <3>1. k - 1 = n /\ r[k] = b /\ r[k - 1] = last
      BY <1>1, <1>8, <2>2 DEF last
    <3>2. DOMAIN r[k - 1].ingress = D
      BY <3>1 DEF D
    <3>3. 0 <= 0
      OBVIOUS
    <3> QED
      BY <1>7, <3>1, <3>2, <3>3
  <2> QED
    BY <1>1, <2>1, <2>2
<1>10. Bucketed(r)
  BY <1>8, <1>9 DEF Bucketed
<1>11. ASSUME NEW F, Reading(F) PROVE Reads(F, r) = Reads(F, s)
  <2>1. F \in [AnyBucket -> Nat] /\ F[b] = 0
    BY <1>4, <1>5, <1>6, <1>11 DEF Reading
  <2>2. Reads(F, s) \in Int /\ Reads(F, r) = Reads(F, s) + F[b]
    BY <1>1, <1>7, <2>1, ReadsAppend DEF r
  <2> QED
    BY <2>1, <2>2
<1> QED
  BY <1>8, <1>10, <1>11 DEF r, b, last, n

(* The last bucket is the one that time t falls in. *)
Holds(s, t) ==
  s # <<>> /\ s[Len(s)].start <= t /\ t < s[Len(s)].start + LinkBucketSize

SameReads(s, r) == \A F : Reading(F) => Reads(F, r) = Reads(F, s)

(* Buckets up to the present, or none at the beginning. *)
UpTo(s, t) == Bucketed(s) /\ (s = <<>> => t = 0) /\ (s # <<>> => s[Len(s)].start <= t)

(* The first bucket begins with the simulation. *)
LEMMA BegunIs ==
  ASSUME NEW s, NEW t \in Nat, UpTo(s, t)
  PROVE  /\ Bucketed(Begun(s, t)) /\ Begun(s, t) # <<>> /\ SameReads(s, Begun(s, t))
         /\ Begun(s, t)[Len(Begun(s, t))].start <= t
<1>1. CASE s # <<>>
  BY <1>1 DEF Begun, SameReads, UpTo
<1>2. CASE s = <<>>
  <2> DEFINE b == NewBucket(0, {})
             one == Append(<<>>, b)
  <2>1. {} \in SUBSET Int /\ 0 \in Nat
    OBVIOUS
  <2>2. b \in AnyBucket /\ b.start = 0 /\ b.egress = 0 /\ b.opps = 0
    BY <2>1, NewBucketIs
  <2>3. \A F : Reading(F) => F[b] = 0
    BY <2>1 DEF Reading
  <2>4. Begun(s, t) = one
    BY <1>2 DEF Begun, UpTo
  <2> HIDE DEF b
  <2>5. <<>> \in Seq(AnyBucket) /\ Len(<<>>) = 0
    BY EmptySeq
  <2>6. one \in Seq(AnyBucket) /\ one # <<>> /\ Len(one) = 0 + 1 /\ one[0 + 1] = b
    <3> DEFINE none == <<>>
    <3>1. none \in Seq(AnyBucket) /\ Len(none) = 0
      BY <2>5
    <3> HIDE DEF none
    <3>2. /\ Append(none, b) \in Seq(AnyBucket) /\ Append(none, b) # <<>>
          /\ Len(Append(none, b)) = Len(none) + 1 /\ Append(none, b)[Len(none) + 1] = b
      BY <2>2, <3>1, AppendProperties
    <3> QED
      BY <3>1, <3>2 DEF none
  <2>7. ASSUME NEW F, Reading(F) PROVE Reads(F, one) = Reads(F, s)
    <3>1. F \in [AnyBucket -> Nat]
      BY <2>7 DEF Reading
    <3>2. Reads(F, <<>>) \in Int /\ Reads(F, one) = Reads(F, <<>>) + F[b]
      BY <2>2, <2>5, <3>1, ReadsAppend
    <3> QED
      BY <1>2, <2>3, <2>7, <3>2
  <2> HIDE DEF one
  <2>8. Len(one) = 1 /\ one[1] = b
    BY <2>6
  <2>9. Bucketed(one)
    <3>1. ASSUME NEW k \in 1..Len(one)
          PROVE  /\ one[k].start = (k - 1) * LinkBucketSize
                 /\ PktSize <= TxOppBytes => one[k].egress <= one[k].opps
                 /\ k > 1 => DOMAIN one[k - 1].ingress \subseteq DOMAIN one[k].ingress
      <4>1. k = 1 /\ ~(k > 1) /\ (1 - 1) * LinkBucketSize = 0 /\ 0 <= 0
        BY <2>8, LinkStatsAssumption
      <4> QED
        BY <2>2, <2>8, <4>1
    <3> QED
      BY <2>6, <3>1 DEF Bucketed
  <2>10. one[Len(one)].start <= t
    BY <2>2, <2>8
  <2> QED
    BY <2>4, <2>6, <2>7, <2>9, <2>10 DEF SameReads
<1> QED
  BY <1>1, <1>2

(* Rolled adds the buckets up to the one that holds the present, and        *)
(* nothing to what they add up to.                                          *)
LEMMA RolledIs ==
  ASSUME NEW s, NEW t \in Nat, UpTo(s, t)
  PROVE  /\ Bucketed(Rolled(s, t)) /\ Holds(Rolled(s, t), t) /\ SameReads(s, Rolled(s, t))
         /\ Holds(s, t) => Rolled(s, t) = s
<1> DEFINE first == Begun(s, t)
           from == first[Len(first)].start
           d == t - from
           m == d \div LinkBucketSize
           l == Len(first)
<1>1. /\ Bucketed(first) /\ first # <<>> /\ SameReads(s, first) /\ from <= t
  BY BegunIs
<1>2. Holds(s, t) => first = s
  BY DEF Holds, Begun
<1>3. (d \div LinkBucketSize) \in Nat =>
        \E g, n : n = d \div LinkBucketSize /\ Rolls(g, first, n) /\ Rolled(s, t) = g[n]
  BY RolledRolls
<1> HIDE DEF first
<1>4. first \in Seq(AnyBucket) /\ l \in Nat /\ l \in 1..l
  BY <1>1, EmptySeq, LenProperties DEF Bucketed
<1>5. from \in Nat /\ from = (l - 1) * LinkBucketSize
  <2>1. first[l] \in AnyBucket
    BY <1>4, ElementOfSeq
  <2> QED
    BY <1>1, <1>4, <2>1, IngressType DEF Bucketed
<1> HIDE DEF from, l
<1>6. d \in Nat
  BY <1>1, <1>5
<1>7. /\ m \in Nat /\ d = LinkBucketSize * m + (d % LinkBucketSize)
      /\ d % LinkBucketSize \in 0..(LinkBucketSize - 1)
  <2> HIDE DEF d
  <2> QED
    BY <1>6, DivMod, LinkStatsAssumption
<1>8. PICK g : Rolls(g, first, m) /\ Rolled(s, t) = g[m]
  <2>1. (d \div LinkBucketSize) \in Nat
    BY <1>7
  <2> QED
    BY <1>3, <2>1
<1> HIDE DEF m, d
<1> DEFINE Fits(n) == Bucketed(g[n]) /\ g[n] # <<>> /\ Len(g[n]) = l + n /\ SameReads(first, g[n])
           Wrong == {n \in 0..m : ~Fits(n)}
<1>9. Wrong = {}
  <2>1. SUFFICES ASSUME Wrong # {} PROVE FALSE
    OBVIOUS
  <2> HIDE DEF Fits
  <2>2. PICK n \in Wrong : \A j \in Wrong : n <= j
    <3>1. Wrong \in SUBSET Nat
      OBVIOUS
    <3> HIDE DEF Wrong
    <3> QED
      BY <2>1, <3>1, LeastNat
  <2>3. n \in 0..m /\ ~Fits(n)
    BY <2>2
  <2>4. g[n] = IF n = 0 THEN first ELSE Append(g[n - 1], NextBucket(g[n - 1][Len(g[n - 1])]))
    BY <1>8, <2>3 DEF Rolls
  <2>5. n # 0
    <3>1. l + 0 = l /\ l = Len(first)
      BY <1>4 DEF l
    <3> QED
      BY <1>1, <2>3, <2>4, <3>1 DEF Fits, SameReads
  <2>6. n - 1 \in 0..m /\ n - 1 \notin Wrong
    BY <1>7, <2>2, <2>3, <2>5
  <2>7. Bucketed(g[n - 1]) /\ g[n - 1] # <<>> /\ Len(g[n - 1]) = l + (n - 1) /\ SameReads(first, g[n - 1])
    BY <2>6 DEF Fits
  <2>8. /\ Bucketed(g[n]) /\ Len(g[n]) = Len(g[n - 1]) + 1 /\ g[n] # <<>>
        /\ \A F : Reading(F) => Reads(F, g[n]) = Reads(F, g[n - 1])
    BY <2>4, <2>5, <2>7, NextRolls
  <2>9. Len(g[n]) = l + n
    BY <1>4, <2>3, <2>7, <2>8
  <2>10. SameReads(first, g[n])
    BY <2>7, <2>8 DEF SameReads
  <2> QED
    BY <2>3, <2>8, <2>9, <2>10 DEF Fits
<1>10. m \in 0..m
  BY <1>7
<1>11. Fits(m)
  BY <1>9, <1>10
<1> HIDE DEF Fits
<1> DEFINE r == g[m]
<1>12. Bucketed(r) /\ r # <<>> /\ Len(r) = l + m /\ SameReads(first, r)
  BY <1>11 DEF Fits
<1> HIDE DEF r
<1>13. r[Len(r)].start = ((l - 1) + m) * LinkBucketSize
  <2>1. Len(r) \in 1..Len(r) /\ Len(r) - 1 = (l - 1) + m
    BY <1>4, <1>7, <1>12
  <2> QED
    BY <1>12, <2>1 DEF Bucketed
<1>14. ((l - 1) + m) * LinkBucketSize = from + LinkBucketSize * m
  <2>1. LinkBucketSize \in Nat /\ l - 1 \in Nat
    BY <1>4, LinkStatsAssumption
  <2> QED
    BY <1>5, <1>7, <2>1
<1>15. Holds(r, t)
  <2> DEFINE e == LinkBucketSize * m
             x == d % LinkBucketSize
  <2>1. e \in Nat /\ LinkBucketSize \in Nat /\ x \in 0..(LinkBucketSize - 1) /\ d = e + x
    BY <1>7, LinkStatsAssumption
  <2>2. r[Len(r)].start = from + e
    BY <1>13, <1>14
  <2>3. t = from + d
    BY <1>1, <1>5 DEF d
  <2> HIDE DEF e, x
  <2> QED
    BY <1>5, <1>12, <2>1, <2>2, <2>3 DEF Holds
<1>16. SameReads(s, r)
  BY <1>1, <1>12 DEF SameReads
<1>17. ASSUME Holds(s, t) PROVE r = s
  <2>1. first = s
    BY <1>2, <1>17
  <2>2. t < from + LinkBucketSize
    BY <1>17, <2>1 DEF Holds, from
  <2>3. m = 0
    <3>1. LinkBucketSize \in Nat \ {0}
      BY LinkStatsAssumption
    <3>2. d < LinkBucketSize
      BY <1>5, <2>2, <3>1 DEF d
    <3>3. m # 0 => LinkBucketSize * m >= LinkBucketSize
      <4>1. m # 0 => m = (m - 1) + 1 /\ m - 1 \in Nat
        BY <1>7
      <4>2. m # 0 => ((m - 1) + 1) * LinkBucketSize = (m - 1) * LinkBucketSize + LinkBucketSize
                     /\ (m - 1) * LinkBucketSize \in Nat
        BY <3>1, <4>1, Products
      <4>3. LinkBucketSize * m = m * LinkBucketSize
        BY <1>7, <3>1
      <4> QED
        BY <3>1, <4>1, <4>2, <4>3
    <3> DEFINE e == LinkBucketSize * m
               x == d % LinkBucketSize
    <3>4. e \in Nat /\ x \in Nat /\ d = e + x
      BY <1>7, <3>1
    <3> HIDE DEF e, x
    <3>5. m # 0 => e >= LinkBucketSize
      BY <3>3 DEF e
    <3> QED
      BY <3>1, <3>2, <3>4, <3>5
  <2>4. g[0] = first
    BY <1>8, <1>10, <2>3 DEF Rolls
  <2> QED
    BY <2>1, <2>3, <2>4 DEF r
<1> QED
  BY <1>8, <1>12, <1>15, <1>16, <1>17 DEF r

(* The readings: opportunities, egress, and the ingress of one source. *)
OppsIn == [b \in AnyBucket |-> b.opps]

EgressIn == [b \in AnyBucket |-> b.egress]

IngressIn(src) ==
  [b \in AnyBucket |-> IF src \in DOMAIN b.ingress THEN b.ingress[src] ELSE 0]

(* They are readings: nothing of them is in a new bucket.                    *)
LEMMA ReadingsAre ==
  Reading(OppsIn) /\ Reading(EgressIn) /\ \A src \in Int : Reading(IngressIn(src))
<1>1. Reading(OppsIn) /\ Reading(EgressIn)
  BY IngressType, NewBucketIs DEF OppsIn, EgressIn, Reading
<1>2. ASSUME NEW src \in Int PROVE Reading(IngressIn(src))
  <2>1. \A b \in AnyBucket : (IF src \in DOMAIN b.ingress THEN b.ingress[src] ELSE 0) \in Nat
    BY IngressType
  <2>2. IngressIn(src) \in [AnyBucket -> Nat]
    BY <2>1 DEF IngressIn
  <2>3. ASSUME NEW start \in Nat, NEW D \in SUBSET Int
        PROVE  IngressIn(src)[NewBucket(start, D)] = 0
    <3>1. NewBucket(start, D).ingress = [a \in D |-> 0]
      BY DEF NewBucket
    <3>2. NewBucket(start, D) \in AnyBucket
      BY NewBucketIs
    <3> QED
      BY <3>1, <3>2 DEF IngressIn
  <2> QED
    BY <2>2, <2>3 DEF Reading
<1> QED
  BY <1>1, <1>2

(* Buckets u are buckets s with b in the place of the last one; and what is *)
(* more of b by some reading is more of them.                               *)
Exchanged(s, u, b, last) == \A F : Reading(F) => Reads(F, u) = Reads(F, s) + (F[b] - F[last])

Grows(s, u, b, last) ==
  \A F : Reading(F) => \A x \in Int : F[b] = F[last] + x => Reads(F, u) = Reads(F, s) + x

(* Another bucket in the place of the last one. *)
LEMMA LastReplaced ==
  ASSUME NEW s, NEW t \in Nat, Bucketed(s), Holds(s, t), NEW b \in AnyBucket,
         b.start = s[Len(s)].start, PktSize <= TxOppBytes => b.egress <= b.opps,
         DOMAIN s[Len(s)].ingress \subseteq DOMAIN b.ingress
  PROVE  /\ Bucketed(InLast(s, b)) /\ Holds(InLast(s, b), t)
         /\ Len(InLast(s, b)) = Len(s) /\ InLast(s, b)[Len(s)] = b
         /\ Exchanged(s, InLast(s, b), b, s[Len(s)])
<1> DEFINE n == Len(s)
           r == InLast(s, b)
<1>1. s \in Seq(AnyBucket) /\ s # <<>> /\ n \in Nat /\ n # 0 /\ n \in 1..n
  BY EmptySeq, LenProperties DEF Holds, Bucketed
<1>2. r \in Seq(AnyBucket) /\ Len(r) = n /\ \A k \in 1..n : r[k] = IF k = n THEN b ELSE s[k]
  BY <1>1, ExceptSeq DEF InLast
<1> HIDE DEF r
<1>3. r[n] = b /\ r # <<>>
  BY <1>1, <1>2, EmptySeq
<1>4. ASSUME NEW k \in 1..n
      PROVE  /\ r[k].start = (k - 1) * LinkBucketSize
             /\ PktSize <= TxOppBytes => r[k].egress <= r[k].opps
             /\ k > 1 => DOMAIN r[k - 1].ingress \subseteq DOMAIN r[k].ingress
  <2>1. /\ s[k].start = (k - 1) * LinkBucketSize
        /\ PktSize <= TxOppBytes => s[k].egress <= s[k].opps
        /\ k > 1 => DOMAIN s[k - 1].ingress \subseteq DOMAIN s[k].ingress
    BY DEF Bucketed
  <2>2. k > 1 => k - 1 \in 1..n /\ k - 1 # n
    BY <1>1
  <2>3. k > 1 => r[k - 1] = s[k - 1]
    BY <1>2, <2>2
  <2>4. CASE k = n
    BY <1>3, <2>1, <2>3, <2>4
  <2>5. CASE k # n
    BY <1>2, <2>1, <2>3, <2>5
  <2> QED
    BY <2>4, <2>5
<1>5. Bucketed(r)
  BY <1>2, <1>4 DEF Bucketed
<1>6. Holds(r, t)
  BY <1>2, <1>3 DEF Holds
<1>7. \A F : Reading(F) => Reads(F, InLast(s, b)) = Reads(F, s) + (F[b] - F[s[Len(s)]])
  BY <1>1, ReadsLast DEF Reading
<1> QED
  BY <1>2, <1>3, <1>5, <1>6, <1>7 DEF r, Exchanged

(* Adding to what is read of the last bucket adds to what is read of all.   *)
LEMMA ReadsMore ==
  ASSUME NEW s, NEW r, NEW u, SameReads(s, r), r \in Seq(AnyBucket),
         NEW b, NEW last \in AnyBucket, Exchanged(r, u, b, last)
  PROVE  Grows(s, u, b, last)
<1> SUFFICES ASSUME NEW F, Reading(F), NEW x \in Int, F[b] = F[last] + x
             PROVE  Reads(F, u) = Reads(F, s) + x
  BY DEF Grows
<1>1. F \in [AnyBucket -> Nat] /\ F[last] \in Nat
  BY DEF Reading
<1>2. Reads(F, r) = Reads(F, s)
  BY DEF SameReads
<1>3. Reads(F, r) \in Int
  BY <1>1, ReadsAppend
<1>4. Reads(F, u) = Reads(F, r) + (F[b] - F[last])
  BY DEF Exchanged
<1> QED
  BY <1>1, <1>2, <1>3, <1>4

(* A packet of size bytes that arrives from src.                            *)
LEMMA IngressLogged ==
  ASSUME NEW s, NEW t \in Nat, UpTo(s, t), NEW src \in Int, NEW size \in Nat
  PROVE  /\ Bucketed(LogIngress(s, t, src, size)) /\ Holds(LogIngress(s, t, src, size), t)
         /\ Reads(OppsIn, LogIngress(s, t, src, size)) = Reads(OppsIn, s)
         /\ Reads(EgressIn, LogIngress(s, t, src, size)) = Reads(EgressIn, s)
         /\ \A a \in Int : Reads(IngressIn(a), LogIngress(s, t, src, size)) =
                             Reads(IngressIn(a), s) + (IF a = src THEN size ELSE 0)
<1> DEFINE r == Rolled(s, t)
           last == r[Len(r)]
           D == DOMAIN last.ingress
           before == [a \in D \cup {src} |-> IF a \in D THEN last.ingress[a] ELSE 0]
           more == [before EXCEPT ![src] = @ + size]
           b == [last EXCEPT !.ingress = more]
           u == InLast(r, b)
<1>1. LogIngress(s, t, src, size) = u
  BY DEF LogIngress
<1>2. Bucketed(r) /\ Holds(r, t) /\ SameReads(s, r)
  BY RolledIs
<1> HIDE DEF r
<1>3. r \in Seq(AnyBucket) /\ last \in AnyBucket
  <2>1. r \in Seq(AnyBucket) /\ Len(r) \in 1..Len(r)
    BY <1>2, EmptySeq, LenProperties DEF Bucketed, Holds
  <2> QED
    BY <2>1, ElementOfSeq
<1> HIDE DEF last
<1>4. D \in SUBSET Int /\ \A a \in D : last.ingress[a] \in Nat
  BY <1>3, IngressType
<1>5. before \in [D \cup {src} -> Nat]
  BY <1>4
<1>6. /\ more \in [D \cup {src} -> Nat] /\ DOMAIN more = D \cup {src}
      /\ \A a \in D \cup {src} : more[a] = (IF a \in D THEN last.ingress[a] ELSE 0)
                                             + (IF a = src THEN size ELSE 0)
  <2>1. \A a \in D \cup {src} : more[a] = IF a = src THEN before[a] + size ELSE before[a]
    OBVIOUS
  <2>2. DOMAIN more = D \cup {src} /\ more = [a \in D \cup {src} |-> more[a]]
    OBVIOUS
  <2>3. \A a \in D \cup {src} : before[a] = IF a \in D THEN last.ingress[a] ELSE 0
    OBVIOUS
  <2> HIDE DEF more, before
  <2>4. \A a \in D \cup {src} : before[a] \in Nat
    BY <1>5
  <2>5. \A a \in D \cup {src} : more[a] \in Nat
    BY <2>1, <2>4
  <2>6. more \in [D \cup {src} -> Nat]
    BY <2>2, <2>5
  <2> QED
    BY <2>1, <2>2, <2>3, <2>4, <2>6
<1> HIDE DEF more, before
<1>8. /\ b \in AnyBucket /\ b.start = last.start /\ b.opps = last.opps /\ b.egress = last.egress
      /\ b.ingress = more
  <2>1. D \cup {src} \in SUBSET Int
    BY <1>4
  <2> DEFINE E == D \cup {src}
  <2>2. more \in [E -> Nat] /\ E \in SUBSET Int
    BY <1>6, <2>1
  <2> HIDE DEF D, E
  <2> QED
    BY <1>3, <2>2, IngressChanged
<1> HIDE DEF b
<1>9. PktSize <= TxOppBytes => b.egress <= b.opps
  <2>1. Len(r) \in 1..Len(r)
    BY <1>2, <1>3, EmptySeq, LenProperties DEF Holds
  <2>2. PktSize <= TxOppBytes => last.egress <= last.opps
    BY <1>2, <2>1 DEF Bucketed, last
  <2> QED
    BY <1>8, <2>2
<1>10. D \subseteq DOMAIN b.ingress
  BY <1>6, <1>8
<1>11. /\ Bucketed(u) /\ Holds(u, t)
       /\ Exchanged(r, u, b, last)
  BY <1>2, <1>8, <1>9, <1>10, LastReplaced DEF last
<1> HIDE DEF u
<1>12. OppsIn[b] = OppsIn[last] /\ EgressIn[b] = EgressIn[last] /\ OppsIn[last] \in Nat /\ EgressIn[last] \in Nat
  BY <1>3, <1>8, IngressType DEF OppsIn, EgressIn
<1>12a. Grows(s, u, b, last)
  BY <1>2, <1>3, <1>11, ReadsMore
<1>12b. 0 \in Int /\ OppsIn[b] = OppsIn[last] + 0 /\ EgressIn[b] = EgressIn[last] + 0
  BY <1>12
<1>13. Reads(OppsIn, u) = Reads(OppsIn, s) + 0 /\ Reads(EgressIn, u) = Reads(EgressIn, s) + 0
  BY <1>12a, <1>12b, ReadingsAre DEF Grows
<1>14. ASSUME NEW a \in Int
       PROVE  Reads(IngressIn(a), u) = Reads(IngressIn(a), s) + (IF a = src THEN size ELSE 0)
  <2> DEFINE x == IF a = src THEN size ELSE 0
  <2>1. Reading(IngressIn(a)) /\ x \in Int
    BY ReadingsAre
  <2>2. IngressIn(a)[b] = IngressIn(a)[last] + x
    <3>1. IngressIn(a)[b] = IF a \in D \cup {src} THEN more[a] ELSE 0
      BY <1>6, <1>8 DEF IngressIn
    <3>2. IngressIn(a)[last] = IF a \in D THEN last.ingress[a] ELSE 0
      BY <1>3 DEF IngressIn
    <3>3. CASE a \in D \cup {src}
      BY <1>6, <3>1, <3>2, <3>3
    <3>4. CASE a \notin D \cup {src}
      BY <3>1, <3>2, <3>4
    <3> QED
      BY <3>3, <3>4
  <2> HIDE DEF x
  <2> QED
    BY <1>12a, <2>1, <2>2 DEF x, Grows
<1>15. Reads(OppsIn, s) \in Int /\ Reads(EgressIn, s) \in Int
  <2>1. s \in Seq(AnyBucket) /\ last \in AnyBucket
    BY <1>3 DEF UpTo, Bucketed
  <2> QED
    BY <2>1, ReadingsAre, ReadsAppend DEF Reading
<1> QED
  BY <1>1, <1>11, <1>13, <1>14, <1>15

(* The last bucket has room for one more packet. *)
RoomIn(s) == PktSize <= TxOppBytes => s[Len(s)].egress + PktSize <= s[Len(s)].opps

(* What two buckets with the same sources are read as. *)
LEMMA SameIngress ==
  ASSUME NEW b \in AnyBucket, NEW c \in AnyBucket, b.ingress = c.ingress, NEW a \in Int
  PROVE  IngressIn(a)[b] = IngressIn(a)[c] + 0
<1>1. IngressIn(a)[b] = IngressIn(a)[c]
  BY DEF IngressIn
<1>2. IngressIn(a)[c] \in Nat
  BY ReadingsAre DEF Reading
<1> QED
  BY <1>1, <1>2

(* An opportunity. *)
LEMMA OpportunityLogged ==
  ASSUME NEW s, NEW t \in Nat, UpTo(s, t)
  PROVE  /\ Bucketed(LogOpportunity(s, t)) /\ Holds(LogOpportunity(s, t), t)
         /\ RoomIn(LogOpportunity(s, t))
         /\ Reads(OppsIn, LogOpportunity(s, t)) = Reads(OppsIn, s) + TxOppBytes
         /\ Reads(EgressIn, LogOpportunity(s, t)) = Reads(EgressIn, s)
         /\ \A a \in Int : Reads(IngressIn(a), LogOpportunity(s, t)) = Reads(IngressIn(a), s)
<1> DEFINE r == Rolled(s, t)
           last == r[Len(r)]
           b == [last EXCEPT !.opps = @ + TxOppBytes]
           u == InLast(r, b)
<1>1. LogOpportunity(s, t) = u
  BY DEF LogOpportunity, InLast
<1>2. Bucketed(r) /\ Holds(r, t) /\ SameReads(s, r)
  BY RolledIs
<1> HIDE DEF r
<1>3. r \in Seq(AnyBucket) /\ last \in AnyBucket /\ Len(r) \in 1..Len(r)
  <2>1. r \in Seq(AnyBucket) /\ Len(r) \in 1..Len(r)
    BY <1>2, EmptySeq, LenProperties DEF Bucketed, Holds
  <2> QED
    BY <2>1, ElementOfSeq
<1>4. PktSize <= TxOppBytes => last.egress <= last.opps
  BY <1>2, <1>3 DEF Bucketed
<1> HIDE DEF last
<1>5. TxOppBytes \in Nat /\ PktSize \in Nat
  BY LinkStatsAssumption, TraceAssumption
<1>6. /\ b \in AnyBucket /\ b.start = last.start /\ b.opps = last.opps + TxOppBytes
      /\ b.egress = last.egress /\ b.ingress = last.ingress
  BY <1>3, <1>5, CountChanged
<1> HIDE DEF b
<1>7. last.opps \in Nat /\ last.egress \in Nat
  BY <1>3, IngressType
<1>8. PktSize <= TxOppBytes => b.egress <= b.opps /\ b.egress + PktSize <= b.opps
  BY <1>4, <1>5, <1>6, <1>7
<1>9. /\ Bucketed(u) /\ Holds(u, t) /\ Len(u) = Len(r) /\ u[Len(r)] = b
      /\ Exchanged(r, u, b, last)
  BY <1>2, <1>6, <1>8, LastReplaced DEF last
<1> HIDE DEF u
<1>10. RoomIn(u)
  BY <1>8, <1>9 DEF RoomIn
<1>11. /\ OppsIn[b] = OppsIn[last] + TxOppBytes /\ EgressIn[b] = EgressIn[last] + 0
       /\ \A a \in Int : IngressIn(a)[b] = IngressIn(a)[last] + 0
  <2>1. OppsIn[b] = b.opps /\ OppsIn[last] = last.opps
        /\ EgressIn[b] = b.egress /\ EgressIn[last] = last.egress
    BY <1>3, <1>6 DEF OppsIn, EgressIn
  <2>2. \A a \in Int : IngressIn(a)[b] = IngressIn(a)[last] + 0
    BY <1>3, <1>6, SameIngress
  <2> QED
    BY <1>6, <1>7, <2>1, <2>2
<1>11a. Grows(s, u, b, last)
  BY <1>2, <1>3, <1>9, ReadsMore
<1>11b. 0 \in Int /\ TxOppBytes \in Int
  BY <1>5
<1>12. Reads(OppsIn, u) = Reads(OppsIn, s) + TxOppBytes
  BY <1>11, <1>11a, <1>11b, ReadingsAre DEF Grows
<1>13. Reads(EgressIn, u) = Reads(EgressIn, s) + 0
  BY <1>11, <1>11a, <1>11b, ReadingsAre DEF Grows
<1>14. \A a \in Int : Reads(IngressIn(a), u) = Reads(IngressIn(a), s) + 0
  BY <1>11, <1>11a, <1>11b, ReadingsAre DEF Grows
<1>15. Reads(EgressIn, s) \in Int /\ \A a \in Int : Reads(IngressIn(a), s) \in Int
  <2>1. s \in Seq(AnyBucket)
    BY DEF UpTo, Bucketed
  <2> QED
    BY <1>3, <2>1, ReadingsAre, ReadsAppend DEF Reading
<1> QED
  BY <1>1, <1>9, <1>10, <1>12, <1>13, <1>14, <1>15

(* A packet that leaves, where there is room. *)
LEMMA EgressLogged ==
  ASSUME NEW s, NEW t \in Nat, Bucketed(s), Holds(s, t), RoomIn(s)
  PROVE  /\ Bucketed(LogEgress(s, t, PktSize)) /\ Holds(LogEgress(s, t, PktSize), t)
         /\ Reads(OppsIn, LogEgress(s, t, PktSize)) = Reads(OppsIn, s)
         /\ Reads(EgressIn, LogEgress(s, t, PktSize)) = Reads(EgressIn, s) + PktSize
         /\ \A a \in Int : Reads(IngressIn(a), LogEgress(s, t, PktSize)) = Reads(IngressIn(a), s)
<1> DEFINE last == s[Len(s)]
           b == [last EXCEPT !.egress = @ + PktSize]
           u == InLast(s, b)
<1>1. LogEgress(s, t, PktSize) = u
  <2>1. UpTo(s, t)
    BY DEF UpTo, Holds
  <2>2. Rolled(s, t) = s
    BY <2>1, RolledIs
  <2> QED
    BY <2>2 DEF LogEgress, InLast
<1>2. SameReads(s, s)
  BY DEF SameReads
<1>3. s \in Seq(AnyBucket) /\ last \in AnyBucket
  <2>1. s \in Seq(AnyBucket) /\ Len(s) \in 1..Len(s)
    BY EmptySeq, LenProperties DEF Bucketed, Holds
  <2> QED
    BY <2>1, ElementOfSeq
<1>4. PktSize <= TxOppBytes => last.egress + PktSize <= last.opps
  BY DEF RoomIn
<1> HIDE DEF last
<1>5. PktSize \in Nat
  BY TraceAssumption
<1>6. /\ b \in AnyBucket /\ b.start = last.start /\ b.opps = last.opps
      /\ b.egress = last.egress + PktSize /\ b.ingress = last.ingress
  BY <1>3, <1>5, CountChanged
<1> HIDE DEF b
<1>7. last.opps \in Nat /\ last.egress \in Nat
  BY <1>3, IngressType
<1>8. PktSize <= TxOppBytes => b.egress <= b.opps
  BY <1>4, <1>6
<1>9. /\ Bucketed(u) /\ Holds(u, t)
      /\ Exchanged(s, u, b, last)
  BY <1>6, <1>8, LastReplaced DEF last
<1> HIDE DEF u
<1>10. /\ OppsIn[b] = OppsIn[last] + 0 /\ EgressIn[b] = EgressIn[last] + PktSize
       /\ \A a \in Int : IngressIn(a)[b] = IngressIn(a)[last] + 0
  <2>1. OppsIn[b] = b.opps /\ OppsIn[last] = last.opps
        /\ EgressIn[b] = b.egress /\ EgressIn[last] = last.egress
    BY <1>3, <1>6 DEF OppsIn, EgressIn
  <2>2. \A a \in Int : IngressIn(a)[b] = IngressIn(a)[last] + 0
    BY <1>3, <1>6, SameIngress
  <2> QED
    BY <1>6, <1>7, <2>1, <2>2
<1>10a. Grows(s, u, b, last)
  BY <1>2, <1>3, <1>9, ReadsMore
<1>10b. 0 \in Int /\ PktSize \in Int
  BY <1>5
<1>11. Reads(EgressIn, u) = Reads(EgressIn, s) + PktSize
  BY <1>10, <1>10a, <1>10b, ReadingsAre DEF Grows
<1>12. Reads(OppsIn, u) = Reads(OppsIn, s) + 0
  BY <1>10, <1>10a, <1>10b, ReadingsAre DEF Grows
<1>13. \A a \in Int : Reads(IngressIn(a), u) = Reads(IngressIn(a), s) + 0
  BY <1>10, <1>10a, <1>10b, ReadingsAre DEF Grows
<1>14. Reads(OppsIn, s) \in Int /\ \A a \in Int : Reads(IngressIn(a), s) \in Int
  BY <1>3, ReadingsAre, ReadsAppend DEF Reading
<1> QED
  BY <1>1, <1>9, <1>11, <1>12, <1>13, <1>14

-----------------------------------------------------------------------------
(* The buckets account for what the network has done.                       *)

ReachedBytes == [n \in 1..NumFlows |-> Reached(n - 1) * PktSize]

TraceInv ==
  /\ Bucketed(linkStats) /\ (linkStats = <<>> => opps = 0)
  /\ linkStats # <<>> => linkStats[Len(linkStats)].start <= now
  /\ Reads(OppsIn, linkStats) = opps * TxOppBytes
  /\ \A f \in Flows : Reads(IngressIn(SenderAddrOf(f)), linkStats) = Reached(f) * PktSize
  /\ bufsize.kind = "Infinite" =>
       Reads(EgressIn, linkStats) + Len(buffer) * PktSize = Total(ReachedBytes)

(* The flow's packets that reached the link are as the property counts them.*)
LEMMA ReachedIs ==
  ASSUME Typed, NEW f \in Flows
  PROVE  Arrived(f) = Reached(f) /\ Reached(f) \in Int
<1>1. ASSUME NEW kind
      PROVE  Len(AtKind(kind, f)) = Len(Queue(kind, f)) /\ Len(Queue(kind, f)) \in Nat
  <2> DEFINE S == PushesAt(kind, f)
             s == Chosen(agenda, S)
  <2>1. agenda \in Seq(Actions)
    BY DEF Typed
  <2> HIDE DEF S
  <2>2. s \in Seq(Actions)
    <3>1. s \in Seq(Actions \cap S)
      BY <2>1, ChosenType
    <3> QED
      BY <3>1, SeqMonotonic
  <2>3. AtKind(kind, f) = s /\ Queue(kind, f) = SeqsOf(s)
    BY DEF AtKind, Queue, S
  <2> HIDE DEF s
  <2>4. SeqsOf(s) = Mapped(SeqIn, s)
    BY <2>2, SeqsOfMapped
  <2>5. Maps(SeqIn, s, Mapped(SeqIn, s))
    BY <2>2, SeqInType, MappedType
  <2> QED
    BY <2>2, <2>3, <2>4, <2>5, LenProperties DEF Maps
<1>2. sent[f] \in Nat
  BY NetworkAssumption DEF Typed
<1> QED
  BY <1>1, <1>2 DEF Arrived, Reached

(* IngressOf finds the address of the flow's sender. *)
LEMMA IngressOfIs ==
  ASSUME linkStats \in Seq(AnyBucket), NEW f \in Flows
  PROVE  IngressOf(f) = Reads(IngressIn(SenderAddrOf(f)), linkStats)
<1> DEFINE from == CHOOSE obj \in {Obj(id) : id \in Ids} : obj.kind = "Sender" /\ obj.flow = f
           it == Obj(SenderOf(f))
           a == SenderAddrOf(f)
<1>1. \A kind, flow, addr, next, dest :
        /\ Object(kind, flow, addr, next, dest).kind = kind
        /\ Object(kind, flow, addr, next, dest).flow = flow
        /\ Object(kind, flow, addr, next, dest).addr = addr
  BY DEF Object
<1>2. it.kind = "Sender" /\ it.flow = f /\ it.addr = a /\ SenderOf(f) \in Ids
  <2>1. it.kind = "Sender" /\ it.flow = f /\ it.addr = a
    BY <1>1, ObjectsAre
  <2>2. SenderOf(f) \in Ids
    BY PlacesAre DEF Kinds, PlaceOf
  <2> QED
    BY <2>1, <2>2
<1>3. \A id \in Ids : Obj(id).kind = "Sender" /\ Obj(id).flow = f => id = SenderOf(f)
  <2> SUFFICES ASSUME NEW id \in Ids, Obj(id).kind = "Sender", Obj(id).flow = f
               PROVE  id = SenderOf(f)
    OBVIOUS
  <2>1. Obj(LinkId).kind = "Link" /\ Obj(RouterId).kind = "Router"
    BY <1>1, ObjectsAre
  <2>2. id # LinkId /\ id # RouterId
    BY <2>1
  <2>3. PICK g \in Flows : id \in {SenderOf(g), DelayOf(g), AggOf(g), AckerOf(g)}
    BY <2>2, EveryId
  <2>4. /\ Obj(SenderOf(g)).kind = "Sender" /\ Obj(SenderOf(g)).flow = g
        /\ Obj(DelayOf(g)).kind = "Delay" /\ Obj(AggOf(g)).kind = "Aggregator"
        /\ Obj(AckerOf(g)).kind = "Acker"
    BY <1>1, ObjectsAre
  <2> QED
    BY <2>3, <2>4
<1>4. from = it
  <2>1. it \in {Obj(id) : id \in Ids}
    BY <1>2
  <2>2. \A obj \in {Obj(id) : id \in Ids} : obj.kind = "Sender" /\ obj.flow = f => obj = it
    BY <1>3
  <2> HIDE DEF it
  <2> QED
    BY <1>2, <2>1, <2>2
<1> HIDE DEF it
<1>5. IngressOf(f) = Total([k \in DOMAIN linkStats |->
                       IF from.addr \in DOMAIN linkStats[k].ingress
                       THEN linkStats[k].ingress[from.addr] ELSE 0])
  BY DEF IngressOf
<1> HIDE DEF from
<1>6. \A k \in DOMAIN linkStats : linkStats[k] \in AnyBucket
  BY LenProperties, ElementOfSeq
<1>7. \A k \in DOMAIN linkStats :
        IngressIn(a)[linkStats[k]] = IF a \in DOMAIN linkStats[k].ingress
                                     THEN linkStats[k].ingress[a] ELSE 0
  BY <1>6 DEF IngressIn
<1>8. Mapped(IngressIn(a), linkStats) =
        [k \in DOMAIN linkStats |-> IF a \in DOMAIN linkStats[k].ingress
                                    THEN linkStats[k].ingress[a] ELSE 0]
  BY <1>7 DEF Mapped
<1> QED
  BY <1>2, <1>4, <1>5, <1>8 DEF Reads

(* The other sums of the property. *)
LEMMA InBucketsIs ==
  ASSUME linkStats \in Seq(AnyBucket)
  PROVE  InBuckets("opps") = Reads(OppsIn, linkStats) /\ InBuckets("egress") = Reads(EgressIn, linkStats)
<1>1. \A k \in DOMAIN linkStats : linkStats[k] \in AnyBucket
  BY LenProperties, ElementOfSeq
<1>2. \A k \in DOMAIN linkStats : /\ OppsIn[linkStats[k]] = linkStats[k]["opps"]
                                 /\ EgressIn[linkStats[k]] = linkStats[k]["egress"]
  BY <1>1 DEF OppsIn, EgressIn
<1>3. /\ Mapped(OppsIn, linkStats) = [k \in DOMAIN linkStats |-> linkStats[k]["opps"]]
      /\ Mapped(EgressIn, linkStats) = [k \in DOMAIN linkStats |-> linkStats[k]["egress"]]
  BY <1>2 DEF Mapped
<1> QED
  BY <1>3 DEF Reads, InBuckets

(* The bytes that reached the link, flow by flow. *)
LEMMA BytesType ==
  ASSUME \A f \in Flows : Reached(f) \in Int
  PROVE  /\ ReachedBytes \in Seq(Int) /\ Len(ReachedBytes) = NumFlows
         /\ \A n \in 1..NumFlows : n - 1 \in Flows /\ ReachedBytes[n] = Reached(n - 1) * PktSize
<1>1. NumFlows \in Nat /\ PktSize \in Nat
  BY NumFlowsAssumption, TraceAssumption
<1>2. \A n \in 1..NumFlows : n - 1 \in Flows
  BY <1>1 DEF Flows
<1>3. \A n \in 1..NumFlows : Reached(n - 1) * PktSize \in Int
  BY <1>1, <1>2
<1>4. ReachedBytes \in [1..NumFlows -> Int] /\ DOMAIN ReachedBytes = 1..NumFlows
  BY <1>3 DEF ReachedBytes
<1>5. ReachedBytes \in Seq(Int)
  <2>1. ReachedBytes \in UNION {[1..m -> Int] : m \in Nat}
    BY ONLY <1>1, <1>4
  <2> QED
    BY ONLY <2>1, SeqDef
<1>6. Len(ReachedBytes) = NumFlows
  BY <1>1, <1>4, <1>5, LenProperties
<1> QED
  BY <1>2, <1>5, <1>6 DEF ReachedBytes

(* When an action runs, the buckets reach up to then; before the first      *)
(* opportunity no time passes, as it is due at the beginning.               *)
LEMMA Present ==
  ASSUME NetInv, TraceInv, NEW i \in DOMAIN agenda, IsNext(i)
  PROVE  agenda[i].when \in Nat /\ now <= agenda[i].when /\ UpTo(linkStats, agenda[i].when)
<1>1. Typed /\ Scheduled /\ InOrder /\ LinkReady
  BY DEF NetInv
<1>2. agenda[i].when \in Nat /\ agenda[i].when \in now..Till
      /\ \A j \in DOMAIN agenda : agenda[i].when <= agenda[j].when
  BY <1>1, NextIs
<1>3. now \in Nat
  BY <1>1, NetworkAssumption DEF Typed
<1>4. opps = 0 => agenda[i].when = 0
  <2>1. opps = 0 => \E j \in DOMAIN agenda : agenda[j].when = 0
    BY <1>1 DEF LinkReady, OnSchedule
  <2> QED
    BY <1>2, <2>1
<1>5. linkStats # <<>> => linkStats[Len(linkStats)].start <= agenda[i].when
  <2>1. ASSUME linkStats # <<>> PROVE linkStats[Len(linkStats)].start \in Nat
    <3>1. linkStats \in Seq(AnyBucket) /\ Len(linkStats) \in 1..Len(linkStats)
      BY <2>1, EmptySeq, LenProperties DEF TraceInv, Bucketed
    <3>2. linkStats[Len(linkStats)] \in AnyBucket
      BY <3>1, ElementOfSeq
    <3> QED
      BY <3>2, IngressType
  <2> QED
    BY <1>2, <1>3, <2>1 DEF TraceInv
<1> QED
  BY <1>2, <1>3, <1>4, <1>5 DEF UpTo, TraceInv

(* A step that leaves link, buffer and buckets alone. *)
LEMMA QuietTraced ==
  ASSUME NetInv, TraceInv, UNCHANGED <<bufsize, buffer, linkStats, opps>>,
         now \in Nat, now' \in Nat, now <= now', \A f \in Flows : SameReached(f)
  PROVE  TraceInv'
<1>1. ReachedBytes' = ReachedBytes
  <2>1. \A n \in 1..NumFlows : n - 1 \in Flows
    BY NumFlowsAssumption DEF Flows
  <2>2. \A n \in 1..NumFlows : Reached(n - 1)' = Reached(n - 1)
    BY <2>1 DEF SameReached
  <2> QED
    BY <2>2 DEF ReachedBytes
<1>2. \A f \in Flows : Reached(f)' = Reached(f)
  BY DEF SameReached
<1>3. linkStats' = linkStats /\ opps' = opps /\ buffer' = buffer /\ bufsize' = bufsize
  OBVIOUS
<1>4. linkStats # <<>> => linkStats[Len(linkStats)].start <= now'
  <2>1. ASSUME linkStats # <<>> PROVE linkStats[Len(linkStats)].start \in Nat
    <3>1. linkStats \in Seq(AnyBucket) /\ Len(linkStats) \in 1..Len(linkStats)
      BY <2>1, EmptySeq, LenProperties DEF TraceInv, Bucketed
    <3>2. linkStats[Len(linkStats)] \in AnyBucket
      BY <3>1, ElementOfSeq
    <3> QED
      BY <3>2, IngressType
  <2> QED
    BY <2>1 DEF TraceInv
<1>5. /\ Bucketed(linkStats) /\ (linkStats = <<>> => opps = 0)
      /\ Reads(OppsIn, linkStats) = opps * TxOppBytes
      /\ \A f \in Flows : Reads(IngressIn(SenderAddrOf(f)), linkStats) = Reached(f) * PktSize
      /\ bufsize.kind = "Infinite" =>
           Reads(EgressIn, linkStats) + Len(buffer) * PktSize = Total(ReachedBytes)
  BY DEF TraceInv
<1> QED
  BY <1>1, <1>2, <1>3, <1>4, <1>5 DEF TraceInv

(* Link::push: one packet more has reached the link, and is in the buckets. *)
LEMMA LinkPushTraced ==
  ASSUME NetInv, TraceInv, NEW i \in DOMAIN agenda, LinkQueues(i) \/ LinkDrops(i)
  PROVE  TraceInv'
<1> DEFINE t == agenda[i].when
           src == agenda[i].pkt.src
           x == agenda[i].pkt.seq
           s == LogIngress(linkStats, t, src, PktSize)
<1>1. /\ Runs(i, "Link", "Push") /\ Returns(i, <<>>) /\ sent' = sent /\ linkStats' = s
      /\ opps' = opps /\ bufsize' = bufsize
      /\ \/ buffer' = Append(buffer, agenda[i].pkt)
         \/ bufsize.kind = "Finite" /\ buffer' = buffer
  BY DEF LinkQueues, LinkDrops, LinkLogsIngress, BufferFull
<1>2. now' = t /\ "Link" \in Kinds
  BY <1>1 DEF Returns, Kinds
<1>3. (\E f \in Flows : agenda[i] \in At("Link", f)) /\ IsNext(i)
  BY <1>1, <1>2, PushRuns
<1>4. PICK f \in Flows : agenda[i] \in At("Link", f)
  BY <1>3
<1>5. agenda[i].pkt \in DataOf(f) /\ agenda[i].pkt \in Packets /\ src = SenderAddrOf(f)
  <2>1. agenda[i].pkt \in LoadOf("Link", f)
    BY <1>2, <1>4, AtIs
  <2> QED
    BY <2>1 DEF LoadOf, DataOf
<1>6. /\ buffer \in Seq(Packets) /\ Len(buffer) \in Nat /\ PktSize \in Nat /\ src \in Int
      /\ \A g \in Flows : SenderAddrOf(g) \in Int
  BY <1>5, LenProperties, NumFlowsAssumption, TraceAssumption
     DEF NetInv, Typed, Packets, SenderAddrOf, Flows
<1>7. /\ buffer' \in Seq(Packets)
      /\ bufsize.kind = "Infinite" => Len(buffer') = Len(buffer) + 1
  BY <1>1, <1>5, <1>6, AppendProperties
<1>8. Goes("Link", f, x) /\ x \in Nat
  BY <1>1, <1>2, <1>3, <1>4, <1>7, NothingGoes
<1>9. t \in Nat /\ UpTo(linkStats, t)
  BY <1>3, Present
<1> HIDE DEF t, src, x
<1>10. /\ Bucketed(s) /\ Holds(s, t) /\ Reads(OppsIn, s) = Reads(OppsIn, linkStats)
       /\ Reads(EgressIn, s) = Reads(EgressIn, linkStats)
       /\ \A a \in Int : Reads(IngressIn(a), s) =
                           Reads(IngressIn(a), linkStats) + (IF a = src THEN PktSize ELSE 0)
  BY <1>6, <1>9, IngressLogged
<1> HIDE DEF s
<1>11. \A g \in Flows : /\ Reached(g) \in Int
                        /\ Reached(g)' = Reached(g) + (IF g = f THEN 1 ELSE 0)
  <2> SUFFICES ASSUME NEW g \in Flows
               PROVE  /\ Reached(g) \in Int
                      /\ Reached(g)' = Reached(g) + (IF g = f THEN 1 ELSE 0)
    OBVIOUS
  <2>1. Reached(g) \in Int
    BY ReachedIs DEF NetInv
  <2>2. CASE g # f
    <3>1. Stays("Delay", g) /\ Stays("Link", g) /\ sent'[g] = sent[g]
      BY <1>1, <1>8, <2>2 DEF Goes, Kinds
    <3>2. Reached(g)' = Reached(g)
      BY <3>1, ReachedStays DEF SameReached
    <3> QED
      BY <2>1, <2>2, <3>2
  <2>3. CASE g = f
    <3> DEFINE d == Len(Queue("Delay", f))
               l == Len(Queue("Link", f))
               l1 == Len(Queue("Link", f)')
               n == sent[f]
    <3>1. Stays("Delay", f) /\ Loses("Link", f, x) /\ PathTyped(f)
      BY <1>8 DEF Goes, Kinds
    <3>2. Queue("Link", f)' \in Seq(Nat) /\ Queue("Delay", f) \in Seq(Nat)
      BY <3>1 DEF PathTyped, Kinds
    <3>3. l = l1 + 1 /\ l1 \in Nat /\ d \in Nat
      BY <1>8, <3>1, <3>2, QueueLengths, LenProperties DEF Loses
    <3>4. n \in Nat
      BY NetworkAssumption DEF NetInv, Typed
    <3>5. Reached(f) = n - d - l /\ Reached(f)' = n - d - l1
      BY <1>1, <3>1 DEF Reached, Stays
    <3> HIDE DEF d, l, l1, n
    <3>6. n - d - l1 = (n - d - l) + 1
      BY <3>3, <3>4
    <3> QED
      BY <2>1, <2>3, <3>5, <3>6
  <2> QED
    BY <2>2, <2>3
<1>12. \A g \in Flows : Reached(g)' * PktSize = Reached(g) * PktSize + (IF g = f THEN PktSize ELSE 0)
  <2>1. ASSUME NEW y \in Int
        PROVE  (y + 1) * PktSize = y * PktSize + PktSize /\ (y + 0) * PktSize = y * PktSize + 0
    BY <1>6
  <2> QED
    BY <1>11, <2>1
<1>13. \A g \in Flows : Reads(IngressIn(SenderAddrOf(g)), s) = Reached(g)' * PktSize
  <2> SUFFICES ASSUME NEW g \in Flows
               PROVE  Reads(IngressIn(SenderAddrOf(g)), s) = Reached(g)' * PktSize
    OBVIOUS
  <2>1. SenderAddrOf(g) = src <=> g = f
    BY <1>5 DEF SenderAddrOf, Flows
  <2>2. Reads(IngressIn(SenderAddrOf(g)), s) =
          Reads(IngressIn(SenderAddrOf(g)), linkStats) + (IF g = f THEN PktSize ELSE 0)
    BY <1>6, <1>10, <2>1
  <2>3. Reads(IngressIn(SenderAddrOf(g)), linkStats) = Reached(g) * PktSize
    BY DEF TraceInv
  <2> QED
    BY <1>12, <2>2, <2>3
<1>14. Total(ReachedBytes) \in Int /\ Total(ReachedBytes') = Total(ReachedBytes) + PktSize
  <2> DEFINE q == ReachedBytes
             r == ReachedBytes'
  <2>1. /\ q \in Seq(Int) /\ Len(q) = NumFlows
        /\ \A n \in 1..NumFlows : n - 1 \in Flows /\ q[n] = Reached(n - 1) * PktSize
    BY <1>11, BytesType
  <2>2. \A n \in 1..NumFlows : r[n] = IF n = f + 1 THEN q[n] + PktSize ELSE q[n]
    <3> SUFFICES ASSUME NEW n \in 1..NumFlows
                 PROVE  r[n] = IF n = f + 1 THEN q[n] + PktSize ELSE q[n]
      OBVIOUS
    <3>1. n - 1 \in Flows /\ q[n] = Reached(n - 1) * PktSize
      BY <2>1
    <3>2. r[n] = Reached(n - 1)' * PktSize
      BY DEF ReachedBytes
    <3>3. n - 1 = f <=> n = f + 1
      BY DEF Flows
    <3>4. q[n] \in Int
      BY <1>6, <1>11, <3>1
    <3> HIDE DEF q, r
    <3> QED
      BY <1>12, <3>1, <3>2, <3>3, <3>4
  <2>3. DOMAIN r = 1..NumFlows
    BY DEF ReachedBytes
  <2>4. r = [n \in 1..NumFlows |-> r[n]]
    BY DEF ReachedBytes
  <2> HIDE DEF q, r
  <2>5. \A n \in 1..NumFlows : q[n] \in Int
    BY <2>1, ElementOfSeq
  <2>6. r \in [1..NumFlows -> Int]
    BY <1>6, <2>2, <2>4, <2>5
  <2>7. NumFlows \in Nat
    BY NumFlowsAssumption
  <2>8. r \in Seq(Int)
    <3>1. r \in UNION {[1..m -> Int] : m \in Nat}
      BY ONLY <2>6, <2>7
    <3> QED
      BY ONLY <3>1, SeqDef
  <2>9. Len(r) = Len(q)
    BY <2>1, <2>3, <2>7, <2>8, LenProperties
  <2>10. f + 1 \in 1..Len(q) /\ PktSize \in Int
    BY <1>6, <2>1, <2>7 DEF Flows
  <2>11. MoreAt(r, q, Len(q), f + 1, PktSize)
    BY <2>1, <2>2 DEF MoreAt
  <2>12. Total(q) \in Int /\ Total(r) = Total(q) + PktSize
    BY <2>1, <2>8, <2>9, <2>10, <2>11, TotalChanges
  <2> QED
    BY <2>12 DEF q, r
<1>15. bufsize.kind = "Infinite" =>
         Reads(EgressIn, s) + Len(buffer') * PktSize = Total(ReachedBytes')
  <2> SUFFICES ASSUME bufsize.kind = "Infinite"
               PROVE  Reads(EgressIn, s) + Len(buffer') * PktSize = Total(ReachedBytes')
    OBVIOUS
  <2> DEFINE e == Reads(EgressIn, linkStats)
             n == Len(buffer)
  <2>1. e + n * PktSize = Total(ReachedBytes)
    BY DEF TraceInv
  <2>2. e \in Int
    <3>1. linkStats \in Seq(AnyBucket) /\ NewBucket(0, {}) \in AnyBucket
      BY NewBucketIs DEF TraceInv, Bucketed
    <3> QED
      BY <3>1, ReadingsAre, ReadsAppend DEF Reading
  <2>3. (n + 1) * PktSize = n * PktSize + PktSize /\ n * PktSize \in Nat
    BY <1>6, Products
  <2>4. Reads(EgressIn, s) = e /\ Len(buffer') = n + 1
    BY <1>7, <1>10
  <2> HIDE DEF e, n
  <2> DEFINE v == Total(ReachedBytes)
             w == n * PktSize
  <2>5. e + (w + PktSize) = v + PktSize
    <3>1. e + w = v /\ w \in Nat /\ v \in Int /\ PktSize \in Nat
      BY <1>6, <1>14, <2>1, <2>3
    <3> HIDE DEF v, w
    <3> QED
      BY <2>2, <3>1
  <2> QED
    BY <1>14, <2>3, <2>4, <2>5
<1>16. Bucketed(s) /\ s # <<>> /\ s[Len(s)].start <= t
  BY <1>10 DEF Holds
<1>17. Reads(OppsIn, s) = opps * TxOppBytes
  BY <1>10 DEF TraceInv
<1> QED
  BY <1>1, <1>2, <1>13, <1>15, <1>16, <1>17 DEF TraceInv

(* Link::event: one opportunity more, and what left the buffer is egress.   *)
LEMMA LinkEventTraced ==
  ASSUME NetInv, TraceInv, NEW i \in DOMAIN agenda, LinkEvent(i)
  PROVE  TraceInv'
<1> DEFINE t == agenda[i].when
           c == LogOpportunity(linkStats, t)
           s == linkStats'
           e == Reads(EgressIn, linkStats)
           n == Len(buffer)
           v == Total(ReachedBytes)
           left == IF n = 0 THEN 0 ELSE PktSize
<1>1. /\ Runs(i, "Link", "Event") /\ bufsize' = bufsize /\ opps' = opps + 1 /\ now' = t
      /\ linkStats' = IF Departing = <<>> THEN LogOpportunity(linkStats, now')
                      ELSE LogEgress(LogOpportunity(linkStats, now'), now', PktSize)
  BY DEF LinkEvent, Returns
<1>2. IsNext(i)
  BY <1>1 DEF Runs
<1>3. t \in Nat /\ UpTo(linkStats, t)
  BY <1>2, Present
<1>4. buffer \in Seq(Packets) /\ n \in Nat /\ PktSize \in Nat /\ TxOppBytes \in Nat /\ opps \in Nat
  BY LenProperties, TraceAssumption, LinkStatsAssumption DEF NetInv, Typed
<1>5. Departing = <<>> <=> n = 0
  <2>1. buffer = <<>> <=> n = 0
    BY <1>4, EmptySeq
  <2>2. buffer # <<>> => Departing # <<>>
    <3>1. buffer # <<>> => Departing = <<Head(buffer)>>
      BY DEF Departing
    <3> QED
      BY <3>1
  <2> QED
    BY <2>1, <2>2 DEF Departing
<1>6. s = IF n = 0 THEN c ELSE LogEgress(c, t, PktSize)
  BY <1>1, <1>5
<1>7. Len(buffer') = IF n = 0 THEN 0 ELSE n - 1
  <2>1. \E tx \in NextTx(trace, agenda[i].when), actions \in Seq(Actions) :
          trace' = tx.trace /\ LinkReturns(i, tx.at, actions)
    BY LinkEventIs
  <2> QED
    BY <2>1 DEF LinkReturns
<1>8. \A g \in Flows : Reached(g)' = Reached(g) /\ Reached(g) \in Int
  BY LinkEventIsFifo, ReachedIs DEF SameReached, NetInv
<1>9. ReachedBytes' = ReachedBytes
  <2>1. \A m \in 1..NumFlows : m - 1 \in Flows
    BY NumFlowsAssumption DEF Flows
  <2>2. \A m \in 1..NumFlows : Reached(m - 1)' = Reached(m - 1)
    BY <1>8, <2>1
  <2> QED
    BY <2>2 DEF ReachedBytes
<1>10. \A g \in Flows : SenderAddrOf(g) \in Int
  BY NumFlowsAssumption DEF SenderAddrOf, Flows
<1> HIDE DEF t
<1>11. /\ Bucketed(c) /\ Holds(c, t) /\ RoomIn(c)
       /\ Reads(OppsIn, c) = Reads(OppsIn, linkStats) + TxOppBytes
       /\ Reads(EgressIn, c) = Reads(EgressIn, linkStats)
       /\ \A a \in Int : Reads(IngressIn(a), c) = Reads(IngressIn(a), linkStats)
  BY <1>3, OpportunityLogged
<1> HIDE DEF c, s
<1>12. e \in Int
  <2>1. linkStats \in Seq(AnyBucket) /\ NewBucket(0, {}) \in AnyBucket
    BY NewBucketIs DEF TraceInv, Bucketed
  <2> QED
    BY <2>1, ReadingsAre, ReadsAppend DEF Reading
<1>13. /\ Bucketed(s) /\ Holds(s, t)
       /\ Reads(OppsIn, s) = Reads(OppsIn, linkStats) + TxOppBytes
       /\ Reads(EgressIn, s) = e + left
       /\ \A a \in Int : Reads(IngressIn(a), s) = Reads(IngressIn(a), linkStats)
  <2>1. CASE n = 0
    <3>1. s = c /\ e + left = e
      BY <1>6, <1>12, <2>1
    <3> QED
      BY <1>11, <3>1
  <2>2. CASE n # 0
    <3> DEFINE d == LogEgress(c, t, PktSize)
    <3>1. /\ Bucketed(d) /\ Holds(d, t)
          /\ Reads(OppsIn, d) = Reads(OppsIn, c)
          /\ Reads(EgressIn, d) = Reads(EgressIn, c) + PktSize
          /\ \A a \in Int : Reads(IngressIn(a), d) = Reads(IngressIn(a), c)
      BY <1>3, <1>11, EgressLogged
    <3>2. s = d /\ left = PktSize
      BY <1>6, <2>2
    <3> HIDE DEF d, left
    <3> QED
      BY <1>11, <3>1, <3>2
  <2> QED
    BY <2>1, <2>2
<1>14. Reads(OppsIn, s) = opps' * TxOppBytes
  <2>1. (opps + 1) * TxOppBytes = opps * TxOppBytes + TxOppBytes
    BY <1>4, Products
  <2>2. Reads(OppsIn, linkStats) = opps * TxOppBytes
    BY DEF TraceInv
  <2> QED
    BY <1>1, <1>13, <2>1, <2>2
<1>15. \A g \in Flows : Reads(IngressIn(SenderAddrOf(g)), s) = Reached(g)' * PktSize
  <2>1. \A g \in Flows : Reads(IngressIn(SenderAddrOf(g)), linkStats) = Reached(g) * PktSize
    BY DEF TraceInv
  <2> QED
    BY <1>8, <1>10, <1>13, <2>1
<1>16. bufsize.kind = "Infinite" =>
         Reads(EgressIn, s) + Len(buffer') * PktSize = Total(ReachedBytes')
  <2> SUFFICES ASSUME bufsize.kind = "Infinite"
               PROVE  Reads(EgressIn, s) + Len(buffer') * PktSize = Total(ReachedBytes')
    OBVIOUS
  <2>1. e + n * PktSize = v
    BY DEF TraceInv
  <2>2. n # 0 => n - 1 \in Nat /\ ((n - 1) + 1) * PktSize = (n - 1) * PktSize + PktSize
                 /\ (n - 1) * PktSize \in Nat /\ (n - 1) + 1 = n
    <3>1. n # 0 => n - 1 \in Nat /\ (n - 1) + 1 = n
      BY <1>4
    <3> HIDE DEF n
    <3> QED
      BY <1>4, <3>1, Products
  <2>3. left + Len(buffer') * PktSize = n * PktSize /\ n * PktSize \in Nat /\ left \in Nat
        /\ Len(buffer') * PktSize \in Nat
    <3>1. 0 * PktSize = 0 /\ n * PktSize \in Nat
      BY <1>4, Products
    <3>2. CASE n = 0
      BY <1>4, <1>7, <3>1, <3>2
    <3>3. CASE n # 0
      <4> DEFINE w == (n - 1) * PktSize
      <4>1. n * PktSize = w + PktSize /\ w \in Nat
        BY <2>2, <3>3
      <4>2. Len(buffer') * PktSize = w /\ left = PktSize
        BY <1>7, <3>3
      <4> HIDE DEF w, left, n
      <4> QED
        BY <1>4, <4>1, <4>2
    <3> QED
      BY <3>2, <3>3
  <2> DEFINE w == n * PktSize
             w1 == Len(buffer') * PktSize
  <2>4. (e + left) + w1 = e + w
    <3>1. left + w1 = w /\ w \in Nat /\ w1 \in Nat /\ left \in Nat
      BY <2>3
    <3> HIDE DEF w, w1, left, e
    <3> QED
      BY <1>12, <3>1
  <2>5. Reads(EgressIn, s) = e + left /\ e + w = v /\ Total(ReachedBytes') = v
    BY <1>9, <1>13, <2>1
  <2> HIDE DEF e, left, v
  <2> QED
    BY <2>4, <2>5
<1>17. s # <<>> /\ s[Len(s)].start <= t /\ Bucketed(s)
  BY <1>13 DEF Holds
<1> QED
  BY <1>1, <1>14, <1>15, <1>16, <1>17 DEF TraceInv, s

(* Nothing has reached the link, and there are no buckets.                  *)
LEMMA TraceStarts == Init => TraceInv
<1> SUFFICES ASSUME Init PROVE TraceInv
  OBVIOUS
<1> DEFINE none == <<>>
<1>1. linkStats = none /\ buffer = none /\ opps = 0 /\ sent = [f \in Flows |-> 0]
  BY DEF Init
<1>2. none \in Seq(AnyBucket) /\ Len(none) = 0 /\ DOMAIN none = {} /\ none = <<>>
  BY EmptySeq
<1> HIDE DEF none
<1>3. Bucketed(none)
  <2>1. 1..0 = {}
    OBVIOUS
  <2> QED
    BY <1>2, <2>1 DEF Bucketed
<1>4. ASSUME NEW F \in [AnyBucket -> Nat] PROVE Reads(F, none) = 0
  <2> DEFINE q == Mapped(F, none)
  <2>1. q \in Seq(Nat) /\ Len(q) = 0
    BY <1>2, MappedType DEF Maps
  <2> HIDE DEF q
  <2>2. q \in Seq(Int) /\ \A n \in 1..Len(q) : q[n] = 0
    BY <2>1, SeqMonotonic
  <2>3. Total(q) = 0
    BY <2>2, TotalNothing
  <2> QED
    BY <2>3 DEF Reads, q
<1>5. \A f \in Flows : SenderAddrOf(f) \in Int
  BY NumFlowsAssumption DEF SenderAddrOf, Flows
<1>6. /\ Reads(OppsIn, none) = 0 /\ Reads(EgressIn, none) = 0
      /\ \A f \in Flows : Reads(IngressIn(SenderAddrOf(f)), none) = 0
  BY <1>4, <1>5, ReadingsAre DEF Reading
<1>7. \A f \in Flows : Reached(f) = 0
  <2> SUFFICES ASSUME NEW f \in Flows PROVE Reached(f) = 0
    OBVIOUS
  <2>1. Queue("Delay", f) = <<>> /\ Queue("Link", f) = <<>>
    BY NothingQueued
  <2>2. sent[f] = 0
    BY <1>1
  <2> QED
    BY <1>2, <2>1, <2>2 DEF Reached
<1>8. 0 * TxOppBytes = 0 /\ 0 * PktSize = 0
  BY LinkStatsAssumption, TraceAssumption
<1>9. Total(ReachedBytes) = 0
  <2>1. /\ ReachedBytes \in Seq(Int) /\ Len(ReachedBytes) = NumFlows
        /\ \A n \in 1..NumFlows : n - 1 \in Flows /\ ReachedBytes[n] = Reached(n - 1) * PktSize
    BY <1>7, BytesType
  <2>2. \A n \in 1..Len(ReachedBytes) : ReachedBytes[n] = 0
    BY <1>7, <1>8, <2>1
  <2> QED
    BY <2>1, <2>2, TotalNothing
<1>10. Reads(EgressIn, none) + Len(none) * PktSize = Total(ReachedBytes)
  BY <1>2, <1>6, <1>8, <1>9
<1> QED
  BY <1>1, <1>2, <1>3, <1>6, <1>7, <1>8, <1>10 DEF TraceInv

(* Every step of the network keeps the account.                             *)
LEMMA TraceSteps == NetInv /\ TraceInv /\ [Next]_netVars => TraceInv'
<1> SUFFICES ASSUME NetInv, TraceInv, [Next]_netVars PROVE TraceInv'
  OBVIOUS
<1>1. now \in Nat
  BY NetworkAssumption DEF NetInv, Typed
<1>2. ASSUME UNCHANGED netVars PROVE TraceInv'
  <2>1. /\ UNCHANGED <<bufsize, buffer, linkStats, opps>> /\ now' = now
        /\ agenda' = agenda /\ sent' = sent
    BY <1>2 DEF netVars
  <2>2. \A f \in Flows : SameReached(f)
    BY <2>1 DEF SameReached, Reached, Queue, AtKind
  <2> QED
    BY <1>1, <2>1, <2>2, QuietTraced
<1>3. ASSUME NEW i \in DOMAIN agenda, IsNext(i), now' = agenda[i].when
      PROVE  now' \in Nat /\ now <= now'
  BY <1>3, Present
<1>4. ASSUME NEW i \in DOMAIN agenda, Step(i) PROVE TraceInv'
  <2>1. CASE SenderSends(i)
    <3>1. IsNext(i) /\ now' = agenda[i].when /\ UNCHANGED <<bufsize, buffer, linkStats, opps>>
      BY <2>1 DEF SenderSends, Runs, Returns
    <3> QED
      BY <1>1, <1>3, <2>1, <3>1, SenderSendsIsFifo, QuietTraced
  <2>2. CASE SenderStops(i)
    <3>1. IsNext(i) /\ now' = agenda[i].when /\ UNCHANGED <<bufsize, buffer, linkStats, opps>>
      BY <2>2 DEF SenderStops, Runs, Returns
    <3> QED
      BY <1>1, <1>3, <2>2, <3>1, SenderStopsIsFifo, QuietTraced
  <2>3. CASE SenderGetsAck(i)
    <3>1. IsNext(i) /\ now' = agenda[i].when /\ UNCHANGED <<bufsize, buffer, linkStats, opps>>
      BY <2>3 DEF SenderGetsAck, Runs, Returns
    <3> QED
      BY <1>1, <1>3, <2>3, <3>1, SenderGetsAckIsFifo, QuietTraced
  <2>4. CASE DelayPush(i)
    <3>1. IsNext(i) /\ now' = agenda[i].when /\ UNCHANGED <<bufsize, buffer, linkStats, opps>>
      BY <2>4 DEF DelayPush, Runs, Returns
    <3> QED
      BY <1>1, <1>3, <2>4, <3>1, DelayPushIsFifo, QuietTraced
  <2>5. CASE LinkQueues(i) \/ LinkDrops(i)
    BY <2>5, LinkPushTraced
  <2>6. CASE LinkEvent(i)
    BY <2>6, LinkEventTraced
  <2>7. CASE RouterPush(i)
    <3>1. IsNext(i) /\ now' = agenda[i].when /\ UNCHANGED <<bufsize, buffer, linkStats, opps>>
      BY <2>7 DEF RouterPush, Runs, Returns
    <3> QED
      BY <1>1, <1>3, <2>7, <3>1, RouterPushIsFifo, QuietTraced
  <2>8. CASE AckerPush(i)
    <3>1. IsNext(i) /\ now' = agenda[i].when /\ UNCHANGED <<bufsize, buffer, linkStats, opps>>
      BY <2>8 DEF AckerPush, Runs, Returns
    <3> QED
      BY <1>1, <1>3, <2>8, <3>1, AckerPushIsFifo, QuietTraced
  <2>9. CASE AggregatorPush(i)
    <3>1. IsNext(i) /\ now' = agenda[i].when /\ UNCHANGED <<bufsize, buffer, linkStats, opps>>
      BY <2>9 DEF AggregatorPush, Runs, Returns
    <3> QED
      BY <1>1, <1>3, <2>9, <3>1, AggregatorPushIsFifo, QuietTraced
  <2> QED
    BY <1>4, <2>1, <2>2, <2>3, <2>4, <2>5, <2>6, <2>7, <2>8, <2>9 DEF Step
<1> QED
  BY <1>2, <1>4 DEF Next, Stop

(* It says what the property says of the buckets.                           *)
LEMMA InvTraced == NetInv /\ TraceInv => LinkTraced
<1> SUFFICES ASSUME NetInv, TraceInv PROVE LinkTraced
  OBVIOUS
<1> DEFINE s == linkStats
           size == LinkBucketSize
<1>1. /\ s \in Seq(AnyBucket) /\ DOMAIN s = 1..Len(s) /\ Len(s) \in Nat
      /\ now \in Nat /\ size \in Nat
  BY LenProperties, NetworkAssumption, LinkStatsAssumption
     DEF TraceInv, Bucketed, NetInv, Typed
<1>2. ASSUME NEW k \in DOMAIN s
      PROVE  /\ s[k].start = (k - 1) * size /\ s[k].start <= now
             /\ PktSize <= TxOppBytes => s[k].egress <= s[k].opps
             /\ k > 1 => DOMAIN s[k - 1].ingress \subseteq DOMAIN s[k].ingress
  <2>1. k \in 1..Len(s) /\ Len(s) \in 1..Len(s) /\ s # <<>>
    BY <1>1, EmptySeq
  <2>2. /\ s[k].start = (k - 1) * size /\ s[Len(s)].start = (Len(s) - 1) * size
        /\ PktSize <= TxOppBytes => s[k].egress <= s[k].opps
        /\ k > 1 => DOMAIN s[k - 1].ingress \subseteq DOMAIN s[k].ingress
    BY <2>1 DEF TraceInv, Bucketed
  <2>3. s[Len(s)].start <= now
    BY <2>1 DEF TraceInv
  <2>4. (k - 1) * size <= (Len(s) - 1) * size
    <3>1. k - 1 \in Nat /\ Len(s) - 1 \in Nat /\ k - 1 <= Len(s) - 1
      BY <1>1, <2>1
    <3> QED
      BY <1>1, <3>1, Products
  <2>5. (k - 1) * size \in Nat /\ (Len(s) - 1) * size \in Nat
    <3>1. k - 1 \in Nat /\ Len(s) - 1 \in Nat
      BY <1>1, <2>1
    <3> QED
      BY <1>1, <3>1, Products
  <2> DEFINE a == (k - 1) * size
             b == (Len(s) - 1) * size
  <2>6. a <= b /\ a \in Nat /\ b \in Nat /\ b <= now
    BY <2>2, <2>3, <2>4, <2>5
  <2> HIDE DEF a, b
  <2>7. a <= now
    BY <1>1, <2>6
  <2> QED
    BY <2>2, <2>7 DEF a
<1>3. InBuckets("opps") = opps * TxOppBytes
  BY <1>1, InBucketsIs DEF TraceInv
<1>4. \A f \in Flows : IngressOf(f) = Arrived(f) * PktSize
  <2> SUFFICES ASSUME NEW f \in Flows PROVE IngressOf(f) = Arrived(f) * PktSize
    OBVIOUS
  <2>1. IngressOf(f) = Reads(IngressIn(SenderAddrOf(f)), linkStats)
    BY <1>1, IngressOfIs
  <2>2. Arrived(f) = Reached(f)
    BY ReachedIs DEF NetInv
  <2> QED
    BY <2>1, <2>2 DEF TraceInv
<1>5. [n \in 1..NumFlows |-> Arrived(n - 1) * PktSize] = ReachedBytes
  <2>1. \A n \in 1..NumFlows : n - 1 \in Flows
    BY NumFlowsAssumption DEF Flows
  <2>2. \A n \in 1..NumFlows : Arrived(n - 1) = Reached(n - 1)
    BY <2>1, ReachedIs DEF NetInv
  <2> QED
    BY <2>2 DEF ReachedBytes
<1>6. bufsize.kind = "Infinite" =>
        InBuckets("egress") + Len(buffer) * PktSize
          = Total([n \in 1..NumFlows |-> Arrived(n - 1) * PktSize])
  BY <1>1, <1>5, InBucketsIs DEF TraceInv
<1> QED
  BY <1>2, <1>3, <1>4, <1>6 DEF LinkTraced

(* The buckets of Tracer account for every byte and every opportunity of    *)
(* the link, for every bucket size, packet size, trace, buffer and number   *)
(* of flows: they follow each other without a gap, however long the link    *)
(* was silent; what is logged as ingress is what left the delays, drops     *)
(* included; with room for all of it, what it is not egress yet waits.      *)
THEOREM LinkIsTraced == Spec => []LinkTraced
<1>1. Init => TraceInv
  BY TraceStarts
<1>2. NetInv /\ TraceInv /\ [Next]_netVars => TraceInv'
  BY TraceSteps
<1>3. NetInv /\ TraceInv => LinkTraced
  BY InvTraced
<1> QED
  BY <1>1, <1>2, <1>3, NetworkInvariant, PTL DEF Spec
=============================================================================
