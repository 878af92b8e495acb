--------------------------- MODULE NetworkProofs ---------------------------
(***************************************************************************)
(* The wiring of create_topology and the safety of the network, for every  *)
(* number of flows and every configuration.                                *)
(*                                                                         *)
(* Where objects are registered follows from induction over the flows      *)
(* (ObjectsAre, RoutesAre); that packets are where they can be handled     *)
(* follows from there.  The bounds on queueing and the distance of acks    *)
(* need to know when actions are due: NetInv says it of every kind of      *)
(* object, and that what was scheduled first at one place of a flow is due *)
(* first there.  Each handler keeps NetInv (the Step lemmas).              *)
(***************************************************************************)
EXTENDS Network, SequenceTheorems, WellFoundedInduction, TLAPS

(* Where the objects of a flow come to be registered, and their addresses.  *)
SenderOf(f) == 2 + 4 * f
DelayOf(f)  == 3 + 4 * f
AggOf(f)    == 4 + 4 * f
AckerOf(f)  == 5 + 4 * f

AckerAddrOf(f)  == 1 + 2 * f
SenderAddrOf(f) == 2 + 2 * f

(* What the loop of create_topology has built after n flows. *)
BuiltFor(b, n) ==
  /\ b = [objs |-> b.objs, nextAddr |-> 1 + 2 * n, ports |-> b.ports, routes |-> b.routes]
  /\ DOMAIN b.objs = 1..(4 * n) /\ Len(b.objs) = 4 * n /\ \E S : b.objs \in Seq(S)
  /\ \A f \in 0..(n - 1) :
       /\ b.objs[4 * f + 1] = Object("Sender", f, SenderAddrOf(f), DelayOf(f), AckerAddrOf(f))
       /\ b.objs[4 * f + 2] = Object("Delay", f, None, LinkId, None)
       /\ b.objs[4 * f + 3] = Object("Aggregator", f, None, SenderOf(f), None)
       /\ b.objs[4 * f + 4] = Object("Acker", f, AckerAddrOf(f), AggOf(f), None)
  /\ b.ports \in Seq(Int) /\ Len(b.ports) = n
  /\ DOMAIN b.routes = {AckerAddrOf(f) : f \in 0..(n - 1)}
  /\ \A f \in 0..(n - 1) :
       b.routes[AckerAddrOf(f)] = f /\ b.ports[f + 1] = AckerOf(f)

-----------------------------------------------------------------------------
(* A set of natural numbers that is not empty has a least element. *)
LEMMA LeastNat ==
  ASSUME NEW T \in SUBSET Nat, T # {}
  PROVE  \E m \in T : \A k \in T : m <= k
<1>1. PICK m \in T : \A k \in T : <<k, m>> \notin OpToRel(<, Nat)
  BY WFMin, NatLessThanWellFounded, Zenon
<1>2. \A k \in T : ~(k < m)
  BY <1>1, Zenon DEF OpToRel
<1> QED
  BY <1>2

(* One turn of the loop. *)
LEMMA AddFlowBuilds ==
  ASSUME NEW n \in Nat, NEW b, BuiltFor(b, n)
  PROVE  BuiltFor(AddFlow(b, n), n + 1)
<1> DEFINE c == AddFlow(b, n)
           four == <<Object("Sender", n, SenderAddrOf(n), DelayOf(n), AckerAddrOf(n)),
                     Object("Delay", n, None, LinkId, None),
                     Object("Aggregator", n, None, SenderOf(n), None),
                     Object("Acker", n, AckerAddrOf(n), AggOf(n), None)>>
<1>1. /\ Len(b.objs) = 4 * n /\ b.nextAddr = AckerAddrOf(n) /\ b.nextAddr + 1 = SenderAddrOf(n)
      /\ Len(b.ports) = n
  BY DEF BuiltFor, AckerAddrOf, SenderAddrOf
<1>2. /\ SenderId(4 * n) = SenderOf(n) /\ DelayId(4 * n) = DelayOf(n)
      /\ AggId(4 * n) = AggOf(n) /\ AckerId(4 * n) = AckerOf(n)
  BY DEF SenderId, DelayId, AggId, AckerId, SenderOf, DelayOf, AggOf, AckerOf, RouterId, LinkId
<1>3. c = [objs |-> b.objs \o four, nextAddr |-> SenderAddrOf(n) + 1,
           ports |-> Append(b.ports, AckerOf(n)),
           routes |-> [a \in DOMAIN b.routes \cup {AckerAddrOf(n)} |->
                         IF a = AckerAddrOf(n) THEN n ELSE b.routes[a]]]
  BY <1>1, <1>2 DEF AddFlow
<1>4. /\ four[1] = Object("Sender", n, SenderAddrOf(n), DelayOf(n), AckerAddrOf(n))
      /\ four[2] = Object("Delay", n, None, LinkId, None)
      /\ four[3] = Object("Aggregator", n, None, SenderOf(n), None)
      /\ four[4] = Object("Acker", n, AckerAddrOf(n), AggOf(n), None)
      /\ Len(four) = 4 /\ four \in Seq({four[1], four[2], four[3], four[4]})
  OBVIOUS
<1> HIDE DEF four, c
<1>5. PICK S : b.objs \in Seq(S)
  BY DEF BuiltFor
<1> DEFINE U == S \cup {four[1], four[2], four[3], four[4]}
<1>6. b.objs \in Seq(U) /\ four \in Seq(U)
  BY <1>4, <1>5, SeqMonotonic
<1> HIDE DEF U
<1>7. /\ b.objs \o four \in Seq(U) /\ Len(b.objs \o four) = 4 * n + 4
      /\ \A i \in 1..(4 * n + 4) :
           (b.objs \o four)[i] = IF i <= 4 * n THEN b.objs[i] ELSE four[i - 4 * n]
  <2>1. /\ b.objs \o four \in Seq(U) /\ Len(b.objs \o four) = Len(b.objs) + Len(four)
        /\ \A i \in 1..(Len(b.objs) + Len(four)) :
             (b.objs \o four)[i] = IF i <= Len(b.objs) THEN b.objs[i] ELSE four[i - Len(b.objs)]
    BY <1>6, ConcatProperties
  <2>2. Len(b.objs) = 4 * n /\ Len(four) = 4
    BY <1>1, <1>4
  <2> QED
    BY <2>1, <2>2
<1>8. /\ c.objs \in Seq(U) /\ Len(c.objs) = 4 * (n + 1) /\ DOMAIN c.objs = 1..(4 * (n + 1))
  BY <1>3, <1>7
<1>9. ASSUME NEW f \in 0..n
      PROVE  /\ c.objs[4 * f + 1] = Object("Sender", f, SenderAddrOf(f), DelayOf(f), AckerAddrOf(f))
             /\ c.objs[4 * f + 2] = Object("Delay", f, None, LinkId, None)
             /\ c.objs[4 * f + 3] = Object("Aggregator", f, None, SenderOf(f), None)
             /\ c.objs[4 * f + 4] = Object("Acker", f, AckerAddrOf(f), AggOf(f), None)
  <2>1. CASE f = n
    <3>0. \A k \in 1..4 : /\ 4 * n + k \in 1..(4 * n + 4) /\ ~(4 * n + k <= 4 * n)
                          /\ (4 * n + k) - 4 * n = k
      OBVIOUS
    <3>1. \A k \in 1..4 : c.objs[4 * n + k] = four[k]
      BY <1>3, <1>7, <3>0
    <3>2. /\ c.objs[4 * n + 1] = four[1] /\ c.objs[4 * n + 2] = four[2]
          /\ c.objs[4 * n + 3] = four[3] /\ c.objs[4 * n + 4] = four[4]
      BY <3>1
    <3> QED
      BY <1>4, <2>1, <3>2
  <2>2. CASE f \in 0..(n - 1)
    <3>1. \A k \in 1..4 : 4 * f + k \in 1..(4 * n + 4) /\ 4 * f + k <= 4 * n
      BY <2>2
    <3>2. \A k \in 1..4 : c.objs[4 * f + k] = b.objs[4 * f + k]
      BY <1>3, <1>7, <3>1
    <3>3. /\ c.objs[4 * f + 1] = b.objs[4 * f + 1] /\ c.objs[4 * f + 2] = b.objs[4 * f + 2]
          /\ c.objs[4 * f + 3] = b.objs[4 * f + 3] /\ c.objs[4 * f + 4] = b.objs[4 * f + 4]
      BY <3>2
    <3> QED
      BY <2>2, <3>3 DEF BuiltFor
  <2> QED
    BY <2>1, <2>2
<1>10. /\ c.ports \in Seq(Int) /\ Len(c.ports) = n + 1
       /\ c.ports[n + 1] = AckerOf(n) /\ \A f \in 0..(n - 1) : c.ports[f + 1] = b.ports[f + 1]
  <2>1. b.ports \in Seq(Int) /\ AckerOf(n) \in Int
    BY DEF BuiltFor, AckerOf
  <2>2. c.ports = Append(b.ports, AckerOf(n))
    BY <1>3
  <2> QED
    BY <1>1, <2>1, <2>2, AppendProperties
<1>11. DOMAIN c.routes = {AckerAddrOf(f) : f \in 0..n}
  <2>1. DOMAIN c.routes = DOMAIN b.routes \cup {AckerAddrOf(n)}
    BY <1>3
  <2>2. DOMAIN b.routes = {AckerAddrOf(f) : f \in 0..(n - 1)}
    BY DEF BuiltFor
  <2>3. \A f : f \in 0..n <=> f \in 0..(n - 1) \/ f = n
    OBVIOUS
  <2> QED
    BY <2>1, <2>2, <2>3
<1>12. ASSUME NEW f \in 0..n
       PROVE  c.routes[AckerAddrOf(f)] = f /\ c.ports[f + 1] = AckerOf(f)
  <2>1. AckerAddrOf(f) \in DOMAIN b.routes \cup {AckerAddrOf(n)}
    BY <1>3, <1>11
  <2>2. c.routes[AckerAddrOf(f)] = IF AckerAddrOf(f) = AckerAddrOf(n) THEN n ELSE b.routes[AckerAddrOf(f)]
    BY <1>3, <2>1
  <2>3. CASE f = n
    BY <1>10, <2>2, <2>3
  <2>4. CASE f \in 0..(n - 1)
    <3>1. AckerAddrOf(f) # AckerAddrOf(n)
      BY <2>4 DEF AckerAddrOf
    <3> QED
      BY <1>10, <2>2, <2>4, <3>1 DEF BuiltFor
  <2> QED
    BY <2>3, <2>4
<1>13. SenderAddrOf(n) + 1 = 1 + 2 * (n + 1) /\ (n + 1) - 1 = n
  BY DEF SenderAddrOf
<1>14. c = [objs |-> c.objs, nextAddr |-> 1 + 2 * (n + 1), ports |-> c.ports, routes |-> c.routes]
  BY <1>3, <1>13
<1>15. BuiltFor(c, n + 1)
  BY <1>8, <1>9, <1>10, <1>11, <1>12, <1>13, <1>14 DEF BuiltFor
<1> QED
  BY <1>15 DEF c

(* Before the loop. *)
LEMMA NoFlowsBuilt == BuiltFor(NoFlows, 0)
<1>1. 0..(0 - 1) = {} /\ 1..(4 * 0) = {} /\ NoFlows.objs = <<>> /\ NoFlows.ports = <<>>
  BY DEF NoFlows
<1>2. <<>> \in Seq(Int) /\ Len(<<>>) = 0 /\ DOMAIN <<>> = {}
  OBVIOUS
<1>3. NoFlows = [objs |-> <<>>, nextAddr |-> 1, ports |-> <<>>, routes |-> [a \in {} |-> 0]]
  BY DEF NoFlows, RouterAddr
<1>4. DOMAIN NoFlows.routes = {}
  BY <1>3
<1> QED
  BY <1>1, <1>2, <1>3, <1>4 DEF BuiltFor

(* The loop: its turns, one after the other, up to the n-th. *)
Turns(g, n) == g = [f \in 0..n |-> IF f = 0 THEN NoFlows ELSE AddFlow(g[f - 1], f - 1)]

(* The loop can be run to its end. *)
LEMMA TurnsExist == ASSUME NEW n \in Nat PROVE \E g : Turns(g, n)
<1> DEFINE Stuck == {k \in Nat : ~\E g : Turns(g, k)}
<1>1. SUFFICES ASSUME Stuck # {} PROVE FALSE
  OBVIOUS
<1>2. PICK m \in Stuck : \A k \in Stuck : m <= k
  BY <1>1, LeastNat
<1>3. m \in Nat /\ ~\E g : Turns(g, m)
  BY <1>2
<1>4. m # 0
  <2> DEFINE g == [f \in 0..0 |-> NoFlows]
  <2>1. g = [f \in 0..0 |-> IF f = 0 THEN NoFlows ELSE AddFlow(g[f - 1], f - 1)]
    OBVIOUS
  <2> HIDE DEF g
  <2>2. Turns(g, 0)
    BY <2>1 DEF Turns
  <2> QED
    BY <1>3, <2>2
<1>5. m - 1 \in Nat /\ m - 1 \notin Stuck
  BY <1>2, <1>3, <1>4
<1>6. PICK g : Turns(g, m - 1)
  BY <1>5
<1> DEFINE h == [f \in 0..m |-> IF f = m THEN AddFlow(g[m - 1], m - 1) ELSE g[f]]
<1>7. ASSUME NEW f \in 0..m
      PROVE  h[f] = IF f = 0 THEN NoFlows ELSE AddFlow(h[f - 1], f - 1)
  <2>1. CASE f = m
    BY <1>3, <1>4, <2>1
  <2>2. CASE f # m
    <3>1. f \in 0..(m - 1) /\ (f # 0 => f - 1 \in 0..m /\ f - 1 # m)
      BY <1>3, <2>2
    <3>2. g[f] = IF f = 0 THEN NoFlows ELSE AddFlow(g[f - 1], f - 1)
      BY <1>6, <3>1 DEF Turns
    <3>3. h[f] = g[f] /\ (f # 0 => h[f - 1] = g[f - 1])
      BY <2>2, <3>1
    <3> QED
      BY <3>2, <3>3
  <2> QED
    BY <2>1, <2>2
<1>8. DOMAIN h = 0..m /\ h = [f \in DOMAIN h |-> h[f]]
  OBVIOUS
<1> HIDE DEF h
<1>9. Turns(h, m)
  BY <1>7, <1>8 DEF Turns
<1> QED
  BY <1>3, <1>9

(* Whatever runs the loop builds what is said above. *)
LEMMA TurnsBuild ==
  ASSUME NEW n \in Nat, NEW g, Turns(g, n)
  PROVE  \A k \in 0..n : BuiltFor(g[k], k)
<1> DEFINE Wrong == {k \in 0..n : ~BuiltFor(g[k], k)}
<1>1. SUFFICES ASSUME Wrong # {} PROVE FALSE
  OBVIOUS
<1>2. PICK m \in Wrong : \A k \in Wrong : m <= k
  <2>1. Wrong \in SUBSET Nat
    OBVIOUS
  <2> HIDE DEF Wrong
  <2> QED
    BY <1>1, <2>1, LeastNat
<1>3. m \in 0..n /\ ~BuiltFor(g[m], m) /\ m \in Nat
  BY <1>2
<1>4. g[m] = IF m = 0 THEN NoFlows ELSE AddFlow(g[m - 1], m - 1)
  BY <1>3 DEF Turns
<1>5. m # 0
  BY <1>3, <1>4, NoFlowsBuilt
<1>6. m - 1 \in Nat /\ m - 1 \in 0..n /\ m - 1 \notin Wrong
  BY <1>2, <1>3, <1>5
<1>7. BuiltFor(g[m - 1], m - 1)
  BY <1>6
<1>8. BuiltFor(AddFlow(g[m - 1], m - 1), (m - 1) + 1)
  BY <1>6, <1>7, AddFlowBuilds
<1> QED
  BY <1>3, <1>4, <1>5, <1>8

(* create_topology's registrations, flow by flow, are what Built is.        *)
LEMMA BuiltIs == BuiltFor(Built, NumFlows)
<1> DEFINE build == CHOOSE g : g = [f \in 0..NumFlows |->
                                     IF f = 0 THEN NoFlows ELSE AddFlow(g[f - 1], f - 1)]
<1>1. Built = build[NumFlows]
  BY DEF Built
<1>2. Turns(build, NumFlows)
  BY TurnsExist, NumFlowsAssumption DEF Turns
<1> HIDE DEF build
<1> QED
  BY <1>1, <1>2, TurnsBuild, NumFlowsAssumption
-----------------------------------------------------------------------------
(* The objects as they are registered. *)
LEMMA ObjectsAre ==
  /\ Len(Objects) = 2 + 4 * NumFlows /\ Ids = 0..(1 + 4 * NumFlows)
  /\ Obj(LinkId) = Object("Link", None, None, RouterId, None)
  /\ Obj(RouterId) = Object("Router", None, RouterAddr, None, None)
  /\ \A f \in Flows :
       /\ Obj(SenderOf(f)) = Object("Sender", f, SenderAddrOf(f), DelayOf(f), AckerAddrOf(f))
       /\ Obj(DelayOf(f)) = Object("Delay", f, None, LinkId, None)
       /\ Obj(AggOf(f)) = Object("Aggregator", f, None, SenderOf(f), None)
       /\ Obj(AckerOf(f)) = Object("Acker", f, AckerAddrOf(f), AggOf(f), None)
<1> DEFINE two == <<Object("Link", None, None, RouterId, None),
                    Object("Router", None, RouterAddr, None, None)>>
           b == Built
<1>1. two[1] = Object("Link", None, None, RouterId, None) /\ Len(two) = 2
      /\ two[2] = Object("Router", None, RouterAddr, None, None) /\ two \in Seq({two[1], two[2]})
  OBVIOUS
<1>2. Objects = two \o b.objs
  BY DEF Objects
<1>3. BuiltFor(b, NumFlows) /\ NumFlows \in Nat
  BY BuiltIs, NumFlowsAssumption
<1> HIDE DEF two, b
<1>4. PICK S : b.objs \in Seq(S)
  BY <1>3 DEF BuiltFor
<1> DEFINE U == S \cup {two[1], two[2]}
<1>5. b.objs \in Seq(U) /\ two \in Seq(U)
  BY <1>1, <1>4, SeqMonotonic
<1> HIDE DEF U
<1>6. Len(b.objs) = 4 * NumFlows
  BY <1>3 DEF BuiltFor
<1>7. /\ Len(Objects) = 2 + 4 * NumFlows
      /\ \A i \in 1..(2 + 4 * NumFlows) :
           Objects[i] = IF i <= 2 THEN two[i] ELSE b.objs[i - 2]
  <2>1. /\ Len(two \o b.objs) = Len(two) + Len(b.objs)
        /\ \A i \in 1..(Len(two) + Len(b.objs)) :
             (two \o b.objs)[i] = IF i <= Len(two) THEN two[i] ELSE b.objs[i - Len(two)]
    BY <1>5, ConcatProperties
  <2> QED
    BY <1>1, <1>2, <1>6, <2>1
<1>8. Ids = 0..(1 + 4 * NumFlows)
  BY <1>3, <1>7 DEF Ids
<1>9. Obj(LinkId) = two[1] /\ Obj(RouterId) = two[2]
  BY <1>3, <1>7 DEF Obj, LinkId, RouterId
<1>10. ASSUME NEW f \in Flows
       PROVE  /\ Obj(SenderOf(f)) = b.objs[4 * f + 1] /\ Obj(DelayOf(f)) = b.objs[4 * f + 2]
              /\ Obj(AggOf(f)) = b.objs[4 * f + 3] /\ Obj(AckerOf(f)) = b.objs[4 * f + 4]
  <2>1. \A k \in 1..4 : /\ 4 * f + k + 2 \in 1..(2 + 4 * NumFlows) /\ ~(4 * f + k + 2 <= 2)
                        /\ (4 * f + k + 2) - 2 = 4 * f + k
    BY <1>3 DEF Flows
  <2>2. \A k \in 1..4 : Objects[4 * f + k + 2] = b.objs[4 * f + k]
    BY <1>7, <2>1
  <2>3. /\ SenderOf(f) + 1 = 4 * f + 1 + 2 /\ DelayOf(f) + 1 = 4 * f + 2 + 2
        /\ AggOf(f) + 1 = 4 * f + 3 + 2 /\ AckerOf(f) + 1 = 4 * f + 4 + 2
    BY DEF Flows, SenderOf, DelayOf, AggOf, AckerOf
  <2>4. /\ Objects[4 * f + 1 + 2] = b.objs[4 * f + 1] /\ Objects[4 * f + 2 + 2] = b.objs[4 * f + 2]
        /\ Objects[4 * f + 3 + 2] = b.objs[4 * f + 3] /\ Objects[4 * f + 4 + 2] = b.objs[4 * f + 4]
    BY <2>2
  <2> QED
    BY <2>3, <2>4 DEF Obj
<1> QED
  BY <1>1, <1>3, <1>7, <1>8, <1>9, <1>10 DEF BuiltFor, Flows

(* Every id is that of the link, of the router, or of one flow's object. *)
LEMMA EveryId ==
  ASSUME NEW id \in Ids, id # LinkId, id # RouterId
  PROVE  \E f \in Flows : id \in {SenderOf(f), DelayOf(f), AggOf(f), AckerOf(f)}
<1>1. id \in 2..(1 + 4 * NumFlows) /\ NumFlows \in Nat
  BY ObjectsAre, NumFlowsAssumption DEF LinkId, RouterId
<1> DEFINE f == (id - 2) \div 4
<1>2. f \in Nat /\ 4 * f <= id - 2 /\ id - 2 < 4 * f + 4
  BY <1>1
<1> HIDE DEF f
<1>3. f \in Flows
  BY <1>1, <1>2 DEF Flows
<1>4. id \in {SenderOf(f), DelayOf(f), AggOf(f), AckerOf(f)}
  BY <1>1, <1>2 DEF SenderOf, DelayOf, AggOf, AckerOf
<1> QED
  BY <1>3, <1>4

(* The router takes a packet for a flow's acker to that acker. *)
LEMMA RoutesAre ==
  ASSUME NEW f \in Flows
  PROVE  HasRoute(AckerAddrOf(f)) /\ PortTo(AckerAddrOf(f)) = AckerOf(f)
<1> DEFINE b == Built
<1>1. BuiltFor(b, NumFlows)
  BY BuiltIs
<1>2. HasRoute(AckerAddrOf(f)) <=> AckerAddrOf(f) # RouterAddr /\ AckerAddrOf(f) \in DOMAIN b.routes
  BY DEF HasRoute
<1>3. PortTo(AckerAddrOf(f)) = b.ports[b.routes[AckerAddrOf(f)] + 1]
  BY DEF PortTo
<1> HIDE DEF b
<1>4. AckerAddrOf(f) # RouterAddr
  BY DEF AckerAddrOf, RouterAddr, Flows
<1>5. /\ DOMAIN b.routes = {AckerAddrOf(g) : g \in Flows}
      /\ b.routes[AckerAddrOf(f)] = f /\ b.ports[f + 1] = AckerOf(f)
  BY <1>1 DEF BuiltFor, Flows
<1> QED
  BY <1>2, <1>3, <1>4, <1>5

(* An address is that of one object. *)
LEMMA AddressesDiffer ==
  ASSUME NEW f \in Flows, NEW id \in Ids
  PROVE  /\ Obj(id).addr = SenderAddrOf(f) <=> id = SenderOf(f)
         /\ Obj(id).addr = AckerAddrOf(f) <=> id = AckerOf(f)
<1>1. id = LinkId \/ id = RouterId
      \/ \E g \in Flows : id \in {SenderOf(g), DelayOf(g), AggOf(g), AckerOf(g)}
  BY EveryId
<1>2. \A kind, flow, addr, next, dest : Object(kind, flow, addr, next, dest).addr = addr
  BY DEF Object
<1>3. CASE id = LinkId
  <2>1. Obj(id).addr = None
    BY <1>2, <1>3, ObjectsAre
  <2> QED
    BY <1>3, <2>1 DEF None, SenderAddrOf, AckerAddrOf, SenderOf, AckerOf, LinkId, Flows
<1>4. CASE id = RouterId
  <2>1. Obj(id).addr = RouterAddr
    BY <1>2, <1>4, ObjectsAre
  <2> QED
    BY <1>4, <2>1 DEF RouterAddr, SenderAddrOf, AckerAddrOf, SenderOf, AckerOf, LinkId, RouterId, Flows
<1>5. ASSUME NEW g \in Flows, id \in {SenderOf(g), DelayOf(g), AggOf(g), AckerOf(g)}
      PROVE  /\ Obj(id).addr = SenderAddrOf(f) <=> id = SenderOf(f)
             /\ Obj(id).addr = AckerAddrOf(f) <=> id = AckerOf(f)
  <2>1. /\ Obj(SenderOf(g)).addr = SenderAddrOf(g) /\ Obj(DelayOf(g)).addr = None
        /\ Obj(AggOf(g)).addr = None /\ Obj(AckerOf(g)).addr = AckerAddrOf(g)
    BY <1>2, ObjectsAre
  <2> QED
    BY <1>5, <2>1 DEF None, SenderAddrOf, AckerAddrOf, SenderOf, DelayOf, AggOf, AckerOf, Flows
<1> QED
  BY <1>1, <1>3, <1>4, <1>5

-----------------------------------------------------------------------------
(* Choosing the elements of a sequence that are in a set.                   *)

(* upTo of Chosen, as far as the n-th element. *)
Picks(g, s, S, m) ==
  g = [n \in 0..m |-> IF n = 0 THEN <<>>
                      ELSE IF s[n] \in S THEN Append(g[n - 1], s[n]) ELSE g[n - 1]]

(* Choosing element by element is a function of how far it got.             *)
LEMMA PicksExist == ASSUME NEW s, NEW S, NEW m \in Nat PROVE \E g : Picks(g, s, S, m)
<1> DEFINE Stuck == {k \in Nat : ~\E g : Picks(g, s, S, k)}
<1>1. SUFFICES ASSUME Stuck # {} PROVE FALSE
  OBVIOUS
<1>2. PICK k \in Stuck : \A j \in Stuck : k <= j
  BY <1>1, LeastNat
<1>3. k \in Nat /\ ~\E g : Picks(g, s, S, k)
  BY <1>2
<1>4. k # 0
  <2> DEFINE g == [n \in 0..0 |-> <<>>]
  <2>1. g = [n \in 0..0 |-> IF n = 0 THEN <<>>
                             ELSE IF s[n] \in S THEN Append(g[n - 1], s[n]) ELSE g[n - 1]]
    OBVIOUS
  <2> HIDE DEF g
  <2>2. Picks(g, s, S, 0)
    BY <2>1 DEF Picks
  <2> QED
    BY <1>3, <2>2
<1>5. k - 1 \in Nat /\ k - 1 \notin Stuck
  BY <1>2, <1>3, <1>4
<1>6. PICK g : Picks(g, s, S, k - 1)
  BY <1>5
<1> DEFINE h == [n \in 0..k |-> IF n = k
                                 THEN IF s[n] \in S THEN Append(g[n - 1], s[n]) ELSE g[n - 1]
                                 ELSE g[n]]
<1>7. ASSUME NEW n \in 0..k
      PROVE  h[n] = IF n = 0 THEN <<>>
                    ELSE IF s[n] \in S THEN Append(h[n - 1], s[n]) ELSE h[n - 1]
  <2>1. n # 0 => n - 1 \in 0..k /\ n - 1 # k
    BY <1>3
  <2>2. n # 0 => h[n - 1] = g[n - 1]
    BY <2>1
  <2>3. CASE n = k
    BY <1>4, <2>2, <2>3
  <2>4. CASE n # k
    <3>1. n \in 0..(k - 1)
      BY <1>3, <2>4
    <3>2. g[n] = IF n = 0 THEN <<>>
                 ELSE IF s[n] \in S THEN Append(g[n - 1], s[n]) ELSE g[n - 1]
      BY <1>6, <3>1 DEF Picks
    <3>3. h[n] = g[n]
      BY <2>4
    <3> QED
      BY <2>2, <3>2, <3>3
  <2> QED
    BY <2>3, <2>4
<1>8. DOMAIN h = 0..k /\ h = [n \in DOMAIN h |-> h[n]]
  OBVIOUS
<1> HIDE DEF h
<1>9. Picks(h, s, S, k)
  BY <1>7, <1>8 DEF Picks
<1> QED
  BY <1>3, <1>9

(* Chosen is its value at the end of the sequence.                          *)
LEMMA ChosenPicks ==
  ASSUME NEW T, NEW s \in Seq(T), NEW S
  PROVE  \E g : Picks(g, s, S, Len(s)) /\ Chosen(s, S) = g[Len(s)]
<1> DEFINE upTo == CHOOSE g :
             g = [n \in 0..Len(s) |->
                    IF n = 0 THEN <<>>
                    ELSE IF s[n] \in S THEN Append(g[n - 1], s[n]) ELSE g[n - 1]]
<1>1. Chosen(s, S) = upTo[Len(s)]
  BY DEF Chosen
<1>2. \E g : Picks(g, s, S, Len(s))
  BY PicksExist, LenProperties
<1>3. Picks(upTo, s, S, Len(s))
  BY <1>2 DEF Picks
<1> HIDE DEF upTo
<1> QED
  BY <1>1, <1>3

(* Only elements of s are chosen, and only from S. *)
LEMMA PicksType ==
  ASSUME NEW T, NEW s \in Seq(T), NEW S, NEW g, Picks(g, s, S, Len(s))
  PROVE  \A n \in 0..Len(s) : g[n] \in Seq(T \cap S)
<1> DEFINE Wrong == {n \in 0..Len(s) : g[n] \notin Seq(T \cap S)}
<1>1. SUFFICES ASSUME Wrong # {} PROVE FALSE
  OBVIOUS
<1>2. PICK m \in Wrong : \A n \in Wrong : m <= n
  <2>1. Wrong \in SUBSET Nat
    OBVIOUS
  <2> HIDE DEF Wrong
  <2> QED
    BY <1>1, <2>1, LeastNat
<1>3. m \in 0..Len(s) /\ g[m] \notin Seq(T \cap S)
  BY <1>2
<1>4. g[m] = IF m = 0 THEN <<>>
             ELSE IF s[m] \in S THEN Append(g[m - 1], s[m]) ELSE g[m - 1]
  BY <1>3 DEF Picks
<1>5. m # 0
  BY <1>3, <1>4
<1>6. m - 1 \in 0..Len(s) /\ m - 1 \notin Wrong /\ m \in 1..Len(s)
  BY <1>2, <1>3, <1>5
<1>7. g[m - 1] \in Seq(T \cap S) /\ s[m] \in T
  BY <1>6, ElementOfSeq
<1>8. s[m] \in S => Append(g[m - 1], s[m]) \in Seq(T \cap S)
  BY <1>7, AppendProperties
<1> QED
  BY <1>3, <1>4, <1>5, <1>7, <1>8

(* What is chosen from a sequence is a sequence of those elements.          *)
LEMMA ChosenType ==
  ASSUME NEW T, NEW s \in Seq(T), NEW S
  PROVE  Chosen(s, S) \in Seq(T \cap S)
<1>1. PICK g : Picks(g, s, S, Len(s)) /\ Chosen(s, S) = g[Len(s)]
  BY ChosenPicks
<1>2. Len(s) \in 0..Len(s)
  BY LenProperties
<1> QED
  BY <1>1, <1>2, PicksType

(* Nothing is chosen where nothing is in S. *)
LEMMA ChosenNone ==
  ASSUME NEW T, NEW s \in Seq(T), NEW S, \A i \in DOMAIN s : s[i] \notin S
  PROVE  Chosen(s, S) = <<>>
<1>1. Chosen(s, S) \in Seq({s[i] : i \in DOMAIN s} \cap S)
  <2>1. s \in Seq({s[i] : i \in DOMAIN s})
    BY LenProperties, SeqDef
  <2> QED
    BY <2>1, ChosenType
<1>2. {s[i] : i \in DOMAIN s} \cap S = {}
  OBVIOUS
<1> QED
  BY <1>1, <1>2, LenProperties, ElementOfSeq

(* Of one element. *)
LEMMA ChosenOne ==
  ASSUME NEW e, NEW S, e \in S
  PROVE  Chosen(<<e>>, S) = <<e>>
<1>1. <<e>> \in Seq({e}) /\ Len(<<e>>) = 1 /\ <<e>>[1] = e
  OBVIOUS
<1>2. PICK g : Picks(g, <<e>>, S, Len(<<e>>)) /\ Chosen(<<e>>, S) = g[1]
  BY <1>1, ChosenPicks
<1>3. g[1] = IF e \in S THEN Append(g[0], e) ELSE g[0]
  <2>1. 1 \in 0..Len(<<e>>) /\ 1 - 1 = 0 /\ 1 # 0
    BY <1>1
  <2>2. g[1] = IF <<e>>[1] \in S THEN Append(g[1 - 1], <<e>>[1]) ELSE g[1 - 1]
    BY <1>2, <2>1 DEF Picks
  <2> QED
    BY <1>1, <2>1, <2>2
<1>4. g[0] = <<>>
  BY <1>1, <1>2 DEF Picks
<1>5. Append(<<>>, e) = <<e>>
  OBVIOUS
<1> QED
  BY <1>2, <1>3, <1>4, <1>5

(* Of two sequences, one after the other. *)
LEMMA ChosenConcat ==
  ASSUME NEW T, NEW s \in Seq(T), NEW t \in Seq(T), NEW S
  PROVE  Chosen(s \o t, S) = Chosen(s, S) \o Chosen(t, S)
<1> DEFINE u == s \o t
<1>1. /\ u \in Seq(T) /\ Len(u) = Len(s) + Len(t) /\ Len(s) \in Nat /\ Len(t) \in Nat
      /\ \A i \in 1..(Len(s) + Len(t)) : u[i] = IF i <= Len(s) THEN s[i] ELSE t[i - Len(s)]
  BY ConcatProperties, LenProperties
<1> HIDE DEF u
<1>2. PICK g : Picks(g, s, S, Len(s)) /\ Chosen(s, S) = g[Len(s)]
  BY ChosenPicks
<1>3. PICK h : Picks(h, t, S, Len(t)) /\ Chosen(t, S) = h[Len(t)]
  BY ChosenPicks
<1>4. PICK k : Picks(k, u, S, Len(u)) /\ Chosen(u, S) = k[Len(u)]
  BY <1>1, ChosenPicks
<1>5. \A n \in 0..Len(s) : k[n] = g[n]
  <2> DEFINE Wrong == {n \in 0..Len(s) : k[n] # g[n]}
  <2>1. SUFFICES ASSUME Wrong # {} PROVE FALSE
    OBVIOUS
  <2>2. PICK m \in Wrong : \A n \in Wrong : m <= n
    <3>1. Wrong \in SUBSET Nat
      OBVIOUS
    <3> HIDE DEF Wrong
    <3> QED
      BY <2>1, <3>1, LeastNat
  <2>3. m \in 0..Len(s) /\ k[m] # g[m] /\ m \in 0..Len(u)
    BY <1>1, <2>2
  <2>4. g[m] = IF m = 0 THEN <<>>
               ELSE IF s[m] \in S THEN Append(g[m - 1], s[m]) ELSE g[m - 1]
    BY <1>2, <2>3 DEF Picks
  <2>5. k[m] = IF m = 0 THEN <<>>
               ELSE IF u[m] \in S THEN Append(k[m - 1], u[m]) ELSE k[m - 1]
    BY <1>4, <2>3 DEF Picks
  <2>6. m # 0
    BY <2>3, <2>4, <2>5
  <2>7. m - 1 \in 0..Len(s) /\ m - 1 \notin Wrong /\ u[m] = s[m]
    BY <1>1, <2>2, <2>3, <2>6
  <2>8. k[m - 1] = g[m - 1]
    BY <2>7
  <2> QED
    BY <2>3, <2>4, <2>5, <2>6, <2>7, <2>8
<1>6. g[Len(s)] \in Seq(T) /\ \A n \in 0..Len(t) : h[n] \in Seq(T)
  <2>1. Len(s) \in 0..Len(s) /\ T \cap S \subseteq T
    BY <1>1
  <2>2. g[Len(s)] \in Seq(T \cap S) /\ \A n \in 0..Len(t) : h[n] \in Seq(T \cap S)
    BY <1>2, <1>3, <2>1, PicksType
  <2> QED
    BY <2>1, <2>2, SeqMonotonic
<1>7. \A n \in 0..Len(t) : k[Len(s) + n] = g[Len(s)] \o h[n]
  <2> DEFINE Right(n) == k[Len(s) + n] = g[Len(s)] \o h[n]
             Wrong == {n \in 0..Len(t) : ~Right(n)}
  <2>1. SUFFICES ASSUME Wrong # {} PROVE FALSE
    OBVIOUS
  <2> HIDE DEF Right
  <2>2. PICK m \in Wrong : \A n \in Wrong : m <= n
    <3>1. Wrong \in SUBSET Nat
      OBVIOUS
    <3> HIDE DEF Wrong
    <3> QED
      BY <2>1, <3>1, LeastNat
  <2>3. m \in 0..Len(t) /\ ~Right(m) /\ Len(s) + m \in 0..Len(u)
    BY <1>1, <2>2
  <2>4. h[m] = IF m = 0 THEN <<>>
               ELSE IF t[m] \in S THEN Append(h[m - 1], t[m]) ELSE h[m - 1]
    BY <1>3, <2>3 DEF Picks
  <2>5. m # 0
    <3>1. k[Len(s) + 0] = g[Len(s)]
      BY <1>1, <1>5
    <3>2. g[Len(s)] \o <<>> = g[Len(s)]
      BY <1>6, ConcatEmptySeq
    <3> QED
      BY <2>3, <2>4, <3>1, <3>2 DEF Right
  <2>6. /\ m - 1 \in 0..Len(t) /\ m - 1 \notin Wrong /\ u[Len(s) + m] = t[m]
        /\ (Len(s) + m) - 1 = Len(s) + (m - 1) /\ m \in 1..Len(t) /\ Len(s) + m # 0
    <3>1. Len(s) + m \in 1..(Len(s) + Len(t)) /\ ~(Len(s) + m <= Len(s)) /\ (Len(s) + m) - Len(s) = m
      BY <1>1, <2>3, <2>5
    <3>2. u[Len(s) + m] = t[m]
      BY <1>1, <3>1
    <3> QED
      BY <1>1, <2>2, <2>3, <2>5, <3>2
  <2>7. k[Len(s) + m] = IF u[Len(s) + m] \in S THEN Append(k[(Len(s) + m) - 1], u[Len(s) + m])
                        ELSE k[(Len(s) + m) - 1]
    BY <1>4, <2>3, <2>6 DEF Picks
  <2>8. k[Len(s) + (m - 1)] = g[Len(s)] \o h[m - 1] /\ h[m - 1] \in Seq(T) /\ t[m] \in T
    BY <1>6, <2>6, ElementOfSeq DEF Right
  <2>9. Append(g[Len(s)] \o h[m - 1], t[m]) = g[Len(s)] \o Append(h[m - 1], t[m])
    <3> DEFINE x == g[Len(s)]
               y == h[m - 1]
               z == t[m]
    <3>1. x \in Seq(T) /\ y \in Seq(T) /\ z \in T
      BY <1>6, <2>8
    <3> HIDE DEF x, y, z
    <3>2. x \o y \in Seq(T) /\ <<z>> \in Seq(T)
      BY <3>1, ConcatProperties
    <3>3. Append(x \o y, z) = (x \o y) \o <<z>> /\ Append(y, z) = y \o <<z>>
      BY <3>1, <3>2, AppendIsConcat
    <3>4. (x \o y) \o <<z>> = x \o (y \o <<z>>)
      BY <3>1, <3>2, ConcatAssociative
    <3>5. Append(x \o y, z) = x \o Append(y, z)
      BY <3>3, <3>4
    <3> QED
      BY <3>5 DEF x, y, z
  <2>10. k[Len(s) + m] = g[Len(s)] \o h[m]
    BY <2>4, <2>5, <2>6, <2>7, <2>8, <2>9
  <2> QED
    BY <2>3, <2>10 DEF Right
<1>8. Len(t) \in 0..Len(t)
  BY <1>1
<1>9. k[Len(u)] = g[Len(s)] \o h[Len(t)]
  BY <1>1, <1>7, <1>8
<1> QED
  BY <1>2, <1>3, <1>4, <1>9 DEF u

-----------------------------------------------------------------------------
(* Taking an element out of a sequence.                                     *)

(* What comes before the i-th element, and what comes after it. *)
Halves(a, b, s, i) ==
  /\ Len(a) = i - 1 /\ \A j \in 1..(i - 1) : a[j] = s[j]
  /\ Len(b) = Len(s) - i /\ \A j \in 1..(Len(s) - i) : b[j] = s[i + j]
  /\ s = (a \o <<s[i]>>) \o b /\ Without(s, i) = a \o b

(* A sequence is what is before its i-th element, that element, and the     *)
(* rest.                                                                    *)
LEMMA Splits ==
  ASSUME NEW T, NEW s \in Seq(T), NEW i \in DOMAIN s
  PROVE  \E a, b \in Seq(T) : Halves(a, b, s, i)
<1>1. i \in 1..Len(s) /\ Len(s) \in Nat /\ s[i] \in T /\ i \in Nat /\ i >= 1
  BY LenProperties, ElementOfSeq
<1> DEFINE a == SubSeq(s, 1, i - 1)
           b == SubSeq(s, i + 1, Len(s))
<1>2. a \in Seq(T) /\ Len(a) = i - 1 /\ \A j \in 1..(i - 1) : a[j] = s[j]
  <2>1. \A j \in 1..(i - 1) : s[j] \in T
    BY <1>1, ElementOfSeq
  <2> QED
    BY <1>1, <2>1, SubSeqProperties
<1>3. b \in Seq(T) /\ Len(b) = Len(s) - i /\ \A j \in 1..(Len(s) - i) : b[j] = s[i + j]
  <2>1. \A j \in (i + 1)..Len(s) : s[j] \in T
    BY <1>1, ElementOfSeq
  <2>2. /\ b \in Seq(T) /\ Len(b) = IF i + 1 <= Len(s) THEN Len(s) - (i + 1) + 1 ELSE 0
        /\ \A j \in 1..(Len(s) - (i + 1) + 1) : b[j] = s[(i + 1) + j - 1]
    BY <1>1, <2>1, SubSeqProperties
  <2> HIDE DEF b
  <2> QED
    BY <1>1, <2>2
<1>4. Without(s, i) = a \o b
  BY DEF Without
<1> HIDE DEF a, b
<1> DEFINE x == s[i]
           c == a \o <<x>>
<1>5. /\ c \in Seq(T) /\ Len(c) = i /\ c[i] = x /\ \A j \in 1..(i - 1) : c[j] = a[j]
  <2>1. <<x>> \in Seq(T) /\ Len(<<x>>) = 1 /\ <<x>>[1] = x
    BY <1>1
  <2> HIDE DEF x
  <2>2. /\ a \o <<x>> \in Seq(T) /\ Len(a \o <<x>>) = Len(a) + Len(<<x>>)
        /\ \A j \in 1..(Len(a) + Len(<<x>>)) :
             (a \o <<x>>)[j] = IF j <= Len(a) THEN a[j] ELSE <<x>>[j - Len(a)]
    BY <1>2, <2>1, ConcatProperties
  <2>3. Len(a) + Len(<<x>>) = i /\ Len(a) = i - 1 /\ ~(i <= Len(a)) /\ i - Len(a) = 1
    BY <1>1, <1>2, <2>1
  <2>4. i \in 1..i /\ \A j \in 1..(i - 1) : j \in 1..i /\ j <= i - 1
    BY <1>1
  <2> QED
    BY <2>1, <2>2, <2>3, <2>4
<1> HIDE DEF c
<1>6. /\ c \o b \in Seq(T) /\ Len(c \o b) = Len(s)
      /\ \A j \in 1..Len(s) : (c \o b)[j] = s[j]
  <2>1. /\ c \o b \in Seq(T) /\ Len(c \o b) = Len(c) + Len(b)
        /\ \A j \in 1..(Len(c) + Len(b)) :
             (c \o b)[j] = IF j <= Len(c) THEN c[j] ELSE b[j - Len(c)]
    BY <1>3, <1>5, ConcatProperties
  <2>2. Len(c) + Len(b) = Len(s) /\ Len(c) = i
    BY <1>1, <1>3, <1>5
  <2>3. ASSUME NEW j \in 1..Len(s) PROVE (c \o b)[j] = s[j]
    <3>1. (c \o b)[j] = IF j <= i THEN c[j] ELSE b[j - i]
      BY <2>1, <2>2
    <3>2. CASE j < i
      <4>1. j \in 1..(i - 1) /\ j <= i
        BY <1>1, <3>2
      <4> QED
        BY <1>2, <1>5, <3>1, <4>1
    <3>3. CASE j = i
      BY <1>1, <1>5, <3>1, <3>3
    <3>4. CASE j > i
      <4>1. j - i \in 1..(Len(s) - i) /\ i + (j - i) = j /\ ~(j <= i)
        BY <1>1, <3>4
      <4> QED
        BY <1>3, <3>1, <4>1
    <3>5. j < i \/ j = i \/ j > i
      BY <1>1
    <3> QED
      BY <3>2, <3>3, <3>4, <3>5
  <2> QED
    BY <2>1, <2>2, <2>3
<1>7. s = c \o b
  BY <1>6, SeqEqual
<1> QED
  BY <1>2, <1>3, <1>4, <1>7 DEF c, x, Halves

(* A sequence without its i-th element, and more at its end: where its      *)
(* elements come from.                                                      *)
Follows(u, s, i, t) ==
  /\ Len(u) = Len(s) - 1 + Len(t)
  /\ \A p \in 1..(Len(s) - 1) : u[p] = s[IF p < i THEN p ELSE p + 1]
  /\ \A k \in 1..Len(t) : u[Len(s) - 1 + k] = t[k]

(* Taking an element out and adding others behind gives a sequence whose    *)
(* elements are the others that stayed, in their order, and the new ones    *)
(* after them.                                                              *)
LEMMA Rearranged ==
  ASSUME NEW T, NEW s \in Seq(T), NEW i \in DOMAIN s, NEW t \in Seq(T), NEW u,
         u = Without(s, i) \o t
  PROVE  u \in Seq(T) /\ Follows(u, s, i, t)
<1>1. i \in 1..Len(s) /\ Len(s) \in Nat /\ Len(t) \in Nat
  BY LenProperties
<1>2. PICK a, b \in Seq(T) : Halves(a, b, s, i)
  BY Splits
<1>2a. /\ Len(a) = i - 1 /\ \A j \in 1..(i - 1) : a[j] = s[j]
       /\ Len(b) = Len(s) - i /\ \A j \in 1..(Len(s) - i) : b[j] = s[i + j]
       /\ Without(s, i) = a \o b
  BY <1>2 DEF Halves
<1> DEFINE c == a \o b
<1>3. /\ c \in Seq(T) /\ Len(c) = Len(s) - 1
      /\ \A j \in 1..(Len(s) - 1) : c[j] = IF j < i THEN a[j] ELSE b[j - (i - 1)]
  <2>1. /\ c \in Seq(T) /\ Len(c) = Len(a) + Len(b)
        /\ \A j \in 1..(Len(a) + Len(b)) :
             c[j] = IF j <= Len(a) THEN a[j] ELSE b[j - Len(a)]
    BY ConcatProperties
  <2> HIDE DEF c
  <2>2. Len(a) + Len(b) = Len(s) - 1 /\ Len(a) = i - 1
    BY <1>1, <1>2a
  <2>3. \A j \in Int : j <= i - 1 <=> j < i
    BY <1>1
  <2> QED
    BY <2>1, <2>2, <2>3
<1> HIDE DEF c
<1>4. ASSUME NEW j \in 1..(Len(s) - 1) PROVE c[j] = s[IF j < i THEN j ELSE j + 1]
  <2>1. CASE j < i
    <3>1. j \in 1..(i - 1)
      BY <1>1, <2>1
    <3> QED
      BY <1>2a, <1>3, <2>1, <3>1
  <2>2. CASE ~(j < i)
    <3>1. j - (i - 1) \in 1..(Len(s) - i) /\ i + (j - (i - 1)) = j + 1
      BY <1>1, <2>2
    <3> QED
      BY <1>2a, <1>3, <2>2, <3>1
  <2> QED
    BY <2>1, <2>2
<1>5. u = c \o t
  BY <1>2a DEF c
<1>6. /\ u \in Seq(T) /\ Len(u) = Len(c) + Len(t)
      /\ \A p \in 1..(Len(c) + Len(t)) : u[p] = IF p <= Len(c) THEN c[p] ELSE t[p - Len(c)]
  <2>1. /\ c \o t \in Seq(T) /\ Len(c \o t) = Len(c) + Len(t)
        /\ \A p \in 1..(Len(c) + Len(t)) :
             (c \o t)[p] = IF p <= Len(c) THEN c[p] ELSE t[p - Len(c)]
    BY <1>3, ConcatProperties
  <2> QED
    BY <1>5, <2>1
<1>7. ASSUME NEW p \in 1..(Len(s) - 1) PROVE u[p] = c[p]
  <2>1. p \in 1..(Len(c) + Len(t)) /\ p <= Len(c)
    BY <1>1, <1>3
  <2> QED
    BY <1>6, <2>1
<1>8. ASSUME NEW k \in 1..Len(t) PROVE u[Len(s) - 1 + k] = t[k]
  <2>1. /\ Len(s) - 1 + k \in 1..(Len(c) + Len(t)) /\ ~(Len(s) - 1 + k <= Len(c))
        /\ (Len(s) - 1 + k) - Len(c) = k
    BY <1>1, <1>3
  <2> QED
    BY <1>6, <2>1
<1> QED
  BY <1>3, <1>4, <1>6, <1>7, <1>8 DEF Follows

(* Taking out an element that would not be chosen changes nothing; taking   *)
(* out the first that would be, takes it off the front of what is chosen.   *)
LEMMA ChosenWithout ==
  ASSUME NEW T, NEW s \in Seq(T), NEW i \in DOMAIN s, NEW S
  PROVE  /\ s[i] \notin S => Chosen(Without(s, i), S) = Chosen(s, S)
         /\ s[i] \in S /\ (\A j \in 1..(i - 1) : s[j] \notin S) =>
              Chosen(s, S) = <<s[i]>> \o Chosen(Without(s, i), S)
         /\ Without(s, i) \in Seq(T)
<1> DEFINE x == s[i]
<1>0. PICK a, b \in Seq(T) : Halves(a, b, s, i)
  BY Splits
<1>1. /\ Len(a) = i - 1 /\ \A j \in 1..(i - 1) : a[j] = s[j]
      /\ s = (a \o <<x>>) \o b /\ Without(s, i) = a \o b
  BY <1>0 DEF Halves
<1>2. x \in T
  BY LenProperties, ElementOfSeq
<1> DEFINE one == <<x>>
           A == Chosen(a, S)
           O == Chosen(one, S)
           B == Chosen(b, S)
<1>3. one \in Seq(T) /\ a \o one \in Seq(T) /\ a \o b \in Seq(T)
  <2>1. one \in Seq(T)
    BY <1>2
  <2> HIDE DEF one
  <2> QED
    BY <2>1, ConcatProperties
<1>4. /\ Chosen(s, S) = (A \o O) \o B
      /\ Chosen(Without(s, i), S) = A \o B
  <2>1. s = (a \o one) \o b
    BY <1>1
  <2> HIDE DEF one, x
  <2>2. Chosen((a \o one) \o b, S) = Chosen(a \o one, S) \o B
    <3> DEFINE c == a \o one
    <3>1. c \in Seq(T)
      BY <1>3
    <3> HIDE DEF c
    <3>2. Chosen(c \o b, S) = Chosen(c, S) \o B
      BY <3>1, ChosenConcat
    <3> QED
      BY <3>2 DEF c
  <2>3. Chosen(a \o one, S) = A \o O
    BY <1>3, ChosenConcat
  <2>4. Chosen(a \o b, S) = A \o B
    BY ChosenConcat
  <2> QED
    BY <1>1, <2>1, <2>2, <2>3, <2>4
<1>5. A \in Seq(T) /\ B \in Seq(T)
  <2>1. A \in Seq(T \cap S) /\ B \in Seq(T \cap S) /\ T \cap S \subseteq T
    BY ChosenType
  <2> HIDE DEF A, B
  <2> QED
    BY <2>1, SeqMonotonic
<1>6. x \notin S => O = <<>>
  <2>1. DOMAIN one = {1} /\ one[1] = x
    OBVIOUS
  <2> HIDE DEF one, x
  <2> QED
    BY <1>3, <2>1, ChosenNone
<1>7. x \in S => O = one
  BY ChosenOne
<1>8. (\A j \in 1..(i - 1) : s[j] \notin S) => A = <<>>
  <2>1. DOMAIN a = 1..(i - 1)
    BY <1>1, LenProperties
  <2> QED
    BY <1>1, <2>1, ChosenNone
<1>9. x \notin S => Chosen(Without(s, i), S) = Chosen(s, S)
  <2> HIDE DEF A, B, O, x
  <2> QED
    BY <1>4, <1>5, <1>6, ConcatEmptySeq
<1>10. x \in S /\ (\A j \in 1..(i - 1) : s[j] \notin S) =>
         Chosen(s, S) = one \o Chosen(Without(s, i), S)
  <2> HIDE DEF A, B, O, x, one
  <2>1. <<>> \o one = one /\ <<>> \o B = B
    BY <1>3, <1>5, ConcatEmptySeq
  <2> QED
    BY <1>4, <1>7, <1>8, <2>1
<1> QED
  BY <1>1, <1>3, <1>9, <1>10

-----------------------------------------------------------------------------
(* The inductive invariant.                                                 *)

DataOf(f) ==
  {pkt \in Packets : pkt.type = "Data" /\ pkt.src = SenderAddrOf(f) /\ pkt.dest = AckerAddrOf(f)}

AcksOf(f) ==
  {pkt \in Packets : pkt.type = "Ack" /\ pkt.src = AckerAddrOf(f) /\ pkt.dest = SenderAddrOf(f)}

(* The objects that packets are pushed to, those that get acks, and the     *)
(* pushes to one of them of a flow's packets or acks.                       *)
Kinds == {"Delay", "Link", "Router", "Acker", "Aggregator", "Sender"}

PlaceOf(kind, f) ==
  CASE kind = "Delay" -> DelayOf(f) [] kind = "Link" -> LinkId [] kind = "Router" -> RouterId
    [] kind = "Acker" -> AckerOf(f) [] kind = "Aggregator" -> AggOf(f)
    [] kind = "Sender" -> SenderOf(f)

LoadOf(kind, f) == IF kind \in {"Aggregator", "Sender"} THEN AcksOf(f) ELSE DataOf(f)

At(kind, f) ==
  {e \in Actions : e.act = "Push" /\ e.to = PlaceOf(kind, f) /\ e.pkt \in LoadOf(kind, f)}

(* The events: a transmit opportunity of the link, and a sender's turn. *)
LinkTurns == {e \in Actions : e.act = "Event" /\ e.to = LinkId}

SenderTurns(f) == {e \in Actions : e.act = "Event" /\ e.to = SenderOf(f)}

Placed(e) ==
  \/ e \in LinkTurns
  \/ \E f \in Flows : e \in SenderTurns(f)
  \/ \E kind \in Kinds, f \in Flows : e \in At(kind, f)

(* When an action is due, at time t and with the aggregators' next_opp. *)
GapBefore(f, earlier, later) ==
  \E g \in AggGaps[f] : earlier + g <= later

Due(e, t, opp) ==
  /\ e.when >= t
  /\ \A f \in Flows :
       /\ e \in At("Delay", f) => e.when = e.pkt.sentTime /\ e.when <= t
       /\ e \in At("Link", f) => e.when = e.pkt.sentTime + Delays[f] /\ e.pkt.sentTime <= t
       /\ e \in At("Router", f) \cup At("Acker", f) \cup At("Aggregator", f) => e.when <= t
       /\ e \in At("Sender", f) => e.when = opp[f] \/ GapBefore(f, e.when, opp[f])

(* When one is due that is scheduled at time t. *)
Fresh(e, t, opp) ==
  /\ e.when >= t
  /\ \A f \in Flows :
       /\ e \in At("Delay", f) => e.when = t /\ e.pkt.sentTime = t
       /\ e \in At("Link", f) => e.when = t + Delays[f] /\ e.pkt.sentTime = t
       /\ e \in At("Router", f) \cup At("Acker", f) \cup At("Aggregator", f) => e.when = t
       /\ e \in At("Sender", f) => e.when = opp[f]

Typed ==
  /\ now \in 0..Till /\ agenda \in Seq(Actions) /\ buffer \in Seq(Packets)
  /\ bufsize \in BufSizes /\ opps \in Nat
  /\ sent \in [Flows -> 0..MaxPkts] /\ nextOpp \in [Flows -> Nat]
  /\ trace \in [link : Links, cur : Nat, next : Nat, switch : Nat]

Scheduled == \A i \in DOMAIN agenda : Placed(agenda[i]) /\ Due(agenda[i], now, nextOpp)

Buffered == \A i \in DOMAIN buffer : \E f \in Flows : buffer[i] \in DataOf(f)

(* Of what is at one place of one flow's, what was scheduled first is due first. *)
InOrder ==
  \A kind \in Kinds, f \in Flows, i, j \in DOMAIN agenda :
    i < j /\ agenda[i] \in At(kind, f) /\ agenda[j] \in At(kind, f) =>
      agenda[i].when <= agenda[j].when

Apart ==
  \A f \in Flows, i, j \in DOMAIN agenda :
    /\ agenda[i] \in At("Sender", f) /\ agenda[j] \in At("Sender", f)
    /\ agenda[i].when < agenda[j].when
    => GapBefore(f, agenda[i].when, agenda[j].when)

OppsNear == \A f \in Flows : nextOpp[f] <= now + Longest(AggGaps[f])

(* The link's next opportunity, and where its trace stands. *)
OnSchedule(e, link, n, t) ==
  /\ link.kind \in {"Const", "Mahimahi"} => e.when = OpportunityTime(link, n)
  /\ n = 0 => e.when = 0
  /\ link.kind = "Const" => e.when <= t + Gap(link.rate)

LinkReady ==
  /\ trace.link.kind = "Mahimahi" => trace.next = opps % Len(trace.link.times)
  /\ trace.link.kind = "Piecewise" => trace.cur < Len(trace.link.rates)
  /\ \E i \in DOMAIN agenda :
       /\ agenda[i] \in LinkTurns /\ OnSchedule(agenda[i], trace.link, opps, now)
       /\ \A j \in DOMAIN agenda : agenda[j] \in LinkTurns => j = i

(* The i-th packet of the buffer leaves at the i-th opportunity from now,   *)
(* which is early enough.                                                   *)
Bounded == trace.link.kind = "Const" /\ bufsize.kind = "Finite"

InTime(e) ==
  /\ e.act = "Push" => e.when <= LatestArrival(e.pkt)
                                   + (IF Obj(e.to).kind # "Sender" THEN 0
                                      ELSE Longest(AggGaps[FlowOf(e.pkt)]))
  /\ e \in LinkTurns =>
       \A p \in DOMAIN buffer :
         e.when + (p - 1) * Gap(trace.link.rate) <= LatestArrival(buffer[p])

BufferBounded ==
  Bounded => Len(buffer) <= bufsize.size /\ \A i \in DOMAIN agenda : InTime(agenda[i])

NetInv ==
  /\ Typed /\ Scheduled /\ Buffered /\ InOrder /\ Apart /\ OppsNear
  /\ LinkReady /\ BufferBounded

-----------------------------------------------------------------------------
(* What is where.                                                           *)

LEMMA PlacesAre ==
  ASSUME NEW kind \in Kinds, NEW f \in Flows
  PROVE  PlaceOf(kind, f) \in Ids /\ Obj(PlaceOf(kind, f)).kind = kind
<1>1. \A k, g, addr, next, dest : Object(k, g, addr, next, dest).kind = k
  BY DEF Object
<1>2. /\ SenderOf(f) \in Ids /\ DelayOf(f) \in Ids /\ AggOf(f) \in Ids /\ AckerOf(f) \in Ids
      /\ LinkId \in Ids /\ RouterId \in Ids
  BY ObjectsAre, NumFlowsAssumption
     DEF Flows, SenderOf, DelayOf, AggOf, AckerOf, LinkId, RouterId
<1>3. /\ Obj(LinkId).kind = "Link" /\ Obj(RouterId).kind = "Router"
      /\ Obj(SenderOf(f)).kind = "Sender" /\ Obj(DelayOf(f)).kind = "Delay"
      /\ Obj(AggOf(f)).kind = "Aggregator" /\ Obj(AckerOf(f)).kind = "Acker"
  BY <1>1, ObjectsAre
<1> QED
  BY <1>2, <1>3 DEF Kinds, PlaceOf

(* FlowOf finds the flow of a packet or an ack by its source.               *)
LEMMA FlowOfIs ==
  ASSUME NEW f \in Flows, NEW pkt \in DataOf(f) \cup AcksOf(f)
  PROVE  FlowOf(pkt) = f
<1>1. \A k, g, addr, next, dest : Object(k, g, addr, next, dest).flow = g
  BY DEF Object
<1>2. Obj(SenderOf(f)).flow = f /\ Obj(AckerOf(f)).flow = f
  BY <1>1, ObjectsAre
<1>3. SenderOf(f) \in Ids /\ AckerOf(f) \in Ids
  BY PlacesAre DEF Kinds, PlaceOf
<1>4. CASE pkt \in DataOf(f)
  <2>1. \A id \in Ids : Obj(id).addr = pkt.src <=> id = SenderOf(f)
    BY <1>4, AddressesDiffer DEF DataOf
  <2>2. (CHOOSE id \in Ids : Obj(id).addr = pkt.src) = SenderOf(f)
    BY <1>3, <2>1
  <2> QED
    BY <1>2, <2>2 DEF FlowOf
<1>5. CASE pkt \in AcksOf(f)
  <2>1. \A id \in Ids : Obj(id).addr = pkt.src <=> id = AckerOf(f)
    BY <1>5, AddressesDiffer DEF AcksOf
  <2>2. (CHOOSE id \in Ids : Obj(id).addr = pkt.src) = AckerOf(f)
    BY <1>3, <2>1
  <2> QED
    BY <1>2, <2>2 DEF FlowOf
<1> QED
  BY <1>4, <1>5

(* What a push at one of a flow's places is.                                *)
LEMMA AtIs ==
  ASSUME NEW kind \in Kinds, NEW f \in Flows, NEW e \in At(kind, f)
  PROVE  /\ e \in Actions /\ e.act = "Push" /\ Obj(e.to).kind = kind /\ FlowOf(e.pkt) = f
         /\ e.to = PlaceOf(kind, f) /\ e.pkt \in LoadOf(kind, f)
<1>1. e \in Actions /\ e.act = "Push" /\ e.to = PlaceOf(kind, f) /\ e.pkt \in LoadOf(kind, f)
  BY DEF At
<1>2. e.pkt \in DataOf(f) \cup AcksOf(f)
  BY <1>1 DEF LoadOf
<1> QED
  BY <1>1, <1>2, FlowOfIs, PlacesAre

(* An action is at one place, of one flow's. *)
LEMMA AtDiffers ==
  ASSUME NEW kind \in Kinds, NEW f \in Flows, NEW e \in At(kind, f),
         NEW other \in Kinds, NEW g \in Flows, e \in At(other, g)
  PROVE  kind = other /\ f = g
BY AtIs

(* An opportunity of the link, a turn of a sender and a push differ.        *)
LEMMA TurnsDiffer ==
  ASSUME NEW e
  PROVE  /\ e \in LinkTurns => \A kind \in Kinds, f \in Flows : e \notin At(kind, f)
         /\ \A g \in Flows : e \in SenderTurns(g) =>
              e \notin LinkTurns /\ \A kind \in Kinds, f \in Flows : e \notin At(kind, f)
<1>1. \A g \in Flows : SenderOf(g) # LinkId
  BY DEF Flows, SenderOf, LinkId
<1> QED
  BY <1>1 DEF LinkTurns, SenderTurns, At

(* What the properties call a push at a place is what the invariant does.   *)
LEMMA PushesAtIs ==
  ASSUME NEW e, Placed(e), NEW kind \in Kinds, NEW f \in Flows
  PROVE  e \in PushesAt(kind, f) <=> e \in At(kind, f)
<1>1. ASSUME e \in At(kind, f) PROVE e \in PushesAt(kind, f)
  BY <1>1, AtIs DEF PushesAt
<1>2. ASSUME e \in PushesAt(kind, f) PROVE e \in At(kind, f)
  <2>1. e.act = "Push" /\ Obj(e.to).kind = kind /\ FlowOf(e.pkt) = f
    BY <1>2 DEF PushesAt
  <2>2. PICK k \in Kinds, g \in Flows : e \in At(k, g)
    BY <2>1 DEF Placed, LinkTurns, SenderTurns
  <2>3. k = kind /\ g = f
    BY <2>1, <2>2, AtIs
  <2> QED
    BY <2>2, <2>3
<1> QED
  BY <1>1, <1>2

(* Which action an object's handler is called with. *)
LEMMA PushTo ==
  ASSUME NEW e, Placed(e), e.act = "Push"
  PROVE  Obj(e.to).kind \in Kinds /\ \E f \in Flows : e \in At(Obj(e.to).kind, f)
<1>1. PICK k \in Kinds, g \in Flows : e \in At(k, g)
  BY DEF Placed, LinkTurns, SenderTurns
<1> QED
  BY <1>1, AtIs

(* An event for the link is an opportunity, one for a sender its turn.      *)
LEMMA EventAt ==
  ASSUME NEW e, Placed(e), e.act = "Event"
  PROVE  /\ Obj(e.to).kind = "Link" => e \in LinkTurns
         /\ Obj(e.to).kind = "Sender" => \E f \in Flows : e \in SenderTurns(f)
<1>1. e \in LinkTurns \/ \E f \in Flows : e \in SenderTurns(f)
  BY DEF Placed, At
<1>2. \A f \in Flows : Obj(SenderOf(f)).kind = "Sender"
  BY PlacesAre DEF Kinds, PlaceOf
<1>3. Obj(LinkId).kind = "Link"
  BY ObjectsAre DEF Object
<1> QED
  BY <1>1, <1>2, <1>3 DEF LinkTurns, SenderTurns

-----------------------------------------------------------------------------
(* The samples of agg_intersend.                                            *)
LEMMA LongestIs ==
  ASSUME NEW f \in Flows
  PROVE  /\ Longest(AggGaps[f]) \in AggGaps[f] /\ Longest(AggGaps[f]) \in Nat
         /\ \A g \in AggGaps[f] : g \in Nat /\ g <= Longest(AggGaps[f])
<1>1. AggGaps[f] \in SUBSET Nat /\ \E l \in AggGaps[f] : \A g \in AggGaps[f] : g <= l
  BY NetworkAssumption
<1>2. /\ Longest(AggGaps[f]) \in AggGaps[f]
      /\ \A g \in AggGaps[f] : g <= Longest(AggGaps[f])
  BY <1>1 DEF Longest
<1> QED
  BY <1>1, <1>2

-----------------------------------------------------------------------------
(* Where next_opp may move on to.                                           *)

(* from of MovedOn, for the times that are not before `low'. *)
Moves(from, low, gaps, t) ==
  from = [o \in low..(t + Longest(gaps)) |->
            IF o > t THEN {o} ELSE UNION {from[o + g] : g \in gaps \ {0}}]

(* MovedOn's function exists: with samples of 0 left out, next_opp grows    *)
(* until it is in the future.                                               *)
LEMMA MovesExist ==
  ASSUME NEW f \in Flows, NEW t \in Nat, NEW low \in Nat, low <= t
  PROVE  \E from : Moves(from, low, AggGaps[f], t)
<1> DEFINE gaps == AggGaps[f]
           high == t + Longest(gaps)
           Stuck == {k \in Nat : ~\E from : Moves(from, high + 1 - k, gaps, t)}
<1>0. high \in Nat /\ t \in Nat /\ \A g \in gaps : g \in Nat /\ t + g <= high
  BY LongestIs
<1>1. SUFFICES ASSUME Stuck # {} PROVE FALSE
  <2>1. high + 1 - low \in Nat /\ high + 1 - (high + 1 - low) = low
    <3>1. low <= high
      BY <1>0, LongestIs
    <3> HIDE DEF high
    <3> QED
      BY <1>0, <3>1
  <2> HIDE DEF high
  <2>2. Stuck = {} => \E from : Moves(from, high + 1 - (high + 1 - low), gaps, t)
    BY <2>1
  <2> QED
    BY <2>1, <2>2
<1>2. PICK m \in Stuck : \A k \in Stuck : m <= k
  BY <1>1, LeastNat
<1>3. m \in Nat /\ ~\E from : Moves(from, high + 1 - m, gaps, t)
  BY <1>2
<1> HIDE DEF gaps
<1>4. m # 0
  <2> DEFINE empty == [o \in (high + 1)..high |-> {}]
  <2>1. (high + 1)..high = {} /\ high + 1 - 0 = high + 1
    BY <1>0
  <2>2. empty = [o \in (high + 1 - 0)..(t + Longest(gaps)) |->
                   IF o > t THEN {o} ELSE UNION {empty[o + g] : g \in gaps \ {0}}]
    BY <2>1
  <2> HIDE DEF empty
  <2>3. Moves(empty, high + 1 - 0, gaps, t)
    BY <2>2 DEF Moves
  <2> QED
    BY <1>3, <2>3
<1>5. m - 1 \in Nat /\ m - 1 \notin Stuck
  BY <1>2, <1>3, <1>4
<1>6. PICK from : Moves(from, high + 1 - (m - 1), gaps, t)
  BY <1>5
<1> DEFINE start == high + 1 - m
           h == [o \in start..high |-> IF o = start
                   THEN IF o > t THEN {o} ELSE UNION {from[o + g] : g \in gaps \ {0}}
                   ELSE from[o]]
<1>7. start \in Int /\ start + 1 = high + 1 - (m - 1) /\ start <= high
  BY <1>0, <1>3, <1>4
<1>8. high = t + Longest(gaps)
  OBVIOUS
<1> HIDE DEF start, high
<1>9. ASSUME NEW o \in start..high
      PROVE  h[o] = IF o > t THEN {o} ELSE UNION {h[o + g] : g \in gaps \ {0}}
  <2>1. CASE o > t
    <3>1. CASE o = start
      BY <2>1, <3>1
    <3>2. CASE o # start
      <4>1. o \in (start + 1)..high
        BY <1>0, <1>7, <3>2
      <4>2. from[o] = {o}
        BY <1>6, <1>7, <1>8, <2>1, <4>1 DEF Moves
      <4> QED
        BY <2>1, <3>2, <4>2
    <3> QED
      BY <3>1, <3>2
  <2>2. CASE ~(o > t)
    <3>1. \A g \in gaps \ {0} : o + g \in start..high /\ o + g # start
      BY <1>0, <1>7, <2>2
    <3>2. \A g \in gaps \ {0} : h[o + g] = from[o + g]
      BY <3>1
    <3>3. h[o] = UNION {from[o + g] : g \in gaps \ {0}}
      <4>1. CASE o = start
        BY <2>2, <4>1
      <4>2. CASE o # start
        <5>1. o \in (start + 1)..high
          BY <1>0, <1>7, <4>2
        <5>2. from[o] = UNION {from[o + g] : g \in gaps \ {0}}
          BY <1>6, <1>7, <1>8, <2>2, <5>1 DEF Moves
        <5> QED
          BY <4>2, <5>2
      <4> QED
        BY <4>1, <4>2
    <3> HIDE DEF h
    <3>4. {from[o + g] : g \in gaps \ {0}} = {h[o + g] : g \in gaps \ {0}}
      BY <3>2
    <3> QED
      BY <2>2, <3>3, <3>4
  <2> QED
    BY <2>1, <2>2
<1>10. DOMAIN h = start..high /\ h = [o \in DOMAIN h |-> h[o]]
  OBVIOUS
<1> HIDE DEF h
<1>11. Moves(h, start, gaps, t)
  BY <1>8, <1>9, <1>10 DEF Moves
<1> QED
  BY <1>3, <1>11 DEF start

(* One that moves lands after t, at least one sample on, and no further     *)
(* after t than the longest.                                                *)
LEMMA MovesForward ==
  ASSUME NEW f \in Flows, NEW t \in Nat, NEW low \in Nat, low <= t,
         NEW from, Moves(from, low, AggGaps[f], t), NEW x \in from[low]
  PROVE  /\ x \in Nat /\ x > t /\ x <= t + Longest(AggGaps[f])
         /\ GapBefore(f, low, x)
<1> DEFINE gaps == AggGaps[f]
           high == t + Longest(gaps)
           Good(o) == \A y \in from[o] :
                        /\ y \in Nat /\ y > t /\ y >= o /\ y <= high
                        /\ o <= t => \E g \in gaps : o + g <= y
           Wrong == {k \in 0..(high - low) : ~Good(high - k)}
<1>1. high \in Nat /\ t \in Nat /\ t <= high /\ \A g \in gaps : g \in Nat /\ t + g <= high
  BY LongestIs
<1>2. \A o \in low..high :
        from[o] = IF o > t THEN {o} ELSE UNION {from[o + g] : g \in gaps \ {0}}
  BY DEF Moves
<1> HIDE DEF gaps, high
<1>3. Wrong = {}
  <2>1. SUFFICES ASSUME Wrong # {} PROVE FALSE
    OBVIOUS
  <2> HIDE DEF Good
  <2>2. PICK m \in Wrong : \A k \in Wrong : m <= k
    <3>1. Wrong \in SUBSET Nat
      BY <1>1
    <3> HIDE DEF Wrong
    <3> QED
      BY <2>1, <3>1, LeastNat
  <2>3. m \in 0..(high - low) /\ ~Good(high - m) /\ m \in Nat
    BY <1>1, <2>2
  <2> DEFINE o == high - m
  <2>4. o \in low..high /\ o \in Nat
    BY <1>1, <2>3
  <2>5. Good(o)
    <3>1. CASE o > t
      <4>1. from[o] = {o}
        BY <1>2, <2>4, <3>1
      <4>2. o \in Nat /\ o <= high
        BY <1>1, <2>4
      <4> HIDE DEF o
      <4> QED
        BY <1>1, <3>1, <4>1, <4>2 DEF Good
    <3>2. CASE ~(o > t)
      <4>1. from[o] = UNION {from[o + g] : g \in gaps \ {0}}
        BY <1>2, <2>4, <3>2
      <4>2. ASSUME NEW y \in from[o]
            PROVE  /\ y \in Nat /\ y > t /\ y >= o /\ y <= high
                   /\ \E g \in gaps : o + g <= y
        <5>1. PICK g \in gaps \ {0} : y \in from[o + g]
          BY <4>1, <4>2
        <5>2. g \in Nat /\ g # 0 /\ t + g <= high
          BY <1>1
        <5>3. /\ m - g \in 0..(high - low) /\ ~(m <= m - g) /\ high - (m - g) = o + g
          BY <1>1, <2>3, <2>4, <3>2, <5>2
        <5>4. Good(high - (m - g))
          BY <2>2, <5>3
        <5>5. y \in Nat /\ y > t /\ y >= o + g /\ y <= high
          BY <5>1, <5>3, <5>4 DEF Good
        <5>6. y >= o
          BY <2>4, <5>2, <5>5
        <5>7. o + g <= y
          BY <2>4, <5>2, <5>5
        <5> QED
          BY <5>5, <5>6, <5>7
      <4> HIDE DEF o
      <4> QED
        BY <4>2 DEF Good
    <3> QED
      BY <3>1, <3>2
  <2> QED
    BY <2>3, <2>5
<1>4. high - low \in 0..(high - low) /\ high - (high - low) = low
  BY <1>1
<1>5. Good(low)
  <2> HIDE DEF Good
  <2> QED
    BY <1>3, <1>4
<1>6. x \in Nat /\ x > t /\ x <= high /\ \E g \in gaps : low + g <= x
  BY <1>5
<1> QED
  BY <1>6 DEF gaps, high, GapBefore

(* Aggregator::push moves next_opp to a time that is not past, by nothing   *)
(* or by at least one sample, and by no more than one beyond now.           *)
LEMMA MovedOnIs ==
  ASSUME NEW f \in Flows, NEW opp \in Nat, NEW t \in Nat, NEW new \in MovedOn(opp, AggGaps[f], t)
  PROVE  /\ new \in Nat /\ new >= t /\ new >= opp
         /\ new = opp \/ GapBefore(f, opp, new)
         /\ opp <= t + Longest(AggGaps[f]) => new <= t + Longest(AggGaps[f])
<1>1. CASE opp > t
  <2>1. new = opp
    BY <1>1 DEF MovedOn
  <2> QED
    BY <1>1, <2>1
<1>2. CASE opp <= t /\ AggGaps[f] = {0}
  <2>1. new = t
    BY <1>2 DEF MovedOn
  <2>2. 0 \in AggGaps[f] /\ opp + 0 <= t /\ t <= t + Longest(AggGaps[f])
    BY <1>2, LongestIs
  <2> QED
    BY <1>2, <2>1, <2>2 DEF GapBefore
<1>3. CASE opp <= t /\ AggGaps[f] # {0}
  <2> DEFINE from == CHOOSE g : g = [o \in opp..(t + Longest(AggGaps[f])) |->
                       IF o > t THEN {o} ELSE UNION {g[o + h] : h \in AggGaps[f] \ {0}}]
  <2>1. new \in from[opp]
    BY <1>3 DEF MovedOn
  <2>2. \E g : Moves(g, opp, AggGaps[f], t)
    BY <1>3, MovesExist
  <2>3. Moves(from, opp, AggGaps[f], t)
    BY <2>2 DEF Moves
  <2> HIDE DEF from
  <2>4. new \in Nat /\ new > t /\ new <= t + Longest(AggGaps[f]) /\ GapBefore(f, opp, new)
    BY <1>3, <2>1, <2>3, MovesForward
  <2> QED
    BY <1>3, <2>4
<1> QED
  BY <1>1, <1>2, <1>3

-----------------------------------------------------------------------------
(* The link's trace.                                                        *)
Traces == [link : Links, cur : Nat, next : Nat, switch : Nat]

(* The gap of a constant rate is a number of microseconds.                  *)
LEMMA GapIs ==
  ASSUME NEW rate \in Nat \ {0}
  PROVE  Gap(rate) \in Nat
<1>1. Second * PktSize \in Nat
  BY TraceAssumption
<1> HIDE DEF Gap
<1> QED
  BY <1>1 DEF Gap

(* A new trace stands at its beginning.                                     *)
LEMMA NewTraceIs ==
  ASSUME NEW link \in Links
  PROVE  /\ NewTrace(link) \in Traces /\ NewTrace(link).link = link
         /\ NewTrace(link).cur = 0 /\ NewTrace(link).next = 0
<1>1. IsLink(link)
  BY NetworkAssumption
<1>2. link.kind = "Piecewise" => link.spans[1] \in Nat
  <2>1. link.kind = "Piecewise" =>
          link.spans \in Seq(Nat) /\ Len(link.spans) = Len(link.rates) /\ link.rates # <<>>
            /\ link.rates \in Seq(Nat \ {0})
    BY <1>1 DEF IsLink
  <2>2. ASSUME link.kind = "Piecewise" PROVE 1 \in 1..Len(link.spans)
    <3>1. Len(link.rates) \in Nat /\ Len(link.rates) # 0
      BY <2>1, <2>2, EmptySeq, LenProperties
    <3> QED
      BY <2>1, <2>2, <3>1
  <2> QED
    BY <2>1, <2>2, ElementOfSeq
<1> QED
  BY <1>2 DEF NewTrace, Traces

(* At a constant rate, and in a trace file. *)
LEMMA ConstTimes ==
  ASSUME NEW link \in Links, link.kind = "Const", NEW k \in Nat
  PROVE  /\ Gap(link.rate) \in Nat
         /\ OpportunityTime(link, k + 1) = OpportunityTime(link, k) + Gap(link.rate)
         /\ OpportunityTime(link, 0) = 0
<1>1. link.rate \in Nat \ {0}
  BY NetworkAssumption DEF IsLink
<1>2. Gap(link.rate) \in Nat
  BY <1>1, GapIs
<1> DEFINE g == Gap(link.rate)
<1>3. \A n \in Nat : OpportunityTime(link, n) = n * g
  BY DEF OpportunityTime
<1> HIDE DEF g
<1>4. g \in Nat
  BY <1>2 DEF g
<1>5. (k + 1) * g = k * g + g /\ 0 * g = 0
  BY <1>4
<1> QED
  BY <1>2, <1>3, <1>5 DEF g

(* Division by n, and its result from quotient and remainder. *)
LEMMA DivMod ==
  ASSUME NEW n \in Nat, n # 0, NEW k \in Nat
  PROVE  k % n \in 0..(n - 1) /\ k \div n \in Nat /\ k = n * (k \div n) + (k % n)
OBVIOUS

(* Quotient and remainder are determined by the dividend.                   *)
LEMMA DivModUnique ==
  ASSUME NEW n \in Nat, n # 0, NEW q \in Nat, NEW r \in 0..(n - 1)
  PROVE  (n * q + r) % n = r /\ (n * q + r) \div n = q
<1> DEFINE k == n * q + r
           p == k \div n
           m == k % n
<1>1. n * q \in Nat
  OBVIOUS
<1>2. k \in Nat
  BY <1>1
<1>3. m \in 0..(n - 1) /\ p \in Nat /\ k = n * p + m
  BY <1>2, DivMod
<1>4. n * q + r = n * p + m
  BY <1>3
<1> HIDE DEF p, m, k
<1>5. \A x, y \in Nat, a, b \in 0..(n - 1) : x < y => n * x + a < n * y + b
  <2> SUFFICES ASSUME NEW x \in Nat, NEW y \in Nat, NEW a \in 0..(n - 1), NEW b \in 0..(n - 1),
                      x < y
               PROVE  n * x + a < n * y + b
    OBVIOUS
  <2>1. n * (x + 1) <= n * y
    <3>1. y = (x + 1) + (y - (x + 1)) /\ y - (x + 1) \in Nat
      OBVIOUS
    <3>2. n * y = n * (x + 1) + n * (y - (x + 1)) /\ n * (y - (x + 1)) \in Nat
      BY <3>1
    <3>3. n * (x + 1) \in Nat
      OBVIOUS
    <3> QED
      BY <3>2, <3>3
  <2>2. n * (x + 1) = n * x + n /\ n * x \in Nat /\ n * y \in Nat
    OBVIOUS
  <2> QED
    BY <2>1, <2>2
<1>6. p = q
  BY <1>3, <1>4, <1>5
<1> QED
  BY <1>1, <1>3, <1>4, <1>6 DEF p, m, k

(* The remainder and the quotient of a number's neighbours. *)
LEMMA DivModNext ==
  ASSUME NEW n \in Nat, n # 0, NEW k \in Nat
  PROVE  /\ ((k % n) + 1) % n = (k + 1) % n
         /\ k % n # 0 => (k - 1) % n = (k % n) - 1 /\ (k - 1) \div n = k \div n
         /\ k % n = 0 /\ k # 0 => /\ (k - 1) % n = n - 1 /\ (k - 1) \div n \in Nat
                                /\ k \div n = (k - 1) \div n + 1
<1> DEFINE r == k % n
           q == k \div n
<1>1. r \in 0..(n - 1) /\ q \in Nat /\ k = n * q + r
  BY DivMod
<1> HIDE DEF r, q
<1>2. (r + 1) % n = (k + 1) % n
  <2>1. CASE r + 1 = n
    <3>1. k + 1 = n * (q + 1) + 0 /\ r + 1 = n * 1 + 0 /\ 0 \in 0..(n - 1) /\ q + 1 \in Nat
      BY <1>1, <2>1
    <3>2. (n * (q + 1) + 0) % n = 0 /\ (n * 1 + 0) % n = 0
      BY <3>1, DivModUnique
    <3> QED
      BY <3>1, <3>2
  <2>2. CASE r + 1 # n
    <3>1. k + 1 = n * q + (r + 1) /\ r + 1 = n * 0 + (r + 1) /\ r + 1 \in 0..(n - 1)
      <4>1. n * q \in Nat
        BY <1>1
      <4> QED
        BY <1>1, <2>2, <4>1
    <3>2. (n * q + (r + 1)) % n = r + 1 /\ (n * 0 + (r + 1)) % n = r + 1
      BY <1>1, <3>1, DivModUnique
    <3> QED
      BY <3>1, <3>2
  <2> QED
    BY <2>1, <2>2
<1>3. ASSUME r # 0 PROVE (k - 1) % n = r - 1 /\ (k - 1) \div n = q
  <2>1. k - 1 = n * q + (r - 1) /\ r - 1 \in 0..(n - 1)
    <3>1. n * q \in Nat
      BY <1>1
    <3> QED
      BY <1>1, <1>3, <3>1
  <2>2. (n * q + (r - 1)) % n = r - 1 /\ (n * q + (r - 1)) \div n = q
    BY <1>1, <2>1, DivModUnique
  <2> QED
    BY <2>1, <2>2
<1>4. ASSUME r = 0, k # 0
      PROVE  (k - 1) % n = n - 1 /\ (k - 1) \div n = q - 1 /\ q - 1 \in Nat
  <2>1. q # 0
    <3>1. n * 0 = 0
      OBVIOUS
    <3> QED
      BY <1>1, <1>4, <3>1
  <2>2. k - 1 = n * (q - 1) + (n - 1) /\ n - 1 \in 0..(n - 1) /\ q - 1 \in Nat
    <3>1. q - 1 \in Nat /\ q = (q - 1) + 1
      BY <1>1, <2>1
    <3>2. n * q = n * (q - 1) + n /\ n * (q - 1) \in Nat
      BY <3>1
    <3> QED
      BY <1>1, <1>4, <3>1, <3>2
  <2>3. (n * (q - 1) + (n - 1)) % n = n - 1 /\ (n * (q - 1) + (n - 1)) \div n = q - 1
    BY <2>2, DivModUnique
  <2> QED
    BY <2>2, <2>3
<1> QED
  BY <1>1, <1>2, <1>3, <1>4 DEF r, q

(* The time of an opportunity of a trace file is that of the one before and *)
(* the gap its line stands for, from one pass to the next as well.          *)
LEMMA MahimahiTimes ==
  ASSUME NEW link \in Links, link.kind = "Mahimahi", NEW k \in Nat
  PROVE  /\ Len(link.times) \in Nat \ {0}
         /\ MahimahiGap(link, k % Len(link.times)) \in Nat
         /\ OpportunityTime(link, k + 1)
              = OpportunityTime(link, k) + MahimahiGap(link, k % Len(link.times))
         /\ OpportunityTime(link, 0) = 0
         /\ ((k % Len(link.times)) + 1) % Len(link.times) = (k + 1) % Len(link.times)
<1> DEFINE T == link.times
           n == Len(T)
           at == k % n
<1>1. /\ T # <<>> /\ T \in Seq(Nat)
      /\ \A i, j \in DOMAIN T : i <= j => T[i] <= T[j]
  BY NetworkAssumption DEF IsLink
<1>2. n \in Nat /\ n # 0 /\ DOMAIN T = 1..n
  BY <1>1, EmptySeq, LenProperties
<1>3. /\ \A i \in 1..n : T[i] \in Nat
      /\ \A i, j \in 1..n : i <= j => T[i] <= T[j]
  BY <1>1, <1>2, ElementOfSeq
<1>4. OpportunityTime(link, 0) = 0
  BY DEF OpportunityTime
<1>5. \A m \in Nat \ {0} :
        OpportunityTime(link, m) =
          ((m - 1) \div n) * (T[n] - T[1]) + T[((m - 1) % n) + 1] - T[1]
  BY DEF OpportunityTime
<1>6. MahimahiGap(link, at) = T[at + 1] - T[(IF at > 0 THEN at - 1 ELSE 0) + 1]
  BY DEF MahimahiGap
<1>7. at = k % n
  OBVIOUS
<1> HIDE DEF T, n, at
<1>8. at \in 0..(n - 1) /\ (at + 1) % n = (k + 1) % n /\ k \div n \in Nat
  BY <1>2, <1>7, DivMod, DivModNext
<1>9. 1 \in 1..n /\ n \in 1..n /\ at + 1 \in 1..n /\ (at # 0 => at \in 1..n)
  BY <1>2, <1>8
<1>10. T[1] \in Nat /\ T[n] \in Nat /\ T[at + 1] \in Nat /\ (at # 0 => T[at] \in Nat)
  BY <1>3, <1>9
<1>11. MahimahiGap(link, at) = T[at + 1] - (IF at = 0 THEN T[1] ELSE T[at])
  <2>1. (IF at > 0 THEN at - 1 ELSE 0) + 1 = IF at = 0 THEN 1 ELSE at
    BY <1>8
  <2> QED
    BY <1>6, <2>1
<1>12. MahimahiGap(link, at) \in Nat
  <2>1. CASE at = 0
    <3>1. MahimahiGap(link, at) = T[1] - T[1]
      BY <1>11, <2>1
    <3> QED
      BY <1>10, <3>1
  <2>2. CASE at # 0
    <3>1. at <= at + 1
      BY <1>8
    <3>2. T[at] <= T[at + 1]
      BY <1>3, <1>9, <2>2, <3>1
    <3> QED
      BY <1>10, <1>11, <2>2, <3>2
  <2> QED
    BY <2>1, <2>2
<1>13. OpportunityTime(link, k + 1) = (k \div n) * (T[n] - T[1]) + T[at + 1] - T[1]
  <2>1. k + 1 \in Nat \ {0} /\ (k + 1) - 1 = k
    OBVIOUS
  <2> QED
    BY <1>5, <1>7, <2>1
<1> DEFINE d == T[n] - T[1]
<1>14. d \in Int
  BY <1>10
<1>15. OpportunityTime(link, k + 1) = OpportunityTime(link, k) + MahimahiGap(link, at)
  <2>1. CASE k = 0
    <3>1. at = 0 /\ k \div n = 0
      <4>1. k = n * (k \div n) + at
        BY <1>2, <1>7, DivMod
      <4>2. n * (k \div n) \in Nat
        BY <1>2, <1>8
      <4>3. 0 = n * 0 + 0 /\ 0 \in 0..(n - 1)
        BY <1>2
      <4>4. (n * 0 + 0) \div n = 0
        BY <1>2, <4>3, DivModUnique
      <4> QED
        BY <1>8, <2>1, <4>1, <4>2, <4>3, <4>4
    <3>2. OpportunityTime(link, k + 1) = 0 * d + T[1] - T[1]
      BY <1>13, <3>1
    <3>3. MahimahiGap(link, at) = T[1] - T[1]
      BY <1>11, <3>1
    <3> HIDE DEF d
    <3>4. 0 * d = 0
      BY <1>14
    <3> QED
      BY <1>4, <1>10, <2>1, <3>2, <3>3, <3>4
  <2>2. CASE k # 0 /\ at = 0
    <3> DEFINE q == (k - 1) \div n
    <3>1. (k - 1) % n = n - 1 /\ k \div n = q + 1 /\ q \in Nat
      BY <1>2, <1>7, <2>2, DivModNext
    <3>2. OpportunityTime(link, k) = q * d + T[n] - T[1]
      <4>1. (n - 1) + 1 = n /\ k \in Nat \ {0}
        BY <1>2, <2>2
      <4> QED
        BY <1>5, <3>1, <4>1
    <3>3. OpportunityTime(link, k + 1) = (q + 1) * d + T[1] - T[1]
      BY <1>13, <2>2, <3>1
    <3>4. MahimahiGap(link, at) = T[1] - T[1]
      BY <1>11, <2>2
    <3>5. d = T[n] - T[1]
      OBVIOUS
    <3> HIDE DEF q, d
    <3>6. (q + 1) * d = q * d + d /\ q * d \in Int
      BY <1>14, <3>1
    <3> QED
      BY <1>10, <3>2, <3>3, <3>4, <3>5, <3>6
  <2>3. CASE k # 0 /\ at # 0
    <3> DEFINE q == k \div n
    <3>1. (k - 1) % n = at - 1 /\ (k - 1) \div n = q
      BY <1>2, <1>7, <2>3, DivModNext
    <3>2. OpportunityTime(link, k) = q * d + T[at] - T[1]
      <4>1. (at - 1) + 1 = at /\ k \in Nat \ {0}
        BY <1>8, <2>3
      <4> QED
        BY <1>5, <3>1, <4>1
    <3>3. OpportunityTime(link, k + 1) = q * d + T[at + 1] - T[1]
      BY <1>13
    <3>4. MahimahiGap(link, at) = T[at + 1] - T[at]
      BY <1>11, <2>3
    <3>5. q * d \in Int
      BY <1>8, <1>14
    <3> HIDE DEF q, d
    <3> QED
      BY <1>10, <2>3, <3>2, <3>3, <3>4, <3>5
  <2> QED
    BY <2>1, <2>2, <2>3
<1> QED
  BY <1>2, <1>4, <1>8, <1>12, <1>15 DEF n, T, at

(* An opportunity after one at time t, the k-th from 0. *)
LEMMA NextTxIs ==
  ASSUME NEW tr \in Traces, NEW t \in Nat, NEW k \in Nat, NEW tx \in NextTx(tr, t),
         tr.link.kind = "Mahimahi" => tr.next = k % Len(tr.link.times),
         tr.link.kind = "Piecewise" => tr.cur < Len(tr.link.rates)
  PROVE  /\ tx.at \in Nat /\ tx.at >= t /\ tx.trace \in Traces /\ tx.trace.link = tr.link
         /\ tr.link.kind = "Const" => tx.at = t + Gap(tr.link.rate)
         /\ tr.link.kind = "Mahimahi" => tx.trace.next = (k + 1) % Len(tr.link.times)
         /\ tr.link.kind = "Piecewise" => tx.trace.cur < Len(tr.link.rates)
         /\ tr.link.kind \in {"Const", "Mahimahi"} /\ t = OpportunityTime(tr.link, k)
              => tx.at = OpportunityTime(tr.link, k + 1)
<1> DEFINE link == tr.link
<1>1. link \in Links /\ IsLink(link) /\ tr.cur \in Nat /\ tr.next \in Nat /\ tr.switch \in Nat
  BY NetworkAssumption DEF Traces
<1>2. link.kind \in {"Const", "Random", "Piecewise", "Mahimahi"}
  BY <1>1 DEF IsLink
<1>3. CASE link.kind = "Const"
  <2>1. tx = [at |-> t + Gap(link.rate), trace |-> tr]
    BY <1>3 DEF NextTx
  <2>2. tx.at = t + Gap(link.rate) /\ tx.trace = tr
    BY <2>1
  <2>3. Gap(link.rate) \in Nat /\ OpportunityTime(link, k + 1) = OpportunityTime(link, k) + Gap(link.rate)
    BY <1>1, <1>3, ConstTimes
  <2> QED
    BY <1>3, <2>2, <2>3
<1>4. CASE link.kind = "Random"
  <2>1. tx \in {[at |-> t + g, trace |-> tr] : g \in link.gaps}
    BY <1>4 DEF NextTx
  <2>2. PICK g \in link.gaps : tx.at = t + g /\ tx.trace = tr
    BY <2>1
  <2>3. g \in Nat
    BY <1>1, <1>4 DEF IsLink
  <2> QED
    BY <1>4, <2>2, <2>3
<1>5. CASE link.kind = "Piecewise"
  <2> DEFINE s == Switched(tr, t)
             n == Len(link.rates)
             piece == (tr.cur + 1) % n
  <2>1. tx = [at |-> t + Gap(link.rates[s.cur + 1]), trace |-> s]
    BY <1>5 DEF NextTx
  <2>2. tx.at = t + Gap(link.rates[s.cur + 1]) /\ tx.trace = s
    BY <2>1
  <2>3. /\ link.rates # <<>> /\ link.rates \in Seq(Nat \ {0})
        /\ link.spans \in Seq(Nat) /\ Len(link.spans) = n
    BY <1>1, <1>5 DEF IsLink
  <2>4. n \in Nat /\ n # 0
    BY <2>3, EmptySeq, LenProperties
  <2>5. piece \in 0..(n - 1) /\ piece + 1 \in 1..n
    <3>1. tr.cur + 1 \in Nat
      BY <1>1
    <3>2. piece \in 0..(n - 1)
      BY <2>4, <3>1, DivMod
    <3> HIDE DEF piece
    <3> QED
      BY <2>4, <3>2
  <2>6. link.spans[piece + 1] \in Nat
    BY <2>3, <2>5, ElementOfSeq
  <2>7. s = IF t > tr.switch
            THEN [tr EXCEPT !.cur = piece, !.switch = @ + link.spans[piece + 1]]
            ELSE tr
    BY DEF Switched
  <2> HIDE DEF s, piece
  <2>8. s \in Traces /\ s.link = link /\ s.cur \in 0..(n - 1)
    <3>1. CASE t > tr.switch
      <4>1. s = [tr EXCEPT !.cur = piece, !.switch = @ + link.spans[piece + 1]]
        BY <2>7, <3>1
      <4>2. tr = [link |-> tr.link, cur |-> tr.cur, next |-> tr.next, switch |-> tr.switch]
        BY DEF Traces
      <4>3. s = [link |-> tr.link, cur |-> piece, next |-> tr.next,
                 switch |-> tr.switch + link.spans[piece + 1]]
        BY <4>1, <4>2
      <4>4. piece \in Nat /\ tr.switch + link.spans[piece + 1] \in Nat
        BY <1>1, <2>4, <2>5, <2>6
      <4> QED
        BY <1>1, <2>5, <4>3, <4>4 DEF Traces
    <3>2. CASE ~(t > tr.switch)
      <4>1. s = tr
        BY <2>7, <3>2
      <4>2. tr.cur \in 0..(n - 1)
        BY <1>1, <1>5, <2>4
      <4> QED
        BY <4>1, <4>2
    <3> QED
      BY <3>1, <3>2
  <2>9. Gap(link.rates[s.cur + 1]) \in Nat
    <3>1. s.cur + 1 \in 1..n
      BY <2>4, <2>8
    <3>2. link.rates[s.cur + 1] \in Nat \ {0}
      BY <2>3, <3>1, ElementOfSeq
    <3> QED
      BY <3>2, GapIs
  <2>10. tx.trace.cur < n
    BY <2>2, <2>4, <2>8
  <2> QED
    BY <1>5, <2>2, <2>8, <2>9, <2>10
<1>6. CASE link.kind = "Mahimahi"
  <2> DEFINE n == Len(link.times)
             s == [tr EXCEPT !.next = (@ + 1) % n]
  <2>1. tx = [at |-> t + MahimahiGap(link, tr.next), trace |-> s]
    BY <1>6 DEF NextTx
  <2>2. tx.at = t + MahimahiGap(link, tr.next) /\ tx.trace = s
    BY <2>1
  <2>3. /\ n \in Nat \ {0} /\ tr.next \in Nat /\ MahimahiGap(link, tr.next) \in Nat
        /\ OpportunityTime(link, k + 1) = OpportunityTime(link, k) + MahimahiGap(link, tr.next)
        /\ OpportunityTime(link, 0) = 0
        /\ (tr.next + 1) % n = (k + 1) % n
    BY <1>1, <1>6, MahimahiTimes
  <2>4. s = [link |-> tr.link, cur |-> tr.cur, next |-> (tr.next + 1) % n, switch |-> tr.switch]
    BY DEF Traces
  <2>5. (tr.next + 1) % n \in Nat
    BY <2>3
  <2>6. s \in Traces /\ s.link = link /\ s.next = (k + 1) % n
    BY <1>1, <2>3, <2>4, <2>5 DEF Traces
  <2> HIDE DEF s, n
  <2> QED
    BY <1>6, <2>2, <2>3, <2>6 DEF n
<1> QED
  BY <1>2, <1>3, <1>4, <1>5, <1>6

-----------------------------------------------------------------------------
(* When actions are due.                                                    *)

LEMMA AtType ==
  ASSUME NEW kind \in Kinds, NEW f \in Flows, NEW e \in At(kind, f)
  PROVE  e \in Actions /\ e.when \in Nat /\ e.pkt.sentTime \in Nat /\ Delays[f] \in Nat
<1>1. e \in Actions
  BY DEF At
<1>2. e.when \in Nat /\ e.pkt \in Packets
  BY <1>1 DEF Actions
<1> QED
  BY <1>1, <1>2, NetworkAssumption DEF Packets

(* Being an aggregation interval apart carries over to times further apart. *)
LEMMA GapBeforeLater ==
  ASSUME NEW f \in Flows, NEW a \in Nat, NEW b \in Nat, NEW c \in Nat
  PROVE  /\ GapBefore(f, a, b) /\ b <= c => GapBefore(f, a, c)
         /\ a <= b /\ GapBefore(f, b, c) => GapBefore(f, a, c)
         /\ GapBefore(f, a, b) => a <= b
<1>1. \A g \in AggGaps[f] : g \in Nat
  BY LongestIs
<1> QED
  BY <1>1 DEF GapBefore

(* Time goes on, and next_opp moves on. *)
OppMovesOn(opp, next) ==
  \A f \in Flows : next[f] = opp[f] \/ GapBefore(f, opp[f], next[f])

(* An action that is not overtaken stays due as time and next_opp move on.  *)
LEMMA DueLater ==
  ASSUME NEW opp \in [Flows -> Nat], NEW next \in [Flows -> Nat], OppMovesOn(opp, next),
         NEW t \in Nat, NEW u \in Nat, t <= u,
         NEW e \in Actions, Due(e, t, opp), e.when >= u
  PROVE  Due(e, u, next)
<1> SUFFICES ASSUME NEW f \in Flows
             PROVE  /\ e \in At("Delay", f) => e.when = e.pkt.sentTime /\ e.when <= u
                    /\ e \in At("Link", f) =>
                         e.when = e.pkt.sentTime + Delays[f] /\ e.pkt.sentTime <= u
                    /\ e \in At("Router", f) \cup At("Acker", f) \cup At("Aggregator", f) => e.when <= u
                    /\ e \in At("Sender", f) => e.when = next[f] \/ GapBefore(f, e.when, next[f])
  BY DEF Due
<1>1. /\ e \in At("Delay", f) => e.when = e.pkt.sentTime /\ e.when <= t
      /\ e \in At("Link", f) => e.when = e.pkt.sentTime + Delays[f] /\ e.pkt.sentTime <= t
      /\ e \in At("Router", f) \cup At("Acker", f) \cup At("Aggregator", f) => e.when <= t
      /\ e \in At("Sender", f) => e.when = opp[f] \/ GapBefore(f, e.when, opp[f])
  BY DEF Due
<1>2. e.when \in Nat /\ e.pkt.sentTime \in Nat
  BY DEF Actions, Packets
<1>3. ASSUME e.when = opp[f] \/ GapBefore(f, e.when, opp[f])
      PROVE  e.when = next[f] \/ GapBefore(f, e.when, next[f])
  <2>1. opp[f] \in Nat /\ next[f] \in Nat
    OBVIOUS
  <2>2. next[f] = opp[f] \/ GapBefore(f, opp[f], next[f])
    BY DEF OppMovesOn
  <2>3. CASE next[f] = opp[f]
    BY <1>3, <2>3
  <2>4. CASE GapBefore(f, opp[f], next[f])
    <3>1. e.when <= opp[f]
      BY <1>2, <1>3, <2>1, GapBeforeLater
    <3> QED
      BY <1>2, <2>1, <2>4, <3>1, GapBeforeLater
  <2> QED
    BY <2>2, <2>3, <2>4
<1> QED
  BY <1>1, <1>2, <1>3

(* An action just scheduled is due.                                         *)
LEMMA FreshIsDue ==
  ASSUME NEW opp \in [Flows -> Nat], NEW t \in Nat, NEW e \in Actions, Fresh(e, t, opp)
  PROVE  Due(e, t, opp)
<1>1. e.when \in Nat /\ e.pkt.sentTime \in Nat
  BY DEF Actions, Packets
<1> QED
  BY <1>1 DEF Fresh, Due

(* What was due before is not due after what is scheduled now. *)
LEMMA DueBeforeFresh ==
  ASSUME NEW opp \in [Flows -> Nat], NEW t \in Nat, NEW kind \in Kinds, NEW f \in Flows,
         NEW e \in At(kind, f), Due(e, t, opp), NEW new \in At(kind, f), Fresh(new, t, opp)
  PROVE  /\ e.when <= new.when
         /\ kind = "Sender" => e.when = new.when \/ GapBefore(f, e.when, new.when)
<1>1. e.when \in Nat /\ new.when \in Nat /\ e.pkt.sentTime \in Nat /\ Delays[f] \in Nat
  BY AtType
<1>2. CASE kind = "Sender"
  <2>1. new.when = opp[f] /\ opp[f] \in Nat
    BY <1>2 DEF Fresh
  <2>2. e.when = opp[f] \/ GapBefore(f, e.when, opp[f])
    BY <1>2 DEF Due
  <2> QED
    BY <1>1, <2>1, <2>2, GapBeforeLater
<1>3. CASE kind = "Link"
  <2>1. new.when = t + Delays[f]
    BY <1>3 DEF Fresh
  <2>2. e.when = e.pkt.sentTime + Delays[f] /\ e.pkt.sentTime <= t
    BY <1>3 DEF Due
  <2> QED
    BY <1>1, <1>3, <2>1, <2>2
<1>4. CASE kind \in {"Delay", "Router", "Acker", "Aggregator"}
  <2>1. new.when = t
    BY <1>4 DEF Fresh
  <2>2. e.when <= t
    BY <1>4 DEF Due
  <2> QED
    BY <1>4, <2>1, <2>2
<1> QED
  BY <1>2, <1>3, <1>4 DEF Kinds

-----------------------------------------------------------------------------
(* The action that runs next.                                               *)
LEMMA NextIs ==
  ASSUME Typed, Scheduled, InOrder, NEW i \in DOMAIN agenda, IsNext(i)
  PROVE  /\ agenda[i] \in Actions /\ Placed(agenda[i]) /\ Due(agenda[i], now, nextOpp)
         /\ agenda[i].when \in now..Till /\ agenda[i].when \in Nat
         /\ \A j \in DOMAIN agenda : agenda[i].when <= agenda[j].when
         /\ \A kind \in Kinds, f \in Flows :
              agenda[i] \in At(kind, f) => \A j \in 1..(i - 1) : agenda[j] \notin At(kind, f)
<1>1. /\ agenda \in Seq(Actions) /\ now \in Nat /\ Till \in Nat
      /\ DOMAIN agenda = 1..Len(agenda) /\ Len(agenda) \in Nat
  BY NetworkAssumption, LenProperties DEF Typed
<1>2. \A j \in DOMAIN agenda : agenda[j] \in Actions /\ agenda[j].when \in Nat
  <2>1. \A j \in DOMAIN agenda : agenda[j] \in Actions
    BY <1>1, ElementOfSeq
  <2> QED
    BY <2>1 DEF Actions
<1>3. Placed(agenda[i]) /\ Due(agenda[i], now, nextOpp)
  BY DEF Scheduled
<1>4. agenda[i].when >= now /\ agenda[i].when <= Till
  BY <1>3 DEF Due, IsNext
<1>5. \A j \in DOMAIN agenda : agenda[i].when <= agenda[j].when
  BY <1>2 DEF IsNext
<1>6. ASSUME NEW kind \in Kinds, NEW f \in Flows, agenda[i] \in At(kind, f),
             NEW j \in 1..(i - 1), agenda[j] \in At(kind, f)
      PROVE  FALSE
  <2>1. j \in DOMAIN agenda /\ j < i /\ ~(i <= j)
    BY <1>1
  <2>2. agenda[j].when <= agenda[i].when
    BY <1>6, <2>1 DEF InOrder
  <2>3. agenda[i].when < agenda[j].when
    BY <2>1 DEF IsNext
  <2> QED
    BY <1>2, <2>1, <2>2, <2>3
<1> QED
  BY <1>1, <1>2, <1>3, <1>4, <1>5, <1>6

(* What the actions of a handler must be for the invariant. *)
Returned(actions) ==
  /\ actions \in Seq(Actions)
  /\ \A k \in DOMAIN actions : Placed(actions[k]) /\ Fresh(actions[k], now', nextOpp')
  /\ \A k, l \in DOMAIN actions : actions[k].act = "Push" /\ actions[l].act = "Push" => k = l

(* The agenda after a step. *)
LEMMA AgendaFollows ==
  ASSUME Typed, NEW i \in DOMAIN agenda, NEW actions \in Seq(Actions), Returns(i, actions)
  PROVE  /\ Follows(agenda', agenda, i, actions) /\ agenda' \in Seq(Actions) /\ DOMAIN agenda' = 1..Len(agenda')
         /\ \A p \in DOMAIN agenda' :
              \/ p \in 1..(Len(agenda) - 1)
              \/ \E k \in DOMAIN actions : p = Len(agenda) - 1 + k
         /\ \A p \in 1..(Len(agenda) - 1) : (IF p < i THEN p ELSE p + 1) \in DOMAIN agenda \ {i}
<1>1. /\ agenda \in Seq(Actions) /\ Len(agenda) \in Nat /\ Len(actions) \in Nat
      /\ i \in 1..Len(agenda) /\ DOMAIN actions = 1..Len(actions)
      /\ DOMAIN agenda = 1..Len(agenda)
  BY LenProperties DEF Typed
<1>2. agenda' = Without(agenda, i) \o actions
  BY DEF Returns
<1>3. agenda' \in Seq(Actions) /\ Follows(agenda', agenda, i, actions)
  BY <1>1, <1>2, Rearranged
<1>4. DOMAIN agenda' = 1..Len(agenda')
  BY <1>3, LenProperties
<1>5. ASSUME NEW p \in DOMAIN agenda', p \notin 1..(Len(agenda) - 1)
      PROVE  \E k \in DOMAIN actions : p = Len(agenda) - 1 + k
  <2>1. /\ p - (Len(agenda) - 1) \in DOMAIN actions
        /\ p = Len(agenda) - 1 + (p - (Len(agenda) - 1))
    BY <1>1, <1>3, <1>4, <1>5 DEF Follows
  <2> QED
    BY <2>1
<1>6. ASSUME NEW p \in 1..(Len(agenda) - 1)
      PROVE  (IF p < i THEN p ELSE p + 1) \in DOMAIN agenda \ {i}
  BY <1>1
<1> QED
  BY <1>3, <1>4, <1>5, <1>6

(* One step of the scheduler, whatever the handler: what it leaves on the   *)
(* agenda is due when it should be, and in order.                           *)
LEMMA StepSchedules ==
  ASSUME NetInv, NEW i \in DOMAIN agenda, IsNext(i), NEW actions, Returns(i, actions),
         nextOpp' \in [Flows -> Nat], OppMovesOn(nextOpp, nextOpp'), Returned(actions)
  PROVE  /\ now' \in 0..Till /\ now <= now' /\ now' = agenda[i].when
         /\ Scheduled' /\ InOrder' /\ Apart'
<1> USE DEF NetInv
<1>1. /\ agenda[i].when \in now..Till /\ agenda[i].when \in Nat
      /\ \A j \in DOMAIN agenda : agenda[i].when <= agenda[j].when
  BY NextIs
<1>2. /\ now \in Nat /\ nextOpp \in [Flows -> Nat] /\ agenda \in Seq(Actions)
      /\ \A j \in DOMAIN agenda : agenda[j] \in Actions /\ agenda[j].when \in Nat
  <2>1. agenda \in Seq(Actions) /\ nextOpp \in [Flows -> Nat] /\ now \in Nat
    BY DEF Typed
  <2>2. \A j \in DOMAIN agenda : agenda[j] \in Actions
    BY <2>1, ElementOfSeq, LenProperties
  <2> QED
    BY <2>1, <2>2 DEF Actions
<1>3. now' = agenda[i].when /\ now' \in Nat /\ now' \in 0..Till /\ now <= now'
  BY <1>1, <1>2 DEF Returns
<1>4. /\ actions \in Seq(Actions)
      /\ \A k \in DOMAIN actions :
           /\ actions[k] \in Actions /\ Placed(actions[k])
           /\ Fresh(actions[k], now', nextOpp') /\ Due(actions[k], now', nextOpp')
  <2>1. actions \in Seq(Actions)
    BY DEF Returned
  <2>2. \A k \in DOMAIN actions : actions[k] \in Actions
    BY <2>1, ElementOfSeq, LenProperties
  <2> QED
    BY <1>3, <2>1, <2>2, FreshIsDue DEF Returned
<1>5. \A j \in DOMAIN agenda : Placed(agenda[j]) /\ Due(agenda[j], now', nextOpp')
  <2>1. \A j \in DOMAIN agenda : Placed(agenda[j]) /\ Due(agenda[j], now, nextOpp)
    BY DEF Scheduled
  <2>2. \A j \in DOMAIN agenda : agenda[j].when >= now'
    BY <1>1, <1>2, <1>3
  <2> QED
    BY <1>2, <1>3, <2>1, <2>2, DueLater
<1> DEFINE old == Len(agenda) - 1
           from(p) == IF p < i THEN p ELSE p + 1
<1>6. /\ \A p \in 1..old : agenda'[p] = agenda[from(p)] /\ from(p) \in DOMAIN agenda
      /\ \A k \in DOMAIN actions : agenda'[old + k] = actions[k]
      /\ \A p \in DOMAIN agenda' :
           p \in 1..old \/ \E k \in DOMAIN actions : p = old + k
  BY <1>4, AgendaFollows, LenProperties DEF Follows
<1>7. \A p, r \in 1..old : p < r => from(p) < from(r)
  BY <1>2, LenProperties
<1>8. \A p \in 1..old, k \in DOMAIN actions : p < old + k /\ ~(old + k < p)
  BY <1>2, <1>4, LenProperties
<1>9. \A k, l \in DOMAIN actions : old + k < old + l => k # l
  BY <1>2, <1>4, LenProperties
<1> HIDE DEF old, from, NetInv
<1>10. Scheduled'
  BY <1>4, <1>5, <1>6 DEF Scheduled
<1>11. ASSUME NEW kind \in Kinds, NEW f \in Flows,
              NEW p \in DOMAIN agenda', NEW r \in DOMAIN agenda',
              agenda'[p] \in At(kind, f), agenda'[r] \in At(kind, f)
       PROVE  /\ p < r => agenda'[p].when <= agenda'[r].when
              /\ kind = "Sender" /\ agenda'[p].when < agenda'[r].when
                   => GapBefore(f, agenda'[p].when, agenda'[r].when)
  <2>1. CASE p \in 1..old /\ r \in 1..old
    <3>1. agenda'[p] = agenda[from(p)] /\ agenda'[r] = agenda[from(r)]
          /\ from(p) \in DOMAIN agenda /\ from(r) \in DOMAIN agenda
      BY <1>6, <2>1
    <3>2. p < r => agenda[from(p)].when <= agenda[from(r)].when
      BY <1>7, <1>11, <2>1, <3>1 DEF NetInv, InOrder
    <3>3. kind = "Sender" /\ agenda[from(p)].when < agenda[from(r)].when
            => GapBefore(f, agenda[from(p)].when, agenda[from(r)].when)
      BY <1>11, <3>1 DEF NetInv, Apart
    <3> QED
      BY <3>1, <3>2, <3>3
  <2>2. ASSUME p \in 1..old, NEW k \in DOMAIN actions, r = old + k
        PROVE  /\ p < r => agenda'[p].when <= agenda'[r].when
               /\ kind = "Sender" /\ agenda'[p].when < agenda'[r].when
                    => GapBefore(f, agenda'[p].when, agenda'[r].when)
    <3>1. agenda'[p] = agenda[from(p)] /\ from(p) \in DOMAIN agenda /\ agenda'[r] = actions[k]
      BY <1>6, <2>2
    <3>2. Due(agenda[from(p)], now', nextOpp') /\ Fresh(actions[k], now', nextOpp')
      BY <1>4, <1>5, <3>1
    <3>3. agenda[from(p)].when \in Nat /\ actions[k].when \in Nat
      BY <1>2, <1>4, <3>1 DEF Actions
    <3>4. /\ agenda[from(p)].when <= actions[k].when
          /\ kind = "Sender" => \/ agenda[from(p)].when = actions[k].when
                                \/ GapBefore(f, agenda[from(p)].when, actions[k].when)
      BY <1>3, <1>11, <3>1, <3>2, DueBeforeFresh
    <3> QED
      BY <3>1, <3>3, <3>4
  <2>3. ASSUME r \in 1..old, NEW k \in DOMAIN actions, p = old + k
        PROVE  /\ p < r => agenda'[p].when <= agenda'[r].when
               /\ kind = "Sender" /\ agenda'[p].when < agenda'[r].when
                    => GapBefore(f, agenda'[p].when, agenda'[r].when)
    <3>1. agenda'[r] = agenda[from(r)] /\ from(r) \in DOMAIN agenda /\ agenda'[p] = actions[k]
      BY <1>6, <2>3
    <3>2. Due(agenda[from(r)], now', nextOpp') /\ Fresh(actions[k], now', nextOpp')
      BY <1>4, <1>5, <3>1
    <3>3. agenda[from(r)].when \in Nat /\ actions[k].when \in Nat
      BY <1>2, <1>4, <3>1 DEF Actions
    <3>4. agenda[from(r)].when <= actions[k].when
      BY <1>3, <1>11, <3>1, <3>2, DueBeforeFresh
    <3>5. ~(p < r)
      BY <1>8, <2>3
    <3> QED
      BY <3>1, <3>3, <3>4, <3>5
  <2>4. ASSUME NEW k \in DOMAIN actions, p = old + k, NEW l \in DOMAIN actions, r = old + l
        PROVE  /\ p < r => agenda'[p].when <= agenda'[r].when
               /\ kind = "Sender" /\ agenda'[p].when < agenda'[r].when
                    => GapBefore(f, agenda'[p].when, agenda'[r].when)
    <3>1. agenda'[p] = actions[k] /\ agenda'[r] = actions[l]
      BY <1>6, <2>4
    <3>2. actions[k].act = "Push" /\ actions[l].act = "Push"
      BY <1>11, <3>1 DEF At
    <3>3. k = l
      BY <3>2 DEF Returned
    <3>4. ~(p < r) /\ agenda'[p] = agenda'[r]
      BY <1>9, <2>4, <3>3
    <3>5. agenda'[p].when \in Nat
      BY <1>4, <3>1 DEF Actions
    <3> QED
      BY <3>4, <3>5
  <2> QED
    BY <1>6, <2>1, <2>2, <2>3, <2>4
<1>12. InOrder'
  BY <1>11 DEF InOrder
<1>13. Apart'
  BY <1>11 DEF Apart, Kinds
<1> QED
  BY <1>3, <1>10, <1>12, <1>13

-----------------------------------------------------------------------------
(* The actions handlers return.                                             *)

LEMMA NewPush ==
  ASSUME NEW kind \in Kinds, NEW f \in Flows, NEW pkt \in LoadOf(kind, f),
         NEW opp, NEW t \in Nat, NEW when \in Nat, when >= t,
         kind = "Delay" => when = t /\ pkt.sentTime = t,
         kind = "Link" => when = t + Delays[f] /\ pkt.sentTime = t,
         kind \in {"Router", "Acker", "Aggregator"} => when = t,
         kind = "Sender" => when = opp[f],
         NEW e, e = Push(when, PlaceOf(kind, f), pkt)
  PROVE  /\ e \in Actions /\ e \in At(kind, f) /\ Placed(e) /\ Fresh(e, t, opp)
         /\ e.act = "Push" /\ e.when = when /\ e.pkt = pkt /\ e \notin LinkTurns
<1>1. e = [when |-> when, to |-> PlaceOf(kind, f), act |-> "Push", pkt |-> pkt]
  BY DEF Push
<1>2. pkt \in Packets /\ PlaceOf(kind, f) \in Ids
  BY PlacesAre DEF LoadOf, DataOf, AcksOf
<1>3. e \in Actions /\ e \in At(kind, f)
  BY <1>1, <1>2 DEF At, Actions
<1>4. \A k \in Kinds, g \in Flows : e \in At(k, g) => k = kind /\ g = f
  BY <1>3, AtDiffers
<1>5. {"Delay", "Link", "Router", "Acker", "Aggregator", "Sender"} \subseteq Kinds
  BY DEF Kinds
<1>6. Fresh(e, t, opp)
  BY <1>1, <1>4, <1>5 DEF Fresh
<1>7. Placed(e)
  BY <1>3 DEF Placed
<1>8. e \notin LinkTurns
  BY <1>1 DEF LinkTurns
<1> QED
  BY <1>1, <1>3, <1>6, <1>7, <1>8

(* An event returned for the link or a sender is well placed and fresh.     *)
LEMMA NewTurn ==
  ASSUME NEW opp, NEW t \in Nat, NEW when \in Nat, when >= t,
         NEW id, id = LinkId \/ \E f \in Flows : id = SenderOf(f),
         NEW e, e = Event(when, id)
  PROVE  /\ e \in Actions /\ Placed(e) /\ Fresh(e, t, opp) /\ e.act = "Event" /\ e.when = when
         /\ e \in LinkTurns <=> id = LinkId
<1>1. e = [when |-> when, to |-> id, act |-> "Event", pkt |-> NoPacket]
  BY DEF Event
<1>2. NoPacket \in Packets
  BY DEF NoPacket, Packet, Packets, None
<1>3. id \in Ids
  BY PlacesAre, ObjectsAre, NumFlowsAssumption DEF Kinds, PlaceOf, LinkId
<1>4. e \in Actions
  BY <1>1, <1>2, <1>3 DEF Actions
<1>5. e \in LinkTurns <=> id = LinkId
  BY <1>1, <1>4 DEF LinkTurns
<1>6. Placed(e)
  BY <1>1, <1>4, <1>5 DEF Placed, SenderTurns
<1>7. \A k \in Kinds, g \in Flows : e \notin At(k, g)
  BY <1>1 DEF At
<1>8. {"Delay", "Link", "Router", "Acker", "Aggregator", "Sender"} \subseteq Kinds
  BY DEF Kinds
<1>9. Fresh(e, t, opp)
  BY <1>1, <1>7, <1>8 DEF Fresh
<1> QED
  BY <1>1, <1>4, <1>5, <1>6, <1>9

-----------------------------------------------------------------------------
(* When packets arrive at the latest.                                       *)
Slack == bufsize.size * Gap(trace.link.rate)

(* At a constant rate and with a finite buffer, the latest arrival is the   *)
(* time of sending, the flow's delay and a constant.                        *)
LEMMA BoundedIs ==
  ASSUME Typed, Bounded
  PROVE  /\ bufsize.size \in Nat /\ Gap(trace.link.rate) \in Nat /\ Slack \in Nat
         /\ \A f \in Flows, pkt \in Packets :
              pkt \in DataOf(f) \cup AcksOf(f) =>
                /\ LatestArrival(pkt) = pkt.sentTime + Delays[f] + Slack
                /\ LatestArrival(pkt) \in Nat /\ Delays[f] \in Nat /\ pkt.sentTime \in Nat
<1>1. bufsize.size \in Nat
  BY NetworkAssumption DEF Typed, Bounded
<1>2. trace.link \in Links /\ trace.link.kind = "Const"
  BY DEF Typed, Bounded
<1>3. Gap(trace.link.rate) \in Nat
  BY <1>2, ConstTimes
<1>4. Slack \in Nat
  <2> DEFINE n == bufsize.size
             g == Gap(trace.link.rate)
  <2>1. n \in Nat /\ g \in Nat
    BY <1>1, <1>3
  <2> HIDE DEF n, g
  <2>2. n * g \in Nat
    BY <2>1
  <2> QED
    BY <2>2 DEF n, g, Slack
<1>5. ASSUME NEW f \in Flows, NEW pkt \in Packets, pkt \in DataOf(f) \cup AcksOf(f)
      PROVE  /\ LatestArrival(pkt) = pkt.sentTime + Delays[f] + Slack
             /\ LatestArrival(pkt) \in Nat /\ Delays[f] \in Nat /\ pkt.sentTime \in Nat
  <2>1. FlowOf(pkt) = f
    BY <1>5, FlowOfIs
  <2>2. LatestArrival(pkt) = pkt.sentTime + Delays[f] + Slack
    BY <2>1 DEF LatestArrival, Slack
  <2>3. Delays[f] \in Nat /\ pkt.sentTime \in Nat
    BY NetworkAssumption DEF Packets
  <2> HIDE DEF Slack
  <2> QED
    BY <1>4, <2>2, <2>3
<1> QED
  BY <1>1, <1>3, <1>4, <1>5

(* What a place of a flow takes is a packet or an ack of the flow.          *)
LEMMA LoadType ==
  ASSUME NEW kind \in Kinds, NEW f \in Flows, NEW pkt \in LoadOf(kind, f)
  PROVE  pkt \in Packets /\ pkt \in DataOf(f) \cup AcksOf(f)
BY DEF LoadOf, DataOf, AcksOf

(* What is on the agenda for a flow arrives in time. *)
LEMMA InTimeIs ==
  ASSUME Typed, Bounded, NEW kind \in Kinds, NEW f \in Flows, NEW e \in At(kind, f)
  PROVE  InTime(e) <=> e.when <= LatestArrival(e.pkt)
                                   + (IF kind # "Sender" THEN 0 ELSE Longest(AggGaps[f]))
<1>1. e.act = "Push" /\ Obj(e.to).kind = kind /\ FlowOf(e.pkt) = f
  BY AtIs
<1>2. e \notin LinkTurns
  BY <1>1 DEF LinkTurns
<1> QED
  BY <1>1, <1>2 DEF InTime

-----------------------------------------------------------------------------
(* A step that is not the link's.                                           *)
LEMMA LinkStaysReady ==
  ASSUME NetInv, NEW i \in DOMAIN agenda, IsNext(i), NEW actions, Returns(i, actions),
         actions \in Seq(Actions), now <= now', now' \in Nat,
         agenda[i] \notin LinkTurns, \A k \in DOMAIN actions : actions[k] \notin LinkTurns,
         UNCHANGED <<trace, opps>>
  PROVE  LinkReady'
<1>1. Typed /\ LinkReady
  BY DEF NetInv
<1>2. PICK q \in DOMAIN agenda :
        /\ agenda[q] \in LinkTurns /\ OnSchedule(agenda[q], trace.link, opps, now)
        /\ \A j \in DOMAIN agenda : agenda[j] \in LinkTurns => j = q
  BY <1>1 DEF LinkReady
<1>3. /\ Follows(agenda', agenda, i, actions) /\ DOMAIN agenda' = 1..Len(agenda')
      /\ \A p \in DOMAIN agenda' :
           p \in 1..(Len(agenda) - 1) \/ \E k \in DOMAIN actions : p = Len(agenda) - 1 + k
      /\ \A p \in 1..(Len(agenda) - 1) : (IF p < i THEN p ELSE p + 1) \in DOMAIN agenda \ {i}
  BY <1>1, AgendaFollows
<1>4. /\ Len(agenda) \in Nat /\ DOMAIN agenda = 1..Len(agenda) /\ Len(actions) \in Nat
      /\ DOMAIN actions = 1..Len(actions) /\ now \in Nat
  BY <1>1, LenProperties DEF Typed
<1> DEFINE to == IF q < i THEN q ELSE q - 1
<1>5. q # i
  BY <1>2
<1>6. /\ to \in 1..(Len(agenda) - 1) /\ to \in DOMAIN agenda'
      /\ (IF to < i THEN to ELSE to + 1) = q
  <2>1. to \in 1..(Len(agenda) - 1) /\ (IF to < i THEN to ELSE to + 1) = q
    BY <1>4, <1>5
  <2>2. to \in DOMAIN agenda'
    <3> HIDE DEF to
    <3> QED
      BY <1>3, <1>4, <2>1 DEF Follows
  <2> QED
    BY <2>1, <2>2
<1>7. agenda'[to] = agenda[q]
  <2> HIDE DEF to
  <2> QED
    BY <1>3, <1>6 DEF Follows
<1>8. OnSchedule(agenda'[to], trace'.link, opps', now')
  <2>1. agenda[q].when \in Nat
    BY <1>2 DEF LinkTurns, Actions
  <2>2. trace.link.kind = "Const" => Gap(trace.link.rate) \in Nat
    BY <1>1, ConstTimes DEF Typed
  <2> HIDE DEF to
  <2> QED
    BY <1>2, <1>4, <1>7, <2>1, <2>2 DEF OnSchedule
<1>9. ASSUME NEW p \in DOMAIN agenda', agenda'[p] \in LinkTurns PROVE p = to
  <2>1. CASE p \in 1..(Len(agenda) - 1)
    <3>1. agenda'[p] = agenda[IF p < i THEN p ELSE p + 1]
      BY <1>3, <2>1 DEF Follows
    <3>2. (IF p < i THEN p ELSE p + 1) = q
      BY <1>2, <1>3, <1>9, <2>1, <3>1
    <3> QED
      BY <1>4, <2>1, <3>2
  <2>2. ASSUME NEW k \in DOMAIN actions, p = Len(agenda) - 1 + k PROVE FALSE
    <3>1. agenda'[p] = actions[k]
      BY <1>3, <1>4, <2>2 DEF Follows
    <3> QED
      BY <1>9, <3>1
  <2> QED
    BY <1>3, <2>1, <2>2
<1> HIDE DEF to
<1>10. \E p \in DOMAIN agenda' :
         /\ agenda'[p] \in LinkTurns /\ OnSchedule(agenda'[p], trace'.link, opps', now')
         /\ \A j \in DOMAIN agenda' : agenda'[j] \in LinkTurns => j = p
  BY <1>2, <1>6, <1>7, <1>8, <1>9
<1>11. trace' = trace /\ opps' = opps
  OBVIOUS
<1> QED
  BY <1>1, <1>10, <1>11 DEF LinkReady

(* A handler that does not touch the link keeps the invariant, if what it   *)
(* returns is placed, fresh, in order and in time, and next_opp moves on as *)
(* it may.                                                                  *)
LEMMA QuietStep ==
  ASSUME NetInv, NEW i \in DOMAIN agenda, IsNext(i), NEW actions, Returns(i, actions),
         UNCHANGED <<bufsize, buffer, trace, opps>>, sent' \in [Flows -> 0..MaxPkts],
         nextOpp' \in [Flows -> Nat], OppMovesOn(nextOpp, nextOpp'), OppsNear',
         Returned(actions), agenda[i] \notin LinkTurns,
         \A k \in DOMAIN actions : actions[k] \notin LinkTurns,
         Bounded => \A k \in DOMAIN actions : InTime(actions[k])
  PROVE  NetInv'
<1>1. /\ now' \in 0..Till /\ now <= now' /\ Scheduled' /\ InOrder' /\ Apart'
  BY StepSchedules
<1>2. Typed /\ Buffered /\ BufferBounded /\ actions \in Seq(Actions)
  BY DEF NetInv, Returned
<1>3. agenda' \in Seq(Actions)
  BY <1>2, AgendaFollows
<1>4. Typed'
  BY <1>1, <1>2, <1>3 DEF Typed
<1>5. Buffered'
  BY <1>2 DEF Buffered
<1>6. LinkReady'
  <2>1. now' \in Nat
    BY <1>1, NetworkAssumption
  <2> QED
    BY <1>1, <1>2, <2>1, LinkStaysReady
<1>7. BufferBounded'
  <2>1. Bounded' <=> Bounded
    BY DEF Bounded
  <2>2. \A e : InTime(e)' <=> InTime(e)
    BY DEF InTime, LatestArrival
  <2>3. ASSUME Bounded, NEW p \in DOMAIN agenda' PROVE InTime(agenda'[p])
    <3>1. /\ Follows(agenda', agenda, i, actions)
          /\ p \in 1..(Len(agenda) - 1) \/ \E k \in DOMAIN actions : p = Len(agenda) - 1 + k
          /\ \A r \in 1..(Len(agenda) - 1) : (IF r < i THEN r ELSE r + 1) \in DOMAIN agenda
      BY <1>2, AgendaFollows
    <3>2. CASE p \in 1..(Len(agenda) - 1)
      <4>1. agenda'[p] = agenda[IF p < i THEN p ELSE p + 1]
        BY <3>1, <3>2 DEF Follows
      <4> QED
        BY <1>2, <2>3, <3>1, <3>2, <4>1 DEF BufferBounded
    <3>3. ASSUME NEW k \in DOMAIN actions, p = Len(agenda) - 1 + k PROVE InTime(agenda'[p])
      <4>1. k \in 1..Len(actions)
        BY <1>2, LenProperties
      <4>2. agenda'[p] = actions[k]
        BY <3>1, <3>3, <4>1 DEF Follows
      <4> QED
        BY <2>3, <4>2
    <3> QED
      BY <3>1, <3>2, <3>3
  <2>4. Bounded => Len(buffer') <= bufsize'.size
    BY <1>2 DEF BufferBounded
  <2> QED
    BY <2>1, <2>2, <2>3, <2>4 DEF BufferBounded
<1> QED
  BY <1>1, <1>4, <1>5, <1>6, <1>7 DEF NetInv

-----------------------------------------------------------------------------
(* Handlers that leave the link alone.                                      *)

LEMMA PushRuns ==
  ASSUME NetInv, NEW i \in DOMAIN agenda, NEW kind \in Kinds, Runs(i, kind, "Push"),
         now' = agenda[i].when
  PROVE  /\ \E f \in Flows : agenda[i] \in At(kind, f)
         /\ IsNext(i) /\ agenda[i] \notin LinkTurns /\ now' \in Nat /\ now <= now'
         /\ Due(agenda[i], now, nextOpp)
         /\ Bounded => InTime(agenda[i])
<1>1. Typed /\ Scheduled /\ InOrder /\ BufferBounded
  BY DEF NetInv
<1>2. IsNext(i) /\ Obj(agenda[i].to).kind = kind /\ agenda[i].act = "Push"
  BY DEF Runs
<1>3. /\ Placed(agenda[i]) /\ Due(agenda[i], now, nextOpp)
      /\ agenda[i].when \in now..Till /\ agenda[i].when \in Nat
  BY <1>1, <1>2, NextIs
<1>4. now <= now'
  BY <1>1, <1>3 DEF Typed
<1>5. \E f \in Flows : agenda[i] \in At(kind, f)
  BY <1>2, <1>3, PushTo
<1>6. agenda[i] \notin LinkTurns
  BY <1>2 DEF LinkTurns
<1>7. Bounded => InTime(agenda[i])
  BY <1>1 DEF BufferBounded
<1> QED
  BY <1>2, <1>3, <1>4, <1>5, <1>6, <1>7

(* A handler that returns nothing keeps the invariant,                      *)
LEMMA QuietNothing ==
  ASSUME NetInv, NEW i \in DOMAIN agenda, IsNext(i), Returns(i, <<>>), agenda[i] \notin LinkTurns,
         UNCHANGED <<bufsize, buffer, trace, opps, sent, nextOpp>>
  PROVE  NetInv'
<1>1. Typed /\ Scheduled /\ InOrder /\ OppsNear
  BY DEF NetInv
<1>2. /\ sent' \in [Flows -> 0..MaxPkts] /\ nextOpp' \in [Flows -> Nat]
      /\ OppMovesOn(nextOpp, nextOpp')
  BY <1>1 DEF Typed, OppMovesOn
<1>3. OppsNear'
  <2>1. now' \in now..Till
    BY <1>1, NextIs DEF Returns
  <2>2. now \in Nat /\ now' \in Nat /\ now <= now'
    BY <1>1, <2>1 DEF Typed
  <2>3. ASSUME NEW f \in Flows PROVE nextOpp'[f] <= now' + Longest(AggGaps[f])
    <3>1. nextOpp[f] <= now + Longest(AggGaps[f]) /\ nextOpp[f] \in Nat
      BY <1>1 DEF OppsNear, Typed
    <3>2. Longest(AggGaps[f]) \in Nat
      BY LongestIs
    <3> QED
      BY <2>2, <3>1, <3>2
  <2> QED
    BY <2>3 DEF OppsNear
<1>4. Returned(<<>>)
  BY EmptySeq DEF Returned
<1>5. DOMAIN <<>> = {}
  BY EmptySeq, LenProperties
<1> QED
  BY <1>2, <1>3, <1>4, <1>5, QuietStep

(* and so does one that returns one push, if it is due as its place         *)
(* demands.                                                                 *)
LEMMA QuietPush ==
  ASSUME NetInv, NEW i \in DOMAIN agenda, IsNext(i), agenda[i] \notin LinkTurns,
         NEW kind \in Kinds, NEW f \in Flows, NEW pkt \in LoadOf(kind, f),
         NEW when \in Nat, Returns(i, <<Push(when, PlaceOf(kind, f), pkt)>>), when >= now',
         kind = "Delay" => when = now' /\ pkt.sentTime = now',
         kind = "Link" => when = now' + Delays[f] /\ pkt.sentTime = now',
         kind \in {"Router", "Acker", "Aggregator"} => when = now',
         kind = "Sender" => when = nextOpp'[f],
         Bounded => when <= LatestArrival(pkt)
                              + (IF kind # "Sender" THEN 0 ELSE Longest(AggGaps[f])),
         UNCHANGED <<bufsize, buffer, trace, opps, sent>>,
         nextOpp' \in [Flows -> Nat], OppMovesOn(nextOpp, nextOpp'), OppsNear'
  PROVE  NetInv'
<1>1. Typed /\ Scheduled /\ InOrder
  BY DEF NetInv
<1>2. sent' \in [Flows -> 0..MaxPkts]
  BY <1>1 DEF Typed
<1>3. now' \in Nat
  BY <1>1, NextIs DEF Returns
<1> DEFINE e == Push(when, PlaceOf(kind, f), pkt)
           one == <<e>>
<1>4. /\ e \in Actions /\ e \in At(kind, f) /\ Placed(e) /\ Fresh(e, now', nextOpp')
      /\ e.when = when /\ e.pkt = pkt /\ e \notin LinkTurns
  BY <1>3, NewPush
<1>5. Bounded => InTime(e)
  BY <1>1, <1>4, InTimeIs
<1>6. one \in Seq(Actions) /\ DOMAIN one = {1} /\ one[1] = e
  <2> HIDE DEF e
  <2> QED
    BY <1>4
<1>7. Returns(i, one)
  OBVIOUS
<1> HIDE DEF e, one
<1>8. Returned(one)
  BY <1>4, <1>6 DEF Returned
<1>9. /\ \A k \in DOMAIN one : one[k] \notin LinkTurns
      /\ Bounded => \A k \in DOMAIN one : InTime(one[k])
  BY <1>4, <1>5, <1>6
<1> QED
  BY <1>2, <1>7, <1>8, <1>9, QuietStep

(* Where next_opp does not change it stays no further than an interval      *)
(* ahead.                                                                   *)
LEMMA OppsStayNear ==
  ASSUME NetInv, now' \in Nat, now <= now', UNCHANGED nextOpp
  PROVE  nextOpp' \in [Flows -> Nat] /\ OppMovesOn(nextOpp, nextOpp') /\ OppsNear'
<1>1. Typed /\ OppsNear
  BY DEF NetInv
<1>2. nextOpp' \in [Flows -> Nat] /\ OppMovesOn(nextOpp, nextOpp')
  BY <1>1 DEF Typed, OppMovesOn
<1>3. ASSUME NEW f \in Flows PROVE nextOpp'[f] <= now' + Longest(AggGaps[f])
  <2>1. nextOpp[f] <= now + Longest(AggGaps[f]) /\ nextOpp[f] \in Nat /\ now \in Nat
    BY <1>1 DEF OppsNear, Typed
  <2>2. Longest(AggGaps[f]) \in Nat
    BY LongestIs
  <2> QED
    BY <2>1, <2>2
<1> QED
  BY <1>2, <1>3 DEF OppsNear

-----------------------------------------------------------------------------

(* Delay::push keeps the invariant.                                         *)
LEMMA DelayPushStep ==
  ASSUME NetInv, NEW i \in DOMAIN agenda, DelayPush(i)
  PROVE  NetInv'
<1> DEFINE e == agenda[i]
           to == Obj(e.to)
<1>1. /\ Runs(i, "Delay", "Push")
      /\ Returns(i, <<Push(now' + Delays[to.flow], to.next, e.pkt)>>)
      /\ UNCHANGED <<bufsize, buffer, trace, nextOpp, sent, linkStats, opps>>
  BY DEF DelayPush
<1>2. now' = agenda[i].when /\ "Delay" \in Kinds /\ "Link" \in Kinds
  BY <1>1 DEF Returns, Kinds
<1>3. /\ \E f \in Flows : agenda[i] \in At("Delay", f)
      /\ IsNext(i) /\ agenda[i] \notin LinkTurns /\ now' \in Nat /\ now <= now'
      /\ Due(agenda[i], now, nextOpp)
  BY <1>1, <1>2, PushRuns
<1>4. PICK f \in Flows : agenda[i] \in At("Delay", f)
  BY <1>3
<1>5. /\ to.flow = f /\ to.next = PlaceOf("Link", f)
  BY <1>2, <1>4, AtIs, ObjectsAre DEF Object, PlaceOf
<1>6. e.pkt \in LoadOf("Link", f)
  BY <1>2, <1>4, AtIs DEF LoadOf
<1>7. e.pkt.sentTime = now' /\ e.pkt.sentTime \in Nat /\ Delays[f] \in Nat
  BY <1>2, <1>3, <1>4, AtType DEF Due
<1>8. Bounded => now' + Delays[f] <= LatestArrival(e.pkt)
  <2>1. e.pkt \in Packets /\ e.pkt \in DataOf(f) \cup AcksOf(f)
    BY <1>2, <1>6, LoadType
  <2>2. Bounded => Slack \in Nat /\ LatestArrival(e.pkt) = e.pkt.sentTime + Delays[f] + Slack
    BY <2>1, BoundedIs DEF NetInv
  <2> QED
    BY <1>7, <2>2
<1>9. nextOpp' \in [Flows -> Nat] /\ OppMovesOn(nextOpp, nextOpp') /\ OppsNear'
  BY <1>1, <1>3, OppsStayNear
<1> HIDE DEF e, to
<1>10. Returns(i, <<Push(now' + Delays[f], PlaceOf("Link", f), e.pkt)>>)
  BY <1>1, <1>5
<1>11. now' + Delays[f] \in Nat /\ now' + Delays[f] >= now'
  BY <1>3, <1>7
<1>12. LatestArrival(e.pkt) + 0 = LatestArrival(e.pkt) \/ ~Bounded
  <2>1. e.pkt \in Packets /\ e.pkt \in DataOf(f) \cup AcksOf(f)
    BY <1>2, <1>6, LoadType
  <2>2. Bounded => LatestArrival(e.pkt) \in Nat
    BY <2>1, BoundedIs DEF NetInv
  <2> QED
    BY <2>2
<1> QED
  BY <1>1, <1>2, <1>3, <1>6, <1>7, <1>8, <1>9, <1>10, <1>11, <1>12, QuietPush

(* A packet in time stays in time at another place at once. *)
LEMMA InTimeStill ==
  ASSUME NetInv, NEW i \in DOMAIN agenda, NEW kind \in {"Router", "Acker", "Aggregator"},
         NEW f \in Flows, agenda[i] \in At(kind, f), Bounded
  PROVE  /\ agenda[i].when <= LatestArrival(agenda[i].pkt)
         /\ LatestArrival(agenda[i].pkt) \in Nat /\ agenda[i].when \in Nat
         /\ LatestArrival(agenda[i].pkt)
              = agenda[i].pkt.sentTime + Delays[f] + Slack
<1>1. Typed /\ BufferBounded
  BY DEF NetInv
<1>2. kind \in Kinds /\ kind # "Sender"
  BY DEF Kinds
<1>3. agenda[i].pkt \in LoadOf(kind, f) /\ agenda[i].when \in Nat
  BY <1>2, AtIs, AtType
<1>4. agenda[i].pkt \in Packets /\ agenda[i].pkt \in DataOf(f) \cup AcksOf(f)
  BY <1>2, <1>3, LoadType
<1>5. LatestArrival(agenda[i].pkt) \in Nat
      /\ LatestArrival(agenda[i].pkt) = agenda[i].pkt.sentTime + Delays[f] + Slack
  BY <1>1, <1>4, BoundedIs
<1>6. InTime(agenda[i])
  BY <1>1 DEF BufferBounded
<1>7. agenda[i].when <= LatestArrival(agenda[i].pkt) + 0
  BY <1>1, <1>2, <1>6, InTimeIs
<1> QED
  BY <1>3, <1>5, <1>7

(* Router::push keeps the invariant.                                        *)
LEMMA RouterPushStep ==
  ASSUME NetInv, NEW i \in DOMAIN agenda, RouterPush(i)
  PROVE  NetInv'
<1> DEFINE e == agenda[i]
<1>1. /\ Runs(i, "Router", "Push")
      /\ Returns(i, <<Push(now', PortTo(e.pkt.dest), e.pkt)>>)
      /\ UNCHANGED <<bufsize, buffer, trace, nextOpp, sent, linkStats, opps>>
  BY DEF RouterPush
<1>2. now' = agenda[i].when /\ "Router" \in Kinds /\ "Acker" \in Kinds
  BY <1>1 DEF Returns, Kinds
<1>3. /\ \E f \in Flows : agenda[i] \in At("Router", f)
      /\ IsNext(i) /\ agenda[i] \notin LinkTurns /\ now' \in Nat /\ now <= now'
  BY <1>1, <1>2, PushRuns
<1>4. PICK f \in Flows : agenda[i] \in At("Router", f)
  BY <1>3
<1>5. e.pkt \in DataOf(f)
  BY <1>2, <1>4, AtIs DEF LoadOf
<1>6. e.pkt \in LoadOf("Acker", f)
  BY <1>5 DEF LoadOf
<1>7. PortTo(e.pkt.dest) = PlaceOf("Acker", f)
  BY <1>5, RoutesAre DEF DataOf, PlaceOf
<1>8. Bounded => now' <= LatestArrival(e.pkt) /\ LatestArrival(e.pkt) \in Nat
  BY <1>2, <1>4, InTimeStill
<1>9. nextOpp' \in [Flows -> Nat] /\ OppMovesOn(nextOpp, nextOpp') /\ OppsNear'
  BY <1>1, <1>3, OppsStayNear
<1> HIDE DEF e
<1>10. Returns(i, <<Push(now', PlaceOf("Acker", f), e.pkt)>>)
  BY <1>1, <1>7
<1>11. Bounded => now' <= LatestArrival(e.pkt) + 0
  BY <1>3, <1>8
<1> QED
  BY <1>1, <1>2, <1>3, <1>6, <1>9, <1>10, <1>11, QuietPush

(* Acker::push keeps the invariant.                                         *)
LEMMA AckerPushStep ==
  ASSUME NetInv, NEW i \in DOMAIN agenda, AckerPush(i)
  PROVE  NetInv'
<1> DEFINE e == agenda[i]
           to == Obj(e.to)
           ack == Packet("Ack", to.addr, e.pkt.src, e.pkt.seq, e.pkt.sentTime)
<1>1. /\ Runs(i, "Acker", "Push") /\ Returns(i, <<Push(now', to.next, ack)>>)
      /\ UNCHANGED <<bufsize, buffer, trace, nextOpp, sent, linkStats, opps>>
  BY DEF AckerPush
<1>2. now' = agenda[i].when /\ "Aggregator" \in Kinds /\ "Acker" \in Kinds
  BY <1>1 DEF Returns, Kinds
<1>3. /\ \E f \in Flows : agenda[i] \in At("Acker", f)
      /\ IsNext(i) /\ agenda[i] \notin LinkTurns /\ now' \in Nat /\ now <= now'
  BY <1>1, <1>2, PushRuns
<1>4. PICK f \in Flows : agenda[i] \in At("Acker", f)
  BY <1>3
<1>5. e.pkt \in DataOf(f) /\ to.addr = AckerAddrOf(f) /\ to.next = PlaceOf("Aggregator", f)
  <2>1. e.pkt \in DataOf(f) /\ e.to = AckerOf(f)
    BY <1>2, <1>4, AtIs DEF LoadOf, PlaceOf
  <2>2. to = Object("Acker", f, AckerAddrOf(f), AggOf(f), None)
    BY <2>1, ObjectsAre
  <2> QED
    BY <2>1, <2>2 DEF Object, PlaceOf
<1>6. /\ ack \in LoadOf("Aggregator", f) /\ ack.sentTime = e.pkt.sentTime
      /\ ack \in Packets /\ ack \in DataOf(f) \cup AcksOf(f)
  <2>1. ack = [type |-> "Ack", src |-> AckerAddrOf(f), dest |-> SenderAddrOf(f),
               seq |-> e.pkt.seq, sentTime |-> e.pkt.sentTime]
    BY <1>5 DEF Packet, DataOf
  <2>2. e.pkt.seq \in Nat /\ e.pkt.sentTime \in Nat
    BY <1>5 DEF DataOf, Packets
  <2>3. AckerAddrOf(f) \in Int /\ SenderAddrOf(f) \in Int
    BY <1>5 DEF DataOf, Packets
  <2> HIDE DEF ack
  <2>4. ack \in Packets
    BY <2>1, <2>2, <2>3 DEF Packets
  <2> QED
    BY <2>1, <2>4 DEF AcksOf, LoadOf
<1>7. Bounded => now' <= LatestArrival(ack) /\ LatestArrival(ack) \in Nat
  <2>1. Bounded => /\ now' <= LatestArrival(e.pkt)
                   /\ LatestArrival(e.pkt) = e.pkt.sentTime + Delays[f] + Slack
    BY <1>2, <1>4, InTimeStill
  <2>2. Bounded => LatestArrival(ack) = ack.sentTime + Delays[f] + Slack
                     /\ LatestArrival(ack) \in Nat
    BY <1>6, BoundedIs DEF NetInv
  <2> HIDE DEF e, ack, Slack
  <2> QED
    BY <1>6, <2>1, <2>2
<1>8. nextOpp' \in [Flows -> Nat] /\ OppMovesOn(nextOpp, nextOpp') /\ OppsNear'
  BY <1>1, <1>3, OppsStayNear
<1> HIDE DEF e, ack, to
<1>9. Returns(i, <<Push(now', PlaceOf("Aggregator", f), ack)>>)
  BY <1>1, <1>5
<1>10. Bounded => now' <= LatestArrival(ack) + 0
  BY <1>3, <1>7
<1> QED
  BY <1>1, <1>2, <1>3, <1>6, <1>8, <1>9, <1>10, QuietPush

(* Aggregator::push keeps the invariant.                                    *)
LEMMA AggregatorPushStep ==
  ASSUME NetInv, NEW i \in DOMAIN agenda, AggregatorPush(i)
  PROVE  NetInv'
<1> DEFINE e == agenda[i]
           to == Obj(e.to)
<1>1. Runs(i, "Aggregator", "Push") /\ UNCHANGED <<bufsize, buffer, trace, sent, linkStats, opps>>
  BY DEF AggregatorPush
<1>2. PICK opp \in MovedOn(nextOpp[to.flow], AggGaps[to.flow], e.when) :
        /\ nextOpp' = [nextOpp EXCEPT ![to.flow] = opp]
        /\ Returns(i, <<Push(opp, to.next, e.pkt)>>)
  BY DEF AggregatorPush
<1>3. now' = agenda[i].when /\ "Aggregator" \in Kinds /\ "Sender" \in Kinds
  BY <1>2 DEF Returns, Kinds
<1>4. /\ \E f \in Flows : agenda[i] \in At("Aggregator", f)
      /\ IsNext(i) /\ agenda[i] \notin LinkTurns /\ now' \in Nat /\ now <= now'
  BY <1>1, <1>3, PushRuns
<1>5. PICK f \in Flows : agenda[i] \in At("Aggregator", f)
  BY <1>4
<1>6. to.flow = f /\ to.next = PlaceOf("Sender", f) /\ e.pkt \in LoadOf("Sender", f)
  <2>1. e.pkt \in AcksOf(f) /\ e.to = AggOf(f)
    BY <1>3, <1>5, AtIs DEF LoadOf, PlaceOf
  <2>2. to = Object("Aggregator", f, None, SenderOf(f), None)
    BY <2>1, ObjectsAre
  <2> QED
    BY <2>1, <2>2 DEF Object, PlaceOf, LoadOf
<1>7. /\ nextOpp \in [Flows -> Nat] /\ nextOpp[f] \in Nat /\ e.when \in Nat /\ now \in Nat
      /\ \A h \in Flows : nextOpp[h] <= now + Longest(AggGaps[h])
  BY <1>3, <1>4 DEF NetInv, Typed, OppsNear
<1>8. \A h \in Flows : Longest(AggGaps[h]) \in Nat
  BY LongestIs
<1>9. /\ opp \in Nat /\ opp >= e.when /\ opp >= nextOpp[f]
      /\ opp = nextOpp[f] \/ GapBefore(f, nextOpp[f], opp)
      /\ nextOpp[f] <= e.when + Longest(AggGaps[f]) => opp <= e.when + Longest(AggGaps[f])
  BY <1>2, <1>6, <1>7, MovedOnIs
<1>10. nextOpp[f] <= e.when + Longest(AggGaps[f])
  BY <1>3, <1>4, <1>7, <1>8
<1>11. /\ nextOpp' \in [Flows -> Nat] /\ nextOpp'[f] = opp
       /\ \A h \in Flows \ {f} : nextOpp'[h] = nextOpp[h]
  BY <1>2, <1>6, <1>7, <1>9
<1>12. OppMovesOn(nextOpp, nextOpp')
  BY <1>9, <1>11 DEF OppMovesOn
<1>13. OppsNear'
  <2>1. ASSUME NEW h \in Flows PROVE nextOpp'[h] <= now' + Longest(AggGaps[h])
    <3>1. CASE h = f
      BY <1>3, <1>9, <1>10, <1>11, <3>1
    <3>2. CASE h # f
      <4>1. nextOpp'[h] = nextOpp[h] /\ nextOpp[h] \in Nat /\ nextOpp[h] <= now + Longest(AggGaps[h])
        BY <1>7, <1>11, <3>2
      <4> QED
        BY <1>4, <1>7, <1>8, <4>1
    <3> QED
      BY <3>1, <3>2
  <2> QED
    BY <2>1 DEF OppsNear
<1>14. Bounded => opp <= LatestArrival(e.pkt) + Longest(AggGaps[f])
  <2>1. Bounded => /\ e.when <= LatestArrival(e.pkt) /\ LatestArrival(e.pkt) \in Nat
    BY <1>5, InTimeStill
  <2> HIDE DEF e
  <2> QED
    BY <1>7, <1>8, <1>9, <1>10, <2>1
<1> HIDE DEF e, to
<1>15. Returns(i, <<Push(opp, PlaceOf("Sender", f), e.pkt)>>)
  BY <1>2, <1>6
<1>16. opp >= now'
  BY <1>3, <1>9 DEF e
<1> QED
  BY <1>1, <1>3, <1>4, <1>6, <1>9, <1>11, <1>12, <1>13, <1>14, <1>15, <1>16, QuietPush

(* An event of a sender is one of its turns, and next.                      *)
LEMMA SenderRuns ==
  ASSUME NetInv, NEW i \in DOMAIN agenda, Runs(i, "Sender", "Event"), now' = agenda[i].when
  PROVE  /\ \E f \in Flows : agenda[i] \in SenderTurns(f)
         /\ IsNext(i) /\ agenda[i] \notin LinkTurns /\ now' \in Nat /\ now <= now'
<1>1. Typed /\ Scheduled /\ InOrder
  BY DEF NetInv
<1>2. IsNext(i) /\ Obj(agenda[i].to).kind = "Sender" /\ agenda[i].act = "Event"
  BY DEF Runs
<1>3. Placed(agenda[i]) /\ agenda[i].when \in now..Till /\ agenda[i].when \in Nat
  BY <1>1, <1>2, NextIs
<1>4. \E f \in Flows : agenda[i] \in SenderTurns(f)
  BY <1>2, <1>3, EventAt
<1>5. agenda[i] \notin LinkTurns
  BY <1>4, TurnsDiffer
<1>6. now <= now'
  BY <1>1, <1>3 DEF Typed
<1> QED
  BY <1>2, <1>3, <1>4, <1>5, <1>6

(* A sender with nothing left to send keeps the invariant.                  *)
LEMMA SenderStopsStep ==
  ASSUME NetInv, NEW i \in DOMAIN agenda, SenderStops(i)
  PROVE  NetInv'
<1>1. /\ Runs(i, "Sender", "Event") /\ Returns(i, <<>>)
      /\ UNCHANGED <<bufsize, buffer, trace, nextOpp, sent, linkStats, opps>>
  BY DEF SenderStops
<1>2. now' = agenda[i].when
  BY <1>1 DEF Returns
<1>3. IsNext(i) /\ agenda[i] \notin LinkTurns
  BY <1>1, <1>2, SenderRuns
<1> QED
  BY <1>1, <1>3, QuietNothing

(* TcpSender::push keeps the invariant.                                     *)
LEMMA SenderGetsAckStep ==
  ASSUME NetInv, NEW i \in DOMAIN agenda, SenderGetsAck(i)
  PROVE  NetInv'
<1>1. /\ Runs(i, "Sender", "Push") /\ Returns(i, <<>>)
      /\ UNCHANGED <<bufsize, buffer, trace, nextOpp, sent, linkStats, opps>>
  BY DEF SenderGetsAck
<1>2. now' = agenda[i].when /\ "Sender" \in Kinds
  BY <1>1 DEF Returns, Kinds
<1>3. IsNext(i) /\ agenda[i] \notin LinkTurns
  BY <1>1, <1>2, PushRuns
<1> QED
  BY <1>1, <1>3, QuietNothing

(* Link::push keeps the invariant when the buffer is full,                  *)
LEMMA LinkDropsStep ==
  ASSUME NetInv, NEW i \in DOMAIN agenda, LinkDrops(i)
  PROVE  NetInv'
<1>1. /\ Runs(i, "Link", "Push") /\ Returns(i, <<>>)
      /\ UNCHANGED <<bufsize, buffer, trace, nextOpp, sent, opps>>
  BY DEF LinkDrops
<1>2. now' = agenda[i].when /\ "Link" \in Kinds
  BY <1>1 DEF Returns, Kinds
<1>3. IsNext(i) /\ agenda[i] \notin LinkTurns
  BY <1>1, <1>2, PushRuns
<1> QED
  BY <1>1, <1>3, QuietNothing

(* A sender that sends a packet keeps the invariant.                        *)
LEMMA SenderSendsStep ==
  ASSUME NetInv, NEW i \in DOMAIN agenda, SenderSends(i)
  PROVE  NetInv'
<1> DEFINE to == Obj(agenda[i].to)
           pkt == Packet("Data", to.addr, to.dest, sent[to.flow], now')
<1>1. /\ Runs(i, "Sender", "Event") /\ sent[to.flow] < MaxPkts
      /\ sent' = [sent EXCEPT ![to.flow] = @ + 1]
      /\ UNCHANGED <<bufsize, buffer, trace, nextOpp, linkStats, opps>>
  BY DEF SenderSends
<1>2. PICK g \in SendGaps :
        Returns(i, <<Push(now', to.next, pkt), Event(now' + g, agenda[i].to)>>)
  BY DEF SenderSends
<1>3. now' = agenda[i].when /\ "Delay" \in Kinds /\ g \in Nat
  BY <1>2, NetworkAssumption DEF Returns, Kinds
<1>4. /\ \E f \in Flows : agenda[i] \in SenderTurns(f)
      /\ IsNext(i) /\ agenda[i] \notin LinkTurns /\ now' \in Nat /\ now <= now'
  BY <1>1, <1>3, SenderRuns
<1>5. PICK f \in Flows : agenda[i] \in SenderTurns(f)
  BY <1>4
<1>6. /\ agenda[i].to = SenderOf(f) /\ to.flow = f /\ to.addr = SenderAddrOf(f)
      /\ to.dest = AckerAddrOf(f) /\ to.next = PlaceOf("Delay", f)
  <2>1. agenda[i].to = SenderOf(f)
    BY <1>5 DEF SenderTurns
  <2>2. to = Object("Sender", f, SenderAddrOf(f), DelayOf(f), AckerAddrOf(f))
    BY <2>1, ObjectsAre
  <2> QED
    BY <2>1, <2>2 DEF Object, PlaceOf
<1>7. Typed /\ sent \in [Flows -> 0..MaxPkts] /\ MaxPkts \in Nat
  BY NetworkAssumption DEF NetInv, Typed
<1>8. sent' \in [Flows -> 0..MaxPkts] /\ sent[f] \in Nat
  BY <1>1, <1>6, <1>7
<1>9. pkt \in LoadOf("Delay", f) /\ pkt.sentTime = now' /\ pkt \in Packets
  <2>1. pkt = [type |-> "Data", src |-> SenderAddrOf(f), dest |-> AckerAddrOf(f),
               seq |-> sent[f], sentTime |-> now']
    BY <1>6 DEF Packet
  <2>2. AckerAddrOf(f) \in Int /\ SenderAddrOf(f) \in Int
    BY NumFlowsAssumption DEF AckerAddrOf, SenderAddrOf, Flows
  <2> HIDE DEF pkt
  <2>3. pkt \in Packets
    BY <1>4, <1>8, <2>1, <2>2 DEF Packets
  <2> QED
    BY <2>1, <2>3 DEF DataOf, LoadOf
<1> HIDE DEF pkt, to
<1> DEFINE e == Push(now', PlaceOf("Delay", f), pkt)
           turn == Event(now' + g, SenderOf(f))
           both == <<e, turn>>
<1>10. /\ e \in Actions /\ e \in At("Delay", f) /\ Placed(e) /\ Fresh(e, now', nextOpp')
       /\ e.when = now' /\ e.pkt = pkt /\ e \notin LinkTurns
  BY <1>3, <1>4, <1>9, NewPush
<1>11. now' + g \in Nat /\ now' + g >= now'
  BY <1>3, <1>4
<1>12. /\ turn \in Actions /\ Placed(turn) /\ Fresh(turn, now', nextOpp') /\ turn.act = "Event"
       /\ turn \in LinkTurns <=> SenderOf(f) = LinkId
  BY <1>4, <1>11, NewTurn
<1>13. turn \notin LinkTurns
  BY <1>12, NumFlowsAssumption DEF SenderOf, LinkId, Flows
<1>14. Bounded => InTime(e) /\ InTime(turn)
  <2>1. pkt \in DataOf(f) \cup AcksOf(f)
    BY <1>3, <1>9, LoadType
  <2>2. Bounded => /\ Slack \in Nat /\ LatestArrival(pkt) = pkt.sentTime + Delays[f] + Slack
                   /\ LatestArrival(pkt) \in Nat /\ Delays[f] \in Nat
    BY <1>7, <1>9, <2>1, BoundedIs
  <2>3. Bounded => now' <= LatestArrival(pkt) + 0
    <3> HIDE DEF Slack
    <3> QED
      BY <1>4, <1>9, <2>2
  <2>4. Bounded => InTime(e)
    BY <1>3, <1>7, <1>10, <2>3, InTimeIs
  <2>5. InTime(turn)
    BY <1>12, <1>13 DEF InTime
  <2> QED
    BY <2>4, <2>5
<1>15. both \in Seq(Actions) /\ DOMAIN both = {1, 2} /\ both[1] = e /\ both[2] = turn
  <2> HIDE DEF e, turn
  <2> QED
    BY <1>10, <1>12
<1>16. Returns(i, both)
  BY <1>2, <1>6
<1> HIDE DEF e, turn, both
<1>17. Returned(both)
  BY <1>10, <1>12, <1>15 DEF Returned
<1>18. /\ \A k \in DOMAIN both : both[k] \notin LinkTurns
       /\ Bounded => \A k \in DOMAIN both : InTime(both[k])
  BY <1>10, <1>13, <1>14, <1>15
<1>19. nextOpp' \in [Flows -> Nat] /\ OppMovesOn(nextOpp, nextOpp') /\ OppsNear'
  BY <1>1, <1>4, OppsStayNear
<1> QED
  BY <1>1, <1>4, <1>8, <1>16, <1>17, <1>18, <1>19, QuietStep

(* Multiples of a gap.                                                      *)
LEMMA Products ==
  ASSUME NEW g \in Nat, NEW a \in Nat, NEW b \in Nat
  PROVE  /\ a * g \in Nat /\ (a + 1) * g = a * g + g /\ 0 * g = 0
         /\ a <= b => a * g <= b * g
<1>1. a * g \in Nat /\ (a + 1) * g = a * g + g /\ 0 * g = 0
  OBVIOUS
<1>2. ASSUME a <= b PROVE a * g <= b * g
  <2>1. PICK d \in Nat : b = a + d
    BY <1>2
  <2>2. b * g = a * g + d * g /\ d * g \in Nat
    BY <2>1
  <2> QED
    BY <1>1, <2>2
<1> QED
  BY <1>1, <1>2

(* The one opportunity that is pending. *)
LEMMA TurnOnSchedule ==
  ASSUME LinkReady, NEW j \in DOMAIN agenda, agenda[j] \in LinkTurns
  PROVE  /\ OnSchedule(agenda[j], trace.link, opps, now)
         /\ \A p \in DOMAIN agenda : agenda[p] \in LinkTurns => p = j
BY DEF LinkReady

(* and when it is not: the packet leaves at an opportunity that is in time, *)
(* as many gaps after the pending one as there are packets before it.       *)
LEMMA LinkQueuesStep ==
  ASSUME NetInv, NEW i \in DOMAIN agenda, LinkQueues(i)
  PROVE  NetInv'
<1> DEFINE pkt == agenda[i].pkt
<1>1. /\ Runs(i, "Link", "Push") /\ ~BufferFull /\ buffer' = Append(buffer, pkt)
      /\ Returns(i, <<>>) /\ UNCHANGED <<bufsize, trace, nextOpp, sent, opps>>
  BY DEF LinkQueues
<1>2. now' = agenda[i].when /\ "Link" \in Kinds
  BY <1>1 DEF Returns, Kinds
<1>3. /\ \E f \in Flows : agenda[i] \in At("Link", f)
      /\ IsNext(i) /\ agenda[i] \notin LinkTurns /\ now' \in Nat /\ now <= now'
      /\ Due(agenda[i], now, nextOpp)
  BY <1>1, <1>2, PushRuns
<1>4. PICK f \in Flows : agenda[i] \in At("Link", f)
  BY <1>3
<1>5. /\ Typed /\ Scheduled /\ Buffered /\ LinkReady /\ BufferBounded
  BY DEF NetInv
<1>6. /\ buffer \in Seq(Packets) /\ Len(buffer) \in Nat /\ DOMAIN buffer = 1..Len(buffer)
      /\ now \in Nat
  BY <1>5, LenProperties DEF Typed
<1>7. pkt \in DataOf(f) /\ pkt \in Packets
  BY <1>2, <1>4, AtIs DEF LoadOf, DataOf
<1>8. /\ buffer' \in Seq(Packets) /\ Len(buffer') = Len(buffer) + 1
      /\ \A p \in 1..Len(buffer) : buffer'[p] = buffer[p]
      /\ buffer'[Len(buffer) + 1] = pkt /\ DOMAIN buffer' = 1..(Len(buffer) + 1)
  <2> HIDE DEF pkt
  <2> QED
    BY <1>1, <1>6, <1>7, AppendProperties, LenProperties
<1>9. nextOpp' \in [Flows -> Nat] /\ OppMovesOn(nextOpp, nextOpp') /\ OppsNear'
  BY <1>1, <1>3, OppsStayNear
<1>10. Returned(<<>>) /\ <<>> \in Seq(Actions) /\ DOMAIN <<>> = {}
  BY EmptySeq, LenProperties DEF Returned
<1>11. now' \in 0..Till /\ Scheduled' /\ InOrder' /\ Apart'
  BY <1>1, <1>3, <1>9, <1>10, StepSchedules
<1>12. LinkReady'
  BY <1>1, <1>3, <1>10, LinkStaysReady
<1>13. /\ Follows(agenda', agenda, i, <<>>) /\ agenda' \in Seq(Actions)
       /\ \A p \in DOMAIN agenda' : p \in 1..(Len(agenda) - 1)
       /\ \A p \in 1..(Len(agenda) - 1) : (IF p < i THEN p ELSE p + 1) \in DOMAIN agenda
  BY <1>1, <1>5, <1>10, AgendaFollows
<1>14. Typed'
  BY <1>1, <1>5, <1>8, <1>9, <1>11, <1>13 DEF Typed
<1>15. Buffered'
  <2>1. ASSUME NEW p \in DOMAIN buffer' PROVE \E h \in Flows : buffer'[p] \in DataOf(h)
    <3> HIDE DEF pkt
    <3>1. CASE p = Len(buffer) + 1
      BY <1>7, <1>8, <3>1
    <3>2. CASE p # Len(buffer) + 1
      <4>1. p \in DOMAIN buffer /\ buffer'[p] = buffer[p]
        BY <1>6, <1>8, <3>2
      <4> QED
        BY <1>5, <4>1 DEF Buffered
    <3> QED
      BY <3>1, <3>2
  <2> QED
    BY <2>1 DEF Buffered
<1>16. BufferBounded'
  <2>1. Bounded' <=> Bounded
    BY <1>1 DEF Bounded
  <2>2. SUFFICES ASSUME Bounded
                 PROVE  /\ Len(buffer') <= bufsize'.size
                        /\ \A p \in DOMAIN agenda' : InTime(agenda[p])'
    BY <2>1 DEF BufferBounded
  <2> DEFINE size == bufsize.size
             gap == Gap(trace.link.rate)
             n == Len(buffer)
  <2>3. size \in Nat /\ gap \in Nat /\ Slack = size * gap
    BY <1>5, <2>2, BoundedIs DEF Slack
  <2>4. n + 1 <= size
    BY <1>1, <1>6, <2>2, <2>3 DEF BufferFull, Bounded
  <2>5. LatestArrival(pkt) = now' + size * gap
    <3>1. pkt.sentTime + Delays[f] = now'
      BY <1>2, <1>3, <1>4 DEF Due
    <3>2. LatestArrival(pkt) = pkt.sentTime + Delays[f] + Slack
      BY <1>5, <1>7, <2>2, BoundedIs
    <3> QED
      BY <2>3, <3>1, <3>2
  <2>6. /\ \A p \in DOMAIN agenda : InTime(agenda[p])
        /\ \A p \in DOMAIN agenda : agenda[p] \in LinkTurns => agenda[p].when <= now + gap
        /\ \A p \in DOMAIN agenda : agenda[p] \in Actions
    <3>1. \A p \in DOMAIN agenda : InTime(agenda[p])
      BY <1>5, <2>2 DEF BufferBounded
    <3>2. \A p \in DOMAIN agenda : agenda[p] \in LinkTurns => agenda[p].when <= now + gap
      BY <1>5, <2>2, TurnOnSchedule DEF OnSchedule, Bounded
    <3>3. \A p \in DOMAIN agenda : agenda[p] \in Actions
      BY <1>5, ElementOfSeq, LenProperties DEF Typed
    <3> QED
      BY <3>1, <3>2, <3>3
  <2>7. ASSUME NEW e \in Actions, InTime(e), e \in LinkTurns => e.when <= now + gap
        PROVE  InTime(e)'
    <3>1. \A q : LatestArrival(q)' = LatestArrival(q)
      BY <1>1 DEF LatestArrival
    <3>2. ASSUME e \in LinkTurns, NEW p \in DOMAIN buffer'
          PROVE  e.when + (p - 1) * gap <= LatestArrival(buffer'[p])
      <4>1. CASE p \in DOMAIN buffer
        <5>1. buffer'[p] = buffer[p]
          BY <1>6, <1>8, <4>1
        <5> QED
          BY <2>7, <3>2, <4>1, <5>1 DEF InTime
      <4>2. CASE p = n + 1
        <5>1. buffer'[p] = pkt /\ p - 1 = n
          BY <1>6, <1>8, <4>2
        <5>2. e.when <= now + gap /\ e.when \in Nat
          BY <2>7, <3>2 DEF Actions
        <5>3. (n + 1) * gap = n * gap + gap /\ (n + 1) * gap <= size * gap
              /\ n * gap \in Nat /\ size * gap \in Nat
          <6> HIDE DEF n, gap, size
          <6>1. n \in Nat /\ n + 1 \in Nat
            BY <1>6 DEF n
          <6>2. (n + 1) * gap <= size * gap
            BY <2>3, <2>4, <6>1, Products
          <6> QED
            BY <2>3, <6>1, <6>2, Products
        <5> DEFINE x == n * gap
                   y == size * gap
                   z == (n + 1) * gap
        <5>4. x \in Nat /\ y \in Nat /\ z = x + gap /\ z <= y
          BY <5>3
        <5>5. LatestArrival(pkt) = now' + y
          BY <2>5
        <5> HIDE DEF x, y, z, gap, pkt
        <5>6. e.when + x <= now' + y
          BY <1>3, <1>6, <2>3, <5>2, <5>4
        <5> QED
          BY <5>1, <5>5, <5>6 DEF x, gap
      <4>3. p \in DOMAIN buffer \/ p = n + 1
        BY <1>6, <1>8
      <4> QED
        BY <4>1, <4>2, <4>3
    <3>3. trace' = trace
      BY <1>1
    <3>4. e.act = "Push" => e.when <= LatestArrival(e.pkt)
                               + (IF Obj(e.to).kind # "Sender" THEN 0
                                  ELSE Longest(AggGaps[FlowOf(e.pkt)]))
      BY <2>7 DEF InTime
    <3> QED
      BY <3>1, <3>2, <3>3, <3>4 DEF InTime
  <2>8. ASSUME NEW p \in DOMAIN agenda' PROVE InTime(agenda[p])'
    <3> DEFINE e == agenda'[p]
    <3>1. e = agenda[IF p < i THEN p ELSE p + 1] /\ (IF p < i THEN p ELSE p + 1) \in DOMAIN agenda
      BY <1>13, <2>8 DEF Follows
    <3>2. e \in Actions /\ InTime(e) /\ (e \in LinkTurns => e.when <= now + gap)
      BY <2>6, <3>1
    <3> QED
      BY <2>7, <3>2
  <2>9. Len(buffer') <= bufsize'.size
    BY <1>1, <1>8, <2>4
  <2> QED
    BY <2>8, <2>9
<1> QED
  BY <1>9, <1>11, <1>12, <1>14, <1>15, <1>16 DEF NetInv

(* A packet that the link lets go is pushed to the router at once. *)
LEMMA AtOnce ==
  ASSUME NEW kind \in Kinds, NEW f \in Flows, NEW pkt \in LoadOf(kind, f), NEW t \in Nat,
         NEW opp, NEW e, e = Push(t, PlaceOf(kind, f), pkt), kind \in {"Router"}
  PROVE  e \in Actions /\ e \in At(kind, f) /\ Placed(e) /\ Fresh(e, t, opp) /\ e \notin LinkTurns
BY NewPush

(* What the link passes on is at the router, at once.                       *)
LEMMA RouterGets ==
  ASSUME NEW f \in Flows, NEW pkt \in DataOf(f), NEW t \in Nat, NEW opp,
         NEW e, e = Push(t, RouterId, pkt)
  PROVE  /\ e \in Actions /\ e \in At("Router", f) /\ Placed(e) /\ Fresh(e, t, opp)
         /\ e \notin LinkTurns
<1>1. ASSUME NEW kind, kind = "Router"
      PROVE  e \in Actions /\ e \in At(kind, f) /\ Placed(e) /\ Fresh(e, t, opp) /\ e \notin LinkTurns
  <2>1. kind \in Kinds /\ pkt \in LoadOf(kind, f) /\ kind \in {"Router"}
    BY <1>1 DEF Kinds, LoadOf
  <2>2. PlaceOf(kind, f) = RouterId
    BY <1>1 DEF PlaceOf
  <2>3. e = Push(t, PlaceOf(kind, f), pkt)
    BY <2>2
  <2> QED
    BY <2>1, <2>3, AtOnce
<1> QED
  BY <1>1

(* What leaves the buffer at an opportunity, and what the link returns: the *)
(* next opportunity, at this time, and the packet on top of the buffer.      *)
LinkReturns(i, at, actions) ==
  /\ Returns(i, actions) /\ Returned(actions)
  /\ DOMAIN actions = 1..Len(actions) /\ Len(actions) \in {1, 2}
  /\ actions[1] \in LinkTurns /\ actions[1].when = at
  /\ Len(actions) = 2 <=> Len(buffer) > 0
  /\ Len(actions) = 2 =>
       \E f \in Flows : /\ buffer[1] \in DataOf(f)
                        /\ actions[2] = Push(now', RouterId, buffer[1])
                        /\ actions[2] \in At("Router", f) /\ actions[2] \notin LinkTurns
  /\ buffer' \in Seq(Packets)
  /\ DOMAIN buffer' = 1..(IF Len(buffer) = 0 THEN 0 ELSE Len(buffer) - 1)
  /\ Len(buffer') = (IF Len(buffer) = 0 THEN 0 ELSE Len(buffer) - 1)
  /\ \A p \in DOMAIN buffer' : p + 1 \in DOMAIN buffer /\ buffer'[p] = buffer[p + 1]

(* What a transmit opportunity returns, and what it leaves of the buffer.   *)
LEMMA LinkEventIs ==
  ASSUME NetInv, NEW i \in DOMAIN agenda, LinkEvent(i)
  PROVE  \E tx \in NextTx(trace, agenda[i].when), actions \in Seq(Actions) :
           trace' = tx.trace /\ LinkReturns(i, tx.at, actions)
<1> DEFINE to == Obj(agenda[i].to)
<1>1. /\ Runs(i, "Link", "Event") /\ buffer' = SubSeq(buffer, Len(Departing) + 1, Len(buffer))
      /\ UNCHANGED <<bufsize, nextOpp, sent>>
  BY DEF LinkEvent
<1>2. PICK tx \in NextTx(trace, agenda[i].when) :
        /\ trace' = tx.trace
        /\ Returns(i, <<Event(tx.at, agenda[i].to)>>
                        \o [k \in DOMAIN Departing |-> Push(now', to.next, Departing[k])])
  BY DEF LinkEvent
<1>3. Typed /\ Scheduled /\ InOrder /\ Buffered /\ LinkReady
  BY DEF NetInv
<1>4. IsNext(i) /\ agenda[i].act = "Event" /\ to.kind = "Link"
  BY <1>1 DEF Runs
<1>5. agenda[i] \in LinkTurns /\ agenda[i].when \in Nat
  BY <1>3, <1>4, NextIs, EventAt
<1>6. now' = agenda[i].when /\ now' \in Nat
  BY <1>2, <1>5 DEF Returns
<1>7. agenda[i].to = LinkId /\ to.next = RouterId
  BY <1>5, ObjectsAre DEF LinkTurns, Object
<1>8. tx.at \in Nat /\ tx.at >= now'
  <2>1. trace \in Traces /\ opps \in Nat
    BY <1>3 DEF Typed, Traces
  <2> QED
    BY <1>3, <1>5, <1>6, <2>1, NextTxIs DEF LinkReady
<1> DEFINE turn == Event(tx.at, LinkId)
<1>9. turn \in Actions /\ turn \in LinkTurns /\ Placed(turn) /\ Fresh(turn, now', nextOpp')
      /\ turn.act = "Event" /\ turn.when = tx.at
  BY <1>6, <1>8, NewTurn
<1>10. buffer \in Seq(Packets) /\ Len(buffer) \in Nat /\ DOMAIN buffer = 1..Len(buffer)
  BY <1>3, LenProperties DEF Typed
<1> HIDE DEF turn, to
<1>11. CASE buffer = <<>>
  <2>1. Departing = <<>> /\ Len(buffer) = 0
    BY <1>11 DEF Departing
  <2> DEFINE none == [k \in DOMAIN Departing |-> Push(now', to.next, Departing[k])]
             one == <<turn>>
  <2>2. none = <<>>
    BY <2>1
  <2> HIDE DEF none
  <2>3. <<turn>> \o none = one /\ one \in Seq(Actions) /\ Len(one) = 1
        /\ DOMAIN one = {1} /\ one[1] = turn
    BY <1>9, <2>2
  <2>4. Returns(i, one)
    BY <1>2, <1>7, <2>3 DEF none, turn
  <2> HIDE DEF one
  <2>5. Returned(one)
    BY <1>9, <2>3 DEF Returned
  <2>6. buffer' = <<>>
    BY <1>1, <1>11, <2>1
  <2>7. buffer' \in Seq(Packets) /\ Len(buffer') = 0 /\ DOMAIN buffer' = {}
    BY <2>6
  <2>8. LinkReturns(i, tx.at, one)
    BY <1>9, <2>1, <2>3, <2>4, <2>5, <2>7 DEF LinkReturns
  <2> QED
    BY <1>2, <2>3, <2>8
<1>12. CASE buffer # <<>>
  <2> DEFINE pkt == buffer[1]
             e == Push(now', RouterId, pkt)
  <2>1. Len(buffer) > 0 /\ Departing = <<pkt>>
    <3>1. Len(buffer) > 0
      BY <1>10, <1>12, EmptySeq
    <3>2. Head(buffer) = buffer[1]
      BY <1>10, <1>12
    <3> QED
      BY <1>12, <3>1, <3>2 DEF Departing
  <2>2. PICK f \in Flows : pkt \in DataOf(f)
    BY <1>3, <1>10, <2>1 DEF Buffered
  <2>3. e \in Actions /\ e \in At("Router", f) /\ Placed(e) /\ Fresh(e, now', nextOpp')
        /\ e \notin LinkTurns
    <3> HIDE DEF pkt
    <3> QED
      BY <1>6, <2>2, RouterGets
  <2> DEFINE some == [k \in DOMAIN Departing |-> Push(now', to.next, Departing[k])]
             both == <<turn>> \o some
  <2>4. some = <<e>>
    <3> HIDE DEF pkt
    <3> QED
      BY <1>7, <2>1
  <2> HIDE DEF some, pkt, e
  <2>5. both \in Seq(Actions) /\ Len(both) = 2 /\ DOMAIN both = {1, 2}
        /\ both[1] = turn /\ both[2] = e
    <3> DEFINE first == <<turn>>
               last == <<e>>
    <3>1. /\ first \in Seq(Actions) /\ Len(first) = 1 /\ first[1] = turn
          /\ last \in Seq(Actions) /\ Len(last) = 1 /\ last[1] = e
      BY <1>9, <2>3
    <3>2. both = first \o last
      BY <2>4
    <3> HIDE DEF first, last, both
    <3> QED
      BY <3>1, <3>2, ConcatProperties, LenProperties
  <2>6. Returns(i, both)
    BY <1>2, <1>7 DEF some, turn
  <2> HIDE DEF both
  <2>7. Returned(both)
    BY <1>9, <2>3, <2>5 DEF Returned
  <2>8. buffer' = SubSeq(buffer, 2, Len(buffer))
    BY <1>1, <2>1
  <2>9. buffer' \in Seq(Packets) /\ Len(buffer') = Len(buffer) - 1
        /\ DOMAIN buffer' = 1..(Len(buffer) - 1)
        /\ \A p \in 1..(Len(buffer) - 1) : buffer'[p] = buffer[p + 1]
    BY <1>10, <2>1, <2>8
  <2>10. \A p \in DOMAIN buffer' : p + 1 \in DOMAIN buffer /\ buffer'[p] = buffer[p + 1]
    BY <1>10, <2>9
  <2>11. \E h \in Flows : /\ buffer[1] \in DataOf(h) /\ both[2] = Push(now', RouterId, buffer[1])
                          /\ both[2] \in At("Router", h) /\ both[2] \notin LinkTurns
    BY <2>2, <2>3, <2>5 DEF e, pkt
  <2>12. LinkReturns(i, tx.at, both)
    BY <1>9, <1>10, <2>1, <2>5, <2>6, <2>7, <2>9, <2>10, <2>11 DEF LinkReturns
  <2> QED
    BY <1>2, <2>5, <2>12
<1> QED
  BY <1>11, <1>12

(* One gap later, with one packet fewer before it.                          *)
LEMMA FromHere ==
  ASSUME NEW t \in Nat, NEW g \in Nat, NEW x \in Nat, NEW y, y = x + g, NEW latest \in Nat,
         t + y <= latest
  PROVE  t + g + x <= latest
OBVIOUS

(* Link::event keeps the invariant: the next opportunity is on schedule,    *)
(* and every packet that waits has moved up by one.                         *)
LEMMA LinkEventStep ==
  ASSUME NetInv, NEW i \in DOMAIN agenda, LinkEvent(i)
  PROVE  NetInv'
<1>1. PICK tx \in NextTx(trace, agenda[i].when) :
        \E actions \in Seq(Actions) : trace' = tx.trace /\ LinkReturns(i, tx.at, actions)
  BY LinkEventIs
<1>2. PICK actions \in Seq(Actions) : trace' = tx.trace /\ LinkReturns(i, tx.at, actions)
  BY <1>1
<1>3. Runs(i, "Link", "Event") /\ UNCHANGED <<bufsize, nextOpp, sent>> /\ opps' = opps + 1
  BY DEF LinkEvent
<1>4. /\ Returns(i, actions) /\ Returned(actions)
      /\ DOMAIN actions = 1..Len(actions) /\ Len(actions) \in {1, 2}
      /\ actions[1] \in LinkTurns /\ actions[1].when = tx.at
      /\ Len(actions) = 2 =>
           \E f \in Flows : /\ buffer[1] \in DataOf(f)
                            /\ actions[2] = Push(now', RouterId, buffer[1])
                            /\ actions[2] \in At("Router", f) /\ actions[2] \notin LinkTurns
  BY <1>2 DEF LinkReturns
<1>5. /\ Len(actions) = 2 <=> Len(buffer) > 0
      /\ buffer' \in Seq(Packets)
      /\ DOMAIN buffer' = 1..(IF Len(buffer) = 0 THEN 0 ELSE Len(buffer) - 1)
      /\ Len(buffer') = (IF Len(buffer) = 0 THEN 0 ELSE Len(buffer) - 1)
      /\ \A p \in DOMAIN buffer' : p + 1 \in DOMAIN buffer /\ buffer'[p] = buffer[p + 1]
  BY <1>2 DEF LinkReturns
<1>6. Typed /\ Scheduled /\ InOrder /\ Buffered /\ LinkReady /\ BufferBounded
  BY DEF NetInv
<1>7. /\ IsNext(i) /\ agenda[i] \in LinkTurns /\ agenda[i].when \in Nat
      /\ agenda[i].when \in now..Till /\ now' = agenda[i].when
  BY <1>3, <1>4, <1>6, NextIs, EventAt DEF Runs, Returns
<1>8. now' \in Nat /\ now \in Nat /\ now <= now'
  BY <1>6, <1>7 DEF Typed
<1>9. /\ OnSchedule(agenda[i], trace.link, opps, now)
      /\ \A p \in DOMAIN agenda : agenda[p] \in LinkTurns => p = i
  BY <1>6, <1>7, TurnOnSchedule
<1>10. nextOpp' \in [Flows -> Nat] /\ OppMovesOn(nextOpp, nextOpp') /\ OppsNear'
  BY <1>3, <1>8, OppsStayNear
<1>11. now' \in 0..Till /\ Scheduled' /\ InOrder' /\ Apart'
  BY <1>4, <1>7, <1>10, StepSchedules
<1>12. /\ Follows(agenda', agenda, i, actions) /\ agenda' \in Seq(Actions)
       /\ DOMAIN agenda' = 1..Len(agenda')
       /\ \A p \in DOMAIN agenda' :
            p \in 1..(Len(agenda) - 1) \/ \E k \in DOMAIN actions : p = Len(agenda) - 1 + k
       /\ \A p \in 1..(Len(agenda) - 1) : (IF p < i THEN p ELSE p + 1) \in DOMAIN agenda \ {i}
  BY <1>4, <1>6, AgendaFollows
<1>13. /\ trace \in Traces /\ opps \in Nat /\ Len(agenda) \in Nat
       /\ buffer \in Seq(Packets) /\ Len(buffer) \in Nat /\ DOMAIN buffer = 1..Len(buffer)
  BY <1>6, LenProperties DEF Typed, Traces
<1>13a. /\ Len(buffer') <= Len(buffer) /\ Len(buffer') \in Nat
        /\ \A p \in DOMAIN buffer' : p \in Nat /\ p >= 1
        /\ Len(actions) = 2 => 1 \in DOMAIN buffer
  <2> DEFINE n == Len(buffer)
             less == IF n = 0 THEN 0 ELSE n - 1
  <2>1. n \in Nat /\ less \in Nat /\ less <= n
    BY <1>13
  <2>2. DOMAIN buffer = 1..n /\ DOMAIN buffer' = 1..less /\ Len(buffer') = less
        /\ (Len(actions) = 2 <=> n > 0)
    BY <1>5, <1>13
  <2> HIDE DEF less, n
  <2>3. n > 0 => 1 \in 1..n
    BY <2>1
  <2>4. \A p \in 1..less : p \in Nat /\ p >= 1
    BY <2>1
  <2>5. Len(buffer') <= n
    BY <2>1, <2>2
  <2> QED
    BY <2>1, <2>2, <2>3, <2>4, <2>5 DEF n
<1>14. /\ tx.at \in Nat /\ tx.at >= now' /\ tx.trace \in Traces /\ trace'.link = trace.link
       /\ trace.link.kind = "Const" => tx.at = now' + Gap(trace.link.rate)
       /\ trace.link.kind = "Mahimahi" => trace'.next = (opps + 1) % Len(trace.link.times)
       /\ trace.link.kind = "Piecewise" => trace'.cur < Len(trace.link.rates)
       /\ trace.link.kind \in {"Const", "Mahimahi"} => tx.at = OpportunityTime(trace.link, opps + 1)
  <2>1. /\ trace.link.kind = "Mahimahi" => trace.next = opps % Len(trace.link.times)
        /\ trace.link.kind = "Piecewise" => trace.cur < Len(trace.link.rates)
    BY <1>6 DEF LinkReady
  <2> DEFINE t == agenda[i].when
  <2>2. /\ tx.at \in Nat /\ tx.at >= t /\ tx.trace \in Traces /\ tx.trace.link = trace.link
        /\ trace.link.kind = "Const" => tx.at = t + Gap(trace.link.rate)
        /\ trace.link.kind = "Mahimahi" => tx.trace.next = (opps + 1) % Len(trace.link.times)
        /\ trace.link.kind = "Piecewise" => tx.trace.cur < Len(trace.link.rates)
        /\ trace.link.kind \in {"Const", "Mahimahi"} /\ t = OpportunityTime(trace.link, opps)
             => tx.at = OpportunityTime(trace.link, opps + 1)
    <3>1. t \in Nat
      BY <1>7
    <3>2. tx \in NextTx(trace, t)
      OBVIOUS
    <3> HIDE DEF t
    <3> QED
      BY <1>13, <2>1, <3>1, <3>2, NextTxIs
  <2>3. trace.link.kind \in {"Const", "Mahimahi"} => t = OpportunityTime(trace.link, opps)
    BY <1>9 DEF OnSchedule
  <2> QED
    BY <1>2, <1>7, <2>2, <2>3
<1>15. Typed'
  BY <1>2, <1>3, <1>5, <1>6, <1>10, <1>11, <1>12, <1>14 DEF Typed, Traces
<1>16. Buffered'
  BY <1>5, <1>6 DEF Buffered
<1>17. Len(agenda) \in DOMAIN agenda' /\ agenda'[Len(agenda)] = actions[1]
  <2>1. 1 \in DOMAIN actions /\ 1 \in 1..Len(actions) /\ Len(actions) >= 1
    BY <1>4
  <2>2. agenda'[Len(agenda) - 1 + 1] = actions[1]
    BY <1>12, <2>1 DEF Follows
  <2>3. Len(agenda) \in 1..Len(agenda')
    <3>1. Len(agenda') = Len(agenda) - 1 + Len(actions)
      BY <1>12 DEF Follows
    <3>2. Len(agenda) >= 1
      BY <1>6, LenProperties DEF Typed
    <3> QED
      BY <1>4, <1>13, <3>1, <3>2
  <2>4. Len(agenda) - 1 + 1 = Len(agenda)
    BY <1>13
  <2> QED
    BY <1>12, <2>2, <2>3, <2>4
<1>18. ASSUME NEW p \in DOMAIN agenda', agenda'[p] \in LinkTurns PROVE p = Len(agenda)
  <2>1. CASE p \in 1..(Len(agenda) - 1)
    <3>1. agenda'[p] = agenda[IF p < i THEN p ELSE p + 1]
      BY <1>12, <2>1 DEF Follows
    <3> QED
      BY <1>9, <1>12, <1>18, <2>1, <3>1
  <2>2. ASSUME NEW k \in DOMAIN actions, p = Len(agenda) - 1 + k PROVE p = Len(agenda)
    <3>1. agenda'[p] = actions[k]
      BY <1>4, <1>12, <2>2 DEF Follows
    <3>2. k = 1
      BY <1>4, <1>18, <3>1
    <3> QED
      BY <1>13, <2>2, <3>2
  <2> QED
    BY <1>12, <2>1, <2>2
<1>19. LinkReady'
  <2>1. /\ trace'.link.kind = "Mahimahi" => trace'.next = opps' % Len(trace'.link.times)
        /\ trace'.link.kind = "Piecewise" => trace'.cur < Len(trace'.link.rates)
    BY <1>3, <1>14
  <2>2. OnSchedule(actions[1], trace'.link, opps', now')
    <3>1. trace.link.kind = "Const" => Gap(trace.link.rate) \in Nat
      BY <1>13, ConstTimes DEF Traces
    <3>2. opps' # 0
      BY <1>3 DEF NetInv, Typed
    <3> QED
      BY <1>3, <1>4, <1>8, <1>14, <3>1, <3>2 DEF OnSchedule
  <2>3. \E p \in DOMAIN agenda' :
          /\ agenda'[p] \in LinkTurns /\ OnSchedule(agenda'[p], trace'.link, opps', now')
          /\ \A j \in DOMAIN agenda' : agenda'[j] \in LinkTurns => j = p
    BY <1>4, <1>17, <1>18, <2>2
  <2> QED
    BY <2>1, <2>3 DEF LinkReady
<1>20. BufferBounded'
  <2>1. Bounded' <=> Bounded
    BY <1>3, <1>14 DEF Bounded
  <2>2. SUFFICES ASSUME Bounded
                 PROVE  /\ Len(buffer') <= bufsize'.size
                        /\ \A p \in DOMAIN agenda' : InTime(agenda[p])'
    BY <2>1 DEF BufferBounded
  <2> DEFINE gap == Gap(trace.link.rate)
  <2>3. bufsize.size \in Nat /\ gap \in Nat
    BY <1>6, <2>2, BoundedIs
  <2>4. /\ Len(buffer) <= bufsize.size
        /\ \A p \in DOMAIN agenda : InTime(agenda[p])
    BY <1>6, <2>2 DEF BufferBounded
  <2>5. Len(buffer') <= bufsize'.size
    BY <1>3, <1>13a, <2>3, <2>4
  <2>6. \A q : LatestArrival(q)' = LatestArrival(q)
    BY <1>3, <1>14 DEF LatestArrival
  <2>7. ASSUME NEW p \in DOMAIN buffer
        PROVE  /\ agenda[i].when + (p - 1) * gap <= LatestArrival(buffer[p])
               /\ LatestArrival(buffer[p]) \in Nat
    <3>1. buffer[p] \in Packets /\ \E f \in Flows : buffer[p] \in DataOf(f) \cup AcksOf(f)
      BY <1>6, <1>13, ElementOfSeq DEF Buffered
    <3> QED
      BY <1>6, <1>7, <2>2, <2>4, <3>1, BoundedIs DEF InTime
  <2>8. ASSUME NEW e \in Actions, InTime(e), e \notin LinkTurns PROVE InTime(e)'
    BY <2>6, <2>8 DEF InTime
  <2>9. InTime(actions[1])'
    <3>1. actions[1].act # "Push"
      BY <1>4 DEF LinkTurns
    <3>2. ASSUME NEW p \in DOMAIN buffer'
          PROVE  actions[1].when + (p - 1) * gap <= LatestArrival(buffer'[p])
      <4>1. p + 1 \in DOMAIN buffer /\ buffer'[p] = buffer[p + 1] /\ p \in Nat /\ p >= 1
        BY <1>5, <1>13a
      <4>2. agenda[i].when + (p + 1 - 1) * gap <= LatestArrival(buffer[p + 1])
        BY <2>7, <4>1
      <4>3. actions[1].when = now' + gap
        BY <1>4, <1>14, <2>2 DEF Bounded
      <4>4. (p - 1) * gap \in Nat /\ (p - 1 + 1) * gap = (p - 1) * gap + gap
        <5> HIDE DEF gap
        <5>1. p - 1 \in Nat
          BY <4>1
        <5> QED
          BY <2>3, <5>1, Products
      <4>5. p + 1 - 1 = p /\ p - 1 + 1 = p
        BY <4>1
      <4> DEFINE x == (p - 1) * gap
                 y == p * gap
                 latest == LatestArrival(buffer[p + 1])
      <4>6. x \in Nat /\ y = x + gap
        BY <4>4, <4>5
      <4>7. now' + y <= latest /\ latest \in Nat
        BY <1>7, <2>7, <4>1, <4>2, <4>5
      <4>8. now' + gap + x <= latest
        <5> HIDE DEF x, y, gap, latest
        <5> QED
          BY <1>8, <2>3, <4>6, <4>7, FromHere
      <4> QED
        BY <4>1, <4>3, <4>8
    <3> QED
      BY <1>14, <2>6, <3>1, <3>2 DEF InTime
  <2>10. ASSUME Len(actions) = 2 PROVE InTime(actions[2])'
    <3>1. PICK f \in Flows : /\ buffer[1] \in DataOf(f)
                             /\ actions[2] = Push(now', RouterId, buffer[1])
                             /\ actions[2] \in At("Router", f) /\ actions[2] \notin LinkTurns
      BY <1>4, <2>10
    <3>2. 1 \in DOMAIN buffer
      BY <1>13a, <2>10
    <3>3. agenda[i].when + (1 - 1) * gap <= LatestArrival(buffer[1])
          /\ LatestArrival(buffer[1]) \in Nat
      BY <2>7, <3>2
    <3>4. (1 - 1) * gap = 0
      BY <2>3
    <3>5. now' <= LatestArrival(buffer[1]) + 0
      BY <1>7, <1>8, <3>3, <3>4
    <3>6. actions[2].when = now' /\ actions[2].pkt = buffer[1]
      BY <3>1 DEF Push
    <3>7. "Router" \in Kinds /\ "Router" # "Sender"
      BY DEF Kinds
    <3>8. InTime(actions[2])
      BY <1>6, <2>2, <3>1, <3>5, <3>6, <3>7, InTimeIs
    <3>9. actions[2] \in Actions
      BY <3>1, <3>7, AtIs
    <3> QED
      BY <2>8, <3>1, <3>8, <3>9
  <2>11. ASSUME NEW p \in DOMAIN agenda' PROVE InTime(agenda[p])'
    <3>1. CASE p \in 1..(Len(agenda) - 1)
      <4> DEFINE e == agenda'[p]
                 q == IF p < i THEN p ELSE p + 1
      <4>1. e = agenda[q] /\ q \in DOMAIN agenda \ {i}
        BY <1>12, <3>1 DEF Follows
      <4>2. e \in Actions /\ InTime(e) /\ e \notin LinkTurns
        BY <1>6, <1>9, <2>4, <4>1, ElementOfSeq, LenProperties DEF Typed
      <4> QED
        BY <2>8, <4>2
    <3>2. ASSUME NEW k \in DOMAIN actions, p = Len(agenda) - 1 + k PROVE InTime(agenda[p])'
      <4>1. agenda'[p] = actions[k]
        BY <1>4, <1>12, <3>2 DEF Follows
      <4>2. k = 1 \/ (k = 2 /\ Len(actions) = 2)
        BY <1>4
      <4> QED
        BY <2>9, <2>10, <4>1, <4>2
    <3> QED
      BY <1>12, <3>1, <3>2
  <2> QED
    BY <2>5, <2>11
<1> QED
  BY <1>10, <1>11, <1>15, <1>16, <1>19, <1>20 DEF NetInv

Turns0 == {e \in Actions : Obj(e.to).kind \in {"Link", "Sender"}}

(* Of the objects only the link and the senders schedule events in init().  *)
LEMMA FirstTurns ==
  ASSUME NEW id \in Ids, Event(0, id) \in Turns0
  PROVE  id = LinkId \/ \E f \in Flows : id = SenderOf(f)
<1>1. Obj(id).kind \in {"Link", "Sender"}
  BY DEF Turns0, Event
<1>2. CASE id = RouterId
  BY <1>1, <1>2, ObjectsAre DEF Object
<1>3. ASSUME id # LinkId, id # RouterId PROVE \E f \in Flows : id = SenderOf(f)
  <2>1. PICK f \in Flows : id \in {SenderOf(f), DelayOf(f), AggOf(f), AckerOf(f)}
    BY <1>3, EveryId
  <2>2. Obj(DelayOf(f)).kind = "Delay" /\ Obj(AggOf(f)).kind = "Aggregator"
        /\ Obj(AckerOf(f)).kind = "Acker"
    BY ObjectsAre DEF Object
  <2> QED
    BY <1>1, <2>1, <2>2
<1> QED
  BY <1>2, <1>3

(* Every object's init(): the link's turn, then the senders'. *)
LEMMA InitialEventsAre ==
  /\ InitialEvents \in Seq(Actions) /\ 1 \in DOMAIN InitialEvents
  /\ InitialEvents[1] \in LinkTurns
  /\ \A i \in DOMAIN InitialEvents :
       /\ Placed(InitialEvents[i]) /\ \A opp : Fresh(InitialEvents[i], 0, opp)
       /\ InitialEvents[i].act = "Event" /\ InitialEvents[i].when = 0
       /\ InitialEvents[i] \in LinkTurns => i = 1
<1> DEFINE n == Len(Objects)
           T == {Event(0, id) : id \in Ids}
           e0 == Event(0, LinkId)
           first == <<e0>>
           rest == [i \in 1..(n - 1) |-> Event(0, i)]
           all == [i \in 1..n |-> Event(0, i - 1)]
<1>1. n \in Nat /\ n >= 1 /\ Ids = 0..(n - 1)
  <2>1. n = 2 + 4 * NumFlows
    BY ObjectsAre
  <2> QED
    BY <2>1, NumFlowsAssumption DEF Ids
<1> HIDE DEF n
<1>2. \A id \in Ids : Event(0, id) \in T
  OBVIOUS
<1>3. LinkId \in Ids /\ LinkId = 0
  BY <1>1 DEF LinkId
<1> DEFINE Rest == {Event(0, id) : id \in Ids \ {LinkId}}
<1>4. first \in Seq(T) /\ Len(first) = 1 /\ first[1] = e0 /\ DOMAIN first = {1}
  <2>1. e0 \in T
    BY <1>2, <1>3
  <2> HIDE DEF e0, T
  <2> QED
    BY <2>1
<1>5. rest \in Seq(Rest) /\ rest \in Seq(T) /\ Len(rest) = n - 1
      /\ \A k \in 1..(n - 1) : rest[k] = Event(0, k)
  <2>1. \A k \in 1..(n - 1) : k \in Ids \ {LinkId}
    BY <1>1, <1>3
  <2>2. \A k \in 1..(n - 1) : Event(0, k) \in Rest /\ Event(0, k) \in T
    BY <2>1
  <2>3. n - 1 \in Nat
    BY <1>1
  <2> HIDE DEF Rest, T
  <2> QED
    BY <2>2, <2>3
<1>6. all \in Seq(T) /\ Len(all) = n /\ \A k \in 1..n : all[k] = Event(0, k - 1)
  <2>1. \A k \in 1..n : k - 1 \in Ids
    BY <1>1
  <2>2. \A k \in 1..n : Event(0, k - 1) \in T
    BY <2>1
  <2> HIDE DEF T
  <2> QED
    BY <1>1, <2>2
<1> HIDE DEF T, first, rest, all, Rest
<1>7. all = first \o rest
  <2> DEFINE both == first \o rest
  <2>1. /\ both \in Seq(T) /\ Len(both) = 1 + (n - 1)
        /\ \A k \in 1..(1 + (n - 1)) : both[k] = IF k <= 1 THEN first[k] ELSE rest[k - 1]
    <3>0. first \in Seq(T) /\ rest \in Seq(T)
      BY <1>4, <1>5
    <3>1. /\ both \in Seq(T) /\ Len(both) = Len(first) + Len(rest)
          /\ \A k \in 1..(Len(first) + Len(rest)) :
               both[k] = IF k <= Len(first) THEN first[k] ELSE rest[k - Len(first)]
      BY <3>0, ConcatProperties
    <3> QED
      BY <1>4, <1>5, <3>1
  <2> HIDE DEF both
  <2>2. Len(both) = n
    BY <1>1, <2>1
  <2>3. ASSUME NEW k \in 1..n PROVE both[k] = all[k]
    <3>1. CASE k = 1
      BY <1>1, <1>3, <1>4, <1>6, <2>1, <3>1 DEF e0
    <3>2. CASE k # 1
      <4>1. k - 1 \in 1..(n - 1) /\ ~(k <= 1) /\ k \in 1..(1 + (n - 1))
        BY <1>1, <3>2
      <4>2. both[k] = rest[k - 1] /\ rest[k - 1] = Event(0, k - 1)
        BY <1>5, <2>1, <4>1
      <4> QED
        BY <1>6, <4>2
    <3> QED
      BY <3>1, <3>2
  <2>4. both = all
    BY <1>6, <2>1, <2>2, <2>3, SeqEqual
  <2> QED
    BY <2>4 DEF both
<1>8. InitialEvents = Chosen(all, Turns0)
  BY DEF InitialEvents, Turns0, all, n
<1> DEFINE more == Chosen(rest, Turns0)
<1>9. InitialEvents = Chosen(first, Turns0) \o more
  BY <1>4, <1>5, <1>7, <1>8, ChosenConcat
<1>10. \A id \in Ids : Event(0, id).when = 0 /\ Event(0, id).act = "Event" /\ Event(0, id).to = id
  BY DEF Event
<1>11. ASSUME NEW id \in Ids, id = LinkId \/ \E f \in Flows : id = SenderOf(f)
       PROVE  /\ Event(0, id) \in Actions /\ Placed(Event(0, id))
              /\ \A opp : Fresh(Event(0, id), 0, opp)
              /\ Event(0, id) \in LinkTurns <=> id = LinkId
  <2> SUFFICES ASSUME NEW opp
               PROVE  /\ Event(0, id) \in Actions /\ Placed(Event(0, id))
                      /\ Fresh(Event(0, id), 0, opp)
                      /\ Event(0, id) \in LinkTurns <=> id = LinkId
    OBVIOUS
  <2>1. PICK e : e = Event(0, id)
    OBVIOUS
  <2>2. /\ e \in Actions /\ Placed(e) /\ Fresh(e, 0, opp) /\ e.act = "Event" /\ e.when = 0
        /\ e \in LinkTurns <=> id = LinkId
    BY <1>11, <2>1, NewTurn
  <2> QED
    BY <2>1, <2>2
<1>12. e0 \in Turns0 /\ e0 \in LinkTurns /\ e0 \in Actions
  <2>1. e0 \in Actions /\ e0 \in LinkTurns
    BY <1>3, <1>11
  <2>2. Obj(e0.to).kind = "Link"
    BY ObjectsAre DEF e0, Event, Object
  <2> QED
    BY <2>1, <2>2 DEF Turns0
<1>13. Chosen(first, Turns0) = first
  <2> HIDE DEF e0
  <2>1. Chosen(<<e0>>, Turns0) = <<e0>>
    BY <1>12, ChosenOne
  <2> QED
    BY <2>1 DEF first, e0
<1>14. more \in Seq(Rest \cap Turns0)
  BY <1>5, ChosenType
<1>15. \A e \in Rest \cap Turns0 :
         /\ e \in Actions /\ Placed(e) /\ e.act = "Event" /\ e.when = 0 /\ e \notin LinkTurns
         /\ \A opp : Fresh(e, 0, opp)
  <2> TAKE e \in Rest \cap Turns0
  <2>1. PICK id \in Ids \ {LinkId} : e = Event(0, id)
    BY DEF Rest
  <2>2. id = LinkId \/ \E f \in Flows : id = SenderOf(f)
    BY <2>1, FirstTurns
  <2> QED
    BY <1>10, <1>11, <2>1, <2>2
<1>16. /\ e0 \in Actions /\ Placed(e0) /\ e0.act = "Event" /\ e0.when = 0
       /\ \A opp : Fresh(e0, 0, opp)
  BY <1>3, <1>10, <1>11
<1> HIDE DEF more, e0
<1>17. /\ more \in Seq(Actions) /\ first \in Seq(Actions) /\ Len(more) \in Nat
       /\ \A k \in 1..Len(more) : more[k] \in Rest \cap Turns0
  <2>1. Rest \cap Turns0 \subseteq Actions
    BY DEF Turns0
  <2>2. more \in Seq(Actions)
    BY <1>14, <2>1, SeqMonotonic
  <2>3. Len(more) \in Nat /\ \A k \in 1..Len(more) : more[k] \in Rest \cap Turns0
    BY <1>14, ElementOfSeq, LenProperties
  <2>4. first \in Seq(Actions)
    BY <1>16 DEF first, e0
  <2> QED
    BY <2>2, <2>3, <2>4
<1> DEFINE agd == first \o more
<1>18. /\ agd \in Seq(Actions) /\ Len(agd) = 1 + Len(more)
       /\ \A k \in 1..(1 + Len(more)) : agd[k] = IF k <= 1 THEN first[k] ELSE more[k - 1]
  <2>1. /\ agd \in Seq(Actions) /\ Len(agd) = Len(first) + Len(more)
        /\ \A k \in 1..(Len(first) + Len(more)) :
             agd[k] = IF k <= Len(first) THEN first[k] ELSE more[k - Len(first)]
    BY <1>17, ConcatProperties
  <2> QED
    BY <1>4, <2>1
<1> HIDE DEF agd
<1>19. DOMAIN agd = 1..(1 + Len(more))
  BY <1>18, LenProperties
<1>20. 1 \in DOMAIN agd /\ agd[1] = e0
  BY <1>4, <1>17, <1>18, <1>19
<1>21. ASSUME NEW i \in DOMAIN agd
       PROVE  /\ Placed(agd[i]) /\ \A opp : Fresh(agd[i], 0, opp)
              /\ agd[i].act = "Event" /\ agd[i].when = 0
              /\ agd[i] \in LinkTurns => i = 1
  <2>1. CASE i = 1
    BY <1>16, <1>20, <2>1
  <2>2. CASE i # 1
    <3>1. agd[i] \in Rest \cap Turns0
      BY <1>17, <1>18, <1>19, <2>2
    <3> QED
      BY <1>15, <3>1
  <2> QED
    BY <2>1, <2>2
<1>22. InitialEvents = agd
  BY <1>9, <1>13 DEF agd
<1> QED
  BY <1>12, <1>18, <1>20, <1>21, <1>22

(* The topology as created and initialised satisfies the invariant.         *)
LEMMA NetworkStarts == Init => NetInv
<1> SUFFICES ASSUME Init PROVE NetInv
  OBVIOUS
<1>1. /\ now = 0 /\ agenda = InitialEvents /\ bufsize \in BufSizes /\ buffer = <<>>
      /\ nextOpp = [f \in Flows |-> 0] /\ sent = [f \in Flows |-> 0] /\ opps = 0
  BY DEF Init
<1>2. PICK link \in Links : trace = NewTrace(link)
  BY DEF Init
<1>3. Till \in Nat /\ MaxPkts \in Nat
  BY NetworkAssumption
<1>4. /\ agenda \in Seq(Actions) /\ 1 \in DOMAIN agenda
      /\ agenda[1] \in LinkTurns
      /\ \A i \in DOMAIN agenda :
           /\ Placed(agenda[i]) /\ \A opp : Fresh(agenda[i], 0, opp)
           /\ agenda[i].act = "Event" /\ agenda[i].when = 0
           /\ agenda[i] \in LinkTurns => i = 1
  BY <1>1, InitialEventsAre
<1>5. trace \in Traces /\ trace.link = link /\ trace.cur = 0 /\ trace.next = 0
  BY <1>2, NewTraceIs
<1>6. buffer \in Seq(Packets) /\ DOMAIN buffer = {} /\ Len(buffer) = 0
  BY <1>1
<1>7. Typed
  BY <1>1, <1>3, <1>4, <1>5, <1>6 DEF Typed, Traces
<1>8. Scheduled
  <2>1. nextOpp \in [Flows -> Nat] /\ 0 \in Nat
    BY <1>1
  <2>2. ASSUME NEW i \in DOMAIN agenda PROVE Placed(agenda[i]) /\ Due(agenda[i], 0, nextOpp)
    <3>1. agenda[i] \in Actions
      BY <1>4, ElementOfSeq, LenProperties
    <3>2. Fresh(agenda[i], 0, nextOpp)
      BY <1>4
    <3> QED
      BY <1>4, <2>1, <3>1, <3>2, FreshIsDue
  <2> QED
    BY <1>1, <2>2 DEF Scheduled
<1>9. Buffered
  BY <1>6 DEF Buffered
<1>10. \A i \in DOMAIN agenda, kind \in Kinds, f \in Flows : agenda[i] \notin At(kind, f)
  BY <1>4 DEF At
<1>11. InOrder /\ Apart
  <2>1. InOrder
    BY <1>10 DEF InOrder
  <2>2. "Sender" \in Kinds
    BY DEF Kinds
  <2>3. Apart
    BY <1>10, <2>2 DEF Apart
  <2> QED
    BY <2>1, <2>3
<1>12. OppsNear
  <2>1. \A f \in Flows : Longest(AggGaps[f]) \in Nat /\ nextOpp[f] = 0
    BY <1>1, LongestIs
  <2> QED
    BY <1>1, <2>1 DEF OppsNear
<1>13. LinkReady
  <2>1. /\ trace.link.kind = "Mahimahi" => trace.next = opps % Len(trace.link.times)
        /\ trace.link.kind = "Piecewise" => trace.cur < Len(trace.link.rates)
    <3>1. ASSUME link.kind = "Mahimahi" PROVE 0 = 0 % Len(link.times)
      <4>1. Len(link.times) \in Nat \ {0}
        BY <3>1, MahimahiTimes
      <4> DEFINE n == Len(link.times)
      <4>2. n \in Nat /\ n # 0
        BY <4>1
      <4> HIDE DEF n
      <4>3. 0 = 0 % n
        BY <4>2, DivMod
      <4> QED
        BY <4>3 DEF n
    <3>2. ASSUME link.kind = "Piecewise" PROVE 0 < Len(link.rates)
      <4>1. link.rates # <<>> /\ link.rates \in Seq(Nat \ {0})
        BY <3>2, NetworkAssumption DEF IsLink
      <4> QED
        BY <4>1, EmptySeq, LenProperties
    <3> QED
      BY <1>1, <1>5, <3>1, <3>2
  <2>2. OnSchedule(agenda[1], trace.link, opps, now)
    <3>1. link.kind = "Const" => OpportunityTime(link, 0) = 0 /\ Gap(link.rate) \in Nat
      BY ConstTimes
    <3>2. link.kind = "Mahimahi" => OpportunityTime(link, 0) = 0
      BY MahimahiTimes
    <3>3. agenda[1].when = 0
      BY <1>4
    <3> QED
      BY <1>1, <1>5, <3>1, <3>2, <3>3 DEF OnSchedule
  <2> QED
    BY <1>4, <2>1, <2>2 DEF LinkReady
<1>14. BufferBounded
  <2>1. ASSUME Bounded PROVE Len(buffer) <= bufsize.size
    BY <1>6, <1>7, <2>1, BoundedIs
  <2>2. \A i \in DOMAIN agenda : InTime(agenda[i])
    BY <1>4, <1>6 DEF InTime
  <2> QED
    BY <2>1, <2>2 DEF BufferBounded
<1> QED
  BY <1>7, <1>8, <1>9, <1>11, <1>12, <1>13, <1>14 DEF NetInv

(* So does a state in which nothing changes.                                *)
LEMMA NetworkStutters == NetInv /\ UNCHANGED netVars => NetInv'
<1> SUFFICES ASSUME NetInv, UNCHANGED netVars PROVE NetInv'
  OBVIOUS
<1>1. UNCHANGED <<now, agenda, bufsize, buffer, trace, nextOpp, sent, opps>>
  BY DEF netVars
<1>2. Typed' /\ Scheduled' /\ Buffered' /\ InOrder' /\ Apart' /\ OppsNear' /\ LinkReady'
  BY <1>1 DEF NetInv, Typed, Scheduled, Buffered, InOrder, Apart, OppsNear, LinkReady
<1>3. BufferBounded'
  BY <1>1 DEF NetInv, BufferBounded, Bounded, InTime, LatestArrival
<1> QED
  BY <1>2, <1>3 DEF NetInv

(* Every handler keeps the invariant.                                       *)
LEMMA NetworkSteps == NetInv /\ [Next]_netVars => NetInv'
<1> SUFFICES ASSUME NetInv, [Next]_netVars PROVE NetInv'
  OBVIOUS
<1>1. CASE UNCHANGED netVars
  BY <1>1, NetworkStutters
<1>2. CASE Stop
  BY <1>2, NetworkStutters DEF Stop
<1>3. ASSUME NEW i \in DOMAIN agenda, Step(i) PROVE NetInv'
  <2>1. CASE SenderSends(i)
    BY <2>1, SenderSendsStep
  <2>2. CASE SenderStops(i)
    BY <2>2, SenderStopsStep
  <2>3. CASE SenderGetsAck(i)
    BY <2>3, SenderGetsAckStep
  <2>4. CASE DelayPush(i)
    BY <2>4, DelayPushStep
  <2>5. CASE LinkQueues(i)
    BY <2>5, LinkQueuesStep
  <2>6. CASE LinkDrops(i)
    BY <2>6, LinkDropsStep
  <2>7. CASE LinkEvent(i)
    BY <2>7, LinkEventStep
  <2>8. CASE RouterPush(i)
    BY <2>8, RouterPushStep
  <2>9. CASE AckerPush(i)
    BY <2>9, AckerPushStep
  <2>10. CASE AggregatorPush(i)
    BY <2>10, AggregatorPushStep
  <2> QED
    BY <1>3, <2>1, <2>2, <2>3, <2>4, <2>5, <2>6, <2>7, <2>8, <2>9, <2>10 DEF Step
<1> QED
  BY <1>1, <1>2, <1>3 DEF Next

(* The invariant holds as long as the simulation runs: whatever the flows   *)
(* send, in every topology, with every trace, buffer, delay and             *)
(* aggregation.                                                             *)
THEOREM NetworkInvariant == Spec => []NetInv
<1>1. Init => NetInv
  BY NetworkStarts
<1>2. NetInv /\ [Next]_netVars => NetInv'
  BY NetworkSteps
<1> QED
  BY <1>1, <1>2, PTL DEF Spec

-----------------------------------------------------------------------------

(* It implies the types,                                                    *)
LEMMA InvTyped == NetInv => TypeOK
<1> SUFFICES ASSUME NetInv PROVE TypeOK
  OBVIOUS
<1>1. Typed /\ Scheduled
  BY DEF NetInv
<1>2. ASSUME NEW i \in DOMAIN agenda
      PROVE  agenda[i].when >= now /\ agenda[i].to \in Ids /\ agenda[i].act \in {"Event", "Push"}
  <2>1. agenda[i] \in Actions
    BY <1>1, ElementOfSeq, LenProperties DEF Typed
  <2> QED
    BY <1>1, <2>1 DEF Scheduled, Due, Actions
<1> QED
  BY <1>1, <1>2 DEF Typed, TypeOK

(* that packets are routed,                                                 *)
LEMMA InvRouted == NetInv => Routed
<1> SUFFICES ASSUME NetInv, NEW i \in DOMAIN agenda, agenda[i].act = "Push"
             PROVE  LET at  == Obj(agenda[i].to)
                        pkt == agenda[i].pkt
                    IN  CASE at.kind = "Sender"     -> pkt.type = "Ack" /\ pkt.dest = at.addr
                          [] at.kind = "Aggregator" -> pkt.type = "Ack" /\ pkt.dest = Obj(at.next).addr
                          [] at.kind = "Acker"      -> pkt.type = "Data" /\ pkt.dest = at.addr
                          [] at.kind = "Router"     -> pkt.type = "Data" /\ HasRoute(pkt.dest)
                          [] OTHER                  -> pkt.type = "Data"
  BY DEF Routed
<1> DEFINE e == agenda[i]
           at == Obj(e.to)
           pkt == e.pkt
<1>1. Placed(e)
  BY DEF NetInv, Scheduled
<1>2. PICK kind \in Kinds, f \in Flows : e \in At(kind, f)
  BY <1>1, PushTo
<1>3. at.kind = kind /\ e.to = PlaceOf(kind, f) /\ pkt \in LoadOf(kind, f)
  BY <1>2, AtIs
<1>4. ASSUME kind = "Sender" PROVE pkt.type = "Ack" /\ pkt.dest = at.addr
  <2>1. e.to = SenderOf(f) /\ pkt \in AcksOf(f)
    BY <1>3, <1>4 DEF PlaceOf, LoadOf
  <2> QED
    BY <2>1, ObjectsAre DEF Object, AcksOf
<1>5. ASSUME kind = "Aggregator" PROVE pkt.type = "Ack" /\ pkt.dest = Obj(at.next).addr
  <2>1. e.to = AggOf(f) /\ pkt \in AcksOf(f)
    BY <1>3, <1>5 DEF PlaceOf, LoadOf
  <2>2. at.next = SenderOf(f) /\ Obj(SenderOf(f)).addr = SenderAddrOf(f)
    BY <2>1, ObjectsAre DEF Object
  <2> QED
    BY <2>1, <2>2 DEF AcksOf
<1>6. ASSUME kind = "Acker" PROVE pkt.type = "Data" /\ pkt.dest = at.addr
  <2>1. e.to = AckerOf(f) /\ pkt \in DataOf(f)
    BY <1>3, <1>6 DEF PlaceOf, LoadOf
  <2> QED
    BY <2>1, ObjectsAre DEF Object, DataOf
<1>7. ASSUME kind = "Router" PROVE pkt.type = "Data" /\ HasRoute(pkt.dest)
  <2>1. pkt \in DataOf(f)
    BY <1>3, <1>7 DEF LoadOf
  <2> QED
    BY <2>1, RoutesAre DEF DataOf
<1>8. ASSUME kind \in {"Delay", "Link"} PROVE pkt.type = "Data"
  BY <1>3, <1>8 DEF LoadOf, DataOf
<1> HIDE DEF at, pkt
<1>9. (CASE at.kind = "Sender" -> pkt.type = "Ack" /\ pkt.dest = at.addr
        [] at.kind = "Aggregator" -> pkt.type = "Ack" /\ pkt.dest = Obj(at.next).addr
        [] at.kind = "Acker" -> pkt.type = "Data" /\ pkt.dest = at.addr
        [] at.kind = "Router" -> pkt.type = "Data" /\ HasRoute(pkt.dest)
        [] OTHER -> pkt.type = "Data")
  BY <1>3, <1>4, <1>5, <1>6, <1>7, <1>8 DEF Kinds
<1> QED
  BY <1>9 DEF at, pkt

(* that the link is on schedule,                                            *)
LEMMA InvLink == NetInv => LinkOnSchedule
<1> SUFFICES ASSUME NetInv PROVE LinkOnSchedule
  OBVIOUS
<1>1. Typed /\ LinkReady
  BY DEF NetInv
<1>2. PICK i \in DOMAIN agenda :
        /\ agenda[i] \in LinkTurns /\ OnSchedule(agenda[i], trace.link, opps, now)
        /\ \A j \in DOMAIN agenda : agenda[j] \in LinkTurns => j = i
  BY <1>1 DEF LinkReady
<1>3. \A j \in DOMAIN agenda : agenda[j] \in Actions
  BY <1>1, ElementOfSeq, LenProperties DEF Typed
<1>4. \A j \in DOMAIN agenda :
        (agenda[j].to = LinkId /\ agenda[j].act = "Event") <=> agenda[j] \in LinkTurns
  BY <1>3 DEF LinkTurns
<1>5. i \in Opportunities
  BY <1>2, <1>4 DEF Opportunities
<1>6. Opportunities = {i}
  BY <1>2, <1>4, <1>5 DEF Opportunities
<1> QED
  BY <1>2, <1>5, <1>6 DEF LinkOnSchedule, OnSchedule

(* that queueing is bounded,                                                *)
LEMMA InvBounded == NetInv => QueueingBounded
<1> SUFFICES ASSUME NetInv, Bounded
             PROVE  /\ \A i \in DOMAIN buffer : now <= LatestArrival(buffer[i])
                    /\ \A i \in DOMAIN agenda :
                         agenda[i].act = "Push" =>
                           agenda[i].when <=
                             LatestArrival(agenda[i].pkt)
                               + (IF Obj(agenda[i].to).kind # "Sender" THEN 0
                                  ELSE Longest(AggGaps[FlowOf(agenda[i].pkt)]))
  BY DEF QueueingBounded, Bounded
<1>1. Typed /\ Scheduled /\ Buffered /\ LinkReady /\ \A i \in DOMAIN agenda : InTime(agenda[i])
  BY DEF NetInv, BufferBounded
<1>2. ASSUME NEW p \in DOMAIN buffer PROVE now <= LatestArrival(buffer[p])
  <2>1. PICK q \in DOMAIN agenda : agenda[q] \in LinkTurns
    BY <1>1 DEF LinkReady
  <2> DEFINE gap == Gap(trace.link.rate)
             latest == LatestArrival(buffer[p])
             when == agenda[q].when
  <2>2. when + (p - 1) * gap <= latest
    BY <1>1, <2>1 DEF InTime
  <2>3. when >= now /\ when \in Nat /\ now \in Nat
    BY <1>1, <2>1 DEF Scheduled, Due, Typed, LinkTurns, Actions
  <2>4. gap \in Nat
    BY <1>1, BoundedIs
  <2>5. p \in Nat /\ p >= 1 /\ buffer[p] \in Packets
    BY <1>1, ElementOfSeq, LenProperties DEF Typed
  <2>6. latest \in Nat
    <3>1. \E f \in Flows : buffer[p] \in DataOf(f) \cup AcksOf(f)
      BY <1>1 DEF Buffered
    <3> QED
      BY <1>1, <2>5, <3>1, BoundedIs
  <2> DEFINE x == (p - 1) * gap
  <2>7. x \in Nat
    <3>1. p - 1 \in Nat
      BY <2>5
    <3> HIDE DEF gap
    <3> QED
      BY <2>4, <3>1, Products
  <2> HIDE DEF gap, latest, when, x
  <2>8. when + x <= latest
    BY <2>2 DEF x
  <2>9. now <= latest
    BY <2>3, <2>6, <2>7, <2>8
  <2> QED
    BY <2>9 DEF latest
<1> QED
  BY <1>1, <1>2 DEF InTime

(* and that acks are aggregated.                                            *)
LEMMA InvApart == NetInv => AcksAggregated
<1> SUFFICES ASSUME NetInv, NEW f \in Flows
             PROVE  LET acks == AtKind("Sender", f)
                    IN  \A i, j \in DOMAIN acks :
                          acks[i].when < acks[j].when =>
                            \E g \in AggGaps[f] : acks[j].when >= acks[i].when + g
  BY DEF AcksAggregated
<1> DEFINE acks == AtKind("Sender", f)
           T == {agenda[k] : k \in DOMAIN agenda}
<1>1. Typed /\ Scheduled /\ Apart
  BY DEF NetInv
<1>2. agenda \in Seq(T)
  <2>1. DOMAIN agenda = 1..Len(agenda) /\ Len(agenda) \in Nat /\ agenda \in Seq(Actions)
    BY <1>1, LenProperties DEF Typed
  <2>2. \A k \in 1..Len(agenda) : agenda[k] \in T
    BY <2>1
  <2> HIDE DEF T
  <2>3. agenda \in [1..Len(agenda) -> Actions]
    BY <2>1, LenProperties
  <2>4. agenda \in [1..Len(agenda) -> T]
    BY <2>2, <2>3
  <2> QED
    BY <2>1, <2>4, SeqDef
<1> HIDE DEF T
<1>3. acks \in Seq(T \cap PushesAt("Sender", f))
  BY <1>2, ChosenType DEF AtKind
<1>4. ASSUME NEW k \in DOMAIN acks
      PROVE  \E p \in DOMAIN agenda : acks[k] = agenda[p] /\ agenda[p] \in At("Sender", f)
  <2>1. acks[k] \in T \cap PushesAt("Sender", f)
    BY <1>3, ElementOfSeq, LenProperties
  <2>2. PICK p \in DOMAIN agenda : acks[k] = agenda[p]
    BY <2>1 DEF T
  <2>3. Placed(agenda[p]) /\ "Sender" \in Kinds
    BY <1>1 DEF Scheduled, Kinds
  <2>4. agenda[p] \in At("Sender", f)
    BY <2>1, <2>2, <2>3, PushesAtIs
  <2> QED
    BY <2>2, <2>4
<1> HIDE DEF acks
<1>5. ASSUME NEW i \in DOMAIN acks, NEW j \in DOMAIN acks, acks[i].when < acks[j].when
      PROVE  \E g \in AggGaps[f] : acks[j].when >= acks[i].when + g
  <2>1. PICK p \in DOMAIN agenda : acks[i] = agenda[p] /\ agenda[p] \in At("Sender", f)
    BY <1>4
  <2>2. PICK q \in DOMAIN agenda : acks[j] = agenda[q] /\ agenda[q] \in At("Sender", f)
    BY <1>4
  <2>3. GapBefore(f, agenda[p].when, agenda[q].when)
    BY <1>1, <1>5, <2>1, <2>2 DEF Apart
  <2> QED
    BY <2>1, <2>2, <2>3 DEF GapBefore
<1> QED
  BY <1>5 DEF acks

(* The agenda never holds an action of the past, or for an object that was  *)
(* not registered (run_till relies on both).                                *)
THEOREM NetworkTyped == Spec => []TypeOK
BY NetworkInvariant, InvTyped, PTL

(* No handler is given a packet it cannot take: the asserts of              *)
(* TcpSender::push and Acker::push never fail and Router::push always has a *)
(* route, although create_topology computes ids before it registers the     *)
(* objects.                                                                 *)
THEOREM PacketsAreRouted == Spec => []Routed
BY NetworkInvariant, InvRouted, PTL

(* The link always has exactly one opportunity pending, and the k-th one    *)
(* comes when a constant rate or the trace file says, at every pass of the  *)
(* file: Link::event and the wrap-around of LinkTraceMahimahi::next_tx.     *)
THEOREM LinkKeepsSchedule == Spec => []LinkOnSchedule
BY NetworkInvariant, InvLink, PTL

(* At a constant rate and with a finite buffer no packet is delayed by more *)
(* than its flow's delay and one gap for every place in the buffer, and its *)
(* ack by one aggregation interval more: Link::push drops early enough,     *)
(* Link::event serves every opportunity.                                    *)
THEOREM QueueingIsBounded == Spec => []QueueingBounded
BY NetworkInvariant, InvBounded, PTL

(* Acks on their way to a sender are due together or an aggregation         *)
(* interval apart: the while loop of Aggregator::push.                      *)
THEOREM AcksAreAggregated == Spec => []AcksAggregated
BY NetworkInvariant, InvApart, PTL
=============================================================================
