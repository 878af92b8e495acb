------------------------------- MODULE Topology -------------------------------
(***************************************************************************)
(* create_topology of src/src/topology.rs: the objects of a simulation and *)
(* how they are wired.  Every flow has a sender behind a delay, an acker   *)
(* and an aggregator; all flows share a link and a router.                 *)
(*                                                                         *)
(* The code computes the ids of the objects before it registers them, in   *)
(* another order than it creates them.  An object's id is its place in the *)
(* list of registered objects, counted from 0, as register_obj gives it.   *)
(***************************************************************************)
EXTENDS Integers, Sequences

CONSTANT NumFlows       \* the senders of all sender groups

ASSUME NumFlowsAssumption == NumFlows \in Nat \ {0}

Flows == 0..(NumFlows - 1)

(* An object: its kind, its flow, its address, where it sends, and to whom. *)
Object(kind, flow, addr, next, dest) ==
  [kind |-> kind, flow |-> flow, addr |-> addr, next |-> next, dest |-> dest]

None == -1

LinkId   == 0
RouterId == LinkId + 1
RouterAddr == 0

(* Fault: the objects of the flows before are not counted. *)
SenderIdOfFirst(n) == RouterId + 1

(* The ids of a flow's objects, when n objects wait to be registered. *)
SenderId(n) == RouterId + 1 + n
DelayId(n)  == SenderId(n) + 1
AggId(n)    == DelayId(n) + 1
AckerId(n)  == AggId(n) + 1

(* One turn of the loop over the senders: build is [objs, nextAddr, ports,  *)
(* routes], with the router's ports and routes so far.                      *)
AddFlow(build, flow) ==
  LET n          == Len(build.objs)
      ackerAddr  == build.nextAddr
      senderAddr == build.nextAddr + 1
      port       == Len(build.ports)
  IN  [objs |-> build.objs \o
                <<Object("Sender", flow, senderAddr, DelayId(n), ackerAddr),
                  Object("Delay", flow, None, LinkId, None),
                  Object("Aggregator", flow, None, SenderId(n), None),
                  Object("Acker", flow, ackerAddr, AggId(n), None)>>,
       nextAddr |-> senderAddr + 1,
       ports    |-> Append(build.ports, AckerId(n)),
       routes   |-> [a \in DOMAIN build.routes \cup {ackerAddr} |->
                       IF a = ackerAddr THEN port ELSE build.routes[a]]]

NoFlows ==
  [objs |-> <<>>, nextAddr |-> RouterAddr + 1, ports |-> <<>>,
   routes |-> [a \in {} |-> 0]]

Built ==
  LET build[f \in 0..NumFlows] ==
        IF f = 0 THEN NoFlows ELSE AddFlow(build[f - 1], f - 1)
  IN  build[NumFlows]

(* The scheduler's objects, in the order they are registered. *)
Objects ==
  <<Object("Link", None, None, RouterId, None),
    Object("Router", None, RouterAddr, None, None)>> \o Built.objs

Ids == 0..(Len(Objects) - 1)

Obj(id) == Objects[id + 1]

(* Router::push: where a packet for this address goes on. *)
HasRoute(dest) == dest # RouterAddr /\ dest \in DOMAIN Built.routes
PortTo(dest)   == Built.ports[Built.routes[dest] + 1]
=============================================================================
