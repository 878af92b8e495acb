-------------------------- MODULE CongestionControl --------------------------
(***************************************************************************)
(* The trait CongestionControl of src/src/transport.rs, over the           *)
(* algorithms of the repository, and their construction in                 *)
(* src/src/topology.rs from a configuration                                *)
(*   [kind |-> a CCConfig, delay |-> the group's], and for Const also the  *)
(*   cwnd and the intersend time.                                          *)
(***************************************************************************)
EXTENDS CopaAlgorithms

CONSTANT MaxWindow      \* bound on the windows answered: no flow of a model
                        \* has more packets than that

ASSUME MaxWindowAssumption == MaxWindow \in Nat

AlgType ==
  ConstType \cup AimdType \cup InstantType \cup OscType \cup LinearType \cup BdpType
    \cup CopaType \cup Copa2Type

NewCc(config) ==
  CASE config.kind = "Const"          -> NewConst(config)
    [] config.kind = "AIMD"           -> NewAimd
    [] config.kind = "InstantCC"      -> NewInstant
    [] config.kind = "OscInstantCC"   -> NewOsc
    [] config.kind = "StableLinearCC" -> NewLinear(config.delay)
    [] config.kind = "IncreaseBdpCC"  -> NewBdp
    [] config.kind = "Copa"           -> NewCopa
    [] config.kind = "Copa2"          -> NewCopa2

OnAck(a, ack) ==
  CASE a.kind = "Const"          -> {a}
    [] a.kind = "AIMD"           -> AimdOnAck(a, ack)
    [] a.kind = "InstantCC"      -> InstantOnAck(a, ack)
    [] a.kind = "OscInstantCC"   -> OscOnAck(a, ack)
    [] a.kind = "StableLinearCC" -> LinearOnAck(a, ack)
    [] a.kind = "IncreaseBdpCC"  -> BdpOnAck(a, ack)
    [] a.kind = "Copa"           -> CopaOnAck(a, ack)
    [] a.kind = "Copa2"          -> Copa2OnAck(a, ack)

OnSend(a, now, seq, uid) ==
  CASE a.kind = "InstantCC"      -> {InstantOnSend(a, seq)}
    [] a.kind = "OscInstantCC"   -> OscOnSend(a, now)
    [] a.kind = "StableLinearCC" -> {LinearOnSend(a, seq)}
    [] a.kind = "IncreaseBdpCC"  -> {BdpOnSend(a, now, seq)}
    [] a.kind = "Copa2"          -> {Copa2OnSend(a, uid)}
    [] a.kind \in {"Const", "AIMD", "Copa"} -> {a}

OnTimeout(a) ==
  CASE a.kind = "AIMD"      -> AimdOnTimeout(a)
    [] a.kind = "InstantCC" -> InstantOnTimeout(a)
    [] a.kind = "Copa"      -> CopaOnTimeout(a)
    [] OTHER                -> a

(* get_cwnd *)
GetCwnd(a) ==
  CASE a.kind = "OscInstantCC"   -> a.swung
    [] a.kind = "StableLinearCC" -> LinearWindow(a)
    [] a.kind = "IncreaseBdpCC"  -> BdpWindow(a)
    [] OTHER                     -> a.cwnd

(* get_intersend_time, for the windows that a.cwnd may stand for *)
GetIntersends(a) ==
  CASE a.kind = "Const" -> {a.intersend}
    [] a.kind = "Copa"  -> CopaIntersends(a)
    [] a.kind = "Copa2" -> {Copa2Intersend(a)}
    [] OTHER            -> {0}

Answers(a) == [cwnd : {Smaller(GetCwnd(a), MaxWindow)}, intersend : GetIntersends(a)]
=============================================================================
