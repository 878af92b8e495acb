# cc_sim in TLA+

`cc_sim` is a discrete-event simulator for congestion control algorithms. This
directory holds TLA+ models of its core, TLC configurations that check them on
small instances, and proofs that TLAPS checks for every value of the constants.
Paths below are those of the repository (`src/` in `PROJECT.json` is its root).

## 1. Inventory

| Component | State | Operations | What makes it correct |
|---|---|---|---|
| Scheduler (`simulator.rs`) | clock, heap of times, hash map from times to lists of actions | `schedule`, `simulate` | actions run in time order, and in the order of scheduling at equal times; heap and map agree |
| `EventUidMap`, `PktId` | counter, map of pending events | `new_event`, `retrieve` | no uid is reused while pending |
| `TrackRxPackets` (`transport.rs`) | window of sequence numbers, status of each packet, two counters | `mark_pkt`, `mark_all_as_lost`, `lost_packets`, `num_unreported_lost`, `generate_sack`, ... | counters are exact, the front of the window is not received, SACK blocks are what was received |
| `TcpRto` | srtt, rttvar, backoff | `report_rtt`, `report_timeout`, `report_fresh_ack`, `rto` | stays within its bounds; the backoff resets |
| `TcpSender` | tracker, next packet, times of the last transmission and ack, `tx_scheduled`, rto, congestion control | `init`, `push` (an ack), `event` (Transmit or Timeout) | one chain of transmissions, always a live timer, window, length and pacing respected |
| `Acker` | a tracker | `push` (a packet) | acks are true, and never go back |
| `Router`, `Link`, `LinkTrace`, `Delay`, `Aggregator` (`base.rs`) | routes; buffer; trace position; next opportunity | `push`, `event`, `next_tx` | FIFO per flow, bounded queueing, opportunities on schedule |
| `create_topology` (`topology.rs`) | ids, addresses, routes | one function | every flow is wired to its own objects |
| Congestion controls (`cc.rs`, `copa.rs`, `copa2.rs`) | windows, markers, histories of windows and packets | `on_ack`, `on_send`, `on_timeout`, `get_cwnd`, `get_intersend_time` | no assertion, `unwrap` or subtraction fails on the acks a flow gives them; the window never closes |
| `RTTWindow` (`rtt_window.rs`) | deques of samples and times, minimum, smoothed RTT, length of the history | `new_rtt_sample`, `change_hist_period`, `get_min_rtt` | the minimum is that of the samples held |
| `Tracer` (`tracer.rs`) | counters per sender and interval, per link and bucket; series | `log`, plotting | every event is counted once, in the right interval or bucket |
| `Config`, `main`, `random` | data | parsing, sampling | |

**How they interact.** Everything is single-threaded: the scheduler calls a
handler (`init`, `push`, `event`) of one object, and the handler returns the
actions to schedule, `(when, to, Event(uid) | Push(packet))`. There is no other
communication between objects. A flow is a loop:

    TcpSender -> Delay -> Link -> Router -> Acker -> Aggregator -> TcpSender

with the link and the router shared by all flows. The sender calls its
congestion control directly, and sender and link call the tracer: `on_send` for
every packet with its sequence number and uid, `on_ack` for every ack with its
cumulative ack, the uid of the packet acked, its RTT and the losses not yet
reported, `on_timeout` for every live timer. An algorithm relies on the order of
these calls, and asks the sender for nothing else.

**What is hard.** Interleavings of acks, timers and transmissions in the
sender, at equal times too; packets dropped by the link, and acks that are late;
timers that cannot be cancelled and are told stale from live by one timestamp;
unsigned counters and times; ids computed before the objects exist; loops that
end only if time moves; algorithms that unwrap what an earlier callback should
have left them. `PROJECT.json` lists these hazards with the line of each.

## 2. Modules

| Module | Models | Role |
|---|---|---|
| `TrackRxPackets` | the tracker, as operators on a record | used by sender and acker |
| `TrackerCalls` | a tracker under every sequence of calls | compares closed forms with the code's loops |
| `TcpRto` | the retransmission timeout | used by the sender |
| `TcpSender` | the sender, its events, an environment of any acks | core state machine |
| `TcpFlow` | sender, lossy data path, acker, ack path | composition; refines `TcpSender` |
| `EventQueue` | a stable priority queue | abstract specification |
| `Scheduler` | `schedule` and `simulate` | refines `EventQueue` |
| `LinkTrace` | `next_tx` | used by the network |
| `Topology` | `create_topology`, routes | used by the network |
| `LossyFifo` | a path that may drop and a return path that may not | abstract specification |
| `Network` | delay, link, router, acker, aggregator for several flows | refines `LossyFifo` for each flow |
| `RttWindow` | `RTTWindow`, as operators on a record | used by Copa and Copa2 |
| `CcAlgorithms`, `CopaAlgorithms` | the callbacks of the eight algorithms | used by `CongestionControl` |
| `CongestionControl` | the trait over all algorithms, and their construction | used by the flow |
| `SenderStats`, `LinkStats` | what `Tracer::log` counts of a sender, of a link | used by `CcFlow`, `Network` |
| `CcFlow` | a flow with one of the algorithms, packet uids and statistics | composition; refines `TcpFlow` (proved) |
| `TrackRxProofs`, `TrackerCallsProofs`, `TcpSenderProofs`, `TcpFlowProofs`, `CcFlowProofs`, `SchedulerProofs`, `NetworkProofs`, `NetworkFifoProofs` | | proofs |
| `MCTcpSender`, `MCTcpFlow`, `MCNetwork`, `MCCcFlow` | | values for constants |

A definition marked `Fault` is a wrong version of the definition after it. It
belongs to no specification: `PROJECT.json` ("mutants") names the property that
fails when it takes that definition's place.

### Correspondence with the code

*Tracker.* The `status` deque is a function on the window `[left, right)`. The
loops of `mark_pkt` are one expression each. An ack marks many packets in
ascending order; `MarkAcked` marks them at once: a packet outside the ack gets
one dupack for each newly received packet above it (above its retransmission
mark too), which is what the loops do. `TrackerCalls` writes the loops as folds
and checks that both agree for every ack in every reachable tracker.

*Sender.* One action is one call of a handler, with every call it makes:
`TransmitFresh` is `tx_packet` for a new packet and the `schedule_tx` after it,
`PushAck` the marking, the RTT sample, `on_ack` and `schedule_tx` in the order
the code has (before `on_ack` when a loss is reported). `pending` holds the
scheduled events with their entries in `event_uid_map`. `wire` is what was
pushed to the next hop. The congestion control answers a window out of `Cwnds`
and an interval out of `Intersends`, and may change both at each callback, so
what holds here holds for every algorithm of the repository. Two events due at
the same time run in either order, which includes the order of the scheduler.
An ack is `[sentTime, cum, sack]`, `sack` being the packets its blocks cover;
the open sender accepts any that covers only sent packets and does not take back
a cumulative ack. `TcpFlow` shows that an acker on a FIFO path sends no other.
`panicked` stands for the abort at `*cum_ack - 1`.

*Flow.* `Deliver` is `Acker::push` for the oldest packet on the wire, `Lose` the
drop-tail branch of `Link::push` for any of them, `ReturnAck` the arrival of the
oldest ack. The paths take any time.

*Algorithms.* The state of an algorithm is a record with its `kind`. `on_ack` is
an operator from a state and an ack, `[now, cum, uid, rtt, lost]`, to the set of
states that may follow. Windows are `f64` in the code and are known here by their
whole part (rounded where `get_cwnd` rounds), which is all the sender sees. What
a law computes with square roots, divisions or the sine is any value that the
comparisons around it admit ("at most double", "not below 1"); what it computes
at the edges, 0/0 and infinity, is followed exactly, because there the code
aborts or closes its window. `aborted` stands for a failed `assert!`, `unwrap`
or unsigned subtraction. Fields that nothing reads are left out. `RTTWindow`'s
two deques are a set of samples with their times; its minimum is recomputed only
when the code recomputes it, so that `MinExact` says something.

*Flow with an algorithm.* `CcFlow` has the actions of `TcpFlow`, each with the
callbacks its handler makes, in their order: `CcSend` is `tx_packet` with
`on_send`, `CcPush` is `push` with `on_ack` and the two elements it logs,
`CcTimeout` a live timer with `on_timeout`. `cc`, which in `TcpFlow` is any
answer, is what the algorithm answers after its callback. `wireUids` and
`ackUids` run beside `wire` and `ackPath`: the uid of each packet, and
`ack_uid` of each ack.

*Statistics.* `SenderStats` has one entry for each interval of the
configuration, `LinkStats` a list of buckets, extended at each event of the
link by the buckets that have passed. `Network` logs ingress, egress and
opportunities of its link; `CcFlow` acks, losses and timeouts of its sender.

*Scheduler.* `phase` is the place in `simulate`; `batch` the list taken off the
map, `toSched` the vector of actions to schedule. Handlers may return anything,
actions in the past (an error) and errors included.

*Network.* `agenda` is the calendar of the scheduler: a list in the order of
scheduling, of which the first of the earliest runs. An object is known by its
id, which `Topology` computes as the code does, so a wrong id would send
packets to another object. Senders send after any of `SendGaps`, ackers ack
every packet; `TcpFlow` has what they do inside.

## 3. Runs

| Run | Instance | Shows |
|---|---|---|
| `TrackerCalls` | a sender's tracker of 6 packets, an acker's of 10 | sound counters, the ack loops and the SACK scan, for every sequence of calls |
| `TcpFlowLossy` | endless flow, window 4, two drops, timeouts | the sender's event chains, timers, uids and window; acks are true and monotone; dupacks give up only what is gone |
| `TcpFlowCompletes` | 5 bytes in packets of 2, window 2, timeouts, one drop | no packet beyond the length; the flow implements the open sender; no ack resets the backoff; it ends if nothing is dropped |
| `CcFlow` | each of the eight algorithms (`Const` with a window of 2) in a flow of 3 packets; two drops, timeouts, two intervals | which algorithms abort and when, exact windowed minima, windows that stay open, statistics that add up |
| `Scheduler` | 5 actions, up to 3 per handler | refinement of `EventQueue`, agreement of heap and map, termination |
| `Network` | 2 flows of 3 packets; every kind of link; a buffer of 2 and one without limit; acks of flow 0 aggregated at random | routing, FIFO per flow, bounded delay, opportunities on time, buckets of the tracer that account for every byte, termination |

The properties of the sender are checked on flows, whose acks come from an acker,
and proved of the sender on its own, against every possible ack
(`TcpSenderProofs`); `SenderSpec` as a property of `TcpFlowCompletes` is what
connects the two.

Six runs end in a violation: the code does something other than its comments
say. Each is a finding in `PROJECT.json`.

| Run | The code | The comment |
|---|---|---|
| `TcpFlowFirstLost` | aborts when a flow's first packet is lost (`transport.rs:607`) | 0 is a legal cumulative ack |
| `TcpFlowTailLoss` | never retransmits once all bytes were sent (`transport.rs:509`) | "sends a given amount of data" |
| `TcpSenderLateStart` | sends two packets at once at a late start (`transport.rs:548`) | minimum interval between any two packets |
| `NetworkShortPieces` | falls behind its schedule (`base.rs:183`) | rate and duration for which it applies |
| `CcFlowLinear` | StableLinearCC aborts on a path that keeps the order and drops nothing (`cc.rs:411`) | "we assume packets are not reordered. Else, unwrap will panic" |
| `CcFlowCopa2` | a dropped packet aborts Copa2 (`copa2.rs:67`) | `assert_eq!(num_lost, 0)`, and "React to loss if necessary" |

A seventh disagreement is the other way round, a property that holds and should
not. `report_fresh_ack` "must be called when a newly transmitted packet is acked,
so we may reset the backoff" (`transport.rs:358`), but `push` asks for the
status of the packet below `cum_ack` after it has marked it as received
(`transport.rs:607`), so no ack is ever fresh. `BackoffNeverResets` states it,
`TcpFlowCompletes` checks it, and it fails as soon as the status is read before
(`AckIsFreshBefore`). `BackoffIsForEver` proves it for every flow.

An eighth comment does not hold either, and only because it is loose: `schedule`
says that actions "right now" cannot be handled (`simulator.rs:266`), but accepts
them and runs them in another batch at the same time, as `RunsInOrder` requires.

`AbortsExplained` says which algorithms can abort at all: StableLinearCC, Copa2
on a path that dropped a packet, and Copa after slow round trips. The first two
are what `CcFlowLinear` and `CcFlowCopa2` show; `HistoryCoversAcks` and
`Copa2SeesNoLoss` state what the comments promise at the ack that is handled next.

- `CcFlowLinear`: two packets are sent, delivered and acked in order. The first
  ack, with `cum_ack` 1, takes the record of packet 1 off the history as well
  (`cum_ack >=`, though packet 1 is not acked yet), so the second finds it empty.
- `CcFlowCopa2`: packet 0 is acked, packet 1 dropped, and three duplicate acks
  make the sender report the loss. A drop is what it takes: on a path without one
  Copa2 sees no loss and does not abort, and whatever is dropped it was told of
  the uid of every packet and ack on its way.
- Copa subtracts a base RTT from a smaller standing RTT (`copa.rs:51`) only when
  round trips take longer than half the base window of 10 s. That this can
  happen is `CopaCanAbort` in `MCCcFlow`; nothing in the code says otherwise.

Everything else that could abort does not: InstantCC's `rtt_standing - rtt_min`,
the uids that Copa2 looks up, the marker of IncreaseBdpCC and its estimate over
no time.

`WindowNeverCloses` is about the floors of the windows only. It does not say how
often a window is reduced, where two algorithms do more than their comments: AIMD
should take a loss as fresh only after the last packet sent at the previous one
(`cc.rs:39-41`) but remembers `cum_ack` (`cc.rs:81`), and OscInstantCC should
reduce "only once per RTT" (`cc.rs:244`) but its test is always true
(`cc.rs:297`). Both are modelled as coded. It exempts OscInstantCC after a round
trip of 0 microseconds and an interval of equal RTTs, whose base becomes 0/0
(`cc.rs:325`), which no comparison bounds, so that it answers a window of 0 for
ever: see `OscCanClose`.

### Bounds, and why they are enough

`MaxEvents`, `MaxPkts`, `MaxLosses`, `MaxActions`, `MaxTime`, `MaxNew` and
`Till` keep the state finite. They are chosen so that the hard cases occur:

- Dupack thresholds are scaled with the number of packets. In `TcpFlowLossy`
  (threshold 1, window 4, 17 events, two drops) a packet is given up, retransmitted, and packets sent before the
  retransmission are still arriving, or the retransmission is dropped as well.
  `TrackerCalls` has threshold 2 and more than three separate runs of received
  packets (three is the number of SACK blocks), which needs 8 sequence numbers:
  its acker has 10.
- Timeouts are scaled too: `MinRto` = `InitSrtt` is 2 ticks in `TcpFlowCompletes`
  (`Till` = 3) and 1 tick in `TcpFlowLossy` (`Till` = 1). What matters is that timers fire while packets
  are still on their way, and go stale as well. Several timers are due at one
  tick, so that an uncapped backoff would exceed `MaxBackoff` = 4.
- In `TcpFlowCompletes`, `MaxEvents` = 60 is never reached (the flow arms
  fewer than 40 events before `Till`), so no behaviour stops at it: `FlowCompletes`
  does not hold by the bound, nor fail by it. Its 5 bytes do not fill three
  packets of 2, so that a sender that counts whole packets would send one more
  or one less; after a timeout a third, fresh packet is sent and acked, so that
  the backoff would be reset if the code did what its comment says.
- In `Network` the first state picks the kind of the link and the size of the
  buffer. Six packets of two flows meet a buffer of two at a packet in 2 ticks,
  so packets are dropped; one flow has no delay and one a delay of 2, so they
  interleave; senders send at once or after 3 ticks, and 12 ticks see the trace
  file of 3 lines and the two pieces pass several times.
- In `CcFlow` times are scaled so that three ticks cross them: the base window
  of Copa is 2 ticks (10 s), the long window of Copa2 and its 45 ms are 1, the
  reset of InstantCC's least RTT (200 ms) and the observation interval of
  OscInstantCC are 2. Samples leave the windows and histories shrink and grow
  while the flow runs, rounds end, and with two drops and dupack threshold 0
  each algorithm sees losses, timeouts and retransmissions. `MaxWindow` = 3 is
  no restriction on a flow of 3 packets. Copa's slow round trips and
  OscInstantCC's closed window need more ticks than the run has: the two
  `ASSUME`s of `MCCcFlow`, which TLC evaluates with every run, drive the
  algorithm alone to both, so that the exceptions in the properties are not
  idle.
- `CcFlowLinear` has timers longer than the run and no drops, so that nothing but
  the order of acks can matter. `CcFlowCopa2` has the dupack threshold of the
  code (2 are counted, the third gives the packet up), a window that grows to 6
  and 12 packets, so that three packets follow the dropped one; its timers do
  not fire either.
- With 5 actions the scheduler reaches lists of several actions, actions added
  to a list, and a second list for the time that is running.

Every property of a passing run is broken by at least one planted fault at
these bounds.

### Fairness

`TcpFlowCompletes` assumes weak fairness of `RunEvent` and `Tick` (the loop of
`simulate` runs every action it pops and goes on while there are any), of
`Deliver` and of `ReturnAck` (each packet on a path is an action on the
calendar; `Network` shows that it arrives within a bound). No fairness is
assumed of `Lose`. `Scheduler` and `Network` assume weak fairness of
`Next`: the program runs.

`CHECK_DEADLOCK FALSE` is set where a model stops by design: at `Till`, at the
bound on events, after an abort or at the end of a simulation. `TrackerCalls`
and `Network` check deadlock; in the latter a packet without a route, or one that fails an assertion, would
stop the model before `Till`.

## 4. Proofs

`TrackRxProofs` proves that every operation keeps a tracker sound
(`TrackerSound`: its types, no received packet at the front of the window, and
`num_lost` equal to the number of `Lost` packets). The counter needs an argument
on cardinalities (`CountReplaced`): the set of lost packets changes by removing
those acked and adding those that reached the threshold. The front of the
window is `FrontFound`: in a finite window there is a first packet that is not
received.

`TrackerCallsProofs` lifts this to every sequence of calls: for any number of
packets, whatever a sender or an acker calls next, its tracker is sound
(`TrackerAlwaysIsSound`) and forgets no ack (`ReceivedStaysReceived`). Then it
relates the closed forms that the other modules use to the loops of the code:
after any calls, marking the packets of an ack one by one, the cumulative part
and then each SACK block, gives the tracker that `MarkAcked` states at once
(`AckLoopAlwaysMatches`), and the scan of `generate_sack` returns the highest
blocks of `SackBlocks`, in order and apart (`SackLoopAlwaysMatches`). A loop is a
function of how far it got, and the least step at which it would differ from the
closed form does not exist. The loops of `push` go upwards, so one more packet
is above those marked so far and gives each packet below that is not received
the dupack that the closed form counts for it (`StatusAfterOneMore`).

`TcpSenderProofs` proves, for all constants that satisfy the assumptions
(`SenderAssumption`, `RtoAssumption`, `DupackLimitAssumption`), that every state
of `SenderSpec` satisfies `SenderInv`, and from it the theorems listed in
`PROJECT.json`. (`BackoffIsForEver` needs no invariant: an ack marks all packets
below `cum_ack` before `push` asks about one, see `NoAckIsFresh`.) `SenderInv`
adds to the properties themselves:

- `AckTimePast`: the last ack is not in the future, so that a timer armed now is
  live;
- `LengthReserved`: while a transmission is scheduled and nothing is lost, there
  is still room for a packet, because the decision to send was taken when the
  transmission was scheduled and not when it happens.

`ScheduleTxWell` and `SchedulingHandler` are the common part: any handler that
ends in `schedule_tx` restores the invariants about events, whatever it did to
the tracker. `StepPreserves` then has one step per action.

Its second part proves how much and how fast the sender sends. For the window
(`WindowAlwaysRespected`, `WindowAlwaysFilled`), the number in flight, which the
code computes from three counters, is the size of a set (`InFlightCounts`): the
packets the tracker holds as neither received nor lost. A transmission adds at
most its own packet to that set and takes its own event off the calendar, an ack
adds none, a timeout empties it; so only `schedule_tx` can raise the count with
its scheduled packet, and it has just compared it with the window. For the
pacing (`AlwaysPaced`), `last_tx_time` is the time of the scheduled transmission
or, when none is scheduled, that of the last one (`LastTxTimeTells`). That
needs `StartTime = 0`; the run `TcpSenderLateStart` shows why.

`TcpFlowProofs` proves that a flow is an open sender (`FlowImplementsSender`,
which the run `TcpFlowCompletes` checks on an instance), so that all theorems
about `TcpSender` hold for flows, and that its acks are true, never go back and
tell everything. The open sender accepts only acks that cover sent packets and
take no cumulative ack back; that an acker behind a lossy FIFO path sends no
other is `FlowInv`. It is inductive because of `PathInOrder`: the cumulative
ack of an ack on its way is the first packet the acker missed then, so neither
what the sender knows nor an earlier ack on the path covers it. The rest of it
relates the two trackers: what the sender knows, and what acks on their way
say, is part of what the acker received.

Its second part follows each packet that the sender counts as in flight
(`FlowFate`). `FateInv` has three parts:

- `SentBefore`: while a copy of a packet is on the wire, nothing that was sent
  after the last copy has arrived. The tracker knows what was sent after it: what
  is above the packet, or above the mark that its retransmission took
  (`MarkOf`). That the code remembers `next_pkt` at the retransmission is thus
  what makes dupacks sound.
- `ArrivalsTold`: when a packet that was sent once has arrived, an ack that says
  so is on its way, before any that covers a later packet. This rests on
  `HighestSacked`: however few blocks an ack has room for, the highest received
  packet is in one of them.
- the losses pay for every packet that is nowhere (`LostOnce`, `LostTwice`). The
  property alone is not inductive: a retransmitted packet with one copy on the
  wire may have cost a loss before, and one the sender gave up may be
  retransmitted, so these sets count them too.

`FastRetransmitAlwaysNeeded` and `InFlightAlwaysSomewhere` follow, for any number
of packets, losses, SACK blocks (at least one) and any threshold of dupacks. A
packet that was retransmitted and whose second copy arrived may still be given up:
an ack has room for the highest blocks only.

`CcFlowProofs` has one lemma for each callback of each algorithm: what it keeps,
whatever ack it is given. The one with an argument of its own is
`NewRttSampleExact`, that a minimum recomputed only when a low sample is dropped
is always the minimum of the samples held. It then proves that a
flow calls the algorithms as they expect (`CcInv`), from two facts about order:

- `UidsApart`: packets and acks on the paths carry different uids, all of which
  Copa2 was told of and has not removed. An ack takes over the uid of its
  packet as the packet leaves the wire.
- `MarksInOrder`: no copy of a marked packet on the wire, and no ack on its way
  that covers it, was sent before the mark. So the ack that passes the marker
  has an RTT no longer than the time since the marker, and IncreaseBdpCC never
  divides by a time of 0 unless its least RTT is 0 too, where 0/0 becomes 0.

`CcAlwaysTyped` says that what an algorithm may answer is always an answer
`TcpFlow` allows, so that `CcFlow` cuts off no step of an algorithm. It is about
configurations that allow every window up to `MaxWindow` and every interval; that
the smaller sets of the run `CcFlow` are large enough for its bounds is what the
run itself checks.

That Copa2 sees no loss where nothing is dropped is `NothingMissing`. As long as
`losses` is 0, every packet sent has arrived or is on the wire, and each packet
on the wire finds those before it arrived or ahead of it; so the acker has no
gap, and neither has any ack (`AckHasNoGap`): it marks no packet as received
above one that it does not cover, so it counts no dupack (`NoGapNoLoss`).

For Copa the argument is within the algorithm: its standing window is twice the
least RTT of the base window, so unless some RTT exceeds half of the base
window's 10 s, each sample the standing window holds is in the base window as
well, and the standing RTT is not below the base RTT. The theorems are
`AbortsAlwaysExplained`, `WindowsAlwaysExact`, `WindowsStayOpen` (for a `Const`
window and a `MaxWindow` of at least 1) and `CcImplementsFlow`, by which what
is proved of flows holds under every algorithm of the repository.

Its last part is about the tracer (`StatsAlwaysAddUp`, `ShortFlowsAddUp`). Over
intervals that share out all time every event is in exactly one (`OneInterval`),
so what a handler logs is added once to the sum over the intervals
(`LoggedOnce`); the sum is a recursive function, followed by least
counterexamples (`SumsDiffer`). The proof needs intervals that do not end before
they begin, which `Partition` did not require at first: [0, 10), [10, 5) and
[5, `TimeMax`) fit together end to end, and count an event at 7 twice. Then

- for the packets acked, `AckedInv`: the sum is `received_till`. `push` logs
  `cum_ack - received_till`, and moves `received_till` exactly to `cum_ack`
  because the acker was still missing that packet when it made the ack
  (`PushReachesCum`). This holds of any flow (`AckedPacketsAddUp`).
- for the packets lost, `LossInv`: the losses cover what was counted and also
  what is `Gone`, undecided at the sender and neither on the wire nor at the acker.
  `StatsAddUp` alone is not inductive: when dupacks make the sender give a packet
  up, a loss must be left to pay for it. It is, because the packet was gone
  before: an ack that covers a later packet covers this one as well or it is
  nowhere (`Passes`, from the `SentBefore` of `FateInv`).

The second needs that the acker's SACK blocks have room for all its gaps
(`RoomForGaps`), or an ack that covers later packets need not cover one that
arrived; the sender may then count as lost what was never dropped.
`StatsAlwaysAddUp` has it as its hypothesis. `ShortFlowsAddUp` shows that flows of
up to `2 * MaxSack + 1` packets (7 in the code) always satisfy it: blocks have a
gap between them and the first packet is in none (`FewBlocks`).

`SchedulerProofs` proves that the scheduler is one sorted queue
(`SchedulerImplementsQueue`) although it keeps a heap of times, a list per time,
a batch it is running and a list of what handlers schedule meanwhile. Two parts
of `SchedInv` carry it: `NewestLast`, what handlers schedule during a batch is
newer than all that is scheduled, so appending it later keeps each list in
order; and `PhaseTells`, while a batch runs no list exists for its time, so the
first of the batch is the first of the queue.

`NetworkProofs` proves the safety of the network for any number of flows, any
delays, links, buffers and aggregation. It begins with the wiring. That
`create_topology` computes the ids that the scheduler will give
(`ObjectsAre`), and that the router leads to each flow's acker (`RoutesAre`), is
an induction over the flows. The library's induction theorems cannot be used, so
an induction is a least counterexample here: the set of flows for which the claim
fails would have a least element (`LeastNat`), and there is no such flow. The
loop of `Aggregator::push` (`MovesForward`) and the choice of elements out of a
sequence (`PicksType`, `ChosenConcat`) are treated in the same way.

`NetInv` is inductive. Of its parts,

- `Scheduled` says which pushes and events can be on the agenda, for which
  objects and with whose packets (`Placed`), and when each is due (`Due`): at the
  router, the acker and the aggregator at once, at the link one delay after it was
  sent, at a sender at `next_opp` or at least one interval before it. `Routed`
  follows from the first half.
- `InOrder` says that of two pushes at one place of a flow the one scheduled
  first is due first. It follows from `Due`: what is scheduled now for a place is
  due no earlier than what is there (`DueBeforeFresh`).
- `LinkReady` has the one pending opportunity and the position in the trace, so
  that `NextTxIs` can say when the next one is due; at the end of a pass through a
  trace file that is arithmetic on quotients and remainders (`DivModNext`).
- `BufferBounded`: the packet at place p of the buffer leaves p - 1 gaps after
  the pending opportunity, which is early enough. `QueueingBounded` alone is not
  inductive: it does not say that a packet with others before it still has
  the time they need.
- `Apart` and `OppsNear` say the same of acks and `next_opp`: two acks with
  different times are one interval apart, and `next_opp` is less than one interval
  ahead.

There is one lemma for each handler (`LinkEventStep`, ...), and the theorems
`NetworkTyped`, `PacketsAreRouted`, `LinkKeepsSchedule`, `QueueingIsBounded` and
`AcksAreAggregated` follow. The bound on queueing needs a constant rate and a
finite buffer, as the property says; nothing bounds the delay in front of a trace
file that ends in a silence.

`NetworkFifoProofs` proves that to each flow the network is a `LossyFifo`
(`NetworkIsFifo`), which is what `TcpFlow` assumes of its paths. An action that
runs is the first of its place, by `InOrder` and because the scheduler takes the
first of the earliest (`QueueChanges`), so each handler moves one packet from
the front of one queue to the end of the next. The wire is five queues one after
the other, and such a move leaves it alone (`DelayToLink`, `LinkToBuffer`, ...),
takes one packet out (`WireDrops`), or takes its first (`WireEnds`). Other flows'
queues do not change, although they share the link's buffer.

Its second part proves that the tracer's buckets account for the link
(`LinkIsTraced`), whatever their size: they follow each other without a gap,
`Rolled` adding those of a silence; ingress is what left the delays, drops
included; and without drops what came in and is not egress is in the buffer.
`TraceInv` states this of readings of the buckets (`Reads`), sums that new
buckets leave alone and one logged event changes in one place.

The proofs use only the named assumptions of the modules: types of constants,
`TimeMax` beyond any time reached (`CcFlowAssumption`), at least one SACK block
(`FlowAssumption`; the code has 3), links that can be
configured (`IsLink`) and a longest aggregation interval (`NetworkAssumption`),
windows and intervals of any size.

Only model-checked:

- everything about liveness (`SimulationEnds`, `FlowCompletes`), which is out of
  the prover's reach;
- `PiecewiseFollows`, which a run refutes for short pieces: it holds only when
  pieces are longer than gaps;
- the other properties of runs that end in a violation, which do not hold
  (`Paced` does for flows that start at 0: `AlwaysPaced`);
- that the configured `Cwnds` and `Intersends` of `CcFlow.cfg` are large enough
  for its bounds, the part of `CcTypeOK` beyond `CcAlwaysTyped`.

## 5. Not modelled

- Floating-point control laws: a law is any value its limits admit, so nothing
  here is said of rates of convergence, fairness or stability.
- Of the tracer: histograms of windows and RTTs, the series that are only
  plotted, and `link_tx_ops`, a counter that only the report reads.
- Reordering on the path. The simulator's path keeps the order (`PerFlowFifo`),
  and `cc.rs:409` says that StableLinearCC needs it.
- Plotting, serialisation, configuration files, the command line: pure I/O.
- Widths of integers: times are microseconds in a `u64` and packets are counted
  in a `u64`; no run of the program comes near the limits. Subtractions that
  could go below 0 are properties (`WindowRespected`, `AcksNeverGoBack`).
- Real time: ticks are abstract. Links with a gap that rounds to 0, and
  aggregation intervals below a microsecond, make the program loop at one
  instant; they are recorded as hazards and excluded from the runs.

## 6. Plan

1. (done) Tracker, timeout, sender, flow; scheduler against its queue; network
   against a lossy FIFO; proofs of the tracker and the sender.
2. (done) `RttWindow`, all congestion controls, a flow under each of them, the
   counting of the tracer; proofs that a flow implements the open sender, that a
   flow under an algorithm implements a flow, and what the algorithms keep.
3. A flow over the modelled network instead of abstract paths (`CcFlow` with
   the `agenda` of `Network`), to bound round trips and timeouts together: it
   would show from which rates and buffers Copa's slow round trips can occur.
4. (done) Proofs of the window and the pacing of the sender, and of the
   scheduler's refinement of `EventQueue`.
5. (done) Proofs of the network: its invariants, and its refinement of
   `LossyFifo`.
6. (done) Proofs of what is in flight and when a fast retransmit is needed in a
   flow.
7. (done) Proofs of what the tracer counts, of a link and of a sender, and that
   the closed forms of the tracker are the loops of the code.
