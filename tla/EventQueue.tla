----------------------------- MODULE EventQueue -----------------------------
(***************************************************************************)
(* What the scheduler of src/src/simulator.rs promises: a simulation is a  *)
(* queue of actions, run one at a time in the order of their times, and in *)
(* the order they were scheduled when their times are equal ("Simulator    *)
(* will preserve order", src/src/base.rs:422).                             *)
(***************************************************************************)
EXTENDS Integers

CONSTANT Till           \* the argument of simulate: later actions do not run

VARIABLES
  now,          \* the time of the simulation
  queue,        \* actions to run: [id, when], ids in the order of scheduling
  nextId,       \* the id of the next action to be scheduled
  late,         \* an action was scheduled in the past
  status        \* "running", "done" or "failed"

queueVars == <<now, queue, nextId, late, status>>

Before(a, b) == a.when < b.when \/ (a.when = b.when /\ a.id < b.id)

IsFirst(a) == a \in queue /\ \A b \in queue \ {a} : Before(a, b)

(* What a handler returned is numbered in its order and joins the queue,    *)
(* except what it scheduled in the past: that number is missing from it.    *)
Accept(rest) ==
  /\ nextId' >= nextId
  /\ rest \subseteq queue'
  /\ \A a \in queue' \ rest : a.when >= now /\ a.id \in nextId..(nextId' - 1)
  /\ \A a, b \in queue' \ rest : a.id = b.id => a = b
  /\ late' = (late \/ {a.id : a \in queue' \ rest} # nextId..(nextId' - 1))

-----------------------------------------------------------------------------
QueueInit ==
  /\ now = 0 /\ queue = {} /\ nextId = 0 /\ late = FALSE /\ status = "running"

(* The objects' init() *)
Start ==
  /\ status = "running" /\ nextId = 0
  /\ Accept({})
  /\ UNCHANGED <<now, status>>

(* The clock jumps to the first action left. *)
Advance ==
  /\ status = "running" /\ ~late
  /\ \E a \in queue : IsFirst(a) /\ a.when <= Till /\ now' = a.when
  /\ UNCHANGED <<queue, nextId, late, status>>

(* The first action runs, and schedules what it likes. *)
Run(a) ==
  /\ status = "running" /\ IsFirst(a) /\ a.when = now
  /\ Accept(queue \ {a})
  /\ UNCHANGED <<now, status>>

(* Nothing is left to run. *)
Finish ==
  /\ status = "running" /\ ~late
  /\ \A a \in queue : a.when > Till
  /\ status' = "done"
  /\ \/ queue = {} /\ now' = now
     \/ \E a \in queue : IsFirst(a) /\ now' = a.when
  /\ UNCHANGED <<queue, nextId, late>>

(* A handler returned an error, or something was scheduled in the past. *)
Fail ==
  /\ status = "running"
  /\ status' = "failed"
  /\ UNCHANGED <<now, queue, nextId, late>>

QueueNext == Start \/ (\E a \in queue : Run(a)) \/ Advance \/ Finish \/ Fail

QueueSpec == QueueInit /\ [][QueueNext]_queueVars
=============================================================================
