------------------------------ MODULE Scheduler ------------------------------
(***************************************************************************)
(* Scheduler of src/src/simulator.rs: the calendar of the simulator and    *)
(* the loop of `simulate`.                                                 *)
(*                                                                         *)
(* An action is [id, when]: which object gets it, from whom and whether it *)
(* is an Event or a Push is data to the scheduler.  Its id is its number   *)
(* in the order the handlers returned it (a history value, which the code  *)
(* does not store).  A handler may return any actions, in the past too, or *)
(* an error.                                                               *)
(***************************************************************************)
EXTENDS Integers, Sequences, Functions

CONSTANTS Till,         \* the argument of simulate
          MaxTime,      \* bound on the times actions are scheduled at
          MaxNew,       \* bound on the actions one handler returns
          MaxActions    \* bound on the actions of a simulation

ASSUME SchedulerAssumption ==
  Till \in Nat /\ MaxTime \in Nat /\ MaxNew \in Nat /\ MaxActions \in Nat

VARIABLES
  now,          \* now
  heap,         \* action_times: [when, id] for the push made for action id
  calendar,     \* actions: a function from times to lists of actions
  batch,        \* the list taken off the calendar, still to run
  toSched,      \* actions_to_sched
  nextId,       \* how many actions the handlers have returned
  phase         \* where simulate is

schedVars == <<now, heap, calendar, batch, toSched, nextId, phase>>

Phases == {"init", "schedule", "pop", "run", "done", "failed"}

-----------------------------------------------------------------------------
Init ==
  /\ now = 0 /\ heap = {} /\ calendar = [t \in {} |-> <<>>]
  /\ batch = <<>> /\ toSched = <<>> /\ nextId = 0
  /\ phase = "init"

(* Fault: a tick early. *)
ReturnedEarly(times) == [i \in 1..Len(times) |-> [id |-> nextId + i - 1, when |-> times[i] - 1]]

(* A handler returns actions at these times, in this order. *)
Returned(times) == [i \in 1..Len(times) |-> [id |-> nextId + i - 1, when |-> times[i]]]

Handler ==
  \E n \in 0..MaxNew : \E times \in [1..n -> 0..MaxTime] :
    /\ nextId + n <= MaxActions
    /\ toSched' = toSched \o Returned(times)
    /\ nextId' = nextId + n

(* The init() of every object, gathered before any of it is scheduled. *)
InitObjects ==
  /\ phase = "init"
  /\ Handler
  /\ phase' = "schedule"
  /\ UNCHANGED <<now, heap, calendar, batch>>

(* schedule: one action, in the order they were returned. *)
InPast ==
  /\ phase = "schedule" /\ toSched # <<>>
  /\ Head(toSched).when < now
  /\ phase' = "failed"
  /\ UNCHANGED <<now, heap, calendar, batch, toSched, nextId>>

(* Fault: the latest action first. *)
ScheduleFirst ==
  /\ phase = "schedule" /\ toSched # <<>>
  /\ LET a == Head(toSched)
     IN  /\ a.when >= now
         /\ heap' = IF a.when \in DOMAIN calendar THEN heap
                    ELSE heap \cup {[when |-> a.when, id |-> a.id]}
         /\ calendar' = [t \in DOMAIN calendar \cup {a.when} |->
                           IF t \notin DOMAIN calendar THEN <<a>>
                           ELSE IF t = a.when THEN <<a>> \o calendar[t] ELSE calendar[t]]
  /\ toSched' = Tail(toSched)
  /\ UNCHANGED <<now, batch, nextId, phase>>

Schedule ==
  /\ phase = "schedule" /\ toSched # <<>>
  /\ LET a == Head(toSched)
     IN  /\ a.when >= now
         /\ \/ /\ a.when \in DOMAIN calendar
               /\ calendar' = [calendar EXCEPT ![a.when] = Append(@, a)]
               /\ UNCHANGED heap
            \/ /\ a.when \notin DOMAIN calendar
               /\ heap' = heap \cup {[when |-> a.when, id |-> a.id]}
               /\ calendar' = [t \in DOMAIN calendar \cup {a.when} |->
                                 IF t = a.when THEN <<a>> ELSE calendar[t]]
  /\ toSched' = Tail(toSched)
  /\ UNCHANGED <<now, batch, nextId, phase>>

AllScheduled ==
  /\ phase = "schedule" /\ toSched = <<>>
  /\ phase' = "pop"
  /\ UNCHANGED <<now, heap, calendar, batch, toSched, nextId>>

(* action_times.pop() yields an entry with the smallest time.  The code      *)
(* unwraps the list of that time and asserts that the time has not passed:  *)
(* HeapMatchesCalendar and CalendarInOrder say that it always may.          *)
Earliest(h) == h \in heap /\ \A g \in heap : h.when <= g.when

(* Fault: the list stays in the hash map. *)
PopLeavingList ==
  /\ phase = "pop"
  /\ \E h \in heap :
       /\ Earliest(h) /\ h.when \in DOMAIN calendar /\ now <= h.when
       /\ heap' = heap \ {h}
       /\ batch' = calendar[h.when]
       /\ now' = h.when
       /\ phase' = IF h.when > Till THEN "done" ELSE "run"
  /\ UNCHANGED <<calendar, toSched, nextId>>

(* Fault: the time stays in the heap. *)
PopLeavingTime ==
  /\ phase = "pop"
  /\ \E h \in heap :
       /\ Earliest(h) /\ h.when \in DOMAIN calendar /\ now <= h.when
       /\ batch' = calendar[h.when]
       /\ calendar' = [t \in DOMAIN calendar \ {h.when} |-> calendar[t]]
       /\ now' = h.when
       /\ phase' = IF h.when > Till THEN "done" ELSE "run"
  /\ UNCHANGED <<heap, toSched, nextId>>

Pop ==
  /\ phase = "pop"
  /\ \E h \in heap :
       /\ Earliest(h) /\ h.when \in DOMAIN calendar /\ now <= h.when
       /\ heap' = heap \ {h}
       /\ batch' = calendar[h.when]
       /\ calendar' = [t \in DOMAIN calendar \ {h.when} |-> calendar[t]]
       /\ now' = h.when
       /\ phase' = IF h.when > Till THEN "done" ELSE "run"
  /\ UNCHANGED <<toSched, nextId>>

NothingLeft ==
  /\ phase = "pop" /\ heap = {}
  /\ phase' = "done"
  /\ UNCHANGED <<now, heap, calendar, batch, toSched, nextId>>

(* Fault: the batch run from its end. *)
RunLastAction ==
  /\ phase = "run" /\ batch # <<>>
  /\ Handler
  /\ batch' = SubSeq(batch, 1, Len(batch) - 1)
  /\ UNCHANGED <<now, heap, calendar, phase>>

(* event() or push() of the next action of the batch *)
RunAction ==
  /\ phase = "run" /\ batch # <<>>
  /\ Handler
  /\ batch' = Tail(batch)
  /\ UNCHANGED <<now, heap, calendar, phase>>

BatchDone ==
  /\ phase = "run" /\ batch = <<>>
  /\ phase' = "schedule"
  /\ UNCHANGED <<now, heap, calendar, batch, toSched, nextId>>

(* The `?` after init(), event() and push() *)
HandlerFails ==
  /\ phase = "init" \/ (phase = "run" /\ batch # <<>>)
  /\ phase' = "failed"
  /\ UNCHANGED <<now, heap, calendar, batch, toSched, nextId>>

Next ==
  \/ InitObjects \/ InPast \/ Schedule \/ AllScheduled
  \/ Pop \/ NothingLeft \/ RunAction \/ BatchDone \/ HandlerFails

Spec     == Init /\ [][Next]_schedVars
FairSpec == Spec /\ WF_schedVars(Next)

-----------------------------------------------------------------------------
InCalendar == UNION {Range(calendar[t]) : t \in DOMAIN calendar}
ToRun      == InCalendar \cup Range(batch) \cup Range(toSched)

Increasing(s) == \A i, j \in DOMAIN s : i < j => s[i].id < s[j].id

ItemType == [id : Nat, when : Nat]

TypeOK ==
  /\ now \in Nat /\ nextId \in Nat /\ phase \in Phases
  /\ heap \subseteq ItemType
  /\ DOMAIN calendar \subseteq Nat
  /\ \A t \in DOMAIN calendar : calendar[t] \in Seq(ItemType)
  /\ batch \in Seq(ItemType) /\ toSched \in Seq(ItemType)

(* The heap and the hash map agree: each time with actions is in the heap   *)
(* exactly once, so the unwrap() after a pop finds its list.                *)
HeapMatchesCalendar ==
  /\ {h.when : h \in heap} = DOMAIN calendar
  /\ \A g, h \in heap : g.when = h.when => g = h

(* A list holds the actions of its time, oldest first, and is never empty;  *)
(* no list is for a time that has passed.                                   *)
CalendarInOrder ==
  \A t \in DOMAIN calendar :
    /\ t >= now /\ calendar[t] # <<>> /\ Increasing(calendar[t])
    /\ \A a \in Range(calendar[t]) : a.when = t

-----------------------------------------------------------------------------
(***************************************************************************)
(* The scheduler implements EventQueue: what is on the calendar, in the    *)
(* batch or waiting to be scheduled, and not in the past, is the queue.    *)
(* While a batch runs, actions for the same time wait for the whole batch. *)
(***************************************************************************)
Abstract == INSTANCE EventQueue WITH
  queue  <- {a \in ToRun : a.when >= now},
  late   <- \E a \in Range(toSched) : a.when < now,
  status <- IF phase \in {"done", "failed"} THEN phase ELSE "running"

RunsInOrder == Abstract!QueueSpec

(* When the handlers schedule finitely many actions, the simulation ends.   *)
SimulationEnds == <>(phase \in {"done", "failed"})
=============================================================================
