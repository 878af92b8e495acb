---------------------------- MODULE SchedulerProofs ----------------------------
(***************************************************************************)
(* Invariants of Scheduler, and that it implements EventQueue.             *)
(*                                                                         *)
(* The invariant is about ids, which number the actions in the order of    *)
(* scheduling: what waits in toSched is newer than all that is scheduled   *)
(* (NewestLast), and while a batch runs nothing else is scheduled for its  *)
(* time (PhaseTells), so that the first action of the batch is the first   *)
(* of the whole queue.                                                     *)
(***************************************************************************)
EXTENDS Scheduler, SequenceTheorems, TLAPS

Scheduled == InCalendar \cup Range(batch)

IdsUsed == \A a \in ToRun : a.id < nextId

NewestLast == \A a \in Scheduled, b \in Range(toSched) : a.id < b.id

BatchNow == \A a \in Range(batch) : a.when = now

PhaseTells ==
  /\ phase = "init" => nextId = 0 /\ now = 0 /\ ToRun = {}
  /\ phase \in {"init", "schedule", "pop"} => batch = <<>>
  /\ phase = "pop" => toSched = <<>>
  /\ phase = "run" => now \notin DOMAIN calendar /\ now <= Till

SchedInv ==
  /\ TypeOK /\ HeapMatchesCalendar /\ CalendarInOrder
  /\ IdsUsed /\ NewestLast
  /\ BatchNow /\ Increasing(batch) /\ Increasing(toSched)
  /\ PhaseTells

-----------------------------------------------------------------------------
(* Sequences *)

(* A sequence, element by element. *)
LEMMA SeqFacts ==
  ASSUME NEW S, NEW s \in Seq(S)
  PROVE  /\ Len(s) \in Nat /\ DOMAIN s = 1..Len(s)
         /\ Range(s) = {s[i] : i \in 1..Len(s)} /\ Range(s) \subseteq S
BY LenProperties DEF Range

(* What Append adds. *)
LEMMA AppendFacts ==
  ASSUME NEW s \in Seq(ItemType), NEW e \in ItemType, Increasing(s),
         \A a \in Range(s) : a.id < e.id
  PROVE  /\ Append(s, e) \in Seq(ItemType) /\ Append(s, e) # <<>>
         /\ Range(Append(s, e)) = Range(s) \cup {e}
         /\ Increasing(Append(s, e))
<1> DEFINE t == Append(s, e)
<1>1. /\ t \in Seq(ItemType) /\ Len(t) = Len(s) + 1 /\ t[Len(s) + 1] = e
      /\ \A i \in 1..Len(s) : t[i] = s[i]
  BY AppendProperties
<1>2. /\ Len(s) \in Nat /\ DOMAIN s = 1..Len(s) /\ DOMAIN t = 1..(Len(s) + 1)
      /\ Range(s) = {s[i] : i \in 1..Len(s)}
      /\ Range(t) = {t[i] : i \in 1..(Len(s) + 1)}
  BY <1>1, SeqFacts
<1> HIDE DEF t
<1>3. Range(t) = Range(s) \cup {e}
  BY <1>1, <1>2
<1>4. Increasing(t)
  BY <1>1, <1>2 DEF Increasing
<1>5. t # <<>>
  BY <1>1, <1>2
<1> QED
  BY <1>1, <1>3, <1>4, <1>5 DEF t

(* What Tail leaves. *)
LEMMA TailFacts ==
  ASSUME NEW s \in Seq(ItemType), s # <<>>, Increasing(s)
  PROVE  /\ Head(s) \in ItemType /\ Tail(s) \in Seq(ItemType)
         /\ Range(s) = Range(Tail(s)) \cup {Head(s)}
         /\ Increasing(Tail(s))
         /\ \A a \in Range(Tail(s)) : Head(s).id < a.id
<1> DEFINE t == Tail(s)
<1>1. /\ Head(s) = s[1] /\ Head(s) \in ItemType /\ t \in Seq(ItemType)
      /\ Len(t) = Len(s) - 1 /\ \A i \in 1..Len(t) : t[i] = s[i + 1]
  BY HeadTailProperties
<1>2. /\ Len(s) \in Nat \ {0} /\ DOMAIN s = 1..Len(s) /\ DOMAIN t = 1..(Len(s) - 1)
      /\ Range(s) = {s[i] : i \in 1..Len(s)}
      /\ Range(t) = {t[i] : i \in 1..(Len(s) - 1)}
  BY <1>1, SeqFacts, EmptySeq
<1> HIDE DEF t
<1>3. Range(s) = Range(t) \cup {s[1]}
  <2>1. \A i \in 1..Len(s) : s[i] \in Range(t) \cup {s[1]}
    <3> TAKE i \in 1..Len(s)
    <3>1. CASE i = 1
      BY <3>1
    <3>2. CASE i # 1
      <4>1. i - 1 \in 1..(Len(s) - 1) /\ t[i - 1] = s[i]
        BY <1>1, <1>2, <3>2
      <4> QED
        BY <1>2, <4>1
    <3> QED
      BY <3>1, <3>2
  <2>2. \A i \in 1..(Len(s) - 1) : t[i] \in Range(s)
    BY <1>1, <1>2
  <2>3. s[1] \in Range(s)
    BY <1>2
  <2> QED
    BY <1>2, <2>1, <2>2, <2>3
<1>4. Increasing(t)
  <2>1. \A i, j \in 1..(Len(s) - 1) : i < j => s[i + 1].id < s[j + 1].id
    BY <1>2 DEF Increasing
  <2>2. \A i \in 1..(Len(s) - 1) : t[i] = s[i + 1]
    BY <1>1
  <2> QED
    BY <1>2, <2>1, <2>2 DEF Increasing
<1>5. \A i \in 1..(Len(s) - 1) : s[1].id < t[i].id
  BY <1>1, <1>2 DEF Increasing
<1>6. \A a \in Range(t) : s[1].id < a.id
  BY <1>2, <1>5
<1> QED
  BY <1>1, <1>3, <1>4, <1>6 DEF t

(* What a handler returns joins toSched, in order and with new ids. *)
New(n, times) == {[id |-> nextId + i - 1, when |-> times[i]] : i \in 1..n}

LEMMA HandlerReturns ==
  ASSUME TypeOK, IdsUsed, Increasing(toSched), Handler
  PROVE  \E n \in Nat : \E times \in [1..n -> Nat] :
           /\ nextId' = nextId + n
           /\ toSched' \in Seq(ItemType) /\ Increasing(toSched')
           /\ Range(toSched') = Range(toSched) \cup New(n, times)
<1>0. PICK n \in 0..MaxNew : \E times \in [1..n -> 0..MaxTime] :
        toSched' = toSched \o Returned(times) /\ nextId' = nextId + n
  BY DEF Handler
<1>1. PICK times \in [1..n -> 0..MaxTime] :
        toSched' = toSched \o Returned(times) /\ nextId' = nextId + n
  BY <1>0
<1>2. n \in Nat /\ times \in [1..n -> Nat] /\ nextId \in Nat /\ toSched \in Seq(ItemType)
  BY SchedulerAssumption DEF TypeOK
<1>3. Len(times) = n
  BY <1>2
<1> DEFINE r == Returned(times)
           item(i) == [id |-> nextId + i - 1, when |-> times[i]]
<1>4. r = [i \in 1..n |-> item(i)]
  BY <1>3 DEF Returned
<1>5. \A i \in 1..n : item(i) \in ItemType
  BY <1>2 DEF ItemType
<1>6. r \in Seq(ItemType) /\ Len(r) = n /\ \A i \in 1..n : r[i] = item(i)
  <2> HIDE DEF item
  <2>1. r \in [1..n -> ItemType]
    BY <1>4, <1>5
  <2>2. r \in Seq(ItemType)
    BY <1>2, <2>1, SeqDef
  <2> QED
    BY <1>2, <1>4, <2>1, <2>2
<1>7. /\ toSched' = toSched \o r /\ toSched \o r \in Seq(ItemType)
      /\ Len(toSched \o r) = Len(toSched) + n
      /\ \A i \in 1..(Len(toSched) + n) :
           (toSched \o r)[i] = IF i <= Len(toSched) THEN toSched[i] ELSE r[i - Len(toSched)]
      /\ Range(toSched \o r) = Range(toSched) \cup Range(r)
  <2> HIDE DEF r
  <2>1. toSched \o r \in Seq(ItemType) /\ Range(toSched \o r) = Range(toSched) \cup Range(r)
    BY <1>2, <1>6, ConcatProperties, RangeConcatenation
  <2>2. /\ Len(toSched \o r) = Len(toSched) + Len(r)
        /\ \A i \in 1..(Len(toSched) + Len(r)) :
             (toSched \o r)[i] = IF i <= Len(toSched) THEN toSched[i] ELSE r[i - Len(toSched)]
    BY <1>2, <1>6, ConcatProperties
  <2>3. toSched' = toSched \o r
    BY <1>1 DEF r
  <2> QED
    BY <1>6, <2>1, <2>2, <2>3
<1> HIDE DEF r
<1>8. Range(r) = New(n, times)
  <2>1. Range(r) = {r[i] : i \in 1..n}
    BY <1>6, SeqFacts
  <2>2. \A i \in 1..n : r[i] = [id |-> nextId + i - 1, when |-> times[i]]
    BY <1>6
  <2> QED
    BY <2>1, <2>2 DEF New
<1>9. Increasing(toSched')
  <2>1. /\ Len(toSched) \in Nat /\ DOMAIN toSched = 1..Len(toSched)
        /\ \A i \in 1..Len(toSched) : toSched[i] \in Range(toSched)
        /\ Range(toSched) \subseteq ItemType
    BY <1>2, SeqFacts
  <2>2. \A i \in 1..Len(toSched) : toSched[i].id < nextId /\ toSched[i].id \in Nat
    <3>1. \A a \in Range(toSched) : a.id < nextId
      BY DEF IdsUsed, ToRun
    <3>2. \A a \in Range(toSched) : a.id \in Nat
      BY <2>1 DEF ItemType
    <3> QED
      BY <2>1, <3>1, <3>2
  <2>3. \A i \in 1..n : r[i].id = nextId + i - 1
    BY <1>6
  <2>4. DOMAIN toSched' = 1..(Len(toSched) + n)
    BY <1>7, SeqFacts
  <2> SUFFICES ASSUME NEW i \in 1..(Len(toSched) + n), NEW j \in 1..(Len(toSched) + n), i < j
               PROVE  toSched'[i].id < toSched'[j].id
    BY <2>4 DEF Increasing
  <2>5. CASE j <= Len(toSched)
    <3>1. /\ i \in DOMAIN toSched /\ j \in DOMAIN toSched
          /\ toSched'[i] = toSched[i] /\ toSched'[j] = toSched[j]
      BY <1>2, <1>7, <2>1, <2>5
    <3> QED
      BY <3>1 DEF Increasing
  <2>6. CASE ~(j <= Len(toSched))
    <3>1. /\ j - Len(toSched) \in 1..n /\ toSched'[j] = r[j - Len(toSched)]
          /\ toSched'[j].id = nextId + (j - Len(toSched)) - 1
      <4>1. j - Len(toSched) \in 1..n
        BY <2>1, <2>6
      <4>2. toSched'[j] = r[j - Len(toSched)]
        BY <1>7, <2>6
      <4> QED
        BY <2>3, <4>1, <4>2
    <3>2. CASE i <= Len(toSched)
      <4>1. toSched'[i] = toSched[i] /\ i \in 1..Len(toSched)
        BY <1>7, <2>1, <3>2
      <4> QED
        BY <1>2, <2>1, <2>2, <3>1, <4>1
    <3>3. CASE ~(i <= Len(toSched))
      <4>1. /\ i - Len(toSched) \in 1..n /\ toSched'[i] = r[i - Len(toSched)]
            /\ toSched'[i].id = nextId + (i - Len(toSched)) - 1
        <5>1. i - Len(toSched) \in 1..n
          BY <2>1, <3>3
        <5>2. toSched'[i] = r[i - Len(toSched)]
          BY <1>7, <3>3
        <5> QED
          BY <2>3, <5>1, <5>2
      <4> QED
        BY <1>2, <2>1, <3>1, <4>1
    <3> QED
      BY <3>2, <3>3
  <2> QED
    BY <2>5, <2>6
<1> QED
  BY <1>1, <1>2, <1>7, <1>8, <1>9

-----------------------------------------------------------------------------
(* The invariant *)

(* Where actions can be, and what they are. *)
LEMMA ToRunTypes ==
  ASSUME TypeOK
  PROVE  /\ ToRun \subseteq ItemType /\ now \in Nat /\ nextId \in Nat
         /\ InCalendar \subseteq ItemType /\ Range(batch) \subseteq ItemType
         /\ Range(toSched) \subseteq ItemType
<1>1. \A t \in DOMAIN calendar : Range(calendar[t]) \subseteq ItemType
  BY SeqFacts DEF TypeOK
<1>2. InCalendar \subseteq ItemType
  BY <1>1 DEF InCalendar
<1>3. Range(batch) \subseteq ItemType /\ Range(toSched) \subseteq ItemType
  BY SeqFacts DEF TypeOK
<1> QED
  BY <1>2, <1>3 DEF ToRun, TypeOK

(* At the start there is nothing. *)
LEMMA InitEstablishes == Init => SchedInv
<1> SUFFICES ASSUME Init PROVE SchedInv
  OBVIOUS
<1>1. DOMAIN calendar = {} /\ heap = {} /\ batch = <<>> /\ toSched = <<>>
  BY DEF Init
<1>2. Range(batch) = {} /\ Range(toSched) = {} /\ InCalendar = {}
  BY <1>1 DEF Range, InCalendar
<1>3. TypeOK
  BY <1>1 DEF Init, TypeOK, Phases
<1>4. HeapMatchesCalendar /\ CalendarInOrder
  BY <1>1 DEF HeapMatchesCalendar, CalendarInOrder
<1>5. IdsUsed /\ NewestLast /\ BatchNow
  BY <1>2 DEF IdsUsed, NewestLast, BatchNow, ToRun
<1>6. Increasing(batch) /\ Increasing(toSched)
  BY <1>1 DEF Increasing
<1>7. PhaseTells
  BY <1>1, <1>2 DEF Init, PhaseTells, ToRun
<1> QED
  BY <1>3, <1>4, <1>5, <1>6, <1>7 DEF SchedInv

(* A handler runs: its actions get new ids. *)
LEMMA HandlerKeeps ==
  ASSUME SchedInv, Handler, UNCHANGED <<now, heap, calendar>>,
         batch' \in Seq(ItemType), Range(batch') \subseteq Range(batch), Increasing(batch'),
         phase' \in Phases, PhaseTells'
  PROVE  SchedInv'
<1>0. TypeOK /\ IdsUsed /\ NewestLast /\ BatchNow /\ Increasing(toSched)
  BY DEF SchedInv
<1>1. PICK n \in Nat : \E times \in [1..n -> Nat] :
        /\ nextId' = nextId + n
        /\ toSched' \in Seq(ItemType) /\ Increasing(toSched')
        /\ Range(toSched') = Range(toSched) \cup New(n, times)
  BY <1>0, HandlerReturns
<1>2. PICK times \in [1..n -> Nat] :
        /\ nextId' = nextId + n
        /\ toSched' \in Seq(ItemType) /\ Increasing(toSched')
        /\ Range(toSched') = Range(toSched) \cup New(n, times)
  BY <1>1
<1>3. /\ ToRun \subseteq ItemType /\ now \in Nat /\ nextId \in Nat
      /\ Range(toSched) \subseteq ItemType
  BY <1>0, ToRunTypes
<1>4. \A a \in New(n, times) : a.id \in Nat /\ nextId <= a.id /\ a.id < nextId + n
  BY <1>3 DEF New
<1>5. InCalendar' = InCalendar
  BY DEF InCalendar
<1>6. \A a \in ToRun : a.id \in Nat /\ a.id < nextId
  BY <1>0, <1>3 DEF IdsUsed, ItemType
<1>7. TypeOK'
  BY <1>0, <1>2, <1>3 DEF TypeOK
<1>8. HeapMatchesCalendar' /\ CalendarInOrder'
  BY DEF SchedInv, HeapMatchesCalendar, CalendarInOrder
<1>9. IdsUsed'
  <2>1. ToRun' \subseteq ToRun \cup New(n, times)
    BY <1>2, <1>5 DEF ToRun
  <2> QED
    BY <1>2, <1>3, <1>4, <1>6, <2>1 DEF IdsUsed
<1>10. NewestLast'
  <2>1. Scheduled' \subseteq Scheduled /\ Scheduled \subseteq ToRun
    BY <1>5 DEF Scheduled, ToRun
  <2>2. \A a \in Scheduled, b \in New(n, times) : a.id < b.id
    BY <1>3, <1>4, <1>6, <2>1
  <2> QED
    BY <1>0, <1>2, <2>1, <2>2 DEF NewestLast
<1>11. BatchNow'
  BY <1>0 DEF BatchNow
<1> QED
  BY <1>2, <1>7, <1>8, <1>9, <1>10, <1>11 DEF SchedInv

(* One action goes from toSched to the list of its time. *)
LEMMA ScheduleKeeps ==
  ASSUME SchedInv, Schedule
  PROVE  SchedInv' /\ ToRun' = ToRun
<1> DEFINE a == Head(toSched)
<1>1. /\ phase = "schedule" /\ toSched # <<>> /\ a.when >= now /\ toSched' = Tail(toSched)
      /\ UNCHANGED <<now, batch, nextId, phase>>
  BY DEF Schedule
<1>2. \/ /\ a.when \in DOMAIN calendar
         /\ calendar' = [calendar EXCEPT ![a.when] = Append(@, a)]
         /\ heap' = heap
      \/ /\ a.when \notin DOMAIN calendar
         /\ heap' = heap \cup {[when |-> a.when, id |-> a.id]}
         /\ calendar' = [t \in DOMAIN calendar \cup {a.when} |->
                           IF t = a.when THEN <<a>> ELSE calendar[t]]
  BY DEF Schedule
<1>3. /\ TypeOK /\ HeapMatchesCalendar /\ CalendarInOrder /\ IdsUsed /\ NewestLast
      /\ BatchNow /\ Increasing(batch) /\ Increasing(toSched) /\ PhaseTells
  BY DEF SchedInv
<1>4. /\ a \in ItemType /\ toSched' \in Seq(ItemType)
      /\ Range(toSched) = Range(toSched') \cup {a} /\ Increasing(toSched')
      /\ \A b \in Range(toSched') : a.id < b.id
  BY <1>1, <1>3, TailFacts DEF TypeOK
<1> HIDE DEF a
<1>5. /\ ToRun \subseteq ItemType /\ now \in Nat /\ nextId \in Nat
      /\ InCalendar \subseteq ItemType /\ Range(batch) \subseteq ItemType
      /\ Range(toSched) \subseteq ItemType /\ a.when \in Nat /\ a.id \in Nat
  BY <1>3, <1>4, ToRunTypes DEF ItemType
<1>6. \A b \in InCalendar \cup Range(batch) : b.id < a.id
  BY <1>3, <1>4 DEF NewestLast, Scheduled
<1>7. /\ DOMAIN calendar' = DOMAIN calendar \cup {a.when}
      /\ \A t \in DOMAIN calendar \ {a.when} : calendar'[t] = calendar[t]
      /\ calendar'[a.when] \in Seq(ItemType) /\ calendar'[a.when] # <<>>
      /\ Increasing(calendar'[a.when])
      /\ Range(calendar'[a.when]) =
           {a} \cup (IF a.when \in DOMAIN calendar THEN Range(calendar[a.when]) ELSE {})
  <2>1. CASE a.when \in DOMAIN calendar
    <3>1. calendar' = [calendar EXCEPT ![a.when] = Append(@, a)]
      BY <1>2, <2>1
    <3>2. /\ calendar[a.when] \in Seq(ItemType) /\ Increasing(calendar[a.when])
          /\ Range(calendar[a.when]) \subseteq InCalendar
      BY <1>3, <2>1 DEF TypeOK, CalendarInOrder, InCalendar
    <3>3. \A b \in Range(calendar[a.when]) : b.id < a.id
      BY <1>6, <3>2
    <3>4. calendar'[a.when] = Append(calendar[a.when], a)
      BY <2>1, <3>1
    <3>5. /\ calendar'[a.when] \in Seq(ItemType) /\ calendar'[a.when] # <<>>
          /\ Range(calendar'[a.when]) = Range(calendar[a.when]) \cup {a}
          /\ Increasing(calendar'[a.when])
      BY <1>4, <3>2, <3>3, <3>4, AppendFacts
    <3>6. /\ DOMAIN calendar' = DOMAIN calendar \cup {a.when}
          /\ \A t \in DOMAIN calendar \ {a.when} : calendar'[t] = calendar[t]
      BY <2>1, <3>1
    <3> QED
      BY <2>1, <3>5, <3>6
  <2>2. CASE a.when \notin DOMAIN calendar
    <3>1. calendar' = [t \in DOMAIN calendar \cup {a.when} |->
                         IF t = a.when THEN <<a>> ELSE calendar[t]]
      BY <1>2, <2>2
    <3>2. /\ DOMAIN calendar' = DOMAIN calendar \cup {a.when}
          /\ \A t \in DOMAIN calendar \ {a.when} : calendar'[t] = calendar[t]
          /\ calendar'[a.when] = <<a>>
      BY <3>1
    <3>3. <<a>> \in Seq(ItemType) /\ <<a>> # <<>> /\ Increasing(<<a>>)
      BY <1>4 DEF Increasing
    <3>4. Range(<<a>>) = {a}
      BY DEF Range
    <3> QED
      BY <2>2, <3>2, <3>3, <3>4
  <2> QED
    BY <2>1, <2>2
<1>8. InCalendar' = InCalendar \cup {a}
  <2>1. \A t \in DOMAIN calendar' : Range(calendar'[t]) \subseteq InCalendar \cup {a}
    <3> TAKE t \in DOMAIN calendar'
    <3>1. CASE t = a.when
      BY <1>7, <3>1 DEF InCalendar
    <3>2. CASE t # a.when
      BY <1>7, <3>2 DEF InCalendar
    <3> QED
      BY <3>1, <3>2
  <2>2. \A t \in DOMAIN calendar : Range(calendar[t]) \subseteq Range(calendar'[t])
    <3> TAKE t \in DOMAIN calendar
    <3>1. CASE t = a.when
      BY <1>7, <3>1
    <3>2. CASE t # a.when
      BY <1>7, <3>2
    <3> QED
      BY <3>1, <3>2
  <2>3. a \in Range(calendar'[a.when]) /\ a.when \in DOMAIN calendar'
    BY <1>7
  <2>4. InCalendar' = UNION {Range(calendar'[t]) : t \in DOMAIN calendar'}
    BY DEF InCalendar
  <2>5. InCalendar' \subseteq InCalendar \cup {a}
    BY <2>1, <2>4
  <2>6. InCalendar \subseteq InCalendar'
    BY <1>7, <2>2, <2>4 DEF InCalendar
  <2> QED
    BY <2>3, <2>4, <2>5, <2>6
<1>9. ToRun' = ToRun
  BY <1>1, <1>4, <1>8 DEF ToRun
<1>10. TypeOK'
  <2>1. heap' \subseteq ItemType
    BY <1>2, <1>3, <1>5 DEF TypeOK, ItemType
  <2>2. DOMAIN calendar' \subseteq Nat
    BY <1>3, <1>5, <1>7 DEF TypeOK
  <2>3. \A t \in DOMAIN calendar' : calendar'[t] \in Seq(ItemType)
    BY <1>3, <1>7 DEF TypeOK
  <2> QED
    BY <1>1, <1>3, <1>4, <2>1, <2>2, <2>3 DEF TypeOK
<1>11. HeapMatchesCalendar'
  <2>1. CASE a.when \in DOMAIN calendar
    BY <1>2, <1>3, <1>7, <2>1 DEF HeapMatchesCalendar
  <2>2. CASE a.when \notin DOMAIN calendar
    <3>1. heap' = heap \cup {[when |-> a.when, id |-> a.id]}
      BY <1>2, <2>2
    <3>2. \A h \in heap : h.when # a.when
      BY <1>3, <2>2 DEF HeapMatchesCalendar
    <3>3. {h.when : h \in heap'} = DOMAIN calendar'
      <4> DEFINE e == [when |-> a.when, id |-> a.id]
      <4>0. e.when = a.when /\ heap' = heap \cup {e}
        BY <3>1
      <4> HIDE DEF e
      <4>1. {h.when : h \in heap'} = {h.when : h \in heap} \cup {a.when}
        BY <4>0
      <4> QED
        BY <1>3, <1>7, <4>1 DEF HeapMatchesCalendar
    <3>4. \A g, h \in heap' : g.when = h.when => g = h
      BY <1>3, <3>1, <3>2 DEF HeapMatchesCalendar
    <3> QED
      BY <3>3, <3>4 DEF HeapMatchesCalendar
  <2> QED
    BY <2>1, <2>2
<1>12. CalendarInOrder'
  <2> SUFFICES ASSUME NEW t \in DOMAIN calendar'
               PROVE  /\ t >= now /\ calendar'[t] # <<>> /\ Increasing(calendar'[t])
                      /\ \A b \in Range(calendar'[t]) : b.when = t
    BY <1>1 DEF CalendarInOrder
  <2>1. CASE t = a.when
    <3>1. \A b \in Range(calendar'[t]) : b.when = t
      BY <1>3, <1>7, <2>1 DEF CalendarInOrder
    <3> QED
      BY <1>1, <1>7, <2>1, <3>1
  <2>2. CASE t # a.when
    BY <1>3, <1>7, <2>2 DEF CalendarInOrder
  <2> QED
    BY <2>1, <2>2
<1>13. IdsUsed'
  BY <1>1, <1>3, <1>9 DEF IdsUsed
<1>14. NewestLast'
  <2>1. Scheduled' = Scheduled \cup {a}
    BY <1>1, <1>8 DEF Scheduled
  <2> QED
    BY <1>3, <1>4, <2>1 DEF NewestLast
<1>15. BatchNow' /\ Increasing(batch')
  BY <1>1, <1>3 DEF BatchNow
<1>16. PhaseTells'
  BY <1>1, <1>3 DEF PhaseTells
<1> QED
  BY <1>4, <1>9, <1>10, <1>11, <1>12, <1>13, <1>14, <1>15, <1>16 DEF SchedInv

(* The earliest list becomes the batch; nothing else is for its time. *)
LEMMA PopKeeps ==
  ASSUME SchedInv, Pop
  PROVE  SchedInv' /\ ToRun' = ToRun /\ (\A a \in ToRun : a.when >= now')
<1>1. PICK h \in heap :
        /\ Earliest(h) /\ h.when \in DOMAIN calendar /\ now <= h.when
        /\ heap' = heap \ {h}
        /\ batch' = calendar[h.when]
        /\ calendar' = [t \in DOMAIN calendar \ {h.when} |-> calendar[t]]
        /\ now' = h.when
        /\ phase' = IF h.when > Till THEN "done" ELSE "run"
  BY DEF Pop
<1>2. phase = "pop" /\ toSched' = toSched /\ nextId' = nextId
  BY DEF Pop
<1>3. /\ TypeOK /\ HeapMatchesCalendar /\ CalendarInOrder /\ IdsUsed /\ NewestLast
      /\ PhaseTells
  BY DEF SchedInv
<1>4. toSched = <<>> /\ batch = <<>>
  BY <1>2, <1>3 DEF PhaseTells
<1>5. Range(toSched) = {} /\ Range(batch) = {}
  BY <1>4 DEF Range
<1>6. h.when \in Nat /\ DOMAIN calendar \subseteq Nat /\ heap \subseteq ItemType
  BY <1>1, <1>3 DEF TypeOK
<1>7. DOMAIN calendar' = DOMAIN calendar \ {h.when}
      /\ \A t \in DOMAIN calendar' : calendar'[t] = calendar[t]
  BY <1>1
<1>8. \A t \in DOMAIN calendar : h.when <= t
  BY <1>1, <1>3 DEF HeapMatchesCalendar, Earliest
<1>9. InCalendar = InCalendar' \cup Range(batch')
  <2>1. InCalendar' = UNION {Range(calendar[t]) : t \in DOMAIN calendar \ {h.when}}
    BY <1>7 DEF InCalendar
  <2>2. Range(batch') = Range(calendar[h.when])
    BY <1>1
  <2>3. InCalendar = UNION {Range(calendar[t]) : t \in DOMAIN calendar}
    BY DEF InCalendar
  <2>4. InCalendar \subseteq InCalendar' \cup Range(batch')
    BY <2>1, <2>2, <2>3
  <2>5. InCalendar' \cup Range(batch') \subseteq InCalendar
    BY <1>1, <2>1, <2>2, <2>3
  <2> QED
    BY <2>4, <2>5
<1>10. ToRun' = ToRun
  BY <1>2, <1>5, <1>9 DEF ToRun
<1>11. \A a \in ToRun : a.when >= now'
  <2>1. ToRun = InCalendar
    BY <1>5 DEF ToRun
  <2>2. \A t \in DOMAIN calendar : \A a \in Range(calendar[t]) : a.when = t
    BY <1>3 DEF CalendarInOrder
  <2>3. \A a \in InCalendar : a.when \in DOMAIN calendar
    BY <2>2 DEF InCalendar
  <2> QED
    BY <1>1, <1>6, <1>8, <2>1, <2>3
<1>12. TypeOK'
  <2>1. phase' \in Phases
    BY <1>1 DEF Phases
  <2>2. batch' \in Seq(ItemType)
    BY <1>1, <1>3 DEF TypeOK
  <2>3. heap' \subseteq ItemType
    BY <1>1, <1>6
  <2> QED
    BY <1>1, <1>2, <1>3, <1>6, <1>7, <2>1, <2>2, <2>3 DEF TypeOK
<1>13. HeapMatchesCalendar'
  <2>1. \A g \in heap \ {h} : g.when # h.when
    BY <1>1, <1>3 DEF HeapMatchesCalendar
  <2>2. {g.when : g \in heap'} = DOMAIN calendar'
    BY <1>1, <1>3, <1>7, <2>1 DEF HeapMatchesCalendar
  <2>3. \A g, k \in heap' : g.when = k.when => g = k
    BY <1>1, <1>3 DEF HeapMatchesCalendar
  <2> QED
    BY <2>2, <2>3 DEF HeapMatchesCalendar
<1>14. CalendarInOrder'
  BY <1>1, <1>3, <1>6, <1>7, <1>8 DEF CalendarInOrder
<1>15. IdsUsed'
  BY <1>2, <1>3, <1>10 DEF IdsUsed
<1>16. NewestLast'
  BY <1>2, <1>5 DEF NewestLast
<1>17. BatchNow' /\ Increasing(batch') /\ Increasing(toSched')
  <2>1. BatchNow' /\ Increasing(batch')
    BY <1>1, <1>3 DEF CalendarInOrder, BatchNow
  <2> QED
    BY <1>2, <1>4, <2>1 DEF Increasing
<1>18. PhaseTells'
  <2>1. phase' \in {"done", "run"} /\ (phase' = "run" => now' <= Till)
    BY <1>1, <1>6, SchedulerAssumption
  <2>2. now' \notin DOMAIN calendar'
    BY <1>1, <1>7
  <2> QED
    BY <2>1, <2>2 DEF PhaseTells
<1> QED
  BY <1>10, <1>11, <1>12, <1>13, <1>14, <1>15, <1>16, <1>17, <1>18 DEF SchedInv

(* simulate goes on, with all its data as they are. *)
LEMMA PhaseMoves ==
  ASSUME SchedInv, UNCHANGED <<now, heap, calendar, batch, toSched, nextId>>,
         phase' \in Phases, PhaseTells'
  PROVE  SchedInv' /\ ToRun' = ToRun
<1>1. InCalendar' = InCalendar /\ ToRun' = ToRun /\ Scheduled' = Scheduled
  BY DEF InCalendar, ToRun, Scheduled
<1>2. /\ TypeOK' /\ HeapMatchesCalendar' /\ CalendarInOrder'
  BY DEF SchedInv, TypeOK, HeapMatchesCalendar, CalendarInOrder
<1>3. IdsUsed' /\ NewestLast' /\ BatchNow'
  BY <1>1 DEF SchedInv, IdsUsed, NewestLast, BatchNow
<1> QED
  BY <1>1, <1>2, <1>3 DEF SchedInv

(* Every step keeps the invariant. *)
LEMMA StepPreserves == SchedInv /\ [Next]_schedVars => SchedInv'
<1> SUFFICES ASSUME SchedInv, [Next]_schedVars PROVE SchedInv'
  OBVIOUS
<1>0. TypeOK /\ PhaseTells
  BY DEF SchedInv
<1>1. CASE InitObjects
  <2>1. /\ phase = "init" /\ Handler /\ phase' = "schedule"
        /\ UNCHANGED <<now, heap, calendar, batch>>
    BY <1>1 DEF InitObjects
  <2>2. PhaseTells' /\ phase' \in Phases
    BY <1>0, <2>1 DEF PhaseTells, Phases
  <2> QED
    BY <2>1, <2>2, HandlerKeeps DEF SchedInv, TypeOK
<1>2. CASE RunAction
  <2>1. /\ phase = "run" /\ batch # <<>> /\ Handler /\ batch' = Tail(batch)
        /\ UNCHANGED <<now, heap, calendar, phase>>
    BY <1>2 DEF RunAction
  <2>2. /\ Tail(batch) \in Seq(ItemType) /\ Increasing(Tail(batch))
        /\ Range(Tail(batch)) \subseteq Range(batch)
    BY <2>1, TailFacts DEF SchedInv, TypeOK
  <2>3. PhaseTells' /\ phase' \in Phases
    BY <1>0, <2>1 DEF PhaseTells, TypeOK
  <2> QED
    BY <2>1, <2>2, <2>3, HandlerKeeps
<1>3. CASE Schedule
  BY <1>3, ScheduleKeeps
<1>4. CASE Pop
  BY <1>4, PopKeeps
<1>5. CASE InPast \/ HandlerFails
  <2>1. /\ phase' = "failed"
        /\ UNCHANGED <<now, heap, calendar, batch, toSched, nextId>>
    BY <1>5 DEF InPast, HandlerFails
  <2>2. PhaseTells' /\ phase' \in Phases
    BY <2>1 DEF PhaseTells, Phases
  <2> QED
    BY <2>1, <2>2, PhaseMoves
<1>6. CASE AllScheduled
  <2>1. /\ phase = "schedule" /\ toSched = <<>> /\ phase' = "pop"
        /\ UNCHANGED <<now, heap, calendar, batch, toSched, nextId>>
    BY <1>6 DEF AllScheduled
  <2>2. PhaseTells' /\ phase' \in Phases
    BY <1>0, <2>1 DEF PhaseTells, Phases
  <2> QED
    BY <2>1, <2>2, PhaseMoves
<1>7. CASE NothingLeft
  <2>1. /\ phase' = "done"
        /\ UNCHANGED <<now, heap, calendar, batch, toSched, nextId>>
    BY <1>7 DEF NothingLeft
  <2>2. PhaseTells' /\ phase' \in Phases
    BY <2>1 DEF PhaseTells, Phases
  <2> QED
    BY <2>1, <2>2, PhaseMoves
<1>8. CASE BatchDone
  <2>1. /\ batch = <<>> /\ phase' = "schedule"
        /\ UNCHANGED <<now, heap, calendar, batch, toSched, nextId>>
    BY <1>8 DEF BatchDone
  <2>2. PhaseTells' /\ phase' \in Phases
    BY <1>0, <2>1 DEF PhaseTells, Phases
  <2> QED
    BY <2>1, <2>2, PhaseMoves
<1>9. CASE UNCHANGED schedVars
  <2>1. /\ UNCHANGED <<now, heap, calendar, batch, toSched, nextId>> /\ phase' = phase
    BY <1>9 DEF schedVars
  <2>2. InCalendar' = InCalendar
    BY <2>1 DEF InCalendar
  <2>3. PhaseTells' /\ phase' \in Phases
    BY <1>0, <2>1, <2>2 DEF PhaseTells, TypeOK, ToRun
  <2> QED
    BY <2>1, <2>3, PhaseMoves
<1> QED
  BY <1>1, <1>2, <1>3, <1>4, <1>5, <1>6, <1>7, <1>8, <1>9 DEF Next

(* What the scheduler keeps in every reachable state, whatever the handlers  *)
(* return.                                                                   *)
THEOREM SchedulerInvariant == Spec => []SchedInv
BY InitEstablishes, StepPreserves, PTL DEF Spec

(* Every part of the calendar keeps its type.                                *)
THEOREM SchedulerTypeCorrect == Spec => []TypeOK
<1>1. SchedInv => TypeOK
  BY DEF SchedInv
<1> QED
  BY <1>1, SchedulerInvariant, PTL

(* A time popped off the heap always has its list in the hash map, and no    *)
(* time is in the heap twice: the unwrap() after a pop never aborts.         *)
THEOREM HeapAlwaysMatches == Spec => []HeapMatchesCalendar
<1>1. SchedInv => HeapMatchesCalendar
  BY DEF SchedInv
<1> QED
  BY <1>1, SchedulerInvariant, PTL

(* No list is for a time that has passed: the assertion after a pop holds.   *)
THEOREM CalendarAlwaysInOrder == Spec => []CalendarInOrder
<1>1. SchedInv => CalendarInOrder
  BY DEF SchedInv
<1> QED
  BY <1>1, SchedulerInvariant, PTL

-----------------------------------------------------------------------------
(* The refinement *)

Queue  == {a \in ToRun : a.when >= now}
Late   == \E a \in Range(toSched) : a.when < now
Status == IF phase \in {"done", "failed"} THEN phase ELSE "running"

(* What a handler returns is accepted by the queue: numbered in order, and   *)
(* late exactly if a number is missing from it.                              *)
Accepted(rest) ==
  /\ nextId' >= nextId
  /\ rest \subseteq Queue'
  /\ \A a \in Queue' \ rest : a.when >= now /\ a.id \in nextId..(nextId' - 1)
  /\ \A a, b \in Queue' \ rest : a.id = b.id => a = b
  /\ Late' = (Late \/ {a.id : a \in Queue' \ rest} # nextId..(nextId' - 1))

LEMMA HandlerAccepted ==
  ASSUME SchedInv, Handler, UNCHANGED <<now, heap, calendar>>,
         Range(batch') \subseteq Range(batch)
  PROVE  Accepted({a \in InCalendar \cup Range(batch') \cup Range(toSched) : a.when >= now})
<1>0. TypeOK /\ IdsUsed /\ Increasing(toSched)
  BY DEF SchedInv
<1>1. PICK n \in Nat : \E times \in [1..n -> Nat] :
        /\ nextId' = nextId + n
        /\ toSched' \in Seq(ItemType) /\ Increasing(toSched')
        /\ Range(toSched') = Range(toSched) \cup New(n, times)
  BY <1>0, HandlerReturns
<1>2. PICK times \in [1..n -> Nat] :
        /\ nextId' = nextId + n
        /\ Range(toSched') = Range(toSched) \cup New(n, times)
  BY <1>1
<1> DEFINE rest == {a \in InCalendar \cup Range(batch') \cup Range(toSched) : a.when >= now}
           good == {a \in New(n, times) : a.when >= now}
<1>3. ToRun \subseteq ItemType /\ now \in Nat /\ nextId \in Nat
  BY <1>0, ToRunTypes
<1>4. rest \subseteq ToRun
  BY DEF ToRun
<1>5. \A a \in ToRun : a.id \in Nat /\ a.id < nextId
  BY <1>0, <1>3 DEF IdsUsed, ItemType
<1>6. \A a \in New(n, times) : a.id \in nextId..(nextId + n - 1) /\ a.when = times[a.id - nextId + 1]
  <2> SUFFICES ASSUME NEW i \in 1..n
               PROVE  /\ nextId + i - 1 \in nextId..(nextId + n - 1)
                      /\ times[i] = times[(nextId + i - 1) - nextId + 1]
    BY DEF New
  <2>1. (nextId + i - 1) - nextId + 1 = i
    BY <1>3
  <2> QED
    BY <1>3, <2>1
<1>7. Queue' = rest \cup good
  <2>1. InCalendar' = InCalendar
    BY DEF InCalendar
  <2>2. ToRun' = InCalendar \cup Range(batch') \cup Range(toSched) \cup New(n, times)
    BY <1>2, <2>1 DEF ToRun
  <2> QED
    BY <2>2 DEF Queue
<1>8. rest \cap good = {}
  <2> SUFFICES ASSUME NEW a \in rest, a \in New(n, times) PROVE FALSE
    OBVIOUS
  <2> HIDE DEF rest
  <2> QED
    BY <1>3, <1>4, <1>5, <1>6
<1>9. Queue' \ rest = good
  BY <1>7, <1>8
<1>10. \A a, b \in good : a.id = b.id => a = b
  <2> SUFFICES ASSUME NEW i \in 1..n, NEW j \in 1..n, nextId + i - 1 = nextId + j - 1
               PROVE  i = j
    BY DEF New
  <2> QED
    BY <1>3
<1>11. Late' = (Late \/ \E i \in 1..n : times[i] < now)
  <2>1. \A i \in 1..n : [id |-> nextId + i - 1, when |-> times[i]] \in New(n, times)
    BY DEF New
  <2>2. (\E a \in New(n, times) : a.when < now) <=> (\E i \in 1..n : times[i] < now)
    <3>1. ASSUME NEW i \in 1..n, times[i] < now
          PROVE  \E a \in New(n, times) : a.when < now
      <4> DEFINE a == [id |-> nextId + i - 1, when |-> times[i]]
      <4>1. a \in New(n, times) /\ a.when < now
        BY <2>1, <3>1
      <4> QED
        BY <4>1
    <3>2. ASSUME NEW a \in New(n, times), a.when < now
          PROVE  \E i \in 1..n : times[i] < now
      BY <3>2 DEF New
    <3> QED
      BY <3>1, <3>2
  <2> QED
    BY <1>2, <2>2 DEF Late
<1>12. (\E i \in 1..n : times[i] < now) <=> {a.id : a \in good} # nextId..(nextId + n - 1)
  <2>1. ASSUME NEW i \in 1..n, times[i] < now
        PROVE  {a.id : a \in good} # nextId..(nextId + n - 1)
    <3>1. nextId + i - 1 \in nextId..(nextId + n - 1)
      BY <1>3
    <3>2. ASSUME NEW a \in good PROVE a.id # nextId + i - 1
      <4>1. a.when = times[a.id - nextId + 1] /\ a.when >= now /\ a.id \in Int
        BY <1>3, <1>6
      <4>2. SUFFICES ASSUME a.id = nextId + i - 1 PROVE FALSE
        OBVIOUS
      <4>3. a.id - nextId + 1 = i
        BY <1>3, <4>1, <4>2
      <4> QED
        BY <1>3, <2>1, <4>1, <4>3
    <3>3. nextId + i - 1 \notin {a.id : a \in good}
      BY <3>2
    <3> QED
      BY <3>1, <3>3
  <2>2. ASSUME \A i \in 1..n : ~(times[i] < now)
        PROVE  {a.id : a \in good} = nextId..(nextId + n - 1)
    <3>1. {a.id : a \in good} \subseteq nextId..(nextId + n - 1)
      BY <1>6
    <3>2. ASSUME NEW k \in nextId..(nextId + n - 1) PROVE k \in {a.id : a \in good}
      <4> DEFINE i == k - nextId + 1
                 a == [id |-> nextId + i - 1, when |-> times[i]]
      <4>1. i \in 1..n /\ nextId + i - 1 = k
        BY <1>3
      <4>2. a \in New(n, times) /\ a.id = k /\ a.when = times[i]
        <5> HIDE DEF i
        <5> QED
          BY <4>1 DEF New
      <4>3. times[i] >= now
        <5> HIDE DEF i
        <5> QED
          BY <1>3, <2>2, <4>1
      <4> HIDE DEF a
      <4>4. a \in good
        BY <4>2, <4>3
      <4> QED
        BY <4>2, <4>4
    <3> QED
      BY <3>1, <3>2
  <2> QED
    BY <2>1, <2>2
<1> HIDE DEF rest, good
<1>13. rest \subseteq Queue' /\ nextId' >= nextId /\ nextId' - 1 = nextId + n - 1
  BY <1>2, <1>3, <1>7
<1>14. \A a \in good : a.when >= now /\ a.id \in nextId..(nextId' - 1)
  BY <1>6, <1>13 DEF good
<1>15. Late' = (Late \/ {a.id : a \in good} # nextId..(nextId' - 1))
  BY <1>11, <1>12, <1>13
<1>16. Accepted(rest)
  BY <1>9, <1>10, <1>13, <1>14, <1>15 DEF Accepted
<1> QED
  BY <1>16 DEF rest

(* The first action of a batch is the first of the queue. *)
LEMMA FirstOfBatch ==
  ASSUME SchedInv, phase = "run", batch # <<>>
  PROVE  LET h == Head(batch)
             rest == {a \in InCalendar \cup Range(Tail(batch)) \cup Range(toSched) : a.when >= now}
         IN  /\ h \in Queue /\ h.when = now
             /\ rest = Queue \ {h}
             /\ \A b \in Queue \ {h} : b.when > h.when \/ (b.when = h.when /\ h.id < b.id)
<1> DEFINE h == Head(batch)
           rest == {a \in InCalendar \cup Range(Tail(batch)) \cup Range(toSched) : a.when >= now}
<1>1. /\ TypeOK /\ CalendarInOrder /\ NewestLast /\ BatchNow /\ Increasing(batch)
      /\ now \notin DOMAIN calendar
  BY DEF SchedInv, PhaseTells
<1>2. /\ h \in ItemType /\ Range(batch) = Range(Tail(batch)) \cup {h}
      /\ \A a \in Range(Tail(batch)) : h.id < a.id
  BY <1>1, TailFacts DEF TypeOK
<1> HIDE DEF h
<1>3. /\ ToRun \subseteq ItemType /\ now \in Nat /\ h.id \in Nat /\ h \in ToRun
      /\ InCalendar \subseteq ItemType /\ Range(batch) \subseteq ItemType
      /\ Range(toSched) \subseteq ItemType
  BY <1>1, <1>2, ToRunTypes DEF ToRun, ItemType
<1>4. h.when = now /\ \A a \in Range(Tail(batch)) : a.when = now
  BY <1>1, <1>2 DEF BatchNow
<1>5. \A a \in InCalendar : a.when \in Nat /\ a.when > now
  <2>1. \A t \in DOMAIN calendar : t \in Nat /\ t > now
    BY <1>1, <1>3 DEF CalendarInOrder, TypeOK
  <2>2. \A t \in DOMAIN calendar : \A a \in Range(calendar[t]) : a.when = t
    BY <1>1 DEF CalendarInOrder
  <2> QED
    BY <2>1, <2>2 DEF InCalendar
<1>6. \A a \in Range(toSched) : h.id < a.id
  BY <1>1, <1>2 DEF NewestLast, Scheduled
<1>7. \A a \in rest : a.when \in Nat /\ a.id \in Nat /\ a.when >= now
  BY <1>2, <1>3 DEF ItemType
<1>8. \A a \in rest : a.when > now \/ (a.when = now /\ h.id < a.id)
  BY <1>2, <1>3, <1>4, <1>5, <1>6, <1>7
<1>9. h \notin rest
  BY <1>3, <1>4, <1>8
<1>10. Queue = rest \cup {h}
  BY <1>2, <1>3, <1>4 DEF Queue, ToRun
<1> HIDE DEF rest
<1>11. rest = Queue \ {h} /\ h \in Queue
  BY <1>9, <1>10
<1> QED
  BY <1>4, <1>8, <1>11 DEF h, rest

(* Every step of the scheduler is a step of the queue, or none.              *)
LEMMA StepRefines == SchedInv /\ [Next]_schedVars => [Abstract!QueueNext]_Abstract!queueVars
<1> SUFFICES ASSUME SchedInv, [Next]_schedVars
             PROVE  [Abstract!QueueNext]_Abstract!queueVars
  OBVIOUS
<1> DEFINE same == /\ now' = now /\ Queue' = Queue /\ nextId' = nextId
                   /\ Late' = Late /\ Status' = Status
<1>0. same => [Abstract!QueueNext]_Abstract!queueVars
  BY DEF Abstract!queueVars, Queue, Late, Status
<1> HIDE DEF same
<1>a. /\ TypeOK /\ PhaseTells /\ ToRun \subseteq ItemType /\ now \in Nat /\ nextId \in Nat
      /\ Range(toSched) \subseteq ItemType
  BY ToRunTypes DEF SchedInv
<1>b. /\ toSched = <<>> => Late = FALSE
      /\ phase \notin {"done", "failed"} => Status = "running"
  BY DEF Late, Range, Status
<1>1. CASE InitObjects
  <2>1. /\ phase = "init" /\ Handler /\ phase' = "schedule"
        /\ UNCHANGED <<now, heap, calendar, batch>>
    BY <1>1 DEF InitObjects
  <2>2. nextId = 0 /\ ToRun = {}
    BY <1>a, <2>1 DEF PhaseTells
  <2>3. {a \in InCalendar \cup Range(batch') \cup Range(toSched) : a.when >= now} = {}
    BY <2>1, <2>2 DEF ToRun
  <2>4. Range(batch') \subseteq Range(batch)
    BY <2>1
  <2>5. Accepted({})
    BY <2>1, <2>3, <2>4, HandlerAccepted
  <2>6. Status = "running" /\ Status' = Status
    BY <2>1 DEF Status
  <2>7. Abstract!Start
    <3>1. Abstract!Accept({})
      BY <2>5 DEF Abstract!Accept, Accepted, Queue, Late
    <3> QED
      BY <2>1, <2>2, <2>6, <3>1 DEF Abstract!Start, Status
  <2> QED
    BY <2>7 DEF Abstract!QueueNext
<1>2. CASE RunAction
  <2>1. /\ phase = "run" /\ batch # <<>> /\ Handler /\ batch' = Tail(batch)
        /\ UNCHANGED <<now, heap, calendar, phase>>
    BY <1>2 DEF RunAction
  <2> DEFINE h == Head(batch)
             rest == {a \in InCalendar \cup Range(batch') \cup Range(toSched) : a.when >= now}
  <2>2. Range(batch') \subseteq Range(batch)
    BY <2>1, TailFacts DEF SchedInv, TypeOK
  <2>3. Accepted(rest)
    BY <2>1, <2>2, HandlerAccepted
  <2>4. rest = {a \in InCalendar \cup Range(Tail(batch)) \cup Range(toSched) : a.when >= now}
    BY <2>1
  <2>5. /\ h \in Queue /\ h.when = now /\ rest = Queue \ {h}
        /\ \A b \in Queue \ {h} : b.when > h.when \/ (b.when = h.when /\ h.id < b.id)
    BY <2>1, <2>4, FirstOfBatch
  <2> HIDE DEF h, rest
  <2>6. Accepted(Queue \ {h})
    BY <2>3, <2>5
  <2>7. Abstract!IsFirst(h)
    <3>1. \A b \in Queue \ {h} : Abstract!Before(h, b)
      <4>1. \A b \in Queue : b.when \in Nat /\ b.id \in Nat
        BY <1>a DEF Queue, ItemType
      <4> QED
        BY <1>a, <2>5, <4>1 DEF Abstract!Before
    <3> QED
      BY <2>5, <3>1 DEF Abstract!IsFirst, Queue
  <2>8. Status = "running" /\ Status' = Status
    BY <2>1 DEF Status
  <2>9. Abstract!Run(h)
    <3>1. Abstract!Accept(Queue \ {h})
      BY <2>6 DEF Abstract!Accept, Accepted, Queue, Late
    <3> QED
      BY <2>1, <2>5, <2>7, <2>8, <3>1 DEF Abstract!Run, Queue, Status
  <2>10. h \in {a \in ToRun : a.when >= now}
    BY <2>5 DEF Queue
  <2> QED
    BY <2>9, <2>10 DEF Abstract!QueueNext, Abstract!Run, Abstract!IsFirst, Abstract!Before,
                       Abstract!Accept
<1>3. CASE Schedule
  <2>1. ToRun' = ToRun /\ now' = now /\ nextId' = nextId /\ phase' = phase
    BY <1>3, ScheduleKeeps DEF Schedule
  <2>2. Late' = Late
    <3>1. /\ toSched # <<>> /\ toSched \in Seq(ItemType) /\ Increasing(toSched)
          /\ toSched' = Tail(toSched) /\ Head(toSched).when >= now
      BY <1>3 DEF Schedule, SchedInv, TypeOK
    <3>2. /\ Range(toSched) = Range(toSched') \cup {Head(toSched)}
          /\ Head(toSched) \in ItemType
      BY <3>1, TailFacts
    <3>3. ~(Head(toSched).when < now)
      BY <1>a, <3>1, <3>2 DEF ItemType
    <3> QED
      BY <2>1, <3>2, <3>3 DEF Late
  <2> QED
    BY <1>0, <2>1, <2>2 DEF same, Queue, Status
<1>4. CASE Pop
  <2>1. /\ phase = "pop" /\ toSched' = toSched /\ nextId' = nextId
        /\ phase' = IF now' > Till THEN "done" ELSE "run"
    BY <1>4 DEF Pop
  <2>2. /\ ToRun' = ToRun /\ \A a \in ToRun : a.when >= now'
        /\ now' \in Nat /\ now <= now'
    BY <1>4, PopKeeps DEF Pop, SchedInv, TypeOK
  <2>3. toSched = <<>> /\ Late = FALSE /\ Late' = FALSE
    BY <1>a, <2>1 DEF PhaseTells, Late, Range
  <2>4. Queue = ToRun /\ Queue' = ToRun
    BY <1>a, <2>2 DEF Queue, ItemType
  <2>5. \E a \in Queue : a.when = now' /\ Abstract!IsFirst(a)
    <3>1. batch' \in Seq(ItemType) /\ batch' # <<>> /\ Increasing(batch') /\ BatchNow'
      <4>1. batch' # <<>>
        BY <1>4 DEF Pop, SchedInv, CalendarInOrder
      <4> QED
        BY <1>4, <4>1, PopKeeps DEF SchedInv, TypeOK
    <3> DEFINE h == Head(batch')
    <3>2. /\ h \in ItemType /\ Range(batch') = Range(Tail(batch')) \cup {h}
          /\ \A a \in Range(Tail(batch')) : h.id < a.id
      BY <3>1, TailFacts
    <3> HIDE DEF h
    <3>3. h.when = now' /\ h \in Queue /\ h.when \in Nat /\ h.id \in Nat
      BY <2>2, <2>4, <3>1, <3>2 DEF BatchNow, ToRun, ItemType
    <3>4. \A a \in InCalendar' : a.when > now' /\ a.when \in Nat
      <4>1. SchedInv' /\ now' \notin DOMAIN calendar'
        BY <1>4, PopKeeps DEF Pop
      <4>2. \A t \in DOMAIN calendar' : t \in Nat /\ t > now'
        BY <2>2, <4>1 DEF SchedInv, CalendarInOrder, TypeOK
      <4>3. \A t \in DOMAIN calendar' : \A a \in Range(calendar'[t]) : a.when = t
        BY <4>1 DEF SchedInv, CalendarInOrder
      <4> QED
        BY <4>2, <4>3 DEF InCalendar
    <3>5. \A a \in Queue : a.when \in Nat /\ a.id \in Nat
      BY <1>a, <2>4 DEF ItemType
    <3>6. Queue = InCalendar' \cup Range(batch')
      BY <2>1, <2>2, <2>3, <2>4 DEF ToRun, Range
    <3>7. \A b \in Queue \ {h} : Abstract!Before(h, b)
      <4> SUFFICES ASSUME NEW b \in Queue, b # h PROVE Abstract!Before(h, b)
        OBVIOUS
      <4>1. CASE b \in InCalendar'
        BY <2>2, <3>3, <3>4, <4>1 DEF Abstract!Before
      <4>2. CASE b \in Range(Tail(batch'))
        BY <3>1, <3>2, <3>3, <4>2 DEF BatchNow, Abstract!Before
      <4> QED
        BY <3>2, <3>6, <4>1, <4>2
    <3>8. Abstract!IsFirst(h)
      BY <3>3, <3>7 DEF Abstract!IsFirst, Queue
    <3> QED
      BY <3>3, <3>8
  <2>6. PICK a \in Queue : a.when = now' /\ Abstract!IsFirst(a)
    BY <2>5
  <2>7. Status = "running"
    BY <2>1 DEF Status
  <2>8. CASE now' <= Till
    <3>1. phase' = "run" /\ Status' = Status
      BY <2>1, <2>2, <2>8, SchedulerAssumption DEF Status
    <3>2. Abstract!Advance
      BY <2>1, <2>3, <2>4, <2>6, <2>7, <2>8, <3>1 DEF Abstract!Advance, Queue, Late, Status
    <3> QED
      BY <3>2 DEF Abstract!QueueNext
  <2>9. CASE ~(now' <= Till)
    <3>1. phase' = "done" /\ Status' = "done"
      BY <2>1, <2>2, <2>9, SchedulerAssumption DEF Status
    <3>2. \A b \in Queue : b.when > Till
      BY <1>a, <2>2, <2>4, <2>9, SchedulerAssumption DEF ItemType
    <3>3. Abstract!Finish
      BY <2>1, <2>3, <2>4, <2>6, <2>7, <3>1, <3>2 DEF Abstract!Finish, Queue, Late, Status
    <3> QED
      BY <3>3 DEF Abstract!QueueNext
  <2> QED
    BY <2>8, <2>9
<1>5. CASE InPast \/ HandlerFails
  <2>1. /\ phase' = "failed" /\ phase \in {"init", "schedule", "run"}
        /\ UNCHANGED <<now, heap, calendar, batch, toSched, nextId>>
    BY <1>5 DEF InPast, HandlerFails
  <2>2. ToRun' = ToRun
    BY <2>1 DEF ToRun, InCalendar
  <2>3. Status = "running" /\ Status' = "failed" /\ Queue' = Queue /\ Late' = Late
    BY <2>1, <2>2 DEF Status, Queue, Late
  <2>4. Abstract!Fail
    BY <2>1, <2>3 DEF Abstract!Fail, Queue, Late, Status
  <2> QED
    BY <2>4 DEF Abstract!QueueNext
<1>6. CASE AllScheduled \/ BatchDone
  <2>1. /\ phase \in {"schedule", "run"} /\ phase' \in {"pop", "schedule"}
        /\ UNCHANGED <<now, heap, calendar, batch, toSched, nextId>>
    BY <1>6 DEF AllScheduled, BatchDone
  <2>2. ToRun' = ToRun
    BY <2>1 DEF ToRun, InCalendar
  <2>3. Status' = Status /\ Queue' = Queue /\ Late' = Late
    BY <2>1, <2>2 DEF Status, Queue, Late
  <2> QED
    BY <1>0, <2>1, <2>3 DEF same
<1>7. CASE NothingLeft
  <2>1. /\ phase = "pop" /\ heap = {} /\ phase' = "done"
        /\ UNCHANGED <<now, heap, calendar, batch, toSched, nextId>>
    BY <1>7 DEF NothingLeft
  <2>2. batch = <<>> /\ toSched = <<>>
    BY <1>a, <2>1 DEF PhaseTells
  <2>3. DOMAIN calendar = {}
    BY <2>1 DEF SchedInv, HeapMatchesCalendar
  <2>4. ToRun = {} /\ ToRun' = {}
    BY <2>1, <2>2, <2>3 DEF ToRun, InCalendar, Range
  <2>5. /\ Queue = {} /\ Queue' = {} /\ Late = FALSE /\ Late' = FALSE
        /\ Status = "running" /\ Status' = "done"
    BY <2>1, <2>2, <2>4 DEF Queue, Late, Range, Status
  <2>6. Abstract!Finish
    BY <2>1, <2>5 DEF Abstract!Finish, Queue, Late, Status
  <2> QED
    BY <2>6 DEF Abstract!QueueNext
<1>8. CASE UNCHANGED schedVars
  <2>1. ToRun' = ToRun
    BY <1>8 DEF schedVars, ToRun, InCalendar
  <2> QED
    BY <1>0, <1>8, <2>1 DEF same, schedVars, Queue, Late, Status
<1> QED
  BY <1>1, <1>2, <1>3, <1>4, <1>5, <1>6, <1>7, <1>8 DEF Next

(* Whatever the handlers return, the simulation runs the actions in the      *)
(* order of their times, and of scheduling at equal times, one at a time,    *)
(* and stops only when nothing is left, at `till', or at an error.           *)
THEOREM SchedulerImplementsQueue == Spec => RunsInOrder
<1>1. Init => Abstract!QueueInit
  <2> SUFFICES ASSUME Init PROVE Abstract!QueueInit
    OBVIOUS
  <2>1. /\ now = 0 /\ nextId = 0 /\ phase = "init"
        /\ DOMAIN calendar = {} /\ batch = <<>> /\ toSched = <<>>
    BY DEF Init
  <2>2. ToRun = {} /\ Range(toSched) = {}
    BY <2>1 DEF ToRun, InCalendar, Range
  <2> QED
    BY <2>1, <2>2 DEF Abstract!QueueInit
<1> QED
  BY <1>1, SchedulerInvariant, StepRefines, PTL DEF Spec, RunsInOrder, Abstract!QueueSpec
=============================================================================
