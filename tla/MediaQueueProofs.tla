-------------------------- MODULE MediaQueueProofs --------------------------
(***************************************************************************)
(* The safety properties of MediaQueue and its refinement of LossyChannel, *)
(* for every set of producers, every capacity and every number of pushes.  *)
(***************************************************************************)
EXTENDS MediaQueue, TLAPS

Backlogs == Seq(Unit)

(* ShedIsSuffix: the drop loop leaves the newest units of the backlog, fewer   *)
(* than the capacity, and drops at most one from a backlog within bounds.      *)
LEMMA ShedIsSuffix ==
    ASSUME NEW q \in Backlogs, Len(q) <= Capacity
    PROVE  /\ Shed(q) \in Backlogs
           /\ Len(Shed(q)) = IF Len(q) = Capacity THEN Capacity - 1 ELSE Len(q)
           /\ \A i \in 1 .. Len(Shed(q)) :
                  Shed(q)[i] = q[i + (Len(q) - Len(Shed(q)))]
<1> USE QueueAssumption DEF QueueAssumption, Backlogs
<1>1. Len(q) \in Nat
  OBVIOUS
<1>2. CASE Len(q) < Capacity
  <2>1. Shed(q) = q
    BY <1>1, <1>2 DEF Shed
  <2> QED
    BY <1>1, <1>2, <2>1
<1>3. CASE Len(q) = Capacity
  <2>1. Shed(q) = SubSeq(q, 2, Len(q))
    BY <1>1, <1>3 DEF Shed
  <2>2. /\ SubSeq(q, 2, Len(q)) \in Seq(Unit)
        /\ Len(SubSeq(q, 2, Len(q))) = Len(q) - 1
        /\ \A i \in 1 .. (Len(q) - 1) : SubSeq(q, 2, Len(q))[i] = q[i + 1]
    BY <1>1, <1>3
  <2> QED
    BY <1>1, <1>3, <2>1, <2>2
<1> QED
  BY <1>1, <1>2, <1>3

(* ShedTyped: the same for the backlog of a well-typed state.                   *)
LEMMA ShedTyped ==
    ASSUME TypeOK
    PROVE  /\ Shed(units) \in Backlogs
           /\ Len(Shed(units)) \in Nat
           /\ Len(Shed(units)) < Capacity
           /\ Len(units) - Len(Shed(units)) \in {0, 1}
<1> USE QueueAssumption DEF QueueAssumption
<1>1. units \in Backlogs /\ Len(units) <= Capacity /\ Len(units) \in Nat
  BY DEF TypeOK, Backlogs
<1> QED
  BY <1>1, ShedIsSuffix

LEMMA InitTyped == Init => TypeOK
<1> USE QueueAssumption DEF QueueAssumption
<1> SUFFICES ASSUME Init PROVE TypeOK
  OBVIOUS
<1>1. units \in Seq(Unit) /\ Len(units) <= Capacity
  BY DEF Init
<1>2. dropped \in Nat /\ pushed \in 0 .. MaxPushes /\ popped \in Nat
      /\ cleared \in Nat /\ last \in 0 .. MaxPushes
  BY DEF Init
<1>3. stopped \in BOOLEAN /\ notifying \subseteq Producers
  BY DEF Init
<1> QED
  BY <1>1, <1>2, <1>3 DEF Init, TypeOK

(* The type invariant, with the bound on the backlog (mediaqueue.h:54-58).     *)
THEOREM TypeCorrect == Spec => []TypeOK
<1> USE QueueAssumption DEF QueueAssumption
<1>1. Init => TypeOK
  BY InitTyped
<1>2. TypeOK /\ [Next]_vars => TypeOK'
  <2> SUFFICES ASSUME TypeOK, [Next]_vars PROVE TypeOK'
    OBVIOUS
  <2>1. ASSUME NEW p \in Producers, NEW k \in Kinds, Push(p, k) PROVE TypeOK'
    <3>1. /\ Shed(units) \in Seq(Unit)
          /\ Len(Shed(units)) < Capacity
          /\ ShedCount(units) \in Nat
      BY ShedTyped DEF Backlogs, ShedCount
    <3>2. [kind |-> k, id |-> pushed + 1] \in Unit /\ pushed + 1 \in 0 .. MaxPushes
      BY <2>1 DEF Push, TypeOK, Unit
    <3>3. units' \in Seq(Unit) /\ Len(units') <= Capacity
      BY <2>1, <3>1, <3>2 DEF Push
    <3>4. dropped' \in Nat
      BY <2>1, <3>1 DEF Push, TypeOK
    <3> QED
      BY <2>1, <3>2, <3>3, <3>4 DEF Push, TypeOK, AfterPush
  <2>2. ASSUME NEW p \in Producers, NotifyOne(p) PROVE TypeOK'
    BY <2>2 DEF NotifyOne, WakeConsumer, TypeOK
  <2>3. CASE Block
    BY <2>3 DEF Block, TypeOK
  <2>4. CASE SpuriousWake
    BY <2>4 DEF SpuriousWake, TypeOK
  <2>5. CASE PopUnit
    <3>1. /\ Tail(units) \in Seq(Unit)
          /\ Len(Tail(units)) <= Capacity
          /\ Head(units) \in Unit
      BY <2>5 DEF PopUnit, TypeOK
    <3>2. Head(units).id \in 0 .. MaxPushes
      BY <3>1 DEF Unit
    <3> QED
      BY <2>5, <3>1, <3>2 DEF PopUnit, TypeOK
  <2>6. CASE PopFails
    BY <2>6 DEF PopFails, TypeOK
  <2>7. CASE Leave
    BY <2>7 DEF Leave, TypeOK
  <2>8. CASE ClearRunning
    BY <2>8 DEF ClearRunning, TypeOK
  <2>9. CASE Stop
    BY <2>9 DEF Stop, TypeOK
  <2>10. CASE NotifyAll
    BY <2>10 DEF NotifyAll, WakeConsumer, TypeOK
  <2>11. CASE Clear
    BY <2>11 DEF Clear, TypeOK
  <2>12. CASE UNCHANGED vars
    BY <2>12 DEF vars, TypeOK
  <2> QED
    BY <2>1, <2>2, <2>3, <2>4, <2>5, <2>6, <2>7, <2>8, <2>9, <2>10, <2>11, <2>12
    DEF Next, Produce, Consume, Own, Finished
<1> QED
  BY <1>1, <1>2, PTL DEF Spec

-----------------------------------------------------------------------------
(* The inductive invariant of the contents: types, the run of newest ids, and  *)
(* the counters.  Accounting needs BacklogIsNewest for "last": the id handed   *)
(* out is the one just before what is left.                                    *)
Contents == TypeOK /\ BacklogIsNewest /\ Accounting

LEMMA ContentsPush ==
    ASSUME Contents, NEW p \in Producers, NEW k \in Kinds, Push(p, k)
    PROVE  BacklogIsNewest' /\ Accounting'
<1> USE QueueAssumption DEF QueueAssumption
<1> DEFINE kept == Shed(units)
           unit == [kind |-> k, id |-> pushed + 1]
<1>1. /\ units \in Seq(Unit) /\ Len(units) \in Nat /\ Len(units) <= Capacity
      /\ pushed \in Nat /\ popped \in Nat /\ dropped \in Nat /\ cleared \in Nat
      /\ last \in Nat
  BY DEF Contents, TypeOK
<1>2. /\ kept \in Seq(Unit) /\ Len(kept) \in Nat
      /\ Len(units) - Len(kept) \in {0, 1}
      /\ \A i \in 1 .. Len(kept) : kept[i] = units[i + (Len(units) - Len(kept))]
  BY <1>1, ShedIsSuffix DEF Backlogs
<1>3. \A i \in 1 .. Len(kept) : kept[i].id = pushed - Len(kept) + i
  <2> TAKE i \in 1 .. Len(kept)
  <2> DEFINE j == i + (Len(units) - Len(kept))
  <2>1. j \in 1 .. Len(units)
    BY <1>1, <1>2
  <2>2. units[j].id = pushed - Len(units) + j
    BY <2>1 DEF Contents, BacklogIsNewest
  <2> QED
    BY <1>1, <1>2, <2>2
<1>4. unit \in Unit
  BY DEF Push, Contents, TypeOK, Unit
<1>5. /\ units' = Append(kept, unit)
      /\ pushed' = pushed + 1
      /\ dropped' = dropped + (Len(units) - Len(kept))
      /\ popped' = popped /\ cleared' = cleared /\ last' = last
  BY DEF Push, ShedCount
<1> HIDE DEF kept
<1>6. /\ Len(units') = Len(kept) + 1
      /\ \A i \in 1 .. Len(kept) : units'[i] = kept[i]
      /\ units'[Len(kept) + 1] = unit
  BY <1>2, <1>4, <1>5
<1>7. BacklogIsNewest'
  <2> SUFFICES ASSUME NEW i \in 1 .. Len(units')
               PROVE  units'[i].id = pushed' - Len(units') + i
    BY DEF BacklogIsNewest
  <2>1. CASE i \in 1 .. Len(kept)
    BY <1>1, <1>2, <1>3, <1>5, <1>6, <2>1
  <2>2. CASE i = Len(kept) + 1
    BY <1>1, <1>2, <1>5, <1>6, <2>2
  <2> QED
    BY <1>2, <1>6, <2>1, <2>2
<1>8. Accounting'
  BY <1>1, <1>2, <1>5, <1>6 DEF Contents, Accounting
<1> QED
  BY <1>7, <1>8

LEMMA ContentsPop ==
    ASSUME Contents, PopUnit
    PROVE  /\ BacklogIsNewest' /\ Accounting'
           /\ Head(units).id = pushed - Len(units) + 1
           /\ Len(units') = Len(units) - 1
<1>1. /\ units \in Seq(Unit) /\ units # <<>> /\ Len(units) \in Nat \ {0}
      /\ pushed \in Nat /\ popped \in Nat /\ dropped \in Nat /\ cleared \in Nat
  BY DEF Contents, TypeOK, PopUnit
<1>2. /\ units' = Tail(units) /\ last' = Head(units).id /\ popped' = popped + 1
      /\ pushed' = pushed /\ dropped' = dropped /\ cleared' = cleared
  BY DEF PopUnit
<1>3. /\ Len(units') = Len(units) - 1
      /\ \A i \in 1 .. Len(units') : units'[i] = units[i + 1]
      /\ Head(units) = units[1]
  BY <1>1, <1>2
<1>4. Head(units).id = pushed - Len(units) + 1
  BY <1>1, <1>3 DEF Contents, BacklogIsNewest
<1>5. BacklogIsNewest'
  <2> SUFFICES ASSUME NEW i \in 1 .. Len(units')
               PROVE  units'[i].id = pushed' - Len(units') + i
    BY DEF BacklogIsNewest
  <2>1. i + 1 \in 1 .. Len(units) /\ i \in Nat
    BY <1>1, <1>3
  <2>2. units[i + 1].id = pushed - Len(units) + (i + 1)
    BY <2>1 DEF Contents, BacklogIsNewest
  <2> QED
    BY <1>1, <1>2, <1>3, <2>1, <2>2
<1>6. Accounting'
  BY <1>1, <1>2, <1>3, <1>4 DEF Contents, Accounting
<1> QED
  BY <1>3, <1>4, <1>5, <1>6

LEMMA ContentsClear ==
    ASSUME Contents, Clear
    PROVE  BacklogIsNewest' /\ Accounting' /\ Len(units') = 0
<1>1. /\ Len(units) \in Nat /\ pushed \in Nat /\ popped \in Nat
      /\ dropped \in Nat /\ cleared \in Nat /\ last \in Nat
  BY DEF Contents, TypeOK
<1>2. units' = <<>> /\ Len(units') = 0 /\ cleared' = cleared + Len(units)
      /\ pushed' = pushed /\ popped' = popped /\ dropped' = dropped /\ last' = last
  BY DEF Clear
<1>3. BacklogIsNewest'
  BY <1>2 DEF BacklogIsNewest
<1>4. Accounting'
  BY <1>1, <1>2 DEF Contents, Accounting
<1> QED
  BY <1>2, <1>3, <1>4

(* The other actions touch neither the backlog nor a counter. *)
LEMMA ContentsUnchanged ==
    ASSUME Contents, UNCHANGED <<units, dropped, pushed, popped, cleared, last>>
    PROVE  BacklogIsNewest' /\ Accounting'
BY DEF Contents, BacklogIsNewest, Accounting

LEMMA StepCases ==
    ASSUME [Next]_vars
    PROVE  \/ \E p \in Producers, k \in Kinds : Push(p, k)
           \/ PopUnit
           \/ Clear
           \/ UNCHANGED <<units, dropped, pushed, popped, cleared, last>>
BY DEF Next, Produce, Consume, Own, NotifyOne, Block, SpuriousWake, PopFails,
       Leave, ClearRunning, Stop, NotifyAll, Finished, vars

THEOREM ContentsInvariant == Spec => []Contents
<1>1. Init => Contents
  <2> SUFFICES ASSUME Init PROVE BacklogIsNewest /\ Accounting
    BY InitTyped DEF Contents
  <2> QED
    BY DEF Init, BacklogIsNewest, Accounting
<1>2. Contents /\ TypeOK' /\ [Next]_vars => Contents'
  BY StepCases, ContentsPush, ContentsPop, ContentsClear, ContentsUnchanged
  DEF Contents
<1> QED
  BY <1>1, <1>2, TypeCorrect, PTL DEF Spec

(* The backlog is always the newest units pushed, without a hole               *)
(* (mediaqueue.h:36-39 and the drop loop at 54-58).                            *)
THEOREM BacklogCorrect == Spec => []BacklogIsNewest
<1>1. Contents => BacklogIsNewest
  BY DEF Contents
<1> QED
  BY <1>1, ContentsInvariant, PTL

(* dropped() and the other ways out of the queue account for every unit.       *)
THEOREM AccountingCorrect == Spec => []Accounting
<1>1. Contents => Accounting
  BY DEF Contents
<1> QED
  BY <1>1, ContentsInvariant, PTL

-----------------------------------------------------------------------------
(* A wakeup is never lost.  By itself the property is not inductive: it needs  *)
(* that m_stopped is set exactly in the phases of stop() after Stop, so that a *)
(* consumer that goes to sleep does so before the flag or not at all.          *)
StoppedPhase == stopped <=> owner \in {"notifying", "joining", "cleared"}

Wakeup == StoppedPhase /\ NoLostWakeup

LEMMA WakeupStep == Wakeup /\ TypeOK /\ [Next]_vars => Wakeup'
<1> SUFFICES ASSUME Wakeup, TypeOK, [Next]_vars PROVE StoppedPhase' /\ NoLostWakeup'
  BY DEF Wakeup
<1> USE DEF StoppedPhase, NoLostWakeup, CanReturn
<1>1. ASSUME NEW p \in Producers, NEW k \in Kinds, Push(p, k)
      PROVE  StoppedPhase' /\ NoLostWakeup'
  BY <1>1 DEF Push, AfterPush, Wakeup
<1>2. ASSUME NEW p \in Producers, NotifyOne(p) PROVE StoppedPhase' /\ NoLostWakeup'
  BY <1>2 DEF NotifyOne, WakeConsumer, Wakeup, TypeOK
<1>3. CASE Block
  BY <1>3 DEF Block, Wakeup
<1>4. CASE SpuriousWake
  BY <1>4 DEF SpuriousWake, Wakeup
<1>5. CASE PopUnit
  BY <1>5 DEF PopUnit, Wakeup
<1>6. CASE PopFails
  BY <1>6 DEF PopFails, Wakeup
<1>7. CASE Leave
  BY <1>7 DEF Leave, Wakeup
<1>8. CASE ClearRunning
  BY <1>8 DEF ClearRunning, Wakeup
<1>9. CASE Stop
  BY <1>9 DEF Stop, Wakeup
<1>10. CASE NotifyAll
  BY <1>10 DEF NotifyAll, WakeConsumer, Wakeup, TypeOK
<1>11. CASE Clear
  BY <1>11 DEF Clear, Wakeup
<1>12. CASE UNCHANGED vars
  BY <1>12 DEF vars, Wakeup
<1> QED
  BY <1>1, <1>2, <1>3, <1>4, <1>5, <1>6, <1>7, <1>8, <1>9, <1>10, <1>11, <1>12
  DEF Next, Produce, Consume, Own, Finished

(* No consumer sleeps on although pop() could return: the notification of the  *)
(* push() or stop() that enabled it is still to come (mediaqueue.h:61, 69, 84). *)
THEOREM NoWakeupLost == Spec => []NoLostWakeup
<1>1. Init => Wakeup
  BY DEF Init, Wakeup, StoppedPhase, NoLostWakeup
<1>2. Wakeup => NoLostWakeup
  BY DEF Wakeup
<1> QED
  BY <1>1, <1>2, WakeupStep, TypeCorrect, PTL DEF Spec

-----------------------------------------------------------------------------
(* Every step of the queue is a step of the drop-oldest channel or stutters.   *)
LEMMA RefinesStep == Contents /\ Contents' /\ [Next]_vars => [Abstract!Next]_Abstract!vars
<1> SUFFICES ASSUME Contents, Contents', [Next]_vars
             PROVE  [Abstract!Next]_Abstract!vars
  OBVIOUS
<1> USE QueueAssumption DEF QueueAssumption
<1> USE DEF Abstract!Next, Abstract!vars
<1>1. /\ units \in Seq(Unit) /\ Len(units) \in Nat /\ Len(units) <= Capacity
      /\ pushed \in Nat /\ dropped \in Nat
      /\ pushed - Len(units) \in Nat
  BY DEF Contents, TypeOK, Accounting
<1>2. ASSUME NEW p \in Producers, NEW k \in Kinds, Push(p, k) PROVE Abstract!Next
  <2> DEFINE kept == Shed(units)
             unit == [kind |-> k, id |-> pushed + 1]
  <2>1. /\ kept \in Seq(Unit) /\ Len(kept) \in Nat
        /\ Len(kept) = IF Len(units) = Capacity THEN Capacity - 1 ELSE Len(units)
    BY <1>1, ShedIsSuffix DEF Backlogs
  <2>2. /\ pushed < MaxPushes /\ pushed' = pushed + 1 /\ last' = last
        /\ dropped' = dropped + (Len(units) - Len(kept))
        /\ units' = Append(kept, unit)
    BY <1>2 DEF Push, ShedCount
  <2>3. unit \in Unit
    BY <1>2 DEF Push, Contents, TypeOK, Unit
  <2> HIDE DEF kept, unit
  <2>4. Len(units') = Len(kept) + 1
    BY <2>1, <2>2, <2>3
  <2>5. CASE Len(units) < Capacity
    <3>1. Len(units') = Len(units) + 1 /\ dropped' = dropped
      BY <1>1, <2>1, <2>2, <2>4, <2>5
    <3>2. /\ pushed - (pushed - Len(units)) < Capacity
          /\ pushed' - Len(units') = pushed - Len(units)
      BY <1>1, <2>2, <2>5, <3>1
    <3>3. Abstract!Send
      BY <2>2, <3>1, <3>2 DEF Abstract!Send
    <3> QED
      BY <3>3
  <2>6. CASE Len(units) = Capacity
    <3>1. Abstract!SendDisplacing
      BY <1>1, <2>1, <2>2, <2>4, <2>6 DEF Abstract!SendDisplacing
    <3> QED
      BY <3>1
  <2> QED
    BY <1>1, <2>5, <2>6
<1>3. CASE PopUnit
  <2>1. /\ Head(units).id = pushed - Len(units) + 1
        /\ Len(units') = Len(units) - 1
    BY <1>3, ContentsPop
  <2>2. /\ pushed' = pushed /\ dropped' = dropped /\ last' = Head(units).id
        /\ Len(units) > 0
    BY <1>1, <1>3 DEF PopUnit
  <2>3. Abstract!Receive
    BY <1>1, <2>1, <2>2 DEF Abstract!Receive
  <2> QED
    BY <2>3
<1>4. CASE Clear
  <2>1. Len(units') = 0 /\ pushed' = pushed /\ last' = last /\ dropped' = dropped
    BY <1>4, ContentsClear DEF Clear
  <2>2. Abstract!Discard
    BY <1>1, <2>1 DEF Abstract!Discard
  <2> QED
    BY <2>2
<1>5. CASE UNCHANGED <<units, dropped, pushed, popped, cleared, last>>
  BY <1>5
<1> QED
  BY <1>2, <1>3, <1>4, <1>5, StepCases

(* MediaQueue implements the abstract drop-oldest channel.                     *)
THEOREM QueueRefinesChannel == Spec => ImplementsLossyChannel
<1>1. Init => Abstract!Init
  <2> SUFFICES ASSUME Init PROVE Abstract!Init
    OBVIOUS
  <2>1. Len(units) = 0 /\ pushed = 0 /\ last = 0 /\ dropped = 0
    BY DEF Init
  <2> QED
    BY <2>1 DEF Abstract!Init
<1> QED
  BY <1>1, RefinesStep, ContentsInvariant, PTL
  DEF Spec, ImplementsLossyChannel, Abstract!Spec
=============================================================================
