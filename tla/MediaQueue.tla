----------------------------- MODULE MediaQueue -----------------------------
(***************************************************************************)
(* MediaQueue (core/mediaqueue.h): the bounded queue with a drop-oldest    *)
(* policy between the threads that deliver media (the video and the audio  *)
(* callback of a source) and the one worker thread of a StreamPipeline.    *)
(*                                                                         *)
(* The mutex makes each critical section one step.  What the mutex does    *)
(* not cover is modelled step by step: push() notifies the condition       *)
(* variable after it has unlocked, pop() re-checks its predicate each time *)
(* it wakes, wakes may be spurious, and stop() sets its flag in one step   *)
(* and notifies in another.                                                *)
(***************************************************************************)
EXTENDS Naturals, Sequences

CONSTANTS Producers,   \* the threads that call push()
          Kinds,       \* the unit kinds they push
          Capacity,    \* m_capacity
          MaxPushes    \* bound on the number of units ever pushed

ASSUME QueueAssumption ==
    /\ Capacity \in Nat \ {0}
    /\ MaxPushes \in Nat
    /\ Kinds # {}

VARIABLES units,       \* m_units
          dropped,     \* m_dropped
          stopped,     \* m_stopped
          notifying,   \* producers between the unlock and the notify_one of push()
          owner,       \* how far StreamPipeline::stop() has come
          consumer,    \* where the worker is: outside pop(), blocked in it, woken, gone
          pushed,      \* number of units pushed so far: also the id of the newest
          popped,      \* number of units handed out by pop()
          cleared,     \* number of units thrown away by clear()
          last         \* id of the unit handed out last, 0 before the first

vars == <<units, dropped, stopped, notifying, owner, consumer,
          pushed, popped, cleared, last>>

Unit == [kind : Kinds, id : 1 .. MaxPushes]

Init ==
    /\ units = <<>>
    /\ dropped = 0
    /\ stopped = FALSE
    /\ notifying = {}
    /\ owner = "running"
    /\ consumer = "idle"
    /\ pushed = 0
    /\ popped = 0
    /\ cleared = 0
    /\ last = 0

-----------------------------------------------------------------------------
(* push() *)

\* What the drop loop leaves of a backlog before the new unit is appended.
Shed(backlog) ==
    IF Len(backlog) >= Capacity
    THEN SubSeq(backlog, Len(backlog) - Capacity + 2, Len(backlog))
    ELSE backlog

\* How often the drop loop runs, which is what ++m_dropped counts.
ShedCount(backlog) == Len(backlog) - Len(Shed(backlog))

\* The lock is released, and notify_one is the next thing the thread does.
AfterPush(p) == notifying \cup {p}

\* The source is stopped, and its threads with it, before the queue is: no push()
\* comes after Stop below.
Push(p, k) ==
    /\ owner \in {"running", "stopping"}
    /\ pushed < MaxPushes
    /\ p \notin notifying
    /\ pushed' = pushed + 1
    /\ units' = Append(Shed(units), [kind |-> k, id |-> pushed + 1])
    /\ dropped' = dropped + ShedCount(units)
    /\ notifying' = AfterPush(p)
    /\ UNCHANGED <<stopped, owner, consumer, popped, cleared, last>>

\* notify_one and notify_all: the only waiter there can be is the consumer.
WakeConsumer ==
    consumer' = IF consumer = "blocked" THEN "woken" ELSE consumer

NotifyOne(p) ==
    /\ p \in notifying
    /\ notifying' = notifying \ {p}
    /\ WakeConsumer
    /\ UNCHANGED <<units, dropped, stopped, owner, pushed, popped, cleared, last>>

-----------------------------------------------------------------------------
(* pop(), called by the worker loop *)

\* Mutant: the predicate waits for a unit only.
CanReturnUnit == units # <<>>

\* The predicate of m_notEmpty.wait().
CanReturn == stopped \/ units # <<>>

\* The predicate is false: the lock is released and the thread sleeps.
Block ==
    /\ consumer \in {"idle", "woken"}
    /\ ~CanReturn
    /\ consumer' = "blocked"
    /\ UNCHANGED <<units, dropped, stopped, notifying, owner,
                   pushed, popped, cleared, last>>

SpuriousWake ==
    /\ consumer = "blocked"
    /\ consumer' = "woken"
    /\ UNCHANGED <<units, dropped, stopped, notifying, owner,
                   pushed, popped, cleared, last>>

\* Mutant: the newest unit is handed out first.
PopNewest ==
    /\ consumer \in {"idle", "woken"}
    /\ units # <<>>
    /\ last' = units[Len(units)].id
    /\ units' = SubSeq(units, 1, Len(units) - 1)
    /\ popped' = popped + 1
    /\ consumer' = "idle"
    /\ UNCHANGED <<dropped, stopped, notifying, owner, pushed, cleared>>

PopUnit ==
    /\ consumer \in {"idle", "woken"}
    /\ units # <<>>
    /\ last' = Head(units).id
    /\ units' = Tail(units)
    /\ popped' = popped + 1
    /\ consumer' = "idle"
    /\ UNCHANGED <<dropped, stopped, notifying, owner, pushed, cleared>>

\* Stopped and empty: pop() returns false and the worker leaves its loop.
PopFails ==
    /\ consumer \in {"idle", "woken"}
    /\ stopped
    /\ units = <<>>
    /\ consumer' = "gone"
    /\ UNCHANGED <<units, dropped, stopped, notifying, owner,
                   pushed, popped, cleared, last>>

\* The worker loop sees m_running cleared before it calls pop() again.
Leave ==
    /\ consumer = "idle"
    /\ owner # "running"
    /\ consumer' = "gone"
    /\ UNCHANGED <<units, dropped, stopped, notifying, owner,
                   pushed, popped, cleared, last>>

-----------------------------------------------------------------------------
(* StreamPipeline::stop(), as far as the queue is concerned *)

\* m_running is cleared and m_source->stop() begins.
ClearRunning ==
    /\ owner = "running"
    /\ owner' = "stopping"
    /\ UNCHANGED <<units, dropped, stopped, notifying, consumer,
                   pushed, popped, cleared, last>>

\* Mutant: stop() sets the flag and forgets to notify.
StopSilently ==
    /\ owner = "stopping"
    /\ notifying = {}
    /\ stopped' = TRUE
    /\ owner' = "joining"
    /\ UNCHANGED <<units, dropped, notifying, consumer,
                   pushed, popped, cleared, last>>

\* m_source->stop() has returned, so no callback is inside push() any more.
Stop ==
    /\ owner = "stopping"
    /\ notifying = {}
    /\ stopped' = TRUE
    /\ owner' = "notifying"
    /\ UNCHANGED <<units, dropped, notifying, consumer,
                   pushed, popped, cleared, last>>

NotifyAll ==
    /\ owner = "notifying"
    /\ owner' = "joining"
    /\ WakeConsumer
    /\ UNCHANGED <<units, dropped, stopped, notifying,
                   pushed, popped, cleared, last>>

\* clear(), reached only once the worker has been joined.
Clear ==
    /\ owner = "joining"
    /\ consumer = "gone"
    /\ cleared' = cleared + Len(units)
    /\ units' = <<>>
    /\ owner' = "cleared"
    /\ UNCHANGED <<dropped, stopped, notifying, consumer, pushed, popped, last>>

\* After stop() has returned nothing is left to do.
Finished ==
    /\ owner = "cleared"
    /\ UNCHANGED vars

-----------------------------------------------------------------------------
Produce == \E p \in Producers : NotifyOne(p) \/ \E k \in Kinds : Push(p, k)
Consume == Block \/ PopUnit \/ PopFails \/ Leave
Own     == Stop \/ NotifyAll \/ Clear

Next == Produce \/ Consume \/ SpuriousWake \/ ClearRunning \/ Own \/ Finished

\* A thread that is runnable keeps running: the notifier finishes push(), the
\* worker keeps calling pop(), and stop() goes on once it has begun.  Nobody is
\* obliged to push, to stop the stream or to wake without a reason.
Fairness ==
    /\ \A p \in Producers : WF_vars(NotifyOne(p))
    /\ WF_vars(Consume)
    /\ WF_vars(Own)

Spec == Init /\ [][Next]_vars /\ Fairness

-----------------------------------------------------------------------------
\* Every variable has its type, and the backlog never exceeds m_capacity.
TypeOK ==
    /\ units \in Seq(Unit)
    /\ Len(units) <= Capacity
    /\ dropped \in Nat
    /\ stopped \in BOOLEAN
    /\ notifying \subseteq Producers
    /\ owner \in {"running", "stopping", "notifying", "joining", "cleared"}
    /\ consumer \in {"idle", "blocked", "woken", "gone"}
    /\ pushed \in 0 .. MaxPushes
    /\ popped \in Nat
    /\ cleared \in Nat
    /\ last \in 0 .. MaxPushes

\* The backlog is always an unbroken run of the newest units: drop-oldest never
\* punches a hole into the middle and never refuses a new unit ("the queue sheds
\* the oldest units instead").
BacklogIsNewest ==
    \A i \in 1 .. Len(units) : units[i].id = pushed - Len(units) + i

\* dropped() is exact: each unit pushed was handed out, displaced, cleared or is
\* still waiting, and units are handed out at most once and in push order.
Accounting ==
    /\ pushed = popped + dropped + cleared + Len(units)
    /\ last <= pushed - Len(units)

\* No lost wakeup: a consumer asleep although pop() could return has a
\* notification on its way, from the push() or the stop() that enabled it.
NoLostWakeup ==
    consumer = "blocked" /\ CanReturn => notifying # {} \/ owner = "notifying"

\* The mutex-protected queue implements the drop-oldest channel.
Abstract == INSTANCE LossyChannel WITH
    MaxSends <- MaxPushes, sent <- pushed, head <- pushed - Len(units),
    last <- last, lost <- dropped
ImplementsLossyChannel == Abstract!Spec

\* Once stop() has set the flag the worker always leaves pop() for good, so the
\* join in StreamPipeline::stop() cannot hang on the queue.
StopReleasesWorker == stopped ~> (consumer = "gone")

=============================================================================
