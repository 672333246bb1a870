------------------------ MODULE StreamPipelineProofs ------------------------
(***************************************************************************)
(* Safety of StreamPipeline for every configuration: any sinks, any queue  *)
(* capacity, any backoff, any number of units, failures and restarts.      *)
(*                                                                         *)
(* Each invariant is inductive relative to the ones before it.  A step is  *)
(* split by the thread that takes it (GUI events, start and stop, source,  *)
(* worker) and then by the actions that can disturb the invariant.         *)
(***************************************************************************)
EXTENDS StreamPipeline, TLAPS

-----------------------------------------------------------------------------
(* Type correctness, one part of TypeOK at a time *)

(* The reconnect delay stays within its bounds: doubled and clamped, or reset. *)
LEMMA BackoffStep == BackoffTyped /\ [Next]_vars => BackoffTyped'
<1> USE PipelineAssumption DEF PipelineAssumption, BackoffTyped
<1> USE DEF vars, guiVars, sourceVars, queueVars, workerVars, gateVars, sinkVars,
   boundVars
<1> SUFFICES ASSUME BackoffTyped, [Next]_vars PROVE BackoffTyped'
  OBVIOUS
<1>1. CASE GuiEvent
  BY <1>1 DEF GuiEvent, DeliverState, OnSourceState, ScheduleReconnect, NextDelay,
     DeliverCodec, TimerFires, RestartSource
<1>2. CASE StopStep \/ StopBegins \/ Start \/ StartWithoutSinks
  BY <1>2 DEF StopStep, StopSource, JoinSource, StopQueue, StopCompletes, StopBegins,
     Start, StartWithoutSinks
<1>3. CASE SourceStep
  <2>1. CASE PeerRefused
    BY <2>1 DEF PeerRefused, OnSourceState, ScheduleReconnect, NextDelay
  <2> QED
    BY <1>3, <2>1 DEF SourceStep, RunBegins, ProgramMissing, Connects, NoticesStop,
       RunFails, RestartsInPlace, Delivers, PeerAnswers, PeerConnects, PeerLost,
       SourceFrame
<1>4. CASE WorkerStep
  BY <1>4 DEF WorkerStep, CheckRunning, PopUnit, PopFails, TakeRestart, TakeGate,
     DropAtGate, OpenGate, WriteVideo, WriteAudio, WorkerFrame, DispatchFrame
<1>5. CASE UNCHANGED vars
  BY <1>5
<1> QED
  BY <1>1, <1>2, <1>3, <1>4, <1>5 DEF Next, Terminated

(* Program counters, reported states and flags keep their types.               *)
LEMMA ControlStep == ControlTyped /\ SignalsTyped /\ [Next]_vars => ControlTyped'
<1> USE DEF ControlTyped, PipelineStates, SourceStates, GuiPcs, SourcePcs, WorkerPcs
<1> USE DEF vars, guiVars, sourceVars, queueVars, workerVars, gateVars, sinkVars,
   boundVars
<1> SUFFICES ASSUME ControlTyped, SignalsTyped, [Next]_vars PROVE ControlTyped'
  OBVIOUS
<1>1. CASE GuiEvent
  <2>1. CASE DeliverState
    <3>1. Head(signals) \in SourceStates
      BY <2>1 DEF DeliverState, SignalsTyped
    <3>2. /\ pstate' \in PipelineStates
          /\ timer' \in BOOLEAN /\ gateReset' \in BOOLEAN
      BY <2>1, <3>1 DEF DeliverState, OnSourceState, ScheduleReconnect
    <3> QED
      BY <2>1, <3>2 DEF DeliverState
  <2> QED
    BY <1>1, <2>1 DEF GuiEvent, DeliverCodec, TimerFires, RestartSource, LaunchSource
<1>2. CASE StopStep \/ StopBegins \/ Start \/ StartWithoutSinks
  BY <1>2 DEF StopStep, StopSource, JoinSource, StopQueue, StopCompletes, StopBegins,
     Start, StartWithoutSinks, LaunchSource
<1>3. CASE SourceStep
  <2>1. CASE RunBegins \/ ProgramMissing \/ Connects
    BY <2>1 DEF RunBegins, ProgramMissing, Connects, SourceFrame, SetState, Announces
  <2>2. CASE NoticesStop \/ RunFails \/ RestartsInPlace \/ Delivers
    BY <2>2 DEF NoticesStop, RunFails, RestartsInPlace, Delivers, SourceFrame, SetState
  <2>3. CASE PeerAnswers \/ PeerRefused \/ PeerConnects \/ PeerLost
    BY <2>3 DEF PeerAnswers, PeerRefused, PeerConnects, PeerLost, SourceFrame,
       OnSourceState, ScheduleReconnect, SetState
  <2> QED
    BY <1>3, <2>1, <2>2, <2>3 DEF SourceStep
<1>4. CASE WorkerStep
  BY <1>4 DEF WorkerStep, CheckRunning, PopUnit, PopFails, TakeRestart, TakeGate,
     DropAtGate, OpenGate, WriteVideo, WriteAudio, WorkerFrame, DispatchFrame
<1>5. CASE UNCHANGED vars
  BY <1>5
<1> QED
  BY <1>1, <1>2, <1>3, <1>4, <1>5 DEF Next, Terminated

(* Only source states and the codec signal are queued to the GUI thread.       *)
LEMMA SignalsStep == ControlTyped /\ SignalsTyped /\ [Next]_vars => SignalsTyped'
<1> USE DEF SignalsTyped
<1> USE DEF vars, guiVars, sourceVars, queueVars, workerVars, gateVars, sinkVars,
   boundVars
<1> SUFFICES ASSUME ControlTyped, SignalsTyped, [Next]_vars PROVE SignalsTyped'
  OBVIOUS
<1>1. CASE GuiEvent
  <2>1. signals # <<>> => Tail(signals) \in Seq(SourceStates \cup {"codec"})
    OBVIOUS
  <2> QED
    BY <1>1, <2>1 DEF GuiEvent, DeliverState, DeliverCodec, TimerFires, RestartSource
<1>2. CASE StopStep \/ StopBegins \/ Start \/ StartWithoutSinks
  BY <1>2 DEF StopStep, StopSource, JoinSource, StopQueue, StopCompletes, StopBegins,
     Start, StartWithoutSinks
<1>3. CASE SourceStep
  <2>1. ASSUME NEW s \in SourceStates, SetState(s) PROVE SignalsTyped'
    BY <2>1 DEF SetState
  <2>2. CASE Connects
    <3>1. /\ signals \o <<"codec">> \in Seq(SourceStates \cup {"codec"})
          /\ signals \o <<"codec", "Running">> \in Seq(SourceStates \cup {"codec"})
      BY DEF SourceStates
    <3> QED
      BY <2>2, <3>1 DEF Connects
  <2> QED
    BY <1>3, <2>1, <2>2 DEF SourceStep, RunBegins, ProgramMissing, NoticesStop,
       RunFails, RestartsInPlace, Delivers, PeerAnswers, PeerRefused, PeerConnects,
       PeerLost, SourceFrame, SourceStates
<1>4. CASE WorkerStep
  BY <1>4 DEF WorkerStep, CheckRunning, PopUnit, PopFails, TakeRestart, TakeGate,
     DropAtGate, OpenGate, WriteVideo, WriteAudio, WorkerFrame, DispatchFrame
<1>5. CASE UNCHANGED vars
  BY <1>5
<1> QED
  BY <1>1, <1>2, <1>3, <1>4, <1>5 DEF Next, Terminated

(* The bounds on deliveries and disruptions are respected.                     *)
LEMMA CountersStep == CountersTyped /\ [Next]_vars => CountersTyped'
<1> USE PipelineAssumption DEF PipelineAssumption, CountersTyped
<1> USE DEF vars, guiVars, sourceVars, queueVars, workerVars, gateVars, sinkVars,
   boundVars
<1> SUFFICES ASSUME CountersTyped, [Next]_vars PROVE CountersTyped'
  OBVIOUS
<1>1. CASE GuiEvent
  BY <1>1 DEF GuiEvent, DeliverState, OnSourceState, ScheduleReconnect, DeliverCodec,
     TimerFires, RestartSource
<1>2. CASE StopStep \/ StopBegins \/ Start \/ StartWithoutSinks
  BY <1>2 DEF StopStep, StopSource, JoinSource, StopQueue, StopCompletes, StopBegins,
     Start, StartWithoutSinks
<1>3. CASE SourceStep
  <2>1. CASE PeerRefused
    BY <2>1 DEF PeerRefused, OnSourceState, ScheduleReconnect, Disrupt
  <2>2. CASE PeerAnswers \/ PeerConnects \/ PeerLost
    BY <2>2 DEF PeerAnswers, PeerConnects, PeerLost, Disrupt
  <2>3. CASE RunBegins \/ Connects
    <3>1. Announces => era' \in Nat
      BY DEF Announces
    <3> QED
      BY <2>3, <3>1 DEF RunBegins, Connects
  <2> QED
    BY <1>3, <2>1, <2>2, <2>3 DEF SourceStep, ProgramMissing, NoticesStop, RunFails,
       RestartsInPlace, Delivers, Disrupt
<1>4. CASE WorkerStep
  BY <1>4 DEF WorkerStep, CheckRunning, PopUnit, PopFails, TakeRestart, TakeGate,
     DropAtGate, OpenGate, WriteVideo, WriteAudio, WorkerFrame, DispatchFrame
<1>5. CASE UNCHANGED vars
  BY <1>5
<1> QED
  BY <1>1, <1>2, <1>3, <1>4, <1>5 DEF Next, Terminated

(* The backlog stays within the capacity of the queue.                         *)
LEMMA BacklogStep == BacklogTyped /\ CountersTyped /\ [Next]_vars => BacklogTyped'
<1> USE PipelineAssumption DEF PipelineAssumption
<1> USE DEF vars, guiVars, sourceVars, queueVars, workerVars, gateVars, sinkVars,
   boundVars
<1> SUFFICES ASSUME BacklogTyped, CountersTyped, [Next]_vars PROVE BacklogTyped'
  OBVIOUS
<1>1. CASE GuiEvent
  BY <1>1 DEF BacklogTyped, GuiEvent, DeliverState, DeliverCodec, TimerFires,
     RestartSource
<1>2. CASE StopStep \/ StopBegins \/ Start \/ StartWithoutSinks
  <2>1. <<>> \in Seq(Unit) /\ Len(<<>>) <= Capacity
    OBVIOUS
  <2> QED
    BY <1>2, <2>1 DEF BacklogTyped, StopStep, StopSource, JoinSource, StopQueue,
       StopCompletes, StopBegins, Start, StartWithoutSinks
<1>3. CASE SourceStep
  <2>1. CASE Delivers
    <3>1. PICK k \in UnitKinds :
            queue' = Append(IF Len(queue) >= Capacity THEN Tail(queue) ELSE queue,
                            [kind |-> k, era |-> era])
      BY <2>1 DEF Delivers
    <3>2. [kind |-> k, era |-> era] \in Unit
      BY DEF Unit, CountersTyped
    <3>3. queue \in Seq(Unit) /\ Len(queue) \in Nat /\ Len(queue) <= Capacity
      BY DEF BacklogTyped
    <3>4. CASE Len(queue) >= Capacity
      <4>1. Tail(queue) \in Seq(Unit) /\ Len(Tail(queue)) = Len(queue) - 1
        BY <3>3, <3>4
      <4> QED
        BY <2>1, <3>1, <3>2, <3>3, <3>4, <4>1 DEF Delivers, SourceFrame, BacklogTyped
    <3>5. CASE Len(queue) < Capacity
      BY <2>1, <3>1, <3>2, <3>3, <3>5 DEF Delivers, SourceFrame, BacklogTyped
    <3> QED
      BY <3>3, <3>4, <3>5
  <2> QED
    BY <1>3, <2>1 DEF BacklogTyped, SourceStep, RunBegins, ProgramMissing, Connects,
       NoticesStop, RunFails, RestartsInPlace, PeerAnswers, PeerRefused,
       PeerConnects, PeerLost, SourceFrame
<1>4. CASE WorkerStep
  <2>1. CASE PopUnit
    BY <2>1 DEF PopUnit, BacklogTyped
  <2> QED
    BY <1>4, <2>1 DEF BacklogTyped, WorkerStep, CheckRunning, PopFails, TakeRestart,
       TakeGate, DropAtGate, OpenGate, WriteVideo, WriteAudio, WorkerFrame,
       DispatchFrame
<1>5. CASE UNCHANGED vars
  BY <1>5 DEF BacklogTyped
<1> QED
  BY <1>1, <1>2, <1>3, <1>4, <1>5 DEF Next, Terminated

(* Before start() nothing exists that could run: no thread, no signal, no sink. *)
(* Needed because start() replaces m_sinks without looking at what is open.    *)
Untouched ==
    gui = "created" =>
        /\ ~running /\ ~timer
        /\ signals = <<>> /\ queue = <<>>
        /\ srcPc = "none" /\ worker = "none"
        /\ sinks = {} /\ open = {}

(* Only start() leaves the created state.                                      *)
LEMMA UntouchedStep == Untouched /\ [Next]_vars => Untouched'
<1> USE DEF Untouched
<1> USE DEF vars, guiVars, sourceVars, queueVars, workerVars, gateVars, sinkVars,
   boundVars
<1> SUFFICES ASSUME Untouched, [Next]_vars PROVE Untouched'
  OBVIOUS
<1>1. CASE GuiEvent
  BY <1>1 DEF GuiEvent, EventLoop, DeliverState, DeliverCodec, TimerFires,
     RestartSource
<1>2. CASE StopStep \/ StopBegins \/ Start \/ StartWithoutSinks
  BY <1>2 DEF StopStep, StopSource, JoinSource, StopQueue, StopCompletes, StopBegins,
     Start, StartWithoutSinks
<1>3. CASE SourceStep
  BY <1>3 DEF SourceStep, RunBegins, ProgramMissing, Connects, NoticesStop, RunFails,
     RestartsInPlace, Delivers, PeerAnswers, PeerRefused, PeerConnects, PeerLost,
     SourceFrame
<1>4. CASE WorkerStep
  BY <1>4 DEF WorkerStep, CheckRunning, PopUnit, PopFails, TakeRestart, TakeGate,
     DropAtGate, OpenGate, WriteVideo, WriteAudio, WorkerFrame, DispatchFrame
<1>5. CASE UNCHANGED vars
  BY <1>5
<1> QED
  BY <1>1, <1>2, <1>3, <1>4, <1>5 DEF Next, Terminated

(* Only configured sinks are open, and what is recorded of a session is typed. *)
LEMMA SinksStep == TypeOK /\ Untouched /\ [Next]_vars => SinksTyped'
<1> USE DEF vars, guiVars, sourceVars, queueVars, workerVars, gateVars, sinkVars,
   boundVars
<1> SUFFICES ASSUME TypeOK, Untouched, [Next]_vars PROVE SinksTyped'
  OBVIOUS
<1> USE DEF TypeOK, SinksTyped
<1>1. CASE GuiEvent
  BY <1>1 DEF GuiEvent, DeliverState, OnSourceState, ScheduleReconnect, DeliverCodec,
     TimerFires, RestartSource
<1>2. CASE StopStep \/ StopBegins \/ Start \/ StartWithoutSinks
  <2>1. NoSession \in Session
    BY DEF NoSession, Session
  <2>2. CASE Start
    BY <2>2 DEF Start, Untouched
  <2> QED
    BY <1>2, <2>1, <2>2 DEF StopStep, StopSource, JoinSource, StopQueue,
       StopCompletes, StopBegins, StartWithoutSinks
<1>3. CASE SourceStep
  BY <1>3 DEF SourceStep, RunBegins, ProgramMissing, Connects, NoticesStop, RunFails,
     RestartsInPlace, Delivers, PeerAnswers, PeerRefused, PeerConnects, PeerLost,
     SourceFrame, OnSourceState, ScheduleReconnect
<1>4. CASE WorkerStep
  <2>1. NoSession \in Session
    BY DEF NoSession, Session
  <2>2. unit.era \in Nat /\ unit.kind \in UnitKinds \cup {"none"}
    BY DEF BacklogTyped, Unit, NoUnit
  <2>3. CachedWith(unit) \subseteq Nat /\ CarriedParams(unit) \subseteq Nat
    BY <2>2 DEF CachedWith, CarriedParams
  <2>4. Write(unit, session) \in Session
    BY <2>2 DEF Write, Session
  <2>5. OpenedBy(unit) \in Session
    BY <2>2, <2>3 DEF OpenedBy, Session, CountersTyped
  <2>6. CASE DropAtGate \/ WriteVideo \/ WriteAudio
    BY <2>3, <2>4, <2>6 DEF DropAtGate, WriteVideo, WriteAudio, DispatchFrame,
       WorkerFrame
  <2>7. CASE OpenGate
    BY <2>1, <2>3, <2>5, <2>7 DEF OpenGate, OpenResults, DispatchFrame, WorkerFrame
  <2> QED
    BY <1>4, <2>1, <2>6, <2>7 DEF WorkerStep, CheckRunning, PopUnit, PopFails,
       TakeRestart, TakeGate, WorkerFrame
<1>5. CASE UNCHANGED vars
  BY <1>5
<1> QED
  BY <1>1, <1>2, <1>3, <1>4, <1>5 DEF Next, Terminated

(* The pipeline is created in a typed state.                                   *)
LEMMA InitTyped == Init => TypeOK /\ Untouched
<1> USE PipelineAssumption DEF PipelineAssumption
<1> SUFFICES ASSUME Init PROVE TypeOK /\ Untouched
  OBVIOUS
<1>1. ControlTyped
  BY DEF Init, ControlTyped, GuiPcs, SourcePcs, WorkerPcs, PipelineStates,
     SourceStates
<1>2. SignalsTyped /\ BackoffTyped /\ CountersTyped
  BY DEF Init, SignalsTyped, BackoffTyped, CountersTyped
<1>3. BacklogTyped
  BY DEF Init, BacklogTyped
<1>4. SinksTyped
  BY DEF Init, SinksTyped, NoSession, Session
<1>5. Untouched
  BY DEF Init, Untouched
<1> QED
  BY <1>1, <1>2, <1>3, <1>4, <1>5 DEF TypeOK

(* A step keeps the types.                                                     *)
LEMMA TypedStep == TypeOK /\ Untouched /\ [Next]_vars => (TypeOK /\ Untouched)'
BY BackoffStep, ControlStep, SignalsStep, CountersStep, BacklogStep, SinksStep,
   UntouchedStep DEF TypeOK

(* Every reachable state is typed; in particular the backlog and the backoff are *)
(* bounded (streampipeline.cpp:253-270, mediaqueue.h:49-63).                   *)
THEOREM TypeCorrect == Spec => []TypeOK
<1>1. Spec => [](TypeOK /\ Untouched)
  BY InitTyped, TypedStep, PTL DEF Spec
<1> QED
  BY <1>1, PTL

(* Nothing runs before start() (streampipeline.cpp:143-251).                   *)
THEOREM UntouchedBeforeStart == Spec => []Untouched
<1>1. Spec => [](TypeOK /\ Untouched)
  BY InitTyped, TypedStep, PTL DEF Spec
<1> QED
  BY <1>1, PTL

-----------------------------------------------------------------------------
(* The sinks are opened, written and closed by the worker alone, or by stop()  *)
(* after the worker was joined (streampipeline.cpp:259-264, 272-310, 485-505). *)
THEOREM SinksBelongToWorker == Spec => WorkerOwnsSinks
<1> USE DEF vars, guiVars, sourceVars, queueVars, workerVars, gateVars, sinkVars,
   boundVars
<1> DEFINE Owned == <<open, session>>' # <<open, session>> =>
                        \/ worker \in {"takeGate", "dispatch"} /\ worker' # worker
                        \/ worker = "exited"
<1>1. [Next]_vars => [Owned]_vars
  <2> SUFFICES ASSUME [Next]_vars PROVE Owned
    OBVIOUS
  <2>1. CASE GuiEvent
    BY <2>1 DEF GuiEvent, DeliverState, OnSourceState, ScheduleReconnect,
       DeliverCodec, TimerFires, RestartSource, EventLoop
  <2>2. CASE StopStep \/ StopBegins \/ Start \/ StartWithoutSinks
    BY <2>2 DEF StopStep, StopSource, JoinSource, StopQueue, StopCompletes,
       StopBegins, Start, StartWithoutSinks
  <2>3. CASE SourceStep
    BY <2>3 DEF SourceStep, RunBegins, ProgramMissing, Connects, NoticesStop,
       RunFails, RestartsInPlace, Delivers, PeerAnswers, PeerRefused, PeerConnects,
       PeerLost, SourceFrame, OnSourceState, ScheduleReconnect
  <2>4. CASE WorkerStep
    BY <2>4 DEF WorkerStep, CheckRunning, PopUnit, PopFails, TakeRestart, TakeGate,
       DropAtGate, OpenGate, WriteVideo, WriteAudio, WorkerFrame, DispatchFrame
  <2>5. CASE UNCHANGED vars
    BY <2>5
  <2> QED
    BY <2>1, <2>2, <2>3, <2>4, <2>5 DEF Next, Terminated
<1> QED
  BY <1>1, PTL DEF Spec, WorkerOwnsSinks

-----------------------------------------------------------------------------
(* Nothing is recorded as written while no sink is open.                       *)
ClosedIsEmpty == open = {} => session = NoSession

(* SessionOpensDecodable is inductive together with ClosedIsEmpty.             *)
Decodable == ClosedIsEmpty /\ SessionOpensDecodable

(* Only OpenGate begins a session, and it needs a keyframe and parameter sets. *)
LEMMA DecodableStep == TypeOK /\ Decodable /\ [Next]_vars => Decodable'
<1> USE DEF Decodable, ClosedIsEmpty, SessionOpensDecodable
<1> USE DEF vars, guiVars, sourceVars, queueVars, workerVars, gateVars, sinkVars,
   boundVars
<1> SUFFICES ASSUME TypeOK, Decodable, [Next]_vars PROVE Decodable'
  OBVIOUS
<1>1. CASE GuiEvent
  BY <1>1 DEF GuiEvent, DeliverState, OnSourceState, ScheduleReconnect, DeliverCodec,
     TimerFires, RestartSource, EventLoop
<1>2. CASE StopStep \/ StopBegins \/ Start \/ StartWithoutSinks
  BY <1>2 DEF StopStep, StopSource, JoinSource, StopQueue, StopCompletes, StopBegins,
     Start, StartWithoutSinks
<1>3. CASE SourceStep
  BY <1>3 DEF SourceStep, RunBegins, ProgramMissing, Connects, NoticesStop, RunFails,
     RestartsInPlace, Delivers, PeerAnswers, PeerRefused, PeerConnects, PeerLost,
     SourceFrame, OnSourceState, ScheduleReconnect
<1>4. CASE WorkerStep
  <2>1. CASE OpenGate
    <3>1. unit.kind \in {"key", "keyWithParams"} /\ CarriedParams(unit) # {}
      BY <2>1 DEF OpenGate, OpensGate, IsKey, CarriedParams
    <3> QED
      BY <2>1, <3>1 DEF OpenGate, OpenedBy
  <2>2. CASE WriteVideo \/ WriteAudio
    <3>1. /\ Write(unit, session).first = session.first
          /\ Write(unit, session).params = session.params
      BY DEF Write, TypeOK, SinksTyped, Session
    <3> QED
      BY <2>2, <3>1 DEF WriteVideo, WriteAudio
  <2> QED
    BY <1>4, <2>1, <2>2 DEF WorkerStep, CheckRunning, PopUnit, PopFails, TakeRestart,
       TakeGate, DropAtGate
<1>5. CASE UNCHANGED vars
  BY <1>5
<1> QED
  BY <1>1, <1>2, <1>3, <1>4, <1>5 DEF Next, Terminated

(* What a receiver gets first is a keyframe with parameter sets in it or in front *)
(* of it, whatever was shed, dropped or restarted before (handleVideoUnit,     *)
(* streampipeline.cpp:392-420).                                                *)
THEOREM SessionsDecodable == Spec => []SessionOpensDecodable
<1>1. Init => Decodable
  BY DEF Init, Decodable, ClosedIsEmpty, SessionOpensDecodable
<1>2. Decodable => SessionOpensDecodable
  BY DEF Decodable
<1> QED
  BY <1>1, <1>2, DecodableStep, TypeCorrect, PTL DEF Spec

-----------------------------------------------------------------------------
(* No unit is ahead of the restarts announced when it was pushed.              *)
ErasBehind ==
    /\ \A j \in 1 .. Len(queue) : queue[j].era <= era
    /\ unit.era <= era

(* A restart was announced that the worker has not acted upon.                 *)
ResetPending == gateReset \/ fresh \/ restarted

(* Why a session never outlives a restart: an open session is as old as the last *)
(* announced restart unless a reset is pending; and a unit for which the flags *)
(* were read as clear was pushed before any restart they do not show yet.      *)
SessionCurrent ==
    /\ restarted => worker = "takeGate"
    /\ open # {} /\ ~ResetPending => session.openEra = era
    /\ open # {} /\ worker = "takeGate" /\ ~restarted /\ ~gateReset
           => unit.era <= session.openEra
    /\ open # {} /\ worker = "dispatch" => unit.era <= session.openEra

(* NoSessionOutlivesReset is inductive together with these.                    *)
Resets == ClosedIsEmpty /\ ErasBehind /\ SessionCurrent /\ NoSessionOutlivesReset

(* A unit is stamped with the current era, and eras only grow.                 *)
LEMMA ErasBehindStep == TypeOK /\ ErasBehind /\ [Next]_vars => ErasBehind'
<1> USE DEF vars, guiVars, sourceVars, queueVars, workerVars, gateVars, sinkVars,
   boundVars
<1> SUFFICES ASSUME TypeOK, ErasBehind, [Next]_vars PROVE ErasBehind'
  OBVIOUS
<1>a. /\ queue \in Seq(Unit) /\ Len(queue) \in Nat
      /\ \A j \in 1 .. Len(queue) : queue[j].era \in Nat
      /\ unit.era \in Nat /\ era \in Nat
  <2>1. queue \in Seq(Unit) /\ unit \in Unit \cup {NoUnit} /\ era \in Nat
    BY DEF TypeOK, BacklogTyped, CountersTyped
  <2>2. NoUnit.era \in Nat /\ \A u \in Unit : u.era \in Nat
    BY DEF Unit, NoUnit
  <2> QED
    BY <2>1, <2>2
<1>b. ASSUME era' = era \/ era' = era + 1, UNCHANGED <<queue, unit>> PROVE ErasBehind'
  BY <1>a, <1>b DEF ErasBehind
<1>1. CASE GuiEvent
  BY <1>1, <1>b DEF GuiEvent, DeliverState, OnSourceState, ScheduleReconnect,
     DeliverCodec, TimerFires, RestartSource, EventLoop
<1>2. CASE StopStep \/ StopBegins \/ Start \/ StartWithoutSinks
  <2>1. CASE StopCompletes
    BY <2>1, <1>a DEF StopCompletes, ErasBehind
  <2> QED
    BY <1>2, <2>1, <1>b DEF StopStep, StopSource, JoinSource, StopQueue, StopBegins,
       Start, StartWithoutSinks
<1>3. CASE SourceStep
  <2>1. CASE Delivers
    <3>1. PICK k \in UnitKinds :
            queue' = Append(IF Len(queue) >= Capacity THEN Tail(queue) ELSE queue,
                            [kind |-> k, era |-> era])
      BY <2>1 DEF Delivers
    <3>2. era' = era /\ unit' = unit
      BY <2>1 DEF Delivers, SourceFrame
    <3>3. CASE queue # <<>> /\ Len(queue) >= Capacity
      <4>1. /\ Tail(queue) \in Seq(Unit) /\ Len(Tail(queue)) = Len(queue) - 1
            /\ \A j \in 1 .. Len(Tail(queue)) : Tail(queue)[j] = queue[j + 1]
        BY <1>a, <3>3
      <4>2. /\ Len(queue') = Len(queue)
            /\ \A j \in 1 .. Len(queue) - 1 : queue'[j] = queue[j + 1]
            /\ queue'[Len(queue)].era = era
        BY <1>a, <3>1, <3>3, <4>1
      <4> QED
        BY <1>a, <3>2, <4>2 DEF ErasBehind
    <3>4. CASE Len(queue) < Capacity
      <4>1. /\ Len(queue') = Len(queue) + 1
            /\ \A j \in 1 .. Len(queue) : queue'[j] = queue[j]
            /\ queue'[Len(queue) + 1].era = era
        BY <1>a, <3>1, <3>4, PipelineAssumption DEF PipelineAssumption
      <4> QED
        BY <1>a, <3>2, <4>1 DEF ErasBehind
    <3>5. Len(queue) >= Capacity => queue # <<>>
      BY <1>a, PipelineAssumption DEF PipelineAssumption
    <3> QED
      BY <1>a, <3>3, <3>4, <3>5, PipelineAssumption DEF PipelineAssumption
  <2>2. CASE RunBegins \/ Connects \/ PeerRefused
    BY <2>2, <1>b DEF RunBegins, Connects, PeerRefused, Announces, OnSourceState,
       ScheduleReconnect, SourceFrame
  <2> QED
    BY <1>3, <2>1, <2>2, <1>b DEF SourceStep, ProgramMissing, NoticesStop, RunFails,
       RestartsInPlace, PeerAnswers, PeerConnects, PeerLost, SourceFrame
<1>4. CASE WorkerStep
  <2>1. CASE PopUnit
    <3>1. /\ Head(queue) = queue[1]
          /\ Len(Tail(queue)) = Len(queue) - 1
          /\ \A j \in 1 .. Len(Tail(queue)) : Tail(queue)[j] = queue[j + 1]
          /\ Len(queue) >= 1
      BY <1>a, <2>1 DEF PopUnit
    <3> QED
      BY <1>a, <2>1, <3>1 DEF PopUnit, WorkerFrame, ErasBehind
  <2>2. CASE DropAtGate \/ OpenGate \/ WriteVideo \/ WriteAudio
    <3>1. unit' = NoUnit /\ UNCHANGED <<queue, era>>
      BY <2>2 DEF DropAtGate, OpenGate, WriteVideo, WriteAudio, DispatchFrame,
         WorkerFrame
    <3> QED
      BY <1>a, <3>1 DEF ErasBehind, NoUnit
  <2> QED
    BY <1>4, <2>1, <2>2, <1>b DEF WorkerStep, CheckRunning, PopFails, TakeRestart,
       TakeGate, WorkerFrame
<1>5. CASE UNCHANGED vars
  BY <1>5, <1>b
<1> QED
  BY <1>1, <1>2, <1>3, <1>4, <1>5 DEF Next, Terminated

(* The worker reads both flags after the pop and before the dispatch, so a restart *)
(* announced before the push is never missed.                                  *)
LEMMA SessionCurrentStep ==
    TypeOK /\ Untouched /\ Resets /\ [Next]_vars
        => (SessionCurrent /\ NoSessionOutlivesReset)'
<1> USE DEF vars, guiVars, sourceVars, queueVars, workerVars, gateVars, sinkVars,
   boundVars
<1> SUFFICES ASSUME TypeOK, Untouched, Resets, [Next]_vars
             PROVE  (SessionCurrent /\ NoSessionOutlivesReset)'
  OBVIOUS
<1> USE DEF SessionCurrent, NoSessionOutlivesReset, ResetPending
<1>a. SessionCurrent /\ NoSessionOutlivesReset /\ ClosedIsEmpty /\ unit.era <= era
  BY DEF Resets, ErasBehind
<1>b. /\ session.openEra \in Nat /\ session.eras \subseteq Nat
      /\ unit.era \in Nat /\ era \in Nat
  BY DEF TypeOK, SinksTyped, Session, BacklogTyped, Unit, NoUnit, CountersTyped
<1>c. NoSession.eras = {}
  BY DEF NoSession
<1>1. CASE GuiEvent
  BY <1>a, <1>1 DEF GuiEvent, DeliverState, OnSourceState, ScheduleReconnect,
     DeliverCodec, TimerFires, RestartSource, EventLoop
<1>2. CASE StopStep \/ StopBegins \/ Start \/ StartWithoutSinks
  BY <1>a, <1>c, <1>2 DEF Untouched, StopStep, StopSource, JoinSource, StopQueue,
     StopCompletes, StopBegins, Start, StartWithoutSinks
<1>3. CASE SourceStep
  <2>1. CASE PeerRefused
    BY <1>a, <2>1 DEF PeerRefused, OnSourceState, ScheduleReconnect
  <2>2. CASE RunBegins \/ Connects \/ RestartsInPlace
    <3>1. UNCHANGED <<worker, unit, restarted, gateReset, open, session>>
      BY <2>2 DEF RunBegins, Connects, RestartsInPlace, SourceFrame
    <3>2. fresh' \/ (era' = era /\ (fresh' <=> fresh))
      BY <2>2 DEF RunBegins, Connects, RestartsInPlace, Announces
    <3> QED
      BY <1>a, <3>1, <3>2
  <2> QED
    BY <1>a, <1>3, <2>1, <2>2 DEF SourceStep, ProgramMissing, NoticesStop, RunFails,
       Delivers, PeerAnswers, PeerConnects, PeerLost, SourceFrame
<1>4. CASE WorkerStep
  <2>1. CASE PopUnit \/ PopFails \/ CheckRunning
    BY <1>a, <2>1 DEF PopUnit, PopFails, CheckRunning, WorkerFrame
  <2>2. CASE TakeRestart
    BY <1>a, <1>b, <2>2 DEF TakeRestart, WorkerFrame
  <2>3. CASE TakeGate
    BY <1>a, <1>c, <2>3 DEF TakeGate, MustReset, WorkerFrame
  <2>4. CASE DropAtGate
    BY <1>a, <2>4 DEF DropAtGate, DispatchFrame, WorkerFrame
  <2>5. CASE OpenGate
    <3>1. OpenedBy(unit).openEra = era /\ OpenedBy(unit).eras = {unit.era}
      BY DEF OpenedBy
    <3> QED
      BY <1>a, <1>b, <1>c, <2>5, <3>1 DEF OpenGate, DispatchFrame, WorkerFrame
  <2>6. CASE WriteVideo \/ WriteAudio
    <3>1. /\ Write(unit, session).openEra = session.openEra
          /\ Write(unit, session).eras = session.eras \cup {unit.era}
      BY DEF Write, TypeOK, SinksTyped, Session
    <3> QED
      BY <1>a, <1>b, <2>6, <3>1 DEF WriteVideo, WriteAudio, DispatchFrame, WorkerFrame
  <2> QED
    BY <1>4, <2>1, <2>2, <2>3, <2>4, <2>5, <2>6 DEF WorkerStep
<1>5. CASE UNCHANGED vars
  BY <1>a, <1>5
<1> QED
  BY <1>1, <1>2, <1>3, <1>4, <1>5 DEF Next, Terminated

(* No unit pushed after an announced restart reaches a session opened before it *)
(* (takeGenerationRestartPending and m_pendingGateReset, streampipeline.cpp:485-505). *)
THEOREM SessionsEndAtRestart == Spec => []NoSessionOutlivesReset
<1> DEFINE Inv == Decodable /\ Resets
<1>1. Init => Inv
  BY DEF Init, Decodable, Resets, ErasBehind, SessionCurrent, NoSessionOutlivesReset,
     ClosedIsEmpty, SessionOpensDecodable, NoSession, NoUnit
<1>2. TypeOK /\ Untouched /\ Inv /\ [Next]_vars => Inv'
  BY DecodableStep, ErasBehindStep, SessionCurrentStep DEF Resets, Decodable
<1>3. Inv => NoSessionOutlivesReset
  BY DEF Resets
<1> QED
  BY <1>1, <1>2, <1>3, TypeCorrect, UntouchedBeforeStart, PTL DEF Spec

-----------------------------------------------------------------------------
(* stop() has cleared m_running.                                               *)
Stopping == gui \in {"stopSource", "joinSource", "stopQueue", "joinWorker", "stopped"}

(* A report of failure is on its way to the GUI thread.                        *)
FailedQueued == \E j \in 1 .. Len(signals) : signals[j] = "Failed"

(* StoppedIsQuiet rests on the order of stop(): the flag and the timer first, then *)
(* the source, and only then the worker.                                       *)
StopOrder ==
    /\ Stopping => ~running
    /\ timer => gui = "loop"
    /\ gui \in {"stopQueue", "joinWorker"} => srcPc \in {"none", "ended"}
    /\ StoppedIsQuiet

(* A stopped pipeline cannot be woken: each event needs m_running, a source or a *)
(* worker.                                                                     *)
LEMMA StopOrderStep == TypeOK /\ StopOrder /\ [Next]_vars => StopOrder'
<1> USE DEF vars, guiVars, sourceVars, queueVars, workerVars, gateVars, sinkVars,
   boundVars
<1> USE DEF StopOrder, Stopping, StoppedIsQuiet
<1> SUFFICES ASSUME TypeOK, StopOrder, [Next]_vars PROVE StopOrder'
  OBVIOUS
<1>1. CASE GuiEvent
  BY <1>1 DEF GuiEvent, DeliverState, OnSourceState, ScheduleReconnect, DeliverCodec,
     TimerFires, RestartSource, EventLoop, ReconnectWanted
<1>2. CASE StopStep \/ StopBegins \/ Start \/ StartWithoutSinks
  BY <1>2 DEF StopStep, StopSource, JoinSource, StopQueue, StopCompletes, StopBegins,
     Start, StartWithoutSinks
<1>3. CASE SourceStep
  <2>1. CASE Delivers
    BY <2>1 DEF Delivers, SourceFrame
  <2>2. CASE PeerRefused
    BY <2>2 DEF PeerRefused
  <2>3. CASE PeerAnswers \/ PeerConnects \/ PeerLost
    BY <2>3 DEF PeerAnswers, PeerConnects, PeerLost, SourceFrame
  <2>4. ASSUME ~Delivers, ~PeerRefused, ~PeerAnswers, ~PeerConnects, ~PeerLost
        PROVE  StopOrder'
    <3>1. srcPc \notin {"none", "ended"}
      BY <1>3, <2>4 DEF SourceStep, RunBegins, ProgramMissing, Connects, NoticesStop,
         RunFails, RestartsInPlace
    <3>2. UNCHANGED <<gui, running, timer, worker, queue, open>>
      BY <1>3, <2>4 DEF SourceStep, RunBegins, ProgramMissing, Connects, NoticesStop,
         RunFails, RestartsInPlace, SourceFrame
    <3> QED
      BY <3>1, <3>2
  <2> QED
    BY <2>1, <2>2, <2>3, <2>4
<1>4. CASE WorkerStep
  <2>1. worker # "exited"
    BY <1>4 DEF WorkerStep, CheckRunning, PopUnit, PopFails, TakeRestart, TakeGate,
       DropAtGate, OpenGate, WriteVideo, WriteAudio
  <2>2. UNCHANGED <<gui, running, timer, srcPc>>
    BY <1>4 DEF WorkerStep, CheckRunning, PopUnit, PopFails, TakeRestart, TakeGate,
       DropAtGate, OpenGate, WriteVideo, WriteAudio, WorkerFrame, DispatchFrame
  <2> QED
    BY <2>1, <2>2
<1>5. CASE UNCHANGED vars
  BY <1>5
<1> QED
  BY <1>1, <1>2, <1>3, <1>4, <1>5 DEF Next, Terminated

(* After stop() nothing is pending, running, open or queued, although signals may *)
(* still be delivered (streampipeline.cpp:253-256, 272-310).                   *)
THEOREM QuietAfterStop == Spec => []StoppedIsQuiet
<1>1. Init => StopOrder
  BY DEF Init, StopOrder, Stopping, StoppedIsQuiet
<1>2. StopOrder => StoppedIsQuiet
  BY DEF StopOrder
<1> QED
  BY <1>1, <1>2, StopOrderStep, TypeCorrect, PTL DEF Spec

-----------------------------------------------------------------------------
(* A source with a thread reports a failure once, as the last act of a run, and the *)
(* timer is armed by that report only: a report, an armed timer and a restart  *)
(* exclude one another, and each means that the thread has returned.           *)
OneFailure ==
    Threaded =>
        /\ running => srcPc # "none"
        /\ timer \/ gui = "restart" => srcPc = "ended"
        /\ FailedQueued => /\ ~timer /\ gui # "restart"
                           /\ srcPc \in {"none", "ended"}
        /\ \A j \in 1 .. Len(signals) : signals[j] = "Failed" => j = Len(signals)

(* Reporting another state does not put a failure into the queue.              *)
LEMMA NoFailureAppended ==
    ASSUME SignalsTyped, ~FailedQueued, NEW s \in SourceStates, s # "Failed", SetState(s)
    PROVE  ~FailedQueued'
BY DEF SignalsTyped, FailedQueued, SetState, SourceStates

(* A failure reported into a queue without one is the last signal in it.       *)
LEMMA FailureAppended ==
    ASSUME SignalsTyped, ~FailedQueued, SetState("Failed")
    PROVE  \A j \in 1 .. Len(signals') : signals'[j] = "Failed" => j = Len(signals')
BY DEF SignalsTyped, FailedQueued, SetState, SourceStates

(* The signal at the head of the queue is delivered.                          *)
LEMMA FailureDelivered ==
    ASSUME SignalsTyped, signals # <<>>, signals' = Tail(signals),
           \A j \in 1 .. Len(signals) : signals[j] = "Failed" => j = Len(signals)
    PROVE  /\ \A j \in 1 .. Len(signals') : signals'[j] = "Failed" => j = Len(signals')
           /\ FailedQueued' => FailedQueued
           /\ Head(signals) = "Failed" => FailedQueued /\ ~FailedQueued'
<1> DEFINE n == Len(signals)
<1>1. n \in Nat /\ n >= 1 /\ Head(signals) = signals[1]
  BY DEF SignalsTyped
<1>2. Len(signals') = n - 1 /\ \A j \in 1 .. n - 1 : signals'[j] = signals[j + 1]
  BY DEF SignalsTyped
<1>3. \A j \in 1 .. n : signals[j] = "Failed" => j = n
  OBVIOUS
<1> HIDE DEF n
<1>4. \A j \in 1 .. n - 1 : j + 1 \in 1 .. n /\ (signals'[j] = "Failed" => j = n - 1)
  BY <1>1, <1>2, <1>3
<1>5. 1 \in 1 .. n /\ (Head(signals) = "Failed" => n = 1)
  BY <1>1, <1>3
<1>6. /\ FailedQueued <=> \E j \in 1 .. n : signals[j] = "Failed"
      /\ FailedQueued' <=> \E j \in 1 .. n - 1 : signals'[j] = "Failed"
  BY <1>2 DEF FailedQueued, n
<1>7. FailedQueued' => FailedQueued
  BY <1>2, <1>4, <1>6
<1>8. Head(signals) = "Failed" => FailedQueued /\ ~FailedQueued'
  BY <1>1, <1>5, <1>6
<1> QED
  BY <1>2, <1>4, <1>7, <1>8

(* Only the end of a run reports a failure, and only a restart launches a thread. *)
LEMMA OneFailureStep ==
    TypeOK /\ Untouched /\ StopOrder /\ OneFailure /\ [Next]_vars => OneFailure'
<1> USE DEF vars, guiVars, sourceVars, queueVars, workerVars, gateVars, sinkVars,
   boundVars
<1> SUFFICES ASSUME TypeOK, Untouched, StopOrder, OneFailure, [Next]_vars, Threaded
             PROVE  OneFailure'
  <2>1. [Next]_vars => kind' = kind
    BY DEF Next, Terminated, GuiEvent, DeliverState, OnSourceState,
       ScheduleReconnect, DeliverCodec, TimerFires, RestartSource, EventLoop,
       GuiEvent, StopStep, StopSource, JoinSource, StopQueue, StopCompletes,
       StopBegins, Start, StartWithoutSinks, SourceStep, RunBegins, ProgramMissing,
       Connects, NoticesStop, RunFails, RestartsInPlace, Delivers, PeerAnswers,
       PeerRefused, PeerConnects, PeerLost, SourceFrame, WorkerStep, CheckRunning,
       PopUnit, PopFails, TakeRestart, TakeGate, DropAtGate, OpenGate, WriteVideo,
       WriteAudio, WorkerFrame, DispatchFrame
  <2> QED
    BY <2>1 DEF OneFailure, Threaded
<1>a. SignalsTyped /\ signals \in Seq(SourceStates \cup {"codec"}) /\ Len(signals) \in Nat
  BY DEF TypeOK, SignalsTyped
<1>c. /\ running => srcPc # "none"
      /\ timer \/ gui = "restart" => srcPc = "ended"
      /\ FailedQueued => ~timer /\ gui # "restart" /\ srcPc \in {"none", "ended"}
      /\ \A j \in 1 .. Len(signals) : signals[j] = "Failed" => j = Len(signals)
  BY DEF OneFailure
<1>d. kind # "Whep"
  BY DEF Threaded
<1>b. ASSUME UNCHANGED <<kind, signals, running, timer, gui, srcPc>> PROVE OneFailure'
  BY <1>b DEF OneFailure, Threaded, FailedQueued
<1>1. CASE GuiEvent
  <2>1. CASE DeliverState \/ DeliverCodec
    <3>1. signals # <<>> /\ signals' = Tail(signals)
      BY <2>1 DEF DeliverState, DeliverCodec
    <3>2. /\ \A j \in 1 .. Len(signals') : signals'[j] = "Failed" => j = Len(signals')
          /\ FailedQueued' => FailedQueued
          /\ Head(signals) = "Failed" => FailedQueued /\ ~FailedQueued'
      BY <1>a, <1>c, <3>1, FailureDelivered
    <3>3. UNCHANGED <<kind, gui, running, srcPc>>
      BY <2>1 DEF DeliverState, DeliverCodec
    <3>4. timer' => timer \/ (Head(signals) = "Failed" /\ running)
      BY <2>1 DEF DeliverState, DeliverCodec, OnSourceState, ScheduleReconnect,
         ReconnectWanted
    <3> QED
      BY <1>c, <3>2, <3>3, <3>4 DEF OneFailure, Threaded
  <2>2. CASE TimerFires
    BY <2>2 DEF TimerFires, OneFailure, FailedQueued, Threaded
  <2>3. CASE RestartSource
    <3>1. srcPc' = "starting"
      BY <1>d, <2>3 DEF RestartSource, LaunchSource
    <3>2. gui = "restart" /\ gui' = "loop" /\ UNCHANGED <<kind, running, timer, signals>>
      BY <2>3 DEF RestartSource
    <3>3. ~FailedQueued /\ ~FailedQueued'
      BY <1>c, <3>2 DEF FailedQueued
    <3>4. ~timer
      BY <3>2 DEF StopOrder
    <3> QED
      BY <1>c, <3>1, <3>2, <3>3, <3>4 DEF OneFailure, Threaded
  <2> QED
    BY <1>1, <2>1, <2>2, <2>3 DEF GuiEvent
<1>2. CASE StopStep \/ StopBegins \/ Start \/ StartWithoutSinks
  <2>1. CASE Start
    <3>1. srcPc' = "starting" /\ gui' = "loop" /\ UNCHANGED <<kind, timer, signals>>
      BY <1>d, <2>1 DEF Start, LaunchSource
    <3>2. ~timer /\ ~FailedQueued /\ signals = <<>>
      BY <2>1 DEF Start, Untouched, FailedQueued
    <3> QED
      BY <3>1, <3>2 DEF OneFailure, FailedQueued
  <2>2. CASE StartWithoutSinks
    BY <2>2, <1>c DEF StartWithoutSinks, OneFailure, FailedQueued
  <2>3. CASE StopBegins \/ StopSource \/ JoinSource \/ StopQueue
    <3>1. /\ UNCHANGED <<kind, signals, srcPc>> /\ gui' # "restart" /\ (timer' => timer)
          /\ (running' => running)
      BY <1>d, <2>3 DEF StopBegins, StopSource, JoinSource, StopQueue
    <3> QED
      BY <1>c, <3>1 DEF OneFailure, FailedQueued
  <2>4. CASE StopCompletes
    <3>1. /\ UNCHANGED <<kind, signals, timer, running>> /\ srcPc' = "none"
          /\ gui' = "stopped" /\ gui = "joinWorker"
      BY <2>4 DEF StopCompletes
    <3>2. ~timer /\ ~running
      BY <3>1 DEF StopOrder, Stopping
    <3> QED
      BY <1>c, <3>1, <3>2 DEF OneFailure, FailedQueued
  <2> QED
    BY <1>2, <2>1, <2>2, <2>3, <2>4 DEF StopStep
<1>3. CASE SourceStep
  <2>0. ~PeerAnswers /\ ~PeerRefused /\ ~PeerConnects /\ ~PeerLost
    BY <1>d DEF PeerAnswers, PeerRefused, PeerConnects, PeerLost
  <2>1. CASE NoticesStop \/ RestartsInPlace \/ Delivers
    <3>1. UNCHANGED <<kind, signals, running, timer, gui>> /\ srcPc \notin {"none", "ended"}
          /\ srcPc' # "none"
      BY <2>1 DEF NoticesStop, RestartsInPlace, Delivers, SourceFrame
    <3> QED
      BY <1>c, <3>1 DEF OneFailure, FailedQueued
  <2>2. CASE RunBegins \/ Connects
    <3>1. /\ UNCHANGED <<kind, running, timer, gui>> /\ srcPc \notin {"none", "ended"}
          /\ srcPc' # "none"
      BY <2>2 DEF RunBegins, Connects, SourceFrame
    <3>2. ~FailedQueued /\ ~timer /\ gui # "restart"
      BY <1>c, <3>1
    <3>3. ~FailedQueued'
      <4>1. CASE RunBegins
        BY <1>a, <3>2, <4>1, NoFailureAppended DEF RunBegins, SourceStates
      <4>2. CASE Connects
        BY <1>a, <3>2, <4>2 DEF Connects, FailedQueued
      <4> QED
        BY <2>2, <4>1, <4>2
    <3>4. \A j \in 1 .. Len(signals') : signals'[j] # "Failed"
      BY <3>3 DEF FailedQueued
    <3> QED
      BY <3>1, <3>2, <3>3, <3>4 DEF OneFailure
  <2>3. CASE ProgramMissing \/ RunFails
    <3>1. /\ UNCHANGED <<kind, running, timer, gui>> /\ srcPc \notin {"none", "ended"}
          /\ srcPc' = "ended" /\ SetState("Failed")
      BY <2>3 DEF ProgramMissing, RunFails, SourceFrame
    <3>2. ~FailedQueued /\ ~timer /\ gui # "restart"
      BY <1>c, <3>1
    <3> QED
      BY <1>a, <3>1, <3>2, FailureAppended DEF OneFailure
  <2> QED
    BY <1>3, <2>0, <2>1, <2>2, <2>3 DEF SourceStep
<1>4. CASE WorkerStep
  BY <1>4, <1>b DEF WorkerStep, CheckRunning, PopUnit, PopFails, TakeRestart,
     TakeGate, DropAtGate, OpenGate, WriteVideo, WriteAudio, WorkerFrame,
     DispatchFrame
<1>5. CASE UNCHANGED vars
  BY <1>5, <1>b
<1> QED
  BY <1>1, <1>2, <1>3, <1>4, <1>5 DEF Next, Terminated

(* The join in start() of a restarted source never waits (srtsource.cpp:95-102, *)
(* ytdlpsource.cpp:167-191, streampipeline.cpp:42-46).                         *)
THEOREM JoinsOnlyEndedThreads == Spec => []NoJoinOnLiveThread
<1>1. Init => StopOrder /\ OneFailure
  BY DEF Init, StopOrder, Stopping, StoppedIsQuiet, OneFailure, FailedQueued
<1>2. OneFailure => NoJoinOnLiveThread
  BY DEF OneFailure, NoJoinOnLiveThread
<1> QED
  BY <1>1, <1>2, StopOrderStep, OneFailureStep, TypeCorrect, UntouchedBeforeStart, PTL
  DEF Spec
=============================================================================
