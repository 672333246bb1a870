--------------------------- MODULE StreamPipeline ---------------------------
(***************************************************************************)
(* StreamPipeline (core/streampipeline.cpp): one stream from its source to *)
(* its sinks.  Three threads meet in it.                                   *)
(*                                                                         *)
(*   - The GUI thread runs start(), stop(), the reconnect timer and the    *)
(*     source's queued signals, one event at a time.                       *)
(*   - The source delivers units from its own thread (SRT, yt-dlp) or from *)
(*     the callbacks of a peer connection (WHEP), and reports its state by *)
(*     signals that are queued to the GUI thread.                          *)
(*   - The worker pops units, re-arms the keyframe gate when a restart was *)
(*     announced, and is the only one to touch the sinks.                  *)
(*                                                                         *)
(* A source is modelled as the pipeline meets it: which states it reports  *)
(* and from which thread, when the negotiated codec is known, and when it  *)
(* announces that its timeline restarted.  The queue is used through its   *)
(* critical sections; MediaQueue shows what these may rely on.             *)
(*                                                                         *)
(* A unit carries the era it was pushed in: the number of restarts that    *)
(* had been announced to the worker by then.                               *)
(*                                                                         *)
(* Abstractions.  The codec is one with parameter sets (H.264, H.265): for *)
(* VP9 and AV1 a keyframe alone opens the gate.  The viewer tap, the       *)
(* counters of m_stats and pause/resume are left out, and so is a Closed   *)
(* report of a peer connection that is being torn down.  A pipeline is     *)
(* started once: BridgeEngine::startStream makes a new one each time.      *)
(* "ended" is a run() that has reported and only has to clean up.          *)
(***************************************************************************)
EXTENDS Naturals, Sequences, FiniteSets

CONSTANTS SourceKinds,     \* subset of {"Whep", "Srt", "Youtube"}
          Sinks,           \* the sinks of the stream's configuration
          UnitKinds,       \* what the source delivers, see Unit
          Capacity,        \* capacity of m_queue
          InitialDelay,    \* reconnectInitialMs
          MaxDelay,        \* reconnectMaxMs
          MaxUnits,        \* bound on the units a source delivers
          MaxDisruptions   \* bound on failures and restarts of a source

\* StreamConfig::fromJson clamps reconnectMaxMs to at least reconnectInitialMs.
ASSUME PipelineAssumption ==
    /\ SourceKinds \subseteq {"Whep", "Srt", "Youtube"}
    /\ UnitKinds \subseteq {"params", "keyWithParams", "key", "delta", "audio"}
    /\ Capacity \in Nat \ {0}
    /\ InitialDelay \in Nat \ {0}
    /\ MaxDelay \in Nat
    /\ InitialDelay <= MaxDelay
    /\ MaxUnits \in Nat
    /\ MaxDisruptions \in Nat

VARIABLES
    kind,            \* m_config.sourceKind
    \* the GUI thread
    gui,             \* where it is in start(), stop() or its event loop
    running,         \* m_running
    pstate,          \* m_stats.state, the state the pipeline reports
    timer,           \* m_reconnectTimer is armed
    delay,           \* m_reconnectDelayMs
    signals,         \* the source's signals queued to the GUI thread
    \* the source
    srcPc,           \* where its thread or its peer connection is
    srcState,        \* StreamSource::m_state
    srcStop,         \* m_stop of a source with a thread
    codec,           \* negotiatedVideoCodec() is known
    fresh,           \* the flag behind takeGenerationRestartPending()
    \* the queue
    queue,           \* m_queue
    queueStopped,    \* its m_stopped
    \* the worker and what it owns
    worker,          \* where it is in workerLoop()
    unit,            \* the unit in hand, NoUnit between two pops
    restarted,       \* its local sourceRestarted, while it is in scope
    gateReset,       \* m_pendingGateReset
    inspector,       \* m_inspector has been initialised for a codec
    sawKeyframe,     \* m_sawKeyframe, the keyframe gate
    paramSets,       \* m_parameterSets: the eras of the cached parameter sets
    paramsConsumed,  \* m_parameterSetsConsumed
    sinks,           \* m_sinks
    open,            \* the sinks that are open; m_sinksOpen says there is one
    session,         \* what was written since the sinks were opened
    \* counters that bound the model
    era,             \* restarts announced to the worker so far
    produced,        \* units delivered so far
    disruptions      \* failures and restarts so far

guiVars    == <<gui, running, pstate, timer, delay>>
sourceVars == <<srcPc, srcState, srcStop, codec, fresh>>
queueVars  == <<queue, queueStopped>>
workerVars == <<worker, unit, restarted>>
gateVars   == <<sawKeyframe, paramSets, paramsConsumed>>
sinkVars   == <<sinks, open, session>>
boundVars  == <<era, produced, disruptions>>

vars == <<kind, guiVars, signals, sourceVars, queueVars, workerVars, gateReset,
          inspector, gateVars, sinkVars, boundVars>>

Unit == [kind : UnitKinds, era : Nat]
NoUnit == [kind |-> "none", era |-> 0]

\* A sink session: the era it was opened in, its first unit, the parameter sets
\* that unit carried in-band or in front of it, and the eras of all its units.
NoSession == [openEra |-> 0, first |-> "none", params |-> {}, eras |-> {}]

Threaded == kind \in {"Srt", "Youtube"}

Init ==
    /\ kind \in SourceKinds
    /\ gui = "created" /\ running = FALSE /\ pstate = "Idle"
    /\ timer = FALSE /\ delay = InitialDelay
    /\ signals = <<>>
    /\ srcPc = "none" /\ srcState = "Idle" /\ srcStop = FALSE
    /\ codec = FALSE /\ fresh = FALSE
    /\ queue = <<>> /\ queueStopped = FALSE
    /\ worker = "none" /\ unit = NoUnit /\ restarted = FALSE
    /\ gateReset = FALSE /\ inspector = FALSE
    /\ sawKeyframe = FALSE /\ paramSets = {} /\ paramsConsumed = FALSE
    /\ sinks = {} /\ open = {} /\ session = NoSession
    /\ era = 0 /\ produced = 0 /\ disruptions = 0

-----------------------------------------------------------------------------
(* The GUI thread: start() *)

\* m_source->start(): a thread is launched, or WHEP negotiation begins.  A WHEP
\* source that has run before is stopped first; its Stopping, Idle and Connecting
\* are emitted on this thread, so the pipeline ends up in Connecting at once.
LaunchSource ==
    \/ /\ Threaded
       /\ srcPc' = "starting"
       /\ srcStop' = FALSE
       /\ UNCHANGED <<srcState, codec, pstate>>
    \/ /\ kind = "Whep"
       /\ srcPc' = "opening"
       /\ srcState' = "Connecting"
       /\ pstate' = "Connecting"
       /\ codec' = FALSE
       /\ UNCHANGED srcStop

Start ==
    /\ gui = "created"
    /\ gui' = "loop"
    /\ \E usable \in SUBSET Sinks \ {{}} : sinks' = usable
    /\ running' = TRUE
    /\ worker' = "check"
    /\ LaunchSource
    /\ UNCHANGED <<kind, timer, delay, signals, fresh, queueVars, unit, restarted,
                   gateReset, inspector, gateVars, open, session, boundVars>>

\* No sink is enabled and usable: the pipeline reports Failed and runs nothing.
StartWithoutSinks ==
    /\ gui = "created"
    /\ gui' = "loop"
    /\ pstate' = "Failed"
    /\ UNCHANGED <<kind, running, timer, delay, signals, sourceVars, queueVars,
                   workerVars, gateReset, inspector, gateVars, sinkVars, boundVars>>

-----------------------------------------------------------------------------
(* The GUI thread: source signals and the reconnect timer *)

\* Mutant: the doubled delay is not clamped.
NextDelayUnclamped(d) == 2 * d

NextDelay(d) == IF 2 * d < MaxDelay THEN 2 * d ELSE MaxDelay

\* scheduleReconnect() of a running pipeline.  The worker is told to reset.
ScheduleReconnect ==
    /\ gateReset' = TRUE
    /\ era' = era + 1
    /\ pstate' = "Retrying"
    /\ timer' = TRUE
    /\ delay' = NextDelay(delay)
    /\ UNCHANGED <<open, session>>

ReconnectWanted == running

\* The slot connected to StreamSource::stateChanged.
OnSourceState(s) ==
    \/ /\ s = "Running"
       /\ pstate' = s
       /\ delay' = InitialDelay
       /\ UNCHANGED <<timer, gateReset, era, open, session>>
    \/ /\ s = "Failed"
       /\ ReconnectWanted
       /\ ScheduleReconnect
    \/ /\ s = "Failed"
       /\ ~ReconnectWanted
       /\ pstate' = s
       /\ UNCHANGED <<timer, delay, gateReset, era, open, session>>
    \/ /\ s \notin {"Running", "Failed"}
       /\ pstate' = s
       /\ UNCHANGED <<timer, delay, gateReset, era, open, session>>

\* Signals queued before stop() are still delivered after it has returned.
EventLoop == gui \in {"loop", "stopped"}

DeliverState ==
    /\ EventLoop
    /\ signals # <<>>
    /\ Head(signals) # "codec"
    /\ signals' = Tail(signals)
    /\ OnSourceState(Head(signals))
    /\ UNCHANGED <<kind, gui, running, sourceVars, queueVars, workerVars, inspector,
                   gateVars, sinks, produced, disruptions>>

\* The slot connected to StreamSource::videoCodecNegotiated.
DeliverCodec ==
    /\ EventLoop
    /\ signals # <<>>
    /\ Head(signals) = "codec"
    /\ signals' = Tail(signals)
    /\ inspector' = TRUE
    /\ UNCHANGED <<kind, guiVars, sourceVars, queueVars, workerVars, gateReset,
                   gateVars, sinkVars, boundVars>>

\* The reconnect timer calls m_source->start(), which first waits for the thread of
\* the previous run; "restart" is that wait.
TimerFires ==
    /\ gui = "loop"
    /\ timer
    /\ timer' = FALSE
    /\ gui' = IF running /\ srcPc # "none" THEN "restart" ELSE "loop"
    /\ UNCHANGED <<kind, running, pstate, delay, signals, sourceVars, queueVars,
                   workerVars, gateReset, inspector, gateVars, sinkVars, boundVars>>

RestartSource ==
    /\ gui = "restart"
    /\ Threaded => srcPc = "ended"
    /\ LaunchSource
    /\ gui' = "loop"
    /\ UNCHANGED <<kind, running, timer, delay, signals, fresh, queueVars, workerVars,
                   gateReset, inspector, gateVars, sinkVars, boundVars>>

-----------------------------------------------------------------------------
(* The GUI thread: stop() *)

StopBegins ==
    /\ gui = "loop"
    /\ running
    /\ running' = FALSE
    /\ timer' = FALSE
    /\ gui' = "stopSource"
    /\ UNCHANGED <<kind, pstate, delay, signals, sourceVars, queueVars, workerVars,
                   gateReset, inspector, gateVars, sinkVars, boundVars>>

\* m_source->stop() up to the join of its thread.  A WHEP source has no thread: it
\* tears its peer down and emits Stopping and Idle on this thread.
StopSource ==
    /\ gui = "stopSource"
    /\ \/ /\ Threaded
          /\ srcStop' = TRUE
          /\ gui' = "joinSource"
          /\ UNCHANGED <<srcPc, srcState, pstate>>
       \/ /\ kind = "Whep"
          /\ srcPc' = "none"
          /\ srcState' = "Idle"
          /\ pstate' = "Idle"
          /\ gui' = "stopQueue"
          /\ UNCHANGED srcStop
    /\ UNCHANGED <<kind, running, timer, delay, signals, codec, fresh, queueVars,
                   workerVars, gateReset, inspector, gateVars, sinkVars, boundVars>>

JoinSource ==
    /\ gui = "joinSource"
    /\ srcPc = "ended"
    /\ gui' = "stopQueue"
    /\ UNCHANGED <<kind, running, pstate, timer, delay, signals, sourceVars, queueVars,
                   workerVars, gateReset, inspector, gateVars, sinkVars, boundVars>>

\* Mutant: stop() forgets m_queue.stop() and joins the worker at once.
SkipStopQueue ==
    /\ gui = "stopQueue"
    /\ gui' = "joinWorker"
    /\ UNCHANGED <<kind, running, pstate, timer, delay, signals, sourceVars, queueVars,
                   workerVars, gateReset, inspector, gateVars, sinkVars, boundVars>>

StopQueue ==
    /\ gui = "stopQueue"
    /\ queueStopped' = TRUE
    /\ gui' = "joinWorker"
    /\ UNCHANGED <<kind, running, pstate, timer, delay, signals, sourceVars, queue,
                   workerVars, gateReset, inspector, gateVars, sinkVars, boundVars>>

\* The worker is joined; the source, the sinks and the backlog are released.
StopCompletes ==
    /\ gui = "joinWorker"
    /\ worker = "exited"
    /\ queue' = <<>>
    /\ srcPc' = "none"
    /\ sinks' = {}
    /\ open' = {}
    /\ session' = NoSession
    /\ pstate' = "Idle"
    /\ gui' = "stopped"
    /\ UNCHANGED <<kind, running, timer, delay, signals, srcState, srcStop, codec,
                   fresh, queueStopped, workerVars, gateReset, inspector, gateVars,
                   boundVars>>

-----------------------------------------------------------------------------
(* The source *)

\* StreamSource::setState called from a thread other than the GUI thread: the
\* signal is queued, and only when the state changed.
SetState(s) ==
    /\ srcState' = s
    /\ signals' = IF srcState = s THEN signals ELSE Append(signals, s)

Disrupt == disruptions < MaxDisruptions /\ disruptions' = disruptions + 1

\* A yt-dlp run after the first generation may begin at a position other than zero; it
\* announces to the worker that the timeline restarted.
Announces ==
    \E announced \in BOOLEAN :
        /\ announced => kind = "Youtube" /\ disruptions > 0
        /\ fresh' = (fresh \/ announced)
        /\ era' = IF announced THEN era + 1 ELSE era

\* What a step of the source leaves alone.
SourceFrame ==
    UNCHANGED <<kind, guiVars, srcStop, queueStopped, workerVars, gateReset,
                inspector, gateVars, sinkVars>>

\* Mutant: a run does not report Connecting.
RunBeginsSilently ==
    /\ srcPc = "starting"
    /\ srcPc' = "opening"
    /\ codec' = IF kind = "Youtube" THEN FALSE ELSE codec
    /\ Announces
    /\ UNCHANGED <<queue, produced, disruptions, srcState, signals>>
    /\ SourceFrame

\* The first lines of run(): yt-dlp forgets the codec of the previous run, and
\* announces a run that resumes at the playhead of a failed one.
RunBegins ==
    /\ srcPc = "starting"
    /\ srcPc' = "opening"
    /\ codec' = IF kind = "Youtube" THEN FALSE ELSE codec
    /\ SetState("Connecting")
    /\ Announces
    /\ UNCHANGED <<queue, produced, disruptions>>
    /\ SourceFrame

\* yt-dlp cannot be found: run() reports Failed without having reported Connecting.
ProgramMissing ==
    /\ kind = "Youtube"
    /\ srcPc = "starting"
    /\ srcPc' = "ended"
    /\ codec' = FALSE
    /\ SetState("Failed")
    /\ Disrupt
    /\ UNCHANGED <<fresh, queue, era, produced>>
    /\ SourceFrame

\* The feed is open and its codec known.  A yt-dlp generation that does not begin at
\* zero (a seek, a resume) announces itself before its first unit.  The flag of stop() is
\* not looked at again once the open has succeeded.
Connects ==
    /\ Threaded
    /\ srcPc \in {"opening", "reopening"}
    /\ srcPc' = "open"
    /\ codec' = TRUE
    /\ srcState' = "Running"
    /\ signals' = signals \o (IF srcState = "Running" THEN <<"codec">>
                                                      ELSE <<"codec", "Running">>)
    /\ Announces
    /\ UNCHANGED <<queue, produced, disruptions>>
    /\ SourceFrame

\* A stop request that ends a read, or an open of SRT, is not reported.
NoticesStop ==
    /\ Threaded
    /\ srcStop
    /\ srcPc \in {"opening", "reopening", "open"}
    /\ srcPc' = "ended"
    /\ UNCHANGED <<srcState, signals, codec, fresh, queue, boundVars>>
    /\ SourceFrame

\* Mutant: the run reports Failed and goes on reading.
FailsAndContinues ==
    /\ Threaded
    /\ srcPc \in {"opening", "reopening", "open"}
    /\ UNCHANGED <<srcPc, codec, fresh, queue, era, produced>>
    /\ SetState("Failed")
    /\ Disrupt
    /\ SourceFrame

\* The open or a read fails, or the feed ends: the thread reports Failed and returns.
\* The flag of stop() does not prevent it: it is looked at before the report, and not at
\* all where yt-dlp's open is interrupted.
RunFails ==
    /\ Threaded
    /\ srcPc \in {"opening", "reopening", "open"}
    /\ srcPc' = "ended"
    /\ SetState("Failed")
    /\ Disrupt
    /\ UNCHANGED <<codec, fresh, queue, era, produced>>
    /\ SourceFrame

\* A yt-dlp generation ends and run() opens the next one in the same run: after a
\* stall, which is announced here, or for a seek, which Connects announces.
RestartsInPlace ==
    /\ kind = "Youtube"
    /\ srcPc = "open"
    /\ srcPc' = "reopening"
    /\ \E stall \in BOOLEAN :
          /\ fresh' = (fresh \/ stall)
          /\ era' = IF stall THEN era + 1 ELSE era
    /\ Disrupt
    /\ UNCHANGED <<srcState, signals, codec, queue, produced>>
    /\ SourceFrame

\* The media callback: the unit goes to the back of the queue, the oldest makes room.
Delivers ==
    /\ srcPc = "open"
    /\ produced < MaxUnits
    /\ \E k \in UnitKinds :
          LET backlog == IF Len(queue) >= Capacity THEN Tail(queue) ELSE queue
          IN  queue' = Append(backlog, [kind |-> k, era |-> era])
    /\ produced' = produced + 1
    /\ UNCHANGED <<srcPc, srcState, signals, codec, fresh, era, disruptions>>
    /\ SourceFrame

\* WHEP: the answer is handled on the GUI thread, so the codec reaches the
\* inspector before media flows.
PeerAnswers ==
    /\ kind = "Whep"
    /\ gui = "loop"
    /\ srcPc = "opening"
    /\ srcPc' = "answered"
    /\ codec' = TRUE
    /\ inspector' = TRUE
    /\ UNCHANGED <<kind, guiVars, signals, srcState, srcStop, fresh, queueVars,
                   workerVars, gateReset, gateVars, sinkVars, boundVars>>

\* WHEP: a request is refused, the answer is unusable or cannot be applied.  This is
\* noticed on the GUI thread, so the pipeline's slot runs at once.
PeerRefused ==
    /\ kind = "Whep"
    /\ gui = "loop"
    /\ srcPc \in {"opening", "answered"}
    /\ srcPc' = "refused"
    /\ srcState' = "Failed"
    /\ Disrupt
    /\ OnSourceState("Failed")
    /\ UNCHANGED <<kind, gui, running, signals, srcStop, codec, fresh, queueVars,
                   workerVars, inspector, gateVars, sinks, produced>>

\* WHEP: the peer connection comes up, for the first time or again after it was lost.
PeerConnects ==
    /\ kind = "Whep"
    /\ srcPc \in {"answered", "lost"}
    /\ srcPc' = "open"
    /\ SetState("Running")
    /\ UNCHANGED <<codec, fresh, queue, boundVars>>
    /\ SourceFrame

PeerLost ==
    /\ kind = "Whep"
    /\ srcPc \in {"answered", "open"}
    /\ srcPc' = "lost"
    /\ SetState("Failed")
    /\ Disrupt
    /\ UNCHANGED <<codec, fresh, queue, era, produced>>
    /\ SourceFrame

-----------------------------------------------------------------------------
(* The worker: workerLoop() *)

WorkerFrame ==
    UNCHANGED <<kind, guiVars, signals, srcPc, srcState, srcStop, codec, queueStopped,
                inspector, sinks, boundVars>>

CheckRunning ==
    /\ worker = "check"
    /\ worker' = IF running THEN "pop" ELSE "exited"
    /\ UNCHANGED <<fresh, queue, unit, restarted, gateReset, gateVars, open, session>>
    /\ WorkerFrame

PopUnit ==
    /\ worker = "pop"
    /\ queue # <<>>
    /\ unit' = Head(queue)
    /\ queue' = Tail(queue)
    /\ worker' = "takeRestart"
    /\ UNCHANGED <<fresh, restarted, gateReset, gateVars, open, session>>
    /\ WorkerFrame

PopFails ==
    /\ worker = "pop"
    /\ queue = <<>>
    /\ queueStopped
    /\ worker' = "exited"
    /\ UNCHANGED <<fresh, queue, unit, restarted, gateReset, gateVars, open, session>>
    /\ WorkerFrame

\* m_source->takeGenerationRestartPending()
TakeRestart ==
    /\ worker = "takeRestart"
    /\ restarted' = fresh
    /\ fresh' = FALSE
    /\ worker' = "takeGate"
    /\ UNCHANGED <<queue, unit, gateReset, gateVars, open, session>>
    /\ WorkerFrame

\* Mutant: the reset happens at the top of the next video unit only.
MustResetForVideo(u) == (restarted \/ gateReset) /\ u.kind # "audio"

\* Whether the unit in hand is preceded by a reset.
MustReset(u) == restarted \/ gateReset

\* m_pendingGateReset.exchange(false), and the reset if either flag was set.
TakeGate ==
    /\ worker = "takeGate"
    /\ gateReset' = FALSE
    /\ worker' = "dispatch"
    /\ \/ /\ MustReset(unit)
          /\ open' = {}
          /\ session' = NoSession
          /\ sawKeyframe' = FALSE
          /\ paramSets' = {}
          /\ paramsConsumed' = FALSE
       \/ /\ ~MustReset(unit)
          /\ UNCHANGED <<open, session, gateVars>>
    /\ restarted' = FALSE
    /\ UNCHANGED <<fresh, queue, unit>>
    /\ WorkerFrame

-----------------------------------------------------------------------------
(* The worker: handleVideoUnit() and handleAudioUnit() *)

\* What the inspector finds in a unit: nothing before it knows the codec.
IsKey(u) == inspector /\ u.kind \in {"key", "keyWithParams"}
HasParams(u) == inspector /\ u.kind \in {"params", "keyWithParams"}

\* The parameter-set cache once the unit has been inspected: sets that arrive after
\* the cached ones were used replace them, otherwise they are added to them.
CachedWith(u) ==
    IF HasParams(u) THEN (IF paramsConsumed THEN {} ELSE paramSets) \cup {u.era}
                    ELSE paramSets

\* Mutant: any keyframe opens the gate.
OpensGateBare(u) == IsKey(u)

OpensGate(u) == IsKey(u) /\ CachedWith(u) # {}

\* openSinks(): every sink refuses a codec that is not known; otherwise each may fail.
OpenResults == SUBSET (IF codec THEN sinks ELSE {})

\* A keyframe without parameter sets of its own goes out behind the cached ones.
CarriedParams(u) ==
    IF IsKey(u) THEN (IF HasParams(u) THEN {u.era} ELSE CachedWith(u)) ELSE {}

\* The unit is written to the open sinks.
Write(u, s) == [s EXCEPT !.eras = @ \cup {u.era}]

OpenedBy(u) == [openEra |-> era, first |-> u.kind, params |-> CarriedParams(u),
                eras |-> {u.era}]

DispatchFrame ==
    /\ worker' = "check"
    /\ unit' = NoUnit
    /\ UNCHANGED <<fresh, queue, restarted, gateReset>>
    /\ WorkerFrame

\* Behind a closed gate only the parameter sets of a unit are kept.
DropAtGate ==
    /\ worker = "dispatch"
    /\ unit.kind # "audio"
    /\ ~sawKeyframe
    /\ ~OpensGate(unit)
    /\ paramSets' = CachedWith(unit)
    /\ paramsConsumed' = (paramsConsumed /\ ~HasParams(unit))
    /\ UNCHANGED <<sawKeyframe, open, session>>
    /\ DispatchFrame

OpenGate ==
    /\ worker = "dispatch"
    /\ unit.kind # "audio"
    /\ ~sawKeyframe
    /\ OpensGate(unit)
    /\ sawKeyframe' = TRUE
    /\ paramSets' = CachedWith(unit)
    /\ \E opened \in OpenResults :
          /\ open' = opened
          /\ session' = IF opened = {} THEN NoSession ELSE OpenedBy(unit)
          /\ paramsConsumed' = IF opened = {} THEN paramsConsumed /\ ~HasParams(unit)
                                              ELSE TRUE
    /\ DispatchFrame

WriteVideo ==
    /\ worker = "dispatch"
    /\ unit.kind # "audio"
    /\ sawKeyframe
    /\ paramSets' = CachedWith(unit)
    /\ paramsConsumed' = (IsKey(unit) \/ (paramsConsumed /\ ~HasParams(unit)))
    /\ session' = IF open = {} THEN session ELSE Write(unit, session)
    /\ UNCHANGED <<sawKeyframe, open>>
    /\ DispatchFrame

WriteAudio ==
    /\ worker = "dispatch"
    /\ unit.kind = "audio"
    /\ session' = IF open = {} THEN session ELSE Write(unit, session)
    /\ UNCHANGED <<gateVars, open>>
    /\ DispatchFrame

-----------------------------------------------------------------------------
\* stop() has returned and its signals are drained, or there was nothing to run.
Terminated ==
    /\ ~running
    /\ EventLoop
    /\ signals = <<>>
    /\ UNCHANGED vars

GuiEvent == DeliverState \/ DeliverCodec \/ TimerFires \/ RestartSource
StopStep == StopSource \/ JoinSource \/ StopQueue \/ StopCompletes
SourceStep ==
    \/ RunBegins \/ ProgramMissing \/ Connects \/ NoticesStop \/ RunFails
    \/ RestartsInPlace \/ Delivers
    \/ PeerAnswers \/ PeerRefused \/ PeerConnects \/ PeerLost
WorkerStep ==
    \/ CheckRunning \/ PopUnit \/ PopFails \/ TakeRestart \/ TakeGate
    \/ DropAtGate \/ OpenGate \/ WriteVideo \/ WriteAudio

Next ==
    \/ Start \/ StartWithoutSinks \/ StopBegins
    \/ GuiEvent \/ StopStep \/ SourceStep \/ WorkerStep
    \/ Terminated

\* The event loop serves its events, stop() goes on once begun, the worker runs, and a
\* source thread gets going and notices a stop request ("the stop must be noticed by
\* the worker within a bounded time").  Nothing obliges a peer to connect, a feed to
\* deliver or fail, or a user to stop the stream.
Fairness ==
    /\ WF_vars(DeliverState \/ DeliverCodec)
    /\ WF_vars(TimerFires)
    /\ WF_vars(RestartSource)
    /\ WF_vars(StopStep)
    /\ WF_vars(RunBegins \/ ProgramMissing)
    /\ WF_vars(NoticesStop)
    /\ WF_vars(WorkerStep)

Spec == Init /\ [][Next]_vars /\ Fairness
-----------------------------------------------------------------------------
(* Properties *)

GuiPcs == {"created", "loop", "restart", "stopSource", "joinSource", "stopQueue",
           "joinWorker", "stopped"}
SourcePcs == {"none", "starting", "opening", "reopening", "open", "ended", "answered",
              "refused", "lost"}
WorkerPcs == {"none", "check", "pop", "takeRestart", "takeGate", "dispatch", "exited"}
SourceStates == {"Idle", "Connecting", "Running", "Failed"}
PipelineStates == SourceStates \cup {"Retrying"}
Session == [openEra : Nat, first : UnitKinds \cup {"none"}, params : SUBSET Nat,
            eras : SUBSET Nat]

ControlTyped ==
    /\ gui \in GuiPcs /\ srcPc \in SourcePcs /\ worker \in WorkerPcs
    /\ pstate \in PipelineStates /\ srcState \in SourceStates
    /\ {running, timer, srcStop, codec, fresh, queueStopped, restarted, gateReset,
        inspector, sawKeyframe, paramsConsumed} \subseteq BOOLEAN
    /\ kind \in SourceKinds

SignalsTyped == signals \in Seq(SourceStates \cup {"codec"})

BackoffTyped == delay \in InitialDelay .. MaxDelay

BacklogTyped ==
    /\ queue \in Seq(Unit) /\ Len(queue) <= Capacity
    /\ unit \in Unit \cup {NoUnit}

SinksTyped ==
    /\ sinks \subseteq Sinks /\ open \subseteq sinks
    /\ session \in Session
    /\ paramSets \subseteq Nat

CountersTyped ==
    /\ era \in Nat
    /\ produced \in 0 .. MaxUnits
    /\ disruptions \in 0 .. MaxDisruptions

\* The type invariant.  The backlog stays within the capacity of the queue and the
\* backoff between the initial and the maximal delay of the configuration.
TypeOK ==
    /\ ControlTyped /\ SignalsTyped /\ BackoffTyped
    /\ BacklogTyped /\ SinksTyped /\ CountersTyped

\* Whatever the sinks have been given since they were opened begins with a keyframe
\* that has parameter sets in it or in front of it: a receiver can decode from the
\* first unit (handleVideoUnit).
SessionOpensDecodable ==
    open # {} => /\ session.first \in {"key", "keyWithParams"}
                 /\ session.params # {}

\* A restart announced to the worker before a unit was pushed closes the sinks before
\* that unit is written: no session outlives an announced restart, whichever kind of
\* unit the worker happens to meet first ("before either unit kind is dispatched").
NoSessionOutlivesReset ==
    \A e \in session.eras : e <= session.openEra

\* "The sinks are the worker thread's alone": they are opened, written and closed by a
\* step of the worker, or by stop() once the worker has been joined.
WorkerOwnsSinks ==
    [][ <<open, session>>' # <<open, session>> =>
            \/ worker \in {"takeGate", "dispatch"} /\ worker' # worker
            \/ worker = "exited" ]_vars

\* When the reconnect timer restarts a source, the thread of the previous run has
\* returned: start() does not block the GUI thread in a join that nothing would end.
NoJoinOnLiveThread ==
    gui = "restart" /\ Threaded => srcPc = "ended"

\* Once stop() has returned the pipeline is at rest, and signals that were still queued
\* do not wake it: no reconnect is pending, no thread runs, nothing is open or queued.
StoppedIsQuiet ==
    gui = "stopped" =>
        /\ ~timer
        /\ worker = "exited" /\ srcPc = "none"
        /\ queue = <<>> /\ open = {}

\* A failed WHEP or SRT stream does not stay in Retrying: the timer restarts the source,
\* which reports again, or the stream is stopped.
FailedStreamReconnects ==
    (kind # "Youtube" /\ pstate = "Retrying") ~> (pstate # "Retrying")

\* stop() returns: neither join waits for ever.
StopReturns == (gui = "stopSource") ~> (gui = "stopped")

-----------------------------------------------------------------------------
(* What the documentation says and the code does not do *)

\* docs/configuration/streams.md: sinks are closed on disconnect and reopened at a
\* keyframe, "so a receiver sees a clean restart".  The units between an opening and the
\* closing of the sinks would then come from one run of the source.  The reset is
\* consumed by the first unit the worker pops, which may be left over from the old run.
OneRunPerSession ==
    \A e, f \in session.eras : e = f

\* docs/configuration/streams.md: "A failed stream moves to Retrying and reconnects".
\* A yt-dlp run that finds no program reports Failed twice in a row; setState drops the
\* second report, so no reconnect is scheduled.
EveryFailedStreamReconnects ==
    (pstate = "Retrying") ~> (pstate # "Retrying")
=============================================================================
