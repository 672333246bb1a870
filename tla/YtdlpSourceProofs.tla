------------------------- MODULE YtdlpSourceProofs --------------------------
(***************************************************************************)
(* Safety of YtdlpSource for every length of the video, every retry budget *)
(* and every choice of videos.                                             *)
(*                                                                         *)
(* A step is split by who takes it: a request of the owner, the steps that *)
(* end a request, and the worker before, in and after a generation.        *)
(***************************************************************************)
EXTENDS YtdlpSource, TLAPS

-----------------------------------------------------------------------------
(* Type correctness, one part of TypeOK at a time *)

LEMMA FeedTyped ==
  ASSUME feed \in Feeds
  PROVE  /\ feed.live \in BOOLEAN
         /\ feed.converts \in BOOLEAN
         /\ feed.duration \in {0, LastPosition}
  BY SourceAssumption DEF SourceAssumption, Feed

(* The playhead is a position of the video. *)
LEMMA PlayheadTyped ==
  ASSUME startSec \in Positions, position \in Positions
  PROVE  Playhead \in Positions
  BY SourceAssumption DEF SourceAssumption, Playhead, MaxOf, Positions

LEMMA SectionTyped ==
  ASSUME handed \in Handed, SectionBegins
  PROVE  handed' \in Handed
  BY DEF Handed, SectionBegins

(* Flags are assigned truth values only. *)
LEMMA FlagsStep == FlagsTyped /\ PlacesTyped /\ [Next]_vars => FlagsTyped'
<1> USE DEF FlagsTyped, Handed, requestVars, probeVars, generationVars, resilienceVars,
   historyVars
<1> SUFFICES ASSUME FlagsTyped, PlacesTyped, [Next]_vars PROVE FlagsTyped'
  OBVIOUS
<1>1. CASE Request
  <2>1. CASE Start
    BY <2>1 DEF Start
  <2>2. CASE StopBegins
    BY <2>2 DEF StopBegins
  <2>3. CASE PauseBegins
    BY <2>3 DEF PauseBegins
  <2>4. CASE ResumeBegins
    BY <2>4 DEF ResumeBegins
  <2>5. CASE RequestSeek
    BY <2>5 DEF RequestSeek
  <2> QED
    BY <1>1, <2>1, <2>2, <2>3, <2>4, <2>5 DEF Request
<1>2. CASE Preflight
  <2>1. CASE ProgramMissing
    BY <2>1 DEF ProgramMissing, ReportFailed
  <2>2. CASE RunBegins
    BY <2>2 DEF RunBegins
  <2>3. CASE ProbeMetadata
    BY <2>3, FeedTyped DEF ProbeMetadata, PlacesTyped
  <2>4. CASE StoppedBeforeGeneration
    BY <2>4 DEF StoppedBeforeGeneration
  <2>5. CASE FormatUnresolved
    BY <2>5 DEF FormatUnresolved, ReportFailed
  <2>6. CASE FfmpegMissing
    BY <2>6 DEF FfmpegMissing, ReportFailed
  <2>7. CASE GenerationsBegin
    BY <2>7 DEF GenerationsBegin
  <2> QED
    BY <1>2, <2>1, <2>2, <2>3, <2>4, <2>5, <2>6, <2>7 DEF Preflight
<1>3. CASE Generation
  <2>1. CASE Choose
    BY <2>1 DEF Choose, DirectEligible
  <2>2. CASE OpenFails
    BY <2>2 DEF OpenFails
  <2>3. CASE OpenSucceeds
    BY <2>3, SectionTyped DEF OpenSucceeds
  <2>4. CASE NoticesStop
    BY <2>4 DEF NoticesStop, GenerationEnds, PumpFrame
  <2>5. CASE NoticesSeek
    BY <2>5 DEF NoticesSeek, GenerationEnds, PumpFrame
  <2>6. CASE SeeksInPlace
    BY <2>6, SectionTyped DEF SeeksInPlace, GenerationEnds, PumpFrame
  <2>7. CASE ReadBegins
    BY <2>7 DEF ReadBegins, PumpFrame
  <2>8. CASE ReadReturns
    BY <2>8 DEF ReadReturns, PumpFrame
  <2>9. CASE ReadFails
    <3>1. paused' \in BOOLEAN
      BY <2>9 DEF ReadFails, GenerationEnds
    <3> QED
      BY <2>9, <3>1 DEF ReadFails, PumpFrame
  <2>10. CASE DropsPacket
    BY <2>10 DEF DropsPacket, PumpFrame
  <2>11. CASE DeliversVideo
    BY <2>11 DEF DeliversVideo, PumpFrame
  <2>12. CASE DeliversAudio
    BY <2>12 DEF DeliversAudio, PumpFrame
  <2> QED
    BY <1>3, <2>1, <2>2, <2>3, <2>4, <2>5, <2>6, <2>7, <2>8, <2>9, <2>10, <2>11, <2>12
       DEF Generation
<1>4. CASE Settle
  <2>1. CASE DirectUndelivered
    BY <2>1 DEF DirectUndelivered
  <2>2. CASE LadderContinues
    BY <2>2 DEF LadderContinues, DirectEligible
  <2>3. CASE FallsBackToSoftware
    BY <2>3 DEF FallsBackToSoftware
  <2>4. CASE FeedEnds
    BY <2>4 DEF FeedEnds
  <2>5. CASE RunStopped
    BY <2>5 DEF RunStopped
  <2>6. CASE RunSeeks
    BY <2>6 DEF RunSeeks
  <2>7. CASE RetriesInPlace
    BY <2>7 DEF RetriesInPlace
  <2>8. CASE OutOfRetries
    BY <2>8 DEF OutOfRetries
  <2>9. CASE NothingDelivered
    BY <2>9 DEF NothingDelivered
  <2> QED
    BY <1>4, <2>1, <2>2, <2>3, <2>4, <2>5, <2>6, <2>7, <2>8, <2>9 DEF Settle
<1>5. CASE StopReturns
  BY <1>5 DEF StopReturns
<1>6. CASE RequestReturns
  BY <1>6 DEF RequestReturns
<1>7. CASE TakeGenerationRestartPending
  BY <1>7 DEF TakeGenerationRestartPending
<1>8. CASE UNCHANGED vars
  BY <1>8 DEF vars
<1> QED
  BY <1>1, <1>2, <1>3, <1>4, <1>5, <1>6, <1>7, <1>8 DEF Next, Worker

(* The places of the owner and the worker, the state and the result are known. *)
LEMMA PlacesStep == PlacesTyped /\ [Next]_vars => PlacesTyped'
<1> USE DEF PlacesTyped
<1> USE DEF vars, requestVars, probeVars, generationVars, resilienceVars, historyVars
<1> SUFFICES ASSUME PlacesTyped, [Next]_vars PROVE PlacesTyped'
  OBVIOUS
<1>1. CASE Request \/ StopReturns \/ RequestReturns \/ TakeGenerationRestartPending
  BY <1>1 DEF Request, Start, StopBegins, PauseBegins, ResumeBegins, RequestSeek,
     StopReturns, RequestReturns, TakeGenerationRestartPending
<1>2. CASE Preflight
  BY <1>2 DEF Preflight, ProgramMissing, RunBegins, ProbeMetadata, ReportFailed,
     StoppedBeforeGeneration, FormatUnresolved, FfmpegMissing, GenerationsBegin
<1>3. CASE Generation
  BY <1>3 DEF Generation, Choose, OpenFails, OpenSucceeds, NoticesStop, NoticesSeek,
     SeeksInPlace, ReadBegins, ReadReturns, ReadFails, DropsPacket, DeliversVideo,
     DeliversAudio, GenerationEnds, PumpFrame
<1>4. CASE Settle
  BY <1>4 DEF Settle, DirectUndelivered, LadderContinues, FallsBackToSoftware,
     FeedEnds, RunStopped, RunSeeks, RetriesInPlace, OutOfRetries, NothingDelivered,
     ReportFailed
<1>5. CASE UNCHANGED vars
  BY <1>5
<1> QED
  BY <1>1, <1>2, <1>3, <1>4, <1>5 DEF Next, Worker

(* Positions stay in the video, retries in their budget; a run that ends for a   *)
(* seek has a target: the worker alone consumes the request.                     *)
LEMMA NumbersStep == PlacesTyped /\ NumbersTyped /\ [Next]_vars => NumbersTyped'
<1> USE SourceAssumption DEF SourceAssumption, NumbersTyped, Positions, None
<1> USE DEF vars, requestVars, probeVars, generationVars, resilienceVars, historyVars
<1> SUFFICES ASSUME PlacesTyped, NumbersTyped, [Next]_vars PROVE NumbersTyped'
  OBVIOUS
<1>1. CASE Request \/ StopReturns \/ RequestReturns \/ TakeGenerationRestartPending
  BY <1>1 DEF Request, Start, StopBegins, PauseBegins, ResumeBegins, RequestSeek,
     StopReturns, RequestReturns, TakeGenerationRestartPending
<1>2. CASE Preflight
  <2>1. CASE ProbeMetadata
    BY <2>1, FeedTyped DEF ProbeMetadata, PlacesTyped
  <2>2. CASE GenerationsBegin
    BY <2>2 DEF GenerationsBegin, ResumePosition
  <2> QED
    BY <1>2, <2>1, <2>2 DEF Preflight, ProgramMissing, RunBegins, ReportFailed,
       StoppedBeforeGeneration, FormatUnresolved, FfmpegMissing
<1>3. CASE Generation
  <2>1. CASE Choose \/ OpenFails \/ OpenSucceeds
    BY <2>1 DEF Choose, OpenFails, OpenSucceeds
  <2>2. CASE SeeksInPlace
    BY <2>2 DEF SeeksInPlace, GenerationEnds, PumpFrame
  <2>3. CASE NoticesStop \/ NoticesSeek \/ ReadFails
    BY <2>3 DEF NoticesStop, NoticesSeek, ReadFails, GenerationEnds, PumpFrame
  <2>4. CASE DeliversVideo
    BY <2>4 DEF DeliversVideo, PumpFrame
  <2> QED
    BY <1>3, <2>1, <2>2, <2>3, <2>4 DEF Generation, ReadBegins, ReadReturns,
       DropsPacket, DeliversAudio, PumpFrame
<1>4. CASE Settle
  <2>1. CASE RetriesInPlace \/ OutOfRetries
    <3>1. Playhead \in Positions
      BY PlayheadTyped
    <3> QED
      BY <2>1, <3>1 DEF RetriesInPlace, OutOfRetries, RetryLeft, AttemptsAfter,
         ReportFailed
  <2>2. CASE FeedEnds \/ RunStopped
    BY <2>2 DEF FeedEnds, RunStopped, AttemptsAfter, ReportFailed
  <2>3. CASE RunSeeks
    BY <2>3 DEF RunSeeks, ResultStands
  <2> QED
    BY <1>4, <2>1, <2>2, <2>3 DEF Settle, DirectUndelivered, LadderContinues,
       FallsBackToSoftware, NothingDelivered, ReportFailed
<1>5. CASE UNCHANGED vars
  BY <1>5
<1> QED
  BY <1>1, <1>2, <1>3, <1>4, <1>5 DEF Next, Worker

(* The types of YtdlpSource hold for every length of the video, retry budget and *)
(* choice of videos: no playhead leaves the video, no retry exceeds the budget.  *)
THEOREM TypeCorrect == Spec => []TypeOK
<1>1. Init => FlagsTyped /\ PlacesTyped
  BY DEF Init, FlagsTyped, PlacesTyped, Handed
<1>2. Init => NumbersTyped
  BY SourceAssumption DEF SourceAssumption, Init, NumbersTyped, Positions, None
<1> QED
  BY <1>1, <1>2, FlagsStep, PlacesStep, NumbersStep, PTL DEF Spec, TypeOK

-----------------------------------------------------------------------------
(* A restart is announced before the units that follow it *)

\* How the announcement keeps up with the worker.  While a generation is sought for, the
\* announcement is pending, or will be made because the generation begins beyond zero, or
\* the consumer was handed nothing; in a generation, what it was handed is of this
\* generation unless an announcement is pending.
AnnouncedInRun ==
  /\ handed = "earlier" => fresh
  /\ pc \in {"begin", "probing", "probed"} => handed = "nothing"
  /\ pc \in {"choosing", "opening", "reprobing", "reprobed"} /\ handed = "current"
       => fresh \/ startSec > 0
  /\ pc \in {"pumping", "reading", "pacing"} /\ handed = "current" => delivered
  /\ pc = "result" /\ handed = "current" => delivered \/ fresh \/ startSec > 0

LEMMA AnnouncedStep ==
  TypeOK /\ AnnouncedInRun /\ [Next]_vars => AnnouncedInRun'
<1> USE DEF AnnouncedInRun
<1> USE DEF vars, requestVars, probeVars, generationVars, resilienceVars, historyVars
<1> SUFFICES ASSUME TypeOK, AnnouncedInRun, [Next]_vars PROVE AnnouncedInRun'
  OBVIOUS
<1>1. CASE Request \/ StopReturns \/ RequestReturns \/ TakeGenerationRestartPending
  BY <1>1 DEF Request, Start, StopBegins, PauseBegins, ResumeBegins, RequestSeek,
     StopReturns, RequestReturns, TakeGenerationRestartPending
<1>2. CASE Preflight
  <2>1. CASE GenerationsBegin
    BY <2>1 DEF GenerationsBegin
  <2>2. CASE ProbeMetadata
    <3>1. UNCHANGED <<handed, fresh, startSec>>
      BY <2>2 DEF ProbeMetadata
    <3>2. \/ pc = "probing" /\ pc' = "probed"
          \/ pc = "reprobing" /\ pc' = "reprobed"
      BY <2>2 DEF ProbeMetadata
    <3> QED
      BY <3>1, <3>2
  <2> QED
    BY <1>2, <2>1, <2>2 DEF Preflight, ProgramMissing, RunBegins, ReportFailed,
       StoppedBeforeGeneration, FormatUnresolved, FfmpegMissing
<1>3. CASE Generation
  <2>1. CASE OpenSucceeds
    BY <2>1 DEF OpenSucceeds, SectionBegins
  <2>2. CASE SeeksInPlace
    BY <2>2 DEF SeeksInPlace, SectionBegins, GenerationEnds, PumpFrame
  <2>3. CASE DeliversVideo
    BY <2>3 DEF DeliversVideo, PumpFrame
  <2>4. CASE Choose \/ OpenFails
    BY <2>4 DEF Choose, OpenFails
  <2> QED
    BY <1>3, <2>1, <2>2, <2>3, <2>4 DEF Generation, NoticesStop, NoticesSeek,
       ReadBegins, ReadReturns, ReadFails, DropsPacket, DeliversAudio, GenerationEnds,
       PumpFrame
<1>4. CASE Settle
  <2>1. CASE RunSeeks
    <3>1. seekTo \in Nat
      BY <2>1 DEF RunSeeks, ResultStands, TypeOK, NumbersTyped, Positions
    <3> QED
      BY <2>1, <3>1 DEF RunSeeks
  <2>2. CASE RetriesInPlace
    BY <2>2 DEF RetriesInPlace
  <2>3. CASE DirectUndelivered
    <3>1. UNCHANGED <<handed, fresh, startSec>> /\ pc = "result" /\ ~delivered
      BY <2>3 DEF DirectUndelivered
    <3>2. pc' \in {"reprobing", "opening"}
      BY <2>3 DEF DirectUndelivered
    <3> QED
      BY <3>1, <3>2
  <2>4. CASE LadderContinues
    BY <2>4 DEF LadderContinues
  <2>5. CASE FallsBackToSoftware
    BY <2>5 DEF FallsBackToSoftware, ResultStands
  <2> QED
    BY <1>4, <2>1, <2>2, <2>3, <2>4, <2>5 DEF Settle, FeedEnds, RunStopped, OutOfRetries,
       NothingDelivered, ReportFailed
<1>5. CASE UNCHANGED vars
  BY <1>5
<1> QED
  BY <1>1, <1>2, <1>3, <1>4, <1>5 DEF Next, Worker

(* Whatever the video and the budget: once the fetch has moved on from a section *)
(* of which the consumer was handed video, an announcement is waiting for it, by *)
(* whichever retry, seek, fetch path or encoder the worker got there; the only   *)
(* section that begins unannounced is one the pipe was sought back to zero for.  *)
THEOREM RestartsAnnounced == Spec => []RestartAnnounced
<1>1. Init => AnnouncedInRun
  BY DEF Init, AnnouncedInRun
<1>2. AnnouncedInRun => RestartAnnounced
  BY DEF AnnouncedInRun, RestartAnnounced
<1> QED
  BY <1>1, <1>2, TypeCorrect, AnnouncedStep, PTL DEF Spec

-----------------------------------------------------------------------------
(* The playhead survives a failure *)

InRun == pc \in {"choosing", "opening", "pumping", "reading", "pacing", "result",
                 "reprobing", "reprobed"}

\* A run past its probe knows whether the video is live; only a video that is not
\* live has a playhead to keep.
LivenessKnown ==
  /\ resolved \/ InRun => live = feed.live
  /\ keep # None => ~live /\ ~feed.live

\* stop() is being called for as long as a run can see its flag.
StopIsCalled ==
  /\ stop /\ pc # "none" => owner = "stopping"
  /\ pc = "result" /\ result = "Stopped" => stop

\* Where the kept playhead is carried: in the run's start position, and from the end
\* of a run to the generations of the next one in m_pendingResumeSec.
PlayheadCarried ==
  keep >= ResumeFloor /\ ~missed =>
    /\ InRun => startSec >= keep
    /\ pc \in {"pumping", "reading", "pacing"} => position >= keep
    /\ pc \in {"none", "begin", "probing", "probed"} => pendingResume >= keep
    /\ pc = "ended" /\ owner # "stopping" => pendingResume >= keep

LEMMA LivenessKnownStep ==
  TypeOK /\ LivenessKnown /\ [Next]_vars => LivenessKnown'
<1> USE DEF LivenessKnown, InRun
<1> USE DEF vars, requestVars, probeVars, generationVars, resilienceVars, historyVars
<1> SUFFICES ASSUME TypeOK, LivenessKnown, [Next]_vars PROVE LivenessKnown'
  OBVIOUS
<1>1. CASE Request \/ StopReturns \/ RequestReturns \/ TakeGenerationRestartPending
  BY <1>1 DEF Request, Start, StopBegins, PauseBegins, ResumeBegins, RequestSeek,
     StopReturns, RequestReturns, TakeGenerationRestartPending
<1>2. CASE Preflight
  <2>1. CASE ProbeMetadata
    <3>1. live' = feed.live \/ (live' = live /\ ~resolved')
      BY <2>1 DEF ProbeMetadata
    <3>2. UNCHANGED <<feed, keep>> /\ (InRun' => InRun)
      BY <2>1 DEF ProbeMetadata
    <3> QED
      BY <3>1, <3>2
  <2>2. CASE GenerationsBegin
    <3>1. live = feed.live
      BY <2>2 DEF GenerationsBegin
    <3>2. UNCHANGED <<live, feed, resolved, keep>>
      BY <2>2 DEF GenerationsBegin
    <3> QED
      BY <3>1, <3>2
  <2>3. CASE ProgramMissing \/ RunBegins \/ StoppedBeforeGeneration
    BY <2>3 DEF ProgramMissing, RunBegins, ReportFailed, StoppedBeforeGeneration
  <2>4. CASE FormatUnresolved \/ FfmpegMissing
    BY <2>4 DEF FormatUnresolved, FfmpegMissing, ReportFailed
  <2> QED
    BY <1>2, <2>1, <2>2, <2>3, <2>4 DEF Preflight
<1>3. CASE Generation
  BY <1>3 DEF Generation, Choose, OpenFails, OpenSucceeds, NoticesStop, NoticesSeek,
     SeeksInPlace, ReadBegins, ReadReturns, ReadFails, DropsPacket, DeliversVideo,
     DeliversAudio, GenerationEnds, PumpFrame
<1>4. CASE Settle
  BY <1>4 DEF Settle, DirectUndelivered, LadderContinues, FallsBackToSoftware,
     FeedEnds, RunStopped, RunSeeks, RetriesInPlace, OutOfRetries, NothingDelivered,
     ReportFailed, BrokeOff, ResultStands
<1>5. CASE UNCHANGED vars
  BY <1>5
<1> QED
  BY <1>1, <1>2, <1>3, <1>4, <1>5 DEF Next, Worker

LEMMA StopIsCalledStep == StopIsCalled /\ [Next]_vars => StopIsCalled'
<1> USE DEF StopIsCalled
<1> USE DEF vars, requestVars, probeVars, generationVars, resilienceVars, historyVars
<1> SUFFICES ASSUME StopIsCalled, [Next]_vars PROVE StopIsCalled'
  OBVIOUS
<1>1. CASE Request \/ StopReturns \/ RequestReturns \/ TakeGenerationRestartPending
  BY <1>1 DEF Request, Start, StopBegins, PauseBegins, ResumeBegins, RequestSeek,
     StopReturns, RequestReturns, TakeGenerationRestartPending
<1>2. CASE Preflight
  <2>1. CASE ProbeMetadata
    BY <2>1 DEF ProbeMetadata
  <2>2. CASE GenerationsBegin
    BY <2>2 DEF GenerationsBegin
  <2>3. CASE ProgramMissing \/ RunBegins \/ StoppedBeforeGeneration
    BY <2>3 DEF ProgramMissing, RunBegins, ReportFailed, StoppedBeforeGeneration
  <2>4. CASE FormatUnresolved \/ FfmpegMissing
    BY <2>4 DEF FormatUnresolved, FfmpegMissing, ReportFailed
  <2> QED
    BY <1>2, <2>1, <2>2, <2>3, <2>4 DEF Preflight
<1>3. CASE Generation
  BY <1>3 DEF Generation, Choose, OpenFails, OpenSucceeds, NoticesStop, NoticesSeek,
     SeeksInPlace, ReadBegins, ReadReturns, ReadFails, DropsPacket, DeliversVideo,
     DeliversAudio, GenerationEnds, PumpFrame
<1>4. CASE Settle
  <2>1. CASE DirectUndelivered \/ LadderContinues \/ FallsBackToSoftware
    BY <2>1 DEF DirectUndelivered, LadderContinues, FallsBackToSoftware
  <2>2. CASE FeedEnds \/ RunStopped \/ NothingDelivered
    BY <2>2 DEF FeedEnds, RunStopped, NothingDelivered, ReportFailed, BrokeOff,
       ResultStands
  <2>3. CASE RunSeeks \/ RetriesInPlace \/ OutOfRetries
    BY <2>3 DEF RunSeeks, RetriesInPlace, OutOfRetries, ReportFailed, BrokeOff,
       ResultStands
  <2> QED
    BY <1>4, <2>1, <2>2, <2>3 DEF Settle
<1>5. CASE UNCHANGED vars
  BY <1>5
<1> QED
  BY <1>1, <1>2, <1>3, <1>4, <1>5 DEF Next, Worker

LEMMA PlayheadStep ==
  TypeOK /\ LivenessKnown /\ StopIsCalled /\ PlayheadCarried /\ [Next]_vars
    => PlayheadCarried'
<1> USE SourceAssumption DEF SourceAssumption, PlayheadCarried, InRun, None
<1> USE DEF vars, requestVars, probeVars, generationVars, resilienceVars, historyVars
<1> SUFFICES ASSUME TypeOK, LivenessKnown, StopIsCalled, PlayheadCarried, [Next]_vars
             PROVE  PlayheadCarried'
  OBVIOUS
<1>1. CASE Start
  BY <1>1 DEF Start
<1>2. CASE StopBegins \/ PauseBegins \/ ResumeBegins \/ RequestSeek
  BY <1>2 DEF StopBegins, PauseBegins, ResumeBegins, RequestSeek
<1>3. CASE StopReturns \/ RequestReturns \/ TakeGenerationRestartPending
  BY <1>3 DEF StopReturns, RequestReturns, TakeGenerationRestartPending
<1>4. CASE Preflight
  <2>1. CASE GenerationsBegin
    <3>1. SUFFICES ASSUME keep >= ResumeFloor, ~missed PROVE startSec' >= keep
      BY <2>1 DEF GenerationsBegin
    <3>2. keep # None /\ pendingResume >= keep
      BY <2>1, <3>1 DEF GenerationsBegin
    <3>3. pendingResume >= ResumeFloor /\ ~live
      BY <3>1, <3>2 DEF LivenessKnown, TypeOK, NumbersTyped, Positions
    <3> QED
      BY <2>1, <3>2, <3>3 DEF GenerationsBegin, ResumePosition
  <2> QED
    BY <1>4, <2>1 DEF Preflight, ProgramMissing, RunBegins, ProbeMetadata, ReportFailed,
       StoppedBeforeGeneration, FormatUnresolved, FfmpegMissing, StopIsCalled
<1>5. CASE Generation
  <2>1. CASE OpenSucceeds
    BY <2>1 DEF OpenSucceeds, SectionBegins
  <2>2. CASE DeliversVideo
    <3>1. position' >= position
      BY <2>2 DEF DeliversVideo, TypeOK, NumbersTyped, Positions
    <3> QED
      BY <2>2, <3>1 DEF DeliversVideo, PumpFrame, TypeOK, NumbersTyped, Positions
  <2>3. CASE SeeksInPlace
    BY <2>3 DEF SeeksInPlace
  <2> QED
    BY <1>5, <2>1, <2>2, <2>3 DEF Generation, Choose, OpenFails, NoticesStop,
       NoticesSeek, ReadBegins, ReadReturns, ReadFails, DropsPacket, DeliversAudio,
       GenerationEnds, PumpFrame
<1>6. CASE Settle
  <2>1. CASE RetriesInPlace
    BY <2>1 DEF RetriesInPlace, Playhead, MaxOf, TypeOK, NumbersTyped, Positions
  <2>2. CASE OutOfRetries
    BY <2>2 DEF OutOfRetries, Playhead, MaxOf, ReportFailed, TypeOK, NumbersTyped, Positions
  <2>3. CASE RunStopped
    BY <2>3 DEF RunStopped, ResultStands, StopIsCalled
  <2> QED
    BY <1>6, <2>1, <2>2, <2>3 DEF Settle, DirectUndelivered, LadderContinues,
       FallsBackToSoftware, FeedEnds, RunSeeks, NothingDelivered, ReportFailed,
       BrokeOff, ResultStands
<1>7. CASE UNCHANGED vars
  BY <1>7
<1> QED
  BY <1>1, <1>2, <1>3, <1>4, <1>5, <1>6, <1>7 DEF Next, Request, Worker

(* Whatever the video and the budget: the generation that follows upon a failure *)
(* takes up no earlier than the playhead, in the same run or in the next one.    *)
THEOREM RetriesNeverRewind == Spec => []RetryNeverRewinds
<1>1. Init => LivenessKnown /\ StopIsCalled /\ PlayheadCarried
  BY SourceAssumption DEF SourceAssumption, Init, LivenessKnown, InRun, StopIsCalled,
     PlayheadCarried, None
<1>2. PlayheadCarried => RetryNeverRewinds
  BY DEF PlayheadCarried, RetryNeverRewinds
<1> QED
  BY <1>1, <1>2, TypeCorrect, LivenessKnownStep, StopIsCalledStep, PlayheadStep, PTL
     DEF Spec

=============================================================================
