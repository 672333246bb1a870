---------------------------- MODULE YtdlpSource -----------------------------
(***************************************************************************)
(* YtdlpSource (ytdlp/ytdlpsource.cpp): a YouTube stream as a run of       *)
(* generations.  The worker thread probes the video, then opens one        *)
(* generation after another: with FFmpeg's HLS reader on the direct URL of *)
(* the probe, or through the pipe of a yt-dlp child.  A generation ends    *)
(* when it is stopped, sought (on the pipe), at the end of the feed or     *)
(* with a failure, and run() decides what comes next: a retry at the       *)
(* playhead, the other fetch path, the software encoder, or Failed, upon   *)
(* which the reconnect timer of the pipeline calls start() again.          *)
(*                                                                         *)
(* The owner's thread calls start(), stop() and the playback requests.     *)
(* These share only atomics with the worker, so each step of a request     *)
(* interleaves with the steps of the worker.                               *)
(*                                                                         *)
(* Positions are counted in steps of a few seconds.  What the network and  *)
(* yt-dlp do (a probe, an open, a read, whether a generation lasted the    *)
(* kHealthyWindowSeconds) is a choice, and nothing bounds how often they   *)
(* fail.  Codec negotiation, the packets' clocks and the texts of events   *)
(* are left out; a failed allocation or child process is an open that      *)
(* fails, a packet that cannot be transcoded a read that fails.            *)
(***************************************************************************)
EXTENDS Integers

CONSTANTS LastPosition,     \* the end of a video, in steps
          EndMargin,        \* the 5 s before the end that still count as the end
          ResumeFloor,      \* kResumeFloorSeconds
          MaxStallRetries,  \* kMaxStallRetries
          Failures,         \* whether probes, opens and reads may fail
          Feeds             \* the videos considered, see Feed

\* What the probe finds out about a video: whether it is live, its duration (0 when
\* it is unknown or live), and whether its codec is converted by an encoder.
Feed == [live : BOOLEAN, duration : {0, LastPosition}, converts : BOOLEAN]

ASSUME SourceAssumption ==
    /\ LastPosition \in Nat \ {0}
    /\ EndMargin \in Nat
    /\ ResumeFloor \in Nat \ {0}
    /\ MaxStallRetries \in Nat
    /\ Failures \in BOOLEAN
    /\ Feeds \subseteq Feed
    /\ \A f \in Feeds : f.live => f.duration = 0

VARIABLES
    feed,            \* the configured video; it does not change across runs
    \* the owner's thread, and the atomics it writes
    owner,           \* the call it is in
    stop,            \* m_stop
    paused,          \* m_paused
    seekTo,          \* m_seekToMs
    \* what the owner and the pipeline see
    state,           \* StreamSource::m_state
    position,        \* m_positionSec
    fresh,           \* m_freshGeneration
    \* what the probe found
    probed,          \* m_probed
    resolved,        \* m_formatResolved
    live,            \* m_live
    duration,        \* m_durationSec
    directUrl,       \* m_directUrl is not empty
    \* the worker's run and its current generation
    pc,              \* where it is in run()
    startSec,        \* its local startSec
    useNvenc,        \* m_useNvenc
    direct,          \* the generation reads the direct URL, m_directActive
    delivered,       \* m_lastGenerationDelivered
    result,          \* the GenerationResult
    \* what a reconnect carries over
    pendingResume,   \* m_pendingResumeSec
    stallRetries,    \* m_stallRetries
    directAttempts,  \* m_directAttempts; 2 stands for any number above 1
    gaveUp,          \* m_directGaveUp
    \* history
    handed,          \* the video handed over since the consumer last took an
                     \* announcement: see Handed
    keep,            \* the playhead at which delivery last broke off
    missed           \* a generation has since been the end of its run without
                     \* delivering anything

requestVars    == <<stop, paused, seekTo>>
probeVars      == <<probed, resolved, live, duration, directUrl>>
generationVars == <<direct, delivered, result>>
resilienceVars == <<pendingResume, stallRetries, directAttempts, gaveUp>>
historyVars    == <<handed, keep, missed>>

vars == <<feed, owner, requestVars, state, position, fresh, probeVars, pc, startSec,
          useNvenc, generationVars, resilienceVars, historyVars>>

\* Nothing; units of the section being fetched; units of an earlier section, the fetch
\* having moved on since; units of a section the pipe was then sought back from to zero.
Handed == {"nothing", "current", "earlier", "rewound"}

None == -1
Positions == 0 .. LastPosition

Init ==
    /\ feed \in Feeds
    /\ owner = "loop"
    /\ stop = FALSE /\ paused = FALSE /\ seekTo = None
    /\ state = "Idle" /\ position = 0 /\ fresh = FALSE
    /\ probed = FALSE /\ resolved = FALSE /\ live = FALSE /\ duration = 0
    /\ directUrl = FALSE
    /\ pc = "none" /\ startSec = 0 /\ useNvenc = FALSE
    /\ direct = FALSE /\ delivered = FALSE /\ result = "Failed"
    /\ pendingResume = None /\ stallRetries = 0 /\ directAttempts = 0
    /\ gaveUp = FALSE
    /\ handed = "nothing" /\ keep = None /\ missed = FALSE

-----------------------------------------------------------------------------
(* The owner: start(), stop() and the playback requests *)

\* A source is started once and, by the reconnect timer, whenever a run has reported
\* Failed: the thread of that run only has to be joined.  What a reconnect needs is
\* not cleared.  The pipeline has told its worker of the reconnect by a flag of its own
\* (m_pendingGateReset), and after a stop it is a new pipeline.
Start ==
    /\ owner = "loop"
    /\ pc \in {"none", "ended"}
    /\ pc' = "begin"
    /\ stop' = FALSE
    /\ paused' = FALSE
    /\ seekTo' = None
    /\ handed' = "nothing"
    /\ UNCHANGED <<feed, owner, state, position, fresh, probeVars, startSec, useNvenc,
                   generationVars, resilienceVars, keep, missed>>

\* Mutant: stop() joins the thread without telling it to stop.
StopBeginsSilently ==
    /\ owner = "loop"
    /\ owner' = "stopping"
    /\ paused' = FALSE
    /\ UNCHANGED <<feed, stop, seekTo, state, position, fresh, probeVars, pc, startSec,
                   useNvenc, generationVars, resilienceVars, historyVars>>

\* stop() up to the join.
StopBegins ==
    /\ owner = "loop"
    /\ owner' = "stopping"
    /\ stop' = TRUE
    /\ paused' = FALSE
    /\ UNCHANGED <<feed, seekTo, state, position, fresh, probeVars, pc, startSec,
                   useNvenc, generationVars, resilienceVars, historyVars>>

\* The rest of stop(): the next start replays from zero and probes again.
StopReturns ==
    /\ owner = "stopping"
    /\ pc \in {"none", "ended"}
    /\ owner' = "loop"
    /\ pc' = "none"
    /\ pendingResume' = None
    /\ stallRetries' = 0
    /\ directAttempts' = 0
    /\ gaveUp' = FALSE
    /\ probed' = FALSE
    /\ directUrl' = FALSE
    /\ keep' = None
    /\ missed' = FALSE
    /\ UNCHANGED <<feed, requestVars, state, position, fresh, resolved, live, duration,
                   startSec, useNvenc, generationVars, handed>>

\* requestPause() reads the state, then sets the flag, then reports Paused.
PauseBegins ==
    /\ owner = "loop"
    /\ state = "Running"
    /\ ~paused
    /\ paused' = TRUE
    /\ owner' = "pausing"
    /\ UNCHANGED <<feed, stop, seekTo, state, position, fresh, probeVars, pc, startSec,
                   useNvenc, generationVars, resilienceVars, historyVars>>

ResumeBegins ==
    /\ owner = "loop"
    /\ paused
    /\ paused' = FALSE
    /\ owner' = "resuming"
    /\ UNCHANGED <<feed, stop, seekTo, state, position, fresh, probeVars, pc, startSec,
                   useNvenc, generationVars, resilienceVars, historyVars>>

RequestReturns ==
    /\ owner \in {"pausing", "resuming"}
    /\ state' = IF owner = "pausing" THEN "Paused" ELSE "Running"
    /\ owner' = "loop"
    /\ UNCHANGED <<feed, requestVars, position, fresh, probeVars, pc, startSec,
                   useNvenc, generationVars, resilienceVars, historyVars>>

\* requestSeek(): a live feed refuses it, and a target past a known end is the end.
RequestSeek ==
    /\ owner = "loop"
    /\ ~live
    /\ seekTo' \in Positions
    /\ keep' = None
    /\ missed' = FALSE
    /\ UNCHANGED <<feed, owner, stop, paused, state, position, fresh, probeVars, pc,
                   startSec, useNvenc, generationVars, resilienceVars, handed>>

\* The pipeline's worker consumes the announcement.
TakeGenerationRestartPending ==
    /\ fresh
    /\ fresh' = FALSE
    /\ handed' = "nothing"
    /\ UNCHANGED <<feed, owner, requestVars, state, position, probeVars, pc, startSec,
                   useNvenc, generationVars, resilienceVars, keep, missed>>

-----------------------------------------------------------------------------
(* The worker: run() up to the first generation *)

\* directEligible()
DirectEligible == directUrl /\ ~gaveUp

\* yt-dlp cannot be found: the run ends before it reports Connecting.
ProgramMissing ==
    /\ Failures
    /\ pc = "begin"
    /\ pc' = "ended"
    /\ state' = "Failed"
    /\ UNCHANGED <<feed, owner, requestVars, position, fresh, probeVars, startSec,
                   useNvenc, generationVars, resilienceVars, historyVars>>

RunBegins ==
    /\ pc = "begin"
    /\ pc' = IF probed THEN "probed" ELSE "probing"
    /\ state' = "Connecting"
    /\ UNCHANGED <<feed, owner, requestVars, position, fresh, probeVars, startSec,
                   useNvenc, generationVars, resilienceVars, historyVars>>

\* probeMetadata(), before the first generation or after a direct URL failed.  It
\* answers, or fails, is cancelled by stop() or finds no codec that can be used.  A
\* video that is converted has no direct URL.
ProbeMetadata ==
    /\ pc \in {"probing", "reprobing"}
    /\ pc' = IF pc = "probing" THEN "probed" ELSE "reprobed"
    /\ probed' = TRUE
    /\ \/ /\ resolved' = TRUE
          /\ live' = feed.live
          /\ duration' = feed.duration
          /\ directUrl' \in {FALSE, ~feed.converts}
       \/ /\ Failures \/ stop
          /\ resolved' = FALSE
          /\ directUrl' = FALSE
          /\ UNCHANGED <<live, duration>>
    /\ UNCHANGED <<feed, owner, requestVars, state, position, fresh, startSec, useNvenc,
                   generationVars, resilienceVars, historyVars>>

\* The run is over and reports it.
ReportFailed ==
    /\ state' = "Failed"
    /\ pc' = "ended"

StoppedBeforeGeneration ==
    /\ pc = "probed"
    /\ stop
    /\ pc' = "ended"
    /\ UNCHANGED <<feed, owner, requestVars, state, position, fresh, probeVars, startSec,
                   useNvenc, generationVars, resilienceVars, historyVars>>

FormatUnresolved ==
    /\ pc = "probed"
    /\ ~stop
    /\ ~resolved
    /\ probed' = FALSE
    /\ ReportFailed
    /\ UNCHANGED <<feed, owner, requestVars, position, fresh, resolved, live, duration,
                   directUrl, startSec, useNvenc, generationVars, resilienceVars,
                   historyVars>>

FfmpegMissing ==
    /\ Failures
    /\ pc = "probed"
    /\ ~stop
    /\ resolved
    /\ ~DirectEligible
    /\ ReportFailed
    /\ UNCHANGED <<feed, owner, requestVars, position, fresh, probeVars, startSec,
                   useNvenc, generationVars, resilienceVars, historyVars>>

\* Mutant: the position a failed run left behind is not used.
ResumePositionIgnored == 0

\* Where the first generation of a run begins.
ResumePosition ==
    IF pendingResume >= ResumeFloor /\ ~live THEN pendingResume ELSE 0

\* The encoder is chosen, and the position a failed run left behind is consumed.
GenerationsBegin ==
    /\ pc = "probed"
    /\ ~stop
    /\ resolved
    /\ pc' = "choosing"
    /\ IF feed.converts THEN useNvenc' \in BOOLEAN ELSE UNCHANGED useNvenc
    /\ startSec' = ResumePosition
    /\ fresh' = (fresh \/ ResumePosition > 0)
    /\ pendingResume' = None
    /\ UNCHANGED <<feed, owner, requestVars, state, position, probeVars, generationVars,
                   stallRetries, directAttempts, gaveUp, historyVars>>

-----------------------------------------------------------------------------
(* The worker: opening a generation *)

\* Mutant: the attempts on the direct URL are not counted.
ChooseUncounted ==
    /\ pc = "choosing"
    /\ pc' = "opening"
    /\ delivered' = FALSE
    /\ direct' = DirectEligible
    /\ directAttempts' = IF DirectEligible THEN 1 ELSE directAttempts
    /\ UNCHANGED <<feed, owner, requestVars, state, position, fresh, probeVars, startSec,
                   useNvenc, result, pendingResume, stallRetries, gaveUp, historyVars>>

\* The top of the generation loop.
Choose ==
    /\ pc = "choosing"
    /\ pc' = "opening"
    /\ delivered' = FALSE
    /\ direct' = DirectEligible
    /\ directAttempts' = IF DirectEligible THEN (IF directAttempts = 0 THEN 1 ELSE 2)
                                           ELSE directAttempts
    /\ UNCHANGED <<feed, owner, requestVars, state, position, fresh, probeVars, startSec,
                   useNvenc, result, pendingResume, stallRetries, gaveUp, historyVars>>

\* A generation that cannot be opened.  A stop request interrupts any open, a seek
\* request the open of a pipe; the network may fail whatever is requested.
OpenFails ==
    /\ pc = "opening"
    /\ Failures \/ stop \/ (~direct /\ seekTo # None)
    /\ pc' = "result"
    /\ result' = "Failed"
    /\ UNCHANGED <<feed, owner, requestVars, state, position, fresh, probeVars, startSec,
                   useNvenc, direct, delivered, resilienceVars, historyVars>>

\* The units to come are of another section than those handed over.
SectionBegins ==
    handed' = IF handed = "current" \/ (handed = "rewound" /\ fresh') THEN "earlier"
                                                                     ELSE handed

\* Every section has timestamps of its own, at zero as elsewhere; one that does not begin
\* at zero is announced here.
OpenSucceeds ==
    /\ pc = "opening"
    /\ ~stop
    /\ direct \/ seekTo = None
    /\ pc' = "pumping"
    /\ state' = "Running"
    /\ fresh' = (fresh \/ startSec > 0)
    /\ SectionBegins
    /\ position' = startSec
    /\ UNCHANGED <<feed, owner, requestVars, probeVars, startSec, useNvenc,
                   generationVars, resilienceVars, keep, missed>>

-----------------------------------------------------------------------------
(* The worker: pumpPackets() *)

\* The generation is torn down.  Stopped and Seek end a pause.
GenerationEnds(r) ==
    /\ pc' = "result"
    /\ result' = r
    /\ paused' = (paused /\ r \notin {"Stopped", "Seek"})

PumpFrame ==
    UNCHANGED <<feed, owner, stop, state, probeVars, startSec, useNvenc, direct,
                resilienceVars>>

NoticesStop ==
    /\ pc = "pumping"
    /\ stop
    /\ GenerationEnds("Stopped")
    /\ UNCHANGED <<seekTo, position, fresh, delivered, historyVars>>
    /\ PumpFrame

\* The pipe cannot seek: run() opens another generation for it.
NoticesSeek ==
    /\ pc = "pumping"
    /\ ~stop
    /\ seekTo # None
    /\ ~direct
    /\ GenerationEnds("Seek")
    /\ UNCHANGED <<seekTo, position, fresh, delivered, historyVars>>
    /\ PumpFrame

\* The HLS reader seeks in place, and announces that its timeline restarted.
SeeksInPlace ==
    /\ pc = "pumping"
    /\ ~stop
    /\ seekTo # None
    /\ direct
    /\ seekTo' = None
    /\ keep' = None
    /\ missed' = FALSE
    /\ \/ /\ position' = seekTo
          /\ fresh' = TRUE
          /\ SectionBegins
          /\ UNCHANGED <<pc, result, paused>>
       \/ /\ Failures
          /\ GenerationEnds("Failed")
          /\ UNCHANGED <<position, fresh, handed>>
    /\ UNCHANGED delivered
    /\ PumpFrame

ReadBegins ==
    /\ pc = "pumping"
    /\ ~stop
    /\ seekTo = None
    /\ ~paused
    /\ pc' = "reading"
    /\ UNCHANGED <<requestVars, position, fresh, delivered, result, historyVars>>
    /\ PumpFrame

\* A packet is read; before it is delivered it waits for its time.
ReadReturns ==
    /\ pc = "reading"
    /\ pc' = "pacing"
    /\ UNCHANGED <<requestVars, position, fresh, delivered, result, historyVars>>
    /\ PumpFrame

\* The read returns an error or the end of the feed, or a request interrupts it.
ReadFails ==
    /\ pc = "reading"
    /\ \/ stop /\ GenerationEnds("Stopped")
       \/ ~stop /\ seekTo # None /\ pc' = "pumping" /\ UNCHANGED <<paused, result>>
       \/ ~stop /\ seekTo = None /\ GenerationEnds("Ended")
       \/ ~stop /\ seekTo = None /\ Failures /\ GenerationEnds("Failed")
    /\ UNCHANGED <<seekTo, position, fresh, delivered, historyVars>>
    /\ PumpFrame

\* Mutant: the wait for a packet's time does not look at the requests while paused.
DropsPacketUnlessPaused ==
    /\ pc = "pacing"
    /\ ~paused
    /\ stop \/ seekTo # None
    /\ pc' = "pumping"
    /\ UNCHANGED <<requestVars, position, fresh, delivered, result, historyVars>>
    /\ PumpFrame

\* A request ends the wait, and the packet is dropped.
DropsPacket ==
    /\ pc = "pacing"
    /\ stop \/ seekTo # None
    /\ pc' = "pumping"
    /\ UNCHANGED <<requestVars, position, fresh, delivered, result, historyVars>>
    /\ PumpFrame

\* A video packet moves the playhead.
DeliversVideo ==
    /\ pc = "pacing"
    /\ ~stop
    /\ seekTo = None
    /\ ~paused
    /\ pc' = "pumping"
    /\ position' \in {position, position + 1} \cap Positions
    /\ delivered' = TRUE
    /\ handed' = IF handed = "nothing" THEN "current" ELSE handed
    /\ UNCHANGED <<requestVars, fresh, result, keep, missed>>
    /\ PumpFrame

DeliversAudio ==
    /\ pc = "pacing"
    /\ ~stop
    /\ seekTo = None
    /\ ~paused
    /\ pc' = "pumping"
    /\ UNCHANGED <<requestVars, position, fresh, delivered, result, historyVars>>
    /\ PumpFrame

-----------------------------------------------------------------------------
(* The worker: what follows a generation *)

\* The direct URL died before any video arrived, whatever ended the generation: one
\* more probe for a fresh URL, then the pipe for good.
DirectUndelivered ==
    /\ pc = "result"
    /\ direct
    /\ ~delivered
    /\ \/ /\ directAttempts = 1
          /\ probed' = FALSE
          /\ pc' = "reprobing"
          /\ UNCHANGED <<gaveUp, direct>>
       \/ /\ directAttempts # 1
          /\ gaveUp' = TRUE
          /\ pc' = "opening"
          /\ direct' = FALSE
          /\ UNCHANGED probed
    /\ UNCHANGED <<feed, owner, requestVars, state, position, fresh, resolved, live,
                   duration, directUrl, startSec, useNvenc, delivered, result,
                   pendingResume, stallRetries, directAttempts, historyVars>>

\* The second probe is in: the direct URL once more, or the pipe.
LadderContinues ==
    /\ pc = "reprobed"
    /\ pc' = IF DirectEligible THEN "choosing" ELSE "opening"
    /\ direct' = (direct /\ DirectEligible)
    /\ UNCHANGED <<feed, owner, requestVars, state, position, fresh, probeVars, startSec,
                   useNvenc, delivered, result, resilienceVars, historyVars>>

\* The generation's result stands.
ResultStands == pc = "result" /\ (delivered \/ ~direct)

\* The encoder of the graphics card failed before any packet: software, once.
FallsBackToSoftware ==
    /\ ResultStands
    /\ result = "Failed" /\ ~delivered /\ useNvenc /\ ~stop
    /\ useNvenc' = FALSE
    /\ pc' = "choosing"
    /\ UNCHANGED <<feed, owner, requestVars, state, position, fresh, probeVars, startSec,
                   generationVars, resilienceVars, historyVars>>

\* Whether the end of the feed came too early to be the end of the video.
Premature == delivered /\ ~live /\ duration > 0 /\ position + EndMargin < duration

\* A generation that ran long enough earns new attempts on the direct URL.
AttemptsAfter(healthy) == IF direct /\ delivered /\ healthy THEN 0 ELSE directAttempts

FeedEnds ==
    /\ ResultStands
    /\ result = "Ended"
    /\ ~Premature
    /\ ReportFailed
    /\ keep' = None
    /\ missed' = FALSE
    /\ \E healthy \in BOOLEAN : directAttempts' = AttemptsAfter(healthy)
    /\ UNCHANGED <<feed, owner, requestVars, position, fresh, probeVars, startSec,
                   useNvenc, generationVars, pendingResume, stallRetries, gaveUp,
                   handed>>

RunStopped ==
    /\ ResultStands
    /\ result = "Stopped"
    /\ pc' = "ended"
    /\ paused' = (paused /\ direct)
    /\ \E healthy \in BOOLEAN : directAttempts' = AttemptsAfter(healthy)
    /\ UNCHANGED <<feed, owner, stop, seekTo, state, position, fresh, probeVars, startSec,
                   useNvenc, generationVars, pendingResume, stallRetries, gaveUp,
                   historyVars>>

\* The child is gone; a pause requested while it was torn down is ended as well.
RunSeeks ==
    /\ ResultStands
    /\ result = "Seek"
    /\ pc' = "choosing"
    /\ startSec' = seekTo
    /\ seekTo' = None
    /\ paused' = FALSE
    /\ handed' = IF handed = "current" /\ seekTo = 0 THEN "rewound" ELSE handed
    /\ keep' = None
    /\ missed' = FALSE
    /\ UNCHANGED <<feed, owner, stop, state, position, fresh, probeVars,
                   useNvenc, generationVars, resilienceVars>>

MaxOf(a, b) == IF a < b THEN b ELSE a

\* Mutant: the retry begins where the failed generation began.
PlayheadForgotten == IF live THEN 0 ELSE startSec

\* Where a generation that broke off is taken up again.
Playhead == IF live THEN 0 ELSE MaxOf(startSec, position)

\* Mutant: one retry too many.
RetryLeftOnceMore(retries) == retries <= MaxStallRetries

RetryLeft(retries) == retries < MaxStallRetries

BrokeOff == ResultStands /\ (result = "Failed" \/ (result = "Ended" /\ Premature))

\* Mutant: the retry leaves the announcement to the open of the next generation.
RetriesInPlaceSilently ==
    /\ BrokeOff
    /\ delivered
    /\ \E healthy \in BOOLEAN :
          LET retries == IF healthy THEN 0 ELSE stallRetries
          IN  /\ RetryLeft(retries)
              /\ stallRetries' = retries + 1
              /\ directAttempts' = AttemptsAfter(healthy)
    /\ pc' = "choosing"
    /\ startSec' = Playhead
    /\ keep' = IF live THEN None ELSE position
    /\ missed' = FALSE
    /\ UNCHANGED <<feed, owner, requestVars, state, position, fresh, probeVars, useNvenc,
                   generationVars, pendingResume, gaveUp, handed>>

\* A generation that delivered is retried in place.
RetriesInPlace ==
    /\ BrokeOff
    /\ delivered
    /\ \E healthy \in BOOLEAN :
          LET retries == IF healthy THEN 0 ELSE stallRetries
          IN  /\ RetryLeft(retries)
              /\ stallRetries' = retries + 1
              /\ directAttempts' = AttemptsAfter(healthy)
    /\ pc' = "choosing"
    /\ startSec' = Playhead
    /\ fresh' = TRUE
    /\ keep' = IF live THEN None ELSE position
    /\ missed' = FALSE
    /\ UNCHANGED <<feed, owner, requestVars, state, position, probeVars, useNvenc,
                   generationVars, pendingResume, gaveUp, handed>>

\* No retry is left: the position is handed to the next run.
OutOfRetries ==
    /\ BrokeOff
    /\ delivered
    /\ \E healthy \in BOOLEAN :
          LET retries == IF healthy THEN 0 ELSE stallRetries
          IN  /\ ~RetryLeft(retries)
              /\ stallRetries' = retries
              /\ directAttempts' = AttemptsAfter(healthy)
    /\ pendingResume' = IF live THEN pendingResume ELSE Playhead
    /\ keep' = IF live THEN None ELSE position
    /\ missed' = FALSE
    /\ ReportFailed
    /\ UNCHANGED <<feed, owner, requestVars, position, fresh, probeVars, startSec,
                   useNvenc, generationVars, gaveUp, handed>>

\* A generation that delivered nothing ends the run.
NothingDelivered ==
    /\ BrokeOff
    /\ ~delivered
    /\ stop \/ ~useNvenc
    /\ missed' = TRUE
    /\ ReportFailed
    /\ UNCHANGED <<feed, owner, requestVars, position, fresh, probeVars, startSec,
                   useNvenc, generationVars, resilienceVars, handed, keep>>

-----------------------------------------------------------------------------
Request == Start \/ StopBegins \/ PauseBegins \/ ResumeBegins \/ RequestSeek

Preflight ==
    \/ ProgramMissing \/ RunBegins \/ ProbeMetadata \/ StoppedBeforeGeneration
    \/ FormatUnresolved \/ FfmpegMissing \/ GenerationsBegin

Generation ==
    \/ Choose \/ OpenFails \/ OpenSucceeds
    \/ NoticesStop \/ NoticesSeek \/ SeeksInPlace \/ ReadBegins \/ ReadReturns
    \/ ReadFails \/ DropsPacket \/ DeliversVideo \/ DeliversAudio

Settle ==
    \/ DirectUndelivered \/ LadderContinues \/ FallsBackToSoftware \/ FeedEnds
    \/ RunStopped \/ RunSeeks \/ RetriesInPlace \/ OutOfRetries \/ NothingDelivered

Worker == Preflight \/ Generation \/ Settle

Next == Request \/ StopReturns \/ RequestReturns \/ TakeGenerationRestartPending \/ Worker

\* The worker's waits are bounded (socket and stall timeouts, the probe's budget), with
\* one exception: the stall clock of the pipe stands still while the stream is paused.
StallClockStopped == pc = "reading" /\ ~direct /\ paused /\ ~stop /\ seekTo = None

Fairness ==
    /\ WF_vars(Worker /\ ~StallClockStopped)
    /\ WF_vars(StopReturns)
    /\ WF_vars(RequestReturns)

Spec == Init /\ [][Next]_vars
FairSpec == Spec /\ Fairness

-----------------------------------------------------------------------------
\* The values every variable takes.
FlagsTyped ==
    /\ stop \in BOOLEAN /\ paused \in BOOLEAN /\ fresh \in BOOLEAN
    /\ probed \in BOOLEAN /\ resolved \in BOOLEAN /\ live \in BOOLEAN
    /\ directUrl \in BOOLEAN /\ useNvenc \in BOOLEAN /\ direct \in BOOLEAN
    /\ delivered \in BOOLEAN /\ gaveUp \in BOOLEAN
    /\ handed \in Handed /\ missed \in BOOLEAN

PlacesTyped ==
    /\ feed \in Feeds
    /\ owner \in {"loop", "stopping", "pausing", "resuming"}
    /\ state \in {"Idle", "Connecting", "Running", "Paused", "Failed"}
    /\ pc \in {"none", "begin", "probing", "probed", "choosing", "opening", "pumping",
               "reading", "pacing", "result", "reprobing", "reprobed", "ended"}
    /\ result \in {"Stopped", "Seek", "Ended", "Failed"}

NumbersTyped ==
    /\ seekTo \in Positions \cup {None}
    /\ startSec \in Positions /\ position \in Positions
    /\ pendingResume \in Positions \cup {None}
    /\ keep \in Positions \cup {None}
    /\ duration \in {0, LastPosition}
    /\ stallRetries \in 0 .. MaxStallRetries
    /\ directAttempts \in 0 .. 2
    /\ pc = "result" /\ result = "Seek" => seekTo # None

TypeOK == FlagsTyped /\ PlacesTyped /\ NumbersTyped

\* Units of two sections never reach the consumer as one: if the fetch has moved on since
\* the consumer last took an announcement and was handed video, another one is waiting for
\* it, so that it closes its sinks before the next unit.  The worker may have got there by
\* a seek in place or on the pipe, by a retry on either fetch path, at the playhead or at
\* zero, through any number of opens that failed.  A seek of the pipe back to zero is left
\* to SeekAnnounced.
RestartAnnounced == handed = "earlier" => fresh

\* After delivery broke off, the next generation that can be opened takes up no earlier
\* than the playhead, in the same run by way of either fetch path and either encoder, or
\* in the next run, unless a generation in between, an in-place retry or the first of a
\* later run, has delivered nothing and ended its run: the position is lost then, see
\* ReconnectsAtPlayhead.
RetryNeverRewinds ==
    pc \in {"pumping", "reading", "pacing"} /\ keep >= ResumeFloor /\ ~missed
        => position >= keep

\* A run gets to its first packet or ends: the ladder of fetch paths, probes and
\* encoders is finite although each of them may fail every time.
RunSettles == pc = "begin" ~> pc \in {"pumping", "ended"}

\* A seek is taken up, paused or not, unless the run ends before.
SeekServed == seekTo # None ~> seekTo = None \/ pc \in {"none", "ended"}

\* stop() returns from whatever the worker is doing.
StopCompletes == owner = "stopping" ~> owner = "loop"

\* What the comments of the code promise and the code does not do.

\* A seek is announced like every other section: what follows it reaches no consumer that
\* was handed units from before it and has not been told.
SeekAnnounced ==
    pc \in {"pumping", "reading", "pacing"} /\ handed \in {"earlier", "rewound"} => fresh

\* Delivery is taken up no earlier than the playhead at which it broke off, whether or
\* not a generation in between delivered nothing and ended its run.
ReconnectsAtPlayhead ==
    pc \in {"pumping", "reading", "pacing"} /\ keep >= ResumeFloor => position >= keep

\* A generation that broke off is taken up at the playhead and not beyond it, whatever
\* seeks were served before.
NeverSkipsAhead == pc = "opening" /\ keep # None => startSec <= keep

\* Where nothing fails, a running stream is reported as Failed at the end of its feed
\* only: a seek is no feed error.  To be checked with Failures = FALSE.
SeekIsNoFeedError ==
    [][state = "Running" /\ state' = "Failed" => result = "Ended" \/ stop]_vars

=============================================================================
