---------------------------- MODULE StreamPreview ----------------------------
(***************************************************************************)
(* The viewer of a stream (streampreview.cpp), with the decoders and the   *)
(* filter it runs (videodecoder.cpp, videofilter.cpp, audiodecoder.cpp)    *)
(* and the end of the pipeline that feeds it (streampipeline.cpp).         *)
(*                                                                         *)
(* Three threads meet in it.  The user interface attaches and detaches the *)
(* window, mutes it, and shuts the viewer down once the worker is joined.  *)
(* The worker of the pipeline hands it every unit and runs the decoders,   *)
(* whose callbacks check again, unit by unit, what the user interface may  *)
(* have changed meanwhile.  The thread of the audio device drains a ring   *)
(* the worker fills.  They share five atomic flags and a mutex for the     *)
(* ring: every access is a step of its own here, in program order.         *)
(*                                                                         *)
(* Abstractions.  A unit is a keyframe or not, and is never empty; a unit  *)
(* yields at most one frame, or one block of audio, maybe one of an        *)
(* earlier unit that the decoder held back.  Pixels, sizes and samples are *)
(* left out.  There is one window, which closes when its stream stops.     *)
(***************************************************************************)
EXTENDS Naturals, Sequences

CONSTANT RingSize  \* kAudioRingSamples, counted in blocks

ASSUME StreamPreviewAssumption == RingSize \in Nat \ {0}

VARIABLES
    running,       \* the worker of the pipeline is there
    sawKeyframe,   \* m_sawKeyframe of the pipeline: its gate is open
    sinksOpen,     \* m_sinksOpen of the pipeline
    negotiated,    \* m_format names the codecs of the stream
    playable,      \* the default audio output takes the format
    active,        \* m_active
    resetPending,  \* m_resetPending
    hasFrame,      \* m_hasFrame
    targetSink,    \* m_targetSink is not null
    muted,         \* m_muted
    audioSink,     \* m_audioSink is there and playing
    gui,           \* what the user interface is in the middle of
    decoder,       \* m_decoderOpen and m_decoderFailed
    waiting,       \* m_waitingForKeyframe
    filter,        \* m_filterReady and m_filterFailed
    audioDecoder,  \* m_audioDecoderOpen and m_audioDecoderFailed
    work,          \* what the worker is in the middle of
    unit,          \* the unit of video it works on
    ring,          \* m_audioRing: of each block, whether it is from before the last time
                   \* the ring was cleared
    seen,          \* history: the window that is attached was given a frame
    late,          \* history: so is the block being decoded
    old,           \* history: what the decoder holds began before the last arming
    carried,       \* history: what the decoder holds began before the window was attached
    shown,         \* history: the frames given to a window since the last arming: see Shown
    fed,           \* history: the last unit of video went to the decoder
    whole          \* history: the decoder saw all of a run of units from a keyframe on

pipeline == << running, sawKeyframe, sinksOpen, negotiated, playable >>
flags    == << active, resetPending, hasFrame, targetSink, muted >>
decoders == << decoder, waiting, filter, audioDecoder >>
audio    == << ring, late >>
past     == << old, carried, shown, fed, whole, seen >>
vars     == << pipeline, flags, audioSink, gui, decoders, work, unit, audio, past >>

\* Its history says whether it went to a decoder that began before the last arming, or
\* before the window was attached.
Unit(key) == [key |-> key, stale |-> FALSE, early |-> FALSE]

\* None; one that builds on what came before the arming; of those after it; and one of
\* the former where it does not belong, behind another.
Shown == {"nothing", "old", "new", "mixed"}

(* The viewer of a pipeline that was just started.                         *)
Init ==
    /\ running = TRUE /\ sawKeyframe = FALSE /\ sinksOpen = FALSE /\ negotiated = FALSE
    /\ playable \in BOOLEAN
    /\ active = FALSE /\ resetPending = FALSE /\ hasFrame = FALSE
    /\ targetSink = FALSE /\ muted = FALSE
    /\ audioSink = FALSE /\ gui = "idle"
    /\ decoder = "closed" /\ filter = "closed" /\ audioDecoder = "closed" /\ waiting = TRUE
    /\ work = "idle" /\ unit = Unit(FALSE)
    /\ ring = << >> /\ late = FALSE
    /\ old = FALSE /\ carried = FALSE /\ shown = "nothing"
    /\ fed = FALSE /\ whole = TRUE /\ seen = FALSE

-----------------------------------------------------------------------------
(* Parts of the operations.                                                *)

Decoding == work \in {"block", "push"}

\* What if the ring were left as it is.
EmptiedNot(r) == r

Emptied(r) == << >>

(* m_audioRing.clear(): the block in the hands of the worker escapes it.   *)
ClearRing ==
    /\ ring' = Emptied([i \in 1..Len(ring) |-> TRUE])
    /\ late' = (late \/ Decoding)

OpenAudioOutput ==
    audioSink' = (audioSink \/ (~muted /\ negotiated /\ playable))

CloseAudioOutput == audioSink' = FALSE /\ ClearRing

CloseDecoders ==
    /\ decoder' = "closed" /\ filter' = "closed" /\ audioDecoder' = "closed"
    /\ waiting' = TRUE

Opened == "open" \in {decoder, audioDecoder}

(* m_resetPending was set: what is decoded, or on its way to the window,   *)
(* is from before.                                                         *)
Armed == old' = TRUE /\ shown' = "nothing" /\ unit' = [unit EXCEPT !.stale = TRUE]

-----------------------------------------------------------------------------
(* The user interface.                                                     *)

(* attachTo(): the sink first, setActive() then.                           *)
Attach ==
    /\ running /\ gui = "idle"
    /\ targetSink' = TRUE /\ carried' = (carried \/ ~targetSink)
    /\ gui' = "attaching"
    /\ UNCHANGED << pipeline, active, resetPending, hasFrame, muted, audioSink,
                    decoders, work, unit, audio, old, shown, fed, whole, seen >>

Activate ==
    /\ gui = "attaching"
    /\ active' = TRUE
    /\ gui' = IF active THEN "idle" ELSE "activated"
    /\ UNCHANGED << pipeline, resetPending, hasFrame, targetSink, muted, audioSink,
                    decoders, work, unit, audio, past >>

Arm ==
    /\ gui = "activated"
    /\ resetPending' = TRUE /\ Armed
    /\ gui' = "armed"
    /\ UNCHANGED << pipeline, active, hasFrame, targetSink, muted, audioSink,
                    decoders, work, audio, carried, fed, whole, seen >>

\* What if a window that attaches took the frame of the one before for its own.
AwaitShown ==
    /\ gui = "armed"
    /\ OpenAudioOutput
    /\ gui' = "idle"
    /\ UNCHANGED << pipeline, flags, decoders, work, unit, audio, past >>

Await ==
    /\ gui = "armed"
    /\ hasFrame' = FALSE
    /\ OpenAudioOutput
    /\ gui' = "idle"
    /\ UNCHANGED << pipeline, active, resetPending, targetSink, muted,
                    decoders, work, unit, audio, past >>

Detach ==
    /\ gui = "idle"
    /\ targetSink' = FALSE /\ seen' = FALSE
    /\ gui' = "detaching"
    /\ UNCHANGED << pipeline, active, resetPending, hasFrame, muted, audioSink,
                    decoders, work, unit, audio, old, carried, shown, fed, whole >>

Deactivate ==
    /\ gui = "detaching"
    /\ active' = FALSE
    /\ IF active THEN CloseAudioOutput ELSE UNCHANGED << audioSink, audio >>
    /\ gui' = "idle"
    /\ UNCHANGED << pipeline, resetPending, hasFrame, targetSink, muted,
                    decoders, work, unit, past >>

(* setMuted(): the flag first, the audio output then.                      *)
ToggleMute ==
    /\ running /\ gui = "idle"
    /\ muted' = ~muted
    /\ gui' = "muting"
    /\ UNCHANGED << pipeline, active, resetPending, hasFrame, targetSink, audioSink,
                    decoders, work, unit, audio, past >>

ApplyMute ==
    /\ gui = "muting"
    /\ UNCHANGED muted
    /\ \/ muted /\ CloseAudioOutput
       \/ ~muted /\ active /\ OpenAudioOutput /\ UNCHANGED audio
       \/ ~muted /\ ~active /\ UNCHANGED << audioSink, audio >>
    /\ gui' = "idle"
    /\ UNCHANGED << pipeline, active, resetPending, hasFrame, targetSink,
                    decoders, work, unit, past >>

(* stop() of the pipeline: the worker is joined, the viewer shut down.     *)
Shutdown ==
    /\ running /\ gui = "idle" /\ work = "idle"
    /\ running' = FALSE /\ sinksOpen' = FALSE
    /\ CloseDecoders
    /\ CloseAudioOutput
    /\ fed' = FALSE
    /\ UNCHANGED << sawKeyframe, negotiated, playable, flags, gui, work, unit, old, carried,
                    shown, whole, seen >>

(* The window of a stopped stream has closed, and detached: the viewer is  *)
(* deleted with its pipeline.                                              *)
Gone == ~running /\ gui = "idle" /\ ~active /\ UNCHANGED vars

-----------------------------------------------------------------------------
(* The worker: units of video.                                             *)

(* The source began another timeline, or reconnected: the pipeline shuts   *)
(* its gate and resets the viewer, in three accesses to what it shares,    *)
(* before it looks at the unit it popped.                                  *)
Restart ==
    /\ running /\ work = "idle"
    /\ sinksOpen' = FALSE /\ sawKeyframe' = FALSE
    /\ resetPending' = TRUE /\ Armed
    /\ work' = "resetting"
    /\ UNCHANGED << running, negotiated, playable, active, hasFrame, targetSink, muted,
                    audioSink, gui, decoders, audio, carried, fed, whole, seen >>

ResetFrame ==
    /\ work = "resetting"
    /\ hasFrame' = FALSE
    /\ work' = "clearing"
    /\ UNCHANGED << pipeline, active, resetPending, targetSink, muted, audioSink, gui,
                    decoders, unit, audio, past >>

ResetRing ==
    /\ work = "clearing"
    /\ ClearRing
    /\ work' = "popped"
    /\ UNCHANGED << pipeline, flags, audioSink, gui, decoders, unit, past >>

Popped == running /\ work \in {"idle", "popped"}

(* A keyframe that opens the gate pushes the format, then opens the sinks; *)
(* when none opens, the unit goes no further, the gate stays open.         *)
Gate(key, opens) ==
    IF sawKeyframe
    THEN UNCHANGED << sawKeyframe, sinksOpen, negotiated >>
    ELSE sawKeyframe' = key /\ sinksOpen' = (key /\ opens) /\ negotiated' = (negotiated \/ key)

(* writeVideo() without a viewer: what was left open is closed.            *)
\* What if the decoder were left open, and if only an open decoder of video counted.
TearDownNot == UNCHANGED decoders

TearDownVideo ==
    IF decoder = "open" THEN CloseDecoders ELSE UNCHANGED decoders

TearDown ==
    IF Opened THEN CloseDecoders ELSE UNCHANGED decoders

VideoUnit(key, opens) ==
    /\ Popped
    /\ Gate(key, opens)
    /\ IF sawKeyframe \/ (key /\ opens)
       THEN IF active
            THEN /\ work' = "video"
                 /\ unit' = Unit(key)
                 /\ UNCHANGED << decoders, fed >>
            ELSE /\ TearDown
                 /\ fed' = FALSE
                 /\ work' = "idle"
                 /\ UNCHANGED unit
       ELSE work' = "idle" /\ fed' = FALSE /\ UNCHANGED << decoders, unit >>
    /\ UNCHANGED << running, playable, flags, audioSink, gui, audio, old, carried,
                    shown, whole, seen >>

-----------------------------------------------------------------------------
(* The rest of writeVideo(): a pending reset is applied, a decoder opened, *)
(* the unit decoded unless it comes before the first keyframe.             *)

AfterReset(value, closed) == IF resetPending THEN closed ELSE value

(* The decoder the unit meets, when opening one succeeds or not.           *)
Meets(opens) ==
    LET held == AfterReset(decoder, "closed")
    IN  IF held = "closed" THEN IF opens THEN "open" ELSE "failed" ELSE held

\* What if a reset did not raise the gate.
GatedLoosely == waiting

Gated == waiting \/ AfterReset(decoder, "closed") = "closed" \/ resetPending

Feed(yields) ==
    /\ waiting' = FALSE
    /\ old' = (old /\ ~Gated)
    /\ carried' = (carried /\ ~Gated)
    /\ whole' = (unit.key \/ (whole /\ fed))
    /\ fed' = TRUE
    /\ unit' = [unit EXCEPT !.stale = old', !.early = carried']
    /\ work' = IF yields THEN "decoded" ELSE "idle"

Skip ==
    /\ fed' = FALSE
    /\ work' = "idle"
    /\ UNCHANGED << unit, old, carried, whole >>

Decode(opens, yields) ==
    /\ work = "video"
    /\ resetPending' = FALSE
    /\ decoder' = Meets(opens)
    /\ filter' = IF AfterReset(decoder, "closed") = "closed" THEN "closed" ELSE filter
    /\ audioDecoder' = AfterReset(audioDecoder, "closed")
    /\ \/ decoder' = "open" /\ (Gated => unit.key) /\ Feed(yields)
       \/ decoder' = "open" /\ Gated /\ ~unit.key /\ waiting' = TRUE /\ Skip
       \/ decoder' = "failed" /\ waiting' = AfterReset(waiting, TRUE) /\ Skip
    /\ UNCHANGED << pipeline, active, hasFrame, targetSink, muted, audioSink, gui, audio,
                    shown, seen >>

(* onDecodedVideo(): the first frame of a session builds the filter.       *)
FilterFrame(opens, yields) ==
    /\ work = "decoded"
    /\ filter' = IF active /\ filter = "closed" THEN IF opens THEN "open" ELSE "failed"
                 ELSE filter
    /\ work' = IF active /\ filter' = "open" /\ yields THEN "filtered" ELSE "idle"
    /\ UNCHANGED << pipeline, flags, audioSink, gui, decoder, waiting, audioDecoder,
                    unit, audio, past >>

(* onFilteredVideo(), between its accesses to what it shares: the frame is *)
(* announced before it is given to the window, if there still is one.      *)
CheckFrame ==
    /\ work = "filtered"
    /\ work' = IF active THEN "ready" ELSE "idle"
    /\ UNCHANGED << pipeline, flags, audioSink, gui, decoders, unit, audio, past >>

PublishFrame ==
    /\ work = "ready"
    /\ hasFrame' = TRUE
    /\ work' = "published"
    /\ UNCHANGED << pipeline, active, resetPending, targetSink, muted, audioSink, gui,
                    decoders, unit, audio, past >>

LoadSink ==
    /\ work = "published"
    /\ work' = IF targetSink THEN "loaded" ELSE "idle"
    /\ UNCHANGED << pipeline, flags, audioSink, gui, decoders, unit, audio, past >>

\* The frame goes to the window that was loaded, though it may have been detached since.
DeliverFrame ==
    /\ work = "loaded"
    /\ seen' = (seen \/ targetSink)
    /\ shown' = IF unit.stale THEN IF shown = "nothing" THEN "old" ELSE "mixed"
                ELSE IF shown = "mixed" THEN "mixed" ELSE "new"
    /\ work' = "idle"
    /\ UNCHANGED << pipeline, flags, audioSink, gui, decoders, unit, audio, old, carried, fed,
                    whole >>

-----------------------------------------------------------------------------
(* The worker: units of audio, which reach the viewer while sinks are open.*)

AudioUnit(opens, yields) ==
    /\ Popped
    /\ audioDecoder' = IF sinksOpen /\ active /\ audioDecoder = "closed"
                       THEN IF opens THEN "open" ELSE "failed"
                       ELSE audioDecoder
    /\ work' = IF sinksOpen /\ active /\ audioDecoder' = "open" /\ yields
               THEN "block" ELSE "idle"
    /\ late' = FALSE
    /\ UNCHANGED << pipeline, flags, audioSink, gui, decoder, waiting, filter, unit, ring, past >>

(* onDecodedAudio(), up to the lock, and under it.                         *)
CheckBlock ==
    /\ work = "block"
    /\ work' = IF active /\ ~muted THEN "push" ELSE "idle"
    /\ UNCHANGED << pipeline, flags, audioSink, gui, decoders, unit, audio, past >>

\* What if the ring grew while nothing drains it.
ShedNot(r) == r

Shed(r) == IF Len(r) = RingSize THEN Tail(r) ELSE r

PushBlock ==
    /\ work = "push"
    /\ ring' = Append(Shed(ring), late)
    /\ work' = "idle"
    /\ UNCHANGED << pipeline, flags, audioSink, gui, decoders, unit, late, past >>

(* readFromRing(), on the thread of the audio device.                      *)
ReadFromRing ==
    /\ audioSink /\ ring # << >>
    /\ ring' = Tail(ring)
    /\ UNCHANGED << pipeline, flags, audioSink, gui, decoders, work, unit, late, past >>

-----------------------------------------------------------------------------
Gui ==
    Attach \/ Activate \/ Arm \/ Await \/ Detach \/ Deactivate \/ ToggleMute \/ ApplyMute
    \/ Shutdown \/ Gone

Worker ==
    \/ \E a, b \in BOOLEAN :
          VideoUnit(a, b) \/ Decode(a, b) \/ FilterFrame(a, b) \/ AudioUnit(a, b)
    \/ Restart \/ ResetFrame \/ ResetRing
    \/ CheckFrame \/ PublishFrame \/ LoadSink \/ DeliverFrame \/ CheckBlock \/ PushBlock

Next == Gui \/ Worker \/ ReadFromRing

(* The handlers of the user interface and of the worker run to their end.  *)
(* A stream that runs keeps delivering keyframes that open its sinks, and  *)
(* a decoder and a filter that are fed keep yielding frames.               *)
GuiEnds == Activate \/ Arm \/ Await \/ Deactivate \/ ApplyMute

WorkerEnds ==
    \/ \E a, b \in BOOLEAN : Decode(a, b) \/ FilterFrame(a, b)
    \/ ResetFrame \/ ResetRing
    \/ CheckFrame \/ PublishFrame \/ LoadSink \/ DeliverFrame \/ CheckBlock \/ PushBlock

Fairness ==
    /\ WF_vars(GuiEnds) /\ WF_vars(WorkerEnds)
    /\ SF_vars(VideoUnit(TRUE, TRUE))
    /\ SF_vars(\E a \in BOOLEAN : Decode(a, TRUE) /\ unit.key)
    /\ SF_vars(\E a \in BOOLEAN : FilterFrame(a, TRUE))

Spec == Init /\ [][Next]_vars /\ Fairness

-----------------------------------------------------------------------------
PipelineTypeOK ==
    /\ running \in BOOLEAN /\ sawKeyframe \in BOOLEAN /\ sinksOpen \in BOOLEAN
    /\ negotiated \in BOOLEAN /\ playable \in BOOLEAN

FlagsTypeOK ==
    /\ active \in BOOLEAN /\ resetPending \in BOOLEAN /\ hasFrame \in BOOLEAN
    /\ targetSink \in BOOLEAN /\ muted \in BOOLEAN /\ audioSink \in BOOLEAN
    /\ gui \in {"idle", "attaching", "activated", "armed", "detaching", "muting"}

DecodersTypeOK ==
    /\ decoder \in {"closed", "open", "failed"} /\ filter \in {"closed", "open", "failed"}
    /\ audioDecoder \in {"closed", "open", "failed"} /\ waiting \in BOOLEAN

WorkTypeOK ==
    /\ work \in {"idle", "resetting", "clearing", "popped", "video", "decoded", "filtered",
                 "ready", "published", "loaded", "block", "push"}
    /\ unit \in [key : BOOLEAN, stale : BOOLEAN, early : BOOLEAN]
    /\ old \in BOOLEAN /\ carried \in BOOLEAN /\ shown \in Shown
    /\ fed \in BOOLEAN /\ whole \in BOOLEAN /\ seen \in BOOLEAN

RingTypeOK ==
    /\ ring \in Seq(BOOLEAN) /\ Len(ring) <= RingSize
    /\ late \in BOOLEAN

TypeOK == PipelineTypeOK /\ FlagsTypeOK /\ DecodersTypeOK /\ WorkTypeOK /\ RingTypeOK

(* A decoder is never given a unit whose predecessor it did not see,       *)
(* unless that unit is a keyframe ("the units arriving here may start      *)
(* mid-GOP, which a decoder must not see"), however attaching, detaching   *)
(* and restarts fall between the units.                                    *)
DecoderSeesWholeRuns == whole

(* Of the picture from before the viewer was last armed, by attaching or   *)
(* by a restart, at most the one frame on its way at the time is shown     *)
(* after it, and first: all others build on a keyframe that was decoded    *)
(* after the arming, however the window is closed, opened and reset        *)
(* between the steps of the worker.                                        *)
OldPictureIsOneFrame == shown # "mixed"

(* Of what was heard before the viewer was detached, muted or reset, at    *)
(* most the block being decoded at the time is heard after it, and first.  *)
OldAudioIsOneBlock == \A i \in 2..Len(ring) : ~ring[i]

(* A window that is told it has a frame to show has been given one, once   *)
(* the user interface and the worker have finished what they were doing,   *)
(* whatever frame was on its way when it was attached.                     *)
HasFrameIsSeen ==
    hasFrame /\ active /\ gui = "idle" /\ work \notin {"published", "loaded"} => seen

Failed == "failed" \in {decoder, filter}

(* A viewer that stays attached to a stream shows a frame time and again,  *)
(* unless its decoder or its filter does not open; one that stays detached *)
(* stops decoding.                                                         *)
ViewerFollowsWindow ==
    /\ []<>(hasFrame \/ ~active \/ ~running \/ Failed)
    /\ []<>(~Opened \/ active)

(* What a comment promises and the code does not do: "the first frame      *)
(* shown after attaching is always the next keyframe, never a mid-GOP      *)
(* unit".                                                                  *)
FirstFrameIsKeyframe ==
    work = "loaded" /\ targetSink /\ ~seen => ~unit.early \/ unit.key
=============================================================================
