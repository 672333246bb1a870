--------------------------- MODULE SinkTimestamps ---------------------------
(***************************************************************************)
(* The clocks of a stream, from the packets of an SRT feed to what the     *)
(* sinks put on their units (srtsource.cpp, tsmulticastsink.cpp,           *)
(* rtpmulticastsink.cpp, rtspsink.cpp, ndisink.cpp).                       *)
(*                                                                         *)
(* A feed has a timeline of its own, of which the sinks only see the low   *)
(* 32 bits: of the decode clock and the presentation clock of a video unit *)
(* (90 kHz) and of the clock of the audio (its sample rate).  A sink       *)
(* unwraps each of them, rebases it on the first unit of its session, and  *)
(* hands the result to a muxer that refuses a decode time that does not    *)
(* advance.  The transport stream sink alone guards against a feed that    *)
(* starts over in the middle of a session.                                 *)
(*                                                                         *)
(* Abstractions.  A clock wraps at Wrap instead of 2^32, and an audio tick *)
(* is Ratio video ticks, so rescaling between the two is exact.  Payloads, *)
(* the muxers themselves and writes that fail are left out: no clock of a  *)
(* sink depends on them.  Of the players of an RTSP sink there is one.     *)
(***************************************************************************)
EXTENDS Integers

CONSTANTS Wrap,          \* 2^32, where a clock starts over
          Ratio,         \* video ticks per audio tick
          FirstTimes,    \* positions a feed may start at
          AudioShifts,   \* the audio clock at the zero of the video clock
          VideoSteps,    \* decode time between two units of video
          AudioSteps,    \* audio ticks between two units of audio
          Delays,        \* presentation time after decode time, for B-frames
          MaxSkew,       \* how far apart audio and video may be in the feed
          FrameStep,     \* 3000, one frame at 30 fps, where a packet has no time
          AudioStep,     \* 960 or 1024, one frame of audio, likewise
          MinVideoStep,  \* 3000, the step keepMonotonic() forces on video
          MinAudioStep,  \* 1800, and the one it forces on audio
          OpenSets,      \* the sinks that may be open together, among Sinks
          None,          \* a value that is not there
          MaxTime,       \* bound on the position of the feed
          MaxFaults      \* bound on the packets without their times, and on the times the
                         \* feed starts over, in one run of the source

Sinks == {"ts", "rtp", "rtsp", "ndi"}

ASSUME SinkTimestampsAssumption ==
    /\ Wrap \in Nat /\ Wrap % 2 = 0 /\ Wrap > 0
    /\ Ratio \in Nat \ {0}
    /\ FirstTimes \subseteq Nat /\ AudioShifts \subseteq Nat
    /\ VideoSteps \subseteq Nat \ {0} /\ AudioSteps \subseteq Nat \ {0}
    /\ Delays \subseteq Nat
    /\ \A s \in VideoSteps, b, c \in Delays :
          -Wrap < 2 * (s + c - b) /\ 2 * (s + c - b) < Wrap
    /\ \A s \in VideoSteps \cup AudioSteps : 2 * s < Wrap
    /\ \A b \in Delays : b < Wrap
    /\ MaxSkew \in Nat /\ FrameStep \in Nat /\ AudioStep \in Nat
    /\ MinVideoStep \in Nat \ {0} /\ MinAudioStep \in Nat \ {0}
    /\ OpenSets \subseteq SUBSET Sinks
    /\ None \notin Int \cup {"waiting", "started"}
    /\ MaxTime \in Nat /\ MaxFaults \in Nat

VARIABLES
    now,        \* position of the feed: decode time of its last unit of video
    shown,      \* presentation time of that unit
    heard,      \* time of its last unit of audio, in audio ticks
    shift,      \* what the audio clock is ahead in this run of the source
    faults,     \* what went wrong with the feed in this run, see MaxFaults
    source,     \* lastVideoTs and lastAudioTs of the source
    open,       \* the sinks that are open
    ts,         \* the members of TsMulticastSink
    rtp,        \* those of RtpMulticastSink
    rtsp,       \* those of RtspSink, and ptsBase of its player
    ndi,        \* those of NdiSink
    out,        \* what each sink last handed on
    intact,     \* history: since the sinks opened, the clocks they saw are those of the feed
    zero        \* history: where the session of a sink began in the feed, see NoZero

feedVars == <<now, shown, heard, shift, faults, source>>
sinkVars == <<open, ts, rtp, rtsp, ndi>>
vars == <<feedVars, sinkVars, out, intact, zero>>

-----------------------------------------------------------------------------
(* Unwrapping, the same code in each sink *)

Fresh == [last |-> -1, offset |-> 0]

\* Mutant: a clock that wraps is noticed one tick too late.
TurnsLate(u, raw) ==
    IF u.last < 0 THEN 0
    ELSE IF raw - u.last < 1 - Wrap THEN 1
    ELSE IF raw - u.last > Wrap \div 2 THEN -1 ELSE 0

\* A difference of more than half the range is a wrap, forwards or back.
Turns(u, raw) ==
    IF u.last < 0 THEN 0
    ELSE IF raw - u.last < -(Wrap \div 2) THEN 1
    ELSE IF raw - u.last > Wrap \div 2 THEN -1 ELSE 0

Unwrap(u, raw) == [last |-> raw, offset |-> u.offset + Turns(u, raw) * Wrap]

Absolute(u) == u.last + u.offset

\* The base is taken from the first unit.
Based(base, absolute) == IF base < 0 THEN absolute ELSE base

\* Mutant: a feed that starts over is followed back.
KeepMonotonicNot(time, last, minStep) == time

\* Mutant: equal times are let through.
KeepMonotonicLoosely(time, last, minStep) ==
    IF last >= 0 /\ time < last THEN last + minStep ELSE time

\* keepMonotonic()
KeepMonotonic(time, last, minStep) ==
    IF last >= 0 /\ time <= last THEN last + minStep ELSE time

-----------------------------------------------------------------------------
(* The feed and its source *)

NoSource == [video |-> None, audio |-> None]

\* What a packet carries: both times, one of them, or none.
Stamps == {"both", "only pts", "only dts", "neither"}

\* A packet without one of its times, which happens MaxFaults times at most.
Counted(complete) ==
    /\ faults' = IF complete THEN faults ELSE faults + 1
    /\ faults' <= MaxFaults

\* The two clocks of a unit of video with decode time d and presentation time p: a missing
\* time is that of the other clock, and without any the clocks go on at 30 fps.
VideoClocks(stamps, d, p) ==
    LET next == IF source.video = None THEN 0 ELSE (source.video + FrameStep) % Wrap
    IN  CASE stamps = "both"     -> [dts |-> d % Wrap, pts |-> p % Wrap]
          [] stamps = "only pts" -> [dts |-> p % Wrap, pts |-> p % Wrap]
          [] stamps = "only dts" -> [dts |-> d % Wrap, pts |-> d % Wrap]
          [] stamps = "neither"  -> [dts |-> next, pts |-> next]

AudioClock(stamped, a) ==
    IF stamped THEN (a + shift) % Wrap
    ELSE IF source.audio = None THEN 0 ELSE (source.audio + AudioStep) % Wrap

\* A run of the source starts somewhere on the timeline of its feed, and nothing is open.
StartFeed(first, ahead) ==
    /\ now' = first /\ shown' = first /\ heard' = first \div Ratio
    /\ shift' = ahead
    /\ faults' = 0
    /\ source' = NoSource

-----------------------------------------------------------------------------
(* Sinks that are closed *)

NoTs == [dts |-> Fresh, pts |-> Fresh, audio |-> Fresh, base |-> -1,
         lastVideo |-> -1, lastAudio |-> -1]
NoRtp == [dts |-> Fresh, pts |-> Fresh, base |-> -1, audio |-> Fresh, audioBase |-> -1]
NoRtsp == [dts |-> Fresh, pts |-> Fresh, audio |-> Fresh, player |-> None, base |-> -1]
NoNdi == [pts |-> Fresh, base |-> -1]

NoOut == [ts |-> None, tsAudio |-> None, rtp |-> None, rtpAudio |-> None,
          player |-> None, playerAudio |-> None, ndi |-> None]

\* The decode and presentation time of the first unit of video and whether its clocks were
\* in order, the decode time of the first unit of the player, and how far the first unit of
\* audio of each sink came out behind its time.
NoZero == [dts |-> None, pts |-> None, ordered |-> TRUE, player |-> None,
           tsLag |-> None, rtpLag |-> None, playerLag |-> None]

Init ==
    /\ now \in FirstTimes /\ shown = now /\ heard = now \div Ratio
    /\ shift \in AudioShifts
    /\ faults = 0
    /\ source = NoSource
    /\ open = {}
    /\ ts = NoTs /\ rtp = NoRtp /\ rtsp = NoRtsp /\ ndi = NoNdi
    /\ out = NoOut
    /\ intact = TRUE
    /\ zero = NoZero

\* Mutant: close() leaves the last output behind.
ClosedTsKeeping == [NoTs EXCEPT !.lastVideo = ts.lastVideo, !.lastAudio = ts.lastAudio]

\* close(): all of the clocks are reset.
ClosedTs == NoTs

\* The pipeline closes its sinks when the stream stops, and when a run or a generation of
\* its source begins.
CloseAll ==
    /\ open' = {}
    /\ ts' = ClosedTs /\ rtp' = NoRtp /\ rtsp' = NoRtsp /\ ndi' = NoNdi
    /\ out' = NoOut
    /\ intact' = TRUE
    /\ zero' = NoZero

\* open(): a sink that cannot open is closed again.
Open(some) ==
    /\ open = {}
    /\ some # {}
    /\ open' = some
    /\ UNCHANGED <<feedVars, ts, rtp, rtsp, ndi, out, intact, zero>>

Close ==
    /\ open # {}
    /\ CloseAll
    /\ UNCHANGED feedVars

\* A run of the source ends and another begins, which closes the sinks.
Restart(first, ahead) ==
    /\ StartFeed(first, ahead)
    /\ CloseAll

-----------------------------------------------------------------------------
(* A unit of video *)

\* Mutant: the presentation time is not rebased with the decode time.
RiddenApart(dts, u, v) == Absolute(v)

\* The presentation time is as far after the decode time as it was before.
Ridden(dts, u, v) == dts + (Absolute(v) - Absolute(u))

TsVideo(c) ==
    LET u == Unwrap(ts.dts, c.dts)
        v == Unwrap(ts.pts, c.pts)
        base == Based(ts.base, Absolute(u))
        dts == KeepMonotonic(Absolute(u) - base, ts.lastVideo, MinVideoStep)
    IN  [sink |-> [ts EXCEPT !.dts = u, !.pts = v, !.base = base, !.lastVideo = dts],
         unit |-> [dts |-> dts, pts |-> Ridden(dts, u, v)]]

RtpVideo(c) ==
    LET u == Unwrap(rtp.dts, c.dts)
        v == Unwrap(rtp.pts, c.pts)
        base == Based(rtp.base, Absolute(u))
        dts == Absolute(u) - base
    IN  [sink |-> [rtp EXCEPT !.dts = u, !.pts = v, !.base = base],
         unit |-> [dts |-> dts, pts |-> Ridden(dts, u, v)]]

\* A player is held until the next keyframe.
Begins(key) == rtsp.player = "waiting" /\ key

RtspVideo(c, key) ==
    LET u == Unwrap(rtsp.dts, c.dts)
        v == Unwrap(rtsp.pts, c.pts)
        base == IF Begins(key) THEN Absolute(u) ELSE rtsp.base
        dts == Absolute(u) - base
        serves == Begins(key) \/ rtsp.player = "started"
    IN  [sink |-> [rtsp EXCEPT !.dts = u, !.pts = v, !.base = base,
                               !.player = IF serves THEN "started" ELSE @],
         unit |-> IF serves THEN [dts |-> dts, pts |-> Ridden(dts, u, v)] ELSE None]

\* The NDI sink follows the presentation clock alone.
NdiVideo(c) ==
    LET v == Unwrap(ndi.pts, c.pts)
        base == Based(ndi.base, Absolute(v))
    IN  [sink |-> [pts |-> v, base |-> base], unit |-> Absolute(v) - base]

\* The source hands a unit on, and each open sink writes it.
WriteVideo(step, delay, stamps, key) ==
    LET d == now + step
        p == d + delay
        c == VideoClocks(stamps, d, p)
        known == zero.dts # None
    IN  /\ d + delay <= MaxTime
        /\ Ratio * heard - d \in -MaxSkew .. MaxSkew
        /\ Counted(stamps = "both")
        /\ now' = d /\ shown' = p
        /\ source' = [source EXCEPT !.video = c.dts]
        /\ ts' = IF "ts" \in open THEN TsVideo(c).sink ELSE ts
        /\ rtp' = IF "rtp" \in open THEN RtpVideo(c).sink ELSE rtp
        /\ rtsp' = IF "rtsp" \in open THEN RtspVideo(c, key).sink ELSE rtsp
        /\ ndi' = IF "ndi" \in open THEN NdiVideo(c).sink ELSE ndi
        /\ out' = [out EXCEPT !.ts = IF "ts" \in open THEN TsVideo(c).unit ELSE @,
                              !.rtp = IF "rtp" \in open THEN RtpVideo(c).unit ELSE @,
                              !.player = IF "rtsp" \in open THEN RtspVideo(c, key).unit ELSE @,
                              !.ndi = IF "ndi" \in open THEN NdiVideo(c).unit ELSE @]
        /\ intact' = (open # {} => intact /\ c = VideoClocks("both", d, p))
        /\ zero' = IF open = {} THEN zero
                   ELSE [zero EXCEPT !.dts = IF known THEN @ ELSE d,
                                     !.pts = IF known THEN @ ELSE p,
                                     !.ordered = IF known THEN @ ELSE c.dts <= c.pts,
                                     !.player = IF "rtsp" \in open /\ Begins(key) THEN d ELSE @]
        /\ UNCHANGED <<heard, shift, open>>

\* A player asks the RTSP sink for the stream.
Play ==
    /\ "rtsp" \in open
    /\ rtsp.player = None
    /\ rtsp' = [rtsp EXCEPT !.player = "waiting"]
    /\ UNCHANGED <<feedVars, open, ts, rtp, ndi, out, intact, zero>>

\* The player leaves, with what the sink kept of it.
Leave ==
    /\ rtsp.player # None
    /\ rtsp' = [rtsp EXCEPT !.player = None, !.base = -1]
    /\ out' = [out EXCEPT !.player = None, !.playerAudio = None]
    /\ zero' = [zero EXCEPT !.player = None, !.playerLag = None]
    /\ UNCHANGED <<feedVars, open, ts, rtp, ndi, intact>>

-----------------------------------------------------------------------------
(* A unit of audio *)

\* Audio waits for the first unit of video of the session, whose time is its zero too.
TsTakesAudio == "ts" \in open /\ ts.base >= 0

TsAudio(raw) ==
    LET u == Unwrap(ts.audio, raw)
        time == KeepMonotonic(Absolute(u) * Ratio - ts.base, ts.lastAudio, MinAudioStep)
    IN  [sink |-> [ts EXCEPT !.audio = u, !.lastAudio = time], unit |-> time]

\* Mutant: the audio of the RTP sink is rebased on the video.
RtpAudioBaseShared(u) == rtp.base

\* The two streams of the RTP sink have a base of their own.
RtpAudioBase(u) == Based(rtp.audioBase, Absolute(u))

RtpAudio(raw) ==
    LET u == Unwrap(rtp.audio, raw)
        base == RtpAudioBase(u)
    IN  [sink |-> [rtp EXCEPT !.audio = u, !.audioBase = base], unit |-> Absolute(u) - base]

\* The clock is followed before there is a player; a player gets audio when it has begun.
RtspAudio(raw) ==
    LET u == Unwrap(rtsp.audio, raw)
    IN  [sink |-> [rtsp EXCEPT !.audio = u],
         unit |-> IF rtsp.player = "started" THEN Absolute(u) * Ratio - rtsp.base ELSE None]

Lag(known, unit, time) == IF known # None \/ unit = None THEN known ELSE time - unit

WriteAudio(step, stamped) ==
    LET a == heard + step
        raw == AudioClock(stamped, a)
        tsUnit == IF TsTakesAudio THEN TsAudio(raw).unit ELSE None
        rtpUnit == IF "rtp" \in open THEN RtpAudio(raw).unit ELSE None
        playerUnit == IF "rtsp" \in open THEN RtspAudio(raw).unit ELSE None
    IN  /\ Ratio * a - now \in -MaxSkew .. MaxSkew
        /\ Counted(stamped)
        /\ heard' = a
        /\ source' = [source EXCEPT !.audio = raw]
        /\ ts' = IF TsTakesAudio THEN TsAudio(raw).sink ELSE ts
        /\ rtp' = IF "rtp" \in open THEN RtpAudio(raw).sink ELSE rtp
        /\ rtsp' = IF "rtsp" \in open THEN RtspAudio(raw).sink ELSE rtsp
        /\ out' = [out EXCEPT !.tsAudio = tsUnit, !.rtpAudio = rtpUnit,
                              !.playerAudio = playerUnit]
        /\ intact' = (open # {} => intact /\ raw = AudioClock(TRUE, a))
        /\ zero' = [zero EXCEPT !.tsLag = Lag(@, tsUnit, Ratio * a),
                                !.rtpLag = Lag(@, rtpUnit, a),
                                !.playerLag = Lag(@, playerUnit, Ratio * a)]
        /\ UNCHANGED <<now, shown, shift, open, ndi>>

\* The feed starts over, as a looping one does, and nobody notices.
Loop(first) ==
    /\ faults < MaxFaults
    /\ faults' = faults + 1
    /\ now' = first /\ shown' = first /\ heard' = first \div Ratio
    /\ intact' = (open = {})
    /\ UNCHANGED <<shift, source, sinkVars, out, zero>>

-----------------------------------------------------------------------------

Next ==
    \/ \E step \in VideoSteps, delay \in Delays, stamps \in Stamps, key \in BOOLEAN :
          WriteVideo(step, delay, stamps, key)
    \/ \E step \in AudioSteps, stamped \in BOOLEAN : WriteAudio(step, stamped)
    \/ \E some \in OpenSets : Open(some)
    \/ Play \/ Leave \/ Close
    \/ \E first \in FirstTimes, ahead \in AudioShifts : Restart(first, ahead)
    \/ \E first \in FirstTimes : Loop(first)

Spec == Init /\ [][Next]_vars

-----------------------------------------------------------------------------
(* Properties *)

Unwrapper == [last : -1 .. Wrap - 1, offset : Int]
VideoOut == [dts : Int, pts : Int]
Maybe(S) == S \cup {None}

FeedTypeOK ==
    /\ now \in Nat /\ shown \in Nat /\ heard \in Nat
    /\ shift \in AudioShifts /\ faults \in 0 .. MaxFaults
    /\ source \in [video : Maybe(0 .. Wrap - 1), audio : Maybe(0 .. Wrap - 1)]
    /\ open \subseteq Sinks

TsTypeOK ==
    ts \in [dts : Unwrapper, pts : Unwrapper, audio : Unwrapper, base : Nat \cup {-1},
            lastVideo : Nat \cup {-1}, lastAudio : Int]

RtpTypeOK ==
    rtp \in [dts : Unwrapper, pts : Unwrapper, base : Nat \cup {-1}, audio : Unwrapper,
             audioBase : Nat \cup {-1}]

RtspTypeOK ==
    rtsp \in [dts : Unwrapper, pts : Unwrapper, audio : Unwrapper,
              player : {None, "waiting", "started"}, base : Int]

NdiTypeOK == ndi \in [pts : Unwrapper, base : Nat \cup {-1}]

OutTypeOK ==
    out \in [ts : Maybe(VideoOut), tsAudio : Maybe(Int), rtp : Maybe(VideoOut),
             rtpAudio : Maybe(Int), player : Maybe(VideoOut), playerAudio : Maybe(Int),
             ndi : Maybe(Int)]

PastTypeOK ==
    /\ intact \in BOOLEAN
    /\ zero \in [dts : Maybe(Nat), pts : Maybe(Nat), ordered : BOOLEAN, player : Maybe(Nat),
                 tsLag : Maybe(Int), rtpLag : Maybe(Int), playerLag : Maybe(Int)]

\* The values the clocks range over: a base is never negative once it is taken.
TypeOK ==
    FeedTypeOK /\ TsTypeOK /\ RtpTypeOK /\ RtspTypeOK /\ NdiTypeOK /\ OutTypeOK /\ PastTypeOK

\* As long as its clocks are those of the feed, a session starts at zero and counts what the
\* feed counts, across any number of wraps: the decode time of the muxers, the timecode of
\* NDI, and the decode time of a player from the keyframe it began with.
DecodeTimesFollowFeed ==
    intact =>
        /\ out.ts # None => out.ts.dts = now - zero.dts
        /\ out.rtp # None => out.rtp.dts = now - zero.dts
        /\ out.player # None => out.player.dts = now - zero.player
        /\ out.ndi # None => out.ndi = shown - zero.pts

\* Both clocks of the video are unwrapped on their own, and yet a unit is presented as long
\* after it is decoded as in the feed, and never before, which a muxer would refuse: unless
\* the session opened on a unit whose presentation time had wrapped and whose decode time
\* had not.
PresentationFollowsDecode ==
    intact /\ zero.ordered =>
        \A sink \in {"ts", "rtp", "player"} :
            out[sink] # None => out[sink].pts - out[sink].dts = shown - now

\* As long as its clocks are those of the feed, audio keeps the distance to its time it
\* began with, in each of the sinks and across any number of wraps.
AudioFollowsFeed ==
    intact =>
        /\ out.tsAudio # None => out.tsAudio = Ratio * heard - zero.tsLag
        /\ out.rtpAudio # None => out.rtpAudio = heard - zero.rtpLag
        /\ out.playerAudio # None => out.playerAudio = Ratio * heard - zero.playerLag

\* In the four sinks, in sessions that open and close anywhere, the clocks that unwrap,
\* rebase and guard the times of the feed say what the feed says.
SinksFollowFeed ==
    DecodeTimesFollowFeed /\ PresentationFollowsDecode /\ AudioFollowsFeed

\* The muxer of the transport stream refuses a decode time that does not advance
\* (keepMonotonic).  Whatever the feed does within a session, starting over or losing its
\* times, the decode times of the video advance.
TsDecodeTimesAdvance ==
    [][(out.ts # None /\ out'.ts # None /\ out'.ts # out.ts)
          => out'.ts.dts > out.ts.dts]_vars

\* Both streams of the transport stream are anchored to the first video timestamp so they
\* share a zero (tsmulticastsink.h): the first unit of audio is as far from the first unit of
\* video as in the feed.  The code breaks this: the two clocks lose different multiples of
\* 2^32, and those of WebRTC begin anywhere.
TsSharesZero == intact /\ zero.tsLag # None => zero.tsLag = zero.dts
=============================================================================
