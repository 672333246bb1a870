------------------------ MODULE SinkTimestampsProofs ------------------------
(***************************************************************************)
(* The clocks of the four sinks for every place where a clock wraps, 2^32  *)
(* among them, every step of a feed that stays below half of that, every   *)
(* ratio of the audio clock, and sessions of any length.                   *)
(*                                                                         *)
(* First the arithmetic: one clock that is unwrapped at every unit follows *)
(* its feed (UnwrapFollows).  Then the types, and with them that the video *)
(* of the transport stream advances whatever the feed does.  Last, each    *)
(* sink by itself: FollowInv says of every member of a sink what it is of  *)
(* the position of the feed, and a unit of video or of audio keeps it so.  *)
(***************************************************************************)
EXTENDS SinkTimestamps, TLAPS

-----------------------------------------------------------------------------
(* One clock *)

(* A clock wraps at an even number of ticks. *)
LEMMA WrapFacts == Wrap \in Nat /\ Wrap > 0 /\ Wrap \div 2 \in Nat /\ Wrap = 2 * (Wrap \div 2)
  BY SinkTimestampsAssumption

(* A time is a number of whole wraps and what is left of it. *)
LEMMA Division ==
    ASSUME NEW x \in Nat
    PROVE  /\ x % Wrap \in 0 .. Wrap - 1
           /\ \E q \in Int : x = q * Wrap + (x % Wrap)
<1> USE WrapFacts
<1>1. x % Wrap \in 0 .. Wrap - 1
  OBVIOUS
<1>2. x = (x \div Wrap) * Wrap + (x % Wrap)
  OBVIOUS
<1>3. x \div Wrap \in Int
  OBVIOUS
<1>4. \E q \in Int : x = q * Wrap + (x % Wrap)
  <2> DEFINE q == x \div Wrap
             r == x % Wrap
  <2>1. x = q * Wrap + r /\ q \in Int
    BY <1>2, <1>3
  <2> HIDE DEF q, r
  <2> QED
    BY <2>1 DEF r
<1> QED
  BY <1>1, <1>4

(* Between minus two wraps and two wraps there are three multiples of a wrap. *)
LEMMA Multiples ==
    ASSUME NEW k \in Int, -2 * Wrap < k * Wrap, k * Wrap < 2 * Wrap
    PROVE  k \in {-1, 0, 1}
<1> USE WrapFacts
<1>1. ASSUME k >= 2 PROVE FALSE
  <2>1. k * Wrap >= 2 * Wrap
    BY <1>1
  <2> QED
    BY <2>1
<1>2. ASSUME k <= -2 PROVE FALSE
  <2>1. k * Wrap <= (-2) * Wrap
    BY <1>2
  <2> QED
    BY <2>1
<1> QED
  BY <1>1, <1>2

(* What a clock is after a unit, whatever the unit says. *)
LEMMA UnwrapType ==
    ASSUME NEW u \in Unwrapper, NEW raw \in 0 .. Wrap - 1
    PROVE  /\ Unwrap(u, raw) \in Unwrapper
           /\ Unwrap(u, raw).last = raw
           /\ Absolute(Unwrap(u, raw)) \in Int
  BY WrapFacts DEF Unwrap, Turns, Absolute, Unwrapper

(* The first unit is taken as it is. *)
LEMMA UnwrapFirst ==
    ASSUME NEW raw \in Int
    PROVE  Absolute(Unwrap(Fresh, raw)) = raw
  BY WrapFacts DEF Unwrap, Turns, Absolute, Fresh

(* A clock that last saw time x and now sees time y, less than half a wrap away and on
   either side, moves by y - x, whether or not it wrapped in between. *)
LEMMA UnwrapFollows ==
    ASSUME NEW u \in Unwrapper, NEW x \in Nat, NEW y \in Nat,
           u.last = x % Wrap, -Wrap < 2 * (y - x), 2 * (y - x) < Wrap
    PROVE  Absolute(Unwrap(u, y % Wrap)) = Absolute(u) + (y - x)
<1> USE WrapFacts
<1> DEFINE r == x % Wrap
           s == y % Wrap
           h == Wrap \div 2
<1>h. h \in Nat /\ Wrap = 2 * h
  OBVIOUS
<1>r. r \in 0 .. Wrap - 1 /\ s \in 0 .. Wrap - 1
  BY Division
<1>1. PICK p \in Int : x = p * Wrap + r
  BY Division
<1>2. PICK q \in Int : y = q * Wrap + s
  BY Division
<1>3. (q - p) * Wrap = (y - x) + (r - s)
  BY <1>1, <1>2, <1>r
<1>4. q - p \in {-1, 0, 1}
  <2> HIDE DEF r, s
  <2>1. -2 * Wrap < (y - x) + (r - s) /\ (y - x) + (r - s) < 2 * Wrap
    BY <1>r
  <2> QED
    BY <1>3, <2>1, Multiples
<1>5. Turns(u, s) = q - p
  <2> HIDE DEF r, s, h
  <2>0. u.last = r
    BY DEF r
  <2>1. CASE q - p = 1
    <3>1. s - r = (y - x) - Wrap
      BY <2>1, <1>3, <1>r
    <3> QED
      BY <3>1, <2>0, <2>1, <1>r, <1>h DEF Turns, h
  <2>2. CASE q - p = 0
    <3>1. s - r = y - x
      BY <2>2, <1>3, <1>r
    <3> QED
      BY <3>1, <2>0, <2>2, <1>r, <1>h DEF Turns, h
  <2>3. CASE q - p = -1
    <3>1. s - r = (y - x) + Wrap
      BY <2>3, <1>3, <1>r
    <3> QED
      BY <3>1, <2>0, <2>3, <1>r, <1>h DEF Turns, h
  <2> QED
    BY <1>4, <2>1, <2>2, <2>3
<1>6. Absolute(Unwrap(u, s)) = s + (u.offset + (q - p) * Wrap)
  <2> HIDE DEF r, s
  <2>1. Unwrap(u, s) = [last |-> s, offset |-> u.offset + (q - p) * Wrap]
    BY <1>5 DEF Unwrap
  <2> QED
    BY <2>1 DEF Absolute
<1>7. Absolute(u) = r + u.offset
  BY DEF Absolute
<1>8. Absolute(Unwrap(u, s)) = Absolute(u) + (y - x)
  <2>1. u.offset \in Int
    BY DEF Unwrapper
  <2> DEFINE m == (q - p) * Wrap
  <2>2. m = (y - x) + (r - s) /\ Absolute(Unwrap(u, s)) = s + (u.offset + m)
    BY <1>3, <1>6
  <2> HIDE DEF r, s, m
  <2> QED
    BY <2>1, <2>2, <1>7, <1>r
<1> QED
  BY <1>8

\* Clock u stands at time t of its feed, and began at time z.
Following(u, t, z) ==
    /\ u \in Unwrapper
    /\ u.last = t % Wrap
    /\ Absolute(u) = (t - z) + (z % Wrap)

(* A clock follows its feed from its first unit. *)
LEMMA FollowingFirst ==
    ASSUME NEW t \in Nat
    PROVE  Following(Unwrap(Fresh, t % Wrap), t, t)
<1>1. t % Wrap \in 0 .. Wrap - 1
  BY Division
<1>2. Fresh \in Unwrapper
  BY WrapFacts DEF Fresh, Unwrapper
<1>3. Absolute(Unwrap(Fresh, t % Wrap)) = t % Wrap
  BY <1>1, UnwrapFirst
<1>4. Unwrap(Fresh, t % Wrap) \in Unwrapper /\ Unwrap(Fresh, t % Wrap).last = t % Wrap
  BY <1>1, <1>2, UnwrapType
<1> QED
  BY <1>1, <1>3, <1>4 DEF Following

(* And from each unit to the next. *)
LEMMA FollowingOn ==
    ASSUME NEW u, NEW x \in Nat, NEW y \in Nat, NEW z \in Nat, Following(u, x, z),
           -Wrap < 2 * (y - x), 2 * (y - x) < Wrap
    PROVE  Following(Unwrap(u, y % Wrap), y, z)
<1>1. y % Wrap \in 0 .. Wrap - 1 /\ z % Wrap \in 0 .. Wrap - 1
  BY Division
<1>2. u \in Unwrapper /\ u.last = x % Wrap /\ Absolute(u) = (x - z) + (z % Wrap)
  BY DEF Following
<1>3. Absolute(Unwrap(u, y % Wrap)) = Absolute(u) + (y - x)
  BY <1>2, UnwrapFollows
<1>4. Unwrap(u, y % Wrap) \in Unwrapper /\ Unwrap(u, y % Wrap).last = y % Wrap
  BY <1>1, <1>2, UnwrapType
<1>5. Absolute(Unwrap(u, y % Wrap)) = (y - z) + (z % Wrap)
  BY <1>1, <1>2, <1>3
<1> QED
  BY <1>4, <1>5 DEF Following

(* Two times less than a wrap apart that are in order in the low bits are as far apart there. *)
LEMMA Ordered ==
    ASSUME NEW d \in Nat, NEW p \in Nat, p - d \in 0 .. Wrap - 1, d % Wrap <= p % Wrap
    PROVE  (p % Wrap) - (d % Wrap) = p - d
<1> USE WrapFacts
<1> DEFINE r == d % Wrap
           s == p % Wrap
<1>1. r \in 0 .. Wrap - 1 /\ s \in 0 .. Wrap - 1
  BY Division
<1>2. PICK i \in Int : d = i * Wrap + r
  BY Division
<1>3. PICK j \in Int : p = j * Wrap + s
  BY Division
<1>0. r <= s
  OBVIOUS
<1> HIDE DEF r, s
<1>4. (j - i) * Wrap = (p - d) - (s - r)
  BY <1>1, <1>2, <1>3
<1>5. j - i = 0
  <2>1. -Wrap < (j - i) * Wrap /\ (j - i) * Wrap < Wrap
    BY <1>0, <1>1, <1>4
  <2>2. ASSUME j - i >= 1 PROVE FALSE
    <3>1. (j - i) * Wrap >= 1 * Wrap
      BY <2>2
    <3> QED
      BY <3>1, <2>1
  <2>3. ASSUME j - i <= -1 PROVE FALSE
    <3>1. (j - i) * Wrap <= (-1) * Wrap
      BY <2>3
    <3> QED
      BY <3>1, <2>1
  <2> QED
    BY <2>2, <2>3
<1>6. (j - i) * Wrap = 0
  BY <1>5
<1> QED
  BY <1>1, <1>4, <1>6 DEF r, s

-----------------------------------------------------------------------------
(* Types, sink by sink *)

\* The clocks of a unit of video as a sink sees them.
Clocks == [dts : 0 .. Wrap - 1, pts : 0 .. Wrap - 1]

\* The types, with what makes them inductive: a base is taken together with the first unit.
TsSound(s) ==
    /\ s \in [dts : Unwrapper, pts : Unwrapper, audio : Unwrapper, base : Nat \cup {-1},
              lastVideo : Nat \cup {-1}, lastAudio : Int]
    /\ s.base = -1 => s.dts = Fresh
    /\ s.lastVideo = -1 => s.base = -1

RtpSound(s) ==
    /\ s \in [dts : Unwrapper, pts : Unwrapper, base : Nat \cup {-1}, audio : Unwrapper,
              audioBase : Nat \cup {-1}]
    /\ s.base = -1 => s.dts = Fresh
    /\ s.audioBase = -1 => s.audio = Fresh

RtspSound(s) ==
    s \in [dts : Unwrapper, pts : Unwrapper, audio : Unwrapper,
           player : {None, "waiting", "started"}, base : Int]

NdiSound(s) ==
    /\ s \in [pts : Unwrapper, base : Nat \cup {-1}]
    /\ s.base = -1 => s.pts = Fresh

(* What the proofs use of the constants. *)
LEMMA ConstantFacts ==
    /\ Ratio \in Nat /\ Ratio > 0
    /\ FirstTimes \subseteq Nat /\ AudioShifts \subseteq Nat
    /\ VideoSteps \subseteq Nat /\ AudioSteps \subseteq Nat /\ Delays \subseteq Nat
    /\ MinVideoStep \in Nat /\ MinVideoStep > 0 /\ MinAudioStep \in Nat
    /\ FrameStep \in Nat /\ AudioStep \in Nat /\ MaxFaults \in Nat
    /\ None \notin Int
  BY SinkTimestampsAssumption

(* A clock before its first unit. *)
LEMMA FreshFacts == Fresh \in Unwrapper /\ Fresh.last = -1 /\ Fresh.offset = 0
  BY WrapFacts DEF Fresh, Unwrapper

(* An unwrapped time is an integer, negative ones included. *)
LEMMA AbsoluteType == ASSUME NEW u \in Unwrapper PROVE Absolute(u) \in Int
  BY WrapFacts DEF Absolute, Unwrapper

(* A sink that is closed is well typed. *)
LEMMA ClosedSound == TsSound(NoTs) /\ RtpSound(NoRtp) /\ RtspSound(NoRtsp) /\ NdiSound(NoNdi)
  BY FreshFacts DEF TsSound, RtpSound, RtspSound, NdiSound, NoTs, NoRtp, NoRtsp, NoNdi

(* A unit of video in the transport stream sink: its decode time is never negative, and comes
   after the one before, whatever its clocks say. *)
LEMMA TsVideoSound ==
    ASSUME NEW c \in Clocks, TsSound(ts)
    PROVE  /\ TsSound(TsVideo(c).sink)
           /\ TsVideo(c).unit \in VideoOut
           /\ TsVideo(c).sink.lastVideo = TsVideo(c).unit.dts
           /\ TsVideo(c).unit.dts \in Nat
           /\ ts.lastVideo >= 0 => TsVideo(c).unit.dts > ts.lastVideo
<1> USE ConstantFacts
<1> DEFINE u == Unwrap(ts.dts, c.dts)
           v == Unwrap(ts.pts, c.pts)
           base == Based(ts.base, Absolute(u))
           dts == KeepMonotonic(Absolute(u) - base, ts.lastVideo, MinVideoStep)
<1>1. c.dts \in 0 .. Wrap - 1 /\ c.pts \in 0 .. Wrap - 1
  BY DEF Clocks
<1>2. /\ ts.dts \in Unwrapper /\ ts.pts \in Unwrapper /\ ts.audio \in Unwrapper
      /\ ts.base \in Nat \cup {-1} /\ ts.lastVideo \in Nat \cup {-1} /\ ts.lastAudio \in Int
  BY DEF TsSound
<1>3. u \in Unwrapper /\ v \in Unwrapper /\ Absolute(u) \in Int /\ Absolute(v) \in Int
  BY <1>1, <1>2, UnwrapType
<1>4. ts.base = -1 => Absolute(u) = c.dts
  BY <1>1, UnwrapFirst DEF TsSound
<1> DEFINE abs == Absolute(u)
<1>5. base \in Nat /\ (ts.base = -1 => abs - base = 0)
  <2> HIDE DEF u
  <2> QED
    BY <1>1, <1>2, <1>3, <1>4 DEF Based
<1>6. dts \in Nat /\ (ts.lastVideo >= 0 => dts > ts.lastVideo)
  <2>1. ts.lastVideo = -1 => ts.base = -1
    BY DEF TsSound
  <2> HIDE DEF u, base
  <2> QED
    BY <1>2, <1>3, <1>5, <2>1 DEF KeepMonotonic
<1>7. Ridden(dts, u, v) \in Int
  <2> HIDE DEF u, v, dts
  <2> QED
    BY <1>3, <1>6 DEF Ridden
<1>8. TsVideo(c) = [sink |-> [ts EXCEPT !.dts = u, !.pts = v, !.base = base, !.lastVideo = dts],
                    unit |-> [dts |-> dts, pts |-> Ridden(dts, u, v)]]
  BY DEF TsVideo
<1>9. TsVideo(c).sink = [dts |-> u, pts |-> v, audio |-> ts.audio, base |-> base,
                         lastVideo |-> dts, lastAudio |-> ts.lastAudio]
  <2> HIDE DEF u, v, base, dts
  <2>1. TsVideo(c).sink = [ts EXCEPT !.dts = u, !.pts = v, !.base = base, !.lastVideo = dts]
    BY <1>8
  <2>2. ts \in [dts : Unwrapper, pts : Unwrapper, audio : Unwrapper, base : Nat \cup {-1},
                lastVideo : Nat \cup {-1}, lastAudio : Int]
    BY DEF TsSound
  <2> QED
    BY <2>1, <2>2
<1> HIDE DEF u, v, base, dts
<1>10. TsVideo(c).unit = [dts |-> dts, pts |-> Ridden(dts, u, v)]
  BY <1>8
<1>11. TsSound(TsVideo(c).sink)
  BY <1>2, <1>3, <1>5, <1>6, <1>9 DEF TsSound
<1> QED
  BY <1>6, <1>7, <1>9, <1>10, <1>11 DEF VideoOut


(* A unit of video in the RTP sink, whatever its clocks say. *)
LEMMA RtpVideoSound ==
    ASSUME NEW c \in Clocks, RtpSound(rtp)
    PROVE  RtpSound(RtpVideo(c).sink) /\ RtpVideo(c).unit \in VideoOut
<1> DEFINE u == Unwrap(rtp.dts, c.dts)
           v == Unwrap(rtp.pts, c.pts)
           abs == Absolute(u)
           base == Based(rtp.base, abs)
           dts == abs - base
<1>1. c.dts \in 0 .. Wrap - 1 /\ c.pts \in 0 .. Wrap - 1
  BY DEF Clocks
<1>2. /\ rtp \in [dts : Unwrapper, pts : Unwrapper, base : Nat \cup {-1}, audio : Unwrapper,
                  audioBase : Nat \cup {-1}]
      /\ rtp.base \in Nat \cup {-1} /\ (rtp.base = -1 => rtp.dts = Fresh)
      /\ rtp.audioBase = -1 => rtp.audio = Fresh
  BY DEF RtpSound
<1>3. u \in Unwrapper /\ v \in Unwrapper /\ abs \in Int /\ Absolute(v) \in Int
  BY <1>1, <1>2, UnwrapType
<1>4. rtp.base = -1 => abs = c.dts
  BY <1>1, <1>2, UnwrapFirst
<1>5. base \in Nat
  <2> HIDE DEF abs
  <2> QED
    BY <1>1, <1>2, <1>3, <1>4, WrapFacts DEF Based
<1>6. RtpVideo(c) = [sink |-> [rtp EXCEPT !.dts = u, !.pts = v, !.base = base],
                     unit |-> [dts |-> dts, pts |-> Ridden(dts, u, v)]]
  BY DEF RtpVideo
<1>7. dts \in Int /\ Ridden(dts, u, v) \in Int
  <2>1. Ridden(dts, u, v) = dts + (Absolute(v) - abs)
    BY DEF Ridden
  <2> HIDE DEF abs, base, v
  <2> QED
    BY <1>3, <1>5, <2>1
<1> HIDE DEF u, v, base, dts
<1>8. /\ RtpVideo(c).sink = [rtp EXCEPT !.dts = u, !.pts = v, !.base = base]
      /\ RtpVideo(c).unit = [dts |-> dts, pts |-> Ridden(dts, u, v)]
  BY <1>6
<1>9. RtpVideo(c).sink = [dts |-> u, pts |-> v, base |-> base, audio |-> rtp.audio,
                          audioBase |-> rtp.audioBase]
  BY <1>2, <1>8
<1>10. RtpSound(RtpVideo(c).sink)
  BY <1>2, <1>3, <1>5, <1>9 DEF RtpSound
<1> QED
  BY <1>7, <1>8, <1>10 DEF VideoOut

(* A unit of video in the RTSP sink, with or without a player to serve. *)
LEMMA RtspVideoSound ==
    ASSUME NEW c \in Clocks, NEW key \in BOOLEAN, RtspSound(rtsp)
    PROVE  RtspSound(RtspVideo(c, key).sink) /\ RtspVideo(c, key).unit \in Maybe(VideoOut)
<1> DEFINE u == Unwrap(rtsp.dts, c.dts)
           v == Unwrap(rtsp.pts, c.pts)
           abs == Absolute(u)
           base == IF Begins(key) THEN abs ELSE rtsp.base
           dts == abs - base
           serves == Begins(key) \/ rtsp.player = "started"
           player == IF serves THEN "started" ELSE rtsp.player
           unit == IF serves THEN [dts |-> dts, pts |-> Ridden(dts, u, v)] ELSE None
<1>1. c.dts \in 0 .. Wrap - 1 /\ c.pts \in 0 .. Wrap - 1
  BY DEF Clocks
<1>2. /\ rtsp \in [dts : Unwrapper, pts : Unwrapper, audio : Unwrapper,
                   player : {None, "waiting", "started"}, base : Int]
      /\ rtsp.base \in Int /\ rtsp.player \in {None, "waiting", "started"}
  BY DEF RtspSound
<1>3. u \in Unwrapper /\ v \in Unwrapper /\ abs \in Int /\ Absolute(v) \in Int
  BY <1>1, <1>2, UnwrapType
<1>5. base \in Int
  <2> HIDE DEF abs
  <2> QED
    BY <1>2, <1>3
<1>6. RtspVideo(c, key) =
        [sink |-> [rtsp EXCEPT !.dts = u, !.pts = v, !.base = base, !.player = player],
         unit |-> unit]
  BY DEF RtspVideo
<1>7. dts \in Int /\ Ridden(dts, u, v) \in Int
  <2>1. Ridden(dts, u, v) = dts + (Absolute(v) - abs)
    BY DEF Ridden
  <2> HIDE DEF abs, base, v
  <2> QED
    BY <1>3, <1>5, <2>1
<1>8. player \in {None, "waiting", "started"} /\ unit \in Maybe(VideoOut)
  <2> HIDE DEF dts, u, v
  <2> QED
    BY <1>2, <1>7 DEF Maybe, VideoOut
<1> HIDE DEF u, v, base, player, unit
<1>9. /\ RtspVideo(c, key).sink =
            [rtsp EXCEPT !.dts = u, !.pts = v, !.base = base, !.player = player]
      /\ RtspVideo(c, key).unit = unit
  BY <1>6
<1>10. RtspVideo(c, key).sink = [dts |-> u, pts |-> v, audio |-> rtsp.audio,
                                 player |-> player, base |-> base]
  BY <1>2, <1>9
<1>11. RtspSound(RtspVideo(c, key).sink)
  BY <1>2, <1>3, <1>5, <1>8, <1>10 DEF RtspSound
<1> QED
  BY <1>8, <1>9, <1>11

(* A unit of video in the NDI sink. *)
LEMMA NdiVideoSound ==
    ASSUME NEW c \in Clocks, NdiSound(ndi)
    PROVE  NdiSound(NdiVideo(c).sink) /\ NdiVideo(c).unit \in Int
<1> DEFINE v == Unwrap(ndi.pts, c.pts)
           abs == Absolute(v)
           base == Based(ndi.base, abs)
<1>1. c.pts \in 0 .. Wrap - 1
  BY DEF Clocks
<1>2. /\ ndi \in [pts : Unwrapper, base : Nat \cup {-1}]
      /\ ndi.base \in Nat \cup {-1} /\ (ndi.base = -1 => ndi.pts = Fresh)
  BY DEF NdiSound
<1>3. v \in Unwrapper /\ abs \in Int
  BY <1>1, <1>2, UnwrapType
<1>4. ndi.base = -1 => abs = c.pts
  BY <1>1, <1>2, UnwrapFirst
<1>5. base \in Nat
  <2> HIDE DEF abs
  <2> QED
    BY <1>1, <1>2, <1>3, <1>4, WrapFacts DEF Based
<1>6. NdiVideo(c) = [sink |-> [pts |-> v, base |-> base], unit |-> abs - base]
  BY DEF NdiVideo
<1> HIDE DEF v, abs, base
<1> QED
  BY <1>3, <1>5, <1>6 DEF NdiSound

(* A unit of audio in the transport stream sink. *)
LEMMA TsAudioSound ==
    ASSUME NEW raw \in 0 .. Wrap - 1, TsSound(ts), ts.base >= 0
    PROVE  TsSound(TsAudio(raw).sink) /\ TsAudio(raw).unit \in Int
<1> USE ConstantFacts
<1> DEFINE u == Unwrap(ts.audio, raw)
           time == KeepMonotonic(Absolute(u) * Ratio - ts.base, ts.lastAudio, MinAudioStep)
<1>1. /\ ts \in [dts : Unwrapper, pts : Unwrapper, audio : Unwrapper, base : Nat \cup {-1},
                 lastVideo : Nat \cup {-1}, lastAudio : Int]
      /\ ts.base \in Int /\ ts.lastAudio \in Int
      /\ ts.base = -1 => ts.dts = Fresh
      /\ ts.lastVideo = -1 => ts.base = -1
  BY DEF TsSound
<1>2. u \in Unwrapper /\ Absolute(u) \in Int
  BY <1>1, UnwrapType
<1>3. time \in Int
  <2> DEFINE scaled == Absolute(u) * Ratio
  <2>1. scaled \in Int
    BY <1>2
  <2> HIDE DEF scaled
  <2> QED
    BY <1>1, <2>1 DEF KeepMonotonic, scaled
<1>4. TsAudio(raw) = [sink |-> [ts EXCEPT !.audio = u, !.lastAudio = time], unit |-> time]
  BY DEF TsAudio
<1> HIDE DEF u, time
<1>5. TsAudio(raw).sink = [ts EXCEPT !.audio = u, !.lastAudio = time] /\ TsAudio(raw).unit = time
  BY <1>4
<1>6. TsAudio(raw).sink = [dts |-> ts.dts, pts |-> ts.pts, audio |-> u, base |-> ts.base,
                           lastVideo |-> ts.lastVideo, lastAudio |-> time]
  BY <1>1, <1>5
<1>7. TsSound(TsAudio(raw).sink)
  BY <1>1, <1>2, <1>3, <1>6 DEF TsSound
<1> QED
  BY <1>3, <1>5, <1>7

(* A unit of audio in the RTP sink. *)
LEMMA RtpAudioSound ==
    ASSUME NEW raw \in 0 .. Wrap - 1, RtpSound(rtp)
    PROVE  RtpSound(RtpAudio(raw).sink) /\ RtpAudio(raw).unit \in Int
<1> DEFINE u == Unwrap(rtp.audio, raw)
           abs == Absolute(u)
           base == RtpAudioBase(u)
<1>1. /\ rtp \in [dts : Unwrapper, pts : Unwrapper, base : Nat \cup {-1}, audio : Unwrapper,
                  audioBase : Nat \cup {-1}]
      /\ rtp.audioBase \in Nat \cup {-1} /\ (rtp.audioBase = -1 => rtp.audio = Fresh)
      /\ rtp.base = -1 => rtp.dts = Fresh
  BY DEF RtpSound
<1>2. u \in Unwrapper /\ abs \in Int
  BY <1>1, UnwrapType
<1>3. rtp.audioBase = -1 => abs = raw
  BY <1>1, UnwrapFirst
<1>4. base \in Nat
  <2>1. base = Based(rtp.audioBase, abs)
    BY DEF RtpAudioBase
  <2> HIDE DEF abs, base
  <2> QED
    BY <2>1, <1>1, <1>2, <1>3, WrapFacts DEF Based
<1>5. RtpAudio(raw) = [sink |-> [rtp EXCEPT !.audio = u, !.audioBase = base],
                       unit |-> abs - base]
  BY DEF RtpAudio
<1> HIDE DEF u, abs, base
<1>6. /\ RtpAudio(raw).sink = [rtp EXCEPT !.audio = u, !.audioBase = base]
      /\ RtpAudio(raw).unit = abs - base
  BY <1>5
<1>7. RtpAudio(raw).sink = [dts |-> rtp.dts, pts |-> rtp.pts, base |-> rtp.base,
                            audio |-> u, audioBase |-> base]
  BY <1>1, <1>6
<1>8. RtpSound(RtpAudio(raw).sink)
  BY <1>1, <1>2, <1>4, <1>7 DEF RtpSound
<1> QED
  BY <1>2, <1>4, <1>6, <1>8

(* A unit of audio in the RTSP sink. *)
LEMMA RtspAudioSound ==
    ASSUME NEW raw \in 0 .. Wrap - 1, RtspSound(rtsp)
    PROVE  RtspSound(RtspAudio(raw).sink) /\ RtspAudio(raw).unit \in Maybe(Int)
<1> USE ConstantFacts
<1> DEFINE u == Unwrap(rtsp.audio, raw)
           unit == IF rtsp.player = "started" THEN Absolute(u) * Ratio - rtsp.base ELSE None
<1>1. /\ rtsp \in [dts : Unwrapper, pts : Unwrapper, audio : Unwrapper,
                   player : {None, "waiting", "started"}, base : Int]
      /\ rtsp.base \in Int
  BY DEF RtspSound
<1>2. u \in Unwrapper /\ Absolute(u) \in Int
  BY <1>1, UnwrapType
<1>3. unit \in Maybe(Int)
  <2> DEFINE scaled == Absolute(u) * Ratio
  <2>1. scaled \in Int
    BY <1>2
  <2> HIDE DEF scaled
  <2>2. scaled - rtsp.base \in Int
    BY <1>1, <2>1
  <2> QED
    BY <2>2 DEF Maybe, scaled
<1>4. RtspAudio(raw) = [sink |-> [rtsp EXCEPT !.audio = u], unit |-> unit]
  BY DEF RtspAudio
<1> HIDE DEF u, unit
<1>5. RtspAudio(raw).sink = [rtsp EXCEPT !.audio = u] /\ RtspAudio(raw).unit = unit
  BY <1>4
<1>6. RtspSound(RtspAudio(raw).sink)
  BY <1>1, <1>2, <1>5 DEF RtspSound
<1> QED
  BY <1>3, <1>5, <1>6

-----------------------------------------------------------------------------
(* Types, step by step *)

\* What the transport stream last handed on is what its guard compares with.
LastOut == out.ts # None => out.ts.dts = ts.lastVideo /\ ts.lastVideo >= 0

TypeInv ==
    /\ FeedTypeOK
    /\ TsSound(ts) /\ RtpSound(rtp) /\ RtspSound(rtsp) /\ NdiSound(ndi)
    /\ OutTypeOK /\ PastTypeOK
    /\ LastOut

(* The outputs of sinks that are closed. *)
LEMMA NoOutType == ASSUME out = NoOut PROVE OutTypeOK /\ LastOut
  BY DEF NoOut, OutTypeOK, LastOut, Maybe

(* And a session that has not begun. *)
LEMMA NoZeroType == ASSUME zero = NoZero, intact = TRUE PROVE PastTypeOK
  BY DEF NoZero, PastTypeOK, Maybe

(* The time of the audio at a position of the video. *)
LEMMA Halves == ASSUME NEW x \in Nat PROVE x \div Ratio \in Nat
<1>1. Ratio \in Nat /\ Ratio > 0
  BY ConstantFacts
<1> QED
  BY <1>1

(* Before anything is open. *)
LEMMA InitSound == Init => TypeInv
<1> SUFFICES ASSUME Init PROVE TypeInv
  OBVIOUS
<1> USE ConstantFacts
<1>1. now \in Nat /\ shown \in Nat /\ heard \in Nat
  BY Halves DEF Init
<1>2. source \in [video : Maybe(0 .. Wrap - 1), audio : Maybe(0 .. Wrap - 1)]
  BY DEF Init, NoSource, Maybe
<1>3. FeedTypeOK
  BY <1>1, <1>2 DEF Init, FeedTypeOK
<1>4. TsSound(ts) /\ RtpSound(rtp) /\ RtspSound(rtsp) /\ NdiSound(ndi)
  BY ClosedSound DEF Init
<1>5. OutTypeOK /\ LastOut
  BY NoOutType DEF Init
<1>6. PastTypeOK
  BY NoZeroType DEF Init
<1> QED
  BY <1>3, <1>4, <1>5, <1>6 DEF TypeInv

(* The clocks of a unit of video, whichever of its times are missing. *)
LEMMA VideoClocksType ==
    ASSUME FeedTypeOK, NEW stamps \in Stamps, NEW d \in Nat, NEW p \in Nat
    PROVE  VideoClocks(stamps, d, p) \in Clocks
<1> DEFINE next == IF source.video = None THEN 0 ELSE (source.video + FrameStep) % Wrap
<1>1. next \in 0 .. Wrap - 1
  <2>1. CASE source.video = None
    BY <2>1, WrapFacts
  <2>2. CASE source.video # None
    <3>1. source.video + FrameStep \in Nat
      <4>1. source.video \in 0 .. Wrap - 1
        BY <2>2 DEF FeedTypeOK, Maybe
      <4> QED
        BY <4>1, ConstantFacts
    <3> QED
      BY <2>2, <3>1, Division
  <2> QED
    BY <2>1, <2>2
<1>2. d % Wrap \in 0 .. Wrap - 1 /\ p % Wrap \in 0 .. Wrap - 1
  BY Division
<1>3. VideoClocks(stamps, d, p) =
        CASE stamps = "both"     -> [dts |-> d % Wrap, pts |-> p % Wrap]
          [] stamps = "only pts" -> [dts |-> p % Wrap, pts |-> p % Wrap]
          [] stamps = "only dts" -> [dts |-> d % Wrap, pts |-> d % Wrap]
          [] stamps = "neither"  -> [dts |-> next, pts |-> next]
  BY DEF VideoClocks
<1> DEFINE e == d % Wrap
           q == p % Wrap
<1>4. e \in 0 .. Wrap - 1 /\ q \in 0 .. Wrap - 1
  BY <1>2
<1>5. VideoClocks(stamps, d, p) =
        CASE stamps = "both"     -> [dts |-> e, pts |-> q]
          [] stamps = "only pts" -> [dts |-> q, pts |-> q]
          [] stamps = "only dts" -> [dts |-> e, pts |-> e]
          [] stamps = "neither"  -> [dts |-> next, pts |-> next]
  BY <1>3
<1> HIDE DEF next, e, q
<1>6. CASE stamps = "both"
  <2>1. VideoClocks(stamps, d, p) = [dts |-> e, pts |-> q]
    BY <1>5, <1>6
  <2> QED
    BY <2>1, <1>4 DEF Clocks
<1>7. CASE stamps = "only pts"
  <2>1. VideoClocks(stamps, d, p) = [dts |-> q, pts |-> q]
    BY <1>5, <1>7
  <2> QED
    BY <2>1, <1>4 DEF Clocks
<1>8. CASE stamps = "only dts"
  <2>1. VideoClocks(stamps, d, p) = [dts |-> e, pts |-> e]
    BY <1>5, <1>8
  <2> QED
    BY <2>1, <1>4 DEF Clocks
<1>9. CASE stamps = "neither"
  <2>1. VideoClocks(stamps, d, p) = [dts |-> next, pts |-> next]
    BY <1>5, <1>9
  <2> QED
    BY <2>1, <1>1 DEF Clocks
<1> QED
  BY <1>6, <1>7, <1>8, <1>9 DEF Stamps

(* The clock of a unit of audio, with and without its time. *)
LEMMA AudioClockType ==
    ASSUME FeedTypeOK, NEW stamped \in BOOLEAN, NEW a \in Nat
    PROVE  AudioClock(stamped, a) \in 0 .. Wrap - 1
<1>1. CASE stamped
  <2>1. a + shift \in Nat
    BY ConstantFacts DEF FeedTypeOK
  <2> QED
    BY <1>1, <2>1, Division DEF AudioClock
<1>2. CASE ~stamped /\ source.audio = None
  BY <1>2, WrapFacts DEF AudioClock
<1>3. CASE ~stamped /\ source.audio # None
  <2>1. source.audio \in 0 .. Wrap - 1
    BY <1>3 DEF FeedTypeOK, Maybe
  <2>2. source.audio + AudioStep \in Nat
    BY <2>1, ConstantFacts
  <2> QED
    BY <1>3, <2>2, Division DEF AudioClock
<1> QED
  BY <1>1, <1>2, <1>3

(* A unit of video keeps the types. *)
LEMMA WriteVideoSound ==
    ASSUME TypeInv, NEW step \in VideoSteps, NEW delay \in Delays, NEW stamps \in Stamps,
           NEW key \in BOOLEAN, WriteVideo(step, delay, stamps, key)
    PROVE  TypeInv'
<1> DEFINE d == now + step
           p == d + delay
           c == VideoClocks(stamps, d, p)
<1>1. d \in Nat /\ p \in Nat
  BY ConstantFacts DEF TypeInv, FeedTypeOK
<1>2. c \in Clocks
  BY <1>1, VideoClocksType DEF TypeInv
<1>3. c.dts \in 0 .. Wrap - 1
  BY <1>2 DEF Clocks
<1>4. /\ now' = d /\ shown' = p /\ Counted(stamps = "both")
      /\ source' = [source EXCEPT !.video = c.dts]
      /\ UNCHANGED <<heard, shift, open>>
  BY DEF WriteVideo
<1>5. /\ ts' = IF "ts" \in open THEN TsVideo(c).sink ELSE ts
      /\ rtp' = IF "rtp" \in open THEN RtpVideo(c).sink ELSE rtp
      /\ rtsp' = IF "rtsp" \in open THEN RtspVideo(c, key).sink ELSE rtsp
      /\ ndi' = IF "ndi" \in open THEN NdiVideo(c).sink ELSE ndi
  BY DEF WriteVideo
<1>6. out' = [out EXCEPT !.ts = IF "ts" \in open THEN TsVideo(c).unit ELSE @,
                         !.rtp = IF "rtp" \in open THEN RtpVideo(c).unit ELSE @,
                         !.player = IF "rtsp" \in open THEN RtspVideo(c, key).unit ELSE @,
                         !.ndi = IF "ndi" \in open THEN NdiVideo(c).unit ELSE @]
  BY DEF WriteVideo
<1>7. /\ intact' = (open # {} => intact /\ c = VideoClocks("both", d, p))
      /\ zero' = IF open = {} THEN zero
                 ELSE [zero EXCEPT !.dts = IF zero.dts # None THEN @ ELSE d,
                                   !.pts = IF zero.dts # None THEN @ ELSE p,
                                   !.ordered = IF zero.dts # None THEN @ ELSE c.dts <= c.pts,
                                   !.player = IF "rtsp" \in open /\ Begins(key) THEN d ELSE @]
  BY DEF WriteVideo
<1> HIDE DEF d, p, c
<1>8. FeedTypeOK'
  <2>1. faults' \in 0 .. MaxFaults
    BY <1>4, ConstantFacts DEF Counted, TypeInv, FeedTypeOK
  <2>2. source' \in [video : Maybe(0 .. Wrap - 1), audio : Maybe(0 .. Wrap - 1)]
    BY <1>3, <1>4 DEF TypeInv, FeedTypeOK, Maybe
  <2> QED
    BY <1>1, <1>4, <2>1, <2>2 DEF TypeInv, FeedTypeOK
<1>9. TsSound(ts)'
  <2>1. TsSound(IF "ts" \in open THEN TsVideo(c).sink ELSE ts)
    BY <1>2, TsVideoSound DEF TypeInv
  <2> QED
    BY <1>5, <2>1 DEF TsSound
<1>10. RtpSound(rtp)'
  <2>1. RtpSound(IF "rtp" \in open THEN RtpVideo(c).sink ELSE rtp)
    BY <1>2, RtpVideoSound DEF TypeInv
  <2> QED
    BY <1>5, <2>1 DEF RtpSound
<1>11. RtspSound(rtsp)'
  <2>1. RtspSound(IF "rtsp" \in open THEN RtspVideo(c, key).sink ELSE rtsp)
    BY <1>2, RtspVideoSound DEF TypeInv
  <2> QED
    BY <1>5, <2>1 DEF RtspSound
<1>12. NdiSound(ndi)'
  <2>1. NdiSound(IF "ndi" \in open THEN NdiVideo(c).sink ELSE ndi)
    BY <1>2, NdiVideoSound DEF TypeInv
  <2> QED
    BY <1>5, <2>1 DEF NdiSound
<1>13. OutTypeOK'
  <2>1. "ts" \in open => TsVideo(c).unit \in Maybe(VideoOut)
    BY <1>2, TsVideoSound DEF TypeInv, Maybe
  <2>2. "rtp" \in open => RtpVideo(c).unit \in Maybe(VideoOut)
    BY <1>2, RtpVideoSound DEF TypeInv, Maybe
  <2>3. "rtsp" \in open => RtspVideo(c, key).unit \in Maybe(VideoOut)
    BY <1>2, RtspVideoSound DEF TypeInv
  <2>4. "ndi" \in open => NdiVideo(c).unit \in Maybe(Int)
    BY <1>2, NdiVideoSound DEF TypeInv, Maybe
  <2> QED
    BY <1>6, <2>1, <2>2, <2>3, <2>4 DEF TypeInv, OutTypeOK
<1>14. PastTypeOK'
  <2>1. intact' \in BOOLEAN
    BY <1>7
  <2>2. d \in Maybe(Nat) /\ p \in Maybe(Nat)
    BY <1>1 DEF Maybe
  <2>3. (c.dts <= c.pts) \in BOOLEAN
    OBVIOUS
  <2> DEFINE o == c.dts <= c.pts
  <2>4. o \in BOOLEAN
    BY <2>3
  <2>5. zero' = IF open = {} THEN zero
                ELSE [zero EXCEPT !.dts = IF zero.dts # None THEN @ ELSE d,
                                  !.pts = IF zero.dts # None THEN @ ELSE p,
                                  !.ordered = IF zero.dts # None THEN @ ELSE o,
                                  !.player = IF "rtsp" \in open /\ Begins(key) THEN d ELSE @]
    BY <1>7
  <2> HIDE DEF o
  <2>6. zero' \in [dts : Maybe(Nat), pts : Maybe(Nat), ordered : BOOLEAN, player : Maybe(Nat),
                   tsLag : Maybe(Int), rtpLag : Maybe(Int), playerLag : Maybe(Int)]
    BY <2>2, <2>4, <2>5 DEF TypeInv, PastTypeOK
  <2> QED
    BY <2>1, <2>6 DEF PastTypeOK
<1>15. LastOut'
  <2>1. CASE "ts" \in open
    <3>1. out'.ts = TsVideo(c).unit /\ ts' = TsVideo(c).sink
      BY <2>1, <1>5, <1>6 DEF TypeInv, OutTypeOK
    <3>2. TsVideo(c).sink.lastVideo = TsVideo(c).unit.dts /\ TsVideo(c).unit.dts \in Nat
      BY <1>2, TsVideoSound DEF TypeInv
    <3> QED
      BY <3>1, <3>2 DEF LastOut
  <2>2. CASE "ts" \notin open
    <3>1. out'.ts = out.ts /\ ts' = ts
      BY <2>2, <1>5, <1>6 DEF TypeInv, OutTypeOK
    <3> QED
      BY <3>1 DEF TypeInv, LastOut
  <2> QED
    BY <2>1, <2>2
<1> QED
  BY <1>8, <1>9, <1>10, <1>11, <1>12, <1>13, <1>14, <1>15 DEF TypeInv


(* How far audio came out behind its time is a number once it is known. *)
LEMMA LagType ==
    ASSUME NEW known \in Maybe(Int), NEW unit \in Maybe(Int), NEW time \in Int
    PROVE  Lag(known, unit, time) \in Maybe(Int)
<1>1. CASE known # None \/ unit = None
  BY <1>1 DEF Lag
<1>2. CASE known = None /\ unit # None
  <2>1. unit \in Int
    BY <1>2 DEF Maybe
  <2>2. time - unit \in Int
    BY <2>1
  <2> QED
    BY <1>2, <2>2 DEF Lag, Maybe
<1> QED
  BY <1>1, <1>2

(* A unit of audio keeps the types. *)
LEMMA WriteAudioSound ==
    ASSUME TypeInv, NEW step \in AudioSteps, NEW stamped \in BOOLEAN, WriteAudio(step, stamped)
    PROVE  TypeInv'
<1> DEFINE a == heard + step
           raw == AudioClock(stamped, a)
           tsUnit == IF TsTakesAudio THEN TsAudio(raw).unit ELSE None
           rtpUnit == IF "rtp" \in open THEN RtpAudio(raw).unit ELSE None
           playerUnit == IF "rtsp" \in open THEN RtspAudio(raw).unit ELSE None
           ra == Ratio * a
<1>1. a \in Nat
  BY ConstantFacts DEF TypeInv, FeedTypeOK
<1>2. raw \in 0 .. Wrap - 1
  BY <1>1, AudioClockType DEF TypeInv
<1>3. ra \in Int
  <2> HIDE DEF a
  <2> QED
    BY <1>1, ConstantFacts
<1>4. /\ heard' = a /\ Counted(stamped)
      /\ source' = [source EXCEPT !.audio = raw]
      /\ UNCHANGED <<now, shown, shift, open, ndi>>
  BY DEF WriteAudio
<1>5. /\ ts' = IF TsTakesAudio THEN TsAudio(raw).sink ELSE ts
      /\ rtp' = IF "rtp" \in open THEN RtpAudio(raw).sink ELSE rtp
      /\ rtsp' = IF "rtsp" \in open THEN RtspAudio(raw).sink ELSE rtsp
  BY DEF WriteAudio
<1>6. out' = [out EXCEPT !.tsAudio = tsUnit, !.rtpAudio = rtpUnit, !.playerAudio = playerUnit]
  BY DEF WriteAudio
<1>7. /\ intact' = (open # {} => intact /\ raw = AudioClock(TRUE, a))
      /\ zero' = [zero EXCEPT !.tsLag = Lag(@, tsUnit, ra),
                              !.rtpLag = Lag(@, rtpUnit, a),
                              !.playerLag = Lag(@, playerUnit, ra)]
  BY DEF WriteAudio
<1>8. /\ tsUnit \in Maybe(Int) /\ rtpUnit \in Maybe(Int) /\ playerUnit \in Maybe(Int)
  <2>1. TsTakesAudio => TsAudio(raw).unit \in Maybe(Int)
    BY <1>2, TsAudioSound DEF TypeInv, Maybe, TsTakesAudio
  <2>2. "rtp" \in open => RtpAudio(raw).unit \in Maybe(Int)
    BY <1>2, RtpAudioSound DEF TypeInv, Maybe
  <2>3. "rtsp" \in open => RtspAudio(raw).unit \in Maybe(Int)
    BY <1>2, RtspAudioSound DEF TypeInv
  <2>4. None \in Maybe(Int)
    BY DEF Maybe
  <2> HIDE DEF raw
  <2> QED
    BY <2>1, <2>2, <2>3, <2>4
<1> HIDE DEF a, raw, tsUnit, rtpUnit, playerUnit, ra
<1>9. FeedTypeOK'
  <2>1. faults' \in 0 .. MaxFaults
    BY <1>4, ConstantFacts DEF Counted, TypeInv, FeedTypeOK
  <2>2. source' \in [video : Maybe(0 .. Wrap - 1), audio : Maybe(0 .. Wrap - 1)]
    BY <1>2, <1>4 DEF TypeInv, FeedTypeOK, Maybe
  <2> QED
    BY <1>1, <1>4, <2>1, <2>2 DEF TypeInv, FeedTypeOK
<1>10. TsSound(ts)'
  <2>1. TsSound(IF TsTakesAudio THEN TsAudio(raw).sink ELSE ts)
    BY <1>2, TsAudioSound DEF TypeInv, TsTakesAudio
  <2> QED
    BY <1>5, <2>1 DEF TsSound
<1>11. RtpSound(rtp)'
  <2>1. RtpSound(IF "rtp" \in open THEN RtpAudio(raw).sink ELSE rtp)
    BY <1>2, RtpAudioSound DEF TypeInv
  <2> QED
    BY <1>5, <2>1 DEF RtpSound
<1>12. RtspSound(rtsp)'
  <2>1. RtspSound(IF "rtsp" \in open THEN RtspAudio(raw).sink ELSE rtsp)
    BY <1>2, RtspAudioSound DEF TypeInv
  <2> QED
    BY <1>5, <2>1 DEF RtspSound
<1>13. NdiSound(ndi)'
  BY <1>4 DEF TypeInv, NdiSound
<1>14. OutTypeOK'
  BY <1>6, <1>8 DEF TypeInv, OutTypeOK
<1>15. PastTypeOK'
  <2>1. intact' \in BOOLEAN
    BY <1>7
  <2>2. /\ Lag(zero.tsLag, tsUnit, ra) \in Maybe(Int)
        /\ Lag(zero.rtpLag, rtpUnit, a) \in Maybe(Int)
        /\ Lag(zero.playerLag, playerUnit, ra) \in Maybe(Int)
    <3>1. /\ zero.tsLag \in Maybe(Int) /\ zero.rtpLag \in Maybe(Int)
          /\ zero.playerLag \in Maybe(Int)
      BY DEF TypeInv, PastTypeOK
    <3>2. a \in Int
      BY <1>1
    <3> QED
      BY <3>1, <3>2, <1>3, <1>8, LagType
  <2>3. zero' \in [dts : Maybe(Nat), pts : Maybe(Nat), ordered : BOOLEAN, player : Maybe(Nat),
                   tsLag : Maybe(Int), rtpLag : Maybe(Int), playerLag : Maybe(Int)]
    BY <1>7, <2>2 DEF TypeInv, PastTypeOK
  <2> QED
    BY <2>1, <2>3 DEF PastTypeOK
<1>16. out'.ts = out.ts /\ ts'.lastVideo = ts.lastVideo
  <2>1. out'.ts = out.ts
    BY <1>6 DEF TypeInv, OutTypeOK
  <2>2. TsAudio(raw).sink.lastVideo = ts.lastVideo
    <3> DEFINE u == Unwrap(ts.audio, raw)
               time == KeepMonotonic(Absolute(u) * Ratio - ts.base, ts.lastAudio, MinAudioStep)
    <3>1. TsAudio(raw) = [sink |-> [ts EXCEPT !.audio = u, !.lastAudio = time], unit |-> time]
      BY DEF TsAudio
    <3> HIDE DEF u, time
    <3>2. TsAudio(raw).sink = [ts EXCEPT !.audio = u, !.lastAudio = time]
      BY <3>1
    <3> QED
      BY <3>2 DEF TypeInv, TsSound
  <2> QED
    BY <1>5, <2>1, <2>2
<1>17. LastOut'
  BY <1>16 DEF TypeInv, LastOut
<1> QED
  BY <1>9, <1>10, <1>11, <1>12, <1>13, <1>14, <1>15, <1>17 DEF TypeInv

(* Closing the sinks establishes the types anew. *)
LEMMA CloseAllSound ==
    ASSUME CloseAll
    PROVE  /\ open' = {}
           /\ TsSound(ts)' /\ RtpSound(rtp)' /\ RtspSound(rtsp)' /\ NdiSound(ndi)'
           /\ OutTypeOK' /\ PastTypeOK' /\ LastOut'
<1>1. /\ open' = {} /\ ts' = NoTs /\ rtp' = NoRtp /\ rtsp' = NoRtsp /\ ndi' = NoNdi
      /\ out' = NoOut /\ zero' = NoZero /\ intact' = TRUE
  BY DEF CloseAll, ClosedTs
<1>2. TsSound(ts)' /\ RtpSound(rtp)' /\ RtspSound(rtsp)' /\ NdiSound(ndi)'
  BY <1>1, ClosedSound DEF TsSound, RtpSound, RtspSound, NdiSound
<1>3. OutTypeOK' /\ LastOut'
  BY <1>1 DEF NoOut, OutTypeOK, LastOut, Maybe
<1>4. PastTypeOK'
  BY <1>1 DEF NoZero, PastTypeOK, Maybe
<1> QED
  BY <1>1, <1>2, <1>3, <1>4

(* Every step keeps the types. *)
LEMMA StepSound == TypeInv /\ [Next]_vars => TypeInv'
<1> SUFFICES ASSUME TypeInv, [Next]_vars PROVE TypeInv'
  OBVIOUS
<1>1. ASSUME NEW step \in VideoSteps, NEW delay \in Delays, NEW stamps \in Stamps,
             NEW key \in BOOLEAN, WriteVideo(step, delay, stamps, key)
      PROVE  TypeInv'
  BY <1>1, WriteVideoSound
<1>2. ASSUME NEW step \in AudioSteps, NEW stamped \in BOOLEAN, WriteAudio(step, stamped)
      PROVE  TypeInv'
  BY <1>2, WriteAudioSound
<1>3. ASSUME NEW some \in OpenSets, Open(some) PROVE TypeInv'
  <2>1. open' \subseteq Sinks
    BY <1>3, SinkTimestampsAssumption DEF Open
  <2>2. FeedTypeOK'
    BY <1>3, <2>1 DEF Open, feedVars, TypeInv, FeedTypeOK
  <2> QED
    BY <1>3, <2>2 DEF Open, TypeInv, TsSound, RtpSound, RtspSound, NdiSound, OutTypeOK,
                      PastTypeOK, LastOut
<1>4. CASE Play
  <2>1. RtspSound(rtsp)'
    BY <1>4 DEF Play, TypeInv, RtspSound
  <2>2. FeedTypeOK'
    BY <1>4 DEF Play, feedVars, TypeInv, FeedTypeOK
  <2> QED
    BY <1>4, <2>1, <2>2 DEF Play, TypeInv, TsSound, RtpSound, NdiSound, OutTypeOK,
                            PastTypeOK, LastOut
<1>5. CASE Leave
  <2>1. RtspSound(rtsp)'
    <3> DEFINE gone == -1
    <3>1. gone \in Int /\ rtsp' = [rtsp EXCEPT !.player = None, !.base = gone]
      BY <1>5 DEF Leave
    <3> HIDE DEF gone
    <3> QED
      BY <3>1 DEF TypeInv, RtspSound
  <2>2. FeedTypeOK'
    BY <1>5 DEF Leave, feedVars, TypeInv, FeedTypeOK
  <2>3. OutTypeOK'
    BY <1>5 DEF Leave, TypeInv, OutTypeOK, Maybe
  <2>4. PastTypeOK'
    BY <1>5 DEF Leave, TypeInv, PastTypeOK, Maybe
  <2>5. LastOut'
    BY <1>5 DEF Leave, TypeInv, OutTypeOK, LastOut
  <2> QED
    BY <1>5, <2>1, <2>2, <2>3, <2>4, <2>5 DEF Leave, TypeInv, TsSound, RtpSound, NdiSound
<1>6. CASE Close
  <2>1. CloseAll /\ UNCHANGED feedVars
    BY <1>6 DEF Close
  <2>2. FeedTypeOK'
    BY <2>1, CloseAllSound DEF feedVars, TypeInv, FeedTypeOK
  <2> QED
    BY <2>1, <2>2, CloseAllSound DEF TypeInv
<1>7. ASSUME NEW first \in FirstTimes, NEW ahead \in AudioShifts, Restart(first, ahead)
      PROVE  TypeInv'
  <2>1. CloseAll /\ StartFeed(first, ahead)
    BY <1>7 DEF Restart
  <2>2. first \in Nat /\ first \div Ratio \in Nat
    BY Halves, ConstantFacts
  <2>3. NoSource \in [video : Maybe(0 .. Wrap - 1), audio : Maybe(0 .. Wrap - 1)]
    BY DEF NoSource, Maybe
  <2>4. FeedTypeOK'
    BY <2>1, <2>2, <2>3, CloseAllSound, ConstantFacts DEF StartFeed, FeedTypeOK
  <2> QED
    BY <2>1, <2>4, CloseAllSound DEF TypeInv
<1>8. ASSUME NEW first \in FirstTimes, Loop(first) PROVE TypeInv'
  <2>1. first \in Nat /\ first \div Ratio \in Nat
    BY Halves, ConstantFacts
  <2>2. FeedTypeOK'
    BY <1>8, <2>1, ConstantFacts DEF Loop, sinkVars, TypeInv, FeedTypeOK
  <2>3. PastTypeOK'
    BY <1>8 DEF Loop, TypeInv, PastTypeOK
  <2> QED
    BY <1>8, <2>2, <2>3 DEF Loop, sinkVars, TypeInv, TsSound, RtpSound, RtspSound, NdiSound,
                            OutTypeOK, LastOut
<1>9. CASE UNCHANGED vars
  BY <1>9 DEF vars, feedVars, sinkVars, TypeInv, FeedTypeOK, TsSound, RtpSound, RtspSound,
              NdiSound, OutTypeOK, PastTypeOK, LastOut
<1> QED
  BY <1>1, <1>2, <1>3, <1>4, <1>5, <1>6, <1>7, <1>8, <1>9 DEF Next

(* TypeInv is stronger than TypeOK. *)
LEMMA TypeInvTypes == TypeInv => TypeOK
  BY DEF TypeInv, TypeOK, TsTypeOK, RtpTypeOK, RtspTypeOK, NdiTypeOK, TsSound, RtpSound,
         RtspSound, NdiSound

(* The types, with what they rest on: a base is taken from the first unit and is never
   negative, and the last decode time of the transport stream is the one it handed on. *)
THEOREM TypeInvHolds == Spec => []TypeInv
  BY InitSound, StepSound, PTL DEF Spec

(* The clocks of the sinks stay in their ranges, in every interleaving of feeds that start
   over or lose their times, sinks that open and close, and players that come and go. *)
THEOREM TypeCorrect == Spec => []TypeOK
  BY TypeInvHolds, TypeInvTypes, PTL

-----------------------------------------------------------------------------
(* The transport stream advances *)

(* One step: the transport stream hands on a later decode time or none. *)
LEMMA AdvanceStep ==
    ASSUME TypeInv, [Next]_vars, out.ts # None, out'.ts # None, out'.ts # out.ts
    PROVE  out'.ts.dts > out.ts.dts
<1>1. ASSUME NEW step \in VideoSteps, NEW delay \in Delays, NEW stamps \in Stamps,
             NEW key \in BOOLEAN, WriteVideo(step, delay, stamps, key)
      PROVE  out'.ts.dts > out.ts.dts
  <2> DEFINE d == now + step
             p == d + delay
             c == VideoClocks(stamps, d, p)
  <2>1. d \in Nat /\ p \in Nat
    BY ConstantFacts DEF TypeInv, FeedTypeOK
  <2>2. c \in Clocks
    BY <2>1, VideoClocksType DEF TypeInv
  <2>3. out' = [out EXCEPT !.ts = IF "ts" \in open THEN TsVideo(c).unit ELSE @,
                           !.rtp = IF "rtp" \in open THEN RtpVideo(c).unit ELSE @,
                           !.player = IF "rtsp" \in open THEN RtspVideo(c, key).unit ELSE @,
                           !.ndi = IF "ndi" \in open THEN NdiVideo(c).unit ELSE @]
    BY <1>1 DEF WriteVideo
  <2> HIDE DEF c
  <2>4. out'.ts = TsVideo(c).unit
    BY <2>3 DEF TypeInv, OutTypeOK
  <2> QED
    BY <2>2, <2>4, TsVideoSound DEF TypeInv, LastOut
<1>2. ASSUME NEW step \in AudioSteps, NEW stamped \in BOOLEAN, WriteAudio(step, stamped)
      PROVE  out'.ts = out.ts
  <2>1. \E x, y, z : out' = [out EXCEPT !.tsAudio = x, !.rtpAudio = y, !.playerAudio = z]
    BY <1>2 DEF WriteAudio
  <2> QED
    BY <2>1 DEF TypeInv, OutTypeOK
<1>3. ASSUME NEW some \in OpenSets, Open(some) PROVE out'.ts = out.ts
  BY <1>3 DEF Open
<1>4. CASE Play
  BY <1>4 DEF Play
<1>5. CASE Leave
  BY <1>5 DEF Leave, TypeInv, OutTypeOK
<1>6. CASE Close
  BY <1>6 DEF Close, CloseAll, NoOut
<1>7. ASSUME NEW first \in FirstTimes, NEW ahead \in AudioShifts, Restart(first, ahead)
      PROVE  FALSE
  BY <1>7 DEF Restart, CloseAll, NoOut
<1>8. ASSUME NEW first \in FirstTimes, Loop(first) PROVE out'.ts = out.ts
  BY <1>8 DEF Loop
<1>9. CASE UNCHANGED vars
  BY <1>9 DEF vars
<1> QED
  BY <1>1, <1>2, <1>3, <1>4, <1>5, <1>6, <1>7, <1>8, <1>9 DEF Next

(* The decode times the muxer of the transport stream is given advance (keepMonotonic),
   whatever the feed does, for every wrap of the clocks. *)
THEOREM DecodeTimesAdvance == Spec => TsDecodeTimesAdvance
<1>1. TypeInv /\ [Next]_vars
        => [(out.ts # None /\ out'.ts # None /\ out'.ts # out.ts)
               => out'.ts.dts > out.ts.dts]_vars
  BY AdvanceStep
<1> QED
  BY <1>1, TypeInvHolds, PTL DEF Spec, TsDecodeTimesAdvance

-----------------------------------------------------------------------------
(* What a session is of the position of its feed *)

\* The session: its first unit, and how far presentation is ahead of decoding.
SessionFollows ==
    zero.dts # None =>
        /\ shown - now \in Delays
        /\ zero.pts \in Nat /\ zero.pts - zero.dts \in Delays
        /\ zero.ordered <=> zero.dts % Wrap <= zero.pts % Wrap

\* The sinks: before the first unit of the session, and from it on.
TsFollows ==
    IF "ts" \notin open THEN out.ts = None
    ELSE /\ zero.dts = None => /\ ts.dts = Fresh /\ ts.pts = Fresh
                               /\ ts.base = -1 /\ ts.lastVideo = -1
                               /\ out.ts = None
         /\ zero.dts # None =>
                /\ Following(ts.dts, now, zero.dts) /\ Following(ts.pts, shown, zero.pts)
                /\ ts.base = zero.dts % Wrap
                /\ ts.lastVideo = now - zero.dts
                /\ out.ts = [dts |-> now - zero.dts,
                             pts |-> Ridden(now - zero.dts, ts.dts, ts.pts)]

RtpFollows ==
    IF "rtp" \notin open THEN out.rtp = None
    ELSE /\ zero.dts = None => /\ rtp.dts = Fresh /\ rtp.pts = Fresh
                               /\ rtp.base = -1
                               /\ out.rtp = None
         /\ zero.dts # None =>
                /\ Following(rtp.dts, now, zero.dts) /\ Following(rtp.pts, shown, zero.pts)
                /\ rtp.base = zero.dts % Wrap
                /\ out.rtp = [dts |-> now - zero.dts,
                              pts |-> Ridden(now - zero.dts, rtp.dts, rtp.pts)]

RtspFollows ==
    IF "rtsp" \notin open THEN out.player = None
    ELSE /\ zero.dts = None => /\ rtsp.dts = Fresh /\ rtsp.pts = Fresh
                               /\ rtsp.player # "started"
         /\ zero.dts # None =>
                Following(rtsp.dts, now, zero.dts) /\ Following(rtsp.pts, shown, zero.pts)
         /\ rtsp.player # "started" => out.player = None
         /\ rtsp.player = "started" =>
                /\ zero.player \in Nat
                /\ rtsp.base = (zero.player - zero.dts) + (zero.dts % Wrap)
                /\ out.player = [dts |-> now - zero.player,
                                 pts |-> Ridden(now - zero.player, rtsp.dts, rtsp.pts)]

NdiFollows ==
    IF "ndi" \notin open THEN out.ndi = None
    ELSE /\ zero.dts = None => ndi.pts = Fresh /\ ndi.base = -1 /\ out.ndi = None
         /\ zero.dts # None =>
                /\ Following(ndi.pts, shown, zero.pts)
                /\ ndi.base = zero.pts % Wrap
                /\ out.ndi = shown - zero.pts

\* The audio: before the first unit that came out, and from it on.
TsAudioFollows ==
    IF zero.tsLag = None
    THEN ts.audio = Fresh /\ ts.lastAudio = -1 /\ out.tsAudio = None
    ELSE /\ "ts" \in open /\ ts.base >= 0
         /\ ts.audio.last = (heard + shift) % Wrap
         /\ Absolute(ts.audio) * Ratio - ts.base = Ratio * heard - zero.tsLag
         /\ ts.lastAudio = Ratio * heard - zero.tsLag
         /\ out.tsAudio = Ratio * heard - zero.tsLag

RtpAudioFollows ==
    IF zero.rtpLag = None
    THEN rtp.audio = Fresh /\ rtp.audioBase = -1 /\ out.rtpAudio = None
    ELSE /\ "rtp" \in open /\ rtp.audioBase >= 0
         /\ rtp.audio.last = (heard + shift) % Wrap
         /\ Absolute(rtp.audio) - rtp.audioBase = heard - zero.rtpLag
         /\ out.rtpAudio = heard - zero.rtpLag

RtspAudioFollows ==
    /\ rtsp.audio = Fresh \/ ("rtsp" \in open /\ rtsp.audio.last = (heard + shift) % Wrap)
    /\ IF zero.playerLag = None THEN out.playerAudio = None
       ELSE /\ "rtsp" \in open /\ rtsp.player = "started"
            /\ rtsp.audio.last = (heard + shift) % Wrap
            /\ Absolute(rtsp.audio) * Ratio - rtsp.base = Ratio * heard - zero.playerLag
            /\ out.playerAudio = Ratio * heard - zero.playerLag

Follows ==
    /\ SessionFollows
    /\ TsFollows /\ RtpFollows /\ RtspFollows /\ NdiFollows
    /\ TsAudioFollows /\ RtpAudioFollows /\ RtspAudioFollows

\* No sink is open, and nothing is left of a session.
AllClosed ==
    /\ ts = NoTs /\ rtp = NoRtp /\ rtsp = NoRtsp /\ ndi = NoNdi
    /\ out = NoOut /\ zero = NoZero /\ intact = TRUE

FollowInv ==
    /\ open = {} => AllClosed
    /\ intact => Follows

(* No player is none of the states of a player. *)
LEMMA NoneFacts == None # "started" /\ None # "waiting"
  BY SinkTimestampsAssumption

(* Closed sinks follow, there being nothing to follow. *)
LEMMA AllClosedFollows == AllClosed => Follows
<1> SUFFICES ASSUME AllClosed PROVE Follows
  OBVIOUS
<1> USE NoneFacts DEF AllClosed, NoZero, NoOut
<1>1. SessionFollows
  BY DEF SessionFollows
<1>2. TsFollows
  BY DEF TsFollows, NoTs
<1>3. RtpFollows
  BY DEF RtpFollows, NoRtp
<1>4. RtspFollows
  BY DEF RtspFollows, NoRtsp
<1>5. NdiFollows
  BY DEF NdiFollows, NoNdi
<1>6. TsAudioFollows
  BY DEF TsAudioFollows, NoTs
<1>7. RtpAudioFollows
  BY DEF RtpAudioFollows, NoRtp
<1>8. RtspAudioFollows
  BY DEF RtspAudioFollows, NoRtsp
<1> QED
  BY <1>1, <1>2, <1>3, <1>4, <1>5, <1>6, <1>7, <1>8 DEF Follows

(* The same of the state after a step. *)
LEMMA AllClosedFollowsNext == AllClosed' => FollowInv'
<1>1. (AllClosed => Follows)'
  BY AllClosedFollows, PTL
<1> QED
  BY <1>1 DEF FollowInv

(* The property follows: what a sink hands on is what its members say, and where the first
   unit was in order the two video clocks lost the same number of wraps. *)
LEMMA FollowInvFollows == TypeInv /\ FollowInv => SinksFollowFeed
<1> SUFFICES ASSUME TypeInv, FollowInv, intact PROVE SinksFollowFeed
  BY DEF SinksFollowFeed, DecodeTimesFollowFeed, PresentationFollowsDecode, AudioFollowsFeed
<1>0. Follows
  BY DEF FollowInv
<1>1. now \in Nat /\ shown \in Nat /\ zero.dts \in Maybe(Nat)
  BY DEF TypeInv, FeedTypeOK, PastTypeOK
<1>2. DecodeTimesFollowFeed
  <2>1. out.ts # None => out.ts.dts = now - zero.dts
    BY <1>0 DEF Follows, TsFollows
  <2>2. out.rtp # None => out.rtp.dts = now - zero.dts
    BY <1>0 DEF Follows, RtpFollows
  <2>3. out.player # None => out.player.dts = now - zero.player
    BY <1>0 DEF Follows, RtspFollows
  <2>4. out.ndi # None => out.ndi = shown - zero.pts
    BY <1>0 DEF Follows, NdiFollows
  <2> QED
    BY <2>1, <2>2, <2>3, <2>4 DEF DecodeTimesFollowFeed
<1>3. ASSUME NEW u, NEW v, zero.dts # None, zero.ordered, NEW dts \in Int,
             Following(u, now, zero.dts), Following(v, shown, zero.pts)
      PROVE  Ridden(dts, u, v) - dts = shown - now
  <2>1. zero.dts \in Nat /\ zero.pts \in Nat
    BY <1>0, <1>1, <1>3 DEF Follows, SessionFollows, Maybe
  <2>2. zero.pts - zero.dts \in Delays /\ zero.dts % Wrap <= zero.pts % Wrap
    BY <1>0, <1>3 DEF Follows, SessionFollows
  <2>3. zero.pts - zero.dts \in 0 .. Wrap - 1
    <3> DEFINE b == zero.pts - zero.dts
    <3>1. b \in Delays
      BY <2>2
    <3> HIDE DEF b
    <3>2. b \in Nat /\ b < Wrap
      BY <3>1, SinkTimestampsAssumption
    <3>3. b \in 0 .. Wrap - 1
      BY <3>2, WrapFacts
    <3> QED
      BY <3>3 DEF b
  <2>4. (zero.pts % Wrap) - (zero.dts % Wrap) = zero.pts - zero.dts
    BY <2>1, <2>2, <2>3, Ordered
  <2>5. /\ Absolute(u) = (now - zero.dts) + (zero.dts % Wrap)
        /\ Absolute(v) = (shown - zero.pts) + (zero.pts % Wrap)
    BY <1>3 DEF Following
  <2>6. zero.dts % Wrap \in 0 .. Wrap - 1 /\ zero.pts % Wrap \in 0 .. Wrap - 1
    BY <2>1, Division
  <2> DEFINE e == zero.dts % Wrap
             q == zero.pts % Wrap
  <2>7. /\ e \in Int /\ q \in Int /\ q - e = zero.pts - zero.dts
        /\ Absolute(u) = (now - zero.dts) + e /\ Absolute(v) = (shown - zero.pts) + q
    BY <2>4, <2>5, <2>6, WrapFacts
  <2> DEFINE ahead == Absolute(v) - Absolute(u)
  <2> HIDE DEF e, q
  <2>8. ahead = shown - now
    BY <1>1, <2>1, <2>7
  <2> HIDE DEF ahead
  <2>9. Ridden(dts, u, v) = dts + ahead
    BY DEF Ridden, ahead
  <2> QED
    BY <1>1, <1>3, <2>8, <2>9
<1>4. PresentationFollowsDecode
  <2> SUFFICES ASSUME zero.ordered
               PROVE  /\ out.ts # None => out.ts.pts - out.ts.dts = shown - now
                      /\ out.rtp # None => out.rtp.pts - out.rtp.dts = shown - now
                      /\ out.player # None => out.player.pts - out.player.dts = shown - now
    BY DEF PresentationFollowsDecode
  <2>1. ASSUME out.ts # None PROVE out.ts.pts - out.ts.dts = shown - now
    <3>1. /\ zero.dts # None
          /\ Following(ts.dts, now, zero.dts) /\ Following(ts.pts, shown, zero.pts)
          /\ out.ts = [dts |-> now - zero.dts, pts |-> Ridden(now - zero.dts, ts.dts, ts.pts)]
      BY <1>0, <2>1 DEF Follows, TsFollows
    <3>2. now - zero.dts \in Int
      BY <1>1, <3>1 DEF Maybe
    <3> QED
      BY <1>3, <3>1, <3>2
  <2>2. ASSUME out.rtp # None PROVE out.rtp.pts - out.rtp.dts = shown - now
    <3>1. /\ zero.dts # None
          /\ Following(rtp.dts, now, zero.dts) /\ Following(rtp.pts, shown, zero.pts)
          /\ out.rtp = [dts |-> now - zero.dts, pts |-> Ridden(now - zero.dts, rtp.dts, rtp.pts)]
      BY <1>0, <2>2 DEF Follows, RtpFollows
    <3>2. now - zero.dts \in Int
      BY <1>1, <3>1 DEF Maybe
    <3> QED
      BY <1>3, <3>1, <3>2
  <2>3. ASSUME out.player # None PROVE out.player.pts - out.player.dts = shown - now
    <3>1. /\ zero.dts # None /\ zero.player \in Nat
          /\ Following(rtsp.dts, now, zero.dts) /\ Following(rtsp.pts, shown, zero.pts)
          /\ out.player = [dts |-> now - zero.player,
                           pts |-> Ridden(now - zero.player, rtsp.dts, rtsp.pts)]
      BY <1>0, <2>3 DEF Follows, RtspFollows
    <3>2. now - zero.player \in Int
      BY <1>1, <3>1
    <3> QED
      BY <1>3, <3>1, <3>2
  <2> QED
    BY <2>1, <2>2, <2>3
<1>5. AudioFollowsFeed
  BY <1>0 DEF Follows, TsAudioFollows, RtpAudioFollows, RtspAudioFollows, AudioFollowsFeed
<1> QED
  BY <1>2, <1>4, <1>5 DEF SinksFollowFeed

-----------------------------------------------------------------------------
(* A unit, sink by sink *)

\* The first unit of the session, after a unit that is decoded at d and presented at p.
ZeroDts(d) == IF zero.dts # None THEN zero.dts ELSE d
ZeroPts(p) == IF zero.dts # None THEN zero.pts ELSE p

(* The decode clock of a sink follows across a unit of video. *)
LEMMA DtsFollows ==
    ASSUME TypeInv, NEW step \in VideoSteps, NEW u,
           zero.dts = None => u = Fresh,
           zero.dts # None => Following(u, now, zero.dts)
    PROVE  Following(Unwrap(u, (now + step) % Wrap), now + step, ZeroDts(now + step))
<1> DEFINE d == now + step
<1>1. now \in Nat /\ d \in Nat /\ d - now = step
  BY ConstantFacts DEF TypeInv, FeedTypeOK
<1>2. -Wrap < 2 * step /\ 2 * step < Wrap
  BY SinkTimestampsAssumption
<1>3. -Wrap < 2 * (d - now) /\ 2 * (d - now) < Wrap
  BY <1>1, <1>2
<1> HIDE DEF d
<1>4. CASE zero.dts = None
  BY <1>1, <1>4, FollowingFirst DEF ZeroDts, d
<1>5. CASE zero.dts # None
  <2>1. zero.dts \in Nat
    BY <1>5 DEF TypeInv, PastTypeOK, Maybe
  <2> QED
    BY <1>1, <1>3, <1>5, <2>1, FollowingOn DEF ZeroDts, d
<1> QED
  BY <1>4, <1>5

(* The presentation clock too, though its steps vary with the reordering of the frames. *)
LEMMA PtsFollows ==
    ASSUME TypeInv, SessionFollows, NEW step \in VideoSteps, NEW delay \in Delays, NEW v,
           zero.dts = None => v = Fresh,
           zero.dts # None => Following(v, shown, zero.pts)
    PROVE  Following(Unwrap(v, (now + step + delay) % Wrap), now + step + delay,
                     ZeroPts(now + step + delay))
<1> DEFINE p == now + step + delay
<1>1. now \in Nat /\ shown \in Nat /\ p \in Nat
  BY ConstantFacts DEF TypeInv, FeedTypeOK
<1> HIDE DEF p
<1>2. CASE zero.dts = None
  BY <1>1, <1>2, FollowingFirst DEF ZeroPts, p
<1>3. CASE zero.dts # None
  <2>1. zero.pts \in Nat /\ shown - now \in Delays
    BY <1>3 DEF SessionFollows
  <2> DEFINE b == shown - now
  <2>2. b \in Delays /\ b \in Nat /\ step \in Nat /\ delay \in Nat
    BY <2>1, ConstantFacts
  <2>3. p - shown = step + delay - b
    BY <1>1, <2>2 DEF p
  <2> HIDE DEF b
  <2>4. -Wrap < 2 * (step + delay - b) /\ 2 * (step + delay - b) < Wrap
    BY <2>2, SinkTimestampsAssumption
  <2>5. -Wrap < 2 * (p - shown) /\ 2 * (p - shown) < Wrap
    BY <2>3, <2>4
  <2> QED
    BY <1>1, <1>3, <2>1, <2>5, FollowingOn DEF ZeroPts, p
<1> QED
  BY <1>2, <1>3

(* The base of a session is the time of its first unit as the sink saw it. *)
LEMMA BaseFollows ==
    ASSUME NEW u, NEW t \in Nat, NEW z \in Nat, Following(u, t, z), NEW base \in Nat \cup {-1},
           base = -1 => z = t, base # -1 => base = z % Wrap
    PROVE  Based(base, Absolute(u)) = z % Wrap
<1>1. z % Wrap \in 0 .. Wrap - 1
  BY Division
<1>2. Absolute(u) = (t - z) + (z % Wrap)
  BY DEF Following
<1> DEFINE r == z % Wrap
           abs == Absolute(u)
<1>3. r \in Nat /\ abs = (t - z) + r /\ (base # -1 => base = r)
  BY <1>1, <1>2, WrapFacts
<1> HIDE DEF r, abs
<1>4. Based(base, abs) = r
  BY <1>3 DEF Based
<1> QED
  BY <1>4 DEF r, abs

(* A clock less its base counts from the first unit of its session. *)
LEMMA RebasedFollows ==
    ASSUME NEW u, NEW t \in Nat, NEW z \in Nat, Following(u, t, z)
    PROVE  Absolute(u) - (z % Wrap) = t - z
<1> DEFINE r == z % Wrap
           abs == Absolute(u)
<1>1. r \in Nat
  BY Division, WrapFacts
<1>2. abs = (t - z) + r
  BY DEF Following
<1> HIDE DEF r, abs
<1>3. abs - r = t - z
  BY <1>1, <1>2
<1> QED
  BY <1>3 DEF r, abs

(* A unit of video in the transport stream sink: the guard lets its time through. *)
LEMMA TsVideoFollows ==
    ASSUME TypeInv, SessionFollows, TsFollows, "ts" \in open,
           NEW step \in VideoSteps, NEW delay \in Delays,
           NEW d, d = now + step, NEW p, p = d + delay,
           NEW c, c = [dts |-> d % Wrap, pts |-> p % Wrap]
    PROVE  /\ Following(TsVideo(c).sink.dts, d, ZeroDts(d))
           /\ Following(TsVideo(c).sink.pts, p, ZeroPts(p))
           /\ TsVideo(c).sink.base = ZeroDts(d) % Wrap
           /\ TsVideo(c).sink.lastVideo = d - ZeroDts(d)
           /\ TsVideo(c).unit =
                [dts |-> d - ZeroDts(d),
                 pts |-> Ridden(d - ZeroDts(d), TsVideo(c).sink.dts, TsVideo(c).sink.pts)]
<1> DEFINE u == Unwrap(ts.dts, c.dts)
           v == Unwrap(ts.pts, c.pts)
           base == Based(ts.base, Absolute(u))
           z == ZeroDts(d)
           dts == KeepMonotonic(Absolute(u) - base, ts.lastVideo, MinVideoStep)
<1>1. now \in Nat /\ d \in Nat /\ d > now /\ z \in Nat
  BY SinkTimestampsAssumption DEF TypeInv, FeedTypeOK, PastTypeOK, ZeroDts, Maybe
<1>2. Following(u, d, z)
  BY DtsFollows DEF TsFollows
<1>3. Following(v, p, ZeroPts(p))
  BY PtsFollows DEF TsFollows
<1>4. ts.base \in Nat \cup {-1}
  BY DEF TypeInv, TsSound
<1>5. (ts.base = -1 => z = d) /\ (ts.base # -1 => ts.base = z % Wrap)
  <2>1. CASE zero.dts = None
    BY <2>1 DEF TsFollows, ZeroDts
  <2>2. CASE zero.dts # None
    <3>1. z = zero.dts /\ ts.base = z % Wrap
      BY <2>2 DEF TsFollows, ZeroDts
    <3>2. z % Wrap \in 0 .. Wrap - 1
      BY <1>1, Division
    <3>3. ts.base # -1
      BY <3>1, <3>2, WrapFacts
    <3> QED
      BY <3>1, <3>3
  <2> QED
    BY <2>1, <2>2
<1>6. base = z % Wrap
  <2> HIDE DEF u, z
  <2> QED
    BY <1>1, <1>2, <1>4, <1>5, BaseFollows
<1>7. Absolute(u) - base = d - z
  <2> HIDE DEF u, z
  <2> QED
    BY <1>1, <1>2, <1>6, RebasedFollows
<1>8. dts = d - z
  <2>1. dts = KeepMonotonic(d - z, ts.lastVideo, MinVideoStep)
    BY <1>7
  <2>2. CASE zero.dts = None
    <3>1. ts.lastVideo = -1
      BY <2>2 DEF TsFollows
    <3> HIDE DEF z, dts
    <3> QED
      BY <2>1, <3>1 DEF KeepMonotonic
  <2>3. CASE zero.dts # None
    <3>1. ts.lastVideo = now - z
      BY <2>3 DEF TsFollows, ZeroDts
    <3> HIDE DEF z, dts
    <3> QED
      BY <1>1, <2>1, <3>1 DEF KeepMonotonic
  <2> QED
    BY <2>2, <2>3
<1>9. TsVideo(c) = [sink |-> [ts EXCEPT !.dts = u, !.pts = v, !.base = base, !.lastVideo = dts],
                    unit |-> [dts |-> dts, pts |-> Ridden(dts, u, v)]]
  BY DEF TsVideo
<1> HIDE DEF u, v, base, dts
<1>10. /\ TsVideo(c).sink = [ts EXCEPT !.dts = u, !.pts = v, !.base = base, !.lastVideo = dts]
       /\ TsVideo(c).unit = [dts |-> dts, pts |-> Ridden(dts, u, v)]
  BY <1>9
<1>11. /\ TsVideo(c).sink.dts = u /\ TsVideo(c).sink.pts = v
       /\ TsVideo(c).sink.base = base /\ TsVideo(c).sink.lastVideo = dts
  BY <1>10 DEF TypeInv, TsSound
<1> QED
  BY <1>2, <1>3, <1>6, <1>8, <1>10, <1>11

(* A unit of video in the RTP sink. *)
LEMMA RtpVideoFollows ==
    ASSUME TypeInv, SessionFollows, RtpFollows, "rtp" \in open,
           NEW step \in VideoSteps, NEW delay \in Delays,
           NEW d, d = now + step, NEW p, p = d + delay,
           NEW c, c = [dts |-> d % Wrap, pts |-> p % Wrap]
    PROVE  /\ Following(RtpVideo(c).sink.dts, d, ZeroDts(d))
           /\ Following(RtpVideo(c).sink.pts, p, ZeroPts(p))
           /\ RtpVideo(c).sink.base = ZeroDts(d) % Wrap
           /\ RtpVideo(c).unit =
                [dts |-> d - ZeroDts(d),
                 pts |-> Ridden(d - ZeroDts(d), RtpVideo(c).sink.dts, RtpVideo(c).sink.pts)]
<1> DEFINE u == Unwrap(rtp.dts, c.dts)
           v == Unwrap(rtp.pts, c.pts)
           base == Based(rtp.base, Absolute(u))
           z == ZeroDts(d)
           dts == Absolute(u) - base
<1>1. now \in Nat /\ d \in Nat /\ z \in Nat
  BY SinkTimestampsAssumption DEF TypeInv, FeedTypeOK, PastTypeOK, ZeroDts, Maybe
<1>2. Following(u, d, z)
  BY DtsFollows DEF RtpFollows
<1>3. Following(v, p, ZeroPts(p))
  BY PtsFollows DEF RtpFollows
<1>4. rtp.base \in Nat \cup {-1}
  BY DEF TypeInv, RtpSound
<1>5. (rtp.base = -1 => z = d) /\ (rtp.base # -1 => rtp.base = z % Wrap)
  <2>1. CASE zero.dts = None
    BY <2>1 DEF RtpFollows, ZeroDts
  <2>2. CASE zero.dts # None
    <3>1. z = zero.dts /\ rtp.base = z % Wrap
      BY <2>2 DEF RtpFollows, ZeroDts
    <3>2. z % Wrap \in 0 .. Wrap - 1
      BY <1>1, Division
    <3>3. rtp.base # -1
      BY <3>1, <3>2, WrapFacts
    <3> QED
      BY <3>1, <3>3
  <2> QED
    BY <2>1, <2>2
<1>6. base = z % Wrap
  <2> HIDE DEF u, z
  <2> QED
    BY <1>1, <1>2, <1>4, <1>5, BaseFollows
<1>7. dts = d - z
  <2> HIDE DEF u, z
  <2> QED
    BY <1>1, <1>2, <1>6, RebasedFollows
<1>8. RtpVideo(c) = [sink |-> [rtp EXCEPT !.dts = u, !.pts = v, !.base = base],
                     unit |-> [dts |-> dts, pts |-> Ridden(dts, u, v)]]
  BY DEF RtpVideo
<1> HIDE DEF u, v, base, dts
<1>9. /\ RtpVideo(c).sink = [rtp EXCEPT !.dts = u, !.pts = v, !.base = base]
      /\ RtpVideo(c).unit = [dts |-> dts, pts |-> Ridden(dts, u, v)]
  BY <1>8
<1>10. RtpVideo(c).sink.dts = u /\ RtpVideo(c).sink.pts = v /\ RtpVideo(c).sink.base = base
  BY <1>9 DEF TypeInv, RtpSound
<1> QED
  BY <1>2, <1>3, <1>6, <1>7, <1>9, <1>10

(* A unit of video in the NDI sink. *)
LEMMA NdiVideoFollows ==
    ASSUME TypeInv, SessionFollows, NdiFollows, "ndi" \in open,
           NEW step \in VideoSteps, NEW delay \in Delays,
           NEW d, d = now + step, NEW p, p = d + delay,
           NEW c, c = [dts |-> d % Wrap, pts |-> p % Wrap]
    PROVE  /\ Following(NdiVideo(c).sink.pts, p, ZeroPts(p))
           /\ NdiVideo(c).sink.base = ZeroPts(p) % Wrap
           /\ NdiVideo(c).unit = p - ZeroPts(p)
<1> DEFINE v == Unwrap(ndi.pts, c.pts)
           base == Based(ndi.base, Absolute(v))
           z == ZeroPts(p)
<1>1. p \in Nat
  BY ConstantFacts DEF TypeInv, FeedTypeOK
<1>2. z \in Nat
  BY <1>1 DEF SessionFollows, ZeroPts
<1>3. Following(v, p, z)
  BY PtsFollows DEF NdiFollows
<1>4. ndi.base \in Nat \cup {-1}
  BY DEF TypeInv, NdiSound
<1>5. (ndi.base = -1 => z = p) /\ (ndi.base # -1 => ndi.base = z % Wrap)
  <2>1. CASE zero.dts = None
    BY <2>1 DEF NdiFollows, ZeroPts
  <2>2. CASE zero.dts # None
    <3>1. z = zero.pts /\ ndi.base = z % Wrap
      BY <2>2 DEF NdiFollows, ZeroPts
    <3>2. z % Wrap \in 0 .. Wrap - 1
      BY <1>2, Division
    <3>3. ndi.base # -1
      BY <3>1, <3>2, WrapFacts
    <3> QED
      BY <3>1, <3>3
  <2> QED
    BY <2>1, <2>2
<1>6. base = z % Wrap
  <2> HIDE DEF v, z
  <2> QED
    BY <1>1, <1>2, <1>3, <1>4, <1>5, BaseFollows
<1>7. Absolute(v) - base = p - z
  <2> HIDE DEF v, z
  <2> QED
    BY <1>1, <1>2, <1>3, <1>6, RebasedFollows
<1>8. NdiVideo(c) = [sink |-> [pts |-> v, base |-> base], unit |-> Absolute(v) - base]
  BY DEF NdiVideo
<1> HIDE DEF v, base
<1> QED
  BY <1>3, <1>6, <1>7, <1>8


ZeroPlayer(d, key) == IF Begins(key) THEN d ELSE zero.player

(* A unit of video in the RTSP sink: a player that begins with it, one that is served, one
   that waits, and none. *)
LEMMA RtspVideoFollows ==
    ASSUME TypeInv, SessionFollows, RtspFollows, "rtsp" \in open,
           NEW step \in VideoSteps, NEW delay \in Delays, NEW key \in BOOLEAN,
           NEW d, d = now + step, NEW p, p = d + delay,
           NEW c, c = [dts |-> d % Wrap, pts |-> p % Wrap],
           NEW sink, sink = RtspVideo(c, key).sink
    PROVE  /\ Following(sink.dts, d, ZeroDts(d))
           /\ Following(sink.pts, p, ZeroPts(p))
           /\ sink.audio = rtsp.audio
           /\ rtsp.player = "started" =>
                  sink.player = "started" /\ sink.base = rtsp.base
           /\ sink.player # "started" => RtspVideo(c, key).unit = None
           /\ sink.player = "started" =>
                  /\ ZeroPlayer(d, key) \in Nat
                  /\ sink.base = (d - ZeroDts(d)) + (ZeroDts(d) % Wrap)
                                    - (d - ZeroPlayer(d, key))
                  /\ RtspVideo(c, key).unit =
                        [dts |-> d - ZeroPlayer(d, key),
                         pts |-> Ridden(d - ZeroPlayer(d, key), sink.dts, sink.pts)]
<1> DEFINE u == Unwrap(rtsp.dts, c.dts)
           v == Unwrap(rtsp.pts, c.pts)
           abs == Absolute(u)
           base == IF Begins(key) THEN abs ELSE rtsp.base
           dts == abs - base
           serves == Begins(key) \/ rtsp.player = "started"
           player == IF serves THEN "started" ELSE rtsp.player
           unit == IF serves THEN [dts |-> dts, pts |-> Ridden(dts, u, v)] ELSE None
           z == ZeroDts(d)
           r == z % Wrap
           zp == ZeroPlayer(d, key)
<1>1. now \in Nat /\ d \in Nat /\ z \in Nat
  BY SinkTimestampsAssumption DEF TypeInv, FeedTypeOK, PastTypeOK, ZeroDts, Maybe
<1>2. Following(u, d, z)
  BY DtsFollows DEF RtspFollows
<1>3. Following(v, p, ZeroPts(p))
  BY PtsFollows DEF RtspFollows
<1>4. r \in Nat /\ abs = (d - z) + r
  BY <1>1, <1>2, Division, WrapFacts DEF Following
<1>5. RtspVideo(c, key) =
        [sink |-> [rtsp EXCEPT !.dts = u, !.pts = v, !.base = base, !.player = player],
         unit |-> unit]
  BY DEF RtspVideo
<1>6. /\ sink.dts = u /\ sink.pts = v /\ sink.base = base /\ sink.player = player
      /\ sink.audio = rtsp.audio /\ RtspVideo(c, key).unit = unit
  <2> HIDE DEF u, v, base, player, unit
  <2>1. sink = [rtsp EXCEPT !.dts = u, !.pts = v, !.base = base, !.player = player]
    BY <1>5
  <2>2. rtsp \in [dts : Unwrapper, pts : Unwrapper, audio : Unwrapper,
                  player : {None, "waiting", "started"}, base : Int]
    BY DEF TypeInv, RtspSound
  <2>3. /\ sink.dts = u /\ sink.pts = v /\ sink.base = base /\ sink.player = player
        /\ sink.audio = rtsp.audio
    BY <2>1, <2>2
  <2> QED
    BY <1>5, <2>3
<1>7. rtsp.player = "started" => player = "started" /\ base = rtsp.base
  BY DEF Begins
<1>8. player # "started" => unit = None
  OBVIOUS
<1>9. player = "started" => serves
  OBVIOUS
<1>10. ASSUME serves PROVE zp \in Nat /\ base = (d - z) + r - (d - zp) /\ dts = d - zp
  <2>1. CASE Begins(key)
    <3>1. zp = d /\ base = abs
      BY <2>1 DEF ZeroPlayer
    <3> HIDE DEF z, r, zp, abs, base
    <3> QED
      BY <1>1, <1>4, <3>1
  <2>2. CASE ~Begins(key)
    <3>1. rtsp.player = "started" /\ base = rtsp.base /\ zp = zero.player
      BY <1>10, <2>2 DEF ZeroPlayer
    <3>2. /\ zero.player \in Nat
          /\ rtsp.base = (zero.player - zero.dts) + (zero.dts % Wrap)
          /\ zero.dts # None
      BY <3>1 DEF RtspFollows
    <3>3. z = zero.dts /\ r = zero.dts % Wrap
      BY <3>2 DEF ZeroDts
    <3>4. base = (zp - z) + r /\ zp \in Nat
      BY <3>1, <3>2, <3>3
    <3> HIDE DEF z, r, zp, abs, base
    <3> QED
      BY <1>1, <1>4, <3>4
  <2> QED
    BY <2>1, <2>2
<1>11. ASSUME serves PROVE unit = [dts |-> d - zp, pts |-> Ridden(d - zp, u, v)]
  <2> HIDE DEF u, v, dts, zp
  <2> QED
    BY <1>10, <1>11
<1> HIDE DEF u, v, base, player, unit, serves, dts, z, zp, r, abs
<1>12. /\ Following(sink.dts, d, z) /\ Following(sink.pts, p, ZeroPts(p))
       /\ sink.audio = rtsp.audio
       /\ rtsp.player = "started" => sink.player = "started" /\ sink.base = rtsp.base
       /\ sink.player # "started" => RtspVideo(c, key).unit = None
  BY <1>2, <1>3, <1>6, <1>7, <1>8
<1>13. sink.player = "started" =>
          /\ zp \in Nat
          /\ sink.base = (d - z) + r - (d - zp)
          /\ RtspVideo(c, key).unit =
                [dts |-> d - zp, pts |-> Ridden(d - zp, sink.dts, sink.pts)]
  BY <1>6, <1>9, <1>10, <1>11
<1> QED
  BY <1>12, <1>13 DEF z, zp, r

(* Video leaves the audio of the transport stream alone, and a base that is taken. *)
LEMMA TsVideoKeeps ==
    ASSUME TypeInv, NEW c \in Clocks
    PROVE  /\ TsVideo(c).sink.audio = ts.audio
           /\ TsVideo(c).sink.lastAudio = ts.lastAudio
           /\ ts.base >= 0 => TsVideo(c).sink.base = ts.base
<1> DEFINE u == Unwrap(ts.dts, c.dts)
           v == Unwrap(ts.pts, c.pts)
           base == Based(ts.base, Absolute(u))
           dts == KeepMonotonic(Absolute(u) - base, ts.lastVideo, MinVideoStep)
<1>1. TsVideo(c) = [sink |-> [ts EXCEPT !.dts = u, !.pts = v, !.base = base, !.lastVideo = dts],
                    unit |-> [dts |-> dts, pts |-> Ridden(dts, u, v)]]
  BY DEF TsVideo
<1>2. ts.base >= 0 => base = ts.base
  <2> HIDE DEF u
  <2> QED
    BY DEF Based, TypeInv, TsSound
<1> HIDE DEF u, v, base, dts
<1>3. TsVideo(c).sink = [ts EXCEPT !.dts = u, !.pts = v, !.base = base, !.lastVideo = dts]
  BY <1>1
<1> QED
  BY <1>2, <1>3 DEF TypeInv, TsSound

(* Video leaves the audio of the RTP sink alone. *)
LEMMA RtpVideoKeeps ==
    ASSUME TypeInv, NEW c \in Clocks
    PROVE  RtpVideo(c).sink.audio = rtp.audio /\ RtpVideo(c).sink.audioBase = rtp.audioBase
<1> DEFINE u == Unwrap(rtp.dts, c.dts)
           v == Unwrap(rtp.pts, c.pts)
           base == Based(rtp.base, Absolute(u))
           dts == Absolute(u) - base
<1>1. RtpVideo(c) = [sink |-> [rtp EXCEPT !.dts = u, !.pts = v, !.base = base],
                     unit |-> [dts |-> dts, pts |-> Ridden(dts, u, v)]]
  BY DEF RtpVideo
<1> HIDE DEF u, v, base, dts
<1>2. RtpVideo(c).sink = [rtp EXCEPT !.dts = u, !.pts = v, !.base = base]
  BY <1>1
<1> QED
  BY <1>2 DEF TypeInv, RtpSound

(* The audio clock of a sink follows across a unit of audio. *)
LEMMA AudioFollows ==
    ASSUME TypeInv, NEW step \in AudioSteps, NEW u \in Unwrapper, NEW raw,
           raw = (heard + step + shift) % Wrap,
           u.last = (heard + shift) % Wrap
    PROVE  Absolute(Unwrap(u, raw)) = Absolute(u) + step
<1> DEFINE x == heard + shift
           y == heard + step + shift
<1>1. x \in Nat /\ y \in Nat /\ y - x = step
  BY ConstantFacts DEF TypeInv, FeedTypeOK
<1>2. -Wrap < 2 * step /\ 2 * step < Wrap
  BY SinkTimestampsAssumption
<1>3. -Wrap < 2 * (y - x) /\ 2 * (y - x) < Wrap
  BY <1>1, <1>2
<1>4. u.last = x % Wrap /\ raw = y % Wrap
  OBVIOUS
<1> HIDE DEF x, y
<1> QED
  BY <1>1, <1>3, <1>4, UnwrapFollows

(* A step of the audio clock, rescaled. *)
LEMMA ScaledStep ==
    ASSUME NEW a \in Int, NEW step \in Int
    PROVE  (a + step) * Ratio = a * Ratio + Ratio * step
  BY ConstantFacts

(* A unit of audio in the transport stream sink, the first of its session or a later one. *)
LEMMA TsAudioStep ==
    ASSUME TypeInv, TsAudioFollows, TsTakesAudio, NEW step \in AudioSteps,
           NEW a, a = heard + step, NEW raw, raw = (a + shift) % Wrap,
           NEW lag, lag = Lag(zero.tsLag, TsAudio(raw).unit, Ratio * a)
    PROVE  /\ lag # None
           /\ TsAudio(raw).sink.base = ts.base
           /\ TsAudio(raw).sink.audio.last = raw
           /\ Absolute(TsAudio(raw).sink.audio) * Ratio - ts.base = Ratio * a - lag
           /\ TsAudio(raw).sink.lastAudio = Ratio * a - lag
           /\ TsAudio(raw).unit = Ratio * a - lag
<1> DEFINE u == Unwrap(ts.audio, raw)
           abs == Absolute(u)
           scaled == abs * Ratio
           ra == Ratio * a
           time == KeepMonotonic(scaled - ts.base, ts.lastAudio, MinAudioStep)
<1>1. heard \in Nat /\ step \in Nat /\ step > 0 /\ a \in Nat /\ a + shift \in Nat
  BY SinkTimestampsAssumption DEF TypeInv, FeedTypeOK
<1>2. raw \in 0 .. Wrap - 1
  BY <1>1, Division
<1>3. ts.base \in Int /\ ts.lastAudio \in Int /\ ts.audio \in Unwrapper
  BY DEF TypeInv, TsSound
<1>4. u \in Unwrapper /\ u.last = raw /\ abs \in Int
  BY <1>2, <1>3, UnwrapType
<1>5. ra \in Int /\ scaled \in Int
  <2> HIDE DEF abs
  <2> QED
    BY <1>1, <1>4, ConstantFacts
<1>6. TsAudio(raw) = [sink |-> [ts EXCEPT !.audio = u, !.lastAudio = time], unit |-> time]
  BY DEF TsAudio
<1>7. /\ TsAudio(raw).unit = time
      /\ TsAudio(raw).sink.audio = u /\ TsAudio(raw).sink.lastAudio = time
      /\ TsAudio(raw).sink.base = ts.base
  <2> HIDE DEF u, time
  <2>1. TsAudio(raw).sink = [ts EXCEPT !.audio = u, !.lastAudio = time]
    BY <1>6
  <2>2. ts \in [dts : Unwrapper, pts : Unwrapper, audio : Unwrapper, base : Nat \cup {-1},
                lastVideo : Nat \cup {-1}, lastAudio : Int]
    BY DEF TypeInv, TsSound
  <2>3. /\ TsAudio(raw).sink.audio = u /\ TsAudio(raw).sink.lastAudio = time
        /\ TsAudio(raw).sink.base = ts.base
    BY <2>1, <2>2
  <2> QED
    BY <1>6, <2>3
<1>8. time = scaled - ts.base /\ lag = ra - time
  <2>1. CASE zero.tsLag = None
    <3>1. ts.lastAudio = -1
      BY <2>1 DEF TsAudioFollows
    <3>2. time = scaled - ts.base
      <4> HIDE DEF scaled
      <4> QED
        BY <1>5, <3>1 DEF KeepMonotonic
    <3>3. time \in Int /\ time # None
      <4> HIDE DEF scaled, time
      <4> QED
        BY <1>3, <1>5, <3>2, ConstantFacts
    <3> QED
      BY <1>7, <2>1, <3>2, <3>3 DEF Lag
  <2>2. CASE zero.tsLag # None
    <3> DEFINE before == Absolute(ts.audio) * Ratio
               rh == Ratio * heard
               rs == Ratio * step
    <3>1. /\ ts.audio.last = (heard + shift) % Wrap
          /\ before - ts.base = rh - zero.tsLag
          /\ ts.lastAudio = rh - zero.tsLag
      BY <2>2 DEF TsAudioFollows
    <3>2. abs = Absolute(ts.audio) + step
      <4>1. raw = (heard + step + shift) % Wrap
        OBVIOUS
      <4> QED
        BY <4>1, <1>3, <3>1, AudioFollows
    <3>3. Absolute(ts.audio) \in Int
      BY <1>3, AbsoluteType
    <3>4. scaled = before + rs
      <4> DEFINE old == Absolute(ts.audio)
      <4>1. abs = old + step /\ old \in Int /\ step \in Int
        BY <1>1, <3>2, <3>3
      <4> HIDE DEF old, abs
      <4>2. (old + step) * Ratio = old * Ratio + Ratio * step
        BY <4>1, ScaledStep
      <4> QED
        BY <4>1, <4>2 DEF old
    <3>5. ra = rh + rs
      BY <1>1, ConstantFacts
    <3>6. rs \in Int /\ rs > 0 /\ rh \in Int /\ before \in Int
      <4>1. rs > 0 /\ rs \in Int /\ rh \in Int
        BY <1>1, ConstantFacts
      <4>2. before \in Int
        BY <3>3, ConstantFacts
      <4> QED
        BY <4>1, <4>2
    <3>7. zero.tsLag \in Int /\ lag = zero.tsLag
      BY <2>2 DEF TypeInv, PastTypeOK, Maybe, Lag
    <3> HIDE DEF scaled, ra, before, rh, rs, time
    <3>8. scaled - ts.base = ra - lag /\ scaled - ts.base > ts.lastAudio
      BY <1>3, <3>1, <3>4, <3>5, <3>6, <3>7
    <3>9. time = scaled - ts.base
      BY <1>3, <1>5, <3>8 DEF KeepMonotonic, time
    <3> QED
      BY <1>3, <1>5, <3>7, <3>8, <3>9
  <2> QED
    BY <2>1, <2>2
<1> HIDE DEF u, abs, scaled, ra, time
<1>9. time \in Int /\ lag \in Int /\ lag # None /\ time = ra - lag
  BY <1>3, <1>5, <1>8, ConstantFacts
<1> QED
  BY <1>4, <1>7, <1>8, <1>9 DEF scaled, abs, ra


(* A unit of audio in the RTP sink, which rebases it by itself. *)
LEMMA RtpAudioStep ==
    ASSUME TypeInv, RtpAudioFollows, NEW step \in AudioSteps,
           NEW a, a = heard + step, NEW raw, raw = (a + shift) % Wrap,
           NEW lag, lag = Lag(zero.rtpLag, RtpAudio(raw).unit, a)
    PROVE  /\ lag # None
           /\ RtpAudio(raw).sink.audioBase >= 0
           /\ RtpAudio(raw).sink.audio.last = raw
           /\ Absolute(RtpAudio(raw).sink.audio) - RtpAudio(raw).sink.audioBase = a - lag
           /\ RtpAudio(raw).unit = a - lag
<1> DEFINE u == Unwrap(rtp.audio, raw)
           abs == Absolute(u)
           base == RtpAudioBase(u)
<1>1. heard \in Nat /\ step \in Nat /\ a \in Nat /\ a + shift \in Nat
  BY ConstantFacts DEF TypeInv, FeedTypeOK
<1>2. raw \in 0 .. Wrap - 1
  BY <1>1, Division
<1>3. /\ rtp \in [dts : Unwrapper, pts : Unwrapper, base : Nat \cup {-1}, audio : Unwrapper,
                  audioBase : Nat \cup {-1}]
      /\ rtp.audioBase \in Nat \cup {-1} /\ rtp.audio \in Unwrapper
  BY DEF TypeInv, RtpSound
<1>4. u \in Unwrapper /\ u.last = raw /\ abs \in Int
  BY <1>2, <1>3, UnwrapType
<1>5. base = Based(rtp.audioBase, abs)
  BY DEF RtpAudioBase
<1>6. RtpAudio(raw) = [sink |-> [rtp EXCEPT !.audio = u, !.audioBase = base],
                       unit |-> abs - base]
  BY DEF RtpAudio
<1>7. /\ RtpAudio(raw).unit = abs - base
      /\ RtpAudio(raw).sink.audio = u /\ RtpAudio(raw).sink.audioBase = base
  <2> HIDE DEF u, abs, base
  <2>1. RtpAudio(raw).sink = [rtp EXCEPT !.audio = u, !.audioBase = base]
    BY <1>6
  <2>2. RtpAudio(raw).sink.audio = u /\ RtpAudio(raw).sink.audioBase = base
    BY <1>3, <2>1
  <2> QED
    BY <1>6, <2>2
<1>8. base \in Nat /\ lag \in Int /\ abs - base = a - lag
  <2>1. CASE zero.rtpLag = None
    <3>1. rtp.audio = Fresh /\ rtp.audioBase = -1
      BY <2>1 DEF RtpAudioFollows
    <3>2. abs = raw
      BY <1>2, <3>1, UnwrapFirst
    <3> HIDE DEF abs, base
    <3>3. base = abs /\ base \in Nat
      BY <1>2, <1>5, <3>1, <3>2, WrapFacts DEF Based
    <3>4. abs - base \in Int /\ abs - base # None
      BY <1>4, <3>3, ConstantFacts
    <3>5. lag = a - (abs - base)
      BY <1>7, <2>1, <3>4 DEF Lag
    <3> QED
      BY <1>1, <1>4, <3>3, <3>5
  <2>2. CASE zero.rtpLag # None
    <3>1. /\ rtp.audioBase >= 0
          /\ rtp.audio.last = (heard + shift) % Wrap
          /\ Absolute(rtp.audio) - rtp.audioBase = heard - zero.rtpLag
      BY <2>2 DEF RtpAudioFollows
    <3>2. abs = Absolute(rtp.audio) + step
      <4>1. raw = (heard + step + shift) % Wrap
        OBVIOUS
      <4> QED
        BY <4>1, <1>3, <3>1, AudioFollows
    <3>3. zero.rtpLag \in Int /\ lag = zero.rtpLag
      BY <2>2 DEF TypeInv, PastTypeOK, Maybe, Lag
    <3>4. Absolute(rtp.audio) \in Int
      BY <1>3, AbsoluteType
    <3> HIDE DEF abs, base
    <3>5. base = rtp.audioBase
      BY <1>3, <1>5, <3>1 DEF Based
    <3> QED
      BY <1>1, <1>3, <3>1, <3>2, <3>3, <3>4, <3>5
  <2> QED
    BY <2>1, <2>2
<1> HIDE DEF u, abs, base
<1> QED
  BY <1>4, <1>7, <1>8, ConstantFacts DEF abs

(* A unit of audio in the RTSP sink, of which a player that has begun gets its share. *)
LEMMA RtspAudioStep ==
    ASSUME TypeInv, RtspAudioFollows, NEW step \in AudioSteps,
           NEW a, a = heard + step, NEW raw, raw = (a + shift) % Wrap,
           NEW lag, lag = Lag(zero.playerLag, RtspAudio(raw).unit, Ratio * a)
    PROVE  /\ RtspAudio(raw).sink.dts = rtsp.dts /\ RtspAudio(raw).sink.pts = rtsp.pts
           /\ RtspAudio(raw).sink.base = rtsp.base /\ RtspAudio(raw).sink.player = rtsp.player
           /\ RtspAudio(raw).sink.audio.last = raw
           /\ rtsp.player # "started" => lag = None /\ RtspAudio(raw).unit = None
           /\ rtsp.player = "started" =>
                 /\ lag # None
                 /\ Absolute(RtspAudio(raw).sink.audio) * Ratio - rtsp.base = Ratio * a - lag
                 /\ RtspAudio(raw).unit = Ratio * a - lag
<1> DEFINE u == Unwrap(rtsp.audio, raw)
           abs == Absolute(u)
           scaled == abs * Ratio
           ra == Ratio * a
           unit == IF rtsp.player = "started" THEN scaled - rtsp.base ELSE None
<1>1. heard \in Nat /\ step \in Nat /\ a \in Nat /\ a + shift \in Nat
  BY ConstantFacts DEF TypeInv, FeedTypeOK
<1>2. raw \in 0 .. Wrap - 1
  BY <1>1, Division
<1>3. /\ rtsp \in [dts : Unwrapper, pts : Unwrapper, audio : Unwrapper,
                   player : {None, "waiting", "started"}, base : Int]
      /\ rtsp.base \in Int /\ rtsp.audio \in Unwrapper
  BY DEF TypeInv, RtspSound
<1>4. u \in Unwrapper /\ u.last = raw /\ abs \in Int
  BY <1>2, <1>3, UnwrapType
<1>5. ra \in Int /\ scaled \in Int
  <2> HIDE DEF abs
  <2> QED
    BY <1>1, <1>4, ConstantFacts
<1>6. RtspAudio(raw) = [sink |-> [rtsp EXCEPT !.audio = u], unit |-> unit]
  BY DEF RtspAudio
<1>7. /\ RtspAudio(raw).unit = unit
      /\ RtspAudio(raw).sink.audio = u
      /\ RtspAudio(raw).sink.dts = rtsp.dts /\ RtspAudio(raw).sink.pts = rtsp.pts
      /\ RtspAudio(raw).sink.base = rtsp.base /\ RtspAudio(raw).sink.player = rtsp.player
  <2> HIDE DEF u, unit
  <2>1. RtspAudio(raw).sink = [rtsp EXCEPT !.audio = u]
    BY <1>6
  <2>2. /\ RtspAudio(raw).sink.audio = u
        /\ RtspAudio(raw).sink.dts = rtsp.dts /\ RtspAudio(raw).sink.pts = rtsp.pts
        /\ RtspAudio(raw).sink.base = rtsp.base /\ RtspAudio(raw).sink.player = rtsp.player
    BY <1>3, <2>1
  <2> QED
    BY <1>6, <2>2
<1>8. ASSUME rtsp.player # "started" PROVE unit = None /\ lag = None
  <2>1. unit = None /\ zero.playerLag = None
    BY <1>8 DEF RtspAudioFollows
  <2> HIDE DEF unit
  <2> QED
    BY <1>7, <2>1 DEF Lag
<1>9. ASSUME rtsp.player = "started"
      PROVE  unit = scaled - rtsp.base /\ lag \in Int /\ unit = ra - lag
  <2>1. unit = scaled - rtsp.base
    BY <1>9
  <2> HIDE DEF unit
  <2>2. CASE zero.playerLag = None
    <3> HIDE DEF scaled, ra
    <3>1. unit \in Int /\ unit # None
      BY <1>3, <1>5, <2>1, ConstantFacts
    <3>2. lag = ra - unit
      BY <1>7, <2>2, <3>1 DEF Lag, ra
    <3> QED
      BY <1>5, <2>1, <3>1, <3>2
  <2>3. CASE zero.playerLag # None
    <3> DEFINE before == Absolute(rtsp.audio) * Ratio
               rh == Ratio * heard
               rs == Ratio * step
    <3>1. rtsp.audio.last = (heard + shift) % Wrap /\ before - rtsp.base = rh - zero.playerLag
      BY <2>3 DEF RtspAudioFollows
    <3>2. abs = Absolute(rtsp.audio) + step
      <4>1. raw = (heard + step + shift) % Wrap
        OBVIOUS
      <4> QED
        BY <4>1, <1>3, <3>1, AudioFollows
    <3>3. Absolute(rtsp.audio) \in Int
      BY <1>3, AbsoluteType
    <3>4. scaled = before + rs
      <4> DEFINE old == Absolute(rtsp.audio)
      <4>1. abs = old + step /\ old \in Int /\ step \in Int
        BY <1>1, <3>2, <3>3
      <4> HIDE DEF old, abs
      <4>2. (old + step) * Ratio = old * Ratio + Ratio * step
        BY <4>1, ScaledStep
      <4> QED
        BY <4>1, <4>2 DEF old
    <3>5. ra = rh + rs
      BY <1>1, ConstantFacts
    <3>6. rs \in Int /\ rh \in Int /\ before \in Int
      <4>1. rs \in Int /\ rh \in Int
        BY <1>1, ConstantFacts
      <4>2. before \in Int
        BY <3>3, ConstantFacts
      <4> QED
        BY <4>1, <4>2
    <3>7. zero.playerLag \in Int /\ lag = zero.playerLag
      BY <2>3 DEF TypeInv, PastTypeOK, Maybe, Lag
    <3> HIDE DEF scaled, ra, before, rh, rs
    <3> QED
      BY <1>3, <2>1, <3>1, <3>4, <3>5, <3>6, <3>7
  <2> QED
    BY <2>1, <2>2, <2>3
<1> HIDE DEF u, abs, scaled, ra, unit
<1>10. rtsp.player = "started" =>
         /\ lag # None
         /\ scaled - rtsp.base = ra - lag
         /\ RtspAudio(raw).unit = ra - lag
  BY <1>7, <1>9, ConstantFacts
<1> QED
  BY <1>4, <1>7, <1>8, <1>10 DEF scaled, abs, ra

-----------------------------------------------------------------------------
(* A unit, in all of the sinks *)

(* A unit of video, in each of the sinks that are open. *)
LEMMA WriteVideoFollows ==
    ASSUME TypeInv, FollowInv, NEW step \in VideoSteps, NEW delay \in Delays,
           NEW stamps \in Stamps, NEW key \in BOOLEAN, WriteVideo(step, delay, stamps, key)
    PROVE  FollowInv'
<1> DEFINE d == now + step
           p == d + delay
           c == VideoClocks(stamps, d, p)
<1>1. d \in Nat /\ p \in Nat /\ p - d = delay
  BY ConstantFacts DEF TypeInv, FeedTypeOK
<1>2. c \in Clocks
  BY <1>1, VideoClocksType DEF TypeInv
<1>3. now' = d /\ shown' = p /\ UNCHANGED <<heard, shift, open>>
  BY DEF WriteVideo
<1>4. /\ ts' = IF "ts" \in open THEN TsVideo(c).sink ELSE ts
      /\ rtp' = IF "rtp" \in open THEN RtpVideo(c).sink ELSE rtp
      /\ rtsp' = IF "rtsp" \in open THEN RtspVideo(c, key).sink ELSE rtsp
      /\ ndi' = IF "ndi" \in open THEN NdiVideo(c).sink ELSE ndi
  BY DEF WriteVideo
<1>5. out' = [out EXCEPT !.ts = IF "ts" \in open THEN TsVideo(c).unit ELSE @,
                         !.rtp = IF "rtp" \in open THEN RtpVideo(c).unit ELSE @,
                         !.player = IF "rtsp" \in open THEN RtspVideo(c, key).unit ELSE @,
                         !.ndi = IF "ndi" \in open THEN NdiVideo(c).unit ELSE @]
  BY DEF WriteVideo
<1>6. /\ intact' = (open # {} => intact /\ c = VideoClocks("both", d, p))
      /\ zero' = IF open = {} THEN zero
                 ELSE [zero EXCEPT !.dts = IF zero.dts # None THEN @ ELSE d,
                                   !.pts = IF zero.dts # None THEN @ ELSE p,
                                   !.ordered = IF zero.dts # None THEN @ ELSE c.dts <= c.pts,
                                   !.player = IF "rtsp" \in open /\ Begins(key) THEN d ELSE @]
  BY DEF WriteVideo
<1> HIDE DEF c
<1>7. CASE open = {}
  <2>1. AllClosed
    BY <1>7 DEF FollowInv
  <2>2. ts' = ts /\ rtp' = rtp /\ rtsp' = rtsp /\ ndi' = ndi /\ zero' = zero /\ intact' = TRUE
    BY <1>4, <1>6, <1>7
  <2>3. out' = out
    BY <1>5, <1>7, <2>1 DEF AllClosed, NoOut
  <2>4. AllClosed'
    BY <2>1, <2>2, <2>3 DEF AllClosed
  <2> QED
    BY <2>4, AllClosedFollowsNext
<1>8. CASE open # {} /\ ~intact'
  BY <1>3, <1>8 DEF FollowInv
<1>9. ASSUME open # {}, intact' PROVE Follows'
  <2>1. intact /\ Follows /\ c = [dts |-> d % Wrap, pts |-> p % Wrap]
    BY <1>6, <1>9 DEF FollowInv, VideoClocks
  <2>2. out' = [ts |-> IF "ts" \in open THEN TsVideo(c).unit ELSE out.ts,
                tsAudio |-> out.tsAudio,
                rtp |-> IF "rtp" \in open THEN RtpVideo(c).unit ELSE out.rtp,
                rtpAudio |-> out.rtpAudio,
                player |-> IF "rtsp" \in open THEN RtspVideo(c, key).unit ELSE out.player,
                playerAudio |-> out.playerAudio,
                ndi |-> IF "ndi" \in open THEN NdiVideo(c).unit ELSE out.ndi]
    BY <1>5 DEF TypeInv, OutTypeOK
  <2>3. /\ zero'.dts = ZeroDts(d) /\ zero'.pts = ZeroPts(p)
        /\ zero'.ordered = (IF zero.dts # None THEN zero.ordered ELSE c.dts <= c.pts)
        /\ zero'.player = IF "rtsp" \in open THEN ZeroPlayer(d, key) ELSE zero.player
        /\ zero'.tsLag = zero.tsLag /\ zero'.rtpLag = zero.rtpLag
        /\ zero'.playerLag = zero.playerLag
    BY <1>6, <1>9 DEF TypeInv, PastTypeOK, ZeroDts, ZeroPts, ZeroPlayer
  <2>4. zero'.dts # None
    BY <1>1, <2>3, ConstantFacts DEF ZeroDts
  <2>5. SessionFollows'
    <3>1. shown' - now' \in Delays
      BY <1>1, <1>3
    <3>2. CASE zero.dts = None
      <4>1. zero'.dts = d /\ zero'.pts = p /\ (zero'.ordered <=> c.dts <= c.pts)
        BY <2>3, <3>2 DEF ZeroDts, ZeroPts
      <4>2. c.dts = d % Wrap /\ c.pts = p % Wrap
        BY <2>1
      <4> HIDE DEF d, p
      <4> QED
        BY <1>1, <3>1, <4>1, <4>2 DEF SessionFollows
    <3>3. CASE zero.dts # None
      <4>1. zero'.dts = zero.dts /\ zero'.pts = zero.pts /\ zero'.ordered = zero.ordered
        BY <2>3, <3>3 DEF ZeroDts, ZeroPts
      <4> QED
        BY <2>1, <3>1, <3>3, <4>1 DEF SessionFollows, Follows
    <3> QED
      BY <3>2, <3>3
  <2> HIDE DEF d, p
  <2>d. d = now + step /\ p = d + delay
    BY DEF d, p
  <2>6. TsFollows'
    <3>1. CASE "ts" \in open
      <4>1. /\ Following(TsVideo(c).sink.dts, d, ZeroDts(d))
            /\ Following(TsVideo(c).sink.pts, p, ZeroPts(p))
            /\ TsVideo(c).sink.base = ZeroDts(d) % Wrap
            /\ TsVideo(c).sink.lastVideo = d - ZeroDts(d)
            /\ TsVideo(c).unit =
                 [dts |-> d - ZeroDts(d),
                  pts |-> Ridden(d - ZeroDts(d), TsVideo(c).sink.dts, TsVideo(c).sink.pts)]
        BY <2>1, <2>d, <3>1, TsVideoFollows DEF Follows
      <4>2. ts' = TsVideo(c).sink /\ out'.ts = TsVideo(c).unit
        BY <1>4, <2>2, <3>1
      <4> QED
        BY <1>3, <2>3, <2>4, <3>1, <4>1, <4>2 DEF TsFollows, Following, Ridden
    <3>2. CASE "ts" \notin open
      BY <1>3, <2>1, <2>2, <3>2 DEF TsFollows, Follows
    <3> QED
      BY <3>1, <3>2
  <2>7. RtpFollows'
    <3>1. CASE "rtp" \in open
      <4>1. /\ Following(RtpVideo(c).sink.dts, d, ZeroDts(d))
            /\ Following(RtpVideo(c).sink.pts, p, ZeroPts(p))
            /\ RtpVideo(c).sink.base = ZeroDts(d) % Wrap
            /\ RtpVideo(c).unit =
                 [dts |-> d - ZeroDts(d),
                  pts |-> Ridden(d - ZeroDts(d), RtpVideo(c).sink.dts, RtpVideo(c).sink.pts)]
        BY <2>1, <2>d, <3>1, RtpVideoFollows DEF Follows
      <4>2. rtp' = RtpVideo(c).sink /\ out'.rtp = RtpVideo(c).unit
        BY <1>4, <2>2, <3>1
      <4> QED
        BY <1>3, <2>3, <2>4, <3>1, <4>1, <4>2 DEF RtpFollows, Following, Ridden
    <3>2. CASE "rtp" \notin open
      BY <1>3, <2>1, <2>2, <3>2 DEF RtpFollows, Follows
    <3> QED
      BY <3>1, <3>2
  <2>8. "rtsp" \in open =>
          /\ Following(rtsp'.dts, d, ZeroDts(d)) /\ Following(rtsp'.pts, p, ZeroPts(p))
          /\ rtsp'.audio = rtsp.audio
          /\ rtsp.player = "started" => rtsp'.player = "started" /\ rtsp'.base = rtsp.base
          /\ rtsp'.player # "started" => RtspVideo(c, key).unit = None
          /\ rtsp'.player = "started" =>
                /\ ZeroPlayer(d, key) \in Nat
                /\ rtsp'.base = (d - ZeroDts(d)) + (ZeroDts(d) % Wrap)
                                  - (d - ZeroPlayer(d, key))
                /\ RtspVideo(c, key).unit =
                      [dts |-> d - ZeroPlayer(d, key),
                       pts |-> Ridden(d - ZeroPlayer(d, key), rtsp'.dts, rtsp'.pts)]
    <3> SUFFICES ASSUME "rtsp" \in open
                 PROVE  /\ Following(rtsp'.dts, d, ZeroDts(d))
                        /\ Following(rtsp'.pts, p, ZeroPts(p))
                        /\ rtsp'.audio = rtsp.audio
                        /\ rtsp.player = "started" =>
                              rtsp'.player = "started" /\ rtsp'.base = rtsp.base
                        /\ rtsp'.player # "started" => RtspVideo(c, key).unit = None
                        /\ rtsp'.player = "started" =>
                              /\ ZeroPlayer(d, key) \in Nat
                              /\ rtsp'.base = (d - ZeroDts(d)) + (ZeroDts(d) % Wrap)
                                                - (d - ZeroPlayer(d, key))
                              /\ RtspVideo(c, key).unit =
                                    [dts |-> d - ZeroPlayer(d, key),
                                     pts |-> Ridden(d - ZeroPlayer(d, key), rtsp'.dts,
                                                    rtsp'.pts)]
      OBVIOUS
    <3>1. rtsp' = RtspVideo(c, key).sink
      BY <1>4
    <3>2. SessionFollows /\ RtspFollows
      BY <2>1 DEF Follows
    <3> QED
      BY <2>1, <2>d, <3>1, <3>2, RtspVideoFollows
  <2>9. RtspFollows'
    <3>1. CASE "rtsp" \in open
      <4>1. out'.player = RtspVideo(c, key).unit /\ zero'.player = ZeroPlayer(d, key)
        BY <2>2, <2>3, <3>1
      <4>2. ASSUME rtsp'.player = "started"
            PROVE  /\ zero'.player \in Nat
                   /\ rtsp'.base = (zero'.player - zero'.dts) + (zero'.dts % Wrap)
                   /\ out'.player = [dts |-> now' - zero'.player,
                                     pts |-> Ridden(now' - zero'.player, rtsp'.dts, rtsp'.pts)]
        <5> DEFINE r == zero'.dts % Wrap
        <5>1. /\ zero'.player \in Nat
              /\ rtsp'.base = (d - zero'.dts) + r - (d - zero'.player)
          BY <2>3, <2>8, <3>1, <4>1, <4>2
        <5>2. zero'.dts \in Nat
          BY <1>1, <2>3 DEF ZeroDts, TypeInv, PastTypeOK, Maybe
        <5>3. r \in Int
          BY <5>2, Division, WrapFacts
        <5> HIDE DEF r
        <5>4. rtsp'.base = (zero'.player - zero'.dts) + r
          BY <1>1, <5>1, <5>2, <5>3
        <5>5. out'.player = [dts |-> now' - zero'.player,
                             pts |-> Ridden(now' - zero'.player, rtsp'.dts, rtsp'.pts)]
          BY <1>3, <2>8, <3>1, <4>1, <4>2
        <5> QED
          BY <5>1, <5>4, <5>5 DEF r
      <4>3. Following(rtsp'.dts, now', zero'.dts) /\ Following(rtsp'.pts, shown', zero'.pts)
        BY <1>3, <2>3, <2>8, <3>1
      <4>4. rtsp'.player # "started" => out'.player = None
        BY <2>8, <3>1, <4>1
      <4> QED
        BY <1>3, <2>4, <3>1, <4>2, <4>3, <4>4 DEF RtspFollows, Following, Ridden
    <3>2. CASE "rtsp" \notin open
      BY <1>3, <2>1, <2>2, <3>2 DEF RtspFollows, Follows
    <3> QED
      BY <3>1, <3>2
  <2>10. NdiFollows'
    <3>1. CASE "ndi" \in open
      <4>1. /\ Following(NdiVideo(c).sink.pts, p, ZeroPts(p))
            /\ NdiVideo(c).sink.base = ZeroPts(p) % Wrap
            /\ NdiVideo(c).unit = p - ZeroPts(p)
        BY <2>1, <2>d, <3>1, NdiVideoFollows DEF Follows
      <4>2. ndi' = NdiVideo(c).sink /\ out'.ndi = NdiVideo(c).unit
        BY <1>4, <2>2, <3>1
      <4> QED
        BY <1>3, <2>3, <2>4, <3>1, <4>1, <4>2 DEF NdiFollows, Following
    <3>2. CASE "ndi" \notin open
      BY <1>3, <2>1, <2>2, <3>2 DEF NdiFollows, Follows
    <3> QED
      BY <3>1, <3>2
  <2>11. TsAudioFollows'
    <3>1. ts'.audio = ts.audio /\ ts'.lastAudio = ts.lastAudio
      BY <1>2, <1>4, TsVideoKeeps
    <3>2. ts.base >= 0 => ts'.base = ts.base
      BY <1>2, <1>4, TsVideoKeeps
    <3>3. out'.tsAudio = out.tsAudio
      BY <2>2
    <3>4. TsAudioFollows
      BY <2>1 DEF Follows
    <3> QED
      BY <1>3, <2>3, <3>1, <3>2, <3>3, <3>4 DEF TsAudioFollows, Absolute
  <2>12. RtpAudioFollows'
    <3>1. rtp'.audio = rtp.audio /\ rtp'.audioBase = rtp.audioBase
      BY <1>2, <1>4, RtpVideoKeeps
    <3>2. out'.rtpAudio = out.rtpAudio
      BY <2>2
    <3>3. RtpAudioFollows
      BY <2>1 DEF Follows
    <3> QED
      BY <1>3, <2>3, <3>1, <3>2, <3>3 DEF RtpAudioFollows, Absolute
  <2>13. RtspAudioFollows'
    <3>1. rtsp'.audio = rtsp.audio
      BY <1>4, <2>8
    <3>2. rtsp.player = "started" => rtsp'.player = "started" /\ rtsp'.base = rtsp.base
      BY <1>4, <2>8
    <3>3. out'.playerAudio = out.playerAudio
      BY <2>2
    <3>4. RtspAudioFollows
      BY <2>1 DEF Follows
    <3> QED
      BY <1>3, <2>3, <3>1, <3>2, <3>3, <3>4 DEF RtspAudioFollows, Absolute
  <2> QED
    BY <2>5, <2>6, <2>7, <2>9, <2>10, <2>11, <2>12, <2>13 DEF Follows
<1> QED
  BY <1>3, <1>7, <1>8, <1>9 DEF FollowInv


(* A unit of audio, in each of the sinks that are open. *)
LEMMA WriteAudioFollows ==
    ASSUME TypeInv, FollowInv, NEW step \in AudioSteps, NEW stamped \in BOOLEAN,
           WriteAudio(step, stamped)
    PROVE  FollowInv'
<1> DEFINE a == heard + step
           raw == AudioClock(stamped, a)
           tsUnit == IF TsTakesAudio THEN TsAudio(raw).unit ELSE None
           rtpUnit == IF "rtp" \in open THEN RtpAudio(raw).unit ELSE None
           playerUnit == IF "rtsp" \in open THEN RtspAudio(raw).unit ELSE None
           ra == Ratio * a
<1>1. heard' = a /\ UNCHANGED <<now, shown, shift, open, ndi>>
  BY DEF WriteAudio
<1>2. /\ ts' = IF TsTakesAudio THEN TsAudio(raw).sink ELSE ts
      /\ rtp' = IF "rtp" \in open THEN RtpAudio(raw).sink ELSE rtp
      /\ rtsp' = IF "rtsp" \in open THEN RtspAudio(raw).sink ELSE rtsp
  BY DEF WriteAudio
<1>3. out' = [out EXCEPT !.tsAudio = tsUnit, !.rtpAudio = rtpUnit, !.playerAudio = playerUnit]
  BY DEF WriteAudio
<1>4. /\ intact' = (open # {} => intact /\ raw = AudioClock(TRUE, a))
      /\ zero' = [zero EXCEPT !.tsLag = Lag(@, tsUnit, ra),
                              !.rtpLag = Lag(@, rtpUnit, a),
                              !.playerLag = Lag(@, playerUnit, ra)]
  BY DEF WriteAudio
<1>5. /\ TsTakesAudio => tsUnit = TsAudio(raw).unit
      /\ ~TsTakesAudio => tsUnit = None
      /\ "rtp" \in open => rtpUnit = RtpAudio(raw).unit
      /\ "rtp" \notin open => rtpUnit = None
      /\ "rtsp" \in open => playerUnit = RtspAudio(raw).unit
      /\ "rtsp" \notin open => playerUnit = None
  <2> HIDE DEF raw
  <2> QED
    OBVIOUS
<1> HIDE DEF raw, tsUnit, rtpUnit, playerUnit, ra
<1>6. out' = [ts |-> out.ts, tsAudio |-> tsUnit, rtp |-> out.rtp, rtpAudio |-> rtpUnit,
              player |-> out.player, playerAudio |-> playerUnit, ndi |-> out.ndi]
  BY <1>3 DEF TypeInv, OutTypeOK
<1>7. zero' = [dts |-> zero.dts, pts |-> zero.pts, ordered |-> zero.ordered,
               player |-> zero.player, tsLag |-> Lag(zero.tsLag, tsUnit, ra),
               rtpLag |-> Lag(zero.rtpLag, rtpUnit, a),
               playerLag |-> Lag(zero.playerLag, playerUnit, ra)]
  BY <1>4 DEF TypeInv, PastTypeOK
<1>8. CASE open = {}
  <2>1. AllClosed
    BY <1>8 DEF FollowInv
  <2>2. ts' = ts /\ rtp' = rtp /\ rtsp' = rtsp /\ ndi' = ndi /\ intact' = TRUE
    BY <1>1, <1>2, <1>4, <1>8 DEF TsTakesAudio
  <2>3. tsUnit = None /\ rtpUnit = None /\ playerUnit = None
    BY <1>5, <1>8 DEF TsTakesAudio
  <2>4. out' = NoOut
    BY <1>6, <2>1, <2>3 DEF AllClosed, NoOut
  <2>5. zero' = NoZero
    BY <1>7, <2>1, <2>3 DEF AllClosed, NoZero, Lag
  <2>6. AllClosed'
    BY <2>1, <2>2, <2>4, <2>5 DEF AllClosed
  <2> QED
    BY <2>6, AllClosedFollowsNext
<1>9. CASE open # {} /\ ~intact'
  BY <1>1, <1>9 DEF FollowInv
<1>10. ASSUME open # {}, intact' PROVE Follows'
  <2>1. intact /\ Follows /\ raw = (a + shift) % Wrap
    BY <1>4, <1>10 DEF FollowInv, AudioClock
  <2> HIDE DEF a
  <2>a. a = heard + step
    BY DEF a
  <2>2. SessionFollows'
    BY <1>1, <1>7, <2>1 DEF SessionFollows, Follows
  <2>3. TsTakesAudio =>
          /\ Lag(zero.tsLag, tsUnit, ra) # None
          /\ ts'.base = ts.base /\ ts'.audio.last = raw
          /\ Absolute(ts'.audio) * Ratio - ts.base = ra - Lag(zero.tsLag, tsUnit, ra)
          /\ ts'.lastAudio = ra - Lag(zero.tsLag, tsUnit, ra)
          /\ tsUnit = ra - Lag(zero.tsLag, tsUnit, ra)
    BY <1>2, <1>5, <2>1, <2>a, TsAudioStep DEF Follows, ra
  <2>4. "rtp" \in open =>
          /\ Lag(zero.rtpLag, rtpUnit, a) # None
          /\ rtp'.audioBase >= 0 /\ rtp'.audio.last = raw
          /\ Absolute(rtp'.audio) - rtp'.audioBase = a - Lag(zero.rtpLag, rtpUnit, a)
          /\ rtpUnit = a - Lag(zero.rtpLag, rtpUnit, a)
    BY <1>2, <1>5, <2>1, <2>a, RtpAudioStep DEF Follows
  <2>5. "rtsp" \in open =>
          /\ rtsp'.dts = rtsp.dts /\ rtsp'.pts = rtsp.pts
          /\ rtsp'.base = rtsp.base /\ rtsp'.player = rtsp.player
          /\ rtsp'.audio.last = raw
          /\ rtsp.player # "started" =>
               Lag(zero.playerLag, playerUnit, ra) = None /\ playerUnit = None
          /\ rtsp.player = "started" =>
               /\ Lag(zero.playerLag, playerUnit, ra) # None
               /\ Absolute(rtsp'.audio) * Ratio - rtsp.base
                     = ra - Lag(zero.playerLag, playerUnit, ra)
               /\ playerUnit = ra - Lag(zero.playerLag, playerUnit, ra)
    BY <1>2, <1>5, <2>1, <2>a, RtspAudioStep DEF Follows, ra
  <2>6. /\ ts'.dts = ts.dts /\ ts'.pts = ts.pts /\ ts'.base = ts.base
        /\ ts'.lastVideo = ts.lastVideo
    <3> DEFINE u == Unwrap(ts.audio, raw)
               time == KeepMonotonic(Absolute(u) * Ratio - ts.base, ts.lastAudio, MinAudioStep)
    <3>1. TsAudio(raw) = [sink |-> [ts EXCEPT !.audio = u, !.lastAudio = time], unit |-> time]
      BY DEF TsAudio
    <3> HIDE DEF u, time
    <3>2. TsAudio(raw).sink = [ts EXCEPT !.audio = u, !.lastAudio = time]
      BY <3>1
    <3>3. ts \in [dts : Unwrapper, pts : Unwrapper, audio : Unwrapper, base : Nat \cup {-1},
                  lastVideo : Nat \cup {-1}, lastAudio : Int]
      BY DEF TypeInv, TsSound
    <3>4. /\ TsAudio(raw).sink.dts = ts.dts /\ TsAudio(raw).sink.pts = ts.pts
          /\ TsAudio(raw).sink.base = ts.base /\ TsAudio(raw).sink.lastVideo = ts.lastVideo
      BY <3>2, <3>3
    <3> QED
      BY <1>2, <3>4
  <2>7. rtp'.dts = rtp.dts /\ rtp'.pts = rtp.pts /\ rtp'.base = rtp.base
    <3> DEFINE u == Unwrap(rtp.audio, raw)
               base == RtpAudioBase(u)
    <3>1. RtpAudio(raw) = [sink |-> [rtp EXCEPT !.audio = u, !.audioBase = base],
                           unit |-> Absolute(u) - base]
      BY DEF RtpAudio
    <3> HIDE DEF u, base
    <3>2. RtpAudio(raw).sink = [rtp EXCEPT !.audio = u, !.audioBase = base]
      BY <3>1
    <3>3. rtp \in [dts : Unwrapper, pts : Unwrapper, base : Nat \cup {-1}, audio : Unwrapper,
                   audioBase : Nat \cup {-1}]
      BY DEF TypeInv, RtpSound
    <3>4. /\ RtpAudio(raw).sink.dts = rtp.dts /\ RtpAudio(raw).sink.pts = rtp.pts
          /\ RtpAudio(raw).sink.base = rtp.base
      BY <3>2, <3>3
    <3> QED
      BY <1>2, <3>4
  <2>8. TsFollows'
    <3>1. out'.ts = out.ts /\ zero'.dts = zero.dts /\ zero'.pts = zero.pts
      BY <1>6, <1>7
    <3>2. TsFollows
      BY <2>1 DEF Follows
    <3> QED
      BY <1>1, <2>6, <3>1, <3>2 DEF TsFollows, Following, Ridden, Absolute
  <2>9. RtpFollows'
    <3>1. out'.rtp = out.rtp /\ zero'.dts = zero.dts /\ zero'.pts = zero.pts
      BY <1>6, <1>7
    <3>2. RtpFollows
      BY <2>1 DEF Follows
    <3> QED
      BY <1>1, <2>7, <3>1, <3>2 DEF RtpFollows, Following, Ridden, Absolute
  <2>10. RtspFollows'
    <3>1. /\ out'.player = out.player /\ zero'.dts = zero.dts /\ zero'.pts = zero.pts
          /\ zero'.player = zero.player
      BY <1>6, <1>7
    <3>2. RtspFollows
      BY <2>1 DEF Follows
    <3>3. CASE "rtsp" \in open
      BY <1>1, <2>5, <3>1, <3>2, <3>3 DEF RtspFollows, Following, Ridden, Absolute
    <3>4. CASE "rtsp" \notin open
      BY <1>1, <3>1, <3>2, <3>4 DEF RtspFollows
    <3> QED
      BY <3>3, <3>4
  <2>11. NdiFollows'
    <3>1. out'.ndi = out.ndi /\ zero'.dts = zero.dts /\ zero'.pts = zero.pts
      BY <1>6, <1>7
    <3>2. NdiFollows
      BY <2>1 DEF Follows
    <3> QED
      BY <1>1, <3>1, <3>2 DEF NdiFollows, Following, Absolute
  <2>12. TsAudioFollows'
    <3>1. TsAudioFollows
      BY <2>1 DEF Follows
    <3>2. zero'.tsLag = Lag(zero.tsLag, tsUnit, ra) /\ out'.tsAudio = tsUnit
      BY <1>6, <1>7
    <3>3. CASE TsTakesAudio
      <4>1. /\ zero'.tsLag # None /\ "ts" \in open' /\ ts'.base >= 0
            /\ ts'.audio.last = (heard' + shift') % Wrap
        BY <1>1, <2>1, <2>3, <3>2, <3>3 DEF TsTakesAudio
      <4>2. /\ Absolute(ts'.audio) * Ratio - ts'.base = Ratio * heard' - zero'.tsLag
            /\ ts'.lastAudio = Ratio * heard' - zero'.tsLag
            /\ out'.tsAudio = Ratio * heard' - zero'.tsLag
        <5>1. ra = Ratio * heard'
          BY <1>1 DEF ra
        <5> QED
          BY <2>3, <3>2, <3>3, <5>1
      <4> QED
        BY <4>1, <4>2 DEF TsAudioFollows, Absolute
    <3>4. CASE ~TsTakesAudio
      <4>1. zero.tsLag = None
        BY <3>1, <3>4 DEF TsAudioFollows, TsTakesAudio
      <4>2. ts' = ts /\ tsUnit = None
        BY <1>2, <1>5, <3>4
      <4> QED
        BY <3>1, <3>2, <4>1, <4>2 DEF TsAudioFollows, Lag
    <3> QED
      BY <3>3, <3>4
  <2>13. RtpAudioFollows'
    <3>1. RtpAudioFollows
      BY <2>1 DEF Follows
    <3>2. zero'.rtpLag = Lag(zero.rtpLag, rtpUnit, a) /\ out'.rtpAudio = rtpUnit
      BY <1>6, <1>7
    <3>3. CASE "rtp" \in open
      <4>1. /\ zero'.rtpLag # None /\ "rtp" \in open' /\ rtp'.audioBase >= 0
            /\ rtp'.audio.last = (heard' + shift') % Wrap
            /\ Absolute(rtp'.audio) - rtp'.audioBase = heard' - zero'.rtpLag
            /\ out'.rtpAudio = heard' - zero'.rtpLag
        BY <1>1, <2>1, <2>4, <3>2, <3>3
      <4> QED
        BY <4>1 DEF RtpAudioFollows, Absolute
    <3>4. CASE "rtp" \notin open
      <4>1. zero.rtpLag = None
        BY <3>1, <3>4 DEF RtpAudioFollows
      <4>2. rtp' = rtp /\ rtpUnit = None
        BY <1>2, <1>5, <3>4
      <4> QED
        BY <3>1, <3>2, <4>1, <4>2 DEF RtpAudioFollows, Lag
    <3> QED
      BY <3>3, <3>4
  <2>14. RtspAudioFollows'
    <3>1. RtspAudioFollows
      BY <2>1 DEF Follows
    <3>2. /\ zero'.playerLag = Lag(zero.playerLag, playerUnit, ra)
          /\ out'.playerAudio = playerUnit
      BY <1>6, <1>7
    <3>3. CASE "rtsp" \in open
      <4>1. "rtsp" \in open' /\ rtsp'.audio.last = (heard' + shift') % Wrap
        BY <1>1, <2>1, <2>5, <3>3
      <4>2. CASE rtsp.player # "started"
        BY <2>5, <3>2, <3>3, <4>1, <4>2 DEF RtspAudioFollows
      <4>3. CASE rtsp.player = "started"
        <5>1. ra = Ratio * heard'
          BY <1>1 DEF ra
        <5>2. /\ zero'.playerLag # None /\ "rtsp" \in open' /\ rtsp'.player = "started"
              /\ Absolute(rtsp'.audio) * Ratio - rtsp'.base = Ratio * heard' - zero'.playerLag
              /\ out'.playerAudio = Ratio * heard' - zero'.playerLag
          BY <1>1, <2>5, <3>2, <3>3, <4>3, <5>1
        <5> QED
          BY <4>1, <5>2 DEF RtspAudioFollows, Absolute
      <4> QED
        BY <4>2, <4>3
    <3>4. CASE "rtsp" \notin open
      <4>1. zero.playerLag = None
        BY <3>1, <3>4 DEF RtspAudioFollows
      <4>2. rtsp' = rtsp /\ playerUnit = None
        BY <1>2, <1>5, <3>4
      <4>3. rtsp.audio = Fresh
        BY <3>1, <3>4 DEF RtspAudioFollows
      <4> QED
        BY <3>2, <4>1, <4>2, <4>3 DEF RtspAudioFollows, Lag
    <3> QED
      BY <3>3, <3>4
  <2> QED
    BY <2>2, <2>8, <2>9, <2>10, <2>11, <2>12, <2>13, <2>14 DEF Follows
<1> QED
  BY <1>1, <1>8, <1>9, <1>10 DEF FollowInv

-----------------------------------------------------------------------------
(* Every step *)

(* Before anything is open. *)
LEMMA InitFollows == Init => FollowInv
<1> SUFFICES ASSUME Init PROVE FollowInv
  OBVIOUS
<1>1. AllClosed
  BY DEF Init, AllClosed
<1> QED
  BY <1>1, AllClosedFollows DEF FollowInv

(* Every step keeps the sinks with their feed. *)
LEMMA StepFollows == TypeInv /\ FollowInv /\ [Next]_vars => FollowInv'
<1> SUFFICES ASSUME TypeInv, FollowInv, [Next]_vars PROVE FollowInv'
  OBVIOUS
<1>1. ASSUME NEW step \in VideoSteps, NEW delay \in Delays, NEW stamps \in Stamps,
             NEW key \in BOOLEAN, WriteVideo(step, delay, stamps, key)
      PROVE  FollowInv'
  BY <1>1, WriteVideoFollows
<1>2. ASSUME NEW step \in AudioSteps, NEW stamped \in BOOLEAN, WriteAudio(step, stamped)
      PROVE  FollowInv'
  BY <1>2, WriteAudioFollows
<1>3. ASSUME NEW some \in OpenSets, Open(some) PROVE FollowInv'
  <2>1. AllClosed
    BY <1>3 DEF Open, FollowInv
  <2>2. AllClosed'
    BY <1>3, <2>1 DEF Open, AllClosed
  <2> QED
    BY <2>2, AllClosedFollowsNext
<1>4. CASE Play
  <2>1. /\ rtsp' = [rtsp EXCEPT !.player = "waiting"] /\ rtsp.player = None
        /\ "rtsp" \in open /\ UNCHANGED <<feedVars, open, ts, rtp, ndi, out, intact, zero>>
    BY <1>4 DEF Play
  <2>2. /\ rtsp'.dts = rtsp.dts /\ rtsp'.pts = rtsp.pts /\ rtsp'.audio = rtsp.audio
        /\ rtsp'.player = "waiting"
    BY <2>1 DEF TypeInv, RtspSound
  <2>3. ASSUME intact PROVE Follows'
    <3>1. Follows
      BY <2>3 DEF FollowInv
    <3>2. RtspFollows'
      BY <2>1, <2>2, <3>1, NoneFacts DEF feedVars, Follows, RtspFollows, Following, Absolute
    <3>3. RtspAudioFollows'
      BY <2>1, <2>2, <3>1, NoneFacts DEF feedVars, Follows, RtspAudioFollows
    <3>4. SessionFollows' /\ TsFollows' /\ RtpFollows' /\ NdiFollows'
      BY <2>1, <3>1 DEF feedVars, Follows, SessionFollows, TsFollows, RtpFollows, NdiFollows,
                        Following, Ridden, Absolute
    <3>5. TsAudioFollows' /\ RtpAudioFollows'
      BY <2>1, <3>1 DEF feedVars, Follows, TsAudioFollows, RtpAudioFollows, Absolute
    <3> QED
      BY <3>2, <3>3, <3>4, <3>5 DEF Follows
  <2>4. open' # {}
    BY <2>1
  <2> QED
    BY <2>1, <2>3, <2>4 DEF FollowInv
<1>5. CASE Leave
  <2> DEFINE gone == -1
  <2>1. /\ rtsp' = [rtsp EXCEPT !.player = None, !.base = gone] /\ rtsp.player # None
        /\ out' = [out EXCEPT !.player = None, !.playerAudio = None]
        /\ zero' = [zero EXCEPT !.player = None, !.playerLag = None]
        /\ UNCHANGED <<feedVars, open, ts, rtp, ndi, intact>>
    BY <1>5 DEF Leave
  <2> HIDE DEF gone
  <2>2. /\ rtsp'.dts = rtsp.dts /\ rtsp'.pts = rtsp.pts /\ rtsp'.audio = rtsp.audio
        /\ rtsp'.player = None
    BY <2>1 DEF TypeInv, RtspSound
  <2>3. /\ out'.ts = out.ts /\ out'.tsAudio = out.tsAudio
        /\ out'.rtp = out.rtp /\ out'.rtpAudio = out.rtpAudio
        /\ out'.ndi = out.ndi /\ out'.player = None /\ out'.playerAudio = None
    BY <2>1 DEF TypeInv, OutTypeOK
  <2>4. /\ zero'.dts = zero.dts /\ zero'.pts = zero.pts /\ zero'.ordered = zero.ordered
        /\ zero'.tsLag = zero.tsLag /\ zero'.rtpLag = zero.rtpLag /\ zero'.playerLag = None
    BY <2>1 DEF TypeInv, PastTypeOK
  <2>5. open # {}
    BY <2>1 DEF FollowInv, AllClosed, NoRtsp
  <2>6. ASSUME intact PROVE Follows'
    <3>1. Follows
      BY <2>6 DEF FollowInv
    <3>2. RtspFollows'
      BY <2>1, <2>2, <2>3, <2>4, <3>1, NoneFacts
      DEF feedVars, Follows, RtspFollows, Following, Absolute
    <3>3. RtspAudioFollows'
      BY <2>1, <2>2, <2>3, <2>4, <3>1 DEF feedVars, Follows, RtspAudioFollows
    <3>4. SessionFollows'
      BY <2>1, <2>4, <3>1 DEF feedVars, Follows, SessionFollows
    <3>5. TsFollows'
      BY <2>1, <2>3, <2>4, <3>1 DEF feedVars, Follows, TsFollows, Following, Ridden, Absolute
    <3>6. RtpFollows'
      BY <2>1, <2>3, <2>4, <3>1 DEF feedVars, Follows, RtpFollows, Following, Ridden, Absolute
    <3>7. NdiFollows'
      BY <2>1, <2>3, <2>4, <3>1 DEF feedVars, Follows, NdiFollows, Following, Absolute
    <3>8. TsAudioFollows' /\ RtpAudioFollows'
      BY <2>1, <2>3, <2>4, <3>1 DEF feedVars, Follows, TsAudioFollows, RtpAudioFollows, Absolute
    <3> QED
      BY <3>2, <3>3, <3>4, <3>5, <3>6, <3>7, <3>8 DEF Follows
  <2> QED
    BY <2>1, <2>5, <2>6 DEF FollowInv
<1>6. ASSUME CloseAll PROVE FollowInv'
  <2>1. AllClosed'
    BY <1>6 DEF CloseAll, ClosedTs, AllClosed
  <2> QED
    BY <2>1, AllClosedFollowsNext
<1>7. CASE Close
  BY <1>6, <1>7 DEF Close
<1>8. ASSUME NEW first \in FirstTimes, NEW ahead \in AudioShifts, Restart(first, ahead)
      PROVE  FollowInv'
  BY <1>6, <1>8 DEF Restart
<1>9. ASSUME NEW first \in FirstTimes, Loop(first) PROVE FollowInv'
  <2>1. intact' = (open = {}) /\ UNCHANGED <<sinkVars, out, zero>>
    BY <1>9 DEF Loop
  <2>2. CASE open = {}
    <3>1. AllClosed
      BY <2>2 DEF FollowInv
    <3>2. AllClosed'
      BY <2>1, <2>2, <3>1 DEF AllClosed, sinkVars
    <3> QED
      BY <3>2, AllClosedFollowsNext
  <2>3. CASE open # {}
    BY <2>1, <2>3 DEF FollowInv, sinkVars
  <2> QED
    BY <2>2, <2>3
<1>10. CASE UNCHANGED vars
  <2>1. UNCHANGED <<now, shown, heard, shift, open, ts, rtp, rtsp, ndi, out, intact, zero>>
    BY <1>10 DEF vars, feedVars, sinkVars
  <2>2. ASSUME intact PROVE Follows'
    <3>1. Follows
      BY <2>2 DEF FollowInv
    <3>2. SessionFollows' /\ TsFollows' /\ RtpFollows' /\ RtspFollows' /\ NdiFollows'
      BY <2>1, <3>1 DEF Follows, SessionFollows, TsFollows, RtpFollows, RtspFollows, NdiFollows,
                        Following, Ridden, Absolute
    <3>3. TsAudioFollows' /\ RtpAudioFollows' /\ RtspAudioFollows'
      BY <2>1, <3>1 DEF Follows, TsAudioFollows, RtpAudioFollows, RtspAudioFollows, Absolute
    <3> QED
      BY <3>2, <3>3 DEF Follows
  <2>3. open' = {} => AllClosed'
    BY <2>1 DEF FollowInv, AllClosed
  <2> QED
    BY <2>1, <2>2, <2>3 DEF FollowInv
<1> QED
  BY <1>1, <1>2, <1>3, <1>4, <1>5, <1>7, <1>8, <1>9, <1>10 DEF Next

(* As long as the clocks a session saw are those of the feed, every member of an open sink is
   what the position of the feed makes it. *)
THEOREM FollowInvHolds == Spec => []FollowInv
<1>1. Spec => [](TypeInv /\ FollowInv)
  <2>1. Init => TypeInv /\ FollowInv
    BY InitSound, InitFollows
  <2>2. (TypeInv /\ FollowInv) /\ [Next]_vars => (TypeInv /\ FollowInv)'
    BY StepSound, StepFollows
  <2> QED
    BY <2>1, <2>2, PTL DEF Spec
<1> QED
  BY <1>1, PTL

(* What the four sinks hand on is what the feed says, across any number of wraps of its
   clocks, in sessions that open, close and take players anywhere in the feed. *)
THEOREM SinksFollow == Spec => []SinksFollowFeed
  BY TypeInvHolds, FollowInvHolds, FollowInvFollows, PTL

=============================================================================
