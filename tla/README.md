# A TLA+ model of C-Bridge

C-Bridge takes live streams from WHEP (WebRTC) servers, SRT peers and YouTube and
re-publishes each one, without re-encoding where possible, as MPEG-TS or RTP multicast,
RTSP or NDI. This directory models the parts of it whose correctness depends on the order
in which things happen: threads that meet in a queue, signals that are delivered late,
sources that fail and come back, and a user who edits a document while its streams run.

The models are written from the code under `src/src`. `PROJECT.json` says which lines each
definition stands for (`map`), which properties each run checks (`runs`), which change of
the code each property would notice (`mutants`), where the code and its documentation
disagree (`findings`), what is hard to test in this code (`hazards`), and what is proved
(`theorems`).

## The system

| Component | State it keeps | Operations | Meets the others through |
|---|---|---|---|
| Controller (`bridgecontroller.cpp`) | the document, its path, whether it is unsaved, session passwords, the draft being edited | load, save, new, start, stop, edit, remove, enable, set a password | calls into the engine; its slots run inside the engine's signals |
| Engine (`core/bridgeengine.cpp`) | its copy of the document, passwords, one pipeline per running stream, sampled counters, a timer | setConfig, startAll, startStream, stopStream, stopAll, sampleStats | owns the pipelines; emits state changes and statistics |
| Pipeline (`core/streampipeline.cpp`) | the source, the sinks, the queue, a worker thread, the reconnect timer, the keyframe gate | start, stop, reconnect, push of units, worker loop | queued signals from the source, the queue to the worker |
| Media queue (`core/mediaqueue.h`) | a bounded backlog, a drop counter, a stop flag | push, pop, stop, clear | mutex and condition variable |
| Sources (`webrtc`, `srt`, `ytdlp`) | a peer connection or a thread, the state reported last, the codec | start, stop; YouTube also pause, resume, seek | callbacks that push, signals that report |
| Sinks (`sinks`) | a muxer or sender, timestamp bases; RTSP also a server thread with clients | open, write, close | called by the worker only |
| Viewer (`preview`, `PreviewWindow.qml`) | decoders, an audio ring, the window's pointer to the preview | attach, detach, write | a tap in the worker; polled by the window |
| Document (`config`) | streams, each with a source and sinks | JSON, validation, endpoint suggestion | values only |
| MediaMTX client (`mediamtxmodel.cpp`) | the list of servers and its file, passwords of the session, the rows of the listing, a worker thread with the request under way | edit the list, test, list, add a stream, quit | calls into the controller; queued calls to and from the worker |
| List and draft models (`models`) | rows, fields | display, edit | re-read on signals |

Everything the user does, every queued signal and every timer runs on the GUI thread.
Each YouTube or SRT source has a thread, each pipeline has a worker, a WHEP source calls
back from threads of its library, and the RTSP sink and the viewer have threads of their own.

What is hard, in one line each (the list with the lines is `hazards`):

- a notification that is sent after the lock is released, and a stop that joins;
- signals of a source that are delivered after the pipeline has stopped or restarted;
- a restart announced by a flag to a worker that still has the old run in its queue;
- a state that is reported twice and therefore emitted once;
- four ways of starting a stream that must each push the document, the password and the timer;
- counters, rows and viewer windows that outlive the pipeline they show;
- pause, resume, seek and stop that race the YouTube source's own thread, which may be
  probing, opening, reading, waiting or retrying;
- a position to resume at that must survive retries, other fetch paths and whole runs;
- 32-bit timestamps that wrap, with a base and an offset per clock, in feeds that start over;
- players of the RTSP sink that come and go while the worker writes;
- replies, reports and deletions that are queued for a WHEP run that is over;
- a viewer that is shown, hidden and muted while its stream restarts under it;
- a listing of a MediaMTX server that arrives after the list of servers was edited.

## Modules

| Module | Models | Extends or instantiates |
|---|---|---|
| `LossyChannel` | what the queue promises: a drop-oldest channel of numbered units | |
| `MediaQueue` | `MediaQueue` with its mutex, condition variable and the two threads and `stop()` around it | `INSTANCE LossyChannel` |
| `MediaQueueProofs` | theorems about `MediaQueue` | `MediaQueue`, `TLAPS` |
| `StreamPipeline` | one stream: GUI thread, source, queue, worker, sinks | |
| `StreamPipelineProofs` | theorems about `StreamPipeline` | `StreamPipeline`, `TLAPS` |
| `YtdlpSource` | a YouTube source: its worker's runs and generations against start, stop, pause, resume and seek | |
| `YtdlpSourceProofs` | theorems about `YtdlpSource` | `YtdlpSource`, `TLAPS` |
| `RtspSink` | the RTSP sink: its server thread, sessions and clients, against the worker that writes | |
| `RtspSinkProofs` | theorems about `RtspSink` | `RtspSink`, `TLAPS` |
| `BridgeController` | the controller, the engine, the rows and the viewer windows | |
| `BridgeControllerProofs` | theorems about `BridgeController` | `BridgeController`, `TLAPS` |
| `SinkTimestamps` | the clocks of a stream, from the packets of an SRT feed to the units of the four sinks | |
| `SinkTimestampsProofs` | theorems about `SinkTimestamps` | `SinkTimestamps`, `TLAPS` |
| `StreamPreview` | the viewer: user interface, worker, window and audio device | |
| `StreamPreviewProofs` | theorems about `StreamPreview` | `StreamPreview`, `TLAPS` |
| `Filtering` | what is left of a queue or a list when some of its elements are dropped | |
| `ClientPool` | what a WHEP source promises of its clients: one in use, the others deleted before it | |
| `WhepSession` | a WHEP stream: signaling, peer connection, event queue and the pipeline's retries | `Filtering`, `INSTANCE ClientPool` |
| `MediaMtx` | the MediaMTX client: servers, the worker's requests, rows, streams made of them | `Filtering` |
| `ClientProofs` | theorems about `MediaMtx`, `WhepSession` and `Filtering` | `MediaMtx`, `WhepSession`, `TLAPS` |
| `MC...` | constants for TLC | the module they name |

### MediaQueue

`units`, `dropped` and `stopped` are the queue's members. A critical section is one step,
because the mutex makes it one; what is outside the mutex is a step of its own. `Push`
is `push()` up to the unlock, `NotifyOne` is the call after it. `pop()` is `Block` when its
predicate is false, `SpuriousWake` or a notification wakes it, and `PopUnit` or `PopFails`
returns. `ClearRunning`, `Stop`, `NotifyAll` and `Clear` are `StreamPipeline::stop()` as far
as it concerns the queue; between the flag and the join, `Leave` is the worker loop seeing
that the pipeline no longer runs. A unit is its number and its kind.

`ImplementsLossyChannel` maps the backlog to the interval of numbers between the head and
the last unit sent. A push that drops, whatever the loop does inside the lock, is one
`SendDisplacing`; `clear()` is `Discard`.

### StreamPipeline

The GUI thread is `gui` (where `start()` or `stop()` is, or the event loop); the source is
`srcPc`; the worker is `worker`. `signals` is the queue of signals to the GUI thread. A
source with a thread (SRT, YouTube) reports through that queue, and only changes of state
(`SetState`). A WHEP source reports a refusal at once, because it notices it on the GUI
thread, and the state of the peer connection through the queue. `stop()` is the sequence
`StopBegins`, `StopSource`, `JoinSource`, `StopQueue`, `StopCompletes`; the two joins wait.
The worker is one step per access to shared state: `CheckRunning` reads `m_running`,
`PopUnit` pops, `TakeRestart` and `TakeGate` take the two flags, and one of `DropAtGate`,
`OpenGate`, `WriteVideo`, `WriteAudio` handles the unit.

Each unit carries the era it was pushed in, that is, how many restarts had been announced
to the worker by then. A session of the sinks keeps the era it was opened in, its first
unit, the parameter sets that went out in front of or in that unit, and the eras of all its
units. These are history: the code has none of them, and no guard reads them.

Left out: timestamps, the statistics, pause and resume, the viewer's tap. The codec is one
with parameter sets. A pipeline is started once, as the engine does it.

### YtdlpSource

`pc` is where the worker is in `run()` and, inside a generation, in `pumpPackets()`; `owner`
is the call the GUI thread is in. The two threads share atomics only, so a request is as many
steps as it makes accesses that matter: `PauseBegins` tests the state and sets the flag,
`RequestReturns` reports the state, and the worker may take steps in between. `stop()` is
`StopBegins` (flags) and `StopReturns` (after the join).

A run is `RunBegins`, `ProbeMetadata` unless a probe is remembered, and `GenerationsBegin`,
which consumes the position left by a failed run. A generation is `Choose` (which fetch path),
`OpenSucceeds` or `OpenFails`, and then the pump: the requests are looked at
(`NoticesStop`, `NoticesSeek`, `SeeksInPlace`), a packet is read (`ReadBegins`,
`ReadReturns`, `ReadFails`) and waits for its time (`pc = "pacing"`) until it is delivered or
dropped for a request. What follows a generation is one action per branch of the loop of
`run()`: a direct URL that died before delivery (`DirectUndelivered`, `LadderContinues`), the
software encoder (`FallsBackToSoftware`), the end of the feed, a stop, a seek on the pipe, a
retry in place, no retries left, nothing delivered.

Positions are counted in steps. Whether a generation lasted the thirty seconds that renew
the budgets is a choice, as is every result of the network. `handed`, `keep` and `missed` are
history. `handed` is what the consumer was given since it last took an announcement: nothing,
video of the section being fetched, or video of an earlier one, from which the fetch went on
(`"earlier"`) or was sought back to zero on the pipe (`"rewound"`); it becomes `"current"` with
a delivery, and moves on when the next section begins, by an open or by a seek in place
(`SectionBegins`). `keep` is the playhead at which delivery broke off; a seek, the end of the
feed and a stop clear it. `missed` says that since then a generation, an in-place retry or the
first of a later run, delivered nothing and ended its run. No guard reads any of the three.

`StreamPipeline` meets this source as `RunBegins`, `Connects`, `RestartsInPlace` and
`RunFails`; the two are not composed.

### RtspSink

`list`, `session`, `endpoint`, `active` and `dead` are the client list and the fields of its
clients that the mutex guards; `started`, `context` and `targets` are the worker's alone.
The server thread takes one step per request (`Setup`, `Play`, `Teardown`) or event
(`Accept`, `Disconnect`). The worker's write is `WriteBegins`, which reaps the dead clients,
`Collect`, which takes the pointers of the clients that want the unit, and `Serve` or
`ServeFails` for each of them, outside the mutex; requests come in between. `close()` is
`CloseBegins`, `ServerEnds` (the join) and `CloseClears`.

A client is the object, so that a session that sets up again after a TEARDOWN has a new one
while the old one may still be served. `units`, `got`, `played` and `ended` are history.
A resource of a player that has left is released with the next unit or by `close()`, not
"immediately" as the user documentation says; the model has it so.

`StreamPipeline` has this sink as one of its sinks, which open, take units and close; the
two are not composed.

### BridgeController

All of it runs on the GUI thread, so each operation is one step. The engine's methods
(`SetConfig`, `Launch`, `StopPipelines`, `SetPasswords`) are operators from engine state to
engine state, and an operation of the controller is the sequence of calls it makes. Slots
run inside the signals, so their effect is part of the method that emits: a state change
makes the rows re-read the counters (`shown`), and Idle closes the stream's window
(`Idled`). `launch` numbers the pipelines, so that a window's pointer to a preview
(`previews`) can be told from the preview of a later pipeline of the same stream.

A stream is whether it is enabled and the endpoint of its enabled sink, if it has one.
Validation is then the two rules about enabled sinks and endpoints, of the dozen in the
code; the others concern one stream alone. The pipelines report states as
`StreamPipeline` lets them, reduced to what the engine and the rows see. Ids that a
hand-written document omits or repeats are not modelled, nor are the draft's fields, the
startup settings and the stored list of servers.

The MediaMTX client is not in this module but in `MediaMtx`; it meets the controller as an
operation that adds a stream and enters its password (`AddMediaMtxStream` there).

### SinkTimestamps

`now`, `shown` and `heard` are where the feed is: the decode and the presentation time of its
last unit of video and the time of its last unit of audio. What is below is the code's: the
source cuts them to 32 bits, and fills in what a packet lacks (`VideoClocks`, `AudioClock`);
each sink unwraps (`Unwrap`, the same code in each), rebases on the first unit of its session
and, the transport stream sink only, forces the result to advance (`KeepMonotonic`). `ts`,
`rtp`, `rtsp` and `ndi` are the members of the sinks, `out` is what each last handed on. One
`WriteVideo` is a unit on its way through the source and all open sinks; `Open`, `Close` and
`Restart` are what the pipeline does with them; `Loop` is a feed that starts over unnoticed.

2^32 is the constant `Wrap`, an audio tick is a whole number of video ticks, and an RTSP sink has
one player. `intact` (the clocks the open sinks saw are those of the feed) and `zero` (where
a session began) are history.

### StreamPreview

Three threads: the user interface (`gui` is the operation it is in), the worker of the pipeline
(`work`), and the audio device, which drains the ring. Each access to what they share is a
step of its own: `active`, `muted`, `resetPending`, `hasFrame` and `targetSink` are atomics,
the ring has a mutex. Attaching, detaching, muting, a reset (`Restart`, `ResetFrame`,
`ResetRing`) and the shutdown are sequences of such steps, and so is the handling of a unit: the
gate of the pipeline, `TearDown` when inactive, the pending reset, the start at a keyframe, the
decoder (external: a frame may belong to an earlier unit), and the frame on its way through the
filter to the window. The pointer to the window is loaded in one step (`LoadSink`) and used in
the next (`DeliverFrame`); the window may detach in between, and the frame then goes to a window
that has left.

`old`, `carried`, `shown`, `fed`, `whole`, `seen`, `late`, the marks in the ring and on the unit
are history: whether what the decoder holds began before the last arming (the store of
`resetPending`), and whether it began before the window was attached; what a window was given
since the last arming (a frame of the old picture, of the new one, or a frame of the old picture
behind another); whether the decoder has seen all units since a keyframe; whether the attached
window was given a frame; and which blocks are from before the ring was last cleared. An arming
marks the unit that is on its way at the time too.

### WhepSession

Everything happens on the GUI thread, in handlers of posted events: `events` is its queue, in
order. A handler is one step (`BeginNegotiation`, `OnLocalDescriptionReady`, `OnPost`,
`OnState`, `OnDeleteClient`, `OnDeleteSource`); the network and the peer connection only post
(`OptionsEnd`, `PostEnds`, `Gathers`, `Connects`, `Disconnects`, `GivesUp`). `setState()` on
the GUI thread is delivered at once (`Set`), on a thread of the peer connection it is posted
(`Reports`). A peer connection that is closed may say so at once, later or not at all
(`Goodbyes`), as the library does not promise which.

A client that was replaced lives until its deletion is handled, and its slots stay connected
until then, so that its late reply is handled by the next run: that is the difficulty, and the
model keeps it. It shows some things no statement of the repository excludes:

- a late OPTIONS reply makes a second peer connection, and the answer to the offer of the one
  is applied to the other; the offer may then be posted before ICE of its own peer connection has
  gathered, against the flow described in `whepclient.h` (lines 25-28);
- three overlapping retries and a stop make `onLocalDescriptionReady()` follow a null `m_whep`
  (`OffersToNobody`);
- a stop while the POST is pending makes `~WhepClient` abort it, and the stopped pipeline
  reports Failed and an error after Idle, to an engine that has dropped it by then;
- a peer connection that recovers after Failed runs on until the timer, which nobody stops,
  restarts it;
- neither request has a timeout, so a server that never answers leaves the stream Connecting.

`StreamPipeline` has the source as the pipeline sees it, and the queue, worker and sinks;
`WhepSession` has the pipeline's timer and slot only.

`ImplementsClientPool` maps a stream to `ClientPool`, which knows no requests, replies or queue:
the client in use is `whep`, and a client is given up (`GivenUp`) while it exists and is not that
one. A start or a retry takes a free client into use, a stop releases it, `OnDeleteClient` deletes
one that was given up, and `OnDeleteSource` ends the source, which the pool allows only when none
is left; every other step stutters. A crash (`OffersToNobody`) comes after a stop, and stutters
too: it leaves clients for ever, so the pool promises no progress.

### MediaMtx

`servers` is the list as the program has it, with the passwords of the session, which a reload
keeps under the names of their servers, and `file` is the list as it is stored. `Fetch` is `refresh()` and
`testConnection()`, the worker is a thread that answers one request at a time
(`GetPaths` page by page, `GetConfigured`, `GetGlobal`) with a timeout each, and its answer is a
queued call (`FetchSucceeds`, `FetchFails`). Edits of the list, their effect on the file and on
positions, and the reload are actions, as are adding a listed path as a stream
(`AddMediaMtxStream`, the whole of `addMediaMtxStream()`) and `Quit`, the join of the worker.

A fetch remembers its server by position, and so do the rows, by way of the current server.
`asked` is history: the list is still the one the request under way was made from. `listedAt` is
the position the rows were made of, 0 once the list was edited or read again, during the request
or after it. `SettledRowsReachTheirServer` says what holds while it is not 0 and the current
server is the one at that position: other servers may have been tested in between, and the same
one tested again. What does not hold is stated beside it: with the
current server moved by a test, SRT endpoints are those of the server tested
(`SrtEndpointsReachTheirServer`), and after an edit between request and answer the URLs of the
rows are another server's (`UrlsReachTheirServer`).

Also in the model and in no statement of the repository: a reload gives a password to a new
server of the same name; ports that were detected "without touching the stored file"
(`mediamtxmodel.h` lines 87-90) are stored by a later save of the list; and when the configured
paths cannot be fetched, no path counts as protected.

## Runs

| Run | What it shows |
|---|---|
| `queue` | the queue is a drop-oldest channel; no wakeup is lost; `stop()` releases the worker |
| `pipeline` | sessions begin decodable and are cut at announced restarts; the joins wait for threads that end; a failed WHEP or SRT stream leaves Retrying; `stop()` returns |
| `pipeline_stuck` | *violated*: every failed stream reconnects (user documentation) |
| `ytdlp` | retries keep the playhead and their budget; units of two sections reach the consumer with an announcement between them, a pipe sought back to zero excepted; each run settles, a seek is taken up, `stop()` returns |
| `ytdlp_rewind` | *violated*: a reconnect restarts at the playhead, whatever failed in between (comments) |
| `controller` | no pipeline runs with old settings; what is stopped looks stopped; no window holds a dead preview; the rows catch up with the pipelines |
| `rtsp` | players come, go and fail while units are written: no pointer or muxer outlives its client; what a player is sent starts at a keyframe, has no gap and ends with its session |
| `timestamps` | across wraps, sessions and late players each sink counts what the feed counts; the decode times of the transport stream advance even when the feed goes back |
| `timestamps_zero` | *violated*: audio and video of a transport stream share a zero (comment) |
| `preview` | the decoder sees whole groups of pictures; of the picture before an arming at most the one frame on its way is shown after it; at most one block of old sound is heard; a window told of a frame has one; viewers that stay shown show frames, and those that stay hidden give up their decoder |
| `whep` | nothing of a stopped stream survives its cleaning up, whatever was posted; the source takes, gives up and deletes clients as `ClientPool` says; a failed source is started again |
| `mediamtx` | while the list is left alone, from the request on, rows and endpoints stand for the server that listed them whenever that one is current; no protected path is added without credentials; every fetch ends; the program can be closed |

A run checks what nothing else establishes. Invariants that are proved for every value of the
constants need no run of their own: `BacklogIsNewest`, `Accounting`, `WorkerOwnsSinks`,
`StoppedIsQuiet`, `CleanMeansSaved`, `StartsWithCurrentPassword`, `ClosedIsEmpty`,
`OnePlayerPerSession`, and the type invariants of the queue, the controller, the RTSP
sink and the WHEP stream are theorems only (see Proofs).

### Bounds, and why they are enough

- `queue`: two producers (the video and the audio callback), a backlog of two and six
  pushes. The backlog overflows several times, with either producer notifying late; both
  the capacity and the number of pushes are arbitrary in the proofs.
- `pipeline`: the three kinds of source in one run, one sink, a backlog of one, two units
  of four kinds (parameter sets, a keyframe with and without them, audio), two failures or
  restarts. Two failures are what it takes for a reset to meet another that is still pending,
  or a leftover of a run before the last; two units overflow the backlog. What can hang is the
  waiting of the three threads for one another, which does not depend on the number of units,
  and the safety properties are proved without these bounds.
- `ytdlp`: every kind of video (live or not, of known length or not, converted or not), a
  length of two steps with the resume floor at one, one retry in place. Two steps are what it
  takes for a playhead, an earlier and a later position to differ; one retry is spent and
  renewed. The number of failures, requests and runs is not bounded at all. The margin of
  5 s before the end is taken as zero; the proofs have lengths, floor, margin and budget
  arbitrary. `ytdlp_rewind` has the same constants.
- `rtsp`: two connections and three client objects, so that one session can have an old and a
  new client while another is served; three units, so that a client can be held, started,
  and killed in different writes. One endpoint, because the properties of this run do not
  look at it. The safety properties are proved
  without these bounds. Connections are not used again and objects are not allocated again,
  so once both are spent the sink only opens, writes and closes: three objects are enough for
  a session that sets up twice beside another one.
- `controller`: a WHEP and another stream, two documents (one that fits together, one with
  a clash), two endpoints, one password to enter and one stored, one edit and two launches.
  An edit of a running stream launches twice, which is the longest dependency there is
  between an edit and the pipelines; loads, saves, stops, passwords, samples and windows
  are not bounded.
- `timestamps`: clocks that wrap after eight ticks on a timeline of eighteen, so that the video
  wraps twice and the audio once, with feeds that begin before and after a wrap, presentation
  after decode by one tick, and one packet without its times or one loop per run. The sinks
  are open alone or with one they differ from; they share nothing, and an action writes all
  that are open. `SinksFollowFeed` is proved for every `Wrap`, 2^32 among them.
- `preview`: a ring of three blocks, which overflows, and no bound on units, attachments,
  mutes, resets or failures of the decoder. The invariants are proved for every ring.
- `whep`: three clients at a time and four refusals or breaks. Three is what it takes for
  replies of two earlier runs to meet a third, and a retry that finds no free client waits for a
  deletion. Every retry costs a fault, so there are up to four retries in a stream.
- `mediamtx`: two servers, one edit of the list, one page beyond the first and one stream
  added. One edit between a request and its answer is enough to move a position; which edit,
  and when, is free.

The counters that bound a model (`MaxPushes`, `MaxUnits`, `MaxDisruptions`, `MaxEdits`,
`MaxLaunches`, `MaxTime`, `MaxFaults`, `MaxPages`, `MaxAdded`) occur as guards of the steps they count.

### Fairness

- A thread that is runnable runs (`WF` on the notifier's next step, on the worker's, on the
  steps of `stop()` once it has begun). Producers need not push, and wakes without a reason
  need not happen.
- The event loop serves queued signals and timers (`WF` on `DeliverState \/ DeliverCodec`,
  `TimerFires`, `RestartSource`).
- A source thread begins its run and notices a stop request: both blocking calls have an
  interrupt callback or a timeout. A peer need not connect, a feed need neither deliver nor
  fail, the user need not stop anything.
- `YtdlpSource`: the worker takes its next step, since its waits have a bound (10 s socket
  timeouts, the stall budgets of the pipe, 20 s for a probe) or poll the requests. One wait
  has none, and is excepted (`StallClockStopped`): a read of the pipe while the stream is
  paused, whose stall clock stands still. `stop()` and the requests return once their
  turn comes. The user need not do anything.
- `StreamPreview`: the worker finishes the unit it has; the user interface finishes an
  operation it has begun. That a feed goes on delivering keyframes, and that of all it decodes
  something comes out, is strong fairness of the feed and the decoder, and needed for
  `ViewerFollowsWindow` only.
- `WhepSession`: the event loop handles what is posted, and the reconnect timer fires. The
  server need not answer and the peer need not connect.
- `MediaMtx`: the worker goes on, since each request has a timeout, and the event loop
  handles its answer. The user need not do anything.
- The statistics timer fires while it is armed. No user operation is fair.

### Where the code and its words disagree

Checked by a run:

- `pipeline_stuck`: a YouTube run that cannot find its program reports Failed without
  Connecting first. The second time the state does not change, so nothing is emitted and
  nothing reconnects.
- `ytdlp_rewind`: a generation breaks off, its retry in place cannot be opened, and the run
  ends as Failed. A position to resume at is stored only after a generation that delivered, so
  that the next run finds none and replays the video from the start.
- `timestamps_zero`: the audio of a transport stream is rebased on the base of the video, but
  each clock is unwrapped from where it was first seen. A session that opens when one of them
  has wrapped and the other has not has audio and video a whole range apart.

Stated in a module, refuted by TLC when they are added to a run, and not checked:

- `OneRunPerSession` (`StreamPipeline`): after a disconnect the sinks are to be closed and a
  receiver to see a clean restart (user documentation). The reset is consumed by the first
  unit popped, which may be a leftover of the failed run; a leftover keyframe opens a session
  that the new run then continues.
- `SeekIsNoFeedError` (`YtdlpSource`): a seek during the open of a yt-dlp child ends that open
  with an error. The direct path is protected against just this.
- `MediaGoWhereSetUp` (`RtspSink`): a second SETUP changes the endpoint of the session's
  client, but a client that is being served keeps the muxer it has, and the media go on to the
  old port.
- `SeekAnnounced` (`YtdlpSource`): a seek is to be announced like a reconnect
  (`ytdlpsource.cpp:1031-1032`). A generation is announced only when it begins beyond zero, so a
  seek of the pipe back to zero is not, and its units follow those of the section before in the
  same session of the sinks.
- `NeverSkipsAhead` (`YtdlpSource`): a retry is to start at the playhead
  (`ytdlpsource.cpp:722-723`). It starts at the later of the playhead and the position at which
  the generation was opened, which a seek that is served in place does not move. A generation
  that was opened by a retry, sought back and broken off is taken up beyond its playhead.
- `FirstFrameIsKeyframe` (`StreamPreview`): the first frame shown after attaching is to be a
  keyframe (`streampreview.cpp:211-212`). `setActive()` lets the worker in before it asks for the
  reset, so that a unit may be decoded, and shown, in the session of the attachment before.
- `SrtEndpointsReachTheirServer` (`MediaMtx`): the endpoint of a row is to be at the server of
  its path (`mediamtxmodel.h:196-198`). A successful test makes the server tested the current
  one, under the rows of another.
- `UrlsReachTheirServer` (`MediaMtx`): the URL of a row is to be on the server that lists the
  path. A request remembers its server as a position, and the answer is taken for that of the
  server that is at the position by then.

Found by reading, with no model: the class comment of the queue says that drops are taken back
to a keyframe "where possible", and `push()` drops the oldest unit, whatever it is; streams
that are started with the program, or from their row, are not validated, which a comment
in the code says is meant and the user documentation denies; the suggestion of an endpoint
formats the audio port as a field width (`bridgeconfig.cpp:704`).

## Proofs

TLAPS checks the theorems for every value of the constants allowed by
`QueueAssumption`, `PipelineAssumption`, `SourceAssumption`, `RtspAssumption`,
`SinkTimestampsAssumption`, `StreamPreviewAssumption`, `ControllerAssumption`,
`MediaMtxAssumption` and `WhepAssumption`
(capacities, lengths and delays positive, the delays in order as `StreamConfig::fromJson` clamps them, marks for "none"
that no stream, password, client or peer connection uses, a file of servers no longer than the
bound of the list).

`MediaQueueProofs`. *Contents* (`TypeOK`, `BacklogIsNewest`, `Accounting`) is inductive as a
whole: the accounting of a dropping push needs the backlog's numbers, and these need its
type. `NoLostWakeup` is not inductive alone: a worker that finds the stop flag set must
know where `stop()` is, so it is proved with *StoppedPhase* (the flag is set exactly from the
notification on). `QueueRefinesChannel` maps each step under *Contents*.

`StreamPipelineProofs`.

- `TypeCorrect` and `SinksBelongToWorker` go by the actions. The latter needs *UntouchedBeforeStart*:
  before `start()` nothing of the pipeline has been used.
- `SessionsDecodable`: `SessionOpensDecodable` needs that a closed session is empty (*ClosedIsEmpty*).
- `SessionsEndAtRestart`: *ErasBehind* (no unit is of an era not yet announced) and
  *SessionCurrent* (if the session was opened in an earlier era, a flag is set, or the worker
  has taken one and not yet reset) carry `NoSessionOutlivesReset` over the worker's steps.
- `QuietAfterStop`: *StopOrder* says what each phase of `stop()` has already put to rest.
- `JoinsOnlyEndedThreads`: *OneFailure* says that a failure reported by a thread is its last
  word, so at most one is queued and the thread has ended while one is; only a delivered
  failure arms the timer.

`YtdlpSourceProofs`. `TypeCorrect` goes by the actions, in three parts: flags, places and
numbers. `RestartsAnnounced` is not inductive: that a section begins with an announcement
pending is decided before it is opened, by a retry, or by a position beyond zero that the open
will announce. *AnnouncedInRun* follows what the consumer was handed through the run: nothing
before the first generation; while the next one is chosen, probed for and opened, in any number
of attempts, an announcement is pending or the start is beyond zero; and inside a generation,
video of the current section means that this generation has delivered, so that its end is a
retry that announces, a seek, a fallback that is not taken, or the end of the run.
`RetriesNeverRewind` rests on
*PlayheadCarried*, which says where the kept playhead is: in `position` while a generation
runs, in `startSec` throughout the run, in `pendingResume` from the end of the run to the
generations of the next. It needs *LivenessKnown* (past its probe a run knows whether the video
is live, and a live one has no playhead to keep) and *StopIsCalled* (a run that sees the flag
of `stop()` is being stopped, which forgets the playhead).

`RtspSinkProofs`. All safety properties of the module that hold are proved from one invariant, *Inv*.
*Phases* says what the place of the worker implies: pointers are held only while serving, so
that reaping and clearing cannot leave one dangling. `NothingAfterTeardown` needs
*SentCollected*: a client killed while the worker holds its pointer was killed after the
collection. The two properties of what a player is sent are stated between writes;
*PlaysOffered* and *HeldOffered* extend them into a write, counting for each client the units
it has been offered (*Offered*).

`BridgeControllerProofs`. The engine's methods are operators, so there are lemmas on what
`StopPipelines`, `SetConfig`, `SetPasswords` and `Launch` return and on what they keep of
*Good*: the engine is typed, tidy (`StoppedLooksStopped`), its windows are attached
(`NoDanglingViewer`), its pipelines match a document (`RunsCurrentSettings`) and are
numbered. *RestartGood* is the one lemma on every way of launching: document, passwords,
launch. The invariant *Inv* is *Good* for the current document, and each operation is an
instance of these lemmas. `PasswordsCurrent`, an action property, needs *Inv* to know that
no older pipeline has a new number, and that a stream added from a server was not running.

`StreamPreviewProofs`. The type invariant is in four parts, one for each kind of state.
`WholeRuns` says of each place of the worker what the flags it has already read imply.
`OldPicture` needs two facts about an arming (*ArmingHolds*): as long as the decoder holds the
old picture, the reset is pending or the gate is up; and a frame of the old picture is on its way
only while nothing was shown since. `OldAudio` is about the ring between two accesses, and
`FramesSeen` about the window between two operations.

`SinkTimestampsProofs`. First the arithmetic of one clock: a clock that last saw time x and now
sees y, less than half of `Wrap` away on either side, moves by y - x (`UnwrapFollows`, from
division with remainder and that only -1, 0 and 1 turns fit in between). The types are not
inductive by themselves: that a base is never negative needs that it is taken together with
the first unit, and that the video of the transport stream advances (`DecodeTimesAdvance`)
needs that its guard compares with what was handed on; `TypeInv` has both. `FollowInv` then
says what every member of an open sink is in terms of the position of the feed and of the
start of the session; it is proved one sink and one kind of unit at a time, and
`SinksFollow` reads the property off it. Assumed is `SinkTimestampsAssumption`: a step of the
feed, reordering included, is shorter than half a wrap, and presentation is less than a wrap
after decoding.

`ClientProofs` covers the two clients of an HTTP server in one module, because both drop
elements of a list, and what is left of it is defined by recursion; `WhepSession` names its
specification `WhepInit`, `WhepNext`, `WhepSpec` and `WhepTypeOK` so that both can be extended.

- `WithoutKeepsTheRest`: what `Without` leaves is a sequence whose elements are those outside the
  set, in order, none twice and none missing. This needs induction over the length, and the
  library's induction theorems take a predicate as a parameter, which the provers do not
  instantiate. *SetInduction* takes a set of numbers instead, and follows from the library's
  theorem that a non-empty subset of a well-founded set has a minimal element.
- `MediaMtx`: `SettledRowsReachTheirServer` speaks of the rows, which come out of an answer, which
  comes out of requests to a host, and of the current server, which tests move to and fro. It is
  therefore proved of the server at the position the rows were made of, current or not
  (*RowsStandForListed*), together with that a request made since was made from the same list:
  what a test detects goes into the server it was made for. *MtxInv* says of the request under
  way, and of the answer on its way, that they are for the server in `pending` as long as the list is the one
  the request was made from (*RequestsMeetTheirServer*) and have a host to ask
  (*RequestsAskAHost*), and that a file that is reloaded is within the bound on the list
  (*FileFits*).
- `WhepSession`: `NothingSurvivesStop` says that a cleaned up stream has no client left. That is
  a statement about the queue of events: *InOrder* says that a client that is not the source's
  own has its deletion posted, exactly once and in front of the deletion of the source; that the
  source's own has none; and that what else is posted for a client meets one that exists. The lemmas on
  *InOrder* say how each way of posting, handling or dropping an event keeps it; dropping is one
  lemma, *QueueThins*, on any order-preserving selection of the queue. The rest of *WhepInv* ties
  the clients to the life of the pipeline: it runs exactly while its source has a client.
  `EveryClientGoes` states *InOrder* as a theorem of its own, and `WhepTypeCorrect` has in its
  type invariant that the source's client is not one that has been deleted.
  `SourceImplementsPool` is the refinement: *WhepStep* shows of each action that it keeps *WhepInv*
  and is a step of the pool or none, and it is *InOrder* that makes the deletions of the queue
  deletions of the pool.

Every invariant and every action property of a run is stated by a theorem. Only model-checked is
liveness (`StopReleasesWorker`, `StopReturns`, `FailedStreamReconnects`,
`RunSettles`, `SeekServed`, `StopCompletes`, `RowsCatchUp`, `ViewerFollowsWindow`,
`FailedSourceRestarts`, `FetchEnds`, `QuitCompletes`), which TLAPS cannot derive under fairness
because it does not handle `ENABLED`. Nothing is defined by `RECURSIVE`.

## Not modelled, and what could follow

Not modelled, with the reasons in `PROJECT.json`: JSON of the document and its other rules of
validation, the suggestion of endpoints, command lines and texts of yt-dlp, the YouTube audio
transcoder, SDP and SAP texts, parsing of NAL units, Link headers and Opus packets, decoders,
filters and the NDI runtime as libraries, the fields of the draft and the startup settings, the
credential store of the system, QML layout, the build.

What could follow, in this order:

1. `BridgeConfig`: validation, defaults and the suggestion of endpoints as functions, against
   their comments.
2. A composition of `YtdlpSource` with the pipeline, in the place of the four actions that
   stand for it in `StreamPipeline`; the same of `WhepSession`.
3. Abstract specifications: a player (playing, paused, at a position) that `YtdlpSource`
   implements, and a stream that is idle, trying or running, which the pipeline implements
   for the engine.
