-------------------------- MODULE BridgeController --------------------------
(***************************************************************************)
(* BridgeController and BridgeEngine (bridgecontroller.cpp,                *)
(* core/bridgeengine.cpp): the document being edited, the pipelines made   *)
(* from it, and what the user sees of them.  Everything here runs on the   *)
(* GUI thread, so each operation is one step; what can go wrong is a long  *)
(* sequence of legal operations that leaves the document, the engine's     *)
(* copy of it, the running pipelines, their counters and the viewer        *)
(* windows disagreeing with one another.                                   *)
(*                                                                         *)
(* The engine's methods are operators from engine state to engine state,   *)
(* so that a controller operation reads as the sequence of calls it makes. *)
(* The signals they emit run their slots at once: a state change makes the *)
(* list of streams re-read the counters, and Idle closes the stream's      *)
(* viewer window.                                                          *)
(*                                                                         *)
(* Of a stream's settings the model keeps whether it is enabled and the    *)
(* multicast endpoint of its enabled sink.  A document has each id once,   *)
(* and is one that loading leaves as it is: ids that a hand-written file   *)
(* omits, and values out of range, are not modelled.                       *)
(***************************************************************************)
EXTENDS Naturals, FiniteSets

CONSTANTS Ids,             \* stream ids
          WhepIds,         \* the ids whose source is WHEP
          Endpoints,       \* multicast endpoints
          Passwords,       \* passwords a user may enter
          StoredPassword,  \* id -> the entry of the credential manager, or NoPassword
          Documents,       \* documents that may be on disk when the program starts
          MaxEdits,        \* bound on the changes made to the document
          MaxLaunches      \* bound on the calls that launch pipelines

NoSink == "no enabled sink"
NoPassword == "no password"
Absent == [enabled |-> FALSE, endpoint |-> "absent"]
NoPipeline == [endpoint |-> NoSink, password |-> NoPassword, launch |-> 0, state |-> "none"]
Nothing == "nothing sampled"

\* What a pipeline may be given.
Credentials == Passwords \cup {NoPassword} \cup {StoredPassword[id] : id \in Ids}

Stream == [enabled : BOOLEAN, endpoint : Endpoints \cup {NoSink}]
Document == [Ids -> Stream \cup {Absent}]
EmptyDocument == [id \in Ids |-> Absent]

ASSUME ControllerAssumption ==
    /\ WhepIds \subseteq Ids
    /\ "absent" \notin Endpoints /\ NoSink \notin Endpoints
    /\ NoPassword \notin Passwords
    /\ DOMAIN StoredPassword = Ids
    /\ Documents \subseteq Document
    /\ MaxEdits \in Nat /\ MaxLaunches \in Nat

VARIABLES
    phase,      \* "starting" until loadStartupConfig() has run
    config,     \* m_config, the document being edited
    saved,      \* the document on disk
    opened,     \* m_configPath names it
    dirty,      \* m_dirty
    session,    \* m_streamPasswords of the controller
    engine,     \* the engine and what its signals reach, see Engine
    edits,      \* changes made to the document so far
    launches    \* calls that launched pipelines so far

docVars == <<config, saved, opened, dirty>>
vars == <<phase, docVars, session, engine, edits, launches>>

States == {"Idle", "Connecting", "Running", "Retrying", "Failed"}
Pipeline == [endpoint : Endpoints \cup {NoSink}, password : Credentials,
             launch : 1 .. MaxLaunches, state : States]

\* config, passwords, pipelines, stats and timer are members of BridgeEngine.  shown is
\* the state each row of the stream list displays, open are the streams with a viewer
\* window, and previews the launch number of the pipeline whose preview the window holds.
Engine == [config : Document,
           passwords : [Ids -> Credentials],
           pipelines : [Ids -> Pipeline \cup {NoPipeline}],
           stats : [Ids -> States \cup {Nothing}],
           timer : BOOLEAN,
           shown : [Ids -> States],
           open : SUBSET Ids,
           previews : [Ids -> 0 .. MaxLaunches]]

Live(e) == {id \in Ids : e.pipelines[id] # NoPipeline}

Init ==
    /\ phase = "starting"
    /\ config = EmptyDocument
    /\ saved \in Documents
    /\ opened = FALSE
    /\ dirty = FALSE
    /\ session = [id \in Ids |-> NoPassword]
    /\ engine = [config |-> EmptyDocument,
                 passwords |-> [id \in Ids |-> NoPassword],
                 pipelines |-> [id \in Ids |-> NoPipeline],
                 stats |-> [id \in Ids |-> Nothing],
                 timer |-> FALSE,
                 shown |-> [id \in Ids |-> "Idle"],
                 open |-> {},
                 previews |-> [id \in Ids |-> 0]]
    /\ edits = 0
    /\ launches = 0

-----------------------------------------------------------------------------
(* The engine *)

\* A row without counters shows the default state.
Display(stats) == [id \in Ids |-> IF stats[id] = Nothing THEN "Idle" ELSE stats[id]]

\* The slots of streamStateChanged, for streams that have become Idle.
Idled(e, ids) ==
    [e EXCEPT !.shown = Display(e.stats),
              !.open = @ \ ids,
              !.previews = [id \in Ids |-> IF id \in ids THEN 0 ELSE @[id]]]

\* Mutant: only pipeline->stop() tells that the stream is idle.  A pipeline without a
\* usable sink has never run, and its stop() returns at once.
AnnouncedByPipeline(e, ids) == {id \in ids : e.pipelines[id].endpoint # NoSink}

\* The streams whose Idle is emitted when they are stopped.
Announced(e, ids) == ids

\* Mutant: the counters are dropped after the Idle emission.
StopPipelinesLate(e, ids) ==
    LET live == ids \cap Live(e)
        gone == Idled([e EXCEPT !.pipelines =
                          [id \in Ids |-> IF id \in live THEN NoPipeline ELSE @[id]]], live)
    IN  [gone EXCEPT
            !.stats = [id \in Ids |-> IF id \in live THEN Nothing ELSE @[id]],
            !.timer = @ /\ Live(gone) # {}]

\* stopStream() of each of ids: the counters go first, so that the slots of the Idle
\* emission re-read a clean state; the last one stops the statistics timer.
StopPipelines(e, ids) ==
    LET live == ids \cap Live(e)
        gone == [e EXCEPT
                    !.stats = [id \in Ids |-> IF id \in live THEN Nothing ELSE @[id]],
                    !.pipelines = [id \in Ids |-> IF id \in live THEN NoPipeline ELSE @[id]]]
    IN  IF live = {} THEN e
        ELSE [Idled(gone, Announced(e, live)) EXCEPT !.timer = @ /\ Live(gone) # {}]

StopEverything(e) == StopPipelines(e, Ids)

SetConfig(e, document) ==
    [StopEverything(e) EXCEPT !.config = document,
                              !.stats = [id \in Ids |-> Nothing]]

SetPasswords(e, passwords) == [e EXCEPT !.passwords = passwords]

\* What a pipeline reports before start() returns: Failed without a usable sink, and
\* Connecting from a WHEP source, which begins on this thread.
FirstState(id, stream) ==
    IF stream.endpoint = NoSink THEN "Failed"
    ELSE IF id \in WhepIds THEN "Connecting" ELSE "Idle"

\* Mutant: only startAll() starts the statistics timer.
SamplingAfterLaunchOfAll(e, ids) == e.timer \/ Cardinality(ids) > 1

SamplingAfterLaunch(e, ids) == e.timer \/ ids # {}

\* startStream() of each of ids, from the engine's own copy of the document.
Launch(e, ids) ==
    LET new == {id \in ids : id \notin Live(e) /\ e.config[id] # Absent}
    IN  [e EXCEPT
            !.pipelines = [id \in Ids |->
                IF id \in new
                THEN [endpoint |-> e.config[id].endpoint, password |-> e.passwords[id],
                      launch |-> launches + 1, state |-> FirstState(id, e.config[id])]
                ELSE @[id]],
            !.timer = SamplingAfterLaunch(e, new)]

-----------------------------------------------------------------------------
(* The controller: helpers *)

HasProblem(document, id) ==
    \/ document[id].enabled /\ document[id].endpoint = NoSink
    \/ \E other \in Ids \ {id} :
          document[other] # Absent /\ document[id].endpoint # NoSink
          /\ document[other].endpoint = document[id].endpoint

\* validate()
Problems(document) == {id \in Ids : document[id] # Absent /\ HasProblem(document, id)}

Enabled(document) == {id \in Ids : document[id].enabled}

\* A password entered for this session wins over the stored one, which is looked up by
\* the user name and the URL of the stream and so needs its entry in the document.
Resolved(document, entered, id) ==
    IF entered[id] # NoPassword THEN entered[id]
    ELSE IF document[id] = Absent THEN NoPassword ELSE StoredPassword[id]

\* applyStreamPasswords(): every stream of the document.
Applied(e) ==
    [id \in Ids |-> IF config[id] = Absent THEN e.passwords[id]
                                           ELSE Resolved(config, session, id)]

OnePassword(e, document, entered, id) ==
    [e.passwords EXCEPT ![id] = Resolved(document, entered, id)]

Ready == phase = "ready"
CanLaunch == launches < MaxLaunches
CanEdit == edits < MaxEdits

-----------------------------------------------------------------------------
(* The controller: loading and saving *)

\* loadStartupConfig(): nothing to load, or a document and then startStreamsOnLoad() for
\* the enabled streams flagged to start.  The document is not validated.
StartUpEmpty ==
    /\ phase = "starting"
    /\ phase' = "ready"
    /\ UNCHANGED <<docVars, session, engine, edits, launches>>

StartUpLoaded ==
    /\ phase = "starting"
    /\ CanLaunch
    /\ phase' = "ready"
    /\ config' = saved
    /\ opened' = TRUE
    /\ \E flagged \in SUBSET Ids :
          LET set == SetConfig(engine, saved)
              passwords == [id \in Ids |-> Resolved(saved, session, id)]
          IN  engine' = Launch(SetPasswords(set, passwords), flagged \cap Enabled(saved))
    /\ launches' = launches + 1
    /\ UNCHANGED <<saved, dirty, session, edits>>

NewConfig ==
    /\ Ready
    /\ config' = EmptyDocument
    /\ opened' = FALSE
    /\ dirty' = FALSE
    /\ engine' = SetConfig(engine, EmptyDocument)
    /\ UNCHANGED <<phase, saved, session, edits, launches>>

LoadConfig ==
    /\ Ready
    /\ config' = saved
    /\ opened' = TRUE
    /\ dirty' = FALSE
    /\ engine' = SetConfig(engine, saved)
    /\ UNCHANGED <<phase, saved, session, edits, launches>>

\* A failed save changes nothing: QSaveFile replaces the file only on commit.
SaveConfig ==
    /\ Ready
    /\ saved' = config
    /\ opened' = TRUE
    /\ dirty' = FALSE
    /\ UNCHANGED <<phase, config, session, engine, edits, launches>>

-----------------------------------------------------------------------------
(* The controller: starting and stopping *)

StartAll ==
    /\ Ready /\ CanLaunch
    /\ Problems(config) = {}
    /\ LET set == SetConfig(engine, config)
       IN  engine' = Launch(SetPasswords(set, Applied(set)), Enabled(config))
    /\ launches' = launches + 1
    /\ UNCHANGED <<phase, docVars, session, edits>>

StopAll ==
    /\ Ready
    /\ engine' = StopEverything(engine)
    /\ UNCHANGED <<phase, docVars, session, edits, launches>>

\* setConfig() stops every running stream, not only this one.  A stale password of a
\* stream that has no entry is dropped.
StartStream(id) ==
    /\ Ready /\ CanLaunch
    /\ LET set == SetConfig(engine, config)
           passwords == IF config[id] = Absent
                        THEN [set.passwords EXCEPT ![id] = NoPassword]
                        ELSE OnePassword(set, config, session, id)
       IN  engine' = Launch(SetPasswords(set, passwords), {id})
    /\ launches' = launches + 1
    /\ UNCHANGED <<phase, docVars, session, edits>>

StopStream(id) ==
    /\ Ready
    /\ engine' = StopPipelines(engine, {id})
    /\ UNCHANGED <<phase, docVars, session, edits, launches>>

-----------------------------------------------------------------------------
(* The controller: editing *)

Edited ==
    /\ Ready /\ CanEdit
    /\ edits' = edits + 1
    /\ dirty' = TRUE
    /\ UNCHANGED <<phase, saved, opened>>

\* Mutant: a running stream is left alone when its entry is replaced.
StoppedForEditNever(id) == engine

\* commitEdit() stops the stream whose entry it replaces.
StoppedForEdit(id) ==
    IF config[id] # Absent THEN StopPipelines(engine, {id}) ELSE engine

\* commitEdit(): the draft becomes the entry, new or not, of its id.  A stream that was
\* running is started again when it is still enabled, and only that one.
CommitEdit(id, stream) ==
    /\ LET document == [config EXCEPT ![id] = stream]
           restart == id \in Live(engine) /\ stream.enabled
           set == SetConfig(StoppedForEdit(id), document)
       IN  /\ ~HasProblem(document, id)
           /\ config' = document
           /\ restart => CanLaunch
           /\ engine' = IF restart
                        THEN Launch(SetPasswords(set, OnePassword(set, document, session, id)),
                                    {id})
                        ELSE StoppedForEdit(id)
           /\ launches' = IF restart THEN launches + 1 ELSE launches
    /\ Edited

ChangeStream(id, stream) == CommitEdit(id, stream) /\ UNCHANGED session

\* addMediaMtxStream(): the server's password is entered for the new stream, in the
\* controller only.
AddMediaMtxStream(id, stream, password) ==
    /\ config[id] = Absent
    /\ CommitEdit(id, stream)
    /\ session' = [session EXCEPT ![id] = password]

RemoveStream(id) ==
    /\ config[id] # Absent
    /\ config' = [config EXCEPT ![id] = Absent]
    /\ session' = [session EXCEPT ![id] = NoPassword]
    /\ engine' = StopPipelines(engine, {id})
    /\ Edited
    /\ UNCHANGED launches

SetStreamEnabled(id, enabled) ==
    /\ config[id] # Absent
    /\ config' = [config EXCEPT ![id].enabled = enabled]
    /\ engine' = IF enabled THEN engine ELSE StopPipelines(engine, {id})
    /\ Edited
    /\ UNCHANGED <<session, launches>>

SetStreamPassword(id, password) ==
    /\ Ready
    /\ session' = [session EXCEPT ![id] = password]
    /\ engine' = SetPasswords(engine, OnePassword(engine, config, session', id))
    /\ UNCHANGED <<phase, docVars, edits, launches>>

-----------------------------------------------------------------------------
(* What the pipelines, the timer and the viewer windows do in between *)

\* The states a running pipeline reports; a WHEP source that is restarted is stopped
\* first and reports Idle on the way to Connecting.
Successors(id, state) ==
    CASE state = "Idle"       -> {"Connecting"}
      [] state = "Connecting" -> {"Running", "Retrying"}
      [] state = "Running"    -> {"Retrying"}
      [] state = "Retrying"   -> IF id \in WhepIds THEN {"Running"} ELSE {"Connecting"}
      [] state = "Failed"     -> {}

PipelineReports(id) ==
    /\ id \in Live(engine)
    /\ \E s \in Successors(id, engine.pipelines[id].state) :
          engine' = Idled([engine EXCEPT !.pipelines[id].state = s], {})
    /\ UNCHANGED <<phase, docVars, session, edits, launches>>

WhepReconnects(id) ==
    /\ id \in Live(engine) \cap WhepIds
    /\ engine.pipelines[id].state = "Retrying"
    /\ engine' = Idled([engine EXCEPT !.pipelines[id].state = "Connecting"], {id})
    /\ UNCHANGED <<phase, docVars, session, edits, launches>>

SampleStats ==
    /\ engine.timer
    /\ LET stats == [id \in Ids |-> IF id \in Live(engine) THEN engine.pipelines[id].state
                                                           ELSE engine.stats[id]]
       IN  engine' = [engine EXCEPT !.stats = stats, !.shown = Display(stats)]
    /\ UNCHANGED <<phase, docVars, session, edits, launches>>

\* refresh() of a viewer window, when it is shown and once a second after that.
RefreshWindow(id) ==
    /\ Ready
    /\ id \in engine.open \/ config[id] # Absent
    /\ engine' = [engine EXCEPT !.open = @ \cup {id},
                                !.previews[id] = engine.pipelines[id].launch]
    /\ UNCHANGED <<phase, docVars, session, edits, launches>>

CloseWindow(id) ==
    /\ id \in engine.open
    /\ engine' = [engine EXCEPT !.open = @ \ {id}, !.previews[id] = 0]
    /\ UNCHANGED <<phase, docVars, session, edits, launches>>

-----------------------------------------------------------------------------
Operate(id) ==
    \/ StartStream(id) \/ StopStream(id) \/ RemoveStream(id)
    \/ \E stream \in Stream : ChangeStream(id, stream)
    \/ \E stream \in Stream, p \in Passwords : AddMediaMtxStream(id, stream, p)
    \/ \E enabled \in BOOLEAN : SetStreamEnabled(id, enabled)
    \/ \E p \in Passwords \cup {NoPassword} : SetStreamPassword(id, p)

Next ==
    \/ StartUpEmpty \/ StartUpLoaded
    \/ NewConfig \/ LoadConfig \/ SaveConfig \/ StartAll \/ StopAll
    \/ SampleStats
    \/ \E id \in Ids :
          \/ Operate(id)
          \/ PipelineReports(id) \/ WhepReconnects(id)
          \/ RefreshWindow(id) \/ CloseWindow(id)

\* The statistics timer fires while it is armed; nobody is obliged to do anything else.
Spec == Init /\ [][Next]_vars /\ WF_vars(SampleStats)

-----------------------------------------------------------------------------
\* The type invariant.
TypeOK ==
    /\ phase \in {"starting", "ready"}
    /\ config \in Document /\ saved \in Document
    /\ opened \in BOOLEAN /\ dirty \in BOOLEAN
    /\ session \in [Ids -> Passwords \cup {NoPassword}]
    /\ engine \in Engine
    /\ edits \in 0 .. MaxEdits /\ launches \in 0 .. MaxLaunches

\* A running pipeline has an entry in the document and runs with its current settings:
\* no edit, removal or load leaves an old pipeline behind (commitEdit, removeStream).
RunsCurrentSettings ==
    \A id \in Live(engine) :
        config[id] # Absent /\ engine.pipelines[id].endpoint = config[id].endpoint

\* A stream without a pipeline looks stopped: it keeps no counters, its row shows Idle,
\* and the statistics are sampled exactly while something runs (stopStream).
StoppedLooksStopped ==
    /\ \A id \in Ids \ Live(engine) : engine.stats[id] = Nothing /\ engine.shown[id] = "Idle"
    /\ engine.timer <=> Live(engine) # {}

\* "The preview object dies with its pipeline": a window never holds the preview of a
\* pipeline other than the one that runs now.
NoDanglingViewer ==
    \A id \in Ids : engine.previews[id] # 0 =>
        id \in engine.open /\ engine.previews[id] = engine.pipelines[id].launch

\* A document without unsaved changes is the one on disk.
CleanMeansSaved == opened /\ ~dirty => config = saved

\* Whatever operation launches a pipeline, the pipeline gets the password that applies
\* then: the one entered for this session if there is one, else the stored one.
StartsWithCurrentPassword ==
    [][\A id \in Ids : engine'.pipelines[id].launch > launches =>
           engine'.pipelines[id].password = Resolved(config, session, id)']_vars

\* The list keeps up with the engine: again and again every row shows the state its
\* pipeline is in, whatever the pipelines do between two samples.
RowsCatchUp ==
    []<>(\A id \in Live(engine) : engine.shown[id] = engine.pipelines[id].state)

=============================================================================
