----------------------- MODULE BridgeControllerProofs -----------------------
(***************************************************************************)
(* Safety of BridgeController for any streams, endpoints, passwords and    *)
(* documents, and any number of edits and launches.                        *)
(*                                                                         *)
(* The engine's methods are operators, so most of the work is in lemmas    *)
(* about StopPipelines and Launch: what they return, and that they keep    *)
(* the part of each invariant that speaks of the engine alone.  A step of  *)
(* the controller then composes them.                                      *)
(***************************************************************************)
EXTENDS BridgeController, TLAPS

\* The invariants that speak of the engine alone, for any engine.
Tidy(e) ==
    /\ \A id \in Ids \ Live(e) : e.stats[id] = Nothing /\ e.shown[id] = "Idle"
    /\ e.timer <=> Live(e) # {}

Attached(e) ==
    \A id \in Ids : e.previews[id] # 0 =>
        id \in e.open /\ e.previews[id] = e.pipelines[id].launch

\* Pipelines are numbered in the order they were launched.
Numbered(e, n) == \A id \in Ids : e.pipelines[id].launch <= n

\* What runs is what the document says.
Matches(e, document) ==
    \A id \in Live(e) :
        document[id] # Absent /\ e.pipelines[id].endpoint = document[id].endpoint

-----------------------------------------------------------------------------
(* The engine's methods *)

(* A pipeline of the engine is live exactly if it has a launch number. *)
LEMMA LiveHasLaunch ==
    ASSUME NEW e \in Engine, NEW id \in Ids
    PROVE  /\ id \in Live(e) => e.pipelines[id] \in Pipeline
           /\ id \in Live(e) <=> e.pipelines[id].launch # 0
  BY DEF Engine, Live, Pipeline, NoPipeline

(* The slots of an Idle emission: rows are re-read and windows closed. *)
LEMMA IdledReturns ==
    ASSUME NEW e \in Engine, NEW ids \in SUBSET Ids
    PROVE  /\ Idled(e, ids) \in Engine
           /\ Idled(e, ids).pipelines = e.pipelines
           /\ Idled(e, ids).config = e.config
           /\ Idled(e, ids).passwords = e.passwords
           /\ Idled(e, ids).stats = e.stats
           /\ Idled(e, ids).timer = e.timer
           /\ Idled(e, ids).shown = Display(e.stats)
           /\ Idled(e, ids).open = e.open \ ids
           /\ Idled(e, ids).previews =
                 [id \in Ids |-> IF id \in ids THEN 0 ELSE e.previews[id]]
<1>1. Display(e.stats) \in [Ids -> States]
  BY DEF Engine, Display, States
<1>2. [id \in Ids |-> IF id \in ids THEN 0 ELSE e.previews[id]] \in [Ids -> 0 .. MaxLaunches]
  BY ControllerAssumption DEF Engine, ControllerAssumption
<1> QED
  BY <1>1, <1>2 DEF Idled, Engine

(* stopStream() of some streams: these are gone, the others are as they were. *)
LEMMA StopReturns ==
    ASSUME NEW e \in Engine, NEW ids \in SUBSET Ids
    PROVE  LET s == StopPipelines(e, ids)
           IN  /\ s \in Engine
               /\ s.config = e.config /\ s.passwords = e.passwords
               /\ Live(s) = Live(e) \ ids
               /\ \A id \in Ids : s.pipelines[id] =
                      IF id \in ids THEN NoPipeline ELSE e.pipelines[id]
               /\ Tidy(e) => Tidy(s)
               /\ Attached(e) => Attached(s)
<1> DEFINE live == ids \cap Live(e)
           s == StopPipelines(e, ids)
<1>1. CASE live = {}
  BY <1>1 DEF StopPipelines, Live
<1>2. CASE live # {}
  <2> DEFINE gone == [e EXCEPT
                        !.stats = [id \in Ids |-> IF id \in live THEN Nothing ELSE @[id]],
                        !.pipelines = [id \in Ids |-> IF id \in live THEN NoPipeline ELSE @[id]]]
             told == Idled(gone, live)
  <2>1. gone \in Engine
    BY DEF Engine
  <2>2. /\ gone.config = e.config /\ gone.passwords = e.passwords
        /\ gone.previews = e.previews /\ gone.open = e.open /\ gone.timer = e.timer
        /\ gone.stats = [id \in Ids |-> IF id \in live THEN Nothing ELSE e.stats[id]]
        /\ gone.pipelines = [id \in Ids |-> IF id \in live THEN NoPipeline ELSE e.pipelines[id]]
    BY DEF Engine
  <2>3. s = [told EXCEPT !.timer = @ /\ Live(gone) # {}]
    BY <1>2 DEF StopPipelines, Announced
  <2>4. live \in SUBSET Ids
    OBVIOUS
  <2>5. Live(gone) = Live(e) \ ids
    BY <2>2 DEF Live
  <2> HIDE DEF gone
  <2>6. /\ told \in Engine
        /\ told.pipelines = gone.pipelines /\ told.config = gone.config
        /\ told.passwords = gone.passwords /\ told.stats = gone.stats
        /\ told.timer = gone.timer /\ told.shown = Display(gone.stats)
        /\ told.open = gone.open \ live
        /\ told.previews = [id \in Ids |-> IF id \in live THEN 0 ELSE gone.previews[id]]
    BY <2>1, <2>4, IdledReturns
  <2> HIDE DEF told, live, s
  <2>7. /\ s \in Engine
        /\ s.pipelines = gone.pipelines /\ s.config = e.config
        /\ s.passwords = e.passwords /\ s.stats = gone.stats
        /\ s.shown = Display(gone.stats) /\ s.open = e.open \ live
        /\ s.previews = [id \in Ids |-> IF id \in live THEN 0 ELSE e.previews[id]]
        /\ s.timer = (told.timer /\ Live(gone) # {})
    BY <2>2, <2>3, <2>6 DEF Engine
  <2>8. Live(s) = Live(e) \ ids
    BY <2>5, <2>7 DEF Live
  <2>9. \A id \in Ids : s.pipelines[id] =
           IF id \in ids THEN NoPipeline ELSE e.pipelines[id]
    BY <2>2, <2>7 DEF live, Live
  <2>10. ASSUME Tidy(e) PROVE Tidy(s)
    <3>1. \A id \in Ids \ Live(s) : s.stats[id] = Nothing
      BY <2>2, <2>7, <2>8, <2>10 DEF Tidy, live
    <3>2. \A id \in Ids \ Live(s) : s.shown[id] = "Idle"
      BY <2>7, <3>1 DEF Display
    <3>3. s.timer <=> Live(s) # {}
      BY <2>2, <2>5, <2>6, <2>7, <2>8, <2>10 DEF Tidy
    <3> QED
      BY <3>1, <3>2, <3>3 DEF Tidy
  <2>11. ASSUME Attached(e) PROVE Attached(s)
    BY <2>7, <2>9, <2>11 DEF Attached, live, Live
  <2> QED
    BY <2>7, <2>8, <2>9, <2>10, <2>11 DEF s
<1> QED
  BY <1>1, <1>2

(* setConfig(): nothing runs afterwards. *)
LEMMA SetConfigReturns ==
    ASSUME NEW e \in Engine, NEW document \in Document
    PROVE  LET s == SetConfig(e, document)
           IN  /\ s \in Engine
               /\ s.config = document
               /\ s.pipelines = [id \in Ids |-> NoPipeline]
               /\ Tidy(e) => Tidy(s)
               /\ Attached(e) => Attached(s)
<1> DEFINE idle == StopPipelines(e, Ids)
           s == SetConfig(e, document)
<1>1. /\ idle \in Engine
      /\ Live(idle) = {}
      /\ \A id \in Ids : idle.pipelines[id] = NoPipeline
      /\ Tidy(e) => Tidy(idle)
      /\ Attached(e) => Attached(idle)
  BY StopReturns DEF Live
<1>2. s = [idle EXCEPT !.config = document, !.stats = [id \in Ids |-> Nothing]]
  BY DEF SetConfig, StopEverything
<1> HIDE DEF idle, s
<1>3. /\ s \in Engine
      /\ s.config = document /\ s.stats = [id \in Ids |-> Nothing]
      /\ s.pipelines = idle.pipelines /\ s.shown = idle.shown
      /\ s.timer = idle.timer /\ s.open = idle.open /\ s.previews = idle.previews
  BY <1>1, <1>2 DEF Engine
<1>4. s.pipelines = [id \in Ids |-> NoPipeline]
  BY <1>1, <1>3 DEF Engine
<1>5. Live(s) = Live(idle)
  BY <1>3 DEF Live
<1>6. Tidy(idle) => Tidy(s)
  BY <1>3, <1>5 DEF Tidy
<1>7. Attached(idle) => Attached(s)
  BY <1>3 DEF Attached
<1> QED
  BY <1>1, <1>3, <1>4, <1>6, <1>7 DEF s

(* setStreamPassword(): nothing but the password changes. *)
LEMMA SetPasswordsReturns ==
    ASSUME NEW e \in Engine, NEW passwords \in [Ids -> Credentials]
    PROVE  LET s == SetPasswords(e, passwords)
           IN  /\ s \in Engine
               /\ s.config = e.config /\ s.passwords = passwords
               /\ s.pipelines = e.pipelines
               /\ Tidy(e) => Tidy(s)
               /\ Attached(e) => Attached(s)
<1> DEFINE s == SetPasswords(e, passwords)
<1>1. /\ s \in Engine
      /\ s.config = e.config /\ s.passwords = passwords
      /\ s.pipelines = e.pipelines /\ s.stats = e.stats /\ s.shown = e.shown
      /\ s.timer = e.timer /\ s.open = e.open /\ s.previews = e.previews
  BY DEF SetPasswords, Engine
<1> HIDE DEF s
<1>2. Live(s) = Live(e)
  BY <1>1 DEF Live
<1> QED
  BY <1>1, <1>2 DEF Tidy, Attached, s

(* startStream() of some streams: the new pipelines have the endpoint and the password *)
(* the engine knows, and the others are as they were.                                  *)
LEMMA LaunchReturns ==
    ASSUME NEW e \in Engine, NEW ids \in SUBSET Ids,
           launches \in Nat, launches < MaxLaunches
    PROVE  LET s == Launch(e, ids)
               new == {id \in ids : id \notin Live(e) /\ e.config[id] # Absent}
           IN  /\ s \in Engine
               /\ s.config = e.config /\ s.passwords = e.passwords
               /\ Live(s) = Live(e) \cup new
               /\ \A id \in Ids \ new : s.pipelines[id] = e.pipelines[id]
               /\ \A id \in new : /\ s.pipelines[id].endpoint = e.config[id].endpoint
                                  /\ s.pipelines[id].password = e.passwords[id]
                                  /\ s.pipelines[id].launch = launches + 1
               /\ Tidy(e) => Tidy(s)
               /\ Attached(e) => Attached(s)
<1> USE ControllerAssumption DEF ControllerAssumption
<1> DEFINE new == {id \in ids : id \notin Live(e) /\ e.config[id] # Absent}
           made(id) == [endpoint |-> e.config[id].endpoint, password |-> e.passwords[id],
                        launch |-> launches + 1, state |-> FirstState(id, e.config[id])]
           s == Launch(e, ids)
           pipelines == [id \in Ids |-> IF id \in new THEN made(id) ELSE e.pipelines[id]]
<1>1. \A id \in new : made(id) \in Pipeline
  <2> SUFFICES ASSUME NEW id \in new PROVE made(id) \in Pipeline
    OBVIOUS
  <2>1. e.config[id] \in Stream
    BY DEF Engine, Document
  <2>2. FirstState(id, e.config[id]) \in States
    BY DEF FirstState, States
  <2>3. e.passwords[id] \in Credentials
    BY DEF Engine
  <2> QED
    BY <2>1, <2>2, <2>3 DEF Stream, Pipeline
<1>2. s = [e EXCEPT !.pipelines = pipelines, !.timer = SamplingAfterLaunch(e, new)]
  BY DEF Launch, Engine
<1>3. pipelines \in [Ids -> Pipeline \cup {NoPipeline}]
  BY <1>1 DEF Engine
<1>4. \A id \in new : /\ made(id).launch = launches + 1 /\ made(id).launch # 0
                      /\ made(id).endpoint = e.config[id].endpoint
                      /\ made(id).password = e.passwords[id]
  OBVIOUS
<1>5. new \in SUBSET Ids
  OBVIOUS
<1>6. \A id \in new : id \notin Live(e)
  OBVIOUS
<1>7. SamplingAfterLaunch(e, new) = (e.timer \/ new # {})
  BY DEF SamplingAfterLaunch
<1> HIDE DEF s, new, made
<1>8. /\ s \in Engine
      /\ s.config = e.config /\ s.passwords = e.passwords
      /\ s.pipelines = pipelines /\ s.stats = e.stats /\ s.shown = e.shown
      /\ s.timer = (e.timer \/ new # {}) /\ s.open = e.open /\ s.previews = e.previews
  BY <1>2, <1>3, <1>7 DEF Engine
<1>9. Live(s) = Live(e) \cup new
  <2>1. \A id \in new : made(id) # NoPipeline
    BY <1>4 DEF NoPipeline
  <2> QED
    BY <1>5, <1>8, <2>1 DEF Live
<1>10. Tidy(e) => Tidy(s)
  BY <1>5, <1>8, <1>9 DEF Tidy
<1>11. Attached(e) => Attached(s)
  <2>1. \A id \in new : e.pipelines[id].launch = 0
    BY <1>5, <1>6, LiveHasLaunch
  <2> QED
    BY <1>8, <2>1 DEF Attached
<1> QED
  BY <1>4, <1>5, <1>8, <1>9, <1>10, <1>11 DEF s, new

-----------------------------------------------------------------------------
(* The engine's part of the invariant *)

Good(e, document, n) ==
    e \in Engine /\ Tidy(e) /\ Attached(e) /\ Matches(e, document) /\ Numbered(e, n)

(* Stopping streams keeps the engine good, also for a document in which just the     *)
(* entries of these streams are others.                                              *)
LEMMA StopGood ==
    ASSUME NEW e, NEW n \in Nat, NEW ids \in SUBSET Ids,
           NEW document \in Document, NEW edited \in Document,
           \A id \in Ids \ ids : edited[id] = document[id],
           Good(e, document, n)
    PROVE  /\ Good(StopPipelines(e, ids), edited, n)
           /\ \A id \in Ids : StopPipelines(e, ids).pipelines[id].launch <= n
<1> DEFINE s == StopPipelines(e, ids)
<1>1. /\ s \in Engine /\ Tidy(s) /\ Attached(s)
      /\ Live(s) = Live(e) \ ids
      /\ \A id \in Ids : s.pipelines[id] =
             IF id \in ids THEN NoPipeline ELSE e.pipelines[id]
  BY StopReturns DEF Good
<1> HIDE DEF s
<1>2. Matches(s, edited)
  BY <1>1 DEF Good, Matches, Live
<1>3. Numbered(s, n)
  BY <1>1 DEF Good, Numbered, NoPipeline
<1> QED
  BY <1>1, <1>2, <1>3 DEF Good, Numbered, s

(* Replacing the document stops everything. *)
LEMMA SetConfigGood ==
    ASSUME NEW e, NEW n \in Nat, NEW old, NEW document \in Document, Good(e, old, n)
    PROVE  /\ Good(SetConfig(e, document), document, n)
           /\ SetConfig(e, document).config = document
           /\ SetConfig(e, document).pipelines = [id \in Ids |-> NoPipeline]
<1> DEFINE s == SetConfig(e, document)
<1>1. /\ s \in Engine /\ Tidy(s) /\ Attached(s)
      /\ s.config = document
      /\ s.pipelines = [id \in Ids |-> NoPipeline]
  BY SetConfigReturns DEF Good
<1> HIDE DEF s
<1>2. Matches(s, document) /\ Numbered(s, n)
  BY <1>1 DEF Matches, Numbered, Live, NoPipeline
<1> QED
  BY <1>1, <1>2 DEF Good, s

(* Every operation that launches pipelines hands over the document, then passwords, and *)
(* launches from these: what is launched has the settings and the password given.       *)
LEMMA RestartGood ==
    ASSUME NEW e, NEW old, NEW document \in Document,
           NEW passwords \in [Ids -> Credentials], NEW ids \in SUBSET Ids,
           launches \in Nat, launches < MaxLaunches,
           Good(e, old, launches)
    PROVE  LET s == Launch(SetPasswords(SetConfig(e, document), passwords), ids)
           IN  /\ Good(s, document, launches + 1)
               /\ \A id \in Ids : s.pipelines[id].launch > launches =>
                      /\ id \in ids /\ document[id] # Absent
                      /\ s.pipelines[id].password = passwords[id]
<1> DEFINE set == SetConfig(e, document)
           given == SetPasswords(set, passwords)
           s == Launch(given, ids)
           new == {id \in ids : id \notin Live(given) /\ given.config[id] # Absent}
<1>1. /\ set \in Engine /\ Tidy(set) /\ Attached(set)
      /\ set.config = document
      /\ set.pipelines = [id \in Ids |-> NoPipeline]
  BY SetConfigGood DEF Good
<1> HIDE DEF set
<1>2. /\ given \in Engine /\ Tidy(given) /\ Attached(given)
      /\ given.config = document /\ given.passwords = passwords
      /\ given.pipelines = [id \in Ids |-> NoPipeline]
  BY <1>1, SetPasswordsReturns
<1>3. Live(given) = {}
  BY <1>2 DEF Live
<1> HIDE DEF given
<1>4. /\ s \in Engine /\ Tidy(s) /\ Attached(s)
      /\ Live(s) = Live(given) \cup new
      /\ \A id \in Ids \ new : s.pipelines[id] = given.pipelines[id]
      /\ \A id \in new : /\ s.pipelines[id].endpoint = given.config[id].endpoint
                         /\ s.pipelines[id].password = given.passwords[id]
                         /\ s.pipelines[id].launch = launches + 1
  BY <1>2, LaunchReturns
<1> HIDE DEF s
<1>5. \A id \in Ids \ new : s.pipelines[id].launch = 0
  BY <1>2, <1>4 DEF NoPipeline
<1>6. Matches(s, document)
  BY <1>2, <1>3, <1>4 DEF Matches
<1>7. Numbered(s, launches + 1)
  BY <1>4, <1>5 DEF Numbered
<1>8. \A id \in Ids : s.pipelines[id].launch > launches =>
          /\ id \in ids /\ document[id] # Absent
          /\ s.pipelines[id].password = passwords[id]
  BY <1>2, <1>4, <1>5
<1> QED
  BY <1>4, <1>6, <1>7, <1>8 DEF Good, s, given, set

(* A report of a pipeline changes its state and what the rows and windows show. *)
LEMMA ReportGood ==
    ASSUME NEW e, NEW document \in Document, NEW n \in Nat, NEW id \in Live(e),
           NEW s \in States, NEW ids \in SUBSET Ids,
           Good(e, document, n)
    PROVE  LET r == Idled([e EXCEPT !.pipelines[id].state = s], ids)
           IN  /\ Good(r, document, n)
               /\ \A i \in Ids : r.pipelines[i].launch <= n
<1> DEFINE told == [e EXCEPT !.pipelines[id].state = s]
           r == Idled(told, ids)
<1>1. /\ e \in Engine /\ id \in Ids /\ e.pipelines[id] \in Pipeline
      /\ e.pipelines[id].launch # 0
  BY LiveHasLaunch DEF Good, Live
<1>2. [e.pipelines[id] EXCEPT !.state = s] \in Pipeline
  BY <1>1 DEF Pipeline
<1>3. /\ told \in Engine
      /\ told.pipelines = [e.pipelines EXCEPT ![id] = [e.pipelines[id] EXCEPT !.state = s]]
      /\ told.stats = e.stats /\ told.timer = e.timer
      /\ told.open = e.open /\ told.previews = e.previews
  BY <1>1, <1>2 DEF Engine
<1> HIDE DEF told
<1>4. \A i \in Ids : /\ told.pipelines[i].launch = e.pipelines[i].launch
                     /\ told.pipelines[i].endpoint = e.pipelines[i].endpoint
  BY <1>1, <1>3 DEF Engine, Pipeline
<1>5. Live(told) = Live(e)
  <2>1. \A i \in Ids : i \in Live(told) <=> i \in Live(e)
    BY <1>1, <1>3, <1>4, LiveHasLaunch
  <2> QED
    BY <2>1 DEF Live
<1>6. /\ r \in Engine
      /\ r.pipelines = told.pipelines /\ r.stats = e.stats /\ r.timer = e.timer
      /\ r.shown = Display(e.stats) /\ r.open = e.open \ ids
      /\ r.previews = [i \in Ids |-> IF i \in ids THEN 0 ELSE e.previews[i]]
  BY <1>3, IdledReturns
<1> HIDE DEF r
<1>7. Live(r) = Live(e)
  BY <1>5, <1>6 DEF Live
<1>8. Tidy(r)
  <2>1. Tidy(e)
    BY DEF Good
  <2>2. \A i \in Ids \ Live(r) : r.stats[i] = Nothing /\ r.shown[i] = "Idle"
    BY <1>6, <1>7, <2>1 DEF Tidy, Display
  <2> QED
    BY <1>6, <1>7, <2>1, <2>2 DEF Tidy
<1>9. Attached(r)
  BY <1>4, <1>6 DEF Good, Attached
<1>10. Matches(r, document)
  BY <1>4, <1>6, <1>7 DEF Good, Matches, Live
<1>11. Numbered(r, n)
  BY <1>4, <1>6 DEF Good, Numbered
<1> QED
  BY <1>6, <1>8, <1>9, <1>10, <1>11 DEF Good, Numbered, r, told

-----------------------------------------------------------------------------
(* The controller *)

DocumentTyped ==
    /\ phase \in {"starting", "ready"}
    /\ config \in Document /\ saved \in Document
    /\ opened \in BOOLEAN /\ dirty \in BOOLEAN
    /\ session \in [Ids -> Passwords \cup {NoPassword}]
    /\ edits \in 0 .. MaxEdits /\ launches \in 0 .. MaxLaunches

\* The inductive invariant.
Inv == DocumentTyped /\ Good(engine, config, launches)

\* A pipeline launched by the step that is taken has the password that applies.
Current ==
    \A id \in Ids : engine'.pipelines[id].launch > launches =>
        engine'.pipelines[id].password = Resolved(config, session, id)'

(* A password is one that was entered, or stored, or none. *)
LEMMA ResolvedType ==
    ASSUME NEW document, NEW entered \in [Ids -> Passwords \cup {NoPassword}],
           NEW id \in Ids
    PROVE  Resolved(document, entered, id) \in Credentials
  BY DEF Resolved, Credentials

(* A step after which no pipeline has a number beyond the launches so far launched none. *)
LEMMA NothingLaunched ==
    ASSUME NEW document, Inv, Good(engine', document, launches) PROVE Current
<1> USE ControllerAssumption DEF ControllerAssumption
<1>1. launches \in Nat
  BY DEF Inv, DocumentTyped
<1>2. \A id \in Ids : engine'.pipelines[id].launch \in Nat
  BY DEF Good, Engine, Pipeline, NoPipeline
<1>3. \A id \in Ids : engine'.pipelines[id].launch <= launches
  BY DEF Good, Numbered
<1> QED
  BY <1>1, <1>2, <1>3 DEF Current

LEMMA InitInv == Init => Inv
<1> SUFFICES ASSUME Init PROVE Inv
  OBVIOUS
<1> USE ControllerAssumption DEF ControllerAssumption
<1>1. EmptyDocument \in Document
  BY DEF EmptyDocument, Document
<1>2. DocumentTyped
  <2>1. saved \in Document
    BY DEF Init
  <2>2. session \in [Ids -> Passwords \cup {NoPassword}]
    BY DEF Init
  <2>3. /\ config \in Document /\ phase = "starting"
        /\ opened = FALSE /\ dirty = FALSE /\ edits = 0 /\ launches = 0
    BY <1>1 DEF Init
  <2>4. edits \in 0 .. MaxEdits /\ launches \in 0 .. MaxLaunches
    BY <2>3
  <2> QED
    BY <2>1, <2>2, <2>3, <2>4 DEF DocumentTyped
<1>3. engine \in Engine
  BY <1>1 DEF Init, Engine, States, Credentials
<1>4. Live(engine) = {}
  BY DEF Init, Live
<1>5. /\ engine.stats = [id \in Ids |-> Nothing] /\ engine.shown = [id \in Ids |-> "Idle"]
      /\ engine.timer = FALSE /\ engine.previews = [id \in Ids |-> 0]
      /\ engine.pipelines = [id \in Ids |-> NoPipeline] /\ launches = 0
  BY DEF Init
<1>6. Tidy(engine) /\ Attached(engine) /\ Matches(engine, config)
  BY <1>4, <1>5 DEF Tidy, Attached, Matches
<1>7. Numbered(engine, launches)
  BY <1>5 DEF Numbered, NoPipeline
<1> QED
  BY <1>2, <1>3, <1>6, <1>7 DEF Inv, Good

(* The operations that launch pipelines. *)
LEMMA StartUpStep ==
    ASSUME Inv, StartUpEmpty \/ StartUpLoaded PROVE Inv' /\ Current
<1>1. CASE StartUpEmpty
  <2>1. Good(engine', config', launches') /\ launches' = launches
    BY <1>1 DEF StartUpEmpty, docVars, Inv
  <2>2. DocumentTyped'
    BY <1>1 DEF StartUpEmpty, docVars, Inv, DocumentTyped
  <2> QED
    BY <2>1, <2>2, NothingLaunched DEF Inv
<1>2. CASE StartUpLoaded
  <2> DEFINE passwords == [id \in Ids |-> Resolved(saved, session, id)]
  <2>1. PICK flagged \in SUBSET Ids :
            engine' = Launch(SetPasswords(SetConfig(engine, saved), passwords),
                             flagged \cap Enabled(saved))
    BY <1>2 DEF StartUpLoaded
  <2>2. passwords \in [Ids -> Credentials]
    BY ResolvedType DEF Inv, DocumentTyped
  <2>3. /\ launches \in Nat /\ launches < MaxLaunches /\ launches' = launches + 1
        /\ launches' \in 0 .. MaxLaunches
        /\ config' = saved /\ saved \in Document /\ UNCHANGED session
    BY <1>2, ControllerAssumption DEF StartUpLoaded, CanLaunch, Inv, DocumentTyped,
       ControllerAssumption
  <2>4. flagged \cap Enabled(saved) \in SUBSET Ids
    BY <2>1
  <2> HIDE DEF passwords
  <2>5. /\ Good(engine', saved, launches + 1)
        /\ \A id \in Ids : engine'.pipelines[id].launch > launches =>
               engine'.pipelines[id].password = passwords[id]
    BY <2>1, <2>2, <2>3, <2>4, RestartGood DEF Inv
  <2>6. Current
    BY <2>3, <2>5 DEF Current, Resolved, passwords
  <2>7. DocumentTyped'
    BY <1>2, <2>3 DEF StartUpLoaded, Inv, DocumentTyped
  <2> QED
    BY <2>3, <2>5, <2>6, <2>7 DEF Inv
<1> QED
  BY <1>1, <1>2

LEMMA StartAllStep ==
    ASSUME Inv, StartAll PROVE Inv' /\ Current
<1> DEFINE set == SetConfig(engine, config)
           passwords == Applied(set)
<1>1. engine' = Launch(SetPasswords(set, passwords), Enabled(config))
  BY DEF StartAll
<1>2. /\ launches \in Nat /\ launches < MaxLaunches /\ launches' = launches + 1
      /\ launches' \in 0 .. MaxLaunches
      /\ config \in Document /\ UNCHANGED <<phase, docVars, session, edits>>
  BY ControllerAssumption DEF StartAll, CanLaunch, Inv, DocumentTyped, ControllerAssumption
<1>3. set \in Engine
  BY <1>2, SetConfigGood DEF Inv, Good
<1>4. passwords \in [Ids -> Credentials]
  BY <1>3, ResolvedType DEF Applied, Engine, Inv, DocumentTyped
<1>5. \A id \in Ids : config[id] # Absent => passwords[id] = Resolved(config, session, id)
  BY DEF Applied
<1>6. Enabled(config) \in SUBSET Ids
  BY DEF Enabled
<1> HIDE DEF passwords
<1>7. /\ Good(engine', config, launches + 1)
      /\ \A id \in Ids : engine'.pipelines[id].launch > launches =>
             config[id] # Absent /\ engine'.pipelines[id].password = passwords[id]
  BY <1>1, <1>2, <1>4, <1>6, RestartGood DEF Inv
<1>8. Current
  BY <1>2, <1>5, <1>7 DEF Current, Resolved, docVars
<1>9. DocumentTyped'
  BY <1>2 DEF Inv, DocumentTyped, docVars
<1> QED
  BY <1>2, <1>7, <1>8, <1>9 DEF Inv, docVars

(* A single password is pushed to an engine that has been given the document. *)
LEMMA OnePasswordReturns ==
    ASSUME NEW e \in Engine, NEW document,
           NEW entered \in [Ids -> Passwords \cup {NoPassword}], NEW id \in Ids
    PROVE  /\ OnePassword(e, document, entered, id) \in [Ids -> Credentials]
           /\ OnePassword(e, document, entered, id)[id] = Resolved(document, entered, id)
  BY ResolvedType DEF OnePassword, Engine

LEMMA StartStreamStep ==
    ASSUME Inv, NEW id \in Ids, StartStream(id) PROVE Inv' /\ Current
<1> DEFINE set == SetConfig(engine, config)
           passwords == IF config[id] = Absent
                        THEN [set.passwords EXCEPT ![id] = NoPassword]
                        ELSE OnePassword(set, config, session, id)
<1>1. engine' = Launch(SetPasswords(set, passwords), {id})
  BY DEF StartStream
<1>2. /\ launches \in Nat /\ launches < MaxLaunches /\ launches' = launches + 1
      /\ launches' \in 0 .. MaxLaunches
      /\ config \in Document /\ UNCHANGED <<phase, docVars, session, edits>>
  BY ControllerAssumption DEF StartStream, CanLaunch, Inv, DocumentTyped,
     ControllerAssumption
<1>3. set \in Engine
  BY <1>2, SetConfigGood DEF Inv, Good
<1>4. passwords \in [Ids -> Credentials]
  BY <1>3, OnePasswordReturns DEF Engine, Inv, DocumentTyped, Credentials
<1>5. config[id] # Absent => passwords[id] = Resolved(config, session, id)
  BY <1>3, OnePasswordReturns DEF Inv, DocumentTyped
<1>6. {id} \in SUBSET Ids
  OBVIOUS
<1> HIDE DEF passwords
<1>7. /\ Good(engine', config, launches + 1)
      /\ \A i \in Ids : engine'.pipelines[i].launch > launches =>
             /\ i = id /\ config[i] # Absent
             /\ engine'.pipelines[i].password = passwords[i]
  BY <1>1, <1>2, <1>4, <1>6, RestartGood DEF Inv
<1>8. Current
  BY <1>2, <1>5, <1>7 DEF Current, Resolved, docVars
<1>9. DocumentTyped'
  BY <1>2 DEF Inv, DocumentTyped, docVars
<1> QED
  BY <1>2, <1>7, <1>8, <1>9 DEF Inv, docVars

(* commitEdit() stops the stream before it replaces the entry, so what runs afterwards *)
(* fits the new document.                                                              *)
LEMMA StoppedForEditGood ==
    ASSUME Inv, NEW id \in Ids, NEW stream \in Stream
    PROVE  /\ [config EXCEPT ![id] = stream] \in Document
           /\ Good(StoppedForEdit(id), [config EXCEPT ![id] = stream], launches)
<1> DEFINE document == [config EXCEPT ![id] = stream]
<1>1. document \in Document /\ config \in Document
  BY DEF Inv, DocumentTyped, Document
<1>2. launches \in Nat
  BY ControllerAssumption DEF Inv, DocumentTyped, ControllerAssumption
<1>3. \A i \in Ids \ {id} : document[i] = config[i]
  BY <1>1 DEF Document
<1> HIDE DEF document
<1>4. CASE config[id] # Absent
  <2>1. StoppedForEdit(id) = StopPipelines(engine, {id})
    BY <1>4 DEF StoppedForEdit
  <2> QED
    BY <1>1, <1>2, <1>3, <2>1, StopGood DEF Inv, document
<1>5. CASE config[id] = Absent
  <2>1. StoppedForEdit(id) = engine
    BY <1>5 DEF StoppedForEdit
  <2>2. id \notin Live(engine)
    BY <1>5 DEF Inv, Good, Matches
  <2>3. Matches(engine, document)
    BY <1>3, <2>2 DEF Inv, Good, Matches, Live
  <2> QED
    BY <1>1, <2>1, <2>3 DEF Inv, Good, document
<1> QED
  BY <1>4, <1>5

LEMMA CommitEditStep ==
    ASSUME Inv, NEW id \in Ids, NEW stream \in Stream, CommitEdit(id, stream),
           session' \in [Ids -> Passwords \cup {NoPassword}],
           config[id] # Absent => UNCHANGED session
    PROVE  Inv' /\ Current
<1> USE ControllerAssumption DEF ControllerAssumption
<1> DEFINE document == [config EXCEPT ![id] = stream]
           stopped == StoppedForEdit(id)
           set == SetConfig(stopped, document)
           passwords == OnePassword(set, document, session, id)
           restart == id \in Live(engine) /\ stream.enabled
<1>1. document \in Document /\ Good(stopped, document, launches)
  BY StoppedForEditGood
<1>2. /\ config' = document
      /\ restart => CanLaunch
      /\ engine' = IF restart THEN Launch(SetPasswords(set, passwords), {id}) ELSE stopped
      /\ launches' = IF restart THEN launches + 1 ELSE launches
  BY DEF CommitEdit
<1>3. /\ Ready /\ CanEdit /\ edits' = edits + 1 /\ dirty' = TRUE
      /\ UNCHANGED <<phase, saved, opened>>
  BY DEF CommitEdit, Edited
<1>4. /\ launches \in 0 .. MaxLaunches
      /\ edits \in 0 .. MaxEdits
      /\ session \in [Ids -> Passwords \cup {NoPassword}]
  BY DEF Inv, DocumentTyped
<1>5. edits' \in 0 .. MaxEdits /\ launches' \in 0 .. MaxLaunches
  BY <1>2, <1>3, <1>4 DEF CanEdit, CanLaunch
<1> HIDE DEF document, stopped
<1>6. DocumentTyped'
  BY <1>1, <1>2, <1>3, <1>5 DEF Inv, DocumentTyped
<1>7. CASE restart
  <2>1. set \in Engine
    BY <1>1, <1>4, SetConfigGood DEF Good
  <2>2. /\ passwords \in [Ids -> Credentials]
        /\ passwords[id] = Resolved(document, session, id)
    BY <1>4, <2>1, OnePasswordReturns
  <2>3. engine' = Launch(SetPasswords(set, passwords), {id})
    BY <1>2, <1>7
  <2>4. /\ launches \in Nat /\ launches < MaxLaunches /\ launches' = launches + 1
        /\ {id} \in SUBSET Ids
    BY <1>2, <1>4, <1>7 DEF CanLaunch
  <2> HIDE DEF passwords
  <2>5. /\ Good(engine', document, launches + 1)
        /\ \A i \in Ids : engine'.pipelines[i].launch > launches =>
               i = id /\ engine'.pipelines[i].password = passwords[i]
    BY <1>1, <2>2, <2>3, <2>4, RestartGood
  <2>6. UNCHANGED session
    BY <1>7 DEF Inv, Good, Matches
  <2>7. Current
    BY <1>2, <2>2, <2>5, <2>6 DEF Current, Resolved
  <2> QED
    BY <1>2, <1>6, <2>4, <2>5, <2>7 DEF Inv
<1>8. CASE ~restart
  <2>1. engine' = stopped /\ launches' = launches
    BY <1>2, <1>8
  <2>2. Good(engine', document, launches)
    BY <1>1, <2>1
  <2> QED
    BY <1>2, <1>6, <2>1, <2>2, NothingLaunched DEF Inv
<1> QED
  BY <1>7, <1>8

LEMMA ChangeStep ==
    ASSUME Inv, NEW id \in Ids, NEW stream \in Stream, ChangeStream(id, stream)
    PROVE  Inv' /\ Current
<1>1. session \in [Ids -> Passwords \cup {NoPassword}]
  BY DEF Inv, DocumentTyped
<1> QED
  BY <1>1, CommitEditStep DEF ChangeStream

LEMMA AddMediaMtxStep ==
    ASSUME Inv, NEW id \in Ids, NEW stream \in Stream, NEW password \in Passwords,
           AddMediaMtxStream(id, stream, password)
    PROVE  Inv' /\ Current
<1>1. session' \in [Ids -> Passwords \cup {NoPassword}]
  BY DEF AddMediaMtxStream, Inv, DocumentTyped
<1> QED
  BY <1>1, CommitEditStep DEF AddMediaMtxStream

(* Removing or disabling a stream stops it; enabling one touches nothing that runs. *)
LEMMA RemoveStep ==
    ASSUME Inv, NEW id \in Ids, RemoveStream(id) PROVE Inv' /\ Current
<1> USE ControllerAssumption DEF ControllerAssumption
<1>1. /\ config' = [config EXCEPT ![id] = Absent]
      /\ session' = [session EXCEPT ![id] = NoPassword]
      /\ engine' = StopPipelines(engine, {id})
      /\ edits' = edits + 1 /\ edits < MaxEdits /\ dirty' = TRUE
      /\ UNCHANGED <<phase, saved, opened, launches>>
  BY DEF RemoveStream, Edited, CanEdit
<1>2. config' \in Document /\ (\A i \in Ids \ {id} : config'[i] = config[i])
  BY <1>1 DEF Inv, DocumentTyped, Document
<1>3. DocumentTyped'
  BY <1>1, <1>2 DEF Inv, DocumentTyped
<1>4. launches \in Nat /\ config \in Document
  BY DEF Inv, DocumentTyped
<1>5. Good(engine', config', launches)
  BY <1>1, <1>2, <1>4, StopGood DEF Inv
<1> QED
  BY <1>1, <1>3, <1>5, NothingLaunched DEF Inv

LEMMA EnableStep ==
    ASSUME Inv, NEW id \in Ids, NEW enabled \in BOOLEAN, SetStreamEnabled(id, enabled)
    PROVE  Inv' /\ Current
<1> USE ControllerAssumption DEF ControllerAssumption
<1>1. /\ config[id] # Absent
      /\ config' = [config EXCEPT ![id].enabled = enabled]
      /\ engine' = IF enabled THEN engine ELSE StopPipelines(engine, {id})
      /\ edits' = edits + 1 /\ edits < MaxEdits /\ dirty' = TRUE
      /\ UNCHANGED <<phase, saved, opened, session, launches>>
  BY DEF SetStreamEnabled, Edited, CanEdit
<1>2. launches \in Nat /\ config \in Document
  BY DEF Inv, DocumentTyped
<1>3. config[id] \in Stream
  BY <1>1, <1>2 DEF Document
<1>4. [config[id] EXCEPT !.enabled = enabled] \in Stream
  BY <1>3 DEF Stream
<1>5. /\ config' \in Document
      /\ \A i \in Ids \ {id} : config'[i] = config[i]
      /\ config'[id] = [config[id] EXCEPT !.enabled = enabled]
  BY <1>1, <1>2, <1>4 DEF Document
<1>6. config'[id].endpoint = config[id].endpoint /\ config'[id].endpoint # "absent"
  BY <1>3, <1>5 DEF Stream, NoSink
<1>7. DocumentTyped'
  BY <1>1, <1>5 DEF Inv, DocumentTyped
<1>8. CASE enabled
  <2>1. engine' = engine
    BY <1>1, <1>8
  <2>2. config'[id] # Absent
    BY <1>6 DEF Absent
  <2>3. Matches(engine, config')
    BY <1>5, <1>6, <2>2 DEF Inv, Good, Matches, Live
  <2>4. Good(engine', config', launches)
    BY <2>1, <2>3 DEF Inv, Good
  <2> QED
    BY <1>1, <1>7, <2>4, NothingLaunched DEF Inv
<1>9. CASE ~enabled
  <2>1. Good(engine', config', launches)
    BY <1>1, <1>2, <1>5, <1>9, StopGood DEF Inv
  <2> QED
    BY <1>1, <1>7, <2>1, NothingLaunched DEF Inv
<1> QED
  BY <1>8, <1>9

(* The operations on the whole document. *)
LEMMA DocumentStep ==
    ASSUME Inv, NewConfig \/ LoadConfig \/ SaveConfig \/ StopAll PROVE Inv' /\ Current
<1> USE DEF docVars
<1>1. launches \in Nat /\ config \in Document /\ saved \in Document
  BY ControllerAssumption DEF Inv, DocumentTyped, ControllerAssumption
<1>2. EmptyDocument \in Document
  BY DEF EmptyDocument, Document
<1>3. SUFFICES DocumentTyped' /\ Good(engine', config', launches) /\ launches' = launches
  BY NothingLaunched DEF Inv
<1>4. CASE NewConfig
  BY <1>1, <1>2, <1>4, SetConfigGood DEF NewConfig, Inv, DocumentTyped
<1>5. CASE LoadConfig
  BY <1>1, <1>5, SetConfigGood DEF LoadConfig, Inv, DocumentTyped
<1>6. CASE SaveConfig
  BY <1>6 DEF SaveConfig, Inv, DocumentTyped
<1>7. CASE StopAll
  BY <1>1, <1>7, StopGood DEF StopAll, StopEverything, Inv, DocumentTyped
<1> QED
  BY <1>4, <1>5, <1>6, <1>7

LEMMA StopStreamStep ==
    ASSUME Inv, NEW id \in Ids, StopStream(id) PROVE Inv' /\ Current
<1>1. launches \in Nat /\ config \in Document
  BY ControllerAssumption DEF Inv, DocumentTyped, ControllerAssumption
<1>2. Good(engine', config, launches)
  BY <1>1, StopGood DEF StopStream, Inv
<1> QED
  BY <1>2, NothingLaunched DEF StopStream, docVars, Inv, DocumentTyped

LEMMA SetStreamPasswordStep ==
    ASSUME Inv, NEW id \in Ids, NEW password \in Passwords \cup {NoPassword},
           SetStreamPassword(id, password)
    PROVE  Inv' /\ Current
<1>1. /\ session' = [session EXCEPT ![id] = password]
      /\ engine' = SetPasswords(engine, OnePassword(engine, config, session', id))
      /\ UNCHANGED <<phase, docVars, edits, launches>>
  BY DEF SetStreamPassword
<1>2. session' \in [Ids -> Passwords \cup {NoPassword}] /\ engine \in Engine
  BY <1>1 DEF Inv, DocumentTyped, Good
<1>3. OnePassword(engine, config, session', id) \in [Ids -> Credentials]
  BY <1>2, OnePasswordReturns
<1>4. /\ engine' \in Engine /\ engine'.pipelines = engine.pipelines
      /\ Tidy(engine') /\ Attached(engine')
  BY <1>1, <1>2, <1>3, SetPasswordsReturns DEF Inv, Good
<1>5. Good(engine', config, launches)
  BY <1>4 DEF Inv, Good, Matches, Numbered, Live
<1> QED
  BY <1>1, <1>2, <1>5, NothingLaunched DEF docVars, Inv, DocumentTyped

(* What the pipelines, the timer and the windows do between two operations. *)
LEMMA ReportStep ==
    ASSUME Inv, NEW id \in Ids, PipelineReports(id) \/ WhepReconnects(id)
    PROVE  Inv' /\ Current
<1>1. UNCHANGED <<phase, docVars, session, edits, launches>> /\ id \in Live(engine)
  BY DEF PipelineReports, WhepReconnects
<1>2. PICK s \in States, ids \in SUBSET Ids :
          engine' = Idled([engine EXCEPT !.pipelines[id].state = s], ids)
  <2>1. CASE PipelineReports(id)
    <3>1. PICK s \in Successors(id, engine.pipelines[id].state) :
              engine' = Idled([engine EXCEPT !.pipelines[id].state = s], {})
      BY <2>1 DEF PipelineReports
    <3>2. engine.pipelines[id].state \in States
      BY <1>1, LiveHasLaunch DEF Inv, Good, Pipeline
    <3>3. s \in States
      BY <3>1, <3>2 DEF Successors, States
    <3> QED
      BY <3>1, <3>3
  <2>2. CASE WhepReconnects(id)
    <3>1. "Connecting" \in States /\ {id} \in SUBSET Ids
      BY DEF States
    <3> QED
      BY <2>2, <3>1 DEF WhepReconnects
  <2> QED
    BY <2>1, <2>2
<1>3. launches \in Nat /\ config \in Document
  BY ControllerAssumption DEF Inv, DocumentTyped, ControllerAssumption
<1>4. Good(engine', config, launches)
  BY <1>1, <1>2, <1>3, ReportGood DEF Inv
<1>5. DocumentTyped'
  BY <1>1 DEF docVars, Inv, DocumentTyped
<1> QED
  BY <1>1, <1>4, <1>5, NothingLaunched DEF Inv, docVars

LEMMA SampleStep ==
    ASSUME Inv, SampleStats PROVE Inv' /\ Current
<1> DEFINE stats == [id \in Ids |-> IF id \in Live(engine) THEN engine.pipelines[id].state
                                                           ELSE engine.stats[id]]
<1>1. /\ UNCHANGED <<phase, docVars, session, edits, launches>>
      /\ engine' = [engine EXCEPT !.stats = stats, !.shown = Display(stats)]
  BY DEF SampleStats
<1>2. engine \in Engine
  BY DEF Inv, Good
<1>3. stats \in [Ids -> States \cup {Nothing}]
  <2>1. \A id \in Live(engine) : engine.pipelines[id].state \in States
    BY <1>2, LiveHasLaunch DEF Pipeline, Live
  <2> QED
    BY <1>2, <2>1 DEF Engine
<1>4. Display(stats) \in [Ids -> States]
  BY <1>3 DEF Display, States
<1>5. \A id \in Ids \ Live(engine) : stats[id] = engine.stats[id]
  OBVIOUS
<1> HIDE DEF stats
<1>6. /\ engine' \in Engine
      /\ engine'.stats = stats /\ engine'.shown = Display(stats)
      /\ engine'.pipelines = engine.pipelines /\ engine'.timer = engine.timer
      /\ engine'.open = engine.open /\ engine'.previews = engine.previews
  BY <1>1, <1>2, <1>3, <1>4 DEF Engine
<1>7. Live(engine') = Live(engine)
  BY <1>6 DEF Live
<1>8. Tidy(engine')
  <2>1. Tidy(engine)
    BY DEF Inv, Good
  <2>2. \A id \in Ids \ Live(engine) : stats[id] = Nothing /\ engine'.shown[id] = "Idle"
    BY <1>5, <1>6, <2>1 DEF Tidy, Display
  <2> QED
    BY <1>6, <1>7, <2>1, <2>2 DEF Tidy
<1>9. Good(engine', config, launches)
  BY <1>6, <1>7, <1>8 DEF Inv, Good, Attached, Matches, Numbered
<1>10. DocumentTyped'
  BY <1>1 DEF docVars, Inv, DocumentTyped
<1> QED
  BY <1>1, <1>9, <1>10, NothingLaunched DEF Inv, docVars

LEMMA WindowStep ==
    ASSUME Inv, NEW id \in Ids, RefreshWindow(id) \/ CloseWindow(id)
    PROVE  Inv' /\ Current
<1>1. UNCHANGED <<phase, docVars, session, edits, launches>>
  BY DEF RefreshWindow, CloseWindow
<1>2. PICK windows \in SUBSET Ids, held \in 0 .. MaxLaunches :
          /\ engine' = [engine EXCEPT !.open = windows, !.previews[id] = held]
          /\ engine.open \ {id} \subseteq windows
          /\ held # 0 => id \in windows /\ held = engine.pipelines[id].launch
  <2>1. /\ engine.open \in SUBSET Ids
        /\ engine.pipelines[id].launch \in 0 .. MaxLaunches
        /\ 0 \in 0 .. MaxLaunches
    BY ControllerAssumption DEF Inv, Good, Engine, Pipeline, NoPipeline, ControllerAssumption
  <2>2. CASE RefreshWindow(id)
    <3>1. /\ engine.open \cup {id} \in SUBSET Ids
          /\ engine' = [engine EXCEPT !.open = engine.open \cup {id},
                                      !.previews[id] = engine.pipelines[id].launch]
      BY <2>1, <2>2 DEF RefreshWindow
    <3> QED
      BY <2>1, <3>1
  <2>3. CASE CloseWindow(id)
    <3>1. /\ engine.open \ {id} \in SUBSET Ids
          /\ engine' = [engine EXCEPT !.open = engine.open \ {id}, !.previews[id] = 0]
      BY <2>1, <2>3 DEF CloseWindow
    <3> QED
      BY <2>1, <3>1
  <2> QED
    BY <2>2, <2>3
<1>3. /\ engine' \in Engine
      /\ engine'.stats = engine.stats /\ engine'.shown = engine.shown
      /\ engine'.pipelines = engine.pipelines /\ engine'.timer = engine.timer
      /\ engine'.open = windows
      /\ engine'.previews = [engine.previews EXCEPT ![id] = held]
  BY <1>2 DEF Inv, Good, Engine
<1>4. Live(engine') = Live(engine)
  BY <1>3 DEF Live
<1>5. Attached(engine')
  <2>1. Attached(engine) /\ engine \in Engine
    BY DEF Inv, Good
  <2> QED
    BY <1>2, <1>3, <2>1 DEF Attached, Engine
<1>6. Good(engine', config, launches)
  BY <1>3, <1>4, <1>5 DEF Inv, Good, Tidy, Matches, Numbered
<1>7. DocumentTyped'
  BY <1>1 DEF docVars, Inv, DocumentTyped
<1> QED
  BY <1>1, <1>6, <1>7, NothingLaunched DEF Inv, docVars

LEMMA InvStep == Inv /\ [Next]_vars => Inv' /\ (Current \/ UNCHANGED vars)
<1> SUFFICES ASSUME Inv, [Next]_vars PROVE Inv' /\ (Current \/ UNCHANGED vars)
  OBVIOUS
<1>1. CASE UNCHANGED vars
  BY <1>1 DEF vars, docVars, Inv, DocumentTyped
<1>2. CASE StartUpEmpty \/ StartUpLoaded
  BY <1>2, StartUpStep
<1>3. CASE StartAll
  BY <1>3, StartAllStep
<1>4. CASE SampleStats
  BY <1>4, SampleStep
<1>5. CASE NewConfig \/ LoadConfig \/ SaveConfig \/ StopAll
  BY <1>5, DocumentStep
<1>6. ASSUME NEW id \in Ids, Operate(id) PROVE Inv' /\ Current
  <2>1. CASE StartStream(id) \/ StopStream(id) \/ RemoveStream(id)
    BY <2>1, StartStreamStep, StopStreamStep, RemoveStep
  <2>2. CASE \E stream \in Stream : ChangeStream(id, stream)
    BY <2>2, ChangeStep
  <2>3. CASE \E stream \in Stream, p \in Passwords : AddMediaMtxStream(id, stream, p)
    BY <2>3, AddMediaMtxStep
  <2>4. CASE \E enabled \in BOOLEAN : SetStreamEnabled(id, enabled)
    BY <2>4, EnableStep
  <2>5. CASE \E p \in Passwords \cup {NoPassword} : SetStreamPassword(id, p)
    BY <2>5, SetStreamPasswordStep
  <2> QED
    BY <1>6, <2>1, <2>2, <2>3, <2>4, <2>5 DEF Operate
<1>7. ASSUME NEW id \in Ids,
             PipelineReports(id) \/ WhepReconnects(id) \/ RefreshWindow(id) \/ CloseWindow(id)
      PROVE  Inv' /\ Current
  BY <1>7, ReportStep, WindowStep
<1> QED
  BY <1>1, <1>2, <1>3, <1>4, <1>5, <1>6, <1>7 DEF Next

-----------------------------------------------------------------------------
(* Theorems *)

(* Every variable keeps its type; a running pipeline has the endpoint and the password *)
(* of some entry of a document, and a launch number within the bound (startStream).    *)
THEOREM TypeCorrect == Spec => []TypeOK
<1>1. Inv => TypeOK
  BY DEF Inv, DocumentTyped, Good, TypeOK
<1> QED
  BY <1>1, InitInv, InvStep, PTL DEF Spec

(* No operation leaves a pipeline behind that runs with settings the document no longer *)
(* has (commitEdit, removeStream, setStreamEnabled, loadConfig, newConfig).             *)
THEOREM SettingsCurrent == Spec => []RunsCurrentSettings
<1>1. Inv => RunsCurrentSettings
  BY DEF Inv, Good, Matches, RunsCurrentSettings
<1> QED
  BY <1>1, InitInv, InvStep, PTL DEF Spec

(* stopStream() leaves nothing of a stopped stream to be seen, and the statistics timer *)
(* runs exactly while a pipeline does.                                                  *)
THEOREM StoppedIsTidy == Spec => []StoppedLooksStopped
<1>1. Inv => StoppedLooksStopped
  BY DEF Inv, Good, Tidy, StoppedLooksStopped
<1> QED
  BY <1>1, InitInv, InvStep, PTL DEF Spec

(* No viewer window ever holds the preview of a pipeline that is gone: the Idle of     *)
(* stopStream() reaches it before the pipeline is deleted.                             *)
THEOREM ViewersAttached == Spec => []NoDanglingViewer
<1>1. Inv => NoDanglingViewer
  BY DEF Inv, Good, Attached, NoDanglingViewer
<1> QED
  BY <1>1, InitInv, InvStep, PTL DEF Spec

(* Each way of launching a pipeline gives it the password that applies at that moment. *)
THEOREM PasswordsCurrent == Spec => StartsWithCurrentPassword
<1>1. Inv /\ [Next]_vars => [Current]_vars
  BY InvStep
<1> QED
  BY <1>1, InitInv, InvStep, PTL DEF Spec, StartsWithCurrentPassword, Current

(* A document shown as saved is the one on disk: every edit marks it, and only new, load *)
(* and save clear the mark.                                                              *)
THEOREM CleanIsSaved == Spec => []CleanMeansSaved
<1>1. Init => CleanMeansSaved
  BY DEF Init, CleanMeansSaved
<1>2. CleanMeansSaved /\ [Next]_vars => CleanMeansSaved'
  <2> SUFFICES ASSUME CleanMeansSaved, [Next]_vars PROVE CleanMeansSaved'
    OBVIOUS
  <2> USE DEF CleanMeansSaved, docVars
  <2>1. ASSUME NEW id \in Ids, Operate(id) PROVE CleanMeansSaved'
    <3>1. CASE Edited
      BY <3>1 DEF Edited
    <3>2. Edited \/ UNCHANGED docVars
      BY <2>1 DEF Operate, StartStream, StopStream, RemoveStream, ChangeStream,
         AddMediaMtxStream, CommitEdit, SetStreamEnabled, SetStreamPassword
    <3> QED
      BY <3>1, <3>2
  <2>2. ASSUME NEW id \in Ids,
               PipelineReports(id) \/ WhepReconnects(id) \/ RefreshWindow(id)
               \/ CloseWindow(id)
        PROVE  CleanMeansSaved'
    BY <2>2 DEF PipelineReports, WhepReconnects, RefreshWindow, CloseWindow
  <2>3. CASE NewConfig \/ LoadConfig \/ SaveConfig
    BY <2>3 DEF NewConfig, LoadConfig, SaveConfig
  <2>4. CASE StartUpLoaded
    <3>1. config' = saved /\ saved' = saved
      BY <2>4 DEF StartUpLoaded
    <3> QED
      BY <3>1
  <2>5. CASE StartUpEmpty \/ StartAll \/ StopAll \/ SampleStats \/ UNCHANGED vars
    <3>1. UNCHANGED docVars
      BY <2>5 DEF StartUpEmpty, StartAll, StopAll, SampleStats, vars
    <3> QED
      BY <3>1
  <2> QED
    BY <2>1, <2>2, <2>3, <2>4, <2>5 DEF Next
<1> QED
  BY <1>1, <1>2, PTL DEF Spec

=============================================================================
