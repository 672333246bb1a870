------------------------------ MODULE MediaMtx ------------------------------
(***************************************************************************)
(* The MediaMTX client (mediamtxmodel.cpp) and the operation that turns a  *)
(* listed path into a stream (BridgeController::addMediaMtxStream): a      *)
(* dialog over a list of servers, a worker thread that asks one of them    *)
(* what it carries, and the rows made of the answer.                       *)
(*                                                                         *)
(*   - The GUI thread edits the list of servers, starts a fetch, applies   *)
(*     its answer and adds rows to the document.  A server is named by its *)
(*     position in the list, and the list may be edited while the answer   *)
(*     is on its way.                                                      *)
(*   - The worker makes one HTTP request after another, each of which is   *)
(*     answered, fails, or is given up after 8 s.                          *)
(*                                                                         *)
(* Abstractions.  Both ports of a server (SRT and WebRTC) are the default  *)
(* one or the one its host listens on, and a global configuration that     *)
(* reports no address is one of a host that listens on the default port.   *)
(* The scheme goes with the port.  A path is fed over SRT or not, and      *)
(* needs authentication or not, for good.  Only GETs that fail differ from *)
(* those that succeed: status codes and messages are left out, and so are  *)
(* the API port and scheme and the "enabled" mark, which nothing reads.    *)
(***************************************************************************)
EXTENDS Naturals, Sequences, FiniteSets, Filtering

CONSTANTS Hosts,           \* hosts that run a MediaMTX server
          Names,           \* names the user gives to a server
          Users,           \* API users
          Passwords,       \* passwords the user enters
          StoredPassword,  \* the credential manager's entry of a name and a user, or NoPassword
          Paths,           \* paths a host may list
          SrtPaths,        \* the paths fed over SRT
          ProtectedPaths,  \* the paths with readAuthentication: internal
          Ports,           \* port numbers
          ListenPort,      \* [Hosts -> Ports], where a host listens
          ServerLists,     \* lists that may be on disk when the program starts
          NewServer,       \* what Add New adds
          Entries,         \* what the user may type into the fields of a server
          MaxServers,      \* bound on the length of the list
          MaxEdits,        \* bound on the changes of the list
          MaxPages,        \* the cap on the pages of one list, 100
          Listings,        \* what one page of a list may hold
          MaxAdded         \* bound on the streams added

NoHost == "no host"
NoUser == "no user"
NoPassword == "no password"
NoPort == "port 0"

\* What the file holds of a server, and the server in memory.
Stored == [name : Names, host : Hosts \cup {NoHost}, user : Users \cup {NoUser},
           auto : BOOLEAN, srt : Ports, web : Ports]
Server == [name : Names, host : Hosts \cup {NoHost}, user : Users \cup {NoUser},
           auto : BOOLEAN, srt : Ports, web : Ports, password : Passwords \cup {NoPassword}]

\* What Update takes from the fields of the dialog.
Entry == [name : Names, host : Hosts \cup {NoHost}, user : Users \cup {NoUser},
          auto : BOOLEAN, web : Ports]

ASSUME MediaMtxAssumption ==
    /\ SrtPaths \subseteq Paths /\ ProtectedPaths \subseteq Paths
    /\ NoHost \notin Hosts /\ NoUser \notin Users /\ NoPassword \notin Passwords
    /\ NoPort \notin Ports
    /\ ListenPort \in [Hosts -> Ports]
    /\ StoredPassword \in [Names \X Users -> Passwords \cup {NoPassword}]
    /\ ServerLists \subseteq Seq(Stored) /\ \A list \in ServerLists : Len(list) <= MaxServers
    /\ NewServer \in Stored
    /\ Entries \subseteq Entry
    /\ MaxServers \in Nat /\ MaxEdits \in Nat /\ MaxPages \in Nat
    /\ Listings \subseteq SUBSET Paths
    /\ MaxAdded \in Nat

VARIABLES
    phase,       \* "running", "quitting" in ~MediaMtxModel, "gone" when it is done
    servers,     \* m_servers of the list
    file,        \* data/mediamtx-servers.json
    inProgress,  \* m_refreshInProgress
    pending,     \* m_pendingServerIndex, 0 for none
    testOnly,    \* m_testOnly
    current,     \* m_currentServerIndex, 0 for none
    rows,        \* m_streams
    worker,      \* where the worker is in doFetch(), see Worker
    answer,      \* the fetchFinished on its way to the GUI thread, or NoAnswer
    document,    \* the streams that were added, see Added
    asked,       \* history: the list is still the one the request under way was made from
    listedAt,    \* history: the position the rows were made of, 0 once the list was changed
    edits        \* changes of the list so far

listVars  == <<servers, file, edits>>
fetchVars == <<inProgress, pending, testOnly>>
rowVars   == <<current, rows>>
history   == <<asked, listedAt>>
vars == <<phase, listVars, fetchVars, rowVars, worker, answer, document, history>>

Url == [host : Hosts \cup {NoHost}, port : Ports \cup {NoPort}]

\* origin and detected are no part of the program: they say whose answer listed the path,
\* and whether that answer came with the global configuration.
Row == [path : Paths, url : Url, auth : BOOLEAN, origin : Hosts, detected : BOOLEAN]

Credentials == [user : Users \cup {NoUser}, password : Passwords \cup {NoPassword}]
NoCredentials == [user |-> NoUser, password |-> NoPassword]

\* A stream of the document: the path it was made of, the endpoint it dials with the
\* credentials embedded in it, and whether the path was known to need any.
\* The user name and session password a WHEP stream carries besides are left out.
Added == [path : Paths, url : Url, embedded : Credentials, auth : BOOLEAN]

\* The worker: the step it is at, the host it asks (NoHost for a URL without one), what
\* the answer is for, the page to ask for next, and what it has gathered.
Worker == [step : {"none", "queued", "paths", "configured", "global"},
           host : Hosts \cup {NoHost}, test : BOOLEAN, page : 0 .. MaxPages + 1,
           active : SUBSET Paths, configured : SUBSET Paths]
NoWork == [step |-> "none", host |-> NoHost, test |-> FALSE, page |-> 0, active |-> {},
           configured |-> {}]

Answer == [ok : BOOLEAN, host : Hosts \cup {NoHost}, active : SUBSET Paths,
           configured : SUBSET Paths, detected : BOOLEAN]
NoAnswer == [ok |-> FALSE, host |-> "no answer", active |-> {}, configured |-> {},
             detected |-> FALSE]

-----------------------------------------------------------------------------
(* The list of servers *)

\* serverAt(): the empty map of an index that is not in the list.
NoServer == [name |-> "", host |-> NoHost, user |-> NoUser, auto |-> FALSE, srt |-> NoPort,
             web |-> NoPort, password |-> NoPassword]
ServerAt(i) == IF i \in DOMAIN servers THEN servers[i] ELSE NoServer

\* A password entered for the session wins over that of the credential manager, which
\* has one only for a server with a user.
EffectivePassword(s) ==
    IF s.password # NoPassword THEN s.password
    ELSE IF s.user # NoUser THEN StoredPassword[<<s.name, s.user>>] ELSE NoPassword

ToStored(s) == [name |-> s.name, host |-> s.host, user |-> s.user, auto |-> s.auto,
                srt |-> s.srt, web |-> s.web]
ToServer(s, password) ==
    [name |-> s.name, host |-> s.host, user |-> s.user, auto |-> s.auto, srt |-> s.srt,
     web |-> s.web, password |-> password]

\* The passwords known under a name; the last server of that name is the one whose
\* password is kept.
PasswordOf(list, name) ==
    LET known == {i \in DOMAIN list : list[i].name = name /\ list[i].password # NoPassword}
    IN  IF known = {} THEN NoPassword
        ELSE list[CHOOSE i \in known : \A j \in known : j <= i].password

Complete(s) == s.host # NoHost

\* updateServersList(): servers without a host (or a name, which is left out) are dropped,
\* and the passwords entered so far are kept under the names of their servers.
Reloaded(list, stored) ==
    LET kept == Without(stored, {s \in Stored : ~Complete(s)})
    IN  [i \in DOMAIN kept |-> ToServer(kept[i], PasswordOf(list, kept[i].name))]

Saved(list) == [i \in DOMAIN list |-> ToStored(list[i])]

\* What saveServersToFile() and the constructor of the list leave behind.
Init ==
    /\ phase = "running"
    /\ file \in ServerLists
    /\ servers = Reloaded(<<>>, file)
    /\ inProgress = FALSE /\ pending = 0 /\ testOnly = FALSE
    /\ current = 0 /\ rows = {}
    /\ worker = NoWork /\ answer = NoAnswer
    /\ document = {}
    /\ asked = FALSE /\ listedAt = 0
    /\ edits = 0

\* The buttons of the dialog, which may be opened at any time.
Dialog == phase = "running"

\* Every edit of the list writes the whole list to the file, ports included that were
\* detected since it was read.
EditList(list) ==
    /\ edits < MaxEdits
    /\ edits' = edits + 1
    /\ servers' = list
    /\ file' = Saved(list)
    /\ asked' = FALSE /\ listedAt' = 0
    /\ UNCHANGED <<phase, fetchVars, rowVars, worker, answer, document>>

\* Add New adds an entry with the defaults: no user, and a host of its own.
AddServer ==
    /\ Dialog
    /\ Len(servers) < MaxServers
    /\ EditList(Append(servers, ToServer(NewServer, NoPassword)))

\* The password and the SRT port are not fields of the dialog and stay as they are.
UpdateServer(i, e) ==
    /\ Dialog
    /\ EditList([servers EXCEPT ![i] =
                    [@ EXCEPT !.name = e.name, !.host = e.host, !.user = e.user,
                              !.auto = e.auto, !.web = e.web]])

RemoveServer(i) ==
    /\ Dialog
    /\ EditList([k \in 1 .. Len(servers) - 1 |-> IF k < i THEN servers[k] ELSE servers[k + 1]])

\* The arrows move a server by one place.
MoveServer(i) ==
    /\ Dialog
    /\ i + 1 \in DOMAIN servers
    /\ EditList([servers EXCEPT ![i] = servers[i + 1], ![i + 1] = servers[i]])

\* A password is kept in memory and never written to the file.
SetPassword(i, password) ==
    /\ Dialog
    /\ servers[i].password # password
    /\ edits < MaxEdits
    /\ edits' = edits + 1
    /\ servers' = [servers EXCEPT ![i].password = password]
    /\ UNCHANGED <<phase, file, fetchVars, rowVars, worker, answer, document, history>>

\* onVisibleChanged: the dialog reads the list again each time it opens, and forgets the
\* rows of the time before unless a fetch is still under way.
OpenDialog ==
    /\ Dialog
    /\ servers' = Reloaded(servers, file)
    /\ rows' = IF inProgress THEN rows ELSE {}
    /\ asked' = FALSE /\ listedAt' = 0
    /\ UNCHANGED <<phase, file, edits, fetchVars, current, worker, answer, document>>

-----------------------------------------------------------------------------
(* A fetch, as the GUI thread starts it *)

\* Mutant: a fetch may be started while one is under way.
MayFetchAlways(i) == i \in DOMAIN servers

MayFetch(i) == ~inProgress /\ i \in DOMAIN servers

\* refresh() and testConnection(): the request that goes to the worker holds the URL and the
\* credentials, and the position of the server stays here.
Fetch(i, test) ==
    /\ Dialog
    /\ MayFetch(i)
    /\ pending' = i
    /\ testOnly' = test
    /\ inProgress' = TRUE
    /\ worker' = [NoWork EXCEPT !.step = "queued", !.host = servers[i].host, !.test = test]
    /\ asked' = TRUE
    /\ UNCHANGED <<phase, listVars, rowVars, answer, document, listedAt>>

-----------------------------------------------------------------------------
(* The worker *)

Working == phase # "gone" /\ worker # NoWork

\* What doFetch() leaves alone: all that is the GUI thread's.
GuiVars == <<phase, listVars, fetchVars, rowVars, document, history>>

\* doFetch() goes on to the next of its requests, or ends with the fetchFinished that is
\* queued to the GUI thread.
GoOn(w) == worker' = w /\ UNCHANGED <<answer, GuiVars>>

Finish(a) == worker' = NoWork /\ answer' = a /\ UNCHANGED GuiVars

GiveUp == Finish([NoAnswer EXCEPT !.host = worker.host])

Succeed(detected) ==
    Finish([ok |-> TRUE, host |-> worker.host, active |-> worker.active,
            configured |-> worker.configured, detected |-> detected])

\* After the paths, a refresh asks for the configured ones; both ask for the global
\* configuration last.
AfterPaths(w) == [w EXCEPT !.step = IF w.test THEN "global" ELSE "configured", !.page = 0]
AfterConfigured(w) == [w EXCEPT !.step = "global", !.page = 0]

\* The URL is checked before the first request.
BeginFetch ==
    /\ Working
    /\ worker.step = "queued"
    /\ IF worker.host = NoHost THEN GiveUp ELSE GoOn([worker EXCEPT !.step = "paths"])

\* Mutant: the cap is left out, and the page number wraps only to keep the model finite.
NextPageUncapped(w, more) == [again |-> more, page |-> (w.page + 1) % (MaxPages + 2)]

\* One page of a list: it is asked for again while the server reports more pages, up to
\* the cap.
NextPage(w, more) == [again |-> more /\ w.page + 1 <= MaxPages, page |-> w.page + 1]

\* get() answers, fails or times out.  ~MediaMtxModel ends the event loop it waits in, and
\* every later one at once: a request that has no answer by then is given up.
MayAnswer == phase = "running"

GetPaths(listed, more) ==
    /\ Working
    /\ worker.step = "paths"
    /\ MayAnswer
    /\ LET next == NextPage(worker, more)
           gathered == [worker EXCEPT !.active = @ \cup listed, !.page = next.page]
       IN  GoOn(IF next.again THEN gathered ELSE AfterPaths(gathered))

\* Mutant: waiting for an answer is not ended by ~MediaMtxModel.
PathsFailOnTime ==
    /\ Working
    /\ phase = "running"
    /\ worker.step = "paths"
    /\ GiveUp

PathsFail ==
    /\ Working
    /\ worker.step = "paths"
    /\ GiveUp

GetConfigured(listed, more) ==
    /\ Working
    /\ worker.step = "configured"
    /\ MayAnswer
    /\ LET next == NextPage(worker, more)
           gathered == [worker EXCEPT !.configured = @ \cup listed, !.page = next.page]
       IN  GoOn(IF next.again THEN gathered ELSE AfterConfigured(gathered))

\* The configured paths are a convenience: without them the answer is still a success.
ConfiguredFail ==
    /\ Working
    /\ worker.step = "configured"
    /\ GoOn(AfterConfigured([worker EXCEPT !.configured = {}]))

GetGlobal ==
    /\ Working
    /\ worker.step = "global"
    /\ \/ MayAnswer /\ Succeed(TRUE)
       \/ Succeed(FALSE)

-----------------------------------------------------------------------------
(* The answer *)

\* applyGlobalConfig(): the SRT port in any case, the WebRTC port when the server's entry
\* asks for it.  They go into the list and not into the file.
Detected(list, i, a) ==
    IF a.detected /\ i \in DOMAIN list
    THEN [list EXCEPT ![i] = [list[i] EXCEPT
                                 !.srt = ListenPort[a.host],
                                 !.web = IF list[i].auto THEN ListenPort[a.host] ELSE @]]
    ELSE list

\* buildWhepUrl() without credentials.
WhepUrl(s) == [host |-> s.host, port |-> s.web]

\* One row for every active path, then one for every configured path that is not active.
\* Which paths need authentication is only known from the configured ones.
Rows(s, a) ==
    {[path |-> p, url |-> WhepUrl(s), auth |-> p \in a.configured \cap ProtectedPaths,
      origin |-> a.host, detected |-> a.detected] :
        p \in a.active \cup a.configured}

\* Mutant: the rows are built before the ports of the answer are applied.
RowsServerBefore(list, i, a) == IF i \in DOMAIN list THEN list[i] ELSE NoServer

\* The server the rows are built from: with the ports of this very answer.
RowsServer(list, i, a) ==
    IF i \in DOMAIN list THEN Detected(list, i, a)[i] ELSE NoServer

\* onFetchFinished() of a fetch that failed: the rows stay.
FetchFails ==
    /\ phase = "running"
    /\ answer # NoAnswer /\ ~answer.ok
    /\ answer' = NoAnswer
    /\ inProgress' = FALSE
    /\ pending' = 0
    /\ asked' = FALSE
    /\ UNCHANGED <<phase, listVars, testOnly, rowVars, worker, document, listedAt>>

\* onFetchFinished() of a fetch that succeeded.  The position asked becomes the current
\* server, whatever is at that position by now.  A test stops there, with the rows of
\* another fetch, perhaps of another server, still shown.
FetchSucceeds ==
    /\ phase = "running"
    /\ answer # NoAnswer /\ answer.ok
    /\ answer' = NoAnswer
    /\ inProgress' = FALSE
    /\ pending' = 0
    /\ current' = pending
    /\ servers' = Detected(servers, pending, answer)
    /\ testOnly' = FALSE
    /\ rows' = IF testOnly THEN rows ELSE Rows(RowsServer(servers, pending, answer), answer)
    /\ asked' = FALSE
    /\ listedAt' = IF testOnly THEN listedAt ELSE IF asked THEN pending ELSE 0
    /\ UNCHANGED <<phase, file, edits, worker, document>>

-----------------------------------------------------------------------------
(* Add to Configuration *)

Usable(s) == s.user # NoUser /\ EffectivePassword(s) # NoPassword

\* Mutant: only the user name of the server is looked at.
RefusedWithoutUser(r) == r.auth /\ ServerAt(current).user = NoUser

\* A path that needs authentication is refused without a user or without a password.
Refused(r) == r.auth /\ ~Usable(ServerAt(current))

\* Credentials are embedded when the user ticked the box, for a path that needs them, and
\* for an SRT path whenever there are any.
Embeds(r, ticked) ==
    \/ ticked
    \/ r.auth
    \/ r.path \in SrtPaths /\ Usable(ServerAt(current))

\* What buildWhepUrl() and srtReadEndpointAt() put into the endpoint.
Embedded(s, embeds) ==
    IF embeds /\ s.user # NoUser THEN [user |-> s.user, password |-> EffectivePassword(s)]
    ELSE NoCredentials

\* The endpoint of a row: an SRT endpoint and a URL with credentials are built from the
\* current server, a URL without is that of the row.
Endpoint(r, embeds) ==
    LET s == ServerAt(current)
    IN  IF r.path \in SrtPaths THEN [host |-> s.host, port |-> s.srt]
        ELSE IF embeds THEN WhepUrl(s) ELSE r.url

\* addMediaMtxStream(): an endpoint without a host is refused, here or by commitEdit(), and
\* so is one that is in the document already, credentials included.  Without embedded
\* credentials a WHEP stream carries the user name, and the password for this session.
AddMediaMtxStream(r, ticked) ==
    LET s == ServerAt(current)
        embeds == Embeds(r, ticked)
        url == Endpoint(r, embeds)
        embedded == Embedded(s, embeds)
    IN  /\ Dialog
        /\ r \in rows
        /\ Cardinality(document) < MaxAdded
        /\ ~Refused(r)
        /\ url.host # NoHost
        /\ ~\E d \in document : d.path = r.path /\ d.url = url /\ d.embedded = embedded
        /\ document' = document \cup
              {[path |-> r.path, url |-> url, embedded |-> embedded, auth |-> r.auth]}
        /\ UNCHANGED <<phase, listVars, fetchVars, rowVars, worker, answer, history>>

-----------------------------------------------------------------------------
(* The end of the program *)

\* ~MediaMtxModel asks the thread to quit and waits for it; nobody asks for the rows and the
\* list any more.
Quit ==
    /\ phase = "running"
    /\ phase' = "quitting"
    /\ servers' = <<>> /\ rows' = {} /\ current' = 0
    /\ asked' = FALSE /\ listedAt' = 0
    /\ UNCHANGED <<file, edits, fetchVars, worker, answer, document>>

\* The thread is done when it is between two events; a request it has not begun is lost.
Gone ==
    /\ phase = "quitting"
    /\ worker.step \in {"none", "queued"}
    /\ phase' = "gone"
    /\ UNCHANGED <<listVars, fetchVars, rowVars, worker, answer, document, history>>

-----------------------------------------------------------------------------

WorkerNext ==
    \/ BeginFetch
    \/ \E listed \in Listings, more \in BOOLEAN :
          GetPaths(listed, more) \/ GetConfigured(listed, more)
    \/ PathsFail \/ ConfiguredFail \/ GetGlobal

FetchFinished == FetchFails \/ FetchSucceeds

Edit ==
    \/ AddServer
    \/ \E i \in DOMAIN servers :
          \/ \E e \in Entries : UpdateServer(i, e)
          \/ RemoveServer(i) \/ MoveServer(i)
          \/ \E password \in Passwords \cup {NoPassword} : SetPassword(i, password)

Next ==
    \/ Edit \/ OpenDialog
    \/ \E i \in DOMAIN servers, test \in BOOLEAN : Fetch(i, test)
    \/ WorkerNext
    \/ FetchFinished
    \/ \E r \in rows, ticked \in BOOLEAN : AddMediaMtxStream(r, ticked)
    \/ Quit \/ Gone

\* The two threads run: a request ends after 8 s at the latest, the event loop of the GUI
\* thread takes what is queued to it, and a thread asked to quit does so when it is idle.
\* Nothing is assumed of the user or of the servers.
Spec == Init /\ [][Next]_vars /\ WF_vars(WorkerNext) /\ WF_vars(FetchFinished) /\ WF_vars(Gone)

-----------------------------------------------------------------------------
(* Properties *)

\* One request is under way at a time: while refreshInProgress is set the worker has it or
\* its answer is queued, and the position it was made for is kept.
OneRequest ==
    /\ inProgress <=> pending # 0
    /\ worker # NoWork \/ answer # NoAnswer => inProgress
    /\ worker = NoWork \/ answer = NoAnswer

\* The values the client's variables range over, with one request under way at a time.
TypeOK ==
    /\ phase \in {"running", "quitting", "gone"}
    /\ servers \in Seq(Server) /\ Len(servers) <= MaxServers
    /\ file \in Seq(Stored)
    /\ inProgress \in BOOLEAN /\ testOnly \in BOOLEAN
    /\ pending \in 0 .. MaxServers /\ current \in 0 .. MaxServers
    /\ rows \subseteq Row
    /\ worker \in Worker
    /\ answer \in Answer \cup {NoAnswer}
    /\ document \subseteq Added
    /\ asked \in BOOLEAN /\ listedAt \in 0 .. MaxServers
    /\ edits \in 0 .. MaxEdits
    /\ OneRequest

\* While the list of servers is the one the rows were asked for and made with (it was
\* neither edited nor read again, during the request or since) and the current server is
\* the one that listed them, whatever was fetched or tested in between, every row stands
\* for the server that listed it: its URL names that host, an SRT endpoint built from the
\* current server does too, and both have the ports the server reported, the WebRTC port
\* when its entry asks for detection (onFetchFinished, applyGlobalConfig, buildWhepUrl).
SettledRowsReachTheirServer ==
    listedAt # 0 /\ current = listedAt =>
        \A r \in rows :
            /\ r.url.host = r.origin
            /\ ServerAt(current).host = r.origin
            /\ r.detected => /\ ServerAt(current).srt = ListenPort[r.origin]
                             /\ ServerAt(current).auto => r.url.port = ListenPort[r.origin]

\* While the list is left alone, the endpoint for reading a listed path over SRT is at the
\* server that listed it, a test of another server or not: what mediamtxmodel.h:196 says
\* of srtReadEndpointAt().
SrtEndpointsReachTheirServer ==
    listedAt # 0 =>
        \A r \in rows : r.path \in SrtPaths => Endpoint(r, FALSE).host = r.origin

\* The URL of a row, when it has a host, is on the server that lists the path, whatever was
\* done to the list while the answer was on its way: what mediamtxmodel.h:149 says of the
\* model.
UrlsReachTheirServer == \A r \in rows : r.url.host \in {r.origin, NoHost}

\* A path marked as needing authentication is never in the document without a user and a
\* password, whatever happened to the list between the fetch and the click
\* (addMediaMtxStream checks one place and builds the endpoint in another).
ProtectedPathsCarryCredentials ==
    \A d \in document :
        d.auth => d.embedded.user # NoUser /\ d.embedded.password # NoPassword

\* Every fetch ends: a request is given up after 8 s, and a server that always reports one
\* more page is not asked for ever (get(), the cap in fetchList).
FetchEnds == inProgress ~> (~inProgress \/ phase # "running")

\* The program can be closed at any time: the worker is waited for, and it does not keep
\* waiting for a server (~MediaMtxModel).
QuitCompletes == phase = "quitting" ~> phase = "gone"
=============================================================================
