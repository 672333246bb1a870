----------------------------- MODULE WhepSession -----------------------------
(***************************************************************************)
(* A WHEP stream from its signaling to the retries of its pipeline         *)
(* (webrtc/webrtcsource.cpp, webrtc/whepclient.cpp, and start(), stop(),   *)
(* the timer and the state slot of core/streampipeline.cpp).               *)
(*                                                                         *)
(* One run of the source asks the server for ICE servers, makes a peer     *)
(* connection, posts its offer once ICE has gathered, and applies the      *)
(* answer.  All of that happens on the GUI thread, in handlers; but        *)
(* replies of the network, reports of the peer connection and deferred     *)
(* deletions reach it through its event queue, and the handlers in front   *)
(* of them may stop or restart the source, so that a handler meets a run   *)
(* other than the one it was posted for.                                   *)
(*                                                                         *)
(* The peer connection, the network and the server are external.  What is  *)
(* assumed of them is what the code relies on: a peer connection that was  *)
(* closed or destroyed calls back no more, a client that was deleted       *)
(* receives no reply, and deleting a client whose POST is pending ends     *)
(* that POST with an error at once (QNetworkReply::abort).                 *)
(*                                                                         *)
(* Abstractions.  Media, codecs and texts are left out.  A reply says what *)
(* it makes of the run, not why.  Of the session on the server there is    *)
(* only whether the client knows it.                                       *)
(***************************************************************************)
EXTENDS Naturals, Sequences, Filtering

CONSTANTS Clients,    \* the clients there may be at a time, those being deleted included
          MaxFaults,  \* bound on the replies that refuse or break, and on lost connections
          None        \* no client, no peer connection

\* What there is of a peer connection and of a client, see NewPeer and NewClient.
Peer == [state : {"new", "connected", "disconnected", "failed"}, gathered : BOOLEAN,
         described : BOOLEAN, offered : BOOLEAN, answer : {"none", "its own", "of another"}]
Client == [options : {"asked", "ended"}, post : {"none", "asked", "ended", "handled"},
           resource : BOOLEAN]

ASSUME WhepAssumption ==
    /\ MaxFaults \in Nat
    /\ None \notin Clients \cup Peer \cup Client

VARIABLES
    life,       \* of the pipeline and its source: "new", "started", "stopped", "deleted", "crashed"
    pipe,       \* the state the pipeline reports, and whether its timer is armed
    state,      \* StreamSource::m_state
    whep,       \* m_whep
    offerSent,  \* m_offerSent
    peer,       \* m_peer, see NewPeer
    clients,    \* what has become of the requests of each client, see NewClient
    events,     \* what is posted to the GUI thread, in order
    faults      \* what went wrong so far

source == <<state, whep, offerSent, peer>>
whepVars == <<life, pipe, source, clients, events, faults>>

\* A peer connection: the state it has reported, whether ICE has gathered, whether it has
\* a description to offer, whether that one was offered, and what it was answered.
NewPeer == [state |-> "new", gathered |-> FALSE, described |-> TRUE, offered |-> FALSE,
            answer |-> "none"]

\* A client of this source: its OPTIONS request, its POST request, and whether it knows
\* a session of the server.
NewClient == [options |-> "asked", post |-> "none", resource |-> FALSE]

\* The events, each with what it is about.
Event(kind, about, what) == [kind |-> kind, about |-> about, what |-> what]
StateEvent(s) == Event("state", None, s)

\* m_running of the pipeline.
running == life = "started"

WhepInit ==
    /\ life = "new"
    /\ pipe = [state |-> "Idle", timer |-> FALSE]
    /\ state = "Idle"
    /\ whep = None /\ offerSent = FALSE /\ peer = None
    /\ clients = [c \in Clients |-> None]
    /\ events = <<>>
    /\ faults = 0

-----------------------------------------------------------------------------
(* Reporting a state *)

\* Mutant: only a stream that does not show Idle is scheduled for a retry.
SlotShown(p, s) ==
    IF s = "Failed" /\ running /\ p.state # "Idle" THEN [state |-> "Retrying", timer |-> TRUE]
    ELSE [p EXCEPT !.state = s]

\* The pipeline's slot, on the GUI thread.
Slot(p, s) ==
    IF s = "Failed" /\ running THEN [state |-> "Retrying", timer |-> TRUE]
    ELSE [p EXCEPT !.state = s]

\* setState() on the GUI thread: a change is delivered at once.
Set(at, s) ==
    IF at.source = s THEN at ELSE [source |-> s, pipe |-> Slot(at.pipe, s)]

Now == [source |-> state, pipe |-> pipe]

Becomes(at) == state' = at.source /\ pipe' = at.pipe

\* setState() on a thread of the peer connection: a change is posted.
Reports(s) ==
    /\ state' = s
    /\ events' = IF state = s THEN events ELSE Append(events, StateEvent(s))

Fault == faults < MaxFaults /\ faults' = faults + 1

-----------------------------------------------------------------------------
(* The source is stopped and started *)

\* How a peer connection says that it has been closed: not at all, at once, or from a thread
\* of its own.
Goodbyes == {"silent", "direct", "posted"}

\* Closing the peer connection, if there is one: what has been reported, and what was posted.
Closed(at, goodbye) ==
    IF peer = None \/ goodbye = "silent" THEN at
    ELSE IF goodbye = "direct" THEN Set(at, "Idle")
    ELSE [at EXCEPT !.source = "Idle"]

ClosedEvents(at, goodbye) ==
    IF peer # None /\ goodbye = "posted" /\ at.source # "Idle"
    THEN <<StateEvent("Idle")>> ELSE <<>>

\* Mutant: a peer connection alone is not stopped.
NothingToStopAlone == whep = None

NothingToStop == whep = None /\ peer = None

\* deleteSession(): the session the client knows of is given up.
Dropped(cs) ==
    IF whep = None THEN cs ELSE [cs EXCEPT ![whep].resource = FALSE]

\* Mutant: only a client that knows of a session is deleted.
DropEventsOfSession ==
    IF whep = None \/ ~clients[whep].resource THEN <<>> ELSE <<Event("delete client", whep, None)>>

DropEvents == IF whep = None THEN <<>> ELSE <<Event("delete client", whep, None)>>

\* stop() of the source, and what it leaves to be reported and handled.
Stopped(goodbye) ==
    IF NothingToStop THEN Now
    ELSE Set(Closed(Set(Now, "Stopping"), goodbye), "Idle")

StopEvents(goodbye) ==
    IF NothingToStop THEN <<>>
    ELSE DropEvents \o ClosedEvents(Set(Now, "Stopping"), goodbye)

\* start() of the source, which stops it first.
StartSource(goodbye) ==
    \E c \in Clients :
        /\ clients[c] = None
        /\ c = CHOOSE free \in Clients : clients[free] = None
        /\ whep' = c
        /\ clients' = [Dropped(clients) EXCEPT ![c] = NewClient]
        /\ peer' = None
        /\ offerSent' = FALSE
        /\ events' = events \o StopEvents(goodbye)

\* start() of the pipeline.
Start ==
    /\ life = "new"
    /\ life' = "started"
    /\ StartSource("silent")
    /\ Becomes(Set(Now, "Connecting"))
    /\ UNCHANGED faults

\* The reconnect timer.
TimerFires(goodbye) ==
    /\ pipe.timer /\ running
    /\ StartSource(goodbye)
    /\ LET at == Set(Stopped(goodbye), "Connecting")
       IN  /\ state' = at.source
           /\ pipe' = [at.pipe EXCEPT !.timer = FALSE]
    /\ UNCHANGED <<life, faults>>

SourceDeletion == <<Event("delete source", None, None)>>

\* stop() of the pipeline, which drops its source.
Stop(goodbye) ==
    /\ running
    /\ life' = "stopped"
    /\ whep' = None /\ peer' = None
    /\ clients' = Dropped(clients)
    /\ events' = events \o StopEvents(goodbye) \o SourceDeletion
    /\ state' = Stopped(goodbye).source
    /\ pipe' = [state |-> "Idle", timer |-> FALSE]
    /\ UNCHANGED <<offerSent, faults>>

-----------------------------------------------------------------------------
(* The network and the server *)

\* The OPTIONS request has ended, well or not.
OptionsEnd(c) ==
    /\ life # "crashed"
    /\ clients[c] # None
    /\ clients[c].options = "asked"
    /\ clients' = [clients EXCEPT ![c].options = "ended"]
    /\ events' = Append(events, Event("options", c, None))
    /\ UNCHANGED <<life, pipe, source, faults>>

\* The POST has ended: with an answer, with one the peer connection cannot use, or without.
PostEnds(c, result) ==
    /\ life # "crashed"
    /\ clients[c] # None
    /\ clients[c].post = "asked"
    /\ IF result = "answer" THEN UNCHANGED faults ELSE Fault
    /\ clients' = [clients EXCEPT ![c].post = "ended"]
    /\ events' = Append(events, Event("post", c, result))
    /\ UNCHANGED <<life, pipe, source>>

-----------------------------------------------------------------------------
(* The peer connection *)

Gathers ==
    /\ life # "crashed" /\ peer # None
    /\ peer.described /\ ~peer.gathered
    /\ peer' = [peer EXCEPT !.gathered = TRUE]
    /\ events' = Append(events, Event("gathered", None, None))
    /\ UNCHANGED <<life, pipe, state, whep, offerSent, clients, faults>>

Connects ==
    /\ life # "crashed" /\ peer # None
    /\ peer.answer = "its own"
    /\ peer.state \in {"new", "disconnected"}
    /\ peer' = [peer EXCEPT !.state = "connected"]
    /\ Reports("Running")
    /\ UNCHANGED <<life, pipe, whep, offerSent, clients, faults>>

Disconnects ==
    /\ life # "crashed" /\ peer # None
    /\ peer.state = "connected"
    /\ Fault
    /\ peer' = [peer EXCEPT !.state = "disconnected"]
    /\ Reports("Failed")
    /\ UNCHANGED <<life, pipe, whep, offerSent, clients>>

\* ICE gives up: after it was connected, or on the answer to another's offer.
GivesUp ==
    /\ life # "crashed" /\ peer # None
    /\ \/ peer.state = "disconnected"
       \/ peer.state = "new" /\ peer.answer = "of another"
    /\ peer' = [peer EXCEPT !.state = "failed"]
    /\ Reports("Failed")
    /\ UNCHANGED <<life, pipe, whep, offerSent, clients, faults>>

-----------------------------------------------------------------------------
(* The handlers of the GUI thread *)

Due(kind) == life # "crashed" /\ events # <<>> /\ Head(events).kind = kind

Handled == events' = Tail(events)

\* A state reported from another thread reaches the pipeline.
OnState ==
    /\ Due("state")
    /\ Handled
    /\ pipe' = Slot(pipe, Head(events).what)
    /\ UNCHANGED <<life, source, clients, faults>>

\* iceServersReady: a peer connection is made, in the place of any there is.
BeginNegotiation(goodbye) ==
    /\ Due("options")
    /\ peer' = NewPeer
    /\ Becomes(Closed(Now, goodbye))
    /\ events' = Tail(events) \o ClosedEvents(Now, goodbye)
    /\ UNCHANGED <<life, whep, offerSent, clients, faults>>

\* It cannot be made, or it cannot make an offer.
NegotiationFails(goodbye) ==
    /\ Due("options")
    /\ Fault
    /\ \/ /\ Becomes(Set(Now, "Failed"))
          /\ Handled
          /\ UNCHANGED peer
       \/ /\ peer' = [NewPeer EXCEPT !.described = FALSE]
          /\ Becomes(Set(Closed(Now, goodbye), "Failed"))
          /\ events' = Tail(events) \o ClosedEvents(Now, goodbye)
    /\ UNCHANGED <<life, whep, offerSent, clients>>

\* There is an offer that was not posted yet.
Offers == ~offerSent /\ peer # None /\ peer.described

\* sendOffer(): a POST that is pending is ended first.
SendOffer ==
    /\ Becomes(IF clients[whep].post = "asked" THEN Set(Now, "Failed") ELSE Now)
    /\ clients' = [clients EXCEPT ![whep].post = "asked"]

OnLocalDescriptionReady ==
    /\ Due("gathered")
    /\ Handled
    /\ \/ /\ Offers
          /\ whep # None
          /\ SendOffer
          /\ offerSent' = TRUE
          /\ peer' = [peer EXCEPT !.offered = TRUE]
       \/ /\ ~Offers
          /\ UNCHANGED <<state, pipe, clients, offerSent, peer>>
    /\ UNCHANGED <<life, whep, faults>>

\* There is an offer and no client to post it: the code follows a null pointer.
OffersToNobody ==
    /\ Due("gathered")
    /\ Offers
    /\ whep = None
    /\ Handled
    /\ life' = "crashed"
    /\ UNCHANGED <<pipe, source, clients, faults>>

\* What a client makes of the reply to its POST: an answer that can be read names the session.
Taken(c, result) ==
    [clients EXCEPT ![c].post = "handled", ![c].resource = @ \/ result # "refused"]

\* The answer is applied to the peer connection there is, whoever it was meant for.
Answered(p) ==
    [p EXCEPT !.answer = IF p.offered THEN "its own" ELSE "of another"]

\* The POST of a client has ended.
OnPost ==
    /\ Due("post")
    /\ Handled
    /\ LET result == Head(events).what
           applies == peer # None /\ result = "answer" /\ peer.answer = "none"
           fails == result = "refused" \/ (peer # None /\ ~applies)
       IN  /\ clients' = Taken(Head(events).about, result)
           /\ Becomes(IF fails THEN Set(Now, "Failed") ELSE Now)
           /\ peer' = IF applies THEN Answered(peer) ELSE peer
    /\ UNCHANGED <<life, whep, offerSent, faults>>

Results == {"answer", "unusable", "refused"}

\* What may be posted for a client, other than its deletion.
RepliesTo(c) == {Event("options", c, None)} \cup {Event("post", c, result) : result \in Results}

\* A client is deleted: what is posted for it is dropped, and its POST, if pending, fails.
OnDeleteClient ==
    /\ Due("delete client")
    /\ LET c == Head(events).about
       IN  /\ events' = Without(Tail(events), RepliesTo(c))
           /\ clients' = [clients EXCEPT ![c] = None]
           /\ Becomes(IF clients[c].post \in {"asked", "ended"} THEN Set(Now, "Failed") ELSE Now)
    /\ UNCHANGED <<life, whep, offerSent, peer, faults>>

\* The source is deleted, and stops first.
OnDeleteSource(goodbye) ==
    /\ Due("delete source")
    /\ Becomes(Stopped(goodbye))
    /\ events' = Without(Tail(events), {Event("gathered", None, None)})
                     \o StopEvents(goodbye)
    /\ life' = "deleted"
    /\ peer' = IF NothingToStop THEN peer ELSE None
    /\ whep' = None
    /\ UNCHANGED <<offerSent, clients, faults>>

Rests ==
    /\ (life = "crashed") \/ (life = "deleted" /\ events = <<>>)
    /\ UNCHANGED whepVars

-----------------------------------------------------------------------------

Handle ==
    \/ OnState \/ OnLocalDescriptionReady \/ OffersToNobody \/ OnPost \/ OnDeleteClient
    \/ \E goodbye \in Goodbyes :
          BeginNegotiation(goodbye) \/ NegotiationFails(goodbye) \/ OnDeleteSource(goodbye)

WhepNext ==
    \/ Handle
    \/ Start \/ Rests
    \/ \E goodbye \in Goodbyes : TimerFires(goodbye) \/ Stop(goodbye)
    \/ \E c \in Clients :
          OptionsEnd(c) \/ \E result \in Results : PostEnds(c, result)
    \/ Gathers \/ Connects \/ Disconnects \/ GivesUp

\* The event loop handles what is posted, and the timer.
Fairness == WF_whepVars(Handle) /\ WF_whepVars(\E goodbye \in Goodbyes : TimerFires(goodbye))

WhepSpec == WhepInit /\ [][WhepNext]_whepVars /\ Fairness

-----------------------------------------------------------------------------
(* Properties *)

States == {"Idle", "Connecting", "Running", "Stopping", "Failed", "Retrying"}

WhepTypeOK ==
    /\ life \in {"new", "started", "stopped", "deleted", "crashed"}
    /\ offerSent \in BOOLEAN
    /\ pipe \in [state : States, timer : BOOLEAN]
    /\ state \in States \ {"Retrying"}
    /\ whep \in Clients \cup {None}
    /\ peer \in Peer \cup {None}
    /\ \A c \in Clients : clients[c] \in Client \cup {None}
    /\ whep # None => clients[whep] # None
    /\ faults \in 0 .. MaxFaults

\* When a stopped stream has been cleaned up, nothing of it is left: no timer, no client and
\* no peer connection, whatever was posted when it was stopped.
NothingSurvivesStop ==
    /\ ~running => ~pipe.timer
    /\ life = "deleted" => peer = None /\ whep = None
    /\ life = "deleted" /\ events = <<>> => \A c \in Clients : clients[c] = None

\* The clients that are to be deleted.
GivenUp == {c \in Clients : clients[c] # None /\ c # whep}

\* The pool of clients that a stream is.  A crash only strands what was to be deleted.
Pool == INSTANCE ClientPool WITH
            phase <- IF life = "crashed" THEN "stopped" ELSE life,
            own <- whep,
            doomed <- GivenUp

\* A source uses its clients as ClientPool says (WebRtcSource, m_whep): whatever retries,
\* stops and late replies meet, the one in use is not deleted, one that is given up is,
\* before its source, and none is taken into use before it is free.
ImplementsClientPool == Pool!Spec

\* A source that has failed is started again, or stopped: its report is not lost between
\* those of other runs (a change of state is reported once).
FailedSourceRestarts == (running /\ state = "Failed") ~> (state # "Failed" \/ ~running)
=============================================================================
