------------------------------- MODULE RtspSink -------------------------------
(***************************************************************************)
(* RtspSink (sinks/rtspsink.cpp): a stream served to RTSP players.  Two    *)
(* threads meet in the list of clients, under its mutex.                   *)
(*                                                                         *)
(*   - The server thread answers the requests of the control connections,  *)
(*     each of which is a session: SETUP puts a client in the list, PLAY   *)
(*     activates it, TEARDOWN and a disconnect mark it as dead.            *)
(*   - The pipeline's worker opens the sink, writes units and closes the   *)
(*     sink.  A write removes the dead clients, collects the clients that  *)
(*     are to have the unit, and serves them outside the mutex.            *)
(*                                                                         *)
(* A client is the object behind a pointer; an object that was removed is  *)
(* not seen again.  An endpoint is the address and the port of a SETUP.    *)
(*                                                                         *)
(* Abstractions.  A request that is refused or only answered changes       *)
(* nothing here.  Timestamps are left out.  A SETUP and a worker that      *)
(* reads the endpoint, which it does without the mutex, happen one after   *)
(* the other.  open() is one step: a player that connects before it        *)
(* returns is served like one that connects after.                         *)
(***************************************************************************)
EXTENDS Naturals, Sequences

CONSTANTS Sessions,    \* control connections
          Clients,     \* Client objects
          Endpoints,   \* where a player wants its media
          None,        \* no session, no endpoint
          MaxUnits     \* bound on the units written to an open sink

ASSUME RtspAssumption ==
    /\ None \notin Sessions \cup Endpoints
    /\ MaxUnits \in Nat

VARIABLES
    \* the sink and its server
    sinkOpen,   \* m_open
    server,     \* the thread of m_server runs
    hasAudio,   \* m_format.hasAudio
    conn,       \* the state of each control connection
    \* the list of clients
    list,       \* m_clients
    session,    \* sessionId of a client
    endpoint,   \* its destination and rtpPort
    active,     \* the clients that have received PLAY
    dead,       \* the clients the worker is to reap
    \* what only the worker touches
    started,    \* the clients that have had their first keyframe
    context,    \* where the muxer of a client sends, None without one
    worker,     \* where it is in a write or in close()
    targets,    \* the pointers it has collected and not yet served
    \* history
    used,       \* the objects that have been allocated
    units,      \* the units written since the sink was opened
    got,        \* which of these a client was sent
    played,     \* how many there were at its PLAY
    ended       \* how many had their targets collected when it was marked as dead

listVars    == <<list, session, endpoint, active, dead>>
workerVars  == <<started, context, worker, targets>>
historyVars == <<used, units, got, played, ended>>
vars == <<sinkOpen, server, hasAudio, conn, listVars, workerVars, historyVars>>

UnitKinds == {"key", "delta", "audio"}

Init ==
    /\ sinkOpen = FALSE /\ server = FALSE /\ hasAudio = FALSE
    /\ conn = [s \in Sessions |-> "none"]
    /\ list = {}
    /\ session = [c \in Clients |-> None]
    /\ endpoint = [c \in Clients |-> None]
    /\ active = {} /\ dead = {} /\ started = {}
    /\ context = [c \in Clients |-> None]
    /\ worker = "idle" /\ targets = {}
    /\ used = {} /\ units = <<>>
    /\ got = [c \in Clients |-> {}]
    /\ played = [c \in Clients |-> 0] /\ ended = [c \in Clients |-> 0]

-----------------------------------------------------------------------------
(* The server thread: connections and their requests *)

ServerFrame == UNCHANGED <<sinkOpen, server, hasAudio, workerVars, units, got>>

Accept(s) ==
    /\ server
    /\ conn[s] = "none"
    /\ conn' = [conn EXCEPT ![s] = "up"]
    /\ UNCHANGED <<listVars, used, played, ended>>
    /\ ServerFrame

\* The client of a session that has not been marked as dead.
LiveClients(s) == {c \in list \ dead : session[c] = s}

\* Mutant: a second SETUP makes the client wait for PLAY again.
SetupDeactivating(s) ==
    /\ server
    /\ conn[s] = "up"
    /\ \E e \in Endpoints :
          \/ /\ LiveClients(s) # {}
             /\ endpoint' = [c \in Clients |->
                               IF c \in LiveClients(s) THEN e ELSE endpoint[c]]
             /\ active' = active \ LiveClients(s)
             /\ UNCHANGED <<list, session, used>>
          \/ /\ LiveClients(s) = {}
             /\ \E c \in Clients \ used :
                   /\ list' = list \cup {c}
                   /\ used' = used \cup {c}
                   /\ session' = [session EXCEPT ![c] = s]
                   /\ endpoint' = [endpoint EXCEPT ![c] = e]
             /\ UNCHANGED active
    /\ UNCHANGED <<conn, dead, played, ended>>
    /\ ServerFrame

\* SETUP: addClient()
Setup(s) ==
    /\ server
    /\ conn[s] = "up"
    /\ \E e \in Endpoints :
          \/ /\ LiveClients(s) # {}
             /\ endpoint' = [c \in Clients |->
                               IF c \in LiveClients(s) THEN e ELSE endpoint[c]]
             /\ UNCHANGED <<list, session, used>>
          \/ /\ LiveClients(s) = {}
             /\ \E c \in Clients \ used :
                   /\ list' = list \cup {c}
                   /\ used' = used \cup {c}
                   /\ session' = [session EXCEPT ![c] = s]
                   /\ endpoint' = [endpoint EXCEPT ![c] = e]
    /\ UNCHANGED <<conn, active, dead, played, ended>>
    /\ ServerFrame

\* PLAY: activateClient()
Play(s) ==
    /\ server
    /\ conn[s] = "up"
    /\ active' = active \cup LiveClients(s)
    /\ played' = [c \in Clients |-> IF c \in LiveClients(s) \ active THEN Len(units)
                                                                    ELSE played[c]]
    /\ UNCHANGED <<conn, list, session, endpoint, dead, used, ended>>
    /\ ServerFrame

\* How many units have their targets collected.
Collected == IF worker = "collecting" THEN Len(units) - 1 ELSE Len(units)

\* The history of the clients that are marked as dead now.
EndedWith(marked) ==
    [c \in Clients |-> IF c \in marked \ dead THEN Collected ELSE ended[c]]

\* killClient() marks every client of the session.
Killed(s) == {c \in list : session[c] = s}

Teardown(s) ==
    /\ server
    /\ conn[s] = "up"
    /\ dead' = dead \cup Killed(s)
    /\ ended' = EndedWith(Killed(s))
    /\ UNCHANGED <<conn, list, session, endpoint, active, used, played>>
    /\ ServerFrame

Disconnect(s) ==
    /\ server
    /\ conn[s] = "up"
    /\ conn' = [conn EXCEPT ![s] = "gone"]
    /\ dead' = dead \cup Killed(s)
    /\ ended' = EndedWith(Killed(s))
    /\ UNCHANGED <<list, session, endpoint, active, used, played>>
    /\ ServerFrame

-----------------------------------------------------------------------------
(* The worker: open() and close() *)

\* A sink whose port cannot be bound stays as it is.
Open ==
    /\ worker = "idle"
    /\ ~sinkOpen
    /\ sinkOpen' = TRUE
    /\ server' = TRUE
    /\ hasAudio' \in BOOLEAN
    /\ units' = <<>>
    /\ got' = [c \in Clients |-> {}]
    /\ UNCHANGED <<conn, listVars, workerVars, used, played, ended>>

\* The server's thread is told to quit; it finishes the event it is at.
CloseBegins ==
    /\ worker = "idle"
    /\ sinkOpen
    /\ sinkOpen' = FALSE
    /\ worker' = "closing"
    /\ UNCHANGED <<server, hasAudio, conn, listVars, started, context, targets,
                   historyVars>>

\* The thread has ended; the server is deleted with its connections, whose sockets
\* do not report that they close.
ServerEnds ==
    /\ worker = "closing"
    /\ server
    /\ server' = FALSE
    /\ conn' = [s \in Sessions |-> IF conn[s] = "up" THEN "gone" ELSE conn[s]]
    /\ UNCHANGED <<sinkOpen, hasAudio, listVars, workerVars, historyVars>>

\* Mutant: the muxers of the clients are not closed.
WithoutKeeping(gone) == context

\* closeClientContext() of the clients that leave the list.
Without(gone) == [c \in Clients |-> IF c \in gone THEN None ELSE context[c]]

\* The clients are no longer in the list and their objects are deleted, with what is
\* recorded of them.
Remove(gone) ==
    /\ list' = list \ gone
    /\ active' = active \ gone
    /\ dead' = dead \ gone
    /\ started' = started \ gone
    /\ context' = Without(gone)
    /\ endpoint' = [c \in Clients |-> IF c \in gone THEN None ELSE endpoint[c]]
    /\ got' = [c \in Clients |-> IF c \in gone THEN {} ELSE got[c]]
    /\ played' = [c \in Clients |-> IF c \in gone THEN 0 ELSE played[c]]
    /\ ended' = [c \in Clients |-> IF c \in gone THEN 0 ELSE ended[c]]
    /\ UNCHANGED session

CloseClears ==
    /\ worker = "closing"
    /\ ~server
    /\ Remove(list)
    /\ worker' = "idle"
    /\ UNCHANGED <<sinkOpen, server, hasAudio, conn, targets, used, units>>

-----------------------------------------------------------------------------
(* The worker: writeVideo() and writeAudio() *)

\* The unit in hand is the last one.
Unit == units[Len(units)]

\* reapDeadClients()
WriteBegins ==
    /\ worker = "idle"
    /\ sinkOpen
    /\ Len(units) < MaxUnits
    /\ \E kind \in UnitKinds :
          /\ kind = "audio" => hasAudio
          /\ units' = Append(units, kind)
    /\ Remove(dead)
    /\ worker' = "collecting"
    /\ UNCHANGED <<sinkOpen, server, hasAudio, conn, targets, used>>

\* Mutant: a client that was killed is served until it is reaped.
WantsUnitDead(c) == c \in active /\ (c \in started \/ Unit = "key")

\* Mutant: a client is not held until a keyframe.
WantsUnitAtOnce(c) == c \in active \ dead /\ (c \in started \/ Unit # "audio")

\* Mutant: only a client that has a muxer is served.
WantsUnitStarted(c) == c \in active \ dead /\ c \in started

\* Whether a client is to have the unit in hand.
WantsUnit(c) == c \in active \ dead /\ (c \in started \/ Unit = "key")

Collect ==
    /\ worker = "collecting"
    /\ targets' = {c \in list : WantsUnit(c)}
    /\ worker' = "serving"
    /\ UNCHANGED <<sinkOpen, server, hasAudio, conn, listVars, started, context,
                   historyVars>>

ServeFrame == UNCHANGED <<sinkOpen, server, hasAudio, conn, list, session, endpoint,
                          active, worker, used, units, played>>

\* ensureContext(): a client without a muxer gets one for its endpoint of now.
Ensured(c) == [context EXCEPT ![c] = IF @ = None THEN endpoint[c] ELSE @]

Serve(c) ==
    /\ worker = "serving"
    /\ c \in targets
    /\ targets' = targets \ {c}
    /\ context' = Ensured(c)
    /\ started' = started \cup {c}
    /\ got' = [got EXCEPT ![c] = @ \cup {Len(units)}]
    /\ UNCHANGED <<dead, ended>>
    /\ ServeFrame

\* The muxer or the socket fails, and the client is marked as dead.
ServeFails(c) ==
    /\ worker = "serving"
    /\ c \in targets
    /\ targets' = targets \ {c}
    /\ \/ context[c] = None /\ UNCHANGED <<context, started>>
       \/ context' = Ensured(c) /\ started' = started \cup {c}
    /\ dead' = dead \cup {c}
    /\ ended' = EndedWith({c})
    /\ UNCHANGED got
    /\ ServeFrame

WriteEnds ==
    /\ worker = "serving"
    /\ targets = {}
    /\ worker' = "idle"
    /\ UNCHANGED <<sinkOpen, server, hasAudio, conn, listVars, started, context, targets,
                   historyVars>>

-----------------------------------------------------------------------------
ServerStep ==
    \E s \in Sessions :
        Accept(s) \/ Setup(s) \/ Play(s) \/ Teardown(s) \/ Disconnect(s)

WorkerStep ==
    \/ Open \/ CloseBegins \/ ServerEnds \/ CloseClears
    \/ WriteBegins \/ Collect \/ WriteEnds
    \/ \E c \in Clients : Serve(c) \/ ServeFails(c)

Next == ServerStep \/ WorkerStep

Spec == Init /\ [][Next]_vars

-----------------------------------------------------------------------------
\* The values every variable takes.
ThreadsTyped ==
    /\ sinkOpen \in BOOLEAN /\ server \in BOOLEAN /\ hasAudio \in BOOLEAN
    /\ conn \in [Sessions -> {"none", "up", "gone"}]
    /\ worker \in {"idle", "collecting", "serving", "closing"}
    /\ units \in Seq(UnitKinds) /\ Len(units) <= MaxUnits
ClientsTyped ==
    /\ list \subseteq used /\ used \subseteq Clients
    /\ active \subseteq list /\ dead \subseteq list
    /\ session \in [Clients -> Sessions \cup {None}]
    /\ endpoint \in [Clients -> Endpoints \cup {None}]
    /\ context \in [Clients -> Endpoints \cup {None}]
HistoryTyped ==
    /\ got \in [Clients -> SUBSET (1 .. MaxUnits)]
    /\ played \in [Clients -> 0 .. MaxUnits]
    /\ ended \in [Clients -> 0 .. MaxUnits]
TypeOK == ThreadsTyped /\ ClientsTyped /\ HistoryTyped

\* "A client's muxer can never be written while it is being torn down": the pointers
\* collected under the mutex are those of clients in the list until each has been
\* served, whatever the server thread does meanwhile, and only a client in the list has
\* a muxer, so that none is left open when a client goes.
MuxersBelongToClients ==
    /\ targets \subseteq list
    /\ \A c \in Clients : context[c] # None => c \in list
    /\ started \subseteq list

\* Nothing of a session outlives close(): no client, and so no muxer, is handed on to
\* the next time the sink is opened, and no server thread is there to add one.
ClosedIsEmpty == ~sinkOpen /\ worker = "idle" => ~server /\ list = {}

\* A session has at most one client that is served, and once its connection is gone it
\* has none, even when it set up again after a TEARDOWN.
OnePlayerPerSession ==
    \A c \in list \ dead :
        /\ conn[session[c]] = "up" \/ ~server
        /\ \A d \in list \ dead : session[c] = session[d] => c = d

\* A player's media begin with a keyframe and have no gap from there on, across any
\* interleaving of its requests with the writes ("so it always starts on a clean GOP").
PlaysFromKeyframe ==
    worker = "idle" =>
        \A c \in started \ dead :
            \E first \in 1 .. Len(units) :
                /\ units[first] = "key"
                /\ got[c] = first .. Len(units)

\* Not longer than that is a player held: when a keyframe has been written since its
\* PLAY, it has started.
HeldToNextKeyframe ==
    worker = "idle" =>
        \A c \in active \ dead :
            (\E n \in played[c] + 1 .. Len(units) : units[n] = "key") => c \in started

\* After the TEARDOWN or the disconnect of a session, its client is still in the list and
\* its muxer is open; what it may still be sent is the one unit whose targets had been
\* collected by then.
NothingAfterTeardown == \A c \in dead : \A n \in got[c] : n <= ended[c]

\* What a comment says and the code does not do: "a second SETUP replaces the first".
MediaGoWhereSetUp ==
    \A c \in list \ dead : context[c] # None => context[c] = endpoint[c]
=============================================================================
